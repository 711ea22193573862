--------------------------- MODULE VaultLifecycle ---------------------------
(***************************************************************************)
(* The verbs of KeyLifecycle for a profile that keeps its keys in          *)
(* 1Password: rotateOnePassword and rollbackOnePassword. The private half  *)
(* is an item of the vault, found by its title and then addressed by ID;   *)
(* the public half is a file. A profile that has just been moved into      *)
(* 1Password still has its outgoing key as a pair of files.                *)
(*                                                                         *)
(*   stage -> generate -> writePub -> deploy -> pullBack -> unwind         *)
(*      -> dropPrevious -> retire -> setAside -> entitle -> keepPub        *)
(*      -> succeed -> cleanStaging -> revokeOld             (commit)       *)
(*   setStale -> stepDown -> reinstate -> returnPub -> putAway -> redeploy *)
(***************************************************************************)
EXTENDS KeyLifecycle, Naturals, Sequences

CONSTANT LostAnswers    \* BOOLEAN: may op carry a change out and not answer in time

ASSUME VaultAssumption == LostAnswers \in BOOLEAN

VARIABLES
    title,      \* [Key -> the title of its item, "archived", or "none"]
    fileEra,    \* key files set aside as old/<key>.file-era
    cur,        \* the item that was found under the live title
    prev,       \* the item a rollback found under the old title
    undo        \* what is to be put back, the latest change first

\* mishap: here a process died, an answer was lost, or an undo failed.
vaultVars == <<title, fileEra, cur, prev, undo, mishap>>
allVars == <<lifecycleVars, vaultVars>>

Titles == {"live", "staged", "old", "rolledBack"}
Undos == {"live", "staged", "fileEra", "filePair"}
VaultSteps == {"stage", "generate", "writePub", "unwind", "dropPrevious", "retire", "setAside",
               "entitle", "keepPub", "succeed",
               "setStale", "stepDown", "reinstate", "returnPub", "putAway"}

(***************************************************************************)
(* Three homes: the profile has just been moved into 1Password, its key k  *)
(* was generated there, or it has rotated there under an earlier authama,  *)
(* which left the key file f of the move in old/ beside the .pub of the    *)
(* predecessor p.                                                          *)
(***************************************************************************)
Home(keys, private, public, titles) ==
    /\ minted = keys
    /\ priv = [s \in Slots |-> IF s \in DOMAIN private THEN private[s] ELSE None]
    /\ pub = [s \in Slots |-> IF s \in DOMAIN public THEN public[s] ELSE None]
    /\ title = [k \in Key |-> IF k \in DOMAIN titles THEN titles[k] ELSE "none"]
    /\ path = [k \in Key |-> IF k = public["canonical"] THEN "canonical"
                             ELSE IF k \in DOMAIN titles THEN "old" ELSE "none"]
    /\ deployments = [k \in Key |-> IF k = public["canonical"]
                                    THEN [t \in Targets |-> "verified"] ELSE NotDeployed]
    /\ trusts = [t \in Targets |-> {public["canonical"]}]

VaultInit ==
    /\ \E k \in Key :
        \/ Home({k}, [canonical |-> k], [canonical |-> k], [j \in {} |-> "none"])
        \/ Home({k}, [canonical |-> None], [canonical |-> k], [j \in {k} |-> "live"])
        \/ \E p, f \in Key :
            /\ Cardinality({k, p, f}) = 3
            /\ Home({k, p, f}, [old |-> f], [canonical |-> k, old |-> p],
                    [j \in {k, p} |-> IF j = k THEN "live" ELSE "old"])
    /\ pc = "idle" /\ verb = "none"
    /\ incoming = None /\ outgoing = None
    /\ todo = {} /\ deployed = {} /\ verified = {} /\ unverifiedOk = FALSE
    /\ revoked = {} /\ unreached = {} /\ removedFrom = {}
    /\ fileEra = {} /\ cur = None /\ prev = None /\ undo = <<>> /\ mishap = FALSE

-----------------------------------------------------------------------------
(***************************************************************************)
(* The op CLI                                                              *)
(***************************************************************************)
Titled(name) == {k \in Key : title[k] = name}

\* Get finds one item, none, or fails: op is out of reach, or the title is not unique.
Found(name, k) == Titled(name) = {k}
NotFound(name) == Titled(name) = {}
GetFails(name) == FsFaults \/ Cardinality(Titled(name)) > 1

(* Rename and Archive of the item k. A call that times out may have been   *)
(* carried out.                                                            *)
Retitle(k, name, done, failing) ==
    \/ /\ title' = [title EXCEPT ![k] = name]
       /\ done
       /\ UNCHANGED mishap
    \/ /\ FsFaults
       /\ failing
       /\ UNCHANGED <<title, mishap>>
    \/ /\ LostAnswers
       /\ title' = [title EXCEPT ![k] = name]
       /\ failing
       /\ mishap' = TRUE

\* Put back what was done, and discard the staged key.
Unwind(changes) ==
    /\ Goto("unwind")
    /\ undo' = changes
    /\ UNCHANGED <<cur, prev>>

\* The next step, with one more change to put back should a later one fail.
Advance(step, changes) ==
    /\ Goto(step)
    /\ undo' = changes \o undo
    /\ UNCHANGED prev

\* The verb returns.
Leave ==
    /\ Return
    /\ cur' = None /\ prev' = None /\ undo' = <<>>

\* Only a loop over hosts reaches targets, and only Save writes records.
NoTargets == UNCHANGED <<minted, trusts, inventoryVars, revoked, unreached, removedFrom>>
NoFiles == UNCHANGED <<fileVars, fileEra>>

-----------------------------------------------------------------------------
(***************************************************************************)
(* Rotation: a fresh item and its public half                              *)
(***************************************************************************)
\* Guard and preflight; the key is present when its .pub is.
StartVaultRotate(allow) ==
    /\ pc = "idle"
    /\ pub["canonical"] # None
    /\ minted # Key                          \* bound: the items that can be generated
    /\ pc' = "stage"
    /\ verb' = "rotate"
    /\ outgoing' = pub["canonical"]
    /\ unverifiedOk' = allow
    /\ UNCHANGED <<incoming, todo, deployed, verified, fileVars, vaultVars>>
    /\ NoTargets

\* A staged item of an earlier rotation is archived.
Stage ==
    /\ pc = "stage"
    /\ \/ NotFound("staged") /\ Goto("generate") /\ UNCHANGED vaultVars
       \/ /\ \E k \in Key : Found("staged", k) /\ Retitle(k, "archived", Goto("generate"), Leave)
          /\ UNCHANGED <<fileEra, cur, prev, undo>>
       \/ GetFails("staged") /\ Leave /\ UNCHANGED <<title, fileEra, mishap>>
    /\ UNCHANGED fileVars
    /\ NoTargets

GenerateItem ==
    /\ pc = "generate"
    /\ \/ \E k \in Key \ minted :
            /\ minted' = minted \cup {k}
            /\ title' = [title EXCEPT ![k] = "staged"]
            /\ \/ /\ incoming' = k
                  /\ pc' = "writePub"
                  /\ pub' = Without(pub, "staging")
                  /\ UNCHANGED <<verb, outgoing, todo, deployed, verified, unverifiedOk, mishap>>
               \/ LostAnswers /\ Return /\ mishap' = TRUE /\ UNCHANGED pub
       \/ FsFaults /\ Return /\ UNCHANGED <<minted, title, mishap, pub>>
    /\ UNCHANGED <<priv, fileEra>>
    /\ UNCHANGED <<cur, prev, undo, trusts, inventoryVars, revoked, unreached, removedFrom>>

WriteStagedPub ==
    /\ pc = "writePub"
    /\ \/ /\ pub' = [pub EXCEPT !["staging"] = incoming]
          /\ GotoLoop("deploy", Targets)
          /\ UNCHANGED <<cur, prev, undo>>
       \/ FsFaults /\ Unwind(<<>>) /\ UNCHANGED pub
    /\ UNCHANGED <<priv, title, fileEra, mishap>>
    /\ NoTargets

VaultCommit ==
    /\ pc = "deploy"
    /\ todo = {}
    /\ Ready
    /\ \/ Goto("dropPrevious") /\ UNCHANGED <<cur, prev, undo>>
       \/ FsFaults /\ Unwind(<<>>)
    /\ NoFiles /\ NoTargets
    /\ UNCHANGED <<title, mishap>>

\* Pulled back from every target it had reached.
PulledBack ==
    /\ pc = "pullBack"
    /\ todo = {}
    /\ Unwind(<<>>)
    /\ NoFiles /\ NoTargets
    /\ UNCHANGED <<title, mishap>>

-----------------------------------------------------------------------------
(***************************************************************************)
(* Rotation: the commit                                                    *)
(***************************************************************************)
(* One predecessor: the earlier one goes to the vault's Archive. An op     *)
(* that fails to look for it is taken for one that found nothing.          *)
DropPrevious ==
    /\ pc = "dropPrevious"
    /\ \/ \E k \in Key : /\ Found("old", k)
                         /\ Retitle(k, "archived", Advance("retire", <<>>), Unwind(<<>>))
       \/ NotFound("old") /\ Advance("retire", <<>>) /\ UNCHANGED <<title, mishap>>
       \/ GetFails("old") /\ Advance("retire", <<>>) /\ mishap' = TRUE /\ UNCHANGED title
    /\ NoFiles /\ NoTargets
    /\ UNCHANGED cur

\* The outgoing key becomes the predecessor, in the vault or, on the way in, on disk.
Retire ==
    /\ pc = "retire"
    /\ \/ /\ \E k \in Key : /\ Found("live", k)
                            /\ Retitle(k, "old", Advance("setAside", <<"live">>) /\ cur' = k,
                                       Unwind(<<>>))
          /\ UNCHANGED priv
       \/ /\ NotFound("live") /\ priv["canonical"] # None
          /\ priv' = Moved(priv, "canonical", "old")
          /\ Advance("entitle", <<"filePair">>)
          /\ UNCHANGED <<title, cur, mishap>>
       \/ /\ NotFound("live") /\ priv["canonical"] = None
          /\ Advance("entitle", <<>>)
          /\ UNCHANGED <<title, cur, mishap, priv>>
       \/ /\ GetFails("live") \/ (FsFaults /\ NotFound("live"))
          /\ Unwind(<<>>)
          /\ UNCHANGED <<title, cur, mishap, priv>>
    /\ UNCHANGED <<pub, fileEra>>
    /\ NoTargets

KeptAside == fileEra \cup {priv["old"]}

\* A key file in old/ would pose as the predecessor of a key in the vault.
SetAside ==
    /\ pc = "setAside"
    /\ \/ /\ priv["old"] = None
          /\ Advance("entitle", <<>>)
          /\ UNCHANGED <<priv, fileEra>>
       \/ /\ priv["old"] # None
          /\ fileEra' = KeptAside
          /\ priv' = Without(priv, "old")
          /\ Advance("entitle", <<"fileEra">>)
       \/ /\ FsFaults /\ priv["old"] # None
          /\ Unwind(undo)
          /\ UNCHANGED <<priv, fileEra>>
    /\ UNCHANGED <<pub, title, cur, mishap>>
    /\ NoTargets

Entitle ==
    /\ pc = "entitle"
    /\ Retitle(incoming, "live", Advance("keepPub", <<"staged">>), Unwind(undo))
    /\ NoFiles /\ NoTargets
    /\ UNCHANGED cur

KeptPub == Linked(pub, "old")

KeepPub ==
    /\ pc = "keepPub"
    /\ \/ pub' = KeptPub /\ Advance("succeed", <<>>)
       \/ FsFaults /\ Unwind(undo) /\ UNCHANGED pub
    /\ UNCHANGED <<priv, title, fileEra, cur, mishap>>
    /\ NoTargets

Succeed ==
    /\ pc = "succeed"
    /\ \/ /\ pub' = Moved(pub, "staging", "canonical")
          /\ Goto("cleanStaging")
          /\ cur' = None /\ prev' = None /\ undo' = <<>>
       \/ /\ FsFaults
          /\ Unwind(undo)
          /\ UNCHANGED <<pub, cur>>
    /\ UNCHANGED <<priv, title, fileEra, mishap>>
    /\ NoTargets

PutBack(change) ==
    CASE change = "live"     -> /\ title' = [title EXCEPT ![cur] = "live"]
                                /\ UNCHANGED <<priv, fileEra>>
      [] change = "staged"   -> /\ title' = [title EXCEPT ![incoming] = "staged"]
                                /\ UNCHANGED <<priv, fileEra>>
      [] change = "filePair" -> /\ priv' = Moved(priv, "old", "canonical")
                                /\ UNCHANGED <<title, fileEra>>
      [] change = "fileEra"  -> \E f \in fileEra : /\ priv' = [priv EXCEPT !["old"] = f]
                                                   /\ fileEra' = fileEra \ {f}
                                                   /\ UNCHANGED title

\* Every undo is tried, and none of them is checked.
UndoNext ==
    /\ pc = "unwind"
    /\ undo # <<>>
    /\ undo' = Tail(undo)
    /\ \/ PutBack(Head(undo)) /\ UNCHANGED mishap
       \/ FsFaults /\ mishap' = TRUE /\ UNCHANGED <<priv, title, fileEra>>
    /\ UNCHANGED <<pub, cur, prev, verbVars>>
    /\ NoTargets

DiscardItem ==
    /\ pc = "unwind"
    /\ undo = <<>>
    /\ pub' = Without(pub, "staging")
    /\ \/ title' = [title EXCEPT ![incoming] = "archived"] /\ UNCHANGED mishap
       \/ FsFaults /\ mishap' = TRUE /\ UNCHANGED title
    /\ Leave
    /\ UNCHANGED <<priv, fileEra>>
    /\ NoTargets

-----------------------------------------------------------------------------
(***************************************************************************)
(* Rollback                                                                *)
(***************************************************************************)
(* A key file in old/ is the predecessor while old/<key>.pub is its public *)
(* half, and then the vault has nothing to roll back to.                   *)
StartVaultRollback(k) ==
    /\ pc = "idle"
    /\ priv["old"] # None => priv["old"] # pub["old"]
    /\ Found("old", k)
    /\ pub["old"] # None
    /\ pc' = IF priv["old"] # None THEN "setStale" ELSE "stepDown"
    /\ verb' = "rollback"
    /\ incoming' = pub["old"]
    /\ outgoing' = pub["canonical"]
    /\ prev' = k
    /\ unreached' = {}
    /\ UNCHANGED <<todo, deployed, verified, unverifiedOk>>
    /\ UNCHANGED <<fileVars, title, fileEra, cur, undo, mishap>>
    /\ UNCHANGED <<minted, trusts, inventoryVars, revoked, removedFrom>>

SetStale ==
    /\ pc = "setStale"
    /\ \/ /\ fileEra' = KeptAside
          /\ priv' = Without(priv, "old")
          /\ Goto("stepDown")
          /\ UNCHANGED <<cur, prev, undo>>
       \/ FsFaults /\ Leave /\ UNCHANGED <<priv, fileEra>>
    /\ UNCHANGED <<pub, title, mishap>>
    /\ NoTargets

\* Out of the live title first, so the predecessor can take it.
StepDown ==
    /\ pc = "stepDown"
    /\ \/ \E k \in Key :
            /\ Found("live", k)
            /\ Retitle(k, "rolledBack", Goto("reinstate") /\ cur' = k /\ UNCHANGED <<prev, undo>>, Leave)
       \/ NotFound("live") /\ Goto("reinstate") /\ UNCHANGED <<title, cur, prev, undo, mishap>>
       \/ GetFails("live") /\ Leave /\ UNCHANGED <<title, mishap>>
    /\ NoFiles /\ NoTargets

\* Mutant of SteppedBack: the rotated-in item keeps the title it was given.
SteppedBack_Not == title

SteppedBack == [k \in Key |-> IF k = cur THEN "live" ELSE title[k]]

Reinstate ==
    /\ pc = "reinstate"
    /\ \/ title' = [title EXCEPT ![prev] = "live"] /\ Goto("returnPub") /\ UNCHANGED <<mishap, cur, prev, undo>>
       \/ FsFaults /\ title' = SteppedBack /\ Leave /\ UNCHANGED mishap
       \/ FsFaults /\ Leave /\ mishap' = TRUE /\ UNCHANGED title
       \/ LostAnswers /\ title' = [SteppedBack EXCEPT ![prev] = "live"] /\ Leave /\ mishap' = TRUE
    /\ NoFiles /\ NoTargets

\* "Move it by hand": where it fails, the titles have changed already.
ReturnPub ==
    /\ pc = "returnPub"
    /\ \/ /\ pub' = Moved(pub, "old", "canonical")
          /\ Goto("putAway")
          /\ UNCHANGED <<cur, prev, undo, mishap>>
       \/ FsFaults /\ Leave /\ mishap' = TRUE /\ UNCHANGED pub
    /\ UNCHANGED <<priv, title, fileEra>>
    /\ NoTargets

PutAway ==
    /\ pc = "putAway"
    /\ \/ cur # None /\ title' = [title EXCEPT ![cur] = "archived"]
       \/ /\ cur = None \/ FsFaults
          /\ UNCHANGED title
    /\ GotoLoop("redeploy", Targets)
    /\ cur' = None /\ prev' = None /\ UNCHANGED <<undo, mishap>>
    /\ NoFiles /\ NoTargets

(* finishRollback: the login of a server is through the agent, with the    *)
(* public half for a name.                                                 *)
RedeployFromVault(t) ==
    /\ pc = "redeploy"
    /\ t \in todo
    /\ \E d \in Deploys(t) :
        LET keys == IF d.landed THEN trusts[t] \cup {pub["canonical"]} ELSE trusts[t]
        IN  \E proven \in Verdicts(t, keys, pub["canonical"]), left \in Removals(t, keys, outgoing) :
                /\ trusts' = [trusts EXCEPT ![t] = left]
                /\ deployed' = IF d.outcome # "failed" THEN deployed \cup {t} ELSE deployed
                /\ verified' = IF proven THEN verified \cup {t} ELSE verified
    /\ todo' = todo \ {t}
    /\ UNCHANGED <<pc, verb, incoming, outgoing, unverifiedOk>>
    /\ UNCHANGED <<fileVars, minted, inventoryVars, revoked, unreached, removedFrom, vaultVars>>

-----------------------------------------------------------------------------
VaultCrash ==
    /\ Crashes
    /\ pc # "idle"
    /\ Leave
    /\ mishap' = TRUE
    /\ unreached' = {} /\ removedFrom' = {}
    /\ UNCHANGED <<fileVars, fileEra, title, minted, trusts, inventoryVars, revoked>>

\* What the file store and the vault have in common.
SharedStep ==
    \/ /\ \/ \E t \in Targets : DeployStaged(t) \/ PullBack(t) \/ RevokeOld(t)
          \/ Refused \/ Abort \/ CleanStaging \/ SaveRotation
       /\ UNCHANGED <<revoked, unreached, removedFrom>>
    \/ /\ SaveRollback \/ \E t \in Targets : SkipUnreachable(t)
       /\ UNCHANGED removedFrom

VaultStep ==
    \/ \E allow \in {FALSE, AllowUnverified} : StartVaultRotate(allow)
    \/ Stage \/ GenerateItem \/ WriteStagedPub \/ VaultCommit \/ PulledBack
    \/ DropPrevious \/ Retire \/ SetAside \/ Entitle \/ KeepPub \/ Succeed
    \/ UndoNext \/ DiscardItem
    \/ \E k \in Key : StartVaultRollback(k)
    \/ SetStale \/ StepDown \/ Reinstate \/ ReturnPub \/ PutAway
    \/ \E t \in Targets : RedeployFromVault(t)
    \/ VaultCrash

VaultNext == VaultStep \/ (SharedStep /\ UNCHANGED vaultVars)

\* Rotations and rollbacks.
VaultSpec == VaultInit /\ [][VaultNext]_allVars

\* With deploy and key revoke, which do the same for either store.
VaultLifecycleSpec ==
    VaultInit /\ [][VaultNext \/ (LifecycleStep /\ UNCHANGED vaultVars)]_allVars

-----------------------------------------------------------------------------
(***************************************************************************)
(* Properties                                                              *)
(***************************************************************************)
Calm == ~mishap

(* Type correctness, and no verb inherits what another one had to undo.    *)
VaultTypeOK ==
    /\ KeyTargetsTypeOK
    /\ title \in [Key -> Titles \cup {"none", "archived"}]
    /\ fileEra \subseteq Key
    /\ {cur, prev, incoming, outgoing} \subseteq Key \cup {None}
    /\ undo \in Seq(Undos)
    /\ pc = "idle" => cur = None /\ prev = None /\ undo = <<>>
    /\ pc \in RotateSteps \cup RollbackSteps \cup LifecycleSteps \cup VaultSteps \cup {"idle"}

(* Where no answer was lost and no undo failed, "the active key is         *)
(* untouched" by whatever step of a rotation or a rollback failed: between *)
(* verbs the key that ssh offers is the live item of the vault, or still   *)
(* the key file of a profile on its way in.                                *)
ActiveKeyIsLive ==
    pc = "idle" /\ Calm =>
        \/ Titled("live") = {pub["canonical"]}
        \/ Titled("live") = {} /\ priv["canonical"] = pub["canonical"]

(* "Exactly one predecessor sits at .old", and it is the one whose public  *)
(* half is in old/: a rollback restores a pair that matches.               *)
PredecessorMatches ==
    pc = "idle" /\ Calm =>
        /\ Cardinality(Titled("old")) <= 1
        /\ \A k \in Titled("old") : pub["old"] = k

(* "Nothing is deleted: key material is only ever moved." A key that is    *)
(* not in the vault stays on disk, whatever fails.                         *)
KeyFileIsKept ==
    \A k \in minted : title[k] = "none" => k \in {priv["canonical"], priv["old"]} \cup fileEra

(* Both: what a rotation replaced is there to come back.                   *)
PredecessorIsKept == PredecessorMatches /\ KeyFileIsKept

(* What a person has after any verb, failed or not: the key in use and the *)
(* one before it, each where a rotation or a rollback looks for it.        *)
BothKeysAreThere == ActiveKeyIsLive /\ PredecessorIsKept

(* No step of a rotation takes the active key from a target that let it    *)
(* in, and none makes a key active that a target does not let in, whatever *)
(* dies, fails or is not answered.                                         *)
RotationNeverCutsOff ==
    [][verb = "rotate" /\ ~AllowUnverified =>
        \A t \in Targets : pub["canonical"] \in trusts[t] => pub'["canonical"] \in trusts'[t]]_allVars
=============================================================================
