------------------------------- MODULE Rotate -------------------------------
(***************************************************************************)
(* `authama ssh rotate`: Rotator.Rotate, one action per step that a crash  *)
(* or a failed system call can separate from the next. One verb runs at a  *)
(* time (the advisory lock), so there is one program counter.              *)
(*                                                                         *)
(*   deploy -> pullBack                                (verification failed)*)
(*          -> unlinkPriv -> linkPriv -> unlinkPub -> linkPub   preservePair*)
(*          -> promotePriv -> promotePub -> cleanStaging -> revokeOld (commit)*)
(***************************************************************************)
EXTENDS KeyTargets

CONSTANTS
    AllowUnverified,    \* BOOLEAN: may the person pass --allow-unverified
    Crashes             \* BOOLEAN: may the process die in the middle of a verb

ASSUME RotateAssumption == AllowUnverified \in BOOLEAN /\ Crashes \in BOOLEAN

VARIABLES
    pc,         \* next step of the verb that holds the lock, or "idle"
    verb,       \* which verb that is
    incoming,   \* the key that is to become the active one
    outgoing,   \* the canonical public half as read when the verb began
    todo,       \* hosts the current loop has still to visit
    deployed,   \* results[i].Deployed
    verified,   \* results[i].Verified
    unverifiedOk \* the verb was given --allow-unverified

verbVars == <<pc, verb, incoming, outgoing, todo, deployed, verified, unverifiedOk>>
rotateVars == <<fileVars, minted, trusts, inventoryVars, verbVars>>

RotateSteps == {"deploy", "pullBack", "unlinkPriv", "linkPriv", "unlinkPub", "linkPub",
                "promotePriv", "promotePub", "cleanStaging", "revokeOld"}

RotateInit ==
    /\ KeyTargetsInit
    /\ pc = "idle"
    /\ verb = "none"
    /\ incoming = None
    /\ outgoing = None
    /\ todo = {}
    /\ deployed = {}
    /\ verified = {}
    /\ unverifiedOk = FALSE

-----------------------------------------------------------------------------
\* The verb returns: its locals are gone and the lock is free.
Return ==
    /\ pc' = "idle"
    /\ verb' = "none"
    /\ incoming' = None
    /\ outgoing' = None
    /\ todo' = {}
    /\ deployed' = {}
    /\ verified' = {}
    /\ unverifiedOk' = FALSE

\* Control moves on and the locals stay as they are.
Goto(step) ==
    /\ pc' = step
    /\ UNCHANGED <<verb, incoming, outgoing, todo, deployed, verified, unverifiedOk>>

\* Control moves on to a loop over hosts.
GotoLoop(step, hosts) ==
    /\ pc' = step
    /\ todo' = hosts
    /\ UNCHANGED <<verb, incoming, outgoing, deployed, verified, unverifiedOk>>

NextHost(t) ==
    /\ todo' = todo \ {t}
    /\ UNCHANGED <<pc, verb, incoming, outgoing, deployed, verified, unverifiedOk>>

(***************************************************************************)
(* A guarded verb that gets no further than its checks: the guard has      *)
(* swept .staging, and an unreachable server, a missing key or a revoked   *)
(* one ends it before anything else changed.                               *)
(***************************************************************************)
Refused ==
    /\ pc = "idle"
    /\ priv' = Without(priv, "staging")
    /\ pub' = Without(pub, "staging")
    /\ UNCHANGED <<minted, trusts, inventoryVars, verbVars>>

\* The process dies: memory and lock are gone, files and targets stay.
Crash ==
    /\ Crashes
    /\ pc # "idle"
    /\ Return
    /\ UNCHANGED <<fileVars, minted, trusts, inventoryVars>>

-----------------------------------------------------------------------------
(* Guard, preflight and mint: every server answered, and a fresh pair is   *)
(* in .staging, whatever a crashed rotation left there.                    *)
StartRotate(k, allow) ==
    /\ pc = "idle"
    /\ priv["canonical"] # None
    /\ k \notin minted
    /\ minted' = minted \cup {k}
    /\ priv' = [priv EXCEPT !["staging"] = k]
    /\ pub' = [pub EXCEPT !["staging"] = k]
    /\ pc' = "deploy"
    /\ verb' = "rotate"
    /\ incoming' = k
    /\ outgoing' = pub["canonical"]
    /\ todo' = Targets
    /\ deployed' = {}
    /\ verified' = {}
    /\ unverifiedOk' = allow
    /\ UNCHANGED <<trusts, inventoryVars>>

\* Deploy the staged public half to one host, then try to log in with it.
DeployStaged(t) ==
    /\ pc = "deploy"
    /\ t \in todo
    /\ \E d \in Deploys(t) :
        LET keys == IF d.landed THEN trusts[t] \cup {incoming} ELSE trusts[t]
        IN  \E proven \in Verdicts(t, keys, incoming) :
                /\ trusts' = [trusts EXCEPT ![t] = keys]
                /\ deployed' = IF d.outcome # "failed" THEN deployed \cup {t} ELSE deployed
                /\ verified' = IF proven THEN verified \cup {t} ELSE verified
    /\ todo' = todo \ {t}
    /\ UNCHANGED <<pc, verb, incoming, outgoing, unverifiedOk, fileVars, minted, inventoryVars>>

\* Mutant of Ready: a reported deploy is enough, --allow-unverified or not.
Ready_Deployed == verified = Targets \/ deployed = Targets

Ready == verified = Targets \/ (unverifiedOk /\ deployed = Targets)

\* Everything proved (or accepted unproved): commit, if there is an old/ to archive to.
Commit ==
    /\ pc = "deploy"
    /\ todo = {}
    /\ Ready
    /\ Goto("unlinkPriv") \/ (FsFaults /\ Return)
    /\ UNCHANGED <<fileVars, minted, trusts, inventoryVars>>

\* Not ready: take the staged key back from the hosts Deploy reported.
Abort ==
    /\ pc = "deploy"
    /\ todo = {}
    /\ ~Ready
    /\ GotoLoop("pullBack", deployed)
    /\ UNCHANGED <<fileVars, minted, trusts, inventoryVars>>

PullBack(t) ==
    /\ pc = "pullBack"
    /\ t \in todo
    /\ \E keys \in Removals(t, trusts[t], incoming) : trusts' = [trusts EXCEPT ![t] = keys]
    /\ NextHost(t)
    /\ UNCHANGED <<fileVars, minted, inventoryVars>>

Discard ==
    /\ pc = "pullBack"
    /\ todo = {}
    /\ priv' = Without(priv, "staging")
    /\ pub' = Without(pub, "staging")
    /\ Return
    /\ UNCHANGED <<minted, trusts, inventoryVars>>

-----------------------------------------------------------------------------
(***************************************************************************)
(* preservePair(canonical, Archive): unlink the slot, link the half, first *)
(* for the private half and then for the public one; a half that is not    *)
(* there is skipped with its slot untouched.                               *)
(***************************************************************************)
Archive == IF verb = "rotate" THEN "old" ELSE "rolledBack"
Preserved == IF verb = "rotate" THEN "promotePriv" ELSE "restorePriv"

UnlinkPriv ==
    /\ pc = "unlinkPriv"
    /\ IF priv["canonical"] = None
       THEN Goto("unlinkPub") /\ UNCHANGED priv
       ELSE Goto("linkPriv") /\ priv' = Without(priv, Archive)
    /\ UNCHANGED <<pub, minted, trusts, inventoryVars>>

LinkPriv ==
    /\ pc = "linkPriv"
    /\ \/ Goto("unlinkPub") /\ priv' = Linked(priv, Archive)
       \/ FsFaults /\ Return /\ UNCHANGED priv
    /\ UNCHANGED <<pub, minted, trusts, inventoryVars>>

UnlinkPub ==
    /\ pc = "unlinkPub"
    /\ IF pub["canonical"] = None
       THEN Goto(Preserved) /\ UNCHANGED pub
       ELSE Goto("linkPub") /\ pub' = Without(pub, Archive)
    /\ UNCHANGED <<priv, minted, trusts, inventoryVars>>

LinkPub ==
    /\ pc = "linkPub"
    /\ \/ Goto(Preserved) /\ pub' = Linked(pub, Archive)
       \/ FsFaults /\ Return /\ UNCHANGED pub
    /\ UNCHANGED <<priv, minted, trusts, inventoryVars>>

-----------------------------------------------------------------------------
\* Rename the staged private half over the canonical one; on failure removePair(old).
PromotePriv ==
    /\ pc = "promotePriv"
    /\ \/ /\ priv' \in Renames(priv, "staging", "canonical")
          /\ Goto("promotePub")
          /\ UNCHANGED pub
       \/ /\ FsFaults
          /\ priv' = Without(priv, "old")
          /\ pub' = Without(pub, "old")
          /\ Return
    /\ UNCHANGED <<minted, trusts, inventoryVars>>

(* The public half follows. If it cannot, the preserved private half goes  *)
(* back and old/ is emptied, unless that fails too.                        *)
PromotePub ==
    /\ pc = "promotePub"
    /\ \/ /\ pub' \in Renames(pub, "staging", "canonical")
          /\ Goto("cleanStaging")
          /\ UNCHANGED priv
       \/ /\ FsFaults
          /\ \E put \in Renames(priv, "old", "canonical") : priv' = Without(put, "old")
          /\ pub' = Without(pub, "old")
          /\ Return
       \/ /\ FsFaults
          /\ Return
          /\ UNCHANGED fileVars
    /\ UNCHANGED <<minted, trusts, inventoryVars>>

CleanStaging ==
    /\ pc = "cleanStaging"
    /\ priv' = Without(priv, "staging")
    /\ pub' = Without(pub, "staging")
    /\ GotoLoop("revokeOld", Targets)
    /\ UNCHANGED <<minted, trusts, inventoryVars>>

\* Mutant of RevokeOld: the public text is read after the swap.
RevokeOld_ReadLate(t) ==
    /\ pc = "revokeOld"
    /\ t \in todo
    /\ \E keys \in Removals(t, trusts[t], pub["canonical"]) :
            trusts' = [trusts EXCEPT ![t] = keys]
    /\ NextHost(t)
    /\ UNCHANGED <<fileVars, minted, inventoryVars>>

\* Best effort, with the public text read before the swap.
RevokeOld(t) ==
    /\ pc = "revokeOld"
    /\ t \in todo
    /\ \E keys \in Removals(t, trusts[t], outgoing) : trusts' = [trusts EXCEPT ![t] = keys]
    /\ NextHost(t)
    /\ UNCHANGED <<fileVars, minted, inventoryVars>>

-----------------------------------------------------------------------------
(***************************************************************************)
(* updateInventory: the record of an earlier predecessor goes; the         *)
(* outgoing record moves to old/, found by fingerprint when the public     *)
(* half had a record, by path otherwise; the new key gets its record.      *)
(***************************************************************************)
\* Mutant of KeptPath: an earlier predecessor keeps its record.
KeptPath_NoPurge == path

KeptPath == [k \in Key |-> IF path[k] = "old" /\ k # outgoing THEN "none" ELSE path[k]]

Recorded == {k \in Key : path[k] # "none"}

SettledPath ==
    [k \in Key |->
        IF k = incoming THEN "canonical"
        ELSE IF (IF outgoing \in Recorded THEN k = outgoing ELSE KeptPath[k] = "canonical")
        THEN "old"
        ELSE KeptPath[k]]

\* Mutant of Results: only the hosts that still have to be verified get an entry.
Results_UnverifiedOnly == [t \in Targets \ verified |-> "unverified"]

\* deployments(results): one entry per host, verified or not.
Results == [t \in Targets |-> IF t \in verified THEN "verified" ELSE "unverified"]

SettledDeployments ==
    [k \in Key |-> IF k = incoming THEN Results
                   ELSE IF SettledPath[k] = "none" THEN NotDeployed
                   ELSE deployments[k]]

(* The caller saves the inventory of a committed rotation.                 *)
SaveRotation ==
    /\ pc = "revokeOld"
    /\ todo = {}
    /\ path' = SettledPath
    /\ deployments' = SettledDeployments
    /\ Return
    /\ UNCHANGED <<fileVars, minted, trusts>>

-----------------------------------------------------------------------------
RotateStep ==
    \/ \E k \in Key, allow \in {FALSE, AllowUnverified} : StartRotate(k, allow)
    \/ \E t \in Targets : DeployStaged(t) \/ PullBack(t) \/ RevokeOld(t)
    \/ Commit \/ Abort \/ Discard
    \/ UnlinkPriv \/ LinkPriv \/ UnlinkPub \/ LinkPub
    \/ PromotePriv \/ PromotePub \/ CleanStaging \/ SaveRotation

RotateNext == Refused \/ RotateStep \/ Crash

RotateSpec == RotateInit /\ [][RotateNext]_rotateVars

-----------------------------------------------------------------------------
(***************************************************************************)
(* Properties                                                              *)
(***************************************************************************)

(* Type correctness of every variable.                                     *)
RotateTypeOK ==
    /\ KeyTargetsTypeOK
    /\ pc \in RotateSteps \cup {"idle"}
    /\ verb = IF pc = "idle" THEN "none" ELSE "rotate"
    /\ incoming \in Key \cup {None}
    /\ pc # "idle" => incoming # None
    /\ outgoing \in Key \cup {None}
    /\ todo \subseteq Targets
    /\ deployed \subseteq Targets
    /\ verified \subseteq Targets
    /\ unverifiedOk \in BOOLEAN

(* "The canonical path is the only identity ssh will offer, so it has to   *)
(* hold a working private key at every instant": the comment above the     *)
(* commit of Rotate, for every interleaving of crashes and failed calls.   *)
CanonicalKeyPresent == priv["canonical"] # None

(* Zero downtime. Every target lets in whatever key the canonical path     *)
(* holds, at every step of a rotation, after every crash and every failed  *)
(* rename, unless the person chose --allow-unverified.                     *)
ZeroDowntime == ~AllowUnverified => \A t \in Targets : priv["canonical"] \in trusts[t]

(* A private key that stops being the active one is still on disk, in old/ *)
(* or set aside beside it, in the very state that replaces it; the one     *)
(* exception is the undo of a rotation whose public half could not follow. *)
ReplacedKeyIsKept ==
    [][priv'["canonical"] # priv["canonical"] /\ priv["canonical"] # incoming
        => priv["canonical"] \in {priv'["old"], priv'["rolledBack"]}]_rotateVars

(* updateInventory never leaves "two records claim one path": the record   *)
(* of the outgoing key leaves the canonical path when its successor's      *)
(* arrives, also when an earlier crash lost an inventory save.             *)
OneRecordPerPath ==
    \A j, k \in Key : path[j] = path[k] /\ path[j] # "none" => j = k

(* Rotation as seen by somebody who only logs in: SafeSwitch.              *)
Abstract == INSTANCE SafeSwitch WITH active <- priv["canonical"]

SwitchesSafely == Abstract!SwitchSpec
=============================================================================
