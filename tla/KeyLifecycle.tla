---------------------------- MODULE KeyLifecycle ----------------------------
(***************************************************************************)
(* All the verbs that move one key between this machine and its targets:   *)
(* rotate and rollback, with `deploy` (Deployer.Deploy) and `key revoke`   *)
(* (Editor.RevokeKey). They share the lock, so they interleave only where  *)
(* one of them dies.                                                       *)
(***************************************************************************)
EXTENDS Rollback

VARIABLES
    removedFrom,    \* RevokeResult.Removed of the revoke under way
    mishap          \* a verb was cut short: its process died or a call failed

lifecycleVars == <<rollbackVars, removedFrom>>

LifecycleSteps == {"install", "withdraw", "listRevoked"}

LifecycleInit == RollbackInit /\ removedFrom = {} /\ mishap = FALSE

-----------------------------------------------------------------------------
(* deploy: the canonical public half, unless it is missing or revoked, to  *)
(* every host or to the one named.                                         *)
StartDeploy(hosts) ==
    /\ pc = "idle"
    /\ pub["canonical"] \notin revoked \cup {None}
    /\ priv' = Without(priv, "staging")
    /\ pub' = Without(pub, "staging")
    /\ pc' = "install"
    /\ verb' = "deploy"
    /\ incoming' = pub["canonical"]
    /\ outgoing' = None
    /\ todo' = hosts
    /\ UNCHANGED <<deployed, verified, unverifiedOk>>
    /\ UNCHANGED <<minted, trusts, inventoryVars, revoked, unreached, removedFrom>>

(* One host gets the key, or is recorded as not reached; only a deploy the *)
(* provider confirms itself counts as verified.                            *)
Install(t) ==
    /\ pc = "install"
    /\ t \in todo
    /\ \E d \in Deploys(t) :
        /\ trusts' = [trusts EXCEPT ![t] = IF d.landed THEN @ \cup {incoming} ELSE @]
        /\ verified' = IF d.outcome = "confirmed" THEN verified \cup {t} ELSE verified
    /\ deployed' = deployed \cup {t}
    /\ todo' = todo \ {t}
    /\ UNCHANGED <<pc, verb, incoming, outgoing, unverifiedOk>>
    /\ UNCHANGED <<fileVars, minted, inventoryVars, revoked, unreached, removedFrom>>

(* ensureRecord: a key without a record replaces the one at its path.      *)
EnsuredPath ==
    [k \in Key |-> IF incoming \in Recorded THEN path[k]
                   ELSE IF k = incoming THEN "canonical"
                   ELSE IF path[k] = "canonical" THEN "none"
                   ELSE path[k]]

\* recordDeployment for each host visited.
Installed ==
    [t \in Targets |-> IF t \in deployed THEN Results[t] ELSE deployments[incoming][t]]

SaveDeploy ==
    /\ pc = "install"
    /\ todo = {}
    /\ path' = EnsuredPath
    /\ deployments' = [k \in Key |-> IF k = incoming THEN Installed
                                     ELSE IF EnsuredPath[k] = "none" THEN NotDeployed
                                     ELSE deployments[k]]
    /\ Return
    /\ UNCHANGED <<fileVars, minted, trusts, revoked, unreached, removedFrom>>

-----------------------------------------------------------------------------
(* key revoke: the record at the canonical path names the fingerprint and  *)
(* the hosts to ask.                                                       *)
StartRevoke(k) ==
    /\ pc = "idle"
    /\ path[k] = "canonical"
    /\ pc' = "withdraw"
    /\ verb' = "revoke"
    /\ incoming' = None
    /\ outgoing' = k
    /\ todo' = {t \in Targets : deployments[k][t] # "none"}
    /\ UNCHANGED <<deployed, verified, unverifiedOk>>
    /\ UNCHANGED <<fileVars, minted, trusts, inventoryVars, revoked, unreached, removedFrom>>

\* removeFromTarget, with the text of the .pub that is on disk now.
Withdraw(t) ==
    /\ pc = "withdraw"
    /\ t \in todo
    /\ \E left \in Removals(t, trusts[t], pub["canonical"]), reported \in BOOLEAN :
        /\ reported => left # trusts[t]
        /\ trusts' = [trusts EXCEPT ![t] = left]
        /\ removedFrom' = IF reported THEN removedFrom \cup {t} ELSE removedFrom
    /\ NextHost(t)
    /\ UNCHANGED <<fileVars, minted, inventoryVars, revoked, unreached>>

\* Mutant of Withdrawn: a target the key stayed on is forgotten too.
Withdrawn_All == NotDeployed

\* The deployments that are left: those of the targets not removed from.
Withdrawn == [t \in Targets |-> IF t \in removedFrom THEN "none" ELSE deployments[outgoing][t]]

\* The inventory is saved first ...
SaveWithdrawn ==
    /\ pc = "withdraw"
    /\ todo = {}
    /\ deployments' = [deployments EXCEPT ![outgoing] = Withdrawn]
    /\ Goto("listRevoked")
    /\ removedFrom' = {}
    /\ UNCHANGED <<fileVars, minted, trusts, path, revoked, unreached>>

\* ... and revoked.json after it.
ListRevoked ==
    /\ pc = "listRevoked"
    /\ revoked' = revoked \cup {outgoing}
    /\ Return
    /\ UNCHANGED <<fileVars, minted, trusts, inventoryVars, unreached, removedFrom>>

-----------------------------------------------------------------------------
LifecycleStep ==
    \/ \E hosts \in {Targets} \cup {{t} : t \in Targets} : StartDeploy(hosts)
    \/ \E t \in Targets : Install(t) \/ Withdraw(t)
    \/ \E k \in Key : StartRevoke(k)
    \/ SaveDeploy \/ SaveWithdrawn \/ ListRevoked

\* A verb ends before its last step.
CutShort ==
    /\ pc # "idle" /\ pc' = "idle"
    /\ ~(Discard \/ SaveRotation \/ SaveRollback \/ SaveDeploy \/ ListRevoked)

LifecycleNext ==
    /\ \/ LifecycleStep
       \/ RollbackNext /\ removedFrom' = {}
    /\ mishap' = (mishap \/ CutShort)

LifecycleSpec == LifecycleInit /\ [][LifecycleNext]_<<lifecycleVars, mishap>>

-----------------------------------------------------------------------------
(***************************************************************************)
(* Properties                                                              *)
(***************************************************************************)

(* Type correctness of every variable.                                     *)
LifecycleTypeOK ==
    /\ KeyTargetsTypeOK
    /\ pc \in RotateSteps \cup RollbackSteps \cup LifecycleSteps \cup {"idle"}
    /\ verb \in {"none", "rotate", "rollback", "deploy", "revoke"}
    /\ {incoming, outgoing} \subseteq Key \cup {None}
    /\ UNION {todo, deployed, verified, unreached, removedFrom} \subseteq Targets
    /\ unverifiedOk \in BOOLEAN
    /\ revoked \subseteq Key

\* Between verbs, when none has been cut short.
Settled == pc = "idle" /\ ~mishap

(* The two halves of a pair belong together, at the canonical path and in  *)
(* old/, and no key is left set aside.                                     *)
PairsMatch ==
    Settled =>
        /\ \A s \in {"canonical", "old"} : priv[s] = pub[s]
        /\ priv["rolledBack"] = None /\ pub["rolledBack"] = None

(* The inventory names exactly the keys on disk at the canonical path and  *)
(* in old/.                                                                *)
InventoryMatchesDisk ==
    Settled => \A k \in Key :
        /\ path[k] = "canonical" <=> priv["canonical"] = k
        /\ path[k] = "old" <=> priv["old"] = k

(* Both: after any mix of verbs that were refused, aborted or committed,   *)
(* the files and the records tell one story.                               *)
DiskAndRecordsAgree == PairsMatch /\ InventoryMatchesDisk

(* "Committed means the rollback is complete": when the report says so,    *)
(* every server lets in the key that is now active.                        *)
CompleteMeansTrusted ==
    pc = "redeploy" /\ todo = {} /\ Complete /\ ~mishap =>
        \A t \in Targets : Kind[t] = "server" => priv["canonical"] \in trusts[t]

(* "A revoked key is never deployed again, wherever the request comes      *)
(* from": no loop over hosts is handing out a key listed in revoked.json,  *)
(* as long as no verb was cut short. A rotation that dies between the two  *)
(* moves into old/ leaves a private half there without its .pub, and a     *)
(* rollback to it derives the public half again and asks nobody.           *)
RevokedNeverDeployed ==
    todo # {} /\ ~mishap =>
        /\ (pc = "install" => incoming \notin revoked)
        /\ (pc = "redeploy" => pub["canonical"] \notin revoked)

(* The record of a key "still says where it is": between verbs, a target   *)
(* that lets in a key of the inventory is in that key's record, so a later *)
(* revoke asks it, whatever calls got lost on the way.                     *)
RecordCoversTrust ==
    Settled => \A k \in Recorded, t \in Targets :
        k \in trusts[t] => deployments[k][t] # "none"

=============================================================================
