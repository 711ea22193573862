------------------------------ MODULE Rollback ------------------------------
(***************************************************************************)
(* `authama ssh rollback`: Rotator.Rollback and finishRollback, beside the *)
(* rotate it undoes. It shares preservePair with Rotate and goes on         *)
(*                                                                         *)
(*   ... -> restorePriv -> restorePub -> settlePriv -> settlePub -> redeploy*)
(***************************************************************************)
EXTENDS Rotate

VARIABLES
    revoked,    \* fingerprints in revoked.json
    unreached   \* hosts finishRollback could not reach

rollbackVars == <<rotateVars, revoked, unreached>>

RollbackSteps == {"unlinkPriv", "linkPriv", "unlinkPub", "linkPub", "restorePriv",
                  "restorePub", "settlePriv", "settlePub", "redeploy"}

RollbackInit ==
    /\ RotateInit
    /\ revoked = {}
    /\ unreached = {}

-----------------------------------------------------------------------------
\* Mutant of MayRollBack: revoked.json is not consulted.
MayRollBack_Unchecked == priv["old"] # None

(* There is a predecessor, and its fingerprint (if its .pub is there to    *)
(* read) is not revoked.                                                   *)
MayRollBack == priv["old"] # None /\ pub["old"] \notin revoked

\* Guard, checks, and a preflight every server answered.
StartRollback ==
    /\ pc = "idle"
    /\ MayRollBack
    /\ priv' = Without(priv, "staging")
    /\ pub' = Without(pub, "staging")
    /\ pc' = "unlinkPriv"
    /\ verb' = "rollback"
    /\ incoming' = pub["old"]
    /\ outgoing' = pub["canonical"]
    /\ unreached' = {}
    /\ UNCHANGED <<todo, deployed, verified, unverifiedOk>>
    /\ UNCHANGED <<minted, trusts, inventoryVars, revoked>>

RestorePriv ==
    /\ pc = "restorePriv"
    /\ \/ Goto("restorePub") /\ priv' \in Renames(priv, "old", "canonical")
       \/ FsFaults /\ Return /\ UNCHANGED priv
    /\ UNCHANGED <<pub, minted, trusts, inventoryVars, revoked, unreached>>

(* The predecessor's .pub follows. A rename that fails, if only because    *)
(* there is nothing to rename, is made good by deriving the public half    *)
(* from the private one, which an encrypted key does not allow.            *)
RestorePub ==
    /\ pc = "restorePub"
    /\ \/ /\ pub["old"] # None
          /\ pub' \in Renames(pub, "old", "canonical")
          /\ Goto("settlePriv")
       \/ /\ FsFaults \/ pub["old"] = None
          /\ pub' = [pub EXCEPT !["canonical"] = priv["canonical"]]
          /\ Goto("settlePriv")
       \/ /\ FsFaults \/ pub["old"] = None
          /\ Return
          /\ UNCHANGED pub
    /\ UNCHANGED <<priv, minted, trusts, inventoryVars, revoked, unreached>>

\* The halves set aside move into old/, the private one first.
SettlePriv ==
    /\ pc = "settlePriv"
    /\ \/ /\ priv["rolledBack"] # None
          /\ priv' \in Renames(priv, "rolledBack", "old")
          /\ Goto("settlePub")
       \/ priv["rolledBack"] = None /\ Goto("settlePub") /\ UNCHANGED priv
       \/ FsFaults /\ Return /\ UNCHANGED priv
    /\ UNCHANGED <<pub, minted, trusts, inventoryVars, revoked, unreached>>

SettlePub ==
    /\ pc = "settlePub"
    /\ \/ /\ pub["rolledBack"] # None
          /\ pub' \in Renames(pub, "rolledBack", "old")
          /\ GotoLoop("redeploy", Targets)
       \/ pub["rolledBack"] = None /\ GotoLoop("redeploy", Targets) /\ UNCHANGED pub
       \/ FsFaults /\ Return /\ UNCHANGED pub
    /\ UNCHANGED <<priv, minted, trusts, inventoryVars, revoked, unreached>>

-----------------------------------------------------------------------------
\* A server that stopped answering since the preflight is skipped.
SkipUnreachable(t) ==
    /\ pc = "redeploy"
    /\ t \in todo
    /\ Kind[t] = "server"
    /\ unreached' = unreached \cup {t}
    /\ NextHost(t)
    /\ UNCHANGED <<fileVars, minted, trusts, inventoryVars, revoked>>

(* An ssh login proves the private half; an API looks the public half up.  *)
ProvenBy(t) ==
    CASE Kind[t] = "server" -> {priv["canonical"]}
      [] Kind[t] = "api"    -> {priv["canonical"], pub["canonical"]}
      [] Kind[t] = "panel"  -> {}

\* Deploy the restored key to one host, verify it, remove the key rolled back.
Redeploy(t) ==
    /\ pc = "redeploy"
    /\ t \in todo
    /\ \E d \in Deploys(t) :
        LET keys == IF d.landed THEN trusts[t] \cup {pub["canonical"]} ELSE trusts[t]
        IN  \E proven \in BOOLEAN, left \in Removals(t, keys, outgoing) :
                /\ proven => ProvenBy(t) \cap keys # {}
                /\ trusts' = [trusts EXCEPT ![t] = left]
                /\ deployed' = IF d.outcome # "failed" THEN deployed \cup {t} ELSE deployed
                /\ verified' = IF proven THEN verified \cup {t} ELSE verified
    /\ todo' = todo \ {t}
    /\ UNCHANGED <<pc, verb, incoming, outgoing, unverifiedOk>>
    /\ UNCHANGED <<fileVars, minted, inventoryVars, revoked, unreached>>

-----------------------------------------------------------------------------
\* Mutant of Complete: a host that refused the key does not count.
Complete_Reached == unreached = {}

\* What the report calls Committed.
Complete ==
    /\ unreached = {}
    /\ deployed = Targets
    /\ \A t \in Targets : Kind[t] = "server" => t \in verified

\* Mutant of RolledBackPath: the rotated-in record stays at the canonical path.
RolledBackPath_OutgoingStays ==
    [k \in Key |-> IF k \in Recorded /\ k = incoming THEN "canonical" ELSE path[k]]

\* The records follow the files.
RolledBackPath ==
    [k \in Key |-> IF k \notin Recorded THEN "none"
                   ELSE IF k = incoming THEN "canonical"
                   ELSE IF k = outgoing THEN "old"
                   ELSE path[k]]

\* The caller saves the inventory whether or not the rollback is complete.
SaveRollback ==
    /\ pc = "redeploy"
    /\ todo = {}
    /\ path' = RolledBackPath
    /\ deployments' = [k \in Key |-> IF k = incoming /\ k \in Recorded THEN Results
                                     ELSE deployments[k]]
    /\ unreached' = {}
    /\ Return
    /\ UNCHANGED <<fileVars, minted, trusts, revoked>>

-----------------------------------------------------------------------------
RollbackStep ==
    \/ StartRollback \/ RestorePriv \/ RestorePub \/ SettlePriv \/ SettlePub
    \/ \E t \in Targets : SkipUnreachable(t) \/ Redeploy(t)
    \/ SaveRollback

RollbackNext ==
    \/ (Refused \/ RotateStep) /\ UNCHANGED <<revoked, unreached>>
    \/ RollbackStep
    \/ Crash /\ unreached' = {} /\ UNCHANGED revoked

RollbackSpec == RollbackInit /\ [][RollbackNext]_rollbackVars

-----------------------------------------------------------------------------
(***************************************************************************)
(* Properties                                                              *)
(***************************************************************************)

(* Type correctness of every variable.                                     *)
RollbackTypeOK ==
    /\ KeyTargetsTypeOK
    /\ pc \in RotateSteps \cup RollbackSteps \cup {"idle"}
    /\ verb \in {"none", "rotate", "rollback"}
    /\ {incoming, outgoing} \subseteq Key \cup {None}
    /\ UNION {todo, deployed, verified, unreached} \subseteq Targets
    /\ unverifiedOk \in BOOLEAN
    /\ revoked \subseteq Key

(* Not so, and in no run: "a rollback that locks you out is worse than the *)
(* rotation it was undoing" (rotator.go:454), so that the rotated-in key   *)
(* is taken only from a target that lets the restored one in.              *)
RollbackNeverCutsOff ==
    [][\A t \in Targets :
        pc = "redeploy" /\ outgoing \in trusts[t] \ trusts'[t]
            => priv["canonical"] \in trusts'[t]]_rollbackVars
=============================================================================
