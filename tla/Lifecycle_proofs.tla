-------------------------- MODULE Lifecycle_proofs --------------------------
(***************************************************************************)
(* Proofs about Rotate, KeyLifecycle and VaultLifecycle, for every set of  *)
(* keys and targets.                                                       *)
(*                                                                         *)
(* Rotate comes first, with or without crashes and failing system calls.   *)
(* None of its properties is inductive: that the active key is trusted     *)
(* after the commit rests on what the deploy loop proved, that a failed    *)
(* commit can be undone rests on what preservePair archived, and that two  *)
(* records never share a path rests on which key the outgoing public half  *)
(* belongs to. FileInv, RecordInv and TrustInv say what each step of the   *)
(* rotation knows.                                                         *)
(*                                                                         *)
(* Then rotate, rollback, deploy and revoke, one after the other.          *)
(* ControlInv is what holds whatever has happened to earlier verbs. As     *)
(* long as none was cut short, PhaseInv says which key every half and      *)
(* record is of, step by step: between verbs that is where the files and   *)
(* the inventory agree, and within one how far it has got from there.      *)
(*                                                                         *)
(* Last the same verbs for a key in 1Password, with two kinds of           *)
(* invariant: where the files and the locals of a verb are, whatever goes  *)
(* wrong, and what the titles of the vault say as long as no answer was    *)
(* lost and no undo failed.                                                *)
(***************************************************************************)
EXTENDS VaultLifecycle, FiniteSetTheorems, TLAPS

-----------------------------------------------------------------------------
(***************************************************************************)
(* Rotation alone                                                          *)
(***************************************************************************)
\* Steps before and after the staged private half becomes the active one.
Committing == {"unlinkPriv", "linkPriv", "unlinkPub", "linkPub", "promotePriv"}
Staged == {"deploy", "pullBack"} \cup Committing
Promoted == {"promotePub", "cleanStaging", "revokeOld"}
Archived == {"unlinkPub", "linkPub", "promotePriv"}

(* Which half is where, step by step.                                      *)
FileInv ==
    /\ \A s \in Slots : {priv[s], pub[s]} \subseteq minted \cup {None}
    /\ priv["canonical"] # None
    /\ pc # "idle" => incoming \in Key /\ outgoing # incoming
    /\ pc \in Staged => incoming # priv["canonical"]
    /\ pc \in {"deploy"} \cup Committing => priv["staging"] = incoming
    /\ pc \in {"deploy", "promotePub"} \cup Committing => pub["staging"] = incoming
    /\ pc \in Archived => priv["old"] = priv["canonical"]
    /\ pc \in Promoted => priv["canonical"] = incoming
    /\ pc = "promotePub" => priv["old"] # None
    /\ pc \in {"cleanStaging", "revokeOld"} => pub["canonical"] = incoming

(* Which key each record of the inventory can be about.                    *)
RecordInv ==
    /\ OneRecordPerPath
    /\ \A k \in Key \ minted : path[k] = "none"
    /\ pub["canonical"] # None => path[pub["canonical"]] # "old"
    /\ pc # "idle" => /\ path[incoming] = "none"
                      /\ outgoing # None => path[outgoing] # "old"

(* Where every verdict is sound: no --allow-unverified, and no host whose  *)
(* ssh_config block offers the active key beside the staged one.           *)
Proven == ~AllowUnverified /\ SelfNamed = {}

TrustInv ==
    /\ ~unverifiedOk
    /\ \A t \in Targets : priv["canonical"] \in trusts[t]
    /\ pc = "deploy" => \A t \in verified : incoming \in trusts[t]
    /\ pc \in Committing \cup Promoted => \A t \in Targets : incoming \in trusts[t]
    /\ pc = "promotePub" => \A t \in Targets : priv["old"] \in trusts[t]
-----------------------------------------------------------------------------
(* What a rename leaves in each slot, whether or not it was of two links   *)
(* to one file.                                                            *)
LEMMA RenameFacts ==
    ASSUME NEW half \in Half, NEW from \in Slots, NEW to \in Slots \ {from},
           NEW result \in Renames(half, from, to)
    PROVE  /\ result \in Half
           /\ result[to] = half[from]
           /\ result[from] \in {None, half[from]}
           /\ \A s \in Slots \ {from, to} : result[s] = half[s]
  BY DEF Half, Renames, Moved

(* What a removal can leave of a target's keys.                            *)
LEMMA RemovalFacts ==
    ASSUME NEW t \in Targets, NEW keys, NEW k, NEW left \in Removals(t, keys, k)
    PROVE  left = keys \/ left = keys \ {k}
  BY DEF Removals, Lockout

(* What one turn of the deploy loop does: the staged key may have landed,  *)
(* and where the active key alone is offered a verdict is sound.           *)
LEMMA DeployFacts ==
    ASSUME NEW t \in Targets, DeployStaged(t)
    PROVE  /\ \E keys \in {trusts[t], trusts[t] \cup {incoming}} :
                /\ trusts' = [trusts EXCEPT ![t] = keys]
                /\ \/ verified' = verified
                   \/ /\ verified' = verified \cup {t}
                      /\ SelfNamed = {} => incoming \in keys
           /\ deployed' \in {deployed, deployed \cup {t}}
<1>1. PICK d \in Deploys(t) :
        \E keys \in {trusts[t], trusts[t] \cup {incoming}} :
            /\ \E proven \in Verdicts(t, keys, incoming) :
                /\ trusts' = [trusts EXCEPT ![t] = keys]
                /\ verified' = IF proven THEN verified \cup {t} ELSE verified
            /\ deployed' = IF d.outcome # "failed" THEN deployed \cup {t} ELSE deployed
  BY DEF DeployStaged
<1>2. PICK keys \in {trusts[t], trusts[t] \cup {incoming}} :
        \E p \in Verdicts(t, keys, incoming) :
            /\ trusts' = [trusts EXCEPT ![t] = keys]
            /\ verified' = IF p THEN verified \cup {t} ELSE verified
            /\ deployed' = IF d.outcome # "failed" THEN deployed \cup {t} ELSE deployed
  BY <1>1
<1> PICK proven \in Verdicts(t, keys, incoming) :
            /\ trusts' = [trusts EXCEPT ![t] = keys]
            /\ verified' = IF proven THEN verified \cup {t} ELSE verified
            /\ deployed' = IF d.outcome # "failed" THEN deployed \cup {t} ELSE deployed
  BY <1>2
<1>3. proven /\ SelfNamed = {} => incoming \in keys
  BY <1>2 DEF Verdicts, Offered
<1> QED BY <1>2, <1>3 DEF Verdicts

-----------------------------------------------------------------------------
(* Every variable keeps its type.                                          *)
LEMMA TypeStep == RotateTypeOK /\ [RotateNext]_rotateVars => RotateTypeOK'
<1> USE KeyTargetsAssumption, RotateAssumption
<1> SUFFICES ASSUME RotateTypeOK, [RotateNext]_rotateVars PROVE RotateTypeOK'
  OBVIOUS
<1> USE DEF RotateTypeOK, KeyTargetsTypeOK, RotateSteps
<1>1. CASE Refused
  BY <1>1 DEF Refused, Without, Half, Slots, inventoryVars, verbVars
<1>2. CASE Crash
  BY <1>2 DEF Crash, Return, fileVars, inventoryVars
<1>3. ASSUME NEW k \in Key, NEW allow \in {FALSE, AllowUnverified}, StartRotate(k, allow)
      PROVE  RotateTypeOK'
  BY <1>3 DEF StartRotate, Half, Slots, inventoryVars
<1>4. ASSUME NEW t \in Targets, DeployStaged(t) PROVE RotateTypeOK'
  BY <1>4, DeployFacts DEF DeployStaged, fileVars, inventoryVars
<1>5. ASSUME NEW t \in Targets, PullBack(t) PROVE RotateTypeOK'
  <2>1. PICK left \in Removals(t, trusts[t], incoming) : trusts' = [trusts EXCEPT ![t] = left]
    BY <1>5 DEF PullBack
  <2>2. left \subseteq Key
    BY <2>1, RemovalFacts
  <2> QED BY <1>5, <2>1, <2>2 DEF PullBack, NextHost, fileVars, inventoryVars
<1>6. ASSUME NEW t \in Targets, RevokeOld(t) PROVE RotateTypeOK'
  <2>1. PICK left \in Removals(t, trusts[t], outgoing) : trusts' = [trusts EXCEPT ![t] = left]
    BY <1>6 DEF RevokeOld
  <2>2. left \subseteq Key
    BY <2>1, RemovalFacts
  <2> QED BY <1>6, <2>1, <2>2 DEF RevokeOld, NextHost, fileVars, inventoryVars
<1>7. CASE Commit
  BY <1>7 DEF Commit, Goto, Return, fileVars, inventoryVars
<1>8. CASE Abort
  BY <1>8 DEF Abort, GotoLoop, fileVars, inventoryVars
<1>9. CASE Discard
  BY <1>9 DEF Discard, Return, Without, Half, Slots, inventoryVars
<1>10. CASE UnlinkPriv
  BY <1>10 DEF UnlinkPriv, Goto, Without, Archive, Half, Slots, inventoryVars
<1>11. CASE LinkPriv
  BY <1>11 DEF LinkPriv, Goto, Return, Linked, Archive, Half, Slots, inventoryVars
<1>12. CASE UnlinkPub
  <2>1. pub' \in Half
    BY <1>12 DEF UnlinkPub, Without, Archive, Half, Slots
  <2>2. pc' \in RotateSteps /\ verb' = "rotate"
    BY <1>12 DEF UnlinkPub, Goto, Preserved
  <2> QED BY <1>12, <2>1, <2>2 DEF UnlinkPub, Goto, inventoryVars
<1>13. CASE LinkPub
  BY <1>13 DEF LinkPub, Goto, Return, Linked, Archive, Preserved, Half, Slots, inventoryVars
<1>14. CASE PromotePriv
  <2>1. priv' \in Half
    BY <1>14, RenameFacts DEF PromotePriv, Without, Half, Slots
  <2>2. pub' \in Half
    BY <1>14 DEF PromotePriv, Without, Half, Slots
  <2> QED BY <1>14, <2>1, <2>2 DEF PromotePriv, Goto, Return, inventoryVars
<1>15. CASE PromotePub
  <2>1. priv' \in Half
    BY <1>15, RenameFacts DEF PromotePub, Without, Half, Slots, fileVars
  <2>2. pub' \in Half
    BY <1>15, RenameFacts DEF PromotePub, Without, Half, Slots, fileVars
  <2> QED BY <1>15, <2>1, <2>2 DEF PromotePub, Goto, Return, inventoryVars
<1>16. CASE CleanStaging
  BY <1>16 DEF CleanStaging, GotoLoop, Without, Half, Slots, inventoryVars
<1>17. CASE SaveRotation
  <2>1. path' \in [Key -> {"none", "canonical", "old"}]
    BY <1>17 DEF SaveRotation, SettledPath, KeptPath
  <2>2. deployments' \in [Key -> [Targets -> DeploymentStatus]]
    BY <1>17 DEF SaveRotation, SettledDeployments, Results, NotDeployed, DeploymentStatus
  <2> QED BY <1>17, <2>1, <2>2 DEF SaveRotation, Return, fileVars
<1>18. CASE UNCHANGED rotateVars
  BY <1>18 DEF rotateVars, fileVars, inventoryVars, verbVars
<1> QED
  BY <1>1, <1>2, <1>3, <1>4, <1>5, <1>6, <1>7, <1>8, <1>9, <1>10, <1>11, <1>12, <1>13,
     <1>14, <1>15, <1>16, <1>17, <1>18 DEF RotateNext, RotateStep

-----------------------------------------------------------------------------
(* Each step leaves the halves where the next step counts on them.         *)
LEMMA FileStep == RotateTypeOK /\ FileInv /\ [RotateNext]_rotateVars => FileInv'
<1> SUFFICES ASSUME RotateTypeOK, FileInv, [RotateNext]_rotateVars PROVE FileInv'
  OBVIOUS
<1> USE KeyTargetsAssumption DEF FileInv, Committing, Staged, Promoted, Archived, Slots
<1>0. /\ priv \in Half /\ pub \in Half /\ minted \subseteq Key
      /\ incoming \in Key \cup {None}
      /\ pc # "idle" => verb = "rotate"
  BY DEF RotateTypeOK, KeyTargetsTypeOK
<1>1. CASE Refused
  BY <1>0, <1>1 DEF Refused, Without, Half, verbVars
<1>2. CASE Crash
  BY <1>2 DEF Crash, Return, fileVars
<1>3. ASSUME NEW k \in Key, NEW allow \in {FALSE, AllowUnverified}, StartRotate(k, allow)
      PROVE  FileInv'
  BY <1>0, <1>3 DEF StartRotate, Half
<1>4. ASSUME NEW t \in Targets, DeployStaged(t) \/ PullBack(t) \/ RevokeOld(t) PROVE FileInv'
  BY <1>4 DEF DeployStaged, PullBack, RevokeOld, NextHost, fileVars
<1>5. CASE Commit
  BY <1>5 DEF Commit, Goto, Return, fileVars
<1>6. CASE Abort
  BY <1>6 DEF Abort, GotoLoop, fileVars
<1>7. CASE Discard
  BY <1>0, <1>7 DEF Discard, Return, Without, Half
<1>8. CASE UnlinkPriv
  BY <1>0, <1>8 DEF UnlinkPriv, Goto, Without, Archive, Half
<1>9. CASE LinkPriv
  BY <1>0, <1>9 DEF LinkPriv, Goto, Return, Linked, Archive, Half
<1>10. CASE UnlinkPub
  <2>1. pc' \in {"promotePriv", "linkPub"} /\ UNCHANGED <<incoming, outgoing, priv, minted>>
    BY <1>0, <1>10 DEF UnlinkPub, Goto, Preserved
  <2>2. \A s \in Slots : pub'[s] \in {pub[s], None} /\ (s # "old" => pub'[s] = pub[s])
    BY <1>0, <1>10 DEF UnlinkPub, Without, Archive, Half
  <2> QED BY <1>10, <2>1, <2>2 DEF UnlinkPub
<1>11. CASE LinkPub
  <2>1. pc' \in {"promotePriv", "idle"} /\ UNCHANGED <<priv, minted>>
    BY <1>0, <1>11 DEF LinkPub, Goto, Return, Preserved
  <2>2. pc' # "idle" => UNCHANGED <<incoming, outgoing>>
    BY <1>0, <1>11 DEF LinkPub, Goto, Return
  <2>3. \A s \in Slots : pub'[s] \in {pub[s], pub["canonical"]} /\ (s # "old" => pub'[s] = pub[s])
    BY <1>0, <1>11 DEF LinkPub, Linked, Archive, Half
  <2> QED BY <1>11, <2>1, <2>2, <2>3 DEF LinkPub
<1>12. CASE PromotePriv
  <2>1. CASE priv' \in Renames(priv, "staging", "canonical") /\ Goto("promotePub") /\ UNCHANGED pub
    BY <1>0, <1>12, <2>1, RenameFacts DEF PromotePriv, Goto
  <2>2. CASE Return /\ priv' = Without(priv, "old") /\ pub' = Without(pub, "old")
    BY <1>0, <1>12, <2>2 DEF PromotePriv, Return, Without, Half
  <2> QED BY <1>12, <2>1, <2>2 DEF PromotePriv
<1>13. CASE PromotePub
  <2>1. CASE pub' \in Renames(pub, "staging", "canonical") /\ Goto("cleanStaging") /\ UNCHANGED priv
    BY <1>0, <1>13, <2>1, RenameFacts DEF PromotePub, Goto
  <2>2. CASE /\ \E put \in Renames(priv, "old", "canonical") : priv' = Without(put, "old")
             /\ pub' = Without(pub, "old")
             /\ Return
    <3>1. PICK put \in Renames(priv, "old", "canonical") : priv' = Without(put, "old")
      BY <2>2
    <3>2. put \in Half /\ put["canonical"] = priv["old"]
          /\ \A s \in Slots : put[s] \in {priv[s], priv["old"], None}
      BY <1>0, RenameFacts
    <3>3. /\ priv'["canonical"] = priv["old"]
          /\ \A s \in Slots : priv'[s] \in {priv[s], priv["old"], None}
      BY <3>1, <3>2 DEF Without, Half
    <3>4. \A s \in Slots : pub'[s] \in {pub[s], None}
      BY <1>0, <2>2 DEF Without, Half
    <3> QED BY <1>13, <2>2, <3>3, <3>4 DEF PromotePub, Return
  <2>3. CASE Return /\ UNCHANGED fileVars
    BY <1>13, <2>3 DEF PromotePub, Return, fileVars
  <2> QED BY <1>13, <2>1, <2>2, <2>3 DEF PromotePub
<1>14. CASE CleanStaging
  BY <1>0, <1>14 DEF CleanStaging, GotoLoop, Without, Half
<1>15. CASE SaveRotation
  BY <1>15 DEF SaveRotation, Return, fileVars
<1>16. CASE UNCHANGED rotateVars
  BY <1>16 DEF rotateVars, fileVars, inventoryVars, verbVars
<1> QED
  BY <1>1, <1>2, <1>3, <1>4, <1>5, <1>6, <1>7, <1>8, <1>9, <1>10, <1>11, <1>12, <1>13,
     <1>14, <1>15, <1>16 DEF RotateNext, RotateStep

-----------------------------------------------------------------------------
(* updateInventory is right because the outgoing public half, read when    *)
(* the rotation began, never belongs to the archived record.               *)
LEMMA RecordStep ==
    RotateTypeOK /\ FileInv /\ RecordInv /\ [RotateNext]_rotateVars => RecordInv'
<1> SUFFICES ASSUME RotateTypeOK, FileInv, RecordInv, [RotateNext]_rotateVars PROVE RecordInv'
  OBVIOUS
<1> USE KeyTargetsAssumption DEF RecordInv, OneRecordPerPath
<1>0. /\ priv \in Half /\ pub \in Half /\ minted \subseteq Key
      /\ path \in [Key -> {"none", "canonical", "old"}]
      /\ incoming \in Key \cup {None} /\ outgoing \in Key \cup {None}
  BY DEF RotateTypeOK, KeyTargetsTypeOK
<1>1. CASE UNCHANGED <<minted, path>> /\ pub'["canonical"] = pub["canonical"]
           /\ (pc' = "idle" \/ (UNCHANGED <<incoming, outgoing>> /\ pc # "idle"))
  BY <1>1
<1>2. CASE Refused \/ Discard \/ CleanStaging
  BY <1>0, <1>1, <1>2 DEF Refused, Discard, CleanStaging, Return, GotoLoop, Without, Half,
     Slots, inventoryVars, verbVars
<1>3. CASE Crash \/ Commit \/ Abort
  BY <1>1, <1>3 DEF Crash, Commit, Abort, Return, Goto, GotoLoop, fileVars, inventoryVars
<1>4. ASSUME NEW k \in Key, NEW allow \in {FALSE, AllowUnverified}, StartRotate(k, allow)
      PROVE  RecordInv'
  BY <1>0, <1>4 DEF StartRotate, FileInv, Half, Slots, inventoryVars
<1>5. ASSUME NEW t \in Targets, DeployStaged(t) \/ PullBack(t) \/ RevokeOld(t) PROVE RecordInv'
  BY <1>1, <1>5 DEF DeployStaged, PullBack, RevokeOld, NextHost, fileVars, inventoryVars
<1>6. CASE UnlinkPriv \/ LinkPriv
  BY <1>1, <1>6 DEF UnlinkPriv, LinkPriv, Goto, Return, inventoryVars
<1>7. CASE UnlinkPub \/ LinkPub
  <2>1. pub'["canonical"] = pub["canonical"]
    BY <1>0, <1>7 DEF UnlinkPub, LinkPub, Without, Linked, Archive, Half, Slots
  <2> QED BY <1>1, <1>7, <2>1 DEF UnlinkPub, LinkPub, Goto, Return, inventoryVars
<1>8. CASE PromotePriv
  BY <1>0, <1>1, <1>8 DEF PromotePriv, Goto, Return, Without, Half, Slots, inventoryVars
<1>9. CASE PromotePub
  <2>1. CASE pub' \in Renames(pub, "staging", "canonical") /\ Goto("cleanStaging")
    <3>1. pub'["canonical"] = incoming
      BY <1>0, <1>9, <2>1, RenameFacts DEF PromotePub, FileInv, Slots
    <3> QED BY <1>9, <2>1, <3>1 DEF PromotePub, Goto, inventoryVars
  <2>2. CASE (pub' = Without(pub, "old") \/ pub' = pub) /\ Return
    BY <1>0, <1>1, <1>9, <2>2 DEF PromotePub, Return, Without, Half, Slots, inventoryVars
  <2> QED BY <1>9, <2>1, <2>2 DEF PromotePub, fileVars
<1>10. CASE SaveRotation
  <2>1. /\ incoming \in minted /\ path[incoming] = "none"
        /\ outgoing # None => path[outgoing] # "old"
        /\ outgoing # incoming
        /\ pub["canonical"] = incoming
    BY <1>0, <1>10 DEF SaveRotation, FileInv, Slots, RotateTypeOK, Staged, Promoted
  <2>2. \A k \in Key : path'[k] = SettledPath[k]
    BY <1>10 DEF SaveRotation
  <2>3. CASE outgoing \in Recorded
    <3>1. path[outgoing] = "canonical"
      BY <1>0, <2>1, <2>3 DEF Recorded
    <3>2. \A k \in Key : path'[k] = IF k = incoming THEN "canonical"
                                     ELSE IF k = outgoing THEN "old" ELSE "none"
      BY <1>0, <2>1, <2>2, <2>3, <3>1 DEF SettledPath, KeptPath, Recorded
    <3> QED BY <1>0, <1>10, <2>1, <3>2, <3>1 DEF SaveRotation, Return, fileVars
  <2>4. CASE outgoing \notin Recorded
    <3>1. \A k \in Key : path'[k] = IF k = incoming THEN "canonical"
                                     ELSE IF path[k] = "canonical" THEN "old" ELSE "none"
      BY <1>0, <2>2, <2>4 DEF SettledPath, KeptPath, Recorded
    <3> QED BY <1>0, <1>10, <2>1, <3>1 DEF SaveRotation, Return, fileVars
  <2> QED BY <2>3, <2>4
<1>11. CASE UNCHANGED rotateVars
  BY <1>11 DEF rotateVars, fileVars, inventoryVars, verbVars
<1> QED
  BY <1>2, <1>3, <1>4, <1>5, <1>6, <1>7, <1>8, <1>9, <1>10, <1>11 DEF RotateNext, RotateStep

(* What the deploy loop proved stays true until the rotation ends, and the *)
(* two loops that remove keys never remove the active one.                 *)
LEMMA TrustStep ==
    ASSUME Proven, RotateTypeOK, FileInv, TrustInv, [RotateNext]_rotateVars
    PROVE  TrustInv'
<1> USE KeyTargetsAssumption DEF TrustInv, Committing, Staged, Promoted, Archived
<1>0. /\ priv \in Half /\ trusts \in [Targets -> SUBSET Key]
      /\ pc # "idle" => verb = "rotate"
      /\ verified \subseteq Targets
      /\ incoming \in Key \cup {None}
  BY DEF RotateTypeOK, KeyTargetsTypeOK
<1>1. CASE /\ UNCHANGED trusts /\ priv'["canonical"] = priv["canonical"] /\ ~unverifiedOk'
           /\ pc' \in {"idle", "pullBack"}
  BY <1>1
<1>2. CASE Refused \/ Crash \/ Discard
  BY <1>0, <1>1, <1>2 DEF Refused, Crash, Discard, Return, Without, Half, Slots, fileVars, verbVars,
     RotateTypeOK
<1>3. ASSUME NEW k \in Key, NEW allow \in {FALSE, AllowUnverified}, StartRotate(k, allow)
      PROVE  TrustInv'
  <2>1. ~unverifiedOk'
    BY <1>3 DEF StartRotate, Proven
  <2>2. priv'["canonical"] = priv["canonical"] /\ UNCHANGED trusts
    BY <1>0, <1>3 DEF StartRotate, Half, Slots
  <2>3. pc' = "deploy" /\ verified' = {}
    BY <1>3 DEF StartRotate
  <2> QED BY <2>1, <2>2, <2>3
<1>4. ASSUME NEW t \in Targets, DeployStaged(t) PROVE TrustInv'
  <2>1. PICK keys \in {trusts[t], trusts[t] \cup {incoming}} :
            /\ trusts' = [trusts EXCEPT ![t] = keys]
            /\ \/ verified' = verified
               \/ verified' = verified \cup {t} /\ incoming \in keys
    BY <1>4, DeployFacts DEF Proven
  <2>2. \A u \in Targets : trusts[u] \subseteq trusts'[u]
    BY <1>0, <2>1
  <2> QED BY <1>0, <1>4, <2>1, <2>2 DEF DeployStaged, fileVars
<1>5. CASE Commit
  BY <1>5 DEF Commit, Ready, Goto, Return, fileVars
<1>6. CASE Abort
  BY <1>1, <1>6 DEF Abort, GotoLoop, fileVars
<1>7. ASSUME NEW t \in Targets, PullBack(t) PROVE TrustInv'
  <2>1. PICK left \in Removals(t, trusts[t], incoming) : trusts' = [trusts EXCEPT ![t] = left]
    BY <1>7 DEF PullBack
  <2>2. priv["canonical"] # incoming
    BY <1>7 DEF PullBack, FileInv
  <2>3. \A u \in Targets : priv["canonical"] \in trusts'[u]
    BY <1>0, <2>1, <2>2, RemovalFacts
  <2> QED BY <1>7, <2>3 DEF PullBack, NextHost, fileVars
<1>8. CASE UnlinkPriv
  BY <1>0, <1>8 DEF UnlinkPriv, Goto, Without, Archive, Half, Slots
<1>9. CASE LinkPriv
  BY <1>0, <1>9 DEF LinkPriv, Goto, Return, Linked, Archive, Half, Slots
<1>10. CASE UnlinkPub
  <2>1. pc' \in {"promotePriv", "linkPub"}
    BY <1>0, <1>10 DEF UnlinkPub, Goto, Preserved
  <2> QED BY <1>10, <2>1 DEF UnlinkPub, Goto
<1>11. CASE LinkPub
  <2>1. pc' \in {"promotePriv", "idle"}
    BY <1>0, <1>11 DEF LinkPub, Goto, Return, Preserved
  <2>2. pc' # "idle" => UNCHANGED incoming
    BY <1>11 DEF LinkPub, Goto, Return
  <2>3. ~unverifiedOk'
    BY <1>11 DEF LinkPub, Goto, Return
  <2> QED BY <1>11, <2>1, <2>2, <2>3 DEF LinkPub
<1>12. CASE PromotePriv
  <2>1. CASE priv' \in Renames(priv, "staging", "canonical") /\ Goto("promotePub")
    <3>1. priv'["canonical"] = incoming /\ priv'["old"] = priv["canonical"]
      BY <1>0, <1>12, <2>1, RenameFacts DEF PromotePriv, FileInv, Slots
    <3> QED BY <1>12, <2>1, <3>1 DEF PromotePriv, Goto
  <2>2. CASE Return /\ priv' = Without(priv, "old")
    BY <1>0, <1>1, <1>12, <2>2 DEF PromotePriv, Return, Without, Half, Slots
  <2> QED BY <1>12, <2>1, <2>2 DEF PromotePriv
<1>13. CASE PromotePub
  <2>1. CASE Goto("cleanStaging") /\ UNCHANGED priv
    BY <1>13, <2>1 DEF PromotePub, Goto
  <2>2. CASE Return /\ \E put \in Renames(priv, "old", "canonical") : priv' = Without(put, "old")
    <3>1. PICK put \in Renames(priv, "old", "canonical") : priv' = Without(put, "old")
      BY <2>2
    <3>2. priv'["canonical"] = priv["old"]
      BY <1>0, <3>1, RenameFacts DEF Without, Half, Slots
    <3> QED BY <1>13, <2>2, <3>2 DEF PromotePub, Return
  <2>3. CASE Return /\ UNCHANGED fileVars
    BY <1>1, <1>13, <2>3 DEF PromotePub, Return, fileVars
  <2> QED BY <1>13, <2>1, <2>2, <2>3 DEF PromotePub
<1>14. CASE CleanStaging
  BY <1>0, <1>14 DEF CleanStaging, GotoLoop, Without, Half, Slots
<1>15. ASSUME NEW t \in Targets, RevokeOld(t) PROVE TrustInv'
  <2>1. PICK left \in Removals(t, trusts[t], outgoing) : trusts' = [trusts EXCEPT ![t] = left]
    BY <1>15 DEF RevokeOld
  <2>2. priv["canonical"] = incoming /\ outgoing # incoming
    BY <1>15 DEF RevokeOld, FileInv
  <2>3. \A u \in Targets : incoming \in trusts'[u]
    BY <1>0, <1>15, <2>1, <2>2, RemovalFacts DEF RevokeOld
  <2> QED BY <1>15, <2>2, <2>3 DEF RevokeOld, NextHost, fileVars
<1>16. CASE SaveRotation
  BY <1>1, <1>16 DEF SaveRotation, Return, fileVars
<1>17. CASE UNCHANGED rotateVars
  BY <1>17 DEF rotateVars, fileVars, inventoryVars, verbVars
<1> QED
  BY <1>2, <1>3, <1>4, <1>5, <1>6, <1>7, <1>8, <1>9, <1>10, <1>11, <1>12, <1>13, <1>14,
     <1>15, <1>16, <1>17 DEF RotateNext, RotateStep

-----------------------------------------------------------------------------
LEMMA InitFacts == RotateInit => RotateTypeOK /\ FileInv /\ RecordInv
<1> SUFFICES ASSUME RotateInit PROVE RotateTypeOK /\ FileInv /\ RecordInv
  OBVIOUS
<1>1. /\ priv \in Half /\ pub \in Half
      /\ minted \subseteq Key
      /\ trusts \in [Targets -> SUBSET Key]
      /\ path \in [Key -> {"none", "canonical", "old"}]
  BY DEF RotateInit, KeyTargetsInit, Half, Slots
<1>2. deployments \in [Key -> [Targets -> DeploymentStatus]]
  BY DEF RotateInit, KeyTargetsInit, NotDeployed, DeploymentStatus
<1>3. RotateTypeOK
  BY <1>1, <1>2 DEF RotateInit, RotateTypeOK, KeyTargetsTypeOK
<1>4. FileInv
  BY KeyTargetsAssumption DEF RotateInit, KeyTargetsInit, FileInv, Slots, Committing, Staged,
     Promoted, Archived
<1>5. RecordInv
  BY KeyTargetsAssumption DEF RotateInit, KeyTargetsInit, RecordInv, OneRecordPerPath, Slots
<1> QED BY <1>3, <1>4, <1>5

(* Rotate is type correct.                                                 *)
THEOREM RotateTypeCorrect == RotateSpec => []RotateTypeOK
  BY InitFacts, TypeStep, PTL DEF RotateSpec

LEMMA FilesAndRecords == RotateSpec => [](RotateTypeOK /\ FileInv /\ RecordInv)
  BY InitFacts, TypeStep, FileStep, RecordStep, PTL DEF RotateSpec

(* The canonical path holds a private key at every instant of a rotation,  *)
(* wherever it crashes and whichever call of the file system fails.        *)
THEOREM CanonicalKeyAlwaysPresent == RotateSpec => []CanonicalKeyPresent
<1>1. FileInv => CanonicalKeyPresent
  BY DEF FileInv, CanonicalKeyPresent
<1> QED BY <1>1, FilesAndRecords, PTL

(* No two records of the inventory ever claim one path.                    *)
THEOREM RecordsNeverShareAPath == RotateSpec => []OneRecordPerPath
<1>1. RecordInv => OneRecordPerPath
  BY DEF RecordInv
<1> QED BY <1>1, FilesAndRecords, PTL

LEMMA TrustInit == RotateInit => TrustInv
<1> SUFFICES ASSUME RotateInit PROVE TrustInv
  OBVIOUS
<1>1. \A t \in Targets : priv["canonical"] \in trusts[t]
  BY DEF RotateInit, KeyTargetsInit, Slots
<1> QED BY <1>1 DEF RotateInit, TrustInv, Committing, Promoted

LEMMA TrustHolds == Proven => (RotateSpec => []TrustInv)
<1> SUFFICES ASSUME Proven PROVE RotateSpec => []TrustInv
  OBVIOUS
<1>1. RotateTypeOK /\ FileInv /\ TrustInv /\ [RotateNext]_rotateVars => TrustInv'
  BY TrustStep
<1> QED BY <1>1, TrustInit, FilesAndRecords, PTL DEF RotateSpec

(* Zero downtime: provided no host's alias is the name ssh connects to,    *)
(* every target trusts the active key throughout.                          *)
THEOREM RotationHasZeroDowntime == SelfNamed = {} => (RotateSpec => []ZeroDowntime)
<1> SUFFICES ASSUME SelfNamed = {} PROVE RotateSpec => []ZeroDowntime
  OBVIOUS
<1>1. CASE AllowUnverified
  <2>1. ZeroDowntime
    BY <1>1 DEF ZeroDowntime
  <2> QED BY <2>1, PTL
<1>2. CASE ~AllowUnverified
  <2>1. RotateSpec => []TrustInv
    BY <1>2, TrustHolds DEF Proven
  <2>2. TrustInv => ZeroDowntime
    BY DEF TrustInv, ZeroDowntime
  <2> QED BY <2>1, <2>2, PTL
<1> QED BY <1>1, <1>2

-----------------------------------------------------------------------------
(* Only promotePriv and its undo touch the canonical private half.         *)
LEMMA CanonicalChanges ==
    ASSUME RotateTypeOK, FileInv, [RotateNext]_rotateVars
    PROVE  \/ priv'["canonical"] = priv["canonical"]
           \/ /\ UNCHANGED trusts
              /\ \/ /\ pc = "promotePriv"
                    /\ priv'["canonical"] = incoming
                    /\ priv'["old"] = priv["old"]
                 \/ /\ pc = "promotePub"
                    /\ priv'["canonical"] = priv["old"]
<1> USE KeyTargetsAssumption DEF Slots
<1>0. priv \in Half /\ incoming \in Key \cup {None} /\ (pc # "idle" => verb = "rotate")
  BY DEF RotateTypeOK, KeyTargetsTypeOK
<1>1. CASE Refused \/ Discard \/ CleanStaging
  BY <1>0, <1>1 DEF Refused, Discard, CleanStaging, Without, Half
<1>2. CASE Crash \/ Commit \/ Abort \/ UnlinkPub \/ LinkPub \/ SaveRotation \/ UNCHANGED rotateVars
  BY <1>2 DEF Crash, Commit, Abort, UnlinkPub, LinkPub, SaveRotation, rotateVars, fileVars
<1>3. ASSUME NEW k \in Key, NEW allow \in {FALSE, AllowUnverified}, StartRotate(k, allow)
      PROVE  priv'["canonical"] = priv["canonical"]
  BY <1>0, <1>3 DEF StartRotate, Half
<1>4. ASSUME NEW t \in Targets, DeployStaged(t) \/ PullBack(t) \/ RevokeOld(t)
      PROVE  priv'["canonical"] = priv["canonical"]
  BY <1>4 DEF DeployStaged, PullBack, RevokeOld, fileVars
<1>5. CASE UnlinkPriv \/ LinkPriv
  BY <1>0, <1>5 DEF UnlinkPriv, LinkPriv, Without, Linked, Archive, Half
<1>6. CASE PromotePriv
  BY <1>0, <1>6, RenameFacts DEF PromotePriv, FileInv, Committing, Without, Half
<1>7. CASE PromotePub
  <2>1. CASE \E put \in Renames(priv, "old", "canonical") : priv' = Without(put, "old")
    <3>1. PICK put \in Renames(priv, "old", "canonical") : priv' = Without(put, "old")
      BY <2>1
    <3>2. priv'["canonical"] = priv["old"]
      BY <1>0, <3>1, RenameFacts DEF Without, Half
    <3> QED BY <1>7, <3>2 DEF PromotePub
  <2> QED BY <1>7, <2>1 DEF PromotePub, fileVars
<1> QED BY <1>1, <1>2, <1>3, <1>4, <1>5, <1>6, <1>7 DEF RotateNext, RotateStep

(* The key a rotation replaces is in old/ in the same step.                *)
THEOREM RotationKeepsTheReplacedKey == RotateSpec => ReplacedKeyIsKept
<1> DEFINE Kept == priv'["canonical"] # priv["canonical"] /\ priv["canonical"] # incoming
                    => priv["canonical"] \in {priv'["old"], priv'["rolledBack"]}
<1>1. RotateTypeOK /\ FileInv /\ [RotateNext]_rotateVars => [Kept]_rotateVars
  BY CanonicalChanges DEF FileInv, Archived, Promoted
<1> QED BY <1>1, FilesAndRecords, PTL DEF RotateSpec, ReplacedKeyIsKept

-----------------------------------------------------------------------------
LEMMA SwitchStep ==
    ASSUME Proven, RotateTypeOK, FileInv, TrustInv, [RotateNext]_rotateVars
    PROVE  [Abstract!SwitchNext]_(Abstract!switchVars)
<1> DEFINE active == priv["canonical"]
<1>0. priv \in Half /\ incoming \in Key \cup {None} /\ outgoing \in Key \cup {None}
      /\ trusts \in [Targets -> SUBSET Key]
  BY DEF RotateTypeOK, KeyTargetsTypeOK
<1>1. CASE UNCHANGED <<active, trusts>>
  BY <1>1 DEF Abstract!switchVars
<1>2. ASSUME NEW t \in Targets, DeployStaged(t) PROVE [Abstract!SwitchNext]_(Abstract!switchVars)
  <2>1. PICK keys \in {trusts[t], trusts[t] \cup {incoming}} : trusts' = [trusts EXCEPT ![t] = keys]
    BY <1>2, DeployFacts
  <2>2. UNCHANGED active
    BY <1>2 DEF DeployStaged, fileVars
  <2>3. incoming \in Key
    BY <1>0, <1>2 DEF DeployStaged, FileInv
  <2>4. CASE keys = trusts[t]
    BY <1>0, <1>1, <2>1, <2>2, <2>4
  <2>5. CASE keys = trusts[t] \cup {incoming}
    BY <2>1, <2>2, <2>3, <2>5 DEF Abstract!SwitchNext, Abstract!Learn
  <2> QED BY <2>1, <2>4, <2>5
<1>3. ASSUME NEW t \in Targets, NEW k \in Key \cup {None}, k # active, UNCHANGED active,
             NEW left \in Removals(t, trusts[t], k), trusts' = [trusts EXCEPT ![t] = left]
      PROVE  [Abstract!SwitchNext]_(Abstract!switchVars)
  <2>1. CASE left = trusts[t]
    BY <1>0, <1>1, <1>3, <2>1
  <2>2. CASE left = trusts[t] \ {k} /\ k \in Key
    BY <1>3, <2>2 DEF Abstract!SwitchNext, Abstract!Forget
  <2>3. CASE k = None
    BY <1>0, <1>1, <1>3, <2>3 DEF Removals, Lockout
  <2> QED BY <1>3, <2>1, <2>2, <2>3, RemovalFacts
<1>4. ASSUME NEW t \in Targets, PullBack(t) PROVE [Abstract!SwitchNext]_(Abstract!switchVars)
  <2>1. incoming # active /\ UNCHANGED active
    BY <1>4 DEF PullBack, FileInv, Staged, fileVars
  <2>2. PICK left \in Removals(t, trusts[t], incoming) : trusts' = [trusts EXCEPT ![t] = left]
    BY <1>4 DEF PullBack
  <2> QED BY <1>0, <1>3, <2>1, <2>2
<1>5. ASSUME NEW t \in Targets, RevokeOld(t) PROVE [Abstract!SwitchNext]_(Abstract!switchVars)
  <2>1. outgoing # active /\ UNCHANGED active
    BY <1>5 DEF RevokeOld, FileInv, Promoted, fileVars
  <2>2. PICK left \in Removals(t, trusts[t], outgoing) : trusts' = [trusts EXCEPT ![t] = left]
    BY <1>5 DEF RevokeOld
  <2> QED BY <1>0, <1>3, <2>1, <2>2
<1>6. CASE \A t \in Targets : ~DeployStaged(t) /\ ~PullBack(t) /\ ~RevokeOld(t)
  <2>1. UNCHANGED trusts
    BY <1>6 DEF RotateNext, RotateStep, Refused, Crash, StartRotate, Commit, Abort, Discard,
       UnlinkPriv, LinkPriv, UnlinkPub, LinkPub, PromotePriv, PromotePub, CleanStaging,
       SaveRotation, rotateVars
  <2>2. ASSUME priv'["canonical"] # priv["canonical"]
        PROVE  \E k \in Key : Abstract!Switch(k)
    <3>1. priv'["canonical"] \in Key /\ \A t \in Targets : priv'["canonical"] \in trusts[t]
      BY <1>0, <2>2, CanonicalChanges DEF FileInv, TrustInv, Committing, Promoted, Half, Slots
    <3> QED BY <2>1, <3>1 DEF Abstract!Switch
  <2> QED BY <1>1, <2>1, <2>2 DEF Abstract!SwitchNext
<1> QED BY <1>2, <1>4, <1>5, <1>6

(* To somebody who only logs in, a rotation is a SafeSwitch: every target  *)
(* already lets in the key that becomes active, and forgets no active key. *)
THEOREM RotationImplementsSafeSwitch == Proven => (RotateSpec => SwitchesSafely)
<1> SUFFICES ASSUME Proven PROVE RotateSpec => SwitchesSafely
  OBVIOUS
<1>1. RotateInit => Abstract!SwitchInit
  BY DEF RotateInit, KeyTargetsInit, Slots, Abstract!SwitchInit
<1>2. RotateTypeOK /\ FileInv /\ TrustInv /\ [RotateNext]_rotateVars
        => [Abstract!SwitchNext]_(Abstract!switchVars)
  BY SwitchStep
<1> QED BY <1>1, <1>2, FilesAndRecords, TrustHolds, PTL DEF RotateSpec, SwitchesSafely,
        Abstract!SwitchSpec

-----------------------------------------------------------------------------
(***************************************************************************)
(* The four verbs                                                          *)
(***************************************************************************)
Preserving == {"unlinkPriv", "linkPriv", "unlinkPub", "linkPub"}
Restored == {"restorePub", "settlePriv", "settlePub", "redeploy"}

\* The verbs a step can be of.
VerbsAt(step) ==
    CASE step = "idle" -> {"none"}
      [] step \in {"deploy", "pullBack", "promotePriv"} \cup Promoted -> {"rotate"}
      [] step \in Preserving -> {"rotate", "rollback"}
      [] step \in {"restorePriv"} \cup Restored -> {"rollback"}
      [] step = "install" -> {"deploy"}
      [] step \in {"withdraw", "listRevoked"} -> {"revoke"}

ControlInv ==
    /\ verb \in VerbsAt(pc)
    /\ pc = "idle" => todo = {} /\ deployed = {} /\ verified = {}
    /\ pc # "withdraw" => removedFrom = {}
    /\ verb \in {"rotate", "deploy"} => incoming \in Key
    /\ verb = "revoke" => outgoing \in Key
    /\ priv["canonical"] # None
    /\ verb = "rotate" /\ pc \in {"deploy"} \cup Committing => priv["staging"] # None
    /\ verb = "rotate" /\ pc \in Archived \cup {"promotePub"} => priv["old"] # None
    /\ verb = "rollback" /\ pc \in Preserving \cup {"restorePriv"} => priv["old"] # None
    /\ pc \in Restored \ {"restorePub"} => pub["canonical"] # None

-----------------------------------------------------------------------------
(* The halves in each place but .staging.                                  *)
Lies(half, canonical, old, aside) ==
    /\ half["canonical"] = canonical
    /\ half["old"] = old
    /\ half["rolledBack"] = aside

\* What the inventory has at each path; no is a key without a record.
Records(canonical, old) ==
    \A k \in Key : /\ path[k] = "canonical" <=> k = canonical
                   /\ path[k] = "old" <=> k = old

\* Between verbs, and as long as one has touched neither.
AtRest(active, former) ==
    /\ active \in Key
    /\ former # active
    /\ Lies(priv, active, former, None)
    /\ Lies(pub, active, former, None)
    /\ Records(active, former)

IdleInv == \E former \in Key \cup {None} : AtRest(priv["canonical"], former)

RotateInv ==
    /\ incoming \in Key /\ outgoing \in Key /\ incoming # outgoing
    /\ path[incoming] = "none"
    /\ \A k \in Key : path[k] = "canonical" <=> k = outgoing
    /\ priv["rolledBack"] = None /\ pub["rolledBack"] = None
    /\ pc \in {"deploy"} \cup Committing => priv["staging"] = incoming
    /\ pc \in {"deploy", "promotePub"} \cup Committing => pub["staging"] = incoming
    /\ pc \in {"deploy", "pullBack", "unlinkPriv"} =>
          \E former \in Key \cup {None} : AtRest(outgoing, former)
    /\ pc \in Committing => priv["canonical"] = outgoing /\ pub["canonical"] = outgoing
    /\ pc \in Archived \cup Promoted => priv["old"] = outgoing
    /\ pc \in {"promotePriv"} \cup Promoted => pub["old"] = outgoing
    /\ pc \in Promoted => priv["canonical"] = incoming
    /\ pc \in {"cleanStaging", "revokeOld"} => pub["canonical"] = incoming

RollbackInv ==
    /\ incoming \in Key /\ outgoing \in Key /\ incoming # outgoing
    /\ incoming \notin revoked
    /\ Records(outgoing, incoming)
    /\ pc \in {"unlinkPriv", "linkPriv"} => Lies(priv, outgoing, incoming, None)
    /\ pc \in {"unlinkPub", "linkPub", "restorePriv"} => Lies(priv, outgoing, incoming, outgoing)
    /\ pc \in {"restorePub", "settlePriv"} => Lies(priv, incoming, None, outgoing)
    /\ pc \in {"settlePub", "redeploy"} => Lies(priv, incoming, outgoing, None)
    /\ pc \in Preserving => Lies(pub, outgoing, incoming, None)
    /\ pc \in {"restorePriv", "restorePub"} => Lies(pub, outgoing, incoming, outgoing)
    /\ pc \in {"settlePriv", "settlePub"} =>
          Lies(pub, incoming, None, outgoing) \/ Lies(pub, incoming, incoming, outgoing)
    /\ pc = "redeploy" => Lies(pub, incoming, outgoing, None)
    /\ pc # "redeploy" => verified = {}
    /\ \A t \in verified : Kind[t] = "server" => incoming \in trusts[t]

\* What the records say of the targets that trust their keys.
Covered(k, t) == k \in Recorded /\ k \in trusts[t] => deployments[k][t] # "none"

CoverInv ==
    \A k \in Key, t \in Targets :
        \/ Covered(k, t)
        \/ pc = "redeploy" /\ k = incoming
        \/ pc = "install" /\ k = incoming /\ t \in deployed

MintedInv == \A s \in Slots : {priv[s], pub[s]} \subseteq minted \cup {None}

PhaseInv ==
    /\ MintedInv
    /\ verb \in {"none", "deploy", "revoke"} => IdleInv
    /\ verb = "rotate" => RotateInv
    /\ verb = "rollback" => RollbackInv
    /\ verb = "deploy" => incoming = pub["canonical"] /\ incoming \notin revoked
    /\ verb = "revoke" => outgoing = pub["canonical"]
    /\ \A t \in removedFrom : outgoing \notin trusts[t]
    /\ CoverInv

LifecycleInv == LifecycleTypeOK /\ ControlInv /\ (~mishap => PhaseInv)

-----------------------------------------------------------------------------
(* Moving a half away empties its slot, unless the other holds the same.   *)
LEMMA MoveFacts ==
    ASSUME NEW half \in Half, NEW from \in Slots, NEW to \in Slots \ {from},
           half[from] # half[to],
           NEW result \in Renames(half, from, to)
    PROVE  /\ result[to] = half[from]
           /\ result[from] = None
           /\ \A s \in Slots \ {from, to} : result[s] = half[s]
  BY DEF Half, Renames, Moved

(* One turn of the loop of a rollback.                                     *)
LEMMA RedeployFacts ==
    ASSUME NEW t \in Targets, Redeploy(t)
    PROVE  \E keys \in {trusts[t], trusts[t] \cup {pub["canonical"]}} :
             \E left \in {keys, keys \ {outgoing}} :
                /\ trusts' = [trusts EXCEPT ![t] = left]
                /\ deployed' \in {deployed, deployed \cup {t}}
                /\ \/ verified' = verified
                   \/ verified' = verified \cup {t} /\ ProvenBy(t) \cap keys # {}
<1>1. PICK d \in Deploys(t) :
        LET keys == IF d.landed THEN trusts[t] \cup {pub["canonical"]} ELSE trusts[t]
        IN  \E proven \in BOOLEAN, left \in Removals(t, keys, outgoing) :
                /\ proven => ProvenBy(t) \cap keys # {}
                /\ trusts' = [trusts EXCEPT ![t] = left]
                /\ deployed' = IF d.outcome # "failed" THEN deployed \cup {t} ELSE deployed
                /\ verified' = IF proven THEN verified \cup {t} ELSE verified
  BY DEF Redeploy
<1> DEFINE keys == IF d.landed THEN trusts[t] \cup {pub["canonical"]} ELSE trusts[t]
<1>2. PICK proven \in BOOLEAN, left \in Removals(t, keys, outgoing) :
                /\ proven => ProvenBy(t) \cap keys # {}
                /\ trusts' = [trusts EXCEPT ![t] = left]
                /\ deployed' = IF d.outcome # "failed" THEN deployed \cup {t} ELSE deployed
                /\ verified' = IF proven THEN verified \cup {t} ELSE verified
  BY <1>1
<1>3. left \in {keys, keys \ {outgoing}}
  BY <1>2, RemovalFacts
<1>4. keys \in {trusts[t], trusts[t] \cup {pub["canonical"]}}
  OBVIOUS
<1> HIDE DEF keys
<1> QED BY <1>2, <1>3, <1>4

\* Of the loop of a deploy.
LEMMA InstallFacts ==
    ASSUME NEW t \in Targets, Install(t)
    PROVE  /\ \E keys \in {trusts[t], trusts[t] \cup {incoming}} :
                trusts' = [trusts EXCEPT ![t] = keys]
           /\ verified' \in {verified, verified \cup {t}}
  BY DEF Install

(* Of the loop of a revoke: the report never names a target the key is     *)
(* still on.                                                               *)
LEMMA WithdrawFacts ==
    ASSUME NEW t \in Targets, Withdraw(t)
    PROVE  \E left \in {trusts[t], trusts[t] \ {pub["canonical"]}} :
              /\ trusts' = [trusts EXCEPT ![t] = left]
              /\ \/ removedFrom' = removedFrom
                 \/ removedFrom' = removedFrom \cup {t} /\ left = trusts[t] \ {pub["canonical"]}
<1>1. PICK left \in Removals(t, trusts[t], pub["canonical"]), reported \in BOOLEAN :
        /\ reported => left # trusts[t]
        /\ trusts' = [trusts EXCEPT ![t] = left]
        /\ removedFrom' = IF reported THEN removedFrom \cup {t} ELSE removedFrom
  BY DEF Withdraw
<1>2. left = trusts[t] \/ left = trusts[t] \ {pub["canonical"]}
  BY <1>1, RemovalFacts
<1> QED BY <1>1, <1>2

(* A verb that returns owes nothing, whatever it leaves on disk.           *)
LEMMA ReturnControl ==
    ASSUME LifecycleTypeOK, Return, priv' \in Half, pub' \in Half, priv'["canonical"] # None,
           UNCHANGED <<minted, trusts, inventoryVars, revoked>>,
           unreached' \subseteq Targets, removedFrom' = {}
    PROVE  LifecycleTypeOK' /\ ControlInv'
  BY DEF Return, LifecycleTypeOK, KeyTargetsTypeOK, ControlInv, VerbsAt, Committing, Promoted,
     Archived, Preserving, Restored, inventoryVars

(* A move or a link of halves, on the way from one step to the next.       *)
LEMMA FilesControl ==
    ASSUME LifecycleTypeOK, ControlInv, priv' \in Half, pub' \in Half, priv'["canonical"] # None,
           UNCHANGED <<minted, trusts, inventoryVars, revoked, unreached, removedFrom>>,
           UNCHANGED <<verb, incoming, outgoing, deployed, verified, unverifiedOk>>,
           todo' \in {todo, Targets}, pc' # "idle", pc # "idle", pc # "withdraw",
           pc' \in RotateSteps \cup RollbackSteps, verb \in VerbsAt(pc'),
           verb = "rotate" /\ pc' \in {"deploy"} \cup Committing => priv'["staging"] # None,
           verb = "rotate" /\ pc' \in Archived \cup {"promotePub"} => priv'["old"] # None,
           verb = "rollback" /\ pc' \in Preserving \cup {"restorePriv"} => priv'["old"] # None,
           pc' \in Restored \ {"restorePub"} => pub'["canonical"] # None
    PROVE  LifecycleTypeOK' /\ ControlInv'
<1>1. LifecycleTypeOK'
  BY DEF LifecycleTypeOK, KeyTargetsTypeOK, inventoryVars
<1>2. ControlInv'
  BY DEF ControlInv
<1> QED BY <1>1, <1>2

PreserveStep == UnlinkPriv \/ LinkPriv \/ UnlinkPub \/ LinkPub
PromoteStep == PromotePriv \/ PromotePub \/ CleanStaging \/ Discard
RestoreStep == RestorePriv \/ RestorePub \/ SettlePriv \/ SettlePub

(* preservePair leaves the halves it copies, and those it will move.       *)
LEMMA PreserveControl ==
    ASSUME LifecycleTypeOK, ControlInv, PreserveStep,
           UNCHANGED <<revoked, unreached>>, removedFrom' = {}
    PROVE  LifecycleTypeOK' /\ ControlInv'
<1>0. /\ priv \in Half /\ pub \in Half /\ unreached \subseteq Targets
      /\ pc \in Preserving /\ verb \in {"rotate", "rollback"}
      /\ Archive = IF verb = "rotate" THEN "old" ELSE "rolledBack"
      /\ removedFrom = {}
      /\ priv["canonical"] # None
      /\ verb = "rotate" => priv["staging"] # None
      /\ verb = "rotate" /\ pc \in Archived => priv["old"] # None
      /\ verb = "rollback" => priv["old"] # None
  BY DEF PreserveStep, UnlinkPriv, LinkPriv, UnlinkPub, LinkPub, LifecycleTypeOK, KeyTargetsTypeOK,
     ControlInv, VerbsAt, Preserving, Promoted, Restored, Committing, Archive
<1>1. CASE UnlinkPriv
  <2>1. priv' = Without(priv, Archive) /\ pc = "unlinkPriv" /\ Goto("linkPriv")
    BY <1>0, <1>1 DEF UnlinkPriv
  <2>2. priv' \in Half /\ \A s \in Slots \ {Archive} : priv'[s] = priv[s]
    BY <1>0, <2>1 DEF Without, Half
  <2> QED BY <1>0, <1>1, <2>1, <2>2, FilesControl DEF UnlinkPriv, Goto, VerbsAt, Slots, RotateSteps,
        Committing, Promoted, Archived, Preserving, Restored
<1>2. CASE LinkPriv
  <2>1. CASE priv' = Linked(priv, Archive) /\ Goto("unlinkPub")
    <3>1. priv' \in Half /\ priv'[Archive] = priv["canonical"]
          /\ \A s \in Slots \ {Archive} : priv'[s] = priv[s]
      BY <1>0, <2>1 DEF Linked, Half, Slots
    <3> QED BY <1>0, <1>2, <2>1, <3>1, FilesControl DEF LinkPriv, Goto, VerbsAt, Slots, RotateSteps,
          Committing, Promoted, Archived, Preserving, Restored
  <2>2. CASE Return /\ UNCHANGED priv
    BY <1>0, <1>2, <2>2, ReturnControl DEF LinkPriv
  <2> QED BY <1>2, <2>1, <2>2 DEF LinkPriv
<1>3. CASE UnlinkPub
  <2>1. pc = "unlinkPub" /\ (Goto("linkPub") \/ Goto(Preserved)) /\ pub' \in {pub, Without(pub, Archive)}
    BY <1>3 DEF UnlinkPub
  <2>2. pub' \in Half
    BY <1>0, <2>1 DEF Without, Half
  <2> QED BY <1>0, <1>3, <2>1, <2>2, FilesControl DEF UnlinkPub, Goto, Preserved, VerbsAt, RotateSteps,
        RollbackSteps, Committing, Promoted, Archived, Preserving, Restored
<1>4. CASE LinkPub
  <2>1. CASE pub' = Linked(pub, Archive) /\ Goto(Preserved)
    <3>1. pub' \in Half
      BY <1>0, <2>1 DEF Linked, Half, Slots
    <3> QED BY <1>0, <1>4, <2>1, <3>1, FilesControl DEF LinkPub, Goto, Preserved, VerbsAt, RotateSteps,
          RollbackSteps, Committing, Promoted, Archived, Preserving, Restored
  <2>2. CASE Return /\ UNCHANGED pub
    BY <1>0, <1>4, <2>2, ReturnControl DEF LinkPub
  <2> QED BY <1>4, <2>1, <2>2 DEF LinkPub
<1> QED BY <1>1, <1>2, <1>3, <1>4 DEF PreserveStep

(* A rotation's moves: a failed one leaves a private half at the canonical *)
(* path too.                                                               *)
LEMMA PromoteControl ==
    ASSUME LifecycleTypeOK, ControlInv, PromoteStep,
           UNCHANGED <<revoked, unreached>>, removedFrom' = {}
    PROVE  LifecycleTypeOK' /\ ControlInv'
<1>0. /\ priv \in Half /\ pub \in Half /\ unreached \subseteq Targets
      /\ pc \in {"promotePriv", "pullBack"} \cup Promoted /\ verb = "rotate"
      /\ removedFrom = {}
      /\ priv["canonical"] # None
      /\ pc = "promotePriv" => priv["staging"] # None
      /\ pc \in {"promotePriv", "promotePub"} => priv["old"] # None
      /\ {"canonical", "old", "staging"} \subseteq Slots
  BY DEF PromoteStep, PromotePriv, PromotePub, CleanStaging, Discard, LifecycleTypeOK, Archived,
     KeyTargetsTypeOK, ControlInv, VerbsAt, Preserving, Promoted, Restored, Committing, Slots
<1>1. CASE PromotePriv
  <2>1. CASE priv' \in Renames(priv, "staging", "canonical") /\ Goto("promotePub") /\ UNCHANGED pub
    <3>1. priv' \in Half /\ priv'["canonical"] = priv["staging"] /\ priv'["old"] = priv["old"]
      BY <1>0, <2>1, RenameFacts
    <3> QED BY <1>0, <1>1, <2>1, <3>1, FilesControl DEF PromotePriv, Goto, VerbsAt, RotateSteps,
          Committing, Promoted, Archived, Preserving, Restored
  <2>2. CASE Return /\ priv' = Without(priv, "old") /\ pub' = Without(pub, "old")
    <3>1. priv' \in Half /\ pub' \in Half /\ priv'["canonical"] # None
      BY <1>0, <2>2 DEF Without, Half
    <3> QED BY <1>0, <1>1, <2>2, <3>1, ReturnControl DEF PromotePriv
  <2> QED BY <1>1, <2>1, <2>2 DEF PromotePriv
<1>2. CASE PromotePub
  <2>1. CASE pub' \in Renames(pub, "staging", "canonical") /\ Goto("cleanStaging") /\ UNCHANGED priv
    <3>1. pub' \in Half
      BY <1>0, <2>1, RenameFacts
    <3> QED BY <1>0, <1>2, <2>1, <3>1, FilesControl DEF PromotePub, Goto, VerbsAt, RotateSteps,
          Committing, Promoted, Archived, Preserving, Restored
  <2>2. CASE /\ \E put \in Renames(priv, "old", "canonical") : priv' = Without(put, "old")
             /\ pub' = Without(pub, "old")
             /\ Return
    <3>1. PICK put \in Renames(priv, "old", "canonical") : priv' = Without(put, "old")
      BY <2>2
    <3>2. put \in Half /\ put["canonical"] = priv["old"]
      BY <1>0, RenameFacts
    <3>3. priv' \in Half /\ pub' \in Half /\ priv'["canonical"] # None
      BY <1>0, <1>2, <2>2, <3>1, <3>2 DEF Without, Half, PromotePub
    <3> QED BY <1>0, <1>2, <2>2, <3>3, ReturnControl DEF PromotePub
  <2>3. CASE Return /\ UNCHANGED fileVars
    BY <1>0, <1>2, <2>3, ReturnControl DEF PromotePub, fileVars
  <2> QED BY <1>2, <2>1, <2>2, <2>3 DEF PromotePub
<1>3. CASE CleanStaging
  <2>1. priv' \in Half /\ pub' \in Half /\ priv'["canonical"] # None
    BY <1>0, <1>3 DEF CleanStaging, Without, Half
  <2> QED BY <1>0, <1>3, <2>1, FilesControl DEF CleanStaging, GotoLoop, VerbsAt, RotateSteps,
        Committing, Promoted, Archived, Preserving, Restored
<1>4. CASE Discard
  <2>1. priv' \in Half /\ pub' \in Half /\ priv'["canonical"] # None
    BY <1>0, <1>4 DEF Discard, Without, Half
  <2> QED BY <1>0, <1>4, <2>1, ReturnControl DEF Discard
<1> QED BY <1>1, <1>2, <1>3, <1>4 DEF PromoteStep

(* A rollback's moves.                                                     *)
LEMMA RestoreControl ==
    ASSUME LifecycleTypeOK, ControlInv, RestoreStep, removedFrom' = {}
    PROVE  LifecycleTypeOK' /\ ControlInv'
<1>0. /\ priv \in Half /\ pub \in Half /\ unreached \subseteq Targets
      /\ pc \in {"restorePriv", "restorePub", "settlePriv", "settlePub"} /\ verb = "rollback"
      /\ removedFrom = {}
      /\ priv["canonical"] # None
      /\ pc = "restorePriv" => priv["old"] # None
      /\ pc \in {"settlePriv", "settlePub"} => pub["canonical"] # None
      /\ {"canonical", "old", "rolledBack"} \subseteq Slots
  BY DEF RestoreStep, RestorePriv, RestorePub, SettlePriv, SettlePub, LifecycleTypeOK, Archived,
     KeyTargetsTypeOK, ControlInv, VerbsAt, Preserving, Promoted, Restored, Committing, Slots
<1>1. CASE RestorePriv
  <2>1. CASE priv' \in Renames(priv, "old", "canonical") /\ Goto("restorePub")
    <3>1. priv' \in Half /\ priv'["canonical"] = priv["old"]
      BY <1>0, <2>1, RenameFacts
    <3>2. priv'["canonical"] # None
      BY <1>0, <1>1, <3>1 DEF RestorePriv
    <3> QED BY <1>0, <1>1, <2>1, <3>1, <3>2, FilesControl DEF RestorePriv, Goto, VerbsAt, RollbackSteps,
          Committing, Promoted, Archived, Preserving, Restored
  <2>2. CASE Return /\ UNCHANGED priv
    BY <1>0, <1>1, <2>2, ReturnControl DEF RestorePriv
  <2> QED BY <1>1, <2>1, <2>2 DEF RestorePriv
<1>2. CASE RestorePub
  <2>1. CASE Return /\ UNCHANGED pub
    BY <1>0, <1>2, <2>1, ReturnControl DEF RestorePub
  <2>2. CASE Goto("settlePriv")
    <3>1. pub' \in Half /\ pub'["canonical"] # None
      <4>1. ASSUME pub["old"] # None, pub' \in Renames(pub, "old", "canonical")
            PROVE  pub' \in Half /\ pub'["canonical"] # None
        BY <1>0, <4>1, RenameFacts
      <4>2. ASSUME pub' = [pub EXCEPT !["canonical"] = priv["canonical"]]
            PROVE  pub' \in Half /\ pub'["canonical"] # None
        BY <1>0, <4>2 DEF Half
      <4> QED BY <1>2, <2>2, <4>1, <4>2 DEF RestorePub, Return, Goto
    <3> QED BY <1>0, <1>2, <2>2, <3>1, FilesControl DEF RestorePub, Goto, VerbsAt, RollbackSteps,
          Committing, Promoted, Archived, Preserving, Restored
  <2> QED BY <1>2, <2>1, <2>2 DEF RestorePub
<1>3. CASE SettlePriv
  <2>1. CASE Return /\ UNCHANGED priv
    BY <1>0, <1>3, <2>1, ReturnControl DEF SettlePriv
  <2>2. CASE Goto("settlePub") /\ (UNCHANGED priv \/ priv' \in Renames(priv, "rolledBack", "old"))
    <3>1. priv' \in Half /\ priv'["canonical"] # None
      BY <1>0, <2>2, RenameFacts
    <3>2. pc = "settlePriv"
      BY <1>3 DEF SettlePriv
    <3> QED BY <1>0, <1>3, <2>2, <3>1, <3>2, FilesControl DEF SettlePriv, Goto, VerbsAt, RollbackSteps,
          Committing, Promoted, Archived, Preserving, Restored
  <2> QED BY <1>3, <2>1, <2>2 DEF SettlePriv
<1>4. CASE SettlePub
  <2>1. CASE Return /\ UNCHANGED pub
    BY <1>0, <1>4, <2>1, ReturnControl DEF SettlePub
  <2>2. CASE GotoLoop("redeploy", Targets) /\ (UNCHANGED pub \/ pub' \in Renames(pub, "rolledBack", "old"))
    <3>1. pub' \in Half /\ pub'["canonical"] # None
      BY <1>0, <1>4, <2>2, RenameFacts DEF SettlePub
    <3>2. pc = "settlePub"
      BY <1>4 DEF SettlePub
    <3> QED BY <1>0, <1>4, <2>2, <3>1, <3>2, FilesControl DEF SettlePub, GotoLoop, VerbsAt, RollbackSteps,
          Committing, Promoted, Archived, Preserving, Restored
  <2> QED BY <1>4, <2>1, <2>2 DEF SettlePub
<1> QED BY <1>1, <1>2, <1>3, <1>4 DEF RestoreStep

(* A step of a rotation or a rollback leaves the half-done verb able to go *)
(* on: whatever it will move is there.                                     *)
LEMMA RotateControl ==
    ASSUME LifecycleTypeOK, ControlInv, Refused \/ RotateStep,
           UNCHANGED <<revoked, unreached>>, removedFrom' = {}
    PROVE  LifecycleTypeOK' /\ ControlInv'
<1> USE KeyTargetsAssumption, RotateAssumption
<1> USE DEF LifecycleTypeOK, KeyTargetsTypeOK, ControlInv, VerbsAt, RotateSteps, RollbackSteps,
        LifecycleSteps, Committing, Promoted, Archived, Preserving, Restored, Slots, Half,
        fileVars, inventoryVars
<1>1. CASE Refused
  BY <1>1 DEF Refused, Without, verbVars
<1>2. ASSUME NEW k \in Key, NEW allow \in {FALSE, AllowUnverified}, StartRotate(k, allow)
      PROVE  LifecycleTypeOK' /\ ControlInv'
  BY <1>2 DEF StartRotate
<1>3. ASSUME NEW t \in Targets, DeployStaged(t) PROVE LifecycleTypeOK' /\ ControlInv'
  BY <1>3, DeployFacts DEF DeployStaged
<1>4. ASSUME NEW t \in Targets, PullBack(t) PROVE LifecycleTypeOK' /\ ControlInv'
  <2>1. PICK keys \in Removals(t, trusts[t], incoming) : trusts' = [trusts EXCEPT ![t] = keys]
    BY <1>4 DEF PullBack
  <2>2. keys \subseteq Key
    BY <2>1, RemovalFacts
  <2> QED BY <1>4, <2>1, <2>2 DEF PullBack, NextHost
<1>5. ASSUME NEW t \in Targets, RevokeOld(t) PROVE LifecycleTypeOK' /\ ControlInv'
  <2>1. PICK keys \in Removals(t, trusts[t], outgoing) : trusts' = [trusts EXCEPT ![t] = keys]
    BY <1>5 DEF RevokeOld
  <2>2. keys \subseteq Key
    BY <2>1, RemovalFacts
  <2> QED BY <1>5, <2>1, <2>2 DEF RevokeOld, NextHost
<1>6. CASE Commit
  BY <1>6, ZenonT(60) DEF Commit, Goto, Return
<1>7. CASE Abort
  BY <1>7 DEF Abort, GotoLoop
<1>8. CASE SaveRotation
  <2>1. path' \in [Key -> {"none", "canonical", "old"}]
    BY <1>8 DEF SaveRotation, SettledPath, KeptPath
  <2>2. deployments' \in [Key -> [Targets -> DeploymentStatus]]
    BY <1>8 DEF SaveRotation, SettledDeployments, Results, NotDeployed, DeploymentStatus
  <2> QED BY <1>8, <2>1, <2>2, ZenonT(60) DEF SaveRotation, Return
<1> HIDE DEF LifecycleTypeOK, ControlInv
<1> QED BY <1>1, <1>2, <1>3, <1>4, <1>5, <1>6, <1>7, <1>8, PreserveControl, PromoteControl
        DEF RotateStep, PreserveStep, PromoteStep

LEMMA RollbackControl ==
    ASSUME LifecycleTypeOK, ControlInv, RollbackStep, removedFrom' = {}
    PROVE  LifecycleTypeOK' /\ ControlInv'
<1> USE KeyTargetsAssumption, RotateAssumption
<1> USE DEF LifecycleTypeOK, KeyTargetsTypeOK, ControlInv, VerbsAt, RotateSteps, RollbackSteps,
        LifecycleSteps, Committing, Promoted, Archived, Preserving, Restored, Slots, Half,
        fileVars, inventoryVars
<1>1. CASE StartRollback
  BY <1>1 DEF StartRollback, MayRollBack, Without
<1>2. ASSUME NEW t \in Targets, SkipUnreachable(t) PROVE LifecycleTypeOK' /\ ControlInv'
  BY <1>2 DEF SkipUnreachable, NextHost
<1>3. ASSUME NEW t \in Targets, Redeploy(t) PROVE LifecycleTypeOK' /\ ControlInv'
  <2>1. PICK left \in SUBSET (trusts[t] \cup {pub["canonical"]}) :
          /\ trusts' = [trusts EXCEPT ![t] = left]
          /\ deployed' \in {deployed, deployed \cup {t}}
          /\ verified' \in {verified, verified \cup {t}}
    BY <1>3, RedeployFacts
  <2>2. pc = "redeploy" /\ pub["canonical"] \in Key
    BY <1>3 DEF Redeploy
  <2>3. left \subseteq Key
    BY <2>1, <2>2
  <2>4. trusts' \in [Targets -> SUBSET Key]
    BY <2>1, <2>3
  <2> QED BY <1>3, <2>1, <2>4 DEF Redeploy
<1>4. CASE SaveRollback
  <2>1. path' \in [Key -> {"none", "canonical", "old"}]
    BY <1>4 DEF SaveRollback, RolledBackPath
  <2>2. deployments' \in [Key -> [Targets -> DeploymentStatus]]
    BY <1>4 DEF SaveRollback, Results, DeploymentStatus
  <2> QED BY <1>4, <2>1, <2>2 DEF SaveRollback, Return
<1> HIDE DEF LifecycleTypeOK, ControlInv
<1> QED BY <1>1, <1>2, <1>3, <1>4, RestoreControl DEF RollbackStep, RestoreStep

LEMMA LifecycleControl ==
    ASSUME LifecycleTypeOK, ControlInv, LifecycleStep
    PROVE  LifecycleTypeOK' /\ ControlInv'
<1> USE KeyTargetsAssumption, RotateAssumption
<1> USE DEF LifecycleTypeOK, KeyTargetsTypeOK, ControlInv, VerbsAt, RotateSteps, RollbackSteps,
        LifecycleSteps, Committing, Promoted, Archived, Preserving, Restored, Slots, Half,
        fileVars, inventoryVars
<1>1. ASSUME NEW hosts \in SUBSET Targets, StartDeploy(hosts) PROVE LifecycleTypeOK' /\ ControlInv'
  BY <1>1 DEF StartDeploy, Without
<1>2. ASSUME NEW t \in Targets, Install(t) PROVE LifecycleTypeOK' /\ ControlInv'
  BY <1>2, InstallFacts DEF Install
<1>3. CASE SaveDeploy
  <2>1. path' \in [Key -> {"none", "canonical", "old"}]
    BY <1>3 DEF SaveDeploy, EnsuredPath
  <2>2. deployments' \in [Key -> [Targets -> DeploymentStatus]]
    BY <1>3 DEF SaveDeploy, Installed, Results, NotDeployed, DeploymentStatus
  <2> QED BY <1>3, <2>1, <2>2, ZenonT(60) DEF SaveDeploy, Return
<1>4. ASSUME NEW k \in Key, StartRevoke(k) PROVE LifecycleTypeOK' /\ ControlInv'
  BY <1>4 DEF StartRevoke
<1>5. ASSUME NEW t \in Targets, Withdraw(t) PROVE LifecycleTypeOK' /\ ControlInv'
  <2>1. PICK left \in {trusts[t], trusts[t] \ {pub["canonical"]}} :
          /\ trusts' = [trusts EXCEPT ![t] = left]
          /\ removedFrom' \in {removedFrom, removedFrom \cup {t}}
    BY <1>5, WithdrawFacts
  <2>2. trusts' \in [Targets -> SUBSET Key]
    BY <2>1
  <2> QED BY <1>5, <2>1, <2>2 DEF Withdraw, NextHost
<1>6. CASE SaveWithdrawn
  <2>1. deployments' \in [Key -> [Targets -> DeploymentStatus]]
    BY <1>6 DEF SaveWithdrawn, Withdrawn, DeploymentStatus
  <2> QED BY <1>6, <2>1 DEF SaveWithdrawn, Goto
<1>7. CASE ListRevoked
  BY <1>7 DEF ListRevoked, Return
<1>8. \A hosts \in {Targets} \cup {{t} : t \in Targets} : hosts \in SUBSET Targets
  OBVIOUS
<1> QED BY <1>1, <1>2, <1>3, <1>4, <1>5, <1>6, <1>7, <1>8 DEF LifecycleStep

LEMMA ControlStep ==
    LifecycleTypeOK /\ ControlInv /\ [LifecycleNext]_<<lifecycleVars, mishap>>
    => LifecycleTypeOK' /\ ControlInv'
<1> SUFFICES ASSUME LifecycleTypeOK, ControlInv, [LifecycleNext]_<<lifecycleVars, mishap>>
             PROVE  LifecycleTypeOK' /\ ControlInv'
  OBVIOUS
<1>1. CASE Crash /\ unreached' = {} /\ UNCHANGED revoked /\ removedFrom' = {}
  BY <1>1 DEF Crash, Return, fileVars, inventoryVars, LifecycleTypeOK, KeyTargetsTypeOK,
     ControlInv, VerbsAt, Committing, Promoted, Archived, Preserving, Restored
<1>2. CASE UNCHANGED <<lifecycleVars, mishap>>
  BY <1>2 DEF lifecycleVars, rollbackVars, rotateVars, verbVars, fileVars, inventoryVars,
     LifecycleTypeOK, KeyTargetsTypeOK, ControlInv
<1> QED BY <1>1, <1>2, RotateControl, RollbackControl, LifecycleControl DEF LifecycleNext, RollbackNext

-----------------------------------------------------------------------------
(* No verb was cut short by this step.                                     *)
Fine ==
    \/ pc = "idle" \/ pc' # "idle"
    \/ Discard \/ SaveRotation \/ SaveRollback \/ SaveDeploy \/ ListRevoked

(* A rotation that goes on is still that rotation.                         *)
LEMMA RotateVerb ==
    ASSUME LifecycleTypeOK, ControlInv, RotateStep, verb = "rotate", pc' # "idle"
    PROVE  /\ priv \in Half /\ pub \in Half /\ minted \subseteq Key
           /\ pc # "idle" /\ verb' = verb
           /\ UNCHANGED <<incoming, outgoing, minted, inventoryVars>>
           /\ Archive = "old" /\ Preserved = "promotePriv"
<1>1. /\ priv \in Half /\ pub \in Half /\ minted \subseteq Key
      /\ pc # "idle"
      /\ Archive = "old" /\ Preserved = "promotePriv"
  BY DEF LifecycleTypeOK, KeyTargetsTypeOK, ControlInv, VerbsAt, Promoted, Preserving, Restored,
     Archive, Preserved
<1>2. /\ ~Discard /\ ~SaveRotation
      /\ \A k \in Key, allow \in {FALSE, AllowUnverified} : ~StartRotate(k, allow)
  BY <1>1 DEF Discard, SaveRotation, StartRotate, Return
<1>3. UNCHANGED <<verb, incoming, outgoing, minted, path, deployments>>
  BY <1>2 DEF RotateStep, DeployStaged, PullBack, RevokeOld, Commit, Abort, UnlinkPriv, LinkPriv,
     UnlinkPub, LinkPub, PromotePriv, PromotePub, CleanStaging, Goto, GotoLoop, NextHost, Return,
     inventoryVars
<1> QED BY <1>1, <1>3 DEF inventoryVars

(* A rotation: the outgoing pair is in old/ before the staged one takes    *)
(* its place.                                                              *)
LEMMA RotatePhase ==
    ASSUME LifecycleTypeOK, ControlInv, MintedInv, RotateInv, RotateStep,
           verb = "rotate", pc' # "idle"
    PROVE  MintedInv' /\ RotateInv'
<1> USE KeyTargetsAssumption
<1>0. /\ priv \in Half /\ pub \in Half /\ minted \subseteq Key
      /\ pc # "idle" /\ verb' = verb /\ UNCHANGED <<incoming, outgoing, minted, inventoryVars>>
      /\ Archive = "old" /\ Preserved = "promotePriv"
      /\ None \notin Key
  BY RotateVerb
<1> USE DEF MintedInv, RotateInv, AtRest, Lies, Records, Committing, Archived, Promoted, Slots,
        inventoryVars
<1>1. ASSUME NEW t \in Targets, DeployStaged(t) \/ PullBack(t) \/ RevokeOld(t)
      PROVE  MintedInv' /\ RotateInv'
  BY <1>0, <1>1 DEF DeployStaged, PullBack, RevokeOld, NextHost, fileVars
<1>2. CASE Commit \/ Abort
  BY <1>0, <1>2 DEF Commit, Abort, Goto, GotoLoop, Return, fileVars
<1>3. CASE UnlinkPriv
  BY <1>0, <1>3 DEF UnlinkPriv, Goto, Without, Half
<1>4. CASE LinkPriv
  BY <1>0, <1>4 DEF LinkPriv, Goto, Return, Linked, Half
<1>5. CASE UnlinkPub
  BY <1>0, <1>5 DEF UnlinkPub, Goto, Without, Half
<1>6. CASE LinkPub
  BY <1>0, <1>6 DEF LinkPub, Goto, Return, Linked, Half
<1>7. CASE PromotePriv
  <2>1. priv' \in Renames(priv, "staging", "canonical") /\ Goto("promotePub") /\ UNCHANGED pub
    BY <1>7 DEF PromotePriv, Return
  <2>2. /\ priv'["canonical"] = priv["staging"]
        /\ priv'["staging"] \in {None, priv["staging"]}
        /\ priv'["old"] = priv["old"] /\ priv'["rolledBack"] = priv["rolledBack"]
    BY <1>0, <2>1, RenameFacts
  <2> QED BY <1>0, <1>7, <2>1, <2>2 DEF PromotePriv, Goto
<1>8. CASE PromotePub
  <2>1. pub' \in Renames(pub, "staging", "canonical") /\ Goto("cleanStaging") /\ UNCHANGED priv
    BY <1>8 DEF PromotePub, Return
  <2>2. /\ pub'["canonical"] = pub["staging"]
        /\ pub'["staging"] \in {None, pub["staging"]}
        /\ pub'["old"] = pub["old"] /\ pub'["rolledBack"] = pub["rolledBack"]
    BY <1>0, <2>1, RenameFacts
  <2> QED BY <1>0, <1>8, <2>1, <2>2 DEF PromotePub, Goto
<1>9. CASE CleanStaging
  BY <1>0, <1>9 DEF CleanStaging, GotoLoop, Without, Half
<1> HIDE DEF MintedInv, RotateInv
<1> QED BY <1>0, <1>1, <1>2, <1>3, <1>4, <1>5, <1>6, <1>7, <1>8, <1>9
        DEF RotateStep, StartRotate, Discard, SaveRotation, Return

(* What the inventory has once a rotation is saved.                        *)
LEMMA SettledFacts ==
    ASSUME path \in [Key -> {"none", "canonical", "old"}],
           incoming \in Key, outgoing \in Key, incoming # outgoing,
           \A k \in Key : path[k] = "canonical" <=> k = outgoing,
           NEW k \in Key
    PROVE  SettledPath[k] = IF k = incoming THEN "canonical"
                            ELSE IF k = outgoing THEN "old" ELSE "none"
  BY DEF SettledPath, KeptPath, Recorded

LEMMA RotateEnds ==
    ASSUME LifecycleTypeOK, ControlInv, MintedInv, Discard \/ SaveRotation,
           RotateInv
    PROVE  MintedInv' /\ IdleInv'
<1> USE KeyTargetsAssumption
<1>0. /\ priv \in Half /\ pub \in Half /\ minted \subseteq Key
      /\ path \in [Key -> {"none", "canonical", "old"}]
      /\ None \notin Key
  BY DEF LifecycleTypeOK, KeyTargetsTypeOK
<1>1. CASE Discard
  <2>1. PICK former \in Key \cup {None} : AtRest(outgoing, former)
    BY <1>1 DEF Discard, RotateInv
  <2>2. MintedInv'
    BY <1>0, <1>1 DEF Discard, MintedInv, Without, Half, Slots
  <2>3. AtRest(priv["canonical"], former)'
    BY <1>0, <1>1, <2>1 DEF Discard, AtRest, Lies, Records, Without, Half, Slots, inventoryVars
  <2> QED BY <2>2, <2>3 DEF IdleInv
<1>2. CASE SaveRotation
  <2>1. /\ Lies(priv, incoming, outgoing, None) /\ Lies(pub, incoming, outgoing, None)
        /\ incoming \in Key /\ outgoing \in Key /\ incoming # outgoing
    BY <1>2 DEF SaveRotation, RotateInv, Lies, Promoted, Archived
  <2>2. \A k \in Key : path'[k] = IF k = incoming THEN "canonical"
                                   ELSE IF k = outgoing THEN "old" ELSE "none"
    BY <1>0, <1>2, SettledFacts DEF SaveRotation, RotateInv
  <2>3. UNCHANGED <<priv, pub, minted>>
    BY <1>2 DEF SaveRotation, fileVars
  <2>4. \A k \in Key : (path'[k] = "canonical" <=> k = incoming) /\ (path'[k] = "old" <=> k = outgoing)
    BY <2>1, <2>2
  <2> QED BY <2>1, <2>3, <2>4 DEF IdleInv, AtRest, Lies, Records, MintedInv
<1> QED BY <1>1, <1>2

(* A rollback: the active pair is set aside, its predecessor takes its     *)
(* place, and old/ gets what was set aside.                                *)
LEMMA RollbackFrame ==
    ASSUME LifecycleTypeOK, ControlInv, verb = "rollback", pc' # "idle",
           RollbackStep \/ (RotateStep /\ UNCHANGED revoked)
    PROVE  /\ priv \in Half /\ pub \in Half /\ minted \subseteq Key
           /\ pc # "idle"
           /\ UNCHANGED <<verb, incoming, outgoing, minted, path, deployments, revoked>>
           /\ Archive = "rolledBack" /\ Preserved = "restorePriv"
           /\ PreserveStep \/ RestoreStep
              \/ \E t \in Targets : SkipUnreachable(t) \/ Redeploy(t)
<1>1. /\ priv \in Half /\ pub \in Half /\ minted \subseteq Key
      /\ pc \in Preserving \cup {"restorePriv"} \cup Restored
      /\ Archive = "rolledBack" /\ Preserved = "restorePriv"
  BY DEF LifecycleTypeOK, KeyTargetsTypeOK, ControlInv, VerbsAt, Promoted, Preserving, Restored,
     Archive, Preserved, RotateSteps, RollbackSteps, LifecycleSteps
<1>2. /\ ~StartRollback /\ ~SaveRollback
      /\ RotateStep => PreserveStep
  BY <1>1 DEF StartRollback, SaveRollback, Return, RotateStep, PreserveStep, StartRotate, DeployStaged,
     PullBack, RevokeOld, Commit, Abort, Discard, PromotePriv, PromotePub, CleanStaging, SaveRotation,
     Preserving, Restored
<1>3. \/ PreserveStep /\ UNCHANGED revoked
      \/ RestoreStep
      \/ \E t \in Targets : SkipUnreachable(t) \/ Redeploy(t)
  BY <1>2 DEF RollbackStep, RestoreStep
<1>4. UNCHANGED <<verb, incoming, outgoing, minted, path, deployments, revoked>>
  BY <1>3 DEF PreserveStep, RestoreStep, UnlinkPriv, LinkPriv, UnlinkPub, LinkPub, RestorePriv,
     RestorePub, SettlePriv, SettlePub, SkipUnreachable, Redeploy, Goto, GotoLoop, NextHost, Return,
     inventoryVars
<1> QED BY <1>1, <1>3, <1>4 DEF Preserving, Restored

LEMMA RollbackPhase ==
    ASSUME LifecycleTypeOK, ControlInv, MintedInv, RollbackInv, verb = "rollback", pc' # "idle",
           RollbackStep \/ (RotateStep /\ UNCHANGED revoked)
    PROVE  MintedInv' /\ RollbackInv'
<1> USE KeyTargetsAssumption
<1>0. /\ priv \in Half /\ pub \in Half /\ minted \subseteq Key
      /\ pc # "idle"
      /\ UNCHANGED <<verb, incoming, outgoing, minted, path, deployments, revoked>>
      /\ Archive = "rolledBack" /\ Preserved = "restorePriv"
      /\ PreserveStep \/ RestoreStep
         \/ \E t \in Targets : SkipUnreachable(t) \/ Redeploy(t)
      /\ None \notin Key
  BY RollbackFrame
<1>t. trusts \in [Targets -> SUBSET Key]
  BY DEF LifecycleTypeOK, KeyTargetsTypeOK
<1> USE DEF MintedInv, RollbackInv, Lies, Records, Preserving, Slots
<1>1. CASE UnlinkPriv
  BY <1>0, <1>1 DEF UnlinkPriv, Goto, Without, Half
<1>2. CASE LinkPriv
  BY <1>0, <1>2 DEF LinkPriv, Goto, Return, Linked, Half
<1>3. CASE UnlinkPub
  BY <1>0, <1>3 DEF UnlinkPub, Goto, Without, Half
<1>4. CASE LinkPub
  BY <1>0, <1>4 DEF LinkPub, Goto, Return, Linked, Half
<1>5. CASE RestorePriv
  <2>1. priv' \in Renames(priv, "old", "canonical") /\ Goto("restorePub") /\ UNCHANGED <<pub, trusts>>
    BY <1>5 DEF RestorePriv, Return
  <2>2. priv["old"] # priv["canonical"] /\ pc = "restorePriv"
    BY <1>5 DEF RestorePriv
  <2>3. /\ priv'["canonical"] = priv["old"] /\ priv'["old"] = None
        /\ priv'["staging"] = priv["staging"] /\ priv'["rolledBack"] = priv["rolledBack"]
    BY <1>0, <2>1, <2>2, MoveFacts
  <2> QED BY <1>0, <2>1, <2>2, <2>3 DEF Goto
<1>6. CASE RestorePub
  <2>1. Goto("settlePriv") /\ UNCHANGED <<priv, trusts>> /\ pc = "restorePub"
    BY <1>6 DEF RestorePub, Return
  <2>2. CASE pub' \in Renames(pub, "old", "canonical")
    <3>1. /\ pub'["canonical"] = pub["old"] /\ pub'["old"] = None
          /\ pub'["staging"] = pub["staging"] /\ pub'["rolledBack"] = pub["rolledBack"]
      BY <1>0, <2>1, <2>2, MoveFacts
    <3> QED BY <1>0, <2>1, <3>1 DEF Goto
  <2>3. CASE pub' = [pub EXCEPT !["canonical"] = priv["canonical"]]
    BY <1>0, <2>1, <2>3 DEF Goto, Half
  <2> QED BY <1>6, <2>1, <2>2, <2>3 DEF RestorePub, Return
<1>7. CASE SettlePriv
  <2>1. /\ priv["rolledBack"] # None /\ priv["old"] = None
        /\ priv' \in Renames(priv, "rolledBack", "old") /\ Goto("settlePub") /\ UNCHANGED <<pub, trusts>>
        /\ pc = "settlePriv"
    BY <1>0, <1>7 DEF SettlePriv, Return
  <2>2. /\ priv'["old"] = priv["rolledBack"] /\ priv'["rolledBack"] = None
        /\ priv'["staging"] = priv["staging"] /\ priv'["canonical"] = priv["canonical"]
    BY <1>0, <2>1, MoveFacts
  <2> QED BY <1>0, <2>1, <2>2 DEF Goto
<1>8. CASE SettlePub
  <2>1. /\ pub["rolledBack"] # None /\ pub["old"] # pub["rolledBack"]
        /\ pub' \in Renames(pub, "rolledBack", "old") /\ GotoLoop("redeploy", Targets)
        /\ UNCHANGED <<priv, trusts>>
        /\ pc = "settlePub"
    BY <1>0, <1>8 DEF SettlePub, Return
  <2>2. /\ pub'["old"] = pub["rolledBack"] /\ pub'["rolledBack"] = None
        /\ pub'["staging"] = pub["staging"] /\ pub'["canonical"] = pub["canonical"]
    BY <1>0, <2>1, MoveFacts
  <2> QED BY <1>0, <2>1, <2>2 DEF GotoLoop
<1>9. ASSUME NEW t \in Targets, SkipUnreachable(t) PROVE MintedInv' /\ RollbackInv'
  BY <1>0, <1>9 DEF SkipUnreachable, NextHost, fileVars
<1>10. ASSUME NEW t \in Targets, Redeploy(t) PROVE MintedInv' /\ RollbackInv'
  <2>1. PICK keys \in {trusts[t], trusts[t] \cup {pub["canonical"]}} :
          \E left \in {keys, keys \ {outgoing}} :
            /\ trusts' = [trusts EXCEPT ![t] = left]
            /\ deployed' \in {deployed, deployed \cup {t}}
            /\ \/ verified' = verified
               \/ verified' = verified \cup {t} /\ ProvenBy(t) \cap keys # {}
    BY <1>10, RedeployFacts
  <2>2. PICK left \in {keys, keys \ {outgoing}} :
            /\ trusts' = [trusts EXCEPT ![t] = left]
            /\ \/ verified' = verified
               \/ verified' = verified \cup {t} /\ ProvenBy(t) \cap keys # {}
    BY <2>1
  <2>3. UNCHANGED <<pc, priv, pub>> /\ pc = "redeploy"
    BY <1>10 DEF Redeploy, fileVars
  <2>4. incoming \in trusts[t] => incoming \in left
    BY <2>1, <2>2
  <2>5. Kind[t] = "server" /\ ProvenBy(t) \cap keys # {} => incoming \in left
    BY <2>2, <2>3 DEF ProvenBy
  <2>6. \A u \in verified' : Kind[u] = "server" => incoming \in trusts'[u]
    <3> SUFFICES ASSUME NEW u \in verified', Kind[u] = "server" PROVE incoming \in trusts'[u]
      OBVIOUS
    <3>0. u \in Targets
      BY <1>10, <2>2 DEF LifecycleTypeOK
    <3>1. CASE u = t
      BY <1>t, <2>2, <2>4, <2>5, <3>1
    <3>2. CASE u # t
      BY <1>t, <2>2, <3>0, <3>2
    <3> QED BY <3>1, <3>2
  <2> QED BY <1>0, <2>3, <2>6
<1> HIDE DEF MintedInv, RollbackInv
<1> QED BY <1>0, <1>1, <1>2, <1>3, <1>4, <1>5, <1>6, <1>7, <1>8, <1>9, <1>10
        DEF PreserveStep, RestoreStep

(* The records follow the files.                                           *)
LEMMA RollbackEnds ==
    ASSUME LifecycleTypeOK, MintedInv, RollbackInv, SaveRollback
    PROVE  MintedInv' /\ IdleInv'
<1>1. path \in [Key -> {"none", "canonical", "old"}]
  BY DEF LifecycleTypeOK, KeyTargetsTypeOK
<1>2. /\ Lies(priv, incoming, outgoing, None) /\ Lies(pub, incoming, outgoing, None)
      /\ incoming \in Key /\ outgoing \in Key /\ incoming # outgoing
      /\ Records(outgoing, incoming)
      /\ UNCHANGED <<priv, pub, minted>>
      /\ path' = RolledBackPath
  BY DEF SaveRollback, RollbackInv, fileVars
<1>3. \A k \in Key : path'[k] = IF k = incoming THEN "canonical"
                                 ELSE IF k = outgoing THEN "old" ELSE "none"
  BY <1>1, <1>2 DEF RolledBackPath, Records, Recorded
<1>4. \A k \in Key : (path'[k] = "canonical" <=> k = incoming) /\ (path'[k] = "old" <=> k = outgoing)
  BY <1>2, <1>3
<1> QED BY <1>2, <1>4 DEF IdleInv, AtRest, Lies, Records, MintedInv

-----------------------------------------------------------------------------
(* Between verbs, and in those that move no file.                          *)
LEMMA RestPhase ==
    ASSUME LifecycleTypeOK, MintedInv, IdleInv,
           UNCHANGED <<minted, path>>,
           \/ UNCHANGED fileVars
           \/ priv' = Without(priv, "staging") /\ pub' = Without(pub, "staging")
    PROVE  MintedInv' /\ IdleInv'
<1>1. PICK former \in Key \cup {None} : AtRest(priv["canonical"], former)
  BY DEF IdleInv
<1>2. /\ \A s \in Slots \ {"staging"} : priv'[s] = priv[s] /\ pub'[s] = pub[s]
      /\ priv'["staging"] \in {None, priv["staging"]} /\ pub'["staging"] \in {None, pub["staging"]}
  BY DEF LifecycleTypeOK, KeyTargetsTypeOK, Without, Half, fileVars, Slots
<1>3. MintedInv'
  BY <1>2 DEF MintedInv
<1>4. AtRest(priv["canonical"], former)'
  BY <1>1, <1>2 DEF AtRest, Lies, Records, Slots
<1> QED BY <1>3, <1>4 DEF IdleInv

(* Each verb starts from files and records that agree.                     *)
LEMMA RotateStarts ==
    ASSUME LifecycleTypeOK, MintedInv, IdleInv, NEW k \in Key, NEW allow, StartRotate(k, allow)
    PROVE  MintedInv' /\ RotateInv'
<1> USE KeyTargetsAssumption
<1>1. PICK former \in Key \cup {None} : AtRest(priv["canonical"], former)
  BY DEF IdleInv
<1>2. /\ priv \in Half /\ pub \in Half /\ k # None
      /\ path \in [Key -> {"none", "canonical", "old"}]
  BY DEF LifecycleTypeOK, KeyTargetsTypeOK
<1>3. /\ \A s \in Slots \ {"staging"} : priv'[s] = priv[s] /\ pub'[s] = pub[s]
      /\ priv'["staging"] = k /\ pub'["staging"] = k
      /\ minted' = minted \cup {k} /\ k \notin minted
      /\ incoming' = k /\ outgoing' = pub["canonical"] /\ pc' = "deploy"
      /\ path' = path
  BY <1>2 DEF StartRotate, Half, Slots, inventoryVars
<1>4. k # priv["canonical"]
  BY <1>1, <1>2, <1>3 DEF MintedInv, AtRest, Lies, Slots
<1>5. k # former
  BY <1>1, <1>2, <1>3 DEF MintedInv, AtRest, Lies, Slots
<1>6. MintedInv'
  BY <1>3 DEF MintedInv
<1>7. AtRest(outgoing, former)'
  BY <1>1, <1>3 DEF AtRest, Lies, Records, Slots
<1>8. /\ path[k] = "none"
      /\ pub["canonical"] = priv["canonical"] /\ pub["canonical"] \in Key
      /\ priv'["rolledBack"] = None /\ pub'["rolledBack"] = None
  BY <1>1, <1>2, <1>3, <1>4, <1>5 DEF AtRest, Lies, Records, Slots
<1>9. \A j \in Key : path'[j] = "canonical" <=> j = outgoing'
  BY <1>1, <1>3, <1>8 DEF AtRest, Records
<1> QED BY <1>3, <1>4, <1>6, <1>7, <1>8, <1>9 DEF RotateInv, Committing, Archived, Promoted

LEMMA RollbackStarts ==
    ASSUME LifecycleTypeOK, ControlInv, MintedInv, IdleInv, StartRollback
    PROVE  MintedInv' /\ RollbackInv'
<1> USE KeyTargetsAssumption
<1>1. PICK former \in Key \cup {None} : AtRest(priv["canonical"], former)
  BY DEF IdleInv
<1>2. priv \in Half /\ pub \in Half /\ verified = {}
  BY DEF LifecycleTypeOK, KeyTargetsTypeOK, ControlInv, StartRollback
<1>3. /\ \A s \in Slots \ {"staging"} : priv'[s] = priv[s] /\ pub'[s] = pub[s]
      /\ priv'["staging"] = None /\ pub'["staging"] = None
      /\ priv["old"] # None /\ pub["old"] \notin revoked
      /\ incoming' = pub["old"] /\ outgoing' = pub["canonical"] /\ pc' = "unlinkPriv"
      /\ UNCHANGED <<minted, path, revoked, verified>>
  BY <1>2 DEF StartRollback, MayRollBack, Without, Half, Slots, inventoryVars
<1>4. MintedInv'
  BY <1>3 DEF MintedInv
<1>5. /\ incoming' = former /\ former \in Key /\ outgoing' = priv["canonical"]
      /\ Records(outgoing, incoming)'
      /\ Lies(priv, outgoing, incoming, None)' /\ Lies(pub, outgoing, incoming, None)'
  BY <1>1, <1>3 DEF AtRest, Lies, Records, Slots
<1> QED BY <1>1, <1>2, <1>3, <1>4, <1>5 DEF RollbackInv, AtRest, Preserving

-----------------------------------------------------------------------------
(* The steps of each verb, when none is cut short.                         *)
StartStep ==
    \/ Refused
    \/ \E k \in Key, allow \in {FALSE, AllowUnverified} : StartRotate(k, allow)
    \/ StartRollback
    \/ \E hosts \in SUBSET Targets : StartDeploy(hosts)
    \/ \E k \in Key : StartRevoke(k)

DeployStep == (\E t \in Targets : Install(t)) \/ SaveDeploy
RevokeStep == (\E t \in Targets : Withdraw(t)) \/ SaveWithdrawn \/ ListRevoked

LEMMA FineCases ==
    ASSUME LifecycleTypeOK, ControlInv, LifecycleNext, Fine
    PROVE  \/ verb = "none" /\ pc = "idle" /\ StartStep
           \/ verb = "rotate" /\ RotateStep /\ pc' # "idle"
           \/ verb = "rotate" /\ (Discard \/ SaveRotation)
           \/ /\ verb = "rollback" /\ pc' # "idle"
              /\ RollbackStep \/ (RotateStep /\ UNCHANGED revoked)
           \/ verb = "rollback" /\ SaveRollback
           \/ verb = "deploy" /\ DeployStep
           \/ verb = "revoke" /\ RevokeStep
<1> USE DEF VerbsAt, Promoted, Preserving, Restored
<1>1. /\ verb \in VerbsAt(pc)
      /\ pc \in RotateSteps \cup RollbackSteps \cup LifecycleSteps \cup {"idle"}
  BY DEF ControlInv, LifecycleTypeOK
<1>2. /\ Discard \/ SaveRotation => verb = "rotate"
      /\ SaveRollback => verb = "rollback"
      /\ SaveDeploy \/ (\E t \in Targets : Install(t)) => verb = "deploy"
      /\ ListRevoked \/ SaveWithdrawn \/ (\E t \in Targets : Withdraw(t)) => verb = "revoke"
  BY <1>1 DEF Discard, SaveRotation, SaveRollback, SaveDeploy, ListRevoked, SaveWithdrawn, Install,
     Withdraw
<1>3. CASE Discard \/ SaveRotation \/ SaveRollback \/ SaveDeploy \/ ListRevoked
  BY <1>2, <1>3 DEF DeployStep, RevokeStep
<1>4. CASE pc = "idle"
  <2>1. verb = "none"
    BY <1>1, <1>4
  <2>2. Refused \/ RotateStep \/ RollbackStep \/ LifecycleStep
    BY <1>4 DEF LifecycleNext, RollbackNext, Crash
  <2>3. StartStep
    <3>1. CASE RotateStep
      BY <1>4, <3>1 DEF StartStep, RotateStep, DeployStaged, PullBack, RevokeOld, Commit, Abort, Discard,
         UnlinkPriv, LinkPriv, UnlinkPub, LinkPub, PromotePriv, PromotePub, CleanStaging, SaveRotation
    <3>2. CASE RollbackStep
      BY <1>4, <3>2 DEF StartStep, RollbackStep, RestorePriv, RestorePub, SettlePriv, SettlePub,
         SkipUnreachable, Redeploy, SaveRollback
    <3>3. CASE LifecycleStep
      <4>1. \A hosts \in {Targets} \cup {{t} : t \in Targets} : hosts \in SUBSET Targets
        OBVIOUS
      <4> QED BY <1>4, <3>3, <4>1 DEF StartStep, LifecycleStep, Install, Withdraw, SaveDeploy,
            SaveWithdrawn, ListRevoked
    <3> QED BY <2>2, <3>1, <3>2, <3>3 DEF StartStep
  <2> QED BY <1>4, <2>1, <2>3
<1>5. CASE pc # "idle" /\ pc' # "idle"
  <2>1. \/ RotateStep /\ UNCHANGED revoked
        \/ RollbackStep
        \/ LifecycleStep
    BY <1>5 DEF LifecycleNext, RollbackNext, Crash, Refused, Return
  <2>2. CASE RotateStep /\ UNCHANGED revoked
    <3>1. verb \in {"rotate", "rollback"}
      BY <1>1, <1>5, <2>2 DEF RotateStep, StartRotate, DeployStaged, PullBack, RevokeOld, Commit, Abort,
         Discard, UnlinkPriv, LinkPriv, UnlinkPub, LinkPub, PromotePriv, PromotePub, CleanStaging,
         SaveRotation
    <3> QED BY <1>5, <2>2, <3>1
  <2>3. CASE RollbackStep
    <3>1. verb = "rollback"
      BY <1>1, <1>5, <2>3 DEF RollbackStep, StartRollback, RestorePriv, RestorePub, SettlePriv, SettlePub,
         SkipUnreachable, Redeploy, SaveRollback
    <3> QED BY <1>5, <2>3, <3>1
  <2>4. CASE LifecycleStep
    BY <1>2, <1>5, <2>4 DEF LifecycleStep, DeployStep, RevokeStep, StartDeploy, StartRevoke
  <2> QED BY <2>1, <2>2, <2>3, <2>4
<1> QED BY <1>3, <1>4, <1>5 DEF Fine

-----------------------------------------------------------------------------
(* A key that is on a target is in its record, unless a loop over hosts is *)
(* still putting it there: nothing of the inventory has been saved since.  *)
LEMMA CoverKeeps ==
    ASSUME CoverInv, pc \notin {"redeploy", "install"}, UNCHANGED <<path, deployments>>,
           \A t \in Targets : trusts'[t] \subseteq trusts[t] \cup {j \in Key : path[j] = "none"}
    PROVE  CoverInv'
  BY DEF CoverInv, Covered, Recorded

LEMMA RotateCovers ==
    ASSUME LifecycleTypeOK, ControlInv, CoverInv, RotateInv, verb = "rotate",
           RotateStep
    PROVE  CoverInv'
<1>1. trusts \in [Targets -> SUBSET Key] /\ incoming \in Key /\ path[incoming] = "none"
  BY DEF LifecycleTypeOK, KeyTargetsTypeOK, RotateInv
<1>2. pc \notin {"idle", "redeploy", "install"}
  BY DEF ControlInv, VerbsAt, Promoted, Preserving, Restored
<1>3. ASSUME NEW t \in Targets, NEW left \in SUBSET (trusts[t] \cup {incoming}),
             trusts' = [trusts EXCEPT ![t] = left]
      PROVE  \A u \in Targets : trusts'[u] \subseteq trusts[u] \cup {j \in Key : path[j] = "none"}
  BY <1>1, <1>3
<1>4. ASSUME NEW t \in Targets, DeployStaged(t) \/ PullBack(t) \/ RevokeOld(t) PROVE CoverInv'
  <2>1. UNCHANGED <<path, deployments>>
    BY <1>4 DEF DeployStaged, PullBack, RevokeOld, inventoryVars
  <2>2. PICK left \in SUBSET (trusts[t] \cup {incoming}) : trusts' = [trusts EXCEPT ![t] = left]
    <3>1. CASE DeployStaged(t)
      BY <3>1, DeployFacts
    <3>2. CASE PullBack(t) \/ RevokeOld(t)
      <4>1. PICK k \in {incoming, outgoing} :
              \E left \in Removals(t, trusts[t], k) : trusts' = [trusts EXCEPT ![t] = left]
        BY <3>2 DEF PullBack, RevokeOld
      <4>2. PICK left \in Removals(t, trusts[t], k) : trusts' = [trusts EXCEPT ![t] = left]
        BY <4>1
      <4>3. left \in SUBSET (trusts[t] \cup {incoming})
        BY <4>2, RemovalFacts
      <4> QED BY <4>2, <4>3
    <3> QED BY <1>4, <3>1, <3>2
  <2> QED BY <1>2, <1>3, <2>1, <2>2, CoverKeeps
<1>5. CASE SaveRotation
  <2>1. \A k \in Key : path'[k] = IF k = incoming THEN "canonical"
                                   ELSE IF k = outgoing THEN "old" ELSE "none"
    BY <1>5, SettledFacts DEF SaveRotation, RotateInv, LifecycleTypeOK, KeyTargetsTypeOK
  <2>2. \A k \in Key : deployments'[k] = IF k = incoming THEN Results
                                          ELSE IF path'[k] = "none" THEN NotDeployed
                                          ELSE deployments[k]
    BY <1>5 DEF SaveRotation, SettledDeployments
  <2>3. \A t \in Targets : Results[t] # "none"
    BY DEF Results
  <2>4. UNCHANGED trusts /\ path[outgoing] = "canonical"
    BY <1>5 DEF SaveRotation, RotateInv
  <2>5. ASSUME NEW k \in Key, NEW t \in Targets PROVE Covered(k, t)'
    BY <1>2, <2>1, <2>2, <2>3, <2>4 DEF CoverInv, Covered, Recorded
  <2> QED BY <2>5 DEF CoverInv
<1>6. CASE UNCHANGED <<path, deployments, trusts>>
  BY <1>2, <1>6, CoverKeeps
<1>7. ~\E k \in Key, allow \in {FALSE, AllowUnverified} : StartRotate(k, allow)
  BY <1>2 DEF StartRotate
<1> QED BY <1>4, <1>5, <1>6, <1>7 DEF RotateStep, Commit, Abort, Discard, UnlinkPriv, LinkPriv,
      UnlinkPub, LinkPub, PromotePriv, PromotePub, CleanStaging, inventoryVars

LEMMA RollbackCovers ==
    ASSUME LifecycleTypeOK, ControlInv, CoverInv, RollbackInv, verb = "rollback", pc' # "idle",
           RollbackStep \/ (RotateStep /\ UNCHANGED revoked)
    PROVE  CoverInv'
<1>1. /\ UNCHANGED <<incoming, path, deployments>>
      /\ PreserveStep \/ RestoreStep
         \/ \E t \in Targets : SkipUnreachable(t) \/ Redeploy(t)
  BY RollbackFrame
<1>2. CASE PreserveStep \/ RestoreStep
  <2>1. UNCHANGED trusts /\ pc \notin {"redeploy", "install"}
    BY <1>2 DEF PreserveStep, RestoreStep, UnlinkPriv, LinkPriv, UnlinkPub, LinkPub, RestorePriv,
       RestorePub, SettlePriv, SettlePub
  <2> QED BY <1>1, <2>1, CoverKeeps
<1>3. ASSUME NEW t \in Targets, SkipUnreachable(t) \/ Redeploy(t) PROVE CoverInv'
  <2>1. trusts \in [Targets -> SUBSET Key]
    BY DEF LifecycleTypeOK, KeyTargetsTypeOK
  <2>2. pc = "redeploy" /\ pc' = pc /\ pub["canonical"] = incoming
    BY <1>3 DEF SkipUnreachable, Redeploy, NextHost, RollbackInv, Lies
  <2>3. \A u \in Targets : trusts'[u] \subseteq trusts[u] \cup {incoming}
    <3>1. CASE SkipUnreachable(t)
      BY <3>1 DEF SkipUnreachable
    <3>2. CASE Redeploy(t)
      <4>1. PICK left \in SUBSET (trusts[t] \cup {incoming}) : trusts' = [trusts EXCEPT ![t] = left]
        BY <2>2, <3>2, RedeployFacts
      <4> QED BY <2>1, <4>1
    <3> QED BY <1>3, <3>1, <3>2
  <2> QED BY <1>1, <2>2, <2>3 DEF CoverInv, Covered, Recorded
<1> QED BY <1>1, <1>2, <1>3

LEMMA RollbackEndCovers ==
    ASSUME LifecycleTypeOK, CoverInv, RollbackInv, SaveRollback
    PROVE  CoverInv'
<1>1. \A k \in Key : path'[k] # "none" => path[k] # "none"
  BY DEF SaveRollback, RolledBackPath, Recorded, LifecycleTypeOK, KeyTargetsTypeOK
<1>2. /\ incoming \in Recorded
      /\ \A k \in Key : deployments'[k] = IF k = incoming THEN Results ELSE deployments[k]
      /\ \A t \in Targets : Results[t] # "none"
      /\ UNCHANGED trusts /\ pc = "redeploy"
  BY DEF SaveRollback, RollbackInv, Records, Recorded, Results, LifecycleTypeOK, KeyTargetsTypeOK
<1>3. ASSUME NEW k \in Key, NEW t \in Targets PROVE Covered(k, t)'
  BY <1>1, <1>2 DEF CoverInv, Covered, Recorded
<1> QED BY <1>3 DEF CoverInv

LEMMA DeployCovers ==
    ASSUME LifecycleTypeOK, ControlInv, CoverInv, IdleInv, verb = "deploy", DeployStep,
           incoming = pub["canonical"]
    PROVE  CoverInv' /\ UNCHANGED path
<1>1. /\ trusts \in [Targets -> SUBSET Key]
      /\ incoming \in Key /\ path[incoming] = "canonical" /\ pc = "install"
  BY DEF LifecycleTypeOK, KeyTargetsTypeOK, IdleInv, AtRest, Lies, Records, DeployStep, Install, SaveDeploy
<1>2. ASSUME NEW t \in Targets, Install(t) PROVE CoverInv' /\ UNCHANGED path
  <2>1. PICK keys \in {trusts[t], trusts[t] \cup {incoming}} : trusts' = [trusts EXCEPT ![t] = keys]
    BY <1>2, InstallFacts
  <2>2. /\ UNCHANGED <<pc, incoming, path, deployments>> /\ deployed' = deployed \cup {t}
    BY <1>2 DEF Install, inventoryVars
  <2>3. \A u \in Targets : trusts'[u] \subseteq trusts[u] \cup {incoming}
                           /\ (u # t => trusts'[u] = trusts[u])
    BY <1>1, <2>1
  <2> QED BY <1>1, <2>2, <2>3 DEF CoverInv, Covered, Recorded
<1>3. CASE SaveDeploy
  <2>1. incoming \in Recorded
    BY <1>1 DEF Recorded
  <2>2. path' = path
    BY <1>3, <2>1 DEF SaveDeploy, EnsuredPath, LifecycleTypeOK, KeyTargetsTypeOK
  <2>3. UNCHANGED trusts
    BY <1>3 DEF SaveDeploy
  <2>4. \A k \in Key : deployments'[k] = IF k = incoming THEN Installed
                                          ELSE IF path[k] = "none" THEN NotDeployed
                                          ELSE deployments[k]
    BY <1>3, <2>2 DEF SaveDeploy
  <2>5. \A t \in Targets : /\ t \in deployed => Installed[t] # "none"
                           /\ t \notin deployed => Installed[t] = deployments[incoming][t]
    BY DEF Installed, Results
  <2>6. ASSUME NEW k \in Key, NEW t \in Targets PROVE Covered(k, t)'
    BY <1>1, <2>2, <2>3, <2>4, <2>5 DEF CoverInv, Covered, Recorded
  <2> QED BY <2>2, <2>6 DEF CoverInv
<1> QED BY <1>2, <1>3 DEF DeployStep

(* A revoke's report only names targets the key has left.                  *)
LEMMA RevokeCovers ==
    ASSUME LifecycleTypeOK, ControlInv, CoverInv, verb = "revoke", RevokeStep,
           outgoing = pub["canonical"], \A t \in removedFrom : outgoing \notin trusts[t]
    PROVE  /\ CoverInv'
           /\ pc' # "idle" => \A t \in removedFrom' : outgoing' \notin trusts'[t]
<1>1. /\ trusts \in [Targets -> SUBSET Key] /\ removedFrom \subseteq Targets
      /\ deployments \in [Key -> [Targets -> DeploymentStatus]]
      /\ outgoing \in Key /\ pc \notin {"redeploy", "install"}
  BY DEF LifecycleTypeOK, KeyTargetsTypeOK, ControlInv, VerbsAt, Promoted, Preserving, Restored
<1>2. ASSUME NEW t \in Targets, Withdraw(t)
      PROVE  CoverInv' /\ \A u \in removedFrom' : outgoing' \notin trusts'[u]
  <2>1. PICK left \in {trusts[t], trusts[t] \ {outgoing}} :
              /\ trusts' = [trusts EXCEPT ![t] = left]
              /\ \/ removedFrom' = removedFrom
                 \/ removedFrom' = removedFrom \cup {t} /\ left = trusts[t] \ {outgoing}
    BY <1>2, WithdrawFacts
  <2>2. UNCHANGED <<outgoing, path, deployments>>
    BY <1>2 DEF Withdraw, NextHost, inventoryVars
  <2>3. \A u \in Targets : trusts'[u] \subseteq trusts[u]
    BY <1>1, <2>1
  <2>4. \A u \in removedFrom' : outgoing' \notin trusts'[u]
    BY <1>1, <2>1, <2>2, <2>3
  <2> QED BY <1>1, <2>2, <2>3, <2>4, CoverKeeps
<1>3. CASE SaveWithdrawn
  <2>1. /\ UNCHANGED <<trusts, path>> /\ removedFrom' = {}
        /\ \A k \in Key \ {outgoing} : deployments'[k] = deployments[k]
        /\ \A t \in Targets : deployments'[outgoing][t] =
              IF t \in removedFrom THEN "none" ELSE deployments[outgoing][t]
    BY <1>1, <1>3 DEF SaveWithdrawn, Withdrawn
  <2>2. ASSUME NEW k \in Key, NEW t \in Targets PROVE Covered(k, t)'
    BY <1>1, <2>1 DEF CoverInv, Covered, Recorded
  <2> QED BY <2>1, <2>2 DEF CoverInv
<1>4. CASE ListRevoked
  BY <1>1, <1>4, CoverKeeps DEF ListRevoked, Return, inventoryVars
<1> QED BY <1>2, <1>3, <1>4 DEF RevokeStep

-----------------------------------------------------------------------------
(* Back between verbs.                                                     *)
LEMMA IdlePhase ==
    ASSUME ControlInv', verb' = "none", MintedInv', IdleInv', CoverInv'
    PROVE  PhaseInv'
<1>1. removedFrom' = {}
  BY DEF ControlInv, VerbsAt, Promoted, Preserving, Restored
<1> QED BY <1>1 DEF PhaseInv

LEMMA StartPhase ==
    ASSUME LifecycleTypeOK, ControlInv, PhaseInv, ControlInv', verb = "none", pc = "idle", StartStep
    PROVE  PhaseInv'
<1>1. MintedInv /\ IdleInv /\ CoverInv
  BY DEF PhaseInv
<1>2. UNCHANGED <<trusts, path, deployments>>
  BY DEF StartStep, Refused, StartRotate, StartRollback, StartDeploy, StartRevoke, inventoryVars
<1>3. CoverInv'
  BY <1>1, <1>2, CoverKeeps
<1>4. CASE Refused
  <2>1. MintedInv' /\ IdleInv'
    BY <1>1, <1>4, RestPhase DEF Refused, inventoryVars
  <2> QED BY <1>3, <1>4, <2>1, IdlePhase DEF Refused, verbVars
<1>5. ASSUME NEW k \in Key, NEW allow \in {FALSE, AllowUnverified}, StartRotate(k, allow)
      PROVE  PhaseInv'
  <2>1. MintedInv' /\ RotateInv'
    BY <1>1, <1>5, RotateStarts
  <2>2. verb' = "rotate" /\ removedFrom' = {}
    BY <1>5 DEF StartRotate, ControlInv
  <2> QED BY <1>3, <2>1, <2>2 DEF PhaseInv
<1>6. CASE StartRollback
  <2>1. MintedInv' /\ RollbackInv'
    BY <1>1, <1>6, RollbackStarts
  <2>2. verb' = "rollback" /\ removedFrom' = {}
    BY <1>6 DEF StartRollback, ControlInv
  <2> QED BY <1>3, <2>1, <2>2 DEF PhaseInv
<1>7. ASSUME NEW hosts \in SUBSET Targets, StartDeploy(hosts) PROVE PhaseInv'
  <2>1. MintedInv' /\ IdleInv'
    BY <1>1, <1>2, <1>7, RestPhase DEF StartDeploy
  <2>2. pub'["canonical"] = pub["canonical"]
    BY <1>7 DEF StartDeploy, Without, LifecycleTypeOK, KeyTargetsTypeOK, Half, Slots
  <2>3. /\ verb' = "deploy" /\ removedFrom' = {}
        /\ incoming' = pub["canonical"] /\ incoming' \notin revoked'
    BY <1>7 DEF StartDeploy, ControlInv
  <2> QED BY <1>3, <2>1, <2>2, <2>3 DEF PhaseInv
<1>8. ASSUME NEW k \in Key, StartRevoke(k) PROVE PhaseInv'
  <2>1. MintedInv' /\ IdleInv'
    BY <1>1, <1>2, <1>8, RestPhase DEF StartRevoke
  <2>2. /\ verb' = "revoke" /\ removedFrom' = {} /\ outgoing' = k /\ UNCHANGED pub
    BY <1>8 DEF StartRevoke, ControlInv, fileVars
  <2>3. pub["canonical"] = k
    BY <1>1, <1>8 DEF StartRevoke, IdleInv, AtRest, Lies, Records
  <2> QED BY <1>3, <2>1, <2>2, <2>3 DEF PhaseInv
<1> QED BY <1>4, <1>5, <1>6, <1>7, <1>8 DEF StartStep

(* Verbs that run to their end, are refused or abort leave the files and   *)
(* the records as the next one counts on them.                             *)
LEMMA PhaseStep ==
    ASSUME LifecycleTypeOK, ControlInv, PhaseInv, ControlInv', LifecycleNext, Fine
    PROVE  PhaseInv'
<1>0. MintedInv /\ CoverInv
  BY DEF PhaseInv
<1>1. CASE verb = "none" /\ pc = "idle" /\ StartStep
  BY <1>1, StartPhase
<1>2. CASE verb = "rotate" /\ RotateStep /\ pc' # "idle"
  <2>1. RotateInv
    BY <1>2 DEF PhaseInv
  <2>2. MintedInv' /\ RotateInv' /\ CoverInv'
    BY <1>0, <1>2, <2>1, RotatePhase, RotateCovers
  <2>3. verb' = "rotate"
    BY <1>2, RotateVerb
  <2>4. removedFrom' = {}
    BY <2>3 DEF ControlInv, VerbsAt, Promoted, Preserving, Restored
  <2> QED BY <2>2, <2>3, <2>4 DEF PhaseInv
<1>3. CASE verb = "rotate" /\ (Discard \/ SaveRotation)
  <2>1. RotateInv
    BY <1>3 DEF PhaseInv
  <2>2. MintedInv' /\ IdleInv' /\ CoverInv'
    BY <1>0, <1>3, <2>1, RotateEnds, RotateCovers DEF RotateStep
  <2>3. verb' = "none"
    BY <1>3 DEF Discard, SaveRotation, Return
  <2> QED BY <2>2, <2>3, IdlePhase
<1>4. CASE /\ verb = "rollback" /\ pc' # "idle"
           /\ RollbackStep \/ (RotateStep /\ UNCHANGED revoked)
  <2>1. RollbackInv
    BY <1>4 DEF PhaseInv
  <2>2. MintedInv' /\ RollbackInv' /\ CoverInv'
    BY <1>0, <1>4, <2>1, RollbackPhase, RollbackCovers
  <2>3. verb' = "rollback"
    BY <1>4, RollbackFrame
  <2>4. removedFrom' = {}
    BY <2>3 DEF ControlInv, VerbsAt, Promoted, Preserving, Restored
  <2> QED BY <2>2, <2>3, <2>4 DEF PhaseInv
<1>5. CASE verb = "rollback" /\ SaveRollback
  <2>1. RollbackInv
    BY <1>5 DEF PhaseInv
  <2>2. MintedInv' /\ IdleInv' /\ CoverInv'
    BY <1>0, <1>5, <2>1, RollbackEnds, RollbackEndCovers
  <2>3. verb' = "none"
    BY <1>5 DEF SaveRollback, Return
  <2> QED BY <2>2, <2>3, IdlePhase
<1>6. CASE verb = "deploy" /\ DeployStep
  <2>1. IdleInv /\ incoming = pub["canonical"] /\ incoming \notin revoked
    BY <1>6 DEF PhaseInv
  <2>2. CoverInv' /\ UNCHANGED path
    BY <1>0, <1>6, <2>1, DeployCovers
  <2>3. MintedInv' /\ IdleInv'
    BY <1>0, <1>6, <2>1, <2>2, RestPhase DEF DeployStep, Install, SaveDeploy
  <2>4. CASE SaveDeploy
    BY <2>2, <2>3, <2>4, IdlePhase DEF SaveDeploy, Return
  <2>5. ASSUME NEW t \in Targets, Install(t) PROVE PhaseInv'
    <3>1. UNCHANGED <<pc, verb, incoming, pub, revoked>>
      BY <2>5 DEF Install, fileVars
    <3>2. removedFrom' = {}
      BY <1>6, <3>1 DEF ControlInv, VerbsAt, Promoted, Preserving, Restored
    <3> QED BY <1>6, <2>1, <2>2, <2>3, <3>1, <3>2 DEF PhaseInv
  <2> QED BY <1>6, <2>4, <2>5 DEF DeployStep
<1>7. CASE verb = "revoke" /\ RevokeStep
  <2>1. IdleInv /\ outgoing = pub["canonical"] /\ \A t \in removedFrom : outgoing \notin trusts[t]
    BY <1>7 DEF PhaseInv
  <2>2. CoverInv' /\ (pc' # "idle" => \A t \in removedFrom' : outgoing' \notin trusts'[t])
    BY <1>0, <1>7, <2>1, RevokeCovers
  <2>3. MintedInv' /\ IdleInv'
    BY <1>0, <1>7, <2>1, RestPhase DEF RevokeStep, Withdraw, SaveWithdrawn, ListRevoked, inventoryVars
  <2>4. CASE ListRevoked
    BY <2>2, <2>3, <2>4, IdlePhase DEF ListRevoked, Return
  <2>5. CASE SaveWithdrawn \/ \E t \in Targets : Withdraw(t)
    <3>1. UNCHANGED <<verb, outgoing, pub>> /\ pc' # "idle"
      BY <2>5 DEF SaveWithdrawn, Withdraw, Goto, NextHost, fileVars
    <3> QED BY <1>7, <2>1, <2>2, <2>3, <3>1 DEF PhaseInv
  <2> QED BY <1>7, <2>4, <2>5 DEF RevokeStep
<1> QED BY <1>1, <1>2, <1>3, <1>4, <1>5, <1>6, <1>7, FineCases

LEMMA InvStep == LifecycleInv /\ [LifecycleNext]_<<lifecycleVars, mishap>> => LifecycleInv'
<1> SUFFICES ASSUME LifecycleInv, [LifecycleNext]_<<lifecycleVars, mishap>> PROVE LifecycleInv'
  OBVIOUS
<1>1. LifecycleTypeOK' /\ ControlInv'
  BY ControlStep DEF LifecycleInv
<1>2. CASE LifecycleNext
  <2>1. ASSUME ~mishap' PROVE ~mishap /\ Fine
    BY <1>2, <2>1 DEF LifecycleNext, CutShort, Fine
  <2> QED BY <1>1, <1>2, <2>1, PhaseStep DEF LifecycleInv
<1>3. CASE UNCHANGED <<lifecycleVars, mishap>>
  <2>1. PhaseInv => PhaseInv'
    BY <1>3 DEF lifecycleVars, rollbackVars, rotateVars, verbVars, fileVars, inventoryVars, PhaseInv,
       MintedInv, IdleInv, RotateInv, RollbackInv, CoverInv, AtRest, Lies, Records, Covered, Recorded
  <2> QED BY <1>1, <1>3, <2>1 DEF LifecycleInv
<1> QED BY <1>2, <1>3

-----------------------------------------------------------------------------
LEMMA LifecycleInitFacts == LifecycleInit => LifecycleTypeOK /\ ControlInv
<1> SUFFICES ASSUME LifecycleInit PROVE LifecycleTypeOK /\ ControlInv
  OBVIOUS
<1>1. RotateInit /\ revoked = {} /\ unreached = {} /\ removedFrom = {} /\ pc = "idle" /\ verb = "none"
  BY DEF LifecycleInit, RollbackInit, RotateInit
<1>2. RotateTypeOK /\ FileInv
  BY <1>1, InitFacts
<1>3. LifecycleTypeOK
  BY <1>1, <1>2 DEF RotateTypeOK, LifecycleTypeOK, RotateInit
<1>4. ControlInv
  BY <1>1, <1>2 DEF RotateInit, FileInv, ControlInv, VerbsAt, Promoted, Preserving, Restored, Committing,
     Archived
<1> QED BY <1>3, <1>4

LEMMA PhaseInit == ~LostPub /\ LifecycleInit => PhaseInv
<1> USE KeyTargetsAssumption
<1> SUFFICES ASSUME ~LostPub, LifecycleInit PROVE PhaseInv
  OBVIOUS
<1>1. PICK k \in Key, lostPub \in {FALSE, LostPub} :
        /\ minted = {k}
        /\ priv = [s \in Slots |-> IF s = "canonical" THEN k ELSE None]
        /\ pub = [s \in Slots |-> IF s = "canonical" /\ ~lostPub THEN k ELSE None]
        /\ trusts = [t \in Targets |-> {k}]
        /\ path = [j \in Key |-> IF j = k THEN "canonical" ELSE "none"]
        /\ deployments = [j \in Key |->
                            IF j = k THEN [t \in Targets |-> "verified"] ELSE NotDeployed]
  <2>1. KeyTargetsInit
    BY DEF LifecycleInit, RollbackInit, RotateInit
  <2> QED BY <2>1, Zenon DEF KeyTargetsInit
<1>2. ~lostPub
  BY Zenon
<1>3. pub = [s \in Slots |-> IF s = "canonical" THEN k ELSE None]
  BY <1>2, <1>1, Zenon
<1>4. verb = "none" /\ pc = "idle" /\ removedFrom = {}
  BY DEF LifecycleInit, RollbackInit, RotateInit
<1>5. MintedInv
  BY <1>1, <1>3 DEF MintedInv
<1>6. AtRest(priv["canonical"], None)
  BY <1>1, <1>3 DEF AtRest, Lies, Records, Slots
<1>7. CoverInv
  BY <1>1 DEF CoverInv, Covered, Recorded
<1> QED BY <1>4, <1>5, <1>6, <1>7 DEF PhaseInv, IdleInv

LEMMA ControlHolds == LifecycleSpec => [](LifecycleTypeOK /\ ControlInv)
  BY LifecycleInitFacts, ControlStep, PTL DEF LifecycleSpec

LEMMA LifecycleHolds == ~LostPub => (LifecycleSpec => []LifecycleInv)
<1> SUFFICES ASSUME ~LostPub PROVE LifecycleSpec => []LifecycleInv
  OBVIOUS
<1>1. LifecycleInit => LifecycleInv
  BY LifecycleInitFacts, PhaseInit DEF LifecycleInv
<1> QED BY <1>1, InvStep, PTL DEF LifecycleSpec

(* KeyLifecycle is type correct, whatever fails or dies.                   *)
THEOREM LifecycleTypeCorrect == LifecycleSpec => []LifecycleTypeOK
  BY ControlHolds, PTL

(* Rollbacks, deploys and revokes too never leave the canonical path       *)
(* without a private key, wherever any of them dies.                       *)
THEOREM CanonicalKeySurvivesEveryVerb == LifecycleSpec => []CanonicalKeyPresent
<1>1. ControlInv => CanonicalKeyPresent
  BY DEF ControlInv, CanonicalKeyPresent
<1> QED BY <1>1, ControlHolds, PTL

(* After any number of verbs that were refused, aborted or committed, the  *)
(* files and the inventory tell one story.                                 *)
THEOREM FilesAndRecordsAgree == ~LostPub => (LifecycleSpec => []DiskAndRecordsAgree)
<1>1. LifecycleInv => DiskAndRecordsAgree
  BY DEF LifecycleInv, ControlInv, VerbsAt, Promoted, Preserving, Restored, PhaseInv, IdleInv, AtRest,
     Lies, Records, DiskAndRecordsAgree, PairsMatch, InventoryMatchesDisk, Settled
<1> QED BY <1>1, LifecycleHolds, PTL

(* A rollback that reports itself complete has every server let in the     *)
(* restored key.                                                           *)
THEOREM CompleteRollbackIsTrusted == ~LostPub => (LifecycleSpec => []CompleteMeansTrusted)
<1>1. LifecycleInv => CompleteMeansTrusted
  <2> SUFFICES ASSUME LifecycleInv, pc = "redeploy", Complete, ~mishap,
                      NEW t \in Targets, Kind[t] = "server"
               PROVE  priv["canonical"] \in trusts[t]
    BY DEF CompleteMeansTrusted
  <2>1. RollbackInv
    BY DEF LifecycleInv, ControlInv, VerbsAt, Promoted, Preserving, Restored, PhaseInv
  <2>2. t \in verified
    BY DEF Complete
  <2> QED BY <2>1, <2>2 DEF RollbackInv, Lies
<1> QED BY <1>1, LifecycleHolds, PTL

(* No verb hands out a revoked key, as long as none was cut short.         *)
THEOREM RevokedKeyIsNeverDeployed == ~LostPub => (LifecycleSpec => []RevokedNeverDeployed)
<1>1. LifecycleInv => RevokedNeverDeployed
  BY DEF LifecycleInv, ControlInv, VerbsAt, Promoted, Preserving, Restored, PhaseInv, RollbackInv, Lies,
     RevokedNeverDeployed
<1> QED BY <1>1, LifecycleHolds, PTL

(* Between verbs, every target that lets in a key of the inventory is in   *)
(* the record of that key, whatever calls got lost.                        *)
THEOREM RecordsCoverTrust == ~LostPub => (LifecycleSpec => []RecordCoversTrust)
<1>1. LifecycleInv => RecordCoversTrust
  BY DEF LifecycleInv, PhaseInv, CoverInv, Covered, Recorded, RecordCoversTrust, Settled
<1> QED BY <1>1, LifecycleHolds, PTL

-----------------------------------------------------------------------------
(***************************************************************************)
(* Keys in 1Password: the invariants                                       *)
(***************************************************************************)
\* What a commit may have to put back, and then with the item entitled too.
Retirements == {<<"live">>, <<"filePair">>, <<"fileEra">> \o <<"live">>}
Entitlements == {<<"staged">> \o done : done \in {<<>>} \cup Retirements}
UndoStacks == {<<>>} \cup Retirements \cup Entitlements

Preparing == {"stage", "generate"}
Rolling == {"deploy", "pullBack"}
Revoking == {"setAside", "entitle", "keepPub", "succeed"}
Replacing == {"dropPrevious", "retire"} \cup Revoking
Replaced == {"cleanStaging", "revokeOld"}
Unfinished == Preparing \cup Rolling \cup Replacing \cup {"writePub", "unwind"}
Returning == {"setStale", "stepDown", "reinstate", "returnPub"}

\* The verb a step is of.
VerbOf(step) ==
    CASE step = "idle" -> "none"
      [] step \in Unfinished \cup Replaced -> "rotate"
      [] step \in Returning \cup {"putAway", "redeploy"} -> "rollback"
      [] step = "install" -> "deploy"
      [] step \in {"withdraw", "listRevoked"} -> "revoke"

\* The keys that a step gives to a target or moves into place.
HasItsKeys ==
    /\ verb = "deploy" \/ (verb = "rotate" /\ pc \notin Preparing) => incoming \in Key
    /\ pc \in Returning => pub["old"] \in Key
    /\ pc \in {"putAway", "redeploy"} => pub["canonical"] \in Key

VaultTypeInv ==
    /\ VaultTypeOK
    /\ pc \in {"idle", "putAway", "redeploy"} \cup Unfinished \cup Replaced \cup Returning
              \cup LifecycleSteps
    /\ verb = VerbOf(pc)
    /\ {todo, deployed, verified, removedFrom} \subseteq SUBSET Targets
    /\ unverifiedOk \in {FALSE, AllowUnverified}
    /\ HasItsKeys

\* How far a commit has got with what it may have to put back, and which items are held.
UndoInv ==
    /\ undo \in UndoStacks
    /\ pc = "setAside" => undo = <<"live">>
    /\ pc = "entitle" => undo \in {<<>>} \cup Retirements
    /\ pc \in {"keepPub", "succeed"} => undo \in Entitlements
    /\ pc \notin Revoking \cup {"unwind"} => undo = <<>>
    /\ pc \notin Revoking \cup {"unwind", "reinstate", "returnPub", "putAway"} => cur = None
    /\ pc \notin Returning \cup {"putAway"} => prev = None

In(change, changes) == \E i \in DOMAIN changes : changes[i] = change

\* A key file is in one place, and what is put back comes back to an empty one.
KeyFileInv ==
    /\ KeyFileIsKept
    /\ priv["canonical"] = None \/ priv["old"] = None
    /\ In("filePair", undo) => priv["canonical"] = None
    /\ In("fileEra", undo) => priv["canonical"] = None /\ priv["old"] = None
    /\ pc = "setStale" => priv["old"] # None

\* The public halves, and the two keys that a rotation is about.
PubInv ==
    /\ \A s \in Slots : pub[s] \in minted \cup {None}
    /\ verb = "rotate" => outgoing \in Key
    /\ pc \in Unfinished => pub["canonical"] = outgoing
    /\ verb = "rotate" /\ pc \notin Preparing => incoming \in minted /\ incoming # outgoing
    /\ pc \in Rolling \cup Replacing => pub["staging"] = incoming
    /\ pc = "succeed" => pub["old"] = outgoing
    /\ pc \in Replaced => pub["canonical"] = incoming

\* Whom the targets let in while a key is being replaced.
LetInInv ==
    /\ pc \in {"idle", "writePub"} \cup Preparing => verified = {}
    /\ pc = "deploy" => \A t \in verified : incoming \in trusts[t]
    /\ pc \in Replacing /\ ~unverifiedOk => \A t \in Targets : incoming \in trusts[t]

\* What is true between verbs.
Resting ==
    /\ \/ Titled("live") = {pub["canonical"]}
       \/ Titled("live") = {} /\ priv["canonical"] = pub["canonical"]
    /\ Titled("old") \subseteq {pub["old"]}

\* The commit has got as far as undo says, and taking that back restores what was.
Undoable ==
    LET live == IF In("staged", undo) THEN {incoming} ELSE {}
    IN  /\ title[incoming] = IF In("staged", undo) THEN "live" ELSE "staged"
        /\ \/ undo = <<>> /\ Resting
           \/ /\ In("live", undo) /\ cur = outgoing
              /\ Titled("live") = live /\ Titled("old") = {outgoing}
           \/ /\ In("filePair", undo) /\ priv["old"] = outgoing
              /\ Titled("live") = live /\ Titled("old") = {}

SteppedDown ==
    /\ Titled("live") = {} /\ Titled("old") = {prev}
    /\ \/ cur \in Key /\ cur = pub["canonical"]
       \/ cur = None /\ priv["canonical"] = pub["canonical"]

CalmInv ==
    /\ pc \notin Revoking \cup {"unwind", "reinstate", "returnPub"} => Resting
    /\ pc \in Rolling \cup {"writePub", "dropPrevious", "retire"} => title[incoming] = "staged"
    /\ pc = "retire" => Titled("old") = {}
    /\ pc \in Revoking \cup {"unwind"} => Undoable
    /\ pc = "entitle" => undo # <<>>
    /\ pc \in Returning => prev \in Key /\ prev = pub["old"]
    /\ pc \in {"setStale", "stepDown"} => Titled("old") = {prev}
    /\ pc = "reinstate" => SteppedDown
    /\ pc = "returnPub" => Titled("live") = {prev} /\ Titled("old") = {}
    /\ pc \in {"reinstate", "returnPub", "putAway"} /\ cur # None => title[cur] = "rolledBack"

VaultInv == VaultTypeInv /\ UndoInv /\ KeyFileInv /\ PubInv /\ (Calm => CalmInv)

-----------------------------------------------------------------------------
(***************************************************************************)
(* Stacks of undos                                                         *)
(***************************************************************************)
LEMMA PushFacts ==
    ASSUME NEW change \in Undos, NEW changes \in Seq(Undos)
    PROVE  LET more == <<change>> \o changes
           IN  /\ more \in Seq(Undos) /\ more # <<>>
               /\ Head(more) = change /\ Tail(more) = changes
               /\ \A c : In(c, more) <=> c = change \/ In(c, changes)
<1> DEFINE more == <<change>> \o changes
<1>1. /\ more \in Seq(Undos) /\ Len(more) = Len(changes) + 1 /\ more[1] = change
      /\ \A i \in 1..Len(changes) : more[i + 1] = changes[i]
  OBVIOUS
<1> HIDE DEF more
<1>2. Head(more) = change /\ Tail(more) = changes /\ more # <<>>
  BY <1>1
<1>3. ASSUME NEW c PROVE In(c, more) <=> c = change \/ In(c, changes)
  <2>1. ASSUME In(c, more) PROVE c = change \/ In(c, changes)
    <3>1. PICK i \in 1..Len(more) : more[i] = c
      BY <1>1, <2>1 DEF In
    <3>2. i = 1 \/ (i - 1 \in 1..Len(changes) /\ more[(i - 1) + 1] = changes[i - 1])
      BY <1>1, <3>1
    <3> QED BY <1>1, <3>1, <3>2 DEF In
  <2>2. In(change, more)
    BY <1>1 DEF In
  <2>3. ASSUME In(c, changes) PROVE In(c, more)
    <3>1. PICK i \in 1..Len(changes) : changes[i] = c
      BY <2>3 DEF In
    <3>2. i + 1 \in 1..Len(more) /\ more[i + 1] = c
      BY <1>1, <3>1
    <3> QED BY <1>1, <3>2 DEF In
  <2> QED BY <2>1, <2>2, <2>3
<1> QED BY <1>1, <1>2, <1>3 DEF more

LEMMA RetirementFacts ==
    /\ <<"live">> \in Seq(Undos) /\ <<"filePair">> \in Seq(Undos) /\ <<>> \in Seq(Undos)
    /\ \A c : ~In(c, <<>>)
    /\ \A c : In(c, <<"live">>) <=> c = "live"
    /\ \A c : In(c, <<"filePair">>) <=> c = "filePair"
    /\ Head(<<"live">>) = "live" /\ Tail(<<"live">>) = <<>>
    /\ Head(<<"filePair">>) = "filePair" /\ Tail(<<"filePair">>) = <<>>
  BY DEF Undos, In

(* What is undone first, and what is left to undo.                         *)
LEMMA StackFacts ==
    ASSUME NEW changes \in UndoStacks
    PROVE  /\ changes \in Seq(Undos)
           /\ \/ changes = <<>> /\ \A c : ~In(c, changes)
              \/ /\ changes # <<>>
                 /\ \A c : In(c, changes) <=> c = Head(changes) \/ In(c, Tail(changes))
                 /\ \/ Head(changes) \in {"live", "filePair"} /\ Tail(changes) = <<>>
                    \/ Head(changes) = "fileEra" /\ Tail(changes) = <<"live">>
                    \/ Head(changes) = "staged" /\ Tail(changes) \in {<<>>} \cup Retirements
<1> USE RetirementFacts
<1>0. "fileEra" \in Undos /\ "staged" \in Undos
  BY DEF Undos
<1>1. <<"fileEra">> \o <<"live">> \in Seq(Undos)
  BY <1>0, PushFacts
<1>2. CASE changes \in {<<>>, <<"live">>, <<"filePair">>}
  BY <1>2
<1>3. CASE changes = <<"fileEra">> \o <<"live">>
  <2>1. /\ Head(changes) = "fileEra" /\ Tail(changes) = <<"live">> /\ changes # <<>>
        /\ \A c : In(c, changes) <=> c = "fileEra" \/ In(c, <<"live">>)
    BY <1>0, <1>3, PushFacts
  <2> QED BY <1>1, <1>3, <2>1
<1>4. CASE changes \in Entitlements
  <2>1. PICK done \in {<<>>} \cup Retirements : changes = <<"staged">> \o done
    BY <1>4 DEF Entitlements
  <2>2. done \in Seq(Undos)
    BY <1>1, <2>1 DEF Retirements
  <2>3. /\ Head(changes) = "staged" /\ Tail(changes) = done /\ changes # <<>>
        /\ changes \in Seq(Undos)
        /\ \A c : In(c, changes) <=> c = "staged" \/ In(c, done)
    BY <1>0, <2>1, <2>2, PushFacts
  <2> QED BY <2>1, <2>3
<1> QED BY <1>2, <1>3, <1>4 DEF UndoStacks, Retirements

(* What a retirement puts back is the live title or the pair of files.     *)
LEMMA DoneFacts ==
    ASSUME NEW done \in Retirements
    PROVE  /\ ~In("staged", done) /\ done # <<>>
           /\ In("live", done) \/ In("filePair", done)
           /\ ~(In("live", done) /\ In("filePair", done))
<1> USE RetirementFacts
<1>1. CASE done \in {<<"live">>, <<"filePair">>}
  BY <1>1
<1>2. CASE done = <<"fileEra">> \o <<"live">>
  <2>0. "fileEra" \in Undos
    BY DEF Undos
  <2>1. \A c : In(c, done) <=> c = "fileEra" \/ In(c, <<"live">>)
    BY <1>2, <2>0, PushFacts
  <2>2. done # <<>>
    BY <1>2, <2>0, PushFacts
  <2> QED BY <2>1, <2>2
<1> QED BY <1>1, <1>2 DEF Retirements

-----------------------------------------------------------------------------
(***************************************************************************)
(* What the vault and the file store have in common                        *)
(***************************************************************************)
Elsewhere == (SharedStep \/ LifecycleStep) /\ UNCHANGED vaultVars

Loops == {"deploy", "pullBack", "revokeOld", "redeploy", "install", "withdraw"}

\* Where control goes, what becomes of the locals, and what becomes of the halves.
Moves(step, next) ==
    \/ step \in Loops \cup {"idle"} /\ next = step
    \/ step = "deploy" /\ next = "pullBack"
    \/ step = "cleanStaging" /\ next = "revokeOld"
    \/ step \in {"revokeOld", "redeploy", "install", "listRevoked"} /\ next = "idle"
    \/ step = "idle" /\ next \in {"install", "withdraw"}
    \/ step = "withdraw" /\ next = "listRevoked"

LeavesTheRest ==
    /\ Moves(pc, pc')
    /\ pc' # "idle" /\ pc # "idle" => UNCHANGED <<incoming, outgoing>>
    /\ pc \in Rolling => UNCHANGED pub
    /\ \A s \in Slots \ {"staging"} : priv'[s] = priv[s] /\ pub'[s] = pub[s]
    /\ pub'["staging"] \in {pub["staging"], None}
    /\ UNCHANGED <<vaultVars, minted>>

\* The type of a verb's locals.
VerbTypeOK ==
    /\ pc \in {"idle", "putAway", "redeploy"} \cup Unfinished \cup Replaced \cup Returning
              \cup LifecycleSteps
    /\ verb = VerbOf(pc)
    /\ {incoming, outgoing} \subseteq Key \cup {None}
    /\ {todo, deployed, verified, removedFrom} \subseteq SUBSET Targets
    /\ unverifiedOk \in {FALSE, AllowUnverified}

LocalsTypeOK == VerbTypeOK /\ HasItsKeys

\* The type of what is on disk and in the vault.
FilesTypeOK ==
    /\ priv \in Half /\ pub \in Half /\ minted \subseteq Key
    /\ title \in [Key -> Titles \cup {"none", "archived"}]
    /\ fileEra \subseteq Key

LEMMA SharedLeaves ==
    ASSUME VaultTypeInv, SharedStep, UNCHANGED vaultVars
    PROVE  KeyTargetsTypeOK' /\ LocalsTypeOK' /\ LeavesTheRest
<1> USE KeyTargetsAssumption, RotateAssumption
<1> USE DEF VaultTypeInv, VaultTypeOK, KeyTargetsTypeOK, LocalsTypeOK, VerbTypeOK, LeavesTheRest, Moves, Loops,
        VerbOf, HasItsKeys, Slots, Half, fileVars, inventoryVars, Rolling, Unfinished, Preparing, Replacing, Revoking,
        Replaced, Returning, LifecycleSteps
<1>1. ASSUME NEW t \in Targets, DeployStaged(t), UNCHANGED removedFrom
      PROVE  KeyTargetsTypeOK' /\ LocalsTypeOK' /\ LeavesTheRest
  <2>1. pc = "deploy" /\ incoming \in Key
    BY <1>1 DEF DeployStaged
  <2>2. PICK keys \in {trusts[t], trusts[t] \cup {incoming}} : trusts' = [trusts EXCEPT ![t] = keys]
    BY <1>1, DeployFacts
  <2>3. keys \subseteq Key
    BY <1>1, <2>1, <2>2 DEF DeployStaged
  <2>4. trusts' \in [Targets -> SUBSET Key]
    BY <2>2, <2>3
  <2>5. deployed' \subseteq Targets /\ verified' \subseteq Targets /\ todo' \subseteq Targets
    BY <1>1, DeployFacts DEF DeployStaged
  <2> QED BY <1>1, <2>1, <2>4, <2>5, ZenonT(60) DEF DeployStaged
<1>2. ASSUME NEW t \in Targets, PullBack(t), UNCHANGED removedFrom
      PROVE  KeyTargetsTypeOK' /\ LocalsTypeOK' /\ LeavesTheRest
  <2>1. PICK keys \in Removals(t, trusts[t], incoming) : trusts' = [trusts EXCEPT ![t] = keys]
    BY <1>2 DEF PullBack
  <2>2. keys \subseteq Key
    BY <2>1, RemovalFacts
  <2>3. trusts' \in [Targets -> SUBSET Key] /\ todo' \subseteq Targets
    BY <1>2, <2>1, <2>2 DEF PullBack, NextHost
  <2>4. /\ pc = "pullBack" /\ UNCHANGED <<fileVars, minted, inventoryVars>>
        /\ UNCHANGED <<pc, verb, incoming, outgoing, deployed, verified, unverifiedOk>>
    BY <1>2 DEF PullBack, NextHost
  <2> QED BY <1>2, <2>3, <2>4, ZenonT(60)
<1>3. ASSUME NEW t \in Targets, RevokeOld(t), UNCHANGED removedFrom
      PROVE  KeyTargetsTypeOK' /\ LocalsTypeOK' /\ LeavesTheRest
  <2>1. PICK keys \in Removals(t, trusts[t], outgoing) : trusts' = [trusts EXCEPT ![t] = keys]
    BY <1>3 DEF RevokeOld
  <2>2. keys \subseteq Key
    BY <2>1, RemovalFacts
  <2>3. trusts' \in [Targets -> SUBSET Key] /\ todo' \subseteq Targets
    BY <1>3, <2>1, <2>2 DEF RevokeOld, NextHost
  <2>4. /\ pc = "revokeOld" /\ UNCHANGED <<fileVars, minted, inventoryVars>>
        /\ UNCHANGED <<pc, verb, incoming, outgoing, deployed, verified, unverifiedOk>>
    BY <1>3 DEF RevokeOld, NextHost
  <2> QED BY <1>3, <2>3, <2>4, ZenonT(60)
<1>4. CASE Refused /\ UNCHANGED removedFrom
  BY <1>4 DEF Refused, Without, verbVars
<1>5. CASE Abort /\ UNCHANGED removedFrom
  BY <1>5, ZenonT(60) DEF Abort, GotoLoop
<1>6. CASE CleanStaging /\ UNCHANGED removedFrom
  BY <1>6 DEF CleanStaging, GotoLoop, Without
<1>7. CASE SaveRotation /\ UNCHANGED removedFrom
  <2>1. path' \in [Key -> {"none", "canonical", "old"}]
    BY <1>7 DEF SaveRotation, SettledPath, KeptPath
  <2>2. deployments' \in [Key -> [Targets -> DeploymentStatus]]
    BY <1>7 DEF SaveRotation, SettledDeployments, Results, NotDeployed, DeploymentStatus
  <2> QED BY <1>7, <2>1, <2>2 DEF SaveRotation, Return
<1>8. CASE SaveRollback /\ UNCHANGED removedFrom
  <2>1. path' \in [Key -> {"none", "canonical", "old"}]
    BY <1>8 DEF SaveRollback, RolledBackPath
  <2>2. deployments' \in [Key -> [Targets -> DeploymentStatus]]
    BY <1>8 DEF SaveRollback, Results, DeploymentStatus
  <2> QED BY <1>8, <2>1, <2>2 DEF SaveRollback, Return
<1>9. ASSUME NEW t \in Targets, SkipUnreachable(t), UNCHANGED removedFrom
      PROVE  KeyTargetsTypeOK' /\ LocalsTypeOK' /\ LeavesTheRest
  BY <1>9, ZenonT(60) DEF SkipUnreachable, NextHost
<1> HIDE DEF KeyTargetsTypeOK, LocalsTypeOK, LeavesTheRest
<1> QED BY <1>1, <1>2, <1>3, <1>4, <1>5, <1>6, <1>7, <1>8, <1>9 DEF SharedStep

LEMMA LifecycleLeaves ==
    ASSUME VaultTypeInv, LifecycleStep, UNCHANGED vaultVars
    PROVE  KeyTargetsTypeOK' /\ LocalsTypeOK' /\ LeavesTheRest
<1> USE KeyTargetsAssumption, RotateAssumption
<1> USE DEF VaultTypeInv, VaultTypeOK, KeyTargetsTypeOK, LocalsTypeOK, VerbTypeOK, LeavesTheRest, Moves, Loops,
        VerbOf, HasItsKeys, Slots, Half, fileVars, inventoryVars, Rolling, Unfinished, Preparing, Replacing, Revoking,
        Replaced, Returning, LifecycleSteps
<1>1. ASSUME NEW hosts \in SUBSET Targets, StartDeploy(hosts)
      PROVE  KeyTargetsTypeOK' /\ LocalsTypeOK' /\ LeavesTheRest
  BY <1>1, ZenonT(60) DEF StartDeploy, Without
<1>2. ASSUME NEW t \in Targets, Install(t) PROVE KeyTargetsTypeOK' /\ LocalsTypeOK' /\ LeavesTheRest
  <2>1. PICK keys \in {trusts[t], trusts[t] \cup {incoming}} : trusts' = [trusts EXCEPT ![t] = keys]
    BY <1>2, InstallFacts
  <2>2. trusts' \in [Targets -> SUBSET Key]
    BY <1>2, <2>1 DEF Install
  <2>3. deployed' \subseteq Targets /\ verified' \subseteq Targets /\ todo' \subseteq Targets
    BY <1>2, InstallFacts DEF Install
  <2>4. /\ pc = "install" /\ UNCHANGED <<fileVars, minted, inventoryVars, removedFrom>>
        /\ UNCHANGED <<pc, verb, incoming, outgoing, unverifiedOk>>
    BY <1>2 DEF Install
  <2> QED BY <2>2, <2>3, <2>4, ZenonT(60)
<1>3. CASE SaveDeploy
  <2>1. path' \in [Key -> {"none", "canonical", "old"}]
    BY <1>3 DEF SaveDeploy, EnsuredPath
  <2>2. deployments' \in [Key -> [Targets -> DeploymentStatus]]
    BY <1>3 DEF SaveDeploy, Installed, Results, NotDeployed, DeploymentStatus
  <2> QED BY <1>3, <2>1, <2>2 DEF SaveDeploy, Return
<1>4. ASSUME NEW k \in Key, StartRevoke(k) PROVE KeyTargetsTypeOK' /\ LocalsTypeOK' /\ LeavesTheRest
  BY <1>4 DEF StartRevoke
<1>5. ASSUME NEW t \in Targets, Withdraw(t) PROVE KeyTargetsTypeOK' /\ LocalsTypeOK' /\ LeavesTheRest
  <2>1. PICK left \in {trusts[t], trusts[t] \ {pub["canonical"]}} :
          /\ trusts' = [trusts EXCEPT ![t] = left]
          /\ removedFrom' \in {removedFrom, removedFrom \cup {t}}
    BY <1>5, WithdrawFacts
  <2>2. trusts' \in [Targets -> SUBSET Key] /\ removedFrom' \subseteq Targets
    BY <2>1
  <2>3. /\ pc = "withdraw" /\ UNCHANGED <<fileVars, minted, inventoryVars>>
        /\ UNCHANGED <<pc, verb, incoming, outgoing, deployed, verified, unverifiedOk>>
        /\ todo' \subseteq Targets
    BY <1>5 DEF Withdraw, NextHost
  <2> QED BY <2>2, <2>3, ZenonT(60)
<1>6. CASE SaveWithdrawn
  <2>1. deployments' \in [Key -> [Targets -> DeploymentStatus]]
    BY <1>6 DEF SaveWithdrawn, Withdrawn, DeploymentStatus
  <2> QED BY <1>6, <2>1 DEF SaveWithdrawn, Goto
<1>7. CASE ListRevoked
  BY <1>7 DEF ListRevoked, Return
<1>8. \A hosts \in {Targets} \cup {{t} : t \in Targets} : hosts \in SUBSET Targets
  OBVIOUS
<1> HIDE DEF KeyTargetsTypeOK, LocalsTypeOK, LeavesTheRest
<1> QED BY <1>1, <1>2, <1>3, <1>4, <1>5, <1>6, <1>7, <1>8 DEF LifecycleStep

(* None of these steps concerns a title, a private half or an undo.        *)
LEMMA ElsewhereFacts ==
    ASSUME VaultTypeInv, UndoInv, Elsewhere
    PROVE  LeavesTheRest /\ VaultTypeInv' /\ UndoInv'
<1>1. KeyTargetsTypeOK' /\ LocalsTypeOK' /\ LeavesTheRest
  BY SharedLeaves, LifecycleLeaves DEF Elsewhere
<1>2. UndoInv'
  BY <1>1 DEF UndoInv, LeavesTheRest, Moves, Loops, vaultVars, Revoking, Returning
<1>3. VaultTypeInv'
  BY <1>1, <1>2 DEF VaultTypeInv, VaultTypeOK, LocalsTypeOK, VerbTypeOK, LeavesTheRest, vaultVars, UndoInv,
     Revoking, Returning, Unfinished, Preparing, Rolling, Replacing, Replaced, LifecycleSteps,
     RotateSteps, RollbackSteps, VaultSteps
<1> QED BY <1>1, <1>2, <1>3

-----------------------------------------------------------------------------
(***************************************************************************)
(* Undos and locals                                                        *)
(***************************************************************************)
(* The stack of undos grows with the commit and is empty outside of it.    *)
LEMMA UndoStep ==
    ASSUME UndoInv, VaultStep
    PROVE  UndoInv'
<1> USE RetirementFacts
<1> USE DEF UndoInv, UndoStacks, Returning, Revoking, vaultVars
<1>1. ASSUME NEW allow \in {FALSE, AllowUnverified}, StartVaultRotate(allow) PROVE UndoInv'
  BY <1>1 DEF StartVaultRotate, vaultVars
<1>2. CASE Stage
  BY <1>2 DEF Stage, Retitle, Leave, Return, Goto, vaultVars
<1>3. CASE GenerateItem
  BY <1>3 DEF GenerateItem, Return
<1>4. CASE WriteStagedPub
  BY <1>4 DEF WriteStagedPub, GotoLoop, Unwind, Goto
<1>5. CASE VaultCommit
  BY <1>5 DEF VaultCommit, Goto, Unwind
<1>6. CASE PulledBack
  BY <1>6 DEF PulledBack, Unwind, Goto
<1>7. CASE DropPrevious
  BY <1>7 DEF DropPrevious, Retitle, Advance, Unwind, Goto
<1>8. CASE Retire
  BY <1>8 DEF Retire, Retitle, Advance, Unwind, Goto, Retirements
<1>9. CASE SetAside
  <2>1. undo = <<"live">> /\ pc = "setAside"
    BY <1>9 DEF SetAside
  <2>2. <<>> \o undo = undo
    BY <2>1
  <2>3. undo \in Retirements /\ <<"fileEra">> \o undo \in Retirements
    BY <2>1 DEF Retirements
  <2> QED BY <1>9, <2>1, <2>2, <2>3 DEF SetAside, Advance, Unwind, Goto
<1>10. CASE Entitle
  BY <1>10 DEF Entitle, Retitle, Advance, Unwind, Goto, Entitlements
<1>11. CASE KeepPub
  BY <1>11 DEF KeepPub, Advance, Unwind, Goto
<1>12. CASE Succeed
  BY <1>12 DEF Succeed, Unwind, Goto
<1>13. CASE UndoNext
  <2>1. Tail(undo) \in UndoStacks
    BY <1>13, StackFacts DEF UndoNext, Retirements
  <2> QED BY <1>13, <2>1 DEF UndoNext, verbVars
<1>14. CASE DiscardItem
  BY <1>14 DEF DiscardItem, Leave, Return
<1>15. ASSUME NEW k \in Key, StartVaultRollback(k) PROVE UndoInv'
  BY <1>15 DEF StartVaultRollback
<1>16. CASE SetStale
  BY <1>16 DEF SetStale, Leave, Return, Goto
<1>17. CASE StepDown
  BY <1>17 DEF StepDown, Retitle, Leave, Return, Goto
<1>18. CASE Reinstate
  BY <1>18 DEF Reinstate, Leave, Return, Goto
<1>19. CASE ReturnPub
  BY <1>19 DEF ReturnPub, Leave, Return, Goto
<1>20. CASE PutAway
  BY <1>20 DEF PutAway, GotoLoop
<1>21. ASSUME NEW t \in Targets, RedeployFromVault(t) PROVE UndoInv'
  BY <1>21 DEF RedeployFromVault, vaultVars
<1>22. CASE VaultCrash
  BY <1>22 DEF VaultCrash, Leave, Return
<1> HIDE DEF UndoInv
<1> QED BY <1>1, <1>2, <1>3, <1>4, <1>5, <1>6, <1>7, <1>8, <1>9, <1>10, <1>11, <1>12, <1>13, <1>14, <1>15, <1>16, <1>17, <1>18, <1>19, <1>20, <1>21, <1>22 DEF VaultStep

-----------------------------------------------------------------------------
(***************************************************************************)
(* Types                                                                   *)
(***************************************************************************)
LEMMA MovesTyped ==
    ASSUME NEW half \in Half, NEW from \in Slots, NEW to \in Slots
    PROVE  /\ Moved(half, from, to) \in Half /\ Without(half, from) \in Half
           /\ \A k \in Key \cup {None} : [half EXCEPT ![to] = k] \in Half
  BY DEF Moved, Without, Half

Titling == [Key -> Titles \cup {"none", "archived"}]

LEMMA TitlesTyped ==
    ASSUME title \in Titling
    PROVE  /\ \A k, name : name \in Titles \cup {"archived"} => [title EXCEPT ![k] = name] \in Titling
           /\ SteppedBack \in Titling
           /\ \A k : [SteppedBack EXCEPT ![k] = "live"] \in Titling
<1>1. \A k, name : name \in Titles \cup {"archived"} => [title EXCEPT ![k] = name] \in Titling
  BY DEF Titling
<1>2. SteppedBack \in Titling
  BY DEF Titling, SteppedBack, Titles
<1>3. \A k : [SteppedBack EXCEPT ![k] = "live"] \in Titling
  <2> DEFINE back == SteppedBack
  <2>1. back \in Titling
    BY <1>2
  <2> HIDE DEF back
  <2>2. \A k : [back EXCEPT ![k] = "live"] \in Titling
    BY <2>1 DEF Titling, Titles
  <2> QED BY <2>2 DEF back
<1> QED BY <1>1, <1>2, <1>3

(* The halves, the items and the files of the time before the vault.       *)
LEMMA VaultFilesTyped ==
    ASSUME VaultTypeInv, KeyFileInv, VaultStep
    PROVE  FilesTypeOK'
<1> USE KeyTargetsAssumption
<1>0. /\ priv \in Half /\ pub \in Half /\ minted \subseteq Key /\ fileEra \subseteq Key
      /\ title \in Titling
      /\ {cur, prev, incoming, outgoing} \subseteq Key \cup {None}
  BY DEF VaultTypeInv, VaultTypeOK, KeyTargetsTypeOK, Titling
<1>a. {"live", "staged", "old", "rolledBack"} = Titles /\ \A s \in Slots : priv[s] \in Key \cup {None} /\ pub[s] \in Key \cup {None}
  BY <1>0 DEF Titles, Half
<1> USE DEF FilesTypeOK, Titling, Slots, NoFiles,
        NoTargets, fileVars, vaultVars
<1>1. ASSUME NEW allow \in {FALSE, AllowUnverified}, StartVaultRotate(allow) PROVE FilesTypeOK'
  BY <1>0, <1>a, <1>1, MovesTyped, TitlesTyped DEF StartVaultRotate
<1>2. CASE Stage
  BY <1>0, <1>a, <1>2, MovesTyped, TitlesTyped DEF Stage, Retitle
<1>3. CASE GenerateItem
  BY <1>0, <1>a, <1>3, MovesTyped, TitlesTyped DEF GenerateItem
<1>4. CASE WriteStagedPub
  BY <1>0, <1>a, <1>4, MovesTyped, TitlesTyped DEF WriteStagedPub
<1>5. CASE VaultCommit
  BY <1>0, <1>a, <1>5, MovesTyped, TitlesTyped DEF VaultCommit
<1>6. CASE PulledBack
  BY <1>0, <1>a, <1>6, MovesTyped, TitlesTyped DEF PulledBack
<1>7. CASE DropPrevious
  BY <1>0, <1>a, <1>7, MovesTyped, TitlesTyped DEF DropPrevious, Retitle
<1>8. CASE Retire
  BY <1>0, <1>a, <1>8, MovesTyped, TitlesTyped DEF Retire, Retitle
<1>9. CASE SetAside
  BY <1>0, <1>a, <1>9, MovesTyped, TitlesTyped DEF SetAside, KeptAside
<1>10. CASE Entitle
  BY <1>0, <1>a, <1>10, MovesTyped, TitlesTyped DEF Entitle, Retitle
<1>11. CASE KeepPub
  BY <1>0, <1>a, <1>11, MovesTyped, TitlesTyped DEF KeepPub, KeptPub, Linked
<1>12. CASE Succeed
  BY <1>0, <1>a, <1>12, MovesTyped, TitlesTyped DEF Succeed
<1>13. CASE UndoNext
  BY <1>0, <1>a, <1>13, MovesTyped, TitlesTyped DEF UndoNext, PutBack, verbVars
<1>14. CASE DiscardItem
  BY <1>0, <1>a, <1>14, MovesTyped, TitlesTyped DEF DiscardItem
<1>15. ASSUME NEW k \in Key, StartVaultRollback(k) PROVE FilesTypeOK'
  BY <1>0, <1>a, <1>15, MovesTyped, TitlesTyped DEF StartVaultRollback
<1>16. CASE SetStale
  BY <1>0, <1>a, <1>16, MovesTyped, TitlesTyped DEF SetStale, KeptAside
<1>17. CASE StepDown
  BY <1>0, <1>a, <1>17, MovesTyped, TitlesTyped DEF StepDown, Retitle
<1>18. CASE Reinstate
  BY <1>0, <1>a, <1>18, MovesTyped, TitlesTyped DEF Reinstate, SteppedBack
<1>19. CASE ReturnPub
  BY <1>0, <1>a, <1>19, MovesTyped, TitlesTyped DEF ReturnPub
<1>20. CASE PutAway
  BY <1>0, <1>a, <1>20, MovesTyped, TitlesTyped DEF PutAway
<1>21. ASSUME NEW t \in Targets, RedeployFromVault(t) PROVE FilesTypeOK'
  BY <1>0, <1>a, <1>21, MovesTyped, TitlesTyped DEF RedeployFromVault
<1>22. CASE VaultCrash
  BY <1>0, <1>a, <1>22, MovesTyped, TitlesTyped DEF VaultCrash
<1> HIDE DEF FilesTypeOK
<1> QED BY <1>1, <1>2, <1>3, <1>4, <1>5, <1>6, <1>7, <1>8, <1>9, <1>10, <1>11, <1>12, <1>13, <1>14, <1>15, <1>16, <1>17, <1>18, <1>19, <1>20, <1>21, <1>22 DEF VaultStep

(* The locals of a verb, and which verb it is.                             *)
LEMMA VaultLocalsTyped ==
    ASSUME VaultTypeInv, VaultStep
    PROVE  VerbTypeOK'
<1> USE KeyTargetsAssumption, RotateAssumption
<1>0. /\ VerbTypeOK
      /\ \A s \in {"canonical", "old"} : pub[s] \in Key \cup {None}
  BY DEF VaultTypeInv, VaultTypeOK, KeyTargetsTypeOK, VerbTypeOK, Half, Slots
<1> USE DEF VerbTypeOK, VerbOf, Rolling, Unfinished, Preparing, Replacing, Revoking, Replaced, Returning, LifecycleSteps, NoTargets
<1>1. ASSUME NEW allow \in {FALSE, AllowUnverified}, StartVaultRotate(allow) PROVE VerbTypeOK'
  BY <1>0, <1>1 DEF StartVaultRotate
<1>2. CASE Stage
  <2>1. pc = "stage" /\ NoTargets /\ (Goto("generate") \/ Leave)
    BY <1>0, <1>2 DEF Stage, Retitle
  <2> QED BY <1>0, <2>1, ZenonT(60) DEF Goto, Leave, Return
<1>3. CASE GenerateItem
  <2>1. /\ pc = "generate" /\ UNCHANGED removedFrom
        /\ \/ Return
           \/ /\ incoming' \in Key /\ pc' = "writePub"
              /\ UNCHANGED <<verb, outgoing, todo, deployed, verified, unverifiedOk>>
    BY <1>0, <1>3 DEF GenerateItem
  <2> QED BY <1>0, <2>1, ZenonT(60) DEF Return
<1>4. CASE WriteStagedPub
  <2>1. pc = "writePub" /\ NoTargets /\ (GotoLoop("deploy", Targets) \/ Goto("unwind"))
    BY <1>0, <1>4 DEF WriteStagedPub, Unwind
  <2> QED BY <1>0, <2>1 DEF Goto, GotoLoop
<1>5. CASE VaultCommit
  BY <1>0, <1>5 DEF VaultCommit, Goto, Unwind
<1>6. CASE PulledBack
  BY <1>0, <1>6 DEF PulledBack, Unwind, Goto
<1>7. CASE DropPrevious
  BY <1>0, <1>7 DEF DropPrevious, Retitle, Advance, Unwind, Goto
<1>8. CASE Retire
  BY <1>0, <1>8 DEF Retire, Retitle, Advance, Unwind, Goto
<1>9. CASE SetAside
  BY <1>0, <1>9 DEF SetAside, Advance, Unwind, Goto
<1>10. CASE Entitle
  <2>1. pc = "entitle" /\ NoTargets /\ (Goto("keepPub") \/ Goto("unwind"))
    BY <1>0, <1>10 DEF Entitle, Retitle, Advance, Unwind
  <2> QED BY <1>0, <2>1 DEF Goto
<1>11. CASE KeepPub
  BY <1>0, <1>11 DEF KeepPub, Advance, Unwind, Goto
<1>12. CASE Succeed
  BY <1>0, <1>12 DEF Succeed, Unwind, Goto
<1>13. CASE UndoNext
  BY <1>0, <1>13 DEF UndoNext, verbVars
<1>14. CASE DiscardItem
  BY <1>0, <1>14 DEF DiscardItem, Leave, Return
<1>15. ASSUME NEW k \in Key, StartVaultRollback(k) PROVE VerbTypeOK'
  BY <1>0, <1>15 DEF StartVaultRollback
<1>16. CASE SetStale
  BY <1>0, <1>16 DEF SetStale, Leave, Return, Goto
<1>17. CASE StepDown
  <2>1. pc = "stepDown" /\ NoTargets /\ (Goto("reinstate") \/ Leave)
    BY <1>0, <1>17 DEF StepDown, Retitle
  <2> QED BY <1>0, <2>1 DEF Goto, Leave, Return
<1>18. CASE Reinstate
  <2>1. pc = "reinstate" /\ NoTargets /\ (Goto("returnPub") \/ Leave)
    BY <1>0, <1>18 DEF Reinstate
  <2> QED BY <1>0, <2>1 DEF Goto, Leave, Return
<1>19. CASE ReturnPub
  BY <1>0, <1>19 DEF ReturnPub, Leave, Return, Goto
<1>20. CASE PutAway
  BY <1>0, <1>20 DEF PutAway, GotoLoop
<1>21. ASSUME NEW t \in Targets, RedeployFromVault(t) PROVE VerbTypeOK'
  <2>1. /\ pc = "redeploy" /\ todo' = todo \ {t} /\ UNCHANGED removedFrom
        /\ UNCHANGED <<pc, verb, incoming, outgoing, unverifiedOk>>
        /\ deployed' \subseteq deployed \cup {t} /\ verified' \subseteq verified \cup {t}
    BY <1>0, <1>21 DEF RedeployFromVault
  <2> QED BY <1>0, <2>1
<1>22. CASE VaultCrash
  BY <1>0, <1>22 DEF VaultCrash, Leave, Return
<1> HIDE DEF VerbTypeOK
<1> QED BY <1>1, <1>2, <1>3, <1>4, <1>5, <1>6, <1>7, <1>8, <1>9, <1>10, <1>11, <1>12, <1>13, <1>14, <1>15, <1>16, <1>17, <1>18, <1>19, <1>20, <1>21, <1>22 DEF VaultStep


(* The keys a step needs are there when it comes to it.                    *)
LEMMA HasItsKeysStep ==
    ASSUME VaultTypeInv, VaultStep
    PROVE  HasItsKeys'
<1>0. HasItsKeys /\ verb = VerbOf(pc) /\ pub \in Half
  BY DEF VaultTypeInv, VaultTypeOK, KeyTargetsTypeOK
<1> USE KeyTargetsAssumption
<1> USE DEF HasItsKeys, VerbOf, Slots, Half, Rolling, Unfinished, Preparing, Replacing, Revoking, Replaced,
        Returning, NoFiles, fileVars, vaultVars
<1>1. ASSUME NEW allow \in {FALSE, AllowUnverified}, StartVaultRotate(allow) PROVE HasItsKeys'
  BY <1>0, <1>1 DEF StartVaultRotate
<1>2. CASE Stage
  BY <1>0, <1>2 DEF Stage, Retitle, Leave, Return, Goto
<1>3. CASE GenerateItem
  BY <1>0, <1>3 DEF GenerateItem, Return
<1>4. CASE WriteStagedPub
  BY <1>0, <1>4 DEF WriteStagedPub, GotoLoop, Unwind, Goto
<1>5. CASE VaultCommit
  BY <1>0, <1>5 DEF VaultCommit, Goto, Unwind
<1>6. CASE PulledBack
  BY <1>0, <1>6 DEF PulledBack, Unwind, Goto
<1>7. CASE DropPrevious
  BY <1>0, <1>7 DEF DropPrevious, Retitle, Advance, Unwind, Goto
<1>8. CASE Retire
  BY <1>0, <1>8 DEF Retire, Retitle, Advance, Unwind, Goto
<1>9. CASE SetAside
  BY <1>0, <1>9 DEF SetAside, Advance, Unwind, Goto
<1>10. CASE Entitle
  BY <1>0, <1>10 DEF Entitle, Retitle, Advance, Unwind, Goto
<1>11. CASE KeepPub
  BY <1>0, <1>11 DEF KeepPub, Advance, Unwind, Goto
<1>12. CASE Succeed
  BY <1>0, <1>12 DEF Succeed, Unwind, Goto
<1>13. CASE UndoNext
  BY <1>0, <1>13 DEF UndoNext, verbVars
<1>14. CASE DiscardItem
  BY <1>0, <1>14 DEF DiscardItem, Leave, Return
<1>15. ASSUME NEW k \in Key, StartVaultRollback(k) PROVE HasItsKeys'
  BY <1>0, <1>15 DEF StartVaultRollback
<1>16. CASE SetStale
  BY <1>0, <1>16 DEF SetStale, Leave, Return, Goto
<1>17. CASE StepDown
  BY <1>0, <1>17 DEF StepDown, Retitle, Leave, Return, Goto
<1>18. CASE Reinstate
  BY <1>0, <1>18 DEF Reinstate, Leave, Return, Goto
<1>19. CASE ReturnPub
  BY <1>0, <1>19 DEF ReturnPub, Leave, Return, Goto, Moved
<1>20. CASE PutAway
  BY <1>0, <1>20 DEF PutAway, GotoLoop
<1>21. ASSUME NEW t \in Targets, RedeployFromVault(t) PROVE HasItsKeys'
  BY <1>0, <1>21 DEF RedeployFromVault
<1>22. CASE VaultCrash
  BY <1>0, <1>22 DEF VaultCrash, Leave, Return
<1> HIDE DEF HasItsKeys
<1> QED BY <1>1, <1>2, <1>3, <1>4, <1>5, <1>6, <1>7, <1>8, <1>9, <1>10, <1>11, <1>12, <1>13, <1>14, <1>15, <1>16, <1>17, <1>18, <1>19, <1>20, <1>21, <1>22 DEF VaultStep

(* Every variable keeps its type.                                          *)
LEMMA VaultTypeStep ==
    ASSUME VaultTypeInv, UndoInv, KeyFileInv, VaultStep
    PROVE  VaultTypeInv' /\ UndoInv'
<1>1. UndoInv' /\ FilesTypeOK' /\ VerbTypeOK' /\ HasItsKeys'
  BY UndoStep, VaultFilesTyped, VaultLocalsTyped, HasItsKeysStep
<1>2. trusts' \in [Targets -> SUBSET Key]
  <2>1. trusts \in [Targets -> SUBSET Key]
    BY DEF VaultTypeInv, VaultTypeOK, KeyTargetsTypeOK
  <2>2. ASSUME NEW t \in Targets, RedeployFromVault(t) PROVE trusts' \in [Targets -> SUBSET Key]
    <3>1. pub["canonical"] \in Key
      BY <2>2 DEF RedeployFromVault, VaultTypeInv, HasItsKeys
    <3>2. PICK keys \in {trusts[t], trusts[t] \cup {pub["canonical"]}} :
            \E left \in Removals(t, keys, outgoing) : trusts' = [trusts EXCEPT ![t] = left]
      BY <2>2 DEF RedeployFromVault
    <3>3. PICK left \in Removals(t, keys, outgoing) : trusts' = [trusts EXCEPT ![t] = left]
      BY <3>2
    <3>4. left \subseteq Key
      BY <2>1, <3>1, <3>2, <3>3, RemovalFacts
    <3> QED BY <2>1, <3>3, <3>4
  <2>3. UNCHANGED trusts \/ \E t \in Targets : RedeployFromVault(t)
    BY DEF VaultStep, StartVaultRotate, Stage, GenerateItem, WriteStagedPub, VaultCommit, PulledBack,
       DropPrevious, Retire, SetAside, Entitle, KeepPub, Succeed, UndoNext, DiscardItem,
       StartVaultRollback, SetStale, StepDown, Reinstate, ReturnPub, PutAway, VaultCrash, NoTargets
  <2> QED BY <2>1, <2>2, <2>3
<1>3. path' \in [Key -> {"none", "canonical", "old"}] /\ deployments' \in [Key -> [Targets -> DeploymentStatus]]
  <2>1. UNCHANGED inventoryVars
    BY DEF VaultStep, StartVaultRotate, Stage, GenerateItem, WriteStagedPub, VaultCommit, PulledBack,
       DropPrevious, Retire, SetAside, Entitle, KeepPub, Succeed, UndoNext, DiscardItem,
       StartVaultRollback, SetStale, StepDown, Reinstate, ReturnPub, PutAway, RedeployFromVault,
       VaultCrash, NoTargets
  <2> QED BY <2>1 DEF VaultTypeInv, VaultTypeOK, KeyTargetsTypeOK, inventoryVars
<1>4. {cur', prev'} \subseteq Key \cup {None}
  <2>1. {cur, prev} \subseteq Key \cup {None}
    BY DEF VaultTypeInv, VaultTypeOK
  <2>2. cur' \in Key \cup {None, cur} /\ prev' \in Key \cup {None, prev}
    BY DEF VaultStep, StartVaultRotate, Stage, GenerateItem, WriteStagedPub, VaultCommit, PulledBack,
       DropPrevious, Retire, SetAside, Entitle, KeepPub, Succeed, UndoNext, DiscardItem,
       StartVaultRollback, SetStale, StepDown, Reinstate, ReturnPub, PutAway, RedeployFromVault,
       VaultCrash, Retitle, Leave, Unwind, Advance, vaultVars
  <2> QED BY <2>1, <2>2
<1>5. undo' \in Seq(Undos)
  <2>1. undo' \in UndoStacks
    BY <1>1 DEF UndoInv
  <2> QED BY <2>1, StackFacts
<1>6. KeyTargetsTypeOK'
  BY <1>1, <1>2, <1>3 DEF KeyTargetsTypeOK, FilesTypeOK
<1>7. VaultTypeOK'
  BY <1>1, <1>4, <1>5, <1>6 DEF VaultTypeOK, FilesTypeOK, VerbTypeOK, UndoInv, Unfinished, Preparing, Rolling,
     Replacing, Replaced, Revoking, Returning, LifecycleSteps, RotateSteps, RollbackSteps, VaultSteps
<1> QED BY <1>1, <1>7 DEF VaultTypeInv, VerbTypeOK

-----------------------------------------------------------------------------
(***************************************************************************)
(* Key files                                                               *)
(***************************************************************************)
(* An item keeps a title once it has one, and a new key has one.           *)
LEMMA NamesStay ==
    ASSUME VaultTypeInv, UndoInv, VaultStep
    PROVE  \A k \in minted' : title'[k] = "none" => k \in minted /\ title[k] = "none"
<1>0. title \in Titling /\ minted \subseteq Key
  BY DEF VaultTypeInv, VaultTypeOK, KeyTargetsTypeOK, Titling
<1>1. \/ \E k \in Key : minted' = minted \cup {k} /\ title' = [title EXCEPT ![k] = "staged"]
      \/ minted' = minted /\ title' = title
      \/ /\ minted' = minted
         /\ \E k, name : name \in Titles \cup {"archived"} /\ title' = [title EXCEPT ![k] = name]
      \/ minted' = minted /\ title' \in {SteppedBack, [SteppedBack EXCEPT ![prev] = "live"]}
  <2> USE DEF vaultVars, NoTargets, Titles
  <2>1. CASE \/ \E allow \in {FALSE, AllowUnverified} : StartVaultRotate(allow)
             \/ \E k \in Key : StartVaultRollback(k)
             \/ WriteStagedPub \/ VaultCommit \/ PulledBack \/ SetAside \/ KeepPub \/ Succeed
             \/ SetStale \/ ReturnPub \/ \E t \in Targets : RedeployFromVault(t)
             \/ VaultCrash
    BY <2>1 DEF StartVaultRotate, StartVaultRollback, WriteStagedPub, VaultCommit, PulledBack,
       SetAside, KeepPub, Succeed, SetStale, ReturnPub, RedeployFromVault, VaultCrash
  <2>2. CASE Stage
    BY <2>2 DEF Stage, Retitle
  <2>3. CASE GenerateItem
    BY <2>3 DEF GenerateItem
  <2>4. CASE DropPrevious
    BY <2>4 DEF DropPrevious, Retitle
  <2>5. CASE Retire
    BY <2>5 DEF Retire, Retitle
  <2>6. CASE Entitle
    BY <2>6 DEF Entitle, Retitle
  <2>7. CASE UndoNext
    <3>1. Head(undo) \in {"live", "filePair", "fileEra", "staged"}
      BY <2>7, StackFacts DEF UndoNext, UndoInv
    <3>2. minted' = minted /\ (PutBack(Head(undo)) \/ title' = title)
      BY <2>7 DEF UndoNext
    <3> QED BY <3>1, <3>2 DEF PutBack
  <2>8. CASE DiscardItem
    BY <2>8 DEF DiscardItem
  <2>9. CASE StepDown
    BY <2>9 DEF StepDown, Retitle
  <2>10. CASE Reinstate
    BY <2>10 DEF Reinstate
  <2>11. CASE PutAway
    BY <2>11 DEF PutAway
  <2> QED BY <2>1, <2>2, <2>3, <2>4, <2>5, <2>6, <2>7, <2>8, <2>9, <2>10, <2>11 DEF VaultStep
<1>2. CASE \E k \in Key : minted' = minted \cup {k} /\ title' = [title EXCEPT ![k] = "staged"]
  BY <1>0, <1>2 DEF Titling
<1>3. CASE minted' = minted /\ \E k, name : name \in Titles \cup {"archived"} /\ title' = [title EXCEPT ![k] = name]
  BY <1>0, <1>3 DEF Titling, Titles
<1>4. CASE minted' = minted /\ title' \in {SteppedBack, [SteppedBack EXCEPT ![prev] = "live"]}
  BY <1>0, <1>4 DEF Titling, SteppedBack
<1> QED BY <1>1, <1>2, <1>3, <1>4

FilesStay ==
    /\ priv'["canonical"] = priv["canonical"] /\ priv'["old"] = priv["old"]
    /\ fileEra' = fileEra

LEMMA FilesKept ==
    ASSUME KeyFileInv, FilesStay,
           \A k \in minted' : title'[k] = "none" => k \in minted /\ title[k] = "none",
           \A c \in {"filePair", "fileEra"} : In(c, undo') => In(c, undo),
           pc' = "setStale" => priv["old"] # None
    PROVE  KeyFileInv'
  BY DEF KeyFileInv, KeyFileIsKept, FilesStay

(* A step that moves no key file.                                          *)
LEMMA FilesStayPut ==
    ASSUME VaultTypeInv, UndoInv, VaultStep, ~Retire, ~SetAside, ~SetStale, ~UndoNext
    PROVE  /\ FilesStay
           /\ \A c \in {"filePair", "fileEra"} : In(c, undo') => In(c, undo)
           /\ pc' = "setStale" => priv["old"] # None
<1>0. priv \in Half /\ {"canonical", "old", "staging"} \subseteq Slots /\ \A c : ~In(c, <<>>)
  BY RetirementFacts DEF VaultTypeInv, VaultTypeOK, KeyTargetsTypeOK, Slots
<1>1. \/ undo' \in {undo, <<>>}
      \/ undo' = <<>> \o undo
      \/ undo' = <<"staged">> \o undo
  <2> USE DEF vaultVars
  <2>1. CASE \/ \E allow \in {FALSE, AllowUnverified} : StartVaultRotate(allow)
             \/ Stage \/ GenerateItem \/ WriteStagedPub \/ VaultCommit \/ PulledBack
             \/ DropPrevious \/ DiscardItem
    BY <2>1 DEF StartVaultRotate, Stage, GenerateItem, WriteStagedPub, VaultCommit, PulledBack,
       DropPrevious, DiscardItem, Retitle, Unwind, Advance, Leave
  <2>2. CASE Entitle \/ KeepPub \/ Succeed
    BY <2>2 DEF Entitle, KeepPub, Succeed, Retitle, Unwind, Advance
  <2>3. CASE \/ \E k \in Key : StartVaultRollback(k)
             \/ StepDown \/ Reinstate \/ ReturnPub \/ PutAway
             \/ \E t \in Targets : RedeployFromVault(t)
             \/ VaultCrash
    BY <2>3 DEF StartVaultRollback, StepDown, Reinstate, ReturnPub, PutAway, RedeployFromVault,
       VaultCrash, Retitle, Leave
  <2> QED BY <2>1, <2>2, <2>3 DEF VaultStep
<1>2. undo \in Seq(Undos)
  BY StackFacts DEF UndoInv
<1>3. <<>> \o undo = undo
  BY <1>2
<1>4. ASSUME NEW c \in {"filePair", "fileEra"}, In(c, undo') PROVE In(c, undo)
  <2>1. CASE undo' = <<"staged">> \o undo
    <3>1. "staged" \in Undos
      BY DEF Undos
    <3> QED BY <1>2, <1>4, <2>1, <3>1, PushFacts
  <2> QED BY <1>0, <1>1, <1>3, <1>4, <2>1
<1>5. FilesStay
  <2> USE DEF vaultVars, fileVars, NoFiles, FilesStay
  <2>1. CASE \/ \E allow \in {FALSE, AllowUnverified} : StartVaultRotate(allow)
             \/ Stage \/ GenerateItem \/ WriteStagedPub \/ VaultCommit \/ PulledBack
             \/ DropPrevious \/ DiscardItem
    BY <2>1 DEF StartVaultRotate, Stage, GenerateItem, WriteStagedPub, VaultCommit, PulledBack,
       DropPrevious, DiscardItem
  <2>2. CASE Entitle \/ KeepPub \/ Succeed
    BY <2>2 DEF Entitle, KeepPub, Succeed
  <2>3. CASE \/ \E k \in Key : StartVaultRollback(k)
             \/ StepDown \/ Reinstate \/ ReturnPub \/ PutAway
             \/ \E t \in Targets : RedeployFromVault(t)
             \/ VaultCrash
    BY <2>3 DEF StartVaultRollback, StepDown, Reinstate, ReturnPub, PutAway, RedeployFromVault,
       VaultCrash
  <2> QED BY <2>1, <2>2, <2>3 DEF VaultStep
<1>6. pc' = "setStale" => priv["old"] # None
  <2> USE DEF Goto, GotoLoop, Leave, Return, Unwind, Advance
  <2>1. CASE \/ \E allow \in {FALSE, AllowUnverified} : StartVaultRotate(allow)
             \/ Stage \/ GenerateItem \/ WriteStagedPub \/ VaultCommit \/ PulledBack
             \/ DropPrevious \/ DiscardItem
    BY <2>1 DEF StartVaultRotate, Stage, GenerateItem, WriteStagedPub, VaultCommit, PulledBack,
       DropPrevious, DiscardItem, Retitle
  <2>2. CASE Entitle \/ KeepPub \/ Succeed
    BY <2>2 DEF Entitle, KeepPub, Succeed, Retitle
  <2>3. CASE \/ \E k \in Key : StartVaultRollback(k)
             \/ StepDown \/ Reinstate \/ ReturnPub \/ PutAway
             \/ \E t \in Targets : RedeployFromVault(t)
             \/ VaultCrash
    BY <2>3 DEF StartVaultRollback, StepDown, Reinstate, ReturnPub, PutAway, RedeployFromVault,
       VaultCrash, Retitle
  <2> QED BY <2>1, <2>2, <2>3 DEF VaultStep
<1> QED BY <1>4, <1>5, <1>6

(* A key file is only ever moved, and only to where there is none.         *)
LEMMA KeyFileStep ==
    ASSUME VaultTypeInv, UndoInv, KeyFileInv, VaultStep
    PROVE  KeyFileInv'
<1>0. /\ priv \in Half /\ {"canonical", "old", "staging"} \subseteq Slots /\ None \notin Key
      /\ \A k \in minted' : title'[k] = "none" => k \in minted /\ title[k] = "none"
      /\ \A c : ~In(c, <<>>)
      /\ \A k \in minted : title[k] = "none" => k \in Key
  BY NamesStay, KeyTargetsAssumption, RetirementFacts
     DEF VaultTypeInv, VaultTypeOK, KeyTargetsTypeOK, Slots
<1>1. CASE Retire
  <2>0. undo = <<>> /\ pc = "retire"
    BY <1>1 DEF Retire, UndoInv, Revoking
  <2>1. CASE /\ priv["canonical"] # None /\ priv' = Moved(priv, "canonical", "old")
             /\ Advance("entitle", <<"filePair">>)
    <3>1. /\ priv'["canonical"] = None /\ priv'["old"] = priv["canonical"] /\ priv["old"] = None
          /\ fileEra' = fileEra
      BY <1>0, <1>1, <2>1 DEF Moved, Half, Retire, KeyFileInv
    <3>2. undo' = <<"filePair">> /\ pc' = "entitle"
      BY <2>0, <2>1 DEF Advance, Goto
    <3>3. ~In("fileEra", undo')
      BY <3>2, RetirementFacts
    <3> QED BY <1>0, <3>1, <3>2, <3>3 DEF KeyFileInv, KeyFileIsKept
  <2>2. CASE UNCHANGED priv
    <3>1. undo' \in {<<"live">>, <<>>} /\ pc' # "setStale" /\ fileEra' = fileEra
      BY <1>0, <1>1, <2>0, <2>2 DEF Retire, Retitle, Advance, Unwind, Goto, Moved, Half
    <3>2. \A c \in {"filePair", "fileEra"} : ~In(c, undo')
      BY <3>1, RetirementFacts
    <3> QED BY <1>0, <2>2, <3>1, <3>2, FilesKept DEF FilesStay
  <2> QED BY <1>1, <2>1, <2>2 DEF Retire
<1>2. CASE SetAside
  <2>0. undo = <<"live">> /\ pc = "setAside" /\ \A c \in {"filePair", "fileEra"} : ~In(c, undo)
    BY <1>2, RetirementFacts DEF SetAside, UndoInv
  <2>1. CASE priv["old"] # None /\ fileEra' = KeptAside /\ priv' = Without(priv, "old")
             /\ Advance("entitle", <<"fileEra">>)
    <3>1. /\ priv'["canonical"] = priv["canonical"] /\ priv["canonical"] = None
          /\ priv'["old"] = None /\ fileEra' = fileEra \cup {priv["old"]}
      BY <1>0, <2>1 DEF Without, Half, KeyFileInv, KeptAside
    <3>2. pc' = "entitle"
      BY <2>1 DEF Advance, Goto
    <3> QED BY <1>0, <3>1, <3>2 DEF KeyFileInv, KeyFileIsKept
  <2>2. CASE UNCHANGED <<priv, fileEra>> /\ (Advance("entitle", <<>>) \/ Unwind(undo))
    <3>1. undo' = undo /\ pc' # "setStale"
      BY <2>0, <2>2 DEF Advance, Unwind, Goto
    <3> QED BY <1>0, <2>2, <3>1, FilesKept DEF FilesStay
  <2> QED BY <1>2, <2>1, <2>2 DEF SetAside
<1>3. CASE SetStale
  <2>0. undo = <<>>
    BY <1>3 DEF SetStale, UndoInv, Revoking
  <2>1. CASE fileEra' = KeptAside /\ priv' = Without(priv, "old") /\ Goto("stepDown")
    <3>1. /\ priv'["canonical"] = priv["canonical"] /\ priv'["old"] = None
          /\ fileEra' = fileEra \cup {priv["old"]} /\ undo' = undo /\ pc' = "stepDown"
      BY <1>0, <1>3, <2>0, <2>1 DEF Without, Half, KeptAside, SetStale, Goto, Leave
    <3> QED BY <1>0, <2>0, <3>1 DEF KeyFileInv, KeyFileIsKept
  <2>2. CASE Leave /\ UNCHANGED <<priv, fileEra>>
    <3>1. undo' = <<>> /\ pc' = "idle"
      BY <2>2 DEF Leave, Return
    <3> QED BY <1>0, <2>2, <3>1, FilesKept DEF FilesStay
  <2> QED BY <1>3, <2>1, <2>2 DEF SetStale
<1>4. CASE UndoNext
  <2>0. /\ pc' = "unwind" /\ undo # <<>> /\ undo' = Tail(undo)
        /\ \A c : In(c, undo) <=> c = Head(undo) \/ In(c, undo')
        /\ \/ Head(undo) \in {"live", "filePair"} /\ undo' = <<>>
           \/ Head(undo) = "fileEra" /\ undo' = <<"live">>
           \/ Head(undo) = "staged"
    BY <1>4, StackFacts DEF UndoNext, verbVars, UndoInv
  <2>1. CASE PutBack(Head(undo)) /\ Head(undo) = "filePair"
    <3>1. /\ priv' = Moved(priv, "old", "canonical") /\ fileEra' = fileEra
          /\ priv["canonical"] = None
      BY <2>0, <2>1 DEF PutBack, KeyFileInv
    <3>2. priv'["canonical"] = priv["old"] /\ priv'["old"] = None
      BY <1>0, <3>1 DEF Moved, Half
    <3> QED BY <1>0, <2>0, <2>1, <3>1, <3>2 DEF KeyFileInv, KeyFileIsKept
  <2>2. CASE PutBack(Head(undo)) /\ Head(undo) = "fileEra"
    <3>1. priv["canonical"] = None /\ priv["old"] = None
      BY <2>0, <2>2 DEF KeyFileInv
    <3>2. PICK f \in fileEra : priv' = [priv EXCEPT !["old"] = f] /\ fileEra' = fileEra \ {f}
      BY <2>2 DEF PutBack
    <3>3. priv'["canonical"] = None /\ priv'["old"] = f
      BY <1>0, <3>1, <3>2 DEF Half
    <3>4. \A c : In(c, undo') <=> c = "live"
      BY <2>0, <2>2, RetirementFacts
    <3> QED BY <1>0, <2>0, <3>1, <3>2, <3>3, <3>4 DEF KeyFileInv, KeyFileIsKept
  <2>3. CASE UNCHANGED <<priv, fileEra>>
    BY <1>0, <2>0, <2>3, FilesKept DEF FilesStay
  <2> QED BY <1>4, <2>0, <2>1, <2>2, <2>3 DEF UndoNext, PutBack
<1>5. CASE ~Retire /\ ~SetAside /\ ~SetStale /\ ~UndoNext
  BY <1>0, <1>5, FilesKept, FilesStayPut
<1> QED BY <1>1, <1>2, <1>3, <1>4, <1>5

-----------------------------------------------------------------------------
(***************************************************************************)
(* Public halves and targets                                               *)
(***************************************************************************)
(* The public halves follow the two keys of the rotation.                  *)
LEMMA PubStep ==
    ASSUME VaultTypeInv, PubInv, VaultStep
    PROVE  PubInv'
<1>0. /\ pub \in Half /\ {"canonical", "old", "staging"} \subseteq Slots /\ minted \subseteq Key /\ None \notin Key
      /\ verb = VerbOf(pc) /\ HasItsKeys
  BY KeyTargetsAssumption DEF VaultTypeInv, VaultTypeOK, KeyTargetsTypeOK, Slots
<1> USE DEF PubInv, HasItsKeys, VerbOf, Half, Rolling, Unfinished, Preparing, Replacing, Revoking, Replaced,
        Returning, NoFiles, NoTargets, fileVars, vaultVars
<1>1. ASSUME NEW allow \in {FALSE, AllowUnverified}, StartVaultRotate(allow) PROVE PubInv'
  BY <1>0, <1>1 DEF StartVaultRotate
<1>2. CASE Stage
  BY <1>0, <1>2 DEF Stage, Retitle, Leave, Return, Goto
<1>3. CASE GenerateItem
  BY <1>0, <1>3 DEF GenerateItem, Return, Without
<1>4. CASE WriteStagedPub
  BY <1>0, <1>4 DEF WriteStagedPub, GotoLoop, Unwind, Goto
<1>5. CASE VaultCommit
  BY <1>0, <1>5 DEF VaultCommit, Goto, Unwind
<1>6. CASE PulledBack
  BY <1>0, <1>6 DEF PulledBack, Unwind, Goto
<1>7. CASE DropPrevious
  BY <1>0, <1>7 DEF DropPrevious, Retitle, Advance, Unwind, Goto
<1>8. CASE Retire
  BY <1>0, <1>8 DEF Retire, Retitle, Advance, Unwind, Goto
<1>9. CASE SetAside
  BY <1>0, <1>9 DEF SetAside, Advance, Unwind, Goto
<1>10. CASE Entitle
  BY <1>0, <1>10 DEF Entitle, Retitle, Advance, Unwind, Goto
<1>11. CASE KeepPub
  BY <1>0, <1>11 DEF KeepPub, Advance, Unwind, Goto, KeptPub, Linked
<1>12. CASE Succeed
  BY <1>0, <1>12 DEF Succeed, Unwind, Goto, Moved
<1>13. CASE UndoNext
  BY <1>0, <1>13 DEF UndoNext, verbVars
<1>14. CASE DiscardItem
  BY <1>0, <1>14 DEF DiscardItem, Leave, Return, Without
<1>15. ASSUME NEW k \in Key, StartVaultRollback(k) PROVE PubInv'
  BY <1>0, <1>15 DEF StartVaultRollback
<1>16. CASE SetStale
  BY <1>0, <1>16 DEF SetStale, Leave, Return, Goto
<1>17. CASE StepDown
  BY <1>0, <1>17 DEF StepDown, Retitle, Leave, Return, Goto
<1>18. CASE Reinstate
  BY <1>0, <1>18 DEF Reinstate, Leave, Return, Goto
<1>19. CASE ReturnPub
  BY <1>0, <1>19 DEF ReturnPub, Leave, Return, Goto, Moved
<1>20. CASE PutAway
  BY <1>0, <1>20 DEF PutAway, GotoLoop
<1>21. ASSUME NEW t \in Targets, RedeployFromVault(t) PROVE PubInv'
  BY <1>0, <1>21 DEF RedeployFromVault
<1>22. CASE VaultCrash
  BY <1>0, <1>22 DEF VaultCrash, Leave, Return
<1> HIDE DEF PubInv
<1> QED BY <1>1, <1>2, <1>3, <1>4, <1>5, <1>6, <1>7, <1>8, <1>9, <1>10, <1>11, <1>12, <1>13, <1>14, <1>15, <1>16, <1>17, <1>18, <1>19, <1>20, <1>21, <1>22 DEF VaultStep

LEMMA PubElsewhere ==
    ASSUME VaultTypeInv, VaultTypeInv', PubInv, LeavesTheRest
    PROVE  PubInv'
<1>0. verb = VerbOf(pc) /\ verb' = VerbOf(pc') /\ {"canonical", "old", "staging"} \subseteq Slots
  BY DEF VaultTypeInv, Slots
<1> QED BY <1>0 DEF PubInv, LeavesTheRest, Moves, Loops, VerbOf, Rolling, Unfinished, Preparing, Replacing,
        Revoking, Replaced, Returning

(* Before a key is made active, every target lets it in.                   *)
LEMMA LetInStep ==
    ASSUME VaultTypeInv, LetInInv, VaultStep
    PROVE  LetInInv'
<1>0. unverifiedOk \in {FALSE, AllowUnverified}
  BY DEF VaultTypeInv
<1> USE DEF LetInInv, Rolling, Preparing, Replacing, Revoking, Returning, NoTargets, vaultVars
<1>1. ASSUME NEW allow \in {FALSE, AllowUnverified}, StartVaultRotate(allow) PROVE LetInInv'
  BY <1>0, <1>1 DEF StartVaultRotate
<1>2. CASE Stage
  BY <1>0, <1>2 DEF Stage, Retitle, Leave, Return, Goto
<1>3. CASE GenerateItem
  BY <1>0, <1>3 DEF GenerateItem, Return
<1>4. CASE WriteStagedPub
  BY <1>0, <1>4 DEF WriteStagedPub, GotoLoop, Unwind, Goto
<1>5. CASE VaultCommit
  BY <1>0, <1>5 DEF VaultCommit, Goto, Unwind, Ready
<1>6. CASE PulledBack
  BY <1>0, <1>6 DEF PulledBack, Unwind, Goto
<1>7. CASE DropPrevious
  BY <1>0, <1>7 DEF DropPrevious, Retitle, Advance, Unwind, Goto
<1>8. CASE Retire
  BY <1>0, <1>8 DEF Retire, Retitle, Advance, Unwind, Goto
<1>9. CASE SetAside
  BY <1>0, <1>9 DEF SetAside, Advance, Unwind, Goto
<1>10. CASE Entitle
  BY <1>0, <1>10 DEF Entitle, Retitle, Advance, Unwind, Goto
<1>11. CASE KeepPub
  BY <1>0, <1>11 DEF KeepPub, Advance, Unwind, Goto
<1>12. CASE Succeed
  BY <1>0, <1>12 DEF Succeed, Unwind, Goto
<1>13. CASE UndoNext
  BY <1>0, <1>13 DEF UndoNext, verbVars
<1>14. CASE DiscardItem
  BY <1>0, <1>14 DEF DiscardItem, Leave, Return
<1>15. ASSUME NEW k \in Key, StartVaultRollback(k) PROVE LetInInv'
  BY <1>0, <1>15 DEF StartVaultRollback
<1>16. CASE SetStale
  BY <1>0, <1>16 DEF SetStale, Leave, Return, Goto
<1>17. CASE StepDown
  BY <1>0, <1>17 DEF StepDown, Retitle, Leave, Return, Goto
<1>18. CASE Reinstate
  BY <1>0, <1>18 DEF Reinstate, Leave, Return, Goto
<1>19. CASE ReturnPub
  BY <1>0, <1>19 DEF ReturnPub, Leave, Return, Goto
<1>20. CASE PutAway
  BY <1>0, <1>20 DEF PutAway, GotoLoop
<1>21. ASSUME NEW t \in Targets, RedeployFromVault(t) PROVE LetInInv'
  BY <1>0, <1>21 DEF RedeployFromVault
<1>22. CASE VaultCrash
  BY <1>0, <1>22 DEF VaultCrash, Leave, Return
<1> HIDE DEF LetInInv
<1> QED BY <1>1, <1>2, <1>3, <1>4, <1>5, <1>6, <1>7, <1>8, <1>9, <1>10, <1>11, <1>12, <1>13, <1>14, <1>15, <1>16, <1>17, <1>18, <1>19, <1>20, <1>21, <1>22 DEF VaultStep

LEMMA LetInElsewhere ==
    ASSUME SelfNamed = {}, VaultTypeInv, LetInInv, Elsewhere
    PROVE  LetInInv'
<1> USE DEF LetInInv, Rolling, Preparing, Replacing, Revoking
<1>1. ASSUME NEW t \in Targets, DeployStaged(t) PROVE LetInInv'
  <2>1. trusts \in [Targets -> SUBSET Key] /\ verified \subseteq Targets
    BY DEF VaultTypeInv, VaultTypeOK, KeyTargetsTypeOK
  <2>2. PICK keys \in {trusts[t], trusts[t] \cup {incoming}} :
          /\ trusts' = [trusts EXCEPT ![t] = keys]
          /\ verified' = verified \/ (verified' = verified \cup {t} /\ incoming \in keys)
    BY <1>1, DeployFacts
  <2>3. pc = "deploy" /\ pc' = "deploy" /\ incoming' = incoming
    BY <1>1 DEF DeployStaged
  <2>4. \A u \in verified' : incoming \in trusts'[u]
    BY <2>1, <2>2, <2>3
  <2> QED BY <2>3, <2>4
<1>2. CASE \E t \in Targets : PullBack(t) \/ RevokeOld(t) \/ SkipUnreachable(t)
  BY <1>2 DEF PullBack, RevokeOld, SkipUnreachable, NextHost
<1>3. CASE Refused
  BY <1>3 DEF Refused, verbVars
<1>4. CASE Abort \/ CleanStaging
  BY <1>4 DEF Abort, CleanStaging, GotoLoop
<1>5. CASE SaveRotation \/ SaveRollback \/ SaveDeploy \/ ListRevoked
  BY <1>5 DEF SaveRotation, SaveRollback, SaveDeploy, ListRevoked, Return
<1>6. CASE \/ \E hosts \in {Targets} \cup {{t} : t \in Targets} : StartDeploy(hosts)
           \/ \E t \in Targets : Install(t) \/ Withdraw(t)
           \/ \E k \in Key : StartRevoke(k)
           \/ SaveWithdrawn
  BY <1>6 DEF StartDeploy, Install, Withdraw, StartRevoke, SaveWithdrawn, NextHost, Goto
<1> HIDE DEF LetInInv
<1> QED BY <1>1, <1>2, <1>3, <1>4, <1>5, <1>6 DEF Elsewhere, SharedStep, LifecycleStep

(* No step of a rotation takes the key in use from a target, and none puts *)
(* one into use that a target does not let in.                             *)
LEMMA NeverCutsOffStep ==
    ASSUME VaultTypeInv, PubInv, LetInInv, ~AllowUnverified, verb = "rotate",
           VaultStep \/ Elsewhere,
           NEW t \in Targets, pub["canonical"] \in trusts[t]
    PROVE  pub'["canonical"] \in trusts'[t]
<1>a. ~unverifiedOk
  <2>1. AllowUnverified = FALSE
    BY RotateAssumption
  <2> QED BY <2>1 DEF VaultTypeInv
<1>0. /\ ~unverifiedOk /\ pub \in Half /\ trusts \in [Targets -> SUBSET Key]
      /\ {"canonical", "old", "staging"} \subseteq Slots /\ verb = VerbOf(pc)
  BY <1>a DEF VaultTypeInv, VaultTypeOK, KeyTargetsTypeOK, Slots
<1>1. CASE Succeed
  <2>1. /\ pc = "succeed" /\ trusts' = trusts
        /\ pub' = Moved(pub, "staging", "canonical") \/ pub' = pub
    BY <1>1 DEF Succeed, NoTargets
  <2>2. pub["staging"] = incoming /\ incoming \in trusts[t]
    BY <1>0, <2>1 DEF PubInv, LetInInv, Replacing, Revoking
  <2>3. pub'["canonical"] \in {incoming, pub["canonical"]}
    BY <1>0, <2>1, <2>2 DEF Moved, Half
  <2> QED BY <2>1, <2>2, <2>3
<1>2. CASE Stage \/ GenerateItem \/ WriteStagedPub \/ VaultCommit \/ PulledBack \/ DropPrevious \/ Retire
           \/ SetAside \/ Entitle \/ KeepPub \/ UndoNext \/ DiscardItem
  <2>1. /\ trusts' = trusts
        /\ pub' \in {pub, Without(pub, "staging"), KeptPub, [pub EXCEPT !["staging"] = incoming]}
    BY <1>2 DEF Stage, GenerateItem, WriteStagedPub, VaultCommit, PulledBack, DropPrevious, Retire, SetAside,
       Entitle, KeepPub, UndoNext, DiscardItem, NoTargets, NoFiles, fileVars
  <2>2. pub'["canonical"] = pub["canonical"]
    BY <1>0, <2>1 DEF Without, KeptPub, Linked, Half
  <2> QED BY <2>1, <2>2
<1>3. CASE VaultCrash
  BY <1>3 DEF VaultCrash, fileVars
<1>4. ASSUME NEW u \in Targets, DeployStaged(u) PROVE pub'["canonical"] \in trusts'[t]
  <2>1. pub' = pub /\ \E keys \in {trusts[u], trusts[u] \cup {incoming}} : trusts' = [trusts EXCEPT ![u] = keys]
    BY <1>4, DeployFacts DEF DeployStaged, fileVars
  <2> QED BY <1>0, <2>1
<1>5. ASSUME NEW u \in Targets, PullBack(u) PROVE pub'["canonical"] \in trusts'[t]
  <2>1. PICK keys \in Removals(u, trusts[u], incoming) : trusts' = [trusts EXCEPT ![u] = keys]
    BY <1>5 DEF PullBack
  <2>2. keys = trusts[u] \/ keys = trusts[u] \ {incoming}
    BY <2>1, RemovalFacts
  <2>3. pub' = pub /\ pub["canonical"] = outgoing /\ incoming # outgoing
    BY <1>0, <1>5 DEF PullBack, fileVars, PubInv, Unfinished, Rolling, Preparing
  <2> QED BY <1>0, <2>1, <2>2, <2>3
<1>6. ASSUME NEW u \in Targets, RevokeOld(u) PROVE pub'["canonical"] \in trusts'[t]
  <2>1. PICK keys \in Removals(u, trusts[u], outgoing) : trusts' = [trusts EXCEPT ![u] = keys]
    BY <1>6 DEF RevokeOld
  <2>2. keys = trusts[u] \/ keys = trusts[u] \ {outgoing}
    BY <2>1, RemovalFacts
  <2>3. pub' = pub /\ pub["canonical"] = incoming /\ incoming # outgoing
    BY <1>0, <1>6 DEF RevokeOld, fileVars, PubInv, Replaced, Preparing
  <2> QED BY <1>0, <2>1, <2>2, <2>3
<1>7. CASE Abort \/ CleanStaging \/ SaveRotation
  <2>1. trusts' = trusts /\ pub' \in {pub, Without(pub, "staging")}
    BY <1>7 DEF Abort, CleanStaging, SaveRotation, fileVars
  <2> QED BY <1>0, <2>1 DEF Without, Half
<1>8. ~(\/ \E allow \in {FALSE, AllowUnverified} : StartVaultRotate(allow)
        \/ \E k \in Key : StartVaultRollback(k)
        \/ SetStale \/ StepDown \/ Reinstate \/ ReturnPub \/ PutAway
        \/ \E u \in Targets : RedeployFromVault(u))
  BY <1>0 DEF StartVaultRotate, StartVaultRollback, SetStale, StepDown, Reinstate, ReturnPub, PutAway,
     RedeployFromVault, VerbOf, Unfinished, Replaced, Rolling, Preparing, Replacing, Revoking, Returning
<1>9. ~(Refused \/ SaveRollback \/ LifecycleStep \/ \E u \in Targets : SkipUnreachable(u))
  BY <1>0 DEF Refused, SaveRollback, LifecycleStep, SkipUnreachable, StartDeploy, Install, StartRevoke, Withdraw,
     SaveDeploy, SaveWithdrawn, ListRevoked, VerbOf, Unfinished, Replaced, Rolling, Preparing, Replacing,
     Revoking, Returning
<1> QED BY <1>1, <1>2, <1>3, <1>4, <1>5, <1>6, <1>7, <1>8, <1>9 DEF VaultStep, Elsewhere, SharedStep

-----------------------------------------------------------------------------
(***************************************************************************)
(* Titles, as long as no answer was lost and no undo failed                *)
(***************************************************************************)
LEMMA RetitledFacts ==
    ASSUME title \in Titling, NEW k \in Key, NEW name, title' = [title EXCEPT ![k] = name]
    PROVE  /\ \A n : Titled(n)' = IF n = name THEN Titled(n) \cup {k} ELSE Titled(n) \ {k}
           /\ \A j \in Key \ {k} : title'[j] = title[j]
           /\ title'[k] = name
  BY DEF Titling, Titled

LEMMA SameTitles ==
    ASSUME title' = title
    PROVE  \A n : Titled(n)' = Titled(n)
  BY DEF Titled

\* The halves that say which keys are in use and which come before them.
HalvesStay ==
    /\ pub'["canonical"] = pub["canonical"] /\ pub'["old"] = pub["old"]
    /\ priv'["canonical"] = priv["canonical"]

LEMMA RestingStays ==
    ASSUME Resting, HalvesStay, Titled("live")' = Titled("live"), Titled("old")' \subseteq Titled("old")
    PROVE  Resting'
  BY DEF Resting, HalvesStay

\* Where the titles and the halves are as they are between verbs, and nothing more is asked.
AtEase == {"idle", "stage", "generate", "cleanStaging", "revokeOld", "redeploy"} \cup LifecycleSteps

LEMMA AtEaseIsCalm ==
    ASSUME Resting', pc' \in AtEase
    PROVE  CalmInv'
  BY DEF CalmInv, AtEase, Revoking, Rolling, Returning, LifecycleSteps

LEMMA UndoableIsCalm ==
    ASSUME Undoable', pc' \in Revoking \cup {"unwind"}, pc' = "entitle" => undo' # <<>>
    PROVE  CalmInv'
  BY DEF CalmInv, Revoking, Rolling, Returning

\* Nothing changed yet, and the staged item is all there is to discard.
LEMMA NothingToUndo ==
    ASSUME Resting', undo' = <<>>, title'[incoming'] = "staged"
    PROVE  Undoable'
<1>1. ~In("staged", undo)'
  BY RetirementFacts
<1> QED BY <1>1 DEF Undoable

LEMMA ElsewhereCalm ==
    ASSUME VaultTypeInv, UndoInv, CalmInv, LeavesTheRest
    PROVE  CalmInv'
<1>1. title' = title /\ cur' = cur /\ HalvesStay
  BY DEF LeavesTheRest, vaultVars, Slots, HalvesStay
<1>2. pc \in AtEase \cup {"deploy", "pullBack"}
  BY DEF LeavesTheRest, Moves, Loops, AtEase, LifecycleSteps
<1>3. Resting'
  BY <1>1, <1>2, SameTitles, RestingStays DEF CalmInv, AtEase, LifecycleSteps, Revoking
<1>4. CASE pc' \in AtEase
  BY <1>3, <1>4, AtEaseIsCalm
<1>5. CASE pc' \in {"deploy", "pullBack"}
  <2>1. pc \in Rolling /\ incoming' = incoming
    BY <1>5 DEF LeavesTheRest, Moves, Loops, Rolling
  <2>2. title'[incoming'] = "staged"
    BY <1>1, <2>1 DEF CalmInv
  <2> QED BY <1>3, <1>5, <2>2 DEF CalmInv, Revoking, Returning
<1> QED BY <1>4, <1>5 DEF LeavesTheRest, Moves, Loops, AtEase, LifecycleSteps


(* A title that is not one of the two in use leaves what rests alone.      *)
LEMMA RestingRetitled ==
    ASSUME title \in Titling, Resting, HalvesStay,
           NEW k \in Key, k \notin Titled("live"), NEW name, name \notin {"live", "old"},
           title' = [title EXCEPT ![k] = name]
    PROVE  Resting'
<1>1. Titled("live")' = Titled("live") \ {k} /\ Titled("old")' = Titled("old") \ {k}
  BY RetitledFacts
<1> QED BY <1>1, RestingStays

LEMMA StagedIsCalm ==
    ASSUME Resting', title'[incoming'] = "staged",
           pc' \in Rolling \cup {"writePub", "dropPrevious"} \/ (pc' = "unwind" /\ undo' = <<>>)
    PROVE  CalmInv'
<1>1. CASE pc' = "unwind" /\ undo' = <<>>
  BY <1>1, NothingToUndo, UndoableIsCalm
<1>2. CASE pc' \in Rolling \cup {"writePub", "dropPrevious"}
  BY <1>2 DEF CalmInv, Rolling, Revoking, Returning
<1> QED BY <1>1, <1>2

(* A step that takes nothing back and gives no title.                      *)
LEMMA UndoableStays ==
    ASSUME Undoable, undo' = undo, title' = title, UNCHANGED <<cur, incoming, outgoing>>,
           priv'["old"] = priv["old"], undo # <<>> \/ HalvesStay
    PROVE  Undoable'
<1>1. \A n : Titled(n)' = Titled(n)
  BY SameTitles
<1>2. \A c : In(c, undo)' <=> In(c, undo)
  BY DEF In
<1>3. undo = <<>> /\ Resting => Resting'
  BY <1>1, RestingStays
<1> QED BY <1>1, <1>2, <1>3 DEF Undoable

LEMMA EntitledFacts ==
    ASSUME NEW changes \in Entitlements
    PROVE  changes # <<>> /\ In("staged", changes) /\ changes \in Seq(Undos)
<1>1. PICK done \in {<<>>} \cup Retirements : changes = <<"staged">> \o done
  BY DEF Entitlements
<1>2. done \in Seq(Undos)
  BY <1>1, RetirementFacts, StackFacts DEF UndoStacks
<1>3. "staged" \in Undos
  BY DEF Undos
<1> QED BY <1>1, <1>2, <1>3, PushFacts

LEMMA CalmPreparation ==
    ASSUME VaultTypeInv, UndoInv, PubInv, CalmInv, ~mishap',
           \/ \E allow \in {FALSE, AllowUnverified} : StartVaultRotate(allow)
           \/ Stage \/ GenerateItem \/ WriteStagedPub \/ VaultCommit \/ PulledBack
    PROVE  CalmInv'
<1>0. title \in Titling /\ pub \in Half /\ None \notin Key /\ {"canonical", "old", "staging"} \subseteq Slots
  BY KeyTargetsAssumption DEF VaultTypeInv, VaultTypeOK, KeyTargetsTypeOK, Titling, Slots
<1>1. Resting
  BY DEF CalmInv, StartVaultRotate, Stage, GenerateItem, WriteStagedPub, VaultCommit, PulledBack,
     Revoking, Returning
<1>2. HalvesStay
  BY <1>0 DEF HalvesStay, StartVaultRotate, Stage, GenerateItem, WriteStagedPub, VaultCommit, PulledBack,
     NoFiles, fileVars, Without, Half
<1>3. title' = title => Resting'
  BY <1>1, <1>2, SameTitles, RestingStays
<1>4. ASSUME NEW allow \in {FALSE, AllowUnverified}, StartVaultRotate(allow) PROVE CalmInv'
  BY <1>3, <1>4, AtEaseIsCalm DEF StartVaultRotate, vaultVars, AtEase
<1>5. CASE Stage
  <2>1. pc' \in {"generate", "idle"}
    BY <1>5 DEF Stage, Retitle, Goto, Leave, Return
  <2>2. title' = title \/ \E k \in Key : Found("staged", k) /\ title' = [title EXCEPT ![k] = "archived"]
    BY <1>5 DEF Stage, Retitle, vaultVars
  <2>3. ASSUME NEW k \in Key, Found("staged", k), title' = [title EXCEPT ![k] = "archived"] PROVE Resting'
    <3>1. k \notin Titled("live")
      BY <2>3 DEF Found, Titled
    <3> QED BY <1>0, <1>1, <1>2, <2>3, <3>1, RestingRetitled
  <2>4. Resting'
    BY <1>3, <2>2, <2>3
  <2> QED BY <2>1, <2>4, AtEaseIsCalm DEF AtEase
<1>6. CASE GenerateItem
  <2>1. CASE Return /\ title' = title
    BY <1>3, <2>1, AtEaseIsCalm DEF Return, AtEase
  <2>2. ASSUME NEW k \in Key \ minted, title' = [title EXCEPT ![k] = "staged"] PROVE Resting' /\ title'[k] = "staged"
    <3>1. k # pub["canonical"] /\ k # pub["old"]
      BY <1>0, <2>2 DEF PubInv
    <3>2. k \notin Titled("live")
      BY <1>1, <3>1 DEF Resting
    <3>3. title'[k] = "staged"
      BY <1>0, <2>2, RetitledFacts
    <3> QED BY <1>0, <1>1, <1>2, <2>2, <3>2, <3>3, RestingRetitled
  <2>3. ASSUME NEW k \in Key \ minted, title' = [title EXCEPT ![k] = "staged"], incoming' = k, pc' = "writePub"
        PROVE  CalmInv'
    BY <2>2, <2>3, StagedIsCalm
  <2> QED BY <1>6, <2>1, <2>3 DEF GenerateItem
<1>7. CASE WriteStagedPub \/ VaultCommit \/ PulledBack
  <2>1. title' = title /\ incoming' = incoming /\ title[incoming] = "staged"
    BY <1>7 DEF WriteStagedPub, VaultCommit, PulledBack, GotoLoop, Unwind, Goto, CalmInv, Rolling
  <2>2. pc' \in Rolling \cup {"dropPrevious"} \/ (pc' = "unwind" /\ undo' = <<>>)
    BY <1>7 DEF WriteStagedPub, VaultCommit, PulledBack, GotoLoop, Unwind, Goto, Rolling
  <2> QED BY <1>3, <2>1, <2>2, StagedIsCalm
<1> QED BY <1>4, <1>5, <1>6, <1>7

LEMMA CalmDropPrevious ==
    ASSUME VaultTypeInv, UndoInv, CalmInv, ~mishap', DropPrevious
    PROVE  CalmInv'
<1>0. /\ title \in Titling /\ pc = "dropPrevious" /\ Resting /\ title[incoming] = "staged" /\ undo = <<>>
      /\ HalvesStay /\ incoming' = incoming
  BY DEF VaultTypeInv, VaultTypeOK, Titling, CalmInv, UndoInv, DropPrevious, NoFiles, fileVars, HalvesStay,
     Retitle, Advance, Unwind, Goto, Revoking, Returning
<1>1. ASSUME NEW k \in Key, Found("old", k), title' = [title EXCEPT ![k] = "archived"], Goto("retire")
      PROVE  CalmInv'
  <2>1. /\ Titled("old")' = Titled("old") \ {k} /\ Titled("live")' = Titled("live") \ {k}
        /\ \A j \in Key \ {k} : title'[j] = title[j]
    BY <1>0, <1>1, RetitledFacts
  <2>2. title[k] = "old" /\ Titled("old")' = {} /\ Titled("live")' = Titled("live")
    BY <1>1, <2>1 DEF Found, Titled
  <2>3. title'[incoming'] = "staged"
    BY <1>0, <1>1, <2>2
  <2>4. Resting'
    BY <1>0, <2>2, RestingStays
  <2> QED BY <1>1, <2>2, <2>3, <2>4 DEF Goto, CalmInv, Revoking, Returning
<1>2. CASE title' = title /\ NotFound("old") /\ Goto("retire")
  <2>1. Resting' /\ Titled("old")' = {}
    BY <1>0, <1>2, SameTitles, RestingStays DEF NotFound
  <2> QED BY <1>0, <1>2, <2>1 DEF Goto, CalmInv, Revoking, Returning
<1>3. CASE title' = title /\ Unwind(<<>>)
  <2>1. Resting'
    BY <1>0, <1>3, SameTitles, RestingStays
  <2> QED BY <1>0, <1>3, <2>1, StagedIsCalm DEF Unwind, Goto
<1> QED BY <1>1, <1>2, <1>3 DEF DropPrevious, Retitle, Advance

LEMMA CalmRetire ==
    ASSUME VaultTypeInv, UndoInv, PubInv, CalmInv, ~mishap', Retire
    PROVE  CalmInv'
<1>0. /\ title \in Titling /\ pc = "retire" /\ Resting /\ title[incoming] = "staged" /\ undo = <<>>
      /\ Titled("old") = {} /\ pub' = pub /\ incoming' = incoming /\ outgoing' = outgoing
      /\ priv \in Half /\ {"canonical", "old", "staging"} \subseteq Slots
  BY DEF VaultTypeInv, VaultTypeOK, KeyTargetsTypeOK, Titling, CalmInv, UndoInv, Retire, Slots,
     Retitle, Advance, Unwind, Goto, Revoking, Returning
<1>1. pub["canonical"] = outgoing /\ outgoing \in Key /\ outgoing # None
  <2>1. verb = "rotate"
    BY <1>0 DEF VaultTypeInv, VerbOf, Unfinished, Replacing, Preparing, Rolling, Revoking, Replaced, Returning
  <2> QED BY <1>0, <2>1, KeyTargetsAssumption DEF PubInv, Unfinished, Replacing
<1>2. ASSUME NEW k \in Key, Found("live", k), title' = [title EXCEPT ![k] = "old"],
             Advance("setAside", <<"live">>), cur' = k
      PROVE  CalmInv'
  <2>1. /\ Titled("old")' = Titled("old") \cup {k} /\ Titled("live")' = Titled("live") \ {k}
        /\ \A j \in Key \ {k} : title'[j] = title[j]
    BY <1>0, <1>2, RetitledFacts
  <2>2. title[k] = "live" /\ Titled("old")' = {k} /\ Titled("live")' = {} /\ k = outgoing
    BY <1>0, <1>1, <1>2, <2>1 DEF Found, Titled, Resting
  <2>3. title'[incoming'] = "staged"
    BY <1>0, <2>1, <2>2, <1>2
  <2>4. undo' = <<"live">> /\ pc' = "setAside"
    BY <1>0, <1>2 DEF Advance, Goto
  <2>5. In("live", undo)' /\ ~In("staged", undo)'
    BY <2>4, RetirementFacts
  <2>6. Undoable'
    BY <1>0, <1>2, <2>2, <2>3, <2>5 DEF Undoable
  <2> QED BY <2>4, <2>6, UndoableIsCalm DEF Revoking
<1>3. CASE NotFound("live") /\ priv' = Moved(priv, "canonical", "old") /\ title' = title
           /\ Advance("entitle", <<"filePair">>)
  <2>1. Titled("live")' = {} /\ Titled("old")' = {} /\ priv["canonical"] = outgoing
    BY <1>0, <1>1, <1>3, SameTitles DEF NotFound, Resting
  <2>2. priv'["old"] = outgoing
    BY <1>0, <1>3, <2>1 DEF Moved, Half
  <2>3. undo' = <<"filePair">> /\ pc' = "entitle"
    BY <1>0, <1>3 DEF Advance, Goto
  <2>4. In("filePair", undo)' /\ ~In("staged", undo)' /\ undo' # <<>>
    BY <2>3, RetirementFacts
  <2>5. Undoable'
    BY <1>0, <1>3, <2>1, <2>2, <2>4 DEF Undoable
  <2> QED BY <2>3, <2>4, <2>5, UndoableIsCalm DEF Revoking
<1>4. ~(NotFound("live") /\ priv["canonical"] = None)
  BY <1>0, <1>1 DEF NotFound, Resting
<1>5. CASE title' = title /\ Unwind(<<>>) /\ priv' = priv
  <2>1. Resting'
    BY <1>0, <1>5, SameTitles, RestingStays DEF HalvesStay
  <2> QED BY <1>0, <1>5, <2>1, StagedIsCalm DEF Unwind, Goto
<1> QED BY <1>2, <1>3, <1>4, <1>5 DEF Retire, Retitle

LEMMA CalmSetAside ==
    ASSUME VaultTypeInv, UndoInv, CalmInv, SetAside
    PROVE  CalmInv'
<1>0. /\ pc = "setAside" /\ undo = <<"live">> /\ Undoable /\ title' = title
      /\ UNCHANGED <<cur, incoming, outgoing>>
  BY DEF CalmInv, UndoInv, SetAside, Advance, Unwind, Goto, Revoking
<1>1. <<>> \o undo = undo /\ undo # <<>>
  BY <1>0
<1>2. CASE /\ undo' = undo /\ priv' = priv
           /\ pc' \in {"entitle", "unwind"}
  <2>1. Undoable'
    BY <1>0, <1>1, <1>2, UndoableStays
  <2> QED BY <1>1, <1>2, <2>1, UndoableIsCalm DEF Revoking
<1>3. CASE undo' = <<"fileEra">> \o undo /\ pc' = "entitle"
  <2>1. "fileEra" \in Undos /\ undo \in Seq(Undos)
    BY <1>0, RetirementFacts DEF Undos
  <2>2. undo' # <<>> /\ \A c : In(c, undo)' <=> c = "fileEra" \/ c = "live"
    BY <1>0, <1>3, <2>1, PushFacts, RetirementFacts
  <2>3. /\ Titled("live") = {} /\ Titled("old") = {outgoing} /\ cur = outgoing
        /\ title[incoming] = "staged"
    BY <1>0, <1>1, RetirementFacts DEF Undoable
  <2>4. Titled("live")' = {} /\ Titled("old")' = {outgoing}
    BY <1>0, <2>3, SameTitles
  <2>5. Undoable'
    BY <1>0, <2>2, <2>3, <2>4 DEF Undoable
  <2> QED BY <1>3, <2>2, <2>5, UndoableIsCalm DEF Revoking
<1> QED BY <1>1, <1>2, <1>3 DEF SetAside, Advance, Unwind, Goto

LEMMA CalmEntitle ==
    ASSUME VaultTypeInv, UndoInv, CalmInv, ~mishap', Entitle
    PROVE  CalmInv'
<1>a. pc = "entitle" /\ undo \in Retirements /\ Undoable
  BY DEF CalmInv, UndoInv, Entitle, Revoking
<1>b. UNCHANGED <<cur, incoming, outgoing, priv>>
  BY DEF Entitle, NoFiles, fileVars, Retitle, Advance, Unwind, Goto
<1>c. incoming \in Key
  BY <1>a DEF VaultTypeInv, HasItsKeys, VerbOf, Unfinished, Preparing, Rolling, Replacing, Revoking, Replaced,
     Returning
<1>0. /\ title \in Titling /\ pc = "entitle" /\ undo \in Retirements /\ Undoable
      /\ UNCHANGED <<cur, incoming, outgoing, priv>> /\ incoming \in Key
  BY <1>a, <1>b, <1>c DEF VaultTypeInv, VaultTypeOK, Titling
<1>1. /\ undo # <<>> /\ ~In("staged", undo) /\ undo \in Seq(Undos) /\ "staged" \in Undos
  BY <1>0, DoneFacts, StackFacts DEF UndoStacks, Undos
<1>2. CASE title' = [title EXCEPT ![incoming] = "live"] /\ Advance("keepPub", <<"staged">>)
  <2>1. undo' = <<"staged">> \o undo /\ pc' = "keepPub"
    BY <1>2 DEF Advance, Goto
  <2>2. undo' # <<>> /\ \A c : In(c, undo)' <=> c = "staged" \/ In(c, undo)
    BY <1>1, <2>1, PushFacts
  <2>3. title[incoming] = "staged" /\ Titled("live") = {}
    BY <1>0, <1>1 DEF Undoable
  <2>4. /\ Titled("live")' = Titled("live") \cup {incoming} /\ Titled("old")' = Titled("old") \ {incoming}
        /\ title'[incoming] = "live"
    BY <1>0, <1>2, RetitledFacts
  <2>5. Titled("live")' = {incoming} /\ Titled("old")' = Titled("old")
    BY <2>3, <2>4 DEF Titled
  <2>6. Undoable'
    BY <1>0, <1>1, <2>2, <2>4, <2>5 DEF Undoable
  <2> QED BY <2>1, <2>6, UndoableIsCalm DEF Revoking
<1>3. CASE title' = title /\ Unwind(undo)
  <2>1. undo' = undo /\ pc' = "unwind"
    BY <1>3 DEF Unwind, Goto
  <2>2. Undoable'
    BY <1>0, <1>1, <1>3, <2>1, UndoableStays
  <2> QED BY <2>1, <2>2, UndoableIsCalm
<1> QED BY <1>2, <1>3 DEF Entitle, Retitle

LEMMA CalmKeepPub ==
    ASSUME VaultTypeInv, UndoInv, CalmInv, KeepPub
    PROVE  CalmInv'
<1>0. /\ pc = "keepPub" /\ undo \in Entitlements /\ Undoable
      /\ UNCHANGED <<cur, incoming, outgoing, priv, title>>
      /\ pc' \in {"succeed", "unwind"} /\ undo' \in {undo, <<>> \o undo}
  BY DEF CalmInv, UndoInv, KeepPub, Advance, Unwind, Goto, Revoking
<1>1. undo' = undo /\ undo # <<>>
  BY <1>0, EntitledFacts
<1>2. Undoable'
  BY <1>0, <1>1, UndoableStays
<1> QED BY <1>0, <1>2, UndoableIsCalm DEF Revoking

LEMMA CalmSucceed ==
    ASSUME VaultTypeInv, UndoInv, PubInv, CalmInv, Succeed
    PROVE  CalmInv'
<1>0. /\ pc = "succeed" /\ undo \in Entitlements /\ Undoable
      /\ UNCHANGED <<incoming, outgoing, priv, title>>
      /\ pub \in Half /\ {"canonical", "old", "staging"} \subseteq Slots
      /\ pub["staging"] = incoming /\ pub["old"] = outgoing
  BY DEF VaultTypeInv, VaultTypeOK, KeyTargetsTypeOK, CalmInv, UndoInv, PubInv, Succeed, Unwind, Goto, Revoking,
     Replacing, Slots
<1>1. undo # <<>> /\ In("staged", undo)
  BY <1>0, EntitledFacts
<1>2. CASE pub' = Moved(pub, "staging", "canonical") /\ Goto("cleanStaging")
  <2>1. pub'["canonical"] = incoming /\ pub'["old"] = outgoing
    BY <1>0, <1>2 DEF Moved, Half
  <2>2. Titled("live")' = {incoming} /\ Titled("old")' \subseteq {outgoing}
    BY <1>0, <1>1, SameTitles DEF Undoable
  <2>3. Resting'
    BY <2>1, <2>2 DEF Resting
  <2> QED BY <1>2, <2>3, AtEaseIsCalm DEF Goto, AtEase
<1>3. CASE Unwind(undo) /\ UNCHANGED <<pub, cur>>
  <2>1. undo' = undo /\ pc' = "unwind"
    BY <1>3 DEF Unwind, Goto
  <2>2. Undoable'
    BY <1>0, <1>1, <1>3, <2>1, UndoableStays
  <2> QED BY <2>1, <2>2, UndoableIsCalm
<1> QED BY <1>2, <1>3 DEF Succeed

LEMMA CalmUndo ==
    ASSUME VaultTypeInv, UndoInv, PubInv, CalmInv, ~mishap', UndoNext
    PROVE  CalmInv'
<1>0. /\ pc = "unwind" /\ pc' = "unwind" /\ undo # <<>> /\ undo' = Tail(undo) /\ Undoable
      /\ PutBack(Head(undo))
      /\ UNCHANGED <<pub, cur, incoming, outgoing>>
  BY DEF CalmInv, UndoNext, verbVars
<1>1. /\ title \in Titling /\ priv \in Half /\ {"canonical", "old", "staging"} \subseteq Slots
      /\ undo \in UndoStacks
  BY DEF VaultTypeInv, VaultTypeOK, KeyTargetsTypeOK, Titling, Slots, UndoInv
<1>a. verb = "rotate"
  BY <1>0 DEF VaultTypeInv, VerbOf, Unfinished, Preparing, Rolling, Replacing, Revoking, Replaced, Returning
<1>2. /\ pub["canonical"] = outgoing /\ incoming # outgoing /\ incoming \in Key /\ outgoing \in Key
  <2>1. minted \subseteq Key
    BY DEF VaultTypeInv, VaultTypeOK, KeyTargetsTypeOK
  <2> QED BY <1>0, <1>a, <2>1 DEF PubInv, Unfinished, Preparing
<1>b. \A c : In(c, undo) <=> c = Head(undo) \/ In(c, undo')
  BY <1>0, <1>1, StackFacts
<1>3. CASE Head(undo) = "live" /\ Tail(undo) = <<>>
  <2>0. undo' = <<>>
    BY <1>0, <1>3
  <2>1. ~In("staged", undo) /\ ~In("filePair", undo)
    BY <1>3, <1>b, <2>0, RetirementFacts
  <2>2. /\ cur = outgoing /\ Titled("live") = {} /\ Titled("old") = {outgoing} /\ title[incoming] = "staged"
    BY <1>0, <2>1 DEF Undoable
  <2>3. title' = [title EXCEPT ![outgoing] = "live"]
    BY <1>0, <1>3, <2>2 DEF PutBack
  <2>a. /\ Titled("live")' = Titled("live") \cup {outgoing} /\ Titled("old")' = Titled("old") \ {outgoing}
        /\ \A j \in Key \ {outgoing} : title'[j] = title[j]
    BY <1>1, <1>2, <2>3, RetitledFacts
  <2>4. Titled("live")' = {outgoing} /\ Titled("old")' = {} /\ title'[incoming'] = "staged"
    BY <1>0, <1>2, <2>2, <2>a
  <2>5. Resting'
    BY <1>0, <1>2, <2>4 DEF Resting
  <2> QED BY <1>0, <1>3, <2>4, <2>5, StagedIsCalm
<1>4. CASE Head(undo) = "filePair" /\ Tail(undo) = <<>>
  <2>0. undo' = <<>>
    BY <1>0, <1>4
  <2>1. ~In("staged", undo) /\ ~In("live", undo)
    BY <1>4, <1>b, <2>0, RetirementFacts
  <2>2. /\ priv["old"] = outgoing /\ Titled("live") = {} /\ Titled("old") = {} /\ title[incoming] = "staged"
    BY <1>0, <2>1 DEF Undoable
  <2>3. priv'["canonical"] = outgoing /\ title' = title
    BY <1>0, <1>1, <1>4, <2>2 DEF PutBack, Moved, Half
  <2>4. Titled("live")' = {} /\ Titled("old")' = {} /\ title'[incoming'] = "staged"
    BY <1>0, <2>2, <2>3, SameTitles
  <2>5. Resting'
    BY <1>0, <1>2, <2>3, <2>4 DEF Resting
  <2> QED BY <1>0, <1>4, <2>4, <2>5, StagedIsCalm
<1>5. CASE Head(undo) = "fileEra" /\ Tail(undo) = <<"live">>
  <2>0. undo' = <<"live">>
    BY <1>0, <1>5
  <2>1. ~In("staged", undo) /\ ~In("filePair", undo)
    BY <1>5, <1>b, <2>0, RetirementFacts
  <2>2. /\ cur = outgoing /\ Titled("live") = {} /\ Titled("old") = {outgoing} /\ title[incoming] = "staged"
    BY <1>0, <2>1 DEF Undoable
  <2>3. title' = title
    BY <1>0, <1>5 DEF PutBack
  <2>4. Titled("live")' = {} /\ Titled("old")' = {outgoing} /\ title'[incoming'] = "staged"
    BY <1>0, <2>2, <2>3, SameTitles
  <2>5. In("live", undo)' /\ ~In("staged", undo)'
    BY <2>0, RetirementFacts
  <2>6. Undoable'
    BY <1>0, <2>2, <2>4, <2>5 DEF Undoable
  <2> QED BY <1>0, <2>6, UndoableIsCalm
<1>6. CASE Head(undo) = "staged" /\ Tail(undo) \in {<<>>} \cup Retirements
  <2>1. In("staged", undo) /\ \A c \in {"live", "filePair"} : In(c, undo)' <=> In(c, undo)
    BY <1>0, <1>1, <1>6, StackFacts
  <2>2. /\ title[incoming] = "live" /\ Titled("live") = {incoming}
        /\ \/ In("live", undo) /\ cur = outgoing /\ Titled("old") = {outgoing}
           \/ In("filePair", undo) /\ priv["old"] = outgoing /\ Titled("old") = {}
    BY <1>0, <2>1 DEF Undoable
  <2>3. title' = [title EXCEPT ![incoming] = "staged"] /\ priv' = priv
    BY <1>0, <1>6 DEF PutBack
  <2>a. /\ Titled("live")' = Titled("live") \ {incoming} /\ Titled("old")' = Titled("old") \ {incoming}
        /\ title'[incoming] = "staged"
    BY <1>1, <1>2, <2>3, RetitledFacts
  <2>4. Titled("live")' = {} /\ Titled("old")' = Titled("old") /\ title'[incoming] = "staged"
    BY <1>2, <2>2, <2>a
  <2>5. In("live", undo)' \/ In("filePair", undo)'
    BY <2>1, <2>2
  <2>6. undo' \in Retirements
    BY <1>0, <1>6, <2>5, RetirementFacts
  <2>7. ~In("staged", undo)'
    BY <2>6, DoneFacts
  <2>8. Undoable'
    BY <1>0, <2>1, <2>2, <2>3, <2>4, <2>7 DEF Undoable
  <2> QED BY <1>0, <2>8, UndoableIsCalm
<1> QED BY <1>0, <1>1, <1>3, <1>4, <1>5, <1>6, StackFacts

LEMMA CalmDiscard ==
    ASSUME VaultTypeInv, CalmInv, ~mishap', DiscardItem
    PROVE  CalmInv'
<1>0. /\ title \in Titling /\ pub \in Half /\ {"canonical", "old", "staging"} \subseteq Slots
      /\ pc = "unwind" /\ undo = <<>> /\ Undoable /\ incoming \in Key
  BY DEF VaultTypeInv, VaultTypeOK, KeyTargetsTypeOK, Titling, Slots, CalmInv, DiscardItem, HasItsKeys, VerbOf,
     Unfinished, Preparing, Rolling, Replacing, Revoking, Replaced, Returning
<1>1. Resting /\ title[incoming] = "staged"
  BY <1>0, RetirementFacts DEF Undoable
<1>2. HalvesStay /\ title' = [title EXCEPT ![incoming] = "archived"] /\ pc' = "idle"
  BY <1>0 DEF DiscardItem, HalvesStay, Without, Half, Leave, Return
<1>3. incoming \notin Titled("live")
  BY <1>1 DEF Titled
<1>4. Resting'
  BY <1>0, <1>1, <1>2, <1>3, RestingRetitled
<1> QED BY <1>2, <1>4, AtEaseIsCalm DEF AtEase

LEMMA CalmStepBack ==
    ASSUME VaultTypeInv, UndoInv, CalmInv, ~mishap', SetStale \/ StepDown \/ \E k \in Key : StartVaultRollback(k)
    PROVE  CalmInv'
<1>0. /\ title \in Titling /\ priv \in Half /\ {"canonical", "old", "staging"} \subseteq Slots
      /\ Resting /\ pub' = pub /\ HalvesStay
  BY DEF VaultTypeInv, VaultTypeOK, KeyTargetsTypeOK, Titling, Slots, CalmInv, SetStale, StepDown,
     StartVaultRollback, Revoking, Returning, HalvesStay, Without, Half, fileVars, NoFiles
<1>1. title' = title => Resting'
  BY <1>0, SameTitles, RestingStays
<1>2. ASSUME title' = title, pc' \in {"setStale", "stepDown"}, prev' \in Key, prev' = pub["old"], Titled("old") = {prev'}
      PROVE  CalmInv'
  <2>1. Titled("old")' = {prev'} /\ Resting' /\ prev' = pub'["old"]
    BY <1>0, <1>1, <1>2, SameTitles
  <2> QED BY <1>2, <2>1 DEF CalmInv, Revoking, Rolling, Returning
<1>3. ASSUME NEW k \in Key, StartVaultRollback(k) PROVE CalmInv'
  <2>1. Titled("old") = {k} /\ title' = title /\ prev' = k /\ pc' \in {"setStale", "stepDown"}
    BY <1>3 DEF StartVaultRollback, Found
  <2>2. k = pub["old"]
    BY <1>0, <2>1 DEF Resting
  <2> QED BY <1>2, <2>1, <2>2
<1>4. CASE SetStale
  <2>1. title' = title /\ prev \in Key /\ prev = pub["old"] /\ Titled("old") = {prev}
    BY <1>4 DEF SetStale, CalmInv, Returning
  <2>2. (pc' = "stepDown" /\ prev' = prev) \/ pc' = "idle"
    BY <1>4 DEF SetStale, Goto, Leave, Return
  <2> QED BY <1>1, <1>2, <2>1, <2>2, AtEaseIsCalm DEF AtEase
<1>5. CASE StepDown
  <2>0. prev \in Key /\ prev = pub["old"] /\ Titled("old") = {prev} /\ cur = None
    BY <1>5 DEF StepDown, CalmInv, UndoInv, Returning, Revoking
  <2>1. CASE title' = title /\ Leave
    BY <1>1, <2>1, AtEaseIsCalm DEF Leave, Return, AtEase
  <2>2. ASSUME NEW k \in Key, Found("live", k), title' = [title EXCEPT ![k] = "rolledBack"],
               Goto("reinstate"), cur' = k, prev' = prev
        PROVE  CalmInv'
    <3>1. Titled("live") = {k} /\ title[k] = "live" /\ k = pub["canonical"]
      BY <1>0, <2>2 DEF Found, Titled, Resting
    <3>2. /\ Titled("live")' = Titled("live") \ {k} /\ Titled("old")' = Titled("old") \ {k}
          /\ title'[k] = "rolledBack"
      BY <1>0, <2>2, RetitledFacts
    <3>3. k # prev
      BY <2>0, <3>1 DEF Titled
    <3>4. SteppedDown' /\ title'[cur'] = "rolledBack"
      BY <1>0, <2>0, <2>2, <3>1, <3>2, <3>3 DEF SteppedDown
    <3> QED BY <1>0, <2>0, <2>2, <3>4 DEF CalmInv, Goto, Revoking, Rolling, Returning
  <2>3. CASE NotFound("live") /\ Goto("reinstate") /\ UNCHANGED <<title, cur, prev, undo, mishap>>
    <3>1. priv["canonical"] = pub["canonical"]
      BY <1>0, <2>3 DEF NotFound, Resting
    <3>2. Titled("live")' = {} /\ Titled("old")' = {prev'}
      BY <2>0, <2>3, SameTitles DEF NotFound
    <3>3. SteppedDown' /\ cur' = None
      BY <1>0, <2>0, <2>3, <3>1, <3>2 DEF SteppedDown, HalvesStay
    <3> QED BY <1>0, <2>0, <2>3, <3>3 DEF CalmInv, Goto, Revoking, Rolling, Returning
  <2> QED BY <1>5, <2>1, <2>2, <2>3 DEF StepDown, Retitle
<1> QED BY <1>3, <1>4, <1>5

LEMMA CalmReinstate ==
    ASSUME VaultTypeInv, CalmInv, ~mishap', Reinstate
    PROVE  CalmInv'
<1>0. /\ title \in Titling /\ pub' = pub /\ priv' = priv
      /\ SteppedDown /\ prev \in Key /\ prev = pub["old"] /\ None \notin Key
      /\ cur # None => title[cur] = "rolledBack"
      /\ cur \in Key \cup {None}
  BY KeyTargetsAssumption DEF VaultTypeInv, VaultTypeOK, Titling, CalmInv, Reinstate, Returning, NoFiles, fileVars
<1>1. CASE title' = [title EXCEPT ![prev] = "live"] /\ Goto("returnPub") /\ UNCHANGED <<cur, prev, undo>>
  <2>1. /\ Titled("live")' = Titled("live") \cup {prev} /\ Titled("old")' = Titled("old") \ {prev}
        /\ \A j \in Key \ {prev} : title'[j] = title[j]
    BY <1>0, <1>1, RetitledFacts
  <2>2. Titled("live")' = {prev} /\ Titled("old")' = {} /\ title[prev] = "old"
    BY <1>0, <2>1 DEF SteppedDown, Titled
  <2>3. cur' # None => title'[cur'] = "rolledBack"
    BY <1>0, <1>1, <2>1, <2>2
  <2> QED BY <1>0, <1>1, <2>2, <2>3 DEF CalmInv, Goto, Revoking, Rolling, Returning
<1>2. CASE title' = SteppedBack /\ Leave
  <2>1. \A k \in Key : title'[k] = IF k = cur THEN "live" ELSE title[k]
    BY <1>2 DEF SteppedBack
  <2>2. Titled("old")' \subseteq Titled("old")
    BY <2>1 DEF Titled
  <2>3. CASE cur = None
    <3>1. Titled("live")' = Titled("live")
      BY <1>0, <2>1, <2>3 DEF Titled
    <3> QED BY <1>0, <1>2, <2>2, <2>3, <3>1, AtEaseIsCalm DEF SteppedDown, Resting, AtEase, Leave, Return
  <2>4. CASE cur \in Key
    <3>1. Titled("live")' = Titled("live") \cup {cur}
      BY <2>1, <2>4 DEF Titled
    <3>2. cur = pub["canonical"] /\ Titled("live")' = {cur} /\ Titled("old")' \subseteq {pub["old"]}
      BY <1>0, <2>2, <2>4, <3>1 DEF SteppedDown
    <3> QED BY <1>0, <1>2, <3>2, AtEaseIsCalm DEF Resting, AtEase, Leave, Return
  <2> QED BY <1>0, <2>3, <2>4
<1> QED BY <1>1, <1>2 DEF Reinstate

LEMMA CalmReturn ==
    ASSUME VaultTypeInv, CalmInv, ~mishap',
           ReturnPub \/ PutAway \/ \E t \in Targets : RedeployFromVault(t)
    PROVE  CalmInv'
<1>0. /\ title \in Titling /\ pub \in Half /\ {"canonical", "old", "staging"} \subseteq Slots
      /\ cur \in Key \cup {None} /\ priv' = priv
  BY DEF VaultTypeInv, VaultTypeOK, KeyTargetsTypeOK, Titling, Slots, ReturnPub, PutAway, RedeployFromVault,
     NoFiles, fileVars
<1>1. CASE ReturnPub
  <2>1. /\ Titled("live") = {prev} /\ Titled("old") = {} /\ prev = pub["old"] /\ title' = title
        /\ cur # None => title[cur] = "rolledBack"
        /\ pub' = Moved(pub, "old", "canonical") /\ Goto("putAway") /\ UNCHANGED <<cur, prev, undo>>
    BY <1>1 DEF ReturnPub, CalmInv, Returning
  <2>2. pub'["canonical"] = prev
    BY <1>0, <2>1 DEF Moved, Half
  <2>3. Titled("live")' = {prev} /\ Titled("old")' = {}
    BY <2>1, SameTitles
  <2>4. Resting'
    BY <2>2, <2>3 DEF Resting
  <2> QED BY <2>1, <2>4 DEF CalmInv, Goto, Revoking, Rolling, Returning
<1>2. CASE PutAway
  <2>1. /\ Resting /\ HalvesStay /\ pc' = "redeploy"
        /\ cur # None => title[cur] = "rolledBack"
        /\ title' = title \/ (cur # None /\ title' = [title EXCEPT ![cur] = "archived"])
    BY <1>2 DEF PutAway, CalmInv, Revoking, Returning, HalvesStay, NoFiles, fileVars, GotoLoop
  <2>2. CASE title' = title
    BY <2>1, <2>2, SameTitles, RestingStays, AtEaseIsCalm DEF AtEase
  <2>3. CASE cur # None /\ title' = [title EXCEPT ![cur] = "archived"]
    <3>1. cur \in Key /\ cur \notin Titled("live")
      BY <1>0, <2>1, <2>3 DEF Titled
    <3>2. Resting'
      BY <1>0, <2>1, <2>3, <3>1, RestingRetitled
    <3> QED BY <2>1, <3>2, AtEaseIsCalm DEF AtEase
  <2> QED BY <2>1, <2>2, <2>3
<1>3. CASE \E t \in Targets : RedeployFromVault(t)
  <2>1. Resting /\ HalvesStay /\ title' = title /\ pc' = "redeploy"
    BY <1>3 DEF RedeployFromVault, CalmInv, Revoking, Returning, HalvesStay, fileVars, vaultVars
  <2> QED BY <2>1, SameTitles, RestingStays, AtEaseIsCalm DEF AtEase
<1> QED BY <1>1, <1>2, <1>3

(* While no answer is lost and no undo fails, the titles say which key is  *)
(* in use and which came before it.                                        *)
LEMMA CalmStep ==
    ASSUME VaultTypeInv, UndoInv, PubInv, CalmInv, VaultStep, ~mishap'
    PROVE  CalmInv'
<1>1. ~VaultCrash
  BY DEF VaultCrash
<1> QED BY <1>1, CalmPreparation, CalmDropPrevious, CalmRetire, CalmSetAside, CalmEntitle, CalmKeepPub, CalmSucceed,
        CalmUndo, CalmDiscard, CalmStepBack, CalmReinstate, CalmReturn DEF VaultStep

-----------------------------------------------------------------------------
(***************************************************************************)
(* Where it starts, and every step                                         *)
(***************************************************************************)
\* A step of a verb of the vault, or one that does not know of it.
AnyStep == VaultStep \/ Elsewhere

LEMMA KeyFileElsewhere ==
    ASSUME KeyFileInv, LeavesTheRest
    PROVE  KeyFileInv'
<1>1. FilesStay /\ undo' = undo /\ title' = title /\ minted' = minted /\ (pc' = "setStale" => pc = "setStale")
  BY DEF LeavesTheRest, FilesStay, vaultVars, Slots, Moves, Loops
<1> QED BY <1>1, FilesKept DEF KeyFileInv, In

LEMMA TwoAtMost ==
    ASSUME NEW a, NEW b
    PROVE  Cardinality({a, b}) # 3 /\ Cardinality({a}) = 1
<1>1. IsFiniteSet({a}) /\ Cardinality({a}) = 1
  BY FS_Singleton
<1>2. Cardinality({a} \cup {b}) \in {1, 2}
  BY <1>1, FS_AddElement
<1>3. {a} \cup {b} = {a, b}
  OBVIOUS
<1> QED BY <1>1, <1>2, <1>3

(* What every home has in common.                                          *)
LEMMA HomeFacts ==
    ASSUME VaultInit
    PROVE  /\ pc = "idle" /\ verb = "none" /\ undo = <<>> /\ cur = None /\ prev = None /\ verified = {}
           /\ KeyTargetsTypeOK /\ title \in Titling
           /\ \A s \in Slots : pub[s] \in minted \cup {None}
           /\ KeyFileIsKept
           /\ priv["canonical"] = None \/ priv["old"] = None
           /\ Resting
<1> USE KeyTargetsAssumption
<1> DEFINE AtHome ==
             /\ KeyTargetsTypeOK /\ title \in Titling
             /\ \A s \in Slots : pub[s] \in minted \cup {None}
             /\ KeyFileIsKept
             /\ priv["canonical"] = None \/ priv["old"] = None
             /\ Resting
<1>0. fileEra = {}
  BY DEF VaultInit
<1>1. ASSUME NEW k \in Key, Home({k}, [canonical |-> k], [canonical |-> k], [j \in {} |-> "none"])
      PROVE  AtHome
  BY <1>0, <1>1 DEF Home, KeyTargetsTypeOK, Half, Slots, Titling, KeyFileIsKept, Resting, Titled, NotDeployed,
     DeploymentStatus, Titles
<1>2. ASSUME NEW k \in Key, Home({k}, [canonical |-> None], [canonical |-> k], [j \in {k} |-> "live"])
      PROVE  AtHome
  BY <1>0, <1>2 DEF Home, KeyTargetsTypeOK, Half, Slots, Titling, KeyFileIsKept, Resting, Titled, NotDeployed,
     DeploymentStatus, Titles
<1>3. ASSUME NEW k \in Key, NEW p \in Key, NEW f \in Key, Cardinality({k, p, f}) = 3,
             Home({k, p, f}, [old |-> f], [canonical |-> k, old |-> p],
                  [j \in {k, p} |-> IF j = k THEN "live" ELSE "old"])
      PROVE  AtHome
  <2>1. k # p /\ k # f /\ p # f
    <3>1. k = p => {k, p, f} = {k, f}
      OBVIOUS
    <3>2. k = f \/ p = f => {k, p, f} = {k, p}
      OBVIOUS
    <3> QED BY <1>3, <3>1, <3>2, TwoAtMost
  <2> QED BY <1>0, <1>3, <2>1 DEF Home, KeyTargetsTypeOK, Half, Slots, Titling, KeyFileIsKept, Resting, Titled, NotDeployed,
     DeploymentStatus, Titles
<1> QED BY <1>1, <1>2, <1>3 DEF VaultInit

LEMMA VaultStart ==
    ASSUME VaultInit
    PROVE  VaultInv /\ LetInInv
<1> USE HomeFacts
<1>0. /\ todo = {} /\ deployed = {} /\ verified = {} /\ removedFrom = {} /\ unverifiedOk = FALSE
      /\ incoming = None /\ outgoing = None /\ fileEra = {}
  BY DEF VaultInit
<1>1. VaultTypeInv
  <2>1. undo \in Seq(Undos)
    BY RetirementFacts
  <2>2. VaultTypeOK
    BY <1>0, <2>1 DEF VaultTypeOK, Titling
  <2>3. verb = VerbOf(pc) /\ HasItsKeys
    BY DEF VerbOf, HasItsKeys, Unfinished, Preparing, Rolling, Replacing, Revoking, Replaced, Returning
  <2> QED BY <1>0, <2>2, <2>3 DEF VaultTypeInv
<1>2. UndoInv
  BY DEF UndoInv, UndoStacks, Revoking, Returning
<1>3. KeyFileInv
  BY RetirementFacts DEF KeyFileInv
<1>4. PubInv
  BY DEF PubInv, Unfinished, Preparing, Rolling, Replacing, Revoking, Replaced
<1>5. LetInInv
  BY DEF LetInInv, Replacing, Revoking
<1>6. CalmInv
  BY DEF CalmInv, Revoking, Returning, Rolling
<1> QED BY <1>1, <1>2, <1>3, <1>4, <1>5, <1>6 DEF VaultInv

LEMMA VaultInvStep ==
    ASSUME VaultInv, AnyStep
    PROVE  VaultInv'
<1>1. CASE VaultStep
  <2>1. ~mishap' => ~mishap
    BY <1>1 DEF VaultStep, StartVaultRotate, Stage, GenerateItem, WriteStagedPub, VaultCommit, PulledBack,
       DropPrevious, Retire, SetAside, Entitle, KeepPub, Succeed, UndoNext, DiscardItem, StartVaultRollback,
       SetStale, StepDown, Reinstate, ReturnPub, PutAway, RedeployFromVault, VaultCrash, Retitle, vaultVars
  <2>2. VaultTypeInv' /\ UndoInv' /\ KeyFileInv' /\ PubInv'
    BY <1>1, VaultTypeStep, KeyFileStep, PubStep DEF VaultInv
  <2> QED BY <1>1, <2>1, <2>2, CalmStep DEF VaultInv, Calm
<1>2. CASE Elsewhere
  <2>1. VaultTypeInv' /\ UndoInv' /\ LeavesTheRest
    BY <1>2, ElsewhereFacts DEF VaultInv
  <2>2. KeyFileInv' /\ PubInv'
    BY <2>1, KeyFileElsewhere, PubElsewhere DEF VaultInv
  <2>3. mishap' = mishap
    BY <1>2 DEF Elsewhere, vaultVars
  <2> QED BY <2>1, <2>2, <2>3, ElsewhereCalm DEF VaultInv, Calm
<1> QED BY <1>1, <1>2 DEF AnyStep

LEMMA VaultStutter ==
    ASSUME UNCHANGED allVars, VaultInv
    PROVE  VaultInv' /\ (LetInInv => LetInInv')
<1>0. /\ UNCHANGED <<priv, pub, minted, trusts, path, deployments>>
      /\ UNCHANGED <<pc, verb, incoming, outgoing, todo, deployed, verified, unverifiedOk, removedFrom>>
      /\ UNCHANGED <<title, fileEra, cur, prev, undo, mishap>>
  BY DEF allVars, lifecycleVars, rollbackVars, rotateVars, fileVars, inventoryVars, verbVars, vaultVars
<1>1. VaultTypeInv'
  BY <1>0 DEF VaultInv, VaultTypeInv, VaultTypeOK, KeyTargetsTypeOK, HasItsKeys
<1>2. UndoInv'
  BY <1>0 DEF VaultInv, UndoInv
<1>3. KeyFileInv'
  BY <1>0, FilesKept DEF VaultInv, KeyFileInv, FilesStay, In
<1>4. PubInv' /\ (LetInInv => LetInInv')
  BY <1>0 DEF VaultInv, PubInv, LetInInv
<1>5. CalmInv => CalmInv'
  BY <1>0 DEF CalmInv, Resting, Undoable, SteppedDown, Titled, In
<1> QED BY <1>0, <1>1, <1>2, <1>3, <1>4, <1>5 DEF VaultInv, Calm

-----------------------------------------------------------------------------
(***************************************************************************)
(* Theorems                                                                *)
(***************************************************************************)
LEMMA VaultHolds == VaultLifecycleSpec => []VaultInv
<1>1. VaultInit => VaultInv
  BY VaultStart
<1>2. VaultInv /\ [VaultNext \/ (LifecycleStep /\ UNCHANGED vaultVars)]_allVars => VaultInv'
  BY VaultInvStep, VaultStutter DEF VaultNext, AnyStep, Elsewhere
<1> QED BY <1>1, <1>2, PTL DEF VaultLifecycleSpec

LEMMA LetInHolds ==
    ASSUME SelfNamed = {}
    PROVE  VaultLifecycleSpec => []LetInInv
<1>1. VaultInit => LetInInv
  BY VaultStart
<1>2. VaultInv /\ LetInInv /\ [VaultNext \/ (LifecycleStep /\ UNCHANGED vaultVars)]_allVars => LetInInv'
  BY LetInStep, LetInElsewhere, VaultStutter DEF VaultInv, VaultNext, Elsewhere
<1> QED BY <1>1, <1>2, VaultHolds, PTL DEF VaultLifecycleSpec

(* Type correctness of all four verbs on keys in 1Password: what one verb  *)
(* had to undo, and the items it held, are gone before the next one.       *)
THEOREM VaultTypeCorrect == VaultLifecycleSpec => []VaultTypeOK
<1>1. VaultInv => VaultTypeOK
  BY DEF VaultInv, VaultTypeInv
<1> QED BY <1>1, VaultHolds, PTL

(* "Nothing is deleted: key material is only ever moved": whatever dies,   *)
(* fails or is not answered, the private half of a key that is not in the  *)
(* vault is one of the files on disk.                                      *)
THEOREM KeyFileIsNeverLost == VaultLifecycleSpec => []KeyFileIsKept
<1>1. VaultInv => KeyFileIsKept
  BY DEF VaultInv, KeyFileInv
<1> QED BY <1>1, VaultHolds, PTL

(* Between verbs, failed or not, the key that ssh offers is the live item  *)
(* of the vault, or still the file of a profile on its way in; the one     *)
(* before it is the only predecessor, with its public half beside it; and  *)
(* no key file was lost. rotateOnePassword and rollbackOnePassword, every  *)
(* undo of theirs, deploy and key revoke.                                  *)
THEOREM ActiveKeyAndPredecessorAreThere == VaultLifecycleSpec => []BothKeysAreThere
<1>1. ASSUME VaultInv PROVE BothKeysAreThere
  <2>1. ASSUME pc = "idle", Calm PROVE Resting
    BY <1>1, <2>1 DEF VaultInv, CalmInv, Revoking, Returning
  <2>2. ActiveKeyIsLive
    BY <2>1 DEF ActiveKeyIsLive, Resting
  <2>3. ASSUME pc = "idle", Calm PROVE Cardinality(Titled("old")) <= 1 /\ \A k \in Titled("old") : pub["old"] = k
    <3>1. Titled("old") = {} \/ Titled("old") = {pub["old"]}
      BY <2>1, <2>3 DEF Resting
    <3>2. Cardinality({}) = 0 /\ Cardinality({pub["old"]}) = 1
      BY FS_EmptySet, FS_Singleton
    <3>3. Cardinality(Titled("old")) \in {0, 1}
      BY <3>1, <3>2
    <3> QED BY <3>1, <3>3
  <2>4. KeyFileIsKept
    BY <1>1 DEF VaultInv, KeyFileInv
  <2> QED BY <2>2, <2>3, <2>4 DEF BothKeysAreThere, PredecessorIsKept, PredecessorMatches
<1> QED BY <1>1, VaultHolds, PTL

(* Zero downtime for keys in the vault: no step of a rotation takes the    *)
(* active key from a target that let it in, and none makes a key active    *)
(* that a target does not let in, whatever dies, fails or is not answered. *)
(* No target's alias may be the name ssh connects to: there, a login       *)
(* proves no key in particular (verify.go).                                *)
THEOREM RotationCutsNobodyOff ==
    ASSUME SelfNamed = {}
    PROVE  VaultLifecycleSpec => RotationNeverCutsOff
<1>1. ASSUME VaultInv, LetInInv, [VaultNext \/ (LifecycleStep /\ UNCHANGED vaultVars)]_allVars
      PROVE  [verb = "rotate" /\ ~AllowUnverified =>
                \A t \in Targets : pub["canonical"] \in trusts[t] => pub'["canonical"] \in trusts'[t]]_allVars
  <2>1. CASE UNCHANGED allVars
    BY <2>1
  <2>2. CASE VaultStep \/ Elsewhere
    BY <1>1, <2>2, NeverCutsOffStep DEF VaultInv
  <2> QED BY <1>1, <2>1, <2>2 DEF VaultNext, Elsewhere
<1> QED BY <1>1, VaultHolds, LetInHolds, PTL DEF VaultLifecycleSpec, RotationNeverCutsOff
==============================================================================
