------------------------------ MODULE Reconcile ------------------------------
(***************************************************************************)
(* `authama ssh reconcile` and `keygen`: the reconciler's plan, the        *)
(* keystore's Generate with the archive of what it replaces, the item a    *)
(* profile keeps in 1Password instead, and the records of all of them.     *)
(*                                                                         *)
(*   plan -> next -> archivePriv -> archivePub -> promotePriv -> promotePub*)
(*                -> find -> writePub (1Password)                          *)
(*                -> record -> next ... -> save                            *)
(*                                                                         *)
(* The run holds the advisory lock, so there is one run at a time; a run   *)
(* that fails ends in save, and one that dies ends where it is.            *)
(***************************************************************************)
EXTENDS Naturals, FiniteSets

CONSTANTS
    Ref,        \* keys the manifest names, each "profile/key"
    Name,       \* [Ref -> the part after the slash]; two profiles may share one
    Vaulted,    \* refs of profiles whose key_store is 1password
    Key,        \* pairs that exist or can be generated
    First,      \* [Ref -> the pair that may be there from the start]
    None,
    Faults,     \* BOOLEAN: may a file operation, ssh-keygen or op fail
    Crashes     \* BOOLEAN: may the process die in the middle of a run

ASSUME ReconcileAssumption ==
    /\ Vaulted \subseteq Ref
    /\ First \in [Ref -> Key]
    /\ \A q, r \in Ref : First[q] = First[r] => q = r
    /\ None \notin Key \cup Ref
    /\ Faults \in BOOLEAN /\ Crashes \in BOOLEAN

Places == {"canonical", "old", "elsewhere"}
Record == (Ref \X {"canonical", "old"}) \cup {<<>>}
NoRecord == <<>>

VARIABLES
    priv,       \* private halves on disk, by ref and place
    pub,        \* public halves on disk
    items,      \* 1Password items titled with the key's name, in its vault
    used,       \* pairs generated so far
    saved,      \* inventory.json: where each pair's record says it is
    inv,        \* the inventory in memory
    run,        \* what the run that holds the lock is doing
    cut         \* refs whose mint began over a record, until the records catch up

diskVars == <<priv, pub>>
reconcileVars == <<priv, pub, items, used, saved, inv, run, cut>>

Idle(result) ==
    [step |-> "idle", result |-> result, todo |-> {}, confirmed |-> {},
     ref |-> None, fresh |-> None, changed |-> FALSE]

\* The key is where the manifest says; of one in 1Password, the .pub is.
Present(r) == IF r \in Vaulted THEN pub[r]["canonical"] # None ELSE priv[r]["canonical"] # None

\* It is in the layout of another category, or of none.
Misplaced(r) ==
    /\ ~Present(r)
    /\ IF r \in Vaulted THEN pub[r]["elsewhere"] # None ELSE priv[r]["elsewhere"] # None

Fingerprint(r) == IF pub[r]["canonical"] # None THEN pub[r]["canonical"] ELSE priv[r]["canonical"]

\* A record covers a key by its path, whatever fingerprint it is filed under.
Covered(records, r) == \E k \in Key : records[k] = <<r, "canonical">>

At(r, place) == [p \in Places |-> IF p = place THEN First[r] ELSE None]

(***************************************************************************)
(* A home somebody has used: each key is in place, in another place or     *)
(* gone, its .pub is with it or lost, and its record is there or not,      *)
(* whatever became of the key. A vault holds the item of such a key or     *)
(* does not.                                                               *)
(***************************************************************************)
Init ==
    /\ \E place \in [Ref -> {"canonical", "elsewhere", "nowhere"}], unpaired, known \in SUBSET Ref :
          /\ priv = [r \in Ref |-> At(r, IF r \in Vaulted THEN "nowhere" ELSE place[r])]
          /\ pub = [r \in Ref |-> At(r, IF r \in unpaired THEN "nowhere" ELSE place[r])]
          /\ items = [r \in Ref |-> IF r \in Vaulted /\ place[r] # "nowhere" THEN {First[r]} ELSE {}]
          /\ saved = [k \in Key |-> IF \E r \in known : First[r] = k
                                    THEN <<CHOOSE r \in known : First[r] = k, "canonical">>
                                    ELSE NoRecord]
    /\ used = {First[r] : r \in Ref}
    /\ inv = saved
    /\ run = Idle("none")
    /\ cut = {}

-----------------------------------------------------------------------------
(* The plan                                                                *)

Unrecorded(records, scope) == {r \in scope : Present(r) /\ ~Covered(records, r)}

\* Mutant of RecordedExisting: only what this very run minted is recorded.
RecordedExisting_Not(records, scope) == records

\* recordExisting: a pair recorded under another path is not moved.
RecordedExisting(records, scope) ==
    [k \in Key |->
        IF records[k] = NoRecord /\ \E r \in Unrecorded(records, scope) : Fingerprint(r) = k
        THEN <<CHOOSE r \in Unrecorded(records, scope) : Fingerprint(r) = k, "canonical">>
        ELSE records[k]]

Begin(result, todo, confirmed, records) ==
    /\ inv' = records
    /\ run' = [Idle(result) EXCEPT !.step = "next", !.todo = todo, !.confirmed = confirmed,
                                   !.changed = records # saved]
    /\ UNCHANGED <<diskVars, items, used, saved, cut>>

\* Reconcile. One key out of place refuses the whole plan.
StartReconcile ==
    /\ run.step = "idle"
    /\ \A r \in Ref : ~Misplaced(r)
    /\ Begin("reconciled", {r \in Ref : ~Present(r)}, {}, RecordedExisting(saved, Ref))

\* Mutant of Confirmed: the answers are kept by name, not by ref.
Confirmed_ByName(answers) == {r \in Ref : Present(r) /\ \E q \in answers : Name[q] = Name[r]}

\* Keys whose owner agreed to replace them.
Confirmed(answers) == answers

\* keygen of everything, or of one profile, host or key.
StartKeygen(scope) ==
    /\ run.step = "idle"
    /\ \A r \in scope : ~Misplaced(r)
    /\ \E answers \in SUBSET {r \in scope : Present(r)} :
          Begin("minted", {r \in scope : ~Present(r)} \cup Confirmed(answers),
                answers, saved)

\* MintRef: one key that was just declared, wherever else it may be.
StartMintRef(r) ==
    /\ run.step = "idle"
    /\ ~Present(r)
    /\ Begin("minted", {r}, {}, saved)

\* RecordExisting of one adopted key.
StartRecord(r) ==
    /\ run.step = "idle"
    /\ Present(r)
    /\ Begin("recorded", {}, {}, RecordedExisting(saved, {r}))

-----------------------------------------------------------------------------
(* Generate                                                                *)

Goto(step) == run' = [run EXCEPT !.step = step]

\* The run breaks off: what it minted before this key is still saved.
Fail == run' = [run EXCEPT !.step = "save", !.todo = {}, !.result = "failed"]

\* The next key; keys to replace come after those that are missing.
NextOnDisk(r) ==
    /\ run.step = "next"
    /\ r \in run.todo
    /\ r \in run.confirmed => run.todo \subseteq run.confirmed
    /\ r \notin Vaulted
    /\ \/ \E k \in Key \ used :
            /\ used' = used \cup {k}
            /\ run' = [run EXCEPT !.step = IF Present(r) THEN "archivePriv" ELSE "promotePriv",
                                  !.ref = r, !.fresh = k]
            /\ cut' = IF Covered(saved, r) THEN cut \cup {r} ELSE cut
       \/ Faults /\ Fail /\ UNCHANGED <<used, cut>>
    /\ UNCHANGED <<diskVars, items, saved, inv>>

Set(half, r, place, k) == [half EXCEPT ![r][place] = k]

\* Mutant of Archived: the half that is replaced is unlinked.
Archived_Unlinked(half, r) == Set(half, r, "canonical", None)

\* archivePredecessor, one half: it takes the place of the one in old/.
Archived(half, r) == [half EXCEPT ![r]["old"] = half[r]["canonical"], ![r]["canonical"] = None]

ArchivePriv ==
    /\ run.step = "archivePriv"
    /\ \/ priv' = Archived(priv, run.ref) /\ Goto("archivePub")
       \/ Faults /\ priv' = Set(priv, run.ref, "old", None) /\ Fail
    /\ UNCHANGED <<pub, items, used, saved, inv, cut>>

ArchivePub ==
    /\ run.step = "archivePub"
    /\ \/ pub[run.ref]["canonical"] # None /\ pub' = Archived(pub, run.ref) /\ Goto("promotePriv")
       \/ pub[run.ref]["canonical"] = None /\ Goto("promotePriv") /\ UNCHANGED pub
       \/ Faults /\ pub' = Set(pub, run.ref, "old", None) /\ Fail
    /\ UNCHANGED <<priv, items, used, saved, inv, cut>>

PromotePriv ==
    /\ run.step = "promotePriv"
    /\ \/ priv' = Set(priv, run.ref, "canonical", run.fresh) /\ Goto("promotePub")
       \/ Faults /\ Fail /\ UNCHANGED priv
    /\ UNCHANGED <<pub, items, used, saved, inv, cut>>

PromotePub ==
    /\ run.step = "promotePub"
    /\ \/ pub' = Set(pub, run.ref, "canonical", run.fresh) /\ Goto("record")
       \/ Faults /\ Fail /\ UNCHANGED pub
    /\ UNCHANGED <<priv, items, used, saved, inv, cut>>

-----------------------------------------------------------------------------
(* 1Password: mintInOnePassword                                            *)

\* The items opstore.Get would return.
Reusable(r) == items[r]

\* Find the item, or have one generated. op may do so and yet not answer.
NextVaulted(r) ==
    /\ run.step = "next"
    /\ r \in run.todo
    /\ r \in run.confirmed => run.todo \subseteq run.confirmed
    /\ r \in Vaulted
    /\ \/ /\ r \notin run.confirmed
          /\ \E k \in Reusable(r) : run' = [run EXCEPT !.step = "writePub", !.ref = r, !.fresh = k]
          /\ cut' = IF Covered(saved, r) THEN cut \cup {r} ELSE cut
          /\ UNCHANGED <<items, used>>
       \/ /\ r \notin run.confirmed
          /\ Reusable(r) = {}
          /\ \E k \in Key \ used :
                /\ used' = used \cup {k}
                /\ items' = [items EXCEPT ![r] = @ \cup {k}]
                /\ \/ run' = [run EXCEPT !.step = "writePub", !.ref = r, !.fresh = k]
                   \/ Faults /\ Fail
          /\ cut' = IF Covered(saved, r) THEN cut \cup {r} ELSE cut
       \/ /\ Faults \/ r \in run.confirmed   \* a key in a vault is never replaced here
          /\ Fail
          /\ UNCHANGED <<items, used, cut>>
    /\ UNCHANGED <<diskVars, saved, inv>>

WritePub ==
    /\ run.step = "writePub"
    /\ \/ pub' = Set(pub, run.ref, "canonical", run.fresh) /\ Goto("record")
       \/ Faults /\ Fail /\ UNCHANGED pub
    /\ UNCHANGED <<priv, items, used, saved, inv, cut>>

-----------------------------------------------------------------------------
(* Records: archiveRecord, the prune of stale entries, and the new record  *)

Replaced == run.ref \in run.confirmed
Outgoing == IF Replaced THEN pub[run.ref]["old"] ELSE None

\* The record of the key in old/ goes there; the one it replaces there goes.
\* Without a .pub in old/ it is the record that claims the canonical path.
ArchivedRecords(r) ==
    [k \in Key |->
        IF ~Replaced THEN inv[k]
        ELSE IF Outgoing # None /\ k = Outgoing /\ inv[k] # NoRecord THEN <<r, "old">>
        ELSE IF inv[k] = <<r, "old">> THEN NoRecord
        ELSE IF Outgoing = None /\ inv[k] = <<r, "canonical">> THEN <<r, "old">>
        ELSE inv[k]]

\* Whatever else claims the path is stale.
Pruned(records, r) ==
    [k \in Key |-> IF records[k] = <<r, "canonical">> THEN NoRecord ELSE records[k]]

RecordMinted ==
    LET r == run.ref
    IN  /\ run.step = "record"
        /\ \/ /\ inv' = [Pruned(ArchivedRecords(r), r) EXCEPT ![run.fresh] = <<r, "canonical">>]
              /\ run' = [run EXCEPT !.step = "next", !.todo = @ \ {r}, !.changed = TRUE]
           \/ Faults /\ Fail /\ UNCHANGED inv
        /\ UNCHANGED <<diskVars, items, used, saved, cut>>

Minted == run.step = "next" /\ run.todo = {}

MustSave == run.changed

\* saveRecords: whether or not the run failed, what it changed is saved.
Save ==
    /\ run.step = "save" \/ Minted
    /\ \/ /\ saved' = IF MustSave THEN inv ELSE saved
          /\ cut' = {r \in cut : Present(r) => saved'[Fingerprint(r)] # <<r, "canonical">>}
          /\ run' = Idle(run.result)
       \/ Faults /\ MustSave /\ run' = Idle("failed") /\ UNCHANGED <<saved, cut>>
    /\ inv' = saved'
    /\ UNCHANGED <<diskVars, items, used>>

Crash ==
    /\ Crashes
    /\ run.step # "idle"
    /\ run' = Idle("died")
    /\ inv' = saved
    /\ UNCHANGED <<diskVars, items, used, saved, cut>>
-----------------------------------------------------------------------------
Start ==
    \/ StartReconcile
    \/ \E scope \in {Ref} \cup {{r} : r \in Ref} : StartKeygen(scope)
    \/ \E r \in Ref : StartMintRef(r) \/ StartRecord(r)

Step ==
    \/ \E r \in Ref : NextOnDisk(r) \/ NextVaulted(r)
    \/ ArchivePriv \/ ArchivePub \/ PromotePriv \/ PromotePub \/ WritePub
    \/ RecordMinted \/ Save

Next == Start \/ Step \/ Crash

ReconcileSpec == Init /\ [][Next]_reconcileVars

-----------------------------------------------------------------------------
\* Every variable has the shape the code gives it, and a 1Password title is
\* never given to two items: a title that op cannot tell apart is a key that
\* can neither be read nor rotated any more.
ReconcileTypeOK ==
    /\ {priv, pub} \subseteq [Ref -> [Places -> Key \cup {None}]]
    /\ items \in [Ref -> SUBSET Key]
    /\ used \subseteq Key
    /\ {saved, inv} \subseteq [Key -> Record]
    /\ {run.ref} \cup run.todo \cup run.confirmed \cup cut \subseteq Ref \cup {None}
    /\ run.fresh \in Key \cup {None}

\* "A .pub deleted from disk is restored from the vault, never replaced by a
\* second key", also when op generated an item and its answer was lost.
OneItemPerTitle == \A r \in Ref : Cardinality(items[r]) <= 1

\* "A failed mint cannot leave the profile without a key", and what is replaced
\* is in old/: a ref that has a pair on disk has one at every later moment, and
\* the pair at its path leaves that path for old/ only.
ReplacedKeyIsArchived ==
    [][\A r \in Ref :
        LET k == priv[r]["canonical"]
        IN  k # None /\ priv'[r]["canonical"] # k => priv'[r]["old"] = k]_reconcileVars

\* Nothing but the refs a person was asked about is replaced: "one yes" does not
\* regenerate "a stranger's identity in another profile".
OnlyConfirmedAreReplaced ==
    \A r \in Ref :
        run.step \in {"archivePriv", "archivePub"} /\ run.ref = r => r \in run.confirmed

\* Both: a key gets a successor, on disk or in the vault, only when it was asked
\* for.
NoUnaskedSuccessor == OneItemPerTitle /\ OnlyConfirmedAreReplaced

\* After a run that minted or recorded what it found, expiry and rotation are
\* not blind to any key in place, whatever died or failed before.
EveryKeyIsRecorded ==
    run = Idle("reconciled") =>
        \A r \in Ref \ cut : Present(r) /\ saved[Fingerprint(r)] # NoRecord

\* The record at a key's path is the record of the key that is there: an
\* overwrite or a mint over a stale entry never leaves another key's dates to
\* judge it by.
RecordsFollowKeys ==
    run.step = "idle" =>
        \A k \in Key, r \in Ref \ cut :
            saved[k] = <<r, "canonical">> /\ Present(r) => Fingerprint(r) = k

\* A pair moved to old/ takes its record along, so that a rollback does not
\* restore a key that has none.
ArchivedKeyKeepsRecord ==
    Minted => \A k \in Key, r \in run.confirmed :
        /\ saved[k] = <<r, "canonical">>
        /\ k = priv[r]["old"] /\ k = pub[r]["old"]
        => inv[k] = <<r, "old">>

\* The three of them: the inventory is of the keys that are there, each where it
\* is.
InventoryFollowsKeys == EveryKeyIsRecorded /\ RecordsFollowKeys /\ ArchivedKeyKeepsRecord
=============================================================================
