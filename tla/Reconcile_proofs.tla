--------------------------- MODULE Reconcile_proofs ---------------------------
(***************************************************************************)
(* Proofs about Reconcile, for any keys, vaults and pairs, with faults and *)
(* crashes or without.                                                     *)
(*                                                                         *)
(* The invariant rests on one notion: a ref Gets a pair if it has it in    *)
(* any place, or if the run is about to give it. No pair is got by two     *)
(* refs, no record names another ref than the one that got the pair, and   *)
(* only taking up a key adds to what a ref gets. For the rest it says what *)
(* each step of a run may rely on: which halves are moved already, that    *)
(* the file and the memory agree on the keys still to do, and that a ref   *)
(* whose path was claimed before its mint counts as cut until a save.      *)
(***************************************************************************)
EXTENDS Reconcile, FiniteSetTheorems, TLAPS

Phases == {"idle", "next", "archivePriv", "archivePub", "promotePriv", "promotePub",
           "writePub", "record", "save"}
OnDisk == {"archivePriv", "archivePub", "promotePriv", "promotePub"}
Minting == OnDisk \cup {"writePub", "record"}
Results == {"none", "reconciled", "minted", "recorded", "failed", "died"}
InFlight == run.step \in Minting

Runs == [step : Phases, result : Results, todo : SUBSET Ref, confirmed : SUBSET Ref,
         ref : Ref \cup {None}, fresh : Key \cup {None}, changed : BOOLEAN]

TypeInv ==
    /\ priv \in [Ref -> [Places -> Key \cup {None}]]
    /\ pub \in [Ref -> [Places -> Key \cup {None}]]
    /\ items \in [Ref -> SUBSET Key]
    /\ used \subseteq Key
    /\ saved \in [Key -> Record]
    /\ inv \in [Key -> Record]
    /\ run \in Runs
    /\ cut \subseteq Ref

\* The memory is the file between runs, and what is to do is missing or agreed.
RunInv ==
    /\ run.step = "idle" => inv = saved /\ run.todo = {}
    /\ run.step = "save" => run.result = "failed"
    /\ ~run.changed => inv = saved
    /\ run.step # "idle" => \A r \in run.todo :
          Present(r) => r \in run.confirmed \/ (InFlight /\ run.ref = r)

\* The key in flight and its pair.
MintInv ==
    InFlight =>
    /\ run.ref \in run.todo
    /\ run.fresh \in Key
    /\ run.step = "writePub" => run.ref \in Vaulted
    /\ run.step \in OnDisk => run.ref \notin Vaulted
    /\ run.ref \in Vaulted => run.fresh \in items[run.ref] /\ run.ref \notin run.confirmed
    /\ run.ref \notin Vaulted => saved[run.fresh] = NoRecord /\ inv[run.fresh] = NoRecord
    /\ run.ref \in cut \/ ~Covered(saved, run.ref)

\* What the steps before this one have done to its files.
DiskInv ==
    /\ run.step \in {"archivePriv", "archivePub"} => run.ref \in run.confirmed
    /\ run.step \in {"archivePub", "promotePriv"} => priv[run.ref]["canonical"] = None
    /\ run.step \in {"promotePub", "record"} /\ run.ref \notin Vaulted =>
          priv[run.ref]["canonical"] = run.fresh
    /\ run.step = "record" => pub[run.ref]["canonical"] = run.fresh

\* r has the pair in some place, or is to have it.
Gets(r, k) ==
    \/ k \in items[r]
    \/ \E p \in Places : priv[r][p] = k \/ pub[r][p] = k
    \/ InFlight /\ run.ref = r /\ run.fresh = k

KeysInv ==
    /\ \A r \in Ref, k \in Key : Gets(r, k) => k \in used
    /\ \A q, r \in Ref, k \in Key : Gets(q, k) /\ Gets(r, k) => q = r

\* The record of k says that k is, or was, the key r.
Names(records, k, r) == records[k] = <<r, "canonical">> \/ records[k] = <<r, "old">>

\* Records are of pairs of their own ref, one at each path: that of the key there.
OwnRecords(records) ==
    /\ \A k \in Key : records[k] # NoRecord => k \in used
    /\ \A q, r \in Ref, k \in Key : Gets(r, k) /\ Names(records, k, q) => q = r
    /\ \A r \in Ref, j, k \in Key :
          records[j] = <<r, "canonical">> /\ records[k] = <<r, "canonical">> => j = k
    /\ \A r \in Ref \ cut, k \in Key :
          records[k] = <<r, "canonical">> /\ Present(r) => Fingerprint(r) = k

RecordsInv == OwnRecords(saved) /\ OwnRecords(inv)

\* The file and the memory agree about the keys still to do.
SameInv ==
    \A r \in run.todo, k \in Key : inv[k] = <<r, "canonical">> <=> saved[k] = <<r, "canonical">>

\* A reconcile passes over no key: what it need not mint has a record.
SeenInv ==
    run.result = "reconciled" =>
        \A r \in Ref \ cut : r \in run.todo \/ (Present(r) /\ inv[Fingerprint(r)] # NoRecord)

\* ArchivedKeyKeepsRecord, of the keys replaced so far.
ArchiveInv ==
    run.step \in Minting \cup {"next"} =>
        \A r \in run.confirmed \ run.todo, k \in Key :
            saved[k] = <<r, "canonical">> /\ k = priv[r]["old"] /\ k = pub[r]["old"]
            => inv[k] = <<r, "old">>

\* One item for a title.
ItemsInv == \A r \in Ref : items[r] = {} \/ \E k \in Key : items[r] = {k}

IInv ==
    /\ TypeInv /\ RunInv /\ MintInv /\ DiskInv
    /\ KeysInv /\ RecordsInv /\ SameInv /\ SeenInv /\ ArchiveInv /\ ItemsInv

-----------------------------------------------------------------------------
Halves == [Ref -> [Places -> Key \cup {None}]]

\* Writing one half changes one place of one ref.
LEMMA SetFacts ==
    ASSUME NEW half \in Halves, NEW r \in Ref, NEW place \in Places, NEW k \in Key \cup {None}
    PROVE  /\ Set(half, r, place, k) \in Halves
           /\ \A q \in Ref, p \in Places :
                Set(half, r, place, k)[q][p] = IF q = r /\ p = place THEN k ELSE half[q][p]
BY DEF Set, Halves

\* Archiving one half moves it from its path to old/.
LEMMA ArchivedFacts ==
    ASSUME NEW half \in Halves, NEW r \in Ref
    PROVE  /\ Archived(half, r) \in Halves
           /\ \A q \in Ref, p \in Places :
                Archived(half, r)[q][p] =
                    IF q # r \/ p = "elsewhere" THEN half[q][p]
                    ELSE IF p = "old" THEN half[r]["canonical"] ELSE None
BY DEF Archived, Halves, Places

\* The fingerprint of a key in place is that of a pair its ref has.
LEMMA PlaceFacts ==
    ASSUME TypeInv, NEW r \in Ref, Present(r)
    PROVE  Fingerprint(r) \in Key /\ Gets(r, Fingerprint(r))
BY DEF TypeInv, Present, Fingerprint, Gets, Places

\* Records of two refs, or of two places, differ.
LEMMA RecordFacts ==
    ASSUME NEW q \in Ref, NEW r \in Ref
    PROVE  /\ <<q, "canonical">> # NoRecord /\ <<q, "old">> # NoRecord
           /\ <<q, "canonical">> # <<r, "old">>
           /\ <<q, "canonical">> = <<r, "canonical">> => q = r
           /\ <<q, "old">> = <<r, "old">> => q = r
           /\ <<q, "canonical">> \in Record /\ <<q, "old">> \in Record /\ NoRecord \in Record
BY DEF NoRecord, Record

\* What Goto and Fail leave of the run.
LEMMA RunFacts ==
    ASSUME run \in Runs
    PROVE  /\ \A step \in Phases : [run EXCEPT !.step = step] \in Runs
           /\ \A step : Goto(step) =>
                /\ run'.step = step /\ run'.result = run.result /\ run'.todo = run.todo
                /\ run'.confirmed = run.confirmed /\ run'.ref = run.ref
                /\ run'.fresh = run.fresh /\ run'.changed = run.changed
           /\ Fail =>
                /\ run' \in Runs
                /\ run'.step = "save" /\ run'.result = "failed" /\ run'.todo = {}
                /\ run'.confirmed = run.confirmed /\ run'.ref = run.ref
                /\ run'.fresh = run.fresh /\ run'.changed = run.changed
BY DEF Runs, Goto, Fail, Phases, Results, Minting, OnDisk

\* A run that breaks off has nothing left to do and nothing in flight.
LEMMA FailEndsTheRun ==
    ASSUME run \in Runs, RunInv, Fail, UNCHANGED <<saved, inv>>
    PROVE  RunInv' /\ MintInv' /\ DiskInv' /\ SameInv' /\ SeenInv' /\ ArchiveInv' /\ ~InFlight'
<1>1. run'.step = "save" /\ run'.result = "failed" /\ run'.todo = {} /\ run'.changed = run.changed
  BY RunFacts
<1>2. ~InFlight'
  BY <1>1 DEF InFlight, Minting, OnDisk
<1>3. RunInv'
  BY <1>1, <1>2 DEF RunInv
<1>4. MintInv' /\ DiskInv' /\ SameInv' /\ SeenInv' /\ ArchiveInv'
  BY <1>1, <1>2 DEF MintInv, DiskInv, SameInv, SeenInv, ArchiveInv, Minting, OnDisk
<1> QED  BY <1>2, <1>3, <1>4

\* A step that gives no ref a pair keeps the pairs apart.
LEMMA KeysStay ==
    ASSUME KeysInv, used \subseteq used',
           \A r \in Ref, k \in Key : Gets(r, k)' => Gets(r, k)
    PROVE  KeysInv'
BY DEF KeysInv

\* So it does the records, when it moves no key that has one at its path.
LEMMA RecordsStay ==
    ASSUME RecordsInv, UNCHANGED <<saved, inv>>, used \subseteq used', cut \subseteq cut',
           \A r \in Ref, k \in Key : Gets(r, k)' => Gets(r, k),
           \A r \in Ref \ cut' : Present(r)' =>
               \/ Present(r) /\ Fingerprint(r)' = Fingerprint(r)
               \/ ~Covered(saved, r) /\ ~Covered(inv, r)
    PROVE  RecordsInv'
<1> DEFINE R == {saved, inv}
<1>1. \A records \in R :
        /\ \A k \in Key : records[k] # NoRecord => k \in used'
        /\ \A q, r \in Ref, k \in Key : Gets(r, k)' /\ Names(records, k, q) => q = r
        /\ \A r \in Ref, j, k \in Key :
              records[j] = <<r, "canonical">> /\ records[k] = <<r, "canonical">> => j = k
  BY DEF RecordsInv, OwnRecords
<1>2. \A records \in R : \A r \in Ref \ cut', k \in Key :
        records[k] = <<r, "canonical">> /\ Present(r)' => Fingerprint(r)' = k
  BY DEF RecordsInv, OwnRecords, Covered
<1>3. saved' = saved /\ inv' = inv
  OBVIOUS
<1> QED  BY <1>1, <1>2, <1>3 DEF RecordsInv, OwnRecords, Names

\* A step on the disk for the key in flight, with the run going on.
LEMMA DiskStep ==
    ASSUME IInv, InFlight, NEW step \in Minting, Goto(step),
           step \in OnDisk => run.ref \notin Vaulted,
           step # "writePub",
           step \in {"archivePriv", "archivePub"} => run.ref \in run.confirmed,
           UNCHANGED <<items, used, saved, inv, cut>>,
           priv' \in Halves, pub' \in Halves,
           \A r \in Ref : r # run.ref => priv'[r] = priv[r] /\ pub'[r] = pub[r],
           \A k \in Key : Gets(run.ref, k)' => Gets(run.ref, k),
           DiskInv'
    PROVE  IInv'
<1> USE DEF IInv
<1>1. /\ run'.step = step /\ run'.result = run.result /\ run'.todo = run.todo
      /\ run'.confirmed = run.confirmed /\ run'.ref = run.ref
      /\ run'.fresh = run.fresh /\ run'.changed = run.changed
      /\ run' \in Runs
  BY RunFacts DEF TypeInv, Minting, OnDisk, Phases, Goto
<1>2. InFlight' /\ step \notin {"idle", "next", "save"}
  BY <1>1 DEF InFlight, Minting, OnDisk
<1>3. run.ref \in run.todo /\ run.ref \in Ref /\ (run.ref \in cut \/ ~Covered(saved, run.ref))
  BY DEF MintInv, TypeInv, Runs
<1>4. \A r \in Ref : r # run.ref =>
        /\ Present(r)' = Present(r) /\ Fingerprint(r)' = Fingerprint(r)
  BY DEF Present, Fingerprint
<1>5. \A r \in Ref, k \in Key : Gets(r, k)' => Gets(r, k)
  BY <1>1 DEF Gets
<1>6. TypeInv'
  BY <1>1 DEF TypeInv, Halves
<1>7. RunInv'
  <2>1. \A r \in run'.todo : r \in Ref
    BY <1>1 DEF TypeInv, Runs
  <2>2. run.step # "idle"
    BY DEF InFlight, Minting, OnDisk
  <2> QED  BY <1>1, <1>2, <1>4, <2>1, <2>2 DEF RunInv
<1>8. MintInv'
  BY <1>1, <1>2 DEF MintInv, Covered
<1>9. KeysInv'
  BY <1>5, KeysStay
<1>10. RecordsInv'
  <2>1. run.ref \notin cut => ~Covered(saved, run.ref) /\ ~Covered(inv, run.ref)
    BY <1>3 DEF SameInv, Covered
  <2> QED  BY <1>4, <1>5, <2>1, RecordsStay
<1>11. SameInv'
  BY <1>1 DEF SameInv
<1>12. SeenInv'
  BY <1>1, <1>3, <1>4 DEF SeenInv
<1>13. ArchiveInv'
  <2>1. \A r \in run.confirmed \ run.todo : r \in Ref /\ r # run.ref
    BY <1>3 DEF TypeInv, Runs
  <2>2. run.step \in Minting
    BY DEF InFlight
  <2>3. \A r \in run.confirmed \ run.todo, k \in Key :
          saved[k] = <<r, "canonical">> /\ k = priv[r]["old"] /\ k = pub[r]["old"]
          => inv[k] = <<r, "old">>
    BY <2>2 DEF ArchiveInv
  <2>4. run'.confirmed \ run'.todo = run.confirmed \ run.todo
    BY <1>1
  <2>5. \A r \in run.confirmed \ run.todo : priv'[r] = priv[r] /\ pub'[r] = pub[r]
    BY <2>1
  <2>6. inv' = inv /\ saved' = saved
    OBVIOUS
  <2>7. ASSUME NEW r \in run'.confirmed \ run'.todo, NEW k \in Key,
               saved'[k] = <<r, "canonical">>, k = priv'[r]["old"], k = pub'[r]["old"]
        PROVE  inv'[k] = <<r, "old">>
    <3>1. r \in run.confirmed \ run.todo
      BY <2>4, <2>7
    <3>2. k = priv[r]["old"] /\ k = pub[r]["old"] /\ saved[k] = <<r, "canonical">>
      BY <2>5, <2>6, <2>7, <3>1
    <3>3. inv[k] = <<r, "old">>
      BY <2>3, <3>1, <3>2
    <3> QED  BY <2>6, <3>3
  <2> QED  BY <2>7 DEF ArchiveInv
<1>14. ItemsInv'
  BY DEF ItemsInv
<1> QED  BY <1>6, <1>7, <1>8, <1>9, <1>10, <1>11, <1>12, <1>13, <1>14

\* The run breaks off with every key still, or not yet, at its path.
LEMMA FailStep ==
    ASSUME IInv, Fail,
           UNCHANGED <<items, used, saved, inv, cut>>,
           priv' \in Halves, pub' \in Halves,
           \A r \in Ref : /\ priv'[r]["canonical"] = priv[r]["canonical"]
                          /\ pub'[r]["canonical"] = pub[r]["canonical"],
           \A r \in Ref, p \in Places : /\ priv'[r][p] \in {priv[r][p], None}
                                        /\ pub'[r][p] \in {pub[r][p], None}
    PROVE  IInv'
<1> USE DEF IInv
<1>1. RunInv' /\ MintInv' /\ DiskInv' /\ SameInv' /\ SeenInv' /\ ArchiveInv' /\ ~InFlight'
  BY FailEndsTheRun DEF TypeInv
<1>2. TypeInv'
  BY RunFacts DEF TypeInv, Halves
<1>3. \A r \in Ref, k \in Key : Gets(r, k)' => Gets(r, k)
  BY <1>1, ReconcileAssumption DEF Gets
<1>4. \A r \in Ref : Present(r)' = Present(r) /\ Fingerprint(r)' = Fingerprint(r)
  BY DEF Present, Fingerprint
<1>5. KeysInv' /\ RecordsInv'
  BY <1>3, <1>4, KeysStay, RecordsStay
<1>6. ItemsInv'
  BY DEF ItemsInv
<1> QED  BY <1>1, <1>2, <1>5, <1>6

\* The steps of Generate, one lemma each: the private half goes to old/.
LEMMA ArchivePrivKeeps ==
    ASSUME IInv, ArchivePriv
    PROVE  IInv'
<1> USE DEF IInv
<1>1. /\ run.step = "archivePriv" /\ InFlight
      /\ run.ref \in Ref /\ run.ref \notin Vaulted /\ run.ref \in run.confirmed
      /\ priv \in Halves /\ pub \in Halves
  BY DEF ArchivePriv, InFlight, Minting, OnDisk, MintInv, DiskInv, TypeInv, Runs, Halves
<1>2. CASE priv' = Archived(priv, run.ref) /\ Goto("archivePub")
  <2>1. run'.step = "archivePub" /\ run'.ref = run.ref /\ run'.confirmed = run.confirmed
    BY <1>2, RunFacts DEF TypeInv
  <2>2. /\ priv' \in Halves
        /\ \A q \in Ref, p \in Places :
             priv'[q][p] = IF q # run.ref \/ p = "elsewhere" THEN priv[q][p]
                           ELSE IF p = "old" THEN priv[run.ref]["canonical"] ELSE None
    BY <1>1, <1>2, ArchivedFacts
  <2>3. \A r \in Ref : r # run.ref => priv'[r] = priv[r] /\ pub'[r] = pub[r]
    BY <1>1, <2>2 DEF ArchivePriv, Halves
  <2>4. \A k \in Key : Gets(run.ref, k)' => Gets(run.ref, k)
    <3>1. \A k \in Key, p \in Places :
            priv'[run.ref][p] = k => \E q \in Places : priv[run.ref][q] = k
      BY <1>1, <2>2, ReconcileAssumption DEF Places
    <3>2. UNCHANGED <<pub, items>> /\ run'.fresh = run.fresh
      BY <1>2, RunFacts DEF ArchivePriv, TypeInv
    <3> QED  BY <1>1, <2>1, <3>1, <3>2 DEF Gets
  <2>5. DiskInv'
    BY <1>1, <2>1, <2>2 DEF DiskInv, Places
  <2> QED  BY <1>1, <1>2, <2>2, <2>3, <2>4, <2>5, DiskStep DEF ArchivePriv, Minting, OnDisk
<1>3. CASE priv' = Set(priv, run.ref, "old", None) /\ Fail
  BY <1>1, <1>3, SetFacts, FailStep DEF ArchivePriv, Places
<1> QED  BY <1>2, <1>3 DEF ArchivePriv

\* Its .pub follows, if there is one.
LEMMA ArchivePubKeeps ==
    ASSUME IInv, ArchivePub
    PROVE  IInv'
<1> USE DEF IInv
<1>1. /\ run.step = "archivePub" /\ InFlight
      /\ run.ref \in Ref /\ run.ref \notin Vaulted /\ run.ref \in run.confirmed
      /\ priv[run.ref]["canonical"] = None
      /\ priv \in Halves /\ pub \in Halves
  BY DEF ArchivePub, InFlight, Minting, OnDisk, MintInv, DiskInv, TypeInv, Runs, Halves
<1>2. CASE pub' = Archived(pub, run.ref) /\ Goto("promotePriv")
  <2>1. run'.step = "promotePriv" /\ run'.ref = run.ref
    BY <1>2, RunFacts DEF TypeInv
  <2>2. /\ pub' \in Halves
        /\ \A q \in Ref, p \in Places :
             pub'[q][p] = IF q # run.ref \/ p = "elsewhere" THEN pub[q][p]
                           ELSE IF p = "old" THEN pub[run.ref]["canonical"] ELSE None
    BY <1>1, <1>2, ArchivedFacts
  <2>3. \A r \in Ref : r # run.ref => priv'[r] = priv[r] /\ pub'[r] = pub[r]
    BY <1>1, <2>2 DEF ArchivePub, Halves
  <2>4. \A k \in Key : Gets(run.ref, k)' => Gets(run.ref, k)
    <3>1. \A k \in Key, p \in Places :
            pub'[run.ref][p] = k => \E q \in Places : pub[run.ref][q] = k
      BY <1>1, <2>2, ReconcileAssumption DEF Places
    <3>2. UNCHANGED <<priv, items>> /\ run'.fresh = run.fresh
      BY <1>2, RunFacts DEF ArchivePub, TypeInv
    <3> QED  BY <1>1, <2>1, <3>1, <3>2 DEF Gets
  <2>5. DiskInv'
    BY <1>1, <2>1 DEF DiskInv, ArchivePub
  <2> QED  BY <1>1, <1>2, <2>2, <2>3, <2>4, <2>5, DiskStep DEF ArchivePub, Minting, OnDisk
<1>3. CASE UNCHANGED pub /\ Goto("promotePriv")
  <2>1. run'.step = "promotePriv" /\ run'.ref = run.ref /\ run'.fresh = run.fresh
    BY <1>3, RunFacts DEF TypeInv
  <2>2. DiskInv'
    BY <1>1, <2>1 DEF DiskInv, ArchivePub
  <2>3. \A k \in Key : Gets(run.ref, k)' => Gets(run.ref, k)
    BY <1>1, <1>3, <2>1 DEF ArchivePub, Gets
  <2> QED  BY <1>1, <1>3, <2>2, <2>3, DiskStep DEF ArchivePub, Minting, OnDisk
<1>4. CASE pub' = Set(pub, run.ref, "old", None) /\ Fail
  BY <1>1, <1>4, SetFacts, FailStep DEF ArchivePub, Places
<1> QED  BY <1>2, <1>3, <1>4 DEF ArchivePub

\* The new private half takes the place.
LEMMA PromotePrivKeeps ==
    ASSUME IInv, PromotePriv
    PROVE  IInv'
<1> USE DEF IInv
<1>1. /\ run.step = "promotePriv" /\ InFlight
      /\ run.ref \in Ref /\ run.ref \notin Vaulted /\ run.fresh \in Key
      /\ priv \in Halves /\ pub \in Halves
  BY DEF PromotePriv, InFlight, Minting, OnDisk, MintInv, TypeInv, Runs, Halves
<1>2. CASE priv' = Set(priv, run.ref, "canonical", run.fresh) /\ Goto("promotePub")
  <2>1. run'.step = "promotePub" /\ run'.ref = run.ref /\ run'.fresh = run.fresh
    BY <1>2, RunFacts DEF TypeInv
  <2>2. /\ priv' \in Halves
        /\ \A q \in Ref, p \in Places :
             priv'[q][p] = IF q = run.ref /\ p = "canonical" THEN run.fresh ELSE priv[q][p]
    <3>1. "canonical" \in Places /\ run.fresh \in Key \cup {None}
      BY <1>1 DEF Places
    <3> QED  BY <1>1, <1>2, <3>1, SetFacts
  <2>3. \A r \in Ref : r # run.ref => priv'[r] = priv[r] /\ pub'[r] = pub[r]
    BY <1>1, <2>2 DEF PromotePriv, Halves
  <2>4. \A k \in Key : Gets(run.ref, k)' => Gets(run.ref, k)
    BY <1>1, <2>1, <2>2 DEF PromotePriv, Gets, Places
  <2>5. DiskInv'
    BY <1>1, <2>1, <2>2 DEF DiskInv, Places
  <2> QED  BY <1>1, <1>2, <2>2, <2>3, <2>4, <2>5, DiskStep DEF PromotePriv, Minting, OnDisk
<1>3. CASE Fail /\ UNCHANGED priv
  BY <1>1, <1>3, FailStep DEF PromotePriv, Places
<1> QED  BY <1>2, <1>3 DEF PromotePriv

\* So does the new .pub.
LEMMA PromotePubKeeps ==
    ASSUME IInv, PromotePub
    PROVE  IInv'
<1> USE DEF IInv
<1>1. /\ run.step = "promotePub" /\ InFlight
      /\ run.ref \in Ref /\ run.ref \notin Vaulted /\ run.fresh \in Key
      /\ priv[run.ref]["canonical"] = run.fresh
      /\ priv \in Halves /\ pub \in Halves
  BY DEF PromotePub, InFlight, Minting, OnDisk, MintInv, DiskInv, TypeInv, Runs, Halves
<1>2. CASE pub' = Set(pub, run.ref, "canonical", run.fresh) /\ Goto("record")
  <2>1. run'.step = "record" /\ run'.ref = run.ref /\ run'.fresh = run.fresh
    BY <1>2, RunFacts DEF TypeInv
  <2>2. /\ pub' \in Halves
        /\ \A q \in Ref, p \in Places :
             pub'[q][p] = IF q = run.ref /\ p = "canonical" THEN run.fresh ELSE pub[q][p]
    <3>1. "canonical" \in Places /\ run.fresh \in Key \cup {None}
      BY <1>1 DEF Places
    <3> QED  BY <1>1, <1>2, <3>1, SetFacts
  <2>3. \A r \in Ref : r # run.ref => priv'[r] = priv[r] /\ pub'[r] = pub[r]
    BY <1>1, <2>2 DEF PromotePub, Halves
  <2>4. \A k \in Key : Gets(run.ref, k)' => Gets(run.ref, k)
    BY <1>1, <2>1, <2>2 DEF PromotePub, Gets, Places
  <2>5. DiskInv'
    BY <1>1, <2>1, <2>2 DEF DiskInv, Places, PromotePub
  <2> QED  BY <1>1, <1>2, <2>2, <2>3, <2>4, <2>5, DiskStep DEF PromotePub, Minting, OnDisk
<1>3. CASE Fail /\ UNCHANGED pub
  BY <1>1, <1>3, FailStep DEF PromotePub, Places
<1> QED  BY <1>2, <1>3 DEF PromotePub

\* Of a key in a vault only the .pub is written.
LEMMA WritePubKeeps ==
    ASSUME IInv, WritePub
    PROVE  IInv'
<1> USE DEF IInv
<1>1. /\ run.step = "writePub" /\ InFlight
      /\ run.ref \in Ref /\ run.ref \in Vaulted /\ run.fresh \in Key
      /\ priv \in Halves /\ pub \in Halves
  BY DEF WritePub, InFlight, Minting, OnDisk, MintInv, TypeInv, Runs, Halves
<1>2. CASE pub' = Set(pub, run.ref, "canonical", run.fresh) /\ Goto("record")
  <2>1. run'.step = "record" /\ run'.ref = run.ref /\ run'.fresh = run.fresh
    BY <1>2, RunFacts DEF TypeInv
  <2>2. /\ pub' \in Halves
        /\ \A q \in Ref, p \in Places :
             pub'[q][p] = IF q = run.ref /\ p = "canonical" THEN run.fresh ELSE pub[q][p]
    <3>1. "canonical" \in Places /\ run.fresh \in Key \cup {None}
      BY <1>1 DEF Places
    <3> QED  BY <1>1, <1>2, <3>1, SetFacts
  <2>3. \A r \in Ref : r # run.ref => priv'[r] = priv[r] /\ pub'[r] = pub[r]
    BY <1>1, <2>2 DEF WritePub, Halves
  <2>4. \A k \in Key : Gets(run.ref, k)' => Gets(run.ref, k)
    BY <1>1, <2>1, <2>2 DEF WritePub, Gets, Places
  <2>5. DiskInv'
    BY <1>1, <2>1, <2>2 DEF DiskInv, Places
  <2> QED  BY <1>1, <1>2, <2>2, <2>3, <2>4, <2>5, DiskStep DEF WritePub, Minting, OnDisk
<1>3. CASE Fail /\ UNCHANGED pub
  BY <1>1, <1>3, FailStep DEF WritePub, Places
<1> QED  BY <1>2, <1>3 DEF WritePub

-----------------------------------------------------------------------------
\* A pair nobody has, or that the ref has already, may be given to it.
LEMMA NewPair ==
    ASSUME KeysInv, RecordsInv, UNCHANGED <<diskVars, saved, inv>>,
           NEW r \in Ref, NEW k \in Key, k \notin used \/ Gets(r, k),
           used' = used \cup {k}, cut \subseteq cut',
           \A q \in Ref, j \in Key : Gets(q, j)' => Gets(q, j) \/ (q = r /\ j = k)
    PROVE  KeysInv' /\ RecordsInv'
<1>1. KeysInv'
  BY DEF KeysInv
<1>2. \A q \in Ref : Present(q)' = Present(q) /\ Fingerprint(q)' = Fingerprint(q)
  BY DEF diskVars, Present, Fingerprint
<1>3. saved' = saved /\ inv' = inv
  OBVIOUS
<1>4. ASSUME NEW records, OwnRecords(records)
      PROVE  /\ \A j \in Key : records[j] # NoRecord => j \in used'
             /\ \A p, q \in Ref, j \in Key : Gets(q, j)' /\ Names(records, j, p) => p = q
             /\ \A q \in Ref, i, j \in Key :
                   records[i] = <<q, "canonical">> /\ records[j] = <<q, "canonical">> => i = j
             /\ \A q \in Ref \ cut', j \in Key :
                   records[j] = <<q, "canonical">> /\ Present(q)' => Fingerprint(q)' = j
  <2>1. \A j \in Key : records[j] # NoRecord => j \in used
    BY <1>4 DEF OwnRecords
  <2>2. \A p \in Ref : Names(records, k, p) => k \in used
    BY <2>1, RecordFacts DEF Names
  <2>3. \A p, q \in Ref, j \in Key : Gets(q, j)' /\ Names(records, j, p) => p = q
    BY <1>4, <2>2 DEF OwnRecords
  <2>4. /\ \A q \in Ref, i, j \in Key :
              records[i] = <<q, "canonical">> /\ records[j] = <<q, "canonical">> => i = j
        /\ \A q \in Ref \ cut, j \in Key :
              records[j] = <<q, "canonical">> /\ Present(q) => Fingerprint(q) = j
    BY <1>4 DEF OwnRecords
  <2> QED  BY <1>2, <2>1, <2>3, <2>4
<1>5. OwnRecords(saved) /\ OwnRecords(inv)
  BY DEF RecordsInv
<1>6. RecordsInv'
  BY <1>3, <1>4, <1>5 DEF RecordsInv, OwnRecords, Names
<1> QED  BY <1>1, <1>6

\* The run takes up key r with pair k: what the ways to do so have in common.
Claims(r, k, step) ==
    /\ run.step = "next" /\ r \in run.todo /\ k \in Key /\ step \in Minting
    /\ run' = [run EXCEPT !.step = step, !.ref = r, !.fresh = k]
    /\ UNCHANGED <<diskVars, saved, inv>>
    /\ k \notin used \/ k \in items[r]
    /\ used' = used \cup {k}
    /\ items' \in [Ref -> SUBSET Key]
    /\ \A q \in Ref, j \in Key : j \in items'[q] => j \in items[q] \/ (q = r /\ j = k)
    /\ cut' = IF Covered(saved, r) THEN cut \cup {r} ELSE cut
    /\ step = "writePub" => r \in Vaulted
    /\ step \in OnDisk => r \notin Vaulted
    /\ step \notin {"record", "archivePub", "promotePub"}
    /\ r \in Vaulted => k \in items'[r] /\ r \notin run.confirmed
    /\ r \notin Vaulted => k \notin used
    /\ step = "archivePriv" => Present(r)
    /\ step = "promotePriv" => ~Present(r)

\* Whichever way the run takes up a key, the invariant is kept.
LEMMA ClaimStep ==
    ASSUME IInv, NEW r, NEW k, NEW step, Claims(r, k, step), ItemsInv'
    PROVE  IInv'
<1>0. r \in run.todo /\ k \in Key /\ step \in Minting
  BY DEF Claims
<1> USE DEF IInv, Claims
<1>1. /\ run'.step = step /\ run'.result = run.result /\ run'.todo = run.todo
      /\ run'.confirmed = run.confirmed /\ run'.ref = r
      /\ run'.fresh = k /\ run'.changed = run.changed
      /\ run' \in Runs /\ r \in Ref
  BY DEF TypeInv, Runs, Minting, OnDisk, Phases
<1>2. InFlight' /\ ~InFlight /\ step \notin {"idle", "next", "save"}
  BY <1>1 DEF InFlight, Minting, OnDisk
<1>3. \A q \in Ref, j \in Key : Gets(q, j)' => Gets(q, j) \/ (q = r /\ j = k)
  BY <1>1, <1>2 DEF Gets, diskVars
<1>4. cut \subseteq cut' /\ cut' \subseteq Ref
  BY <1>1 DEF TypeInv
<1>5. TypeInv'
  BY <1>1, <1>4 DEF TypeInv, diskVars
<1>6. \A q : Present(q)' = Present(q) /\ Fingerprint(q)' = Fingerprint(q)
  BY DEF diskVars, Present, Fingerprint
<1>7. RunInv'
  BY <1>1, <1>2, <1>6 DEF RunInv
<1>8. MintInv'
  <2>1. k \notin used => saved[k] = NoRecord /\ inv[k] = NoRecord
    BY DEF RecordsInv, OwnRecords
  <2>2. r \in cut' \/ ~Covered(saved, r)
    BY DEF Covered
  <2> QED  BY <1>1, <2>1, <2>2 DEF MintInv, Covered
<1>9. DiskInv'
  <2>1. Present(r) => r \in run.confirmed
    BY <1>2 DEF RunInv
  <2>2. step = "promotePriv" => priv'[r]["canonical"] = None
    BY DEF Present, diskVars, OnDisk
  <2> QED  BY <1>1, <2>1, <2>2 DEF DiskInv
<1>10. KeysInv' /\ RecordsInv'
  <2>1. k \notin used \/ Gets(r, k)
    BY DEF Gets
  <2> QED  BY <1>1, <1>3, <1>4, <2>1, NewPair
<1>11. SameInv'
  BY <1>1 DEF SameInv
<1>12. SeenInv'
  BY <1>1, <1>4, <1>6 DEF SeenInv
<1>13. ArchiveInv'
  <2>1. \A q \in run.confirmed \ run.todo, j \in Key :
          saved[j] = <<q, "canonical">> /\ j = priv[q]["old"] /\ j = pub[q]["old"]
          => inv[j] = <<q, "old">>
    BY DEF ArchiveInv
  <2> QED  BY <1>1, <2>1 DEF ArchiveInv, diskVars
<1> QED  BY <1>5, <1>7, <1>8, <1>9, <1>10, <1>11, <1>12, <1>13

\* A key on disk is taken up with a pair nobody has.
LEMMA NextOnDiskKeeps ==
    ASSUME IInv, NEW r \in Ref, NextOnDisk(r)
    PROVE  IInv'
<1> USE DEF IInv
<1>1. CASE Fail /\ UNCHANGED <<used, cut>>
  <2>1. priv \in Halves /\ pub \in Halves
    BY DEF TypeInv, Halves
  <2> QED  BY <1>1, <2>1, FailStep DEF NextOnDisk, diskVars
<1>2. ASSUME NEW k \in Key \ used,
             used' = used \cup {k},
             run' = [run EXCEPT !.step = IF Present(r) THEN "archivePriv" ELSE "promotePriv",
                                !.ref = r, !.fresh = k],
             cut' = IF Covered(saved, r) THEN cut \cup {r} ELSE cut
      PROVE  IInv'
  <2> DEFINE step == IF Present(r) THEN "archivePriv" ELSE "promotePriv"
  <2>1. step \in Minting /\ step \in OnDisk /\ step # "writePub" /\ step # "record"
        /\ step # "archivePub" /\ step # "promotePub"
        /\ (step = "archivePriv" => Present(r)) /\ (step = "promotePriv" => ~Present(r))
    BY DEF Minting, OnDisk
  <2>2. /\ run.step = "next" /\ r \in run.todo /\ r \notin Vaulted
        /\ UNCHANGED <<diskVars, saved, inv>> /\ items' = items
    BY DEF NextOnDisk
  <2>3. ItemsInv' /\ items' \in [Ref -> SUBSET Key]
    BY <2>2 DEF ItemsInv, TypeInv
  <2>4. run' = [run EXCEPT !.step = step, !.ref = r, !.fresh = k]
    BY <1>2
  <2> HIDE DEF step
  <2>5. Claims(r, k, step)
    BY <1>2, <2>1, <2>2, <2>3, <2>4 DEF Claims
  <2> QED  BY <2>3, <2>5, ClaimStep
<1> QED  BY <1>1, <1>2 DEF NextOnDisk

\* A key in a vault is taken up with the pair of its item, found or generated,
\* and op may have generated one although it did not answer.
LEMMA NextVaultedKeeps ==
    ASSUME IInv, NEW r \in Ref, NextVaulted(r)
    PROVE  IInv'
<1> USE DEF IInv
<1>1. /\ run.step = "next" /\ r \in run.todo /\ r \in Vaulted
      /\ UNCHANGED <<diskVars, saved, inv>>
      /\ items \in [Ref -> SUBSET Key]
  BY DEF NextVaulted, TypeInv
<1>2. "writePub" \in Minting /\ "writePub" \notin OnDisk
  BY DEF Minting, OnDisk
<1>3. CASE /\ r \notin run.confirmed
           /\ \E k \in Reusable(r) : run' = [run EXCEPT !.step = "writePub", !.ref = r, !.fresh = k]
           /\ cut' = IF Covered(saved, r) THEN cut \cup {r} ELSE cut
           /\ UNCHANGED <<items, used>>
  <2>1. PICK k \in items[r] : run' = [run EXCEPT !.step = "writePub", !.ref = r, !.fresh = k]
    BY <1>3 DEF Reusable
  <2>2. k \in Key /\ Gets(r, k)
    BY <1>1 DEF Gets
  <2>3. used' = used \cup {k}
    BY <1>3, <2>2 DEF KeysInv
  <2>4. ItemsInv'
    BY <1>3 DEF ItemsInv
  <2>5. Claims(r, k, "writePub")
    BY <1>1, <1>2, <1>3, <2>1, <2>2, <2>3 DEF Claims
  <2> QED  BY <2>4, <2>5, ClaimStep
<1>4. ASSUME r \notin run.confirmed, Reusable(r) = {}, NEW k \in Key \ used,
             used' = used \cup {k},
             items' = [items EXCEPT ![r] = @ \cup {k}],
             cut' = IF Covered(saved, r) THEN cut \cup {r} ELSE cut,
             \/ run' = [run EXCEPT !.step = "writePub", !.ref = r, !.fresh = k]
             \/ Faults /\ Fail
      PROVE  IInv'
  <2>1. /\ items' \in [Ref -> SUBSET Key]
        /\ items'[r] = {k}
        /\ \A q \in Ref : q # r => items'[q] = items[q]
    BY <1>1, <1>4 DEF Reusable
  <2>2. ItemsInv'
    BY <2>1 DEF ItemsInv
  <2>3. \A q \in Ref, j \in Key : j \in items'[q] => j \in items[q] \/ (q = r /\ j = k)
    BY <2>1
  <2>4. CASE run' = [run EXCEPT !.step = "writePub", !.ref = r, !.fresh = k]
    <3>1. k \in Key /\ k \notin used /\ k \in items'[r] /\ r \notin run.confirmed
      BY <1>4, <2>1
    <3>2. used' = used \cup {k} /\ cut' = IF Covered(saved, r) THEN cut \cup {r} ELSE cut
      BY <1>4
    <3>3. "writePub" \notin {"record", "archivePriv", "archivePub", "promotePriv", "promotePub"}
      OBVIOUS
    <3>4. items' \in [Ref -> SUBSET Key]
      BY <2>1
    <3>5. "writePub" \in Minting /\ "writePub" \notin OnDisk /\ r \in Vaulted
          /\ run.step = "next" /\ r \in run.todo /\ UNCHANGED <<diskVars, saved, inv>>
      BY <1>1, <1>2
    <3>6. Claims(r, k, "writePub")
      BY <2>3, <2>4, <3>1, <3>2, <3>3, <3>4, <3>5 DEF Claims
    <3> QED  BY <2>2, <3>6, ClaimStep
  <2>5. CASE Fail
    <3>1. RunInv' /\ MintInv' /\ DiskInv' /\ SameInv' /\ SeenInv' /\ ArchiveInv' /\ ~InFlight'
      BY <1>1, <2>5, FailEndsTheRun DEF TypeInv
    <3>2. TypeInv'
      BY <1>1, <1>4, <2>1, <2>5, RunFacts DEF TypeInv, diskVars
    <3>3. \A q \in Ref, j \in Key : Gets(q, j)' => Gets(q, j) \/ (q = r /\ j = k)
      BY <1>1, <2>3, <3>1 DEF Gets, diskVars
    <3>4. cut \subseteq cut'
      BY <1>4
    <3>5. KeysInv' /\ RecordsInv'
      BY <1>1, <1>4, <3>3, <3>4, NewPair
    <3> QED  BY <2>2, <3>1, <3>2, <3>5
  <2> QED  BY <1>4, <2>4, <2>5
<1>5. CASE Fail /\ UNCHANGED <<items, used, cut>>
  <2>1. priv \in Halves /\ pub \in Halves
    BY DEF TypeInv, Halves
  <2> QED  BY <1>1, <1>5, <2>1, FailStep DEF diskVars
<1> QED  BY <1>3, <1>4, <1>5 DEF NextVaulted

-----------------------------------------------------------------------------
\* What RecordMinted does to the records: to those of its own key only.
LEMMA MintedRecords ==
    ASSUME IInv, RecordMinted, ~Fail,
           NEW r, r = run.ref
    PROVE  /\ r \in Ref /\ run.fresh \in Key /\ Gets(r, run.fresh) /\ r \in run.todo
           /\ inv' \in [Key -> Record]
           /\ inv'[run.fresh] = <<r, "canonical">>
           /\ \A k \in Key : inv'[k] = <<r, "canonical">> => k = run.fresh
           /\ \A k \in Key : Names(inv', k, r) => Names(inv, k, r) \/ Gets(r, k)
           /\ \A k \in Key, q \in Ref : q # r =>
                /\ inv'[k] = <<q, "canonical">> <=> inv[k] = <<q, "canonical">>
                /\ inv'[k] = <<q, "old">> <=> inv[k] = <<q, "old">>
           /\ \A k \in Key : inv'[k] # NoRecord => k \in used
           /\ \A k \in Key : /\ r \in run.confirmed /\ k # run.fresh /\ k = pub[r]["old"]
                             /\ inv[k] = <<r, "canonical">>
                             => inv'[k] = <<r, "old">>
<1> USE DEF IInv
<1>1. /\ r \in Ref /\ run.fresh \in Key /\ Gets(r, run.fresh) /\ r \in run.todo
      /\ inv \in [Key -> Record] /\ OwnRecords(inv)
      /\ Outgoing # None => Gets(r, Outgoing)
      /\ Outgoing \in Key \cup {None}
  BY DEF RecordMinted, InFlight, Minting, MintInv, TypeInv, Runs, Gets, RecordsInv, Outgoing, Places
<1>2. inv' = [Pruned(ArchivedRecords(r), r) EXCEPT ![run.fresh] = <<r, "canonical">>]
  BY DEF RecordMinted
<1>3. /\ \A k \in Key : ArchivedRecords(r)[k] =
            IF ~Replaced THEN inv[k]
            ELSE IF Outgoing # None /\ k = Outgoing /\ inv[k] # NoRecord THEN <<r, "old">>
            ELSE IF inv[k] = <<r, "old">> THEN NoRecord
            ELSE IF Outgoing = None /\ inv[k] = <<r, "canonical">> THEN <<r, "old">>
            ELSE inv[k]
      /\ \A k \in Key : Pruned(ArchivedRecords(r), r)[k] =
            IF ArchivedRecords(r)[k] = <<r, "canonical">> THEN NoRecord ELSE ArchivedRecords(r)[k]
      /\ \A k \in Key : inv'[k] =
            IF k = run.fresh THEN <<r, "canonical">> ELSE Pruned(ArchivedRecords(r), r)[k]
      /\ DOMAIN inv' = Key
      /\ inv' = [k \in Key |-> inv'[k]]
  <2>1. /\ DOMAIN Pruned(ArchivedRecords(r), r) = Key
        /\ \A k \in Key : Pruned(ArchivedRecords(r), r)[k] =
              IF ArchivedRecords(r)[k] = <<r, "canonical">> THEN NoRecord ELSE ArchivedRecords(r)[k]
    BY DEF Pruned
  <2>2. /\ \A k \in Key : inv'[k] =
              IF k = run.fresh THEN <<r, "canonical">> ELSE Pruned(ArchivedRecords(r), r)[k]
        /\ DOMAIN inv' = Key
        /\ inv' = [k \in Key |-> inv'[k]]
    <3> HIDE DEF IInv
    <3> QED  BY <1>1, <1>2, <2>1
  <2>3. \A k \in Key : ArchivedRecords(r)[k] =
            IF ~Replaced THEN inv[k]
            ELSE IF Outgoing # None /\ k = Outgoing /\ inv[k] # NoRecord THEN <<r, "old">>
            ELSE IF inv[k] = <<r, "old">> THEN NoRecord
            ELSE IF Outgoing = None /\ inv[k] = <<r, "canonical">> THEN <<r, "old">>
            ELSE inv[k]
    BY DEF ArchivedRecords
  <2> QED  BY <2>1, <2>2, <2>3
<1> HIDE DEF IInv
<1>4. /\ <<r, "canonical">> # NoRecord /\ <<r, "old">> # NoRecord
      /\ <<r, "canonical">> # <<r, "old">>
      /\ <<r, "canonical">> \in Record /\ <<r, "old">> \in Record /\ NoRecord \in Record
      /\ \A q \in Ref : q # r =>
            /\ <<q, "canonical">> # NoRecord /\ <<q, "old">> # NoRecord
            /\ <<q, "canonical">> # <<r, "canonical">> /\ <<q, "canonical">> # <<r, "old">>
            /\ <<q, "old">> # <<r, "canonical">> /\ <<q, "old">> # <<r, "old">>
  BY <1>1, RecordFacts
<1>5. \A k \in Key :
        \/ inv'[k] = inv[k]
        \/ inv'[k] = NoRecord /\ Names(inv, k, r)
        \/ inv'[k] = <<r, "old">> /\ inv[k] # NoRecord /\ (Gets(r, k) \/ Names(inv, k, r))
        \/ inv'[k] = <<r, "canonical">> /\ k = run.fresh
  BY <1>1, <1>3, <1>4 DEF Names
<1>6. \A k \in Key, q \in Ref : Gets(r, k) /\ Names(inv, k, q) => q = r
  BY <1>1 DEF OwnRecords
<1>7. inv' \in [Key -> Record]
  BY <1>1, <1>3, <1>4, <1>5
<1>8. inv'[run.fresh] = <<r, "canonical">>
  BY <1>1, <1>3
<1>9. \A k \in Key : inv'[k] = <<r, "canonical">> => k = run.fresh
  BY <1>3, <1>4
<1>10. \A k \in Key : Names(inv', k, r) => Names(inv, k, r) \/ Gets(r, k)
  BY <1>1, <1>4, <1>5 DEF Names
<1>11. \A k \in Key, q \in Ref : q # r =>
                /\ inv'[k] = <<q, "canonical">> <=> inv[k] = <<q, "canonical">>
                /\ inv'[k] = <<q, "old">> <=> inv[k] = <<q, "old">>
  BY <1>1, <1>4, <1>5, <1>6 DEF Names
<1>12. \A k \in Key : inv'[k] # NoRecord => k \in used
  <2>1. run.fresh \in used
    BY <1>1 DEF IInv, KeysInv
  <2> QED  BY <1>1, <1>5, <2>1 DEF OwnRecords
<1>13. \A k \in Key : /\ r \in run.confirmed /\ k # run.fresh /\ k = pub[r]["old"]
                      /\ inv[k] = <<r, "canonical">>
                      => inv'[k] = <<r, "old">>
  <2>1. None \notin Key
    BY ReconcileAssumption
  <2> QED  BY <1>3, <1>4, <2>1 DEF Replaced, Outgoing
<1> QED  BY <1>1, <1>7, <1>8, <1>9, <1>10, <1>11, <1>12, <1>13

\* The record is written, or the run breaks off without it.
LEMMA RecordMintedKeeps ==
    ASSUME IInv, RecordMinted
    PROVE  IInv'
<1>1. UNCHANGED <<diskVars, items, used, saved, cut>> /\ run.step = "record"
  BY DEF RecordMinted
<1>2. CASE Fail /\ UNCHANGED inv
  <2>1. priv \in Halves /\ pub \in Halves
    BY DEF IInv, TypeInv, Halves
  <2> QED  BY <1>1, <1>2, <2>1, FailStep DEF diskVars
<1>3. CASE ~Fail
  <2> DEFINE r == run.ref
  <2>1. /\ r \in Ref /\ run.fresh \in Key /\ Gets(r, run.fresh) /\ r \in run.todo
        /\ inv' \in [Key -> Record]
        /\ inv'[run.fresh] = <<r, "canonical">>
        /\ \A k \in Key : inv'[k] = <<r, "canonical">> => k = run.fresh
        /\ \A k \in Key : Names(inv', k, r) => Names(inv, k, r) \/ Gets(r, k)
        /\ \A k \in Key, q \in Ref : q # r =>
             /\ inv'[k] = <<q, "canonical">> <=> inv[k] = <<q, "canonical">>
             /\ inv'[k] = <<q, "old">> <=> inv[k] = <<q, "old">>
        /\ \A k \in Key : inv'[k] # NoRecord => k \in used
        /\ \A k \in Key : /\ r \in run.confirmed /\ k # run.fresh /\ k = pub[r]["old"]
                          /\ inv[k] = <<r, "canonical">>
                          => inv'[k] = <<r, "old">>
    BY <1>3, MintedRecords
  <2>2. /\ run' = [run EXCEPT !.step = "next", !.todo = @ \ {r}, !.changed = TRUE]
        /\ run \in Runs
    BY <1>3 DEF RecordMinted, IInv, TypeInv
  <2>3. /\ run'.step = "next" /\ run'.result = run.result /\ run'.todo = run.todo \ {r}
        /\ run'.confirmed = run.confirmed /\ run'.changed = TRUE
        /\ run' \in Runs
    BY <2>2 DEF Runs, Phases
  <2>4. ~InFlight' /\ InFlight
    BY <1>1, <2>3 DEF InFlight, Minting, OnDisk
  <2>5. \A q \in Ref : Present(q)' = Present(q) /\ Fingerprint(q)' = Fingerprint(q)
    BY <1>1 DEF diskVars, Present, Fingerprint
  <2>6. \A q \in Ref, k \in Key : Gets(q, k)' => Gets(q, k)
    BY <1>1, <2>4 DEF Gets, diskVars
  <2>7. run.todo \subseteq Ref /\ run.confirmed \subseteq Ref
    BY <2>2 DEF Runs
  <2>8. Present(r) /\ Fingerprint(r) = run.fresh
    <3>1. /\ pub[r]["canonical"] = run.fresh
          /\ r \notin Vaulted => priv[r]["canonical"] = run.fresh
      BY <1>1 DEF IInv, DiskInv
    <3> QED  BY <2>1, <3>1, ReconcileAssumption DEF Present, Fingerprint
  <2> HIDE DEF r
  <2>9. TypeInv'
    BY <1>1, <2>1, <2>3 DEF IInv, TypeInv, diskVars
  <2>10. RunInv'
    <3>1. \A q \in run.todo \ {r} : Present(q) => q \in run.confirmed
      BY <1>1 DEF IInv, RunInv, r
    <3> QED  BY <2>3, <2>5, <2>7, <3>1 DEF RunInv
  <2>11. MintInv' /\ DiskInv'
    BY <2>3, <2>4 DEF MintInv, DiskInv
  <2>12. KeysInv'
    BY <1>1, <2>6, KeysStay DEF IInv
  <2>13. RecordsInv'
    <3>1. /\ \A k \in Key : saved[k] # NoRecord => k \in used
          /\ \A p, q \in Ref, k \in Key : Gets(q, k) /\ Names(saved, k, p) => p = q
          /\ \A q \in Ref, j, k \in Key :
                saved[j] = <<q, "canonical">> /\ saved[k] = <<q, "canonical">> => j = k
          /\ \A q \in Ref \ cut, k \in Key :
                saved[k] = <<q, "canonical">> /\ Present(q) => Fingerprint(q) = k
      BY DEF IInv, RecordsInv, OwnRecords
    <3>2. /\ \A p, q \in Ref, k \in Key : Gets(q, k) /\ Names(inv, k, p) => p = q
          /\ \A q \in Ref, j, k \in Key :
                inv[j] = <<q, "canonical">> /\ inv[k] = <<q, "canonical">> => j = k
          /\ \A q \in Ref \ cut, k \in Key :
                inv[k] = <<q, "canonical">> /\ Present(q) => Fingerprint(q) = k
      BY DEF IInv, RecordsInv, OwnRecords
    <3>3. \A p, q \in Ref, k \in Key : Gets(q, k) /\ Gets(p, k) => p = q
      BY DEF IInv, KeysInv
    <3>4. \A p, q \in Ref, k \in Key : Gets(q, k) /\ Names(inv', k, p) => p = q
      <4> SUFFICES ASSUME NEW p \in Ref, NEW q \in Ref, NEW k \in Key,
                          Gets(q, k), Names(inv', k, p)
                   PROVE  p = q
        OBVIOUS
      <4>1. CASE p = r
        BY <2>1, <3>2, <3>3, <4>1
      <4>2. CASE p # r
        <5>1. Names(inv, k, p)
          BY <2>1, <4>2 DEF Names
        <5> QED  BY <3>2, <5>1
      <4> QED  BY <4>1, <4>2
    <3>5. \A q \in Ref, j, k \in Key :
            inv'[j] = <<q, "canonical">> /\ inv'[k] = <<q, "canonical">> => j = k
      BY <2>1, <3>2
    <3>6. \A q \in Ref \ cut, k \in Key :
            inv'[k] = <<q, "canonical">> /\ Present(q) => Fingerprint(q) = k
      BY <2>1, <2>8, <3>2
    <3>7. OwnRecords(saved)'
      BY <1>1, <2>5, <2>6, <3>1 DEF OwnRecords, Names
    <3>8. OwnRecords(inv)'
      BY <1>1, <2>1, <2>5, <2>6, <3>4, <3>5, <3>6 DEF OwnRecords, Names
    <3> QED  BY <3>7, <3>8 DEF RecordsInv
  <2>14. SameInv'
    <3>1. \A q \in run.todo, k \in Key :
            inv[k] = <<q, "canonical">> <=> saved[k] = <<q, "canonical">>
      BY DEF IInv, SameInv
    <3> QED  BY <1>1, <2>1, <2>3, <2>7, <3>1 DEF SameInv
  <2>15. SeenInv'
    <3> SUFFICES ASSUME run.result = "reconciled", NEW q \in Ref \ cut, q \notin run.todo \ {r}
                 PROVE  Present(q) /\ inv'[Fingerprint(q)] # NoRecord
      BY <1>1, <2>3, <2>5 DEF SeenInv
    <3>1. CASE q = r
      BY <2>1, <2>8, <3>1, RecordFacts
    <3>2. CASE q # r
      <4>1. Present(q) /\ inv[Fingerprint(q)] # NoRecord
        BY <3>2 DEF IInv, SeenInv
      <4>2. Fingerprint(q) \in Key /\ Gets(q, Fingerprint(q))
        BY <4>1, PlaceFacts DEF IInv
      <4>3. PICK p \in Ref : Names(inv, Fingerprint(q), p)
        BY <4>1, <4>2 DEF IInv, TypeInv, Record, NoRecord, Names
      <4>4. p = q
        BY <4>2, <4>3 DEF IInv, RecordsInv, OwnRecords
      <4>5. Names(inv', Fingerprint(q), q)
        BY <2>1, <3>2, <4>2, <4>3, <4>4 DEF Names
      <4> QED  BY <4>1, <4>5, RecordFacts DEF Names
    <3> QED  BY <3>1, <3>2
  <2>16. ArchiveInv'
    <3> SUFFICES ASSUME NEW q \in run.confirmed \ (run.todo \ {r}), NEW k \in Key,
                        saved[k] = <<q, "canonical">>, k = priv[q]["old"], k = pub[q]["old"]
                 PROVE  inv'[k] = <<q, "old">>
      BY <1>1, <2>3 DEF ArchiveInv, diskVars
    <3>1. CASE q = r
      <4>1. inv[k] = <<r, "canonical">>
        BY <2>1, <3>1 DEF IInv, SameInv
      <4>2. saved[run.fresh] = NoRecord
        BY <2>4, <3>1 DEF IInv, MintInv, r
      <4>3. k # run.fresh
        BY <2>1, <3>1, <4>2, RecordFacts
      <4> QED  BY <2>1, <3>1, <4>1, <4>3
    <3>2. CASE q # r
      <4>1. inv[k] = <<q, "old">>
        BY <1>1, <3>2 DEF IInv, ArchiveInv, Minting, OnDisk
      <4> QED  BY <2>1, <2>7, <3>2, <4>1
    <3> QED  BY <3>1, <3>2
  <2>17. ItemsInv'
    BY <1>1 DEF IInv, ItemsInv
  <2> QED  BY <2>9, <2>10, <2>11, <2>12, <2>13, <2>14, <2>15, <2>16, <2>17 DEF IInv
<1>4. Fail => UNCHANGED inv
  <2>1. Fail => run'.step = "save"
    BY RunFacts DEF IInv, TypeInv
  <2>2. run' = [run EXCEPT !.step = "next", !.todo = @ \ {run.ref}, !.changed = TRUE]
        => run'.step = "next"
    BY DEF IInv, TypeInv, Runs
  <2> QED  BY <2>1, <2>2 DEF RecordMinted
<1> QED  BY <1>2, <1>3, <1>4

-----------------------------------------------------------------------------
\* The run ends, saved or not.
LEMMA IdleStep ==
    ASSUME IInv, NEW result \in Results, run' = Idle(result), inv' = saved',
           UNCHANGED <<diskVars, items, used>>, cut' \subseteq Ref,
           saved' \in [Key -> Record], RecordsInv', SeenInv'
    PROVE  IInv'
<1>1. run' \in Runs /\ run'.step = "idle" /\ run'.todo = {} /\ run'.confirmed = {}
  BY DEF Idle, Runs, Phases
<1>2. ~InFlight'
  BY <1>1 DEF InFlight, Minting, OnDisk
<1>3. TypeInv'
  BY <1>1 DEF IInv, TypeInv, diskVars
<1>4. RunInv' /\ MintInv' /\ DiskInv' /\ SameInv' /\ ArchiveInv'
  BY <1>1, <1>2 DEF RunInv, MintInv, DiskInv, SameInv, ArchiveInv
<1>5. \A q \in Ref, k \in Key : Gets(q, k)' => Gets(q, k)
  BY <1>2 DEF Gets, diskVars
<1>6. KeysInv'
  BY <1>5, KeysStay DEF IInv
<1>7. ItemsInv'
  BY DEF IInv, ItemsInv
<1> QED  BY <1>3, <1>4, <1>6, <1>7 DEF IInv

\* saveRecords, which succeeds or loses what the run recorded.
LEMMA SaveKeeps ==
    ASSUME IInv, Save
    PROVE  IInv'
<1>1. /\ UNCHANGED <<diskVars, items, used>> /\ inv' = saved'
      /\ run.step = "save" \/ (run.step = "next" /\ run.todo = {})
      /\ run \in Runs
  BY DEF Save, Minted, IInv, TypeInv
<1>2. \A q \in Ref : Present(q)' = Present(q) /\ Fingerprint(q)' = Fingerprint(q)
  BY <1>1 DEF diskVars, Present, Fingerprint
<1>3. CASE Faults /\ MustSave /\ run' = Idle("failed") /\ UNCHANGED <<saved, cut>>
  <2>1. SeenInv' /\ ~InFlight'
    BY <1>3 DEF SeenInv, Idle, InFlight, Minting, OnDisk
  <2>2. OwnRecords(saved)'
    <3>1. \A q \in Ref, k \in Key : Gets(q, k)' => Gets(q, k)
      BY <1>1, <2>1 DEF Gets, diskVars
    <3>2. OwnRecords(saved)
      BY DEF IInv, RecordsInv
    <3> QED  BY <1>1, <1>2, <1>3, <3>1, <3>2 DEF OwnRecords, Names
  <2>3. RecordsInv'
    BY <1>1, <2>2 DEF RecordsInv
  <2>4. "failed" \in Results /\ cut' \subseteq Ref /\ saved' \in [Key -> Record]
    BY <1>3 DEF Results, IInv, TypeInv
  <2> QED  BY <1>1, <1>3, <2>1, <2>3, <2>4, IdleStep
<1>4. CASE /\ saved' = IF MustSave THEN inv ELSE saved
           /\ cut' = {r \in cut : Present(r) => saved'[Fingerprint(r)] # <<r, "canonical">>}
           /\ run' = Idle(run.result)
  <2>1. saved' = inv
    BY <1>4 DEF MustSave, IInv, RunInv
  <2>2. /\ run'.result = run.result /\ run'.todo = {} /\ ~InFlight'
    BY <1>4 DEF Idle, InFlight, Minting, OnDisk
  <2>3. \A q \in Ref, k \in Key : Gets(q, k)' => Gets(q, k)
    BY <1>1, <2>2 DEF Gets, diskVars
  <2>4. /\ \A k \in Key : inv[k] # NoRecord => k \in used
        /\ \A p, q \in Ref, k \in Key : Gets(q, k) /\ Names(inv, k, p) => p = q
        /\ \A q \in Ref, j, k \in Key :
              inv[j] = <<q, "canonical">> /\ inv[k] = <<q, "canonical">> => j = k
        /\ \A q \in Ref \ cut, k \in Key :
              inv[k] = <<q, "canonical">> /\ Present(q) => Fingerprint(q) = k
    BY DEF IInv, RecordsInv, OwnRecords
  <2>5. \A q \in Ref \ cut' : q \notin cut \/ (Present(q) /\ inv[Fingerprint(q)] = <<q, "canonical">>)
    BY <1>4, <2>1
  <2>6. \A q \in Ref \ cut', k \in Key :
          inv[k] = <<q, "canonical">> /\ Present(q) => Fingerprint(q) = k
    <3>1. \A q \in Ref : Present(q) => Fingerprint(q) \in Key
      BY PlaceFacts DEF IInv
    <3> QED  BY <2>4, <2>5, <3>1
  <2>7. OwnRecords(inv)'
    BY <1>1, <1>2, <2>1, <2>3, <2>4, <2>6 DEF OwnRecords, Names
  <2>8. RecordsInv'
    BY <1>1, <2>7 DEF RecordsInv
  <2>9. SeenInv'
    <3> SUFFICES ASSUME run.result = "reconciled", NEW q \in Ref \ cut'
                 PROVE  Present(q) /\ inv[Fingerprint(q)] # NoRecord
      BY <1>1, <1>2, <2>1, <2>2 DEF SeenInv
    <3>1. run.todo = {}
      BY <1>1 DEF IInv, RunInv
    <3> QED  BY <2>5, <3>1, RecordFacts DEF IInv, SeenInv
  <2>10. run.result \in Results /\ cut' \subseteq Ref /\ saved' \in [Key -> Record]
    BY <1>1, <1>4, <2>1 DEF Runs, IInv, TypeInv
  <2> QED  BY <1>1, <1>4, <2>8, <2>9, <2>10, IdleStep
<1> QED  BY <1>3, <1>4 DEF Save

\* The process dies: the memory goes, the disk stays.
LEMMA CrashKeeps ==
    ASSUME IInv, Crash
    PROVE  IInv'
<1>1. /\ run' = Idle("died") /\ inv' = saved /\ saved' = saved /\ cut' = cut
      /\ UNCHANGED <<diskVars, items, used>>
  BY DEF Crash
<1>2. SeenInv' /\ ~InFlight'
  BY <1>1 DEF SeenInv, Idle, InFlight, Minting, OnDisk
<1>3. \A q \in Ref : Present(q)' = Present(q) /\ Fingerprint(q)' = Fingerprint(q)
  BY <1>1 DEF diskVars, Present, Fingerprint
<1>4. RecordsInv'
  <2>1. \A q \in Ref, k \in Key : Gets(q, k)' => Gets(q, k)
    BY <1>1, <1>2 DEF Gets, diskVars
  <2>2. OwnRecords(saved)
    BY DEF IInv, RecordsInv
  <2>3. OwnRecords(saved)'
    BY <1>1, <1>3, <2>1, <2>2 DEF OwnRecords, Names
  <2> QED  BY <1>1, <2>3 DEF RecordsInv
<1>5. "died" \in Results /\ cut' \subseteq Ref /\ saved' \in [Key -> Record]
  BY <1>1 DEF Results, IInv, TypeInv
<1> QED  BY <1>1, <1>2, <1>4, <1>5, IdleStep

-----------------------------------------------------------------------------
\* A run begins with the records it has just completed.
LEMMA BeginStep ==
    ASSUME IInv, run.step = "idle",
           NEW result \in Results, NEW todo \in SUBSET Ref, NEW confirmed \in SUBSET Ref,
           NEW records \in [Key -> Record],
           Begin(result, todo, confirmed, records),
           confirmed \subseteq todo,
           \A r \in todo : Present(r) => r \in confirmed,
           OwnRecords(records),
           \A r \in todo, k \in Key :
               records[k] = <<r, "canonical">> <=> saved[k] = <<r, "canonical">>,
           result = "reconciled" =>
               \A r \in Ref \ cut :
                   r \in todo \/ (Present(r) /\ records[Fingerprint(r)] # NoRecord)
    PROVE  IInv'
<1>1. /\ inv' = records /\ UNCHANGED <<diskVars, items, used, saved, cut>>
      /\ run' = [Idle(result) EXCEPT !.step = "next", !.todo = todo, !.confirmed = confirmed,
                                     !.changed = records # saved]
  BY DEF Begin
<1>2. /\ run'.step = "next" /\ run'.result = result /\ run'.todo = todo
      /\ run'.confirmed = confirmed /\ run'.changed = (records # saved) /\ run' \in Runs
  BY <1>1 DEF Idle, Runs, Phases
<1>3. ~InFlight' /\ ~InFlight
  BY <1>2 DEF InFlight, Minting, OnDisk
<1>4. \A q \in Ref : Present(q)' = Present(q) /\ Fingerprint(q)' = Fingerprint(q)
  BY <1>1 DEF diskVars, Present, Fingerprint
<1>5. \A q \in Ref, k \in Key : Gets(q, k)' => Gets(q, k)
  BY <1>1, <1>3 DEF Gets, diskVars
<1>6. TypeInv'
  BY <1>1, <1>2 DEF IInv, TypeInv, diskVars
<1>7. RunInv'
  BY <1>1, <1>2, <1>4 DEF RunInv
<1>8. MintInv' /\ DiskInv'
  BY <1>2, <1>3 DEF MintInv, DiskInv
<1>9. KeysInv'
  BY <1>1, <1>5, KeysStay DEF IInv
<1>10. RecordsInv'
  <2>1. OwnRecords(saved)
    BY DEF IInv, RecordsInv
  <2>2. OwnRecords(saved)'
    BY <1>1, <1>4, <1>5, <2>1 DEF OwnRecords, Names
  <2>3. OwnRecords(inv)'
    BY <1>1, <1>4, <1>5 DEF OwnRecords, Names
  <2> QED  BY <2>2, <2>3 DEF RecordsInv
<1>11. SameInv' /\ SeenInv'
  BY <1>1, <1>2, <1>4 DEF SameInv, SeenInv
<1>12. ArchiveInv'
  BY <1>2 DEF ArchiveInv
<1>13. ItemsInv'
  BY <1>1 DEF IInv, ItemsInv
<1> QED  BY <1>6, <1>7, <1>8, <1>9, <1>10, <1>11, <1>12, <1>13 DEF IInv

\* recordExisting records a pair under the key that has it, and no pair twice.
LEMMA RecordedFacts ==
    ASSUME IInv, NEW scope \in SUBSET Ref,
           NEW records, records = RecordedExisting(saved, scope)
    PROVE  /\ records \in [Key -> Record]
           /\ OwnRecords(records)
           /\ \A r \in Ref, k \in Key : records[k] = <<r, "canonical">> =>
                 saved[k] = <<r, "canonical">> \/ Present(r)
           /\ \A k \in Key : saved[k] # NoRecord => records[k] = saved[k]
           /\ \A r \in Unrecorded(saved, scope) : records[Fingerprint(r)] # NoRecord
<1> DEFINE Un == Unrecorded(saved, scope)
           Whose(k) == CHOOSE r \in Un : Fingerprint(r) = k
<1>1. \A r \in Un : /\ r \in Ref /\ Present(r) /\ ~Covered(saved, r)
                    /\ Fingerprint(r) \in Key /\ Gets(r, Fingerprint(r))
  BY PlaceFacts DEF Unrecorded, IInv
<1>2. saved \in [Key -> Record]
  BY DEF IInv, TypeInv
<1>3. /\ DOMAIN records = Key
      /\ records = [k \in Key |-> records[k]]
      /\ \A k \in Key : records[k] =
            IF saved[k] = NoRecord /\ \E r \in Un : Fingerprint(r) = k
            THEN <<Whose(k), "canonical">> ELSE saved[k]
  BY DEF RecordedExisting
<1>4. \A k \in Key : (\E r \in Un : Fingerprint(r) = k) => Whose(k) \in Un /\ Fingerprint(Whose(k)) = k
  OBVIOUS
<1> HIDE DEF Un, Whose
<1>5. \A k \in Key :
        \/ records[k] = saved[k]
        \/ \E r \in Un : /\ Fingerprint(r) = k /\ records[k] = <<r, "canonical">>
                         /\ saved[k] = NoRecord
  BY <1>3, <1>4
<1>6. \A k \in Key : saved[k] # NoRecord => records[k] = saved[k]
  BY <1>3
<1>7. \A r \in Un : records[Fingerprint(r)] # NoRecord
  BY <1>1, <1>3, <1>4, RecordFacts
<1>8. records \in [Key -> Record]
  <2>1. \A k \in Key : records[k] \in Record
    BY <1>1, <1>2, <1>5, RecordFacts
  <2> QED  BY <1>3, <2>1
<1>9. \A r \in Ref, k \in Key : records[k] = <<r, "canonical">> =>
        \/ saved[k] = <<r, "canonical">>
        \/ r \in Un /\ Fingerprint(r) = k
  BY <1>1, <1>5, RecordFacts
<1>10. OwnRecords(saved)
  BY DEF IInv, RecordsInv
<1>11. OwnRecords(records)
  <2>1. \A k \in Key : records[k] # NoRecord => k \in used
    <3>1. \A r \in Un : Fingerprint(r) \in used
      BY <1>1 DEF IInv, KeysInv
    <3> QED  BY <1>5, <1>10, <3>1 DEF OwnRecords
  <2>2. \A q, r \in Ref, k \in Key : Gets(r, k) /\ Names(records, k, q) => q = r
    <3> SUFFICES ASSUME NEW q \in Ref, NEW r \in Ref, NEW k \in Key,
                        Gets(r, k), Names(records, k, q)
                 PROVE  q = r
      OBVIOUS
    <3>1. CASE records[k] = saved[k]
      BY <1>10, <3>1 DEF OwnRecords, Names
    <3>2. ASSUME NEW p \in Un, Fingerprint(p) = k, records[k] = <<p, "canonical">>
          PROVE  q = r
      <4>1. p = q
        BY <1>1, <3>2, RecordFacts DEF Names
      <4> QED  BY <1>1, <3>2, <4>1 DEF IInv, KeysInv
    <3> QED  BY <1>5, <3>1, <3>2
  <2>3. \A r \in Ref, j, k \in Key :
          records[j] = <<r, "canonical">> /\ records[k] = <<r, "canonical">> => j = k
    BY <1>1, <1>9, <1>10 DEF OwnRecords, Covered
  <2>4. \A r \in Ref \ cut, k \in Key :
          records[k] = <<r, "canonical">> /\ Present(r) => Fingerprint(r) = k
    BY <1>9, <1>10 DEF OwnRecords
  <2> QED  BY <2>1, <2>2, <2>3, <2>4 DEF OwnRecords
<1> QED  BY <1>1, <1>6, <1>7, <1>8, <1>9, <1>11 DEF Un

\* Each command that begins a run does so on what the lemma above asks for.
LEMMA StartKeeps ==
    ASSUME IInv, Start
    PROVE  IInv'
<1>1. /\ saved \in [Key -> Record] /\ OwnRecords(saved)
  BY DEF IInv, TypeInv, RecordsInv
<1>2. CASE StartReconcile
  <2> DEFINE records == RecordedExisting(saved, Ref)
             todo == {r \in Ref : ~Present(r)}
  <2>1. run.step = "idle" /\ Begin("reconciled", todo, {}, records)
    BY <1>2 DEF StartReconcile
  <2>2. /\ records \in [Key -> Record]
        /\ OwnRecords(records)
        /\ \A r \in Ref, k \in Key : records[k] = <<r, "canonical">> =>
              saved[k] = <<r, "canonical">> \/ Present(r)
        /\ \A k \in Key : saved[k] # NoRecord => records[k] = saved[k]
        /\ \A r \in Unrecorded(saved, Ref) : records[Fingerprint(r)] # NoRecord
    BY RecordedFacts
  <2>3. \A r \in Ref \ cut : r \in todo \/ (Present(r) /\ records[Fingerprint(r)] # NoRecord)
    <3> SUFFICES ASSUME NEW r \in Ref \ cut, Present(r)
                 PROVE  records[Fingerprint(r)] # NoRecord
      BY DEF todo
    <3>1. CASE Covered(saved, r)
      <4>1. PICK k \in Key : saved[k] = <<r, "canonical">>
        BY <3>1 DEF Covered
      <4>2. Fingerprint(r) = k
        BY <1>1, <4>1 DEF OwnRecords
      <4>3. saved[k] # NoRecord
        BY <4>1, RecordFacts
      <4> QED  BY <2>2, <4>1, <4>2, <4>3
    <3>2. CASE ~Covered(saved, r)
      BY <2>2, <3>2 DEF Unrecorded
    <3> QED  BY <3>1, <3>2
  <2>4. \A r \in todo, k \in Key :
           records[k] = <<r, "canonical">> <=> saved[k] = <<r, "canonical">>
    BY <2>2, RecordFacts
  <2>5. /\ todo \in SUBSET Ref /\ "reconciled" \in Results
        /\ \A r \in todo : Present(r) => r \in {}
        /\ {} \in SUBSET Ref /\ {} \subseteq todo
    BY DEF Results
  <2> HIDE DEF records, todo
  <2> QED  BY <2>1, <2>2, <2>3, <2>4, <2>5, BeginStep
<1>3. ASSUME NEW scope \in SUBSET Ref, StartKeygen(scope)
      PROVE  IInv'
  <2>1. PICK answers \in SUBSET {r \in scope : Present(r)} :
           Begin("minted", {r \in scope : ~Present(r)} \cup Confirmed(answers), answers, saved)
    BY <1>3 DEF StartKeygen
  <2> DEFINE todo == {r \in scope : ~Present(r)} \cup answers
  <2>2. /\ todo \in SUBSET Ref /\ answers \in SUBSET Ref /\ answers \subseteq todo
        /\ \A r \in todo : Present(r) => r \in answers
    OBVIOUS
  <2>3. Begin("minted", todo, answers, saved) /\ run.step = "idle"
    BY <1>3, <2>1 DEF StartKeygen, Confirmed
  <2>4. "minted" \in Results /\ "minted" # "reconciled"
    BY DEF Results
  <2> HIDE DEF todo
  <2> QED  BY <1>1, <2>2, <2>3, <2>4, BeginStep
<1>4. ASSUME NEW r \in Ref, StartMintRef(r)
      PROVE  IInv'
  <2>1. Begin("minted", {r}, {}, saved) /\ run.step = "idle" /\ ~Present(r)
    BY <1>4 DEF StartMintRef
  <2>2. "minted" \in Results /\ "minted" # "reconciled"
    BY DEF Results
  <2>3. /\ {r} \in SUBSET Ref /\ {} \in SUBSET Ref /\ {} \subseteq {r}
        /\ \A q \in {r} : Present(q) => q \in {}
    BY <2>1
  <2> QED  BY <1>1, <2>1, <2>2, <2>3, BeginStep
<1>5. ASSUME NEW r \in Ref, StartRecord(r)
      PROVE  IInv'
  <2> DEFINE records == RecordedExisting(saved, {r})
  <2>1. Begin("recorded", {}, {}, records) /\ run.step = "idle"
    BY <1>5 DEF StartRecord
  <2>2. records \in [Key -> Record] /\ OwnRecords(records)
    BY RecordedFacts
  <2>3. "recorded" \in Results /\ "recorded" # "reconciled"
    BY DEF Results
  <2> HIDE DEF records
  <2> QED  BY <2>1, <2>2, <2>3, BeginStep
<1>6. \A scope \in {Ref} \cup {{r} : r \in Ref} : scope \in SUBSET Ref
  OBVIOUS
<1> QED  BY <1>2, <1>3, <1>4, <1>5, <1>6 DEF Start

\* A home somebody has used: no pair of one ref is with another.
LEMMA InitIInv ==
    ASSUME Init
    PROVE  IInv
<1>1. PICK place \in [Ref -> {"canonical", "elsewhere", "nowhere"}],
           unpaired \in SUBSET Ref, known \in SUBSET Ref :
          /\ priv = [r \in Ref |-> At(r, IF r \in Vaulted THEN "nowhere" ELSE place[r])]
          /\ pub = [r \in Ref |-> At(r, IF r \in unpaired THEN "nowhere" ELSE place[r])]
          /\ items = [r \in Ref |-> IF r \in Vaulted /\ place[r] # "nowhere" THEN {First[r]} ELSE {}]
          /\ saved = [k \in Key |-> IF \E r \in known : First[r] = k
                                    THEN <<CHOOSE r \in known : First[r] = k, "canonical">>
                                    ELSE NoRecord]
  BY DEF Init
<1>2. /\ used = {First[r] : r \in Ref} /\ inv = saved /\ run = Idle("none") /\ cut = {}
  BY DEF Init
<1>3. /\ run.step = "idle" /\ run.todo = {} /\ run.result = "none" /\ run.changed = FALSE
      /\ run \in Runs
  BY <1>2 DEF Idle, Runs, Phases, Results
<1>4. ~InFlight
  BY <1>3 DEF InFlight, Minting, OnDisk
<1>5. First \in [Ref -> Key] /\ None \notin Key /\ \A q, r \in Ref : First[q] = First[r] => q = r
  BY ReconcileAssumption
<1>6. /\ priv \in Halves /\ pub \in Halves
      /\ \A r \in Ref, p \in Places : priv[r][p] \in {First[r], None} /\ pub[r][p] \in {First[r], None}
      /\ items \in [Ref -> SUBSET Key]
      /\ \A r \in Ref : items[r] \subseteq {First[r]}
  BY <1>1, <1>5 DEF At, Halves
<1>7. \A k \in Key : saved[k] = NoRecord \/ \E r \in Ref : First[r] = k /\ saved[k] = <<r, "canonical">>
  BY <1>1
<1>8. saved \in [Key -> Record]
  <2>1. saved = [k \in Key |-> saved[k]]
    BY <1>1
  <2>2. \A k \in Key : saved[k] \in Record
    <3>1. NoRecord \in Record /\ \A r \in Ref : <<r, "canonical">> \in Record
      BY DEF Record, NoRecord
    <3> QED  BY <1>7, <3>1
  <2> QED  BY <2>1, <2>2
<1>9. TypeInv
  BY <1>2, <1>3, <1>5, <1>6, <1>8 DEF TypeInv, Halves
<1>10. \A r \in Ref, k \in Key : Gets(r, k) => First[r] = k
  BY <1>4, <1>5, <1>6 DEF Gets
<1>11. KeysInv
  BY <1>2, <1>5, <1>10 DEF KeysInv
<1>12. \A r \in Ref, k \in Key : Names(saved, k, r) => First[r] = k
  BY <1>7, RecordFacts DEF Names
<1>13. OwnRecords(saved)
  <2>1. \A k \in Key : saved[k] # NoRecord => k \in used
    BY <1>2, <1>7
  <2>2. \A q, r \in Ref, k \in Key : Gets(r, k) /\ Names(saved, k, q) => q = r
    BY <1>5, <1>10, <1>12
  <2>3. \A r \in Ref, j, k \in Key :
          saved[j] = <<r, "canonical">> /\ saved[k] = <<r, "canonical">> => j = k
    BY <1>12 DEF Names
  <2>4. \A r \in Ref, k \in Key :
          saved[k] = <<r, "canonical">> /\ Present(r) => Fingerprint(r) = k
    BY <1>9, <1>10, <1>12, PlaceFacts DEF Names
  <2> QED  BY <2>1, <2>2, <2>3, <2>4 DEF OwnRecords
<1>14. RunInv /\ MintInv /\ DiskInv /\ SameInv /\ SeenInv /\ ArchiveInv
  BY <1>2, <1>3, <1>4 DEF RunInv, MintInv, DiskInv, SameInv, SeenInv, ArchiveInv, Minting, OnDisk
<1>15. ItemsInv
  <2>1. \A r \in Ref : items[r] = {} \/ items[r] = {First[r]}
    BY <1>6
  <2> QED  BY <1>5, <2>1 DEF ItemsInv
<1> QED  BY <1>2, <1>9, <1>11, <1>13, <1>14, <1>15 DEF IInv, RecordsInv

\* Every step keeps the invariant.
LEMMA StepIInv ==
    ASSUME IInv, [Next]_reconcileVars
    PROVE  IInv'
<1>1. CASE UNCHANGED reconcileVars
  <2>1. /\ priv' = priv /\ pub' = pub /\ items' = items /\ used' = used /\ saved' = saved
        /\ inv' = inv /\ run' = run /\ cut' = cut
    BY <1>1 DEF reconcileVars
  <2>2. TypeInv' /\ ItemsInv' /\ ArchiveInv' /\ SameInv' /\ DiskInv'
    BY <2>1 DEF IInv, TypeInv, ItemsInv, ArchiveInv, SameInv, DiskInv
  <2>3. RunInv' /\ MintInv'
    BY <2>1 DEF IInv, RunInv, MintInv, InFlight, Present, Covered
  <2>4. \A r \in Ref : Present(r)' = Present(r) /\ Fingerprint(r)' = Fingerprint(r)
    BY <2>1 DEF Present, Fingerprint
  <2>5. \A r \in Ref, k \in Key : Gets(r, k)' => Gets(r, k)
    BY <2>1 DEF Gets, InFlight
  <2>6. KeysInv' /\ RecordsInv'
    BY <2>1, <2>4, <2>5, KeysStay, RecordsStay DEF IInv
  <2>7. SeenInv'
    BY <2>1, <2>4 DEF IInv, SeenInv
  <2> QED  BY <2>2, <2>3, <2>6, <2>7 DEF IInv
<1>2. CASE Start
  BY <1>2, StartKeeps
<1>3. CASE Step
  BY <1>3, NextOnDiskKeeps, NextVaultedKeeps, ArchivePrivKeeps, ArchivePubKeeps,
     PromotePrivKeeps, PromotePubKeeps, WritePubKeeps, RecordMintedKeeps, SaveKeeps DEF Step
<1>4. CASE Crash
  BY <1>4, CrashKeeps
<1> QED  BY <1>1, <1>2, <1>3, <1>4 DEF Next

-----------------------------------------------------------------------------
\* The invariant holds of every state of every behaviour.
THEOREM ReconcileInvariance == ReconcileSpec => []IInv
<1>1. Init => IInv
  BY InitIInv
<1>2. IInv /\ [Next]_reconcileVars => IInv'
  BY StepIInv
<1> QED  BY <1>1, <1>2, PTL DEF ReconcileSpec

\* Files, items, records and the run have the shape the code gives them.
THEOREM ReconcileTypeCorrect == ReconcileSpec => []ReconcileTypeOK
<1>1. IInv => ReconcileTypeOK
  BY DEF IInv, TypeInv, Runs, ReconcileTypeOK
<1> QED  BY <1>1, ReconcileInvariance, PTL

\* The inventory is of the keys that are there, each where it is: a reconcile
\* that ends well has a record of every key, the record at a path is that of
\* the key there, and a key moved to old/ takes its record along.
THEOREM RecordsAreOfKeysInPlace == ReconcileSpec => []InventoryFollowsKeys
<1>1. IInv => EveryKeyIsRecorded
  <2> SUFFICES ASSUME IInv, run = Idle("reconciled"), NEW r \in Ref \ cut
               PROVE  Present(r) /\ saved[Fingerprint(r)] # NoRecord
    BY DEF EveryKeyIsRecorded
  <2>1. run.step = "idle" /\ run.result = "reconciled" /\ run.todo = {}
    BY DEF Idle
  <2> QED  BY <2>1 DEF IInv, RunInv, SeenInv
<1>2. IInv => RecordsFollowKeys
  BY DEF IInv, RecordsInv, OwnRecords, RecordsFollowKeys
<1>3. IInv => ArchivedKeyKeepsRecord
  BY DEF IInv, ArchiveInv, ArchivedKeyKeepsRecord, Minted
<1>4. IInv => InventoryFollowsKeys
  BY <1>1, <1>2, <1>3 DEF InventoryFollowsKeys
<1> QED  BY <1>4, ReconcileInvariance, PTL

\* No key gets a successor nobody asked for: only a ref whose owner agreed is
\* archived, and a title in a vault never gets a second item.
THEOREM NobodyIsReplacedUnasked == ReconcileSpec => []NoUnaskedSuccessor
<1>1. IInv => OneItemPerTitle
  <2> SUFFICES ASSUME IInv, NEW r \in Ref
               PROVE  Cardinality(items[r]) <= 1
    BY DEF OneItemPerTitle
  <2>1. Cardinality({}) = 0
    BY FS_EmptySet
  <2>2. \A k : Cardinality({k}) = 1
    BY FS_Singleton
  <2> QED  BY <2>1, <2>2 DEF IInv, ItemsInv
<1>2. IInv => OnlyConfirmedAreReplaced
  BY DEF IInv, DiskInv, OnlyConfirmedAreReplaced
<1>3. IInv => NoUnaskedSuccessor
  BY <1>1, <1>2 DEF NoUnaskedSuccessor
<1> QED  BY <1>3, ReconcileInvariance, PTL

\* A private half leaves its path for old/ only, whatever fails or dies around
\* it: Generate never overwrites a pair that is there.
THEOREM ReplacedKeysAreArchived == ReconcileSpec => ReplacedKeyIsArchived
<1> DEFINE Kept == \A r \in Ref :
        LET k == priv[r]["canonical"]
        IN  k # None /\ priv'[r]["canonical"] # k => priv'[r]["old"] = k
<1>1. IInv /\ [Next]_reconcileVars => [Kept]_reconcileVars
  <2> SUFFICES ASSUME IInv, Next, NEW r \in Ref, priv[r]["canonical"] # None,
                      priv'[r]["canonical"] # priv[r]["canonical"]
               PROVE  priv'[r]["old"] = priv[r]["canonical"]
    OBVIOUS
  <2>1. ArchivePriv \/ PromotePriv
    BY DEF Next, Start, Step, StartReconcile, StartKeygen, StartMintRef, StartRecord, Begin, Crash,
       NextOnDisk, NextVaulted, ArchivePub, PromotePub, WritePub, RecordMinted, Save, diskVars
  <2>2. priv \in Halves /\ run.ref \in Ref
    BY <2>1 DEF IInv, TypeInv, Halves, MintInv, InFlight, Minting, OnDisk, ArchivePriv, PromotePriv, Runs
  <2>3. CASE ArchivePriv
    <3>1. priv' # Set(priv, run.ref, "old", None)
      BY <2>2, SetFacts DEF Places
    <3>2. priv' = Archived(priv, run.ref)
      BY <2>3, <3>1 DEF ArchivePriv
    <3> QED  BY <2>2, <3>2, ArchivedFacts DEF Places
  <2>4. CASE PromotePriv
    <3>1. priv[run.ref]["canonical"] = None
      BY <2>4 DEF PromotePriv, IInv, DiskInv
    <3>2. priv' = Set(priv, run.ref, "canonical", run.fresh) \/ priv' = priv
      BY <2>4 DEF PromotePriv
    <3>3. run.fresh \in Key /\ "canonical" \in Places
      BY <2>4 DEF PromotePriv, IInv, MintInv, InFlight, Minting, OnDisk, Places
    <3>4. r # run.ref => priv'[r]["canonical"] = priv[r]["canonical"]
      BY <2>2, <3>2, <3>3, SetFacts
    <3> QED  BY <3>1, <3>4
  <2> QED  BY <2>1, <2>3, <2>4
<1> QED  BY <1>1, ReconcileInvariance, PTL DEF ReconcileSpec, ReplacedKeyIsArchived
=============================================================================
