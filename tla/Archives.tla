------------------------------ MODULE Archives ------------------------------
(***************************************************************************)
(* What brings a home back: the snapshots of ~/.ssh (services/snapshots),  *)
(* which hold no private key, and the encrypted bundles                    *)
(* (services/bundler), which hold them; with the commands that lean on     *)
(* them: a key added, a key purged, and the key root moved to another      *)
(* directory of ~/.ssh.                                                    *)
(*                                                                         *)
(*   purge    backup -> snapshot -> delete -> unrecord -> rmPriv -> rmPub  *)
(*   add      snapshot -> mint                                             *)
(*   move     snapshot -> rename -> manifest -> records -> render          *)
(*   bundle   backup                                                       *)
(*   unbundle snapshot -> open -> lay ... -> render                        *)
(*   restore  snapshot -> lay ...                                          *)
(*                                                                         *)
(* Every command holds the advisory lock, so one runs at a time. Any step  *)
(* may fail, and the process may die between two of them. The clock does   *)
(* not go backwards, so the oldest file of a list is the first made.       *)
(***************************************************************************)
EXTENDS Naturals, Sequences, FiniteSets

CONSTANTS
    Slot,       \* paths of key pairs below the key root, numbered as they sort
    Root,       \* directories of ~/.ssh that may be the key root, likewise
    Default,    \* the one it is when the manifest names none
    Key,        \* key pairs
    Locked,     \* those of them with a passphrase
    None,
    Retain,     \* snapshots that are kept
    MaxOps,     \* commands run, at most
    MaxDist,    \* bundles made, at most
    MaxTroubles \* failures and deaths, at most

ASSUME ArchivesAssumption ==
    /\ Slot \subseteq Nat /\ Root \subseteq Nat
    /\ Default \in Root /\ Locked \subseteq Key
    /\ None \notin Key \cup Root \cup Slot
    /\ Retain \in Nat \ {0}
    /\ MaxOps \in Nat /\ MaxDist \in Nat /\ MaxTroubles \in Nat

VARIABLES
    priv, pub,  \* the halves on disk, by directory and path
    dirs,       \* which of the directories exist
    config,     \* the key root that ~/.ssh/config names, or None
    manifest,   \* manifest.json: the key root, and the keys it declares
    inv,        \* inventory.json: which key is recorded where
    snaps,      \* the snapshots, oldest first
    dist,       \* the bundles, oldest first
    op,         \* the command that holds the lock
    torn,       \* pairs that a bundle laid down in part, or holding half of
                \* one, has split
    astray,     \* what a command cut short, or a restore of part of the home,
                \* left disagreeing with the manifest
    ops, troubles

sshVars == <<priv, pub, dirs, config>>
homeVars == <<sshVars, manifest, inv>>
archiveVars == <<snaps, dist>>
bounds == <<ops, troubles>>
archivesVars == <<homeVars, archiveVars, op, torn, astray, bounds>>

Places == Root \X Slot
Halves == [Places -> Key \cup {None}]
Manifests == [root : Root, keys : SUBSET Slot]
Records == [key : Key, root : Root, slot : Slot]
\* What a snapshot may hold (archivable): no private key.
Files == [config : Root \cup {None}, pub : Halves, dirs : SUBSET Root]
Pairs == [priv : [Slot -> Key \cup {None}], pub : [Slot -> Key \cup {None}]]

Now == [config |-> config, pub |-> pub, dirs |-> dirs]
NoPub == [x \in Places |-> None]

Idle == [kind |-> "none", at |-> "idle", slot |-> None, from |-> None, to |-> None,
         wanted |-> None, source |-> None, before |-> None, left |-> {}]

\* ~/.ssh of a home in use: its keys are under the key root, with their records.
Init ==
    /\ \E root \in Root, key \in [Slot -> Key \cup {None}] :
          LET there == {s \in Slot : key[s] # None} IN
          /\ \A s, t \in there : key[s] = key[t] => s = t
          /\ there # {}
          /\ priv = [x \in Places |-> IF x[1] = root THEN key[x[2]] ELSE None]
          /\ manifest = [root |-> root, keys |-> there]
          /\ inv = {[key |-> key[s], root |-> root, slot |-> s] : s \in there}
          /\ config = root
          /\ dirs = {root}
    /\ pub = priv
    /\ snaps = <<>> /\ dist = <<>>
    /\ op = Idle
    /\ torn = {} /\ astray = {}
    /\ ops = 0 /\ troubles = 0

Used == {priv[x] : x \in Places} \cup {pub[x] : x \in Places} \cup {r.key : r \in inv}
           \cup UNION {{snaps[i].files.pub[x] : x \in Places} : i \in DOMAIN snaps}
           \cup UNION {{dist[i].pairs.priv[s] : s \in Slot} : i \in DOMAIN dist}

Go(at) == op' = [op EXCEPT !.at = at]
End == op' = Idle
Troubled == troubles < MaxTroubles /\ troubles' = troubles + 1

Begin(command) ==
    /\ op.kind = "none" /\ ops < MaxOps
    /\ ops' = ops + 1
    /\ op' = command
    /\ UNCHANGED <<homeVars, archiveVars, torn, astray, troubles>>

-----------------------------------------------------------------------------
(* Snapshots                                                               *)

AfterSnapshot(kind) ==
    CASE kind = "add" -> "mint" [] kind = "purge" -> "delete" [] kind = "move" -> "rename"
      [] kind = "unbundle" -> "open" [] kind = "restore" -> "lay"

\* The guard notes that no snapshot could be made and goes on; a restore stops.
AfterFailedSnapshot(kind) == IF kind = "restore" THEN "idle" ELSE AfterSnapshot(kind)

\* prune and Prune: the oldest go, whole or not.
Pruned(list, keep) ==
    SubSeq(list, IF Len(list) > keep THEN Len(list) - keep + 1 ELSE 1, Len(list))

\* The archive is written where it will stay.
OpenSnapshot ==
    /\ op.at = "snapshot"
    /\ snaps' = Append(snaps, [whole |-> FALSE, files |-> Now])
    /\ Go("archive")
    /\ UNCHANGED <<homeVars, dist, torn, astray, bounds>>

CloseSnapshot ==
    /\ op.at = "archive"
    /\ snaps' = Pruned([snaps EXCEPT ![Len(snaps)].whole = TRUE], Retain)
    /\ Go(AfterSnapshot(op.kind))
    /\ UNCHANGED <<homeVars, dist, torn, astray, bounds>>

\* A file that cannot be read or written: what there is of the archive stays.
SnapshotFails ==
    /\ op.at = "archive" /\ Troubled
    /\ IF AfterFailedSnapshot(op.kind) = "idle" THEN End ELSE Go(AfterFailedSnapshot(op.kind))
    /\ UNCHANGED <<homeVars, archiveVars, torn, astray, ops>>

PruneSnapshots(keep) ==
    /\ op.kind = "none" /\ ops < MaxOps /\ snaps # <<>>
    /\ ops' = ops + 1
    /\ snaps' = Pruned(snaps, keep)
    /\ UNCHANGED <<homeVars, dist, op, torn, astray, troubles>>

\* The members of an archive: what the walk that wrote it found.
Members(files) ==
    {<<"config", None, None>> : x \in {files.config} \ {None}}
        \cup {<<"dir", r, None>> : r \in files.dirs}
        \cup {<<"pub", x[1], x[2]>> :
                   x \in {y \in Places : y[1] \in files.dirs /\ files.pub[y] # None}}

\* They are read back in the order of that walk.
Precedes(m, n) ==
    \/ m[1] = "config"
    \/ /\ "config" \notin {m[1], n[1]}
       /\ \/ m[2] < n[2]
          \/ m[2] = n[2] /\ (m[1] = "dir" \/ ({m[1], n[1]} = {"pub"} /\ m[3] < n[3]))

NextFile(m) == m \in op.left /\ \A n \in op.left \ {m} : Precedes(m, n)

\* restoreByID: the archive it picks is copied out of reach of the pruning
\* that the snapshot taken before the restore brings.
StartRestore(i) ==
    /\ i \in DOMAIN snaps
    /\ Begin([Idle EXCEPT !.kind = "restore", !.at = "snapshot", !.wanted = snaps[i],
                     !.source = snaps[i], !.before = Now,
                     !.left = Members(snaps[i].files)])

\* Mutant of Source: the newest archive is looked for after the snapshot.
Source_Newest == snaps[Len(snaps)]

Source == op.source

\* Mutant of Foreign: whatever the archive holds is laid down.
Foreign_Never(r, s, want) == FALSE

\* foreignPub: the public key belongs to another private key than the one on
\* disk. One with a passphrase does not tell, so its own must be there already.
Foreign(r, s, want) ==
    /\ priv[<<r, s>>] # None
    /\ pub[<<r, s>>] # want
    /\ priv[<<r, s>>] # want \/ priv[<<r, s>>] \in Locked

\* A truncated archive is found out before anything is written.
RefuseArchive ==
    /\ op.kind = "restore" /\ op.at = "lay" /\ ~Source.whole
    /\ End
    /\ UNCHANGED <<homeVars, archiveVars, torn, astray, bounds>>

\* The keys moved since: the config that comes back names where they were.
Strayed(root) == IF root = manifest.root THEN {} ELSE {"config"}

LayFile(m) ==
    /\ op.kind = "restore" /\ op.at = "lay" /\ Source.whole /\ NextFile(m)
    /\ LET r == m[2]
           s == m[3]
           files == Source.files IN
       /\ config' = IF m[1] = "config" THEN files.config ELSE config
       /\ astray' = IF m[1] = "config" THEN (astray \ {"config"}) \cup Strayed(files.config)
                                       ELSE astray
       /\ dirs' = IF m[1] = "config" THEN dirs ELSE dirs \cup {r}
       /\ pub' = IF m[1] # "pub" \/ Foreign(r, s, files.pub[<<r, s>>]) THEN pub
                 ELSE [pub EXCEPT ![<<r, s>>] = files.pub[<<r, s>>]]
    /\ op' = [op EXCEPT !.left = @ \ {m}]
    /\ UNCHANGED <<priv, manifest, inv, archiveVars, torn, bounds>>

\* A file is removed before it is written again: a restore cut there leaves none.
LayFileCut(m) ==
    /\ op.kind = "restore" /\ op.at = "lay" /\ Source.whole /\ NextFile(m) /\ Troubled
    /\ LET x == <<m[2], m[3]>> IN
       /\ m[1] # "dir"
       /\ config' = IF m[1] = "config" THEN None ELSE config
       /\ pub' = IF m[1] # "pub" \/ Foreign(m[2], m[3], Source.files.pub[x]) THEN pub
                 ELSE [pub EXCEPT ![x] = None]
    /\ End
    /\ UNCHANGED <<priv, dirs, manifest, inv, archiveVars, torn, astray, ops>>

RestoreDone ==
    /\ op.kind = "restore" /\ op.at = "lay" /\ Source.whole /\ op.left = {}
    /\ End
    /\ UNCHANGED <<homeVars, archiveVars, torn, astray, bounds>>

-----------------------------------------------------------------------------
(* Bundles                                                                 *)

\* BackupBeforeDestroying does not say where the keys are (WithKeyRoot): its
\* bundle is of the default key root, whichever the manifest names.
BundledRoot(kind) == IF kind = "purge" THEN Default ELSE manifest.root

Bundle(root) ==
    [whole |-> TRUE, manifest |-> manifest, inv |-> inv,
     pairs |-> [priv |-> [s \in Slot |-> priv[<<root, s>>]],
                pub |-> [s \in Slot |-> pub[<<root, s>>]]]]

StartBundle == Len(dist) < MaxDist /\ Begin([Idle EXCEPT !.kind = "bundle", !.at = "backup"])

\* A bundle takes a name nothing has, and is written where it will stay.
OpenBundle ==
    /\ op.at = "backup"
    /\ dist' = Append(dist, [Bundle(BundledRoot(op.kind)) EXCEPT !.whole = FALSE])
    /\ Go("encrypt")
    /\ UNCHANGED <<homeVars, snaps, torn, astray, bounds>>

\* bundle --keep removes the oldest bundles once the new one is written.
CloseBundle(keep) ==
    /\ op.at = "encrypt"
    /\ LET written == [dist EXCEPT ![Len(dist)].whole = TRUE] IN
       IF op.kind = "purge"
       THEN dist' = written /\ Go("snapshot")
       ELSE dist' = Pruned(written, keep) /\ End
    /\ UNCHANGED <<homeVars, snaps, torn, astray, bounds>>

\* Mutant of AfterFailedBundle: the purge goes on without its backup.
AfterFailedBundle_GoesOn == IF op.kind = "purge" THEN "snapshot" ELSE "idle"

AfterFailedBundle == "idle"

\* age failed, or there is none: the half-written bundle is removed.
BundleFails ==
    /\ op.at = "encrypt" /\ Troubled
    /\ dist' = SubSeq(dist, 1, Len(dist) - 1)
    /\ IF AfterFailedBundle = "idle" THEN End ELSE Go(AfterFailedBundle)
    /\ UNCHANGED <<homeVars, snaps, torn, astray, ops>>

\* What a bundle holds.
BundleMembers(b) ==
    {<<"inventory", None>>, <<"manifest", None>>}
        \cup {<<"priv", s>> : s \in {t \in Slot : b.pairs.priv[t] # None}}
        \cup {<<"pub", s>> : s \in {t \in Slot : b.pairs.pub[t] # None}}

\* It is laid down in the order it was packed in: the private half of a pair first.
PackedBefore(m, n) ==
    \/ m[1] = "inventory"
    \/ m[1] = "manifest" /\ n[1] # "inventory"
    \/ {m[1], n[1]} \subseteq {"priv", "pub"} /\ (m[2] < n[2] \/ (m[2] = n[2] /\ m[1] = "priv"))

NextMember(m) == m \in op.left /\ \A n \in op.left \ {m} : PackedBefore(m, n)

StartUnbundle(i) ==
    /\ i \in DOMAIN dist
    /\ Begin([Idle EXCEPT !.kind = "unbundle", !.at = "snapshot", !.source = dist[i]])

\* restoreKeyRoot: the keys go where the manifest that comes with them says.
RestoreRoot(b) == b.manifest.root

\* Restore reads the whole bundle before it writes: a bundle cut short, which
\* does not decrypt, changes nothing.
OpenArchive ==
    /\ op.at = "open"
    /\ IF op.source.whole
       THEN op' = [op EXCEPT !.at = "lay", !.to = RestoreRoot(op.source),
                             !.left = BundleMembers(op.source)]
       ELSE End
    /\ UNCHANGED <<homeVars, archiveVars, torn, astray, bounds>>

LayMember(m) ==
    /\ op.kind = "unbundle" /\ op.at = "lay" /\ NextMember(m)
    /\ LET b == op.source
           x == <<op.to, m[2]>> IN
       /\ inv' = IF m[1] = "inventory" THEN b.inv ELSE inv
       /\ manifest' = IF m[1] = "manifest" THEN b.manifest ELSE manifest
       /\ priv' = IF m[1] = "priv" THEN [priv EXCEPT ![x] = b.pairs.priv[m[2]]] ELSE priv
       /\ pub' = IF m[1] = "pub" THEN [pub EXCEPT ![x] = b.pairs.pub[m[2]]] ELSE pub
       /\ dirs' = IF m[1] \in {"priv", "pub"} THEN dirs \cup {op.to} ELSE dirs
       /\ torn' = {y \in Places : None \notin {priv'[y], pub'[y]} /\ priv'[y] # pub'[y]}
    /\ op' = [op EXCEPT !.left = @ \ {m}, !.at = IF op.left = {m} THEN "render" ELSE "lay"]
    /\ astray' = {"records", "config"}
    /\ UNCHANGED <<config, archiveVars, bounds>>

LayMemberFails ==
    /\ op.kind = "unbundle" /\ op.at = "lay" /\ Troubled
    /\ End
    /\ UNCHANGED <<homeVars, archiveVars, torn, astray, ops>>

\* The bundle holds every key that its inventory knows.
Sound(b) ==
    \A r \in b.inv : r.root = b.manifest.root /\ b.pairs.priv[r.slot] = r.key

-----------------------------------------------------------------------------
(* The commands                                                            *)

StartAdd(s) ==
    /\ Key \ Used # {}
    /\ Begin([Idle EXCEPT !.kind = "add", !.at = "snapshot", !.slot = s])

Without(records, x) == {r \in records : <<r.root, r.slot>> # x}

\* key add: the key is declared, and minted unless there is one. The run of
\* the reconciler that mints it is the module Reconcile.
Mint ==
    /\ op.at = "mint"
    /\ LET x == <<manifest.root, op.slot>>
           there == IF pub[x] # None THEN pub[x] ELSE priv[x]
           record(k) == {[key |-> k, root |-> x[1], slot |-> x[2]]} IN
       IF priv[x] = None
       THEN \E k \in Key \ Used :
               /\ priv' = [priv EXCEPT ![x] = k]
               /\ pub' = [pub EXCEPT ![x] = k]
               /\ inv' = inv \cup record(k)
               /\ torn' = torn \ {x}
       ELSE /\ inv' = IF \E r \in inv : r.key = there \/ <<r.root, r.slot>> = x THEN inv
                      ELSE inv \cup record(there)
            /\ UNCHANGED <<priv, pub, torn>>
    /\ manifest' = [manifest EXCEPT !.keys = @ \cup {op.slot}]
    /\ dirs' = dirs \cup {manifest.root}
    /\ End
    /\ UNCHANGED <<config, archiveVars, astray, bounds>>

StartPurge(s) ==
    /\ s \in manifest.keys /\ Len(dist) < MaxDist
    /\ Begin([Idle EXCEPT !.kind = "purge", !.at = "backup", !.slot = s, !.from = manifest.root])

\* DeleteKey: the manifest, then the inventory.
Delete ==
    /\ op.at = "delete"
    /\ manifest' = [manifest EXCEPT !.keys = @ \ {op.slot}]
    /\ Go("unrecord")
    /\ UNCHANGED <<sshVars, inv, archiveVars, torn, astray, bounds>>

Unrecord ==
    /\ op.at = "unrecord"
    /\ inv' = Without(inv, <<op.from, op.slot>>)
    /\ Go("rmPriv")
    /\ UNCHANGED <<sshVars, manifest, archiveVars, torn, astray, bounds>>

\* purgeOrKeep, last: the private key, and then the public one.
RemovePriv ==
    /\ op.at = "rmPriv"
    /\ priv' = [priv EXCEPT ![<<op.from, op.slot>>] = None]
    /\ Go("rmPub")
    /\ UNCHANGED <<pub, dirs, config, manifest, inv, archiveVars, torn, astray, bounds>>

RemovePub ==
    /\ op.at = "rmPub"
    /\ pub' = [pub EXCEPT ![<<op.from, op.slot>>] = None]
    /\ End
    /\ UNCHANGED <<priv, dirs, config, manifest, inv, archiveVars, torn, astray, bounds>>

\* A save or a removal that fails ends the purge where it is.
PurgeFails ==
    /\ op.at \in {"delete", "unrecord", "rmPriv", "rmPub"} /\ Troubled
    /\ End
    /\ UNCHANGED <<homeVars, archiveVars, torn, astray, ops>>

StartMove(root) ==
    /\ root # manifest.root
    /\ Begin([Idle EXCEPT !.kind = "move", !.at = "snapshot", !.from = manifest.root, !.to = root])

\* The tree of one directory becomes that of another.
Renamed(half, from, to) ==
    [x \in Places |-> CASE x[1] = to -> half[<<from, x[2]>>] [] x[1] = from -> None
                        [] OTHER -> half[x]]

RenameTree(from, to) ==
    /\ priv' = Renamed(priv, from, to)
    /\ pub' = Renamed(pub, from, to)
    /\ dirs' = (dirs \ {from}) \cup {to}
    /\ torn' = {IF x[1] = from THEN <<to, x[2]>> ELSE x : x \in torn}

\* Both directories there is refused; only the new one, moved by hand.
MoveTree ==
    /\ op.at = "rename"
    /\ IF {op.from, op.to} \subseteq dirs
       THEN End /\ UNCHANGED <<priv, pub, dirs, torn>>
       ELSE /\ op' = [op EXCEPT !.at = "manifest", !.source = op.from \in dirs]
            /\ IF op.from \in dirs THEN RenameTree(op.from, op.to)
               ELSE UNCHANGED <<priv, pub, dirs, torn>>
    /\ UNCHANGED <<config, manifest, inv, archiveVars, astray, bounds>>

SaveRoot ==
    /\ op.at = "manifest"
    /\ manifest' = [manifest EXCEPT !.root = op.to]
    /\ Go("records")
    /\ UNCHANGED <<sshVars, inv, archiveVars, torn, astray, bounds>>

PutBack == IF op.source THEN RenameTree(op.to, op.from) ELSE UNCHANGED <<priv, pub, dirs, torn>>

SaveRootFails ==
    /\ op.at = "manifest" /\ Troubled
    /\ PutBack
    /\ End
    /\ UNCHANGED <<config, manifest, inv, archiveVars, astray, ops>>

MovedRecords == {IF r.root = op.from THEN [r EXCEPT !.root = op.to] ELSE r : r \in inv}

SaveRecords ==
    /\ op.at = "records"
    /\ inv' = MovedRecords
    /\ Go("render")
    /\ UNCHANGED <<sshVars, manifest, archiveVars, torn, astray, bounds>>

\* The manifest names the new directory by now, and a rerun has nothing to do.
SaveRecordsFails ==
    /\ op.at = "records" /\ Troubled
    /\ astray' = astray \cup {"records", "config"}
    /\ End
    /\ UNCHANGED <<homeVars, archiveVars, torn, ops>>

\* The last step of a move and of a bundle restore (FinishRestore).
Render ==
    /\ op.at = "render"
    /\ config' = manifest.root
    /\ dirs' = dirs \cup {manifest.root}
    /\ astray' = (astray \ {"config"})
                    \ (IF op.kind = "unbundle" /\ Sound(op.source) THEN {"records"} ELSE {})
    /\ End
    /\ UNCHANGED <<priv, pub, manifest, inv, archiveVars, torn, bounds>>

RenderFails ==
    /\ op.at = "render" /\ Troubled
    /\ astray' = astray \cup {"config"}
    /\ End
    /\ UNCHANGED <<homeVars, archiveVars, torn, ops>>

Crash ==
    /\ op.kind # "none" /\ Troubled
    /\ End
    /\ astray' = astray \cup (IF op.at \in {"manifest", "records", "render"}
                              THEN {"records", "config"} ELSE {})
    /\ UNCHANGED <<homeVars, archiveVars, torn, ops>>

-----------------------------------------------------------------------------
(* The specification                                                       *)

\* No more commands are run.
Rest == op.kind = "none" /\ ops = MaxOps /\ UNCHANGED archivesVars

Next ==
    \/ Rest
    \/ OpenSnapshot \/ CloseSnapshot \/ SnapshotFails
    \/ \E keep \in 0..Retain : PruneSnapshots(keep)
    \/ \E i \in DOMAIN snaps : StartRestore(i)
    \/ \E m \in op.left : LayFile(m) \/ LayFileCut(m) \/ LayMember(m)
    \/ RefuseArchive \/ RestoreDone
    \/ StartBundle \/ OpenBundle \/ BundleFails
    \/ \E keep \in 1..MaxDist : CloseBundle(keep)
    \/ \E i \in DOMAIN dist : StartUnbundle(i)
    \/ OpenArchive \/ LayMemberFails
    \/ \E s \in Slot : StartAdd(s) \/ StartPurge(s)
    \/ Mint \/ Delete \/ Unrecord \/ RemovePriv \/ RemovePub \/ PurgeFails
    \/ \E root \in Root : StartMove(root)
    \/ MoveTree \/ SaveRoot \/ SaveRootFails \/ SaveRecords \/ SaveRecordsFails
    \/ Render \/ RenderFails
    \/ Crash

ArchivesSpec == Init /\ [][Next]_archivesVars

-----------------------------------------------------------------------------
(* Properties                                                              *)

Snapshots == [whole : BOOLEAN, files : Files]
Bundles == [whole : BOOLEAN, manifest : Manifests, inv : SUBSET Records, pairs : Pairs]
Kinds == {"none", "add", "purge", "move", "bundle", "unbundle", "restore"}

(***************************************************************************)
(* Types, and no more snapshots than are kept but for what failures left   *)
(* (prune).                                                                *)
(***************************************************************************)
ArchivesTypeOK ==
    /\ priv \in Halves /\ pub \in Halves
    /\ dirs \subseteq Root /\ config \in Root \cup {None}
    /\ manifest \in Manifests /\ inv \subseteq Records
    /\ \A i \in DOMAIN snaps : snaps[i].files \in Files
    /\ Len(snaps) <= Retain + troubles + 1
    /\ \A i \in DOMAIN dist : dist[i].pairs \in Pairs /\ dist[i].manifest \in Manifests
    /\ op.kind \in Kinds /\ (op.kind = "none" <=> op.at = "idle")
    /\ torn \subseteq Places /\ astray \subseteq {"records", "config"}

(***************************************************************************)
(* No restore of a snapshot, whole or cut short, puts a public key beside  *)
(* a private key it does not belong to: only a bundle cut between the      *)
(* halves of a pair, or made between them, does (foreignPub, layDown).     *)
(***************************************************************************)
PairsBelong ==
    \A x \in Places \ torn :
        priv[x] # None /\ pub[x] # None => priv[x] = pub[x]

(***************************************************************************)
(* From the first file a restore writes, the newest snapshot is a whole    *)
(* one of ~/.ssh as it was before (restoreByID: "so the restore is itself  *)
(* reversible"), whatever pruning and failures came between.               *)
(***************************************************************************)
RestoreIsReversible ==
    op.kind = "restore" /\ op.at = "lay" =>
        snaps # <<>> /\ snaps[Len(snaps)] = [whole |-> TRUE, files |-> op.before]

(***************************************************************************)
(* A restore that succeeds brings back the snapshot that was asked for,    *)
(* though the one taken on the way may have pushed it out: its config, and *)
(* every public key in it but those of a private key that is gone          *)
(* (RestoreByIDIn).                                                        *)
(***************************************************************************)
RestoreBringsBack ==
    [][RestoreDone =>
          /\ op.wanted.whole
          /\ op.wanted.files.config # None => config = op.wanted.files.config
          /\ \A x \in Places :
                LET want == op.wanted.files.pub[x] IN
                want # None => pub[x] = want \/ (priv[x] # None /\ (priv[x] # want \/ priv[x] \in Locked))]_archivesVars

(***************************************************************************)
(* Between commands, the manifest, the inventory, the config and the tree  *)
(* agree on where the keys are: a record names a key that is there, below  *)
(* the key root, and so does the config. What a crash, a save that failed  *)
(* after the rename, a split pair or a restore of an older config left is  *)
(* excepted (MoveKeyRoot: any failure after the rename puts the tree       *)
(* back).                                                                  *)
(***************************************************************************)
KeysAreWhereTheManifestSays ==
    op.kind = "none" =>
        /\ "records" \notin astray =>
              \A r \in inv :
                 /\ r.root = manifest.root
                 /\ <<r.root, r.slot>> \in torn \/ priv[<<r.root, r.slot>>] = r.key
        /\ "config" \notin astray => config \in {None, manifest.root}

(***************************************************************************)
(* Both: every pair is whole, and where the records look for it.           *)
(***************************************************************************)
KeysAreInPlace == PairsBelong /\ KeysAreWhereTheManifestSays

(***************************************************************************)
(* A bundle restore that ends leaves every key of the bundle, pair by      *)
(* pair, where the manifest that came with it looks for it, whatever key   *)
(* root this home had and whatever an earlier restore cut short left       *)
(* (layDown, restoreKeyRoot).                                              *)
(***************************************************************************)
RestoredKeysAreInPlace ==
    [][Render /\ op.kind = "unbundle" =>
          \A s \in Slot :
              LET pairs == op.source.pairs
                  x == <<manifest.root, s>> IN
              /\ pairs.priv[s] # None => priv[x] = pairs.priv[s]
              /\ pairs.pub[s] # None => pub[x] = pairs.pub[s]]_archivesVars

(***************************************************************************)
(* A restore that ends well has brought back what was archived, and one    *)
(* that begins can be undone, cut short or not.                            *)
(***************************************************************************)
RestoresDeliver == []RestoreIsReversible /\ RestoreBringsBack /\ RestoredKeysAreInPlace

Saved(k) == \E i \in DOMAIN dist : dist[i].whole /\ \E s \in Slot : dist[i].pairs.priv[s] = k

(***************************************************************************)
(* With the key root the default one, a purge removes no private key that  *)
(* a whole bundle does not hold (BackupBeforeDestroying).                  *)
(***************************************************************************)
PurgedKeyIsBackedUp ==
    [][RemovePriv /\ op.from = Default =>
          LET k == priv[<<op.from, op.slot>>] IN k # None => Saved(k)]_archivesVars

(***************************************************************************)
(* "BackupBeforeDestroying writes an age-encrypted bundle so an operation  *)
(* that destroys key material stays recoverable" (bundler/backup.go:16),   *)
(* whatever the key root.                                                  *)
(***************************************************************************)
DestroyedKeyIsBackedUp ==
    [][RemovePriv =>
          LET k == priv[<<op.from, op.slot>>] IN k # None => Saved(k)]_archivesVars
=============================================================================
