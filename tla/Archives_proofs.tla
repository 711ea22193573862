-------------------------- MODULE Archives_proofs ---------------------------
(***************************************************************************)
(* Proofs about Archives, for any key pairs, directories, bounds and       *)
(* number of commands: pairs stay whole and where the records look for     *)
(* them, a restore delivers and can be undone, and a purged key is in a    *)
(* bundle.                                                                 *)
(*                                                                         *)
(* The steps fall into those that touch the home, one case each, and four  *)
(* groups that do not: Starts, Opens, Stops and Prunes. What each group    *)
(* does to the command and to the marks of what was cut short is a lemma,  *)
(* and every part of the invariant is kept for its own reasons.            *)
(***************************************************************************)
EXTENDS Archives, SequenceTheorems, TLAPS

(***************************************************************************)
(* The inductive invariant                                                 *)
(***************************************************************************)

\* A public key lies in a directory that is there, and the walk finds it.
Fit(files) == \A x \in Places : files.pub[x] # None => x[1] \in files.dirs
FitSnapshots == {a \in Snapshots : Fit(a.files)}

\* What is left to lay down, of a snapshot or of a bundle.
LaidFiles == {"config", "dir", "pub"} \X (Root \cup {None}) \X (Slot \cup {None})
LaidMembers == {"inventory", "manifest", "priv", "pub"} \X (Slot \cup {None})

\* Where a command may be on its way.
OnWay(kind, at) ==
    \/ kind = "none" /\ at = "idle"
    \/ kind = "bundle" /\ at \in {"backup", "encrypt"}
    \/ kind = "add" /\ at \in {"snapshot", "archive", "mint"}
    \/ /\ kind = "purge"
       /\ at \in {"backup", "encrypt", "snapshot", "archive",
                 "delete", "unrecord", "rmPriv", "rmPub"}
    \/ /\ kind = "move"
       /\ at \in {"snapshot", "archive", "rename", "manifest", "records", "render"}
    \/ kind = "unbundle" /\ at \in {"snapshot", "archive", "open", "lay", "render"}
    \/ kind = "restore" /\ at \in {"snapshot", "archive", "lay"}
Ats == {"idle", "backup", "encrypt", "snapshot", "archive", "mint", "delete", "unrecord", "rmPriv",
        "rmPub", "rename", "manifest", "records", "render", "open", "lay"}

Commands ==
    [kind : Kinds, at : Ats, slot : Slot \cup {None},
     from : Root \cup {None}, to : Root \cup {None},
     wanted : Snapshots \cup {None}, source : Snapshots \cup Bundles \cup BOOLEAN \cup {None},
     before : Files \cup {None}, left : SUBSET (LaidFiles \cup LaidMembers)]

HomeTypeInv ==
    /\ priv \in Halves /\ pub \in Halves
    /\ dirs \subseteq Root /\ config \in Root \cup {None}
    /\ manifest \in Manifests /\ inv \subseteq Records
    /\ torn \subseteq Places /\ astray \subseteq {"records", "config"}

ListsTypeInv ==
    /\ snaps \in Seq(FitSnapshots) /\ dist \in Seq(Bundles)
    /\ ops \in Nat /\ troubles \in Nat
    /\ Len(snaps) <= Retain + troubles + (IF op.at = "archive" THEN 1 ELSE 0)
    /\ op.at = "archive" => snaps # <<>>
    /\ op.at = "encrypt" => dist # <<>>

\* What a command knows of what it works on.
OpInv ==
    /\ op \in Commands
    /\ OnWay(op.kind, op.at)
    /\ op.kind \in {"add", "purge"} => op.slot \in Slot
    /\ op.kind = "purge" => op.from = manifest.root
    /\ op.kind = "move" =>
          /\ op.from \in Root /\ op.to \in Root /\ op.from # op.to
          /\ manifest.root = IF op.at \in {"records", "render"} THEN op.to ELSE op.from
    /\ op.kind = "unbundle" =>
          /\ op.source \in Bundles
          /\ op.at \in {"lay", "render"} =>
                op.to = op.source.manifest.root /\ op.left \subseteq BundleMembers(op.source)
          /\ op.at = "render" => op.left = {}
    /\ op.kind = "restore" =>
          /\ op.source \in FitSnapshots /\ op.wanted = op.source
          /\ op.left \subseteq Members(op.source.files)

\* No half of a key lies where there is no directory.
DirsInv == \A x \in Places : (priv[x] # None => x[1] \in dirs) /\ (pub[x] # None => x[1] \in dirs)

\* Every record is of the key root from, and its key is in the directory to.
Recorded(from, to) ==
    \A r \in inv :
        /\ r.root = from
        /\ priv[<<to, r.slot>>] # None
        /\ <<to, r.slot>> \in torn \/ priv[<<to, r.slot>>] = r.key

\* A move is between the tree and the records.
Moving == op.kind = "move" /\ op.at \in {"manifest", "records"}

\* Where nothing was cut short, the records are of the keys that are there. A
\* directory that did not move was not there, and nor was a key of a record.
RecordsInv ==
    "records" \notin astray =>
        /\ ~Moving => Recorded(manifest.root, manifest.root)
        /\ Moving => \/ op.source = TRUE /\ Recorded(op.from, op.to)
                     \/ op.source = FALSE /\ inv = {}
        /\ op.kind = "purge" /\ op.at \in {"rmPriv", "rmPub"} =>
              \A r \in inv : r.slot # op.slot

\* and the config names the key root, until a move has it rendered.
ConfigInv ==
    "config" \notin astray /\ ~(op.kind = "move" /\ op.at \in {"records", "render"})
        => config \in {None, manifest.root}

\* A restore knows the home as it was, and what it has laid down lies there.
RestoreInv ==
    op.kind = "restore" =>
        /\ op.at \in {"snapshot", "archive"} =>
              op.before = Now /\ op.left = Members(op.source.files)
        /\ op.at = "archive" => snaps[Len(snaps)] = [whole |-> FALSE, files |-> Now]
        /\ op.at = "lay" =>
              /\ snaps # <<>> /\ snaps[Len(snaps)] = [whole |-> TRUE, files |-> op.before]
              /\ op.wanted.files.config # None /\ <<"config", None, None>> \notin op.left
                    => config = op.wanted.files.config
              /\ \A x \in Places :
                    LET want == op.wanted.files.pub[x] IN
                    want # None /\ <<"pub", x[1], x[2]>> \notin op.left =>
                        pub[x] = want \/ (priv[x] # None /\ (priv[x] # want \/ priv[x] \in Locked))

\* What a bundle restore has laid down lies there.
UnbundleInv ==
    op.kind = "unbundle" /\ op.at \in {"lay", "render"} =>
        /\ <<"inventory", None>> \notin op.left => inv = op.source.inv
        /\ <<"manifest", None>> \notin op.left => manifest = op.source.manifest
        /\ \A s \in Slot :
              LET pairs == op.source.pairs
                  x == <<op.to, s>> IN
              /\ pairs.priv[s] # None /\ <<"priv", s>> \notin op.left => priv[x] = pairs.priv[s]
              /\ pairs.pub[s] # None /\ <<"pub", s>> \notin op.left => pub[x] = pairs.pub[s]

\* A purge has a bundle with the key it is to remove.
PurgeInv ==
    op.kind = "purge" /\ op.from = Default =>
        LET k == priv[<<Default, op.slot>>] IN
        /\ op.at = "encrypt" => dist[Len(dist)].pairs.priv[op.slot] = k
        /\ op.at \notin {"backup", "encrypt", "rmPub"} /\ k # None => Saved(k)

IInv ==
    /\ HomeTypeInv /\ ListsTypeInv /\ OpInv
    /\ PairsBelong /\ DirsInv /\ RecordsInv /\ ConfigInv
    /\ RestoreInv /\ UnbundleInv /\ PurgeInv

-----------------------------------------------------------------------------
(* The steps, by what they touch.                                          *)
Starts ==
    \/ \E i \in DOMAIN snaps : StartRestore(i)
    \/ StartBundle
    \/ \E i \in DOMAIN dist : StartUnbundle(i)
    \/ \E s \in Slot : StartAdd(s) \/ StartPurge(s)
    \/ \E root \in Root : StartMove(root)

Opens ==
    \/ OpenSnapshot \/ CloseSnapshot \/ SnapshotFails
    \/ OpenBundle \/ BundleFails \/ \E keep \in 1..MaxDist : CloseBundle(keep)
    \/ OpenArchive

Stops ==
    \/ RefuseArchive \/ RestoreDone \/ LayMemberFails
    \/ PurgeFails \/ SaveRecordsFails \/ RenderFails \/ Crash

Prunes == Rest \/ (\E keep \in 0..Retain : PruneSnapshots(keep)) \/ UNCHANGED archivesVars

Lays == \E m \in op.left : LayFile(m) \/ LayFileCut(m) \/ LayMember(m)
Purges == Delete \/ Unrecord \/ RemovePriv \/ RemovePub
Moves == MoveTree \/ SaveRoot \/ SaveRootFails \/ SaveRecords \/ Render

\* Every step is one of these.
LEMMA StepKinds ==
    ASSUME [Next]_archivesVars
    PROVE  Starts \/ Opens \/ Stops \/ Prunes \/ Lays \/ Mint \/ Purges \/ Moves
BY DEF Next, Starts, Opens, Stops, Prunes, Lays, Purges, Moves

-----------------------------------------------------------------------------
(* The command that holds the lock.                                        *)

\* No command at all.
LEMMA IdleFacts ==
    /\ Idle \in Commands
    /\ Idle.kind = "none" /\ Idle.at = "idle" /\ Idle.left = {}
BY DEF Idle, Commands, Kinds, Ats

\* A command that goes on keeps what it knows.
LEMMA GoFacts ==
    ASSUME op \in Commands, NEW at \in Ats, Go(at)
    PROVE  /\ op' \in Commands /\ op'.kind = op.kind /\ op'.at = at
           /\ op'.slot = op.slot /\ op'.from = op.from /\ op'.to = op.to
           /\ op'.wanted = op.wanted /\ op'.source = op.source /\ op'.before = op.before
           /\ op'.left = op.left
BY DEF Go, Commands

\* What has begun knows what it works on, and that nothing else is under way.
LEMMA StartFacts ==
    ASSUME Starts, HomeTypeInv, ListsTypeInv
    PROVE  /\ op.kind = "none" /\ ops' = ops + 1
           /\ UNCHANGED <<homeVars, archiveVars, torn, astray, troubles>>
           /\ op' \in Commands /\ OnWay(op'.kind, op'.at) /\ op'.at \in {"snapshot", "backup"}
           /\ op'.kind \in {"add", "purge"} => op'.slot \in Slot
           /\ op'.kind = "purge" => op'.from = manifest.root /\ op'.at = "backup"
           /\ op'.kind = "move" =>
                 /\ op'.from = manifest.root /\ op'.to \in Root /\ op'.to # manifest.root
           /\ op'.kind = "unbundle" => op'.source \in Bundles
           /\ op'.kind = "restore" =>
                 /\ op'.source \in FitSnapshots /\ op'.wanted = op'.source
                 /\ op'.before = Now /\ op'.left = Members(op'.source.files)
<1> USE ArchivesAssumption
<1>1. manifest.root \in Root /\ Now \in Files
  BY DEF HomeTypeInv, Manifests, Now, Files
<1>2. ASSUME NEW i \in DOMAIN snaps, StartRestore(i)
      PROVE  /\ op.kind = "none" /\ ops' = ops + 1
             /\ UNCHANGED <<homeVars, archiveVars, torn, astray, troubles>>
             /\ op' \in Commands /\ op'.kind = "restore" /\ op'.at = "snapshot"
             /\ op'.source \in FitSnapshots /\ op'.wanted = op'.source
             /\ op'.before = Now /\ op'.left = Members(op'.source.files)
  <2>1. snaps[i] \in FitSnapshots
    BY <1>2 DEF ListsTypeInv
  <2>2. Members(snaps[i].files) \subseteq LaidFiles
    BY <2>1 DEF FitSnapshots, Snapshots, Files, Members, LaidFiles, Places
  <2> DEFINE c == [Idle EXCEPT !.kind = "restore", !.at = "snapshot", !.wanted = snaps[i],
                               !.source = snaps[i], !.before = Now,
                               !.left = Members(snaps[i].files)]
  <2>3. /\ c \in Commands /\ c.kind = "restore" /\ c.at = "snapshot"
        /\ c.source = snaps[i] /\ c.wanted = snaps[i]
        /\ c.before = Now /\ c.left = Members(snaps[i].files)
    BY <1>1, <2>1, <2>2 DEF Idle, Commands, Kinds, Ats, FitSnapshots
  <2> HIDE DEF c
  <2>4. op' = c /\ op.kind = "none" /\ ops' = ops + 1
        /\ UNCHANGED <<homeVars, archiveVars, torn, astray, troubles>>
    BY <1>2 DEF StartRestore, Begin, c
  <2> QED  BY <2>1, <2>3, <2>4
<1>3. CASE StartBundle
  <2>1. op' = [Idle EXCEPT !.kind = "bundle", !.at = "backup"] /\ op.kind = "none"
        /\ ops' = ops + 1 /\ UNCHANGED <<homeVars, archiveVars, torn, astray, troubles>>
    BY <1>3 DEF StartBundle, Begin
  <2>2. op' \in Commands /\ op'.kind = "bundle" /\ op'.at = "backup"
    BY <2>1 DEF Idle, Commands, Kinds, Ats
  <2> QED  BY <2>1, <2>2 DEF OnWay
<1>4. ASSUME NEW i \in DOMAIN dist, StartUnbundle(i)
      PROVE  /\ op.kind = "none" /\ ops' = ops + 1
             /\ UNCHANGED <<homeVars, archiveVars, torn, astray, troubles>>
             /\ op' \in Commands /\ op'.kind = "unbundle" /\ op'.at = "snapshot"
             /\ op'.source \in Bundles
  <2>1. dist[i] \in Bundles
    BY <1>4 DEF ListsTypeInv
  <2>2. op' = [Idle EXCEPT !.kind = "unbundle", !.at = "snapshot", !.source = dist[i]]
        /\ op.kind = "none" /\ ops' = ops + 1
        /\ UNCHANGED <<homeVars, archiveVars, torn, astray, troubles>>
    BY <1>4 DEF StartUnbundle, Begin
  <2> QED  BY <2>1, <2>2 DEF Idle, Commands, Kinds, Ats
<1>5. ASSUME NEW s \in Slot, StartAdd(s)
      PROVE  /\ op.kind = "none" /\ ops' = ops + 1
             /\ UNCHANGED <<homeVars, archiveVars, torn, astray, troubles>>
             /\ op' \in Commands /\ op'.kind = "add" /\ op'.at = "snapshot" /\ op'.slot \in Slot
  <2>1. op' = [Idle EXCEPT !.kind = "add", !.at = "snapshot", !.slot = s]
        /\ op.kind = "none" /\ ops' = ops + 1
        /\ UNCHANGED <<homeVars, archiveVars, torn, astray, troubles>>
    BY <1>5 DEF StartAdd, Begin
  <2> QED  BY <2>1 DEF Idle, Commands, Kinds, Ats
<1>6. ASSUME NEW s \in Slot, StartPurge(s)
      PROVE  /\ op.kind = "none" /\ ops' = ops + 1
             /\ UNCHANGED <<homeVars, archiveVars, torn, astray, troubles>>
             /\ op' \in Commands /\ op'.kind = "purge" /\ op'.at = "backup" /\ op'.slot \in Slot
             /\ op'.from = manifest.root
  <2>1. op' = [Idle EXCEPT !.kind = "purge", !.at = "backup", !.slot = s,
                           !.from = manifest.root]
        /\ op.kind = "none" /\ ops' = ops + 1
        /\ UNCHANGED <<homeVars, archiveVars, torn, astray, troubles>>
    BY <1>6 DEF StartPurge, Begin
  <2> QED  BY <1>1, <2>1 DEF Idle, Commands, Kinds, Ats
<1>7. ASSUME NEW root \in Root, StartMove(root)
      PROVE  /\ op.kind = "none" /\ ops' = ops + 1
             /\ UNCHANGED <<homeVars, archiveVars, torn, astray, troubles>>
             /\ op' \in Commands /\ op'.kind = "move" /\ op'.at = "snapshot"
             /\ op'.from = manifest.root /\ op'.to \in Root /\ op'.to # manifest.root
  <2>1. op' = [Idle EXCEPT !.kind = "move", !.at = "snapshot", !.from = manifest.root,
                           !.to = root]
        /\ op.kind = "none" /\ ops' = ops + 1 /\ root # manifest.root
        /\ UNCHANGED <<homeVars, archiveVars, torn, astray, troubles>>
    BY <1>7 DEF StartMove, Begin
  <2> QED  BY <1>1, <2>1 DEF Idle, Commands, Kinds, Ats
<1>8. CASE \E i \in DOMAIN snaps : StartRestore(i)
  BY <1>2, <1>8 DEF OnWay
<1>9. CASE \E i \in DOMAIN dist : StartUnbundle(i)
  BY <1>4, <1>9 DEF OnWay
<1>10. CASE \E s \in Slot : StartAdd(s)
  BY <1>5, <1>10 DEF OnWay
<1>11. CASE \E s \in Slot : StartPurge(s)
  BY <1>6, <1>11 DEF OnWay
<1>12. CASE \E root \in Root : StartMove(root)
  BY <1>7, <1>12 DEF OnWay
<1> QED  BY <1>3, <1>8, <1>9, <1>10, <1>11, <1>12 DEF Starts

\* A command that stops leaves the home as it is. Between the tree of a move
\* and its records, or before the config is rendered, it leaves its mark.
LEMMA StopFacts ==
    ASSUME Stops, HomeTypeInv, OpInv
    PROVE  /\ op' = Idle
           /\ UNCHANGED <<homeVars, archiveVars, torn, ops>>
           /\ troubles' \in {troubles, troubles + 1}
           /\ op.at = "archive" => troubles' = troubles + 1
           /\ astray \subseteq astray' /\ astray' \subseteq {"records", "config"}
           /\ "records" \notin astray' => ~Moving
           /\ "config" \notin astray' => ~(op.kind = "move" /\ op.at \in {"records", "render"})
<1> USE DEF Troubled, End, HomeTypeInv, Moving, bounds
<1>1. CASE RefuseArchive
  BY <1>1 DEF RefuseArchive
<1>2. CASE RestoreDone
  BY <1>2 DEF RestoreDone
<1>3. CASE LayMemberFails
  BY <1>3 DEF LayMemberFails
<1>4. CASE PurgeFails
  BY <1>4 DEF PurgeFails
<1>5. CASE SaveRecordsFails
  BY <1>5 DEF SaveRecordsFails
<1>6. CASE RenderFails
  BY <1>6 DEF RenderFails
<1>7. CASE Crash
  BY <1>7 DEF Crash
<1> QED  BY <1>1, <1>2, <1>3, <1>4, <1>5, <1>6, <1>7 DEF Stops

\* What a command turns to once a snapshot was taken, or could not be.
LEMMA AfterSnapshotFacts ==
    ASSUME OpInv, op.at = "archive"
    PROVE  /\ op.kind # "none"
           /\ OnWay(op.kind, AfterSnapshot(op.kind))
           /\ AfterSnapshot(op.kind) \in {"mint", "delete", "rename", "open", "lay"}
           /\ AfterSnapshot(op.kind) = "lay" <=> op.kind = "restore"
           /\ AfterFailedSnapshot(op.kind) = "idle" <=> op.kind = "restore"
           /\ op.kind # "restore" => AfterFailedSnapshot(op.kind) = AfterSnapshot(op.kind)
<1>1. op.kind \in {"add", "purge", "move", "unbundle", "restore"}
  BY DEF OpInv, OnWay
<1> QED  BY <1>1 DEF OnWay, AfterSnapshot, AfterFailedSnapshot

\* Where a command that writes or reads an archive goes on.
Passes ==
    \/ op.at = "snapshot" /\ op'.at = "archive"
    \/ /\ op.at = "archive" /\ op'.at \in {"mint", "delete", "rename", "open", "lay"}
       /\ op'.at = "lay" <=> op.kind = "restore"
    \/ op.at = "backup" /\ op'.at = "encrypt"
    \/ op.at = "encrypt" /\ op'.at = "snapshot" /\ op.kind = "purge"
    \/ /\ op.at = "open" /\ op'.at = "lay" /\ op.kind = "unbundle"
       /\ op'.to = op.source.manifest.root /\ op'.left = BundleMembers(op.source)

\* A step at an archive touches nothing of the home: the command stops, or
\* goes on and knows what it did.
LEMMA OpensFacts ==
    ASSUME Opens, OpInv
    PROVE  /\ op.kind # "none"
           /\ UNCHANGED <<homeVars, torn, astray, ops>>
           /\ \/ op' = Idle
              \/ /\ op' \in Commands /\ OnWay(op'.kind, op'.at) /\ Passes
                 /\ op'.kind = op.kind /\ op'.slot = op.slot /\ op'.from = op.from
                 /\ op'.wanted = op.wanted /\ op'.source = op.source /\ op'.before = op.before
                 /\ op.at # "open" => op'.to = op.to /\ op'.left = op.left
<1>0. op \in Commands /\ OnWay(op.kind, op.at)
  BY DEF OpInv
<1>1. CASE OpenSnapshot
  <2>1. op.at = "snapshot" /\ Go("archive") /\ UNCHANGED <<homeVars, torn, astray, ops>>
    BY <1>1 DEF OpenSnapshot, bounds
  <2>2. op.kind # "none" /\ OnWay(op.kind, "archive")
    BY <1>0, <2>1 DEF OnWay
  <2> QED  BY <1>0, <2>1, <2>2, GoFacts DEF Ats, Passes
<1>2. CASE CloseSnapshot
  <2>1. op.at = "archive" /\ Go(AfterSnapshot(op.kind)) /\ UNCHANGED <<homeVars, torn, astray, ops>>
    BY <1>2 DEF CloseSnapshot, bounds
  <2> QED  BY <1>0, <2>1, GoFacts, AfterSnapshotFacts DEF Ats, Passes
<1>3. CASE SnapshotFails
  <2>1. /\ op.at = "archive" /\ UNCHANGED <<homeVars, torn, astray, ops>>
        /\ op' = Idle \/ (op.kind # "restore" /\ Go(AfterSnapshot(op.kind)))
    BY <1>3, AfterSnapshotFacts DEF SnapshotFails, End
  <2> QED  BY <1>0, <2>1, GoFacts, AfterSnapshotFacts DEF Ats, Passes
<1>4. CASE OpenBundle
  <2>1. op.at = "backup" /\ Go("encrypt") /\ UNCHANGED <<homeVars, torn, astray, ops>>
    BY <1>4 DEF OpenBundle, bounds
  <2>2. op.kind # "none" /\ OnWay(op.kind, "encrypt")
    BY <1>0, <2>1 DEF OnWay
  <2> QED  BY <1>0, <2>1, <2>2, GoFacts DEF Ats, Passes
<1>5. CASE BundleFails
  <2>1. op.at = "encrypt" /\ op' = Idle /\ UNCHANGED <<homeVars, torn, astray, ops>>
    BY <1>5 DEF BundleFails, AfterFailedBundle, End
  <2> QED  BY <1>0, <2>1 DEF OnWay
<1>6. ASSUME NEW keep \in 1..MaxDist, CloseBundle(keep)
      PROVE  /\ op.at = "encrypt" /\ UNCHANGED <<homeVars, torn, astray, ops>>
             /\ op' = Idle \/ (op.kind = "purge" /\ Go("snapshot"))
  BY <1>6 DEF CloseBundle, End, bounds
<1>7. CASE \E keep \in 1..MaxDist : CloseBundle(keep)
  <2>1. op.kind # "none" /\ (op.kind = "purge" => OnWay(op.kind, "snapshot"))
    BY <1>0, <1>6, <1>7 DEF OnWay
  <2> QED  BY <1>0, <1>6, <1>7, <2>1, GoFacts DEF Ats, Passes
<1>8. CASE OpenArchive
  <2>1. op.at = "open" /\ UNCHANGED <<homeVars, torn, astray, ops>>
    BY <1>8 DEF OpenArchive, bounds
  <2>2. op.kind = "unbundle"
    BY <1>0, <2>1 DEF OnWay
  <2>3. op.source \in Bundles
    BY <2>2 DEF OpInv
  <2> DEFINE root == RestoreRoot(op.source)
             members == BundleMembers(op.source)
  <2>4. root \in Root /\ root = op.source.manifest.root /\ members \subseteq LaidMembers
    BY <2>3 DEF RestoreRoot, Bundles, Manifests, BundleMembers, LaidMembers
  <2> HIDE DEF root, members
  <2>5. op' = Idle \/ op' = [op EXCEPT !.at = "lay", !.to = root, !.left = members]
    BY <1>8 DEF OpenArchive, End, root, members
  <2>6. CASE op' = [op EXCEPT !.at = "lay", !.to = root, !.left = members]
    <3>1. /\ op' \in Commands /\ op'.kind = op.kind /\ op'.slot = op.slot /\ op'.from = op.from
          /\ op'.wanted = op.wanted /\ op'.source = op.source /\ op'.before = op.before
          /\ op'.at = "lay" /\ op'.to = root /\ op'.left = members
      BY <1>0, <2>4, <2>6 DEF Commands, Ats
    <3>2. OnWay(op'.kind, op'.at)
      BY <2>2, <3>1 DEF OnWay
    <3> QED  BY <2>1, <2>2, <2>4, <3>1, <3>2 DEF Passes, members
  <2> QED  BY <2>1, <2>2, <2>5, <2>6
<1> QED  BY <1>1, <1>2, <1>3, <1>4, <1>5, <1>7, <1>8 DEF Opens

\* Pruning leaves the command and the home as they are.
LEMMA PrunesFacts ==
    ASSUME Prunes
    PROVE  /\ UNCHANGED <<homeVars, dist, op, torn, astray, troubles>>
           /\ ops' \in {ops, ops + 1}
           /\ snaps' = snaps \/ (op.kind = "none" /\ snaps # <<>>)
BY DEF Prunes, Rest, PruneSnapshots, archivesVars, archiveVars, bounds

-----------------------------------------------------------------------------
(* What is laid down.                                                      *)

\* A member of a snapshot is its config, a directory, or a public key in one.
LEMMA MemberFacts ==
    ASSUME OpInv, op.kind = "restore", NEW m \in op.left
    PROVE  LET files == op.source.files IN
           \/ m = <<"config", None, None>> /\ files.config \in Root
           \/ \E r \in Root : m = <<"dir", r, None>>
           \/ \E r \in Root, s \in Slot :
                 m = <<"pub", r, s>> /\ <<r, s>> \in Places /\ files.pub[<<r, s>>] \in Key
<1>1. op.source \in Snapshots /\ m \in Members(op.source.files)
  BY DEF OpInv, FitSnapshots
<1>2. op.source.files \in Files
  BY <1>1 DEF Snapshots
<1> DEFINE files == op.source.files
<1>3. /\ files.config \in Root \cup {None} /\ files.dirs \subseteq Root
      /\ \A x \in Places : files.pub[x] \in Key \cup {None}
  BY <1>2 DEF Files, Halves
<1> HIDE DEF files
<1>4. CASE m \in {<<"config", None, None>> : x \in {files.config} \ {None}}
  BY <1>3, <1>4 DEF files
<1>5. CASE m \in {<<"dir", r, None>> : r \in files.dirs}
  BY <1>3, <1>5
<1>6. CASE m \in {<<"pub", x[1], x[2]>> :
                      x \in {y \in Places : y[1] \in files.dirs /\ files.pub[y] # None}}
  <2>1. PICK x \in Places : files.pub[x] # None /\ m = <<"pub", x[1], x[2]>>
    BY <1>6
  <2>2. x[1] \in Root /\ x[2] \in Slot /\ x = <<x[1], x[2]>>
    BY DEF Places
  <2> QED  BY <1>3, <2>1, <2>2 DEF files
<1> QED  BY <1>1, <1>4, <1>5, <1>6 DEF Members, files

\* A file of a snapshot is laid down: nothing else of the home changes.
LEMMA LayFileFacts ==
    ASSUME OpInv, NEW m \in op.left, LayFile(m)
    PROVE  LET files == op.source.files IN
           /\ op.kind = "restore" /\ op.at = "lay" /\ op.source.whole
           /\ UNCHANGED <<priv, manifest, inv, archiveVars, torn, bounds>>
           /\ op' \in Commands /\ op'.left = op.left \ {m} /\ op'.at = "lay"
           /\ op'.kind = "restore" /\ op'.source = op.source /\ op'.wanted = op.wanted
           /\ op'.before = op.before
           /\ \/ /\ m = <<"config", None, None>> /\ files.config \in Root
                 /\ config' = files.config /\ UNCHANGED <<dirs, pub>>
                 /\ astray' = (astray \ {"config"}) \cup Strayed(files.config)
              \/ \E r \in Root :
                    /\ m = <<"dir", r, None>>
                    /\ dirs' = dirs \cup {r} /\ UNCHANGED <<config, astray, pub>>
              \/ \E r \in Root, s \in Slot :
                    /\ m = <<"pub", r, s>> /\ <<r, s>> \in Places
                    /\ files.pub[<<r, s>>] \in Key
                    /\ dirs' = dirs \cup {r} /\ UNCHANGED <<config, astray>>
                    /\ \/ Foreign(r, s, files.pub[<<r, s>>]) /\ pub' = pub
                       \/ /\ ~Foreign(r, s, files.pub[<<r, s>>])
                          /\ pub' = [pub EXCEPT ![<<r, s>>] = files.pub[<<r, s>>]]
<1> DEFINE files == op.source.files
<1>0. /\ op.kind = "restore" /\ op.at = "lay" /\ op.source.whole
      /\ UNCHANGED <<priv, manifest, inv, archiveVars, torn, bounds>>
      /\ op' = [op EXCEPT !.left = @ \ {m}]
  BY DEF LayFile, Source
<1>1. /\ op' \in Commands /\ op'.left = op.left \ {m} /\ op'.at = "lay"
      /\ op'.kind = "restore" /\ op'.source = op.source /\ op'.wanted = op.wanted
      /\ op'.before = op.before
  BY <1>0 DEF OpInv, Commands
<1>2. /\ config' = IF m[1] = "config" THEN files.config ELSE config
      /\ astray' = IF m[1] = "config" THEN (astray \ {"config"}) \cup Strayed(files.config)
                                      ELSE astray
      /\ dirs' = IF m[1] = "config" THEN dirs ELSE dirs \cup {m[2]}
      /\ pub' = IF m[1] # "pub" \/ Foreign(m[2], m[3], files.pub[<<m[2], m[3]>>]) THEN pub
                ELSE [pub EXCEPT ![<<m[2], m[3]>>] = files.pub[<<m[2], m[3]>>]]
  BY DEF LayFile, Source
<1> HIDE DEF files
<1>3. CASE m = <<"config", None, None>> /\ files.config \in Root
  BY <1>0, <1>1, <1>2, <1>3 DEF files
<1>4. ASSUME NEW r \in Root, m = <<"dir", r, None>>
      PROVE  dirs' = dirs \cup {r} /\ UNCHANGED <<config, astray, pub>>
  BY <1>2, <1>4
<1>5. ASSUME NEW r \in Root, NEW s \in Slot, m = <<"pub", r, s>>
      PROVE  /\ dirs' = dirs \cup {r} /\ UNCHANGED <<config, astray>>
             /\ \/ Foreign(r, s, files.pub[<<r, s>>]) /\ pub' = pub
                \/ /\ ~Foreign(r, s, files.pub[<<r, s>>])
                   /\ pub' = [pub EXCEPT ![<<r, s>>] = files.pub[<<r, s>>]]
  BY <1>2, <1>5
<1>6. \/ m = <<"config", None, None>> /\ files.config \in Root
      \/ \E r \in Root : m = <<"dir", r, None>>
      \/ \E r \in Root, s \in Slot :
            m = <<"pub", r, s>> /\ <<r, s>> \in Places /\ files.pub[<<r, s>>] \in Key
  BY <1>0, MemberFacts DEF files
<1>7. CASE \E r \in Root : m = <<"dir", r, None>>
  BY <1>0, <1>1, <1>4, <1>7 DEF files
<1>8. CASE \E r \in Root, s \in Slot :
             m = <<"pub", r, s>> /\ <<r, s>> \in Places /\ files.pub[<<r, s>>] \in Key
  <2>1. PICK r \in Root, s \in Slot :
               m = <<"pub", r, s>> /\ <<r, s>> \in Places /\ files.pub[<<r, s>>] \in Key
    BY <1>8
  <2> QED  BY <1>0, <1>1, <1>5, <2>1 DEF files
<1> QED  BY <1>3, <1>6, <1>7, <1>8

\* A restore cut between the removal of a file and its writing.
LEMMA LayFileCutFacts ==
    ASSUME OpInv, NEW m \in op.left, LayFileCut(m)
    PROVE  /\ op.kind = "restore" /\ op.at = "lay" /\ op' = Idle
           /\ UNCHANGED <<priv, dirs, manifest, inv, archiveVars, torn, astray, ops>>
           /\ troubles' = troubles + 1
           /\ config' \in {config, None}
           /\ pub' = pub \/ \E x \in Places : pub' = [pub EXCEPT ![x] = None]
<1>1. /\ op.kind = "restore" /\ op.at = "lay" /\ op' = Idle
      /\ UNCHANGED <<priv, dirs, manifest, inv, archiveVars, torn, astray, ops>>
      /\ troubles' = troubles + 1 /\ config' \in {config, None}
      /\ pub' = pub \/ (m[1] = "pub" /\ pub' = [pub EXCEPT ![<<m[2], m[3]>>] = None])
  BY DEF LayFileCut, End, Troubled
<1>2. m[1] = "pub" => <<m[2], m[3]>> \in Places
  <2>1. \/ m = <<"config", None, None>>
        \/ \E r \in Root : m = <<"dir", r, None>>
        \/ \E r \in Root, s \in Slot : m = <<"pub", r, s>> /\ <<r, s>> \in Places
    BY <1>1, MemberFacts
  <2>2. CASE m = <<"config", None, None>>
    BY <2>2
  <2>3. ASSUME NEW r \in Root, m = <<"dir", r, None>> PROVE m[1] # "pub"
    BY <2>3
  <2>4. ASSUME NEW r \in Root, NEW s \in Slot, m = <<"pub", r, s>>, <<r, s>> \in Places
        PROVE  <<m[2], m[3]>> \in Places
    BY <2>4
  <2> QED  BY <2>1, <2>2, <2>3, <2>4
<1> QED  BY <1>1, <1>2

\* A member of a bundle is laid down, and with the last one the command goes on.
LEMMA LayMemberFacts ==
    ASSUME OpInv, NEW m \in op.left, LayMember(m)
    PROVE  LET b == op.source
               x(s) == <<op.to, s>> IN
           /\ op.kind = "unbundle" /\ op.at = "lay" /\ op.to \in Root /\ b \in Bundles
           /\ op.to = b.manifest.root
           /\ UNCHANGED <<config, archiveVars, bounds>>
           /\ astray' = {"records", "config"}
           /\ torn' = {y \in Places : None \notin {priv'[y], pub'[y]} /\ priv'[y] # pub'[y]}
           /\ op' \in Commands /\ op'.left = op.left \ {m} /\ op'.at \in {"lay", "render"}
           /\ op'.kind = "unbundle" /\ op'.source = b /\ op'.to = op.to
           /\ op'.at = "render" => op'.left = {}
           /\ \/ /\ m = <<"inventory", None>>
                 /\ inv' = b.inv /\ UNCHANGED <<manifest, priv, pub, dirs>>
              \/ /\ m = <<"manifest", None>>
                 /\ manifest' = b.manifest /\ UNCHANGED <<inv, priv, pub, dirs>>
              \/ \E s \in Slot :
                    /\ m = <<"priv", s>> /\ b.pairs.priv[s] \in Key /\ x(s) \in Places
                    /\ priv' = [priv EXCEPT ![x(s)] = b.pairs.priv[s]]
                    /\ dirs' = dirs \cup {op.to} /\ UNCHANGED <<inv, manifest, pub>>
              \/ \E s \in Slot :
                    /\ m = <<"pub", s>> /\ b.pairs.pub[s] \in Key /\ x(s) \in Places
                    /\ pub' = [pub EXCEPT ![x(s)] = b.pairs.pub[s]]
                    /\ dirs' = dirs \cup {op.to} /\ UNCHANGED <<inv, manifest, priv>>
<1> DEFINE b == op.source
           x(s) == <<op.to, s>>
<1>0. /\ op.kind = "unbundle" /\ op.at = "lay" /\ UNCHANGED <<config, archiveVars, bounds>>
      /\ astray' = {"records", "config"}
      /\ torn' = {y \in Places : None \notin {priv'[y], pub'[y]} /\ priv'[y] # pub'[y]}
      /\ op' = [op EXCEPT !.left = @ \ {m}, !.at = IF op.left = {m} THEN "render" ELSE "lay"]
  BY DEF LayMember
<1>1. /\ b \in Bundles /\ op.to = b.manifest.root /\ m \in BundleMembers(b)
  BY <1>0 DEF OpInv
<1>2. /\ op.to \in Root
      /\ \A s \in Slot : b.pairs.priv[s] \in Key \cup {None} /\ b.pairs.pub[s] \in Key \cup {None}
  BY <1>1 DEF Bundles, Manifests, Pairs
<1>3. /\ op' \in Commands /\ op'.left = op.left \ {m} /\ op'.at \in {"lay", "render"}
      /\ op'.kind = "unbundle" /\ op'.source = b /\ op'.to = op.to
      /\ op'.at = "render" => op'.left = {}
  <2>1. op \in Commands
    BY DEF OpInv
  <2> DEFINE at == IF op.left = {m} THEN "render" ELSE "lay"
  <2>2. at \in Ats /\ at \in {"lay", "render"} /\ (at = "render" => op.left \ {m} = {})
    BY DEF Ats
  <2>3. op' = [op EXCEPT !.left = @ \ {m}, !.at = at]
    BY <1>0
  <2> HIDE DEF at
  <2>4. /\ op' \in Commands /\ op'.left = op.left \ {m} /\ op'.at = at
        /\ op'.kind = op.kind /\ op'.source = op.source /\ op'.to = op.to
    BY <2>1, <2>2, <2>3 DEF Commands
  <2> QED  BY <1>0, <2>2, <2>4
<1>4. /\ inv' = IF m[1] = "inventory" THEN b.inv ELSE inv
      /\ manifest' = IF m[1] = "manifest" THEN b.manifest ELSE manifest
      /\ priv' = IF m[1] = "priv" THEN [priv EXCEPT ![<<op.to, m[2]>>] = b.pairs.priv[m[2]]]
                                  ELSE priv
      /\ pub' = IF m[1] = "pub" THEN [pub EXCEPT ![<<op.to, m[2]>>] = b.pairs.pub[m[2]]]
                                ELSE pub
      /\ dirs' = IF m[1] \in {"priv", "pub"} THEN dirs \cup {op.to} ELSE dirs
  BY DEF LayMember
<1> HIDE DEF b
<1>5. ASSUME m = <<"inventory", None>>
      PROVE  inv' = b.inv /\ UNCHANGED <<manifest, priv, pub, dirs>>
  BY <1>4, <1>5
<1>6. ASSUME m = <<"manifest", None>>
      PROVE  manifest' = b.manifest /\ UNCHANGED <<inv, priv, pub, dirs>>
  BY <1>4, <1>6
<1>7. ASSUME NEW s \in Slot, m = <<"priv", s>>, b.pairs.priv[s] # None
      PROVE  /\ b.pairs.priv[s] \in Key /\ x(s) \in Places
             /\ priv' = [priv EXCEPT ![x(s)] = b.pairs.priv[s]]
             /\ dirs' = dirs \cup {op.to} /\ UNCHANGED <<inv, manifest, pub>>
  BY <1>2, <1>4, <1>7 DEF Places
<1>8. ASSUME NEW s \in Slot, m = <<"pub", s>>, b.pairs.pub[s] # None
      PROVE  /\ b.pairs.pub[s] \in Key /\ x(s) \in Places
             /\ pub' = [pub EXCEPT ![x(s)] = b.pairs.pub[s]]
             /\ dirs' = dirs \cup {op.to} /\ UNCHANGED <<inv, manifest, priv>>
  BY <1>2, <1>4, <1>8 DEF Places
<1>9. \/ m = <<"inventory", None>> \/ m = <<"manifest", None>>
      \/ \E s \in Slot : m = <<"priv", s>> /\ b.pairs.priv[s] # None
      \/ \E s \in Slot : m = <<"pub", s>> /\ b.pairs.pub[s] # None
  BY <1>1 DEF BundleMembers
<1>10. CASE \E s \in Slot : m = <<"priv", s>> /\ b.pairs.priv[s] # None
  <2>1. PICK s \in Slot : m = <<"priv", s>> /\ b.pairs.priv[s] # None
    BY <1>10
  <2> QED  BY <1>0, <1>1, <1>2, <1>3, <1>7, <2>1 DEF b
<1>11. CASE \E s \in Slot : m = <<"pub", s>> /\ b.pairs.pub[s] # None
  <2>1. PICK s \in Slot : m = <<"pub", s>> /\ b.pairs.pub[s] # None
    BY <1>11
  <2> QED  BY <1>0, <1>1, <1>2, <1>3, <1>8, <2>1 DEF b
<1>12. CASE m = <<"inventory", None>> \/ m = <<"manifest", None>>
  BY <1>0, <1>1, <1>2, <1>3, <1>5, <1>6, <1>12 DEF b
<1> QED  BY <1>9, <1>10, <1>11, <1>12

-----------------------------------------------------------------------------
(* What a key added and a key root moved change.                           *)

\* The record of a key.
LEMMA RecordFacts ==
    ASSUME NEW k \in Key, NEW root \in Root, NEW s \in Slot
    PROVE  LET r == [key |-> k, root |-> root, slot |-> s] IN
           r \in Records /\ r.key = k /\ r.root = root /\ r.slot = s
BY DEF Records

\* A key is minted where there is none; a key that is there may get a record.
LEMMA MintFacts ==
    ASSUME OpInv, HomeTypeInv, Mint
    PROVE  LET x == <<manifest.root, op.slot>>
               record(k) == [key |-> k, root |-> manifest.root, slot |-> op.slot] IN
           /\ op.kind = "add" /\ op.at = "mint" /\ op' = Idle
           /\ op.slot \in Slot /\ x \in Places
           /\ manifest.root \in Root
           /\ UNCHANGED <<config, archiveVars, astray, bounds>>
           /\ manifest' \in Manifests /\ manifest'.root = manifest.root
           /\ dirs' = dirs \cup {manifest.root}
           /\ \/ /\ priv[x] = None
                 /\ \E k \in Key :
                       /\ priv' = [priv EXCEPT ![x] = k] /\ pub' = [pub EXCEPT ![x] = k]
                       /\ inv' = inv \cup {record(k)} /\ torn' = torn \ {x}
              \/ /\ priv[x] # None /\ UNCHANGED <<priv, pub, torn>>
                 /\ \/ inv' = inv
                    \/ \E k \in Key : /\ k = IF pub[x] # None THEN pub[x] ELSE priv[x]
                                      /\ inv' = inv \cup {record(k)}
<1> DEFINE x == <<manifest.root, op.slot>>
           record(k) == [key |-> k, root |-> manifest.root, slot |-> op.slot]
           there == IF pub[x] # None THEN pub[x] ELSE priv[x]
<1>1. op.kind = "add" /\ op.at = "mint" /\ op' = Idle
      /\ UNCHANGED <<config, archiveVars, astray, bounds>>
      /\ dirs' = dirs \cup {manifest.root}
  BY DEF Mint, End, OpInv, OnWay
<1>2. op.slot \in Slot /\ manifest.root \in Root /\ x \in Places
  BY <1>1 DEF OpInv, HomeTypeInv, Manifests, Places
<1>3. manifest' \in Manifests /\ manifest'.root = manifest.root
  BY <1>2 DEF Mint, HomeTypeInv, Manifests
<1>4. CASE priv[x] = None
  <2>1. PICK k \in Key : /\ priv' = [priv EXCEPT ![x] = k] /\ pub' = [pub EXCEPT ![x] = k]
                         /\ inv' = inv \cup {record(k)} /\ torn' = torn \ {x}
    BY <1>4 DEF Mint
  <2> QED  BY <1>1, <1>2, <1>3, <1>4, <2>1
<1>5. CASE priv[x] # None
  <2>1. UNCHANGED <<priv, pub, torn>> /\ (inv' = inv \/ inv' = inv \cup {record(there)})
    BY <1>5 DEF Mint
  <2>2. there \in Key
    BY <1>2, <1>5 DEF HomeTypeInv, Halves
  <2> QED  BY <1>1, <1>2, <1>3, <1>5, <2>1, <2>2
<1> QED  BY <1>4, <1>5

\* The halves of one directory lie in the other, and nowhere else did they move.
LEMMA RenamedFacts ==
    ASSUME NEW half \in Halves, NEW from \in Root, NEW to \in Root, from # to
    PROVE  LET moved == Renamed(half, from, to) IN
           /\ moved \in Halves
           /\ \A s \in Slot : moved[<<to, s>>] = half[<<from, s>>] /\ moved[<<from, s>>] = None
           /\ \A x \in Places : x[1] \notin {from, to} => moved[x] = half[x]
<1> DEFINE value(x) == CASE x[1] = to -> half[<<from, x[2]>>] [] x[1] = from -> None
                         [] OTHER -> half[x]
           moved == [x \in Places |-> value(x)]
<1>1. \A x \in Places : value(x) \in Key \cup {None}
  BY DEF Halves, Places
<1>2. \A s \in Slot : <<to, s>> \in Places /\ <<from, s>> \in Places
  BY DEF Places
<1>3. \A s \in Slot : value(<<to, s>>) = half[<<from, s>>] /\ value(<<from, s>>) = None
  OBVIOUS
<1>4. \A x \in Places : x[1] \notin {from, to} => value(x) = half[x]
  OBVIOUS
<1>5. Renamed(half, from, to) = moved
  BY DEF Renamed
<1> HIDE DEF value
<1> QED  BY <1>1, <1>2, <1>3, <1>4, <1>5 DEF Halves

\* The steps of a move: which they are, and whether the tree moves with them.
LEMMA MoveFacts ==
    ASSUME OpInv, HomeTypeInv, MoveTree \/ SaveRoot \/ SaveRootFails \/ SaveRecords
    PROVE  /\ op.kind = "move" /\ op.from \in Root /\ op.to \in Root /\ op.from # op.to
           /\ UNCHANGED <<config, archiveVars, astray, ops>>
           /\ troubles' \in {troubles, troubles + 1}
           /\ \/ /\ op.at = "rename" /\ op' = Idle /\ {op.from, op.to} \subseteq dirs
                 /\ UNCHANGED <<priv, pub, dirs, torn, manifest, inv>>
              \/ /\ op.at = "rename" /\ op'.at = "manifest" /\ op'.source = TRUE
                 /\ op.from \in dirs /\ op.to \notin dirs /\ RenameTree(op.from, op.to)
                 /\ UNCHANGED <<manifest, inv>>
              \/ /\ op.at = "rename" /\ op'.at = "manifest" /\ op'.source = FALSE
                 /\ op.from \notin dirs /\ UNCHANGED <<priv, pub, dirs, torn, manifest, inv>>
              \/ /\ op.at = "manifest" /\ op'.at = "records" /\ op'.source = op.source
                 /\ manifest' \in Manifests /\ manifest'.root = op.to
                 /\ UNCHANGED <<priv, pub, dirs, torn, inv>>
              \/ /\ op.at = "manifest" /\ op' = Idle /\ PutBack
                 /\ UNCHANGED <<manifest, inv>>
              \/ /\ op.at = "records" /\ op'.at = "render" /\ inv' = MovedRecords
                 /\ UNCHANGED <<priv, pub, dirs, torn, manifest>>
           /\ op' = Idle \/ /\ op' \in Commands /\ op'.kind = "move" /\ op'.from = op.from
                            /\ op'.to = op.to /\ op'.left = op.left
<1>0. op \in Commands /\ OnWay(op.kind, op.at)
  BY DEF OpInv
<1>1. CASE MoveTree
  <2>1. op.at = "rename" /\ UNCHANGED <<config, manifest, inv, archiveVars, astray, bounds>>
    BY <1>1 DEF MoveTree
  <2>2. op.kind = "move" /\ op.from \in Root /\ op.to \in Root /\ op.from # op.to
    BY <1>0, <2>1 DEF OpInv, OnWay
  <2>3. CASE {op.from, op.to} \subseteq dirs
    BY <1>1, <2>1, <2>2, <2>3 DEF MoveTree, End, bounds
  <2>4. CASE ~({op.from, op.to} \subseteq dirs)
    <3>1. op' = [op EXCEPT !.at = "manifest", !.source = op.from \in dirs]
      BY <1>1, <2>4 DEF MoveTree
    <3>2. IF op.from \in dirs THEN RenameTree(op.from, op.to)
          ELSE UNCHANGED <<priv, pub, dirs, torn>>
      BY <1>1, <2>4 DEF MoveTree
    <3>3. (op.from \in dirs) \in BOOLEAN
      OBVIOUS
    <3>4. /\ op' \in Commands /\ op'.kind = op.kind /\ op'.from = op.from /\ op'.to = op.to
          /\ op'.left = op.left /\ op'.at = "manifest" /\ op'.source = (op.from \in dirs)
      BY <1>0, <3>1, <3>3 DEF Commands, Ats
    <3>5. CASE op.from \in dirs
      <4>1. op'.source = TRUE /\ op.to \notin dirs
        BY <2>4, <3>4, <3>5
      <4> QED  BY <2>1, <2>2, <3>2, <3>4, <3>5, <4>1 DEF bounds
    <3>6. CASE op.from \notin dirs
      <4>0. (op.from \in dirs) = FALSE
        BY <3>6
      <4>1. op'.source = FALSE
        BY <3>4, <4>0, Zenon
      <4> QED  BY <2>1, <2>2, <3>2, <3>4, <3>6, <4>1 DEF bounds
    <3> QED  BY <3>5, <3>6
  <2> QED  BY <2>3, <2>4
<1>2. CASE SaveRoot
  <2>1. /\ op.at = "manifest" /\ manifest' = [manifest EXCEPT !.root = op.to] /\ Go("records")
        /\ UNCHANGED <<sshVars, inv, archiveVars, torn, astray, bounds>>
    BY <1>2 DEF SaveRoot
  <2>2. op.kind = "move" /\ op.from \in Root /\ op.to \in Root /\ op.from # op.to
    BY <1>0, <2>1 DEF OpInv, OnWay
  <2>3. manifest' \in Manifests /\ manifest'.root = op.to
    BY <2>1, <2>2 DEF HomeTypeInv, Manifests
  <2> QED  BY <1>0, <2>1, <2>2, <2>3, GoFacts DEF Ats, sshVars, bounds
<1>3. CASE SaveRootFails
  <2>1. /\ op.at = "manifest" /\ op' = Idle /\ PutBack /\ troubles' = troubles + 1
        /\ UNCHANGED <<config, manifest, inv, archiveVars, astray, ops>>
    BY <1>3 DEF SaveRootFails, End, Troubled
  <2>2. op.kind = "move" /\ op.from \in Root /\ op.to \in Root /\ op.from # op.to
    BY <1>0, <2>1 DEF OpInv, OnWay
  <2> QED  BY <2>1, <2>2
<1>4. CASE SaveRecords
  <2>1. /\ op.at = "records" /\ inv' = MovedRecords /\ Go("render")
        /\ UNCHANGED <<sshVars, manifest, archiveVars, torn, astray, bounds>>
    BY <1>4 DEF SaveRecords
  <2>2. op.kind = "move" /\ op.from \in Root /\ op.to \in Root /\ op.from # op.to
    BY <1>0, <2>1 DEF OpInv, OnWay
  <2> QED  BY <1>0, <2>1, <2>2, GoFacts DEF Ats, sshVars, bounds
<1> QED  BY <1>1, <1>2, <1>3, <1>4

\* The steps of a purge that remove something.
LEMMA PurgesFacts ==
    ASSUME OpInv, HomeTypeInv, Purges
    PROVE  LET x == <<op.from, op.slot>> IN
           /\ op.kind = "purge" /\ op.slot \in Slot /\ op.from = manifest.root /\ x \in Places
           /\ UNCHANGED <<dirs, config, archiveVars, torn, astray, bounds>>
           /\ \/ op' = Idle /\ op.at = "rmPub"
              \/ /\ op' \in Commands /\ op'.kind = "purge" /\ op'.slot = op.slot
                 /\ op'.from = op.from /\ op'.at \in {"unrecord", "rmPriv", "rmPub"}
           /\ \/ /\ op.at = "delete" /\ op'.at = "unrecord" /\ manifest' \in Manifests
                 /\ manifest'.root = manifest.root /\ UNCHANGED <<priv, pub, inv>>
              \/ /\ op.at = "unrecord" /\ op'.at = "rmPriv" /\ inv' = Without(inv, x)
                 /\ UNCHANGED <<priv, pub, manifest>>
              \/ /\ op.at = "rmPriv" /\ op'.at = "rmPub" /\ priv' = [priv EXCEPT ![x] = None]
                 /\ UNCHANGED <<pub, manifest, inv>>
              \/ /\ op.at = "rmPub" /\ op' = Idle /\ pub' = [pub EXCEPT ![x] = None]
                 /\ UNCHANGED <<priv, manifest, inv>>
<1>0. op \in Commands /\ OnWay(op.kind, op.at)
  BY DEF OpInv
<1>1. op.at \in {"delete", "unrecord", "rmPriv", "rmPub"}
  BY DEF Purges, Delete, Unrecord, RemovePriv, RemovePub
<1>2. op.kind = "purge" /\ op.slot \in Slot /\ op.from = manifest.root
  BY <1>0, <1>1 DEF OpInv, OnWay
<1>3. manifest.root \in Root /\ <<op.from, op.slot>> \in Places
  BY <1>2 DEF HomeTypeInv, Manifests, Places
<1>4. CASE Delete
  <2>1. manifest' \in Manifests /\ manifest'.root = manifest.root
    BY <1>4 DEF Delete, HomeTypeInv, Manifests
  <2> QED  BY <1>0, <1>2, <1>3, <1>4, <2>1, GoFacts DEF Delete, Ats, sshVars
<1>5. CASE Unrecord
  BY <1>0, <1>2, <1>3, <1>5, GoFacts DEF Unrecord, Ats, sshVars
<1>6. CASE RemovePriv
  BY <1>0, <1>2, <1>3, <1>6, GoFacts DEF RemovePriv, Ats
<1>7. CASE RemovePub
  BY <1>0, <1>2, <1>3, <1>7 DEF RemovePub, End
<1> QED  BY <1>4, <1>5, <1>6, <1>7 DEF Purges

\* The last step of a move, or of a bundle restore.
LEMMA RenderFacts ==
    ASSUME OpInv, HomeTypeInv, Render
    PROVE  /\ op.kind \in {"move", "unbundle"} /\ op.at = "render" /\ op' = Idle
           /\ UNCHANGED <<priv, pub, manifest, inv, archiveVars, torn, bounds>>
           /\ manifest.root \in Root
           /\ config' = manifest.root /\ dirs' = dirs \cup {manifest.root}
           /\ astray' \subseteq astray
           /\ "records" \in astray /\ "records" \notin astray' =>
                 op.kind = "unbundle" /\ Sound(op.source)
<1>1. op.at = "render" /\ op' = Idle /\ OnWay(op.kind, op.at)
  BY DEF Render, End, OpInv
<1>2. op.kind \in {"move", "unbundle"}
  BY <1>1 DEF OnWay
<1>3. manifest.root \in Root
  BY DEF HomeTypeInv, Manifests
<1> QED  BY <1>1, <1>2, <1>3 DEF Render

-----------------------------------------------------------------------------
(* Types.                                                                  *)

\* What pruning keeps: no more than it is asked for, and the newest.
LEMMA PrunedFacts ==
    ASSUME NEW S, NEW list \in Seq(S), NEW keep \in Nat
    PROVE  LET kept == Pruned(list, keep) IN
           /\ kept \in Seq(S) /\ Len(kept) <= keep /\ Len(kept) <= Len(list)
           /\ keep # 0 /\ list # <<>> => kept # <<>> /\ kept[Len(kept)] = list[Len(list)]
           /\ \A i \in DOMAIN kept : \E j \in DOMAIN list : kept[i] = list[j]
<1> DEFINE first == IF Len(list) > keep THEN Len(list) - keep + 1 ELSE 1
           kept == SubSeq(list, first, Len(list))
<1>1. /\ Len(list) \in Nat /\ first \in 1..(Len(list) + 1)
      /\ Len(list) - first + 1 = IF Len(list) > keep THEN keep ELSE Len(list)
  OBVIOUS
<1>2. \A i \in first..Len(list) : list[i] \in S
  BY <1>1
<1> HIDE DEF first
<1>3. /\ kept \in Seq(S)
      /\ Len(kept) = Len(list) - first + 1
      /\ \A i \in 1..(Len(list) - first + 1) : kept[i] = list[first + i - 1]
  BY <1>1, <1>2, SubSeqProperties
<1>4. Pruned(list, keep) = kept
  BY DEF Pruned, first
<1> HIDE DEF kept
<1>5. keep # 0 /\ list # <<>> => kept # <<>> /\ kept[Len(kept)] = list[Len(list)]
  <2>1. list # <<>> => Len(list) > 0
    OBVIOUS
  <2>2. ASSUME keep # 0, list # <<>> PROVE Len(kept) > 0 /\ kept[Len(kept)] = list[Len(list)]
    BY <1>1, <1>3, <2>1, <2>2
  <2> QED  BY <1>3, <2>2
<1>6. \A i \in DOMAIN kept : \E j \in DOMAIN list : kept[i] = list[j]
  <2> SUFFICES ASSUME NEW i \in 1..Len(kept) PROVE \E j \in 1..Len(list) : kept[i] = list[j]
    BY <1>3
  <2>1. first + i - 1 \in 1..Len(list) /\ kept[i] = list[first + i - 1]
    BY <1>1, <1>3
  <2> QED  BY <2>1
<1> QED  BY <1>1, <1>3, <1>4, <1>5, <1>6

\* A tree that is renamed: its halves are typed, and what was torn is so where it went.
LEMMA RenameTreeFacts ==
    ASSUME HomeTypeInv, NEW from \in Root, NEW to \in Root, from # to, RenameTree(from, to)
    PROVE  /\ priv' \in Halves /\ pub' \in Halves /\ torn' \subseteq Places
           /\ dirs' = (dirs \ {from}) \cup {to}
           /\ \A s \in Slot : /\ priv'[<<to, s>>] = priv[<<from, s>>]
                              /\ pub'[<<to, s>>] = pub[<<from, s>>]
                              /\ priv'[<<from, s>>] = None /\ pub'[<<from, s>>] = None
                              /\ <<from, s>> \in torn => <<to, s>> \in torn'
           /\ \A x \in Places : x[1] \notin {from, to} =>
                 priv'[x] = priv[x] /\ pub'[x] = pub[x] /\ (x \in torn => x \in torn')
<1>1. priv \in Halves /\ pub \in Halves /\ torn \subseteq Places
  BY DEF HomeTypeInv
<1>2. /\ priv' = Renamed(priv, from, to) /\ pub' = Renamed(pub, from, to)
      /\ dirs' = (dirs \ {from}) \cup {to}
      /\ torn' = {IF x[1] = from THEN <<to, x[2]>> ELSE x : x \in torn}
  BY DEF RenameTree
<1>3. torn' \subseteq Places
  BY <1>1, <1>2 DEF Places
<1>4. /\ \A s \in Slot : <<from, s>> \in torn => <<to, s>> \in torn'
      /\ \A x \in torn : x[1] # from => x \in torn'
  BY <1>2
<1>5. /\ priv' \in Halves
      /\ \A s \in Slot : priv'[<<to, s>>] = priv[<<from, s>>] /\ priv'[<<from, s>>] = None
      /\ \A x \in Places : x[1] \notin {from, to} => priv'[x] = priv[x]
  BY <1>1, <1>2, RenamedFacts
<1>6. /\ pub' \in Halves
      /\ \A s \in Slot : pub'[<<to, s>>] = pub[<<from, s>>] /\ pub'[<<from, s>>] = None
      /\ \A x \in Places : x[1] \notin {from, to} => pub'[x] = pub[x]
  BY <1>1, <1>2, RenamedFacts
<1> QED  BY <1>2, <1>3, <1>4, <1>5, <1>6

\* The records after a move: each as it was, or with the new directory.
LEMMA MovedRecordsFacts ==
    ASSUME HomeTypeInv, op.to \in Root
    PROVE  /\ MovedRecords \subseteq Records
           /\ \A r \in MovedRecords : \E q \in inv :
                 /\ r.key = q.key /\ r.slot = q.slot
                 /\ r.root = IF q.root = op.from THEN op.to ELSE q.root
<1>1. \A q \in inv : /\ q \in Records
                     /\ [q EXCEPT !.root = op.to] \in Records
                     /\ [q EXCEPT !.root = op.to].key = q.key
                     /\ [q EXCEPT !.root = op.to].slot = q.slot
                     /\ [q EXCEPT !.root = op.to].root = op.to
  BY DEF HomeTypeInv, Records
<1> QED  BY <1>1 DEF MovedRecords

\* Every step leaves a home of the kind it found.
LEMMA HomeTypeStep ==
    ASSUME IInv, [Next]_archivesVars
    PROVE  HomeTypeInv'
<1>0. HomeTypeInv /\ OpInv /\ ListsTypeInv
  BY DEF IInv
<1>1. CASE Starts
  BY <1>0, <1>1, StartFacts DEF HomeTypeInv, homeVars, sshVars
<1>2. CASE Opens
  BY <1>0, <1>2, OpensFacts DEF HomeTypeInv, homeVars, sshVars
<1>3. CASE Stops
  BY <1>0, <1>3, StopFacts DEF HomeTypeInv, homeVars, sshVars
<1>4. CASE Prunes
  BY <1>0, <1>4, PrunesFacts DEF HomeTypeInv, homeVars, sshVars
<1>5. ASSUME NEW m \in op.left, LayFile(m) PROVE HomeTypeInv'
  <2>1. /\ UNCHANGED <<priv, manifest, inv, torn>>
        /\ config' \in Root \cup {None} /\ dirs' \subseteq Root
        /\ astray' \subseteq {"records", "config"}
    BY <1>0, <1>5, LayFileFacts DEF HomeTypeInv, Strayed
  <2>2. pub' \in Halves
    <3>1. \/ pub' = pub
          \/ \E r \in Root, s \in Slot :
                /\ <<r, s>> \in Places /\ op.source.files.pub[<<r, s>>] \in Key
                /\ pub' = [pub EXCEPT ![<<r, s>>] = op.source.files.pub[<<r, s>>]]
      BY <1>0, <1>5, LayFileFacts, Zenon
    <3> QED  BY <1>0, <3>1 DEF HomeTypeInv, Halves
  <2> QED  BY <1>0, <2>1, <2>2 DEF HomeTypeInv
<1>6. ASSUME NEW m \in op.left, LayFileCut(m) PROVE HomeTypeInv'
  <2>1. pub' \in Halves
    BY <1>0, <1>6, LayFileCutFacts DEF HomeTypeInv, Halves
  <2> QED  BY <1>0, <1>6, <2>1, LayFileCutFacts DEF HomeTypeInv
<1>7. ASSUME NEW m \in op.left, LayMember(m) PROVE HomeTypeInv'
  <2>1. op.source \in Bundles /\ op.to \in Root /\ config' = config
        /\ astray' = {"records", "config"}
        /\ torn' = {y \in Places : None \notin {priv'[y], pub'[y]} /\ priv'[y] # pub'[y]}
    BY <1>0, <1>7, LayMemberFacts
  <2>2. op.source.inv \subseteq Records /\ op.source.manifest \in Manifests
    BY <2>1 DEF Bundles
  <2>3. /\ inv' \in {inv, op.source.inv} /\ manifest' \in {manifest, op.source.manifest}
        /\ dirs' \in {dirs, dirs \cup {op.to}}
    BY <1>0, <1>7, LayMemberFacts
  <2>4. priv' \in Halves /\ pub' \in Halves
    <3>1. \/ UNCHANGED <<priv, pub>>
          \/ \E s \in Slot : /\ op.source.pairs.priv[s] \in Key /\ <<op.to, s>> \in Places
                             /\ priv' = [priv EXCEPT ![<<op.to, s>>] = op.source.pairs.priv[s]]
                             /\ pub' = pub
          \/ \E s \in Slot : /\ op.source.pairs.pub[s] \in Key /\ <<op.to, s>> \in Places
                             /\ pub' = [pub EXCEPT ![<<op.to, s>>] = op.source.pairs.pub[s]]
                             /\ priv' = priv
      BY <1>0, <1>7, LayMemberFacts, Zenon
    <3> QED  BY <1>0, <3>1 DEF HomeTypeInv, Halves
  <2> QED  BY <1>0, <2>1, <2>2, <2>3, <2>4 DEF HomeTypeInv
<1>8. CASE Mint
  <2>1. /\ manifest.root \in Root /\ op.slot \in Slot /\ UNCHANGED <<config, astray>>
        /\ manifest' \in Manifests /\ dirs' = dirs \cup {manifest.root}
        /\ torn' \subseteq torn
        /\ priv' = priv \/ \E x \in Places, k \in Key : priv' = [priv EXCEPT ![x] = k]
        /\ pub' = pub \/ \E x \in Places, k \in Key : pub' = [pub EXCEPT ![x] = k]
        /\ \/ inv' = inv
           \/ \E k \in Key :
                 inv' = inv \cup {[key |-> k, root |-> manifest.root, slot |-> op.slot]}
    BY <1>0, <1>8, MintFacts
  <2>2. priv' \in Halves /\ pub' \in Halves
    BY <1>0, <2>1 DEF HomeTypeInv, Halves
  <2>3. inv' \subseteq Records
    BY <1>0, <2>1, RecordFacts DEF HomeTypeInv
  <2> QED  BY <1>0, <2>1, <2>2, <2>3 DEF HomeTypeInv
<1>9. CASE Purges
  <2>1. /\ UNCHANGED <<dirs, config, torn, astray>> /\ manifest' \in Manifests
        /\ inv' \subseteq inv
        /\ priv' = priv \/ \E x \in Places : priv' = [priv EXCEPT ![x] = None]
        /\ pub' = pub \/ \E x \in Places : pub' = [pub EXCEPT ![x] = None]
    BY <1>0, <1>9, PurgesFacts DEF HomeTypeInv, Without
  <2>2. priv' \in Halves /\ pub' \in Halves
    BY <1>0, <2>1 DEF HomeTypeInv, Halves
  <2> QED  BY <1>0, <2>1, <2>2 DEF HomeTypeInv
<1>10. CASE Moves
  <2>1. CASE Render
    BY <1>0, <2>1, RenderFacts DEF HomeTypeInv
  <2>2. CASE MoveTree \/ SaveRoot \/ SaveRootFails \/ SaveRecords
    <3>1. /\ op.from \in Root /\ op.to \in Root /\ op.from # op.to
          /\ UNCHANGED <<config, astray>>
          /\ manifest' = manifest \/ manifest' \in Manifests
          /\ inv' = inv \/ inv' = MovedRecords
      BY <1>0, <2>2, MoveFacts
    <3>2. \/ UNCHANGED <<priv, pub, dirs, torn>>
          \/ RenameTree(op.from, op.to) \/ RenameTree(op.to, op.from)
      BY <1>0, <2>2, MoveFacts DEF PutBack
    <3>3. /\ priv' \in Halves /\ pub' \in Halves /\ torn' \subseteq Places
          /\ dirs' \subseteq Root
      <4>1. CASE UNCHANGED <<priv, pub, dirs, torn>>
        BY <1>0, <4>1 DEF HomeTypeInv
      <4>2. CASE RenameTree(op.from, op.to)
        BY <1>0, <3>1, <4>2, RenameTreeFacts DEF HomeTypeInv
      <4>3. CASE RenameTree(op.to, op.from)
        BY <1>0, <3>1, <4>3, RenameTreeFacts DEF HomeTypeInv
      <4> QED  BY <3>2, <4>1, <4>2, <4>3
    <3>4. inv' \subseteq Records
      BY <1>0, <3>1, MovedRecordsFacts DEF HomeTypeInv
    <3> QED  BY <1>0, <3>1, <3>3, <3>4 DEF HomeTypeInv
  <2> QED  BY <1>10, <2>1, <2>2 DEF Moves
<1> QED  BY <1>1, <1>2, <1>3, <1>4, <1>5, <1>6, <1>7, <1>8, <1>9, <1>10, StepKinds DEF Lays

\* A list with its element n made another.
LEMMA ReplacedFacts ==
    ASSUME NEW S, NEW list \in Seq(S), NEW n \in 1..Len(list), NEW e \in S
    PROVE  LET new == [list EXCEPT ![n] = e] IN
           new \in Seq(S) /\ DOMAIN new = 1..Len(list) /\ Len(new) = Len(list) /\ new[n] = e
BY ExceptSeq

\* The snapshot that is begun is of the home as it is.
LEMMA OpenSnapshotFacts ==
    ASSUME HomeTypeInv, ListsTypeInv, DirsInv, OpenSnapshot
    PROVE  /\ op.at = "snapshot" /\ UNCHANGED <<dist, ops, troubles>>
           /\ snaps' \in Seq(FitSnapshots) /\ snaps' # <<>> /\ Len(snaps') = Len(snaps) + 1
           /\ snaps'[Len(snaps')] = [whole |-> FALSE, files |-> Now]
<1> DEFINE a == [whole |-> FALSE, files |-> Now]
<1>1. Now \in Files /\ Now.pub = pub /\ Now.dirs = dirs
  BY DEF HomeTypeInv, Now, Files
<1>2. Fit(Now)
  BY <1>1 DEF DirsInv, Fit
<1>3. a \in FitSnapshots
  BY <1>1, <1>2 DEF FitSnapshots, Snapshots
<1>4. snaps' = Append(snaps, a) /\ op.at = "snapshot" /\ UNCHANGED <<dist, ops, troubles>>
  BY DEF OpenSnapshot, bounds
<1>5. snaps \in Seq(FitSnapshots)
  BY DEF ListsTypeInv
<1> HIDE DEF a
<1>6. /\ Append(snaps, a) \in Seq(FitSnapshots) /\ Append(snaps, a) # <<>>
      /\ Len(Append(snaps, a)) = Len(snaps) + 1
      /\ Append(snaps, a)[Len(snaps) + 1] = a
  BY <1>3, <1>5
<1> QED  BY <1>4, <1>6 DEF a

\* A snapshot whose mark is made another.
LEMMA WholeFacts ==
    ASSUME NEW mark, NEW a \in Snapshots
    PROVE  [a EXCEPT !.whole = mark] = [whole |-> mark, files |-> a.files]
BY DEF Snapshots

\* The snapshot that is done is the newest, and there are no more than are kept.
LEMMA CloseSnapshotFacts ==
    ASSUME ListsTypeInv, CloseSnapshot
    PROVE  /\ op.at = "archive" /\ UNCHANGED <<dist, ops, troubles>>
           /\ snaps' \in Seq(FitSnapshots) /\ Len(snaps') <= Retain
           /\ snaps' # <<>>
           /\ snaps'[Len(snaps')] = [whole |-> TRUE, files |-> snaps[Len(snaps)].files]
<1> DEFINE n == Len(snaps)
           done == [snaps EXCEPT ![n].whole = TRUE]
<1>1. /\ op.at = "archive" /\ UNCHANGED <<dist, ops, troubles>>
      /\ snaps' = Pruned(done, Retain)
  BY DEF CloseSnapshot, bounds
<1>2. snaps \in Seq(FitSnapshots) /\ snaps # <<>> /\ n \in 1..Len(snaps)
  BY <1>1 DEF ListsTypeInv
<1>3. snaps[n] \in FitSnapshots
  BY <1>2
<1>4. /\ [snaps[n] EXCEPT !.whole = TRUE] \in FitSnapshots
      /\ [snaps[n] EXCEPT !.whole = TRUE] = [whole |-> TRUE, files |-> snaps[n].files]
  <2>1. snaps[n] \in Snapshots
    BY <1>3 DEF FitSnapshots
  <2>2. [snaps[n] EXCEPT !.whole = TRUE] \in FitSnapshots
    BY <1>3 DEF FitSnapshots, Snapshots
  <2>3. [snaps[n] EXCEPT !.whole = TRUE] = [whole |-> TRUE, files |-> snaps[n].files]
    BY <2>1, WholeFacts, Zenon
  <2> QED  BY <2>2, <2>3
<1>5. done \in Seq(FitSnapshots) /\ Len(done) = n /\ done[n] = [snaps[n] EXCEPT !.whole = TRUE]
      /\ done # <<>>
  <2>1. done = [snaps EXCEPT ![n] = [snaps[n] EXCEPT !.whole = TRUE]]
    OBVIOUS
  <2> DEFINE e == [snaps[n] EXCEPT !.whole = TRUE]
  <2>2. e \in FitSnapshots /\ done = [snaps EXCEPT ![n] = e]
    BY <1>4, <2>1
  <2> HIDE DEF done, n, e
  <2>3. done \in Seq(FitSnapshots) /\ DOMAIN done = 1..Len(snaps) /\ Len(done) = Len(snaps)
        /\ done[n] = e
    BY <1>2, <2>2, ReplacedFacts
  <2> QED  BY <1>2, <2>3 DEF n, e
<1>6. Retain \in Nat /\ Retain # 0
  BY ArchivesAssumption
<1> HIDE DEF done, n
<1> QED  BY <1>1, <1>4, <1>5, <1>6, PrunedFacts DEF n

\* The bundle that is begun holds the keys of one directory.
LEMMA OpenBundleFacts ==
    ASSUME HomeTypeInv, ListsTypeInv, OpenBundle
    PROVE  /\ op.at = "backup" /\ UNCHANGED <<snaps, ops, troubles>>
           /\ dist' \in Seq(Bundles) /\ dist' # <<>>
           /\ \A s \in Slot : dist'[Len(dist')].pairs.priv[s] = priv[<<BundledRoot(op.kind), s>>]
<1> DEFINE root == BundledRoot(op.kind)
           b == [Bundle(root) EXCEPT !.whole = FALSE]
<1>1. root \in Root
  BY ArchivesAssumption DEF BundledRoot, HomeTypeInv, Manifests
<1> HIDE DEF root
<1>2. \A s \in Slot : <<root, s>> \in Places
  BY <1>1 DEF Places
<1>3. /\ [s \in Slot |-> priv[<<root, s>>]] \in [Slot -> Key \cup {None}]
      /\ [s \in Slot |-> pub[<<root, s>>]] \in [Slot -> Key \cup {None}]
  BY <1>2 DEF HomeTypeInv, Halves
<1>4. /\ Bundle(root) \in Bundles
      /\ Bundle(root).pairs.priv = [s \in Slot |-> priv[<<root, s>>]]
  BY <1>3 DEF Bundle, Bundles, Pairs, HomeTypeInv
<1>5. b \in Bundles /\ b.pairs.priv = [s \in Slot |-> priv[<<root, s>>]]
  BY <1>4 DEF Bundles
<1>6. op.at = "backup" /\ UNCHANGED <<snaps, ops, troubles>> /\ dist' = Append(dist, b)
  BY DEF OpenBundle, bounds, root
<1>7. dist \in Seq(Bundles)
  BY DEF ListsTypeInv
<1> HIDE DEF b
<1>8. /\ Append(dist, b) \in Seq(Bundles) /\ Append(dist, b) # <<>>
      /\ Append(dist, b)[Len(Append(dist, b))] = b
  BY <1>5, <1>7
<1>9. \A s \in Slot : b.pairs.priv[s] = priv[<<root, s>>]
  BY <1>5
<1> QED  BY <1>6, <1>8, <1>9 DEF root

\* The bundle that is done is whole, with the keys it was begun with.
LEMMA CloseBundleFacts ==
    ASSUME ListsTypeInv, NEW keep \in 1..MaxDist, CloseBundle(keep)
    PROVE  /\ op.at = "encrypt" /\ UNCHANGED <<snaps, ops, troubles>>
           /\ dist' \in Seq(Bundles)
           /\ op.kind = "purge" => /\ Len(dist) \in DOMAIN dist'
                                   /\ dist'[Len(dist)].whole
                                   /\ dist'[Len(dist)].pairs = dist[Len(dist)].pairs
<1> DEFINE n == Len(dist)
           written == [dist EXCEPT ![n].whole = TRUE]
<1>1. /\ op.at = "encrypt" /\ UNCHANGED <<snaps, ops, troubles>>
      /\ IF op.kind = "purge" THEN dist' = written ELSE dist' = Pruned(written, keep)
  BY DEF CloseBundle, bounds
<1>2. dist \in Seq(Bundles) /\ dist # <<>> /\ n \in 1..Len(dist)
  BY <1>1 DEF ListsTypeInv
<1>3. dist[n] \in Bundles
  BY <1>2
<1>4. /\ [dist[n] EXCEPT !.whole = TRUE] \in Bundles
      /\ [dist[n] EXCEPT !.whole = TRUE].whole
      /\ [dist[n] EXCEPT !.whole = TRUE].pairs = dist[n].pairs
  BY <1>3 DEF Bundles
<1>5. written \in Seq(Bundles) /\ DOMAIN written = 1..n
      /\ written[n] = [dist[n] EXCEPT !.whole = TRUE]
  <2>1. written = [dist EXCEPT ![n] = [dist[n] EXCEPT !.whole = TRUE]]
    OBVIOUS
  <2> DEFINE e == [dist[n] EXCEPT !.whole = TRUE]
  <2>2. e \in Bundles /\ written = [dist EXCEPT ![n] = e]
    BY <1>4, <2>1
  <2> HIDE DEF written, n, e
  <2>3. written \in Seq(Bundles) /\ DOMAIN written = 1..Len(dist) /\ Len(written) = Len(dist)
        /\ written[n] = e
    BY <1>2, <2>2, ReplacedFacts
  <2> QED  BY <1>2, <2>3 DEF n, e
<1>6. keep \in Nat
  BY ArchivesAssumption
<1> HIDE DEF written, n
<1>7. Pruned(written, keep) \in Seq(Bundles)
  BY <1>5, <1>6, PrunedFacts
<1> QED  BY <1>1, <1>2, <1>4, <1>5, <1>7 DEF n

\* Where nothing is written to the archives, and none is begun.
LEMMA ListsStay ==
    ASSUME ListsTypeInv, UNCHANGED archiveVars,
           ops' \in {ops, ops + 1}, troubles' \in {troubles, troubles + 1},
           op.at = "archive" => troubles' = troubles + 1,
           op'.at \notin {"archive", "encrypt"}
    PROVE  ListsTypeInv'
<1>1. snaps' = snaps /\ dist' = dist /\ Len(snaps) \in Nat
  BY DEF archiveVars, ListsTypeInv
<1>2. ops' \in Nat /\ troubles' \in Nat
  BY DEF ListsTypeInv
<1>3. Len(snaps) <= Retain + troubles'
  BY <1>1, ArchivesAssumption DEF ListsTypeInv
<1> QED  BY <1>1, <1>2, <1>3, ArchivesAssumption DEF ListsTypeInv

\* Every step keeps the archives what they are, and their number within bounds.
LEMMA ListsTypeStep ==
    ASSUME IInv, [Next]_archivesVars
    PROVE  ListsTypeInv'
<1> USE ArchivesAssumption
<1>0. HomeTypeInv /\ OpInv /\ ListsTypeInv /\ DirsInv
  BY DEF IInv
<1>1. CASE Starts
  BY <1>0, <1>1, StartFacts, ListsStay DEF OpInv, OnWay
<1>2. CASE Opens
  <2>1. CASE OpenSnapshot
    <3>1. op'.at = "archive"
      BY <1>0, <2>1, GoFacts DEF OpenSnapshot, OpInv, Ats
    <3> QED  BY <1>0, <2>1, <3>1, OpenSnapshotFacts DEF ListsTypeInv
  <2>2. CASE CloseSnapshot
    <3>1. op'.at \notin {"archive", "encrypt"}
      BY <1>0, <2>2, GoFacts, AfterSnapshotFacts DEF CloseSnapshot, OpInv, Ats
    <3>2. Len(snaps') \in Nat
      BY <1>0, <2>2, CloseSnapshotFacts
    <3> QED  BY <1>0, <2>2, <3>1, <3>2, CloseSnapshotFacts DEF ListsTypeInv
  <2>3. CASE SnapshotFails
    <3>1. op'.at \notin {"archive", "encrypt"}
      BY <1>0, <2>3, GoFacts, IdleFacts, AfterSnapshotFacts DEF SnapshotFails, End, OpInv, Ats
    <3> QED  BY <1>0, <2>3, <3>1, ListsStay DEF SnapshotFails, Troubled
  <2>4. CASE OpenBundle
    <3>1. op'.at = "encrypt"
      BY <1>0, <2>4, GoFacts DEF OpenBundle, OpInv, Ats
    <3> QED  BY <1>0, <2>4, <3>1, OpenBundleFacts DEF ListsTypeInv
  <2>5. CASE BundleFails
    <3>1. /\ op.at = "encrypt" /\ op'.at = "idle" /\ troubles' = troubles + 1
          /\ UNCHANGED <<snaps, ops>> /\ dist' = SubSeq(dist, 1, Len(dist) - 1)
      BY <2>5, IdleFacts DEF BundleFails, AfterFailedBundle, End, Troubled, homeVars
    <3>2. dist \in Seq(Bundles) /\ Len(dist) \in Nat
          /\ \A i \in 1..(Len(dist) - 1) : dist[i] \in Bundles
      BY <1>0 DEF ListsTypeInv
    <3>3. dist' \in Seq(Bundles)
      BY <3>1, <3>2, SubSeqProperties
    <3>4. snaps \in Seq(FitSnapshots) /\ Len(snaps) \in Nat
      BY <1>0 DEF ListsTypeInv
    <3> QED  BY <1>0, <3>1, <3>3, <3>4 DEF ListsTypeInv
  <2>6. ASSUME NEW keep \in 1..MaxDist, CloseBundle(keep) PROVE ListsTypeInv'
    <3>1. op'.at \notin {"archive", "encrypt"}
      BY <1>0, <2>6, GoFacts, IdleFacts DEF CloseBundle, End, OpInv, Ats
    <3>2. op.at = "encrypt" /\ UNCHANGED <<snaps, ops, troubles>> /\ dist' \in Seq(Bundles)
      BY <1>0, <2>6, CloseBundleFacts
    <3> QED  BY <1>0, <3>1, <3>2 DEF ListsTypeInv
  <2>7. CASE OpenArchive
    <3>1. op.at = "open" /\ UNCHANGED <<archiveVars, ops, troubles>>
      BY <2>7 DEF OpenArchive, bounds
    <3>2. op'.at \notin {"archive", "encrypt"}
      BY <1>0, <1>2, <3>1, OpensFacts, IdleFacts DEF Passes
    <3> QED  BY <1>0, <3>1, <3>2, ListsStay
  <2> QED  BY <1>2, <2>1, <2>2, <2>3, <2>4, <2>5, <2>6, <2>7 DEF Opens
<1>3. CASE Stops
  BY <1>0, <1>3, StopFacts, IdleFacts, ListsStay
<1>4. CASE Prunes
  <2>1. ASSUME NEW keep \in 0..Retain, PruneSnapshots(keep) PROVE ListsTypeInv'
    <3>1. snaps' \in Seq(FitSnapshots) /\ Len(snaps') <= Len(snaps) /\ Len(snaps') \in Nat
      BY <1>0, <2>1, PrunedFacts DEF PruneSnapshots, ListsTypeInv
    <3>2. op' = op /\ op.at = "idle" /\ dist' = dist /\ troubles' = troubles /\ ops' = ops + 1
      BY <1>0, <2>1 DEF PruneSnapshots, OpInv, OnWay
    <3>3. Len(snaps) \in Nat /\ snaps \in Seq(FitSnapshots)
      BY <1>0 DEF ListsTypeInv
    <3> QED  BY <1>0, <3>1, <3>2, <3>3 DEF ListsTypeInv
  <2>2. CASE UNCHANGED archivesVars
    BY <1>0, <2>2 DEF ListsTypeInv, archivesVars, archiveVars, bounds
  <2> QED  BY <1>4, <2>1, <2>2 DEF Prunes, Rest
<1>5. ASSUME NEW m \in op.left, LayFile(m) PROVE ListsTypeInv'
  BY <1>0, <1>5, LayFileFacts, ListsStay DEF bounds
<1>6. ASSUME NEW m \in op.left, LayFileCut(m) PROVE ListsTypeInv'
  BY <1>0, <1>6, LayFileCutFacts, IdleFacts, ListsStay
<1>7. ASSUME NEW m \in op.left, LayMember(m) PROVE ListsTypeInv'
  <2>1. op.at = "lay" /\ op'.at \in {"lay", "render"} /\ UNCHANGED <<archiveVars, ops, troubles>>
    BY <1>0, <1>7, LayMemberFacts DEF bounds
  <2> QED  BY <1>0, <2>1, ListsStay
<1>8. CASE Mint
  <2>1. op.at = "mint" /\ op' = Idle /\ UNCHANGED <<archiveVars, ops, troubles>>
    BY <1>0, <1>8, MintFacts DEF bounds
  <2> QED  BY <1>0, <2>1, IdleFacts, ListsStay
<1>9. CASE Purges
  <2>1. /\ op.at # "archive" /\ op'.at \notin {"archive", "encrypt"}
        /\ UNCHANGED <<archiveVars, ops, troubles>>
    BY <1>0, <1>9, PurgesFacts, IdleFacts DEF bounds
  <2> QED  BY <1>0, <2>1, ListsStay
<1>10. CASE Moves
  <2>1. CASE Render
    BY <1>0, <2>1, RenderFacts, IdleFacts, ListsStay DEF bounds
  <2>2. CASE MoveTree \/ SaveRoot \/ SaveRootFails \/ SaveRecords
    <3>1. /\ op.at # "archive" /\ op'.at \notin {"archive", "encrypt"}
          /\ UNCHANGED <<archiveVars, ops>> /\ troubles' \in {troubles, troubles + 1}
      BY <1>0, <2>2, MoveFacts, IdleFacts
    <3> QED  BY <1>0, <3>1, ListsStay
  <2> QED  BY <1>10, <2>1, <2>2 DEF Moves
<1> QED  BY <1>1, <1>2, <1>3, <1>4, <1>5, <1>6, <1>7, <1>8, <1>9, <1>10, StepKinds DEF Lays

-----------------------------------------------------------------------------
(* The command, step by step.                                              *)

\* With no command under way there is nothing to know of one.
LEMMA IdleKnowsNothing ==
    ASSUME op' = Idle
    PROVE  /\ OpInv' /\ RestoreInv' /\ UnbundleInv' /\ PurgeInv' /\ ~Moving'
           /\ op'.kind = "none" /\ op'.at = "idle"
BY IdleFacts DEF OpInv, OnWay, RestoreInv, UnbundleInv, PurgeInv, Moving

\* Every step leaves a command that is on its way, and knows what it works on.
LEMMA OpStep ==
    ASSUME IInv, [Next]_archivesVars
    PROVE  OpInv'
<1>0. HomeTypeInv /\ OpInv /\ ListsTypeInv /\ op \in Commands /\ OnWay(op.kind, op.at)
  BY DEF IInv, OpInv
<1>1. CASE Starts
  <2>1. manifest' = manifest
    BY <1>0, <1>1, StartFacts DEF homeVars
  <2>2. op'.kind = "unbundle" => op'.at \notin {"lay", "render"}
    BY <1>0, <1>1, StartFacts
  <2>3. op'.kind = "move" => op'.at \notin {"records", "render"} /\ manifest.root \in Root
    BY <1>0, <1>1, StartFacts DEF HomeTypeInv, Manifests
  <2> QED  BY <1>0, <1>1, <2>1, <2>2, <2>3, StartFacts DEF OpInv
<1>2. CASE Opens
  <2>0. op' = Idle \/ (/\ op' \in Commands /\ OnWay(op'.kind, op'.at) /\ Passes
                       /\ op'.kind = op.kind /\ op'.slot = op.slot /\ op'.from = op.from
                       /\ op'.wanted = op.wanted /\ op'.source = op.source
                       /\ op.at # "open" => op'.to = op.to /\ op'.left = op.left)
    BY <1>0, <1>2, OpensFacts
  <2>1. manifest' = manifest
    BY <1>0, <1>2, OpensFacts DEF homeVars
  <2>2. CASE op' = Idle
    BY <2>2, IdleKnowsNothing
  <2>3. CASE op' # Idle
    <3>1. op.at = "open" => op.kind = "unbundle"
      BY <1>0 DEF OnWay
    <3>2. op.at \notin {"records", "render", "lay"} /\ op'.at \notin {"records", "render"}
      BY <2>0, <2>3 DEF Passes
    <3>3. op'.kind = "unbundle" => 
             /\ op'.source \in Bundles
             /\ op'.at \in {"lay", "render"} =>
                   op'.to = op'.source.manifest.root /\ op'.left \subseteq BundleMembers(op'.source)
             /\ op'.at = "render" => op'.left = {}
      BY <1>0, <2>0, <2>3, <3>2 DEF Passes, OpInv
    <3>4. op'.kind = "restore" =>
             /\ op'.source \in FitSnapshots /\ op'.wanted = op'.source
             /\ op'.left \subseteq Members(op'.source.files)
      BY <1>0, <2>0, <2>3, <3>1 DEF OpInv
    <3>5. op'.kind = "move" =>
             /\ op'.from \in Root /\ op'.to \in Root /\ op'.from # op'.to
             /\ manifest'.root = op'.from
      BY <1>0, <2>0, <2>1, <2>3, <3>1, <3>2 DEF OpInv
    <3>6. /\ op'.kind \in {"add", "purge"} => op'.slot \in Slot
          /\ op'.kind = "purge" => op'.from = manifest'.root
      BY <1>0, <2>0, <2>1, <2>3 DEF OpInv
    <3> QED  BY <2>0, <2>3, <3>2, <3>3, <3>4, <3>5, <3>6 DEF OpInv
  <2> QED  BY <2>2, <2>3
<1>3. CASE Stops
  BY <1>0, <1>3, StopFacts, IdleKnowsNothing
<1>4. CASE Prunes
  BY <1>0, <1>4, PrunesFacts DEF OpInv, homeVars
<1>5. ASSUME NEW m \in op.left, LayFile(m) PROVE OpInv'
  BY <1>0, <1>5, LayFileFacts DEF OpInv, OnWay
<1>6. ASSUME NEW m \in op.left, LayFileCut(m) PROVE OpInv'
  BY <1>0, <1>6, LayFileCutFacts, IdleKnowsNothing
<1>7. ASSUME NEW m \in op.left, LayMember(m) PROVE OpInv'
  BY <1>0, <1>7, LayMemberFacts DEF OpInv, OnWay
<1>8. CASE Mint
  BY <1>0, <1>8, MintFacts, IdleKnowsNothing
<1>9. CASE Purges
  <2>1. CASE op' = Idle
    BY <2>1, IdleKnowsNothing
  <2>2. CASE op' # Idle
    <3>1. /\ op' \in Commands /\ op'.kind = "purge" /\ op'.slot \in Slot
          /\ op'.from = op.from /\ op'.at \in {"unrecord", "rmPriv", "rmPub"}
      BY <1>0, <1>9, <2>2, PurgesFacts
    <3>2. manifest'.root = op.from
      BY <1>0, <1>9, PurgesFacts
    <3> QED  BY <3>1, <3>2 DEF OpInv, OnWay
  <2> QED  BY <2>1, <2>2
<1>10. CASE Moves
  <2>1. CASE Render
    BY <1>0, <2>1, RenderFacts, IdleKnowsNothing
  <2>2. CASE MoveTree \/ SaveRoot \/ SaveRootFails \/ SaveRecords
    <3>1. CASE op' = Idle
      BY <3>1, IdleKnowsNothing
    <3>2. CASE op' # Idle
      <4>1. /\ op' \in Commands /\ op'.kind = "move" /\ op'.from = op.from /\ op'.to = op.to
            /\ op.from \in Root /\ op.to \in Root /\ op.from # op.to /\ op.kind = "move"
        BY <1>0, <2>2, <3>2, MoveFacts
      <4>2. \/ op.at = "rename" /\ op'.at = "manifest" /\ manifest' = manifest
            \/ op.at = "manifest" /\ op'.at = "records" /\ manifest'.root = op.to
            \/ op.at = "records" /\ op'.at = "render" /\ manifest' = manifest
        BY <1>0, <2>2, <3>2, MoveFacts
      <4>3. manifest'.root = IF op'.at \in {"records", "render"} THEN op'.to ELSE op'.from
        BY <1>0, <4>1, <4>2 DEF OpInv
      <4> QED  BY <4>1, <4>2, <4>3 DEF OpInv, OnWay
    <3> QED  BY <3>1, <3>2
  <2> QED  BY <1>10, <2>1, <2>2 DEF Moves
<1> QED  BY <1>1, <1>2, <1>3, <1>4, <1>5, <1>6, <1>7, <1>8, <1>9, <1>10, StepKinds DEF Lays

-----------------------------------------------------------------------------
(* The home, step by step.                                                 *)

\* A command that starts, archives or stops, and pruning, touch nothing of the home.
LEMMA QuietFacts ==
    ASSUME HomeTypeInv, ListsTypeInv, OpInv, Starts \/ Opens \/ Stops \/ Prunes
    PROVE  UNCHANGED <<priv, pub, dirs, config, manifest, inv, torn>>
BY StartFacts, OpensFacts, StopFacts, PrunesFacts DEF homeVars, sshVars

\* The halves of a pair are of one key, but where the pair is torn.
LEMMA PairsStep ==
    ASSUME IInv, [Next]_archivesVars
    PROVE  PairsBelong'
<1>0. HomeTypeInv /\ OpInv /\ ListsTypeInv /\ PairsBelong
  BY DEF IInv
<1>1. CASE Starts \/ Opens \/ Stops \/ Prunes
  BY <1>0, <1>1, QuietFacts DEF PairsBelong
<1>2. ASSUME NEW m \in op.left, LayFile(m) PROVE PairsBelong'
  <2>1. /\ priv' = priv /\ torn' = torn
        /\ \/ pub' = pub
           \/ \E r \in Root, s \in Slot :
                 /\ <<r, s>> \in Places /\ op.source.files.pub[<<r, s>>] \in Key
                 /\ ~Foreign(r, s, op.source.files.pub[<<r, s>>])
                 /\ pub' = [pub EXCEPT ![<<r, s>>] = op.source.files.pub[<<r, s>>]]
    BY <1>0, <1>2, LayFileFacts, Zenon
  <2>2. CASE pub' = pub
    BY <1>0, <2>1, <2>2 DEF PairsBelong
  <2>3. ASSUME NEW r \in Root, NEW s \in Slot, NEW want \in Key, <<r, s>> \in Places,
               ~Foreign(r, s, want), pub' = [pub EXCEPT ![<<r, s>>] = want]
        PROVE  PairsBelong'
    <3> DEFINE x == <<r, s>>
    <3>1. priv[x] = None \/ pub[x] = want \/ priv[x] = want
      BY <2>3 DEF Foreign
    <3>2. pub'[x] = want /\ \A y \in Places : y # x => pub'[y] = pub[y]
      BY <1>0, <2>3 DEF HomeTypeInv, Halves
    <3>3. None # want
      BY ArchivesAssumption
    <3> QED  BY <1>0, <2>1, <3>1, <3>2, <3>3 DEF PairsBelong
  <2> QED  BY <2>1, <2>2, <2>3
<1>3. ASSUME NEW m \in op.left, LayFileCut(m) PROVE PairsBelong'
  <2>1. priv' = priv /\ torn' = torn /\ \A x \in Places : pub'[x] \in {pub[x], None}
    BY <1>0, <1>3, LayFileCutFacts DEF HomeTypeInv, Halves
  <2> QED  BY <1>0, <2>1 DEF PairsBelong
<1>4. ASSUME NEW m \in op.left, LayMember(m) PROVE PairsBelong'
  <2>1. torn' = {y \in Places : None \notin {priv'[y], pub'[y]} /\ priv'[y] # pub'[y]}
    BY <1>0, <1>4, LayMemberFacts
  <2> QED  BY <2>1 DEF PairsBelong
<1>5. CASE Mint
  <2> DEFINE x == <<manifest.root, op.slot>>
  <2>1. \/ UNCHANGED <<priv, pub, torn>>
        \/ \E k \in Key : /\ priv' = [priv EXCEPT ![x] = k] /\ pub' = [pub EXCEPT ![x] = k]
                          /\ torn' = torn \ {x} /\ x \in Places
    BY <1>0, <1>5, MintFacts
  <2> HIDE DEF x
  <2> QED  BY <1>0, <2>1 DEF PairsBelong, HomeTypeInv, Halves
<1>6. CASE Purges
  <2>1. /\ torn' = torn
        /\ \A x \in Places : priv'[x] \in {priv[x], None} /\ pub'[x] \in {pub[x], None}
    BY <1>0, <1>6, PurgesFacts DEF HomeTypeInv, Halves
  <2> QED  BY <1>0, <2>1 DEF PairsBelong
<1>7. CASE Moves
  <2>1. CASE Render
    BY <1>0, <2>1, RenderFacts DEF PairsBelong
  <2>2. ASSUME NEW from \in Root, NEW to \in Root, from # to, RenameTree(from, to)
        PROVE  PairsBelong'
    <3> SUFFICES ASSUME NEW x \in Places, x \notin torn', priv'[x] # None, pub'[x] # None
                 PROVE  priv'[x] = pub'[x]
      BY DEF PairsBelong
    <3>1. PICK r \in Root, s \in Slot : x = <<r, s>>
      BY DEF Places
    <3>2. CASE r = to
      <4>1. <<from, s>> \in Places
        BY DEF Places
      <4> QED  BY <1>0, <2>2, <3>1, <3>2, <4>1, RenameTreeFacts DEF PairsBelong
    <3>3. CASE r = from
      BY <1>0, <2>2, <3>1, <3>3, RenameTreeFacts
    <3>4. CASE r \notin {from, to}
      BY <1>0, <2>2, <3>1, <3>4, RenameTreeFacts DEF PairsBelong
    <3> QED  BY <3>2, <3>3, <3>4
  <2>3. CASE MoveTree \/ SaveRoot \/ SaveRootFails \/ SaveRecords
    <3>1. /\ op.from \in Root /\ op.to \in Root /\ op.from # op.to
          /\ \/ UNCHANGED <<priv, pub, dirs, torn>>
             \/ RenameTree(op.from, op.to) \/ RenameTree(op.to, op.from)
      BY <1>0, <2>3, MoveFacts DEF PutBack
    <3> QED  BY <1>0, <2>2, <3>1 DEF PairsBelong
  <2> QED  BY <1>7, <2>1, <2>3 DEF Moves
<1> QED  BY <1>1, <1>2, <1>3, <1>4, <1>5, <1>6, <1>7, StepKinds DEF Lays

\* No step puts half of a key where there is no directory.
LEMMA DirsStep ==
    ASSUME IInv, [Next]_archivesVars
    PROVE  DirsInv'
<1>0. HomeTypeInv /\ OpInv /\ ListsTypeInv /\ DirsInv
  BY DEF IInv
<1>1. CASE Starts \/ Opens \/ Stops \/ Prunes
  BY <1>0, <1>1, QuietFacts DEF DirsInv
<1>2. ASSUME dirs \subseteq dirs',
             NEW x \in Places, x[1] \in dirs',
             \A y \in Places : y # x => priv'[y] \in {priv[y], None} /\ pub'[y] \in {pub[y], None}
      PROVE  DirsInv'
  BY <1>0, <1>2 DEF DirsInv
<1>3. ASSUME dirs \subseteq dirs',
             \A y \in Places : priv'[y] \in {priv[y], None} /\ pub'[y] \in {pub[y], None}
      PROVE  DirsInv'
  BY <1>0, <1>3 DEF DirsInv
<1>4. ASSUME NEW m \in op.left, LayFile(m) PROVE DirsInv'
  <2>1. /\ priv' = priv
        /\ \/ pub' = pub /\ dirs \subseteq dirs'
           \/ \E r \in Root, s \in Slot :
                 /\ <<r, s>> \in Places /\ dirs' = dirs \cup {r}
                 /\ pub' = [pub EXCEPT ![<<r, s>>] = op.source.files.pub[<<r, s>>]]
    BY <1>0, <1>4, LayFileFacts, Zenon
  <2>2. CASE pub' = pub /\ dirs \subseteq dirs'
    BY <1>3, <2>1, <2>2
  <2>3. ASSUME NEW r \in Root, NEW s \in Slot, <<r, s>> \in Places, dirs' = dirs \cup {r},
               pub' = [pub EXCEPT ![<<r, s>>] = op.source.files.pub[<<r, s>>]]
        PROVE  DirsInv'
    <3>1. \A y \in Places : y # <<r, s>> => pub'[y] = pub[y]
      BY <1>0, <2>3 DEF HomeTypeInv, Halves
    <3>2. <<r, s>>[1] \in dirs'
      BY <2>3
    <3> QED  BY <1>2, <2>1, <2>3, <3>1, <3>2
  <2> QED  BY <2>1, <2>2, <2>3
<1>5. ASSUME NEW m \in op.left, LayFileCut(m) PROVE DirsInv'
  <2>1. priv' = priv /\ dirs' = dirs /\ \A x \in Places : pub'[x] \in {pub[x], None}
    BY <1>0, <1>5, LayFileCutFacts DEF HomeTypeInv, Halves
  <2> QED  BY <1>3, <2>1
<1>6. ASSUME NEW m \in op.left, LayMember(m) PROVE DirsInv'
  <2>1. \/ UNCHANGED <<priv, pub, dirs>>
        \/ \E s \in Slot : /\ <<op.to, s>> \in Places /\ dirs' = dirs \cup {op.to} /\ pub' = pub
                           /\ priv' = [priv EXCEPT ![<<op.to, s>>] = op.source.pairs.priv[s]]
        \/ \E s \in Slot : /\ <<op.to, s>> \in Places /\ dirs' = dirs \cup {op.to} /\ priv' = priv
                           /\ pub' = [pub EXCEPT ![<<op.to, s>>] = op.source.pairs.pub[s]]
    BY <1>0, <1>6, LayMemberFacts, Zenon
  <2>2. CASE UNCHANGED <<priv, pub, dirs>>
    BY <1>3, <2>2
  <2>3. CASE ~UNCHANGED <<priv, pub, dirs>>
    <3>1. PICK s \in Slot : 
             /\ <<op.to, s>> \in Places /\ dirs' = dirs \cup {op.to}
             /\ \/ /\ pub' = pub
                   /\ priv' = [priv EXCEPT ![<<op.to, s>>] = op.source.pairs.priv[s]]
                \/ /\ priv' = priv
                   /\ pub' = [pub EXCEPT ![<<op.to, s>>] = op.source.pairs.pub[s]]
      BY <2>1, <2>3, Zenon
    <3>2. \A y \in Places : y # <<op.to, s>> => priv'[y] = priv[y] /\ pub'[y] = pub[y]
      BY <1>0, <3>1 DEF HomeTypeInv, Halves
    <3>3. <<op.to, s>>[1] \in dirs' /\ dirs \subseteq dirs'
      BY <3>1
    <3> QED  BY <1>2, <3>1, <3>2, <3>3
  <2> QED  BY <2>2, <2>3
<1>7. CASE Mint
  <2> DEFINE x == <<manifest.root, op.slot>>
  <2>1. /\ x \in Places /\ dirs' = dirs \cup {manifest.root}
        /\ \/ UNCHANGED <<priv, pub>>
           \/ \E k \in Key : priv' = [priv EXCEPT ![x] = k] /\ pub' = [pub EXCEPT ![x] = k]
    BY <1>0, <1>7, MintFacts
  <2>2. x[1] \in dirs'
    BY <2>1
  <2> HIDE DEF x
  <2>3. \A y \in Places : y # x => priv'[y] = priv[y] /\ pub'[y] = pub[y]
    BY <1>0, <2>1 DEF HomeTypeInv, Halves
  <2> QED  BY <1>2, <2>1, <2>2, <2>3
<1>8. CASE Purges
  <2>1. /\ dirs' = dirs
        /\ \A x \in Places : priv'[x] \in {priv[x], None} /\ pub'[x] \in {pub[x], None}
    BY <1>0, <1>8, PurgesFacts DEF HomeTypeInv, Halves
  <2> QED  BY <1>3, <2>1
<1>9. CASE Moves
  <2>1. CASE Render
    <3>1. UNCHANGED <<priv, pub>> /\ dirs \subseteq dirs'
      BY <1>0, <2>1, RenderFacts
    <3> QED  BY <1>3, <3>1
  <2>2. ASSUME NEW from \in Root, NEW to \in Root, from # to, RenameTree(from, to)
        PROVE  DirsInv'
    <3>0. \A s \in Slot : priv'[<<from, s>>] = None /\ pub'[<<from, s>>] = None
      <4>1. /\ priv \in Halves /\ priv' = Renamed(priv, from, to)
            /\ pub \in Halves /\ pub' = Renamed(pub, from, to)
        BY <1>0, <2>2 DEF RenameTree, HomeTypeInv
      <4>2. \A s \in Slot : priv'[<<from, s>>] = None
        BY <2>2, <4>1, RenamedFacts
      <4>3. \A s \in Slot : pub'[<<from, s>>] = None
        BY <2>2, <4>1, RenamedFacts
      <4> QED  BY <4>2, <4>3
    <3> SUFFICES ASSUME NEW r \in Root, NEW s \in Slot
                 PROVE  priv'[<<r, s>>] # None \/ pub'[<<r, s>>] # None => r \in dirs'
      BY DEF DirsInv, Places
    <3>1. dirs' = (dirs \ {from}) \cup {to}
      BY <1>0, <2>2, RenameTreeFacts
    <3>2. CASE r = from
      BY <3>0, <3>2
    <3>3. CASE r = to
      BY <3>1, <3>3
    <3>4. CASE r \notin {from, to}
      <4>1. <<r, s>> \in Places
        BY DEF Places
      <4>2. priv'[<<r, s>>] = priv[<<r, s>>] /\ pub'[<<r, s>>] = pub[<<r, s>>]
        BY <1>0, <2>2, <3>4, <4>1, RenameTreeFacts
      <4> QED  BY <1>0, <3>1, <3>4, <4>1, <4>2 DEF DirsInv
    <3> QED  BY <3>2, <3>3, <3>4
  <2>3. CASE MoveTree \/ SaveRoot \/ SaveRootFails \/ SaveRecords
    <3>1. /\ op.from \in Root /\ op.to \in Root /\ op.from # op.to
          /\ \/ UNCHANGED <<priv, pub, dirs, torn>>
             \/ RenameTree(op.from, op.to) \/ RenameTree(op.to, op.from)
      BY <1>0, <2>3, MoveFacts DEF PutBack
    <3> QED  BY <1>0, <2>2, <3>1 DEF DirsInv
  <2> QED  BY <1>9, <2>1, <2>3 DEF Moves
<1> QED  BY <1>1, <1>4, <1>5, <1>6, <1>7, <1>8, <1>9, StepKinds DEF Lays

-----------------------------------------------------------------------------
(* The config and the records.                                             *)

\* Every step keeps the config with the key root, or leaves its mark.
LEMMA ConfigStep ==
    ASSUME IInv, [Next]_archivesVars
    PROVE  ConfigInv'
<1>0. HomeTypeInv /\ OpInv /\ ListsTypeInv /\ ConfigInv
  BY DEF IInv
<1>1. CASE Starts
  <2>1. UNCHANGED <<config, manifest, astray>> /\ op'.at \notin {"records", "render"}
        /\ op.kind = "none"
    BY <1>0, <1>1, StartFacts DEF homeVars, sshVars
  <2> QED  BY <1>0, <2>1 DEF ConfigInv
<1>2. CASE Opens
  <2>1. UNCHANGED <<config, manifest, astray>>
    BY <1>0, <1>2, OpensFacts DEF homeVars, sshVars
  <2>2. op.at \notin {"records", "render"}
    BY <1>2 DEF Opens, OpenSnapshot, CloseSnapshot, SnapshotFails, OpenBundle, BundleFails,
                CloseBundle, OpenArchive
  <2> QED  BY <1>0, <2>1, <2>2 DEF ConfigInv
<1>3. CASE Stops
  <2>1. /\ UNCHANGED <<config, manifest>> /\ astray \subseteq astray' /\ op' = Idle
        /\ "config" \notin astray' => ~(op.kind = "move" /\ op.at \in {"records", "render"})
    BY <1>0, <1>3, StopFacts DEF homeVars, sshVars
  <2> QED  BY <1>0, <2>1 DEF ConfigInv
<1>4. CASE Prunes
  BY <1>0, <1>4, PrunesFacts DEF ConfigInv, homeVars, sshVars
<1>5. ASSUME NEW m \in op.left, LayFile(m) PROVE ConfigInv'
  <2>1. /\ manifest' = manifest /\ op.kind = "restore"
        /\ \/ UNCHANGED <<config, astray>>
           \/ /\ config' = op.source.files.config
              /\ astray' = (astray \ {"config"}) \cup Strayed(config')
    BY <1>0, <1>5, LayFileFacts
  <2> QED  BY <1>0, <2>1 DEF ConfigInv, Strayed
<1>6. ASSUME NEW m \in op.left, LayFileCut(m) PROVE ConfigInv'
  BY <1>0, <1>6, LayFileCutFacts DEF ConfigInv
<1>7. ASSUME NEW m \in op.left, LayMember(m) PROVE ConfigInv'
  BY <1>0, <1>7, LayMemberFacts DEF ConfigInv
<1>8. CASE Mint
  BY <1>0, <1>8, MintFacts DEF ConfigInv
<1>9. CASE Purges
  <2>1. UNCHANGED <<config, astray>> /\ manifest'.root = manifest.root /\ op.kind = "purge"
    BY <1>0, <1>9, PurgesFacts
  <2> QED  BY <1>0, <2>1 DEF ConfigInv
<1>10. CASE Moves
  <2>1. CASE Render
    BY <1>0, <2>1, RenderFacts DEF ConfigInv
  <2>2. CASE MoveTree \/ SaveRoot \/ SaveRootFails \/ SaveRecords
    <3>1. UNCHANGED <<config, astray>>
      BY <1>0, <2>2, MoveFacts
    <3>2. \/ op.at \in {"rename", "manifest"} /\ manifest' = manifest
          \/ op'.kind = "move" /\ op'.at \in {"records", "render"}
      BY <1>0, <2>2, MoveFacts, IdleFacts
    <3> QED  BY <1>0, <3>1, <3>2 DEF ConfigInv
  <2> QED  BY <1>10, <2>1, <2>2 DEF Moves
<1> QED  BY <1>1, <1>2, <1>3, <1>4, <1>5, <1>6, <1>7, <1>8, <1>9, <1>10, StepKinds DEF Lays

\* Where a move is not under way, the records stay true if their keys do.
LEMMA RecordsStay ==
    ASSUME RecordsInv, "records" \notin astray' => "records" \notin astray /\ ~Moving /\ ~Moving',
           manifest'.root = manifest.root, inv' \subseteq inv,
           "records" \notin astray' =>
               \A r \in inv' : LET x == <<manifest.root, r.slot>> IN
                               priv'[x] = priv[x] /\ (x \in torn => x \in torn'),
           op'.kind = "purge" /\ op'.at \in {"rmPriv", "rmPub"} =>
               \/ \A r \in inv' : r.slot # op'.slot
               \/ op.kind = "purge" /\ op.at \in {"rmPriv", "rmPub"} /\ op'.slot = op.slot
    PROVE  RecordsInv'
<1> SUFFICES ASSUME "records" \notin astray'
             PROVE  /\ Recorded(manifest.root, manifest.root)'
                    /\ op'.kind = "purge" /\ op'.at \in {"rmPriv", "rmPub"} =>
                          \A r \in inv' : r.slot # op'.slot
  BY DEF RecordsInv
<1>1. Recorded(manifest.root, manifest.root)
  BY DEF RecordsInv
<1>2. Recorded(manifest.root, manifest.root)'
  BY <1>1 DEF Recorded
<1> QED  BY <1>2 DEF RecordsInv

\* Every step keeps the records true of the keys, or leaves its mark.
LEMMA RecordsStep ==
    ASSUME IInv, [Next]_archivesVars
    PROVE  RecordsInv'
<1>0. HomeTypeInv /\ OpInv /\ ListsTypeInv /\ RecordsInv /\ PairsBelong /\ DirsInv /\ UnbundleInv
  BY DEF IInv
<1> SUFFICES ASSUME "records" \notin astray' PROVE RecordsInv'
  BY DEF RecordsInv
<1>1. CASE Starts
  <2>1. /\ UNCHANGED <<priv, manifest, inv, torn, astray>> /\ op.kind = "none"
        /\ op'.at \notin {"manifest", "records", "rmPriv", "rmPub"}
    BY <1>0, <1>1, StartFacts DEF homeVars, sshVars
  <2> QED  BY <1>0, <2>1, RecordsStay DEF Moving
<1>2. CASE Opens
  <2>1. UNCHANGED <<priv, manifest, inv, torn, astray>>
    BY <1>0, <1>2, OpensFacts DEF homeVars, sshVars
  <2>2. op.at \notin {"manifest", "records", "rmPriv", "rmPub"}
    BY <1>2 DEF Opens, OpenSnapshot, CloseSnapshot, SnapshotFails, OpenBundle, BundleFails,
                CloseBundle, OpenArchive
  <2>3. op'.at \notin {"manifest", "records", "rmPriv", "rmPub"}
    BY <1>0, <1>2, OpensFacts, IdleFacts DEF Passes
  <2> QED  BY <1>0, <2>1, <2>2, <2>3, RecordsStay DEF Moving
<1>3. CASE Stops
  <2>1. /\ UNCHANGED <<priv, manifest, inv, torn>> /\ astray \subseteq astray' /\ op' = Idle
        /\ "records" \notin astray' => ~Moving
    BY <1>0, <1>3, StopFacts DEF homeVars, sshVars
  <2> QED  BY <1>0, <2>1, RecordsStay, IdleFacts DEF Moving
<1>4. CASE Prunes
  <2>1. UNCHANGED <<priv, manifest, inv, torn, astray, op>>
    BY <1>4, PrunesFacts DEF homeVars, sshVars
  <2> QED  BY <1>0, <2>1 DEF RecordsInv, Moving, Recorded
<1>5. ASSUME NEW m \in op.left, LayFile(m) PROVE RecordsInv'
  <2>1. /\ UNCHANGED <<priv, manifest, inv, torn>> /\ op.kind = "restore" /\ op'.kind = "restore"
        /\ "records" \in astray => "records" \in astray'
    BY <1>0, <1>5, LayFileFacts
  <2> QED  BY <1>0, <2>1, RecordsStay DEF Moving
<1>6. ASSUME NEW m \in op.left, LayFileCut(m) PROVE RecordsInv'
  <2>1. UNCHANGED <<priv, manifest, inv, torn, astray>> /\ op.kind = "restore" /\ op' = Idle
    BY <1>0, <1>6, LayFileCutFacts
  <2> QED  BY <1>0, <2>1, RecordsStay, IdleFacts DEF Moving
<1>7. ASSUME NEW m \in op.left, LayMember(m) PROVE RecordsInv'
  BY <1>0, <1>7, LayMemberFacts
<1>8. CASE Mint
  <2> DEFINE root == manifest.root
             x == <<root, op.slot>>
             record(k) == [key |-> k, root |-> root, slot |-> op.slot]
  <2>1. /\ op.kind = "add" /\ op' = Idle /\ astray' = astray
        /\ root \in Root /\ op.slot \in Slot /\ x \in Places /\ manifest'.root = root
        /\ \/ /\ priv[x] = None
              /\ \E k \in Key :
                    /\ priv' = [priv EXCEPT ![x] = k] /\ pub' = [pub EXCEPT ![x] = k]
                    /\ inv' = inv \cup {record(k)} /\ torn' = torn \ {x}
           \/ /\ priv[x] # None /\ UNCHANGED <<priv, pub, torn>>
              /\ \/ inv' = inv
                 \/ \E k \in Key : /\ k = IF pub[x] # None THEN pub[x] ELSE priv[x]
                                   /\ inv' = inv \cup {record(k)}
    BY <1>0, <1>8, MintFacts
  <2>2. \A k \in Key : record(k).key = k /\ record(k).root = root /\ record(k).slot = op.slot
    OBVIOUS
  <2>3. Recorded(root, root)
    BY <1>0, <2>1 DEF RecordsInv, Moving
  <2> HIDE DEF record
  <2>4. ASSUME NEW k \in Key, priv[x] = None,
               priv' = [priv EXCEPT ![x] = k], inv' = inv \cup {record(k)}, torn' = torn \ {x}
        PROVE  Recorded(root, root)'
    <3>1. priv'[x] = k /\ k # None /\ \A y \in Places : y # x => priv'[y] = priv[y]
      BY <1>0, <2>1, <2>4, ArchivesAssumption DEF HomeTypeInv, Halves
    <3>2. ASSUME NEW r \in inv
          PROVE  /\ r.root = root /\ priv'[<<root, r.slot>>] # None
                 /\ <<root, r.slot>> \in torn' \/ priv'[<<root, r.slot>>] = r.key
      <4>1. /\ r.root = root /\ priv[<<root, r.slot>>] # None /\ <<root, r.slot>> \in Places
            /\ <<root, r.slot>> \in torn \/ priv[<<root, r.slot>>] = r.key
        BY <1>0, <2>1, <2>3 DEF Recorded, HomeTypeInv, Records, Places
      <4>2. <<root, r.slot>> # x
        BY <2>4, <4>1
      <4> QED  BY <2>4, <3>1, <4>1, <4>2
    <3>3. /\ record(k).root = root /\ <<root, record(k).slot>> = x
          /\ priv'[x] = record(k).key /\ priv'[x] # None
      BY <2>2, <3>1
    <3>4. root' = root
      BY <2>1
    <3> HIDE DEF x, root
    <3> QED  BY <2>4, <3>2, <3>3, <3>4 DEF Recorded
  <2>5. ASSUME NEW k \in Key, priv[x] # None, UNCHANGED <<priv, torn>>,
               k = IF pub[x] # None THEN pub[x] ELSE priv[x], inv' = inv \cup {record(k)}
        PROVE  Recorded(root, root)'
    <3>1. x \in torn \/ priv[x] = k
      BY <1>0, <2>1, <2>5 DEF PairsBelong
    <3>2. /\ record(k).root = root /\ <<root, record(k).slot>> = x /\ record(k).key = k
      BY <2>2
    <3>3. root' = root
      BY <2>1
    <3> HIDE DEF x, root
    <3> QED  BY <2>3, <2>5, <3>1, <3>2, <3>3 DEF Recorded
  <2>6. ASSUME UNCHANGED <<priv, torn>>, inv' = inv
        PROVE  Recorded(root, root)'
    BY <2>1, <2>3, <2>6 DEF Recorded
  <2>7. Recorded(root, root)'
    BY <2>1, <2>4, <2>5, <2>6, Zenon
  <2> QED  BY <2>1, <2>7, IdleKnowsNothing DEF RecordsInv
<1>9. CASE Purges
  <2> DEFINE x == <<op.from, op.slot>>
  <2>1. /\ op.kind = "purge" /\ op.slot \in Slot /\ op.from = manifest.root /\ x \in Places
        /\ UNCHANGED <<torn, astray>> /\ manifest'.root = manifest.root
        /\ op' = Idle \/ (op'.kind = "purge" /\ op'.slot = op.slot)
    BY <1>0, <1>9, PurgesFacts
  <2>2. Recorded(manifest.root, manifest.root)
    BY <1>0, <2>1 DEF RecordsInv, Moving
  <2>3. ~Moving /\ ~Moving'
    BY <2>1, IdleFacts DEF Moving
  <2>4. CASE op.at = "unrecord" /\ op'.at = "rmPriv" /\ inv' = Without(inv, x) /\ priv' = priv
    <3>1. inv' \subseteq inv /\ \A r \in inv' : r.slot # op.slot
      BY <2>1, <2>2, <2>4 DEF Without, Recorded
    <3> QED  BY <1>0, <2>1, <2>3, <2>4, <3>1, RecordsStay, IdleFacts
  <2>5. CASE op.at = "rmPriv" /\ priv' = [priv EXCEPT ![x] = None] /\ inv' = inv
    <3>1. \A r \in inv : r.slot # op.slot /\ <<manifest.root, r.slot>> \in Places
      BY <1>0, <2>1, <2>5 DEF RecordsInv, HomeTypeInv, Records, Places, Manifests
    <3>2. \A r \in inv : priv'[<<manifest.root, r.slot>>] = priv[<<manifest.root, r.slot>>]
      BY <1>0, <2>1, <2>5, <3>1 DEF HomeTypeInv, Halves
    <3> QED  BY <1>0, <2>1, <2>3, <2>5, <3>1, <3>2, RecordsStay, IdleFacts
  <2>6. CASE op'.at = "unrecord" /\ inv' = inv /\ priv' = priv
    BY <1>0, <2>1, <2>3, <2>6, RecordsStay
  <2>7. CASE op.at = "rmPub" /\ op' = Idle /\ inv' = inv /\ priv' = priv
    BY <1>0, <2>1, <2>3, <2>7, RecordsStay, IdleFacts
  <2>8. \/ op.at = "unrecord" /\ op'.at = "rmPriv" /\ inv' = Without(inv, x) /\ priv' = priv
        \/ op.at = "rmPriv" /\ priv' = [priv EXCEPT ![x] = None] /\ inv' = inv
        \/ op'.at = "unrecord" /\ inv' = inv /\ priv' = priv
        \/ op.at = "rmPub" /\ op' = Idle /\ inv' = inv /\ priv' = priv
    BY <1>0, <1>9, PurgesFacts
  <2> QED  BY <2>4, <2>5, <2>6, <2>7, <2>8
<1>10. CASE MoveTree \/ SaveRoot \/ SaveRootFails \/ SaveRecords
  <2>0. /\ op.kind = "move" /\ op.from \in Root /\ op.to \in Root /\ op.from # op.to
        /\ astray' = astray
        /\ op' = Idle \/ (op'.kind = "move" /\ op'.from = op.from /\ op'.to = op.to)
    BY <1>0, <1>10, MoveFacts
  <2>1. "records" \notin astray
    BY <2>0
  <2>2. CASE op.at = "rename" /\ op' = Idle /\ UNCHANGED <<priv, torn, manifest, inv>>
    BY <1>0, <2>0, <2>2, RecordsStay, IdleFacts DEF Moving
  <2>3. CASE /\ op.at = "rename" /\ op'.at = "manifest" /\ op'.source = TRUE
             /\ RenameTree(op.from, op.to) /\ inv' = inv
    <3>1. Recorded(op.from, op.from)
      BY <1>0, <2>0, <2>1, <2>3 DEF RecordsInv, Moving, OpInv
    <3>2. \A s \in Slot : /\ priv'[<<op.to, s>>] = priv[<<op.from, s>>]
                          /\ <<op.from, s>> \in torn => <<op.to, s>> \in torn'
      BY <1>0, <2>0, <2>3, RenameTreeFacts
    <3>3. \A r \in inv : r.slot \in Slot
      BY <1>0 DEF HomeTypeInv, Records
    <3>4. op'.kind = "move" /\ op'.from = op.from /\ op'.to = op.to
      BY <2>0, <2>3, IdleFacts
    <3>5. Recorded(op.from, op.to)'
      BY <2>3, <3>1, <3>2, <3>3, <3>4 DEF Recorded
    <3> QED  BY <2>3, <3>4, <3>5 DEF RecordsInv, Moving
  <2>4. CASE /\ op.at = "rename" /\ op'.at = "manifest" /\ op'.source = FALSE
             /\ op.from \notin dirs /\ inv' = inv
    <3>1. Recorded(op.from, op.from)
      BY <1>0, <2>0, <2>1, <2>4 DEF RecordsInv, Moving, OpInv
    <3>2. \A r \in inv : <<op.from, r.slot>> \in Places /\ <<op.from, r.slot>>[1] = op.from
      BY <1>0, <2>0 DEF HomeTypeInv, Records, Places
    <3>3. \A r \in inv : priv[<<op.from, r.slot>>] = None
      BY <1>0, <2>4, <3>2 DEF DirsInv
    <3>4. inv = {}
      BY <3>1, <3>3 DEF Recorded
    <3>5. op'.kind = "move"
      BY <2>0, <2>4, IdleFacts
    <3> QED  BY <2>4, <3>4, <3>5 DEF RecordsInv, Moving
  <2>5. CASE /\ op.at = "manifest" /\ op'.at = "records" /\ op'.source = op.source
             /\ UNCHANGED <<priv, torn, inv>>
    <3>1. op'.kind = "move" /\ op'.from = op.from /\ op'.to = op.to
      BY <2>0, <2>5, IdleFacts
    <3>2. Moving
      BY <2>0, <2>5 DEF Moving
    <3>3. (op.source = TRUE /\ Recorded(op.from, op.to)) \/ (op.source = FALSE /\ inv = {})
      BY <1>0, <2>1, <3>2 DEF RecordsInv
    <3>4. Recorded(op.from, op.to) => Recorded(op.from, op.to)'
      BY <2>5, <3>1 DEF Recorded
    <3> QED  BY <2>5, <3>1, <3>3, <3>4 DEF RecordsInv, Moving
  <2>6. CASE op.at = "manifest" /\ op' = Idle /\ PutBack /\ UNCHANGED <<manifest, inv>>
    <3>1. manifest.root = op.from
      BY <1>0, <2>0, <2>6 DEF OpInv
    <3>2. (op.source = TRUE /\ Recorded(op.from, op.to)) \/ (op.source = FALSE /\ inv = {})
      BY <1>0, <2>0, <2>1, <2>6 DEF RecordsInv, Moving
    <3>3. Recorded(manifest.root, manifest.root)'
      <4>1. CASE op.source = TRUE /\ Recorded(op.from, op.to)
        <5>1. RenameTree(op.to, op.from)
          BY <2>6, <4>1 DEF PutBack
        <5>2. \A s \in Slot : /\ priv'[<<op.from, s>>] = priv[<<op.to, s>>]
                              /\ <<op.to, s>> \in torn => <<op.from, s>> \in torn'
          BY <1>0, <2>0, <5>1, RenameTreeFacts
        <5>3. \A r \in inv : r.slot \in Slot
          BY <1>0 DEF HomeTypeInv, Records
        <5> QED  BY <2>6, <3>1, <4>1, <5>2, <5>3 DEF Recorded
      <4>2. CASE inv = {}
        BY <2>6, <3>1, <4>2 DEF Recorded
      <4> QED  BY <3>2, <4>1, <4>2
    <3> QED  BY <2>6, <3>3, IdleKnowsNothing DEF RecordsInv
  <2>7. CASE /\ op.at = "records" /\ op'.at = "render" /\ inv' = MovedRecords
             /\ UNCHANGED <<priv, torn, manifest>>
    <3>1. manifest.root = op.to
      BY <1>0, <2>0, <2>7 DEF OpInv
    <3>2. (op.source = TRUE /\ Recorded(op.from, op.to)) \/ (op.source = FALSE /\ inv = {})
      BY <1>0, <2>0, <2>1, <2>7 DEF RecordsInv, Moving
    <3>3. Recorded(op.from, op.to)
      BY <3>2 DEF Recorded
    <3>4. \A r \in MovedRecords : \E q \in inv :
             /\ r.key = q.key /\ r.slot = q.slot
             /\ r.root = IF q.root = op.from THEN op.to ELSE q.root
      BY <1>0, <2>0, MovedRecordsFacts
    <3>5. \A r \in MovedRecords :
             /\ r.root = op.to /\ priv[<<op.to, r.slot>>] # None
             /\ <<op.to, r.slot>> \in torn \/ priv[<<op.to, r.slot>>] = r.key
      BY <3>3, <3>4 DEF Recorded
    <3>6. Recorded(manifest.root, manifest.root)'
      BY <2>7, <3>1, <3>5 DEF Recorded
    <3>7. op'.kind = "move"
      BY <2>0, <2>7, IdleFacts
    <3> QED  BY <2>7, <3>6, <3>7 DEF RecordsInv, Moving
  <2>8. \/ op.at = "rename" /\ op' = Idle /\ UNCHANGED <<priv, torn, manifest, inv>>
        \/ /\ op.at = "rename" /\ op'.at = "manifest" /\ op'.source = TRUE
           /\ RenameTree(op.from, op.to) /\ inv' = inv
        \/ /\ op.at = "rename" /\ op'.at = "manifest" /\ op'.source = FALSE
           /\ op.from \notin dirs /\ inv' = inv
        \/ /\ op.at = "manifest" /\ op'.at = "records" /\ op'.source = op.source
           /\ UNCHANGED <<priv, torn, inv>>
        \/ op.at = "manifest" /\ op' = Idle /\ PutBack /\ UNCHANGED <<manifest, inv>>
        \/ /\ op.at = "records" /\ op'.at = "render" /\ inv' = MovedRecords
           /\ UNCHANGED <<priv, torn, manifest>>
    BY <1>0, <1>10, MoveFacts
  <2> QED  BY <2>2, <2>3, <2>4, <2>5, <2>6, <2>7, <2>8
<1>11. CASE Render
  <2>1. /\ op.kind \in {"move", "unbundle"} /\ op.at = "render" /\ op' = Idle
        /\ UNCHANGED <<priv, manifest, inv, torn>>
        /\ "records" \in astray => op.kind = "unbundle" /\ Sound(op.source)
    BY <1>0, <1>11, RenderFacts
  <2>2. Recorded(manifest.root, manifest.root)
    <3>1. CASE "records" \notin astray
      BY <1>0, <2>1, <3>1 DEF RecordsInv, Moving
    <3>2. CASE "records" \in astray
      <4> DEFINE b == op.source
      <4>1. op.kind = "unbundle" /\ Sound(b) /\ b \in Bundles /\ op.left = {}
            /\ op.to = b.manifest.root
        BY <1>0, <2>1, <3>2 DEF OpInv
      <4>2. /\ inv = b.inv /\ manifest = b.manifest
            /\ \A s \in Slot : b.pairs.priv[s] # None => priv[<<op.to, s>>] = b.pairs.priv[s]
        BY <1>0, <2>1, <4>1 DEF UnbundleInv
      <4>3. \A r \in b.inv : r.slot \in Slot /\ r.key \in Key
        BY <4>1 DEF Bundles, Records
      <4>4. \A r \in b.inv : r.root = b.manifest.root /\ b.pairs.priv[r.slot] = r.key
        BY <4>1 DEF Sound
      <4>5. \A r \in b.inv : priv[<<op.to, r.slot>>] = r.key /\ r.key # None
        BY <4>2, <4>3, <4>4, ArchivesAssumption
      <4> QED  BY <4>1, <4>2, <4>4, <4>5 DEF Recorded
    <3> QED  BY <3>1, <3>2
  <2>3. Recorded(manifest.root, manifest.root)'
    BY <2>1, <2>2 DEF Recorded
  <2> QED  BY <2>1, <2>3, IdleKnowsNothing DEF RecordsInv
<1> QED  BY <1>1, <1>2, <1>3, <1>4, <1>5, <1>6, <1>7, <1>8, <1>9, <1>10, <1>11, StepKinds
        DEF Lays, Moves

-----------------------------------------------------------------------------
(* The commands that restore, and the one that destroys.                   *)

\* A restore that archives the home first knows it as it was.
LEMMA RestoreOpens ==
    ASSUME IInv, Opens, op'.kind = "restore"
    PROVE  RestoreInv'
<1>0. HomeTypeInv /\ OpInv /\ ListsTypeInv /\ DirsInv /\ RestoreInv
  BY DEF IInv
<1>1. /\ op.kind = "restore" /\ Passes /\ op'.source = op.source /\ op'.before = op.before
      /\ op'.wanted = op.wanted /\ UNCHANGED <<priv, pub, dirs, config>>
      /\ op.at # "open" => op'.left = op.left
  BY <1>0, OpensFacts, IdleFacts DEF homeVars, sshVars
<1>2. op.at \in {"snapshot", "archive", "lay"} /\ op.source \in FitSnapshots
      /\ op.wanted = op.source
  BY <1>0, <1>1 DEF OpInv, OnWay
<1>3. Now' = Now
  BY <1>1 DEF Now
<1>4. op.before = Now /\ op.left = Members(op.source.files) /\ op'.left = Members(op.source.files)
  BY <1>0, <1>1, <1>2 DEF RestoreInv, Passes
<1>5. CASE OpenSnapshot
  <2>1. op'.at = "archive" /\ snaps'[Len(snaps')] = [whole |-> FALSE, files |-> Now]
    BY <1>0, <1>1, <1>5, OpenSnapshotFacts DEF Passes
  <2> QED  BY <1>1, <1>3, <1>4, <2>1 DEF RestoreInv
<1>6. CASE CloseSnapshot
  <2>1. /\ op.at = "archive" /\ snaps' # <<>>
        /\ snaps'[Len(snaps')] = [whole |-> TRUE, files |-> snaps[Len(snaps)].files]
    BY <1>0, <1>6, CloseSnapshotFacts
  <2>2. op'.at = "lay" /\ snaps[Len(snaps)] = [whole |-> FALSE, files |-> Now]
    BY <1>0, <1>1, <2>1 DEF Passes, RestoreInv
  <2>3. snaps'[Len(snaps')] = [whole |-> TRUE, files |-> Now]
    BY <2>1, <2>2
  <2> DEFINE files == op.source.files
  <2>4. /\ files.config \in Root \cup {None}
        /\ \A x \in Places : files.pub[x] # None => x[1] \in files.dirs
    BY <1>2 DEF FitSnapshots, Snapshots, Files, Fit
  <2> HIDE DEF files
  <2>5. files.config # None => <<"config", None, None>> \in Members(files)
    BY <2>4 DEF Members
  <2>6. ASSUME NEW x \in Places, files.pub[x] # None
        PROVE  <<"pub", x[1], x[2]>> \in Members(files)
    BY <2>4, <2>6 DEF Members
  <2>7. op'.wanted.files = files /\ op'.left = Members(files) /\ op'.before = Now
    BY <1>1, <1>2, <1>4 DEF files
  <2> QED  BY <2>1, <2>2, <2>3, <2>5, <2>6, <2>7 DEF RestoreInv
<1>7. ~SnapshotFails
  <2>1. SnapshotFails => op.at = "archive" /\ op' = Idle
    BY <1>0, <1>1, AfterSnapshotFacts DEF SnapshotFails, End
  <2> QED  BY <1>1, <2>1, IdleFacts
<1>8. ~OpenBundle /\ ~BundleFails /\ ~OpenArchive /\ \A keep \in 1..MaxDist : ~CloseBundle(keep)
  BY <1>2, <1>1 DEF OpenBundle, BundleFails, OpenArchive, CloseBundle
<1> QED  BY <1>5, <1>6, <1>7, <1>8 DEF Opens

\* A file that a restore lays down lies there, and so do those before it.
LEMMA RestoreLays ==
    ASSUME IInv, NEW m \in op.left, LayFile(m)
    PROVE  RestoreInv'
<1> DEFINE files == op.source.files
           Done(left, s, r) == <<"pub", r, s>> \notin left
<1>0. HomeTypeInv /\ OpInv /\ RestoreInv
  BY DEF IInv
<1>1. /\ op.kind = "restore" /\ op.at = "lay" /\ UNCHANGED <<priv, snaps>>
      /\ op'.left = op.left \ {m} /\ op'.at = "lay" /\ op'.kind = "restore"
      /\ op'.source = op.source /\ op'.wanted = op.wanted /\ op'.before = op.before
  BY <1>0, LayFileFacts DEF archiveVars
<1>2. op.wanted.files = files
  BY <1>0, <1>1 DEF OpInv
<1>3. \/ /\ m = <<"config", None, None>> /\ config' = files.config /\ pub' = pub
      \/ \E r \in Root : m = <<"dir", r, None>> /\ config' = config /\ pub' = pub
      \/ \E r \in Root, s \in Slot :
            /\ m = <<"pub", r, s>> /\ <<r, s>> \in Places /\ config' = config
            /\ \/ Foreign(r, s, files.pub[<<r, s>>]) /\ pub' = pub
               \/ pub' = [pub EXCEPT ![<<r, s>>] = files.pub[<<r, s>>]]
  BY <1>0, LayFileFacts, Zenon
<1> HIDE DEF files
<1>4. /\ snaps # <<>> /\ snaps[Len(snaps)] = [whole |-> TRUE, files |-> op.before]
      /\ files.config # None /\ <<"config", None, None>> \notin op.left => config = files.config
      /\ \A x \in Places :
            files.pub[x] # None /\ <<"pub", x[1], x[2]>> \notin op.left =>
                \/ pub[x] = files.pub[x]
                \/ priv[x] # None /\ (priv[x] # files.pub[x] \/ priv[x] \in Locked)
  BY <1>0, <1>1, <1>2 DEF RestoreInv
<1>5. files.config # None /\ <<"config", None, None>> \notin op'.left => config' = files.config
  <2> DEFINE t == <<"config", None, None>>
  <2>1. (m = t => config' = files.config) /\ config' \in {files.config, config}
    <3>1. config' = IF m[1] = "config" THEN files.config ELSE config
      BY DEF LayFile, Source, files
    <3> QED  BY <3>1
  <2>2. files.config # None /\ t \notin op.left => config = files.config
    BY <1>4
  <2> HIDE DEF t
  <2>3. files.config # None /\ t \notin op'.left => config' = files.config
    <3>1. t \in op'.left \/ t \notin op.left \/ t = m
      BY <1>1
    <3> QED  BY <2>1, <2>2, <3>1
  <2> QED  BY <2>3 DEF t
<1>6. ASSUME NEW x \in Places, files.pub[x] # None, <<"pub", x[1], x[2]>> \notin op'.left
      PROVE  \/ pub'[x] = files.pub[x]
             \/ priv[x] # None /\ (priv[x] # files.pub[x] \/ priv[x] \in Locked)
  <2>1. CASE <<"pub", x[1], x[2]>> = m
    <3>1. x[1] \in Root /\ x[2] \in Slot /\ x = <<x[1], x[2]>>
      BY DEF Places
    <3>2. \/ Foreign(x[1], x[2], files.pub[x]) /\ pub' = pub
          \/ pub' = [pub EXCEPT ![x] = files.pub[x]]
      <4>1. m # <<"config", None, None>> /\ \A r \in Root : m # <<"dir", r, None>>
        BY <2>1
      <4>2. PICK r \in Root, s \in Slot :
               /\ m = <<"pub", r, s>>
               /\ \/ Foreign(r, s, files.pub[<<r, s>>]) /\ pub' = pub
                  \/ pub' = [pub EXCEPT ![<<r, s>>] = files.pub[<<r, s>>]]
        BY <1>3, <4>1, Zenon
      <4>3. r = x[1] /\ s = x[2]
        BY <2>1, <4>2
      <4> QED  BY <3>1, <4>2, <4>3
    <3>3. CASE Foreign(x[1], x[2], files.pub[x])
      <4>1. priv[x] # None /\ (priv[x] # files.pub[x] \/ priv[x] \in Locked)
        BY <3>1, <3>3 DEF Foreign
      <4> QED  BY <4>1
    <3>4. CASE pub' = [pub EXCEPT ![x] = files.pub[x]]
      BY <1>0, <3>4 DEF HomeTypeInv, Halves
    <3> QED  BY <3>2, <3>3, <3>4
  <2>2. CASE <<"pub", x[1], x[2]>> # m
    <3>1. <<"pub", x[1], x[2]>> \notin op.left
      BY <1>1, <1>6, <2>2
    <3>2. pub'[x] = pub[x]
      <4>1. CASE pub' = pub
        BY <4>1
      <4>2. CASE pub' # pub
        <5>1. PICK r \in Root, s \in Slot :
                 /\ m = <<"pub", r, s>> /\ pub' = [pub EXCEPT ![<<r, s>>] = files.pub[<<r, s>>]]
          BY <1>3, <4>2, Zenon
        <5>2. x # <<r, s>>
          BY <2>2, <5>1
        <5> QED  BY <1>0, <5>1, <5>2 DEF HomeTypeInv, Halves
      <4> QED  BY <4>1, <4>2
    <3> QED  BY <1>4, <1>6, <3>1, <3>2
  <2> QED  BY <2>1, <2>2
<1>7. op'.wanted.files = files /\ op'.at = "lay" /\ snaps' = snaps /\ op'.before = op.before
  BY <1>1, <1>2
<1> QED  BY <1>1, <1>4, <1>5, <1>6, <1>7 DEF RestoreInv

\* Every step keeps what a restore knows true.
LEMMA RestoreStep ==
    ASSUME IInv, [Next]_archivesVars
    PROVE  RestoreInv'
<1>0. HomeTypeInv /\ OpInv /\ ListsTypeInv /\ RestoreInv
  BY DEF IInv
<1> SUFFICES ASSUME op'.kind = "restore" PROVE RestoreInv'
  BY DEF RestoreInv
<1>1. CASE Starts
  <2>1. /\ op'.at \in {"snapshot", "backup"} /\ op'.before = Now
        /\ op'.left = Members(op'.source.files) /\ UNCHANGED <<pub, dirs, config>>
    BY <1>0, <1>1, StartFacts DEF homeVars, sshVars
  <2>2. Now' = Now
    BY <2>1 DEF Now
  <2> QED  BY <2>1, <2>2 DEF RestoreInv
<1>2. CASE Opens
  BY <1>2, RestoreOpens
<1>3. CASE Stops
  BY <1>0, <1>3, StopFacts, IdleFacts
<1>4. CASE Prunes
  <2>1. UNCHANGED <<priv, pub, dirs, config, op, snaps>>
    BY <1>4, PrunesFacts DEF homeVars, sshVars
  <2> QED  BY <1>0, <2>1 DEF RestoreInv, Now
<1>5. ASSUME NEW m \in op.left, LayFile(m) PROVE RestoreInv'
  BY <1>5, RestoreLays
<1>6. ASSUME NEW m \in op.left, LayFileCut(m) PROVE RestoreInv'
  BY <1>0, <1>6, LayFileCutFacts, IdleFacts
<1>7. ASSUME NEW m \in op.left, LayMember(m) PROVE RestoreInv'
  BY <1>0, <1>7, LayMemberFacts
<1>8. CASE Mint
  BY <1>0, <1>8, MintFacts, IdleFacts
<1>9. CASE Purges
  BY <1>0, <1>9, PurgesFacts, IdleFacts
<1>10. CASE Moves
  BY <1>0, <1>10, MoveFacts, RenderFacts, IdleFacts DEF Moves
<1> QED  BY <1>1, <1>2, <1>3, <1>4, <1>5, <1>6, <1>7, <1>8, <1>9, <1>10, StepKinds DEF Lays

\* A member that a bundle restore lays down lies there, and so do those before it.
LEMMA UnbundleLays ==
    ASSUME IInv, NEW m \in op.left, LayMember(m)
    PROVE  UnbundleInv'
<1> DEFINE b == op.source
           x(s) == <<op.to, s>>
<1>0. HomeTypeInv /\ OpInv /\ UnbundleInv
  BY DEF IInv
<1>1. /\ op.kind = "unbundle" /\ op.at = "lay" /\ op.to \in Root
      /\ op'.left = op.left \ {m} /\ op'.kind = "unbundle" /\ op'.source = b /\ op'.to = op.to
  BY <1>0, LayMemberFacts
<1>2. \/ m = <<"inventory", None>> /\ inv' = b.inv /\ manifest' = manifest
         /\ priv' = priv /\ pub' = pub
      \/ m = <<"manifest", None>> /\ manifest' = b.manifest /\ inv' = inv
         /\ priv' = priv /\ pub' = pub
      \/ \E s \in Slot : /\ m = <<"priv", s>> /\ priv' = [priv EXCEPT ![x(s)] = b.pairs.priv[s]]
                         /\ inv' = inv /\ manifest' = manifest /\ pub' = pub
      \/ \E s \in Slot : /\ m = <<"pub", s>> /\ pub' = [pub EXCEPT ![x(s)] = b.pairs.pub[s]]
                         /\ inv' = inv /\ manifest' = manifest /\ priv' = priv
  BY <1>0, LayMemberFacts, Zenon
<1>3. \A s \in Slot : x(s) \in Places
  BY <1>1 DEF Places
<1> HIDE DEF b
<1>4. /\ <<"inventory", None>> \notin op.left => inv = b.inv
      /\ <<"manifest", None>> \notin op.left => manifest = b.manifest
      /\ \A s \in Slot :
            /\ b.pairs.priv[s] # None /\ <<"priv", s>> \notin op.left =>
                  priv[x(s)] = b.pairs.priv[s]
            /\ b.pairs.pub[s] # None /\ <<"pub", s>> \notin op.left => pub[x(s)] = b.pairs.pub[s]
  BY <1>0, <1>1 DEF UnbundleInv, b
<1>5. <<"inventory", None>> \notin op'.left => inv' = b.inv
  <2> DEFINE t == <<"inventory", None>>
  <2>1. (m = t => inv' = b.inv) /\ inv' \in {b.inv, inv}
    <3>1. inv' = IF m[1] = "inventory" THEN b.inv ELSE inv
      BY DEF LayMember, b
    <3> QED  BY <3>1
  <2>2. t \notin op.left => inv = b.inv
    BY <1>4
  <2> HIDE DEF t
  <2>3. t \notin op'.left => inv' = b.inv
    <3>1. t \in op'.left \/ t \notin op.left \/ t = m
      BY <1>1
    <3> QED  BY <2>1, <2>2, <3>1
  <2> QED  BY <2>3 DEF t
<1>6. <<"manifest", None>> \notin op'.left => manifest' = b.manifest
  <2> DEFINE t == <<"manifest", None>>
  <2>1. (m = t => manifest' = b.manifest) /\ manifest' \in {b.manifest, manifest}
    <3>1. manifest' = IF m[1] = "manifest" THEN b.manifest ELSE manifest
      BY DEF LayMember, b
    <3> QED  BY <3>1
  <2>2. t \notin op.left => manifest = b.manifest
    BY <1>4
  <2> HIDE DEF t
  <2>3. t \notin op'.left => manifest' = b.manifest
    <3>1. t \in op'.left \/ t \notin op.left \/ t = m
      BY <1>1
    <3> QED  BY <2>1, <2>2, <3>1
  <2> QED  BY <2>3 DEF t
<1>7. ASSUME NEW s \in Slot, b.pairs.priv[s] # None, <<"priv", s>> \notin op'.left
      PROVE  priv'[x(s)] = b.pairs.priv[s]
  <2>1. CASE priv' = priv /\ <<"priv", s>> # m
    BY <1>1, <1>4, <1>7, <2>1
  <2>2. ASSUME NEW t \in Slot, m = <<"priv", t>>, priv' = [priv EXCEPT ![x(t)] = b.pairs.priv[t]]
        PROVE  priv'[x(s)] = b.pairs.priv[s]
    <3>1. CASE s = t
      BY <1>0, <1>3, <2>2, <3>1 DEF HomeTypeInv, Halves
    <3>2. CASE s # t
      <4>1. priv'[x(s)] = priv[x(s)]
        BY <1>0, <1>3, <2>2, <3>2 DEF HomeTypeInv, Halves
      <4>2. <<"priv", s>> \notin op.left
        BY <1>1, <1>7, <2>2, <3>2
      <4> QED  BY <1>4, <1>7, <4>1, <4>2
    <3> QED  BY <3>1, <3>2
  <2>3. \/ \E t \in Slot : m = <<"priv", t>> /\ priv' = [priv EXCEPT ![x(t)] = b.pairs.priv[t]]
        \/ /\ priv' = priv
           /\ \/ m = <<"inventory", None>> \/ m = <<"manifest", None>>
              \/ \E t \in Slot : m = <<"pub", t>>
    BY <1>2, Zenon
  <2>4. ASSUME \/ m = <<"inventory", None>> \/ m = <<"manifest", None>>
               \/ \E t \in Slot : m = <<"pub", t>>
        PROVE  <<"priv", s>> # m
    BY <2>4
  <2> QED  BY <2>1, <2>2, <2>3, <2>4
<1>8. ASSUME NEW s \in Slot, b.pairs.pub[s] # None, <<"pub", s>> \notin op'.left
      PROVE  pub'[x(s)] = b.pairs.pub[s]
  <2>1. CASE pub' = pub /\ <<"pub", s>> # m
    BY <1>1, <1>4, <1>8, <2>1
  <2>2. ASSUME NEW t \in Slot, m = <<"pub", t>>, pub' = [pub EXCEPT ![x(t)] = b.pairs.pub[t]]
        PROVE  pub'[x(s)] = b.pairs.pub[s]
    <3>1. CASE s = t
      BY <1>0, <1>3, <2>2, <3>1 DEF HomeTypeInv, Halves
    <3>2. CASE s # t
      <4>1. pub'[x(s)] = pub[x(s)]
        BY <1>0, <1>3, <2>2, <3>2 DEF HomeTypeInv, Halves
      <4>2. <<"pub", s>> \notin op.left
        BY <1>1, <1>8, <2>2, <3>2
      <4> QED  BY <1>4, <1>8, <4>1, <4>2
    <3> QED  BY <3>1, <3>2
  <2>3. \/ \E t \in Slot : m = <<"pub", t>> /\ pub' = [pub EXCEPT ![x(t)] = b.pairs.pub[t]]
        \/ /\ pub' = pub
           /\ \/ m = <<"inventory", None>> \/ m = <<"manifest", None>>
              \/ \E t \in Slot : m = <<"priv", t>>
    BY <1>2, Zenon
  <2>4. ASSUME \/ m = <<"inventory", None>> \/ m = <<"manifest", None>>
               \/ \E t \in Slot : m = <<"priv", t>>
        PROVE  <<"pub", s>> # m
    BY <2>4
  <2> QED  BY <2>1, <2>2, <2>3, <2>4
<1>9. op'.source = b /\ op'.to = op.to
  BY <1>1 DEF b
<1> QED  BY <1>5, <1>6, <1>7, <1>8, <1>9 DEF UnbundleInv

\* Every step keeps what a bundle restore knows true.
LEMMA UnbundleStep ==
    ASSUME IInv, [Next]_archivesVars
    PROVE  UnbundleInv'
<1>0. HomeTypeInv /\ OpInv /\ ListsTypeInv /\ UnbundleInv
  BY DEF IInv
<1> SUFFICES ASSUME op'.kind = "unbundle", op'.at \in {"lay", "render"} PROVE UnbundleInv'
  BY DEF UnbundleInv
<1>1. CASE Starts
  BY <1>0, <1>1, StartFacts
<1>2. CASE Opens
  <2>1. Passes /\ op.kind = "unbundle" /\ op'.source = op.source
    BY <1>0, <1>2, OpensFacts, IdleFacts
  <2>2. op'.left = BundleMembers(op'.source)
    BY <2>1 DEF Passes
  <2> QED  BY <2>2 DEF UnbundleInv, BundleMembers
<1>3. CASE Stops
  BY <1>0, <1>3, StopFacts, IdleFacts
<1>4. CASE Prunes
  <2>1. UNCHANGED <<priv, pub, inv, manifest, op>>
    BY <1>4, PrunesFacts DEF homeVars, sshVars
  <2> QED  BY <1>0, <2>1 DEF UnbundleInv
<1>5. ASSUME NEW m \in op.left, LayFile(m) PROVE UnbundleInv'
  BY <1>0, <1>5, LayFileFacts
<1>6. ASSUME NEW m \in op.left, LayFileCut(m) PROVE UnbundleInv'
  BY <1>0, <1>6, LayFileCutFacts, IdleFacts
<1>7. ASSUME NEW m \in op.left, LayMember(m) PROVE UnbundleInv'
  BY <1>7, UnbundleLays
<1>8. CASE Mint
  BY <1>0, <1>8, MintFacts, IdleFacts
<1>9. CASE Purges
  BY <1>0, <1>9, PurgesFacts, IdleFacts
<1>10. CASE Moves
  BY <1>0, <1>10, MoveFacts, RenderFacts, IdleFacts DEF Moves
<1> QED  BY <1>1, <1>2, <1>3, <1>4, <1>5, <1>6, <1>7, <1>8, <1>9, <1>10, StepKinds DEF Lays

\* A purge gets a whole bundle of its key before it goes on.
LEMMA PurgeOpens ==
    ASSUME IInv, Opens, op'.kind = "purge"
    PROVE  PurgeInv'
<1>0. HomeTypeInv /\ OpInv /\ ListsTypeInv /\ PurgeInv
  BY DEF IInv
<1>1. /\ op.kind = "purge" /\ Passes /\ priv' = priv
      /\ op'.slot = op.slot /\ op'.from = op.from
  BY <1>0, OpensFacts, IdleFacts DEF homeVars, sshVars
<1>2. op.slot \in Slot
  BY <1>0, <1>1 DEF OpInv
<1> SUFFICES ASSUME op.from = Default PROVE PurgeInv'
  BY <1>1 DEF PurgeInv
<1> DEFINE k == priv[<<Default, op.slot>>]
<1>3. CASE OpenBundle
  <2>1. /\ op.at = "backup"
        /\ dist'[Len(dist')].pairs.priv[op.slot] = priv[<<BundledRoot(op.kind), op.slot>>]
    BY <1>0, <1>2, <1>3, OpenBundleFacts
  <2>2. op'.at = "encrypt" /\ BundledRoot(op.kind) = Default
    BY <1>1, <2>1 DEF Passes, BundledRoot
  <2> QED  BY <1>1, <2>1, <2>2 DEF PurgeInv
<1>4. ASSUME NEW keep \in 1..MaxDist, CloseBundle(keep) PROVE PurgeInv'
  <2>1. /\ op.at = "encrypt" /\ Len(dist) \in DOMAIN dist' /\ dist'[Len(dist)].whole
        /\ dist'[Len(dist)].pairs = dist[Len(dist)].pairs
    BY <1>0, <1>1, <1>4, CloseBundleFacts
  <2>2. dist[Len(dist)].pairs.priv[op.slot] = k
    BY <1>0, <1>1, <2>1 DEF PurgeInv
  <2>3. op'.at # "encrypt"
    BY <1>1, <2>1 DEF Passes
  <2>4. Saved(k)'
    BY <1>1, <1>2, <2>1, <2>2 DEF Saved
  <2> QED  BY <1>1, <2>3, <2>4 DEF PurgeInv
<1>5. CASE OpenSnapshot \/ CloseSnapshot \/ SnapshotFails
  <2>1. op.at \in {"snapshot", "archive"} /\ dist' = dist
    BY <1>5 DEF OpenSnapshot, CloseSnapshot, SnapshotFails, archiveVars
  <2>2. op'.at # "encrypt"
    BY <1>1, <2>1 DEF Passes
  <2>3. k # None => Saved(k)
    BY <1>0, <1>1, <2>1 DEF PurgeInv
  <2>4. k # None => Saved(k)'
    BY <1>1, <2>1, <2>3 DEF Saved
  <2> QED  BY <1>1, <2>2, <2>4 DEF PurgeInv
<1>6. ~OpenArchive /\ ~BundleFails
  <2>1. ~OpenArchive
    BY <1>0, <1>1 DEF OpenArchive, OpInv, OnWay
  <2>2. BundleFails => op' = Idle
    BY DEF BundleFails, AfterFailedBundle, End
  <2> QED  BY <1>1, <2>1, <2>2, IdleFacts
<1> QED  BY <1>3, <1>4, <1>5, <1>6 DEF Opens

\* Every step keeps what a purge knows true.
LEMMA PurgeStep ==
    ASSUME IInv, [Next]_archivesVars
    PROVE  PurgeInv'
<1>0. HomeTypeInv /\ OpInv /\ ListsTypeInv /\ PurgeInv
  BY DEF IInv
<1> SUFFICES ASSUME op'.kind = "purge" PROVE PurgeInv'
  BY DEF PurgeInv
<1>1. CASE Starts
  BY <1>0, <1>1, StartFacts DEF PurgeInv
<1>2. CASE Opens
  BY <1>2, PurgeOpens
<1>3. CASE Stops
  BY <1>0, <1>3, StopFacts, IdleFacts
<1>4. CASE Prunes
  <2>1. UNCHANGED <<priv, dist, op>>
    BY <1>4, PrunesFacts DEF homeVars, sshVars
  <2> QED  BY <1>0, <2>1 DEF PurgeInv, Saved
<1>5. ASSUME NEW m \in op.left, LayFile(m) PROVE PurgeInv'
  BY <1>0, <1>5, LayFileFacts
<1>6. ASSUME NEW m \in op.left, LayFileCut(m) PROVE PurgeInv'
  BY <1>0, <1>6, LayFileCutFacts, IdleFacts
<1>7. ASSUME NEW m \in op.left, LayMember(m) PROVE PurgeInv'
  BY <1>0, <1>7, LayMemberFacts
<1>8. CASE Mint
  BY <1>0, <1>8, MintFacts, IdleFacts
<1>9. CASE Purges
  <2>1. /\ op.kind = "purge" /\ op'.slot = op.slot /\ op'.from = op.from /\ dist' = dist
        /\ op'.at \in {"unrecord", "rmPriv", "rmPub"}
        /\ op.at \notin {"backup", "encrypt"}
        /\ op'.at # "rmPub" => op.at # "rmPub" /\ priv' = priv
    BY <1>0, <1>9, PurgesFacts, IdleFacts DEF archiveVars
  <2> QED  BY <1>0, <2>1 DEF PurgeInv, Saved
<1>10. CASE Moves
  BY <1>0, <1>10, MoveFacts, RenderFacts, IdleFacts DEF Moves
<1> QED  BY <1>1, <1>2, <1>3, <1>4, <1>5, <1>6, <1>7, <1>8, <1>9, <1>10, StepKinds DEF Lays

-----------------------------------------------------------------------------
(* The invariant, and what it shows.                                       *)

\* A home in use, and nothing under way.
LEMMA InitIInv ==
    ASSUME Init
    PROVE  IInv
<1>1. PICK root \in Root, key \in [Slot -> Key \cup {None}] :
         LET there == {s \in Slot : key[s] # None} IN
         /\ priv = [x \in Places |-> IF x[1] = root THEN key[x[2]] ELSE None]
         /\ manifest = [root |-> root, keys |-> there]
         /\ inv = {[key |-> key[s], root |-> root, slot |-> s] : s \in there}
         /\ config = root
         /\ dirs = {root}
  BY DEF Init
<1>2. /\ pub = priv /\ snaps = <<>> /\ dist = <<>> /\ op = Idle /\ torn = {} /\ astray = {}
      /\ ops = 0 /\ troubles = 0
  BY DEF Init
<1>3. op.kind = "none" /\ op.at = "idle" /\ op \in Commands
  BY <1>2, IdleFacts
<1>4. \A x \in Places : x[1] \in Root /\ x[2] \in Slot
  BY DEF Places
<1>5. \A r \in inv : /\ r \in Records /\ r.root = root
                     /\ priv[<<root, r.slot>>] # None /\ priv[<<root, r.slot>>] = r.key
  <2> SUFFICES ASSUME NEW s \in Slot, key[s] # None
               PROVE  LET r == [key |-> key[s], root |-> root, slot |-> s] IN
                      /\ r \in Records /\ r.root = root
                      /\ priv[<<root, r.slot>>] # None /\ priv[<<root, r.slot>>] = r.key
    BY <1>1
  <2>1. key[s] \in Key /\ <<root, s>> \in Places
    BY DEF Places
  <2>2. priv[<<root, s>>] = key[s]
    BY <1>1, <2>1
  <2> QED  BY <2>1, <2>2, RecordFacts
<1>6. HomeTypeInv
  <2>1. priv \in Halves
    BY <1>1, <1>4 DEF Halves
  <2>2. manifest \in Manifests
    BY <1>1 DEF Manifests
  <2> QED  BY <1>1, <1>2, <1>5, <2>1, <2>2 DEF HomeTypeInv
<1>7. ListsTypeInv
  BY <1>2, <1>3, ArchivesAssumption DEF ListsTypeInv
<1>8. OpInv /\ RestoreInv /\ UnbundleInv /\ PurgeInv
  BY <1>3 DEF OpInv, OnWay, RestoreInv, UnbundleInv, PurgeInv
<1>9. PairsBelong
  BY <1>2 DEF PairsBelong
<1>10. DirsInv
  BY <1>1, <1>2 DEF DirsInv
<1>11. RecordsInv
  <2>1. manifest.root = root
    BY <1>1
  <2> QED  BY <1>3, <1>5, <2>1 DEF RecordsInv, Recorded, Moving
<1>12. ConfigInv
  BY <1>1 DEF ConfigInv
<1> QED  BY <1>6, <1>7, <1>8, <1>9, <1>10, <1>11, <1>12 DEF IInv

\* In every reachable state each part of the invariant holds: together they are
\* inductive (services/snapshots, services/bundler and the commands over them).
THEOREM ArchivesInvariance == ArchivesSpec => []IInv
<1>1. Init => IInv
  BY InitIInv
<1>2. IInv /\ [Next]_archivesVars => IInv'
  <2> SUFFICES ASSUME IInv, [Next]_archivesVars PROVE IInv'
    OBVIOUS
  <2> QED  BY HomeTypeStep, ListsTypeStep, OpStep, PairsStep, DirsStep, RecordsStep, ConfigStep,
              RestoreStep, UnbundleStep, PurgeStep DEF IInv
<1> QED  BY <1>1, <1>2, PTL DEF ArchivesSpec

\* Every variable has its type, and there are never more snapshots than are kept
\* but for those that failures left: pruning holds their number (prune).
THEOREM ArchivesTypeCorrect == ArchivesSpec => []ArchivesTypeOK
<1>1. IInv => ArchivesTypeOK
  <2> SUFFICES ASSUME IInv PROVE ArchivesTypeOK
    OBVIOUS
  <2>1. HomeTypeInv /\ ListsTypeInv /\ OpInv
    BY DEF IInv
  <2>2. \A i \in DOMAIN snaps : snaps[i].files \in Files
    BY <2>1 DEF ListsTypeInv, FitSnapshots, Snapshots
  <2>3. \A i \in DOMAIN dist : dist[i].pairs \in Pairs /\ dist[i].manifest \in Manifests
    <3>1. \A i \in DOMAIN dist : dist[i] \in Bundles
      BY <2>1 DEF ListsTypeInv
    <3> QED  BY <3>1 DEF Bundles
  <2>4. Len(snaps) <= Retain + troubles + 1
    <3>1. Len(snaps) \in Nat /\ troubles \in Nat /\ Retain \in Nat
      BY <2>1, ArchivesAssumption DEF ListsTypeInv
    <3> QED  BY <2>1, <3>1 DEF ListsTypeInv
  <2>5. op.kind \in Kinds /\ (op.kind = "none" <=> op.at = "idle")
    BY <2>1 DEF OpInv, OnWay, Kinds
  <2> QED  BY <2>1, <2>2, <2>3, <2>4, <2>5 DEF ArchivesTypeOK, HomeTypeInv
<1> QED  BY <1>1, ArchivesInvariance, PTL

\* Between commands every pair that nothing tore is of one key, and the manifest,
\* the inventory, the config and the tree agree on where the keys are: whatever
\* was restored, moved, cut short or failed before (foreignPub, MoveKeyRoot).
THEOREM KeysStayInPlace == ArchivesSpec => []KeysAreInPlace
<1>1. IInv => KeysAreInPlace
  <2> SUFFICES ASSUME IInv PROVE KeysAreInPlace
    OBVIOUS
  <2>1. PairsBelong /\ RecordsInv /\ ConfigInv
    BY DEF IInv
  <2>2. op.kind = "none" /\ "records" \notin astray => Recorded(manifest.root, manifest.root)
    BY <2>1 DEF RecordsInv, Moving
  <2>3. op.kind = "none" /\ "config" \notin astray => config \in {None, manifest.root}
    BY <2>1 DEF ConfigInv
  <2>4. KeysAreWhereTheManifestSays
    BY <2>2, <2>3 DEF KeysAreWhereTheManifestSays, Recorded
  <2> QED  BY <2>1, <2>4 DEF KeysAreInPlace
<1> QED  BY <1>1, ArchivesInvariance, PTL

\* From the first file it writes a restore can be undone.
THEOREM RestoresCanBeUndone == ArchivesSpec => []RestoreIsReversible
<1>1. IInv => RestoreIsReversible
  BY DEF IInv, RestoreInv, RestoreIsReversible
<1> QED  BY <1>1, ArchivesInvariance, PTL

\* A restore of a snapshot that ends well has brought back what was asked for,
\* though its own snapshot may have pushed the archive out (RestoreByIDIn); a
\* restore of a bundle that ends leaves every pair of it where the manifest that
\* came with it looks (layDown); and both can be undone until they end.
THEOREM EveryRestoreDelivers == ArchivesSpec => RestoresDeliver
<1> DEFINE BroughtBack ==
               RestoreDone =>
                  /\ op.wanted.whole
                  /\ op.wanted.files.config # None => config = op.wanted.files.config
                  /\ \A x \in Places :
                        LET want == op.wanted.files.pub[x] IN
                        want # None =>
                            pub[x] = want \/ (priv[x] # None
                                                /\ (priv[x] # want \/ priv[x] \in Locked))
           InPlace ==
               Render /\ op.kind = "unbundle" =>
                  \A s \in Slot :
                      LET pairs == op.source.pairs
                          x == <<manifest.root, s>> IN
                      /\ pairs.priv[s] # None => priv[x] = pairs.priv[s]
                      /\ pairs.pub[s] # None => pub[x] = pairs.pub[s]
<1>1. IInv => BroughtBack
  <2> SUFFICES ASSUME IInv, RestoreDone PROVE BroughtBack
    OBVIOUS
  <2>1. op.kind = "restore" /\ op.at = "lay" /\ op.source.whole /\ op.left = {}
    BY DEF RestoreDone, Source
  <2>2. op.wanted = op.source
    BY <2>1 DEF IInv, OpInv
  <2> QED  BY <2>1, <2>2 DEF IInv, RestoreInv
<1>2. IInv => InPlace
  <2> SUFFICES ASSUME IInv, Render, op.kind = "unbundle" PROVE InPlace
    OBVIOUS
  <2>1. op.at = "render"
    BY DEF Render
  <2>2. op.left = {} /\ op.to = op.source.manifest.root
    BY <2>1 DEF IInv, OpInv
  <2>3. /\ manifest = op.source.manifest
        /\ \A s \in Slot :
              /\ op.source.pairs.priv[s] # None => priv[<<op.to, s>>] = op.source.pairs.priv[s]
              /\ op.source.pairs.pub[s] # None => pub[<<op.to, s>>] = op.source.pairs.pub[s]
    BY <2>1, <2>2 DEF IInv, UnbundleInv
  <2> QED  BY <2>2, <2>3
<1> HIDE DEF BroughtBack, InPlace
<1>3. ArchivesSpec => [][BroughtBack]_archivesVars /\ [][InPlace]_archivesVars
  BY <1>1, <1>2, ArchivesInvariance, PTL
<1>4. RestoreBringsBack <=> [][BroughtBack]_archivesVars
  BY DEF RestoreBringsBack, BroughtBack
<1>5. RestoredKeysAreInPlace <=> [][InPlace]_archivesVars
  BY DEF RestoredKeysAreInPlace, InPlace
<1> QED  BY <1>3, <1>4, <1>5, RestoresCanBeUndone, PTL DEF RestoresDeliver

\* With the key root the default one, a purge removes no private key that a whole
\* bundle does not hold, whatever failed on its way (BackupBeforeDestroying).
THEOREM PurgedKeysAreBackedUp == ArchivesSpec => PurgedKeyIsBackedUp
<1> DEFINE BackedUp ==
               RemovePriv /\ op.from = Default =>
                  LET k == priv[<<op.from, op.slot>>] IN k # None => Saved(k)
<1>1. IInv => BackedUp
  <2> SUFFICES ASSUME IInv, RemovePriv, op.from = Default,
                      priv[<<Default, op.slot>>] # None
               PROVE  Saved(priv[<<Default, op.slot>>])
    OBVIOUS
  <2>1. op.at = "rmPriv"
    BY DEF RemovePriv
  <2>2. op.kind = "purge"
    BY <2>1 DEF IInv, OpInv, OnWay
  <2> QED  BY <2>1, <2>2 DEF IInv, PurgeInv
<1> HIDE DEF BackedUp
<1>2. ArchivesSpec => [][BackedUp]_archivesVars
  BY <1>1, ArchivesInvariance, PTL
<1>3. PurgedKeyIsBackedUp <=> [][BackedUp]_archivesVars
  BY DEF PurgedKeyIsBackedUp, BackedUp
<1> QED  BY <1>2, <1>3

=============================================================================
