---------------------------- MODULE Owner_proofs ----------------------------
(***************************************************************************)
(* Proofs about Owner, for any actors, keyrings, operations, machines and  *)
(* number of troubles.                                                     *)
(*                                                                         *)
(* The invariant says what each actor relies on at each of its steps: that *)
(* whoever is in a scope has the lock, that a scope which found a home     *)
(* somebody else changed never seals it at its end, that the key it is to  *)
(* seal with is in the store, and that the seal it is about to write is of *)
(* files that still hold what was not accepted. A crash, a failed write or *)
(* an outside edit then only weakens what is claimed of the seal, and the  *)
(* ghosts say how.                                                         *)
(***************************************************************************)
EXTENDS Owner, TLAPS

\* Where an actor may be; Scope is where only the holder of the lock may be.
Places == {"idle", "lock", "write", "key", "bind", "unbind", "unseal", "unkey", "unlock",
           "answer", "rehashed", "save", "load", "seal", "sealing", "end"}
Scope == {"write", "key", "bind", "unbind", "unseal", "unkey", "unlock", "end"}
\* What a check of the PIN notes of it, and where an actor may be led on to.
PinReads == [pin : Pin, weak : BOOLEAN]
Nexts == {"idle", "release", "end", "lock", "save", "load"}
\* What an actor may be doing.
Acts == [op : Ops \union {"unlock", None}, at : Places, clean : BOOLEAN,
         config : Owners \union {None}, key : Key \union {None}, tried : 0..FreeAttempts,
         read : Seals \union PinReads \union {None}, next : Nexts]

\* The types, of the variables the type invariant of the model leaves out too.
TypeInv ==
    /\ OwnerTypeOK
    /\ act \in [Actor -> Acts]
    /\ mishap \in BOOLEAN /\ crossed \in BOOLEAN

\* What an actor relies on: where it has the lock,
LockLocal(q) ==
    /\ At(q, "lock") \/ act[q].next = "lock" => act[q].op \in Ops
    /\ act[q].at \in Scope => lock = q /\ act[q].next = "end"
    /\ At(q, "save") => act[q].next = "save"
    /\ act[q].next = "release" => At(q, "sealing") /\ lock = q /\ act[q].clean
    /\ lock = q => act[q].at \notin {"idle", "lock"} /\ act[q].next \in {"end", "save", "release"}
    /\ lock = q /\ unaccepted # None => ~act[q].clean

\* what it has in hand,
HandLocal(q) ==
    /\ act[q].at \in {"answer", "rehashed"} => act[q].read \in PinReads
    /\ act[q].at \in {"bind", "seal", "rehashed"} => act[q].key \in Key
    /\ act[q].at \in {"rehashed", "unseal", "unkey"} => act[q].config \in Owners
    /\ At(q, "rehashed") => act[q].config.at = place
    /\ act[q].next = "save" =>
          /\ lock = q
          /\ act[q].config \in Owners /\ act[q].config.at = place /\ act[q].key \in Key
          /\ crossed \/ kept[StoreOf(act[q].config)] # None
    /\ At(q, "bind") => kept[StoreNamed(q, StoreFor(q))] # None
    /\ act[q].at \in {"bind", "unseal", "unkey"} => unaccepted = None /\ (crossed \/ owner = None)

\* and what it is about to seal.
SealLocal(q) ==
    /\ At(q, "sealing") =>
          /\ act[q].read \in Seals
          /\ act[q].read.owner = None \/ act[q].read.owner.at = act[q].read.at
          /\ unaccepted # None => act[q].read.file.out = unaccepted
    /\ act[q].at \in {"seal", "sealing"} => owner = None \/ owner.at = place

\* All that an actor relies on.
Local(q) == LockLocal(q) /\ HandLocal(q) /\ SealLocal(q)

LocalInv == \A q \in Actor : Local(q)

\* A seal is of a home where it was bound.
SealInv == seal # None => seal.owner = None \/ seal.owner.at = seal.at

\* What somebody else wrote is in the files and not in the seal.
UnacceptedInv ==
    unaccepted # None =>
        /\ owner # None /\ seal # None
        /\ file.out = unaccepted /\ seal.file.out # unaccepted

\* At work: p may still write a seal.
Working(p) == lock = p \/ act[p].at \in {"seal", "sealing"}

\* With nobody at work and no mishap, the seal is of the home as authama left it.
FitInv ==
    owner # None /\ ~mishap /\ (\A p \in Actor : ~Working(p)) =>
        /\ seal \in Seals
        /\ seal.key = kept[StoreOf(owner)] /\ seal.at = owner.at
        /\ seal.file.own = file.own /\ seal.owner = owner

\* The key of a binding is in the store the binding means.
PinInv == owner # None => crossed \/ kept[StoreOf(owner)] # None

\* The inductive invariant.
IInv == TypeInv /\ LocalInv /\ SealInv /\ UnacceptedInv /\ FitInv /\ PinInv

-----------------------------------------------------------------------------
\* The record of an actor after a step, field by field.
LEMMA WithFacts ==
    ASSUME NEW a \in Acts, NEW f
    PROVE  LET b == With(f, a)
           IN  /\ DOMAIN b = {"op", "at", "clean", "config", "key", "tried", "read", "next"}
               /\ b = [op |-> b.op, at |-> b.at, clean |-> b.clean, config |-> b.config,
                       key |-> b.key, tried |-> b.tried, read |-> b.read, next |-> b.next]
               /\ b.op = IF "op" \in DOMAIN f THEN f["op"] ELSE a.op
               /\ b.at = IF "at" \in DOMAIN f THEN f["at"] ELSE a.at
               /\ b.clean = IF "clean" \in DOMAIN f THEN f["clean"] ELSE a.clean
               /\ b.config = IF "config" \in DOMAIN f THEN f["config"] ELSE a.config
               /\ b.key = IF "key" \in DOMAIN f THEN f["key"] ELSE a.key
               /\ b.tried = IF "tried" \in DOMAIN f THEN f["tried"] ELSE a.tried
               /\ b.read = IF "read" \in DOMAIN f THEN f["read"] ELSE a.read
               /\ b.next = IF "next" \in DOMAIN f THEN f["next"] ELSE a.next
<1> DEFINE b == With(f, a)
<1>1. /\ b = [x \in DOMAIN a |-> IF x \in DOMAIN f THEN f[x] ELSE a[x]]
      /\ DOMAIN a = {"op", "at", "clean", "config", "key", "tried", "read", "next"}
  BY DEF With, Acts
<1>2. /\ b.op = IF "op" \in DOMAIN f THEN f["op"] ELSE a.op
      /\ b.at = IF "at" \in DOMAIN f THEN f["at"] ELSE a.at
      /\ b.clean = IF "clean" \in DOMAIN f THEN f["clean"] ELSE a.clean
      /\ b.config = IF "config" \in DOMAIN f THEN f["config"] ELSE a.config
  BY DEF With, Acts
<1>3. /\ b.key = IF "key" \in DOMAIN f THEN f["key"] ELSE a.key
      /\ b.tried = IF "tried" \in DOMAIN f THEN f["tried"] ELSE a.tried
      /\ b.read = IF "read" \in DOMAIN f THEN f["read"] ELSE a.read
      /\ b.next = IF "next" \in DOMAIN f THEN f["next"] ELSE a.next
  BY DEF With, Acts
<1>4. DOMAIN b = {"op", "at", "clean", "config", "key", "tried", "read", "next"}
  BY <1>1
<1>5. b = [op |-> b.op, at |-> b.at, clean |-> b.clean, config |-> b.config,
           key |-> b.key, tried |-> b.tried, read |-> b.read, next |-> b.next]
  BY <1>1, <1>4
<1> QED  BY <1>2, <1>3, <1>4, <1>5

\* Writing one actor's record leaves the others' alone.
LEMMA ActFacts ==
    ASSUME act \in [Actor -> Acts], NEW p \in Actor, NEW b \in Acts, act' = [act EXCEPT ![p] = b]
    PROVE  /\ act' \in [Actor -> Acts] /\ act'[p] = b
           /\ \A q \in Actor : q # p => act'[q] = act[q]
OBVIOUS

\* The fields of an actor with nothing to do.
LEMMA IdleFacts ==
    /\ Idle \in Acts
    /\ Idle.op = None /\ Idle.at = "idle" /\ Idle.clean = FALSE /\ Idle.config = None
    /\ Idle.key = None /\ Idle.tried = 0 /\ Idle.read = None /\ Idle.next = "end"
BY OwnerAssumption DEF Idle, Acts, Places, Nexts

\* An actor that leaves goes to the end of its scope, or is idle.
LEMMA LeaveFacts ==
    ASSUME act \in [Actor -> Acts], NEW p \in Actor, Leave(p)
    PROVE  /\ act' \in [Actor -> Acts]
           /\ \A q \in Actor : q # p => act'[q] = act[q]
           /\ lock # p => act'[p] = Idle
           /\ lock = p => /\ act'[p].at = "end" /\ act'[p].next = "end"
                          /\ act'[p].clean = act[p].clean
<1> DEFINE b == [Idle EXCEPT !.op = act[p].op, !.clean = act[p].clean, !.at = "end"]
<1>1. b \in Acts /\ b.at = "end" /\ b.next = "end" /\ b.clean = act[p].clean
  BY IdleFacts DEF Acts, Places, Nexts
<1>2. CASE lock = p
  <2>1. act' = [act EXCEPT ![p] = b]
    BY <1>2 DEF Leave
  <2> HIDE DEF b
  <2> QED  BY <1>1, <1>2, <2>1
<1>3. CASE lock # p
  <2>1. act' = [act EXCEPT ![p] = Idle]
    BY <1>3 DEF Leave
  <2> QED  BY <1>3, <2>1, IdleFacts
<1> QED  BY <1>2, <1>3

\* What an actor does to the shared state leaves the others what they rely on.
LEMMA OthersStay ==
    ASSUME TypeInv, LocalInv, NEW p \in Actor,
           \A q \in Actor : q # p => act'[q] = act[q],
           place' = place,
           lock' = lock \/ (lock = p /\ lock' = None) \/ (lock = None /\ lock' = p),
           owner' = owner \/ owner' = None \/ owner'.at = place,
           crossed => crossed',
           crossed' \/ owner' = owner \/ lock = p \/ owner # None,
           kept' = kept \/ lock = p,
           unaccepted' = unaccepted \/ unaccepted' = None,
           Local(p)'
    PROVE  LocalInv'
<1> SUFFICES ASSUME NEW q \in Actor, q # p
             PROVE  Local(q)'
  BY DEF LocalInv
<1>1. /\ act'[q] = act[q] /\ Local(q) /\ None \notin Actor
      /\ crossed \in BOOLEAN
  BY OwnerAssumption DEF LocalInv, TypeInv
<1>2. (lock' = q) <=> (lock = q)
  BY <1>1
<1>3. LockLocal(q)'
  BY <1>1, <1>2 DEF Local, LockLocal, At
<1>4. lock = q => kept' = kept
  OBVIOUS
<1>5. HandLocal(q)'
  <2>1. /\ act[q].at \in {"answer", "rehashed"} => act[q].read \in PinReads
        /\ act[q].at \in {"bind", "seal", "rehashed"} => act[q].key \in Key
        /\ act[q].at \in {"rehashed", "unseal", "unkey"} => act[q].config \in Owners
        /\ At(q, "rehashed") => act[q].config.at = place
    BY <1>1 DEF Local, HandLocal
  <2>2. act[q].next = "save" =>
          /\ lock' = q
          /\ act[q].config \in Owners /\ act[q].config.at = place /\ act[q].key \in Key
          /\ crossed' \/ kept'[StoreOf(act[q].config)] # None
    BY <1>1, <1>2, <1>4 DEF Local, HandLocal
  <2>3. act[q].at \in {"bind", "unseal", "unkey"} => lock = q
    BY <1>1 DEF Local, LockLocal, Scope
  <2>4. At(q, "bind") => kept'[StoreNamed(q, StoreFor(q))] # None
    BY <1>1, <1>4, <2>3 DEF Local, HandLocal, At
  <2>5. act[q].at \in {"bind", "unseal", "unkey"} => unaccepted' = None /\ (crossed' \/ owner' = None)
    BY <1>1, <2>3 DEF Local, HandLocal
  <2> QED  BY <1>1, <2>1, <2>2, <2>4, <2>5 DEF HandLocal, At, StoreOf, StoreNamed, StoreFor
<1>6. SealLocal(q)'
  BY <1>1 DEF Local, SealLocal, At
<1> QED  BY <1>3, <1>5, <1>6 DEF Local

\* A step that writes nothing but the wrong PINs.
LEMMA ActStep ==
    ASSUME IInv, NEW p \in Actor,
           UNCHANGED <<place, owner, kept, seal, file, ghosts>>,
           attempts' \in Attempts, session' \in [Web -> {"never", "lately", "longAgo"}],
           act' \in [Actor -> Acts],
           \A q \in Actor : q # p => act'[q] = act[q],
           lock' = lock \/ (lock = None /\ lock' = p),
           act'[p].at = "idle" => act'[p] = Idle,
           Working(p) => Working(p)',
           Local(p)'
    PROVE  IInv'
<1>1. /\ place' = place /\ owner' = owner /\ kept' = kept /\ seal' = seal /\ file' = file
      /\ unaccepted' = unaccepted /\ mishap' = mishap /\ crossed' = crossed
      /\ lock' \in Actor \union {None}
  BY DEF ghosts, IInv, TypeInv, OwnerTypeOK
<1>2. TypeInv'
  <2>1. \A q \in Actor : act'[q].at = "idle" => act'[q] = Idle
    BY DEF IInv, TypeInv, OwnerTypeOK, At
  <2> QED  BY <1>1, <2>1 DEF IInv, TypeInv, OwnerTypeOK, At
<1>3. LocalInv'
  BY <1>1, OthersStay DEF IInv
<1>4. SealInv' /\ UnacceptedInv' /\ PinInv'
  BY <1>1 DEF IInv, SealInv, UnacceptedInv, PinInv, StoreOf
<1>5. FitInv'
  <2>1. \A q \in Actor : Working(q) => Working(q)'
    BY <1>1, OwnerAssumption DEF Working
  <2>2. StoreOf(owner)' = StoreOf(owner)
    BY <1>1 DEF StoreOf
  <2> QED  BY <1>1, <2>1, <2>2 DEF IInv, FitInv
<1> QED  BY <1>2, <1>3, <1>4, <1>5 DEF IInv

\* An actor that leaves, with or without the lock, relies on nothing.
LEMMA LeaveLocal ==
    ASSUME IInv, NEW p \in Actor, Leave(p), lock' = lock,
           unaccepted' = unaccepted \/ unaccepted' = None
    PROVE  /\ Local(p)' /\ act' \in [Actor -> Acts]
           /\ \A q \in Actor : q # p => act'[q] = act[q]
           /\ act'[p].at = "idle" => act'[p] = Idle
           /\ lock = p => Working(p)'
<1>1. /\ act' \in [Actor -> Acts]
      /\ \A q \in Actor : q # p => act'[q] = act[q]
      /\ lock # p => act'[p] = Idle
      /\ lock = p => /\ act'[p].at = "end" /\ act'[p].next = "end"
                     /\ act'[p].clean = act[p].clean
  BY LeaveFacts DEF IInv, TypeInv
<1>2. lock = p /\ unaccepted # None => ~act[p].clean
  BY DEF IInv, LocalInv, Local, LockLocal
<1>3. CASE lock = p
  BY <1>1, <1>2, <1>3 DEF Local, LockLocal, HandLocal, SealLocal, At, Scope, Working
<1>4. CASE lock # p
  BY <1>1, <1>4, IdleFacts DEF Local, LockLocal, HandLocal, SealLocal, At, Scope, Working
<1> QED  BY <1>3, <1>4

\* A step that only leaves, with the home as it was.
LEMMA LeaveStep ==
    ASSUME IInv, NEW p \in Actor, Leave(p),
           UNCHANGED <<place, owner, kept, seal, file, lock, ghosts>>,
           attempts' \in Attempts, session' \in [Web -> {"never", "lately", "longAgo"}],
           lock = p \/ act[p].at \notin {"seal", "sealing"}
    PROVE  IInv'
<1>1. unaccepted' = unaccepted /\ lock' = lock
  BY DEF ghosts
<1>2. Working(p) => Working(p)'
  BY <1>1, LeaveLocal DEF Working
<1> QED  BY <1>1, <1>2, LeaveLocal, ActStep

\* What the invariant says of the actors, for steps that keep the home.
LEMMA SameStays ==
    ASSUME IInv
    PROVE  /\ attempts \in Attempts
           /\ session \in [Web -> {"never", "lately", "longAgo"}]
           /\ NoAttempts \in Attempts
           /\ act \in [Actor -> Acts]
           /\ \A p \in Actor : Local(p)
BY OwnerAssumption DEF IInv, TypeInv, OwnerTypeOK, LocalInv, NoAttempts, Attempts

\* A write that fails under the lock.
LEMMA FailsKeeps ==
    ASSUME IInv, NEW p \in Actor, Fails(p), lock = p
    PROVE  IInv'
BY LeaveStep, SameStays DEF Fails, home, ghosts

\* A PIN that was right, or a seal that was written, leads on.
LEMMA ResumesFacts ==
    ASSUME IInv, NEW p \in Actor, Resumes(p),
           act[p].next # "end" \/ act[p].at # "idle"
    PROVE  /\ act' \in [Actor -> Acts]
           /\ \A q \in Actor : q # p => act'[q] = act[q]
           /\ act[p].next \in {"idle", "release"} \/ (act[p].next = "end" /\ lock # p)
              => act'[p] = Idle
           /\ act[p].next = "end" /\ lock = p =>
                /\ act'[p].at = "end" /\ act'[p].next = "end" /\ act'[p].clean = act[p].clean
           /\ act[p].next = "lock" =>
                /\ act'[p].at = "lock" /\ act'[p].next = "end" /\ act'[p].op = act[p].op
           /\ act[p].next \in {"save", "load"} =>
                /\ act'[p].at = act[p].next /\ act'[p].next = act[p].next
                /\ act'[p].clean = act[p].clean /\ act'[p].op = act[p].op
                /\ act'[p].config = act[p].config /\ act'[p].key = act[p].key
<1>1. act \in [Actor -> Acts] /\ act[p] \in Acts /\ act[p].next \in Nexts
  BY SameStays DEF Acts
<1>2. CASE act[p].next \in {"idle", "release"}
  <2>1. act' = [act EXCEPT ![p] = Idle]
    BY <1>2 DEF Resumes
  <2> QED  BY <1>1, <1>2, <2>1, IdleFacts
<1>3. CASE act[p].next = "end"
  <2>1. Leave(p)
    BY <1>3 DEF Resumes
  <2> QED  BY <1>1, <1>3, <2>1, LeaveFacts
<1>4. CASE act[p].next = "lock"
  <2> DEFINE b == [Idle EXCEPT !.op = act[p].op, !.at = "lock"]
  <2>0. "lock" \in Places /\ act[p].op \in Ops \union {"unlock", None}
    BY <1>1 DEF Acts, Places
  <2>1. b \in Acts /\ b.at = "lock" /\ b.next = "end" /\ b.op = act[p].op
    BY <2>0, IdleFacts DEF Acts
  <2>2. act' = [act EXCEPT ![p] = b]
    BY <1>4 DEF Resumes
  <2> HIDE DEF b
  <2> QED  BY <1>1, <1>4, <2>1, <2>2
<1>5. CASE act[p].next \in {"save", "load"}
  <2> DEFINE f == [at |-> act[p].next, read |-> None, tried |-> 0]
             b == With(f, act[p])
  <2>1. act' = [act EXCEPT ![p] = b]
    BY <1>5 DEF Resumes, Take
  <2>2. /\ b = [op |-> b.op, at |-> b.at, clean |-> b.clean, config |-> b.config,
                key |-> b.key, tried |-> b.tried, read |-> b.read, next |-> b.next]
        /\ b.op = act[p].op /\ b.at = act[p].next /\ b.clean = act[p].clean
        /\ b.config = act[p].config /\ b.key = act[p].key /\ b.tried = 0 /\ b.read = None
        /\ b.next = act[p].next
    <3>1. DOMAIN f = {"at", "read", "tried"}
      OBVIOUS
    <3> HIDE DEF f
    <3>2. f["at"] = act[p].next /\ f["read"] = None /\ f["tried"] = 0
      BY DEF f
    <3> QED  BY <1>1, <3>1, <3>2, WithFacts
  <2> HIDE DEF b
  <2>3. b \in Acts
    <3>1. /\ b.op \in Ops \union {"unlock", None} /\ b.clean \in BOOLEAN
          /\ b.config \in Owners \union {None} /\ b.key \in Key \union {None}
          /\ b.next \in Nexts
      BY <1>1, <2>2 DEF Acts
    <3>2. b.at \in Places /\ b.tried \in 0..FreeAttempts /\ b.read \in Seals \union PinReads \union {None}
      BY <1>5, <2>2, OwnerAssumption DEF Places
    <3> QED  BY <2>2, <3>1, <3>2 DEF Acts
  <2> QED  BY <1>1, <1>5, <2>1, <2>2, <2>3, ActFacts
<1> QED  BY <1>1, <1>2, <1>3, <1>4, <1>5 DEF Nexts

\* The actor that is led on may rely on what its next step needs.
LEMMA ResumesLocal ==
    ASSUME IInv, NEW p \in Actor, Resumes(p),
           act[p].at \in {"answer", "rehashed", "sealing"},
           place' = place, kept' = kept,
           crossed => crossed',
           lock' = IF act[p].next = "release" THEN None ELSE lock,
           unaccepted' = unaccepted \/ unaccepted' = None
    PROVE  /\ Local(p)' /\ act' \in [Actor -> Acts]
           /\ \A q \in Actor : q # p => act'[q] = act[q]
           /\ act'[p].at = "idle" => act'[p] = Idle
           /\ act'[p].at \notin {"seal", "sealing"}
<1> DEFINE n == act[p].next
<1>1. /\ act' \in [Actor -> Acts]
      /\ \A q \in Actor : q # p => act'[q] = act[q]
      /\ n \in {"idle", "release"} \/ (n = "end" /\ lock # p) => act'[p] = Idle
      /\ n = "end" /\ lock = p =>
           /\ act'[p].at = "end" /\ act'[p].next = "end" /\ act'[p].clean = act[p].clean
      /\ n = "lock" =>
           /\ act'[p].at = "lock" /\ act'[p].next = "end" /\ act'[p].op = act[p].op
      /\ n \in {"save", "load"} =>
           /\ act'[p].at = n /\ act'[p].next = n
           /\ act'[p].clean = act[p].clean /\ act'[p].op = act[p].op
           /\ act'[p].config = act[p].config /\ act'[p].key = act[p].key
  BY ResumesFacts
<1>2. Local(p) /\ n \in Nexts /\ None \notin Actor /\ crossed \in BOOLEAN
  BY SameStays, OwnerAssumption DEF Acts, IInv, TypeInv
<1>3. LockLocal(p) /\ HandLocal(p)
  BY <1>2 DEF Local
<1> HIDE DEF n
<1>4. CASE act'[p] = Idle /\ lock' # p
  BY <1>1, <1>4, IdleFacts DEF Local, LockLocal, HandLocal, SealLocal, At, Scope
<1>5. CASE n = "end" /\ lock = p
  BY <1>1, <1>3, <1>5 DEF Local, LockLocal, HandLocal, SealLocal, At, Scope, n
<1>6. CASE n = "lock"
  BY <1>1, <1>3, <1>6 DEF Local, LockLocal, HandLocal, SealLocal, At, Scope, n
<1>7. CASE n = "load"
  BY <1>1, <1>3, <1>7 DEF Local, LockLocal, HandLocal, SealLocal, At, Scope, n
<1>8. CASE n = "save"
  <2>1. crossed' \/ kept'[StoreOf(act[p].config)] # None
    BY <1>1, <1>2, <1>3, <1>8 DEF HandLocal, n, StoreOf
  <2> QED  BY <1>1, <1>3, <1>8, <2>1 DEF Local, LockLocal, HandLocal, SealLocal, At, Scope, n, StoreOf
<1>9. n \in {"idle", "release"} => act'[p] = Idle /\ lock' # p
  BY <1>1, <1>2, <1>3 DEF LockLocal, n
<1> QED  BY <1>1, <1>2, <1>4, <1>5, <1>6, <1>7, <1>8, <1>9 DEF Nexts, n

\* The record of an actor after Take, field by field.
LEMMA TakeFacts ==
    ASSUME act \in [Actor -> Acts], NEW p \in Actor, NEW f, Take(p, f)
    PROVE  LET a == act[p]
               b == act'[p]
           IN  /\ \A q \in Actor : q # p => act'[q] = act[q]
               /\ b.op = IF "op" \in DOMAIN f THEN f["op"] ELSE a.op
               /\ b.at = IF "at" \in DOMAIN f THEN f["at"] ELSE a.at
               /\ b.clean = IF "clean" \in DOMAIN f THEN f["clean"] ELSE a.clean
               /\ b.config = IF "config" \in DOMAIN f THEN f["config"] ELSE a.config
               /\ b.key = IF "key" \in DOMAIN f THEN f["key"] ELSE a.key
               /\ b.tried = IF "tried" \in DOMAIN f THEN f["tried"] ELSE a.tried
               /\ b.read = IF "read" \in DOMAIN f THEN f["read"] ELSE a.read
               /\ b.next = IF "next" \in DOMAIN f THEN f["next"] ELSE a.next
               /\ /\ b.op \in Ops \union {"unlock", None} /\ b.at \in Places
                  /\ b.clean \in BOOLEAN /\ b.config \in Owners \union {None}
                  /\ b.key \in Key \union {None} /\ b.tried \in 0..FreeAttempts
                  /\ b.read \in Seals \union PinReads \union {None} /\ b.next \in Nexts
                  => act' \in [Actor -> Acts]
<1> DEFINE c == With(f, act[p])
<1>1. act' = [act EXCEPT ![p] = c] /\ act[p] \in Acts
  BY DEF Take
<1>2. /\ c = [op |-> c.op, at |-> c.at, clean |-> c.clean, config |-> c.config,
              key |-> c.key, tried |-> c.tried, read |-> c.read, next |-> c.next]
      /\ c.op = IF "op" \in DOMAIN f THEN f["op"] ELSE act[p].op
      /\ c.at = IF "at" \in DOMAIN f THEN f["at"] ELSE act[p].at
      /\ c.clean = IF "clean" \in DOMAIN f THEN f["clean"] ELSE act[p].clean
      /\ c.config = IF "config" \in DOMAIN f THEN f["config"] ELSE act[p].config
      /\ c.key = IF "key" \in DOMAIN f THEN f["key"] ELSE act[p].key
      /\ c.tried = IF "tried" \in DOMAIN f THEN f["tried"] ELSE act[p].tried
      /\ c.read = IF "read" \in DOMAIN f THEN f["read"] ELSE act[p].read
      /\ c.next = IF "next" \in DOMAIN f THEN f["next"] ELSE act[p].next
  BY <1>1, WithFacts
<1> HIDE DEF c
<1>3. act'[p] = c /\ \A q \in Actor : q # p => act'[q] = act[q]
  BY <1>1
<1>4. /\ c.op \in Ops \union {"unlock", None} /\ c.at \in Places
      /\ c.clean \in BOOLEAN /\ c.config \in Owners \union {None}
      /\ c.key \in Key \union {None} /\ c.tried \in 0..FreeAttempts
      /\ c.read \in Seals \union PinReads \union {None} /\ c.next \in Nexts
      => act' \in [Actor -> Acts]
  <2>1. /\ c.op \in Ops \union {"unlock", None} /\ c.at \in Places
        /\ c.clean \in BOOLEAN /\ c.config \in Owners \union {None}
        /\ c.key \in Key \union {None} /\ c.tried \in 0..FreeAttempts
        /\ c.read \in Seals \union PinReads \union {None} /\ c.next \in Nexts
        => c \in Acts
    BY <1>2 DEF Acts
  <2> QED  BY <1>1, <2>1
<1> QED  BY <1>2, <1>3, <1>4

\* The types of the fields of an actor's record.
LEMMA ActTypes ==
    ASSUME IInv, NEW p \in Actor
    PROVE  /\ act \in [Actor -> Acts]
           /\ act[p].op \in Ops \union {"unlock", None} /\ act[p].at \in Places
           /\ act[p].clean \in BOOLEAN /\ act[p].config \in Owners \union {None}
           /\ act[p].key \in Key \union {None} /\ act[p].tried \in 0..FreeAttempts
           /\ act[p].read \in Seals \union PinReads \union {None} /\ act[p].next \in Nexts
BY SameStays DEF Acts

\* A seal made now is of the files, the binding and the place of now.
LEMMA MadeFacts ==
    ASSUME IInv, NEW k \in Key
    PROVE  /\ Made(k) \in Seals
           /\ Made(k).key = k /\ Made(k).at = place
           /\ Made(k).file = file /\ Made(k).owner = owner
BY DEF Made, Seals, IInv, TypeInv, OwnerTypeOK

\* An actor that unlocks has the key of a binding to this machine, and so
\* the store the binding means has one too.
LEMMA KeyFacts ==
    ASSUME IInv, NEW p \in Actor, Unlocks(p)
    PROVE  /\ owner \in Owners /\ owner.at = place /\ owner # None
           /\ KeyOf(p, owner) \in Key
           /\ crossed \/ kept[StoreOf(owner)] # None
BY DEF IInv, TypeInv, OwnerTypeOK, PinInv, Unlocks, KeyOf, StoreNamed, Stores

\* A home that somebody else changed is not clean for anybody.
LEMMA ChangeIsNamed ==
    ASSUME IInv, NEW p \in Actor, unaccepted # None
    PROVE  ~Clean(p)
<1>1. owner # None /\ file.out = unaccepted /\ seal.file.out # unaccepted
  BY DEF IInv, UnacceptedInv
<1>2. KeyOf(p, owner) # None => KeyOf(p, owner) \in Key
  BY <1>1 DEF IInv, TypeInv, OwnerTypeOK, KeyOf, StoreNamed, Stores
<1> QED  BY <1>1, <1>2, MadeFacts DEF Clean

\* A command begins: it is asked for the PIN, waits for the lock or loads.
LEMMA BeginKeeps ==
    ASSUME IInv, NEW p \in Actor, NEW op \in Ops \union {"unlock"}, Begin(p, op)
    PROVE  IInv'
<1>1. /\ At(p, "idle") /\ act[p] = Idle /\ lock # p
      /\ UNCHANGED <<place, owner, kept, seal, file, attempts, lock, session, ghosts>>
      /\ attempts' \in Attempts /\ session' \in [Web -> {"never", "lately", "longAgo"}]
  BY SameStays DEF Begin, home, IInv, TypeInv, OwnerTypeOK, Local, LockLocal, At
<1>2. /\ act \in [Actor -> Acts] /\ op \in Ops \union {"unlock", None}
      /\ "unlock" \notin Ops
  BY SameStays, OwnerAssumption
<1>3. /\ Begun(p, op) \in {"idle", "load", "lock"}
      /\ Begun(p, op) = "lock" => op # "unlock"
      /\ Begun(p, op) = "idle" => op = "unlock"
  BY DEF Begun
<1>4. ~Working(p)
  BY <1>1 DEF Working, At
<1>5. CASE HasPIN(owner) /\ act' = [act EXCEPT ![p] = Checking(p, [op |-> op, next |-> Begun(p, op)])]
  <2> DEFINE f == [op |-> op, next |-> Begun(p, op)]
             g == [tried |-> attempts.failures,
                   read |-> [pin |-> owner.pin, weak |-> owner.weak], at |-> "answer"]
             b == With(f, Idle)
             c == With(g, b)
  <2>1. act' = [act EXCEPT ![p] = c]
    BY <1>1, <1>5 DEF Checking
  <2>2. DOMAIN f = {"op", "next"} /\ f["op"] = op /\ f["next"] = Begun(p, op)
    OBVIOUS
  <2>3. /\ DOMAIN g = {"tried", "read", "at"} /\ g["tried"] = attempts.failures
        /\ g["read"] = [pin |-> owner.pin, weak |-> owner.weak] /\ g["at"] = "answer"
    OBVIOUS
  <2> HIDE DEF f, g
  <2>4. /\ b = [op |-> b.op, at |-> b.at, clean |-> b.clean, config |-> b.config,
                key |-> b.key, tried |-> b.tried, read |-> b.read, next |-> b.next]
        /\ b.op = op /\ b.at = Idle.at /\ b.clean = Idle.clean /\ b.config = Idle.config
        /\ b.key = Idle.key /\ b.tried = Idle.tried /\ b.read = Idle.read
        /\ b.next = Begun(p, op)
    BY <2>2, WithFacts, IdleFacts
  <2> HIDE DEF b
  <2>5. b \in Acts
    BY <1>2, <1>3, <2>4, IdleFacts, OwnerAssumption DEF Acts, Places, Nexts
  <2>6. /\ c = [op |-> c.op, at |-> c.at, clean |-> c.clean, config |-> c.config,
                key |-> c.key, tried |-> c.tried, read |-> c.read, next |-> c.next]
        /\ c.op = op /\ c.at = "answer" /\ c.clean = b.clean /\ c.config = b.config
        /\ c.key = b.key /\ c.tried = attempts.failures
        /\ c.read = [pin |-> owner.pin, weak |-> owner.weak]
        /\ c.next = Begun(p, op)
    BY <2>3, <2>4, <2>5, WithFacts
  <2> HIDE DEF c
  <2>7. c.read \in PinReads /\ c.tried \in 0..FreeAttempts
    BY <1>5, <2>6, SameStays DEF IInv, TypeInv, OwnerTypeOK, HasPIN, Owners, PinReads, Attempts
  <2>8. c \in Acts
    BY <1>2, <1>3, <2>5, <2>6, <2>7 DEF Acts, Places, Nexts
  <2>9. /\ act' \in [Actor -> Acts] /\ act'[p] = c
        /\ \A q \in Actor : q # p => act'[q] = act[q]
    BY <1>2, <2>1, <2>8, ActFacts
  <2>10. Local(p)'
    BY <1>1, <1>2, <1>3, <2>6, <2>7, <2>9
       DEF Local, LockLocal, HandLocal, SealLocal, At, Scope
  <2> QED  BY <1>1, <1>4, <2>6, <2>9, <2>10, ActStep
<1>6. CASE Take(p, [op |-> op, at |-> Begun(p, op)]) /\ op # "unlock"
  <2> DEFINE f == [op |-> op, at |-> Begun(p, op)]
  <2>1. DOMAIN f = {"op", "at"} /\ f["op"] = op /\ f["at"] = Begun(p, op)
    OBVIOUS
  <2>2. Take(p, f)
    BY <1>6
  <2> HIDE DEF f
  <2>3. /\ \A q \in Actor : q # p => act'[q] = act[q]
        /\ act'[p].op = op /\ act'[p].at = Begun(p, op) /\ act'[p].next = "end"
        /\ act'[p].clean = FALSE /\ act'[p].config = None /\ act'[p].key = None
        /\ act'[p].tried = 0 /\ act'[p].read = None
    BY <1>1, <1>2, <2>1, <2>2, TakeFacts, IdleFacts
  <2>4. act' \in [Actor -> Acts]
    <3>1. /\ op \in Ops \union {"unlock", None} /\ Begun(p, op) \in Places /\ FALSE \in BOOLEAN
          /\ None \in Owners \union {None} /\ None \in Key \union {None} /\ 0 \in 0..FreeAttempts
          /\ None \in Seals \union PinReads \union {None} /\ "end" \in Nexts
      BY <1>2, <1>3, OwnerAssumption DEF Places, Nexts
    <3> QED  BY <1>2, <2>2, <2>3, <3>1, TakeFacts
  <2>5. Local(p)'
    BY <1>1, <1>2, <1>3, <1>6, <2>3
       DEF Local, LockLocal, HandLocal, SealLocal, At, Scope
  <2> QED  BY <1>1, <1>3, <1>4, <1>6, <2>3, <2>4, <2>5, ActStep
<1>7. op = "unlock" => p \in Web /\ HasPIN(owner) /\ session[p] = "never" /\ Gated(p, op) = {TRUE}
  BY DEF Begin, Gated
<1>8. PICK gated \in Gated(p, op) :
        IF HasPIN(owner) /\ gated /\ (p \in Web => session[p] # "lately")
        THEN /\ ~attempts.wait
             /\ act' = [act EXCEPT ![p] = Checking(p, [op |-> op, next |-> Begun(p, op)])]
        ELSE Take(p, [op |-> op, at |-> Begun(p, op)])
  BY DEF Begin
<1>9. CASE HasPIN(owner) /\ gated /\ (p \in Web => session[p] # "lately")
  BY <1>5, <1>8, <1>9
<1>10. CASE ~(HasPIN(owner) /\ gated /\ (p \in Web => session[p] # "lately"))
  <2>1. op # "unlock"
    <3> SUFFICES ASSUME op = "unlock" PROVE FALSE
      OBVIOUS
    <3>1. gated = TRUE
      BY <1>7
    <3>2. HasPIN(owner) /\ session[p] = "never"
      BY <1>7
    <3> QED  BY <1>10, <3>1, <3>2
  <2> QED  BY <1>6, <1>8, <1>10, <2>1
<1> QED  BY <1>9, <1>10

\* The lock is taken, and a home somebody else changed is found not clean.
LEMMA LockKeeps ==
    ASSUME IInv, NEW p \in Actor, Lock(p)
    PROVE  IInv'
<1>1. /\ UNCHANGED <<place, owner, kept, seal, file, attempts, session, ghosts>>
      /\ attempts' \in Attempts /\ session' \in [Web -> {"never", "lately", "longAgo"}]
      /\ lock = None /\ lock' = p /\ At(p, "lock")
      /\ act[p].op \in Ops
  BY SameStays DEF Lock, home, Local, LockLocal, At
<1> DEFINE f == [clean |-> Clean(p), at |-> FirstStep[act[p].op], next |-> "end"]
<1>2. FirstStep[act[p].op] \in {"write", "key", "unbind", "load", "unlock"}
  <2>1. /\ FirstStep["change"] = "write" /\ FirstStep["init"] = "key"
        /\ FirstStep["forget"] = "unbind" /\ FirstStep["reseal"] = "load"
        /\ FirstStep["set"] = "unlock" /\ FirstStep["reset"] = "unlock"
        /\ FirstStep["remove"] = "unlock"
    BY DEF FirstStep
  <2>2. act[p].op \in {"change", "init", "forget", "reseal", "set", "reset", "remove"}
    BY <1>1, OwnerAssumption
  <2> QED  BY <2>1, <2>2
<1>3. /\ DOMAIN f = {"clean", "at", "next"} /\ f["clean"] = Clean(p)
      /\ f["at"] = FirstStep[act[p].op] /\ f["next"] = "end"
  OBVIOUS
<1>4. Take(p, f)
  BY DEF Lock
<1>5. Clean(p) \in BOOLEAN
  BY DEF Clean
<1> HIDE DEF f
<1>6. /\ \A q \in Actor : q # p => act'[q] = act[q]
      /\ act'[p].op = act[p].op /\ act'[p].at = FirstStep[act[p].op] /\ act'[p].next = "end"
      /\ act'[p].clean = Clean(p) /\ act'[p].config = act[p].config /\ act'[p].key = act[p].key
      /\ act'[p].tried = act[p].tried /\ act'[p].read = act[p].read
  BY <1>3, <1>4, ActTypes, TakeFacts
<1>7. act' \in [Actor -> Acts]
  BY <1>2, <1>4, <1>5, <1>6, ActTypes, TakeFacts DEF Places, Nexts
<1>8. unaccepted' # None => ~act'[p].clean
  BY <1>1, <1>6, ChangeIsNamed DEF ghosts
<1>9. Local(p)'
  BY <1>1, <1>2, <1>6, <1>8 DEF Local, LockLocal, HandLocal, SealLocal, At, Scope
<1> QED  BY <1>1, <1>2, <1>6, <1>7, <1>9, ActStep DEF Working

-----------------------------------------------------------------------------
\* An actor that has the lock, or is to seal, and still has it or is to.
LEMMA WorkStep ==
    ASSUME IInv, NEW p \in Actor,
           place' = place, lock' = lock,
           owner' \in Owners \union {None}, kept' \in [Stores -> Key \union {None}],
           seal' \in Seals \union {None}, file' \in Files, attempts' \in Attempts,
           session' = session, unaccepted' \in {unaccepted, None},
           mishap' \in BOOLEAN, crossed' \in BOOLEAN,
           act' \in [Actor -> Acts],
           \A q \in Actor : q # p => act'[q] = act[q],
           act'[p].at = "idle" => act'[p] = Idle,
           owner' = owner \/ owner' = None \/ owner'.at = place,
           crossed => crossed',
           crossed' \/ owner' = owner \/ lock = p \/ owner # None,
           kept' = kept \/ lock = p,
           Local(p)', Working(p)', SealInv', UnacceptedInv', PinInv'
    PROVE  IInv'
<1>1. TypeInv'
  <2>1. \A q \in Actor : act'[q].at = "idle" => act'[q] = Idle
    BY DEF IInv, TypeInv, OwnerTypeOK, At
  <2> QED  BY <2>1 DEF IInv, TypeInv, OwnerTypeOK, At
<1>2. LocalInv'
  BY OthersStay DEF IInv
<1>3. FitInv'
  BY DEF FitInv
<1> QED  BY <1>1, <1>2, <1>3 DEF IInv

\* The types of the home, and of the stores an actor looks into.
LEMMA HomeTypes ==
    ASSUME IInv
    PROVE  /\ place \in Machine /\ owner \in Owners \union {None}
           /\ kept \in [Stores -> Key \union {None}] /\ seal \in Seals \union {None}
           /\ file \in Files /\ attempts \in Attempts /\ unaccepted \in Content \union {None}
           /\ mishap \in BOOLEAN /\ crossed \in BOOLEAN
           /\ \A p \in Actor, c \in Owners : StoreNamed(p, c.store) \in Stores
           /\ \A p \in Actor : StoreNamed(p, StoreFor(p)) \in Stores
           /\ SealInv /\ UnacceptedInv /\ PinInv
BY DEF IInv, TypeInv, OwnerTypeOK, StoreNamed, StoreFor, Stores

\* A change of the state files, in the part that is authama's own.
LEMMA WriteKeeps ==
    ASSUME IInv, NEW p \in Actor, Write(p)
    PROVE  IInv'
<1>1. PICK c \in Content : file' = [file EXCEPT !.own = c]
  BY DEF Write
<1>2. /\ UNCHANGED <<place, owner, kept, seal, attempts, lock, session, ghosts>>
      /\ unaccepted' = unaccepted /\ mishap' = mishap /\ crossed' = crossed
      /\ lock = p /\ Leave(p)
  BY SameStays DEF Write, ghosts, Local, LockLocal, At, Scope
<1>3. file' \in Files /\ file'.out = file.out
  BY <1>1, HomeTypes DEF Files
<1>4. /\ Local(p)' /\ act' \in [Actor -> Acts] /\ Working(p)'
      /\ \A q \in Actor : q # p => act'[q] = act[q]
      /\ act'[p].at = "idle" => act'[p] = Idle
  BY <1>2, LeaveLocal
<1>5. SealInv' /\ UnacceptedInv' /\ PinInv'
  BY <1>2, <1>3, HomeTypes DEF SealInv, UnacceptedInv, PinInv, StoreOf
<1> QED  BY <1>2, <1>3, <1>4, <1>5, HomeTypes, WorkStep

\* Init puts the key into the store before there is a binding.
LEMMA InitKeyKeeps ==
    ASSUME IInv, NEW p \in Actor, InitKey(p)
    PROVE  IInv'
<1>1. lock = p /\ act[p].next = "end" /\ act[p].at = "key"
  BY SameStays DEF InitKey, Local, LockLocal, At, Scope
<1>2. ASSUME owner = None, NEW k \in Key,
             kept' = [kept EXCEPT ![StoreNamed(p, StoreFor(p))] = k],
             Take(p, [key |-> k, at |-> "bind"]),
             UNCHANGED <<place, owner, seal, file, attempts, lock, session, ghosts, troubles>>
      PROVE  IInv'
  <2> DEFINE f == [key |-> k, at |-> "bind"]
  <2>1. DOMAIN f = {"key", "at"} /\ f["key"] = k /\ f["at"] = "bind" /\ Take(p, f)
    BY <1>2
  <2> HIDE DEF f
  <2>2. /\ \A q \in Actor : q # p => act'[q] = act[q]
        /\ act'[p].op = act[p].op /\ act'[p].at = "bind" /\ act'[p].next = act[p].next
        /\ act'[p].clean = act[p].clean /\ act'[p].config = act[p].config /\ act'[p].key = k
        /\ act'[p].tried = act[p].tried /\ act'[p].read = act[p].read
    BY <2>1, ActTypes, TakeFacts
  <2>3. act' \in [Actor -> Acts]
    BY <2>1, <2>2, ActTypes, TakeFacts DEF Places
  <2>4. unaccepted = None /\ unaccepted' = None /\ mishap' = mishap /\ crossed' = crossed
    BY <1>2, HomeTypes DEF UnacceptedInv, ghosts
  <2>5. /\ kept' \in [Stores -> Key \union {None}]
        /\ kept'[StoreNamed(p, StoreFor(p))] = k
    BY <1>2, HomeTypes
  <2>6. StoreNamed(p, StoreFor(p))' = StoreNamed(p, StoreFor(p))
    BY <1>2 DEF StoreNamed, StoreFor
  <2>7. Local(p)'
    BY <1>1, <1>2, <2>2, <2>4, <2>5, <2>6, OwnerAssumption
       DEF Local, LockLocal, HandLocal, SealLocal, At, Scope
  <2>8. SealInv' /\ UnacceptedInv' /\ PinInv' /\ Working(p)'
    BY <1>1, <1>2, <2>4, HomeTypes DEF SealInv, UnacceptedInv, PinInv, Working
  <2> QED  BY <1>1, <1>2, <2>2, <2>3, <2>4, <2>5, <2>7, <2>8, HomeTypes, WorkStep
<1>3. CASE owner # None /\ Leave(p) /\ UNCHANGED <<home, lock, session, ghosts, troubles>>
  BY <1>1, <1>3, LeaveStep, SameStays DEF home, ghosts
<1> QED  BY <1>1, <1>2, <1>3, FailsKeeps DEF InitKey

\* Init writes the binding to a key that is there, or takes the key out.
LEMMA InitBindKeeps ==
    ASSUME IInv, NEW p \in Actor, InitBind(p)
    PROVE  IInv'
<1>1. /\ lock = p /\ act[p].next = "end" /\ act[p].at = "bind" /\ act[p].key \in Key
      /\ unaccepted = None /\ kept[StoreNamed(p, StoreFor(p))] # None
      /\ crossed \/ owner = None
      /\ UNCHANGED <<place, seal, file, attempts, lock, session, ghosts>>
      /\ unaccepted' = unaccepted /\ mishap' = mishap /\ crossed' = crossed
  BY SameStays DEF InitBind, ghosts, Local, LockLocal, HandLocal, At, Scope
<1>2. CASE /\ owner' = [store |-> StoreFor(p), at |-> place, pin |-> None, weak |-> FALSE]
           /\ Go(p, "seal") /\ kept' = kept
  <2>1. owner' \in Owners /\ owner'.at = place /\ owner'.store = StoreFor(p)
    BY <1>2, HomeTypes DEF Owners, StoreFor
  <2> DEFINE b == [act[p] EXCEPT !.at = "seal"]
  <2>2. /\ b \in Acts /\ b.at = "seal" /\ b.op = act[p].op /\ b.clean = act[p].clean
        /\ b.config = act[p].config /\ b.key = act[p].key /\ b.read = act[p].read
        /\ b.next = act[p].next
    BY SameStays DEF Acts, Places
  <2>3. act' = [act EXCEPT ![p] = b]
    BY <1>2, SameStays DEF Go
  <2> HIDE DEF b
  <2>4. /\ act' \in [Actor -> Acts] /\ act'[p] = b
        /\ \A q \in Actor : q # p => act'[q] = act[q]
    BY <2>2, <2>3, SameStays, ActFacts
  <2>5. Local(p)'
    BY <1>1, <2>1, <2>2, <2>4 DEF Local, LockLocal, HandLocal, SealLocal, At, Scope
  <2>6. kept'[StoreOf(owner')] # None
    BY <1>1, <1>2, <2>1 DEF StoreOf, StoreFor, StoreNamed
  <2>7. SealInv' /\ UnacceptedInv' /\ PinInv' /\ Working(p)'
    BY <1>1, <2>6, HomeTypes DEF SealInv, UnacceptedInv, PinInv, Working
  <2> QED  BY <1>1, <1>2, <2>1, <2>2, <2>4, <2>5, <2>7, HomeTypes, WorkStep
<1>3. CASE kept' = UnkeptAfter(p) /\ Leave(p) /\ UNCHANGED owner
  <2>1. /\ Local(p)' /\ act' \in [Actor -> Acts] /\ Working(p)'
        /\ \A q \in Actor : q # p => act'[q] = act[q]
        /\ act'[p].at = "idle" => act'[p] = Idle
    BY <1>1, <1>3, LeaveLocal
  <2>2. kept' \in [Stores -> Key \union {None}]
    BY <1>3, HomeTypes DEF UnkeptAfter
  <2>3. SealInv' /\ UnacceptedInv' /\ PinInv'
    BY <1>1, <1>3, HomeTypes DEF SealInv, UnacceptedInv, PinInv
  <2> QED  BY <1>1, <1>3, <2>1, <2>2, <2>3, HomeTypes, WorkStep
<1> QED  BY <1>2, <1>3 DEF InitBind

\* Go changes the place of one actor and nothing else.
LEMMA GoFacts ==
    ASSUME IInv, NEW p \in Actor, NEW s \in Places, Go(p, s)
    PROVE  /\ act' \in [Actor -> Acts]
           /\ \A q \in Actor : q # p => act'[q] = act[q]
           /\ act'[p].at = s /\ act'[p].op = act[p].op /\ act'[p].clean = act[p].clean
           /\ act'[p].config = act[p].config /\ act'[p].key = act[p].key
           /\ act'[p].read = act[p].read /\ act'[p].next = act[p].next
<1> DEFINE b == [act[p] EXCEPT !.at = s]
<1>1. /\ b \in Acts /\ b.at = s /\ b.op = act[p].op /\ b.clean = act[p].clean
      /\ b.config = act[p].config /\ b.key = act[p].key /\ b.read = act[p].read
      /\ b.next = act[p].next
  BY SameStays DEF Acts
<1>2. act' = [act EXCEPT ![p] = b]
  BY SameStays DEF Go
<1> HIDE DEF b
<1> QED  BY <1>1, <1>2, SameStays, ActFacts

\* Forget removes the binding, and with it what was not accepted.
LEMMA UnbindKeeps ==
    ASSUME IInv, NEW p \in Actor, Unbind(p)
    PROVE  IInv'
<1>1. lock = p /\ act[p].next = "end" /\ act[p].at = "unbind"
  BY SameStays DEF Unbind, Local, LockLocal, At, Scope
<1>2. ASSUME owner # None, owner' = None,
             Take(p, [config |-> owner, at |-> "unseal"]), unaccepted' = None,
             UNCHANGED <<place, kept, seal, file, attempts, lock, session, mishap, crossed, troubles>>
      PROVE  IInv'
  <2> DEFINE f == [config |-> owner, at |-> "unseal"]
  <2>1. DOMAIN f = {"config", "at"} /\ f["config"] = owner /\ f["at"] = "unseal" /\ Take(p, f)
    BY <1>2
  <2> HIDE DEF f
  <2>2. /\ \A q \in Actor : q # p => act'[q] = act[q]
        /\ act'[p].op = act[p].op /\ act'[p].at = "unseal" /\ act'[p].next = act[p].next
        /\ act'[p].clean = act[p].clean /\ act'[p].config = owner /\ act'[p].key = act[p].key
        /\ act'[p].tried = act[p].tried /\ act'[p].read = act[p].read
    BY <2>1, ActTypes, TakeFacts
  <2>3. act' \in [Actor -> Acts]
    BY <2>1, <2>2, ActTypes, HomeTypes, TakeFacts DEF Places
  <2>4. Local(p)'
    BY <1>1, <1>2, <2>2, HomeTypes
       DEF Local, LockLocal, HandLocal, SealLocal, At, Scope
  <2>5. SealInv' /\ UnacceptedInv' /\ PinInv' /\ Working(p)'
    BY <1>1, <1>2, HomeTypes DEF SealInv, UnacceptedInv, PinInv, Working
  <2> QED  BY <1>1, <1>2, <2>2, <2>3, <2>4, <2>5, HomeTypes, WorkStep
<1>3. CASE owner = None /\ Leave(p) /\ UNCHANGED <<home, lock, session, ghosts, troubles>>
  BY <1>1, <1>3, LeaveStep, SameStays DEF home, ghosts
<1> QED  BY <1>1, <1>2, <1>3, FailsKeeps DEF Unbind

\* Forget removes the seal of a home no longer bound.
LEMMA UnsealKeeps ==
    ASSUME IInv, NEW p \in Actor, Unseal(p)
    PROVE  IInv'
<1>1. /\ lock = p /\ act[p].next = "end" /\ act[p].at = "unseal" /\ act[p].config \in Owners
      /\ unaccepted = None /\ (crossed \/ owner = None)
  BY SameStays DEF Unseal, Local, LockLocal, HandLocal, At, Scope
<1>2. ASSUME seal' = None, attempts' = NoAttempts, Go(p, "unkey"),
             UNCHANGED <<place, owner, kept, file, lock, session, ghosts, troubles>>
      PROVE  IInv'
  <2>1. /\ act' \in [Actor -> Acts]
        /\ \A q \in Actor : q # p => act'[q] = act[q]
        /\ act'[p].at = "unkey" /\ act'[p].op = act[p].op /\ act'[p].clean = act[p].clean
        /\ act'[p].config = act[p].config /\ act'[p].next = act[p].next
    BY <1>2, GoFacts DEF Places
  <2>2. unaccepted' = unaccepted /\ mishap' = mishap /\ crossed' = crossed
    BY <1>2 DEF ghosts
  <2>3. Local(p)'
    BY <1>1, <1>2, <2>1, <2>2 DEF Local, LockLocal, HandLocal, SealLocal, At, Scope
  <2>4. SealInv' /\ UnacceptedInv' /\ PinInv' /\ Working(p)'
    BY <1>1, <1>2, <2>2, HomeTypes DEF SealInv, UnacceptedInv, PinInv, Working
  <2> QED  BY <1>1, <1>2, <2>1, <2>2, <2>3, <2>4, HomeTypes, SameStays, WorkStep
<1> QED  BY <1>1, <1>2, FailsKeeps DEF Unseal

\* Forget removes the key last, when no binding needs it.
LEMMA UnkeyKeeps ==
    ASSUME IInv, NEW p \in Actor, Unkey(p)
    PROVE  IInv'
<1>1. /\ lock = p /\ act[p].next = "end" /\ act[p].at = "unkey" /\ act[p].config \in Owners
      /\ unaccepted = None /\ (crossed \/ owner = None)
  BY SameStays DEF Unkey, Local, LockLocal, HandLocal, At, Scope
<1>2. ASSUME kept' = [kept EXCEPT ![StoreNamed(p, act[p].config.store)] = None], Leave(p),
             UNCHANGED <<place, owner, seal, file, attempts, lock, session, ghosts, troubles>>
      PROVE  IInv'
  <2>1. unaccepted' = unaccepted /\ mishap' = mishap /\ crossed' = crossed
    BY <1>2 DEF ghosts
  <2>2. /\ Local(p)' /\ act' \in [Actor -> Acts] /\ Working(p)'
        /\ \A q \in Actor : q # p => act'[q] = act[q]
        /\ act'[p].at = "idle" => act'[p] = Idle
    BY <1>1, <1>2, <2>1, LeaveLocal
  <2>3. kept' \in [Stores -> Key \union {None}]
    BY <1>2, HomeTypes
  <2>4. SealInv' /\ UnacceptedInv' /\ PinInv'
    BY <1>1, <1>2, <2>1, HomeTypes DEF SealInv, UnacceptedInv, PinInv
  <2> QED  BY <1>1, <1>2, <2>1, <2>2, <2>3, <2>4, HomeTypes, WorkStep
<1> QED  BY <1>1, <1>2, FailsKeeps DEF Unkey

\* An operation on the PIN loads the binding and the key, under the lock.
LEMMA UnlockKeeps ==
    ASSUME IInv, NEW p \in Actor, Unlock(p)
    PROVE  IInv'
<1> DEFINE asks == act[p].op \in {"set", "remove"} /\ HasPIN(owner)
           f == [config |-> owner, key |-> KeyOf(p, owner), next |-> "save"]
<1>1. /\ lock = p /\ act[p].next = "end" /\ act[p].at = "unlock"
      /\ lock = p /\ unaccepted # None => ~act[p].clean
      /\ UNCHANGED <<place, owner, kept, seal, file, lock, session, ghosts>>
      /\ session' \in [Web -> {"never", "lately", "longAgo"}]
      /\ unaccepted' = unaccepted /\ mishap' = mishap /\ crossed' = crossed
  BY SameStays DEF Unlock, ghosts, Local, LockLocal, At, Scope
<1>2. \/ Leave(p) /\ UNCHANGED attempts
      \/ /\ Unlocks(p)
         /\ act' = [act EXCEPT ![p] = IF asks THEN Checking(p, f)
                                      ELSE With([at |-> "save"], With(f, @))]
         /\ attempts' \in {NoAttempts, attempts}
  BY DEF Unlock
<1>3. CASE Leave(p) /\ UNCHANGED attempts
  BY <1>1, <1>3, SameStays, LeaveStep
<1>4. CASE /\ Unlocks(p)
           /\ act' = [act EXCEPT ![p] = IF asks THEN Checking(p, f)
                                        ELSE With([at |-> "save"], With(f, @))]
           /\ attempts' \in {NoAttempts, attempts}
  <2> DEFINE b == With(f, act[p])
  <2>1. /\ owner \in Owners /\ owner.at = place /\ owner # None
        /\ KeyOf(p, owner) \in Key
        /\ crossed \/ kept[StoreOf(owner)] # None
    BY <1>4, KeyFacts
  <2>2. /\ DOMAIN f = {"config", "key", "next"} /\ f["config"] = owner
        /\ f["key"] = KeyOf(p, owner) /\ f["next"] = "save"
    OBVIOUS
  <2> HIDE DEF f
  <2>3. /\ b = [op |-> b.op, at |-> b.at, clean |-> b.clean, config |-> b.config,
                key |-> b.key, tried |-> b.tried, read |-> b.read, next |-> b.next]
        /\ b.op = act[p].op /\ b.at = act[p].at /\ b.clean = act[p].clean /\ b.config = owner
        /\ b.key = KeyOf(p, owner) /\ b.tried = act[p].tried /\ b.read = act[p].read
        /\ b.next = "save"
    BY <2>2, SameStays, WithFacts
  <2> HIDE DEF b
  <2>4. b \in Acts
    BY <2>1, <2>3, ActTypes DEF Acts, Nexts
  <2>5. ASSUME NEW c \in Acts, act' = [act EXCEPT ![p] = c],
               c.op = b.op, c.clean = b.clean, c.config = b.config, c.key = b.key, c.next = b.next,
               \/ c.at = "save"
               \/ c.at = "answer" /\ c.read \in PinReads
        PROVE  IInv'
    <3>1. /\ act' \in [Actor -> Acts] /\ act'[p] = c
          /\ \A q \in Actor : q # p => act'[q] = act[q]
      BY <2>5, SameStays, ActFacts
    <3>2. crossed' \/ kept'[StoreOf(c.config)] # None
      BY <1>1, <2>1, <2>3, <2>5
    <3>3. LockLocal(p)'
      BY <1>1, <2>3, <2>5, <3>1 DEF LockLocal, At, Scope
    <3>4. HandLocal(p)'
      BY <1>1, <2>1, <2>3, <2>5, <3>1, <3>2 DEF HandLocal, At, StoreOf
    <3>5. SealLocal(p)'
      BY <2>5, <3>1 DEF SealLocal, At
    <3>6. Local(p)' /\ attempts' \in Attempts /\ Working(p)' /\ act'[p].at # "idle"
      BY <1>1, <1>4, <2>5, <3>1, <3>3, <3>4, <3>5, SameStays DEF Local, Working
    <3> QED  BY <1>1, <3>1, <3>6, ActStep
  <2>6. CASE asks
    <3> DEFINE g == [tried |-> attempts.failures,
                     read |-> [pin |-> owner.pin, weak |-> owner.weak], at |-> "answer"]
               c == With(g, b)
    <3>1. act' = [act EXCEPT ![p] = c]
      BY <1>4, <2>6 DEF Checking, b
    <3>2. /\ DOMAIN g = {"tried", "read", "at"} /\ g["tried"] = attempts.failures
          /\ g["read"] = [pin |-> owner.pin, weak |-> owner.weak] /\ g["at"] = "answer"
      OBVIOUS
    <3> HIDE DEF g
    <3>3. /\ c = [op |-> c.op, at |-> c.at, clean |-> c.clean, config |-> c.config,
                  key |-> c.key, tried |-> c.tried, read |-> c.read, next |-> c.next]
          /\ c.op = b.op /\ c.at = "answer" /\ c.clean = b.clean /\ c.config = b.config
          /\ c.key = b.key /\ c.tried = attempts.failures
          /\ c.read = [pin |-> owner.pin, weak |-> owner.weak] /\ c.next = b.next
      BY <2>4, <3>2, WithFacts
    <3> HIDE DEF c
    <3>4. c.read \in PinReads /\ c.tried \in 0..FreeAttempts
      BY <2>1, <2>6, <3>3, SameStays DEF HasPIN, Owners, PinReads, Attempts
    <3>5. c \in Acts
      BY <2>4, <3>3, <3>4 DEF Acts, Places
    <3> QED  BY <2>5, <3>1, <3>3, <3>4, <3>5
  <2>7. CASE ~asks
    <3> DEFINE g == [at |-> "save"]
               c == With(g, b)
    <3>1. act' = [act EXCEPT ![p] = c]
      BY <1>4, <2>7, SameStays DEF b
    <3>2. DOMAIN g = {"at"} /\ g["at"] = "save"
      OBVIOUS
    <3> HIDE DEF g
    <3>3. /\ c = [op |-> c.op, at |-> c.at, clean |-> c.clean, config |-> c.config,
                  key |-> c.key, tried |-> c.tried, read |-> c.read, next |-> c.next]
          /\ c.op = b.op /\ c.at = "save" /\ c.clean = b.clean /\ c.config = b.config
          /\ c.key = b.key /\ c.tried = b.tried /\ c.read = b.read /\ c.next = b.next
      BY <2>4, <3>2, WithFacts
    <3> HIDE DEF c
    <3>4. c \in Acts
      BY <2>4, <3>3 DEF Acts, Places
    <3> QED  BY <2>5, <3>1, <3>3, <3>4
  <2> QED  BY <2>6, <2>7
<1> QED  BY <1>2, <1>3, <1>4

\* The PIN is right, and the command goes on, or it is wrong.
LEMMA AnswerKeeps ==
    ASSUME IInv, NEW p \in Actor, Answer(p)
    PROVE  IInv'
<1>1. /\ act[p].at = "answer" /\ act[p].read \in PinReads
      /\ UNCHANGED <<place, owner, kept, seal, file, lock, ghosts>>
      /\ unaccepted' = unaccepted /\ mishap' = mishap /\ crossed' = crossed
      /\ LockLocal(p) /\ HandLocal(p)
  BY SameStays DEF Answer, ghosts, Local, HandLocal, At
<1>2. CASE Wrong(p)
  <2>1. attempts' \in Attempts
    <3>1. act[p].tried \in 0..FreeAttempts /\ FreeAttempts \in Nat \ {0}
      BY ActTypes, OwnerAssumption
    <3> QED  BY <1>2, <3>1 DEF Wrong, Attempts
  <2>2. Leave(p) /\ session' \in [Web -> {"never", "lately", "longAgo"}]
    BY <1>2, SameStays DEF Wrong
  <2> QED  BY <1>1, <2>1, <2>2, LeaveStep
<1>3. CASE Right(p)
  <2>1. attempts' \in Attempts /\ session' \in [Web -> {"never", "lately", "longAgo"}]
    BY <1>3, SameStays DEF Right
  <2>2. CASE act[p].read.weak /\ Unlocks(p)
    <3> DEFINE f == [config |-> owner, key |-> KeyOf(p, owner), tried |-> 0, at |-> "rehashed"]
    <3>1. /\ DOMAIN f = {"config", "key", "tried", "at"} /\ f["config"] = owner
          /\ f["key"] = KeyOf(p, owner) /\ f["tried"] = 0 /\ f["at"] = "rehashed"
      OBVIOUS
    <3>2. Take(p, f)
      BY <1>3, <2>2 DEF Right
    <3> HIDE DEF f
    <3>3. /\ owner \in Owners /\ owner.at = place /\ owner # None
          /\ KeyOf(p, owner) \in Key
          /\ crossed \/ kept[StoreOf(owner)] # None
      BY <2>2, KeyFacts
    <3>4. /\ \A q \in Actor : q # p => act'[q] = act[q]
          /\ act'[p].op = act[p].op /\ act'[p].at = "rehashed" /\ act'[p].next = act[p].next
          /\ act'[p].clean = act[p].clean /\ act'[p].config = owner
          /\ act'[p].key = KeyOf(p, owner)
          /\ act'[p].tried = 0 /\ act'[p].read = act[p].read
      BY <3>1, <3>2, ActTypes, TakeFacts
    <3>5. act' \in [Actor -> Acts]
      BY <3>2, <3>3, <3>4, ActTypes, TakeFacts, OwnerAssumption DEF Places
    <3>6. LockLocal(p)'
      BY <1>1, <3>4 DEF LockLocal, At, Scope
    <3>7. HandLocal(p)'
      <4>1. act[p].next = "save" => lock = p
        BY <1>1 DEF HandLocal
      <4>2. crossed' \/ kept'[StoreOf(owner)] # None
        BY <1>1, <3>3
      <4> QED  BY <1>1, <3>3, <3>4, <4>1, <4>2 DEF HandLocal, At, StoreOf
    <3>8. SealLocal(p)'
      BY <3>4 DEF SealLocal, At
    <3> QED  BY <1>1, <2>1, <3>4, <3>5, <3>6, <3>7, <3>8, ActStep DEF Local, Working
  <2>3. CASE Resumes(p)
    <3>1. act[p].next # "release"
      BY <1>1 DEF LockLocal, At
    <3>2. /\ Local(p)' /\ act' \in [Actor -> Acts]
          /\ \A q \in Actor : q # p => act'[q] = act[q]
          /\ act'[p].at = "idle" => act'[p] = Idle
      BY <1>1, <2>3, <3>1, ResumesLocal
    <3>3. Working(p) => Working(p)'
      BY <1>1 DEF Working
    <3> QED  BY <1>1, <2>1, <3>2, <3>3, ActStep
  <2> QED  BY <1>3, <2>2, <2>3 DEF Right
<1> QED  BY <1>2, <1>3 DEF Answer

\* A rehash writes the binding back; if it changed since, it crossed.
LEMMA SaveRehashKeeps ==
    ASSUME IInv, NEW p \in Actor, SaveRehash(p)
    PROVE  IInv'
<1>1. /\ act[p].at = "rehashed" /\ act[p].read \in PinReads
      /\ act[p].config \in Owners /\ act[p].config.at = place /\ act[p].key \in Key
      /\ UNCHANGED <<place, kept, seal, file, attempts, lock, session, unaccepted, mishap>>
      /\ LockLocal(p) /\ HandLocal(p)
  BY SameStays DEF SaveRehash, Local, HandLocal, At
<1>2. ASSUME owner' = [act[p].config EXCEPT !.pin = act[p].read.pin, !.weak = FALSE],
             crossed' = (crossed \/ owner # act[p].config),
             Take(p, [config |-> IF act[p].next = "save" THEN act[p].config ELSE None,
                      read |-> None, at |-> "seal"])
      PROVE  IInv'
  <2> DEFINE c == IF act[p].next = "save" THEN act[p].config ELSE None
             f == [config |-> c, read |-> None, at |-> "seal"]
  <2>1. DOMAIN f = {"config", "read", "at"} /\ f["config"] = c /\ f["read"] = None /\ f["at"] = "seal"
    OBVIOUS
  <2>2. Take(p, f)
    BY <1>2
  <2> HIDE DEF f
  <2>3. /\ \A q \in Actor : q # p => act'[q] = act[q]
        /\ act'[p].op = act[p].op /\ act'[p].at = "seal" /\ act'[p].next = act[p].next
        /\ act'[p].clean = act[p].clean /\ act'[p].config = c
        /\ act'[p].key = act[p].key
        /\ act'[p].tried = act[p].tried /\ act'[p].read = None
    BY <2>1, <2>2, ActTypes, TakeFacts
  <2>4. c \in Owners \union {None}
    BY <1>1
  <2>5. act' \in [Actor -> Acts]
    BY <2>2, <2>3, <2>4, ActTypes, TakeFacts DEF Places
  <2>6. /\ owner' \in Owners /\ owner'.at = place /\ owner' # None
        /\ StoreOf(owner') = StoreOf(act[p].config)
    <3>1. owner' \in Owners /\ owner'.at = place /\ owner'.store = act[p].config.store
      BY <1>1, <1>2 DEF Owners, PinReads
    <3> QED  BY <1>1, <3>1, AbsentAssumption DEF StoreOf
  <2>7. crossed' \in BOOLEAN /\ (crossed => crossed') /\ (crossed' \/ owner # None)
    BY <1>1, <1>2, HomeTypes, AbsentAssumption
  <2>8. LockLocal(p)'
    BY <1>1, <2>3 DEF LockLocal, At, Scope
  <2>9. HandLocal(p)'
    <3>1. act[p].next = "save" => /\ lock = p
                                  /\ crossed' \/ kept'[StoreOf(act[p].config)] # None
      BY <1>1, <2>7 DEF HandLocal
    <3> QED  BY <1>1, <2>3, <3>1 DEF HandLocal, At, StoreOf
  <2>10. SealLocal(p)'
    BY <1>1, <2>3, <2>6 DEF SealLocal, At
  <2>11. PinInv'
    <3>1. ~crossed' => kept[StoreOf(act[p].config)] # None
      BY <1>1, <1>2, HomeTypes, AbsentAssumption DEF PinInv
    <3> QED  BY <1>1, <2>6, <3>1 DEF PinInv, StoreOf
  <2>12. SealInv' /\ UnacceptedInv' /\ Working(p)'
    BY <1>1, <2>3, <2>6, HomeTypes DEF SealInv, UnacceptedInv, Working
  <2> QED  BY <1>1, <2>3, <2>5, <2>6, <2>7, <2>8, <2>9, <2>10, <2>11, <2>12, HomeTypes, WorkStep DEF Local
<1>3. CASE Resumes(p) /\ UNCHANGED <<owner, crossed>>
  <2>1. act[p].next # "release"
    BY <1>1 DEF LockLocal, At
  <2>2. /\ Local(p)' /\ act' \in [Actor -> Acts]
        /\ \A q \in Actor : q # p => act'[q] = act[q]
        /\ act'[p].at = "idle" => act'[p] = Idle
    BY <1>1, <1>3, <2>1, ResumesLocal
  <2>3. Working(p) => Working(p)'
    BY <1>1 DEF Working
  <2> QED  BY <1>1, <1>3, <2>2, <2>3, SameStays, ActStep DEF ghosts
<1> QED  BY <1>2, <1>3 DEF SaveRehash

\* The new PIN is written into a binding whose key is there.
LEMMA SaveKeeps ==
    ASSUME IInv, NEW p \in Actor, Save(p)
    PROVE  IInv'
<1>1. /\ act[p].at = "save" /\ act[p].next = "save" /\ lock = p
      /\ act[p].config \in Owners /\ act[p].config.at = place /\ act[p].key \in Key
      /\ crossed \/ kept[StoreOf(act[p].config)] # None
      /\ unaccepted # None => ~act[p].clean
  BY SameStays DEF Save, Local, LockLocal, HandLocal, At
<1>2. ASSUME owner' \in Saved(act[p].config, act[p].op),
             Take(p, [config |-> None, at |-> "seal", next |-> "end"]),
             UNCHANGED <<place, kept, seal, file, attempts, lock, session, ghosts, troubles>>
      PROVE  IInv'
  <2> DEFINE f == [config |-> None, at |-> "seal", next |-> "end"]
  <2>1. DOMAIN f = {"config", "at", "next"} /\ f["config"] = None /\ f["at"] = "seal" /\ f["next"] = "end"
    OBVIOUS
  <2>2. Take(p, f)
    BY <1>2
  <2> HIDE DEF f
  <2>3. /\ \A q \in Actor : q # p => act'[q] = act[q]
        /\ act'[p].op = act[p].op /\ act'[p].at = "seal" /\ act'[p].next = "end"
        /\ act'[p].clean = act[p].clean /\ act'[p].config = None
        /\ act'[p].key = act[p].key
        /\ act'[p].tried = act[p].tried /\ act'[p].read = act[p].read
    BY <2>1, <2>2, ActTypes, TakeFacts
  <2>4. act' \in [Actor -> Acts]
    BY <2>2, <2>3, ActTypes, TakeFacts DEF Places, Nexts
  <2>5. /\ owner' \in Owners /\ owner'.at = place /\ owner' # None
        /\ StoreOf(owner') = StoreOf(act[p].config)
    <3>1. PICK n \in Pin \union {None} : owner' = [act[p].config EXCEPT !.pin = n, !.weak = FALSE]
      BY <1>2 DEF Saved
    <3>2. owner' \in Owners /\ owner'.at = place /\ owner'.store = act[p].config.store
      BY <1>1, <3>1 DEF Owners
    <3> QED  BY <1>1, <3>2, AbsentAssumption DEF StoreOf
  <2>6. unaccepted' = unaccepted /\ mishap' = mishap /\ crossed' = crossed
    BY <1>2 DEF ghosts
  <2>7. Local(p)'
    BY <1>1, <1>2, <2>3, <2>5, <2>6 DEF Local, LockLocal, HandLocal, SealLocal, At, Scope
  <2>8. PinInv'
    BY <1>1, <1>2, <2>5, <2>6 DEF PinInv, StoreOf
  <2>9. SealInv' /\ UnacceptedInv' /\ Working(p)'
    BY <1>1, <1>2, <2>5, <2>6, HomeTypes DEF SealInv, UnacceptedInv, Working
  <2> QED  BY <1>1, <1>2, <2>3, <2>4, <2>5, <2>6, <2>7, <2>8, <2>9, HomeTypes, WorkStep
<1> QED  BY <1>1, <1>2, FailsKeeps DEF Save

\* The files are read and the seal over them is to be written.
LEMMA SealingFacts ==
    ASSUME IInv, NEW p \in Actor, NEW k \in Key, NEW n \in Nexts,
           Take(p, [key |-> k, read |-> Made(k), at |-> "sealing", next |-> n]),
           owner = None \/ owner.at = place,
           lock = p => n \in {"end", "save", "release"},
           n \in {"save", "lock"} => n = act[p].next,
           n = "release" => lock = p /\ act[p].clean,
           UNCHANGED <<home, lock, ghosts>>
    PROVE  /\ act' \in [Actor -> Acts]
           /\ \A q \in Actor : q # p => act'[q] = act[q]
           /\ act'[p].at = "sealing"
           /\ Local(p)'
<1> DEFINE f == [key |-> k, read |-> Made(k), at |-> "sealing", next |-> n]
<1>1. /\ DOMAIN f = {"key", "read", "at", "next"} /\ f["key"] = k /\ f["read"] = Made(k)
      /\ f["at"] = "sealing" /\ f["next"] = n /\ Take(p, f)
  OBVIOUS
<1> HIDE DEF f
<1>2. /\ \A q \in Actor : q # p => act'[q] = act[q]
      /\ act'[p].op = act[p].op /\ act'[p].at = "sealing" /\ act'[p].next = n
      /\ act'[p].clean = act[p].clean /\ act'[p].config = act[p].config
      /\ act'[p].key = k
      /\ act'[p].tried = act[p].tried /\ act'[p].read = Made(k)
  BY <1>1, ActTypes, TakeFacts
<1>3. /\ Made(k) \in Seals
      /\ Made(k).key = k /\ Made(k).at = place
      /\ Made(k).file = file /\ Made(k).owner = owner
  BY MadeFacts
<1>4. act' \in [Actor -> Acts]
  BY <1>1, <1>2, <1>3, ActTypes, TakeFacts DEF Places
<1>5. /\ LockLocal(p) /\ HandLocal(p)
      /\ unaccepted # None => file.out = unaccepted
      /\ place' = place /\ owner' = owner /\ kept' = kept /\ lock' = lock
      /\ unaccepted' = unaccepted /\ crossed' = crossed
  BY SameStays, HomeTypes DEF Local, UnacceptedInv, home, ghosts
<1>6. LockLocal(p)'
  BY <1>2, <1>5 DEF LockLocal, At, Scope
<1>7. HandLocal(p)'
  <2>1. n = "save" =>
          /\ lock' = p
          /\ act[p].config \in Owners /\ act[p].config.at = place
          /\ crossed' \/ kept'[StoreOf(act[p].config)] # None
    BY <1>5 DEF HandLocal
  <2> QED  BY <1>2, <1>5, <2>1 DEF HandLocal, At, StoreOf
<1>8. SealLocal(p)'
  BY <1>2, <1>3, <1>5 DEF SealLocal, At
<1> QED  BY <1>2, <1>4, <1>6, <1>7, <1>8 DEF Local

\* Reseal loads the binding and the key anew, and then the files.
LEMMA ResealKeeps ==
    ASSUME IInv, NEW p \in Actor, Reseal(p)
    PROVE  IInv'
<1>1. /\ act[p].at = "load"
      /\ UNCHANGED <<home, lock, session, ghosts>>
      /\ UNCHANGED <<place, owner, kept, seal, file, lock, ghosts>>
      /\ attempts' \in Attempts /\ session' \in [Web -> {"never", "lately", "longAgo"}]
  BY SameStays DEF Reseal, home, At
<1>2. CASE Unlocks(p)
  <2> DEFINE n == IF lock = p THEN "end" ELSE "idle"
  <2>1. KeyOf(p, owner) \in Key /\ owner.at = place
    BY <1>2, KeyFacts
  <2>2. Take(p, [key |-> KeyOf(p, owner), read |-> Made(KeyOf(p, owner)), at |-> "sealing", next |-> n])
    BY <1>2 DEF Reseal, Resealing
  <2>3. n \in Nexts /\ n \notin {"save", "lock", "release"} /\ (lock = p => n = "end")
    BY DEF Nexts
  <2> HIDE DEF n
  <2>4. /\ act' \in [Actor -> Acts]
        /\ \A q \in Actor : q # p => act'[q] = act[q]
        /\ act'[p].at = "sealing"
        /\ Local(p)'
    BY <1>1, <2>1, <2>2, <2>3, SealingFacts
  <2> QED  BY <1>1, <2>4, ActStep DEF Working
<1>3. CASE ~Unlocks(p)
  <2>1. Leave(p)
    BY <1>3 DEF Reseal
  <2> QED  BY <1>1, <2>1, LeaveStep
<1> QED  BY <1>2, <1>3

\* The files are read with the key in hand.
LEMMA SealReadKeeps ==
    ASSUME IInv, NEW p \in Actor, SealRead(p)
    PROVE  IInv'
<1> DEFINE k == act[p].key
           f == [read |-> Made(k), at |-> "sealing"]
<1>1. /\ act[p].at = "seal" /\ k \in Key
      /\ owner = None \/ owner.at = place
      /\ LockLocal(p) /\ HandLocal(p)
      /\ place' = place /\ owner' = owner /\ kept' = kept /\ lock' = lock
      /\ unaccepted' = unaccepted /\ crossed' = crossed
      /\ UNCHANGED <<place, owner, kept, seal, file, lock, ghosts>>
      /\ attempts' \in Attempts /\ session' \in [Web -> {"never", "lately", "longAgo"}]
  BY SameStays DEF SealRead, home, ghosts, Local, HandLocal, SealLocal, At
<1>2. DOMAIN f = {"read", "at"} /\ f["read"] = Made(k) /\ f["at"] = "sealing"
  OBVIOUS
<1>3. Take(p, f)
  BY DEF SealRead
<1> HIDE DEF f
<1>4. /\ \A q \in Actor : q # p => act'[q] = act[q]
      /\ act'[p].op = act[p].op /\ act'[p].at = "sealing" /\ act'[p].next = act[p].next
      /\ act'[p].clean = act[p].clean /\ act'[p].config = act[p].config
      /\ act'[p].key = k
      /\ act'[p].tried = act[p].tried /\ act'[p].read = Made(k)
  BY <1>2, <1>3, ActTypes, TakeFacts
<1>5. /\ Made(k) \in Seals
      /\ Made(k).key = k /\ Made(k).at = place
      /\ Made(k).file = file /\ Made(k).owner = owner
  BY <1>1, MadeFacts
<1>6. act' \in [Actor -> Acts]
  BY <1>3, <1>4, <1>5, ActTypes, TakeFacts DEF Places
<1>7. LockLocal(p)'
  BY <1>1, <1>4 DEF LockLocal, At, Scope
<1>8. HandLocal(p)'
  BY <1>1, <1>4 DEF HandLocal, At, StoreOf
<1>9. SealLocal(p)'
  <2>1. unaccepted # None => file.out = unaccepted
    BY HomeTypes DEF UnacceptedInv
  <2> QED  BY <1>1, <1>4, <1>5, <2>1 DEF SealLocal, At
<1> QED  BY <1>1, <1>4, <1>6, <1>7, <1>8, <1>9, ActStep DEF Local, Working

\* The seal is written over what was read. One at the end of a scope was
\* made of a home that was clean, so nothing unaccepted is in it; any other
\* accepts what it sealed.
LEMMA SealWriteKeeps ==
    ASSUME IInv, NEW p \in Actor, SealWrite(p)
    PROVE  IInv'
<1>1. /\ act[p].at = "sealing" /\ act[p].read \in Seals
      /\ act[p].read.owner = None \/ act[p].read.owner.at = act[p].read.at
      /\ unaccepted # None => act[p].read.file.out = unaccepted
      /\ owner = None \/ owner.at = place
      /\ LockLocal(p) /\ None \notin Actor
      /\ UNCHANGED <<place, owner, kept, file, attempts, session, crossed>>
      /\ lock' = IF act[p].next = "release" THEN None ELSE lock
      /\ Resumes(p)
  BY SameStays, OwnerAssumption DEF SealWrite, home, Local, SealLocal, At
<1>2. act[p].next = "release" => lock = p /\ act[p].clean
  BY <1>1 DEF LockLocal
<1>3. unaccepted' = unaccepted \/ unaccepted' = None
  BY DEF SealWrite
<1>4. /\ Local(p)' /\ act' \in [Actor -> Acts]
      /\ \A q \in Actor : q # p => act'[q] = act[q]
      /\ act'[p].at = "idle" => act'[p] = Idle
      /\ act'[p].at \notin {"seal", "sealing"}
  BY <1>1, <1>3, ResumesLocal
<1>5. LocalInv'
  <2>1. TypeInv /\ LocalInv
    BY DEF IInv
  <2> QED  BY <1>1, <1>2, <1>3, <1>4, <2>1, OthersStay
<1>6. PinInv'
  BY <1>1, HomeTypes DEF PinInv, StoreOf
<1>7. ASSUME seal' \in Seals \union {None}, mishap' \in BOOLEAN
      PROVE  TypeInv'
  <2>1. \A q \in Actor : act'[q].at = "idle" => act'[q] = Idle
    BY <1>4 DEF IInv, TypeInv, OwnerTypeOK, At
  <2>2. lock' \in Actor \union {None} /\ unaccepted' \in Content \union {None}
    BY <1>1, <1>3 DEF IInv, TypeInv, OwnerTypeOK
  <2> QED  BY <1>1, <1>4, <1>7, <2>1, <2>2 DEF IInv, TypeInv, OwnerTypeOK, At
<1>8. CASE /\ seal' = act[p].read
           /\ unaccepted' = IF unaccepted = act[p].read.file.out /\ act[p].next # "release"
                            THEN None ELSE unaccepted
           /\ mishap' = (owner = None \/ act[p].read # Made(kept[StoreOf(owner)]))
  <2>1. TypeInv'
    BY <1>1, <1>7, <1>8
  <2>2. unaccepted' = None
    <3>1. unaccepted # None => act[p].next # "release"
      BY <1>1, <1>2 DEF LockLocal
    <3> QED  BY <1>1, <1>8, <3>1
  <2>3. SealInv' /\ UnacceptedInv'
    BY <1>1, <1>8, <2>2 DEF SealInv, UnacceptedInv
  <2>4. FitInv'
    <3> SUFFICES ASSUME owner # None, act[p].read = Made(kept[StoreOf(owner)])
                 PROVE  /\ seal' \in Seals
                        /\ seal'.key = kept[StoreOf(owner)] /\ seal'.at = owner.at
                        /\ seal'.file.own = file.own /\ seal'.owner = owner
      BY <1>1, <1>8 DEF FitInv, StoreOf
    <3> QED  BY <1>1, <1>8 DEF Made
  <2> QED  BY <1>5, <1>6, <2>1, <2>3, <2>4 DEF IInv
<1>9. CASE mishap' = TRUE /\ UNCHANGED <<home, unaccepted>>
  <2>1. TypeInv'
    BY <1>7, <1>9, HomeTypes DEF home
  <2>2. SealInv' /\ UnacceptedInv' /\ FitInv'
    BY <1>9, HomeTypes DEF SealInv, UnacceptedInv, FitInv, home
  <2> QED  BY <1>5, <1>6, <2>1, <2>2 DEF IInv
<1> QED  BY <1>8, <1>9 DEF SealWrite

\* The end of a scope seals only what was clean when the lock was taken.
LEMMA EndKeeps ==
    ASSUME IInv, NEW p \in Actor, End(p)
    PROVE  IInv'
<1>1. /\ act[p].at = "end" /\ lock = p /\ None \notin Actor
      /\ UNCHANGED <<home, session, unaccepted, crossed>>
      /\ UNCHANGED <<place, owner, kept, seal, file, attempts>>
      /\ unaccepted # None => ~act[p].clean
  BY SameStays, OwnerAssumption DEF End, home, Local, LockLocal, At, Scope
<1>2. CASE act[p].clean /\ Unlocks(p)
  <2>1. KeyOf(p, owner) \in Key /\ owner.at = place
    BY <1>2, KeyFacts
  <2>2. /\ Take(p, [key |-> KeyOf(p, owner), read |-> Made(KeyOf(p, owner)), at |-> "sealing",
                    next |-> "release"])
        /\ UNCHANGED <<lock, mishap>>
    BY <1>2 DEF End, Resealing
  <2>3. UNCHANGED <<home, lock, ghosts>>
    BY <1>1, <2>2 DEF ghosts
  <2>4. /\ act' \in [Actor -> Acts]
        /\ \A q \in Actor : q # p => act'[q] = act[q]
        /\ act'[p].at = "sealing"
        /\ Local(p)'
    BY <1>1, <1>2, <2>1, <2>2, <2>3, SealingFacts DEF Nexts
  <2>5. /\ attempts' \in Attempts /\ session' \in [Web -> {"never", "lately", "longAgo"}]
        /\ UNCHANGED <<place, owner, kept, seal, file, ghosts>>
    BY <1>1, <2>3, SameStays DEF ghosts
  <2> QED  BY <2>2, <2>4, <2>5, ActStep DEF Working
<1>3. CASE /\ act' = [act EXCEPT ![p] = Idle]
           /\ lock' = None
           /\ mishap' = (mishap \/ owner # None)
  <2>1. /\ act' \in [Actor -> Acts] /\ act'[p] = Idle
        /\ \A q \in Actor : q # p => act'[q] = act[q]
    BY <1>3, SameStays, IdleFacts
  <2>2. Local(p)'
    BY <1>1, <1>3, <2>1, IdleFacts DEF Local, LockLocal, HandLocal, SealLocal, At, Scope
  <2>3. LocalInv'
    <3>1. TypeInv /\ LocalInv
      BY DEF IInv
    <3> QED  BY <1>1, <1>3, <2>1, <2>2, <3>1, OthersStay
  <2>4. TypeInv'
    <3>1. \A q \in Actor : act'[q].at = "idle" => act'[q] = Idle
      BY <2>1 DEF IInv, TypeInv, OwnerTypeOK, At
    <3>2. mishap' \in BOOLEAN
      BY <1>3
    <3> QED  BY <1>1, <1>3, <2>1, <3>1, <3>2 DEF IInv, TypeInv, OwnerTypeOK, At
  <2>5. SealInv' /\ UnacceptedInv' /\ PinInv'
    BY <1>1, HomeTypes DEF SealInv, UnacceptedInv, PinInv, StoreOf
  <2>6. FitInv'
    BY <1>1, <1>3 DEF FitInv
  <2> QED  BY <2>3, <2>4, <2>5, <2>6 DEF IInv
<1> QED  BY <1>2, <1>3 DEF End

-----------------------------------------------------------------------------
\* What happens around the actors, who stay as they are.
LEMMA AroundStep ==
    ASSUME IInv, UNCHANGED <<owner, kept, seal, lock, act, mishap, crossed>>,
           place' \in Machine, file' \in Files, file'.own = file.own, attempts' \in Attempts,
           session' \in [Web -> {"never", "lately", "longAgo"}],
           unaccepted' \in Content \union {None}, LocalInv', UnacceptedInv'
    PROVE  IInv'
<1>1. TypeInv'
  BY DEF IInv, TypeInv, OwnerTypeOK, At
<1>2. SealInv' /\ PinInv'
  BY DEF IInv, SealInv, PinInv, StoreOf
<1>3. FitInv'
  BY DEF IInv, FitInv, Working, StoreOf
<1> QED  BY <1>1, <1>2, <1>3 DEF IInv

\* Somebody else writes a file.
LEMMA OutsideEditKeeps ==
    ASSUME IInv, OutsideEdit
    PROVE  IInv'
<1>1. PICK c \in Content : file' = [file EXCEPT !.out = c]
  BY DEF OutsideEdit
<1>2. file' \in Files /\ file'.own = file.own /\ file'.out = c
  BY <1>1, HomeTypes DEF Files
<1>3. /\ UNCHANGED <<place, owner, kept, seal, attempts, lock, act, session, mishap, crossed>>
      /\ \/ unaccepted' = None
         \/ /\ Quiet /\ owner # None /\ seal # None /\ file'.out # seal.file.out
            /\ unaccepted' = file'.out
  BY DEF OutsideEdit
<1>4. UnacceptedInv'
  BY <1>3 DEF UnacceptedInv
<1>5. LocalInv'
  <2> SUFFICES ASSUME NEW q \in Actor
               PROVE  Local(q)'
    BY DEF LocalInv
  <2>1. Local(q) /\ None \notin Actor
    BY SameStays, OwnerAssumption
  <2>2. CASE unaccepted' = None
    BY <1>3, <2>1, <2>2 DEF Local, LockLocal, HandLocal, SealLocal, At, StoreOf, StoreNamed, StoreFor
  <2>3. CASE Quiet
    <3>1. lock # q /\ act[q].at \notin {"sealing", "bind", "unseal", "unkey"}
      BY <2>1, <2>3 DEF Quiet, Local, LockLocal, Scope
    <3> QED  BY <1>3, <2>1, <3>1
             DEF Local, LockLocal, HandLocal, SealLocal, At, StoreOf, StoreNamed, StoreFor
  <2> QED  BY <1>3, <2>2, <2>3
<1>6. unaccepted' \in Content \union {None}
  BY <1>2, <1>3
<1> QED  BY <1>2, <1>3, <1>4, <1>5, <1>6, SameStays, HomeTypes, AroundStep

\* The home is carried away while nobody is at work on it.
LEMMA CarryKeeps ==
    ASSUME IInv, Carry
    PROVE  IInv'
<1>1. /\ UNCHANGED <<owner, kept, seal, file, attempts, lock, act, session, ghosts>>
      /\ place' \in Machine
      /\ unaccepted' = unaccepted /\ mishap' = mishap /\ crossed' = crossed
  BY DEF Carry, ghosts
<1>2. LocalInv'
  <2> SUFFICES ASSUME NEW q \in Actor
               PROVE  Local(q)'
    BY DEF LocalInv
  <2>1. /\ act[q].at = "idle" /\ act[q] = Idle /\ lock # q
        /\ act' = act /\ lock' = lock
    BY <1>1, SameStays DEF Carry, At, IInv, TypeInv, OwnerTypeOK, Local, LockLocal
  <2> QED  BY <2>1, IdleFacts DEF Local, LockLocal, HandLocal, SealLocal, At, Scope
<1>3. UnacceptedInv'
  BY <1>1, HomeTypes DEF UnacceptedInv
<1> QED  BY <1>1, <1>2, <1>3, SameStays, HomeTypes, AroundStep

\* A wait is over, or a session gave the PIN too long ago.
LEMMA TimeKeeps ==
    ASSUME IInv, WaitOver \/ \E w \in Web : WindowOver(w)
    PROVE  IInv'
<1>1. /\ UNCHANGED <<place, owner, kept, seal, file, lock, act, ghosts>>
      /\ unaccepted' = unaccepted /\ mishap' = mishap /\ crossed' = crossed
      /\ attempts' \in Attempts /\ session' \in [Web -> {"never", "lately", "longAgo"}]
  <2>1. CASE WaitOver
    BY <2>1, SameStays DEF WaitOver, ghosts, Attempts
  <2>2. ASSUME NEW w \in Web, WindowOver(w)
        PROVE  /\ UNCHANGED <<place, owner, kept, seal, file, lock, act, ghosts>>
               /\ unaccepted' = unaccepted /\ mishap' = mishap /\ crossed' = crossed
               /\ attempts' \in Attempts /\ session' \in [Web -> {"never", "lately", "longAgo"}]
    BY <2>2, SameStays DEF WindowOver, home, ghosts
  <2> QED  BY <2>1, <2>2
<1>2. LocalInv'
  BY <1>1 DEF IInv, LocalInv, Local, LockLocal, HandLocal, SealLocal, At, StoreOf, StoreNamed, StoreFor
<1>3. UnacceptedInv'
  BY <1>1, HomeTypes DEF UnacceptedInv
<1> QED  BY <1>1, <1>2, <1>3, SameStays, HomeTypes, AroundStep

\* Actors die, and the lock of a dead one is free.
LEMMA CrashKeeps ==
    ASSUME IInv, NEW gone \in SUBSET Actor, Crash(gone)
    PROVE  IInv'
<1>1. /\ act' = [p \in Actor |-> IF p \in gone THEN Idle ELSE act[p]]
      /\ lock' = IF lock \in gone THEN None ELSE lock
      /\ session' = [w \in Web |-> IF w \in gone THEN "never" ELSE session[w]]
      /\ mishap' = TRUE
      /\ UNCHANGED <<place, owner, kept, seal, file, attempts, unaccepted, crossed>>
      /\ None \notin Actor
  BY OwnerAssumption DEF Crash, home
<1>2. act' \in [Actor -> Acts]
  BY <1>1, SameStays, IdleFacts
<1>3. LocalInv'
  <2> SUFFICES ASSUME NEW q \in Actor
               PROVE  Local(q)'
    BY DEF LocalInv
  <2>1. CASE q \in gone
    <3>1. act'[q] = Idle /\ lock' # q
      BY <1>1, <2>1
    <3> QED  BY <3>1, IdleFacts DEF Local, LockLocal, HandLocal, SealLocal, At, Scope
  <2>2. CASE q \notin gone
    <3>1. act'[q] = act[q] /\ (lock' = q <=> lock = q)
      BY <1>1, <2>2
    <3> QED  BY <1>1, <3>1, SameStays
             DEF Local, LockLocal, HandLocal, SealLocal, At, StoreOf, StoreNamed, StoreFor
  <2> QED  BY <2>1, <2>2
<1>4. TypeInv'
  <2>1. \A q \in Actor : act'[q].at = "idle" => act'[q] = Idle
    BY <1>1 DEF IInv, TypeInv, OwnerTypeOK, At
  <2>2. /\ lock' \in Actor \union {None}
        /\ session' \in [Web -> {"never", "lately", "longAgo"}]
    BY <1>1, SameStays DEF IInv, TypeInv, OwnerTypeOK
  <2> QED  BY <1>1, <1>2, <2>1, <2>2, HomeTypes DEF IInv, TypeInv, OwnerTypeOK, At
<1>5. SealInv' /\ UnacceptedInv' /\ PinInv' /\ FitInv'
  BY <1>1, HomeTypes DEF SealInv, UnacceptedInv, PinInv, FitInv, StoreOf
<1> QED  BY <1>3, <1>4, <1>5 DEF IInv

\* A home not bound, and one bound by an earlier release.
LEMMA InitIInv ==
    ASSUME Init
    PROVE  IInv
<1>1. /\ place \in Machine /\ file \in Files /\ attempts = NoAttempts /\ lock = None
      /\ act = [p \in Actor |-> Idle] /\ session = [w \in Web |-> "never"]
      /\ unaccepted = None /\ mishap = FALSE /\ crossed = FALSE
      /\ None \notin Actor /\ None \notin Key
  BY OwnerAssumption DEF Init
<1>2. \/ owner = None /\ seal = None /\ kept = [s \in Stores |-> None]
      \/ \E p \in Actor, n \in Pin, k \in Key :
            /\ owner = [store |-> StoreFor(p), at |-> place, pin |-> n, weak |-> TRUE]
            /\ kept = [s \in Stores |-> IF s = StoreNamed(p, StoreFor(p)) THEN k ELSE None]
            /\ seal = Made(k)
  BY DEF Init
<1>3. act \in [Actor -> Acts] /\ \A p \in Actor : act[p] = Idle
  BY <1>1, IdleFacts
<1>4. LocalInv
  <2> SUFFICES ASSUME NEW q \in Actor
               PROVE  Local(q)
    BY DEF LocalInv
  <2>1. act[q] = Idle /\ lock # q
    BY <1>1, <1>3
  <2> QED  BY <2>1, IdleFacts DEF Local, LockLocal, HandLocal, SealLocal, At, Scope
<1>5. attempts \in Attempts
  BY <1>1, OwnerAssumption DEF NoAttempts, Attempts
<1>6. CASE owner = None /\ seal = None /\ kept = [s \in Stores |-> None]
  <2>1. TypeInv
    BY <1>1, <1>3, <1>5, <1>6 DEF TypeInv, OwnerTypeOK
  <2> QED  BY <1>1, <1>4, <1>6, <2>1 DEF IInv, SealInv, UnacceptedInv, FitInv, PinInv
<1>7. ASSUME NEW p \in Actor, NEW n \in Pin, NEW k \in Key,
             owner = [store |-> StoreFor(p), at |-> place, pin |-> n, weak |-> TRUE],
             kept = [s \in Stores |-> IF s = StoreNamed(p, StoreFor(p)) THEN k ELSE None],
             seal = Made(k)
      PROVE  IInv
  <2>1. owner \in Owners /\ owner.at = place /\ owner.store = StoreFor(p)
    BY <1>1, <1>7 DEF Owners, StoreFor
  <2>2. /\ seal \in Seals /\ seal.owner = owner /\ seal.at = place /\ seal.key = k
        /\ seal.file = file
    BY <1>1, <1>7, <2>1 DEF Made, Seals
  <2>3. StoreOf(owner) = StoreNamed(p, StoreFor(p)) /\ StoreOf(owner) \in Stores
    BY <1>1, <2>1 DEF StoreOf, StoreNamed, StoreFor, Stores
  <2>4. kept \in [Stores -> Key \union {None}] /\ kept[StoreOf(owner)] = k
    BY <1>7, <2>3
  <2>5. TypeInv
    BY <1>1, <1>3, <1>5, <2>1, <2>2, <2>4 DEF TypeInv, OwnerTypeOK
  <2>6. SealInv /\ UnacceptedInv /\ FitInv /\ PinInv
    BY <1>1, <2>1, <2>2, <2>4 DEF SealInv, UnacceptedInv, FitInv, PinInv
  <2> QED  BY <1>4, <2>5, <2>6 DEF IInv
<1> QED  BY <1>2, <1>6, <1>7

\* Every step of anybody keeps the invariant.
LEMMA StepIInv ==
    ASSUME IInv, [Next]_vars
    PROVE  IInv'
<1>1. CASE UNCHANGED vars
  <2>1. /\ UNCHANGED <<place, owner, kept, seal, file, attempts, lock, act, session>>
        /\ unaccepted' = unaccepted /\ mishap' = mishap /\ crossed' = crossed
    BY <1>1 DEF vars, home, ghosts
  <2>2. LocalInv'
    BY <2>1 DEF IInv, LocalInv, Local, LockLocal, HandLocal, SealLocal, At, StoreOf, StoreNamed, StoreFor
  <2>3. UnacceptedInv'
    BY <2>1, HomeTypes DEF UnacceptedInv
  <2> QED  BY <2>1, <2>2, <2>3, SameStays, HomeTypes, AroundStep
<1>2. ASSUME NEW p \in Actor, Step(p)
      PROVE  IInv'
  BY <1>2, BeginKeeps, LockKeeps, WriteKeeps, InitKeyKeeps, InitBindKeeps, UnbindKeeps, UnsealKeeps,
     UnkeyKeeps, UnlockKeeps, AnswerKeeps, SaveRehashKeeps, SaveKeeps, ResealKeeps, SealReadKeeps,
     SealWriteKeeps, EndKeeps DEF Step
<1>3. CASE OutsideEdit
  BY <1>3, OutsideEditKeeps
<1>4. CASE Carry
  BY <1>4, CarryKeeps
<1>5. CASE WaitOver \/ \E w \in Web : WindowOver(w)
  BY <1>5, TimeKeeps
<1>6. ASSUME NEW p \in Actor \ Web, Crash({p})
      PROVE  IInv'
  <2>1. {p} \in SUBSET Actor
    OBVIOUS
  <2> QED  BY <1>6, <2>1, CrashKeeps
<1>7. CASE Crash(Web)
  <2>1. Web \in SUBSET Actor
    BY OwnerAssumption
  <2> QED  BY <1>7, <2>1, CrashKeeps
<1> QED  BY <1>1, <1>2, <1>3, <1>4, <1>5, <1>6, <1>7 DEF Next

-----------------------------------------------------------------------------
\* In every reachable state the invariant holds: it is inductive, and its parts
\* are what the steps of internal/services/owner rely on.
THEOREM OwnerInvariance == OwnerSpec => []IInv
<1>1. Init => IInv
  BY InitIInv
<1>2. IInv /\ [Next]_vars => IInv'
  BY StepIInv
<1> QED  BY <1>1, <1>2, PTL DEF OwnerSpec

\* Every variable has its type, and an idle actor has nothing in hand.
THEOREM OwnerTypeCorrect == OwnerSpec => []OwnerTypeOK
<1>1. IInv => OwnerTypeOK
  BY DEF IInv, TypeInv
<1> QED  BY <1>1, OwnerInvariance, PTL

\* What somebody else wrote stays named until an operation seals it of its own
\* accord, a copied home is named where it is not bound, and authama's own
\* changes are never named: for any actors, commands, crashes and failures.
THEOREM TamperingIsAlwaysTold == OwnerSpec => []SealTellsTampering
<1>1. IInv => OutsideChangeStaysNamed
  BY ChangeIsNamed DEF OutsideChangeStaysNamed
<1>2. IInv => CopiedHomeIsNamed
  <2> SUFFICES ASSUME IInv, owner # None, place # owner.at, NEW p \in Actor, Clean(p)
               PROVE  FALSE
    BY DEF CopiedHomeIsNamed
  <2> DEFINE k == KeyOf(p, owner)
  <2>1. k # None /\ seal = Made(k)
    BY DEF Clean
  <2>2. k \in Key
    BY <2>1, HomeTypes DEF KeyOf
  <2>3. Made(k) \in Seals /\ Made(k).at = place /\ Made(k).owner = owner
    BY <2>2, MadeFacts
  <2> QED  BY <2>1, <2>3, HomeTypes, AbsentAssumption DEF SealInv
<1>3. IInv => OwnChangesAreSealed
  <2> SUFFICES ASSUME IInv, \A p \in Actor : At(p, "idle"),
                      owner # None, ~mishap, place = owner.at, file.out = seal.file.out,
                      NEW p \in Actor, StoreNamed(p, owner.store) = StoreOf(owner)
               PROVE  Clean(p)
    BY DEF OwnChangesAreSealed
  <2>1. \A q \in Actor : ~Working(q)
    BY SameStays DEF Working, Local, LockLocal, At
  <2>2. /\ seal \in Seals
        /\ seal.key = kept[StoreOf(owner)] /\ seal.at = owner.at
        /\ seal.file.own = file.own /\ seal.owner = owner
    BY <2>1 DEF IInv, FitInv
  <2>3. KeyOf(p, owner) = seal.key /\ seal.key \in Key /\ seal.key # None
    BY <2>2, OwnerAssumption DEF KeyOf, Seals
  <2>4. seal.file = file
    BY <2>2, HomeTypes DEF Seals, Files
  <2>5. seal = [key |-> seal.key, at |-> seal.at, file |-> seal.file, owner |-> seal.owner]
    BY <2>2 DEF Seals
  <2>6. seal = Made(KeyOf(p, owner))
    BY <2>2, <2>3, <2>4, <2>5 DEF Made
  <2> QED  BY <2>3, <2>6 DEF Clean
<1>4. IInv => SealTellsTampering
  BY <1>1, <1>2, <1>3 DEF SealTellsTampering
<1> QED  BY <1>4, OwnerInvariance, PTL

\* A home with a PIN has the key that resets it, in the store its binding means,
\* as long as no rehash wrote back a binding that had changed.
THEOREM ThePINCanAlwaysBeReset == OwnerSpec => []PINCanBeReset
<1>1. IInv => PINCanBeReset
  BY DEF IInv, PinInv, PINCanBeReset, HasPIN
<1> QED  BY <1>1, OwnerInvariance, PTL
=============================================================================
