------------------------------- MODULE Owner -------------------------------
(***************************************************************************)
(* The owner of a home (internal/services/owner, core/seal, the owner      *)
(* commands and pages): the sealing key, the seal over the state files and *)
(* the PIN.                                                                *)
(*                                                                         *)
(* Each actor runs one command after another, a step at a time. owner.json *)
(* is the record owner; the other sealed files are one file, of which      *)
(* authama writes the part own and anybody else the part out.              *)
(***************************************************************************)
EXTENDS Naturals

CONSTANTS
    Actor,      \* commands at a terminal, and sessions of the web UI
    Web,        \* those of them that are sessions
    Keyring,    \* those that can reach the credential store of the OS
    Ops,        \* what they do
    Pin,        \* PINs
    Key,        \* sealing keys
    Content,    \* what either part of a sealed file may say
    Machine,    \* where the home may be
    FreeAttempts,
    Weak,       \* BOOLEAN: may the PIN be one an earlier release hashed
    MaxTroubles,\* how many writes fail, actors die, files are changed by
                \* others and homes are carried away, at most
    None

ASSUME OwnerAssumption ==
    /\ Web \subseteq Actor /\ Keyring \subseteq Actor
    /\ Ops \subseteq {"change", "init", "forget", "reseal", "set", "reset", "remove"}
    /\ FreeAttempts \in Nat \ {0}
    /\ Weak \in BOOLEAN /\ MaxTroubles \in Nat
    /\ None \notin Actor \union Pin \union Key \union Content \union Machine

VARIABLES
    place,      \* the machine the home is on
    owner,      \* owner.json, or None
    kept,       \* the key each credential store holds: one of the OS on each
                \* machine, and the owner-only file, which travels with the home
    seal,       \* seal.json, or None
    file,       \* the sealed files other than owner.json
    attempts,   \* pin-attempts.json: wrong PINs in a row, and whether to wait
    lock,       \* the actor that holds the advisory lock, or None
    act,        \* what each actor is doing
    session,    \* how long ago each session gave the PIN
    unaccepted, \* what somebody else last wrote into the files with nobody at
                \* work, while no owner has accepted it, or None
    mishap,     \* an operation ended without its seal, or a seal was made of
                \* files that had changed since they were read
    troubles,   \* how many of MaxTroubles there were
    crossed     \* a rehash wrote back an owner.json that another command had
                \* changed since (both for the properties)

home == <<place, owner, kept, seal, file, attempts>>
ghosts == <<unaccepted, mishap, crossed>>
vars == <<home, lock, act, session, ghosts, troubles>>

Stores == Machine \union {"file"}
Owners == [store : {"os", "file"}, at : Machine, pin : Pin \union {None},
           weak : BOOLEAN]
Files == [own : Content, out : Content]
Seals == [key : Key, at : Machine, file : Files, owner : Owners \union {None}]
Attempts == [failures : 0..FreeAttempts, wait : BOOLEAN]
NoAttempts == [failures |-> 0, wait |-> FALSE]

\* A file that is not there is none that is.
ASSUME AbsentAssumption == None \notin Owners \union Seals

Idle == [op |-> None, at |-> "idle", clean |-> FALSE, config |-> None, key |-> None,
         tried |-> 0, read |-> None, next |-> "end"]

HasPIN(c) == c # None /\ c.pin # None

(*************************** The stores and the seal ***********************)

\* StoreFor: where an actor keeps a new key.
StoreFor(p) == IF p \in Keyring THEN "os" ELSE "file"

\* storeNamed: where it looks for the key of the store owner.json names.
\* Without the keyring that is the file, whatever the name says.
StoreNamed(p, name) == IF name = "os" /\ p \in Keyring THEN place ELSE "file"

\* The store a binding means.
StoreOf(c) == IF c.store = "os" THEN c.at ELSE "file"

KeyOf(p, c) == kept[StoreNamed(p, c.store)]

\* seal.Make, over the files as they are.
Made(k) == [key |-> k, at |-> place, file |-> file, owner |-> owner]

\* owner.Verify and State.Clean, as an actor finds them.
Clean(p) ==
    \/ owner = None
    \/ /\ KeyOf(p, owner) # None
       /\ seal = Made(KeyOf(p, owner))

\* unlock and Recoverable: the binding is to this machine, and the key is there.
Unlocks(p) ==
    /\ owner # None /\ owner.at = place
    /\ KeyOf(p, owner) # None

(*************************** Steps *****************************************)

At(p, s) == act[p].at = s
Go(p, s) == act' = [act EXCEPT ![p].at = s]
\* An act with some of its fields changed.
With(fields, a) == [f \in DOMAIN a |-> IF f \in DOMAIN fields THEN fields[f] ELSE a[f]]
Take(p, fields) == act' = [act EXCEPT ![p] = With(fields, @)]

\* An operation is over or refused: the actor goes to the end of its scope if
\* it took the lock, or straight out.
Leave(p) ==
    act' = [act EXCEPT ![p] =
        IF lock = p THEN [Idle EXCEPT !.op = act[p].op, !.clean = act[p].clean, !.at = "end"] ELSE Idle]

\* What comes after a PIN was right or a seal was written.
Resumes(p) ==
    CASE act[p].next \in {"idle", "release"} -> act' = [act EXCEPT ![p] = Idle]
      [] act[p].next = "end" -> Leave(p)
      [] act[p].next = "lock" -> act' = [act EXCEPT ![p] = [Idle EXCEPT !.op = act[p].op, !.at = "lock"]]
      [] OTHER -> Take(p, [at |-> act[p].next, read |-> None, tried |-> 0])

Trouble ==
    /\ troubles < MaxTroubles
    /\ troubles' = troubles + 1

Fails(p) == Trouble /\ Leave(p) /\ UNCHANGED <<home, lock, session, ghosts>>

\* What is asked for the PIN before it starts: every change a session confirms
\* (ownerGate.stepUp), and at a terminal what requireOwner guards, some of the
\* commands that change the state files among it.
Gated(p, op) ==
    IF p \in Web \/ op \in {"forget", "reseal"} THEN {TRUE}
    ELSE IF op = "change" THEN BOOLEAN ELSE {FALSE}

\* Where a command goes from there. Reseal at a terminal takes no lock.
Begun(p, op) ==
    CASE op = "unlock" -> "idle"
      [] op = "reseal" /\ p \notin Web -> "load"
      [] OTHER -> "lock"

\* CheckPIN until the candidate is hashed: it notes the PIN and the wrong
\* answers so far.
Checking(p, fields) ==
    With([tried |-> attempts.failures, read |-> [pin |-> owner.pin, weak |-> owner.weak],
          at |-> "answer"], With(fields, act[p]))

\* What the person at p does next. A session that never gave the PIN is sent to
\* the page that asks for it (requireUnlock); one that gave it within
\* stepUpWindow is not asked again. While a wait is on, what asks is refused;
\* after a wrong PIN, the next try is a command begun anew.
Begin(p, op) ==
    /\ At(p, "idle")
    /\ op = "unlock" => p \in Web /\ HasPIN(owner) /\ session[p] = "never"
    /\ op = "reset" => p \notin Web
    /\ p \in Web /\ op # "unlock" /\ HasPIN(owner) => session[p] # "never"
    /\ \E gated \in Gated(p, op) :
          IF HasPIN(owner) /\ gated /\ (p \in Web => session[p] # "lately")
          THEN /\ ~attempts.wait
               /\ act' = [act EXCEPT ![p] = Checking(p, [op |-> op, next |-> Begun(p, op)])]
          ELSE Take(p, [op |-> op, at |-> Begun(p, op)])
    /\ UNCHANGED <<home, lock, session, ghosts, troubles>>

\* LockForMutation, and noteSeal: what the seal says before the scope writes.
FirstStep == [change |-> "write", init |-> "key", forget |-> "unbind",
              reseal |-> "load", set |-> "unlock", reset |-> "unlock",
              remove |-> "unlock"]

Lock(p) ==
    /\ At(p, "lock") /\ lock = None
    /\ lock' = p
    /\ Take(p, [clean |-> Clean(p), at |-> FirstStep[act[p].op], next |-> "end"])
    /\ UNCHANGED <<home, session, ghosts, troubles>>

\* Any other command that changes the state files.
Write(p) ==
    /\ At(p, "write")
    /\ \E c \in Content \ {file.own} : file' = [file EXCEPT !.own = c]
    /\ Leave(p)
    /\ UNCHANGED <<place, owner, kept, seal, attempts, lock, session, ghosts, troubles>>

(*************************** Binding ***************************************)

\* A new key is like no other.
InUse == {kept[s] : s \in Stores} \union {act[p].key : p \in Actor}
         \union (IF seal = None THEN {} ELSE {seal.key})

\* Init, in its order: the key into the store, owner.json, the first seal.
InitKey(p) ==
    /\ At(p, "key")
    /\ \/ /\ owner = None
          /\ \E k \in Key \ InUse :
                /\ kept' = [kept EXCEPT ![StoreNamed(p, StoreFor(p))] = k]
                /\ Take(p, [key |-> k, at |-> "bind"])
          /\ UNCHANGED <<place, owner, seal, file, attempts, lock, session, ghosts, troubles>>
       \/ owner # None /\ Leave(p) /\ UNCHANGED <<home, lock, session, ghosts, troubles>>
       \/ Fails(p)

\* A failed save takes the key back out.
UnkeptAfter(p) == [kept EXCEPT ![StoreNamed(p, StoreFor(p))] = None]

InitBind(p) ==
    /\ At(p, "bind")
    /\ \/ /\ owner' = [store |-> StoreFor(p), at |-> place, pin |-> None,
                       weak |-> FALSE]
          /\ Go(p, "seal") /\ UNCHANGED <<kept, troubles>>
       \/ Trouble /\ kept' = UnkeptAfter(p) /\ Leave(p) /\ UNCHANGED owner
    /\ UNCHANGED <<place, seal, file, attempts, lock, session, ghosts>>

\* A forget that starts with the key.
Unbind_KeyFirst(p) ==
    /\ At(p, "unbind")
    /\ IF owner = None THEN Leave(p) /\ UNCHANGED kept
       ELSE /\ kept' = [kept EXCEPT ![StoreNamed(p, owner.store)] = None]
            /\ Take(p, [config |-> owner, at |-> "unseal"])
    /\ UNCHANGED <<place, owner, seal, file, attempts, lock, session, ghosts, troubles>>

\* Forget, in its order: owner.json, then the seal and the wrong PINs, then the
\* key. A store that holds no key for the home is no error.
Unbind(p) ==
    /\ At(p, "unbind")
    /\ \/ /\ owner # None
          /\ owner' = None
          /\ Take(p, [config |-> owner, at |-> "unseal"])
          /\ unaccepted' = None
          /\ UNCHANGED <<place, kept, seal, file, attempts, lock, session, mishap, crossed, troubles>>
       \/ owner = None /\ Leave(p) /\ UNCHANGED <<home, lock, session, ghosts, troubles>>
       \/ Fails(p)

Unseal(p) ==
    /\ At(p, "unseal")
    /\ \/ /\ seal' = None /\ attempts' = NoAttempts
          /\ Go(p, "unkey")
          /\ UNCHANGED <<place, owner, kept, file, lock, session, ghosts, troubles>>
       \/ Fails(p)

Unkey(p) ==
    /\ At(p, "unkey")
    /\ \/ /\ kept' = [kept EXCEPT ![StoreNamed(p, act[p].config.store)] = None]
          /\ Leave(p)
          /\ UNCHANGED <<place, owner, seal, file, attempts, lock, session, ghosts, troubles>>
       \/ Fails(p)

(*************************** The PIN ***************************************)

\* SetPIN, ResetPIN and RemovePIN up to the check of the PIN.
Unlock(p) ==
    /\ At(p, "unlock")
    /\ LET asks == act[p].op \in {"set", "remove"} /\ HasPIN(owner)
           refused == \/ ~Unlocks(p) \/ (asks /\ attempts.wait)
                      \/ act[p].op = "remove" /\ ~HasPIN(owner)
           loaded == [config |-> owner, key |-> KeyOf(p, owner), next |-> "save"]
       IN  IF refused THEN Leave(p) /\ UNCHANGED attempts
           ELSE /\ act' = [act EXCEPT ![p] = IF asks THEN Checking(p, loaded)
                                             ELSE With([at |-> "save"], With(loaded, @))]
                /\ attempts' = IF act[p].op = "reset" THEN NoAttempts ELSE attempts
    /\ UNCHANGED <<place, owner, kept, seal, file, lock, session, ghosts, troubles>>

\* The rest of CheckPIN. A PIN hashed by an earlier release is hashed again
\* while it is in hand: unlock, then writePIN with the candidate. A failure of
\* that is passed over. The gate does it without the lock, and hashing takes a
\* while.
Right(p) ==
    /\ attempts' = NoAttempts
    /\ session' = [w \in Web |-> IF w = p THEN "lately" ELSE session[w]]
    /\ IF act[p].read.weak /\ Unlocks(p)
       THEN Take(p, [config |-> owner, key |-> KeyOf(p, owner), tried |-> 0, at |-> "rehashed"])
       ELSE Resumes(p)

Wrong(p) ==
    /\ LET n == IF act[p].tried = FreeAttempts THEN FreeAttempts ELSE act[p].tried + 1
       IN  attempts' = [failures |-> n, wait |-> n = FreeAttempts]
    /\ Leave(p)
    /\ UNCHANGED session

Answer(p) ==
    /\ At(p, "answer")
    /\ Right(p) \/ Wrong(p)
    /\ UNCHANGED <<place, owner, kept, seal, file, lock, ghosts, troubles>>

SaveRehash(p) ==
    /\ At(p, "rehashed")
    /\ \/ /\ owner' = [act[p].config EXCEPT !.pin = act[p].read.pin, !.weak = FALSE]
          /\ crossed' = (crossed \/ owner # act[p].config)
          /\ Take(p, [config |-> IF act[p].next = "save" THEN act[p].config ELSE None,
                      read |-> None, at |-> "seal"])
          /\ UNCHANGED troubles
       \/ Trouble /\ Resumes(p) /\ UNCHANGED <<owner, crossed>>
    /\ UNCHANGED <<place, kept, seal, file, attempts, lock, session, unaccepted, mishap>>

\* writePIN, and what RemovePIN saves: owner.json as it was loaded, with the PIN
\* changed.
Saved(c, op) == {[c EXCEPT !.pin = n, !.weak = FALSE] : n \in IF op = "remove" THEN {None} ELSE Pin}

Save(p) ==
    /\ At(p, "save")
    /\ \/ /\ owner' \in Saved(act[p].config, act[p].op)
          /\ Take(p, [config |-> None, at |-> "seal", next |-> "end"])
          /\ UNCHANGED <<place, kept, seal, file, attempts, lock, session, ghosts, troubles>>
       \/ Fails(p)

(*************************** Sealing ***************************************)

\* Reseal: the binding and the key, anew, and the files.
Resealing(p, next) == [key |-> KeyOf(p, owner), read |-> Made(KeyOf(p, owner)),
                       at |-> "sealing", next |-> next]

Reseal(p) ==
    /\ At(p, "load")
    /\ IF Unlocks(p) THEN Take(p, Resealing(p, IF lock = p THEN "end" ELSE "idle"))
       ELSE Leave(p)
    /\ UNCHANGED <<home, lock, session, ghosts, troubles>>

\* sealWith: it reads the files, and writes the seal over what it read.
SealRead(p) ==
    /\ At(p, "seal")
    /\ Take(p, [read |-> Made(act[p].key), at |-> "sealing"])
    /\ UNCHANGED <<home, lock, session, ghosts, troubles>>

\* Only a seal that is not the one at the end of a scope accepts what somebody
\* else wrote.
SealWrite(p) ==
    /\ At(p, "sealing")
    /\ \/ /\ seal' = act[p].read
          /\ unaccepted' = IF unaccepted = act[p].read.file.out /\ act[p].next # "release"
                           THEN None ELSE unaccepted
          /\ mishap' = (owner = None \/ act[p].read # Made(kept[StoreOf(owner)]))
          /\ UNCHANGED <<place, owner, kept, file, attempts, troubles>>
       \/ Trouble /\ mishap' = TRUE /\ UNCHANGED <<home, unaccepted>>
    /\ Resumes(p)
    /\ lock' = IF act[p].next = "release" THEN None ELSE lock
    /\ UNCHANGED <<session, crossed>>

\* Mutant of End: it reseals whatever it found.
End_Always(p) ==
    /\ At(p, "end")
    /\ IF Unlocks(p)
       THEN Take(p, Resealing(p, "release")) /\ UNCHANGED <<lock, mishap>>
       ELSE act' = [act EXCEPT ![p] = Idle] /\ lock' = None /\ UNCHANGED mishap
    /\ UNCHANGED <<home, session, unaccepted, crossed, troubles>>

\* mutation.End: resealAfter, and the lock given back. A scope that found the
\* home changed, or whose actor cannot seal it, leaves the seal as it is.
End(p) ==
    /\ At(p, "end")
    /\ IF act[p].clean /\ Unlocks(p)
       THEN Take(p, Resealing(p, "release")) /\ UNCHANGED <<lock, mishap>>
       ELSE /\ act' = [act EXCEPT ![p] = Idle]
            /\ lock' = None
            /\ mishap' = (mishap \/ owner # None)
    /\ UNCHANGED <<home, session, unaccepted, crossed, troubles>>

(*************************** Around it *************************************)

\* Nobody holds the lock or is about to seal.
Quiet == lock = None /\ \A p \in Actor : act[p].at \notin {"load", "rehashed", "seal", "sealing"}

\* Somebody else writes one of the files.
OutsideEdit ==
    /\ Trouble
    /\ \E c \in Content \ {file.out} : file' = [file EXCEPT !.out = c]
    /\ unaccepted' = IF Quiet /\ owner # None /\ seal # None /\ file'.out # seal.file.out
                     THEN file'.out ELSE None
    /\ UNCHANGED <<place, owner, kept, seal, attempts, lock, act, session, mishap, crossed>>

\* The home is copied to another machine and used there.
Carry ==
    /\ \A p \in Actor : At(p, "idle")
    /\ place' \in Machine \ {place}
    /\ Trouble
    /\ UNCHANGED <<owner, kept, seal, file, attempts, lock, act, session, ghosts>>

WaitOver ==
    /\ attempts.wait
    /\ attempts' = [attempts EXCEPT !.wait = FALSE]
    /\ UNCHANGED <<place, owner, kept, seal, file, lock, act, session, ghosts, troubles>>

WindowOver(w) ==
    /\ session[w] = "lately"
    /\ session' = [session EXCEPT ![w] = "longAgo"]
    /\ UNCHANGED <<home, lock, act, ghosts, troubles>>

\* A command dies, or the server with every session it holds.
Crash(gone) ==
    /\ Trouble
    /\ \E p \in gone : ~At(p, "idle")
    /\ act' = [p \in Actor |-> IF p \in gone THEN Idle ELSE act[p]]
    /\ lock' = IF lock \in gone THEN None ELSE lock
    /\ session' = [w \in Web |-> IF w \in gone THEN "never" ELSE session[w]]
    /\ mishap' = TRUE
    /\ UNCHANGED <<home, unaccepted, crossed>>

(*************************** The specification *****************************)

\* A home not bound yet, or one bound by an earlier release.
Init ==
    /\ place \in Machine
    /\ file \in Files
    /\ \/ owner = None /\ seal = None /\ kept = [s \in Stores |-> None]
       \/ \E p \in Actor, n \in Pin, k \in Key :
            /\ Weak
            /\ owner = [store |-> StoreFor(p), at |-> place, pin |-> n, weak |-> TRUE]
            /\ kept = [s \in Stores |-> IF s = StoreNamed(p, StoreFor(p)) THEN k ELSE None]
            /\ seal = Made(k)
    /\ attempts = NoAttempts
    /\ lock = None
    /\ act = [p \in Actor |-> Idle]
    /\ session = [w \in Web |-> "never"]
    /\ unaccepted = None /\ mishap = FALSE /\ crossed = FALSE /\ troubles = 0

Step(p) ==
    \/ \E op \in Ops \union {"unlock"} : Begin(p, op)
    \/ Lock(p) \/ Write(p) \/ InitKey(p) \/ InitBind(p)
    \/ Unbind(p) \/ Unseal(p) \/ Unkey(p)
    \/ Unlock(p) \/ Answer(p) \/ SaveRehash(p) \/ Save(p)
    \/ Reseal(p) \/ SealRead(p) \/ SealWrite(p) \/ End(p)

Next ==
    \/ \E p \in Actor : Step(p)
    \/ OutsideEdit \/ Carry \/ WaitOver
    \/ \E w \in Web : WindowOver(w)
    \/ \E p \in Actor \ Web : Crash({p})
    \/ Crash(Web)

OwnerSpec == Init /\ [][Next]_vars

(*************************** Properties ************************************)

OwnerTypeOK ==
    /\ place \in Machine
    /\ owner \in Owners \union {None}
    /\ kept \in [Stores -> Key \union {None}]
    /\ seal \in Seals \union {None}
    /\ file \in Files
    /\ attempts \in Attempts
    /\ lock \in Actor \union {None}
    /\ session \in [Web -> {"never", "lately", "longAgo"}]
    /\ unaccepted \in Content \union {None}
    /\ \A p \in Actor : At(p, "idle") => act[p] = Idle

\* What somebody else changed while nobody was at work stays named, for every
\* actor that can check the seal, until an operation that seals the files of
\* its own accord: no ordinary operation, whatever it writes and wherever it
\* stops, makes the seal match again.
OutsideChangeStaysNamed ==
    owner # None /\ unaccepted # None => \A p \in Actor : ~Clean(p)

\* Once every operation is over the seal matches, unless somebody else wrote, an
\* operation could not seal, or one that took no lock sealed files that were
\* changing: authama's own changes are not taken for an outsider's.
OwnChangesAreSealed ==
    /\ \A p \in Actor : At(p, "idle")
    /\ owner # None /\ ~mishap /\ place = owner.at /\ file.out = seal.file.out
    => \A p \in Actor : StoreNamed(p, owner.store) = StoreOf(owner) => Clean(p)

\* A home copied to a machine it is not bound to is named there, whatever is done
\* to it, until it is bound again.
CopiedHomeIsNamed ==
    owner # None /\ place # owner.at => \A p \in Actor : ~Clean(p)

\* What happens to the home behind its owner's back is named, and what the program does is not.
SealTellsTampering == OutsideChangeStaysNamed /\ CopiedHomeIsNamed /\ OwnChangesAreSealed

\* A home with a PIN has the key that resets it.
PINCanBeReset ==
    HasPIN(owner) /\ ~crossed => kept[StoreOf(owner)] # None

\* Not so, and in no run: only accepting the files, or binding the home, seals what
\* somebody else wrote. Setting or removing a PIN does too.
OnlyTheOwnerAccepts ==
    [][\A p \in Actor :
          At(p, "sealing") /\ unaccepted # None /\ unaccepted' = None /\ seal' = act[p].read
          => act[p].op \in {"init", "reseal"}]_vars
=============================================================================
