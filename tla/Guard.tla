------------------------------- MODULE Guard -------------------------------
(***************************************************************************)
(* The mutation guard (internal/services/mutation): how commands, and the  *)
(* requests of a server, take turns to change the saved state.             *)
(*                                                                         *)
(* An actor is one command (its own process) or one request of the server  *)
(* (many share a process, its lock and its change slot). What an actor     *)
(* does is its program, the order in which its command locks, reads, asks, *)
(* checks and saves; the steps are the guard's own. The saved state is the *)
(* set of the changes it holds: every actor that saves adds its own.       *)
(***************************************************************************)
EXTENDS Naturals, Sequences, FiniteSets

CONSTANTS
    Actor,      \* commands and requests
    Style,      \* Actor -> the kind of command or request it is
    Minds,      \* Actor -> the changes that alter what it would do
    Server,     \* the process that serves the web UI
    None,
    Broken,     \* processes whose lock file cannot be made or locked
    Crashes     \* BOOLEAN: may a process die between two steps

Styles == {"lockFirst", "askFirst", "recheck", "deployAsks", "lockThenAsk", "repair",
           "reset", "change", "job", "jobAsks"}

ASSUME GuardAssumption ==
    /\ Style \in [Actor -> Styles]
    /\ Minds \in [Actor -> SUBSET Actor]
    /\ IsFiniteSet(Actor)
    /\ Server \notin Actor /\ None \notin Actor \union {Server} \union Nat
    /\ Crashes \in BOOLEAN

VARIABLES
    step,       \* where each actor is in its program; past its end when over
    saved,      \* the manifest and inventory on disk
    read,       \* what the actor read of them last
    shown,      \* what the actor showed the person it would do, or None
    home,       \* how many times the home, and the lock file in it, was moved
    opened,     \* lock file each process has open (heldLock's descriptor), or None
    holder,     \* process that holds the flock of each lock file, or None
    slot,       \* mutation.serial: the request with the server's slot, or None
    record      \* the history operation of each actor

vars == <<step, saved, read, shown, home, opened, holder, slot, record>>

OfServer(p) == Style[p] \in {"change", "job", "jobAsks"}
ProcessOf(p) == IF OfServer(p) THEN Server ELSE p
Processes == {ProcessOf(p) : p \in Actor}
Homes == 0..Cardinality({p \in Actor : Style[p] = "reset"})

\* What each kind of command does, in order. The second "lock" is the one that
\* snapshotBeforeMutation takes: it finds the lock held.

\* deploy; reconcile and keygen with --yes
LockFirst == <<"lock", "read", "lock", "save", "end", "release">>

\* rotate of one key, rollback
AskFirst == <<"ask", "lock", "read", "lock", "save", "end", "release">>

\* reconcile, keygen, host apply, ... at a terminal
Recheck == <<"read", "show", "ask", "lock", "check", "lock", "save", "end", "release">>

\* deploy at a terminal
DeployAsks == <<"lock", "ask", "read", "lock", "save", "end", "release">>

\* rotate of a profile or of every key
LockThenAsk == <<"lock", "read", "ask", "lock", "save", "end", "release">>

\* authama repair
Repair == <<"read", "ask", "lock", "save", "end", "release">>

\* authama reset
Reset == <<"ask", "lock", "end", "release", "move">>

\* the server's change.Preview and, when confirmed, change.Apply
PreviewThenApply == <<"slot", "read", "show", "free", "ask",
                      "slot", "lock", "check", "lock", "save", "end", "release", "free">>

\* the server's jobs
JobRun == <<"slot", "lock", "read", "lock", "save", "end", "release", "free">>

\* the jobs that ask as they go: a pin of host keys, a rotation with a target that
\* takes the key by hand
JobAsks == <<"slot", "lock", "read", "ask", "lock", "save", "end", "release", "free">>

Written == [lockFirst |-> LockFirst, askFirst |-> AskFirst, recheck |-> Recheck,
            deployAsks |-> DeployAsks, lockThenAsk |-> LockThenAsk,
            repair |-> Repair, reset |-> Reset,
            change |-> PreviewThenApply, job |-> JobRun, jobAsks |-> JobAsks]

\* A reconcile that reads again under the lock and does not compare.
Program_Unchecked ==
    [Written EXCEPT !.recheck =
        <<"read", "show", "ask", "lock", "read", "lock", "save", "end", "release">>]

\* A server that gives the lock back before it closes the operation.
Program_ReleasesFirst ==
    [Written EXCEPT !.jobAsks =
        <<"slot", "lock", "read", "ask", "lock", "save", "release", "end", "free">>]

\* A reconcile that asks with the lock taken.
Program_AsksLocked ==
    [Written EXCEPT !.recheck =
        <<"lock", "read", "show", "ask", "check", "lock", "save", "end", "release">>]

Program == Written

Steps(p) == Program[Style[p]]
Over(p) == step[p] > Len(Steps(p))
Does(p, s) == ~Over(p) /\ Steps(p)[step[p]] = s
Advance(p) == step' = [step EXCEPT ![p] = @ + 1]

\* An actor whose person or whose check said no. One that has opened no
\* operation yet just returns; the others go on to where their scope ends.
GivesUp(p) ==
    step' = [step EXCEPT ![p] =
        IF record[p].status = "none" THEN Len(Steps(p)) + 1
        ELSE CHOOSE i \in 1..Len(Steps(p)) : Steps(p)[i] = "end"]

\* What the actor would do, going by a state: only some changes alter it.
Plan(p, state) == state \intersect Minds[p]

NoRecord == [status |-> "none", before |-> {}, after |-> {}]

Init ==
    /\ step = [p \in Actor |-> 1]
    /\ saved = {}
    /\ read = [p \in Actor |-> {}]
    /\ shown = [p \in Actor |-> None]
    /\ home = 0
    /\ opened = [u \in Processes |-> None]
    /\ holder = [h \in Homes |-> None]
    /\ slot = None
    /\ record = [p \in Actor |-> NoRecord]

-----------------------------------------------------------------------------
(* The lock: LockForMutation                                               *)

HasLock(u) == opened[u] # None /\ holder[opened[u]] = u

\* opening: the first time a scope takes the lock, its operation is recorded.
Opening(p) ==
    record' = IF record[p].status # "none" THEN record
              ELSE [record EXCEPT ![p] = [status |-> "open", before |-> saved, after |-> {}]]

\* The process has the lock already: heldLock # nil.
LockHeld(p) ==
    /\ Does(p, "lock")
    /\ HasLock(ProcessOf(p))
    /\ Opening(p)
    /\ Advance(p)
    /\ UNCHANGED <<saved, read, shown, home, opened, holder, slot>>

\* lock.Acquire opens the file that is there now ...
LockOpen(p) ==
    /\ Does(p, "lock")
    /\ ProcessOf(p) \notin Broken
    /\ opened[ProcessOf(p)] = None
    /\ opened' = [opened EXCEPT ![ProcessOf(p)] = home]
    /\ UNCHANGED <<step, saved, read, shown, home, holder, slot, record>>

\* ... and waits until no other process holds its flock.
LockTake(p) ==
    LET u == ProcessOf(p)
    IN  /\ Does(p, "lock")
        /\ opened[u] # None /\ holder[opened[u]] = None
        /\ holder' = [holder EXCEPT ![opened[u]] = u]
        /\ Opening(p)
        /\ Advance(p)
        /\ UNCHANGED <<saved, read, shown, home, opened, slot>>

\* The lock is best-effort: a process that cannot have it warns and goes on.
LockFails(p) ==
    /\ Does(p, "lock")
    /\ ProcessOf(p) \in Broken
    /\ Opening(p)
    /\ Advance(p)
    /\ UNCHANGED <<saved, read, shown, home, opened, holder, slot>>

\* The process gives its lock up: Release, or the process ends.
LetGo(u) ==
    /\ opened' = [opened EXCEPT ![u] = None]
    /\ holder' = [h \in Homes |-> IF holder[h] = u THEN None ELSE holder[h]]

Release(p) ==
    /\ Does(p, "release")
    /\ LetGo(ProcessOf(p))
    /\ Advance(p)
    /\ UNCHANGED <<saved, read, shown, home, slot, record>>

-----------------------------------------------------------------------------
(* The server's slot: Exclusive                                            *)

SlotTake(p) ==
    /\ Does(p, "slot")
    /\ slot = None
    /\ slot' = p
    /\ Advance(p)
    /\ UNCHANGED <<saved, read, shown, home, opened, holder, record>>

\* Ten seconds passed: ErrBusy, and the request is over.
SlotBusy(p) ==
    /\ Does(p, "slot")
    /\ slot # None
    /\ step' = [step EXCEPT ![p] = Len(Steps(p)) + 1]
    /\ UNCHANGED <<saved, read, shown, home, opened, holder, slot, record>>

SlotFree(p) ==
    /\ Does(p, "free")
    /\ slot' = None
    /\ Advance(p)
    /\ UNCHANGED <<saved, read, shown, home, opened, holder, record>>

-----------------------------------------------------------------------------
(* The command itself                                                      *)

Read(p) ==
    /\ Does(p, "read")
    /\ read' = [read EXCEPT ![p] = saved]
    /\ Advance(p)
    /\ UNCHANGED <<saved, shown, home, opened, holder, slot, record>>

\* The preview the person reads.
Show(p) ==
    /\ Does(p, "show")
    /\ shown' = [shown EXCEPT ![p] = Plan(p, read[p])]
    /\ Advance(p)
    /\ UNCHANGED <<saved, read, home, opened, holder, slot, record>>

\* The person says yes, or no, whenever they like.
Confirm(p) ==
    /\ Does(p, "ask")
    /\ Advance(p)
    /\ UNCHANGED <<saved, read, shown, home, opened, holder, slot, record>>

Decline(p) ==
    /\ Does(p, "ask")
    /\ GivesUp(p)
    /\ UNCHANGED <<saved, read, shown, home, opened, holder, slot, record>>

\* recheck, and Apply's second preview: read again, and go on only if what was
\* shown has not moved (errChanged, ErrStale).
Check(p) ==
    /\ Does(p, "check")
    /\ read' = [read EXCEPT ![p] = saved]
    /\ IF Plan(p, saved) = shown[p] THEN Advance(p) ELSE GivesUp(p)
    /\ UNCHANGED <<saved, shown, home, opened, holder, slot, record>>

\* What was read, with the actor's change made to it, replaces the file.
Save(p) ==
    /\ Does(p, "save")
    /\ saved' = read[p] \union {p}
    /\ Advance(p)
    /\ UNCHANGED <<read, shown, home, opened, holder, slot, record>>

\* End: the operation is recorded with what the state is now.
End(p) ==
    /\ Does(p, "end")
    /\ record' = IF record[p].status = "open"
                 THEN [record EXCEPT ![p] =
                           [status |-> "finished", before |-> @.before, after |-> saved]]
                 ELSE record
    /\ Advance(p)
    /\ UNCHANGED <<saved, read, shown, home, opened, holder, slot>>

\* FactoryReset moves the home aside, and with it the lock file.
MoveHome(p) ==
    /\ Does(p, "move")
    /\ home' = home + 1
    /\ saved' = {}
    /\ Advance(p)
    /\ UNCHANGED <<read, shown, opened, holder, slot, record>>

\* A process dies: the kernel drops its locks, and its slot goes with it.
Crash(u) ==
    /\ Crashes
    /\ \E p \in Actor : ProcessOf(p) = u /\ step[p] > 1 /\ ~Over(p)
    /\ step' = [p \in Actor |-> IF ProcessOf(p) = u THEN Len(Steps(p)) + 1 ELSE step[p]]
    /\ LetGo(u)
    /\ slot' = IF u = Server THEN None ELSE slot
    /\ UNCHANGED <<saved, read, shown, home, record>>

-----------------------------------------------------------------------------
Lock(p) == LockHeld(p) \/ LockOpen(p) \/ LockTake(p) \/ LockFails(p)
Slot(p) == SlotTake(p) \/ SlotBusy(p) \/ SlotFree(p)
Command(p) == Read(p) \/ Show(p) \/ Check(p) \/ Save(p) \/ End(p) \/ MoveHome(p)
Run(p) == Lock(p) \/ Release(p) \/ Slot(p) \/ Command(p)

AllOver == (\A p \in Actor : Over(p)) /\ UNCHANGED vars

Next ==
    \/ \E p \in Actor : Run(p) \/ Confirm(p) \/ Decline(p)
    \/ \E u \in Processes : Crash(u)
    \/ AllOver

\* Programs run on, and the kernel hands a free lock to somebody who waits. The
\* person is under no obligation to answer.
GuardSpec == Init /\ [][Next]_vars /\ \A p \in Actor : WF_vars(Run(p))

-----------------------------------------------------------------------------
\* Every variable has the shape the code gives it, and a flock belongs to a
\* process that has that file open: a descriptor that is closed holds nothing.
GuardTypeOK ==
    /\ step \in [Actor -> Nat \ {0}]
    /\ saved \subseteq Actor
    /\ read \in [Actor -> SUBSET Actor]
    /\ shown \in [Actor -> (SUBSET Actor) \union {None}]
    /\ home \in Homes
    /\ opened \in [Processes -> Homes \union {None}]
    /\ holder \in [Homes -> Processes \union {None}]
    /\ \A h \in Homes : holder[h] # None => opened[holder[h]] = h
    /\ slot \in Actor \union {None}
    /\ record \in [Actor -> [status : {"none", "open", "finished"},
                             before : SUBSET Actor, after : SUBSET Actor]]

\* A reset lets the lock go and then moves the home, lock file included, so that a
\* process in the middle of a change has nothing against one that locks the new
\* home. What the lock gives is promised until the home is moved.

\* What a person confirmed is what is done: when a command that showed its
\* preview saves, the preview it would show of the state on disk is that one.
ConfirmedIsWhatHappens ==
    [][\A p \in Actor :
          (home = 0 /\ saved' # saved /\ Does(p, "save") /\ step'[p] # step[p] /\ shown[p] # None)
              => Plan(p, saved) = shown[p]]_vars

\* The history blames nobody for what somebody else did: between the state an
\* operation found and the state it left there is at most its own change, where
\* it had the lock.
RecordedIsItsOwn ==
    \A p \in Actor : home = 0 /\ record[p].status = "finished" /\ ProcessOf(p) \notin Broken =>
        record[p].after \subseteq record[p].before \union {p}

\* While the server works out a preview it records no event (Suspend): "the caller
\* must keep anything real from running meanwhile", so that no other request is at
\* its change, which would go unrecorded.
Previewing(p) == Style[p] = "change" /\ \E s \in {"read", "show", "check"} : Does(p, s)

PreviewSwallowsNothing ==
    \A p, q \in Actor : Previewing(p) /\ OfServer(q) => ~Does(q, "save")

\* Both: the history says of each change whose it is, and leaves none out.
HistoryIsRight == RecordedIsItsOwn /\ PreviewSwallowsNothing

\* Three kinds of program ask with the lock taken: a deploy at a terminal, a
\* rotation of several keys, and a job that asks as it goes.
AsksLocked(p) ==
    /\ Style[p] \in {"deployAsks", "lockThenAsk", "jobAsks"}
    /\ Does(p, "ask") /\ HasLock(ProcessOf(p))

\* A command that waits for the lock gets it, whoever dies and whatever person
\* never answers, unless one of those three is at its question: no other program
\* holds the lock while a person makes up their mind.
EveryoneGetsTheLock ==
    \A p \in Actor : Does(p, "lock") ~> (~Does(p, "lock") \/ \E q \in Actor : AsksLocked(q))

\* Not so, and in no run: a home is moved aside only while no process is in the
\* middle of a change. The reset has let the lock go by then.
MoveFindsNobodyMidChange ==
    [][home' # home => \A h \in Homes : holder[h] = None]_vars
=============================================================================
