----------------------------- MODULE Guard_proofs -----------------------------
(***************************************************************************)
(* Proofs about Guard, for any number of commands and requests of every    *)
(* kind. Phases places every step of every program: before the lock, with  *)
(* it, after it; and with it, whether what was read is what is saved. Each *)
(* program takes the lock once, reads under it what it will save (repair   *)
(* alone does not), and ends its operation before it lets go.              *)
(***************************************************************************)
EXTENDS Guard, FiniteSetTheorems, SequenceTheorems, TLAPS

Phases ==
    [lockFirst   |-> <<"before", "in", "fresh", "fresh", "done", "closed">>,
     askFirst    |-> <<"before", "before", "in", "fresh", "fresh", "done", "closed">>,
     recheck     |-> <<"before", "before", "before", "before", "in", "fresh", "fresh", "done",
                       "closed">>,
     deployAsks  |-> <<"before", "in", "in", "fresh", "fresh", "done", "closed">>,
     lockThenAsk |-> <<"before", "in", "fresh", "fresh", "fresh", "done", "closed">>,
     repair      |-> <<"before", "before", "before", "stale", "done", "closed">>,
     reset       |-> <<"before", "before", "done", "closed", "after">>,
     change      |-> <<"before", "before", "before", "before", "before", "before", "before",
                       "in", "fresh", "fresh", "done", "closed", "after">>,
     job         |-> <<"before", "before", "in", "fresh", "fresh", "done", "closed", "after">>,
     jobAsks     |-> <<"before", "before", "in", "fresh", "fresh", "fresh", "done", "closed",
                       "after">>]

PhaseAt(p, i) == IF i > Len(Steps(p)) THEN "after" ELSE Phases[Style[p]][i]
Phase(p) == PhaseAt(p, step[p])

Within == {"in", "fresh", "stale", "done", "closed"}

\* What follows a step that is taken in one phase.
Follows(p, s, now, next) ==
    \/ s = "lock" /\ now = "before" /\ next = "in"
    \/ s = "lock" /\ now = "before" /\ next = "stale" /\ Style[p] = "repair"
    \/ s = "lock" /\ now = "before" /\ next = "done" /\ Style[p] = "reset"
    \/ s = "lock" /\ now = "fresh" /\ next = "fresh"
    \/ s = "read" /\ now = "in" /\ next = "fresh" /\ Style[p] \notin {"recheck", "change"}
    \/ s = "check" /\ now = "in" /\ next = "fresh"
    \/ s = "show" /\ now = "before" /\ next = "before" /\ Style[p] \in {"recheck", "change"}
    \/ s \in {"slot", "read", "free"} /\ now = "before" /\ next = "before"
    \/ s = "ask" /\ now \in {"before", "in", "fresh"} /\ next = now
    \/ s = "save" /\ now = "fresh" /\ next = "done" /\ Style[p] # "reset"
    \/ s = "save" /\ now = "stale" /\ next = "done" /\ Style[p] = "repair"
    \/ s = "end" /\ now = "done" /\ next = "closed"
    \/ s = "release" /\ now = "closed" /\ next = "after"
    \/ s = "free" /\ now = "after" /\ next = "after"
    \/ s = "move" /\ now = "after" /\ next = "after"

\* Where a request has the server's slot.
InSlot(p, i) ==
    \/ Style[p] = "change" /\ i \in (2..4) \union (7..13)
    \/ Style[p] = "job" /\ i \in 2..8
    \/ Style[p] = "jobAsks" /\ i \in 2..9

SlotFollows(p, s, i) ==
    /\ s # "slot" => (InSlot(p, i + 1) => InSlot(p, i))
    /\ s = "free" => InSlot(p, i) /\ ~InSlot(p, i + 1)
    /\ OfServer(p) /\ (s = "lock" \/ PhaseAt(p, i) \in Within) => InSlot(p, i)
    /\ Style[p] = "change" /\ s \in {"read", "show", "check"} => InSlot(p, i)

Placed(p, i) ==
    /\ Follows(p, Steps(p)[i], PhaseAt(p, i), PhaseAt(p, i + 1))
    /\ SlotFollows(p, Steps(p)[i], i)
    /\ Steps(p)[i] = "move" => Style[p] = "reset" /\ i = Len(Steps(p))

Orderly(p) ==
    /\ Len(Steps(p)) \in Nat \ {0}
    /\ \E i \in 1..Len(Steps(p)) : Steps(p)[i] = "end"
    /\ \A i \in 1..Len(Steps(p)) : Placed(p, i)
    /\ PhaseAt(p, 1) = "before" /\ ~InSlot(p, 1)
    /\ \A i \in Nat : i > Len(Steps(p)) => ~InSlot(p, i)

-----------------------------------------------------------------------------
(* Every program keeps to it, one by one.                                  *)
LEMMA LockFirstOrderly == ASSUME NEW p \in Actor, Style[p] = "lockFirst" PROVE Orderly(p)
<1>1. Steps(p) = LockFirst /\ Len(Steps(p)) = 6
  BY DEF Steps, Program, Written, LockFirst
<1>2. \E i \in 1..6 : Steps(p)[i] = "end"
  BY <1>1 DEF LockFirst
<1>3. ASSUME NEW i \in 1..6 PROVE Placed(p, i)
  BY <1>1 DEF LockFirst, Placed, Follows, SlotFollows, InSlot, PhaseAt, Phases, OfServer, Within
<1>4. PhaseAt(p, 1) = "before" /\ ~InSlot(p, 1)
  BY <1>1 DEF PhaseAt, Phases, InSlot
<1>5. \A i \in Nat : i > Len(Steps(p)) => ~InSlot(p, i)
  BY <1>1 DEF InSlot
<1> QED BY <1>1, <1>2, <1>3, <1>4, <1>5 DEF Orderly

LEMMA AskFirstOrderly == ASSUME NEW p \in Actor, Style[p] = "askFirst" PROVE Orderly(p)
<1>1. Steps(p) = AskFirst /\ Len(Steps(p)) = 7
  BY DEF Steps, Program, Written, AskFirst
<1>2. \E i \in 1..7 : Steps(p)[i] = "end"
  BY <1>1 DEF AskFirst
<1>3. ASSUME NEW i \in 1..7 PROVE Placed(p, i)
  BY <1>1 DEF AskFirst, Placed, Follows, SlotFollows, InSlot, PhaseAt, Phases, OfServer, Within
<1>4. PhaseAt(p, 1) = "before" /\ ~InSlot(p, 1)
  BY <1>1 DEF PhaseAt, Phases, InSlot
<1>5. \A i \in Nat : i > Len(Steps(p)) => ~InSlot(p, i)
  BY <1>1 DEF InSlot
<1> QED BY <1>1, <1>2, <1>3, <1>4, <1>5 DEF Orderly

LEMMA RecheckOrderly == ASSUME NEW p \in Actor, Style[p] = "recheck" PROVE Orderly(p)
<1>1. Steps(p) = Recheck /\ Len(Steps(p)) = 9
  BY DEF Steps, Program, Written, Recheck
<1>2. \E i \in 1..9 : Steps(p)[i] = "end"
  BY <1>1 DEF Recheck
<1>3. ASSUME NEW i \in 1..9 PROVE Placed(p, i)
  BY <1>1 DEF Recheck, Placed, Follows, SlotFollows, InSlot, PhaseAt, Phases, OfServer, Within
<1>4. PhaseAt(p, 1) = "before" /\ ~InSlot(p, 1)
  BY <1>1 DEF PhaseAt, Phases, InSlot
<1>5. \A i \in Nat : i > Len(Steps(p)) => ~InSlot(p, i)
  BY <1>1 DEF InSlot
<1> QED BY <1>1, <1>2, <1>3, <1>4, <1>5 DEF Orderly

LEMMA DeployAsksOrderly == ASSUME NEW p \in Actor, Style[p] = "deployAsks" PROVE Orderly(p)
<1>1. Steps(p) = DeployAsks /\ Len(Steps(p)) = 7
  BY DEF Steps, Program, Written, DeployAsks
<1>2. \E i \in 1..7 : Steps(p)[i] = "end"
  BY <1>1 DEF DeployAsks
<1>3. ASSUME NEW i \in 1..7 PROVE Placed(p, i)
  BY <1>1 DEF DeployAsks, Placed, Follows, SlotFollows, InSlot, PhaseAt, Phases, OfServer, Within
<1>4. PhaseAt(p, 1) = "before" /\ ~InSlot(p, 1)
  BY <1>1 DEF PhaseAt, Phases, InSlot
<1>5. \A i \in Nat : i > Len(Steps(p)) => ~InSlot(p, i)
  BY <1>1 DEF InSlot
<1> QED BY <1>1, <1>2, <1>3, <1>4, <1>5 DEF Orderly

LEMMA LockThenAskOrderly == ASSUME NEW p \in Actor, Style[p] = "lockThenAsk" PROVE Orderly(p)
<1>1. Steps(p) = LockThenAsk /\ Len(Steps(p)) = 7
  BY DEF Steps, Program, Written, LockThenAsk
<1>2. \E i \in 1..7 : Steps(p)[i] = "end"
  BY <1>1 DEF LockThenAsk
<1>3. ASSUME NEW i \in 1..7 PROVE Placed(p, i)
  BY <1>1 DEF LockThenAsk, Placed, Follows, SlotFollows, InSlot, PhaseAt, Phases, OfServer, Within
<1>4. PhaseAt(p, 1) = "before" /\ ~InSlot(p, 1)
  BY <1>1 DEF PhaseAt, Phases, InSlot
<1>5. \A i \in Nat : i > Len(Steps(p)) => ~InSlot(p, i)
  BY <1>1 DEF InSlot
<1> QED BY <1>1, <1>2, <1>3, <1>4, <1>5 DEF Orderly

LEMMA RepairOrderly == ASSUME NEW p \in Actor, Style[p] = "repair" PROVE Orderly(p)
<1>1. Steps(p) = Repair /\ Len(Steps(p)) = 6
  BY DEF Steps, Program, Written, Repair
<1>2. \E i \in 1..6 : Steps(p)[i] = "end"
  BY <1>1 DEF Repair
<1>3. ASSUME NEW i \in 1..6 PROVE Placed(p, i)
  BY <1>1 DEF Repair, Placed, Follows, SlotFollows, InSlot, PhaseAt, Phases, OfServer, Within
<1>4. PhaseAt(p, 1) = "before" /\ ~InSlot(p, 1)
  BY <1>1 DEF PhaseAt, Phases, InSlot
<1>5. \A i \in Nat : i > Len(Steps(p)) => ~InSlot(p, i)
  BY <1>1 DEF InSlot
<1> QED BY <1>1, <1>2, <1>3, <1>4, <1>5 DEF Orderly

LEMMA ResetOrderly == ASSUME NEW p \in Actor, Style[p] = "reset" PROVE Orderly(p)
<1>1. Steps(p) = Reset /\ Len(Steps(p)) = 5
  BY DEF Steps, Program, Written, Reset
<1>2. \E i \in 1..5 : Steps(p)[i] = "end"
  BY <1>1 DEF Reset
<1>3. ASSUME NEW i \in 1..5 PROVE Placed(p, i)
  BY <1>1 DEF Reset, Placed, Follows, SlotFollows, InSlot, PhaseAt, Phases, OfServer, Within
<1>4. PhaseAt(p, 1) = "before" /\ ~InSlot(p, 1)
  BY <1>1 DEF PhaseAt, Phases, InSlot
<1>5. \A i \in Nat : i > Len(Steps(p)) => ~InSlot(p, i)
  BY <1>1 DEF InSlot
<1> QED BY <1>1, <1>2, <1>3, <1>4, <1>5 DEF Orderly

LEMMA PreviewThenApplyOrderly == ASSUME NEW p \in Actor, Style[p] = "change" PROVE Orderly(p)
<1>1. Steps(p) = PreviewThenApply /\ Len(Steps(p)) = 13
  BY DEF Steps, Program, Written, PreviewThenApply
<1>2. \E i \in 1..13 : Steps(p)[i] = "end"
  BY <1>1 DEF PreviewThenApply
<1>3. ASSUME NEW i \in 1..13 PROVE Placed(p, i)
  BY <1>1 DEF PreviewThenApply, Placed, Follows, SlotFollows, InSlot, PhaseAt, Phases, OfServer, Within
<1>4. PhaseAt(p, 1) = "before" /\ ~InSlot(p, 1)
  BY <1>1 DEF PhaseAt, Phases, InSlot
<1>5. \A i \in Nat : i > Len(Steps(p)) => ~InSlot(p, i)
  BY <1>1 DEF InSlot
<1> QED BY <1>1, <1>2, <1>3, <1>4, <1>5 DEF Orderly

LEMMA JobRunOrderly == ASSUME NEW p \in Actor, Style[p] = "job" PROVE Orderly(p)
<1>1. Steps(p) = JobRun /\ Len(Steps(p)) = 8
  BY DEF Steps, Program, Written, JobRun
<1>2. \E i \in 1..8 : Steps(p)[i] = "end"
  BY <1>1 DEF JobRun
<1>3. ASSUME NEW i \in 1..8 PROVE Placed(p, i)
  BY <1>1 DEF JobRun, Placed, Follows, SlotFollows, InSlot, PhaseAt, Phases, OfServer, Within
<1>4. PhaseAt(p, 1) = "before" /\ ~InSlot(p, 1)
  BY <1>1 DEF PhaseAt, Phases, InSlot
<1>5. \A i \in Nat : i > Len(Steps(p)) => ~InSlot(p, i)
  BY <1>1 DEF InSlot
<1> QED BY <1>1, <1>2, <1>3, <1>4, <1>5 DEF Orderly

LEMMA JobAsksOrderly == ASSUME NEW p \in Actor, Style[p] = "jobAsks" PROVE Orderly(p)
<1>1. Steps(p) = JobAsks /\ Len(Steps(p)) = 9
  BY DEF Steps, Program, Written, JobAsks
<1>2. \E i \in 1..9 : Steps(p)[i] = "end"
  BY <1>1 DEF JobAsks
<1>3. ASSUME NEW i \in 1..9 PROVE Placed(p, i)
  BY <1>1 DEF JobAsks, Placed, Follows, SlotFollows, InSlot, PhaseAt, Phases, OfServer, Within
<1>4. PhaseAt(p, 1) = "before" /\ ~InSlot(p, 1)
  BY <1>1 DEF PhaseAt, Phases, InSlot
<1>5. \A i \in Nat : i > Len(Steps(p)) => ~InSlot(p, i)
  BY <1>1 DEF InSlot
<1> QED BY <1>1, <1>2, <1>3, <1>4, <1>5 DEF Orderly

LEMMA EveryProgramIsOrderly == \A p \in Actor : Orderly(p)
<1> SUFFICES ASSUME NEW p \in Actor PROVE Orderly(p)
  OBVIOUS
<1>1. Style[p] \in Styles
  BY GuardAssumption
<1> QED
  BY <1>1, LockFirstOrderly, AskFirstOrderly, RecheckOrderly, DeployAsksOrderly, LockThenAskOrderly,
     RepairOrderly, ResetOrderly, PreviewThenApplyOrderly, JobRunOrderly, JobAsksOrderly DEF Styles

-----------------------------------------------------------------------------
(* What a step does to where an actor is.                                  *)
Placing == step \in [Actor -> Nat \ {0}]

LEMMA DoesFacts ==
    ASSUME Placing, NEW p \in Actor, NEW s, Does(p, s)
    PROVE  /\ step[p] \in 1..Len(Steps(p)) /\ Len(Steps(p)) \in Nat \ {0}
           /\ Steps(p)[step[p]] = s
           /\ Follows(p, s, Phase(p), PhaseAt(p, step[p] + 1))
           /\ SlotFollows(p, s, step[p])
           /\ s = "move" => Style[p] = "reset" /\ step[p] = Len(Steps(p))
  BY EveryProgramIsOrderly DEF Placing, Does, Over, Orderly, Placed, Phase

LEMMA AdvanceFacts ==
    ASSUME Placing, NEW p \in Actor, NEW s, Does(p, s), Advance(p)
    PROVE  /\ Placing'
           /\ Follows(p, s, Phase(p), Phase(p)')
           /\ SlotFollows(p, s, step[p])
           /\ step'[p] = step[p] + 1
           /\ \A q \in Actor \ {p} : step'[q] = step[q] /\ Phase(q)' = Phase(q)
<1>1. /\ step[p] \in 1..Len(Steps(p)) /\ Len(Steps(p)) \in Nat \ {0}
      /\ Follows(p, s, Phase(p), PhaseAt(p, step[p] + 1))
      /\ SlotFollows(p, s, step[p])
  BY DoesFacts
<1>2. /\ Placing' /\ step'[p] = step[p] + 1
      /\ \A q \in Actor \ {p} : step'[q] = step[q]
  BY <1>1 DEF Placing, Advance
<1>3. \A q \in Actor : Phase(q)' = PhaseAt(q, step'[q])
  BY DEF Phase, PhaseAt, Steps
<1> QED BY <1>1, <1>2, <1>3 DEF Phase

LEMMA GivesUpFacts ==
    ASSUME Placing, NEW p \in Actor, NEW s, Does(p, s), s # "end", GivesUp(p)
    PROVE  /\ Placing'
           /\ SlotFollows(p, s, step[p])
           /\ \E next : Follows(p, s, Phase(p), next)
           /\ record[p].status = "none" => Phase(p)' = "after" /\ ~InSlot(p, step'[p])
           /\ record[p].status # "none" => Phase(p)' = "done"
           /\ \A q \in Actor \ {p} : step'[q] = step[q] /\ Phase(q)' = Phase(q)
<1>1. /\ step[p] \in 1..Len(Steps(p)) /\ Len(Steps(p)) \in Nat \ {0}
      /\ Follows(p, s, Phase(p), PhaseAt(p, step[p] + 1))
      /\ SlotFollows(p, s, step[p])
  BY DoesFacts
<1>2. \A q \in Actor : Phase(q)' = PhaseAt(q, step'[q])
  BY DEF Phase, PhaseAt, Steps
<1>3. CASE record[p].status = "none"
  <2>1. step' = [step EXCEPT ![p] = Len(Steps(p)) + 1]
    BY <1>3 DEF GivesUp
  <2>2. /\ Placing' /\ step'[p] = Len(Steps(p)) + 1
        /\ \A q \in Actor \ {p} : step'[q] = step[q]
    BY <1>1, <2>1 DEF Placing
  <2>3. PhaseAt(p, step'[p]) = "after" /\ ~InSlot(p, step'[p])
    BY <1>1, <2>2, EveryProgramIsOrderly DEF PhaseAt, Orderly
  <2> QED BY <1>1, <1>2, <1>3, <2>2, <2>3 DEF Phase
<1>4. CASE record[p].status # "none"
  <2> DEFINE end == CHOOSE i \in 1..Len(Steps(p)) : Steps(p)[i] = "end"
  <2>1. end \in 1..Len(Steps(p)) /\ Steps(p)[end] = "end"
    BY EveryProgramIsOrderly DEF Orderly
  <2>2. step' = [step EXCEPT ![p] = end]
    BY <1>4 DEF GivesUp
  <2> HIDE DEF end
  <2>3. /\ Placing' /\ step'[p] = end
        /\ \A q \in Actor \ {p} : step'[q] = step[q]
    BY <1>1, <2>1, <2>2 DEF Placing
  <2>4. PhaseAt(p, end) = "done"
    BY <2>1, EveryProgramIsOrderly DEF Orderly, Placed, Follows
  <2> QED BY <1>1, <1>2, <1>4, <2>3, <2>4 DEF Phase
<1> QED BY <1>3, <1>4

-----------------------------------------------------------------------------
(* The inductive invariant                                                 *)

\* Whoever has the server's slot is the one request in it; an actor's operation is
\* open for as long as it is within the lock.
TurnInv ==
    \A p \in Actor :
        /\ InSlot(p, step[p]) => slot = p
        /\ Phase(p) = "before" => record[p].status = "none"
        /\ Phase(p) \in Within \ {"closed"} => record[p].status = "open"
        /\ shown[p] # None => Style[p] \in {"recheck", "change"}

\* An actor that can have the lock. What it is for is promised at the first home.
CanLock(p) == ProcessOf(p) \notin Broken

LockInv ==
    /\ \A u \in Processes : opened[u] # None => opened[u] <= home
    /\ home = 0 => \A p \in Actor :
          Phase(p) \in Within /\ CanLock(p) =>
              opened[ProcessOf(p)] = 0 /\ holder[0] = ProcessOf(p)

\* Nobody else writes between what an actor reads with the lock and what it saves.
FreshInv ==
    home = 0 => \A p \in Actor : Phase(p) = "fresh" /\ CanLock(p) =>
        read[p] = saved /\ (shown[p] # None => Plan(p, saved) = shown[p])

\* ... nor between the state its operation found and the one it left.
RecordsOwn(p) ==
    /\ Phase(p) \in {"in", "fresh", "stale"} => record[p].before = saved
    /\ Phase(p) = "done" => saved \subseteq record[p].before \union {p}
    /\ record[p].status = "finished" => record[p].after \subseteq record[p].before \union {p}

\* repair saves what it read before it had the lock: no more than what is there.
RecordInv ==
    home = 0 => \A p \in Actor :
        /\ CanLock(p) => RecordsOwn(p)
        /\ Style[p] = "repair" /\ Phase(p) \in {"before", "stale"} => read[p] \subseteq saved

\* Each reset has moved the home once at most.
HomeInv == home <= Cardinality({p \in Actor : Style[p] = "reset" /\ Over(p)})

\* Everybody who saves can have the lock; and no two repairs are under way.
SaversCanLock == \A p \in Actor : Style[p] # "reset" => CanLock(p)
OneRepair == \A p, q \in Actor : Style[p] = "repair" /\ Style[q] = "repair" => p = q

-----------------------------------------------------------------------------
LEMMA ProcessFacts ==
    ASSUME NEW p \in Actor, NEW q \in Actor, ProcessOf(p) = ProcessOf(q)
    PROVE  p = q \/ (OfServer(p) /\ OfServer(q))
  BY GuardAssumption DEF ProcessOf

LEMMA HomesFacts == Homes \subseteq Nat /\ 0 \in Homes
<1>1. Cardinality({p \in Actor : Style[p] = "reset"}) \in Nat
  BY GuardAssumption, FS_Subset, FS_CardinalityType
<1> QED BY <1>1 DEF Homes

LEMMA OneWithin ==
    ASSUME GuardTypeOK, TurnInv, LockInv, home = 0,
           NEW p \in Actor, CanLock(p), Phase(p) \in Within,
           NEW q \in Actor, CanLock(q), Phase(q) \in Within
    PROVE  p = q
<1>1. ProcessOf(p) = ProcessOf(q)
  BY DEF LockInv
<1>2. ASSUME OfServer(p), OfServer(q) PROVE p = q
  <2>1. \A r \in Actor : OfServer(r) /\ Phase(r) \in Within => InSlot(r, step[r])
    <3> SUFFICES ASSUME NEW r \in Actor, OfServer(r), Phase(r) \in Within PROVE InSlot(r, step[r])
      OBVIOUS
    <3>1. step[r] \in 1..Len(Steps(r))
      BY EveryProgramIsOrderly DEF GuardTypeOK, Phase, PhaseAt, Within, Orderly
    <3> QED BY <3>1, EveryProgramIsOrderly DEF Orderly, Placed, SlotFollows, Phase
  <2> QED BY <1>2, <2>1 DEF TurnInv
<1> QED BY <1>1, <1>2, ProcessFacts

-----------------------------------------------------------------------------
LEMMA PlacingStep == GuardTypeOK /\ [Next]_vars => Placing'
<1> SUFFICES ASSUME GuardTypeOK, [Next]_vars PROVE Placing'
  OBVIOUS
<1>0. Placing
  BY DEF GuardTypeOK, Placing
<1>1. ASSUME NEW p \in Actor, Run(p) \/ Confirm(p) \/ Decline(p) PROVE Placing'
  <2>1. \/ \E s : Does(p, s) /\ Advance(p)
        \/ \E s : Does(p, s) /\ s # "end" /\ GivesUp(p)
        \/ SlotBusy(p) \/ step' = step
    BY <1>1 DEF Run, Lock, LockHeld, LockOpen, LockTake, LockFails, Release, Slot, SlotTake, SlotFree,
       Command, Read, Show, Check, Save, End, MoveHome, Confirm, Decline
  <2>2. ASSUME SlotBusy(p) PROVE Placing'
    BY <1>0, <2>2, EveryProgramIsOrderly DEF SlotBusy, Placing, Orderly
  <2> QED BY <1>0, <2>1, <2>2, AdvanceFacts, GivesUpFacts DEF Placing
<1>2. ASSUME NEW u \in Processes, Crash(u) PROVE Placing'
  BY <1>0, <1>2, EveryProgramIsOrderly DEF Crash, Placing, Orderly
<1>3. CASE UNCHANGED vars
  BY <1>0, <1>3 DEF vars, Placing
<1> QED BY <1>1, <1>2, <1>3 DEF Next, AllOver

LEMMA HomeStep == GuardTypeOK /\ HomeInv /\ [Next]_vars => HomeInv' /\ home' \in Homes
<1> SUFFICES ASSUME GuardTypeOK, HomeInv, [Next]_vars PROVE HomeInv' /\ home' \in Homes
  OBVIOUS
<1> DEFINE Resets == {p \in Actor : Style[p] = "reset"}
           Gone == {p \in Actor : Style[p] = "reset" /\ Over(p)}
<1>0. /\ Placing /\ Placing' /\ home \in Nat
  BY PlacingStep, HomesFacts DEF GuardTypeOK, Placing
<1>1. IsFiniteSet(Resets) /\ IsFiniteSet(Gone) /\ IsFiniteSet(Gone')
  BY GuardAssumption, FS_Subset
<1>2. Gone' \subseteq Resets /\ Cardinality(Gone') <= Cardinality(Resets)
      /\ Cardinality(Gone) \in Nat /\ Cardinality(Gone') \in Nat /\ Cardinality(Resets) \in Nat
  BY <1>1, FS_Subset, FS_CardinalityType
<1>3. home' \in Nat /\ home' <= Cardinality(Gone')
  <2>1. ASSUME home' = home, Gone \subseteq Gone' PROVE home' \in Nat /\ home' <= Cardinality(Gone')
    <3>1. Cardinality(Gone) <= Cardinality(Gone')
      BY <1>1, <2>1, FS_Subset
    <3> QED BY <1>0, <1>2, <2>1, <3>1 DEF HomeInv
  <2>2. ASSUME NEW p \in Actor, MoveHome(p) PROVE home' \in Nat /\ home' <= Cardinality(Gone')
    <3>1. /\ Does(p, "move") /\ Advance(p) /\ home' = home + 1
      BY <2>2 DEF MoveHome
    <3>2. step[p] = Len(Steps(p)) /\ Style[p] = "reset" /\ Len(Steps(p)) \in Nat
      BY <1>0, <3>1, DoesFacts, Zenon
    <3>3. step'[p] = step[p] + 1 /\ \A q \in Actor \ {p} : step'[q] = step[q]
      BY <1>0, <3>1, AdvanceFacts, Zenon
    <3>4. p \notin Gone /\ Gone' = Gone \union {p}
      BY <3>2, <3>3 DEF Over, Steps
    <3>5. Cardinality(Gone') = Cardinality(Gone) + 1
      BY <1>1, <3>4, FS_AddElement
    <3> QED BY <1>0, <1>2, <3>1, <3>5 DEF HomeInv
  <2>3. ASSUME NEW p \in Actor, Run(p) \/ Confirm(p) \/ Decline(p), ~MoveHome(p)
        PROVE  home' = home /\ Gone \subseteq Gone'
    <3>1. home' = home /\ (step' = step \/ (~Over(p) /\ \A q \in Actor \ {p} : step'[q] = step[q]))
      BY <1>0, <2>3 DEF Run, Lock, LockHeld, LockOpen, LockTake, LockFails, Release, Slot, SlotTake,
         SlotFree, SlotBusy, Command, Read, Show, Check, Save, End, Confirm, Decline, Does, Advance,
         GivesUp, Placing
    <3> QED BY <3>1 DEF Over, Steps
  <2>4. ASSUME NEW u \in Processes, Crash(u) PROVE home' = home /\ Gone \subseteq Gone'
    BY <2>4, EveryProgramIsOrderly DEF Crash, Over, Orderly, Steps
  <2>5. ASSUME UNCHANGED vars PROVE home' = home /\ Gone \subseteq Gone'
    BY <2>5 DEF vars, Over, Steps
  <2> HIDE DEF Gone
  <2> QED BY <2>1, <2>2, <2>3, <2>4, <2>5 DEF Next, AllOver
<1> QED BY <1>2, <1>3 DEF HomeInv, Homes

LEMMA TypeStep == GuardTypeOK /\ HomeInv /\ [Next]_vars => GuardTypeOK'
<1> SUFFICES ASSUME GuardTypeOK, HomeInv, [Next]_vars PROVE GuardTypeOK'
  OBVIOUS
<1>0. /\ step' \in [Actor -> Nat \ {0}] /\ home' \in Homes
      /\ None \notin Processes /\ None \notin Homes
      /\ \A p \in Actor : ProcessOf(p) \in Processes
  BY PlacingStep, HomeStep, HomesFacts, GuardAssumption DEF Placing, Processes, ProcessOf
<1> USE DEF GuardTypeOK
<1>1. ASSUME NEW p \in Actor, Opening(p)
      PROVE  record' \in [Actor -> [status : {"none", "open", "finished"},
                                    before : SUBSET Actor, after : SUBSET Actor]]
  BY <1>1 DEF Opening
<1>2. ASSUME NEW u \in Processes, LetGo(u)
      PROVE  /\ opened' \in [Processes -> Homes \union {None}]
             /\ holder' \in [Homes -> Processes \union {None}]
             /\ \A h \in Homes : holder'[h] # None => opened'[holder'[h]] = h
  BY <1>0, <1>2 DEF LetGo
<1>3. ASSUME NEW p \in Actor, Lock(p) PROVE GuardTypeOK'
  <2>1. CASE LockHeld(p) \/ LockFails(p)
    BY <1>0, <1>1, <2>1 DEF LockHeld, LockFails
  <2>2. CASE LockOpen(p)
    BY <1>0, <2>2 DEF LockOpen
  <2>3. CASE LockTake(p)
    <3> DEFINE u == ProcessOf(p)
    <3>1. u \in Processes /\ opened[u] \in Homes
      BY <1>0, <2>3 DEF LockTake
    <3>2. holder' = [holder EXCEPT ![opened[u]] = u] /\ opened' = opened
      BY <2>3 DEF LockTake
    <3> HIDE DEF u
    <3>3. /\ holder' \in [Homes -> Processes \union {None}]
          /\ \A h \in Homes : holder'[h] # None => opened'[holder'[h]] = h
      BY <3>1, <3>2
    <3> QED BY <1>0, <1>1, <2>3, <3>3 DEF LockTake
  <2> QED BY <1>3, <2>1, <2>2, <2>3 DEF Lock
<1>4. ASSUME NEW p \in Actor, Release(p) PROVE GuardTypeOK'
  BY <1>0, <1>2, <1>4 DEF Release
<1>5. ASSUME NEW p \in Actor, Slot(p) PROVE GuardTypeOK'
  BY <1>0, <1>5 DEF Slot, SlotTake, SlotBusy, SlotFree
<1>6. ASSUME NEW p \in Actor, Command(p) \/ Confirm(p) \/ Decline(p) PROVE GuardTypeOK'
  <2>1. CASE Read(p) \/ Check(p) \/ Save(p) \/ MoveHome(p) \/ Confirm(p) \/ Decline(p)
    BY <1>0, <2>1 DEF Read, Check, Save, MoveHome, Confirm, Decline
  <2>2. CASE Show(p)
    BY <1>0, <2>2 DEF Show, Plan
  <2>3. CASE End(p)
    <3>1. /\ record[p].before \in SUBSET Actor
          /\ record' \in [Actor -> [status : {"none", "open", "finished"},
                                    before : SUBSET Actor, after : SUBSET Actor]]
      BY <2>3 DEF End
    <3> QED BY <1>0, <2>3, <3>1 DEF End
  <2> QED BY <1>6, <2>1, <2>2, <2>3 DEF Command
<1>7. ASSUME NEW u \in Processes, Crash(u) PROVE GuardTypeOK'
  BY <1>0, <1>2, <1>7 DEF Crash
<1>8. CASE UNCHANGED vars
  BY <1>0, <1>8 DEF vars
<1> QED BY <1>3, <1>4, <1>5, <1>6, <1>7, <1>8 DEF Next, AllOver, Run

LEMMA TurnStep == GuardTypeOK /\ TurnInv /\ [Next]_vars => TurnInv'
<1> SUFFICES ASSUME GuardTypeOK, TurnInv, [Next]_vars PROVE TurnInv'
  OBVIOUS
<1>0. /\ Placing /\ Placing'
      /\ slot \in Actor \union {None} /\ None \notin Actor
      /\ shown \in [Actor -> (SUBSET Actor) \union {None}]
      /\ record \in [Actor -> [status : {"none", "open", "finished"},
                               before : SUBSET Actor, after : SUBSET Actor]]
  BY PlacingStep, GuardAssumption DEF GuardTypeOK, Placing
<1> USE DEF TurnInv, Within
<1>1. ASSUME NEW p \in Actor, Lock(p) PROVE TurnInv'
  <2>1. CASE LockOpen(p)
    BY <2>1 DEF LockOpen, Phase, PhaseAt, Steps
  <2>2. CASE LockHeld(p) \/ LockTake(p) \/ LockFails(p)
    <3>1. /\ Does(p, "lock") /\ Advance(p) /\ Opening(p) /\ UNCHANGED <<slot, shown>>
      BY <2>2 DEF LockHeld, LockTake, LockFails
    <3>2. /\ Follows(p, "lock", Phase(p), Phase(p)') /\ SlotFollows(p, "lock", step[p])
          /\ step'[p] = step[p] + 1
          /\ \A q \in Actor \ {p} : step'[q] = step[q] /\ Phase(q)' = Phase(q)
      BY <1>0, <3>1, AdvanceFacts
    <3>3. record'[p].status = "open" /\ \A q \in Actor \ {p} : record'[q] = record[q]
      BY <1>0, <3>1, <3>2 DEF Opening, Follows
    <3> QED BY <3>1, <3>2, <3>3 DEF Follows, SlotFollows
  <2> QED BY <1>1, <2>1, <2>2 DEF Lock
<1>2. ASSUME NEW p \in Actor, NEW s, Does(p, s), Advance(p), s \notin {"lock", "slot", "end", "show"},
             s # "free" => slot' = slot, UNCHANGED <<shown, record>>,
             s = "free" => slot' = None
      PROVE  TurnInv'
  <2>1. /\ Follows(p, s, Phase(p), Phase(p)') /\ SlotFollows(p, s, step[p])
        /\ step'[p] = step[p] + 1
        /\ \A q \in Actor \ {p} : step'[q] = step[q] /\ Phase(q)' = Phase(q)
    BY <1>0, <1>2, AdvanceFacts
  <2> QED BY <1>2, <2>1 DEF Follows, SlotFollows
<1>3. ASSUME NEW p \in Actor, NEW s, Does(p, s), s \in {"ask", "check"}, GivesUp(p),
             UNCHANGED <<slot, shown, record>>
      PROVE  TurnInv'
  <2>1. /\ SlotFollows(p, s, step[p])
        /\ \E next : Follows(p, s, Phase(p), next)
        /\ record[p].status = "none" => Phase(p)' = "after" /\ ~InSlot(p, step'[p])
        /\ record[p].status # "none" => Phase(p)' = "done"
        /\ \A q \in Actor \ {p} : step'[q] = step[q] /\ Phase(q)' = Phase(q)
    BY <1>0, <1>3, GivesUpFacts
  <2>2. Phase(p) \in {"before", "in", "fresh"}
    BY <1>3, <2>1 DEF Follows
  <2>3. CASE Phase(p) = "before"
    BY <1>3, <2>1, <2>3
  <2>4. CASE Phase(p) \in {"in", "fresh"}
    <3>1. InSlot(p, step'[p]) => InSlot(p, step[p])
      BY <2>1, <2>4 DEF SlotFollows, InSlot, OfServer, Phase
    <3>2. record[p].status = "open"
      BY <2>4
    <3> QED BY <1>3, <2>1, <3>1, <3>2
  <2> QED BY <2>2, <2>3, <2>4
<1>4. ASSUME NEW p \in Actor, Slot(p) PROVE TurnInv'
  <2>1. CASE SlotTake(p)
    <3>1. /\ Does(p, "slot") /\ Advance(p) /\ slot = None /\ slot' = p /\ UNCHANGED <<shown, record>>
      BY <2>1 DEF SlotTake
    <3>2. /\ Follows(p, "slot", Phase(p), Phase(p)')
          /\ \A q \in Actor \ {p} : step'[q] = step[q] /\ Phase(q)' = Phase(q)
      BY <1>0, <3>1, AdvanceFacts
    <3> QED BY <1>0, <3>1, <3>2 DEF Follows
  <2>2. CASE SlotBusy(p)
    <3>1. /\ step' = [step EXCEPT ![p] = Len(Steps(p)) + 1] /\ UNCHANGED <<slot, shown, record>>
      BY <2>2 DEF SlotBusy
    <3>2. ~InSlot(p, step'[p]) /\ Phase(p)' = "after"
      BY <1>0, <3>1, EveryProgramIsOrderly DEF Placing, Orderly, Phase, PhaseAt, Steps
    <3>3. \A q \in Actor \ {p} : step'[q] = step[q] /\ Phase(q)' = Phase(q)
      BY <1>0, <3>1 DEF Placing, Phase, PhaseAt, Steps
    <3> QED BY <3>1, <3>2, <3>3
  <2>3. CASE SlotFree(p)
    BY <1>2, <2>3 DEF SlotFree
  <2> QED BY <1>4, <2>1, <2>2, <2>3 DEF Slot
<1>5. ASSUME NEW p \in Actor, Show(p) \/ End(p) PROVE TurnInv'
  <2>1. CASE Show(p)
    <3>1. /\ Does(p, "show") /\ Advance(p) /\ UNCHANGED <<slot, record>>
          /\ \A q \in Actor \ {p} : shown'[q] = shown[q]
      BY <1>0, <2>1 DEF Show
    <3>2. /\ Follows(p, "show", Phase(p), Phase(p)') /\ SlotFollows(p, "show", step[p])
          /\ step'[p] = step[p] + 1
          /\ \A q \in Actor \ {p} : step'[q] = step[q] /\ Phase(q)' = Phase(q)
      BY <1>0, <3>1, AdvanceFacts
    <3> QED BY <3>1, <3>2 DEF Follows, SlotFollows
  <2>2. CASE End(p)
    <3>1. /\ Does(p, "end") /\ Advance(p) /\ UNCHANGED <<slot, shown>>
          /\ \A q \in Actor \ {p} : record'[q] = record[q]
      BY <1>0, <2>2 DEF End
    <3>2. /\ Follows(p, "end", Phase(p), Phase(p)') /\ SlotFollows(p, "end", step[p])
          /\ step'[p] = step[p] + 1
          /\ \A q \in Actor \ {p} : step'[q] = step[q] /\ Phase(q)' = Phase(q)
      BY <1>0, <3>1, AdvanceFacts
    <3> QED BY <3>1, <3>2 DEF Follows, SlotFollows
  <2> QED BY <1>5, <2>1, <2>2
<1>6. ASSUME NEW u \in Processes, Crash(u) PROVE TurnInv'
  <2>1. /\ step' = [p \in Actor |-> IF ProcessOf(p) = u THEN Len(Steps(p)) + 1 ELSE step[p]]
        /\ slot' = IF u = Server THEN None ELSE slot
        /\ UNCHANGED <<shown, record>>
    BY <1>6 DEF Crash
  <2>2. ASSUME NEW p \in Actor, ProcessOf(p) = u PROVE ~InSlot(p, step'[p]) /\ Phase(p)' = "after"
    BY <1>0, <2>1, <2>2, EveryProgramIsOrderly DEF Placing, Orderly, Phase, PhaseAt, Steps
  <2>3. ASSUME NEW p \in Actor, ProcessOf(p) # u
        PROVE  /\ step'[p] = step[p] /\ Phase(p)' = Phase(p)
               /\ InSlot(p, step[p]) => slot' = slot
    BY <2>1, <2>3 DEF Phase, PhaseAt, Steps, InSlot, ProcessOf, OfServer
  <2> QED BY <2>1, <2>2, <2>3
<1>7. CASE UNCHANGED vars
  BY <1>7 DEF vars, Phase, PhaseAt, Steps
<1>8. ASSUME NEW p \in Actor, Read(p) \/ Check(p) \/ Save(p) \/ MoveHome(p) \/ Release(p)
                               \/ Confirm(p) \/ Decline(p)
      PROVE  TurnInv'
  BY <1>2, <1>3, <1>8 DEF Read, Check, Save, MoveHome, Release, Confirm, Decline
<1> QED BY <1>1, <1>4, <1>5, <1>6, <1>7, <1>8 DEF Next, AllOver, Run, Command

-----------------------------------------------------------------------------
LEMMA LockStep == GuardTypeOK /\ TurnInv /\ LockInv /\ [Next]_vars => LockInv'
<1> SUFFICES ASSUME GuardTypeOK, TurnInv, LockInv, [Next]_vars PROVE LockInv'
  OBVIOUS
<1>0. /\ Placing /\ Placing' /\ home \in Nat /\ None \notin Nat
      /\ None \notin Processes /\ 0 \in Homes /\ Homes \subseteq Nat
      /\ opened \in [Processes -> Homes \union {None}]
      /\ holder \in [Homes -> Processes \union {None}]
      /\ \A p \in Actor : ProcessOf(p) \in Processes
  BY PlacingStep, HomesFacts, GuardAssumption DEF GuardTypeOK, Placing, Processes, ProcessOf
<1> USE DEF LockInv
\* A step that leaves the lock alone, and takes nobody into it.
<1>1. ASSUME UNCHANGED <<home, opened, holder>>,
             \A q \in Actor : Phase(q)' \in Within => Phase(q) \in Within
      PROVE  LockInv'
  BY <1>1 DEF CanLock
<1>2. ASSUME NEW p \in Actor, Lock(p) PROVE LockInv'
  <2> DEFINE u == ProcessOf(p)
  <2>1. CASE LockOpen(p)
    <3>1. opened[u] = None /\ opened' = [opened EXCEPT ![u] = home] /\ UNCHANGED <<step, home, holder>>
      BY <2>1 DEF LockOpen
    <3>2. \A q \in Actor : Phase(q)' = Phase(q)
      BY <3>1 DEF Phase, PhaseAt, Steps
    <3> QED BY <1>0, <3>1, <3>2 DEF CanLock
  <2>2. CASE LockHeld(p) \/ LockTake(p) \/ LockFails(p)
    <3>1. Does(p, "lock") /\ Advance(p) /\ UNCHANGED <<home, opened>>
      BY <2>2 DEF LockHeld, LockTake, LockFails
    <3>2. \A q \in Actor \ {p} : Phase(q)' = Phase(q)
      BY <1>0, <3>1, AdvanceFacts
    <3>3. \/ holder' = holder /\ (CanLock(p) => HasLock(u))
          \/ opened[u] # None /\ holder[opened[u]] = None /\ holder' = [holder EXCEPT ![opened[u]] = u]
      BY <2>2 DEF LockHeld, LockTake, LockFails, CanLock
    <3>4. u \in Processes
      BY <1>0
    <3> HIDE DEF u
    <3>7. home = 0 /\ opened[u] # None => opened[u] = 0
      <4>1. opened[u] # None => opened[u] \in Nat /\ opened[u] <= home
        BY <1>0, <3>4
      <4> QED BY <4>1
    <3>5. home = 0 /\ CanLock(p) => opened'[u] = 0 /\ holder'[0] = u
      BY <1>0, <3>1, <3>3, <3>4, <3>7 DEF HasLock
    <3>6. home = 0 /\ holder[0] # None => holder'[0] = holder[0]
      BY <1>0, <3>3, <3>4, <3>7
    <3> QED BY <1>0, <3>1, <3>2, <3>5, <3>6 DEF CanLock, u
  <2> QED BY <1>2, <2>1, <2>2 DEF Lock
<1>3. ASSUME NEW p \in Actor, Release(p) PROVE LockInv'
  <2> DEFINE u == ProcessOf(p)
  <2>1. /\ Does(p, "release") /\ Advance(p) /\ LetGo(u) /\ home' = home
    BY <1>3 DEF Release
  <2>2. /\ Phase(p) = "closed" /\ Phase(p)' = "after"
        /\ \A q \in Actor \ {p} : Phase(q)' = Phase(q)
    BY <1>0, <2>1, AdvanceFacts DEF Follows
  <2>3. ASSUME home = 0, NEW q \in Actor, CanLock(q), Phase(q)' \in Within
        PROVE  opened'[ProcessOf(q)] = 0 /\ holder'[0] = ProcessOf(q)
    <3>1. q # p /\ Phase(q) \in Within
      BY <2>2, <2>3 DEF Within
    <3>2. ProcessOf(q) # u
      BY <2>2, <2>3, <3>1, OneWithin DEF CanLock, Within
    <3> QED BY <1>0, <2>1, <2>3, <3>1, <3>2 DEF LetGo
  <2>4. \A v \in Processes : opened'[v] # None => opened'[v] <= home'
    BY <1>0, <2>1 DEF LetGo
  <2> QED BY <2>1, <2>3, <2>4 DEF CanLock
<1>4. ASSUME NEW u \in Processes, Crash(u) PROVE LockInv'
  <2>1. /\ step' = [p \in Actor |-> IF ProcessOf(p) = u THEN Len(Steps(p)) + 1 ELSE step[p]]
        /\ LetGo(u) /\ home' = home
    BY <1>4 DEF Crash
  <2>2. ASSUME NEW q \in Actor, Phase(q)' \in Within PROVE ProcessOf(q) # u /\ Phase(q) \in Within
    <3>1. ProcessOf(q) # u
      BY <2>1, <2>2, EveryProgramIsOrderly DEF Phase, PhaseAt, Steps, Orderly, Within
    <3> QED BY <2>1, <2>2, <3>1 DEF Phase, PhaseAt, Steps
  <2> QED BY <1>0, <2>1, <2>2 DEF LetGo, CanLock
<1>5. ASSUME NEW p \in Actor, MoveHome(p) PROVE LockInv'
  <2>1. home' = home + 1 /\ opened' = opened
    BY <1>5 DEF MoveHome
  <2>2. \A u \in Processes : opened[u] # None => opened[u] \in Nat /\ opened[u] <= home
    BY <1>0
  <2> QED BY <1>0, <2>1, <2>2
<1>6. ASSUME NEW p \in Actor,
             Slot(p) \/ Read(p) \/ Show(p) \/ Check(p) \/ Save(p) \/ End(p) \/ Confirm(p) \/ Decline(p)
      PROVE  LockInv'
  <2>1. UNCHANGED <<home, opened, holder>>
    BY <1>6 DEF Slot, SlotTake, SlotBusy, SlotFree, Read, Show, Check, Save, End, Confirm, Decline
  <2>2. \/ \E s : Does(p, s) /\ s \notin {"lock", "release"} /\ Advance(p)
        \/ \E s \in {"ask", "check"} : Does(p, s) /\ GivesUp(p)
        \/ SlotBusy(p)
    BY <1>6 DEF Slot, SlotTake, SlotFree, Read, Show, Check, Save, End, Confirm, Decline
  <2>3. ASSUME NEW s, Does(p, s), s \notin {"lock", "release"}, Advance(p)
        PROVE  \A q \in Actor : Phase(q)' \in Within => Phase(q) \in Within
    BY <1>0, <2>3, AdvanceFacts DEF Follows, Within
  <2>4. ASSUME NEW s \in {"ask", "check"}, Does(p, s), GivesUp(p)
        PROVE  \A q \in Actor : Phase(q)' \in Within => Phase(q) \in Within
    <3>1. /\ \E next : Follows(p, s, Phase(p), next)
          /\ record[p].status = "none" => Phase(p)' = "after"
          /\ \A q \in Actor \ {p} : Phase(q)' = Phase(q)
      BY <1>0, <2>4, GivesUpFacts
    <3>2. Phase(p) = "before" \/ Phase(p) \in Within
      BY <2>4, <3>1 DEF Follows, Within
    <3> QED BY <3>1, <3>2 DEF TurnInv, Within
  <2>5. ASSUME SlotBusy(p) PROVE \A q \in Actor : Phase(q)' \in Within => Phase(q) \in Within
    BY <1>0, <2>5, EveryProgramIsOrderly
       DEF SlotBusy, Placing, Phase, PhaseAt, Steps, Orderly, Within
  <2> QED BY <1>1, <2>1, <2>2, <2>3, <2>4, <2>5
<1>7. CASE UNCHANGED vars
  BY <1>7 DEF vars, CanLock, Phase, PhaseAt, Steps
<1> QED BY <1>2, <1>3, <1>4, <1>5, <1>6, <1>7 DEF Next, AllOver, Run, Command

-----------------------------------------------------------------------------
(* A step that changes what one actor has read, shown or recorded at most. *)
Only(p) ==
    \A q \in Actor \ {p} : /\ read'[q] = read[q] /\ shown'[q] = shown[q] /\ record'[q] = record[q]
                           /\ Phase(q)' = Phase(q)

LEMMA OnlyFacts ==
    ASSUME GuardTypeOK, NEW p \in Actor, Run(p) \/ Confirm(p) \/ Decline(p)
    PROVE  Only(p) /\ (Save(p) \/ MoveHome(p) \/ saved' = saved)
           /\ (MoveHome(p) \/ home' = home)
<1>0. Placing
  BY DEF GuardTypeOK, Placing
<1>1. /\ \A q \in Actor \ {p} : read'[q] = read[q] /\ shown'[q] = shown[q] /\ record'[q] = record[q]
      /\ Save(p) \/ MoveHome(p) \/ saved' = saved
      /\ MoveHome(p) \/ home' = home
  BY DEF GuardTypeOK, Run, Lock, LockHeld, LockOpen, LockTake, LockFails, Opening, Release, Slot, SlotTake,
     SlotBusy, SlotFree, Command, Read, Show, Check, Save, End, MoveHome, Confirm, Decline
<1>2. \A q \in Actor \ {p} : step'[q] = step[q]
  BY <1>0 DEF Placing, Run, Lock, LockHeld, LockOpen, LockTake, LockFails, Opening, Release, Slot, SlotTake,
     SlotBusy, SlotFree, Command, Read, Show, Check, Save, End, MoveHome, Confirm, Decline, Advance, GivesUp
<1> QED BY <1>1, <1>2 DEF Only, Phase, PhaseAt, Steps

LEMMA CrashFacts ==
    ASSUME GuardTypeOK, NEW u \in Processes, Crash(u)
    PROVE  /\ UNCHANGED <<saved, read, shown, home, record>>
           /\ \A p \in Actor : Phase(p)' \in {Phase(p), "after"}
  BY EveryProgramIsOrderly DEF GuardTypeOK, Crash, Phase, PhaseAt, Steps, Orderly

LEMMA FreshStep ==
    SaversCanLock /\ GuardTypeOK /\ TurnInv /\ LockInv /\ FreshInv /\ [Next]_vars => FreshInv'
<1> SUFFICES ASSUME SaversCanLock, GuardTypeOK, TurnInv, LockInv, FreshInv, [Next]_vars, home' = 0,
                    NEW q \in Actor, Phase(q)' = "fresh", CanLock(q)
             PROVE  read'[q] = saved' /\ (shown'[q] # None => Plan(q, saved') = shown'[q])
  BY DEF FreshInv, CanLock, Plan
<1>0. /\ Placing /\ home \in Nat /\ read \in [Actor -> SUBSET Actor]
      /\ shown \in [Actor -> (SUBSET Actor) \union {None}]
  BY HomesFacts DEF GuardTypeOK, Placing
<1>1. ASSUME NEW p \in Actor, Run(p) \/ Confirm(p) \/ Decline(p)
      PROVE  read'[q] = saved' /\ (shown'[q] # None => Plan(q, saved') = shown'[q])
  <2>1. home = 0 /\ ~MoveHome(p)
    BY <1>0, <1>1, OnlyFacts DEF MoveHome
  <2>2. CASE q # p
    <3>1. Phase(q) = "fresh" /\ read'[q] = read[q] /\ shown'[q] = shown[q]
      BY <1>1, <2>2, OnlyFacts DEF Only
    <3>2. ~Save(p)
      <4>1. ASSUME Save(p) PROVE FALSE
        <5>1. Does(p, "save")
          BY <4>1 DEF Save
        <5>2. Phase(p) \in Within /\ CanLock(p)
          <6>1. Follows(p, "save", Phase(p), PhaseAt(p, step[p] + 1))
            BY <1>0, <5>1, DoesFacts
          <6> QED BY <6>1 DEF Follows, Within, SaversCanLock
        <5> QED BY <2>1, <2>2, <3>1, <5>2, OneWithin DEF Within
      <4> QED BY <4>1
    <3> QED BY <1>1, <2>1, <3>1, <3>2, OnlyFacts DEF FreshInv
  <2>3. CASE q = p
    <3>1. CASE Read(p)
      <4>1. Does(p, "read") /\ Advance(p) /\ read'[p] = saved /\ saved' = saved /\ shown' = shown
        BY <1>0, <3>1 DEF Read
      <4>2. Follows(p, "read", Phase(p), Phase(p)')
        BY <1>0, <4>1, AdvanceFacts
      <4>3. shown[p] = None
        BY <2>3, <4>2 DEF Follows, TurnInv
      <4> QED BY <2>3, <4>1, <4>3
    <3>2. CASE Check(p)
      <4>1. /\ Does(p, "check") /\ read'[p] = saved /\ saved' = saved /\ shown' = shown
            /\ IF Plan(p, saved) = shown[p] THEN Advance(p) ELSE GivesUp(p)
        BY <1>0, <3>2 DEF Check
      <4>2. ~GivesUp(p)
        BY <1>0, <2>3, <4>1, GivesUpFacts
      <4> QED BY <2>3, <4>1, <4>2
    <3>3. CASE LockOpen(p)
      BY <2>1, <2>3, <3>3 DEF LockOpen, Phase, PhaseAt, Steps, FreshInv
    <3>4. ASSUME NEW s, s \notin {"read", "check"}, Does(p, s), Advance(p), s # "show" => shown' = shown,
                 s # "save" => saved' = saved, read' = read
          PROVE  read'[q] = saved' /\ (shown'[q] # None => Plan(q, saved') = shown'[q])
      <4>1. Follows(p, s, Phase(p), Phase(p)')
        BY <1>0, <3>4, AdvanceFacts
      <4>2. Phase(p) = "fresh" /\ s \in {"lock", "ask"}
        BY <2>3, <3>4, <4>1 DEF Follows
      <4> QED BY <2>1, <2>3, <3>4, <4>2 DEF FreshInv
    <3>5. ~Decline(p)
      BY <1>0, <2>3, GivesUpFacts DEF Decline
    <3>6. ~SlotBusy(p)
      BY <1>0, <2>3, EveryProgramIsOrderly DEF SlotBusy, Placing, Phase, PhaseAt, Steps, Orderly
    <3>7. CASE (Lock(p) /\ ~LockOpen(p)) \/ Release(p) \/ SlotTake(p) \/ SlotFree(p) \/ Show(p) \/ Save(p)
               \/ End(p) \/ Confirm(p)
      <4>1. PICK s : /\ s \notin {"read", "check"} /\ Does(p, s) /\ Advance(p) /\ read' = read
                     /\ s # "show" => shown' = shown
                     /\ s # "save" => saved' = saved
        BY <3>7 DEF Lock, LockHeld, LockTake, LockFails, Release, SlotTake, SlotFree, Show, Save, End,
           Confirm
      <4> QED BY <3>4, <4>1
    <3> QED BY <1>1, <2>1, <3>1, <3>2, <3>3, <3>5, <3>6, <3>7 DEF Run, Lock, Slot, Command
  <2> QED BY <2>2, <2>3
<1>2. ASSUME NEW u \in Processes, Crash(u)
      PROVE  read'[q] = saved' /\ (shown'[q] # None => Plan(q, saved') = shown'[q])
  BY <1>2, CrashFacts DEF FreshInv
<1>3. CASE UNCHANGED vars
  BY <1>3 DEF vars, FreshInv, Phase, PhaseAt, Steps
<1> QED BY <1>1, <1>2, <1>3 DEF Next, AllOver

LEMMA RecordStep ==
    SaversCanLock /\ OneRepair /\ GuardTypeOK /\ TurnInv /\ LockInv /\ FreshInv /\ RecordInv
    /\ [Next]_vars => RecordInv'
<1> SUFFICES ASSUME SaversCanLock, OneRepair, GuardTypeOK, TurnInv, LockInv, FreshInv, RecordInv,
                    [Next]_vars, home' = 0, NEW q \in Actor
             PROVE  /\ CanLock(q) => RecordsOwn(q)'
                    /\ Style[q] = "repair" /\ Phase(q)' \in {"before", "stale"} =>
                          read'[q] \subseteq saved'
  BY DEF RecordInv, CanLock
<1>0. /\ Placing /\ home \in Nat /\ read \in [Actor -> SUBSET Actor]
      /\ record \in [Actor -> [status : {"none", "open", "finished"},
                               before : SUBSET Actor, after : SUBSET Actor]]
  BY HomesFacts DEF GuardTypeOK, Placing
<1> DEFINE Goal == /\ CanLock(q) => RecordsOwn(q)'
                   /\ Style[q] = "repair" /\ Phase(q)' \in {"before", "stale"} =>
                         read'[q] \subseteq saved'
<1>1. ASSUME NEW p \in Actor, Save(p), home = 0 PROVE Goal
  <2>1. Does(p, "save") /\ Advance(p) /\ saved' = read[p] \union {p} /\ read' = read /\ record' = record
    BY <1>1 DEF Save
  <2>2. Follows(p, "save", Phase(p), Phase(p)') /\ \A r \in Actor \ {p} : Phase(r)' = Phase(r)
    BY <1>0, <2>1, AdvanceFacts
  <2>3. /\ Phase(p) \in {"fresh", "stale"} /\ Phase(p)' = "done" /\ CanLock(p)
        /\ Phase(p) = "stale" => Style[p] = "repair"
    BY <2>2 DEF Follows, SaversCanLock
  <2>4. record[p].before = saved /\ record[p].status = "open"
    BY <1>1, <2>3 DEF RecordInv, RecordsOwn, TurnInv, Within
  <2>5. read[p] \subseteq saved
    BY <1>1, <2>3 DEF FreshInv, RecordInv
  <2>6. CASE q = p
    BY <2>1, <2>3, <2>4, <2>5, <2>6 DEF RecordsOwn
  <2>7. CASE q # p
    <3>1. CanLock(q) => Phase(q) \notin Within
      BY <1>1, <2>3, <2>7, OneWithin DEF Within
    <3>2. CanLock(q) => RecordsOwn(q)'
      BY <1>1, <2>1, <2>2, <2>7, <3>1 DEF RecordsOwn, RecordInv, Within
    <3>3. ASSUME Style[q] = "repair", Phase(q)' \in {"before", "stale"} PROVE read'[q] \subseteq saved'
      <4>1. Phase(p) = "fresh"
        BY <2>3, <2>7, <3>3 DEF OneRepair
      <4>2. saved' = saved \union {p}
        BY <1>1, <2>1, <2>3, <4>1 DEF FreshInv
      <4> QED BY <1>1, <2>1, <2>2, <2>7, <3>3, <4>2 DEF RecordInv
    <3> QED BY <3>2, <3>3
  <2> QED BY <2>6, <2>7
<1>2. ASSUME NEW p \in Actor, Run(p) \/ Confirm(p) \/ Decline(p), ~Save(p) PROVE Goal
  <2>1. home = 0 /\ ~MoveHome(p) /\ saved' = saved
    BY <1>0, <1>2, OnlyFacts DEF MoveHome
  <2>2. CASE q # p
    BY <1>2, <2>1, <2>2, OnlyFacts DEF Only, RecordInv, RecordsOwn
  <2>3. CASE q = p
    <3>1. CASE Lock(p) /\ ~LockOpen(p)
      <4>1. Does(p, "lock") /\ Advance(p) /\ Opening(p) /\ read' = read
        BY <3>1 DEF Lock, LockHeld, LockTake, LockFails
      <4>2. Follows(p, "lock", Phase(p), Phase(p)')
        BY <1>0, <4>1, AdvanceFacts
      <4>3. CASE Phase(p) = "before"
        <5>1. record[p].status = "none"
          BY <4>3 DEF TurnInv
        <5>2. record'[p].status = "open" /\ record'[p].before = saved
          BY <1>0, <4>1, <5>1 DEF Opening
        <5> QED BY <2>1, <2>3, <4>1, <4>2, <4>3, <5>2 DEF RecordsOwn, RecordInv
      <4>4. CASE Phase(p) = "fresh"
        <5>1. record' = record
          BY <4>1, <4>4 DEF Opening, TurnInv, Within
        <5> QED BY <2>1, <2>3, <4>1, <4>2, <4>4, <5>1 DEF Follows, RecordsOwn, RecordInv
      <4> QED BY <4>2, <4>3, <4>4 DEF Follows
    <3>2. CASE End(p)
      <4>1. Does(p, "end") /\ Advance(p) /\ read' = read
        BY <3>2 DEF End
      <4>2. Phase(p) = "done" /\ Phase(p)' = "closed"
        BY <1>0, <4>1, AdvanceFacts DEF Follows
      <4>3. /\ record[p].status = "open"
            /\ record'[p].before = record[p].before /\ record'[p].after = saved
        BY <1>0, <3>2, <4>2 DEF End, TurnInv, Within
      <4> QED BY <2>1, <2>3, <4>2, <4>3 DEF RecordsOwn, RecordInv
    <3>3. ASSUME NEW s \in {"ask", "check"}, Does(p, s), GivesUp(p), record' = record
          PROVE  Goal
      <4>1. /\ \E next : Follows(p, s, Phase(p), next)
            /\ record[p].status = "none" => Phase(p)' = "after"
            /\ record[p].status # "none" => Phase(p)' = "done"
        BY <1>0, <3>3, GivesUpFacts
      <4>2. CASE Phase(p) = "before"
        BY <2>1, <2>3, <3>3, <4>1, <4>2 DEF TurnInv, RecordsOwn
      <4>3. CASE Phase(p) \in {"in", "fresh"}
        BY <2>1, <2>3, <3>3, <4>1, <4>3 DEF TurnInv, RecordsOwn, RecordInv, Within
      <4> QED BY <3>3, <4>1, <4>2, <4>3 DEF Follows
    <3>4. CASE Read(p)
      <4>1. Does(p, "read") /\ Advance(p) /\ read'[p] = saved /\ record' = record
        BY <1>0, <3>4 DEF Read
      <4>2. Follows(p, "read", Phase(p), Phase(p)')
        BY <1>0, <4>1, AdvanceFacts
      <4> QED BY <2>1, <2>3, <4>1, <4>2 DEF Follows, RecordsOwn, RecordInv
    <3>5. CASE Check(p) /\ ~GivesUp(p)
      <4>1. Does(p, "check") /\ Advance(p) /\ read'[p] = saved /\ record' = record
        BY <1>0, <3>5 DEF Check
      <4>2. Follows(p, "check", Phase(p), Phase(p)')
        BY <1>0, <4>1, AdvanceFacts
      <4> QED BY <2>1, <2>3, <4>1, <4>2 DEF Follows, RecordsOwn, RecordInv
    <3>6. ASSUME NEW s, s \notin {"lock", "read", "check", "save", "end"}, Does(p, s), Advance(p),
                 read' = read, record' = record
          PROVE  Goal
      <4>1. Follows(p, s, Phase(p), Phase(p)')
        BY <1>0, <3>6, AdvanceFacts
      <4> QED BY <2>1, <2>3, <3>6, <4>1 DEF Follows, RecordsOwn, RecordInv
    <3>7. CASE LockOpen(p)
      BY <2>1, <2>3, <3>7 DEF LockOpen, Phase, PhaseAt, Steps, RecordInv, RecordsOwn
    <3>8. CASE SlotBusy(p)
      <4>1. Phase(p)' = "after"
        BY <1>0, <3>8, EveryProgramIsOrderly DEF SlotBusy, Placing, Phase, PhaseAt, Steps, Orderly
      <4> QED BY <2>1, <2>3, <3>8, <4>1 DEF SlotBusy, RecordsOwn, RecordInv
    <3>9. CASE Release(p) \/ SlotTake(p) \/ SlotFree(p) \/ Show(p) \/ Confirm(p)
      <4>1. PICK s : /\ s \notin {"lock", "read", "check", "save", "end"} /\ Does(p, s) /\ Advance(p)
                     /\ read' = read /\ record' = record
        BY <3>9 DEF Release, SlotTake, SlotFree, Show, Confirm
      <4> QED BY <3>6, <4>1
    <3>10. CASE Decline(p) \/ (Check(p) /\ GivesUp(p))
      <4>1. PICK s \in {"ask", "check"} : Does(p, s) /\ GivesUp(p) /\ record' = record
        BY <3>10 DEF Decline, Check
      <4> QED BY <3>3, <4>1
    <3>11. \/ (Lock(p) /\ ~LockOpen(p)) \/ LockOpen(p) \/ SlotBusy(p) \/ Read(p) \/ End(p)
           \/ (Check(p) /\ ~GivesUp(p)) \/ Decline(p) \/ (Check(p) /\ GivesUp(p))
           \/ Release(p) \/ SlotTake(p) \/ SlotFree(p) \/ Show(p) \/ Confirm(p)
      BY <1>2, <2>1, Zenon DEF Run, Lock, Slot, Command
    <3> QED BY <3>1, <3>2, <3>4, <3>5, <3>7, <3>8, <3>9, <3>10, <3>11, Zenon
  <2> QED BY <2>2, <2>3
<1>3. ASSUME NEW u \in Processes, Crash(u) PROVE Goal
  BY <1>3, CrashFacts DEF RecordInv, RecordsOwn
<1>4. ASSUME UNCHANGED vars PROVE Goal
  BY <1>4 DEF vars, RecordInv, RecordsOwn, Phase, PhaseAt, Steps
<1>5. ASSUME NEW p \in Actor, Save(p) PROVE home = 0
  BY <1>5 DEF Save
<1> HIDE DEF Goal
<1>6. Goal
  <2>1. CASE \E p \in Actor : Run(p) \/ Confirm(p) \/ Decline(p)
    BY <1>1, <1>2, <1>5, <2>1, Zenon
  <2>2. CASE \E u \in Processes : Crash(u)
    BY <1>3, <2>2, Zenon
  <2> QED BY <1>4, <2>1, <2>2 DEF Next, AllOver
<1> QED BY <1>6 DEF Goal

-----------------------------------------------------------------------------
LEMMA InitFacts == Init => GuardTypeOK /\ HomeInv /\ TurnInv /\ LockInv /\ FreshInv /\ RecordInv
<1> SUFFICES ASSUME Init PROVE GuardTypeOK /\ HomeInv /\ TurnInv /\ LockInv /\ FreshInv /\ RecordInv
  OBVIOUS
<1>1. \A p \in Actor : Phase(p) = "before" /\ ~InSlot(p, step[p])
  BY EveryProgramIsOrderly DEF Init, Phase, Orderly
<1>2. Cardinality({p \in Actor : Style[p] = "reset" /\ Over(p)}) \in Nat
  BY GuardAssumption, FS_Subset, FS_CardinalityType
<1>3. GuardTypeOK
  <2>1. \A h \in Homes : holder[h] = None
    BY DEF Init
  <2> QED BY <2>1, HomesFacts DEF Init, GuardTypeOK, NoRecord
<1>4. HomeInv
  BY <1>2 DEF Init, HomeInv
<1>5. TurnInv /\ LockInv
  BY <1>1 DEF Init, TurnInv, LockInv, NoRecord, Within
<1>6. FreshInv /\ RecordInv
  BY <1>1 DEF Init, FreshInv, RecordInv, RecordsOwn, NoRecord
<1> QED BY <1>3, <1>4, <1>5, <1>6

LEMMA TurnsHold == GuardSpec => [](GuardTypeOK /\ HomeInv /\ TurnInv /\ LockInv)
  BY InitFacts, TypeStep, HomeStep, TurnStep, LockStep, PTL DEF GuardSpec

LEMMA FreshHolds == SaversCanLock => (GuardSpec => [](GuardTypeOK /\ TurnInv /\ FreshInv))
<1> SUFFICES ASSUME SaversCanLock PROVE GuardSpec => [](GuardTypeOK /\ TurnInv /\ FreshInv)
  OBVIOUS
<1>1. GuardTypeOK /\ TurnInv /\ LockInv /\ FreshInv /\ [Next]_vars => FreshInv'
  BY FreshStep
<1> QED BY <1>1, InitFacts, TurnsHold, PTL DEF GuardSpec

(* Guard is type correct; in particular no process holds a lock file it    *)
(* does not have open, and no home is moved more often than it is reset.   *)
THEOREM GuardTypeCorrect == GuardSpec => []GuardTypeOK
  BY TurnsHold, PTL

(* What a person has confirmed is what is done, whatever other commands    *)
(* and requests of the server do meanwhile, if those that save can have    *)
(* the lock.                                                               *)
THEOREM ConfirmedHappens == SaversCanLock => (GuardSpec => ConfirmedIsWhatHappens)
<1> DEFINE Confirmed ==
      \A p \in Actor :
          (home = 0 /\ saved' # saved /\ Does(p, "save") /\ step'[p] # step[p] /\ shown[p] # None)
              => Plan(p, saved) = shown[p]
<1> SUFFICES ASSUME SaversCanLock PROVE GuardSpec => [][Confirmed]_vars
  BY DEF ConfirmedIsWhatHappens
<1>1. GuardTypeOK /\ TurnInv /\ FreshInv => Confirmed
  <2> SUFFICES ASSUME GuardTypeOK, TurnInv, FreshInv, NEW p \in Actor, home = 0, Does(p, "save"),
                      shown[p] # None
               PROVE  Plan(p, saved) = shown[p]
    OBVIOUS
  <2>1. Follows(p, "save", Phase(p), PhaseAt(p, step[p] + 1))
    BY DoesFacts DEF GuardTypeOK, Placing
  <2>2. Style[p] \in {"recheck", "change"}
    BY DEF TurnInv
  <2>3. Phase(p) = "fresh" /\ CanLock(p)
    BY <2>1, <2>2 DEF Follows, SaversCanLock
  <2> QED BY <2>3 DEF FreshInv
<1> HIDE DEF Confirmed
<1> QED BY <1>1, FreshHolds, PTL

(* The history ascribes to an operation nothing that another one did, and  *)
(* leaves out no change of the server's, if those that save can have the   *)
(* lock and one repair is under way at most.                               *)
THEOREM HistoryTellsWhoDidWhat ==
    SaversCanLock /\ OneRepair => (GuardSpec => []HistoryIsRight)
<1> SUFFICES ASSUME SaversCanLock, OneRepair PROVE GuardSpec => []HistoryIsRight
  OBVIOUS
<1>1. RecordInv => RecordedIsItsOwn
  BY DEF RecordInv, RecordsOwn, RecordedIsItsOwn, CanLock
<1>2. GuardTypeOK /\ TurnInv => PreviewSwallowsNothing
  <2> SUFFICES ASSUME GuardTypeOK, TurnInv, NEW p \in Actor, Previewing(p),
                      NEW q \in Actor, OfServer(q), Does(q, "save")
               PROVE  FALSE
    BY DEF PreviewSwallowsNothing
  <2>1. PICK s \in {"read", "show", "check"} : Style[p] = "change" /\ Does(p, s)
    BY DEF Previewing
  <2>2. SlotFollows(p, s, step[p])
    BY <2>1, DoesFacts DEF GuardTypeOK, Placing
  <2>3. SlotFollows(q, "save", step[q]) /\ Follows(q, "save", Phase(q), PhaseAt(q, step[q] + 1))
    BY DoesFacts DEF GuardTypeOK, Placing
  <2>4. InSlot(p, step[p]) /\ InSlot(q, step[q])
    BY <2>1, <2>2, <2>3 DEF SlotFollows, Follows, Phase, Within
  <2>5. p = q
    BY <2>4 DEF TurnInv
  <2> QED BY <2>1, <2>5 DEF Does
<1>3. GuardTypeOK /\ TurnInv /\ LockInv /\ FreshInv /\ RecordInv /\ [Next]_vars => RecordInv'
  BY RecordStep
<1> QED BY <1>1, <1>2, <1>3, InitFacts, TurnsHold, FreshHolds, PTL DEF GuardSpec, HistoryIsRight

=============================================================================
