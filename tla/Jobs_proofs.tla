----------------------------- MODULE Jobs_proofs -----------------------------
(***************************************************************************)
(* Proofs about Jobs, for any number of jobs, clicks and previews and any  *)
(* Keep: the slot says who may be changing something, and of the jobs the  *)
(* one that has it is the last the registry was told of.                   *)
(***************************************************************************)
EXTENDS Jobs, FiniteSetTheorems, SequenceTheorems, TLAPS

\* Where a job's goroutine has the slot, and where the registry calls it running.
Holding == {"register", "work", "receive", "resume", "settle", "retire", "free"}
Working == {"work", "receive", "resume", "settle", "retire"}

\* The slot is with exactly the job or the change that is between taking it and
\* giving it back.
SlotInv ==
    /\ \A j \in Job : at[j] \in Holding <=> slot = j
    /\ \A e \in Change : change[e] = "changing" <=> slot = e

\* The registry's latest job is the one at work. (With Keep = 0 it would be
\* forgotten as soon as it is registered.)
RegistryInv ==
    \A j \in Job : at[j] \in Working =>
        running = j /\ order # <<>> /\ order[Len(order)] = j

JobsInv == JobsTypeOK /\ SlotInv /\ RegistryInv

-----------------------------------------------------------------------------
(* Whatever the registry forgets, it is not the newest.                    *)
LEMMA RememberedFacts ==
    ASSUME NEW ids \in Seq(Job), ids # <<>>
    PROVE  /\ Remembered(ids) \in Seq(Job)
           /\ Len(Remembered(ids)) <= Keep
           /\ Remembered(ids) # <<>>
           /\ Remembered(ids)[Len(Remembered(ids))] = ids[Len(ids)]
<1> USE JobsAssumption
<1>1. Len(ids) \in Nat /\ \A i \in 1..Len(ids) : ids[i] \in Job
  OBVIOUS
<1>2. CASE Len(ids) > Keep
  <2> DEFINE first == Len(ids) - Keep + 1
             kept == SubSeq(ids, first, Len(ids))
  <2>1. first \in Int /\ first >= 1 /\ first <= Len(ids)
    BY <1>1, <1>2
  <2>2. /\ kept \in Seq(Job)
        /\ Len(kept) = Keep
        /\ \A i \in 1..Keep : kept[i] = ids[first + i - 1]
    <3>1. \A i \in first..Len(ids) : ids[i] \in Job
      BY <1>1, <2>1
    <3> QED BY <1>1, <2>1, <3>1, SubSeqProperties
  <2>3. kept[Keep] = ids[Len(ids)]
    BY <1>1, <2>1, <2>2
  <2>4. kept # <<>>
    BY <2>2
  <2>5. Remembered(ids) = kept
    BY <1>2 DEF Remembered
  <2> HIDE DEF kept
  <2> QED BY <2>2, <2>3, <2>4, <2>5
<1>3. CASE ~(Len(ids) > Keep)
  BY <1>1, <1>3 DEF Remembered
<1> QED BY <1>2, <1>3

LEMMA AppendFacts ==
    ASSUME NEW ids \in Seq(Job), NEW j \in Job
    PROVE  /\ Append(ids, j) \in Seq(Job)
           /\ Append(ids, j) # <<>>
           /\ Append(ids, j)[Len(Append(ids, j))] = j
  OBVIOUS

-----------------------------------------------------------------------------
LEMMA TypeStep == JobsTypeOK /\ [Next]_vars => JobsTypeOK'
<1> USE JobsAssumption
<1> SUFFICES ASSUME JobsTypeOK, [Next]_vars PROVE JobsTypeOK'
  OBVIOUS
<1> USE DEF JobsTypeOK, Move, Places, States, Finished, Reply
<1>1. ASSUME NEW j \in Job, Start(j) PROVE JobsTypeOK'
  <2>1. CASE StartCheck(j)
    BY <2>1 DEF StartCheck
  <2>2. CASE StartExclusive(j)
    BY <2>2 DEF StartExclusive
  <2>3. CASE StartTimeout(j)
    BY <2>3 DEF StartTimeout
  <2>4. CASE Register(j)
    <3>1. order' \in Seq(Job) /\ Len(order') <= Keep
      BY <2>4, AppendFacts, RememberedFacts DEF Register
    <3> QED BY <2>4, <3>1 DEF Register
  <2> QED BY <1>1, <2>1, <2>2, <2>3, <2>4 DEF Start
<1>2. ASSUME NEW j \in Job, Work(j) PROVE JobsTypeOK'
  <2>1. CASE StepCancelled(j)
    BY <2>1 DEF StepCancelled
  <2>2. CASE Ask(j)
    BY <2>2 DEF Ask
  <2>3. CASE Receive(j)
    <3>1. PICK q \in 0..MaxAsks : answer[j] = <<q>>
      <4>1. answer[j] \in {<<>>} \union {<<q>> : q \in 0..MaxAsks}
        OBVIOUS
      <4>2. answer[j] # <<>>
        BY <2>3 DEF Receive
      <4> QED BY <4>1, <4>2, Zenon
    <3>2. [meant |-> Head(answer[j]), question |-> asked[j]] \in Reply
      BY <3>1
    <3> QED BY <2>3, <3>2 DEF Receive
  <2>4. CASE Resume(j)
    BY <2>4 DEF Resume
  <2>5. CASE Outcome(j)
    BY <2>5 DEF Outcome
  <2> QED BY <1>2, <2>1, <2>2, <2>3, <2>4, <2>5 DEF Work
<1>3. ASSUME NEW j \in Job, Wind(j) PROVE JobsTypeOK'
  <2>1. CASE Settle(j)
    BY <2>1 DEF Settle, Settled
  <2>2. CASE Retire(j)
    BY <2>2 DEF Retire
  <2>3. CASE Free(j)
    BY <2>3 DEF Free
  <2> QED BY <1>3, <2>1, <2>2, <2>3 DEF Wind
<1>4. ASSUME NEW c \in Click, Send(c) PROVE JobsTypeOK'
  <2>1. click[c].job \in Job /\ click[c].question \in 0..MaxAsks
    BY <1>4 DEF Send, IdleClick
  <2> QED BY <1>4, <2>1 DEF Send
<1>5. ASSUME NEW c \in Click, NEW j \in Job, AnswerCheck(c, j) \/ Cancel(c, j) PROVE JobsTypeOK'
  <2>1. ClickTo("send", j) \in [step : {"send"}, job : Job, question : 0..MaxAsks]
    BY DEF ClickTo
  <2>2. CASE AnswerCheck(c, j)
    BY <2>1, <2>2 DEF AnswerCheck, jobVars
  <2>3. CASE Cancel(c, j)
    <3>1. click' \in [Click -> {IdleClick} \union
                           [step : {"send"}, job : Job, question : 0..MaxAsks]]
      BY <2>1, <2>3 DEF Cancel, Cancelled
    <3> QED BY <2>3, <3>1 DEF Cancel, Cancelled
  <2> QED BY <1>5, <2>2, <2>3
<1>6. ASSUME NEW e \in Change, ChangeBegin(e) \/ ChangeEnd(e) PROVE JobsTypeOK'
  BY <1>6 DEF ChangeBegin, ChangeEnd, jobVars
<1>7. CASE UNCHANGED vars
  BY <1>7 DEF vars, jobVars
<1> QED BY <1>1, <1>2, <1>3, <1>4, <1>5, <1>6, <1>7 DEF Next, AllOver

LEMMA SlotStep == JobsTypeOK /\ SlotInv /\ [Next]_vars => SlotInv'
<1> USE JobsAssumption
<1> SUFFICES ASSUME JobsTypeOK, SlotInv, [Next]_vars PROVE SlotInv'
  OBVIOUS
<1> USE DEF SlotInv, Holding, Move
<1>0. at \in [Job -> Places] /\ change \in [Change -> {"new", "changing", "gone"}]
  BY DEF JobsTypeOK
<1>1. ASSUME NEW j \in Job, Start(j) PROVE SlotInv'
  BY <1>0, <1>1 DEF Start, StartCheck, StartExclusive, StartTimeout, Register
<1>2. ASSUME NEW j \in Job, Work(j) PROVE SlotInv'
  BY <1>0, <1>2 DEF Work, StepCancelled, Ask, Receive, Resume, Outcome
<1>3. ASSUME NEW j \in Job, Wind(j) PROVE SlotInv'
  BY <1>0, <1>3 DEF Wind, Settle, Settled, Retire, Free
<1>4. ASSUME NEW e \in Change, ChangeBegin(e) \/ ChangeEnd(e) PROVE SlotInv'
  BY <1>0, <1>4 DEF ChangeBegin, ChangeEnd, jobVars
<1>5. ASSUME NEW c \in Click, Send(c) \/ \E j \in Job : AnswerCheck(c, j) \/ Cancel(c, j) PROVE SlotInv'
  BY <1>5 DEF Send, AnswerCheck, Cancel, jobVars
<1>6. CASE UNCHANGED vars
  BY <1>6 DEF vars, jobVars
<1> QED BY <1>1, <1>2, <1>3, <1>4, <1>5, <1>6 DEF Next, AllOver

LEMMA RegistryStep == JobsInv /\ [Next]_vars => RegistryInv'
<1> SUFFICES ASSUME JobsInv, [Next]_vars PROVE RegistryInv'
  OBVIOUS
<1> USE DEF RegistryInv, SlotInv, Holding, Working, Move
<1>0. /\ at \in [Job -> Places] /\ order \in Seq(Job)
      /\ RegistryInv /\ SlotInv
  BY DEF JobsInv, JobsTypeOK
<1>1. ASSUME NEW j \in Job, Start(j) PROVE RegistryInv'
  <2>1. CASE Register(j)
    <3>1. order' # <<>> /\ order'[Len(order')] = j
      <4>1. order' = Remembered(Append(order, j))
        BY <2>1 DEF Register
      <4>2. /\ Append(order, j) \in Seq(Job) /\ Append(order, j) # <<>>
            /\ Append(order, j)[Len(Append(order, j))] = j
        BY <1>0, AppendFacts
      <4> QED BY <4>1, <4>2, RememberedFacts
    <3>2. \A i \in Job : at'[i] \in Working => i = j
      BY <1>0, <2>1 DEF Register
    <3> QED BY <2>1, <3>1, <3>2 DEF Register
  <2>2. CASE StartCheck(j) \/ StartExclusive(j) \/ StartTimeout(j)
    BY <1>0, <2>2 DEF StartCheck, StartExclusive, StartTimeout
  <2> QED BY <1>1, <2>1, <2>2 DEF Start
<1>2. ASSUME NEW j \in Job, Work(j) PROVE RegistryInv'
  BY <1>0, <1>2 DEF Work, StepCancelled, Ask, Receive, Resume, Outcome
<1>3. ASSUME NEW j \in Job, Wind(j) PROVE RegistryInv'
  BY <1>0, <1>3 DEF Wind, Settle, Settled, Retire, Free
<1>4. ASSUME NEW e \in Change, ChangeBegin(e) \/ ChangeEnd(e) PROVE RegistryInv'
  BY <1>0, <1>4 DEF ChangeBegin, ChangeEnd, jobVars
<1>5. ASSUME NEW c \in Click, Send(c) \/ \E j \in Job : AnswerCheck(c, j) \/ Cancel(c, j)
      PROVE  RegistryInv'
  BY <1>0, <1>5 DEF Send, AnswerCheck, Cancel, jobVars
<1>6. CASE UNCHANGED vars
  BY <1>0, <1>6 DEF vars, jobVars
<1> QED BY <1>1, <1>2, <1>3, <1>4, <1>5, <1>6 DEF Next, AllOver

LEMMA InitFacts == Init => JobsInv
<1> USE JobsAssumption
<1> SUFFICES ASSUME Init PROVE JobsInv
  OBVIOUS
<1>1. JobsTypeOK
  BY DEF Init, JobsTypeOK, Places, States, Finished, Reply, NoReply, IdleClick
<1>2. SlotInv /\ RegistryInv
  BY DEF Init, SlotInv, RegistryInv, Holding, Working
<1> QED BY <1>1, <1>2 DEF JobsInv

LEMMA JobsHolds == JobsSpec => []JobsInv
<1>1. JobsInv /\ [Next]_vars => JobsInv'
  BY TypeStep, SlotStep, RegistryStep DEF JobsInv
<1> QED BY <1>1, InitFacts, PTL DEF JobsSpec

(* Jobs is type correct: the channel of a job never holds two answers, and *)
(* the registry never more than Keep jobs.                                 *)
THEOREM JobsTypeCorrect == JobsSpec => []JobsTypeOK
<1>1. JobsInv => JobsTypeOK
  BY DEF JobsInv
<1> QED BY <1>1, JobsHolds, PTL

(* At most one job or preview is changing anything, and a job that is can  *)
(* be found, answered and cancelled, however many requests start jobs and  *)
(* however many the registry has forgotten.                                *)
THEOREM TheOneJobAtWorkIsKnown == JobsSpec => []OneKnownJobWorks
<1>1. JobsInv => OneChangeAtATime
  <2> SUFFICES ASSUME JobsInv PROVE OneChangeAtATime
    OBVIOUS
  <2> DEFINE changing == {e \in Change : change[e] = "changing"}
  <2>1. CASE slot \in Job
    <3>1. changing = {}
      BY <2>1, JobsAssumption DEF JobsInv, SlotInv
    <3>2. Busy = {} \/ Busy = {slot}
      BY <2>1 DEF JobsInv, SlotInv, Holding, Busy
    <3>3. Cardinality(changing) = 0 /\ Cardinality(Busy) \in {0, 1}
      BY <3>1, <3>2, FS_EmptySet, FS_Singleton
    <3> QED BY <3>3 DEF OneChangeAtATime
  <2>2. CASE slot \notin Job
    <3>1. Busy = {}
      BY <2>2 DEF JobsInv, SlotInv, Holding, Busy
    <3>2. changing = {} \/ changing = {slot}
      BY DEF JobsInv, SlotInv
    <3>3. Cardinality(Busy) = 0 /\ Cardinality(changing) \in {0, 1}
      BY <3>1, <3>2, FS_EmptySet, FS_Singleton
    <3> QED BY <3>3 DEF OneChangeAtATime
  <2> QED BY <2>1, <2>2
<1>2. JobsInv => WorkingJobIsKnown
  <2> SUFFICES ASSUME JobsInv, NEW j \in Busy PROVE j \in Known /\ running = j
    BY DEF WorkingJobIsKnown
  <2>1. j \in Job /\ running = j /\ order # <<>> /\ order[Len(order)] = j
    BY DEF Busy, JobsInv, RegistryInv, Working
  <2>2. Len(order) \in 1..Len(order)
    BY <2>1 DEF JobsInv, JobsTypeOK
  <2> QED BY <2>1, <2>2 DEF Known
<1> QED BY <1>1, <1>2, JobsHolds, PTL DEF OneKnownJobWorks

=============================================================================
