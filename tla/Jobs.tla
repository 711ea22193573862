-------------------------------- MODULE Jobs --------------------------------
(***************************************************************************)
(* The server's job registry (internal/services/jobs): one long change at  *)
(* a time, run in its own goroutine, that can pause on a question and be   *)
(* cancelled between its steps.                                            *)
(*                                                                         *)
(* Three kinds of goroutine interleave. Start: an HTTP request checks the  *)
(* registry, waits for the process's change slot and registers its job.    *)
(* Work: the job's own goroutine runs, asks, finishes, and gives the slot  *)
(* back in three separate steps. Clicks: a request that answers or cancels *)
(* reads the job under its mutex and only then sends on the channel.       *)
(***************************************************************************)
EXTENDS Naturals, Sequences, FiniteSets

CONSTANTS
    Job,        \* jobs that may be started, one per request
    Click,      \* requests that answer a question or cancel a job
    Change,     \* previews and confirmed changes that need the slot too
    None,
    Keep,       \* how many jobs the registry remembers (50 in the code)
    MaxAsks     \* bound: questions one job asks

ASSUME JobsAssumption ==
    /\ Keep \in Nat \ {0}
    /\ MaxAsks \in Nat
    /\ None \notin Job \union Change
    /\ Job \intersect Change = {}

VARIABLES
    running,    \* Registry.running: a job or None
    order,      \* Registry.order, oldest first; Registry.jobs has the same ids
    slot,       \* mutation.serial: who has the change slot, or None
    at,         \* where each job's goroutine is
    state,      \* Job.state, as its page shows it
    result,     \* what run returned, once it has: err, in Start's goroutine
    cancel,     \* Job.cancel
    answer,     \* Job.answer, a channel of capacity one: what is buffered
    asked,      \* how many questions the job has asked
    reply,      \* history: the last reply Ask returned, and the questions it joins
    click,      \* where each answering or cancelling request is
    change      \* where each preview or change is

jobVars == <<at, state, result, cancel, answer, asked, reply>>
vars == <<running, order, slot, jobVars, click, change>>

Finished == {"done", "failed", "cancelled"}
States == {"running", "waiting"} \union Finished
Places == {"new", "slot", "register", "work", "receive", "resume", "settle",
           "retire", "free", "gone", "refused"}

\* The channel carries yes or no, which the registry does not tell apart. What is
\* kept here instead is the question that was showing when it was clicked.
Reply == [meant : 0..MaxAsks, question : 0..MaxAsks]
NoReply == [meant |-> 0, question |-> 0]

IdleClick == [step |-> "idle", job |-> None, question |-> 0]
ClickTo(step, j) == [step |-> step, job |-> j, question |-> asked[j]]

Init ==
    /\ running = None
    /\ order = <<>>
    /\ slot = None
    /\ at = [j \in Job |-> "new"]
    /\ state = [j \in Job |-> "running"]
    /\ result = [j \in Job |-> "running"]
    /\ cancel = [j \in Job |-> FALSE]
    /\ answer = [j \in Job |-> <<>>]
    /\ asked = [j \in Job |-> 0]
    /\ reply = [j \in Job |-> NoReply]
    /\ click = [c \in Click |-> IdleClick]
    /\ change = [e \in Change |-> "new"]

Move(j, from, to) ==
    /\ at[j] = from
    /\ at' = [at EXCEPT ![j] = to]

\* Registry.Get: only what the registry still remembers can be reached.
Known == {order[i] : i \in 1..Len(order)}

-----------------------------------------------------------------------------
(* Registry.Start, in the request's goroutine                              *)

\* First under r.mu: refuse while a job runs (ErrBusy).
StartCheck(j) ==
    /\ IF running # None THEN Move(j, "new", "refused") ELSE Move(j, "new", "slot")
    /\ UNCHANGED <<running, order, slot, state, result, cancel, answer, asked, reply, click, change>>

\* mutation.Exclusive gets the slot ...
StartExclusive(j) ==
    /\ slot = None
    /\ slot' = j
    /\ Move(j, "slot", "register")
    /\ UNCHANGED <<running, order, state, result, cancel, answer, asked, reply, click, change>>

\* ... or gives up after ten seconds of somebody else having it.
StartTimeout(j) ==
    /\ slot # None
    /\ Move(j, "slot", "refused")
    /\ UNCHANGED <<running, order, slot, state, result, cancel, answer, asked, reply, click, change>>

\* An off-by-one: >= where the code has >.
Remembered_OneFewer(ids) ==
    IF Len(ids) >= Keep THEN SubSeq(ids, Len(ids) - Keep + 2, Len(ids)) ELSE ids

\* The registry forgets its oldest jobs beyond Keep.
Remembered(ids) ==
    IF Len(ids) > Keep THEN SubSeq(ids, Len(ids) - Keep + 1, Len(ids)) ELSE ids

Register(j) ==
    /\ Move(j, "register", "work")
    /\ running' = j
    /\ order' = Remembered(Append(order, j))
    /\ UNCHANGED <<slot, state, result, cancel, answer, asked, reply, click, change>>

-----------------------------------------------------------------------------
(* The job's goroutine                                                     *)

\* Job.Step between two steps: a cancelled job stops here.
StepCancelled(j) ==
    /\ cancel[j]
    /\ Move(j, "work", "settle")
    /\ result' = [result EXCEPT ![j] = "cancelled"]
    /\ UNCHANGED <<running, order, slot, state, cancel, answer, asked, reply, click, change>>

\* AskWith pauses only a job that has not been cancelled: a cancelled one is
\* told no without asking, and works on to its next Step.
PausesOn(j) == at[j] = "work" /\ ~cancel[j]

Ask(j) ==
    /\ asked[j] < MaxAsks
    /\ PausesOn(j)
    /\ Move(j, "work", "receive")
    /\ asked' = [asked EXCEPT ![j] = @ + 1]
    /\ state' = [state EXCEPT ![j] = "waiting"]
    /\ UNCHANGED <<running, order, slot, result, cancel, answer, reply, click, change>>

\* yes := <-j.answer, outside the mutex: the job still shows its question.
Receive(j) ==
    /\ answer[j] # <<>>
    /\ Move(j, "receive", "resume")
    /\ reply' = [reply EXCEPT ![j] =
           [meant |-> Head(answer[j]), question |-> asked[j]]]
    /\ answer' = [answer EXCEPT ![j] = <<>>]
    /\ UNCHANGED <<running, order, slot, state, result, cancel, asked, click, change>>

Resume(j) ==
    /\ Move(j, "resume", "work")
    /\ state' = [state EXCEPT ![j] = "running"]
    /\ UNCHANGED <<running, order, slot, result, cancel, answer, asked, reply, click, change>>

\* run returns, with an error or without. A cancel that comes after the last
\* Step changes nothing: the job is done or failed, as it would have been.
Outcome(j) ==
    /\ Move(j, "work", "settle")
    /\ \E r \in {"done", "failed"} : result' = [result EXCEPT ![j] = r]
    /\ UNCHANGED <<running, order, slot, state, cancel, answer, asked, reply, click, change>>

\* The slot is given back last of all (defer release()).
Settled(j) == Move(j, "settle", "retire") /\ UNCHANGED slot

Settle(j) ==
    /\ Settled(j)
    /\ state' = [state EXCEPT ![j] = result[j]]
    /\ UNCHANGED <<running, order, result, cancel, answer, asked, reply, click, change>>

Retire(j) ==
    /\ Move(j, "retire", "free")
    /\ running' = None
    /\ UNCHANGED <<order, slot, state, result, cancel, answer, asked, reply, click, change>>

Free(j) ==
    /\ Move(j, "free", "gone")
    /\ slot' = None
    /\ UNCHANGED <<running, order, state, result, cancel, answer, asked, reply, click, change>>

-----------------------------------------------------------------------------
(* Registry.Answer and Registry.Cancel, in a request's goroutine           *)

\* Answer reads the state under the mutex; a job that is not waiting has
\* nothing to answer, and the request returns.
AnswerCheck(c, j) ==
    /\ click[c].step = "idle"
    /\ j \in Known
    /\ state[j] = "waiting"
    /\ click' = [click EXCEPT ![c] = ClickTo("send", j)]
    /\ UNCHANGED <<running, order, slot, jobVars, change>>

\* Cancel that looks whether the job waits before it marks it.
Cancelled_LooksFirst(c, j) ==
    \/ /\ click[c].step = "idle"
       /\ click' = [click EXCEPT ![c] =
              ClickTo(IF state[j] = "waiting" THEN "send" ELSE "mark", j)]
       /\ UNCHANGED cancel
    \/ /\ click[c].step = "mark" /\ click[c].job = j
       /\ cancel' = [cancel EXCEPT ![j] = TRUE]
       /\ click' = [click EXCEPT ![c] = IdleClick]

\* Cancel marks the job and reads whether it waits in one critical section.
Cancelled(c, j) ==
    /\ click[c].step = "idle"
    /\ cancel' = [cancel EXCEPT ![j] = TRUE]
    /\ click' = [click EXCEPT ![c] =
           IF state[j] = "waiting" THEN ClickTo("send", j) ELSE IdleClick]

Cancel(c, j) ==
    /\ j \in Known
    /\ state[j] \notin Finished
    /\ Cancelled(c, j)
    /\ UNCHANGED <<running, order, slot, at, state, result, answer, asked, reply, change>>

\* The send does not block: a channel that is full keeps what it has.
Send(c) ==
    /\ click[c].step = "send"
    /\ answer' = [answer EXCEPT ![click[c].job] =
           IF @ = <<>> THEN <<click[c].question>> ELSE @]
    /\ click' = [click EXCEPT ![c] = IdleClick]
    /\ UNCHANGED <<running, order, slot, at, state, result, cancel, asked, reply, change>>

-----------------------------------------------------------------------------
(* change.Preview and change.Apply, seen from the slot                     *)

ChangeBegin(e) ==
    /\ change[e] = "new"
    /\ slot = None
    /\ slot' = e
    /\ change' = [change EXCEPT ![e] = "changing"]
    /\ UNCHANGED <<running, order, jobVars, click>>

ChangeEnd(e) ==
    /\ change[e] = "changing"
    /\ slot' = None
    /\ change' = [change EXCEPT ![e] = "gone"]
    /\ UNCHANGED <<running, order, jobVars, click>>

-----------------------------------------------------------------------------
Start(j) == StartCheck(j) \/ StartExclusive(j) \/ StartTimeout(j) \/ Register(j)
Work(j) == StepCancelled(j) \/ Ask(j) \/ Receive(j) \/ Resume(j) \/ Outcome(j)
Wind(j) == Settle(j) \/ Retire(j) \/ Free(j)

AllOver ==
    /\ \A j \in Job : at[j] \in {"gone", "refused"}
    /\ \A e \in Change : change[e] = "gone"
    /\ \A c \in Click : click[c] = IdleClick
    /\ UNCHANGED vars

Next ==
    \/ \E j \in Job : Start(j) \/ Work(j) \/ Wind(j)
    \/ \E c \in Click : Send(c) \/ \E j \in Job : AnswerCheck(c, j) \/ Cancel(c, j)
    \/ \E e \in Change : ChangeBegin(e) \/ ChangeEnd(e)
    \/ AllOver

\* Goroutines run; whether and when a person clicks is theirs to decide. A
\* job that works moves on to its next step: what it waits for outside is
\* bounded by the timeouts of ssh and of the providers' clients.
Fairness ==
    /\ \A j \in Job : WF_vars(Start(j)) /\ WF_vars(Work(j)) /\ WF_vars(Wind(j))
    /\ \A c \in Click : WF_vars(Send(c))
    /\ \A e \in Change : WF_vars(ChangeEnd(e))

JobsSpec == Init /\ [][Next]_vars /\ Fairness

-----------------------------------------------------------------------------
\* Every variable has the shape the code gives it.
JobsTypeOK ==
    /\ running \in Job \union {None}
    /\ order \in Seq(Job) /\ Len(order) <= Keep
    /\ slot \in Job \union Change \union {None}
    /\ at \in [Job -> Places]
    /\ state \in [Job -> States]
    /\ result \in [Job -> {"running"} \union Finished]
    /\ cancel \in [Job -> BOOLEAN]
    /\ answer \in [Job -> {<<>>} \union {<<q>> : q \in 0..MaxAsks}]
    /\ asked \in [Job -> 0..MaxAsks]
    /\ reply \in [Job -> Reply]
    /\ click \in [Click -> {IdleClick} \union
                        [step : {"send"}, job : Job, question : 0..MaxAsks]]
    /\ change \in [Change -> {"new", "changing", "gone"}]

\* The places where a job's goroutine may be changing something.
Busy == {j \in Job : at[j] \in {"work", "receive", "resume", "settle"}}

\* No preview, change or other job interleaves with a job: the slot is given
\* back once only, by whoever has it, and after the registry has let go
\* (serial.go: two requests would share one lock and interleave).
OneChangeAtATime ==
    Cardinality(Busy) + Cardinality({e \in Change : change[e] = "changing"}) <= 1

\* A job that is working can be found, so that it can be answered and
\* cancelled: remembering only Keep jobs never forgets it, and Registry.running
\* names it for as long as it works, though two Starts may both have passed the
\* first check, and a job that ends clears that entry after its slot is free.
WorkingJobIsKnown == Busy \subseteq Known /\ \A j \in Busy : running = j

\* Both: whatever changes anything is the only one to, and can be cancelled.
OneKnownJobWorks == OneChangeAtATime /\ WorkingJobIsKnown

\* Not so, and in no run: a reply is for the question the job was asking when it
\* got it. Ask is said to pause until the person answers; a second click on the
\* first question can be waiting in the channel when the second one is asked.
RepliesAreToTheQuestion ==
    \A j \in Job : reply[j].meant = reply[j].question

\* A cancelled job ends, and gives the slot back, though nobody ever answers the
\* question it may be waiting on or may be about to ask.
CancelledJobEnds == \A j \in Job : cancel[j] ~> at[j] = "gone"
=============================================================================
