--------------------------- MODULE Commands_proofs ---------------------------
(***************************************************************************)
(* Proofs about Commands, for any number of actors and any set of programs *)
(* that keep to the lock (EveryProgramKeepsToTheLock, which TLC evaluates  *)
(* for the program's own).                                                 *)
(*                                                                         *)
(* The invariant says of each actor that the steps it has left keep to the *)
(* lock, given what it has done: KeepsOn is KeepsToTheLock with what the   *)
(* actor holds, has read and has been shown in place of nothing. What an   *)
(* actor has read with the lock stays true because everybody else writes   *)
(* with it too.                                                            *)
(***************************************************************************)
EXTENDS Commands, SequenceTheorems, TLAPS

\* The steps q keep to the lock for an actor that knows this much.
KeepsOn(q, holds, fresh, agreed) ==
    /\ WritesLocked(q, holds)
    /\ WritesFresh(q, holds, fresh)
    /\ ActsAsAgreed(q, holds, fresh, agreed)
    /\ RendersAfter(q)
    /\ NamesItsFiles(q)

Has(a) == lock = a

\* What an actor with the lock has read is what is there.
Fresh(a) == {f \in Guarded : Has(a) /\ mem[a][f] = disk[f]}

\* What was shown, if it still matters, is what is there.
Current(a) ==
    shown[a] # None =>
        /\ Has(a)
        /\ DOMAIN shown[a] \subseteq Guarded
        /\ shown[a] = Seen(disk, DOMAIN shown[a])

DisciplineInv ==
    \A a \in Actor :
        /\ stage[a] = "idle" => shown[a] = None
        /\ stage[a] = "running" => KeepsOn(left[a], Has(a), Fresh(a), Current(a))

\* What the config lacks is a change of whoever has the lock, who will render it.
WillRender(a) ==
    \E k \in DOMAIN left[a] :
        /\ left[a][k].does \in {"render", "tell"}
        /\ \A m \in 1..k : left[a][m].does \notin {"recheck", "compare"}

HostChanges == {c \in disk["manifest"] : c[2]}

RenderInv ==
    \/ HostChanges \subseteq disk["config"] \union adrift
    \/ \E a \in Actor :
          /\ Has(a)
          /\ stage[a] = "running"
          /\ HostChanges \subseteq disk["config"] \union adrift \union {<<a, TRUE>>}
          /\ WillRender(a)

IInv == CommandsTypeOK /\ DisciplineInv /\ RenderInv

-----------------------------------------------------------------------------
(* What is left of a program after its first step.                         *)
LEMMA TailFacts ==
    ASSUME NEW q \in Seq(StepRecord), q # <<>>
    PROVE  /\ Tail(q) \in Seq(StepRecord)
           /\ Len(q) \in Nat \ {0}
           /\ Len(Tail(q)) = Len(q) - 1
           /\ DOMAIN q = 1..Len(q)
           /\ DOMAIN Tail(q) = 1..(Len(q) - 1)
           /\ Head(q) = q[1]
           /\ q[1] \in StepRecord
           /\ \A i \in 1..(Len(q) - 1) : Tail(q)[i] = q[i + 1]
<1>1. Len(q) \in Nat \ {0} /\ DOMAIN q = 1..Len(q) /\ q[1] \in StepRecord
  BY EmptySeq, LenProperties, ElementOfSeq
<1>2. /\ Tail(q) \in Seq(StepRecord)
      /\ Len(Tail(q)) = Len(q) - 1
      /\ Head(q) = q[1]
      /\ \A i \in 1..Len(Tail(q)) : Tail(q)[i] = q[i + 1]
  BY HeadTailProperties
<1>3. DOMAIN Tail(q) = 1..Len(Tail(q))
  BY <1>2, LenProperties
<1> QED BY <1>1, <1>2, <1>3

(* What an actor holds, knows and has settled at a later position of its   *)
(* program does not change when it takes the first step.                   *)
LEMMA HoldsAfter ==
    ASSUME NEW q \in Seq(StepRecord), q # <<>>, NEW h, NEW h2,
           h \/ q[1].does = "lock" => h2,
           NEW i \in 1..(Len(q) - 1), Holds(q, h, i + 1)
    PROVE  Holds(Tail(q), h2, i)
<1>1. CASE h
  BY <1>1 DEF Holds
<1>2. CASE \E k \in 1..i : q[k].does = "lock"
  <2>1. PICK k \in 1..i : q[k].does = "lock"
    BY <1>2
  <2>2. CASE k = 1
    BY <2>1, <2>2 DEF Holds
  <2>3. CASE k # 1
    <3>1. k - 1 \in 1..(i - 1) /\ k - 1 \in 1..(Len(q) - 1) /\ (k - 1) + 1 = k
      BY <2>3, TailFacts
    <3>2. Tail(q)[k - 1].does = "lock"
      BY <2>1, <3>1, TailFacts
    <3> QED BY <3>1, <3>2 DEF Holds
  <2> QED BY <2>2, <2>3
<1> QED BY <1>1, <1>2, TailFacts DEF Holds

LEMMA KnowsAfter ==
    ASSUME NEW q \in Seq(StepRecord), q # <<>>, NEW h, NEW h2, NEW F, NEW F2,
           h \/ q[1].does = "lock" => h2,
           F \subseteq F2,
           q[1].does \in {"load", "recheck"} /\ h => q[1].files \intersect Guarded \subseteq F2,
           NEW i \in 1..(Len(q) - 1), NEW f, Knows(q, h, F, i + 1, f)
    PROVE  Knows(Tail(q), h2, F2, i, f)
<1>1. CASE f \in F
  BY <1>1 DEF Knows
<1>2. CASE f \notin F
  <2>1. PICK k \in 1..i : /\ q[k].does \in {"load", "recheck"}
                         /\ f \in q[k].files
                         /\ Holds(q, h, k)
    BY <1>2, TailFacts DEF Knows
  <2>2. f \in Guarded
    BY <1>2 DEF Knows
  <2>3. CASE k = 1
    <3>1. h
      BY <2>1, <2>3 DEF Holds
    <3> QED BY <2>1, <2>2, <2>3, <3>1 DEF Knows
  <2>4. CASE k # 1
    <3>1. k - 1 \in 1..(i - 1) /\ k - 1 \in 1..(Len(q) - 1) /\ (k - 1) + 1 = k
      BY <2>4, TailFacts
    <3>2. Tail(q)[k - 1] = q[k]
      BY <3>1, TailFacts
    <3>3. Holds(Tail(q), h2, k - 1)
      BY <2>1, <3>1, HoldsAfter
    <3> QED BY <2>1, <2>2, <3>1, <3>2, <3>3 DEF Knows
  <2> QED BY <2>3, <2>4
<1> QED BY <1>1, <1>2

LEMMA SettlesAfter ==
    ASSUME NEW q \in Seq(StepRecord), q # <<>>, NEW h, NEW h2,
           h \/ q[1].does = "lock" => h2,
           NEW i \in 1..(Len(q) - 1), Settles(q, h, i + 1)
    PROVE  Settles(Tail(q), h2, i)
<1>1. Tail(q)[i] = q[i + 1]
  BY TailFacts
<1>2. Holds(q, h, i + 1) => Holds(Tail(q), h2, i)
  BY HoldsAfter
<1> QED BY <1>1, <1>2 DEF Settles

(* An actor that keeps to the lock keeps to it after its first step, if it *)
(* knows then what the step told it.                                       *)
LEMMA KeepsOnAfter ==
    ASSUME NEW q \in Seq(StepRecord), q # <<>>,
           NEW h, NEW F, NEW g, NEW h2, NEW F2, NEW g2,
           KeepsOn(q, h, F, g),
           h \/ q[1].does = "lock" => h2,
           F \subseteq F2,
           q[1].does \in {"load", "recheck"} /\ h => q[1].files \intersect Guarded \subseteq F2,
           q[1].does # "show" /\ (g \/ Settles(q, h, 1)) => g2,
           q[1].does = "show" /\ h /\ q[1].files \subseteq F => g2
    PROVE  KeepsOn(Tail(q), h2, F2, g2)
<1> DEFINE r == Tail(q)
           n == Len(q) - 1
<1>0. /\ n \in Nat /\ DOMAIN r = 1..n /\ DOMAIN q = 1..(n + 1) /\ Len(r) = n /\ Len(q) = n + 1
      /\ \A i \in 1..n : r[i] = q[i + 1] /\ i + 1 \in 1..(n + 1)
  BY TailFacts
<1>h. \A i \in 1..n : Holds(q, h, i + 1) => Holds(r, h2, i)
  BY HoldsAfter
<1>k. \A i \in 1..n, f \in File : Knows(q, h, F, i + 1, f) => Knows(r, h2, F2, i, f)
  BY KnowsAfter
<1>s. \A i \in 1..n : Settles(q, h, i + 1) => Settles(r, h2, i)
  BY SettlesAfter
<1>f. \A i \in 1..(n + 1) : q[i].files \subseteq File
  <2>1. \A i \in 1..Len(q) : q[i] \in StepRecord
    BY ElementOfSeq
  <2> QED BY <1>0, <2>1 DEF StepRecord
<1> HIDE DEF r, n
<1>1. WritesLocked(r, h2)
  BY <1>0, <1>h DEF KeepsOn, WritesLocked
<1>2. WritesFresh(r, h2, F2)
  <2>1. WritesFresh(q, h, F)
    BY DEF KeepsOn
  <2> SUFFICES ASSUME NEW i \in 1..n
               PROVE  /\ r[i].does \in {"save", "hosts"} =>
                             \A f \in r[i].files : Knows(r, h2, F2, i, f)
                      /\ r[i].does = "render" => Knows(r, h2, F2, i, "manifest")
    BY <1>0 DEF WritesFresh
  <2>2. r[i] = q[i + 1] /\ i + 1 \in DOMAIN q /\ i + 1 \in 1..(n + 1)
    BY <1>0
  <2>3. /\ q[i + 1].does \in {"save", "hosts"} =>
               \A f \in q[i + 1].files : Knows(q, h, F, i + 1, f)
        /\ q[i + 1].does = "render" => Knows(q, h, F, i + 1, "manifest")
    BY <2>1, <2>2 DEF WritesFresh
  <2>4. q[i + 1].files \subseteq File /\ "manifest" \in File
    BY <1>f, <2>2 DEF File
  <2> QED BY <1>k, <2>2, <2>3, <2>4
<1>3. ActsAsAgreed(r, h2, F2, g2)
  <2> SUFFICES ASSUME NEW i \in 1..n, r[i].does \in Acting
               PROVE  /\ g2 \/ \E m \in 1..(i - 1) : Settles(r, h2, m)
                      /\ \A j \in 1..(i - 1) : r[j].does = "show" =>
                            \/ Holds(r, h2, j) /\ \A f \in r[j].files : Knows(r, h2, F2, j, f)
                            \/ \E m \in (j + 1)..(i - 1) : Settles(r, h2, m)
    BY <1>0 DEF ActsAsAgreed
  <2>1. /\ g \/ \E m \in 1..i : Settles(q, h, m)
        /\ \A j \in 1..i : q[j].does = "show" =>
              \/ Holds(q, h, j) /\ \A f \in q[j].files : Knows(q, h, F, j, f)
              \/ \E m \in (j + 1)..i : Settles(q, h, m)
    <3>1. i + 1 \in DOMAIN q /\ q[i + 1].does \in Acting /\ (i + 1) - 1 = i
      BY <1>0
    <3> QED BY <3>1 DEF KeepsOn, ActsAsAgreed
  <2>2. ASSUME NEW m \in 2..i, Settles(q, h, m)
        PROVE  m - 1 \in 1..(i - 1) /\ Settles(r, h2, m - 1)
    <3>1. m - 1 \in 1..n /\ m - 1 \in 1..(i - 1) /\ (m - 1) + 1 = m
      BY <1>0
    <3> QED BY <2>2, <3>1, <1>s
  <2>3. g2 \/ \E m \in 1..(i - 1) : Settles(r, h2, m)
    <3>1. CASE q[1].does = "show"
      <4>1. CASE Holds(q, h, 1) /\ \A f \in q[1].files : Knows(q, h, F, 1, f)
        <5>1. h /\ q[1].files \subseteq F
          BY <4>1 DEF Holds, Knows
        <5> QED BY <3>1, <5>1
      <4>2. CASE \E m \in 2..i : Settles(q, h, m)
        BY <2>2, <4>2, <1>0
      <4> QED BY <2>1, <3>1, <4>1, <4>2, <1>0
    <3>2. CASE q[1].does # "show"
      <4>1. CASE g \/ Settles(q, h, 1)
        BY <3>2, <4>1
      <4>2. CASE \E m \in 2..i : Settles(q, h, m)
        BY <2>2, <4>2, <1>0
      <4> QED BY <2>1, <4>1, <4>2, <1>0
    <3> QED BY <3>1, <3>2
  <2>4. ASSUME NEW j \in 1..(i - 1), r[j].does = "show"
        PROVE  \/ Holds(r, h2, j) /\ \A f \in r[j].files : Knows(r, h2, F2, j, f)
               \/ \E m \in (j + 1)..(i - 1) : Settles(r, h2, m)
    <3>1. j \in 1..n /\ j + 1 \in 1..i /\ r[j] = q[j + 1] /\ r[j].files \subseteq File
      BY <1>0, <1>f
    <3>2. CASE Holds(q, h, j + 1) /\ \A f \in q[j + 1].files : Knows(q, h, F, j + 1, f)
      BY <3>1, <3>2, <1>h, <1>k
    <3>3. CASE \E m \in (j + 2)..i : Settles(q, h, m)
      <4>1. PICK m \in (j + 2)..i : Settles(q, h, m)
        BY <3>3
      <4>2. m \in 2..i /\ m - 1 \in (j + 1)..(i - 1)
        BY <1>0
      <4> QED BY <2>2, <4>1, <4>2
    <3> QED BY <2>1, <2>4, <3>1, <3>2, <3>3
  <2> QED BY <2>3, <2>4
<1>4. RendersAfter(r)
  <2> SUFFICES ASSUME NEW i \in 1..n,
                      r[i].does = "hosts" \/ (r[i].does = "put" /\ r[i].files = {"manifest"})
               PROVE  \E k \in (i + 1)..n :
                        /\ r[k].does \in {"render", "tell"}
                        /\ \A m \in (i + 1)..k : r[m].does \notin {"recheck", "compare"}
    BY <1>0 DEF RendersAfter
  <2>1. PICK k \in (i + 2)..(n + 1) : /\ q[k].does \in {"render", "tell"}
                                    /\ \A m \in (i + 2)..k : q[m].does \notin {"recheck", "compare"}
    <3>1. i + 1 \in DOMAIN q /\ (i + 1) + 1 = i + 2 /\ r[i] = q[i + 1]
      BY <1>0
    <3> QED BY <1>0, <3>1 DEF KeepsOn, RendersAfter
  <2>2. k - 1 \in (i + 1)..n /\ k - 1 \in 1..n /\ (k - 1) + 1 = k
    BY <1>0
  <2>3. ASSUME NEW m \in (i + 1)..(k - 1) PROVE r[m].does \notin {"recheck", "compare"}
    <3>1. m \in 1..n /\ m + 1 \in (i + 2)..k
      BY <1>0, <2>2
    <3> QED BY <1>0, <2>1, <3>1
  <2> QED BY <2>1, <2>2, <2>3, <1>0
<1>5. NamesItsFiles(r)
  BY <1>0 DEF KeepsOn, NamesItsFiles
<1> QED BY <1>1, <1>2, <1>3, <1>4, <1>5 DEF KeepsOn, r

(* To hold, know or have agreed to more does no harm.                      *)
LEMMA KeepsOnMore ==
    ASSUME NEW q, NEW h, NEW F, NEW g, NEW h2, NEW F2, NEW g2,
           KeepsOn(q, h, F, g),
           h => h2,
           F \subseteq F2,
           g => g2
    PROVE  KeepsOn(q, h2, F2, g2)
<1>h. \A i : Holds(q, h, i) => Holds(q, h2, i)
  BY DEF Holds
<1>k. \A i, f : Knows(q, h, F, i, f) => Knows(q, h2, F2, i, f)
  BY <1>h DEF Knows
<1>s. \A i : Settles(q, h, i) => Settles(q, h2, i)
  BY <1>h DEF Settles
<1>1. WritesLocked(q, h2)
  BY <1>h DEF KeepsOn, WritesLocked
<1>2. WritesFresh(q, h2, F2)
  BY <1>k DEF KeepsOn, WritesFresh
<1>3. ActsAsAgreed(q, h2, F2, g2)
  BY <1>h, <1>k, <1>s DEF KeepsOn, ActsAsAgreed
<1> QED BY <1>1, <1>2, <1>3 DEF KeepsOn

LEMMA KeepsOnFromTheStart ==
    ASSUME NEW p, NEW h, NEW F, NEW g, KeepsToTheLock(p), g
    PROVE  KeepsOn(p, h, F, g)
<1>h. \A i : Holds(p, FALSE, i) => Holds(p, h, i)
  BY DEF Holds
<1>k. \A i, f : Knows(p, FALSE, {}, i, f) => Knows(p, h, F, i, f)
  BY <1>h DEF Knows
<1>s. \A i : Settles(p, FALSE, i) => Settles(p, h, i)
  BY <1>h DEF Settles
<1>1. WritesLocked(p, h)
  BY <1>h DEF KeepsToTheLock, WritesLocked
<1>2. WritesFresh(p, h, F)
  BY <1>k DEF KeepsToTheLock, WritesFresh
<1>3. ActsAsAgreed(p, h, F, g)
  BY <1>h, <1>k, <1>s DEF KeepsToTheLock, ActsAsAgreed
<1> QED BY <1>1, <1>2, <1>3 DEF KeepsToTheLock, KeepsOn

-----------------------------------------------------------------------------
(* The step an actor is at is the first of what it has left.               *)
LEMMA DoingFacts ==
    ASSUME CommandsTypeOK, NEW a \in Actor, NEW w, Doing(a, w)
    PROVE  /\ stage[a] = "running"
           /\ left[a] \in Seq(StepRecord) /\ left[a] # <<>>
           /\ left[a][1].does = w
           /\ Files(a) = left[a][1].files
           /\ Files(a) \subseteq File
           /\ Tail(left[a]) \in Seq(StepRecord)
<1>1. left[a] \in Seq(StepRecord) /\ left[a] # <<>> /\ stage[a] = "running"
  BY DEF CommandsTypeOK, Doing
<1>2. Head(left[a]) = left[a][1] /\ left[a][1] \in StepRecord /\ Tail(left[a]) \in Seq(StepRecord)
  BY <1>1, TailFacts
<1> QED BY <1>1, <1>2 DEF Doing, Files, StepRecord

WriteStep(a) == SaveFile(a) \/ SaveManifest(a) \/ PutFile(a) \/ CreateFile(a) \/ Render(a)

(* Whatever writes, writes one file, and with the lock if it is guarded.   *)
LEMMA WriteFacts ==
    ASSUME CommandsTypeOK, DisciplineInv, NEW a \in Actor, WriteStep(a)
    PROVE  \E f \in File, content \in SUBSET Change :
              /\ Writes(a, f, content)
              /\ Files(a) = {f}
              /\ f \in Guarded => Has(a)
              /\ stage[a] = "running" /\ left[a] # <<>>
              /\ left[a][1].does \in Writing
<1>1. PICK w \in Writing : Doing(a, w)
  BY DEF WriteStep, SaveFile, SaveManifest, PutFile, CreateFile, Render, Writing
<1>2. /\ stage[a] = "running"
      /\ left[a] \in Seq(StepRecord) /\ left[a] # <<>>
      /\ left[a][1].does = w
      /\ Files(a) = left[a][1].files
  BY <1>1, DoingFacts
<1>3. 1 \in DOMAIN left[a]
  BY <1>2, TailFacts
<1>4. /\ WritesLocked(left[a], Has(a))
      /\ NamesItsFiles(left[a])
  BY <1>2 DEF DisciplineInv, KeepsOn
<1>5. PICK f \in File : Files(a) = {f}
  BY <1>2, <1>3, <1>4 DEF WritesLocked
<1>6. f \in Guarded => Has(a)
  <2>1. Holds(left[a], Has(a), 1) \/ left[a][1].files \intersect Guarded = {}
    BY <1>2, <1>3, <1>4 DEF WritesLocked
  <2>2. Holds(left[a], Has(a), 1) => Has(a)
    BY DEF Holds
  <2> QED BY <1>2, <1>5, <2>1, <2>2
<1>7. w = "hosts" => f = "manifest"
  BY <1>2, <1>3, <1>4, <1>5 DEF NamesItsFiles
<1>8. w = "render" => f = "config"
  BY <1>2, <1>3, <1>4, <1>5 DEF NamesItsFiles
<1>9. \A g \in File : mem[a][g] \subseteq Change
  BY DEF CommandsTypeOK
<1>10. <<a, TRUE>> \in Change /\ <<a, FALSE>> \in Change
  BY DEF Change
<1>11. \E content \in SUBSET Change : Writes(a, f, content)
  <2>1. CASE SaveFile(a)
    BY <2>1, <1>5, <1>9, <1>10 DEF SaveFile
  <2>2. CASE SaveManifest(a)
    <3>1. f = "manifest"
      BY <2>2, <1>2, <1>7, DoingFacts DEF SaveManifest
    <3> QED BY <2>2, <3>1, <1>9, <1>10 DEF SaveManifest
  <2>3. CASE PutFile(a)
    BY <2>3, <1>5, <1>10 DEF PutFile
  <2>4. CASE CreateFile(a)
    BY <2>4, <1>5, <1>10 DEF CreateFile
  <2>5. CASE Render(a)
    <3>1. f = "config"
      BY <2>5, <1>2, <1>8, DoingFacts DEF Render
    <3> QED BY <2>5, <3>1, <1>9 DEF Render, File
  <2> QED BY <2>1, <2>2, <2>3, <2>4, <2>5 DEF WriteStep
<1> QED BY <1>1, <1>2, <1>5, <1>6, <1>11

LeaveStep(a) == Finished(a) \/ CutShort(a) \/ RecheckDiffers(a) \/ Stale(a)

QuietStep(a) ==
    \/ TakeSlot(a) \/ FreeSlot(a) \/ LockForMutation(a)
    \/ Read(a) \/ Ask(a) \/ AskWhatIsShown(a)
    \/ RecheckAgrees(a) \/ HashAgrees(a)
    \/ Tell(a) \/ ActOutside(a)

LEMMA NextCases ==
    ASSUME [Next]_vars
    PROVE  \/ \E a \in Actor : Start(a) \/ LeaveStep(a) \/ QuietStep(a) \/ WriteStep(a)
           \/ UNCHANGED vars
  BY DEF Next, Over, LeaveStep, QuietStep, WriteStep

(* Every variable keeps its type.                                          *)
LEMMA TypeStep == CommandsTypeOK /\ DisciplineInv /\ [Next]_vars => CommandsTypeOK'
<1> SUFFICES ASSUME CommandsTypeOK, DisciplineInv, [Next]_vars PROVE CommandsTypeOK'
  OBVIOUS
<1>1. ASSUME NEW a \in Actor, Start(a) PROVE CommandsTypeOK'
  <2>1. PICK p \in Programs : left' = [left EXCEPT ![a] = p]
    BY <1>1 DEF Start
  <2>2. p \in Seq(StepRecord)
    BY EveryProgramKeepsToTheLock
  <2> QED BY <1>1, <2>1, <2>2 DEF Start, CommandsTypeOK
<1>2. ASSUME NEW a \in Actor, LeaveStep(a) PROVE CommandsTypeOK'
  <2>1. <<>> \in Seq(StepRecord)
    OBVIOUS
  <2>2. adrift' \subseteq Change /\ disk' = disk /\ Leave(a)
    <3>1. <<a, TRUE>> \in Change
      BY DEF Change
    <3> QED BY <1>2, <3>1 DEF LeaveStep, Finished, CutShort, RecheckDiffers, Stale, CommandsTypeOK
  <2>3. Nothing \in [File -> SUBSET Change]
    BY DEF Nothing
  <2> QED BY <2>1, <2>2, <2>3 DEF Leave, CommandsTypeOK
<1>3. ASSUME NEW a \in Actor, QuietStep(a) PROVE CommandsTypeOK'
  <2>1. GoOn(a) /\ disk' = disk
    BY <1>3 DEF QuietStep, TakeSlot, FreeSlot, LockForMutation, Read, Ask, AskWhatIsShown,
       RecheckAgrees, HashAgrees, Tell, ActOutside
  <2>2. left' \in [Actor -> Seq(StepRecord)] /\ stage' \in [Actor -> {"idle", "running", "ended"}]
    <3>1. PICK w : Doing(a, w)
      BY <1>3 DEF QuietStep, TakeSlot, FreeSlot, LockForMutation, Read, Ask, AskWhatIsShown,
         RecheckAgrees, HashAgrees, Tell, ActOutside
    <3> QED BY <2>1, <3>1, DoingFacts DEF GoOn, CommandsTypeOK
  <2>3. {lock', slot'} \subseteq Actor \union {None}
    <3>1. lock' \in {lock, a} /\ slot' \in {slot, a, None}
      BY <1>3 DEF QuietStep, TakeSlot, FreeSlot, LockForMutation, Read, Ask, AskWhatIsShown,
         RecheckAgrees, HashAgrees, Tell, ActOutside
    <3> QED BY <3>1 DEF CommandsTypeOK
  <2>4. adrift' \subseteq Change
    <3>1. adrift' \in {adrift, adrift \union {<<a, TRUE>>}}
      BY <1>3 DEF QuietStep, TakeSlot, FreeSlot, LockForMutation, Read, Ask, AskWhatIsShown,
         RecheckAgrees, HashAgrees, Tell, ActOutside
    <3>2. <<a, TRUE>> \in Change
      BY DEF Change
    <3> QED BY <3>1, <3>2 DEF CommandsTypeOK
  <2>5. mem' \in [Actor -> [File -> SUBSET Change]]
    <3>1. mem' = mem \/ mem' = [mem EXCEPT ![a] = Reading(a)]
      BY <1>3 DEF QuietStep, TakeSlot, FreeSlot, LockForMutation, Read, Ask, AskWhatIsShown,
         RecheckAgrees, HashAgrees, Tell, ActOutside
    <3>2. Reading(a) \in [File -> SUBSET Change]
      BY DEF Reading, CommandsTypeOK
    <3> QED BY <3>1, <3>2 DEF CommandsTypeOK
  <2>6. DOMAIN shown' = Actor /\ \A b \in Actor : shown'[b] # None => DOMAIN shown'[b] \subseteq File
    <3>1. \/ shown' = shown
          \/ shown' = [shown EXCEPT ![a] = None]
          \/ Files(a) \subseteq File /\ \E c : shown' = [shown EXCEPT ![a] = Seen(c, Files(a))]
      BY <1>3, DoingFacts DEF QuietStep, TakeSlot, FreeSlot, LockForMutation, Read, Ask,
         AskWhatIsShown, RecheckAgrees, HashAgrees, Tell, ActOutside
    <3> QED BY <3>1 DEF CommandsTypeOK, Seen
  <2> QED BY <2>1, <2>2, <2>3, <2>4, <2>5, <2>6 DEF CommandsTypeOK
<1>4. ASSUME NEW a \in Actor, WriteStep(a) PROVE CommandsTypeOK'
  <2>1. PICK f \in File, content \in SUBSET Change : Writes(a, f, content) /\ left[a] # <<>>
    BY <1>4, WriteFacts
  <2>2. Tail(left[a]) \in Seq(StepRecord)
    BY <2>1, TailFacts DEF CommandsTypeOK
  <2>3. adrift' \subseteq Change
    BY <1>4 DEF WriteStep, SaveFile, SaveManifest, PutFile, CreateFile, Render, CommandsTypeOK, File
  <2> QED BY <2>1, <2>2, <2>3 DEF Writes, GoOn, CommandsTypeOK
<1>5. CASE UNCHANGED vars
  BY <1>5 DEF vars, CommandsTypeOK
<1> QED BY <1>1, <1>2, <1>3, <1>4, <1>5, NextCases

-----------------------------------------------------------------------------
(* What one actor does leaves the others what they know: none has the lock *)
(* but one, and what is guarded is written with it.                        *)
LEMMA OthersKeepOn ==
    ASSUME NEW b \in Actor,
           /\ stage[b] = "idle" => shown[b] = None
           /\ stage[b] = "running" => KeepsOn(left[b], Has(b), Fresh(b), Current(b)),
           stage'[b] = stage[b], left'[b] = left[b], mem'[b] = mem[b], shown'[b] = shown[b],
           Has(b) => Has(b)' /\ \A f \in Guarded : disk'[f] = disk[f]
    PROVE  /\ stage'[b] = "idle" => shown'[b] = None
           /\ stage'[b] = "running" => KeepsOn(left'[b], Has(b)', Fresh(b)', Current(b)')
<1>1. Has(b) => Has(b)'
  OBVIOUS
<1>2. Fresh(b) \subseteq Fresh(b)'
  BY DEF Fresh
<1>3. Current(b) => Current(b)'
  <2> SUFFICES ASSUME Current(b), shown[b] # None PROVE Current(b)'
    BY DEF Current
  <2>1. Has(b)' /\ DOMAIN shown[b] \subseteq Guarded /\ shown[b] = Seen(disk, DOMAIN shown[b])
    BY DEF Current
  <2>2. Seen(disk', DOMAIN shown[b]) = Seen(disk, DOMAIN shown[b])
    BY <2>1 DEF Current, Seen
  <2> QED BY <2>1, <2>2 DEF Current
<1> QED BY <1>1, <1>2, <1>3, KeepsOnMore

(* A step that neither writes nor ends the program tells its actor what    *)
(* KeepsOn counts on.                                                      *)
LEMMA QuietKeepsOn ==
    ASSUME CommandsTypeOK, DisciplineInv, NEW a \in Actor, QuietStep(a)
    PROVE  KeepsOn(left[a], Has(a), Fresh(a), Current(a))
           /\ KeepsOn(Tail(left[a]), Has(a)', Fresh(a)', Current(a)')
<1> DEFINE q == left[a]
<1>1. PICK w \in Word : Doing(a, w)
  BY DEF QuietStep, TakeSlot, FreeSlot, LockForMutation, Read, Ask, AskWhatIsShown,
     RecheckAgrees, HashAgrees, Tell, ActOutside, Word
<1>2. /\ stage[a] = "running"
      /\ q \in Seq(StepRecord) /\ q # <<>>
      /\ \A v : Doing(a, v) => q[1].does = v
      /\ q[1].files = Files(a) /\ Files(a) \subseteq File
      /\ 1 \in DOMAIN q
  BY <1>1, DoingFacts, TailFacts
<1>3. KeepsOn(q, Has(a), Fresh(a), Current(a))
  BY <1>2 DEF DisciplineInv
<1>4. /\ disk' = disk
      /\ lock' = lock \/ lock' = a
      /\ q[1].does = "lock" => lock' = a
  BY <1>2 DEF QuietStep, TakeSlot, FreeSlot, LockForMutation, Read, Ask, AskWhatIsShown,
     RecheckAgrees, HashAgrees, Tell, ActOutside
<1>5. /\ mem' = mem \/ mem' = [mem EXCEPT ![a] = Reading(a)]
      /\ q[1].does \in {"load", "recheck"} => mem' = [mem EXCEPT ![a] = Reading(a)]
  BY <1>2 DEF QuietStep, TakeSlot, FreeSlot, LockForMutation, Read, Ask, AskWhatIsShown,
     RecheckAgrees, HashAgrees, Tell, ActOutside
<1>6. /\ mem'[a] = mem[a] \/ mem'[a] = Reading(a)
      /\ q[1].does \in {"load", "recheck"} => mem'[a] = Reading(a)
  BY <1>5 DEF CommandsTypeOK
<1>7. Has(a) \/ q[1].does = "lock" => Has(a)'
  BY <1>4 DEF Has
<1>8. Fresh(a) \subseteq Fresh(a)'
  BY <1>4, <1>6 DEF Fresh, Has, Reading, Guarded
<1>9. q[1].does \in {"load", "recheck"} /\ Has(a) => q[1].files \intersect Guarded \subseteq Fresh(a)'
  BY <1>2, <1>4, <1>6 DEF Fresh, Has, Reading, Guarded
<1>10. /\ q[1].does \in {"show", "recheck", "compare"} => Files(a) \subseteq Guarded
       /\ q[1].does = "recheck" => Has(a)
  BY <1>2, <1>3 DEF KeepsOn, NamesItsFiles, WritesLocked, Holds
<1>11. ASSUME q[1].does # "show", Current(a) \/ Settles(q, Has(a), 1) PROVE Current(a)'
  <2>1. CASE RecheckAgrees(a)
    <3>1. q[1].does = "recheck"
      BY <1>2, <2>1 DEF RecheckAgrees
    <3>2. shown'[a] = Seen(disk, Files(a)) /\ DOMAIN shown'[a] = Files(a)
      BY <2>1 DEF RecheckAgrees, CommandsTypeOK, Seen
    <3> QED BY <1>4, <1>7, <1>10, <3>1, <3>2 DEF Current
  <2>2. CASE HashAgrees(a)
    <3>1. q[1].does = "compare" /\ shown' = shown
      BY <1>2, <2>2 DEF HashAgrees
    <3>2. CASE Current(a)
      BY <1>4, <1>7, <3>1, <3>2 DEF Current
    <3>3. CASE Settles(q, Has(a), 1)
      <4>1. Has(a)
        BY <3>1, <3>3 DEF Settles, Holds, Acting, Writing
      <4>2. shown[a] = Seen(disk, Files(a)) /\ DOMAIN shown[a] = Files(a)
        BY <2>2 DEF HashAgrees, Seen
      <4> QED BY <1>4, <1>7, <1>10, <3>1, <4>1, <4>2 DEF Current
    <3> QED BY <1>11, <3>2, <3>3
  <2>3. CASE ActOutside(a)
    BY <2>3 DEF ActOutside, CommandsTypeOK, Current
  <2>4. CASE TakeSlot(a) \/ FreeSlot(a) \/ LockForMutation(a) \/ Read(a) \/ Ask(a) \/ Tell(a)
    <3>1. q[1].does \in {"slot", "free", "lock", "load", "confirm", "tell"} /\ shown' = shown
      BY <1>2, <2>4 DEF TakeSlot, FreeSlot, LockForMutation, Read, Ask, Tell
    <3>2. Current(a)
      BY <1>11, <3>1 DEF Settles, Acting, Writing
    <3> QED BY <1>4, <1>7, <3>1, <3>2 DEF Current
  <2>5. CASE AskWhatIsShown(a)
    BY <1>2, <1>11, <2>5 DEF AskWhatIsShown
  <2> QED BY <2>1, <2>2, <2>3, <2>4, <2>5 DEF QuietStep
<1>12. ASSUME q[1].does = "show", Has(a), q[1].files \subseteq Fresh(a) PROVE Current(a)'
  <2>1. AskWhatIsShown(a)
    BY <1>2, <1>12 DEF QuietStep, TakeSlot, FreeSlot, LockForMutation, Read, Ask,
       RecheckAgrees, HashAgrees, Tell, ActOutside
  <2>2. shown'[a] = Seen(mem[a], Files(a)) /\ DOMAIN shown'[a] = Files(a)
    BY <2>1 DEF AskWhatIsShown, CommandsTypeOK, Seen
  <2>3. Seen(mem[a], Files(a)) = Seen(disk, Files(a))
    BY <1>2, <1>12 DEF Seen, Fresh
  <2> QED BY <1>4, <1>7, <1>10, <1>12, <2>2, <2>3 DEF Current
<1>13. KeepsOn(Tail(q), Has(a)', Fresh(a)', Current(a)')
  BY <1>2, <1>3, <1>7, <1>8, <1>9, <1>11, <1>12, KeepsOnAfter
<1> QED BY <1>3, <1>13

(* A write leaves its actor as well informed as it was, and nothing shown. *)
LEMMA WriteKeepsOn ==
    ASSUME CommandsTypeOK, DisciplineInv, NEW a \in Actor, WriteStep(a)
    PROVE  KeepsOn(left[a], Has(a), Fresh(a), Current(a))
           /\ KeepsOn(Tail(left[a]), Has(a)', Fresh(a)', Current(a)')
<1> DEFINE q == left[a]
<1>1. PICK f \in File, content \in SUBSET Change :
        /\ Writes(a, f, content)
        /\ stage[a] = "running" /\ q # <<>>
        /\ q[1].does \in Writing
  BY WriteFacts
<1>2. q \in Seq(StepRecord)
  BY DEF CommandsTypeOK
<1>3. KeepsOn(q, Has(a), Fresh(a), Current(a))
  BY <1>1 DEF DisciplineInv
<1>4. Has(a) \/ q[1].does = "lock" => Has(a)'
  BY <1>1 DEF Has, Writes, Writing
<1>5. \A g \in File : mem[a][g] = disk[g] => mem'[a][g] = disk'[g]
  BY <1>1 DEF Writes, CommandsTypeOK
<1>6. Fresh(a) \subseteq Fresh(a)'
  BY <1>4, <1>5 DEF Fresh, Guarded
<1>7. Current(a)'
  BY <1>1 DEF Writes, CommandsTypeOK, Current
<1>8. q[1].does \notin {"load", "recheck", "show"}
  BY <1>1 DEF Writing
<1> QED BY <1>1, <1>2, <1>3, <1>4, <1>6, <1>7, <1>8, KeepsOnAfter

(* A step is one actor's: it leaves the others where they are.             *)
LEMMA OthersUntouched ==
    ASSUME CommandsTypeOK, DisciplineInv, NEW a \in Actor, NEW b \in Actor \ {a},
           Start(a) \/ LeaveStep(a) \/ QuietStep(a) \/ WriteStep(a)
    PROVE  stage'[b] = stage[b] /\ left'[b] = left[b] /\ mem'[b] = mem[b] /\ shown'[b] = shown[b]
<1>1. CASE Start(a)
  BY <1>1 DEF Start, CommandsTypeOK
<1>2. CASE LeaveStep(a)
  BY <1>2 DEF LeaveStep, Finished, CutShort, RecheckDiffers, Stale, Leave, CommandsTypeOK
<1>3. CASE QuietStep(a)
  <2>1. GoOn(a)
    BY <1>3 DEF QuietStep, TakeSlot, FreeSlot, LockForMutation, Read, Ask, AskWhatIsShown,
       RecheckAgrees, HashAgrees, Tell, ActOutside
  <2>2. mem' = mem \/ mem' = [mem EXCEPT ![a] = Reading(a)]
    BY <1>3 DEF QuietStep, TakeSlot, FreeSlot, LockForMutation, Read, Ask, AskWhatIsShown,
       RecheckAgrees, HashAgrees, Tell, ActOutside
  <2>3. \E c : shown' = shown \/ shown' = [shown EXCEPT ![a] = c]
    BY <1>3 DEF QuietStep, TakeSlot, FreeSlot, LockForMutation, Read, Ask, AskWhatIsShown,
       RecheckAgrees, HashAgrees, Tell, ActOutside
  <2> QED BY <2>1, <2>2, <2>3 DEF GoOn, CommandsTypeOK
<1>4. CASE WriteStep(a)
  <2>1. PICK f \in File, content \in SUBSET Change : Writes(a, f, content)
    BY <1>4, WriteFacts
  <2> QED BY <2>1 DEF Writes, GoOn, CommandsTypeOK
<1> QED BY <1>1, <1>2, <1>3, <1>4

LEMMA DisciplineStep == CommandsTypeOK /\ DisciplineInv /\ [Next]_vars => DisciplineInv'
<1> SUFFICES ASSUME CommandsTypeOK, DisciplineInv, [Next]_vars PROVE DisciplineInv'
  OBVIOUS
<1> USE CommandsAssumption
<1> DEFINE Kept(b) == /\ stage'[b] = "idle" => shown'[b] = None
                      /\ stage'[b] = "running" => KeepsOn(left'[b], Has(b)', Fresh(b)', Current(b)')
<1>0. ASSUME NEW a \in Actor, NEW b \in Actor \ {a},
             Start(a) \/ LeaveStep(a) \/ QuietStep(a) \/ WriteStep(a)
      PROVE  Kept(b)
  <2>1. stage'[b] = stage[b] /\ left'[b] = left[b] /\ mem'[b] = mem[b] /\ shown'[b] = shown[b]
    BY <1>0, OthersUntouched
  <2>2. ASSUME Has(b) PROVE Has(b)' /\ \A f \in Guarded : disk'[f] = disk[f]
    <3>1. lock = b /\ b # a /\ b # None
      BY <2>2 DEF Has
    <3>2. CASE Start(a)
      BY <3>1, <3>2 DEF Start, Has
    <3>3. CASE LeaveStep(a)
      BY <3>1, <3>3 DEF LeaveStep, Finished, CutShort, RecheckDiffers, Stale, Leave, Has
    <3>4. CASE QuietStep(a)
      BY <3>1, <3>4 DEF QuietStep, TakeSlot, FreeSlot, LockForMutation, Read, Ask, AskWhatIsShown,
         RecheckAgrees, HashAgrees, Tell, ActOutside, Has
    <3>5. CASE WriteStep(a)
      <4>1. PICK f \in File, content \in SUBSET Change :
              Writes(a, f, content) /\ (f \in Guarded => Has(a))
        BY <3>5, WriteFacts
      <4>2. f \notin Guarded
        BY <3>1, <4>1 DEF Has
      <4> QED BY <3>1, <4>1, <4>2 DEF Writes, CommandsTypeOK, Has, Guarded
    <3> QED BY <1>0, <3>2, <3>3, <3>4, <3>5
  <2>3. /\ stage[b] = "idle" => shown[b] = None
        /\ stage[b] = "running" => KeepsOn(left[b], Has(b), Fresh(b), Current(b))
    BY DEF DisciplineInv
  <2> HIDE DEF Kept
  <2> QED BY <2>1, <2>2, <2>3, OthersKeepOn DEF Kept
<1>1. ASSUME NEW a \in Actor, Start(a) PROVE Kept(a)
  <2>1. PICK p \in Programs : left' = [left EXCEPT ![a] = p]
    BY <1>1 DEF Start
  <2>2. KeepsToTheLock(p)
    BY EveryProgramKeepsToTheLock
  <2>3. shown'[a] = None
    BY <1>1 DEF Start, DisciplineInv
  <2>4. Current(a)'
    BY <2>3 DEF Current
  <2>5. KeepsOn(p, Has(a)', Fresh(a)', Current(a)')
    BY <2>2, <2>4, KeepsOnFromTheStart
  <2>6. left'[a] = p /\ stage'[a] = "running"
    BY <1>1, <2>1 DEF Start, CommandsTypeOK
  <2> QED BY <2>3, <2>5, <2>6
<1>2. ASSUME NEW a \in Actor, LeaveStep(a) PROVE Kept(a)
  BY <1>2 DEF LeaveStep, Finished, CutShort, RecheckDiffers, Stale, Leave, CommandsTypeOK
<1>3. ASSUME NEW a \in Actor, QuietStep(a) PROVE Kept(a)
  <2>1. PICK w : GoOn(a) /\ Doing(a, w)
    BY <1>3 DEF QuietStep, TakeSlot, FreeSlot, LockForMutation, Read, Ask, AskWhatIsShown,
       RecheckAgrees, HashAgrees, Tell, ActOutside
  <2>2. left'[a] = Tail(left[a]) /\ stage'[a] = "running"
    BY <2>1 DEF GoOn, Doing, CommandsTypeOK
  <2> QED BY <1>3, <2>2, QuietKeepsOn
<1>4. ASSUME NEW a \in Actor, WriteStep(a) PROVE Kept(a)
  <2>1. PICK f \in File, content \in SUBSET Change : Writes(a, f, content) /\ stage[a] = "running"
    BY <1>4, WriteFacts
  <2>2. left'[a] = Tail(left[a]) /\ stage'[a] = "running"
    BY <2>1 DEF Writes, GoOn, CommandsTypeOK
  <2> QED BY <1>4, <2>2, WriteKeepsOn
<1>5. CASE UNCHANGED vars
  BY <1>5 DEF vars, DisciplineInv, Has, Fresh, Current
<1> HIDE DEF Kept
<1>6. ASSUME NEW a \in Actor, Start(a) \/ LeaveStep(a) \/ QuietStep(a) \/ WriteStep(a)
      PROVE  \A b \in Actor : Kept(b)
  BY <1>0, <1>1, <1>2, <1>3, <1>4, <1>6
<1>7. ASSUME \A b \in Actor : Kept(b) PROVE DisciplineInv'
  BY <1>7 DEF Kept, DisciplineInv
<1> QED BY <1>5, <1>6, <1>7, NextCases

-----------------------------------------------------------------------------
(* Whoever will render still will after a step that is not it.             *)
LEMMA StillWillRender ==
    ASSUME NEW a \in Actor, left[a] \in Seq(StepRecord), left[a] # <<>>, WillRender(a),
           left[a][1].does \notin {"render", "tell"}, left'[a] = Tail(left[a])
    PROVE  WillRender(a)'
<1> DEFINE q == left[a]
<1>1. PICK k \in DOMAIN q : /\ q[k].does \in {"render", "tell"}
                           /\ \A m \in 1..k : q[m].does \notin {"recheck", "compare"}
  BY DEF WillRender
<1>2. k # 1 /\ k - 1 \in 1..(Len(q) - 1) /\ (k - 1) + 1 = k /\ k - 1 \in DOMAIN Tail(q)
  BY <1>1, TailFacts
<1>3. Tail(q)[k - 1] = q[k]
  BY <1>2, TailFacts
<1>4. ASSUME NEW m \in 1..(k - 1) PROVE Tail(q)[m].does \notin {"recheck", "compare"}
  <2>1. m \in 1..(Len(q) - 1) /\ m + 1 \in 1..k
    BY <1>2, TailFacts
  <2> QED BY <1>1, <2>1, TailFacts
<1> QED BY <1>1, <1>2, <1>3, <1>4 DEF WillRender

(* A change of the manifest that has just been made will be rendered.      *)
LEMMA ChangeWillBeRendered ==
    ASSUME NEW a \in Actor, left[a] \in Seq(StepRecord), left[a] # <<>>, RendersAfter(left[a]),
           \/ left[a][1].does = "hosts"
           \/ left[a][1].does = "put" /\ left[a][1].files = {"manifest"},
           left'[a] = Tail(left[a])
    PROVE  WillRender(a)'
<1> DEFINE q == left[a]
<1>1. PICK k \in 2..Len(q) : /\ q[k].does \in {"render", "tell"}
                             /\ \A m \in 2..k : q[m].does \notin {"recheck", "compare"}
  <2>1. 1 \in DOMAIN q /\ 1 + 1 = 2
    BY TailFacts
  <2> QED BY <2>1 DEF RendersAfter
<1>2. k - 1 \in 1..(Len(q) - 1) /\ (k - 1) + 1 = k /\ k - 1 \in DOMAIN Tail(q)
  BY <1>1, TailFacts
<1>3. Tail(q)[k - 1] = q[k]
  BY <1>2, TailFacts
<1>4. ASSUME NEW m \in 1..(k - 1) PROVE Tail(q)[m].does \notin {"recheck", "compare"}
  <2>1. m \in 1..(Len(q) - 1) /\ m + 1 \in 2..k
    BY <1>2, TailFacts
  <2> QED BY <1>1, <2>1, TailFacts
<1> QED BY <1>1, <1>2, <1>3, <1>4 DEF WillRender

(* What each kind of write makes of its file: only a put takes from a file *)
(* that is not the config, and a render leaves the manifest in that.       *)
LEMMA ContentFacts ==
    ASSUME CommandsTypeOK, DisciplineInv, NEW a \in Actor, WriteStep(a),
           NEW f \in File, Files(a) = {f}
    PROVE  /\ \A g \in File \ {f} : disk'[g] = disk[g]
           /\ adrift \subseteq adrift'
           /\ \/ /\ left[a][1].does = "save"
                 /\ disk'[f] = disk[f] \union {<<a, FALSE>>}
              \/ /\ left[a][1].does = "create"
                 /\ disk[f] = {}
                 /\ disk'[f] = {<<a, FALSE>>}
              \/ /\ left[a][1].does = "hosts"
                 /\ f = "manifest"
                 /\ disk'[f] = disk[f] \union {<<a, TRUE>>}
              \/ /\ Doing(a, "put")
                 /\ left[a][1].does = "put"
                 /\ left[a][1].files = {f}
                 /\ disk'[f] = {<<a, TRUE>>}
                 /\ f = "config" => disk["manifest"] \subseteq adrift'
              \/ /\ left[a][1].does = "render"
                 /\ f = "config"
                 /\ disk'[f] = disk["manifest"]
<1> DEFINE q == left[a]
<1>1. /\ stage[a] = "running" /\ q \in Seq(StepRecord) /\ q # <<>>
      /\ \A v : Doing(a, v) => q[1].does = v
      /\ q[1].files = {f}
      /\ 1 \in DOMAIN q
  <2>1. PICK w : Doing(a, w)
    BY DEF WriteStep, SaveFile, SaveManifest, PutFile, CreateFile, Render
  <2> QED BY <2>1, DoingFacts, TailFacts
<1>2. KeepsOn(q, Has(a), Fresh(a), Current(a))
  BY <1>1 DEF DisciplineInv
<1>3. ASSUME NEW g, Knows(q, Has(a), Fresh(a), 1, g) PROVE mem[a][g] = disk[g]
  BY <1>3 DEF Knows, Fresh
<1>4. q[1].does \in {"save", "hosts"} => mem[a][f] = disk[f]
  BY <1>1, <1>2, <1>3 DEF KeepsOn, WritesFresh
<1>5. q[1].does = "render" => mem[a]["manifest"] = disk["manifest"]
  BY <1>1, <1>2, <1>3 DEF KeepsOn, WritesFresh
<1>6. /\ q[1].does = "hosts" => f = "manifest"
      /\ q[1].does = "render" => f = "config"
  BY <1>1, <1>2 DEF KeepsOn, NamesItsFiles
<1>7. disk \in [File -> SUBSET Change]
  BY DEF CommandsTypeOK
<1>8. CASE SaveFile(a)
  <2>1. Writes(a, f, mem[a][f] \union {<<a, FALSE>>}) /\ q[1].does = "save" /\ adrift' = adrift
    BY <1>1, <1>8 DEF SaveFile
  <2> QED BY <1>4, <1>7, <2>1 DEF Writes
<1>9. CASE SaveManifest(a)
  <2>1. /\ q[1].does = "hosts" /\ adrift' = adrift
        /\ Writes(a, "manifest", mem[a]["manifest"] \union {<<a, TRUE>>})
    BY <1>1, <1>9 DEF SaveManifest
  <2> QED BY <1>4, <1>6, <1>7, <2>1 DEF Writes
<1>10. CASE PutFile(a)
  <2>1. /\ Doing(a, "put") /\ q[1].does = "put" /\ adrift \subseteq adrift'
        /\ Writes(a, f, {<<a, TRUE>>})
        /\ f = "config" => disk["manifest"] \subseteq adrift'
    BY <1>1, <1>10 DEF PutFile
  <2> QED BY <1>1, <1>7, <2>1 DEF Writes
<1>11. CASE CreateFile(a)
  <2>1. /\ q[1].does = "create" /\ adrift' = adrift
        /\ disk[f] = {} /\ Writes(a, f, {<<a, FALSE>>})
    BY <1>1, <1>11 DEF CreateFile
  <2> QED BY <1>7, <2>1 DEF Writes
<1>12. CASE Render(a)
  <2>1. /\ q[1].does = "render" /\ adrift' = adrift
        /\ Writes(a, "config", mem[a]["manifest"])
    BY <1>1, <1>12 DEF Render
  <2> QED BY <1>5, <1>6, <1>7, <2>1 DEF Writes
<1> QED BY <1>8, <1>9, <1>10, <1>11, <1>12 DEF WriteStep

(* A write renders what was owed or owes no more, a host's change apart.   *)
LEMMA DebtFacts ==
    ASSUME CommandsTypeOK, DisciplineInv, NEW a \in Actor, WriteStep(a),
           NEW f \in File, Files(a) = {f}
    PROVE  \/ HostChanges' \subseteq disk'["config"] \union adrift'
           \/ /\ disk["config"] \union adrift \subseteq disk'["config"] \union adrift'
              /\ HostChanges' \subseteq HostChanges
              /\ left[a][1].does \notin {"render", "tell"}
           \/ /\ disk["config"] \union adrift \subseteq disk'["config"] \union adrift'
              /\ HostChanges' \subseteq HostChanges \union {<<a, TRUE>>}
              /\ f = "manifest"
              /\ \/ left[a][1].does = "hosts"
                 \/ left[a][1].does = "put" /\ left[a][1].files = {"manifest"}
<1>1. /\ \A g \in File \ {f} : disk'[g] = disk[g]
      /\ adrift \subseteq adrift'
  BY ContentFacts
<1>2. "manifest" \in File /\ "config" \in File /\ "manifest" # "config"
  BY DEF File
<1>3. CASE left[a][1].does \in {"save", "create"}
  <2>1. disk'[f] = disk[f] \union {<<a, FALSE>>}
    BY <1>3, ContentFacts
  <2>2. disk["config"] \subseteq disk'["config"]
    BY <1>1, <1>2, <2>1
  <2>3. HostChanges' \subseteq HostChanges
    <3>1. disk'["manifest"] \subseteq disk["manifest"] \union {<<a, FALSE>>}
      BY <1>1, <1>2, <2>1
    <3>2. ASSUME NEW c \in disk'["manifest"], c[2] PROVE c \in disk["manifest"]
      <4>1. <<a, FALSE>>[2] = FALSE
        OBVIOUS
      <4>2. c # <<a, FALSE>>
        BY <3>2, <4>1, Zenon
      <4> QED BY <3>1, <4>2
    <3> QED BY <3>2 DEF HostChanges
  <2> QED BY <1>1, <1>3, <2>2, <2>3
<1>4. CASE left[a][1].does = "hosts"
  <2>1. f = "manifest" /\ disk'[f] = disk[f] \union {<<a, TRUE>>}
    BY <1>4, ContentFacts
  <2> QED BY <1>1, <1>2, <1>4, <2>1 DEF HostChanges
<1>5. CASE left[a][1].does = "put"
  <2>1. /\ left[a][1].files = {f}
        /\ disk'[f] = {<<a, TRUE>>}
        /\ f = "config" => disk["manifest"] \subseteq adrift'
    BY <1>5, ContentFacts
  <2>2. CASE f = "config"
    BY <1>1, <1>2, <2>1, <2>2 DEF HostChanges
  <2>3. CASE f = "manifest"
    BY <1>1, <1>2, <1>5, <2>1, <2>3 DEF HostChanges
  <2>4. CASE f \notin {"config", "manifest"}
    BY <1>1, <1>2, <1>5, <2>4 DEF HostChanges
  <2> QED BY <2>2, <2>3, <2>4
<1>6. CASE left[a][1].does = "render"
  <2>1. f = "config" /\ disk'[f] = disk["manifest"]
    BY <1>6, ContentFacts
  <2> QED BY <1>1, <1>2, <2>1 DEF HostChanges
<1> QED BY <1>3, <1>4, <1>5, <1>6, ContentFacts

(* What the config lacks stays the change of whoever has the lock and will *)
(* render it, or becomes one that was left to the person.                  *)
LEMMA RenderStep == CommandsTypeOK /\ DisciplineInv /\ RenderInv /\ [Next]_vars => RenderInv'
<1> SUFFICES ASSUME CommandsTypeOK, DisciplineInv, RenderInv, [Next]_vars PROVE RenderInv'
  OBVIOUS
<1> DEFINE Lacks(more) == HostChanges \subseteq disk["config"] \union adrift \union more
           Owes(p) == /\ Has(p)
                      /\ stage[p] = "running"
                      /\ Lacks({<<p, TRUE>>})
                      /\ WillRender(p)
<1>1. Lacks({}) \/ \E p \in Actor : Owes(p)
  BY DEF RenderInv
<1>2. ASSUME Lacks({})' \/ \E p \in Actor : Owes(p)' PROVE RenderInv'
  BY <1>2 DEF RenderInv
<1>3. ASSUME NEW p \in Actor, Owes(p)
      PROVE  left[p] \in Seq(StepRecord) /\ left[p] # <<>> /\ left[p][1].does \notin {"recheck", "compare"}
  <2>1. PICK k \in DOMAIN left[p] : \A m \in 1..k : left[p][m].does \notin {"recheck", "compare"}
    BY <1>3 DEF WillRender
  <2>2. left[p] \in Seq(StepRecord) /\ DOMAIN left[p] = 1..Len(left[p]) /\ Len(left[p]) \in Nat
    BY LenProperties DEF CommandsTypeOK
  <2>3. 1 \in 1..k /\ left[p] # <<>>
    BY <2>1, <2>2
  <2> QED BY <2>1, <2>2, <2>3
<1>4. ASSUME NEW a \in Actor, NEW p \in Actor \ {a}, Owes(p),
             stage'[p] = stage[p], left'[p] = left[p], lock' = p, disk' = disk, adrift \subseteq adrift'
      PROVE  Owes(p)'
  BY <1>4 DEF HostChanges, Has, WillRender
<1>5. ASSUME NEW a \in Actor, Start(a) PROVE Lacks({})' \/ \E p \in Actor : Owes(p)'
  <2>1. CASE Lacks({})
    BY <1>5, <2>1 DEF Start, HostChanges
  <2>2. ASSUME NEW p \in Actor, Owes(p) PROVE Owes(p)'
    <3>1. p # a /\ stage'[p] = stage[p] /\ left'[p] = left[p] /\ lock' = p
      BY <1>5, <2>2 DEF Start, CommandsTypeOK, Has
    <3>2. disk' = disk /\ adrift \subseteq adrift'
      BY <1>5 DEF Start
    <3> HIDE DEF Owes
    <3> QED BY <1>4, <2>2, <3>1, <3>2
  <2> HIDE DEF Owes, Lacks
  <2> QED BY <1>1, <2>1, <2>2
<1>6. ASSUME NEW a \in Actor, LeaveStep(a) PROVE Lacks({})' \/ \E p \in Actor : Owes(p)'
  <2>0. disk' = disk /\ adrift \subseteq adrift'
    BY <1>6 DEF LeaveStep, Finished, CutShort, RecheckDiffers, Stale
  <2>1. CASE Lacks({})
    BY <2>0, <2>1 DEF HostChanges
  <2>2. ASSUME Owes(a) PROVE Lacks({})'
    <3>1. CutShort(a)
      BY <1>3, <1>6, <2>2, DoingFacts DEF LeaveStep, Finished, RecheckDiffers, Stale
    <3> QED BY <2>0, <2>2, <3>1 DEF CutShort, HostChanges
  <2>3. ASSUME NEW p \in Actor \ {a}, Owes(p) PROVE Owes(p)'
    <3>1. stage'[p] = stage[p] /\ left'[p] = left[p] /\ lock' = p
      BY <1>6, <2>3 DEF LeaveStep, Finished, CutShort, RecheckDiffers, Stale, Leave, CommandsTypeOK, Has
    <3> HIDE DEF Owes
    <3> QED BY <1>4, <2>0, <2>3, <3>1
  <2> HIDE DEF Owes, Lacks
  <2> QED BY <1>1, <2>1, <2>2, <2>3
<1>7. ASSUME NEW a \in Actor, QuietStep(a) PROVE Lacks({})' \/ \E p \in Actor : Owes(p)'
  <2>0. /\ disk' = disk /\ adrift \subseteq adrift' /\ GoOn(a)
        /\ lock' = lock \/ (lock \in {None, a} /\ lock' = a)
        /\ \E w \in Word : Doing(a, w)
    BY <1>7 DEF Word, QuietStep, TakeSlot, FreeSlot, LockForMutation, Read, Ask, AskWhatIsShown,
       RecheckAgrees, HashAgrees, Tell, ActOutside
  <2>1. CASE Lacks({})
    BY <2>0, <2>1 DEF HostChanges
  <2>2. ASSUME Owes(a) PROVE Lacks({})' \/ Owes(a)'
    <3>1. CASE Tell(a)
      BY <2>0, <2>2, <3>1 DEF Tell, HostChanges
    <3>2. CASE left[a][1].does \notin {"render", "tell"}
      <4>1. left'[a] = Tail(left[a]) /\ stage'[a] = stage[a]
        BY <2>0 DEF GoOn, CommandsTypeOK
      <4>2. WillRender(a)'
        BY <1>3, <2>2, <3>2, <4>1, StillWillRender
      <4> QED BY <2>0, <2>2, <4>1, <4>2 DEF HostChanges, Has
    <3>3. Tell(a) \/ left[a][1].does \notin {"render", "tell"}
      BY <1>7, DoingFacts DEF QuietStep, TakeSlot, FreeSlot, LockForMutation, Read, Ask,
         AskWhatIsShown, RecheckAgrees, HashAgrees, ActOutside
    <3> QED BY <3>1, <3>2, <3>3
  <2>3. ASSUME NEW p \in Actor \ {a}, Owes(p) PROVE Owes(p)'
    <3>1. stage'[p] = stage[p] /\ left'[p] = left[p] /\ lock' = p
      BY <2>0, <2>3, CommandsAssumption DEF GoOn, CommandsTypeOK, Has
    <3> HIDE DEF Owes
    <3> QED BY <1>4, <2>0, <2>3, <3>1
  <2> HIDE DEF Owes, Lacks
  <2> QED BY <1>1, <2>1, <2>2, <2>3
<1>8. ASSUME NEW a \in Actor, WriteStep(a) PROVE Lacks({})' \/ \E p \in Actor : Owes(p)'
  <2>1. PICK f \in File, content \in SUBSET Change :
          /\ Writes(a, f, content)
          /\ Files(a) = {f}
          /\ f \in Guarded => Has(a)
          /\ stage[a] = "running" /\ left[a] # <<>>
    BY <1>8, WriteFacts
  <2>2. /\ left'[a] = Tail(left[a]) /\ stage'[a] = "running" /\ lock' = lock
        /\ \A p \in Actor \ {a} : left'[p] = left[p] /\ stage'[p] = stage[p]
        /\ left[a] \in Seq(StepRecord)
    BY <2>1 DEF Writes, GoOn, CommandsTypeOK
  <2>3. CASE HostChanges' \subseteq disk'["config"] \union adrift'
    BY <2>3
  <2>4. CASE /\ disk["config"] \union adrift \subseteq disk'["config"] \union adrift'
             /\ HostChanges' \subseteq HostChanges
             /\ left[a][1].does \notin {"render", "tell"}
    <3>1. CASE Lacks({})
      BY <2>4, <3>1
    <3>2. ASSUME NEW p \in Actor, Owes(p) PROVE Owes(p)'
      <4>1. WillRender(p)' /\ stage'[p] = "running"
        <5>1. CASE p = a
          BY <2>1, <2>2, <2>4, <3>2, <5>1, StillWillRender
        <5>2. CASE p # a
          BY <2>2, <3>2, <5>2 DEF WillRender
        <5> QED BY <5>1, <5>2
      <4> QED BY <2>2, <2>4, <3>2, <4>1 DEF Has
    <3> HIDE DEF Owes, Lacks
    <3> QED BY <1>1, <3>1, <3>2
  <2>5. CASE /\ disk["config"] \union adrift \subseteq disk'["config"] \union adrift'
             /\ HostChanges' \subseteq HostChanges \union {<<a, TRUE>>}
             /\ f = "manifest"
             /\ \/ left[a][1].does = "hosts"
                \/ left[a][1].does = "put" /\ left[a][1].files = {"manifest"}
    <3>1. Has(a)
      BY <2>1, <2>5 DEF Guarded, File
    <3>2. Lacks({<<a, TRUE>>})
      BY <1>1, <3>1 DEF Has
    <3>3. RendersAfter(left[a])
      BY <2>1 DEF DisciplineInv, KeepsOn
    <3>4. WillRender(a)'
      BY <2>1, <2>2, <2>5, <3>3, ChangeWillBeRendered
    <3> QED BY <2>2, <2>5, <3>1, <3>2, <3>4 DEF Has
  <2> HIDE DEF Owes, Lacks
  <2> QED BY <1>8, <2>1, <2>3, <2>4, <2>5, DebtFacts DEF Lacks
<1>9. CASE UNCHANGED vars
  BY <1>9 DEF vars, RenderInv, HostChanges, Has, WillRender
<1> HIDE DEF Owes, Lacks
<1> QED BY <1>2, <1>5, <1>6, <1>7, <1>8, <1>9, NextCases

-----------------------------------------------------------------------------
LEMMA InitFacts == Init => IInv
<1> SUFFICES ASSUME Init PROVE IInv
  OBVIOUS
<1>1. CommandsTypeOK
  <2>1. <<>> \in Seq(StepRecord)
    OBVIOUS
  <2> QED BY <2>1 DEF Init, CommandsTypeOK, Nothing
<1>2. DisciplineInv
  BY DEF Init, DisciplineInv
<1>3. RenderInv
  BY DEF Init, RenderInv, HostChanges, Nothing, File
<1> QED BY <1>1, <1>2, <1>3 DEF IInv

LEMMA Invariant == Spec => []IInv
<1>1. IInv /\ [Next]_vars => IInv'
  BY TypeStep, DisciplineStep, RenderStep DEF IInv
<1> QED BY <1>1, InitFacts, PTL DEF Spec

(* Commands is type correct.                                               *)
THEOREM CommandsTypeCorrect == Spec => []CommandsTypeOK
<1>1. IInv => CommandsTypeOK
  BY DEF IInv
<1> QED BY <1>1, Invariant, PTL

(* However many terminals and browsers change things side by side: once    *)
(* nobody has the lock, ~/.ssh/config has every host of the manifest but   *)
(* those left to a person to render.                                       *)
THEOREM ConfigAlwaysFollowsManifest == Spec => []ConfigFollowsManifest
<1>1. IInv => ConfigFollowsManifest
  BY CommandsAssumption DEF IInv, RenderInv, HostChanges, Has, ConfigFollowsManifest
<1> QED BY <1>1, Invariant, PTL

LEMMA UpdateStep ==
    ASSUME CommandsTypeOK, DisciplineInv, [Next]_vars, NEW f \in File \ {"config"}
    PROVE  disk[f] \subseteq disk'[f] \/ Replaces(f)
<1>1. ASSUME disk' = disk PROVE disk[f] \subseteq disk'[f]
  BY <1>1
<1>2. ASSUME NEW a \in Actor, WriteStep(a) PROVE disk[f] \subseteq disk'[f] \/ Replaces(f)
  <2>1. PICK g \in File, content \in SUBSET Change : Writes(a, g, content) /\ Files(a) = {g}
    BY <1>2, WriteFacts
  <2>2. CASE f # g
    BY <1>2, <2>1, <2>2, ContentFacts
  <2>3. CASE f = g /\ Doing(a, "put")
    BY <2>1, <2>3 DEF Writes, GoOn, CommandsTypeOK, Replaces
  <2>4. CASE f = g /\ ~Doing(a, "put")
    <3>1. \/ disk'[g] = disk[g] \union {<<a, FALSE>>}
          \/ disk'[g] = disk[g] \union {<<a, TRUE>>}
          \/ disk[g] = {}
          \/ g = "config"
      BY <1>2, <2>1, <2>4, ContentFacts
    <3> QED BY <2>4, <3>1
  <2> QED BY <2>2, <2>3, <2>4
<1>3. ASSUME NEW a \in Actor, Start(a) \/ LeaveStep(a) \/ QuietStep(a) PROVE disk' = disk
  BY <1>3 DEF Start, LeaveStep, Finished, CutShort, RecheckDiffers, Stale, QuietStep, TakeSlot,
     FreeSlot, LockForMutation, Read, Ask, AskWhatIsShown, RecheckAgrees, HashAgrees, Tell, ActOutside
<1>4. CASE UNCHANGED vars
  BY <1>1, <1>4 DEF vars
<1> QED BY <1>1, <1>2, <1>3, <1>4, NextCases

(* No command, page or job takes another's change out of a file: what it   *)
(* saves was read with the lock it still has.                              *)
THEOREM NoUpdateIsEverLost == Spec => NoUpdateIsLost
<1> DEFINE Kept == \A f \in File \ {"config"} : disk[f] \subseteq disk'[f] \/ Replaces(f)
<1>1. IInv /\ [Next]_vars => [Kept]_vars
  BY UpdateStep DEF IInv
<1> QED BY <1>1, Invariant, PTL DEF Spec, NoUpdateIsLost

LEMMA ConfirmedStep ==
    ASSUME CommandsTypeOK, DisciplineInv, [Next]_vars, NEW a \in Actor,
           shown[a] # None, shown'[a] = None, stage'[a] = "running"
    PROVE  shown[a] = Seen(disk, DOMAIN shown[a])
<1>1. ~UNCHANGED vars
  BY DEF vars
<1>2. Start(a) \/ LeaveStep(a) \/ QuietStep(a) \/ WriteStep(a)
  BY <1>1, NextCases, OthersUntouched
<1>3. ~Start(a) /\ ~LeaveStep(a)
  BY DEF Start, LeaveStep, Finished, CutShort, RecheckDiffers, Stale, Leave, CommandsTypeOK
<1>4. ASSUME NEW content, NEW fs \in SUBSET File, content \in [File -> SUBSET Change]
      PROVE  Seen(content, fs) # None
  <2>1. Seen(content, fs) \in [fs -> SUBSET Change]
    BY <1>4 DEF Seen
  <2> QED BY <2>1, CommandsAssumption
<1>5. WriteStep(a) \/ ActOutside(a)
  <2>1. ASSUME AskWhatIsShown(a) \/ RecheckAgrees(a) PROVE FALSE
    <3>1. Files(a) \subseteq File
      BY <2>1, DoingFacts DEF AskWhatIsShown, RecheckAgrees
    <3>2. shown'[a] \in {Seen(mem[a], Files(a)), Seen(disk, Files(a))}
      BY <2>1 DEF AskWhatIsShown, RecheckAgrees, CommandsTypeOK
    <3> QED BY <1>4, <3>1, <3>2 DEF CommandsTypeOK
  <2> QED BY <1>2, <1>3, <2>1 DEF QuietStep, TakeSlot, FreeSlot, LockForMutation, Read, Ask, HashAgrees, Tell
<1>6. /\ stage[a] = "running"
      /\ left[a] \in Seq(StepRecord) /\ left[a] # <<>>
      /\ left[a][1].does \in Acting
  <2>1. CASE WriteStep(a)
    BY <2>1, WriteFacts DEF CommandsTypeOK, Acting
  <2>2. CASE ActOutside(a)
    BY <2>2, DoingFacts DEF ActOutside, Acting
  <2> QED BY <1>5, <2>1, <2>2
<1>7. ActsAsAgreed(left[a], Has(a), Fresh(a), Current(a)) /\ 1 \in DOMAIN left[a]
  BY <1>6, TailFacts DEF DisciplineInv, KeepsOn
<1>8. Current(a)
  BY <1>6, <1>7 DEF ActsAsAgreed
<1> QED BY <1>8 DEF Current

(* Whatever was shown and agreed to is how things are when the first       *)
(* change is made, whoever else was at work while the person thought.      *)
THEOREM WhatIsConfirmedIsCurrent == Spec => ConfirmedIsCurrent
<1> DEFINE AsAgreed == \A a \in Actor :
             shown[a] # None /\ shown'[a] = None /\ stage'[a] = "running"
             => shown[a] = Seen(disk, DOMAIN shown[a])
<1>1. IInv /\ [Next]_vars => [AsAgreed]_vars
  BY ConfirmedStep DEF IInv
<1> QED BY <1>1, Invariant, PTL DEF Spec, ConfirmedIsCurrent
=============================================================================
