-------------------------- MODULE BridgeQueue_proofs --------------------------
(***************************************************************************)
(* What holds of the work queue for every number of tasks and of drains    *)
(* and under every policy.  The invariant goes by what a drain has taken,  *)
(* completed or not: completing a task only moves the line between the two *)
(* parts.                                                                  *)
(***************************************************************************)
EXTENDS BridgeQueue, FiniteSetTheorems, SequenceTheorems, TLAPS

Held == Elements(tasks) \cup UNION {Elements(Taken(d)) : d \in Drains}

(* Where a task is, and that it is in one place.                           *)
InOnePlace ==
  /\ NoRepeats(tasks)
  /\ \A d \in Drains :
       /\ NoRepeats(Taken(d))
       /\ Elements(Taken(d)) \cap Elements(tasks) = {}
       /\ \A e \in Drains \ {d} : Elements(Taken(d)) \cap Elements(Taken(e)) = {}
  /\ Held \cap answered = {}

(* What is anywhere has arrived; what was refused has not.                 *)
Arrived ==
  /\ Held \cup answered \subseteq Elements(arrivals)
  /\ refused \cap Elements(arrivals) = {}

(* The tasks that have arrived and are nowhere were dropped.               *)
Counted == dropped + Cardinality(Held \cup answered) = Len(arrivals)

TasksInOrder ==
  \A i, j \in DOMAIN tasks : i < j => Precedes(arrivals, tasks[i], tasks[j])

QueueInv ==
  /\ QueueTypeOK
  /\ WithinCapacity
  /\ InOnePlace
  /\ Arrived
  /\ Counted
  /\ TasksInOrder
  /\ BatchesInArrivalOrder

-----------------------------------------------------------------------------
(* Sequences.                                                              *)
LEMMA AppendElements ==
  ASSUME NEW S, NEW list \in Seq(S), NEW t \in S
  PROVE  /\ Elements(Append(list, t)) = Elements(list) \cup {t}
         /\ NoRepeats(list) /\ t \notin Elements(list) => NoRepeats(Append(list, t))
<1>1. /\ DOMAIN list = 1 .. Len(list) /\ Len(list) \in Nat
      /\ DOMAIN Append(list, t) = 1 .. Len(list) + 1
      /\ \A i \in 1 .. Len(list) : Append(list, t)[i] = list[i]
      /\ Append(list, t)[Len(list) + 1] = t
  BY AppendProperties
<1>2. \A i \in 1 .. Len(list) + 1 : i \in 1 .. Len(list) \/ i = Len(list) + 1
  BY <1>1
<1>3. Elements(Append(list, t)) = Elements(list) \cup {t}
  BY <1>1, <1>2 DEF Elements
<1>4. ASSUME NoRepeats(list), t \notin Elements(list) PROVE NoRepeats(Append(list, t))
  BY <1>1, <1>2, <1>4 DEF Elements, NoRepeats
<1> QED
  BY <1>3, <1>4

LEMMA OneMoreElement ==
  \A list \in Seq(Tasks), t \in Tasks : Elements(Append(list, t)) = Elements(list) \cup {t}
<1>1. ASSUME NEW list \in Seq(Tasks), NEW t \in Tasks
      PROVE  Elements(Append(list, t)) = Elements(list) \cup {t}
  BY AppendElements
<1> QED
  BY <1>1

LEMMA TailElements ==
  ASSUME NEW S, NEW list \in Seq(S), list # <<>>
  PROVE  /\ Elements(list) = Elements(Tail(list)) \cup {Head(list)}
         /\ NoRepeats(list) => NoRepeats(Tail(list)) /\ Head(list) \notin Elements(Tail(list))
<1>1. /\ Len(list) \in Nat /\ Len(list) >= 1 /\ DOMAIN list = 1 .. Len(list)
      /\ DOMAIN Tail(list) = 1 .. Len(list) - 1
      /\ \A i \in 1 .. Len(list) - 1 : Tail(list)[i] = list[i + 1]
      /\ Head(list) = list[1]
  BY HeadTailProperties
<1>2. \A i \in 1 .. Len(list) : i = 1 \/ (i - 1 \in 1 .. Len(list) - 1 /\ i = (i - 1) + 1)
  BY <1>1
<1>3. \A i \in 1 .. Len(list) - 1 : i + 1 \in 1 .. Len(list) /\ i + 1 # 1
  BY <1>1
<1>4. Elements(list) \subseteq Elements(Tail(list)) \cup {Head(list)}
  <2> SUFFICES ASSUME NEW i \in 1 .. Len(list)
               PROVE  list[i] \in Elements(Tail(list)) \cup {Head(list)}
    BY <1>1 DEF Elements
  <2>1. CASE i = 1
    BY <1>1, <2>1
  <2>2. CASE i - 1 \in 1 .. Len(list) - 1 /\ i = (i - 1) + 1
    <3>1. list[i] = Tail(list)[i - 1] /\ i - 1 \in DOMAIN Tail(list)
      BY <1>1, <2>2
    <3> QED
      BY <3>1 DEF Elements
  <2> QED
    BY <1>2, <2>1, <2>2
<1>5. Elements(Tail(list)) \cup {Head(list)} \subseteq Elements(list)
  BY <1>1, <1>3 DEF Elements
<1>6. ASSUME NoRepeats(list)
      PROVE  NoRepeats(Tail(list)) /\ Head(list) \notin Elements(Tail(list))
  <2>1. \A i, j \in 1 .. Len(list) - 1 : list[i + 1] = list[j + 1] => i + 1 = j + 1
    BY <1>1, <1>3, <1>6 DEF NoRepeats
  <2>2. \A i, j \in 1 .. Len(list) - 1 : i + 1 = j + 1 => i = j
    BY <1>1
  <2>3. NoRepeats(Tail(list))
    BY <1>1, <2>1, <2>2 DEF NoRepeats
  <2>4. \A i \in 1 .. Len(list) - 1 : list[i + 1] # list[1]
    BY <1>1, <1>3, <1>6 DEF NoRepeats
  <2> QED
    BY <1>1, <2>3, <2>4 DEF Elements
<1> QED
  BY <1>4, <1>5, <1>6

(* Completing a task leaves what the drain has taken as it is.             *)
LEMMA MovedHead ==
  ASSUME NEW S, NEW done \in Seq(S), NEW rest \in Seq(S), rest # <<>>
  PROVE  Append(done, Head(rest)) \o Tail(rest) = done \o rest
<1> DEFINE h == Head(rest)
           tail == Tail(rest)
<1>1. /\ h \in S /\ tail \in Seq(S) /\ Len(rest) \in Nat
      /\ Len(tail) = Len(rest) - 1 /\ h = rest[1]
      /\ \A i \in 1 .. Len(tail) : tail[i] = rest[i + 1]
  BY HeadTailProperties
<1> HIDE DEF h, tail
<1>2. <<h>> \in Seq(S) /\ Append(done, h) = done \o <<h>>
  BY <1>1
<1>3. /\ <<h>> \o tail \in Seq(S) /\ Len(<<h>> \o tail) = Len(rest)
      /\ \A i \in 1 .. Len(rest) : (<<h>> \o tail)[i] = IF i <= 1 THEN h ELSE tail[i - 1]
  <2>1. Len(<<h>>) = 1 /\ <<h>>[1] = h
    OBVIOUS
  <2>2. /\ <<h>> \o tail \in Seq(S)
        /\ Len(<<h>> \o tail) = Len(<<h>>) + Len(tail)
        /\ \A i \in 1 .. Len(<<h>>) + Len(tail) : (<<h>> \o tail)[i] =
             IF i <= Len(<<h>>) THEN <<h>>[i] ELSE tail[i - Len(<<h>>)]
    BY <1>1, <1>2, ConcatProperties
  <2>3. \A i \in 1 .. Len(rest) : i <= 1 => i = 1
    BY <1>1
  <2> QED
    BY <1>1, <2>1, <2>2, <2>3
<1>4. ASSUME NEW i \in 1 .. Len(rest) PROVE (<<h>> \o tail)[i] = rest[i]
  <2>1. CASE i = 1
    BY <1>1, <1>3, <2>1
  <2>2. CASE i > 1
    <3>1. i - 1 \in 1 .. Len(tail) /\ (i - 1) + 1 = i
      BY <1>1, <2>2
    <3> QED
      BY <1>1, <1>3, <2>2, <3>1
  <2> QED
    BY <1>1, <2>1, <2>2
<1>5. <<h>> \o tail = rest
  BY <1>3, <1>4, SeqEqual
<1>6. (done \o <<h>>) \o tail = done \o (<<h>> \o tail)
  BY <1>1, <1>2, ConcatAssociative, SMTT(30)
<1> QED
  BY <1>2, <1>5, <1>6 DEF h, tail

LEMMA EmptyList == Elements(<<>>) = {} /\ NoRepeats(<<>>)
BY DEF Elements, NoRepeats

(* An arrival keeps the order of those before it and comes after them.     *)
LEMMA PrecedesGrows ==
  ASSUME arrivals \in Seq(Tasks), NEW t \in Tasks, arrivals' = Append(arrivals, t)
  PROVE  /\ \A r, s : Precedes(arrivals, r, s) => Precedes(arrivals', r, s)
         /\ \A s \in Elements(arrivals) : Precedes(arrivals', s, t)
<1>1. /\ DOMAIN arrivals = 1 .. Len(arrivals) /\ Len(arrivals) \in Nat
      /\ DOMAIN arrivals' = 1 .. Len(arrivals) + 1
      /\ \A i \in 1 .. Len(arrivals) : arrivals'[i] = arrivals[i]
      /\ arrivals'[Len(arrivals) + 1] = t
  BY AppendProperties
<1>2. ASSUME NEW r, NEW s, Precedes(arrivals, r, s) PROVE Precedes(arrivals', r, s)
  <2>1. PICK i, j \in DOMAIN arrivals : i < j /\ arrivals[i] = r /\ arrivals[j] = s
    BY <1>2 DEF Precedes
  <2>2. i \in DOMAIN arrivals' /\ j \in DOMAIN arrivals' /\ arrivals'[i] = r /\ arrivals'[j] = s
    BY <1>1, <2>1
  <2> QED
    BY <2>1, <2>2 DEF Precedes
<1>3. ASSUME NEW s \in Elements(arrivals) PROVE Precedes(arrivals', s, t)
  <2>1. PICK i \in DOMAIN arrivals : arrivals[i] = s
    BY DEF Elements
  <2>2. /\ i \in DOMAIN arrivals' /\ arrivals'[i] = s /\ i < Len(arrivals) + 1
        /\ Len(arrivals) + 1 \in DOMAIN arrivals'
    BY <1>1, <2>1
  <2> QED
    BY <1>1, <2>2 DEF Precedes
<1> QED
  BY <1>2, <1>3

-----------------------------------------------------------------------------
(* Types.                                                                  *)
LEMMA TakenTypes ==
  ASSUME QueueTypeOK, NEW d \in Drains
  PROVE  /\ batch[d] \in Seq(Tasks) /\ completed[d] \in Seq(Tasks) /\ Taken(d) \in Seq(Tasks)
         /\ d \notin draining => Taken(d) = <<>>
<1>1. batch[d] \in Seq(Tasks) /\ completed[d] \in Seq(Tasks)
  BY DEF QueueTypeOK
<1>2. Taken(d) \in Seq(Tasks)
  BY <1>1, ConcatProperties DEF Taken
<1>3. d \notin draining => Taken(d) = <<>>
  BY ConcatEmptySeq, EmptySeq DEF Taken, QueueTypeOK
<1> QED
  BY <1>1, <1>2, <1>3

LEMMA ElementsType ==
  ASSUME NEW S, NEW list \in Seq(S)
  PROVE  Elements(list) \subseteq S
<1>1. DOMAIN list = 1 .. Len(list) /\ \A i \in 1 .. Len(list) : list[i] \in S
  BY ElementOfSeq
<1> QED
  BY <1>1 DEF Elements

LEMMA DrainTypes ==
  ASSUME QueueTypeOK, NEW d \in Drains, DrainStep(d) \/ DrainSync
  PROVE  QueueTypeOK'
<1>1. CASE StartDrain(d)
  <2>1. tasks' \in Seq(Tasks)
    BY <1>1, EmptySeq DEF StartDrain
  <2> QED
    BY <1>1, <2>1 DEF StartDrain, QueueTypeOK, Policies
<1>2. CASE Complete(d)
  <2>1. batch[d] \in Seq(Tasks) /\ completed[d] \in Seq(Tasks) /\ batch[d] # <<>> /\ d \in draining
    BY <1>2 DEF Complete, QueueTypeOK
  <2>2. Tail(batch[d]) \in Seq(Tasks) /\ Head(batch[d]) \in Tasks
    BY <2>1, HeadTailProperties
  <2>3. Append(completed[d], Head(batch[d])) \in Seq(Tasks)
    BY <2>1, <2>2, AppendProperties
  <2> QED
    BY <1>2, <2>1, <2>2, <2>3 DEF Complete, QueueTypeOK, Policies
<1>3. CASE ReturnDrain(d)
  <2>1. Elements(completed[d]) \subseteq Tasks
    BY TakenTypes, ElementsType
  <2>2. <<>> \in Seq(Tasks)
    BY EmptySeq
  <2> QED
    BY <1>3, <2>1, <2>2 DEF ReturnDrain, QueueTypeOK, Policies
<1>4. CASE DrainSync
  <2>1. Elements(tasks) \subseteq Tasks
    BY ElementsType DEF QueueTypeOK
  <2>2. <<>> \in Seq(Tasks)
    BY EmptySeq
  <2> QED
    BY <1>4, <2>1, <2>2 DEF DrainSync, QueueTypeOK, Policies
<1> QED
  BY <1>1, <1>2, <1>3, <1>4 DEF DrainStep

-----------------------------------------------------------------------------
(* The queue starts empty.                                                 *)
LEMMA InitQueueInv == QueueInit => QueueInv
<1> SUFFICES ASSUME QueueInit PROVE QueueInv
  OBVIOUS
<1>1. /\ tasks = <<>> /\ arrivals = <<>> /\ dropped = 0 /\ policy \in Policies
      /\ draining = {} /\ refused = {} /\ answered = {}
      /\ batch = [d \in Drains |-> <<>>] /\ completed = [d \in Drains |-> <<>>]
  BY DEF QueueInit
<1>2. <<>> \in Seq(Tasks) /\ Len(<<>>) = 0 /\ DOMAIN <<>> = {}
  BY EmptySeq
<1>3. QueueTypeOK
  BY <1>1, <1>2 DEF QueueTypeOK
<1>4. \A d \in Drains : Taken(d) = <<>>
  BY <1>1, <1>3, TakenTypes
<1>5. Held = {}
  BY <1>1, <1>4, EmptyList DEF Held
<1>6. WithinCapacity
  BY <1>1, <1>2 DEF WithinCapacity, IsBounded, Policies
<1>7. InOnePlace /\ Arrived
  BY <1>1, <1>4, <1>5, EmptyList DEF InOnePlace, Arrived
<1>8. Counted
  BY <1>1, <1>2, <1>5, FS_EmptySet DEF Counted
<1>9. TasksInOrder /\ BatchesInArrivalOrder
  BY <1>1, <1>2, <1>4 DEF TasksInOrder, BatchesInArrivalOrder
<1> QED
  BY <1>3, <1>6, <1>7, <1>8, <1>9 DEF QueueInv

(* A task that has not been offered is nowhere.                            *)
LEMMA NewTask ==
  ASSUME QueueInv, NEW t, ~Offered(t)
  PROVE  t \notin Elements(arrivals) \cup refused \cup Held \cup answered
BY DEF QueueInv, Arrived, Offered

LEMMA HeldIsFinite ==
  ASSUME QueueInv PROVE IsFiniteSet(Held \cup answered) /\ Held \cup answered \subseteq Tasks
<1>1. Elements(arrivals) \subseteq Tasks
  BY ElementsType DEF QueueInv, QueueTypeOK
<1>2. Held \cup answered \subseteq Tasks
  BY <1>1 DEF QueueInv, Arrived
<1> QED
  BY <1>2, QueueAssumption, FS_Subset

(* A task joins what has been kept of the queue.                           *)
LEMMA PushKeeps ==
  ASSUME QueueInv, NEW t \in Tasks, ~Offered(t), NEW list \in Seq(Tasks),
         Elements(list) \subseteq Elements(tasks), NoRepeats(list),
         \A i, j \in DOMAIN list : i < j => Precedes(arrivals, list[i], list[j]),
         IsBounded => Len(list) + 1 <= policy.max,
         Push(list, t), UNCHANGED <<policy, batch, completed, draining, answered>>,
         dropped' \in Nat,
         dropped' + Cardinality((Held \cup answered)') = Len(arrivals) + 1
  PROVE  QueueInv'
<1>1. QueueTypeOK /\ InOnePlace /\ Arrived /\ BatchesInArrivalOrder
  BY DEF QueueInv
<1>2. /\ tasks' = Append(list, t) /\ arrivals' = Append(arrivals, t) /\ refused' = refused
      /\ tasks \in Seq(Tasks) /\ arrivals \in Seq(Tasks)
  BY <1>1 DEF Push, QueueTypeOK
<1>3. /\ tasks' \in Seq(Tasks) /\ Len(tasks') = Len(list) + 1
      /\ DOMAIN tasks' = 1 .. Len(list) + 1 /\ DOMAIN list = 1 .. Len(list) /\ Len(list) \in Nat
      /\ \A i \in 1 .. Len(list) : tasks'[i] = list[i]
      /\ tasks'[Len(list) + 1] = t
      /\ arrivals' \in Seq(Tasks) /\ Len(arrivals') = Len(arrivals) + 1
  BY <1>2, AppendProperties
<1>4. t \notin Elements(arrivals) \cup refused \cup Held \cup answered
  BY NewTask
<1>5. t \notin Elements(tasks) /\ \A d \in Drains : t \notin Elements(Taken(d))
  BY <1>4 DEF Held
<1>6. /\ Elements(tasks') = Elements(list) \cup {t} /\ NoRepeats(tasks')
      /\ Elements(arrivals') = Elements(arrivals) \cup {t}
  BY <1>2, <1>5, AppendElements
<1>7. \A d : Taken(d)' = Taken(d)
  BY DEF Taken
<1>8. Held' \subseteq Held \cup {t}
  BY <1>6, <1>7 DEF Held
<1>9. QueueTypeOK'
  BY <1>1, <1>2, <1>3 DEF QueueTypeOK, Policies
<1>10. WithinCapacity'
  BY <1>3 DEF WithinCapacity, IsBounded
<1>11. InOnePlace'
  <2>1. \A d \in Drains :
          /\ NoRepeats(Taken(d)')
          /\ Elements(Taken(d)') \cap Elements(tasks') = {}
          /\ \A e \in Drains \ {d} : Elements(Taken(d)') \cap Elements(Taken(e)') = {}
    BY <1>1, <1>5, <1>6, <1>7 DEF InOnePlace
  <2>2. Held' \cap answered' = {}
    BY <1>1, <1>4, <1>8 DEF InOnePlace
  <2> QED
    BY <1>6, <2>1, <2>2 DEF InOnePlace
<1>12. Arrived'
  BY <1>1, <1>2, <1>4, <1>6, <1>8 DEF Arrived
<1>13. Counted'
  BY <1>3 DEF Counted
<1>14. /\ \A r, s : Precedes(arrivals, r, s) => Precedes(arrivals', r, s)
       /\ \A s \in Elements(arrivals) : Precedes(arrivals', s, t)
  BY <1>2, PrecedesGrows
<1>15. Held \subseteq Elements(arrivals)
  BY <1>1 DEF Arrived
<1>16. TasksInOrder'
  <2> SUFFICES ASSUME NEW i \in 1 .. Len(list) + 1, NEW j \in 1 .. Len(list) + 1, i < j
               PROVE  Precedes(arrivals', tasks'[i], tasks'[j])
    BY <1>3 DEF TasksInOrder
  <2>1. i \in 1 .. Len(list) /\ (j \in 1 .. Len(list) \/ j = Len(list) + 1)
    <3>1. Len(list) \in Nat
      BY <1>3
    <3> QED
      BY <3>1
  <2>2. CASE j \in 1 .. Len(list)
    BY <1>3, <1>14, <2>1, <2>2
  <2>3. CASE j = Len(list) + 1
    <3>1. list[i] \in Elements(arrivals)
      BY <1>3, <1>15, <2>1 DEF Elements, Held
    <3> QED
      BY <1>3, <1>14, <2>1, <2>3, <3>1
  <2> QED
    BY <2>1, <2>2, <2>3
<1>17. BatchesInArrivalOrder'
  <2> SUFFICES ASSUME NEW d \in Drains
               PROVE  /\ \A i, j \in DOMAIN Taken(d) : i < j => Precedes(arrivals', Taken(d)[i], Taken(d)[j])
                      /\ \A i \in DOMAIN Taken(d), k \in DOMAIN tasks' :
                           Precedes(arrivals', Taken(d)[i], tasks'[k])
    BY <1>7 DEF BatchesInArrivalOrder
  <2>1. \A i, j \in DOMAIN Taken(d) : i < j => Precedes(arrivals', Taken(d)[i], Taken(d)[j])
    BY <1>1, <1>14 DEF BatchesInArrivalOrder
  <2>2. ASSUME NEW i \in DOMAIN Taken(d), NEW k \in 1 .. Len(list) + 1
        PROVE  Precedes(arrivals', Taken(d)[i], tasks'[k])
    <3>1. CASE k = Len(list) + 1
      <4>1. Taken(d)[i] \in Elements(Taken(d)) /\ Elements(Taken(d)) \subseteq Held
        BY DEF Elements, Held
      <4> QED
        BY <1>3, <1>14, <1>15, <3>1, <4>1
    <3>2. CASE k \in 1 .. Len(list)
      <4>1. list[k] \in Elements(tasks)
        BY <1>3, <3>2 DEF Elements
      <4>2. PICK m \in DOMAIN tasks : tasks[m] = list[k]
        BY <4>1 DEF Elements
      <4>3. Precedes(arrivals, Taken(d)[i], list[k])
        BY <1>1, <4>2 DEF BatchesInArrivalOrder
      <4> QED
        BY <1>3, <1>14, <3>2, <4>3
    <3> QED
      BY <1>3, <3>1, <3>2
  <2> QED
    BY <1>3, <2>1, <2>2
<1> QED
  BY <1>9, <1>10, <1>11, <1>12, <1>13, <1>16, <1>17 DEF QueueInv

(* Full or not, a task that is offered finds a place or is refused.        *)
LEMMA RefuseKeeps ==
  ASSUME QueueInv, NEW t \in Tasks, ~Offered(t), Refuse(t),
         UNCHANGED <<policy, dropped, batch, completed, draining, answered>>
  PROVE  QueueInv'
<1>1. UNCHANGED <<tasks, arrivals>> /\ refused' = refused \cup {t}
  BY DEF Refuse
<1>2. \A d : Taken(d)' = Taken(d)
  BY DEF Taken
<1>3. Held' = Held
  BY <1>1, <1>2 DEF Held
<1>4. QueueTypeOK' /\ WithinCapacity'
  BY <1>1 DEF QueueInv, QueueTypeOK, WithinCapacity, IsBounded, Policies
<1>5. InOnePlace'
  BY <1>1, <1>2, <1>3 DEF QueueInv, InOnePlace
<1>6. Arrived' /\ Counted'
  BY <1>1, <1>3, NewTask DEF QueueInv, Arrived, Counted
<1>7. TasksInOrder'
  BY <1>1 DEF QueueInv, TasksInOrder
<1>8. BatchesInArrivalOrder'
  BY <1>1, <1>2 DEF QueueInv, BatchesInArrivalOrder
<1> QED
  BY <1>4, <1>5, <1>6, <1>7, <1>8 DEF QueueInv

LEMMA EnqueueKeeps ==
  ASSUME QueueInv, NEW t \in Tasks, Enqueue(t)
  PROVE  QueueInv'
<1>1. /\ QueueTypeOK /\ ~Offered(t) /\ tasks \in Seq(Tasks) /\ Len(tasks) \in Nat
      /\ policy.max \in Int /\ dropped \in Nat
      /\ UNCHANGED <<policy, batch, completed, draining, answered>>
  <2>1. QueueTypeOK /\ ~Offered(t) /\ UNCHANGED <<policy, batch, completed, draining, answered>>
    BY DEF QueueInv, Enqueue
  <2>2. tasks \in Seq(Tasks) /\ dropped \in Nat /\ policy.max \in MaxPendings
    BY <2>1 DEF QueueTypeOK, Policies
  <2>3. Len(tasks) \in Nat
    BY <2>2
  <2> QED
    BY <2>1, <2>2, <2>3, QueueAssumption
<1>2. t \notin Held \cup answered \cup Elements(arrivals)
  BY <1>1, NewTask
<1>3. \A d : Taken(d)' = Taken(d)
  BY <1>1 DEF Taken
<1>4. IsFiniteSet(Held \cup answered) /\ Cardinality(Held \cup answered) \in Nat
  BY HeldIsFinite, FS_CardinalityType
<1>5. PICK n \in Nat : n = Cardinality(Held \cup answered) /\ dropped + n = Len(arrivals)
  BY <1>4 DEF QueueInv, Counted
<1>6. CASE Push(tasks, t) /\ UNCHANGED dropped /\ ~AtCapacity(Len(tasks))
  <2>1. Elements(tasks') = Elements(tasks) \cup {t}
    BY <1>1, <1>6, AppendElements DEF Push
  <2>2. (Held \cup answered)' = (Held \cup answered) \cup {t}
    BY <1>1, <1>3, <2>1 DEF Held
  <2>3. Cardinality((Held \cup answered) \cup {t}) = n + 1
    BY <1>2, <1>4, <1>5, FS_AddElement
  <2>4. dropped' + Cardinality((Held \cup answered)') = Len(arrivals) + 1
    <3>1. dropped + (n + 1) = Len(arrivals) + 1
      BY <1>1, <1>5
    <3> QED
      BY <1>6, <2>2, <2>3, <3>1
  <2>5. IsBounded => Len(tasks) + 1 <= policy.max
    BY <1>1, <1>6 DEF AtCapacity
  <2>6. NoRepeats(tasks) /\ \A i, j \in DOMAIN tasks : i < j => Precedes(arrivals, tasks[i], tasks[j])
    BY DEF QueueInv, InOnePlace, TasksInOrder
  <2> QED
    BY <1>1, <1>6, <2>4, <2>5, <2>6, PushKeeps
<1>7. CASE Push(Tail(tasks), t) /\ dropped' = dropped + 1 /\ AtCapacity(Len(tasks)) /\ policy.max >= 1
  <2>1. Len(tasks) >= 1 /\ tasks # <<>>
    BY <1>1, <1>7, EmptySeq DEF AtCapacity
  <2> DEFINE rest == Tail(tasks)
             oldest == Head(tasks)
  <2>2. /\ rest \in Seq(Tasks) /\ Len(rest) = Len(tasks) - 1 /\ DOMAIN rest = 1 .. Len(tasks) - 1
        /\ \A i \in 1 .. Len(tasks) - 1 : rest[i] = tasks[i + 1]
        /\ DOMAIN tasks = 1 .. Len(tasks)
    BY <1>1, <2>1, HeadTailProperties
  <2>3. /\ Elements(tasks) = Elements(rest) \cup {oldest}
        /\ NoRepeats(rest) /\ oldest \notin Elements(rest)
    BY <1>1, <2>1, TailElements DEF QueueInv, InOnePlace
  <2> HIDE DEF rest, oldest
  <2>4. Elements(tasks') = Elements(rest) \cup {t}
    <3>1. tasks' = Append(rest, t)
      BY <1>7 DEF Push, rest
    <3> QED
      BY <2>2, <3>1, AppendElements
  <2>5. oldest \in Held /\ oldest \notin answered /\ \A d \in Drains : oldest \notin Elements(Taken(d))
    BY <2>3 DEF QueueInv, InOnePlace, Held
  <2> DEFINE kept == (Held \cup answered) \ {oldest}
  <2>6. (Held \cup answered)' = kept \cup {t}
    BY <1>1, <1>3, <2>3, <2>4, <2>5 DEF Held
  <2>7. IsFiniteSet(kept) /\ Cardinality(kept) = n - 1
    BY <1>4, <1>5, <2>5, FS_RemoveElement
  <2>8. Cardinality(kept \cup {t}) = (n - 1) + 1
    BY <1>2, <2>7, FS_AddElement
  <2>9. dropped' + Cardinality((Held \cup answered)') = Len(arrivals) + 1
    <3>1. (dropped + 1) + ((n - 1) + 1) = Len(arrivals) + 1
      BY <1>1, <1>5
    <3> QED
      BY <1>7, <2>6, <2>8, <3>1
  <2>10. IsBounded => Len(rest) + 1 <= policy.max
    BY <1>1, <2>2 DEF QueueInv, WithinCapacity
  <2>11. \A i, j \in DOMAIN rest : i < j => Precedes(arrivals, rest[i], rest[j])
    <3> SUFFICES ASSUME NEW i \in 1 .. Len(tasks) - 1, NEW j \in 1 .. Len(tasks) - 1, i < j
                 PROVE  Precedes(arrivals, rest[i], rest[j])
      BY <2>2
    <3>1. i + 1 \in DOMAIN tasks /\ j + 1 \in DOMAIN tasks /\ i + 1 < j + 1
      BY <1>1, <2>2
    <3> QED
      BY <2>2, <3>1 DEF QueueInv, TasksInOrder
  <2>12. dropped' \in Nat
    BY <1>1, <1>7
  <2>13. Push(rest, t) /\ Elements(rest) \subseteq Elements(tasks)
    BY <1>7, <2>3 DEF rest
  <2> QED
    BY <1>1, <2>2, <2>3, <2>9, <2>10, <2>11, <2>12, <2>13, PushKeeps
<1>8. CASE Refuse(t) /\ UNCHANGED dropped
  BY <1>1, <1>8, RefuseKeeps
<1> QED
  BY <1>6, <1>7, <1>8 DEF Enqueue, EnqueueFull

-----------------------------------------------------------------------------
(* A drain carries tasks on their way: what is taken from the queue, or    *)
(* handed over, is nowhere else.                                           *)
LEMMA StartKeeps ==
  ASSUME QueueInv, NEW d \in Drains, StartDrain(d)
  PROVE  QueueInv'
<1>1. /\ tasks' = <<>> /\ batch' = [batch EXCEPT ![d] = tasks] /\ d \notin draining
      /\ UNCHANGED <<policy, dropped, completed, arrivals, refused, answered>>
  BY DEF StartDrain
<1>2. QueueTypeOK /\ QueueTypeOK'
  BY DrainTypes DEF QueueInv, DrainStep
<1>3. tasks \in Seq(Tasks) /\ batch \in [Drains -> Seq(Tasks)] /\ completed[d] = <<>>
  BY <1>1, <1>2 DEF QueueTypeOK
<1>4. Taken(d)' = tasks
  BY <1>1, <1>3, ConcatEmptySeq DEF Taken
<1>5. \A e \in Drains \ {d} : Taken(e)' = Taken(e)
  BY <1>1, <1>3 DEF Taken
<1>6. Taken(d) = <<>> /\ Elements(Taken(d)) = {} /\ Elements(tasks') = {} /\ NoRepeats(tasks')
  BY <1>1, <1>2, TakenTypes, EmptyList
<1>7. Held' = Held
  BY <1>4, <1>5, <1>6 DEF Held
<1>8. InOnePlace'
  <2>1. Held' \cap answered' = {}
    BY <1>1, <1>7 DEF QueueInv, InOnePlace
  <2>2. \A c \in Drains : NoRepeats(Taken(c)') /\ Elements(Taken(c)') \cap Elements(tasks') = {}
    BY <1>4, <1>5, <1>6 DEF QueueInv, InOnePlace
  <2>3. \A c \in Drains : \A e \in Drains \ {c} : Elements(Taken(c)') \cap Elements(Taken(e)') = {}
    BY <1>4, <1>5 DEF QueueInv, InOnePlace
  <2> QED
    BY <1>6, <2>1, <2>2, <2>3 DEF InOnePlace
<1>9. Arrived' /\ Counted'
  BY <1>1, <1>7 DEF QueueInv, Arrived, Counted
<1>10. DOMAIN tasks' = {} /\ Len(tasks') = 0
  BY <1>1, EmptySeq
<1>11. WithinCapacity'
  BY <1>1, <1>2, <1>10 DEF WithinCapacity, IsBounded
<1>12. TasksInOrder'
  BY <1>10 DEF TasksInOrder
<1>13. BatchesInArrivalOrder'
  <2> SUFFICES ASSUME NEW e \in Drains
               PROVE  \A i, j \in DOMAIN Taken(e)' : i < j => Precedes(arrivals', Taken(e)'[i], Taken(e)'[j])
    BY <1>10 DEF BatchesInArrivalOrder
  <2>1. CASE e = d
    BY <1>1, <1>4, <2>1 DEF QueueInv, TasksInOrder
  <2>2. CASE e # d
    BY <1>1, <1>5, <2>2 DEF QueueInv, BatchesInArrivalOrder
  <2> QED
    BY <2>1, <2>2
<1> QED
  BY <1>2, <1>8, <1>9, <1>11, <1>12, <1>13 DEF QueueInv

LEMMA CompleteKeeps ==
  ASSUME QueueInv, NEW d \in Drains, Complete(d)
  PROVE  QueueInv'
<1>1. /\ batch[d] # <<>>
      /\ completed' = [completed EXCEPT ![d] = Append(completed[d], Head(batch[d]))]
      /\ batch' = [batch EXCEPT ![d] = Tail(batch[d])]
      /\ UNCHANGED <<policy, tasks, dropped, draining, arrivals, refused, answered>>
  BY DEF Complete
<1>2. QueueTypeOK /\ QueueTypeOK'
  BY DrainTypes DEF QueueInv, DrainStep
<1>3. /\ batch \in [Drains -> Seq(Tasks)] /\ completed \in [Drains -> Seq(Tasks)]
      /\ batch[d] \in Seq(Tasks) /\ completed[d] \in Seq(Tasks)
  BY <1>2 DEF QueueTypeOK
<1>4. Append(completed[d], Head(batch[d])) \o Tail(batch[d]) = completed[d] \o batch[d]
  BY <1>1, <1>3, MovedHead
<1>5. \A e \in Drains : Taken(e)' = Taken(e)
  BY <1>1, <1>3, <1>4 DEF Taken
<1>6. Held' = Held
  BY <1>1, <1>5 DEF Held
<1>7. InOnePlace'
  BY <1>1, <1>5, <1>6 DEF QueueInv, InOnePlace
<1>8. Arrived' /\ Counted' /\ WithinCapacity'
  BY <1>1, <1>6 DEF QueueInv, Arrived, Counted, WithinCapacity, IsBounded
<1>9. TasksInOrder'
  BY <1>1 DEF QueueInv, TasksInOrder
<1>10. BatchesInArrivalOrder'
  BY <1>1, <1>5 DEF QueueInv, BatchesInArrivalOrder
<1> QED
  BY <1>2, <1>7, <1>8, <1>9, <1>10 DEF QueueInv

LEMMA ReturnKeeps ==
  ASSUME QueueInv, NEW d \in Drains, ReturnDrain(d)
  PROVE  QueueInv'
<1>1. /\ batch[d] = <<>> /\ answered' = answered \cup Elements(completed[d])
      /\ completed' = [completed EXCEPT ![d] = <<>>]
      /\ UNCHANGED <<policy, tasks, dropped, batch, arrivals, refused>>
  BY DEF ReturnDrain
<1>2. QueueTypeOK /\ QueueTypeOK'
  BY DrainTypes DEF QueueInv, DrainStep
<1>3. completed \in [Drains -> Seq(Tasks)] /\ completed[d] \in Seq(Tasks) /\ <<>> \in Seq(Tasks)
  BY <1>2, EmptySeq DEF QueueTypeOK
<1>4. Taken(d) = completed[d] /\ Taken(d)' = <<>>
  BY <1>1, <1>3, ConcatEmptySeq DEF Taken
<1>5. \A e \in Drains \ {d} : Taken(e)' = Taken(e)
  BY <1>1, <1>3 DEF Taken
<1>6. Elements(Taken(d)') = {} /\ NoRepeats(Taken(d)') /\ DOMAIN Taken(d)' = {}
  BY <1>4, EmptyList, EmptySeq
<1>7. answered' = answered \cup Elements(Taken(d))
  BY <1>1, <1>4
<1>8. Held' = Held \ Elements(Taken(d))
  <2>1. \A e \in Drains \ {d} : Elements(Taken(e)) \cap Elements(Taken(d)) = {}
    BY DEF QueueInv, InOnePlace
  <2>2. Elements(Taken(d)) \cap Elements(tasks) = {}
    BY DEF QueueInv, InOnePlace
  <2> QED
    BY <1>1, <1>5, <1>6, <2>1, <2>2 DEF Held
<1>9. (Held \cup answered)' = Held \cup answered
  BY <1>7, <1>8 DEF Held
<1>10. InOnePlace'
  <2>1. Held' \cap answered' = {}
    BY <1>7, <1>8 DEF QueueInv, InOnePlace
  <2>2. NoRepeats(tasks')
    BY <1>1 DEF QueueInv, InOnePlace
  <2>3. \A c \in Drains : NoRepeats(Taken(c)') /\ Elements(Taken(c)') \cap Elements(tasks') = {}
    BY <1>1, <1>5, <1>6 DEF QueueInv, InOnePlace
  <2>4. \A c \in Drains : \A e \in Drains \ {c} : Elements(Taken(c)') \cap Elements(Taken(e)') = {}
    BY <1>5, <1>6 DEF QueueInv, InOnePlace
  <2> QED
    BY <2>1, <2>2, <2>3, <2>4 DEF InOnePlace
<1>11. Arrived' /\ Counted'
  BY <1>1, <1>9 DEF QueueInv, Arrived, Counted
<1>12. WithinCapacity' /\ TasksInOrder'
  BY <1>1 DEF QueueInv, WithinCapacity, IsBounded, TasksInOrder
<1>13. BatchesInArrivalOrder'
  BY <1>1, <1>5, <1>6 DEF QueueInv, BatchesInArrivalOrder
<1> QED
  BY <1>2, <1>10, <1>11, <1>12, <1>13 DEF QueueInv

LEMMA SyncKeeps ==
  ASSUME QueueInv, DrainSync
  PROVE  QueueInv'
<1>1. /\ tasks' = <<>> /\ answered' = answered \cup Elements(tasks)
      /\ UNCHANGED <<policy, dropped, batch, completed, draining, arrivals, refused>>
  BY DEF DrainSync
<1>2. QueueTypeOK'
  <2>1. QueueTypeOK /\ Elements(tasks) \subseteq Tasks /\ tasks' \in Seq(Tasks)
    BY <1>1, ElementsType, EmptySeq DEF QueueInv, QueueTypeOK
  <2> QED
    BY <1>1, <2>1 DEF QueueTypeOK, Policies
<1>3. \A e : Taken(e)' = Taken(e)
  BY <1>1 DEF Taken
<1>4. Elements(tasks') = {} /\ NoRepeats(tasks') /\ DOMAIN tasks' = {} /\ Len(tasks') = 0
  BY <1>1, EmptyList, EmptySeq
<1>5. Held' = Held \ Elements(tasks)
  <2>1. \A e \in Drains : Elements(Taken(e)) \cap Elements(tasks) = {}
    BY DEF QueueInv, InOnePlace
  <2> QED
    BY <1>3, <1>4, <2>1 DEF Held
<1>6. (Held \cup answered)' = Held \cup answered
  BY <1>1, <1>5 DEF Held
<1>7. InOnePlace'
  <2>1. Held' \cap answered' = {}
    BY <1>1, <1>5 DEF QueueInv, InOnePlace
  <2> QED
    BY <1>3, <1>4, <2>1 DEF QueueInv, InOnePlace
<1>8. Arrived' /\ Counted'
  BY <1>1, <1>6 DEF QueueInv, Arrived, Counted
<1>9. WithinCapacity'
  BY <1>1, <1>2, <1>4 DEF WithinCapacity, IsBounded
<1>10. TasksInOrder' /\ BatchesInArrivalOrder'
  BY <1>1, <1>3, <1>4 DEF QueueInv, TasksInOrder, BatchesInArrivalOrder
<1> QED
  BY <1>2, <1>7, <1>8, <1>9, <1>10 DEF QueueInv

LEMMA StutterKeeps == QueueInv /\ UNCHANGED queueVars => QueueInv'
<1> SUFFICES ASSUME QueueInv, UNCHANGED queueVars PROVE QueueInv'
  OBVIOUS
<1>1. UNCHANGED <<policy, tasks, dropped, batch, completed, draining, arrivals, refused, answered>>
  BY DEF queueVars
<1>2. \A e : Taken(e)' = Taken(e)
  BY <1>1 DEF Taken
<1>3. Held' = Held
  BY <1>1, <1>2 DEF Held
<1>4. QueueTypeOK'
  BY <1>1 DEF QueueInv, QueueTypeOK, Policies
<1>5. InOnePlace'
  BY <1>1, <1>2, <1>3 DEF QueueInv, InOnePlace
<1>6. Arrived' /\ Counted'
  BY <1>1, <1>3 DEF QueueInv, Arrived, Counted
<1>7. WithinCapacity' /\ TasksInOrder' /\ BatchesInArrivalOrder'
  BY <1>1, <1>2 DEF QueueInv, WithinCapacity, IsBounded, TasksInOrder, BatchesInArrivalOrder
<1> QED
  BY <1>4, <1>5, <1>6, <1>7 DEF QueueInv

LEMMA NextKeepsQueueInv == QueueInv /\ [QueueNext]_queueVars => QueueInv'
<1> SUFFICES ASSUME QueueInv, [QueueNext]_queueVars PROVE QueueInv'
  OBVIOUS
<1>1. CASE \E t \in Tasks : Enqueue(t)
  BY <1>1, EnqueueKeeps
<1>2. CASE \E d \in Drains : DrainStep(d)
  BY <1>2, StartKeeps, CompleteKeeps, ReturnKeeps DEF DrainStep
<1>3. CASE DrainSync
  BY <1>3, SyncKeeps
<1>4. CASE UNCHANGED queueVars
  BY <1>4, StutterKeeps
<1> QED
  BY <1>1, <1>2, <1>3, <1>4 DEF QueueNext

LEMMA QueueInvariant == QueueSpec => []QueueInv
<1> QED
  BY InitQueueInv, NextKeepsQueueInv, PTL DEF QueueSpec

-----------------------------------------------------------------------------
(* Policies, queue, batches and histories keep their types, and a drain    *)
(* that is not under way holds nothing.                                    *)
THEOREM QueueTypesTheorem == QueueSpec => []QueueTypeOK
<1>1. QueueInv => QueueTypeOK
  BY DEF QueueInv
<1> QED
  BY <1>1, QueueInvariant, PTL

(* Under either policy at its bound, the queue stays within it.            *)
THEOREM CapacityTheorem == QueueSpec => []WithinCapacity
<1>1. QueueInv => WithinCapacity
  BY DEF QueueInv
<1> QED
  BY <1>1, QueueInvariant, PTL

(* Whatever offers, drains and handlers do to each other, an accepted task *)
(* is in one place, and those that are nowhere are as many as were dropped.*)
THEOREM OnePlaceTheorem == QueueSpec => []NothingLostOrRepeated
<1>1. ASSUME QueueInv PROVE NothingLostOrRepeated
  <2>1. InOnePlace /\ Arrived /\ Counted /\ QueueTypeOK
    BY <1>1 DEF QueueInv
  <2>2. IsFiniteSet(Held \cup answered)
    BY <1>1, HeldIsFinite
  <2>3. IsFiniteSet(Held) /\ IsFiniteSet(answered)
    BY <2>2, FS_Subset
  <2>4. /\ Cardinality(Held) \in Nat /\ Cardinality(answered) \in Nat
        /\ Cardinality(Held \cap answered) = 0
    BY <2>1, <2>3, FS_CardinalityType, FS_EmptySet DEF InOnePlace
  <2>5. Cardinality(Held \cup answered) =
          Cardinality(Held) + Cardinality(answered) - Cardinality(Held \cap answered)
    BY <2>3, FS_Union
  <2>6. PICK h, a \in Nat : h = Cardinality(Held) /\ a = Cardinality(answered)
    BY <2>4
  <2>7. dropped \in Nat /\ dropped + (h + a - 0) = Len(arrivals)
    BY <2>1, <2>4, <2>5, <2>6 DEF Counted, QueueTypeOK
  <2>8. dropped + h + a = Len(arrivals)
    BY <2>7
  <2>9. dropped + Cardinality(Held) + Cardinality(answered) = Len(arrivals)
    BY <2>6, <2>8
  <2>10. refused \cap (Held \cup answered) = {}
    BY <2>1 DEF Arrived
  <2> QED
    BY <2>1, <2>9, <2>10 DEF NothingLostOrRepeated, InOnePlace, Held
<1> QED
  BY <1>1, QueueInvariant, PTL

(* Drains that run side by side keep the order of arrival: within a batch, *)
(* and between a batch and what still waits.                               *)
THEOREM ArrivalOrderTheorem == QueueSpec => []BatchesInArrivalOrder
<1>1. QueueInv => BatchesInArrivalOrder
  BY DEF QueueInv
<1> QED
  BY <1>1, QueueInvariant, PTL

(* What is dropped for a newer task arrived before all that stay, whatever *)
(* drains took in the meantime.                                            *)
OldestGoesFirst ==
  [][dropped' > dropped =>
       \A gone \in Elements(tasks) \ Elements(tasks'),
          kept \in Elements(tasks) \cap Elements(tasks') : Precedes(arrivals, gone, kept)
    ]_queueVars

(* What a full queue drops for a newer task is the oldest that waits.      *)
THEOREM OldestTheorem == QueueSpec => OldestGoesFirst
<1>1. ASSUME QueueInv, [QueueNext]_queueVars, dropped' > dropped,
             NEW gone \in Elements(tasks) \ Elements(tasks'),
             NEW kept \in Elements(tasks) \cap Elements(tasks')
      PROVE  Precedes(arrivals, gone, kept)
  <2>1. dropped \in Nat /\ tasks \in Seq(Tasks)
    BY <1>1 DEF QueueInv, QueueTypeOK
  <2>2. dropped' # dropped
    BY <1>1, <2>1
  <2>3. PICK t \in Tasks : Push(Tail(tasks), t) /\ policy.max >= 1 /\ AtCapacity(Len(tasks))
    BY <1>1, <2>2 DEF QueueNext, DrainStep, StartDrain, Complete, ReturnDrain, DrainSync,
                      Enqueue, EnqueueFull, queueVars
  <2>4. tasks # <<>>
    BY <1>1, EmptyList
  <2>5. Tail(tasks) \in Seq(Tasks) /\ tasks' = Append(Tail(tasks), t)
    BY <2>1, <2>3, <2>4, HeadTailProperties DEF Push
  <2>6. Elements(tasks') = Elements(Tail(tasks)) \cup {t}
    <3>1. Elements(Append(Tail(tasks), t)) = Elements(Tail(tasks)) \cup {t}
      BY <2>3, <2>5, OneMoreElement
    <3> QED
      BY <2>5, <3>1
  <2>7. Elements(tasks) = Elements(Tail(tasks)) \cup {Head(tasks)}
    BY <2>1, <2>4, TailElements
  <2>8. gone = Head(tasks) /\ kept # gone
    BY <1>1, <2>6, <2>7
  <2>9. Head(tasks) = tasks[1] /\ DOMAIN tasks = 1 .. Len(tasks) /\ Len(tasks) \in Nat /\ Len(tasks) >= 1
    BY <2>1, <2>4, HeadTailProperties
  <2>10. PICK k \in 1 .. Len(tasks) : tasks[k] = kept
    BY <1>1, <2>9 DEF Elements
  <2>11. k # 1 /\ 1 \in DOMAIN tasks /\ 1 < k
    BY <2>8, <2>9, <2>10
  <2> QED
    BY <1>1, <2>8, <2>9, <2>10, <2>11 DEF QueueInv, TasksInOrder
<1>2. QueueInv /\ [QueueNext]_queueVars =>
        [dropped' > dropped =>
           \A gone \in Elements(tasks) \ Elements(tasks'),
              kept \in Elements(tasks) \cap Elements(tasks') : Precedes(arrivals, gone, kept)]_queueVars
  BY <1>1
<1> QED
  BY <1>2, QueueInvariant, PTL DEF QueueSpec, OldestGoesFirst

-----------------------------------------------------------------------------
(* The ledger.  The fate of a task goes by the sets it may be in.          *)
InHand == UNION {Elements(Taken(d)) : d \in Drains}

LEMMA FateIs ==
  ASSUME NEW t
  PROVE  FateOf(t) = IF t \in refused THEN "refused"
                     ELSE IF t \notin Elements(arrivals) THEN "new"
                     ELSE IF t \in Elements(tasks) THEN "waiting"
                     ELSE IF t \in answered THEN "answered"
                     ELSE IF t \in InHand THEN "taken"
                     ELSE "dropped"
<1>1. t \in InHand <=> \E d \in Drains : t \in Elements(Taken(d))
  BY DEF InHand
<1> QED
  BY <1>1 DEF FateOf

(* Where the tasks of the ledger are: in one of five sets.                 *)
LEMMA FatesApart ==
  ASSUME QueueInv
  PROVE  /\ Elements(tasks) \cap InHand = {} /\ Elements(tasks) \cap answered = {}
         /\ InHand \cap answered = {} /\ refused \cap Elements(arrivals) = {}
         /\ Elements(tasks) \cup InHand \cup answered \subseteq Elements(arrivals)
         /\ Elements(tasks) \subseteq Tasks
<1>1. InOnePlace /\ Arrived /\ QueueTypeOK /\ Held = Elements(tasks) \cup InHand
  BY DEF QueueInv, Held, InHand
<1>2. Elements(tasks) \cap InHand = {}
  BY <1>1 DEF InOnePlace, InHand
<1>3. Elements(tasks) \subseteq Tasks
  BY <1>1, ElementsType DEF QueueTypeOK
<1> QED
  BY <1>1, <1>2, <1>3 DEF InOnePlace, Arrived

LEMMA FateWillBe ==
  ASSUME NEW t
  PROVE  FateOf(t)' = IF t \in refused' THEN "refused"
                      ELSE IF t \notin Elements(arrivals') THEN "new"
                      ELSE IF t \in Elements(tasks') THEN "waiting"
                      ELSE IF t \in answered' THEN "answered"
                      ELSE IF t \in InHand' THEN "taken"
                      ELSE "dropped"
<1>1. t \in InHand' <=> \E d \in Drains : t \in Elements(Taken(d)')
  BY DEF InHand
<1> QED
  BY <1>1 DEF FateOf

(* An offer is accepted, replaces the oldest task, or is refused.          *)
LEMMA OfferIsDecided ==
  ASSUME QueueInv, NEW t \in Tasks, Enqueue(t)
  PROVE  Ledger!LedgerNext
<1>1. /\ ~Offered(t) /\ UNCHANGED <<batch, completed, answered>>
      /\ tasks \in Seq(Tasks) /\ arrivals \in Seq(Tasks)
  BY DEF Enqueue, QueueInv, QueueTypeOK
<1>2. InHand' = InHand
  BY <1>1 DEF InHand, Taken
<1>3. t \notin Elements(arrivals) \cup refused \cup Elements(tasks) \cup answered \cup InHand
  BY <1>1, FatesApart DEF Offered
<1>4. FateOf(t) = "new"
  BY <1>3, FateIs
<1>5. CASE Push(tasks, t)
  <2>1. /\ Elements(tasks') = Elements(tasks) \cup {t} /\ refused' = refused
        /\ Elements(arrivals') = Elements(arrivals) \cup {t} /\ tasks' = Append(tasks, t)
    BY <1>1, <1>5, AppendElements DEF Push
  <2>2. \A s \in Tasks : FateOf(s)' = IF s = t THEN "waiting" ELSE FateOf(s)
    BY <1>1, <1>2, <1>3, <2>1, FateIs, FateWillBe
  <2>3. Ledger!AcceptCall(t)
    BY <1>4, <2>1, <2>2 DEF Ledger!AcceptCall, Ledger!Decide
  <2> QED
    BY <2>3 DEF Ledger!LedgerNext
<1>6. CASE Refuse(t)
  <2>1. refused' = refused \cup {t} /\ tasks' = tasks /\ arrivals' = arrivals
    BY <1>6 DEF Refuse
  <2>2. \A s \in Tasks : FateOf(s)' = IF s = t THEN "refused" ELSE FateOf(s)
    BY <1>1, <1>2, <1>3, <2>1, FateIs, FateWillBe
  <2>3. Ledger!RefuseCall(t)
    BY <1>4, <2>1, <2>2 DEF Ledger!RefuseCall, Ledger!Decide
  <2> QED
    BY <2>3 DEF Ledger!LedgerNext
<1>7. CASE Push(Tail(tasks), t) /\ policy.max >= 1 /\ AtCapacity(Len(tasks))
  <2>1. policy.max \in Int /\ Len(tasks) \in Nat
    <3>1. policy \in Policies
      BY DEF QueueInv, QueueTypeOK
    <3>2. policy.max \in MaxPendings
      BY <3>1 DEF Policies
    <3>3. Len(tasks) \in Nat
      BY <1>1
    <3> QED
      BY <3>2, <3>3, QueueAssumption
  <2>2. tasks # <<>>
    BY <1>7, <2>1, EmptySeq DEF AtCapacity
  <2> DEFINE rest == Tail(tasks)
  <2>3. PICK oldest \in Tasks : oldest = Head(tasks)
    BY <1>1, <2>2, HeadTailProperties
  <2>4. /\ rest \in Seq(Tasks)
        /\ Elements(tasks) = Elements(rest) \cup {oldest} /\ oldest \notin Elements(rest)
    BY <1>1, <2>2, <2>3, HeadTailProperties, TailElements DEF QueueInv, InOnePlace
  <2> HIDE DEF rest
  <2>5. tasks' = Append(rest, t) /\ refused' = refused /\ arrivals' = Append(arrivals, t)
    BY <1>7 DEF Push, rest
  <2>6. /\ Elements(tasks') = (Elements(tasks) \ {oldest}) \cup {t}
        /\ Elements(arrivals') = Elements(arrivals) \cup {t}
    BY <1>1, <2>3, <2>4, <2>5, AppendElements
  <2>7. /\ oldest \in Elements(tasks) /\ oldest \notin InHand \cup answered \cup refused
        /\ oldest \in Elements(arrivals) /\ oldest # t
    BY <1>3, <2>4, FatesApart
  <2>8. \A s \in Tasks : FateOf(s)' = IF s = oldest THEN "dropped"
                                      ELSE IF s = t THEN "waiting" ELSE FateOf(s)
    <3>1. FateOf(oldest)' = "dropped"
      <4>1. oldest \notin refused' \cup Elements(tasks') \cup answered' \cup InHand'
            /\ oldest \in Elements(arrivals')
        BY <1>1, <1>2, <2>5, <2>6, <2>7
      <4> QED
        BY <4>1, FateWillBe
    <3>2. FateOf(t)' = "waiting"
      <4>1. t \in Elements(arrivals') /\ t \in Elements(tasks') /\ t \notin refused'
        BY <1>3, <2>5, <2>6
      <4> QED
        BY <4>1, FateWillBe
    <3>3. ASSUME NEW s \in Tasks \ {oldest, t} PROVE FateOf(s)' = FateOf(s)
      <4>1. /\ s \in Elements(tasks') <=> s \in Elements(tasks)
            /\ s \in Elements(arrivals') <=> s \in Elements(arrivals)
        BY <2>6
      <4> QED
        BY <1>1, <1>2, <2>5, <4>1, FateIs, FateWillBe
    <3> QED
      BY <2>7, <3>1, <3>2, <3>3
  <2>9. Ledger!ReplaceOldest(t)
    BY <1>4, <2>2, <2>3, <2>5, <2>7, <2>8 DEF Ledger!ReplaceOldest, rest
  <2> QED
    BY <2>9 DEF Ledger!LedgerNext
<1> QED
  BY <1>5, <1>6, <1>7 DEF Enqueue, EnqueueFull

(* A drain takes all that waits.                                           *)
LEMMA StartTakesAll ==
  ASSUME QueueInv, NEW d \in Drains, StartDrain(d)
  PROVE  Ledger!LedgerNext
<1>1. /\ tasks' = <<>> /\ batch' = [batch EXCEPT ![d] = tasks] /\ d \notin draining
      /\ UNCHANGED <<completed, arrivals, refused, answered>>
  BY DEF StartDrain
<1>2. QueueTypeOK /\ tasks \in Seq(Tasks) /\ batch \in [Drains -> Seq(Tasks)] /\ completed[d] = <<>>
  BY <1>1 DEF QueueInv, QueueTypeOK
<1>3. Taken(d)' = tasks /\ \A e \in Drains \ {d} : Taken(e)' = Taken(e)
  BY <1>1, <1>2, ConcatEmptySeq DEF Taken
<1>4. Elements(Taken(d)) = {} /\ Elements(tasks') = {}
  BY <1>1, <1>2, TakenTypes, EmptyList
<1>5. InHand' = InHand \cup Elements(tasks)
  BY <1>3, <1>4 DEF InHand
<1>6. \A s \in Tasks : FateOf(s)' = IF s \in Elements(tasks) THEN "taken" ELSE FateOf(s)
  BY <1>1, <1>4, <1>5, FatesApart, FateIs, FateWillBe
<1>7. Ledger!Waits = Elements(tasks)
  BY DEF Ledger!Waits, Elements
<1>8. Ledger!TakeAll("taken")
  BY <1>1, <1>6, <1>7 DEF Ledger!TakeAll, Ledger!Decide
<1> QED
  BY <1>8 DEF Ledger!LedgerNext

(* What a drain returns is answered.                                       *)
LEMMA ReturnAnswers ==
  ASSUME QueueInv, NEW d \in Drains, ReturnDrain(d)
  PROVE  Ledger!LedgerNext
<1> DEFINE mine == Elements(Taken(d))
<1>1. /\ batch[d] = <<>> /\ answered' = answered \cup Elements(completed[d])
      /\ completed' = [completed EXCEPT ![d] = <<>>]
      /\ UNCHANGED <<tasks, batch, arrivals, refused>>
  BY DEF ReturnDrain
<1>2. completed \in [Drains -> Seq(Tasks)] /\ completed[d] \in Seq(Tasks) /\ <<>> \in Seq(Tasks)
      /\ QueueTypeOK
  BY EmptySeq DEF QueueInv, QueueTypeOK
<1>3. Taken(d) = completed[d] /\ Taken(d)' = <<>>
  BY <1>1, <1>2, ConcatEmptySeq DEF Taken
<1>4. \A e \in Drains \ {d} : Taken(e)' = Taken(e) /\ Elements(Taken(e)) \cap mine = {}
  BY <1>1, <1>2 DEF Taken, QueueInv, InOnePlace
<1>5. InHand' = InHand \ mine /\ mine \subseteq InHand /\ answered' = answered \cup mine
  BY <1>1, <1>3, <1>4, EmptyList DEF InHand
<1>6. mine \subseteq Tasks
  BY <1>2, <1>3, ElementsType
<1> HIDE DEF mine
<1>7. \A s \in Tasks : FateOf(s)' = IF s \in mine THEN "answered" ELSE FateOf(s)
  BY <1>1, <1>5, FatesApart, FateIs, FateWillBe
<1>8. \A s \in mine : FateOf(s) = "taken"
  BY <1>5, FatesApart, FateIs
<1>9. Ledger!AnswerCalls(mine)
  BY <1>1, <1>6, <1>7, <1>8 DEF Ledger!AnswerCalls, Ledger!Decide
<1> QED
  BY <1>6, <1>9 DEF Ledger!LedgerNext

LEMMA SyncTakesAndAnswers ==
  ASSUME QueueInv, DrainSync
  PROVE  Ledger!LedgerNext
<1>1. /\ tasks' = <<>> /\ answered' = answered \cup Elements(tasks)
      /\ UNCHANGED <<batch, completed, arrivals, refused>>
  BY DEF DrainSync
<1>2. InHand' = InHand /\ Elements(tasks') = {}
  BY <1>1, EmptyList DEF InHand, Taken
<1>3. \A s \in Tasks : FateOf(s)' = IF s \in Elements(tasks) THEN "answered" ELSE FateOf(s)
  BY <1>1, <1>2, FatesApart, FateIs, FateWillBe
<1>4. Ledger!Waits = Elements(tasks)
  BY DEF Ledger!Waits, Elements
<1>5. Ledger!TakeAll("answered")
  BY <1>1, <1>3, <1>4 DEF Ledger!TakeAll, Ledger!Decide
<1> QED
  BY <1>5 DEF Ledger!LedgerNext

(* A handler that finishes shows nothing of it: its answer goes out with   *)
(* the rest of the batch.                                                  *)
LEMMA CompleteShowsNothing ==
  ASSUME QueueInv, (\E d \in Drains : Complete(d)) \/ UNCHANGED queueVars
  PROVE  UNCHANGED Ledger!ledgerVars
<1>1. /\ UNCHANGED <<tasks, arrivals, refused, answered>>
      /\ \A e \in Drains : Taken(e)' = Taken(e)
  <2>1. ASSUME NEW d \in Drains, Complete(d)
        PROVE  /\ UNCHANGED <<tasks, arrivals, refused, answered>>
               /\ \A e \in Drains : Taken(e)' = Taken(e)
    <3>1. /\ batch[d] # <<>> /\ batch[d] \in Seq(Tasks) /\ completed[d] \in Seq(Tasks)
          /\ batch \in [Drains -> Seq(Tasks)] /\ completed \in [Drains -> Seq(Tasks)]
          /\ completed' = [completed EXCEPT ![d] = Append(completed[d], Head(batch[d]))]
          /\ batch' = [batch EXCEPT ![d] = Tail(batch[d])]
          /\ UNCHANGED <<tasks, arrivals, refused, answered>>
      BY <2>1 DEF Complete, QueueInv, QueueTypeOK
    <3>2. Append(completed[d], Head(batch[d])) \o Tail(batch[d]) = completed[d] \o batch[d]
      BY <3>1, MovedHead
    <3> QED
      BY <3>1, <3>2 DEF Taken
  <2>2. CASE UNCHANGED queueVars
    BY <2>2 DEF queueVars, Taken
  <2> QED
    BY <2>1, <2>2
<1>2. InHand' = InHand
  BY <1>1 DEF InHand
<1>3. \A s \in Tasks : FateOf(s)' = FateOf(s)
  BY <1>1, <1>2, FateIs, FateWillBe
<1> QED
  BY <1>1, <1>3 DEF Ledger!ledgerVars

LEMMA InitIsLedgerInit == QueueInit => Ledger!LedgerInit
<1> SUFFICES ASSUME QueueInit PROVE Ledger!LedgerInit
  OBVIOUS
<1>1. tasks = <<>> /\ arrivals = <<>> /\ refused = {}
  BY DEF QueueInit
<1>2. \A t \in Tasks : FateOf(t) = "new"
  <2>1. Elements(arrivals) = {}
    BY <1>1, EmptyList
  <2>2. \A t \in Tasks : t \notin refused /\ t \notin Elements(arrivals) \cup refused
    BY <1>1, <2>1
  <2> QED
    BY <2>2, FateIs
<1> QED
  BY <1>1, <1>2 DEF Ledger!LedgerInit

LEMMA StepIsLedgerStep ==
  QueueInv /\ [QueueNext]_queueVars => [Ledger!LedgerNext]_Ledger!ledgerVars
BY OfferIsDecided, StartTakesAll, ReturnAnswers, SyncTakesAndAnswers, CompleteShowsNothing
   DEF QueueNext, DrainStep

(* Under every policy, with any number of tasks and drains, the queue      *)
(* keeps the ledger: each task is decided about once, only the oldest one  *)
(* that waits is ever dropped, and what a drain took is answered by it.    *)
THEOREM LedgerTheorem == QueueSpec => ImplementsLedger
<1> QED
  BY InitQueueInv, NextKeepsQueueInv, InitIsLedgerInit, StepIsLedgerStep, PTL
     DEF QueueSpec, ImplementsLedger, Ledger!LedgerSpec

=============================================================================
