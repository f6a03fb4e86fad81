----------------------------- MODULE BridgeQueue -----------------------------
(***************************************************************************)
(* The work queue between the message callback of a native loop and the    *)
(* drains that complete the calls it deferred (NativeBridgeWorkQueue in    *)
(* runtime/bridge_transport.mbt, with backpressure.mbt).  A drain takes    *)
(* the whole queue and then completes its batch task by task, waiting for  *)
(* each handler; the queue takes new tasks, and other drains start, in     *)
(* between.  drain_sync does the same without waiting.                     *)
(***************************************************************************)
EXTENDS Integers, Sequences, FiniteSets

CONSTANTS
  Tasks,        (* calls of asynchronous routes                             *)
  Drains,       (* the drain calls that can be under way at one time        *)
  MaxPendings   (* max_pending of the policies: negative for no bound       *)

ASSUME QueueAssumption ==
  /\ MaxPendings \subseteq Int
  /\ IsFiniteSet(Tasks)

VARIABLES
  policy,     (* policy: the bound, and what happens at it                  *)
  tasks,      (* tasks: the queue                                           *)
  dropped,    (* dropped_count                                              *)
  batch,      (* drain -> the tasks it took and has still to complete       *)
  completed,  (* drain -> the completions it will return                    *)
  draining,   (* the drains under way                                       *)
  arrivals,   (* history: the accepted tasks, in order                      *)
  refused,    (* history: the tasks that were not accepted                  *)
  answered    (* history: the tasks whose completion was returned           *)

queueVars == <<policy, tasks, dropped, batch, completed, draining, arrivals, refused, answered>>

Policies == [max: MaxPendings, overflow: {"RejectNew", "DropOldest"}]

Elements(list) == {list[i] : i \in DOMAIN list}

QueueInit ==
  /\ policy \in Policies
  /\ tasks = <<>>
  /\ dropped = 0
  /\ batch = [d \in Drains |-> <<>>]
  /\ completed = [d \in Drains |-> <<>>]
  /\ draining = {}
  /\ arrivals = <<>>
  /\ refused = {}
  /\ answered = {}

-----------------------------------------------------------------------------
IsBounded == policy.max >= 0

(* Broken: the bound is passed by one.                                     *)
BrokenAtCapacity(pending) == IsBounded /\ pending > policy.max

AtCapacity(pending) == IsBounded /\ pending >= policy.max

Offered(t) == t \in Elements(arrivals) \cup refused

Push(list, t) ==
  /\ tasks' = Append(list, t)
  /\ arrivals' = Append(arrivals, t)
  /\ UNCHANGED refused

Refuse(t) ==
  /\ refused' = refused \cup {t}
  /\ UNCHANGED <<tasks, arrivals>>

(* Broken: the newest task is dropped.                                     *)
BrokenEnqueueFull(t) ==
  IF policy.overflow = "DropOldest" /\ policy.max >= 1
  THEN /\ Push(SubSeq(tasks, 1, Len(tasks) - 1), t)
       /\ dropped' = dropped + 1
  ELSE Refuse(t) /\ UNCHANGED dropped

(* A full queue refuses the task, or drops its oldest one for it when it   *)
(* can hold a task at all.                                                 *)
EnqueueFull(t) ==
  IF policy.overflow = "DropOldest" /\ policy.max >= 1
  THEN /\ Push(Tail(tasks), t)
       /\ dropped' = dropped + 1
  ELSE Refuse(t) /\ UNCHANGED dropped

(* enqueue_task and enqueue_handoff *)
Enqueue(t) ==
  /\ ~Offered(t)
  /\ IF AtCapacity(Len(tasks)) THEN EnqueueFull(t)
     ELSE Push(tasks, t) /\ UNCHANGED dropped
  /\ UNCHANGED <<policy, batch, completed, draining, answered>>

(* Broken: the queue is copied and not cleared.                            *)
BrokenStartDrain(d) ==
  /\ d \notin draining
  /\ draining' = draining \cup {d}
  /\ batch' = [batch EXCEPT ![d] = tasks]
  /\ UNCHANGED <<policy, tasks, dropped, completed, arrivals, refused, answered>>

(* drain: the queue is copied and cleared before the first wait.           *)
StartDrain(d) ==
  /\ d \notin draining
  /\ draining' = draining \cup {d}
  /\ batch' = [batch EXCEPT ![d] = tasks]
  /\ tasks' = <<>>
  /\ UNCHANGED <<policy, dropped, completed, arrivals, refused, answered>>

(* Broken: the batch is completed from its end.                            *)
BrokenComplete(d) ==
  /\ batch[d] # <<>>
  /\ completed' = [completed EXCEPT ![d] = Append(@, batch[d][Len(batch[d])])]
  /\ batch' = [batch EXCEPT ![d] = SubSeq(@, 1, Len(@) - 1)]
  /\ UNCHANGED <<policy, tasks, dropped, draining, arrivals, refused, answered>>

(* Broken: a task is put back when its handler fails, and they all fail.   *)
BrokenCompleteRetry(d) ==
  /\ batch[d] # <<>>
  /\ batch' = [batch EXCEPT ![d] = Append(Tail(@), Head(@))]
  /\ UNCHANGED <<policy, tasks, dropped, completed, draining, arrivals, refused, answered>>

(* The handler of the batch's next task has finished.                      *)
Complete(d) ==
  /\ batch[d] # <<>>
  /\ completed' = [completed EXCEPT ![d] = Append(@, Head(batch[d]))]
  /\ batch' = [batch EXCEPT ![d] = Tail(@)]
  /\ UNCHANGED <<policy, tasks, dropped, draining, arrivals, refused, answered>>

(* Broken: a drain returns without waiting for its last task.              *)
BrokenReturnDrain(d) ==
  /\ d \in draining
  /\ Len(batch[d]) <= 1
  /\ draining' = draining \ {d}
  /\ answered' = answered \cup Elements(completed[d])
  /\ completed' = [completed EXCEPT ![d] = <<>>]
  /\ UNCHANGED <<policy, tasks, dropped, batch, arrivals, refused>>

ReturnDrain(d) ==
  /\ d \in draining
  /\ batch[d] = <<>>
  /\ draining' = draining \ {d}
  /\ answered' = answered \cup Elements(completed[d])
  /\ completed' = [completed EXCEPT ![d] = <<>>]
  /\ UNCHANGED <<policy, tasks, dropped, batch, arrivals, refused>>

(* drain_sync: taken, completed and returned in one go.                    *)
DrainSync ==
  /\ answered' = answered \cup Elements(tasks)
  /\ tasks' = <<>>
  /\ UNCHANGED <<policy, dropped, batch, completed, draining, arrivals, refused>>

DrainStep(d) == StartDrain(d) \/ Complete(d) \/ ReturnDrain(d)

QueueNext ==
  \/ \E t \in Tasks : Enqueue(t)
  \/ \E d \in Drains : DrainStep(d)
  \/ DrainSync

(* The handlers of a drain that was started return.  Nobody has to start   *)
(* one: the loops of GTK and AppKit never do (AsyncCallsAnswered of        *)
(* NativeLoop), and offers need not come.                                  *)
QueueSpec ==
  /\ QueueInit
  /\ [][QueueNext]_queueVars
  /\ \A d \in Drains : WF_queueVars(Complete(d) \/ ReturnDrain(d))

-----------------------------------------------------------------------------
(* The type invariant: a drain that is not under way holds nothing.        *)
QueueTypeOK ==
  /\ policy \in Policies
  /\ tasks \in Seq(Tasks)
  /\ dropped \in Nat
  /\ batch \in [Drains -> Seq(Tasks)]
  /\ completed \in [Drains -> Seq(Tasks)]
  /\ draining \subseteq Drains
  /\ arrivals \in Seq(Tasks)
  /\ refused \subseteq Tasks
  /\ answered \subseteq Tasks
  /\ \A d \in Drains \ draining : batch[d] = <<>> /\ completed[d] = <<>>

(* A bounded queue never holds more than its bound.                        *)
WithinCapacity == IsBounded => Len(tasks) <= policy.max

Taken(d) == completed[d] \o batch[d]

NoRepeats(list) == \A i, j \in DOMAIN list : list[i] = list[j] => i = j

(* Offers, drains and handlers interleave in any order, and still a task   *)
(* that was accepted is in exactly one place: it waits, or one drain has   *)
(* it, or it was answered; those that are nowhere are the dropped_count.   *)
NothingLostOrRepeated ==
  LET held == Elements(tasks) \cup UNION {Elements(Taken(d)) : d \in Drains}
  IN  /\ NoRepeats(tasks)
      /\ \A d \in Drains :
           /\ NoRepeats(Taken(d))
           /\ Elements(Taken(d)) \cap Elements(tasks) = {}
           /\ \A e \in Drains \ {d} : Elements(Taken(d)) \cap Elements(Taken(e)) = {}
      /\ held \cap answered = {}
      /\ refused \cap (held \cup answered) = {}
      /\ dropped + Cardinality(held) + Cardinality(answered) = Len(arrivals)

Precedes(list, s, t) == \E i, j \in DOMAIN list : i < j /\ list[i] = s /\ list[j] = t

(* A drain completes its tasks in the order they arrived, and any task it  *)
(* took arrived before every task that still waits.                        *)
BatchesInArrivalOrder ==
  \A d \in Drains :
    LET mine == Taken(d)
    IN  /\ \A i, j \in DOMAIN mine : i < j => Precedes(arrivals, mine[i], mine[j])
        /\ \A i \in DOMAIN mine, k \in DOMAIN tasks : Precedes(arrivals, mine[i], tasks[k])

(* The queue keeps the ledger of CallLedger.                               *)
FateOf(t) ==
  IF t \in refused THEN "refused"
  ELSE IF t \notin Elements(arrivals) THEN "new"
  ELSE IF t \in Elements(tasks) THEN "waiting"
  ELSE IF t \in answered THEN "answered"
  ELSE IF \E d \in Drains : t \in Elements(Taken(d)) THEN "taken"
  ELSE "dropped"

Ledger == INSTANCE CallLedger WITH
  Calls <- Tasks,
  fate <- [t \in Tasks |-> FateOf(t)],
  waiting <- tasks

(* Every behaviour of the queue is one of the ledger: what a full queue    *)
(* drops for a newer task is the oldest one that waits, whatever drains    *)
(* took in the meantime; what a drain took is answered and never waits, is *)
(* dropped or taken again; and no task is decided about twice.             *)
ImplementsLedger == Ledger!LedgerSpec

(* What a drain took is answered in the end, and not only completed: no    *)
(* offer, later drain or full queue takes it away, puts it back or keeps   *)
(* the drain from returning.  A task that waits may wait for good, for     *)
(* nothing in the queue starts a drain.                                    *)
TakenTasksEnd ==
  \A t \in Tasks, d \in Drains : t \in Elements(Taken(d)) ~> t \in answered

=============================================================================
