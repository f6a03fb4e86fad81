-------------------------- MODULE ServiceRun_proofs --------------------------
(***************************************************************************)
(* What holds of the service processes for every set of plans and every    *)
(* size of the table.  The invariant says where a process that still runs  *)
(* is to be found; the last part, about the time before the handlers are   *)
(* installed, is there for the signals.                                    *)
(***************************************************************************)
EXTENDS ServiceRun, FiniteSetTheorems, SequenceTheorems, TLAPS

(* A process in hand is the only one.                                      *)
OneInHand == \E p : hand \subseteq {p}

(* Until the first start has succeeded nothing is in the table, but for    *)
(* the process of the start that is about to succeed.                      *)
BareBeforeHandlers ==
  ~handlers =>
    \/ DOMAIN table = {}
    \/ call = "tracked" /\ \E name : DOMAIN table = {name}

(* What a signal leaves behind.                                            *)
KilledLeavesHand ==
  phase = "killed" /\ handlers => Running \subseteq hand

ServiceInv ==
  /\ ServiceTypeOK
  /\ NothingRunsUnseen
  /\ OneInHand
  /\ BareBeforeHandlers
  /\ KilledLeavesHand
  /\ NoServiceOutlivesTheRun

(* The action lists are lists of actions.                                  *)
LEMMA ActionLists ==
  ASSUME NEW names \in Seq(Names)
  PROVE  /\ Startup(names) \in Seq(Actions)
         /\ Shutdown(names) \in Seq(Actions)
<1>1. Len(names) \in Nat /\ names \in [1 .. Len(names) -> Names]
  OBVIOUS
<1>2. \A i \in 1 .. 2 * Len(names) : (i + 1) \div 2 \in 1 .. Len(names)
  BY <1>1
<1>3. Startup(names) \in [1 .. 2 * Len(names) -> Actions]
  BY <1>1, <1>2 DEF Startup, Actions
<1>4. \A i \in 1 .. Len(names) : Len(names) + 1 - i \in 1 .. Len(names)
  BY <1>1
<1>5. Shutdown(names) \in [1 .. Len(names) -> Actions]
  BY <1>1, <1>4 DEF Shutdown, Actions
<1> QED
  BY <1>1, <1>3, <1>5

(* A run starts with nothing running and nothing tracked.                  *)
LEMMA InitServiceInv == ServiceInit => ServiceInv
<1> SUFFICES ASSUME ServiceInit PROVE ServiceInv
  OBVIOUS
<1> USE DEF ServiceInit
<1>1. todo \in Seq(Actions)
  BY ActionLists, ServiceAssumption
<1>2. DOMAIN table = {} /\ DOMAIN procs = {}
  OBVIOUS
<1>3. table \in [DOMAIN table -> DOMAIN procs]
  BY <1>2
<1>4. ServiceTypeOK
  <2>1. procs \in Seq([name: Names, state: {"running", "told", "gone"}])
    BY EmptySeq
  <2>2. DOMAIN table \subseteq Names /\ hand \subseteq DOMAIN procs
    BY <1>2
  <2> QED
    BY <1>1, <1>3, <2>1, <2>2 DEF ServiceTypeOK
<1>5. OneInHand /\ BareBeforeHandlers /\ KilledLeavesHand
  BY <1>2 DEF OneInHand, BareBeforeHandlers, KilledLeavesHand
<1>6. NothingRunsUnseen /\ NoServiceOutlivesTheRun
  BY <1>2 DEF NothingRunsUnseen, NoServiceOutlivesTheRun, Running
<1> QED
  BY <1>4, <1>5, <1>6 DEF ServiceInv

(* SIGTERM changes states only, and leaves the processes that it was not   *)
(* sent to as they were.                                                   *)
LEMMA TerminateFacts ==
  ASSUME ServiceTypeOK, NEW pids, Terminate(pids)
  PROVE  /\ procs' \in Seq([name: Names, state: {"running", "told", "gone"}])
         /\ DOMAIN procs' = DOMAIN procs
         /\ Len(procs') = Len(procs)
         /\ Running' = Running \ pids
<1> DEFINE P == [name: Names, state: {"running", "told", "gone"}]
<1>1. procs \in Seq(P) /\ Len(procs) \in Nat /\ DOMAIN procs = 1 .. Len(procs)
  BY DEF ServiceTypeOK
<1> HIDE DEF P
<1>2. \A p \in DOMAIN procs : procs[p] \in P
  BY <1>1, ElementOfSeq
<1>3. \A p \in DOMAIN procs : [procs[p] EXCEPT !.state = "told"] \in P
  BY <1>2 DEF P
<1>4. procs' \in [1 .. Len(procs) -> P]
  BY <1>1, <1>2, <1>3 DEF Terminate
<1>5. procs' \in Seq(P) /\ DOMAIN procs' = DOMAIN procs /\ Len(procs') = Len(procs)
  BY <1>1, <1>4
<1>6. \A p \in DOMAIN procs :
        procs'[p].state = "running" <=> procs[p].state = "running" /\ p \notin pids
  BY <1>2 DEF P, Terminate, Running
<1> QED
  BY <1>5, <1>6 DEF P, Running

(* The rest of an action list, and a Boolean failure.                      *)
LEMMA ReportTypes ==
  ASSUME ServiceTypeOK, todo # <<>>, NEW ok \in BOOLEAN, Report(ok)
  PROVE  todo' \in Seq(Actions) /\ failed' \in BOOLEAN
BY HeadTailProperties DEF ServiceTypeOK, Report

(* Steps of the runner that touch no process and no slot.                  *)
LEMMA QuietStep ==
  ASSUME ServiceInv,
         UNCHANGED <<plan, procs, table, hand, handlers>>,
         todo' \in Seq(Actions), failed' \in BOOLEAN,
         call = "none", call' = "none",
         phase' \in {"starting", "stopping", "looping", "closing"}
  PROVE  ServiceInv'
<1> USE DEF ServiceInv
<1>1. ServiceTypeOK'
  BY DEF ServiceTypeOK
<1>2. NothingRunsUnseen' /\ OneInHand' /\ BareBeforeHandlers'
  BY DEF NothingRunsUnseen, OneInHand, BareBeforeHandlers, Running, Tracked
<1>3. KilledLeavesHand' /\ NoServiceOutlivesTheRun'
  BY DEF KilledLeavesHand, NoServiceOutlivesTheRun
<1> QED
  BY <1>1, <1>2, <1>3

(* posix_spawnp: the new process is in hand.                               *)
LEMMA SpawnKeepsInv == ServiceInv /\ Spawn => ServiceInv'
<1> SUFFICES ASSUME ServiceInv, Spawn PROVE ServiceInv'
  OBVIOUS
<1> DEFINE P == [name: Names, state: {"running", "told", "gone"}]
           new == [name |-> Head(todo).name, state |-> "running"]
<1>1. ServiceTypeOK /\ hand = {} /\ call = "none" /\ todo # <<>>
      /\ phase \in {"starting", "stopping", "closing"}
  BY DEF ServiceInv, ServiceTypeOK, Spawn, Doing
<1>2. Head(todo) \in Actions
  BY <1>1, HeadTailProperties DEF ServiceTypeOK
<1>3. new \in P
  BY <1>2 DEF Actions
<1> HIDE DEF P, new
<1>4. procs \in Seq(P) /\ Len(procs) \in Nat /\ DOMAIN procs = 1 .. Len(procs)
  BY <1>1 DEF ServiceTypeOK, P
<1>5. procs' = Append(procs, new)
  BY DEF Spawn, new
<1>6. /\ procs' \in Seq(P) /\ Len(procs') = Len(procs) + 1
      /\ DOMAIN procs' = DOMAIN procs \cup {Len(procs) + 1}
      /\ \A p \in DOMAIN procs : procs'[p] = procs[p]
  BY <1>3, <1>4, <1>5, AppendProperties
<1>7. hand' = {Len(procs')} /\ call' = "spawned"
      /\ UNCHANGED <<plan, phase, todo, failed, table, handlers>>
  BY <1>6 DEF Spawn
<1>8. ServiceTypeOK'
  BY <1>1, <1>4, <1>6, <1>7 DEF ServiceTypeOK, P
<1>9. NothingRunsUnseen'
  BY <1>1, <1>6, <1>7 DEF ServiceInv, NothingRunsUnseen, Running, Tracked
<1>10. OneInHand' /\ BareBeforeHandlers'
  BY <1>1, <1>7 DEF ServiceInv, OneInHand, BareBeforeHandlers
<1>11. KilledLeavesHand' /\ NoServiceOutlivesTheRun'
  BY <1>1, <1>7 DEF KilledLeavesHand, NoServiceOutlivesTheRun
<1> QED
  BY <1>8, <1>9, <1>10, <1>11 DEF ServiceInv

(* track_service: from the hand into the table, in the place of the        *)
(* process of its name if there is one.                                    *)
LEMMA TrackKeepsInv == ServiceInv /\ Track => ServiceInv'
<1> SUFFICES ASSUME ServiceInv, Track PROVE ServiceInv'
  OBVIOUS
<1> DEFINE name == Head(todo).name
<1>1. /\ ServiceTypeOK /\ call = "spawned" /\ todo # <<>>
      /\ phase \notin {"killed", "exited"}
      /\ hand = {Len(procs)} /\ Len(procs) \in DOMAIN procs
  BY DEF ServiceInv, ServiceTypeOK, Track
<1>2. name \in Names
  <2>1. todo \in Seq(Actions)
    BY <1>1 DEF ServiceTypeOK
  <2>2. Head(todo) \in Actions
    BY <1>1, <2>1, HeadTailProperties
  <2> QED
    BY <2>2 DEF Actions
<1>3. call' = "tracked" /\ hand' = {} /\ UNCHANGED <<plan, phase, todo, failed, handlers>>
  BY DEF Track
<1>4. Running \subseteq Tracked \cup {Len(procs)}
  BY <1>1 DEF ServiceInv, NothingRunsUnseen
<1>5. /\ procs' \in Seq([name: Names, state: {"running", "told", "gone"}])
      /\ DOMAIN procs' = DOMAIN procs
      /\ DOMAIN table' = DOMAIN table \cup {name}
      /\ table' \in [DOMAIN table' -> DOMAIN procs]
      /\ Running' \subseteq Tracked'
  <2>1. CASE TrackAgain(name)
    <3>1. table' = [table EXCEPT ![name] = Len(procs)] /\ name \in DOMAIN table
          /\ table \in [DOMAIN table -> DOMAIN procs]
      BY <1>1, <2>1 DEF TrackAgain, ServiceTypeOK
    <3>2. /\ procs' \in Seq([name: Names, state: {"running", "told", "gone"}])
          /\ DOMAIN procs' = DOMAIN procs
          /\ Running' = Running \ {table[name]}
      BY <1>1, <2>1, TerminateFacts DEF TrackAgain
    <3>3. Tracked \ {table[name]} \subseteq Tracked' /\ Len(procs) \in Tracked'
      BY <3>1 DEF Tracked
    <3> QED
      BY <1>1, <1>4, <3>1, <3>2, <3>3
  <2>2. CASE TrackNew(name)
    <3>1. table' = [other \in DOMAIN table \cup {name} |->
                      IF other = name THEN Len(procs) ELSE table[other]]
          /\ name \notin DOMAIN table /\ UNCHANGED procs
          /\ table \in [DOMAIN table -> DOMAIN procs]
      BY <1>1, <2>2 DEF TrackNew, ServiceTypeOK
    <3>2. Tracked' = Tracked \cup {Len(procs)}
      BY <3>1 DEF Tracked
    <3>3. Running' = Running
      BY <3>1 DEF Running
    <3> QED
      BY <1>1, <1>4, <3>1, <3>2, <3>3 DEF ServiceTypeOK
  <2> QED
    BY <2>1, <2>2 DEF Track
<1>6. ServiceTypeOK'
  BY <1>1, <1>2, <1>3, <1>5 DEF ServiceTypeOK
<1>7. NothingRunsUnseen' /\ OneInHand'
  BY <1>3, <1>5 DEF NothingRunsUnseen, OneInHand
<1>8. BareBeforeHandlers'
  <2> SUFFICES ASSUME ~handlers' PROVE \E other : DOMAIN table' = {other}
    BY <1>3 DEF BareBeforeHandlers
  <2>1. DOMAIN table = {}
    BY <1>1, <1>3 DEF ServiceInv, BareBeforeHandlers
  <2> QED
    BY <1>5, <2>1
<1>9. KilledLeavesHand' /\ NoServiceOutlivesTheRun'
  BY <1>1, <1>3 DEF KilledLeavesHand, NoServiceOutlivesTheRun
<1> QED
  BY <1>6, <1>7, <1>8, <1>9 DEF ServiceInv

(* The end of a native call that has terminated the process in hand.       *)
LEMMA CallEnds ==
  ASSUME ServiceInv, Terminate(hand), hand' = {}, call' = "none",
         UNCHANGED <<plan, phase, table, handlers>>,
         call \in {"spawned", "untracked"}, phase # "killed",
         NEW ok \in BOOLEAN, Report(ok)
  PROVE  ServiceInv'
<1>1. ServiceTypeOK /\ todo # <<>> /\ phase \notin {"looping", "exited", "killed"}
  BY DEF ServiceInv, ServiceTypeOK
<1>2. /\ procs' \in Seq([name: Names, state: {"running", "told", "gone"}])
      /\ DOMAIN procs' = DOMAIN procs
      /\ Running' = Running \ hand
  BY <1>1, TerminateFacts
<1>3. todo' \in Seq(Actions) /\ failed' \in BOOLEAN
  BY <1>1, ReportTypes
<1>4. ServiceTypeOK'
  BY <1>1, <1>2, <1>3 DEF ServiceTypeOK
<1>5. Tracked' = Tracked
  BY DEF Tracked
<1>6. NothingRunsUnseen'
  BY <1>2, <1>5 DEF ServiceInv, NothingRunsUnseen
<1>7. OneInHand' /\ BareBeforeHandlers' /\ KilledLeavesHand' /\ NoServiceOutlivesTheRun'
  BY <1>1 DEF ServiceInv, OneInHand, BareBeforeHandlers, KilledLeavesHand,
              NoServiceOutlivesTheRun
<1> QED
  BY <1>4, <1>6, <1>7 DEF ServiceInv

(* A successful start ends with the handlers in place.                     *)
LEMMA InstallKeepsInv == ServiceInv /\ Install => ServiceInv'
<1> SUFFICES ASSUME ServiceInv, Install PROVE ServiceInv'
  OBVIOUS
<1>1. ServiceTypeOK /\ todo # <<>> /\ phase \notin {"looping", "exited", "killed"}
      /\ call = "tracked" /\ hand = {}
  BY DEF ServiceInv, ServiceTypeOK, Install
<1>2. todo' \in Seq(Actions) /\ failed' \in BOOLEAN
  BY <1>1, ReportTypes DEF Install
<1>3. call' = "none" /\ handlers' = TRUE /\ UNCHANGED <<plan, phase, hand, procs, table>>
  BY DEF Install
<1>4. ServiceTypeOK'
  BY <1>1, <1>2, <1>3 DEF ServiceTypeOK
<1>5. NothingRunsUnseen' /\ OneInHand'
  BY <1>3 DEF ServiceInv, NothingRunsUnseen, OneInHand, Running, Tracked
<1>6. BareBeforeHandlers' /\ KilledLeavesHand' /\ NoServiceOutlivesTheRun'
  BY <1>1, <1>3 DEF BareBeforeHandlers, KilledLeavesHand, NoServiceOutlivesTheRun
<1> QED
  BY <1>4, <1>5, <1>6 DEF ServiceInv

(* stop_service, first half: from the table into the hand.                 *)
LEMMA UntrackKeepsInv == ServiceInv /\ Untrack => ServiceInv'
<1> SUFFICES ASSUME ServiceInv, Untrack PROVE ServiceInv'
  OBVIOUS
<1> DEFINE name == Head(todo).name
<1>1. /\ ServiceTypeOK /\ hand = {} /\ call = "none" /\ todo # <<>>
      /\ phase \in {"starting", "stopping", "closing"} /\ name \in DOMAIN table
      /\ table \in [DOMAIN table -> DOMAIN procs]
  BY DEF ServiceInv, ServiceTypeOK, Untrack, Doing
<1>2. /\ hand' = {table[name]} /\ call' = "untracked"
      /\ table' = [other \in DOMAIN table \ {name} |-> table[other]]
      /\ UNCHANGED <<plan, phase, todo, failed, procs, handlers>>
  BY DEF Untrack
<1>3. /\ DOMAIN table' = DOMAIN table \ {name}
      /\ table' \in [DOMAIN table' -> DOMAIN procs]
      /\ table[name] \in DOMAIN procs
  BY <1>1, <1>2
<1>4. ServiceTypeOK'
  BY <1>1, <1>2, <1>3 DEF ServiceTypeOK
<1>5. Tracked \subseteq Tracked' \cup hand'
  BY <1>2, <1>3 DEF Tracked
<1>6. NothingRunsUnseen'
  BY <1>1, <1>2, <1>5 DEF ServiceInv, NothingRunsUnseen, Running
<1>7. OneInHand' /\ KilledLeavesHand' /\ NoServiceOutlivesTheRun'
  BY <1>1, <1>2 DEF OneInHand, KilledLeavesHand, NoServiceOutlivesTheRun
<1>8. BareBeforeHandlers'
  BY <1>1, <1>2 DEF ServiceInv, BareBeforeHandlers
<1> QED
  BY <1>4, <1>6, <1>7, <1>8 DEF ServiceInv

(* Everything in the table is terminated and the table is emptied.         *)
LEMMA EmptiedTable ==
  ASSUME ServiceInv, call = "none",
         Terminate(Tracked), table' = [name \in {} |-> 0],
         UNCHANGED <<plan, call, hand, handlers>>,
         phase' \in {"closing", "exited"},
         todo' \in Seq(Actions), failed' \in BOOLEAN
  PROVE  ServiceInv'
<1>1. ServiceTypeOK /\ hand = {}
  BY DEF ServiceInv, ServiceTypeOK
<1>2. /\ procs' \in Seq([name: Names, state: {"running", "told", "gone"}])
      /\ DOMAIN procs' = DOMAIN procs
      /\ Running' = Running \ Tracked
  BY <1>1, TerminateFacts
<1>3. Running' = {}
  BY <1>1, <1>2 DEF ServiceInv, NothingRunsUnseen
<1>4. DOMAIN table' = {} /\ table' \in [DOMAIN table' -> DOMAIN procs']
  OBVIOUS
<1>5. ServiceTypeOK'
  BY <1>1, <1>2, <1>4 DEF ServiceTypeOK
<1>6. NothingRunsUnseen' /\ KilledLeavesHand' /\ NoServiceOutlivesTheRun'
  BY <1>3 DEF NothingRunsUnseen, KilledLeavesHand, NoServiceOutlivesTheRun
<1>7. OneInHand' /\ BareBeforeHandlers'
  BY <1>4 DEF ServiceInv, OneInHand, BareBeforeHandlers
<1> QED
  BY <1>5, <1>6, <1>7 DEF ServiceInv

(* The last window.                                                        *)
LEMMA LastWindowKeepsInv == ServiceInv /\ LastWindowCloses => ServiceInv'
<1> SUFFICES ASSUME ServiceInv, LastWindowCloses PROVE ServiceInv'
  OBVIOUS
<1>1. call = "none" /\ plan \in Seq(Names)
  BY ServiceAssumption DEF ServiceInv, ServiceTypeOK, LastWindowCloses
<1>2. todo' \in Seq(Actions)
  BY <1>1, ActionLists DEF LastWindowCloses
<1> QED
  BY <1>1, <1>2, EmptiedTable DEF LastWindowCloses

(* The end of the program: without handlers nothing was left to clean up.  *)
LEMMA ExitKeepsInv == ServiceInv /\ ProgramExits => ServiceInv'
<1> SUFFICES ASSUME ServiceInv, ProgramExits PROVE ServiceInv'
  OBVIOUS
<1>1. /\ ServiceTypeOK /\ call = "none" /\ hand = {} /\ phase' = "exited"
      /\ todo \in Seq(Actions) /\ failed \in BOOLEAN
      /\ UNCHANGED <<plan, todo, call, hand, failed, handlers>>
  BY DEF ServiceInv, ServiceTypeOK, ProgramExits, ActionsDone
<1>2. CASE handlers
  BY <1>1, <1>2, EmptiedTable DEF ProgramExits
<1>3. CASE ~handlers
  <2>1. UNCHANGED <<procs, table>>
    BY <1>3 DEF ProgramExits
  <2>2. DOMAIN table = {}
    BY <1>1, <1>3 DEF ServiceInv, BareBeforeHandlers
  <2>3. Running = {}
    BY <1>1, <2>2 DEF ServiceInv, NothingRunsUnseen, Tracked
  <2>4. Running' = {} /\ DOMAIN table' = {}
    BY <2>1, <2>2, <2>3 DEF Running
  <2>5. ServiceTypeOK'
    BY <1>1, <2>1 DEF ServiceTypeOK
  <2>6. NothingRunsUnseen' /\ KilledLeavesHand' /\ NoServiceOutlivesTheRun'
    BY <2>4 DEF NothingRunsUnseen, KilledLeavesHand, NoServiceOutlivesTheRun
  <2>7. OneInHand' /\ BareBeforeHandlers'
    BY <1>1, <2>4 DEF ServiceInv, OneInHand, BareBeforeHandlers
  <2> QED
    BY <2>5, <2>6, <2>7 DEF ServiceInv
<1> QED
  BY <1>2, <1>3, <1>1 DEF ServiceTypeOK

(* A terminating signal.                                                   *)
LEMMA SignalKeepsInv == ServiceInv /\ Signal => ServiceInv'
<1> SUFFICES ASSUME ServiceInv, Signal PROVE ServiceInv'
  OBVIOUS
<1>1. ServiceTypeOK /\ phase' = "killed"
      /\ UNCHANGED <<plan, todo, call, hand, failed, table, handlers>>
  BY DEF ServiceInv, Signal
<1>2. /\ procs' \in Seq([name: Names, state: {"running", "told", "gone"}])
      /\ DOMAIN procs' = DOMAIN procs
      /\ Len(procs') = Len(procs)
      /\ Running' = IF handlers THEN Running \ Tracked ELSE Running
  BY <1>1, TerminateFacts DEF Signal, ServiceTypeOK, Running
<1>3. ServiceTypeOK'
  BY <1>1, <1>2 DEF ServiceTypeOK
<1>4. Tracked' = Tracked
  BY <1>1 DEF Tracked
<1>5. NothingRunsUnseen' /\ KilledLeavesHand'
  BY <1>1, <1>2, <1>4 DEF ServiceInv, NothingRunsUnseen, KilledLeavesHand
<1>6. OneInHand' /\ BareBeforeHandlers' /\ NoServiceOutlivesTheRun'
  BY <1>1 DEF ServiceInv, OneInHand, BareBeforeHandlers, NoServiceOutlivesTheRun
<1> QED
  BY <1>3, <1>5, <1>6 DEF ServiceInv

(* A service that exits by itself.                                         *)
LEMMA ServiceExitKeepsInv ==
  ASSUME ServiceInv, NEW p, ServiceExits(p)
  PROVE  ServiceInv'
<1> DEFINE P == [name: Names, state: {"running", "told", "gone"}]
<1>1. /\ ServiceTypeOK /\ p \in Running
      /\ UNCHANGED <<plan, phase, todo, call, hand, failed, table, handlers>>
  BY DEF ServiceInv, ServiceExits
<1> HIDE DEF P
<1>2. procs \in Seq(P) /\ Len(procs) \in Nat /\ DOMAIN procs = 1 .. Len(procs)
  BY <1>1 DEF ServiceTypeOK, P
<1>3. \A q \in DOMAIN procs : procs[q] \in P
  BY <1>2, ElementOfSeq
<1>4. p \in DOMAIN procs
  BY <1>1 DEF Running
<1>5. [procs[p] EXCEPT !.state = "gone"] \in P
  BY <1>3, <1>4 DEF P
<1>6. procs' = [procs EXCEPT ![p] = [procs[p] EXCEPT !.state = "gone"]]
  BY DEF ServiceExits
<1>7. procs' \in [1 .. Len(procs) -> P]
  BY <1>2, <1>3, <1>5, <1>6
<1>8. procs' \in Seq(P) /\ DOMAIN procs' = DOMAIN procs /\ Len(procs') = Len(procs)
  BY <1>2, <1>7
<1>9. Running' \subseteq Running
  BY <1>4, <1>5, <1>6, <1>8, <1>1 DEF Running
<1>10. ServiceTypeOK'
  BY <1>1, <1>8 DEF ServiceTypeOK, P
<1>11. Tracked' = Tracked
  BY <1>1 DEF Tracked
<1>12. NothingRunsUnseen' /\ KilledLeavesHand' /\ NoServiceOutlivesTheRun'
  BY <1>1, <1>9, <1>11 DEF ServiceInv, NothingRunsUnseen, KilledLeavesHand,
                           NoServiceOutlivesTheRun
<1>13. OneInHand' /\ BareBeforeHandlers'
  BY <1>1 DEF ServiceInv, OneInHand, BareBeforeHandlers
<1> QED
  BY <1>10, <1>12, <1>13 DEF ServiceInv

(* The steps that touch no process: they report, or change the phase.      *)
LEMMA QuietSteps ==
  ServiceInv /\ (SpawnFails \/ WaitReady \/ StopSkipped \/ StartupDone \/ LoopUnavailable)
    => ServiceInv'
<1> SUFFICES ASSUME ServiceInv,
                    SpawnFails \/ WaitReady \/ StopSkipped \/ StartupDone \/ LoopUnavailable
             PROVE  ServiceInv'
  OBVIOUS
<1>1. ServiceTypeOK /\ failed \in BOOLEAN /\ todo \in Seq(Actions) /\ plan \in Seq(Names)
  BY ServiceAssumption DEF ServiceInv, ServiceTypeOK
<1>2. Shutdown(plan) \in Seq(Actions)
  BY <1>1, ActionLists
<1>3. CASE SpawnFails
  BY <1>1, <1>3, ReportTypes, QuietStep DEF SpawnFails, Doing
<1>4. CASE WaitReady
  BY <1>1, <1>4, ReportTypes, QuietStep DEF WaitReady, Doing
<1>5. CASE StopSkipped
  BY <1>1, <1>5, ReportTypes, QuietStep DEF StopSkipped, Doing
<1>6. CASE StartupDone
  BY <1>1, <1>2, <1>6, QuietStep DEF StartupDone, ActionsDone
<1>7. CASE LoopUnavailable
  BY <1>1, <1>2, <1>7, QuietStep DEF LoopUnavailable, ServiceTypeOK
<1> QED
  BY <1>3, <1>4, <1>5, <1>6, <1>7

(* No step leads out of the invariant.                                     *)
LEMMA NextKeepsServiceInv == ServiceInv /\ [ServiceNext]_serviceVars => ServiceInv'
<1> SUFFICES ASSUME ServiceInv, [ServiceNext]_serviceVars PROVE ServiceInv'
  OBVIOUS
<1>1. CASE TrackFails
  BY <1>1, CallEnds DEF TrackFails
<1>2. CASE KillUntracked
  BY <1>2, CallEnds DEF KillUntracked
<1>3. CASE \E p \in DOMAIN procs : ServiceExits(p)
  BY <1>3, ServiceExitKeepsInv
<1>4. CASE UNCHANGED serviceVars
  <2>1. ServiceTypeOK'
    BY <1>4 DEF serviceVars, ServiceInv, ServiceTypeOK
  <2>2. Running' = Running /\ Tracked' = Tracked
    BY <1>4 DEF serviceVars, Running, Tracked
  <2>3. NothingRunsUnseen' /\ KilledLeavesHand' /\ NoServiceOutlivesTheRun'
    BY <1>4, <2>2 DEF serviceVars, ServiceInv, NothingRunsUnseen, KilledLeavesHand,
                      NoServiceOutlivesTheRun
  <2>4. OneInHand' /\ BareBeforeHandlers'
    BY <1>4 DEF serviceVars, ServiceInv, OneInHand, BareBeforeHandlers
  <2> QED
    BY <2>1, <2>3, <2>4 DEF ServiceInv
<1> QED
  BY <1>1, <1>2, <1>3, <1>4, QuietSteps, SpawnKeepsInv, TrackKeepsInv,
     InstallKeepsInv, UntrackKeepsInv, LastWindowKeepsInv, ExitKeepsInv,
     SignalKeepsInv
     DEF ServiceNext, RunnerStep

(* The invariant holds throughout every run.                               *)
LEMMA ServiceInvariant == ServiceSpec => []ServiceInv
BY InitServiceInv, NextKeepsServiceInv, PTL DEF ServiceSpec

(* The type invariant of the service run: above all, which native call     *)
(* has which process in hand.                                              *)
THEOREM ServiceTypes == ServiceSpec => []ServiceTypeOK
BY ServiceInvariant, PTL DEF ServiceInv

(* Whatever the plan and the size of the table, a running service is       *)
(* either in the table or in the hand of the native call under way.        *)
THEOREM NothingUnseen == ServiceSpec => []NothingRunsUnseen
BY ServiceInvariant, PTL DEF ServiceInv

(* A program that ends by itself leaves no service running.                *)
THEOREM NoneOutlives == ServiceSpec => []NoServiceOutlivesTheRun
BY ServiceInvariant, PTL DEF ServiceInv

(* A signal at any moment strands at most one service.                     *)
THEOREM SignalStrandsOne == ServiceSpec => []SignalStrandsOneAtMost
<1>1. ServiceInv => SignalStrandsOneAtMost
  <2> SUFFICES ASSUME ServiceInv, phase = "killed" PROVE Cardinality(Running) <= 1
    BY DEF SignalStrandsOneAtMost
  <2>1. \E p : Running \subseteq {p}
    <3>1. CASE handlers
      BY <3>1 DEF ServiceInv, KilledLeavesHand, OneInHand
    <3>2. CASE DOMAIN table = {}
      BY <3>2 DEF ServiceInv, NothingRunsUnseen, OneInHand, Tracked
    <3>3. CASE call = "tracked" /\ \E name : DOMAIN table = {name}
      <4>1. PICK name : DOMAIN table = {name}
        BY <3>3
      <4>2. Tracked = {table[name]} /\ hand = {}
        BY <3>3, <4>1 DEF Tracked, ServiceInv, ServiceTypeOK
      <4> QED
        BY <4>2 DEF ServiceInv, NothingRunsUnseen
    <3> QED
      BY <3>1, <3>2, <3>3 DEF ServiceInv, BareBeforeHandlers
  <2>2. PICK p : Running \subseteq {p}
    BY <2>1
  <2>3. IsFiniteSet({p}) /\ Cardinality({p}) = 1
    BY FS_Singleton
  <2>4. Cardinality(Running) <= Cardinality({p})
    BY <2>2, <2>3, FS_Subset
  <2> QED
    BY <2>3, <2>4
<1> QED
  BY <1>1, ServiceInvariant, PTL

-----------------------------------------------------------------------------
(* The services that the windows open on.                                  *)

(* A slot has a process of its name.                                       *)
OwnNames == \A name \in DOMAIN table : procs[table[name]].name = name

(* A native call works on the action at the head of the list.              *)
CallNames ==
  /\ call = "spawned" => Head(todo).do = "start" /\ procs[Len(procs)].name = Head(todo).name
  /\ call = "tracked" => Head(todo).do = "start" /\ Head(todo).name \in DOMAIN table
  /\ call = "untracked" => Head(todo).do = "stop"

(* k of the startup actions are done, and what they started is tracked.    *)
StartedSoFar(k) ==
  /\ Len(todo) = 2 * Len(plan) - k
  /\ \A i \in 1 .. Len(todo) : todo[i] = Startup(plan)[k + i]
  /\ ~failed => \A j \in 1 .. Len(plan) : 2 * j - 1 <= k => plan[j] \in DOMAIN table

CompleteInv ==
  /\ OwnNames
  /\ CallNames
  /\ phase = "starting" => \E k \in 0 .. 2 * Len(plan) : StartedSoFar(k)
  /\ phase = "looping" => \A j \in 1 .. Len(plan) : plan[j] \in DOMAIN table

(* The odd actions of a startup are the starts.                            *)
LEMMA StartupActions ==
  ASSUME NEW names \in Seq(Names), NEW k \in 1 .. 2 * Len(names)
  PROVE  /\ Startup(names)[k].do \in {"start", "wait"}
         /\ \A j \in 1 .. Len(names) :
              2 * j - 1 = k => Startup(names)[k] = [do |-> "start", name |-> names[j]]
         /\ Startup(names)[k].do = "wait" => \A j \in 1 .. Len(names) : 2 * j - 1 # k
<1>1. Len(names) \in Nat /\ Startup(names)[k] =
        [do |-> IF k % 2 = 1 THEN "start" ELSE "wait", name |-> names[(k + 1) \div 2]]
  BY DEF Startup
<1>2. ASSUME NEW j \in 1 .. Len(names), 2 * j - 1 = k
      PROVE  k % 2 = 1 /\ (k + 1) \div 2 = j
  BY <1>1, <1>2
<1>3. Startup(names)[k].do \in {"start", "wait"} /\ (Startup(names)[k].do = "wait" => k % 2 # 1)
  BY <1>1
<1> QED
  BY <1>1, <1>2, <1>3

LEMMA InitCompleteInv == ServiceInit => CompleteInv
<1> SUFFICES ASSUME ServiceInit PROVE CompleteInv
  OBVIOUS
<1>1. plan \in Seq(Names) /\ todo = Startup(plan) /\ phase = "starting" /\ call = "none" /\ DOMAIN table = {}
  BY ServiceAssumption DEF ServiceInit
<1>2. Len(plan) \in Nat /\ Len(todo) = 2 * Len(plan)
  BY <1>1 DEF Startup
<1>3. StartedSoFar(0)
  BY <1>1, <1>2 DEF StartedSoFar
<1>4. 0 \in 0 .. 2 * Len(plan)
  BY <1>2
<1> QED
  BY <1>1, <1>3, <1>4 DEF CompleteInv, OwnNames, CallNames

(* Ending a process leaves its name.                                       *)
LEMMA NamesStay ==
  ASSUME ServiceInv, OwnNames, NEW pids, Terminate(pids)
  PROVE  DOMAIN procs' = DOMAIN procs /\ \A p \in DOMAIN procs : procs'[p].name = procs[p].name
BY DEF ServiceInv, ServiceTypeOK, Terminate, Running

(* The action at the head is done: k grows by one.                         *)
LEMMA OneMoreDone ==
  ASSUME ServiceInv, phase = "starting", NEW k \in 0 .. 2 * Len(plan), StartedSoFar(k), todo # <<>>,
         todo' = Tail(todo), plan' = plan,
         \/ failed'
         \/ /\ ~failed /\ DOMAIN table \subseteq DOMAIN table'
            /\ Head(todo).do = "start" => Head(todo).name \in DOMAIN table'
  PROVE  k + 1 \in 0 .. 2 * Len(plan') /\ StartedSoFar(k + 1)'
<1>1. plan \in Seq(Names) /\ Len(plan) \in Nat /\ todo \in Seq(Actions)
  BY ServiceAssumption DEF ServiceInv, ServiceTypeOK
<1>2. /\ Len(todo) >= 1 /\ Len(todo) = 2 * Len(plan) - k /\ Head(todo) = todo[1]
      /\ Len(Tail(todo)) = Len(todo) - 1
      /\ \A i \in 1 .. Len(todo) - 1 : Tail(todo)[i] = todo[i + 1]
  BY <1>1, HeadTailProperties DEF StartedSoFar
<1>3. k + 1 \in 1 .. 2 * Len(plan) /\ k \in Nat /\ Head(todo) = Startup(plan)[k + 1]
  <2>1. k + 1 \in 1 .. 2 * Len(plan) /\ k \in Nat /\ 1 \in 1 .. Len(todo)
    BY <1>1, <1>2
  <2> QED
    BY <1>2, <2>1 DEF StartedSoFar
<1>4. Len(todo') = 2 * Len(plan') - (k + 1)
  BY <1>1, <1>2, <1>3
<1>5. ASSUME NEW i \in 1 .. Len(todo') PROVE todo'[i] = Startup(plan')[(k + 1) + i]
  <2>1. i \in 1 .. Len(todo) - 1 /\ i + 1 \in 1 .. Len(todo) /\ k + (i + 1) = (k + 1) + i
    BY <1>1, <1>2, <1>3
  <2> QED
    BY <1>2, <2>1 DEF StartedSoFar
<1>6. ASSUME ~failed', NEW j \in 1 .. Len(plan), 2 * j - 1 <= k + 1 PROVE plan[j] \in DOMAIN table'
  <2>1. CASE 2 * j - 1 <= k
    BY <1>6, <2>1 DEF StartedSoFar
  <2>2. CASE 2 * j - 1 = k + 1
    <3>1. Head(todo) = [do |-> "start", name |-> plan[j]]
      BY <1>1, <1>3, <2>2, StartupActions
    <3> QED
      BY <1>6, <3>1
  <2>3. 2 * j - 1 <= k \/ 2 * j - 1 = k + 1
    BY <1>3, <1>6
  <2> QED
    BY <2>1, <2>2, <2>3
<1> QED
  BY <1>3, <1>4, <1>5, <1>6 DEF StartedSoFar

(* During the startup nothing is stopped.                                  *)
LEMMA NoStopAtStart ==
  ASSUME ServiceInv, CompleteInv, phase = "starting", todo # <<>>
  PROVE  Head(todo).do # "stop"
<1>1. PICK k \in 0 .. 2 * Len(plan) : StartedSoFar(k)
  BY DEF CompleteInv
<1>2. plan \in Seq(Names) /\ Len(plan) \in Nat /\ todo \in Seq(Actions)
  BY ServiceAssumption DEF ServiceInv, ServiceTypeOK
<1>3. Len(todo) >= 1 /\ Len(todo) = 2 * Len(plan) - k /\ Head(todo) = todo[1]
  BY <1>1, <1>2, HeadTailProperties DEF StartedSoFar
<1>4. k + 1 \in 1 .. 2 * Len(plan) /\ Head(todo) = Startup(plan)[k + 1]
  <2>1. k + 1 \in 1 .. 2 * Len(plan) /\ 1 \in 1 .. Len(todo)
    BY <1>2, <1>3
  <2> QED
    BY <1>1, <1>3, <2>1 DEF StartedSoFar
<1> QED
  BY <1>2, <1>4, StartupActions

(* An action that ends without a change of the table.                      *)
LEMMA ActionEnds ==
  ASSUME ServiceInv, CompleteInv, todo # <<>>, phase \in {"starting", "stopping", "closing"},
         UNCHANGED <<plan, phase, table>>, call' = "none", NEW ok \in BOOLEAN, Report(ok),
         Head(todo).do = "start" /\ ok => Head(todo).name \in DOMAIN table,
         DOMAIN procs \subseteq DOMAIN procs', \A p \in DOMAIN procs : procs'[p].name = procs[p].name
  PROVE  CompleteInv'
<1>1. OwnNames' /\ CallNames'
  <2>1. \A name \in DOMAIN table : table[name] \in DOMAIN procs
    BY DEF ServiceInv, ServiceTypeOK
  <2> QED
    BY <2>1 DEF CompleteInv, OwnNames, CallNames
<1>2. ASSUME phase = "starting" PROVE \E k \in 0 .. 2 * Len(plan') : StartedSoFar(k)'
  <2>1. PICK k \in 0 .. 2 * Len(plan) : StartedSoFar(k)
    BY <1>2 DEF CompleteInv
  <2>2. todo' = Tail(todo) /\ (failed' \/ (~failed /\ ok))
    BY DEF Report
  <2>3. k + 1 \in 0 .. 2 * Len(plan') /\ StartedSoFar(k + 1)'
    BY <1>2, <2>1, <2>2, OneMoreDone
  <2> QED
    BY <2>3
<1> QED
  BY <1>1, <1>2 DEF CompleteInv

(* A step in the middle of an action, or outside of the lists.             *)
LEMMA ListStays ==
  ASSUME ServiceInv, CompleteInv, UNCHANGED <<plan, todo, failed>>, OwnNames', CallNames',
         phase' = "looping" => phase = "looping",
         phase' = "starting" => phase = "starting",
         phase' \in {"starting", "looping"} => DOMAIN table \subseteq DOMAIN table'
  PROVE  CompleteInv'
<1>1. ASSUME phase' = "starting" PROVE \E k \in 0 .. 2 * Len(plan') : StartedSoFar(k)'
  <2>1. PICK k \in 0 .. 2 * Len(plan) : StartedSoFar(k)
    BY <1>1 DEF CompleteInv
  <2>2. StartedSoFar(k)'
    BY <1>1, <2>1 DEF StartedSoFar
  <2> QED
    BY <2>2
<1> QED
  BY <1>1 DEF CompleteInv

LEMMA TrackCompletes ==
  ASSUME ServiceInv, CompleteInv, Track
  PROVE  CompleteInv'
<1> DEFINE name == Head(todo).name
<1>1. /\ call = "spawned" /\ call' = "tracked" /\ UNCHANGED <<plan, phase, todo, failed>>
      /\ TrackAgain(name) \/ TrackNew(name)
  BY DEF Track
<1>2. /\ Head(todo).do = "start" /\ procs[Len(procs)].name = name
      /\ table \in [DOMAIN table -> DOMAIN procs] /\ Len(procs) \in DOMAIN procs
  BY <1>1 DEF CompleteInv, CallNames, ServiceInv, ServiceTypeOK
<1>3. DOMAIN procs' = DOMAIN procs /\ \A p \in DOMAIN procs : procs'[p].name = procs[p].name
  BY <1>1, NamesStay DEF CompleteInv, TrackAgain, TrackNew
<1>4. /\ DOMAIN table' = DOMAIN table \cup {name} /\ table'[name] = Len(procs)
      /\ \A other \in DOMAIN table \ {name} : table'[other] = table[other]
  BY <1>1, <1>2 DEF TrackAgain, TrackNew
<1> HIDE DEF name
<1>5. OwnNames'
  <2> SUFFICES ASSUME NEW other \in DOMAIN table' PROVE procs'[table'[other]].name = other
    BY DEF OwnNames
  <2>1. CASE other = name
    BY <1>2, <1>3, <1>4, <2>1
  <2>2. CASE other # name
    <3>1. other \in DOMAIN table /\ table'[other] = table[other] /\ table[other] \in DOMAIN procs
      BY <1>2, <1>4, <2>2
    <3> QED
      BY <1>3, <3>1 DEF CompleteInv, OwnNames
  <2> QED
    BY <2>1, <2>2
<1>6. CallNames'
  BY <1>1, <1>2, <1>4 DEF CallNames, name
<1> QED
  BY <1>1, <1>4, <1>5, <1>6, ListStays

LEMMA SpawnCompletes ==
  ASSUME ServiceInv, CompleteInv, Spawn
  PROVE  CompleteInv'
<1>1. /\ Head(todo).do = "start" /\ call' = "spawned"
      /\ procs' = Append(procs, [name |-> Head(todo).name, state |-> "running"])
      /\ UNCHANGED <<plan, phase, todo, failed, table>>
  BY DEF Spawn, Doing
<1>2. procs \in Seq([name: Names, state: {"running", "told", "gone"}])
  BY DEF ServiceInv, ServiceTypeOK
<1>3. /\ Len(procs') = Len(procs) + 1 /\ procs'[Len(procs')].name = Head(todo).name
      /\ \A p \in DOMAIN procs : procs'[p] = procs[p]
  BY <1>1, <1>2
<1>4. \A name \in DOMAIN table : table[name] \in DOMAIN procs
  BY DEF ServiceInv, ServiceTypeOK
<1>5. OwnNames' /\ CallNames'
  BY <1>1, <1>3, <1>4 DEF CompleteInv, OwnNames, CallNames
<1> QED
  BY <1>1, <1>5, ListStays

(* The lists are left for good, or for the loop's end.                     *)
LEMMA ListsLeft ==
  ASSUME ServiceInv, CompleteInv, phase' \notin {"starting", "looping"}, call' = "none",
         table' = table \/ DOMAIN table' = {},
         DOMAIN procs' = DOMAIN procs, \A p \in DOMAIN procs : procs'[p].name = procs[p].name
  PROVE  CompleteInv'
<1>1. \A name \in DOMAIN table : table[name] \in DOMAIN procs
  BY DEF ServiceInv, ServiceTypeOK
<1>2. OwnNames' /\ CallNames'
  BY <1>1 DEF CompleteInv, OwnNames, CallNames
<1> QED
  BY <1>2 DEF CompleteInv

LEMMA UntrackCompletes ==
  ASSUME ServiceInv, CompleteInv, Untrack
  PROVE  CompleteInv'
<1> DEFINE name == Head(todo).name
<1>1. /\ Head(todo).do = "stop" /\ todo # <<>> /\ phase \in {"starting", "stopping", "closing"}
      /\ table' = [other \in DOMAIN table \ {name} |-> table[other]]
      /\ call' = "untracked" /\ UNCHANGED <<plan, phase, todo, failed, procs>>
  BY DEF Untrack, Doing
<1>2. phase \notin {"starting", "looping"}
  BY <1>1, NoStopAtStart
<1> HIDE DEF name
<1>3. OwnNames' /\ CallNames'
  BY <1>1 DEF CompleteInv, OwnNames, CallNames
<1> QED
  BY <1>1, <1>2, <1>3, ListStays

(* The startup has been gone through: without a failure all is tracked.    *)
LEMMA StartupCompletes ==
  ASSUME ServiceInv, CompleteInv, StartupDone
  PROVE  CompleteInv'
<1>1. /\ phase = "starting" /\ todo = <<>> /\ call = "none" /\ UNCHANGED <<plan, call, procs, table>>
      /\ phase' = "stopping" \/ (~failed /\ phase' = "looping")
  BY DEF StartupDone, ActionsDone
<1>2. OwnNames' /\ CallNames'
  BY <1>1 DEF CompleteInv, OwnNames, CallNames
<1>3. ASSUME ~failed, NEW j \in 1 .. Len(plan) PROVE plan[j] \in DOMAIN table
  <2>1. PICK k \in 0 .. 2 * Len(plan) : StartedSoFar(k)
    BY <1>1 DEF CompleteInv
  <2>2. plan \in Seq(Names) /\ Len(plan) \in Nat /\ Len(todo) = 0
    BY <1>1, ServiceAssumption DEF ServiceInv, ServiceTypeOK
  <2>3. Len(todo) = 2 * Len(plan) - k
    BY <2>1 DEF StartedSoFar
  <2>4. 2 * j - 1 <= k
    BY <2>2, <2>3
  <2> QED
    BY <1>3, <2>1, <2>4 DEF StartedSoFar
<1> QED
  BY <1>1, <1>2, <1>3 DEF CompleteInv

(* A process that ends keeps its name.                                     *)
LEMMA ExitKeepsNames ==
  ASSUME ServiceInv, NEW q, ServiceExits(q)
  PROVE  DOMAIN procs' = DOMAIN procs /\ \A p \in DOMAIN procs : procs'[p].name = procs[p].name
<1> DEFINE P == [name: Names, state: {"running", "told", "gone"}]
<1>1. procs \in Seq(P)
  BY DEF ServiceInv, ServiceTypeOK
<1>2. procs' = [procs EXCEPT ![q] = [procs[q] EXCEPT !.state = "gone"]] /\ q \in DOMAIN procs
  BY DEF ServiceExits, Running
<1> HIDE DEF P
<1>3. DOMAIN procs = 1 .. Len(procs)
  BY <1>1
<1>4. \A p \in DOMAIN procs : procs[p] \in P
  BY <1>1, <1>3, ElementOfSeq
<1> QED
  BY <1>2, <1>4 DEF P

(* Steps of no action: signals, exits and idle steps.                      *)
LEMMA AsideCompletes ==
  ASSUME ServiceInv, CompleteInv, UNCHANGED <<plan, todo, call, failed, table>>,
         phase' = phase \/ phase' = "killed",
         Len(procs') = Len(procs), \A p \in DOMAIN procs : procs'[p].name = procs[p].name
  PROVE  CompleteInv'
<1>1. (\A name \in DOMAIN table : table[name] \in DOMAIN procs) /\ ServiceTypeOK
  BY DEF ServiceInv, ServiceTypeOK
<1>2. OwnNames'
  BY <1>1 DEF CompleteInv, OwnNames
<1>3. CallNames'
  <2>1. call = "spawned" => Len(procs) \in DOMAIN procs
    BY <1>1 DEF ServiceTypeOK
  <2>2. call = "spawned" => procs'[Len(procs)].name = Head(todo).name
    BY <2>1 DEF CompleteInv, CallNames
  <2> QED
    BY <2>2 DEF CompleteInv, CallNames
<1> QED
  BY <1>2, <1>3, ListStays

LEMMA NextKeepsCompleteInv == ServiceInv /\ CompleteInv /\ [ServiceNext]_serviceVars => CompleteInv'
<1> SUFFICES ASSUME ServiceInv, CompleteInv, [ServiceNext]_serviceVars PROVE CompleteInv'
  OBVIOUS
<1>1. ServiceTypeOK /\ OwnNames /\ CallNames
  BY DEF ServiceInv, CompleteInv
<1>2. call # "none" /\ phase # "killed" => todo # <<>> /\ phase \in {"starting", "stopping", "closing"}
  BY <1>1 DEF ServiceTypeOK
<1>3. CASE SpawnFails
  BY <1>3, ActionEnds DEF SpawnFails, Doing
<1>4. CASE TrackFails
  <2>1. DOMAIN procs' = DOMAIN procs /\ \A p \in DOMAIN procs : procs'[p].name = procs[p].name
    BY <1>1, <1>4, NamesStay DEF TrackFails
  <2> QED
    BY <1>2, <1>4, <2>1, ActionEnds DEF TrackFails
<1>5. CASE Install
  <2>1. Head(todo).name \in DOMAIN table
    BY <1>1, <1>5 DEF Install, CallNames
  <2> QED
    BY <1>2, <1>5, <2>1, ActionEnds DEF Install
<1>6. CASE WaitReady
  <2>1. PICK ready \in BOOLEAN : Report(ready)
    BY <1>6 DEF WaitReady
  <2> QED
    BY <1>6, <2>1, ActionEnds DEF WaitReady, Doing
<1>7. CASE StopSkipped
  BY <1>7, ActionEnds DEF StopSkipped, Doing
<1>8. CASE KillUntracked
  <2>1. DOMAIN procs' = DOMAIN procs /\ \A p \in DOMAIN procs : procs'[p].name = procs[p].name
    BY <1>1, <1>8, NamesStay DEF KillUntracked
  <2>2. Head(todo).do = "stop"
    BY <1>1, <1>8 DEF KillUntracked, CallNames
  <2> QED
    BY <1>2, <1>8, <2>1, <2>2, ActionEnds DEF KillUntracked
<1>9. CASE LoopUnavailable
  <2>1. call = "none"
    BY <1>1, <1>9 DEF LoopUnavailable, ServiceTypeOK
  <2> QED
    BY <1>9, <2>1, ListsLeft DEF LoopUnavailable
<1>10. CASE LastWindowCloses
  <2>1. call = "none"
    BY <1>1, <1>10 DEF LastWindowCloses, ServiceTypeOK
  <2>2. DOMAIN procs' = DOMAIN procs /\ \A p \in DOMAIN procs : procs'[p].name = procs[p].name
    BY <1>1, <1>10, NamesStay DEF LastWindowCloses
  <2> QED
    BY <1>10, <2>1, <2>2, ListsLeft DEF LastWindowCloses
<1>11. CASE ProgramExits
  <2>1. DOMAIN procs' = DOMAIN procs /\ \A p \in DOMAIN procs : procs'[p].name = procs[p].name
    BY <1>1, <1>11, NamesStay DEF ProgramExits
  <2> QED
    BY <1>11, <2>1, ListsLeft DEF ProgramExits, ActionsDone
<1>12. CASE Signal
  <2>1. DOMAIN procs' = DOMAIN procs /\ \A p \in DOMAIN procs : procs'[p].name = procs[p].name
    BY <1>1, <1>12, NamesStay DEF Signal
  <2> QED
    BY <1>12, <2>1, AsideCompletes DEF Signal
<1>13. ASSUME NEW q \in DOMAIN procs, ServiceExits(q) PROVE CompleteInv'
  <2>1. DOMAIN procs' = DOMAIN procs /\ \A p \in DOMAIN procs : procs'[p].name = procs[p].name
    BY <1>13, ExitKeepsNames
  <2> QED
    BY <1>13, <2>1, AsideCompletes DEF ServiceExits
<1>14. CASE UNCHANGED serviceVars
  BY <1>14, AsideCompletes DEF serviceVars
<1> QED
  BY <1>3, <1>4, <1>5, <1>6, <1>7, <1>8, <1>9, <1>10, <1>11, <1>12, <1>13, <1>14,
     SpawnCompletes, TrackCompletes, UntrackCompletes, StartupCompletes
     DEF ServiceNext, RunnerStep

(* The windows open only on a complete set of services, each in a slot of  *)
(* its own name, however often the plan repeats one.                       *)
THEOREM CompleteSetTheorem == ServiceSpec => []LoopHasItsServices
<1>1. ServiceInv /\ CompleteInv => LoopHasItsServices
  <2> SUFFICES ASSUME ServiceInv, CompleteInv, phase = "looping", NEW i \in DOMAIN plan
               PROVE  plan[i] \in DOMAIN table /\ procs[table[plan[i]]].name = plan[i]
    BY DEF LoopHasItsServices
  <2>1. i \in 1 .. Len(plan)
    BY ServiceAssumption DEF ServiceInv, ServiceTypeOK
  <2> QED
    BY <2>1 DEF CompleteInv, OwnNames
<1>2. ServiceSpec => []CompleteInv
  BY InitCompleteInv, ServiceInvariant, NextKeepsCompleteInv, PTL DEF ServiceSpec
<1> QED
  BY <1>1, <1>2, ServiceInvariant, PTL

-----------------------------------------------------------------------------
(* Services that two windows declare.                                      *)

(* Two windows may declare a service of one name, and the start of the     *)
(* second replaces the process of the first.  But for the moment between   *)
(* its spawn and its slot no two processes of one name run.                *)
NoTwins ==
  call # "spawned" =>
    \A p, q \in Running : procs[p].name = procs[q].name => p = q

(* What a stop has taken from the table has no namesake there.             *)
UntrackedIsAlone ==
  call = "untracked" => \A p \in hand : procs[p].name \notin DOMAIN table

(* Only Untrack gets there, and no step of another kind touches the table  *)
(* or a name before the call has ended.                                    *)
LEMMA NextKeepsUntracked ==
  ServiceInv /\ CompleteInv /\ UntrackedIsAlone /\ [ServiceNext]_serviceVars => UntrackedIsAlone'
<1> SUFFICES ASSUME ServiceInv, CompleteInv, UntrackedIsAlone, [ServiceNext]_serviceVars, call' = "untracked"
             PROVE  \A p \in hand' : procs'[p].name \notin DOMAIN table'
  BY DEF UntrackedIsAlone
<1>1. ServiceTypeOK /\ OwnNames /\ hand \subseteq DOMAIN procs
  BY DEF ServiceInv, CompleteInv, ServiceTypeOK
<1>2. CASE Untrack
  BY <1>1, <1>2 DEF Untrack, OwnNames
<1>3. CASE Signal
  <2>1. \A p \in DOMAIN procs : procs'[p].name = procs[p].name
    BY <1>1, <1>3, NamesStay DEF Signal
  <2> QED
    BY <1>1, <1>3, <2>1 DEF Signal, UntrackedIsAlone
<1>4. ASSUME NEW q \in DOMAIN procs, ServiceExits(q)
      PROVE  \A p \in hand' : procs'[p].name \notin DOMAIN table'
  <2>1. \A p \in DOMAIN procs : procs'[p].name = procs[p].name
    BY <1>4, ExitKeepsNames
  <2> QED
    BY <1>1, <1>4, <2>1 DEF ServiceExits, UntrackedIsAlone
<1>5. CASE UNCHANGED serviceVars
  BY <1>5 DEF serviceVars, UntrackedIsAlone
<1>6. ~SpawnFails /\ ~Spawn /\ ~Track /\ ~TrackFails /\ ~Install
  BY DEF SpawnFails, Doing, Spawn, Track, TrackFails, Install
<1>7. ~WaitReady /\ ~StopSkipped /\ ~KillUntracked /\ ~StartupDone /\ ~ProgramExits
  BY DEF WaitReady, Doing, StopSkipped, KillUntracked, StartupDone, ProgramExits, ActionsDone
<1>8. ~LoopUnavailable /\ ~LastWindowCloses
  BY <1>1 DEF LoopUnavailable, LastWindowCloses, ServiceTypeOK
<1> QED
  BY <1>2, <1>3, <1>4, <1>5, <1>6, <1>7, <1>8 DEF ServiceNext, RunnerStep

(* No two running processes have one name, however often a plan repeats    *)
(* it, whichever starts fail, and wherever a signal comes in between.      *)
THEOREM NoTwinsTheorem == ServiceSpec => []NoTwins
<1>1. ServiceInv /\ CompleteInv /\ UntrackedIsAlone => NoTwins
  <2> SUFFICES ASSUME ServiceInv, CompleteInv, UntrackedIsAlone, call # "spawned",
                      NEW p \in Running, NEW q \in Running, procs[p].name = procs[q].name
               PROVE  p = q
    BY DEF NoTwins
  <2>1. p \in Tracked \cup hand /\ q \in Tracked \cup hand
    BY DEF ServiceInv, NothingRunsUnseen
  <2>2. \A r \in Tracked : procs[r].name \in DOMAIN table /\ r = table[procs[r].name]
    BY DEF CompleteInv, OwnNames, Tracked
  <2>3. \A r \in hand : procs[r].name \notin DOMAIN table
    BY DEF UntrackedIsAlone, ServiceInv, ServiceTypeOK
  <2>4. p \in hand /\ q \in hand => p = q
    BY DEF ServiceInv, OneInHand
  <2> QED
    BY <2>1, <2>2, <2>3, <2>4
<1>2. ServiceInit => UntrackedIsAlone
  BY DEF ServiceInit, UntrackedIsAlone
<1>3. ServiceSpec => []CompleteInv
  BY InitCompleteInv, ServiceInvariant, NextKeepsCompleteInv, PTL DEF ServiceSpec
<1> QED
  BY <1>1, <1>2, <1>3, ServiceInvariant, NextKeepsUntracked, PTL DEF ServiceSpec

=============================================================================
