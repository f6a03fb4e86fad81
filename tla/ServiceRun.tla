----------------------------- MODULE ServiceRun -----------------------------
(***************************************************************************)
(* One run of an application with supervised local services on Linux: the  *)
(* runner that starts the services, enters the native loop and stops them  *)
(* again (runtime/linux/runner.mbt), the executor of its action lists      *)
(* (runtime/service_supervisor.mbt), and the table of service processes    *)
(* with its signal and exit handlers (runtime/linux/linux_backend.c).      *)
(*                                                                         *)
(* A terminating signal can come between any two steps, inside of a native *)
(* call too: "call" says how far the one under way has come.  Services may *)
(* exit by themselves at any time.                                         *)
(***************************************************************************)
EXTENDS Naturals, Sequences, FiniteSets

CONSTANTS
  Names,       (* names of local services                                   *)
  Plans,       (* start orders an application may have; a name can repeat,  *)
               (* when two windows declare it                               *)
  MaxTracked   (* size of the table: 64 in the code                         *)

ASSUME ServiceAssumption ==
  /\ Plans \subseteq Seq(Names)
  /\ MaxTracked \in Nat

VARIABLES
  plan,      (* the start order of this run                                 *)
  phase,     (* where the runner is                                         *)
  todo,      (* the actions that execute_actions has still to execute       *)
  call,      (* how far start_service or stop_service has come              *)
  hand,      (* the process that only the native call under way knows of    *)
  failed,    (* whether the run's status will be RunFailed                  *)
  procs,     (* the processes spawned so far, by number                     *)
  table,     (* lepusa_linux_service_processes: name -> process             *)
  handlers   (* lepusa_linux_service_signal_handlers_installed              *)

serviceVars == <<plan, phase, todo, call, hand, failed, procs, table, handlers>>

Startup(names) ==
  [i \in 1 .. 2 * Len(names) |->
     [do |-> IF i % 2 = 1 THEN "start" ELSE "wait", name |-> names[(i + 1) \div 2]]]

Shutdown(names) ==
  [i \in 1 .. Len(names) |-> [do |-> "stop", name |-> names[Len(names) + 1 - i]]]

ServiceInit ==
  /\ plan \in Plans
  /\ phase = "starting"
  /\ todo = Startup(plan)
  /\ call = "none"
  /\ hand = {}
  /\ failed = FALSE
  /\ procs = <<>>
  /\ table = [name \in {} |-> 0]
  /\ handlers = FALSE

-----------------------------------------------------------------------------
Tracked == {table[name] : name \in DOMAIN table}

Running == {p \in DOMAIN procs : procs[p].state = "running"}

(* kill(pid, SIGTERM): nothing happens to a process that is gone.          *)
Terminate(pids) ==
  procs' = [p \in DOMAIN procs |->
              IF p \in pids \cap Running
              THEN [procs[p] EXCEPT !.state = "told"] ELSE procs[p]]

(* execute_actions goes on with the next action whatever became of this.   *)
Report(ok) ==
  /\ todo' = Tail(todo)
  /\ failed' = (failed \/ ~ok)

Doing(kind) ==
  /\ phase \in {"starting", "stopping", "closing"}
  /\ call = "none"
  /\ todo # <<>>
  /\ Head(todo).do = kind

(* lepusa_linux_start_service, up to posix_spawnp                          *)
SpawnFails ==
  /\ Doing("start")
  /\ Report(FALSE)
  /\ UNCHANGED <<plan, phase, call, hand, procs, table, handlers>>

Spawn ==
  /\ Doing("start")
  /\ procs' = Append(procs, [name |-> Head(todo).name, state |-> "running"])
  /\ hand' = {Len(procs) + 1}
  /\ call' = "spawned"
  /\ UNCHANGED <<plan, phase, todo, failed, table, handlers>>

(* Broken: a new process takes the slot of a running one of its name.      *)
BrokenTrackAgain(name) ==
  /\ name \in DOMAIN table
  /\ UNCHANGED procs
  /\ table' = [table EXCEPT ![name] = Len(procs)]

(* track_service finds the name: the old process is terminated.            *)
TrackAgain(name) ==
  /\ name \in DOMAIN table
  /\ Terminate({table[name]})
  /\ table' = [table EXCEPT ![name] = Len(procs)]

TrackNew(name) ==
  /\ name \notin DOMAIN table
  /\ Cardinality(DOMAIN table) < MaxTracked
  /\ table' = [other \in DOMAIN table \cup {name} |->
                 IF other = name THEN Len(procs) ELSE table[other]]
  /\ UNCHANGED procs

(* Broken: the call goes on as if the process were still only its own.     *)
BrokenTrack ==
  /\ call = "spawned" /\ phase # "killed"
  /\ TrackAgain(Head(todo).name) \/ TrackNew(Head(todo).name)
  /\ call' = "tracked"
  /\ UNCHANGED <<plan, phase, todo, hand, failed, handlers>>

Track ==
  /\ call = "spawned" /\ phase # "killed"
  /\ TrackAgain(Head(todo).name) \/ TrackNew(Head(todo).name)
  /\ call' = "tracked"
  /\ hand' = {}
  /\ UNCHANGED <<plan, phase, todo, failed, handlers>>

(* The table is full: the new process is terminated, the start fails.      *)
TrackFails ==
  /\ call = "spawned" /\ phase # "killed"
  /\ Head(todo).name \notin DOMAIN table
  /\ Cardinality(DOMAIN table) >= MaxTracked
  /\ Terminate(hand)
  /\ call' = "none"
  /\ hand' = {}
  /\ Report(FALSE)
  /\ UNCHANGED <<plan, phase, table, handlers>>

(* Broken: the handlers wait for the end of the startup.                   *)
BrokenInstall ==
  /\ call = "tracked" /\ phase # "killed"
  /\ call' = "none"
  /\ handlers' = (handlers \/ Len(todo) <= 2)
  /\ Report(TRUE)
  /\ UNCHANGED <<plan, phase, hand, procs, table>>

(* install_service_cleanup_handlers, and the start has succeeded.          *)
Install ==
  /\ call = "tracked" /\ phase # "killed"
  /\ call' = "none"
  /\ handlers' = TRUE
  /\ Report(TRUE)
  /\ UNCHANGED <<plan, phase, hand, procs, table>>

(* The readiness address answers within its time, or it does not.          *)
WaitReady ==
  /\ Doing("wait")
  /\ \E ready \in BOOLEAN : Report(ready)
  /\ UNCHANGED <<plan, phase, call, hand, procs, table, handlers>>

(* lepusa_linux_stop_service: a name that is not in the table is skipped.  *)
StopSkipped ==
  /\ Doing("stop")
  /\ Head(todo).name \notin DOMAIN table
  /\ Report(TRUE)
  /\ UNCHANGED <<plan, phase, call, hand, procs, table, handlers>>

Untrack ==
  /\ Doing("stop")
  /\ Head(todo).name \in DOMAIN table
  /\ hand' = {table[Head(todo).name]}
  /\ table' = [name \in DOMAIN table \ {Head(todo).name} |-> table[name]]
  /\ call' = "untracked"
  /\ UNCHANGED <<plan, phase, todo, failed, procs, handlers>>

(* Broken: the number is read after the slot was cleared.                  *)
BrokenKillUntracked ==
  /\ call = "untracked" /\ phase # "killed"
  /\ call' = "none"
  /\ hand' = {}
  /\ Report(TRUE)
  /\ UNCHANGED <<plan, phase, procs, table, handlers>>

KillUntracked ==
  /\ call = "untracked" /\ phase # "killed"
  /\ Terminate(hand)
  /\ call' = "none"
  /\ hand' = {}
  /\ Report(TRUE)
  /\ UNCHANGED <<plan, phase, table, handlers>>

-----------------------------------------------------------------------------
ActionsDone(at) == phase = at /\ todo = <<>> /\ call = "none"

(* Broken: the report of the startup is not looked at.                     *)
BrokenStartupDone ==
  /\ ActionsDone("starting")
  /\ phase' = "looping"
  /\ UNCHANGED <<plan, todo, call, hand, failed, procs, table, handlers>>

(* linux_open_window after execute_service_startup: one failure and all    *)
(* services are stopped again.                                             *)
StartupDone ==
  /\ ActionsDone("starting")
  /\ \/ failed /\ phase' = "stopping" /\ todo' = Shutdown(plan)
     \/ ~failed /\ phase' = "looping" /\ UNCHANGED todo
  /\ UNCHANGED <<plan, call, hand, failed, procs, table, handlers>>

(* native_run_webview returns an error code before it shows a window.      *)
LoopUnavailable ==
  /\ phase = "looping"
  /\ phase' = "closing"
  /\ todo' = Shutdown(plan)
  /\ failed' = TRUE
  /\ UNCHANGED <<plan, call, hand, procs, table, handlers>>

(* lepusa_linux_window_destroyed: the tracked services are terminated and  *)
(* forgotten before the loop ends; the app-will-exit step may fail.        *)
LastWindowCloses ==
  /\ phase = "looping"
  /\ Terminate(Tracked)
  /\ table' = [name \in {} |-> 0]
  /\ phase' = "closing"
  /\ todo' = Shutdown(plan)
  /\ failed' \in BOOLEAN
  /\ UNCHANGED <<plan, call, hand, handlers>>

(* The runner returns and the program ends; cleanup_services_at_exit.      *)
ProgramExits ==
  /\ ActionsDone("stopping") \/ ActionsDone("closing")
  /\ phase' = "exited"
  /\ IF handlers THEN Terminate(Tracked) /\ table' = [name \in {} |-> 0]
                 ELSE UNCHANGED <<procs, table>>
  /\ UNCHANGED <<plan, todo, call, hand, failed, handlers>>

(* cleanup_services_on_signal terminates what is in the table and lets the *)
(* signal kill the program; without the handler it is killed right away.   *)
Signal ==
  /\ phase \notin {"exited", "killed"}
  /\ phase' = "killed"
  /\ IF handlers THEN Terminate(Tracked) ELSE UNCHANGED procs
  /\ UNCHANGED <<plan, todo, call, hand, failed, table, handlers>>

ServiceExits(p) ==
  /\ p \in Running
  /\ procs' = [procs EXCEPT ![p].state = "gone"]
  /\ UNCHANGED <<plan, phase, todo, call, hand, failed, table, handlers>>

RunnerStep ==
  \/ SpawnFails \/ Spawn \/ Track \/ TrackFails \/ Install
  \/ WaitReady
  \/ StopSkipped \/ Untrack \/ KillUntracked
  \/ StartupDone \/ ProgramExits

ServiceNext ==
  \/ RunnerStep
  \/ LoopUnavailable
  \/ LastWindowCloses
  \/ Signal
  \/ \E p \in DOMAIN procs : ServiceExits(p)

(* The runner is one thread and every call it makes returns: waits have a  *)
(* deadline, and no service keeps the connection of a probe open without   *)
(* an answer.  Nobody has to close the window, send a signal or exit.      *)
ServiceSpec ==
  /\ ServiceInit
  /\ [][ServiceNext]_serviceVars
  /\ WF_serviceVars(RunnerStep)

-----------------------------------------------------------------------------
Actions == [do: {"start", "wait", "stop"}, name: Names]

(* The type invariant; only a start that has spawned and a stop that has   *)
(* untracked a process have it in hand.                                    *)
ServiceTypeOK ==
  /\ plan \in Plans
  /\ phase \in {"starting", "stopping", "looping", "closing", "exited", "killed"}
  /\ todo \in Seq(Actions)
  /\ call \in {"none", "spawned", "tracked", "untracked"}
  /\ call # "none" => todo # <<>> /\ phase \notin {"looping", "exited"}
  /\ hand \subseteq DOMAIN procs
  /\ call \notin {"spawned", "untracked"} => hand = {}
  /\ call = "spawned" => hand = {Len(procs)}
  /\ failed \in BOOLEAN
  /\ procs \in Seq([name: Names, state: {"running", "told", "gone"}])
  /\ DOMAIN table \subseteq Names
  /\ table \in [DOMAIN table -> DOMAIN procs]
  /\ handlers \in BOOLEAN

(* Starts that repeat a name, find the table full or are followed by a     *)
(* failure never lose sight of a process: what runs is in the table, or in *)
(* the hand of the native call under way.                                  *)
NothingRunsUnseen == Running \subseteq Tracked \cup hand

(* When the program ends by itself, whether the startup failed, the loop   *)
(* could not start or the last window was closed, no service runs on.      *)
NoServiceOutlivesTheRun == phase = "exited" => Running = {}

(* A signal at any moment strands one service at most, the one that a      *)
(* start or a stop was dealing with.                                       *)
SignalStrandsOneAtMost == phase = "killed" => Cardinality(Running) <= 1

(* The windows open on a complete set: every service of the plan, started  *)
(* twice or not, has a slot of its own with a process of its name.         *)
LoopHasItsServices ==
  phase = "looping" =>
    \A i \in DOMAIN plan :
      /\ plan[i] \in DOMAIN table
      /\ procs[table[plan[i]]].name = plan[i]

(* A run that has failed comes to its end, whatever step failed.           *)
FailedRunsEnd == failed ~> phase \in {"exited", "killed"}

=============================================================================
