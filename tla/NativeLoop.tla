----------------------------- MODULE NativeLoop -----------------------------
(***************************************************************************)
(* The native loop: the windows of the backend (WindowTable), the windows  *)
(* the runtime host believes are live (runtime/window_lifecycle.mbt), and  *)
(* the calls that pages make over the bridge                               *)
(* (runtime/bridge_transport.mbt).                                         *)
(*                                                                         *)
(* One thread handles a script message from dispatch to the last native    *)
(* operation.  Messages wait in the page's process before that and scripts *)
(* wait in it afterwards, and the user can close windows at any time.      *)
(* All pages have the same hooks and each counts its calls from 1.         *)
(***************************************************************************)
EXTENDS WindowTable

CONSTANT
  App         (* the target of an event for all windows; no single label    *)

ASSUME LoopAssumption == App \notin Labels

VARIABLES
  session,   (* windows of the host's session, by label                     *)
  spawned,   (* how often the application was started again                 *)
  deferred,  (* the tasks of the bridge's work queue                        *)
  budget,    (* how many more calls there may be                            *)
  called,    (* frame -> how many calls its page made                       *)
  inbox,     (* frame -> the messages its page posted and the loop has to   *)
             (* handle                                                      *)
  scripts,   (* frame -> the scripts its page has still to evaluate         *)
  settled,   (* history: frame -> the responses that settled its promises   *)
  heard      (* history: frame -> the events dispatched to its page         *)

hostVars == <<tableVars, session, spawned>>
pageVars == <<budget, called, settled, heard>>
loopVars == <<hostVars, deferred, pageVars, inbox, scripts>>

(* What pages call: any synchronous or asynchronous command, and the       *)
(* commands the loop itself acts on.                                       *)
Commands ==
  [name: {"sync", "async", "exit", "restart"}, label: {App}]
    \cup [name: {"open", "close"}, label: Labels]
    \cup [name: {"emit"}, label: Labels \cup {App}]

Response(f, id, outcome) ==
  [kind |-> "response", frame |-> f, id |-> id, outcome |-> outcome]

(* An event is known by the call that emitted it.                          *)
Event(f, id) == [kind |-> "event", frame |-> f, id |-> id]

LoopInit ==
  /\ TableInit
  /\ session = InitialLabels
  /\ spawned = 0
  /\ deferred = <<>>
  /\ budget = MaxCalls[platform]
  /\ called = [f \in Frames |-> 0]
  /\ inbox = [f \in Frames |-> <<>>]
  /\ scripts = [f \in Frames |-> <<>>]
  /\ settled = [f \in Frames |-> <<>>]
  /\ heard = [f \in Frames |-> <<>>]

-----------------------------------------------------------------------------
(* The script of a packet is evaluated in the page of the window that the  *)
(* packet names: on macOS in the frame of the page that sent the message,  *)
(* which the view of another window does not have.                         *)
FirstReply(f) ==
  IF platform = "macos" THEN FindSlot(frames[f]) \cap {f} ELSE FindSlot(frames[f])

(* The scripts of the pages after the script and the evaluate-script       *)
(* operations of one message: an answer, and an event for each of some     *)
(* labels.                                                                 *)
AfterRun(response, targets, event, labels) ==
  LET hits(g) == Cardinality({label \in labels : g \in FindSlot(label)})
  IN  [g \in Frames |->
        IF ~Reachable(g) THEN scripts[g]
        ELSE scripts[g]
          \o [i \in 1 .. Cardinality({j \in DOMAIN targets : g \in targets[j]}) |-> response]
          \o [i \in 1 .. hits(g) |-> event]]

(* What dies with a page: its messages and its scripts.                    *)
WithoutPages(gone, ofPages) ==
  [f \in Frames |-> IF f \in gone THEN <<>> ELSE ofPages[f]]

-----------------------------------------------------------------------------
(* invoke: the page keeps the promise under its next id and posts.         *)
Call(f, command) ==
  /\ running /\ Reachable(f) /\ budget > 0
  /\ budget' = budget - 1
  /\ called' = [called EXCEPT ![f] = @ + 1]
  /\ inbox' = [inbox EXCEPT
       ![f] = Append(@, [id |-> called[f] + 1, command |-> command])]
  /\ UNCHANGED <<hostVars, deferred, scripts, settled, heard>>

(* The next message of frame f, which the loop hands to the dispatcher.    *)
Message(f) == Head(inbox[f])

Received(f) == [inbox EXCEPT ![f] = Tail(@)]

(* bridge_response_hook: the only windows it knows are the initial ones.   *)
Answerable(f) == frames[f] \in InitialLabels

Receives(f, name) ==
  /\ running /\ f \in shown
  /\ inbox[f] # <<>>
  /\ Answerable(f)
  /\ Message(f).command.name = name
  /\ UNCHANGED pageVars

(* The message of a synchronous command, answered with what comes of it.   *)
ReceivesSync(f, name) == Receives(f, name) /\ UNCHANGED deferred

(* An "error" packet has neither script nor operations.                    *)
HandleUnknownWindow(f) ==
  /\ running /\ f \in shown
  /\ inbox[f] # <<>>
  /\ ~Answerable(f)
  /\ inbox' = Received(f)
  /\ UNCHANGED <<hostVars, deferred, pageVars, scripts>>

(* An immediate packet: its body and its evaluate-script operation both    *)
(* carry the answer.                                                       *)
AfterImmediate(f, labels) ==
  AfterRun(Response(f, Message(f).id, "answer"),
           <<FirstReply(f), FindSlot(frames[f])>>,
           Event(f, Message(f).id), labels)

HandleSync(f) ==
  /\ ReceivesSync(f, "sync")
  /\ inbox' = Received(f)
  /\ scripts' = AfterImmediate(f, {})
  /\ UNCHANGED hostVars

Task(f) == [frame |-> f, id |-> Message(f).id]

(* Broken: the drain request of the packet is dropped everywhere.          *)
BrokenHandleAsync(f) ==
  /\ Receives(f, "async")
  /\ inbox' = Received(f)
  /\ deferred' = Append(deferred, Task(f))
  /\ UNCHANGED <<hostVars, scripts>>

(* A deferred packet asks for a drain of the queue.  Windows runs it       *)
(* before it goes on, and drain_sync refuses to run asynchronous commands. *)
(* GTK's and AppKit's loops read the operations of immediate packets only. *)
HandleAsync(f) ==
  /\ Receives(f, "async")
  /\ inbox' = Received(f)
  /\ IF platform = "windows"
     THEN /\ scripts' = AfterRun(Response(f, Message(f).id, "async required"),
                                 <<FindSlot(frames[f])>>, Event(f, Message(f).id), {})
          /\ UNCHANGED deferred
     ELSE /\ deferred' = Append(deferred, Task(f))
          /\ UNCHANGED scripts
  /\ UNCHANGED hostVars

(* target_windows *)
EventTargets(label) == IF label = App THEN session ELSE session \cap {label}

(* event.emit: one evaluate-script operation per window of the session.    *)
HandleEmit(f) ==
  /\ ReceivesSync(f, "emit")
  /\ inbox' = Received(f)
  /\ scripts' = AfterImmediate(f, EventTargets(Message(f).command.label))
  /\ UNCHANGED hostVars

(* Broken: the followup does not replace the session.                      *)
BrokenOpenFollowup(label) ==
  IF label \in session THEN UNCHANGED hostVars
  ELSE OpenWindow(label) /\ UNCHANGED <<session, spawned>>

(* window_open_followup_operations: only a label the session does not have *)
(* gives an open-window operation.                                         *)
OpenFollowup(label) ==
  IF label \in session THEN UNCHANGED hostVars
  ELSE /\ session' = session \cup {label}
       /\ OpenWindow(label)
       /\ UNCHANGED spawned

(* window.open: answered before the window is opened, "queued" always.     *)
HandleOpen(f) ==
  /\ ReceivesSync(f, "open")
  /\ inbox' = Received(f)
  /\ scripts' = AfterImmediate(f, {})
  /\ OpenFollowup(Message(f).command.label)

(* Frames found for the packet's operations are destroyed after its        *)
(* scripts were sent, which are lost with a page that goes.                *)
CloseFound(f, found) ==
  /\ inbox' = WithoutPages(found, Received(f))
  /\ scripts' = WithoutPages(found, AfterImmediate(f, {}))
  /\ Destroy(found)

(* find_window_slot between the records of a packet, when the windows in   *)
(* gone are destroyed: on GTK and AppKit their slots are gone with them,   *)
(* on Windows they are still found and have lost their windows.            *)
FoundAfter(label, gone) ==
  LET lost == IF platform = "windows" THEN {} ELSE gone
      exact == ExactSlot(label) \ lost
      left == {i \in DOMAIN slots : slots[i] \notin lost}
      first == {slots[i] : i \in {j \in left : \A k \in left : j <= k}}
  IN  (IF exact # {} THEN exact ELSE first) \cap (shown \ gone)

(* Windows' "close" action does without the flag.                          *)
Flagged(kind) == platform # "windows" \/ kind = "close-window"

(* Broken: the flag is not kept.                                           *)
BrokenCloseRecord(done, label, kind) ==
  [done EXCEPT !.gone = @ \cup FoundAfter(label, @)]

(* A record that closes a window is looked up for itself, and does nothing *)
(* when there is no window or, on GTK and AppKit, one is closed already.   *)
CloseRecord(done, label, kind) ==
  LET found == FoundAfter(label, done.gone)
  IN  IF found = {} \/ (done.closed /\ Flagged(kind)) THEN done
      ELSE [gone |-> done.gone \cup found, closed |-> done.closed \/ Flagged(kind)]

(* The packet of window.close: the close-window record of the followup, if *)
(* the session had the label, and then the "close" control of the answer.  *)
ClosedBy(label) ==
  LET none == [gone |-> {}, closed |-> FALSE]
      followup == IF label \in session THEN CloseRecord(none, label, "close-window") ELSE none
  IN  CloseRecord(followup, label, "window-control").gone

(* window.close: the session forgets the label if it has it, and what is   *)
(* found for the label is destroyed in any case.                           *)
HandleClose(f) ==
  /\ ReceivesSync(f, "close")
  /\ session' = session \ {Message(f).command.label}
  /\ UNCHANGED spawned
  /\ \E gone \in {ClosedBy(Message(f).command.label)} : CloseFound(f, gone)

(* app.exit closes every window; the session is not told.                  *)
HandleExit(f) ==
  /\ ReceivesSync(f, "exit")
  /\ CloseFound(f, AllSlots)
  /\ UNCHANGED <<session, spawned>>

(* app.restart: the windows go when the new process could be started.      *)
HandleRestart(f) ==
  /\ ReceivesSync(f, "restart")
  /\ \/ /\ spawned' = spawned + 1
        /\ CloseFound(f, AllSlots)
        /\ UNCHANGED session
     \/ /\ inbox' = Received(f)
        /\ scripts' = AfterImmediate(f, {})
        /\ UNCHANGED hostVars

Handle(f) ==
  \/ HandleUnknownWindow(f)
  \/ HandleSync(f)
  \/ HandleAsync(f)
  \/ HandleEmit(f)
  \/ HandleOpen(f)
  \/ HandleClose(f)
  \/ HandleExit(f)
  \/ HandleRestart(f)

-----------------------------------------------------------------------------
Pending(f, id) == id <= called[f] /\ \A i \in DOMAIN settled[f] : settled[f][i].id # id

(* Broken: the hook does not delete the pending call.                      *)
BrokenSettle(f, response) == settled' = [settled EXCEPT ![f] = Append(@, response)]

(* The response hook: a response without a pending call does nothing.      *)
Settle(f, response) ==
  settled' = IF Pending(f, response.id)
             THEN [settled EXCEPT ![f] = Append(@, response)] ELSE settled

(* The page of frame f evaluates its next script.                          *)
Evaluate(f) ==
  /\ running /\ f \in shown
  /\ scripts[f] # <<>>
  /\ scripts' = [scripts EXCEPT ![f] = Tail(@)]
  /\ LET script == Head(scripts[f])
     IN  \/ script.kind = "response" /\ Settle(f, script) /\ UNCHANGED heard
         \/ /\ script.kind = "event"
            /\ heard' = [heard EXCEPT ![f] = Append(@, script)]
            /\ UNCHANGED settled
  /\ UNCHANGED <<hostVars, deferred, budget, called, inbox>>

WindowGoes(f) ==
  /\ Destroy({f})
  /\ inbox' = WithoutPages({f}, inbox)
  /\ scripts' = WithoutPages({f}, scripts)
  /\ UNCHANGED <<session, spawned, deferred, pageVars>>

(* The user closes a window: the session is not told.                      *)
UserCloses(f) == running /\ f \in shown /\ WindowGoes(f)

(* WM_CLOSE after a view that failed.                                      *)
ClosePosted(f) == f \in closing /\ WindowGoes(f)

(* WebView2 calls back.                                                    *)
EnvironmentAnswers ==
  /\ EnvironmentFails \/ EnvironmentReady
  /\ UNCHANGED <<session, spawned, deferred, pageVars, inbox, scripts>>

ViewAnswers(f) ==
  /\ ViewReady(f) \/ ViewFails(f)
  /\ UNCHANGED <<session, spawned, deferred, pageVars, inbox, scripts>>

LoopNext ==
  \/ EnvironmentAnswers
  \/ \E f \in Frames, command \in Commands : Call(f, command)
  \/ \E f \in Frames :
       \/ Handle(f)
       \/ Evaluate(f)
       \/ UserCloses(f)
       \/ ClosePosted(f)
       \/ ViewAnswers(f)

(* The loop serves every source that has something, a web process runs the *)
(* scripts it is sent, and WebView2 calls back once for each creation;     *)
(* nobody has to call or close.                                            *)
LoopSpec ==
  /\ LoopInit
  /\ [][LoopNext]_loopVars
  /\ WF_loopVars(EnvironmentAnswers)
  /\ \A f \in Frames :
       /\ WF_loopVars(Handle(f)) /\ WF_loopVars(Evaluate(f))
       /\ WF_loopVars(ViewAnswers(f)) /\ WF_loopVars(ClosePosted(f))

-----------------------------------------------------------------------------
Ids == 1 .. Max({MaxCalls[p] : p \in Platforms})

Responses ==
  [kind: {"response"}, frame: Frames, id: Ids, outcome: {"answer", "async required"}]

Events == [kind: {"event"}, frame: Frames, id: Ids]

(* The type invariant: among the rest, on GTK and AppKit a slot never      *)
(* holds a frame that was destroyed, on Windows every frame has a slot for *)
(* good, and live_windows counts the slots whose window is there.          *)
LoopTypeOK ==
  /\ platform \in Platforms
  /\ session \subseteq Labels
  /\ frames \in Seq(Labels) /\ Len(frames) <= Len(Initial) + MaxCalls[platform] - budget
  /\ shown \subseteq DOMAIN frames
  /\ slots \in Seq(DOMAIN frames) /\ Len(slots) <= MaxSlots[platform]
  /\ IF platform = "windows" THEN Slotted = DOMAIN frames ELSE Slotted \subseteq shown
  /\ live = Cardinality(Slotted \cap shown)
  /\ view \in [Frames -> {"none", "pending", "ready", "failed"}]
  /\ closing \subseteq shown
  /\ running \in BOOLEAN
  /\ spawned \in Nat
  /\ deferred \in Seq([frame: Frames, id: Ids])
  /\ budget \in 0 .. MaxCalls[platform]
  /\ called \in [Frames -> 0 .. MaxCalls[platform]]
  /\ inbox \in [Frames -> Seq([id: Ids, command: Commands])]
  /\ scripts \in [Frames -> Seq(Responses \cup Events)]
  /\ settled \in [Frames -> Seq(Responses)]
  /\ heard \in [Frames -> Seq(Events)]

(* The backend and the host keep their own lists of windows.  Whatever     *)
(* pages and the user open and close, no label is in two slots, and every  *)
(* window in a slot is one of a label the host believes live.              *)
SlotsKnownToSession ==
  /\ \A i, j \in DOMAIN slots : frames[slots[i]] = frames[slots[j]] => i = j
  /\ \A f \in Slotted \cap shown : frames[f] \in session

(* As long as the slots suffice every window on the screen has one, and    *)
(* the loop runs from the first window until the last one is gone and no   *)
(* longer.                                                                 *)
WindowsAreCounted ==
  SlotsSuffice =>
    /\ shown \subseteq Slotted
    /\ frames # <<>> => running = (shown # {})

(* Answers are evaluated twice and every page counts its calls from 1, and *)
(* still a promise is settled once at most, and as long as the slots       *)
(* suffice by the answer to its own call: the answer to a window without a *)
(* slot goes to the page of the first one.                                 *)
OwnAnswers ==
  \A f \in Frames : \A i, j \in DOMAIN settled[f] :
    /\ SlotsSuffice => settled[f][i].frame = f
    /\ settled[f][i].id = settled[f][j].id => i = j

(* app.restart: once the new process is started the old one has no window  *)
(* in a slot and its loop ends, so that there is no third.                 *)
RestartReplaces ==
  spawned > 0 => spawned = 1 /\ ~running /\ Slotted \cap shown = {}

(* docs/ARCHITECTURE.md:669: a window.close whose window is in a slot      *)
(* closes that window and, although a second record follows when its slot  *)
(* is gone and would find the first slot, no other; one whose label has no *)
(* slot still closes one window at most.                                   *)
CloseTakesOne ==
  [][\A f \in shown : HandleClose(f) =>
       LET own == ExactSlot(Message(f).command.label)
           gone == shown \ shown'
       IN  IF own # {} THEN gone = own \cap shown
           ELSE \A g, h \in gone : g = h
    ]_loopVars

Answered(f, id) ==
  \/ \E i \in DOMAIN settled[f] : settled[f][i].id = id
  \/ f \notin shown
  \/ ~running

Queued(f, id) ==
  platform # "windows" /\ \E i \in DOMAIN deferred : deferred[i] = [frame |-> f, id |-> id]

(* Every call of a page in a window of the application's configuration is  *)
(* answered, unless the window or the application goes first, or it waits  *)
(* in the queue of a loop that never drains it (AsyncCallsAnswered), as    *)
(* long as the slots suffice: calls are bounded in number, so it has to    *)
(* come to a state without any other.                                      *)
InitialWindowsAnswered ==
  []<>(SlotsSuffice => \A f \in DOMAIN frames : Answerable(f) =>
         \A id \in 1 .. called[f] : Answered(f, id) \/ Queued(f, id))

(* WebView2 answers late, fails, or answers for a window that is gone; in  *)
(* the end every window on the screen has its page, and without any window *)
(* the loop does not go on.                                                *)
WindowsComeUpOrGo ==
  []<>((\A f \in shown : Reachable(f) /\ f \notin closing) /\ (running => shown # {}))

-----------------------------------------------------------------------------
(* What the documentation says of the loop and the code does not do.       *)

(* docs/ARCHITECTURE.md:591: the calls of a page are answered, whatever    *)
(* window it is in; 217 names windows opened at run time.                  *)
EveryWindowAnswered ==
  []<>(\A f \in DOMAIN frames :
         \A id \in 1 .. called[f] : Answered(f, id) \/ Queued(f, id))

(* docs/ARCHITECTURE.md:669: a close-window record closes its own frame,   *)
(* so window.close destroys no window of another label.                    *)
CloseDestroysItsLabel ==
  [][\A f \in shown : HandleClose(f) =>
       \A gone \in shown \ shown' : frames[gone] = Message(f).command.label
    ]_loopVars

(* docs/ARCHITECTURE.md:641: an approved window.open emits open-window, so *)
(* it leaves a window of its label on the screen.                          *)
OpenShowsItsLabel ==
  [][\A f \in shown : HandleOpen(f) =>
       \E g \in shown' : frames'[g] = Message(f).command.label]_loopVars

(* docs/ARCHITECTURE.md:261: the loops parse the drain operation of a      *)
(* deferred packet and execute what the drain returns, so the call of an   *)
(* asynchronous command is answered, if only with a refusal.               *)
AsyncCallsAnswered ==
  []<>(\A f \in DOMAIN frames : Answerable(f) =>
         \A id \in 1 .. called[f] : Answered(f, id))

=============================================================================
