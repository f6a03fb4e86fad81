# Lepusa: models, checks and proofs

Lepusa is a framework for desktop applications in MoonBit: web pages in native
WebViews call commands of a host program over a JSON bridge; the host keeps
windows, resources, streams and local services, and a C backend per platform
(GTK on Linux, AppKit on macOS, Win32 with WebView2 on Windows) drives the windows.
This directory holds TLA+ modules that model the parts of it that change over time
and the texts that cross from one program to another, TLC configurations for
them, and TLAPS proofs.

Every definition is translated from the source; `PROJECT.json` ("map") names the
lines of each.  Paths below are relative to the repository.

## 1. Inventory

### Components, their state and operations

| Component | Source | State | Operations |
|---|---|---|---|
| resource table | `resource_table.mbt` | `next_sequence`, `entries`, `order` | open, close by id / handle / kind / owner / all |
| channel table, sinks | `channel.mbt`, `stream.mbt` | a resource table, `channels` (messages, next sequence, `closed`, `cancelled`), `order` | open, send, fail, end, cancel, drain, close, close all |
| app manager, runtime control | `app_manager.mbt`, `runtime_control.mbt` | two tables, state cells, paths, event bus | stream drain / stream cancel / resource close commands, authorized by window |
| command dispatch | `dispatch.mbt`, `ipc*.mbt`, `invoke_contract.mbt` | none | sync, async and stream handlers by route |
| page-side bridge | `bridge.mbt`, hook script of `runtime/bridge_transport.mbt` | `nextId`, pending calls | invoke, timeout and abort, settle, hear events |
| work queue | `runtime/bridge_transport.mbt`, `backpressure.mbt` | `tasks`, `dropped_count` | enqueue under a policy, drain, drain_sync |
| session and host | `runtime/session.mbt`, `step.mbt`, `host.mbt`, `window_lifecycle.mbt`, `frontend_event_bridge.mbt` | windows, mappings, virtual files, services, event targets | open, close, navigate, emit, lifecycle steps |
| native loops | `runtime/linux/linux_backend.c`, `runtime/macos/macos_backend.c`, `runtime/windows/windows_backend.c` | window slots, `live_windows`, drain requests; on Windows which views have called back | script message, handoff packet operations, open, destroy, exit, restart |
| desktop shell | the same files, `plugins/menu`, `plugins/tray` | application menu, menus and shortcuts of windows, registries of command numbers, tray icon and menu, what full screen replaced | set and clear menus, tray records, window-control records, clicks and keys |
| services | the same files, `service_supervisor.mbt`, `runtime/service_supervisor.mbt`, runners | process table, "handlers installed" | start / wait / stop, signal and exit handlers |
| login entries | `plugins/auto_launch` | an entry of the desktop | set, status |
| file dialogs | `plugins/file_dialog` | none | ask, and turn a tool's output into an answer |
| packets and assets | `runtime/native_operations.mbt`, `runtime/asset_packet.mbt`, readers in the backends | none | encode, decode, serve, rewrite URLs |
| event bus | `event_bus.mbt` | `listeners`, `order`, sequence | listen, once, emit, unlisten, remove targets |
| lifecycle and plugins | `lifecycle.mbt`, `plugin*.mbt` | hooks | setup, ready, page load, close requested, closed, will exit |
| capabilities | `capability*.mbt`, `runtime_authorization.mbt`, `operation_scope.mbt`, `security_profile.mbt` | none | decide |
| native operations | `runtime/native_operation*.mbt` | none | execute a list, report |
| launch planning | `runtime/native_launch_*.mbt`, `native_prepared_run.mbt`, `backend_preflight.mbt` | none | compute once |
| bundled runtime | `runtime/bundled` | manifest, session | packaged counterpart of the runtime |
| deployment | `deployment/` | none (reports) | plan a transaction, dry run with rollback |
| bundles, releases, updates | `bundle*`, `release_readiness.mbt`, `update_manifest*.mbt` | none | plan, write, compare versions |
| desktop kit, project, scaffold | `desktop/`, `project/`, `scaffold/` | none | load and generate |
| UI programs | `ui/`, `frontend/` | model of the page | update, render |
| other plugins | `plugins/*` | few (store file, instance lock) | requests to the backends |

### How they interact

A page calls `lepusa.invoke`; the native hook stores the promise and posts a
message.  The backend's script message handler passes it to the loop adapter
(`handoff_packet_bytes`), which decodes and authorizes it and either answers at
once or enqueues a task and returns a "deferred" packet whose operation asks the
loop for a drain.  A packet carries a script and operations (evaluate script,
open window, close window, drain bridge, window control, desktop shell, application
commands); the backend runs the script in the page of the packet's label and then
applies the operations one kind after the other.  Commands may change the
session's windows on the host side while the backend changes its slots; the user
closes windows without the host.  On Windows a window has its page only after two
callbacks of WebView2.  Menus and the tray belong to the application or to a
window and follow the windows as these come and go; the clicks on them travel
back as events.  A stream command opens a channel and gives its handler a sink;
pages drain, cancel and close it by id later.  Around the loop the runner starts
the local services, and the backend's process table, exit handler and signal
handler stop them.

### What is hard, and what correctness means

* **Streams**: sinks outlive their handlers, pages drain when they like, and
  answers get lost.  Correct: a channel is an append-only log whose reader gets
  each message once and in order, nothing follows its end, and no window reads or
  closes what another one owns.
* **Hand-updated parallel structures**: map and order list, channels over
  resources, slots against session.  Correct: they agree after any sequence.
* **Work queue**: an asynchronous drain takes the queue and then waits; offers
  and drains overlap; the policy drops or refuses.  Correct: each accepted call is
  in one place, ends, and what is lost is counted.
* **The native loops**: two lists of windows, a table with a fallback for what it
  does not find, answers that travel twice, scripts that outlive windows, web
  views that come late or fail.  Correct: promises are settled once, by their own
  answer; every call is answered; a command on a label touches only that
  label; a restart leaves one application; the loop ends with the last window.
* **The desktop shell**: menus of the application under menus of windows, numbers
  from registries of limited size, clicks whose messages wait, full screen that
  one platform has to fake.  Correct: a window shows the menu and reacts to the
  shortcuts it should, a click means what was shown, leaving full screen restores.
* **Services**: failures in the middle of a start list, repeated names, a bounded
  table, exits, signals in the middle of native calls.  Correct: no process is
  lost sight of, and none is left when the program ends by itself.
* **Texts**: command lines, login entries, scripts, packets, JSON: each written for
  a reader with rules of its own.  Correct: the reader gets what was meant.

`PROJECT.json` lists each hazard with its line and the properties that
would catch it, or why there is none yet.

## 2. Modules

| Module | Models | Remarks |
|---|---|---|
| `Lists` | how the tables take entries out of their lists | one operator, shared |
| `ResourceTable` | `resource_table.mbt` | all five closes; descriptors that `validate` refuses are inputs |
| `StreamLog` | nothing: the abstract specification of a table of streams | create, write, read, release |
| `ChannelTable` | `channel.mbt` | EXTENDS `ResourceTable` (a channel table is one with more state); `delivered` is a history variable; `Streams` is the refinement mapping to `StreamLog` |
| `AppStreams` | `app_manager.mbt`, `runtime_control.mbt`, `stream.mbt`, stream branch of `dispatch.mbt` | composes `ChannelTable` (EXTENDS) with a second `ResourceTable` (INSTANCE `Plain`), pages of windows, handlers and kept sinks |
| `CallLedger` | nothing: the abstract specification of a queue of deferred calls | accept, refuse, replace the oldest, take all, answer |
| `BridgeQueue` | `NativeBridgeWorkQueue`, `backpressure.mbt` | the policy is chosen at the start, so that one run covers all of them; `Ledger` is the refinement mapping to `CallLedger` |
| `WindowTable` | the slots of the three backends | no specification of its own: the operations under `NativeLoop` and `DesktopShell` |
| `NativeLoop` | packets and handlers of the three backends, the loop adapter, the session's windows, pages | EXTENDS `WindowTable`; the platform is chosen at the start |
| `Menus`, `Tray`, `WindowControls` | menu bars, accelerators and registries; the icon and its menu; full screen and bounds | EXTEND `WindowTable`, each a component of its own |
| `DesktopShell` | the three of them over the same windows | the composition: what each record changes and what follows a window |
| `ServiceRun` | `linux/runner.mbt`, the executor, the process table with its handlers | a native call is split where a signal can tell the difference |
| `Texts` | quoting, escaping, measuring; and the external readers | operators, no variable but the platform; each reader (shell, property list, desktop entry, C runtime, PowerShell, JSON) is a step for one character and its fold |
| `StartedPrograms`, `FileDialogs`, `Packets` | login entries and commands of services; dialogs; handoff packets, assets and URLs | over `Texts` |
| `NativeTexts` | the three of them, with the properties | a behaviour is about one of them |
| `Lists_proofs` | lemmas about lists, folds and texts | what all other proofs rest on |
| `*_proofs` | theorems about the specifications | section 5; `AppStreams_proofs` has those of `ChannelTable` too |
| `MC*` | values for TLC | `ResourceTable` and `ChannelTable` need none |

Definitions called `Broken...` are never part of a specification.  Each is a
plausible bug of the definition that follows it; putting it in that place makes
TLC find a violation, which is how the properties are tested
(`PROJECT.json`, "mutants").  Where the three backends hold the same function three
times, a definition stands for all of them and "map" names one, now of one
platform and now of another.

### Correspondence, module by module

**ResourceTable.** `nextSequence`, `entries`, `order` are the fields of the struct.
An id is the pair of the table's prefix and a number in place of the string
`prefix-n`.  Metadata keeps only the "window" member, the one the code decides by.
`ResourceCloseEntries` filters map and list together as `close_entries` does;
`ResourceClose`, `...CloseHandle`, `...CloseKind`, `...CloseOwner` and
`...CloseAll` choose the ids.

**ChannelTable.** A channel has `next`, `messages`, `closed`, `cancelled`.  `Emit` and
`EmitTerminal` have the guards of `emit` and `emit_terminal` (`Writable`); `Drain`
empties the messages of finished channels too; `ChannelClose` and
`ChannelCloseAll` go through the resource table first and then remove the channel,
in this order, within one call.  Message payloads are left out: order and
kind are what the properties tell apart.

**AppStreams.** A dispatch is one step, but for stream commands: `StreamCommand` opens
the channel, the handler writes through its sink (`SinkWrite`) and ends with
`HandlerOk` or `HandlerErr`, and no other dispatch comes in between (`handling`).
`SinkWrite` stays possible afterwards for a sink that was kept.  `Control` is the
whole of `dispatch_runtime_control`: find the resource in either table, authorize
by the window that made the request, act.  A page is identified by the label of
its window, as in the code; a drain's answer waits in `answers` until the page
takes it or has given up.

**BridgeQueue.** `StartDrain` copies and clears the queue; `Complete` is one iteration
of the loop with its await; `ReturnDrain` returns.  `DrainSync` does it in one
step.  `Enqueue` applies the policy: within the bound, refuse, or drop the oldest
(with a bound of 0 there is none to drop, and the task is refused).  `FateOf` reads
the fate that `CallLedger` keeps of a call off the places its task can be in: the
queue, a drain's batch or completions, the answers, the refusals, or none of them
once it was dropped.

**WindowTable.** Each native window is a frame, 1, 2, 3..., with a label; `slots` holds
the frames of `windows[]`, `shown` the windows that exist.  GTK and AppKit remove a
slot with its window and move the others up (`RemoveSlot`), and show a window that
finds the table full without a slot; Windows keeps the slot for good and only
clears its handle (`LoseHandle`), and creates no window without a slot.  `FindSlot`
has the fallback to the first slot, `ExactSlot` has not.  On Windows `view` is what
WebView2 has called back: the environment creates the windows of the initial
packet, a controller gives a window its page (`ViewReady`) or has a WM_CLOSE posted
to it (`ViewFails`, `closing`).

**NativeLoop.** `session` holds the labels the host believes live, `inbox` and
`scripts` what is on its way from and to each page.  `HandleSync`, `HandleAsync`,
`HandleEmit`, `HandleOpen`, `HandleClose`, `HandleExit`, `HandleRestart` and
`HandleUnknownWindow` are one iteration of the message handler to the last native
operation, the requests for drains it produces included.  `FirstReply` is the page
the packet's script runs in: on macOS only that of the sender.  An answer is
appended twice, by the packet's script and by the evaluate-script operation.
`UserCloses` is the destroy handler alone.  A `window.close` is two records for the
same label, the session's close-window if it had the label and the answer's
window control; `ClosedBy` applies both in turn (`CloseRecord`), each looked up for
itself among the slots the first has left (`FoundAfter`), with the `closed` flag of
the loop over records between them.  Windows does not ask the flag for the second
one, whose slot is still found and has no window left (`Flagged`).  A synchronous
drain refuses asynchronous commands; the work
queue is the unbounded one the loop ships with, so that every task of a drain is
`HandleAsync`'s own on Windows and stays in `deferred` on the other two.

**Menus, Tray, WindowControls, DesktopShell.** A row of a menu is its item and, on
Windows, its number.  `commands` is the registry of menu numbers, which only
grows; `trayCommands` starts anew with each tray menu.  `bar` and `keys` hold what a
frame shows and what it reacts to; shortcuts go by the positions of their rows.
`SetWin32Menus` reads the
menu once per slot, in their order, and registers as it goes; `SetGtkMenus` gives
each window its own bar and accelerator group; AppKit has one bar, kept at
frame 0, and no menus of windows.  A row has a shortcut only if the backend's
`parse_accelerator` understands it (`Parsed`), and on Windows while the table of the slot
has room for it (`TableKeys`, 128 in the code).  `posted` holds the WM_COMMANDs of
clicks that the loop has not handled.  `look` is a Win32 window's style, show state,
rectangle and the one it is restored to; `EnterWin32` keeps it in `saved` before it asks
for the monitor, which may fail and leaves the window as it was, and `LeaveWin32` puts it
back; `Reshape` is what sizes, positions, maximize, minimize and unmaximize do to it in
between.  AppKit's toggle starts a transition, decided by the styleMask of the moment:
`under` holds it, and a toggle meanwhile does nothing (`ToggleAppKit`,
`TransitionGoesOn`).  GTK hands requests to the window manager, which takes them in
turn and may refuse (`TellGtk`, `ManagerActs`).  `Follow` is what opening and
destroying a window does to all of these.  `clicked`, `hidden`, `wanted` and `denied`
are history variables.

**ServiceRun.** `todo` is the rest of the action list; `call` and `hand` say how far a
native start or stop has come and which process only that call knows of.
`Track` is atomic: between the SIGTERM to the old process of the name and the
assignment of the new one, a signal leaves the same processes running as one just
before.  `StartupDone` is the runner's decision after the startup report,
`LastWindowCloses` the destroy handler of the last window followed by the stop
list, `ProgramExits` the exit handler, `Signal` the signal handler or, before it
is installed, plain death.

**Texts and NativeTexts.** A text is a sequence of characters; "ue" is a letter of two
bytes, "BEL" a control character, and an XML entity or a status word of a protocol
is one character.  Each quoting function is translated from its loop: what it
writes for one character, and that for all of them (`Mapped`).  Each reader, those
of the backends (`LineStep`, `DigitStep`, `ParseStep`) and the external ones
(`ShellStep`, `DesktopStep`, `WindowsStep`, `JsonStep`...), is a step: what one
character makes of the mode, the word that is being read, the words that were and a
number; a fold takes it over the text.  Modules and proofs are about any
set of `Characters`, with what is special to a reader among them or not; the assumptions
of `NativeTexts` say only what no text can hold (an entity as one character) and what a
caller cannot ask for (a NUL in an argument: systems take C strings).
`Launchable` is what the plugin validates of a command.  A login entry is what was
written, and `Launched` what the desktop starts from it; `StartService` goes through
the host's command packet, the backend's parser and, on Windows, one command line
in memory of a computed size; a dialog's `Output` goes through the trimming and the
JSON of the backend and the decoding of the plugin (`Arrives`), which takes UTF-8 alone.
Where Windows is handed the host's UTF-8 as 8-bit text (RegSetValueExA, CreateProcessA,
a script of PowerShell) it reads characters of its ANSI code page (`FromAnsi`,
`Misread`), and PowerShell prints in the OEM code page (`Oem`), a byte which no UTF-8
text has there ("81"; "FF" is one of a Linux file name in no encoding).  A tool that
fails ends as it likes (`ToolFails`): with 1, with another code, and PowerShell also
with 0 and no output.  A packet is bytes, and `Handoff` what the loop reads from
them.  Of the 14 fields of an operation record 5 are kept, one of each type.

## 3. Runs

| Run | Question | States | Bounds |
|---|---|---|---|
| `resource_table` | do map and order agree, are ids unique forever? | 7,381 | 4 opens: a close can hit the head, the middle and the tail and leave others; 2 kinds, 2 owners, so that a close by kind or owner takes some and leaves some |
| `channel_table` | are streams exactly-once in order, do both tables agree, is `StreamLog` implemented? | 102,721 | 2 channels, 3 messages each (some drained, some waiting, a terminal one), close and reopen |
| `app_streams` | do streams stay with their window whatever pages ask for? | 250,609 | 2 symmetric windows, 2 channels, 1 other resource, 2 messages, 2 answers under way; any page may name any id |
| `bridge_queue` | is no accepted call lost, repeated, reordered, or left once taken; is `CallLedger` implemented? | 64,192 | 4 tasks, 2 overlapping drains, bounds {-1, 0, 2} x {refuse, drop oldest} |
| `native_loop` | do slots, session and windows agree, are promises settled by their own answers, are calls answered, does each window come up or go? | 369,440 | all three platforms; 2 initial windows and a third label, 3 calls of any kind on Linux and 2 on the others: enough for open-close-open, a close by another window (one record or two), a restart under calls; on macOS 2 slots, so that a third window has none |
| `service_run` | is every process accounted for whatever fails? | 4,872 | plans of 3 or 4 starts with repeated names; a table of 2 slots, so that it overflows |
| `desktop_shell` | do menus, shortcuts, registries, the tray and full screen stay in step with the windows? | 338,801 | all three platforms; 1 initial window and a second label, 4 records on Linux and 3 on the others (full screen twice and back, a menu of the application and of a window and a further window), 1 click whose message waits; 1 slot on macOS; 5 menu numbers, 2 tray numbers and tables of 1 shortcut, so that all three run out; a shortcut only GTK can parse |
| `native_texts` | does each reader get the text that was meant? | 4,535 | texts of up to two characters out of all that is special to one of the readers (some of three and of ten), bytes that are no UTF-8 among them, up to two arguments, three records, lengths of one and two digits |

Runs that show a disagreement between the code and what the repository says of it
(Linux, two initial windows, 2 calls, the shortest instance with the case):

| Run | Violated | What happens |
|---|---|---|
| `native_loop_close` | `CloseDestroysItsLabel` | `window.close` of a label without a slot destroys the first slot's window |
| `native_loop_open` | `OpenShowsItsLabel` | after the user closed a window, opening it again is approved and does nothing |
| `native_loop_dynamic` | `EveryWindowAnswered` | calls from windows opened at run time are never answered |
| `native_loop_async` | `AsyncCallsAnswered` | GTK's and AppKit's loops do not read the operations of a deferred packet, so that the drain it asks for never runs |

On the last one: `README.mbt.md:295-297` speaks of loops that do not support deferred
asynchronous scheduling yet, as a reason to register synchronous handlers;
`docs/ARCHITECTURE.md:261` says that the loops do parse and execute the drain.  The
finding is about the latter.

Why the bounds are enough: none of the modelled operations compares more than two
ids, windows or drains with each other, and each bound leaves one more than the
operation at hand touches; counters appear only in comparisons with a limit, and
each limit is reached.  Readers and writers of texts keep a mode of a few values
between two characters (inside quotes, after a backslash), so that two characters
reach each transition from each mode and two words each separation.  The
theorems of section 5 lift most of this to every value.

The runs `native_loop*`, `desktop_shell` and `service_run` do not check for deadlock:
the calls of a behaviour are bounded and the program may end.  All others do.

### Fairness

* `QueueSpec`: weak fairness of the steps of a drain that was started, `Complete` and
  `ReturnDrain`: handlers return.  Starting a drain is not fair.  `receive_message`
  enqueues a call and drains at once (an interleaving of `Enqueue` and `StartDrain`
  here), but the loops of GTK and AppKit never ask for one and that of Windows uses
  `drain_sync`, so nothing guarantees that a waiting task is taken.  Offers are not
  fair either.
* `LoopSpec`: weak fairness of handling a page's next message, of evaluating a
  page's next script, of each callback of WebView2 and of a posted WM_CLOSE.  The
  loops serve every ready source, web processes run the scripts they are sent, and
  WebView2 calls its completion handlers once, with success or an error.  Calls
  and user actions are not fair.
* `ServiceSpec`: weak fairness of the runner's next step: it is one thread, and its
  waits have deadlines.  One thing is assumed that the code does not enforce: a
  probe receives without a deadline (`linux_backend.c:3609`), so a service that
  accepts its connection and then stays silent would hold the wait.  Nobody has to
  close a window, signal or exit.
* `ResourceSpec`, `ChannelSpec`, `AppSpec`, `DesktopSpec`, `TextSpec` state safety only:
  nothing in these acts by itself.

## 4. What the properties say

Each module with a run of its own has one type invariant (`...TypeOK`), but for
`NativeTexts`.  The others:

* `OrderIsOpeningOrder`, `NeverReopened`: the order list is the map's ids by
  number; an id that is gone never comes back, so that a page with an old id
  cannot reach a new resource.
* `TablesAgree`, `StreamIntact`, `ImplementsStreams`: channel map, channel order and
  resource table name the same ids; delivered and waiting messages together are
  numbered without gap; the table implements `StreamLog`.
* `MessagesStayWithTheirWindow`, `NoMessageTwice`, `CommandsStayInTheirWindow`: over
  pages, handlers, kept sinks and lost answers.  That nothing is *lost* is not
  claimed: an answer the page gave up on is gone, by the design of the drain.
* `WithinCapacity`, `NothingLostOrRepeated`, `BatchesInArrivalOrder`,
  `ImplementsLedger`, `TakenTasksEnd`: the queue.  `ImplementsLedger` is the promise
  as a page sees it: its call is decided once, waits in its turn, gives way to a newer
  one only when it is the oldest, and once a drain has taken it can only be
  answered, whatever other drains and offers do in the meantime.  `TakenTasksEnd` says
  that it is answered then.  That a waiting call is taken at all is not claimed: it
  is kept (`NothingLostOrRepeated`) until somebody drains, and in the loops of GTK and
  AppKit nobody does (the violated `AsyncCallsAnswered`).
* `SlotsKnownToSession`, `WindowsAreCounted`, `OwnAnswers`, `InitialWindowsAnswered`:
  the loops.  The last is stated for windows of the launch; for all windows it
  is the violated `EveryWindowAnswered`.  Three of them have the premise
  `SlotsSuffice`: with full slots GTK and AppKit show a window that nobody counts,
  and the answer to its call goes to the page of the first slot.
* `CloseTakesOne`: the two close records of one `window.close` take the window of
  its label if that is in a slot, and otherwise one window at most.  By the second the
  first has taken the slot away, and the lookup falls back to the first slot: without
  the flag (`BrokenCloseRecord`) another window would go.
* `RestartReplaces`: the application is started again at most once, and then the old
  one has no window in a slot and its loop has ended.
* `WindowsComeUpOrGo`: whatever WebView2 does, in the end each window has its page or
  is gone, and no loop runs on without a window.
* `AppMenuShown`, `ShortcutsMatchMenu`: a window without a menu of its own shows the
  application's menu of the moment (on Windows until the registry is full), and
  reacts to shortcuts of the menu it shows and to no others: to that of every row its
  backend understands, on Windows if the row is enabled and one of the first as many as
  the table holds.
* `ClicksMeanWhatWasShown`, `TrayRowsHonest`: a menu number is never given to another
  item, although the click's message may be handled after menus were replaced;
  the rows of the tray's menu stand for what they show.  Of tray *clicks* that
  wait while the menu is replaced this does not hold, for their numbers start
  anew, and nothing promises it.
* `FullscreenAsSaid`: once nothing is under way a window is in full screen or not as
  page or user said last, unless that was denied: the window manager refused, the
  transition failed, there was no monitor to ask for, or it was the opposite of a
  transition under way, which AppKit ignores.  Out of full screen a Win32 window has
  its frame, does not cover the monitor and is not restored to that, whatever was
  maximized, minimized or moved in between.
* `NothingRunsUnseen`, `NoServiceOutlivesTheRun`, `SignalStrandsOneAtMost`,
  `LoopHasItsServices`, `FailedRunsEnd`: the services.  One process can be
  stranded by a signal, between spawn and track or between untrack and kill; the
  run and the proof show that it is never more.
* `ProgramsGetTheirArguments`, `ChoiceArrives`, `PacketsArrive`: texts.  What they
  exempt they name: commands a login entry is not made for (`Startable`: with line
  breaks, between which the plugin hands the arguments over; on Linux with a
  character the launcher unescapes twice; on Windows with a quote, or an argument
  with blanks), on Windows commands with letters of more than a byte, which
  RegSetValueExA and CreateProcessA take for others (`Narrow`), runs of backslashes
  in a Windows service's arguments, which come out
  longer (`Squeezed`), paths whose line breaks the tools' output does not keep or
  with a control character that the answer's JSON does not escape (`Kept`), on
  Windows a dialog's texts with such letters or line breaks (`Written`), what
  follows a NUL, one slash of a URL, and on Windows a page that names the host
  which stands for the scheme there.  Paths that the tool does not write as UTF-8
  (`Legible`) have to be answered as a failure; a failing tool may be told as a
  cancel on Linux and Windows, on Windows even as a choice of nothing, but never as a path.

## 5. Proofs

Checked by TLAPS for every value of the constants that satisfies the module's
named assumptions.

* `Lists_proofs` - lemmas about `Without`: what filtering a list keeps, in
  which order, and that nothing is repeated that was not.  The tables and
  the native loops rest on them.  Then lemmas about folds and texts.  A fold over a
  sequence is a run (`Run`): a function of the places, with the state after each
  character; it exists, there is one only, and the fold of the community modules is
  its end.  What holds of all the states of a run is then shown by induction over places,
  as the least place where it fails (`SmallestOf`).  Last come facts
  about sequences: prefixes, what a text cut in two is, where the elements of texts
  that are taken together (`FlattenSeq`) come from.
* `ResourceTable_proofs` - `ResourceTypes`, `OrderTheorem`, `NeverReopenedTheorem`,
  from `ResourceAssumption`.  Inductive invariant
  `ResourceInv == ResourceTypeOK /\ OrderIsOpeningOrder`: the order of the list is
  needed to show that an appended id is new, the types that its number is the
  largest.  `NeverReopened` follows from each step's effect on the counter.
* `AppStreams_proofs`, on `ChannelTable` - `ChannelTypes`, `TablesTheorem`, `StreamTheorem`,
  `StreamsTheorem`, `ChannelIdsTheorem`, from `ChannelAssumption` besides.  Inductive invariant
  `ChannelInv == ResourceInv /\ ChannelTypeOK /\ TablesAgree /\ StreamIntact`: the
  agreement of the tables is needed for "close all", which takes the ids of one
  structure and removes from another; the stream part for writes, which must find
  `next` one beyond what was written.  `StreamsTheorem` is the refinement: initial
  states map to initial states, and under the invariant every step maps to a
  step of `StreamLog` or to none.  `ChannelIdsTheorem` goes the other way, down: each
  step of a channel table is a step of the resource table under it, or none, so
  that what holds of `ResourceSpec` holds here.
* `AppStreams_proofs`, on `AppStreams` - `AppTypesTheorem`, `IsolationTheorem`, `NoMessageTwiceTheorem`,
  `OwnWindowTheorem`, `TablesUsedTheorem`, `AppStreamsTheorem`, `OldIdsTheorem`, from
  `AppAssumption` besides.  The invariant `AppInv` adds to
  `ChannelInv`, and to the invariant of the second table, taken over from
  `ResourceTable_proofs` by INSTANCE, that a channel's owner is the one its
  resource names (`OwnerInv`), that what a page has or will get was drained from
  a channel of its own (`HeardInv`), and that no number is in two answers
  (`Once`); ids of the two tables differ by their prefix.  `TablesUsedTheorem` shows
  that the application touches its tables by their operations alone: its steps are
  steps of `ChannelSpec` and of the second table's `ResourceSpec`.  By it the
  refinement of `StreamLog` (`AppStreamsTheorem`) and that no id is given twice
  (`OldIdsTheorem`) carry over to windows, handlers and pages without a second proof.
* `BridgeQueue_proofs` - `QueueTypesTheorem`, `CapacityTheorem`, `OnePlaceTheorem`,
  `ArrivalOrderTheorem`, `OldestTheorem`, `LedgerTheorem`, from `QueueAssumption`.  The invariant
  `QueueInv` adds that the places of a task exclude each other (`InOnePlace`), that
  what is anywhere has arrived (`Arrived`), that tasks, answers and drops add up
  to the arrivals (`Counted`), and the order of the queue itself
  (`TasksInOrder`): a batch is a copy of the queue and inherits it.  `LedgerTheorem` is
  the refinement of `CallLedger`: that a task is in one place makes its fate
  unambiguous, and every step maps to a decision, a taking, an answer or a stutter.
  `OldestTheorem` is about a step property stated there, `OldestGoesFirst`: the drop
  seen from the queue, which the run checks as part of the ledger.
* `NativeLoop_proofs` - `LoopTypesTheorem`, `SessionTheorem`, `CountedTheorem`,
  `AnswersTheorem`, `RestartTheorem`, `CloseTheorem`, from `TableAssumption` and
  `LoopAssumption`, on every platform.  The invariant is
  `LoopInv == HostInv /\ PageInv /\ AnswerInv`.  `HostInv` is about windows and
  session: one slot per label, which slots a platform may have, `live` counts, the
  loop runs as long as `live` is positive, and the session knows what is in
  slots; the number of windows in slots is needed since the code ends the loop by
  counting.  `PageInv` ties calls, messages and windows to the budget: frames are
  numbered within a bound because every window opened at run time has used up
  a message.  `AnswerInv` says that a page's scripts hold only answers to its own
  calls while the slots suffice, without which `OwnAnswers` is not inductive.
  `CloseTheorem` follows the two records (`RecordsCloseOnce`): once the flag is set no
  record takes a window, and on Windows, where the second goes without it, that one
  finds the slot of the first again, whose window is gone.
* `ServiceRun_proofs` - `ServiceTypes`, `NothingUnseen`, `NoneOutlives`,
  `SignalStrandsOne`, `CompleteSetTheorem`, `NoTwinsTheorem`, from `ServiceAssumption`.  The inductive
  invariant `ServiceInv` adds to the properties that one process at most is in hand
  (`OneInHand`), that before the handlers are installed the table holds nothing but
  the process of the start under way (`BareBeforeHandlers`: exits and signals
  clean nothing up at that time), and that a handled signal leaves only the hand
  (`KilledLeavesHand`).  `CompleteSetTheorem` has an invariant of its own, on top: how
  far a start list without a failure has come, and that each slot has a process
  of its name.  `NoTwinsTheorem` rests on the latter: of two services of one name
  one runs, for what runs is in the table or in hand, and what a stop has in hand
  has no namesake in the table (`UntrackedIsAlone`).
* `DesktopShell_proofs` - `DesktopTypesTheorem`, `AppMenuTheorem`, `ShortcutsTheorem`,
  `NumbersTheorem`, `ClicksTheorem`, `OwnMenusTheorem`, `TrayTheorem`,
  `FullscreenTheorem`, from the assumptions of the parts, on every platform.  The
  invariant is `DesktopInv /\ FurnitureInv`.  `DesktopInv` is for full screen: the last
  request under way, or else the window, is as was said (`Heard`); of a Win32 window
  in full screen what is kept is framed and does not cover the monitor, and, if
  that was maximized or minimized, the place it is restored to now is not the
  monitor either (`Win32Look`), for `LeaveWin32` puts back the state and the
  rectangle but the window system keeps that place; and windows keep within the
  frames the maps are over.
  `FurnitureInv == SlotsInv /\ MenuInv /\ ClickInv /\ TrayInv`: slots without
  repetition; shortcuts that belong to the bar they are beside, for the windows
  on the screen and for those to come (which have no bar yet), and every row that
  Win32 shows with a number that the registry gave to its item; messages only to
  windows that are shown, with numbers the registry gave to what was shown; rows
  of the tray in step with the tray's registry.  Three arguments carry it.  The
  registry only grows at its end (`NumbersTheorem`, an action property), so a row
  and a message keep their meaning while later menus are set.  Win32 sets a menu
  slot by slot, and the rows of the n-th slot get their numbers after those of the
  slots before: remainders (`Remainder`) take a number back to its item, and a
  count, fewer windows before one than in all, keeps it within what was registered.
  And opening or destroying windows takes no frame back and shows no old one
  again (`TableMoves`), which is all the furniture needs to know of it.
  `OwnMenusStay` is stated there: a window with a menu of its own keeps bar and
  shortcuts until a page sets that window's menu.

* `NativeTexts_proofs` - `ArgumentsArrive`, `ChoicesArrive`, `PacketsDoArrive`: for texts
  of any characters and any length, any number of words, paths and records, and
  numbers of any number of digits up to 32 bits, on every platform.  From
  `PlatformsAssumption`, `CharactersAssumption`, `CommandsAssumption`, `DialogsAssumption`,
  `PacketsAssumption` and `OperationsAssumption`.  The three parts do not touch each
  other, and each has an invariant of its own.  `PacketsArrive` is inductive as it
  stands.  `DialogsInv` adds to `ChoiceArrives` which dialogs there can be, without
  which an answer would be one to a question nobody asked.  `ProgramsInv` adds that the
  entry on disk is what the last success wrote, or torn, or none (`EntryMade`): the
  property relates what starts at the next login to what was meant some
  steps ago.  All the rest is about data, in five layers:
  * a step of a reader is a function here, and its fold a run;
  * a writer's text is a sequence of codes, one for each character, between two marks.
    A reader that takes every code for its character takes the text for what it
    was: shown once for any reader and code, and used for each quoting function
    with its reader.  XML has entities in place of codes; a desktop entry is taken
    apart twice;
  * words that are quoted one by one, with a separator between them, come out as
    the words.  On Windows a word that is not quoted and the doubled backslashes need
    an argument of their own: the words arrive but for runs of backslashes
    (`Squeezed`), and the line has room for them as `RoomStep` counts it;
  * a packet is parts, each behind its length in decimal.  The decimal of a number is
    digits and reads as the number; the length is one of bytes, and so is what the reader
    skips; lines and parts come out in turn, a record as its fields, records
    as a sequence;
  * C strings up to their first NUL, URLs back and forth;
  * conversions between UTF-8 and code pages: what a text of one-byte letters stays
    through each, and that a path with another letter leaves a byte in the output that
    the decoding refuses, wherever it stands and whatever JSON makes of the rest.

Only model-checked: the liveness properties (`TakenTasksEnd`,
`InitialWindowsAnswered`, `WindowsComeUpOrGo`, `FailedRunsEnd`), which are out of the
prover's reach with fairness and ENABLED; and the four properties that the code
violates.  Every invariant and every action property of the passing runs is a
theorem.

The library's theorems on induction take an operator as parameter, which the
provers cannot instantiate.  What a fold computes is therefore shown with
a set: the numbers of places up to which the claim fails has a least one unless
it is empty.  Recursive functions (`Decimal`) exist by the same argument.  Readers,
codes and their claims are functions or sets in the lemmas, so that these can be cited
for each of them.

## 6. Not modelled, and why

* Of the backends: the loading of GTK, WebKit and WebView2 and the classes made at
  run time (symbol tables without behaviour), the settings of web views, controls
  that only show, hide or name a window, and on GTK and AppKit its size and place,
  the list of 32 drain requests of one message, labels longer than a slot's array.
* Of menus: submenus nested deeper than 8, which the backends drop (`depth > 8`), ids
  longer than the 128 bytes a command's slot has room for, the spellings of keys
  (`Understood` says which shortcuts a backend parses), check marks.
  `menu.setItemEnabled` and `menu.setItemChecked` are commands of the plugin
  (`plugins/menu/menu.mbt:335`), which updates its own copy; no backend has a branch for
  their records, so that the menu on the screen stays as it is.
* What WebViews do to a URL before it is a request (normalization of paths, case and
  escapes): `Load` has the URL as it was rewritten.
* Whether PowerShell runs the script at all: its file has a name that ends in .tmp,
  which `-File` may refuse.  The model has both cases, and of a refusal every exit code.
  Of code pages one letter of more than a byte, "ue", stands for all.
* Of the plugins: the clipboard, the opener and notifications hand one text to one
  tool after another until one takes it, and keep no state; the others call a
  backend once and return its answer.  Of `auto_launch` the directories it makes.
* A login entry's "hidden" flag and a dialog's filters and title.
* Capabilities and scopes: in `AppStreams` and `NativeLoop` every command is one the
  window may call; decisions are pure functions and planned as operators.
* SIGKILL, and services that ignore SIGTERM: `told` means that SIGTERM was sent.
  `kill` is not refused, for the services run under the program's user.  The process
  tables of macOS and Windows are not modelled apart: they have the same 64 slots,
  order and exit handler; Windows hears console events in place of signals and
  ends processes with TerminateProcess.
* Reloads of a page in `NativeLoop` (call ids start anew) and the bounded policies of
  the queue inside the loop: hazards with a note.
* The event bus, lifecycle hooks, the session's services and virtual files: planned.
* Launch planning, bundles, releases, project loading, scaffolding, rendering: values
  computed once or text written to files.

## 7. Plan

Order of the work, the most important behaviour first.  Done: 1 to 9.

1. `ResourceTable`, `StreamLog`, `ChannelTable`: the state under every stream.
2. `AppStreams`: windows, handlers and pages over it.
3. `BridgeQueue`: calls that wait.
4. `NativeLoop`: windows and calls end to end, on Linux.
5. `ServiceRun`: processes.
6. `WindowTable` and `NativeLoop` on the three platforms, with exit, restart and the
   callbacks of WebView2.
7. `DesktopShell` with `Menus`, `Tray`, `WindowControls`.
8. `NativeTexts` with `Texts`, `StartedPrograms`, `FileDialogs`, `Packets`.
9. Proofs: the refinements of `StreamLog` and `CallLedger`, isolation in `AppStreams`,
   conservation in `BridgeQueue`, windows and answers in `NativeLoop`, all safety of
   `ServiceRun` and of `DesktopShell`, the readers and writers of `NativeTexts`.
10. `EventBus` with the window session: listeners, once-listeners and targets while
    windows open, close and navigate (`event_bus.mbt`, `runtime/step.mbt`,
    `runtime/window_lifecycle.mbt`), lifecycle hooks that fail, plugin setup.
    Properties: no delivery to a closed target, once means once, the session's four
    lists agree.
11. `Deployment`: transaction plans and the dry-run executor with rollback, against
    an abstract all-or-nothing install.
12. `Authorization`: capability policy and operation scopes as operators, checked
    against a reference definition over small capability sets.
13. `NativeOperations`: the executor's order and report, the exit decision.
14. The bundled runtime; the queue with bounded policies inside of the loop; page
    reloads.
15. Abstract specifications of the windows (what a page may assume of open, close and
   exit) and of the services, with `NativeLoop` and `ServiceRun` shown to implement them.
