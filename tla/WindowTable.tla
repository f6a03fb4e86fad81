----------------------------- MODULE WindowTable -----------------------------
(***************************************************************************)
(* The windows of a native loop and the table the backend finds them by:   *)
(* GTK's (runtime/linux/linux_backend.c), AppKit's (runtime/macos/         *)
(* macos_backend.c) and Win32's with WebView2 (runtime/windows/            *)
(* windows_backend.c).  A behaviour is one on one of the platforms.        *)
(*                                                                         *)
(* The three tables have 32 slots and the same lookups.  GTK and AppKit    *)
(* remove a slot with its window, and show a window that finds them full   *)
(* without one; Windows keeps the slot of a destroyed window for good,     *)
(* creates no window without a slot, and has a page in a window only when  *)
(* the environment and then the window's controller have called back.      *)
(*                                                                         *)
(* Each window that is ever created is a frame, 1, 2, 3...                 *)
(***************************************************************************)
EXTENDS Naturals, Sequences, FiniteSetsExt, Lists

CONSTANTS
  Platforms,  (* some of "linux", "macos" and "windows"                     *)
  Labels,     (* window labels                                              *)
  Initial,    (* labels of the windows the application starts with          *)
  MaxSlots,   (* platform -> the slots of the backend: 32 in the code       *)
  MaxCalls    (* platform -> bound on the calls of a behaviour              *)

InitialLabels == {Initial[i] : i \in DOMAIN Initial}

ASSUME TableAssumption ==
  /\ Platforms \subseteq {"linux", "macos", "windows"}
  /\ IsFiniteSet(Labels)
  /\ Initial \in Seq(Labels) /\ Initial # <<>>
  /\ Cardinality(InitialLabels) = Len(Initial)
  /\ MaxSlots \in [Platforms -> Nat \ {0}]
  /\ MaxCalls \in [Platforms -> Nat]

VARIABLES
  platform,  (* the platform of this behaviour                              *)
  frames,    (* the label of every frame created so far                     *)
  shown,     (* the frames that were not destroyed                          *)
  slots,     (* windows[0 .. window_count - 1]: the frames in slots         *)
  live,      (* live_windows                                                *)
  view,      (* frame -> what there is of its web view                      *)
  closing,   (* frames with a WM_CLOSE in the queue                         *)
  running    (* the loop has not been told to quit                          *)

tableVars == <<platform, frames, shown, slots, live, view, closing, running>>

Frames == 1 .. Len(Initial) + Max({MaxCalls[p] : p \in Platforms})

Lesser(m, n) == IF m < n THEN m ELSE n

(* On Windows the loop starts without a window.                            *)
TableInit ==
  /\ platform \in Platforms
  /\ closing = {}
  /\ running = TRUE
  /\ IF platform = "windows"
     THEN /\ frames = <<>> /\ slots = <<>> /\ shown = {} /\ live = 0
          /\ view = [f \in Frames |-> "none"]
     ELSE /\ frames = Initial
          /\ shown = DOMAIN Initial
          /\ live = Lesser(Len(Initial), MaxSlots[platform])
          /\ slots = [i \in 1 .. live |-> i]
          /\ view = [f \in Frames |-> IF f \in shown THEN "ready" ELSE "none"]

-----------------------------------------------------------------------------
Slotted == {slots[i] : i \in DOMAIN slots}

(* find_window_slot_exact, on Windows also of a window that is gone.       *)
ExactSlot(label) == {f \in Slotted : frames[f] = label}

(* find_window_slot: a label that is in no slot gets the first one.        *)
FindSlot(label) ==
  IF ExactSlot(label) # {} \/ slots = <<>> THEN ExactSlot(label) ELSE {slots[1]}

(* The frames whose page an ExecuteScript reaches: on Windows a slot may   *)
(* have no view yet, or the closed view of a window that is gone.          *)
Reachable(f) == f \in shown /\ view[f] = "ready"

(* Broken: the window leaves the screen, and its slot is not removed.      *)
BrokenRemoveSlot(gone) == UNCHANGED <<slots, live>>

(* window_destroyed and window_will_close with remove_window_slot: the     *)
(* slots behind move up; not all frames have a slot.                       *)
RemoveSlot(gone) ==
  /\ Without(slots, gone, slots')
  /\ live' = live - Cardinality(gone \cap Slotted)

(* WM_DESTROY: the slot only loses its window handle.                      *)
LoseHandle(gone) ==
  /\ live' = live - Cardinality(gone)
  /\ UNCHANGED slots

(* Of the frames found, those that are still windows go; the last one ends *)
(* the loop.  Messages posted to a window die with it.                     *)
Destroy(found) ==
  LET gone == found \cap shown
  IN  /\ shown' = shown \ gone
      /\ closing' = closing \ gone
      /\ IF platform = "windows" THEN LoseHandle(gone) ELSE RemoveSlot(gone)
      /\ running' = IF gone = {} THEN running ELSE live' > 0
      /\ UNCHANGED <<platform, frames, view>>

(* Broken: forward, so that each removal moves the next slot out of sight. *)
BrokenAllSlots == {slots[i] : i \in {j \in DOMAIN slots : j % 2 = 1}}

(* close_all_windows goes through the slots from the last to the first.    *)
AllSlots == {slots[i] : i \in DOMAIN slots}

-----------------------------------------------------------------------------
(* open_window_from_record with register_window_slot on GTK and AppKit.    *)
OpenFrame(label) ==
  LET new == Len(frames) + 1
      full == Len(slots) = MaxSlots[platform]
  IN  /\ frames' = Append(frames, label)
      /\ shown' = shown \cup {new}
      /\ slots' = IF full THEN slots ELSE Append(slots, new)
      /\ live' = IF full THEN live ELSE live + 1
      /\ view' = [view EXCEPT ![new] = "ready"]
      /\ UNCHANGED <<platform, closing, running>>

(* create_window_slot; WebView2 may refuse the controller at once, and the *)
(* new window is destroyed again.                                          *)
CreateSlot(label) ==
  LET new == Len(frames) + 1
  IN  IF Len(slots) = MaxSlots[platform] THEN UNCHANGED tableVars
      ELSE /\ frames' = Append(frames, label)
           /\ slots' = Append(slots, new)
           /\ \/ /\ shown' = shown \cup {new}
                 /\ live' = live + 1
                 /\ view' = [view EXCEPT ![new] = "pending"]
              \/ UNCHANGED <<shown, live, view>>
           /\ UNCHANGED <<platform, closing, running>>

OpenWindow(label) ==
  IF ExactSlot(label) # {} THEN UNCHANGED tableVars
  ELSE IF platform = "windows" THEN CreateSlot(label) ELSE OpenFrame(label)

(* The environment answers: without it, or without a first window, the     *)
(* loop quits; else the windows of the initial packet follow.              *)
EnvironmentFails ==
  /\ platform = "windows" /\ frames = <<>> /\ running
  /\ running' = FALSE
  /\ UNCHANGED <<platform, frames, shown, slots, live, view, closing>>

EnvironmentReady ==
  /\ platform = "windows" /\ frames = <<>> /\ running
  /\ \E refused \in SUBSET DOMAIN Initial :
       LET created == IF 1 \in refused THEN 1 ELSE Lesser(Len(Initial), MaxSlots[platform])
       IN  /\ frames' = SubSeq(Initial, 1, created)
           /\ slots' = [i \in 1 .. created |-> i]
           /\ shown' = 1 .. created \ refused
           /\ live' = Cardinality(shown')
           /\ view' = [f \in Frames |-> IF f \in shown' THEN "pending" ELSE "none"]
           /\ running' = (live' > 0)
  /\ UNCHANGED <<platform, closing>>

(* The controller of a window arrives, its page with it, or the creation   *)
(* failed; so it may for a window that is gone meanwhile.                  *)
ViewReady(f) ==
  /\ view[f] = "pending"
  /\ view' = [view EXCEPT ![f] = "ready"]
  /\ UNCHANGED <<platform, frames, shown, slots, live, closing, running>>

(* Broken: a window without a page stays on the screen.                    *)
BrokenViewFails(f) ==
  /\ view[f] = "pending"
  /\ view' = [view EXCEPT ![f] = "failed"]
  /\ UNCHANGED <<platform, frames, shown, slots, live, closing, running>>

(* No controller, no view of it, or a view that cannot load its URL.       *)
ViewFails(f) ==
  /\ view[f] = "pending"
  /\ \E there \in {"failed", "ready"} : view' = [view EXCEPT ![f] = there]
  /\ closing' = closing \cup ({f} \cap shown)
  /\ UNCHANGED <<platform, frames, shown, slots, live, running>>

-----------------------------------------------------------------------------
(* There was a slot for every window so far, be it that there are as many  *)
(* slots as labels, or as windows; on Windows there is no other window.    *)
SlotsSuffice ==
  \/ platform = "windows"
  \/ Cardinality(Labels) <= MaxSlots[platform]
  \/ Len(frames) <= MaxSlots[platform]

=============================================================================
