--------------------------- MODULE WindowControls ---------------------------
(***************************************************************************)
(* The window-control records of pages that change what a window looks     *)
(* like.  Win32 has no full screen: the backend takes the frame away,      *)
(* covers the monitor and puts back what it kept, at once; AppKit only     *)
(* toggles, in a transition that takes its time; GTK hands a request to    *)
(* the window manager.  What only shows or hides a window is left out, and *)
(* so is on GTK and AppKit where a window is and how large.                *)
(***************************************************************************)
EXTENDS WindowTable

VARIABLES
  full,    (* frame -> in full screen: slot->fullscreen, the styleMask, or  *)
           (* what the window manager made of it                            *)
  look,    (* frame -> on Windows its style, its show state, its rectangle  *)
           (* and the one it is restored to                                 *)
  saved,   (* frame -> restore_style and restore_rect                       *)
  under,   (* frame -> what the window system was asked and has not done    *)
  wanted,  (* history: frame -> what a page or the user last said of it     *)
  denied   (* history: frames that were last refused, or asked for the      *)
           (* opposite of the transition under way                          *)

controlVars == <<full, look, saved, under, wanted, denied>>

Rects == {"first", "asked", "work", "monitor", "icon"}

Looks == [style: {"framed", "bare"}, state: {"restored", "maximized", "minimized"},
          rect: Rects, normal: Rects]

Normal == [style |-> "framed", state |-> "restored", rect |-> "first", normal |-> "first"]

ControlInit ==
  /\ full = [f \in Frames |-> FALSE]
  /\ look = [f \in Frames |-> Normal]
  /\ saved = [f \in Frames |-> Normal]
  /\ under = [f \in Frames |-> <<>>]
  /\ wanted = [f \in Frames |-> FALSE]
  /\ denied = {}

-----------------------------------------------------------------------------
(* Win32: SetWindowPos, which changes where a window is restored to only   *)
(* when it is neither maximized nor minimized.                             *)
Placed(l, r) ==
  [l EXCEPT !.rect = r, !.normal = IF l.state = "restored" THEN r ELSE @]

(* ShowWindow with SW_MAXIMIZE or SW_MINIMIZE; a bare window may be        *)
(* maximized over the whole monitor.                                       *)
Shown(l, state) ==
  LET rects == IF state = "minimized" THEN {"icon"}
               ELSE IF l.style = "bare" THEN {"work", "monitor"} ELSE {"work"}
  IN  IF l.state = state THEN {l}
      ELSE {[l EXCEPT !.state = state, !.rect = r,
                      !.normal = IF l.state = "restored" THEN l.rect ELSE @] : r \in rects}

(* ShowWindow with SW_RESTORE: a minimized window may have been maximized. *)
Restored(l) ==
  IF l.state = "restored" THEN {l}
  ELSE {[l EXCEPT !.state = "restored", !.rect = l.normal]}
         \cup IF l.state = "minimized" THEN Shown(l, "maximized") ELSE {}

(* Broken: a window that is in full screen enters it again.                *)
BrokenEnterWin32(f) ==
  /\ saved' = [saved EXCEPT ![f] = look[f]]
  /\ look' = [look EXCEPT ![f] = Placed([@ EXCEPT !.style = "bare"], "monitor")]
  /\ full' = [full EXCEPT ![f] = TRUE]
  /\ UNCHANGED denied

(* What is restored later is kept before the monitor is asked for, which   *)
(* may fail.                                                               *)
EnterWin32(f) ==
  IF full[f] THEN UNCHANGED <<full, look, saved, denied>>
  ELSE /\ saved' = [saved EXCEPT ![f] = look[f]]
       /\ \/ /\ look' = [look EXCEPT ![f] = Placed([@ EXCEPT !.style = "bare"], "monitor")]
             /\ full' = [full EXCEPT ![f] = TRUE]
             /\ denied' = denied \ {f}
          \/ /\ denied' = denied \cup {f}
             /\ UNCHANGED <<full, look>>

LeaveWin32(f) ==
  /\ look' = IF full[f]
             THEN [look EXCEPT ![f] =
                    Placed([@ EXCEPT !.style = saved[f].style, !.state = saved[f].state],
                           saved[f].rect)]
             ELSE look
  /\ full' = [full EXCEPT ![f] = FALSE]
  /\ denied' = denied \ {f}
  /\ UNCHANGED saved

SetWin32(f, on) ==
  /\ IF on THEN EnterWin32(f) ELSE LeaveWin32(f)
  /\ UNCHANGED under

(* toggleFullScreen, only if the styleMask is not as it should be: AppKit  *)
(* ignores it while a transition is under way.                             *)
ToggleAppKit(f, on) ==
  /\ under' = IF full[f] # on /\ under[f] = <<>> THEN [under EXCEPT ![f] = <<on>>] ELSE under
  /\ denied' = IF under[f] # <<>> /\ under[f] # <<on>> THEN denied \cup {f} ELSE denied \ {f}
  /\ UNCHANGED <<full, look, saved>>

(* gtk_window_fullscreen and gtk_window_unfullscreen                       *)
TellGtk(f, on) ==
  /\ under' = [under EXCEPT ![f] = Append(@, on)]
  /\ denied' = denied \ {f}
  /\ UNCHANGED <<full, look, saved>>

SetFullscreen(label, on) ==
  LET found == FindSlot(label) \cap shown
  IN  IF found = {} THEN UNCHANGED controlVars
      ELSE \E f \in found :
             /\ CASE platform = "windows" -> SetWin32(f, on)
                  [] platform = "macos" -> ToggleAppKit(f, on)
                  [] platform = "linux" -> TellGtk(f, on)
             /\ wanted' = [wanted EXCEPT ![f] = on]

(* setSize and setPosition, maximize and minimize, unmaximize: also of a   *)
(* window in full screen.                                                  *)
Reshaped(l) ==
  {Placed(l, "asked")} \cup Shown(l, "maximized") \cup Shown(l, "minimized") \cup Restored(l)

Reshape(label) ==
  /\ platform = "windows"
  /\ \E f \in FindSlot(label) \cap shown :
       \E l \in Reshaped(look[f]) : look' = [look EXCEPT ![f] = l]
  /\ UNCHANGED <<full, saved, under, wanted, denied>>

-----------------------------------------------------------------------------
(* The window manager takes the next request, and may refuse it.           *)
ManagerActs(f) ==
  /\ platform = "linux"
  /\ \/ full' = [full EXCEPT ![f] = Head(under[f])] /\ UNCHANGED denied
     \/ /\ denied' = IF Len(under[f]) = 1 THEN denied \cup {f} ELSE denied
        /\ UNCHANGED full
  /\ under' = [under EXCEPT ![f] = Tail(@)]

(* A transition ends with the style or after it, or fails.                 *)
TransitionGoesOn(f) ==
  LET to == Head(under[f])
  IN  /\ platform = "macos"
      /\ \/ full' = [full EXCEPT ![f] = to] /\ UNCHANGED <<under, denied>>
         \/ /\ full' = [full EXCEPT ![f] = to]
            /\ under' = [under EXCEPT ![f] = <<>>]
            /\ UNCHANGED denied
         \/ /\ full' = [full EXCEPT ![f] = ~to]
            /\ under' = [under EXCEPT ![f] = <<>>]
            /\ denied' = denied \cup {f}

WindowSystemActs(f) ==
  /\ f \in shown /\ under[f] # <<>>
  /\ ManagerActs(f) \/ TransitionGoesOn(f)
  /\ UNCHANGED <<look, saved, wanted>>

(* The user has a button or a key for it, and a Win32 window has not.  The *)
(* window manager does it at once, and then what it was asked before;      *)
(* AppKit starts a transition.                                             *)
UserToggles(f) ==
  /\ running /\ f \in shown
  /\ \/ /\ platform = "linux"
        /\ full' = [full EXCEPT ![f] = ~@]
        /\ UNCHANGED under
     \/ /\ platform = "macos" /\ under[f] = <<>>
        /\ under' = [under EXCEPT ![f] = <<~full[f]>>]
        /\ UNCHANGED full
  /\ IF under[f] = <<>>
     THEN wanted' = [wanted EXCEPT ![f] = ~full[f]] /\ denied' = denied \ {f}
     ELSE UNCHANGED <<wanted, denied>>
  /\ UNCHANGED <<look, saved>>

-----------------------------------------------------------------------------
ControlTypeOK ==
  /\ full \in [Frames -> BOOLEAN] /\ wanted \in [Frames -> BOOLEAN]
  /\ look \in [Frames -> Looks] /\ saved \in [Frames -> Looks]
  /\ under \in [Frames -> Seq(BOOLEAN)] /\ denied \subseteq Frames

(* Whoever asks for full screen or out of it, once or again, in a          *)
(* transition or before a request is served: when nothing is under way a   *)
(* window is as was last said, unless that was refused or came in a        *)
(* transition to the opposite.  Out of full screen a Win32 window has its  *)
(* frame, does not cover the monitor and is not restored to that, whatever *)
(* was maximized, minimized and moved in between.                          *)
FullscreenAsSaid ==
  \A f \in Slotted \cap shown :
    /\ under[f] = <<>> /\ f \notin denied => full[f] = wanted[f]
    /\ ~full[f] => /\ look[f].style = "framed"
                   /\ look[f].rect # "monitor" /\ look[f].normal # "monitor"

=============================================================================
