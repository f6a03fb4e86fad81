---------------------------- MODULE DesktopShell ----------------------------
(***************************************************************************)
(* The desktop-shell and window-control records of pages, applied one      *)
(* after the other by the loop, with the windows that they are about:      *)
(* menus and the tray (Tray, Menus), full screen (WindowControls), over    *)
(* the windows of WindowTable.                                             *)
(***************************************************************************)
EXTENDS Tray, WindowControls

CONSTANT
  MaxPosted     (* bound on the clicks whose messages wait                  *)

ASSUME DesktopAssumption == MaxPosted \in Nat

VARIABLE
  budget        (* how many more records there may be                       *)

desktopVars == <<tableVars, menuVars, clickVars, trayVars, controlVars, budget>>

DesktopInit ==
  /\ TableInit
  /\ MenuInit
  /\ TrayInit
  /\ ControlInit
  /\ posted = <<>>
  /\ clicked = Quiet
  /\ budget = MaxCalls[platform]

-----------------------------------------------------------------------------
MenuRecord ==
  /\ UNCHANGED <<tableVars, clickVars, trayVars, controlVars>>
  /\ \/ \E payload \in MenuPayloads : SetAppMenu(payload)
     \/ ClearAppMenu
     \/ \E label \in Labels, payload \in MenuPayloads : SetWindowMenu(label, payload)
     \/ \E label \in Labels : ClearWindowMenu(label)

TrayRecord ==
  /\ \/ DecorateTray
     \/ \E payload \in TrayPayloads : SetTrayMenu(payload)
     \/ \E visible \in BOOLEAN : SetTrayVisible(visible)
     \/ DestroyTray
  /\ UNCHANGED <<tableVars, menuVars, clickVars, controlVars>>

ControlRecord ==
  /\ \/ \E label \in Labels, on \in BOOLEAN : SetFullscreen(label, on)
     \/ \E label \in Labels : Reshape(label)
  /\ UNCHANGED <<tableVars, menuVars, clickVars, trayVars>>

(* What follows a change of windows.                                       *)
Follow ==
  /\ MenusFollow
  /\ TrayFollows
  /\ PostedFollow
  /\ UNCHANGED <<clicked, controlVars>>

WindowRecord ==
  /\ \E label \in Labels : OpenWindow(label) \/ Destroy(FindSlot(label))
  /\ Follow

(* A record of a page's packet: there has to be a page.                    *)
ApplyRecord ==
  /\ running /\ budget > 0
  /\ \E f \in shown : Reachable(f)
  /\ budget' = budget - 1
  /\ MenuRecord \/ TrayRecord \/ ControlRecord \/ WindowRecord

(* The user: the windows' items, keys, buttons, and the tray.              *)
UserClicks ==
  /\ Len(posted) < MaxPosted
  /\ \/ \E b \in shown \cup {0} : \E i \in DOMAIN bar[b] : PickItem(b, i)
     \/ \E f \in shown : \E b \in {f, 0} : \E i \in DOMAIN keys[b] :
          PressKey(f, b, keys[b][i].item.key)
     \/ \E i \in DOMAIN trayRows : PickTrayItem(i)
  /\ UNCHANGED <<tableVars, menuVars, trayVars, controlVars, budget>>

UserChangesWindow(f) ==
  \/ /\ running /\ f \in shown
     /\ Destroy({f})
     /\ Follow
     /\ UNCHANGED budget
  \/ /\ UserToggles(f)
     /\ UNCHANGED <<tableVars, menuVars, clickVars, trayVars, budget>>

WindowSystemStep ==
  /\ \E f \in Frames : WindowSystemActs(f)
  /\ UNCHANGED <<tableVars, menuVars, clickVars, trayVars, budget>>

MessageArrives ==
  /\ CommandArrives
  /\ UNCHANGED <<tableVars, menuVars, trayVars, controlVars, budget>>

WebViewAnswers ==
  /\ \/ EnvironmentFails
     \/ EnvironmentReady
     \/ \E f \in Frames : ViewReady(f) \/ ViewFails(f)
     \/ \E f \in closing : Destroy({f})
  /\ Follow
  /\ UNCHANGED budget

DesktopNext ==
  \/ ApplyRecord
  \/ UserClicks
  \/ \E f \in Frames : UserChangesWindow(f)
  \/ WindowSystemStep
  \/ MessageArrives
  \/ WebViewAnswers

DesktopSpec == DesktopInit /\ [][DesktopNext]_desktopVars

-----------------------------------------------------------------------------
(* The type invariant of the windows' furniture.                           *)
DesktopTypeOK ==
  /\ MenuTypeOK
  /\ TrayTypeOK
  /\ ControlTypeOK
  /\ Len(posted) <= MaxPosted
  /\ \A i \in DOMAIN posted : posted[i].to \in shown
  /\ budget \in 0 .. MaxCalls[platform]

=============================================================================
