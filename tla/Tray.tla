-------------------------------- MODULE Tray --------------------------------
(***************************************************************************)
(* The icon in the system's tray and its menu, under the same windows.     *)
(*                                                                         *)
(* GTK's and AppKit's icon is an object of the application and its items   *)
(* carry their ids.  The icon of Win32 belongs to a window, the first one  *)
(* there is when the icon is added, and goes with it; its items carry      *)
(* numbers of a registry that is filled again for each menu.               *)
(***************************************************************************)
EXTENDS Menus

CONSTANTS
  TrayPayloads,  (* tray menus to ask for                                   *)
  MaxTray        (* registered tray commands on Windows: 256 in the code    *)

ASSUME TrayAssumption ==
  /\ \A payload \in TrayPayloads :
       /\ payload \in Seq([id: STRING, key: {NoKey}, on: BOOLEAN])
       /\ \A i, j \in DOMAIN payload : payload[i].id = payload[j].id => i = j
  /\ MaxTray \in Nat

VARIABLES
  added,         (* tray_added; elsewhere: there is a status icon           *)
  host,          (* Windows: the frame in tray_data.hWnd                    *)
  icon,          (* the icon is on the screen                               *)
  hidden,        (* history: the last setVisible said false                 *)
  trayRows,      (* tray_menu                                               *)
  trayCommands   (* tray_commands                                           *)

trayVars == <<added, host, icon, hidden, trayRows, trayCommands>>

TrayInit ==
  /\ added = FALSE
  /\ host = 0
  /\ icon = FALSE
  /\ hidden = FALSE
  /\ trayRows = <<>>
  /\ trayCommands = <<>>

-----------------------------------------------------------------------------
(* primary_live_slot: the window of the first slot that has one.           *)
PrimaryLive ==
  LET there == {i \in DOMAIN slots : slots[i] \in shown}
  IN  IF there = {} THEN {} ELSE {slots[Min(there)]}

(* Without a window there is no icon; the shell may refuse to add it.  An  *)
(* icon whose window went is taken for one that only has to be moved to    *)
(* another window, which the shell cannot do for an icon it lost.          *)
EnsureWin32Icon ==
  IF PrimaryLive = {} THEN UNCHANGED <<added, host, icon>>
  ELSE /\ \E p \in PrimaryLive : host' = p
       /\ \/ added' = TRUE /\ icon' = (~added \/ icon)
          \/ ~added /\ UNCHANGED <<added, icon>>

EnsureStatusIcon ==
  /\ added' = TRUE
  /\ icon' = (~added \/ icon)
  /\ UNCHANGED host

EnsureTray == IF platform = "windows" THEN EnsureWin32Icon ELSE EnsureStatusIcon

(* Broken: the icon is forgotten and not removed.                          *)
BrokenRemoveTray ==
  /\ added' = FALSE
  /\ UNCHANGED <<icon, host>>

(* remove_tray                                                             *)
RemoveTray ==
  /\ added' = FALSE
  /\ icon' = FALSE
  /\ UNCHANGED host

(* tray.setIcon and tray.setTooltip                                        *)
DecorateTray ==
  /\ EnsureTray
  /\ UNCHANGED <<hidden, trayRows, trayCommands>>

(* Broken: only the next number starts anew.                               *)
BrokenResetTrayCommands == trayCommands

ResetTrayCommands == <<>>

(* register_tray_command: an item without a number is left out.            *)
RegisterTray(payload) ==
  LET kept == ResetTrayCommands
      n == Lesser(Len(payload), MaxTray - Len(kept))
  IN  /\ trayCommands' = kept \o [i \in 1 .. n |-> [command |-> i, id |-> payload[i].id]]
      /\ trayRows' = [i \in 1 .. n |-> Row(payload[i], i)]

(* tray.setMenu                                                            *)
SetTrayMenu(payload) ==
  /\ IF platform = "windows" THEN RegisterTray(payload)
     ELSE trayRows' = Gtk(payload) /\ UNCHANGED trayCommands
  /\ EnsureTray
  /\ UNCHANGED hidden

(* tray.setVisible: on Windows the icon is removed and added.              *)
SetTrayVisible(visible) ==
  /\ IF platform = "windows" THEN IF visible THEN EnsureTray ELSE RemoveTray
     ELSE added' = TRUE /\ icon' = visible /\ UNCHANGED host
  /\ hidden' = ~visible
  /\ UNCHANGED <<trayRows, trayCommands>>

(* tray.destroy                                                            *)
DestroyTray ==
  /\ RemoveTray
  /\ hidden' = FALSE
  /\ trayRows' = <<>>
  /\ trayCommands' = IF platform = "windows" THEN ResetTrayCommands ELSE trayCommands

(* The shell drops the icon of a window that is gone.                      *)
TrayFollows ==
  /\ icon' = (icon /\ (platform # "windows" \/ host \in shown'))
  /\ UNCHANGED <<added, host, hidden, trayRows, trayCommands>>

-----------------------------------------------------------------------------
TrayCommandId(c) ==
  LET found == {i \in DOMAIN trayCommands : trayCommands[i].command = c}
  IN  IF found = {} THEN {} ELSE {trayCommands[Min(found)].id}

(* show_tray_menu, for a page or for a click on the icon: the menu of the  *)
(* moment pops up, in the primary window on Windows, and an item is picked.*)
PickTrayItem(i) ==
  /\ running /\ i \in DOMAIN trayRows /\ Clickable(trayRows[i])
  /\ LET row == trayRows[i]
     IN  IF platform = "windows"
         THEN \E p \in PrimaryLive :
                /\ posted' = Append(posted, [to |-> p, from |-> "tray", shown |-> row.item.id,
                                             command |-> row.command])
                /\ UNCHANGED clicked
         ELSE Dispatch(FirstPage, "tray", row.item.id, {row.item.id}) /\ UNCHANGED posted

(* WM_COMMAND of a window: the two registries have separate numbers.       *)
CommandArrives ==
  LET message == Head(posted)
  IN  /\ posted # <<>>
      /\ posted' = Tail(posted)
      /\ IF message.from = "tray"
         THEN Dispatch(PrimaryLive, "tray", message.shown, TrayCommandId(message.command))
         ELSE Dispatch({message.to}, "menu", message.shown, CommandId(message.command))

(* Messages to a window die with it.                                       *)
PostedFollow ==
  Without(posted, {posted[i] : i \in {j \in DOMAIN posted : posted[j].to \notin shown'}}, posted')

-----------------------------------------------------------------------------
(* Among the rest, no icon is on the screen that the backend has forgotten.*)
TrayTypeOK ==
  /\ added \in BOOLEAN /\ icon \in BOOLEAN /\ hidden \in BOOLEAN
  /\ icon => added
  /\ host \in 0 .. Len(frames)
  /\ \A i \in DOMAIN trayRows : trayRows[i].command \in 0 .. MaxTray
  /\ Len(trayCommands) <= MaxTray

(* What the items of the tray's menu stand for is what they show: a number *)
(* of an earlier menu means nothing any more.                              *)
TrayRowsHonest ==
  platform = "windows" =>
    \A i \in DOMAIN trayRows : TrayCommandId(trayRows[i].command) = {trayRows[i].item.id}

=============================================================================
