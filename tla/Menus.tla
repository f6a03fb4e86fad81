-------------------------------- MODULE Menus --------------------------------
(***************************************************************************)
(* Menu bars of the application and of its windows.  A page's request has  *)
(* passed the menu plugin (plugins/menu/menu.mbt), which lets only well    *)
(* formed menus through; its desktop-shell record is applied by the        *)
(* backend of the platform.                                                *)
(*                                                                         *)
(* GTK has a bar and an accelerator group for each window, whose items     *)
(* carry their ids.  Win32 has a menu for each window, whose items carry   *)
(* numbers of a registry of the application that only grows, and a table   *)
(* of shortcuts in each slot.  AppKit has one bar, here that of frame 0,   *)
(* and no menus of windows.                                                *)
(***************************************************************************)
EXTENDS WindowTable

CONSTANTS
  MenuPayloads,  (* menus to ask for: sequences of items, of which those of *)
                 (* submenus follow their parents                           *)
  MaxCommands,   (* registered menu commands on Windows: 512 in the code    *)
  MaxKeys,       (* shortcuts in the table of a slot: 128 in the code       *)
  Understood     (* platform -> the shortcuts its backend can parse         *)

NoKey == "none"

(* What is said of an item: its id, its shortcut, whether it is enabled.   *)
ASSUME MenuAssumption ==
  /\ \A payload \in MenuPayloads :
       /\ payload \in Seq([id: STRING, key: STRING, on: BOOLEAN])
       /\ \A i, j \in DOMAIN payload : payload[i].id = payload[j].id => i = j
  /\ MaxCommands \in Nat /\ MaxKeys \in Nat
  /\ Understood \in [Platforms -> SUBSET (STRING \ {NoKey})]

VARIABLES
  appMenu,   (* app_menu_payload; empty when there is none                  *)
  own,       (* frames with a menu of their own: has_window_menu            *)
  bar,       (* frame -> the rows of its menu                               *)
  keys,      (* frame -> the rows in its accelerator group or table, by     *)
             (* their positions in the menu                                 *)
  commands,  (* menu_commands: the ids of command 1, 2, 3...                *)
  posted,    (* WM_COMMANDs in the queue, of menus and of the tray          *)
  clicked    (* history: the last event of a click that reached a page      *)

menuVars == <<appMenu, own, bar, keys, commands>>
clickVars == <<posted, clicked>>

Bars == Frames \cup {0}

Quiet == [from |-> "menu", shown |-> "nothing", heard |-> "nothing"]

MenuInit ==
  /\ appMenu = <<>>
  /\ own = {}
  /\ bar = [b \in Bars |-> <<>>]
  /\ keys = [b \in Bars |-> <<>>]
  /\ commands = <<>>

-----------------------------------------------------------------------------
(* A row of a menu: the item and, on Windows, its number.                  *)
Row(item, command) == [item |-> item, command |-> command]

(* GTK's and AppKit's items carry what they dispatch.                      *)
Gtk(payload) == [i \in DOMAIN payload |-> Row(payload[i], 0)]

(* menu_from_array with register_menu_command: an item that gets no number *)
(* is left out.                                                            *)
Win32(payload, registered) ==
  [i \in 1 .. Lesser(Len(payload), MaxCommands - registered) |->
    Row(payload[i], registered + i)]

(* Broken: the registry starts anew.                                       *)
BrokenRegistered(payload, windows) ==
  [c \in 1 .. Lesser(MaxCommands, windows * Len(payload)) |->
    payload[((c - 1) % Len(payload)) + 1].id]

(* The registry after the menus of a number of windows.                    *)
Registered(payload, windows) ==
  [c \in 1 .. Lesser(MaxCommands, Len(commands) + windows * Len(payload)) |->
    IF c <= Len(commands) THEN commands[c]
    ELSE payload[((c - Len(commands) - 1) % Len(payload)) + 1].id]

(* What parse_accelerator of the platform makes a key of.                  *)
Parsed(rows) == {i \in DOMAIN rows : rows[i].item.key \in Understood[platform]}

(* Shortcuts of GTK's and AppKit's items, which decide themselves whether  *)
(* they react.                                                             *)
ItemKeys(rows) == [i \in Parsed(rows) |-> rows[i]]

(* register_menu_accelerator: of enabled items only, as long as the table  *)
(* of the slot has room.                                                   *)
TableKeys(rows) ==
  LET offered == {i \in Parsed(rows) : rows[i].item.on}
  IN  [i \in {j \in offered : Cardinality({h \in offered : h < j}) < MaxKeys} |-> rows[i]]

(* Broken: the slot's table is not reset before a menu is read.            *)
BrokenWin32Keys(f, rows) ==
  [i \in DOMAIN keys[f] \cup DOMAIN TableKeys(rows) |->
    IF i \in DOMAIN keys[f] THEN keys[f][i] ELSE rows[i]]

(* menu_from_payload resets the table of the slot.                         *)
Win32Keys(f, rows) == TableKeys(rows)

(* The slots of targets that have their turn before that of a window.      *)
Before(targets, f) ==
  {i \in DOMAIN slots' : /\ slots'[i] \in targets
                         /\ \E j \in DOMAIN slots' : slots'[j] = f /\ i < j}

(* The windows get new menus in the order of their slots; the menu of a    *)
(* slot whose window is gone is only read.                                 *)
SetWin32Menus(targets, payload) ==
  LET registered(f) ==
        Lesser(MaxCommands, Len(commands) + Cardinality(Before(targets, f)) * Len(payload))
      rows(f) == Win32(payload, registered(f))
  IN  /\ bar' = [b \in Bars |-> IF b \in targets \cap shown' THEN rows(b)
                                ELSE IF b \in Frames \ shown' THEN <<>> ELSE bar[b]]
      /\ keys' = [b \in Bars |-> IF b \in targets THEN Win32Keys(b, rows(b)) ELSE keys[b]]
      /\ commands' = Registered(payload, Cardinality(targets))

(* set_window_menu_bar and clear_window_menu_bar: the bar and its group.   *)
SetGtkMenus(targets, payload) ==
  LET of(rows, old) == [b \in Bars |-> IF b \in targets THEN rows
                                       ELSE IF b \in Frames \ shown' THEN <<>> ELSE old[b]]
  IN  /\ bar' = of(Gtk(payload), bar)
      /\ keys' = of(ItemKeys(Gtk(payload)), keys)
      /\ UNCHANGED commands

(* setMainMenu: with a new menu or with none.                              *)
SetMainMenu(payload) ==
  /\ bar' = [bar EXCEPT ![0] = Gtk(payload)]
  /\ keys' = [keys EXCEPT ![0] = ItemKeys(Gtk(payload))]
  /\ UNCHANGED commands

SetMenus(targets, payload) ==
  IF platform = "windows" THEN SetWin32Menus(targets, payload)
  ELSE SetGtkMenus(targets, payload)

(* apply_app_menu_to_windows and clear_app_menu.                           *)
WithoutOwn == {f \in Slotted \cap shown : f \notin own}

-----------------------------------------------------------------------------
(* menu.setAppMenu                                                         *)
SetAppMenu(payload) ==
  /\ appMenu' = payload
  /\ IF platform = "macos" THEN SetMainMenu(payload) ELSE SetMenus(WithoutOwn, payload)
  /\ UNCHANGED own

(* menu.clearAppMenu                                                       *)
ClearAppMenu ==
  /\ appMenu' = <<>>
  /\ IF platform = "macos" THEN SetMainMenu(<<>>) ELSE SetMenus(WithoutOwn, <<>>)
  /\ UNCHANGED own

(* menu.setWindowMenu: for a label without a slot, of the first one.       *)
SetWindowMenu(label, payload) ==
  IF platform = "macos" \/ FindSlot(label) = {} THEN UNCHANGED menuVars
  ELSE /\ own' = own \cup FindSlot(label)
       /\ SetMenus(FindSlot(label), payload)
       /\ UNCHANGED appMenu

(* menu.clearWindowMenu: the window has the application's menu again.      *)
ClearWindowMenu(label) ==
  IF platform = "macos" \/ FindSlot(label) = {} THEN UNCHANGED menuVars
  ELSE /\ own' = own \ FindSlot(label)
       /\ SetMenus(FindSlot(label), appMenu)
       /\ UNCHANGED appMenu

(* Broken: a window opened later has no menu.                              *)
BrokenNewWindowMenus == SetMenus({}, <<>>)

(* The last steps of opening a window: the application's menu.             *)
NewWindowMenus ==
  SetMenus({slots'[i] : i \in DOMAIN slots'} \cap (DOMAIN frames' \ DOMAIN frames), appMenu)

(* What a change of windows does to the menus: a new window has the        *)
(* application's menu, and a window takes its menu with it.                *)
MenusFollow ==
  /\ IF platform = "macos" THEN UNCHANGED <<bar, keys, commands>> ELSE NewWindowMenus
  /\ own' = own \cap shown'
  /\ UNCHANGED appMenu

-----------------------------------------------------------------------------
(* The page that hears of the clicks on GTK and AppKit is that of the      *)
(* context, the first window's.                                            *)
FirstPage == IF slots = <<>> THEN {} ELSE {slots[1]}

(* __lepusaDispatchEvent in a page, which on Windows may not be there yet, *)
(* with the id that was found for the click, if any.                       *)
Dispatch(pages, from, shownId, found) ==
  IF found # {} /\ \E f \in pages : Reachable(f)
  THEN \E id \in found : clicked' = [from |-> from, shown |-> shownId, heard |-> id]
  ELSE UNCHANGED clicked

(* AppKit enables every item of a menu whose target has its action.        *)
Clickable(row) == row.item.on \/ platform = "macos"

(* The user picks an item: on Windows a message says so, elsewhere the     *)
(* item itself reacts.                                                     *)
PickItem(b, i) ==
  /\ running /\ i \in DOMAIN bar[b] /\ Clickable(bar[b][i])
  /\ LET row == bar[b][i]
     IN  IF platform = "windows"
         THEN /\ posted' = Append(posted, [to |-> b, from |-> "menu", shown |-> row.item.id,
                                           command |-> row.command])
              /\ UNCHANGED clicked
         ELSE Dispatch(FirstPage, "menu", row.item.id, {row.item.id}) /\ UNCHANGED posted

(* menu_command_id *)
CommandId(c) == IF c \in DOMAIN commands THEN {commands[c]} ELSE {}

(* The rows that react to a key: one of an accelerator group when its item *)
(* does, one of a table in any case.                                       *)
Reacting(rows, key) ==
  {i \in DOMAIN rows : rows[i].item.key = key /\ (platform = "windows" \/ Clickable(rows[i]))}

(* The rows of a menu that show the key to the user and can be picked.     *)
Offering(rows, key) == {i \in DOMAIN rows : rows[i].item.key = key /\ Clickable(rows[i])}

(* A key is pressed in a window: the first of its rows that has the key    *)
(* and reacts.  What its menu shows for the key is kept with what is heard. *)
PressKey(f, b, key) ==
  LET found == Reacting(keys[b], key)
      offered == Offering(bar[b], key)
      offeredId == IF offered = {} THEN "nothing" ELSE bar[b][Min(offered)].item.id
  IN  /\ running /\ f \in shown /\ found # {}
      /\ IF platform = "windows"
         THEN Dispatch({f}, "menu", offeredId, CommandId(keys[b][Min(found)].command))
         ELSE Dispatch(FirstPage, "menu", offeredId, {keys[b][Min(found)].item.id})
      /\ UNCHANGED posted

-----------------------------------------------------------------------------
MenuRows == [item: UNION {{payload[i] : i \in DOMAIN payload} : payload \in MenuPayloads},
             command: 0 .. MaxCommands]

MenuTypeOK ==
  /\ appMenu \in MenuPayloads \cup {<<>>}
  /\ own \subseteq DOMAIN frames
  /\ bar \in [Bars -> Seq(MenuRows)]
  /\ DOMAIN keys = Bars
  /\ \A b \in Bars : DOMAIN keys[b] \subseteq Nat /\ keys[b] \in [DOMAIN keys[b] -> MenuRows]
  /\ commands \in Seq(STRING) /\ Len(commands) <= MaxCommands

Items(rows) == [i \in DOMAIN rows |-> rows[i].item]

(* docs/ARCHITECTURE.md:657: whatever windows open, close and take menus   *)
(* of their own in between, a window without one shows the application's   *)
(* menu of the moment; on Windows until the registry is full, on AppKit    *)
(* the application itself.                                                 *)
AppMenuShown ==
  IF platform = "macos" THEN Items(bar[0]) = appMenu
  ELSE \/ platform = "windows" /\ Len(commands) = MaxCommands
       \/ \A f \in WithoutOwn : Items(bar[f]) = appMenu

(* docs/ARCHITECTURE.md:659-663: a window reacts to shortcuts of rows that *)
(* its menu shows now, of no earlier menu, and to the shortcut of every    *)
(* row that its backend understands and, on Windows, that is enabled and   *)
(* among the first as many as the table has room for.                      *)
ShortcutsMatchMenu ==
  \A f \in (Slotted \cap shown) \cup {0} :
    /\ \A i \in DOMAIN keys[f] : i \in DOMAIN bar[f] /\ keys[f][i] = bar[f][i]
    /\ \A i \in Parsed(bar[f]) :
         \/ i \in DOMAIN keys[f]
         \/ /\ platform = "windows"
            /\ \/ ~bar[f][i].item.on
               \/ Cardinality({j \in Parsed(bar[f]) : j < i}) >= MaxKeys

(* A page is told of the item that was picked or whose shortcut was        *)
(* pressed, although menus may be replaced between a click and its         *)
(* message: the number of a menu item is never given to another one.       *)
ClicksMeanWhatWasShown == clicked.from = "menu" => clicked.heard = clicked.shown

=============================================================================
