--------------------------- MODULE MCDesktopShell ---------------------------
(* DesktopShell for TLC: a window at the start, and two menus that share a *)
(* shortcut, one with a disabled item, the other with a shortcut that only *)
(* GTK can parse and one more than the tables of Windows have room for.    *)
(* The registry of menu commands has five numbers, that of tray commands   *)
(* two, so that both run out.                                              *)
EXTENDS DesktopShell

OneInitial == <<"main">>

Slots == [linux |-> 2, macos |-> 1, windows |-> 2]

Calls == [linux |-> 4, macos |-> 3, windows |-> 3]

Item(id, key, on) == [id |-> id, key |-> key, on |-> on]

Payloads == {<<Item("quit", "Q", FALSE), Item("new", "N", TRUE)>>,
             <<Item("hold", "Pause", TRUE), Item("next", "N", TRUE), Item("print", "P", TRUE)>>}

Keys == [linux |-> {"N", "P", "Q", "Pause"}, macos |-> {"N", "P", "Q"}, windows |-> {"N", "P", "Q"}]

TrayMenus == {<<Item("show", NoKey, TRUE)>>,
              <<Item("mute", NoKey, FALSE), Item("show", NoKey, TRUE), Item("stop", NoKey, TRUE)>>}

=============================================================================
