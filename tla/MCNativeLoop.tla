---------------------------- MODULE MCNativeLoop ----------------------------
(* NativeLoop for TLC: an application with two windows.  On macOS there    *)
(* are fewer slots than labels.                                            *)
EXTENDS NativeLoop

TwoInitial == <<"main", "aux">>

Slots == [linux |-> 3, macos |-> 2, windows |-> 3]

Calls == [linux |-> 3, macos |-> 2, windows |-> 2]

FewCalls == [linux |-> 2]

LinuxSlots == [linux |-> 3]

=============================================================================
