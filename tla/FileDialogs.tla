----------------------------- MODULE FileDialogs -----------------------------
(***************************************************************************)
(* Native file dialogs (plugins/file_dialog/file_dialog_backend.c): a      *)
(* panel of AppKit, zenity under a shell, or a script of PowerShell.  The  *)
(* tool's output becomes an answer in JSON, which the plugin hands to the  *)
(* page as it is.  The call blocks the loop until the user has answered.   *)
(***************************************************************************)
EXTENDS Texts

VARIABLES
  dialog,   (* what was asked, with what the tool makes of it; NoDialog     *)
  choice,   (* what the user did, or that the tool failed                   *)
  answer    (* what the page gets                                           *)

dialogVars == <<dialog, choice, answer>>

DialogActions == {"openFile", "openFiles", "openDirectory", "saveFile"}
NoDialog == [action |-> "none", initial |-> <<>>, name |-> <<>>, start |-> <<>>, suggested |-> <<>>]
NoChoice == [kind |-> "none", paths |-> <<>>]

DialogInit ==
  /\ dialog = NoDialog
  /\ choice = NoChoice
  /\ answer = NoChoice

-----------------------------------------------------------------------------
(* What the tool gets.  macOS hands the texts over; the other two write    *)
(* them into a command or a script.                                        *)
Untitled(name) == IF name = <<>> THEN <<"untitled">> ELSE name

(* linux_command: zenity has one option for both, and of a save dialog it  *)
(* says the name.  Without either there is no option.                      *)
ZenityFilename(action, initial, name) ==
  LET seed == IF action = "saveFile" /\ name # <<>> THEN name ELSE initial
  IN IF seed = <<>> THEN <<>> ELSE ShellQuote(seed)

Zenity(action, initial, name) ==
  LET words == ShellWords(<<"zenity", " ", action, " ">> \o ZenityFilename(action, initial, name))
  IN IF Len(words) = 3 THEN words[3] ELSE IF Len(words) = 2 THEN <<>> ELSE Broken[1]

(* The script is a text file of the C runtime, which adds a carriage       *)
(* return to each line break, and PowerShell reads it in the ANSI code     *)
(* page.                                                                   *)
TextMode(text) == Mapped(text, LAMBDA c : IF c = NL THEN <<CR, NL>> ELSE <<c>>)
Script(text) == PowerShellText(Misread(TextMode(PowerShellQuote(text))))

(* A dialog comes up.                                                      *)
Ask(action, initial, name) ==
  /\ dialog = NoDialog
  /\ dialog' =
       [action |-> action, initial |-> initial, name |-> name,
        start |-> CASE platform = "macos" -> initial
                    [] platform = "linux" -> Zenity(action, initial, name)
                    [] platform = "windows" -> Script(initial),
        suggested |-> CASE platform = "macos" -> Untitled(name)
                        [] platform = "linux" -> Zenity(action, initial, name)
                        [] platform = "windows" -> Script(Untitled(name))]
  /\ choice' = NoChoice /\ answer' = NoChoice
  /\ UNCHANGED platform

-----------------------------------------------------------------------------
(* What comes of it.  The tools write a line for each path, PowerShell in  *)
(* the OEM code page of the console; what AppKit returns is put in that    *)
(* form as well.                                                           *)
Oem(text) == [i \in DOMAIN text |-> IF text[i] = "ue" THEN "81" ELSE text[i]]
Printed(paths) ==
  IF platform = "windows" THEN [i \in DOMAIN paths |-> Oem(paths[i])] ELSE paths

Output(paths) ==
  LET text == Tail(Joined(Printed(paths)))
  IN IF paths = <<>> THEN <<>> ELSE IF platform = "macos" THEN text ELSE Append(text, NL)

BrokenTrimmed(text) == text

(* trim_newlines: line breaks at the end.                                  *)
Trimmed(text) ==
  LET kept == {n \in 1 .. Len(text) : text[n] \notin {NL, CR}}
  IN SubSeq(text, 1, IF kept = {} THEN 0 ELSE CHOOSE n \in kept : \A m \in kept : m <= n)

(* selected_json: a string, or for openFiles a list of the output's lines. *)
Selected(action, output) ==
  IF action = "openFiles"
  THEN LET lines == Lines(Trimmed(output)) IN [i \in DOMAIN lines |-> JsonString(lines[i])]
  ELSE <<JsonString(Trimmed(output))>>

(* The end of file_dialog_pick.                                            *)
Failed == [kind |-> "failed", paths |-> <<>>]

Reply(exit, action, output) ==
  IF exit = 0 THEN [kind |-> "selected", paths |-> Selected(action, output)]
  ELSE IF exit # 1 THEN [kind |-> "cancelled", paths |-> <<>>]
  ELSE Failed

(* decode_native_pick_packet, which takes UTF-8 alone, and JSON.parse of   *)
(* the answer on the page.                                                 *)
Arrives(reply) ==
  IF \E i \in DOMAIN reply.paths : Has(reply.paths[i], NotUtf8) THEN Failed
  ELSE [reply EXCEPT !.paths = [i \in DOMAIN @ |-> JsonText(@[i])]]

Answer(done, exit) ==
  /\ dialog # NoDialog
  /\ choice' = done
  /\ answer' = Arrives(Reply(exit, dialog.action, Output(done.paths)))
  /\ dialog' = NoDialog
  /\ UNCHANGED platform

(* Windows has no file names with control characters or quotation marks,   *)
(* and only on Linux is a name any bytes at all.                           *)
UserChooses(paths) ==
  /\ dialog.action # "openFiles" => Len(paths) = 1
  /\ \A i \in DOMAIN paths :
       ~Has(paths[i], CASE platform = "linux" -> {}
                        [] platform = "macos" -> NotUtf8
                        [] platform = "windows" -> NotUtf8 \cup Controls \cup {Quote})
  /\ Answer([kind |-> dialog.action, paths |-> paths], 0)

(* The status pclose returns is that of wait, so that zenity's 1 is 256;   *)
(* the script exits with 10, as AppKit's answer is counted.                *)
UserCancels ==
  Answer([kind |-> "cancel", paths |-> <<>>], IF platform = "linux" THEN 256 ELSE 10)

(* A tool that cannot run: no display for zenity, a panel without a URL,   *)
(* no pipe; or PowerShell, which ends with 1 or another code (2 stands for *)
(* all of them), or with 0 after an error in a script it has gone on with, *)
(* and nothing written.                                                    *)
ToolFails ==
  \E exit \in CASE platform = "linux" -> {1, 256}
               [] platform = "macos" -> {1}
               [] platform = "windows" -> {0, 1, 2} :
    Answer([kind |-> "failure", paths |-> <<>>], exit)

=============================================================================
