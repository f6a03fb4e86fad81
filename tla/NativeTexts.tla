----------------------------- MODULE NativeTexts -----------------------------
(***************************************************************************)
(* The places where a text crosses from one program to another, or from    *)
(* the host to C: login entries, commands of services, file dialogs,       *)
(* packets.  They share no state, and a behaviour is about one of them.    *)
(***************************************************************************)
EXTENDS StartedPrograms, FileDialogs, Packets

CONSTANTS
  Platforms,
  Characters,  (* all there are, a word of a protocol being one             *)
  Commands,    (* of programs and services: a program and its arguments     *)
  Places,      (* texts: where a dialog starts, and the name it suggests    *)
  Selections,  (* sequences of paths to choose                              *)
  Labels,      (* of windows: texts without line breaks                     *)
  Scripts,     (* texts of a packet                                         *)
  Operations,  (* sequences of the operations of a packet                   *)
  Bodies,      (* texts: contents of virtual files, paths, messages         *)
  Locations    (* texts: what comes after the scheme of a URL               *)

(* No text holds an entity, what stands for a text that is broken, or the  *)
(* name of a byte, but for a path to choose and a byte of its own.  No     *)
(* word of a command, no path or file name and no script has a NUL: the    *)
(* systems take C strings for the ones, and the host writes the others as  *)
(* JavaScript.  A program, and a path to choose, is not empty; a label has *)
(* no line breaks.                                                         *)
ASSUME PlatformsAssumption == Platforms \subseteq {"linux", "macos", "windows"}

ASSUME CharactersAssumption ==
  /\ {"broken", "C3", "BC"} \cap Characters = {} /\ NotUtf8 \cap Characters = {}
  /\ {Entities[c] : c \in DOMAIN Entities} \cap Characters = {}

ASSUME CommandsAssumption ==
  /\ Commands \subseteq Seq(Seq(Characters \ {"NUL"}))
  /\ \A c \in Commands : c # <<>> /\ c[1] # <<>>

ASSUME DialogsAssumption ==
  /\ Places \subseteq Seq(Characters \ {"NUL"})
  /\ Selections \subseteq Seq(Seq((Characters \ {"NUL"}) \cup {"FF"}) \ {<<>>}) \ {<<>>}

ASSUME PacketsAssumption ==
  /\ Labels \subseteq Seq(Characters \ {NL})
  /\ Scripts \subseteq Seq(Characters \ {"NUL"})
  /\ Bodies \subseteq Seq(Characters)
  /\ Locations \subseteq Seq(Characters)

(* An operation has a number and a truth value or none; the number is one  *)
(* of 32 bits whose sign can be changed.                                   *)
MaxNumber == 2147483647
Widths == {w \in SUBSET (-MaxNumber .. MaxNumber) : \A m, n \in w : m = n}

AnOperation ==
  [kind : Characters \ {"ue"}, window : Seq(Characters), title : Seq(Characters), width : Widths,
   resizable : {{}, {TRUE}, {FALSE}}]

ASSUME OperationsAssumption == Operations \subseteq Seq(AnOperation)

VARIABLE part

textVars == <<platform, part, programVars, dialogVars, packetVars>>

TextInit ==
  /\ platform \in Platforms
  /\ part \in {"login", "services", "dialogs", "packets"}
  /\ ProgramInit /\ DialogInit /\ PacketInit

LoginStep ==
  /\ part = "login"
  /\ \/ \E c \in Commands : Enable(c[1], Tail(c))
     \/ Disable
  /\ UNCHANGED <<part, dialogVars, packetVars>>

ServiceStep ==
  /\ part = "services"
  /\ \/ \E c \in Commands : StartService(c[1], Tail(c))
     \/ StopService
  /\ UNCHANGED <<part, dialogVars, packetVars>>

DialogStep ==
  /\ part = "dialogs"
  /\ \/ \E action \in DialogActions, initial \in Places, name \in Places : Ask(action, initial, name)
     \/ \E paths \in Selections : UserChooses(paths)
     \/ UserCancels
     \/ ToolFails
  /\ UNCHANGED <<part, programVars, packetVars>>

(* The packets of handoff_packet_bytes and of a drain, and those of the    *)
(* resolver.                                                               *)
PacketStep ==
  /\ part = "packets"
  /\ \/ \E label \in Labels, script \in Scripts, ops \in Operations :
          Handoff("immediate", label, script, ops)
     \/ \E label \in Labels, script \in Scripts, ops \in Operations :
          Handoff("deferred", label, script, ops)
     \/ \E problems \in Scripts : Handoff("error", <<>>, problems, <<>>)
     \/ \E kind \in {"virtual", "file", "error"}, body \in Bodies, readable \in BOOLEAN :
          Asset(kind, body, readable)
     \/ \E scheme \in {"lepusa", "https"}, location \in Locations : Load(scheme, location)
     \/ Forget
  /\ UNCHANGED <<part, programVars, dialogVars>>

TextNext == LoginStep \/ ServiceStep \/ DialogStep \/ PacketStep

TextSpec == TextInit /\ [][TextNext]_textVars

-----------------------------------------------------------------------------
(* text with each run of backslashes cut to one.                           *)
SqueezeStep(kept, c) ==
  IF c = Backslash /\ kept # <<>> /\ Last(kept) = Backslash THEN kept ELSE Append(kept, c)
Squeezed(text) == FoldLeft(SqueezeStep, <<>>, text)

(* The commands that Windows reads as they are in its ANSI code page.      *)
Narrow(command) == \A i \in DOMAIN command : ~Has(command[i], {"ue"})

(* The commands a login entry is made for.  The plugin hands the arguments *)
(* over a line each.  The desktop's launcher takes a string apart twice    *)
(* and expands field codes, the code escapes it once; and on Windows it    *)
(* quotes the program alone, and what it writes is not read as UTF-8.      *)
Startable(command) ==
  /\ \A i \in DOMAIN command : ~Has(command[i], {NL, CR})
  /\ platform = "linux" =>
       \A i \in DOMAIN command : ~Has(command[i], {Quote, Backslash, "backquote", "dollar", "%"})
  /\ platform = "windows" =>
       /\ Narrow(command) /\ ~Has(command[1], {Quote})
       /\ \A i \in DOMAIN command \ {1} : ~Has(command[i], {" ", "\t", Quote})

(* A program that has been started at login, or as a service, is the one   *)
(* that was asked for and gets the arguments that were asked for, as many  *)
(* and each as it was (auto_launch_backend.c, parse_command_packet of the  *)
(* backends, windows_command_line).  On Windows this is so of commands     *)
(* without letters of more than a byte, and runs of backslashes in a       *)
(* service's arguments may come out longer.  A login entry that was set    *)
(* ok is reported as enabled, one that was removed is not.                 *)
ProgramsGetTheirArguments ==
  /\ meant # Unknown => /\ meant = Nothing \/ Startable(meant) => Launched = meant
                        /\ Status = IF meant = Nothing THEN 0 ELSE 1
  /\ platform # "windows" \/ Narrow(service) =>
       /\ Len(received) = Len(service)
       /\ \A i \in DOMAIN service :
            IF platform = "windows"
            THEN /\ Squeezed(received[i]) = Squeezed(service[i])
                 /\ ~Has(service[i], {Backslash}) => received[i] = service[i]
            ELSE received[i] = Utf8(service[i])

-----------------------------------------------------------------------------
(* Texts the tools' output and the answer keep: of several paths none has  *)
(* a line break, and the last does not end in one; and no path has control *)
(* characters that JSON would have escaped.                                *)
Kept(paths) ==
  /\ Last(Last(paths)) \notin {NL, CR}
  /\ \A i \in DOMAIN paths : ~Has(paths[i], {"BEL"})
  /\ choice.kind = "openFiles" => \A i \in DOMAIN paths : ~Has(paths[i], {NL})

(* Paths whose output is UTF-8, and texts that a script has as they are.   *)
Legible(paths) ==
  \A i \in DOMAIN paths : ~Has(paths[i], {"FF"}) /\ (platform = "windows" => ~Has(paths[i], {"ue"}))
Written(text) == platform = "windows" => ~Has(text, {"ue", NL})

(* The page is told the paths the user has chosen, as many, in order and   *)
(* each as it is, or that the dialog has failed when the tool has not      *)
(* written them as UTF-8; that the user has cancelled, when he has; and    *)
(* never of a path when none is chosen.  A dialog starts where the page    *)
(* has said (file_dialog_pick).  A tool that fails may be told as a dialog *)
(* that was cancelled, but on macOS, and on Windows as a choice of         *)
(* nothing.                                                                *)
ChoiceArrives ==
  /\ choice.kind \in DialogActions /\ Kept(choice.paths) =>
       answer = IF Legible(choice.paths) THEN [kind |-> "selected", paths |-> choice.paths] ELSE Failed
  /\ choice.kind = "cancel" => answer.kind = "cancelled"
  /\ choice.kind = "failure" =>
       /\ answer.kind \in {"failed"} \cup (IF platform = "macos" THEN {} ELSE {"cancelled"})
                              \cup (IF platform = "windows" THEN {"selected"} ELSE {})
       /\ \A i \in DOMAIN answer.paths : answer.paths[i] = <<>>
  /\ dialog # NoDialog =>
       LET named == dialog.action = "saveFile" /\ dialog.name # <<>>
       IN /\ named /\ Written(dialog.name) => dialog.suggested = dialog.name
          /\ (named /\ platform = "linux") \/ (Written(dialog.initial) => dialog.start = dialog.initial)

-----------------------------------------------------------------------------
(* The loop reads from a handoff packet the script the host has put there  *)
(* and the operations, with all they say, from a packet with a status it   *)
(* takes: whatever line breaks, digits or long characters are in them.  A  *)
(* page is shown the asset the host has resolved, up to the first NUL      *)
(* where the backend reads C strings, with the status of its outcome.  The *)
(* resolver is asked for the URL the page has loaded, but for one slash,   *)
(* and for none that is not of its scheme, nor of the host that stands for *)
(* the scheme on Windows.                                                  *)
PacketsArrive ==
  CASE sent.kind = "handoff" ->
         /\ arrived.script = IF sent.status = "immediate" THEN Utf8(sent.script) ELSE Broken[1]
         /\ arrived.operations =
              IF sent.status \in Accepted
              THEN [r \in DOMAIN sent.operations |->
                     [sent.operations[r] EXCEPT !.window = Utf8(@), !.title = Utf8(@)]]
              ELSE <<>>
    [] sent.kind = "asset" ->
         LET body == IF platform = "macos" THEN Utf8(sent.body) ELSE CString(Utf8(sent.body))
             found == sent.of = "virtual" \/ (sent.of = "file" /\ sent.readable)
         IN /\ found <=> arrived.what # "message"
            /\ sent.of # "file" \/ found => arrived.text = body
            /\ platform = "windows" => arrived.status = IF found THEN 200 ELSE 404
    [] sent.kind = "url" ->
         LET host == <<"lepusa", ".localhost", "/">>
             direct == platform = "windows" /\ sent.scheme = "https" /\ IsPrefix(host, sent.place)
         IN /\ arrived.asked <=> sent.scheme = "lepusa" \/ direct
            /\ IF direct THEN arrived.url = Url("lepusa", SubSeq(sent.place, 4, Len(sent.place)))
               ELSE \/ arrived.url = Url(sent.scheme, sent.place)
                    \/ /\ sent.place # <<>> /\ sent.place[1] = "/"
                       /\ arrived.url = Url(sent.scheme, Tail(sent.place))
    [] sent.kind = "nothing" -> arrived = Nil

=============================================================================
