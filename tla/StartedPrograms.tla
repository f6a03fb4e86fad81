--------------------------- MODULE StartedPrograms ---------------------------
(***************************************************************************)
(* Programs the backends have started: the entry that starts the           *)
(* application at login (plugins/auto_launch/auto_launch_backend.c: a      *)
(* launch agent, an autostart entry, a value of the registry's Run key),   *)
(* and services, whose commands come from the host in packets.             *)
(***************************************************************************)
EXTENDS Texts

VARIABLES
  entry,       (* the login entry: none, torn by a write that failed, or    *)
               (* what there is to read                                     *)
  meant,       (* history: the command of the last set that was answered ok *)
               (* and reached the entry; nothing after one that tore it     *)
  service,     (* the command of a service, as the host has it              *)
  received     (* ... and as its process receives it                        *)

programVars == <<entry, meant, service, received>>

None == <<>>
Torn == <<"torn">>
Nothing == <<>>
Unknown == Broken

ProgramInit ==
  /\ entry = None
  /\ meant = Nothing
  /\ service = Nothing
  /\ received = Nothing

-----------------------------------------------------------------------------
(* Login.  The plugin hands the arguments over joined by line breaks       *)
(* (auto_launch.mbt:307), and the backend quotes them one by one.          *)
Parts(program, arguments) == <<program>> \o Lines(Joined(arguments))

Command(words) == Tail(Mapped(words, LAMBDA word : <<" ">> \o word))

(* On macOS a shell runs a line of the launch agent.                       *)
LaunchAgent(program, arguments) ==
  LET parts == Parts(program, arguments)
  IN XmlEscape(<<"exec", " ">> \o Command([i \in DOMAIN parts |-> ShellQuote(parts[i])]))

AutostartEntry(program, arguments) ==
  LET parts == Parts(program, arguments)
  IN Command([i \in DOMAIN parts |-> DesktopQuote(parts[i])])

(* On Windows only the program is quoted, and RegSetValueExA reads the     *)
(* bytes of the host in the ANSI code page.                                *)
RunKey(program, arguments) ==
  Misread(Command([Parts(program, arguments) EXCEPT ![1] = <<Quote>> \o @ \o <<Quote>>]))

EntryFor(program, arguments) ==
  CASE platform = "macos" -> LaunchAgent(program, arguments)
    [] platform = "linux" -> AutostartEntry(program, arguments)
    [] platform = "windows" -> RunKey(program, arguments)

(* What an entry starts at login.                                          *)
Launched ==
  IF entry = None THEN Nothing
  ELSE IF entry = Torn THEN Unknown
  ELSE CASE platform = "macos" ->
              LET words == ShellWords(XmlText(entry))
              IN IF words[1] = <<"exec">> THEN Tail(words) ELSE Unknown
         [] platform = "linux" -> DesktopWords(entry)
         [] platform = "windows" -> WindowsWords(entry)

(* What AutoLaunchPolicy::validate wants of a command.                     *)
Launchable(program, arguments) ==
  /\ program # <<>> /\ ~Has(program, {Backslash})
  /\ \A i \in DOMAIN arguments : arguments[i] # <<>>

(* auto_launch_set: 0 when done; 1 when something failed, before the file  *)
(* is opened or while it is written, and 2 without a home directory.       *)
Enable(program, arguments) ==
  /\ Launchable(program, arguments)
  /\ \/ entry' = EntryFor(program, arguments) /\ meant' = <<program>> \o arguments
     \/ platform # "windows" /\ entry' = Torn /\ meant' = Unknown
     \/ UNCHANGED <<entry, meant>>
  /\ UNCHANGED <<platform, service, received>>

(* Disabling what is not enabled is no failure, and neither is it not to   *)
(* find the home directory, in which case nothing is removed.              *)
Disable ==
  /\ \/ entry' = None /\ meant' = Nothing
     \/ UNCHANGED <<entry, meant>>
  /\ UNCHANGED <<platform, service, received>>

(* auto_launch_status, with a home directory: the entry exists.            *)
Status == IF entry = None THEN 0 ELSE 1

-----------------------------------------------------------------------------
(* Services.  native_service_command_packet: each part after its length.   *)
CommandPacket(command) ==
  Mapped(command, LAMBDA part : Decimal[Len(Utf8(part))] \o <<NL>> \o Utf8(part))

(* parse_command_packet, character by character: the digits of a length,   *)
(* then as many characters.                                                *)
ParseStep(s, c) ==
  CASE s.mode = "body" -> IF s.held > 1 THEN [Put(s, c, "body") EXCEPT !.held = @ - 1]
                          ELSE Cut([Put(s, c, "body") EXCEPT !.held = 0])
    [] s.mode \in {"gap", "length"} /\ IsDigit(c) ->
         [In(s, "length") EXCEPT !.held = 10 * @ + Digit(c)]
    [] s.mode = "length" /\ c = NL -> IF s.held = 0 THEN Cut(s) ELSE In(s, "body")
    [] OTHER -> In(s, "broken")

ParsedPacket(packet) ==
  LET end == FoldLeft(ParseStep, Reading, packet)
  IN IF end.mode # "gap" \/ end.words = <<>> THEN Broken ELSE end.words

(* windows_command_line: the words with spaces between them, in memory of  *)
(* the size of what windows_quoted_len says of each; a longer line would   *)
(* be written past its end.                                                *)
QuotedLen(word) ==
  IF NeedsQuote(word)
  THEN 2 + Len(Mapped(word, LAMBDA c : IF c \in {Quote, Backslash} THEN <<c, c>> ELSE <<c>>))
  ELSE Len(word)

RoomStep(n, word) == n + QuotedLen(word) + 1

CommandLine(words) ==
  LET line == Tail(Mapped(words, LAMBDA word : <<" ">> \o WindowsQuote(word)))
      room == FoldLeft(RoomStep, 0, words)
  IN IF Len(line) + 1 > room THEN Broken[1] ELSE line

(* start_service: exec takes the words, CreateProcessA a line of them in   *)
(* the ANSI code page.  An empty name is no program, and neither is one    *)
(* that is misread.                                                        *)
StartService(program, arguments) ==
  LET words == ParsedPacket(CommandPacket(<<program>> \o arguments))
      found == /\ words # Broken /\ words[1] # <<>>
               /\ platform = "windows" => FromAnsi(words[1]) = words[1]
  IN /\ service = Nothing
     /\ service' = <<program>> \o arguments
     /\ received' = IF ~found THEN Unknown
                    ELSE IF platform = "windows" THEN WindowsWords(FromAnsi(CommandLine(words)))
                    ELSE words
     /\ UNCHANGED <<platform, entry, meant>>

StopService ==
  /\ service # Nothing
  /\ service' = Nothing
  /\ received' = Nothing
  /\ UNCHANGED <<platform, entry, meant>>

=============================================================================
