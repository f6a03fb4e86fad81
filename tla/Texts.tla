-------------------------------- MODULE Texts --------------------------------
(***************************************************************************)
(* Texts that leave the program: how the backends and the plugins quote,   *)
(* escape and measure them, and how the programs that read them take them  *)
(* apart again (a shell, the desktop's launcher, the C runtime of Windows, *)
(* PowerShell, a JSON parser), which are external.                         *)
(*                                                                         *)
(* A text is a sequence of characters.  An XML entity is one character,    *)
(* and so is a word of a protocol ("immediate").  BEL stands for the       *)
(* control characters other than line breaks and the tab.                  *)
(***************************************************************************)
EXTENDS Integers, SequencesExt

VARIABLE platform    (* "linux", "macos" or "windows", for a behaviour      *)

NL == "\n"
CR == "\r"
Apostrophe == "'"
Quote == "\""
Backslash == "\\"

(* What a reader makes of a text it cannot take apart.                     *)
Broken == <<<<"broken">>>>

Has(text, chars) == \E i \in DOMAIN text : text[i] \in chars

(* text with each character replaced by a text of its own.                 *)
Mapped(text, Code(_)) == FlattenSeq([i \in DOMAIN text |-> Code(text[i])])

(* text between marks, the special characters in it preceded by a prefix.  *)
Between(mark, special, prefix, text) ==
  <<mark>> \o Mapped(text, LAMBDA c : IF c \in special THEN <<prefix, c>> ELSE <<c>>) \o <<mark>>

-----------------------------------------------------------------------------
(* Bytes.  Of the characters here one, u-umlaut, takes two.                *)
Utf8(text) == Mapped(text, LAMBDA c : IF c = "ue" THEN <<"C3", "BC">> ELSE <<c>>)

(* Windows takes the bytes it is given as an 8-bit text to be characters of *)
(* its ANSI code page, one each.                                           *)
FromAnsi(bytes) ==
  [i \in DOMAIN bytes |-> CASE bytes[i] = "C3" -> "A-tilde"
                            [] bytes[i] = "BC" -> "one-quarter"
                            [] OTHER -> bytes[i]]
Misread(text) == FromAnsi(Utf8(text))

(* Bytes that no text in UTF-8 has where they stand here: the u-umlaut of  *)
(* an OEM code page, and one of a file name in no encoding.                *)
NotUtf8 == {"81", "FF"}

Digits == <<"0", "1", "2", "3", "4", "5", "6", "7", "8", "9">>
IsDigit(c) == \E d \in DOMAIN Digits : Digits[d] = c
Digit(c) == (CHOOSE d \in DOMAIN Digits : Digits[d] = c) - 1

(* A number in decimal.                                                    *)
Decimal[n \in Nat] ==
  IF n < 10 THEN <<Digits[n + 1]>> ELSE Append(Decimal[n \div 10], Digits[(n % 10) + 1])

(* The number digits stand for; -1 when something else is among them.      *)
DigitStep(n, c) == IF n < 0 \/ ~IsDigit(c) THEN -1 ELSE 10 * n + Digit(c)
Number(digits) == FoldLeft(DigitStep, 0, digits)

(* The numbers a text may stand for, one or none: at least a digit, and a  *)
(* sign before it.                                                         *)
SignedNumber(text) ==
  LET signed == text # <<>> /\ text[1] = "-"
      digits == IF signed THEN Tail(text) ELSE text
  IN IF digits = <<>> \/ Number(digits) < 0 THEN {}
     ELSE {IF signed THEN 0 - Number(digits) ELSE Number(digits)}

(* A C string ends at its first NUL.                                       *)
CString(text) ==
  LET n == SelectInSeq(text, LAMBDA c : c = "NUL") IN IF n = 0 THEN text ELSE SubSeq(text, 1, n - 1)

(* The first line of text, and what comes after it; there may be none.     *)
LineEnd(text) == SelectInSeq(text, LAMBDA c : c = NL)
Line(text) == SubSeq(text, 1, LineEnd(text) - 1)
Rest(text) == SubSeq(text, LineEnd(text) + 1, Len(text))

Joined(texts) == Mapped(texts, LAMBDA t : <<NL>> \o t)

-----------------------------------------------------------------------------
(* Quoting, in the backends and the plugins.                               *)
ShellQuote(text) ==
  <<Apostrophe>>
  \o Mapped(text, LAMBDA c : IF c = Apostrophe
                             THEN <<Apostrophe, Backslash, Apostrophe, Apostrophe>>
                             ELSE <<c>>)
  \o <<Apostrophe>>

Entities ==
  [c \in {"&", "<", ">", Quote, Apostrophe} |->
    CASE c = "&" -> "&amp;"
      [] c = "<" -> "&lt;"
      [] c = ">" -> "&gt;"
      [] c = Quote -> "&quot;"
      [] c = Apostrophe -> "&apos;"]

XmlEscape(text) ==
  [i \in DOMAIN text |-> IF text[i] \in DOMAIN Entities THEN Entities[text[i]] ELSE text[i]]

DesktopQuote(text) == Between(Quote, {Quote, Backslash, "backquote", "dollar"}, Backslash, text)

PowerShellQuote(text) == Between(Apostrophe, {Apostrophe}, Apostrophe, text)

NeedsQuote(text) == text = <<>> \/ \E i \in DOMAIN text : text[i] \in {" ", "\t", Quote, Backslash}

BrokenWindowsQuote(text) ==
  IF NeedsQuote(text) THEN Between(Quote, {Quote}, Backslash, text) ELSE text

WindowsQuote(text) ==
  IF NeedsQuote(text) THEN Between(Quote, {Quote, Backslash}, Backslash, text) ELSE text

JsonString(text) ==
  <<Quote>>
  \o Mapped(text, LAMBDA c : CASE c \in {Quote, Backslash} -> <<Backslash, c>>
                             [] c = NL -> <<Backslash, "n">>
                             [] c = CR -> <<Backslash, "r">>
                             [] c = "\t" -> <<Backslash, "t">>
                             [] OTHER -> <<c>>)
  \o <<Quote>>

-----------------------------------------------------------------------------
(* Readers.  They go over a text character by character; mode is where in  *)
(* a word they are, held what they count.                                  *)
Reading == [mode |-> "gap", word |-> <<>>, words |-> <<>>, held |-> 0]

Put(s, c, mode) == [s EXCEPT !.word = Append(@, c), !.mode = mode]
In(s, mode) == [s EXCEPT !.mode = mode]
Cut(s) == IF s.mode = "gap" THEN s
          ELSE [s EXCEPT !.mode = "gap", !.word = <<>>, !.words = Append(@, s.word)]

(* What was read, if the text does not end inside of something.            *)
Words(s) == IF s.mode \in {"gap", "word"} THEN Cut(s).words ELSE Broken

(* One string and nothing else.                                            *)
OneWord(s) == IF s.mode = "word" THEN s.word ELSE Broken[1]

(* The non-empty lines of text.                                            *)
LineStep(s, c) == IF c = NL THEN Cut(s) ELSE Put(s, c, "word")
Lines(text) == Cut(FoldLeft(LineStep, Reading, text)).words

(* A shell: apostrophes, and a backslash outside of them.                  *)
ShellStep(s, c) ==
  CASE s.mode = "quoted" -> IF c = Apostrophe THEN In(s, "word") ELSE Put(s, c, "quoted")
    [] s.mode = "escaped" -> Put(s, c, "word")
    [] OTHER -> CASE c = Apostrophe -> In(s, "quoted")
                  [] c = Backslash -> In(s, "escaped")
                  [] c \in {" ", NL} -> Cut(s)
                  [] OTHER -> Put(s, c, "word")

ShellWords(text) == Words(FoldLeft(ShellStep, Reading, text))

(* The text of an XML element.                                             *)
XmlText(text) ==
  IF Has(text, {"&", "<"}) THEN Broken[1]
  ELSE [i \in DOMAIN text |->
         IF \E c \in DOMAIN Entities : Entities[c] = text[i]
         THEN CHOOSE c \in DOMAIN Entities : Entities[c] = text[i] ELSE text[i]]

(* A string of a desktop entry, and then its Exec line: quotes, in which a *)
(* backslash escapes, and field codes, which are expanded.                 *)
DesktopStringStep(s, c) ==
  CASE s.mode = "broken" -> s
    [] s.mode = "escaped" -> IF c = Backslash THEN Put(s, c, "word") ELSE In(s, "broken")
    [] OTHER -> IF c = Backslash THEN In(s, "escaped") ELSE Put(s, c, "word")

DesktopString(text) == OneWord(FoldLeft(DesktopStringStep, Reading, text))

DesktopStep(s, c) ==
  CASE s.mode = "quoted" -> CASE c = Quote -> In(s, "word")
                              [] c = Backslash -> In(s, "escaped")
                              [] c = "%" -> In(s, "field")
                              [] OTHER -> Put(s, c, "quoted")
    [] s.mode = "escaped" -> Put(s, c, "quoted")
    [] s.mode = "field" -> IF c = "%" THEN Put(s, c, "quoted") ELSE In(s, "quoted")
    [] OTHER -> CASE c = Quote -> In(s, "quoted")
                  [] c = " " -> Cut(s)
                  [] OTHER -> Put(s, c, "word")

DesktopWords(text) == Words(FoldLeft(DesktopStep, Reading, DesktopString(text)))

(* The C runtime of Windows: of backslashes before a quote each two are    *)
(* one, and one that is left over escapes the quote.                       *)
Slashes(n) == [i \in 1 .. n |-> Backslash]
Add(s, more) == [s EXCEPT !.word = @ \o more, !.held = 0,
                          !.mode = IF @ = "gap" THEN "word" ELSE @]
Turn(s) == [s EXCEPT !.mode = IF @ = "quoted" THEN "word" ELSE "quoted"]
Held(s) == IF s.held = 0 THEN s ELSE Add(s, Slashes(s.held))

WindowsStep(s, c) ==
  CASE c = Backslash -> [s EXCEPT !.held = @ + 1]
    [] c = Quote -> IF s.held % 2 = 1 THEN Add(s, Append(Slashes(s.held \div 2), Quote))
                    ELSE Turn(Add(s, Slashes(s.held \div 2)))
    [] c \in {" ", "\t"} /\ s.mode # "quoted" -> Cut(Held(s))
    [] OTHER -> Add(s, Append(Slashes(s.held), c))

WindowsWords(text) == Cut(Held(FoldLeft(WindowsStep, Reading, text))).words

(* A string of PowerShell: two apostrophes are one.                        *)
PowerShellStep(s, c) ==
  CASE s.mode = "quoted" -> IF c = Apostrophe THEN In(s, "word") ELSE Put(s, c, "quoted")
    [] s.mode = "word" -> IF c = Apostrophe THEN Put(s, c, "quoted") ELSE In(s, "broken")
    [] s.mode = "gap" -> In(s, IF c = Apostrophe THEN "quoted" ELSE "broken")
    [] OTHER -> s

PowerShellText(text) == OneWord(FoldLeft(PowerShellStep, Reading, text))

(* A string of JSON, which has no control characters of its own.           *)
Controls == {NL, CR, "\t", "BEL"}

JsonMeant(c) == CASE c = "n" -> NL [] c = "r" -> CR [] c = "t" -> "\t" [] OTHER -> c

JsonStep(s, c) ==
  CASE s.mode = "quoted" -> CASE c = Quote -> In(s, "word")
                              [] c = Backslash -> In(s, "escaped")
                              [] c \in Controls -> In(s, "broken")
                              [] OTHER -> Put(s, c, "quoted")
    [] s.mode = "escaped" -> Put(s, JsonMeant(c), "quoted")
    [] s.mode = "gap" -> In(s, IF c = Quote THEN "quoted" ELSE "broken")
    [] OTHER -> In(s, "broken")

JsonText(text) == OneWord(FoldLeft(JsonStep, Reading, text))

=============================================================================
