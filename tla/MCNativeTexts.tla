---------------------------- MODULE MCNativeTexts ----------------------------
(* NativeTexts for TLC: texts of up to two characters, with all that is    *)
(* special to one of the readers.                                          *)
EXTENDS NativeTexts

(* All characters of the texts below.                                      *)
SomeCharacters ==
  {"a", "b", "c", "d", "e", "f", "g", "h", "i", "1", " ", "'", "\"", "\\", "%", "dollar", "&", "<", "ue",
   "\n", "\r", "\t", "BEL", "NUL", "/", "ok", "lepusa", ".localhost", "open-window", "drain-bridge-window"}

Chars == {"a", "1", " ", "'", "\"", "\\", "%", "dollar", "&", "<", "ue", "\n"}

Pairs(chars) == {<<a, b>> : a, b \in chars}

(* A program with arguments: one of up to two characters, or two.          *)
ProgramTexts == {<<"a">>, <<"a", " ", "'">>, <<"a", "\\">>}
ArgumentChars == {"a", " ", "'", "\"", "\\"}
ShortTexts == {<<>>, <<"1">>, <<" ">>, <<"'">>, <<"\"">>, <<" ", "\\">>, <<"ue">>}
SomeCommands ==
  {<<p>> : p \in ProgramTexts}
  \cup {<<<<"a">>, t>> : t \in {<<c>> : c \in Chars} \cup Pairs(ArgumentChars)}
  \cup {<<p, t, u>> : p \in ProgramTexts, t, u \in ShortTexts}

SomePlaces == {<<>>, <<"a">>, <<"'">>, <<"a", " ", "'", "'">>, <<"ue">>, <<"a", "\n", "b">>}

PathChars == {"a", "\n", "\r", "\t", "BEL", "\"", "\\", "ue", "FF"}
SomeSelections ==
  {<<p>> : p \in {<<c>> : c \in PathChars} \cup Pairs(PathChars)}
  \cup {<<p, <<"b">>>> : p \in Pairs(PathChars)}
  \cup {<<<<"b">>, p>> : p \in Pairs(PathChars)}

SomeScripts == {<<>>, <<"1">>, <<"\n">>, <<"ue", "\n", "1">>,
                <<"a", "b", "c", "d", "e", "f", "g", "h", "i", "ue">>}

NoWindow == [kind |-> "drain-bridge-window", window |-> <<"a">>, title |-> <<>>, width |-> {}, resizable |-> {}]
Window(title, width, resizable) ==
  [kind |-> "open-window", window |-> <<"a">>, title |-> title, width |-> {width}, resizable |-> {resizable}]

SomeOperations ==
  {<<>>, <<NoWindow>>}
  \cup {<<Window(t, w, b)>> : t \in SomeScripts, w \in {-12, 0, 9, 80}, b \in BOOLEAN}
  \cup {<<Window(t, 7, TRUE), Window(u, 10, FALSE), NoWindow>> : t, u \in SomeScripts}

SomeLocations == {<<>>, <<"/">>, <<"a">>, <<"/", "a">>, <<"/", "/", "a">>, <<"a", "/", "b">>,
                  <<"lepusa", ".localhost">>, <<"lepusa", ".localhost", "/", "a">>}

SomeBodies == {<<>>, <<"a">>, <<"\n", "a">>, <<"a", "\n">>, <<"ok", "\n", "ue">>, <<"a", "NUL", "b">>}

SomeLabels == {<<>>, <<"a">>, <<"1", "ue">>}

=============================================================================
