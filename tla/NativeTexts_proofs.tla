------------------------- MODULE NativeTexts_proofs -------------------------
(***************************************************************************)
(* Texts arrive as they were, for every text: those of login entries and   *)
(* services, of file dialogs, of packets and of URLs.  What a reader of    *)
(* Texts makes of what a writer has written is proved code by code (a      *)
(* code is what the writer writes for one character), then word by word,   *)
(* then packet by packet, each time by induction over places.              *)
(***************************************************************************)
EXTENDS NativeTexts, Lists_proofs

-----------------------------------------------------------------------------
(* Readers.  A step of Texts is a function of state and character here,    *)
(* and its fold a run.                                                     *)

(* The states of the readers.                                              *)
Modes == {"gap", "word", "quoted", "escaped", "field", "length", "body", "broken"}

(* The states of the readers of Texts: the mode, the word that is read,    *)
(* the words that were, and a number.                                      *)
States(C) == [mode : Modes, word : Seq(C), words : Seq(Seq(C)), held : Nat]

(* A state.                                                                *)
R(mode, word, words, held) == [mode |-> mode, word |-> word, words |-> words, held |-> held]

(* What a state is made of, and what the steps of Texts do with it.        *)
LEMMA StateType ==
  ASSUME NEW C, NEW m \in Modes, NEW w \in Seq(C), NEW ws \in Seq(Seq(C)), NEW n \in Nat
  PROVE  R(m, w, ws, n) \in States(C)
  BY DEF R, States

LEMMA StateIs ==
  ASSUME NEW C, NEW s \in States(C)
  PROVE  /\ s = R(s.mode, s.word, s.words, s.held)
         /\ s.mode \in Modes /\ s.word \in Seq(C) /\ s.words \in Seq(Seq(C)) /\ s.held \in Nat
  BY DEF R, States

LEMMA StateParts ==
  ASSUME NEW m, NEW w, NEW ws, NEW n
  PROVE  /\ R(m, w, ws, n).mode = m /\ R(m, w, ws, n).word = w
         /\ R(m, w, ws, n).words = ws /\ R(m, w, ws, n).held = n
  BY DEF R

LEMMA ReadingIs == Reading = R("gap", <<>>, <<>>, 0)
  BY DEF R, Reading

LEMMA PutIs ==
  ASSUME NEW m, NEW w, NEW ws, NEW n, NEW c, NEW k
  PROVE  Put(R(m, w, ws, n), c, k) = R(k, Append(w, c), ws, n)
<1> DEFINE s == R(m, w, ws, n)
           x == [s EXCEPT !.word = Append(@, c), !.mode = k]
<1>1. DOMAIN s = {"mode", "word", "words", "held"} /\ s = [f \in DOMAIN s |-> s[f]]
      /\ s.word = w /\ s.words = ws /\ s.held = n
  BY DEF R
<1>2. x = [f \in DOMAIN s |-> IF f = "mode" THEN k ELSE IF f = "word" THEN Append(s.word, c) ELSE s[f]]
  BY <1>1
<1> HIDE DEF s
<1>3. x = [mode |-> k, word |-> Append(w, c), words |-> ws, held |-> n]
  BY <1>1, <1>2
<1> QED
  BY <1>3 DEF R, Put, s

LEMMA InIs ==
  ASSUME NEW m, NEW w, NEW ws, NEW n, NEW k
  PROVE  In(R(m, w, ws, n), k) = R(k, w, ws, n)
  BY DEF R, In

LEMMA CutIs ==
  ASSUME NEW m, NEW w, NEW ws, NEW n
  PROVE  Cut(R(m, w, ws, n)) = IF m = "gap" THEN R(m, w, ws, n) ELSE R("gap", <<>>, Append(ws, w), n)
<1> DEFINE s == R(m, w, ws, n)
           x == [s EXCEPT !.mode = "gap", !.word = <<>>, !.words = Append(@, s.word)]
<1>1. DOMAIN s = {"mode", "word", "words", "held"} /\ s = [f \in DOMAIN s |-> s[f]]
      /\ s.mode = m /\ s.word = w /\ s.words = ws /\ s.held = n
  BY DEF R
<1>2. x = [f \in DOMAIN s |-> IF f = "words" THEN Append(s.words, s.word)
                              ELSE IF f = "word" THEN <<>> ELSE IF f = "mode" THEN "gap" ELSE s[f]]
  BY <1>1
<1> HIDE DEF s
<1>3. x = [mode |-> "gap", word |-> <<>>, words |-> Append(ws, w), held |-> n]
  BY <1>1, <1>2
<1>4. Cut(s) = IF s.mode = "gap" THEN s ELSE x
  BY DEF Cut
<1> QED
  BY <1>1, <1>3, <1>4 DEF R, s

(* The first steps keep to the states.                                     *)
LEMMA MovesType ==
  ASSUME NEW C, NEW s \in States(C), NEW c \in C, NEW m \in Modes
  PROVE  Put(s, c, m) \in States(C) /\ In(s, m) \in States(C) /\ Cut(s) \in States(C)
<1> DEFINE w == s.word
           ws == s.words
<1>1. s = R(s.mode, w, ws, s.held)
      /\ s.mode \in Modes /\ w \in Seq(C) /\ ws \in Seq(Seq(C)) /\ s.held \in Nat
  BY StateIs
<1>2. Put(s, c, m) = R(m, Append(w, c), ws, s.held)
  BY <1>1, PutIs
<1>3. In(s, m) = R(m, w, ws, s.held)
  BY <1>1, InIs
<1>4. Cut(s) = IF s.mode = "gap" THEN s ELSE R("gap", <<>>, Append(ws, w), s.held)
  BY <1>1, CutIs
<1>5. Append(w, c) \in Seq(C) /\ <<>> \in Seq(C) /\ Append(ws, w) \in Seq(Seq(C)) /\ "gap" \in Modes
  BY <1>1 DEF Modes
<1> HIDE DEF w, ws
<1> QED
  BY <1>1, <1>2, <1>3, <1>4, <1>5, StateType

LEMMA ReadingType ==
  ASSUME NEW C
  PROVE  Reading \in States(C)
<1>1. "gap" \in Modes /\ <<>> \in Seq(C) /\ <<>> \in Seq(Seq(C)) /\ 0 \in Nat
  BY DEF Modes
<1> QED
  BY <1>1, ReadingIs, StateType

(* Codes between marks.                                                    *)
Marked(mark, codes) == <<mark>> \o FlattenSeq(codes) \o <<mark>>

(* A run over a text between two marks ends where the second one leads     *)
(* from a state of T.                                                      *)
EndsIn(F, s0, mark, codes, T) == \E s \in T : Run(F, s0, Marked(mark, codes)) = F[<<s, mark>>]

(* A text between marks is read by its codes.                              *)
LEMMA ReadsMarked ==
  ASSUME NEW St, NEW C, NEW F, Reader(F, St, C), NEW codes \in Seq(Seq(C)), NEW mark \in C,
         NEW I, Stages(I, codes, St), NEW s0 \in St, F[<<s0, mark>>] \in I[0],
         Advances(F, codes, I)
  PROVE  Marked(mark, codes) \in Seq(C) /\ EndsIn(F, s0, mark, codes, I[Len(codes)])
<1> DEFINE m == <<mark>>
           t == FlattenSeq(codes)
           s1 == F[<<s0, mark>>]
           s == Run(F, s1, t)
<1>1. m \in Seq(C) /\ t \in Seq(C)
  BY FlattenType
<1>2. s1 \in St /\ Run(F, s0, m) = s1
  <2>1. s1 \in St
    BY DEF Reader
  <2>2. Run(F, s0, m) = s1
    BY RunOne
  <2> QED
    BY <2>1, <2>2
<1>3. s \in I[Len(codes)] /\ s \in St
  <2>1. s \in I[Len(codes)]
    BY ReadsCodes
  <2> HIDE DEF t, s1
  <2>2. s \in St
    BY <1>1, <1>2, RunType
  <2> QED
    BY <2>1, <2>2
<1>4. Run(F, s, m) = F[<<s, mark>>]
  <2> HIDE DEF s
  <2> QED
    BY <1>3, RunOne
<1> HIDE DEF m, t, s1
<1>5. m \o t \in Seq(C) /\ Run(F, s0, m \o t) = s
  BY <1>1, <1>2, RunConcat
<1>6. (m \o t) \o m \in Seq(C) /\ Run(F, s0, (m \o t) \o m) = Run(F, s, m)
  <2> DEFINE mt == m \o t
  <2>1. mt \in Seq(C)
    BY <1>5
  <2> HIDE DEF mt
  <2>2. Run(F, s0, mt \o m) = Run(F, Run(F, s0, mt), m)
    BY <1>1, <2>1, RunConcat
  <2>3. mt \o m \in Seq(C)
    BY <1>1, <2>1
  <2> QED
    BY <1>5, <2>2, <2>3 DEF mt
<1>7. (m \o t) \o m = m \o t \o m
  OBVIOUS
<1> HIDE DEF s
<1>8. Run(F, s0, m \o t \o m) = F[<<s, mark>>] /\ m \o t \o m \in Seq(C)
  BY <1>4, <1>6, <1>7
<1> QED
  BY <1>3, <1>8 DEF m, t, Marked, EndsIn

(* A reader for which a code between marks stands for a character.         *)
Decodes(F, C, ws, codes, text) ==
  \A i \in DOMAIN text : \A w \in Seq(C) :
    Run(F, R("quoted", w, ws, 0), codes[i]) = R("quoted", Append(w, text[i]), ws, 0)

(* When each code is read as its character, the text between the marks is  *)
(* read as it was.                                                         *)
LEMMA ReadsText ==
  ASSUME NEW C, NEW F, Reader(F, States(C), C), NEW mark \in C, NEW text \in Seq(C),
         NEW codes \in Seq(Seq(C)), Len(codes) = Len(text), NEW ws \in Seq(Seq(C)),
         NEW s0 \in States(C), F[<<s0, mark>>] = R("quoted", <<>>, ws, 0),
         Decodes(F, C, ws, codes, text)
  PROVE  /\ Marked(mark, codes) \in Seq(C)
         /\ Run(F, s0, Marked(mark, codes)) = F[<<R("quoted", text, ws, 0), mark>>]
<1> DEFINE n == Len(codes)
           S(k) == R("quoted", SubSeq(text, 1, k), ws, 0)
           I == [k \in 0 .. n |-> {S(k)}]
<1>1. n \in Nat /\ n = Len(text) /\ DOMAIN text = 1 .. n
  OBVIOUS
<1>2. \A k \in 0 .. n : SubSeq(text, 1, k) \in Seq(C)
  BY <1>1
<1>3. \A k \in 0 .. n : S(k) \in States(C)
  <2>1. "quoted" \in Modes /\ 0 \in Nat
    BY DEF Modes
  <2> QED
    BY <1>2, <2>1, StateType
<1>4. S(0) = R("quoted", <<>>, ws, 0) /\ S(n) = R("quoted", text, ws, 0)
  <2>1. SubSeq(text, 1, 0) = <<>> /\ SubSeq(text, 1, n) = text
    BY <1>1
  <2> QED
    BY <2>1
<1>5. ASSUME NEW k \in 0 .. n - 1 PROVE Run(F, S(k), codes[k + 1]) = S(k + 1)
  <2>1. /\ SubSeq(text, 1, k) \in Seq(C)
        /\ SubSeq(text, 1, k + 1) = Append(SubSeq(text, 1, k), text[k + 1])
    BY <1>1, LongerPrefix
  <2>2. k + 1 \in DOMAIN text
    BY <1>1
  <2> QED
    BY <2>1, <2>2 DEF Decodes
<1> HIDE DEF S
<1>6. Stages(I, codes, States(C)) /\ F[<<s0, mark>>] \in I[0] /\ I[n] = {S(n)}
  BY <1>1, <1>3, <1>4 DEF Stages
<1>7. Advances(F, codes, I)
  <2>1. \A k \in 0 .. n - 1 : k \in 0 .. n /\ k + 1 \in 0 .. n
    BY <1>1
  <2> QED
    BY <1>5, <2>1 DEF Advances
<1> HIDE DEF I
<1>8. Marked(mark, codes) \in Seq(C) /\ EndsIn(F, s0, mark, codes, I[n])
  BY <1>6, <1>7, ReadsMarked
<1>9. Run(F, s0, Marked(mark, codes)) = F[<<S(n), mark>>]
  BY <1>6, <1>8 DEF EndsIn
<1> QED
  BY <1>4, <1>8, <1>9

(* The readers.                                                            *)
Shell(C) == [x \in States(C) \X C |-> ShellStep(x[1], x[2])]

(* The shell's reader keeps to the states, and its fold is its run.        *)
LEMMA ShellReader ==
  ASSUME NEW C
  PROVE  Reader(Shell(C), States(C), C)
<1>1. ASSUME NEW s \in States(C), NEW c \in C PROVE ShellStep(s, c) \in States(C)
  <2>1. {"quoted", "word", "escaped"} \subseteq Modes
    BY DEF Modes
  <2> QED
    BY <2>1, MovesType DEF ShellStep
<1> QED
  BY <1>1 DEF Reader, Shell

LEMMA ShellRun ==
  ASSUME NEW C, NEW text \in Seq(C)
  PROVE  FoldLeft(ShellStep, Reading, text) = Run(Shell(C), Reading, text)
<1> DEFINE Eq(h) == h = [T \in SUBSET DOMAIN text |->
                           IF T = {} THEN Reading ELSE ShellStep(h[T \ {Max(T)}], text[Max(T)])]
<1>1. FoldLeft(ShellStep, Reading, text) = (CHOOSE h : Eq(h))[DOMAIN text]
  BY DEF FoldLeft, MapThenFoldSet
<1>2. PICK f \in [SUBSET DOMAIN text -> States(C)] : Folds(Shell(C), Reading, text, f)
  BY ShellReader, ReadingType, FoldExists
<1>3. ASSUME NEW T \in SUBSET DOMAIN text, T # {}
      PROVE  Max(T) \in DOMAIN text /\ text[Max(T)] \in C /\ T \ {Max(T)} \in SUBSET DOMAIN text
  BY <1>3, MaxOfPlaces
<1>4. Eq(f)
  BY <1>2, <1>3 DEF Folds, Shell
<1>5. Eq(CHOOSE h : Eq(h))
  BY <1>4
<1> HIDE DEF Eq
<1>6. PICK h : Eq(h) /\ FoldLeft(ShellStep, Reading, text) = h[DOMAIN text]
  BY <1>1, <1>5
<1>7. Follows(Shell(C), States(C), Reading, text, h)
  BY <1>3, <1>6 DEF Eq, Shell, Follows
<1>8. h[DOMAIN text] = Run(Shell(C), Reading, text)
  BY <1>7, ShellReader, ReadingType, FoldIsRun
<1> QED
  BY <1>6, <1>8

(* The readers of Texts as functions of state and character, over any      *)
(* alphabet: of lines, of a desktop entry's string and of its command, of  *)
(* PowerShell, of JSON.  Each keeps to the states, and its fold is its     *)
(* run.                                                                    *)
LinesOf(C) == [x \in States(C) \X C |-> LineStep(x[1], x[2])]

LEMMA LinesOfReader ==
  ASSUME NEW C
  PROVE  Reader(LinesOf(C), States(C), C)
<1>1. ASSUME NEW s \in States(C), NEW c \in C PROVE LineStep(s, c) \in States(C)
  <2>1. {"word"} \subseteq Modes
    BY DEF Modes
  <2> QED
    BY <2>1, MovesType DEF LineStep
<1> QED
  BY <1>1 DEF Reader, LinesOf

LEMMA LinesOfRun ==
  ASSUME NEW C, NEW text \in Seq(C)
  PROVE  FoldLeft(LineStep, Reading, text) = Run(LinesOf(C), Reading, text)
<1> DEFINE Eq(h) == h = [T \in SUBSET DOMAIN text |->
                           IF T = {} THEN Reading ELSE LineStep(h[T \ {Max(T)}], text[Max(T)])]
<1>1. FoldLeft(LineStep, Reading, text) = (CHOOSE h : Eq(h))[DOMAIN text]
  BY DEF FoldLeft, MapThenFoldSet
<1>2. PICK f \in [SUBSET DOMAIN text -> States(C)] : Folds(LinesOf(C), Reading, text, f)
  BY LinesOfReader, ReadingType, FoldExists
<1>3. ASSUME NEW T \in SUBSET DOMAIN text, T # {}
      PROVE  Max(T) \in DOMAIN text /\ text[Max(T)] \in C /\ T \ {Max(T)} \in SUBSET DOMAIN text
  BY <1>3, MaxOfPlaces
<1>4. Eq(f)
  BY <1>2, <1>3 DEF Folds, LinesOf
<1>5. Eq(CHOOSE h : Eq(h))
  BY <1>4
<1> HIDE DEF Eq
<1>6. PICK h : Eq(h) /\ FoldLeft(LineStep, Reading, text) = h[DOMAIN text]
  BY <1>1, <1>5
<1>7. Follows(LinesOf(C), States(C), Reading, text, h)
  BY <1>3, <1>6 DEF Eq, LinesOf, Follows
<1>8. h[DOMAIN text] = Run(LinesOf(C), Reading, text)
  BY <1>7, LinesOfReader, ReadingType, FoldIsRun
<1> QED
  BY <1>6, <1>8

Entry(C) == [x \in States(C) \X C |-> DesktopStringStep(x[1], x[2])]

LEMMA EntryReader ==
  ASSUME NEW C
  PROVE  Reader(Entry(C), States(C), C)
<1>1. ASSUME NEW s \in States(C), NEW c \in C PROVE DesktopStringStep(s, c) \in States(C)
  <2>1. {"word", "escaped", "broken"} \subseteq Modes
    BY DEF Modes
  <2> QED
    BY <2>1, MovesType DEF DesktopStringStep
<1> QED
  BY <1>1 DEF Reader, Entry

LEMMA EntryRun ==
  ASSUME NEW C, NEW text \in Seq(C)
  PROVE  FoldLeft(DesktopStringStep, Reading, text) = Run(Entry(C), Reading, text)
<1> DEFINE Eq(h) == h = [T \in SUBSET DOMAIN text |->
                           IF T = {} THEN Reading ELSE DesktopStringStep(h[T \ {Max(T)}], text[Max(T)])]
<1>1. FoldLeft(DesktopStringStep, Reading, text) = (CHOOSE h : Eq(h))[DOMAIN text]
  BY DEF FoldLeft, MapThenFoldSet
<1>2. PICK f \in [SUBSET DOMAIN text -> States(C)] : Folds(Entry(C), Reading, text, f)
  BY EntryReader, ReadingType, FoldExists
<1>3. ASSUME NEW T \in SUBSET DOMAIN text, T # {}
      PROVE  Max(T) \in DOMAIN text /\ text[Max(T)] \in C /\ T \ {Max(T)} \in SUBSET DOMAIN text
  BY <1>3, MaxOfPlaces
<1>4. Eq(f)
  BY <1>2, <1>3 DEF Folds, Entry
<1>5. Eq(CHOOSE h : Eq(h))
  BY <1>4
<1> HIDE DEF Eq
<1>6. PICK h : Eq(h) /\ FoldLeft(DesktopStringStep, Reading, text) = h[DOMAIN text]
  BY <1>1, <1>5
<1>7. Follows(Entry(C), States(C), Reading, text, h)
  BY <1>3, <1>6 DEF Eq, Entry, Follows
<1>8. h[DOMAIN text] = Run(Entry(C), Reading, text)
  BY <1>7, EntryReader, ReadingType, FoldIsRun
<1> QED
  BY <1>6, <1>8

Exec(C) == [x \in States(C) \X C |-> DesktopStep(x[1], x[2])]

LEMMA ExecReader ==
  ASSUME NEW C
  PROVE  Reader(Exec(C), States(C), C)
<1>1. ASSUME NEW s \in States(C), NEW c \in C PROVE DesktopStep(s, c) \in States(C)
  <2>1. {"quoted", "word", "escaped", "field"} \subseteq Modes
    BY DEF Modes
  <2> QED
    BY <2>1, MovesType DEF DesktopStep
<1> QED
  BY <1>1 DEF Reader, Exec

LEMMA ExecRun ==
  ASSUME NEW C, NEW text \in Seq(C)
  PROVE  FoldLeft(DesktopStep, Reading, text) = Run(Exec(C), Reading, text)
<1> DEFINE Eq(h) == h = [T \in SUBSET DOMAIN text |->
                           IF T = {} THEN Reading ELSE DesktopStep(h[T \ {Max(T)}], text[Max(T)])]
<1>1. FoldLeft(DesktopStep, Reading, text) = (CHOOSE h : Eq(h))[DOMAIN text]
  BY DEF FoldLeft, MapThenFoldSet
<1>2. PICK f \in [SUBSET DOMAIN text -> States(C)] : Folds(Exec(C), Reading, text, f)
  BY ExecReader, ReadingType, FoldExists
<1>3. ASSUME NEW T \in SUBSET DOMAIN text, T # {}
      PROVE  Max(T) \in DOMAIN text /\ text[Max(T)] \in C /\ T \ {Max(T)} \in SUBSET DOMAIN text
  BY <1>3, MaxOfPlaces
<1>4. Eq(f)
  BY <1>2, <1>3 DEF Folds, Exec
<1>5. Eq(CHOOSE h : Eq(h))
  BY <1>4
<1> HIDE DEF Eq
<1>6. PICK h : Eq(h) /\ FoldLeft(DesktopStep, Reading, text) = h[DOMAIN text]
  BY <1>1, <1>5
<1>7. Follows(Exec(C), States(C), Reading, text, h)
  BY <1>3, <1>6 DEF Eq, Exec, Follows
<1>8. h[DOMAIN text] = Run(Exec(C), Reading, text)
  BY <1>7, ExecReader, ReadingType, FoldIsRun
<1> QED
  BY <1>6, <1>8

PowerShell(C) == [x \in States(C) \X C |-> PowerShellStep(x[1], x[2])]

LEMMA PowerShellReader ==
  ASSUME NEW C
  PROVE  Reader(PowerShell(C), States(C), C)
<1>1. ASSUME NEW s \in States(C), NEW c \in C PROVE PowerShellStep(s, c) \in States(C)
  <2>1. {"quoted", "word", "broken"} \subseteq Modes
    BY DEF Modes
  <2> QED
    BY <2>1, MovesType DEF PowerShellStep
<1> QED
  BY <1>1 DEF Reader, PowerShell

LEMMA PowerShellRun ==
  ASSUME NEW C, NEW text \in Seq(C)
  PROVE  FoldLeft(PowerShellStep, Reading, text) = Run(PowerShell(C), Reading, text)
<1> DEFINE Eq(h) == h = [T \in SUBSET DOMAIN text |->
                           IF T = {} THEN Reading ELSE PowerShellStep(h[T \ {Max(T)}], text[Max(T)])]
<1>1. FoldLeft(PowerShellStep, Reading, text) = (CHOOSE h : Eq(h))[DOMAIN text]
  BY DEF FoldLeft, MapThenFoldSet
<1>2. PICK f \in [SUBSET DOMAIN text -> States(C)] : Folds(PowerShell(C), Reading, text, f)
  BY PowerShellReader, ReadingType, FoldExists
<1>3. ASSUME NEW T \in SUBSET DOMAIN text, T # {}
      PROVE  Max(T) \in DOMAIN text /\ text[Max(T)] \in C /\ T \ {Max(T)} \in SUBSET DOMAIN text
  BY <1>3, MaxOfPlaces
<1>4. Eq(f)
  BY <1>2, <1>3 DEF Folds, PowerShell
<1>5. Eq(CHOOSE h : Eq(h))
  BY <1>4
<1> HIDE DEF Eq
<1>6. PICK h : Eq(h) /\ FoldLeft(PowerShellStep, Reading, text) = h[DOMAIN text]
  BY <1>1, <1>5
<1>7. Follows(PowerShell(C), States(C), Reading, text, h)
  BY <1>3, <1>6 DEF Eq, PowerShell, Follows
<1>8. h[DOMAIN text] = Run(PowerShell(C), Reading, text)
  BY <1>7, PowerShellReader, ReadingType, FoldIsRun
<1> QED
  BY <1>6, <1>8

Json(C) == [x \in States(C) \X C |-> JsonStep(x[1], x[2])]

LEMMA JsonReader ==
  ASSUME NEW C, {NL, CR, "\t"} \subseteq C
  PROVE  Reader(Json(C), States(C), C)
<1>1. ASSUME NEW s \in States(C), NEW c \in C PROVE JsonStep(s, c) \in States(C)
  <2>1. {"quoted", "word", "escaped", "broken"} \subseteq Modes
    BY DEF Modes
  <2>2. JsonMeant(c) \in C
    BY DEF JsonMeant
  <2> QED
    BY <2>1, <2>2, MovesType DEF JsonStep
<1> QED
  BY <1>1 DEF Reader, Json

LEMMA JsonRun ==
  ASSUME NEW C, {NL, CR, "\t"} \subseteq C, NEW text \in Seq(C)
  PROVE  FoldLeft(JsonStep, Reading, text) = Run(Json(C), Reading, text)
<1> DEFINE Eq(h) == h = [T \in SUBSET DOMAIN text |->
                           IF T = {} THEN Reading ELSE JsonStep(h[T \ {Max(T)}], text[Max(T)])]
<1>1. FoldLeft(JsonStep, Reading, text) = (CHOOSE h : Eq(h))[DOMAIN text]
  BY DEF FoldLeft, MapThenFoldSet
<1>2. PICK f \in [SUBSET DOMAIN text -> States(C)] : Folds(Json(C), Reading, text, f)
  BY JsonReader, ReadingType, FoldExists
<1>3. ASSUME NEW T \in SUBSET DOMAIN text, T # {}
      PROVE  Max(T) \in DOMAIN text /\ text[Max(T)] \in C /\ T \ {Max(T)} \in SUBSET DOMAIN text
  BY <1>3, MaxOfPlaces
<1>4. Eq(f)
  BY <1>2, <1>3 DEF Folds, Json
<1>5. Eq(CHOOSE h : Eq(h))
  BY <1>4
<1> HIDE DEF Eq
<1>6. PICK h : Eq(h) /\ FoldLeft(JsonStep, Reading, text) = h[DOMAIN text]
  BY <1>1, <1>5
<1>7. Follows(Json(C), States(C), Reading, text, h)
  BY <1>3, <1>6 DEF Eq, Json, Follows
<1>8. h[DOMAIN text] = Run(Json(C), Reading, text)
  BY <1>7, JsonReader, ReadingType, FoldIsRun
<1> QED
  BY <1>6, <1>8

LEMMA PowerShellIs ==
  ASSUME NEW C, NEW s \in States(C), NEW c \in C
  PROVE  PowerShell(C)[<<s, c>>] = PowerShellStep(s, c)
  BY DEF PowerShell

(* PowerShell reads from a quoted text that text.                          *)
LEMMA PowerShellReads ==
  ASSUME NEW C, Apostrophe \in C, NEW text \in Seq(C)
  PROVE  PowerShellText(PowerShellQuote(text)) = text /\ PowerShellQuote(text) \in Seq(C)
<1> DEFINE Code(c) == IF c \in {Apostrophe} THEN <<Apostrophe, c>> ELSE <<c>>
           codes == [i \in DOMAIN text |-> Code(text[i])]
           F == PowerShell(C)
           ws == <<>>
           e == <<>>
<1>0. ws \in Seq(Seq(C)) /\ e \in Seq(C)
  OBVIOUS
<1>1. codes \in Seq(Seq(C)) /\ Len(codes) = Len(text)
  <2>1. Coded(codes, text, C)
    <3>1. \A i \in DOMAIN text : text[i] \in C
      OBVIOUS
    <3> QED
      BY <3>1 DEF Coded
  <2> HIDE DEF codes
  <2> QED
    BY <2>1, CodesType
<1>2. PowerShellQuote(text) = Marked(Apostrophe, codes)
  BY DEF PowerShellQuote, Between, Mapped, Marked
<1>3. {"gap", "quoted", "word"} \subseteq Modes /\ 0 \in Nat
  BY DEF Modes
<1>4. ASSUME NEW w \in Seq(C), NEW c \in C
      PROVE  /\ R("quoted", w, ws, 0) \in States(C) /\ R("word", w, ws, 0) \in States(C)
             /\ F[<<R("quoted", w, ws, 0), c>>] = IF c = Apostrophe THEN R("word", w, ws, 0) ELSE R("quoted", Append(w, c), ws, 0)
             /\ F[<<R("word", w, ws, 0), Apostrophe>>] = R("quoted", Append(w, Apostrophe), ws, 0)
  <2> HIDE DEF ws, e
  <2>1. R("quoted", w, ws, 0) \in States(C) /\ R("word", w, ws, 0) \in States(C)
    BY <1>0, <1>3, StateType
  <2>2. PowerShellStep(R("quoted", w, ws, 0), c) = IF c = Apostrophe THEN R("word", w, ws, 0) ELSE R("quoted", Append(w, c), ws, 0)
    BY StateParts, PutIs, InIs DEF PowerShellStep
  <2>3. PowerShellStep(R("word", w, ws, 0), Apostrophe) = R("quoted", Append(w, Apostrophe), ws, 0)
    BY StateParts, PutIs, InIs DEF PowerShellStep
  <2> QED
    BY <2>1, <2>2, <2>3, PowerShellIs
<1>5. Decodes(F, C, ws, codes, text)
  <2> SUFFICES ASSUME NEW i \in DOMAIN text, NEW w \in Seq(C)
               PROVE  Run(F, R("quoted", w, ws, 0), codes[i]) = R("quoted", Append(w, text[i]), ws, 0)
    BY DEF Decodes
  <2>1. text[i] \in C /\ codes[i] = Code(text[i]) /\ Reader(F, States(C), C)
    BY PowerShellReader
  <2> DEFINE s == R("quoted", w, ws, 0)
  <2>4. s \in States(C)
    BY <1>4, <2>1
  <2> HIDE DEF F, codes, ws, e, s
  <2>2. CASE text[i] = Apostrophe
    <3>1. Run(F, s, <<Apostrophe, Apostrophe>>) = F[<<F[<<s, Apostrophe>>], Apostrophe>>]
      BY <2>1, <2>4, RunTwo
    <3> QED
      BY <1>4, <2>1, <2>2, <3>1 DEF s
  <2>3. CASE text[i] # Apostrophe
    <3>1. Run(F, s, <<text[i]>>) = F[<<s, text[i]>>]
      BY <2>1, <2>4, RunOne
    <3> QED
      BY <1>4, <2>1, <2>3, <3>1 DEF s
  <2> QED
    BY <2>2, <2>3
<1>6. Reading = R("gap", e, ws, 0) /\ Reading \in States(C)
  BY ReadingIs, ReadingType
<1>7. F[<<Reading, Apostrophe>>] = R("quoted", e, ws, 0)
  <2> HIDE DEF ws, e
  <2>1. PowerShellStep(R("gap", e, ws, 0), Apostrophe) = R("quoted", e, ws, 0)
    BY StateParts, InIs DEF PowerShellStep
  <2> QED
    BY <1>6, <2>1, PowerShellIs
<1> HIDE DEF codes
<1>8. Marked(Apostrophe, codes) \in Seq(C)
      /\ Run(F, Reading, Marked(Apostrophe, codes)) = F[<<R("quoted", text, ws, 0), Apostrophe>>]
  <2>1. Reader(F, States(C), C)
    BY PowerShellReader
  <2>2. F[<<Reading, Apostrophe>>] = R("quoted", <<>>, ws, 0)
    BY <1>7
  <2> HIDE DEF F, ws, e
  <2> QED
    BY <1>0, <1>1, <1>5, <1>6, <2>1, <2>2, ReadsText
<1>9. FoldLeft(PowerShellStep, Reading, Marked(Apostrophe, codes)) = R("word", text, ws, 0)
  <2>1. FoldLeft(PowerShellStep, Reading, Marked(Apostrophe, codes)) = Run(F, Reading, Marked(Apostrophe, codes))
    BY <1>8, PowerShellRun
  <2> QED
    BY <1>4, <1>8, <2>1
<1> HIDE DEF ws, e
<1>10. PowerShellText(PowerShellQuote(text)) = text
  BY <1>2, <1>9, StateParts DEF PowerShellText, OneWord
<1> QED
  BY <1>2, <1>8, <1>10

LEMMA JsonIs ==
  ASSUME NEW C, NEW s \in States(C), NEW c \in C
  PROVE  Json(C)[<<s, c>>] = JsonStep(s, c)
  BY DEF Json

-----------------------------------------------------------------------------
(* Codes: what PowerShell and JSON read between their marks.               *)

(* The characters JSON escapes, and those it writes for them.              *)
JsonSigns == {Quote, Backslash, NL, CR, "\t", "n", "r", "t"}

(* A parser of JSON reads from a string of JSON the text it was made of,   *)
(* when no control characters are left in it.                              *)
LEMMA JsonReads ==
  ASSUME NEW C, JsonSigns \subseteq C, NEW text \in Seq(C), ~Has(text, {"BEL"})
  PROVE  JsonText(JsonString(text)) = text /\ JsonString(text) \in Seq(C)
<1> DEFINE Code(c) == CASE c \in {Quote, Backslash} -> <<Backslash, c>>
                        [] c = NL -> <<Backslash, "n">>
                        [] c = CR -> <<Backslash, "r">>
                        [] c = "\t" -> <<Backslash, "t">>
                        [] OTHER -> <<c>>
           Sign(c) == CASE c = NL -> "n" [] c = CR -> "r" [] c = "\t" -> "t" [] OTHER -> c
           codes == [i \in DOMAIN text |-> Code(text[i])]
           F == Json(C)
           ws == <<>>
           e == <<>>
<1>0. ws \in Seq(Seq(C)) /\ e \in Seq(C) /\ \A c \in JsonSigns : c \in C
  OBVIOUS
<1>a. ASSUME NEW c \in C
      PROVE  /\ Code(c) = IF c \in {Quote, Backslash, NL, CR, "\t"} THEN <<Backslash, Sign(c)>> ELSE <<c>>
             /\ Sign(c) \in C /\ (JsonMeant(Sign(c)) = c \/ c \in {"n", "r", "t"})
  BY <1>0 DEF NL, CR, Quote, Backslash, JsonMeant, JsonSigns
<1>1. codes \in Seq(Seq(C)) /\ Len(codes) = Len(text)
  <2>1. Coded(codes, text, C)
    <3>1. \A i \in DOMAIN text : text[i] \in C
      OBVIOUS
    <3>2. \A c \in C : Code(c) \in Seq(C)
      BY <1>0 DEF JsonSigns
    <3> HIDE DEF Code
    <3> QED
      BY <3>1, <3>2 DEF Coded
  <2> HIDE DEF codes
  <2> QED
    BY <2>1, CodesType
<1>2. JsonString(text) = Marked(Quote, codes)
  BY DEF JsonString, Mapped, Marked
<1>3. {"gap", "quoted", "word", "escaped"} \subseteq Modes /\ 0 \in Nat
  BY DEF Modes
<1>r. Reader(F, States(C), C) /\ Quote \in C /\ Backslash \in C
  BY <1>0, JsonReader DEF JsonSigns
<1> HIDE DEF Code, Sign
<1>4. ASSUME NEW w \in Seq(C), NEW c \in C
      PROVE  /\ R("quoted", w, ws, 0) \in States(C) /\ R("escaped", w, ws, 0) \in States(C)
             /\ F[<<R("quoted", w, ws, 0), c>>] =
                  IF c = Quote THEN R("word", w, ws, 0)
                  ELSE IF c = Backslash THEN R("escaped", w, ws, 0)
                  ELSE IF c \in Controls THEN R("broken", w, ws, 0)
                  ELSE R("quoted", Append(w, c), ws, 0)
             /\ F[<<R("escaped", w, ws, 0), c>>] = R("quoted", Append(w, JsonMeant(c)), ws, 0)
  <2> HIDE DEF ws, e
  <2>1. R("quoted", w, ws, 0) \in States(C) /\ R("escaped", w, ws, 0) \in States(C)
    BY <1>0, <1>3, StateType
  <2>2. JsonStep(R("quoted", w, ws, 0), c) =
                  IF c = Quote THEN R("word", w, ws, 0)
                  ELSE IF c = Backslash THEN R("escaped", w, ws, 0)
                  ELSE IF c \in Controls THEN R("broken", w, ws, 0)
                  ELSE R("quoted", Append(w, c), ws, 0)
    <3>1. Quote # Backslash /\ Quote \notin Controls /\ Backslash \notin Controls
      BY DEF Quote, Backslash, Controls, NL, CR
    <3> QED
      BY <3>1, StateParts, PutIs, InIs DEF JsonStep
  <2>3. JsonStep(R("escaped", w, ws, 0), c) = R("quoted", Append(w, JsonMeant(c)), ws, 0)
    BY StateParts, PutIs, InIs DEF JsonStep
  <2> QED
    BY <2>1, <2>2, <2>3, JsonIs
<1>5. Decodes(F, C, ws, codes, text)
  <2> SUFFICES ASSUME NEW i \in DOMAIN text, NEW w \in Seq(C)
               PROVE  Run(F, R("quoted", w, ws, 0), codes[i]) = R("quoted", Append(w, text[i]), ws, 0)
    BY DEF Decodes
  <2> DEFINE s == R("quoted", w, ws, 0)
             c == text[i]
  <2>1. c \in C /\ codes[i] = Code(c) /\ c # "BEL"
    BY DEF Has
  <2>4. s \in States(C)
    BY <1>4, <2>1
  <2> HIDE DEF F, codes, ws, e, s, c
  <2>2. CASE c \in {Quote, Backslash, NL, CR, "\t"}
    <3>0. Sign(c) \in C /\ JsonMeant(Sign(c)) = c /\ codes[i] = <<Backslash, Sign(c)>>
      BY <1>a, <2>1, <2>2 DEF NL, CR, Quote, Backslash
    <3>1. Run(F, s, <<Backslash, Sign(c)>>) = F[<<F[<<s, Backslash>>], Sign(c)>>]
      BY <1>r, <2>4, <3>0, RunTwo
    <3>2. F[<<s, Backslash>>] = R("escaped", w, ws, 0)
      BY <1>4, <1>r DEF s, Quote, Backslash
    <3>3. F[<<R("escaped", w, ws, 0), Sign(c)>>] = R("quoted", Append(w, c), ws, 0)
      BY <1>4, <3>0, ZenonT(40)
    <3> QED
      BY <3>0, <3>1, <3>2, <3>3 DEF s, c
  <2>3. CASE c \notin {Quote, Backslash, NL, CR, "\t"}
    <3>0. codes[i] = <<c>>
      BY <1>a, <2>1, <2>3
    <3>1. Run(F, s, <<c>>) = F[<<s, c>>]
      BY <1>r, <2>1, <2>4, RunOne
    <3>2. F[<<s, c>>] = R("quoted", Append(w, c), ws, 0)
      BY <1>4, <2>1, <2>3 DEF s, Controls, NL, CR, Quote, Backslash
    <3> QED
      BY <3>0, <3>1, <3>2 DEF s, c
  <2> QED
    BY <2>2, <2>3
<1>6. Reading = R("gap", e, ws, 0) /\ Reading \in States(C)
  BY ReadingIs, ReadingType
<1>7. F[<<Reading, Quote>>] = R("quoted", e, ws, 0)
  <2> HIDE DEF ws, e
  <2>1. JsonStep(R("gap", e, ws, 0), Quote) = R("quoted", e, ws, 0)
    BY StateParts, InIs DEF JsonStep
  <2> QED
    BY <1>6, <1>r, <2>1, JsonIs
<1> HIDE DEF codes
<1>8. Marked(Quote, codes) \in Seq(C)
      /\ Run(F, Reading, Marked(Quote, codes)) = F[<<R("quoted", text, ws, 0), Quote>>]
  <2>2. F[<<Reading, Quote>>] = R("quoted", <<>>, ws, 0)
    BY <1>7
  <2> HIDE DEF F, ws, e
  <2> QED
    BY <1>0, <1>1, <1>5, <1>6, <1>r, <2>2, ReadsText
<1>9. FoldLeft(JsonStep, Reading, Marked(Quote, codes)) = R("word", text, ws, 0)
  <2>1. FoldLeft(JsonStep, Reading, Marked(Quote, codes)) = Run(F, Reading, Marked(Quote, codes))
    BY <1>0, <1>8, JsonRun DEF JsonSigns
  <2> QED
    BY <1>4, <1>8, <1>r, <2>1
<1> HIDE DEF ws, e
<1>10. JsonText(JsonString(text)) = text
  BY <1>2, <1>9, StateParts DEF JsonText, OneWord
<1> QED
  BY <1>2, <1>8, <1>10

-----------------------------------------------------------------------------
(* Words: what is read where codes have separators between them.           *)

(* Between two words.                                                      *)
Gap(ws) == R("gap", <<>>, ws, 0)

LEMMA GapType ==
  ASSUME NEW C, NEW ws \in Seq(Seq(C))
  PROVE  Gap(ws) \in States(C)
<1>1. "gap" \in Modes /\ <<>> \in Seq(C) /\ 0 \in Nat
  BY DEF Modes
<1> QED
  BY <1>1, StateType DEF Gap

(* A reader that takes the characters of a text as they are.               *)
Plain(F, C, ws, text) ==
  \A i \in DOMAIN text : \A w \in Seq(C) : \A m \in {"gap", "word"} :
    F[<<R(m, w, ws, 0), text[i]>>] = R("word", Append(w, text[i]), ws, 0)

(* A text of which every character is read as itself is a word.            *)
LEMMA ReadsPlain ==
  ASSUME NEW C, NEW F, Reader(F, States(C), C), NEW ws \in Seq(Seq(C)),
         NEW text \in Seq(C), Plain(F, C, ws, text)
  PROVE  Run(F, Gap(ws), text) = IF text = <<>> THEN Gap(ws) ELSE R("word", text, ws, 0)
<1> DEFINE n == Len(text)
           m(k) == IF k = 0 THEN "gap" ELSE "word"
           g == [k \in 0 .. n |-> R(m(k), SubSeq(text, 1, k), ws, 0)]
<1>1. n \in Nat /\ DOMAIN text = 1 .. n
  OBVIOUS
<1>2. SubSeq(text, 1, 0) = <<>> /\ SubSeq(text, 1, n) = text /\ (n = 0 <=> text = <<>>)
  BY <1>1
<1>3. g[0] = Gap(ws)
  <2>1. g[0] = R(m(0), SubSeq(text, 1, 0), ws, 0)
    BY <1>1
  <2>2. m(0) = "gap"
    OBVIOUS
  <2> HIDE DEF g, m
  <2> QED
    BY <1>2, <2>1, <2>2 DEF Gap
<1>4. ASSUME NEW i \in 1 .. n PROVE g[i] = F[<<g[i - 1], text[i]>>]
  <2> DEFINE k == i - 1
  <2>1. k \in 0 .. n - 1 /\ k + 1 = i /\ k \in 0 .. n /\ i \in 0 .. n /\ i # 0 /\ i \in DOMAIN text
    BY <1>1
  <2> HIDE DEF k
  <2>2. SubSeq(text, 1, k) \in Seq(C) /\ SubSeq(text, 1, i) = Append(SubSeq(text, 1, k), text[i])
    BY <1>1, <2>1, LongerPrefix
  <2>3. F[<<R(m(k), SubSeq(text, 1, k), ws, 0), text[i]>>] = R("word", Append(SubSeq(text, 1, k), text[i]), ws, 0)
    BY <2>1, <2>2 DEF Plain
  <2>4. g[k] = R(m(k), SubSeq(text, 1, k), ws, 0) /\ g[i] = R("word", SubSeq(text, 1, i), ws, 0)
    BY <2>1
  <2>5. g[i] = F[<<g[k], text[i]>>]
    BY <2>2, <2>3, <2>4
  <2> QED
    BY <2>5 DEF k
<1>5. g[n] = IF text = <<>> THEN Gap(ws) ELSE R("word", text, ws, 0)
  <2>1. g[n] = R(m(n), SubSeq(text, 1, n), ws, 0)
    BY <1>1
  <2>2. m(n) = IF text = <<>> THEN "gap" ELSE "word"
    BY <1>2
  <2> HIDE DEF g, m, n
  <2> QED
    BY <1>2, <2>1, <2>2 DEF Gap
<1> HIDE DEF g
<1>6. IsTrace(F, Gap(ws), text, g)
  BY <1>1, <1>3, <1>4 DEF IsTrace
<1>7. Gap(ws) \in States(C)
  BY GapType
<1>8. Run(F, Gap(ws), text) = g[Len(text)]
  BY <1>6, <1>7, RunTrace
<1> QED
  BY <1>5, <1>8

(* Words after separators: sep leaves a reader that is between words where *)
(* it is, and closes a word as G says; codes[k] reads as a word of W[k].   *)
Separated(sep, codes) == [k \in DOMAIN codes |-> <<sep>> \o codes[k]]

(* The separator ends a word: between words it changes nothing, and G ends *)
(* the word that is read.                                                  *)
Gaps(F, G, C, sep) ==
  \A ws \in Seq(Seq(C)) : F[<<Gap(ws), sep>>] = Gap(ws) /\ G[Gap(ws)] = Gap(ws)

(* As many words as k, each one of those its code may be read as.          *)
Upto(W, v, k) == Len(v) = k /\ \A j \in 1 .. k : v[j] \in W[j]

(* From the state s a separator, or the end, makes one of the words of T   *)
(* the next.                                                               *)
Closes(F, G, C, sep, ws, s, T) ==
  F[<<s, sep>>] = G[s] /\ \E w \in T : w \in Seq(C) /\ G[s] = Gap(Append(ws, w))

(* Each code is read as one of its words, whatever was read before.        *)
ReadsWords(F, G, C, sep, codes, W) ==
  \A k \in DOMAIN codes : \A ws \in Seq(Seq(C)) :
    Closes(F, G, C, sep, ws, Run(F, Gap(ws), codes[k]), W[k])

(* A text is read as n words, each one of those its code may be read as.   *)
ReadsTo(F, G, C, text, W, n, ws0) ==
  \E v \in Seq(Seq(C)) : Upto(W, v, n) /\ G[Run(F, Gap(ws0), text)] = Gap(ws0 \o v)

(* Induction over words: when each code is read as its word and the        *)
(* separator ends words, all codes with separators between them are read   *)
(* as all the words.                                                       *)
LEMMA WordsRead ==
  ASSUME NEW C, NEW F, Reader(F, States(C), C), NEW G, NEW sep \in C, Gaps(F, G, C, sep),
         NEW codes \in Seq(Seq(C)), NEW W, ReadsWords(F, G, C, sep, codes, W),
         NEW ws0 \in Seq(Seq(C))
  PROVE  ReadsTo(F, G, C, FlattenSeq(Separated(sep, codes)), W, Len(codes), ws0)
<1> DEFINE n == Len(codes)
           seps == Separated(sep, codes)
           St == States(C)
           I == [k \in 0 .. n |->
                  {s \in St : /\ F[<<s, sep>>] = G[s]
                              /\ \E v \in Seq(Seq(C)) : Upto(W, v, k) /\ G[s] = Gap(ws0 \o v)}]
<1>1. n \in Nat /\ DOMAIN codes = 1 .. n
  OBVIOUS
<1>2. seps \in Seq(Seq(C)) /\ Len(seps) = n /\ \A k \in 1 .. n : seps[k] = <<sep>> \o codes[k]
  <2>1. \A k \in 1 .. n : <<sep>> \o codes[k] \in Seq(C)
    BY <1>1
  <2> QED
    BY <1>1, <2>1 DEF Separated
<1> HIDE DEF seps
<1>3. Stages(I, seps, St)
  BY <1>1, <1>2 DEF Stages
<1>4. Gap(ws0) \in I[0]
  <2>1. Gap(ws0) \in St
    BY GapType
  <2>2. Upto(W, <<>>, 0) /\ <<>> \in Seq(Seq(C)) /\ ws0 \o <<>> = ws0
    BY DEF Upto
  <2>3. F[<<Gap(ws0), sep>>] = G[Gap(ws0)] /\ G[Gap(ws0)] = Gap(ws0 \o <<>>)
    BY <2>2 DEF Gaps
  <2>4. 0 \in 0 .. n
    BY <1>1
  <2> DEFINE e == <<>>
  <2>5. Upto(W, e, 0) /\ e \in Seq(Seq(C)) /\ G[Gap(ws0)] = Gap(ws0 \o e)
    BY <2>2, <2>3
  <2> HIDE DEF St, e
  <2>6. \E v \in Seq(Seq(C)) : Upto(W, v, 0) /\ G[Gap(ws0)] = Gap(ws0 \o v)
    BY <2>5
  <2> QED
    BY <2>1, <2>3, <2>4, <2>6
<1>5. ASSUME NEW k \in 0 .. n - 1, NEW s \in I[k]
      PROVE  Run(F, s, seps[k + 1]) \in I[k + 1]
  <2>1. k \in 0 .. n /\ k + 1 \in 0 .. n /\ k + 1 \in 1 .. n /\ k \in Nat
    BY <1>1
  <2>2. s \in St /\ F[<<s, sep>>] = G[s]
    BY <2>1
  <2>3. PICK v \in Seq(Seq(C)) : Upto(W, v, k) /\ G[s] = Gap(ws0 \o v)
    BY <2>1
  <2> DEFINE b == <<sep>>
             vs == ws0 \o v
             e == Run(F, Gap(vs), codes[k + 1])
  <2>4. vs \in Seq(Seq(C)) /\ codes[k + 1] \in Seq(C) /\ b \in Seq(C)
    BY <1>1, <2>1
  <2>5. Run(F, s, b) = Gap(vs)
    <3>1. Run(F, s, b) = F[<<s, sep>>]
      BY <2>2, RunOne
    <3> QED
      BY <2>2, <2>3, <3>1
  <2> HIDE DEF b, vs
  <2>6. Run(F, s, b \o codes[k + 1]) = Run(F, Run(F, s, b), codes[k + 1])
    BY <2>2, <2>4, RunConcat
  <2>7. e \in St
    <3>1. Gap(vs) \in St
      BY <2>4, GapType
    <3> QED
      BY <2>4, <3>1, RunType
  <2>8. Closes(F, G, C, sep, vs, e, W[k + 1])
    BY <1>1, <2>1, <2>4 DEF ReadsWords
  <2> HIDE DEF e
  <2>9. PICK w \in W[k + 1] : w \in Seq(C) /\ G[e] = Gap(Append(vs, w))
    BY <2>8 DEF Closes
  <2>10. F[<<e, sep>>] = G[e]
    BY <2>8 DEF Closes
  <2>11. Append(vs, w) = ws0 \o Append(v, w) /\ Append(v, w) \in Seq(Seq(C))
    <3> DEFINE S == Seq(C)
    <3>1. v \in Seq(S) /\ w \in S /\ ws0 \in Seq(S)
      BY <2>3, <2>9
    <3> HIDE DEF S
    <3>2. SameAppend(ws0, v, w)
      BY <3>1, AppendConcat
    <3>3. Append(v, w) \in Seq(S)
      BY <3>1
    <3> QED
      BY <3>2, <3>3 DEF vs, S, SameAppend
  <2>12. Upto(W, Append(v, w), k + 1)
    <3>1. Len(v) = k /\ \A j \in 1 .. k : v[j] \in W[j]
      BY <2>3 DEF Upto
    <3>2. Len(Append(v, w)) = k + 1
      BY <2>9, <3>1
    <3>3. ASSUME NEW j \in 1 .. k + 1 PROVE Append(v, w)[j] \in W[j]
      <4>1. CASE j = k + 1
        BY <2>9, <3>1, <4>1
      <4>2. CASE j # k + 1
        <5>1. j \in 1 .. k
          BY <2>1, <4>2
        <5>2. Append(v, w)[j] = v[j]
          BY <2>9, <3>1, <5>1
        <5> QED
          BY <3>1, <5>1, <5>2
      <4> QED
        BY <4>1, <4>2
    <3> QED
      BY <3>2, <3>3 DEF Upto
  <2>13. seps[k + 1] = b \o codes[k + 1]
    BY <1>2, <2>1 DEF b
  <2>14. Run(F, s, seps[k + 1]) = e
    BY <2>5, <2>6, <2>13 DEF e
  <2>15. e \in I[k + 1]
    <3> HIDE DEF St
    <3> QED
      BY <2>1, <2>7, <2>9, <2>10, <2>11, <2>12
  <2> QED
    BY <2>14, <2>15
<1>6. Advances(F, seps, I)
  <2> HIDE DEF I
  <2> QED
    BY <1>2, <1>5 DEF Advances
<1>7. Run(F, Gap(ws0), FlattenSeq(seps)) \in I[n]
  <2> HIDE DEF I, St
  <2>1. Reader(F, St, C)
    BY DEF St
  <2>2. Run(F, Gap(ws0), FlattenSeq(seps)) \in I[Len(seps)]
    BY <1>2, <1>3, <1>4, <1>6, <2>1, ReadsCodes
  <2> QED
    BY <1>2, <2>2
<1> HIDE DEF St
<1>8. \E v \in Seq(Seq(C)) : Upto(W, v, n) /\ G[Run(F, Gap(ws0), FlattenSeq(seps))] = Gap(ws0 \o v)
  BY <1>1, <1>7
<1> QED
  BY <1>8 DEF ReadsTo, seps

(* The separator before the first word makes no difference.                *)
LEMMA TailReads ==
  ASSUME NEW C, NEW F, Reader(F, States(C), C), NEW G, NEW sep \in C, Gaps(F, G, C, sep),
         NEW codes \in Seq(Seq(C)), codes # <<>>, NEW ws0 \in Seq(Seq(C))
  PROVE  LET all == FlattenSeq(Separated(sep, codes))
         IN /\ all \in Seq(C) /\ Tail(all) \in Seq(C) /\ all = <<sep>> \o Tail(all)
            /\ Run(F, Gap(ws0), all) = Run(F, Gap(ws0), Tail(all))
<1> DEFINE seps == Separated(sep, codes)
           all == FlattenSeq(seps)
           b == <<sep>>
<1>1. seps \in Seq(Seq(C)) /\ seps # <<>> /\ seps[1] = <<sep>> \o codes[1] /\ codes[1] \in Seq(C)
  <2>1. Len(codes) \in Nat /\ DOMAIN codes = 1 .. Len(codes) /\ 1 \in DOMAIN codes
        /\ \A k \in DOMAIN codes : codes[k] \in Seq(C)
    OBVIOUS
  <2>2. \A k \in DOMAIN codes : <<sep>> \o codes[k] \in Seq(C)
    BY <2>1
  <2>3. seps \in Seq(Seq(C)) /\ Len(seps) = Len(codes)
    BY <2>1, <2>2 DEF Separated
  <2>4. seps[1] = <<sep>> \o codes[1]
    BY <2>1 DEF Separated
  <2> HIDE DEF seps
  <2> QED
    BY <2>1, <2>3, <2>4
<1> HIDE DEF seps
<1>2. seps[1] # <<>> /\ seps[1][1] = sep
  BY <1>1
<1>3. all # <<>> /\ all[1] = sep
  BY <1>1, <1>2, FlattenHead
<1>4. all \in Seq(C)
  BY <1>1, FlattenType
<1> HIDE DEF all
<1>5. Tail(all) \in Seq(C) /\ all = b \o Tail(all) /\ b \in Seq(C)
  BY <1>3, <1>4
<1>6. Run(F, Gap(ws0), b) = Gap(ws0)
  <2>1. Gap(ws0) \in States(C)
    BY GapType
  <2>2. Run(F, Gap(ws0), b) = F[<<Gap(ws0), sep>>]
    BY <2>1, RunOne
  <2> QED
    BY <2>2 DEF Gaps
<1> DEFINE rest == Tail(all)
<1> HIDE DEF b, rest
<1>7. Run(F, Gap(ws0), b \o rest) = Run(F, Gap(ws0), rest)
  <2>1. Gap(ws0) \in States(C)
    BY GapType
  <2>2. rest \in Seq(C)
    BY <1>5 DEF rest
  <2>3. Run(F, Gap(ws0), b \o rest) = Run(F, Run(F, Gap(ws0), b), rest)
    BY <1>5, <2>1, <2>2, RunConcat
  <2> QED
    BY <1>6, <2>3
<1> QED
  BY <1>4, <1>5, <1>7 DEF all, seps, b, rest

(* The shell's reader at one step.                                         *)
LEMMA ShellIs ==
  ASSUME NEW C, NEW s \in States(C), NEW c \in C
  PROVE  Shell(C)[<<s, c>>] = ShellStep(s, c)
  BY DEF Shell

(* A shell reads a quoted text as a word, the text.                        *)
LEMMA ShellReadsQuote ==
  ASSUME NEW C, Apostrophe \in C, Backslash \in C, NEW text \in Seq(C), NEW ws \in Seq(Seq(C))
  PROVE  /\ ShellQuote(text) \in Seq(C)
         /\ Run(Shell(C), Gap(ws), ShellQuote(text)) = R("word", text, ws, 0)
<1> DEFINE Code(c) == IF c = Apostrophe THEN <<Apostrophe, Backslash, Apostrophe, Apostrophe>> ELSE <<c>>
           codes == [i \in DOMAIN text |-> Code(text[i])]
           F == Shell(C)
<1>0. Apostrophe # Backslash
  BY DEF Apostrophe, Backslash
<1>1. codes \in Seq(Seq(C)) /\ Len(codes) = Len(text)
  <2>1. Coded(codes, text, C)
    <3>1. \A i \in DOMAIN text : text[i] \in C
      OBVIOUS
    <3> QED
      BY <3>1 DEF Coded
  <2> HIDE DEF codes
  <2> QED
    BY <2>1, CodesType
<1>2. ShellQuote(text) = Marked(Apostrophe, codes)
  BY DEF ShellQuote, Mapped, Marked
<1>3. {"gap", "quoted", "word", "escaped"} \subseteq Modes /\ 0 \in Nat
  BY DEF Modes
<1>r. Reader(F, States(C), C)
  BY ShellReader
<1>4. ASSUME NEW w \in Seq(C), NEW c \in C
      PROVE  /\ R("quoted", w, ws, 0) \in States(C)
             /\ F[<<R("quoted", w, ws, 0), c>>] =
                  IF c = Apostrophe THEN R("word", w, ws, 0) ELSE R("quoted", Append(w, c), ws, 0)
             /\ F[<<R("word", w, ws, 0), Apostrophe>>] = R("quoted", w, ws, 0)
             /\ F[<<R("word", w, ws, 0), Backslash>>] = R("escaped", w, ws, 0)
             /\ F[<<R("escaped", w, ws, 0), Apostrophe>>] = R("word", Append(w, Apostrophe), ws, 0)
  <2>1. /\ R("quoted", w, ws, 0) \in States(C) /\ R("escaped", w, ws, 0) \in States(C)
        /\ R("word", w, ws, 0) \in States(C)
    BY <1>3, StateType
  <2>2. ShellStep(R("quoted", w, ws, 0), c) = IF c = Apostrophe THEN R("word", w, ws, 0) ELSE R("quoted", Append(w, c), ws, 0)
    <3> DEFINE s == R("quoted", w, ws, 0)
    <3>1. s.mode = "quoted"
      BY StateParts
    <3> HIDE DEF s
    <3>2. ShellStep(s, c) = IF c = Apostrophe THEN In(s, "word") ELSE Put(s, c, "quoted")
      BY <3>1 DEF ShellStep
    <3> QED
      BY <3>2, PutIs, InIs DEF s
  <2>3. ShellStep(R("word", w, ws, 0), Apostrophe) = R("quoted", w, ws, 0)
    BY StateParts, PutIs, InIs DEF ShellStep, NL, Apostrophe, Backslash
  <2>4. ShellStep(R("word", w, ws, 0), Backslash) = R("escaped", w, ws, 0)
    BY <1>0, StateParts, PutIs, InIs DEF ShellStep, NL, Apostrophe, Backslash
  <2>5. ShellStep(R("escaped", w, ws, 0), Apostrophe) = R("word", Append(w, Apostrophe), ws, 0)
    BY StateParts, PutIs, InIs DEF ShellStep, NL, Apostrophe, Backslash
  <2> QED
    BY <2>1, <2>2, <2>3, <2>4, <2>5, ShellIs
<1>5. Decodes(F, C, ws, codes, text)
  <2> SUFFICES ASSUME NEW i \in DOMAIN text, NEW w \in Seq(C)
               PROVE  Run(F, R("quoted", w, ws, 0), codes[i]) = R("quoted", Append(w, text[i]), ws, 0)
    BY DEF Decodes
  <2> DEFINE s == R("quoted", w, ws, 0)
             c == text[i]
             v == Append(w, Apostrophe)
  <2>1. c \in C /\ codes[i] = Code(c) /\ v \in Seq(C)
    OBVIOUS
  <2>4. s \in States(C)
    BY <1>4, <2>1
  <2> HIDE DEF F, codes, s, c, v
  <2>2. CASE c = Apostrophe
    <3>0. codes[i] = <<Apostrophe, Backslash, Apostrophe, Apostrophe>>
      BY <2>1, <2>2
    <3>1. Run(F, s, <<Apostrophe, Backslash, Apostrophe, Apostrophe>>) =
            F[<<F[<<F[<<F[<<s, Apostrophe>>], Backslash>>], Apostrophe>>], Apostrophe>>]
      BY <1>r, <2>4, RunFour
    <3>2. F[<<s, Apostrophe>>] = R("word", w, ws, 0) /\ F[<<R("word", w, ws, 0), Backslash>>] = R("escaped", w, ws, 0)
      BY <1>4 DEF s
    <3>3. F[<<R("escaped", w, ws, 0), Apostrophe>>] = R("word", v, ws, 0)
      BY <1>4 DEF v
    <3>4. F[<<R("word", v, ws, 0), Apostrophe>>] = R("quoted", v, ws, 0)
      BY <1>4, <2>1
    <3> QED
      BY <2>2, <3>0, <3>1, <3>2, <3>3, <3>4 DEF s, c, v
  <2>3. CASE c # Apostrophe
    <3>1. Run(F, s, <<c>>) = F[<<s, c>>]
      BY <1>r, <2>1, <2>4, RunOne
    <3>2. F[<<s, c>>] = R("quoted", Append(w, c), ws, 0)
      BY <1>4, <2>1, <2>3 DEF s
    <3> QED
      BY <2>1, <2>3, <3>1, <3>2 DEF s, c
  <2> QED
    BY <2>2, <2>3
<1>6. Gap(ws) \in States(C)
  BY GapType
<1>7. F[<<Gap(ws), Apostrophe>>] = R("quoted", <<>>, ws, 0)
  <2>1. ShellStep(Gap(ws), Apostrophe) = R("quoted", <<>>, ws, 0)
    BY StateParts, InIs DEF ShellStep, Gap, NL, Apostrophe, Backslash
  <2> QED
    BY <1>6, <2>1, ShellIs
<1> HIDE DEF codes, F
<1>8. Marked(Apostrophe, codes) \in Seq(C)
      /\ Run(F, Gap(ws), Marked(Apostrophe, codes)) = F[<<R("quoted", text, ws, 0), Apostrophe>>]
  BY <1>1, <1>5, <1>6, <1>7, <1>r, ReadsText
<1> QED
  BY <1>2, <1>4, <1>8 DEF F

(* Cutting, for readers whose words end so.                                *)
Cutting(C) == [s \in States(C) |-> Cut(s)]

LEMMA CutsWord ==
  ASSUME NEW C, NEW m \in {"gap", "word"}, NEW w \in Seq(C), NEW ws \in Seq(Seq(C))
  PROVE  /\ R(m, w, ws, 0) \in States(C)
         /\ Cutting(C)[R(m, w, ws, 0)] = IF m = "gap" THEN R(m, w, ws, 0) ELSE Gap(Append(ws, w))
<1>1. m \in Modes /\ 0 \in Nat
  BY DEF Modes
<1>2. R(m, w, ws, 0) \in States(C)
  BY <1>1, StateType
<1> QED
  BY <1>2, CutIs DEF Cutting, Gap

(* The words of a state between words.                                     *)
GapWords(s, v) == s = Gap(v) => s.words = v

LEMMA GapWordsAre == ASSUME NEW s, NEW v PROVE GapWords(s, v)
  BY StateParts DEF Gap, GapWords

LEMMA ReadingGap == Reading = Gap(<<>>)
  BY ReadingIs DEF Gap

(* Of joined texts without line breaks the lines are those texts, but for  *)
(* the empty ones.                                                         *)
LEMMA LinesOfJoined ==
  ASSUME NEW C, NL \in C, NEW texts \in Seq(Seq(C)),
         \A i \in DOMAIN texts : texts[i] # <<>> /\ ~Has(texts[i], {NL})
  PROVE  /\ Lines(Joined(texts)) = texts
         /\ texts # <<>> => Lines(Tail(Joined(texts))) = texts
<1> DEFINE F == LinesOf(C)
           G == Cutting(C)
           W == [k \in DOMAIN texts |-> {texts[k]}]
           e == <<>>
           all == FlattenSeq(Separated(NL, texts))
<1>1. Reader(F, States(C), C) /\ e \in Seq(Seq(C))
  BY LinesOfReader
<1>2. Joined(texts) = all
  BY DEF Joined, Mapped, Separated
<1>3. ASSUME NEW m \in {"gap", "word"}, NEW w \in Seq(C), NEW ws \in Seq(Seq(C)), NEW c \in C
      PROVE  F[<<R(m, w, ws, 0), c>>] =
               IF c = NL THEN G[R(m, w, ws, 0)] ELSE R("word", Append(w, c), ws, 0)
  <2>1. R(m, w, ws, 0) \in States(C)
    BY CutsWord
  <2> DEFINE s == R(m, w, ws, 0)
  <2> HIDE DEF s
  <2>2. F[<<s, c>>] = LineStep(s, c) /\ G[s] = Cut(s)
    BY <2>1 DEF s, LinesOf, Cutting
  <2>3. Put(s, c, "word") = R("word", Append(w, c), ws, 0)
    BY PutIs DEF s
  <2> QED
    BY <2>2, <2>3 DEF LineStep, s
<1>4. Gaps(F, G, C, NL)
  <2> SUFFICES ASSUME NEW ws \in Seq(Seq(C))
               PROVE  F[<<Gap(ws), NL>>] = Gap(ws) /\ G[Gap(ws)] = Gap(ws)
    BY DEF Gaps
  <2> DEFINE e1 == <<>>
  <2>0. e1 \in Seq(C) /\ Gap(ws) = R("gap", e1, ws, 0)
    BY DEF Gap
  <2> HIDE DEF e1, F, G
  <2>1. F[<<Gap(ws), NL>>] = G[Gap(ws)]
    BY <1>3, <2>0
  <2>2. G[Gap(ws)] = Gap(ws)
    BY <2>0, CutsWord DEF G
  <2> QED
    BY <2>1, <2>2
<1>5. ReadsWords(F, G, C, NL, texts, W)
  <2> SUFFICES ASSUME NEW k \in DOMAIN texts, NEW ws \in Seq(Seq(C))
               PROVE  Closes(F, G, C, NL, ws, Run(F, Gap(ws), texts[k]), W[k])
    BY DEF ReadsWords
  <2> DEFINE t == texts[k]
  <2>1. t \in Seq(C) /\ t # <<>> /\ \A i \in DOMAIN t : t[i] # NL /\ t[i] \in C
    BY DEF Has
  <2> HIDE DEF t, F
  <2>2. Plain(F, C, ws, t)
    BY <1>3, <2>1 DEF Plain
  <2>3. Run(F, Gap(ws), t) = R("word", t, ws, 0)
    BY <1>1, <2>1, <2>2, ReadsPlain
  <2>4. F[<<R("word", t, ws, 0), NL>>] = G[R("word", t, ws, 0)]
        /\ G[R("word", t, ws, 0)] = Gap(Append(ws, t))
    BY <1>3, <2>1, CutsWord
  <2>5. W[k] = {t}
    BY DEF t
  <2> HIDE DEF G, W
  <2>6. Closes(F, G, C, NL, ws, Run(F, Gap(ws), t), W[k])
    BY <2>1, <2>3, <2>4, <2>5 DEF Closes
  <2> QED
    BY <2>6 DEF t
<1> HIDE DEF F, e
<1>6. ReadsTo(F, G, C, all, W, Len(texts), e)
  <2> HIDE DEF G, W
  <2> QED
    BY <1>1, <1>4, <1>5, WordsRead
<1>7. PICK v \in Seq(Seq(C)) : Upto(W, v, Len(texts)) /\ G[Run(F, Gap(e), all)] = Gap(e \o v)
  BY <1>6 DEF ReadsTo
<1>8. v = texts /\ e \o v = v
  <2>1. Len(v) = Len(texts) /\ \A j \in 1 .. Len(texts) : v[j] \in W[j]
    BY <1>7 DEF Upto
  <2>2. DOMAIN texts = 1 .. Len(texts)
    OBVIOUS
  <2>3. \A j \in 1 .. Len(texts) : v[j] = texts[j]
    BY <2>1, <2>2
  <2>4. v = texts
    BY <2>1, <2>3, SeqEqual
  <2> QED
    BY <2>4 DEF e
<1>9. \A t \in Seq(C) : Lines(t) = G[Run(F, Gap(e), t)].words
  <2> SUFFICES ASSUME NEW t \in Seq(C) PROVE Lines(t) = G[Run(F, Gap(e), t)].words
    OBVIOUS
  <2>1. FoldLeft(LineStep, Reading, t) = Run(F, Gap(e), t)
    BY LinesOfRun, ReadingGap DEF F, e
  <2>2. Run(F, Gap(e), t) \in States(C)
    <3>1. Gap(e) \in States(C)
      BY <1>1, GapType
    <3> QED
      BY <1>1, <3>1, RunType
  <2> QED
    BY <2>1, <2>2 DEF Lines, Cutting
<1>10. all \in Seq(C) /\ (texts # <<>> => Tail(all) \in Seq(C) /\ Run(F, Gap(e), all) = Run(F, Gap(e), Tail(all)))
  <2>1. CASE texts = <<>>
    <3>1. all = <<>>
      BY <2>1, FlattenEmpty DEF Separated
    <3> HIDE DEF all, G
    <3>2. all \in Seq(C)
      BY <3>1
    <3> QED
      BY <2>1, <3>2
  <2>2. CASE texts # <<>>
    <3> HIDE DEF G
    <3>1. /\ all \in Seq(C) /\ Tail(all) \in Seq(C) /\ all = <<NL>> \o Tail(all)
          /\ Run(F, Gap(e), all) = Run(F, Gap(e), Tail(all))
      BY <1>1, <1>4, <2>2, TailReads
    <3> QED
      BY <3>1
  <2> QED
    BY <2>1, <2>2
<1>11. G[Run(F, Gap(e), all)].words = texts
  BY <1>7, <1>8, GapWordsAre DEF GapWords
<1> HIDE DEF G, all
<1> QED
  BY <1>2, <1>9, <1>10, <1>11

-----------------------------------------------------------------------------
(* Conversions: what stays as it is.                                       *)

(* A text without some characters.                                         *)
LEMMA TextLacks ==
  ASSUME NEW S, NEW X, NEW text \in Seq(S), ~Has(text, X)
  PROVE  text \in Seq(S \ X)
<1> DEFINE T == S \ X
<1>1. \A i \in 1 .. Len(text) : text[i] \in T
  BY DEF Has
<1> HIDE DEF T
<1>2. text \in Seq(T)
  BY <1>1
<1> QED
  BY <1>2 DEF T

(* A text without long characters is its bytes, and the ANSI code page has *)
(* it as it is.                                                            *)
LEMMA Utf8Same ==
  ASSUME NEW C, "ue" \notin C, NEW text \in Seq(C)
  PROVE  Utf8(text) = text
<1> DEFINE codes == [i \in DOMAIN text |-> IF text[i] = "ue" THEN <<"C3", "BC">> ELSE <<text[i]>>]
           singles == [i \in DOMAIN text |-> <<text[i]>>]
<1>1. \A i \in DOMAIN text : text[i] # "ue"
  OBVIOUS
<1>2. codes = singles
  BY <1>1
<1>3. Utf8(text) = FlattenSeq(codes)
  BY DEF Utf8, Mapped
<1>4. FlattenSeq(singles) = text
  BY FlattenSingles
<1> HIDE DEF codes, singles
<1> QED
  BY <1>2, <1>3, <1>4

LEMMA AnsiSame ==
  ASSUME NEW C, "C3" \notin C, "BC" \notin C, NEW text \in Seq(C)
  PROVE  FromAnsi(text) = text
<1>1. \A i \in DOMAIN text : text[i] # "C3" /\ text[i] # "BC"
  OBVIOUS
<1>2. FromAnsi(text) = [i \in DOMAIN text |-> text[i]]
  BY <1>1 DEF FromAnsi
<1> QED
  BY <1>2

LEMMA MisreadSame ==
  ASSUME NEW C, "ue" \notin C, "C3" \notin C, "BC" \notin C, NEW text \in Seq(C)
  PROVE  Misread(text) = text
  BY Utf8Same, AnsiSame DEF Misread

(* The file of a script has a text without line breaks as it is, and so    *)
(* PowerShell reads it.                                                    *)
LEMMA TextModeSame ==
  ASSUME NEW C, NL \notin C, NEW text \in Seq(C)
  PROVE  TextMode(text) = text
<1> DEFINE codes == [i \in DOMAIN text |-> IF text[i] = NL THEN <<CR, NL>> ELSE <<text[i]>>]
           singles == [i \in DOMAIN text |-> <<text[i]>>]
<1>1. \A i \in DOMAIN text : text[i] # NL
  OBVIOUS
<1>2. codes = singles
  BY <1>1
<1>3. TextMode(text) = FlattenSeq(codes)
  BY DEF TextMode, Mapped
<1>4. FlattenSeq(singles) = text
  BY FlattenSingles
<1> HIDE DEF codes, singles
<1> QED
  BY <1>2, <1>3, <1>4

LEMMA ScriptReads ==
  ASSUME NEW text \in Seq(Characters), ~Has(text, {"ue", NL})
  PROVE  Script(text) = text
<1> DEFINE D == Characters \ {"ue", NL}
           C == D \cup {Apostrophe}
           q == PowerShellQuote(text)
<1>1. text \in Seq(C)
  <2>1. text \in Seq(D)
    BY TextLacks
  <2>2. D \subseteq C
    OBVIOUS
  <2> HIDE DEF D, C
  <2> QED
    BY <2>1, <2>2, MoreCharacters
<1>2. Apostrophe \in C /\ "ue" \notin C /\ NL \notin C /\ "C3" \notin C /\ "BC" \notin C
  BY CharactersAssumption DEF Apostrophe, NL
<1> HIDE DEF C, D
<1>3. PowerShellText(q) = text /\ q \in Seq(C)
  BY <1>1, <1>2, PowerShellReads
<1> HIDE DEF q
<1>4. TextMode(q) = q
  BY <1>2, <1>3, TextModeSame
<1>5. Misread(q) = q
  BY <1>2, <1>3, MisreadSame
<1>6. Script(text) = PowerShellText(Misread(TextMode(q)))
  BY DEF Script, q
<1> QED
  BY <1>3, <1>4, <1>5, <1>6

(* A string of JSON has bytes that are not UTF-8 when its text has.        *)
LEMMA JsonMarks ==
  ASSUME NEW C, JsonSigns \subseteq C, "broken" \notin C, NEW text \in Seq(C), ~Has(text, {"BEL"})
  PROVE  Has(JsonString(text), NotUtf8) <=> Has(text, NotUtf8)
<1> DEFINE D == C \ NotUtf8
           j == JsonString(text)
<1>1. JsonSigns \subseteq D /\ "broken" \notin D
  BY DEF JsonSigns, NotUtf8, Quote, Backslash, NL, CR
<1>2. JsonText(j) = text /\ j \in Seq(C)
  BY JsonReads
<1>3. \A t \in Seq(D) : ~Has(t, NotUtf8)
  BY DEF Has
<1>4. ASSUME ~Has(text, NotUtf8) PROVE ~Has(j, NotUtf8)
  <2>1. text \in Seq(D)
    BY <1>4, TextLacks
  <2> HIDE DEF D
  <2>2. j \in Seq(D)
    BY <1>1, <2>1, JsonReads
  <2> QED
    BY <1>3, <2>2
<1>5. ASSUME ~Has(j, NotUtf8) PROVE ~Has(text, NotUtf8)
  <2> DEFINE end == Run(Json(D), Reading, j)
  <2>1. j \in Seq(D)
    <3> HIDE DEF j
    <3> QED
      BY <1>2, <1>5, TextLacks
  <2>s. {NL, CR, "\t"} \subseteq D
    BY <1>1 DEF JsonSigns
  <2> HIDE DEF D, j
  <2>2. FoldLeft(JsonStep, Reading, j) = end
    BY <2>1, <2>s, JsonRun
  <2>3. end \in States(D)
    BY <2>1, <2>s, JsonReader, ReadingType, RunType
  <2> HIDE DEF end
  <2>4. text = IF end.mode = "word" THEN end.word ELSE Broken[1]
    BY <1>2, <2>2 DEF JsonText, OneWord
  <2>5. text # Broken[1]
    <3> DEFINE bad == "broken"
    <3>1. bad \notin C
      OBVIOUS
    <3> HIDE DEF bad
    <3>2. text # <<bad>>
      BY <3>1
    <3> QED
      BY <3>2 DEF bad, Broken
  <2>6. text = end.word /\ end.word \in Seq(D)
    BY <2>3, <2>4, <2>5, StateIs
  <2> QED
    BY <1>3, <2>6 DEF D
<1> QED
  BY <1>4, <1>5 DEF j

-----------------------------------------------------------------------------
(* File dialogs.                                                           *)

(* What the tools write.                                                   *)
LEMMA TrimmedIs ==
  ASSUME NEW C, NL \in C, NEW text \in Seq(C), text # <<>>, Last(text) \notin {NL, CR}
  PROVE  Trimmed(text) = text /\ Trimmed(Append(text, NL)) = text
<1> DEFINE n == Len(text)
           kept(t) == {i \in 1 .. Len(t) : t[i] \notin {NL, CR}}
           more == Append(text, NL)
<1>1. n \in Nat \ {0} /\ text[n] \notin {NL, CR} /\ Len(more) = n + 1 /\ more[n + 1] = NL
      /\ \A i \in 1 .. n : more[i] = text[i]
  BY DEF Last
<1>2. n \in kept(text) /\ \A m \in kept(text) : m <= n
  BY <1>1
<1>3. n \in kept(more) /\ \A m \in kept(more) : m <= n
  <2> HIDE DEF n, more
  <2>1. \A m \in kept(more) : m \in 1 .. n + 1 /\ m # n + 1
    BY <1>1
  <2> HIDE DEF kept
  <2>2. \A m \in kept(more) : m <= n
    BY <1>1, <2>1
  <2>3. n \in kept(more)
    BY <1>1 DEF kept
  <2> QED
    BY <2>2, <2>3
<1>4. SubSeq(text, 1, n) = text /\ SubSeq(more, 1, n) = text
  <2>1. more = text \o <<NL>>
    OBVIOUS
  <2>2. SubSeq(text, 1, n) = text
    BY <1>1
  <2>3. SubSeq(more, 1, n) \in Seq(C) /\ Len(SubSeq(more, 1, n)) = n
        /\ \A i \in 1 .. n : SubSeq(more, 1, n)[i] = text[i]
    <3>1. more \in Seq(C)
      OBVIOUS
    <3> HIDE DEF more, n
    <3> QED
      BY <1>1, <3>1
  <2> QED
    BY <2>2, <2>3, SeqEqual
<1>5. ASSUME NEW t, n \in kept(t), \A m \in kept(t) : m <= n
      PROVE  Trimmed(t) = SubSeq(t, 1, n)
  <2> DEFINE k == kept(t)
             Largest(i) == \A m \in k : m <= i
  <2>1. k # {} /\ Trimmed(t) = SubSeq(t, 1, CHOOSE i \in k : Largest(i))
    BY <1>5 DEF Trimmed
  <2>2. n \in k /\ Largest(n)
    BY <1>5
  <2>3. (CHOOSE i \in k : Largest(i)) \in k /\ Largest(CHOOSE i \in k : Largest(i))
    BY <2>2
  <2> DEFINE c == CHOOSE i \in k : Largest(i)
  <2>4. c \in k /\ Largest(c)
    BY <2>3
  <2>5. c \in 1 .. Len(t)
    BY <2>4
  <2> HIDE DEF c, k
  <2>6. c <= n /\ n <= c
    BY <2>2, <2>4
  <2>7. c = n
    BY <1>1, <2>5, <2>6
  <2> QED
    BY <2>1, <2>7 DEF c
<1> HIDE DEF kept, n, more
<1>6. Trimmed(text) = text
  BY <1>2, <1>4, <1>5
<1>7. Trimmed(more) = text
  BY <1>3, <1>4, <1>5
<1> QED
  BY <1>6, <1>7 DEF more

(* The output of a tool is its lines, whatever line breaks are at its end, *)
(* unless a path ends in one.                                              *)
LEMMA OutputIs ==
  ASSUME NEW C, NL \in C, NEW paths, paths # <<>>,
         NEW printed \in Seq(Seq(C)), printed # <<>>, printed = Printed(paths),
         \A i \in DOMAIN printed : printed[i] # <<>>, Last(Last(printed)) \notin {NL, CR}
  PROVE  Trimmed(Output(paths)) = Tail(Joined(printed))
<1> DEFINE codes == Separated(NL, printed)
           last == Last(printed)
           all == FlattenSeq(codes)
           text == Tail(all)
<1>0. Len(printed) \in Nat \ {0} /\ DOMAIN printed = 1 .. Len(printed) /\ last = printed[Len(printed)]
      /\ last \in Seq(C) /\ last # <<>>
  BY DEF Last
<1>1. Joined(printed) = all
  BY DEF Joined, Mapped, Separated
<1>2. codes \in Seq(Seq(C)) /\ codes # <<>> /\ Last(codes) = <<NL>> \o last
  <2>1. \A k \in DOMAIN printed : <<NL>> \o printed[k] \in Seq(C)
    OBVIOUS
  <2>2. codes \in Seq(Seq(C)) /\ Len(codes) = Len(printed)
    BY <1>0, <2>1 DEF Separated
  <2>3. codes[Len(printed)] = <<NL>> \o last
    BY <1>0 DEF Separated
  <2> HIDE DEF codes, last
  <2> QED
    BY <1>0, <2>2, <2>3 DEF Last
<1> HIDE DEF codes, last
<1> DEFINE b == <<NL>>
           c == b \o last
<1>3. c \in Seq(C) /\ Len(c) >= 2 /\ Last(c) = Last(last) /\ Last(codes) = c
  BY <1>0, <1>2 DEF Last
<1> HIDE DEF b, c
<1>4. all \in Seq(C) /\ Len(all) >= 2 /\ Last(all) = Last(last)
  <2>1. c # <<>>
    BY <1>3
  <2>2. Len(all) >= Len(c) /\ Last(all) = Last(c)
    BY <1>2, <1>3, <2>1, FlattenLast
  <2>3. all \in Seq(C)
    BY <1>2, FlattenType
  <2> HIDE DEF all
  <2> QED
    BY <1>3, <2>2, <2>3
<1> HIDE DEF all
<1>5. text \in Seq(C) /\ text # <<>> /\ Last(text) = Last(all)
  <2>1. text \in Seq(C) /\ Len(text) = Len(all) - 1 /\ Len(text) >= 1 /\ Len(all) \in Nat
    BY <1>4
  <2>2. text[Len(all) - 1] = all[Len(all)]
    BY <1>4, <2>1
  <2> HIDE DEF text
  <2> QED
    BY <2>1, <2>2 DEF Last
<1>6. Last(text) \notin {NL, CR}
  BY <1>4, <1>5 DEF last
<1> HIDE DEF text
<1>7. Trimmed(text) = text /\ Trimmed(Append(text, NL)) = text
  BY <1>5, <1>6, TrimmedIs
<1>8. Tail(Joined(Printed(paths))) = text
  BY <1>1 DEF text
<1> HIDE DEF text
<1> QED
  BY <1>7, <1>8 DEF Output

(* The page gets the paths a tool has written, when its output keeps them. *)
Clean(printed, action) ==
  /\ \A i \in DOMAIN printed : printed[i] # <<>> /\ ~Has(printed[i], {"BEL"})
  /\ Last(Last(printed)) \notin {NL, CR}
  /\ IF action = "openFiles" THEN \A i \in DOMAIN printed : ~Has(printed[i], {NL}) ELSE Len(printed) = 1

LEMMA SelectedArrives ==
  ASSUME NEW C, JsonSigns \subseteq C, "broken" \notin C, NEW paths, paths # <<>>,
         NEW printed \in Seq(Seq(C)), printed # <<>>, printed = Printed(paths),
         NEW action, Clean(printed, action)
  PROVE  Arrives([kind |-> "selected", paths |-> Selected(action, Output(paths))])
           = IF \E i \in DOMAIN printed : Has(printed[i], NotUtf8) THEN Failed
             ELSE [kind |-> "selected", paths |-> printed]
<1>0. /\ \A i \in DOMAIN printed : printed[i] # <<>> /\ ~Has(printed[i], {"BEL"})
      /\ Last(Last(printed)) \notin {NL, CR}
      /\ IF action = "openFiles" THEN \A i \in DOMAIN printed : ~Has(printed[i], {NL}) ELSE Len(printed) = 1
  BY DEF Clean
<1>1. NL \in C
  BY DEF JsonSigns
<1>2. Trimmed(Output(paths)) = Tail(Joined(printed))
  BY <1>0, <1>1, OutputIs
<1>3. Selected(action, Output(paths)) = [i \in DOMAIN printed |-> JsonString(printed[i])]
  <2>1. CASE action = "openFiles"
    <3>1. Lines(Tail(Joined(printed))) = printed
      BY <1>0, <1>1, <2>1, LinesOfJoined
    <3> QED
      BY <1>2, <2>1, <3>1 DEF Selected
  <2>2. CASE action # "openFiles"
    <3> DEFINE p == printed[1]
               b == <<NL>>
               code == b \o p
    <3>1. Len(printed) = 1 /\ DOMAIN printed = {1} /\ p \in Seq(C) /\ printed = <<p>>
      BY <1>0, <2>2
    <3>2. Joined(printed) = FlattenSeq(<<code>>)
      <4>1. [i \in DOMAIN printed |-> b \o printed[i]] = <<code>>
        BY <3>1
      <4> QED
        BY <4>1 DEF Joined, Mapped
    <3>3. code \in Seq(C) /\ Tail(code) = p
      BY <1>1, <3>1
    <3> HIDE DEF code, p
    <3>4. FlattenSeq(<<code>>) = code
      BY <3>3, FlattenOne
    <3>5. Trimmed(Output(paths)) = p
      BY <1>2, <3>2, <3>3, <3>4
    <3>6. [i \in DOMAIN printed |-> JsonString(printed[i])] = <<JsonString(p)>>
      BY <3>1 DEF p
    <3> QED
      BY <2>2, <3>5, <3>6 DEF Selected
  <2> QED
    BY <2>1, <2>2
<1>4. \A i \in DOMAIN printed : JsonText(JsonString(printed[i])) = printed[i]
  <2> SUFFICES ASSUME NEW i \in DOMAIN printed PROVE JsonText(JsonString(printed[i])) = printed[i]
    OBVIOUS
  <2> DEFINE p == printed[i]
  <2>1. p \in Seq(C) /\ ~Has(p, {"BEL"})
    BY <1>0
  <2> HIDE DEF p
  <2>2. JsonText(JsonString(p)) = p
    BY <2>1, JsonReads
  <2> QED
    BY <2>2 DEF p
<1> DEFINE strings == [i \in DOMAIN printed |-> JsonString(printed[i])]
<1>5. [i \in DOMAIN strings |-> JsonText(strings[i])] = printed
  <2>1. \A i \in DOMAIN printed : JsonText(strings[i]) = printed[i]
    BY <1>4
  <2>2. DOMAIN strings = DOMAIN printed
    OBVIOUS
  <2> HIDE DEF strings
  <2> QED
    BY <2>1, <2>2
<1>6. Selected(action, Output(paths)) = strings
  BY <1>3
<1>7. \A i \in DOMAIN printed : Has(strings[i], NotUtf8) <=> Has(printed[i], NotUtf8)
  <2> SUFFICES ASSUME NEW i \in DOMAIN printed
               PROVE  Has(JsonString(printed[i]), NotUtf8) <=> Has(printed[i], NotUtf8)
    OBVIOUS
  <2> DEFINE p == printed[i]
  <2>1. p \in Seq(C) /\ ~Has(p, {"BEL"})
    BY <1>0
  <2> HIDE DEF p
  <2>2. Has(JsonString(p), NotUtf8) <=> Has(p, NotUtf8)
    BY <2>1, JsonMarks
  <2> QED
    BY <2>2 DEF p
<1>8. DOMAIN strings = DOMAIN printed
  OBVIOUS
<1> HIDE DEF strings
<1> DEFINE bad == \E i \in DOMAIN printed : Has(printed[i], NotUtf8)
<1>9. (\E i \in DOMAIN strings : Has(strings[i], NotUtf8)) <=> bad
  BY <1>7, <1>8
<1> HIDE DEF bad
<1>10. Arrives([kind |-> "selected", paths |-> strings])
         = IF bad THEN Failed ELSE [kind |-> "selected", paths |-> [i \in DOMAIN strings |-> JsonText(strings[i])]]
  BY <1>9, SMTT(30) DEF Arrives
<1> QED
  BY <1>5, <1>6, <1>10 DEF bad

(* The characters of texts, and those that quoting and joining add.        *)
Alphabet ==
  Characters \cup JsonSigns \cup DialogActions
  \cup {Apostrophe, " ", "zenity", "exec"} \cup {Entities[c] : c \in DOMAIN Entities}

LEMMA AlphabetHas ==
  /\ JsonSigns \subseteq Alphabet /\ Characters \subseteq Alphabet /\ DialogActions \subseteq Alphabet
  /\ NL \in Alphabet /\ CR \in Alphabet /\ Apostrophe \in Alphabet /\ Quote \in Alphabet
  /\ Backslash \in Alphabet /\ " " \in Alphabet /\ "zenity" \in Alphabet /\ "exec" \in Alphabet
  BY DEF Alphabet, JsonSigns

(* The alphabet has all that is in a text, and what the writers add.       *)
LEMMA InAlphabet ==
  ASSUME NEW t \in Seq(Characters)
  PROVE  t \in Seq(Alphabet)
<1>1. Characters \subseteq Alphabet
  BY AlphabetHas
<1> QED
  BY <1>1, MoreCharacters

Blank == " "
Tool == "zenity"

(* zenity gets one option with a text, when there is one.                  *)
LEMMA ZenityReads ==
  ASSUME NEW C, Apostrophe \in C, Backslash \in C, Blank \in C, Tool \in C,
         NEW action \in C, action \in DialogActions, NEW initial \in Seq(C), NEW name \in Seq(C)
  PROVE  Zenity(action, initial, name) =
           IF action = "saveFile" /\ name # <<>> THEN name ELSE initial
<1> DEFINE seed == IF action = "saveFile" /\ name # <<>> THEN name ELSE initial
           F == Shell(C)
           e == <<>>
           z == <<Tool>>
           a == <<action>>
           w1 == <<z>>
           w2 == <<z, a>>
           b == <<Tool, Blank, action, Blank>>
           q == ZenityFilename(action, initial, name)
           end == Run(F, Gap(e), b \o q)
<1>1. Reader(F, States(C), C) /\ seed \in Seq(C) /\ action \in C /\ Tool \in C /\ Blank \in C
      /\ Apostrophe \in C /\ Backslash \in C
  BY ShellReader
<1>2. e \in Seq(Seq(C)) /\ e \in Seq(C) /\ z \in Seq(C) /\ a \in Seq(C) /\ w1 \in Seq(Seq(C))
      /\ w2 \in Seq(Seq(C)) /\ Append(e, z) = w1 /\ Append(w1, a) = w2 /\ b \in Seq(C)
      /\ Append(e, Tool) = z /\ Append(e, action) = a
  <2>1. e \in Seq(Seq(C)) /\ e \in Seq(C) /\ z \in Seq(C) /\ a \in Seq(C) /\ b \in Seq(C)
    BY <1>1
  <2>2. w1 \in Seq(Seq(C)) /\ w2 \in Seq(Seq(C))
    <3> HIDE DEF z, a
    <3> QED
      BY <2>1
  <2>3. Append(e, z) = w1 /\ Append(w1, a) = w2
    <3> HIDE DEF z, a
    <3>1. Append(e, z) = w1
      BY <2>1
    <3>2. Append(w1, a) = w2
      BY <2>1, AppendSecond
    <3> QED
      BY <3>1, <3>2
  <2>4. Append(e, Tool) = z /\ Append(e, action) = a
    OBVIOUS
  <2> HIDE DEF e, z, a, w1, w2, b
  <2> QED
    BY <2>1, <2>2, <2>3, <2>4
<1>e. \A ws : Gap(ws) = R("gap", e, ws, 0)
  BY DEF Gap
<1> HIDE DEF e
<1>3. ASSUME NEW ws \in Seq(Seq(C)), NEW c \in {Tool, action}
      PROVE  /\ Gap(ws) \in States(C)
             /\ F[<<Gap(ws), c>>] = R("word", Append(e, c), ws, 0)
  <2> DEFINE s == Gap(ws)
  <2>1. s \in States(C)
    BY GapType
  <2>2. s.mode = "gap"
    BY DEF Gap, R
  <2>3. c \notin {Apostrophe, Backslash, Blank, NL} /\ c \in C
    BY <1>1 DEF Apostrophe, Backslash, NL, DialogActions, Blank, Tool
  <2> HIDE DEF s
  <2>4. ShellStep(s, c) = Put(s, c, "word")
    BY <2>2, <2>3 DEF ShellStep, Blank
  <2>5. Put(s, c, "word") = R("word", Append(e, c), ws, 0)
    BY <1>e, PutIs DEF s
  <2>6. F[<<s, c>>] = ShellStep(s, c)
    BY <2>1, <2>3, ShellIs
  <2> QED
    BY <2>1, <2>4, <2>5, <2>6 DEF s
<1>4. ASSUME NEW ws \in Seq(Seq(C)), NEW w \in Seq(C)
      PROVE  F[<<R("word", w, ws, 0), Blank>>] = Gap(Append(ws, w))
  <2> DEFINE s == R("word", w, ws, 0)
  <2>1. s \in States(C) /\ Cut(s) = Gap(Append(ws, w))
    BY CutsWord DEF Cutting
  <2>2. s.mode = "word"
    BY DEF R
  <2> HIDE DEF s
  <2>4. ShellStep(s, Blank) = Cut(s)
    BY <2>2 DEF ShellStep, Apostrophe, Backslash, NL, Blank
  <2>6. F[<<s, Blank>>] = ShellStep(s, Blank)
    BY <1>1, <2>1, ShellIs
  <2> QED
    BY <2>1, <2>4, <2>6 DEF s
<1> HIDE DEF F, e, z, a, w1, w2, seed, q
<1>5. Run(F, Gap(e), b) = Gap(w2)
  <2>1. Run(F, Gap(e), b) = F[<<F[<<F[<<F[<<Gap(e), Tool>>], Blank>>], action>>], Blank>>]
    <3> DEFINE s == Gap(e)
    <3>1. s \in States(C)
      BY <1>2, GapType
    <3> HIDE DEF s
    <3>2. Run(F, s, <<Tool, Blank, action, Blank>>) = F[<<F[<<F[<<F[<<s, Tool>>], Blank>>], action>>], Blank>>]
      BY <1>1, <3>1, RunFour
    <3> QED
      BY <3>2 DEF s, b
  <2>2. F[<<F[<<Gap(e), Tool>>], Blank>>] = Gap(w1)
    BY <1>2, <1>3, <1>4, ZenonT(40)
  <2>3. F[<<F[<<Gap(w1), action>>], Blank>>] = Gap(w2)
    BY <1>2, <1>3, <1>4, ZenonT(40)
  <2> QED
    BY <2>1, <2>2, <2>3
<1> HIDE DEF b
<1>6. q \in Seq(C) /\ Run(F, Gap(w2), q) = IF seed = <<>> THEN Gap(w2) ELSE R("word", seed, w2, 0)
  <2>0. q = IF seed = <<>> THEN <<>> ELSE ShellQuote(seed)
    BY DEF q, seed, ZenityFilename
  <2>1. CASE seed = <<>>
    <3> DEFINE s == Gap(w2)
    <3>1. s \in States(C)
      BY <1>2, GapType
    <3> HIDE DEF s
    <3>2. Run(F, s, <<>>) = s
      BY <1>1, <3>1, RunEmpty
    <3>3. q = <<>> /\ <<>> \in Seq(C)
      BY <2>0, <2>1
    <3> QED
      BY <2>1, <3>2, <3>3 DEF s
  <2>2. CASE seed # <<>>
    <3>1. ShellQuote(seed) \in Seq(C) /\ Run(F, Gap(w2), ShellQuote(seed)) = R("word", seed, w2, 0)
      BY <1>1, <1>2, ShellReadsQuote DEF F
    <3> QED
      BY <2>0, <2>2, <3>1
  <2> QED
    BY <2>1, <2>2
<1>7. end = IF seed = <<>> THEN Gap(w2) ELSE R("word", seed, w2, 0)
  <2>1. Gap(e) \in States(C)
    BY <1>2, GapType
  <2>3. b \in Seq(C) /\ q \in Seq(C)
    BY <1>2, <1>6
  <2>2. Run(F, Gap(e), b \o q) = Run(F, Run(F, Gap(e), b), q)
    BY <1>1, <2>1, <2>3, RunConcat
  <2> QED
    BY <1>5, <1>6, <2>2
<1>8. ShellWords(b \o q) = Words(end)
  <2>1. b \o q \in Seq(C)
    <3>1. b \in Seq(C) /\ q \in Seq(C)
      BY <1>2, <1>6
    <3> QED
      BY <3>1
  <2> DEFINE t == b \o q
  <2> HIDE DEF t
  <2>2. t \in Seq(C)
    BY <2>1 DEF t
  <2>3. FoldLeft(ShellStep, Reading, t) = Run(F, Reading, t)
    BY <2>2, ShellRun DEF F
  <2> QED
    BY <2>3, ReadingGap DEF ShellWords, t, e
<1> HIDE DEF end
<1>9. Words(end) = IF seed = <<>> THEN w2 ELSE Append(w2, seed)
  <2>1. CASE seed = <<>>
    <3>1. end.mode = "gap" /\ end.words = w2
      BY <1>7, <2>1 DEF Gap, R
    <3> QED
      BY <2>1, <3>1 DEF Words, Cut
  <2>2. CASE seed # <<>>
    <3>0. end = R("word", seed, w2, 0)
      BY <1>7, <2>2
    <3>1. end.mode = "word"
      BY <3>0 DEF R
    <3>3. Cut(R("word", seed, w2, 0)) = Gap(Append(w2, seed))
      BY CutIs DEF Gap
    <3>2. Gap(Append(w2, seed)).words = Append(w2, seed)
      BY DEF Gap, R
    <3> QED
      BY <2>2, <3>0, <3>1, <3>2, <3>3 DEF Words
  <2> QED
    BY <2>1, <2>2
<1>10. Len(w2) = 2 /\ Len(Append(w2, seed)) = 3 /\ Append(w2, seed)[3] = seed
  <2> DEFINE S == Seq(C)
  <2>1. Len(w2) = 2 /\ z \in S /\ a \in S /\ seed \in S
    BY <1>1, <1>2 DEF w2
  <2> HIDE DEF S
  <2>2. Len(Append(w2, seed)) = 3
    BY <2>1, AppendThird DEF w2
  <2>3. Append(w2, seed)[3] = seed
    BY <2>1, AppendThird DEF w2
  <2> QED
    BY <2>1, <2>2, <2>3
<1>11. Zenity(action, initial, name) = seed
  <2> DEFINE words == ShellWords(b \o q)
  <2>1. Zenity(action, initial, name) = IF Len(words) = 3 THEN words[3] ELSE IF Len(words) = 2 THEN <<>> ELSE Broken[1]
    BY DEF Zenity, b, q, Blank, Tool
  <2>2. words = IF seed = <<>> THEN w2 ELSE Append(w2, seed)
    BY <1>8, <1>9
  <2> HIDE DEF words
  <2>3. CASE seed = <<>>
    <3>1. Len(words) = 2
      BY <1>10, <2>2, <2>3
    <3> QED
      BY <2>1, <2>3, <3>1
  <2>4. CASE seed # <<>>
    <3>1. Len(words) = 3 /\ words[3] = seed
      BY <1>10, <2>2, <2>4
    <3> QED
      BY <2>1, <3>1
  <2> QED
    BY <2>3, <2>4
<1> QED
  BY <1>11 DEF seed

(* The invariant of the dialogs: what ChoiceArrives needs of a dialog.     *)
DialogsInv ==
  /\ platform \in Platforms
  /\ dialog # NoDialog => dialog.action \in DialogActions
  /\ ChoiceArrives

(* It holds at the start; each step of a dialog keeps it, and the other    *)
(* parts leave it alone.                                                   *)
LEMMA DialogsStart ==
  ASSUME TextInit
  PROVE  DialogsInv
  BY DEF TextInit, DialogInit, DialogsInv, ChoiceArrives, NoDialog, NoChoice, DialogActions

(* A dialog starts with what was asked for.                                *)
LEMMA AskKeeps ==
  ASSUME DialogsInv, NEW action \in DialogActions, NEW initial \in Places, NEW name \in Places,
         Ask(action, initial, name)
  PROVE  DialogsInv'
<1> DEFINE C == Alphabet
           named == action = "saveFile" /\ name # <<>>
           plain(text) == ~Has(text, {"ue", NL})
<1>1. /\ initial \in Seq(Characters) /\ name \in Seq(Characters)
      /\ initial \in Seq(C) /\ name \in Seq(C)
  <2> DEFINE D == Characters \ {"NUL"}
  <2>1. initial \in Seq(D) /\ name \in Seq(D) /\ D \subseteq Characters
    BY DialogsAssumption
  <2> HIDE DEF D
  <2>2. initial \in Seq(Characters) /\ name \in Seq(Characters)
    BY <2>1, MoreCharacters
  <2> QED
    BY <2>2, InAlphabet
<1>2. plain(initial) => Script(initial) = initial
  BY <1>1, ScriptReads
<1>3. named /\ plain(name) => Script(Untitled(name)) = name
  <2>1. plain(name) => Script(name) = name
    BY <1>1, ScriptReads
  <2> QED
    BY <2>1 DEF Untitled
<1>4. Zenity(action, initial, name) = IF named THEN name ELSE initial
  <2>1. Apostrophe \in C /\ Backslash \in C /\ Blank \in C /\ Tool \in C /\ action \in C
    BY AlphabetHas DEF Blank, Tool
  <2> HIDE DEF C
  <2> QED
    BY <1>1, <2>1, ZenityReads
<1>5. platform \in {"linux", "macos", "windows"} /\ platform' = platform /\ platform \in Platforms
  BY PlatformsAssumption DEF Ask, DialogsInv
<1>6. /\ dialog'.action = action /\ dialog'.name = name /\ dialog'.initial = initial
      /\ choice' = NoChoice
      /\ dialog'.start = CASE platform = "macos" -> initial
                           [] platform = "linux" -> Zenity(action, initial, name)
                           [] platform = "windows" -> Script(initial)
      /\ dialog'.suggested = CASE platform = "macos" -> Untitled(name)
                           [] platform = "linux" -> Zenity(action, initial, name)
                           [] platform = "windows" -> Script(Untitled(name))
  BY DEF Ask
<1> DEFINE written(text) == platform = "windows" => plain(text)
<1> HIDE DEF plain
<1>7. written(initial) => dialog'.start = IF platform = "linux" /\ named THEN name ELSE initial
  BY <1>2, <1>4, <1>5, <1>6
<1>8. named /\ written(name) => dialog'.suggested = name
  BY <1>3, <1>4, <1>5, <1>6 DEF Untitled
<1>9. choice'.kind = "none"
  BY <1>6 DEF NoChoice
<1>w. (Written(dialog.initial)' <=> written(initial)) /\ (Written(dialog.name)' <=> written(name))
  BY <1>5, <1>6 DEF Written, plain
<1> HIDE DEF written
<1>10. ChoiceArrives'
  <2>1. /\ choice'.kind \notin DialogActions /\ choice'.kind # "cancel" /\ choice'.kind # "failure"
    BY <1>9 DEF DialogActions
  <2>2. /\ named /\ Written(dialog.name)' => dialog'.suggested = dialog'.name
        /\ (named /\ platform' = "linux") \/ (Written(dialog.initial)' => dialog'.start = dialog'.initial)
    BY <1>5, <1>6, <1>7, <1>8, <1>w
  <2>3. named <=> (dialog'.action = "saveFile" /\ dialog'.name # <<>>)
    BY <1>6
  <2> HIDE DEF named
  <2> QED
    BY <2>1, <2>2, <2>3 DEF ChoiceArrives
<1> QED
  BY <1>5, <1>6, <1>10 DEF DialogsInv

(* What a tool writes of a path: characters that PowerShell writes in the  *)
(* OEM code page, and all others as they are.                              *)
Wrote(c) == IF platform = "windows" /\ c = "ue" THEN "81" ELSE c

(* The characters of paths, and of what is written of them.                *)
PathSigns == Characters \cup JsonSigns \cup NotUtf8

LEMMA WroteIs ==
  ASSUME NEW c \in Characters \cup {"FF"}
  PROVE  /\ Wrote(c) \in PathSigns
         /\ Wrote(c) = "BEL" <=> c = "BEL"
         /\ Wrote(c) = NL <=> c = NL
         /\ Wrote(c) = CR <=> c = CR
         /\ Wrote(c) \in NotUtf8 <=> c = "FF" \/ (platform = "windows" /\ c = "ue")
  BY CharactersAssumption DEF Wrote, PathSigns, NotUtf8, NL, CR

LEMMA PathSignsHave == JsonSigns \subseteq PathSigns /\ NL \in PathSigns /\ "broken" \notin PathSigns
<1>1. "broken" \notin Characters
  BY CharactersAssumption
<1>2. "broken" \notin JsonSigns /\ "broken" \notin NotUtf8
  BY DEF JsonSigns, NotUtf8, Quote, Backslash, NL, CR
<1> QED
  BY <1>1, <1>2 DEF PathSigns, JsonSigns

LEMMA PrintedIs ==
  ASSUME NEW S, NEW paths \in Seq(Seq(S)), S \subseteq Characters \cup {"FF"}
  PROVE  /\ Printed(paths) \in Seq(Seq(PathSigns)) /\ Len(Printed(paths)) = Len(paths)
         /\ \A i \in DOMAIN paths :
              /\ Len(Printed(paths)[i]) = Len(paths[i]) /\ Printed(paths)[i] \in Seq(PathSigns)
              /\ paths[i] \in Seq(S)
              /\ \A n \in 1 .. Len(paths[i]) : Printed(paths)[i][n] = Wrote(paths[i][n])
<1> DEFINE P(t) == [n \in DOMAIN t |-> Wrote(t[n])]
           all == [i \in DOMAIN paths |-> P(paths[i])]
<1>1. ASSUME NEW t \in Seq(S)
      PROVE  /\ P(t) \in Seq(PathSigns) /\ Len(P(t)) = Len(t)
             /\ \A n \in 1 .. Len(t) : P(t)[n] = Wrote(t[n])
  <2>1. \A n \in 1 .. Len(t) : Wrote(t[n]) \in PathSigns
    BY WroteIs
  <2>2. DOMAIN t = 1 .. Len(t) /\ Len(t) \in Nat
    OBVIOUS
  <2> QED
    BY <2>1, <2>2
<1>2. Printed(paths) = all
  <2>1. CASE platform = "windows"
    <3>1. \A i \in DOMAIN paths : Oem(paths[i]) = P(paths[i])
      BY <2>1 DEF Oem, Wrote
    <3> HIDE DEF P
    <3> QED
      BY <2>1, <3>1 DEF Printed
  <2>2. CASE platform # "windows"
    <3>1. \A i \in DOMAIN paths : P(paths[i]) = paths[i]
      <4> SUFFICES ASSUME NEW i \in DOMAIN paths PROVE P(paths[i]) = paths[i]
        OBVIOUS
      <4> DEFINE t == paths[i]
      <4>1. t \in Seq(S)
        OBVIOUS
      <4> HIDE DEF t
      <4>2. P(t) = [n \in DOMAIN t |-> t[n]]
        BY <2>2 DEF Wrote
      <4>3. P(t) = t
        BY <4>1, <4>2
      <4> QED
        BY <4>3 DEF t
    <3>2. all = [i \in DOMAIN paths |-> paths[i]]
      <4> HIDE DEF P
      <4> QED
        BY <3>1
    <3>3. [i \in DOMAIN paths |-> paths[i]] = paths
      OBVIOUS
    <3> HIDE DEF all
    <3> QED
      BY <2>2, <3>2, <3>3 DEF Printed
  <2> QED
    BY <2>1, <2>2
<1> HIDE DEF P
<1> DEFINE T == Seq(S)
           U == Seq(PathSigns)
<1>3. \A i \in DOMAIN paths : paths[i] \in T /\ all[i] = P(paths[i])
  OBVIOUS
<1>4. \A i \in DOMAIN paths : all[i] \in U
  BY <1>1, <1>3
<1>5. paths \in Seq(T)
  OBVIOUS
<1> HIDE DEF T, U
<1>6. all \in Seq(U) /\ Len(all) = Len(paths)
  <2>1. DOMAIN all = DOMAIN paths
    OBVIOUS
  <2>2. DOMAIN paths = 1 .. Len(paths) /\ Len(paths) \in Nat
    BY <1>5
  <2>3. all = [i \in 1 .. Len(paths) |-> all[i]]
    BY <2>2
  <2> HIDE DEF all
  <2> QED
    BY <1>4, <2>1, <2>2, <2>3
<1> HIDE DEF all
<1> QED
  BY <1>1, <1>2, <1>3, <1>4, <1>6 DEF T, U

(* What the page is told of the paths that are chosen.                     *)
LEMMA ChooseKeeps ==
  ASSUME DialogsInv, NEW paths \in Selections, UserChooses(paths)
  PROVE  DialogsInv'
<1> DEFINE done == [kind |-> dialog.action, paths |-> paths]
           S == (Characters \ {"NUL"}) \cup {"FF"}
           printed == Printed(paths)
           a == dialog.action
<1>1. /\ dialog # NoDialog /\ choice' = done /\ dialog' = NoDialog /\ platform' = platform
      /\ answer' = Arrives(Reply(0, dialog.action, Output(paths)))
  BY DEF UserChooses, Answer
<1>2. dialog.action \in DialogActions /\ platform \in Platforms
  BY <1>1 DEF DialogsInv
<1>3. paths \in Seq(Seq(S)) /\ paths # <<>> /\ \A i \in DOMAIN paths : paths[i] # <<>>
  <2>1. paths \in Seq(Seq(S) \ {<<>>}) /\ paths # <<>>
    BY DialogsAssumption
  <2> DEFINE T == Seq(S) \ {<<>>}
             U == Seq(S)
  <2>a. paths \in Seq(T) /\ T \subseteq U
    BY <2>1
  <2>b. \A i \in DOMAIN paths : paths[i] # <<>>
    BY <2>1
  <2> HIDE DEF T, U
  <2>2. paths \in Seq(U)
    BY <2>a, MoreCharacters
  <2> QED
    BY <2>1, <2>2, <2>b DEF U
<1>4. choice'.kind = dialog.action /\ choice'.paths = paths
  BY <1>1
<1>s. S \subseteq Characters \cup {"FF"}
  OBVIOUS
<1> HIDE DEF S
<1>p. /\ printed \in Seq(Seq(PathSigns)) /\ Len(printed) = Len(paths)
      /\ \A i \in DOMAIN paths :
           /\ Len(printed[i]) = Len(paths[i]) /\ printed[i] \in Seq(PathSigns)
           /\ paths[i] \in Seq(S)
           /\ \A n \in 1 .. Len(paths[i]) : printed[i][n] = Wrote(paths[i][n])
  BY <1>3, <1>s, PrintedIs
<1>q. DOMAIN printed = DOMAIN paths /\ printed # <<>> /\ Len(paths) \in Nat \ {0}
      /\ DOMAIN paths = 1 .. Len(paths)
  <2> HIDE DEF printed
  <2>1. Len(paths) \in Nat \ {0} /\ DOMAIN paths = 1 .. Len(paths)
    BY <1>3
  <2>2. DOMAIN printed = 1 .. Len(printed)
    BY <1>p
  <2> QED
    BY <1>p, <2>1, <2>2
<1> HIDE DEF printed
<1>c. \A i \in DOMAIN paths, n \in Nat : n \in 1 .. Len(paths[i]) =>
        paths[i][n] \in Characters \cup {"FF"} /\ printed[i][n] = Wrote(paths[i][n])
  <2> SUFFICES ASSUME NEW i \in DOMAIN paths, NEW n \in 1 .. Len(paths[i])
               PROVE  paths[i][n] \in S
    BY <1>p, <1>s
  <2> DEFINE t == paths[i]
  <2>1. t \in Seq(S)
    BY <1>p
  <2> HIDE DEF t
  <2>2. \A k \in 1 .. Len(t) : t[k] \in S
    BY <2>1
  <2> QED
    BY <2>2 DEF t
<1>d. \A i \in DOMAIN paths : /\ DOMAIN paths[i] = 1 .. Len(paths[i]) /\ DOMAIN printed[i] = 1 .. Len(paths[i])
                              /\ Len(paths[i]) \in Nat
  <2> SUFFICES ASSUME NEW i \in DOMAIN paths
               PROVE  /\ DOMAIN paths[i] = 1 .. Len(paths[i]) /\ DOMAIN printed[i] = 1 .. Len(paths[i])
                      /\ Len(paths[i]) \in Nat
    OBVIOUS
  <2> DEFINE t == paths[i]
             v == printed[i]
  <2>1. t \in Seq(S) /\ v \in Seq(PathSigns) /\ Len(v) = Len(t)
    BY <1>p
  <2> HIDE DEF t, v
  <2>2. DOMAIN t = 1 .. Len(t) /\ DOMAIN v = 1 .. Len(v) /\ Len(t) \in Nat
    BY <2>1
  <2> QED
    BY <2>1, <2>2 DEF t, v
<1>h. \A i \in DOMAIN paths :
        /\ Has(printed[i], {"BEL"}) <=> Has(paths[i], {"BEL"})
        /\ Has(printed[i], {NL}) <=> Has(paths[i], {NL})
        /\ Has(printed[i], NotUtf8) <=>
             Has(paths[i], {"FF"}) \/ (platform = "windows" /\ Has(paths[i], {"ue"}))
  <2> SUFFICES ASSUME NEW i \in DOMAIN paths
               PROVE  /\ Has(printed[i], {"BEL"}) <=> Has(paths[i], {"BEL"})
                      /\ Has(printed[i], {NL}) <=> Has(paths[i], {NL})
                      /\ Has(printed[i], NotUtf8) <=>
                           Has(paths[i], {"FF"}) \/ (platform = "windows" /\ Has(paths[i], {"ue"}))
    OBVIOUS
  <2> DEFINE t == paths[i]
             v == printed[i]
             N == 1 .. Len(t)
  <2>1. DOMAIN t = N /\ DOMAIN v = N
    BY <1>d
  <2>2. \A n \in N : t[n] \in Characters \cup {"FF"} /\ v[n] = Wrote(t[n])
    BY <1>c, <1>d
  <2> HIDE DEF t, v, N
  <2>3. \A n \in N : /\ v[n] = "BEL" <=> t[n] = "BEL"
                     /\ v[n] = NL <=> t[n] = NL
                     /\ v[n] \in NotUtf8 <=> t[n] = "FF" \/ (platform = "windows" /\ t[n] = "ue")
    BY <2>2, WroteIs
  <2>4. Has(v, {"BEL"}) <=> Has(t, {"BEL"})
    BY <2>1, <2>3 DEF Has
  <2>5. Has(v, {NL}) <=> Has(t, {NL})
    BY <2>1, <2>3 DEF Has
  <2>6. Has(v, NotUtf8) <=> Has(t, {"FF"}) \/ (platform = "windows" /\ Has(t, {"ue"}))
    BY <2>1, <2>3 DEF Has
  <2> QED
    BY <2>4, <2>5, <2>6 DEF t, v
<1>e. \A i \in DOMAIN printed : printed[i] # <<>>
  <2> SUFFICES ASSUME NEW i \in DOMAIN paths, printed[i] = <<>> PROVE FALSE
    BY <1>q
  <2> DEFINE t == paths[i]
  <2>1. t \in Seq(S) /\ t # <<>> /\ Len(t) = 0
    BY <1>3, <1>p
  <2> HIDE DEF t
  <2> QED
    BY <2>1
<1>l. Last(Last(printed)) = Wrote(Last(Last(paths))) /\ Last(Last(paths)) \in Characters \cup {"FF"}
  <2> DEFINE t == paths[Len(paths)]
             v == printed[Len(paths)]
  <2>0. Last(paths) = t /\ Last(printed) = v
    BY <1>p DEF Last
  <2>1. Len(paths) \in DOMAIN paths
    BY <1>q
  <2>2. t \in Seq(S) /\ t # <<>> /\ Len(v) = Len(t)
    BY <1>3, <1>p, <2>1
  <2>3. \A n \in Nat : n \in 1 .. Len(t) => t[n] \in Characters \cup {"FF"} /\ v[n] = Wrote(t[n])
    BY <1>c, <2>1
  <2> HIDE DEF t, v
  <2>4. Len(t) \in Nat /\ Len(t) \in 1 .. Len(t)
    BY <2>2
  <2>5. Last(v) = Wrote(Last(t)) /\ Last(t) \in Characters \cup {"FF"}
    BY <2>2, <2>3, <2>4 DEF Last
  <2> QED
    BY <2>0, <2>5
<1>u. Legible(paths) <=> ~\E i \in DOMAIN printed : Has(printed[i], NotUtf8)
  BY <1>h, <1>q DEF Legible
<1>v. Legible(paths) => printed = paths
  <2> SUFFICES ASSUME Legible(paths) PROVE printed = paths
    OBVIOUS
  <2>1. \A i \in DOMAIN paths : printed[i] = paths[i]
    <3> SUFFICES ASSUME NEW i \in DOMAIN paths PROVE printed[i] = paths[i]
      OBVIOUS
    <3> DEFINE t == paths[i]
               v == printed[i]
    <3>1. t \in Seq(S) /\ v \in Seq(PathSigns) /\ Len(v) = Len(t)
      BY <1>p
    <3>2. \A n \in 1 .. Len(t) : v[n] = Wrote(t[n])
      BY <1>p
    <3>3. platform = "windows" => ~Has(t, {"ue"})
      BY DEF Legible
    <3> HIDE DEF t, v
    <3>4. \A n \in 1 .. Len(t) : v[n] = t[n]
      BY <3>1, <3>2, <3>3 DEF Wrote, Has
    <3>5. v = t
      BY <3>1, <3>4
    <3> QED
      BY <3>5 DEF t, v
  <2> DEFINE T == Seq(S)
             U == Seq(PathSigns)
  <2>2. printed \in Seq(U) /\ paths \in Seq(T)
    BY <1>3, <1>p
  <2> HIDE DEF T, U
  <2>3. printed = [i \in DOMAIN printed |-> printed[i]] /\ paths = [i \in DOMAIN paths |-> paths[i]]
    BY <2>2
  <2>4. [i \in DOMAIN printed |-> printed[i]] = [i \in DOMAIN paths |-> paths[i]]
    BY <1>q, <2>1
  <2> QED
    BY <2>3, <2>4
<1>5. ASSUME Kept(choice.paths)'
      PROVE  answer' = IF Legible(paths) THEN [kind |-> "selected", paths |-> paths] ELSE Failed
  <2>1. /\ Last(Last(paths)) \notin {NL, CR}
        /\ \A i \in DOMAIN paths : ~Has(paths[i], {"BEL"})
        /\ dialog.action = "openFiles" => \A i \in DOMAIN paths : ~Has(paths[i], {NL})
    BY <1>4, <1>5 DEF Kept
  <2>2. a # "openFiles" => Len(printed) = 1
    BY <1>p DEF UserChooses
  <2>3. Last(Last(printed)) \notin {NL, CR}
    BY <1>l, <2>1, WroteIs
  <2>4. Clean(printed, a)
    BY <1>e, <1>h, <1>q, <2>1, <2>2, <2>3 DEF Clean
  <2> HIDE DEF a
  <2>5. Arrives([kind |-> "selected", paths |-> Selected(a, Output(paths))])
           = IF \E i \in DOMAIN printed : Has(printed[i], NotUtf8) THEN Failed
             ELSE [kind |-> "selected", paths |-> printed]
    <3>1. printed = Printed(paths)
      BY DEF printed
    <3>2. printed \in Seq(Seq(PathSigns))
      BY <1>p
    <3> QED
      BY <1>3, <1>q, <2>4, <3>1, <3>2, PathSignsHave, SelectedArrives
  <2>6. answer' = Arrives([kind |-> "selected", paths |-> Selected(a, Output(paths))])
    BY <1>1 DEF Reply, a
  <2> QED
    BY <1>u, <1>v, <2>5, <2>6
<1>6. choice'.kind \notin {"cancel", "failure"}
  BY <1>2, <1>4 DEF DialogActions
<1>7. ChoiceArrives'
  <2>1. Legible(choice.paths)' <=> Legible(paths)
    BY <1>1, <1>4 DEF Legible
  <2>2. choice'.kind \in DialogActions /\ Kept(choice.paths)' =>
          answer' = IF Legible(choice.paths)' THEN [kind |-> "selected", paths |-> choice'.paths] ELSE Failed
    BY <1>4, <1>5, <2>1
  <2>3. dialog' = NoDialog
    BY <1>1
  <2> QED
    BY <1>6, <2>2, <2>3 DEF ChoiceArrives
<1> QED
  BY <1>1, <1>2, <1>7 DEF DialogsInv

(* What the page is told when nothing was chosen.                          *)
LEMMA PlainReply ==
  ASSUME NEW kind
  PROVE  Arrives([kind |-> kind, paths |-> <<>>]) = [kind |-> kind, paths |-> <<>>]
<1> DEFINE e == <<>>
           r == [kind |-> kind, paths |-> e]
<1>1. DOMAIN e = {} /\ [i \in DOMAIN e |-> JsonText(e[i])] = e
  OBVIOUS
<1> HIDE DEF e
<1>2. r.paths = e /\ [r EXCEPT !.paths = [i \in DOMAIN e |-> JsonText(e[i])]] = [kind |-> kind, paths |-> e]
  BY <1>1
<1>3. Arrives(r) = [r EXCEPT !.paths = [i \in DOMAIN e |-> JsonText(e[i])]]
  BY <1>1, <1>2 DEF Arrives
<1> QED
  BY <1>2, <1>3 DEF e

LEMMA ReplyKind ==
  ASSUME NEW exit \in Nat \ {0}, NEW action, NEW output
  PROVE  Arrives(Reply(exit, action, output)) =
           [kind |-> IF exit = 1 THEN "failed" ELSE "cancelled", paths |-> <<>>]
<1>1. Reply(exit, action, output) = [kind |-> IF exit = 1 THEN "failed" ELSE "cancelled", paths |-> <<>>]
  BY DEF Reply, Failed
<1> QED
  BY <1>1, PlainReply

LEMMA NothingWritten ==
  ASSUME NEW action
  PROVE  LET told == Arrives(Reply(0, action, Output(<<>>)))
         IN told.kind = "selected" /\ \A i \in DOMAIN told.paths : told.paths[i] = <<>>
<1> DEFINE e == <<>>
           j == JsonString(e)
           one == <<j>>
<1>1. Output(e) = e
  BY DEF Output
<1>2. Trimmed(e) = e
  <2>1. Len(e) = 0 /\ {n \in 1 .. Len(e) : e[n] \notin {NL, CR}} = {} /\ SubSeq(e, 1, 0) = e
    OBVIOUS
  <2> HIDE DEF e
  <2> QED
    BY <2>1 DEF Trimmed
<1>3. Lines(e) = e
  <2> DEFINE C == {NL}
             end == FoldLeft(LineStep, Reading, e)
  <2>1. e \in Seq(C)
    OBVIOUS
  <2>2. Reader(LinesOf(C), States(C), C) /\ Reading \in States(C)
    BY LinesOfReader, ReadingType
  <2>3. end = Run(LinesOf(C), Reading, e)
    BY <2>1, LinesOfRun
  <2>4. end = Reading
    BY <2>2, <2>3, RunEmpty
  <2>5. Cut(Reading).words = e
    BY DEF Cut, Reading
  <2> HIDE DEF end
  <2> QED
    BY <2>4, <2>5 DEF Lines, end
<1>4. ~Has(j, NotUtf8) /\ JsonText(j) = e
  <2> DEFINE C == PathSigns
  <2>1. e \in Seq(C) /\ ~Has(e, {"BEL"}) /\ ~Has(e, NotUtf8)
    BY DEF Has
  <2> HIDE DEF C, e
  <2> QED
    BY <2>1, PathSignsHave, JsonMarks, JsonReads DEF C
<1>5. CASE action = "openFiles"
  <2>1. Selected(action, Output(e)) = e
    <3>1. Selected(action, Output(e)) = [i \in DOMAIN e |-> JsonString(e[i])]
      BY <1>1, <1>2, <1>3, <1>5 DEF Selected
    <3> QED
      BY <3>1
  <2>2. Reply(0, action, Output(e)) = [kind |-> "selected", paths |-> e]
    BY <2>1 DEF Reply
  <2>3. Arrives(Reply(0, action, Output(e))) = [kind |-> "selected", paths |-> e]
    BY <2>2, PlainReply
  <2> QED
    BY <2>3
<1>6. CASE action # "openFiles"
  <2>1. Selected(action, Output(e)) = one
    BY <1>1, <1>2, <1>6 DEF Selected
  <2>2. Reply(0, action, Output(e)) = [kind |-> "selected", paths |-> one]
    BY <2>1 DEF Reply
  <2> HIDE DEF j, e
  <2>3. DOMAIN one = {1} /\ one[1] = j
    OBVIOUS
  <2> HIDE DEF one
  <2>4. Arrives([kind |-> "selected", paths |-> one])
          = [kind |-> "selected", paths |-> [i \in DOMAIN one |-> JsonText(one[i])]]
    BY <1>4, <2>3 DEF Arrives
  <2>5. \A i \in DOMAIN one : JsonText(one[i]) = e
    BY <1>4, <2>3
  <2> QED
    BY <2>2, <2>4, <2>5 DEF e
<1> QED
  BY <1>5, <1>6

LEMMA CancelKeeps ==
  ASSUME DialogsInv, UserCancels
  PROVE  DialogsInv'
<1>1. /\ choice'.kind = "cancel" /\ dialog' = NoDialog /\ platform' = platform
      /\ \E exit \in {10, 256} : answer' = Arrives(Reply(exit, dialog.action, Output(<<>>)))
  BY DEF UserCancels, Answer
<1>2. answer'.kind = "cancelled"
  BY <1>1, ReplyKind
<1>3. ChoiceArrives'
  BY <1>1, <1>2 DEF ChoiceArrives, DialogActions
<1> QED
  BY <1>1, <1>3 DEF DialogsInv

LEMMA FailureKeeps ==
  ASSUME DialogsInv, ToolFails
  PROVE  DialogsInv'
<1>0. platform \in {"linux", "macos", "windows"}
  BY PlatformsAssumption DEF DialogsInv
<1>1. PICK exit \in {0, 1, 2, 256} :
        /\ Answer([kind |-> "failure", paths |-> <<>>], exit)
        /\ exit = 0 => platform = "windows"
        /\ platform = "macos" => exit = 1
  BY <1>0 DEF ToolFails
<1>2. /\ choice'.kind = "failure" /\ dialog' = NoDialog /\ platform' = platform
      /\ answer' = Arrives(Reply(exit, dialog.action, Output(<<>>)))
  BY <1>1 DEF Answer
<1> DEFINE Kinds == {"failed"} \cup (IF platform = "macos" THEN {} ELSE {"cancelled"})
                              \cup (IF platform = "windows" THEN {"selected"} ELSE {})
           NoPath(told) == \A i \in DOMAIN told.paths : told.paths[i] = <<>>
           Told == answer'.kind \in Kinds /\ NoPath(answer')
<1>3. ASSUME exit = 0 PROVE Told
  <2> DEFINE told == Arrives(Reply(0, dialog.action, Output(<<>>)))
  <2>1. told.kind = "selected" /\ NoPath(told)
    BY NothingWritten
  <2>2. answer' = told
    BY <1>2, <1>3
  <2> HIDE DEF told
  <2>3. answer'.kind = "selected" /\ NoPath(answer')
    BY <2>1, <2>2
  <2> HIDE DEF NoPath
  <2> QED
    BY <1>1, <1>3, <2>3
<1>4. ASSUME exit # 0 PROVE Told
  <2> DEFINE e == <<>>
             told == [kind |-> IF exit = 1 THEN "failed" ELSE "cancelled", paths |-> e]
  <2>1. answer' = told
    BY <1>1, <1>2, <1>4, ReplyKind
  <2>2. DOMAIN e = {}
    OBVIOUS
  <2> HIDE DEF e
  <2>3. told.paths = e /\ told.kind = IF exit = 1 THEN "failed" ELSE "cancelled"
    OBVIOUS
  <2> HIDE DEF told
  <2>4. NoPath(told)
    BY <2>2, <2>3
  <2> HIDE DEF NoPath
  <2>5. told.kind \in Kinds
    BY <1>1, <2>3
  <2> QED
    BY <2>1, <2>4, <2>5
<1>5. Told
  BY <1>3, <1>4
<1>6. ChoiceArrives'
  BY <1>2, <1>5 DEF ChoiceArrives, DialogActions
<1> QED
  BY <1>2, <1>6 DEF DialogsInv

LEMMA DialogsKept ==
  ASSUME DialogsInv, UNCHANGED <<platform, dialogVars>>
  PROVE  DialogsInv'
<1>1. dialog' = dialog /\ choice' = choice /\ answer' = answer /\ platform' = platform
  BY DEF dialogVars
<1> QED
  BY <1>1 DEF DialogsInv, ChoiceArrives, Kept, Legible, Written

LEMMA DialogsStep ==
  ASSUME DialogsInv, [TextNext]_textVars
  PROVE  DialogsInv'
<1>1. CASE LoginStep
  <2>1. UNCHANGED <<platform, dialogVars>>
    BY <1>1 DEF LoginStep, Enable, Disable
  <2> QED
    BY <2>1, DialogsKept
<1>2. CASE ServiceStep
  <2>1. UNCHANGED <<platform, dialogVars>>
    BY <1>2 DEF ServiceStep, StartService, StopService
  <2> QED
    BY <2>1, DialogsKept
<1>3. CASE DialogStep
  <2>1. CASE \E action \in DialogActions, initial \in Places, name \in Places : Ask(action, initial, name)
    BY <2>1, AskKeeps
  <2>2. CASE \E paths \in Selections : UserChooses(paths)
    BY <2>2, ChooseKeeps
  <2>3. CASE UserCancels
    BY <2>3, CancelKeeps
  <2>4. CASE ToolFails
    BY <2>4, FailureKeeps
  <2> QED
    BY <1>3, <2>1, <2>2, <2>3, <2>4 DEF DialogStep
<1>4. CASE PacketStep
  <2>1. UNCHANGED <<platform, dialogVars>>
    BY <1>4 DEF PacketStep, Handoff, Asset, Load, Forget
  <2> QED
    BY <2>1, DialogsKept
<1>5. CASE UNCHANGED textVars
  <2>1. UNCHANGED <<platform, dialogVars>>
    BY <1>5 DEF textVars
  <2> QED
    BY <2>1, DialogsKept
<1> QED
  BY <1>1, <1>2, <1>3, <1>4, <1>5 DEF TextNext

(* The page is told the paths the user has chosen, or that the dialog has  *)
(* failed when they were not written as UTF-8; that he has cancelled; and  *)
(* never of a path when the tool has failed.  A dialog starts where the    *)
(* page has said.  This holds for all texts that the tools' output, and on *)
(* Windows the script, keeps.                                              *)
THEOREM ChoicesArrive == TextSpec => []ChoiceArrives
<1>1. TextInit => DialogsInv
  BY DialogsStart
<1>2. DialogsInv /\ [TextNext]_textVars => DialogsInv'
  BY DialogsStep
<1>3. DialogsInv => ChoiceArrives
  BY DEF DialogsInv
<1> QED
  BY <1>1, <1>2, <1>3, PTL DEF TextSpec

-----------------------------------------------------------------------------
(* Login entries of macOS and Linux.                                       *)

(* A reader whose words end with the text.                                 *)
Ending(C) ==
  [s \in States(C) |-> IF s.mode \in {"gap", "word"} THEN Cut(s) ELSE R("broken", <<>>, <<>>, 0)]

(* A word ends where the text ends.                                        *)
LEMMA EndsWord ==
  ASSUME NEW C, NEW m \in {"gap", "word"}, NEW w \in Seq(C), NEW ws \in Seq(Seq(C))
  PROVE  /\ R(m, w, ws, 0) \in States(C)
         /\ Ending(C)[R(m, w, ws, 0)] = IF m = "gap" THEN R(m, w, ws, 0) ELSE Gap(Append(ws, w))
         /\ Ending(C)[R(m, w, ws, 0)] = Cut(R(m, w, ws, 0))
<1>1. m \in Modes /\ 0 \in Nat
  BY DEF Modes
<1>2. R(m, w, ws, 0) \in States(C)
  BY <1>1, StateType
<1>3. R(m, w, ws, 0).mode = m
  BY DEF R
<1> QED
  BY <1>2, <1>3, CutIs DEF Ending, Gap

(* The words a reader has found at the end.                                *)
EndingWords(C, s, v) == Ending(C)[s] = Gap(v) => Words(s) = v

LEMMA EndingWordsAre ==
  ASSUME NEW C, NEW s \in States(C), NEW v
  PROVE  EndingWords(C, s, v)
<1>1. Gap(v).words = v /\ Gap(v).mode = "gap" /\ R("broken", <<>>, <<>>, 0).mode = "broken"
  BY DEF Gap, R
<1> QED
  BY <1>1 DEF EndingWords, Ending, Words

(* Each code is read as one word.                                          *)
Only(W, words) == \A k \in DOMAIN words : W[k] = {words[k]}

(* A line of codes, which are read as words.                               *)
LEMMA CommandRead ==
  ASSUME NEW C, NEW F, Reader(F, States(C), C), NEW G, Blank \in C, Gaps(F, G, C, Blank),
         NEW codes \in Seq(Seq(C)), codes # <<>>, NEW words \in Seq(Seq(C)),
         Len(codes) = Len(words), NEW W, Only(W, words),
         ReadsWords(F, G, C, Blank, codes, W), NEW ws0 \in Seq(Seq(C))
  PROVE  /\ Command(codes) \in Seq(C)
         /\ Run(F, Gap(ws0), Command(codes)) \in States(C)
         /\ G[Run(F, Gap(ws0), Command(codes))] = Gap(ws0 \o words)
<1> DEFINE n == Len(codes)
           all == FlattenSeq(Separated(Blank, codes))
           line == Command(codes)
<1>1. n \in Nat /\ n = Len(words) /\ DOMAIN words = 1 .. n
  OBVIOUS
<1>2. line = Tail(all)
  BY DEF Command, Mapped, Separated, Blank
<1>3. /\ all \in Seq(C) /\ Tail(all) \in Seq(C) /\ all = <<Blank>> \o Tail(all)
      /\ Run(F, Gap(ws0), all) = Run(F, Gap(ws0), Tail(all))
  BY TailReads
<1>4. ReadsTo(F, G, C, all, W, n, ws0)
  BY WordsRead
<1> HIDE DEF all, line
<1>5. PICK v \in Seq(Seq(C)) : Upto(W, v, n) /\ G[Run(F, Gap(ws0), all)] = Gap(ws0 \o v)
  BY <1>4 DEF ReadsTo
<1>6. v = words
  <2>1. Len(v) = n /\ \A j \in 1 .. n : v[j] \in W[j]
    BY <1>5 DEF Upto
  <2>3. \A j \in 1 .. n : v[j] = words[j]
    BY <1>1, <2>1 DEF Only
  <2> QED
    BY <1>1, <2>1, <2>3, SeqEqual
<1>7. Run(F, Gap(ws0), line) \in States(C)
  <2>1. Gap(ws0) \in States(C)
    BY GapType
  <2>2. line \in Seq(C)
    BY <1>2, <1>3
  <2> QED
    BY <2>1, <2>2, RunType
<1> QED
  BY <1>2, <1>3, <1>5, <1>6, <1>7 DEF line

(* An XML reader gets the text that was escaped, if no entity is in it.    *)
LEMMA XmlReads ==
  ASSUME NEW C, NEW text \in Seq(C), {Entities[c] : c \in DOMAIN Entities} \cap C = {}
  PROVE  XmlText(XmlEscape(text)) = text
<1> DEFINE x == XmlEscape(text)
           E == DOMAIN Entities
<1>1. E = {"&", "<", ">", Quote, Apostrophe}
  BY DEF Entities
<1>2. /\ Entities["&"] = "&amp;" /\ Entities["<"] = "&lt;" /\ Entities[">"] = "&gt;"
      /\ Entities[Quote] = "&quot;" /\ Entities[Apostrophe] = "&apos;"
  BY DEF Entities, Quote, Apostrophe
<1>3. \A c, d \in E : Entities[c] = Entities[d] => c = d
  BY <1>1, <1>2
<1>4. \A c \in E : Entities[c] \notin {"&", "<"} /\ Entities[c] \notin C
  BY <1>1, <1>2
<1> HIDE DEF E
<1>5. DOMAIN text = 1 .. Len(text) /\ DOMAIN x = DOMAIN text /\ \A i \in DOMAIN text : text[i] \in C
  BY DEF XmlEscape
<1>6. ASSUME NEW i \in DOMAIN text
      PROVE  /\ x[i] \notin {"&", "<"}
             /\ (IF \E c \in E : Entities[c] = x[i] THEN CHOOSE c \in E : Entities[c] = x[i] ELSE x[i]) = text[i]
  <2>1. x[i] = IF text[i] \in E THEN Entities[text[i]] ELSE text[i]
    BY DEF XmlEscape, E
  <2>2. CASE text[i] \in E
    <3>1. x[i] = Entities[text[i]]
      BY <2>1, <2>2
    <3>2. \E c \in E : Entities[c] = x[i]
      BY <2>2, <3>1
    <3>3. \A c \in E : Entities[c] = x[i] => c = text[i]
      BY <1>3, <2>2, <3>1
    <3>4. (CHOOSE c \in E : Entities[c] = x[i]) = text[i]
      BY <3>2, <3>3
    <3> QED
      BY <1>4, <2>2, <3>1, <3>2, <3>4
  <2>3. CASE text[i] \notin E
    <3>1. x[i] = text[i]
      BY <2>1, <2>3
    <3>2. ~ \E c \in E : Entities[c] = x[i]
      BY <1>4, <1>5, <3>1
    <3>3. x[i] \notin {"&", "<"}
      BY <1>1, <2>3, <3>1 DEF E
    <3> QED
      BY <3>1, <3>2, <3>3
  <2> QED
    BY <2>2, <2>3
<1> HIDE DEF x
<1>7. ~Has(x, {"&", "<"})
  BY <1>5, <1>6 DEF Has
<1>8. XmlText(x) = [i \in DOMAIN x |->
                      IF \E c \in E : Entities[c] = x[i] THEN CHOOSE c \in E : Entities[c] = x[i] ELSE x[i]]
  BY <1>7 DEF XmlText, E
<1>9. XmlText(x) = [i \in DOMAIN text |-> text[i]]
  BY <1>5, <1>6, <1>8
<1> QED
  BY <1>5, <1>9 DEF x

(* The word before a command that a shell is given.                        *)
Exe == "exec"

(* A blank ends a word of the shell.                                       *)
LEMMA ShellEnds ==
  ASSUME NEW C, Blank \in C, NEW m \in {"gap", "word"}, NEW w \in Seq(C), NEW ws \in Seq(Seq(C))
  PROVE  Shell(C)[<<R(m, w, ws, 0), Blank>>] = Ending(C)[R(m, w, ws, 0)]
<1> DEFINE s == R(m, w, ws, 0)
<1>1. s \in States(C) /\ Ending(C)[s] = Cut(s)
  BY EndsWord
<1>2. s.mode = m
  BY DEF R
<1> HIDE DEF s
<1>3. ShellStep(s, Blank) = Cut(s)
  BY <1>2 DEF ShellStep, Blank, NL, Apostrophe, Backslash
<1>4. Shell(C)[<<s, Blank>>] = ShellStep(s, Blank)
  BY <1>1, ShellIs
<1> QED
  BY <1>1, <1>3, <1>4 DEF s

LEMMA ShellGaps ==
  ASSUME NEW C, Blank \in C
  PROVE  Gaps(Shell(C), Ending(C), C, Blank)
<1> SUFFICES ASSUME NEW ws \in Seq(Seq(C))
             PROVE  Shell(C)[<<Gap(ws), Blank>>] = Gap(ws) /\ Ending(C)[Gap(ws)] = Gap(ws)
  BY DEF Gaps
<1> DEFINE e == <<>>
<1>1. e \in Seq(C) /\ Gap(ws) = R("gap", e, ws, 0)
  BY DEF Gap
<1> HIDE DEF e
<1>2. Ending(C)[Gap(ws)] = Gap(ws)
  BY <1>1, EndsWord
<1>3. Shell(C)[<<Gap(ws), Blank>>] = Ending(C)[Gap(ws)]
  BY <1>1, ShellEnds
<1> QED
  BY <1>2, <1>3

(* A shell takes quoted words apart again, whatever is in them.            *)
LEMMA ShellReadsCommand ==
  ASSUME NEW C, Apostrophe \in C, Backslash \in C, Blank \in C,
         NEW words \in Seq(Seq(C)), words # <<>>, NEW ws0 \in Seq(Seq(C))
  PROVE  LET line == Command([i \in DOMAIN words |-> ShellQuote(words[i])])
         IN /\ line \in Seq(C)
            /\ Run(Shell(C), Gap(ws0), line) \in States(C)
            /\ Ending(C)[Run(Shell(C), Gap(ws0), line)] = Gap(ws0 \o words)
<1> DEFINE F == Shell(C)
           G == Ending(C)
           codes == [i \in DOMAIN words |-> ShellQuote(words[i])]
           W == [k \in DOMAIN words |-> {words[k]}]
<1>1. DOMAIN words = 1 .. Len(words) /\ Len(words) \in Nat \ {0} /\ \A i \in DOMAIN words : words[i] \in Seq(C)
  OBVIOUS
<1>2. \A i \in DOMAIN words : ShellQuote(words[i]) \in Seq(C)
  <2> SUFFICES ASSUME NEW i \in DOMAIN words PROVE ShellQuote(words[i]) \in Seq(C)
    OBVIOUS
  <2> DEFINE e == <<>>
             t == words[i]
  <2>1. e \in Seq(Seq(C)) /\ t \in Seq(C)
    BY <1>1
  <2> HIDE DEF e, t
  <2>2. ShellQuote(t) \in Seq(C)
    BY <2>1, ShellReadsQuote
  <2> QED
    BY <2>2 DEF t
<1>3. codes \in Seq(Seq(C)) /\ Len(codes) = Len(words) /\ codes # <<>>
  <2>1. codes \in Seq(Seq(C)) /\ Len(codes) = Len(words)
    BY <1>1, <1>2
  <2> HIDE DEF codes
  <2> QED
    BY <1>1, <2>1
<1>4. Reader(F, States(C), C) /\ Gaps(F, G, C, Blank)
  BY ShellReader, ShellGaps
<1>5. ReadsWords(F, G, C, Blank, codes, W)
  <2> SUFFICES ASSUME NEW k \in DOMAIN words, NEW ws \in Seq(Seq(C))
               PROVE  Closes(F, G, C, Blank, ws, Run(F, Gap(ws), codes[k]), W[k])
    BY DEF ReadsWords
  <2> DEFINE t == words[k]
  <2>1. t \in Seq(C) /\ codes[k] = ShellQuote(t) /\ W[k] = {t}
    BY <1>1
  <2> HIDE DEF t, codes, W, F, G
  <2>2. Run(F, Gap(ws), ShellQuote(t)) = R("word", t, ws, 0)
    BY <2>1, ShellReadsQuote DEF F
  <2>3. F[<<R("word", t, ws, 0), Blank>>] = G[R("word", t, ws, 0)]
    BY <2>1, ShellEnds DEF F, G
  <2>4. G[R("word", t, ws, 0)] = Gap(Append(ws, t))
    BY <2>1, EndsWord DEF G
  <2> QED
    BY <2>1, <2>2, <2>3, <2>4 DEF Closes
<1> HIDE DEF codes, F, G
<1>6. /\ Command(codes) \in Seq(C)
      /\ Run(F, Gap(ws0), Command(codes)) \in States(C)
      /\ G[Run(F, Gap(ws0), Command(codes))] = Gap(ws0 \o words)
  <2>1. Only(W, words)
    BY DEF Only
  <2> HIDE DEF W
  <2> QED
    BY <1>3, <1>4, <1>5, <2>1, CommandRead
<1> QED
  BY <1>6 DEF codes, F, G

(* What a launch agent starts.                                             *)
LEMMA AgentStarts ==
  ASSUME NEW C, Apostrophe \in C, Backslash \in C, Blank \in C, Exe \in C,
         {Entities[c] : c \in DOMAIN Entities} \cap C = {},
         NEW words \in Seq(Seq(C)), words # <<>>
  PROVE  ShellWords(XmlText(XmlEscape(
           <<Exe, Blank>> \o Command([i \in DOMAIN words |-> ShellQuote(words[i])])))) = <<<<Exe>>>> \o words
<1> DEFINE F == Shell(C)
           rest == Command([i \in DOMAIN words |-> ShellQuote(words[i])])
           b == <<Exe, Blank>>
           x == <<Exe>>
           w1 == <<x>>
           e == <<>>
           line == b \o rest
           end == Run(F, Gap(e), line)
<1>1. Reader(F, States(C), C)
  BY ShellReader
<1>2. b \in Seq(C) /\ x \in Seq(C) /\ e \in Seq(C) /\ e \in Seq(Seq(C)) /\ Append(e, Exe) = x
  OBVIOUS
<1>3. w1 \in Seq(Seq(C)) /\ Append(e, x) = w1
  <2> HIDE DEF x
  <2> QED
    BY <1>2
<1>e. \A ws : Gap(ws) = R("gap", e, ws, 0)
  BY DEF Gap
<1> HIDE DEF e, x, w1, rest
<1>4. rest \in Seq(C) /\ Run(F, Gap(w1), rest) \in States(C)
      /\ Ending(C)[Run(F, Gap(w1), rest)] = Gap(w1 \o words)
  BY <1>3, ShellReadsCommand DEF rest
<1>5. Run(F, Gap(e), b) = Gap(w1)
  <2> DEFINE s == Gap(e)
  <2>1. s \in States(C) /\ s.mode = "gap"
    <3>1. s \in States(C)
      BY <1>2, GapType
    <3> QED
      BY <3>1 DEF Gap, R
  <2>2. Put(s, Exe, "word") = R("word", x, e, 0)
    <3>1. s = R("gap", e, e, 0)
      BY <1>e
    <3>2. Put(R("gap", e, e, 0), Exe, "word") = R("word", Append(e, Exe), e, 0)
      BY PutIs
    <3> QED
      BY <1>2, <3>1, <3>2
  <2> HIDE DEF s
  <2>3. ShellStep(s, Exe) = Put(s, Exe, "word")
    BY <2>1 DEF ShellStep, Exe, NL, Apostrophe, Backslash
  <2>4. F[<<s, Exe>>] = R("word", x, e, 0)
    BY <2>1, <2>2, <2>3, ShellIs
  <2>5. F[<<R("word", x, e, 0), Blank>>] = Gap(w1)
    <3>1. F[<<R("word", x, e, 0), Blank>>] = Ending(C)[R("word", x, e, 0)]
      BY <1>2, ShellEnds
    <3>2. Ending(C)[R("word", x, e, 0)] = Gap(Append(e, x))
      BY <1>2, EndsWord
    <3> QED
      BY <1>3, <3>1, <3>2
  <2> HIDE DEF F
  <2>6. Run(F, s, <<Exe, Blank>>) = F[<<F[<<s, Exe>>], Blank>>]
    BY <1>1, <2>1, RunTwo
  <2> QED
    BY <2>4, <2>5, <2>6 DEF s
<1> HIDE DEF b, F
<1>6. line \in Seq(C) /\ end = Run(F, Gap(w1), rest)
  <2>1. Gap(e) \in States(C)
    BY <1>2, GapType
  <2>2. Run(F, Gap(e), b \o rest) = Run(F, Run(F, Gap(e), b), rest)
    BY <1>1, <1>2, <1>4, <2>1, RunConcat
  <2>3. b \o rest \in Seq(C)
    BY <1>2, <1>4
  <2> QED
    BY <1>5, <2>2, <2>3
<1> HIDE DEF line
<1>7. ShellWords(line) = Words(end)
  <2>1. FoldLeft(ShellStep, Reading, line) = Run(F, Reading, line)
    BY <1>6, ShellRun DEF F
  <2> QED
    BY <2>1, ReadingGap DEF ShellWords, e
<1>8. Words(end) = w1 \o words
  <2> HIDE DEF end
  <2>1. end \in States(C) /\ Ending(C)[end] = Gap(w1 \o words)
    BY <1>4, <1>6
  <2> QED
    BY <2>1, EndingWordsAre DEF EndingWords
<1>9. XmlText(XmlEscape(line)) = line
  BY <1>6, XmlReads
<1> QED
  BY <1>7, <1>8, <1>9 DEF line, b, rest, w1, x

(* The characters a desktop entry's command escapes.                       *)
DesktopSigns == {Quote, Backslash, "backquote", "dollar", "%"}

LEMMA ExecIs ==
  ASSUME NEW C, NEW s \in States(C), NEW c \in C
  PROVE  Exec(C)[<<s, c>>] = DesktopStep(s, c)
  BY DEF Exec

(* The desktop's launcher reads a quoted text without special characters   *)
(* as a word, the text.                                                    *)
LEMMA DesktopReadsQuote ==
  ASSUME NEW C, Quote \in C, NEW text \in Seq(C), ~Has(text, DesktopSigns), NEW ws \in Seq(Seq(C))
  PROVE  /\ DesktopQuote(text) \in Seq(C)
         /\ Run(Exec(C), Gap(ws), DesktopQuote(text)) = R("word", text, ws, 0)
<1> DEFINE Code(c) == IF c \in {Quote, Backslash, "backquote", "dollar"} THEN <<Backslash, c>> ELSE <<c>>
           codes == [i \in DOMAIN text |-> Code(text[i])]
           F == Exec(C)
<1>0. \A i \in DOMAIN text : codes[i] = <<text[i]>> /\ text[i] \notin {Quote, Backslash, "%"} /\ text[i] \in C
  BY DEF Has, DesktopSigns
<1>1. codes \in Seq(Seq(C)) /\ Len(codes) = Len(text)
  <2>1. Coded(codes, text, C)
    <3>1. \A i \in DOMAIN text : codes[i] \in Seq(C)
      <4> SUFFICES ASSUME NEW i \in DOMAIN text PROVE codes[i] \in Seq(C)
        OBVIOUS
      <4> DEFINE c == text[i]
      <4>1. codes[i] = <<c>> /\ c \in C
        BY <1>0
      <4> HIDE DEF codes, c
      <4> QED
        BY <4>1
    <3> QED
      BY <3>1 DEF Coded
  <2> HIDE DEF codes
  <2> QED
    BY <2>1, CodesType
<1>2. DesktopQuote(text) = Marked(Quote, codes)
  BY DEF DesktopQuote, Between, Mapped, Marked
<1>3. {"gap", "quoted", "word"} \subseteq Modes /\ 0 \in Nat
  BY DEF Modes
<1>r. Reader(F, States(C), C)
  BY ExecReader
<1>4. ASSUME NEW w \in Seq(C), NEW c \in C, c \notin {Backslash, "%"}
      PROVE  /\ R("quoted", w, ws, 0) \in States(C)
             /\ F[<<R("quoted", w, ws, 0), c>>] =
                  IF c = Quote THEN R("word", w, ws, 0) ELSE R("quoted", Append(w, c), ws, 0)
  <2> DEFINE s == R("quoted", w, ws, 0)
  <2>1. s \in States(C)
    BY <1>3, StateType
  <2>2. s.mode = "quoted"
    BY DEF R
  <2> HIDE DEF s
  <2>3. DesktopStep(s, c) = IF c = Quote THEN In(s, "word") ELSE Put(s, c, "quoted")
    BY <1>4, <2>2 DEF DesktopStep, Quote, Backslash
  <2>4. In(s, "word") = R("word", w, ws, 0) /\ Put(s, c, "quoted") = R("quoted", Append(w, c), ws, 0)
    BY PutIs, InIs DEF s
  <2>5. F[<<s, c>>] = DesktopStep(s, c)
    BY <2>1, ExecIs
  <2> QED
    BY <2>1, <2>3, <2>4, <2>5 DEF s
<1>5. Decodes(F, C, ws, codes, text)
  <2> SUFFICES ASSUME NEW i \in DOMAIN text, NEW w \in Seq(C)
               PROVE  Run(F, R("quoted", w, ws, 0), codes[i]) = R("quoted", Append(w, text[i]), ws, 0)
    BY DEF Decodes
  <2> DEFINE s == R("quoted", w, ws, 0)
             c == text[i]
  <2>1. c \in C /\ codes[i] = <<c>> /\ c \notin {Quote, Backslash, "%"}
    BY <1>0
  <2> HIDE DEF codes, c
  <2>2. s \in States(C) /\ F[<<s, c>>] = R("quoted", Append(w, c), ws, 0)
    BY <1>4, <2>1
  <2> HIDE DEF F, s
  <2>3. Run(F, s, <<c>>) = F[<<s, c>>]
    BY <1>r, <2>1, <2>2, RunOne
  <2> QED
    BY <2>1, <2>2, <2>3 DEF s, c
<1>6. Gap(ws) \in States(C)
  BY GapType
<1>q. Quote \notin {Backslash, "%"}
  BY DEF Quote, Backslash
<1>7. F[<<Gap(ws), Quote>>] = R("quoted", <<>>, ws, 0)
  <2>1. Gap(ws).mode = "gap"
    BY DEF Gap, R
  <2>2. DesktopStep(Gap(ws), Quote) = In(Gap(ws), "quoted")
    BY <2>1 DEF DesktopStep, Quote, Backslash
  <2>3. In(Gap(ws), "quoted") = R("quoted", <<>>, ws, 0)
    BY InIs DEF Gap
  <2> QED
    BY <1>6, <2>2, <2>3, ExecIs
<1>9. F[<<R("quoted", text, ws, 0), Quote>>] = R("word", text, ws, 0)
  BY <1>4, <1>q
<1> HIDE DEF codes, F
<1>8. Marked(Quote, codes) \in Seq(C)
      /\ Run(F, Gap(ws), Marked(Quote, codes)) = F[<<R("quoted", text, ws, 0), Quote>>]
  BY <1>1, <1>5, <1>6, <1>7, <1>r, ReadsText
<1> QED
  BY <1>2, <1>8, <1>9 DEF F

(* A blank ends a word of a desktop entry's command.                       *)
LEMMA ExecEnds ==
  ASSUME NEW C, Blank \in C, NEW m \in {"gap", "word"}, NEW w \in Seq(C), NEW ws \in Seq(Seq(C))
  PROVE  Exec(C)[<<R(m, w, ws, 0), Blank>>] = Ending(C)[R(m, w, ws, 0)]
<1> DEFINE s == R(m, w, ws, 0)
<1>1. s \in States(C) /\ Ending(C)[s] = Cut(s)
  BY EndsWord
<1>2. s.mode = m
  BY DEF R
<1> HIDE DEF s
<1>3. DesktopStep(s, Blank) = Cut(s)
  BY <1>2 DEF DesktopStep, Blank, Quote
<1>4. Exec(C)[<<s, Blank>>] = DesktopStep(s, Blank)
  BY <1>1, ExecIs
<1> QED
  BY <1>1, <1>3, <1>4 DEF s

LEMMA ExecGaps ==
  ASSUME NEW C, Blank \in C
  PROVE  Gaps(Exec(C), Ending(C), C, Blank)
<1> SUFFICES ASSUME NEW ws \in Seq(Seq(C))
             PROVE  Exec(C)[<<Gap(ws), Blank>>] = Gap(ws) /\ Ending(C)[Gap(ws)] = Gap(ws)
  BY DEF Gaps
<1> DEFINE e == <<>>
<1>1. e \in Seq(C) /\ Gap(ws) = R("gap", e, ws, 0)
  BY DEF Gap
<1> HIDE DEF e
<1>2. Ending(C)[Gap(ws)] = Gap(ws)
  BY <1>1, EndsWord
<1>3. Exec(C)[<<Gap(ws), Blank>>] = Ending(C)[Gap(ws)]
  BY <1>1, ExecEnds
<1> QED
  BY <1>2, <1>3

(* A string of a desktop entry without backslashes is read as it is.       *)
LEMMA EntryReads ==
  ASSUME NEW C, Backslash \notin C, NEW text \in Seq(C), text # <<>>
  PROVE  DesktopString(text) = text
<1> DEFINE F == Entry(C)
           e == <<>>
<1>1. Reader(F, States(C), C) /\ e \in Seq(Seq(C))
  BY EntryReader
<1>2. ASSUME NEW m \in {"gap", "word"}, NEW w \in Seq(C), NEW c \in C
      PROVE  F[<<R(m, w, e, 0), c>>] = R("word", Append(w, c), e, 0)
  <2> DEFINE s == R(m, w, e, 0)
  <2>1. s \in States(C)
    BY <1>1, EndsWord
  <2>2. s.mode = m
    BY DEF R
  <2>4. Put(s, c, "word") = R("word", Append(w, c), e, 0)
    <3> HIDE DEF e
    <3> QED
      BY PutIs
  <2> HIDE DEF s
  <2>3. DesktopStringStep(s, c) = Put(s, c, "word")
    BY <1>2, <2>2 DEF DesktopStringStep
  <2>5. F[<<s, c>>] = DesktopStringStep(s, c)
    BY <2>1 DEF Entry
  <2> QED
    BY <2>3, <2>4, <2>5 DEF s
<1> HIDE DEF F, e
<1>3. Plain(F, C, e, text)
  <2>1. \A i \in DOMAIN text : text[i] \in C
    OBVIOUS
  <2> QED
    BY <1>2, <2>1 DEF Plain
<1>4. Run(F, Gap(e), text) = R("word", text, e, 0)
  BY <1>1, <1>3, ReadsPlain
<1>5. FoldLeft(DesktopStringStep, Reading, text) = Run(F, Gap(e), text)
  BY EntryRun, ReadingGap DEF F, e
<1>6. R("word", text, e, 0).mode = "word" /\ R("word", text, e, 0).word = text
  BY DEF R
<1> QED
  BY <1>4, <1>5, <1>6 DEF DesktopString, OneWord

(* The desktop's launcher takes quoted words apart again.                  *)
LEMMA ExecReadsCommand ==
  ASSUME NEW C, Quote \in C, Blank \in C,
         NEW words \in Seq(Seq(C)), words # <<>>, NEW ws0 \in Seq(Seq(C)),
         \A i \in DOMAIN words : ~Has(words[i], DesktopSigns)
  PROVE  LET line == Command([i \in DOMAIN words |-> DesktopQuote(words[i])])
         IN /\ line \in Seq(C)
            /\ Run(Exec(C), Gap(ws0), line) \in States(C)
            /\ Ending(C)[Run(Exec(C), Gap(ws0), line)] = Gap(ws0 \o words)
<1> DEFINE F == Exec(C)
           G == Ending(C)
           codes == [i \in DOMAIN words |-> DesktopQuote(words[i])]
           W == [k \in DOMAIN words |-> {words[k]}]
<1>1. DOMAIN words = 1 .. Len(words) /\ Len(words) \in Nat \ {0} /\ \A i \in DOMAIN words : words[i] \in Seq(C)
  OBVIOUS
<1>2. \A i \in DOMAIN words : DesktopQuote(words[i]) \in Seq(C)
  <2> SUFFICES ASSUME NEW i \in DOMAIN words PROVE DesktopQuote(words[i]) \in Seq(C)
    OBVIOUS
  <2> DEFINE t == words[i]
             e == <<>>
  <2>1. e \in Seq(Seq(C)) /\ t \in Seq(C) /\ ~Has(t, DesktopSigns)
    BY <1>1
  <2> HIDE DEF t, e
  <2>2. DesktopQuote(t) \in Seq(C)
    BY <2>1, DesktopReadsQuote
  <2> QED
    BY <2>2 DEF t
<1>3. codes \in Seq(Seq(C)) /\ Len(codes) = Len(words) /\ codes # <<>>
  <2>1. codes \in Seq(Seq(C)) /\ Len(codes) = Len(words)
    BY <1>1, <1>2
  <2> HIDE DEF codes
  <2> QED
    BY <1>1, <2>1
<1>4. Reader(F, States(C), C) /\ Gaps(F, G, C, Blank)
  BY ExecReader, ExecGaps
<1>5. ReadsWords(F, G, C, Blank, codes, W)
  <2> SUFFICES ASSUME NEW k \in DOMAIN words, NEW ws \in Seq(Seq(C))
               PROVE  Closes(F, G, C, Blank, ws, Run(F, Gap(ws), codes[k]), W[k])
    BY DEF ReadsWords
  <2> DEFINE t == words[k]
  <2>1. t \in Seq(C) /\ codes[k] = DesktopQuote(t) /\ W[k] = {t} /\ ~Has(t, DesktopSigns)
    BY <1>1
  <2> HIDE DEF t, codes, W, F, G
  <2>2. Run(F, Gap(ws), DesktopQuote(t)) = R("word", t, ws, 0)
    BY <2>1, DesktopReadsQuote DEF F
  <2>3. F[<<R("word", t, ws, 0), Blank>>] = G[R("word", t, ws, 0)]
    BY <2>1, ExecEnds DEF F, G
  <2>4. G[R("word", t, ws, 0)] = Gap(Append(ws, t))
    BY <2>1, EndsWord DEF G
  <2> QED
    BY <2>1, <2>2, <2>3, <2>4 DEF Closes
<1>7. Only(W, words)
  BY DEF Only
<1> HIDE DEF codes, W, F, G
<1>6. /\ Command(codes) \in Seq(C)
      /\ Run(F, Gap(ws0), Command(codes)) \in States(C)
      /\ G[Run(F, Gap(ws0), Command(codes))] = Gap(ws0 \o words)
  BY <1>3, <1>4, <1>5, <1>7, CommandRead
<1> QED
  BY <1>6 DEF codes, F, G

(* What an autostart entry starts.                                         *)
LEMMA EntryStarts ==
  ASSUME NEW C, Quote \in C, Blank \in C, Backslash \notin C,
         NEW words \in Seq(Seq(C)), words # <<>>,
         \A i \in DOMAIN words : ~Has(words[i], DesktopSigns)
  PROVE  DesktopWords(Command([i \in DOMAIN words |-> DesktopQuote(words[i])])) = words
<1> DEFINE F == Exec(C)
           G == Ending(C)
           e == <<>>
           line == Command([i \in DOMAIN words |-> DesktopQuote(words[i])])
           end == Run(F, Gap(e), line)
<1>e. e \in Seq(Seq(C)) /\ e \o words = words
  OBVIOUS
<1> HIDE DEF e, line
<1>4. Reader(F, States(C), C) /\ Gaps(F, G, C, Blank)
  BY ExecReader, ExecGaps
<1>6. line \in Seq(C) /\ end \in States(C) /\ G[end] = Gap(words)
  <2> HIDE DEF F, G
  <2>1. /\ line \in Seq(C)
        /\ Run(F, Gap(e), line) \in States(C)
        /\ G[Run(F, Gap(e), line)] = Gap(e \o words)
    BY <1>e, ExecReadsCommand DEF F, G, line
  <2> QED
    BY <1>e, <2>1
<1>8. line # <<>>
  <2>1. CASE line = <<>>
    <3>1. end = Gap(e)
      <4> DEFINE s == Gap(e)
      <4>1. s \in States(C)
        BY <1>e, GapType
      <4> HIDE DEF s, F
      <4>2. Run(F, s, <<>>) = s
        BY <1>4, <4>1, RunEmpty
      <4> QED
        BY <2>1, <4>2 DEF s
    <3>2. G[Gap(e)] = Gap(e)
      BY <1>4, <1>e DEF Gaps
    <3>3. Gap(e).words = e /\ Gap(words).words = words
      BY DEF Gap, R
    <3>4. e = words
      BY <1>6, <3>1, <3>2, <3>3
    <3> QED
      BY <3>4 DEF e
  <2> QED
    BY <2>1
<1> HIDE DEF end
<1>9. DesktopString(line) = line
  BY <1>6, <1>8, EntryReads
<1>10. FoldLeft(DesktopStep, Reading, line) = end
  <2>1. FoldLeft(DesktopStep, Reading, line) = Run(F, Reading, line)
    BY <1>6, ExecRun
  <2> QED
    BY <2>1, ReadingGap DEF e, end
<1>11. Words(end) = words
  BY <1>6, EndingWordsAre DEF EndingWords
<1> QED
  BY <1>9, <1>10, <1>11 DEF DesktopWords, line

-----------------------------------------------------------------------------
(* The command line of Windows.                                            *)

(* The first word of a line begins it.                                     *)
LEMMA CommandHead ==
  ASSUME NEW C, Blank \in C, NEW codes \in Seq(Seq(C)), codes # <<>>, codes[1] # <<>>
  PROVE  Command(codes) \in Seq(C) /\ Command(codes) # <<>> /\ Command(codes)[1] = codes[1][1]
<1> DEFINE all == Separated(Blank, codes)
           b == <<Blank>>
           u == codes[1]
           t == b \o u
           ss == Tail(all)
<1>1. /\ codes[1] \in Seq(C) /\ Len(codes) \in Nat \ {0} /\ DOMAIN codes = 1 .. Len(codes)
      /\ \A k \in DOMAIN codes : codes[k] \in Seq(C)
  OBVIOUS
<1>2. b \in Seq(C) /\ u \in Seq(C) /\ u # <<>> /\ Len(b) = 1
  BY <1>1
<1>3. all \in Seq(Seq(C)) /\ Len(all) = Len(codes) /\ all[1] = t
  <2>1. \A k \in DOMAIN codes : b \o codes[k] \in Seq(C)
    <3> HIDE DEF b
    <3> QED
      BY <1>1, <1>2
  <2>2. all = [k \in 1 .. Len(codes) |-> b \o codes[k]]
    BY <1>1 DEF Separated
  <2> HIDE DEF b, all
  <2>3. all \in Seq(Seq(C)) /\ Len(all) = Len(codes)
    <3>1. Coded(all, codes, C)
      BY <1>1, <2>1, <2>2 DEF Coded
    <3> QED
      BY <3>1, CodesType
  <2>4. all[1] = b \o u
    BY <1>1, <2>2
  <2> QED
    BY <2>3, <2>4
<1>4. t \in Seq(C) /\ Len(t) = 1 + Len(u) /\ t[2] = u[1] /\ Len(u) > 0
  <2> HIDE DEF b, u
  <2>1. Len(u) \in Nat \ {0}
    BY <1>2
  <2>2. t \in Seq(C) /\ Len(t) = 1 + Len(u)
    <3>1. t \in Seq(C) /\ Len(t) = Len(b) + Len(u)
      BY <1>2, ConcatLen
    <3> QED
      BY <1>2, <3>1
  <2>3. t[2] = u[2 - Len(b)]
    BY <1>2, <2>1, <2>2
  <2> QED
    BY <1>2, <2>1, <2>2, <2>3
<1> HIDE DEF all, t, b, u
<1>5. ss \in Seq(Seq(C)) /\ <<t>> \o ss = all
  <2>1. all # <<>> /\ ss \in Seq(Seq(C))
    BY <1>1, <1>3
  <2>2. all = <<all[1]>> \o Tail(all)
    BY <1>3, <2>1
  <2> QED
    BY <1>3, <2>1, <2>2
<1> HIDE DEF ss
<1>6. FlattenSeq(all) = t \o FlattenSeq(ss) /\ FlattenSeq(ss) \in Seq(C)
  <2>1. FlattenSeq(<<t>> \o ss) = t \o FlattenSeq(ss)
    BY <1>4, <1>5, FlattenCons
  <2> QED
    BY <1>5, <2>1, FlattenType
<1> DEFINE f == FlattenSeq(ss)
           g == FlattenSeq(all)
<1>7. g = t \o f /\ f \in Seq(C)
  BY <1>6
<1> HIDE DEF f, g
<1>8. Tail(g) \in Seq(C) /\ Tail(g) # <<>> /\ Tail(g)[1] = u[1]
  <2>1. g \in Seq(C) /\ Len(g) >= 2 /\ g[2] = u[1]
    <3>1. g \in Seq(C) /\ Len(g) = Len(t) + Len(f) /\ Len(f) \in Nat /\ Len(u) \in Nat
      BY <1>4, <1>7, <1>2, ConcatLen
    <3>2. g[2] = t[2]
      BY <1>4, <1>7, <3>1
    <3> QED
      BY <1>4, <3>1, <3>2
  <2>2. Tail(g) \in Seq(C) /\ Len(Tail(g)) = Len(g) - 1 /\ Len(g) \in Nat
    BY <2>1
  <2>3. Tail(g)[1] = g[2]
    BY <2>1, <2>2
  <2>4. Tail(g) # <<>>
    <3> DEFINE r == Tail(g)
    <3>1. Len(r) >= 1
      BY <2>1, <2>2
    <3> HIDE DEF r
    <3>2. r # <<>>
      BY <3>1
    <3> QED
      BY <3>2 DEF r
  <2> QED
    BY <2>1, <2>2, <2>3, <2>4
<1>9. Command(codes) = Tail(g)
  BY DEF Command, Mapped, Separated, Blank, g, all
<1> QED
  BY <1>8, <1>9 DEF u

(* The C runtime of Windows.                                               *)
Tab == "\t"

(* Runs of backslashes.                                                    *)
LEMMA SlashesAre ==
  ASSUME NEW C, Backslash \in C, NEW n \in Nat
  PROVE  /\ Slashes(n) \in Seq(C) /\ Len(Slashes(n)) = n
         /\ Slashes(n + 1) = Append(Slashes(n), Backslash)
         /\ \A i \in 1 .. n : Slashes(n)[i] = Backslash
<1>1. ASSUME NEW k \in Nat PROVE Slashes(k) \in Seq(C) /\ Len(Slashes(k)) = k
                                 /\ \A i \in 1 .. k : Slashes(k)[i] = Backslash
  BY DEF Slashes
<1> DEFINE a == Slashes(n)
           b == Slashes(n + 1)
<1>2. /\ a \in Seq(C) /\ Len(a) = n /\ \A i \in 1 .. n : a[i] = Backslash
      /\ b \in Seq(C) /\ Len(b) = n + 1 /\ \A i \in 1 .. n + 1 : b[i] = Backslash
  BY <1>1
<1> HIDE DEF a, b
<1> DEFINE c == Append(a, Backslash)
<1>3. c \in Seq(C) /\ Len(c) = n + 1 /\ \A i \in 1 .. n + 1 : c[i] = Backslash
  BY <1>2
<1> HIDE DEF c
<1>4. b = c
  BY <1>2, <1>3, SeqEqual
<1> QED
  BY <1>2, <1>4 DEF a, b, c

LEMMA NoSlashes == Slashes(0) = <<>>
  BY DEF Slashes

(* The mode of a word that has begun.                                      *)
Begun(m) == IF m = "gap" THEN "word" ELSE m

(* What the steps of the reader of Windows do with a state.                *)
LEMMA AddIs ==
  ASSUME NEW m, NEW w, NEW ws, NEW n, NEW more
  PROVE  Add(R(m, w, ws, n), more) = R(Begun(m), w \o more, ws, 0)
<1> DEFINE s == R(m, w, ws, n)
           v == w \o more
           b == Begun(m)
           x == [s EXCEPT !.word = @ \o more, !.held = 0,
                          !.mode = IF @ = "gap" THEN "word" ELSE @]
<1>1. DOMAIN s = {"mode", "word", "words", "held"} /\ s = [f \in DOMAIN s |-> s[f]]
      /\ s.word = w /\ s.words = ws /\ s.held = n /\ s.mode = m
  BY DEF R
<1>2. x = [f \in DOMAIN s |-> IF f = "mode" THEN b ELSE IF f = "held" THEN 0
                              ELSE IF f = "word" THEN v ELSE s[f]]
  BY <1>1 DEF Begun
<1> HIDE DEF s, v, b, x
<1>3. x = [mode |-> b, word |-> v, words |-> ws, held |-> 0]
  BY <1>1, <1>2
<1> QED
  BY <1>3 DEF R, Add, s, v, b, x

LEMMA TurnIs ==
  ASSUME NEW m, NEW w, NEW ws, NEW n
  PROVE  Turn(R(m, w, ws, n)) = R(IF m = "quoted" THEN "word" ELSE "quoted", w, ws, n)
  BY DEF Turn, R

LEMMA HoldIs ==
  ASSUME NEW m, NEW w, NEW ws, NEW n \in Nat
  PROVE  [R(m, w, ws, n) EXCEPT !.held = @ + 1] = R(m, w, ws, n + 1)
  BY DEF R

LEMMA BegunType ==
  ASSUME NEW m \in Modes
  PROVE  Begun(m) \in Modes /\ Begun(m) # "gap" /\ (IF Begun(m) = "quoted" THEN "word" ELSE "quoted") \in Modes
  BY DEF Begun, Modes

(* What each kind of character does.                                       *)
LEMMA WindowsMoves ==
  ASSUME NEW C, Backslash \in C, Quote \in C,
         NEW m \in Modes, NEW w \in Seq(C), NEW ws \in Seq(Seq(C)), NEW n \in Nat, NEW c \in C
  PROVE  /\ c = Backslash => WindowsStep(R(m, w, ws, n), c) = R(m, w, ws, n + 1)
         /\ c = Quote /\ n % 2 = 1 =>
              WindowsStep(R(m, w, ws, n), c) = R(Begun(m), w \o Append(Slashes(n \div 2), Quote), ws, 0)
         /\ c = Quote /\ n % 2 # 1 =>
              WindowsStep(R(m, w, ws, n), c) =
                R(IF Begun(m) = "quoted" THEN "word" ELSE "quoted", w \o Slashes(n \div 2), ws, 0)
         /\ c \in {Blank, Tab} /\ m # "quoted" =>
              WindowsStep(R(m, w, ws, n), c) = Cut(Held(R(m, w, ws, n)))
         /\ c \notin {Backslash, Quote} /\ (c \in {Blank, Tab} => m = "quoted") =>
              WindowsStep(R(m, w, ws, n), c) = R(Begun(m), w \o Append(Slashes(n), c), ws, 0)
<1> DEFINE s == R(m, w, ws, n)
<1>1. s.mode = m /\ s.held = n
  BY DEF R
<1>2. [s EXCEPT !.held = @ + 1] = R(m, w, ws, n + 1)
  BY HoldIs
<1>3. Add(s, Append(Slashes(n \div 2), Quote)) = R(Begun(m), w \o Append(Slashes(n \div 2), Quote), ws, 0)
  BY AddIs
<1>4. Turn(Add(s, Slashes(n \div 2))) =
        R(IF Begun(m) = "quoted" THEN "word" ELSE "quoted", w \o Slashes(n \div 2), ws, 0)
  <2>1. Add(s, Slashes(n \div 2)) = R(Begun(m), w \o Slashes(n \div 2), ws, 0)
    BY AddIs
  <2> QED
    BY <2>1, TurnIs
<1>5. Add(s, Append(Slashes(n), c)) = R(Begun(m), w \o Append(Slashes(n), c), ws, 0)
  BY AddIs
<1> HIDE DEF s
<1>6. Backslash # Quote /\ Backslash \notin {Blank, Tab} /\ Quote \notin {Blank, Tab}
  BY DEF Backslash, Quote, Blank, Tab
<1>7. WindowsStep(s, c) =
        IF c = Backslash THEN [s EXCEPT !.held = @ + 1]
        ELSE IF c = Quote THEN (IF n % 2 = 1 THEN Add(s, Append(Slashes(n \div 2), Quote))
                                ELSE Turn(Add(s, Slashes(n \div 2))))
        ELSE IF c \in {Blank, Tab} /\ m # "quoted" THEN Cut(Held(s))
        ELSE Add(s, Append(Slashes(n), c))
  BY <1>1, <1>6 DEF WindowsStep, Blank, Tab
<1> QED
  BY <1>2, <1>3, <1>4, <1>5, <1>6, <1>7 DEF s

(* Backslashes that are held go into the word when no quote follows.       *)
LEMMA HeldIs ==
  ASSUME NEW C, Backslash \in C,
         NEW m \in Modes, NEW w \in Seq(C), NEW ws \in Seq(Seq(C)), NEW n \in Nat
  PROVE  Held(R(m, w, ws, n)) = R(IF n = 0 THEN m ELSE Begun(m), w \o Slashes(n), ws, 0)
<1>1. R(m, w, ws, n).held = n
  BY DEF R
<1>2. Add(R(m, w, ws, n), Slashes(n)) = R(Begun(m), w \o Slashes(n), ws, 0)
  BY AddIs
<1>3. n = 0 => w \o Slashes(n) = w
  BY NoSlashes
<1> QED
  BY <1>1, <1>2, <1>3 DEF Held

(* The reader of Windows.                                                  *)
WindowsOf(C) == [x \in States(C) \X C |-> WindowsStep(x[1], x[2])]

LEMMA WindowsOfIs ==
  ASSUME NEW C, NEW s \in States(C), NEW c \in C
  PROVE  WindowsOf(C)[<<s, c>>] = WindowsStep(s, c)
  BY DEF WindowsOf

(* It keeps to the states, and its fold is its run.                        *)
LEMMA WindowsOfReader ==
  ASSUME NEW C, Backslash \in C, Quote \in C
  PROVE  Reader(WindowsOf(C), States(C), C)
<1>1. ASSUME NEW s \in States(C), NEW c \in C PROVE WindowsStep(s, c) \in States(C)
  <2> DEFINE m == s.mode
             w == s.word
             ws == s.words
             n == s.held
             a == Slashes(n)
             b == Slashes(n \div 2)
  <2>1. s = R(m, w, ws, n) /\ m \in Modes /\ w \in Seq(C) /\ ws \in Seq(Seq(C)) /\ n \in Nat
    BY StateIs
  <2> HIDE DEF m, w, ws, n
  <2>2. n \div 2 \in Nat /\ n + 1 \in Nat /\ 0 \in Nat
    BY <2>1
  <2>3. a \in Seq(C) /\ b \in Seq(C)
    BY <2>1, <2>2, SlashesAre
  <2> HIDE DEF a, b
  <2>4. /\ w \o Append(b, Quote) \in Seq(C) /\ w \o b \in Seq(C)
        /\ w \o Append(a, c) \in Seq(C) /\ w \o a \in Seq(C)
    BY <2>1, <2>3
  <2>5. CASE c = Backslash
    BY <2>1, <2>2, <2>5, WindowsMoves, StateType
  <2>6. CASE c = Quote /\ n % 2 = 1
    <3>1. WindowsStep(s, c) = R(Begun(m), w \o Append(b, Quote), ws, 0)
      BY <2>1, <2>6, WindowsMoves DEF b
    <3> QED
      BY <2>1, <2>2, <2>4, <3>1, BegunType, StateType
  <2>7. CASE c = Quote /\ n % 2 # 1
    <3>1. WindowsStep(s, c) = R(IF Begun(m) = "quoted" THEN "word" ELSE "quoted", w \o b, ws, 0)
      BY <2>1, <2>7, WindowsMoves DEF b
    <3> QED
      BY <2>1, <2>2, <2>4, <3>1, BegunType, StateType
  <2>8. CASE c \in {Blank, Tab} /\ m # "quoted"
    <3>1. WindowsStep(s, c) = Cut(Held(s))
      BY <2>1, <2>8, WindowsMoves
    <3>2. Held(s) = R(IF n = 0 THEN m ELSE Begun(m), w \o a, ws, 0)
      BY <2>1, HeldIs DEF a
    <3>3. (IF n = 0 THEN m ELSE Begun(m)) \in Modes
      BY <2>1, BegunType
    <3>4. Held(s) \in States(C)
      BY <2>1, <2>2, <2>4, <3>2, <3>3, StateType
    <3>5. "gap" \in Modes
      BY DEF Modes
    <3> QED
      BY <3>1, <3>4, <3>5, MovesType
  <2>9. CASE c \notin {Backslash, Quote} /\ (c \in {Blank, Tab} => m = "quoted")
    <3>1. WindowsStep(s, c) = R(Begun(m), w \o Append(a, c), ws, 0)
      BY <2>1, <2>9, WindowsMoves DEF a
    <3> QED
      BY <2>1, <2>2, <2>4, <3>1, BegunType, StateType
  <2> QED
    BY <2>5, <2>6, <2>7, <2>8, <2>9
<1> QED
  BY <1>1 DEF Reader, WindowsOf

LEMMA WindowsOfRun ==
  ASSUME NEW C, Backslash \in C, Quote \in C, NEW text \in Seq(C)
  PROVE  FoldLeft(WindowsStep, Reading, text) = Run(WindowsOf(C), Reading, text)
<1> DEFINE Eq(h) == h = [T \in SUBSET DOMAIN text |->
                           IF T = {} THEN Reading ELSE WindowsStep(h[T \ {Max(T)}], text[Max(T)])]
<1>1. FoldLeft(WindowsStep, Reading, text) = (CHOOSE h : Eq(h))[DOMAIN text]
  BY DEF FoldLeft, MapThenFoldSet
<1>2. PICK f \in [SUBSET DOMAIN text -> States(C)] : Folds(WindowsOf(C), Reading, text, f)
  BY WindowsOfReader, ReadingType, FoldExists
<1>3. ASSUME NEW T \in SUBSET DOMAIN text, T # {}
      PROVE  Max(T) \in DOMAIN text /\ text[Max(T)] \in C /\ T \ {Max(T)} \in SUBSET DOMAIN text
  BY <1>3, MaxOfPlaces
<1>4. Eq(f)
  BY <1>2, <1>3 DEF Folds, WindowsOf
<1>5. Eq(CHOOSE h : Eq(h))
  BY <1>4
<1> HIDE DEF Eq
<1>6. PICK h : Eq(h) /\ FoldLeft(WindowsStep, Reading, text) = h[DOMAIN text]
  BY <1>1, <1>5
<1>7. Follows(WindowsOf(C), States(C), Reading, text, h)
  BY <1>3, <1>6 DEF Eq, WindowsOf, Follows
<1>8. h[DOMAIN text] = Run(WindowsOf(C), Reading, text)
  <2> DEFINE s0 == Reading
             F == WindowsOf(C)
             D == C
             N == States(C)
  <2>1. Follows(F, N, s0, text, h) /\ Reader(F, N, D) /\ s0 \in N /\ text \in Seq(D)
    BY <1>7, WindowsOfReader, ReadingType
  <2> HIDE DEF s0, F, D, N
  <2>2. h[DOMAIN text] = Run(F, s0, text)
    BY <2>1, FoldIsRun
  <2> QED
    BY <2>2 DEF s0, F
<1> QED
  BY <1>6, <1>8

(* The end of the line: held backslashes go into the word, and the word    *)
(* ends.                                                                   *)
EndHeld(C) == [s \in States(C) |-> Cut(Held(s))]

(* What the end of the line, or a blank, makes of a state.                 *)
HeldEnds(C, m, w, ws, n) ==
  /\ EndHeld(C)[R(m, w, ws, n)] =
       IF m = "gap" /\ n = 0 THEN Gap(ws) ELSE Gap(Append(ws, w \o Slashes(n)))
  /\ WindowsOf(C)[<<R(m, w, ws, n), Blank>>] = EndHeld(C)[R(m, w, ws, n)]

LEMMA EndHeldIs ==
  ASSUME NEW C, Backslash \in C, Quote \in C, Blank \in C, NEW m \in {"gap", "word"}, NEW w \in Seq(C),
         NEW ws \in Seq(Seq(C)), NEW n \in Nat, m = "gap" => w = <<>>
  PROVE  HeldEnds(C, m, w, ws, n)
<1> DEFINE s == R(m, w, ws, n)
           v == w \o Slashes(n)
<1>1. m \in Modes /\ m # "quoted"
  BY DEF Modes
<1>2. s \in States(C)
  BY <1>1, StateType
<1>3. Held(s) = R(IF n = 0 THEN m ELSE Begun(m), v, ws, 0)
  BY <1>1, HeldIs
<1>4. WindowsStep(s, Blank) = Cut(Held(s))
  BY <1>1, WindowsMoves
<1>5. n = 0 /\ m = "gap" => v = <<>>
  BY NoSlashes
<1> HIDE DEF s, v
<1>6. Cut(Held(s)) = IF m = "gap" /\ n = 0 THEN Gap(ws) ELSE Gap(Append(ws, v))
  BY <1>3, <1>5, CutIs DEF Gap, Begun
<1>7. EndHeld(C)[s] = Cut(Held(s))
  BY <1>2 DEF EndHeld
<1> QED
  BY <1>2, <1>4, <1>6, <1>7, WindowsOfIs DEF s, v, HeldEnds

LEMMA WindowsGaps ==
  ASSUME NEW C, Backslash \in C, Quote \in C, Blank \in C
  PROVE  Gaps(WindowsOf(C), EndHeld(C), C, Blank)
<1> SUFFICES ASSUME NEW ws \in Seq(Seq(C))
             PROVE  WindowsOf(C)[<<Gap(ws), Blank>>] = Gap(ws) /\ EndHeld(C)[Gap(ws)] = Gap(ws)
  BY DEF Gaps
<1> DEFINE e == <<>>
<1>1. e \in Seq(C) /\ Gap(ws) = R("gap", e, ws, 0) /\ e = <<>> /\ 0 \in Nat
  BY DEF Gap
<1> HIDE DEF e
<1>2. HeldEnds(C, "gap", e, ws, 0)
  BY <1>1, EndHeldIs
<1> QED
  BY <1>1, <1>2 DEF HeldEnds

(* Words without blanks and quotes: backslashes stand for themselves.      *)
Outside(C, p, ws) ==
  {s \in States(C) : /\ s.words = ws /\ s.word \o Slashes(s.held) = p
                     /\ s.mode \in {"gap", "word"} /\ (s.mode = "gap" => s.word = <<>>)}

(* The states outside quotes in which p of a word has been read, the       *)
(* backslashes that are held included.                                     *)
StandsOutside(C, p, ws, s, m, w, n) ==
  /\ s = R(m, w, ws, n) /\ s \in States(C)
  /\ m \in {"gap", "word"} /\ w \in Seq(C) /\ n \in Nat /\ ws \in Seq(Seq(C))
  /\ m = "gap" => w = <<>>
  /\ w \o Slashes(n) = p

LEMMA OutsideIs ==
  ASSUME NEW C, NEW p, NEW ws, NEW s \in Outside(C, p, ws)
  PROVE  StandsOutside(C, p, ws, s, s.mode, s.word, s.held)
  BY StateIs DEF Outside, StandsOutside

LEMMA OutsideHas ==
  ASSUME NEW C, NEW m \in {"gap", "word"}, NEW w \in Seq(C), NEW ws \in Seq(Seq(C)), NEW n \in Nat,
         m = "gap" => w = <<>>
  PROVE  R(m, w, ws, n) \in Outside(C, w \o Slashes(n), ws)
<1>1. m \in Modes
  BY DEF Modes
<1>2. R(m, w, ws, n) \in States(C)
  BY <1>1, StateType
<1>3. R(m, w, ws, n).mode = m /\ R(m, w, ws, n).word = w /\ R(m, w, ws, n).words = ws /\ R(m, w, ws, n).held = n
  BY DEF R
<1> QED
  BY <1>2, <1>3 DEF Outside

(* One backslash more, or another character.                               *)
SlashesGrow(C, w, n, c) ==
  /\ w \o Slashes(n + 1) = Append(w \o Slashes(n), Backslash)
  /\ w \o Append(Slashes(n), c) = Append(w \o Slashes(n), c)
  /\ w \o Slashes(n) \in Seq(C) /\ w \o Append(Slashes(n), c) \in Seq(C)
  /\ Len(w \o Slashes(n)) = Len(w) + n

LEMMA SlashesAppend ==
  ASSUME NEW C, Backslash \in C, NEW w \in Seq(C), NEW n \in Nat, NEW c \in C
  PROVE  SlashesGrow(C, w, n, c)
<1> DEFINE a == Slashes(n)
<1>1. a \in Seq(C) /\ Slashes(n + 1) = Append(a, Backslash) /\ Len(a) = n
  BY SlashesAre
<1> HIDE DEF a
<1>2. SameAppend(w, a, Backslash) /\ SameAppend(w, a, c)
  BY <1>1, AppendConcat
<1>3. w \o a \in Seq(C) /\ w \o Append(a, c) \in Seq(C) /\ Len(w \o a) = Len(w) + Len(a)
  <2>1. Append(a, c) \in Seq(C)
    BY <1>1
  <2> QED
    BY <1>1, <2>1, ConcatLen
<1> QED
  BY <1>1, <1>2, <1>3 DEF SameAppend, a, SlashesGrow

(* Induction over a text without blanks and quotes: each of its characters *)
(* is read as itself.                                                      *)
LEMMA OutsideStep ==
  ASSUME NEW C, Backslash \in C, Quote \in C, NEW p \in Seq(C), NEW ws,
         NEW s \in Outside(C, p, ws), NEW c \in C, c \notin {Quote, Blank, Tab}
  PROVE  WindowsOf(C)[<<s, c>>] \in Outside(C, Append(p, c), ws)
<1> DEFINE m == s.mode
           w == s.word
           n == s.held
<1>o. StandsOutside(C, p, ws, s, m, w, n)
  BY OutsideIs
<1> HIDE DEF m, w, n
<1>1. /\ s = R(m, w, ws, n) /\ m \in {"gap", "word"} /\ w \in Seq(C) /\ n \in Nat /\ ws \in Seq(Seq(C))
      /\ m = "gap" => w = <<>>
      /\ w \o Slashes(n) = p /\ s \in States(C)
  BY <1>o DEF StandsOutside
<1>g. SlashesGrow(C, w, n, c)
  BY <1>1, SlashesAppend
<1>2. m \in Modes /\ n + 1 \in Nat /\ Begun(m) = "word" /\ 0 \in Nat
  BY <1>1 DEF Modes, Begun
<1>3. WindowsOf(C)[<<s, c>>] = WindowsStep(s, c)
  BY <1>1, WindowsOfIs
<1>4. CASE c = Backslash
  <2>1. WindowsStep(s, c) = R(m, w, ws, n + 1)
    BY <1>1, <1>2, <1>4, WindowsMoves
  <2>2. w \o Slashes(n + 1) = Append(p, c)
    BY <1>1, <1>4, <1>g DEF SlashesGrow
  <2>3. R(m, w, ws, n + 1) \in Outside(C, w \o Slashes(n + 1), ws)
    BY <1>1, <1>2, OutsideHas
  <2> QED
    BY <1>3, <2>1, <2>2, <2>3
<1>5. CASE c # Backslash
  <2> DEFINE v == w \o Append(Slashes(n), c)
  <2>1. WindowsStep(s, c) = R("word", v, ws, 0)
    BY <1>1, <1>2, <1>5, WindowsMoves
  <2>2. v = Append(p, c) /\ v \in Seq(C)
    BY <1>1, <1>g DEF SlashesGrow
  <2> HIDE DEF v
  <2>3. R("word", v, ws, 0) \in Outside(C, v \o Slashes(0), ws)
    BY <1>1, <1>2, <2>2, OutsideHas
  <2>4. v \o Slashes(0) = v
    BY <2>2, NoSlashes
  <2> QED
    BY <1>3, <2>1, <2>2, <2>3, <2>4
<1> QED
  BY <1>4, <1>5

(* So such a text is read as it is, whatever runs of backslashes are in    *)
(* it.                                                                     *)
LEMMA WindowsReadsPlain ==
  ASSUME NEW C, Backslash \in C, Quote \in C, Blank \in C, NEW text \in Seq(C), text # <<>>,
         ~Has(text, {Quote, Blank, Tab}), NEW ws \in Seq(Seq(C))
  PROVE  Closes(WindowsOf(C), EndHeld(C), C, Blank, ws, Run(WindowsOf(C), Gap(ws), text), {text})
<1> DEFINE F == WindowsOf(C)
           n == Len(text)
           I == [k \in 0 .. n |-> Outside(C, SubSeq(text, 1, k), ws)]
           s == Run(F, Gap(ws), text)
<1>1. n \in Nat /\ DOMAIN text = 1 .. n /\ SubSeq(text, 1, 0) = <<>> /\ SubSeq(text, 1, n) = text
  OBVIOUS
<1>2. Reader(F, States(C), C)
  BY WindowsOfReader
<1>3. Stages(I, text, States(C))
  BY DEF Stages, Outside
<1>4. Gap(ws) \in I[0]
  <2> DEFINE e == <<>>
  <2>1. e \in Seq(C) /\ Gap(ws) = R("gap", e, ws, 0) /\ e = <<>> /\ 0 \in Nat
    BY DEF Gap
  <2>2. e \o Slashes(0) = e
    BY NoSlashes
  <2> HIDE DEF e
  <2>3. Gap(ws) \in Outside(C, e, ws)
    <3>1. R("gap", e, ws, 0) \in Outside(C, e \o Slashes(0), ws)
      BY <2>1, OutsideHas
    <3> QED
      BY <2>1, <2>2, <3>1
  <2>4. I[0] = Outside(C, e, ws)
    <3>1. 0 \in 0 .. n
      BY <1>1
    <3>2. I[0] = Outside(C, SubSeq(text, 1, 0), ws)
      BY <3>1
    <3> QED
      BY <1>1, <2>1, <3>2
  <2> QED
    BY <2>3, <2>4
<1>5. Moves(F, text, I)
  <2> SUFFICES ASSUME NEW k \in 0 .. n - 1, NEW x \in I[k] PROVE F[<<x, text[k + 1]>>] \in I[k + 1]
    BY DEF Moves
  <2> DEFINE p == SubSeq(text, 1, k)
             c == text[k + 1]
  <2>1. p \in Seq(C) /\ c \in C /\ SubSeq(text, 1, k + 1) = Append(p, c)
    BY <1>1, LongerPrefix
  <2>2. k \in 0 .. n /\ k + 1 \in 0 .. n /\ k + 1 \in DOMAIN text
    BY <1>1
  <2>3. c \notin {Quote, Blank, Tab}
    BY <2>2 DEF Has
  <2>4. x \in Outside(C, p, ws) /\ I[k + 1] = Outside(C, Append(p, c), ws)
    BY <2>1, <2>2
  <2> HIDE DEF p, c, I, F
  <2>5. F[<<x, c>>] \in Outside(C, Append(p, c), ws)
    BY <2>1, <2>3, <2>4, OutsideStep DEF F
  <2> QED
    BY <2>4, <2>5 DEF c
<1>6. s \in Outside(C, text, ws)
  <2>1. s \in I[n]
    <3> HIDE DEF I, F
    <3> QED
      BY <1>2, <1>3, <1>4, <1>5, RunStages
  <2>2. I[n] = Outside(C, text, ws)
    <3>1. n \in 0 .. n
      BY <1>1
    <3>2. I[n] = Outside(C, SubSeq(text, 1, n), ws)
      BY <3>1
    <3> HIDE DEF I
    <3> QED
      BY <1>1, <3>2
  <2> QED
    BY <2>1, <2>2
<1> HIDE DEF I, s, F
<1> DEFINE m == s.mode
           w == s.word
           h == s.held
<1>o. StandsOutside(C, text, ws, s, m, w, h)
  BY <1>6, OutsideIs
<1> HIDE DEF m, w, h
<1>7. /\ s = R(m, w, ws, h) /\ m \in {"gap", "word"} /\ w \in Seq(C) /\ h \in Nat
      /\ m = "gap" => w = <<>>
      /\ w \o Slashes(h) = text
  BY <1>o DEF StandsOutside
<1>8. ~(m = "gap" /\ h = 0)
  BY <1>7, NoSlashes
<1>9. EndHeld(C)[s] = Gap(Append(ws, text)) /\ WindowsOf(C)[<<s, Blank>>] = EndHeld(C)[s]
  <2>1. HeldEnds(C, m, w, ws, h)
    BY <1>7, EndHeldIs
  <2> QED
    BY <1>7, <1>8, <2>1 DEF HeldEnds
<1> QED
  BY <1>9 DEF Closes, s, F

(* Runs of backslashes.                                                    *)
SqueezeOf(C) == [x \in Seq(C) \X C |-> SqueezeStep(x[1], x[2])]

LEMMA SqueezeOfReader ==
  ASSUME NEW C
  PROVE  Reader(SqueezeOf(C), Seq(C), C)
<1>1. ASSUME NEW s \in Seq(C), NEW c \in C PROVE SqueezeStep(s, c) \in Seq(C)
  BY DEF SqueezeStep
<1> QED
  BY <1>1 DEF Reader, SqueezeOf

LEMMA SqueezeOfRun ==
  ASSUME NEW C, NEW text \in Seq(C)
  PROVE  FoldLeft(SqueezeStep, <<>>, text) = Run(SqueezeOf(C), <<>>, text)
<1> DEFINE Eq(h) == h = [T \in SUBSET DOMAIN text |->
                           IF T = {} THEN <<>> ELSE SqueezeStep(h[T \ {Max(T)}], text[Max(T)])]
<1>1. FoldLeft(SqueezeStep, <<>>, text) = (CHOOSE h : Eq(h))[DOMAIN text]
  BY DEF FoldLeft, MapThenFoldSet
<1>2. PICK f \in [SUBSET DOMAIN text -> Seq(C)] : Folds(SqueezeOf(C), <<>>, text, f)
  BY SqueezeOfReader, EmptyType, FoldExists
<1>3. ASSUME NEW T \in SUBSET DOMAIN text, T # {}
      PROVE  Max(T) \in DOMAIN text /\ text[Max(T)] \in C /\ T \ {Max(T)} \in SUBSET DOMAIN text
  BY <1>3, MaxOfPlaces
<1>4. Eq(f)
  BY <1>2, <1>3 DEF Folds, SqueezeOf
<1>5. Eq(CHOOSE h : Eq(h))
  BY <1>4
<1> HIDE DEF Eq
<1>6. PICK h : Eq(h) /\ FoldLeft(SqueezeStep, <<>>, text) = h[DOMAIN text]
  BY <1>1, <1>5
<1>7. Follows(SqueezeOf(C), Seq(C), <<>>, text, h)
  BY <1>3, <1>6 DEF Eq, SqueezeOf, Follows
<1>8. h[DOMAIN text] = Run(SqueezeOf(C), <<>>, text)
  <2> DEFINE s0 == <<>>
             F == SqueezeOf(C)
             D == C
             N == Seq(C)
  <2>1. Follows(F, N, s0, text, h) /\ Reader(F, N, D) /\ s0 \in N /\ text \in Seq(D)
    BY <1>7, SqueezeOfReader, EmptyType
  <2> HIDE DEF s0, F, D, N
  <2>2. h[DOMAIN text] = Run(F, s0, text)
    BY <2>1, FoldIsRun
  <2> QED
    BY <2>2 DEF s0, F
<1> QED
  BY <1>6, <1>8

(* Squeezed over one more character, and over one more backslash.          *)
LEMMA SqueezedAppend ==
  ASSUME NEW C, NEW t \in Seq(C), NEW c \in C
  PROVE  /\ Squeezed(t) \in Seq(C)
         /\ Squeezed(Append(t, c)) = SqueezeStep(Squeezed(t), c)
<1> DEFINE F == SqueezeOf(C)
           e == <<>>
           u == Append(t, c)
<1>1. Reader(F, Seq(C), C) /\ e \in Seq(C) /\ u \in Seq(C)
  BY SqueezeOfReader
<1>2. Squeezed(t) = Run(F, e, t) /\ Squeezed(u) = Run(F, e, u)
  BY <1>1, SqueezeOfRun DEF Squeezed
<1> HIDE DEF e, F
<1>3. Run(F, e, t) \in Seq(C) /\ Run(F, e, Append(t, c)) = F[<<Run(F, e, t), c>>]
  <2>1. Run(F, e, t) \in Seq(C)
    BY <1>1, RunType
  <2>2. Run(F, e, Append(t, c)) = F[<<Run(F, e, t), c>>]
    BY <1>1, RunAppend
  <2> QED
    BY <2>1, <2>2
<1> DEFINE r == Run(F, e, t)
<1>4. F[<<r, c>>] = SqueezeStep(r, c)
  <2>1. r \in Seq(C)
    BY <1>3
  <2> HIDE DEF r
  <2> QED
    BY <2>1 DEF F, SqueezeOf
<1> QED
  BY <1>2, <1>3, <1>4

LEMMA SqueezeAgain ==
  ASSUME NEW C, Backslash \in C, NEW s \in Seq(C)
  PROVE  /\ SqueezeStep(s, Backslash) \in Seq(C)
         /\ SqueezeStep(SqueezeStep(s, Backslash), Backslash) = SqueezeStep(s, Backslash)
<1> DEFINE a == Append(s, Backslash)
<1>1. a \in Seq(C) /\ a # <<>> /\ Last(a) = Backslash
  <2>1. a \in Seq(C) /\ Len(a) = Len(s) + 1 /\ a[Len(s) + 1] = Backslash /\ Len(s) \in Nat
    BY AppendProperties
  <2> HIDE DEF a
  <2>2. a # <<>>
    BY <2>1
  <2> QED
    BY <2>1, <2>2 DEF Last
<1> HIDE DEF a
<1>2. SqueezeStep(s, Backslash) = IF s # <<>> /\ Last(s) = Backslash THEN s ELSE a
  BY DEF SqueezeStep, a
<1> QED
  BY <1>1, <1>2 DEF SqueezeStep

LEMMA SqueezedRuns ==
  ASSUME NEW C, Backslash \in C, NEW w \in Seq(C), NEW n \in Nat \ {0}
  PROVE  Squeezed(w \o Slashes(n)) = SqueezeStep(Squeezed(w), Backslash)
<1> DEFINE q(k) == w \o Slashes(k)
           a == SqueezeStep(Squeezed(w), Backslash)
           T == {k \in 0 .. n : k # 0 => Squeezed(q(k)) = a}
<1>1. ASSUME NEW k \in Nat
      PROVE  q(k) \in Seq(C) /\ Squeezed(q(k + 1)) = SqueezeStep(Squeezed(q(k)), Backslash)
  <2> DEFINE t == q(k)
  <2>1. t \in Seq(C) /\ q(k + 1) = Append(t, Backslash)
    <3>1. SlashesGrow(C, w, k, Backslash)
      BY SlashesAppend
    <3> QED
      BY <3>1 DEF SlashesGrow
  <2> HIDE DEF t
  <2>2. Squeezed(Append(t, Backslash)) = SqueezeStep(Squeezed(t), Backslash)
    BY <2>1, SqueezedAppend
  <2> QED
    BY <2>1, <2>2 DEF t
<1>2. q(0) = w /\ Squeezed(w) \in Seq(C)
  <2>1. w \o Slashes(0) = w
    BY NoSlashes
  <2>2. Squeezed(w) \in Seq(C)
    BY SqueezedAppend
  <2> QED
    BY <2>1, <2>2
<1>3. a \in Seq(C) /\ SqueezeStep(a, Backslash) = a
  BY <1>2, SqueezeAgain
<1> HIDE DEF q, a
<1>4. 0 \in T
  OBVIOUS
<1>5. ASSUME NEW k \in 0 .. n - 1, k \in T PROVE k + 1 \in T
  <2>1. Squeezed(q(k + 1)) = SqueezeStep(Squeezed(q(k)), Backslash)
    BY <1>1
  <2>2. CASE k = 0
    <3>1. q(k) = w
      BY <1>2, <2>2
    <3>2. Squeezed(q(k + 1)) = a
      BY <2>1, <3>1 DEF a
    <3> QED
      BY <3>2
  <2>3. CASE k # 0
    BY <1>3, <1>5, <2>1, <2>3
  <2> QED
    BY <2>2, <2>3
<1>6. n \in T
  <2> HIDE DEF T
  <2> QED
    BY <1>4, <1>5, UpTo
<1> QED
  BY <1>6 DEF q, a

(* Quoted words: with each backslash doubled a run of them is read as one  *)
(* twice as long, unless a quote comes after it.                           *)
Same(C, p) ==
  {v \in Seq(C) : Squeezed(v) = Squeezed(p) /\ (~Has(p, {Backslash}) => v = p)}

(* A longer text has what the shorter one has.                             *)
LEMMA HasAppend ==
  ASSUME NEW C, NEW p \in Seq(C), NEW c \in C, NEW X
  PROVE  Has(Append(p, c), X) <=> Has(p, X) \/ c \in X
<1> DEFINE q == Append(p, c)
<1>1. q \in Seq(C) /\ Len(q) = Len(p) + 1 /\ q[Len(p) + 1] = c /\ Len(p) \in Nat
      /\ \A i \in 1 .. Len(p) : q[i] = p[i]
  BY AppendProperties
<1>2. DOMAIN p = 1 .. Len(p) /\ DOMAIN q = 1 .. Len(p) + 1
  BY <1>1
<1> HIDE DEF q
<1>3. Has(q, X) <=> Has(p, X) \/ c \in X
  <2>1. ASSUME Has(q, X) PROVE Has(p, X) \/ c \in X
    <3>1. PICK i \in 1 .. Len(p) + 1 : q[i] \in X
      BY <1>2, <2>1 DEF Has
    <3>2. CASE i = Len(p) + 1
      BY <1>1, <3>1, <3>2
    <3>3. CASE i # Len(p) + 1
      <4>1. i \in 1 .. Len(p)
        BY <1>1, <3>3
      <4>2. p[i] \in X
        BY <1>1, <3>1, <4>1
      <4> QED
        BY <1>2, <4>1, <4>2 DEF Has
    <3> QED
      BY <3>2, <3>3
  <2>2. ASSUME Has(p, X) PROVE Has(q, X)
    <3>1. PICK i \in 1 .. Len(p) : p[i] \in X
      BY <1>2, <2>2 DEF Has
    <3>2. i \in 1 .. Len(p) + 1 /\ q[i] \in X
      BY <1>1, <3>1
    <3> QED
      BY <1>2, <3>2 DEF Has
  <2>3. ASSUME c \in X PROVE Has(q, X)
    <3>1. Len(p) + 1 \in 1 .. Len(p) + 1
      BY <1>1
    <3> QED
      BY <1>1, <1>2, <2>3, <3>1 DEF Has
  <2> QED
    BY <2>1, <2>2, <2>3
<1> QED
  BY <1>3 DEF q

LEMMA SameAppends ==
  ASSUME NEW C, NEW p \in Seq(C), NEW v \in Same(C, p), NEW c \in C
  PROVE  Append(v, c) \in Same(C, Append(p, c))
<1>1. v \in Seq(C) /\ Squeezed(v) = Squeezed(p) /\ (~Has(p, {Backslash}) => v = p)
  BY DEF Same
<1>2. Squeezed(Append(v, c)) = SqueezeStep(Squeezed(v), c)
  BY <1>1, SqueezedAppend
<1>3. Squeezed(Append(p, c)) = SqueezeStep(Squeezed(p), c)
  BY SqueezedAppend
<1>4. Has(Append(p, c), {Backslash}) <=> Has(p, {Backslash}) \/ c \in {Backslash}
  BY HasAppend
<1>5. Append(v, c) \in Seq(C)
  BY <1>1
<1> QED
  BY <1>1, <1>2, <1>3, <1>4, <1>5 DEF Same

(* The states within quotes in which p has been read, but for the length   *)
(* of runs of backslashes: two are held for each that was written.         *)
StandsInside(C, p, ws, s, w, r) ==
  /\ s = R("quoted", w, ws, 2 * r) /\ w \in Seq(C) /\ r \in Nat
  /\ w \o Slashes(r) \in Same(C, p)

Inside(C, p, ws) == {s \in States(C) : \E w \in Seq(C), r \in Nat : StandsInside(C, p, ws, s, w, r)}

LEMMA InsideHas ==
  ASSUME NEW C, NEW p, NEW ws \in Seq(Seq(C)), NEW w \in Seq(C), NEW r \in Nat,
         w \o Slashes(r) \in Same(C, p)
  PROVE  R("quoted", w, ws, 2 * r) \in Inside(C, p, ws)
<1>1. "quoted" \in Modes /\ 2 * r \in Nat
  BY DEF Modes
<1>2. R("quoted", w, ws, 2 * r) \in States(C)
  BY <1>1, StateType
<1> QED
  BY <1>2 DEF Inside, StandsInside

(* What windows_command_line writes for a character.                       *)
WindowsCode(c) == IF c \in {Quote, Backslash} THEN <<Backslash, c>> ELSE <<c>>

(* Each code is read as its character, but for the length of runs.         *)
LEMMA InsideStep ==
  ASSUME NEW C, Backslash \in C, Quote \in C, NEW p \in Seq(C), NEW ws \in Seq(Seq(C)),
         NEW s \in Inside(C, p, ws), NEW c \in C
  PROVE  Run(WindowsOf(C), s, WindowsCode(c)) \in Inside(C, Append(p, c), ws)
<1> DEFINE F == WindowsOf(C)
<1>1. PICK w \in Seq(C), r \in Nat : StandsInside(C, p, ws, s, w, r)
  BY DEF Inside
<1> DEFINE q == w \o Slashes(r)
           n == 2 * r
<1>2. s = R("quoted", w, ws, n) /\ q \in Same(C, p)
  BY <1>1 DEF StandsInside
<1>3. s \in States(C)
  BY DEF Inside
<1>4. n \in Nat /\ n + 1 \in Nat /\ n + 2 = 2 * (r + 1) /\ (n + 1) % 2 = 1 /\ (n + 1) \div 2 = r
      /\ r + 1 \in Nat /\ 0 \in Nat /\ 2 * 0 = 0 /\ (n + 1) + 1 = n + 2
  OBVIOUS
<1>5. "quoted" \in Modes /\ Begun("quoted") = "quoted"
  BY DEF Modes, Begun
<1>6. Append(q, c) \in Same(C, Append(p, c))
  <2> HIDE DEF q
  <2> QED
    BY <1>2, SameAppends
<1>r. Reader(F, States(C), C)
  BY WindowsOfReader
<1>b. Backslash # Quote
  BY DEF Backslash, Quote
<1>t. R("quoted", w, ws, n + 1) \in States(C)
  BY <1>4, <1>5, StateType
<1>7. F[<<s, Backslash>>] = R("quoted", w, ws, n + 1)
  <2>1. WindowsStep(R("quoted", w, ws, n), Backslash) = R("quoted", w, ws, n + 1)
    BY <1>4, <1>5, WindowsMoves
  <2> QED
    BY <1>2, <1>3, <2>1, WindowsOfIs
<1>8. CASE c = Backslash
  <2>1. F[<<R("quoted", w, ws, n + 1), Backslash>>] = R("quoted", w, ws, 2 * (r + 1))
    <3>1. WindowsStep(R("quoted", w, ws, n + 1), Backslash) = R("quoted", w, ws, (n + 1) + 1)
      <4> DEFINE m == n + 1
      <4>1. m \in Nat
        BY <1>4
      <4> HIDE DEF m
      <4>2. WindowsStep(R("quoted", w, ws, m), Backslash) = R("quoted", w, ws, m + 1)
        BY <1>5, <4>1, WindowsMoves
      <4> QED
        BY <4>2 DEF m
    <3> QED
      BY <1>4, <1>t, <3>1, WindowsOfIs
  <2>2. w \o Slashes(r + 1) \in Same(C, Append(p, c))
    <3>1. SlashesGrow(C, w, r, c)
      BY SlashesAppend
    <3> QED
      BY <1>6, <1>8, <3>1 DEF SlashesGrow
  <2>3. R("quoted", w, ws, 2 * (r + 1)) \in Inside(C, Append(p, c), ws)
    BY <1>4, <2>2, InsideHas
  <2>4. WindowsCode(c) = <<Backslash, Backslash>>
    BY <1>8 DEF WindowsCode
  <2> HIDE DEF F, n, q
  <2>5. Run(F, s, <<Backslash, Backslash>>) = F[<<F[<<s, Backslash>>], Backslash>>]
    BY <1>3, <1>r, RunTwo
  <2> QED
    BY <1>7, <2>1, <2>3, <2>4, <2>5 DEF F
<1>9. CASE c = Quote
  <2> DEFINE v == w \o Append(Slashes(r), Quote)
  <2>1. F[<<R("quoted", w, ws, n + 1), Quote>>] = R("quoted", v, ws, 0)
    <3>1. WindowsStep(R("quoted", w, ws, n + 1), Quote)
            = R(Begun("quoted"), w \o Append(Slashes((n + 1) \div 2), Quote), ws, 0)
      <4> DEFINE m == n + 1
      <4>1. m \in Nat /\ m % 2 = 1
        BY <1>4
      <4> HIDE DEF m
      <4>2. WindowsStep(R("quoted", w, ws, m), Quote)
              = R(Begun("quoted"), w \o Append(Slashes(m \div 2), Quote), ws, 0)
        BY <1>5, <4>1, WindowsMoves
      <4> QED
        BY <4>2 DEF m
    <3> QED
      BY <1>4, <1>5, <1>t, <3>1, WindowsOfIs
  <2>2. v = Append(q, c) /\ v \in Seq(C)
    <3>1. SlashesGrow(C, w, r, c)
      BY SlashesAppend
    <3> QED
      BY <1>9, <3>1 DEF SlashesGrow
  <2>3. R("quoted", v, ws, 2 * 0) \in Inside(C, Append(p, c), ws)
    <3> HIDE DEF q
    <3>1. v \o Slashes(0) \in Same(C, Append(p, c))
      <4>1. v \in Same(C, Append(p, c))
        BY <1>6, <2>2
      <4> HIDE DEF v
      <4>2. v \o Slashes(0) = v
        BY <2>2, NoSlashes
      <4> QED
        BY <4>1, <4>2
    <3> HIDE DEF v
    <3> QED
      BY <1>4, <2>2, <3>1, InsideHas
  <2>4. WindowsCode(c) = <<Backslash, Quote>>
    BY <1>9 DEF WindowsCode
  <2> HIDE DEF F, n, q, v
  <2>5. Run(F, s, <<Backslash, Quote>>) = F[<<F[<<s, Backslash>>], Quote>>]
    BY <1>3, <1>r, RunTwo
  <2> QED
    BY <1>4, <1>7, <2>1, <2>3, <2>4, <2>5 DEF F
<1>10. CASE c \notin {Backslash, Quote}
  <2> DEFINE u == w \o Slashes(n)
             v == w \o Append(Slashes(n), c)
  <2>1. F[<<s, c>>] = R("quoted", v, ws, 0)
    <3>1. WindowsStep(R("quoted", w, ws, n), c) = R(Begun("quoted"), v, ws, 0)
      BY <1>4, <1>5, <1>10, WindowsMoves
    <3> QED
      BY <1>2, <1>3, <1>5, <3>1, WindowsOfIs
  <2>2. v = Append(u, c) /\ u \in Seq(C) /\ v \in Seq(C)
    <3>1. SlashesGrow(C, w, n, c)
      BY <1>4, SlashesAppend
    <3> QED
      BY <3>1 DEF SlashesGrow
  <2>3. u \in Same(C, p)
    <3>1. CASE r = 0
      <4>1. n = r
        BY <3>1
      <4> QED
        BY <1>2, <4>1
    <3>2. CASE r # 0
      <4>1. r \in Nat \ {0} /\ n \in Nat \ {0}
        BY <3>2
      <4>2. Squeezed(u) = Squeezed(q)
        <5> HIDE DEF n
        <5> QED
          BY <4>1, SqueezedRuns
      <4>3. Has(p, {Backslash})
        <5> SUFFICES ASSUME ~Has(p, {Backslash}) PROVE FALSE
          OBVIOUS
        <5>1. q = p
          BY <1>2 DEF Same
        <5>2. q \in Seq(C) /\ Len(q) = Len(w) + r /\ Len(w) \in Nat
          <6>1. SlashesGrow(C, w, r, c)
            BY SlashesAppend
          <6> QED
            BY <6>1 DEF SlashesGrow
        <5>3. q[Len(w) + r] = Backslash
          <6> DEFINE a == Slashes(r)
          <6>1. a \in Seq(C) /\ Len(a) = r /\ \A i \in 1 .. r : a[i] = Backslash
            BY SlashesAre
          <6>2. a[r] = Backslash
            BY <4>1, <6>1
          <6> HIDE DEF a
          <6>3. (w \o a)[Len(w) + r] = a[r]
            BY <4>1, <5>2, <6>1
          <6> QED
            BY <6>2, <6>3 DEF a
        <5> HIDE DEF q
        <5>4. Len(w) + r \in DOMAIN q
          BY <4>1, <5>2
        <5> QED
          BY <5>1, <5>3, <5>4 DEF Has
      <4>4. Squeezed(q) = Squeezed(p)
        BY <1>2 DEF Same
      <4> QED
        BY <2>2, <4>2, <4>3, <4>4 DEF Same
    <3> QED
      BY <3>1, <3>2
  <2>4. R("quoted", v, ws, 2 * 0) \in Inside(C, Append(p, c), ws)
    <3> HIDE DEF u
    <3>1. v \in Same(C, Append(p, c))
      <4>1. Append(u, c) \in Same(C, Append(p, c))
        BY <2>3, SameAppends
      <4> QED
        BY <2>2, <4>1
    <3> HIDE DEF v
    <3>2. v \o Slashes(0) = v
      BY <2>2, NoSlashes
    <3> QED
      BY <1>4, <2>2, <3>1, <3>2, InsideHas
  <2>5. WindowsCode(c) = <<c>>
    BY <1>10 DEF WindowsCode
  <2> HIDE DEF F, n, q, u, v
  <2>6. Run(F, s, <<c>>) = F[<<s, c>>]
    BY <1>3, <1>r, RunOne
  <2> QED
    BY <1>4, <2>1, <2>4, <2>5, <2>6 DEF F
<1> QED
  BY <1>8, <1>9, <1>10

(* So a text in quotes is read as it was, but for the length of runs.      *)
LEMMA WindowsReadsMarked ==
  ASSUME NEW C, Backslash \in C, Quote \in C, Blank \in C, NEW text \in Seq(C), NEW ws \in Seq(Seq(C))
  PROVE  LET code == Marked(Quote, [i \in DOMAIN text |-> WindowsCode(text[i])])
         IN /\ code \in Seq(C)
            /\ Closes(WindowsOf(C), EndHeld(C), C, Blank, ws, Run(WindowsOf(C), Gap(ws), code), Same(C, text))
<1> DEFINE F == WindowsOf(C)
           n == Len(text)
           codes == [i \in DOMAIN text |-> WindowsCode(text[i])]
           I == [k \in 0 .. n |-> Inside(C, SubSeq(text, 1, k), ws)]
<1>1. n \in Nat /\ DOMAIN text = 1 .. n /\ SubSeq(text, 1, 0) = <<>> /\ SubSeq(text, 1, n) = text
      /\ 0 \in 0 .. n /\ n \in 0 .. n
  OBVIOUS
<1>2. Reader(F, States(C), C)
  BY WindowsOfReader
<1>3. codes \in Seq(Seq(C)) /\ Len(codes) = n
  <2>1. \A i \in DOMAIN text : codes[i] \in Seq(C)
    <3> SUFFICES ASSUME NEW i \in DOMAIN text PROVE codes[i] \in Seq(C)
      OBVIOUS
    <3> DEFINE c == text[i]
    <3>1. codes[i] = WindowsCode(c) /\ c \in C
      OBVIOUS
    <3> HIDE DEF codes, c
    <3> QED
      BY <3>1 DEF WindowsCode
  <2>2. Coded(codes, text, C)
    BY <2>1 DEF Coded
  <2> HIDE DEF codes
  <2> QED
    BY <2>2, CodesType
<1>4. Stages(I, codes, States(C))
  BY <1>3 DEF Stages, Inside
<1>5. F[<<Gap(ws), Quote>>] \in I[0]
  <2> DEFINE e == <<>>
  <2>1. e \in Seq(C) /\ Gap(ws) = R("gap", e, ws, 0) /\ e = <<>> /\ 0 \in Nat /\ 0 % 2 # 1 /\ 0 \div 2 = 0
    BY DEF Gap
  <2>2. e \o Slashes(0) = e
    BY NoSlashes
  <2>e. e \in Seq(C)
    BY <2>1
  <2> HIDE DEF e
  <2>3. "gap" \in Modes /\ Begun("gap") = "word"
    BY DEF Modes, Begun
  <2>4. WindowsStep(R("gap", e, ws, 0), Quote) =
          R(IF Begun("gap") = "quoted" THEN "word" ELSE "quoted", e \o Slashes(0 \div 2), ws, 0)
    <3> DEFINE z == 0
               m == "gap"
               q == Quote
    <3>1. z \in Nat /\ z % 2 # 1 /\ m \in Modes /\ q = Quote /\ q \in C
      BY <2>1, <2>3
    <3> HIDE DEF z, m, q
    <3>2. WindowsStep(R(m, e, ws, z), q) =
            R(IF Begun(m) = "quoted" THEN "word" ELSE "quoted", e \o Slashes(z \div 2), ws, 0)
      BY <2>e, <3>1, WindowsMoves
    <3> QED
      BY <3>2 DEF z, m, q
  <2>5. WindowsStep(Gap(ws), Quote) = R("quoted", e, ws, 2 * 0)
    BY <2>1, <2>2, <2>3, <2>4
  <2>6. F[<<Gap(ws), Quote>>] = R("quoted", e, ws, 2 * 0)
    BY <2>5, GapType, WindowsOfIs
  <2>7. e \o Slashes(0) \in Same(C, e)
    BY <2>1, <2>2 DEF Same
  <2>8. R("quoted", e, ws, 2 * 0) \in Inside(C, e, ws)
    BY <2>1, <2>7, InsideHas
  <2>9. I[0] = Inside(C, e, ws)
    <3>1. I[0] = Inside(C, SubSeq(text, 1, 0), ws)
      BY <1>1
    <3> HIDE DEF I
    <3> QED
      BY <1>1, <2>1, <3>1
  <2> QED
    BY <2>6, <2>8, <2>9
<1>6. Advances(F, codes, I)
  <2> SUFFICES ASSUME NEW k \in 0 .. Len(codes) - 1, NEW x \in I[k] PROVE Run(F, x, codes[k + 1]) \in I[k + 1]
    BY DEF Advances
  <2> DEFINE p == SubSeq(text, 1, k)
             c == text[k + 1]
  <2>1. k \in 0 .. n - 1
    BY <1>3
  <2>2. p \in Seq(C) /\ c \in C /\ SubSeq(text, 1, k + 1) = Append(p, c)
    BY <1>1, <2>1, LongerPrefix
  <2>3. k \in 0 .. n /\ k + 1 \in 0 .. n /\ k + 1 \in DOMAIN text
    BY <1>1, <2>1
  <2>4. x \in Inside(C, p, ws) /\ I[k + 1] = Inside(C, Append(p, c), ws) /\ codes[k + 1] = WindowsCode(c)
    BY <2>2, <2>3
  <2> HIDE DEF p, c, I, F, codes
  <2>5. Run(F, x, WindowsCode(c)) \in Inside(C, Append(p, c), ws)
    BY <2>2, <2>4, InsideStep DEF F
  <2> QED
    BY <2>4, <2>5
<1>7. Marked(Quote, codes) \in Seq(C) /\ EndsIn(F, Gap(ws), Quote, codes, Inside(C, text, ws))
  <2>1. I[n] = Inside(C, text, ws)
    <3>1. I[n] = Inside(C, SubSeq(text, 1, n), ws)
      BY <1>1
    <3> HIDE DEF I
    <3> QED
      BY <1>1, <3>1
  <2>2. Gap(ws) \in States(C)
    BY GapType
  <2> HIDE DEF I, F, codes, n
  <2>3. Marked(Quote, codes) \in Seq(C) /\ EndsIn(F, Gap(ws), Quote, codes, I[Len(codes)])
    BY <1>2, <1>3, <1>4, <1>5, <1>6, <2>2, ReadsMarked
  <2> QED
    BY <1>3, <2>1, <2>3
<1> HIDE DEF codes, I
<1>8. PICK x \in Inside(C, text, ws) : Run(F, Gap(ws), Marked(Quote, codes)) = F[<<x, Quote>>]
  BY <1>7 DEF EndsIn
<1>9. PICK w \in Seq(C), r \in Nat : StandsInside(C, text, ws, x, w, r)
  BY DEF Inside
<1> DEFINE v == w \o Slashes(r)
<1>10. F[<<x, Quote>>] = R("word", v, ws, 0)
  <2> DEFINE m == 2 * r
  <2>1. m \in Nat /\ m % 2 # 1 /\ m \div 2 = r
    OBVIOUS
  <2>2. x = R("quoted", w, ws, m) /\ x \in States(C)
    BY <1>9 DEF StandsInside, Inside
  <2>3. "quoted" \in Modes /\ Begun("quoted") = "quoted"
    BY DEF Modes, Begun
  <2> HIDE DEF m
  <2>4. WindowsStep(R("quoted", w, ws, m), Quote) =
          R(IF Begun("quoted") = "quoted" THEN "word" ELSE "quoted", w \o Slashes(m \div 2), ws, 0)
    BY <2>1, <2>3, WindowsMoves
  <2> QED
    BY <2>1, <2>2, <2>3, <2>4, WindowsOfIs
<1>11. v \in Same(C, text) /\ v \in Seq(C)
  BY <1>9 DEF StandsInside, Same
<1> HIDE DEF v
<1>12. HeldEnds(C, "word", v, ws, 0)
  BY <1>11, EndHeldIs
<1>13. EndHeld(C)[R("word", v, ws, 0)] = Gap(Append(ws, v))
       /\ F[<<R("word", v, ws, 0), Blank>>] = EndHeld(C)[R("word", v, ws, 0)]
  <2>1. v \o Slashes(0) = v
    BY <1>11, NoSlashes
  <2> QED
    BY <1>12, <2>1 DEF HeldEnds
<1>14. Closes(F, EndHeld(C), C, Blank, ws, R("word", v, ws, 0), Same(C, text))
  BY <1>11, <1>13 DEF Closes
<1> QED
  BY <1>7, <1>8, <1>10, <1>14 DEF codes, F

LEMMA ClosesMore ==
  ASSUME NEW F, NEW G, NEW C, NEW sep, NEW ws, NEW s, NEW S, NEW T, S \subseteq T,
         Closes(F, G, C, sep, ws, s, S)
  PROVE  Closes(F, G, C, sep, ws, s, T)
  BY DEF Closes

(* A code is read as its text, but for the length of runs.                 *)
WindowsReads(C, text, code) ==
  \A ws \in Seq(Seq(C)) :
    Closes(WindowsOf(C), EndHeld(C), C, Blank, ws, Run(WindowsOf(C), Gap(ws), code), Same(C, text))

(* Whatever windows_command_line makes of an argument is read so.          *)
LEMMA WindowsReadsQuote ==
  ASSUME NEW C, Backslash \in C, Quote \in C, Blank \in C, NEW text \in Seq(C)
  PROVE  WindowsQuote(text) \in Seq(C) /\ WindowsReads(C, text, WindowsQuote(text))
<1>1. CASE NeedsQuote(text)
  <2>1. WindowsQuote(text) = Marked(Quote, [i \in DOMAIN text |-> WindowsCode(text[i])])
    BY <1>1 DEF WindowsQuote, Between, Mapped, Marked, WindowsCode
  <2> DEFINE code == Marked(Quote, [i \in DOMAIN text |-> WindowsCode(text[i])])
  <2>2. ASSUME NEW ws \in Seq(Seq(C))
        PROVE  code \in Seq(C)
               /\ Closes(WindowsOf(C), EndHeld(C), C, Blank, ws, Run(WindowsOf(C), Gap(ws), code), Same(C, text))
    BY WindowsReadsMarked
  <2> HIDE DEF code
  <2>3. code \in Seq(C)
    <3> DEFINE e == <<>>
    <3>1. e \in Seq(Seq(C))
      OBVIOUS
    <3> HIDE DEF e
    <3> QED
      BY <2>2, <3>1
  <2> QED
    BY <2>1, <2>2, <2>3 DEF WindowsReads, code
<1>2. CASE ~NeedsQuote(text)
  <2>1. WindowsQuote(text) = text
    BY <1>2 DEF WindowsQuote
  <2>2. text # <<>> /\ ~Has(text, {Quote, Blank, Tab})
    BY <1>2 DEF NeedsQuote, Has, Blank, Tab
  <2>3. {text} \subseteq Same(C, text)
    BY DEF Same
  <2>4. ASSUME NEW ws \in Seq(Seq(C))
        PROVE  Closes(WindowsOf(C), EndHeld(C), C, Blank, ws, Run(WindowsOf(C), Gap(ws), text), Same(C, text))
    <3>1. Closes(WindowsOf(C), EndHeld(C), C, Blank, ws, Run(WindowsOf(C), Gap(ws), text), {text})
      BY <2>2, WindowsReadsPlain
    <3> QED
      BY <2>3, <3>1, ClosesMore
  <2> QED
    BY <2>1, <2>4 DEF WindowsReads
<1> QED
  BY <1>1, <1>2

(* windows_quoted_len is the length of what is written.                    *)
LEMMA QuotedLength ==
  ASSUME NEW C, Backslash \in C, Quote \in C, NEW text \in Seq(C)
  PROVE  Len(WindowsQuote(text)) = QuotedLen(text) /\ QuotedLen(text) \in Nat
<1> DEFINE a == [i \in DOMAIN text |-> WindowsCode(text[i])]
           b == [i \in DOMAIN text |->
                  IF text[i] \in {Quote, Backslash} THEN <<text[i], text[i]>> ELSE <<text[i]>>]
<1>1. \A i \in DOMAIN text : a[i] \in Seq(C) /\ b[i] \in Seq(C) /\ Len(a[i]) = Len(b[i])
  <2> SUFFICES ASSUME NEW i \in DOMAIN text PROVE a[i] \in Seq(C) /\ b[i] \in Seq(C) /\ Len(a[i]) = Len(b[i])
    OBVIOUS
  <2> DEFINE c == text[i]
  <2>1. a[i] = WindowsCode(c) /\ c \in C /\ b[i] = IF c \in {Quote, Backslash} THEN <<c, c>> ELSE <<c>>
    OBVIOUS
  <2> HIDE DEF a, b, c
  <2> QED
    BY <2>1 DEF WindowsCode
<1>2. Coded(a, text, C) /\ Coded(b, text, C)
  BY <1>1 DEF Coded
<1>w. Between(Quote, {Quote, Backslash}, Backslash, text) = Marked(Quote, a)
  BY DEF Between, Mapped, Marked, WindowsCode
<1>q. QuotedLen(text) = IF NeedsQuote(text) THEN 2 + Len(FlattenSeq(b)) ELSE Len(text)
  BY DEF QuotedLen, Mapped
<1>d. DOMAIN a = DOMAIN text
  OBVIOUS
<1> HIDE DEF a, b
<1>3. /\ a \in Seq(Seq(C)) /\ Len(a) = Len(text)
      /\ b \in Seq(Seq(C)) /\ Len(b) = Len(text)
  BY <1>2, CodesType
<1>4. Len(FlattenSeq(a)) = Len(FlattenSeq(b))
  BY <1>1, <1>3, <1>d, SameLengths
<1>5. FlattenSeq(a) \in Seq(C)
  BY <1>3, FlattenType
<1> DEFINE f == FlattenSeq(a)
<1>6. Len(Marked(Quote, a)) = 2 + Len(f) /\ Len(f) \in Nat
  <2> DEFINE q == <<Quote>>
  <2>1. q \in Seq(C) /\ Len(q) = 1 /\ f \in Seq(C)
    BY <1>5
  <2> HIDE DEF q, f
  <2>2. q \o f \in Seq(C) /\ Len(q \o f) = 1 + Len(f) /\ Len(f) \in Nat
    BY <2>1, ConcatLen
  <2>3. Len((q \o f) \o q) = (1 + Len(f)) + 1
    BY <2>1, <2>2, ConcatLen
  <2> QED
    BY <2>2, <2>3 DEF Marked, q, f
<1> HIDE DEF f
<1>7. Len(text) \in Nat
  OBVIOUS
<1>8. WindowsQuote(text) = IF NeedsQuote(text) THEN Marked(Quote, a) ELSE text
  BY <1>w DEF WindowsQuote
<1> QED
  BY <1>4, <1>6, <1>7, <1>8, <1>q DEF f

(* The room of the buffer, counted over the arguments.                     *)
RoomOf(C) == [x \in Nat \X Seq(C) |-> RoomStep(x[1], x[2])]

LEMMA ZeroType ==
  ASSUME NEW C
  PROVE  0 \in Nat
  OBVIOUS

(* Its fold is its run.                                                    *)
LEMMA RoomOfReader ==
  ASSUME NEW C, Backslash \in C, Quote \in C
  PROVE  Reader(RoomOf(C), Nat, Seq(C))
<1>1. ASSUME NEW n \in Nat, NEW t \in Seq(C) PROVE RoomStep(n, t) \in Nat
  <2>1. QuotedLen(t) \in Nat
    BY QuotedLength
  <2> QED
    BY <2>1 DEF RoomStep
<1> QED
  BY <1>1 DEF Reader, RoomOf

LEMMA RoomOfRun ==
  ASSUME NEW C, Backslash \in C, Quote \in C, NEW text \in Seq(Seq(C))
  PROVE  FoldLeft(RoomStep, 0, text) = Run(RoomOf(C), 0, text)
<1> DEFINE Eq(h) == h = [T \in SUBSET DOMAIN text |->
                           IF T = {} THEN 0 ELSE RoomStep(h[T \ {Max(T)}], text[Max(T)])]
<1>1. FoldLeft(RoomStep, 0, text) = (CHOOSE h : Eq(h))[DOMAIN text]
  BY DEF FoldLeft, MapThenFoldSet
<1>2. PICK f \in [SUBSET DOMAIN text -> Nat] : Folds(RoomOf(C), 0, text, f)
  BY RoomOfReader, ZeroType, FoldExists
<1>3. ASSUME NEW T \in SUBSET DOMAIN text, T # {}
      PROVE  Max(T) \in DOMAIN text /\ text[Max(T)] \in Seq(C) /\ T \ {Max(T)} \in SUBSET DOMAIN text
  BY <1>3, MaxOfPlaces
<1>4. Eq(f)
  BY <1>2, <1>3 DEF Folds, RoomOf
<1>5. Eq(CHOOSE h : Eq(h))
  BY <1>4
<1> HIDE DEF Eq
<1>6. PICK h : Eq(h) /\ FoldLeft(RoomStep, 0, text) = h[DOMAIN text]
  BY <1>1, <1>5
<1>7. Follows(RoomOf(C), Nat, 0, text, h)
  BY <1>3, <1>6 DEF Eq, RoomOf, Follows
<1>8. h[DOMAIN text] = Run(RoomOf(C), 0, text)
  <2> DEFINE s0 == 0
             F == RoomOf(C)
             D == Seq(C)
             N == Nat
  <2>1. Follows(F, N, s0, text, h) /\ Reader(F, N, D) /\ s0 \in N /\ text \in Seq(D)
    BY <1>7, RoomOfReader, ZeroType
  <2> HIDE DEF s0, F, D, N
  <2>2. h[DOMAIN text] = Run(F, s0, text)
    BY <2>1, FoldIsRun
  <2> QED
    BY <2>2 DEF s0, F
<1> QED
  BY <1>6, <1>8

(* A line of quoted words fits into the memory for it.                     *)
LEMMA LineFits ==
  ASSUME NEW C, Backslash \in C, Quote \in C, Blank \in C, NEW words \in Seq(Seq(C)),
         NEW codes \in Seq(Seq(C)), Len(codes) = Len(words),
         \A i \in DOMAIN words : codes[i] = WindowsQuote(words[i])
  PROVE  Len(FlattenSeq(Separated(Blank, codes))) = FoldLeft(RoomStep, 0, words)
<1> DEFINE F == RoomOf(C)
           n == Len(words)
           z == 0
           b == <<Blank>>
           all == Separated(Blank, codes)
           T == {k \in 0 .. n : Run(F, z, SubSeq(words, 1, k)) = Len(FlattenSeq(SubSeq(all, 1, k)))}
<1>1. n \in Nat /\ DOMAIN words = 1 .. n /\ DOMAIN codes = 1 .. n /\ z \in Nat /\ n \in 0 .. n
      /\ SubSeq(words, 1, 0) = <<>> /\ SubSeq(words, 1, n) = words
  OBVIOUS
<1>b. b \in Seq(C) /\ Len(b) = 1
  OBVIOUS
<1>2. all \in Seq(Seq(C)) /\ Len(all) = n /\ \A i \in 1 .. n : all[i] = b \o codes[i]
  <2>1. all = [k \in DOMAIN codes |-> b \o codes[k]]
    BY DEF Separated
  <2>2. \A k \in DOMAIN codes : codes[k] \in Seq(C)
    OBVIOUS
  <2> HIDE DEF all, b
  <2>3. \A k \in DOMAIN codes : all[k] = b \o codes[k] /\ b \o codes[k] \in Seq(C)
    BY <1>b, <2>1, <2>2, ConcatLen
  <2>4. Coded(all, codes, C)
    BY <2>1, <2>3 DEF Coded
  <2>5. all \in Seq(Seq(C)) /\ Len(all) = Len(codes)
    BY <2>4, CodesType
  <2> QED
    BY <1>1, <2>3, <2>5
<1>r. Reader(F, Nat, Seq(C))
  BY RoomOfReader
<1> HIDE DEF all, b, z, F
<1>s. SubSeq(all, 1, 0) = <<>> /\ SubSeq(all, 1, n) = all
  BY <1>1, <1>2
<1>3. 0 \in T
  <2>1. Run(F, z, <<>>) = z
    BY <1>1, <1>r, RunEmpty
  <2>2. Len(FlattenSeq(<<>>)) = z
    BY FlattenEmpty DEF z
  <2>3. Run(F, z, SubSeq(words, 1, 0)) = z
    BY <1>1, <2>1
  <2>4. Len(FlattenSeq(SubSeq(all, 1, 0))) = z
    BY <1>s, <2>2
  <2>5. 0 \in 0 .. n
    BY <1>1
  <2> QED
    BY <2>3, <2>4, <2>5
<1>4. ASSUME NEW k \in 0 .. n - 1, k \in T PROVE k + 1 \in T
  <2> DEFINE p == SubSeq(words, 1, k)
             w == words[k + 1]
             q == SubSeq(all, 1, k)
             c == codes[k + 1]
             u == all[k + 1]
  <2>1. /\ p \in Seq(Seq(C)) /\ w \in Seq(C) /\ SubSeq(words, 1, k + 1) = Append(p, w)
        /\ q \in Seq(Seq(C)) /\ u \in Seq(C) /\ SubSeq(all, 1, k + 1) = Append(q, u)
    BY <1>1, <1>2, LongerPrefix
  <2>2. k + 1 \in 0 .. n /\ k + 1 \in 1 .. n
    BY <1>1
  <2>3. u = b \o c /\ c \in Seq(C) /\ c = WindowsQuote(w)
    <3>1. u = b \o c
      BY <1>2, <2>2
    <3>2. k + 1 \in DOMAIN words /\ k + 1 \in DOMAIN codes
      BY <1>1, <2>2
    <3>3. c = WindowsQuote(w)
      BY <3>2
    <3>4. c \in Seq(C)
      BY <3>2
    <3> QED
      BY <3>1, <3>3, <3>4
  <2>4. Run(F, z, p) = Len(FlattenSeq(q))
    BY <1>4
  <2> HIDE DEF p, w, q, c, u
  <2>5. Run(F, z, Append(p, w)) = F[<<Run(F, z, p), w>>] /\ Run(F, z, p) \in Nat
    <3>1. Run(F, z, p) \in Nat
      BY <1>1, <1>r, <2>1, RunType
    <3>2. Run(F, z, Append(p, w)) = F[<<Run(F, z, p), w>>]
      <4> DEFINE D == Seq(C)
                 N == Nat
      <4>1. p \in Seq(D) /\ w \in D /\ Reader(F, N, D) /\ z \in N
        BY <1>1, <1>r, <2>1
      <4> HIDE DEF D, N
      <4> QED
        BY <4>1, RunAppend
    <3> QED
      BY <3>1, <3>2
  <2> DEFINE x == Run(F, z, p)
             f == FlattenSeq(q)
  <2>6. F[<<x, w>>] = x + QuotedLen(w) + 1
    <3>1. x \in Nat
      BY <2>5
    <3> HIDE DEF x
    <3> QED
      BY <2>1, <3>1 DEF F, RoomOf, RoomStep
  <2>7. FlattenSeq(Append(q, u)) = f \o u /\ f \in Seq(C)
    BY <2>1, FlattenAppend, FlattenType
  <2> HIDE DEF x, f
  <2>8. Len(f \o u) = Len(f) + Len(u) /\ Len(u) = 1 + Len(c) /\ Len(f) \in Nat /\ Len(c) \in Nat
    BY <1>b, <2>1, <2>3, <2>7, ConcatLen, ZenonT(40)
  <2>9. Len(c) = QuotedLen(w)
    BY <2>1, <2>3, QuotedLength
  <2>10. Run(F, z, Append(p, w)) = Len(FlattenSeq(Append(q, u)))
    <3>1. Run(F, z, Append(p, w)) = F[<<x, w>>] /\ x = Len(f)
      BY <2>4, <2>5 DEF x, f
    <3> QED
      BY <2>6, <2>7, <2>8, <2>9, <3>1
  <2> QED
    BY <2>1, <2>2, <2>10
<1>5. n \in T
  <2> HIDE DEF T
  <2> QED
    BY <1>1, <1>3, <1>4, UpTo
<1>6. FoldLeft(RoomStep, 0, words) = Run(F, z, words)
  BY RoomOfRun DEF F, z
<1> QED
  BY <1>1, <1>5, <1>6, <1>s DEF all

(* A line of words that a reader takes apart.                              *)
LEMMA LineRead ==
  ASSUME NEW C, NEW F, Reader(F, States(C), C), NEW G, Blank \in C, Gaps(F, G, C, Blank),
         NEW codes \in Seq(Seq(C)), codes # <<>>, NEW W,
         ReadsWords(F, G, C, Blank, codes, W), NEW ws0 \in Seq(Seq(C))
  PROVE  Command(codes) \in Seq(C) /\ ReadsTo(F, G, C, Command(codes), W, Len(codes), ws0)
<1> DEFINE all == FlattenSeq(Separated(Blank, codes))
           line == Command(codes)
<1>1. line = Tail(all)
  BY DEF Command, Mapped, Separated, Blank
<1>2. /\ all \in Seq(C) /\ Tail(all) \in Seq(C) /\ all = <<Blank>> \o Tail(all)
      /\ Run(F, Gap(ws0), all) = Run(F, Gap(ws0), Tail(all))
  BY TailReads
<1>3. ReadsTo(F, G, C, all, W, Len(codes), ws0)
  BY WordsRead
<1> HIDE DEF all, line
<1> QED
  BY <1>1, <1>2, <1>3 DEF ReadsTo, line

LEMMA WindowsWordsAre ==
  ASSUME NEW C, Backslash \in C, Quote \in C, NEW text \in Seq(C)
  PROVE  WindowsWords(text) = EndHeld(C)[Run(WindowsOf(C), Reading, text)].words
<1> DEFINE s == Run(WindowsOf(C), Reading, text)
<1>1. s \in States(C)
  BY WindowsOfReader, ReadingType, RunType
<1>2. FoldLeft(WindowsStep, Reading, text) = s
  BY WindowsOfRun
<1> HIDE DEF s
<1> QED
  BY <1>1, <1>2 DEF WindowsWords, EndHeld, s

(* A line of commands is read as many words, each as its code is.          *)
LEMMA WindowsLine ==
  ASSUME NEW C, Backslash \in C, Quote \in C, Blank \in C,
         NEW codes \in Seq(Seq(C)), codes # <<>>, NEW W,
         ReadsWords(WindowsOf(C), EndHeld(C), C, Blank, codes, W)
  PROVE  /\ WindowsWords(Command(codes)) \in Seq(Seq(C)) /\ Command(codes) \in Seq(C)
         /\ Upto(W, WindowsWords(Command(codes)), Len(codes))
<1> DEFINE e == <<>>
           F == WindowsOf(C)
           G == EndHeld(C)
           line == Command(codes)
<1>1. e \in Seq(Seq(C)) /\ \A v \in Seq(Seq(C)) : e \o v = v
  OBVIOUS
<1>2. Reading = Gap(e)
  BY ReadingGap
<1> HIDE DEF e
<1>3. line \in Seq(C) /\ ReadsTo(F, G, C, line, W, Len(codes), e)
  BY <1>1, WindowsOfReader, WindowsGaps, LineRead
<1> HIDE DEF line
<1>4. PICK v \in Seq(Seq(C)) : Upto(W, v, Len(codes)) /\ G[Run(F, Gap(e), line)] = Gap(e \o v)
  BY <1>3 DEF ReadsTo
<1>5. WindowsWords(line) = Gap(v).words
  <2>1. e \o v = v
    BY <1>1
  <2> QED
    BY <1>2, <1>3, <1>4, <2>1, WindowsWordsAre
<1>6. Gap(v).words = v
  BY DEF Gap, R
<1> QED
  BY <1>3, <1>4, <1>5, <1>6 DEF line

(* What a value of the Run key starts.                                     *)
LEMMA RunKeyStarts ==
  ASSUME NEW C, Backslash \in C, Quote \in C, Blank \in C,
         NEW words \in Seq(Seq(C)), words # <<>>, ~Has(words[1], {Quote, Backslash}),
         \A i \in DOMAIN words \ {1} : words[i] # <<>> /\ ~Has(words[i], {Quote, Blank, Tab})
  PROVE  LET line == Command([words EXCEPT ![1] = <<Quote>> \o @ \o <<Quote>>])
         IN WindowsWords(line) = words /\ line \in Seq(C)
<1> DEFINE F == WindowsOf(C)
           G == EndHeld(C)
           p == words[1]
           q == <<Quote>>
           code == q \o p \o q
           codes == [words EXCEPT ![1] = code]
           W == [k \in DOMAIN words |-> {words[k]}]
           n == Len(words)
<1>1. n \in Nat \ {0} /\ DOMAIN words = 1 .. n /\ p \in Seq(C) /\ 1 \in 1 .. n
      /\ \A i \in 1 .. n : words[i] \in Seq(C)
  OBVIOUS
<1>2. code = Marked(Quote, [i \in DOMAIN p |-> WindowsCode(p[i])])
  <2>1. \A i \in DOMAIN p : WindowsCode(p[i]) = <<p[i]>>
    BY DEF Has, WindowsCode
  <2> DEFINE a == [i \in DOMAIN p |-> <<p[i]>>]
             b == [i \in DOMAIN p |-> WindowsCode(p[i])]
  <2>2. a = b
    <3> HIDE DEF p
    <3> QED
      BY <2>1
  <2>3. FlattenSeq(a) = p
    <3> HIDE DEF p
    <3> QED
      BY <1>1, FlattenSingles
  <2> HIDE DEF a, b, p
  <2> QED
    BY <2>2, <2>3 DEF Marked, b
<1>3. ASSUME NEW ws \in Seq(Seq(C))
      PROVE  code \in Seq(C) /\ Closes(F, G, C, Blank, ws, Run(F, Gap(ws), code), {p})
  <2> DEFINE t == Marked(Quote, [i \in DOMAIN p |-> WindowsCode(p[i])])
  <2>1. t \in Seq(C) /\ Closes(F, G, C, Blank, ws, Run(F, Gap(ws), t), Same(C, p))
    <3> HIDE DEF p
    <3> QED
      BY <1>1, WindowsReadsMarked
  <2>2. Same(C, p) \subseteq {p}
    BY DEF Same, Has
  <2> HIDE DEF t, p, code
  <2>3. Closes(F, G, C, Blank, ws, Run(F, Gap(ws), t), {p})
    BY <2>1, <2>2, ClosesMore
  <2> QED
    BY <1>2, <2>1, <2>3 DEF t
<1>4. code \in Seq(C)
  <2> DEFINE e == <<>>
  <2>1. e \in Seq(Seq(C))
    OBVIOUS
  <2> HIDE DEF e, code
  <2> QED
    BY <1>3, <2>1
<1>5. codes \in Seq(Seq(C)) /\ Len(codes) = n /\ codes # <<>>
      /\ \A k \in 1 .. n : codes[k] = IF k = 1 THEN code ELSE words[k]
  <2> HIDE DEF code
  <2>1. codes = [k \in 1 .. n |-> IF k = 1 THEN code ELSE words[k]]
    BY <1>1
  <2>2. \A k \in 1 .. n : codes[k] \in Seq(C) /\ codes[k] = IF k = 1 THEN code ELSE words[k]
    BY <1>1, <1>4, <2>1
  <2>3. Coded(codes, words, C)
    BY <1>1, <2>1, <2>2 DEF Coded
  <2> HIDE DEF codes
  <2>4. codes \in Seq(Seq(C)) /\ Len(codes) = n
    BY <2>3, CodesType
  <2> QED
    BY <1>1, <2>2, <2>4
<1>6. ReadsWords(F, G, C, Blank, codes, W)
  <2> SUFFICES ASSUME NEW k \in DOMAIN codes, NEW ws \in Seq(Seq(C))
               PROVE  Closes(F, G, C, Blank, ws, Run(F, Gap(ws), codes[k]), W[k])
    BY DEF ReadsWords
  <2>1. k \in 1 .. n /\ W[k] = {words[k]} /\ codes[k] = IF k = 1 THEN code ELSE words[k]
    <3>1. k \in 1 .. n
      <4> HIDE DEF codes
      <4> QED
        BY <1>5
    <3> QED
      BY <1>1, <1>5, <3>1
  <2>2. CASE k = 1
    <3>1. Closes(F, G, C, Blank, ws, Run(F, Gap(ws), code), {p})
      BY <1>3
    <3>2. codes[k] = code /\ W[k] = {p}
      BY <2>1, <2>2
    <3> HIDE DEF codes, W, code, p
    <3> QED
      BY <3>1, <3>2
  <2>3. CASE k # 1
    <3> DEFINE t == words[k]
    <3>1. t \in Seq(C) /\ t # <<>> /\ ~Has(t, {Quote, Blank, Tab}) /\ codes[k] = t /\ W[k] = {t}
      BY <1>1, <2>1, <2>3
    <3> HIDE DEF t, codes, W
    <3>2. Closes(F, G, C, Blank, ws, Run(F, Gap(ws), t), {t})
      BY <3>1, WindowsReadsPlain
    <3> QED
      BY <3>1, <3>2
  <2> QED
    BY <2>2, <2>3
<1> DEFINE v == WindowsWords(Command(codes))
<1>7. Upto(W, v, n) /\ v \in Seq(Seq(C)) /\ Command(codes) \in Seq(C)
  <2> HIDE DEF codes, W
  <2> QED
    BY <1>5, <1>6, WindowsLine DEF F, G
<1> HIDE DEF v
<1>8. Len(v) = n /\ \A k \in 1 .. n : v[k] = words[k]
  BY <1>1, <1>7 DEF Upto
<1>9. v = words
  <2> HIDE DEF codes, W, code, p, q
  <2>1. Len(v) = Len(words) /\ \A k \in 1 .. Len(v) : v[k] = words[k]
    BY <1>8
  <2> HIDE DEF n
  <2> QED
    BY <1>7, <2>1, SeqEqual
<1> QED
  BY <1>7, <1>9 DEF v

(* What a service on Windows makes of its line: as many words, and each is *)
(* the same but for runs of backslashes.                                   *)
LEMMA ServiceLine ==
  ASSUME NEW C, Backslash \in C, Quote \in C, Blank \in C, "broken" \notin C,
         NEW words \in Seq(Seq(C)), words # <<>>
  PROVE  /\ Upto([k \in DOMAIN words |-> Same(C, words[k])], WindowsWords(CommandLine(words)), Len(words))
         /\ CommandLine(words) \in Seq(C)
<1> DEFINE F == WindowsOf(C)
           G == EndHeld(C)
           codes == [i \in DOMAIN words |-> WindowsQuote(words[i])]
           W == [k \in DOMAIN words |-> Same(C, words[k])]
           n == Len(words)
           all == FlattenSeq(Separated(Blank, codes))
           line == Command(codes)
<1>1. n \in Nat \ {0} /\ DOMAIN words = 1 .. n /\ \A i \in 1 .. n : words[i] \in Seq(C)
  OBVIOUS
<1>2. \A i \in 1 .. n : codes[i] = WindowsQuote(words[i]) /\ W[i] = Same(C, words[i])
  BY <1>1
<1>3. \A i \in 1 .. n : codes[i] \in Seq(C) /\ WindowsReads(C, words[i], codes[i])
  <2> SUFFICES ASSUME NEW i \in 1 .. n PROVE codes[i] \in Seq(C) /\ WindowsReads(C, words[i], codes[i])
    OBVIOUS
  <2> DEFINE t == words[i]
  <2>1. t \in Seq(C) /\ codes[i] = WindowsQuote(t)
    BY <1>1, <1>2
  <2> HIDE DEF t, codes
  <2>2. WindowsQuote(t) \in Seq(C) /\ WindowsReads(C, t, WindowsQuote(t))
    BY <2>1, WindowsReadsQuote
  <2> QED
    BY <2>1, <2>2 DEF t
<1>4. codes \in Seq(Seq(C)) /\ Len(codes) = n
  <2>1. codes = [i \in DOMAIN words |-> codes[i]]
    OBVIOUS
  <2> HIDE DEF codes
  <2>2. Coded(codes, words, C)
    BY <1>1, <1>3, <2>1 DEF Coded
  <2> QED
    BY <2>2, CodesType
<1>d. CommandLine(words) =
        (IF Len(Tail(all)) + 1 > FoldLeft(RoomStep, 0, words) THEN Broken[1] ELSE Tail(all))
      /\ line = Tail(all)
  <2> DEFINE m == [i \in DOMAIN words |-> <<Blank>> \o WindowsQuote(words[i])]
  <2>1. Separated(Blank, codes) = m
    BY DEF Separated
  <2>2. CommandLine(words) =
        (IF Len(Tail(FlattenSeq(m))) + 1 > FoldLeft(RoomStep, 0, words)
         THEN Broken[1] ELSE Tail(FlattenSeq(m)))
    BY DEF CommandLine, Mapped, Blank
  <2>3. line = Tail(all)
    BY DEF Command, Mapped, Separated, Blank
  <2> HIDE DEF codes, m
  <2> QED
    BY <2>1, <2>2, <2>3
<1> HIDE DEF codes, W
<1>5. codes # <<>> /\ DOMAIN codes = 1 .. n
  BY <1>1, <1>4
<1>6. ReadsWords(F, G, C, Blank, codes, W)
  <2> SUFFICES ASSUME NEW k \in 1 .. n, NEW ws \in Seq(Seq(C))
               PROVE  Closes(F, G, C, Blank, ws, Run(F, Gap(ws), codes[k]), W[k])
    BY <1>5 DEF ReadsWords
  <2>1. WindowsReads(C, words[k], codes[k]) /\ W[k] = Same(C, words[k])
    BY <1>2, <1>3
  <2> QED
    BY <2>1 DEF WindowsReads
<1>7. Upto(W, WindowsWords(line), n) /\ line \in Seq(C)
  <2>1. Upto(W, WindowsWords(Command(codes)), Len(codes)) /\ Command(codes) \in Seq(C)
    BY <1>4, <1>5, <1>6, WindowsLine
  <2> QED
    BY <1>4, <2>1
<1>8. Len(all) = FoldLeft(RoomStep, 0, words)
  <2>1. \A i \in DOMAIN words : codes[i] = WindowsQuote(words[i])
    BY <1>1, <1>2
  <2> QED
    BY <1>1, <1>4, <2>1, LineFits
<1>9. Len(all) = Len(Tail(all)) + 1
  <2> DEFINE e == <<>>
             b == <<Blank>>
  <2>1. e \in Seq(Seq(C)) /\ b \in Seq(C) /\ Len(b) = 1
    OBVIOUS
  <2>2. Reader(F, States(C), C) /\ Gaps(F, G, C, Blank)
    BY WindowsOfReader, WindowsGaps
  <2> HIDE DEF e, F, G
  <2>3. Tail(all) \in Seq(C) /\ all = <<Blank>> \o Tail(all)
    BY <1>4, <1>5, <2>1, <2>2, TailReads
  <2> DEFINE t == Tail(all)
  <2>4. t \in Seq(C) /\ all = b \o t
    BY <2>3
  <2> HIDE DEF b, t, all
  <2>5. Len(b \o t) = Len(b) + Len(t) /\ Len(t) \in Nat
    BY <2>1, <2>4, ConcatLen
  <2> QED
    BY <2>1, <2>4, <2>5 DEF t
<1>10. CommandLine(words) = line
  <2> DEFINE l == Len(Tail(all))
  <2>1. l \in Nat
    <3> DEFINE t == Tail(all)
    <3>1. t \in Seq(C)
      <4>1. Command(codes) \in Seq(C)
        BY <1>4, <1>5, <1>6, WindowsLine
      <4> QED
        <5> HIDE DEF all, line
        <5>1. Command(codes) = Tail(all)
          BY <1>d DEF line
        <5> QED
          BY <4>1, <5>1
    <3> HIDE DEF t
    <3>2. Len(t) \in Nat
      BY <3>1
    <3> QED
      BY <3>2 DEF t
  <2> HIDE DEF all, line
  <2>2. Len(Tail(all)) + 1 > FoldLeft(RoomStep, 0, words) <=> l + 1 > l + 1
    BY <1>8, <1>9
  <2>3. ~(Len(Tail(all)) + 1 > FoldLeft(RoomStep, 0, words))
    <3> HIDE DEF l
    <3> QED
      BY <2>1, <2>2
  <2> HIDE DEF l
  <2> QED
    BY <1>d, <2>3
<1> QED
  BY <1>7, <1>10 DEF W

-----------------------------------------------------------------------------
(* Numbers, and the packets of commands.                                   *)

(* Numbers in decimal.                                                     *)
DecimalOf(f, n) ==
  IF n < 10 THEN <<Digits[n + 1]>> ELSE Append(f[n \div 10], Digits[(n % 10) + 1])

(* A table of the decimals of numbers up to m.                             *)
Partial(f, m) == \A n \in 0 .. m : f[n] = DecimalOf(f, n)

LEMMA Tenth ==
  ASSUME NEW n \in Nat
  PROVE  /\ n \div 10 \in Nat /\ n % 10 \in 0 .. 9 /\ n = 10 * (n \div 10) + (n % 10)
         /\ n >= 10 => n \div 10 < n /\ n \div 10 >= 1
<1> DEFINE q == n \div 10
           r == n % 10
<1>1. q \in Nat /\ r \in 0 .. 9 /\ n = 10 * q + r
  OBVIOUS
<1> HIDE DEF q, r
<1>2. n >= 10 => q < n /\ q >= 1
  BY <1>1
<1> QED
  BY <1>1, <1>2 DEF q, r

(* There are such tables, by induction, they agree, and together they are  *)
(* what Decimal is the choice of.                                          *)
LEMMA PartialExists ==
  ASSUME NEW m \in Nat
  PROVE  \E f : Partial(f, m)
<1> DEFINE T == {k \in 0 .. m : \E f : Partial(f, k)}
<1>1. 0 \in T
  <2> DEFINE f == [n \in {0} |-> <<Digits[n + 1]>>]
  <2>1. \A n \in 0 .. 0 : f[n] = DecimalOf(f, n)
    BY DEF DecimalOf
  <2>2. Partial(f, 0)
    BY <2>1 DEF Partial
  <2> HIDE DEF f
  <2> QED
    BY <2>2
<1>2. ASSUME NEW k \in 0 .. m - 1, k \in T PROVE k + 1 \in T
  <2>1. PICK f : Partial(f, k)
    BY <1>2
  <2> DEFINE j == k + 1
             last == DecimalOf(f, j)
             g == [n \in 0 .. j |-> IF n = j THEN last ELSE f[n]]
  <2>2. j \in Nat /\ j = k + 1 /\ k \in Nat
    OBVIOUS
  <2> HIDE DEF j, last
  <2>3. \A n \in 0 .. k : g[n] = f[n] /\ n \in 0 .. j
    BY <2>2
  <2>4. g[j] = last
    BY <2>2
  <2> HIDE DEF g
  <2>5. ASSUME NEW n \in 0 .. j PROVE DecimalOf(f, n) = DecimalOf(g, n)
    <3>1. n \in Nat /\ n <= k + 1
      BY <2>2
    <3>2. n >= 10 => n \div 10 \in 0 .. k
      BY <3>1, <2>2, Tenth
    <3>3. n >= 10 => f[n \div 10] = g[n \div 10]
      BY <2>3, <3>2
    <3>4. CASE n < 10
      BY <3>4 DEF DecimalOf
    <3>5. CASE n >= 10
      BY <3>1, <3>3, <3>5 DEF DecimalOf
    <3> QED
      BY <3>1, <3>4, <3>5
  <2>6. ASSUME NEW n \in 0 .. j PROVE g[n] = DecimalOf(g, n)
    <3>1. DecimalOf(f, n) = DecimalOf(g, n)
      BY <2>5
    <3>2. CASE n = j
      BY <2>4, <3>1, <3>2 DEF last
    <3>3. CASE n # j
      <4>1. n \in 0 .. k
        BY <2>2, <3>3
      <4>2. f[n] = DecimalOf(f, n)
        BY <2>1, <4>1 DEF Partial
      <4> QED
        BY <2>3, <3>1, <4>1, <4>2
    <3> QED
      BY <3>2, <3>3
  <2>7. Partial(g, j)
    BY <2>6 DEF Partial
  <2> QED
    BY <2>7 DEF j
<1>3. m \in T
  <2> HIDE DEF T
  <2> QED
    BY <1>1, <1>2, UpTo
<1> QED
  BY <1>3

LEMMA PartialAgree ==
  ASSUME NEW m \in Nat, NEW k \in Nat, NEW f, Partial(f, m), NEW g, Partial(g, k),
         NEW n \in Nat, n <= m, n <= k
  PROVE  f[n] = g[n]
<1> DEFINE T == {i \in 0 .. n : f[i] # g[i]}
<1>1. ASSUME T # {} PROVE FALSE
  <2>1. T \in SUBSET Nat
    OBVIOUS
  <2>2. PICK i \in T : \A j \in T : i <= j
    <3> HIDE DEF T
    <3> QED
      BY <1>1, <2>1, SmallestOf
  <2>3. i \in Nat /\ i \in 0 .. m /\ i \in 0 .. k /\ i <= n /\ f[i] # g[i]
    OBVIOUS
  <2>4. f[i] = DecimalOf(f, i) /\ g[i] = DecimalOf(g, i)
    BY <2>3 DEF Partial
  <2>5. i >= 10 => f[i \div 10] = g[i \div 10]
    <3> SUFFICES ASSUME i >= 10 PROVE f[i \div 10] = g[i \div 10]
      OBVIOUS
    <3> DEFINE j == i \div 10
    <3>1. j \in Nat /\ j < i
      BY <2>3, Tenth
    <3> HIDE DEF j
    <3>2. j \in 0 .. n
      BY <2>3, <3>1
    <3>3. j \notin T
      BY <2>2, <2>3, <3>1
    <3>4. f[j] = g[j]
      BY <3>2, <3>3
    <3> QED
      BY <3>4 DEF j
  <2> QED
    BY <2>3, <2>4, <2>5 DEF DecimalOf
<1> QED
  BY <1>1

(* What the recursive definition of Decimal says.                          *)
IsDecimal(f) == f = [n \in Nat |-> DecimalOf(f, n)]

LEMMA DecimalExists == \E f : IsDecimal(f)
<1> DEFINE known(n) == CHOOSE f : Partial(f, n)
           F == [n \in Nat |-> known(n)[n]]
<1>1. \A n \in Nat : Partial(known(n), n)
  <2> SUFFICES ASSUME NEW n \in Nat PROVE Partial(known(n), n)
    OBVIOUS
  <2>1. \E f : Partial(f, n)
    BY PartialExists
  <2> QED
    BY <2>1, Zenon
<1> HIDE DEF known
<1>2. ASSUME NEW n \in Nat PROVE F[n] = DecimalOf(F, n)
  <2> DEFINE f == known(n)
  <2>1. Partial(f, n) /\ F[n] = f[n]
    BY <1>1
  <2>2. f[n] = DecimalOf(f, n)
    BY <2>1 DEF Partial
  <2>3. n >= 10 => f[n \div 10] = F[n \div 10]
    <3> SUFFICES ASSUME n >= 10 PROVE f[n \div 10] = F[n \div 10]
      OBVIOUS
    <3> DEFINE j == n \div 10
               g == known(j)
    <3>1. j \in Nat /\ j < n
      BY Tenth
    <3>2. Partial(g, j) /\ F[j] = g[j]
      BY <1>1, <3>1
    <3>3. f[j] = g[j]
      <4> HIDE DEF f, g, j, F
      <4> QED
        BY <2>1, <3>1, <3>2, PartialAgree
    <3> QED
      BY <3>2, <3>3
  <2> HIDE DEF F, f
  <2> QED
    BY <2>1, <2>2, <2>3 DEF DecimalOf
<1>3. F = [n \in Nat |-> F[n]]
  OBVIOUS
<1> HIDE DEF F
<1>4. IsDecimal(F)
  BY <1>2, <1>3 DEF IsDecimal
<1> QED
  BY <1>4

(* So Decimal is what its definition says.                                 *)
LEMMA DecimalIs ==
  ASSUME NEW n \in Nat
  PROVE  Decimal[n] = DecimalOf(Decimal, n)
<1>1. Decimal = CHOOSE f : IsDecimal(f)
  BY DEF Decimal, IsDecimal, DecimalOf
<1>2. IsDecimal(Decimal)
  BY <1>1, DecimalExists, Zenon
<1> HIDE DEF Decimal
<1> QED
  BY <1>2 DEF IsDecimal

(* A digit stands for its number.                                          *)
LEMMA DigitIs ==
  ASSUME NEW k \in 0 .. 9
  PROVE  IsDigit(Digits[k + 1]) /\ Digit(Digits[k + 1]) = k
<1>1. DOMAIN Digits = 1 .. 10
  BY DEF Digits
<1>2. \A i, j \in 1 .. 10 : Digits[i] = Digits[j] => i = j
  BY DEF Digits
<1>3. k + 1 \in 1 .. 10
  OBVIOUS
<1> DEFINE c == Digits[k + 1]
<1>4. \A d : d \in DOMAIN Digits /\ Digits[d] = c <=> d = k + 1
  BY <1>1, <1>2, <1>3
<1>5. (CHOOSE d \in DOMAIN Digits : Digits[d] = c) = k + 1
  <2> HIDE DEF c
  <2> QED
    BY <1>4
<1>6. IsDigit(c)
  BY <1>1, <1>3 DEF IsDigit
<1>7. Digit(c) = (k + 1) - 1
  <2> HIDE DEF c
  <2> QED
    BY <1>5 DEF Digit
<1> QED
  BY <1>6, <1>7

LEMMA DigitRange ==
  ASSUME NEW c, IsDigit(c)
  PROVE  Digit(c) \in 0 .. 9 /\ c # NL
<1>1. DOMAIN Digits = 1 .. 10
  BY DEF Digits
<1>2. (CHOOSE d \in DOMAIN Digits : Digits[d] = c) \in DOMAIN Digits
  BY DEF IsDigit
<1>3. \A d \in 1 .. 10 : Digits[d] # NL
  BY DEF Digits, NL
<1> QED
  BY <1>1, <1>2, <1>3 DEF Digit, IsDigit

(* An alphabet with digits.                                                *)
DigitsIn(C) == \A i \in 1 .. 10 : Digits[i] \in C

(* A reader that counts: after the digits of n it is in state g[n].        *)
Counts(F, s0, g) ==
  /\ \A d \in 0 .. 9 : F[<<s0, Digits[d + 1]>>] = g[d]
  /\ \A n \in Nat, d \in 0 .. 9 : n >= 1 => F[<<g[n], Digits[d + 1]>>] = g[10 * n + d]

(* A reader that counts as the digits do reads a decimal as its number:    *)
(* induction over the number, by tens.                                     *)
LEMMA DecimalRead ==
  ASSUME NEW St, NEW C, NEW F, Reader(F, St, C), DigitsIn(C), NEW s0 \in St,
         NEW g, Counts(F, s0, g), NEW n \in Nat
  PROVE  Decimal[n] \in Seq(C) /\ Run(F, s0, Decimal[n]) = g[n]
<1> DEFINE T == {i \in Nat : ~(Decimal[i] \in Seq(C) /\ Run(F, s0, Decimal[i]) = g[i])}
<1>1. ASSUME T # {} PROVE FALSE
  <2>1. T \in SUBSET Nat
    OBVIOUS
  <2>2. PICK i \in T : \A j \in T : i <= j
    <3> HIDE DEF T
    <3> QED
      BY <1>1, <2>1, SmallestOf
  <2>3. i \in Nat /\ ~(Decimal[i] \in Seq(C) /\ Run(F, s0, Decimal[i]) = g[i])
    OBVIOUS
  <2>4. Decimal[i] = DecimalOf(Decimal, i)
    BY <2>3, DecimalIs
  <2>5. CASE i < 10
    <3> DEFINE c == Digits[i + 1]
    <3>1. i \in 0 .. 9 /\ i + 1 \in 1 .. 10
      BY <2>3, <2>5
    <3>2. c \in C /\ F[<<s0, c>>] = g[i]
      BY <3>1 DEF DigitsIn, Counts
    <3>3. Decimal[i] = <<c>>
      BY <2>4, <2>5 DEF DecimalOf
    <3> HIDE DEF c
    <3>4. Run(F, s0, <<c>>) = F[<<s0, c>>] /\ <<c>> \in Seq(C)
      BY <3>2, RunOne
    <3> QED
      BY <2>3, <3>2, <3>3, <3>4
  <2>6. CASE i >= 10
    <3> DEFINE j == i \div 10
               d == i % 10
               c == Digits[d + 1]
               t == Decimal[j]
    <3>1. j \in Nat /\ d \in 0 .. 9 /\ i = 10 * j + d /\ j < i /\ j >= 1
      BY <2>3, <2>6, Tenth
    <3>2. Decimal[i] = Append(t, c)
      BY <2>4, <2>6 DEF DecimalOf
    <3> HIDE DEF j, d
    <3>3. d + 1 \in 1 .. 10
      BY <3>1
    <3>4. c \in C /\ F[<<g[j], c>>] = g[i]
      BY <3>1, <3>3 DEF DigitsIn, Counts
    <3>5. t \in Seq(C) /\ Run(F, s0, t) = g[j]
      <4>1. j \notin T
        BY <2>2, <2>3, <3>1
      <4> QED
        BY <3>1, <4>1
    <3> HIDE DEF c, t
    <3>6. Run(F, s0, Append(t, c)) = F[<<Run(F, s0, t), c>>] /\ Append(t, c) \in Seq(C)
      BY <3>4, <3>5, RunAppend
    <3> QED
      BY <2>3, <3>2, <3>4, <3>5, <3>6
  <2> QED
    BY <2>3, <2>5, <2>6
<1> QED
  BY <1>1

(* A host reads back the number whose digits it is given.                  *)
DigitsOf(C) == [x \in Int \X C |-> DigitStep(x[1], x[2])]

LEMMA ZeroInt ==
  ASSUME NEW C
  PROVE  0 \in Int
  OBVIOUS

(* The reader of numbers.                                                  *)
LEMMA DigitsOfReader ==
  ASSUME NEW C
  PROVE  Reader(DigitsOf(C), Int, C)
<1>1. ASSUME NEW n \in Int, NEW c \in C PROVE DigitStep(n, c) \in Int
  <2>1. IsDigit(c) => Digit(c) \in 0 .. 9
    BY DigitRange
  <2> QED
    BY <2>1 DEF DigitStep
<1> QED
  BY <1>1 DEF Reader, DigitsOf

LEMMA DigitsOfRun ==
  ASSUME NEW C, NEW text \in Seq(C)
  PROVE  FoldLeft(DigitStep, 0, text) = Run(DigitsOf(C), 0, text)
<1> DEFINE Eq(h) == h = [T \in SUBSET DOMAIN text |->
                           IF T = {} THEN 0 ELSE DigitStep(h[T \ {Max(T)}], text[Max(T)])]
<1>1. FoldLeft(DigitStep, 0, text) = (CHOOSE h : Eq(h))[DOMAIN text]
  BY DEF FoldLeft, MapThenFoldSet
<1>2. PICK f \in [SUBSET DOMAIN text -> Int] : Folds(DigitsOf(C), 0, text, f)
  BY DigitsOfReader, ZeroInt, FoldExists
<1>3. ASSUME NEW T \in SUBSET DOMAIN text, T # {}
      PROVE  Max(T) \in DOMAIN text /\ text[Max(T)] \in C /\ T \ {Max(T)} \in SUBSET DOMAIN text
  BY <1>3, MaxOfPlaces
<1>4. Eq(f)
  BY <1>2, <1>3 DEF Folds, DigitsOf
<1>5. Eq(CHOOSE h : Eq(h))
  BY <1>4
<1> HIDE DEF Eq
<1>6. PICK h : Eq(h) /\ FoldLeft(DigitStep, 0, text) = h[DOMAIN text]
  BY <1>1, <1>5
<1>7. Follows(DigitsOf(C), Int, 0, text, h)
  BY <1>3, <1>6 DEF Eq, DigitsOf, Follows
<1>8. h[DOMAIN text] = Run(DigitsOf(C), 0, text)
  <2> DEFINE s0 == 0
             F == DigitsOf(C)
             D == C
             N == Int
  <2>1. Follows(F, N, s0, text, h) /\ Reader(F, N, D) /\ s0 \in N /\ text \in Seq(D)
    BY <1>7, DigitsOfReader, ZeroInt
  <2> HIDE DEF s0, F, D, N
  <2>2. h[DOMAIN text] = Run(F, s0, text)
    BY <2>1, FoldIsRun
  <2> QED
    BY <2>2 DEF s0, F
<1> QED
  BY <1>6, <1>8

(* The digits.                                                             *)
Figures == {Digits[d] : d \in 1 .. 10}

(* The number of a decimal is the number it was made of.                   *)
LEMMA NumberReads ==
  ASSUME NEW n \in Nat
  PROVE  Decimal[n] \in Seq(Figures) /\ Number(Decimal[n]) = n
<1> DEFINE C == Figures
           F == DigitsOf(C)
           g == [i \in Nat |-> i]
           N == Int
           z == 0
<1>1. DigitsIn(C)
  BY DEF DigitsIn, Figures
<1> HIDE DEF C
<1>2. ASSUME NEW m \in Nat, NEW d \in 0 .. 9 PROVE F[<<m, Digits[d + 1]>>] = 10 * m + d
  <2>1. Digits[d + 1] \in C
    <3>1. d + 1 \in 1 .. 10
      OBVIOUS
    <3> QED
      BY <1>1, <3>1 DEF DigitsIn
  <2>2. DigitStep(m, Digits[d + 1]) = 10 * m + d
    BY DigitIs DEF DigitStep
  <2>3. F[<<m, Digits[d + 1]>>] = DigitStep(m, Digits[d + 1])
    BY <2>1 DEF DigitsOf
  <2> QED
    BY <2>2, <2>3
<1>3. Counts(F, z, g)
  <2>1. \A d \in 0 .. 9 : F[<<z, Digits[d + 1]>>] = g[d]
    <3> SUFFICES ASSUME NEW d \in 0 .. 9 PROVE F[<<z, Digits[d + 1]>>] = g[d]
      OBVIOUS
    <3>1. F[<<0, Digits[d + 1]>>] = 10 * 0 + d
      <4> HIDE DEF F
      <4> QED
        BY <1>2
    <3> HIDE DEF F
    <3> QED
      BY <3>1
  <2>2. \A m \in Nat, d \in 0 .. 9 : m >= 1 => F[<<g[m], Digits[d + 1]>>] = g[10 * m + d]
    <3> SUFFICES ASSUME NEW m \in Nat, NEW d \in 0 .. 9 PROVE F[<<g[m], Digits[d + 1]>>] = g[10 * m + d]
      OBVIOUS
    <3>1. 10 * m + d \in Nat
      OBVIOUS
    <3>2. g[m] = m /\ g[10 * m + d] = 10 * m + d
      BY <3>1
    <3> HIDE DEF F, g
    <3> QED
      BY <1>2, <3>2
  <2> HIDE DEF F, g, z
  <2> QED
    BY <2>1, <2>2 DEF Counts
<1>4. Reader(F, N, C) /\ z \in N
  BY DigitsOfReader
<1>5. Decimal[n] \in Seq(C) /\ Run(F, z, Decimal[n]) = g[n]
  <2> HIDE DEF F, N, z, g
  <2> QED
    BY <1>1, <1>3, <1>4, DecimalRead
<1>6. FoldLeft(DigitStep, 0, Decimal[n]) = Run(F, z, Decimal[n])
  BY <1>5, DigitsOfRun
<1> QED
  BY <1>5, <1>6 DEF Number, C

(* The packet of a service's command.                                      *)
LEMMA HeldTo ==
  ASSUME NEW m, NEW w, NEW ws, NEW n, NEW k
  PROVE  [R(m, w, ws, n) EXCEPT !.held = k] = R(m, w, ws, k)
<1> DEFINE s == R(m, w, ws, n)
           x == [s EXCEPT !.held = k]
<1>1. DOMAIN s = {"mode", "word", "words", "held"} /\ s = [f \in DOMAIN s |-> s[f]]
      /\ s.word = w /\ s.words = ws /\ s.held = n /\ s.mode = m
  BY DEF R
<1>2. x = [f \in DOMAIN s |-> IF f = "held" THEN k ELSE s[f]]
  BY <1>1
<1> HIDE DEF s, x
<1>3. x = [mode |-> m, word |-> w, words |-> ws, held |-> k]
  BY <1>1, <1>2
<1> QED
  BY <1>3 DEF R, s, x

LEMMA ParseMoves ==
  ASSUME NEW C, NEW m \in Modes, NEW w \in Seq(C), NEW ws \in Seq(Seq(C)), NEW h \in Nat, NEW c \in C
  PROVE  ParseStep(R(m, w, ws, h), c) =
           IF m = "body" THEN (IF h > 1 THEN R("body", Append(w, c), ws, h - 1)
                               ELSE Gap(Append(ws, Append(w, c))))
           ELSE IF m \in {"gap", "length"} /\ IsDigit(c) THEN R("length", w, ws, 10 * h + Digit(c))
           ELSE IF m = "length" /\ c = NL THEN (IF h = 0 THEN Gap(Append(ws, w)) ELSE R("body", w, ws, h))
           ELSE R("broken", w, ws, h)
<1> DEFINE s == R(m, w, ws, h)
           a == Append(w, c)
           p == R("body", a, ws, h)
           d == Digit(c)
           k == 10 * h + d
           x1 == [Put(s, c, "body") EXCEPT !.held = @ - 1]
           x2 == Cut([Put(s, c, "body") EXCEPT !.held = 0])
           x3 == [In(s, "length") EXCEPT !.held = 10 * @ + d]
           q == R("length", w, ws, h)
           x4 == Cut(s)
<1>1. s.mode = m /\ s.held = h /\ p.held = h /\ q.held = h
  BY DEF R
<1>2. Put(s, c, "body") = p
  BY PutIs
<1> HIDE DEF a
<1>3. x1 = R("body", a, ws, h - 1)
  <2> DEFINE j == h - 1
  <2>1. [p EXCEPT !.held = p.held - 1] = [p EXCEPT !.held = j]
    BY <1>1
  <2> HIDE DEF j
  <2>2. [p EXCEPT !.held = j] = R("body", a, ws, j)
    BY HeldTo
  <2>3. x1 = [p EXCEPT !.held = p.held - 1]
    <3> HIDE DEF p, s
    <3> QED
      BY <1>2
  <2> QED
    BY <2>1, <2>2, <2>3 DEF j
<1>4. x2 = Gap(Append(ws, a))
  <2>1. [p EXCEPT !.held = 0] = R("body", a, ws, 0)
    BY HeldTo
  <2>2. Cut(R("body", a, ws, 0)) = R("gap", <<>>, Append(ws, a), 0)
    BY CutIs
  <2>3. x2 = Cut([p EXCEPT !.held = 0])
    <3> HIDE DEF p, s
    <3> QED
      BY <1>2
  <2> HIDE DEF p, x2
  <2> QED
    BY <2>1, <2>2, <2>3 DEF Gap
<1>5. x3 = R("length", w, ws, k)
  <2>1. In(s, "length") = q
    BY InIs
  <2>2. x3 = [q EXCEPT !.held = k]
    <3> HIDE DEF d, s, q
    <3> QED
      BY <1>1, <2>1
  <2> HIDE DEF k
  <2>3. [q EXCEPT !.held = k] = R("length", w, ws, k)
    BY HeldTo
  <2> HIDE DEF q, x3
  <2> QED
    BY <2>2, <2>3
<1>6. h = 0 /\ m = "length" => x4 = Gap(Append(ws, w))
  <2> SUFFICES ASSUME h = 0, m = "length" PROVE x4 = Gap(Append(ws, w))
    OBVIOUS
  <2>1. Cut(R(m, w, ws, h)) = R("gap", <<>>, Append(ws, w), h)
    BY CutIs
  <2> QED
    BY <2>1 DEF Gap
<1>7. In(s, "body") = R("body", w, ws, h) /\ In(s, "broken") = R("broken", w, ws, h)
  BY InIs
<1> HIDE DEF s
<1>8. ParseStep(s, c) =
        IF m = "body" THEN (IF h > 1 THEN x1 ELSE x2)
        ELSE IF m \in {"gap", "length"} /\ IsDigit(c) THEN x3
        ELSE IF m = "length" /\ c = NL THEN (IF h = 0 THEN x4 ELSE In(s, "body"))
        ELSE In(s, "broken")
  <2>1. m \notin {"body", "gap", "length"} => ParseStep(s, c) = In(s, "broken")
    BY <1>1 DEF ParseStep
  <2>2. m = "body" => ParseStep(s, c) = IF h > 1 THEN x1 ELSE x2
    <3> SUFFICES ASSUME m = "body" PROVE ParseStep(s, c) = IF h > 1 THEN x1 ELSE x2
      OBVIOUS
    <3>1. s.mode = "body" /\ s.held = h
      BY <1>1
    <3> QED
      BY <3>1 DEF ParseStep
  <2>3. m = "gap" => ParseStep(s, c) = IF IsDigit(c) THEN x3 ELSE In(s, "broken")
    <3> SUFFICES ASSUME m = "gap" PROVE ParseStep(s, c) = IF IsDigit(c) THEN x3 ELSE In(s, "broken")
      OBVIOUS
    <3>1. s.mode = "gap"
      BY <1>1
    <3> QED
      BY <3>1 DEF ParseStep
  <2>4. m = "length" => ParseStep(s, c) = IF IsDigit(c) THEN x3
                                          ELSE IF c = NL THEN (IF h = 0 THEN x4 ELSE In(s, "body"))
                                          ELSE In(s, "broken")
    <3> SUFFICES ASSUME m = "length"
                 PROVE ParseStep(s, c) = IF IsDigit(c) THEN x3
                                         ELSE IF c = NL THEN (IF h = 0 THEN x4 ELSE In(s, "body"))
                                         ELSE In(s, "broken")
      OBVIOUS
    <3>1. s.mode = "length" /\ s.held = h
      BY <1>1
    <3>2. IsDigit(c) => ParseStep(s, c) = x3
      <4>1. IsDigit(c) => c # NL
        BY DigitRange
      <4> QED
        BY <3>1, <4>1 DEF ParseStep
    <3>3. ~IsDigit(c) => ParseStep(s, c) = IF c = NL THEN (IF h = 0 THEN x4 ELSE In(s, "body"))
                                           ELSE In(s, "broken")
      BY <3>1 DEF ParseStep
    <3> HIDE DEF x3, x4
    <3> QED
      BY <3>2, <3>3
  <2> HIDE DEF x1, x2, x3, x4
  <2> QED
    BY <2>1, <2>2, <2>3, <2>4
<1> HIDE DEF x1, x2, x3, x4, p, k
<1> QED
  BY <1>3, <1>4, <1>5, <1>6, <1>7, <1>8 DEF s, a, k, d

(* The reader of parse_command_packet.                                     *)
ParseOf(C) == [x \in States(C) \X C |-> ParseStep(x[1], x[2])]

(* It keeps to the states, and its fold is its run.                        *)
LEMMA ParseOfReader ==
  ASSUME NEW C
  PROVE  Reader(ParseOf(C), States(C), C)
<1>1. ASSUME NEW s \in States(C), NEW c \in C PROVE ParseStep(s, c) \in States(C)
  <2> DEFINE m == s.mode
             w == s.word
             ws == s.words
             h == s.held
             a == Append(w, c)
  <2>1. s = R(m, w, ws, h) /\ m \in Modes /\ w \in Seq(C) /\ ws \in Seq(Seq(C)) /\ h \in Nat
    BY StateIs
  <2> HIDE DEF m, w, ws, h
  <2>2. a \in Seq(C)
    BY <2>1
  <2> HIDE DEF a
  <2>3. Append(ws, a) \in Seq(Seq(C)) /\ Append(ws, w) \in Seq(Seq(C))
    BY <2>1, <2>2
  <2>4. h > 1 => h - 1 \in Nat
    BY <2>1
  <2>5. IsDigit(c) => 10 * h + Digit(c) \in Nat
    <3> DEFINE d == Digit(c)
    <3>1. IsDigit(c) => d \in 0 .. 9
      BY DigitRange
    <3> HIDE DEF d
    <3>2. d \in 0 .. 9 => 10 * h + d \in Nat
      BY <2>1
    <3> QED
      BY <3>1, <3>2 DEF d
  <2>6. {"body", "length", "broken"} \subseteq Modes
    BY DEF Modes
  <2>7. ParseStep(s, c) =
          IF m = "body" THEN (IF h > 1 THEN R("body", a, ws, h - 1) ELSE Gap(Append(ws, a)))
          ELSE IF m \in {"gap", "length"} /\ IsDigit(c) THEN R("length", w, ws, 10 * h + Digit(c))
          ELSE IF m = "length" /\ c = NL THEN (IF h = 0 THEN Gap(Append(ws, w)) ELSE R("body", w, ws, h))
          ELSE R("broken", w, ws, h)
    BY <2>1, ParseMoves DEF a
  <2>8. Gap(Append(ws, a)) \in States(C) /\ Gap(Append(ws, w)) \in States(C)
    BY <2>3, GapType
  <2>9. h > 1 => R("body", a, ws, h - 1) \in States(C)
    BY <2>1, <2>2, <2>4, <2>6, StateType
  <2>10. IsDigit(c) => R("length", w, ws, 10 * h + Digit(c)) \in States(C)
    <3> DEFINE k == 10 * h + Digit(c)
    <3> HIDE DEF k
    <3> QED
      BY <2>1, <2>5, <2>6, StateType DEF k
  <2>11. R("body", w, ws, h) \in States(C) /\ R("broken", w, ws, h) \in States(C)
    BY <2>1, <2>6, StateType
  <2> QED
    BY <2>7, <2>8, <2>9, <2>10, <2>11
<1> QED
  BY <1>1 DEF Reader, ParseOf

LEMMA ParseOfRun ==
  ASSUME NEW C, NEW text \in Seq(C)
  PROVE  FoldLeft(ParseStep, Reading, text) = Run(ParseOf(C), Reading, text)
<1> DEFINE Eq(h) == h = [T \in SUBSET DOMAIN text |->
                           IF T = {} THEN Reading ELSE ParseStep(h[T \ {Max(T)}], text[Max(T)])]
<1>1. FoldLeft(ParseStep, Reading, text) = (CHOOSE h : Eq(h))[DOMAIN text]
  BY DEF FoldLeft, MapThenFoldSet
<1>2. PICK f \in [SUBSET DOMAIN text -> States(C)] : Folds(ParseOf(C), Reading, text, f)
  BY ParseOfReader, ReadingType, FoldExists
<1>3. ASSUME NEW T \in SUBSET DOMAIN text, T # {}
      PROVE  Max(T) \in DOMAIN text /\ text[Max(T)] \in C /\ T \ {Max(T)} \in SUBSET DOMAIN text
  BY <1>3, MaxOfPlaces
<1>4. Eq(f)
  BY <1>2, <1>3 DEF Folds, ParseOf
<1>5. Eq(CHOOSE h : Eq(h))
  BY <1>4
<1> HIDE DEF Eq
<1>6. PICK h : Eq(h) /\ FoldLeft(ParseStep, Reading, text) = h[DOMAIN text]
  BY <1>1, <1>5
<1>7. Follows(ParseOf(C), States(C), Reading, text, h)
  BY <1>3, <1>6 DEF Eq, ParseOf, Follows
<1>8. h[DOMAIN text] = Run(ParseOf(C), Reading, text)
  <2> DEFINE s0 == Reading
             F == ParseOf(C)
             D == C
             N == States(C)
  <2>1. Follows(F, N, s0, text, h) /\ Reader(F, N, D) /\ s0 \in N /\ text \in Seq(D)
    BY <1>7, ParseOfReader, ReadingType
  <2> HIDE DEF s0, F, D, N
  <2>2. h[DOMAIN text] = Run(F, s0, text)
    BY <2>1, FoldIsRun
  <2> QED
    BY <2>2 DEF s0, F
<1> QED
  BY <1>6, <1>8

LEMMA ParseOfIs ==
  ASSUME NEW C, NEW s \in States(C), NEW c \in C
  PROVE  ParseOf(C)[<<s, c>>] = ParseStep(s, c)
  BY DEF ParseOf

(* Where the length of a part is read.                                     *)
Measured == {"gap", "length"}

(* One digit of a length.                                                  *)
LengthStep(C, e, ws, m, h, d) ==
  ParseOf(C)[<<R(m, e, ws, h), Digits[d + 1]>>] = R("length", e, ws, 10 * h + d)

LEMMA LengthSteps ==
  ASSUME NEW C, DigitsIn(C), NEW ws \in Seq(Seq(C)), NEW e \in Seq(C), NEW m \in Measured,
         NEW h \in Nat, NEW d \in 0 .. 9
  PROVE  LengthStep(C, e, ws, m, h, d)
<1> DEFINE c == Digits[d + 1]
           s == R(m, e, ws, h)
           F == ParseOf(C)
<1>1. d + 1 \in 1 .. 10
  OBVIOUS
<1>2. c \in C
  BY <1>1 DEF DigitsIn
<1>3. IsDigit(c) /\ Digit(c) = d
  BY DigitIs
<1> HIDE DEF c
<1>4. m \in Modes
  BY DEF Modes, Measured
<1>5. ParseStep(s, c) =
        IF m = "body" THEN (IF h > 1 THEN R("body", Append(e, c), ws, h - 1)
                            ELSE Gap(Append(ws, Append(e, c))))
        ELSE IF m \in {"gap", "length"} /\ IsDigit(c) THEN R("length", e, ws, 10 * h + Digit(c))
        ELSE IF m = "length" /\ c = NL THEN (IF h = 0 THEN Gap(Append(ws, e)) ELSE R("body", e, ws, h))
        ELSE R("broken", e, ws, h)
  BY <1>2, <1>4, ParseMoves
<1>6. s \in States(C)
  BY <1>4, StateType
<1> HIDE DEF s
<1>7. F[<<s, c>>] = ParseStep(s, c)
  BY <1>2, <1>6, ParseOfIs
<1> HIDE DEF F
<1> QED
  BY <1>3, <1>5, <1>7 DEF c, s, F, Measured, LengthStep

(* The length is read as a number, then as many characters as that,        *)
(* whatever they are: also digits and line breaks.                         *)
LEMMA LengthRead ==
  ASSUME NEW C, DigitsIn(C), NEW ws \in Seq(Seq(C)), NEW n \in Nat
  PROVE  Decimal[n] \in Seq(C) /\ Run(ParseOf(C), Gap(ws), Decimal[n]) = R("length", <<>>, ws, n)
<1> DEFINE e == <<>>
           St == States(C)
           F == ParseOf(C)
           g == [k \in Nat |-> R("length", e, ws, k)]
           s0 == Gap(ws)
<1>1. e \in Seq(C)
  BY EmptyType
<1>2. s0 = R("gap", e, ws, 0) /\ s0 \in St
  BY GapType DEF Gap
<1>3. \A k \in Nat : R("length", e, ws, k) \in St
  <2> HIDE DEF e
  <2> QED
    BY <1>1, StateType DEF Modes
<1> HIDE DEF e
<1>5. \A d \in 0 .. 9 : F[<<s0, Digits[d + 1]>>] = g[d]
  <2> SUFFICES ASSUME NEW d \in 0 .. 9 PROVE F[<<s0, Digits[d + 1]>>] = g[d]
    OBVIOUS
  <2> DEFINE m == "gap"
             z == 0
  <2>1. z \in Nat /\ 10 * z + d = d /\ d \in Nat
    OBVIOUS
  <2>2. m \in Measured
    BY DEF Measured
  <2>3. g[d] = R("length", e, ws, d)
    BY <2>1
  <2>4. s0 = R(m, e, ws, z)
    BY <1>2
  <2> HIDE DEF z, s0, g, m
  <2>5. F[<<R(m, e, ws, z), Digits[d + 1]>>] = R("length", e, ws, 10 * z + d)
    <3>1. LengthStep(C, e, ws, m, z, d)
      BY <1>1, <2>1, <2>2, LengthSteps
    <3> QED
      BY <3>1 DEF LengthStep
  <2> QED
    BY <2>1, <2>3, <2>4, <2>5
<1>6. \A k \in Nat, d \in 0 .. 9 : k >= 1 => F[<<g[k], Digits[d + 1]>>] = g[10 * k + d]
  <2> SUFFICES ASSUME NEW k \in Nat, NEW d \in 0 .. 9 PROVE F[<<g[k], Digits[d + 1]>>] = g[10 * k + d]
    OBVIOUS
  <2> DEFINE j == 10 * k + d
             m == "length"
  <2>1. j \in Nat
    OBVIOUS
  <2>2. m \in Measured
    BY DEF Measured
  <2> HIDE DEF j
  <2>3. g[k] = R(m, e, ws, k) /\ g[j] = R("length", e, ws, j)
    BY <2>1
  <2> HIDE DEF g, m
  <2>4. F[<<R(m, e, ws, k), Digits[d + 1]>>] = R("length", e, ws, 10 * k + d)
    <3>1. LengthStep(C, e, ws, m, k, d)
      BY <1>1, <2>2, LengthSteps
    <3> QED
      BY <3>1 DEF LengthStep
  <2> QED
    BY <2>3, <2>4 DEF j
<1>7. Reader(F, St, C)
  BY ParseOfReader
<1>8. g[n] = R("length", e, ws, n)
  OBVIOUS
<1> HIDE DEF F, St, g, s0
<1>9. Counts(F, s0, g)
  BY <1>5, <1>6 DEF Counts
<1>10. Decimal[n] \in Seq(C) /\ Run(F, s0, Decimal[n]) = g[n]
  BY <1>2, <1>7, <1>9, DecimalRead
<1> QED
  BY <1>8, <1>10 DEF F, s0, e

LEMMA BodyRead ==
  ASSUME NEW C, NEW ws \in Seq(Seq(C)), NEW b \in Seq(C), b # <<>>
  PROVE  Run(ParseOf(C), R("body", <<>>, ws, Len(b)), b) = Gap(Append(ws, b))
<1> DEFINE n == Len(b)
           St == States(C)
           F == ParseOf(C)
           I == [k \in 0 .. Len(b) |->
                  IF k = n THEN {Gap(Append(ws, b))} ELSE {R("body", SubSeq(b, 1, k), ws, n - k)}]
           s0 == R("body", <<>>, ws, n)
<1>1. n \in Nat /\ n >= 1 /\ n = Len(b)
  OBVIOUS
<1>2. SubSeq(b, 1, 0) = <<>> /\ SubSeq(b, 1, n) = b
  OBVIOUS
<1>3. "body" \in Modes
  BY DEF Modes
<1>4. s0 \in I[0]
  <2>1. 0 \in 0 .. Len(b) /\ 0 # n /\ n - 0 = n
    BY <1>1
  <2>2. s0 = R("body", SubSeq(b, 1, 0), ws, n - 0)
    BY <1>2, <2>1
  <2> HIDE DEF s0, n
  <2> QED
    BY <2>1, <2>2
<1>5. I[n] = {Gap(Append(ws, b))}
  BY <1>1
<1>6. ASSUME NEW k \in 0 .. n - 1
      PROVE  /\ I[k] = {R("body", SubSeq(b, 1, k), ws, n - k)} /\ k + 1 \in 0 .. n
             /\ I[k + 1] = IF k + 1 = n THEN {Gap(Append(ws, b))}
                           ELSE {R("body", SubSeq(b, 1, k + 1), ws, n - (k + 1))}
  <2> DEFINE j == k + 1
  <2>1. k \in 0 .. Len(b) /\ k # n /\ j \in 0 .. Len(b) /\ j = k + 1
    BY <1>1
  <2> HIDE DEF n, j
  <2>2. I[k] = {R("body", SubSeq(b, 1, k), ws, n - k)}
    BY <2>1
  <2>3. I[j] = IF j = n THEN {Gap(Append(ws, b))} ELSE {R("body", SubSeq(b, 1, j), ws, n - j)}
    BY <2>1
  <2> HIDE DEF I
  <2> QED
    BY <2>1, <2>2, <2>3 DEF j, n
<1>7. Append(ws, b) \in Seq(Seq(C))
  OBVIOUS
<1>8. Gap(Append(ws, b)) \in St
  BY <1>7, GapType
<1>9. ASSUME NEW k \in 0 .. n - 1 PROVE R("body", SubSeq(b, 1, k), ws, n - k) \in St
  <2>1. SubSeq(b, 1, k) \in Seq(C)
    BY LongerPrefix
  <2>2. n - k \in Nat
    BY <1>1
  <2> DEFINE v == SubSeq(b, 1, k)
             h == n - k
  <2> HIDE DEF v, h, n
  <2> QED
    BY <1>3, <2>1, <2>2, StateType DEF v, h
<1>10. Stages(I, b, St)
  <2>1. \A k \in 0 .. Len(b) : I[k] \in SUBSET St
    <3> SUFFICES ASSUME NEW k \in 0 .. Len(b) PROVE I[k] \in SUBSET St
      OBVIOUS
    <3>1. CASE k = n
      BY <1>5, <1>8, <3>1
    <3>2. CASE k # n
      <4>1. k \in 0 .. n - 1
        BY <3>2
      <4> HIDE DEF I
      <4> QED
        BY <1>6, <1>9, <4>1
    <3> QED
      BY <3>1, <3>2
  <2>2. I = [k \in 0 .. Len(b) |-> I[k]]
    OBVIOUS
  <2> HIDE DEF I
  <2> QED
    BY <2>1, <2>2 DEF Stages
<1>11. Moves(F, b, I)
  <2> SUFFICES ASSUME NEW k \in 0 .. Len(b) - 1, NEW s \in I[k]
               PROVE  F[<<s, b[k + 1]>>] \in I[k + 1]
    BY DEF Moves
  <2> DEFINE v == SubSeq(b, 1, k)
             c == b[k + 1]
             h == n - k
             u == SubSeq(b, 1, k + 1)
             j == k + 1
  <2>1. v \in Seq(C) /\ c \in C /\ u = Append(v, c)
    BY LongerPrefix
  <2>2. h \in Nat /\ j \in Nat /\ n - j = h - 1 /\ (h > 1 <=> j # n)
    BY <1>1
  <2>3. s = R("body", v, ws, h)
    <3> HIDE DEF I
    <3> QED
      BY <1>6
  <2>4. s \in St
    <3> HIDE DEF St
    <3> QED
      BY <1>9, <2>3
  <2>5. I[j] = IF j = n THEN {Gap(Append(ws, b))} ELSE {R("body", u, ws, n - j)}
    BY <1>6
  <2>6. j = n => u = b
    BY <1>1, <1>2
  <2> HIDE DEF v, c, h, u, n, j, I
  <2>7. ParseStep(R("body", v, ws, h), c) =
          IF h > 1 THEN R("body", Append(v, c), ws, h - 1) ELSE Gap(Append(ws, Append(v, c)))
    BY <1>3, <2>1, <2>2, ParseMoves
  <2>8. F[<<s, c>>] = ParseStep(s, c)
    BY <2>1, <2>4, ParseOfIs
  <2> HIDE DEF F
  <2>9. F[<<s, c>>] = IF j # n THEN R("body", u, ws, n - j) ELSE Gap(Append(ws, u))
    BY <2>1, <2>2, <2>3, <2>7, <2>8
  <2>10. F[<<s, c>>] \in I[j]
    BY <2>5, <2>6, <2>9
  <2> QED
    BY <2>10 DEF c, j
<1>12. Reader(F, St, C)
  BY ParseOfReader
<1> HIDE DEF F, St, I, s0
<1>13. Run(F, s0, b) \in I[Len(b)]
  BY <1>4, <1>10, <1>11, <1>12, RunStages
<1> QED
  BY <1>5, <1>13 DEF F, s0

LEMMA PartRead ==
  ASSUME NEW C, DigitsIn(C), NL \in C, NEW ws \in Seq(Seq(C)), NEW b \in Seq(C)
  PROVE  LET code == Decimal[Len(b)] \o <<NL>> \o b
         IN /\ code \in Seq(C)
            /\ Run(ParseOf(C), Gap(ws), code) = Gap(Append(ws, b))
<1> DEFINE n == Len(b)
           d == Decimal[n]
           e == <<>>
           St == States(C)
           F == ParseOf(C)
           s0 == Gap(ws)
           line == <<NL>>
           s1 == R("length", e, ws, n)
           s2 == IF n = 0 THEN Gap(Append(ws, e)) ELSE R("body", e, ws, n)
<1>1. n \in Nat
  OBVIOUS
<1>2. e \in Seq(C)
  BY EmptyType
<1>3. d \in Seq(C) /\ Run(F, s0, d) = s1
  BY <1>1, LengthRead
<1>4. line \in Seq(C)
  OBVIOUS
<1>5. Reader(F, St, C)
  BY ParseOfReader
<1>6. s0 \in St
  BY GapType
<1>7. n = 0 => b = e
  OBVIOUS
<1> HIDE DEF e
<1>8. "length" \in Modes
  BY DEF Modes
<1>9. s1 \in St
  <2> HIDE DEF n
  <2> QED
    BY <1>1, <1>2, <1>8, StateType
<1>10. ~IsDigit(NL)
  BY DigitRange
<1>11. Run(F, s1, line) = s2
  <2>1. ParseStep(s1, NL) = s2
    <3> HIDE DEF n
    <3> QED
      BY <1>1, <1>2, <1>8, <1>10, ParseMoves
  <2> HIDE DEF s1, s2
  <2>2. F[<<s1, NL>>] = ParseStep(s1, NL)
    BY <1>9, ParseOfIs
  <2> HIDE DEF F, St
  <2>3. Run(F, s1, <<NL>>) = F[<<s1, NL>>]
    BY <1>5, <1>9, RunOne
  <2> QED
    BY <2>1, <2>2, <2>3
<1>12. s2 \in St
  <2>1. Append(ws, e) \in Seq(Seq(C))
    BY <1>2
  <2>2. Gap(Append(ws, e)) \in St
    BY <2>1, GapType
  <2>3. "body" \in Modes
    BY DEF Modes
  <2> HIDE DEF n
  <2>4. R("body", e, ws, n) \in St
    BY <1>1, <1>2, <2>3, StateType
  <2> QED
    BY <2>2, <2>4
<1>13. Run(F, s2, b) = Gap(Append(ws, b))
  <2>1. CASE n = 0
    <3>1. s2 = Gap(Append(ws, b)) /\ b = <<>>
      BY <1>7, <2>1
    <3> HIDE DEF F, St, s2
    <3>2. Run(F, s2, <<>>) = s2
      BY <1>5, <1>12, RunEmpty
    <3> QED
      BY <3>1, <3>2
  <2>2. CASE n # 0
    <3>1. b # <<>>
      BY <2>2
    <3>2. s2 = R("body", <<>>, ws, Len(b))
      BY <2>2 DEF e
    <3> HIDE DEF s2
    <3> QED
      BY <3>1, <3>2, BodyRead
  <2> QED
    BY <2>1, <2>2
<1> HIDE DEF d, F, St, s0, s1, s2, line
<1>14. d \o line \in Seq(C)
  BY <1>3, <1>4, ConcatLen
<1>15. Run(F, s0, d \o line) = s2
  BY <1>3, <1>4, <1>5, <1>6, <1>11, RunConcat
<1> DEFINE t == d \o line
<1>16. t \in Seq(C) /\ Run(F, s0, t) = s2
  BY <1>14, <1>15
<1> HIDE DEF t
<1>17. t \o b \in Seq(C)
  BY <1>16, ConcatLen
<1>18. Run(F, s0, t \o b) = Run(F, Run(F, s0, t), b)
  BY <1>5, <1>6, <1>16, RunConcat
<1> QED
  BY <1>13, <1>16, <1>17, <1>18 DEF d, F, s0, line, t

(* A part of a packet: its length, a line break, and the text.             *)
PartCode(text) == Decimal[Len(text)] \o <<NL>> \o text

(* So a packet is read as its parts.                                       *)
LEMMA PacketParsed ==
  ASSUME NEW C, DigitsIn(C), NL \in C, NEW texts \in Seq(Seq(C)), texts # <<>>
  PROVE  ParsedPacket(FlattenSeq([i \in DOMAIN texts |-> PartCode(texts[i])])) = texts
<1> DEFINE codes == [i \in DOMAIN texts |-> PartCode(texts[i])]
           St == States(C)
           F == ParseOf(C)
           I == [k \in 0 .. Len(codes) |-> {Gap(SubSeq(texts, 1, k))}]
           packet == FlattenSeq(codes)
           n == Len(texts)
<1>1. \A i \in DOMAIN texts : texts[i] \in Seq(C)
  OBVIOUS
<1>2. ASSUME NEW b \in Seq(C), NEW ws \in Seq(Seq(C))
      PROVE  PartCode(b) \in Seq(C) /\ Run(F, Gap(ws), PartCode(b)) = Gap(Append(ws, b))
  BY PartRead DEF PartCode
<1>3. \A i \in DOMAIN texts : PartCode(texts[i]) \in Seq(C)
  <2> DEFINE e == <<>>
  <2>1. e \in Seq(Seq(C))
    BY EmptyType
  <2> HIDE DEF e
  <2> QED
    BY <1>1, <1>2, <2>1
<1>4. codes \in Seq(Seq(C)) /\ Len(codes) = n
  <2>1. codes = [i \in DOMAIN texts |-> codes[i]] /\ \A i \in DOMAIN texts : codes[i] = PartCode(texts[i])
    OBVIOUS
  <2> DEFINE D == Seq(C)
  <2>2. texts \in Seq(D)
    OBVIOUS
  <2> HIDE DEF codes, D
  <2>3. Coded(codes, texts, C)
    BY <1>3, <2>1 DEF Coded
  <2> QED
    BY <2>2, <2>3, CodesType
<1>5. \A i \in DOMAIN texts : codes[i] = PartCode(texts[i])
  OBVIOUS
<1>6. n \in Nat /\ DOMAIN texts = 1 .. n
  OBVIOUS
<1> HIDE DEF codes
<1>7. SubSeq(texts, 1, 0) = <<>> /\ SubSeq(texts, 1, n) = texts
  OBVIOUS
<1>8. \A k \in 0 .. n : I[k] = {Gap(SubSeq(texts, 1, k))}
  BY <1>4
<1>9. \A k \in 0 .. n : SubSeq(texts, 1, k) \in Seq(Seq(C))
  OBVIOUS
<1>10. Stages(I, codes, St)
  <2>1. \A k \in 0 .. Len(codes) : I[k] \in SUBSET St
    <3> SUFFICES ASSUME NEW k \in 0 .. n PROVE I[k] \in SUBSET St
      BY <1>4
    <3>1. Gap(SubSeq(texts, 1, k)) \in St
      BY <1>9, GapType
    <3> HIDE DEF I, n
    <3> QED
      BY <1>8, <3>1
  <2>2. I = [k \in 0 .. Len(codes) |-> I[k]]
    OBVIOUS
  <2> HIDE DEF I
  <2> QED
    BY <2>1, <2>2 DEF Stages
<1>11. Advances(F, codes, I)
  <2> SUFFICES ASSUME NEW k \in 0 .. Len(codes) - 1, NEW s \in I[k]
               PROVE  Run(F, s, codes[k + 1]) \in I[k + 1]
    BY DEF Advances
  <2> DEFINE v == SubSeq(texts, 1, k)
             u == SubSeq(texts, 1, k + 1)
             b == texts[k + 1]
             j == k + 1
             D == Seq(C)
  <2>1. k \in 0 .. n /\ j \in 0 .. n /\ j \in DOMAIN texts /\ k \in 0 .. Len(texts) - 1
    BY <1>4, <1>6
  <2>2. texts \in Seq(D)
    OBVIOUS
  <2> HIDE DEF D
  <2>3. v \in Seq(D) /\ b \in D /\ u = Append(v, b)
    BY <2>1, <2>2, LongerPrefix
  <2>4. I[k] = {Gap(v)} /\ I[j] = {Gap(u)} /\ codes[j] = PartCode(b)
    BY <1>5, <1>8, <2>1
  <2> HIDE DEF v, u, b, j, I, F
  <2>5. Run(F, Gap(v), PartCode(b)) = Gap(Append(v, b))
    BY <1>2, <2>3 DEF D
  <2>6. Run(F, s, codes[j]) \in I[j]
    BY <2>3, <2>4, <2>5
  <2> QED
    BY <2>6 DEF j
<1>12. Reader(F, St, C)
  BY ParseOfReader
<1> DEFINE s0 == Gap(<<>>)
<1>13. s0 \in I[0] /\ I[n] = {Gap(texts)}
  <2>1. I[0] = {Gap(SubSeq(texts, 1, 0))} /\ I[n] = {Gap(SubSeq(texts, 1, n))}
    <3>1. 0 \in 0 .. n /\ n \in 0 .. n
      BY <1>6
    <3> HIDE DEF I, n
    <3> QED
      BY <1>8, <3>1
  <2> HIDE DEF I, n
  <2> QED
    BY <1>7, <2>1
<1> HIDE DEF I, s0, F, St
<1>14. Run(F, s0, packet) \in I[Len(codes)]
  BY <1>4, <1>10, <1>11, <1>12, <1>13, ReadsCodes
<1>15. Run(F, s0, packet) = Gap(texts)
  BY <1>4, <1>13, <1>14
<1>16. packet \in Seq(C)
  BY <1>4, FlattenType
<1> HIDE DEF packet
<1>17. FoldLeft(ParseStep, Reading, packet) = Gap(texts)
  BY <1>15, <1>16, ParseOfRun, ReadingGap DEF F, s0
<1>18. Gap(texts).mode = "gap" /\ Gap(texts).words = texts
  BY StateParts DEF Gap
<1> DEFINE end == FoldLeft(ParseStep, Reading, packet)
<1>19. ParsedPacket(packet) = IF end.mode # "gap" \/ end.words = <<>> THEN Broken ELSE end.words
  BY DEF ParsedPacket
<1> HIDE DEF end
<1>20. end = Gap(texts)
  BY <1>17 DEF end
<1>21. ParsedPacket(packet) = texts
  BY <1>18, <1>19, <1>20
<1> QED
  BY <1>21 DEF packet, codes

(* Bytes.                                                                  *)
Lead == "C3"

Trail == "BC"

(* The bytes of a character.                                               *)
Bytes(c) == IF c = "ue" THEN <<Lead, Trail>> ELSE <<c>>

(* The bytes of a text.                                                    *)
LEMMA Utf8Type ==
  ASSUME NEW D, NEW C, D \subseteq C, Lead \in C, Trail \in C, NEW text \in Seq(D)
  PROVE  Utf8(text) \in Seq(C) /\ (text # <<>> => Utf8(text) # <<>>)
<1> DEFINE codes == [i \in DOMAIN text |-> Bytes(text[i])]
<1>1. Utf8(text) = FlattenSeq(codes)
  BY DEF Utf8, Mapped, Bytes, Lead, Trail
<1>2. \A i \in DOMAIN text : text[i] \in C
  OBVIOUS
<1>3. \A i \in DOMAIN text : codes[i] = Bytes(text[i])
  OBVIOUS
<1>4. ASSUME NEW c \in C PROVE Bytes(c) \in Seq(C) /\ Bytes(c) # <<>>
  BY DEF Bytes
<1>5. codes = [i \in DOMAIN text |-> codes[i]]
  OBVIOUS
<1> HIDE DEF codes
<1>6. Coded(codes, text, C)
  BY <1>2, <1>3, <1>4, <1>5 DEF Coded
<1>7. codes \in Seq(Seq(C)) /\ Len(codes) = Len(text)
  BY <1>6, CodesType
<1>8. FlattenSeq(codes) \in Seq(C)
  BY <1>7, FlattenType
<1>9. text # <<>> => FlattenSeq(codes) # <<>>
  <2> SUFFICES ASSUME text # <<>> PROVE FlattenSeq(codes) # <<>>
    OBVIOUS
  <2>1. 1 \in DOMAIN text
    OBVIOUS
  <2>2. codes[1] # <<>>
    BY <1>2, <1>3, <1>4, <2>1
  <2>3. codes # <<>>
    BY <1>7, <2>1
  <2> QED
    BY <1>7, <2>2, <2>3, FlattenHead
<1> QED
  BY <1>1, <1>8, <1>9

(* A service's command packet is read as the bytes of program and          *)
(* arguments.                                                              *)
LEMMA CommandParsed ==
  ASSUME NEW D, NEW C, D \subseteq C, Lead \in C, Trail \in C, DigitsIn(C), NL \in C,
         NEW command \in Seq(Seq(D)), command # <<>>
  PROVE  LET texts == [i \in DOMAIN command |-> Utf8(command[i])]
         IN /\ texts \in Seq(Seq(C)) /\ Len(texts) = Len(command)
            /\ ParsedPacket(CommandPacket(command)) = texts
<1> DEFINE texts == [i \in DOMAIN command |-> Utf8(command[i])]
<1>1. \A i \in DOMAIN command : texts[i] = Utf8(command[i]) /\ command[i] \in Seq(D)
  OBVIOUS
<1>2. texts = [i \in DOMAIN command |-> texts[i]]
  OBVIOUS
<1>3. CommandPacket(command) = FlattenSeq([i \in DOMAIN command |-> PartCode(Utf8(command[i]))])
  BY DEF CommandPacket, Mapped, PartCode
<1> HIDE DEF texts
<1>4. Coded(texts, command, C)
  BY <1>1, <1>2, Utf8Type DEF Coded
<1>5. texts \in Seq(Seq(C)) /\ Len(texts) = Len(command)
  <2> DEFINE S == Seq(D)
  <2>1. command \in Seq(S)
    OBVIOUS
  <2> HIDE DEF S
  <2> QED
    BY <1>4, <2>1, CodesType
<1>6. texts # <<>> /\ DOMAIN texts = DOMAIN command
  BY <1>2, <1>5
<1>7. [i \in DOMAIN command |-> PartCode(Utf8(command[i]))] = [i \in DOMAIN texts |-> PartCode(texts[i])]
  BY <1>1, <1>6
<1>8. ParsedPacket(FlattenSeq([i \in DOMAIN texts |-> PartCode(texts[i])])) = texts
  BY <1>5, <1>6, PacketParsed
<1>9. ParsedPacket(CommandPacket(command)) = texts
  BY <1>3, <1>7, <1>8
<1> QED
  BY <1>5, <1>9 DEF texts

-----------------------------------------------------------------------------
(* What starts at login and what starts as a service.                      *)

(* What writers write begins with their mark, and has characters of the    *)
(* alphabet alone.                                                         *)
LEMMA MarkedHas ==
  ASSUME NEW C, NEW mark \in C, NEW codes \in Seq(Seq(C))
  PROVE  Marked(mark, codes) \in Seq(C) /\ Marked(mark, codes) # <<>> /\ Marked(mark, codes)[1] = mark
<1> DEFINE f == FlattenSeq(codes)
           q == <<mark>>
<1>1. f \in Seq(C)
  BY FlattenType
<1>2. q \in Seq(C) /\ Len(q) = 1 /\ q[1] = mark
  OBVIOUS
<1> HIDE DEF f
<1>3. (q \o f) \o q \in Seq(C) /\ Len((q \o f) \o q) >= 2 /\ ((q \o f) \o q)[1] = mark
  BY <1>1
<1> DEFINE t == (q \o f) \o q
<1>4. Marked(mark, codes) = t
  BY DEF Marked, f
<1>5. t \in Seq(C) /\ Len(t) >= 2 /\ t[1] = mark
  BY <1>3
<1> HIDE DEF t
<1>6. t # <<>>
  BY <1>5
<1> QED
  BY <1>4, <1>5, <1>6

LEMMA DesktopQuoteHas ==
  ASSUME NEW C, Quote \in C, Backslash \in C, NEW text \in Seq(C)
  PROVE  DesktopQuote(text) \in Seq(C) /\ DesktopQuote(text) # <<>> /\ DesktopQuote(text)[1] = Quote
<1> DEFINE codes == [i \in DOMAIN text |->
                      IF text[i] \in {Quote, Backslash, "backquote", "dollar"}
                      THEN <<Backslash, text[i]>> ELSE <<text[i]>>]
<1>1. DesktopQuote(text) = Marked(Quote, codes)
  BY DEF DesktopQuote, Between, Mapped, Marked
<1>2. \A i \in DOMAIN text : codes[i] \in Seq(C)
  OBVIOUS
<1>3. codes = [i \in DOMAIN text |-> codes[i]]
  OBVIOUS
<1> HIDE DEF codes
<1>4. Coded(codes, text, C)
  BY <1>2, <1>3 DEF Coded
<1>5. codes \in Seq(Seq(C))
  BY <1>4, CodesType
<1> QED
  BY <1>1, <1>5, MarkedHas

LEMMA JoinedType ==
  ASSUME NEW C, NL \in C, NEW texts \in Seq(Seq(C))
  PROVE  Joined(texts) \in Seq(C)
<1> DEFINE line == <<NL>>
           codes == [i \in DOMAIN texts |-> line \o texts[i]]
<1>1. Joined(texts) = FlattenSeq(codes)
  BY DEF Joined, Mapped
<1>2. line \in Seq(C) /\ \A i \in DOMAIN texts : texts[i] \in Seq(C)
  OBVIOUS
<1> HIDE DEF line
<1>3. \A i \in DOMAIN texts : codes[i] \in Seq(C)
  BY <1>2
<1>4. codes = [i \in DOMAIN texts |-> codes[i]]
  OBVIOUS
<1> HIDE DEF codes
<1>5. Coded(codes, texts, C)
  BY <1>3, <1>4 DEF Coded
<1>6. codes \in Seq(Seq(C))
  <2> DEFINE D == Seq(C)
  <2>1. texts \in Seq(D)
    OBVIOUS
  <2> HIDE DEF D
  <2> QED
    BY <1>5, <2>1, CodesType
<1> QED
  BY <1>1, <1>6, FlattenType

LEMMA LinesType ==
  ASSUME NEW C, NEW text \in Seq(C)
  PROVE  Lines(text) \in Seq(Seq(C))
<1> DEFINE F == LinesOf(C)
           St == States(C)
           s0 == Reading
           end == FoldLeft(LineStep, Reading, text)
<1>1. Reader(F, St, C) /\ s0 \in St
  BY LinesOfReader, ReadingType
<1>2. end = Run(F, s0, text)
  BY LinesOfRun
<1> HIDE DEF F, s0, end
<1>3. end \in St
  <2> HIDE DEF St
  <2> QED
    BY <1>1, <1>2, RunType
<1>4. Cut(end) \in States(C)
  <2> DEFINE m == end.mode
             w == end.word
             ws == end.words
             h == end.held
  <2>1. end = R(m, w, ws, h) /\ m \in Modes /\ w \in Seq(C) /\ ws \in Seq(Seq(C)) /\ h \in Nat
    BY <1>3, StateIs
  <2> HIDE DEF m, w, ws, h
  <2>2. Cut(R(m, w, ws, h)) = IF m = "gap" THEN R(m, w, ws, h) ELSE R("gap", <<>>, Append(ws, w), h)
    BY CutIs
  <2>3. Append(ws, w) \in Seq(Seq(C))
    BY <2>1
  <2> DEFINE e == <<>>
             g == "gap"
  <2>4. e \in Seq(C) /\ g \in Modes
    BY EmptyType DEF Modes
  <2> HIDE DEF e, g
  <2>5. R(g, e, Append(ws, w), h) \in States(C)
    BY <2>1, <2>3, <2>4, StateType
  <2> QED
    BY <1>3, <2>1, <2>2, <2>5 DEF e, g
<1>5. Cut(end).words \in Seq(Seq(C))
  <2> DEFINE s == Cut(end)
  <2>1. s \in States(C)
    BY <1>4
  <2> HIDE DEF s
  <2> QED
    BY <2>1, StateIs DEF s
<1> QED
  BY <1>5 DEF Lines, end

(* The characters of login entries.                                        *)
Letters == Characters \cup {NL, Apostrophe, Quote, Backslash, Blank, Exe}

(* Commands have a program, and arguments after it.                        *)
LEMMA CommandIs ==
  ASSUME NEW c \in Commands
  PROVE  /\ c \in Seq(Seq(Characters)) /\ c \in Seq(Seq(Letters)) /\ c # <<>> /\ c[1] # <<>>
         /\ c[1] \in Seq(Letters) /\ Tail(c) \in Seq(Seq(Letters)) /\ <<c[1]>> \o Tail(c) = c
         /\ Len(Tail(c)) = Len(c) - 1 /\ \A i \in DOMAIN Tail(c) : i + 1 \in DOMAIN c /\ Tail(c)[i] = c[i + 1]
<1> DEFINE D == Characters \ {"NUL"}
           S == Seq(D)
           T == Seq(Characters)
           U == Seq(Letters)
<1>1. c \in Seq(S) /\ c # <<>> /\ c[1] # <<>>
  BY CommandsAssumption
<1>2. S \subseteq T /\ T \subseteq U
  <2>1. D \subseteq Characters /\ Characters \subseteq Letters
    BY DEF Letters
  <2> HIDE DEF D
  <2> QED
    BY <2>1, MoreCharacters
<1> HIDE DEF S, T, U
<1>3. c \in Seq(T)
  BY <1>1, <1>2, MoreCharacters
<1>4. c \in Seq(U)
  BY <1>2, <1>3, MoreCharacters
<1>5. c[1] \in U /\ Tail(c) \in Seq(U) /\ <<c[1]>> \o Tail(c) = c
      /\ Len(Tail(c)) = Len(c) - 1 /\ \A i \in DOMAIN Tail(c) : i + 1 \in DOMAIN c /\ Tail(c)[i] = c[i + 1]
  BY <1>1, <1>4
<1> QED
  BY <1>1, <1>3, <1>4, <1>5 DEF T, U

LEMMA PartsType ==
  ASSUME NEW c \in Commands
  PROVE  LET parts == Parts(c[1], Tail(c))
         IN parts \in Seq(Seq(Letters)) /\ parts # <<>> /\ parts[1] = c[1]
<1> DEFINE p == c[1]
           args == Tail(c)
           lines == Lines(Joined(args))
           parts == <<p>> \o lines
           S == Seq(Letters)
<1>1. p \in S /\ args \in Seq(S)
  BY CommandIs
<1>2. NL \in Letters
  BY DEF Letters
<1> HIDE DEF p, args
<1>3. lines \in Seq(S)
  BY <1>1, <1>2, JoinedType, LinesType
<1> HIDE DEF lines, S
<1>4. parts \in Seq(S) /\ parts[1] = p /\ Len(parts) >= 1
  BY <1>1, <1>3
<1>5. Parts(p, args) = parts
  BY DEF Parts, lines
<1> HIDE DEF parts
<1>6. parts # <<>>
  BY <1>4
<1> QED
  BY <1>4, <1>5, <1>6 DEF p, args, S

(* What the plugin hands over by lines is the command, when no word has a  *)
(* line break.                                                             *)
LEMMA PartsAre ==
  ASSUME NEW c \in Commands, Launchable(c[1], Tail(c)), \A i \in DOMAIN c : ~Has(c[i], {NL})
  PROVE  Parts(c[1], Tail(c)) = c
<1> DEFINE args == Tail(c)
<1>1. args \in Seq(Seq(Letters)) /\ <<c[1]>> \o args = c
      /\ \A i \in DOMAIN args : i + 1 \in DOMAIN c /\ args[i] = c[i + 1]
  BY CommandIs
<1>2. \A i \in DOMAIN args : args[i] # <<>>
  BY DEF Launchable
<1> HIDE DEF args
<1>3. \A i \in DOMAIN args : args[i] # <<>> /\ ~Has(args[i], {NL})
  BY <1>1, <1>2
<1>4. NL \in Letters
  BY DEF Letters
<1>5. Lines(Joined(args)) = args
  BY <1>1, <1>3, <1>4, LinesOfJoined
<1>6. Parts(c[1], args) = c
  BY <1>1, <1>5 DEF Parts
<1> QED
  BY <1>6 DEF args

(* A text is misread from its head on.                                     *)
LEMMA MisreadHead ==
  ASSUME NEW C, NEW text \in Seq(C), text # <<>>, text[1] = Quote
  PROVE  Misread(text) # <<>> /\ Misread(text)[1] = Quote
<1> DEFINE D == C \cup {Lead, Trail}
           codes == [i \in DOMAIN text |-> Bytes(text[i])]
           flat == FlattenSeq(codes)
<1>1. Utf8(text) = flat
  BY DEF Utf8, Mapped, Bytes, Lead, Trail
<1>2. codes[1] = <<Quote>> /\ 1 \in DOMAIN text
  <2>1. 1 \in DOMAIN text
    OBVIOUS
  <2>2. codes[1] = Bytes(text[1])
    BY <2>1
  <2>3. Bytes(Quote) = <<Quote>>
    BY DEF Bytes, Quote
  <2> QED
    BY <2>1, <2>2, <2>3
<1>3. ASSUME NEW c \in C PROVE Bytes(c) \in Seq(D)
  <2>1. c \in D /\ Lead \in D /\ Trail \in D
    OBVIOUS
  <2> HIDE DEF D
  <2> QED
    BY <2>1 DEF Bytes
<1>4. \A i \in DOMAIN text : codes[i] \in Seq(D)
  BY <1>3
<1>5. codes = [i \in DOMAIN text |-> codes[i]]
  OBVIOUS
<1> HIDE DEF codes, D
<1>6. Coded(codes, text, D)
  BY <1>4, <1>5 DEF Coded
<1>7. codes \in Seq(Seq(D)) /\ Len(codes) = Len(text)
  BY <1>6, CodesType
<1>8. codes # <<>> /\ codes[1] # <<>> /\ codes[1][1] = Quote
  BY <1>2, <1>7
<1>9. flat # <<>> /\ flat[1] = Quote /\ flat \in Seq(D)
  BY <1>7, <1>8, FlattenHead, FlattenType
<1> HIDE DEF flat
<1>10. 1 \in DOMAIN flat
  BY <1>9
<1> DEFINE x == FromAnsi(flat)
<1>11. DOMAIN x = DOMAIN flat /\ x[1] = flat[1]
  BY <1>9, <1>10 DEF FromAnsi, Quote
<1>12. Misread(text) = x
  BY <1>1 DEF Misread
<1> HIDE DEF x
<1>13. x # <<>>
  BY <1>10, <1>11
<1> QED
  BY <1>9, <1>11, <1>12, <1>13

(* A login entry says something, and does not look like a torn one.        *)
LEMMA EntrySet ==
  ASSUME platform \in Platforms, NEW c \in Commands
  PROVE  EntryFor(c[1], Tail(c)) \notin {None, Torn}
<1> DEFINE entryFor == EntryFor(c[1], Tail(c))
           parts == Parts(c[1], Tail(c))
           n == Len(parts)
<1>1. parts \in Seq(Seq(Letters)) /\ parts # <<>>
  BY PartsType
<1>2. /\ Apostrophe \in Letters /\ Quote \in Letters /\ Backslash \in Letters /\ Blank \in Letters
      /\ Exe \in Letters
  BY DEF Letters
<1> HIDE DEF parts
<1>3. n \in Nat \ {0} /\ DOMAIN parts = 1 .. n /\ 1 \in 1 .. n /\ \A i \in 1 .. n : parts[i] \in Seq(Letters)
  BY <1>1
<1> HIDE DEF n
<1>4. platform \in {"linux", "macos", "windows"}
  BY PlatformsAssumption
<1>5. CASE platform = "macos"
  <2> DEFINE codes == [i \in DOMAIN parts |-> ShellQuote(parts[i])]
             rest == Command(codes)
             line == <<Exe, Blank>> \o rest
  <2>1. \A i \in DOMAIN parts : codes[i] \in Seq(Letters)
    <3> SUFFICES ASSUME NEW i \in DOMAIN parts PROVE codes[i] \in Seq(Letters)
      OBVIOUS
    <3> DEFINE e == <<>>
    <3>1. e \in Seq(Seq(Letters)) /\ parts[i] \in Seq(Letters)
      BY <1>3
    <3> HIDE DEF e
    <3> QED
      BY <1>2, <3>1, ShellReadsQuote
  <2>2. rest \in Seq(Letters)
    <3> DEFINE e == <<>>
    <3>1. e \in Seq(Seq(Letters))
      OBVIOUS
    <3> HIDE DEF e
    <3> QED
      BY <1>1, <1>2, <3>1, ShellReadsCommand
  <2>3. entryFor = XmlEscape(line)
    BY <1>5 DEF EntryFor, LaunchAgent, Exe, Blank, parts
  <2> HIDE DEF rest
  <2>4. 1 \in DOMAIN line /\ line[1] = Exe
    BY <1>2, <2>2
  <2> HIDE DEF line
  <2>5. XmlEscape(line)[1] = Exe
    BY <2>4 DEF XmlEscape, Entities, Exe, Quote, Apostrophe
  <2>6. DOMAIN XmlEscape(line) = DOMAIN line
    BY DEF XmlEscape
  <2> DEFINE x == XmlEscape(line)
  <2>7. x[1] = Exe /\ 1 \in DOMAIN x
    BY <2>4, <2>5, <2>6
  <2> HIDE DEF x
  <2>8. x # <<>> /\ x # <<"torn">>
    BY <2>7 DEF Exe
  <2> QED
    BY <2>3, <2>8 DEF x, None, Torn
<1>6. ASSUME NEW codes \in Seq(Seq(Letters)), codes # <<>>, codes[1] # <<>>, codes[1][1] = Quote
      PROVE  Command(codes) \notin {None, Torn}
  <2> DEFINE x == Command(codes)
  <2>1. x # <<>> /\ x[1] = Quote
    BY <1>2, <1>6, CommandHead
  <2> HIDE DEF x
  <2>2. x # <<"torn">>
    <3> DEFINE torn == "torn"
    <3>1. torn # Quote
      BY DEF Quote
    <3> HIDE DEF torn
    <3>2. x # <<torn>>
      BY <2>1, <3>1
    <3> QED
      BY <3>2 DEF torn
  <2> QED
    BY <2>1, <2>2 DEF x, None, Torn
<1>7. CASE platform = "linux"
  <2> DEFINE codes == [i \in DOMAIN parts |-> DesktopQuote(parts[i])]
  <2>1. \A i \in DOMAIN parts : codes[i] \in Seq(Letters) /\ codes[i] # <<>> /\ codes[i][1] = Quote
    BY <1>2, <1>3, DesktopQuoteHas
  <2>2. codes = [i \in DOMAIN parts |-> codes[i]]
    OBVIOUS
  <2>3. entryFor = Command(codes)
    BY <1>7 DEF EntryFor, AutostartEntry, parts
  <2> HIDE DEF codes
  <2>4. Coded(codes, parts, Letters)
    BY <2>1, <2>2 DEF Coded
  <2>5. codes \in Seq(Seq(Letters)) /\ Len(codes) = Len(parts)
    <3> DEFINE D == Seq(Letters)
    <3>1. parts \in Seq(D)
      BY <1>1
    <3> HIDE DEF D
    <3> QED
      BY <2>4, <3>1, CodesType
  <2>6. codes # <<>> /\ codes[1] # <<>> /\ codes[1][1] = Quote
    BY <1>3, <2>1, <2>2
  <2> QED
    BY <1>6, <2>3, <2>5, <2>6
<1>8. CASE platform = "windows"
  <2> DEFINE q == <<Quote>>
             p == parts[1]
             code == (q \o p) \o q
             codes == [parts EXCEPT ![1] = code]
  <2>1. entryFor = Misread(Command(codes))
    BY <1>8 DEF EntryFor, RunKey, parts
  <2>2. p \in Seq(Letters) /\ q \in Seq(Letters)
    BY <1>2, <1>3
  <2>3. code \in Seq(Letters) /\ Len(code) >= 2 /\ code[1] = Quote
    <3> HIDE DEF p
    <3> QED
      BY <2>2
  <2> HIDE DEF code, p
  <2>4. codes \in Seq(Seq(Letters)) /\ codes[1] = code /\ codes # <<>>
    <3> DEFINE D == Seq(Letters)
    <3>1. parts \in Seq(D) /\ code \in D
      BY <1>1, <2>3
    <3> HIDE DEF D
    <3>2. codes \in Seq(D) /\ codes[1] = code /\ 1 \in DOMAIN codes
      BY <1>3, <3>1
    <3> HIDE DEF codes
    <3>3. codes # <<>>
      BY <3>2
    <3> QED
      BY <3>2, <3>3 DEF D
  <2>5. code # <<>>
    BY <2>3
  <2> HIDE DEF codes
  <2>6. Command(codes) \in Seq(Letters) /\ Command(codes) # <<>> /\ Command(codes)[1] = Quote
    BY <1>2, <2>3, <2>4, <2>5, CommandHead
  <2>7. entryFor # <<>> /\ entryFor[1] = Quote
    BY <2>1, <2>6, MisreadHead
  <2> HIDE DEF entryFor
  <2>8. entryFor # <<"torn">>
    <3> DEFINE torn == "torn"
    <3>1. torn # Quote
      BY DEF Quote
    <3> HIDE DEF torn
    <3>2. entryFor # <<torn>>
      BY <2>7, <3>1
    <3> QED
      BY <3>2 DEF torn
  <2> QED
    BY <2>7, <2>8 DEF None, Torn, entryFor
<1> QED
  BY <1>4, <1>5, <1>7, <1>8

(* A login entry starts the program with the arguments it was made for.    *)
LEMMA AgentLaunches ==
  ASSUME platform = "macos", NEW c \in Commands, Parts(c[1], Tail(c)) = c,
         entry = EntryFor(c[1], Tail(c)), entry \notin {None, Torn}
  PROVE  Launched = c
<1>1. {Entities[d] : d \in DOMAIN Entities} \cap Letters = {}
  <2>1. {Entities[d] : d \in DOMAIN Entities} \cap Characters = {}
    BY CharactersAssumption
  <2>2. {Entities[d] : d \in DOMAIN Entities} \cap {NL, Apostrophe, Quote, Backslash, Blank, Exe} = {}
    BY DEF Entities, NL, Apostrophe, Quote, Backslash, Blank, Exe
  <2> HIDE DEF Entities
  <2> QED
    BY <2>1, <2>2 DEF Letters
<1>2. Apostrophe \in Letters /\ Backslash \in Letters /\ Blank \in Letters /\ Exe \in Letters
  BY DEF Letters
<1>3. c \in Seq(Seq(Letters)) /\ c # <<>>
  BY CommandIs
<1> DEFINE line == XmlEscape(<<Exe, Blank>> \o Command([i \in DOMAIN c |-> ShellQuote(c[i])]))
           words == ShellWords(XmlText(entry))
<1>4. entry = line
  BY DEF EntryFor, LaunchAgent, Exe, Blank
<1>5. ShellWords(XmlText(line)) = <<<<Exe>>>> \o c
  BY <1>1, <1>2, <1>3, AgentStarts
<1>6. Launched = IF words[1] = <<"exec">> THEN Tail(words) ELSE Unknown
  BY DEF Launched
<1> HIDE DEF line
<1>7. words = <<<<Exe>>>> \o c
  BY <1>4, <1>5
<1> HIDE DEF words
<1> DEFINE D == Seq(Letters)
           x == <<Exe>>
           t == <<x>> \o c
<1>8. x \in D /\ c \in Seq(D)
  BY <1>2, <1>3
<1> HIDE DEF x, D
<1>9. t[1] = x /\ Tail(t) = c
  BY <1>8
<1> HIDE DEF t
<1> QED
  BY <1>6, <1>7, <1>9 DEF t, x, Exe

(* A login entry starts the command, on each platform.                     *)
LEMMA AutostartLaunches ==
  ASSUME platform = "linux", NEW c \in Commands, Parts(c[1], Tail(c)) = c, Startable(c),
         entry = EntryFor(c[1], Tail(c)), entry \notin {None, Torn}
  PROVE  Launched = c
<1> DEFINE D == Characters \ {Backslash}
           C == D \cup {Quote, Blank}
           line == Command([i \in DOMAIN c |-> DesktopQuote(c[i])])
<1>1. \A i \in DOMAIN c : ~Has(c[i], DesktopSigns)
  BY DEF Startable, DesktopSigns
<1>2. c \in Seq(Seq(Characters)) /\ c # <<>>
  BY CommandIs
<1>3. \A i \in DOMAIN c : c[i] \in Seq(C)
  <2> SUFFICES ASSUME NEW i \in DOMAIN c PROVE c[i] \in Seq(C)
    OBVIOUS
  <2> DEFINE t == c[i]
  <2>1. t \in Seq(Characters) /\ ~Has(t, DesktopSigns)
    BY <1>1, <1>2
  <2> HIDE DEF t
  <2>2. ~Has(t, {Backslash})
    BY <2>1 DEF Has, DesktopSigns
  <2>3. t \in Seq(D)
    BY <2>1, <2>2, TextLacks
  <2>4. D \subseteq C
    OBVIOUS
  <2> HIDE DEF D, C
  <2>5. t \in Seq(C)
    BY <2>3, <2>4, MoreCharacters
  <2> QED
    BY <2>5 DEF t
<1>4. Quote \in C /\ Blank \in C /\ Backslash \notin C
  BY DEF Quote, Blank, Backslash
<1> HIDE DEF C, D
<1>5. c \in Seq(Seq(C))
  <2> DEFINE S == Seq(C)
  <2>1. \A i \in DOMAIN c : c[i] \in S
    BY <1>3
  <2> DEFINE T == Seq(Characters)
  <2>a. c \in Seq(T)
    BY <1>2
  <2> HIDE DEF S, T
  <2>2. c \in Seq(S)
    BY <2>1, <2>a
  <2> QED
    BY <2>2 DEF S
<1>6. DesktopWords(line) = c
  BY <1>1, <1>2, <1>4, <1>5, EntryStarts
<1>7. entry = line
  BY DEF EntryFor, AutostartEntry
<1> HIDE DEF line
<1> QED
  BY <1>6, <1>7 DEF Launched

(* What Windows reads of a narrow command as it is.                        *)
NarrowSigns ==
  ((Characters \cup {NL, Quote, Backslash, Blank} \cup Figures) \ {"ue"}) \ {Lead, Trail}

LEMMA NarrowSignsHave ==
  /\ "ue" \notin NarrowSigns /\ "C3" \notin NarrowSigns /\ "BC" \notin NarrowSigns
  /\ Backslash \in NarrowSigns /\ Quote \in NarrowSigns /\ Blank \in NarrowSigns
  /\ "broken" \notin NarrowSigns
<1>1. \A d \in 1 .. 10 : Digits[d] # "broken"
  BY DEF Digits
<1>2. "broken" \notin {NL, Quote, Backslash, Blank} /\ "broken" \notin Characters
  BY CharactersAssumption DEF NL, Quote, Backslash, Blank
<1>3. {Backslash, Quote, Blank} \cap {"ue", Lead, Trail} = {}
  BY DEF Backslash, Quote, Blank, Lead, Trail
<1> QED
  BY <1>1, <1>2, <1>3 DEF NarrowSigns, Figures, Lead, Trail

LEMMA NarrowIs ==
  ASSUME NEW c \in Seq(Seq(Characters)), Narrow(c)
  PROVE  c \in Seq(Seq(NarrowSigns)) /\ \A i \in DOMAIN c : Utf8(c[i]) = c[i]
<1>1. ASSUME NEW i \in DOMAIN c PROVE c[i] \in Seq(NarrowSigns) /\ Utf8(c[i]) = c[i]
  <2> DEFINE t == c[i]
             D == Characters \ {"ue"}
  <2>1. t \in Seq(Characters) /\ ~Has(t, {"ue"})
    BY DEF Narrow
  <2>2. D \subseteq NarrowSigns /\ "ue" \notin D
    BY CharactersAssumption DEF NarrowSigns, Lead, Trail
  <2> HIDE DEF t
  <2>3. t \in Seq(D)
    BY <2>1, TextLacks
  <2> HIDE DEF D
  <2>4. t \in Seq(NarrowSigns) /\ Utf8(t) = t
    BY <2>2, <2>3, MoreCharacters, Utf8Same
  <2> QED
    BY <2>4 DEF t
<1> DEFINE T == Seq(NarrowSigns)
           U == Seq(Characters)
<1>2. c \in Seq(U) /\ \A i \in DOMAIN c : c[i] \in T
  BY <1>1
<1> HIDE DEF T, U
<1>3. c \in Seq(T)
  BY <1>2
<1> QED
  BY <1>1, <1>3 DEF T

LEMMA RunKeyLaunches ==
  ASSUME platform = "windows", NEW c \in Commands, Parts(c[1], Tail(c)) = c,
         Launchable(c[1], Tail(c)), Startable(c),
         entry = EntryFor(c[1], Tail(c)), entry \notin {None, Torn}
  PROVE  Launched = c
<1> DEFINE line == Command([c EXCEPT ![1] = <<Quote>> \o @ \o <<Quote>>])
           C == NarrowSigns
<1>1. c \in Seq(Seq(Letters)) /\ c # <<>> /\ c \in Seq(Seq(C))
  <2>1. Narrow(c)
    BY DEF Startable
  <2> QED
    BY <2>1, CommandIs, NarrowIs
<1>2. Backslash \in C /\ Quote \in C /\ Blank \in C /\ "ue" \notin C /\ "C3" \notin C /\ "BC" \notin C
  BY NarrowSignsHave
<1> HIDE DEF C
<1>3. ~Has(c[1], {Quote, Backslash})
  BY DEF Startable, Launchable, Has
<1>4. \A i \in DOMAIN c \ {1} : ~Has(c[i], {Quote, Blank, Tab})
  <2>1. \A i \in DOMAIN c \ {1} : ~Has(c[i], {Blank, Tab, Quote})
    BY DEF Startable, Blank, Tab
  <2>2. {Blank, Tab, Quote} = {Quote, Blank, Tab}
    OBVIOUS
  <2> QED
    BY <2>1, <2>2
<1>5. \A i \in DOMAIN c \ {1} : c[i] # <<>>
  <2> SUFFICES ASSUME NEW i \in DOMAIN c \ {1} PROVE c[i] # <<>>
    OBVIOUS
  <2> DEFINE args == Tail(c)
  <2>1. /\ \A j \in DOMAIN args : args[j] = c[j + 1]
        /\ Len(args) = Len(c) - 1 /\ args \in Seq(Seq(Letters))
    BY CommandIs
  <2>2. \A j \in DOMAIN args : args[j] # <<>>
    BY DEF Launchable
  <2> HIDE DEF args
  <2>3. i - 1 \in DOMAIN args /\ (i - 1) + 1 = i
    BY <1>1, <2>1
  <2> DEFINE j == i - 1
  <2>4. j \in DOMAIN args /\ j + 1 = i
    BY <2>3
  <2> HIDE DEF j
  <2> QED
    BY <2>1, <2>2, <2>4
<1>6. WindowsWords(line) = c /\ line \in Seq(C)
  BY <1>1, <1>2, <1>3, <1>4, <1>5, RunKeyStarts
<1>7. entry = Misread(line)
  BY DEF EntryFor, RunKey
<1> HIDE DEF line
<1>8. Misread(line) = line
  BY <1>2, <1>6, MisreadSame
<1> QED
  BY <1>6, <1>7, <1>8 DEF Launched

LEMMA EntryLaunches ==
  ASSUME platform \in Platforms, NEW c \in Commands, Launchable(c[1], Tail(c)), Startable(c),
         entry = EntryFor(c[1], Tail(c))
  PROVE  Launched = c
<1>1. entry \notin {None, Torn}
  BY EntrySet
<1>2. Parts(c[1], Tail(c)) = c
  <2>1. \A i \in DOMAIN c : ~Has(c[i], {NL})
    BY DEF Startable, Has
  <2> QED
    BY <2>1, PartsAre
<1>3. platform \in {"linux", "macos", "windows"}
  BY PlatformsAssumption
<1> QED
  BY <1>1, <1>2, <1>3, AgentLaunches, AutostartLaunches, RunKeyLaunches

(* The bytes of commands, and what stands between them.                    *)
Octets ==
  Characters \cup {Lead, Trail, NL, Quote, Backslash, Blank} \cup Figures

LEMMA OctetsHave ==
  /\ Characters \subseteq Octets /\ Lead \in Octets /\ Trail \in Octets /\ NL \in Octets
  /\ Quote \in Octets /\ Backslash \in Octets /\ Blank \in Octets /\ DigitsIn(Octets)
  /\ "broken" \notin Octets
<1>1. \A d \in 1 .. 10 : Digits[d] # "broken"
  BY DEF Digits
<1>2. "broken" \notin {Lead, Trail, NL, Quote, Backslash, Blank}
  BY DEF Lead, Trail, NL, Quote, Backslash, Blank
<1>3. "broken" \notin Characters
  BY CharactersAssumption
<1>4. "broken" \notin Octets
  BY <1>1, <1>2, <1>3 DEF Octets, Figures
<1>5. DigitsIn(Octets)
  BY DEF Octets, DigitsIn, Figures
<1> QED
  BY <1>4, <1>5 DEF Octets

(* What ProgramsGetTheirArguments says of a service.                       *)
ServiceArrives ==
  platform # "windows" \/ Narrow(service) =>
    /\ Len(received) = Len(service)
    /\ \A i \in DOMAIN service :
         IF platform = "windows"
         THEN /\ Squeezed(received[i]) = Squeezed(service[i])
              /\ ~Has(service[i], {Backslash}) => received[i] = service[i]
         ELSE received[i] = Utf8(service[i])

(* A service that starts gets its arguments.                               *)
LEMMA ServiceStarts ==
  ASSUME NEW c \in Commands, StartService(c[1], Tail(c))
  PROVE  ServiceArrives'
<1> DEFINE texts == [i \in DOMAIN c |-> Utf8(c[i])]
           words == ParsedPacket(CommandPacket(c))
           found == /\ words # Broken /\ words[1] # <<>>
                    /\ platform = "windows" => FromAnsi(words[1]) = words[1]
           line == FromAnsi(CommandLine(words))
<1>1. c \in Seq(Seq(Characters)) /\ c # <<>> /\ c[1] # <<>> /\ <<c[1]>> \o Tail(c) = c
  BY CommandIs
<1>2. texts \in Seq(Seq(Octets)) /\ Len(texts) = Len(c) /\ words = texts
  <2> DEFINE D == Characters
             C == Octets
  <2>1. /\ D \subseteq C /\ Lead \in C /\ Trail \in C /\ DigitsIn(C) /\ NL \in C
        /\ c \in Seq(Seq(D))
    BY <1>1, OctetsHave
  <2> HIDE DEF D, C
  <2> QED
    BY <1>1, <2>1, CommandParsed DEF C
<1>3. \A i \in DOMAIN c : texts[i] = Utf8(c[i])
  OBVIOUS
<1>4. 1 \in DOMAIN c /\ c[1] \in Seq(Characters)
  BY <1>1
<1>5. texts[1] \in Seq(Octets) /\ texts[1] # <<>>
  <2>1. Utf8(c[1]) # <<>> /\ Utf8(c[1]) \in Seq(Octets)
    BY <1>1, <1>4, OctetsHave, Utf8Type
  <2> QED
    BY <1>3, <1>4, <2>1
<1>6. service' = c /\ platform' = platform
      /\ received' = IF ~found THEN Unknown
                     ELSE IF platform = "windows" THEN WindowsWords(line) ELSE words
  BY <1>1 DEF StartService
<1> HIDE DEF words, texts, line
<1>7. words # Broken
  <2>1. 1 \in DOMAIN texts[1] /\ texts[1][1] \in Octets
    BY <1>5
  <2>2. texts[1][1] # "broken"
    BY <2>1, OctetsHave
  <2> QED
    BY <1>2, <2>2 DEF Broken
<1>8. words # Broken /\ words[1] # <<>>
  BY <1>2, <1>5, <1>7
<1>9. texts # <<>> /\ DOMAIN texts = DOMAIN c
  BY <1>1, <1>2
<1>10. CASE platform # "windows"
  <2>1. received' = texts
    BY <1>2, <1>6, <1>8, <1>10
  <2>2. Len(received') = Len(service')
    BY <1>2, <1>6, <2>1
  <2>3. \A i \in DOMAIN service' : received'[i] = Utf8(service'[i])
    BY <1>3, <1>6, <2>1
  <2> QED
    BY <1>6, <1>10, <2>2, <2>3 DEF ServiceArrives
<1>11. CASE platform = "windows" /\ ~Narrow(c)
  <2>1. ~(platform' # "windows" \/ Narrow(service)')
    BY <1>6, <1>11 DEF Narrow
  <2> QED
    BY <2>1 DEF ServiceArrives
<1>12. CASE platform = "windows" /\ Narrow(c)
  <2>1. c \in Seq(Seq(NarrowSigns)) /\ \A i \in DOMAIN c : Utf8(c[i]) = c[i]
    BY <1>1, <1>12, NarrowIs
  <2>2. words = c
    <3> DEFINE U == Seq(Octets)
               T == Seq(NarrowSigns)
    <3>1. texts \in Seq(U) /\ c \in Seq(T)
      BY <1>2, <2>1
    <3> HIDE DEF U, T
    <3>2. texts = [i \in DOMAIN texts |-> texts[i]] /\ c = [i \in DOMAIN c |-> c[i]]
      BY <3>1
    <3>3. \A i \in DOMAIN c : texts[i] = c[i]
      BY <1>3, <2>1
    <3>4. [i \in DOMAIN texts |-> texts[i]] = [i \in DOMAIN c |-> c[i]]
      BY <1>9, <3>3
    <3> QED
      BY <1>2, <3>2, <3>4
  <2> DEFINE n == Len(c)
             W == [k \in DOMAIN c |-> Same(NarrowSigns, c[k])]
             got == WindowsWords(CommandLine(c))
  <2>3. Upto(W, got, n) /\ CommandLine(c) \in Seq(NarrowSigns)
    BY <1>1, <2>1, NarrowSignsHave, ServiceLine
  <2>4. FromAnsi(CommandLine(c)) = CommandLine(c)
    BY <2>3, NarrowSignsHave, AnsiSame
  <2>5. FromAnsi(c[1]) = c[1]
    <3>1. c[1] \in Seq(NarrowSigns)
      BY <1>4, <2>1
    <3> QED
      BY <3>1, NarrowSignsHave, AnsiSame
  <2>6. received' = got
    <3>1. found
      BY <1>8, <2>2, <2>5
    <3>2. line = CommandLine(c)
      BY <2>2, <2>4 DEF line
    <3> HIDE DEF found
    <3> QED
      BY <1>6, <1>12, <3>1, <3>2
  <2>7. DOMAIN c = 1 .. n /\ \A k \in 1 .. n : W[k] = Same(NarrowSigns, c[k])
    BY <1>1
  <2> HIDE DEF n, W, got
  <2>8. Len(got) = n /\ \A k \in 1 .. n : got[k] \in W[k]
    BY <2>3 DEF Upto
  <2>9. \A i \in DOMAIN c :
          /\ Squeezed(got[i]) = Squeezed(c[i])
          /\ ~Has(c[i], {Backslash}) => got[i] = c[i]
    BY <2>7, <2>8 DEF Same
  <2>10. Len(received') = Len(service')
    BY <1>6, <2>6, <2>8 DEF n
  <2>11. \A i \in DOMAIN service' :
          /\ Squeezed(received'[i]) = Squeezed(service'[i])
          /\ ~Has(service'[i], {Backslash}) => received'[i] = service'[i]
    BY <1>6, <2>6, <2>9
  <2> QED
    BY <1>6, <1>12, <2>10, <2>11 DEF ServiceArrives
<1> QED
  BY <1>10, <1>11, <1>12

(* A login entry is none, torn, or what was last set.                      *)
EntryMade ==
  \/ entry = None /\ meant = Nothing
  \/ entry = Torn /\ meant = Unknown
  \/ \E c \in Commands : /\ Launchable(c[1], Tail(c))
                         /\ entry = EntryFor(c[1], Tail(c)) /\ meant = c

(* The inductive invariant of login entries and services.                  *)
ProgramsInv == platform \in Platforms /\ EntryMade /\ ServiceArrives

LEMMA ProgramsStart == TextInit => ProgramsInv
<1> SUFFICES ASSUME TextInit PROVE ProgramsInv
  OBVIOUS
<1>1. platform \in Platforms /\ entry = None /\ meant = Nothing /\ service = <<>> /\ received = <<>>
  BY DEF TextInit, ProgramInit, Nothing
<1>2. ServiceArrives
  BY <1>1 DEF ServiceArrives
<1> QED
  BY <1>1, <1>2 DEF ProgramsInv, EntryMade

LEMMA EntryKept ==
  ASSUME EntryMade, UNCHANGED <<platform, entry, meant>>
  PROVE  EntryMade'
  BY DEF EntryMade, EntryFor, LaunchAgent, AutostartEntry, RunKey

LEMMA ServiceKept ==
  ASSUME ServiceArrives, UNCHANGED <<platform, service, received>>
  PROVE  ServiceArrives'
  BY DEF ServiceArrives, Narrow

(* Each step keeps it.                                                     *)
LEMMA ProgramsStep ==
  ASSUME ProgramsInv, [TextNext]_textVars
  PROVE  ProgramsInv'
<1> USE DEF ProgramsInv
<1>1. CASE LoginStep
  <2>1. CASE \E c \in Commands : Enable(c[1], Tail(c))
    <3>1. PICK c \in Commands : Enable(c[1], Tail(c))
      BY <2>1
    <3>2. <<c[1]>> \o Tail(c) = c
      BY CommandIs
    <3>3. UNCHANGED <<platform, service, received>>
      BY <3>1 DEF Enable
    <3>4. CASE entry' = EntryFor(c[1], Tail(c)) /\ meant' = <<c[1]>> \o Tail(c)
      <4>1. entry' = EntryFor(c[1], Tail(c))'
        BY <3>3, <3>4 DEF EntryFor, LaunchAgent, AutostartEntry, RunKey
      <4>2. Launchable(c[1], Tail(c))
        BY <3>1 DEF Enable
      <4>3. EntryMade'
        BY <3>2, <3>4, <4>1, <4>2 DEF EntryMade
      <4> QED
        BY <3>3, <4>3, ServiceKept
    <3>5. CASE entry' = Torn /\ meant' = Unknown
      <4>1. EntryMade'
        BY <3>5 DEF EntryMade
      <4> QED
        BY <3>3, <4>1, ServiceKept
    <3>6. CASE UNCHANGED <<entry, meant>>
      BY <3>3, <3>6, EntryKept, ServiceKept
    <3> QED
      BY <3>1, <3>4, <3>5, <3>6 DEF Enable
  <2>2. CASE Disable
    <3>1. UNCHANGED <<platform, service, received>>
      BY <2>2 DEF Disable
    <3>2. CASE entry' = None /\ meant' = Nothing
      <4>1. EntryMade'
        BY <3>2 DEF EntryMade
      <4> QED
        BY <3>1, <4>1, ServiceKept
    <3>3. CASE UNCHANGED <<entry, meant>>
      BY <3>1, <3>3, EntryKept, ServiceKept
    <3> QED
      BY <2>2, <3>2, <3>3 DEF Disable
  <2> QED
    BY <1>1, <2>1, <2>2 DEF LoginStep
<1>2. CASE ServiceStep
  <2>1. CASE \E c \in Commands : StartService(c[1], Tail(c))
    <3>1. PICK c \in Commands : StartService(c[1], Tail(c))
      BY <2>1
    <3>2. ServiceArrives'
      BY <3>1, ServiceStarts
    <3>3. UNCHANGED <<platform, entry, meant>>
      BY <3>1 DEF StartService
    <3> QED
      BY <3>2, <3>3, EntryKept
  <2>2. CASE StopService
    <3>1. UNCHANGED <<platform, entry, meant>> /\ service' = <<>> /\ received' = <<>>
      BY <2>2 DEF StopService, Nothing
    <3>2. ServiceArrives'
      BY <3>1 DEF ServiceArrives
    <3> QED
      BY <3>1, <3>2, EntryKept
  <2> QED
    BY <1>2, <2>1, <2>2 DEF ServiceStep
<1>3. CASE DialogStep
  <2>1. UNCHANGED <<platform, entry, meant, service, received>>
    BY <1>3 DEF DialogStep, programVars, Ask, UserChooses, UserCancels, ToolFails, Answer
  <2> QED
    BY <2>1, EntryKept, ServiceKept
<1>4. CASE PacketStep
  <2>1. UNCHANGED <<platform, entry, meant, service, received>>
    BY <1>4 DEF PacketStep, programVars, Handoff, Asset, Load, Forget
  <2> QED
    BY <2>1, EntryKept, ServiceKept
<1>5. CASE UNCHANGED textVars
  <2>1. UNCHANGED <<platform, entry, meant, service, received>>
    BY <1>5 DEF textVars, programVars
  <2> QED
    BY <2>1, EntryKept, ServiceKept
<1> QED
  BY <1>1, <1>2, <1>3, <1>4, <1>5 DEF TextNext

(* It is more than the property says.                                      *)
LEMMA ProgramsInvHolds == ProgramsInv => ProgramsGetTheirArguments
<1> SUFFICES ASSUME ProgramsInv PROVE ProgramsGetTheirArguments
  OBVIOUS
<1>1. platform \in Platforms /\ EntryMade /\ ServiceArrives
  BY DEF ProgramsInv
<1>2. ASSUME meant # Unknown
      PROVE  /\ meant = Nothing \/ Startable(meant) => Launched = meant
             /\ Status = IF meant = Nothing THEN 0 ELSE 1
  <2>1. CASE entry = None /\ meant = Nothing
    BY <2>1 DEF Launched, Status
  <2>2. CASE \E c \in Commands : /\ Launchable(c[1], Tail(c))
                                 /\ entry = EntryFor(c[1], Tail(c)) /\ meant = c
    <3>1. PICK c \in Commands : /\ Launchable(c[1], Tail(c))
                                /\ entry = EntryFor(c[1], Tail(c)) /\ meant = c
      BY <2>2
    <3>2. c # <<>>
      BY CommandIs
    <3>3. entry # None
      BY <1>1, <3>1, EntrySet
    <3>4. Startable(c) => Launched = c
      BY <1>1, <3>1, EntryLaunches
    <3> QED
      BY <3>1, <3>2, <3>3, <3>4 DEF Status, Nothing
  <2> QED
    BY <1>1, <1>2, <2>1, <2>2 DEF EntryMade
<1> QED
  BY <1>1, <1>2 DEF ProgramsGetTheirArguments, ServiceArrives

(* A program started at login, or as a service, is the one that was asked  *)
(* for and gets its arguments, as many and each as it was (on Windows if   *)
(* all letters are of one byte, and but for runs of backslashes); and an   *)
(* entry is told to be there when it is.                                   *)
THEOREM ArgumentsArrive == TextSpec => []ProgramsGetTheirArguments
<1>1. TextInit => ProgramsInv
  BY ProgramsStart
<1>2. ProgramsInv /\ [TextNext]_textVars => ProgramsInv'
  BY ProgramsStep
<1>3. ProgramsInv => ProgramsGetTheirArguments
  BY ProgramsInvHolds
<1> QED
  BY <1>1, <1>2, <1>3, PTL DEF TextSpec

LEMMA NowhereIs ==
  ASSUME NEW C, NEW p \in Seq(C), NEW x, ~Has(p, {x})
  PROVE  First(p, x, 0)
<1>1. {i \in 1 .. Len(p) : p[i] = x} = {}
  BY DEF Has
<1> QED
  BY <1>1 DEF First, SelectInSeq

-----------------------------------------------------------------------------
(* Handoff packets.                                                        *)

(* A text that is a line t and then u.                                     *)
Splits(p, t, u) == LineEnd(p) = Len(t) + 1 /\ Line(p) = t /\ Rest(p) = u

(* The first line of a text, and what comes after it.                      *)
LEMMA LineSplits ==
  ASSUME NEW C, NL \in C, NEW t \in Seq(C), NEW u \in Seq(C), ~Has(t, {NL})
  PROVE  t \o (<<NL>> \o u) \in Seq(C) /\ Splits(t \o (<<NL>> \o u), t, u)
<1> DEFINE q == <<NL>>
           v == q \o u
           p == t \o v
           m == Len(t)
           n == m + 1
<1>1. q \in Seq(C) /\ Len(q) = 1 /\ q[1] = NL
  OBVIOUS
<1> HIDE DEF q
<1>2. /\ v \in Seq(C) /\ Len(v) = 1 + Len(u) /\ SubSeq(v, 2, Len(v)) = u
      /\ \A i \in 1 .. 1 : v[i] = q[i]
  <2>1. Pieces(C, v, q, u)
    BY <1>1, PiecesOf
  <2> HIDE DEF v
  <2> QED
    BY <1>1, <2>1 DEF Pieces
<1>3. v[1] = NL
  BY <1>1, <1>2
<1> HIDE DEF v
<1>4. /\ p \in Seq(C) /\ Len(p) = m + Len(v) /\ SubSeq(p, 1, m) = t /\ SubSeq(p, m + 1, Len(p)) = v
      /\ \A i \in 1 .. m : p[i] = t[i]
      /\ \A i \in 1 .. Len(v) : p[m + i] = v[i]
  <2>1. Pieces(C, p, t, v)
    BY <1>2, PiecesOf
  <2> HIDE DEF p
  <2> QED
    BY <2>1 DEF Pieces
<1>5. m \in Nat /\ \A i \in 1 .. m : t[i] # NL
  BY DEF Has
<1> HIDE DEF p
<1>6. n \in 1 .. Len(p) /\ p[n] = NL /\ \A i \in 1 .. n - 1 : p[i] # NL
  BY <1>2, <1>3, <1>4, <1>5
<1>7. First(p, NL, n)
  <2> HIDE DEF n
  <2> QED
    BY <1>4, <1>6, FirstIs
<1>8. LineEnd(p) = n
  BY <1>7 DEF LineEnd, First
<1>9. Line(p) = t
  <2>1. n - 1 = m
    BY <1>5
  <2> QED
    BY <1>4, <1>8, <2>1 DEF Line
<1>10. Rest(p) = u
  <2> DEFINE w == SubSeq(p, n + 1, Len(p))
             k == Len(u)
  <2>1. k \in Nat /\ n + 1 = m + 2 /\ Len(p) = m + 1 + k /\ Len(v) = k + 1
    BY <1>2, <1>4, <1>5
  <2>2. w \in Seq(C) /\ Len(w) = k /\ \A i \in 1 .. k : w[i] = p[m + 1 + i]
    <3> HIDE DEF m, k
    <3> QED
      BY <1>4, <1>5, <2>1
  <2>3. \A i \in 1 .. k : u[i] = v[i + 1]
    <3> DEFINE x == SubSeq(v, 2, Len(v))
    <3>1. \A i \in 1 .. k : x[i] = v[i + 1]
      <4> HIDE DEF k
      <4> QED
        BY <1>2, <2>1
    <3>2. x = u
      BY <1>2
    <3> HIDE DEF x
    <3> QED
      BY <3>1, <3>2
  <2>4. \A i \in 1 .. k : p[m + 1 + i] = v[i + 1]
    <3> SUFFICES ASSUME NEW i \in 1 .. k PROVE p[m + 1 + i] = v[i + 1]
      OBVIOUS
    <3> DEFINE j == i + 1
    <3>1. j \in 1 .. Len(v) /\ m + 1 + i = m + j
      BY <1>5, <2>1
    <3> HIDE DEF j, m
    <3>2. p[m + j] = v[j]
      BY <1>4, <3>1
    <3> QED
      BY <3>1, <3>2 DEF j
  <2> HIDE DEF w
  <2>5. \A i \in 1 .. Len(u) : w[i] = u[i]
    BY <2>2, <2>3, <2>4
  <2>6. w = u
    BY <2>2, <2>5, SeqEqual
  <2> QED
    BY <1>8, <2>6 DEF Rest, w
<1> QED
  BY <1>4, <1>8, <1>9, <1>10 DEF Splits, p, v, q

LEMMA NoText ==
  Line(<<>>) = <<>>
<1> DEFINE e == <<>>
<1>1. e \in Seq({}) /\ ~Has(e, {NL})
  BY DEF Has
<1>2. Len(e) = 0
  OBVIOUS
<1> HIDE DEF e
<1> DEFINE D == {}
<1>3. e \in Seq(D)
  BY <1>1
<1> HIDE DEF D
<1>4. First(e, NL, 0)
  BY <1>1, <1>3, NowhereIs
<1>5. LineEnd(e) = 0
  BY <1>4 DEF LineEnd, First
<1>6. Line(e) = SubSeq(e, 1, 0 - 1)
  BY <1>5 DEF Line
<1> QED
  BY <1>6 DEF e

(* A decimal is a line, and read as its number.                            *)
LEMMA DecimalText ==
  ASSUME NEW n \in Nat
  PROVE  /\ Decimal[n] \in Seq(Figures) /\ Number(Decimal[n]) = n
         /\ Decimal[n] # <<>> /\ Decimal[n][1] \in Figures /\ ~Has(Decimal[n], {NL})
<1>1. Decimal[n] \in Seq(Figures) /\ Number(Decimal[n]) = n
  BY NumberReads
<1>2. Decimal[n] = DecimalOf(Decimal, n)
  BY DecimalIs
<1>3. NL \notin Figures
  BY DEF Figures, Digits, NL
<1>4. Decimal[n] # <<>>
  <2>1. CASE n < 10
    BY <1>2, <2>1 DEF DecimalOf
  <2>2. CASE n >= 10
    <3> DEFINE m == n \div 10
               c == Digits[(n % 10) + 1]
    <3>1. m \in Nat
      BY Tenth
    <3>2. Decimal[n] = Append(Decimal[m], c)
      BY <1>2, <2>2 DEF DecimalOf
    <3> HIDE DEF m, c
    <3>3. Decimal[m] \in Seq(Figures)
      BY <3>1, NumberReads
    <3> DEFINE t == Decimal[m]
               u == Append(t, c)
    <3>4. Len(u) = Len(t) + 1 /\ Len(t) \in Nat
      BY <3>3
    <3> HIDE DEF u
    <3>5. u # <<>>
      BY <3>4
    <3> QED
      BY <3>2, <3>5 DEF u
  <2> QED
    BY <2>1, <2>2
<1> DEFINE t == Decimal[n]
<1> HIDE DEF t
<1>5. t \in Seq(Figures) /\ t # <<>>
  BY <1>1, <1>4 DEF t
<1>6. t[1] \in Figures /\ ~Has(t, {NL})
  BY <1>3, <1>5 DEF Has
<1> QED
  BY <1>1, <1>4, <1>6 DEF t

(* The first line of the operations.                                       *)
Version == "lepusa-ops-v3"

(* What follows the script in a packet, and the packet.                    *)
RangeOf(n, M) == <<Version>> \o (<<NL>> \o (Decimal[n] \o (<<NL>> \o M)))

(* A handoff packet, from its end.                                         *)
PacketOf(status, l, s, n, M) ==
  <<status>> \o (<<NL>> \o (l \o (<<NL>> \o (Decimal[Len(s)] \o (<<NL>> \o (s \o (<<NL>> \o RangeOf(n, M))))))))

(* An alphabet with the signs of packets.                                  *)
HasSigns(C) == NL \in C /\ Version \in C /\ Figures \subseteq C

LEMMA ALine ==
  ASSUME NEW C, NL \in C, NEW u \in Seq(C)
  PROVE  <<NL>> \o u \in Seq(C)
<1> DEFINE q == <<NL>>
<1>1. q \in Seq(C)
  OBVIOUS
<1> HIDE DEF q
<1>2. q \o u \in Seq(C)
  BY <1>1, ConcatLen
<1> QED
  BY <1>2 DEF q

LEMMA OneCharacter ==
  ASSUME NEW C, NEW c \in C, c # NL
  PROVE  <<c>> \in Seq(C) /\ ~Has(<<c>>, {NL}) /\ Len(<<c>>) = 1 /\ <<c>>[1] = c
<1>1. \A i \in DOMAIN <<c>> : <<c>>[i] # NL
  OBVIOUS
<1> QED
  BY <1>1 DEF Has

LEMMA DecimalIn ==
  ASSUME NEW C, HasSigns(C), NEW n \in Nat
  PROVE  Decimal[n] \in Seq(C) /\ ~Has(Decimal[n], {NL}) /\ Number(Decimal[n]) = n
  BY DecimalText, MoreCharacters DEF HasSigns

(* What is read from the operations, and from a packet.                    *)
RangeRead(C, n, M) ==
  LET range == RangeOf(n, M)
  IN /\ range \in Seq(C) /\ Line(range) = <<Version>> /\ Number(Line(Rest(range))) = n
     /\ Rest(Rest(range)) = M

LEMMA RangeReads ==
  ASSUME NEW C, HasSigns(C), NEW n \in Nat, NEW M \in Seq(C)
  PROVE  RangeRead(C, n, M)
<1> DEFINE d == Decimal[n]
           v == <<Version>>
           q == <<NL>>
           rest == d \o (q \o M)
           range == v \o (q \o rest)
<1>1. d \in Seq(C) /\ ~Has(d, {NL}) /\ Number(d) = n
  BY DecimalIn
<1>2. v \in Seq(C) /\ ~Has(v, {NL})
  BY OneCharacter DEF HasSigns, Version, NL
<1> HIDE DEF d, v
<1>3. NL \in C
  BY DEF HasSigns
<1>4. rest \in Seq(C) /\ Splits(rest, d, M)
  BY <1>1, <1>3, LineSplits
<1> HIDE DEF rest
<1>5. range \in Seq(C) /\ Splits(range, v, rest)
  BY <1>2, <1>3, <1>4, LineSplits
<1>6. RangeOf(n, M) = range
  BY DEF RangeOf, rest, d, v
<1> HIDE DEF range
<1> QED
  BY <1>1, <1>4, <1>5, <1>6 DEF Splits, RangeRead, v

PacketRead(C, status, l, s, n, M) ==
  LET packet == PacketOf(status, l, s, n, M)
  IN /\ packet \in Seq(C) /\ Line(packet) = <<status>> /\ Number(Line(Rest(Rest(packet)))) = Len(s)
     /\ Rest(Rest(Rest(packet))) = s \o (<<NL>> \o RangeOf(n, M))

(* The head of a packet is read as it was written.                         *)
LEMMA PacketReads ==
  ASSUME NEW C, HasSigns(C), NEW status \in C, status # NL, NEW l \in Seq(C), ~Has(l, {NL}),
         NEW s \in Seq(C), NEW n \in Nat, NEW M \in Seq(C)
  PROVE  PacketRead(C, status, l, s, n, M)
<1> DEFINE d == Decimal[Len(s)]
           a == <<status>>
           q == <<NL>>
           T == q \o RangeOf(n, M)
           body == s \o T
           third == d \o (q \o body)
           second == l \o (q \o third)
           packet == a \o (q \o second)
<1>1. d \in Seq(C) /\ ~Has(d, {NL}) /\ Number(d) = Len(s)
  <2> DEFINE k == Len(s)
  <2>1. k \in Nat
    OBVIOUS
  <2> HIDE DEF k
  <2> QED
    BY <2>1, DecimalIn DEF k
<1>2. a \in Seq(C) /\ ~Has(a, {NL})
  BY OneCharacter
<1>3. NL \in C
  BY DEF HasSigns
<1>4. T \in Seq(C)
  <2>1. RangeOf(n, M) \in Seq(C)
    BY RangeReads DEF RangeRead
  <2> QED
    BY <1>3, <2>1, ALine
<1> HIDE DEF d, a, T
<1>5. body \in Seq(C)
  BY <1>4, ConcatLen
<1> HIDE DEF body
<1>6. third \in Seq(C) /\ Splits(third, d, body)
  BY <1>1, <1>3, <1>5, LineSplits
<1> HIDE DEF third
<1>7. second \in Seq(C) /\ Splits(second, l, third)
  BY <1>3, <1>6, LineSplits
<1> HIDE DEF second
<1>8. packet \in Seq(C) /\ Splits(packet, a, second)
  BY <1>2, <1>3, <1>7, LineSplits
<1>9. PacketOf(status, l, s, n, M) = packet
  BY DEF PacketOf, second, third, body, T, d, a
<1> HIDE DEF packet
<1>10. body = s \o (<<NL>> \o RangeOf(n, M))
  BY DEF body, T
<1> QED
  BY <1>1, <1>6, <1>7, <1>8, <1>9, <1>10 DEF Splits, PacketRead, a

(* A part of a packet is read with what follows it, and so is a field.     *)
PartThen(C, s, X) ==
  PartCode(s) \in Seq(C) /\ PartCode(s) \o X = Decimal[Len(s)] \o (<<NL>> \o (s \o X))

LEMMA PartIs ==
  ASSUME NEW C, HasSigns(C), NEW s \in Seq(C), NEW X \in Seq(C)
  PROVE  PartThen(C, s, X)
<1> DEFINE d == Decimal[Len(s)]
           q == <<NL>>
<1>1. s \in Seq(C) /\ q \in Seq(C)
  BY DEF HasSigns
<1>2. PartCode(s) = (d \o q) \o s
  BY DEF PartCode
<1> HIDE DEF q
<1>3. d \in Seq(C)
  <2> DEFINE k == Len(s)
  <2>1. k \in Nat
    BY <1>1
  <2> HIDE DEF k
  <2> QED
    BY <2>1, DecimalIn DEF k
<1> HIDE DEF d
<1>4. (d \o q) \o s \in Seq(C) /\ d \o q \in Seq(C)
  BY <1>1, <1>3, Assoc DEF Associates
<1> DEFINE e == <<>>
<1>5. ((d \o q) \o s) \o X = d \o (q \o (s \o X))
  <2> DEFINE dq == d \o q
             sX == s \o X
  <2>1. dq \in Seq(C) /\ sX \in Seq(C)
    BY <1>1, <1>4, ConcatLen
  <2>2. (dq \o s) \o X = dq \o (s \o X)
    <3> HIDE DEF dq
    <3>1. Associates(C, dq, s, X)
      BY <1>1, <2>1, Assoc
    <3> QED
      BY <3>1 DEF Associates
  <2>3. (d \o q) \o sX = d \o (q \o sX)
    <3> HIDE DEF sX
    <3>1. Associates(C, d, q, sX)
      BY <1>1, <1>3, <2>1, Assoc
    <3> QED
      BY <3>1 DEF Associates
  <2> QED
    BY <2>2, <2>3
<1> QED
  BY <1>2, <1>4, <1>5 DEF d, q, PartThen

(* A field, and what comes after it.                                       *)
FieldThen(C, value, X) ==
  LET s == Utf8(value)
  IN /\ Field(value) \in Seq(C)
     /\ Field(value) \o X = Decimal[Len(s)] \o (<<NL>> \o (s \o X))

LEMMA FieldIs ==
  ASSUME NEW C, HasSigns(C), NEW value, Utf8(value) \in Seq(C), NEW X \in Seq(C)
  PROVE  FieldThen(C, value, X)
<1> DEFINE s == Utf8(value)
<1>1. Field(value) = PartCode(s)
  BY DEF Field, PartCode
<1>2. s \in Seq(C)
  OBVIOUS
<1> HIDE DEF s
<1>3. PartThen(C, s, X)
  BY <1>2, PartIs
<1> QED
  BY <1>1, <1>3 DEF PartThen, FieldThen, s

(* What the host writes is such a packet.                                  *)
LEMMA HandoffIs ==
  ASSUME NEW C, HasSigns(C), NEW status \in C, NEW label, Utf8(label) \in Seq(C),
         NEW script, Utf8(script) \in Seq(C), NEW records, Len(records) \in Nat,
         Mapped(records, OperationRecord) \in Seq(C)
  PROVE  HandoffPacket(status, label, script, records) =
           PacketOf(status, Utf8(label), Utf8(script), Len(records), Mapped(records, OperationRecord))
<1> DEFINE n == Len(records)
           M == Mapped(records, OperationRecord)
           l == Utf8(label)
           s == Utf8(script)
           f == Field(script)
           d == Decimal[n]
           q == <<NL>>
           a == <<status>>
           v == <<Version>>
           S == <<status, NL>>
           V == <<NL, Version, NL>>
           A == ((S \o l) \o q) \o f
           rest == d \o (q \o M)
           X == q \o (v \o (q \o rest))
<1>1. HandoffPacket(status, label, script, records) = (((A \o V) \o d) \o q) \o M
  BY DEF HandoffPacket, Version
<1>2. /\ q \in Seq(C) /\ a \in Seq(C) /\ v \in Seq(C) /\ S \in Seq(C) /\ V \in Seq(C)
      /\ S = a \o q /\ V = (q \o v) \o q
  <2>1. NL \in C /\ Version \in C
    BY DEF HasSigns
  <2> QED
    BY <2>1
<1>3. M \in Seq(C) /\ l \in Seq(C) /\ s \in Seq(C) /\ n \in Nat
  OBVIOUS
<1> HIDE DEF M, l, s, n
<1>4. d \in Seq(C)
  BY <1>3, DecimalIn
<1>5. f \in Seq(C) /\ \A x \in Seq(C) : f \o x = Decimal[Len(s)] \o (q \o (s \o x))
  <2>1. \A x \in Seq(C) : FieldThen(C, script, x)
    BY FieldIs
  <2> QED
    BY <1>2, <2>1 DEF FieldThen, s
<1> HIDE DEF f, d, q, a, v, S, V
<1>6. A \in Seq(C)
  <2>1. (S \o l) \o q \in Seq(C)
    BY <1>2, <1>3, Assoc DEF Associates
  <2> DEFINE y == (S \o l) \o q
  <2>2. y \in Seq(C)
    BY <2>1
  <2> HIDE DEF y
  <2>3. y \o f \in Seq(C)
    BY <1>5, <2>2, ConcatLen
  <2> QED
    BY <2>3 DEF y
<1>7. (((A \o V) \o d) \o q) \o M = A \o (V \o rest)
  <2> HIDE DEF A
  <2>1. Associates5(C, A, V, d, q, M)
    BY <1>2, <1>3, <1>4, <1>6, Assoc5
  <2> QED
    BY <2>1 DEF Associates5
<1>8. rest \in Seq(C)
  <2>1. q \o M \in Seq(C)
    BY <1>2, <1>3, ConcatLen
  <2> DEFINE y == q \o M
  <2>2. y \in Seq(C)
    BY <2>1
  <2> HIDE DEF y
  <2>3. d \o y \in Seq(C)
    BY <1>4, <2>2, ConcatLen
  <2> QED
    BY <2>3 DEF y
<1> HIDE DEF rest
<1>9. V \o rest = X /\ V \o rest \in Seq(C)
  <2>1. (q \o v) \o q \in Seq(C) /\ q \o v \in Seq(C)
    BY <1>2, Assoc DEF Associates
  <2> DEFINE qv == q \o v
             qr == q \o rest
  <2>2. (qv \o q) \o rest = qv \o (q \o rest) /\ qr \in Seq(C) /\ (qv \o q) \o rest \in Seq(C)
    <3>1. qv \in Seq(C)
      BY <2>1
    <3> HIDE DEF qv
    <3>2. Associates(C, qv, q, rest)
      BY <1>2, <1>8, <3>1, Assoc
    <3> QED
      BY <3>2 DEF Associates
  <2>3. (q \o v) \o qr = q \o (v \o qr)
    <3> HIDE DEF qr
    <3>1. Associates(C, q, v, qr)
      BY <1>2, <2>2, Assoc
    <3> QED
      BY <3>1 DEF Associates
  <2> QED
    BY <1>2, <2>2, <2>3
<1>10. X \in Seq(C)
  BY <1>9
<1> DEFINE x == V \o rest
<1>11. x \in Seq(C) /\ x = X
  BY <1>9
<1> HIDE DEF x, X
<1>12. A \o x = S \o (l \o (q \o (f \o x)))
  <2>1. Associates5(C, S, l, q, f, x)
    BY <1>2, <1>3, <1>5, <1>11, Assoc5
  <2> QED
    BY <2>1 DEF Associates5
<1>13. S \o (l \o (q \o (f \o x))) = a \o (q \o (l \o (q \o (f \o x))))
  <2> DEFINE fx == f \o x
             qfx == q \o fx
             y == l \o qfx
  <2>1. fx \in Seq(C)
    BY <1>5, <1>11, ConcatLen
  <2> HIDE DEF fx
  <2>2. qfx \in Seq(C)
    BY <1>2, <2>1, ConcatLen
  <2> HIDE DEF qfx
  <2>3. y \in Seq(C)
    BY <1>3, <2>2, ConcatLen
  <2> HIDE DEF y
  <2>4. (a \o q) \o y = a \o (q \o y)
    <3>1. Associates(C, a, q, y)
      BY <1>2, <2>3, Assoc
    <3> QED
      BY <3>1 DEF Associates
  <2> QED
    BY <1>2, <2>4 DEF y, qfx, fx
<1>14. f \o x = Decimal[Len(s)] \o (q \o (s \o x))
  BY <1>5, <1>11
<1>15. PacketOf(status, l, s, n, M) = a \o (q \o (l \o (q \o (Decimal[Len(s)] \o (q \o (s \o X))))))
  BY DEF PacketOf, RangeOf, a, q, v, X, rest, d
<1> HIDE DEF A
<1> QED
  BY <1>1, <1>7, <1>11, <1>12, <1>13, <1>14, <1>15 DEF x, n, M, l, s

(* The fields of records.                                                  *)
LEMMA NumberType ==
  ASSUME NEW C, NEW text \in Seq(C)
  PROVE  Number(text) \in Int
<1> DEFINE z == 0
           I == Int
<1>1. z \in I
  OBVIOUS
<1>2. Reader(DigitsOf(C), Int, C)
  BY DigitsOfReader
<1>3. FoldLeft(DigitStep, 0, text) = Run(DigitsOf(C), z, text)
  BY DigitsOfRun
<1>4. Reader(DigitsOf(C), I, C)
  BY <1>2
<1> HIDE DEF I, z
<1>5. Run(DigitsOf(C), z, text) \in I
  BY <1>1, <1>4, RunType
<1> QED
  BY <1>3, <1>5 DEF Number, I

LEMMA RestType ==
  ASSUME NEW C, NEW text \in Seq(C)
  PROVE  Line(text) \in Seq(C) /\ Rest(text) \in Seq(C)
<1> DEFINE I == {i \in 1 .. Len(text) : text[i] = NL}
           n == LineEnd(text)
<1>1. n = IF I # {} THEN Min(I) ELSE 0
  BY DEF LineEnd, SelectInSeq
<1>2. n \in 0 .. Len(text)
  <2>1. \A i \in I : i \in 1 .. Len(text)
    OBVIOUS
  <2>2. I # {} => Min(I) \in I
    <3>1. I \in SUBSET Nat
      OBVIOUS
    <3> HIDE DEF I
    <3>2. I # {} => \E k \in I : \A j \in I : k <= j
      BY <3>1, SmallestOf
    <3> QED
      BY <3>2 DEF Min
  <2> HIDE DEF I, n
  <2> QED
    BY <1>1, <2>1, <2>2
<1> HIDE DEF n
<1>3. SubSeq(text, 1, n - 1) \in Seq(C) /\ SubSeq(text, n + 1, Len(text)) \in Seq(C)
  BY <1>2
<1> QED
  BY <1>3 DEF Line, Rest, n

(* The states of the reader of fields.                                     *)
FieldStates(C) == [fields : Seq(Seq(C)), rest : Seq(C)]

At(fields, rest) == [fields |-> fields, rest |-> rest]

LEMMA AtType ==
  ASSUME NEW C, NEW f \in Seq(Seq(C)), NEW r \in Seq(C)
  PROVE  At(f, r) \in FieldStates(C) /\ At(f, r).fields = f /\ At(f, r).rest = r
  BY DEF At, FieldStates

LEMMA ReadFieldType ==
  ASSUME NEW C, Broken \in Seq(Seq(C)), NEW s \in FieldStates(C)
  PROVE  ReadField(s) \in FieldStates(C)
<1> DEFINE n == Number(Line(s.rest))
           body == Rest(s.rest)
           value == SubSeq(body, 1, n)
           more == SubSeq(body, n + 1, Len(body))
           broken == s.fields = Broken \/ LineEnd(s.rest) = 0 \/ n < 0 \/ n > Len(body)
<1>1. s.fields \in Seq(Seq(C)) /\ s.rest \in Seq(C) /\ [s EXCEPT !.fields = Broken] \in FieldStates(C)
  BY DEF FieldStates
<1>2. body \in Seq(C) /\ n \in Int
  <2> DEFINE l == Line(s.rest)
  <2>1. l \in Seq(C) /\ body \in Seq(C)
    BY <1>1, RestType
  <2> HIDE DEF l
  <2> QED
    BY <2>1, NumberType DEF l
<1>3. ReadField(s) = IF broken THEN [s EXCEPT !.fields = Broken] ELSE At(Append(s.fields, value), more)
  BY DEF ReadField, At
<1> HIDE DEF n, body
<1>4. ~broken => value \in Seq(C) /\ more \in Seq(C)
  BY <1>2
<1> DEFINE f == s.fields
<1>5. f \in Seq(Seq(C))
  BY <1>1
<1> HIDE DEF value, more, broken, f
<1>6. ~broken => Append(f, value) \in Seq(Seq(C))
  BY <1>4, <1>5
<1> DEFINE g == Append(f, value)
<1>7. ~broken => g \in Seq(Seq(C))
  BY <1>6
<1> HIDE DEF g
<1>8. ~broken => At(g, more) \in FieldStates(C)
  BY <1>4, <1>7, AtType
<1> QED
  BY <1>1, <1>3, <1>8 DEF g, f

(* The reader of fields: the number it is given is not used.               *)
FieldsOf(C) == [x \in FieldStates(C) \X Nat |-> ReadField(x[1])]

(* It keeps to the states, and its fold is its run.                        *)
LEMMA FieldsReader ==
  ASSUME NEW C, Broken \in Seq(Seq(C))
  PROVE  Reader(FieldsOf(C), FieldStates(C), Nat)
  BY ReadFieldType DEF FieldsOf, Reader

LEMMA FieldsRun ==
  ASSUME NEW C, Broken \in Seq(Seq(C)), NEW s0 \in FieldStates(C), NEW text \in Seq(Nat)
  PROVE  FoldLeft(LAMBDA s, i : ReadField(s), s0, text) = Run(FieldsOf(C), s0, text)
<1> DEFINE Eq(h) == h = [T \in SUBSET DOMAIN text |->
                           IF T = {} THEN s0 ELSE ReadField(h[T \ {Max(T)}])]
           v == FoldLeft(LAMBDA s, i : ReadField(s), s0, text)
           St == FieldStates(C)
           F == FieldsOf(C)
<1>1. v = (CHOOSE h : Eq(h))[DOMAIN text]
  BY DEF FoldLeft, MapThenFoldSet
<1> HIDE DEF v
<1> DEFINE M == Nat
<1>2. Reader(F, St, M) /\ text \in Seq(M)
  BY FieldsReader
<1> HIDE DEF M
<1>3. PICK f \in [SUBSET DOMAIN text -> St] : Folds(F, s0, text, f)
  <2> HIDE DEF F, St
  <2>1. s0 \in St
    BY DEF St
  <2> QED
    BY <1>2, <2>1, FoldExists
<1>4. ASSUME NEW T \in SUBSET DOMAIN text, T # {}
      PROVE  Max(T) \in DOMAIN text /\ text[Max(T)] \in M /\ T \ {Max(T)} \in SUBSET DOMAIN text
  BY <1>2, <1>4, MaxOfPlaces
<1> HIDE DEF St
<1>5. Eq(f)
  BY <1>3, <1>4 DEF Folds, FieldsOf, St, M
<1>6. Eq(CHOOSE h : Eq(h))
  BY <1>5
<1> HIDE DEF Eq
<1>7. PICK h : Eq(h) /\ v = h[DOMAIN text]
  BY <1>1, <1>6
<1>8. Follows(F, St, s0, text, h)
  BY <1>4, <1>7 DEF Eq, FieldsOf, Follows, St, M
<1>9. s0 \in St
  BY DEF St
<1> HIDE DEF F
<1>10. h[DOMAIN text] = Run(F, s0, text)
  BY <1>2, <1>8, <1>9, FoldIsRun
<1> QED
  BY <1>7, <1>10 DEF v, F

(* A field is read as its text, whatever is in it.                         *)
LEMMA FieldRead ==
  ASSUME NEW C, HasSigns(C), Broken \notin Seq(Seq(C)),
         NEW fs \in Seq(Seq(C)), NEW v \in Seq(C), NEW X \in Seq(C)
  PROVE  ReadField(At(fs, PartCode(v) \o X)) = At(Append(fs, v), X)
<1> DEFINE d == Decimal[Len(v)]
           q == <<NL>>
           body == v \o X
           rest == d \o (q \o body)
           s == At(fs, rest)
           n == Len(v)
<1>1. PartCode(v) \o X = rest
  BY PartIs DEF PartThen
<1>2. d \in Seq(C) /\ ~Has(d, {NL}) /\ Number(d) = n /\ NL \in C
  <2>1. n \in Nat
    OBVIOUS
  <2> HIDE DEF n
  <2>2. Decimal[n] \in Seq(C) /\ ~Has(Decimal[n], {NL}) /\ Number(Decimal[n]) = n
    BY <2>1, DecimalIn
  <2> QED
    BY <2>2 DEF HasSigns, n
<1> HIDE DEF d
<1>3. /\ body \in Seq(C) /\ Len(body) = n + Len(X) /\ SubSeq(body, 1, n) = v
      /\ SubSeq(body, n + 1, Len(body)) = X
  BY PiecesOf DEF Pieces
<1> HIDE DEF body
<1>4. rest \in Seq(C) /\ Splits(rest, d, body)
  BY <1>2, <1>3, LineSplits
<1> HIDE DEF rest
<1>5. s.fields = fs /\ s.rest = rest
  BY DEF At
<1>6. LineEnd(rest) # 0 /\ Line(rest) = d /\ Rest(rest) = body
  BY <1>2, <1>4 DEF Splits
<1>7. ~(s.fields = Broken \/ LineEnd(s.rest) = 0 \/ n < 0 \/ n > Len(body))
  <2>1. n \in Nat /\ Len(X) \in Nat
    OBVIOUS
  <2> HIDE DEF n
  <2> QED
    BY <1>3, <1>5, <1>6, <2>1
<1> HIDE DEF s, n
<1>8. ReadField(s) = [fields |-> Append(fs, v), rest |-> X]
  BY <1>2, <1>3, <1>5, <1>6, <1>7 DEF ReadField
<1> QED
  BY <1>1, <1>8 DEF At, s

(* Fields of texts.                                                        *)
PartCodes(values) == [i \in DOMAIN values |-> PartCode(values[i])]

LEMMA PartCodesAre ==
  ASSUME NEW C, HasSigns(C), NEW values \in Seq(Seq(C))
  PROVE  /\ PartCodes(values) \in Seq(Seq(C)) /\ Len(PartCodes(values)) = Len(values)
         /\ \A i \in DOMAIN values : PartCodes(values)[i] = PartCode(values[i])
<1> DEFINE codes == PartCodes(values)
           D == Seq(C)
           e == <<>>
<1>1. codes = [i \in DOMAIN values |-> codes[i]] /\ \A i \in DOMAIN values : codes[i] = PartCode(values[i])
  BY DEF PartCodes
<1>2. ASSUME NEW i \in DOMAIN values PROVE PartCode(values[i]) \in Seq(C)
  <2> DEFINE s == values[i]
  <2>1. s \in Seq(C) /\ e \in Seq(C)
    BY EmptyType
  <2> HIDE DEF s, e
  <2>2. PartThen(C, s, e)
    BY <2>1, PartIs
  <2> QED
    BY <2>2 DEF PartThen, s
<1>3. values \in Seq(D)
  OBVIOUS
<1> HIDE DEF codes, D
<1>4. Coded(codes, values, C)
  BY <1>1, <1>2 DEF Coded
<1> QED
  BY <1>1, <1>3, <1>4, CodesType DEF codes

(* What is left of the parts of a packet after so many of them.            *)
Left(values, k) == FlattenSeq(From(PartCodes(values), k))

(* What is left to read after k fields.                                    *)
LEMMA LeftIs ==
  ASSUME NEW C, HasSigns(C), NEW values \in Seq(Seq(C)), NEW k \in 0 .. Len(values) - 1
  PROVE  Left(values, k + 1) \in Seq(C) /\ Left(values, k) = PartCode(values[k + 1]) \o Left(values, k + 1)
<1> DEFINE codes == PartCodes(values)
           D == Seq(C)
           j == k + 1
           t == codes[j]
           ss == From(codes, j)
<1>1. codes \in Seq(D) /\ k \in 0 .. Len(codes) - 1
  BY PartCodesAre
<1>2. j \in DOMAIN values
  OBVIOUS
<1>3. t = PartCode(values[j])
  BY <1>2, PartCodesAre
<1> HIDE DEF D, codes
<1>4. ss \in Seq(D) /\ t \in D /\ From(codes, k) = <<t>> \o ss
  BY <1>1, FromIs
<1> HIDE DEF t, ss
<1>5. FlattenSeq(<<t>> \o ss) = t \o FlattenSeq(ss) /\ FlattenSeq(ss) \in Seq(C)
  BY <1>4, FlattenCons, FlattenType DEF D
<1> QED
  BY <1>3, <1>4, <1>5 DEF Left, codes, ss, j

LEMMA LeftEnds ==
  ASSUME NEW C, HasSigns(C), NEW values \in Seq(Seq(C))
  PROVE  Left(values, 0) = FlattenSeq(PartCodes(values)) /\ Left(values, Len(values)) = <<>>
         /\ Left(values, 0) \in Seq(C)
<1> DEFINE codes == PartCodes(values)
           n == Len(values)
<1>1. codes \in Seq(Seq(C)) /\ Len(codes) = n
  BY PartCodesAre
<1> HIDE DEF codes
<1>2. From(codes, 0) = codes
  BY <1>1 DEF From
<1>3. From(codes, n) = <<>>
  <2>1. n \in 0 .. Len(codes) /\ Len(codes) - n = 0
    BY <1>1
  <2> HIDE DEF n
  <2>2. Len(From(codes, n)) = 0 /\ From(codes, n) \in Seq(Seq(C))
    BY <1>1, <2>1, FromHas
  <2> QED
    BY <2>2
<1>4. FlattenSeq(codes) \in Seq(C)
  BY <1>1, FlattenType
<1> QED
  BY <1>2, <1>3, <1>4, FlattenEmpty DEF Left, codes

(* The numbers a fold over n fields is over.                               *)
Counted(n) == [i \in 1 .. n |-> i]

(* The fields of a packet are read one by one.                             *)
LEMMA FieldsRead ==
  ASSUME NEW C, HasSigns(C), Broken \notin Seq(Seq(C)), NEW values \in Seq(Seq(C))
  PROVE  FoldLeft(LAMBDA s, i : ReadField(s), At(<<>>, FlattenSeq(PartCodes(values))),
                  Counted(Len(values))) = At(values, <<>>)
<1> DEFINE b == Broken[1][1]
           B == C \cup {b}
           St == FieldStates(B)
           F == FieldsOf(B)
           N == Nat
           n == Len(values)
           text == Counted(n)
           S(k) == At(SubSeq(values, 1, k), Left(values, k))
           I == [k \in 0 .. Len(text) |-> {S(k)}]
           e == <<>>
<1>1. n \in Nat /\ Len(text) = n /\ text \in Seq(N)
  BY DEF Counted
<1>2. Broken \in Seq(Seq(B))
  <2>1. Broken = <<<<b>>>>
    BY DEF Broken
  <2> HIDE DEF b
  <2>2. b \in B
    OBVIOUS
  <2> HIDE DEF B
  <2> QED
    BY <2>1, <2>2
<1>3. C \subseteq B
  OBVIOUS
<1> HIDE DEF B, text
<1>4. ASSUME NEW k \in 0 .. n PROVE SubSeq(values, 1, k) \in Seq(Seq(C)) /\ Left(values, k) \in Seq(C)
  <2>1. SubSeq(values, 1, k) \in Seq(Seq(C))
    OBVIOUS
  <2>2. Left(values, k) \in Seq(C)
    <3>1. CASE k = 0
      BY <3>1, LeftEnds
    <3>2. CASE k # 0
      <4> DEFINE j == k - 1
      <4>1. j \in 0 .. Len(values) - 1 /\ k = j + 1
        BY <3>2
      <4> HIDE DEF j
      <4>2. Left(values, j + 1) \in Seq(C)
        BY <4>1, LeftIs
      <4> QED
        BY <4>1, <4>2
    <3> QED
      BY <3>1, <3>2
  <2> QED
    BY <2>1, <2>2
<1>5. ASSUME NEW k \in 0 .. n PROVE S(k) \in St
  <2> DEFINE v == SubSeq(values, 1, k)
             r == Left(values, k)
  <2>1. v \in Seq(Seq(C)) /\ r \in Seq(C)
    BY <1>4
  <2> HIDE DEF v, r, n
  <2>2. v \in Seq(Seq(B)) /\ r \in Seq(B)
    BY <1>3, <2>1, MoreTexts, MoreCharacters
  <2>3. At(v, r) \in St
    BY <2>2, AtType
  <2> QED
    BY <2>3 DEF v, r
<1> HIDE DEF St
<1>6. \A k \in 0 .. n : I[k] = {S(k)}
  BY <1>1
<1>7. Stages(I, text, St)
  <2>1. \A k \in 0 .. Len(text) : I[k] \in SUBSET St
    BY <1>1, <1>5, <1>6
  <2>2. I = [k \in 0 .. Len(text) |-> I[k]]
    OBVIOUS
  <2> HIDE DEF I
  <2> QED
    BY <2>1, <2>2 DEF Stages
<1> HIDE DEF I
<1>8. Moves(F, text, I)
  <2> SUFFICES ASSUME NEW k \in 0 .. Len(text) - 1, NEW s \in I[k]
               PROVE  F[<<s, text[k + 1]>>] \in I[k + 1]
    BY DEF Moves
  <2> DEFINE v == SubSeq(values, 1, k)
             u == SubSeq(values, 1, k + 1)
             c == values[k + 1]
             j == k + 1
             X == Left(values, k + 1)
             D == Seq(C)
  <2>1. k \in 0 .. n /\ j \in 0 .. n /\ k \in 0 .. Len(values) - 1 /\ text[j] \in Nat
    BY <1>1 DEF text, Counted
  <2>2. v \in Seq(D) /\ c \in D /\ u = Append(v, c)
    <3>1. values \in Seq(D)
      OBVIOUS
    <3> HIDE DEF D
    <3> QED
      BY <2>1, <3>1, LongerPrefix
  <2>3. X \in Seq(C) /\ Left(values, k) = PartCode(c) \o X
    BY <2>1, LeftIs
  <2>4. I[k] = {At(v, PartCode(c) \o X)} /\ I[j] = {At(u, X)}
    BY <1>6, <2>1, <2>3
  <2>5. s = S(k) /\ S(k) \in St
    BY <1>5, <1>6, <2>1
  <2>6. F[<<s, text[j]>>] = ReadField(s)
    BY <2>1, <2>5 DEF FieldsOf, St
  <2> HIDE DEF v, u, c, j, X, F
  <2>7. ReadField(At(v, PartCode(c) \o X)) = At(Append(v, c), X)
    BY <2>2, <2>3, FieldRead DEF D
  <2>8. F[<<s, text[j]>>] \in I[j]
    BY <2>2, <2>4, <2>6, <2>7
  <2> QED
    BY <2>8 DEF j
<1> DEFINE s0 == S(0)
<1>9. s0 = At(e, FlattenSeq(PartCodes(values))) /\ S(n) = At(values, e)
  <2>1. SubSeq(values, 1, 0) = e /\ SubSeq(values, 1, n) = values
    OBVIOUS
  <2>2. Left(values, 0) = FlattenSeq(PartCodes(values)) /\ Left(values, n) = e
    BY LeftEnds
  <2> QED
    BY <2>1, <2>2
<1>10. s0 \in I[0] /\ s0 \in St /\ I[n] = {S(n)}
  BY <1>1, <1>5, <1>6
<1>11. Reader(F, St, N)
  BY <1>2, FieldsReader DEF St
<1>12. FoldLeft(LAMBDA s, i : ReadField(s), s0, text) = Run(F, s0, text)
  <2>1. s0 \in FieldStates(B) /\ text \in Seq(Nat)
    BY <1>1, <1>10 DEF St
  <2> HIDE DEF s0
  <2> QED
    BY <1>2, <2>1, FieldsRun
<1> HIDE DEF F, N, s0, n
<1>13. Run(F, s0, text) \in I[Len(text)]
  BY <1>1, <1>7, <1>8, <1>10, <1>11, RunStages
<1>14. Run(F, s0, text) = S(n)
  BY <1>1, <1>10, <1>13
<1> HIDE DEF e
<1> QED
  BY <1>9, <1>12, <1>14 DEF text, n, e

(* Operations.                                                             *)
Minus == "-"
Yes == "true"
No == "false"
Long == "ue"

(* Digits and the words of fields are one byte each.                       *)
LEMMA SignsAreShort ==
  Long \notin Figures /\ Minus \notin Figures /\ Long # Minus /\ Long # Yes /\ Long # No
<1>1. \A d \in 1 .. 10 : Digits[d] # "ue" /\ Digits[d] # "-"
  BY DEF Digits
<1> QED
  BY <1>1 DEF Figures, Long, Minus, Yes, No

(* A number is read with its sign.                                         *)
LEMMA DecimalBytes ==
  ASSUME NEW n \in Nat
  PROVE  /\ Utf8(Decimal[n]) = Decimal[n] /\ SignedNumber(Decimal[n]) = {n}
         /\ Utf8(<<Minus>> \o Decimal[n]) = <<Minus>> \o Decimal[n]
         /\ SignedNumber(<<Minus>> \o Decimal[n]) = {0 - n}
<1> DEFINE d == Decimal[n]
           q == <<Minus>>
           C == Figures \cup {Minus}
           p == q \o d
<1>1. d \in Seq(Figures) /\ d # <<>> /\ d[1] \in Figures /\ Number(d) = n
  BY DecimalText
<1> HIDE DEF d
<1>2. Figures \subseteq C /\ Minus \in C /\ Long \notin C
  BY SignsAreShort
<1>3. q \in Seq(C) /\ Len(q) = 1 /\ q[1] = Minus
  BY <1>2
<1> HIDE DEF C, q
<1>4. d \in Seq(C)
  BY <1>1, <1>2, MoreCharacters
<1>5. Pieces(C, p, q, d)
  BY <1>3, <1>4, PiecesOf
<1>6. p \in Seq(C) /\ Len(p) = 1 + Len(d) /\ p[1] = Minus /\ Tail(p) = d
  <2>1. \A i \in 1 .. 1 : p[i] = q[i]
    BY <1>3, <1>5 DEF Pieces
  <2>2. p[1] = Minus
    <3> HIDE DEF p
    <3> QED
      BY <1>3, <2>1
  <2> HIDE DEF p
  <2>3. SubSeq(p, 2, Len(p)) = d
    BY <1>3, <1>5 DEF Pieces
  <2>4. p \in Seq(C) /\ Len(p) \in Nat \ {0}
    BY <1>3, <1>4, <1>5 DEF Pieces
  <2>5. Tail(p) = SubSeq(p, 2, Len(p))
    BY <2>4
  <2> QED
    BY <1>3, <1>5, <2>2, <2>3, <2>5 DEF Pieces
<1> HIDE DEF p
<1>7. Utf8(d) = d /\ Utf8(p) = p
  BY <1>2, <1>4, <1>6, Utf8Same DEF Long
<1>8. d[1] # Minus
  BY <1>1, SignsAreShort
<1>9. SignedNumber(d) = {n}
  BY <1>1, <1>8 DEF SignedNumber, Minus
<1>10. SignedNumber(p) = {0 - n}
  <2>1. p # <<>>
    BY <1>4, <1>6
  <2>2. p[1] = "-"
    BY <1>6 DEF Minus
  <2>3. SignedNumber(p) = IF Tail(p) = <<>> \/ Number(Tail(p)) < 0 THEN {} ELSE {0 - Number(Tail(p))}
    BY <2>1, <2>2 DEF SignedNumber
  <2> DEFINE x == Tail(p)
  <2>4. x = d
    BY <1>6
  <2> HIDE DEF x
  <2>5. x # <<>> /\ Number(x) = n
    BY <1>1, <2>4
  <2>6. SignedNumber(p) = IF x = <<>> \/ Number(x) < 0 THEN {} ELSE {0 - Number(x)}
    BY <2>3 DEF x
  <2> HIDE DEF p
  <2>7. SignedNumber(p) = {0 - Number(x)}
    BY <2>5, <2>6
  <2> QED
    BY <2>5, <2>7
<1> QED
  BY <1>7, <1>9, <1>10 DEF d, p, q

(* What a packet has in it.                                                *)
Statuses == {"immediate", "deferred", "error"}

(* The characters of handoff packets.                                      *)
Wire == Characters \cup {Lead, Trail, NL, Version, Minus, Yes, No} \cup Figures \cup Statuses

LEMMA WireHas ==
  /\ Characters \subseteq Wire /\ Figures \subseteq Wire /\ Statuses \subseteq Wire
  /\ {Lead, Trail, Minus, Yes, No} \subseteq Wire
  /\ HasSigns(Wire) /\ Broken \notin Seq(Seq(Wire))
<1> DEFINE b == Broken[1][1]
<1>1. Broken = <<<<b>>>> /\ b = "broken"
  BY DEF Broken
<1>2. \A d \in 1 .. 10 : Digits[d] # "broken"
  BY DEF Digits
<1>3. "broken" \notin {Lead, Trail, NL, Version, Minus, Yes, No} \cup Statuses
  BY DEF Lead, Trail, NL, Version, Minus, Yes, No, Statuses
<1>4. "broken" \notin Characters
  BY CharactersAssumption
<1>5. b \notin Wire
  BY <1>1, <1>2, <1>3, <1>4 DEF Wire, Figures
<1> HIDE DEF b
<1>6. Broken \notin Seq(Seq(Wire))
  <2> SUFFICES ASSUME Broken \in Seq(Seq(Wire)) PROVE FALSE
    OBVIOUS
  <2> DEFINE D == Seq(Wire)
             v == Broken
             t == <<b>>
  <2>1. v \in Seq(D) /\ 1 \in DOMAIN v /\ v[1] = t
    BY <1>1
  <2> HIDE DEF v, D, t
  <2>2. t \in D
    BY <2>1
  <2>3. t \in Seq(Wire) /\ 1 \in DOMAIN t /\ t[1] = b
    BY <2>2 DEF D, t
  <2> HIDE DEF t
  <2> QED
    BY <1>5, <2>3
<1>7. HasSigns(Wire)
  BY DEF HasSigns, Wire
<1> QED
  BY <1>6, <1>7 DEF Wire

(* A number, a truth value, or none is read as it was.                     *)
LEMMA WidthRead ==
  ASSUME NEW w \in Widths
  PROVE  Utf8(IntField(w)) \in Seq(Wire) /\ SignedNumber(Utf8(IntField(w))) = w
<1>1. CASE w = {}
  <2> DEFINE e == <<>>
             C == {}
  <2>1. IntField(w) = e
    BY <1>1 DEF IntField
  <2>2. e \in Seq(C) /\ "ue" \notin C
    BY EmptyType
  <2> HIDE DEF C, e
  <2>3. Utf8(e) = e
    BY <2>2, Utf8Same
  <2>4. e \in Seq(Wire) /\ SignedNumber(e) = {}
    BY DEF e, SignedNumber
  <2> QED
    BY <1>1, <2>1, <2>3, <2>4
<1>2. CASE w # {}
  <2> DEFINE n == CHOOSE v \in w : TRUE
  <2>1. n \in w /\ w = {n} /\ n \in Int
    <3>1. w \subseteq Int /\ \A x, y \in w : x = y
      <4>1. MaxNumber \in Int
        BY SMT DEF MaxNumber
      <4>2. -MaxNumber .. MaxNumber \subseteq Int
        BY <4>1
      <4> QED
        BY <4>2 DEF Widths
    <3>2. n \in w
      BY <1>2
    <3> HIDE DEF n
    <3> QED
      BY <3>1, <3>2
  <2>2. IntField(w) = IF n < 0 THEN <<Minus>> \o Decimal[0 - n] ELSE Decimal[n]
    BY <1>2 DEF IntField, Minus
  <2> HIDE DEF n
  <2>3. CASE n < 0
    <3> DEFINE m == 0 - n
               d == Decimal[m]
               q == <<Minus>>
               p == q \o d
    <3>1. m \in Nat /\ 0 - m = n
      BY <2>1, <2>3
    <3> HIDE DEF m
    <3>2. Utf8(p) = p /\ SignedNumber(p) = {0 - m}
      BY <3>1, DecimalBytes
    <3>3. d \in Seq(Wire)
      BY <3>1, DecimalIn, WireHas
    <3>4. q \in Seq(Wire)
      BY WireHas
    <3> HIDE DEF q, d
    <3>5. p \in Seq(Wire)
      BY <3>3, <3>4, ConcatLen
    <3>6. IntField(w) = p
      BY <2>2, <2>3 DEF p, q, d, m
    <3> HIDE DEF p
    <3> QED
      BY <2>1, <3>1, <3>2, <3>5, <3>6
  <2>4. CASE ~(n < 0)
    <3>1. n \in Nat
      BY <2>1, <2>4
    <3>2. Utf8(Decimal[n]) = Decimal[n] /\ SignedNumber(Decimal[n]) = {n}
      BY <3>1, DecimalBytes
    <3>3. Decimal[n] \in Seq(Wire)
      BY <3>1, DecimalIn, WireHas
    <3> QED
      BY <2>1, <2>2, <2>4, <3>2, <3>3
  <2> QED
    BY <2>3, <2>4
<1> QED
  BY <1>1, <1>2

(* What a field says of a truth value.                                     *)
Meant(text) == CASE text = <<"true">> -> {TRUE} [] text = <<"false">> -> {FALSE} [] OTHER -> {}

LEMMA ResizableRead ==
  ASSUME NEW r \in {{}, {TRUE}, {FALSE}}
  PROVE  Utf8(BoolField(r)) \in Seq(Wire) /\ Meant(Utf8(BoolField(r))) = r
<1> DEFINE C == {Yes, No}
           t == BoolField(r)
<1>1. t = IF r = {} THEN <<>> ELSE IF TRUE \in r THEN <<Yes>> ELSE <<No>>
  BY DEF BoolField, Yes, No
<1>2. t \in Seq(C)
  <2>1. <<>> \in Seq(C)
    OBVIOUS
  <2>2. <<Yes>> \in Seq(C)
    OBVIOUS
  <2>3. <<No>> \in Seq(C)
    OBVIOUS
  <2> HIDE DEF C
  <2> QED
    BY <1>1, <2>1, <2>2, <2>3
<1>3. Long \notin C /\ C \subseteq Wire
  BY SignsAreShort, WireHas
<1>4. Meant(t) = r
  <2>1. <<"true">> # <<"false">> /\ <<"true">> # <<>> /\ <<"false">> # <<>>
    OBVIOUS
  <2>2. CASE r = {}
    BY <1>1, <2>1, <2>2 DEF Meant
  <2>3. CASE r = {TRUE}
    BY <1>1, <2>1, <2>3 DEF Meant, Yes
  <2>4. CASE r = {FALSE}
    BY <1>1, <2>1, <2>4 DEF Meant, No
  <2> QED
    BY <2>2, <2>3, <2>4
<1> HIDE DEF t, C
<1>5. Utf8(t) = t
  BY <1>2, <1>3, Utf8Same DEF Long
<1>6. t \in Seq(Wire)
  BY <1>2, <1>3, MoreCharacters
<1> QED
  BY <1>4, <1>5, <1>6 DEF t

(* What the fields of an operation say.                                    *)
Values(op) ==
  <<Utf8(<<op.kind>>), Utf8(op.window), Utf8(op.title), Utf8(IntField(op.width)), Utf8(BoolField(op.resizable))>>

(* An operation with the bytes of its texts.                               *)
Received(op) == [op EXCEPT !.window = Utf8(@), !.title = Utf8(@)]

(* The fields of an operation say what it is.                              *)
LEMMA ValuesAre ==
  ASSUME NEW op \in AnOperation
  PROVE  /\ Values(op) \in Seq(Seq(Wire)) /\ Len(Values(op)) = 5
         /\ Operation(Values(op)) = Received(op)
<1> DEFINE k == <<op.kind>>
           a == Utf8(k)
           b == Utf8(op.window)
           c == Utf8(op.title)
           d == Utf8(IntField(op.width))
           e == Utf8(BoolField(op.resizable))
           D == Seq(Wire)
           v == <<a, b, c, d, e>>
<1>1. /\ op.kind \in Characters /\ op.kind # Long
      /\ op.window \in Seq(Characters) /\ op.title \in Seq(Characters)
      /\ op.width \in Widths
      /\ op.resizable \in {{}, {TRUE}, {FALSE}}
      /\ op = [kind |-> op.kind, window |-> op.window, title |-> op.title, width |-> op.width,
               resizable |-> op.resizable]
  BY DEF AnOperation, Long
<1>2. a = k /\ a \in D
  <2> DEFINE C == Characters \ {Long}
  <2>1. k \in Seq(C) /\ Long \notin C /\ C \subseteq Wire
    BY <1>1, WireHas
  <2> HIDE DEF C, k
  <2> QED
    BY <2>1, Utf8Same, MoreCharacters DEF Long
<1>3. b \in D /\ c \in D
  BY <1>1, WireHas, Utf8Type
<1>4. d \in D /\ SignedNumber(d) = op.width
  BY <1>1, WidthRead
<1>5. e \in D /\ Meant(e) = op.resizable
  BY <1>1, ResizableRead
<1>6. a[1] = op.kind
  BY <1>2
<1> HIDE DEF a, b, c, d, e, D, k
<1>7. v \in Seq(D) /\ Len(v) = 5 /\ v[1] = a /\ v[2] = b /\ v[3] = c /\ v[4] = d /\ v[5] = e
  BY <1>2, <1>3, <1>4, <1>5
<1>8. Values(op) = v
  BY DEF Values, v, a, b, c, d, e, k
<1> HIDE DEF v
<1>9. Operation(v) = [kind |-> v[1][1], window |-> v[2], title |-> v[3], width |-> SignedNumber(v[4]),
                      resizable |-> Meant(v[5])]
  BY DEF Operation, Meant
<1>10. Received(op) = [kind |-> op.kind, window |-> b, title |-> c, width |-> op.width,
                       resizable |-> op.resizable]
  <2> DEFINE x == [op EXCEPT !.window = b]
             y == [x EXCEPT !.title = c]
  <2>1. x = [kind |-> op.kind, window |-> b, title |-> op.title, width |-> op.width,
             resizable |-> op.resizable]
    BY <1>1
  <2>2. y = [kind |-> op.kind, window |-> b, title |-> c, width |-> op.width,
             resizable |-> op.resizable]
    <3> HIDE DEF x
    <3> QED
      BY <2>1
  <2>3. Received(op) = y
    BY <1>1 DEF Received, b, c
  <2> QED
    BY <2>2, <2>3
<1> QED
  <2>1. Operation(v) = Received(op)
    BY <1>4, <1>5, <1>6, <1>7, <1>9, <1>10
  <2> QED
    BY <1>7, <1>8, <2>1 DEF D

(* The values of all fields of a packet's operations.                      *)
ValuesOf(ops) == [i \in 1 .. 5 * Len(ops) |-> Values(ops[((i - 1) \div 5) + 1])[((i - 1) % 5) + 1]]

(* The fields of all operations, five to each.                             *)
LEMMA ValuesOfAre ==
  ASSUME NEW ops \in Seq(AnOperation)
  PROVE  /\ ValuesOf(ops) \in Seq(Seq(Wire)) /\ Len(ValuesOf(ops)) = 5 * Len(ops)
         /\ \A q \in 0 .. Len(ops) - 1 : \A j \in 1 .. 5 :
              5 * q + j \in 1 .. 5 * Len(ops) /\ ValuesOf(ops)[5 * q + j] = Values(ops[q + 1])[j]
<1> DEFINE n == Len(ops)
           v == ValuesOf(ops)
           D == Seq(Wire)
           m == 5 * n
<1>1. n \in Nat /\ m \in Nat
  OBVIOUS
<1>2. \A i \in 1 .. n : ops[i] \in AnOperation
  OBVIOUS
<1>3. \A i \in 1 .. n : \A j \in 1 .. 5 : Values(ops[i])[j] \in D
  <2> SUFFICES ASSUME NEW i \in 1 .. n, NEW j \in 1 .. 5 PROVE Values(ops[i])[j] \in D
    OBVIOUS
  <2> DEFINE w == Values(ops[i])
  <2>1. w \in Seq(D) /\ Len(w) = 5
    BY <1>2, ValuesAre
  <2> HIDE DEF w, D
  <2>2. w[j] \in D
    <3>1. \A k \in 1 .. Len(w) : w[k] \in D
      BY <2>1, ElementsOf
    <3> QED
      BY <2>1, <3>1
  <2> QED
    BY <2>2 DEF w
<1>4. \A i \in 1 .. m : v[i] = Values(ops[((i - 1) \div 5) + 1])[((i - 1) % 5) + 1]
  BY DEF ValuesOf
<1>5. v = [i \in 1 .. m |-> v[i]]
  BY DEF ValuesOf
<1> HIDE DEF v, D
<1>6. \A i \in 1 .. m : v[i] \in D
  <2> SUFFICES ASSUME NEW i \in 1 .. m PROVE v[i] \in D
    OBVIOUS
  <2> DEFINE k == i - 1
             q == k \div 5
             r == k % 5
  <2>1. k \in Nat /\ k < m
    BY <1>1
  <2>2. v[i] = Values(ops[q + 1])[r + 1]
    BY <1>4
  <2> HIDE DEF k
  <2>3. q \in Nat /\ r \in 0 .. 4 /\ k = 5 * q + r
    BY <2>1, Fifths
  <2> HIDE DEF q, r, n
  <2>4. q + 1 \in 1 .. n /\ r + 1 \in 1 .. 5
    BY <1>1, <2>1, <2>3 DEF m
  <2> QED
    BY <1>3, <2>2, <2>4
<1>7. v \in Seq(D) /\ Len(v) = m
  <2> HIDE DEF m
  <2> QED
    BY <1>1, <1>5, <1>6, IsASeq
<1>8. ASSUME NEW q \in 0 .. n - 1, NEW j \in 1 .. 5
      PROVE  5 * q + j \in 1 .. m /\ v[5 * q + j] = Values(ops[q + 1])[j]
  <2> DEFINE i == 5 * q + j
             r == j - 1
  <2>1. i \in 1 .. m /\ i - 1 = 5 * q + r /\ r \in 0 .. 4 /\ q \in Nat /\ r + 1 = j
    <3> HIDE DEF n
    <3> QED
      BY <1>1 DEF m
  <2> HIDE DEF r, m
  <2>2. (i - 1) \div 5 = q /\ (i - 1) % 5 = r
    BY <2>1, FifthIs
  <2> HIDE DEF i
  <2>3. v[i] = Values(ops[q + 1])[j]
    BY <1>4, <2>1, <2>2
  <2> QED
    BY <2>1, <2>3 DEF i
<1> QED
  BY <1>7, <1>8 DEF v, D

(* The code of one field of an operation.                                  *)
Piece(op, j) == PartCode(Values(op)[j])

LEMMA PiecesHave ==
  ASSUME NEW op \in AnOperation
  PROVE  \A j \in 1 .. 5 : Values(op)[j] \in Seq(Wire) /\ Piece(op, j) \in Seq(Wire)
<1> DEFINE w == Values(op)
           D == Seq(Wire)
<1>1. w \in Seq(D) /\ Len(w) = 5
  BY ValuesAre
<1> HIDE DEF w, D
<1>2. \A j \in 1 .. Len(w) : w[j] \in D
  BY <1>1, ElementsOf
<1> SUFFICES ASSUME NEW j \in 1 .. 5 PROVE Values(op)[j] \in Seq(Wire) /\ Piece(op, j) \in Seq(Wire)
  OBVIOUS
<1> DEFINE s == w[j]
           e == <<>>
<1>3. s \in D
  BY <1>1, <1>2
<1>4. e \in Seq(Wire)
  BY EmptyType
<1> HIDE DEF s, e
<1>5. PartThen(Wire, s, e)
  BY <1>3, <1>4, WireHas, PartIs DEF D
<1> QED
  BY <1>3, <1>5 DEF Piece, PartThen, s, w, D

(* The record of an operation is its five fields.                          *)
RecordOf(op) ==
  (((Piece(op, 1) \o Piece(op, 2)) \o Piece(op, 3)) \o Piece(op, 4)) \o Piece(op, 5)

LEMMA RecordIs ==
  ASSUME NEW op \in AnOperation
  PROVE  OperationRecord(op) = RecordOf(op) /\ RecordOf(op) \in Seq(Wire)
<1> DEFINE a == Piece(op, 1)
           b == Piece(op, 2)
           c == Piece(op, 3)
           d == Piece(op, 4)
           e == Piece(op, 5)
           v == <<Utf8(<<op.kind>>), Utf8(op.window), Utf8(op.title), Utf8(IntField(op.width)),
                  Utf8(BoolField(op.resizable))>>
<1>1. /\ v[1] = Utf8(<<op.kind>>) /\ v[2] = Utf8(op.window) /\ v[3] = Utf8(op.title)
      /\ v[4] = Utf8(IntField(op.width)) /\ v[5] = Utf8(BoolField(op.resizable))
  OBVIOUS
<1>2. Values(op) = v
  BY DEF Values
<1> HIDE DEF v
<1>3. /\ a = Field(<<op.kind>>) /\ b = Field(op.window) /\ c = Field(op.title)
      /\ d = Field(IntField(op.width)) /\ e = Field(BoolField(op.resizable))
  BY <1>1, <1>2 DEF Piece, PartCode, Field
<1>4. a \in Seq(Wire) /\ b \in Seq(Wire) /\ c \in Seq(Wire) /\ d \in Seq(Wire) /\ e \in Seq(Wire)
  BY PiecesHave
<1> HIDE DEF a, b, c, d, e
<1>5. OperationRecord(op) = (((a \o b) \o c) \o d) \o e
  BY <1>3 DEF OperationRecord
<1>6. Associates5(Wire, a, b, c, d, e)
  BY <1>4, Assoc5
<1>7. (((a \o b) \o c) \o d) \o e \in Seq(Wire)
  BY <1>6 DEF Associates5
<1>8. RecordOf(op) = (((a \o b) \o c) \o d) \o e
  BY DEF RecordOf, a, b, c, d, e
<1> QED
  BY <1>5, <1>7, <1>8

LEMMA CodesOf ==
  ASSUME NEW ops \in Seq(AnOperation), NEW q \in 0 .. Len(ops) - 1, NEW j \in 1 .. 5
  PROVE  /\ PartCodes(ValuesOf(ops)) \in Seq(Seq(Wire))
         /\ 5 * q + j \in 1 .. Len(PartCodes(ValuesOf(ops)))
         /\ PartCodes(ValuesOf(ops))[5 * q + j] = Piece(ops[q + 1], j)
<1> DEFINE v == ValuesOf(ops)
           i == 5 * q + j
<1>1. /\ v \in Seq(Seq(Wire)) /\ Len(v) = 5 * Len(ops)
      /\ i \in 1 .. 5 * Len(ops) /\ v[i] = Values(ops[q + 1])[j]
  BY ValuesOfAre
<1> HIDE DEF v, i
<1>2. i \in DOMAIN v
  BY <1>1
<1>3. /\ PartCodes(v) \in Seq(Seq(Wire)) /\ Len(PartCodes(v)) = Len(v)
      /\ PartCodes(v)[i] = PartCode(v[i])
  BY <1>1, <1>2, WireHas, PartCodesAre
<1> QED
  BY <1>1, <1>3 DEF Piece, v, i

(* The records of a packet are the codes of all values.                    *)
LEMMA RecordsAre ==
  ASSUME NEW ops \in Seq(AnOperation)
  PROVE  /\ Mapped(ops, OperationRecord) = FlattenSeq(PartCodes(ValuesOf(ops)))
         /\ Mapped(ops, OperationRecord) \in Seq(Wire)
<1> DEFINE n == Len(ops)
           recs == [i \in DOMAIN ops |-> OperationRecord(ops[i])]
           codes == PartCodes(ValuesOf(ops))
           e == <<>>
           V(r) == FlattenSeq(SubSeq(recs, 1, r))
           U(k) == FlattenSeq(SubSeq(codes, 1, k))
           T == {r \in 0 .. n : V(r) = U(5 * r)}
<1>1. n \in Nat /\ DOMAIN ops = 1 .. n /\ \A i \in 1 .. n : ops[i] \in AnOperation
  OBVIOUS
<1>2. Mapped(ops, OperationRecord) = FlattenSeq(recs)
  BY DEF Mapped
<1>3. \A i \in 1 .. n : recs[i] = RecordOf(ops[i]) /\ recs[i] \in Seq(Wire)
  <2> SUFFICES ASSUME NEW i \in 1 .. n PROVE recs[i] = RecordOf(ops[i]) /\ recs[i] \in Seq(Wire)
    OBVIOUS
  <2>1. recs[i] = OperationRecord(ops[i])
    BY <1>1
  <2> HIDE DEF recs
  <2> QED
    BY <1>1, <2>1, RecordIs
<1>4. recs \in Seq(Seq(Wire)) /\ Len(recs) = n
  <2>1. recs = [i \in DOMAIN ops |-> recs[i]]
    OBVIOUS
  <2> DEFINE A == AnOperation
  <2>2. ops \in Seq(A)
    OBVIOUS
  <2> HIDE DEF recs, A
  <2>3. Coded(recs, ops, Wire)
    BY <1>1, <1>3, <2>1 DEF Coded
  <2> QED
    BY <2>2, <2>3, CodesType
<1>5. codes \in Seq(Seq(Wire)) /\ Len(codes) = 5 * n
  <2> DEFINE v == ValuesOf(ops)
  <2>1. v \in Seq(Seq(Wire)) /\ Len(v) = 5 * n
    BY ValuesOfAre
  <2> HIDE DEF v
  <2> QED
    BY <2>1, WireHas, PartCodesAre DEF v
<1>6. \A q \in 0 .. n - 1 : \A j \in 1 .. 5 : codes[5 * q + j] = Piece(ops[q + 1], j)
  BY CodesOf
<1> HIDE DEF recs, codes
<1>7. 0 \in T
  <2>1. SubSeq(recs, 1, 0) = e
    BY <1>4
  <2>2. SubSeq(codes, 1, 0) = e
    BY <1>5
  <2>3. 5 * 0 = 0
    OBVIOUS
  <2> HIDE DEF e
  <2>4. V(0) = U(5 * 0)
    BY <2>1, <2>2, <2>3
  <2> HIDE DEF V, U
  <2> QED
    BY <1>1, <2>4
<1>8. ASSUME NEW r \in 0 .. n - 1, r \in T PROVE r + 1 \in T
  <2> DEFINE op == ops[r + 1]
             k == 5 * r
             P == U(k)
             a == Piece(op, 1)
             b == Piece(op, 2)
             c == Piece(op, 3)
             d == Piece(op, 4)
             f == Piece(op, 5)
  <2>1. r \in Nat /\ r + 1 \in 0 .. n /\ r + 1 \in 1 .. n /\ op \in AnOperation
    BY <1>1
  <2>2. k \in Nat /\ k + 5 <= 5 * n /\ 5 * (r + 1) = k + 5
    BY <1>1, <2>1
  <2>3. V(r + 1) = V(r) \o RecordOf(op)
    <3>1. r \in 0 .. Len(recs) - 1
      BY <1>4
    <3>2. V(r + 1) = V(r) \o recs[r + 1]
      BY <1>4, <3>1, FlattenLonger
    <3> QED
      BY <1>3, <2>1, <3>2
  <2>4. V(r) = P
    BY <1>8
  <2>5. codes[k + 1] = a /\ codes[k + 2] = b /\ codes[k + 3] = c /\ codes[k + 4] = d /\ codes[k + 5] = f
    <3> HIDE DEF a, b, c, d, f
    <3> QED
      BY <1>6 DEF a, b, c, d, f
  <2>6. a \in Seq(Wire) /\ b \in Seq(Wire) /\ c \in Seq(Wire) /\ d \in Seq(Wire) /\ f \in Seq(Wire)
    BY <2>1, PiecesHave
  <2>7. P \in Seq(Wire)
    <3>1. k \in 0 .. Len(codes) - 1
      BY <1>1, <1>5, <2>2
    <3> HIDE DEF k
    <3> QED
      BY <1>5, <3>1, FlattenLonger
  <2> HIDE DEF k, a, b, c, d, f, V, T
  <2>8. \A m \in 0 .. Len(codes) - 1 : U(m + 1) = U(m) \o codes[m + 1]
    BY <1>5, FlattenLonger
  <2> DEFINE k1 == k + 1
             k2 == k + 2
             k3 == k + 3
             k4 == k + 4
             k5 == k + 5
  <2>9. /\ U(k1) = U(k) \o a /\ U(k2) = U(k1) \o b /\ U(k3) = U(k2) \o c
        /\ U(k4) = U(k3) \o d /\ U(k5) = U(k4) \o f
    <3>1. /\ k \in 0 .. Len(codes) - 1 /\ k1 \in 0 .. Len(codes) - 1 /\ k2 \in 0 .. Len(codes) - 1
          /\ k3 \in 0 .. Len(codes) - 1 /\ k4 \in 0 .. Len(codes) - 1
      BY <1>1, <1>5, <2>2
    <3>2. k1 = k + 1 /\ k2 = k1 + 1 /\ k3 = k2 + 1 /\ k4 = k3 + 1 /\ k5 = k4 + 1
      BY <2>2
    <3>3. codes[k1] = a /\ codes[k2] = b /\ codes[k3] = c /\ codes[k4] = d /\ codes[k5] = f
      BY <2>5
    <3> HIDE DEF U, k1, k2, k3, k4, k5
    <3> QED
      BY <2>8, <3>1, <3>2, <3>3
  <2> HIDE DEF U, k1, k2, k3, k4
  <2>10. U(k5) = ((((P \o a) \o b) \o c) \o d) \o f
    BY <2>9
  <2> HIDE DEF P
  <2>11. Longer5(P, a, b, c, d, f)
    BY <2>6, <2>7, LongerBy5
  <2>12. RecordOf(op) = (((a \o b) \o c) \o d) \o f
    BY DEF RecordOf, a, b, c, d, f
  <2>13. V(r + 1) = U(k5)
    BY <2>3, <2>4, <2>10, <2>11, <2>12 DEF Longer5
  <2> QED
    BY <2>1, <2>2, <2>13 DEF T, k5
<1>9. n \in T
  <2> HIDE DEF T
  <2> QED
    BY <1>1, <1>7, <1>8, UpTo
<1>10. SubSeq(recs, 1, n) = recs /\ SubSeq(codes, 1, 5 * n) = codes
  <2>1. SubSeq(recs, 1, Len(recs)) = recs
    BY <1>4
  <2>2. SubSeq(codes, 1, Len(codes)) = codes
    BY <1>5
  <2> QED
    BY <1>4, <1>5, <2>1, <2>2
<1>11. FlattenSeq(recs) = FlattenSeq(codes) /\ FlattenSeq(recs) \in Seq(Wire)
  BY <1>4, <1>9, <1>10, FlattenType
<1> QED
  BY <1>2, <1>11 DEF codes

(* From a packet whose operations are not read none are taken.             *)
LEMMA NoRecords ==
  ASSUME NEW packet, OperationsRange(packet) = <<>>
  PROVE  OperationRecords(packet) = <<>>
<1>1. Line(<<>>) # <<"lepusa-ops-v3">>
  BY NoText
<1>2. Line(OperationsRange(packet)) # <<"lepusa-ops-v3">>
  BY <1>1
<1> QED
  BY <1>2 DEF OperationRecords

(* The values of one operation among those of all.                         *)
LEMMA ValuesOfOne ==
  ASSUME NEW ops \in Seq(AnOperation), NEW r \in 1 .. Len(ops)
  PROVE  SubSeq(ValuesOf(ops), 5 * (r - 1) + 1, 5 * r) = Values(ops[r])
<1> DEFINE v == ValuesOf(ops)
           q == r - 1
           k == 5 * q
           w == Values(ops[q + 1])
           D == Seq(Wire)
           u == SubSeq(v, k + 1, k + 5)
<1>1. q \in 0 .. Len(ops) - 1 /\ q + 1 = r /\ q \in Nat
  OBVIOUS
<1>2. /\ v \in Seq(Seq(Wire)) /\ Len(v) = 5 * Len(ops)
      /\ \A j \in 1 .. 5 : k + j \in 1 .. 5 * Len(ops) /\ v[k + j] = w[j]
  BY <1>1, ValuesOfAre
<1>3. w \in Seq(D) /\ Len(w) = 5
  <2>1. ops[q + 1] \in AnOperation
    BY <1>1
  <2> QED
    BY <2>1, ValuesAre
<1>4. k \in Nat /\ 5 * r = k + 5 /\ 5 * (r - 1) + 1 = k + 1
  BY <1>1
<1>5. k + 5 <= Len(v)
  BY <1>1, <1>2, <1>4
<1>6. v \in Seq(D)
  BY <1>2
<1> HIDE DEF v, w, k, D
<1>7. u \in Seq(D) /\ Len(u) = 5 /\ \A j \in 1 .. 5 : u[j] = v[k + j]
  <2> DEFINE m == k + 5
  <2>1. m \in Nat /\ m <= Len(v) /\ m - k = 5
    BY <1>4, <1>5
  <2> HIDE DEF m
  <2>2. \A i \in k + 1 .. m : i \in 1 .. Len(v)
    BY <1>4, <2>1
  <2>3. SubSeq(v, k + 1, m) \in Seq(D) /\ Len(SubSeq(v, k + 1, m)) = m - k
    BY <1>4, <1>6, <2>1
  <2>4. \A j \in 1 .. m - k : SubSeq(v, k + 1, m)[j] = v[k + j]
    BY <1>4, <1>6, <2>1
  <2> QED
    BY <2>1, <2>3, <2>4 DEF m
<1> HIDE DEF u
<1>8. \A j \in 1 .. Len(u) : u[j] = w[j]
  BY <1>2, <1>7
<1>9. u = w
  BY <1>3, <1>7, <1>8, SeqEqual
<1> QED
  BY <1>1, <1>4, <1>9 DEF u, v, w

(* From the others all are, each as it is.                                 *)
LEMMA RecordsRead ==
  ASSUME NEW ops \in Seq(AnOperation), NEW packet,
         OperationsRange(packet) = RangeOf(Len(ops), Mapped(ops, OperationRecord))
  PROVE  OperationRecords(packet) = [r \in 1 .. Len(ops) |-> Values(ops[r])]
<1> DEFINE n == Len(ops)
           M == Mapped(ops, OperationRecord)
           values == ValuesOf(ops)
           range == OperationsRange(packet)
           count == Number(Line(Rest(range)))
           start == [fields |-> <<>>, rest |-> Rest(Rest(range))]
           steps == [i \in 1 .. count * Fields |-> i]
           read == FoldLeft(LAMBDA s, i : ReadField(s), start, steps)
<1>1. n \in Nat /\ n * Fields = 5 * n
  BY DEF Fields
<1>2. M = FlattenSeq(PartCodes(values)) /\ M \in Seq(Wire)
  BY RecordsAre
<1>3. values \in Seq(Seq(Wire)) /\ Len(values) = 5 * n
  BY ValuesOfAre
<1>4. range = RangeOf(n, M)
  OBVIOUS
<1>5. OperationRecords(packet) =
        IF Line(range) # <<"lepusa-ops-v3">> \/ read.fields = Broken THEN <<>>
        ELSE [r \in 1 .. count |-> SubSeq(read.fields, Fields * (r - 1) + 1, Fields * r)]
  BY DEF OperationRecords
<1> HIDE DEF values, M, range, n
<1>6. Line(range) = <<Version>> /\ count = n /\ Rest(Rest(range)) = M
  <2>1. RangeRead(Wire, n, M)
    BY <1>1, <1>2, WireHas, RangeReads
  <2> QED
    BY <1>4, <2>1 DEF RangeRead
<1>7. start = At(<<>>, FlattenSeq(PartCodes(values)))
  BY <1>2, <1>6 DEF At
<1>8. steps = Counted(Len(values))
  BY <1>1, <1>3, <1>6 DEF Counted
<1> HIDE DEF start, steps
<1>9. read = At(values, <<>>)
  <2>1. FoldLeft(LAMBDA s, i : ReadField(s), At(<<>>, FlattenSeq(PartCodes(values))), Counted(Len(values)))
          = At(values, <<>>)
    BY <1>3, WireHas, FieldsRead
  <2> QED
    BY <1>7, <1>8, <2>1
<1>10. read.fields = values /\ values # Broken
  <2> HIDE DEF read
  <2>1. read.fields = values
    BY <1>9 DEF At
  <2> QED
    BY <1>3, <2>1, WireHas
<1> HIDE DEF read, count
<1>11. OperationRecords(packet) = [r \in 1 .. n |-> SubSeq(values, 5 * (r - 1) + 1, 5 * r)]
  BY <1>5, <1>6, <1>10 DEF Version, Fields
<1>12. \A r \in 1 .. n : SubSeq(values, 5 * (r - 1) + 1, 5 * r) = Values(ops[r])
  BY ValuesOfOne DEF n, values
<1> QED
  BY <1>11, <1>12 DEF n

(* What the loop makes of the records.                                     *)
LEMMA OperationsRead ==
  ASSUME NEW ops \in Seq(AnOperation), NEW records, records = [r \in 1 .. Len(ops) |-> Values(ops[r])]
  PROVE  [r \in DOMAIN records |-> Operation(records[r])] = [r \in DOMAIN ops |-> Received(ops[r])]
<1>1. DOMAIN records = 1 .. Len(ops) /\ DOMAIN ops = 1 .. Len(ops)
  OBVIOUS
<1>2. \A r \in 1 .. Len(ops) : records[r] = Values(ops[r]) /\ ops[r] \in AnOperation
  OBVIOUS
<1>3. \A r \in 1 .. Len(ops) : Operation(records[r]) = Received(ops[r])
  BY <1>2, ValuesAre
<1> QED
  BY <1>1, <1>3

-----------------------------------------------------------------------------
(* C strings, and what a loop reads.                                       *)

(* Packets.                                                                *)
Nul == "NUL"

(* A C string goes on after what has no NUL.                               *)
CContinues(C, s, t) == CString(s \o t) = s \o CString(t) /\ CString(t) \in Seq(C)

(* A C string ends with its first NUL, so one without is read on.          *)
LEMMA CStringGoesOn ==
  ASSUME NEW C, NEW s \in Seq(C), ~Has(s, {Nul}), NEW t \in Seq(C)
  PROVE  CContinues(C, s, t)
<1> DEFINE p == s \o t
           m == Len(s)
           I == {i \in 1 .. Len(t) : t[i] = Nul}
<1>1. /\ p \in Seq(C) /\ Len(p) = m + Len(t) /\ m \in Nat /\ Len(t) \in Nat
      /\ SubSeq(p, 1, m) = s
      /\ \A i \in 1 .. m : p[i] = s[i]
      /\ \A i \in 1 .. Len(t) : p[m + i] = t[i]
  <2>1. Pieces(C, p, s, t)
    BY PiecesOf
  <2> HIDE DEF p
  <2> QED
    BY <2>1 DEF Pieces
<1>2. \A i \in 1 .. m : s[i] # Nul
  BY DEF Has
<1> HIDE DEF p
<1>3. CASE I = {}
  <2>1. ~Has(t, {Nul})
    BY <1>3 DEF Has
  <2>2. ~Has(p, {Nul})
    <3> SUFFICES ASSUME NEW i \in 1 .. m + Len(t) PROVE p[i] # Nul
      BY <1>1 DEF Has
    <3>1. CASE i \in 1 .. m
      BY <1>1, <1>2, <3>1
    <3>2. CASE i \notin 1 .. m
      <4> DEFINE j == i - m
      <4>1. j \in 1 .. Len(t) /\ i = m + j
        BY <1>1, <3>2
      <4> HIDE DEF j
      <4>2. t[j] # Nul
        BY <1>3, <4>1
      <4> QED
        BY <1>1, <4>1, <4>2
    <3> QED
      BY <3>1, <3>2
  <2>3. First(p, Nul, 0) /\ First(t, Nul, 0)
    BY <1>1, <2>1, <2>2, NowhereIs
  <2>4. CString(p) = p /\ CString(t) = t
    BY <2>3 DEF CString, First, Nul
  <2> QED
    BY <2>4 DEF CContinues, p
<1>4. CASE I # {}
  <2>1. I \in SUBSET Nat
    BY <1>1
  <2>2. PICK n \in I : \A j \in I : n <= j
    <3> HIDE DEF I
    <3> QED
      BY <1>4, <2>1, SmallestOf
  <2>3. n \in 1 .. Len(t) /\ t[n] = Nul /\ \A i \in 1 .. n - 1 : t[i] # Nul
    BY <2>2
  <2> DEFINE k == m + n
             u == SubSeq(t, 1, n - 1)
             v == SubSeq(p, 1, k - 1)
             w == s \o u
  <2>4. k \in 1 .. Len(p) /\ p[k] = Nul /\ \A i \in 1 .. k - 1 : p[i] # Nul
    <3>1. k \in 1 .. Len(p) /\ p[k] = Nul
      BY <1>1, <2>3
    <3> SUFFICES ASSUME NEW i \in 1 .. k - 1 PROVE p[i] # Nul
      BY <3>1
    <3>2. CASE i \in 1 .. m
      BY <1>1, <1>2, <3>2
    <3>3. CASE i \notin 1 .. m
      <4> DEFINE j == i - m
      <4>1. j \in 1 .. n - 1 /\ j \in 1 .. Len(t) /\ i = m + j
        BY <1>1, <2>3, <3>3
      <4> HIDE DEF j
      <4> QED
        BY <1>1, <2>3, <4>1
    <3> QED
      BY <3>2, <3>3
  <2> HIDE DEF k
  <2>5. First(p, Nul, k) /\ First(t, Nul, n)
    BY <1>1, <2>3, <2>4, FirstIs
  <2>6. CString(p) = v /\ CString(t) = u
    BY <2>3, <2>4, <2>5 DEF CString, First, Nul
  <2>7. u \in Seq(C) /\ Len(u) = n - 1 /\ \A i \in 1 .. n - 1 : u[i] = t[i]
    BY <2>3
  <2>8. v \in Seq(C) /\ Len(v) = k - 1 /\ \A i \in 1 .. k - 1 : v[i] = p[i]
    BY <1>1, <2>4
  <2> HIDE DEF u, v
  <2>9. /\ w \in Seq(C) /\ Len(w) = m + (n - 1)
        /\ \A i \in 1 .. m : w[i] = s[i]
        /\ \A i \in 1 .. n - 1 : w[m + i] = u[i]
    <3>1. Pieces(C, w, s, u)
      BY <2>7, PiecesOf
    <3> HIDE DEF w
    <3> QED
      BY <2>7, <3>1 DEF Pieces
  <2> HIDE DEF w
  <2>10. Len(v) = Len(w)
    BY <1>1, <2>3, <2>8, <2>9 DEF k
  <2>11. \A i \in 1 .. Len(v) : v[i] = w[i]
    <3> SUFFICES ASSUME NEW i \in 1 .. k - 1 PROVE v[i] = w[i]
      BY <2>8
    <3>1. v[i] = p[i]
      BY <2>8
    <3>2. CASE i \in 1 .. m
      BY <1>1, <2>9, <3>1, <3>2
    <3>3. CASE i \notin 1 .. m
      <4> DEFINE j == i - m
      <4>1. j \in 1 .. n - 1 /\ j \in 1 .. Len(t) /\ i = m + j
        BY <1>1, <2>3, <3>3 DEF k
      <4> HIDE DEF j
      <4> QED
        BY <1>1, <2>7, <2>9, <3>1, <4>1
    <3> QED
      BY <3>2, <3>3
  <2>12. v = w
    BY <2>8, <2>9, <2>10, <2>11, SeqEqual
  <2> QED
    BY <2>6, <2>7, <2>12 DEF CContinues, w, p
<1> QED
  BY <1>3, <1>4

(* The script a packet is read for.                                        *)
ScriptFor(packet, status, s) == ScriptOf(packet) = IF status = "immediate" THEN s ELSE Broken[1]

(* The script of an immediate packet is read as it was.                    *)
LEMMA ScriptIs ==
  ASSUME NEW C, HasSigns(C), NEW status \in C, NEW l \in Seq(C), NEW s \in Seq(C), ~Has(s, {Nul}),
         NEW n \in Nat, NEW M \in Seq(C), PacketRead(C, status, l, s, n, M)
  PROVE  ScriptFor(PacketOf(status, l, s, n, M), status, s)
<1> DEFINE packet == PacketOf(status, l, s, n, M)
           T == <<NL>> \o RangeOf(n, M)
           body == s \o T
           text == IF platform = "linux" THEN CString(body) ELSE body
           m == Len(s)
<1>1. T \in Seq(C)
  <2>1. RangeOf(n, M) \in Seq(C)
    BY RangeReads DEF RangeRead
  <2> QED
    BY <2>1, ALine DEF HasSigns
<1> HIDE DEF T
<1>2. Line(packet) = <<status>> /\ Number(Line(Rest(Rest(packet)))) = m /\ Rest(Rest(Rest(packet))) = body
  BY DEF PacketRead, T
<1> HIDE DEF packet
<1>3. \E u \in Seq(C) : text = s \o u
  <2>1. CASE platform = "linux"
    <3>1. CContinues(C, s, T)
      BY <1>1, CStringGoesOn
    <3>2. text = s \o CString(T) /\ CString(T) \in Seq(C)
      BY <2>1, <3>1 DEF CContinues
    <3> QED
      BY <3>2
  <2>2. CASE platform # "linux"
    BY <1>1, <2>2
  <2> QED
    BY <2>1, <2>2
<1> DEFINE v == text
<1>4. PICK u \in Seq(C) : v = s \o u
  BY <1>3
<1>5. ScriptOf(packet) = IF Line(packet) # <<"immediate">> \/ m > Len(v) THEN Broken[1] ELSE SubSeq(v, 1, m)
  BY <1>2 DEF ScriptOf
<1> HIDE DEF v, body
<1>6. m \in Nat /\ m <= Len(v) /\ SubSeq(v, 1, m) = s
  <2>1. Pieces(C, v, s, u)
    BY <1>4, PiecesOf
  <2>2. Len(v) = m + Len(u) /\ SubSeq(v, 1, m) = s
    BY <2>1 DEF Pieces
  <2>3. m \in Nat /\ Len(u) \in Nat
    OBVIOUS
  <2> HIDE DEF m
  <2> QED
    BY <2>2, <2>3
<1>7. ~(m > Len(v))
  <2>1. Len(v) \in Nat
    BY <1>4
  <2> HIDE DEF m
  <2> QED
    BY <1>6, <2>1
<1>8. <<status>> = <<"immediate">> <=> status = "immediate"
  OBVIOUS
<1> HIDE DEF m
<1>9. ScriptOf(packet) = IF status = "immediate" THEN s ELSE Broken[1]
  BY <1>2, <1>5, <1>6, <1>7, <1>8
<1> QED
  BY <1>9 DEF packet, ScriptFor

(* The operations are read where the status is one the backend takes.      *)
LEMMA RangeIs ==
  ASSUME NEW C, HasSigns(C), NEW status \in C, NEW l \in Seq(C), NEW s \in Seq(C),
         NEW n \in Nat, NEW M \in Seq(C), PacketRead(C, status, l, s, n, M)
  PROVE  OperationsRange(PacketOf(status, l, s, n, M)) = IF status \in Accepted THEN RangeOf(n, M) ELSE <<>>
<1> DEFINE packet == PacketOf(status, l, s, n, M)
           q == <<NL>>
           range == RangeOf(n, M)
           body == s \o (q \o range)
           m == Len(s)
           from == m + 1
           skip == IF from \in DOMAIN body /\ body[from] = NL THEN 1 ELSE 0
           sq == s \o q
<1>1. range \in Seq(C)
  BY RangeReads DEF RangeRead
<1>2. q \in Seq(C) /\ Len(q) = 1 /\ q[1] = NL /\ m \in Nat
  BY DEF HasSigns
<1>3. Line(packet) = <<status>> /\ Number(Line(Rest(Rest(packet)))) = m /\ Rest(Rest(Rest(packet))) = body
  BY DEF PacketRead
<1> HIDE DEF packet, q, range
<1>4. sq \in Seq(C) /\ Len(sq) = m + 1 /\ sq[m + 1] = NL
  <2>1. Pieces(C, sq, s, q)
    BY <1>2, PiecesOf
  <2> HIDE DEF sq
  <2>2. sq \in Seq(C) /\ Len(sq) = m + Len(q) /\ \A i \in 1 .. Len(q) : sq[m + i] = q[i]
    BY <2>1 DEF Pieces
  <2> QED
    BY <1>2, <2>2
<1>5. body = sq \o range
  <2>1. Associates(C, s, q, range)
    BY <1>1, <1>2, Assoc
  <2> QED
    BY <2>1 DEF Associates
<1> HIDE DEF sq
<1>6. /\ body \in Seq(C) /\ Len(body) = (m + 1) + Len(range)
      /\ SubSeq(body, (m + 1) + 1, Len(body)) = range
      /\ \A i \in 1 .. m + 1 : body[i] = sq[i]
  <2> DEFINE b == sq \o range
  <2>1. Pieces(C, b, sq, range)
    BY <1>1, <1>4, PiecesOf
  <2> HIDE DEF body, b
  <2>2. body = b
    BY <1>5 DEF b
  <2> HIDE DEF m
  <2> QED
    BY <1>4, <2>1, <2>2 DEF Pieces
<1> HIDE DEF body
<1>7. skip = 1
  <2>1. m + 1 \in 1 .. m + 1 /\ m + 1 <= Len(body) /\ Len(body) \in Nat
    <3>1. Len(range) \in Nat
      BY <1>1
    <3> HIDE DEF m
    <3> QED
      BY <1>2, <1>6, <3>1
  <2> HIDE DEF m
  <2>2. m + 1 \in DOMAIN body /\ body[m + 1] = NL
    BY <1>2, <1>4, <1>6, <2>1
  <2> QED
    BY <2>2
<1>8. OperationsRange(packet) = IF Line(packet) \notin {<<x>> : x \in Accepted} THEN <<>>
                                ELSE SubSeq(body, from + skip, Len(body))
  BY <1>3 DEF OperationsRange
<1>9. <<status>> \in {<<x>> : x \in Accepted} <=> status \in Accepted
  <2>1. \A x \in Accepted : <<status>> = <<x>> <=> status = x
    OBVIOUS
  <2> QED
    BY <2>1
<1> HIDE DEF skip
<1>10. OperationsRange(packet) = IF status \in Accepted THEN range ELSE <<>>
  <2> HIDE DEF m
  <2>1. from + skip = (m + 1) + 1
    BY <1>7
  <2> HIDE DEF from
  <2> QED
    BY <1>3, <1>6, <1>8, <1>9, <2>1
<1> QED
  BY <1>10 DEF packet, range

(* A text without a character has no such byte.                            *)
LEMMA BytesWithout ==
  ASSUME NEW x, x \notin {Lead, Trail}, NEW text \in Seq(Characters \ {x})
  PROVE  Utf8(text) \in Seq(Wire) /\ ~Has(Utf8(text), {x})
<1> DEFINE D == Characters \ {x}
           C == Wire \ {x}
           t == Utf8(text)
<1>1. D \subseteq C /\ Lead \in C /\ Trail \in C /\ C \subseteq Wire /\ x \notin C
  BY WireHas
<1> HIDE DEF C, D
<1>2. text \in Seq(D)
  BY DEF D
<1>3. t \in Seq(C)
  BY <1>1, <1>2, Utf8Type
<1> HIDE DEF t
<1>4. t \in Seq(Wire)
  BY <1>1, <1>3, MoreCharacters
<1>5. ~Has(t, {x})
  BY <1>1, <1>3 DEF Has
<1> QED
  BY <1>4, <1>5 DEF t

(* The operations taken from a packet.                                     *)
Taken(packet) == [r \in DOMAIN OperationRecords(packet) |-> Operation(OperationRecords(packet)[r])]

(* What a loop reads from a packet of the host.                            *)
HandoffRead(status, label, script, ops) ==
  LET packet == HandoffPacket(status, label, script, ops)
  IN /\ ScriptOf(packet) = IF status = "immediate" THEN Utf8(script) ELSE Broken[1]
     /\ Taken(packet) = IF status \in Accepted THEN [r \in DOMAIN ops |-> Received(ops[r])] ELSE <<>>

(* A loop reads what HandoffRead says.                                     *)
LEMMA HandoffReads ==
  ASSUME NEW status \in Statuses, NEW label \in Seq(Characters \ {NL}),
         NEW script \in Seq(Characters \ {Nul}), NEW ops \in Seq(AnOperation)
  PROVE  HandoffRead(status, label, script, ops)
<1> DEFINE packet == HandoffPacket(status, label, script, ops)
           l == Utf8(label)
           s == Utf8(script)
           n == Len(ops)
           M == Mapped(ops, OperationRecord)
           C == Wire
<1>1. status \in C /\ status # NL
  BY WireHas DEF Statuses, NL
<1>2. l \in Seq(C) /\ ~Has(l, {NL})
  <2>1. NL \notin {Lead, Trail}
    BY DEF Lead, Trail, NL
  <2> QED
    BY <2>1, BytesWithout
<1>3. s \in Seq(C) /\ ~Has(s, {Nul})
  <2>1. Nul \notin {Lead, Trail}
    BY DEF Lead, Trail, Nul
  <2> QED
    BY <2>1, BytesWithout
<1>4. n \in Nat /\ M \in Seq(C)
  BY RecordsAre
<1>5. HasSigns(C)
  BY WireHas
<1>6. packet = PacketOf(status, l, s, n, M)
  <2>1. Len(ops) \in Nat
    OBVIOUS
  <2> HIDE DEF C
  <2> QED
    BY <1>1, <1>2, <1>3, <1>4, <1>5, <2>1, HandoffIs
<1> HIDE DEF packet, l, s, n, M, C
<1>7. PacketRead(C, status, l, s, n, M)
  BY <1>1, <1>2, <1>3, <1>4, <1>5, PacketReads
<1>8. ScriptOf(packet) = IF status = "immediate" THEN s ELSE Broken[1]
  <2>1. ScriptFor(PacketOf(status, l, s, n, M), status, s)
    BY <1>1, <1>2, <1>3, <1>4, <1>5, <1>7, ScriptIs
  <2> QED
    BY <1>6, <2>1 DEF ScriptFor
<1>9. OperationsRange(packet) = IF status \in Accepted THEN RangeOf(n, M) ELSE <<>>
  BY <1>1, <1>2, <1>3, <1>4, <1>5, <1>6, <1>7, RangeIs
<1>10. Taken(packet) = IF status \in Accepted THEN [r \in DOMAIN ops |-> Received(ops[r])] ELSE <<>>
  <2> DEFINE records == OperationRecords(packet)
  <2>1. CASE status \in Accepted
    <3>1. records = [r \in 1 .. Len(ops) |-> Values(ops[r])]
      <4>1. OperationsRange(packet) = RangeOf(Len(ops), Mapped(ops, OperationRecord))
        BY <1>9, <2>1 DEF n, M
      <4> QED
        BY <4>1, RecordsRead
    <3> HIDE DEF records
    <3>2. [r \in DOMAIN records |-> Operation(records[r])] = [r \in DOMAIN ops |-> Received(ops[r])]
      BY <3>1, OperationsRead
    <3> QED
      BY <2>1, <3>2 DEF Taken, records
  <2>2. CASE status \notin Accepted
    <3>1. records = <<>>
      BY <1>9, <2>2, NoRecords
    <3> HIDE DEF records
    <3>2. [r \in DOMAIN records |-> Operation(records[r])] = <<>>
      BY <3>1
    <3> QED
      BY <2>2, <3>2 DEF Taken, records
  <2> QED
    BY <2>1, <2>2
<1> QED
  BY <1>8, <1>10 DEF HandoffRead, packet, s

-----------------------------------------------------------------------------
(* Assets.                                                                 *)

(* A packet of three lines of a word each, and more.                       *)
Head3(o, k, m) == <<o, NL, k, NL, m, NL>>

(* Three lines and a body.                                                 *)
ThreeLines(C, o, k, m, b) ==
  LET text == Head3(o, k, m) \o b
  IN Line(text) = <<o>> /\ Line(Rest(text)) = <<k>> /\ Rest(Rest(Rest(text))) = b

(* An asset packet's lines are read as they were, and its body is the      *)
(* rest.                                                                   *)
LEMMA ThreeLinesRead ==
  ASSUME NEW C, NL \in C, NEW o \in C \ {NL}, NEW k \in C \ {NL}, NEW m \in C \ {NL}, NEW b \in Seq(C)
  PROVE  ThreeLines(C, o, k, m, b)
<1> DEFINE O == <<o>>
           K == <<k>>
           N == <<m>>
           q == <<NL>>
           h == Head3(o, k, m)
           W == ((O \o q) \o K) \o q
           y == q \o b
           third == N \o y
           second == K \o (q \o third)
           text == O \o (q \o second)
<1>1. O \in Seq(C) /\ K \in Seq(C) /\ N \in Seq(C) /\ q \in Seq(C)
  OBVIOUS
<1>2. ~Has(O, {NL}) /\ ~Has(K, {NL}) /\ ~Has(N, {NL})
  BY OneCharacter
<1>3. h = (W \o N) \o q
  BY DEF Head3
<1> HIDE DEF O, K, N, h
<1>4. third \in Seq(C) /\ Splits(third, N, b)
  BY <1>1, <1>2, LineSplits
<1>5. y \in Seq(C)
  BY ALine
<1> HIDE DEF third
<1>6. second \in Seq(C) /\ Splits(second, K, third)
  BY <1>1, <1>2, <1>4, LineSplits
<1> HIDE DEF second
<1>7. text \in Seq(C) /\ Splits(text, O, second)
  BY <1>1, <1>2, <1>6, LineSplits
<1> HIDE DEF q, y
<1>8. W \in Seq(C) /\ W \o third = text
  <2>1. Associates5(C, O, q, K, q, third)
    BY <1>1, <1>4, Assoc5
  <2>2. W \in Seq(C) /\ W \o third = O \o (q \o (K \o (q \o third)))
    BY <2>1 DEF Associates5
  <2> QED
    BY <2>2 DEF second, q
<1> HIDE DEF W, text
<1>9. h \o b = text
  <2>1. Associates(C, W, N, q) /\ Associates(C, W, N, y)
    BY <1>1, <1>5, <1>8, Assoc
  <2> DEFINE WN == W \o N
  <2>2. WN \in Seq(C) /\ WN \o y = W \o (N \o y)
    BY <2>1 DEF Associates
  <2> HIDE DEF WN
  <2>3. Associates(C, WN, q, b)
    BY <1>1, <2>2, Assoc
  <2>4. (WN \o q) \o b = WN \o (q \o b)
    BY <2>3 DEF Associates
  <2> QED
    BY <1>3, <1>8, <2>2, <2>4 DEF WN, y, third, q
<1> QED
  BY <1>4, <1>6, <1>7, <1>9 DEF Splits, ThreeLines, h, O, K

LEMMA OneLineRead ==
  ASSUME NEW C, NL \in C, NEW o \in C \ {NL}, NEW b \in Seq(C)
  PROVE  Line(<<o, NL>> \o b) = <<o>> /\ Rest(<<o, NL>> \o b) = b
<1> DEFINE O == <<o>>
           q == <<NL>>
           h == <<o, NL>>
           text == O \o (q \o b)
<1>1. O \in Seq(C) /\ q \in Seq(C) /\ ~Has(O, {NL}) /\ h = O \o q
  <2>1. ~Has(O, {NL})
    BY OneCharacter
  <2>2. h = O \o q /\ O \in Seq(C) /\ q \in Seq(C)
    OBVIOUS
  <2> QED
    BY <2>1, <2>2
<1> HIDE DEF O, h
<1>2. text \in Seq(C) /\ Splits(text, O, b)
  BY <1>1, LineSplits
<1> HIDE DEF q
<1>3. Associates(C, O, q, b)
  BY <1>1, Assoc
<1>4. h \o b = O \o (q \o b)
  BY <1>1, <1>3 DEF Associates
<1>5. h \o b = text
  BY <1>4 DEF text, q
<1> HIDE DEF text
<1> QED
  BY <1>2, <1>5 DEF Splits, O, h

(* The bytes of an asset's packet.                                         *)
Ok == "ok"

Mime == "mime"
Virtual == "virtual"
AFile == "file"
AnError == "error"
Words3 == {Ok, Mime, Virtual, AFile, AnError}
AssetWire == Wire \cup Words3

LEMMA AssetWireHas ==
  /\ Wire \subseteq AssetWire /\ Words3 \subseteq AssetWire /\ NL \in AssetWire
  /\ NL \notin Words3 /\ Nul \notin Words3 /\ Nul # NL
<1>1. NL \notin Words3 /\ Nul \notin Words3 /\ Nul # NL
  BY DEF Words3, Ok, Mime, Virtual, AFile, AnError, NL, Nul
<1>2. NL \in AssetWire
  BY DEF Wire, AssetWire
<1> QED
  BY <1>1, <1>2 DEF AssetWire

(* What a page is shown of a text.                                         *)
Seen(text) == IF platform = "macos" THEN text ELSE CString(text)

(* The body is seen up to its first NUL, where a C string is read.         *)
LEMMA SeenGoesOn ==
  ASSUME NEW C, NEW s \in Seq(C), ~Has(s, {Nul}), NEW t \in Seq(C)
  PROVE  Seen(s \o t) = s \o Seen(t) /\ Seen(t) \in Seq(C)
<1>1. CContinues(C, s, t)
  BY CStringGoesOn
<1> QED
  BY <1>1 DEF CContinues, Seen

(* What a page is shown of an asset.                                       *)
AssetRead(kind, body, readable) ==
  LET shown == FinishRequest(AssetPacket(kind, body), readable)
      found == kind = Virtual \/ (kind = AFile /\ readable)
  IN /\ found <=> shown.what # "message"
     /\ kind # AFile \/ found => shown.text = Seen(Utf8(body))
     /\ platform = "windows" => shown.status = IF found THEN 200 ELSE 404

(* An error is shown as one, and an asset that was found as what it is.    *)
LEMMA ErrorRead ==
  ASSUME NEW body \in Seq(Characters), NEW readable
  PROVE  AssetRead(AnError, body, readable)
<1> DEFINE C == AssetWire
           b == Utf8(body)
           h == <<AnError, NL>>
           text == Seen(h \o b)
           u == Seen(b)
<1>1. b \in Seq(C)
  <2>1. b \in Seq(Wire)
    BY WireHas, Utf8Type
  <2> HIDE DEF b
  <2> QED
    BY <2>1, AssetWireHas, MoreCharacters
<1>2. h \in Seq(C) /\ ~Has(h, {Nul}) /\ AnError \in C \ {NL} /\ NL \in C
  <2>1. AnError \in C \ {NL} /\ NL \in C /\ AnError # Nul /\ NL # Nul
    BY AssetWireHas DEF Words3
  <2> HIDE DEF C
  <2>2. h \in Seq(C) /\ \A i \in DOMAIN h : h[i] # Nul
    BY <2>1
  <2> QED
    BY <2>1, <2>2 DEF Has
<1> HIDE DEF C, b, h
<1>3. text = h \o u /\ u \in Seq(C)
  BY <1>1, <1>2, SeenGoesOn
<1> HIDE DEF u
<1>4. Line(h \o u) = <<AnError>> /\ Rest(h \o u) = u
  BY <1>2, <1>3, OneLineRead DEF h
<1>5. AssetPacket(AnError, body) = h \o b
  BY DEF AssetPacket, AnError, h, b
<1>6. Line(text) = <<AnError>> /\ Rest(text) = u
  BY <1>3, <1>4
<1> HIDE DEF text
<1>7. <<AnError>> # <<"ok">>
  BY DEF AnError
<1>8. FinishRequest(AssetPacket(AnError, body), readable) = Shown("message", u, 404)
  BY <1>5, <1>6, <1>7 DEF FinishRequest, text, Seen
<1> QED
  BY <1>8 DEF AssetRead, Shown, AnError, Virtual, AFile, u, b

LEMMA FoundRead ==
  ASSUME NEW kind \in {Virtual, AFile}, NEW body \in Seq(Characters), NEW readable
  PROVE  AssetRead(kind, body, readable)
<1> DEFINE C == AssetWire
           b == Utf8(body)
           h == Head3(Ok, kind, Mime)
           text == Seen(h \o b)
           u == Seen(b)
<1>1. b \in Seq(C)
  <2>1. b \in Seq(Wire)
    BY WireHas, Utf8Type
  <2> HIDE DEF b
  <2> QED
    BY <2>1, AssetWireHas, MoreCharacters
<1>2. h \in Seq(C) /\ ~Has(h, {Nul}) /\ Ok \in C \ {NL} /\ kind \in C \ {NL} /\ Mime \in C \ {NL} /\ NL \in C
  <2>1. /\ Ok \in C \ {NL} /\ kind \in C \ {NL} /\ Mime \in C \ {NL} /\ NL \in C
        /\ Ok # Nul /\ kind # Nul /\ Mime # Nul /\ NL # Nul
    BY AssetWireHas DEF Words3
  <2> HIDE DEF C
  <2>2. h \in Seq(C) /\ \A i \in DOMAIN h : h[i] # Nul
    BY <2>1 DEF Head3
  <2> QED
    BY <2>1, <2>2 DEF Has
<1> HIDE DEF C, b, h
<1>3. text = h \o u /\ u \in Seq(C)
  BY <1>1, <1>2, SeenGoesOn
<1> HIDE DEF u
<1>4. Line(h \o u) = <<Ok>> /\ Line(Rest(h \o u)) = <<kind>> /\ Rest(Rest(Rest(h \o u))) = u
  <2>1. ThreeLines(C, Ok, kind, Mime, u)
    BY <1>2, <1>3, ThreeLinesRead
  <2> QED
    BY <2>1 DEF ThreeLines, h
<1>5. AssetPacket(kind, body) = h \o b
  BY DEF AssetPacket, Head3, Ok, Mime, Virtual, AFile, h, b
<1>6. Line(text) = <<Ok>> /\ Line(Rest(text)) = <<kind>> /\ Rest(Rest(Rest(text))) = u
  BY <1>3, <1>4
<1> HIDE DEF text
<1> DEFINE shown == FinishRequest(AssetPacket(kind, body), readable)
<1>7. /\ kind = Virtual => shown = Shown("contents", u, 200)
      /\ kind = AFile /\ readable => shown = Shown("file", u, 200)
      /\ kind = AFile /\ ~readable => shown = Shown("message", <<"unreadable">>, 404)
  <2> DEFINE k == Line(Rest(text))
             l == Line(text)
             w == Rest(Rest(Rest(text)))
  <2>1. shown = CASE l # <<"ok">> -> Shown("message", Rest(text), 404)
                  [] l = <<"ok">> /\ k = <<"virtual">> -> Shown("contents", w, 200)
                  [] l = <<"ok">> /\ k = <<"file">> /\ readable -> Shown("file", w, 200)
                  [] l = <<"ok">> /\ k = <<"file">> /\ ~readable -> Shown("message", <<"unreadable">>, 404)
                  [] OTHER -> Shown("message", <<"unsupported">>, 500)
    BY <1>5 DEF FinishRequest, text, Seen
  <2>2. l = <<"ok">> /\ k = <<kind>> /\ w = u
    BY <1>6 DEF Ok
  <2>3. <<"virtual">> # <<"file">>
    OBVIOUS
  <2> HIDE DEF l, k, w, shown
  <2>4. CASE kind = Virtual
    <3>1. k = <<"virtual">>
      BY <2>2, <2>4 DEF Virtual
    <3>2. k # <<"file">> /\ kind # AFile
      BY <2>3, <2>4, <3>1 DEF Virtual, AFile
    <3> QED
      BY <2>1, <2>2, <3>1, <3>2
  <2>5. CASE kind = AFile
    <3>1. k = <<"file">>
      BY <2>2, <2>5 DEF AFile
    <3>2. k # <<"virtual">> /\ kind # Virtual
      BY <2>3, <2>5, <3>1 DEF Virtual, AFile
    <3> QED
      BY <2>1, <2>2, <3>1, <3>2
  <2> QED
    BY <2>4, <2>5
<1>8. Virtual # AFile
  BY DEF Virtual, AFile
<1> HIDE DEF shown
<1>9. /\ (kind = Virtual \/ (kind = AFile /\ readable)) <=> shown.what # "message"
      /\ kind # AFile \/ (kind = Virtual \/ (kind = AFile /\ readable)) => shown.text = u
      /\ platform = "windows" =>
           shown.status = IF kind = Virtual \/ (kind = AFile /\ readable) THEN 200 ELSE 404
  BY <1>7, <1>8 DEF Shown
<1> QED
  BY <1>9 DEF AssetRead, shown, u, b

-----------------------------------------------------------------------------
(* URLs.                                                                   *)

Lepusa == "lepusa"
Https == "https"
Localhost == ".localhost"
Colon == ":"
Slash == "/"

(* The signs of URLs.                                                      *)
UrlSigns == {Lepusa, Https, Localhost, Colon, Slash}

(* The signs and characters of URLs.                                       *)
UrlWire == Characters \cup UrlSigns

(* Beginnings of URLs, and of places.                                      *)
Opening(scheme) == <<scheme, Colon, Slash, Slash>>

HostOf(scheme) == <<scheme, Colon, Slash, Slash, Lepusa, Localhost>>
Site == <<Lepusa, Localhost>>
SiteSlash == <<Lepusa, Localhost, Slash>>
HostSlash == <<Https, Colon, Slash, Slash, Lepusa, Localhost, Slash>>

LEMMA UrlWords ==
  ASSUME NEW C, UrlSigns \subseteq C
  PROVE  /\ Opening(Https) \in Seq(C) /\ Opening(Lepusa) \in Seq(C) /\ HostOf(Https) \in Seq(C)
         /\ Site \in Seq(C) /\ SiteSlash \in Seq(C) /\ <<Slash>> \in Seq(C) /\ HostSlash \in Seq(C)
         /\ Len(Opening(Https)) = 4 /\ Len(Opening(Lepusa)) = 4 /\ Len(HostOf(Https)) = 6 /\ Len(Site) = 2
<1>1. Lepusa \in C /\ Https \in C /\ Localhost \in C /\ Colon \in C /\ Slash \in C
  BY DEF UrlSigns
<1>2. Opening(Https) \in Seq(C) /\ Opening(Lepusa) \in Seq(C)
  BY <1>1 DEF Opening
<1>3. HostOf(Https) \in Seq(C)
  BY <1>1 DEF HostOf
<1>4. Site \in Seq(C) /\ SiteSlash \in Seq(C)
  BY <1>1 DEF Site, SiteSlash
<1>5. <<Slash>> \in Seq(C)
  BY <1>1
<1>6. HostSlash \in Seq(C)
  BY <1>1 DEF HostSlash
<1>7. Len(Opening(Https)) = 4 /\ Len(Opening(Lepusa)) = 4 /\ Len(HostOf(Https)) = 6 /\ Len(Site) = 2
  BY DEF Opening, HostOf, Site
<1> QED
  BY <1>2, <1>3, <1>4, <1>5, <1>6, <1>7

(* How they are made of each other.                                        *)
LEMMA UrlParts ==
  /\ HostSlash = HostOf(Https) \o <<Slash>> /\ HostSlash = Opening(Https) \o SiteSlash
  /\ HostOf(Https) = Opening(Https) \o Site /\ SiteSlash = Site \o <<Slash>>
<1>1. HostSlash = HostOf(Https) \o <<Slash>>
  BY DEF HostSlash, HostOf
<1>2. HostSlash = Opening(Https) \o SiteSlash
  BY DEF HostSlash, Opening, SiteSlash
<1>3. HostOf(Https) = Opening(Https) \o Site
  BY DEF HostOf, Opening, Site
<1>4. SiteSlash = Site \o <<Slash>>
  BY DEF Site, SiteSlash
<1> QED
  BY <1>1, <1>2, <1>3, <1>4

(* A path of the host starts with a slash.                                 *)
APath(C, path) == path \in Seq(C) /\ path # <<>> /\ path[1] = Slash

(* A place with a slash before it is a path.                               *)
LEMMA SlashFirst ==
  ASSUME NEW C, Slash \in C, NEW place \in Seq(C)
  PROVE  APath(C, <<Slash>> \o place) /\ Tail(<<Slash>> \o place) = place
<1> DEFINE q == <<Slash>>
           p == q \o place
<1>1. q \in Seq(C) /\ Len(q) = 1 /\ q[1] = Slash
  OBVIOUS
<1> HIDE DEF q
<1>2. Pieces(C, p, q, place)
  BY <1>1, PiecesOf
<1> HIDE DEF p
<1>3. p \in Seq(C) /\ Len(p) = 1 + Len(place) /\ SubSeq(p, 2, Len(p)) = place /\ \A i \in 1 .. 1 : p[i] = q[i]
  BY <1>1, <1>2 DEF Pieces
<1>4. p # <<>> /\ p[1] = Slash
  BY <1>1, <1>3
<1>5. Tail(p) = place
  <2>1. Tail(p) = SubSeq(p, 2, Len(p))
    BY <1>3, <1>4, TailIs
  <2> QED
    BY <1>3, <2>1
<1> QED
  BY <1>3, <1>4, <1>5 DEF APath, p, q

(* WebView2 is given a URL of the host, with one slash.                    *)
LEMMA WebviewLepusa ==
  ASSUME NEW C, UrlSigns \subseteq C, NEW place \in Seq(C)
  PROVE  WebviewUrl(Url(Lepusa, place), Lepusa) =
           HostOf(Https) \o (IF place # <<>> /\ place[1] = Slash THEN place ELSE <<Slash>> \o place)
<1> DEFINE h == Opening(Lepusa)
           url == h \o place
           H == HostOf(Https)
           e == <<>>
           q == <<Slash>>
           slash == IF place # <<>> /\ place[1] = Slash THEN e ELSE q
<1>1. h \in Seq(C) /\ Len(h) = 4 /\ H \in Seq(C) /\ q \in Seq(C) /\ e \in Seq(C)
  BY UrlWords, EmptyType
<1>2. Url(Lepusa, place) = url
  BY DEF Url, Opening, Colon, Slash
<1>3. WebviewUrl(url, Lepusa) =
        IF ~IsPrefix(h, url) THEN url
        ELSE (H \o (IF SubSeq(url, 5, Len(url)) # e /\ SubSeq(url, 5, Len(url))[1] = Slash THEN e ELSE q))
             \o SubSeq(url, 5, Len(url))
  BY DEF WebviewUrl, Opening, HostOf, Colon, Slash, Https, Localhost
<1> HIDE DEF h, H
<1>4. IsPrefix(h, url)
  BY <1>1, PrefixOf
<1>5. SubSeq(url, 5, Len(url)) = place
  <2>1. Pieces(C, url, h, place)
    BY <1>1, PiecesOf
  <2> HIDE DEF url
  <2> QED
    BY <1>1, <2>1 DEF Pieces
<1> HIDE DEF url, q, e
<1>6. WebviewUrl(url, Lepusa) = (H \o slash) \o place
  <2> DEFINE v == SubSeq(url, 5, Len(url))
  <2>1. WebviewUrl(url, Lepusa) = (H \o (IF v # e /\ v[1] = Slash THEN e ELSE q)) \o v
    BY <1>3, <1>4
  <2> HIDE DEF v
  <2>2. v = place
    BY <1>5 DEF v
  <2>3. slash = IF v # e /\ v[1] = Slash THEN e ELSE q
    BY <2>2 DEF e
  <2> HIDE DEF slash
  <2> QED
    BY <2>1, <2>2, <2>3
<1>7. slash \in Seq(C)
  BY <1>1
<1> HIDE DEF slash
<1>8. (H \o slash) \o place = H \o (slash \o place)
  <2>1. Associates(C, H, slash, place)
    BY <1>1, <1>7, Assoc
  <2> QED
    BY <2>1 DEF Associates
<1>9. slash \o place = IF place # <<>> /\ place[1] = Slash THEN place ELSE q \o place
  <2>1. e \o place = place
    BY DEF e
  <2> QED
    BY <2>1 DEF slash, e
<1> QED
  BY <1>2, <1>6, <1>8, <1>9 DEF q, H

(* A URL of the host is taken back to one of the protocol.                 *)
LEMMA ResolverHost ==
  ASSUME NEW C, UrlSigns \subseteq C, NEW path, APath(C, path)
  PROVE  /\ IsPrefix(HostSlash, HostOf(Https) \o path)
         /\ ResolverUrl(HostOf(Https) \o path, Lepusa) = Url(Lepusa, Tail(path))
<1> DEFINE H == HostOf(Https)
           url == H \o path
           q == <<Slash>>
<1>1. H \in Seq(C) /\ Len(H) = 6 /\ q \in Seq(C) /\ path \in Seq(C) /\ path # <<>> /\ path[1] = Slash
  BY UrlWords DEF APath
<1>2. IsPrefix(q, path)
  <2>1. Len(q) = 1 /\ q[1] = Slash
    OBVIOUS
  <2> HIDE DEF q
  <2>2. Len(q) <= Len(path) /\ \A i \in 1 .. Len(q) : q[i] = path[i]
    BY <1>1, <2>1
  <2>3. Begins(q, path)
    BY <2>2 DEF Begins
  <2> QED
    BY <1>1, <2>3, PrefixIs
<1>3. HostSlash = H \o q
  BY UrlParts
<1>4. \E scheme \in {"https", "http"} : IsPrefix(<<scheme, ":", "/", "/", Lepusa, ".localhost">>, url) 
  <2>1. IsPrefix(H, url)
    <3> HIDE DEF H
    <3> QED
      BY <1>1, PrefixOf
  <2>2. H = <<"https", ":", "/", "/", Lepusa, ".localhost">>
    BY DEF HostOf, Https, Colon, Slash, Localhost
  <2> HIDE DEF H, url
  <2> QED
    BY <2>1, <2>2
<1>5. SubSeq(url, 7, Len(url)) = path
  <2> HIDE DEF H
  <2>1. Pieces(C, url, H, path)
    BY <1>1, PiecesOf
  <2> HIDE DEF url
  <2> QED
    BY <1>1, <2>1 DEF Pieces
<1> HIDE DEF H, q
<1>6. IsPrefix(H \o q, url)
  BY <1>1, <1>2, PrefixAfter
<1> HIDE DEF url
<1>7. ResolverUrl(url, Lepusa) = <<Lepusa, ":", "/", "/">> \o Tail(path)
  BY <1>1, <1>4, <1>5 DEF ResolverUrl, Slash
<1> QED
  BY <1>3, <1>6, <1>7 DEF Url, url, H

(* Another URL is left as it is.                                           *)
LEMMA WebviewHttps ==
  ASSUME NEW C, UrlSigns \subseteq C, NEW place \in Seq(C)
  PROVE  WebviewUrl(Url(Https, place), Lepusa) = Url(Https, place)
<1> DEFINE h == Opening(Lepusa)
           o == Opening(Https)
           url == o \o place
<1>1. h \in Seq(C) /\ Len(h) = 4 /\ o \in Seq(C) /\ Len(o) = 4
  BY UrlWords
<1>2. h[1] = Lepusa /\ o[1] = Https /\ Lepusa # Https
  BY DEF Opening, Lepusa, Https
<1>3. Url(Https, place) = url
  BY DEF Url, Opening, Colon, Slash
<1>4. WebviewUrl(url, Lepusa) = url \/ IsPrefix(h, url)
  BY DEF WebviewUrl, Opening, Colon, Slash
<1> HIDE DEF h, o
<1>5. url \in Seq(C) /\ url[1] = Https
  <2>1. Pieces(C, url, o, place)
    BY <1>1, PiecesOf
  <2> HIDE DEF url
  <2> QED
    BY <1>1, <1>2, <2>1 DEF Pieces
<1> HIDE DEF url
<1>6. ~IsPrefix(h, url)
  <2>1. ~Begins(h, url)
    BY <1>1, <1>2, <1>5 DEF Begins
  <2> QED
    BY <1>1, <1>5, <2>1, PrefixIs
<1> QED
  BY <1>3, <1>4, <1>6

(* The resolver is asked for it when its place is one of the host's site.  *)
LEMMA HostAsked ==
  ASSUME NEW C, UrlSigns \subseteq C, NEW place \in Seq(C)
  PROVE  IsPrefix(HostSlash, Url(Https, place)) <=> IsPrefix(SiteSlash, place)
<1> DEFINE o == Opening(Https)
<1>1. Url(Https, place) = o \o place /\ HostSlash = o \o SiteSlash
  BY UrlParts DEF Url, Opening, Colon, Slash
<1>2. o \in Seq(C) /\ SiteSlash \in Seq(C)
  BY UrlWords
<1> HIDE DEF o
<1> QED
  BY <1>1, <1>2, PrefixAfter

(* A place of the host's site, and the path in it.                         *)
LEMMA SitePath ==
  ASSUME NEW C, UrlSigns \subseteq C, NEW place \in Seq(C), IsPrefix(SiteSlash, place)
  PROVE  LET path == SubSeq(place, 3, Len(place))
         IN /\ APath(C, path) /\ Tail(path) = SubSeq(place, 4, Len(place))
            /\ Url(Https, place) = HostOf(Https) \o path
<1> DEFINE path == SubSeq(place, 3, Len(place))
           o == Opening(Https)
           S == Site
           tail == SubSeq(place, 4, Len(place))
           n == Len(place)
           p == S \o path
<1>1. o \in Seq(C) /\ S \in Seq(C) /\ Len(S) = 2 /\ SiteSlash \in Seq(C)
  BY UrlWords
<1>2. n \in Nat /\ n >= 3 /\ place[1] = Lepusa /\ place[2] = Localhost /\ place[3] = Slash
  <2>1. Begins(SiteSlash, place)
    BY <1>1, PrefixIs
  <2>2. Len(SiteSlash) = 3 /\ SiteSlash[1] = Lepusa /\ SiteSlash[2] = Localhost /\ SiteSlash[3] = Slash
    BY DEF SiteSlash
  <2>3. Len(place) \in Nat
    OBVIOUS
  <2> HIDE DEF n
  <2>4. Len(place) >= 3 /\ \A i \in 1 .. 3 : SiteSlash[i] = place[i]
    BY <2>1, <2>2, <2>3 DEF Begins
  <2> QED
    BY <2>2, <2>3, <2>4 DEF n
<1>3. S[1] = Lepusa /\ S[2] = Localhost
  BY DEF Site
<1>4. path \in Seq(C) /\ Len(path) = n - 2 /\ \A i \in 1 .. n - 2 : path[i] = place[2 + i]
  <2>1. 2 \in 0 .. Len(place)
    BY <1>2
  <2>2. /\ From(place, 2) \in Seq(C) /\ Len(From(place, 2)) = Len(place) - 2
        /\ \A i \in 1 .. Len(place) - 2 : From(place, 2)[i] = place[2 + i]
    BY <2>1, FromHas
  <2>3. From(place, 2) = path
    BY DEF From
  <2> HIDE DEF path
  <2> QED
    BY <2>2, <2>3
<1>5. tail \in Seq(C) /\ Len(tail) = n - 3 /\ \A i \in 1 .. n - 3 : tail[i] = place[3 + i]
  <2>1. 3 \in 0 .. Len(place)
    BY <1>2
  <2>2. /\ From(place, 3) \in Seq(C) /\ Len(From(place, 3)) = Len(place) - 3
        /\ \A i \in 1 .. Len(place) - 3 : From(place, 3)[i] = place[3 + i]
    BY <2>1, FromHas
  <2>3. From(place, 3) = tail
    BY DEF From
  <2> HIDE DEF tail
  <2> QED
    BY <2>2, <2>3
<1> HIDE DEF path, tail, S
<1>6. APath(C, path)
  <2>1. 1 \in 1 .. n - 2
    BY <1>2
  <2>2. path[1] = place[3]
    <3>1. path[1] = place[2 + 1]
      BY <1>4, <2>1
    <3> QED
      BY <3>1
  <2>3. path # <<>>
    BY <1>2, <1>4
  <2> QED
    BY <1>2, <1>4, <2>2, <2>3 DEF APath
<1>7. Tail(path) = tail
  <2> DEFINE t == Tail(path)
  <2>1. path # <<>>
    BY <1>6 DEF APath
  <2>2. t \in Seq(C) /\ Len(t) = n - 3 /\ \A i \in 1 .. n - 3 : t[i] = path[i + 1]
    <3>1. Len(path) = n - 2 /\ n - 2 \in Nat /\ n - 2 >= 1
      BY <1>2, <1>4
    <3>2. t \in Seq(C) /\ Len(t) = Len(path) - 1 /\ \A i \in 1 .. Len(path) - 1 : t[i] = path[i + 1]
      BY <1>4, <2>1
    <3> HIDE DEF t, n
    <3> QED
      BY <1>2, <3>1, <3>2
  <2> HIDE DEF t
  <2>3. \A i \in 1 .. Len(t) : t[i] = tail[i]
    <3> SUFFICES ASSUME NEW i \in 1 .. n - 3 PROVE t[i] = tail[i]
      BY <2>2
    <3> DEFINE j == i + 1
    <3>1. j \in 1 .. n - 2 /\ 2 + j = 3 + i
      BY <1>2
    <3> HIDE DEF n
    <3>2. t[i] = path[j]
      BY <2>2
    <3> HIDE DEF j
    <3>3. path[j] = place[2 + j]
      BY <1>4, <3>1
    <3> QED
      BY <1>5, <3>1, <3>2, <3>3
  <2>4. t = tail
    BY <1>5, <2>2, <2>3, SeqEqual
  <2> QED
    BY <2>4 DEF t
<1>8. p = place
  <2>1. Pieces(C, p, S, path)
    BY <1>1, <1>4, PiecesOf
  <2> HIDE DEF p
  <2>2. /\ p \in Seq(C) /\ Len(p) = 2 + Len(path) /\ \A i \in 1 .. 2 : p[i] = S[i]
        /\ \A i \in 1 .. Len(path) : p[2 + i] = path[i]
    BY <1>1, <2>1 DEF Pieces
  <2>3. Len(p) = n
    BY <1>2, <1>4, <2>2
  <2>4. \A i \in 1 .. Len(p) : p[i] = place[i]
    <3> SUFFICES ASSUME NEW i \in 1 .. n PROVE p[i] = place[i]
      BY <2>3
    <3>1. CASE i = 1
      BY <1>2, <1>3, <2>2, <3>1
    <3>2. CASE i = 2
      BY <1>2, <1>3, <2>2, <3>2
    <3>3. CASE i > 2
      <4> DEFINE j == i - 2
      <4>1. j \in 1 .. n - 2 /\ i = 2 + j
        BY <1>2, <3>3
      <4> HIDE DEF j, n
      <4> QED
        BY <1>4, <2>2, <4>1
    <3> QED
      BY <3>1, <3>2, <3>3
  <2> QED
    BY <2>2, <2>3, <2>4, SeqEqual
<1>9. Url(Https, place) = HostOf(Https) \o path
  <2>1. Url(Https, place) = o \o place /\ HostOf(Https) = o \o S
    BY UrlParts DEF Url, Opening, Colon, Slash, S
  <2> HIDE DEF o
  <2>2. Associates(C, o, S, path)
    BY <1>1, <1>4, Assoc
  <2> QED
    BY <1>8, <2>1, <2>2 DEF Associates
<1> QED
  BY <1>6, <1>7, <1>9 DEF path, tail

(* What a page has loaded, whether the resolver is asked, and for what.    *)
LoadedUrl(scheme, place) ==
  IF platform = "windows" THEN WebviewUrl(Url(scheme, place), Lepusa) ELSE Url(scheme, place)

(* Whether the resolver is asked.                                          *)
AskedFor(scheme, place) ==
  IF platform = "windows" THEN IsPrefix(HostSlash, LoadedUrl(scheme, place))
  ELSE LoadedUrl(scheme, place)[1] = Lepusa

(* And for which URL.                                                      *)
UrlAsked(scheme, place) ==
  IF AskedFor(scheme, place) /\ platform = "windows"
  THEN ResolverUrl(LoadedUrl(scheme, place), Lepusa) ELSE LoadedUrl(scheme, place)

(* A page that names the host itself.                                      *)
Direct(scheme, place) == platform = "windows" /\ scheme = Https /\ IsPrefix(SiteSlash, place)

(* What PacketsArrive says of a URL.                                       *)
Reached(scheme, place) ==
  /\ AskedFor(scheme, place) <=> scheme = Lepusa \/ Direct(scheme, place)
  /\ IF Direct(scheme, place)
     THEN UrlAsked(scheme, place) = Url(Lepusa, SubSeq(place, 4, Len(place)))
     ELSE \/ UrlAsked(scheme, place) = Url(scheme, place)
          \/ /\ place # <<>> /\ place[1] = Slash
             /\ UrlAsked(scheme, place) = Url(scheme, Tail(place))

LEMMA UrlTypes == UrlSigns \subseteq UrlWire /\ \A place \in Seq(Characters) : place \in Seq(UrlWire)
<1>1. Characters \subseteq UrlWire /\ UrlSigns \subseteq UrlWire
  BY DEF UrlWire
<1> HIDE DEF UrlWire
<1> QED
  BY <1>1, MoreCharacters

(* Off Windows a page loads the URL itself.                                *)
LEMMA PlainReached ==
  ASSUME NEW scheme \in {Lepusa, Https}, NEW place \in Seq(Characters), platform # "windows"
  PROVE  Reached(scheme, place)
<1> DEFINE o == Opening(scheme)
           url == o \o place
           C == UrlWire
<1>1. Url(scheme, place) = url
  BY DEF Url, Opening, Colon, Slash
<1>2. o \in Seq(C) /\ Len(o) = 4 /\ place \in Seq(C)
  BY UrlTypes, UrlWords
<1>3. o[1] = scheme /\ Lepusa # Https
  BY DEF Opening, Lepusa, Https
<1> HIDE DEF o, C
<1>4. url[1] = scheme
  <2>1. Pieces(C, url, o, place)
    BY <1>2, PiecesOf
  <2> HIDE DEF url
  <2> QED
    BY <1>2, <1>3, <2>1 DEF Pieces
<1> HIDE DEF url
<1>5. LoadedUrl(scheme, place) = url /\ UrlAsked(scheme, place) = url /\ ~Direct(scheme, place)
  BY <1>1 DEF LoadedUrl, UrlAsked, Direct
<1>6. AskedFor(scheme, place) <=> scheme = Lepusa
  BY <1>4, <1>5 DEF AskedFor
<1> QED
  BY <1>1, <1>5, <1>6 DEF Reached

(* On Windows a page that loads the protocol's URL loads one of its host,  *)
(* and the resolver is asked for the URL again, but for one slash.         *)
LEMMA ProtocolReached ==
  ASSUME NEW place \in Seq(Characters), platform = "windows"
  PROVE  Reached(Lepusa, place)
<1> DEFINE C == UrlWire
           path == IF place # <<>> /\ place[1] = Slash THEN place ELSE <<Slash>> \o place
           url == HostOf(Https) \o path
<1>1. UrlSigns \subseteq C /\ place \in Seq(C) /\ Slash \in C
  BY UrlTypes DEF UrlSigns
<1>2. LoadedUrl(Lepusa, place) = url
  BY <1>1, WebviewLepusa DEF LoadedUrl
<1> HIDE DEF C
<1>3. APath(C, path) /\ Tail(path) = IF place # <<>> /\ place[1] = Slash THEN Tail(place) ELSE place
  <2>1. CASE place # <<>> /\ place[1] = Slash
    BY <1>1, <2>1 DEF APath
  <2>2. CASE ~(place # <<>> /\ place[1] = Slash)
    BY <1>1, <2>2, SlashFirst
  <2> QED
    BY <2>1, <2>2
<1> HIDE DEF path
<1>4. IsPrefix(HostSlash, url) /\ ResolverUrl(url, Lepusa) = Url(Lepusa, Tail(path))
  BY <1>1, <1>3, ResolverHost
<1> HIDE DEF url
<1>5. AskedFor(Lepusa, place)
  BY <1>2, <1>4 DEF AskedFor
<1>6. UrlAsked(Lepusa, place) = Url(Lepusa, Tail(path))
  BY <1>2, <1>4, <1>5 DEF UrlAsked
<1>7. ~Direct(Lepusa, place)
  BY DEF Direct, Lepusa, Https
<1> QED
  BY <1>3, <1>5, <1>6, <1>7 DEF Reached

(* Any other URL it loads as it is: one of the host is the resolver's.     *)
LEMMA OtherReached ==
  ASSUME NEW place \in Seq(Characters), platform = "windows"
  PROVE  Reached(Https, place)
<1> DEFINE C == UrlWire
           url == Url(Https, place)
<1>1. UrlSigns \subseteq C /\ place \in Seq(C)
  BY UrlTypes
<1> HIDE DEF C
<1>2. LoadedUrl(Https, place) = url
  BY <1>1, WebviewHttps DEF LoadedUrl
<1>3. IsPrefix(HostSlash, url) <=> IsPrefix(SiteSlash, place)
  BY <1>1, HostAsked
<1> HIDE DEF url
<1>4. Https # Lepusa
  BY DEF Https, Lepusa
<1>5. AskedFor(Https, place) <=> IsPrefix(SiteSlash, place)
  BY <1>2, <1>3 DEF AskedFor
<1>6. Direct(Https, place) <=> IsPrefix(SiteSlash, place)
  BY DEF Direct
<1>7. CASE IsPrefix(SiteSlash, place)
  <2> DEFINE path == SubSeq(place, 3, Len(place))
  <2>1. /\ APath(C, path) /\ Tail(path) = SubSeq(place, 4, Len(place))
        /\ url = HostOf(Https) \o path
    BY <1>1, <1>7, SitePath DEF url
  <2> HIDE DEF path
  <2>2. ResolverUrl(url, Lepusa) = Url(Lepusa, Tail(path))
    BY <1>1, <2>1, ResolverHost
  <2>3. UrlAsked(Https, place) = Url(Lepusa, SubSeq(place, 4, Len(place)))
    BY <1>2, <1>5, <1>7, <2>1, <2>2 DEF UrlAsked
  <2> QED
    BY <1>5, <1>6, <1>7, <2>3 DEF Reached
<1>8. CASE ~IsPrefix(SiteSlash, place)
  <2>1. UrlAsked(Https, place) = Url(Https, place)
    BY <1>2, <1>5, <1>8 DEF UrlAsked, url
  <2> QED
    BY <1>4, <1>5, <1>6, <1>8, <2>1 DEF Reached
<1> QED
  BY <1>7, <1>8

(* A page's URL is asked for as it was meant, on every platform.           *)
LEMMA UrlReached ==
  ASSUME NEW scheme \in {Lepusa, Https}, NEW place \in Seq(Characters)
  PROVE  Reached(scheme, place)
  BY PlainReached, ProtocolReached, OtherReached

-----------------------------------------------------------------------------
(* What arrives.                                                           *)

(* A packet that arrives, by its kind; each under the names of PacketsArrive. *)
LEMMA HandoffArrives ==
  ASSUME NEW status \in Statuses, NEW label \in Seq(Characters \ {NL}),
         NEW script \in Seq(Characters \ {Nul}), NEW ops \in Seq(AnOperation),
         Handoff(status, label, script, ops)
  PROVE  PacketsArrive'
<1> DEFINE packet == HandoffPacket(status, label, script, ops)
           S == IF status = "immediate" THEN Utf8(script) ELSE Broken[1]
           O == IF status \in Accepted THEN [r \in DOMAIN ops |-> Received(ops[r])] ELSE <<>>
<1>1. /\ sent' = [kind |-> "handoff", status |-> status, script |-> script, operations |-> ops]
      /\ arrived' = [kind |-> "handoff", script |-> ScriptOf(packet), operations |-> Taken(packet)]
      /\ platform' = platform
  BY DEF Handoff, Taken
<1>2. ScriptOf(packet) = S /\ Taken(packet) = O
  BY HandoffReads DEF HandoffRead
<1> HIDE DEF packet
<1>3. arrived'.script = S /\ arrived'.operations = O
  BY <1>1, <1>2
<1>4. sent'.kind = "handoff" /\ sent'.status = status /\ sent'.script = script /\ sent'.operations = ops
  BY <1>1
<1>5. Accepted' = Accepted
  BY <1>1 DEF Accepted
<1>6. arrived'.script = IF sent'.status = "immediate" THEN Utf8(sent'.script) ELSE Broken[1]
  BY <1>3, <1>4
<1>7. arrived'.operations =
        IF sent'.status \in Accepted'
        THEN [r \in DOMAIN sent'.operations |->
               [sent'.operations[r] EXCEPT !.window = Utf8(@), !.title = Utf8(@)]]
        ELSE <<>>
  BY <1>3, <1>4, <1>5 DEF Received
<1> QED
  BY <1>4, <1>6, <1>7 DEF PacketsArrive

(* An asset.                                                               *)
LEMMA AssetArrives ==
  ASSUME NEW kind \in {Virtual, AFile, AnError}, NEW body \in Seq(Characters), NEW readable \in BOOLEAN,
         Asset(kind, body, readable)
  PROVE  PacketsArrive'
<1> DEFINE shown == FinishRequest(AssetPacket(kind, body), readable)
           found == kind = Virtual \/ (kind = AFile /\ readable)
           text == Seen(Utf8(body))
<1>1. /\ sent' = [kind |-> "asset", of |-> kind, body |-> body, readable |-> readable]
      /\ arrived' = shown /\ platform' = platform
  BY DEF Asset
<1>2. /\ found <=> shown.what # "message"
      /\ kind # AFile \/ found => shown.text = text
      /\ platform = "windows" => shown.status = IF found THEN 200 ELSE 404
  BY ErrorRead, FoundRead DEF AssetRead
<1>3. sent'.kind = "asset" /\ sent'.of = kind /\ sent'.body = body /\ sent'.readable = readable
  BY <1>1
<1>4. (sent'.of = "virtual" \/ (sent'.of = "file" /\ sent'.readable)) <=> found
  BY <1>3 DEF Virtual, AFile
<1>5. (IF platform' = "macos" THEN Utf8(sent'.body) ELSE CString(Utf8(sent'.body))) = text
  BY <1>1, <1>3 DEF Seen
<1>6. sent'.of # "file" <=> kind # AFile
  BY <1>3 DEF AFile
<1> HIDE DEF shown, found, text
<1>7. /\ found <=> arrived'.what # "message"
      /\ sent'.of # "file" \/ found => arrived'.text = text
      /\ platform' = "windows" => arrived'.status = IF found THEN 200 ELSE 404
  BY <1>1, <1>2, <1>6
<1> QED
  BY <1>3, <1>4, <1>5, <1>7 DEF PacketsArrive

(* A URL.                                                                  *)
LEMMA UrlArrives ==
  ASSUME NEW scheme \in {Lepusa, Https}, NEW place \in Seq(Characters), Load(scheme, place)
  PROVE  PacketsArrive'
<1> DEFINE asked == AskedFor(scheme, place)
           url == UrlAsked(scheme, place)
           direct == Direct(scheme, place)
<1>1. /\ sent' = [kind |-> "url", scheme |-> scheme, place |-> place]
      /\ arrived' = [kind |-> "url", asked |-> asked, url |-> url] /\ platform' = platform
  BY DEF Load, AskedFor, UrlAsked, LoadedUrl, HostSlash, Lepusa, Localhost, Https, Colon, Slash
<1>2. /\ asked <=> scheme = Lepusa \/ direct
      /\ IF direct THEN url = Url(Lepusa, SubSeq(place, 4, Len(place)))
         ELSE \/ url = Url(scheme, place)
              \/ place # <<>> /\ place[1] = Slash /\ url = Url(scheme, Tail(place))
  BY UrlReached DEF Reached
<1>3. sent'.kind = "url" /\ sent'.scheme = scheme /\ sent'.place = place
  BY <1>1
<1>4. (/\ platform' = "windows" /\ sent'.scheme = "https"
       /\ IsPrefix(<<"lepusa", ".localhost", "/">>, sent'.place)) <=> direct
  BY <1>1, <1>3 DEF Direct, SiteSlash, Lepusa, Localhost, Https, Slash
<1> HIDE DEF asked, url, direct
<1>5. arrived'.asked = asked /\ arrived'.url = url
  BY <1>1
<1>6. arrived'.asked <=> sent'.scheme = "lepusa" \/ direct
  BY <1>2, <1>3, <1>5 DEF Lepusa
<1>7. IF direct THEN arrived'.url = Url("lepusa", SubSeq(sent'.place, 4, Len(sent'.place)))
      ELSE \/ arrived'.url = Url(sent'.scheme, sent'.place)
           \/ /\ sent'.place # <<>> /\ sent'.place[1] = "/"
              /\ arrived'.url = Url(sent'.scheme, Tail(sent'.place))
  BY <1>2, <1>3, <1>5 DEF Lepusa, Slash
<1> QED
  BY <1>3, <1>4, <1>6, <1>7 DEF PacketsArrive

(* Nothing.                                                                *)
LEMMA NothingArrives ==
  /\ sent = Nil /\ arrived = Nil => PacketsArrive
  /\ sent' = Nil /\ arrived' = Nil => PacketsArrive'
<1>1. ASSUME sent = Nil, arrived = Nil PROVE PacketsArrive
  <2>1. sent.kind = "nothing"
    BY <1>1 DEF Nil
  <2> QED
    BY <1>1, <2>1 DEF PacketsArrive
<1>2. ASSUME sent' = Nil, arrived' = Nil PROVE PacketsArrive'
  <2>1. sent'.kind = "nothing" /\ arrived' = Nil'
    BY <1>2 DEF Nil
  <2> QED
    BY <2>1 DEF PacketsArrive
<1> QED
  BY <1>1, <1>2

(* Other parts leave packets alone.                                        *)
LEMMA PacketsKept ==
  ASSUME PacketsArrive, UNCHANGED <<platform, sent, arrived>>
  PROVE  PacketsArrive'
  BY ZenonT(40) DEF PacketsArrive, Accepted

(* Each step keeps the property: it is its own invariant.                  *)
LEMMA PacketsStep ==
  ASSUME PacketsArrive, [TextNext]_textVars
  PROVE  PacketsArrive'
<1>1. CASE LoginStep
  <2>1. UNCHANGED <<platform, sent, arrived>>
    BY <1>1 DEF LoginStep, packetVars, Enable, Disable
  <2> QED
    BY <2>1, PacketsKept
<1>2. CASE ServiceStep
  <2>1. UNCHANGED <<platform, sent, arrived>>
    BY <1>2 DEF ServiceStep, packetVars, StartService, StopService
  <2> QED
    BY <2>1, PacketsKept
<1>3. CASE DialogStep
  <2>1. UNCHANGED <<platform, sent, arrived>>
    BY <1>3 DEF DialogStep, packetVars, Ask, UserChooses, UserCancels, ToolFails, Answer
  <2> QED
    BY <2>1, PacketsKept
<1>4. CASE PacketStep
  <2>1. ASSUME NEW status \in {"immediate", "deferred"}, NEW label \in Labels, NEW script \in Scripts,
               NEW ops \in Operations, Handoff(status, label, script, ops)
        PROVE  PacketsArrive'
    <3>1. status \in Statuses
      BY DEF Statuses
    <3>2. label \in Seq(Characters \ {NL}) /\ script \in Seq(Characters \ {Nul}) /\ ops \in Seq(AnOperation)
      BY PacketsAssumption, OperationsAssumption DEF Nul
    <3> QED
      BY <2>1, <3>1, <3>2, HandoffArrives
  <2>2. ASSUME NEW problems \in Scripts, Handoff("error", <<>>, problems, <<>>)
        PROVE  PacketsArrive'
    <3>1. "error" \in Statuses
      BY DEF Statuses
    <3>2. problems \in Seq(Characters \ {Nul})
      BY PacketsAssumption DEF Nul
    <3>3. <<>> \in Seq(Characters \ {NL}) /\ <<>> \in Seq(AnOperation)
      BY EmptyType
    <3> QED
      BY <2>2, <3>1, <3>2, <3>3, HandoffArrives
  <2>3. ASSUME NEW kind \in {"virtual", "file", "error"}, NEW body \in Bodies, NEW readable \in BOOLEAN,
               Asset(kind, body, readable)
        PROVE  PacketsArrive'
    <3>1. kind \in {Virtual, AFile, AnError}
      BY DEF Virtual, AFile, AnError
    <3>2. body \in Seq(Characters)
      BY PacketsAssumption
    <3> QED
      BY <2>3, <3>1, <3>2, AssetArrives
  <2>4. ASSUME NEW scheme \in {"lepusa", "https"}, NEW location \in Locations, Load(scheme, location)
        PROVE  PacketsArrive'
    <3>1. scheme \in {Lepusa, Https}
      BY DEF Lepusa, Https
    <3>2. location \in Seq(Characters)
      BY PacketsAssumption
    <3> QED
      BY <2>4, <3>1, <3>2, UrlArrives
  <2>5. CASE Forget
    BY <2>5, NothingArrives DEF Forget
  <2> QED
    BY <1>4, <2>1, <2>2, <2>3, <2>4, <2>5 DEF PacketStep
<1>5. CASE UNCHANGED textVars
  <2>1. UNCHANGED <<platform, sent, arrived>>
    BY <1>5 DEF textVars, packetVars
  <2> QED
    BY <2>1, PacketsKept
<1> QED
  BY <1>1, <1>2, <1>3, <1>4, <1>5 DEF TextNext

(* The loop reads from a packet the script and the operations the host has *)
(* put there, a page is shown the asset the host has resolved, and the     *)
(* resolver is asked for the URL the page has loaded.                      *)
THEOREM PacketsDoArrive == TextSpec => []PacketsArrive
<1>1. TextInit => PacketsArrive
  BY NothingArrives DEF TextInit, PacketInit
<1>2. PacketsArrive /\ [TextNext]_textVars => PacketsArrive'
  BY PacketsStep
<1> QED
  BY <1>1, <1>2, PTL DEF TextSpec

=============================================================================
