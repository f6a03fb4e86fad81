------------------------- MODULE DesktopShell_proofs -------------------------
(***************************************************************************)
(* Menus, clicks, the tray and full screen for every set of labels, every  *)
(* application, all menus and every number of slots, of commands and of    *)
(* records, on each of the platforms.                                      *)
(***************************************************************************)
EXTENDS DesktopShell, Lists_proofs

(* Remainders: x = q * n + x % n, and no other way.                        *)
LEMMA Division ==
  ASSUME NEW x \in Nat, NEW n \in Nat, n > 0
  PROVE  (x % n) \in 0 .. n - 1 /\ \E q \in Nat : x = q * n + (x % n)
<1>1. (x % n) \in 0 .. n - 1
  OBVIOUS
<1>2. x \div n \in Nat
  OBVIOUS
<1>3. x = n * (x \div n) + (x % n)
  OBVIOUS
<1> QED
  BY <1>1, <1>2, <1>3

LEMMA Multiples ==
  ASSUME NEW a \in Nat, NEW b \in Nat, NEW n \in Nat, a <= b
  PROVE  a * n \in Nat /\ b * n \in Nat /\ a * n <= b * n
OBVIOUS

LEMMA NextMultiple ==
  ASSUME NEW a \in Nat, NEW n \in Nat
  PROVE  a * n \in Nat /\ (a + 1) * n = a * n + n
OBVIOUS

LEMMA Remainder ==
  ASSUME NEW b \in Nat, NEW n \in Nat, NEW i \in 1 .. n
  PROVE  (b * n + i - 1) % n = i - 1
<1> DEFINE x == b * n + i - 1
<1>1. n > 0 /\ b * n \in Nat /\ x \in Nat
  BY NextMultiple
<1>2. PICK q \in Nat : x = q * n + (x % n)
  BY <1>1, Division
<1>3. (x % n) \in 0 .. n - 1
  BY <1>1, Division
<1>4. q = b
  <2>1. CASE q < b
    <3>1. (q + 1) * n <= b * n /\ (q + 1) * n = q * n + n /\ q * n \in Nat
      BY <2>1, Multiples, NextMultiple
    <3> QED
      BY <1>1, <1>2, <1>3, <3>1
  <2>2. CASE b < q
    <3>1. (b + 1) * n <= q * n /\ (b + 1) * n = b * n + n /\ q * n \in Nat
      BY <2>2, Multiples, NextMultiple
    <3> QED
      BY <1>1, <1>2, <1>3, <3>1
  <2> QED
    BY <2>1, <2>2
<1> QED
  BY <1>1, <1>2, <1>3, <1>4

(* The smallest of some positions is one of them.                          *)
LEMMA MinIsIn ==
  ASSUME NEW T \in SUBSET Nat, T # {}
  PROVE  Min(T) \in T
BY SmallestOf DEF Min

(* Of a list without repetitions, the elements in a set that come before   *)
(* another one of it are fewer than there are in the set.                  *)
LEMMA FewerBefore ==
  ASSUME NEW S, NEW list \in Seq(S), NEW targets, IsFiniteSet(targets), NEW f \in targets,
         \A i, j \in DOMAIN list : list[i] = list[j] => i = j,
         NEW early, early \subseteq DOMAIN list,
         \A i \in early : list[i] \in targets /\ list[i] # f
  PROVE  Cardinality(early) \in Nat /\ Cardinality(early) + 1 <= Cardinality(targets)
<1> DEFINE others == targets \ {f}
<1> DEFINE g == [i \in early |-> list[i]]
<1>1. IsFiniteSet(others) /\ Cardinality(others) = Cardinality(targets) - 1
      /\ Cardinality(others) \in Nat /\ Cardinality(targets) \in Nat
  BY FS_RemoveElement, FS_CardinalityType
<1>2. g \in Injection(early, others)
  BY DEF Injection, IsInjective
<1> HIDE DEF g, others
<1>3. IsFiniteSet(early) /\ Cardinality(early) <= Cardinality(others)
  BY <1>1, <1>2, FS_Injection
<1>4. Cardinality(early) \in Nat
  BY <1>3, FS_CardinalityType
<1> QED
  BY <1>1, <1>3, <1>4

-----------------------------------------------------------------------------
LEMMA CallBound ==
  ASSUME NEW p \in Platforms
  PROVE  MaxCalls[p] \in Nat /\ \E m \in Nat : MaxCalls[p] <= m /\ Frames = 1 .. Len(Initial) + m
<1> DEFINE S == {MaxCalls[q] : q \in Platforms}
<1>1. S \subseteq Nat /\ MaxCalls[p] \in S
  BY TableAssumption
<1>2. \E x \in S : \A y \in S : x >= y
  <2>1. \A q \in Platforms : MaxCalls[q] \in Nat /\ q \in {"linux", "macos", "windows"}
    BY TableAssumption
  <2>2. \E q \in Platforms : \A r \in Platforms : MaxCalls[q] >= MaxCalls[r]
    BY <2>1
  <2> QED
    BY <2>2
<1>3. Frames = 1 .. Len(Initial) + Max(S)
  BY DEF Frames
<1> HIDE DEF S
<1>4. Max(S) \in S /\ \A y \in S : Max(S) >= y
  BY <1>2 DEF Max
<1> QED
  BY <1>1, <1>3, <1>4

-----------------------------------------------------------------------------
(* The windows: no more than there were at the start and records since.    *)
WindowsInv ==
  /\ platform \in Platforms
  /\ budget \in Nat /\ budget <= MaxCalls[platform]
  /\ frames \in Seq(Labels)
  /\ shown \subseteq DOMAIN frames
  /\ frames # <<>> => Len(frames) + budget <= Len(Initial) + MaxCalls[platform]

LEMMA ShownAreFrames == WindowsInv => DOMAIN frames \subseteq Frames /\ shown \subseteq Frames
<1> SUFFICES ASSUME WindowsInv PROVE DOMAIN frames \subseteq Frames
  BY DEF WindowsInv
<1>1. PICK m \in Nat : MaxCalls[platform] <= m /\ Frames = 1 .. Len(Initial) + m
  BY CallBound DEF WindowsInv
<1>2. MaxCalls[platform] \in Nat /\ Len(Initial) \in Nat /\ Len(frames) \in Nat /\ budget \in Nat
      /\ DOMAIN frames = 1 .. Len(frames)
  BY CallBound, TableAssumption DEF WindowsInv
<1>3. CASE frames = <<>>
  BY <1>3 DEF WindowsInv
<1>4. CASE frames # <<>>
  <2>1. Len(frames) + budget <= Len(Initial) + MaxCalls[platform]
    BY <1>4 DEF WindowsInv
  <2>2. Len(frames) <= Len(Initial) + m
    BY <1>1, <1>2, <2>1
  <2> QED
    BY <1>1, <1>2, <2>2 DEF WindowsInv
<1> QED
  BY <1>3, <1>4

(* A step opens one window at most for a record, or the first ones.        *)
LEMMA WindowsKept ==
  ASSUME WindowsInv, UNCHANGED platform,
         \/ UNCHANGED <<frames, budget>> /\ shown' \subseteq shown
         \/ /\ frames # <<>> /\ budget > 0 /\ budget' = budget - 1
            /\ \/ UNCHANGED frames /\ shown' \subseteq shown
               \/ \E label \in Labels : frames' = Append(frames, label)
                                        /\ shown' \subseteq shown \cup {Len(frames) + 1}
         \/ /\ UNCHANGED budget /\ frames' \in Seq(Labels) /\ Len(frames') <= Len(Initial)
            /\ shown' \subseteq DOMAIN frames'
  PROVE  WindowsInv'
<1>0. /\ MaxCalls[platform] \in Nat /\ Len(Initial) \in Nat /\ Len(frames) \in Nat /\ budget \in Nat
      /\ DOMAIN frames = 1 .. Len(frames) /\ frames \in Seq(Labels)
      /\ budget <= MaxCalls[platform]
      /\ frames # <<>> => Len(frames) + budget <= Len(Initial) + MaxCalls[platform]
      /\ shown \subseteq DOMAIN frames /\ platform \in Platforms
  BY CallBound, TableAssumption DEF WindowsInv
<1>1. CASE UNCHANGED <<frames, budget>> /\ shown' \subseteq shown
  BY <1>0, <1>1 DEF WindowsInv
<1>2. CASE /\ frames # <<>> /\ budget > 0 /\ budget' = budget - 1
           /\ UNCHANGED frames /\ shown' \subseteq shown
  <2>1. /\ budget' \in Nat /\ budget' <= MaxCalls[platform]
        /\ Len(frames) + budget' <= Len(Initial) + MaxCalls[platform]
    <3>1. /\ Len(frames) + budget <= Len(Initial) + MaxCalls[platform]
          /\ budget' = budget - 1 /\ budget > 0
      BY <1>0, <1>2
    <3> QED
      BY <1>0, <3>1
  <2> QED
    BY <1>0, <1>2, <2>1 DEF WindowsInv
<1>3. CASE /\ frames # <<>> /\ budget > 0 /\ budget' = budget - 1
           /\ \E label \in Labels : frames' = Append(frames, label)
                                    /\ shown' \subseteq shown \cup {Len(frames) + 1}
  <2>1. PICK label \in Labels : frames' = Append(frames, label)
                                /\ shown' \subseteq shown \cup {Len(frames) + 1}
    BY <1>3
  <2>2. frames' \in Seq(Labels) /\ Len(frames') = Len(frames) + 1
        /\ DOMAIN frames' = 1 .. Len(frames) + 1
    <3>1. PICK list \in Seq(Labels) : list = frames
      BY <1>0
    <3>2. PICK longer : longer = Append(list, label)
      OBVIOUS
    <3>3. longer \in Seq(Labels) /\ Len(longer) = Len(list) + 1 /\ DOMAIN longer = 1 .. Len(list) + 1
      BY <3>2
    <3>4. frames' = longer
      BY <2>1, <3>1, <3>2
    <3> QED
      BY <3>1, <3>3, <3>4
  <2>3. shown' \subseteq DOMAIN frames'
    <3>1. DOMAIN frames \cup {Len(frames) + 1} = 1 .. Len(frames) + 1
      BY <1>0
    <3>2. shown' \subseteq shown \cup {Len(frames) + 1}
      BY <2>1
    <3> QED
      BY <1>0, <2>2, <3>1, <3>2
  <2>4. /\ budget' \in Nat /\ budget' <= MaxCalls[platform]
        /\ Len(frames') + budget' <= Len(Initial) + MaxCalls[platform]
    <3>1. Len(frames) + budget <= Len(Initial) + MaxCalls[platform] /\ budget' = budget - 1 /\ budget > 0
      BY <1>0, <1>3
    <3> QED
      BY <1>0, <2>2, <3>1
  <2> QED
    BY <1>0, <2>2, <2>3, <2>4 DEF WindowsInv
<1>4. CASE /\ UNCHANGED budget /\ frames' \in Seq(Labels) /\ Len(frames') <= Len(Initial)
           /\ shown' \subseteq DOMAIN frames'
  <2>1. Len(frames') \in Nat
    BY <1>4
  <2>2. Len(frames') + budget' <= Len(Initial) + MaxCalls[platform]
    BY <1>0, <1>4, <2>1
  <2> QED
    BY <1>0, <1>4, <2>2 DEF WindowsInv
<1> QED
  BY <1>1, <1>2, <1>3, <1>4

-----------------------------------------------------------------------------
(* What full screen takes away and puts back: a framed look, and what of a *)
(* bare window is still there when it leaves.                              *)
Framed(l) == l.style = "framed" /\ l.rect # "monitor" /\ l.normal # "monitor"

Kept(l) == l.normal # "monitor" /\ (l.state = "restored" => l.rect # "monitor")

Win32Look(isFull, l, s) ==
  IF isFull THEN Framed(s) /\ (s.state # "restored" => Kept(l)) ELSE Framed(l)

(* A window is, or will be when nothing is under way, as was last said.    *)
Heard(f) ==
  f \notin denied =>
    wanted[f] = IF under[f] = <<>> THEN full[f] ELSE under[f][Len(under[f])]

WindowOK(f) ==
  /\ Heard(f)
  /\ platform = "macos" => Len(under[f]) <= 1
  /\ platform = "windows" => under[f] = <<>> /\ Win32Look(full[f], look[f], saved[f])
  /\ platform # "windows" => Framed(look[f])

ControlInv == ControlTypeOK /\ \A f \in Frames : WindowOK(f)

DesktopInv == WindowsInv /\ ControlInv

LEMMA PlacedLook ==
  ASSUME NEW l \in Looks, NEW r \in Rects
  PROVE  /\ Placed(l, r) \in Looks
         /\ Placed(l, r).style = l.style /\ Placed(l, r).state = l.state /\ Placed(l, r).rect = r
         /\ Placed(l, r).normal = IF l.state = "restored" THEN r ELSE l.normal
BY DEF Placed, Looks

LEMMA ShownLook ==
  ASSUME NEW l \in Looks, NEW state \in {"maximized", "minimized"}, NEW m \in Shown(l, state)
  PROVE  m \in Looks /\ (Framed(l) => Framed(m)) /\ (Kept(l) => Kept(m))
<1>1. CASE m = l
  BY <1>1
<1>2. ASSUME NEW r \in {"icon", "work", "monitor"}, r = "monitor" => l.style = "bare",
             m = [l EXCEPT !.state = state, !.rect = r,
                           !.normal = IF l.state = "restored" THEN l.rect ELSE l.normal]
      PROVE  m \in Looks /\ (Framed(l) => Framed(m)) /\ (Kept(l) => Kept(m))
  <2>1. r \in Rects
    BY DEF Rects
  <2>2. m \in Looks /\ m.style = l.style /\ m.state = state /\ m.rect = r
        /\ m.normal = IF l.state = "restored" THEN l.rect ELSE l.normal
    BY <1>2, <2>1 DEF Looks
  <2> QED
    BY <1>2, <2>2 DEF Framed, Kept
<1> QED
  BY <1>1, <1>2 DEF Shown

LEMMA RestoredLook ==
  ASSUME NEW l \in Looks, NEW m \in Restored(l)
  PROVE  m \in Looks /\ (Framed(l) => Framed(m)) /\ (Kept(l) => Kept(m))
<1>1. CASE m = l
  BY <1>1
<1>2. CASE m = [l EXCEPT !.state = "restored", !.rect = l.normal]
  <2>1. m \in Looks /\ m.style = l.style /\ m.rect = l.normal /\ m.normal = l.normal
    BY <1>2 DEF Looks
  <2> QED
    BY <2>1 DEF Framed, Kept
<1>3. CASE m \in Shown(l, "maximized")
  BY <1>3, ShownLook
<1> QED
  BY <1>1, <1>2, <1>3 DEF Restored

LEMMA ReshapedLook ==
  ASSUME NEW l \in Looks, NEW m \in Reshaped(l)
  PROVE  m \in Looks /\ (Framed(l) => Framed(m)) /\ (Kept(l) => Kept(m))
<1>1. CASE m = Placed(l, "asked")
  <2>1. "asked" \in Rects
    BY DEF Rects
  <2> QED
    BY <1>1, <2>1, PlacedLook DEF Framed, Kept
<1> QED
  BY <1>1, ShownLook, RestoredLook DEF Reshaped

(* A window that covers the monitor has kept a framed look, and a framed   *)
(* window that was maximized is still restored to where it was.            *)
LEMMA EnteredLook ==
  ASSUME NEW l \in Looks, Framed(l)
  PROVE  /\ Placed([l EXCEPT !.style = "bare"], "monitor") \in Looks
         /\ Win32Look(TRUE, Placed([l EXCEPT !.style = "bare"], "monitor"), l)
<1>1. PICK m \in Looks : m = [l EXCEPT !.style = "bare"]
  BY DEF Looks
<1>2. m.state = l.state /\ m.normal = l.normal
  BY <1>1 DEF Looks
<1>3. "monitor" \in Rects
  BY DEF Rects
<1>4. /\ Placed(m, "monitor") \in Looks /\ Placed(m, "monitor").state = l.state
      /\ l.state # "restored" => Placed(m, "monitor").normal = l.normal
  BY <1>2, <1>3, PlacedLook
<1> QED
  BY <1>1, <1>4 DEF Win32Look, Framed, Kept

LEMMA LeftLook ==
  ASSUME NEW l \in Looks, NEW s \in Looks, Win32Look(TRUE, l, s)
  PROVE  LET m == Placed([l EXCEPT !.style = s.style, !.state = s.state], s.rect)
         IN  m \in Looks /\ Framed(m)
<1>1. PICK m \in Looks : m = [l EXCEPT !.style = s.style, !.state = s.state]
  BY DEF Looks
<1>2. m.style = s.style /\ m.state = s.state /\ m.normal = l.normal /\ s.rect \in Rects
  BY <1>1 DEF Looks
<1>3. /\ Placed(m, s.rect) \in Looks
      /\ Placed(m, s.rect).style = s.style /\ Placed(m, s.rect).rect = s.rect
      /\ Placed(m, s.rect).normal = IF s.state = "restored" THEN s.rect ELSE l.normal
  BY <1>2, PlacedLook
<1> QED
  BY <1>1, <1>3 DEF Win32Look, Framed, Kept

(* A step changes one window.                                              *)
LEMMA OneWindow ==
  ASSUME DesktopInv, UNCHANGED platform, ControlTypeOK', NEW f \in Frames, WindowOK(f)',
         \A g \in Frames \ {f} :
           /\ full'[g] = full[g] /\ look'[g] = look[g] /\ saved'[g] = saved[g]
           /\ under'[g] = under[g] /\ wanted'[g] = wanted[g] /\ (g \in denied => g \in denied')
  PROVE  ControlInv'
<1>1. ASSUME NEW g \in Frames \ {f} PROVE WindowOK(g)'
  BY <1>1 DEF DesktopInv, ControlInv, WindowOK, Heard
<1> QED
  BY <1>1 DEF ControlInv

LEMMA ControlTypes ==
  ASSUME DesktopInv
  PROVE  /\ ControlTypeOK /\ platform \in {"linux", "macos", "windows"}
         /\ full \in [Frames -> BOOLEAN] /\ wanted \in [Frames -> BOOLEAN]
         /\ look \in [Frames -> Looks] /\ saved \in [Frames -> Looks]
         /\ under \in [Frames -> Seq(BOOLEAN)] /\ denied \subseteq Frames
         /\ \A f \in Frames : WindowOK(f)
BY TableAssumption DEF DesktopInv, ControlInv, ControlTypeOK, WindowsInv

LEMMA Win32Keeps ==
  ASSUME DesktopInv, UNCHANGED platform, platform = "windows", NEW f \in Frames, NEW on \in BOOLEAN,
         SetWin32(f, on), wanted' = [wanted EXCEPT ![f] = on]
  PROVE  ControlInv'
<1>0. /\ full \in [Frames -> BOOLEAN] /\ wanted \in [Frames -> BOOLEAN]
      /\ look \in [Frames -> Looks] /\ saved \in [Frames -> Looks]
      /\ under \in [Frames -> Seq(BOOLEAN)] /\ denied \subseteq Frames
      /\ \A g \in Frames : under[g] = <<>> /\ Win32Look(full[g], look[g], saved[g])
  BY ControlTypes DEF WindowOK
<1>1. /\ wanted' \in [Frames -> BOOLEAN] /\ wanted'[f] = on
      /\ \A g \in Frames \ {f} : wanted'[g] = wanted[g]
  BY <1>0
<1>2. UNCHANGED under
  BY DEF SetWin32
<1>3. CASE on /\ full[f]
  <2>1. UNCHANGED <<full, look, saved, denied>>
    BY <1>3 DEF SetWin32, EnterWin32
  <2>2. ControlTypeOK'
    BY <1>0, <1>1, <1>2, <2>1 DEF ControlTypeOK
  <2>3. WindowOK(f)'
    BY <1>0, <1>1, <1>2, <1>3, <2>1 DEF WindowOK, Heard
  <2> QED
    BY <1>1, <1>2, <2>1, <2>2, <2>3, OneWindow
<1>4. CASE on /\ ~full[f]
  <2>0. saved' = [saved EXCEPT ![f] = look[f]]
    BY <1>4 DEF SetWin32, EnterWin32
  <2>1. /\ saved' \in [Frames -> Looks] /\ saved'[f] = look[f]
        /\ \A g \in Frames \ {f} : saved'[g] = saved[g]
    BY <1>0, <2>0
  <2>2. Framed(look[f]) /\ look[f] \in Looks
    BY <1>0, <1>4 DEF Win32Look
  <2>3. CASE /\ look' = [look EXCEPT ![f] = Placed([look[f] EXCEPT !.style = "bare"], "monitor")]
             /\ full' = [full EXCEPT ![f] = TRUE] /\ denied' = denied \ {f}
    <3>1. PICK m \in Looks : /\ m = Placed([look[f] EXCEPT !.style = "bare"], "monitor")
                             /\ Win32Look(TRUE, m, look[f])
      BY <2>2, EnteredLook
    <3>2. look' = [look EXCEPT ![f] = m]
      BY <2>3, <3>1
    <3>3. /\ look' \in [Frames -> Looks] /\ look'[f] = m
          /\ full' \in [Frames -> BOOLEAN] /\ full'[f] = TRUE
          /\ \A g \in Frames \ {f} : look'[g] = look[g] /\ full'[g] = full[g]
      BY <1>0, <2>3, <3>2
    <3>4. denied' \subseteq Frames /\ f \notin denied' /\ \A g \in Frames \ {f} : g \in denied => g \in denied'
      BY <1>0, <2>3
    <3>5. ControlTypeOK'
      BY <1>0, <1>1, <1>2, <2>1, <3>3, <3>4 DEF ControlTypeOK
    <3>6. WindowOK(f)'
      BY <1>0, <1>1, <1>2, <1>4, <2>1, <3>1, <3>3 DEF WindowOK, Heard
    <3> QED
      BY <1>1, <1>2, <2>1, <3>3, <3>4, <3>5, <3>6, OneWindow
  <2>4. CASE denied' = denied \cup {f} /\ UNCHANGED <<full, look>>
    <3>1. ControlTypeOK'
      BY <1>0, <1>1, <1>2, <2>1, <2>4 DEF ControlTypeOK
    <3>2. Win32Look(full'[f], look'[f], saved'[f])
      BY <1>4, <2>2, <2>4 DEF Win32Look
    <3>3. WindowOK(f)'
      BY <1>0, <1>2, <2>4, <3>2 DEF WindowOK, Heard
    <3> QED
      BY <1>1, <1>2, <2>1, <2>4, <3>1, <3>3, OneWindow
  <2> QED
    BY <1>4, <2>3, <2>4 DEF SetWin32, EnterWin32
<1>5. CASE ~on
  <2>0. LeaveWin32(f)
    BY <1>5 DEF SetWin32
  <2>1. /\ full' = [full EXCEPT ![f] = FALSE] /\ denied' = denied \ {f} /\ UNCHANGED saved
        /\ look' = IF full[f]
                   THEN [look EXCEPT ![f] =
                          Placed([look[f] EXCEPT !.style = saved[f].style, !.state = saved[f].state],
                                 saved[f].rect)]
                   ELSE look
    BY <2>0 DEF LeaveWin32
  <2>2. /\ look' \in [Frames -> Looks] /\ Framed(look'[f])
        /\ \A g \in Frames \ {f} : look'[g] = look[g]
    <3>1. CASE ~full[f]
      BY <1>0, <2>1, <3>1 DEF Win32Look
    <3>2. CASE full[f]
      <4>1. look[f] \in Looks /\ saved[f] \in Looks /\ Win32Look(TRUE, look[f], saved[f])
        BY <1>0, <3>2 DEF Win32Look
      <4>2. PICK m \in Looks :
              /\ m = Placed([look[f] EXCEPT !.style = saved[f].style, !.state = saved[f].state],
                            saved[f].rect)
              /\ Framed(m)
        BY <4>1, LeftLook
      <4>3. look' = [look EXCEPT ![f] = m]
        BY <2>1, <3>2, <4>2
      <4> QED
        BY <1>0, <4>2, <4>3
    <3> QED
      BY <3>1, <3>2
  <2>3. /\ full' \in [Frames -> BOOLEAN] /\ full'[f] = FALSE /\ denied' \subseteq Frames
        /\ \A g \in Frames \ {f} : full'[g] = full[g] /\ (g \in denied => g \in denied')
    BY <1>0, <2>1
  <2>4. ControlTypeOK'
    BY <1>0, <1>1, <1>2, <2>1, <2>2, <2>3 DEF ControlTypeOK
  <2>5. WindowOK(f)'
    BY <1>0, <1>1, <1>2, <1>5, <2>2, <2>3 DEF WindowOK, Heard, Win32Look
  <2> QED
    BY <1>1, <1>2, <2>1, <2>2, <2>3, <2>4, <2>5, OneWindow
<1> QED
  BY <1>3, <1>4, <1>5

(* The requests of a window: as a list of its own.                         *)
LEMMA Asked ==
  ASSUME NEW list \in Seq(BOOLEAN), NEW on \in BOOLEAN
  PROVE  /\ Append(list, on) \in Seq(BOOLEAN) /\ Append(list, on) # <<>>
         /\ Append(list, on)[Len(Append(list, on))] = on
         /\ Len(list) = 0 <=> list = <<>>
         /\ <<on>> \in Seq(BOOLEAN) /\ Len(<<on>>) = 1 /\ <<on>>[1] = on /\ <<on>> # <<>>
         /\ <<>> \in Seq(BOOLEAN) /\ Len(<<>>) = 0
         /\ Len(list) <= 1 /\ list # <<>> => Len(list) = 1
<1>1. PICK longer : longer = Append(list, on)
  OBVIOUS
<1>2. /\ longer \in Seq(BOOLEAN) /\ Len(longer) = Len(list) + 1
      /\ longer[Len(list) + 1] = on
  BY <1>1
<1>3. longer # <<>> /\ longer[Len(longer)] = on
  BY <1>2
<1>4. ASSUME Len(list) <= 1, list # <<>> PROVE Len(list) = 1
  BY <1>4
<1> QED
  BY <1>1, <1>2, <1>3, <1>4

LEMMA NoRequest == \E none \in Seq(BOOLEAN) : none = <<>> /\ Len(none) = 0
BY EmptySeq

LEMMA Served ==
  ASSUME NEW list \in Seq(BOOLEAN), list # <<>>
  PROVE  /\ Head(list) \in BOOLEAN /\ Head(list) = list[1]
         /\ Tail(list) \in Seq(BOOLEAN) /\ Len(list) \in Nat
         /\ Tail(list) = <<>> <=> Len(list) = 1
         /\ Tail(list) # <<>> => Tail(list)[Len(Tail(list))] = list[Len(list)]
<1>1. PICK rest : rest = Tail(list)
  OBVIOUS
<1>2. /\ rest \in Seq(BOOLEAN) /\ Len(rest) = Len(list) - 1 /\ Len(list) \in Nat \ {0}
      /\ \A i \in 1 .. Len(rest) : rest[i] = list[i + 1]
  BY <1>1
<1>3. rest = <<>> <=> Len(list) = 1
  BY <1>2
<1>4. rest # <<>> => rest[Len(rest)] = list[Len(list)]
  BY <1>2
<1> QED
  BY <1>1, <1>2, <1>3, <1>4

LEMMA AppKitKeeps ==
  ASSUME DesktopInv, UNCHANGED platform, platform = "macos", NEW f \in Frames, NEW on \in BOOLEAN,
         ToggleAppKit(f, on), wanted' = [wanted EXCEPT ![f] = on]
  PROVE  ControlInv'
<1>0. /\ full \in [Frames -> BOOLEAN] /\ wanted \in [Frames -> BOOLEAN]
      /\ look \in [Frames -> Looks] /\ saved \in [Frames -> Looks]
      /\ under \in [Frames -> Seq(BOOLEAN)] /\ denied \subseteq Frames
      /\ \A g \in Frames : Len(under[g]) <= 1 /\ Framed(look[g])
  BY ControlTypes DEF WindowOK
<1>1. /\ wanted' \in [Frames -> BOOLEAN] /\ wanted'[f] = on
      /\ \A g \in Frames \ {f} : wanted'[g] = wanted[g]
  BY <1>0
<1>2. UNCHANGED <<full, look, saved>>
  BY DEF ToggleAppKit
<1>3. denied' \subseteq Frames /\ \A g \in Frames \ {f} : g \in denied => g \in denied'
  BY <1>0 DEF ToggleAppKit
<1>4. CASE full[f] # on /\ under[f] = <<>>
  <2>1. PICK one : one = <<on>>
    OBVIOUS
  <2>2. one \in Seq(BOOLEAN) /\ Len(one) = 1 /\ one[1] = on /\ one # <<>>
    BY <2>1
  <2>3. under' = [under EXCEPT ![f] = one]
    BY <1>4, <2>1 DEF ToggleAppKit
  <2>4. /\ under' \in [Frames -> Seq(BOOLEAN)] /\ under'[f] = one
        /\ \A g \in Frames \ {f} : under'[g] = under[g]
    BY <1>0, <2>2, <2>3
  <2>5. ControlTypeOK'
    BY <1>0, <1>1, <1>2, <1>3, <2>4 DEF ControlTypeOK
  <2>8. wanted'[f] = under'[f][Len(under'[f])] /\ under'[f] # <<>> /\ Len(under'[f]) <= 1
    <3>1. under'[f] = one
      BY <2>4
    <3>2. Len(one) = 1 /\ one[1] = on /\ one # <<>>
      BY <2>2
    <3>3. one[Len(one)] = on
      BY <3>2
    <3>4. Len(one) <= 1
      BY <3>2
    <3> QED
      BY <1>1, <3>1, <3>2, <3>3, <3>4
  <2>6. WindowOK(f)'
    BY <1>0, <1>2, <2>8 DEF WindowOK, Heard
  <2>7. \A g \in Frames \ {f} :
           /\ full'[g] = full[g] /\ look'[g] = look[g] /\ saved'[g] = saved[g]
           /\ under'[g] = under[g] /\ wanted'[g] = wanted[g] /\ (g \in denied => g \in denied')
    BY <1>1, <1>2, <1>3, <2>4
  <2> QED
    BY <2>5, <2>6, <2>7, OneWindow
<1>5. CASE ~(full[f] # on /\ under[f] = <<>>)
  <2>1. UNCHANGED under
    BY <1>5 DEF ToggleAppKit
  <2>2. ControlTypeOK'
    BY <1>0, <1>1, <1>2, <1>3, <2>1 DEF ControlTypeOK
  <2>3. CASE under[f] = <<>>
    <3>1. full[f] = on
      BY <1>5, <2>3
    <3>2. WindowOK(f)'
      BY <1>0, <1>1, <1>2, <2>1, <2>3, <3>1 DEF WindowOK, Heard
    <3> QED
      BY <1>1, <1>2, <1>3, <2>1, <2>2, <3>2, OneWindow
  <2>4. CASE under[f] # <<>>
    <3>5. PICK one : one = <<on>>
      OBVIOUS
    <3>1. one = <<on>> /\ Len(one) = 1 /\ one[1] = on
      BY <3>5
    <3>2. f \notin denied' => under[f] = <<on>>
      BY <2>4 DEF ToggleAppKit
    <3>3. f \notin denied' => under[f][Len(under[f])] = on
      BY <3>1, <3>2
    <3>4. WindowOK(f)'
      BY <1>0, <1>1, <1>2, <2>1, <2>4, <3>3 DEF WindowOK, Heard
    <3> QED
      BY <1>1, <1>2, <1>3, <2>1, <2>2, <3>4, OneWindow
  <2> QED
    BY <2>3, <2>4
<1> QED
  BY <1>4, <1>5

LEMMA GtkKeeps ==
  ASSUME DesktopInv, UNCHANGED platform, platform = "linux", NEW f \in Frames, NEW on \in BOOLEAN,
         TellGtk(f, on), wanted' = [wanted EXCEPT ![f] = on]
  PROVE  ControlInv'
<1>0. /\ full \in [Frames -> BOOLEAN] /\ wanted \in [Frames -> BOOLEAN]
      /\ look \in [Frames -> Looks] /\ saved \in [Frames -> Looks]
      /\ under \in [Frames -> Seq(BOOLEAN)] /\ denied \subseteq Frames
      /\ \A g \in Frames : Framed(look[g])
  BY ControlTypes DEF WindowOK
<1>1. /\ wanted' \in [Frames -> BOOLEAN] /\ wanted'[f] = on
      /\ \A g \in Frames \ {f} : wanted'[g] = wanted[g]
  BY <1>0
<1>2. UNCHANGED <<full, look, saved>> /\ denied' = denied \ {f}
      /\ under' = [under EXCEPT ![f] = Append(under[f], on)]
  BY DEF TellGtk
<1>9. PICK list \in Seq(BOOLEAN) : list = under[f]
  BY <1>0
<1>10. PICK longer : longer = Append(list, on)
  OBVIOUS
<1>3. /\ longer \in Seq(BOOLEAN) /\ longer = Append(under[f], on)
      /\ longer # <<>> /\ longer[Len(longer)] = on
  BY <1>9, <1>10, Asked
<1>4. under' = [under EXCEPT ![f] = longer]
  BY <1>2, <1>3
<1>5. /\ under' \in [Frames -> Seq(BOOLEAN)] /\ under'[f] = longer
      /\ \A g \in Frames \ {f} : under'[g] = under[g]
  BY <1>0, <1>3, <1>4
<1>6. denied' \subseteq Frames /\ \A g \in Frames \ {f} : g \in denied => g \in denied'
  BY <1>0, <1>2
<1>7. ControlTypeOK'
  BY <1>0, <1>1, <1>2, <1>5, <1>6 DEF ControlTypeOK
<1>8. WindowOK(f)'
  BY <1>0, <1>1, <1>2, <1>3, <1>5 DEF WindowOK, Heard
<1> QED
  BY <1>1, <1>2, <1>5, <1>6, <1>7, <1>8, OneWindow

LEMMA FullscreenKeeps ==
  ASSUME DesktopInv, UNCHANGED platform, NEW label, NEW on \in BOOLEAN, SetFullscreen(label, on)
  PROVE  ControlInv'
<1>1. CASE UNCHANGED controlVars
  BY <1>1 DEF DesktopInv, ControlInv, ControlTypeOK, WindowOK, Heard, controlVars
<1>2. ASSUME NEW f \in FindSlot(label) \cap shown, wanted' = [wanted EXCEPT ![f] = on],
             CASE platform = "windows" -> SetWin32(f, on)
               [] platform = "macos" -> ToggleAppKit(f, on)
               [] platform = "linux" -> TellGtk(f, on)
      PROVE  ControlInv'
  <2>1. f \in Frames
    BY ShownAreFrames DEF DesktopInv
  <2>2. \/ platform = "windows" /\ SetWin32(f, on)
        \/ platform = "macos" /\ ToggleAppKit(f, on)
        \/ platform = "linux" /\ TellGtk(f, on)
    BY <1>2, ControlTypes
  <2> QED
    BY <1>2, <2>1, <2>2, Win32Keeps, AppKitKeeps, GtkKeeps
<1> QED
  BY <1>1, <1>2 DEF SetFullscreen

LEMMA ReshapeKeeps ==
  ASSUME DesktopInv, UNCHANGED platform, NEW label, Reshape(label)
  PROVE  ControlInv'
<1>0. /\ full \in [Frames -> BOOLEAN] /\ wanted \in [Frames -> BOOLEAN]
      /\ look \in [Frames -> Looks] /\ saved \in [Frames -> Looks]
      /\ under \in [Frames -> Seq(BOOLEAN)] /\ denied \subseteq Frames
      /\ \A g \in Frames : WindowOK(g)
  BY ControlTypes
<1>1. platform = "windows" /\ UNCHANGED <<full, saved, under, wanted, denied>>
  BY DEF Reshape
<1>2. PICK f \in FindSlot(label) \cap shown :
        \E m \in Reshaped(look[f]) : look' = [look EXCEPT ![f] = m]
  BY DEF Reshape
<1>8. PICK l \in Reshaped(look[f]) : look' = [look EXCEPT ![f] = l]
  BY <1>2
<1>3. f \in Frames /\ look[f] \in Looks
  BY <1>0, ShownAreFrames DEF DesktopInv
<1>4. l \in Looks /\ (Framed(look[f]) => Framed(l)) /\ (Kept(look[f]) => Kept(l))
  BY <1>8, <1>3, ReshapedLook
<1>5. look' \in [Frames -> Looks] /\ look'[f] = l /\ \A g \in Frames \ {f} : look'[g] = look[g]
  BY <1>0, <1>3, <1>4, <1>8
<1>6. ControlTypeOK'
  BY <1>0, <1>1, <1>5 DEF ControlTypeOK
<1>7. WindowOK(f)'
  BY <1>0, <1>1, <1>3, <1>4, <1>5 DEF WindowOK, Heard, Win32Look
<1> QED
  BY <1>1, <1>3, <1>5, <1>6, <1>7, OneWindow

(* What may be under way.                                                  *)
Allowed(list) == platform # "windows" /\ (platform = "macos" => Len(list) <= 1)

(* The window manager and AppKit do what they were asked, or refuse.       *)
LEMMA SystemKeeps ==
  ASSUME DesktopInv, UNCHANGED platform, NEW f \in Frames, WindowSystemActs(f)
  PROVE  ControlInv'
<1>0. /\ full \in [Frames -> BOOLEAN] /\ wanted \in [Frames -> BOOLEAN]
      /\ look \in [Frames -> Looks] /\ saved \in [Frames -> Looks]
      /\ under \in [Frames -> Seq(BOOLEAN)] /\ denied \subseteq Frames
      /\ \A g \in Frames : WindowOK(g)
  BY ControlTypes
<1>1. under[f] # <<>> /\ UNCHANGED <<look, saved, wanted>>
      /\ (ManagerActs(f) \/ TransitionGoesOn(f))
  BY DEF WindowSystemActs
<1>2. PICK list \in Seq(BOOLEAN) : list = under[f]
  BY <1>0
<1>3. PICK to \in BOOLEAN, rest \in Seq(BOOLEAN) :
        /\ to = Head(list) /\ to = list[1] /\ rest = Tail(list) /\ Len(list) \in Nat
        /\ rest = <<>> <=> Len(list) = 1
        /\ rest # <<>> => rest[Len(rest)] = list[Len(list)]
  BY <1>1, <1>2, Served
<1>4. ASSUME NEW new \in BOOLEAN, NEW left \in Seq(BOOLEAN),
             full' = [full EXCEPT ![f] = new] \/ (full' = full /\ new = full[f]),
             under' = [under EXCEPT ![f] = left] \/ (under' = under /\ left = under[f]),
             denied' = denied \/ denied' = denied \cup {f},
             Allowed(left),
             f \notin denied' => wanted[f] = IF left = <<>> THEN new ELSE left[Len(left)]
      PROVE  ControlInv'
  <2>1. /\ full' \in [Frames -> BOOLEAN] /\ full'[f] = new
        /\ \A g \in Frames \ {f} : full'[g] = full[g]
    BY <1>0, <1>4
  <2>2. /\ under' \in [Frames -> Seq(BOOLEAN)] /\ under'[f] = left
        /\ \A g \in Frames \ {f} : under'[g] = under[g]
    BY <1>0, <1>4
  <2>3. denied' \subseteq Frames /\ \A g \in Frames \ {f} : g \in denied => g \in denied'
    BY <1>0, <1>4
  <2>4. ControlTypeOK'
    BY <1>0, <1>1, <2>1, <2>2, <2>3 DEF ControlTypeOK
  <2>5. Framed(look[f])
    BY <1>0, <1>4 DEF WindowOK, Allowed
  <2>6. WindowOK(f)'
    BY <1>1, <1>4, <2>1, <2>2, <2>5 DEF WindowOK, Heard, Allowed
  <2> QED
    BY <1>1, <2>1, <2>2, <2>3, <2>4, <2>6, OneWindow
<1>5. full[f] \in BOOLEAN /\ (f \notin denied => wanted[f] = list[Len(list)])
  BY <1>0, <1>1, <1>2 DEF WindowOK, Heard
<1>6. CASE ManagerActs(f)
  <2>1. Allowed(rest) /\ under' = [under EXCEPT ![f] = rest]
    BY <1>2, <1>3, <1>6 DEF ManagerActs, Allowed
  <2>2. CASE full' = [full EXCEPT ![f] = to] /\ UNCHANGED denied
    <3>1. f \notin denied' => wanted[f] = IF rest = <<>> THEN to ELSE rest[Len(rest)]
      BY <1>3, <1>5, <2>2
    <3> QED
      BY <1>4, <2>1, <2>2, <3>1
  <2>3. CASE /\ UNCHANGED full
             /\ denied' = IF Len(list) = 1 THEN denied \cup {f} ELSE denied
    <3>1. f \notin denied' => wanted[f] = IF rest = <<>> THEN full[f] ELSE rest[Len(rest)]
      BY <1>3, <1>5, <2>3
    <3>2. denied' = denied \/ denied' = denied \cup {f}
      BY <2>3
    <3> QED
      BY <1>4, <1>5, <2>1, <2>3, <3>1, <3>2
  <2> QED
    BY <1>2, <1>3, <1>6, <2>2, <2>3 DEF ManagerActs
<1>7. CASE TransitionGoesOn(f)
  <2>1. platform = "macos" /\ Len(list) = 1
    <3>1. platform = "macos"
      BY <1>7 DEF TransitionGoesOn
    <3>2. Len(list) <= 1
      BY <1>0, <1>2, <3>1 DEF WindowOK
    <3> QED
      BY <1>1, <1>2, <3>1, <3>2, Asked
  <2>2. f \notin denied => wanted[f] = to
    BY <1>3, <1>5, <2>1
  <2>3. PICK none \in Seq(BOOLEAN) : none = <<>> /\ Len(none) = 0
    BY NoRequest
  <2>7. Allowed(list) /\ Allowed(none)
    BY <2>1, <2>3 DEF Allowed
  <2>4. CASE full' = [full EXCEPT ![f] = to] /\ UNCHANGED <<under, denied>>
    <3>1. f \notin denied' => wanted[f] = IF list = <<>> THEN to ELSE list[Len(list)]
      BY <1>1, <1>2, <1>5, <2>4
    <3>2. under' = under /\ list = under[f] /\ denied' = denied
      BY <1>2, <2>4
    <3> QED
      BY <1>4, <2>4, <2>7, <3>1, <3>2
  <2>5. CASE full' = [full EXCEPT ![f] = to] /\ under' = [under EXCEPT ![f] = none] /\ UNCHANGED denied
    <3>1. f \notin denied' => wanted[f] = IF none = <<>> THEN to ELSE none[Len(none)]
      BY <2>2, <2>3, <2>5
    <3> QED
      BY <1>4, <2>3, <2>5, <2>7, <3>1
  <2>6. CASE /\ full' = [full EXCEPT ![f] = ~to] /\ under' = [under EXCEPT ![f] = none]
             /\ denied' = denied \cup {f}
    <3>1. PICK back \in BOOLEAN : back = ~to
      OBVIOUS
    <3>2. full' = [full EXCEPT ![f] = back]
      BY <2>6, <3>1
    <3>3. f \in denied'
      BY <2>6
    <3> QED
      BY <1>4, <2>3, <2>6, <2>7, <3>2, <3>3
  <2> QED
    BY <1>2, <1>3, <1>7, <2>3, <2>4, <2>5, <2>6 DEF TransitionGoesOn
<1> QED
  BY <1>1, <1>6, <1>7

(* The user's button or key.                                               *)
LEMMA TogglingKeeps ==
  ASSUME DesktopInv, UNCHANGED platform, NEW f \in Frames, UserToggles(f)
  PROVE  ControlInv'
<1>0. /\ full \in [Frames -> BOOLEAN] /\ wanted \in [Frames -> BOOLEAN]
      /\ look \in [Frames -> Looks] /\ saved \in [Frames -> Looks]
      /\ under \in [Frames -> Seq(BOOLEAN)] /\ denied \subseteq Frames
      /\ \A g \in Frames : WindowOK(g)
  BY ControlTypes
<1>1. platform # "windows" /\ UNCHANGED <<look, saved>> /\ Framed(look[f])
  BY <1>0 DEF UserToggles, WindowOK
<1>2. PICK new \in BOOLEAN : new = ~full[f]
  OBVIOUS
<1>3. /\ wanted' \in [Frames -> BOOLEAN] /\ denied' \subseteq Frames
      /\ \A g \in Frames \ {f} : wanted'[g] = wanted[g] /\ (g \in denied => g \in denied')
      /\ under[f] = <<>> => wanted'[f] = new /\ f \notin denied'
      /\ under[f] # <<>> => wanted'[f] = wanted[f] /\ denied' = denied
  <2>1. CASE under[f] = <<>>
    <3>1. wanted' = [wanted EXCEPT ![f] = new] /\ denied' = denied \ {f}
      BY <1>2, <2>1 DEF UserToggles
    <3> QED
      BY <1>0, <2>1, <3>1
  <2>2. CASE under[f] # <<>>
    <3>1. UNCHANGED <<wanted, denied>>
      BY <2>2 DEF UserToggles
    <3> QED
      BY <1>0, <2>2, <3>1
  <2> QED
    BY <2>1, <2>2
<1>4. CASE platform = "linux" /\ full' = [full EXCEPT ![f] = ~full[f]] /\ UNCHANGED under
  <2>1. full' = [full EXCEPT ![f] = new]
    BY <1>2, <1>4
  <2>2. /\ full' \in [Frames -> BOOLEAN] /\ full'[f] = new
        /\ \A g \in Frames \ {f} : full'[g] = full[g]
    BY <1>0, <2>1
  <2>3. ControlTypeOK'
    BY <1>0, <1>1, <1>3, <1>4, <2>2 DEF ControlTypeOK
  <2>4. WindowOK(f)'
    BY <1>0, <1>1, <1>3, <1>4, <2>2 DEF WindowOK, Heard
  <2> QED
    BY <1>1, <1>3, <1>4, <2>2, <2>3, <2>4, OneWindow
<1>5. CASE platform = "macos" /\ under[f] = <<>> /\ under' = [under EXCEPT ![f] = <<~full[f]>>]
           /\ UNCHANGED full
  <2>1. PICK one : one = <<new>>
    OBVIOUS
  <2>2. one \in Seq(BOOLEAN) /\ Len(one) = 1 /\ one[1] = new /\ one # <<>>
    BY <2>1
  <2>3. under' = [under EXCEPT ![f] = one]
    BY <1>2, <1>5, <2>1
  <2>4. /\ under' \in [Frames -> Seq(BOOLEAN)] /\ under'[f] = one
        /\ \A g \in Frames \ {f} : under'[g] = under[g]
    BY <1>0, <2>2, <2>3
  <2>5. ControlTypeOK'
    BY <1>0, <1>1, <1>3, <1>5, <2>4 DEF ControlTypeOK
  <2>6. WindowOK(f)'
    BY <1>1, <1>3, <1>5, <2>2, <2>4 DEF WindowOK, Heard
  <2> QED
    BY <1>1, <1>3, <1>5, <2>4, <2>5, <2>6, OneWindow
<1> QED
  BY <1>4, <1>5 DEF UserToggles

LEMMA ControlStays ==
  ASSUME DesktopInv, UNCHANGED <<platform, controlVars>>
  PROVE  ControlInv'
<1>1. UNCHANGED <<full, look, saved, under, wanted, denied>>
  BY DEF controlVars
<1> QED
  BY <1>1 DEF DesktopInv, ControlInv, ControlTypeOK, WindowOK, Heard

-----------------------------------------------------------------------------
(* The records of pages.                                                   *)
LEMMA RecordKeeps == DesktopInv /\ ApplyRecord => DesktopInv'
<1> SUFFICES ASSUME DesktopInv, ApplyRecord PROVE DesktopInv'
  OBVIOUS
<1>1. /\ frames # <<>> /\ budget > 0 /\ budget' = budget - 1
      /\ MenuRecord \/ TrayRecord \/ ControlRecord \/ WindowRecord
  BY DEF ApplyRecord, Reachable, DesktopInv, WindowsInv
<1>2. CASE UNCHANGED tableVars
  <2>1. UNCHANGED <<platform, frames, shown>>
    BY <1>2 DEF tableVars
  <2>2. WindowsInv'
    BY <1>1, <2>1, WindowsKept DEF DesktopInv
  <2>3. CASE MenuRecord \/ TrayRecord \/ WindowRecord
    BY <2>1, <2>2, <2>3, ControlStays DEF MenuRecord, TrayRecord, WindowRecord, Follow, DesktopInv
  <2>4. CASE ControlRecord
    BY <2>1, <2>2, <2>4, FullscreenKeeps, ReshapeKeeps DEF ControlRecord, DesktopInv
  <2> QED
    BY <1>1, <2>3, <2>4
<1>3. CASE WindowRecord
  <2>1. UNCHANGED controlVars
    BY <1>3 DEF WindowRecord, Follow
  <2>2. PICK label \in Labels : OpenWindow(label) \/ Destroy(FindSlot(label))
    BY <1>3 DEF WindowRecord
  <2>3. CASE Destroy(FindSlot(label))
    <3>1. UNCHANGED <<platform, frames>> /\ shown' \subseteq shown
      BY <2>3 DEF Destroy
    <3> QED
      BY <1>1, <2>1, <3>1, WindowsKept, ControlStays DEF DesktopInv
  <2>4. CASE OpenWindow(label) /\ ~UNCHANGED tableVars
    <3>1. /\ UNCHANGED platform /\ frames' = Append(frames, label)
          /\ shown' \subseteq shown \cup {Len(frames) + 1}
      BY <2>4 DEF OpenWindow, CreateSlot, OpenFrame
    <3> QED
      BY <1>1, <2>1, <3>1, WindowsKept, ControlStays DEF DesktopInv
  <2> QED
    BY <1>2, <2>2, <2>3, <2>4
<1> QED
  BY <1>1, <1>2, <1>3 DEF MenuRecord, TrayRecord, ControlRecord

(* The user and WebView2.                                                  *)
LEMMA OthersKeep ==
  DesktopInv /\ (UserClicks \/ (\E f \in Frames : UserChangesWindow(f)) \/ WindowSystemStep
                   \/ MessageArrives \/ WebViewAnswers)
    => DesktopInv'
<1> SUFFICES ASSUME DesktopInv,
                    UserClicks \/ (\E f \in Frames : UserChangesWindow(f))
                      \/ WindowSystemStep \/ MessageArrives \/ WebViewAnswers
             PROVE  DesktopInv'
  OBVIOUS
<1>1. CASE UNCHANGED <<platform, frames, budget, controlVars>> /\ shown' \subseteq shown
  BY <1>1, WindowsKept, ControlStays DEF DesktopInv
<1>2. CASE UserClicks \/ MessageArrives
  BY <1>1, <1>2 DEF UserClicks, MessageArrives, tableVars
<1>3. CASE \E f \in Frames : UserChangesWindow(f)
  <2>1. PICK f \in Frames : UserChangesWindow(f)
    BY <1>3
  <2>2. CASE Destroy({f}) /\ Follow /\ UNCHANGED budget
    BY <1>1, <2>2 DEF Destroy, Follow
  <2>3. CASE UserToggles(f) /\ UNCHANGED <<tableVars, budget>>
    <3>1. UNCHANGED <<platform, frames, shown, budget>>
      BY <2>3 DEF tableVars
    <3> QED
      BY <2>3, <3>1, TogglingKeeps, WindowsKept DEF DesktopInv
  <2> QED
    BY <2>1, <2>2, <2>3 DEF UserChangesWindow
<1>4. CASE WebViewAnswers
  <2>1. Follow /\ UNCHANGED <<budget, controlVars>>
    BY <1>4 DEF WebViewAnswers, Follow
  <2>2. CASE EnvironmentReady
    <3>1. PICK refused, created :
            /\ created = IF 1 \in refused THEN 1 ELSE Lesser(Len(Initial), MaxSlots[platform])
            /\ frames' = SubSeq(Initial, 1, created)
            /\ shown' = 1 .. created \ refused
            /\ UNCHANGED platform
      BY <2>2 DEF EnvironmentReady
    <3>2. /\ Initial \in Seq(Labels) /\ Len(Initial) \in Nat /\ Len(Initial) > 0
          /\ MaxSlots[platform] \in Nat \ {0} /\ DOMAIN Initial = 1 .. Len(Initial)
      BY TableAssumption DEF DesktopInv, WindowsInv
    <3>3. created \in Nat /\ created <= Len(Initial)
      <4>1. CASE 1 \in refused
        BY <3>1, <3>2, <4>1
      <4>2. CASE 1 \notin refused
        <5>1. created = Lesser(Len(Initial), MaxSlots[platform])
          BY <3>1, <4>2
        <5>2. \A m, n \in Nat \ {0} : Lesser(m, n) \in Nat /\ Lesser(m, n) <= m
          BY DEF Lesser
        <5>3. Len(Initial) \in Nat \ {0}
          BY <3>2
        <5> QED
          BY <3>2, <5>1, <5>2, <5>3
      <4> QED
        BY <4>1, <4>2
    <3>4. frames' \in Seq(Labels) /\ Len(frames') = created /\ DOMAIN frames' = 1 .. created
      <4>1. \A i \in 1 .. created : Initial[i] \in Labels
        BY <3>2, <3>3
      <4>2. SubSeq(Initial, 1, created) = [i \in 1 .. created |-> Initial[i]]
        BY <3>2, <3>3
      <4> QED
        BY <3>1, <3>3, <4>1, <4>2
    <3> QED
      BY <2>1, <3>1, <3>3, <3>4, WindowsKept, ControlStays DEF DesktopInv
  <2>3. CASE \/ EnvironmentFails
             \/ \E f \in Frames : ViewReady(f) \/ ViewFails(f)
             \/ \E f \in closing : Destroy({f})
    <3>1. UNCHANGED <<platform, frames>> /\ shown' \subseteq shown
      BY <2>3 DEF EnvironmentFails, ViewReady, ViewFails, Destroy
    <3> QED
      BY <1>1, <2>1, <3>1
  <2> QED
    BY <1>4, <2>2, <2>3 DEF WebViewAnswers
<1>5. CASE WindowSystemStep
  <2>1. PICK f \in Frames : WindowSystemActs(f)
    BY <1>5 DEF WindowSystemStep
  <2>2. UNCHANGED <<platform, frames, shown, budget>>
    BY <1>5 DEF WindowSystemStep, tableVars
  <2> QED
    BY <2>1, <2>2, SystemKeeps, WindowsKept DEF DesktopInv
<1> QED
  BY <1>2, <1>3, <1>4, <1>5

LEMMA InitDesktopInv == DesktopInit => DesktopInv
<1> SUFFICES ASSUME DesktopInit PROVE DesktopInv
  OBVIOUS
<1>1. WindowsInv
  <2>1. platform \in Platforms /\ budget = MaxCalls[platform]
    BY DEF DesktopInit, TableInit
  <2>2. MaxCalls[platform] \in Nat /\ Len(Initial) \in Nat /\ Initial \in Seq(Labels)
    BY <2>1, TableAssumption
  <2>3. CASE platform = "windows"
    <3>1. frames = <<>> /\ shown = {}
      BY <2>3 DEF DesktopInit, TableInit
    <3> QED
      BY <2>1, <2>2, <3>1 DEF WindowsInv
  <2>4. CASE platform # "windows"
    <3>1. frames = Initial /\ shown = DOMAIN Initial
      BY <2>4 DEF DesktopInit, TableInit
    <3> QED
      BY <2>1, <2>2, <3>1 DEF WindowsInv
  <2> QED
    BY <2>3, <2>4
<1>2. ControlInv
  <2>1. /\ full = [f \in Frames |-> FALSE] /\ look = [f \in Frames |-> Normal]
        /\ saved = [f \in Frames |-> Normal] /\ wanted = [f \in Frames |-> FALSE]
        /\ denied = {}
    BY DEF DesktopInit, ControlInit
  <2>2. Normal \in Looks /\ Framed(Normal)
    BY DEF Normal, Looks, Rects, Framed
  <2>3. PICK none \in Seq(BOOLEAN) : none = <<>> /\ Len(none) = 0
    BY NoRequest
  <2>4. under = [f \in Frames |-> none]
    BY <2>3 DEF DesktopInit, ControlInit
  <2>5. ControlTypeOK
    BY <2>1, <2>2, <2>4 DEF ControlTypeOK
  <2>6. \A f \in Frames : WindowOK(f)
    BY <2>1, <2>2, <2>3, <2>4 DEF WindowOK, Heard, Win32Look
  <2> QED
    BY <2>5, <2>6 DEF ControlInv
<1> QED
  BY <1>1, <1>2 DEF DesktopInv

LEMMA DesktopInvariant == DesktopSpec => []DesktopInv
<1>1. DesktopInv /\ UNCHANGED desktopVars => DesktopInv'
  <2> SUFFICES ASSUME DesktopInv, UNCHANGED desktopVars PROVE DesktopInv'
    OBVIOUS
  <2>1. UNCHANGED <<platform, frames, shown, budget, controlVars>>
    BY DEF desktopVars, tableVars
  <2> QED
    BY <2>1, WindowsKept, ControlStays DEF DesktopInv
<1>2. DesktopInv /\ [DesktopNext]_desktopVars => DesktopInv'
  BY <1>1, RecordKeeps, OthersKeep DEF DesktopNext
<1> QED
  BY <1>2, InitDesktopInv, PTL DEF DesktopSpec

(* In whatever order pages, the user and the window system act, on every  *)
(* platform a window for which nothing is under way is in full screen, or  *)
(* out of it, as was last said of it, unless that was refused or said in a *)
(* transition to the opposite; out of it a Win32 window has its frame,     *)
(* does not cover the monitor and is not restored to that.                 *)
THEOREM FullscreenTheorem == DesktopSpec => []FullscreenAsSaid
<1>1. DesktopInv => FullscreenAsSaid
  <2> SUFFICES ASSUME DesktopInv, NEW f \in Slotted \cap shown
               PROVE  /\ under[f] = <<>> /\ f \notin denied => full[f] = wanted[f]
                      /\ ~full[f] => Framed(look[f])
    BY DEF FullscreenAsSaid, Framed
  <2>1. f \in Frames /\ WindowOK(f)
    BY ShownAreFrames, ControlTypes DEF DesktopInv
  <2> QED
    BY <2>1 DEF WindowOK, Heard, Win32Look
<1> QED
  BY <1>1, DesktopInvariant, PTL

-----------------------------------------------------------------------------
(* The slots: of frames there are, each in one slot at most.               *)
SlotsInv ==
  /\ slots \in Seq(DOMAIN frames)
  /\ \A i, j \in DOMAIN slots : slots[i] = slots[j] => i = j

(* Whatever happens to the windows: frames are never taken back, and those *)
(* of before are only shown, or in a slot, when they were.                 *)
TableMoves ==
  /\ UNCHANGED platform
  /\ Len(frames) <= Len(frames') /\ DOMAIN frames \subseteq DOMAIN frames'
  /\ shown' \cap DOMAIN frames \subseteq shown
  /\ Slotted' \cap DOMAIN frames \subseteq Slotted
  /\ SlotsInv'

LEMMA SlottedAreFrames == SlotsInv => Slotted \subseteq DOMAIN frames
BY DEF SlotsInv, Slotted

LEMMA TableStands ==
  ASSUME WindowsInv, SlotsInv, UNCHANGED <<platform, frames, slots>>, shown' \subseteq shown
  PROVE  TableMoves
<1>1. Len(frames) \in Nat
  BY DEF WindowsInv
<1> QED
  BY <1>1 DEF TableMoves, SlotsInv, Slotted

LEMMA DestroyMoves ==
  ASSUME WindowsInv, SlotsInv, NEW found, Destroy(found)
  PROVE  TableMoves
<1>1. UNCHANGED <<platform, frames>> /\ shown' \subseteq shown
  BY DEF Destroy
<1>2. CASE platform = "windows"
  BY <1>1, <1>2, TableStands DEF Destroy, LoseHandle
<1>3. CASE platform # "windows"
  <2>1. PICK gone : Without(slots, gone, slots')
    BY <1>3 DEF Destroy, RemoveSlot
  <2>2. slots' \in Seq(DOMAIN frames \ gone) /\ Survivors(slots, gone, slots')
    <3>1. slots \in Seq(DOMAIN frames)
      BY DEF SlotsInv
    <3> QED
      BY <2>1, <3>1, WithoutKeepsOrder
  <2>3. slots' \in Seq(DOMAIN frames) /\ Slotted' \subseteq Slotted
    BY <2>2 DEF Survivors, Elements, Slotted
  <2>4. ASSUME NEW i \in DOMAIN slots', NEW j \in DOMAIN slots', slots'[i] = slots'[j], i < j
        PROVE  FALSE
    <3>1. PICK p, q \in DOMAIN slots : p < q /\ slots[p] = slots'[i] /\ slots[q] = slots'[j]
      BY <2>2, <2>4 DEF Survivors
    <3>2. p = q
      BY <2>4, <3>1 DEF SlotsInv
    <3>3. p \in Nat
      BY DEF SlotsInv
    <3> QED
      BY <3>1, <3>2, <3>3
  <2>5. \A i, j \in DOMAIN slots' : slots'[i] = slots'[j] => i = j
    <3>1. \A i, j \in DOMAIN slots' : i < j \/ j < i \/ i = j
      BY <2>3
    <3> QED
      BY <2>4, <3>1
  <2>6. Len(frames) \in Nat
    BY DEF WindowsInv
  <2> QED
    BY <1>1, <2>3, <2>5, <2>6 DEF TableMoves, SlotsInv
<1> QED
  BY <1>2, <1>3

LEMMA Appended ==
  ASSUME NEW S, NEW list \in Seq(S), NEW x
  PROVE  /\ Len(list) \in Nat /\ DOMAIN list = 1 .. Len(list)
         /\ Len(Append(list, x)) = Len(list) + 1
         /\ DOMAIN Append(list, x) = 1 .. Len(list) + 1
         /\ Append(list, x)[Len(list) + 1] = x
         /\ \A i \in DOMAIN list : Append(list, x)[i] = list[i]
         /\ x \in S => Append(list, x) \in Seq(S)
<1>1. PICK longer : longer = Append(list, x)
  OBVIOUS
<1>2. /\ Len(longer) = Len(list) + 1 /\ DOMAIN longer = 1 .. Len(list) + 1
      /\ longer[Len(list) + 1] = x /\ \A i \in DOMAIN list : longer[i] = list[i]
      /\ x \in S => longer \in Seq(S)
  BY <1>1
<1> QED
  BY <1>1, <1>2

(* A new window is the next frame, with the next slot or with none.        *)
LEMMA NewFrameMoves ==
  ASSUME WindowsInv, SlotsInv, UNCHANGED platform, NEW label \in Labels,
         frames' = Append(frames, label),
         slots' = slots \/ slots' = Append(slots, Len(frames) + 1),
         shown' \subseteq shown \cup {Len(frames) + 1}
  PROVE  TableMoves
<1> DEFINE n == Len(frames)
<1>1. frames \in Seq(Labels) /\ n \in Nat /\ DOMAIN frames = 1 .. n
  BY DEF WindowsInv
<1>2. Len(frames') = n + 1 /\ DOMAIN frames' = 1 .. n + 1
  BY <1>1
<1>3. /\ slots \in Seq(1 .. n) /\ Len(slots) \in Nat /\ DOMAIN slots = 1 .. Len(slots)
      /\ \A i \in DOMAIN slots : slots[i] \in 1 .. n
      /\ \A i, j \in DOMAIN slots : slots[i] = slots[j] => i = j
  BY <1>1 DEF SlotsInv
<1> HIDE DEF n
<1>4. CASE slots' = slots
  <2>1. SlotsInv'
    BY <1>2, <1>3, <1>4 DEF SlotsInv
  <2> QED
    BY <1>1, <1>2, <1>4, <2>1 DEF TableMoves, Slotted, n
<1>5. CASE slots' = Append(slots, n + 1)
  <2>1. /\ DOMAIN slots' = 1 .. Len(slots) + 1 /\ slots'[Len(slots) + 1] = n + 1
        /\ \A i \in DOMAIN slots : slots'[i] = slots[i]
    <3>1. slots \in Seq(1 .. n)
      BY <1>3
    <3> QED
      BY <1>5, <3>1, Appended
  <2>2. slots' \in Seq(1 .. n + 1)
    <3>1. slots \in Seq(1 .. n + 1) /\ n + 1 \in 1 .. n + 1
      BY <1>1, <1>3
    <3> QED
      BY <1>5, <3>1
  <2>3. \A i, j \in DOMAIN slots' : slots'[i] = slots'[j] => i = j
    <3>1. \A i \in DOMAIN slots' : i \in DOMAIN slots \/ i = Len(slots) + 1
      BY <1>3, <2>1
    <3>2. \A i \in DOMAIN slots : slots'[i] # n + 1
      BY <1>1, <1>3, <2>1
    <3> QED
      BY <1>3, <2>1, <3>1, <3>2
  <2>4. SlotsInv'
    BY <1>2, <2>2, <2>3 DEF SlotsInv
  <2>5. Slotted' \subseteq Slotted \cup {n + 1}
    BY <1>3, <2>1 DEF Slotted
  <2> QED
    BY <1>1, <1>2, <2>4, <2>5 DEF TableMoves, n
<1> QED
  BY <1>4, <1>5 DEF n

LEMMA OpenMoves ==
  ASSUME WindowsInv, SlotsInv, NEW label \in Labels, OpenWindow(label)
  PROVE  TableMoves
<1>1. CASE UNCHANGED tableVars
  BY <1>1, TableStands DEF tableVars
<1>2. CASE ~UNCHANGED tableVars
  <2>1. /\ UNCHANGED platform /\ frames' = Append(frames, label)
        /\ slots' = slots \/ slots' = Append(slots, Len(frames) + 1)
        /\ shown' \subseteq shown \cup {Len(frames) + 1}
    BY <1>2 DEF OpenWindow, CreateSlot, OpenFrame
  <2> QED
    BY <2>1, NewFrameMoves
<1> QED
  BY <1>1, <1>2

LEMMA WebViewMoves ==
  ASSUME WindowsInv, SlotsInv, WebViewAnswers
  PROVE  TableMoves
<1>1. CASE EnvironmentReady
  <2>1. PICK created :
          /\ frames = <<>> /\ UNCHANGED platform
          /\ frames' = SubSeq(Initial, 1, created)
          /\ slots' = [i \in 1 .. created |-> i]
          /\ created = 1 \/ created = Lesser(Len(Initial), MaxSlots[platform])
    BY <1>1 DEF EnvironmentReady
  <2>2. created \in Nat /\ created <= Len(Initial)
    <3>1. Len(Initial) \in Nat /\ Len(Initial) > 0 /\ MaxSlots[platform] \in Nat \ {0}
      BY TableAssumption DEF WindowsInv
    <3> QED
      BY <2>1, <3>1 DEF Lesser
  <2>3. Len(frames') = created /\ DOMAIN frames' = 1 .. created
    <3>1. Initial \in Seq(Labels)
      BY TableAssumption
    <3> QED
      BY <2>1, <2>2, <3>1
  <2>4. SlotsInv'
    BY <2>1, <2>2, <2>3 DEF SlotsInv
  <2>5. DOMAIN frames = {} /\ Len(frames) = 0
    BY <2>1
  <2> QED
    BY <2>1, <2>2, <2>3, <2>4, <2>5 DEF TableMoves
<1>2. CASE EnvironmentFails \/ \E f \in Frames : ViewReady(f) \/ ViewFails(f)
  BY <1>2, TableStands DEF EnvironmentFails, ViewReady, ViewFails
<1>3. CASE \E f \in closing : Destroy({f})
  BY <1>3, DestroyMoves
<1> QED
  BY <1>1, <1>2, <1>3 DEF WebViewAnswers

-----------------------------------------------------------------------------
(* The registry of menu commands: what a number of windows add to it.      *)
AllPayloads == MenuPayloads \cup {<<>>}

LEMMA PayloadItems ==
  ASSUME NEW payload \in AllPayloads
  PROVE  /\ payload \in Seq([id: STRING, key: STRING, on: BOOLEAN])
         /\ Len(payload) \in Nat /\ DOMAIN payload = 1 .. Len(payload)
         /\ \A i \in DOMAIN payload : payload[i].id \in STRING
<1> DEFINE S == [id: STRING, key: STRING, on: BOOLEAN]
<1>1. payload \in Seq(S)
  <2>1. CASE payload \in MenuPayloads
    BY <2>1, MenuAssumption
  <2>2. CASE payload = <<>>
    BY <2>2
  <2> QED
    BY <2>1, <2>2 DEF AllPayloads
<1>2. \A x \in S : x.id \in STRING
  OBVIOUS
<1> HIDE DEF S
<1>3. /\ Len(payload) \in Nat /\ DOMAIN payload = 1 .. Len(payload)
      /\ \A i \in DOMAIN payload : payload[i] \in S
  BY <1>1
<1> QED
  BY <1>1, <1>2, <1>3 DEF S

LEMMA LesserIs ==
  ASSUME NEW m \in Nat, NEW n \in Nat
  PROVE  /\ Lesser(m, n) \in Nat /\ Lesser(m, n) \in {m, n}
         /\ Lesser(m, n) <= m /\ Lesser(m, n) <= n
BY DEF Lesser

(* It only grows, up to its end, and keeps the ids it has.                 *)
LEMMA RegistryGrows ==
  ASSUME commands \in Seq(STRING), Len(commands) <= MaxCommands,
         NEW payload \in AllPayloads, NEW windows \in Nat
  PROVE  LET after == Registered(payload, windows)
         IN  /\ after \in Seq(STRING) /\ Len(after) <= MaxCommands
             /\ Len(after) = Lesser(MaxCommands, Len(commands) + windows * Len(payload))
             /\ DOMAIN after = 1 .. Len(after)
             /\ \A c \in DOMAIN commands : c \in DOMAIN after /\ after[c] = commands[c]
             /\ Len(commands) = MaxCommands => Len(after) = MaxCommands
<1> DEFINE size == Len(payload)
<1> DEFINE have == Len(commands)
<1> DEFINE more == windows * size
<1> DEFINE total == Lesser(MaxCommands, have + more)
<1> DEFINE after == Registered(payload, windows)
<1>1. MaxCommands \in Nat /\ have \in Nat /\ have <= MaxCommands /\ DOMAIN commands = 1 .. have
      /\ \A c \in DOMAIN commands : commands[c] \in STRING
  BY MenuAssumption
<1>2. size \in Nat /\ more \in Nat /\ (size = 0 => more = 0)
  BY PayloadItems, Multiples
<1>3. after = [c \in 1 .. total |-> IF c <= have THEN commands[c]
                                    ELSE payload[((c - have - 1) % size) + 1].id]
  BY DEF Registered
<1>4. total \in Nat /\ total \in {MaxCommands, have + more} /\ total <= MaxCommands
      /\ total <= have + more
  <2>1. PICK all \in Nat : all = have + more
    BY <1>1, <1>2
  <2> HIDE DEF have, more
  <2>2. total = Lesser(MaxCommands, all)
    BY <2>1
  <2> QED
    BY <1>1, <2>1, <2>2, LesserIs
<1> HIDE DEF have, more, size, total, after
<1>5. have <= total /\ (have = MaxCommands => total = MaxCommands)
  BY <1>1, <1>2, <1>4
<1>6. ASSUME NEW c \in 1 .. total, c > have
      PROVE  payload[((c - have - 1) % size) + 1].id \in STRING
  <2> DEFINE x == c - have - 1
  <2>1. size > 0 /\ x \in Nat
    BY <1>1, <1>2, <1>4, <1>6
  <2> HIDE DEF x
  <2>2. (x % size) \in 0 .. size - 1
    BY <1>2, <2>1, Division
  <2>3. (x % size) + 1 \in DOMAIN payload
    BY <1>2, <2>2, PayloadItems DEF size
  <2>4. payload[(x % size) + 1].id \in STRING
    BY <2>3, PayloadItems
  <2> QED
    BY <2>4 DEF x
<1>7. ASSUME NEW c \in 1 .. total PROVE after[c] \in STRING
  <2>1. CASE c <= have
    <3>1. after[c] = commands[c] /\ c \in DOMAIN commands
      BY <1>1, <1>3, <1>4, <2>1
    <3> QED
      BY <1>1, <3>1
  <2>2. CASE c > have
    <3>1. after[c] = payload[((c - have - 1) % size) + 1].id
      BY <1>1, <1>3, <1>4, <2>2
    <3> QED
      BY <1>6, <2>2, <3>1
  <2> QED
    BY <1>1, <1>4, <2>1, <2>2
<1>8. after \in Seq(STRING) /\ Len(after) = total /\ DOMAIN after = 1 .. total
  <2>1. DOMAIN after = 1 .. total /\ after = [c \in 1 .. total |-> after[c]]
    BY <1>3
  <2> QED
    BY <1>4, <1>7, <2>1
<1>9. \A c \in DOMAIN commands : c \in DOMAIN after /\ after[c] = commands[c]
  BY <1>1, <1>3, <1>4, <1>5, <1>8
<1> QED
  BY <1>4, <1>5, <1>8, <1>9 DEF after, total, have, more, size

(* The menu that is read when some of the windows had theirs: its rows get *)
(* numbers that stand for them in the registry after all of the windows,   *)
(* and a row is only left out when the registry is full then.              *)
LEMMA RowsAreNumbered ==
  ASSUME commands \in Seq(STRING), Len(commands) <= MaxCommands,
         NEW payload \in AllPayloads, NEW windows \in Nat, NEW before \in Nat, before + 1 <= windows
  PROVE  LET after == Registered(payload, windows)
             rows == Win32(payload, Lesser(MaxCommands, Len(commands) + before * Len(payload)))
         IN  /\ rows \in Seq([item: {payload[i] : i \in DOMAIN payload}, command: 0 .. MaxCommands])
             /\ \A i \in DOMAIN rows :
                  rows[i].command \in DOMAIN after /\ after[rows[i].command] = rows[i].item.id
             /\ Len(after) = MaxCommands \/ Items(rows) = payload
<1> DEFINE size == Len(payload)
<1> DEFINE first == Len(commands) + before * size
<1> DEFINE start == Lesser(MaxCommands, first)
<1> DEFINE total == Lesser(MaxCommands, Len(commands) + windows * size)
<1> DEFINE n == Lesser(size, MaxCommands - start)
<1> DEFINE after == Registered(payload, windows)
<1> DEFINE rows == Win32(payload, start)
<1>1. MaxCommands \in Nat /\ Len(commands) \in Nat /\ size \in Nat /\ DOMAIN payload = 1 .. size
  BY MenuAssumption, PayloadItems
<1>2. /\ before * size \in Nat /\ windows * size \in Nat
      /\ before * size + size <= windows * size
  <2>1. before + 1 \in Nat /\ (before + 1) * size = before * size + size
        /\ before * size \in Nat /\ (before + 1) * size <= windows * size /\ windows * size \in Nat
    BY <1>1, NextMultiple, Multiples
  <2> QED
    BY <2>1
<1>3. first \in Nat /\ Len(commands) + windows * size \in Nat
      /\ first + size <= Len(commands) + windows * size
  BY <1>1, <1>2
<1>4. start \in Nat /\ start <= MaxCommands /\ start <= first /\ start \in {MaxCommands, first}
      /\ total \in {MaxCommands, Len(commands) + windows * size}
      /\ total \in Nat /\ total <= MaxCommands
  BY <1>1, <1>3, LesserIs
<1>5. n \in Nat /\ n <= size /\ n <= MaxCommands - start /\ n \in {size, MaxCommands - start}
  <2>1. MaxCommands - start \in Nat
    BY <1>1, <1>4
  <2> QED
    BY <1>1, <2>1, LesserIs
<1>6. rows = [i \in 1 .. n |-> [item |-> payload[i], command |-> start + i]]
  BY DEF Win32, Row
<1>7. after = [c \in 1 .. total |->
         IF c <= Len(commands) THEN commands[c]
         ELSE payload[((c - Len(commands) - 1) % size) + 1].id]
  BY DEF Registered
<1>8. Len(after) = total
  BY <1>2, RegistryGrows
<1>9. \A i \in 1 .. n : i \in DOMAIN payload /\ start + i \in 0 .. MaxCommands
  BY <1>1, <1>4, <1>5
<1>10. ASSUME NEW i \in 1 .. n
       PROVE  start + i \in 1 .. total /\ after[start + i] = payload[i].id
  <2>1. i \in Nat /\ i >= 1 /\ i <= size /\ start = first
    BY <1>1, <1>4, <1>5, <1>10
  <2>2. start + i \in 1 .. total /\ start + i > Len(commands)
    <3>1. PICK p \in Nat, q \in Nat, len \in Nat, most \in Nat, end \in Nat :
            /\ p = before * size /\ q = windows * size /\ len = Len(commands)
            /\ most = MaxCommands /\ end = total
      BY <1>1, <1>2, <1>4
    <3>2. start = len + p /\ p + size <= q /\ end \in {most, len + q}
      BY <1>2, <1>4, <2>1, <3>1
    <3>3. i <= most - start
      BY <1>4, <1>5, <1>10, <2>1, <3>1, SMTT(30)
    <3> HIDE DEF start, total, n, first, size, after, rows
    <3>4. start + i <= most /\ start + i <= len + q /\ start + i >= 1 /\ start + i > len
          /\ start + i \in Nat
      BY <1>1, <2>1, <3>2, <3>3
    <3>5. start + i <= end
      BY <3>2, <3>4
    <3> QED
      BY <3>1, <3>4, <3>5
  <2>3. start + i - Len(commands) - 1 = before * size + i - 1
    <3>1. PICK p \in Nat, len \in Nat : p = before * size /\ len = Len(commands)
      BY <1>1, <1>2
    <3>2. start = len + p
      BY <2>1, <3>1
    <3>3. start + i - len - 1 = p + i - 1
      BY <2>1, <3>2
    <3> QED
      BY <3>1, <3>3
  <2>4. (before * size + i - 1) % size = i - 1
    BY <1>1, <2>1, Remainder
  <2>5. after[start + i] = payload[((start + i - Len(commands) - 1) % size) + 1].id
    <3> HIDE DEF after, total, start
    <3> QED
      BY <1>1, <1>4, <1>7, <2>2
  <2>6. (i - 1) + 1 = i
    BY <2>1
  <2> QED
    BY <2>2, <2>3, <2>4, <2>5, <2>6
<1>11. total = MaxCommands \/ n = size
  <2>1. PICK all \in Nat : all = Len(commands) + windows * size
    BY <1>3
  <2> HIDE DEF n, total, start, first, size
  <2>2. ASSUME total # MaxCommands PROVE n = size
    <3>1. total = all /\ all < MaxCommands
      BY <1>1, <1>4, <2>1, <2>2
    <3>2. first + size < MaxCommands
      BY <1>1, <1>3, <2>1, <3>1
    <3>3. start = first
      BY <1>1, <1>3, <1>4, <3>2
    <3> QED
      BY <1>1, <1>3, <1>5, <3>2, <3>3
  <2> QED
    BY <2>2
<1> HIDE DEF n, total, start, first
<1>12. DOMAIN rows = 1 .. n /\ \A i \in 1 .. n :
         rows[i].item = payload[i] /\ rows[i].command = start + i
  BY <1>6
<1>13. rows \in Seq([item: {payload[i] : i \in DOMAIN payload}, command: 0 .. MaxCommands])
  <2>1. \A i \in 1 .. n :
          [item |-> payload[i], command |-> start + i]
            \in [item: {payload[j] : j \in DOMAIN payload}, command: 0 .. MaxCommands]
    BY <1>9
  <2> QED
    BY <1>5, <1>6, <2>1
<1>14. DOMAIN after = 1 .. total
  BY <1>7
<1>15. ASSUME n = size PROVE Items(rows) = payload
  <2>1. Items(rows) = [i \in 1 .. n |-> payload[i]]
    BY <1>12 DEF Items
  <2>2. payload = [i \in 1 .. size |-> payload[i]]
    BY <1>1, PayloadItems
  <2> QED
    BY <1>15, <2>1, <2>2
<1> HIDE DEF rows, after
<1>16. \A i \in DOMAIN rows :
         rows[i].command \in DOMAIN after /\ after[rows[i].command] = rows[i].item.id
  BY <1>10, <1>12, <1>14
<1>17. Len(after) = MaxCommands \/ Items(rows) = payload
  BY <1>8, <1>11, <1>15
<1> QED
  BY <1>13, <1>16, <1>17 DEF rows, after, start, first

-----------------------------------------------------------------------------
(* The menus of windows.                                                   *)
KeysOf(rows) == IF platform = "windows" THEN TableKeys(rows) ELSE ItemKeys(rows)

Numbered(c, id) == c \in DOMAIN commands /\ commands[c] = id

(* The windows whose shortcuts have to match: those on the screen, and     *)
(* those to come, which have no menu yet; not those that are gone.         *)
Unborn == Frames \ DOMAIN frames

RegistryFull == platform = "windows" /\ Len(commands) = MaxCommands

MenuInv ==
  /\ MenuTypeOK
  /\ platform # "macos" => bar[0] = <<>>
  /\ \A f \in Unborn : bar[f] = <<>>
  /\ \A b \in shown \cup {0} \cup Unborn : keys[b] = KeysOf(bar[b])
  /\ platform = "windows" =>
       \A b \in Bars : \A i \in DOMAIN bar[b] : Numbered(bar[b][i].command, bar[b][i].item.id)
  /\ AppMenuShown

LEMMA FramesAreNumbers == WindowsInv => Frames \subseteq Nat \ {0}
<1> SUFFICES ASSUME WindowsInv PROVE Frames \subseteq Nat \ {0}
  OBVIOUS
<1>1. PICK m \in Nat : Frames = 1 .. Len(Initial) + m
  BY CallBound DEF WindowsInv
<1>2. Len(Initial) \in Nat
  BY TableAssumption
<1> QED
  BY <1>1, <1>2

LEMMA PayloadRows ==
  ASSUME NEW payload \in AllPayloads
  PROVE  [item: {payload[i] : i \in DOMAIN payload}, command: 0 .. MaxCommands] \subseteq MenuRows
<1>1. {payload[i] : i \in DOMAIN payload}
        \subseteq UNION {{p[i] : i \in DOMAIN p} : p \in MenuPayloads}
  <2>1. CASE payload \in MenuPayloads
    BY <2>1
  <2>2. CASE payload = <<>>
    BY <2>2
  <2> QED
    BY <2>1, <2>2 DEF AllPayloads
<1> QED
  BY <1>1 DEF MenuRows

LEMMA GtkRows ==
  ASSUME NEW payload \in AllPayloads
  PROVE  Gtk(payload) \in Seq(MenuRows) /\ Items(Gtk(payload)) = payload
<1>1. Len(payload) \in Nat /\ DOMAIN payload = 1 .. Len(payload)
      /\ payload = [i \in 1 .. Len(payload) |-> payload[i]]
  BY PayloadItems
<1>2. MaxCommands \in Nat
  BY MenuAssumption
<1>3. Gtk(payload) = [i \in 1 .. Len(payload) |-> [item |-> payload[i], command |-> 0]]
  BY <1>1 DEF Gtk, Row
<1>4. \A i \in 1 .. Len(payload) : [item |-> payload[i], command |-> 0] \in MenuRows
  <2>1. \A i \in DOMAIN payload : [item |-> payload[i], command |-> 0]
          \in [item: {payload[j] : j \in DOMAIN payload}, command: 0 .. MaxCommands]
    BY <1>2
  <2> QED
    BY <1>1, <2>1, PayloadRows
<1>5. Gtk(payload) \in Seq(MenuRows)
  BY <1>1, <1>3, <1>4
<1>6. Items(Gtk(payload)) = [i \in 1 .. Len(payload) |-> payload[i]]
  BY <1>3 DEF Items
<1> QED
  BY <1>1, <1>5, <1>6

LEMMA KeyRows ==
  ASSUME NEW rows \in Seq(MenuRows)
  PROVE  /\ DOMAIN ItemKeys(rows) \subseteq Nat
         /\ ItemKeys(rows) \in [DOMAIN ItemKeys(rows) -> MenuRows]
         /\ DOMAIN TableKeys(rows) \subseteq Nat
         /\ TableKeys(rows) \in [DOMAIN TableKeys(rows) -> MenuRows]
<1>1. DOMAIN rows \subseteq Nat /\ \A i \in DOMAIN rows : rows[i] \in MenuRows
  OBVIOUS
<1> QED
  BY <1>1 DEF ItemKeys, TableKeys, Parsed

LEMMA NoKeys == ItemKeys(<<>>) = <<>> /\ TableKeys(<<>>) = <<>>
BY DEF ItemKeys, TableKeys, Parsed

(* What a record, or a new window, makes of the menus: those of targets    *)
(* are replaced, and those of windows that are gone go with them.          *)
MenusSet(targets, payload) ==
  /\ bar' \in [Bars -> Seq(MenuRows)]
  /\ DOMAIN keys' = Bars
  /\ \A b \in Bars : DOMAIN keys'[b] \subseteq Nat /\ keys'[b] \in [DOMAIN keys'[b] -> MenuRows]
  /\ commands' \in Seq(STRING) /\ Len(commands') <= MaxCommands
  /\ \A c \in DOMAIN commands : c \in DOMAIN commands' /\ commands'[c] = commands[c]
  /\ RegistryFull => RegistryFull'
  /\ \A b \in targets \cap shown' :
       keys'[b] = KeysOf(bar'[b]) /\ (RegistryFull' \/ Items(bar'[b]) = payload)
  /\ \A b \in shown' \cup {0} : b \notin targets => bar'[b] = bar[b] /\ keys'[b] = keys[b]
  /\ \A b \in Frames \ (shown' \cup targets) : bar'[b] = <<>> /\ keys'[b] \in {keys[b], <<>>}
  /\ platform = "windows" =>
       \A b \in Bars : \A i \in DOMAIN bar'[b] :
         bar'[b][i].command \in DOMAIN commands' /\ commands'[bar'[b][i].command] = bar'[b][i].item.id

LEMMA GtkMenusSet ==
  ASSUME WindowsInv, MenuInv, UNCHANGED platform, platform = "linux", shown' \subseteq Frames,
         NEW targets \in SUBSET Frames, NEW payload \in AllPayloads, SetGtkMenus(targets, payload)
  PROVE  MenusSet(targets, payload)
<1> DEFINE rows == Gtk(payload)
<1>1. rows \in Seq(MenuRows) /\ Items(rows) = payload
  BY GtkRows
<1>2. bar' = [b \in Bars |-> IF b \in targets THEN rows
                             ELSE IF b \in Frames \ shown' THEN <<>> ELSE bar[b]]
  BY DEF SetGtkMenus
<1>3. keys' = [b \in Bars |-> IF b \in targets THEN ItemKeys(rows)
                              ELSE IF b \in Frames \ shown' THEN <<>> ELSE keys[b]]
  BY DEF SetGtkMenus
<1>4. UNCHANGED commands
  BY DEF SetGtkMenus
<1>5. MenuTypeOK /\ 0 \notin Frames /\ Bars = Frames \cup {0}
  BY FramesAreNumbers DEF MenuInv, Bars
<1> HIDE DEF rows
<1>6. bar' \in [Bars -> Seq(MenuRows)]
  BY <1>1, <1>2, <1>5 DEF MenuTypeOK
<1>7. ASSUME NEW b \in Bars
      PROVE  DOMAIN keys'[b] \subseteq Nat /\ keys'[b] \in [DOMAIN keys'[b] -> MenuRows]
  <2>1. CASE b \in targets
    BY <1>1, <1>3, <2>1, KeyRows
  <2>2. CASE b \notin targets /\ b \in Frames \ shown'
    BY <1>3, <2>2
  <2>3. CASE b \notin targets /\ b \notin Frames \ shown'
    BY <1>3, <1>5, <2>3 DEF MenuTypeOK
  <2> QED
    BY <2>1, <2>2, <2>3
<1>8. \A b \in targets \cap shown' : keys'[b] = KeysOf(bar'[b]) /\ Items(bar'[b]) = payload
  BY <1>1, <1>2, <1>3, <1>5 DEF KeysOf
<1>9. \A b \in shown' \cup {0} : b \notin targets => bar'[b] = bar[b] /\ keys'[b] = keys[b]
  BY <1>2, <1>3, <1>5
<1>10. \A b \in Frames \ (shown' \cup targets) : bar'[b] = <<>> /\ keys'[b] \in {keys[b], <<>>}
  BY <1>2, <1>3, <1>5
<1> QED
  BY <1>3, <1>4, <1>5, <1>6, <1>7, <1>8, <1>9, <1>10 DEF MenusSet, MenuTypeOK, RegistryFull

(* The windows are read in the order of their slots: each of them finds a  *)
(* registry in which no more than the others have their rows.              *)
LEMMA Win32MenusSet ==
  ASSUME WindowsInv, MenuInv, UNCHANGED platform, platform = "windows", shown' \subseteq Frames,
         SlotsInv', NEW targets \in SUBSET Frames, NEW payload \in AllPayloads,
         SetWin32Menus(targets, payload)
  PROVE  MenusSet(targets, payload)
<1> DEFINE windows == Cardinality(targets)
<1> DEFINE size == Len(payload)
<1> DEFINE before(f) == Cardinality(Before(targets, f))
<1> DEFINE rows(f) == Win32(payload, Lesser(MaxCommands, Len(commands) + before(f) * size))
<1>1. /\ bar' = [b \in Bars |-> IF b \in targets \cap shown' THEN rows(b)
                                ELSE IF b \in Frames \ shown' THEN <<>> ELSE bar[b]]
      /\ keys' = [b \in Bars |-> IF b \in targets THEN TableKeys(rows(b)) ELSE keys[b]]
      /\ commands' = Registered(payload, windows)
  BY DEF SetWin32Menus, Win32Keys
<1>2. MenuTypeOK /\ 0 \notin Frames /\ Bars = Frames \cup {0}
      /\ commands \in Seq(STRING) /\ Len(commands) <= MaxCommands
  BY FramesAreNumbers DEF MenuInv, MenuTypeOK, Bars
<1>3. IsFiniteSet(targets) /\ windows \in Nat
  <2>1. PICK m \in Nat : Frames = 1 .. Len(Initial) + m
    BY CallBound DEF WindowsInv
  <2>2. IsFiniteSet(Frames)
    BY <2>1, TableAssumption, FS_Interval
  <2> QED
    BY <2>2, FS_Subset, FS_CardinalityType
<1>4. ASSUME NEW f \in targets PROVE before(f) \in Nat /\ before(f) + 1 <= windows
  <2>1. slots' \in Seq(DOMAIN frames')
        /\ \A i, j \in DOMAIN slots' : slots'[i] = slots'[j] => i = j
    BY DEF SlotsInv
  <2>2. PICK early : early = Before(targets, f)
    OBVIOUS
  <2>3. early \subseteq DOMAIN slots' /\ \A i \in early : slots'[i] \in targets /\ slots'[i] # f
    <3>1. \A i, j \in DOMAIN slots' : i < j => i # j
      BY <2>1
    <3> QED
      BY <2>1, <2>2, <3>1 DEF Before
  <2>4. Cardinality(early) \in Nat /\ Cardinality(early) + 1 <= windows
    BY <1>3, <2>1, <2>3, FewerBefore
  <2> QED
    BY <2>2, <2>4
<1>5. /\ commands' \in Seq(STRING) /\ Len(commands') <= MaxCommands
      /\ \A c \in DOMAIN commands : c \in DOMAIN commands' /\ commands'[c] = commands[c]
      /\ Len(commands) = MaxCommands => Len(commands') = MaxCommands
  BY <1>1, <1>2, <1>3, RegistryGrows
<1> HIDE DEF windows, before
<1>6. ASSUME NEW f \in targets
      PROVE  /\ rows(f) \in Seq(MenuRows)
             /\ \A i \in DOMAIN rows(f) : rows(f)[i].command \in DOMAIN commands'
                  /\ commands'[rows(f)[i].command] = rows(f)[i].item.id
             /\ Len(commands') = MaxCommands \/ Items(rows(f)) = payload
  <2>1. /\ rows(f) \in Seq([item: {payload[i] : i \in DOMAIN payload}, command: 0 .. MaxCommands])
        /\ \A i \in DOMAIN rows(f) : rows(f)[i].command \in DOMAIN commands'
             /\ commands'[rows(f)[i].command] = rows(f)[i].item.id
        /\ Len(commands') = MaxCommands \/ Items(rows(f)) = payload
    <3>1. PICK n \in Nat : n = before(f) /\ n + 1 <= windows
      BY <1>4
    <3>2. rows(f) = Win32(payload, Lesser(MaxCommands, Len(commands) + n * Len(payload)))
      BY <3>1
    <3>3. commands' = Registered(payload, windows)
      BY <1>1
    <3> DEFINE after == Registered(payload, windows)
    <3> DEFINE read == Win32(payload, Lesser(MaxCommands, Len(commands) + n * Len(payload)))
    <3>4. /\ read \in Seq([item: {payload[i] : i \in DOMAIN payload}, command: 0 .. MaxCommands])
          /\ \A i \in DOMAIN read : read[i].command \in DOMAIN after
               /\ after[read[i].command] = read[i].item.id
          /\ Len(after) = MaxCommands \/ Items(read) = payload
      BY <1>2, <1>3, <3>1, RowsAreNumbered, ZenonT(40)
    <3> HIDE DEF rows, size, after, read
    <3>5. rows(f) = read /\ commands' = after
      BY <3>2, <3>3 DEF read, after
    <3> QED
      BY <3>4, <3>5
  <2>2. rows(f) \in Seq(MenuRows)
    <3> DEFINE some == [item: {payload[i] : i \in DOMAIN payload}, command: 0 .. MaxCommands]
    <3>1. rows(f) \in Seq(some) /\ some \subseteq MenuRows
      BY <2>1, PayloadRows
    <3> HIDE DEF rows, some
    <3> QED
      BY <3>1
  <2> QED
    BY <2>1, <2>2
<1> HIDE DEF rows
<1>7. bar' \in [Bars -> Seq(MenuRows)]
  BY <1>1, <1>2, <1>6 DEF MenuTypeOK
<1>8. ASSUME NEW b \in Bars
      PROVE  DOMAIN keys'[b] \subseteq Nat /\ keys'[b] \in [DOMAIN keys'[b] -> MenuRows]
  <2>1. CASE b \in targets
    BY <1>1, <1>6, <2>1, KeyRows
  <2>2. CASE b \notin targets
    BY <1>1, <1>2, <2>2 DEF MenuTypeOK
  <2> QED
    BY <2>1, <2>2
<1>9. ASSUME NEW b \in targets \cap shown'
      PROVE  keys'[b] = KeysOf(bar'[b]) /\ (RegistryFull' \/ Items(bar'[b]) = payload)
  <2>1. bar'[b] = rows(b) /\ keys'[b] = TableKeys(rows(b))
    BY <1>1, <1>2
  <2> QED
    BY <1>6, <2>1 DEF KeysOf, RegistryFull
<1>10. \A b \in shown' \cup {0} : b \notin targets => bar'[b] = bar[b] /\ keys'[b] = keys[b]
  BY <1>1, <1>2
<1>11. \A b \in Frames \ (shown' \cup targets) : bar'[b] = <<>> /\ keys'[b] \in {keys[b], <<>>}
  BY <1>1, <1>2
<1>12. ASSUME NEW b \in Bars, NEW i \in DOMAIN bar'[b]
       PROVE  bar'[b][i].command \in DOMAIN commands'
              /\ commands'[bar'[b][i].command] = bar'[b][i].item.id
  <2>1. CASE b \in targets \cap shown'
    BY <1>1, <1>6, <1>12, <2>1
  <2>2. CASE b \notin targets \cap shown' /\ b \in Frames \ shown'
    <3>1. bar'[b] = <<>>
      BY <1>1, <2>2
    <3> QED
      BY <1>12, <3>1
  <2>3. CASE b \notin targets \cap shown' /\ b \notin Frames \ shown'
    <3>1. bar'[b] = bar[b]
      BY <1>1, <2>3
    <3>2. Numbered(bar[b][i].command, bar[b][i].item.id)
      BY <1>12, <3>1 DEF MenuInv
    <3> QED
      BY <1>5, <3>1, <3>2 DEF Numbered
  <2> QED
    BY <2>1, <2>2, <2>3
<1>13. RegistryFull => RegistryFull'
  BY <1>5 DEF RegistryFull
<1>14. DOMAIN keys' = Bars
  BY <1>1
<1> HIDE DEF size
<1> QED
  BY <1>5, <1>7, <1>8, <1>9, <1>10, <1>11, <1>12, <1>13, <1>14 DEF MenusSet

LEMMA MenusAreSet ==
  ASSUME WindowsInv, MenuInv, UNCHANGED platform, platform # "macos", shown' \subseteq Frames,
         SlotsInv', NEW targets \in SUBSET Frames, NEW payload \in AllPayloads,
         SetMenus(targets, payload)
  PROVE  MenusSet(targets, payload)
<1>1. platform \in {"linux", "windows"}
  BY TableAssumption DEF WindowsInv
<1> QED
  BY <1>1, GtkMenusSet, Win32MenusSet DEF SetMenus

(* What the menus promise after a step that replaced some of them, if it   *)
(* replaced those of all windows that would show another menu than the one *)
(* of the application.                                                     *)
LEMMA MenusSetKeep ==
  ASSUME WindowsInv, WindowsInv', SlotsInv, SlotsInv', MenuInv, TableMoves, platform # "macos",
         shown' \subseteq Frames,
         NEW targets \in SUBSET Frames, targets \cap Unborn' = {},
         NEW payload \in AllPayloads, MenusSet(targets, payload),
         appMenu' \in AllPayloads, own' \subseteq DOMAIN frames',
         \A f \in WithoutOwn' : IF f \in targets THEN payload = appMenu'
                                ELSE appMenu' = appMenu /\ f \in WithoutOwn
  PROVE  MenuInv'
<1>1. MenuTypeOK /\ platform' = platform /\ 0 \notin Frames /\ Bars = Frames \cup {0}
  BY FramesAreNumbers DEF MenuInv, TableMoves, Bars
<1>2. MenuTypeOK'
  BY DEF MenusSet, MenuTypeOK, AllPayloads
<1>3. 0 \notin targets /\ shown' \cap Unborn' = {} /\ Unborn' \subseteq Unborn
  BY <1>1 DEF Unborn, TableMoves, WindowsInv
<1>4. bar'[0] = <<>>
  BY <1>1, <1>3 DEF MenusSet, MenuInv
<1>5. ASSUME NEW f \in Unborn' PROVE bar'[f] = <<>> /\ keys'[f] = KeysOf(bar'[f])
  <2>1. f \in Frames \ (shown' \cup targets) /\ f \in Unborn
    BY <1>3 DEF Unborn
  <2>2. bar'[f] = <<>> /\ keys'[f] \in {keys[f], <<>>}
    BY <2>1 DEF MenusSet
  <2>3. bar[f] = <<>> /\ keys[f] = KeysOf(bar[f])
    BY <2>1 DEF MenuInv
  <2> QED
    BY <2>2, <2>3, NoKeys DEF KeysOf
<1>6. ASSUME NEW b \in shown' \cup {0} PROVE keys'[b] = KeysOf(bar'[b])
  <2>1. CASE b \in targets
    BY <1>3, <2>1 DEF MenusSet
  <2>2. CASE b \notin targets
    <3>1. bar'[b] = bar[b] /\ keys'[b] = keys[b]
      BY <2>2 DEF MenusSet
    <3>2. b \in shown \cup {0} \cup Unborn
      BY DEF TableMoves, Unborn
    <3> QED
      BY <3>1, <3>2 DEF MenuInv
  <2> QED
    BY <2>1, <2>2
<1>7. KeysOf(<<>>)' = KeysOf(<<>>) /\ \A rows : KeysOf(rows)' = KeysOf(rows)
  BY <1>1 DEF KeysOf, ItemKeys, TableKeys, Parsed
<1>8. ASSUME ~RegistryFull', NEW f \in WithoutOwn' PROVE Items(bar'[f]) = appMenu'
  <2>1. f \in shown'
    BY DEF WithoutOwn
  <2>2. CASE f \in targets
    BY <1>8, <2>1, <2>2 DEF MenusSet
  <2>3. CASE f \notin targets
    <3>1. bar'[f] = bar[f] /\ appMenu' = appMenu /\ f \in WithoutOwn
      BY <2>1, <2>3 DEF MenusSet
    <3>2. ~RegistryFull
      BY <1>8 DEF MenusSet
    <3>3. Items(bar[f]) = appMenu
      BY <3>1, <3>2 DEF MenuInv, AppMenuShown, RegistryFull
    <3> QED
      BY <3>1, <3>3
  <2> QED
    BY <2>2, <2>3
<1>9. AppMenuShown'
  BY <1>1, <1>8 DEF AppMenuShown, RegistryFull, Items
<1>10. platform' = "windows" =>
         \A b \in Bars : \A i \in DOMAIN bar'[b] :
           Numbered(bar[b][i].command, bar[b][i].item.id)'
  BY <1>1 DEF MenusSet, Numbered
<1> QED
  BY <1>1, <1>2, <1>4, <1>5, <1>6, <1>7, <1>9, <1>10 DEF MenuInv, Bars, Unborn

LEMMA ShownAreFramesNext == WindowsInv' => DOMAIN frames' \subseteq Frames /\ shown' \subseteq Frames
<1>1. (WindowsInv => DOMAIN frames \subseteq Frames /\ shown \subseteq Frames)'
  BY ShownAreFrames, PTL
<1> QED
  BY <1>1

(* Nothing happened to the menus, or, on AppKit, to the windows' only.     *)
LEMMA MenusStay ==
  ASSUME MenuInv, UNCHANGED <<tableVars, menuVars>>
  PROVE  MenuInv'
<1>1. UNCHANGED <<platform, frames, shown, slots, appMenu, own, bar, keys, commands>>
  BY DEF tableVars, menuVars
<1>2. \A r : KeysOf(r)' = KeysOf(r)
  BY <1>1 DEF KeysOf, ItemKeys, TableKeys, Parsed
<1> QED
  BY <1>1, <1>2
     DEF MenuInv, MenuTypeOK, Unborn, Numbered, AppMenuShown, WithoutOwn, Slotted, Items

LEMMA MainMenuStays ==
  ASSUME WindowsInv, WindowsInv', MenuInv, TableMoves, platform = "macos",
         UNCHANGED <<appMenu, bar, keys, commands>>, own' = own \cap shown'
  PROVE  MenuInv'
<1>1. shown' \cup {0} \cup Unborn' \subseteq shown \cup {0} \cup Unborn /\ Unborn' \subseteq Unborn
      /\ platform' = platform /\ own' \subseteq DOMAIN frames'
  BY ShownAreFramesNext DEF TableMoves, Unborn, WindowsInv
<1>2. \A r : KeysOf(r)' = KeysOf(r)
  BY <1>1 DEF KeysOf, ItemKeys, TableKeys, Parsed
<1>3. MenuTypeOK'
  BY <1>1 DEF MenuInv, MenuTypeOK
<1>4. \A b \in shown' \cup {0} \cup Unborn' : keys'[b] = KeysOf(bar'[b])
  BY <1>1 DEF MenuInv
<1>5. \A f \in Unborn' : bar'[f] = <<>>
  BY <1>1 DEF MenuInv
<1>6. AppMenuShown'
  BY <1>1 DEF MenuInv, AppMenuShown, Items
<1> QED
  BY <1>1, <1>2, <1>3, <1>4, <1>5, <1>6 DEF MenuInv

LEMMA MainMenuKeeps ==
  ASSUME WindowsInv, MenuInv, UNCHANGED <<tableVars, own>>, platform = "macos",
         NEW payload \in AllPayloads, SetMainMenu(payload), appMenu' = payload
  PROVE  MenuInv'
<1>1. /\ bar' = [bar EXCEPT ![0] = Gtk(payload)] /\ keys' = [keys EXCEPT ![0] = ItemKeys(Gtk(payload))]
      /\ UNCHANGED commands /\ UNCHANGED <<platform, frames, shown>>
  BY DEF SetMainMenu, tableVars
<1>2. MenuTypeOK /\ 0 \notin Frames /\ Bars = Frames \cup {0}
  BY FramesAreNumbers DEF MenuInv, Bars
<1>3. Gtk(payload) \in Seq(MenuRows) /\ Items(Gtk(payload)) = payload
  BY GtkRows
<1> DEFINE rows == Gtk(payload)
<1> HIDE DEF rows
<1>4. /\ DOMAIN ItemKeys(rows) \subseteq Nat /\ ItemKeys(rows) \in [DOMAIN ItemKeys(rows) -> MenuRows]
  BY <1>3, KeyRows DEF rows
<1>5. /\ bar' = [bar EXCEPT ![0] = rows] /\ keys' = [keys EXCEPT ![0] = ItemKeys(rows)]
      /\ rows \in Seq(MenuRows) /\ Items(rows) = payload
  BY <1>1, <1>3 DEF rows
<1>6. DOMAIN bar = Bars /\ DOMAIN keys = Bars
  BY <1>2 DEF MenuTypeOK
<1>7. bar'[0] = rows /\ keys'[0] = ItemKeys(rows)
      /\ \A b \in Frames : bar'[b] = bar[b] /\ keys'[b] = keys[b]
  BY <1>2, <1>5, <1>6
<1>8. MenuTypeOK'
  <2>1. bar' \in [Bars -> Seq(MenuRows)]
    BY <1>2, <1>5 DEF MenuTypeOK
  <2>2. DOMAIN keys' = Bars
    BY <1>5, <1>6
  <2>3. \A b \in Bars : DOMAIN keys'[b] \subseteq Nat /\ keys'[b] \in [DOMAIN keys'[b] -> MenuRows]
    BY <1>2, <1>4, <1>7 DEF MenuTypeOK
  <2> QED
    BY <1>1, <1>2, <2>1, <2>2, <2>3 DEF MenuTypeOK, AllPayloads
<1>9. \A b \in shown \cup {0} \cup Unborn : keys'[b] = KeysOf(bar'[b])
  <2>1. keys'[0] = KeysOf(bar'[0])
    BY <1>7 DEF KeysOf
  <2>2. shown \cup Unborn \subseteq Frames
    BY ShownAreFrames DEF Unborn
  <2> QED
    BY <1>7, <2>1, <2>2 DEF MenuInv
<1>10. \A f \in Unborn : bar'[f] = <<>>
  BY <1>7 DEF MenuInv, Unborn
<1>11. \A r : KeysOf(r)' = KeysOf(r)
  BY <1>1 DEF KeysOf, ItemKeys, TableKeys, Parsed
<1>12. AppMenuShown'
  BY <1>1, <1>5, <1>7 DEF AppMenuShown, Items
<1> QED
  BY <1>1, <1>8, <1>9, <1>10, <1>11, <1>12 DEF MenuInv, Unborn

LEMMA FoundAreSlotted ==
  ASSUME SlotsInv, NEW label
  PROVE  FindSlot(label) \subseteq Slotted /\ FindSlot(label) \subseteq DOMAIN frames
<1>1. CASE ExactSlot(label) # {} \/ slots = <<>>
  BY <1>1, SlottedAreFrames DEF FindSlot, ExactSlot
<1>2. CASE ExactSlot(label) = {} /\ slots # <<>>
  <2>1. 1 \in DOMAIN slots
    BY <1>2 DEF SlotsInv
  <2> QED
    BY <1>2, <2>1, SlottedAreFrames DEF FindSlot, Slotted
<1> QED
  BY <1>1, <1>2

(* The records of menus.                                                   *)
LEMMA MenuRecordKeeps ==
  ASSUME WindowsInv, WindowsInv', SlotsInv, MenuInv, MenuRecord
  PROVE  MenuInv'
<1>1. UNCHANGED tableVars /\ UNCHANGED <<platform, frames, shown, slots>>
  BY DEF MenuRecord, tableVars
<1>2. TableMoves /\ SlotsInv' /\ shown' \subseteq Frames /\ DOMAIN frames \subseteq Frames
      /\ Unborn' = Unborn /\ Unborn \cap DOMAIN frames = {} /\ Slotted' = Slotted
  BY <1>1, TableStands, ShownAreFrames DEF TableMoves, Unborn, Slotted
<1>3. appMenu \in AllPayloads /\ own \subseteq DOMAIN frames
  BY DEF MenuInv, MenuTypeOK, AllPayloads
<1>4. WithoutOwn' = (Slotted \cap shown) \ own' /\ WithoutOwn = (Slotted \cap shown) \ own
      /\ WithoutOwn \subseteq DOMAIN frames
  BY <1>1, <1>2 DEF WithoutOwn, WindowsInv
<1>5. ASSUME NEW payload \in AllPayloads, appMenu' = payload, UNCHANGED own,
             IF platform = "macos" THEN SetMainMenu(payload) ELSE SetMenus(WithoutOwn, payload)
      PROVE  MenuInv'
  <2>1. CASE platform = "macos"
    BY <1>1, <1>5, <2>1, MainMenuKeeps
  <2>2. CASE platform # "macos"
    <3>1. WithoutOwn \in SUBSET Frames /\ WithoutOwn \cap Unborn' = {}
      BY <1>2, <1>4
    <3>2. MenusSet(WithoutOwn, payload)
      BY <1>1, <1>2, <1>5, <2>2, <3>1, MenusAreSet
    <3>3. \A f \in WithoutOwn' : f \in WithoutOwn /\ payload = appMenu'
      BY <1>4, <1>5
    <3> QED
      BY <1>1, <1>2, <1>3, <1>5, <2>2, <3>1, <3>2, <3>3, MenusSetKeep
  <2> QED
    BY <2>1, <2>2
<1>6. ASSUME NEW label, NEW payload \in AllPayloads, UNCHANGED appMenu, platform # "macos",
             \/ own' = own \cup FindSlot(label)
             \/ own' = own \ FindSlot(label) /\ payload = appMenu,
             SetMenus(FindSlot(label), payload)
      PROVE  MenuInv'
  <2> DEFINE targets == FindSlot(label)
  <2>1. targets \in SUBSET Frames /\ targets \cap Unborn' = {} /\ targets \subseteq DOMAIN frames
    BY <1>2, FoundAreSlotted
  <2>2. MenusSet(targets, payload)
    BY <1>1, <1>2, <1>6, <2>1, MenusAreSet
  <2>3. own' \subseteq DOMAIN frames'
    BY <1>1, <1>3, <1>6, <2>1
  <2>4. \A f \in WithoutOwn' : IF f \in targets THEN payload = appMenu'
                               ELSE appMenu' = appMenu /\ f \in WithoutOwn
    BY <1>4, <1>6
  <2> HIDE DEF targets
  <2> QED
    BY <1>2, <1>3, <1>6, <2>1, <2>2, <2>3, <2>4, MenusSetKeep
<1>7. <<>> \in AllPayloads /\ MenuPayloads \subseteq AllPayloads
  BY DEF AllPayloads
<1>8. ASSUME NEW payload \in MenuPayloads, SetAppMenu(payload) PROVE MenuInv'
  BY <1>5, <1>7, <1>8 DEF SetAppMenu
<1>9. ASSUME ClearAppMenu PROVE MenuInv'
  BY <1>5, <1>7, <1>9 DEF ClearAppMenu
<1>10. ASSUME UNCHANGED menuVars PROVE MenuInv'
  BY <1>1, <1>10, MenusStay
<1>11. ASSUME NEW label, NEW payload \in MenuPayloads, SetWindowMenu(label, payload) PROVE MenuInv'
  BY <1>6, <1>7, <1>10, <1>11 DEF SetWindowMenu
<1>12. ASSUME NEW label, ClearWindowMenu(label) PROVE MenuInv'
  BY <1>3, <1>6, <1>10, <1>12 DEF ClearWindowMenu
<1> QED
  BY <1>8, <1>9, <1>11, <1>12 DEF MenuRecord

(* What follows a change of windows.                                       *)
LEMMA MenusFollowKeep ==
  ASSUME WindowsInv, WindowsInv', SlotsInv, MenuInv, TableMoves, MenusFollow
  PROVE  MenuInv'
<1>1. UNCHANGED <<platform, appMenu>> /\ own' = own \cap shown' /\ SlotsInv'
  BY DEF MenusFollow, TableMoves
<1>2. CASE platform = "macos"
  BY <1>1, <1>2, MainMenuStays DEF MenusFollow
<1>3. CASE platform # "macos"
  <2> DEFINE targets == {slots'[i] : i \in DOMAIN slots'} \cap (DOMAIN frames' \ DOMAIN frames)
  <2>1. SetMenus(targets, appMenu)
    BY <1>3 DEF MenusFollow, NewWindowMenus
  <2>2. shown' \subseteq Frames /\ DOMAIN frames' \subseteq Frames /\ shown' \subseteq DOMAIN frames'
    BY ShownAreFramesNext DEF WindowsInv
  <2>3. targets \in SUBSET Frames /\ targets \cap Unborn' = {}
    BY <2>2 DEF Unborn
  <2>4. appMenu \in AllPayloads /\ own' \subseteq DOMAIN frames'
    BY <1>1, <2>2 DEF MenuInv, MenuTypeOK, AllPayloads
  <2>5. ASSUME NEW f \in WithoutOwn', f \notin targets
        PROVE  f \in WithoutOwn
    <3>1. f \in Slotted' /\ f \in shown' /\ f \notin own'
      BY DEF WithoutOwn
    <3>2. f \in DOMAIN frames
      BY <2>2, <2>5, <3>1 DEF Slotted
    <3> QED
      BY <1>1, <3>1, <3>2 DEF TableMoves, WithoutOwn
  <2> HIDE DEF targets
  <2>6. MenusSet(targets, appMenu)
    BY <1>1, <1>3, <2>1, <2>2, <2>3, <2>4, MenusAreSet
  <2> QED
    BY <1>1, <1>3, <2>2, <2>3, <2>4, <2>5, <2>6, MenusSetKeep
<1> QED
  BY <1>2, <1>3

-----------------------------------------------------------------------------
(* The tray.                                                               *)
TrayRow == [item: [id: STRING, key: {NoKey}, on: BOOLEAN], command: Nat]

TrayEntry == [command: Nat, id: STRING]

TrayInv ==
  /\ TrayTypeOK
  /\ trayRows \in Seq(TrayRow)
  /\ trayCommands \in Seq(TrayEntry)
  /\ TrayRowsHonest

IconOK == added \in BOOLEAN /\ icon \in BOOLEAN /\ (icon => added) /\ host \in 0 .. Len(frames)

RowsOK ==
  /\ \A i \in DOMAIN trayRows : trayRows[i].command \in 0 .. MaxTray
  /\ Len(trayCommands) <= MaxTray
  /\ trayRows \in Seq(TrayRow)
  /\ trayCommands \in Seq(TrayEntry)
  /\ TrayRowsHonest

LEMMA TrayParts == TrayInv <=> IconOK /\ RowsOK /\ hidden \in BOOLEAN
BY DEF TrayInv, TrayTypeOK, IconOK, RowsOK

LEMMA TrayPartsNext == TrayInv' <=> IconOK' /\ RowsOK' /\ hidden' \in BOOLEAN
BY DEF TrayInv, TrayTypeOK, IconOK, RowsOK

LEMMA RowsStay ==
  ASSUME RowsOK, UNCHANGED <<platform, trayRows, trayCommands>>
  PROVE  RowsOK'
BY DEF RowsOK, TrayRowsHonest, TrayCommandId

LEMMA PrimaryIsShown == SlotsInv => PrimaryLive \subseteq shown
<1> SUFFICES ASSUME SlotsInv PROVE PrimaryLive \subseteq shown
  OBVIOUS
<1> DEFINE there == {i \in DOMAIN slots : slots[i] \in shown}
<1>1. there \in SUBSET Nat
  BY DEF SlotsInv
<1>2. there # {} => Min(there) \in there
  BY <1>1, MinIsIn
<1>3. PrimaryLive = IF there = {} THEN {} ELSE {slots[Min(there)]}
  BY DEF PrimaryLive
<1> QED
  BY <1>2, <1>3

LEMMA EnsuringKeeps ==
  ASSUME WindowsInv, SlotsInv, IconOK, UNCHANGED frames, EnsureTray
  PROVE  IconOK'
<1>1. Len(frames) \in Nat /\ shown \subseteq 1 .. Len(frames)
  BY DEF WindowsInv
<1>2. CASE platform = "windows"
  <2>1. host' \in 0 .. Len(frames)
    <3>1. host' = host \/ host' \in PrimaryLive
      BY <1>2 DEF EnsureTray, EnsureWin32Icon
    <3>2. CASE host' = host
      BY <3>2 DEF IconOK
    <3>3. CASE host' \in PrimaryLive
      <4>1. host' \in 1 .. Len(frames)
        BY <1>1, <3>3, PrimaryIsShown
      <4> QED
        BY <1>1, <4>1
    <3> QED
      BY <3>1, <3>2, <3>3
  <2> QED
    BY <1>2, <2>1 DEF EnsureTray, EnsureWin32Icon, IconOK
<1>3. CASE platform # "windows"
  BY <1>3 DEF EnsureTray, EnsureStatusIcon, IconOK
<1> QED
  BY <1>2, <1>3

LEMMA TrayItems ==
  ASSUME NEW payload \in TrayPayloads
  PROVE  /\ Len(payload) \in Nat /\ DOMAIN payload = 1 .. Len(payload)
         /\ \A i \in DOMAIN payload : payload[i] \in [id: STRING, key: {NoKey}, on: BOOLEAN]
<1> DEFINE S == [id: STRING, key: {NoKey}, on: BOOLEAN]
<1>1. payload \in Seq(S)
  BY TrayAssumption
<1> HIDE DEF S
<1>2. /\ Len(payload) \in Nat /\ DOMAIN payload = 1 .. Len(payload)
      /\ \A i \in DOMAIN payload : payload[i] \in S
  BY <1>1
<1> QED
  BY <1>2 DEF S

(* A new menu starts the registry anew, with a number for each of its rows.*)
LEMMA RegisteringKeeps ==
  ASSUME NEW payload \in TrayPayloads, RegisterTray(payload)
  PROVE  RowsOK'
<1> DEFINE n == Lesser(Len(payload), MaxTray)
<1> DEFINE entries == [i \in 1 .. n |-> [command |-> i, id |-> payload[i].id]]
<1>1. MaxTray \in Nat /\ Len(payload) \in Nat /\ DOMAIN payload = 1 .. Len(payload)
      /\ \A i \in DOMAIN payload : payload[i] \in [id: STRING, key: {NoKey}, on: BOOLEAN]
  BY TrayAssumption, TrayItems
<1>2. n \in Nat /\ n <= Len(payload) /\ n <= MaxTray
  BY <1>1, LesserIs
<1>3. Len(<<>>) = 0 /\ MaxTray - 0 = MaxTray
  BY <1>1
<1>4. trayRows' = [i \in 1 .. n |-> [item |-> payload[i], command |-> i]]
      /\ trayCommands' = <<>> \o entries
  BY <1>3 DEF RegisterTray, ResetTrayCommands, Row
<1> HIDE DEF n
<1>5. entries \in Seq(TrayEntry)
  <2>1. \A i \in 1 .. n : payload[i].id \in STRING /\ i \in 1 .. MaxTray
    BY <1>1, <1>2
  <2>2. \A i \in 1 .. n : [command |-> i, id |-> payload[i].id] \in TrayEntry
    BY <1>1, <2>1 DEF TrayEntry
  <2> QED
    BY <1>2, <2>2
<1>6. trayCommands' = entries
  <2>1. \A e \in Seq(TrayEntry) : <<>> \o e = e
    OBVIOUS
  <2> HIDE DEF entries
  <2> QED
    BY <1>4, <1>5, <2>1
<1>7. trayRows' \in Seq(TrayRow) /\ DOMAIN trayRows' = 1 .. n
  BY <1>1, <1>2, <1>4 DEF TrayRow
<1>8. ASSUME NEW i \in DOMAIN trayRows'
      PROVE  /\ trayRows'[i].command \in 0 .. MaxTray
             /\ TrayCommandId(trayRows[i].command)' = {trayRows'[i].item.id}
  <2>1. i \in 1 .. n /\ trayRows'[i].command = i /\ trayRows'[i].item.id = payload[i].id
    BY <1>4, <1>7
  <2> DEFINE found == {j \in DOMAIN trayCommands' : trayCommands'[j].command = i}
  <2>2. found = {i} /\ trayCommands'[i].id = payload[i].id
    BY <1>6, <2>1
  <2>3. Min(found) = i
    <3>1. {i} \in SUBSET Nat /\ {i} # {}
      BY <2>1
    <3> HIDE DEF found
    <3> QED
      BY <2>2, <3>1, MinIsIn
  <2>4. TrayCommandId(trayRows[i].command)' =
          IF found = {} THEN {} ELSE {trayCommands'[Min(found)].id}
    BY <2>1 DEF TrayCommandId
  <2> HIDE DEF found
  <2> QED
    BY <1>1, <1>2, <2>1, <2>2, <2>3, <2>4
<1>9. Len(trayCommands') <= MaxTray
  BY <1>2, <1>6
<1> QED
  BY <1>5, <1>6, <1>7, <1>8, <1>9 DEF RowsOK, TrayRowsHonest

LEMMA TrayRecordKeeps ==
  ASSUME WindowsInv, SlotsInv, TrayInv, TrayRecord
  PROVE  TrayInv'
<1>1. UNCHANGED tableVars /\ UNCHANGED <<platform, frames>>
  BY DEF TrayRecord, tableVars
<1>2. IconOK /\ RowsOK /\ hidden \in BOOLEAN
  BY TrayParts
<1>3. ASSUME EnsureTray PROVE IconOK'
  BY <1>1, <1>2, <1>3, EnsuringKeeps
<1>4. ASSUME RemoveTray PROVE IconOK'
  BY <1>1, <1>2, <1>4 DEF RemoveTray, IconOK
<1>5. CASE DecorateTray
  BY <1>1, <1>2, <1>3, <1>5, RowsStay, TrayPartsNext DEF DecorateTray
<1>6. ASSUME NEW payload \in TrayPayloads, SetTrayMenu(payload)
      PROVE  TrayInv'
  <2>1. IconOK' /\ hidden' = hidden
    BY <1>3, <1>6 DEF SetTrayMenu
  <2>2. CASE platform = "windows"
    BY <1>2, <1>6, <2>1, <2>2, RegisteringKeeps, TrayPartsNext DEF SetTrayMenu
  <2>3. CASE platform # "windows"
    <3>1. trayRows' = [i \in DOMAIN payload |-> [item |-> payload[i], command |-> 0]]
          /\ UNCHANGED trayCommands
      BY <1>6, <2>3 DEF SetTrayMenu, Gtk, Row
    <3>2. trayRows' \in Seq(TrayRow) /\ MaxTray \in Nat
      <4>1. /\ Len(payload) \in Nat /\ DOMAIN payload = 1 .. Len(payload)
            /\ \A i \in DOMAIN payload : [item |-> payload[i], command |-> 0] \in TrayRow
        BY TrayItems DEF TrayRow
      <4>2. MaxTray \in Nat
        BY TrayAssumption
      <4> QED
        BY <3>1, <4>1, <4>2
    <3>3. \A i \in DOMAIN trayRows' : trayRows'[i].command \in 0 .. MaxTray
      BY <3>1, <3>2
    <3>4. RowsOK'
      BY <1>1, <1>2, <2>3, <3>1, <3>2, <3>3 DEF RowsOK, TrayRowsHonest
    <3> QED
      BY <1>2, <2>1, <3>4, TrayPartsNext
  <2> QED
    BY <2>2, <2>3
<1>7. ASSUME NEW visible \in BOOLEAN, SetTrayVisible(visible)
      PROVE  TrayInv'
  <2>1. hidden' = ~visible /\ UNCHANGED <<trayRows, trayCommands>>
    BY <1>7 DEF SetTrayVisible
  <2>2. IconOK'
    <3>1. CASE platform = "windows"
      BY <1>3, <1>4, <1>7, <3>1 DEF SetTrayVisible
    <3>2. CASE platform # "windows"
      BY <1>1, <1>2, <1>7, <3>2 DEF SetTrayVisible, IconOK
    <3> QED
      BY <3>1, <3>2
  <2>3. hidden' \in BOOLEAN
    BY <2>1
  <2> QED
    BY <1>1, <1>2, <2>1, <2>2, <2>3, RowsStay, TrayPartsNext
<1>8. ASSUME DestroyTray PROVE TrayInv'
  <2>1. IconOK' /\ hidden' = FALSE
    BY <1>4, <1>8 DEF DestroyTray
  <2>2. trayRows' = <<>> /\ (trayCommands' = <<>> \/ trayCommands' = trayCommands)
    BY <1>8 DEF DestroyTray, ResetTrayCommands
  <2>3. MaxTray \in Nat /\ Len(<<>>) = 0 /\ DOMAIN trayRows' = {}
    BY <2>2, TrayAssumption
  <2>4. trayRows' \in Seq(TrayRow)
    BY <2>2
  <2>5. trayCommands' \in Seq(TrayEntry) /\ Len(trayCommands') <= MaxTray
    <3>1. CASE trayCommands' = <<>>
      <4>1. <<>> \in Seq(TrayEntry)
        OBVIOUS
      <4> QED
        BY <2>3, <3>1, <4>1
    <3>2. CASE trayCommands' = trayCommands
      BY <1>2, <3>2 DEF RowsOK
    <3> QED
      BY <2>2, <3>1, <3>2
  <2>6. RowsOK'
    BY <2>3, <2>4, <2>5 DEF RowsOK, TrayRowsHonest
  <2> QED
    BY <2>1, <2>6, TrayPartsNext
<1> QED
  BY <1>5, <1>6, <1>7, <1>8 DEF TrayRecord

LEMMA TrayFollowsKeep ==
  ASSUME WindowsInv, WindowsInv', TrayInv, TableMoves, TrayFollows
  PROVE  TrayInv'
<1>1. UNCHANGED <<platform, added, host, hidden, trayRows, trayCommands>>
      /\ icon' \in BOOLEAN /\ (icon' => icon)
  BY DEF TrayFollows, TableMoves, TrayInv, TrayTypeOK
<1>2. Len(frames) <= Len(frames') /\ Len(frames) \in Nat /\ Len(frames') \in Nat
  BY DEF TableMoves, WindowsInv
<1>3. IconOK'
  BY <1>1, <1>2, TrayParts DEF IconOK
<1> QED
  BY <1>1, <1>3, TrayParts, TrayPartsNext, RowsStay

LEMMA TrayStays ==
  ASSUME TrayInv, UNCHANGED <<tableVars, trayVars>>
  PROVE  TrayInv'
<1>1. UNCHANGED <<platform, frames, added, host, icon, hidden, trayRows, trayCommands>>
  BY DEF tableVars, trayVars
<1>2. IconOK'
  BY <1>1, TrayParts DEF IconOK
<1> QED
  BY <1>1, <1>2, TrayParts, TrayPartsNext, RowsStay

-----------------------------------------------------------------------------
(* The numbers of menu items: one that has an id has it for good.          *)
NumbersKept == \A c \in DOMAIN commands : c \in DOMAIN commands' /\ commands'[c] = commands[c]

LEMMA SettingKeepsNumbers ==
  ASSUME WindowsInv, MenuInv, NEW targets \in SUBSET Frames, NEW payload \in AllPayloads,
         SetMenus(targets, payload)
  PROVE  NumbersKept
<1>1. CASE platform = "windows"
  <2>1. commands' = Registered(payload, Cardinality(targets))
    BY <1>1 DEF SetMenus, SetWin32Menus
  <2>2. Cardinality(targets) \in Nat
    <3>1. PICK m \in Nat : Frames = 1 .. Len(Initial) + m
      BY CallBound DEF WindowsInv
    <3>2. IsFiniteSet(Frames)
      BY <3>1, TableAssumption, FS_Interval
    <3> QED
      BY <3>2, FS_Subset, FS_CardinalityType
  <2>3. commands \in Seq(STRING) /\ Len(commands) <= MaxCommands
    BY DEF MenuInv, MenuTypeOK
  <2> QED
    BY <2>1, <2>2, <2>3, RegistryGrows DEF NumbersKept
<1>2. CASE platform # "windows"
  BY <1>2 DEF SetMenus, SetGtkMenus, NumbersKept
<1> QED
  BY <1>1, <1>2

LEMMA RecordKeepsNumbers ==
  ASSUME WindowsInv, SlotsInv, MenuInv, MenuRecord
  PROVE  NumbersKept
<1>1. DOMAIN frames \subseteq Frames /\ shown \subseteq Frames
  BY ShownAreFrames
<1>2. WithoutOwn \in SUBSET Frames
  BY <1>1 DEF WithoutOwn
<1>3. <<>> \in AllPayloads /\ appMenu \in AllPayloads /\ MenuPayloads \subseteq AllPayloads
  BY DEF AllPayloads, MenuInv, MenuTypeOK
<1>4. ASSUME UNCHANGED commands PROVE NumbersKept
  BY <1>4 DEF NumbersKept
<1>5. ASSUME NEW payload \in AllPayloads,
             IF platform = "macos" THEN SetMainMenu(payload) ELSE SetMenus(WithoutOwn, payload)
      PROVE  NumbersKept
  BY <1>2, <1>4, <1>5, SettingKeepsNumbers DEF SetMainMenu
<1>6. ASSUME NEW label, NEW payload \in AllPayloads, SetMenus(FindSlot(label), payload)
      PROVE  NumbersKept
  <2>1. FindSlot(label) \in SUBSET Frames
    BY <1>1, FoundAreSlotted
  <2> QED
    BY <1>6, <2>1, SettingKeepsNumbers
<1>7. ASSUME UNCHANGED menuVars PROVE NumbersKept
  BY <1>4, <1>7 DEF menuVars
<1> QED
  BY <1>3, <1>5, <1>6, <1>7
     DEF MenuRecord, SetAppMenu, ClearAppMenu, SetWindowMenu, ClearWindowMenu

LEMMA FollowingKeepsNumbers ==
  ASSUME WindowsInv, WindowsInv', MenuInv, MenusFollow
  PROVE  NumbersKept
<1>1. CASE platform = "macos"
  BY <1>1 DEF MenusFollow, NumbersKept
<1>2. CASE platform # "macos"
  <2> DEFINE targets == {slots'[i] : i \in DOMAIN slots'} \cap (DOMAIN frames' \ DOMAIN frames)
  <2>1. targets \in SUBSET Frames
    BY ShownAreFramesNext
  <2>2. SetMenus(targets, appMenu)
    BY <1>2 DEF MenusFollow, NewWindowMenus
  <2>3. appMenu \in AllPayloads
    BY DEF AllPayloads, MenuInv, MenuTypeOK
  <2> HIDE DEF targets
  <2> QED
    BY <2>1, <2>2, <2>3, SettingKeepsNumbers
<1> QED
  BY <1>1, <1>2

-----------------------------------------------------------------------------
(* Clicks and their messages.                                              *)
Messages == [to: Nat, from: {"menu", "tray"}, shown: STRING, command: Nat]

ClickInv ==
  /\ posted \in Seq(Messages) /\ Len(posted) <= MaxPosted
  /\ \A i \in DOMAIN posted :
       /\ posted[i].to \in shown
       /\ posted[i].from = "menu" => Numbered(posted[i].command, posted[i].shown)
  /\ ClicksMeanWhatWasShown

LEMMA MenuRowIds ==
  ASSUME NEW row \in MenuRows
  PROVE  row.item.id \in STRING /\ row.command \in Nat
<1>1. PICK payload \in MenuPayloads : \E i \in DOMAIN payload : row.item = payload[i]
  BY DEF MenuRows
<1>2. row.item.id \in STRING
  BY <1>1, PayloadItems DEF AllPayloads
<1>3. row.command \in Nat
  BY MenuAssumption DEF MenuRows
<1> QED
  BY <1>2, <1>3

(* No message is touched by what leaves the windows and their numbers.     *)
LEMMA ClicksStay ==
  ASSUME ClickInv, UNCHANGED clickVars, shown \subseteq shown', NumbersKept
  PROVE  ClickInv'
<1>1. UNCHANGED <<posted, clicked>>
  BY DEF clickVars
<1> QED
  BY <1>1 DEF ClickInv, NumbersKept, Numbered, ClicksMeanWhatWasShown

(* Messages to windows that are gone went with them.                       *)
LEMMA ClicksFollow ==
  ASSUME ClickInv, UNCHANGED clicked, PostedFollow, NumbersKept
  PROVE  ClickInv'
<1> DEFINE gone == {posted[i] : i \in {j \in DOMAIN posted : posted[j].to \notin shown'}}
<1>1. posted \in Seq(Messages) /\ Without(posted, gone, posted') /\ MaxPosted \in Nat
      /\ Len(posted) \in Nat
  BY DesktopAssumption DEF ClickInv, PostedFollow
<1>2. ASSUME NEW i \in DOMAIN posted, posted[i] \notin gone PROVE posted[i].to \in shown'
  BY <1>2
<1> HIDE DEF gone
<1>3. posted' \in Seq(Messages \ gone) /\ Survivors(posted, gone, posted')
      /\ Len(posted') <= Len(posted)
  BY <1>1, WithoutKeepsOrder, WithoutShrinks
<1>4. posted' \in Seq(Messages) /\ Len(posted') <= MaxPosted
  <2>1. posted' \in Seq(Messages) /\ Len(posted') \in Nat
    BY <1>3
  <2> QED
    BY <1>1, <1>3, <2>1 DEF ClickInv
<1>5. ASSUME NEW k \in DOMAIN posted'
      PROVE  /\ posted'[k].to \in shown'
             /\ posted'[k].from = "menu" => Numbered(posted[k].command, posted[k].shown)'
  <2>1. PICK i \in DOMAIN posted : posted[i] = posted'[k] /\ posted[i] \notin gone
    BY <1>3 DEF Survivors, Elements
  <2>2. posted[i].to \in shown'
    BY <1>2, <2>1
  <2>3. posted[i].from = "menu" => Numbered(posted[i].command, posted[i].shown)
    BY DEF ClickInv
  <2> QED
    BY <2>1, <2>2, <2>3 DEF NumbersKept, Numbered
<1> QED
  BY <1>4, <1>5 DEF ClickInv, ClicksMeanWhatWasShown

LEMMA PostingKeeps ==
  ASSUME ClickInv, UNCHANGED <<shown, commands, clicked>>, Len(posted) < MaxPosted,
         NEW message \in Messages, message.to \in shown,
         message.from = "menu" => Numbered(message.command, message.shown),
         posted' = Append(posted, message)
  PROVE  ClickInv'
<1>1. posted \in Seq(Messages) /\ MaxPosted \in Nat
  BY DesktopAssumption DEF ClickInv
<1>2. /\ Len(posted') = Len(posted) + 1 /\ DOMAIN posted' = 1 .. Len(posted) + 1
      /\ posted'[Len(posted) + 1] = message /\ \A i \in DOMAIN posted : posted'[i] = posted[i]
      /\ posted' \in Seq(Messages) /\ Len(posted) \in Nat /\ DOMAIN posted = 1 .. Len(posted)
  BY <1>1, Appended
<1>3. ASSUME NEW k \in DOMAIN posted'
      PROVE  /\ posted'[k].to \in shown
             /\ posted'[k].from = "menu" => Numbered(posted'[k].command, posted'[k].shown)
  <2>1. CASE k \in DOMAIN posted
    BY <1>2, <2>1 DEF ClickInv
  <2>2. CASE k = Len(posted) + 1
    BY <1>2, <2>2
  <2> QED
    BY <1>2, <2>1, <2>2
<1>4. Len(posted') <= MaxPosted
  BY <1>1, <1>2
<1> QED
  BY <1>2, <1>3, <1>4 DEF ClickInv, ClicksMeanWhatWasShown, Numbered

(* A page hears of what was found for a click.                             *)
LEMMA HearingKeeps ==
  ASSUME NEW pages, NEW from, NEW shownId, NEW found, Dispatch(pages, from, shownId, found),
         from = "menu" => \A id \in found : id = shownId, ClicksMeanWhatWasShown
  PROVE  ClicksMeanWhatWasShown'
<1>1. CASE UNCHANGED clicked
  BY <1>1 DEF ClicksMeanWhatWasShown
<1>2. CASE \E id \in found : clicked' = [from |-> from, shown |-> shownId, heard |-> id]
  BY <1>2 DEF ClicksMeanWhatWasShown
<1> QED
  BY <1>1, <1>2 DEF Dispatch

(* The enabled rows with shortcuts before a row are no more than those     *)
(* before a later row, nor than all rows with shortcuts before it.         *)
LEMMA FewerOffered ==
  ASSUME NEW rows \in Seq(MenuRows), NEW i \in DOMAIN rows, NEW j \in DOMAIN rows, i <= j,
         NEW early, early \subseteq {h \in Parsed(rows) : h < i},
         NEW late, early \subseteq late, late \subseteq {h \in Parsed(rows) : h < j}
  PROVE  /\ Cardinality(early) \in Nat /\ Cardinality(late) \in Nat
         /\ Cardinality(early) <= Cardinality(late)
<1>1. late \subseteq 1 .. Len(rows) /\ Len(rows) \in Nat
  BY DEF Parsed
<1>2. IsFiniteSet(late)
  <2>1. IsFiniteSet(1 .. Len(rows))
    BY <1>1, FS_Interval
  <2> QED
    BY <1>1, <2>1, FS_Subset
<1> QED
  BY <1>2, FS_Subset, FS_CardinalityType

(* Of the rows that show a shortcut that reacts, it is the first one that  *)
(* does: a table leaves out the last ones.                                 *)
LEMMA OfferedReacts ==
  ASSUME platform \in {"linux", "macos", "windows"}, NEW rows \in Seq(MenuRows),
         NEW key \in Understood[platform], Reacting(KeysOf(rows), key) # {}
  PROVE  /\ Reacting(KeysOf(rows), key) \subseteq Offering(rows, key)
         /\ Min(Reacting(KeysOf(rows), key)) = Min(Offering(rows, key))
         /\ \A i \in Reacting(KeysOf(rows), key) : KeysOf(rows)[i] = rows[i] /\ i \in DOMAIN rows
<1>1. CASE platform = "windows"
  <2> DEFINE candidates == {i \in Parsed(rows) : rows[i].item.on}
  <2> DEFINE before(i) == {h \in candidates : h < i}
  <2>1. KeysOf(rows) = [i \in {j \in candidates : Cardinality(before(j)) < MaxKeys} |-> rows[i]]
    BY <1>1 DEF KeysOf, TableKeys
  <2>2. /\ Offering(rows, key) = {i \in candidates : rows[i].item.key = key}
        /\ candidates \subseteq Parsed(rows) /\ candidates \subseteq DOMAIN rows
        /\ DOMAIN rows \subseteq Nat
    BY <1>1 DEF Offering, Clickable, Parsed
  <2> HIDE DEF candidates
  <2>3. Reacting(KeysOf(rows), key)
          = {i \in Offering(rows, key) : Cardinality(before(i)) < MaxKeys}
    BY <1>1, <2>1, <2>2 DEF Reacting
  <2>4. PICK found, offered : found = Reacting(KeysOf(rows), key) /\ offered = Offering(rows, key)
    OBVIOUS
  <2>5. found # {} /\ found \in SUBSET Nat /\ offered \in SUBSET Nat /\ found \subseteq offered
        /\ offered \subseteq candidates
    BY <2>2, <2>3, <2>4
  <2>6. PICK x \in offered : \A y \in offered : x <= y
    BY <2>5, SmallestOf
  <2>7. x \in found
    <3>1. PICK z \in found : TRUE
      BY <2>5
    <3>2. x <= z /\ x \in candidates /\ z \in candidates /\ x \in Nat /\ z \in Nat
      BY <2>5, <2>6, <3>1
    <3>3. before(x) \subseteq before(z)
      BY <2>2, <3>2
    <3>4. before(x) \subseteq {h \in Parsed(rows) : h < x} /\ before(z) \subseteq {h \in Parsed(rows) : h < z}
      BY <2>2
    <3>5. /\ Cardinality(before(x)) \in Nat /\ Cardinality(before(z)) \in Nat
          /\ Cardinality(before(x)) <= Cardinality(before(z))
      <4>1. x \in DOMAIN rows /\ z \in DOMAIN rows
        BY <2>2, <3>2
      <4> HIDE DEF before
      <4> QED
        BY <3>2, <3>3, <3>4, <4>1, FewerOffered
    <3>6. Cardinality(before(z)) < MaxKeys /\ MaxKeys \in Nat
      BY <2>3, <2>4, <3>1, MenuAssumption
    <3> HIDE DEF before
    <3>7. Cardinality(before(x)) < MaxKeys
      BY <3>5, <3>6
    <3> QED
      BY <2>3, <2>4, <3>7
  <2>8. Min(offered) = x
    <3>1. \A y \in offered : (\A z \in offered : y <= z) => y = x
      BY <2>5, <2>6
    <3> QED
      BY <2>6, <3>1 DEF Min
  <2>9. Min(found) = x
    <3>1. \A y \in found : x <= y
      BY <2>5, <2>6
    <3>2. \A y \in found : (\A z \in found : y <= z) => y = x
      BY <2>5, <2>7, <3>1
    <3> QED
      BY <2>7, <3>1, <3>2 DEF Min
  <2> QED
    BY <2>1, <2>2, <2>3, <2>4, <2>5, <2>8, <2>9
<1>2. CASE platform # "windows"
  <2>1. Reacting(KeysOf(rows), key) = Offering(rows, key)
    BY <1>2 DEF KeysOf, ItemKeys, Parsed, Reacting, Offering, Clickable
  <2>2. \A i \in Reacting(KeysOf(rows), key) : KeysOf(rows)[i] = rows[i] /\ i \in DOMAIN rows
    BY <1>2 DEF KeysOf, ItemKeys, Parsed, Reacting
  <2> QED
    BY <2>1, <2>2
<1> QED
  BY <1>1, <1>2

LEMMA PickingKeeps ==
  ASSUME WindowsInv, MenuInv, ClickInv, UNCHANGED <<shown, commands>>, Len(posted) < MaxPosted,
         NEW b \in shown \cup {0}, NEW i \in DOMAIN bar[b], PickItem(b, i)
  PROVE  ClickInv'
<1> DEFINE row == bar[b][i]
<1>1. shown \subseteq Frames /\ Frames \subseteq Nat \ {0} /\ Bars = Frames \cup {0} /\ b \in Bars
  BY ShownAreFrames, FramesAreNumbers DEF Bars
<1>2. row.item.id \in STRING /\ row.command \in Nat
  <2>1. bar[b] \in Seq(MenuRows)
    BY <1>1 DEF MenuInv, MenuTypeOK
  <2>2. row \in MenuRows
    BY <2>1
  <2> HIDE DEF row
  <2> QED
    BY <2>2, MenuRowIds
<1>3. CASE platform = "windows"
  <2> DEFINE message == [to |-> b, from |-> "menu", shown |-> row.item.id, command |-> row.command]
  <2>1. posted' = Append(posted, message) /\ UNCHANGED clicked
    BY <1>3 DEF PickItem
  <2>2. b # 0
    <3>1. bar[0] = <<>>
      BY <1>3 DEF MenuInv
    <3> QED
      BY <3>1
  <2>3. Numbered(row.command, row.item.id)
    BY <1>1, <1>3 DEF MenuInv
  <2> HIDE DEF row
  <2>4. /\ message \in Messages /\ message.to \in shown
        /\ message.from = "menu" => Numbered(message.command, message.shown)
    BY <1>1, <1>2, <2>2, <2>3 DEF Messages
  <2> HIDE DEF message
  <2> QED
    BY <2>1, <2>4, PostingKeeps
<1>4. CASE platform # "windows"
  <2>1. Dispatch(FirstPage, "menu", row.item.id, {row.item.id}) /\ UNCHANGED posted
    BY <1>4 DEF PickItem
  <2>2. ClicksMeanWhatWasShown'
    BY <2>1, HearingKeeps DEF ClickInv
  <2> QED
    BY <2>1, <2>2 DEF ClickInv, Numbered
<1> QED
  BY <1>3, <1>4

LEMMA PressingKeeps ==
  ASSUME WindowsInv, MenuInv, ClickInv, UNCHANGED <<shown, commands>>,
         NEW f \in shown, NEW b \in {f, 0}, NEW i \in DOMAIN keys[b],
         PressKey(f, b, keys[b][i].item.key)
  PROVE  ClickInv'
<1> DEFINE key == keys[b][i].item.key
<1> DEFINE found == Reacting(keys[b], key)
<1> DEFINE offered == Offering(bar[b], key)
<1> DEFINE id == IF offered = {} THEN "nothing" ELSE bar[b][Min(offered)].item.id
<1>0. platform \in {"linux", "macos", "windows"} /\ b \in Bars /\ b \in shown \cup {0}
  BY TableAssumption, ShownAreFrames DEF WindowsInv, Bars
<1>1. keys[b] = KeysOf(bar[b]) /\ bar[b] \in Seq(MenuRows)
  BY <1>0 DEF MenuInv, MenuTypeOK
<1>2. key \in Understood[platform]
  BY <1>1, ZenonT(40) DEF KeysOf, ItemKeys, TableKeys, Parsed
<1> HIDE DEF key
<1>3. found # {} => /\ found \subseteq offered /\ Min(found) = Min(offered)
                    /\ \A k \in found : keys[b][k] = bar[b][k] /\ k \in DOMAIN bar[b]
  BY <1>0, <1>1, <1>2, OfferedReacts
<1>4. found # {} /\ UNCHANGED posted
      /\ IF platform = "windows"
         THEN Dispatch({f}, "menu", id, CommandId(keys[b][Min(found)].command))
         ELSE Dispatch(FirstPage, "menu", id, {keys[b][Min(found)].item.id})
  BY DEF PressKey, key
<1>5. Min(found) \in found
  <2>1. DOMAIN bar[b] \subseteq Nat
    BY <1>1
  <2>2. found \in SUBSET Nat
    BY <1>3, <1>4, <2>1
  <2> HIDE DEF found
  <2> QED
    BY <1>4, <2>2, MinIsIn
<1> HIDE DEF found, offered
<1>6. keys[b][Min(found)] = bar[b][Min(found)] /\ Min(found) \in DOMAIN bar[b]
      /\ id = bar[b][Min(found)].item.id
  BY <1>3, <1>4, <1>5
<1>7. CASE platform = "windows"
  <2>1. Numbered(bar[b][Min(found)].command, id)
    BY <1>0, <1>6, <1>7 DEF MenuInv
  <2>2. CommandId(keys[b][Min(found)].command) = {id}
    BY <1>6, <2>1 DEF CommandId, Numbered
  <2> HIDE DEF id
  <2>3. ClicksMeanWhatWasShown'
    BY <1>4, <1>7, <2>2, HearingKeeps DEF ClickInv
  <2> QED
    BY <1>4, <2>3 DEF ClickInv, Numbered
<1>8. CASE platform # "windows"
  <2>1. keys[b][Min(found)].item.id = id
    BY <1>6
  <2> HIDE DEF id
  <2>2. ClicksMeanWhatWasShown'
    BY <1>4, <1>8, <2>1, HearingKeeps DEF ClickInv
  <2> QED
    BY <1>4, <2>2 DEF ClickInv, Numbered
<1> QED
  BY <1>7, <1>8

LEMMA PickingTrayKeeps ==
  ASSUME WindowsInv, SlotsInv, TrayInv, ClickInv, UNCHANGED <<shown, commands>>,
         Len(posted) < MaxPosted, NEW i \in DOMAIN trayRows, PickTrayItem(i)
  PROVE  ClickInv'
<1> DEFINE row == trayRows[i]
<1>1. row.item.id \in STRING /\ row.command \in Nat
  <2>1. trayRows \in Seq(TrayRow)
    BY DEF TrayInv
  <2>2. row \in TrayRow
    BY <2>1
  <2> HIDE DEF row
  <2> QED
    BY <2>2 DEF TrayRow
<1>2. CASE platform = "windows"
  <2>1. PICK p \in PrimaryLive :
          /\ posted' = Append(posted, [to |-> p, from |-> "tray", shown |-> row.item.id,
                                       command |-> row.command])
          /\ UNCHANGED clicked
    BY <1>2 DEF PickTrayItem
  <2> DEFINE message == [to |-> p, from |-> "tray", shown |-> row.item.id, command |-> row.command]
  <2>2. p \in shown /\ p \in Nat
    BY PrimaryIsShown, ShownAreFrames, FramesAreNumbers
  <2> HIDE DEF row
  <2>3. message \in Messages /\ message.to \in shown /\ message.from # "menu"
    BY <1>1, <2>2 DEF Messages
  <2>4. posted' = Append(posted, message) /\ UNCHANGED clicked
    BY <2>1 DEF row
  <2> HIDE DEF message
  <2> QED
    BY <2>3, <2>4, PostingKeeps
<1>3. CASE platform # "windows"
  <2>1. Dispatch(FirstPage, "tray", row.item.id, {row.item.id}) /\ UNCHANGED posted
    BY <1>3 DEF PickTrayItem
  <2>2. ClicksMeanWhatWasShown'
    BY <2>1, HearingKeeps DEF ClickInv
  <2> QED
    BY <2>1, <2>2 DEF ClickInv, Numbered
<1> QED
  BY <1>2, <1>3

LEMMA ArrivingKeeps ==
  ASSUME ClickInv, UNCHANGED <<shown, commands>>, CommandArrives
  PROVE  ClickInv'
<1> DEFINE message == Head(posted)
<1>1. posted # <<>> /\ posted' = Tail(posted) /\ posted \in Seq(Messages) /\ Len(posted) <= MaxPosted
      /\ MaxPosted \in Nat
  BY DesktopAssumption DEF CommandArrives, ClickInv
<1>2. /\ posted' \in Seq(Messages) /\ Len(posted) \in Nat /\ Len(posted') = Len(posted) - 1
      /\ DOMAIN posted' = 1 .. Len(posted) - 1 /\ DOMAIN posted = 1 .. Len(posted)
      /\ \A k \in DOMAIN posted' : posted'[k] = posted[k + 1] /\ k + 1 \in DOMAIN posted
  BY <1>1
<1>3. 1 \in DOMAIN posted /\ message = posted[1]
  BY <1>1
<1>4. message.from = "menu" => Numbered(message.command, message.shown)
  BY <1>3 DEF ClickInv
<1>5. ClicksMeanWhatWasShown'
  <2>1. CASE message.from = "tray"
    <3>1. Dispatch(PrimaryLive, "tray", message.shown, TrayCommandId(message.command))
      BY <2>1 DEF CommandArrives
    <3> HIDE DEF message
    <3> QED
      BY <3>1, HearingKeeps DEF ClickInv
  <2>2. CASE message.from # "tray"
    <3>1. Dispatch({message.to}, "menu", message.shown, CommandId(message.command))
      BY <2>2 DEF CommandArrives
    <3>2. message.from = "menu"
      <4>1. message \in Messages
        BY <1>1, <1>3
      <4> HIDE DEF message
      <4> QED
        BY <2>2, <4>1 DEF Messages
    <3> HIDE DEF message
    <3>3. \A id \in CommandId(message.command) : id = message.shown
      BY <1>4, <3>2 DEF CommandId, Numbered
    <3> QED
      BY <3>1, <3>3, HearingKeeps DEF ClickInv
  <2> QED
    BY <2>1, <2>2
<1>6. \A k \in DOMAIN posted' :
        /\ posted'[k].to \in shown
        /\ posted'[k].from = "menu" => Numbered(posted'[k].command, posted'[k].shown)
  BY <1>2 DEF ClickInv
<1>7. Len(posted') <= MaxPosted
  BY <1>1, <1>2
<1> QED
  BY <1>2, <1>5, <1>6, <1>7 DEF ClickInv, Numbered

-----------------------------------------------------------------------------
(* All of it together.                                                     *)
FurnitureInv == SlotsInv /\ MenuInv /\ ClickInv /\ TrayInv

LEMMA SlotsAtFirst == DesktopInit => SlotsInv
<1> SUFFICES ASSUME DesktopInit PROVE SlotsInv
  OBVIOUS
<1>1. CASE platform = "windows"
  <2>1. slots = <<>>
    BY <1>1 DEF DesktopInit, TableInit
  <2> QED
    BY <2>1 DEF SlotsInv
<1>2. CASE platform # "windows"
  <2>1. /\ frames = Initial /\ live = Lesser(Len(Initial), MaxSlots[platform])
        /\ slots = [i \in 1 .. live |-> i] /\ platform \in Platforms
    BY <1>2 DEF DesktopInit, TableInit
  <2>2. Len(Initial) \in Nat /\ MaxSlots[platform] \in Nat /\ DOMAIN Initial = 1 .. Len(Initial)
    BY <2>1, TableAssumption
  <2>3. live \in Nat /\ live <= Len(Initial)
    BY <2>1, <2>2, LesserIs
  <2> QED
    BY <2>1, <2>2, <2>3 DEF SlotsInv
<1> QED
  BY <1>1, <1>2

LEMMA MenusAtFirst == DesktopInit => MenuInv
<1> SUFFICES ASSUME DesktopInit PROVE MenuInv
  OBVIOUS
<1>1. /\ appMenu = <<>> /\ own = {} /\ bar = [b \in Bars |-> <<>>] /\ keys = [b \in Bars |-> <<>>]
      /\ commands = <<>> /\ MaxCommands \in Nat
  BY MenuAssumption DEF DesktopInit, MenuInit
<1>2. <<>> \in Seq(MenuRows) /\ <<>> \in Seq(STRING) /\ Len(<<>>) = 0 /\ DOMAIN <<>> = {}
  OBVIOUS
<1>3. MenuTypeOK
  <2>1. bar \in [Bars -> Seq(MenuRows)]
    BY <1>1, <1>2
  <2>2. DOMAIN keys = Bars /\ \A b \in Bars : keys[b] = <<>>
    BY <1>1
  <2>3. ASSUME NEW b \in Bars
        PROVE  DOMAIN keys[b] \subseteq Nat /\ keys[b] \in [DOMAIN keys[b] -> MenuRows]
    <3>1. keys[b] = <<>> /\ DOMAIN keys[b] = {}
      BY <1>2, <2>2
    <3> QED
      BY <3>1
  <2> QED
    BY <1>1, <1>2, <2>1, <2>2, <2>3 DEF MenuTypeOK
<1>4. KeysOf(<<>>) = <<>> /\ Items(<<>>) = <<>>
  BY NoKeys DEF KeysOf, Items
<1>5. \A b \in Bars : bar[b] = <<>> /\ keys[b] = KeysOf(bar[b])
  BY <1>1, <1>4
<1>6. shown \subseteq Frames /\ Unborn \subseteq Frames /\ Bars = Frames \cup {0}
  BY InitDesktopInv, ShownAreFrames DEF DesktopInv, Unborn, Bars
<1>7. AppMenuShown
  BY <1>1, <1>4, <1>5, <1>6 DEF AppMenuShown, WithoutOwn
<1> QED
  BY <1>2, <1>3, <1>5, <1>6, <1>7 DEF MenuInv

LEMMA InitFurnitureInv == DesktopInit => FurnitureInv
<1> SUFFICES ASSUME DesktopInit PROVE FurnitureInv
  OBVIOUS
<1>1. ClickInv
  <2>1. posted = <<>> /\ clicked = Quiet /\ MaxPosted \in Nat
    BY DesktopAssumption DEF DesktopInit
  <2>2. <<>> \in Seq(Messages) /\ Len(<<>>) = 0 /\ DOMAIN <<>> = {}
    OBVIOUS
  <2>3. clicked.heard = clicked.shown
    BY <2>1 DEF Quiet
  <2> QED
    BY <2>1, <2>2, <2>3 DEF ClickInv, ClicksMeanWhatWasShown
<1>2. TrayInv
  <2>1. /\ added = FALSE /\ host = 0 /\ icon = FALSE /\ hidden = FALSE /\ trayRows = <<>>
        /\ trayCommands = <<>> /\ MaxTray \in Nat
    BY TrayAssumption DEF DesktopInit, TrayInit
  <2>2. <<>> \in Seq(TrayRow) /\ <<>> \in Seq(TrayEntry) /\ Len(<<>>) = 0 /\ DOMAIN <<>> = {}
    OBVIOUS
  <2>3. Len(frames) \in Nat
    BY InitDesktopInv DEF DesktopInv, WindowsInv
  <2>4. IconOK
    <3>1. host \in 0 .. Len(frames)
      BY <2>1, <2>3
    <3>2. added \in BOOLEAN /\ icon \in BOOLEAN /\ (icon => added)
      BY <2>1, Zenon
    <3> QED
      BY <3>1, <3>2 DEF IconOK
  <2>5. RowsOK
    BY <2>1, <2>2 DEF RowsOK, TrayRowsHonest
  <2> QED
    BY <2>1, <2>4, <2>5, TrayParts
<1> QED
  BY <1>1, <1>2, SlotsAtFirst, MenusAtFirst DEF FurnitureInv

LEMMA FollowKeeps ==
  ASSUME DesktopInv, DesktopInv', FurnitureInv, TableMoves, Follow
  PROVE  FurnitureInv' /\ NumbersKept
<1>1. MenusFollow /\ TrayFollows /\ PostedFollow /\ UNCHANGED clicked
  BY DEF Follow
<1>2. WindowsInv /\ WindowsInv' /\ SlotsInv /\ SlotsInv' /\ MenuInv /\ ClickInv /\ TrayInv
  BY DEF DesktopInv, FurnitureInv, TableMoves
<1>3. NumbersKept
  BY <1>1, <1>2, FollowingKeepsNumbers
<1>4. MenuInv'
  BY <1>1, <1>2, MenusFollowKeep
<1>5. ClickInv'
  BY <1>1, <1>2, <1>3, ClicksFollow
<1>6. TrayInv'
  BY <1>1, <1>2, TrayFollowsKeep
<1> QED
  BY <1>2, <1>3, <1>4, <1>5, <1>6 DEF FurnitureInv

(* What leaves the windows alone.                                          *)
LEMMA FurnitureStays ==
  ASSUME FurnitureInv, UNCHANGED tableVars, MenuInv', NumbersKept, TrayInv', UNCHANGED clickVars
  PROVE  FurnitureInv'
<1>1. UNCHANGED <<frames, slots, shown>>
  BY DEF tableVars
<1> QED
  BY <1>1, ClicksStay DEF FurnitureInv, SlotsInv

LEMMA FurnitureKept ==
  ASSUME DesktopInv, DesktopInv', FurnitureInv, [DesktopNext]_desktopVars
  PROVE  FurnitureInv' /\ NumbersKept
<1>1. WindowsInv /\ WindowsInv' /\ SlotsInv /\ MenuInv /\ ClickInv /\ TrayInv
  BY DEF DesktopInv, FurnitureInv
<1>2. ASSUME UNCHANGED menuVars PROVE NumbersKept
  BY <1>2 DEF menuVars, NumbersKept
<1>3. ASSUME UNCHANGED <<tableVars, menuVars, trayVars, clickVars>>
      PROVE  FurnitureInv' /\ NumbersKept
  BY <1>1, <1>2, <1>3, MenusStay, TrayStays, FurnitureStays
<1>4. ASSUME MenuRecord PROVE FurnitureInv' /\ NumbersKept
  <2>1. UNCHANGED <<tableVars, clickVars, trayVars>>
    BY <1>4 DEF MenuRecord
  <2> QED
    BY <1>1, <1>4, <2>1, MenuRecordKeeps, RecordKeepsNumbers, TrayStays, FurnitureStays
<1>5. ASSUME TrayRecord PROVE FurnitureInv' /\ NumbersKept
  <2>1. UNCHANGED <<tableVars, clickVars, menuVars>>
    BY <1>5 DEF TrayRecord
  <2> QED
    BY <1>1, <1>2, <1>5, <2>1, TrayRecordKeeps, MenusStay, FurnitureStays
<1>6. ASSUME ControlRecord PROVE FurnitureInv' /\ NumbersKept
  BY <1>3, <1>6 DEF ControlRecord
<1>7. ASSUME WindowRecord PROVE FurnitureInv' /\ NumbersKept
  <2>1. PICK label \in Labels : OpenWindow(label) \/ Destroy(FindSlot(label))
    BY <1>7 DEF WindowRecord
  <2>2. TableMoves
    BY <1>1, <2>1, OpenMoves, DestroyMoves
  <2> QED
    BY <1>7, <2>2, FollowKeeps DEF WindowRecord
<1>8. ASSUME UserClicks PROVE FurnitureInv' /\ NumbersKept
  <2>1. UNCHANGED <<tableVars, menuVars, trayVars>> /\ Len(posted) < MaxPosted
    BY <1>8 DEF UserClicks
  <2>2. UNCHANGED <<frames, slots, shown, commands>>
    BY <2>1 DEF tableVars, menuVars
  <2>3. ClickInv'
    BY <1>1, <1>8, <2>1, <2>2, PickingKeeps, PressingKeeps, PickingTrayKeeps DEF UserClicks
  <2> QED
    BY <1>1, <1>2, <2>1, <2>2, <2>3, MenusStay, TrayStays DEF FurnitureInv, SlotsInv
<1>9. ASSUME NEW f \in Frames, UserChangesWindow(f) PROVE FurnitureInv' /\ NumbersKept
  <2>1. CASE Destroy({f}) /\ Follow
    BY <1>1, <2>1, DestroyMoves, FollowKeeps
  <2>2. CASE UNCHANGED <<tableVars, menuVars, clickVars, trayVars>>
    BY <1>3, <2>2
  <2> QED
    BY <1>9, <2>1, <2>2 DEF UserChangesWindow
<1>10. ASSUME MessageArrives PROVE FurnitureInv' /\ NumbersKept
  <2>1. UNCHANGED <<tableVars, menuVars, trayVars>> /\ CommandArrives
    BY <1>10 DEF MessageArrives
  <2>2. UNCHANGED <<frames, slots, shown, commands>>
    BY <2>1 DEF tableVars, menuVars
  <2>3. ClickInv'
    BY <1>1, <2>1, <2>2, ArrivingKeeps
  <2> QED
    BY <1>1, <1>2, <2>1, <2>2, <2>3, MenusStay, TrayStays DEF FurnitureInv, SlotsInv
<1>11. ASSUME WebViewAnswers PROVE FurnitureInv' /\ NumbersKept
  <2>1. TableMoves /\ Follow
    BY <1>1, <1>11, WebViewMoves DEF WebViewAnswers
  <2> QED
    BY <2>1, FollowKeeps
<1>12. ASSUME UNCHANGED desktopVars PROVE FurnitureInv' /\ NumbersKept
  BY <1>3, <1>12 DEF desktopVars
<1>13. ASSUME WindowSystemStep PROVE FurnitureInv' /\ NumbersKept
  BY <1>3, <1>13 DEF WindowSystemStep
<1> QED
  BY <1>4, <1>5, <1>6, <1>7, <1>8, <1>9, <1>10, <1>11, <1>12, <1>13 DEF DesktopNext, ApplyRecord

LEMMA FurnitureInvariant == DesktopSpec => [](DesktopInv /\ FurnitureInv)
<1>1. FurnitureInv /\ DesktopInv /\ DesktopInv' /\ [DesktopNext]_desktopVars => FurnitureInv'
  BY FurnitureKept
<1> QED
  BY <1>1, InitFurnitureInv, DesktopInvariant, PTL DEF DesktopSpec

(* The windows' furniture is as it should be: a message waits for a window *)
(* that is there, no icon is on the screen that the backend has forgotten, *)
(* and the registries keep to their sizes.                                 *)
THEOREM DesktopTypesTheorem == DesktopSpec => []DesktopTypeOK
<1>1. DesktopInv /\ FurnitureInv => DesktopTypeOK
  <2> SUFFICES ASSUME DesktopInv, FurnitureInv PROVE DesktopTypeOK
    OBVIOUS
  <2>1. budget \in Nat /\ budget <= MaxCalls[platform] /\ MaxCalls[platform] \in Nat
    BY CallBound DEF DesktopInv, WindowsInv
  <2> QED
    BY <2>1 DEF DesktopInv, ControlInv, FurnitureInv, MenuInv, ClickInv, TrayInv, DesktopTypeOK
<1> QED
  BY <1>1, FurnitureInvariant, PTL

(* Whatever windows open, close and take menus of their own in between, a  *)
(* window without one shows the application's menu of the moment; on       *)
(* Windows while there are numbers left for it.                            *)
THEOREM AppMenuTheorem == DesktopSpec => []AppMenuShown
<1>1. FurnitureInv => AppMenuShown
  BY DEF FurnitureInv, MenuInv
<1> QED
  BY <1>1, FurnitureInvariant, PTL

(* The shortcuts that work in a window are those of rows that its menu     *)
(* shows, after any number of menus that were replaced; and of those rows  *)
(* the ones that the backend understands work, on Windows when they are    *)
(* enabled and the table of the slot has room for them.                    *)
THEOREM ShortcutsTheorem == DesktopSpec => []ShortcutsMatchMenu
<1>1. FurnitureInv /\ DesktopInv => ShortcutsMatchMenu
  <2> SUFFICES ASSUME FurnitureInv, DesktopInv, NEW f \in (Slotted \cap shown) \cup {0}
               PROVE  /\ \A i \in DOMAIN keys[f] : i \in DOMAIN bar[f] /\ keys[f][i] = bar[f][i]
                      /\ \A i \in Parsed(bar[f]) :
                           \/ i \in DOMAIN keys[f]
                           \/ /\ platform = "windows"
                              /\ \/ ~bar[f][i].item.on
                                 \/ Cardinality({j \in Parsed(bar[f]) : j < i}) >= MaxKeys
    BY DEF ShortcutsMatchMenu
  <2>1. PICK rows \in Seq(MenuRows) : rows = bar[f] /\ keys[f] = KeysOf(rows)
    BY ShownAreFrames DEF FurnitureInv, MenuInv, MenuTypeOK, DesktopInv, Bars
  <2>2. CASE platform # "windows"
    BY <2>1, <2>2 DEF KeysOf, ItemKeys, Parsed
  <2>3. CASE platform = "windows"
    <3> DEFINE candidates == {i \in Parsed(rows) : rows[i].item.on}
    <3> DEFINE before(i) == {h \in candidates : h < i}
    <3>1. keys[f] = [i \in {j \in candidates : Cardinality(before(j)) < MaxKeys} |-> rows[i]]
      BY <2>1, <2>3 DEF KeysOf, TableKeys
    <3>2. candidates \subseteq Parsed(rows) /\ Parsed(rows) \subseteq DOMAIN rows
      BY DEF Parsed
    <3>3. ASSUME NEW i \in Parsed(rows), rows[i].item.on,
                 ~(Cardinality({j \in Parsed(rows) : j < i}) >= MaxKeys)
          PROVE  i \in DOMAIN keys[f]
      <4>1. i \in DOMAIN rows /\ i <= i /\ i \in candidates
        BY <3>2, <3>3
      <4>2. PICK early, late : early = before(i) /\ late = {j \in Parsed(rows) : j < i}
        OBVIOUS
      <4>3. early \subseteq late
        BY <3>2, <4>2
      <4>4. /\ Cardinality(early) \in Nat /\ Cardinality(late) \in Nat
            /\ Cardinality(early) <= Cardinality(late)
        BY <4>1, <4>2, <4>3, FewerOffered
      <4>5. MaxKeys \in Nat /\ ~(Cardinality(late) >= MaxKeys)
        BY <3>3, <4>2, MenuAssumption
      <4>6. Cardinality(early) < MaxKeys
        BY <4>4, <4>5
      <4> HIDE DEF candidates
      <4> QED
        BY <3>1, <4>1, <4>2, <4>6
    <3>4. \A i \in DOMAIN keys[f] : i \in DOMAIN rows /\ keys[f][i] = rows[i]
      <4> HIDE DEF candidates
      <4> QED
        BY <3>1, <3>2
    <3> QED
      BY <2>1, <2>3, <3>3, <3>4
  <2> QED
    BY <2>2, <2>3
<1> QED
  BY <1>1, FurnitureInvariant, DesktopInvariant, PTL

(* The number of a menu item that was handed out means the same item for   *)
(* good: no later menu takes it.                                           *)
THEOREM NumbersTheorem == DesktopSpec => [][NumbersKept]_desktopVars
<1>1. DesktopInv /\ DesktopInv' /\ FurnitureInv /\ [DesktopNext]_desktopVars => NumbersKept
  BY FurnitureKept
<1> QED
  BY <1>1, FurnitureInvariant, PTL DEF DesktopSpec

(* A page hears of the item that was picked or whose shortcut was pressed, *)
(* although the menu may be replaced while the click's message waits.      *)
THEOREM ClicksTheorem == DesktopSpec => []ClicksMeanWhatWasShown
<1>1. FurnitureInv => ClicksMeanWhatWasShown
  BY DEF FurnitureInv, ClickInv
<1> QED
  BY <1>1, FurnitureInvariant, PTL

(* An item of the tray's menu stands for what it shows, and a number of an *)
(* earlier menu for nothing.                                               *)
THEOREM TrayTheorem == DesktopSpec => []TrayRowsHonest
<1>1. FurnitureInv => TrayRowsHonest
  BY DEF FurnitureInv, TrayInv
<1> QED
  BY <1>1, FurnitureInvariant, PTL

-----------------------------------------------------------------------------
(* A window that has a menu of its own: what happens to others, and to the *)
(* application's menu, leaves its bar and its shortcuts as they are, until *)
(* a page gives it another one.                                            *)
OwnMenusStay ==
  \A f \in own \cap own' \cap shown' :
    \/ bar'[f] = bar[f] /\ keys'[f] = keys[f]
    \/ \E label \in Labels, payload \in MenuPayloads :
         f \in FindSlot(label) /\ SetWindowMenu(label, payload)

LEMMA OthersKeepTheirs ==
  ASSUME NEW targets, NEW payload, SetMenus(targets, payload),
         NEW f \in Frames, f \notin targets, f \in shown'
  PROVE  bar'[f] = bar[f] /\ keys'[f] = keys[f]
<1>1. f \in Bars
  BY DEF Bars
<1> QED
  BY <1>1 DEF SetMenus, SetWin32Menus, SetGtkMenus

LEMMA RecordKeepsOwn ==
  ASSUME WindowsInv, SlotsInv, MenuInv, MenuRecord
  PROVE  OwnMenusStay
<1> SUFFICES ASSUME NEW f \in own, f \in own', f \in shown',
                    ~ \E label \in Labels, payload \in MenuPayloads :
                        f \in FindSlot(label) /\ SetWindowMenu(label, payload)
             PROVE  bar'[f] = bar[f] /\ keys'[f] = keys[f]
  BY DEF OwnMenusStay
<1>1. f \in Frames /\ DOMAIN bar = Bars /\ DOMAIN keys = Bars /\ f # 0
  <2>1. own \subseteq Frames
    BY ShownAreFrames DEF MenuInv, MenuTypeOK
  <2>2. PICK m \in Nat : Frames = 1 .. Len(Initial) + m
    BY CallBound DEF WindowsInv
  <2>3. f # 0
    BY <2>1, <2>2, TableAssumption
  <2> QED
    BY <2>1, <2>3 DEF MenuInv, MenuTypeOK
<1>2. ASSUME NEW payload, SetMainMenu(payload) PROVE bar'[f] = bar[f] /\ keys'[f] = keys[f]
  BY <1>1, <1>2 DEF SetMainMenu, Bars
<1>3. ASSUME NEW payload, SetMenus(WithoutOwn, payload) PROVE bar'[f] = bar[f] /\ keys'[f] = keys[f]
  <2>1. f \notin WithoutOwn
    BY DEF WithoutOwn
  <2> QED
    BY <1>1, <1>3, <2>1, OthersKeepTheirs
<1>4. ASSUME UNCHANGED menuVars PROVE bar'[f] = bar[f] /\ keys'[f] = keys[f]
  BY <1>4 DEF menuVars
<1>5. ASSUME NEW label \in Labels, NEW payload \in MenuPayloads, SetWindowMenu(label, payload)
      PROVE  bar'[f] = bar[f] /\ keys'[f] = keys[f]
  <2>1. f \notin FindSlot(label)
    BY <1>5
  <2> QED
    BY <1>1, <1>4, <1>5, <2>1, OthersKeepTheirs DEF SetWindowMenu
<1>6. ASSUME NEW label \in Labels, ClearWindowMenu(label)
      PROVE  bar'[f] = bar[f] /\ keys'[f] = keys[f]
  <2>1. CASE platform = "macos" \/ FindSlot(label) = {}
    BY <1>4, <1>6, <2>1 DEF ClearWindowMenu
  <2>2. CASE ~(platform = "macos" \/ FindSlot(label) = {})
    <3>1. own' = own \ FindSlot(label) /\ SetMenus(FindSlot(label), appMenu)
      BY <1>6, <2>2 DEF ClearWindowMenu
    <3> QED
      BY <1>1, <3>1, OthersKeepTheirs
  <2> QED
    BY <2>1, <2>2
<1> QED
  BY <1>2, <1>3, <1>5, <1>6 DEF MenuRecord, SetAppMenu, ClearAppMenu

LEMMA FollowingKeepsOwn ==
  ASSUME WindowsInv, SlotsInv, MenuInv, MenusFollow
  PROVE  OwnMenusStay
<1> SUFFICES ASSUME NEW f \in own, f \in shown' PROVE bar'[f] = bar[f] /\ keys'[f] = keys[f]
  BY DEF OwnMenusStay
<1> DEFINE targets == {slots'[i] : i \in DOMAIN slots'} \cap (DOMAIN frames' \ DOMAIN frames)
<1>1. f \in Frames /\ f \in DOMAIN frames
  BY ShownAreFrames DEF MenuInv, MenuTypeOK
<1>2. CASE platform = "macos"
  BY <1>2 DEF MenusFollow
<1>3. CASE platform # "macos"
  <2>1. SetMenus(targets, appMenu) /\ f \notin targets
    BY <1>1, <1>3 DEF MenusFollow, NewWindowMenus
  <2> QED
    BY <1>1, <2>1, OthersKeepTheirs
<1> QED
  BY <1>2, <1>3

(* A window keeps the menu of its own, with its shortcuts, through all that*)
(* happens to the application's menu and to other windows.                 *)
THEOREM OwnMenusTheorem == DesktopSpec => [][OwnMenusStay]_desktopVars
<1>1. ASSUME DesktopInv, FurnitureInv, [DesktopNext]_desktopVars PROVE OwnMenusStay
  <2>1. WindowsInv /\ SlotsInv /\ MenuInv
    BY <1>1 DEF DesktopInv, FurnitureInv
  <2>2. ASSUME UNCHANGED menuVars PROVE OwnMenusStay
    BY <2>2 DEF menuVars, OwnMenusStay
  <2>3. CASE MenuRecord
    BY <2>1, <2>3, RecordKeepsOwn
  <2>4. CASE Follow
    BY <2>1, <2>4, FollowingKeepsOwn DEF Follow
  <2> QED
    BY <1>1, <2>2, <2>3, <2>4
       DEF DesktopNext, ApplyRecord, TrayRecord, ControlRecord, WindowRecord, UserClicks,
           UserChangesWindow, WindowSystemStep, MessageArrives, WebViewAnswers, desktopVars
<1> QED
  BY <1>1, FurnitureInvariant, PTL DEF DesktopSpec

==============================================================================
