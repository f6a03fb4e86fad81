-------------------------- MODULE NativeLoop_proofs --------------------------
(***************************************************************************)
(* The native loop for every set of labels, every application, every       *)
(* number of slots and of calls, on each of the platforms: the slots of    *)
(* the backend, the host's session and the windows on the screen agree,    *)
(* and promises take their own answers.                                    *)
(***************************************************************************)
EXTENDS NativeLoop, Lists_proofs, SequenceTheorems

(* The largest number of calls on any of the platforms.                    *)
MostCalls == Max({MaxCalls[p] : p \in Platforms})

LEMMA CallBound ==
  ASSUME NEW p \in Platforms
  PROVE  MaxCalls[p] \in Nat /\ MostCalls \in Nat /\ MaxCalls[p] <= MostCalls
<1> DEFINE S == {MaxCalls[q] : q \in Platforms}
<1>1. S \subseteq Nat /\ MaxCalls[p] \in S
  BY TableAssumption
<1>2. \E x \in S : \A y \in S : x >= y
  <2>1. \A q \in Platforms : MaxCalls[q] \in Nat /\ q \in {"linux", "macos", "windows"}
    BY TableAssumption
  <2>2. \E q \in Platforms : \A r \in Platforms : MaxCalls[q] >= MaxCalls[r]
    BY <2>1
  <2> QED
    BY <2>2
<1> HIDE DEF S
<1>3. Max(S) \in S /\ \A y \in S : Max(S) >= y
  BY <1>2 DEF Max
<1>4. MostCalls = Max(S)
  BY DEF MostCalls, S
<1> QED
  BY <1>1, <1>3, <1>4

LEMMA Counting ==
  ASSUME NEW n \in Nat
  PROVE  IsFiniteSet(1 .. n) /\ Cardinality(1 .. n) = n
BY FS_Interval

-----------------------------------------------------------------------------
(* The windows.                                                            *)
TableTypes ==
  /\ platform \in Platforms
  /\ frames \in Seq(Labels)
  /\ shown \subseteq DOMAIN frames
  /\ slots \in Seq(DOMAIN frames)
  /\ Len(slots) <= MaxSlots[platform]
  /\ closing \subseteq shown
  /\ running \in BOOLEAN
  /\ view \in [Frames -> {"none", "pending", "ready", "failed"}]

OneSlotPerLabel ==
  \A i, j \in DOMAIN slots : frames[slots[i]] = frames[slots[j]] => i = j

SlotsOfPlatform ==
  IF platform = "windows" THEN Slotted = DOMAIN frames ELSE Slotted \subseteq shown

LiveCounted == live = Cardinality(Slotted \cap shown)

RunsWithWindows == frames # <<>> => running = (live > 0)

NoneLeftOut == SlotsSuffice => shown \subseteq Slotted

TableInv ==
  /\ TableTypes
  /\ OneSlotPerLabel
  /\ SlotsOfPlatform
  /\ LiveCounted
  /\ RunsWithWindows
  /\ NoneLeftOut

(* The windows in slots are finitely many.                                 *)
LEMMA SlotsFinite ==
  ASSUME TableTypes
  PROVE  /\ IsFiniteSet(Slotted) /\ IsFiniteSet(shown) /\ Slotted \subseteq DOMAIN frames
         /\ DOMAIN frames = 1 .. Len(frames) /\ Len(frames) \in Nat
         /\ DOMAIN slots = 1 .. Len(slots) /\ Len(slots) \in Nat
         /\ Slotted = Elements(slots)
<1>1. DOMAIN frames = 1 .. Len(frames) /\ Len(frames) \in Nat
  BY DEF TableTypes
<1>2. DOMAIN slots = 1 .. Len(slots) /\ Len(slots) \in Nat
  BY DEF TableTypes
<1>3. Slotted \subseteq DOMAIN frames
  <2>1. \A i \in DOMAIN slots : slots[i] \in DOMAIN frames
    BY <1>2, ElementOfSeq DEF TableTypes
  <2> QED
    BY <2>1 DEF Slotted
<1>4. IsFiniteSet(DOMAIN frames)
  BY <1>1, FS_Interval
<1>5. IsFiniteSet(Slotted) /\ IsFiniteSet(shown)
  BY <1>3, <1>4, FS_Subset DEF TableTypes
<1> QED
  BY <1>1, <1>2, <1>3, <1>5 DEF Slotted, Elements

(* What is found for a label is one frame at most.                         *)
LEMMA FoundIsOne ==
  ASSUME TableInv, NEW label
  PROVE  /\ \A f, g \in FindSlot(label) : f = g
         /\ FindSlot(label) \subseteq Slotted
         /\ \A f \in Slotted : frames[f] = label => FindSlot(label) = {f}
<1>1. \A f, g \in Slotted : frames[f] = frames[g] => f = g
  BY DEF TableInv, OneSlotPerLabel, Slotted
<1>2. slots # <<>> => slots[1] \in Slotted
  <2>1. slots # <<>> => 1 \in DOMAIN slots
    BY DEF TableInv, TableTypes
  <2> QED
    BY <2>1 DEF Slotted
<1> QED
  BY <1>1, <1>2 DEF FindSlot, ExactSlot

(* What one record finds when nothing is destroyed yet.                    *)
LEMMA FirstFound ==
  ASSUME TableInv, NEW label
  PROVE  FoundAfter(label, {}) = FindSlot(label) \cap shown
<1>0. slots \in Seq(DOMAIN frames)
  BY DEF TableInv, TableTypes
<1>1. PICK first : first = {slots[i] : i \in {j \in DOMAIN slots : \A k \in DOMAIN slots : j <= k}}
  OBVIOUS
<1>2. FoundAfter(label, {})
        = (IF ExactSlot(label) # {} THEN ExactSlot(label) ELSE first) \cap shown
  BY <1>1 DEF FoundAfter
<1>3. CASE slots = <<>>
  <2>1. first = {}
    BY <1>1, <1>3
  <2> QED
    BY <1>2, <1>3, <2>1 DEF FindSlot
<1>4. CASE slots # <<>>
  <2>1. DOMAIN slots = 1 .. Len(slots) /\ Len(slots) \in Nat \ {0}
    BY <1>0, <1>4
  <2>2. \A j \in DOMAIN slots : (\A k \in DOMAIN slots : j <= k) <=> j = 1
    <3>1. PICK n \in Nat \ {0} : DOMAIN slots = 1 .. n
      BY <2>1
    <3>2. \A j \in 1 .. n : (\A k \in 1 .. n : j <= k) => j <= 1
      OBVIOUS
    <3> QED
      BY <3>1, <3>2
  <2>3. first = {slots[1]}
    BY <1>1, <2>1, <2>2
  <2> QED
    BY <1>2, <1>4, <2>3 DEF FindSlot
<1> QED
  BY <1>3, <1>4

(* On Windows the second record finds the same slot without its window.    *)
LEMMA WindowsFindsNoOther ==
  ASSUME platform = "windows", NEW label, NEW gone, FoundAfter(label, {}) \subseteq gone
  PROVE  FoundAfter(label, gone) = {}
BY DEF FoundAfter

(* Both records together close what the first of them finds.               *)
LEMMA RecordsCloseOnce ==
  ASSUME NEW label
  PROVE  ClosedBy(label) = FoundAfter(label, {})
<1>1. PICK found : found = FoundAfter(label, {})
  OBVIOUS
<1>2. PICK none : none = [gone |-> {}, closed |-> FALSE]
  OBVIOUS
<1>3. none.gone = {} /\ none.closed = FALSE
  BY <1>2
<1>4. ASSUME NEW kind
      PROVE  CloseRecord(none, label, kind).gone = found
  <2>1. CASE found = {}
    BY <1>1, <1>3, <2>1 DEF CloseRecord
  <2>2. CASE found # {}
    <3>1. CloseRecord(none, label, kind)
            = [gone |-> {} \cup found, closed |-> FALSE \/ Flagged(kind)]
      BY <1>1, <1>3, <2>2 DEF CloseRecord
    <3> QED
      BY <3>1
  <2> QED
    BY <2>1, <2>2
<1>5. CASE label \notin session
  <2>1. ClosedBy(label) = CloseRecord(none, label, "window-control").gone
    BY <1>2, <1>5 DEF ClosedBy
  <2> QED
    BY <1>1, <1>4, <2>1
<1>6. CASE label \in session
  <2>1. PICK followup : followup = CloseRecord(none, label, "close-window")
    OBVIOUS
  <2>2. ClosedBy(label) = CloseRecord(followup, label, "window-control").gone
    BY <1>2, <1>6, <2>1 DEF ClosedBy
  <2>3. CASE found = {}
    <3>1. followup = none
      BY <1>1, <1>3, <2>1, <2>3 DEF CloseRecord
    <3> QED
      BY <1>1, <1>4, <2>2, <3>1
  <2>4. CASE found # {}
    <3>1. followup = [gone |-> {} \cup found, closed |-> FALSE \/ Flagged("close-window")]
      BY <1>1, <1>3, <2>1, <2>4 DEF CloseRecord
    <3>2. followup.gone = found /\ followup.closed = TRUE
      BY <3>1 DEF Flagged
    <3>3. CASE platform = "windows"
      <4>1. FoundAfter(label, followup.gone) = {}
        BY <1>1, <3>2, <3>3, WindowsFindsNoOther
      <4> QED
        BY <1>1, <2>2, <3>2, <4>1 DEF CloseRecord
    <3>4. CASE platform # "windows"
      <4>1. Flagged("window-control")
        BY <3>4 DEF Flagged
      <4> QED
        BY <1>1, <2>2, <3>2, <4>1 DEF CloseRecord
    <3> QED
      BY <3>3, <3>4
  <2> QED
    BY <2>3, <2>4
<1> QED
  BY <1>5, <1>6

(* What a window.close destroys.                                           *)
LEMMA ClosedIsOne ==
  ASSUME TableInv, NEW label
  PROVE  /\ ClosedBy(label) \subseteq shown
         /\ \A f, g \in ClosedBy(label) : f = g
         /\ ExactSlot(label) # {} => ClosedBy(label) = ExactSlot(label) \cap shown
         /\ \A f \in Slotted \cap shown : frames[f] = label => f \in ClosedBy(label)
<1>1. ClosedBy(label) = FindSlot(label) \cap shown
  BY RecordsCloseOnce, FirstFound
<1>2. ExactSlot(label) # {} => FindSlot(label) = ExactSlot(label)
  BY DEF FindSlot
<1> QED
  BY <1>1, <1>2, FoundIsOne

(* The windows of the application's configuration have different labels.   *)
LEMMA InitialDistinct == \A i, j \in DOMAIN Initial : Initial[i] = Initial[j] => i = j
<1>1. Initial \in Seq(Labels) /\ Len(Initial) \in Nat /\ DOMAIN Initial = 1 .. Len(Initial)
  BY TableAssumption
<1>2. /\ IsFiniteSet(DOMAIN Initial) /\ Cardinality(DOMAIN Initial) = Len(Initial)
  BY <1>1, Counting
<1>3. Initial \in Surjection(DOMAIN Initial, InitialLabels)
  BY <1>1 DEF Surjection, InitialLabels
<1>4. Initial \in Injection(DOMAIN Initial, InitialLabels)
  BY <1>2, <1>3, FS_SurjSameCardinalityImpliesInj, TableAssumption
<1> QED
  BY <1>4 DEF Injection, IsInjective

(* The table the loop starts with.                                         *)
LEMMA InitTableInv == TableInit => TableInv
<1> SUFFICES ASSUME TableInit PROVE TableInv
  OBVIOUS
<1>0. /\ platform \in Platforms /\ Initial \in Seq(Labels) /\ Len(Initial) \in Nat /\ Len(Initial) > 0
      /\ MaxSlots[platform] \in Nat \ {0} /\ DOMAIN Initial = 1 .. Len(Initial)
  BY TableAssumption DEF TableInit
<1>1. CASE platform = "windows"
  <2>1. frames = <<>> /\ slots = <<>> /\ shown = {} /\ live = 0 /\ closing = {} /\ running = TRUE
        /\ view = [f \in Frames |-> "none"]
    BY <1>1 DEF TableInit
  <2>2. Slotted = {}
    BY <2>1 DEF Slotted
  <2>3. LiveCounted
    BY <2>1, <2>2, FS_EmptySet DEF LiveCounted
  <2>4. TableTypes
    BY <1>0, <2>1 DEF TableTypes
  <2> QED
    BY <1>1, <2>1, <2>2, <2>3, <2>4
       DEF TableInv, OneSlotPerLabel, SlotsOfPlatform, RunsWithWindows, NoneLeftOut
<1>2. CASE platform # "windows"
  <2>1. /\ frames = Initial /\ shown = 1 .. Len(Initial) /\ closing = {} /\ running = TRUE
        /\ live = Lesser(Len(Initial), MaxSlots[platform])
        /\ slots = [i \in 1 .. live |-> i]
        /\ view = [f \in Frames |-> IF f \in shown THEN "ready" ELSE "none"]
    BY <1>0, <1>2 DEF TableInit
  <2>2. live \in Nat /\ live > 0 /\ live <= Len(Initial) /\ live <= MaxSlots[platform]
        /\ (Len(Initial) <= MaxSlots[platform] => live = Len(Initial))
    BY <1>0, <2>1 DEF Lesser
  <2>3. Slotted = 1 .. live /\ Len(slots) = live /\ slots \in Seq(DOMAIN frames)
    BY <1>0, <2>1, <2>2 DEF Slotted
  <2>4. LiveCounted
    <3>1. Slotted \cap shown = 1 .. live
      BY <2>1, <2>2, <2>3
    <3>2. live \in Int /\ 1 \in Int /\ live >= 1
      BY <2>2
    <3> HIDE DEF Lesser
    <3>3. Cardinality(1 .. live) = live
      BY <3>2, FS_Interval
    <3> QED
      BY <3>1, <3>3 DEF LiveCounted
  <2>5. OneSlotPerLabel
    <3>1. \A i, j \in DOMAIN Initial : Initial[i] = Initial[j] => i = j
      BY InitialDistinct
    <3> QED
      BY <1>0, <2>1, <2>2, <3>1 DEF OneSlotPerLabel
  <2>6. NoneLeftOut
    <3>1. SlotsSuffice => Len(Initial) <= MaxSlots[platform]
      <4>1. InitialLabels \subseteq Labels
        BY <1>0, ElementOfSeq DEF InitialLabels
      <4>2. Cardinality(InitialLabels) <= Cardinality(Labels) /\ Cardinality(Labels) \in Nat
        BY <4>1, FS_Subset, FS_CardinalityType, TableAssumption
      <4> QED
        BY <1>0, <1>2, <2>1, <4>2, TableAssumption DEF SlotsSuffice
    <3> QED
      BY <1>0, <2>1, <2>2, <2>3, <3>1 DEF NoneLeftOut
  <2>7. TableTypes
    BY <1>0, <2>1, <2>2, <2>3 DEF TableTypes
  <2>8. SlotsOfPlatform
    BY <1>2, <2>1, <2>2, <2>3 DEF SlotsOfPlatform
  <2>9. RunsWithWindows
    BY <2>1, <2>2 DEF RunsWithWindows
  <2> QED
    BY <2>4, <2>5, <2>6, <2>7, <2>8, <2>9 DEF TableInv
<1> QED
  BY <1>1, <1>2

(* A window that goes takes its slot with it, or on Windows its handle.    *)
LEMMA DestroyEffect ==
  ASSUME TableInv, NEW found, Destroy(found)
  PROVE  /\ TableInv'
         /\ shown' = shown \ found
         /\ (Slotted \cap shown)' = (Slotted \cap shown) \ found
         /\ UNCHANGED <<platform, frames, view>>
<1> DEFINE gone == found \cap shown
           there == Slotted \cap shown
<1>0. TableTypes /\ OneSlotPerLabel /\ SlotsOfPlatform /\ LiveCounted /\ RunsWithWindows /\ NoneLeftOut
  BY DEF TableInv
<1>1. /\ shown' = shown \ gone /\ closing' = closing \ gone
      /\ running' = IF gone = {} THEN running ELSE live' > 0
      /\ UNCHANGED <<platform, frames, view>>
  BY DEF Destroy
<1>2. /\ IsFiniteSet(there) /\ IsFiniteSet(gone) /\ Cardinality(there) \in Nat
      /\ live = Cardinality(there)
  <2>1. IsFiniteSet(Slotted) /\ IsFiniteSet(shown)
    BY <1>0, SlotsFinite
  <2> QED
    BY <1>0, <2>1, FS_Subset, FS_CardinalityType DEF LiveCounted
<1>3. Cardinality(there \ gone) = Cardinality(there) - Cardinality(there \cap gone)
      /\ Cardinality(there \ gone) \in Nat
  <2> HIDE DEF there, gone
  <2> QED
    BY <1>2, FS_Difference, FS_CardinalityType
<1>4. /\ slots' \in Seq(DOMAIN frames) /\ Len(slots') <= Len(slots) /\ Len(slots') \in Nat
      /\ Slotted' \subseteq Slotted
      /\ Slotted' \cap shown' = there \ gone
      /\ live' = live - Cardinality(there \cap gone)
      /\ platform = "windows" => Slotted' = Slotted
      /\ platform # "windows" => Slotted' = Slotted \ gone
      /\ \A i, j \in DOMAIN slots' : i < j =>
           \E p, q \in DOMAIN slots : p < q /\ slots[p] = slots'[i] /\ slots[q] = slots'[j]
  <2>1. CASE platform = "windows"
    <3>1. slots' = slots /\ live' = live - Cardinality(gone)
      BY <2>1 DEF Destroy, LoseHandle
    <3>2. Slotted' = Slotted /\ Slotted = DOMAIN frames /\ shown \subseteq DOMAIN frames
      BY <1>0, <2>1, <3>1 DEF Slotted, SlotsOfPlatform, TableTypes
    <3>3. there \cap gone = gone
      BY <3>2
    <3> HIDE DEF gone
    <3>4. Slotted' \cap shown' = there \ gone
      BY <1>1, <3>2
    <3>5. slots' \in Seq(DOMAIN frames) /\ Len(slots') \in Nat /\ Len(slots') <= Len(slots)
      BY <1>0, <3>1 DEF TableTypes
    <3>6. live' = live - Cardinality(there \cap gone)
      BY <3>1, <3>3
    <3> QED
      BY <2>1, <3>1, <3>2, <3>4, <3>5, <3>6
  <2>2. CASE platform # "windows"
    <3>1. Without(slots, gone, slots') /\ live' = live - Cardinality(gone \cap Slotted)
      BY <2>2 DEF Destroy, RemoveSlot
    <3>2. slots \in Seq(DOMAIN frames) /\ Len(slots) \in Nat
      BY <1>0 DEF TableTypes
    <3> HIDE DEF gone
    <3>3. /\ slots' \in Seq(DOMAIN frames \ gone) /\ Survivors(slots, gone, slots')
          /\ Len(slots') <= Len(slots)
      BY <3>1, <3>2, WithoutKeepsOrder, WithoutShrinks
    <3>4. slots' \in Seq(DOMAIN frames) /\ Len(slots') \in Nat
      BY <3>3
    <3>5. Slotted' = Slotted \ gone
      BY <3>3 DEF Slotted, Survivors, Elements
    <3>6. there \cap gone = gone \cap Slotted
      BY <1>0, <2>2 DEF SlotsOfPlatform
    <3>7. Slotted' \cap shown' = there \ gone
      BY <1>1, <3>5
    <3> QED
      BY <2>2, <3>1, <3>3, <3>4, <3>5, <3>6, <3>7 DEF Survivors
  <2> QED
    BY <2>1, <2>2
<1>5. LiveCounted' /\ live' \in Nat
  <2>1. live' = Cardinality(there \ gone)
    BY <1>2, <1>3, <1>4
  <2> QED
    BY <1>3, <1>4, <2>1 DEF LiveCounted
<1>6. RunsWithWindows'
  <2>1. CASE gone = {}
    <3>1. there \ gone = there
      BY <2>1
    <3>2. live' = live
      BY <1>2, <1>4, <1>5, <3>1 DEF LiveCounted
    <3> QED
      BY <1>0, <1>1, <2>1, <3>2 DEF RunsWithWindows
  <2>2. CASE gone # {}
    BY <1>1, <2>2 DEF RunsWithWindows
  <2> QED
    BY <2>1, <2>2
<1>7. OneSlotPerLabel'
  <2>1. ASSUME NEW i \in DOMAIN slots', NEW j \in DOMAIN slots', i < j,
               frames'[slots'[i]] = frames'[slots'[j]]
        PROVE  FALSE
    <3>1. PICK p, q \in DOMAIN slots : p < q /\ slots[p] = slots'[i] /\ slots[q] = slots'[j]
      BY <1>4, <2>1
    <3>2. p = q
      BY <1>0, <1>1, <2>1, <3>1 DEF OneSlotPerLabel
    <3>3. p \in Nat
      BY <1>0, <3>1 DEF TableTypes
    <3> QED
      BY <3>1, <3>2, <3>3
  <2>2. DOMAIN slots' \subseteq Nat
    BY <1>4
  <2>3. \A i, j \in DOMAIN slots' : i < j \/ j < i \/ i = j
    BY <2>2
  <2> QED
    BY <2>1, <2>3 DEF OneSlotPerLabel
<1>8. SlotsOfPlatform'
  BY <1>0, <1>1, <1>4 DEF SlotsOfPlatform
<1>9. NoneLeftOut'
  <2>1. SlotsSuffice' => SlotsSuffice
    BY <1>1 DEF SlotsSuffice
  <2> QED
    BY <1>0, <1>1, <1>4, <2>1 DEF NoneLeftOut
<1>10. TableTypes'
  <2>1. MaxSlots[platform] \in Nat
    BY <1>0, TableAssumption DEF TableTypes
  <2>2. Len(slots') <= MaxSlots[platform]
    <3>1. Len(slots) \in Nat /\ Len(slots) <= MaxSlots[platform]
      BY <1>0 DEF TableTypes
    <3> QED
      BY <1>4, <2>1, <3>1
  <2>3. running' \in BOOLEAN
    <3>1. running \in BOOLEAN
      BY <1>0 DEF TableTypes
    <3>2. (live' > 0) \in BOOLEAN
      OBVIOUS
    <3> HIDE DEF gone
    <3> QED
      BY <1>1, <3>1, <3>2, Zenon
  <2>4. shown' \subseteq DOMAIN frames /\ closing' \subseteq shown'
    BY <1>0, <1>1 DEF TableTypes
  <2> QED
    BY <1>0, <1>1, <1>4, <2>2, <2>3, <2>4 DEF TableTypes
<1> QED
  BY <1>1, <1>4, <1>5, <1>6, <1>7, <1>8, <1>9, <1>10 DEF TableInv

(* Slots hold different frames of different labels.                        *)
LEMMA SlotsAreFew ==
  ASSUME TableInv, NEW label \in Labels, ExactSlot(label) = {}
  PROVE  Len(slots) <= Len(frames) /\ Len(slots) < Cardinality(Labels)
<1> DEFINE D == 1 .. Len(slots)
<1>0. TableTypes /\ OneSlotPerLabel
  BY DEF TableInv
<1>1. /\ DOMAIN frames = 1 .. Len(frames) /\ Len(frames) \in Nat
      /\ DOMAIN slots = D /\ Len(slots) \in Nat
      /\ \A i \in D : slots[i] \in DOMAIN frames
  <2>1. DOMAIN slots = D
    BY <1>0, SlotsFinite
  <2>2. \A i \in D : slots[i] \in DOMAIN frames
    BY <1>0, <2>1, ElementOfSeq DEF TableTypes
  <2> QED
    BY <1>0, <2>1, <2>2, SlotsFinite
<1>2. IsFiniteSet(D) /\ Cardinality(D) = Len(slots)
  BY <1>1, Counting
<1>3. \A i, j \in D : frames[slots[i]] = frames[slots[j]] => i = j
  BY <1>0, <1>1 DEF OneSlotPerLabel
<1>4. \A i \in D : frames[slots[i]] \in Labels \ {label}
  <2>1. \A f \in DOMAIN frames : frames[f] \in Labels
    BY <1>0, <1>1, ElementOfSeq DEF TableTypes
  <2>2. \A i \in D : slots[i] \in Slotted
    BY <1>1 DEF Slotted
  <2>3. \A f \in Slotted : frames[f] # label
    BY DEF ExactSlot
  <2> QED
    BY <1>1, <2>1, <2>2, <2>3
<1>5. IsFiniteSet(DOMAIN frames) /\ Cardinality(DOMAIN frames) = Len(frames)
  BY <1>1, Counting
<1>6. /\ IsFiniteSet(Labels \ {label}) /\ Cardinality(Labels \ {label}) = Cardinality(Labels) - 1
      /\ Cardinality(Labels) \in Nat
  BY FS_RemoveElement, FS_CardinalityType, TableAssumption
<1> HIDE DEF D
<1>7. Len(slots) <= Len(frames)
  <2> DEFINE F == [i \in D |-> slots[i]]
  <2>1. F \in [D -> DOMAIN frames] /\ \A i, j \in D : F[i] = F[j] => i = j
    BY <1>1, <1>3
  <2> HIDE DEF F
  <2>2. ~(Cardinality(DOMAIN frames) < Cardinality(D))
    BY <1>2, <1>5, <2>1, FS_PigeonHole
  <2> QED
    BY <1>1, <1>2, <1>5, <2>2
<1>8. Len(slots) <= Cardinality(Labels) - 1
  <2> DEFINE F == [i \in D |-> frames[slots[i]]]
  <2>1. F \in [D -> Labels \ {label}] /\ \A i, j \in D : F[i] = F[j] => i = j
    BY <1>3, <1>4
  <2> HIDE DEF F
  <2>2. ~(Cardinality(Labels \ {label}) < Cardinality(D))
    BY <1>2, <1>6, <2>1, FS_PigeonHole
  <2> QED
    BY <1>1, <1>2, <1>6, <2>2
<1> QED
  BY <1>1, <1>6, <1>7, <1>8

(* The invariant says nothing of what is not in the table.                 *)
LEMMA TableStays == TableInv /\ UNCHANGED tableVars => TableInv'
<1> SUFFICES ASSUME TableInv, UNCHANGED tableVars PROVE TableInv'
  OBVIOUS
<1>1. UNCHANGED <<platform, frames, shown, slots, live, view, closing, running>>
  BY DEF tableVars
<1>2. Slotted' = Slotted /\ (SlotsSuffice' <=> SlotsSuffice)
  BY <1>1 DEF Slotted, SlotsSuffice
<1>3. TableTypes' /\ OneSlotPerLabel'
  BY <1>1 DEF TableInv, TableTypes, OneSlotPerLabel
<1>4. SlotsOfPlatform' /\ LiveCounted' /\ RunsWithWindows' /\ NoneLeftOut'
  BY <1>1, <1>2 DEF TableInv, SlotsOfPlatform, LiveCounted, RunsWithWindows, NoneLeftOut
<1> QED
  BY <1>3, <1>4 DEF TableInv

(* Opening a window adds a frame of the label at most, and no other.       *)
Opened(label) ==
  \/ UNCHANGED tableVars
  \/ /\ frames' = Append(frames, label)
     /\ \/ UNCHANGED shown
        \/ shown' = shown \cup {Len(frames) + 1}
     /\ \/ UNCHANGED slots
        \/ slots' = Append(slots, Len(frames) + 1)
     /\ UNCHANGED <<platform, closing, running>>

LEMMA OpenEffect ==
  ASSUME TableInv, NEW label \in Labels, frames # <<>>, running, OpenWindow(label)
  PROVE  TableInv' /\ Opened(label)
<1> DEFINE new == Len(frames) + 1
<1>0. TableTypes /\ OneSlotPerLabel /\ SlotsOfPlatform /\ LiveCounted /\ RunsWithWindows /\ NoneLeftOut
  BY DEF TableInv
<1>1. CASE UNCHANGED tableVars
  BY <1>1, TableStays DEF Opened
<1>2. CASE /\ ExactSlot(label) = {}
           /\ frames' = Append(frames, label)
           /\ UNCHANGED <<platform, closing, running>>
           /\ view' \in {view, [view EXCEPT ![new] = "ready"], [view EXCEPT ![new] = "pending"]}
           /\ \/ /\ slots' = Append(slots, new) /\ Len(slots) < MaxSlots[platform]
                 /\ \/ shown' = shown \cup {new} /\ live' = live + 1
                    \/ UNCHANGED <<shown, live>> /\ platform = "windows"
              \/ /\ UNCHANGED <<slots, live>> /\ Len(slots) = MaxSlots[platform]
                 /\ shown' = shown \cup {new} /\ platform # "windows"
  <2>1. /\ DOMAIN frames = 1 .. Len(frames) /\ Len(frames) \in Nat
        /\ frames' \in Seq(Labels) /\ Len(frames') = Len(frames) + 1
        /\ DOMAIN frames' = DOMAIN frames \cup {new} /\ new \notin DOMAIN frames
        /\ \A f \in DOMAIN frames : frames'[f] = frames[f]
        /\ frames'[new] = label
    BY <1>0, <1>2 DEF TableTypes
  <2>2. Slotted \subseteq DOMAIN frames /\ IsFiniteSet(Slotted) /\ shown \subseteq DOMAIN frames
    BY <1>0, SlotsFinite DEF TableTypes
  <2>3. live \in Nat /\ live > 0 /\ IsFiniteSet(Slotted \cap shown)
    <3>1. IsFiniteSet(Slotted \cap shown)
      BY <2>2, FS_Subset
    <3>2. live \in Nat
      BY <1>0, <3>1, FS_CardinalityType DEF LiveCounted
    <3> QED
      BY <1>0, <3>1, <3>2 DEF RunsWithWindows
  <2>4. view' \in [Frames -> {"none", "pending", "ready", "failed"}]
    <3>1. view \in [Frames -> {"none", "pending", "ready", "failed"}]
      BY <1>0 DEF TableTypes
    <3> HIDE DEF new
    <3> QED
      BY <1>2, <3>1
  <2>5. MaxSlots[platform] \in Nat /\ Len(slots) \in Nat /\ slots \in Seq(DOMAIN frames)
        /\ DOMAIN slots = 1 .. Len(slots)
    BY <1>0, TableAssumption DEF TableTypes
  <2>6. CASE slots' = Append(slots, new) /\ Len(slots) < MaxSlots[platform]
             /\ \/ shown' = shown \cup {new} /\ live' = live + 1
                \/ UNCHANGED <<shown, live>> /\ platform = "windows"
    <3>1. /\ slots' \in Seq(DOMAIN frames') /\ Len(slots') = Len(slots) + 1
          /\ DOMAIN slots' = 1 .. Len(slots) + 1 /\ slots'[Len(slots) + 1] = new
          /\ \A i \in DOMAIN slots : slots'[i] = slots[i]
      <4>1. slots \in Seq(DOMAIN frames') /\ new \in DOMAIN frames'
        BY <2>1, <2>5
      <4> HIDE DEF new
      <4> QED
        BY <2>5, <2>6, <4>1
    <3>2. Slotted' = Slotted \cup {new}
      BY <2>5, <3>1 DEF Slotted
    <3>3. LiveCounted'
      <4>1. CASE shown' = shown \cup {new} /\ live' = live + 1
        <5>1. (Slotted \cap shown)' = (Slotted \cap shown) \cup {new} /\ new \notin Slotted \cap shown
          BY <2>1, <2>2, <3>2, <4>1
        <5> HIDE DEF new
        <5> QED
          BY <1>0, <2>3, <4>1, <5>1, FS_AddElement DEF LiveCounted
      <4>2. CASE UNCHANGED <<shown, live>>
        <5>1. (Slotted \cap shown)' = Slotted \cap shown
          BY <2>1, <2>2, <3>2, <4>2
        <5> QED
          BY <1>0, <4>2, <5>1 DEF LiveCounted
      <4> QED
        BY <2>6, <4>1, <4>2
    <3>4. OneSlotPerLabel'
      <4>1. \A i \in DOMAIN slots : slots[i] \in Slotted /\ frames'[slots'[i]] = frames[slots[i]]
                                    /\ frames[slots[i]] # label
        BY <1>2, <2>1, <2>2, <3>1 DEF Slotted, ExactSlot
      <4>2. DOMAIN slots' = DOMAIN slots \cup {Len(slots) + 1}
        BY <2>5, <3>1
      <4>3. frames'[slots'[Len(slots) + 1]] = label
        BY <2>1, <3>1
      <4> HIDE DEF new
      <4> QED
        BY <1>0, <4>1, <4>2, <4>3 DEF OneSlotPerLabel
    <3>5. TableTypes'
      <4>1. Len(slots') <= MaxSlots[platform]
        BY <2>5, <2>6, <3>1
      <4>2. shown' \subseteq DOMAIN frames' /\ closing' \subseteq shown'
        BY <1>0, <1>2, <2>1, <2>6 DEF TableTypes
      <4> HIDE DEF new
      <4> QED
        BY <1>0, <1>2, <2>1, <2>4, <3>1, <4>1, <4>2 DEF TableTypes
    <3>6. SlotsOfPlatform'
      BY <1>0, <1>2, <2>1, <2>6, <3>2 DEF SlotsOfPlatform
    <3>7. RunsWithWindows'
      <4>1. live' > 0 /\ running' = running
        BY <1>2, <2>3, <2>6
      <4>2. running = TRUE
        BY <1>0 DEF TableTypes
      <4> QED
        BY <4>1, <4>2 DEF RunsWithWindows
    <3>8. NoneLeftOut'
      <4>1. SlotsSuffice' => SlotsSuffice
        BY <1>2, <2>1, <2>5 DEF SlotsSuffice
      <4> QED
        BY <1>0, <2>6, <3>2, <4>1 DEF NoneLeftOut
    <3> QED
      BY <1>2, <2>6, <3>3, <3>4, <3>5, <3>6, <3>7, <3>8 DEF TableInv, Opened
  <2>7. CASE UNCHANGED <<slots, live>> /\ Len(slots) = MaxSlots[platform]
             /\ shown' = shown \cup {new} /\ platform # "windows"
    <3>1. Slotted' = Slotted
      BY <2>7 DEF Slotted
    <3>2. (Slotted \cap shown)' = Slotted \cap shown
      BY <2>1, <2>2, <2>7, <3>1
    <3>3. LiveCounted'
      BY <1>0, <2>7, <3>2 DEF LiveCounted
    <3>4. OneSlotPerLabel'
      <4>1. \A i \in DOMAIN slots : frames'[slots[i]] = frames[slots[i]]
        BY <2>1, <2>2 DEF Slotted
      <4> QED
        BY <1>0, <2>7, <4>1 DEF OneSlotPerLabel
    <3>5. TableTypes'
      <4>1. slots' \in Seq(DOMAIN frames') /\ Len(slots') <= MaxSlots[platform]
        BY <1>0, <2>1, <2>5, <2>7 DEF TableTypes
      <4>2. shown' \subseteq DOMAIN frames' /\ closing' \subseteq shown'
        BY <1>0, <1>2, <2>1, <2>7 DEF TableTypes
      <4> HIDE DEF new
      <4> QED
        BY <1>0, <1>2, <2>1, <2>4, <4>1, <4>2 DEF TableTypes
    <3>6. SlotsOfPlatform'
      BY <1>0, <1>2, <2>7, <3>1 DEF SlotsOfPlatform
    <3>7. RunsWithWindows'
      BY <1>2, <2>3, <2>7 DEF RunsWithWindows
    <3>8. NoneLeftOut'
      <4>1. Len(slots) <= Len(frames) /\ Len(slots) < Cardinality(Labels)
            /\ Cardinality(Labels) \in Nat
        BY <1>2, SlotsAreFew, FS_CardinalityType, TableAssumption
      <4>2. ~SlotsSuffice'
        BY <1>2, <2>1, <2>5, <2>7, <4>1 DEF SlotsSuffice
      <4> QED
        BY <4>2 DEF NoneLeftOut
    <3> QED
      BY <1>2, <2>7, <3>3, <3>4, <3>5, <3>6, <3>7, <3>8 DEF TableInv, Opened
  <2> QED
    BY <1>2, <2>6, <2>7
<1>3. CASE /\ ExactSlot(label) = {} /\ platform = "windows" /\ CreateSlot(label)
  <2>1. Len(slots) = MaxSlots[platform] \/ Len(slots) < MaxSlots[platform]
    BY <1>0, TableAssumption DEF TableTypes
  <2> QED
    BY <1>1, <1>2, <1>3, <2>1 DEF CreateSlot
<1>4. CASE /\ ExactSlot(label) = {} /\ platform # "windows" /\ OpenFrame(label)
  <2>1. Len(slots) = MaxSlots[platform] \/ Len(slots) < MaxSlots[platform]
    BY <1>0, TableAssumption DEF TableTypes
  <2> QED
    BY <1>2, <1>4, <2>1 DEF OpenFrame
<1> QED
  BY <1>1, <1>3, <1>4 DEF OpenWindow

(* On Windows the first windows come with the environment, if it comes.    *)
LEMMA EnvironmentEffect ==
  ASSUME TableInv, EnvironmentReady
  PROVE  /\ TableInv' /\ UNCHANGED platform
         /\ \A f \in DOMAIN frames' : frames'[f] \in InitialLabels
         /\ Len(frames') <= Len(Initial)
<1>0. /\ platform \in Platforms /\ platform = "windows" /\ platform' = platform
      /\ view \in [Frames -> {"none", "pending", "ready", "failed"}]
      /\ frames = <<>> /\ closing = {} /\ closing' = closing
  <2>1. DOMAIN frames = {} /\ closing \subseteq DOMAIN frames
    BY DEF TableInv, TableTypes, EnvironmentReady
  <2> QED
    BY <2>1 DEF TableInv, TableTypes, EnvironmentReady
<1>1. /\ Initial \in Seq(Labels) /\ Len(Initial) \in Nat /\ Len(Initial) > 0
      /\ MaxSlots[platform] \in Nat \ {0} /\ DOMAIN Initial = 1 .. Len(Initial)
  BY <1>0, TableAssumption
<1>2. PICK refused, created :
        /\ created = IF 1 \in refused THEN 1 ELSE Lesser(Len(Initial), MaxSlots[platform])
        /\ frames' = SubSeq(Initial, 1, created)
        /\ slots' = [i \in 1 .. created |-> i]
        /\ shown' = 1 .. created \ refused
        /\ live' = Cardinality(shown')
        /\ view' = [f \in Frames |-> IF f \in shown' THEN "pending" ELSE "none"]
        /\ running' = (live' > 0)
  BY DEF EnvironmentReady
<1>3. created \in Nat /\ created >= 1 /\ created <= Len(Initial) /\ created <= MaxSlots[platform]
  <2>1. CASE 1 \in refused
    BY <1>1, <1>2, <2>1
  <2>2. CASE 1 \notin refused
    <3>1. created = Lesser(Len(Initial), MaxSlots[platform])
      BY <1>2, <2>2
    <3>2. \A m, n \in Nat \ {0} : /\ Lesser(m, n) \in Nat /\ Lesser(m, n) >= 1
                                 /\ Lesser(m, n) <= m /\ Lesser(m, n) <= n
      BY DEF Lesser
    <3>3. Len(Initial) \in Nat \ {0}
      BY <1>1
    <3> QED
      BY <1>1, <3>1, <3>2, <3>3
  <2> QED
    BY <2>1, <2>2
<1>4. /\ frames' \in Seq(Labels) /\ Len(frames') = created /\ DOMAIN frames' = 1 .. created
      /\ \A i \in 1 .. created : frames'[i] = Initial[i] /\ i \in DOMAIN Initial
  <2>1. SubSeq(Initial, 1, created) = [i \in 1 .. created |-> Initial[i]]
    BY <1>1, <1>3
  <2>2. \A i \in 1 .. created : Initial[i] \in Labels /\ i \in DOMAIN Initial
    BY <1>1, <1>3, ElementOfSeq
  <2> QED
    BY <1>2, <1>3, <2>1, <2>2
<1>5. slots' \in Seq(DOMAIN frames') /\ Len(slots') = created /\ Slotted' = 1 .. created
  <2>1. slots' = [i \in 1 .. created |-> i] /\ DOMAIN frames' = 1 .. created
    BY <1>2, <1>4
  <2>2. slots' \in Seq(1 .. created) /\ Len(slots') = created
    BY <1>3, <2>1
  <2>3. Slotted' = 1 .. created
    BY <2>1 DEF Slotted
  <2> QED
    BY <2>1, <2>2, <2>3
<1>6. TableTypes'
  <2>1. closing' \subseteq shown' /\ shown' \subseteq DOMAIN frames'
    BY <1>0, <1>2, <1>4
  <2>2. running' \in BOOLEAN
    BY <1>2
  <2>3. view' \in [Frames -> {"none", "pending", "ready", "failed"}]
    BY <1>2
  <2>4. Len(slots') <= MaxSlots[platform]
    BY <1>3, <1>5
  <2> QED
    BY <1>0, <1>4, <1>5, <2>1, <2>2, <2>3, <2>4 DEF TableTypes
<1>7. OneSlotPerLabel'
  BY <1>2, <1>4, InitialDistinct DEF OneSlotPerLabel
<1>8. SlotsOfPlatform' /\ NoneLeftOut'
  BY <1>0, <1>2, <1>4, <1>5 DEF SlotsOfPlatform, NoneLeftOut
<1>9. LiveCounted'
  <2>1. (Slotted \cap shown)' = shown'
    BY <1>2, <1>5
  <2> QED
    BY <1>2, <2>1 DEF LiveCounted
<1>10. RunsWithWindows'
  BY <1>2 DEF RunsWithWindows
<1>11. \A f \in DOMAIN frames' : frames'[f] \in InitialLabels
  BY <1>4 DEF InitialLabels
<1> QED
  BY <1>0, <1>3, <1>4, <1>6, <1>7, <1>8, <1>9, <1>10, <1>11 DEF TableInv

LEMMA EnvironmentFailsEffect ==
  ASSUME TableInv, EnvironmentFails
  PROVE  TableInv' /\ UNCHANGED <<platform, frames, shown, slots>>
<1>1. /\ frames = <<>> /\ running' = FALSE
      /\ UNCHANGED <<platform, frames, shown, slots, live, view, closing>>
  BY DEF EnvironmentFails
<1>2. Slotted' = Slotted /\ (SlotsSuffice' <=> SlotsSuffice)
  BY <1>1 DEF Slotted, SlotsSuffice
<1>3. TableTypes' /\ OneSlotPerLabel' /\ RunsWithWindows'
  BY <1>1 DEF TableInv, TableTypes, OneSlotPerLabel, RunsWithWindows
<1>4. SlotsOfPlatform' /\ LiveCounted' /\ NoneLeftOut'
  BY <1>1, <1>2 DEF TableInv, SlotsOfPlatform, LiveCounted, NoneLeftOut
<1> QED
  BY <1>1, <1>3, <1>4 DEF TableInv

(* The controller of a window arrives or does not.                         *)
LEMMA ViewEffect ==
  ASSUME TableInv, NEW f \in Frames, ViewReady(f) \/ ViewFails(f)
  PROVE  TableInv' /\ UNCHANGED <<platform, frames, shown, slots, running>>
<1>1. /\ UNCHANGED <<platform, frames, shown, slots, live, running>>
      /\ closing' \in {closing, closing \cup ({f} \cap shown)}
      /\ \E there \in {"failed", "ready"} : view' = [view EXCEPT ![f] = there]
  BY DEF ViewReady, ViewFails
<1>2. Slotted' = Slotted /\ (SlotsSuffice' <=> SlotsSuffice)
  BY <1>1 DEF Slotted, SlotsSuffice
<1>3. TableTypes'
  <2>1. closing' \subseteq shown
    BY <1>1 DEF TableInv, TableTypes
  <2>2. view' \in [Frames -> {"none", "pending", "ready", "failed"}]
    BY <1>1 DEF TableInv, TableTypes
  <2> QED
    BY <1>1, <2>1, <2>2 DEF TableInv, TableTypes
<1>4. OneSlotPerLabel' /\ RunsWithWindows'
  BY <1>1 DEF TableInv, OneSlotPerLabel, RunsWithWindows
<1>5. SlotsOfPlatform' /\ LiveCounted' /\ NoneLeftOut'
  BY <1>1, <1>2 DEF TableInv, SlotsOfPlatform, LiveCounted, NoneLeftOut
<1> QED
  BY <1>1, <1>3, <1>4, <1>5 DEF TableInv

-----------------------------------------------------------------------------
(* The windows and the host's session.                                     *)
SessionInv ==
  /\ session \subseteq Labels
  /\ frames = <<>> => InitialLabels \subseteq session
  /\ \A f \in Slotted \cap shown : frames[f] \in session

RestartInv ==
  /\ spawned \in Nat
  /\ RestartReplaces

HostInv == TableInv /\ SessionInv /\ RestartInv

LEMMA InitialLabelsAreLabels == InitialLabels \subseteq Labels
  BY TableAssumption, ElementOfSeq DEF InitialLabels

LEMMA InitHostInv == LoopInit => HostInv
<1> SUFFICES ASSUME LoopInit PROVE HostInv
  OBVIOUS
<1>1. TableInv /\ session = InitialLabels /\ spawned = 0
  BY InitTableInv DEF LoopInit
<1>2. \A f \in DOMAIN frames : frames[f] \in InitialLabels
  BY DEF LoopInit, TableInit, InitialLabels
<1>3. shown \subseteq DOMAIN frames
  BY <1>1 DEF TableInv, TableTypes
<1> QED
  BY <1>1, <1>2, <1>3, InitialLabelsAreLabels
     DEF HostInv, SessionInv, RestartInv, RestartReplaces

(* Nothing of the host or of the windows changes.                          *)
LEMMA HostStays == HostInv /\ UNCHANGED hostVars => HostInv'
<1> SUFFICES ASSUME HostInv, UNCHANGED hostVars PROVE HostInv'
  OBVIOUS
<1>1. UNCHANGED <<tableVars, session, spawned>>
  BY DEF hostVars
<1>2. TableInv'
  BY <1>1, TableStays DEF HostInv
<1>3. Slotted' = Slotted /\ UNCHANGED <<frames, shown, running>>
  BY <1>1 DEF Slotted, tableVars
<1> QED
  BY <1>1, <1>2, <1>3 DEF HostInv, SessionInv, RestartInv, RestartReplaces

(* Opening a window that the session does not have yet.                    *)
LEMMA FollowupKeeps ==
  ASSUME HostInv, NEW label \in Labels, frames # <<>>, running, OpenFollowup(label)
  PROVE  HostInv' /\ Opened(label)
<1>1. CASE label \in session
  BY <1>1, HostStays DEF OpenFollowup, Opened, hostVars
<1>2. CASE label \notin session
  <2>1. session' = session \cup {label} /\ OpenWindow(label) /\ spawned' = spawned
    BY <1>2 DEF OpenFollowup
  <2>2. TableInv' /\ Opened(label)
    BY <2>1, OpenEffect DEF HostInv
  <2>3. /\ frames \in Seq(Labels) /\ Slotted \subseteq DOMAIN frames /\ shown \subseteq DOMAIN frames
    BY SlotsFinite DEF HostInv, TableInv, TableTypes
  <2>4. CASE UNCHANGED tableVars
    BY <2>1, <2>2, <2>4 DEF HostInv, SessionInv, RestartInv, RestartReplaces, Slotted, tableVars
  <2>5. CASE ~UNCHANGED tableVars
    <3>1. /\ frames' = Append(frames, label) /\ running' = running
          /\ shown' \in {shown, shown \cup {Len(frames) + 1}}
          /\ slots' \in {slots, Append(slots, Len(frames) + 1)}
      BY <2>2, <2>5 DEF Opened
    <3>2. /\ \A f \in DOMAIN frames : frames'[f] = frames[f]
          /\ frames'[Len(frames) + 1] = label
          /\ frames' # <<>>
      BY <2>3, <3>1
    <3>3. Slotted' \subseteq Slotted \cup {Len(frames) + 1}
      <4>1. slots \in Seq(DOMAIN frames)
        BY DEF HostInv, TableInv, TableTypes
      <4>2. \A new : {Append(slots, new)[i] : i \in DOMAIN Append(slots, new)}
                       \subseteq {slots[i] : i \in DOMAIN slots} \cup {new}
        BY <4>1
      <4> QED
        BY <3>1, <4>2 DEF Slotted
    <3>4. SessionInv'
      <4>1. \A f \in Slotted \cap shown : frames[f] \in session
        BY DEF HostInv, SessionInv
      <4>2. Len(frames) + 1 \notin DOMAIN frames
        BY <2>3
      <4>3. ASSUME NEW f \in Slotted' \cap shown' PROVE frames'[f] \in session'
        <5>1. CASE f = Len(frames) + 1
          BY <2>1, <3>2, <5>1
        <5>2. CASE f # Len(frames) + 1
          BY <2>1, <2>3, <3>1, <3>2, <3>3, <4>1, <4>3, <5>2
        <5> QED
          BY <5>1, <5>2
      <4>4. session' \subseteq Labels
        BY <2>1 DEF HostInv, SessionInv
      <4> QED
        BY <3>2, <4>3, <4>4 DEF SessionInv
    <3>5. RestartInv'
      BY <2>1, <3>1 DEF HostInv, RestartInv, RestartReplaces
    <3> QED
      BY <2>2, <3>4, <3>5 DEF HostInv
  <2> QED
    BY <2>4, <2>5
<1> QED
  BY <1>1, <1>2

(* Windows go; the session may forget a label whose window is among them.  *)
LEMMA GoingKeeps ==
  ASSUME HostInv, NEW found, Destroy(found), spawned' = spawned,
         \/ session' = session
         \/ \E label \in Labels :
              /\ \A f \in Slotted \cap shown : frames[f] = label => f \in found
              /\ session' = session \ {label} /\ frames # <<>>
  PROVE  HostInv' /\ UNCHANGED <<platform, frames>> /\ shown' = shown \ found
<1>1. /\ TableInv' /\ UNCHANGED <<platform, frames>> /\ shown' = shown \ found
      /\ (Slotted \cap shown)' = (Slotted \cap shown) \ found
  BY DestroyEffect DEF HostInv
<1>2. /\ session \subseteq Labels
      /\ frames = <<>> => InitialLabels \subseteq session
      /\ \A f \in Slotted \cap shown : frames[f] \in session
  BY DEF HostInv, SessionInv
<1>3. SessionInv'
  <2>1. CASE session' = session
    BY <1>1, <1>2, <2>1 DEF SessionInv
  <2>2. CASE \E label \in Labels :
               /\ \A f \in Slotted \cap shown : frames[f] = label => f \in found
               /\ session' = session \ {label} /\ frames # <<>>
    <3>1. PICK label \in Labels :
            /\ \A f \in Slotted \cap shown : frames[f] = label => f \in found
            /\ session' = session \ {label} /\ frames # <<>>
      BY <2>2
    <3>2. \A f \in Slotted \cap shown : frames[f] = label => f \in found
      BY <3>1
    <3> QED
      BY <1>1, <1>2, <3>1, <3>2 DEF SessionInv
  <2> QED
    BY <2>1, <2>2
<1>4. RestartInv'
  <2>1. CASE spawned > 0
    <3>1. spawned = 1 /\ ~running /\ Slotted \cap shown = {}
      BY <2>1 DEF HostInv, RestartInv, RestartReplaces
    <3>2. LiveCounted' /\ (Slotted \cap shown)' = {}
      BY <1>1, <3>1 DEF TableInv
    <3>3. live' = 0
      BY <3>2, FS_EmptySet DEF LiveCounted
    <3>4. ~running'
      <4>1. running' = running \/ running' = (live' > 0)
        BY DEF Destroy
      <4>2. ~(live' > 0)
        BY <3>3
      <4> QED
        BY <3>1, <4>1, <4>2
    <3> QED
      BY <3>1, <3>2, <3>4 DEF RestartInv, RestartReplaces
  <2>2. CASE ~(spawned > 0)
    BY <2>2 DEF HostInv, RestartInv, RestartReplaces
  <2> QED
    BY <2>1, <2>2
<1> QED
  BY <1>1, <1>3, <1>4 DEF HostInv

(* The last windows go when the new process has started.                   *)
LEMMA ReplacedKeeps ==
  ASSUME HostInv, Destroy(AllSlots), running, frames # <<>>, spawned' = spawned + 1,
         session' = session
  PROVE  HostInv' /\ UNCHANGED <<platform, frames>> /\ shown' = shown \ AllSlots
<1>1. /\ TableInv' /\ UNCHANGED <<platform, frames>> /\ shown' = shown \ AllSlots
      /\ (Slotted \cap shown)' = (Slotted \cap shown) \ AllSlots
  BY DestroyEffect DEF HostInv
<1>2. (Slotted \cap shown)' = {}
  BY <1>1 DEF AllSlots, Slotted
<1>3. spawned = 0
  BY DEF HostInv, RestartInv, RestartReplaces
<1>4. ~running'
  <2>1. live' = 0
    <3>1. LiveCounted'
      BY <1>1 DEF TableInv
    <3> QED
      BY <1>2, <3>1, FS_EmptySet DEF LiveCounted
  <2>2. running' = (live' > 0)
    BY <1>1 DEF TableInv, RunsWithWindows
  <2>3. ~(live' > 0)
    BY <2>1
  <2> QED
    BY <2>2, <2>3
<1>5. RestartInv'
  BY <1>2, <1>3, <1>4 DEF RestartInv, RestartReplaces
<1>6. SessionInv'
  BY <1>1, <1>2 DEF HostInv, SessionInv
<1> QED
  BY <1>1, <1>5, <1>6 DEF HostInv

(* WebView2 calls back.                                                    *)
LEMMA CallbackKeeps ==
  ASSUME HostInv, UNCHANGED <<session, spawned>>,
         EnvironmentFails \/ EnvironmentReady \/ \E f \in Frames : ViewReady(f) \/ ViewFails(f)
  PROVE  /\ HostInv' /\ UNCHANGED platform
         /\ UNCHANGED frames \/ (frames = <<>> /\ Len(frames') <= Len(Initial))
<1>1. CASE EnvironmentFails
  <2>1. TableInv' /\ UNCHANGED <<platform, frames, shown, slots>> /\ running' = FALSE
    BY <1>1, EnvironmentFailsEffect DEF HostInv, EnvironmentFails
  <2>2. Slotted' = Slotted
    BY <2>1 DEF Slotted
  <2> QED
    BY <2>1, <2>2 DEF HostInv, SessionInv, RestartInv, RestartReplaces
<1>2. CASE EnvironmentReady
  <2>1. /\ TableInv' /\ UNCHANGED platform /\ Len(frames') <= Len(Initial)
        /\ \A f \in DOMAIN frames' : frames'[f] \in InitialLabels
        /\ frames = <<>> /\ running
    BY <1>2, EnvironmentEffect DEF HostInv, EnvironmentReady
  <2>2. InitialLabels \subseteq session /\ session \subseteq Labels
    BY <2>1 DEF HostInv, SessionInv
  <2>3. shown' \subseteq DOMAIN frames'
    BY <2>1 DEF TableInv, TableTypes
  <2>4. SessionInv'
    BY <2>1, <2>2, <2>3 DEF SessionInv
  <2>5. spawned = 0
    BY <2>1 DEF HostInv, RestartInv, RestartReplaces
  <2>6. RestartInv'
    BY <2>5 DEF RestartInv, RestartReplaces
  <2> QED
    BY <2>1, <2>4, <2>6 DEF HostInv
<1>3. CASE \E f \in Frames : ViewReady(f) \/ ViewFails(f)
  <2>1. TableInv' /\ UNCHANGED <<platform, frames, shown, slots, running>>
    BY <1>3, ViewEffect DEF HostInv
  <2>2. Slotted' = Slotted
    BY <2>1 DEF Slotted
  <2> QED
    BY <2>1, <2>2 DEF HostInv, SessionInv, RestartInv, RestartReplaces
<1> QED
  BY <1>1, <1>2, <1>3

-----------------------------------------------------------------------------
(* The pages.  Each message that waits is known by its frame and its id.   *)
Scripts == Responses \cup Events

Messages == [id: Ids, command: Commands]

PageTypes ==
  /\ budget \in 0 .. MaxCalls[platform]
  /\ called \in [Frames -> 0 .. MaxCalls[platform]]
  /\ deferred \in Seq([frame: Frames, id: Ids])
  /\ inbox \in [Frames -> Seq(Messages)]
  /\ scripts \in [Frames -> Seq(Scripts)]
  /\ settled \in [Frames -> Seq(Responses)]
  /\ heard \in [Frames -> Seq(Events)]

(* Nobody has called more often than there was budget for.                 *)
CallsCounted == \A f \in Frames : called[f] + budget <= MaxCalls[platform]

(* The messages of a page wait in the order of its calls.                  *)
InOrder(list, last) ==
  /\ \A i \in DOMAIN list : list[i].id <= last
  /\ \A i, j \in DOMAIN list : i < j => list[i].id < list[j].id

InboxInv == \A f \in Frames : InOrder(inbox[f], called[f])

Waiting(f) == {inbox[f][i].id : i \in DOMAIN inbox[f]}

Undelivered == {u \in Frames \X Ids : u[2] \in Waiting(u[1])}

(* Each call is one of the budget, a message or delivered, and a message   *)
(* opens one window at most.                                               *)
FramesCounted ==
  /\ Cardinality(Undelivered) + budget <= MaxCalls[platform]
  /\ frames # <<>> =>
       Len(frames) + Cardinality(Undelivered) + budget <= Len(Initial) + MaxCalls[platform]

PageInv == PageTypes /\ CallsCounted /\ InboxInv /\ FramesCounted

LEMMA PageBounds ==
  ASSUME PageTypes, platform \in Platforms
  PROVE  /\ MaxCalls[platform] \in Nat /\ MostCalls \in Nat /\ MaxCalls[platform] <= MostCalls
         /\ Len(Initial) \in Nat /\ budget \in Nat
         /\ Ids = 1 .. MostCalls /\ Frames = 1 .. Len(Initial) + MostCalls
<1>1. MaxCalls[platform] \in Nat /\ MostCalls \in Nat /\ MaxCalls[platform] <= MostCalls
  BY CallBound
<1>2. Len(Initial) \in Nat
  BY TableAssumption
<1> QED
  BY <1>1, <1>2 DEF PageTypes, Ids, Frames, MostCalls

LEMMA IdsAreNumbers == Ids \subseteq Nat
<1>1. \A n : 1 .. n \subseteq Nat
  OBVIOUS
<1> QED
  BY <1>1 DEF Ids

LEMMA UndeliveredFinite ==
  ASSUME PageTypes, platform \in Platforms
  PROVE  IsFiniteSet(Undelivered) /\ Cardinality(Undelivered) \in Nat
<1>1. IsFiniteSet(Frames) /\ IsFiniteSet(Ids)
  <2>1. MostCalls \in Nat /\ Len(Initial) + MostCalls \in Nat
    BY PageBounds
  <2> QED
    BY <2>1, PageBounds, Counting
<1>2. IsFiniteSet(Frames \X Ids)
  BY <1>1, FS_Product
<1>3. Undelivered \subseteq Frames \X Ids
  BY DEF Undelivered
<1> QED
  BY <1>2, <1>3, FS_Subset, FS_CardinalityType

(* A queue of messages from which the first, or all, were taken.           *)
LEMMA TakenMessages ==
  ASSUME NEW list \in Seq(Messages), NEW last \in Nat, InOrder(list, last),
         NEW rest, rest \in {<<>>, list} \/ (list # <<>> /\ rest = Tail(list))
  PROVE  /\ rest \in Seq(Messages) /\ InOrder(rest, last)
         /\ \A i \in DOMAIN rest : \E j \in DOMAIN list : rest[i] = list[j]
         /\ rest # list => \A i \in DOMAIN rest : rest[i].id # Head(list).id
<1>1. CASE rest \in {<<>>, list}
  <2>1. rest = <<>> => rest \in Seq(Messages) /\ DOMAIN rest = {}
    OBVIOUS
  <2> QED
    BY <1>1, <2>1 DEF InOrder
<1>2. CASE list # <<>> /\ rest = Tail(list)
  <2>1. /\ Len(list) \in Nat /\ Len(list) > 0 /\ rest \in Seq(Messages)
        /\ DOMAIN list = 1 .. Len(list) /\ DOMAIN rest = 1 .. Len(list) - 1
        /\ \A i \in DOMAIN rest : rest[i] = list[i + 1]
        /\ Head(list) = list[1]
    BY <1>2
  <2>2. \A i \in DOMAIN rest : i + 1 \in DOMAIN list /\ 1 < i + 1 /\ 1 \in DOMAIN list
    BY <2>1
  <2>3. \A i, j \in DOMAIN rest : i < j => i + 1 < j + 1
    BY <2>1
  <2>4. \A i \in DOMAIN list : list[i].id \in Nat
    <3>1. \A i \in DOMAIN list : list[i] \in Messages
      BY <2>1, ElementOfSeq
    <3> QED
      BY <3>1, IdsAreNumbers DEF Messages
  <2>5. InOrder(rest, last)
    BY <2>1, <2>2, <2>3 DEF InOrder
  <2>6. \A i \in DOMAIN rest : list[1].id < list[i + 1].id
    BY <2>2 DEF InOrder
  <2>7. \A i \in DOMAIN rest : rest[i].id # Head(list).id
    BY <2>1, <2>2, <2>4, <2>6
  <2> QED
    BY <2>1, <2>2, <2>5, <2>7
<1> QED
  BY <1>1, <1>2

(* The loop takes the first message of a page, or pages die with theirs.   *)
LEMMA FewerMessages ==
  ASSUME PageInv, platform \in Platforms, UNCHANGED called,
         inbox' = [g \in Frames |-> inbox'[g]],
         \A g \in Frames : \/ inbox'[g] \in {<<>>, inbox[g]}
                           \/ inbox[g] # <<>> /\ inbox'[g] = Tail(inbox[g])
  PROVE  /\ inbox' \in [Frames -> Seq(Messages)] /\ InboxInv'
         /\ Cardinality(Undelivered)' \in Nat
         /\ Cardinality(Undelivered)' <= Cardinality(Undelivered)
         /\ \A f \in Frames : inbox'[f] # inbox[f] =>
              Cardinality(Undelivered)' <= Cardinality(Undelivered) - 1
<1>0. PageTypes /\ InboxInv
  BY DEF PageInv
<1>1. \A g \in Frames : inbox[g] \in Seq(Messages) /\ called[g] \in Nat
                        /\ InOrder(inbox[g], called[g])
  BY <1>0, PageBounds DEF PageTypes, InboxInv
<1>2. ASSUME NEW g \in Frames
      PROVE  /\ inbox'[g] \in Seq(Messages) /\ InOrder(inbox'[g], called[g])
             /\ \A i \in DOMAIN inbox'[g] : \E j \in DOMAIN inbox[g] : inbox'[g][i] = inbox[g][j]
             /\ inbox'[g] # inbox[g] =>
                  \A i \in DOMAIN inbox'[g] : inbox'[g][i].id # Head(inbox[g]).id
  <2>1. inbox[g] \in Seq(Messages) /\ called[g] \in Nat /\ InOrder(inbox[g], called[g])
    BY <1>1
  <2>2. \/ inbox'[g] \in {<<>>, inbox[g]}
        \/ inbox[g] # <<>> /\ inbox'[g] = Tail(inbox[g])
    OBVIOUS
  <2> QED
    BY <2>1, <2>2, TakenMessages, ZenonT(40)
<1>3. inbox' \in [Frames -> Seq(Messages)] /\ InboxInv'
  BY <1>2 DEF InboxInv
<1>4. IsFiniteSet(Undelivered) /\ Cardinality(Undelivered) \in Nat
  BY <1>0, UndeliveredFinite
<1>5. Undelivered' \subseteq Undelivered
  <2>1. ASSUME NEW u \in Undelivered' PROVE u \in Undelivered
    <3>1. u \in Frames \X Ids /\ u[1] \in Frames
      BY <2>1 DEF Undelivered
    <3>2. PICK i \in DOMAIN inbox'[u[1]] : inbox'[u[1]][i].id = u[2]
      BY <2>1 DEF Undelivered, Waiting
    <3>3. PICK j \in DOMAIN inbox[u[1]] : inbox'[u[1]][i] = inbox[u[1]][j]
      BY <1>2, <3>1
    <3> QED
      BY <3>1, <3>2, <3>3 DEF Undelivered, Waiting
  <2> QED
    BY <2>1
<1>6. /\ Cardinality(Undelivered)' \in Nat
      /\ Cardinality(Undelivered)' <= Cardinality(Undelivered)
  BY <1>4, <1>5, FS_Subset, FS_CardinalityType
<1>7. ASSUME NEW f \in Frames, inbox'[f] # inbox[f]
      PROVE  Cardinality(Undelivered)' <= Cardinality(Undelivered) - 1
  <2> DEFINE u == <<f, Head(inbox[f]).id>>
  <2>1. inbox[f] # <<>>
    BY <1>1, <1>7
  <2>2. 1 \in DOMAIN inbox[f] /\ Head(inbox[f]) = inbox[f][1] /\ inbox[f][1] \in Messages
    <3>1. inbox[f] \in Seq(Messages)
      BY <1>1
    <3> QED
      BY <2>1, <3>1
  <2>3. u \in Undelivered
    BY <2>2 DEF Undelivered, Waiting, Messages
  <2>4. u \notin Undelivered'
    BY <1>2, <1>7 DEF Undelivered, Waiting
  <2> HIDE DEF u
  <2>5. Undelivered' \subseteq Undelivered \ {u}
    BY <1>5, <2>4
  <2>6. IsFiniteSet(Undelivered \ {u}) /\ Cardinality(Undelivered \ {u}) = Cardinality(Undelivered) - 1
    BY <1>4, <2>3, FS_RemoveElement
  <2>7. Cardinality(Undelivered)' <= Cardinality(Undelivered \ {u})
    BY <2>5, <2>6, FS_Subset
  <2> QED
    BY <1>4, <1>6, <2>6, <2>7
<1> QED
  BY <1>3, <1>6, <1>7

-----------------------------------------------------------------------------
(* The answers: in a page wait only answers to its own calls, and each of  *)
(* its calls is settled once.                                              *)
Own(list, f) == \A i \in DOMAIN list : list[i].kind = "response" => list[i].frame = f

AnswerInv ==
  /\ SlotsSuffice => \A f \in Frames :
       Own(scripts[f], f) /\ \A i \in DOMAIN settled[f] : settled[f][i].frame = f
  /\ \A f \in Frames : \A i, j \in DOMAIN settled[f] :
       settled[f][i].id = settled[f][j].id => i = j

(* Scripts are added at the end.                                           *)
LEMMA Added ==
  ASSUME NEW list \in Seq(Scripts), NEW m \in Nat, NEW n \in Nat,
         NEW response \in Scripts, NEW event \in Scripts, NEW new,
         new = list \o [i \in 1 .. m |-> response] \o [i \in 1 .. n |-> event]
  PROVE  /\ new \in Seq(Scripts)
         /\ \A i \in DOMAIN new : \/ \E k \in DOMAIN list : new[i] = list[k]
                                  \/ m > 0 /\ new[i] = response
                                  \/ new[i] = event
<1> DEFINE r == [i \in 1 .. m |-> response]
           e == [i \in 1 .. n |-> event]
           first == list \o r
<1>1. r \in Seq(Scripts) /\ Len(r) = m /\ \A i \in 1 .. m : r[i] = response
  OBVIOUS
<1>2. e \in Seq(Scripts) /\ Len(e) = n /\ \A i \in 1 .. n : e[i] = event
  OBVIOUS
<1>3. new = first \o e
  OBVIOUS
<1> HIDE DEF r, e
<1>4. /\ first \in Seq(Scripts) /\ Len(first) = Len(list) + m /\ Len(list) \in Nat
      /\ DOMAIN list = 1 .. Len(list)
      /\ \A i \in 1 .. Len(first) :
           first[i] = IF i <= Len(list) THEN list[i] ELSE r[i - Len(list)]
  <2>0. DOMAIN list = 1 .. Len(list) /\ Len(list) \in Nat /\ Len(r) = m
    BY <1>1
  <2>1. /\ first \in Seq(Scripts) /\ Len(first) = Len(list) + m /\ Len(list) \in Nat
        /\ DOMAIN list = 1 .. Len(list) /\ Len(r) = m
    BY <1>1, <2>0, ConcatProperties
  <2>2. \A i \in 1 .. Len(list) + Len(r) :
          first[i] = IF i <= Len(list) THEN list[i] ELSE r[i - Len(list)]
    BY <1>1, ConcatProperties
  <2> QED
    BY <2>1, <2>2
<1> HIDE DEF first
<1>5. /\ new \in Seq(Scripts) /\ Len(new) = Len(first) + n /\ DOMAIN new = 1 .. Len(new)
      /\ \A i \in 1 .. Len(new) :
           new[i] = IF i <= Len(first) THEN first[i] ELSE e[i - Len(first)]
  BY <1>2, <1>3, <1>4, ConcatProperties
<1>6. ASSUME NEW i \in DOMAIN new
      PROVE  \/ \E k \in DOMAIN list : new[i] = list[k]
             \/ m > 0 /\ new[i] = response
             \/ new[i] = event
  <2>1. i \in Nat /\ i >= 1 /\ i <= Len(list) + m + n
    BY <1>4, <1>5
  <2>2. CASE i <= Len(list)
    <3>1. i <= Len(first) /\ i \in DOMAIN list
      BY <1>4, <2>1, <2>2
    <3> QED
      BY <1>4, <1>5, <2>1, <2>2, <3>1
  <2>3. CASE ~(i <= Len(list)) /\ i <= Len(first)
    <3>1. i - Len(list) \in 1 .. m /\ m > 0
      BY <1>4, <2>1, <2>3
    <3> QED
      BY <1>1, <1>4, <1>5, <2>1, <2>3, <3>1
  <2>4. CASE ~(i <= Len(first))
    <3>1. i - Len(first) \in 1 .. n
      BY <1>4, <2>1, <2>4
    <3> QED
      BY <1>2, <1>5, <2>4, <3>1
  <2> QED
    BY <2>2, <2>3, <2>4
<1> QED
  BY <1>5, <1>6

(* What a page has after the scripts of a message: what it had, the answer *)
(* if it is one of the targets, and the event.                             *)
Grown(new, response, targets, event) ==
  \A g \in Frames : \A i \in DOMAIN new[g] :
    \/ \E k \in DOMAIN scripts[g] : new[g][i] = scripts[g][k]
    \/ new[g][i] = response /\ \E j \in DOMAIN targets : g \in targets[j]
    \/ new[g][i] = event

LEMMA AfterRunEffect ==
  ASSUME PageTypes, NEW n \in Nat, NEW targets, DOMAIN targets = 1 .. n,
         NEW labels \in SUBSET Labels, NEW response \in Responses, NEW event \in Events,
         NEW new, new = AfterRun(response, targets, event, labels)
  PROVE  /\ new \in [Frames -> Seq(Scripts)]
         /\ Grown(new, response, targets, event)
<1> DEFINE hitting(g) == {j \in DOMAIN targets : g \in targets[j]}
           heardAt(g) == {label \in labels : g \in FindSlot(label)}
<1>1. DOMAIN new = Frames /\ \A g \in Frames :
        \/ new[g] = scripts[g]
        \/ new[g] = scripts[g] \o [i \in 1 .. Cardinality(hitting(g)) |-> response]
                               \o [i \in 1 .. Cardinality(heardAt(g)) |-> event]
  BY DEF AfterRun
<1>1a. new = [g \in Frames |-> new[g]]
  BY DEF AfterRun
<1>2. ASSUME NEW g \in Frames
      PROVE  /\ Cardinality(hitting(g)) \in Nat /\ Cardinality(heardAt(g)) \in Nat
             /\ Cardinality(hitting(g)) > 0 => \E j \in DOMAIN targets : g \in targets[j]
  <2>1. IsFiniteSet(DOMAIN targets) /\ IsFiniteSet(labels)
    BY Counting, FS_Subset, TableAssumption
  <2>2. hitting(g) \subseteq DOMAIN targets /\ heardAt(g) \subseteq labels
    OBVIOUS
  <2>3. hitting(g) # {} => \E j \in DOMAIN targets : g \in targets[j]
    OBVIOUS
  <2> HIDE DEF hitting, heardAt
  <2>4. IsFiniteSet(hitting(g)) /\ IsFiniteSet(heardAt(g))
    BY <2>1, <2>2, FS_Subset
  <2>5. Cardinality(hitting(g)) \in Nat /\ Cardinality(heardAt(g)) \in Nat
    BY <2>4, FS_CardinalityType
  <2>6. Cardinality(hitting(g)) > 0 => hitting(g) # {}
    BY FS_EmptySet
  <2> QED
    BY <2>3, <2>5, <2>6
<1> HIDE DEF hitting, heardAt
<1>3. ASSUME NEW g \in Frames
      PROVE  /\ new[g] \in Seq(Scripts)
             /\ \A i \in DOMAIN new[g] :
                  \/ \E k \in DOMAIN scripts[g] : new[g][i] = scripts[g][k]
                  \/ new[g][i] = response /\ \E j \in DOMAIN targets : g \in targets[j]
                  \/ new[g][i] = event
  <2>1. scripts[g] \in Seq(Scripts) /\ response \in Scripts /\ event \in Scripts
    BY DEF PageTypes, Scripts
  <2>2. CASE new[g] = scripts[g]
    BY <2>1, <2>2
  <2>3. CASE new[g] = scripts[g] \o [i \in 1 .. Cardinality(hitting(g)) |-> response]
                                 \o [i \in 1 .. Cardinality(heardAt(g)) |-> event]
    <3>1. PICK m \in Nat, l \in Nat : m = Cardinality(hitting(g)) /\ l = Cardinality(heardAt(g))
      BY <1>2
    <3>2. new[g] = scripts[g] \o [i \in 1 .. m |-> response] \o [i \in 1 .. l |-> event]
      BY <2>3, <3>1
    <3>3. PICK added : added = new[g]
      OBVIOUS
    <3>4. PICK list \in Seq(Scripts) : list = scripts[g]
      BY <2>1
    <3>5. added = list \o [i \in 1 .. m |-> response] \o [i \in 1 .. l |-> event]
      BY <3>2, <3>3, <3>4
    <3>6. /\ added \in Seq(Scripts)
          /\ \A i \in DOMAIN added :
               \/ \E k \in DOMAIN list : added[i] = list[k]
               \/ m > 0 /\ added[i] = response
               \/ added[i] = event
      BY <2>1, <3>5, Added
    <3> QED
      BY <1>2, <3>1, <3>3, <3>4, <3>6
  <2> QED
    BY <1>1, <2>2, <2>3
<1>4. Grown(new, response, targets, event)
  BY <1>3 DEF Grown
<1> QED
  BY <1>1a, <1>3, <1>4

(* A page gets no answer but its own.                                      *)
LEMMA AnswersAreOwn ==
  ASSUME TableInv, PageTypes, AnswerInv, NEW f \in Frames, f \in shown,
         NEW id \in Ids, NEW outcome \in {"answer", "async required"},
         NEW n \in Nat, NEW targets, DOMAIN targets = 1 .. n,
         \A j \in 1 .. n : targets[j] \subseteq FindSlot(frames[f]),
         NEW labels \in SUBSET Labels, NEW new,
         new = AfterRun(Response(f, id, outcome), targets, Event(f, id), labels)
  PROVE  /\ new \in [Frames -> Seq(Scripts)]
         /\ SlotsSuffice => \A g \in Frames : Own(new[g], g)
<1>0. Response(f, id, outcome) \in Responses /\ Event(f, id) \in Events
  BY DEF Response, Event, Responses, Events
<1>1. PICK response \in Responses, event \in Events :
        response = Response(f, id, outcome) /\ event = Event(f, id)
  BY <1>0
<1>1a. response.frame = f /\ event.kind = "event"
  BY <1>1 DEF Response, Event
<1>2. new = AfterRun(response, targets, event, labels)
  BY <1>1
<1>3. new \in [Frames -> Seq(Scripts)] /\ Grown(new, response, targets, event)
  BY <1>2, AfterRunEffect
<1>4. ASSUME SlotsSuffice, NEW g \in Frames, NEW j \in DOMAIN targets, g \in targets[j]
      PROVE  g = f
  <2>1. f \in Slotted
    BY <1>4 DEF TableInv, NoneLeftOut
  <2>2. FindSlot(frames[f]) = {f}
    BY <2>1, FoundIsOne
  <2> QED
    BY <1>4, <2>2
<1>5. ASSUME SlotsSuffice, NEW g \in Frames, NEW i \in DOMAIN new[g],
             new[g][i].kind = "response"
      PROVE  new[g][i].frame = g
  <2>1. CASE \E k \in DOMAIN scripts[g] : new[g][i] = scripts[g][k]
    <3>1. PICK k \in DOMAIN scripts[g] : new[g][i] = scripts[g][k]
      BY <2>1
    <3>2. Own(scripts[g], g)
      BY <1>5 DEF AnswerInv
    <3>3. scripts[g][k].kind = "response" => scripts[g][k].frame = g
      BY <3>2 DEF Own
    <3> QED
      BY <1>5, <3>1, <3>3
  <2>2. CASE new[g][i] = response /\ \E j \in DOMAIN targets : g \in targets[j]
    BY <1>1a, <1>4, <1>5, <2>2
  <2>3. CASE new[g][i] = event
    BY <1>1a, <1>5, <2>3
  <2> QED
    BY <1>3, <2>1, <2>2, <2>3 DEF Grown
<1> QED
  BY <1>3, <1>5 DEF Own

-----------------------------------------------------------------------------
(* What the loop does with the first message of a page.                    *)
LEMMA MessageFacts ==
  ASSUME PageTypes, NEW f \in Frames, inbox[f] # <<>>
  PROVE  /\ Message(f).id \in Ids
         /\ Message(f).command.name \in {"open", "close"} => Message(f).command.label \in Labels
         /\ Message(f).command.name = "emit" => Message(f).command.label \in Labels \cup {App}
<1>1. inbox[f] \in Seq(Messages)
  BY DEF PageTypes
<1>2. Message(f) \in Messages
  BY <1>1 DEF Message
<1> QED
  BY <1>2 DEF Messages, Commands

(* Taking the first message takes one; pages that go lose all of theirs.   *)
Taken(f) ==
  /\ inbox' = [g \in Frames |-> inbox'[g]]
  /\ \A g \in Frames : \/ inbox'[g] \in {<<>>, inbox[g]}
                       \/ inbox[g] # <<>> /\ inbox'[g] = Tail(inbox[g])
  /\ inbox'[f] # inbox[f]

LEMMA TakingOne ==
  ASSUME PageTypes, NEW f \in Frames, inbox[f] # <<>>, NEW found,
         inbox' = Received(f) \/ inbox' = WithoutPages(found, Received(f))
  PROVE  Taken(f)
<1>1. /\ inbox = [g \in Frames |-> inbox[g]]
      /\ \A g \in Frames : Received(f)[g] = IF g = f THEN Tail(inbox[g]) ELSE inbox[g]
      /\ Received(f) = [g \in Frames |-> Received(f)[g]]
  BY DEF PageTypes, Received
<1>2. /\ inbox' = [g \in Frames |-> inbox'[g]]
      /\ \A g \in Frames : inbox'[g] \in {<<>>, Received(f)[g]}
  BY <1>1 DEF WithoutPages
<1>3. Tail(inbox[f]) # inbox[f]
  <2>1. PICK list \in Seq(Messages) : list = inbox[f]
    BY DEF PageTypes
  <2>2. Len(Tail(list)) = Len(list) - 1 /\ Len(list) \in Nat
    BY <2>1
  <2>3. Tail(list) # list
    <3>1. ASSUME Tail(list) = list PROVE FALSE
      <4>1. Len(Tail(list)) = Len(list)
        BY <3>1, Zenon
      <4> QED
        BY <2>2, <4>1, SMTT(30)
    <3> QED
      BY <3>1, Zenon
  <2> QED
    BY <2>1, <2>3
<1> QED
  BY <1>1, <1>2, <1>3 DEF Taken

(* An immediate packet leaves its page's own answer, and events.           *)
LEMMA ImmediateEffect ==
  ASSUME TableInv, PageTypes, AnswerInv, NEW f \in Frames, f \in shown, inbox[f] # <<>>,
         NEW labels \in SUBSET Labels, NEW new, new = AfterImmediate(f, labels)
  PROVE  /\ new \in [Frames -> Seq(Scripts)]
         /\ SlotsSuffice => \A g \in Frames : Own(new[g], g)
<1>1. PICK id \in Ids : id = Message(f).id
  BY MessageFacts
<1>2. PICK targets : targets = <<FirstReply(f), FindSlot(frames[f])>>
  OBVIOUS
<1>3. DOMAIN targets = 1 .. 2 /\ \A j \in 1 .. 2 : targets[j] \subseteq FindSlot(frames[f])
  <2>1. FirstReply(f) \subseteq FindSlot(frames[f])
    BY DEF FirstReply
  <2>2. DOMAIN targets = 1 .. 2 /\ targets[1] = FirstReply(f) /\ targets[2] = FindSlot(frames[f])
    BY <1>2
  <2>3. \A j \in 1 .. 2 : j = 1 \/ j = 2
    OBVIOUS
  <2> QED
    BY <2>1, <2>2, <2>3
<1>4. new = AfterRun(Response(f, id, "answer"), targets, Event(f, id), labels)
  BY <1>1, <1>2 DEF AfterImmediate
<1> HIDE <1>2
<1>5. "answer" \in {"answer", "async required"} /\ 2 \in Nat
  OBVIOUS
<1> QED
  BY <1>3, <1>4, <1>5, AnswersAreOwn

(* What every handler does with the pages.                                 *)
Handled(f) ==
  /\ UNCHANGED <<platform, budget, called, settled, heard>>
  /\ Taken(f)
  /\ scripts' \in [Frames -> Seq(Scripts)]
  /\ SlotsSuffice => \A g \in Frames : Own(scripts'[g], g)
  /\ deferred' \in Seq([frame: Frames, id: Ids])
  /\ frames # <<>> /\ Len(frames') \in Nat
  /\ Len(frames) <= Len(frames') /\ Len(frames') <= Len(frames) + 1

(* More windows do not make slots suffice.                                 *)
LEMMA SlotsGetScarce ==
  ASSUME TableInv, UNCHANGED platform,
         platform = "windows" \/ (Len(frames') \in Nat /\ Len(frames) <= Len(frames'))
  PROVE  SlotsSuffice' => SlotsSuffice
<1>1. MaxSlots[platform] \in Nat /\ Len(frames) \in Nat
  BY TableAssumption DEF TableInv, TableTypes
<1> QED
  BY <1>1 DEF SlotsSuffice

LEMMA HandledKeeps ==
  ASSUME TableInv, PageInv, AnswerInv, NEW f \in Frames, Handled(f)
  PROVE  PageInv' /\ AnswerInv'
<1>0. PageTypes /\ CallsCounted /\ FramesCounted /\ platform \in Platforms
  BY DEF PageInv, TableInv, TableTypes
<1>1. /\ inbox' \in [Frames -> Seq(Messages)] /\ InboxInv'
      /\ Cardinality(Undelivered)' \in Nat
      /\ Cardinality(Undelivered)' <= Cardinality(Undelivered) - 1
  <2>1. /\ called' = called /\ inbox' = [g \in Frames |-> inbox'[g]]
        /\ \A g \in Frames : \/ inbox'[g] \in {<<>>, inbox[g]}
                             \/ inbox[g] # <<>> /\ inbox'[g] = Tail(inbox[g])
        /\ inbox'[f] # inbox[f]
    BY DEF Handled, Taken
  <2> QED
    BY <1>0, <2>1, FewerMessages
<1>2. PageTypes'
  BY <1>0, <1>1 DEF PageTypes, Handled
<1>3. CallsCounted'
  BY <1>0 DEF CallsCounted, Handled
<1>4. FramesCounted'
  <2>1. /\ MaxCalls[platform] \in Nat /\ Len(Initial) \in Nat /\ budget \in Nat
        /\ Cardinality(Undelivered) \in Nat /\ Len(frames) \in Nat
    BY <1>0, PageBounds, UndeliveredFinite DEF TableInv, TableTypes
  <2>2. /\ budget' = budget /\ platform' = platform /\ frames # <<>> /\ Len(frames') \in Nat
        /\ Len(frames') <= Len(frames) + 1
    BY DEF Handled
  <2>3. /\ Cardinality(Undelivered) + budget <= MaxCalls[platform]
        /\ Len(frames) + Cardinality(Undelivered) + budget <= Len(Initial) + MaxCalls[platform]
    BY <1>0, <2>2 DEF FramesCounted
  <2>4. /\ Cardinality(Undelivered)' + budget' <= MaxCalls'[platform']
        /\ Len(frames') + Cardinality(Undelivered)' + budget' <= Len(Initial)' + MaxCalls'[platform']
    BY <1>1, <2>1, <2>2, <2>3, SMTT(30)
  <2> QED
    BY <2>4 DEF FramesCounted
<1>5. AnswerInv'
  <2>1. SlotsSuffice' => SlotsSuffice
    BY SlotsGetScarce DEF Handled
  <2> QED
    BY <2>1 DEF AnswerInv, Handled
<1> QED
  BY <1>1, <1>2, <1>3, <1>4, <1>5 DEF PageInv

LoopInv == HostInv /\ PageInv /\ AnswerInv

(* A page whose message is handled is that of a window.                    *)
LEMMA PageOfWindow ==
  ASSUME TableInv, NEW f, f \in shown
  PROVE  /\ frames # <<>> /\ frames \in Seq(Labels) /\ Len(frames) \in Nat
         /\ frames[f] \in Labels /\ platform \in Platforms
<1>1. frames \in Seq(Labels) /\ f \in DOMAIN frames /\ platform \in Platforms
  BY DEF TableInv, TableTypes
<1> QED
  BY <1>1, ElementOfSeq

(* Messages that change neither the windows nor the session.               *)
LEMMA QuietKeeps ==
  ASSUME LoopInv, NEW f \in Frames,
         HandleUnknownWindow(f) \/ HandleSync(f) \/ HandleAsync(f) \/ HandleEmit(f)
  PROVE  HostInv' /\ Handled(f)
<1>0. TableInv /\ HostInv /\ PageTypes /\ AnswerInv
  BY DEF LoopInv, HostInv, PageInv
<1>1. /\ f \in shown /\ inbox[f] # <<>> /\ inbox' = Received(f) /\ UNCHANGED hostVars
      /\ UNCHANGED <<budget, called, settled, heard>>
  BY DEF HandleUnknownWindow, HandleSync, HandleAsync, HandleEmit, ReceivesSync, Receives, pageVars
<1>2. HostInv' /\ UNCHANGED <<platform, frames>>
  BY <1>0, <1>1, HostStays DEF hostVars, tableVars
<1>3. frames # <<>> /\ Len(frames') \in Nat /\ Len(frames) <= Len(frames')
      /\ Len(frames') <= Len(frames) + 1 /\ platform \in Platforms /\ frames[f] \in Labels
  BY <1>0, <1>1, <1>2, PageOfWindow
<1>4. Taken(f)
  BY <1>0, <1>1, TakingOne
<1>5. /\ scripts' \in [Frames -> Seq(Scripts)]
      /\ SlotsSuffice => \A g \in Frames : Own(scripts'[g], g)
  <2>1. CASE UNCHANGED scripts
    BY <1>0, <2>1 DEF PageTypes, AnswerInv
  <2>2. CASE HandleSync(f)
    <3>1. scripts' = AfterImmediate(f, {}) /\ {} \in SUBSET Labels
      BY <2>2 DEF HandleSync
    <3> QED
      BY <1>0, <1>1, <3>1, ImmediateEffect
  <2>3. CASE HandleEmit(f)
    <3>1. scripts' = AfterImmediate(f, EventTargets(Message(f).command.label))
      BY <2>3 DEF HandleEmit
    <3>2. EventTargets(Message(f).command.label) \in SUBSET Labels
      BY <1>0 DEF EventTargets, HostInv, SessionInv
    <3> QED
      BY <1>0, <1>1, <3>1, <3>2, ImmediateEffect
  <2>4. CASE HandleAsync(f) /\ platform = "windows"
    <3>1. PICK id \in Ids : id = Message(f).id
      BY <1>0, <1>1, MessageFacts
    <3>2. PICK targets : targets = <<FindSlot(frames[f])>>
      OBVIOUS
    <3>3. DOMAIN targets = 1 .. 1 /\ \A j \in 1 .. 1 : targets[j] \subseteq FindSlot(frames[f])
      <4>1. DOMAIN targets = 1 .. 1 /\ targets[1] = FindSlot(frames[f])
        BY <3>2
      <4>2. \A j \in 1 .. 1 : j = 1
        OBVIOUS
      <4> QED
        BY <4>1, <4>2
    <3>4. scripts' = AfterRun(Response(f, id, "async required"), targets, Event(f, id), {})
      BY <2>4, <3>1, <3>2 DEF HandleAsync
    <3>5. "async required" \in {"answer", "async required"} /\ 1 \in Nat /\ {} \in SUBSET Labels
      OBVIOUS
    <3> HIDE <3>2
    <3> QED
      BY <1>0, <1>1, <3>3, <3>4, <3>5, AnswersAreOwn
  <2>5. UNCHANGED scripts \/ HandleSync(f) \/ HandleEmit(f) \/ (HandleAsync(f) /\ platform = "windows")
    BY DEF HandleUnknownWindow, HandleAsync
  <2> QED
    BY <2>1, <2>2, <2>3, <2>4, <2>5
<1>6. deferred' \in Seq([frame: Frames, id: Ids])
  <2>1. deferred' = deferred \/ deferred' = Append(deferred, Task(f))
    BY DEF HandleUnknownWindow, HandleSync, HandleAsync, HandleEmit, ReceivesSync, pageVars
  <2>2. Task(f) \in [frame: Frames, id: Ids]
    BY <1>0, <1>1, MessageFacts DEF Task
  <2>3. deferred \in Seq([frame: Frames, id: Ids])
    BY <1>0 DEF PageTypes
  <2>4. \A S : \A list \in Seq(S), t \in S : Append(list, t) \in Seq(S)
    OBVIOUS
  <2>5. Append(deferred, Task(f)) \in Seq([frame: Frames, id: Ids])
    BY <2>2, <2>3, <2>4, Zenon
  <2> QED
    BY <2>1, <2>3, <2>5, Zenon
<1> QED
  BY <1>1, <1>2, <1>3, <1>4, <1>5, <1>6 DEF Handled

(* window.open.                                                            *)
LEMMA OpenKeeps ==
  ASSUME LoopInv, NEW f \in Frames, HandleOpen(f)
  PROVE  HostInv' /\ Handled(f)
<1>0. TableInv /\ HostInv /\ PageTypes /\ AnswerInv
  BY DEF LoopInv, HostInv, PageInv
<1>1. /\ f \in shown /\ inbox[f] # <<>> /\ inbox' = Received(f) /\ running
      /\ UNCHANGED <<budget, called, settled, heard, deferred>>
      /\ scripts' = AfterImmediate(f, {}) /\ {} \in SUBSET Labels
      /\ OpenFollowup(Message(f).command.label) /\ Message(f).command.name = "open"
  BY DEF HandleOpen, ReceivesSync, Receives, pageVars
<1>2. frames # <<>> /\ frames \in Seq(Labels) /\ Len(frames) \in Nat
  BY <1>0, <1>1, PageOfWindow
<1>3. PICK label \in Labels : label = Message(f).command.label
  BY <1>0, <1>1, MessageFacts
<1>4. HostInv' /\ Opened(label)
  BY <1>0, <1>1, <1>2, <1>3, FollowupKeeps
<1>5. platform' = platform /\ Len(frames') \in Nat /\ Len(frames) <= Len(frames')
      /\ Len(frames') <= Len(frames) + 1
  BY <1>2, <1>4 DEF Opened, tableVars
<1>6. Taken(f)
  BY <1>0, <1>1, TakingOne
<1>7. /\ scripts' \in [Frames -> Seq(Scripts)]
      /\ SlotsSuffice => \A g \in Frames : Own(scripts'[g], g)
  BY <1>0, <1>1, ImmediateEffect
<1>8. deferred' \in Seq([frame: Frames, id: Ids])
  BY <1>0, <1>1 DEF PageTypes
<1> QED
  BY <1>1, <1>2, <1>4, <1>5, <1>6, <1>7, <1>8 DEF Handled

(* window.close, app.exit and app.restart destroy the windows found.       *)
LEMMA CloseFoundKeeps ==
  ASSUME LoopInv, NEW f \in Frames, f \in shown, inbox[f] # <<>>, NEW found,
         CloseFound(f, found), UNCHANGED <<budget, called, settled, heard, deferred>>,
         HostInv', UNCHANGED <<platform, frames>>
  PROVE  Handled(f)
<1>0. TableInv /\ PageTypes /\ AnswerInv
  BY DEF LoopInv, HostInv, PageInv
<1>1. frames # <<>> /\ Len(frames') \in Nat /\ Len(frames) <= Len(frames')
      /\ Len(frames') <= Len(frames) + 1
  BY <1>0, PageOfWindow
<1>2. Taken(f)
  BY <1>0, TakingOne DEF CloseFound
<1>3. PICK new : new = AfterImmediate(f, {})
  OBVIOUS
<1>4. /\ new \in [Frames -> Seq(Scripts)]
      /\ SlotsSuffice => \A g \in Frames : Own(new[g], g)
  BY <1>0, <1>3, ImmediateEffect
<1>5. scripts' = [g \in Frames |-> IF g \in found THEN <<>> ELSE new[g]]
  BY <1>3 DEF CloseFound, WithoutPages
<1>6. scripts' \in [Frames -> Seq(Scripts)]
  BY <1>4, <1>5
<1>7. SlotsSuffice => \A g \in Frames : Own(scripts'[g], g)
  <2>1. ASSUME SlotsSuffice, NEW g \in Frames PROVE Own(scripts'[g], g)
    <3>1. CASE g \in found
      BY <1>5, <3>1 DEF Own
    <3>2. CASE g \notin found
      BY <1>4, <1>5, <2>1, <3>2
    <3> QED
      BY <3>1, <3>2
  <2> QED
    BY <2>1
<1>8. deferred' \in Seq([frame: Frames, id: Ids])
  BY <1>0 DEF PageTypes
<1> QED
  BY <1>1, <1>2, <1>6, <1>7, <1>8 DEF Handled

LEMMA ClosingKeeps ==
  ASSUME LoopInv, NEW f \in Frames, HandleClose(f) \/ HandleExit(f) \/ HandleRestart(f)
  PROVE  HostInv' /\ Handled(f)
<1>0. TableInv /\ HostInv /\ PageTypes /\ AnswerInv
  BY DEF LoopInv, HostInv, PageInv
<1>1. /\ f \in shown /\ inbox[f] # <<>> /\ running
      /\ UNCHANGED <<budget, called, settled, heard, deferred>>
  BY DEF HandleClose, HandleExit, HandleRestart, ReceivesSync, Receives, pageVars
<1>2. frames # <<>>
  BY <1>0, <1>1, PageOfWindow
<1>3. CASE HandleClose(f)
  <2>1. /\ Message(f).command.name = "close" /\ CloseFound(f, ClosedBy(Message(f).command.label))
        /\ session' = session \ {Message(f).command.label} /\ spawned' = spawned
    BY <1>3 DEF HandleClose, ReceivesSync, Receives
  <2>2. PICK label \in Labels : label = Message(f).command.label
    BY <1>0, <1>1, <2>1, MessageFacts
  <2>3. PICK found : found = ClosedBy(label)
    OBVIOUS
  <2>4. CloseFound(f, found) /\ session' = session \ {label}
    BY <2>1, <2>2, <2>3
  <2>5. Destroy(found)
    BY <2>4 DEF CloseFound
  <2>6. \A g \in Slotted \cap shown : frames[g] = label => g \in found
    BY <1>0, <2>3, ClosedIsOne
  <2>7. HostInv' /\ UNCHANGED <<platform, frames>>
    BY <1>0, <1>2, <2>1, <2>4, <2>5, <2>6, GoingKeeps
  <2> QED
    BY <1>1, <2>4, <2>7, CloseFoundKeeps
<1>4. CASE CloseFound(f, AllSlots) /\ UNCHANGED <<session, spawned>>
  <2>1. HostInv' /\ UNCHANGED <<platform, frames>>
    BY <1>0, <1>4, GoingKeeps DEF CloseFound
  <2> QED
    BY <1>1, <1>4, <2>1, CloseFoundKeeps
<1>5. CASE CloseFound(f, AllSlots) /\ spawned' = spawned + 1 /\ session' = session
  <2>1. HostInv' /\ UNCHANGED <<platform, frames>>
    BY <1>0, <1>1, <1>2, <1>5, ReplacedKeeps DEF CloseFound
  <2> QED
    BY <1>1, <1>5, <2>1, CloseFoundKeeps
<1>6. CASE inbox' = Received(f) /\ scripts' = AfterImmediate(f, {}) /\ UNCHANGED hostVars
  <2>1. HostInv' /\ UNCHANGED <<platform, frames>>
    BY <1>0, <1>6, HostStays DEF hostVars, tableVars
  <2>2. frames # <<>> /\ Len(frames') \in Nat /\ Len(frames) <= Len(frames')
        /\ Len(frames') <= Len(frames) + 1
    BY <1>0, <1>1, <2>1, PageOfWindow
  <2>3. Taken(f)
    BY <1>0, <1>1, <1>6, TakingOne
  <2>4. /\ scripts' \in [Frames -> Seq(Scripts)]
        /\ SlotsSuffice => \A g \in Frames : Own(scripts'[g], g)
    <3>1. {} \in SUBSET Labels
      OBVIOUS
    <3> QED
      BY <1>0, <1>1, <1>6, <3>1, ImmediateEffect
  <2>5. deferred' \in Seq([frame: Frames, id: Ids])
    BY <1>0, <1>1 DEF PageTypes
  <2> QED
    BY <1>1, <2>1, <2>2, <2>3, <2>4, <2>5 DEF Handled
<1> QED
  BY <1>3, <1>4, <1>5, <1>6 DEF HandleExit, HandleRestart

LEMMA HandleKeeps ==
  ASSUME LoopInv, NEW f \in Frames, Handle(f)
  PROVE  LoopInv'
<1>1. HostInv' /\ Handled(f)
  BY QuietKeeps, OpenKeeps, ClosingKeeps DEF Handle
<1> QED
  BY <1>1, HandledKeeps DEF LoopInv, HostInv

-----------------------------------------------------------------------------
(* A page calls: one less of the budget, one more message.                 *)
LEMMA CallKeeps ==
  ASSUME LoopInv, NEW f \in Frames, NEW command \in Commands, Call(f, command)
  PROVE  LoopInv'
<1> DEFINE id == called[f] + 1
           message == [id |-> id, command |-> command]
<1>0. HostInv /\ TableInv /\ PageTypes /\ CallsCounted /\ InboxInv /\ FramesCounted /\ AnswerInv
      /\ platform \in Platforms
  BY DEF LoopInv, HostInv, PageInv, TableInv, TableTypes
<1>1. /\ budget > 0 /\ budget' = budget - 1
      /\ called' = [called EXCEPT ![f] = called[f] + 1]
      /\ inbox' = [inbox EXCEPT ![f] = Append(inbox[f], message)]
      /\ UNCHANGED <<hostVars, deferred, scripts, settled, heard>>
  BY DEF Call
<1>2. HostInv' /\ UNCHANGED <<platform, frames>>
  BY <1>0, <1>1, HostStays DEF hostVars, tableVars
<1>3. /\ MaxCalls[platform] \in Nat /\ MostCalls \in Nat /\ MaxCalls[platform] <= MostCalls
      /\ Len(Initial) \in Nat /\ budget \in Nat /\ Ids = 1 .. MostCalls
      /\ called[f] \in Nat /\ called[f] + budget <= MaxCalls[platform]
  BY <1>0, PageBounds DEF PageTypes, CallsCounted
<1>4. id \in Ids /\ id \in 0 .. MaxCalls[platform] /\ message \in Messages
  <2>1. id \in Ids /\ id \in 0 .. MaxCalls[platform]
    BY <1>1, <1>3
  <2> QED
    BY <2>1 DEF Messages
<1>5. /\ called' \in [Frames -> 0 .. MaxCalls[platform]] /\ budget' \in 0 .. MaxCalls[platform]
      /\ called'[f] = id /\ \A g \in Frames \ {f} : called'[g] = called[g]
  <2>1. called \in [Frames -> 0 .. MaxCalls[platform]] /\ budget \in 0 .. MaxCalls[platform]
    BY <1>0 DEF PageTypes
  <2>2. budget' \in 0 .. MaxCalls[platform]
    BY <1>1, <1>3, <2>1
  <2>3. called' \in [Frames -> 0 .. MaxCalls[platform]]
    <3>1. called' = [called EXCEPT ![f] = id] /\ id \in 0 .. MaxCalls[platform]
      BY <1>1, <1>4
    <3> HIDE DEF id
    <3> QED
      BY <2>1, <3>1
  <2> QED
    BY <1>1, <2>1, <2>2, <2>3
<1> HIDE DEF message
<1>6. PICK list \in Seq(Messages), longer \in Seq(Messages) :
        /\ list = inbox[f] /\ longer = Append(list, message) /\ longer = inbox'[f]
        /\ DOMAIN list = 1 .. Len(list) /\ Len(list) \in Nat /\ Len(longer) = Len(list) + 1
        /\ DOMAIN longer = 1 .. Len(list) + 1 /\ longer[Len(list) + 1] = message
        /\ \A i \in DOMAIN list : longer[i] = list[i]
  <2>1. PICK list \in Seq(Messages) : list = inbox[f]
    BY <1>0 DEF PageTypes
  <2>2. inbox'[f] = Append(list, message)
    BY <1>0, <1>1, <2>1 DEF PageTypes
  <2>3. PICK longer \in Seq(Messages) : longer = Append(list, message)
    <3>1. \A S : \A l \in Seq(S), m \in S : Append(l, m) \in Seq(S)
      OBVIOUS
    <3>2. list \in Seq(Messages) /\ message \in Messages
      BY <1>4
    <3>3. Append(list, message) \in Seq(Messages)
      BY <3>1, <3>2, Zenon
    <3> QED
      BY <3>3
  <2>4. /\ DOMAIN list = 1 .. Len(list) /\ Len(list) \in Nat /\ Len(longer) = Len(list) + 1
        /\ DOMAIN longer = 1 .. Len(list) + 1 /\ longer[Len(list) + 1] = message
        /\ \A i \in DOMAIN list : longer[i] = list[i]
    BY <2>3, <1>4
  <2> QED
    BY <2>1, <2>2, <2>3, <2>4
<1>7. inbox' \in [Frames -> Seq(Messages)] /\ \A g \in Frames \ {f} : inbox'[g] = inbox[g]
  <2>1. inbox \in [Frames -> Seq(Messages)] /\ inbox' = [inbox EXCEPT ![f] = longer]
    BY <1>0, <1>1, <1>6 DEF PageTypes
  <2> QED
    BY <2>1
<1>8. PageTypes'
  BY <1>0, <1>1, <1>2, <1>5, <1>7 DEF PageTypes
<1>9. CallsCounted'
  <2>1. ASSUME NEW g \in Frames PROVE called'[g] + budget' <= MaxCalls[platform]
    <3>1. called[g] \in Nat /\ called[g] + budget <= MaxCalls[platform]
      BY <1>0, <1>3 DEF PageTypes, CallsCounted
    <3> QED
      BY <1>1, <1>3, <1>5, <3>1
  <2> QED
    BY <1>2, <2>1 DEF CallsCounted
<1>10. message.id = id
  BY DEF message
<1>11. InboxInv'
  <2>1. InOrder(list, called[f])
    BY <1>0, <1>6 DEF InboxInv
  <2>2. \A i \in DOMAIN list : list[i].id \in Nat /\ list[i].id <= called[f]
    <3>1. \A i \in DOMAIN list : list[i] \in Messages
      BY <1>6, ElementOfSeq
    <3> QED
      BY <2>1, <3>1, IdsAreNumbers DEF Messages, InOrder
  <2>3. \A i \in DOMAIN longer : (i \in DOMAIN list /\ i < Len(list) + 1) \/ i = Len(list) + 1
    BY <1>6
  <2>4. ASSUME NEW i \in DOMAIN longer PROVE longer[i].id <= id
    <3>1. CASE i \in DOMAIN list
      <4>1. longer[i].id = list[i].id
        BY <1>6, <3>1
      <4>2. list[i].id \in Nat /\ list[i].id <= called[f]
        BY <2>2, <3>1
      <4> QED
        BY <1>3, <4>1, <4>2
    <3>2. CASE i = Len(list) + 1
      <4>1. longer[i].id = id
        BY <1>6, <1>10, <3>2
      <4> QED
        BY <1>3, <4>1
    <3> QED
      BY <2>3, <3>1, <3>2
  <2>5. \A i, j \in DOMAIN longer : i < j => longer[i].id < longer[j].id
    <3>1. ASSUME NEW i \in DOMAIN longer, NEW j \in DOMAIN longer, i < j
          PROVE  longer[i].id < longer[j].id
      <4>1. i \in DOMAIN list /\ i \in Nat /\ j \in Nat
        BY <1>6, <3>1
      <4>2. CASE j \in DOMAIN list
        BY <1>6, <2>1, <3>1, <4>1, <4>2 DEF InOrder
      <4>3. CASE j = Len(list) + 1
        <5>1. longer[j].id = id /\ longer[i] = list[i]
          BY <1>6, <1>10, <4>1, <4>3
        <5>2. list[i].id \in Nat /\ list[i].id <= called[f]
          BY <2>2, <4>1
        <5> QED
          BY <1>3, <5>1, <5>2, SMTT(30)
      <4> QED
        BY <2>3, <4>2, <4>3
    <3> QED
      BY <3>1
  <2>6. InOrder(longer, id)
    BY <2>4, <2>5 DEF InOrder
  <2> QED
    BY <1>0, <1>5, <1>6, <1>7, <2>6 DEF InboxInv
<1>12. FramesCounted'
  <2>1. IsFiniteSet(Undelivered) /\ Cardinality(Undelivered) \in Nat /\ Len(frames) \in Nat
    BY <1>0, UndeliveredFinite DEF TableInv, TableTypes
  <2>2. Undelivered' \subseteq Undelivered \cup {<<f, id>>}
    <3>1. ASSUME NEW u \in Undelivered' PROVE u \in Undelivered \cup {<<f, id>>}
      <4>1. u \in Frames \X Ids /\ u[1] \in Frames /\ u = <<u[1], u[2]>>
        BY <3>1 DEF Undelivered
      <4>2. PICK i \in DOMAIN inbox'[u[1]] : inbox'[u[1]][i].id = u[2]
        BY <3>1 DEF Undelivered, Waiting
      <4>3. CASE u[1] # f
        BY <1>7, <4>1, <4>2, <4>3, SMTT(30) DEF Undelivered, Waiting
      <4>4. CASE u[1] = f
        <5>1. i \in DOMAIN longer /\ longer[i].id = u[2]
          BY <1>6, <4>2, <4>4
        <5>2. CASE i = Len(list) + 1
          BY <1>6, <1>10, <4>1, <4>4, <5>1, <5>2
        <5>3. CASE i \in DOMAIN list
          BY <1>6, <4>1, <4>4, <5>1, <5>3 DEF Undelivered, Waiting
        <5> QED
          BY <1>6, <5>1, <5>2, <5>3
      <4> QED
        BY <4>3, <4>4
    <3> QED
      BY <3>1
  <2>3. PICK more : more = Undelivered \cup {<<f, id>>}
    OBVIOUS
  <2>4. IsFiniteSet(more) /\ Cardinality(more) \in Nat
        /\ Cardinality(more) <= Cardinality(Undelivered) + 1
    <3>1. PICK u : u = <<f, id>>
      OBVIOUS
    <3>2. more = Undelivered \cup {u}
      BY <2>3, <3>1
    <3>3. IsFiniteSet(more) /\ Cardinality(more) \in {Cardinality(Undelivered), Cardinality(Undelivered) + 1}
      BY <2>1, <3>2, FS_AddElement
    <3>4. PICK n \in Nat : n = Cardinality(Undelivered)
      BY <2>1
    <3>5. n \in Nat /\ n + 1 \in Nat /\ n <= n + 1 /\ n + 1 <= n + 1
      OBVIOUS
    <3> QED
      BY <3>3, <3>4, <3>5
  <2>5. Cardinality(Undelivered)' \in Nat /\ Cardinality(Undelivered)' <= Cardinality(more)
    BY <2>2, <2>3, <2>4, FS_Subset, FS_CardinalityType
  <2>6. /\ Cardinality(Undelivered) + budget <= MaxCalls[platform]
        /\ frames # <<>> =>
             Len(frames) + Cardinality(Undelivered) + budget <= Len(Initial) + MaxCalls[platform]
    BY <1>0 DEF FramesCounted
  <2>7. /\ Cardinality(Undelivered)' + budget' <= MaxCalls[platform]
        /\ frames # <<>> =>
             Len(frames) + Cardinality(Undelivered)' + budget' <= Len(Initial) + MaxCalls[platform]
    <3>1. PICK before \in Nat, after \in Nat, frameCount \in Nat :
            /\ before = Cardinality(Undelivered) /\ after = Cardinality(Undelivered)'
            /\ frameCount = Len(frames)
      BY <2>1, <2>5
    <3>2. after <= before + 1
      BY <2>4, <2>5, <3>1
    <3>3. PICK left \in Nat, most \in Nat, first \in Nat :
            left = budget /\ most = MaxCalls[platform] /\ first = Len(Initial)
      BY <1>3
    <3>4. budget' = left - 1 /\ left > 0
      BY <1>1, <3>3
    <3>5. before + left <= most /\ (frames # <<>> => frameCount + before + left <= first + most)
      BY <2>6, <3>1, <3>3
    <3>6. after + (left - 1) <= most
          /\ (frames # <<>> => frameCount + after + (left - 1) <= first + most)
      BY <3>2, <3>5
    <3> QED
      BY <3>1, <3>3, <3>4, <3>6
  <2> QED
    BY <1>2, <2>7 DEF FramesCounted
<1>13. AnswerInv'
  <2>1. SlotsSuffice' <=> SlotsSuffice
    BY <1>2 DEF SlotsSuffice
  <2> QED
    BY <1>0, <1>1, <2>1 DEF AnswerInv
<1> QED
  BY <1>2, <1>8, <1>9, <1>11, <1>12, <1>13 DEF LoopInv, PageInv

(* Steps of other actors than the loop's message handlers, which leave the *)
(* calls of the pages alone.                                               *)
LEMMA BoundsStay ==
  ASSUME LoopInv, TableInv', UNCHANGED <<platform, budget, called, deferred, settled, heard>>,
         inbox' = [g \in Frames |-> inbox'[g]],
         \A g \in Frames : inbox'[g] \in {<<>>, inbox[g]},
         scripts' = [g \in Frames |-> scripts'[g]],
         \A g \in Frames : scripts'[g] \in {<<>>, scripts[g]},
         UNCHANGED frames \/ (frames = <<>> /\ Len(frames') <= Len(Initial))
  PROVE  PageInv' /\ AnswerInv'
<1>0. TableInv /\ PageInv /\ PageTypes /\ CallsCounted /\ FramesCounted /\ AnswerInv
      /\ platform \in Platforms
  BY DEF LoopInv, HostInv, PageInv, TableInv, TableTypes
<1>1. /\ inbox' \in [Frames -> Seq(Messages)] /\ InboxInv'
      /\ Cardinality(Undelivered)' \in Nat
      /\ Cardinality(Undelivered)' <= Cardinality(Undelivered)
  BY <1>0, FewerMessages
<1>2. /\ Len(frames) \in Nat /\ Len(frames') \in Nat /\ Len(frames) <= Len(frames')
      /\ frames = <<>> => Len(frames) = 0
  <2>1. frames \in Seq(Labels) /\ frames' \in Seq(Labels)
    BY <1>0 DEF TableInv, TableTypes
  <2>2. Len(frames) \in Nat /\ Len(frames') \in Nat /\ (frames = <<>> => Len(frames) = 0)
    BY <2>1
  <2>3. CASE UNCHANGED frames
    BY <2>2, <2>3
  <2>4. CASE frames = <<>>
    BY <2>2, <2>4
  <2> QED
    BY <2>2, <2>3, <2>4
<1>3. PageTypes'
  <2>0. \A g \in Frames : scripts[g] \in Seq(Scripts)
    BY <1>0 DEF PageTypes
  <2>1. ASSUME NEW g \in Frames PROVE scripts'[g] \in Seq(Scripts)
    <3>1. <<>> \in Seq(Scripts) /\ scripts[g] \in Seq(Scripts)
      BY <2>0
    <3>2. scripts'[g] = <<>> \/ scripts'[g] = scripts[g]
      OBVIOUS
    <3> QED
      BY <3>1, <3>2
  <2>2. scripts' \in [Frames -> Seq(Scripts)]
    BY <2>1
  <2> QED
    BY <1>0, <1>1, <2>2 DEF PageTypes
<1>4. CallsCounted'
  BY <1>0 DEF CallsCounted
<1>5. FramesCounted'
  <2>1. /\ MaxCalls[platform] \in Nat /\ Len(Initial) \in Nat /\ budget \in Nat
        /\ Cardinality(Undelivered) \in Nat
    BY <1>0, PageBounds, UndeliveredFinite
  <2>2. /\ Cardinality(Undelivered) + budget <= MaxCalls[platform]
        /\ frames # <<>> =>
             Len(frames) + Cardinality(Undelivered) + budget <= Len(Initial) + MaxCalls[platform]
    BY <1>0 DEF FramesCounted
  <2>3. Cardinality(Undelivered)' + budget' <= MaxCalls[platform]
    BY <1>1, <2>1, <2>2
  <2>4. frames' # <<>> =>
          Len(frames') + Cardinality(Undelivered)' + budget' <= Len(Initial) + MaxCalls[platform]
    BY <1>1, <1>2, <2>1, <2>2, SMTT(30)
  <2> QED
    BY <2>3, <2>4 DEF FramesCounted
<1>6. AnswerInv'
  <2>1. SlotsSuffice' => SlotsSuffice
    BY <1>0, <1>2, SlotsGetScarce
  <2>2. ASSUME SlotsSuffice, NEW g \in Frames PROVE Own(scripts'[g], g)
    <3>1. CASE scripts'[g] = <<>>
      BY <3>1 DEF Own
    <3>2. CASE scripts'[g] = scripts[g]
      BY <1>0, <2>2, <3>2 DEF AnswerInv
    <3> QED
      BY <3>1, <3>2
  <2> QED
    BY <1>0, <2>1, <2>2 DEF AnswerInv
<1> QED
  BY <1>1, <1>3, <1>4, <1>5, <1>6 DEF PageInv

(* A window goes, by the user or because it got no view.                   *)
LEMMA GoesKeeps ==
  ASSUME LoopInv, NEW f \in Frames, WindowGoes(f)
  PROVE  LoopInv'
<1>0. HostInv /\ PageTypes
  BY DEF LoopInv, PageInv
<1>1. /\ Destroy({f}) /\ UNCHANGED <<session, spawned, deferred, budget, called, settled, heard>>
      /\ inbox' = WithoutPages({f}, inbox) /\ scripts' = WithoutPages({f}, scripts)
  BY DEF WindowGoes, pageVars
<1>2. HostInv' /\ UNCHANGED <<platform, frames>>
  BY <1>0, <1>1, GoingKeeps
<1>3. /\ inbox' = [g \in Frames |-> inbox'[g]]
      /\ \A g \in Frames : inbox'[g] \in {<<>>, inbox[g]}
      /\ scripts' = [g \in Frames |-> scripts'[g]]
      /\ \A g \in Frames : scripts'[g] \in {<<>>, scripts[g]}
  BY <1>1 DEF WithoutPages
<1> QED
  BY <1>1, <1>2, <1>3, BoundsStay DEF LoopInv, HostInv

(* WebView2 calls back.                                                    *)
LEMMA AnswersOfViewsKeep ==
  ASSUME LoopInv, EnvironmentAnswers \/ \E f \in Frames : ViewAnswers(f)
  PROVE  LoopInv'
<1>0. HostInv /\ PageTypes
  BY DEF LoopInv, PageInv
<1>1. /\ EnvironmentFails \/ EnvironmentReady \/ \E f \in Frames : ViewReady(f) \/ ViewFails(f)
      /\ UNCHANGED <<session, spawned, deferred, budget, called, settled, heard, inbox, scripts>>
  BY DEF EnvironmentAnswers, ViewAnswers, pageVars
<1>2. /\ HostInv' /\ UNCHANGED platform
      /\ UNCHANGED frames \/ (frames = <<>> /\ Len(frames') <= Len(Initial))
  BY <1>0, <1>1, CallbackKeeps
<1>3. /\ inbox' = [g \in Frames |-> inbox'[g]] /\ \A g \in Frames : inbox'[g] \in {<<>>, inbox[g]}
      /\ scripts' = [g \in Frames |-> scripts'[g]]
      /\ \A g \in Frames : scripts'[g] \in {<<>>, scripts[g]}
  BY <1>0, <1>1 DEF PageTypes
<1> QED
  BY <1>1, <1>2, <1>3, BoundsStay DEF LoopInv, HostInv

(* A page evaluates a script: an answer settles the call it is for, which  *)
(* is one that nothing settled before.                                     *)
LEMMA EvaluateKeeps ==
  ASSUME LoopInv, NEW f \in Frames, Evaluate(f)
  PROVE  LoopInv'
<1>0. HostInv /\ TableInv /\ PageTypes /\ CallsCounted /\ InboxInv /\ FramesCounted /\ AnswerInv
  BY DEF LoopInv, HostInv, PageInv
<1>1. /\ UNCHANGED <<hostVars, deferred, budget, called, inbox>>
      /\ scripts[f] # <<>> /\ scripts' = [scripts EXCEPT ![f] = Tail(scripts[f])]
  BY DEF Evaluate
<1>2. HostInv' /\ UNCHANGED <<platform, frames>>
  BY <1>0, <1>1, HostStays DEF hostVars, tableVars
<1>3. PICK list \in Seq(Scripts), script \in Scripts :
        /\ list = scripts[f] /\ list # <<>> /\ script = Head(list) /\ script = list[1]
        /\ 1 \in DOMAIN list /\ Tail(list) \in Seq(Scripts)
        /\ \A i \in DOMAIN Tail(list) : i + 1 \in DOMAIN list /\ Tail(list)[i] = list[i + 1]
  <2>1. PICK list \in Seq(Scripts) : list = scripts[f] /\ list # <<>>
    BY <1>0, <1>1 DEF PageTypes
  <2>2. /\ Head(list) \in Scripts /\ Head(list) = list[1] /\ 1 \in DOMAIN list
        /\ Tail(list) \in Seq(Scripts)
        /\ \A i \in DOMAIN Tail(list) : i + 1 \in DOMAIN list /\ Tail(list)[i] = list[i + 1]
    BY <2>1
  <2> QED
    BY <2>1, <2>2
<1>4. scripts' \in [Frames -> Seq(Scripts)]
      /\ scripts'[f] = Tail(list) /\ \A g \in Frames \ {f} : scripts'[g] = scripts[g]
  <2>1. scripts' = [scripts EXCEPT ![f] = Tail(list)] /\ scripts \in [Frames -> Seq(Scripts)]
    BY <1>0, <1>1, <1>3 DEF PageTypes
  <2> QED
    BY <1>3, <2>1
<1>5. \/ /\ script.kind = "response" /\ UNCHANGED heard
         /\ settled' = settled \/ (Pending(f, script.id)
                                   /\ settled' = [settled EXCEPT ![f] = Append(settled[f], script)])
      \/ /\ script.kind = "event" /\ UNCHANGED settled
         /\ heard' = [heard EXCEPT ![f] = Append(heard[f], script)]
  BY <1>3 DEF Evaluate, Settle
<1>6. (script.kind = "response" => script \in Responses) /\ (script.kind = "event" => script \in Events)
  BY DEF Scripts, Responses, Events
<1>7. \A S : \A l \in Seq(S), m \in S : Append(l, m) \in Seq(S)
  OBVIOUS
<1>8. heard' \in [Frames -> Seq(Events)]
  <2>1. heard \in [Frames -> Seq(Events)]
    BY <1>0 DEF PageTypes
  <2>2. CASE UNCHANGED heard
    BY <2>1, <2>2
  <2>3. CASE script \in Events /\ heard' = [heard EXCEPT ![f] = Append(heard[f], script)]
    <3>1. PICK more \in Seq(Events) : more = Append(heard[f], script)
      BY <1>7, <2>1, <2>3, Zenon
    <3>2. heard' = [heard EXCEPT ![f] = more]
      BY <2>3, <3>1
    <3> QED
      BY <2>1, <3>2
  <2> QED
    BY <1>5, <1>6, <2>2, <2>3
<1>9. /\ settled' \in [Frames -> Seq(Responses)]
      /\ SlotsSuffice => \A g \in Frames : \A i \in DOMAIN settled'[g] : settled'[g][i].frame = g
      /\ \A g \in Frames : \A i, j \in DOMAIN settled'[g] :
           settled'[g][i].id = settled'[g][j].id => i = j
  <2>1. settled \in [Frames -> Seq(Responses)]
    BY <1>0 DEF PageTypes
  <2>2. CASE UNCHANGED settled
    BY <1>0, <2>1, <2>2 DEF AnswerInv
  <2>3. CASE /\ script.kind = "response" /\ Pending(f, script.id)
             /\ settled' = [settled EXCEPT ![f] = Append(settled[f], script)]
    <3>1. PICK old \in Seq(Responses) : old = settled[f]
      BY <2>1
    <3>2. PICK more \in Seq(Responses) : more = Append(old, script)
      BY <1>6, <1>7, <2>3, Zenon
    <3>3. settled' = [settled EXCEPT ![f] = more]
      BY <2>3, <3>1, <3>2
    <3>4. settled' \in [Frames -> Seq(Responses)]
          /\ settled'[f] = more /\ \A g \in Frames \ {f} : settled'[g] = settled[g]
      BY <2>1, <3>3
    <3>5. /\ \A i \in DOMAIN old : more[i] = old[i] /\ old[i].id # script.id
          /\ \A i \in DOMAIN more : i \in DOMAIN old \/ i = Len(old) + 1
          /\ more[Len(old) + 1] = script
      <4>1. \A i \in DOMAIN old : old[i].id # script.id
        BY <2>3, <3>1 DEF Pending
      <4>2. /\ \A i \in DOMAIN old : more[i] = old[i]
            /\ \A i \in DOMAIN more : i \in DOMAIN old \/ i = Len(old) + 1
            /\ more[Len(old) + 1] = script
        BY <3>2
      <4> QED
        BY <4>1, <4>2
    <3>6. \A i, j \in DOMAIN more : more[i].id = more[j].id => i = j
      <4>1. \A i, j \in DOMAIN old : old[i].id = old[j].id => i = j
        BY <1>0, <3>1 DEF AnswerInv
      <4> QED
        BY <3>5, <4>1
    <3>7. SlotsSuffice => \A i \in DOMAIN more : more[i].frame = f
      <4>1. SlotsSuffice => script.frame = f
        BY <1>0, <1>3, <2>3 DEF AnswerInv, Own
      <4>2. SlotsSuffice => \A i \in DOMAIN old : old[i].frame = f
        BY <1>0, <3>1 DEF AnswerInv
      <4> QED
        BY <3>5, <4>1, <4>2
    <3>8. ASSUME NEW g \in Frames
          PROVE  /\ SlotsSuffice => \A i \in DOMAIN settled'[g] : settled'[g][i].frame = g
                 /\ \A i, j \in DOMAIN settled'[g] :
                      settled'[g][i].id = settled'[g][j].id => i = j
      <4>1. CASE g = f
        BY <3>4, <3>6, <3>7, <4>1
      <4>2. CASE g # f
        BY <1>0, <3>4, <4>2 DEF AnswerInv
      <4> QED
        BY <4>1, <4>2
    <3> QED
      BY <3>4, <3>8
  <2> QED
    BY <1>5, <2>2, <2>3
<1>10. SlotsSuffice => \A g \in Frames : Own(scripts'[g], g)
  <2>1. ASSUME SlotsSuffice, NEW g \in Frames PROVE Own(scripts'[g], g)
    <3>1. Own(scripts[g], g)
      BY <1>0, <2>1 DEF AnswerInv
    <3>2. CASE g = f
      <4>1. \A i \in DOMAIN list : list[i].kind = "response" => list[i].frame = f
        BY <1>3, <3>1, <3>2 DEF Own
      <4>2. PICK rest : rest = Tail(list)
        OBVIOUS
      <4>3. \A i \in DOMAIN rest : i + 1 \in DOMAIN list /\ rest[i] = list[i + 1]
        BY <1>3, <4>2
      <4>4. \A i \in DOMAIN rest : rest[i].kind = "response" => rest[i].frame = f
        BY <4>1, <4>3
      <4> QED
        BY <1>4, <3>2, <4>2, <4>4 DEF Own
    <3>3. CASE g # f
      BY <1>4, <3>1, <3>3
    <3> QED
      BY <3>2, <3>3
  <2> QED
    BY <2>1
<1>11. SlotsSuffice' <=> SlotsSuffice
  BY <1>2 DEF SlotsSuffice
<1>12. PageTypes'
  BY <1>0, <1>1, <1>2, <1>4, <1>8, <1>9 DEF PageTypes
<1>13. AnswerInv'
  BY <1>9, <1>10, <1>11 DEF AnswerInv
<1>14. CallsCounted' /\ InboxInv'
  BY <1>0, <1>1, <1>2 DEF CallsCounted, InboxInv
<1>15. FramesCounted'
  <2>1. Undelivered' = Undelivered
    BY <1>1 DEF Undelivered, Waiting
  <2> QED
    BY <1>0, <1>1, <1>2, <2>1 DEF FramesCounted
<1> QED
  BY <1>2, <1>12, <1>13, <1>14, <1>15 DEF LoopInv, PageInv

-----------------------------------------------------------------------------
LEMMA InitLoopInv == LoopInit => LoopInv
<1> SUFFICES ASSUME LoopInit PROVE LoopInv
  OBVIOUS
<1>1. HostInv
  BY InitHostInv
<1>2. /\ deferred = <<>> /\ budget = MaxCalls[platform] /\ called = [f \in Frames |-> 0]
      /\ inbox = [f \in Frames |-> <<>>] /\ scripts = [f \in Frames |-> <<>>]
      /\ settled = [f \in Frames |-> <<>>] /\ heard = [f \in Frames |-> <<>>]
  BY DEF LoopInit
<1>3. platform \in Platforms /\ MaxCalls[platform] \in Nat /\ Len(Initial) \in Nat
      /\ frames \in Seq(Labels) /\ (frames # <<>> => Len(frames) = Len(Initial))
  <2>1. platform \in Platforms /\ frames \in Seq(Labels)
    BY <1>1 DEF HostInv, TableInv, TableTypes
  <2>2. frames # <<>> => Len(frames) = Len(Initial)
    BY DEF LoopInit, TableInit
  <2> QED
    BY <2>1, <2>2, CallBound, TableAssumption
<1>4. PageTypes
  BY <1>2, <1>3 DEF PageTypes
<1>5. CallsCounted /\ InboxInv
  BY <1>2, <1>3 DEF CallsCounted, InboxInv, InOrder
<1>6. Undelivered = {}
  BY <1>2 DEF Undelivered, Waiting
<1>7. FramesCounted
  <2>1. Cardinality(Undelivered) = 0
    BY <1>6, FS_EmptySet
  <2> QED
    BY <1>2, <1>3, <2>1 DEF FramesCounted
<1>8. AnswerInv
  BY <1>2 DEF AnswerInv, Own
<1> QED
  BY <1>1, <1>4, <1>5, <1>7, <1>8 DEF LoopInv, PageInv

LEMMA StepKeepsLoopInv == LoopInv /\ [LoopNext]_loopVars => LoopInv'
<1> SUFFICES ASSUME LoopInv, [LoopNext]_loopVars PROVE LoopInv'
  OBVIOUS
<1>1. CASE EnvironmentAnswers
  BY <1>1, AnswersOfViewsKeep
<1>2. ASSUME NEW f \in Frames, NEW command \in Commands, Call(f, command) PROVE LoopInv'
  BY <1>2, CallKeeps
<1>3. ASSUME NEW f \in Frames, Handle(f) PROVE LoopInv'
  BY <1>3, HandleKeeps
<1>4. ASSUME NEW f \in Frames, Evaluate(f) PROVE LoopInv'
  BY <1>4, EvaluateKeeps
<1>5. ASSUME NEW f \in Frames, UserCloses(f) \/ ClosePosted(f) PROVE LoopInv'
  BY <1>5, GoesKeeps DEF UserCloses, ClosePosted
<1>6. ASSUME NEW f \in Frames, ViewAnswers(f) PROVE LoopInv'
  BY <1>6, AnswersOfViewsKeep
<1>7. CASE UNCHANGED loopVars
  <2>1. UNCHANGED <<hostVars, deferred, budget, called, settled, heard, inbox, scripts>>
    BY <1>7 DEF loopVars, pageVars
  <2>2. HostInv' /\ UNCHANGED <<platform, frames>>
    BY <2>1, HostStays DEF LoopInv, hostVars, tableVars
  <2>3. Undelivered' = Undelivered /\ (SlotsSuffice' <=> SlotsSuffice)
    BY <2>1, <2>2 DEF Undelivered, Waiting, SlotsSuffice
  <2>4. PageTypes' /\ CallsCounted' /\ InboxInv'
    BY <2>1, <2>2 DEF LoopInv, PageInv, PageTypes, CallsCounted, InboxInv
  <2>5. FramesCounted' /\ AnswerInv'
    BY <2>1, <2>2, <2>3 DEF LoopInv, PageInv, FramesCounted, AnswerInv
  <2> QED
    BY <2>2, <2>4, <2>5 DEF LoopInv, PageInv
<1> QED
  BY <1>1, <1>2, <1>3, <1>4, <1>5, <1>6, <1>7 DEF LoopNext

LEMMA LoopInvariant == LoopSpec => []LoopInv
<1>1. LoopInit => LoopInv
  BY InitLoopInv
<1>2. LoopInv /\ [LoopNext]_loopVars => LoopInv'
  BY StepKeepsLoopInv
<1> QED
  BY <1>1, <1>2, PTL DEF LoopSpec

(* On every platform and with any number of slots the variables of the     *)
(* loop have their types, live_windows counts the slots whose window is    *)
(* there, no slot outlives its window on GTK and AppKit and none is        *)
(* missing on Windows, and no call opens more than one window.             *)
THEOREM LoopTypesTheorem == LoopSpec => []LoopTypeOK
<1>1. LoopInv => LoopTypeOK
  <2> SUFFICES ASSUME LoopInv PROVE LoopTypeOK
    OBVIOUS
  <2>0. TableInv /\ TableTypes /\ PageTypes /\ FramesCounted /\ platform \in Platforms
    BY DEF LoopInv, HostInv, PageInv, TableInv, TableTypes
  <2>1. /\ MaxCalls[platform] \in Nat /\ Len(Initial) \in Nat /\ budget \in Nat
        /\ budget <= MaxCalls[platform] /\ Cardinality(Undelivered) \in Nat
        /\ Len(frames) \in Nat
    BY <2>0, PageBounds, UndeliveredFinite, SMTT(30) DEF TableTypes, PageTypes
  <2>2. Len(frames) <= Len(Initial) + MaxCalls[platform] - budget
    <3>1. CASE frames = <<>>
      BY <2>1, <3>1
    <3>2. CASE frames # <<>>
      <4>1. Len(frames) + Cardinality(Undelivered) + budget <= Len(Initial) + MaxCalls[platform]
        BY <2>0, <3>2 DEF FramesCounted
      <4> QED
        BY <2>1, <4>1
    <3> QED
      BY <3>1, <3>2
  <2>3. session \subseteq Labels /\ spawned \in Nat
    BY DEF LoopInv, HostInv, SessionInv, RestartInv
  <2>4. /\ frames \in Seq(Labels) /\ shown \subseteq DOMAIN frames
        /\ slots \in Seq(DOMAIN frames) /\ Len(slots) <= MaxSlots[platform]
        /\ closing \subseteq shown /\ running \in BOOLEAN
        /\ view \in [Frames -> {"none", "pending", "ready", "failed"}]
    BY <2>0 DEF TableTypes
  <2>5. /\ IF platform = "windows" THEN Slotted = DOMAIN frames ELSE Slotted \subseteq shown
        /\ live = Cardinality(Slotted \cap shown)
    BY <2>0 DEF TableInv, SlotsOfPlatform, LiveCounted
  <2>6. /\ budget \in 0 .. MaxCalls[platform] /\ called \in [Frames -> 0 .. MaxCalls[platform]]
        /\ deferred \in Seq([frame: Frames, id: Ids])
        /\ inbox \in [Frames -> Seq([id: Ids, command: Commands])]
        /\ scripts \in [Frames -> Seq(Responses \cup Events)]
        /\ settled \in [Frames -> Seq(Responses)] /\ heard \in [Frames -> Seq(Events)]
    BY <2>0 DEF PageTypes, Messages, Scripts
  <2> QED
    BY <2>0, <2>2, <2>3, <2>4, <2>5, <2>6 DEF LoopTypeOK
<1> QED
  BY <1>1, LoopInvariant, PTL

(* The backend's table and the host's session: no label in two slots, and  *)
(* no window in a slot that the host believes closed.                      *)
THEOREM SessionTheorem == LoopSpec => []SlotsKnownToSession
<1>1. LoopInv => SlotsKnownToSession
  BY DEF LoopInv, HostInv, TableInv, OneSlotPerLabel, SessionInv, SlotsKnownToSession
<1> QED
  BY <1>1, LoopInvariant, PTL

(* As long as the slots suffice the loop runs for exactly as long as there *)
(* is a window on the screen.                                              *)
THEOREM CountedTheorem == LoopSpec => []WindowsAreCounted
<1>1. LoopInv => WindowsAreCounted
  <2> SUFFICES ASSUME LoopInv, SlotsSuffice
               PROVE  shown \subseteq Slotted /\ (frames # <<>> => running = (shown # {}))
    BY DEF WindowsAreCounted
  <2>1. TableInv /\ TableTypes /\ shown \subseteq Slotted /\ LiveCounted /\ RunsWithWindows
    BY DEF LoopInv, HostInv, TableInv, NoneLeftOut
  <2>2. IsFiniteSet(shown) /\ live = Cardinality(shown) /\ live \in Nat
    <3>1. Slotted \cap shown = shown
      BY <2>1
    <3>2. IsFiniteSet(shown)
      BY <2>1, SlotsFinite
    <3> QED
      BY <2>1, <3>1, <3>2, FS_CardinalityType DEF LiveCounted
  <2>3. live = 0 <=> shown = {}
    BY <2>2, FS_EmptySet
  <2>4. (live > 0) = (shown # {})
    BY <2>2, <2>3
  <2> QED
    BY <2>1, <2>4 DEF RunsWithWindows
<1> QED
  BY <1>1, LoopInvariant, PTL

(* No promise is settled twice, and as long as the slots suffice none by   *)
(* the answer to another page's call.                                      *)
THEOREM AnswersTheorem == LoopSpec => []OwnAnswers
<1>1. LoopInv => OwnAnswers
  BY DEF LoopInv, AnswerInv, OwnAnswers
<1> QED
  BY <1>1, LoopInvariant, PTL

(* The restarted application is started once, and nothing of the old one   *)
(* stays in a slot.                                                        *)
THEOREM RestartTheorem == LoopSpec => []RestartReplaces
<1>1. LoopInv => RestartReplaces
  BY DEF LoopInv, HostInv, RestartInv
<1> QED
  BY <1>1, LoopInvariant, PTL

(* The two records of a window.close close the window of its label when    *)
(* that is in a slot, and else one window at most, on every platform and   *)
(* whatever the pages and the user closed before.                          *)
THEOREM CloseTheorem == LoopSpec => CloseTakesOne
<1> DEFINE Target(f) == ExactSlot(Message(f).command.label)
           Closes(f) == IF Target(f) # {} THEN shown \ shown' = Target(f) \cap shown
                        ELSE \A g, h \in shown \ shown' : g = h
<1>1. LoopInv => \A f \in shown : HandleClose(f) => Closes(f)
  <2> SUFFICES ASSUME LoopInv, NEW f \in shown, HandleClose(f)
               PROVE  Closes(f)
    OBVIOUS
  <2>0. TableInv
    BY DEF LoopInv, HostInv
  <2>1. PICK label : label = Message(f).command.label
    OBVIOUS
  <2>2. PICK found : found = ClosedBy(label)
    OBVIOUS
  <2>3. Destroy(found)
    BY <2>1, <2>2 DEF HandleClose, CloseFound
  <2>4. shown \ shown' = found \cap shown
    BY <2>3 DEF Destroy
  <2>5. /\ found \subseteq shown
        /\ \A g, h \in found : g = h
        /\ ExactSlot(label) # {} => found = ExactSlot(label) \cap shown
    BY <2>0, <2>2, ClosedIsOne
  <2> QED
    BY <2>1, <2>4, <2>5
<1>2. LoopInv /\ [LoopNext]_loopVars
        => [\A f \in shown : HandleClose(f) =>
              LET own == ExactSlot(Message(f).command.label)
                  gone == shown \ shown'
              IN  IF own # {} THEN gone = own \cap shown
                  ELSE \A g, h \in gone : g = h]_loopVars
  BY <1>1
<1> QED
  BY <1>2, LoopInvariant, PTL DEF LoopSpec, CloseTakesOne

==============================================================================
