------------------------ MODULE ResourceTable_proofs ------------------------
(***************************************************************************)
(* ResourceTable for every value of its constants: the type invariant, the *)
(* agreement of the map with the order list, and that no id is used twice. *)
(***************************************************************************)
EXTENDS ResourceTable, Lists_proofs

ResourceInv == ResourceTypeOK /\ OrderIsOpeningOrder

(* The empty table satisfies the invariant.                                *)
LEMMA InitResourceInv == ResourceInit => ResourceInv
  BY ResourceAssumption DEF ResourceInit, ResourceInv, ResourceTypeOK,
     OrderIsOpeningOrder, Entries

(* An open files the new entry under the highest number so far.            *)
LEMMA OpenKeepsInv ==
  ASSUME ResourceInv, NEW descriptor \in Descriptors, ResourceOpen(descriptor)
  PROVE  ResourceInv'
<1> DEFINE new == Id(nextSequence)
<1> USE DEF ResourceInv, ResourceTypeOK, OrderIsOpeningOrder
<1>1. DOMAIN entries' = DOMAIN entries \cup {new} /\ new \notin DOMAIN entries
  <2>1. DOMAIN entries' = DOMAIN entries \cup {new}
    BY DEF ResourceOpen
  <2>2. ASSUME NEW n \in 1 .. nextSequence - 1 PROVE Id(n) # new
    BY ResourceAssumption DEF Id
  <2> QED
    BY <2>1, <2>2, ZenonT(40)
<1>2. NewEntry(descriptor) \in Entries
  BY DEF ResourceOpen, NewEntry, Entries, Descriptors
<1>3. entries' = [id \in DOMAIN entries \cup {new} |->
                    IF id = new THEN NewEntry(descriptor) ELSE entries[id]]
  BY DEF ResourceOpen
<1>4. nextSequence' = nextSequence + 1 /\ nextSequence <= MaxOpens
  BY DEF ResourceOpen
<1>5. order' \in Seq(DOMAIN entries') /\ order' = Append(order, new)
  <2>1. order \in Seq(DOMAIN entries')
    BY <1>1
  <2> QED
    BY <1>1, <2>1 DEF ResourceOpen
<1>6. ResourceTypeOK'
  <2>1. nextSequence' \in 1 .. MaxOpens + 1
    BY <1>4, ResourceAssumption
  <2>2. DOMAIN entries' \subseteq {Id(n) : n \in 1 .. nextSequence' - 1}
    <3>1. 1 .. nextSequence - 1 \subseteq 1 .. nextSequence' - 1
          /\ nextSequence \in 1 .. nextSequence' - 1
      BY <1>4, ResourceAssumption
    <3>2. DOMAIN entries \subseteq {Id(n) : n \in 1 .. nextSequence - 1}
      OBVIOUS
    <3> QED
      BY <1>1, <3>1, <3>2 DEF Id
  <2>3. entries' \in [DOMAIN entries' -> Entries]
    BY <1>1, <1>2, <1>3
  <2>4. \A id \in DOMAIN entries' : id = Id(entries'[id].sequence)
    BY <1>1, <1>3 DEF NewEntry
  <2> QED
    BY <1>5, <2>1, <2>2, <2>3, <2>4
<1>7. OrderIsOpeningOrder'
  <2>1. DOMAIN order' = 1 .. Len(order) + 1 /\ order'[Len(order) + 1] = new
        /\ \A i \in DOMAIN order : order'[i] = order[i]
    BY <1>5
  <2>2. DOMAIN order = 1 .. Len(order) /\ Len(order) \in Nat
    OBVIOUS
  <2>3. DOMAIN entries' = {order'[i] : i \in DOMAIN order'}
    BY <1>1, <2>1, <2>2, SMTT(30)
  <2>4. ASSUME NEW i \in DOMAIN order', NEW j \in DOMAIN order', i < j
        PROVE  entries'[order'[i]].sequence < entries'[order'[j]].sequence
    <3>1. i \in DOMAIN order /\ order'[i] \in DOMAIN entries /\ order'[i] # new
      BY <1>1, <2>1, <2>2, <2>4
    <3>2. CASE j \in DOMAIN order
      BY <1>1, <1>3, <2>1, <2>4, <3>1, <3>2
    <3>3. CASE j = Len(order) + 1
      <4>1. entries[order[i]].sequence \in 1 .. nextSequence - 1
        <5>1. PICK n \in 1 .. nextSequence - 1 : order[i] = Id(n)
          <6>1. order[i] \in DOMAIN entries
            BY <2>1, <3>1
          <6>2. DOMAIN entries \subseteq {Id(n) : n \in 1 .. nextSequence - 1}
            OBVIOUS
          <6> QED
            BY <6>1, <6>2
        <5>2. order[i] = Id(entries[order[i]].sequence)
          BY <2>1, <3>1
        <5> QED
          BY <5>1, <5>2 DEF Id
      <4>2. entries'[order'[j]].sequence = nextSequence
        BY <1>1, <1>3, <2>1, <3>3 DEF NewEntry
      <4>3. entries'[order'[i]] = entries[order[i]]
        BY <1>3, <2>1, <3>1
      <4> QED
        BY <4>1, <4>2, <4>3, ResourceAssumption
    <3> QED
      BY <2>1, <2>2, <3>2, <3>3
  <2> QED
    BY <2>3, <2>4
<1> QED
  BY <1>6, <1>7

(* Every close goes through close_entries, whatever selected the ids.      *)
LEMMA CloseEntriesKeepsInv ==
  ASSUME ResourceInv, NEW ids, ResourceCloseEntries(ids)
  PROVE  ResourceInv'
<1> USE DEF ResourceInv, ResourceTypeOK, OrderIsOpeningOrder
<1>1. entries' = [id \in DOMAIN entries \ ids |-> entries[id]]
      /\ nextSequence' = nextSequence
  BY DEF ResourceCloseEntries
<1>2. order' \in Seq(DOMAIN entries \ ids) /\ Survivors(order, ids, order')
  <2>1. order \in Seq(DOMAIN entries)
    OBVIOUS
  <2>2. Without(order, ids, order')
    BY DEF ResourceCloseEntries
  <2> QED
    BY <2>1, <2>2, WithoutKeepsOrder
<1>3. ResourceTypeOK'
  BY <1>1, <1>2
<1>4. OrderIsOpeningOrder'
  <2>1. DOMAIN entries' = {order'[i] : i \in DOMAIN order'}
    BY <1>1, <1>2 DEF Elements, Survivors
  <2>2. ASSUME NEW i \in DOMAIN order', NEW j \in DOMAIN order', i < j
        PROVE  entries'[order'[i]].sequence < entries'[order'[j]].sequence
    <3>1. PICK p \in DOMAIN order, q \in DOMAIN order :
            p < q /\ order[p] = order'[i] /\ order[q] = order'[j]
      BY <1>2, <2>2 DEF Survivors
    <3>2. order'[i] \in DOMAIN entries' /\ order'[j] \in DOMAIN entries'
      BY <2>1
    <3>3. entries'[order'[i]] = entries[order[p]] /\ entries'[order'[j]] = entries[order[q]]
      BY <1>1, <3>1, <3>2
    <3> QED
      BY <3>1, <3>3
  <2> QED
    BY <2>1, <2>2
<1> QED
  BY <1>3, <1>4

(* A step of the table is an open, or a close of some set of ids.          *)
LEMMA OpenOrClose ==
  ASSUME ResourceNext
  PROVE  \/ \E descriptor \in Descriptors : ResourceOpen(descriptor)
         \/ \E ids : ResourceCloseEntries(ids)
  BY DEF ResourceNext, ResourceClose, ResourceCloseHandle, ResourceCloseKind,
     ResourceCloseOwner, ResourceCloseAll

(* Every operation of the resource table keeps the invariant.              *)
LEMMA NextKeepsResourceInv == ResourceInv /\ [ResourceNext]_resourceVars => ResourceInv'
<1> SUFFICES ASSUME ResourceInv, [ResourceNext]_resourceVars PROVE ResourceInv'
  OBVIOUS
<1>1. CASE UNCHANGED resourceVars
  BY <1>1 DEF resourceVars, ResourceInv, ResourceTypeOK, OrderIsOpeningOrder
<1>2. CASE ResourceNext
  BY <1>2, OpenOrClose, OpenKeepsInv, CloseEntriesKeepsInv
<1> QED
  BY <1>1, <1>2

(* Entries are filed under the id of their number, and no live number is   *)
(* one that the counter has still to hand out.                             *)
THEOREM ResourceTypes == ResourceSpec => []ResourceTypeOK
<1>1. ResourceInv => ResourceTypeOK
  BY DEF ResourceInv
<1> QED
  BY <1>1, InitResourceInv, NextKeepsResourceInv, PTL DEF ResourceSpec

(* Map and order list agree after any opens and closes, one by one or many *)
(* at a time.                                                              *)
THEOREM OrderTheorem == ResourceSpec => []OrderIsOpeningOrder
<1>1. ResourceInv => OrderIsOpeningOrder
  BY DEF ResourceInv
<1> QED
  BY <1>1, InitResourceInv, NextKeepsResourceInv, PTL DEF ResourceSpec

(* The id of a closed entry is never the id of another one: the counter    *)
(* does not go back, and an open takes the id of the number it shows.      *)
THEOREM NeverReopenedTheorem == ResourceSpec => NeverReopened
<1> DEFINE Later == nextSequence' >= nextSequence
           Gone(n) == Id(n) \notin DOMAIN entries => Id(n) \notin DOMAIN entries'
           Step == Later /\ \A n \in 1 .. nextSequence - 1 : Gone(n)
<1>1. ResourceInv /\ [ResourceNext]_resourceVars => [Step]_resourceVars
  <2> SUFFICES ASSUME ResourceInv, ResourceNext PROVE Step
    OBVIOUS
  <2>1. nextSequence \in Nat
    BY ResourceAssumption DEF ResourceInv, ResourceTypeOK
  <2>2. ASSUME NEW descriptor \in Descriptors, ResourceOpen(descriptor)
        PROVE  Step
    <3>1. \A n \in 1 .. nextSequence - 1 : Id(n) # Id(nextSequence)
      BY <2>1 DEF Id
    <3> QED
      BY <2>1, <2>2, <3>1 DEF ResourceOpen
  <2>3. ASSUME NEW ids, ResourceCloseEntries(ids)
        PROVE  Step
    BY <2>1, <2>3 DEF ResourceCloseEntries
  <2> QED
    BY <2>2, <2>3, OpenOrClose
<1> QED
  BY <1>1, InitResourceInv, NextKeepsResourceInv, PTL DEF ResourceSpec, NeverReopened

=============================================================================
