------------------------- MODULE AppStreams_proofs --------------------------
(***************************************************************************)
(* ChannelTable and AppStreams for every value of their constants.         *)
(*                                                                         *)
(* Of the channel table: the four structures that list the channels agree, *)
(* every channel's stream is intact, and the table implements the streams  *)
(* of StreamLog.                                                           *)
(*                                                                         *)
(* Of the application: windows are kept apart and messages arrive once,    *)
(* for every number of windows, channels, messages and answers under way.  *)
(* The invariant adds to the channel table's that what is on its way to a  *)
(* page, or was taken by one, is among what the drains handed out: a later *)
(* drain hands out higher numbers.                                         *)
(***************************************************************************)
EXTENDS AppStreams, ResourceTable_proofs

-----------------------------------------------------------------------------
(* The channel table.                                                      *)

(* A log is intact with the channel record that belongs to it.             *)
Intact(log, channel) ==
  /\ Len(log) = channel.next - 1
  /\ \A i \in 1 .. Len(log) :
       /\ log[i].sequence = i
       /\ log[i].kind = "end" <=> channel.closed /\ i = Len(log)
       /\ log[i].kind = "cancel" <=> channel.cancelled /\ i = Len(log)

(* The fields of a channel record that was changed in place.               *)
Record(n, q, d, e) == [next |-> n, messages |-> q, closed |-> d, cancelled |-> e]

(* What a drain leaves of a channel: everything but its messages.          *)
LEMMA DrainedRecord ==
  ASSUME NEW c \in Channels, NEW q
  PROVE  [c EXCEPT !.messages = q] = Record(c.next, q, c.closed, c.cancelled)
  BY DEF Channels, Record

(* What a write makes of a channel, in the form of a function.             *)
LEMMA ExtendedRecord ==
  ASSUME NEW c \in Channels, NEW n, NEW q
  PROVE  [c EXCEPT !.next = n, !.messages = q] = Record(n, q, c.closed, c.cancelled)
<1> DEFINE x == [c EXCEPT !.next = n, !.messages = q]
<1>1. DOMAIN c = {"next", "messages", "closed", "cancelled"}
      /\ c = [f \in DOMAIN c |-> c[f]]
  BY DEF Channels
<1>2. x = [f \in DOMAIN c |-> IF f = "messages" THEN q ELSE IF f = "next" THEN n ELSE c[f]]
  BY <1>1
<1> QED
  BY <1>1, <1>2 DEF Record

ChannelInv == ResourceInv /\ ChannelTypeOK /\ TablesAgree /\ StreamIntact

(* A message is written only to a channel that neither flag closes, and a  *)
(* terminal message sets its flag.                                         *)
LEMMA AppendKeepsIntact ==
  ASSUME NEW log \in Seq(Messages), NEW c \in Channels, NEW d \in Channels,
         NEW kind \in DataKinds \cup TerminalKinds,
         Intact(log, c), ~c.closed, ~c.cancelled,
         d.next = c.next + 1,
         d.closed <=> kind = "end", d.cancelled <=> kind = "cancel"
  PROVE  Intact(Append(log, [sequence |-> c.next, kind |-> kind]), d)
<1> DEFINE m == [sequence |-> c.next, kind |-> kind]
           longer == Append(log, m)
<1>1. c.next \in Nat \ {0} /\ Len(log) = c.next - 1 /\ Len(log) \in Nat
  BY DEF Intact, Channels
<1>2. Len(longer) = Len(log) + 1 /\ longer[Len(log) + 1] = m
      /\ \A i \in 1 .. Len(log) : longer[i] = log[i]
  <2>1. m \in Messages
    BY <1>1 DEF Messages
  <2> QED
    BY <2>1, AppendProperties
<1> HIDE DEF longer
<1>3. ASSUME NEW i \in 1 .. Len(longer)
      PROVE  /\ longer[i].sequence = i
             /\ longer[i].kind = "end" <=> d.closed /\ i = Len(longer)
             /\ longer[i].kind = "cancel" <=> d.cancelled /\ i = Len(longer)
  <2>1. CASE i = Len(log) + 1
    BY <1>1, <1>2, <2>1
  <2>2. CASE i \in 1 .. Len(log)
    <3>1. log[i].sequence = i /\ log[i].kind # "end" /\ log[i].kind # "cancel"
      BY <2>2 DEF Intact
    <3>2. longer[i] = log[i] /\ i # Len(longer)
      BY <1>1, <1>2, <2>2
    <3> QED
      BY <3>1, <3>2
  <2> QED
    BY <1>1, <1>2, <2>1, <2>2
<1>4. Intact(longer, d)
  BY <1>1, <1>2, <1>3 DEF Intact
<1> QED
  BY <1>4 DEF longer

-----------------------------------------------------------------------------
(* The empty tables satisfy the invariant.                                 *)
LEMMA InitChannelInv == ChannelInit => ChannelInv
<1> SUFFICES ASSUME ChannelInit PROVE ChannelInv
  OBVIOUS
<1>1. ResourceInv
  BY InitResourceInv DEF ChannelInit
<1>2. ChannelTypeOK
  BY <1>1 DEF ChannelInit, ResourceInit, ChannelTypeOK, ResourceInv
<1>3. TablesAgree /\ StreamIntact
  BY DEF ChannelInit, ResourceInit, TablesAgree, StreamIntact
<1> QED
  BY <1>1, <1>2, <1>3 DEF ChannelInv

(* Live channels have a log of deliveries.                                 *)
LEMMA LiveIsOpened ==
  ASSUME ChannelInv
  PROVE  /\ DOMAIN channels \subseteq DOMAIN delivered
         /\ \A id \in DOMAIN channels :
              /\ delivered[id] \in Seq(Messages)
              /\ channels[id] \in Channels /\ channels[id].messages \in Seq(Messages)
              /\ Written(id) \in Seq(Messages)
              /\ Intact(Written(id), channels[id])
<1>1. DOMAIN channels \subseteq DOMAIN delivered
  BY DEF ChannelInv, ChannelTypeOK, TablesAgree, ResourceTypeOK
<1>2. ASSUME NEW id \in DOMAIN channels
      PROVE  /\ delivered[id] \in Seq(Messages)
             /\ channels[id] \in Channels /\ channels[id].messages \in Seq(Messages)
  BY <1>1 DEF ChannelInv, ChannelTypeOK, Channels
<1>3. ASSUME NEW id \in DOMAIN channels PROVE Written(id) \in Seq(Messages)
  BY <1>2, ConcatProperties DEF Written
<1>4. ASSUME NEW id \in DOMAIN channels PROVE Intact(Written(id), channels[id])
  BY DEF ChannelInv, StreamIntact, Intact
<1> QED
  BY <1>1, <1>2, <1>3, <1>4

(* A step on one channel has only its record and its log to answer for.    *)
LEMMA OneChannelChanges ==
  ASSUME ChannelInv, NEW id \in DOMAIN channels,
         NEW d \in Channels, NEW log \in Seq(Messages),
         UNCHANGED <<resourceVars, channelOrder>>,
         channels' = [channels EXCEPT ![id] = d],
         delivered' = [delivered EXCEPT ![id] = log],
         Intact(log \o d.messages, d)
  PROVE  ChannelInv'
<1>1. ResourceInv'
  BY NextKeepsResourceInv DEF ChannelInv
<1>2. DOMAIN channels' = DOMAIN channels /\ DOMAIN delivered' = DOMAIN delivered
  OBVIOUS
<1>3. ChannelTypeOK'
  <2>1. channels' \in [DOMAIN channels' -> Channels]
    BY DEF ChannelInv, ChannelTypeOK
  <2>2. delivered' \in [DOMAIN delivered' -> Seq(Messages)]
    BY DEF ChannelInv, ChannelTypeOK
  <2>3. DOMAIN delivered' = {Id(n) : n \in 1 .. nextSequence' - 1}
    BY <1>2 DEF ChannelInv, ChannelTypeOK, resourceVars
  <2> QED
    BY <1>1, <2>1, <2>2, <2>3 DEF ChannelTypeOK, ResourceInv
<1>4. TablesAgree'
  BY <1>2 DEF ChannelInv, TablesAgree, resourceVars
<1>5. StreamIntact'
  <2>1. ASSUME NEW x \in DOMAIN channels'
        PROVE  Intact(delivered'[x] \o channels'[x].messages, channels'[x])
    <3>1. CASE x = id
      BY <1>2, <3>1, LiveIsOpened
    <3>2. CASE x # id
      <4>1. delivered'[x] = delivered[x] /\ channels'[x] = channels[x]
        BY <1>2, <3>2, LiveIsOpened
      <4> QED
        BY <1>2, <4>1, LiveIsOpened DEF Written
    <3> QED
      BY <3>1, <3>2
  <2> QED
    BY <2>1 DEF StreamIntact, Written, Intact
<1> QED
  BY <1>1, <1>3, <1>4, <1>5 DEF ChannelInv

(* A write appends to the log, whether the message is terminal or not.     *)
LEMMA WriteKeepsInv ==
  ASSUME ChannelInv, NEW id, NEW kind \in DataKinds \cup TerminalKinds,
         Emit(id, kind) \/ EmitTerminal(id, kind)
  PROVE  ChannelInv'
<1> DEFINE c == channels[id]
           m == [sequence |-> c.next, kind |-> kind]
           d == [next |-> c.next + 1, messages |-> Append(c.messages, m),
                 closed |-> kind = "end", cancelled |-> kind = "cancel"]
<1>1. id \in DOMAIN channels /\ ~c.closed /\ ~c.cancelled
  BY DEF Emit, EmitTerminal, Writable
<1>2. c \in Channels /\ c.messages \in Seq(Messages) /\ delivered[id] \in Seq(Messages)
      /\ Written(id) \in Seq(Messages) /\ Intact(Written(id), c)
  BY <1>1, LiveIsOpened
<1>3. m \in Messages
  BY <1>2 DEF Messages, Channels
<1>4. d \in Channels
  BY <1>2, <1>3 DEF Channels
<1>5. Intact(Append(Written(id), m), d)
  <2> DEFINE w == Written(id)
  <2>1. w \in Seq(Messages) /\ Intact(w, c)
    BY <1>2
  <2>2. d.next = c.next + 1 /\ (d.closed <=> kind = "end") /\ (d.cancelled <=> kind = "cancel")
    OBVIOUS
  <2> HIDE DEF w, c, d
  <2> QED
    BY <1>1, <1>2, <1>4, <2>1, <2>2, AppendKeepsIntact
<1>6. Append(Written(id), m) = delivered[id] \o d.messages
  <2>1. d.messages = Append(c.messages, m) /\ Written(id) = delivered[id] \o c.messages
    BY DEF Written
  <2>2. delivered[id] \in Seq(Messages) /\ c.messages \in Seq(Messages) /\ m \in Messages
    BY <1>2, <1>3
  <2> HIDE DEF c, m, d
  <2>3. Append(delivered[id] \o c.messages, m) = delivered[id] \o Append(c.messages, m)
    <3> DEFINE s == delivered[id]
               t == c.messages
    <3>1. s \in Seq(Messages) /\ t \in Seq(Messages) /\ m \in Messages
      BY <2>2
    <3> HIDE DEF s, t
    <3>2. Append(s \o t, m) = s \o Append(t, m)
      BY <3>1, SMT
    <3> QED
      BY <3>2 DEF s, t
  <2> QED
    BY <2>1, <2>3
<1>7. channels' = [channels EXCEPT ![id] = d]
  <2>0. channels = [x \in DOMAIN channels |-> channels[x]] /\ NextMessage(id, kind) = m
    BY DEF ChannelInv, ChannelTypeOK, NextMessage
  <2>1. CASE Emit(id, kind)
    <3>1. channels' = [channels EXCEPT ![id] =
            [c EXCEPT !.next = c.next + 1, !.messages = Append(c.messages, m)]]
      BY <1>1, <2>0, <2>1 DEF Emit
    <3>2. c.closed = (kind = "end") /\ c.cancelled = (kind = "cancel")
      <4>1. kind # "end" /\ kind # "cancel"
        BY <2>1, ChannelAssumption DEF Emit
      <4>2. c.closed = FALSE /\ c.cancelled = FALSE
        BY <1>1, <1>2 DEF Channels
      <4> QED
        BY <4>1, <4>2
    <3>3. [c EXCEPT !.next = c.next + 1, !.messages = Append(c.messages, m)]
            = Record(c.next + 1, Append(c.messages, m), c.closed, c.cancelled)
      BY <1>2, ExtendedRecord
    <3> QED
      BY <3>1, <3>2, <3>3 DEF Record
  <2>2. CASE EmitTerminal(id, kind)
    <3>1. channels' = [channels EXCEPT ![id] =
            [c EXCEPT !.next = c.next + 1, !.messages = Append(c.messages, m),
                      !.closed = (kind = "end"), !.cancelled = (kind = "cancel")]]
      BY <1>1, <2>0, <2>2 DEF EmitTerminal
    <3>2. [c EXCEPT !.next = c.next + 1, !.messages = Append(c.messages, m),
                    !.closed = (kind = "end"), !.cancelled = (kind = "cancel")] = d
      <4> DEFINE f == (kind = "end")
                 g == (kind = "cancel")
                 n == c.next + 1
                 q == Append(c.messages, m)
      <4>1. c \in Channels
        BY <1>2
      <4>2. Record(n, q, f, g) = d
        BY DEF Record
      <4> HIDE DEF f, g, n, q, c, d
      <4>3. [c EXCEPT !.next = n, !.messages = q, !.closed = f, !.cancelled = g]
              = Record(n, q, f, g)
        <5> DEFINE x == [c EXCEPT !.next = n, !.messages = q, !.closed = f, !.cancelled = g]
        <5>1. DOMAIN c = {"next", "messages", "closed", "cancelled"}
              /\ c = [field \in DOMAIN c |-> c[field]]
          BY <4>1 DEF Channels
        <5>2. x = [field \in DOMAIN c |->
                     IF field = "cancelled" THEN g ELSE IF field = "closed" THEN f
                     ELSE IF field = "messages" THEN q ELSE n]
          BY <5>1
        <5> QED
          BY <5>1, <5>2 DEF Record
      <4> QED
        BY <4>2, <4>3 DEF f, g, n, q
    <3> QED
      BY <3>1, <3>2
  <2> QED
    BY <2>1, <2>2
<1>8. delivered' = [delivered EXCEPT ![id] = delivered[id]]
      /\ UNCHANGED <<resourceVars, channelOrder>>
  BY DEF Emit, EmitTerminal, ChannelInv, ChannelTypeOK
<1> HIDE DEF d
<1> QED
  BY <1>1, <1>2, <1>4, <1>5, <1>6, <1>7, <1>8, OneChannelChanges

(* A drain moves the queue to the log of deliveries.                       *)
LEMMA DrainKeepsInv ==
  ASSUME ChannelInv, NEW id, Drain(id)
  PROVE  ChannelInv'
<1> DEFINE c == channels[id]
           d == [next |-> c.next, messages |-> <<>>,
                 closed |-> c.closed, cancelled |-> c.cancelled]
<1>1. id \in DOMAIN channels
  BY DEF Drain
<1>2. c \in Channels /\ c.messages \in Seq(Messages) /\ delivered[id] \in Seq(Messages)
      /\ Written(id) \in Seq(Messages) /\ Intact(Written(id), c)
  BY <1>1, LiveIsOpened
<1>3. d \in Channels /\ d.messages = <<>> /\ d.next = c.next
      /\ d.closed = c.closed /\ d.cancelled = c.cancelled
  <2>1. <<>> \in Seq(Messages)
    OBVIOUS
  <2> QED
    BY <1>2, <2>1 DEF Channels
<1>4. Written(id) \o d.messages = Written(id)
  BY <1>2, <1>3, ConcatEmptySeq
<1>5. Intact(Written(id) \o d.messages, d)
  BY <1>2, <1>3, <1>4 DEF Intact
<1>6. channels' = [channels EXCEPT ![id] = d]
  <2>1. channels = [x \in DOMAIN channels |-> channels[x]]
    BY DEF ChannelInv, ChannelTypeOK
  <2>2. channels' = [channels EXCEPT ![id] = [c EXCEPT !.messages = <<>>]]
    BY <1>1, <2>1 DEF Drain
  <2>3. [c EXCEPT !.messages = <<>>] = d
    BY <1>2, DrainedRecord DEF Record
  <2> QED
    BY <2>2, <2>3
<1>7. delivered' = [delivered EXCEPT ![id] = Written(id)]
      /\ UNCHANGED <<resourceVars, channelOrder>>
  BY DEF Drain, Written
<1> HIDE DEF d
<1> QED
  BY <1>1, <1>2, <1>3, <1>5, <1>6, <1>7, OneChannelChanges

(* A new channel is listed in all four structures, under an id that none   *)
(* of them had.                                                            *)
LEMMA ChannelOpenKeepsInv ==
  ASSUME ChannelInv, NEW owner \in Owners, NEW window \in Windows \cup {NoWindow},
         ChannelOpen(owner, window)
  PROVE  ChannelInv'
<1> DEFINE new == Id(nextSequence)
           descriptor == [kind |-> ChannelKind, owner |-> owner, window |-> window]
<1>1. descriptor \in Descriptors /\ ResourceOpen(descriptor)
  BY ChannelAssumption DEF ChannelOpen, Descriptors
<1>2. ResourceInv'
  BY <1>1, OpenKeepsInv DEF ChannelInv
<1>3. /\ DOMAIN entries' = DOMAIN entries \cup {new}
      /\ order' = Append(order, new) /\ nextSequence' = nextSequence + 1
      /\ nextSequence \in Nat \ {0}
  BY <1>1 DEF ResourceOpen, ChannelInv, ResourceInv, ResourceTypeOK
<1>4. /\ channels' = [id \in DOMAIN channels \cup {new} |->
                        IF id = new THEN NewChannel ELSE channels[id]]
      /\ channelOrder' = Append(channelOrder, new)
      /\ delivered' = [id \in DOMAIN delivered \cup {new} |->
                         IF id = new THEN <<>> ELSE delivered[id]]
  BY DEF ChannelOpen
<1>5. new \notin DOMAIN delivered
  <2>1. ASSUME NEW n \in 1 .. nextSequence - 1 PROVE Id(n) # new
    BY <1>3 DEF Id
  <2> QED
    BY <2>1 DEF ChannelInv, ChannelTypeOK
<1>6. NewChannel \in Channels
  BY DEF NewChannel, Channels
<1>7. ChannelTypeOK'
  <2>1. channels' \in [DOMAIN channels' -> Channels]
    BY <1>4, <1>6, LiveIsOpened
  <2>2. delivered' \in [DOMAIN delivered' -> Seq(Messages)]
    BY <1>4 DEF ChannelInv, ChannelTypeOK
  <2>3. DOMAIN delivered' = {Id(n) : n \in 1 .. nextSequence' - 1}
    <3>1. 1 .. nextSequence' - 1 = (1 .. nextSequence - 1) \cup {nextSequence}
      BY <1>3
    <3>2. DOMAIN delivered = {Id(n) : n \in 1 .. nextSequence - 1}
      BY DEF ChannelInv, ChannelTypeOK
    <3> QED
      BY <1>4, <3>1, <3>2
  <2> QED
    BY <1>2, <2>1, <2>2, <2>3 DEF ChannelTypeOK, ResourceInv
<1>8. TablesAgree'
  BY <1>3, <1>4 DEF ChannelInv, TablesAgree
<1>9. StreamIntact'
  <2>1. ASSUME NEW x \in DOMAIN channels'
        PROVE  Intact(delivered'[x] \o channels'[x].messages, channels'[x])
    <3>1. CASE x = new
      <4>1. delivered'[x] = <<>> /\ channels'[x] = NewChannel
        BY <1>4, <3>1
      <4> QED
        BY <4>1 DEF NewChannel, Intact
    <3>2. CASE x # new
      <4>1. x \in DOMAIN channels /\ channels'[x] = channels[x] /\ x \in DOMAIN delivered
        BY <1>4, <3>2, LiveIsOpened
      <4>2. delivered'[x] = delivered[x]
        BY <1>4, <1>5, <4>1
      <4> QED
        BY <4>1, <4>2, LiveIsOpened DEF Written
    <3> QED
      BY <3>1, <3>2
  <2> QED
    BY <2>1 DEF StreamIntact, Written, Intact
<1> QED
  BY <1>2, <1>7, <1>8, <1>9 DEF ChannelInv

(* A close, of one channel or of all, takes the same ids from all four.    *)
LEMMA ChannelsGone ==
  ASSUME ChannelInv, NEW ids, ResourceCloseEntries(ids),
         channels' = [id \in DOMAIN channels \ ids |-> channels[id]],
         channelOrder' = order', UNCHANGED delivered
  PROVE  ChannelInv'
<1>1. ResourceInv'
  BY CloseEntriesKeepsInv DEF ChannelInv
<1>2. DOMAIN entries' = DOMAIN entries \ ids /\ nextSequence' = nextSequence
  BY DEF ResourceCloseEntries
<1>3. ChannelTypeOK'
  BY <1>1, <1>2, LiveIsOpened DEF ChannelInv, ChannelTypeOK, ResourceInv
<1>4. TablesAgree'
  BY <1>2 DEF ChannelInv, TablesAgree
<1>5. StreamIntact'
  <2>1. ASSUME NEW x \in DOMAIN channels'
        PROVE  Intact(delivered'[x] \o channels'[x].messages, channels'[x])
    <3>1. x \in DOMAIN channels /\ channels'[x] = channels[x] /\ delivered'[x] = delivered[x]
      OBVIOUS
    <3> QED
      BY <3>1, LiveIsOpened DEF Written
  <2> QED
    BY <2>1 DEF StreamIntact, Written, Intact
<1> QED
  BY <1>1, <1>3, <1>4, <1>5 DEF ChannelInv

(* close takes one id from every structure of the table.                   *)
LEMMA ChannelCloseKeepsInv ==
  ASSUME ChannelInv, NEW id, ChannelClose(id)
  PROVE  ChannelInv'
<1>1. ResourceCloseEntries({id}) /\ Without(channelOrder, {id}, channelOrder')
  BY DEF ChannelClose, ResourceClose
<1>2. Without(order, {id}, order') /\ channelOrder = order /\ order \in Seq(DOMAIN entries)
  BY <1>1 DEF ResourceCloseEntries, ChannelInv, TablesAgree, ResourceInv, ResourceTypeOK
<1>3. channelOrder' = order'
  BY <1>1, <1>2, WithoutIsUnique
<1> QED
  BY <1>1, <1>3, ChannelsGone DEF ChannelClose

(* close_all takes the ids of the order list, which are all of them.       *)
LEMMA ChannelCloseAllKeepsInv ==
  ASSUME ChannelInv, ChannelCloseAll
  PROVE  ChannelInv'
<1> DEFINE ids == {order[i] : i \in DOMAIN order}
<1>1. ids = DOMAIN channels /\ order \in Seq(DOMAIN entries)
  BY DEF ChannelInv, TablesAgree, ResourceInv, OrderIsOpeningOrder, ResourceTypeOK
<1>2. ResourceCloseEntries(ids)
  BY DEF ChannelCloseAll, ResourceCloseAll
<1>3. channelOrder' = order'
  <2>1. Without(order, ids, order')
    BY <1>2 DEF ResourceCloseEntries
  <2>2. order' \in Seq(DOMAIN entries \ ids)
    BY <1>1, <2>1, WithoutKeepsOrder
  <2>3. DOMAIN entries \ ids = {}
    BY <1>1 DEF ChannelInv, TablesAgree
  <2>4. order' = <<>>
    BY <2>2, <2>3
  <2> QED
    BY <2>4 DEF ChannelCloseAll
<1>4. channels' = [id \in DOMAIN channels \ ids |-> channels[id]]
  BY <1>1 DEF ChannelCloseAll
<1> QED
  BY <1>2, <1>3, <1>4, ChannelsGone DEF ChannelCloseAll

-----------------------------------------------------------------------------
(* Every operation of the channel table keeps the invariant.               *)
LEMMA NextKeepsChannelInv == ChannelInv /\ [ChannelNext]_channelVars => ChannelInv'
<1> SUFFICES ASSUME ChannelInv, [ChannelNext]_channelVars PROVE ChannelInv'
  OBVIOUS
<1>1. CASE UNCHANGED channelVars
  <2>1. ResourceInv'
    BY <1>1, NextKeepsResourceInv DEF channelVars, ChannelInv
  <2>2. ChannelTypeOK'
    BY <1>1, <2>1 DEF channelVars, resourceVars, ChannelInv, ResourceInv, ChannelTypeOK
  <2>3. TablesAgree'
    BY <1>1 DEF channelVars, resourceVars, ChannelInv, TablesAgree
  <2>4. StreamIntact'
    <3>1. UNCHANGED <<channels, delivered>>
      BY <1>1 DEF channelVars
    <3>2. ASSUME NEW x \in DOMAIN channels'
          PROVE  Intact(delivered'[x] \o channels'[x].messages, channels'[x])
      BY <3>1, LiveIsOpened DEF Written
    <3> QED
      BY <3>2 DEF StreamIntact, Written, Intact
  <2> QED
    BY <2>1, <2>2, <2>3, <2>4 DEF ChannelInv
<1>2. ASSUME NEW owner \in Owners, NEW window \in Windows \cup {NoWindow},
             ChannelOpen(owner, window)
      PROVE  ChannelInv'
  BY <1>2, ChannelOpenKeepsInv
<1>3. ASSUME NEW id, NEW kind \in DataKinds, Emit(id, kind)
      PROVE  ChannelInv'
  BY <1>3, WriteKeepsInv
<1>4. ASSUME NEW id, NEW kind \in TerminalKinds, EmitTerminal(id, kind)
      PROVE  ChannelInv'
  BY <1>4, WriteKeepsInv
<1>5. ASSUME NEW id, Drain(id)
      PROVE  ChannelInv'
  BY <1>5, DrainKeepsInv
<1>6. ASSUME NEW id, ChannelClose(id)
      PROVE  ChannelInv'
  BY <1>6, ChannelCloseKeepsInv
<1>7. CASE ChannelCloseAll
  BY <1>7, ChannelCloseAllKeepsInv
<1> QED
  BY <1>1, <1>2, <1>3, <1>4, <1>5, <1>6, <1>7 DEF ChannelNext

(* Types of the channel table and of the resource table below it.          *)
THEOREM ChannelTypes == ChannelSpec => []ChannelTypeOK
<1>1. ChannelInv => ChannelTypeOK
  BY DEF ChannelInv
<1> QED
  BY <1>1, InitChannelInv, NextKeepsChannelInv, PTL DEF ChannelSpec

(* The four structures list the same channels, in the same order.          *)
THEOREM TablesTheorem == ChannelSpec => []TablesAgree
<1>1. ChannelInv => TablesAgree
  BY DEF ChannelInv
<1> QED
  BY <1>1, InitChannelInv, NextKeepsChannelInv, PTL DEF ChannelSpec

(* No gap, no repeat, nothing after an end or a cancellation.              *)
THEOREM StreamTheorem == ChannelSpec => []StreamIntact
<1>1. ChannelInv => StreamIntact
  BY DEF ChannelInv
<1> QED
  BY <1>1, InitChannelInv, NextKeepsChannelInv, PTL DEF ChannelSpec

-----------------------------------------------------------------------------
(* The channel table implements the streams of StreamLog: opening creates  *)
(* a stream, a write appends to its log, a drain reads to the end of it,   *)
(* and a close, of one or of all, releases streams with the part of the    *)
(* log that nobody read.                                                   *)

(* An id whose channel and deliveries are as they were shows the same.     *)
LEMMA ShownStays ==
  ASSUME NEW x, x \in DOMAIN delivered' <=> x \in DOMAIN delivered,
         x \in DOMAIN channels' <=> x \in DOMAIN channels,
         x \in DOMAIN delivered => delivered'[x] = delivered[x],
         x \in DOMAIN channels => channels'[x] = channels[x]
  PROVE  StatusOf(x)' = StatusOf(x) /\ LogOf(x)' = LogOf(x) /\ ReadOf(x)' = ReadOf(x)
<1>1. StatusOf(x)' = StatusOf(x)
  BY DEF StatusOf, Opened
<1>2. LogOf(x)' = LogOf(x)
  BY DEF LogOf, Opened, Written
<1>3. ReadOf(x)' = ReadOf(x)
  BY DEF ReadOf, Opened
<1> QED
  BY <1>1, <1>2, <1>3

(* The ids that have a channel or had one.                                 *)
LEMMA OpenedIds ==
  ASSUME ChannelInv
  PROVE  DOMAIN channels \subseteq DOMAIN delivered /\ DOMAIN delivered \subseteq ResourceIds
         /\ Id(nextSequence) \notin DOMAIN delivered
<1>1. nextSequence \in 1 .. MaxOpens + 1 /\ DOMAIN delivered = {Id(n) : n \in 1 .. nextSequence - 1}
  BY DEF ChannelInv, ChannelTypeOK, ResourceTypeOK
<1>2. 1 .. nextSequence - 1 \subseteq 1 .. MaxOpens /\ nextSequence \notin 1 .. nextSequence - 1
  BY <1>1, ResourceAssumption
<1>3. \A n \in 1 .. nextSequence - 1 : Id(n) # Id(nextSequence)
  BY <1>2 DEF Id
<1> QED
  BY <1>1, <1>2, <1>3, LiveIsOpened DEF ResourceIds

(* What a write makes of its channel.                                      *)
LEMMA WrittenRecord ==
  ASSUME ChannelInv, NEW id, NEW kind, Emit(id, kind) \/ EmitTerminal(id, kind)
  PROVE  /\ id \in DOMAIN channels /\ ~channels[id].closed /\ ~channels[id].cancelled
         /\ DOMAIN channels' = DOMAIN channels
         /\ channels'[id].messages = Append(channels[id].messages, NextMessage(id, kind))
         /\ kind \in DataKinds \cup TerminalKinds
         /\ kind \in TerminalKinds <=> channels'[id].closed \/ channels'[id].cancelled
         /\ \A x \in DOMAIN channels \ {id} : channels'[x] = channels[x]
         /\ delivered' = delivered
<1>1. id \in DOMAIN channels /\ ~channels[id].closed /\ ~channels[id].cancelled
  BY DEF Emit, EmitTerminal, Writable
<1>2. channels[id] \in Channels
  BY <1>1, LiveIsOpened
<1>3. CASE Emit(id, kind)
  <2>1. channels' = [channels EXCEPT ![id] =
          [channels[id] EXCEPT !.next = channels[id].next + 1,
             !.messages = Append(channels[id].messages, NextMessage(id, kind))]]
    BY <1>1, <1>3 DEF Emit
  <2>2. kind \in DataKinds /\ kind \notin TerminalKinds
    BY <1>3, ChannelAssumption DEF Emit, TerminalKinds
  <2>3. channels'[id].closed = channels[id].closed /\ channels'[id].cancelled = channels[id].cancelled
    BY <1>1, <1>2, <2>1 DEF Channels
  <2> QED
    BY <1>1, <1>2, <1>3, <2>1, <2>2, <2>3 DEF Channels, Emit
<1>4. CASE EmitTerminal(id, kind)
  <2>1. channels' = [channels EXCEPT ![id] =
          [channels[id] EXCEPT !.next = channels[id].next + 1,
             !.messages = Append(channels[id].messages, NextMessage(id, kind)),
             !.closed = (kind = "end"), !.cancelled = (kind = "cancel")]]
    BY <1>1, <1>4 DEF EmitTerminal
  <2>2. kind \in {"end", "cancel"}
    BY <1>4 DEF EmitTerminal, TerminalKinds
  <2>3. channels'[id].closed = (kind = "end") /\ channels'[id].cancelled = (kind = "cancel")
    BY <1>1, <1>2, <2>1 DEF Channels
  <2>4. /\ DOMAIN channels' = DOMAIN channels /\ delivered' = delivered
        /\ \A x \in DOMAIN channels \ {id} : channels'[x] = channels[x]
    BY <1>4, <2>1 DEF EmitTerminal
  <2>5. channels'[id].messages = Append(channels[id].messages, NextMessage(id, kind))
    BY <1>1, <1>2, <2>1 DEF Channels
  <2>6. kind \in TerminalKinds /\ (channels'[id].closed \/ channels'[id].cancelled)
    BY <2>2, <2>3 DEF TerminalKinds
  <2> QED
    BY <1>1, <2>4, <2>5, <2>6
<1> QED
  BY <1>3, <1>4

-----------------------------------------------------------------------------
(* Nothing is open: every stream is absent.                                *)
LEMMA InitIsStreamInit == ChannelInit => Streams!StreamInit
BY DEF ChannelInit, Streams!StreamInit, StatusOf, LogOf, ReadOf, Opened

(* Opening a channel creates its stream.                                   *)
LEMMA OpenCreates ==
  ASSUME ChannelInv, NEW owner \in Owners, NEW window \in Windows \cup {NoWindow},
         ChannelOpen(owner, window)
  PROVE  Streams!StreamNext
<1>0. PICK new : new = Id(nextSequence)
  OBVIOUS
<1>1. /\ channels' = [id \in DOMAIN channels \cup {new} |-> IF id = new THEN NewChannel ELSE channels[id]]
      /\ delivered' = [id \in DOMAIN delivered \cup {new} |-> IF id = new THEN <<>> ELSE delivered[id]]
  BY <1>0 DEF ChannelOpen
<1>2. DOMAIN channels \subseteq DOMAIN delivered /\ new \notin DOMAIN delivered
  BY <1>0, OpenedIds
<1>3. new \in ResourceIds
  <2>1. nextSequence \in 1 .. MaxOpens + 1 /\ nextSequence <= MaxOpens
    BY DEF ChannelInv, ChannelTypeOK, ResourceTypeOK, ChannelOpen, ResourceOpen
  <2>2. nextSequence \in 1 .. MaxOpens
    BY <2>1, ResourceAssumption
  <2> QED
    BY <1>0, <2>2 DEF ResourceIds
<1>4. StatusOf(new) = "absent" /\ LogOf(new) = <<>> /\ ReadOf(new) = 0
  BY <1>2 DEF StatusOf, LogOf, ReadOf, Opened
<1>5. new \in DOMAIN channels' /\ new \in DOMAIN delivered'
      /\ channels'[new] = NewChannel /\ delivered'[new] = <<>>
  BY <1>1
<1>6. StatusOf(new)' = "live" /\ LogOf(new)' = <<>> /\ ReadOf(new)' = 0
  <2>1. StatusOf(new)' = "live"
    BY <1>5 DEF StatusOf, Opened, NewChannel
  <2>2. LogOf(new)' = <<>> \o <<>>
    BY <1>5 DEF LogOf, Written, Opened, NewChannel
  <2>3. ReadOf(new)' = Len(<<>>)
    BY <1>5 DEF ReadOf, Opened
  <2>4. <<>> \o <<>> = <<>> /\ Len(<<>>) = 0
    OBVIOUS
  <2> QED
    BY <2>1, <2>2, <2>3, <2>4
<1>7. ASSUME NEW x \in ResourceIds, x # new
      PROVE  StatusOf(x)' = StatusOf(x) /\ LogOf(x)' = LogOf(x) /\ ReadOf(x)' = ReadOf(x)
  BY <1>1, <1>7, ShownStays
<1>8. Streams!Create(new)
  BY <1>3, <1>4, <1>6, <1>7 DEF Streams!Create
<1> QED
  BY <1>3, <1>8 DEF Streams!StreamNext

(* A write to a channel is a write to its stream.                          *)
LEMMA WriteWrites ==
  ASSUME ChannelInv, NEW id \in ResourceIds, NEW kind, Emit(id, kind) \/ EmitTerminal(id, kind)
  PROVE  Streams!StreamNext
<1> DEFINE m == NextMessage(id, kind)
           old == delivered[id]
           waiting == channels[id].messages
<1>1. /\ id \in DOMAIN channels /\ ~channels[id].closed /\ ~channels[id].cancelled
      /\ DOMAIN channels' = DOMAIN channels
      /\ channels'[id].messages = Append(waiting, m)
      /\ kind \in DataKinds \cup TerminalKinds
      /\ kind \in TerminalKinds <=> channels'[id].closed \/ channels'[id].cancelled
      /\ \A x \in DOMAIN channels \ {id} : channels'[x] = channels[x]
      /\ delivered' = delivered
  BY WrittenRecord
<1>2. /\ id \in DOMAIN delivered /\ old \in Seq(Messages) /\ waiting \in Seq(Messages)
      /\ channels[id] \in Channels /\ Written(id) = old \o waiting
      /\ Len(Written(id)) = channels[id].next - 1 /\ Len(Written(id)) \in Nat
  <2>1. /\ id \in DOMAIN delivered /\ old \in Seq(Messages) /\ waiting \in Seq(Messages)
        /\ channels[id] \in Channels /\ Written(id) \in Seq(Messages)
        /\ Intact(Written(id), channels[id])
    BY <1>1, LiveIsOpened
  <2>2. Len(Written(id)) = channels[id].next - 1 /\ Len(Written(id)) \in Nat
    BY <2>1 DEF Intact
  <2>3. Written(id) = old \o waiting
    BY DEF Written
  <2> QED
    BY <2>1, <2>2, <2>3
<1>3. m = [sequence |-> Len(Written(id)) + 1, kind |-> kind] /\ m \in Messages
  <2>1. channels[id].next \in Nat \ {0}
    BY <1>2 DEF Channels
  <2>2. channels[id].next = Len(Written(id)) + 1
    BY <1>2, <2>1
  <2> QED
    BY <1>1, <2>1, <2>2 DEF NextMessage, Messages
<1>4. StatusOf(id) = "live" /\ LogOf(id) = Written(id)
  BY <1>1, <1>2 DEF StatusOf, LogOf, Opened
<1>5. StatusOf(id)' = IF kind \in TerminalKinds THEN "finished" ELSE "live"
  BY <1>1, <1>2 DEF StatusOf, Opened
<1> HIDE DEF m, old, waiting
<1>6. LogOf(id)' = Append(Written(id), m)
  <2>1. LogOf(id)' = delivered'[id] \o channels'[id].messages
    BY <1>1, <1>2 DEF LogOf, Written, Opened
  <2>2. LogOf(id)' = old \o Append(waiting, m)
    BY <1>1, <2>1 DEF old
  <2>3. old \o Append(waiting, m) = Append(old \o waiting, m)
    BY <1>2, <1>3, SMT
  <2> QED
    BY <1>2, <2>2, <2>3
<1>7. \A x \in ResourceIds : ReadOf(x)' = ReadOf(x)
  BY <1>1 DEF ReadOf, Opened
<1>8. ASSUME NEW x \in ResourceIds, x # id
      PROVE  StatusOf(x)' = StatusOf(x) /\ LogOf(x)' = LogOf(x)
  BY <1>1, <1>8, ShownStays
<1>9. Streams!Write(id, kind)
  <2> DEFINE status == [x \in ResourceIds |-> StatusOf(x)]
             log == [x \in ResourceIds |-> LogOf(x)]
             read == [x \in ResourceIds |-> ReadOf(x)]
  <2>1. status[id] = "live" /\ log[id] = Written(id)
    BY <1>4
  <2>2. log' = [log EXCEPT ![id] = Append(Written(id), [sequence |-> Len(Written(id)) + 1, kind |-> kind])]
    BY <1>3, <1>6, <1>8
  <2>3. status' = IF kind \in TerminalKinds THEN [status EXCEPT ![id] = "finished"] ELSE status
    BY <1>4, <1>5, <1>8
  <2>4. read' = read
    BY <1>7
  <2> QED
    BY <2>1, <2>2, <2>3, <2>4 DEF Streams!Write
<1> QED
  BY <1>1, <1>9 DEF Streams!StreamNext

(* A drain reads what is left of the log.                                  *)
LEMMA DrainReads ==
  ASSUME ChannelInv, NEW id \in ResourceIds, Drain(id)
  PROVE  Streams!StreamNext
<1>1. /\ id \in DOMAIN channels
      /\ delivered' = [delivered EXCEPT ![id] = delivered[id] \o channels[id].messages]
      /\ channels' = [channels EXCEPT ![id] = [channels[id] EXCEPT !.messages = <<>>]]
  BY DEF Drain
<1>2. /\ id \in DOMAIN delivered /\ channels[id] \in Channels
      /\ Written(id) = delivered[id] \o channels[id].messages /\ Written(id) \in Seq(Messages)
  BY <1>1, LiveIsOpened DEF Written
<1>3. /\ DOMAIN delivered' = DOMAIN delivered /\ DOMAIN channels' = DOMAIN channels
      /\ delivered'[id] = Written(id) /\ channels'[id].messages = <<>>
      /\ channels'[id].closed = channels[id].closed /\ channels'[id].cancelled = channels[id].cancelled
      /\ \A x \in DOMAIN delivered \ {id} : delivered'[x] = delivered[x]
      /\ \A x \in DOMAIN channels \ {id} : channels'[x] = channels[x]
  BY <1>1, <1>2 DEF Channels
<1>4. StatusOf(id)' = StatusOf(id) /\ StatusOf(id) \in {"live", "finished"}
  BY <1>1, <1>2, <1>3 DEF StatusOf, Opened
<1>5. LogOf(id) = Written(id) /\ LogOf(id)' = Written(id)
  <2>1. LogOf(id) = Written(id)
    BY <1>1, <1>2 DEF LogOf, Opened
  <2>2. LogOf(id)' = Written(id) \o <<>>
    BY <1>1, <1>2, <1>3 DEF LogOf, Written, Opened
  <2> QED
    BY <1>2, <2>1, <2>2, ConcatEmptySeq
<1>6. ReadOf(id)' = Len(Written(id))
  BY <1>2, <1>3 DEF ReadOf, Opened
<1>7. ASSUME NEW x \in ResourceIds, x # id
      PROVE  StatusOf(x)' = StatusOf(x) /\ LogOf(x)' = LogOf(x) /\ ReadOf(x)' = ReadOf(x)
  BY <1>3, <1>7, ShownStays
<1>8. Streams!Read(id)
  BY <1>4, <1>5, <1>6, <1>7 DEF Streams!Read
<1> QED
  BY <1>8 DEF Streams!StreamNext

(* Closing channels releases their streams, the unread tail with them.     *)
LEMMA CloseReleases ==
  ASSUME ChannelInv, NEW ids \in SUBSET DOMAIN channels,
         channels' = [x \in DOMAIN channels \ ids |-> channels[x]], UNCHANGED delivered
  PROVE  Streams!StreamNext
<1>1. /\ DOMAIN channels \subseteq DOMAIN delivered /\ DOMAIN delivered \subseteq ResourceIds
      /\ ids \subseteq ResourceIds
  BY OpenedIds
<1>2. ASSUME NEW x \in ids
      PROVE  /\ StatusOf(x) \in {"live", "finished"} /\ StatusOf(x)' = "released"
             /\ LogOf(x)' = SubSeq(LogOf(x), 1, ReadOf(x)) /\ ReadOf(x)' = ReadOf(x)
  <2>1. x \in DOMAIN channels /\ x \in DOMAIN delivered /\ x \notin DOMAIN channels'
    BY <1>1
  <2>2. StatusOf(x) \in {"live", "finished"} /\ StatusOf(x)' = "released"
    BY <2>1 DEF StatusOf, Opened
  <2> DEFINE old == delivered[x]
             waiting == channels[x].messages
  <2>3. old \in Seq(Messages) /\ waiting \in Seq(Messages)
    BY <2>1, LiveIsOpened
  <2>4. LogOf(x) = old \o waiting /\ ReadOf(x) = Len(old) /\ LogOf(x)' = old /\ ReadOf(x)' = Len(old)
    BY <2>1 DEF LogOf, ReadOf, Opened, Written
  <2> HIDE DEF old, waiting
  <2>5. SubSeq(old \o waiting, 1, Len(old)) = old
    <3>1. /\ Len(old) \in Nat /\ Len(waiting) \in Nat /\ old \o waiting \in Seq(Messages)
          /\ Len(old \o waiting) = Len(old) + Len(waiting)
          /\ \A i \in 1 .. Len(old) : (old \o waiting)[i] = old[i]
      BY <2>3
    <3> DEFINE both == old \o waiting
               part == SubSeq(both, 1, Len(old))
    <3> HIDE DEF both
    <3>2. both \in Seq(Messages) /\ Len(old) <= Len(both) /\ Len(old) \in Nat
          /\ \A i \in 1 .. Len(old) : both[i] = old[i]
      BY <3>1 DEF both
    <3>3. part = [i \in 1 .. Len(old) |-> both[i]]
      BY <3>2
    <3>4. old = [i \in 1 .. Len(old) |-> old[i]]
      BY <2>3
    <3> QED
      BY <3>2, <3>3, <3>4 DEF both
  <2> QED
    BY <2>2, <2>4, <2>5
<1>3. ASSUME NEW x \in ResourceIds \ ids
      PROVE  StatusOf(x)' = StatusOf(x) /\ LogOf(x)' = LogOf(x) /\ ReadOf(x)' = ReadOf(x)
  BY ShownStays
<1>4. Streams!Release(ids)
  BY <1>1, <1>2, <1>3 DEF Streams!Release
<1> QED
  BY <1>1, <1>4 DEF Streams!StreamNext

-----------------------------------------------------------------------------
(* A step of the table is a step of its streams, or shows nothing of them. *)
LEMMA StepIsStreamStep ==
  ChannelInv /\ [ChannelNext]_channelVars => [Streams!StreamNext]_Streams!streamVars
<1> SUFFICES ASSUME ChannelInv, [ChannelNext]_channelVars
             PROVE  Streams!StreamNext \/ UNCHANGED Streams!streamVars
  OBVIOUS
<1>1. ASSUME NEW owner \in Owners, NEW window \in Windows \cup {NoWindow}, ChannelOpen(owner, window)
      PROVE  Streams!StreamNext
  BY <1>1, OpenCreates
<1>2. ASSUME NEW id \in ResourceIds, NEW kind, Emit(id, kind) \/ EmitTerminal(id, kind)
      PROVE  Streams!StreamNext
  BY <1>2, WriteWrites
<1>3. ASSUME NEW id \in ResourceIds, Drain(id) PROVE Streams!StreamNext
  BY <1>3, DrainReads
<1>4. ASSUME NEW id \in ResourceIds, ChannelClose(id) PROVE Streams!StreamNext
  <2>1. {id} \in SUBSET DOMAIN channels
    BY <1>4 DEF ChannelClose, ResourceClose, ChannelInv, TablesAgree
  <2> QED
    BY <1>4, <2>1, CloseReleases DEF ChannelClose
<1>5. CASE ChannelCloseAll
  <2>1. channels' = [x \in DOMAIN channels \ DOMAIN channels |-> channels[x]] /\ UNCHANGED delivered
    BY <1>5 DEF ChannelCloseAll
  <2> QED
    BY <2>1, CloseReleases
<1>6. CASE UNCHANGED channelVars
  <2>1. UNCHANGED <<channels, delivered>>
    BY <1>6 DEF channelVars
  <2>2. \A x \in ResourceIds :
          StatusOf(x)' = StatusOf(x) /\ LogOf(x)' = LogOf(x) /\ ReadOf(x)' = ReadOf(x)
    BY <2>1, ShownStays
  <2> QED
    BY <2>2 DEF Streams!streamVars
<1> QED
  BY <1>1, <1>2, <1>3, <1>4, <1>5, <1>6 DEF ChannelNext

(* Handlers that write and pages that drain, cancel and close see nothing  *)
(* of the four structures: only logs that grow at the end, are read from   *)
(* the front, and end once.                                                *)
THEOREM StreamsTheorem == ChannelSpec => ImplementsStreams
<1> QED
  BY InitChannelInv, NextKeepsChannelInv, InitIsStreamInit, StepIsStreamStep, PTL
     DEF ChannelSpec, ImplementsStreams, Streams!StreamSpec

-----------------------------------------------------------------------------
(* A step of the channel table is one of the resource table under it, or   *)
(* leaves it alone.                                                        *)
LEMMA StepIsResourceStep ==
  ChannelInv /\ [ChannelNext]_channelVars => [ResourceNext]_resourceVars
<1> SUFFICES ASSUME ChannelInv, [ChannelNext]_channelVars
             PROVE  ResourceNext \/ UNCHANGED resourceVars
  OBVIOUS
<1>1. ASSUME NEW owner \in Owners, NEW window \in Windows \cup {NoWindow}, ChannelOpen(owner, window)
      PROVE  ResourceNext
  <2>1. [kind |-> ChannelKind, owner |-> owner, window |-> window] \in Descriptors
    BY ChannelAssumption DEF Descriptors
  <2> QED
    BY <1>1, <2>1 DEF ChannelOpen, ResourceNext
<1>2. ASSUME NEW id, NEW kind, Emit(id, kind) \/ EmitTerminal(id, kind)
      PROVE  UNCHANGED resourceVars
  BY <1>2 DEF Emit, EmitTerminal
<1>3. ASSUME NEW id, Drain(id) PROVE UNCHANGED resourceVars
  BY <1>3 DEF Drain
<1>4. ASSUME NEW id \in ResourceIds, ChannelClose(id) PROVE ResourceNext
  BY <1>4 DEF ChannelClose, ResourceNext
<1>5. CASE ChannelCloseAll
  BY <1>5 DEF ChannelCloseAll, ResourceNext
<1>6. CASE UNCHANGED channelVars
  BY <1>6 DEF channelVars
<1> QED
  BY <1>1, <1>2, <1>3, <1>4, <1>5, <1>6 DEF ChannelNext

(* The channel table uses the resource table under it by the operations of *)
(* that table alone, so that all that holds of resources holds of channels:*)
(* the id of a channel that was closed never names another one.            *)
THEOREM ChannelIdsTheorem == ChannelSpec => ResourceSpec /\ NeverReopened
<1>1. ChannelInit => ResourceInit
  BY DEF ChannelInit
<1>2. ChannelSpec => ResourceSpec
  BY <1>1, InitChannelInv, NextKeepsChannelInv, StepIsResourceStep, PTL DEF ChannelSpec, ResourceSpec
<1> QED
  BY <1>2, NeverReopenedTheorem

-----------------------------------------------------------------------------
(* The application.                                                        *)

(* The other table is a resource table as well.                            *)
PlainProofs == INSTANCE ResourceTable_proofs WITH
  IdPrefix <- PlainPrefix, Kinds <- PlainKinds, MaxOpens <- MaxPlainOpens,
  nextSequence <- plainNext, entries <- plainEntries, order <- plainOrder

PlainInv == Plain!ResourceTypeOK /\ Plain!OrderIsOpeningOrder

(* Who opened a channel is who its resource names.                         *)
OwnerInv ==
  /\ openedBy \in [DOMAIN delivered -> Windows]
  /\ \A id \in DOMAIN channels : entries[id].window = openedBy[id]

(* No channel is written to beyond the bound.                              *)
RoomInv ==
  /\ \A id \in DOMAIN channels : channels[id].next <= MaxMessages + 1
  /\ \A id \in DOMAIN delivered : Len(delivered[id]) <= MaxMessages

HandlingInv == handling = {} \/ \E id \in ResourceIds : handling = {id}

(* A page has, or will get, what a drain of its own channel handed out.    *)
HeardInv ==
  /\ answers \subseteq Answers
  /\ received \in [Windows -> SUBSET (ResourceIds \X (1 .. MaxMessages))]
  /\ \A a \in answers :
       /\ a.id \in DOMAIN delivered /\ openedBy[a.id] = a.window
       /\ \A n \in a.numbers : n <= Len(delivered[a.id])
  /\ \A w \in Windows : \A m \in received[w] :
       /\ m[1] \in DOMAIN delivered /\ openedBy[m[1]] = w
       /\ m[2] <= Len(delivered[m[1]])

Once ==
  \A a \in answers, n \in 1 .. MaxMessages :
    n \in a.numbers =>
      /\ <<a.id, n>> \notin received[a.window]
      /\ \A b \in answers : n \in b.numbers /\ b.id = a.id => b = a

AppInv ==
  ChannelInv /\ PlainInv /\ OwnerInv /\ RoomInv /\ HandlingInv /\ HeardInv /\ Once

-----------------------------------------------------------------------------
(* The other table.                                                        *)
LEMMA PlainAssumption ==
  MaxPlainOpens \in Nat /\ EmptyKind \notin PlainKinds /\ NoWindow \notin Windows
BY AppAssumption, ResourceAssumption

LEMMA SamePlainInv == PlainInv <=> PlainProofs!ResourceInv
BY DEF PlainInv, PlainProofs!ResourceInv, PlainProofs!ResourceTypeOK, Plain!ResourceTypeOK,
       PlainProofs!OrderIsOpeningOrder, Plain!OrderIsOpeningOrder,
       PlainProofs!Id, Plain!Id, PlainProofs!Entries, Plain!Entries

LEMMA InitPlainInv == Plain!ResourceInit => PlainInv
<1>1. Plain!ResourceInit => PlainProofs!ResourceInit
  BY DEF Plain!ResourceInit, PlainProofs!ResourceInit
<1> QED
  BY <1>1, PlainAssumption, SamePlainInv, PlainProofs!InitResourceInv

LEMMA PlainOpenKeepsInv ==
  ASSUME PlainInv, NEW descriptor \in Plain!Descriptors, Plain!ResourceOpen(descriptor)
  PROVE  PlainInv'
<1>1. descriptor \in PlainProofs!Descriptors /\ PlainProofs!ResourceOpen(descriptor)
  BY DEF Plain!Descriptors, PlainProofs!Descriptors, Plain!ResourceOpen, PlainProofs!ResourceOpen,
         Plain!Id, PlainProofs!Id, Plain!NewEntry, PlainProofs!NewEntry
<1>2. PlainProofs!ResourceInv'
  BY <1>1, PlainAssumption, SamePlainInv, PlainProofs!OpenKeepsInv
<1> QED
  BY <1>2 DEF PlainInv, PlainProofs!ResourceInv, PlainProofs!ResourceTypeOK, Plain!ResourceTypeOK,
       PlainProofs!OrderIsOpeningOrder, Plain!OrderIsOpeningOrder,
       PlainProofs!Id, Plain!Id, PlainProofs!Entries, Plain!Entries

LEMMA PlainCloseKeepsInv ==
  ASSUME PlainInv, NEW ids, Plain!ResourceCloseEntries(ids)
  PROVE  PlainInv'
<1>1. PlainProofs!ResourceCloseEntries(ids)
  <2>1. \A S : Plain!Cardinality(S) = PlainProofs!Cardinality(S)
    BY DEF Plain!Cardinality, PlainProofs!Cardinality
  <2>2. \A list, rest : Plain!Without(list, ids, rest) => PlainProofs!Without(list, ids, rest)
    BY <2>1 DEF Plain!Without, PlainProofs!Without
  <2> QED
    BY <2>2 DEF Plain!ResourceCloseEntries, PlainProofs!ResourceCloseEntries
<1>2. PlainProofs!ResourceInv'
  BY <1>1, PlainAssumption, SamePlainInv, PlainProofs!CloseEntriesKeepsInv
<1> QED
  BY <1>2 DEF PlainInv, PlainProofs!ResourceInv, PlainProofs!ResourceTypeOK, Plain!ResourceTypeOK,
       PlainProofs!OrderIsOpeningOrder, Plain!OrderIsOpeningOrder,
       PlainProofs!Id, Plain!Id, PlainProofs!Entries, Plain!Entries

LEMMA PlainStaysInv == PlainInv /\ UNCHANGED plainVars => PlainInv'
BY DEF PlainInv, plainVars, Plain!ResourceTypeOK, Plain!OrderIsOpeningOrder, Plain!Id, Plain!Entries

(* No id is in both tables.                                                *)
LEMMA TablesApart ==
  ASSUME PlainInv, ChannelInv
  PROVE  DOMAIN plainEntries \cap DOMAIN channels = {}
<1>1. DOMAIN plainEntries \subseteq {Plain!Id(n) : n \in 1 .. plainNext - 1}
  BY DEF PlainInv, Plain!ResourceTypeOK
<1>2. DOMAIN channels \subseteq {Id(n) : n \in 1 .. nextSequence - 1}
  BY DEF ChannelInv, TablesAgree, ResourceInv, ResourceTypeOK
<1>3. \A m, n : Plain!Id(m) # Id(n)
  BY AppAssumption DEF Plain!Id, Id
<1> QED
  BY <1>1, <1>2, <1>3

-----------------------------------------------------------------------------
(* Channels.                                                               *)

(* What waits in a channel is numbered on from what was handed out.        *)
LEMMA PendingNumbers ==
  ASSUME ChannelInv, NEW id \in DOMAIN channels
  PROVE  /\ delivered[id] \in Seq(Messages) /\ channels[id].messages \in Seq(Messages)
         /\ channels[id].next \in Nat
         /\ channels[id].next - 1 = Len(delivered[id]) + Len(channels[id].messages)
         /\ \A i \in 1 .. Len(channels[id].messages) :
              channels[id].messages[i].sequence = Len(delivered[id]) + i
<1>1. /\ delivered[id] \in Seq(Messages) /\ channels[id] \in Channels
      /\ channels[id].messages \in Seq(Messages) /\ Intact(Written(id), channels[id])
  BY LiveIsOpened
<1> DEFINE old == delivered[id]
           new == channels[id].messages
<1>2. old \in Seq(Messages) /\ new \in Seq(Messages) /\ Len(old) \in Nat /\ Len(new) \in Nat
  BY <1>1
<1>3. Len(old \o new) = channels[id].next - 1
      /\ \A i \in 1 .. Len(old \o new) : (old \o new)[i].sequence = i
  BY <1>1 DEF Intact, Written
<1> HIDE DEF old, new
<1>4. Len(old \o new) = Len(old) + Len(new)
      /\ \A i \in 1 .. Len(new) : (old \o new)[Len(old) + i] = new[i]
  BY <1>2
<1>5. ASSUME NEW i \in 1 .. Len(new) PROVE new[i].sequence = Len(old) + i
  <2>1. Len(old) + i \in 1 .. Len(old) + Len(new)
    BY <1>2
  <2> QED
    BY <1>3, <1>4, <2>1
<1>6. channels[id].next \in Nat
  BY <1>1 DEF Channels
<1> QED
  BY <1>1, <1>3, <1>4, <1>5, <1>6 DEF old, new

(* A write is to a channel that is not full and moves nothing else.        *)
LEMMA WriteEffect ==
  ASSUME ChannelInv, NEW id, NEW kind, Emit(id, kind) \/ EmitTerminal(id, kind)
  PROVE  /\ id \in DOMAIN channels /\ DOMAIN channels' = DOMAIN channels
         /\ channels'[id].next = channels[id].next + 1 /\ channels[id].next <= MaxMessages
         /\ \A x \in DOMAIN channels \ {id} : channels'[x] = channels[x]
         /\ UNCHANGED <<entries, delivered>>
<1>1. id \in DOMAIN channels /\ channels[id].next <= MaxMessages
  BY DEF Emit, EmitTerminal, Writable
<1>2. channels[id] \in Channels
  BY <1>1, LiveIsOpened
<1>3. CASE Emit(id, kind)
  <2>1. channels' = [channels EXCEPT ![id] =
          [channels[id] EXCEPT !.next = channels[id].next + 1,
             !.messages = Append(channels[id].messages, NextMessage(id, kind))]]
    BY <1>1, <1>3 DEF Emit
  <2> QED
    BY <1>1, <1>2, <1>3, <2>1 DEF Channels, Emit, resourceVars
<1>4. CASE EmitTerminal(id, kind)
  <2>1. channels' = [channels EXCEPT ![id] =
          [channels[id] EXCEPT !.next = channels[id].next + 1,
             !.messages = Append(channels[id].messages, NextMessage(id, kind)),
             !.closed = (kind = "end"), !.cancelled = (kind = "cancel")]]
    BY <1>1, <1>4 DEF EmitTerminal
  <2> QED
    BY <1>1, <1>2, <1>4, <2>1 DEF Channels, EmitTerminal, resourceVars
<1> QED
  BY <1>3, <1>4

LEMMA AllOpened ==
  ASSUME ChannelInv
  PROVE  DOMAIN delivered \subseteq ResourceIds /\ nextSequence \in Nat \ {0}
         /\ DOMAIN channels \subseteq DOMAIN delivered
<1>1. nextSequence \in 1 .. MaxOpens + 1 /\ DOMAIN delivered = {Id(n) : n \in 1 .. nextSequence - 1}
  BY DEF ChannelInv, ChannelTypeOK, ResourceTypeOK
<1>2. 1 .. nextSequence - 1 \subseteq 1 .. MaxOpens /\ nextSequence \in Nat \ {0}
  BY <1>1, ResourceAssumption
<1> QED
  BY <1>1, <1>2, LiveIsOpened DEF ResourceIds

-----------------------------------------------------------------------------
(* What pages heard stays true while logs and owners only grow.            *)
LEMMA HeardStays ==
  ASSUME HeardInv, Once, UNCHANGED pageVars,
         \A id \in DOMAIN delivered :
           id \in DOMAIN delivered' /\ delivered'[id] = delivered[id] /\ openedBy'[id] = openedBy[id]
  PROVE  HeardInv' /\ Once'
<1>1. answers' = answers /\ received' = received
  BY DEF pageVars
<1>2. HeardInv'
  BY <1>1 DEF HeardInv
<1>3. Once'
  BY <1>1 DEF Once
<1> QED
  BY <1>2, <1>3

(* Closing leaves the owners of the rest.                                  *)
LEMMA FewerChannels ==
  ASSUME ChannelInv, ChannelInv', OwnerInv, RoomInv, UNCHANGED <<openedBy, delivered>>,
         \A id \in DOMAIN channels' :
           id \in DOMAIN channels /\ channels'[id] = channels[id] /\ entries'[id] = entries[id]
  PROVE  OwnerInv' /\ RoomInv'
BY DEF OwnerInv, RoomInv

LEMMA CloseEffect ==
  ASSUME ChannelInv, (\E id : ChannelClose(id)) \/ ChannelCloseAll
  PROVE  /\ ChannelInv' /\ UNCHANGED delivered
         /\ \A id \in DOMAIN channels' :
              id \in DOMAIN channels /\ channels'[id] = channels[id] /\ entries'[id] = entries[id]
<1>1. ASSUME NEW id, ChannelClose(id)
      PROVE  /\ ChannelInv' /\ UNCHANGED delivered
             /\ \A x \in DOMAIN channels' :
                  x \in DOMAIN channels \ {id} /\ channels'[x] = channels[x] /\ entries'[x] = entries[x]
  <2>1. ChannelInv'
    BY <1>1, ChannelCloseKeepsInv
  <2>2. DOMAIN channels' = DOMAIN channels \ {id} /\ DOMAIN channels = DOMAIN entries
    BY <1>1 DEF ChannelClose, ChannelInv, TablesAgree
  <2>3. entries' = [x \in DOMAIN entries \ {id} |-> entries[x]]
    BY <1>1 DEF ChannelClose, ResourceClose, ResourceCloseEntries
  <2> QED
    BY <1>1, <2>1, <2>2, <2>3 DEF ChannelClose
<1>2. CASE ChannelCloseAll
  <2>1. ChannelInv' /\ DOMAIN channels' = {}
    BY <1>2, ChannelCloseAllKeepsInv DEF ChannelCloseAll
  <2> QED
    BY <1>2, <2>1 DEF ChannelCloseAll
<1> QED
  BY <1>1, <1>2

-----------------------------------------------------------------------------
(* Nothing is open and nothing was heard at the start.                     *)
LEMMA InitAppInv == AppInit => AppInv
<1> SUFFICES ASSUME AppInit PROVE AppInv
  OBVIOUS
<1>1. /\ ChannelInit /\ Plain!ResourceInit /\ handling = {} /\ answers = {}
      /\ received = [w \in Windows |-> {}] /\ openedBy = [id \in {} |-> NoWindow]
  BY DEF AppInit
<1>2. ChannelInv /\ PlainInv
  BY <1>1, InitChannelInv, InitPlainInv
<1>3. DOMAIN channels = {} /\ DOMAIN delivered = {}
  BY <1>1 DEF ChannelInit
<1>4. OwnerInv /\ RoomInv /\ HandlingInv
  BY <1>1, <1>3 DEF OwnerInv, RoomInv, HandlingInv
<1>5. HeardInv /\ Once
  BY <1>1 DEF HeardInv, Once
<1> QED
  BY <1>2, <1>4, <1>5 DEF AppInv

(* A stream command opens a channel for its own window.                    *)
LEMMA StreamCommandKeeps ==
  ASSUME AppInv, NEW w \in Windows, NEW owner \in Owners, StreamCommand(w, owner)
  PROVE  AppInv'
<1> DEFINE new == Id(nextSequence)
<1>1. /\ ChannelOpen(owner, w) /\ handling' = {new} /\ UNCHANGED <<plainVars, pageVars>>
      /\ openedBy' = [id \in DOMAIN openedBy \cup {new} |-> IF id = new THEN w ELSE openedBy[id]]
  BY DEF StreamCommand
<1>2. ChannelInv /\ ChannelInv' /\ PlainInv'
  BY <1>1, ChannelOpenKeepsInv, PlainStaysInv DEF AppInv
<1>3. /\ DOMAIN channels' = DOMAIN channels \cup {new}
      /\ \A id \in DOMAIN channels \ {new} : channels'[id] = channels[id] /\ entries'[id] = entries[id]
      /\ channels'[new].next = 1 /\ entries'[new].window = w
      /\ DOMAIN delivered' = DOMAIN delivered \cup {new} /\ delivered'[new] = <<>>
      /\ \A id \in DOMAIN delivered \ {new} : delivered'[id] = delivered[id]
  BY <1>1, <1>2 DEF ChannelOpen, ResourceOpen, NewEntry, NewChannel, ChannelInv, TablesAgree
<1>4. new \notin DOMAIN delivered /\ DOMAIN channels \subseteq DOMAIN delivered
  <2>1. nextSequence \in Nat /\ DOMAIN delivered = {Id(n) : n \in 1 .. nextSequence - 1}
    BY <1>2, AllOpened DEF ChannelInv, ChannelTypeOK
  <2>2. \A n \in 1 .. nextSequence - 1 : Id(n) # new
    BY <2>1 DEF Id
  <2> QED
    BY <1>2, <2>1, <2>2, AllOpened
<1> HIDE DEF new
<1>5. OwnerInv'
  BY <1>1, <1>3, <1>4 DEF AppInv, OwnerInv
<1>6. RoomInv'
  <2>1. MaxMessages \in Nat /\ Len(<<>>) = 0
    BY ChannelAssumption, EmptySeq
  <2> QED
    BY <1>3, <1>4, <2>1 DEF AppInv, RoomInv
<1>7. HandlingInv'
  <2>1. new \in ResourceIds
    BY <1>1, <1>2, AllOpened DEF ChannelOpen, ResourceOpen, ResourceIds, new
  <2> QED
    BY <1>1, <2>1 DEF HandlingInv, ResourceIds
<1>8. HeardInv' /\ Once'
  <2>1. DOMAIN openedBy = DOMAIN delivered
    BY DEF AppInv, OwnerInv
  <2> QED
    BY <1>1, <1>3, <1>4, <2>1, HeardStays DEF AppInv
<1> QED
  BY <1>2, <1>5, <1>6, <1>7, <1>8 DEF AppInv

(* A write, of a sink or by the control command for cancelling.            *)
LEMMA WriteKeeps ==
  ASSUME AppInv, NEW id, NEW kind \in DataKinds \cup TerminalKinds,
         Emit(id, kind) \/ EmitTerminal(id, kind),
         UNCHANGED <<plainVars, pageVars, openedBy>>, handling' \in {handling, {}}
  PROVE  AppInv'
<1>1. ChannelInv /\ ChannelInv' /\ PlainInv'
  BY WriteKeepsInv, PlainStaysInv DEF AppInv
<1>2. /\ id \in DOMAIN channels /\ DOMAIN channels' = DOMAIN channels
      /\ channels'[id].next = channels[id].next + 1 /\ channels[id].next <= MaxMessages
      /\ \A x \in DOMAIN channels \ {id} : channels'[x] = channels[x]
      /\ entries' = entries /\ delivered' = delivered /\ openedBy' = openedBy
  BY <1>1, WriteEffect
<1>3. OwnerInv'
  BY <1>2 DEF AppInv, OwnerInv
<1>4. RoomInv'
  <2>1. channels[id].next \in Nat /\ MaxMessages \in Nat
    BY <1>1, <1>2, PendingNumbers, ChannelAssumption
  <2> QED
    BY <1>2, <2>1 DEF AppInv, RoomInv
<1>5. HandlingInv'
  BY DEF AppInv, HandlingInv, ResourceIds
<1>6. HeardInv' /\ Once'
  BY <1>2, HeardStays DEF AppInv
<1> QED
  BY <1>1, <1>3, <1>4, <1>5, <1>6 DEF AppInv

(* A drain hands out higher numbers than any before, to the channel's      *)
(* window.                                                                 *)
LEMMA DrainKeeps ==
  ASSUME AppInv, NEW w \in Windows, NEW id, ControlDrain(w, id)
  PROVE  AppInv'
<1> DEFINE waiting == channels[id].messages
           numbers == {waiting[i].sequence : i \in DOMAIN waiting}
           new == [window |-> w, id |-> id, numbers |-> numbers]
<1>1. /\ AuthorizeResource(w, id) /\ Drain(id) /\ answers' = answers \cup {new}
      /\ UNCHANGED <<plainVars, handling, received, openedBy>>
  BY DEF ControlDrain
<1>2. ChannelInv /\ ChannelInv' /\ PlainInv /\ PlainInv'
  BY <1>1, DrainKeepsInv, PlainStaysInv DEF AppInv
<1>3. id \in DOMAIN channels /\ id \in DOMAIN delivered /\ DOMAIN delivered \subseteq ResourceIds
  BY <1>1, <1>2, AllOpened DEF Drain
<1>4. openedBy[id] = w
  <2>1. id \notin DOMAIN plainEntries
    BY <1>2, <1>3, TablesApart
  <2> QED
    BY <1>1, <1>3, <2>1 DEF AuthorizeResource, ResourceOf, AppInv, OwnerInv
<1>5. PICK old \in Nat, more \in Nat :
        /\ old = Len(delivered[id]) /\ more = Len(waiting)
        /\ waiting \in Seq(Messages) /\ delivered[id] \in Seq(Messages)
        /\ \A i \in 1 .. more : waiting[i].sequence = old + i
        /\ channels[id].next \in Nat /\ channels[id].next - 1 = old + more
  <2>1. Len(delivered[id]) \in Nat /\ Len(waiting) \in Nat
    BY <1>2, <1>3, PendingNumbers
  <2> QED
    BY <1>2, <1>3, <2>1, PendingNumbers
<1>6. /\ DOMAIN delivered' = DOMAIN delivered /\ Len(delivered'[id]) = old + more
      /\ \A x \in DOMAIN delivered \ {id} : delivered'[x] = delivered[x]
  <2>1. delivered' = [delivered EXCEPT ![id] = delivered[id] \o waiting]
    BY <1>1 DEF Drain
  <2>2. Len(delivered[id] \o waiting) = old + more
    BY <1>5, ConcatProperties
  <2>3. delivered = [x \in DOMAIN delivered |-> delivered[x]]
    BY <1>2 DEF ChannelInv, ChannelTypeOK
  <2> QED
    BY <1>3, <2>1, <2>2, <2>3
<1>7. /\ DOMAIN channels' = DOMAIN channels /\ channels'[id].next = channels[id].next
      /\ \A x \in DOMAIN channels \ {id} : channels'[x] = channels[x]
      /\ entries' = entries
  <2>1. channels[id] \in Channels
    BY <1>2, <1>3, LiveIsOpened
  <2> QED
    BY <1>1, <1>3, <2>1 DEF Drain, Channels, resourceVars
<1>8. old + more <= MaxMessages /\ MaxMessages \in Nat
  <2>1. channels[id].next <= MaxMessages + 1 /\ MaxMessages \in Nat
    BY <1>3, ChannelAssumption DEF AppInv, RoomInv
  <2>2. PICK next \in Nat : next = channels[id].next
    BY <1>5
  <2>3. next - 1 = old + more /\ next <= MaxMessages + 1
    BY <1>5, <2>1, <2>2
  <2> QED
    BY <2>1, <2>3
<1>9. \A n \in numbers : n \in 1 .. MaxMessages /\ n > old /\ n <= old + more
  <2>1. ASSUME NEW i \in DOMAIN waiting
        PROVE  /\ waiting[i].sequence \in 1 .. MaxMessages
               /\ waiting[i].sequence > old /\ waiting[i].sequence <= old + more
    <3>1. DOMAIN waiting = 1 .. more
      BY <1>5
    <3>2. i \in 1 .. more /\ waiting[i].sequence = old + i
      BY <1>5, <3>1
    <3>3. old + i \in 1 .. MaxMessages /\ old + i > old /\ old + i <= old + more
      BY <1>8, <3>2
    <3> QED
      BY <3>2, <3>3
  <2> QED
    BY <2>1
<1> HIDE DEF numbers
<1>10. new \in Answers
  BY <1>3, <1>9 DEF Answers
<1>11. OwnerInv'
  BY <1>1, <1>6, <1>7 DEF AppInv, OwnerInv
<1>12. RoomInv'
  BY <1>6, <1>7, <1>8 DEF AppInv, RoomInv
<1>13. HandlingInv'
  BY <1>1 DEF AppInv, HandlingInv, ResourceIds
<1>14. \A a \in answers : a.id = id => \A n \in a.numbers : n <= old
  BY <1>5 DEF AppInv, HeardInv
<1>15. \A n \in 1 .. MaxMessages : <<id, n>> \in received[w] => n <= old
  BY <1>5 DEF AppInv, HeardInv
<1>16. \A x \in DOMAIN delivered, n \in 1 .. MaxMessages :
         n <= Len(delivered[x]) => n <= Len(delivered'[x])
  <2>1. old = Len(delivered[id])
    BY <1>5
  <2>2. old <= old + more
    OBVIOUS
  <2>3. \A n \in 1 .. MaxMessages : n <= old => n <= old + more
    OBVIOUS
  <2> QED
    BY <1>6, <2>1, <2>2, <2>3
<1>17. HeardInv'
  <2>1. answers' \subseteq Answers
    BY <1>1, <1>10 DEF AppInv, HeardInv
  <2>2. received' \in [Windows -> SUBSET (ResourceIds \X (1 .. MaxMessages))]'
    BY <1>1 DEF AppInv, HeardInv, ResourceIds
  <2>3. ASSUME NEW a \in answers'
        PROVE  /\ a.id \in DOMAIN delivered' /\ openedBy'[a.id] = a.window
               /\ \A n \in a.numbers : n <= Len(delivered'[a.id])
    <3>1. CASE a = new
      BY <1>1, <1>3, <1>4, <1>6, <1>9, <3>1
    <3>2. CASE a \in answers
      <4>1. a \in Answers /\ a.id \in DOMAIN delivered /\ openedBy[a.id] = a.window
            /\ \A n \in a.numbers : n <= Len(delivered[a.id])
        BY <3>2 DEF AppInv, HeardInv
      <4>2. \A n \in a.numbers : n \in 1 .. MaxMessages
        BY <4>1 DEF Answers
      <4> QED
        BY <1>1, <1>6, <1>16, <4>1, <4>2
    <3> QED
      BY <1>1, <3>1, <3>2
  <2>4. ASSUME NEW v \in Windows, NEW m \in received'[v]
        PROVE  m[1] \in DOMAIN delivered' /\ openedBy'[m[1]] = v /\ m[2] <= Len(delivered'[m[1]])
    <3>1. m \in received[v] /\ m \in ResourceIds \X (1 .. MaxMessages)
      BY <1>1 DEF AppInv, HeardInv
    <3>2. m[1] \in DOMAIN delivered /\ openedBy[m[1]] = v /\ m[2] <= Len(delivered[m[1]])
      BY <3>1 DEF AppInv, HeardInv
    <3>3. m[2] \in 1 .. MaxMessages
      BY <3>1
    <3> QED
      BY <1>1, <1>6, <1>16, <3>2, <3>3
  <2> QED
    BY <2>1, <2>2, <2>3, <2>4 DEF HeardInv, Answers, ResourceIds
<1>18. Once'
  <2> SUFFICES ASSUME NEW a \in answers', NEW n \in 1 .. MaxMessages, n \in a.numbers
               PROVE  /\ <<a.id, n>> \notin received'[a.window]
                      /\ \A b \in answers' : n \in b.numbers /\ b.id = a.id => b = a
    BY DEF Once
  <2>1. CASE a = new
    <3>0. n \in numbers
      BY <2>1
    <3>1. n > old /\ n \in Nat
      BY <1>9, <3>0
    <3>2. <<a.id, n>> \notin received'[a.window]
      BY <1>1, <1>15, <2>1, <3>1
    <3>3. ASSUME NEW b \in answers, n \in b.numbers, b.id = a.id PROVE FALSE
      BY <1>14, <2>1, <3>1, <3>3
    <3> QED
      BY <1>1, <2>1, <3>2, <3>3
  <2>2. CASE a \in answers
    <3>1. /\ <<a.id, n>> \notin received[a.window]
          /\ \A b \in answers : n \in b.numbers /\ b.id = a.id => b = a
      BY <2>2 DEF AppInv, Once
    <3>2. ASSUME n \in numbers, a.id = id PROVE FALSE
      <4>1. n > old
        BY <1>9, <3>2
      <4>2. n <= old
        BY <1>14, <2>2, <3>2
      <4> QED
        BY <4>1, <4>2
    <3> QED
      BY <1>1, <3>1, <3>2
  <2> QED
    BY <1>1, <2>1, <2>2
<1> QED
  BY <1>2, <1>11, <1>12, <1>13, <1>17, <1>18 DEF AppInv

(* A close, of a page or by the application, takes a channel or all.       *)
LEMMA CloseKeeps ==
  ASSUME AppInv, (\E id : ChannelClose(id)) \/ ChannelCloseAll, PlainInv',
         UNCHANGED <<handling, pageVars, openedBy>>
  PROVE  AppInv'
<1>1. /\ ChannelInv /\ ChannelInv' /\ UNCHANGED delivered
      /\ \A id \in DOMAIN channels' :
           id \in DOMAIN channels /\ channels'[id] = channels[id] /\ entries'[id] = entries[id]
  BY CloseEffect DEF AppInv
<1>2. OwnerInv' /\ RoomInv'
  BY <1>1, FewerChannels DEF AppInv
<1>3. HandlingInv'
  BY DEF AppInv, HandlingInv, ResourceIds
<1>4. HeardInv' /\ Once'
  BY <1>1, HeardStays DEF AppInv
<1> QED
  BY <1>1, <1>2, <1>3, <1>4 DEF AppInv

(* What does not touch the channels and tells the pages nothing.           *)
LEMMA OtherKeeps ==
  ASSUME AppInv, PlainInv', UNCHANGED <<channelVars, pageVars, openedBy>>, handling' \in {handling, {}}
  PROVE  AppInv'
<1>1. ChannelInv'
  BY NextKeepsChannelInv DEF AppInv
<1>2. UNCHANGED <<channels, entries, delivered, openedBy>>
  BY DEF channelVars, resourceVars
<1>3. OwnerInv' /\ RoomInv'
  BY <1>2 DEF AppInv, OwnerInv, RoomInv
<1>4. HandlingInv'
  BY DEF AppInv, HandlingInv, ResourceIds
<1>5. HeardInv' /\ Once'
  BY <1>2, HeardStays DEF AppInv
<1> QED
  BY <1>1, <1>3, <1>4, <1>5 DEF AppInv

(* An answer that arrives is no longer on its way.                         *)
LEMMA AnswerKeeps ==
  ASSUME AppInv, NEW answer \in answers, PageTakes(answer) \/ PageGaveUp(answer)
  PROVE  AppInv'
<1>1. /\ answers' = answers \ {answer} /\ UNCHANGED <<channelVars, plainVars, handling, openedBy>>
      /\ answer \in Answers /\ received \in [Windows -> SUBSET (ResourceIds \X (1 .. MaxMessages))]
  BY DEF PageTakes, PageGaveUp, AppInv, HeardInv
<1>2. ChannelInv' /\ PlainInv'
  <2>1. UNCHANGED channelVars
    BY <1>1
  <2> QED
    BY <1>1, <2>1, NextKeepsChannelInv, PlainStaysInv DEF AppInv
<1>3. UNCHANGED <<channels, entries, delivered, openedBy>>
  BY <1>1 DEF channelVars, resourceVars
<1>4. OwnerInv' /\ RoomInv' /\ HandlingInv'
  BY <1>1, <1>3 DEF AppInv, OwnerInv, RoomInv, HandlingInv, ResourceIds
<1>5. CASE PageGaveUp(answer)
  <2>1. received' = received
    BY <1>5 DEF PageGaveUp
  <2>2. HeardInv' /\ Once'
    BY <1>1, <1>3, <2>1 DEF AppInv, HeardInv, Once, Answers, ResourceIds
  <2> QED
    BY <1>2, <1>4, <2>2 DEF AppInv
<1>6. CASE PageTakes(answer)
  <2> DEFINE taken == {<<answer.id, n>> : n \in answer.numbers}
  <2>1. received' = [received EXCEPT ![answer.window] = received[answer.window] \cup taken]
    BY <1>6 DEF PageTakes
  <2>2. answer.window \in Windows /\ answer.id \in ResourceIds /\ answer.numbers \subseteq 1 .. MaxMessages
    BY <1>1 DEF Answers
  <2>3. taken \subseteq ResourceIds \X (1 .. MaxMessages)
    BY <2>2
  <2>4. \A m \in taken : m[1] = answer.id /\ m[2] \in answer.numbers
    OBVIOUS
  <2> HIDE DEF taken
  <2>5. \A w \in Windows : received'[w] = IF w = answer.window THEN received[w] \cup taken ELSE received[w]
    BY <1>1, <2>1, <2>2
  <2>6. received' \in [Windows -> SUBSET (ResourceIds \X (1 .. MaxMessages))]
    BY <1>1, <2>1, <2>2, <2>3
  <2>7. HeardInv'
    <3>1. \A a \in answers' :
            /\ a.id \in DOMAIN delivered' /\ openedBy'[a.id] = a.window
            /\ \A n \in a.numbers : n <= Len(delivered'[a.id])
      BY <1>1, <1>3 DEF AppInv, HeardInv
    <3>2. ASSUME NEW w \in Windows, NEW m \in received'[w]
          PROVE  m[1] \in DOMAIN delivered' /\ openedBy'[m[1]] = w /\ m[2] <= Len(delivered'[m[1]])
      <4>1. CASE m \in received[w]
        BY <1>3, <4>1 DEF AppInv, HeardInv
      <4>2. CASE m \in taken /\ w = answer.window
        BY <1>3, <2>4, <4>2 DEF AppInv, HeardInv
      <4> QED
        BY <2>5, <4>1, <4>2
    <3>3. answers' \subseteq Answers
      BY <1>1 DEF AppInv, HeardInv
    <3> QED
      BY <2>6, <3>1, <3>2, <3>3 DEF HeardInv, Answers, ResourceIds
  <2>8. Once'
    <3> SUFFICES ASSUME NEW a \in answers', NEW n \in 1 .. MaxMessages, n \in a.numbers
                 PROVE  /\ <<a.id, n>> \notin received'[a.window]
                        /\ \A b \in answers' : n \in b.numbers /\ b.id = a.id => b = a
      BY DEF Once
    <3>1. /\ a \in answers /\ a # answer /\ <<a.id, n>> \notin received[a.window]
          /\ \A b \in answers : n \in b.numbers /\ b.id = a.id => b = a
      BY <1>1 DEF AppInv, Once
    <3>2. <<a.id, n>> \in taken => FALSE
      <4>1. <<a.id, n>> \in taken => a.id = answer.id /\ n \in answer.numbers
        BY DEF taken
      <4> QED
        BY <3>1, <4>1
    <3>3. a.window \in Windows
      BY <3>1 DEF AppInv, HeardInv, Answers
    <3> QED
      BY <1>1, <2>5, <3>1, <3>2, <3>3
  <2> QED
    BY <1>2, <1>4, <2>7, <2>8 DEF AppInv
<1> QED
  BY <1>5, <1>6

-----------------------------------------------------------------------------
(* Every step of the application, its pages and its handlers.              *)
LEMMA CloseResourceKeeps ==
  ASSUME AppInv, NEW id, CloseResource(id), UNCHANGED <<handling, pageVars, openedBy>>
  PROVE  AppInv'
<1>1. CASE ChannelClose(id) /\ UNCHANGED plainVars
  <2>1. PlainInv'
    BY <1>1, PlainStaysInv DEF AppInv
  <2> QED
    BY <1>1, <2>1, CloseKeeps
<1>2. CASE Plain!ResourceClose(id) /\ UNCHANGED channelVars
  <2>1. PlainInv'
    BY <1>2, PlainCloseKeepsInv DEF AppInv, Plain!ResourceClose
  <2> QED
    BY <1>2, <2>1, OtherKeeps
<1> QED
  BY <1>1, <1>2 DEF CloseResource

LEMMA ControlKeeps ==
  ASSUME AppInv, NEW w \in Windows, Control(w)
  PROVE  AppInv'
<1>1. ASSUME NEW id, ControlDrain(w, id) PROVE AppInv'
  BY <1>1, DrainKeeps
<1>2. ASSUME NEW id, ControlCancel(w, id) PROVE AppInv'
  <2>1. "cancel" \in DataKinds \cup TerminalKinds
    BY DEF TerminalKinds
  <2> QED
    BY <1>2, <2>1, WriteKeeps DEF ControlCancel
<1>3. ASSUME NEW id, ControlClose(w, id) PROVE AppInv'
  BY <1>3, CloseResourceKeeps DEF ControlClose, CloseResourceHandle
<1> QED
  BY <1>1, <1>2, <1>3 DEF Control

LEMMA NextKeepsAppInv == AppInv /\ [AppNext]_appVars => AppInv'
<1> SUFFICES ASSUME AppInv, [AppNext]_appVars PROVE AppInv'
  OBVIOUS
<1>1. ASSUME NEW w \in Windows, NEW owner \in Owners, StreamCommand(w, owner) PROVE AppInv'
  BY <1>1, StreamCommandKeeps
<1>2. ASSUME NEW id, NEW kind \in DataKinds \cup TerminalKinds, SinkWrite(id, kind) PROVE AppInv'
  BY <1>2, WriteKeeps DEF SinkWrite
<1>3. ASSUME NEW id, HandlerOk(id) PROVE AppInv'
  <2>1. PlainInv'
    BY <1>3, PlainStaysInv DEF HandlerOk, AppInv
  <2> QED
    BY <1>3, <2>1, OtherKeeps DEF HandlerOk
<1>4. ASSUME NEW id, HandlerErr(id) PROVE AppInv'
  <2>1. PlainInv' /\ "error" \in DataKinds \cup TerminalKinds
    BY <1>4, PlainStaysInv, ChannelAssumption DEF HandlerErr, AppInv
  <2> QED
    BY <1>4, <2>1, WriteKeeps, OtherKeeps DEF HandlerErr
<1>5. ASSUME NEW w \in Windows, Control(w) PROVE AppInv'
  BY <1>5, ControlKeeps
<1>6. ASSUME NEW descriptor \in Plain!Descriptors, AppOpenResource(descriptor) PROVE AppInv'
  <2>1. PlainInv'
    BY <1>6, PlainOpenKeepsInv DEF AppOpenResource, AppInv
  <2> QED
    BY <1>6, <2>1, OtherKeeps DEF AppOpenResource
<1>7. CASE AppCloseAll
  <2>1. PlainInv'
    BY <1>7, PlainCloseKeepsInv DEF AppCloseAll, Plain!ResourceCloseAll, AppInv
  <2> QED
    BY <1>7, <2>1, CloseKeeps DEF AppCloseAll
<1>8. ASSUME NEW answer \in answers, PageTakes(answer) \/ PageGaveUp(answer) PROVE AppInv'
  BY <1>8, AnswerKeeps
<1>9. CASE UNCHANGED appVars
  <2>1. PlainInv'
    BY <1>9, PlainStaysInv DEF appVars, AppInv
  <2> QED
    BY <1>9, <2>1, OtherKeeps DEF appVars
<1> QED
  BY <1>1, <1>2, <1>3, <1>4, <1>5, <1>6, <1>7, <1>8, <1>9 DEF AppNext

LEMMA AppInvariant == AppSpec => []AppInv
<1> QED
  BY InitAppInv, NextKeepsAppInv, PTL DEF AppSpec

-----------------------------------------------------------------------------
(* Tables, handlers, answers and histories keep their types.               *)
THEOREM AppTypesTheorem == AppSpec => []AppTypeOK
<1>1. ASSUME AppInv PROVE AppTypeOK
  <2>1. handling \subseteq ResourceIds /\ Cardinality(handling) <= 1
    <3>1. CASE handling = {}
      BY <3>1, FS_EmptySet
    <3>2. CASE \E id \in ResourceIds : handling = {id}
      BY <3>2, FS_Singleton
    <3> QED
      BY <1>1, <3>1, <3>2 DEF AppInv, HandlingInv
  <2> QED
    BY <1>1, <2>1 DEF AppInv, AppTypeOK, ChannelInv, PlainInv, HeardInv, OwnerInv
<1> QED
  BY <1>1, AppInvariant, PTL

(* A channel is heard by the window whose command opened it, and by no     *)
(* other, whatever ids pages name.                                         *)
THEOREM IsolationTheorem == AppSpec => []MessagesStayWithTheirWindow
<1>1. AppInv => MessagesStayWithTheirWindow
  BY DEF AppInv, OwnerInv, HeardInv, MessagesStayWithTheirWindow
<1> QED
  BY <1>1, AppInvariant, PTL

(* No message reaches a page twice, and none that was taken or is on its   *)
(* way waits to be handed out again.                                       *)
THEOREM NoMessageTwiceTheorem == AppSpec => []NoMessageTwice
<1>1. ASSUME AppInv PROVE NoMessageTwice
  <2> SUFFICES ASSUME NEW answer \in answers, NEW n \in 1 .. MaxMessages, n \in answer.numbers,
                      answer.id \in DOMAIN channels, NEW i \in DOMAIN channels[answer.id].messages
               PROVE  channels[answer.id].messages[i].sequence # n
    BY <1>1 DEF NoMessageTwice, AppInv, Once
  <2>1. n <= Len(delivered[answer.id])
    BY <1>1 DEF AppInv, HeardInv
  <2>2. /\ channels[answer.id].messages \in Seq(Messages) /\ delivered[answer.id] \in Seq(Messages)
        /\ \A j \in 1 .. Len(channels[answer.id].messages) :
             channels[answer.id].messages[j].sequence = Len(delivered[answer.id]) + j
    BY <1>1, PendingNumbers DEF AppInv
  <2>3. i \in 1 .. Len(channels[answer.id].messages) /\ Len(delivered[answer.id]) \in Nat
    BY <2>2
  <2>4. channels[answer.id].messages[i].sequence = Len(delivered[answer.id]) + i
    BY <2>2, <2>3
  <2> QED
    BY <2>1, <2>3, <2>4
<1> QED
  BY <1>1, AppInvariant, PTL

(* What one window's page asks for leaves what others own as it is.        *)
THEOREM OwnWindowTheorem == AppSpec => CommandsStayInTheirWindow
<1>1. ASSUME AppInv, NEW w \in Windows, NEW id, AuthorizeResource(w, id),
             \/ ControlDrain(w, id) \/ ControlCancel(w, id) \/ ControlClose(w, id)
      PROVE  /\ \A x \in DOMAIN channels :
                  entries[x].window # w => x \in DOMAIN channels' /\ channels'[x] = channels[x]
             /\ \A x \in DOMAIN plainEntries :
                  plainEntries[x].window # w =>
                    x \in DOMAIN plainEntries' /\ plainEntries'[x] = plainEntries[x]
  <2>1. ChannelInv /\ DOMAIN plainEntries \cap DOMAIN channels = {}
    BY <1>1, TablesApart DEF AppInv
  <2>2. /\ id \in DOMAIN channels => entries[id].window = w
        /\ id \in DOMAIN plainEntries => plainEntries[id].window = w
    BY <1>1, <2>1 DEF AuthorizeResource, ResourceOf
  <2>3. CASE ControlDrain(w, id)
    <3>1. UNCHANGED plainEntries /\ id \in DOMAIN channels /\ DOMAIN channels' = DOMAIN channels
          /\ \A x \in DOMAIN channels \ {id} : channels'[x] = channels[x]
      BY <2>3 DEF ControlDrain, Drain, plainVars
    <3> QED
      BY <2>2, <3>1
  <2>4. CASE ControlCancel(w, id)
    <3>1. UNCHANGED plainEntries /\ EmitTerminal(id, "cancel")
      BY <2>4 DEF ControlCancel, plainVars
    <3>2. id \in DOMAIN channels /\ DOMAIN channels' = DOMAIN channels
          /\ \A x \in DOMAIN channels \ {id} : channels'[x] = channels[x]
      BY <2>1, <3>1, WriteEffect
    <3> QED
      BY <2>2, <3>1, <3>2
  <2>5. CASE ControlClose(w, id)
    <3>1. CloseResource(id)
      BY <2>5 DEF ControlClose, CloseResourceHandle
    <3>2. CASE id \in DOMAIN channels /\ ChannelClose(id) /\ UNCHANGED plainVars
      <4>1. UNCHANGED plainEntries /\ channels' = [x \in DOMAIN channels \ {id} |-> channels[x]]
        BY <3>2 DEF ChannelClose, plainVars
      <4> QED
        BY <2>2, <3>2, <4>1
    <3>3. CASE Plain!ResourceClose(id) /\ UNCHANGED channelVars
      <4>1. /\ channels' = channels /\ id \in DOMAIN plainEntries
            /\ plainEntries' = [x \in DOMAIN plainEntries \ {id} |-> plainEntries[x]]
        BY <3>3 DEF Plain!ResourceClose, Plain!ResourceCloseEntries, channelVars
      <4> QED
        BY <2>2, <4>1
    <3> QED
      BY <3>1, <3>2, <3>3 DEF CloseResource
  <2> QED
    BY <1>1, <2>3, <2>4, <2>5
<1>2. ASSUME AppInv, NEW w \in Windows, Control(w)
      PROVE  /\ \A x \in DOMAIN channels :
                  entries[x].window # w => x \in DOMAIN channels' /\ channels'[x] = channels[x]
             /\ \A x \in DOMAIN plainEntries :
                  plainEntries[x].window # w =>
                    x \in DOMAIN plainEntries' /\ plainEntries'[x] = plainEntries[x]
  <2>1. PICK id \in AllIds : ControlDrain(w, id) \/ ControlCancel(w, id) \/ ControlClose(w, id)
    BY <1>2 DEF Control
  <2>2. AuthorizeResource(w, id)
    BY <2>1 DEF ControlDrain, ControlCancel, ControlClose
  <2> QED
    BY <1>1, <1>2, <2>1, <2>2
<1> DEFINE Step == \A w \in Windows : Control(w) =>
       /\ \A id \in DOMAIN channels :
            entries[id].window # w => id \in DOMAIN channels' /\ channels'[id] = channels[id]
       /\ \A id \in DOMAIN plainEntries :
            plainEntries[id].window # w =>
              id \in DOMAIN plainEntries' /\ plainEntries'[id] = plainEntries[id]
<1>3. AppInv => [Step]_appVars
  BY <1>2
<1> QED
  BY <1>3, AppInvariant, PTL DEF CommandsStayInTheirWindow

-----------------------------------------------------------------------------
(* What the manager, its pages and its handlers do to channels is a step of*)
(* the channel table, or leaves it alone; the same for other resources.    *)
LEMMA CloseIsTableStep ==
  ASSUME AppInv, NEW id, CloseResource(id)
  PROVE  [ChannelNext]_channelVars /\ [Plain!ResourceNext]_plainVars
<1>1. DOMAIN channels \subseteq ResourceIds
  BY AllOpened DEF AppInv
<1>2. DOMAIN plainEntries \subseteq Plain!ResourceIds
  <2>1. plainNext \in 1 .. MaxPlainOpens + 1 /\ DOMAIN plainEntries \subseteq {Plain!Id(n) : n \in 1 .. plainNext - 1}
    BY DEF AppInv, PlainInv, Plain!ResourceTypeOK
  <2>2. 1 .. plainNext - 1 \subseteq 1 .. MaxPlainOpens
    BY <2>1, AppAssumption
  <2> QED
    BY <2>1, <2>2 DEF Plain!ResourceIds
<1>3. CASE id \in DOMAIN channels /\ ChannelClose(id) /\ UNCHANGED plainVars
  BY <1>1, <1>3 DEF ChannelNext
<1>4. CASE Plain!ResourceClose(id) /\ UNCHANGED channelVars
  BY <1>2, <1>4 DEF Plain!ResourceNext, Plain!ResourceClose
<1> QED
  BY <1>3, <1>4 DEF CloseResource

LEMMA StepIsTableStep ==
  AppInv /\ [AppNext]_appVars => [ChannelNext]_channelVars /\ [Plain!ResourceNext]_plainVars
<1> DEFINE Steps == [ChannelNext]_channelVars /\ [Plain!ResourceNext]_plainVars
<1> SUFFICES ASSUME AppInv, [AppNext]_appVars PROVE Steps
  OBVIOUS
<1>1. DOMAIN channels \subseteq ResourceIds
  BY AllOpened DEF AppInv
<1>2. ASSUME NEW id, NEW kind, Emit(id, kind) \/ EmitTerminal(id, kind) PROVE ChannelNext
  <2>1. id \in ResourceIds /\ kind \in DataKinds \cup TerminalKinds
    BY <1>1, <1>2 DEF Emit, EmitTerminal, Writable
  <2> QED
    BY <1>2, <2>1 DEF ChannelNext, Emit, EmitTerminal
<1>3. ASSUME NEW w \in Windows, NEW owner \in Owners, StreamCommand(w, owner) PROVE Steps
  BY <1>3 DEF StreamCommand, ChannelNext
<1>4. ASSUME NEW id, NEW kind, SinkWrite(id, kind) PROVE Steps
  BY <1>2, <1>4 DEF SinkWrite
<1>5. ASSUME NEW id, HandlerOk(id) \/ HandlerErr(id) PROVE Steps
  BY <1>2, <1>5 DEF HandlerOk, HandlerErr
<1>6. ASSUME NEW w \in Windows, NEW id, ControlDrain(w, id) PROVE Steps
  <2>1. Drain(id) /\ UNCHANGED plainVars /\ id \in ResourceIds
    BY <1>1, <1>6 DEF ControlDrain, Drain
  <2> QED
    BY <2>1 DEF ChannelNext
<1>7. ASSUME NEW w \in Windows, NEW id, ControlCancel(w, id) PROVE Steps
  BY <1>2, <1>7 DEF ControlCancel
<1>8. ASSUME NEW w \in Windows, NEW id, ControlClose(w, id) PROVE Steps
  BY <1>8, CloseIsTableStep DEF ControlClose, CloseResourceHandle
<1>9. ASSUME NEW descriptor \in Plain!Descriptors, AppOpenResource(descriptor) PROVE Steps
  BY <1>9 DEF AppOpenResource, Plain!ResourceNext
<1>10. CASE AppCloseAll
  BY <1>10 DEF AppCloseAll, ChannelNext, Plain!ResourceNext
<1>11. ASSUME NEW answer, PageTakes(answer) \/ PageGaveUp(answer) PROVE Steps
  BY <1>11 DEF PageTakes, PageGaveUp
<1>12. CASE UNCHANGED appVars
  BY <1>12 DEF appVars
<1> QED
  BY <1>3, <1>4, <1>5, <1>6, <1>7, <1>8, <1>9, <1>10, <1>11, <1>12 DEF AppNext, Control

(* The application manager uses its two tables by their operations alone,  *)
(* whatever pages and handlers have it do, so that a page that keeps the id*)
(* of a channel or resource that was closed reaches no later one with it,  *)
(* and what a page is sent of a channel is the channel's log from its      *)
(* front, in order and once.                                               *)
THEOREM TablesUsedTheorem ==
  AppSpec => ChannelSpec /\ Plain!ResourceSpec
<1>1. AppInit => ChannelInit /\ Plain!ResourceInit
  BY DEF AppInit
<1>2. Plain!resourceVars = plainVars
  BY DEF Plain!resourceVars, plainVars
<1>3. AppInv /\ [AppNext]_appVars => [ChannelNext]_channelVars
  BY StepIsTableStep
<1>4. AppInv /\ [AppNext]_appVars => [Plain!ResourceNext]_Plain!resourceVars
  BY StepIsTableStep DEF Plain!resourceVars, plainVars
<1> QED
  BY <1>1, <1>3, <1>4, AppInvariant, PTL DEF AppSpec, ChannelSpec, Plain!ResourceSpec

(* Over the whole application a channel is still one of the logs of        *)
(* StreamLog, with windows, kept sinks, timeouts and closes by id.         *)
THEOREM AppStreamsTheorem == AppSpec => ImplementsStreams
<1> QED
  BY TablesUsedTheorem, StreamsTheorem

(* Ids of either table that pages still hold name nothing else later.      *)
THEOREM OldIdsTheorem == AppSpec => NeverReopened /\ Plain!NeverReopened
<1> DEFINE Gone(n) == Plain!Id(n) \notin DOMAIN plainEntries => Plain!Id(n) \notin DOMAIN plainEntries'
           Step == plainNext' >= plainNext /\ \A n \in 1 .. plainNext - 1 : Gone(n)
<1>1. AppInv /\ [AppNext]_appVars => [Step]_Plain!resourceVars
  <2> SUFFICES ASSUME AppInv, Plain!ResourceNext PROVE Step
    BY StepIsTableStep DEF Plain!resourceVars, plainVars
  <2>1. plainNext \in Nat
    BY AppAssumption DEF AppInv, PlainInv, Plain!ResourceTypeOK
  <2>2. ASSUME NEW descriptor, Plain!ResourceOpen(descriptor) PROVE Step
    <3>1. \A n \in 1 .. plainNext - 1 : Plain!Id(n) # Plain!Id(plainNext)
      BY <2>1 DEF Plain!Id
    <3> QED
      BY <2>1, <2>2, <3>1 DEF Plain!ResourceOpen
  <2>3. ASSUME NEW ids, Plain!ResourceCloseEntries(ids) PROVE Step
    BY <2>1, <2>3 DEF Plain!ResourceCloseEntries
  <2> QED
    BY <2>2, <2>3 DEF Plain!ResourceNext, Plain!ResourceClose, Plain!ResourceCloseHandle,
                      Plain!ResourceCloseKind, Plain!ResourceCloseOwner, Plain!ResourceCloseAll
<1>2. AppSpec => Plain!NeverReopened
  BY <1>1, AppInvariant, PTL DEF AppSpec, Plain!NeverReopened
<1> QED
  BY <1>2, ChannelIdsTheorem, TablesUsedTheorem

=============================================================================
