---------------------------- MODULE ChannelTable ----------------------------
(***************************************************************************)
(* The stream channels of an application (channel.mbt): a resource table   *)
(* of kind "channel" plus, for every entry, a queue of numbered messages   *)
(* and the flags a terminal message leaves.  A channel is listed in four   *)
(* places (entries and order of the resource table, channels and order of  *)
(* the channel table), all updated by hand.                                *)
(*                                                                         *)
(* "delivered" is a history variable: what the drains of each id returned. *)
(***************************************************************************)
EXTENDS ResourceTable

CONSTANTS
  ChannelKind,  (* the one resource kind of this table: "channel"           *)
  DataKinds,    (* kinds of the messages that leave a channel open          *)
  MaxMessages   (* bound on the messages of one channel                     *)

ASSUME ChannelAssumption ==
  /\ ChannelKind \in Kinds
  /\ "error" \in DataKinds
  /\ DataKinds \cap {"end", "cancel"} = {}
  /\ MaxMessages \in Nat

VARIABLES
  channels,      (* channels: the live channels by id                       *)
  channelOrder,  (* order of the channel table                              *)
  delivered      (* history: id -> the messages its drains handed out       *)

channelVars == <<resourceVars, channels, channelOrder, delivered>>

TerminalKinds == {"end", "cancel"}

Messages == [sequence: Nat \ {0}, kind: DataKinds \cup TerminalKinds]

Channels ==
  [next: Nat \ {0}, messages: Seq(Messages), closed: BOOLEAN, cancelled: BOOLEAN]

NewChannel == [next |-> 1, messages |-> <<>>, closed |-> FALSE, cancelled |-> FALSE]

ChannelInit ==
  /\ ResourceInit
  /\ channels = [id \in {} |-> NewChannel]
  /\ channelOrder = <<>>
  /\ delivered = [id \in {} |-> <<>>]

-----------------------------------------------------------------------------
ChannelOpen(owner, window) ==
  /\ ResourceOpen([kind |-> ChannelKind, owner |-> owner, window |-> window])
  /\ channels' = [id \in DOMAIN channels \cup {Id(nextSequence)} |->
                    IF id = Id(nextSequence) THEN NewChannel ELSE channels[id]]
  /\ channelOrder' = Append(channelOrder, Id(nextSequence))
  /\ delivered' = [id \in DOMAIN delivered \cup {Id(nextSequence)} |->
                     IF id = Id(nextSequence) THEN <<>> ELSE delivered[id]]

Writable(id) ==
  /\ id \in DOMAIN channels
  /\ ~channels[id].closed
  /\ ~channels[id].cancelled
  /\ channels[id].next <= MaxMessages

NextMessage(id, kind) == [sequence |-> channels[id].next, kind |-> kind]

(* send, fail and emit: an error is a message like any other.              *)
Emit(id, kind) ==
  /\ kind \in DataKinds
  /\ Writable(id)
  /\ channels' = [channels EXCEPT
       ![id].next = @ + 1,
       ![id].messages = Append(@, NextMessage(id, kind))]
  /\ UNCHANGED <<resourceVars, channelOrder, delivered>>

(* Broken: the flag is set on the caller's copy and not stored back.       *)
BrokenEmitTerminal(id, kind) ==
  /\ kind \in TerminalKinds
  /\ Writable(id)
  /\ channels' = [channels EXCEPT
       ![id].next = @ + 1,
       ![id].messages = Append(@, NextMessage(id, kind))]
  /\ UNCHANGED <<resourceVars, channelOrder, delivered>>

(* end, cancel and emit_terminal *)
EmitTerminal(id, kind) ==
  /\ kind \in TerminalKinds
  /\ Writable(id)
  /\ channels' = [channels EXCEPT
       ![id].next = @ + 1,
       ![id].messages = Append(@, NextMessage(id, kind)),
       ![id].closed = (kind = "end"),
       ![id].cancelled = (kind = "cancel")]
  /\ UNCHANGED <<resourceVars, channelOrder, delivered>>

(* Broken: the queue is copied and not cleared.                            *)
BrokenDrain(id) ==
  /\ id \in DOMAIN channels
  /\ delivered' = [delivered EXCEPT ![id] = @ \o channels[id].messages]
  /\ UNCHANGED <<resourceVars, channels, channelOrder>>

(* drain: finished channels can be drained too, and stay in the table.     *)
Drain(id) ==
  /\ id \in DOMAIN channels
  /\ delivered' = [delivered EXCEPT ![id] = @ \o channels[id].messages]
  /\ channels' = [channels EXCEPT ![id].messages = <<>>]
  /\ UNCHANGED <<resourceVars, channelOrder>>

(* Broken: only the resource table forgets the channel.                    *)
BrokenChannelClose(id) ==
  /\ ResourceClose(id)
  /\ UNCHANGED <<channels, channelOrder, delivered>>

(* close: the resource table decides whether the id is live.               *)
ChannelClose(id) ==
  /\ ResourceClose(id)
  /\ channels' = [other \in DOMAIN channels \ {id} |-> channels[other]]
  /\ Without(channelOrder, {id}, channelOrder')
  /\ UNCHANGED delivered

ChannelCloseAll ==
  /\ channels' = [id \in {} |-> NewChannel]
  /\ channelOrder' = <<>>
  /\ ResourceCloseAll
  /\ UNCHANGED delivered

ChannelNext ==
  \/ \E owner \in Owners, window \in Windows \cup {NoWindow} :
       ChannelOpen(owner, window)
  \/ \E id \in ResourceIds, kind \in DataKinds : Emit(id, kind)
  \/ \E id \in ResourceIds, kind \in TerminalKinds : EmitTerminal(id, kind)
  \/ \E id \in ResourceIds : Drain(id) \/ ChannelClose(id)
  \/ ChannelCloseAll

ChannelSpec == ChannelInit /\ [][ChannelNext]_channelVars

-----------------------------------------------------------------------------
(* The type invariant, with the resource table's.                          *)
ChannelTypeOK ==
  /\ ResourceTypeOK
  /\ channels \in [DOMAIN channels -> Channels]
  /\ delivered \in [DOMAIN delivered -> Seq(Messages)]
  /\ DOMAIN delivered = {Id(n) : n \in 1 .. nextSequence - 1}

(* The four structures that list the channels list the same ones: a close  *)
(* that one of them missed would leave a channel that cannot be closed     *)
(* (the resource table decides) or a resource that cannot be drained.      *)
TablesAgree ==
  /\ DOMAIN channels = DOMAIN entries
  /\ channelOrder = order

(* All that was ever written to a live channel: delivered, then pending.   *)
Written(id) == delivered[id] \o channels[id].messages

(* Whatever the interleaving of writers and drains, the messages of a      *)
(* channel are numbered 1, 2, 3... without a gap or a repeat, none follows *)
(* an end or a cancellation, and the flags say which of the two, if any,   *)
(* was written.                                                            *)
StreamIntact ==
  \A id \in DOMAIN channels :
    /\ Len(Written(id)) = channels[id].next - 1
    /\ \A i \in 1 .. Len(Written(id)) :
         /\ Written(id)[i].sequence = i
         /\ Written(id)[i].kind = "end" <=>
              channels[id].closed /\ i = Len(Written(id))
         /\ Written(id)[i].kind = "cancel" <=>
              channels[id].cancelled /\ i = Len(Written(id))

-----------------------------------------------------------------------------
(* The table implements the stream logs of StreamLog.                      *)
Opened == DOMAIN delivered

StatusOf(id) ==
  IF id \notin Opened THEN "absent"
  ELSE IF id \notin DOMAIN channels THEN "released"
  ELSE IF channels[id].closed \/ channels[id].cancelled THEN "finished"
  ELSE "live"

LogOf(id) ==
  IF id \notin Opened THEN <<>>
  ELSE IF id \notin DOMAIN channels THEN delivered[id]
  ELSE Written(id)

ReadOf(id) == IF id \in Opened THEN Len(delivered[id]) ELSE 0

Streams == INSTANCE StreamLog WITH
  Ids <- ResourceIds,
  FinalKinds <- TerminalKinds,
  status <- [id \in ResourceIds |-> StatusOf(id)],
  log <- [id \in ResourceIds |-> LogOf(id)],
  read <- [id \in ResourceIds |-> ReadOf(id)]

(* Every behaviour of the table is one of the stream logs: exactly-once    *)
(* in-order delivery per channel until it is closed.                       *)
ImplementsStreams == Streams!StreamSpec

=============================================================================
