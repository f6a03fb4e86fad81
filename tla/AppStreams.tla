----------------------------- MODULE AppStreams -----------------------------
(***************************************************************************)
(* The application manager's resources as pages and handlers use them      *)
(* (app_manager.mbt, runtime_control.mbt, stream.mbt and the stream branch *)
(* of dispatch.mbt): the channel table, a second table for other           *)
(* resources, the windows whose pages drain, cancel and close by id, and   *)
(* the sinks that stream handlers were given and may keep.                 *)
(*                                                                         *)
(* A page is known by the label of its window: a reload, or a window that  *)
(* is closed and opened again, makes a page that uses the same label and   *)
(* whose predecessor's answers are lost.                                   *)
(*                                                                         *)
(* A dispatch runs to its answer before another starts.  A stream command  *)
(* is modelled in several steps, so that its handler can write while it    *)
(* runs; "handling" keeps every other dispatch out in the meantime.  The   *)
(* sink stays usable after the handler returned.                           *)
(***************************************************************************)
EXTENDS ChannelTable

CONSTANTS
  PlainPrefix,    (* id prefix of the other resource table: "resource"      *)
  PlainKinds,     (* kinds of the resources that application code opens     *)
  MaxPlainOpens,  (* bound on the resources opened there                    *)
  MaxAnswers      (* bound on the drain answers on their way to pages       *)

ASSUME AppAssumption ==
  /\ PlainPrefix # IdPrefix
  /\ PlainKinds \subseteq Kinds
  /\ MaxPlainOpens \in Nat
  /\ MaxAnswers \in Nat

VARIABLES
  plainNext, plainEntries, plainOrder,  (* the other resource table         *)
  handling,   (* the channel of the stream handler that is running, or {}   *)
  answers,    (* drain answers on their way: window, id, message numbers    *)
  received,   (* history: window -> the <<id, number>> its pages took       *)
  openedBy    (* history: channel id -> the window whose command opened it  *)

plainVars == <<plainNext, plainEntries, plainOrder>>
pageVars == <<answers, received>>
appVars == <<channelVars, plainVars, handling, pageVars, openedBy>>

Plain == INSTANCE ResourceTable WITH
  IdPrefix <- PlainPrefix, Kinds <- PlainKinds, MaxOpens <- MaxPlainOpens,
  nextSequence <- plainNext, entries <- plainEntries, order <- plainOrder

AllIds == ResourceIds \cup Plain!ResourceIds

Answers ==
  [window: Windows, id: ResourceIds, numbers: SUBSET (1 .. MaxMessages)]

AppInit ==
  /\ ChannelInit
  /\ Plain!ResourceInit
  /\ handling = {}
  /\ answers = {}
  /\ received = [w \in Windows |-> {}]
  /\ openedBy = [id \in {} |-> NoWindow]

-----------------------------------------------------------------------------
(* Stream commands                                                         *)

(* execute_stream_command up to the call of the handler: the metadata of   *)
(* the new channel names the window of the request.                        *)
StreamCommand(w, owner) ==
  /\ handling = {}
  /\ ChannelOpen(owner, w)
  /\ handling' = {Id(nextSequence)}
  /\ openedBy' = [id \in DOMAIN openedBy \cup {Id(nextSequence)} |->
                    IF id = Id(nextSequence) THEN w ELSE openedBy[id]]
  /\ UNCHANGED <<plainVars, pageVars>>

(* The running handler, or what kept the sink of an earlier one, writes.   *)
SinkWrite(id, kind) ==
  /\ id \in DOMAIN openedBy
  /\ handling \subseteq {id}
  /\ Emit(id, kind) \/ EmitTerminal(id, kind)
  /\ UNCHANGED <<plainVars, handling, pageVars, openedBy>>

(* Ok: the answer tells the page the id.                                   *)
HandlerOk(id) ==
  /\ id \in handling
  /\ handling' = {}
  /\ UNCHANGED <<channelVars, plainVars, pageVars, openedBy>>

(* Err: the message is written to the channel if it still takes one, the   *)
(* channel stays open, and the page's answer is an error without its id.   *)
HandlerErr(id) ==
  /\ id \in handling
  /\ handling' = {}
  /\ \/ Emit(id, "error")
     \/ ~Writable(id) /\ UNCHANGED channelVars
  /\ UNCHANGED <<plainVars, pageVars, openedBy>>

-----------------------------------------------------------------------------
(* Control commands of the pages; an id need not be one the page was told. *)

(* resource: the table of other resources is asked first.                  *)
ResourceOf(id) ==
  IF id \in DOMAIN plainEntries THEN {plainEntries[id]}
  ELSE IF id \in DOMAIN channels THEN {entries[id]} ELSE {}

(* Broken: a resource whose metadata names no window is everybody's.       *)
BrokenAuthorizeResource(w, id) ==
  \A resource \in ResourceOf(id) : resource.window \in {w, NoWindow}

(* Broken: the owner is looked up only for resources that are not channels *)
BrokenAuthorizeChannel(w, id) ==
  id \in DOMAIN plainEntries => plainEntries[id].window = w

(* runtime_control_authorize_resource: an unknown id passes and fails in   *)
(* the operation itself.                                                   *)
AuthorizeResource(w, id) ==
  \A resource \in ResourceOf(id) : resource.window = w

(* stream.drain: the answer leaves with everything that was pending.       *)
ControlDrain(w, id) ==
  /\ handling = {}
  /\ AuthorizeResource(w, id)
  /\ Drain(id)
  /\ Cardinality(answers) < MaxAnswers
  /\ answers' = answers \cup
       {[window |-> w, id |-> id,
         numbers |-> {channels[id].messages[i].sequence :
                        i \in DOMAIN channels[id].messages}]}
  /\ UNCHANGED <<plainVars, handling, received, openedBy>>

(* stream.cancel *)
ControlCancel(w, id) ==
  /\ handling = {}
  /\ AuthorizeResource(w, id)
  /\ EmitTerminal(id, "cancel")
  /\ UNCHANGED <<plainVars, handling, pageVars, openedBy>>

(* close_resource: an id is a channel's or the other table's.              *)
CloseResource(id) ==
  \/ id \in DOMAIN channels /\ ChannelClose(id) /\ UNCHANGED plainVars
  \/ id \notin DOMAIN channels /\ Plain!ResourceClose(id) /\ UNCHANGED channelVars

(* close_resource_handle *)
CloseResourceHandle(id, kind) ==
  /\ kind # EmptyKind
  /\ \E resource \in ResourceOf(id) : resource.kind = kind
  /\ CloseResource(id)

(* resource.close, with or without the kind the page believes it has.      *)
ControlClose(w, id) ==
  /\ handling = {}
  /\ AuthorizeResource(w, id)
  /\ \/ CloseResource(id)
     \/ \E kind \in Kinds \cup {EmptyKind} : CloseResourceHandle(id, kind)
  /\ UNCHANGED <<handling, pageVars, openedBy>>

(* What the page of one window can have the manager do to resources.       *)
Control(w) ==
  \E id \in AllIds : ControlDrain(w, id) \/ ControlCancel(w, id) \/ ControlClose(w, id)

-----------------------------------------------------------------------------
(* The rest of the application, and the pages                              *)

(* open_resource, by application code: its metadata may name a window.     *)
AppOpenResource(descriptor) ==
  /\ handling = {}
  /\ Plain!ResourceOpen(descriptor)
  /\ UNCHANGED <<channelVars, handling, pageVars, openedBy>>

(* close_all_resources *)
AppCloseAll ==
  /\ handling = {}
  /\ Plain!ResourceCloseAll
  /\ ChannelCloseAll
  /\ UNCHANGED <<handling, pageVars, openedBy>>

(* An answer reaches the page that asked, or comes after it gave up.       *)
PageTakes(answer) ==
  /\ answer \in answers
  /\ answers' = answers \ {answer}
  /\ received' = [received EXCEPT
       ![answer.window] = @ \cup {<<answer.id, n>> : n \in answer.numbers}]
  /\ UNCHANGED <<channelVars, plainVars, handling, openedBy>>

PageGaveUp(answer) ==
  /\ answer \in answers
  /\ answers' = answers \ {answer}
  /\ UNCHANGED <<channelVars, plainVars, handling, received, openedBy>>

AppNext ==
  \/ \E w \in Windows, owner \in Owners : StreamCommand(w, owner)
  \/ \E id \in ResourceIds, kind \in DataKinds \cup TerminalKinds :
       SinkWrite(id, kind)
  \/ \E id \in ResourceIds : HandlerOk(id) \/ HandlerErr(id)
  \/ \E w \in Windows : Control(w)
  \/ \E descriptor \in Plain!Descriptors : AppOpenResource(descriptor)
  \/ AppCloseAll
  \/ \E answer \in answers : PageTakes(answer) \/ PageGaveUp(answer)

AppSpec == AppInit /\ [][AppNext]_appVars

-----------------------------------------------------------------------------
(* The type invariant; the two tables keep theirs.                         *)
AppTypeOK ==
  /\ ChannelTypeOK
  /\ Plain!ResourceTypeOK
  /\ handling \subseteq ResourceIds /\ Cardinality(handling) <= 1
  /\ answers \subseteq Answers
  /\ received \in [Windows -> SUBSET (ResourceIds \X (1 .. MaxMessages))]
  /\ openedBy \in [DOMAIN delivered -> Windows]

(* Pages hold ids for as long as they like while channels come and go and  *)
(* sinks write: a channel stays with the window whose command opened it,   *)
(* and no message of it is ever on its way to, or taken by, another one.   *)
MessagesStayWithTheirWindow ==
  /\ \A id \in DOMAIN channels : entries[id].window = openedBy[id]
  /\ \A w \in Windows : \A message \in received[w] : openedBy[message[1]] = w
  /\ \A answer \in answers : openedBy[answer.id] = answer.window

(* A message is handed out once: never again once a page took it, and      *)
(* never in two answers, however drains and losses of answers interleave.  *)
NoMessageTwice ==
  \A answer \in answers, n \in 1 .. MaxMessages :
    n \in answer.numbers =>
      /\ <<answer.id, n>> \notin received[answer.window]
      /\ \A other \in answers :
           n \in other.numbers /\ other.id = answer.id => other = answer
      /\ answer.id \in DOMAIN channels =>
           \A i \in DOMAIN channels[answer.id].messages :
             channels[answer.id].messages[i].sequence # n

(* A command of one window changes nothing that another window, or no      *)
(* window, owns.                                                           *)
CommandsStayInTheirWindow ==
  [][\A w \in Windows : Control(w) =>
       /\ \A id \in DOMAIN channels :
            entries[id].window # w =>
              id \in DOMAIN channels' /\ channels'[id] = channels[id]
       /\ \A id \in DOMAIN plainEntries :
            plainEntries[id].window # w =>
              id \in DOMAIN plainEntries' /\ plainEntries'[id] = plainEntries[id]
    ]_appVars

=============================================================================
