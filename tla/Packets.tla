------------------------------- MODULE Packets -------------------------------
(***************************************************************************)
(* Packets of bytes between the host and the native loop: handoff packets  *)
(* (runtime/bridge_transport.mbt, runtime/native_operations.mbt), whose    *)
(* script and operation records the backends read, and asset packets       *)
(* (runtime/asset_packet.mbt), which become what a page loads.  On Windows *)
(* the page's URLs are rewritten, for WebView2 has no schemes of one's own.*)
(***************************************************************************)
EXTENDS Texts

VARIABLES
  sent,      (* what the host, or a page, has put into a packet or a URL    *)
  arrived    (* what the other side has read                                *)

packetVars == <<sent, arrived>>

Nil == [kind |-> "nothing"]

PacketInit == sent = Nil /\ arrived = Nil

(* The call is over: nothing of it is kept.                                *)
Forget == sent # Nil /\ sent' = Nil /\ arrived' = Nil /\ UNCHANGED platform

-----------------------------------------------------------------------------
BrokenField(value) == Decimal[Len(value)] \o <<NL>> \o Utf8(value)

(* The host.  A field is its length in bytes, a line break, its bytes.     *)
Field(value) == Decimal[Len(Utf8(value))] \o <<NL>> \o Utf8(value)

(* A number or a truth value that a record does not have is a field of     *)
(* nothing.                                                                *)
IntField(values) ==
  IF values = {} THEN <<>>
  ELSE LET n == CHOOSE v \in values : TRUE
       IN IF n < 0 THEN <<"-">> \o Decimal[0 - n] ELSE Decimal[n]

BoolField(values) == IF values = {} THEN <<>> ELSE IF TRUE \in values THEN <<"true">> ELSE <<"false">>

(* native_packet_record, with 5 of its 14 fields.                          *)
OperationRecord(op) ==
  Field(<<op.kind>>) \o Field(op.window) \o Field(op.title)
  \o Field(IntField(op.width)) \o Field(BoolField(op.resizable))

Fields == 5

HandoffPacket(status, label, script, records) ==
  <<status, NL>> \o Utf8(label) \o <<NL>> \o Field(script)
  \o <<NL, "lepusa-ops-v3", NL>> \o Decimal[Len(records)] \o <<NL>>
  \o Mapped(records, OperationRecord)

-----------------------------------------------------------------------------
(* The loop.  immediate_script_from_handoff_packet reads a C string on     *)
(* Linux, a range of bytes on the others.                                  *)
ScriptOf(packet) ==
  LET length == Number(Line(Rest(Rest(packet))))
      body == Rest(Rest(Rest(packet)))
      text == IF platform = "linux" THEN CString(body) ELSE body
  IN IF Line(packet) # <<"immediate">> \/ length > Len(text) THEN Broken[1]
     ELSE SubSeq(text, 1, length)

(* handoff_operations_range: the operations of a deferred packet are read  *)
(* on Windows alone.                                                       *)
Accepted == IF platform = "windows" THEN {"immediate", "deferred"} ELSE {"immediate"}

OperationsRange(packet) ==
  LET body == Rest(Rest(Rest(packet)))
      from == Number(Line(Rest(Rest(packet)))) + 1
      skip == IF from \in DOMAIN body /\ body[from] = NL THEN 1 ELSE 0
  IN IF Line(packet) \notin {<<status>> : status \in Accepted} THEN <<>>
     ELSE SubSeq(body, from + skip, Len(body))

(* read_packet_field: a length, and as many bytes.                         *)
ReadField(s) ==
  LET n == Number(Line(s.rest))
      value == SubSeq(Rest(s.rest), 1, n)
  IN IF s.fields = Broken \/ LineEnd(s.rest) = 0 \/ n < 0 \/ n > Len(Rest(s.rest))
     THEN [s EXCEPT !.fields = Broken]
     ELSE [fields |-> Append(s.fields, value), rest |-> SubSeq(Rest(s.rest), n + 1, Len(Rest(s.rest)))]

(* The records of a packet, as far as they can be read.                    *)
OperationRecords(packet) ==
  LET range == OperationsRange(packet)
      count == Number(Line(Rest(range)))
      read == FoldLeft(LAMBDA s, i : ReadField(s),
                       [fields |-> <<>>, rest |-> Rest(Rest(range))],
                       [i \in 1 .. count * Fields |-> i])
  IN IF Line(range) # <<"lepusa-ops-v3">> \/ read.fields = Broken THEN <<>>
     ELSE [r \in 1 .. count |-> SubSeq(read.fields, Fields * (r - 1) + 1, Fields * r)]

(* parse_record_int and parse_record_bool.                                 *)
Operation(fields) ==
  [kind |-> fields[1][1], window |-> fields[2], title |-> fields[3], width |-> SignedNumber(fields[4]),
   resizable |-> CASE fields[5] = <<"true">> -> {TRUE}
                   [] fields[5] = <<"false">> -> {FALSE}
                   [] OTHER -> {}]

(* A packet and what the loop takes from it.                               *)
Handoff(status, label, script, operations) ==
  LET packet == HandoffPacket(status, label, script, operations)
      records == OperationRecords(packet)
  IN /\ sent = Nil
     /\ sent' = [kind |-> "handoff", status |-> status, script |-> script,
                 operations |-> operations]
     /\ arrived' = [kind |-> "handoff", script |-> ScriptOf(packet),
                    operations |-> [r \in DOMAIN records |-> Operation(records[r])]]
     /\ UNCHANGED platform

-----------------------------------------------------------------------------
(* Assets.  to_native_protocol_packet and its errors.                      *)
AssetPacket(kind, body) ==
  IF kind = "error" THEN <<"error", NL>> \o Utf8(body)
  ELSE <<"ok", NL, kind, NL, "mime", NL>> \o Utf8(body)

(* What a page is shown: contents, those of the file of a path, or a       *)
(* message; WebView2 is given a status besides.  Linux and Windows take    *)
(* the packet for a C string, macOS for a range of bytes.                  *)
Shown(what, text, status) ==
  [kind |-> "asset", what |-> what, text |-> text,
   status |-> IF platform = "windows" THEN status ELSE 0]

FinishRequest(packet, readable) ==
  LET text == IF platform = "macos" THEN packet ELSE CString(packet)
      kind == Line(Rest(text))
      body == Rest(Rest(Rest(text)))
  IN CASE Line(text) # <<"ok">> -> Shown("message", Rest(text), 404)
       [] Line(text) = <<"ok">> /\ kind = <<"virtual">> -> Shown("contents", body, 200)
       [] Line(text) = <<"ok">> /\ kind = <<"file">> /\ readable -> Shown("file", body, 200)
       [] Line(text) = <<"ok">> /\ kind = <<"file">> /\ ~readable ->
            Shown("message", <<"unreadable">>, 404)
       [] OTHER -> Shown("message", <<"unsupported">>, 500)

Asset(kind, body, readable) ==
  /\ sent = Nil
  /\ sent' = [kind |-> "asset", of |-> kind, body |-> body, readable |-> readable]
  /\ arrived' = FinishRequest(AssetPacket(kind, body), readable)
  /\ UNCHANGED platform

-----------------------------------------------------------------------------
(* URLs.  A URL is its scheme and host, and what comes after them.         *)
Url(scheme, place) == <<scheme, ":", "/", "/">> \o place

(* webview_url_from_asset_url: lepusa://x is https://lepusa.localhost/x,   *)
(* with one slash even when there are two.                                 *)
WebviewUrl(url, protocol) ==
  LET scheme == <<protocol, ":", "/", "/">>
      rest == SubSeq(url, 5, Len(url))
      slash == IF rest # <<>> /\ rest[1] = "/" THEN <<>> ELSE <<"/">>
  IN IF ~IsPrefix(scheme, url) THEN url
     ELSE <<"https", ":", "/", "/", protocol, ".localhost">> \o slash \o rest

(* resolver_url_from_webview_url, and back.                                *)
ResolverUrl(url, protocol) ==
  LET host(scheme) == <<scheme, ":", "/", "/", protocol, ".localhost">>
      path == SubSeq(url, 7, Len(url))
      ours == \E scheme \in {"https", "http"} : IsPrefix(host(scheme), url)
  IN IF ours /\ (path = <<>> \/ path[1] = "/")
     THEN <<protocol, ":", "/", "/">> \o (IF path = <<>> THEN path ELSE Tail(path))
     ELSE url

(* A page loads a URL, and the resolver is asked for it, or it is none of  *)
(* the resolver's: asset_filter_from_protocol on Windows, the scheme's     *)
(* handler on the others.                                                  *)
Load(scheme, place) ==
  LET url == Url(scheme, place)
      loaded == IF platform = "windows" THEN WebviewUrl(url, "lepusa") ELSE url
      asked == IF platform = "windows"
               THEN IsPrefix(<<"https", ":", "/", "/", "lepusa", ".localhost", "/">>, loaded)
               ELSE loaded[1] = "lepusa"
  IN /\ sent = Nil
     /\ sent' = [kind |-> "url", scheme |-> scheme, place |-> place]
     /\ arrived' = [kind |-> "url", asked |-> asked,
                    url |-> IF asked /\ platform = "windows" THEN ResolverUrl(loaded, "lepusa") ELSE loaded]
     /\ UNCHANGED platform

=============================================================================
