----------------------------- MODULE StreamLog -----------------------------
(***************************************************************************)
(* What a table of streams promises to the handlers that write to them and *)
(* to the pages that read them: every stream is an append-only log that    *)
(* its reader consumes from the front, in order, each message once; an     *)
(* end or a cancellation is the last message there will ever be; and a     *)
(* stream that was released is gone for good, the unread tail with it.     *)
(***************************************************************************)
EXTENDS Naturals, Sequences

CONSTANTS
  Ids,         (* the names streams can have                                *)
  DataKinds,   (* kinds of the messages that leave a stream open            *)
  FinalKinds   (* kinds of the messages that finish it                      *)

VARIABLES
  status,  (* of each id: "absent", "live", "finished" or "released"        *)
  log,     (* what was written to it                                        *)
  read     (* how much of the log its reader has taken                      *)

streamVars == <<status, log, read>>

StreamInit ==
  /\ status = [id \in Ids |-> "absent"]
  /\ log = [id \in Ids |-> <<>>]
  /\ read = [id \in Ids |-> 0]

Create(id) ==
  /\ status[id] = "absent"
  /\ status' = [status EXCEPT ![id] = "live"]
  /\ UNCHANGED <<log, read>>

Write(id, kind) ==
  /\ status[id] = "live"
  /\ log' = [log EXCEPT
       ![id] = Append(@, [sequence |-> Len(@) + 1, kind |-> kind])]
  /\ status' = IF kind \in FinalKinds
               THEN [status EXCEPT ![id] = "finished"] ELSE status
  /\ UNCHANGED read

(* The reader gets everything it has not read, finished stream or not.     *)
Read(id) ==
  /\ status[id] \in {"live", "finished"}
  /\ read' = [read EXCEPT ![id] = Len(log[id])]
  /\ UNCHANGED <<status, log>>

(* One stream is released, or all of them at once.                         *)
Release(ids) ==
  /\ \A id \in ids : status[id] \in {"live", "finished"}
  /\ status' = [id \in Ids |-> IF id \in ids THEN "released" ELSE status[id]]
  /\ log' = [id \in Ids |->
       IF id \in ids THEN SubSeq(log[id], 1, read[id]) ELSE log[id]]
  /\ UNCHANGED read

StreamNext ==
  \/ \E id \in Ids : Create(id) \/ Read(id)
  \/ \E id \in Ids, kind \in DataKinds \cup FinalKinds : Write(id, kind)
  \/ \E ids \in SUBSET Ids : Release(ids)

StreamSpec == StreamInit /\ [][StreamNext]_streamVars

=============================================================================
