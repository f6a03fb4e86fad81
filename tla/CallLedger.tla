----------------------------- MODULE CallLedger -----------------------------
(***************************************************************************)
(* What a queue of deferred calls promises to the pages that make them: a  *)
(* call is accepted or refused, once; an accepted call waits in the order  *)
(* of acceptance until whoever does the work takes all that waits, or      *)
(* until a newer call takes the place of the oldest one; and a call that   *)
(* was taken can only be answered.                                         *)
(***************************************************************************)
EXTENDS Naturals, Sequences

CONSTANT Calls

VARIABLES
  fate,     (* of each call: "new", "refused", "waiting", "dropped",        *)
            (* "taken" or "answered"                                        *)
  waiting   (* the calls that wait, oldest first                            *)

ledgerVars == <<fate, waiting>>

LedgerInit ==
  /\ fate = [c \in Calls |-> "new"]
  /\ waiting = <<>>

Decide(calls, what) == fate' = [c \in Calls |-> IF c \in calls THEN what ELSE fate[c]]

Waits == {waiting[i] : i \in DOMAIN waiting}

AcceptCall(c) ==
  /\ fate[c] = "new"
  /\ Decide({c}, "waiting")
  /\ waiting' = Append(waiting, c)

RefuseCall(c) ==
  /\ fate[c] = "new"
  /\ Decide({c}, "refused")
  /\ UNCHANGED waiting

(* The oldest call that waits makes room, and no other one.                *)
ReplaceOldest(c) ==
  /\ fate[c] = "new" /\ waiting # <<>>
  /\ fate' = [fate EXCEPT ![c] = "waiting", ![Head(waiting)] = "dropped"]
  /\ waiting' = Append(Tail(waiting), c)

(* All that waits is taken, or taken and answered in one go.               *)
TakeAll(what) ==
  /\ what \in {"taken", "answered"}
  /\ Decide(Waits, what)
  /\ waiting' = <<>>

AnswerCalls(calls) ==
  /\ \A c \in calls : fate[c] = "taken"
  /\ Decide(calls, "answered")
  /\ UNCHANGED waiting

LedgerNext ==
  \/ \E c \in Calls : AcceptCall(c) \/ RefuseCall(c) \/ ReplaceOldest(c)
  \/ \E what \in {"taken", "answered"} : TakeAll(what)
  \/ \E calls \in SUBSET Calls : AnswerCalls(calls)

LedgerSpec == LedgerInit /\ [][LedgerNext]_ledgerVars

=============================================================================
