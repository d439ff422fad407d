---------------------------- MODULE IngestContract ----------------------------
(***************************************************************************)
(* What a producer may rely on when it delivers an event to the Ops API,   *)
(* whatever the handlers, workers, database faults and retention do:       *)
(*   - data enters the entity tables only for events some producer sent,   *)
(*     and an event is acknowledged only once its data is there;           *)
(*   - a row is done only if the data is there, and the ledger forgets a   *)
(*     row only once it has been done or failed, so that no event is       *)
(*     forgotten that was never settled;                                   *)
(*   - a verdict is not final: a late attempt may overrule it.             *)
(***************************************************************************)
CONSTANT Events

VARIABLES
    row,        \* event -> "absent", "pending", "done" or "failed"
    received,   \* events some producer delivered
    expired,    \* events the ledger is about to forget
    applied,    \* events whose data is in the entity tables
    acked       \* events some producer was told are stored

vars == <<row, expired, received, applied, acked>>

Verdicts == {"done", "failed"}

Init ==
    /\ row = [e \in Events |-> "absent"]
    /\ expired = {}
    /\ received = {}
    /\ applied = {}
    /\ acked = {}

(* A producer delivers e; the ledger owes it an attempt if it had no row. *)
Receive(e) ==
    /\ received' = received \cup {e}
    /\ row' = [row EXCEPT ![e] = IF @ = "absent" THEN "pending" ELSE @]
    /\ UNCHANGED <<expired, applied, acked>>

Apply(e) ==
    /\ e \in received
    /\ applied' = applied \cup {e}
    /\ UNCHANGED <<row, expired, received, acked>>

Acknowledge(e) ==
    /\ e \in applied
    /\ acked' = acked \cup {e}
    /\ UNCHANGED <<row, expired, received, applied>>

(* A request that completes its row acknowledges it in the same step. *)
MayAcknowledge(e, verdict) ==
    \/ UNCHANGED acked
    \/ verdict = "done" /\ acked' = acked \cup {e}

Settle(e) ==
    /\ row[e] = "pending"
    /\ \E v \in Verdicts :
         /\ v = "done" => e \in applied
         /\ row' = [row EXCEPT ![e] = v]
         /\ MayAcknowledge(e, v)
    /\ UNCHANGED <<expired, received, applied>>

(* A late attempt overrules a verdict, or makes the row pending again. *)
Overrule(e) ==
    /\ row[e] \in Verdicts
    /\ \E v \in Verdicts \cup {"pending"} :
         /\ v = "done" => e \in applied
         /\ row' = [row EXCEPT ![e] = v]
         /\ MayAcknowledge(e, v)
    /\ UNCHANGED <<expired, received, applied>>

(* The ledger decides to forget a settled row. *)
Expire(e) ==
    /\ row[e] \in Verdicts
    /\ expired' = expired \cup {e}
    /\ UNCHANGED <<row, received, applied, acked>>

(* It forgets it, although a late attempt may have made it pending again. *)
Forget(S) ==
    /\ S \subseteq expired
    /\ row' = [e \in Events |-> IF e \in S THEN "absent" ELSE row[e]]
    /\ expired' = expired \ S
    /\ UNCHANGED <<received, applied, acked>>

Next ==
    \/ \E e \in Events : Receive(e)
    \/ \E e \in Events : Apply(e)
    \/ \E e \in Events : Acknowledge(e)
    \/ \E e \in Events : Settle(e)
    \/ \E e \in Events : Overrule(e)
    \/ \E e \in Events : Expire(e)
    \/ \E S \in SUBSET Events : Forget(S)

Spec == Init /\ [][Next]_vars

(* Every pending row is settled in the end, or forgotten after it had been  *)
(* settled before.                                                          *)
EventuallySettled == \A e \in Events : row[e] = "pending" ~> row[e] # "pending"
=============================================================================
