----------------------------- MODULE JobLedger -----------------------------
(***************************************************************************)
(* What the Worker promises about Jobs, with no Worker in sight.  Every    *)
(* message is owed until it is acknowledged or, when its deliveries are    *)
(* used up, abandoned to the DLQ.  Acknowledging a Job takes a confirmed   *)
(* SUCCESS, and a SUCCESS is confirmed only for a Job whose artifact is in *)
(* the bucket (BR-002, the deletion gate).                                 *)
(***************************************************************************)
EXTENDS Naturals

CONSTANTS Jobs, Malformed, MaxReceives

VARIABLES
  deliveries,   \* how often each message was handed out
  stored,       \* the Jobs with an artifact in the bucket
  confirmed,    \* the Jobs whose SUCCESS the Backend has accepted
  settled       \* settled[j]: "owed", "acknowledged" or "abandoned"

ledger == <<deliveries, stored, confirmed, settled>>

Init ==
  /\ deliveries = [j \in Jobs |-> 0]
  /\ stored = {} /\ confirmed = {}
  /\ settled = [j \in Jobs |-> "owed"]

Settle(j, outcome) ==
  /\ settled[j] = "owed"
  /\ settled' = [settled EXCEPT ![j] = outcome]
  /\ UNCHANGED <<deliveries, stored, confirmed>>

Deliver(j) ==
  /\ settled[j] = "owed" /\ deliveries[j] < MaxReceives
  /\ deliveries' = [deliveries EXCEPT ![j] = @ + 1]
  /\ UNCHANGED <<stored, confirmed, settled>>

(* A Worker that lost its lease may store and confirm what is settled. *)
Store(j) ==
  /\ j \notin Malformed /\ deliveries[j] > 0
  /\ stored' = stored \cup {j}
  /\ UNCHANGED <<deliveries, confirmed, settled>>

Confirm(j) ==
  /\ j \in stored
  /\ confirmed' = confirmed \cup {j}
  /\ UNCHANGED <<deliveries, stored, settled>>

Acknowledge(j) == j \in confirmed /\ Settle(j, "acknowledged")

Abandon(j) == deliveries[j] = MaxReceives /\ Settle(j, "abandoned")

Next == \E j \in Jobs :
  Deliver(j) \/ Store(j) \/ Confirm(j) \/ Acknowledge(j) \/ Abandon(j)

Spec == Init /\ [][Next]_ledger
=============================================================================
