--------------------------- MODULE DeliveryPhases ---------------------------
(***************************************************************************)
(* process_job (src/worker/orchestrator.py) with nothing left but its      *)
(* phases: what any Worker goes through with any delivery, whatever the    *)
(* services and the disk do.  Orchestrator and Workspace, which have two   *)
(* different halves of process_job in detail, both implement it.           *)
(***************************************************************************)

CONSTANT Workers

VARIABLE phase   \* phase[w]: what w does with the delivery it has in hand

(* Where a phase that goes well leads.  "dead" is no process; "idle" is a    *)
(* process without an open verdict; "preparing" is before the first report; *)
(* a phase begins with its report; "finalizing" is the upload and the       *)
(* report of SUCCESS; "failing" is the report of FAILED.                    *)
NextOf ==
  [dead            |-> "idle",
   idle            |-> "preparing",
   preparing       |-> "ANALYZING",
   ANALYZING       |-> "GENERATING_CODE",
   GENERATING_CODE |-> "BUILDING",
   BUILDING        |-> "finalizing",
   finalizing      |-> "idle",
   failing         |-> "idle"]

Init == phase = [w \in Workers |-> "dead"]

Enter(w, p) == phase' = [phase EXCEPT ![w] = p]

Proceed(w) == Enter(w, NextOf[phase[w]])

(* Any phase may fail, but neither before a delivery nor after its verdict. *)
Fail(w) == phase[w] \notin {"dead", "idle", "failing"} /\ Enter(w, "failing")

(* The only way out of a delivery without a verdict; a Worker that is alive  *)
(* becomes idle through "finalizing" or "failing" and no other way.         *)
Die(w) == phase[w] # "dead" /\ Enter(w, "dead")

Next == \E w \in Workers : Proceed(w) \/ Fail(w) \/ Die(w)

Spec == Init /\ [][Next]_phase
=============================================================================
