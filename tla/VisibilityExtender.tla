------------------------- MODULE VisibilityExtender -------------------------
(***************************************************************************)
(* One VisibilityExtender (src/worker/visibility_extender.py): the daemon  *)
(* thread that keeps renewing the lease of the message its Worker is       *)
(* processing, the Worker that stops it, and the lease SQS keeps.  Time is *)
(* discrete; it passes in Tick and stands still while something is due.    *)
(***************************************************************************)
EXTENDS Naturals

CONSTANTS
  QueueVT,      \* VisibilityTimeout of the Queue
  FallbackVT,   \* VISIBILITY_TIMEOUT of the Worker's configuration
  MinInterval,  \* MIN_EXTEND_INTERVAL_SECONDS
  JoinTimeout,  \* JOIN_TIMEOUT_SECONDS
  MaxPrepare,   \* bound: time from the receive to extender.start()
  MaxCall,      \* bound: time one ChangeMessageVisibility call takes
  MaxFailures   \* bound: calls that raise

ASSUME TimesAssumption ==
  /\ QueueVT \in Nat \ {0} /\ FallbackVT \in Nat \ {0}
  /\ MinInterval \in Nat \ {0} /\ JoinTimeout \in Nat
  /\ MaxPrepare \in 0..(QueueVT - 1)
  /\ MaxCall \in Nat /\ MaxFailures \in Nat

VARIABLES
  vt,        \* _visibility_timeout, what get_visibility_timeout returned
  lease,     \* time until SQS makes the message visible; 0 once it has
  thread,    \* where the extender thread is
  timer,     \* waiting: time left of the wait; calling: age of the call
  applied,   \* calling: SQS has renewed the lease in this call
  stopped,   \* _stop_event
  main,      \* where the Worker is: in the Job, in stop(), or past it
  join,      \* time left of the join in stop()
  failures,  \* calls that raised so far
  since      \* history: time since stop() was called, up to Horizon

vars == <<vt, lease, thread, timer, applied, stopped, main, join, failures, since>>

Larger(a, b) == IF a >= b THEN a ELSE b

(* EXTEND_INTERVAL_RATIO is one half. *)
Interval(t) == Larger(t \div 2, MinInterval)

Horizon == MaxCall + Larger(QueueVT, FallbackVT) + 1

TypeOK ==
  /\ vt \in {QueueVT, FallbackVT}
  /\ lease \in 0..Larger(QueueVT, FallbackVT)
  /\ thread \in {"waiting", "woken", "calling", "ended"}
  /\ timer \in 0..Larger(Interval(vt), MaxCall)
  /\ applied \in BOOLEAN /\ stopped \in BOOLEAN
  /\ main \in {"working", "joining", "returned"}
  /\ join \in 0..JoinTimeout
  /\ failures \in 0..MaxFailures
  /\ since \in 0..Horizon

(* run() asks SQS for the timeout and falls back on the configured one;     *)
(* start() comes after the receive and prepare_workdir.                     *)
Init ==
  /\ vt \in {QueueVT, FallbackVT}
  /\ lease \in (QueueVT - MaxPrepare)..QueueVT
  /\ thread = "waiting" /\ timer = Interval(vt) /\ applied = FALSE
  /\ stopped = FALSE /\ main = "working" /\ join = 0
  /\ failures = 0 /\ since = 0

-----------------------------------------------------------------------------
(* The thread: _run *)

(* The wait times out: the flag was down when the thread looked. *)
TimeOut ==
  /\ thread = "waiting" /\ timer = 0 /\ ~ stopped
  /\ thread' = "woken"
  /\ UNCHANGED <<vt, lease, timer, applied, stopped, main, join, failures, since>>

(* It may be up by the time the call begins. *)
StartCall ==
  /\ thread = "woken"
  /\ thread' = "calling" /\ timer' = 0 /\ applied' = FALSE
  /\ UNCHANGED <<vt, lease, stopped, main, join, failures, since>>

(* Bug: the loop does not look at what the wait returned. *)
EndLoopIgnored ==
  /\ thread = "waiting" /\ stopped
  /\ thread' = "woken"
  /\ UNCHANGED <<vt, lease, timer, applied, stopped, main, join, failures, since>>

(* The wait returns True: the loop ends. *)
EndLoop ==
  /\ thread = "waiting" /\ stopped
  /\ thread' = "ended"
  /\ UNCHANGED <<vt, lease, timer, applied, stopped, main, join, failures, since>>

(* Bug: the new timeout is taken to be added to what is left. *)
RenewAdds ==
  /\ thread = "calling" /\ ~ applied /\ lease > 0
  /\ lease' = lease + vt /\ applied' = TRUE
  /\ UNCHANGED <<vt, thread, timer, stopped, main, join, failures, since>>

(* SQS renews the lease at some point of the call; not of a message that is *)
(* already visible again.                                                   *)
Renew ==
  /\ thread = "calling" /\ ~ applied /\ lease > 0
  /\ lease' = vt /\ applied' = TRUE
  /\ UNCHANGED <<vt, thread, timer, stopped, main, join, failures, since>>

(* Bug: a one-shot timer. *)
WaitNoMore ==
  /\ thread' = "ended"
  /\ UNCHANGED <<vt, lease, timer, applied, stopped, main, join, since>>

(* Back to the wait, for a whole interval. *)
WaitAgain ==
  /\ thread' = "waiting" /\ timer' = Interval(vt)
  /\ UNCHANGED <<vt, lease, applied, stopped, main, join, since>>

CallReturns ==
  /\ thread = "calling" /\ applied
  /\ WaitAgain
  /\ UNCHANGED failures

(* The exception is logged; SQS refuses to renew a lease that has run out.  *)
CallRaises ==
  /\ thread = "calling"
  /\ \/ lease > 0 /\ failures < MaxFailures /\ failures' = failures + 1
     \/ lease = 0 /\ UNCHANGED failures
  /\ WaitAgain

-----------------------------------------------------------------------------
(* The Worker: extender.stop() in the finally of process_job *)

Stop ==
  /\ main = "working"
  /\ stopped' = TRUE /\ main' = "joining" /\ join' = JoinTimeout
  /\ UNCHANGED <<vt, lease, thread, timer, applied, failures, since>>

(* Bug: join() without its timeout. *)
JoinOverWhenEnded == thread = "ended"

JoinOver == thread = "ended" \/ join = 0

(* The thread has ended, or the join times out and leaves it behind. *)
StopReturns ==
  /\ main = "joining" /\ JoinOver
  /\ main' = "returned"
  /\ UNCHANGED <<vt, lease, thread, timer, applied, stopped, join, failures, since>>

-----------------------------------------------------------------------------
(* Something is due now: a wait that is over, a call at its longest, a join *)
(* that is over.                                                            *)
Due ==
  \/ thread = "woken"
  \/ thread = "waiting" /\ (timer = 0 \/ stopped)
  \/ thread = "calling" /\ timer = MaxCall
  \/ main = "joining" /\ JoinOver

Down(n) == IF n > 0 THEN n - 1 ELSE 0

Tick ==
  /\ ~ Due
  /\ lease' = Down(lease)
  /\ timer' = CASE thread = "waiting" -> Down(timer)
                [] thread = "calling" -> timer + 1
                [] OTHER -> timer
  /\ join' = Down(join)
  /\ since' = IF stopped /\ since < Horizon THEN since + 1 ELSE since
  /\ UNCHANGED <<vt, thread, applied, stopped, main, failures>>

Thread == TimeOut \/ StartCall \/ EndLoop \/ Renew \/ CallReturns \/ CallRaises
Worker == Stop \/ StopReturns

Next == Thread \/ Worker \/ Tick

Spec == Init /\ [][Next]_vars

-----------------------------------------------------------------------------
(* The first interval and a call fit into what the preparation has left of  *)
(* the Queue's timeout.  From then on the extender's own timeout counts: a  *)
(* lease renewed at once by a call that returns late must last until the    *)
(* next call has renewed it.                                                *)
Sized ==
  /\ MaxPrepare + Interval(vt) + MaxCall < QueueVT
  /\ MaxCall + Interval(vt) + MaxCall < vt

(* As long as no call has failed, the message cannot become visible before  *)
(* stop() is called, however long the Job takes, with the Queue's timeout   *)
(* and with the fallback: what Orchestrator counts as a lapse takes a       *)
(* failure, or a call slower than Sized allows.                             *)
LeaseOutlivesJob ==
  Sized /\ failures = 0 /\ main = "working" => lease > 0

(* The message of a Job that has ended becomes visible again in bounded     *)
(* time, although stop() may leave a thread behind that still renews it.    *)
ReleasedInTime ==
  stopped /\ lease > 0 => since + lease <= MaxCall + Larger(QueueVT, vt)

(* A call that hangs does not hold up the Worker for longer than the join,  *)
(* and the thread that stop() then leaves behind ends with that call: no    *)
(* extender outlives its Job by more than one, whatever fails in it.        *)
StopIsBounded ==
  /\ main = "joining" => since <= JoinTimeout
  /\ stopped /\ thread # "ended" => since <= MaxCall
=============================================================================
