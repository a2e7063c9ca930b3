---------------------- MODULE VisibilityExtenderProofs ----------------------
(***************************************************************************)
(* Theorems about module VisibilityExtender, for every choice of the       *)
(* timeouts and of the longest call.                                       *)
(***************************************************************************)
EXTENDS VisibilityExtender, TLAPS

(* How much of the lease is left, at least, while nothing has failed: until *)
(* the wait is over and one more call has renewed it.                       *)
LeaseMargin ==
  Sized /\ failures = 0 /\ main = "working" =>
    /\ thread # "ended"
    /\ thread = "waiting" => lease > timer + MaxCall
    /\ thread = "woken" => lease > MaxCall
    /\ thread = "calling" /\ ~ applied => lease + timer > MaxCall
    /\ thread = "calling" /\ applied => lease + timer >= vt

(* The Worker and the event agree, and a thread that runs on after stop()   *)
(* does so for the rest of one call.                                        *)
StopOK ==
  /\ stopped <=> main # "working"
  /\ lease <= Larger(QueueVT, vt)
  /\ thread = "calling" => timer <= MaxCall
  /\ stopped /\ thread = "calling" => since <= timer
  /\ stopped /\ thread = "woken" => since = 0
  /\ stopped /\ thread = "waiting" => since <= MaxCall
  /\ ~ stopped => since = 0
  /\ main = "joining" => since + join <= JoinTimeout
  /\ thread = "ended" => stopped

IInv == TypeOK /\ LeaseMargin /\ StopOK /\ ReleasedInTime

(* All the steps need to know of the derived times, which stay unexpanded. *)
TimesOK ==
  /\ QueueVT \in Nat /\ FallbackVT \in Nat /\ MaxCall \in Nat
  /\ QueueVT > 0 /\ JoinTimeout \in Nat /\ MaxFailures \in Nat
  /\ Larger(QueueVT, FallbackVT) \in Nat
  /\ Horizon = MaxCall + Larger(QueueVT, FallbackVT) + 1
  /\ \A v \in {QueueVT, FallbackVT} :
       /\ v \in Nat
       /\ Interval(v) \in Nat
       /\ Larger(Interval(v), MaxCall) \in Nat
       /\ Interval(v) <= Larger(Interval(v), MaxCall)
       /\ MaxCall <= Larger(Interval(v), MaxCall)
       /\ Larger(QueueVT, v) \in Nat
       /\ QueueVT <= Larger(QueueVT, v) /\ v <= Larger(QueueVT, v)
       /\ Larger(QueueVT, v) <= Larger(QueueVT, FallbackVT)

(* The interval between two renewals is a number of seconds. *)
LEMMA IntervalType ==
  ASSUME NEW t \in Nat
  PROVE  Interval(t) \in Nat
  <1>1. t \div 2 \in Nat
    OBVIOUS
  <1> QED BY <1>1, TimesAssumption DEF Interval, Larger

(* The derived times are what the steps take them to be. *)
LEMMA TimesHold == TimesOK
  <1>1. QueueVT \in Nat /\ FallbackVT \in Nat /\ MaxCall \in Nat
        /\ QueueVT > 0 /\ JoinTimeout \in Nat /\ MaxFailures \in Nat
    BY TimesAssumption
  <1>2. Larger(QueueVT, FallbackVT) \in Nat
    BY <1>1 DEF Larger
  <1>3. ASSUME NEW v \in {QueueVT, FallbackVT}
        PROVE  /\ v \in Nat
               /\ Interval(v) \in Nat
               /\ Larger(Interval(v), MaxCall) \in Nat
               /\ Interval(v) <= Larger(Interval(v), MaxCall)
               /\ MaxCall <= Larger(Interval(v), MaxCall)
               /\ Larger(QueueVT, v) \in Nat
               /\ QueueVT <= Larger(QueueVT, v) /\ v <= Larger(QueueVT, v)
               /\ Larger(QueueVT, v) <= Larger(QueueVT, FallbackVT)
    <2>1. v \in Nat
      BY <1>1
    <2>2. Interval(v) \in Nat
      BY <2>1, IntervalType
    <2> QED BY <1>1, <2>1, <2>2 DEF Larger
  <1> QED BY <1>1, <1>2, <1>3 DEF TimesOK, Horizon

(* The invariant holds when the thread starts. *)
LEMMA InitIInv == Init => IInv
  <1> SUFFICES ASSUME Init PROVE IInv
    OBVIOUS
  <1> USE TimesHold DEF Init, TimesOK
  <1>0. MaxPrepare \in Nat /\ MaxPrepare < QueueVT
    BY TimesAssumption
  <1>1. TypeOK
    <2>1. lease \in Nat /\ lease <= QueueVT
      BY <1>0
    <2>2. vt \in {QueueVT, FallbackVT} /\ timer = Interval(vt)
      OBVIOUS
    <2>3. timer \in 0..Larger(Interval(vt), MaxCall)
      <3> HIDE DEF Init
      <3> QED BY <2>2
    <2>4. lease \in 0..Larger(QueueVT, FallbackVT)
      <3>1. QueueVT <= Larger(QueueVT, FallbackVT)
        OBVIOUS
      <3> QED BY <2>1, <3>1
    <2>5. since \in 0..Horizon /\ join \in 0..JoinTimeout /\ failures \in 0..MaxFailures
      OBVIOUS
    <2> QED BY <2>2, <2>3, <2>4, <2>5 DEF TypeOK
  <1>2. LeaseMargin
    BY <1>0 DEF LeaseMargin, Sized
  <1>3. StopOK /\ ReleasedInTime
    BY <1>0 DEF StopOK, ReleasedInTime
  <1> QED BY <1>1, <1>2, <1>3 DEF IInv

(* Every step of the thread, of the Worker and of time keeps the invariant. *)
LEMMA NextIInv == IInv /\ [Next]_vars => IInv'
  <1> SUFFICES ASSUME IInv, [Next]_vars PROVE IInv'
    OBVIOUS
  <1> USE TimesHold DEF TimesOK, IInv, TypeOK, LeaseMargin, StopOK, ReleasedInTime, Sized
  <1>1. CASE TimeOut
    BY <1>1 DEF TimeOut
  <1>2. CASE StartCall
    <2> USE <1>2 DEF StartCall
    <2>1. TypeOK'
      <3>1. timer' \in 0..Larger(Interval(vt), MaxCall)
        OBVIOUS
      <3> QED BY <3>1
    <2>2. LeaseMargin'
      OBVIOUS
    <2>3. StopOK' /\ ReleasedInTime'
      OBVIOUS
    <2> QED BY <2>1, <2>2, <2>3
  <1>3. CASE EndLoop
    BY <1>3 DEF EndLoop
  <1>4. CASE Renew
    BY <1>4 DEF Renew
  <1>5. CASE CallReturns
    BY <1>5 DEF CallReturns, WaitAgain
  <1>6. CASE CallRaises
    BY <1>6 DEF CallRaises, WaitAgain
  <1>7. CASE Stop
    BY <1>7 DEF Stop
  <1>8. CASE StopReturns
    BY <1>8 DEF StopReturns, JoinOver
  <1>9. CASE Tick
    BY <1>9 DEF Tick, Due, Down, JoinOver
  <1>10. CASE UNCHANGED vars
    BY <1>10 DEF vars
  <1> QED BY <1>1, <1>2, <1>3, <1>4, <1>5, <1>6, <1>7, <1>8, <1>9, <1>10
          DEF Next, Thread, Worker

(* The invariant holds throughout. *)
THEOREM Invariance == Spec => []IInv
BY InitIInv, NextIInv, PTL DEF Spec

(* The lease, the wait, the calls and the join stay within their ranges. *)
THEOREM TypeCorrect == Spec => []TypeOK
  <1>1. IInv => TypeOK
    BY DEF IInv
  <1> QED BY Invariance, <1>1, PTL

(* Whatever the timeouts are, as long as Sized relates them: a Job whose     *)
(* renewals do not fail keeps its message for as long as it takes.           *)
THEOREM LeaseKept == Spec => []LeaseOutlivesJob
  <1>1. IInv => LeaseOutlivesJob
    <2> SUFFICES ASSUME IInv, Sized, failures = 0, main = "working"
                 PROVE  lease > 0
      BY DEF LeaseOutlivesJob
    <2>1. lease \in Nat /\ timer \in Nat /\ applied \in BOOLEAN
          /\ thread \in {"waiting", "woken", "calling", "ended"}
      BY TimesHold DEF IInv, TypeOK, TimesOK
    <2>2. thread = "calling" => timer <= MaxCall
      BY DEF IInv, StopOK
    <2>3. vt \in Nat /\ MaxCall < vt
      BY TimesHold DEF IInv, TypeOK, Sized, TimesOK
    <2> QED BY <2>1, <2>2, <2>3, TimesHold DEF IInv, LeaseMargin, TimesOK
  <1> QED BY Invariance, <1>1, PTL

(* After stop() the message is back within one call and one timeout.  *)
THEOREM Release == Spec => []ReleasedInTime
  <1>1. IInv => ReleasedInTime
    BY DEF IInv
  <1> QED BY Invariance, <1>1, PTL

(* stop() never takes longer than its join, and the thread that it leaves   *)
(* behind ends with its call, however long it takes and whether or not it   *)
(* fails.                                                                   *)
THEOREM StopEnds == Spec => []StopIsBounded
  <1>1. IInv => StopIsBounded
    <2> SUFFICES ASSUME IInv
                 PROVE  /\ main = "joining" => since <= JoinTimeout
                        /\ stopped /\ thread # "ended" => since <= MaxCall
      BY DEF StopIsBounded
    <2>1. /\ since \in Nat /\ timer \in Nat /\ join \in Nat /\ JoinTimeout \in Nat
          /\ thread \in {"waiting", "woken", "calling", "ended"}
      BY TimesHold DEF IInv, TypeOK, TimesOK
    <2>2. main = "joining" => since <= JoinTimeout
      BY <2>1 DEF IInv, StopOK
    <2>3. MaxCall \in Nat
      BY TimesAssumption
    <2>4. stopped /\ thread # "ended" => since <= MaxCall
      BY <2>1, <2>3 DEF IInv, StopOK
    <2> QED BY <2>2, <2>4
  <1> QED BY Invariance, <1>1, PTL
=============================================================================
