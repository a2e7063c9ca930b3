---------------------------- MODULE CleanDelivery ----------------------------
(***************************************************************************)
(* What a host promises of the deliveries it processes, one after the      *)
(* other: each starts from nothing and ends in one verdict or is lost in a *)
(* crash, and what it stores is made of its own complete data, whatever    *)
(* earlier deliveries have left on the disk (BR-001, BR-024).              *)
(***************************************************************************)
EXTENDS ErrorCodes, Naturals

VARIABLES
  delivery,  \* the number of the delivery, 0 before the first
  state,     \* "working", or how the last delivery ended
  product    \* the writings in the artifact it stored

Own == {[by |-> delivery, whole |-> TRUE]}

Init == delivery = 0 /\ state = "none" /\ product = {}

Begin ==
  /\ state # "working"
  /\ delivery' = delivery + 1 /\ state' = "working" /\ product' = {}

Store ==
  /\ state = "working"
  /\ product' = Own
  /\ UNCHANGED <<delivery, state>>

End(s) == state = "working" /\ state' = s /\ UNCHANGED <<delivery, product>>

(* Not without an artifact. *)
Succeed == product = Own /\ End("SUCCESS")

Fail == \E code \in ErrorCodes : End(code)

(* The upload in progress may have taken effect. *)
Lose ==
  /\ state = "working"
  /\ state' = "lost"
  /\ product' \in {product, Own}
  /\ UNCHANGED delivery

Next == Begin \/ Store \/ Succeed \/ Fail \/ Lose

Spec == Init /\ [][Next]_<<delivery, state, product>>
=============================================================================
