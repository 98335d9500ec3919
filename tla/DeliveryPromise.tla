-------------------------- MODULE DeliveryPromise --------------------------
(***************************************************************************)
(* What one run of the parser service promises about its event batches:    *)
(* they reach the web application in order, each at least once, and the    *)
(* run calls itself completed only when all of them have.  A run may fail  *)
(* at any point; what it sent before may still arrive.                     *)
(***************************************************************************)
EXTENDS Integers

CONSTANT NumBatches

VARIABLES
  delivered,    \* the batches that have arrived
  outcome       \* "pending", "completed" or "failed"

vars == <<delivered, outcome>>

Init == delivered = {} /\ outcome = "pending"

Deliver ==
  /\ outcome # "completed"
  /\ \E b \in 1..NumBatches :
       /\ delivered = 1..(b - 1)
       /\ delivered' = 1..b
  /\ UNCHANGED outcome

Complete ==
  /\ outcome = "pending"
  /\ delivered = 1..NumBatches
  /\ outcome' = "completed"
  /\ UNCHANGED delivered

Fail ==
  /\ outcome = "pending"
  /\ outcome' = "failed"
  /\ UNCHANGED delivered

Next == Deliver \/ Complete \/ Fail

Spec == Init /\ [][Next]_vars
=============================================================================
