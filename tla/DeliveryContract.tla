-------------------------- MODULE DeliveryContract -------------------------
(***************************************************************************)
(* What the delivery log promises a subscriber of one webhook delivery,    *)
(* whatever the engine does to keep it: it is attempted a bounded number   *)
(* of times, it is retried only after an attempt and while an attempt is   *)
(* left, and an outcome once logged is final.  Rows disappear only with    *)
(* their subscription; an attempt under way is not recalled.               *)
(***************************************************************************)
EXTENDS Naturals

CONSTANTS Deliveries, MaxRetries

VARIABLES status, tries

cvars == <<status, tries>>

Init == /\ status = [d \in Deliveries |-> "none"]
        /\ tries  = [d \in Deliveries |-> 0]

Enqueue(d) ==
  /\ status[d] = "none"
  /\ status' = [status EXCEPT ![d] = "pending"]
  /\ UNCHANGED tries

Attempt(d) ==
  /\ status[d] \in {"pending", "retrying", "gone"}
  /\ tries[d] < MaxRetries
  /\ tries' = [tries EXCEPT ![d] = @ + 1]
  /\ UNCHANGED status

\* An attempt failed with one left: the delivery waits for the next.
Retry(d) ==
  /\ status[d] \in {"pending", "retrying"}
  /\ 0 < tries[d] /\ tries[d] < MaxRetries
  /\ status' = [status EXCEPT ![d] = "retrying"]
  /\ UNCHANGED tries

Succeed(d) ==
  /\ status[d] \in {"pending", "retrying"}
  /\ tries[d] > 0
  /\ status' = [status EXCEPT ![d] = "delivered"]
  /\ UNCHANGED tries

GiveUp(d) ==
  /\ status[d] \in {"pending", "retrying"}
  /\ status' = [status EXCEPT ![d] = "failed"]
  /\ UNCHANGED tries

Drop(gone) ==
  /\ \A d \in gone : status[d] # "none"
  /\ status' = [d \in Deliveries |-> IF d \in gone THEN "gone" ELSE status[d]]
  /\ UNCHANGED tries

Next ==
  \/ \E d \in Deliveries : Enqueue(d) \/ Attempt(d) \/ Retry(d) \/ Succeed(d) \/ GiveUp(d)
  \/ \E gone \in SUBSET Deliveries : Drop(gone)

Spec == Init /\ [][Next]_cvars
=============================================================================
