------------------------------ MODULE RateGate ------------------------------
(***************************************************************************)
(* What the rate limit of a source client promises: a request is sent in a *)
(* slot of its own, and slots are at least Interval apart.  A slot may be  *)
(* taken late, and then counts from the moment it was due.  Nothing else   *)
(* takes a slot: a request that is given up while it waits costs nothing.  *)
(***************************************************************************)
EXTENDS Integers

CONSTANTS
  Requests,  \* who sends requests
  Interval,  \* least time between two slots
  Late       \* most time a slot is taken after it was due

VARIABLES
  elapsed,   \* time since the last slot, counted up to Interval + Late
  sent       \* requests on their way

gateVars == <<elapsed, sent>>

Pass ==
  /\ elapsed' = IF elapsed < Interval + Late THEN elapsed + 1 ELSE elapsed
  /\ UNCHANGED sent

Slot(r) ==
  /\ r \notin sent
  /\ sent' = sent \cup {r}
  /\ \E late \in 0..Late : elapsed - late >= Interval /\ elapsed' = late

Answered(r) == sent' = sent \ {r} /\ UNCHANGED elapsed

Init == elapsed = Interval + Late /\ sent = {}

Next == Pass \/ \E r \in Requests : Slot(r) \/ Answered(r)

Spec == Init /\ [][Next]_gateVars
=============================================================================
