------------------------- MODULE CreditReservations -------------------------
(***************************************************************************)
(* What the credit ledger promises about the reservation of each analysis  *)
(* run: it is made at most once, and settled at most once, either by       *)
(* consuming it or by releasing it.                                        *)
(***************************************************************************)
CONSTANT Runs

VARIABLE reservation

ReservationState == {"none", "held", "consumed", "released"}

Init == reservation = [r \in Runs |-> "none"]

Move(S, from, to) ==
  /\ \A r \in S : reservation[r] = from
  /\ reservation' = [r \in Runs |-> IF r \in S THEN to ELSE reservation[r]]

Reserve(r) == Move({r}, "none", "held")
Consume(r) == Move({r}, "held", "consumed")
Release(S) == Move(S, "held", "released")  \* one transaction may release many

Next ==
  \/ \E r \in Runs : Reserve(r) \/ Consume(r)
  \/ \E S \in SUBSET Runs : Release(S)

Spec == Init /\ [][Next]_reservation
=============================================================================
