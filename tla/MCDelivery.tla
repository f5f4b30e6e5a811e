----------------------------- MODULE MCDelivery -----------------------------
(* Delivery on a small instance: the third letter has the recipient of the *)
(* first one, as two leases of one unit may have.                          *)
EXTENDS Delivery

Shared == [l \in Letters |-> IF l = 3 THEN 1 ELSE l]

=============================================================================
