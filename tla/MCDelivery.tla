------------------------------ MODULE MCDelivery ------------------------------
(* An instance of Delivery for TLC: a compressed body is shorter than the plain one,   *)
(* and the rendered one differs from the upstream's.                                   *)
EXTENDS Delivery

MCSize == [b \in Bytes |-> IF b.coding = "gzip" THEN 1 ELSE IF b.text = "upstream" THEN 2 ELSE 3]
=============================================================================
