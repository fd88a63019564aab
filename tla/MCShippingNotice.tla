-------------------------- MODULE MCShippingNotice --------------------------
(* Instances of ShippingNotice for TLC. *)
EXTENDS ShippingNotice

CONSTANTS p1, p2, p3, nil

ThreeProducts == {p1, p2, p3}
TwoKnown      == {p1, p2}

\* In a cfg a number cannot be negative.
SomeBatchSizes == {-1, 0, 3}

==============================================================================
