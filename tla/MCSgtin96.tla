----------------------------- MODULE MCSgtin96 -----------------------------
(* Instances of Sgtin96 for TLC. *)
EXTENDS Sgtin96

\* EPCs of sgtin96_test.go with the GTIN-14, or the error, that it expects.
Tested == {
  [epc |-> <<3,0,0,0,0,0,6,6,2,13,3,13,3,1,1,0,4,8,12,6,13,8,13,9>>,
   gtin |-> Value(<<4,0,0,0,4,2,8,5,6,0,2,0,4,9>>)],
  [epc |-> <<3,0,0,0,0,1,1,11,8,9,6,10,5,0,6,11,2,9,12,1,8,5,3,9>>,
   gtin |-> Value(<<1,0,0,1,1,8,9,2,3,9,4,4,4,0>>)],
  [epc |-> <<3,0,0,4,0,0,0,0,0,0,0,0,2,0,4,0,0,0,0,0,0,0,0,1>>,
   gtin |-> Value(<<0,0,0,0,0,0,0,0,0,0,0,1,1,6>>)],
  [epc |-> <<3,0,0,8,0,0,0,0,0,0,0,1,0,0,4,0,0,0,0,0,0,0,0,1>>,
   gtin |-> Value(<<0,0,0,0,0,0,0,0,0,0,1,0,1,4>>)],
  [epc |-> <<3,0,1,4,3,6,3,9,15,8,4,1,9,1,10,13,2,2,9,0,1,6,0,7>>,
   gtin |-> Value(<<0,0,8,8,8,4,4,6,6,7,1,4,2,4>>)],
  [epc |-> <<3,0,0,0,0,0,1,8,1,12,2,12,12,10,9,3,10,8,11,4,3,7,1,1>>,
   gtin |-> Error("item reference")],
  [epc |-> <<3,0,1,12,0,0,0,0,4,0,0,0,0,0,4,0,0,0,0,0,0,0,0,1>>,
   gtin |-> Error("partition")],
  [epc |-> <<14,2,8,0,1,1,6,0,6,0,0,0,0,2,0,5,4,12,12,2,0,9,6,15>>,
   gtin |-> Error("header")]
}

\* The EPCs of the tests decode to what the tests expect (sgtin96_test.go:100-150), which
\* the reference definitions of the other properties say nothing about.
AgreesWithTests == \A t \in Tested : epc = t.epc => GetGtin14(epc) = t.gtin

\* In every partition the largest company prefix and item reference; in three of them
\* the least that are refused.
AtTheLimit == {
  <<3,0,6,3,10,3,5,2,9,4,3,15,15,14,4,0,0,0,0,0,0,0,0,5>>,
  <<3,0,6,6,14,9,0,14,13,12,15,15,15,8,12,0,0,0,0,0,0,0,0,5>>,
  <<3,0,6,10,5,4,0,11,14,3,15,15,15,9,12,0,0,0,0,0,0,0,0,5>>,
  <<3,0,6,15,11,9,10,12,9,15,15,9,12,3,12,0,0,0,0,0,0,0,0,5>>,
  <<3,0,7,2,15,10,15,0,7,15,14,1,10,7,12,0,0,0,0,0,0,0,0,5>>,
  <<3,0,7,6,6,2,5,9,15,15,13,0,8,15,12,0,0,0,0,0,0,0,0,5>>,
  <<3,0,7,11,13,0,8,15,14,6,2,5,9,15,12,0,0,0,0,0,0,0,0,5>>,
  <<3,0,2,3,10,3,5,2,9,4,4,0,0,0,4,0,0,0,0,0,0,0,0,5>>,
  <<3,0,2,0,0,0,0,0,0,0,0,0,0,6,8,0,0,0,0,0,0,0,0,5>>,
  <<3,0,2,15,11,9,10,12,10,0,0,0,0,0,4,0,0,0,0,0,0,0,0,5>>,
  <<3,0,2,12,0,0,0,0,0,0,1,9,12,4,0,0,0,0,0,0,0,0,0,5>>,
  <<3,0,3,11,13,0,9,0,0,0,0,0,0,0,4,0,0,0,0,0,0,0,0,5>>,
  <<3,0,3,8,0,0,0,0,6,6,2,5,10,0,0,0,0,0,0,0,0,0,0,5>>
}

TestTags == {t.epc : t \in Tested} \cup AtTheLimit

==============================================================================
