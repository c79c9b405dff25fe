----------------------------- MODULE MCFaultProxy -----------------------------
(***************************************************************************)
(* Three swaps through the proxy: two spend the same secrets in another    *)
(* order, two carry the same blinded message.                              *)
(***************************************************************************)
EXTENDS FaultProxy, TLC

CONSTANTS p, q, r, s, t, B, C

MCInputs == p :> <<s, t>> @@ q :> <<t, s>> @@ r :> <<s>>
MCBlinded == p :> B @@ q :> C @@ r :> B

Rule1(action, n, certain) ==
  [action |-> action, remaining |-> n, certain |-> certain]

MCRuleSets == {
  <<Rule1("drop_response", 1, TRUE), Rule1("status", 1, FALSE)>>,
  <<Rule1("reset", -1, FALSE), Rule1("drop", 1, TRUE)>> }
=============================================================================
