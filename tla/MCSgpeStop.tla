----------------------------- MODULE MCSgpeStop -----------------------------
(* The STOP function of the SGPE with few quads of one or two cores; core  *)
(* 2 * q is the first of quad q.                                           *)
EXTENDS SgpeStop

MCFirst(q) == 2 * q
MCOneCore(q) == {2 * q}
MCTwoCores(q) == {2 * q, 2 * q + 1}
MCMixed(q) == IF q = 0 THEN {0, 1} ELSE {2 * q}
=============================================================================
