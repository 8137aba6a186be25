------------------------------ MODULE MCPkTimer ------------------------------
(***************************************************************************)
(* Instances of PkTimer for TLC: two or three timers, a clock of four      *)
(* ticks and a decrementer that is narrower, or as wide.                   *)
(***************************************************************************)
EXTENDS PkTimer

CONSTANTS t1, t2, t3

Both == {"schedule", "cancel"}
Schedule == {"schedule"}
Cancel == {"cancel"}
Nothing == {}
=============================================================================
