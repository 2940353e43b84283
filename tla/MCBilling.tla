------------------------------- MODULE MCBilling -------------------------------
(* UsageBilling on small instances: an allowance of three characters,      *)
(* requests of one or two units, a second of speech worth two characters.  *)
EXTENDS UsageBilling, TLC

(* The requests are interchangeable.                                       *)
RequestSymmetry == Permutations(Requests)
=============================================================================
