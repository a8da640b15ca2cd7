--------------------------- MODULE MCMotorChain -----------------------------
(* Small instances of the thrust chain for TLC.                            *)
EXTENDS MotorChain

(* Every thrust, and one past full astern.                                 *)
SignedThrusts == -(Full + 1) .. Full
=============================================================================
