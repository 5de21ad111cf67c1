------------------------------ MODULE MCVmTest ------------------------------
(* Instances of VmTest for TLC; the cfg file gives the constants.            *)
EXTENDS VmTest

CONSTANTS t1, t2

TwoCallers == {t1, t2}
=============================================================================
