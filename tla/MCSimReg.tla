------------------------------ MODULE MCSimReg ------------------------------
(* Two registers: of one to three bits in words of two, and of one or two    *)
(* bits when one of them is connected to a signal.                           *)
EXTENDS SimReg
CONSTANTS ra, rb
MCNames == {ra, rb}
=============================================================================
