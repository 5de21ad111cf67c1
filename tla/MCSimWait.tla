----------------------------- MODULE MCSimWait -----------------------------
(* Instances of SimWait for TLC; the cfg files give the constants.          *)
EXTENDS SimWait

CONSTANTS t1, t2, clk, out

TwoThreads == {t1, t2}
Clk == {clk}
Out == {out}
Both == {clk, out}
=============================================================================
