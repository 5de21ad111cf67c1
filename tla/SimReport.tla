------------------------------ MODULE SimReport ------------------------------
(***************************************************************************)
(* FrSimReport and FrSimReportControl (libfrsim): what a report does to    *)
(* the one control object of the process, and when it ends the process.    *)
(* A control is a record of the mask level, the error threshold and the    *)
(* number of errors counted.                                               *)
(***************************************************************************)
EXTENDS Integers

DEBUG == 0
NOTE == 1
WARNING == 2
ERROR == 3
FATAL == 4
Levels == DEBUG .. FATAL

Controls == [mask : Levels, threshold : Int, count : Nat]

\* The constructor; getReportControl makes the only one.
DefaultControl == [mask |-> NOTE, threshold |-> 1, count |-> 0]

\* The mask hides the levels below it, so that FATAL is never hidden.
isMasked(c, lvl) == lvl < c.mask

\* Report(lvl): an error that is not masked is counted.
Counted(c, lvl) ==
    [c EXCEPT !.count = IF lvl = ERROR /\ ~isMasked(c, lvl) THEN @ + 1 ELSE @]

reachedGlobalErrorThreshold(c) == c.count = c.threshold

\* Mutant: the threshold is tested before the error is counted.
Exits_TestsFirst(c, lvl) ==
    ~isMasked(c, lvl) /\ (lvl = FATAL \/ reachedGlobalErrorThreshold(c))

\* Report(lvl) calls exit: a report of any level that is not masked tests the
\* threshold, when the error it may be has been counted.
Exits(c, lvl) ==
    ~isMasked(c, lvl) /\ (lvl = FATAL \/ reachedGlobalErrorThreshold(Counted(c, lvl)))
==============================================================================
