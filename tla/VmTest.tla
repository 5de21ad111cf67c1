-------------------------------- MODULE VmTest --------------------------------
(***************************************************************************)
(* A test: threads that call the steps of an environment (VmEnv) whose     *)
(* bodies report (SimReport).  The checker of the fric bench reports an    *)
(* error from a thread that runs while WaitForEnd sleeps and from Cleanup; *)
(* a report may end the process in any phase, and any thread may set the   *)
(* mask and the threshold at any time.                                     *)
(***************************************************************************)
EXTENDS VmEnv, SimReport

CONSTANTS
    Reporting,    \* the phases during which there are reports
    Thresholds,   \* the thresholds threads set
    Masks,        \* the masks threads set
    MaxErrors     \* bound on the errors counted

ASSUME VmTestAssumption ==
    /\ Reporting \subseteq Phases
    /\ Thresholds \subseteq Int
    /\ Masks \subseteq Levels
    /\ MaxErrors \in Nat

VARIABLES
    control,      \* FrSimReportControl::src
    exited,       \* a report has ended the process
    overdue,      \* history: a threshold has been set that had been reached already
    fatal         \* history: FATAL has been reported

reportVars == <<control, exited, overdue, fatal>>
testVars == <<vars, reportVars>>

TestInit ==
    /\ Init
    /\ control = DefaultControl
    /\ exited = FALSE
    /\ overdue = FALSE
    /\ fatal = FALSE

-----------------------------------------------------------------------------
\* The process lives and t is inside a phase with reports.
Reports(t) == ~exited /\ body[t] \in Reporting

Report(t, lvl) ==
    /\ Reports(t)
    /\ control.count < MaxErrors
    /\ control' = Counted(control, lvl)
    /\ exited' = Exits(control, lvl)
    /\ fatal' = (fatal \/ lvl = FATAL)
    /\ UNCHANGED <<vars, overdue>>

setGlobalMaskLevel(t, lvl) ==
    /\ Reports(t)
    /\ control' = [control EXCEPT !.mask = lvl]
    /\ UNCHANGED <<vars, exited, overdue, fatal>>

setGlobalErrorThreshold(t, n) ==
    /\ Reports(t)
    /\ control' = [control EXCEPT !.threshold = n]
    /\ overdue' = (n <= control.count)
    /\ UNCHANGED <<vars, exited, fatal>>

EnvStep == ~exited /\ Next /\ UNCHANGED reportVars

\* exit(1) has been called.
Exited == exited /\ UNCHANGED testVars

TestNext ==
    \/ EnvStep
    \/ \E t \in Callers :
          \/ \E lvl \in Levels : Report(t, lvl)
          \/ \E lvl \in Masks : setGlobalMaskLevel(t, lvl)
          \/ \E n \in Thresholds : setGlobalErrorThreshold(t, n)
    \/ Exited

TestSpec == TestInit /\ [][TestNext]_testVars

\* As in VmEnv, as long as the process lives; nobody has to report.
TestFairSpec ==
    /\ TestSpec
    /\ \A t \in Callers :
          /\ WF_testVars(~exited /\ BodyReturns(t) /\ UNCHANGED reportVars)
          /\ SF_testVars(~exited /\ Step(t, Cleanup) /\ UNCHANGED reportVars)

-----------------------------------------------------------------------------
(* Properties *)

TestTypeOK == TypeOK /\ control \in Controls /\ exited \in BOOLEAN

\* "causes exit after global error threshold reached", "causes immediate exit"
\* (FrSimReportControl.h): a test goes on only with fewer errors counted than the
\* threshold and without a FATAL report. The exception is a threshold set when it
\* had been reached already: it is compared with == (FrSimReportControl.cpp:73).
GoesOnBelowThreshold ==
    ~exited => ~fatal /\ (control.count < control.threshold \/ overdue)

\* Every environment whose test calls Run() is cleaned up, unless a report has
\* ended the process.
RunEnds == <>exited \/ <>[](\A p \in Phases : complete[p])
==============================================================================
