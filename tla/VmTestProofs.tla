----------------------------- MODULE VmTestProofs -----------------------------
(***************************************************************************)
(* Reports do not disturb the phases of an environment, so that what is    *)
(* proved of VmEnv holds of a test that reports; and a test goes on only   *)
(* below its error threshold.  For any threads, thresholds and masks.      *)
(***************************************************************************)
EXTENDS VmTest, VmEnvProofs

(* Reports are conjoined to the steps of the environment or leave it alone, *)
(* so what is proved of VmEnv carries over.                                 *)
LEMMA TestRefinesEnv == TestSpec => Spec
<1>1. TestInit => Init
  BY DEF TestInit
<1>2. [TestNext]_testVars => [Next]_vars
  BY DEF TestNext, EnvStep, Report, setGlobalMaskLevel, setGlobalErrorThreshold,
         Exited, testVars
<1> QED
  BY <1>1, <1>2, PTL DEF TestSpec, Spec

(* The phases of a reporting test keep their order.                         *)
THEOREM TestOrder == TestSpec => PhasesInOrder
  BY TestRefinesEnv, OrderTheorem

-----------------------------------------------------------------------------
ControlOK == control \in Controls /\ exited \in BOOLEAN

ReportInv == ControlOK /\ GoesOnBelowThreshold

\* The invariant of the reports holds at the start.
LEMMA InitReports == TestInit => ReportInv
<1> SUFFICES ASSUME TestInit PROVE ReportInv
  OBVIOUS
<1>1. control.count = 0 /\ control.threshold = 1 /\ exited = FALSE /\ fatal = FALSE
  BY DEF TestInit, DefaultControl
<1>2. control \in Controls
  BY DEF TestInit, DefaultControl, Controls, Levels, DEBUG, NOTE, FATAL
<1>3. control.count < control.threshold
  BY <1>1
<1> QED
  BY <1>1, <1>2, <1>3, Zenon DEF ReportInv, ControlOK, GoesOnBelowThreshold

(* A report that does not end the process is masked, and then it is not     *)
(* FATAL and not counted, or leaves the count off the threshold.            *)
LEMMA ReportKeeps ==
  ASSUME ReportInv, NEW t \in Callers, NEW lvl \in Levels, Report(t, lvl)
  PROVE  ReportInv'
<1>1. control' \in Controls /\ exited' \in BOOLEAN
  BY DEF ReportInv, ControlOK, Report, Counted, Exits, isMasked, Controls, Levels, ERROR
<1>2. ASSUME ~exited'
      PROVE  ~fatal' /\ (control'.count < control'.threshold \/ overdue')
  <2>1. ~exited /\ ~fatal /\ (control.count < control.threshold \/ overdue)
    BY DEF ReportInv, GoesOnBelowThreshold, Report, Reports
  <2>2. CASE isMasked(control, lvl)
    BY <2>1, <2>2 DEF ReportInv, ControlOK, Report, Counted, isMasked, Controls, Levels,
                      DEBUG, ERROR, FATAL
  <2>3. CASE ~isMasked(control, lvl)
    <3>1. lvl # FATAL /\ control'.count # control'.threshold
      BY <1>2, <2>3 DEF Report, Exits, reachedGlobalErrorThreshold
    <3>2. /\ control.count \in Nat /\ control.threshold \in Int
          /\ control'.threshold = control.threshold
          /\ control'.count \in {control.count, control.count + 1}
      BY DEF ReportInv, ControlOK, Report, Counted, Controls
    <3>3. control'.count < control'.threshold \/ overdue
      BY <2>1, <3>1, <3>2
    <3>4. ~fatal' /\ overdue' = overdue
      BY <2>1, <3>1 DEF Report
    <3> QED
      BY <3>3, <3>4
  <2> QED
    BY <2>2, <2>3
<1> QED
  BY <1>1, <1>2 DEF ReportInv, ControlOK, GoesOnBelowThreshold

\* Every step of a test keeps it.
LEMMA NextReports == ReportInv /\ [TestNext]_testVars => ReportInv'
<1> SUFFICES ASSUME ReportInv, [TestNext]_testVars
             PROVE  ReportInv'
  OBVIOUS
<1> USE VmTestAssumption DEF ReportInv, ControlOK, GoesOnBelowThreshold
<1>1. CASE EnvStep
  BY <1>1 DEF EnvStep, reportVars
<1>2. ASSUME NEW t \in Callers, NEW lvl \in Levels, Report(t, lvl)
      PROVE  ReportInv'
  BY <1>2, ReportKeeps
<1>3. ASSUME NEW t \in Callers, NEW lvl \in Masks, setGlobalMaskLevel(t, lvl)
      PROVE  ReportInv'
  BY <1>3 DEF setGlobalMaskLevel, Controls
<1>4. ASSUME NEW t \in Callers, NEW n \in Thresholds, setGlobalErrorThreshold(t, n)
      PROVE  ReportInv'
  <2>1. n \in Int /\ control \in Controls
    BY <1>4
  <2>2. control' = [control EXCEPT !.threshold = n] /\ exited' = exited /\ fatal' = fatal
    BY <1>4 DEF setGlobalErrorThreshold
  <2>3. control' \in Controls /\ control'.count = control.count /\ control'.threshold = n
    BY <2>1, <2>2 DEF Controls
  <2>4. overdue' <=> n <= control.count
    BY <1>4 DEF setGlobalErrorThreshold
  <2>5. control'.count < control'.threshold \/ overdue'
    <3>1. control.count \in Nat
      BY <2>1 DEF Controls
    <3> QED
      BY <2>1, <2>3, <2>4, <3>1
  <2>6. ~exited /\ ~fatal
    BY <1>4 DEF setGlobalErrorThreshold, Reports
  <2> QED
    BY <2>2, <2>3, <2>5, <2>6
<1>5. CASE Exited \/ UNCHANGED testVars
  BY <1>5 DEF Exited, testVars, reportVars
<1> QED
  BY <1>1, <1>2, <1>3, <1>4, <1>5 DEF TestNext

(* A test goes on only with fewer errors counted than its threshold, and    *)
(* never after FATAL, whichever threads report and set masks and thresholds *)
(* in whatever order; the threshold that is set too late is the exception.  *)
THEOREM ThresholdTheorem == TestSpec => []GoesOnBelowThreshold
<1>1. ReportInv => GoesOnBelowThreshold
  BY DEF ReportInv
<1> QED
  BY InitReports, NextReports, <1>1, PTL DEF TestSpec

(* A report leaves a mask, a threshold and a count behind, and the phases   *)
(* stay those of the environment, whatever the threads do.                  *)
THEOREM TestTypeCorrect == TestSpec => []TestTypeOK
<1>1. ReportInv => control \in Controls /\ exited \in BOOLEAN
  BY DEF ReportInv, ControlOK
<1>2. TestSpec => []TypeOK
  BY TestRefinesEnv, TypeCorrect
<1> QED
  BY InitReports, NextReports, <1>1, <1>2, PTL DEF TestSpec, TestTypeOK
==============================================================================
