------------------------------- MODULE VmEnv -------------------------------
(***************************************************************************)
(* FrVmEnv (libfrvm/FrVmEnv.cpp): the phases of a verification environment *)
(* and the public Step methods that run them.  A step first runs the step  *)
(* before it if that one is not complete, then its own body, and sets its  *)
(* flag only after the body has returned.  Bodies are virtual and may      *)
(* sleep (ResetDut and WaitForEnd wait for clock edges), so that other     *)
(* threads of the test can call steps in the meantime: nothing locks the   *)
(* flags.                                                                  *)
(***************************************************************************)
EXTENDS Naturals, FiniteSets

CONSTANT Callers   \* threads of the test that call steps of the environment

\* GenCfg, Build, ResetDut, CfgDut, Start, WaitForEnd, Stop, Cleanup
Phases == 1 .. 8
Build == 2
Cleanup == 8

None == 0

VARIABLES
    complete,   \* the eight flags
    goal,       \* the phase whose step each caller has called
    body,       \* the phase whose body each caller is inside
    begun       \* history: the phases each caller has begun

vars == <<complete, goal, body, begun>>

Init ==
    /\ complete = [p \in Phases |-> FALSE]
    /\ goal = [t \in Callers |-> None]
    /\ body = [t \in Callers |-> None]
    /\ begun = [t \in Callers |-> {}]

-----------------------------------------------------------------------------
\* Mutant: ResetDutStep does not call BuildStep.
Descends_NotToBuild(p, done, last) ==
    /\ p \in Phases /\ p <= last
    /\ last > Build => p > Build
    /\ p \notin {1, Build + 1} => done[p - 1]
    /\ \A q \in p .. last - 1 : ~done[q]

\* The nested calls of a step go down to the phase p, whose predecessor is
\* complete: each step calls the one before it when its flag is not set.
Descends(p, done, last) ==
    /\ p \in Phases /\ p <= last
    /\ p > 1 => done[p - 1]
    /\ \A q \in p .. last - 1 : ~done[q]

\* Mutant: a body that is called forgets the steps that enclose it.
Goes_NoReturn(t, done, first, last) ==
    \/ \E p \in first .. last :
          /\ ~done[p]
          /\ \A q \in first .. p - 1 : done[q]
          /\ body' = [body EXCEPT ![t] = p]
          /\ begun' = [begun EXCEPT ![t] = @ \cup {p}]
          /\ goal' = [goal EXCEPT ![t] = None]
    \/ /\ \A q \in first .. last : done[q]
       /\ body' = [body EXCEPT ![t] = None]
       /\ goal' = [goal EXCEPT ![t] = None]
       /\ UNCHANGED begun

\* Mutant: a step that finds its flag set returns all the way.
Goes_GivesUp(t, done, first, last) ==
    \/ /\ first <= last /\ ~done[first]
       /\ body' = [body EXCEPT ![t] = first]
       /\ begun' = [begun EXCEPT ![t] = @ \cup {first}]
       /\ goal' = [goal EXCEPT ![t] = last]
    \/ /\ first > last \/ done[first]
       /\ body' = [body EXCEPT ![t] = None]
       /\ goal' = [goal EXCEPT ![t] = None]
       /\ UNCHANGED begun

\* t goes on with the steps from first to last, from the inside out: the first of
\* them that is not complete runs its body, and when there is none the call
\* returns.  Nothing in between lets another thread run.
Goes(t, done, first, last) ==
    \/ \E p \in first .. last :
          /\ ~done[p]
          /\ \A q \in first .. p - 1 : done[q]
          /\ body' = [body EXCEPT ![t] = p]
          /\ begun' = [begun EXCEPT ![t] = @ \cup {p}]
          /\ goal' = [goal EXCEPT ![t] = last]
    \/ /\ \A q \in first .. last : done[q]
       /\ body' = [body EXCEPT ![t] = None]
       /\ goal' = [goal EXCEPT ![t] = None]
       /\ UNCHANGED begun

\* A call of the step of phase p; Run() is a call of CleanupStep.
Step(t, p) ==
    /\ body[t] = None
    /\ \E q \in Phases : Descends(q, complete, p) /\ Goes(t, complete, q, p)
    /\ UNCHANGED complete

\* Mutant: a body returns and its flag stays as it was.
BodyReturns_FlagForgotten(t) ==
    /\ body[t] # None
    /\ complete' = [complete EXCEPT ![body[t]] = body[t] # Build]
    /\ Goes(t, complete', body[t] + 1, goal[t])

\* The body t is in returns: its flag is set and the enclosing calls go on.
BodyReturns(t) ==
    /\ body[t] # None
    /\ complete' = [complete EXCEPT ![body[t]] = TRUE]
    /\ Goes(t, complete', body[t] + 1, goal[t])

Next == \E t \in Callers : BodyReturns(t) \/ \E p \in Phases : Step(t, p)

Spec == Init /\ [][Next]_vars

-----------------------------------------------------------------------------
(* Properties *)

TypeOK ==
    /\ complete \in [Phases -> BOOLEAN]
    /\ goal \in [Callers -> Phases \cup {None}]
    /\ body \in [Callers -> Phases \cup {None}]
    /\ begun \in [Callers -> SUBSET Phases]
    /\ \A t \in Callers : body[t] <= goal[t]

Begins(t, p) == p \in Phases /\ body'[t] = p /\ p # body[t]

\* Whichever steps the threads call, and however their bodies interleave, a body
\* begins only when all phases before it are complete, and when no thread has
\* begun a later phase.
PhasesInOrder ==
    [][\A t \in Callers, p \in Phases :
          Begins(t, p) => /\ \A q \in 1 .. p - 1 : complete'[q]
                          /\ \A u \in Callers : begun[u] \subseteq 1 .. p]_vars

\* A thread runs each body at most once, although it may call the same step
\* again while the flag is not yet set in another thread.
OncePerCaller ==
    [][\A t \in Callers, p \in Phases : Begins(t, p) => p \notin begun[t]]_vars

\* When a step returns, that phase and all phases before it are complete, also
\* when other threads ran some of them.
ReturnsComplete ==
    [][\A t \in Callers :
          body[t] # None /\ body'[t] = None =>
              \A q \in 1 .. goal[t] : complete'[q]]_vars
=============================================================================
