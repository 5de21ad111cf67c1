---------------------------- MODULE VmEnvProofs ----------------------------
(* Theorems about VmEnv for every set of threads that call its steps.       *)
EXTENDS VmEnv, TLAPS

\* The complete phases are a prefix of the phases.
Prefix == \A p \in Phases : complete[p] => \A q \in 1 .. p - 1 : complete[q]

\* What a thread has begun it is still inside, or is complete; and it began
\* only what came after complete phases.
BegunInOrder ==
    \A t \in Callers : \A p \in begun[t] :
        /\ complete[p] \/ body[t] = p
        /\ \A q \in 1 .. p - 1 : complete[q]

InsideIsBegun == \A t \in Callers : body[t] # None => body[t] \in begun[t]

Inv == TypeOK /\ Prefix /\ BegunInOrder /\ InsideIsBegun

\* What it means for a caller t to go on when done is the new value of the flags.
LEMMA GoesOn ==
    ASSUME Inv, NEW t \in Callers, NEW first \in 1 .. 9, NEW last \in Phases,
           complete' \in [Phases -> BOOLEAN], Prefix',
           \A p \in Phases : complete[p] => complete'[p],
           \A p \in Phases : body[t] = p => complete'[p] /\ p < first,
           \A q \in 1 .. first - 1 : complete'[q],
           Goes(t, complete', first, last)
    PROVE  /\ Inv'
           /\ \A p \in Phases : Begins(t, p) =>
                 /\ p \notin begun[t]
                 /\ \A q \in 1 .. p - 1 : complete'[q]
                 /\ \A u \in Callers : begun[u] \subseteq 1 .. p
           /\ \A u \in Callers \ {t} : body'[u] = body[u]
           /\ body'[t] = None => \A q \in 1 .. last : complete'[q]
<1> TypeOK /\ Prefix /\ BegunInOrder /\ InsideIsBegun
  BY DEF Inv
<1>1. CASE /\ \A q \in first .. last : complete'[q]
           /\ body' = [body EXCEPT ![t] = None]
           /\ goal' = [goal EXCEPT ![t] = None]
           /\ UNCHANGED begun
  <2>1. TypeOK'
    BY <1>1 DEF TypeOK, None, Phases
  <2>2. BegunInOrder'
    BY <1>1 DEF BegunInOrder, TypeOK, Phases
  <2>3. InsideIsBegun'
    BY <1>1 DEF InsideIsBegun, TypeOK
  <2>4. ~ \E p \in Phases : Begins(t, p)
    BY <1>1 DEF Begins, TypeOK, None, Phases
  <2>5. \A q \in 1 .. last : complete'[q]
    BY <1>1 DEF Phases
  <2>6. QED
    BY <1>1, <2>1, <2>2, <2>3, <2>4, <2>5 DEF Inv, TypeOK
<1>2. ASSUME NEW p \in first .. last,
             ~complete'[p],
             \A q \in first .. p - 1 : complete'[q],
             body' = [body EXCEPT ![t] = p],
             begun' = [begun EXCEPT ![t] = @ \cup {p}],
             goal' = [goal EXCEPT ![t] = last]
      PROVE  /\ Inv'
             /\ \A u \in Callers \ {t} : body'[u] = body[u]
             /\ body'[t] = p /\ p # None
             /\ p \notin begun[t]
             /\ \A q \in 1 .. p - 1 : complete'[q]
             /\ \A u \in Callers : begun[u] \subseteq 1 .. p
  <2>1. p \in Phases /\ p # None
    BY DEF Phases, None
  <2>2. \A q \in 1 .. p - 1 : complete'[q]
    BY <1>2 DEF Phases
  <2>3. body'[t] = p /\ \A u \in Callers \ {t} : body'[u] = body[u]
    BY <1>2 DEF TypeOK
  <2>4. p \notin begun[t]
    BY <1>2, <2>1 DEF BegunInOrder
  <2>5. ASSUME NEW u \in Callers, NEW r \in begun[u] PROVE r \in 1 .. p
    <3>1. r \in Phases /\ \A q \in 1 .. r - 1 : complete[q]
      BY DEF BegunInOrder, TypeOK
    <3>2. r <= p
      BY <1>2, <2>1, <3>1 DEF Phases
    <3>3. QED
      BY <3>1, <3>2, <2>1 DEF Phases
  <2>6. TypeOK'
    BY <1>2, <2>1 DEF TypeOK, Phases
  <2>7. BegunInOrder'
    <3> SUFFICES ASSUME NEW u \in Callers, NEW r \in begun'[u]
                 PROVE  /\ complete'[r] \/ body'[u] = r
                        /\ \A q \in 1 .. r - 1 : complete'[q]
      BY DEF BegunInOrder
    <3>1. CASE u = t /\ r = p
      BY <3>1, <2>2, <2>3
    <3>2. CASE r \in begun[u]
      <4>1. r \in Phases /\ (complete[r] \/ body[u] = r) /\ \A q \in 1 .. r - 1 : complete[q]
        BY <3>2 DEF BegunInOrder, TypeOK
      <4>2. \A q \in 1 .. r - 1 : q \in Phases
        BY <4>1 DEF Phases
      <4>3. QED
        BY <4>1, <4>2, <2>3
    <3>3. QED
      BY <1>2, <3>1, <3>2 DEF TypeOK
  <2>8. InsideIsBegun'
    BY <1>2 DEF InsideIsBegun, TypeOK
  <2>9. QED
    BY <2>1, <2>2, <2>3, <2>4, <2>5, <2>6, <2>7, <2>8 DEF Inv
<1>3. QED
  <2>1. CASE \A q \in first .. last : complete'[q]
    BY <1>1, <1>2, <2>1 DEF Goes
  <2>2. CASE \E q \in first .. last : ~complete'[q]
    <3>1. PICK p \in first .. last :
              /\ ~complete'[p]
              /\ \A q \in first .. p - 1 : complete'[q]
              /\ body' = [body EXCEPT ![t] = p]
              /\ begun' = [begun EXCEPT ![t] = @ \cup {p}]
              /\ goal' = [goal EXCEPT ![t] = last]
      BY <2>2 DEF Goes
    <3>2. /\ Inv'
          /\ \A u \in Callers \ {t} : body'[u] = body[u]
          /\ body'[t] = p /\ p # None
          /\ p \notin begun[t]
          /\ \A q \in 1 .. p - 1 : complete'[q]
          /\ \A u \in Callers : begun[u] \subseteq 1 .. p
      BY <1>2, <3>1
    <3>3. QED
      BY <3>2 DEF Begins
  <2>3. QED
    BY <2>1, <2>2

\* One step of the environment, with everything the theorems say of it.
LEMMA NextKeeps ==
    ASSUME Inv, [Next]_vars
    PROVE  /\ Inv'
           /\ \A t \in Callers, p \in Phases : Begins(t, p) =>
                 /\ p \notin begun[t]
                 /\ \A q \in 1 .. p - 1 : complete'[q]
                 /\ \A u \in Callers : begun[u] \subseteq 1 .. p
           /\ \A t \in Callers : body[t] # None /\ body'[t] = None =>
                 \A q \in 1 .. goal[t] : complete'[q]
<1> DEFINE Beginnings ==
        \A t \in Callers, p \in Phases : Begins(t, p) =>
            /\ p \notin begun[t]
            /\ \A q \in 1 .. p - 1 : complete'[q]
            /\ \A u \in Callers : begun[u] \subseteq 1 .. p
<1> DEFINE Returns ==
        \A t \in Callers : body[t] # None /\ body'[t] = None =>
            \A q \in 1 .. goal[t] : complete'[q]
<1> SUFFICES Inv' /\ Beginnings /\ Returns
  OBVIOUS
<1> TypeOK /\ Prefix /\ BegunInOrder /\ InsideIsBegun
  BY DEF Inv
<1>1. ASSUME NEW t \in Callers, BodyReturns(t) PROVE Inv' /\ Beginnings /\ Returns
  <2> DEFINE b == body[t]
  <2>1. b \in Phases /\ goal[t] \in Phases /\ b <= goal[t] /\ b + 1 \in 1 .. 9
    BY <1>1 DEF BodyReturns, TypeOK, Phases, None
  <2>2. complete' = [complete EXCEPT ![b] = TRUE] /\ Goes(t, complete', b + 1, goal[t])
    BY <1>1 DEF BodyReturns
  <2>3. \A q \in 1 .. b - 1 : complete[q]
    BY <2>1 DEF InsideIsBegun, BegunInOrder, None, Phases
  <2>4. /\ complete' \in [Phases -> BOOLEAN]
        /\ \A p \in Phases : complete[p] => complete'[p]
        /\ \A p \in Phases : body[t] = p => complete'[p] /\ p < b + 1
        /\ \A q \in 1 .. (b + 1) - 1 : complete'[q]
    BY <2>1, <2>2, <2>3 DEF TypeOK, Phases
  <2>5. Prefix'
    BY <2>1, <2>2, <2>3 DEF Prefix, TypeOK, Phases
  <2> HIDE DEF b
  <2>6. /\ Inv'
        /\ \A p \in Phases : Begins(t, p) =>
              /\ p \notin begun[t]
              /\ \A q \in 1 .. p - 1 : complete'[q]
              /\ \A u \in Callers : begun[u] \subseteq 1 .. p
        /\ \A u \in Callers \ {t} : body'[u] = body[u]
        /\ body'[t] = None => \A q \in 1 .. goal[t] : complete'[q]
    BY <2>1, <2>2, <2>4, <2>5, GoesOn
  <2>7. QED
    BY <2>6 DEF Begins
<1>2. ASSUME NEW t \in Callers, NEW goalPhase \in Phases, Step(t, goalPhase)
      PROVE  Inv' /\ Beginnings /\ Returns
  <2>1. PICK q \in Phases : Descends(q, complete, goalPhase) /\ Goes(t, complete, q, goalPhase)
    BY <1>2 DEF Step
  <2>2. complete' = complete /\ body[t] = None
    BY <1>2 DEF Step
  <2>3. q \in 1 .. 9 /\ \A r \in 1 .. q - 1 : complete[r]
    BY <2>1 DEF Descends, Prefix, Phases
  <2>4. /\ complete' \in [Phases -> BOOLEAN]
        /\ \A p \in Phases : complete[p] => complete'[p]
        /\ \A p \in Phases : body[t] = p => complete'[p] /\ p < q
        /\ \A r \in 1 .. q - 1 : complete'[r]
        /\ Prefix'
    BY <2>2, <2>3 DEF TypeOK, Phases, None, Prefix
  <2>5. Goes(t, complete', q, goalPhase)
    BY <2>1, <2>2
  <2>6. /\ Inv'
        /\ \A p \in Phases : Begins(t, p) =>
              /\ p \notin begun[t]
              /\ \A r \in 1 .. p - 1 : complete'[r]
              /\ \A u \in Callers : begun[u] \subseteq 1 .. p
        /\ \A u \in Callers \ {t} : body'[u] = body[u]
    BY <2>3, <2>4, <2>5, GoesOn
  <2>7. QED
    BY <2>2, <2>6 DEF Begins
<1>3. CASE UNCHANGED vars
  BY <1>3 DEF vars, Inv, TypeOK, Prefix, BegunInOrder, InsideIsBegun, Begins
<1>4. QED
  BY <1>1, <1>2, <1>3 DEF Next

\* The invariant of the phases holds at the start.
LEMMA EnvInit == Init => Inv
  BY DEF Init, Inv, TypeOK, Prefix, BegunInOrder, InsideIsBegun, Phases, None

\* The flags, the nested calls and the history are well formed.
THEOREM TypeCorrect == Spec => []TypeOK
<1>1. Inv => TypeOK
  BY DEF Inv
<1>2. Inv /\ [Next]_vars => Inv'
  BY NextKeeps
<1>3. QED
  BY <1>1, <1>2, EnvInit, PTL DEF Spec

\* Phases begin in their order, whatever steps any number of threads call and
\* however the bodies interleave.
THEOREM OrderTheorem == Spec => PhasesInOrder
<1>1. Inv /\ [Next]_vars => Inv'
  BY NextKeeps
<1>2. Inv /\ [Next]_vars =>
        [\A t \in Callers, p \in Phases :
            Begins(t, p) => /\ \A q \in 1 .. p - 1 : complete'[q]
                            /\ \A u \in Callers : begun[u] \subseteq 1 .. p]_vars
  BY NextKeeps
<1>3. QED
  BY <1>1, <1>2, EnvInit, PTL DEF Spec, PhasesInOrder

\* No thread begins a phase twice.
THEOREM OnceTheorem == Spec => OncePerCaller
<1>1. Inv /\ [Next]_vars => Inv'
  BY NextKeeps
<1>2. Inv /\ [Next]_vars =>
        [\A t \in Callers, p \in Phases : Begins(t, p) => p \notin begun[t]]_vars
  BY NextKeeps
<1>3. QED
  BY <1>1, <1>2, EnvInit, PTL DEF Spec, OncePerCaller

\* A step that returns leaves its phase and all phases before it complete.
THEOREM ReturnTheorem == Spec => ReturnsComplete
<1>1. Inv /\ [Next]_vars => Inv'
  BY NextKeeps
<1>2. Inv /\ [Next]_vars =>
        [\A t \in Callers :
            body[t] # None /\ body'[t] = None =>
                \A q \in 1 .. goal[t] : complete'[q]]_vars
  BY NextKeeps
<1>3. QED
  BY <1>1, <1>2, EnvInit, PTL DEF Spec, ReturnsComplete
=============================================================================
