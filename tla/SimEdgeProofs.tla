--------------------------- MODULE SimEdgeProofs ----------------------------
(***************************************************************************)
(* What wait promises, for every set of threads and signals, to a test     *)
(* bench: a program that deletes only threads that are over and waits only *)
(* for signals the simulator changes.  A thread returns from wait because  *)
(* its edge has occurred, never else; no edge is missed; the registered    *)
(* callbacks are those of the waits in progress; and no callback meets a   *)
(* frame that is gone.                                                     *)
(***************************************************************************)
EXTENDS SimCountProofs

\* The assumption on the program.
Bench == DeleteLive = FALSE /\ Watched \cap Driven = {}

-----------------------------------------------------------------------------
(* The queue *)

\* No agent has two turns to come.
OneTurn == /\ running \notin Queued
           /\ \A i, j \in DOMAIN ready : ready[i] = ready[j] => i = j

\* Only threads that have been spawned have one.
TurnsBorn == \A u \in Queued \cup {running} : at[u] # "unborn"

\* A thread inside wait has one only if there is a message in its port.
TurnsAwake ==
    \A t \in Threads : t \in Queued \cup {running} /\ at[t] = "wait" => port[t] > 0

QueueInv == TypeInv /\ DeletedDead /\ OneTurn /\ TurnsBorn /\ TurnsAwake

-----------------------------------------------------------------------------
(* Waits and callbacks *)

\* w is a wait in progress whose thread has not been triggered.
Pending(w) == at[Thr(w)] = "wait" /\ slot[Thr(w)] = w[2] /\ port[Thr(w)] = 0

\* User threads run no callbacks: they change no signal that is waited for.
SimCallsBack == \A t \in Threads : at[t] \notin {"trigger", "waitAll"} /\ todo[t] = {}

\* A message is in a port only once, during the wait it is meant for, and after
\* the edge of that wait.
MessagesMeant ==
    \A t \in Threads : port[t] # 0 => port[t] = 1 /\ at[t] = "wait" /\ met[t]

\* What is registered is pending, or is about to be unregistered.
RegisteredWait ==
    \A w \in registered : /\ cond[w].sig \in Watched
                          /\ Pending(w) \/ (at[Sim] = "trigger" /\ w = current[Sim])

WaitRegistered ==
    \A t \in Threads : at[t] = "wait" /\ port[t] = 0 => <<t, slot[t]>> \in registered

Removed == at[Sim] = "trigger" => current[Sim] \in registered /\ ~Pending(current[Sim])

TodoPending ==
    /\ at[Sim] = "code" => todo[Sim] = {}
    /\ \A w \in todo[Sim] : w \in registered /\ Pending(w)

\* A condition whose callback is still to run will find out whether its edge has
\* occurred; any other has not seen it, and knows the signal's value.
ConditionsKnow ==
    \A t \in Threads : at[t] = "wait" /\ port[t] = 0 =>
        LET w == <<t, slot[t]>>
            c == cond[w]
        IN  IF w \in todo[Sim]
              THEN met[t] <=> Edge(c.op, c.last, val[c.sig])
              ELSE ~met[t] /\ (c.op # "change" => c.last = val[c.sig])

WaitInv ==
    /\ SimCallsBack /\ MessagesMeant
    /\ RegisteredWait /\ WaitRegistered /\ Removed
    /\ TodoPending /\ ConditionsKnow
    /\ NoStrayWakeup

EdgeInv == QueueInv /\ WaitInv

-----------------------------------------------------------------------------
(* The queue keeps its promises *)

\* An order names each member once.
LEMMA OrderIsInjective ==
    ASSUME NEW S, IsFiniteSet(S), NEW order \in Orders(S)
    PROVE  \A i, j \in DOMAIN order : order[i] = order[j] => i = j
<1>1. Cardinality(S) \in Nat
  BY FS_CardinalityType
<1>2. IsFiniteSet(1 .. Cardinality(S)) /\ Cardinality(1 .. Cardinality(S)) = Cardinality(S)
  BY <1>1, FS_Interval
<1>3. order \in Surjection(1 .. Cardinality(S), S)
  BY DEF Orders, Surjection
<1>4. order \in Injection(1 .. Cardinality(S), S)
  BY <1>2, <1>3, FS_SurjSameCardinalityImpliesInj, Zenon
<1> QED
  BY <1>4 DEF Injection, IsInjective

\* Two sequences without repetition and without a common member, one after the
\* other: the head is not in the tail, and the tail has no repetition.
LEMMA DispatchOnce ==
    ASSUME NEW S, NEW q \in Seq(S), NEW r \in Seq(S), q \o r # <<>>,
           \A i, j \in DOMAIN q : q[i] = q[j] => i = j,
           \A i, j \in DOMAIN r : r[i] = r[j] => i = j,
           \A i \in DOMAIN q, j \in DOMAIN r : q[i] # r[j]
    PROVE  /\ \A i \in DOMAIN Tail(q \o r) : Tail(q \o r)[i] # Head(q \o r)
           /\ \A i, j \in DOMAIN Tail(q \o r) : Tail(q \o r)[i] = Tail(q \o r)[j] => i = j
<1> DEFINE s == q \o r
<1>1. /\ s \in Seq(S) /\ s # <<>> /\ Len(s) = Len(q) + Len(r) /\ Len(s) \in Nat
      /\ Len(q) \in Nat /\ Len(r) \in Nat
      /\ \A i \in 1 .. Len(s) : i <= Len(q) => s[i] = q[i]
      /\ \A i \in 1 .. Len(s) : i > Len(q) => s[i] = r[i - Len(q)]
  OBVIOUS
<1>2. /\ Head(s) = s[1]
      /\ DOMAIN Tail(s) = 1 .. Len(s) - 1
      /\ \A i \in 1 .. Len(s) - 1 : Tail(s)[i] = s[i + 1]
  BY <1>1
<1>3. \A i, j \in 1 .. Len(s) : s[i] = s[j] => i = j
  <2> HIDE DEF s
  <2> SUFFICES ASSUME NEW i \in 1 .. Len(s), NEW j \in 1 .. Len(s), s[i] = s[j]
               PROVE  i = j
    OBVIOUS
  <2>1. CASE i <= Len(q) /\ j <= Len(q)
    <3>1. i \in DOMAIN q /\ j \in DOMAIN q /\ q[i] = q[j]
      BY <1>1, <2>1
    <3> QED
      BY <3>1
  <2>2. CASE i > Len(q) /\ j > Len(q)
    <3>1. i - Len(q) \in DOMAIN r /\ j - Len(q) \in DOMAIN r /\ r[i - Len(q)] = r[j - Len(q)]
      BY <1>1, <2>2
    <3>2. i - Len(q) = j - Len(q)
      BY <3>1
    <3> QED
      BY <1>1, <3>2
  <2>3. CASE i <= Len(q) /\ j > Len(q)
    <3>1. i \in DOMAIN q /\ j - Len(q) \in DOMAIN r /\ q[i] = r[j - Len(q)]
      BY <1>1, <2>3
    <3> QED
      BY <3>1
  <2>4. CASE i > Len(q) /\ j <= Len(q)
    <3>1. j \in DOMAIN q /\ i - Len(q) \in DOMAIN r /\ q[j] = r[i - Len(q)]
      BY <1>1, <2>4
    <3> QED
      BY <3>1
  <2> QED
    BY <1>1, <2>1, <2>2, <2>3, <2>4
<1> HIDE DEF s
<1>4. \A i \in DOMAIN Tail(s) : Tail(s)[i] # Head(s)
  <2> SUFFICES ASSUME NEW i \in 1 .. Len(s) - 1, s[i + 1] = s[1] PROVE FALSE
    BY <1>2
  <2>1. i + 1 \in 1 .. Len(s) /\ 1 \in 1 .. Len(s) /\ i + 1 # 1
    BY <1>1
  <2> QED
    BY <1>3, <2>1
<1>5. \A i, j \in DOMAIN Tail(s) : Tail(s)[i] = Tail(s)[j] => i = j
  <2> SUFFICES ASSUME NEW i \in 1 .. Len(s) - 1, NEW j \in 1 .. Len(s) - 1, s[i + 1] = s[j + 1]
               PROVE  i = j
    BY <1>2
  <2>1. i + 1 \in 1 .. Len(s) /\ j + 1 \in 1 .. Len(s)
    BY <1>1
  <2>2. i + 1 = j + 1
    BY <1>3, <2>1
  <2> QED
    BY <1>1, <2>2
<1> QED
  BY <1>4, <1>5 DEF s

\* After a switch no agent has two turns to come either.
LEMMA SwitchOnce ==
    ASSUME ready \in Seq(Agents), OneTurn, NEW back \in SUBSET {running}, running \in Agents,
           Switch(back), Sim \in Queued \cup back
    PROVE  OneTurn'
<1> DEFINE woken == {u \in Threads \ Queued : at'[u] \in Sleep /\ EventOccurred(u)'}
<1>1. IsFiniteSet(woken \cup back) /\ woken \cup back \subseteq Agents
  <2>1. IsFiniteSet(Agents)
    BY SimThreadAssumption, FS_AddElement DEF Agents
  <2>2. woken \cup back \subseteq Agents
    BY DEF Agents
  <2> QED
    BY <2>1, <2>2, FS_Subset
<1>2. PICK order \in Orders(woken \cup back) :
          running' = Head(ready \o order) /\ ready' = Tail(ready \o order)
  BY Zenon DEF Switch
<1>3. /\ order \in Seq(woken \cup back)
      /\ \A x : x \in woken \cup back <=> \E i \in DOMAIN order : order[i] = x
      /\ \A i, j \in DOMAIN order : order[i] = order[j] => i = j
  BY <1>1, <1>2, OrderIsSequence, OrderIsInjective
<1>4. order \in Seq(Agents)
  BY <1>1, <1>3
<1>5. ready \o order # <<>>
  <2>1. (\E i \in DOMAIN ready : TRUE) \/ (\E i \in DOMAIN order : TRUE)
    BY <1>3 DEF Queued
  <2> QED
    BY <2>1, <1>4
<1>6. \A x \in woken \cup back : x \notin Queued
  BY DEF OneTurn
<1>7. \A i \in DOMAIN ready, j \in DOMAIN order : ready[i] # order[j]
  <2> SUFFICES ASSUME NEW i \in DOMAIN ready, NEW j \in DOMAIN order, ready[i] = order[j]
               PROVE  FALSE
    OBVIOUS
  <2>1. order[j] \in woken \cup back /\ ready[i] \in Queued
    BY <1>3 DEF Queued
  <2> QED
    BY <1>6, <2>1
<1> HIDE DEF woken
<1>8. \A i, j \in DOMAIN ready : ready[i] = ready[j] => i = j
  BY DEF OneTurn
<1>9. /\ \A i \in DOMAIN Tail(ready \o order) : Tail(ready \o order)[i] # Head(ready \o order)
      /\ \A i, j \in DOMAIN Tail(ready \o order) :
             Tail(ready \o order)[i] = Tail(ready \o order)[j] => i = j
  BY <1>3, <1>4, <1>5, <1>7, <1>8, DispatchOnce, Zenon
<1> QED
  BY <1>2, <1>9, Zenon DEF OneTurn, Queued

\* A switch by an agent that is queued again, sleeps or ends.
LEMMA SwitchQueue ==
    ASSUME QueueInv, NEW a \in Agents, running = a, NEW back \in SUBSET {a}, Switch(back),
           a # Sim \/ back = {a}, DeletedDead',
           NEW p \in Places \ {"unborn"}, a \in back => p # "wait",
           at' = [at EXCEPT ![a] = p], \A u \in Threads : port[u] > 0 => port'[u] > 0
    PROVE  OneTurn' /\ TurnsBorn' /\ TurnsAwake'
<1> USE SimThreadAssumption
<1>1. /\ ready \in Seq(Agents) /\ at \in [Agents -> Places] /\ OneTurn /\ running \in Agents
      /\ Threads \subseteq Agents /\ back \in SUBSET Agents /\ Sim \in Queued \cup back
  BY DEF QueueInv, TypeInv, TypeOK, Agents, SimInTurn
<1>2. OneTurn'
  BY <1>1, SwitchOnce
<1>3. \A u : u \in Queued' \cup {running'} <=>
          \/ u \in Queued \cup back
          \/ u \in Threads \ Queued /\ at'[u] \in Sleep /\ EventOccurred(u)'
  BY <1>1, SwitchLemma, Zenon
<1>4. TurnsBorn'
  <2> SUFFICES ASSUME NEW u \in Queued' \cup {running'} PROVE at'[u] # "unborn"
    BY DEF TurnsBorn
  <2>1. u \in Agents /\ (u \in Queued => at[u] # "unborn")
    BY <1>1, <1>3 DEF QueueInv, TurnsBorn, Queued
  <2> QED
    BY <1>1, <1>3, <2>1 DEF Sleep
<1>5. TurnsAwake'
  <2> SUFFICES ASSUME NEW u \in Threads, u \in Queued' \cup {running'}, at'[u] = "wait"
               PROVE  port'[u] > 0
    BY DEF TurnsAwake
  <2>1. CASE u \in Queued
    <3>1. u # a /\ at[u] = "wait"
      BY <1>1, <2>1 DEF OneTurn
    <3> QED
      BY <2>1, <3>1 DEF QueueInv, TurnsAwake
  <2>2. CASE u \in back
    BY <1>1, <2>2
  <2>3. CASE EventOccurred(u)'
    BY <2>3 DEF EventOccurred, DeletedDead, Dead
  <2> QED
    BY <1>3, <2>1, <2>2, <2>3
<1> QED
  BY <1>2, <1>4, <1>5

\* Whoever has the processor goes on, to another place than wait.
LEMMA MoveQueue ==
    ASSUME QueueInv, NEW a \in Agents, running = a, running' = running, ready' = ready,
           NEW p \in Places \ {"unborn", "wait"},
           at' = at \/ at' = [at EXCEPT ![a] = p],
           port' = port \/ (port' = [port EXCEPT ![a] = 0] /\ at' # at)
    PROVE  OneTurn' /\ TurnsBorn' /\ TurnsAwake'
<1>1. /\ ready \in Seq(Agents) /\ at \in [Agents -> Places] /\ running \in Agents
      /\ Threads \subseteq Agents /\ Queued' = Queued /\ Queued \subseteq Agents
      /\ port \in [Threads -> 0 .. 2]
  BY DEF QueueInv, TypeInv, TypeOK, Agents, Queued
<1>2. OneTurn'
  BY <1>1 DEF QueueInv, OneTurn
<1>3. TurnsBorn' /\ TurnsAwake'
  BY <1>1 DEF QueueInv, TurnsBorn, TurnsAwake
<1> QED
  BY <1>2, <1>3

\* A new thread joins the queue behind everybody else.
LEMMA SpawnQueue ==
    ASSUME QueueInv, NEW t \in Threads, NEW u \in Threads, Spawn(t, u)
    PROVE  OneTurn' /\ TurnsBorn' /\ TurnsAwake'
<1>1. /\ ready \in Seq(Agents) /\ at \in [Agents -> Places] /\ u \in Agents
      /\ at[u] = "unborn" /\ at' = [at EXCEPT ![u] = "code"]
      /\ ready' = Append(ready, u) /\ running' = running /\ port' = port
  BY DEF QueueInv, TypeInv, TypeOK, Agents, Spawn, AddThread
<1>2. u \notin Queued \cup {running}
  BY <1>1 DEF QueueInv, TurnsBorn
<1>3. /\ DOMAIN ready' = 1 .. Len(ready) + 1 /\ DOMAIN ready = 1 .. Len(ready) /\ Len(ready) \in Nat
      /\ \A i \in 1 .. Len(ready) : ready'[i] = ready[i]
      /\ ready'[Len(ready) + 1] = u
  BY <1>1
<1>4. Queued' = Queued \cup {u}
  <2>1. ASSUME NEW x \in Queued' PROVE x \in Queued \cup {u}
    BY <1>3, <2>1 DEF Queued
  <2>2. ASSUME NEW x \in Queued \cup {u} PROVE x \in Queued'
    <3>1. \E i \in DOMAIN ready' : ready'[i] = x
      BY <1>3, <2>2 DEF Queued
    <3> QED
      BY <3>1 DEF Queued
  <2> QED
    BY <2>1, <2>2
<1>5. OneTurn'
  <2>1. \A i \in 1 .. Len(ready) : ready[i] # u
    BY <1>2, <1>3 DEF Queued
  <2>2. \A i, j \in DOMAIN ready' : ready'[i] = ready'[j] => i = j
    BY <1>3, <2>1 DEF QueueInv, OneTurn
  <2> QED
    BY <1>1, <1>2, <1>4, <2>2 DEF QueueInv, OneTurn
<1>6. TurnsBorn' /\ TurnsAwake'
  BY <1>1, <1>4 DEF QueueInv, TurnsBorn, TurnsAwake, Agents
<1> QED
  BY <1>5, <1>6

\* The steps of a user thread outside the interface keep the queue in order.
LEMMA ThreadQueue ==
    ASSUME QueueInv, DeletedDead', NEW t \in Threads, NEW u \in Threads,
           \/ Resume(t) \/ JoinReturn(t) \/ Cancelled(t) \/ Finish(t) \/ Orphan(t)
           \/ Yield(t) \/ Spawn(t, u) \/ Join(t, u) \/ Delete(t, u) \/ DeleteUnborn(t, u)
    PROVE  OneTurn' /\ TurnsBorn' /\ TurnsAwake'
<1> USE SimThreadAssumption
<1>1. /\ t \in Agents /\ t # Sim /\ at \in [Agents -> Places] /\ running = t
  BY DEF QueueInv, TypeInv, TypeOK, Agents, Resume, JoinReturn, Cancelled, Finish, Orphan,
         Yield, Spawn, Join, Delete, DeleteUnborn, On
<1>2. {"code", "join", "cancelled", "finished"} \subseteq Places \ {"unborn", "wait"}
  BY DEF Places, Busy, Sleep, Dead
<1>3. CASE Resume(t) \/ JoinReturn(t)
  <2>1. /\ running' = running /\ ready' = ready /\ (at' = at \/ at' = [at EXCEPT ![t] = "code"])
        /\ port' = port \/ (port' = [port EXCEPT ![t] = 0] /\ at' # at)
    BY <1>1, <1>3 DEF Resume, JoinReturn, Crash, On
  <2>2. "code" \in Places \ {"unborn", "wait"}
    BY <1>2
  <2> QED
    BY <1>1, <2>1, <2>2, MoveQueue
<1>4. CASE Cancelled(t) \/ Yield(t) \/ Join(t, u) \/ (Finish(t) /\ at' # at)
  <2>1. \E back \in SUBSET {t}, p \in {"cancelled", "code", "join", "finished"} :
            Switch(back) /\ at' = [at EXCEPT ![t] = p] /\ port' = port
    BY <1>1, <1>4 DEF Cancelled, Yield, Join, Finish, On
  <2> QED
    BY <1>1, <1>2, <2>1, SwitchQueue
<1>5. CASE Finish(t) /\ at' = at
  <2>1. running' = running /\ ready' = ready /\ port' = port
    BY <1>1, <1>5 DEF Finish, On
  <2> QED
    BY <1>1, <1>2, <1>5, <2>1, MoveQueue
<1>6. CASE Spawn(t, u)
  BY <1>6, SpawnQueue
<1>7. CASE Orphan(t) \/ Delete(t, u) \/ DeleteUnborn(t, u)
  BY <1>1, <1>2, <1>7, MoveQueue DEF Orphan, Delete, DeleteUnborn, Crash
<1> QED
  BY <1>3, <1>4, <1>5, <1>6, <1>7

\* The steps inside a simulator callback keep the queue in order.
LEMMA CallbackQueue ==
    ASSUME QueueInv, DeletedDead', NEW a \in Agents, Callback(a)
    PROVE  OneTurn' /\ TurnsBorn' /\ TurnsAwake'
<1>1. at \in [Agents -> Places] /\ port \in [Threads -> 0 .. 2] /\ running = a
  BY DEF QueueInv, TypeInv, TypeOK, Callback, TestDangling, TestFalse, TestTrue,
         RemoveSimCallbacks, CallbacksDone, WaitAllThreadsBlocked, On
<1>2. Busy \subseteq Places \ {"unborn", "wait"}
  BY DEF Places, Busy
<1>3. CASE \E p \in Busy : /\ at' = at \/ at' = [at EXCEPT ![a] = p]
                           /\ running' = running /\ ready' = ready /\ port' = port
  BY <1>1, <1>2, <1>3, MoveQueue
<1>4. CASE \E p \in Busy : /\ at' = [at EXCEPT ![a] = p] /\ Switch({a})
                           /\ \A u \in Threads : port[u] > 0 => port'[u] > 0
  BY <1>1, <1>2, <1>4, SwitchQueue
<1>5. CASE TestTrue(a)
  <2>1. PICK w \in todo[a] \cap registered : Trigger(a, Thr(w))
    BY <1>5 DEF TestTrue
  <2>2. at' = [at EXCEPT ![a] = "trigger"] /\ Switch({a})
    BY <2>1 DEF Trigger
  <2>3. \A u \in Threads : port[u] > 0 => port'[u] > 0
    BY <1>1, <2>1 DEF Trigger
  <2> QED
    BY <1>4, <2>2, <2>3 DEF Busy
<1>6. CASE WaitAllThreadsBlocked(a)
  <2>1. CASE ready = <<>>
    BY <1>3, <1>6, <2>1 DEF WaitAllThreadsBlocked, Busy
  <2>2. CASE ready # <<>> /\ UNCHANGED <<running, ready>>
    BY <1>3, <1>6, <2>2 DEF WaitAllThreadsBlocked, Busy
  <2>3. CASE ready # <<>> /\ Switch({a})
    <3>1. at[a] = "waitAll" /\ at' = at /\ port' = port
      BY <1>6, <2>3 DEF WaitAllThreadsBlocked, On
    <3>2. at' = [at EXCEPT ![a] = "waitAll"]
      BY <1>1, <3>1
    <3> QED
      BY <1>4, <2>3, <3>1, <3>2 DEF Busy
  <2> QED
    BY <1>6, <2>1, <2>2, <2>3 DEF WaitAllThreadsBlocked
<1>7. CASE TestDangling(a) \/ TestFalse(a) \/ RemoveSimCallbacks(a) \/ CallbacksDone(a)
  BY <1>3, <1>7 DEF TestDangling, TestFalse, RemoveSimCallbacks, CallbacksDone, Crash,
                    EnterWaitAll, Busy
<1> QED
  BY <1>5, <1>6, <1>7 DEF Callback

\* The invariant of the queue is inductive.
LEMMA QueueStep ==
    ASSUME DeleteLive = FALSE, QueueInv, [Next]_vars
    PROVE  QueueInv'
<1> USE SimThreadAssumption
<1>1. TypeInv' /\ DeletedDead'
  BY TypeStep, DeadStep DEF QueueInv, TypeInv
<1> SUFFICES OneTurn' /\ TurnsBorn' /\ TurnsAwake'
  BY <1>1 DEF QueueInv
<1>2. ASSUME NEW a \in Agents, NEW s, NEW v, ChangeValue(a, s, v)
      PROVE  OneTurn' /\ TurnsBorn' /\ TurnsAwake'
  <2>1. "callbacks" \in Places \ {"unborn", "wait"}
    BY DEF Places, Busy
  <2> QED
    BY <1>2, <2>1, MoveQueue DEF ChangeValue, On
<1>3. ASSUME NEW s \in Clocked, NEW v \in {"0", "1"}, Tick(s, v)
      PROVE  OneTurn' /\ TurnsBorn' /\ TurnsAwake'
  BY <1>2, <1>3 DEF Tick, Agents
<1>4. ASSUME NEW a \in Agents, Callback(a) PROVE OneTurn' /\ TurnsBorn' /\ TurnsAwake'
  BY <1>1, <1>4, CallbackQueue
<1>5. ASSUME NEW t \in Threads, Wakeup(t) PROVE OneTurn' /\ TurnsBorn' /\ TurnsAwake'
  BY <1>1, <1>5, ThreadQueue DEF Wakeup
<1>6. ASSUME NEW t \in Threads, Block(t) PROVE OneTurn' /\ TurnsBorn' /\ TurnsAwake'
  <2>1. ASSUME NEW op \in Ops, NEW s \in Watched, Wait(t, op, s)
        PROVE  OneTurn' /\ TurnsBorn' /\ TurnsAwake'
    <3>1. /\ t \in Agents /\ running = t /\ t # Sim /\ Switch({})
          /\ at' = [at EXCEPT ![t] = "wait"] /\ port' = port
      BY <2>1 DEF Wait, SleepOnPort, On, Agents
    <3>2. "wait" \in Places \ {"unborn"} /\ {} \in SUBSET {t} /\ t \notin {}
      BY DEF Places, Sleep
    <3>3. \A u \in Threads : port[u] > 0 => port'[u] > 0
      BY <3>1
    <3> HIDE SimThreadAssumption
    <3> QED
      BY <1>1, <3>1, <3>2, <3>3, SwitchQueue
  <2> QED
    BY <1>1, <1>6, <2>1, ThreadQueue DEF Block
<1>7. ASSUME NEW t \in Threads, UserStep(t) PROVE OneTurn' /\ TurnsBorn' /\ TurnsAwake'
  <2>1. ASSUME NEW s \in Driven, NEW v \in {"0", "1"}, Drive(t, s, v)
        PROVE  OneTurn' /\ TurnsBorn' /\ TurnsAwake'
    BY <1>2, <2>1 DEF Drive, Agents
  <2> QED
    BY <1>1, <1>7, <2>1, ThreadQueue DEF UserStep
<1>8. CASE UNCHANGED vars
  BY <1>8 DEF vars, threadVars, QueueInv, OneTurn, TurnsBorn, TurnsAwake, Queued
<1> QED
  BY <1>3, <1>4, <1>5, <1>6, <1>7, <1>8 DEF Next

-----------------------------------------------------------------------------
(* The waits keep theirs *)

\* A step that begins no wait, triggers nobody and ends no wait but those that
\* have been triggered, runs no test, and changes no signal that is waited for.
LEMMA OthersStep ==
    ASSUME EdgeInv, TypeOK',
           \A t \in Threads : /\ at'[t] = "wait" /\ port'[t] = 0 <=> at[t] = "wait" /\ port[t] = 0
                              /\ at'[t] \notin {"trigger", "waitAll"}
                              /\ port'[t] # 0 => port'[t] = port[t] /\ at'[t] = at[t]
                              /\ at'[t] = "wait" => met'[t] = met[t],
           UNCHANGED <<registered, cond, current, slot>>,
           at'[Sim] = "trigger" <=> at[Sim] = "trigger",
           at'[Sim] = "code" => todo[Sim] = {},
           todo'[Sim] = todo[Sim], \A t \in Threads : todo'[t] = {},
           \A s \in Watched : val'[s] = val[s],
           outcome' \notin {"undefined", "drain"}
    PROVE  WaitInv'
<1>1. TypeOK /\ WaitInv
  BY DEF EdgeInv, QueueInv, TypeInv
<1>2. \A w \in registered : w \in Waits /\ Thr(w) \in Threads /\ cond[w].sig \in Watched
  BY <1>1 DEF TypeOK, Waits, Thr, WaitInv, RegisteredWait
<1>3. \A w \in Waits : Pending(w)' <=> Pending(w)
  BY DEF Pending, Waits, Thr
<1>4. SimCallsBack' /\ MessagesMeant' /\ NoStrayWakeup'
  BY <1>1 DEF WaitInv, SimCallsBack, MessagesMeant, NoStrayWakeup
<1>5. RegisteredWait' /\ WaitRegistered'
  BY <1>1, <1>2, <1>3 DEF WaitInv, RegisteredWait, WaitRegistered
<1>6. Removed' /\ TodoPending'
  BY <1>1, <1>2, <1>3 DEF WaitInv, Removed, TodoPending
<1>7. ConditionsKnow'
  <2> SUFFICES ASSUME NEW t \in Threads, at'[t] = "wait", port'[t] = 0
               PROVE  LET w == <<t, slot[t]>>
                          c == cond[w]
                      IN  IF w \in todo[Sim]
                            THEN met'[t] <=> Edge(c.op, c.last, val'[c.sig])
                            ELSE ~met'[t] /\ (c.op # "change" => c.last = val'[c.sig])
    BY DEF ConditionsKnow
  <2>1. at[t] = "wait" /\ port[t] = 0 /\ met'[t] = met[t]
    OBVIOUS
  <2>2. <<t, slot[t]>> \in registered
    BY <1>1, <2>1 DEF WaitInv, WaitRegistered
  <2>3. val'[cond[<<t, slot[t]>>].sig] = val[cond[<<t, slot[t]>>].sig]
    BY <1>2, <2>2
  <2> QED
    BY <1>1, <2>1, <2>3 DEF WaitInv, ConditionsKnow
<1> QED
  BY <1>4, <1>5, <1>6, <1>7 DEF WaitInv

\* The steps of a user thread keep conditions, callbacks and waits in agreement.
LEMMA ThreadWaits ==
    ASSUME Bench, EdgeInv, TypeOK', NEW t \in Threads, NEW u \in Threads,
           \/ Resume(t) \/ JoinReturn(t) \/ Cancelled(t) \/ Finish(t) \/ Orphan(t)
           \/ Yield(t) \/ Spawn(t, u) \/ Join(t, u) \/ Delete(t, u) \/ DeleteUnborn(t, u),
           met' = met \/ ((Resume(t) \/ JoinReturn(t)) /\ met' = [met EXCEPT ![t] = FALSE]),
           UNCHANGED <<val, cond, registered, todo, current, slot>>
    PROVE  WaitInv'
<1> USE SimThreadAssumption
<1>1. /\ at \in [Agents -> Places] /\ port \in [Threads -> 0 .. 2] /\ met \in [Threads -> BOOLEAN]
      /\ t \in Agents /\ Sim \in Agents /\ Threads \subseteq Agents /\ t # Sim
  BY DEF EdgeInv, QueueInv, TypeInv, TypeOK, Agents
<1>2. /\ SimCallsBack /\ MessagesMeant /\ NoStrayWakeup /\ (at[Sim] = "code" => todo[Sim] = {})
      /\ TurnsAwake /\ DeletedDead
  BY DEF EdgeInv, QueueInv, WaitInv, TodoPending
<1>3. /\ ~Cancelled(t) /\ ~Orphan(t) /\ ~DeleteUnborn(t, u)
  BY <1>2 DEF Cancelled, Orphan, DeleteUnborn, On, DeletedDead, Dead, Sleep, Bench
<1>4. /\ outcome' \in {"running", "assert"}
      /\ \A v \in Threads : /\ at'[v] = "wait" /\ port'[v] = 0 <=> at[v] = "wait" /\ port[v] = 0
                            /\ at'[v] \notin {"trigger", "waitAll"}
                            /\ port'[v] # 0 => port'[v] = port[v] /\ at'[v] = at[v]
                            /\ at'[v] = "wait" => met'[v] = met[v]
      /\ at'[Sim] = at[Sim]
  <2>1. CASE Resume(t)
    <3>1. running = t /\ at[t] = "wait" /\ port[t] = 1 /\ outcome = "running"
      BY <1>1, <1>2, <2>1 DEF Resume, On, TurnsAwake, MessagesMeant
    <3>2. /\ port' = [port EXCEPT ![t] = 0] /\ at' = [at EXCEPT ![t] = "code"] /\ outcome' = outcome
      BY <2>1, <3>1 DEF Resume
    <3>3. met' = met \/ met' = [met EXCEPT ![t] = FALSE]
      OBVIOUS
    <3> QED
      BY <1>1, <1>2, <3>1, <3>2, <3>3 DEF SimCallsBack
  <2>2. CASE ~Resume(t) /\ (JoinReturn(t) \/ Finish(t) \/ Join(t, u))
    <3>1. /\ port' = port /\ outcome = "running" /\ outcome' \in {outcome, "assert"}
          /\ at[t] \in {"join", "code"}
          /\ at' = at \/ \E p \in {"code", "join", "finished"} : at' = [at EXCEPT ![t] = p]
      BY <2>2 DEF JoinReturn, Finish, Join, On
    <3>2. met' = met \/ met' = [met EXCEPT ![t] = FALSE]
      OBVIOUS
    <3> QED
      BY <1>1, <1>2, <3>1, <3>2 DEF SimCallsBack, MessagesMeant
  <2>3. CASE Spawn(t, u)
    <3>1. /\ port' = port /\ outcome = "running" /\ outcome' = outcome /\ u # t
          /\ at[u] = "unborn" /\ at' = [at EXCEPT ![u] = "code"] /\ met' = met
      BY <1>1, <2>3 DEF Spawn, AddThread, On, Resume, JoinReturn
    <3> QED
      BY <1>1, <1>2, <3>1 DEF SimCallsBack, MessagesMeant
  <2>4. CASE Yield(t) \/ Delete(t, u)
    <3>1. UNCHANGED <<at, port, met>> /\ outcome = "running" /\ outcome' = outcome
      BY <2>4 DEF Yield, Delete, On, Resume, JoinReturn
    <3> QED
      BY <1>1, <1>2, <3>1 DEF SimCallsBack
  <2> QED
    BY <1>3, <2>1, <2>2, <2>3, <2>4
<1> QED
  BY <1>2, <1>4, OthersStep DEF SimCallsBack

\* A user thread drives a signal that nobody waits for.
LEMMA DriveWaits ==
    ASSUME Bench, EdgeInv, TypeOK', NEW t \in Threads, NEW s \in Driven, NEW v, Drive(t, s, v)
    PROVE  WaitInv'
<1> USE SimThreadAssumption
<1>1. /\ TypeOK /\ at \in [Agents -> Places] /\ t \in Agents /\ Sim \in Agents /\ t # Sim
      /\ Threads \subseteq Agents /\ todo \in [Agents -> SUBSET Waits] /\ val \in [Sigs -> Values]
  BY DEF EdgeInv, QueueInv, TypeInv, TypeOK, Agents
<1>2. WaitInv
  BY DEF EdgeInv
<1>3. {w \in registered : cond[w].sig = s} = {}
  BY <1>2 DEF WaitInv, RegisteredWait, Bench
<1>4. /\ at[t] = "code" /\ at' = [at EXCEPT ![t] = "callbacks"] /\ val' = [val EXCEPT ![s] = v]
      /\ todo' = [todo EXCEPT ![t] = {}] /\ outcome = "running"
      /\ UNCHANGED <<port, registered, cond, current, slot, outcome>>
  BY <1>3 DEF Drive, ChangeValue, On
<1>5. ASSUME NEW u \in Threads, at[u] = "wait" PROVE met'[u] = met[u]
  <2>1. met[u] \in BOOLEAN /\ port[u] \in 0 .. 2
    BY <1>1 DEF TypeOK
  <2>2. met'[u] = (met[u] \/ (/\ Live(<<u, slot[u]>>)
                             /\ cond[<<u, slot[u]>>].sig = s
                             /\ Edge(cond[<<u, slot[u]>>].op, val[s], v)))
    BY DEF Drive, ChangeValue
  <2>3. CASE port[u] = 0
    <3>1. <<u, slot[u]>> \in registered
      BY <1>2, <1>5, <2>3 DEF WaitInv, WaitRegistered
    <3>2. cond[<<u, slot[u]>>].sig # s
      BY <1>3, <3>1
    <3> QED
      BY <2>1, <2>2, <3>2
  <2>4. CASE port[u] # 0
    <3>1. met[u]
      BY <1>2, <2>4 DEF WaitInv, MessagesMeant
    <3> QED
      BY <2>1, <2>2, <3>1
  <2> QED
    BY <2>3, <2>4
<1>6. \A r \in Watched : val'[r] = val[r]
  BY <1>1, <1>4 DEF Bench, Sigs
<1>7. /\ at'[Sim] = at[Sim] /\ todo'[Sim] = todo[Sim]
      /\ \A u \in Threads : /\ todo'[u] = {} /\ (at'[u] = "wait" <=> at[u] = "wait")
                            /\ at'[u] \notin {"trigger", "waitAll"} /\ (port[u] # 0 => u # t)
  BY <1>1, <1>2, <1>4 DEF WaitInv, SimCallsBack, MessagesMeant
<1>8. \A u \in Threads : /\ at'[u] = "wait" /\ port'[u] = 0 <=> at[u] = "wait" /\ port[u] = 0
                         /\ port'[u] # 0 => port'[u] = port[u] /\ at'[u] = at[u]
                         /\ at'[u] = "wait" => met'[u] = met[u]
  BY <1>1, <1>4, <1>5, <1>7
<1>9. at[Sim] = "code" => todo[Sim] = {}
  BY <1>2 DEF WaitInv, TodoPending
<1> QED
  BY <1>4, <1>6, <1>7, <1>8, <1>9, OthersStep

\* A new wait knows its signal's value and has not seen its edge.
LEMMA WaitWaits ==
    ASSUME Bench, EdgeInv, TypeOK', NEW t \in Threads, NEW op \in Ops, NEW s \in Watched,
           Wait(t, op, s)
    PROVE  WaitInv'
<1> USE SimThreadAssumption
<1>0. PICK n \in {0, 1}, w \in Waits :
          /\ w = <<t, n>> /\ w \notin registered /\ at[t] = "code"
          /\ at' = [at EXCEPT ![t] = "wait"]
          /\ cond' = [cond EXCEPT ![w] = Condition(op, s)]
          /\ registered' = registered \cup {w}
          /\ slot' = [slot EXCEPT ![t] = n]
          /\ met' = [met EXCEPT ![t] = FALSE]
          /\ UNCHANGED <<port, val, todo, current, outcome>>
  <2>1. LET n == IF <<t, 0>> \in registered THEN 1 ELSE 0
        IN  n \in {0, 1} /\ <<t, n>> \in Waits
    BY DEF Waits
  <2> QED
    BY <2>1, Zenon DEF Wait, SleepOnPort, On
<1>1. /\ TypeOK /\ WaitInv /\ at \in [Agents -> Places] /\ t \in Agents /\ Sim \in Agents /\ t # Sim
      /\ slot \in [Threads -> {0, 1}] /\ met \in [Threads -> BOOLEAN] /\ cond \in [Waits -> Cond]
      /\ Threads \subseteq Agents /\ registered \subseteq Waits
  BY DEF EdgeInv, QueueInv, TypeInv, TypeOK, Agents
<1>3. Thr(w) = t /\ w[2] = n
  BY <1>0 DEF Thr
<1>4. port[t] = 0
  BY <1>1, <1>0 DEF WaitInv, MessagesMeant, TypeOK
<1>5. Pending(w)' /\ slot'[t] = n
  BY <1>1, <1>0, <1>3, <1>4 DEF Pending
<1>6. \A x \in registered : x \in Waits /\ x # w /\ cond'[x] = cond[x]
  BY <1>1, <1>0
<1>7. \A x \in registered : Pending(x) => Pending(x)' /\ Thr(x) # t
  BY <1>1, <1>0, <1>6 DEF Pending, Waits, Thr
<1>8. cond'[w].sig = s /\ cond'[w].op = op /\ (op # "change" => cond'[w].last = val[s])
  BY <1>1, <1>0 DEF Condition, change, posedge, negedge, Ops
<1>9. SimCallsBack' /\ MessagesMeant' /\ NoStrayWakeup'
  BY <1>1, <1>0 DEF WaitInv, SimCallsBack, MessagesMeant, NoStrayWakeup
<1>10. RegisteredWait'
  BY <1>1, <1>0, <1>5, <1>6, <1>7, <1>8 DEF WaitInv, RegisteredWait
<1>11. WaitRegistered'
  <2> SUFFICES ASSUME NEW u \in Threads, at'[u] = "wait", port'[u] = 0
               PROVE  <<u, slot'[u]>> \in registered'
    BY DEF WaitRegistered
  <2>1. CASE u = t
    BY <1>0, <1>3, <1>5, <2>1
  <2>2. CASE u # t
    BY <1>1, <1>0, <2>2 DEF WaitInv, WaitRegistered
  <2> QED
    BY <2>1, <2>2
<1>12. Removed'
  <2> SUFFICES ASSUME at[Sim] = "trigger"
               PROVE  current[Sim] \in registered' /\ ~Pending(current[Sim])'
    BY <1>1, <1>0 DEF Removed
  <2>1. current[Sim] \in registered /\ ~Pending(current[Sim])
    BY <1>1 DEF WaitInv, Removed
  <2>2. ASSUME Pending(current[Sim])' PROVE FALSE
    <3>1. CASE Thr(current[Sim]) = t
      <4>1. current[Sim][2] = n /\ current[Sim] \in Waits
        BY <1>0, <1>5, <1>6, <2>1, <2>2, <3>1 DEF Pending
      <4>2. current[Sim] = w
        BY <1>3, <3>1, <4>1 DEF Waits, Thr
      <4> QED
        BY <1>0, <2>1, <4>2
    <3>2. CASE Thr(current[Sim]) # t
      <4>1. Thr(current[Sim]) \in Threads /\ UNCHANGED <<port, current>>
        BY <1>0, <1>6, <2>1 DEF Waits, Thr
      <4> QED
        BY <1>1, <1>0, <2>1, <2>2, <3>2, <4>1 DEF Pending
    <3> QED
      BY <3>1, <3>2
  <2> QED
    BY <1>0, <2>1, <2>2
<1>13. TodoPending'
  BY <1>1, <1>0, <1>7 DEF WaitInv, TodoPending
<1>14. ConditionsKnow'
  <2> SUFFICES ASSUME NEW u \in Threads, at'[u] = "wait", port'[u] = 0
               PROVE  LET x == <<u, slot'[u]>>
                          c == cond'[x]
                      IN  IF x \in todo'[Sim]
                            THEN met'[u] <=> Edge(c.op, c.last, val'[c.sig])
                            ELSE ~met'[u] /\ (c.op # "change" => c.last = val'[c.sig])
    BY DEF ConditionsKnow
  <2>1. CASE u = t
    <3>1. w \notin todo[Sim] /\ met'[u] = FALSE /\ <<u, slot'[u]>> = w
      BY <1>1, <1>0, <1>3, <1>5, <2>1 DEF WaitInv, TodoPending
    <3> QED
      BY <1>0, <1>8, <3>1
  <2>2. CASE u # t
    <3>1. at[u] = "wait" /\ port[u] = 0 /\ slot'[u] = slot[u] /\ met'[u] = met[u]
      BY <1>1, <1>0, <2>2
    <3>2. <<u, slot[u]>> \in registered
      BY <1>1, <3>1 DEF WaitInv, WaitRegistered
    <3>3. cond'[<<u, slot[u]>>] = cond[<<u, slot[u]>>]
      BY <1>6, <3>2
    <3> QED
      BY <1>1, <1>0, <3>1, <3>3 DEF WaitInv, ConditionsKnow
  <2> QED
    BY <2>1, <2>2
<1> QED
  BY <1>9, <1>10, <1>11, <1>12, <1>13, <1>14 DEF WaitInv

\* A signal changes in the simulator: the callbacks to run are those of the waits
\* that have to test it.
LEMMA TickWaits ==
    ASSUME Bench, EdgeInv, TypeOK', NEW s \in Clocked, NEW v, Tick(s, v)
    PROVE  WaitInv'
<1> USE SimThreadAssumption
<1>1. /\ TypeOK /\ WaitInv /\ DeletedDead
      /\ at \in [Agents -> Places] /\ Sim \in Agents /\ Sim \notin Threads
      /\ Threads \subseteq Agents /\ todo \in [Agents -> SUBSET Waits] /\ val \in [Sigs -> Values]
      /\ met \in [Threads -> BOOLEAN]
  BY DEF EdgeInv, QueueInv, TypeInv, TypeOK, Agents
<1>2. /\ at[Sim] = "code" /\ at' = [at EXCEPT ![Sim] = "callbacks"] /\ val' = [val EXCEPT ![s] = v]
      /\ todo' = [todo EXCEPT ![Sim] = {x \in registered : cond[x].sig = s}]
      /\ outcome = "running"
      /\ UNCHANGED <<port, registered, cond, current, slot, outcome>>
  BY DEF Tick, ChangeValue, On
<1>3. \A u \in Threads : at'[u] = at[u] /\ todo'[u] = todo[u]
  BY <1>1, <1>2
<1>4. at'[Sim] = "callbacks" /\ todo'[Sim] = {x \in registered : cond[x].sig = s}
  BY <1>1, <1>2
<1>5. \A x \in registered : Pending(x) /\ Pending(x)' /\ x \in Waits
  BY <1>1, <1>2, <1>3 DEF WaitInv, RegisteredWait, Pending, Waits, Thr, TypeOK
<1>6. \A u \in Threads : met'[u] = (met[u] \/ (/\ Live(<<u, slot[u]>>)
                                              /\ cond[<<u, slot[u]>>].sig = s
                                              /\ Edge(cond[<<u, slot[u]>>].op, val[s], v)))
  BY DEF Tick, ChangeValue
<1>7. SimCallsBack' /\ NoStrayWakeup' /\ Removed'
  BY <1>1, <1>2, <1>3, <1>4 DEF WaitInv, SimCallsBack, NoStrayWakeup, Removed
<1>8. MessagesMeant'
  BY <1>1, <1>2, <1>3, <1>6 DEF WaitInv, MessagesMeant
<1>9. RegisteredWait' /\ TodoPending'
  BY <1>1, <1>2, <1>4, <1>5 DEF WaitInv, RegisteredWait, TodoPending
<1>10. WaitRegistered'
  BY <1>1, <1>2, <1>3 DEF WaitInv, WaitRegistered
<1>11. ConditionsKnow'
  <2> SUFFICES ASSUME NEW u \in Threads, at'[u] = "wait", port'[u] = 0
               PROVE  LET w == <<u, slot[u]>>
                          c == cond[w]
                      IN  IF w \in todo'[Sim]
                            THEN met'[u] <=> Edge(c.op, c.last, val'[c.sig])
                            ELSE ~met'[u] /\ (c.op # "change" => c.last = val'[c.sig])
    BY <1>2 DEF ConditionsKnow
  <2> DEFINE w == <<u, slot[u]>>
  <2>1. at[u] = "wait" /\ port[u] = 0 /\ w \in registered
    BY <1>1, <1>2, <1>3 DEF WaitInv, WaitRegistered
  <2>2. w \notin todo[Sim]
    BY <1>1, <1>2 DEF WaitInv, TodoPending
  <2>3. met[u] = FALSE /\ (cond[w].op # "change" => cond[w].last = val[cond[w].sig])
    BY <1>1, <2>1, <2>2 DEF WaitInv, ConditionsKnow
  <2>4. Live(w)
    BY <1>1, <2>1 DEF Live, Thr, DeletedDead, Dead
  <2>5. cond[w] \in Cond
    BY <1>5, <2>1 DEF TypeOK, EdgeInv, QueueInv, TypeInv
  <2>6. CASE cond[w].sig = s
    <3>1. w \in todo'[Sim] /\ val'[s] = v
      BY <1>1, <1>2, <1>4, <2>1, <2>6 DEF Sigs
    <3>2. met'[u] <=> Edge(cond[w].op, val[s], v)
      BY <1>6, <2>3, <2>4, <2>6
    <3>3. Edge(cond[w].op, val[s], v) <=> Edge(cond[w].op, cond[w].last, v)
      BY <2>3, <2>6 DEF Edge
    <3> QED
      BY <2>6, <3>1, <3>2, <3>3
  <2>7. CASE cond[w].sig # s
    <3>1. w \notin todo'[Sim] /\ val'[cond[w].sig] = val[cond[w].sig]
      BY <1>1, <1>2, <1>4, <2>5, <2>7 DEF Cond
    <3>2. ~met'[u]
      BY <1>6, <2>3, <2>7
    <3> QED
      BY <2>3, <3>1, <3>2
  <2> QED
    BY <2>6, <2>7
<1> QED
  BY <1>7, <1>8, <1>9, <1>10, <1>11 DEF WaitInv

\* A test that fails takes note of the signal's value.
LEMMA TestFalseWaits ==
    ASSUME Bench, EdgeInv, TypeOK', TestFalse(Sim)
    PROVE  WaitInv'
<1> USE SimThreadAssumption
<1>1. /\ TypeOK /\ WaitInv /\ at \in [Agents -> Places] /\ Sim \in Agents /\ Sim \notin Threads
      /\ Threads \subseteq Agents /\ todo \in [Agents -> SUBSET Waits] /\ cond \in [Waits -> Cond]
      /\ registered \subseteq Waits
  BY DEF EdgeInv, QueueInv, TypeInv, TypeOK, Agents
<1>2. PICK w \in todo[Sim] \cap registered :
          /\ ~Edge(cond[w].op, cond[w].last, val[cond[w].sig])
          /\ cond' = [cond EXCEPT ![w].last = val[cond[w].sig]]
          /\ todo' = [todo EXCEPT ![Sim] = @ \ {w}]
  BY Zenon DEF TestFalse
<1>3. /\ at' = [at EXCEPT ![Sim] = "waitAll"] /\ at[Sim] = "callbacks" /\ outcome = "running"
      /\ UNCHANGED <<port, outcome, val, registered, current, slot, met>>
  BY DEF TestFalse, EnterWaitAll, On
<1>4. /\ \A u \in Threads : at'[u] = at[u] /\ todo'[u] = todo[u]
      /\ at'[Sim] = "waitAll" /\ todo'[Sim] = todo[Sim] \ {w}
  BY <1>1, <1>2, <1>3
<1>5. w \in Waits /\ cond[w] \in Cond
  BY <1>1, <1>2
<1>6. /\ \A x \in Waits \ {w} : cond'[x] = cond[x]
      /\ cond'[w].sig = cond[w].sig /\ cond'[w].op = cond[w].op /\ cond'[w].last = val[cond[w].sig]
  BY <1>1, <1>2, <1>5 DEF Cond
<1>7. \A x \in Waits : Pending(x)' <=> Pending(x)
  BY <1>3, <1>4 DEF Pending, Waits, Thr
<1>8. SimCallsBack' /\ MessagesMeant' /\ NoStrayWakeup' /\ WaitRegistered' /\ Removed'
  BY <1>1, <1>3, <1>4 DEF WaitInv, SimCallsBack, MessagesMeant, NoStrayWakeup, WaitRegistered, Removed
<1>9. RegisteredWait'
  <2>1. \A x \in registered : cond'[x].sig = cond[x].sig
    BY <1>1, <1>6
  <2>2. \A x \in registered : cond[x].sig \in Watched /\ Pending(x)
    BY <1>1, <1>3 DEF WaitInv, RegisteredWait
  <2> QED
    BY <1>1, <1>3, <1>7, <2>1, <2>2 DEF RegisteredWait
<1>10. TodoPending'
  BY <1>1, <1>3, <1>4, <1>7 DEF WaitInv, TodoPending
<1>11. ConditionsKnow'
  <2> SUFFICES ASSUME NEW u \in Threads, at'[u] = "wait", port'[u] = 0
               PROVE  LET x == <<u, slot[u]>>
                          c == cond'[x]
                      IN  IF x \in todo'[Sim]
                            THEN met[u] <=> Edge(c.op, c.last, val[c.sig])
                            ELSE ~met[u] /\ (c.op # "change" => c.last = val[c.sig])
    BY <1>3 DEF ConditionsKnow
  <2> DEFINE x == <<u, slot[u]>>
  <2>1. at[u] = "wait" /\ port[u] = 0 /\ x \in Waits
    BY <1>1, <1>3, <1>4 DEF WaitInv, WaitRegistered
  <2>2. IF x \in todo[Sim]
          THEN met[u] <=> Edge(cond[x].op, cond[x].last, val[cond[x].sig])
          ELSE ~met[u] /\ (cond[x].op # "change" => cond[x].last = val[cond[x].sig])
    BY <1>1, <2>1 DEF WaitInv, ConditionsKnow
  <2>3. CASE x = w
    <3>1. ~met[u] /\ x \notin todo'[Sim]
      BY <1>2, <1>4, <2>2, <2>3
    <3> QED
      BY <1>6, <2>3, <3>1
  <2>4. CASE x # w
    <3>1. cond'[x] = cond[x] /\ (x \in todo'[Sim] <=> x \in todo[Sim])
      BY <1>4, <1>6, <2>1, <2>4
    <3> QED
      BY <2>2, <3>1
  <2> QED
    BY <2>3, <2>4
<1> QED
  BY <1>8, <1>9, <1>10, <1>11 DEF WaitInv

\* A test that succeeds triggers its thread, whose edge has occurred.
LEMMA TestTrueWaits ==
    ASSUME Bench, EdgeInv, TypeOK', TestTrue(Sim)
    PROVE  WaitInv'
<1> USE SimThreadAssumption
<1>1. /\ TypeOK /\ WaitInv /\ at \in [Agents -> Places] /\ Sim \in Agents /\ Sim \notin Threads
      /\ Threads \subseteq Agents /\ todo \in [Agents -> SUBSET Waits] /\ port \in [Threads -> 0 .. 2]
      /\ registered \subseteq Waits /\ current \in [Agents -> Waits \cup {NoWait}]
  BY DEF EdgeInv, QueueInv, TypeInv, TypeOK, Agents
<1>2. PICK w \in todo[Sim] \cap registered :
          /\ Edge(cond[w].op, cond[w].last, val[cond[w].sig])
          /\ current' = [current EXCEPT ![Sim] = w]
          /\ todo' = [todo EXCEPT ![Sim] = @ \ {w}]
          /\ Trigger(Sim, Thr(w))
  BY Zenon DEF TestTrue
<1>3. /\ at' = [at EXCEPT ![Sim] = "trigger"] /\ at[Sim] = "callbacks" /\ outcome = "running"
      /\ port' = [port EXCEPT ![Thr(w)] = IF @ < 2 THEN @ + 1 ELSE @]
      /\ UNCHANGED <<outcome, val, cond, registered, slot, met>>
  BY <1>2 DEF TestTrue, Trigger, On
<1>4. Pending(w) /\ w \in Waits /\ Thr(w) \in Threads /\ w = <<Thr(w), slot[Thr(w)]>>
  BY <1>1, <1>2 DEF WaitInv, TodoPending, Pending, Waits, Thr
<1>5. /\ \A u \in Threads : at'[u] = at[u] /\ todo'[u] = todo[u]
      /\ at'[Sim] = "trigger" /\ todo'[Sim] = todo[Sim] \ {w} /\ current'[Sim] = w
      /\ port'[Thr(w)] = 1 /\ \A u \in Threads \ {Thr(w)} : port'[u] = port[u]
  BY <1>1, <1>2, <1>3, <1>4 DEF Pending
<1>6. met[Thr(w)]
  BY <1>1, <1>2, <1>4 DEF Pending, WaitInv, ConditionsKnow
<1>7. /\ ~Pending(w)'
      /\ \A x \in Waits : Pending(x)' <=> Pending(x) /\ Thr(x) # Thr(w)
  BY <1>3, <1>4, <1>5 DEF Pending, Waits, Thr
<1>8. \A x \in registered : Pending(x) /\ (x # w => Thr(x) # Thr(w))
  <2>1. \A x \in registered : Pending(x) /\ x \in Waits
    BY <1>1, <1>3 DEF WaitInv, RegisteredWait
  <2> QED
    BY <1>4, <2>1 DEF Pending, Waits, Thr
<1>9. SimCallsBack' /\ NoStrayWakeup'
  BY <1>1, <1>3, <1>5 DEF WaitInv, SimCallsBack, NoStrayWakeup
<1>10. MessagesMeant'
  BY <1>1, <1>3, <1>4, <1>5, <1>6 DEF WaitInv, MessagesMeant, Pending
<1>11. RegisteredWait'
  BY <1>1, <1>3, <1>5, <1>7, <1>8 DEF WaitInv, RegisteredWait
<1>12. WaitRegistered' /\ Removed'
  BY <1>1, <1>2, <1>3, <1>5, <1>7 DEF WaitInv, WaitRegistered, Removed
<1>13. TodoPending'
  BY <1>1, <1>3, <1>5, <1>7, <1>8 DEF WaitInv, TodoPending
<1>14. ConditionsKnow'
  <2> SUFFICES ASSUME NEW u \in Threads, at'[u] = "wait", port'[u] = 0
               PROVE  LET x == <<u, slot[u]>>
                          c == cond[x]
                      IN  IF x \in todo'[Sim]
                            THEN met[u] <=> Edge(c.op, c.last, val[c.sig])
                            ELSE ~met[u] /\ (c.op # "change" => c.last = val[c.sig])
    BY <1>3 DEF ConditionsKnow
  <2>1. u # Thr(w) /\ at[u] = "wait" /\ port[u] = 0
    BY <1>5
  <2>2. <<u, slot[u]>> \in todo'[Sim] <=> <<u, slot[u]>> \in todo[Sim]
    BY <1>4, <1>5, <2>1
  <2> QED
    BY <1>1, <2>1, <2>2 DEF WaitInv, ConditionsKnow
<1> QED
  BY <1>9, <1>10, <1>11, <1>12, <1>13, <1>14 DEF WaitInv

\* The callback that is removed is not one that is waited for.
LEMMA RemoveWaits ==
    ASSUME Bench, EdgeInv, TypeOK', RemoveSimCallbacks(Sim)
    PROVE  WaitInv'
<1> USE SimThreadAssumption
<1>1. /\ TypeOK /\ WaitInv /\ at \in [Agents -> Places] /\ Sim \in Agents /\ Sim \notin Threads
      /\ Threads \subseteq Agents /\ cond \in [Waits -> Cond] /\ registered \subseteq Waits
  BY DEF EdgeInv, QueueInv, TypeInv, TypeOK, Agents
<1>2. PICK w : w = current[Sim]
  OBVIOUS
<1>3. /\ at' = [at EXCEPT ![Sim] = "waitAll"] /\ at[Sim] = "trigger" /\ outcome = "running"
      /\ registered' = registered \ {w} /\ cond' = [cond EXCEPT ![w] = NoCond]
      /\ UNCHANGED <<port, outcome, val, todo, slot, met>>
  BY <1>2 DEF RemoveSimCallbacks, EnterWaitAll, On
<1>4. w \in registered /\ ~Pending(w)
  BY <1>1, <1>2, <1>3 DEF WaitInv, Removed
<1>5. /\ \A u \in Threads : at'[u] = at[u]
      /\ at'[Sim] = "waitAll"
      /\ \A x \in Waits : Pending(x)' <=> Pending(x)
      /\ \A x \in Waits \ {w} : cond'[x] = cond[x]
  BY <1>1, <1>3 DEF Pending, Waits, Thr
<1>6. SimCallsBack' /\ MessagesMeant' /\ NoStrayWakeup' /\ Removed'
  BY <1>1, <1>3, <1>5 DEF WaitInv, SimCallsBack, MessagesMeant, NoStrayWakeup, Removed
<1>7. RegisteredWait'
  BY <1>1, <1>2, <1>3, <1>5 DEF WaitInv, RegisteredWait
<1>8. TodoPending'
  BY <1>1, <1>3, <1>4, <1>5 DEF WaitInv, TodoPending
<1>9. \A u \in Threads : at[u] = "wait" /\ port[u] = 0 => <<u, slot[u]>> \in registered \ {w}
  BY <1>1, <1>4 DEF WaitInv, WaitRegistered, Pending, Thr
<1>10. WaitRegistered'
  BY <1>3, <1>5, <1>9 DEF WaitRegistered
<1>11. ConditionsKnow'
  <2> SUFFICES ASSUME NEW u \in Threads, at'[u] = "wait", port'[u] = 0
               PROVE  LET x == <<u, slot[u]>>
                          c == cond'[x]
                      IN  IF x \in todo[Sim]
                            THEN met[u] <=> Edge(c.op, c.last, val[c.sig])
                            ELSE ~met[u] /\ (c.op # "change" => c.last = val[c.sig])
    BY <1>3 DEF ConditionsKnow
  <2>1. at[u] = "wait" /\ port[u] = 0
    BY <1>3, <1>5
  <2>2. cond'[<<u, slot[u]>>] = cond[<<u, slot[u]>>]
    BY <1>1, <1>5, <1>9, <2>1
  <2> QED
    BY <1>1, <2>1, <2>2 DEF WaitInv, ConditionsKnow
<1> QED
  BY <1>6, <1>7, <1>8, <1>10, <1>11 DEF WaitInv

\* So do the steps inside a simulator callback.
LEMMA CallbackWaits ==
    ASSUME Bench, EdgeInv, TypeOK', NEW a \in Agents, Callback(a)
    PROVE  WaitInv'
<1> USE SimThreadAssumption
<1>1. /\ TypeOK /\ WaitInv /\ DeletedDead /\ at \in [Agents -> Places] /\ Sim \in Agents
      /\ Sim \notin Threads /\ Threads \subseteq Agents /\ todo \in [Agents -> SUBSET Waits]
  BY DEF EdgeInv, QueueInv, TypeInv, TypeOK, Agents
<1>2. a # Sim => CallbacksDone(a)
  <2>1. a # Sim => at[a] \notin {"trigger", "waitAll"} /\ todo[a] = {}
    BY <1>1 DEF Agents, WaitInv, SimCallsBack
  <2> QED
    BY <2>1 DEF Callback, TestDangling, TestFalse, TestTrue, RemoveSimCallbacks,
                WaitAllThreadsBlocked, On
<1>3. ~TestDangling(Sim)
  <2>1. \A w \in todo[Sim] : Live(w)
    BY <1>1 DEF WaitInv, TodoPending, TypeOK, Pending, Live, DeletedDead, Dead, Waits, Thr
  <2> QED
    BY <2>1 DEF TestDangling
<1>4. CASE CallbacksDone(a)
  <2>1. /\ at' = [at EXCEPT ![a] = "code"] /\ at[a] = "callbacks" /\ outcome = "running"
        /\ todo[a] \cap registered = {} /\ todo' = [todo EXCEPT ![a] = {}]
        /\ UNCHANGED <<port, outcome, val, cond, registered, current, slot, met>>
    BY <1>4 DEF CallbacksDone, On
  <2>2. todo[a] = {}
    <3>1. a = Sim => todo[a] \subseteq registered
      BY <1>1 DEF WaitInv, TodoPending
    <3>2. a # Sim => todo[a] = {}
      BY <1>1 DEF Agents, WaitInv, SimCallsBack
    <3> QED
      BY <2>1, <3>1, <3>2
  <2>3. /\ todo'[Sim] = todo[Sim] /\ \A t \in Threads : todo'[t] = {}
    BY <1>1, <2>1, <2>2 DEF WaitInv, SimCallsBack
  <2>4. /\ at'[Sim] = "trigger" <=> at[Sim] = "trigger"
        /\ at'[Sim] = "code" => todo[Sim] = {}
        /\ \A t \in Threads : at'[t] = at[t] \/ (at[t] = "callbacks" /\ at'[t] = "code")
    BY <1>1, <2>1, <2>2 DEF WaitInv, TodoPending
  <2>5. \A t \in Threads : /\ at'[t] = "wait" /\ port'[t] = 0 <=> at[t] = "wait" /\ port[t] = 0
                           /\ at'[t] \notin {"trigger", "waitAll"}
                           /\ port'[t] # 0 => port'[t] = port[t] /\ at'[t] = at[t]
                           /\ at'[t] = "wait" => met'[t] = met[t]
    BY <1>1, <2>1, <2>4 DEF WaitInv, SimCallsBack, MessagesMeant
  <2> QED
    BY <2>1, <2>3, <2>4, <2>5, OthersStep
<1>5. CASE a = Sim /\ WaitAllThreadsBlocked(Sim) /\ UNCHANGED ifaceVars
  <2>1. /\ at[Sim] = "waitAll" /\ port' = port /\ outcome' \in {"running", "spin"}
        /\ at' = at \/ at' = [at EXCEPT ![Sim] = "callbacks"]
        /\ UNCHANGED <<val, cond, registered, todo, current, slot, met>>
    BY <1>5 DEF WaitAllThreadsBlocked, On, ifaceVars
  <2>2. /\ at'[Sim] = "trigger" <=> at[Sim] = "trigger"
        /\ at'[Sim] # "code"
        /\ \A t \in Threads : at'[t] = at[t]
    BY <1>1, <2>1
  <2>3. \A t \in Threads : /\ at'[t] = "wait" /\ port'[t] = 0 <=> at[t] = "wait" /\ port[t] = 0
                           /\ at'[t] \notin {"trigger", "waitAll"} /\ todo'[t] = {}
                           /\ port'[t] # 0 => port'[t] = port[t] /\ at'[t] = at[t]
                           /\ at'[t] = "wait" => met'[t] = met[t]
    BY <1>1, <2>1, <2>2 DEF WaitInv, SimCallsBack
  <2> QED
    BY <2>1, <2>2, <2>3, OthersStep
<1> QED
  BY <1>2, <1>3, <1>4, <1>5, TestFalseWaits, TestTrueWaits, RemoveWaits DEF Callback

\* The whole invariant is inductive.
LEMMA EdgeStep == Bench /\ EdgeInv /\ [Next]_vars => EdgeInv'
<1> SUFFICES ASSUME Bench, EdgeInv, [Next]_vars PROVE EdgeInv'
  OBVIOUS
<1>1. QueueInv' /\ TypeOK'
  BY QueueStep DEF EdgeInv, QueueInv, TypeInv, Bench
<1> SUFFICES WaitInv'
  BY <1>1 DEF EdgeInv
<1>2. ASSUME NEW s \in Clocked, NEW v \in {"0", "1"}, Tick(s, v) PROVE WaitInv'
  BY <1>1, <1>2, TickWaits
<1>3. ASSUME NEW a \in Agents, Callback(a) PROVE WaitInv'
  BY <1>1, <1>3, CallbackWaits
<1>4. ASSUME NEW t \in Threads, Wakeup(t) PROVE WaitInv'
  <2>1. /\ Resume(t) \/ JoinReturn(t) \/ Cancelled(t)
        /\ met' = [met EXCEPT ![t] = FALSE]
        /\ UNCHANGED <<val, cond, registered, todo, current, slot>>
    BY <1>4 DEF Wakeup
  <2>2. ~Cancelled(t)
    BY DEF Cancelled, On, EdgeInv, QueueInv, DeletedDead, Dead, Sleep
  <2> QED
    BY <1>1, <2>1, <2>2, ThreadWaits
<1>5. ASSUME NEW t \in Threads, Block(t) PROVE WaitInv'
  <2>1. CASE \E op \in Ops, s \in Watched : Wait(t, op, s)
    BY <1>1, <2>1, WaitWaits
  <2>2. CASE (Finish(t) \/ Orphan(t)) /\ UNCHANGED ifaceVars
    BY <1>1, <2>2, ThreadWaits DEF ifaceVars
  <2> QED
    BY <1>5, <2>1, <2>2 DEF Block
<1>6. ASSUME NEW t \in Threads, UserStep(t) PROVE WaitInv'
  <2>1. CASE \E s \in Driven, v \in {"0", "1"} : Drive(t, s, v)
    BY <1>1, <2>1, DriveWaits
  <2>2. ASSUME NEW u \in Threads, UNCHANGED ifaceVars,
               Spawn(t, u) \/ Join(t, u) \/ Delete(t, u) \/ DeleteUnborn(t, u)
        PROVE  WaitInv'
    BY <1>1, <2>2, ThreadWaits DEF ifaceVars
  <2>3. CASE Yield(t) /\ UNCHANGED ifaceVars
    BY <1>1, <2>3, ThreadWaits DEF ifaceVars
  <2> QED
    BY <1>6, <2>1, <2>2, <2>3 DEF UserStep
<1>7. CASE UNCHANGED vars
  BY <1>7 DEF vars, threadVars, ifaceVars, EdgeInv, WaitInv, SimCallsBack, MessagesMeant,
              RegisteredWait, WaitRegistered, Removed, TodoPending, ConditionsKnow, Pending,
              NoStrayWakeup
<1> QED
  BY <1>2, <1>3, <1>4, <1>5, <1>6, <1>7 DEF Next

\* It holds at the start.
LEMMA EdgeInit == Init => EdgeInv
<1> SUFFICES ASSUME Init PROVE EdgeInv
  OBVIOUS
<1> USE SimThreadAssumption
<1>1. Queued = {MainThread} /\ ready = <<MainThread>> /\ running = Sim
  BY DEF Init, Queued
<1>2. QueueInv
  BY <1>1, TypeInit DEF Init, QueueInv, DeletedDead, OneTurn, TurnsBorn, TurnsAwake, Agents
<1>3. WaitInv
  BY DEF Init, WaitInv, SimCallsBack, MessagesMeant, RegisteredWait, WaitRegistered, Removed,
         TodoPending, ConditionsKnow, NoStrayWakeup, Agents
<1> QED
  BY <1>2, <1>3 DEF EdgeInv

-----------------------------------------------------------------------------
\* In such a program no condition is tested through a pointer to a frame that is
\* gone, no port ever holds the message of its event twice, and no deleted thread
\* runs on.
THEOREM NoStrayWakeupTheorem == ASSUME Bench PROVE Spec => []NoStrayWakeup
<1>1. EdgeInv => NoStrayWakeup
  BY DEF EdgeInv, WaitInv
<1>2. EdgeInv /\ [Next]_vars => EdgeInv'
  BY EdgeStep
<1> QED
  BY <1>1, <1>2, EdgeInit, PTL DEF Spec

\* When the simulator runs its own code, both invariants apply.
LEMMA SimulatorAtRest ==
    ASSUME TurnInv, EdgeInv, running = Sim, at[Sim] = "code", NEW t \in Threads, at[t] = "wait"
    PROVE  port[t] = 0
<1>1. ready = <<>> /\ Queued = {}
  BY DEF TurnInv, Turns, SimAwake, Queued
<1>2. ~EventOccurred(t)
  BY <1>1 DEF TurnInv, Turns, NobodyOverlooked, Sleep
<1>3. port[t] \in 0 .. 2
  BY DEF EdgeInv, QueueInv, TypeInv, TypeOK
<1> QED
  BY <1>2, <1>3 DEF EventOccurred

\* When the simulator goes on, the registered callbacks are exactly those of the
\* waits in progress.
THEOREM CallbacksTheorem == ASSUME Bench PROVE Spec => []CallbacksAreWaits
<1>1. TurnInv /\ EdgeInv => CallbacksAreWaits
  <2> SUFFICES ASSUME TurnInv, EdgeInv, running = Sim, at[Sim] = "code"
               PROVE  registered = {<<t, slot[t]>> : t \in {u \in Threads : at[u] = "wait"}}
    BY DEF CallbacksAreWaits
  <2>1. ASSUME NEW w \in registered PROVE \E t \in Threads : at[t] = "wait" /\ w = <<t, slot[t]>>
    <3>1. w \in Waits /\ Pending(w)
      BY DEF EdgeInv, QueueInv, TypeInv, TypeOK, WaitInv, RegisteredWait
    <3> QED
      BY <3>1 DEF Pending, Waits, Thr
  <2>2. ASSUME NEW t \in Threads, at[t] = "wait" PROVE <<t, slot[t]>> \in registered
    BY <2>2, SimulatorAtRest DEF EdgeInv, WaitInv, WaitRegistered
  <2> QED
    BY <2>1, <2>2
<1>2. EdgeInv /\ [Next]_vars => EdgeInv'
  BY EdgeStep
<1> QED
  BY <1>1, <1>2, EdgeInit, TurnInit, TurnStep, PTL DEF Spec

\* No edge is missed: when the simulator goes on, no thread is left in a wait
\* whose edge has occurred since it began.
THEOREM NoMissedEdgeTheorem == ASSUME Bench PROVE Spec => []NoMissedEdge
<1>1. TurnInv /\ EdgeInv => NoMissedEdge
  <2> SUFFICES ASSUME TurnInv, EdgeInv, running = Sim, at[Sim] = "code",
                      NEW t \in Threads, at[t] = "wait"
               PROVE  ~met[t]
    BY DEF NoMissedEdge
  <2>1. port[t] = 0 /\ todo[Sim] = {}
    BY SimulatorAtRest DEF EdgeInv, WaitInv, TodoPending
  <2> QED
    BY <2>1 DEF EdgeInv, WaitInv, ConditionsKnow
<1>2. EdgeInv /\ [Next]_vars => EdgeInv'
  BY EdgeStep
<1> QED
  BY <1>1, <1>2, EdgeInit, TurnInit, TurnStep, PTL DEF Spec

\* A thread returns from wait only after the edge it waits for.
THEOREM WokenByEventTheorem == ASSUME Bench PROVE Spec => WokenByEvent
<1>1. EdgeInv /\ [Next]_vars =>
          [\A t \in Threads : at[t] = "wait" /\ at'[t] = "code" => met[t]]_vars
  <2> SUFFICES ASSUME EdgeInv, Next, NEW t \in Threads, at[t] = "wait", at'[t] = "code"
               PROVE  met[t]
    OBVIOUS
  <2>1. Resume(t)
    <3> USE SimThreadAssumption
    <3>1. at \in [Agents -> Places] /\ t \in Agents /\ t # Sim /\ Threads \subseteq Agents
      BY DEF EdgeInv, QueueInv, TypeInv, TypeOK, Agents
    <3>2. ASSUME NEW a \in Agents, NEW p, at[a] # "wait",
                 at' = at \/ at' = [at EXCEPT ![a] = p]
          PROVE  FALSE
      BY <3>1, <3>2
    <3>3. ASSUME NEW a \in Agents, NEW s, NEW v, ChangeValue(a, s, v) PROVE FALSE
      BY <3>2, <3>3 DEF ChangeValue, On
    <3>4. ASSUME NEW s \in Clocked, NEW v \in {"0", "1"}, Tick(s, v) PROVE FALSE
      BY <3>3, <3>4 DEF Tick, Agents
    <3>5. ASSUME NEW a \in Agents, Callback(a) PROVE FALSE
      <4>1. at[a] # "wait" /\ (at' = at \/ \E p : at' = [at EXCEPT ![a] = p])
        BY <3>5 DEF Callback, TestDangling, TestFalse, TestTrue, RemoveSimCallbacks,
                    CallbacksDone, WaitAllThreadsBlocked, Trigger, EnterWaitAll, Crash, On
      <4> QED
        BY <3>2, <4>1
    <3>6. ASSUME NEW u \in Threads, Block(u) PROVE FALSE
      <4>1. u \in Agents /\ at[u] = "code" /\ (at' = at \/ \E p : at' = [at EXCEPT ![u] = p])
        BY <3>1, <3>6 DEF Block, Wait, SleepOnPort, Finish, Orphan, Crash, On
      <4> QED
        BY <3>2, <4>1
    <3>7. ASSUME NEW u \in Threads, UserStep(u) PROVE FALSE
      <4>1. ASSUME NEW s \in Driven, NEW v \in {"0", "1"}, Drive(u, s, v) PROVE FALSE
        BY <3>3, <4>1 DEF Drive, Agents
      <4>2. ASSUME NEW x \in Threads, Spawn(u, x) \/ Join(u, x) \/ Delete(u, x) \/ DeleteUnborn(u, x)
            PROVE  FALSE
        <5>1. \/ at' = at
              \/ at[u] = "code" /\ \E p : at' = [at EXCEPT ![u] = p]
              \/ at[x] = "unborn" /\ \E p : at' = [at EXCEPT ![x] = p]
          BY <4>2 DEF Spawn, AddThread, Join, Delete, DeleteUnborn, Crash, On
        <5> QED
          BY <3>1, <3>2, <5>1
      <4>3. CASE Yield(u)
        BY <4>3 DEF Yield
      <4> QED
        BY <3>7, <4>1, <4>2, <4>3 DEF UserStep
    <3>8. PICK u \in Threads : Wakeup(u)
      BY <3>4, <3>5, <3>6, <3>7 DEF Next
    <3>9. /\ u \in Agents
          /\ at' = at \/ \E p : at' = [at EXCEPT ![u] = p]
          /\ Resume(u) \/ at[u] # "wait" \/ at'[u] # "code"
      BY <3>1, <3>8 DEF Wakeup, Resume, JoinReturn, Cancelled, Crash, On
    <3>10. u = t
      BY <3>1, <3>9
    <3> QED
      BY <3>9, <3>10
  <2>2. port[t] > 0
    BY <2>1 DEF Resume, On, EdgeInv, QueueInv, TurnsAwake
  <2> QED
    BY <2>2 DEF EdgeInv, QueueInv, TypeInv, TypeOK, WaitInv, MessagesMeant
<1>2. EdgeInv /\ [Next]_vars => EdgeInv'
  BY EdgeStep
<1> QED
  BY <1>1, <1>2, EdgeInit, PTL DEF Spec, WokenByEvent
=============================================================================
