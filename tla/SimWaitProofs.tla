--------------------------- MODULE SimWaitProofs ---------------------------
(* Theorems about SimWait for every set of threads and signals.             *)
EXTENDS SimWait, FiniteSetTheorems, TLAPS

-----------------------------------------------------------------------------
(* The scheduler *)

\* Every order of a finite set is a sequence of exactly its members.
LEMMA OrderIsSequence ==
    ASSUME NEW S, IsFiniteSet(S), NEW order \in Orders(S)
    PROVE  /\ order \in Seq(S)
           /\ \A x : x \in S <=> \E i \in DOMAIN order : order[i] = x
<1>1. Cardinality(S) \in Nat
  BY FS_CardinalityType
<1>2. order \in [1 .. Cardinality(S) -> S] /\ \A x \in S : \E i \in DOMAIN order : order[i] = x
  BY DEF Orders
<1>3. order \in Seq(S)
  BY <1>1, <1>2
<1>4. QED
  BY <1>2, <1>3

Holds(s, x) == \E i \in DOMAIN s : s[i] = x

\* The head and the tail of a queue to which an order has been appended hold
\* exactly the members of both.
LEMMA Dispatch ==
    ASSUME NEW S, NEW q \in Seq(S), NEW r \in Seq(S), q \o r # <<>>
    PROVE  /\ Head(q \o r) \in S
           /\ Tail(q \o r) \in Seq(S)
           /\ \A x : x = Head(q \o r) \/ Holds(Tail(q \o r), x)
                 <=> Holds(q, x) \/ Holds(r, x)
<1> DEFINE s == q \o r
<1>1. /\ s \in Seq(S) /\ s # <<>> /\ Len(s) = Len(q) + Len(r)
      /\ \A i \in 1 .. Len(q) : s[i] = q[i]
      /\ \A i \in 1 .. Len(r) : s[Len(q) + i] = r[i]
      /\ \A i \in 1 .. Len(s) : i > Len(q) => s[i] = r[i - Len(q)]
  OBVIOUS
<1>2. /\ Head(s) = s[1] /\ Head(s) \in S
      /\ Tail(s) \in Seq(S) /\ Len(Tail(s)) = Len(s) - 1
      /\ \A i \in 1 .. Len(s) - 1 : Tail(s)[i] = s[i + 1]
  BY <1>1
<1> HIDE DEF s
<1>3. ASSUME NEW x, x = Head(s) \/ \E i \in DOMAIN Tail(s) : Tail(s)[i] = x
      PROVE  (\E i \in DOMAIN q : q[i] = x) \/ (\E i \in DOMAIN r : r[i] = x)
  <2>1. \E i \in 1 .. Len(s) : s[i] = x
    <3>1. CASE x = Head(s)
      BY <3>1, <1>1, <1>2
    <3>2. CASE \E i \in DOMAIN Tail(s) : Tail(s)[i] = x
      <4>1. PICK i \in 1 .. Len(s) - 1 : Tail(s)[i] = x
        BY <3>2, <1>1, <1>2
      <4>2. i + 1 \in 1 .. Len(s) /\ s[i + 1] = x
        BY <4>1, <1>1, <1>2
      <4>3. QED
        BY <4>2
    <3>3. QED
      BY <3>1, <3>2, <1>3
  <2> PICK i \in 1 .. Len(s) : s[i] = x
    BY <2>1
  <2>2. CASE i <= Len(q)
    BY <2>2, <1>1
  <2>3. CASE i > Len(q)
    <3>1. i - Len(q) \in 1 .. Len(r) /\ r[i - Len(q)] = x
      BY <2>3, <1>1
    <3>2. QED
      BY <3>1
  <2>4. QED
    BY <2>2, <2>3
<1>4. ASSUME NEW x, (\E i \in DOMAIN q : q[i] = x) \/ (\E i \in DOMAIN r : r[i] = x)
      PROVE  x = Head(s) \/ \E i \in DOMAIN Tail(s) : Tail(s)[i] = x
  <2>1. \E i \in 1 .. Len(s) : s[i] = x
    <3>1. CASE \E i \in DOMAIN q : q[i] = x
      BY <3>1, <1>1
    <3>2. CASE \E i \in DOMAIN r : r[i] = x
      <4>1. PICK i \in 1 .. Len(r) : r[i] = x
        BY <3>2
      <4>2. Len(q) + i \in 1 .. Len(s) /\ s[Len(q) + i] = x
        BY <4>1, <1>1
      <4>3. QED
        BY <4>2
    <3>3. QED
      BY <3>1, <3>2, <1>4
  <2> PICK i \in 1 .. Len(s) : s[i] = x
    BY <2>1
  <2>2. CASE i = 1
    BY <2>2, <1>2
  <2>3. CASE i # 1
    <3>1. i - 1 \in 1 .. Len(s) - 1 /\ Tail(s)[i - 1] = x
      BY <2>3, <1>1, <1>2
    <3>2. DOMAIN Tail(s) = 1 .. Len(s) - 1
      BY <1>2
    <3>3. QED
      BY <3>1, <3>2, Zenon
  <2>4. QED
    BY <2>2, <2>3
<1>5. QED
  BY <1>2, <1>3, <1>4 DEF s, Holds

\* After a switch the processor and the queue hold those who were queued, those
\* in back, and the sleepers whose event has occurred, and nobody else.
LEMMA SwitchLemma ==
    ASSUME ready \in Seq(Agents), NEW back \in SUBSET Agents, Switch(back),
           Sim \in Queued \cup back
    PROVE  /\ running' \in Agents
           /\ ready' \in Seq(Agents)
           /\ \A u : u \in Queued' \cup {running'} <=>
                 \/ u \in Queued \cup back
                 \/ u \in Threads \ Queued /\ at'[u] \in Sleep /\ EventOccurred(u)'
<1> DEFINE woken == {u \in Threads \ Queued : at'[u] \in Sleep /\ EventOccurred(u)'}
<1>1. IsFiniteSet(woken \cup back)
  <2>1. IsFiniteSet(Agents)
    BY SimThreadAssumption, FS_AddElement DEF Agents
  <2>2. woken \cup back \subseteq Agents
    BY DEF Agents
  <2>3. QED
    BY <2>1, <2>2, FS_Subset
<1>2. PICK order \in Orders(woken \cup back) :
          running' = Head(ready \o order) /\ ready' = Tail(ready \o order)
  BY Zenon DEF Switch
<1>3. /\ order \in Seq(woken \cup back)
      /\ \A x : x \in woken \cup back <=> \E i \in DOMAIN order : order[i] = x
  BY <1>1, <1>2, OrderIsSequence
<1>4. order \in Seq(Agents)
  BY <1>3, woken \cup back \subseteq Agents DEF Agents
<1>5. ready \o order # <<>>
  <2>1. (\E i \in DOMAIN ready : TRUE) \/ (\E i \in DOMAIN order : TRUE)
    BY <1>3 DEF Queued
  <2>2. QED
    BY <2>1, <1>4
<1>6. ready \in Seq(Agents) /\ order \in Seq(Agents) /\ ready \o order # <<>>
  BY <1>4, <1>5
<1>7. /\ Head(ready \o order) \in Agents
      /\ Tail(ready \o order) \in Seq(Agents)
      /\ \A x : x = Head(ready \o order) \/ Holds(Tail(ready \o order), x)
            <=> Holds(ready, x) \/ Holds(order, x)
  BY <1>6, Dispatch, Zenon
<1>8. \A x : x = running' \/ Holds(ready', x) <=> Holds(ready, x) \/ Holds(order, x)
  BY <1>2, <1>7, Zenon
<1>9. \A x : (x \in Queued <=> Holds(ready, x)) /\ (x \in Queued' <=> Holds(ready', x))
  BY DEF Queued, Holds
<1>10. \A u : u \in Queued' \cup {running'} <=> u \in Queued \cup (woken \cup back)
  <2> TAKE u
  <2>1. u \in Queued' \cup {running'} <=> u \in Queued \/ Holds(order, u)
    BY <1>8, <1>9
  <2>2. u \in woken \cup back <=> Holds(order, u)
    BY <1>3, Zenon DEF Holds
  <2> HIDE DEF woken
  <2>3. QED
    BY <2>1, <2>2
<1>11. QED
  BY <1>2, <1>7, <1>10

-----------------------------------------------------------------------------
(* Typing *)

\* The simulator's thread never sleeps: it runs or is in the queue, which is
\* why the queue is never empty when a user thread blocks.
SimInTurn == Sim \in Queued \cup {running}

TypeInv == TypeOK /\ SimInTurn

\* An agent that yields leaves the scheduler's variables well typed.
LEMMA YieldType ==
    ASSUME TypeInv, NEW a \in Agents, running = a, Switch({a})
    PROVE  running' \in Agents /\ ready' \in Seq(Agents) /\ SimInTurn'
<1>1. ready \in Seq(Agents) /\ {a} \in SUBSET Agents /\ Sim \in Queued \cup {a}
  BY DEF TypeInv, TypeOK, SimInTurn
<1>2. QED
  BY <1>1, SwitchLemma, Zenon DEF SimInTurn

\* So does a user thread that blocks or ends.
LEMMA BlockType ==
    ASSUME TypeInv, NEW t \in Threads, running = t, Switch({})
    PROVE  running' \in Agents /\ ready' \in Seq(Agents) /\ SimInTurn'
<1>1. ready \in Seq(Agents) /\ {} \in SUBSET Agents /\ Sim \in Queued \cup {}
  BY SimThreadAssumption DEF TypeInv, TypeOK, SimInTurn
<1>2. QED
  BY <1>1, SwitchLemma, Zenon DEF SimInTurn

\* Types hold at the start.
LEMMA TypeInit == Init => TypeInv
<1> SUFFICES ASSUME Init PROVE TypeInv
  OBVIOUS
<1> USE SimThreadAssumption, SimWaitAssumption
<1>1. NoCond \in Cond
  BY DEF NoCond, Cond, Sigs, Ops, Values
<1>2. TypeOK
  BY <1>1 DEF Init, TypeOK, Agents, Places, Busy, Sleep, Dead, Values
<1>3. SimInTurn
  BY DEF Init, SimInTurn
<1>4. QED
  BY <1>2, <1>3 DEF TypeInv

\* The iface variables are typed by the steps that leave the threads' alone, and
\* the other way round.
ThreadTypes ==
    /\ running \in Agents
    /\ ready \in Seq(Agents)
    /\ at \in [Agents -> Places]
    /\ at[Sim] \in Busy
    /\ port \in [Threads -> 0 .. 2]
    /\ joining \in [Threads -> Threads \cup {NoThread}]
    /\ yields \in [Threads -> 0 .. MaxYields]
    /\ threadList \subseteq Threads
    /\ numRunning \in Nat /\ numTotal \in Int /\ waitCount \in Nat
    /\ deleted \subseteq Threads
    /\ outcome \in {"running", "spin", "drain", "undefined", "assert"}

IfaceTypes ==
    /\ val \in [Sigs -> Values]
    /\ cond \in [Waits -> Cond]
    /\ registered \subseteq Waits
    /\ todo \in [Agents -> SUBSET Waits]
    /\ current \in [Agents -> Waits \cup {NoWait}]
    /\ slot \in [Threads -> {0, 1}]
    /\ met \in [Threads -> BOOLEAN]

\* The types of the threads' variables and those of the interface's, apart.
LEMMA TypeParts == /\ TypeOK <=> ThreadTypes /\ IfaceTypes
                   /\ TypeOK' <=> ThreadTypes' /\ IfaceTypes'
  BY DEF TypeOK, ThreadTypes, IfaceTypes

\* A step that leaves the interface alone keeps its types.
LEMMA UnchangedIface == ASSUME TypeOK, UNCHANGED ifaceVars PROVE IfaceTypes'
  BY DEF TypeOK, IfaceTypes, ifaceVars

\* A step that changes none of the scheduler's variables.
LEMMA NoSwitch == ASSUME SimInTurn, UNCHANGED <<running, ready>> PROVE SimInTurn'
  BY DEF SimInTurn, Queued

\* A crash keeps the types of the threads' variables.
LEMMA CrashType ==
    ASSUME TypeInv, NEW reason \in {"drain", "undefined"}, Crash(reason)
    PROVE  ThreadTypes' /\ SimInTurn'
  BY NoSwitch DEF TypeInv, TypeOK, ThreadTypes, Crash

\* The steps of the tracker, of threads and of their ports.
LEMMA ThreadStepType ==
    ASSUME TypeInv, NEW t \in Threads, NEW u \in Threads,
           \/ Resume(t) \/ JoinReturn(t) \/ Cancelled(t) \/ Finish(t) \/ Orphan(t)
           \/ Yield(t) \/ Spawn(t, u) \/ Join(t, u) \/ Delete(t, u) \/ DeleteUnborn(t, u)
    PROVE  ThreadTypes' /\ SimInTurn'
<1> USE SimThreadAssumption
<1> /\ TypeOK /\ SimInTurn /\ t \in Agents /\ t # Sim
  BY DEF TypeInv, Agents
<1> USE DEF Places, Busy, Sleep, Dead
<1>1. CASE Resume(t)
  <2>1. CASE port[t] > 1
    BY <1>1, <2>1, CrashType DEF Resume
  <2>2. CASE ~(port[t] > 1)
    <3>1. /\ port' = [port EXCEPT ![t] = 0] /\ at' = [at EXCEPT ![t] = "code"]
          /\ UNCHANGED <<running, ready, joining, yields, threadList, numRunning,
                         numTotal, waitCount, deleted, outcome>>
      BY <1>1, <2>2 DEF Resume
    <3>2. QED
      BY <3>1, NoSwitch DEF TypeOK, ThreadTypes
  <2>3. QED
    BY <2>1, <2>2
<1>2. CASE JoinReturn(t)
  BY <1>2, NoSwitch DEF JoinReturn, TypeOK, ThreadTypes
<1>3. CASE Cancelled(t)
  <2>1. running = t /\ Switch({})
    BY <1>3 DEF Cancelled, On
  <2>2. running' \in Agents /\ ready' \in Seq(Agents) /\ SimInTurn'
    BY <2>1, BlockType
  <2>3. QED
    BY <1>3, <2>2 DEF Cancelled, TypeOK, ThreadTypes
<1>4. CASE Finish(t)
  <2>1. CASE numRunning - 1 >= 0
    <3>1. running = t /\ Switch({})
      BY <1>4, <2>1 DEF Finish, On
    <3>2. running' \in Agents /\ ready' \in Seq(Agents) /\ SimInTurn'
      BY <3>1, BlockType
    <3>3. numRunning' \in Nat /\ at' = [at EXCEPT ![t] = "finished"]
      BY <1>4, <2>1 DEF Finish, TypeOK
    <3>4. UNCHANGED <<port, joining, deleted, outcome, yields, threadList,
                      numTotal, waitCount>>
      BY <1>4, <2>1 DEF Finish
    <3>5. QED
      BY <3>2, <3>3, <3>4 DEF TypeOK, ThreadTypes
  <2>2. CASE ~(numRunning - 1 >= 0)
    BY <1>4, <2>2, NoSwitch DEF Finish, TypeOK, ThreadTypes
  <2>3. QED
    BY <2>1, <2>2
<1>5. CASE Orphan(t)
  BY <1>5, CrashType DEF Orphan
<1>6. CASE Yield(t)
  <2>1. running = t /\ Switch({t})
    BY <1>6 DEF Yield, On
  <2>2. running' \in Agents /\ ready' \in Seq(Agents) /\ SimInTurn'
    BY <2>1, YieldType
  <2>3. QED
    BY <1>6, <2>2 DEF Yield, TypeOK, ThreadTypes
<1>7. CASE Spawn(t, u)
  <2>1. ready' \in Seq(Agents) /\ \A i \in DOMAIN ready : i \in DOMAIN ready' /\ ready'[i] = ready[i]
    BY <1>7 DEF Spawn, AddThread, TypeOK, Agents
  <2>2. SimInTurn'
    BY <1>7, <2>1 DEF Spawn, SimInTurn, Queued
  <2>3. QED
    BY <1>7, <2>1, <2>2 DEF Spawn, AddThread, TypeOK, ThreadTypes
<1>8. CASE Join(t, u)
  <2>1. running = t /\ Switch({})
    BY <1>8 DEF Join, On
  <2>2. running' \in Agents /\ ready' \in Seq(Agents) /\ SimInTurn'
    BY <2>1, BlockType
  <2>3. QED
    BY <1>8, <2>2 DEF Join, TypeOK, ThreadTypes
<1>9. CASE Delete(t, u)
  BY <1>9, NoSwitch DEF Delete, TypeOK, ThreadTypes
<1>10. CASE DeleteUnborn(t, u)
  BY <1>10, CrashType DEF DeleteUnborn
<1>11. QED
  BY <1>1, <1>2, <1>3, <1>4, <1>5, <1>6, <1>7, <1>8, <1>9, <1>10

\* The calls of wait.
LEMMA WaitType ==
    ASSUME TypeInv, NEW t \in Threads, NEW op \in Ops, NEW s \in Watched, Wait(t, op, s)
    PROVE  TypeInv'
<1> USE SimThreadAssumption, SimWaitAssumption
<1> DEFINE n == IF <<t, 0>> \in registered THEN 1 ELSE 0
<1> DEFINE w == <<t, n>>
<1>1. /\ TypeOK /\ t \in Agents /\ t # Sim /\ running = t /\ Switch({})
      /\ w \in Waits /\ n \in {0, 1} /\ s \in Sigs
  BY DEF TypeInv, Agents, Wait, SleepOnPort, On, Waits, Sigs
<1>2. running' \in Agents /\ ready' \in Seq(Agents) /\ SimInTurn'
  BY <1>1, BlockType
<1>3. Condition(op, s) \in Cond
  BY <1>1 DEF Condition, change, posedge, negedge, Cond, Ops, TypeOK, Values
<1>4. IfaceTypes'
  BY <1>1, <1>3 DEF Wait, TypeOK, IfaceTypes
<1>5. ThreadTypes'
  BY <1>1, <1>2 DEF Wait, SleepOnPort, TypeOK, ThreadTypes, Places, Busy, Sleep, Dead
<1>6. QED
  BY <1>2, <1>4, <1>5, TypeParts DEF TypeInv

\* Value changes.
LEMMA ChangeType ==
    ASSUME TypeInv, NEW a \in Agents, NEW s \in Sigs, NEW v \in {"0", "1"},
           ChangeValue(a, s, v)
    PROVE  TypeInv'
<1> USE SimThreadAssumption
<1>1. TypeOK /\ SimInTurn
  BY DEF TypeInv
<1>2. IfaceTypes'
  <2>1. met' \in [Threads -> BOOLEAN]
    BY <1>1, Zenon DEF ChangeValue, TypeOK
  <2>2. {w \in registered : cond[w].sig = s} \in SUBSET Waits
    BY <1>1 DEF TypeOK
  <2>3. val' \in [Sigs -> Values] /\ todo' \in [Agents -> SUBSET Waits]
    BY <1>1, <2>2 DEF ChangeValue, TypeOK, Values
  <2>4. QED
    BY <1>1, <2>1, <2>3 DEF ChangeValue, TypeOK, IfaceTypes
<1>3. ThreadTypes'
  BY <1>1 DEF ChangeValue, TypeOK, ThreadTypes, Agents, Places, Busy
<1>4. SimInTurn'
  BY <1>1, NoSwitch DEF ChangeValue
<1>5. QED
  BY <1>2, <1>3, <1>4, TypeParts DEF TypeInv

\* The callbacks.
LEMMA CallbackType ==
    ASSUME TypeInv, NEW a \in Agents, Callback(a)
    PROVE  TypeInv'
<1> USE SimThreadAssumption, SimWaitAssumption
<1> SUFFICES ThreadTypes' /\ IfaceTypes' /\ SimInTurn'
  BY TypeParts DEF TypeInv
<1> TypeOK /\ SimInTurn
  BY DEF TypeInv
<1>1. CASE TestDangling(a)
  BY <1>1, CrashType, UnchangedIface DEF TestDangling
<1>2. CASE TestFalse(a)
  <2>1. PICK w \in todo[a] \cap registered :
            /\ cond' = [cond EXCEPT ![w].last = val[cond[w].sig]]
            /\ todo' = [todo EXCEPT ![a] = @ \ {w}]
    BY <1>2 DEF TestFalse
  <2>2. w \in Waits /\ cond[w] \in Cond /\ val[cond[w].sig] \in Values
    BY DEF TypeOK, Cond
  <2>3. [cond[w] EXCEPT !.last = val[cond[w].sig]] \in Cond
    BY <2>2 DEF Cond
  <2>4. cond' \in [Waits -> Cond]
    BY <2>1, <2>2, <2>3 DEF TypeOK
  <2>5. IfaceTypes'
    BY <1>2, <2>1, <2>4 DEF TestFalse, TypeOK, IfaceTypes
  <2>6. ThreadTypes'
    BY <1>2 DEF TestFalse, EnterWaitAll, TypeOK, ThreadTypes, Agents, Places, Busy
  <2>7. QED
    BY <1>2, <2>5, <2>6, NoSwitch DEF TestFalse
<1>3. CASE TestTrue(a)
  <2>1. PICK w \in todo[a] \cap registered :
            /\ current' = [current EXCEPT ![a] = w]
            /\ todo' = [todo EXCEPT ![a] = @ \ {w}]
            /\ Trigger(a, Thr(w))
    BY <1>3 DEF TestTrue
  <2>2. w \in Waits /\ Thr(w) \in Threads
    BY DEF TypeOK, Waits, Thr
  <2>3. running = a /\ Switch({a})
    BY <1>3, <2>1 DEF TestTrue, Trigger, On
  <2>4. running' \in Agents /\ ready' \in Seq(Agents) /\ SimInTurn'
    BY <2>3, YieldType
  <2>5. ThreadTypes'
    BY <2>1, <2>2, <2>4 DEF Trigger, TypeOK, ThreadTypes, Agents, Places, Busy
  <2>6. IfaceTypes'
    BY <1>3, <2>1, <2>2 DEF TestTrue, TypeOK, IfaceTypes
  <2>7. QED
    BY <2>4, <2>5, <2>6
<1>4. CASE RemoveSimCallbacks(a)
  <2>1. NoCond \in Cond
    BY DEF NoCond, Cond, Sigs, Ops, Values
  <2>2. IfaceTypes'
    BY <1>4, <2>1 DEF RemoveSimCallbacks, TypeOK, IfaceTypes
  <2>3. ThreadTypes'
    BY <1>4 DEF RemoveSimCallbacks, EnterWaitAll, TypeOK, ThreadTypes, Agents, Places, Busy
  <2>4. QED
    BY <1>4, <2>2, <2>3, NoSwitch DEF RemoveSimCallbacks
<1>5. CASE CallbacksDone(a)
  <2>1. ThreadTypes'
    BY <1>5 DEF CallbacksDone, TypeOK, ThreadTypes, Agents, Places, Busy
  <2>2. IfaceTypes'
    BY <1>5 DEF CallbacksDone, TypeOK, IfaceTypes
  <2>3. QED
    BY <1>5, <2>1, <2>2, NoSwitch DEF CallbacksDone
<1>6. CASE WaitAllThreadsBlocked(a) /\ UNCHANGED ifaceVars
  <2>1. IfaceTypes'
    BY <1>6, UnchangedIface
  <2>2. CASE UNCHANGED <<running, ready>>
    BY <1>6, <2>1, <2>2, NoSwitch
       DEF WaitAllThreadsBlocked, TypeOK, ThreadTypes, Agents, Places, Busy
  <2>3. CASE running = a /\ Switch({a}) /\ at' = at
    <3>1. running' \in Agents /\ ready' \in Seq(Agents) /\ SimInTurn'
      BY <2>3, YieldType
    <3>2. ThreadTypes'
      BY <1>6, <2>3, <3>1 DEF WaitAllThreadsBlocked, TypeOK, ThreadTypes
    <3>3. QED
      BY <2>1, <3>1, <3>2
  <2>4. QED
    BY <1>6, <2>2, <2>3 DEF WaitAllThreadsBlocked, On
<1>7. QED
  BY <1>1, <1>2, <1>3, <1>4, <1>5, <1>6 DEF Callback

\* Every step keeps the types.
LEMMA TypeStep == TypeInv /\ [Next]_vars => TypeInv'
<1> SUFFICES ASSUME TypeInv, [Next]_vars PROVE TypeInv'
  OBVIOUS
<1>1. ASSUME NEW s \in Clocked, NEW v \in {"0", "1"}, Tick(s, v) PROVE TypeInv'
  BY <1>1, ChangeType DEF Tick, Agents, Sigs
<1>2. ASSUME NEW a \in Agents, Callback(a) PROVE TypeInv'
  BY <1>2, CallbackType
<1>3. ASSUME NEW t \in Threads, Wakeup(t) PROVE TypeInv'
  <2>1. ThreadTypes' /\ SimInTurn'
    BY <1>3, ThreadStepType DEF Wakeup
  <2>2. IfaceTypes'
    BY <1>3 DEF Wakeup, TypeInv, TypeOK, IfaceTypes
  <2>3. QED
    BY <2>1, <2>2, TypeParts DEF TypeInv
<1>4. ASSUME NEW t \in Threads, Block(t) PROVE TypeInv'
  <2>1. CASE \E op \in Ops, s \in Watched : Wait(t, op, s)
    BY <2>1, WaitType
  <2>2. CASE (Finish(t) \/ Orphan(t)) /\ UNCHANGED ifaceVars
    BY <2>2, ThreadStepType, UnchangedIface, TypeParts DEF TypeInv
  <2>3. QED
    BY <1>4, <2>1, <2>2 DEF Block
<1>5. ASSUME NEW t \in Threads, UserStep(t) PROVE TypeInv'
  <2>1. ASSUME NEW s \in Driven, NEW v \in {"0", "1"}, Drive(t, s, v) PROVE TypeInv'
    BY <2>1, ChangeType DEF Drive, Agents, Sigs
  <2>2. ASSUME NEW u \in Threads, UNCHANGED ifaceVars,
               Spawn(t, u) \/ Join(t, u) \/ Delete(t, u) \/ DeleteUnborn(t, u)
        PROVE  TypeInv'
    BY <2>2, ThreadStepType, UnchangedIface, TypeParts DEF TypeInv
  <2>3. CASE Yield(t) /\ UNCHANGED ifaceVars
    BY <2>3, ThreadStepType, UnchangedIface, TypeParts DEF TypeInv
  <2>4. QED
    BY <1>5, <2>1, <2>2, <2>3 DEF UserStep
<1>6. CASE UNCHANGED vars
  BY <1>6 DEF vars, threadVars, ifaceVars, TypeInv, TypeOK, SimInTurn, Queued
<1>7. QED
  BY <1>1, <1>2, <1>3, <1>4, <1>5, <1>6 DEF Next

\* The variables always have the types of the members and locals they stand for.
THEOREM TypeCorrect == Spec => []TypeOK
<1>1. TypeInv => TypeOK
  BY DEF TypeInv
<1>2. QED
  BY <1>1, TypeInit, TypeStep, PTL DEF Spec

-----------------------------------------------------------------------------
(* Turns *)

\* The simulator leaves waitAllThreadsBlocked with an empty queue, and keeps the
\* processor until it enters the loop again.
SimAwake == at[Sim] \in {"code", "callbacks"} => running = Sim /\ ready = <<>>

\* Whoever neither runs nor is queued sleeps.
OthersSleep ==
    \A t \in Threads : t \notin Queued \cup {running} /\ Alive(t) => at[t] \in Sleep

\* The scheduler looks at all sleepers before it runs the simulator.
NobodyOverlooked ==
    running = Sim =>
        \A t \in Threads : t \notin Queued /\ at[t] \in Sleep => ~EventOccurred(t)

JoinsThread == \A t \in Threads : at[t] = "join" => joining[t] \in Threads

Turns == SimAwake /\ OthersSleep /\ NobodyOverlooked

TurnInv == TypeInv /\ Turns /\ JoinsThread

\* A switch by an agent that is queued again, sleeps or ends.
LEMMA SwitchTurns ==
    ASSUME TurnInv, NEW a \in Agents, running = a,
           NEW back \in SUBSET {a}, Switch(back), Sim \in Queued \cup back,
           a \in back \/ at'[a] \in Sleep \cup Dead,
           a = Sim => at'[Sim] \notin {"code", "callbacks"},
           \A u \in Agents \ {a} : at'[u] = at[u]
    PROVE  Turns'
<1> USE SimThreadAssumption
<1>1. \A u : u \in Queued' \cup {running'} <=>
          \/ u \in Queued \cup back
          \/ u \in Threads \ Queued /\ at'[u] \in Sleep /\ EventOccurred(u)'
  <2>1. ready \in Seq(Agents) /\ back \in SUBSET Agents
    BY DEF TurnInv, TypeInv, TypeOK
  <2>2. QED
    BY <2>1, SwitchLemma, Zenon
<1>2. SimAwake'
  BY DEF SimAwake, TurnInv, Turns, Agents
<1>3. OthersSleep'
  <2> SUFFICES ASSUME NEW u \in Threads, u \notin Queued' \cup {running'}, Alive(u)'
               PROVE  at'[u] \in Sleep
    BY DEF OthersSleep
  <2>1. u \notin Queued \cup back
    BY <1>1
  <2>2. CASE u = a
    BY <2>1, <2>2 DEF Alive
  <2>3. CASE u # a
    BY <2>1, <2>3 DEF TurnInv, Turns, OthersSleep, Alive, Agents
  <2>4. QED
    BY <2>2, <2>3
<1>4. NobodyOverlooked'
  <2> SUFFICES ASSUME running' = Sim, NEW u \in Threads, u \notin Queued', at'[u] \in Sleep,
                      EventOccurred(u)'
               PROVE  FALSE
    BY DEF NobodyOverlooked
  <2>1. u \notin Queued' \cup {running'}
    OBVIOUS
  <2>2. QED
    BY <1>1, <2>1
<1>5. QED
  BY <1>2, <1>3, <1>4 DEF Turns

\* A user thread goes on: it may have put other threads into the queue.
LEMMA UserTurns ==
    ASSUME TurnInv, NEW t \in Threads, running = t, running' = t,
           Queued \subseteq Queued', at'[Sim] = at[Sim],
           \A u \in Threads \ {t} : at'[u] = at[u] \/ u \in Queued'
    PROVE  Turns'
<1> USE SimThreadAssumption
<1>1. SimAwake' /\ NobodyOverlooked'
  BY DEF TurnInv, Turns, SimAwake, NobodyOverlooked
<1>2. OthersSleep'
  BY DEF TurnInv, Turns, OthersSleep, Alive
<1>3. QED
  BY <1>1, <1>2 DEF Turns

\* The simulator goes on.
LEMMA SimTurns ==
    ASSUME TurnInv, running = Sim, UNCHANGED <<running, ready, port, joining, deleted>>,
           \A u \in Threads : at'[u] = at[u],
           at'[Sim] \in {"code", "callbacks"} => ready = <<>>
    PROVE  Turns'
<1> USE SimThreadAssumption
<1>1. SimAwake'
  BY DEF SimAwake
<1>2. Queued' = Queued
  BY DEF Queued
<1>3. OthersSleep'
  BY <1>2 DEF TurnInv, Turns, OthersSleep, Alive
<1>4. NobodyOverlooked'
  BY <1>2 DEF TurnInv, Turns, NobodyOverlooked, JoinsThread, EventOccurred, Sleep
<1>5. QED
  BY <1>1, <1>3, <1>4 DEF Turns

\* Nothing the schedule depends on changes.
LEMMA SameTurns ==
    ASSUME TurnInv, UNCHANGED <<running, ready, at, port, joining, deleted>>
    PROVE  Turns' /\ JoinsThread'
  BY DEF TurnInv, Turns, SimAwake, OthersSleep, NobodyOverlooked, JoinsThread,
         EventOccurred, Queued, Alive

\* The steps of a user thread outside the interface keep the turns in order.
LEMMA ThreadTurns ==
    ASSUME TurnInv, NEW t \in Threads, NEW u \in Threads,
           \/ Resume(t) \/ JoinReturn(t) \/ Cancelled(t) \/ Finish(t) \/ Orphan(t)
           \/ Yield(t) \/ Spawn(t, u) \/ Join(t, u) \/ Delete(t, u) \/ DeleteUnborn(t, u)
    PROVE  Turns' /\ JoinsThread'
<1> USE SimThreadAssumption
<1>1. /\ TypeOK /\ JoinsThread /\ SimInTurn
      /\ t \in Agents /\ t # Sim
  BY DEF TurnInv, TypeInv, Agents
<1>2. running = t /\ at \in [Agents -> Places] /\ joining \in [Threads -> Threads \cup {NoThread}]
  BY <1>1 DEF TypeOK, Resume, JoinReturn, Cancelled, Finish, Orphan, Yield, Spawn, Join,
              Delete, DeleteUnborn, On
<1>3. Sim \in Queued
  BY <1>1, <1>2 DEF SimInTurn
<1>4. CASE Resume(t)
  <2>1. CASE port[t] > 1
    BY <1>4, <2>1, SameTurns DEF Resume, Crash
  <2>2. CASE ~(port[t] > 1)
    <3>1. UNCHANGED <<running, ready, joining>> /\ at' = [at EXCEPT ![t] = "code"]
      BY <1>4, <2>2 DEF Resume
    <3>2. Turns'
      BY <1>1, <1>2, <3>1, UserTurns DEF Queued, Agents
    <3>3. QED
      BY <1>1, <1>2, <3>1, <3>2 DEF JoinsThread, Agents
  <2>3. QED
    BY <2>1, <2>2
<1>5. CASE JoinReturn(t)
  <2>1. UNCHANGED <<running, ready>> /\ at' = [at EXCEPT ![t] = "code"]
    BY <1>5 DEF JoinReturn
  <2>2. Turns'
    BY <1>1, <1>2, <2>1, UserTurns DEF Queued, Agents
  <2>3. QED
    BY <1>1, <1>2, <1>5, <2>2 DEF JoinReturn, JoinsThread, Agents
<1>6. CASE Cancelled(t)
  <2>1. Switch({}) /\ at' = [at EXCEPT ![t] = "cancelled"] /\ joining' = joining
    BY <1>6 DEF Cancelled
  <2>2. Turns'
    BY <1>1, <1>2, <1>3, <2>1, SwitchTurns DEF Dead
  <2>3. QED
    BY <1>1, <1>2, <2>1, <2>2 DEF JoinsThread, Agents
<1>7. CASE Finish(t)
  <2>1. CASE Switch({}) /\ at' = [at EXCEPT ![t] = "finished"] /\ joining' = joining
    <3>1. Turns'
      BY <1>1, <1>2, <1>3, <2>1, SwitchTurns DEF Dead
    <3>2. QED
      BY <1>1, <1>2, <2>1, <3>1 DEF JoinsThread, Agents
  <2>2. CASE UNCHANGED <<running, ready, at, port, joining, deleted>>
    BY <2>2, SameTurns
  <2>3. QED
    BY <1>7, <2>1, <2>2 DEF Finish
<1>8. CASE Orphan(t)
  BY <1>8, SameTurns DEF Orphan, Crash
<1>9. CASE Yield(t)
  <2>1. Switch({t}) /\ UNCHANGED <<at, joining>>
    BY <1>9 DEF Yield
  <2>2. Turns'
    BY <1>1, <1>2, <1>3, <2>1, SwitchTurns
  <2>3. QED
    BY <1>1, <2>1, <2>2 DEF JoinsThread
<1>10. CASE Spawn(t, u)
  <2>1. /\ running' = running /\ joining' = joining
        /\ ready' = Append(ready, u) /\ at' = [at EXCEPT ![u] = "code"]
    BY <1>10 DEF Spawn, AddThread
  <2>2. Queued \subseteq Queued' /\ u \in Queued'
    <3>1. ready \in Seq(Agents) /\ u \in Agents
      BY <1>1 DEF TypeOK, Agents
    <3>2. /\ \A i \in DOMAIN ready : i \in DOMAIN ready' /\ ready'[i] = ready[i]
          /\ Len(ready) + 1 \in DOMAIN ready' /\ ready'[Len(ready) + 1] = u
      BY <2>1, <3>1
    <3>3. QED
      BY <3>2 DEF Queued
  <2>3. Turns'
    BY <1>1, <1>2, <2>1, <2>2, UserTurns DEF Agents
  <2>4. QED
    BY <1>1, <1>2, <2>1, <2>3 DEF JoinsThread, Agents
<1>11. CASE Join(t, u)
  <2>1. Switch({}) /\ at' = [at EXCEPT ![t] = "join"] /\ joining' = [joining EXCEPT ![t] = u]
    BY <1>11 DEF Join
  <2>2. Turns'
    BY <1>1, <1>2, <1>3, <2>1, SwitchTurns DEF Sleep
  <2>3. QED
    BY <1>1, <1>2, <2>1, <2>2 DEF JoinsThread, Agents
<1>12. CASE Delete(t, u)
  <2>1. UNCHANGED <<running, ready, at, joining>>
    BY <1>12 DEF Delete
  <2>2. Turns'
    BY <1>2, <2>1, UserTurns DEF Queued
  <2>3. QED
    BY <1>1, <2>1, <2>2 DEF JoinsThread
<1>13. CASE DeleteUnborn(t, u)
  BY <1>13, SameTurns DEF DeleteUnborn, Crash
<1>14. QED
  BY <1>4, <1>5, <1>6, <1>7, <1>8, <1>9, <1>10, <1>11, <1>12, <1>13

\* So do the steps of a wait.
LEMMA WaitTurns ==
    ASSUME TurnInv, NEW t \in Threads, NEW op \in Ops, NEW s \in Watched, Wait(t, op, s)
    PROVE  Turns' /\ JoinsThread'
<1> USE SimThreadAssumption
<1>1. /\ running = t /\ Switch({}) /\ at' = [at EXCEPT ![t] = "wait"] /\ joining' = joining
      /\ at \in [Agents -> Places] /\ t \in Agents /\ t # Sim /\ Sim \in Queued
  BY DEF Wait, SleepOnPort, On, TurnInv, TypeInv, TypeOK, SimInTurn, Agents
<1>2. Turns'
  BY <1>1, SwitchTurns DEF Sleep
<1>3. QED
  BY <1>1, <1>2 DEF TurnInv, JoinsThread, Agents

\* An agent moves on within its own code or its callbacks.
LEMMA MoveTurns ==
    ASSUME TurnInv, NEW a \in Agents, running = a, NEW place \in Busy,
           at' = [at EXCEPT ![a] = place],
           UNCHANGED <<running, ready, port, joining, deleted>>,
           place \in {"code", "callbacks"} =>
               at[a] \in {"code", "callbacks"} \/ ready = <<>>
    PROVE  Turns' /\ JoinsThread'
<1> USE SimThreadAssumption
<1>1. at \in [Agents -> Places] /\ JoinsThread /\ Sim \in Agents
  BY DEF TurnInv, TypeInv, TypeOK, Agents
<1>2. CASE a = Sim
  <2>1. place \in {"code", "callbacks"} => ready = <<>>
    BY <1>2 DEF TurnInv, Turns, SimAwake
  <2>2. Turns'
    BY <1>1, <1>2, <2>1, SimTurns DEF Agents
  <2>3. QED
    BY <1>1, <1>2, <2>2 DEF JoinsThread, Agents
<1>3. CASE a # Sim
  <2>1. a \in Threads
    BY <1>3 DEF Agents
  <2>2. Turns'
    BY <1>1, <1>3, <2>1, UserTurns DEF Queued, Agents
  <2>3. QED
    BY <1>1, <2>1, <2>2 DEF JoinsThread, Agents, Busy
<1>4. QED
  BY <1>2, <1>3

\* So do the steps inside a simulator callback.
LEMMA CallbackTurns ==
    ASSUME TurnInv, NEW a \in Agents, Callback(a)
    PROVE  Turns' /\ JoinsThread'
<1> USE SimThreadAssumption
<1>1. at \in [Agents -> Places] /\ JoinsThread /\ SimInTurn
  BY DEF TurnInv, TypeInv, TypeOK
<1>2. CASE TestDangling(a)
  BY <1>2, SameTurns DEF TestDangling, Crash
<1>3. CASE TestFalse(a)
  BY <1>3, MoveTurns DEF TestFalse, EnterWaitAll, On, Busy
<1>4. CASE TestTrue(a)
  <2>1. /\ running = a /\ Switch({a}) /\ joining' = joining
        /\ at' = [at EXCEPT ![a] = "trigger"]
    BY <1>4 DEF TestTrue, Trigger, On
  <2>2. Sim \in Queued \cup {a}
    BY <1>1, <2>1 DEF SimInTurn
  <2>3. Turns'
    BY <1>1, <2>1, <2>2, SwitchTurns
  <2>4. QED
    BY <1>1, <2>1, <2>3 DEF JoinsThread, Agents
<1>5. CASE RemoveSimCallbacks(a)
  BY <1>5, MoveTurns DEF RemoveSimCallbacks, EnterWaitAll, On, Busy
<1>6. CASE CallbacksDone(a)
  BY <1>6, MoveTurns DEF CallbacksDone, On, Busy
<1>7. CASE WaitAllThreadsBlocked(a)
  <2>1. CASE ready = <<>>
    <3>1. /\ at' = [at EXCEPT ![a] = "callbacks"] /\ running = a
          /\ UNCHANGED <<running, ready, port, joining, deleted>>
      BY <1>7, <2>1 DEF WaitAllThreadsBlocked, On
    <3>2. QED
      BY <2>1, <3>1, MoveTurns DEF Busy
  <2>2. CASE ready # <<>>
    <3>1. /\ running = a /\ at[a] = "waitAll"
          /\ UNCHANGED <<at, port, joining, deleted>>
          /\ UNCHANGED <<running, ready>> \/ Switch({a})
      BY <1>7, <2>2 DEF WaitAllThreadsBlocked, On
    <3>2. CASE UNCHANGED <<running, ready>>
      BY <3>1, <3>2, SameTurns
    <3>3. CASE Switch({a})
      <4>1. Sim \in Queued \cup {a}
        BY <1>1, <3>1 DEF SimInTurn
      <4>2. Turns'
        BY <1>1, <3>1, <3>3, <4>1, SwitchTurns
      <4>3. QED
        BY <1>1, <3>1, <4>2 DEF JoinsThread
    <3>4. QED
      BY <3>1, <3>2, <3>3
  <2>3. QED
    BY <2>1, <2>2
<1>8. QED
  BY <1>2, <1>3, <1>4, <1>5, <1>6, <1>7 DEF Callback

\* So does a change of a signal, which begins the callbacks.
LEMMA ChangeTurns ==
    ASSUME TurnInv, NEW a \in Agents, NEW s, NEW v, ChangeValue(a, s, v)
    PROVE  Turns' /\ JoinsThread'
  BY MoveTurns DEF ChangeValue, On, Busy

\* The invariant of the turns is inductive.
LEMMA TurnStep == TurnInv /\ [Next]_vars => TurnInv'
<1> SUFFICES ASSUME TurnInv, [Next]_vars PROVE Turns' /\ JoinsThread'
  BY TypeStep DEF TurnInv
<1>1. ASSUME NEW s \in Clocked, NEW v \in {"0", "1"}, Tick(s, v)
      PROVE  Turns' /\ JoinsThread'
  BY <1>1, ChangeTurns DEF Tick, Agents
<1>2. ASSUME NEW a \in Agents, Callback(a) PROVE Turns' /\ JoinsThread'
  BY <1>2, CallbackTurns
<1>3. ASSUME NEW t \in Threads, Wakeup(t) PROVE Turns' /\ JoinsThread'
  BY <1>3, ThreadTurns DEF Wakeup
<1>4. ASSUME NEW t \in Threads, Block(t) PROVE Turns' /\ JoinsThread'
  <2>1. ASSUME NEW op \in Ops, NEW s \in Watched, Wait(t, op, s)
        PROVE  Turns' /\ JoinsThread'
    BY <2>1, WaitTurns
  <2>2. CASE Finish(t) \/ Orphan(t)
    BY <2>2, ThreadTurns
  <2>3. QED
    BY <1>4, <2>1, <2>2 DEF Block
<1>5. ASSUME NEW t \in Threads, UserStep(t) PROVE Turns' /\ JoinsThread'
  <2>1. ASSUME NEW s \in Driven, NEW v \in {"0", "1"}, Drive(t, s, v)
        PROVE  Turns' /\ JoinsThread'
    BY <2>1, ChangeTurns DEF Drive, Agents
  <2>2. ASSUME NEW u \in Threads,
               Spawn(t, u) \/ Join(t, u) \/ Delete(t, u) \/ DeleteUnborn(t, u)
        PROVE  Turns' /\ JoinsThread'
    BY <2>2, ThreadTurns
  <2>3. CASE Yield(t)
    BY <2>3, ThreadTurns
  <2>4. QED
    BY <1>5, <2>1, <2>2, <2>3 DEF UserStep
<1>6. CASE UNCHANGED vars
  BY <1>6, SameTurns DEF vars, threadVars
<1>7. QED
  BY <1>1, <1>2, <1>3, <1>4, <1>5, <1>6 DEF Next

\* It holds at the start.
LEMMA TurnInit == Init => TurnInv
<1> SUFFICES ASSUME Init PROVE Turns /\ JoinsThread
  BY TypeInit DEF TurnInv
<1>1. Queued = {MainThread}
  BY SimThreadAssumption DEF Init, Queued
<1>2. QED
  BY <1>1, SimThreadAssumption
     DEF Init, Turns, JoinsThread, SimAwake, OthersSleep, NobodyOverlooked, Agents,
         Alive, Sleep

\* Whenever the simulator runs its own code, every user thread that is alive
\* sleeps on an event that has not occurred: for any number of threads, whatever
\* they spawn, join, delete, drive and wait for.
THEOREM SimRunsAloneTheorem == Spec => []SimRunsAlone
<1>1. TurnInv => SimRunsAlone
  <2> SUFFICES ASSUME TurnInv, running = Sim, at[Sim] = "code"
               PROVE  /\ ready = <<>>
                      /\ \A t \in Threads : Alive(t) => at[t] \in Sleep /\ ~EventOccurred(t)
    BY DEF SimRunsAlone
  <2>1. ready = <<>> /\ Queued = {}
    BY DEF TurnInv, Turns, SimAwake, Queued
  <2>2. QED
    BY <2>1, SimThreadAssumption DEF TurnInv, Turns, OthersSleep, NobodyOverlooked
<1>2. QED
  BY <1>1, TurnInit, TurnStep, PTL DEF Spec
=============================================================================
