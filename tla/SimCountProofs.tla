--------------------------- MODULE SimCountProofs ---------------------------
(***************************************************************************)
(* What the tracker's counters say, for every set of threads: the          *)
(* assertion of decRunningThreads always holds, and as long as only        *)
(* threads that are over are deleted, the counters are exact.              *)
(***************************************************************************)
EXTENDS SimWaitProofs

AliveThreads == {t \in Threads : Alive(t)}

\* What a step does to the number of running threads: a thread is born, or ends,
\* or is cancelled, which is not counted, or none of these.
KeepsAlive == AliveThreads' = AliveThreads /\ numRunning' = numRunning
Births == \E u \in Threads : /\ AliveThreads' = AliveThreads \cup {u} /\ u \notin AliveThreads
                             /\ numRunning' = numRunning + 1
Ends == \E t \in AliveThreads : /\ AliveThreads' = AliveThreads \ {t}
                                /\ numRunning' = numRunning - 1
Cancels == \E t \in AliveThreads \cap deleted : /\ AliveThreads' = AliveThreads \ {t}
                                                /\ numRunning' = numRunning

\* The thread list has born threads only.
ListBorn == \A t \in threadList : at[t] # "unborn"

\* The same for the list, and for the assertion, which looks at numRunning only
\* in a thread that is alive.
ListKept == UNCHANGED <<threadList, numTotal>> /\ (ListBorn => ListBorn')
ListGrows == \E u \in Threads : /\ at[u] = "unborn" /\ threadList' = threadList \cup {u}
                                /\ numTotal' = numTotal + 1 /\ (ListBorn => ListBorn')
ListShrinks == \E u \in threadList : /\ threadList' = threadList \ {u}
                                     /\ numTotal' = numTotal - 1 /\ (ListBorn => ListBorn')
AssertChecked == outcome' = "assert" => outcome = "assert" \/ (AliveThreads # {} /\ numRunning < 1)

Counted ==
    /\ KeepsAlive \/ Births \/ Ends \/ Cancels
    /\ ListKept \/ ListGrows \/ ListShrinks
    /\ AssertChecked

-----------------------------------------------------------------------------
\* An agent moves from one place of a living thread to another.
LEMMA Moves ==
    ASSUME TypeOK, NEW a \in Agents, at[a] \in Busy \cup Sleep,
           NEW p \in Busy \cup Sleep, at' = [at EXCEPT ![a] = p]
    PROVE  AliveThreads' = AliveThreads /\ \A t \in Threads : at'[t] = "unborn" => at[t] = "unborn"
<1>1. at \in [Agents -> Places] /\ Threads \subseteq Agents
  BY DEF TypeOK, Agents
<1>2. \A t \in Threads : Alive(t)' <=> Alive(t)
  BY <1>1 DEF Alive, Dead, Busy, Sleep
<1>3. \A t \in Threads : at'[t] = "unborn" => at[t] = "unborn"
  BY <1>1 DEF Busy, Sleep
<1> QED
  BY <1>2, <1>3 DEF AliveThreads

\* A step that moves an agent, or nobody, and does not count.
LEMMA MoveCounted ==
    ASSUME TypeOK, NEW a \in Agents, at[a] \in Busy \cup Sleep,
           NEW p \in Busy \cup Sleep, at' = at \/ at' = [at EXCEPT ![a] = p],
           UNCHANGED <<threadList, numRunning, numTotal>>, outcome' # "assert" \/ outcome' = outcome
    PROVE  Counted
<1>1. AliveThreads' = AliveThreads /\ \A t \in Threads : at'[t] = "unborn" => at[t] = "unborn"
  BY Moves DEF AliveThreads, Alive
<1>2. threadList \subseteq Threads
  BY DEF TypeOK
<1> QED
  BY <1>1, <1>2 DEF Counted, KeepsAlive, ListKept, ListBorn, AssertChecked

\* The end of a thread that is alive.
LEMMA Leaves ==
    ASSUME TypeOK, NEW t \in Threads, at[t] \in Busy \cup Sleep,
           NEW p \in Dead, at' = [at EXCEPT ![t] = p]
    PROVE  /\ t \in AliveThreads /\ AliveThreads' = AliveThreads \ {t}
           /\ \A u \in Threads : at'[u] = "unborn" => at[u] = "unborn"
<1>1. at \in [Agents -> Places] /\ Threads \subseteq Agents
  BY DEF TypeOK, Agents
<1>2. Alive(t) /\ ~Alive(t)' /\ \A u \in Threads \ {t} : Alive(u)' <=> Alive(u)
  BY <1>1 DEF Alive, Dead, Busy, Sleep
<1>3. \A u \in Threads : at'[u] = "unborn" => at[u] = "unborn"
  BY <1>1 DEF Dead
<1> QED
  BY <1>2, <1>3 DEF AliveThreads

\* A step of a user thread changes nrRunning together with the set of live threads.
LEMMA ThreadCounted ==
    ASSUME TypeOK, NEW t \in Threads, NEW u \in Threads,
           \/ Resume(t) \/ JoinReturn(t) \/ Cancelled(t) \/ Finish(t) \/ Orphan(t)
           \/ Yield(t) \/ Spawn(t, u) \/ Join(t, u) \/ Delete(t, u) \/ DeleteUnborn(t, u)
    PROVE  Counted
<1>1. t \in Agents /\ threadList \subseteq Threads
  BY DEF TypeOK, Agents
<1>2. CASE Resume(t)
  BY <1>1, <1>2, MoveCounted, "code" \in Busy DEF Resume, Crash, On, Busy, Sleep
<1>3. CASE JoinReturn(t)
  BY <1>1, <1>3, MoveCounted DEF JoinReturn, On, Busy, Sleep
<1>4. CASE Cancelled(t)
  <2>1. /\ at[t] \in Busy \cup Sleep /\ at' = [at EXCEPT ![t] = "cancelled"] /\ t \in deleted
        /\ UNCHANGED <<threadList, numRunning, numTotal, outcome>>
    BY <1>4 DEF Cancelled, On
  <2>2. /\ t \in AliveThreads /\ AliveThreads' = AliveThreads \ {t}
        /\ \A v \in Threads : at'[v] = "unborn" => at[v] = "unborn"
    BY <2>1, Leaves DEF Dead
  <2> QED
    BY <1>1, <2>1, <2>2 DEF Counted, Cancels, ListKept, ListBorn, AssertChecked
<1>5. CASE Finish(t)
  <2>1. at[t] \in Busy \cup Sleep /\ UNCHANGED <<threadList, numTotal>>
    BY <1>5 DEF Finish, On, Busy
  <2>2. CASE numRunning - 1 >= 0
    <3>1. numRunning' = numRunning - 1 /\ outcome' = outcome /\ at' = [at EXCEPT ![t] = "finished"]
      BY <1>5, <2>2 DEF Finish
    <3>2. /\ t \in AliveThreads /\ AliveThreads' = AliveThreads \ {t}
          /\ \A v \in Threads : at'[v] = "unborn" => at[v] = "unborn"
      BY <2>1, <3>1, Leaves DEF Dead
    <3> QED
      BY <1>1, <2>1, <3>1, <3>2 DEF Counted, Ends, ListKept, ListBorn, AssertChecked
  <2>3. CASE ~(numRunning - 1 >= 0)
    <3>1. UNCHANGED <<at, numRunning>>
      BY <1>5, <2>3 DEF Finish
    <3>2. t \in AliveThreads
      BY <2>1 DEF AliveThreads, Alive, Busy, Sleep, Dead
    <3>3. numRunning < 1
      BY <2>3 DEF TypeOK
    <3> QED
      BY <1>1, <2>1, <3>1, <3>2, <3>3
         DEF Counted, KeepsAlive, AliveThreads, Alive, ListKept, ListBorn, AssertChecked
  <2> QED
    BY <2>2, <2>3
<1>6. CASE Orphan(t)
  BY <1>1, <1>6, MoveCounted DEF Orphan, Crash, On, Busy
<1>7. CASE Yield(t)
  BY <1>1, <1>7, MoveCounted DEF Yield, On, Busy
<1>8. CASE Spawn(t, u)
  <2>1. /\ at[u] = "unborn" /\ at' = [at EXCEPT ![u] = "code"] /\ threadList' = threadList \cup {u}
        /\ numTotal' = numTotal + 1 /\ numRunning' = numRunning + 1 /\ outcome' = outcome
    BY <1>8 DEF Spawn, AddThread
  <2>2. at \in [Agents -> Places] /\ Threads \subseteq Agents
    BY DEF TypeOK, Agents
  <2>3. ~Alive(u) /\ Alive(u)' /\ \A v \in Threads \ {u} : Alive(v)' <=> Alive(v)
    BY <2>1, <2>2 DEF Alive, Dead
  <2>4. AliveThreads' = AliveThreads \cup {u} /\ u \notin AliveThreads
    BY <2>3 DEF AliveThreads
  <2>5. ListBorn => ListBorn'
    BY <1>1, <2>1, <2>2 DEF ListBorn
  <2> QED
    BY <2>1, <2>4, <2>5 DEF Counted, Births, ListGrows, AssertChecked
<1>9. CASE Join(t, u)
  BY <1>1, <1>9, MoveCounted DEF Join, On, Busy, Sleep
<1>10. CASE Delete(t, u)
  BY <1>1, <1>10 DEF Delete, Counted, KeepsAlive, AliveThreads, Alive, ListShrinks, ListBorn,
                     AssertChecked
<1>11. CASE DeleteUnborn(t, u)
  BY <1>1, <1>11, MoveCounted DEF DeleteUnborn, Crash, On, Busy
<1> QED
  BY <1>2, <1>3, <1>4, <1>5, <1>6, <1>7, <1>8, <1>9, <1>10, <1>11

\* So does a step inside a simulator callback.
LEMMA CallbackCounted == ASSUME TypeOK, NEW a \in Agents, Callback(a) PROVE Counted
<1>1. CASE TestDangling(a)
  BY <1>1, MoveCounted DEF TestDangling, Crash, On, Busy
<1>2. CASE TestFalse(a)
  BY <1>2, MoveCounted DEF TestFalse, EnterWaitAll, On, Busy
<1>3. CASE TestTrue(a)
  BY <1>3, MoveCounted DEF TestTrue, Trigger, On, Busy
<1>4. CASE RemoveSimCallbacks(a)
  BY <1>4, MoveCounted DEF RemoveSimCallbacks, EnterWaitAll, On, Busy
<1>5. CASE CallbacksDone(a)
  BY <1>5, MoveCounted DEF CallbacksDone, On, Busy
<1>6. CASE WaitAllThreadsBlocked(a)
  <2>1. /\ at[a] \in Busy /\ UNCHANGED <<threadList, numRunning, numTotal>>
        /\ at' = at \/ at' = [at EXCEPT ![a] = "callbacks"]
        /\ outcome' # "assert" \/ outcome' = outcome
    BY <1>6 DEF WaitAllThreadsBlocked, On, Busy
  <2> QED
    BY <2>1, MoveCounted DEF Busy
<1> QED
  BY <1>1, <1>2, <1>3, <1>4, <1>5, <1>6 DEF Callback

\* Every step of the program keeps the account.
LEMMA StepCounted == TypeOK /\ [Next]_vars => Counted
<1> SUFFICES ASSUME TypeOK, [Next]_vars PROVE Counted
  OBVIOUS
<1>1. ASSUME NEW a \in Agents, NEW s, NEW v, ChangeValue(a, s, v) PROVE Counted
  BY <1>1, MoveCounted DEF ChangeValue, On, Busy
<1>2. ASSUME NEW s \in Clocked, NEW v \in {"0", "1"}, Tick(s, v) PROVE Counted
  BY <1>1, <1>2 DEF Tick, Agents
<1>3. ASSUME NEW a \in Agents, Callback(a) PROVE Counted
  BY <1>3, CallbackCounted
<1>4. ASSUME NEW t \in Threads, Wakeup(t) PROVE Counted
  BY <1>4, ThreadCounted DEF Wakeup
<1>5. ASSUME NEW t \in Threads, Block(t) PROVE Counted
  <2>1. ASSUME NEW op \in Ops, NEW s \in Watched, Wait(t, op, s) PROVE Counted
    BY <2>1, MoveCounted DEF Wait, SleepOnPort, On, Busy, Sleep, Agents
  <2> QED
    BY <1>5, <2>1, ThreadCounted DEF Block
<1>6. ASSUME NEW t \in Threads, UserStep(t) PROVE Counted
  <2>1. ASSUME NEW s \in Driven, NEW v \in {"0", "1"}, Drive(t, s, v) PROVE Counted
    BY <1>1, <2>1 DEF Drive, Agents
  <2> QED
    BY <1>6, <2>1, ThreadCounted DEF UserStep
<1>7. CASE UNCHANGED vars
  BY <1>7 DEF vars, threadVars, Counted, KeepsAlive, AliveThreads, Alive, ListKept, ListBorn,
              AssertChecked
<1> QED
  BY <1>2, <1>3, <1>4, <1>5, <1>6, <1>7 DEF Next

-----------------------------------------------------------------------------
\* Cancelled threads are never counted off, so that the counter may be too high.
CountInv == TypeOK /\ outcome # "assert" /\ numRunning >= Cardinality(AliveThreads)

\* There are finitely many live threads, so that they can be counted.
LEMMA AliveFinite == IsFiniteSet(AliveThreads) /\ Cardinality(AliveThreads) \in Nat
<1>1. IsFiniteSet(AliveThreads)
  BY SimThreadAssumption, FS_Subset DEF AliveThreads
<1> QED
  BY <1>1, FS_CardinalityType

\* The account is right at the start.
LEMMA InitCount ==
    Init => AliveThreads = {MainThread} /\ numRunning = 1 /\ numTotal = 1 /\ threadList = {MainThread}
  BY SimThreadAssumption DEF Init, AliveThreads, Alive, Dead, Agents

\* The invariant behind AssertionHolds is inductive.
LEMMA CountStep == CountInv /\ TypeOK' /\ [Next]_vars => CountInv'
<1> SUFFICES ASSUME CountInv, TypeOK', [Next]_vars PROVE CountInv'
  OBVIOUS
<1>1. TypeOK /\ Counted /\ numRunning \in Nat
  BY StepCounted DEF CountInv, TypeOK
<1>2. /\ IsFiniteSet(AliveThreads) /\ Cardinality(AliveThreads) \in Nat
      /\ \A t : Cardinality(AliveThreads \ {t}) =
                    IF t \in AliveThreads THEN Cardinality(AliveThreads) - 1 ELSE Cardinality(AliveThreads)
      /\ \A u : Cardinality(AliveThreads \cup {u}) =
                    IF u \in AliveThreads THEN Cardinality(AliveThreads) ELSE Cardinality(AliveThreads) + 1
  BY AliveFinite, FS_RemoveElement, FS_AddElement
<1>3. numRunning' >= Cardinality(AliveThreads')
  BY <1>1, <1>2 DEF Counted, KeepsAlive, Births, Ends, Cancels, CountInv
<1>4. AliveThreads # {} => numRunning >= 1
  <2>1. AliveThreads # {} => Cardinality(AliveThreads) # 0
    BY <1>2, FS_EmptySet
  <2> QED
    BY <1>1, <1>2, <2>1 DEF CountInv
<1>5. outcome' # "assert"
  BY <1>1, <1>4 DEF CountInv, Counted, AssertChecked
<1> QED
  BY <1>3, <1>5 DEF CountInv

\* The assertion of decRunningThreads never fails, in whatever order threads are
\* spawned, finish, are deleted and cancelled: a deleted thread is counted off
\* too seldom, never too often.
THEOREM AssertionTheorem == Spec => []AssertionHolds
<1>1. Init /\ TypeOK => CountInv
  <2> SUFFICES ASSUME Init, TypeOK PROVE CountInv
    OBVIOUS
  <2>1. Cardinality(AliveThreads) = 1 /\ numRunning = 1
    BY InitCount, FS_Singleton
  <2> QED
    BY <2>1 DEF CountInv, Init
<1>2. CountInv => AssertionHolds
  BY DEF CountInv, AssertionHolds
<1> QED
  BY <1>1, <1>2, CountStep, TypeCorrect, PTL DEF Spec

-----------------------------------------------------------------------------
\* A program that deletes only threads that are over.
DeletedDead == \A t \in deleted : at[t] \in Dead

ExactInv ==
    /\ TypeOK /\ DeletedDead /\ ListBorn
    /\ numRunning = Cardinality(AliveThreads)
    /\ numTotal = Cardinality(threadList)

\* Dead threads stay dead, and only they are deleted.
LEMMA DeadStep ==
    ASSUME DeleteLive = FALSE, TypeOK, DeletedDead, [Next]_vars PROVE DeletedDead'
<1>1. at \in [Agents -> Places] /\ Threads \subseteq Agents /\ deleted \subseteq Threads
  BY DEF TypeOK, Agents
<1>2. ASSUME NEW a \in Agents, at[a] \in Busy \cup Sleep \cup {"unborn"}, NEW p,
             at' = at \/ at' = [at EXCEPT ![a] = p], deleted' = deleted
      PROVE  DeletedDead'
  BY <1>1, <1>2 DEF DeletedDead, Dead, Busy, Sleep
<1>3. ASSUME NEW a \in Agents, NEW s, NEW v, ChangeValue(a, s, v) PROVE DeletedDead'
  BY <1>2, <1>3 DEF ChangeValue, On, Busy
<1>4. ASSUME NEW s \in Clocked, NEW v \in {"0", "1"}, Tick(s, v) PROVE DeletedDead'
  BY <1>3, <1>4 DEF Tick, Agents
<1>5. ASSUME NEW a \in Agents, Callback(a) PROVE DeletedDead'
  <2>1. at[a] \in Busy /\ deleted' = deleted /\ (at' = at \/ \E p : at' = [at EXCEPT ![a] = p])
    BY <1>5 DEF Callback, TestDangling, TestFalse, TestTrue, RemoveSimCallbacks, CallbacksDone,
                WaitAllThreadsBlocked, Trigger, EnterWaitAll, Crash, On, Busy
  <2> QED
    BY <1>2, <2>1
<1>6. ASSUME NEW t \in Threads, Resume(t) \/ JoinReturn(t) \/ Cancelled(t) \/ Finish(t) \/ Orphan(t)
                                \/ Yield(t)
      PROVE  DeletedDead'
  <2>1. /\ t \in Agents /\ at[t] \in Busy \cup Sleep /\ deleted' = deleted
        /\ at' = at \/ \E p : at' = [at EXCEPT ![t] = p]
    BY <1>1, <1>6 DEF Resume, JoinReturn, Cancelled, Finish, Orphan, Yield, Crash, On, Busy, Sleep
  <2> QED
    BY <1>2, <2>1
<1>7. ASSUME NEW t \in Threads, NEW u \in Threads,
             Spawn(t, u) \/ Join(t, u) \/ DeleteUnborn(t, u)
      PROVE  DeletedDead'
  <2>1. CASE Spawn(t, u)
    BY <1>1, <1>2, <2>1 DEF Spawn, AddThread
  <2>2. CASE Join(t, u)
    BY <1>1, <1>2, <2>2 DEF Join, On, Busy
  <2>3. CASE DeleteUnborn(t, u)
    BY <2>3 DEF DeleteUnborn
  <2> QED
    BY <1>7, <2>1, <2>2, <2>3
<1>8. ASSUME NEW t \in Threads, NEW u \in Threads, Delete(t, u) PROVE DeletedDead'
  BY <1>8 DEF Delete, DeletedDead
<1>9. ASSUME NEW t \in Threads, NEW op, NEW s, Wait(t, op, s) PROVE DeletedDead'
  BY <1>1, <1>2, <1>9 DEF Wait, SleepOnPort, On, Busy
<1>10. CASE UNCHANGED vars
  BY <1>10 DEF vars, threadVars, DeletedDead
<1> QED
  BY <1>3, <1>4, <1>5, <1>6, <1>7, <1>8, <1>9, <1>10
     DEF Next, Wakeup, Block, UserStep, Drive, Agents

\* Without deletions of live threads the count is exact, and stays so.
LEMMA ExactStep == DeleteLive = FALSE /\ ExactInv /\ TypeOK' /\ [Next]_vars => ExactInv'
<1> SUFFICES ASSUME DeleteLive = FALSE, ExactInv, TypeOK', [Next]_vars PROVE ExactInv'
  OBVIOUS
<1>1. TypeOK /\ Counted /\ numRunning \in Nat /\ numTotal \in Int /\ DeletedDead'
  BY StepCounted, DeadStep DEF ExactInv, TypeOK
<1>2. /\ IsFiniteSet(AliveThreads) /\ Cardinality(AliveThreads) \in Nat
      /\ \A t : Cardinality(AliveThreads \ {t}) =
                    IF t \in AliveThreads THEN Cardinality(AliveThreads) - 1 ELSE Cardinality(AliveThreads)
      /\ \A u : Cardinality(AliveThreads \cup {u}) =
                    IF u \in AliveThreads THEN Cardinality(AliveThreads) ELSE Cardinality(AliveThreads) + 1
  BY AliveFinite, FS_RemoveElement, FS_AddElement
<1>3. ~Cancels
  BY DEF Cancels, ExactInv, DeletedDead, AliveThreads, Alive
<1>4. numRunning' = Cardinality(AliveThreads')
  BY <1>1, <1>2, <1>3 DEF Counted, KeepsAlive, Births, Ends, ExactInv
<1>5. IsFiniteSet(threadList) /\ Cardinality(threadList) \in Nat
  BY <1>1, SimThreadAssumption, FS_Subset, FS_CardinalityType DEF TypeOK
<1>6. /\ \A t : Cardinality(threadList \ {t}) =
                    IF t \in threadList THEN Cardinality(threadList) - 1 ELSE Cardinality(threadList)
      /\ \A u : Cardinality(threadList \cup {u}) =
                    IF u \in threadList THEN Cardinality(threadList) ELSE Cardinality(threadList) + 1
  BY <1>5, FS_RemoveElement, FS_AddElement
<1>7. numTotal' = Cardinality(threadList') /\ ListBorn'
  <2>1. CASE ListKept
    BY <2>1 DEF ListKept, ExactInv
  <2>2. CASE ListGrows
    <3>1. PICK u \in Threads : /\ at[u] = "unborn" /\ threadList' = threadList \cup {u}
                               /\ numTotal' = numTotal + 1 /\ (ListBorn => ListBorn')
      BY <2>2 DEF ListGrows
    <3>2. u \notin threadList
      BY <3>1 DEF ExactInv, ListBorn
    <3> QED
      BY <1>6, <3>1, <3>2 DEF ExactInv
  <2>3. CASE ListShrinks
    BY <1>6, <2>3 DEF ListShrinks, ExactInv
  <2> QED
    BY <1>1, <2>1, <2>2, <2>3 DEF Counted
<1> QED
  BY <1>1, <1>4, <1>7 DEF ExactInv

\* In a program that deletes only threads that are over, numRunningThreads is the
\* number of threads alive and numTotalThreads the length of the list.
THEOREM CountTheorem == ASSUME DeleteLive = FALSE PROVE Spec => []RunningCountsLiveThreads
<1>1. Init /\ TypeOK => ExactInv
  <2> SUFFICES ASSUME Init, TypeOK PROVE ExactInv
    OBVIOUS
  <2>1. /\ Cardinality(AliveThreads) = 1 /\ numRunning = 1
        /\ numTotal = 1 /\ Cardinality(threadList) = 1
    BY InitCount, FS_Singleton
  <2>2. DeletedDead /\ ListBorn
    BY SimThreadAssumption DEF Init, DeletedDead, ListBorn, Agents
  <2> QED
    BY <2>1, <2>2 DEF ExactInv
<1>2. ExactInv => RunningCountsLiveThreads
  BY DEF ExactInv, RunningCountsLiveThreads, AliveThreads
<1>3. ExactInv /\ TypeOK' /\ [Next]_vars => ExactInv'
  BY ExactStep
<1> QED
  BY <1>1, <1>2, <1>3, TypeCorrect, PTL DEF Spec
=============================================================================
