----------------------------- MODULE SimThread -----------------------------
(***************************************************************************)
(* FrSimThread, FrSimThreadEvent and FrSimThreadTracker (libfrsim): the    *)
(* user threads of a simulation, the one-message ports they sleep on, the  *)
(* counters and the thread list of the tracker, and the loop that hands    *)
(* the processor back to the simulator when every user thread sleeps.      *)
(*                                                                         *)
(* The threads are GNU Pth threads: exactly one runs, and control passes   *)
(* only where the code calls into Pth.  Pth queues ready threads of equal  *)
(* priority first come first served; whether a yielding thread is queued   *)
(* before or after the threads its last action woke is left open.          *)
(*                                                                         *)
(* This module is the part SimWait extends: its actions say nothing of the *)
(* simulator interface's variables.                                        *)
(***************************************************************************)
EXTENDS Naturals, Integers, Sequences, FiniteSets

CONSTANTS
    Threads,     \* the FrSimThread objects the user program constructs
    MainThread,  \* the one frsim_main runs in
    Sim,         \* the simulator's own Pth thread
    NoThread,    \* nobody
    SpinLimit,   \* the 1500 of waitAllThreadsBlocked
    MaxYields,   \* bound: yields a thread makes before it sleeps again
    DeleteLive   \* may the user program delete a thread that has not finished?

Agents == Threads \cup {Sim}

ASSUME SimThreadAssumption ==
    /\ MainThread \in Threads
    /\ Sim \notin Threads
    /\ NoThread \notin Agents
    /\ SpinLimit \in Nat
    /\ MaxYields \in Nat
    /\ DeleteLive \in BOOLEAN
    /\ IsFiniteSet(Threads)

VARIABLES
    running,     \* the agent that has the processor
    ready,       \* Pth's queue of new and ready threads
    at,          \* where each agent is
    port,        \* messages in each thread's port
    joining,     \* whom a thread in join() waits for
    yields,      \* yields since the thread last slept (bounded by MaxYields)
    threadList,  \* the tracker's map
    numRunning, numTotal, waitCount,   \* the tracker's counters
    deleted,     \* FrSimThread objects that have been destroyed
    outcome      \* "running", or how the process ended

threadVars == <<running, ready, at, port, joining, yields, threadList,
                numRunning, numTotal, waitCount, deleted, outcome>>

\* Places of an agent: user code or the simulator's kernel ("code"), asleep in
\* pth_wait ("wait", "join"), and inside a value-change callback, which runs in
\* whichever agent changed the value ("callbacks", "trigger", "waitAll").
Dead  == {"finished", "cancelled"}
Sleep == {"wait", "join"}
Busy  == {"code", "callbacks", "trigger", "waitAll"}
Places == {"unborn"} \cup Busy \cup Sleep \cup Dead

Queued == {ready[i] : i \in DOMAIN ready}
Alive(t) == at[t] \notin Dead \cup {"unborn"}

On(a, place) == outcome = "running" /\ running = a /\ at[a] = place

-----------------------------------------------------------------------------
(* Pth *)

\* The event of u's pth_wait has occurred, or u has been cancelled.
EventOccurred(u) ==
    \/ u \in deleted
    \/ at[u] = "wait" /\ port[u] > 0
    \/ at[u] = "join" /\ at[joining[u]] \in Dead

\* Every order of a finite set.
Orders(S) ==
    {s \in [1 .. Cardinality(S) -> S] : \A x \in S : \E i \in DOMAIN s : s[i] = x}

\* The scheduler: sleepers whose event has occurred and the agents in back, if
\* the running one only yields, join the queue, and its head runs.
Switch(back) ==
    LET woken == {u \in Threads \ Queued : at'[u] \in Sleep /\ EventOccurred(u)'}
    IN  \E order \in Orders(woken \cup back) :
            LET queue == ready \o order
            IN  running' = Head(queue) /\ ready' = Tail(queue)

-----------------------------------------------------------------------------
(* FrSimThreadTracker *)

\* Mutant: the new thread is not counted as running.
AddThread_NotCounted(u) ==
    /\ at' = [at EXCEPT ![u] = "code"]
    /\ ready' = Append(ready, u)
    /\ numTotal' = numTotal + 1
    /\ threadList' = threadList \cup {u}
    /\ numRunning' = numRunning

\* addThread: pth_spawn makes u ready and does not switch to it.
AddThread(u) ==
    /\ at' = [at EXCEPT ![u] = "code"]
    /\ ready' = Append(ready, u)
    /\ numTotal' = numTotal + 1
    /\ threadList' = threadList \cup {u}
    /\ numRunning' = numRunning + 1

\* Entry of waitAllThreadsBlocked by a.
EnterWaitAll(a) == at' = [at EXCEPT ![a] = "waitAll"] /\ waitCount' = 0

\* Mutant: one look at the queue is thought to be enough.
WaitAllThreadsBlocked_Once(a) ==
    /\ On(a, "waitAll")
    /\ UNCHANGED <<port, joining, yields, threadList, numRunning, numTotal, deleted>>
    /\ waitCount' = waitCount + 1
    /\ at' = [at EXCEPT ![a] = "callbacks"]
    /\ outcome' = outcome
    /\ IF ready = <<>> THEN UNCHANGED <<running, ready>> ELSE Switch({a})

\* One round of its loop: leave when no thread is new or ready, give up when the
\* (shared) counter says that this has taken too long, else yield.
WaitAllThreadsBlocked(a) ==
    /\ On(a, "waitAll")
    /\ UNCHANGED <<port, joining, yields, threadList, numRunning, numTotal, deleted>>
    /\ IF ready = <<>>
         THEN /\ at' = [at EXCEPT ![a] = "callbacks"]
              /\ UNCHANGED <<running, ready, waitCount, outcome>>
         ELSE /\ at' = at
              /\ waitCount' = waitCount + 1
              /\ IF waitCount' > SpinLimit
                   THEN outcome' = "spin" /\ UNCHANGED <<running, ready>>
                   ELSE outcome' = outcome /\ Switch({a})

-----------------------------------------------------------------------------
(* FrSimThread and FrSimThreadEvent, called by or for user threads *)

Crash(reason) ==
    /\ outcome' = reason
    /\ UNCHANGED <<running, ready, at, port, joining, yields, threadList,
                   numRunning, numTotal, waitCount, deleted>>

\* Mutant: the message is not put.
Trigger_NoMessage(a, t) ==
    /\ at' = [at EXCEPT ![a] = "trigger"]
    /\ UNCHANGED <<port, joining, deleted>>
    /\ Switch({a})
    /\ UNCHANGED <<yields, threadList, numRunning, numTotal, waitCount, outcome>>

\* trigger, by the agent a: the message goes into t's port (its only message
\* object: what counts is none, one, or more than one), then a yields.
Trigger(a, t) ==
    /\ port' = [port EXCEPT ![t] = IF @ < 2 THEN @ + 1 ELSE @]
    /\ at' = [at EXCEPT ![a] = "trigger"]
    /\ UNCHANGED <<joining, deleted>>
    /\ Switch({a})
    /\ UNCHANGED <<yields, threadList, numRunning, numTotal, waitCount, outcome>>

\* wait, called by t: asleep until its port holds a message.
SleepOnPort(t) ==
    /\ at' = [at EXCEPT ![t] = "wait"]
    /\ yields' = [yields EXCEPT ![t] = 0]
    /\ UNCHANGED <<port, joining, deleted>>
    /\ Switch({})
    /\ UNCHANGED <<threadList, numRunning, numTotal, waitCount, outcome>>

\* Mutant: wait returns without draining the port.
Resume_NoDrain(t) ==
    /\ On(t, "wait")
    /\ t \notin deleted
    /\ at' = [at EXCEPT ![t] = "code"]
    /\ UNCHANGED <<running, ready, port, joining, yields, threadList, numRunning,
                   numTotal, waitCount, deleted, outcome>>

\* t has the processor again inside wait and drains the port.  The same message
\* put twice leaves a count that pth_msgport_get never brings to 0: exit(1).
Resume(t) ==
    /\ On(t, "wait")
    /\ t \notin deleted
    /\ IF port[t] > 1
         THEN Crash("drain")
         ELSE /\ port' = [port EXCEPT ![t] = 0]
              /\ at' = [at EXCEPT ![t] = "code"]
              /\ UNCHANGED <<running, ready, joining, yields, threadList,
                             numRunning, numTotal, waitCount, deleted, outcome>>

\* A deleted thread meets Pth's cancellation point and ends, telling nobody.
Cancelled(t) ==
    /\ \E place \in Sleep : On(t, place)
    /\ t \in deleted
    /\ at' = [at EXCEPT ![t] = "cancelled"]
    /\ UNCHANGED <<port, joining, deleted>>
    /\ Switch({})
    /\ UNCHANGED <<yields, threadList, numRunning, numTotal, waitCount, outcome>>

Spawn(t, u) ==
    /\ On(t, "code")
    /\ at[u] = "unborn" /\ u \notin deleted
    /\ AddThread(u)
    /\ UNCHANGED <<running, port, joining, yields, waitCount, deleted, outcome>>

Yield(t) ==
    /\ On(t, "code")
    /\ yields[t] < MaxYields
    /\ yields' = [yields EXCEPT ![t] = @ + 1]
    /\ UNCHANGED <<at, port, joining, deleted>>
    /\ Switch({t})
    /\ UNCHANGED <<threadList, numRunning, numTotal, waitCount, outcome>>

\* join: pth_join of a thread that is over returns at once.
Join(t, u) ==
    /\ On(t, "code")
    /\ u \in threadList \ {t}
    /\ at[u] \notin Dead
    /\ at' = [at EXCEPT ![t] = "join"]
    /\ joining' = [joining EXCEPT ![t] = u]
    /\ yields' = [yields EXCEPT ![t] = 0]
    /\ UNCHANGED <<port, deleted>>
    /\ Switch({})
    /\ UNCHANGED <<threadList, numRunning, numTotal, waitCount, outcome>>

JoinReturn(t) ==
    /\ On(t, "join")
    /\ t \notin deleted
    /\ at' = [at EXCEPT ![t] = "code"]
    /\ joining' = [joining EXCEPT ![t] = NoThread]
    /\ UNCHANGED <<running, ready, port, yields, threadList, numRunning, numTotal,
                   waitCount, deleted, outcome>>

\* Mutant: counted off twice, with the assertion compiled out.
Finish_TwiceUnchecked(t) ==
    /\ On(t, "code")
    /\ t \notin deleted
    /\ numRunning' = numRunning - 2
    /\ at' = [at EXCEPT ![t] = "finished"]
    /\ UNCHANGED <<port, joining, deleted, outcome>>
    /\ Switch({})
    /\ UNCHANGED <<yields, threadList, numTotal, waitCount>>

\* Mutant: a finishing thread is counted off twice.
Finish_Twice(t) ==
    /\ On(t, "code")
    /\ t \notin deleted
    /\ IF numRunning - 2 >= 0
         THEN /\ numRunning' = numRunning - 2
              /\ at' = [at EXCEPT ![t] = "finished"]
              /\ UNCHANGED <<port, joining, deleted, outcome>>
              /\ Switch({})
         ELSE /\ outcome' = "assert"
              /\ UNCHANGED <<running, ready, at, port, joining, numRunning, deleted>>
    /\ UNCHANGED <<yields, threadList, numTotal, waitCount>>

\* The end of newThreadInit: decRunningThreads with its assertion, then the Pth
\* thread is over and whoever joins it wakes.
Finish(t) ==
    /\ On(t, "code")
    /\ t \notin deleted
    /\ IF numRunning - 1 >= 0
         THEN /\ numRunning' = numRunning - 1
              /\ at' = [at EXCEPT ![t] = "finished"]
              /\ UNCHANGED <<port, joining, deleted, outcome>>
              /\ Switch({})
         ELSE /\ outcome' = "assert"
              /\ UNCHANGED <<running, ready, at, port, joining, numRunning, deleted>>
    /\ UNCHANGED <<yields, threadList, numTotal, waitCount>>

\* delete u, by t: ~FrSimThread cancels the Pth thread and takes the object off
\* the tracker's list.  Neither decRunningThreads nor a cleanup routine is called.
Delete(t, u) ==
    /\ On(t, "code")
    /\ u \in threadList \ {t}
    /\ DeleteLive \/ at[u] \in Dead
    /\ numTotal' = numTotal - 1
    /\ threadList' = threadList \ {u}
    /\ deleted' = deleted \cup {u}
    /\ UNCHANGED <<running, ready, at, port, joining, yields, numRunning,
                   waitCount, outcome>>

\* A constructor that never spawned left id uninitialised: the destructor of
\* such a thread dereferences it.
DeleteUnborn(t, u) ==
    /\ On(t, "code")
    /\ DeleteLive
    /\ at[u] = "unborn"
    /\ Crash("undefined")

\* A thread that was deleted while it was ready goes on in user code, where
\* getSelf() returns NULL and its members are freed memory.
Orphan(t) ==
    /\ On(t, "code")
    /\ t \in deleted
    /\ Crash("undefined")
=============================================================================
