------------------------------ MODULE SimWait ------------------------------
(***************************************************************************)
(* FrSimIfaceIvl::wait and its value-change callbacks, with the conditions *)
(* of FrSimCond and the threads of SimThread: how user threads and the     *)
(* Verilog simulator take turns.                                           *)
(*                                                                         *)
(* A user thread waits for an edge of a signal: wait registers a callback  *)
(* that points at the condition, which is a by-value argument on the       *)
(* waiting thread's own stack, and puts the thread to sleep.  The          *)
(* simulator changes a signal and calls the callbacks one by one; each     *)
(* tests its condition, wakes the thread, THEN unregisters itself, and     *)
(* yields until no thread is ready.  A user thread that drives a signal    *)
(* runs the callbacks of that signal itself, nested in the call to drive.  *)
(***************************************************************************)
EXTENDS SimThread

CONSTANTS
    Watched,   \* signals that threads wait for
    Clocked,   \* signals the Verilog side changes
    Driven     \* signals that threads drive

Sigs == Watched \cup Clocked \cup Driven
Values == {"0", "1", "x"}
Ops == {"change", "posedge", "negedge"}

ASSUME SimWaitAssumption ==
    /\ Watched # {}
    /\ Watched \subseteq Clocked \cup Driven

VARIABLES
    val,         \* value of each signal in the simulator
    cond,        \* the FrSimCond of each wait
    registered,  \* waits whose callback is registered with the simulator
    todo,        \* callbacks each agent has still to run for its value change
    current,     \* the wait whose callback each agent is inside
    slot,        \* which of its two wait records a thread used last
    met          \* history: has the event t waits for happened since it waited?

ifaceVars == <<val, cond, registered, todo, current, slot, met>>
vars == <<threadVars, ifaceVars>>

\* A wait is named by its thread and one of two records: the second serves a
\* thread whose last wait is over but still registered.  A third would be needed
\* only by a thread that waits while both are: Wait has a guard that bounds this.
Waits == Threads \X {0, 1}
NoWait == <<NoThread, 0>>
Thr(w) == w[1]

Cond == [op : Ops, sig : Sigs, last : Values]
NoCond == [op |-> "change", sig |-> CHOOSE s \in Sigs : TRUE, last |-> "0"]

\* c points at a live stack frame: its thread is still inside this very wait.
Live(w) == at[Thr(w)] = "wait" /\ slot[Thr(w)] = w[2] /\ Thr(w) \notin deleted

Edge(op, old, new) ==
    CASE op = "change"  -> TRUE
      [] op = "posedge" -> old = "0" /\ new = "1"
      [] op = "negedge" -> old = "1" /\ new = "0"

-----------------------------------------------------------------------------
\* startUserProgram has spawned the main thread and entered the loop.
Init ==
    /\ running = Sim
    /\ ready = <<MainThread>>
    /\ at = [a \in Agents |-> IF a = Sim THEN "waitAll"
                              ELSE IF a = MainThread THEN "code" ELSE "unborn"]
    /\ port = [t \in Threads |-> 0]
    /\ joining = [t \in Threads |-> NoThread]
    /\ yields = [t \in Threads |-> 0]
    /\ threadList = {MainThread}
    /\ numRunning = 1 /\ numTotal = 1 /\ waitCount = 0
    /\ deleted = {}
    /\ outcome = "running"
    /\ val = [s \in Sigs |-> "x"]
    /\ cond = [w \in Waits |-> NoCond]
    /\ registered = {}
    /\ todo = [a \in Agents |-> {}]
    /\ current = [a \in Agents |-> NoWait]
    /\ slot = [t \in Threads |-> 0]
    /\ met = [t \in Threads |-> FALSE]

-----------------------------------------------------------------------------
(* wait *)

\* The constructors: the edge conditions sample the signal, change leaves the 0 of
\* FrSimCond's.
change(s)  == [op |-> "change", sig |-> s, last |-> "0"]
posedge(s) == [op |-> "posedge", sig |-> s, last |-> val[s]]
negedge(s) == [op |-> "negedge", sig |-> s, last |-> val[s]]

Condition(op, s) ==
    CASE op = "change"  -> change(s)
      [] op = "posedge" -> posedge(s)
      [] op = "negedge" -> negedge(s)

\* Mutant: the condition does not sample its signal when it is constructed.
Wait_NoSample(t, op, s) ==
    LET n == IF <<t, 0>> \in registered THEN 1 ELSE 0
        w == <<t, n>>
    IN  /\ On(t, "code")
        /\ t \notin deleted
        /\ w \notin registered
        /\ cond' = [cond EXCEPT ![w] = [op |-> op, sig |-> s, last |-> "0"]]
        /\ registered' = registered \cup {w}
        /\ slot' = [slot EXCEPT ![t] = n]
        /\ met' = [met EXCEPT ![t] = FALSE]
        /\ SleepOnPort(t)
        /\ UNCHANGED <<val, todo, current>>

\* sif->wait(posedge(s)) and the like.
Wait(t, op, s) ==
    LET n == IF <<t, 0>> \in registered THEN 1 ELSE 0
        w == <<t, n>>
    IN  /\ On(t, "code")
        /\ t \notin deleted
        /\ w \notin registered
        /\ cond' = [cond EXCEPT ![w] = Condition(op, s)]
        /\ registered' = registered \cup {w}
        /\ slot' = [slot EXCEPT ![t] = n]
        /\ met' = [met EXCEPT ![t] = FALSE]
        /\ SleepOnPort(t)
        /\ UNCHANGED <<val, todo, current>>

-----------------------------------------------------------------------------
(* Value changes and their callbacks *)

\* Signal s gets the value v in agent a, which has the callbacks registered on s
\* at that moment to run.
ChangeValue(a, s, v) ==
    /\ On(a, "code")
    /\ v # val[s]
    /\ val' = [val EXCEPT ![s] = v]
    /\ todo' = [todo EXCEPT ![a] = {w \in registered : cond[w].sig = s}]
    /\ met' = [t \in Threads |->
                  met[t] \/ LET w == <<t, slot[t]>>
                            IN  /\ Live(w)
                                /\ cond[w].sig = s
                                /\ Edge(cond[w].op, val[s], v)]
    /\ at' = [at EXCEPT ![a] = "callbacks"]
    /\ UNCHANGED <<running, ready, port, joining, yields, threadList, numRunning,
                   numTotal, waitCount, deleted, outcome, cond, registered,
                   current, slot>>

\* The simulator's kernel changes a signal between two user activities; drive is
\* vpi_put_value without delay, from a user thread.
Tick(s, v) == ChangeValue(Sim, s, v)
Drive(t, s, v) == ChangeValue(t, s, v)

\* test() through a pointer to a frame that is gone.
TestDangling(a) ==
    /\ On(a, "callbacks")
    /\ \E w \in todo[a] \cap registered : ~Live(w)
    /\ Crash("undefined")
    /\ UNCHANGED ifaceVars

\* test() is false: it remembers the value, and the callback still waits for the
\* other threads.
TestFalse(a) ==
    /\ On(a, "callbacks")
    /\ \E w \in todo[a] \cap registered :
          /\ Live(w)
          /\ ~Edge(cond[w].op, cond[w].last, val[cond[w].sig])
          /\ cond' = [cond EXCEPT ![w].last = val[cond[w].sig]]
          /\ todo' = [todo EXCEPT ![a] = @ \ {w}]
    /\ EnterWaitAll(a)
    /\ UNCHANGED <<running, ready, port, joining, yields, threadList, numRunning,
                   numTotal, deleted, outcome, val, registered, current, slot, met>>

\* test() is true: the thread is triggered, which yields, with the callback
\* still registered.
TestTrue(a) ==
    /\ On(a, "callbacks")
    /\ \E w \in todo[a] \cap registered :
          /\ Live(w)
          /\ Edge(cond[w].op, cond[w].last, val[cond[w].sig])
          /\ current' = [current EXCEPT ![a] = w]
          /\ todo' = [todo EXCEPT ![a] = @ \ {w}]
          /\ Trigger(a, Thr(w))
    /\ UNCHANGED <<val, cond, registered, slot, met>>

\* Mutant: the callbacks stay registered.
RemoveSimCallbacks_Forgotten(a) ==
    /\ On(a, "trigger")
    /\ current' = [current EXCEPT ![a] = NoWait]
    /\ EnterWaitAll(a)
    /\ UNCHANGED <<running, ready, port, joining, yields, threadList, numRunning,
                   numTotal, deleted, outcome, val, cond, registered, todo, slot, met>>

\* Mutant: the loop's counter is not restarted.
RemoveSimCallbacks_KeepsCount(a) ==
    /\ On(a, "trigger")
    /\ registered' = registered \ {current[a]}
    /\ cond' = [cond EXCEPT ![current[a]] = NoCond]
    /\ current' = [current EXCEPT ![a] = NoWait]
    /\ at' = [at EXCEPT ![a] = "waitAll"]
    /\ UNCHANGED <<running, ready, port, joining, yields, threadList, numRunning,
                   numTotal, waitCount, deleted, outcome, val, todo, slot, met>>

\* Back from the yield of trigger: the callback goes, and with it the last use of
\* its record.
RemoveSimCallbacks(a) ==
    /\ On(a, "trigger")
    /\ registered' = registered \ {current[a]}
    /\ cond' = [cond EXCEPT ![current[a]] = NoCond]
    /\ current' = [current EXCEPT ![a] = NoWait]
    /\ EnterWaitAll(a)
    /\ UNCHANGED <<running, ready, port, joining, yields, threadList, numRunning,
                   numTotal, deleted, outcome, val, todo, slot, met>>

\* All callbacks of the change have run, but for those unregistered since, which
\* the simulator skips: a goes on with its own code.
CallbacksDone(a) ==
    /\ On(a, "callbacks")
    /\ todo[a] \cap registered = {}
    /\ at' = [at EXCEPT ![a] = "code"]
    /\ todo' = [todo EXCEPT ![a] = {}]
    /\ UNCHANGED <<running, ready, port, joining, yields, threadList, numRunning,
                   numTotal, waitCount, deleted, outcome, val, cond, registered,
                   current, slot, met>>

-----------------------------------------------------------------------------
Callback(a) ==
    \/ TestDangling(a) \/ TestFalse(a) \/ TestTrue(a)
    \/ RemoveSimCallbacks(a) \/ CallbacksDone(a)
    \/ WaitAllThreadsBlocked(a) /\ UNCHANGED ifaceVars

Wakeup(t) ==
    /\ Resume(t) \/ JoinReturn(t) \/ Cancelled(t)
    /\ met' = [met EXCEPT ![t] = FALSE]
    /\ UNCHANGED <<val, cond, registered, todo, current, slot>>

\* What ends a thread's turn, and what it may do before.
Block(t) ==
    \/ \E op \in Ops, s \in Watched : Wait(t, op, s)
    \/ (Finish(t) \/ Orphan(t)) /\ UNCHANGED ifaceVars

UserStep(t) ==
    \/ \E s \in Driven, v \in {"0", "1"} : Drive(t, s, v)
    \/ \E u \in Threads :
          /\ Spawn(t, u) \/ Join(t, u) \/ Delete(t, u) \/ DeleteUnborn(t, u)
          /\ UNCHANGED ifaceVars
    \/ Yield(t) /\ UNCHANGED ifaceVars

Next ==
    \/ \E s \in Clocked, v \in {"0", "1"} : Tick(s, v)
    \/ \E a \in Agents : Callback(a)
    \/ \E t \in Threads : Wakeup(t) \/ Block(t) \/ UserStep(t)

Spec == Init /\ [][Next]_vars

\* The running agent goes on running: callbacks and wakeups are straight-line
\* code, and a user thread, which nothing can preempt, at length blocks or ends
\* (strong fairness, because a drive or a yield may come between).
\* The simulator need not ever change a signal again.
Fairness ==
    /\ \A a \in Agents : WF_vars(Callback(a))
    /\ \A t \in Threads : WF_vars(Wakeup(t)) /\ SF_vars(Block(t))

FairSpec == Spec /\ Fairness

-----------------------------------------------------------------------------
(* Properties *)

TypeOK ==
    /\ running \in Agents
    /\ ready \in Seq(Agents)
    /\ at \in [Agents -> Places]
    /\ at[Sim] \in Busy
    /\ port \in [Threads -> 0 .. 2]
    /\ joining \in [Threads -> Threads \cup {NoThread}]
    /\ yields \in [Threads -> 0 .. MaxYields]
    /\ threadList \subseteq Threads
    /\ numRunning \in Nat /\ numTotal \in Int /\ waitCount \in Nat
    /\ deleted \subseteq Threads
    /\ outcome \in {"running", "spin", "drain", "undefined", "assert"}
    /\ val \in [Sigs -> Values]
    /\ cond \in [Waits -> Cond]
    /\ registered \subseteq Waits
    /\ todo \in [Agents -> SUBSET Waits]
    /\ current \in [Agents -> Waits \cup {NoWait}]
    /\ slot \in [Threads -> {0, 1}]
    /\ met \in [Threads -> BOOLEAN]

\* The simulator changes signals and time only while every user thread is asleep
\* and nothing has happened that would wake one, whatever the threads do,
\* deletions and drives of watched signals included.
SimRunsAlone ==
    outcome = "running" /\ running = Sim /\ at[Sim] = "code" =>
        /\ ready = <<>>
        /\ \A t \in Threads : Alive(t) => at[t] \in Sleep /\ ~EventOccurred(t)

\* A thread returns from wait only after the edge it waits for, never because of
\* a message meant for an earlier wait or a value sampled too early.
WokenByEvent == [][\A t \in Threads :
                      at[t] = "wait" /\ at'[t] = "code" => met[t]]_vars

\* No edge is missed: when the simulator goes on, every thread whose edge has
\* occurred has been woken and has left that wait.
NoMissedEdge ==
    outcome = "running" /\ running = Sim /\ at[Sim] = "code" =>
        \A t \in Threads : at[t] = "wait" => ~met[t]

\* When the simulator goes on, the registered callbacks are those of the waits in
\* progress: none has been left behind and none has been removed too early.
CallbacksAreWaits ==
    outcome = "running" /\ running = Sim /\ at[Sim] = "code" =>
        registered = {<<t, slot[t]>> : t \in {u \in Threads : at[u] = "wait"}}

\* Condition tests never use a frame that is gone, a port never holds a message
\* object twice, and no deleted thread runs on.
NoStrayWakeup == outcome \notin {"undefined", "drain"}

\* The assertion of decRunningThreads holds, in whatever order threads finish,
\* are cancelled and are deleted.
AssertionHolds == outcome # "assert"

\* numRunningThreads counts the threads that have been spawned and whose life
\* is not over, numTotalThreads those on the list.
RunningCountsLiveThreads ==
    /\ numRunning = Cardinality({t \in Threads : Alive(t)})
    /\ numTotal = Cardinality(threadList)

\* The callback of a thread that has been deleted is not called.
DeadThreadNotCalled ==
    \A a \in Agents, w \in registered : w \in todo[a] => Thr(w) \notin deleted

\* Waiting for all threads to block ends, and the simulator starts again: the loop
\* does not mistake a legal amount of yielding for a spin either, and exit.
SimGoesOn == at[Sim] = "waitAll" ~> at[Sim] = "code"

\* A thread whose edge has occurred returns from wait.
WakeupDelivered ==
    \A t \in Threads : at[t] = "wait" /\ met[t] ~> at[t] = "code"
=============================================================================
