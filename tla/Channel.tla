------------------------------ MODULE Channel ------------------------------
(***************************************************************************)
(* FrVmChannel (libfrvm/FrVmChannel.h): the bounded mailbox that connects  *)
(* the generators, transactors and response models of an environment,      *)
(* together with the FrSimThreadCondVar pairs (a Pth mutex and a Pth       *)
(* condition, libfrsim/src/FrSimThread.cpp) it is built from.              *)
(*                                                                         *)
(* put and get take TWO different mutexes one after the other, test the    *)
(* queue under the first, change it under the second, and wait with an     *)
(* "if" and not a "while".  One action below is one critical section: a    *)
(* switch may happen at every lock(), inside pth_cond_await and inside a   *)
(* pth_cond_notify that finds waiters.                                     *)
(***************************************************************************)
EXTENDS Naturals, Sequences, FiniteSets

CONSTANTS
    Producers,       \* threads that call put
    Consumers,       \* threads that call get and peek
    Resetters,       \* the threads among those that may also call reset
    NoThread,        \* owner of a free mutex
    Capacity,        \* the "size" argument of the constructor
    Stamps,          \* data is a producer's stamp, counted modulo Stamps
    MaxQueued        \* bound: no put starts on a list this long.  Never met
                     \* by a channel with one producer that respects Capacity

Threads == Producers \cup Consumers

ASSUME ChannelAssumption ==
    /\ Capacity \in Nat \ {0}
    /\ Stamps \in Nat \ {0}
    /\ MaxQueued \in Nat
    /\ NoThread \notin Threads
    /\ Producers \cap Consumers = {}
    /\ Resetters \subseteq Threads

VARIABLES
    chan_data,   \* the std::list
    mutex,       \* owner of each condition's mutex
    pending,     \* a broadcast left set in each condition
    pc,          \* where each thread is in put, get or peek
    nextPut,     \* the stamp each producer's next put carries
    got,         \* what each consumer's last get returned
    peeked       \* what a consumer's last peek saw, until its next get

vars == <<chan_data, mutex, pending, pc, nextPut, got, peeked>>

Conds == {"NotFull", "NotEmpty"}

Item == [from : Producers, stamp : 0 .. Stamps - 1]
NoItem == [from |-> NoThread, stamp |-> 0]

\* Places where a thread is asleep in pth_cond_await, and places where it has
\* been woken but has not got the mutex back (it still counts in cn_waiters).
Asleep(c) == IF c = "NotFull" THEN {"putAsleep"} ELSE {"getAsleep", "peekAsleep"}
Woken(c)  == IF c = "NotFull" THEN {"putWoken"}  ELSE {"getWoken", "peekWoken"}

PutPCs == {"putTest", "putAsleep", "putWoken", "push", "putNotify"}
GetPCs == {"getTest", "getAsleep", "getWoken", "pop", "getNotify"}
PeekPCs == {"peekTest", "peekAsleep", "peekWoken"}

Sleepers(c) == {t \in Threads : pc[t] \in Asleep(c)}
Waiters(c)  == {t \in Threads : pc[t] \in Asleep(c) \cup Woken(c)}

WokenFrom(p) == CASE p = "putAsleep"  -> "putWoken"
                  [] p = "getAsleep"  -> "getWoken"
                  [] p = "peekAsleep" -> "peekWoken"

Free(c) == mutex[c] = NoThread

\* Where a thread is inside signal(true) on c, with the mutex of c.
Notifying(c) == IF c = "NotFull" THEN "getNotify" ELSE "putNotify"

-----------------------------------------------------------------------------
Init ==
    /\ chan_data = <<>>
    /\ mutex = [c \in Conds |-> NoThread]
    /\ pending = [c \in Conds |-> FALSE]
    /\ pc = [t \in Threads |-> "idle"]
    /\ nextPut = [t \in Producers |-> 0]
    /\ got = [t \in Consumers |-> NoItem]
    /\ peeked = [t \in Consumers |-> NoItem]

Goto(t, from, to) == pc[t] = from /\ pc' = [pc EXCEPT ![t] = to]

\* Mutant: a signal that wakes nobody.
Notify_WakesNobody(t, c, notifying) ==
    /\ pc' = [pc EXCEPT ![t] = "idle"]
    /\ UNCHANGED <<mutex, pending>>

\* signal(true) on c by t, which holds c's mutex and will leave its operation
\* for "idle".  Without waiters pth_cond_notify does nothing and t goes on to
\* unlock.  With waiters it wakes every sleeper and yields with the mutex held.
\* Pth clears the broadcast when its scheduler finds a thread asleep on the
\* condition: when all its waiters are awake already, the broadcast stays set
\* and the next thread to sleep there is woken by it.
Notify(t, c, notifying) ==
    IF Waiters(c) = {}
      THEN /\ pc' = [pc EXCEPT ![t] = "idle"]
           /\ UNCHANGED <<mutex, pending>>
      ELSE /\ pc' = [u \in Threads |->
                       IF u = t THEN notifying
                       ELSE IF u \in Sleepers(c) THEN WokenFrom(pc[u])
                       ELSE pc[u]]
           /\ mutex' = [mutex EXCEPT ![c] = t]
           /\ pending' = [pending EXCEPT ![c] = Sleepers(c) = {}]

\* Mutant: the unlock after the yield is forgotten.
NotifyReturn_KeepsMutex(t, c, notifying) ==
    /\ Goto(t, notifying, "idle")
    /\ UNCHANGED <<chan_data, mutex, pending, nextPut, got, peeked>>

\* The yield of notify is over: unlock and return.
NotifyReturn(t, c, notifying) ==
    /\ Goto(t, notifying, "idle")
    /\ mutex' = [mutex EXCEPT ![c] = NoThread]
    /\ UNCHANGED <<chan_data, pending, nextPut, got, peeked>>

\* A sleeper finds a broadcast that an earlier notify left pending.
StaleWake(t, c) ==
    /\ t \in Sleepers(c)
    /\ pending[c]
    /\ pc' = [u \in Threads |->
                IF u \in Sleepers(c) THEN WokenFrom(pc[u]) ELSE pc[u]]
    /\ pending' = [pending EXCEPT ![c] = FALSE]
    /\ UNCHANGED <<chan_data, mutex, nextPut, got, peeked>>

-----------------------------------------------------------------------------
(* put *)

Put(t) ==
    /\ Len(chan_data) < MaxQueued
    /\ Goto(t, "idle", "putTest")
    /\ UNCHANGED <<chan_data, mutex, pending, nextPut, got, peeked>>

\* Mutant: the size is compared one too late.
PutTest_OffByOne(t) ==
    /\ Free("NotFull")
    /\ Goto(t, "putTest",
            IF Len(chan_data) = Capacity + 1 THEN "putAsleep" ELSE "push")
    /\ UNCHANGED <<chan_data, mutex, pending, nextPut, got, peeked>>

PutTest(t) ==
    /\ Free("NotFull")
    /\ Goto(t, "putTest",
            IF Len(chan_data) = Capacity THEN "putAsleep" ELSE "push")
    /\ UNCHANGED <<chan_data, mutex, pending, nextPut, got, peeked>>

\* pth_cond_await returns with the mutex; put unlocks without testing again.
PutResume(t) ==
    /\ Free("NotFull")
    /\ Goto(t, "putWoken", "push")
    /\ UNCHANGED <<chan_data, mutex, pending, nextPut, got, peeked>>

Push(t) ==
    /\ pc[t] = "push"
    /\ Free("NotEmpty")
    /\ chan_data' = Append(chan_data, [from |-> t, stamp |-> nextPut[t]])
    /\ nextPut' = [nextPut EXCEPT ![t] = (@ + 1) % Stamps]
    /\ Notify(t, "NotEmpty", "putNotify")
    /\ UNCHANGED <<got, peeked>>

PutReturn(t) == NotifyReturn(t, "NotEmpty", "putNotify")

-----------------------------------------------------------------------------
(* get *)

Get(t) ==
    /\ Goto(t, "idle", "getTest")
    /\ UNCHANGED <<chan_data, mutex, pending, nextPut, got, peeked>>

\* Mutant: get does not wait for a message.
GetTest_NoWait(t) ==
    /\ Free("NotEmpty")
    /\ Goto(t, "getTest", "pop")
    /\ UNCHANGED <<chan_data, mutex, pending, nextPut, got, peeked>>

GetTest(t) ==
    /\ Free("NotEmpty")
    /\ Goto(t, "getTest", IF chan_data = <<>> THEN "getAsleep" ELSE "pop")
    /\ UNCHANGED <<chan_data, mutex, pending, nextPut, got, peeked>>

GetResume(t) ==
    /\ Free("NotEmpty")
    /\ Goto(t, "getWoken", "pop")
    /\ UNCHANGED <<chan_data, mutex, pending, nextPut, got, peeked>>

\* Mutant: pop_front() is forgotten.
Pop_KeepsFront(t) ==
    /\ pc[t] = "pop"
    /\ Free("NotFull")
    /\ \/ /\ chan_data # <<>>
          /\ got' = [got EXCEPT ![t] = Head(chan_data)]
          /\ peeked' = [peeked EXCEPT ![t] = NoItem]
          /\ Notify(t, "NotFull", "getNotify")
       \/ /\ chan_data = <<>>
          /\ pc' = [pc EXCEPT ![t] = "undefined"]
          /\ UNCHANGED <<mutex, pending, got, peeked>>
    /\ UNCHANGED <<chan_data, nextPut>>

\* front() and pop_front() of an empty list have no meaning in C++: the thread
\* ends in "undefined".
Pop(t) ==
    /\ pc[t] = "pop"
    /\ Free("NotFull")
    /\ \/ /\ chan_data # <<>>
          /\ got' = [got EXCEPT ![t] = Head(chan_data)]
          /\ peeked' = [peeked EXCEPT ![t] = NoItem]
          /\ chan_data' = Tail(chan_data)
          /\ Notify(t, "NotFull", "getNotify")
       \/ /\ chan_data = <<>>
          /\ pc' = [pc EXCEPT ![t] = "undefined"]
          /\ UNCHANGED <<chan_data, mutex, pending, got, peeked>>
    /\ UNCHANGED nextPut

GetReturn(t) == NotifyReturn(t, "NotFull", "getNotify")

-----------------------------------------------------------------------------
(* peek and reset *)

Peek(t) ==
    /\ Goto(t, "idle", "peekTest")
    /\ UNCHANGED <<chan_data, mutex, pending, nextPut, got, peeked>>

\* Mutant: peek takes the message off the list, as get does.
ReadFront_Pops(t) ==
    \/ /\ chan_data # <<>>
       /\ pc' = [pc EXCEPT ![t] = "idle"]
       /\ peeked' = [peeked EXCEPT ![t] = Head(chan_data)]
       /\ chan_data' = Tail(chan_data)
    \/ /\ chan_data = <<>>
       /\ pc' = [pc EXCEPT ![t] = "undefined"]
       /\ UNCHANGED <<chan_data, peeked>>

\* front() after the unlock: no switch between the test and the read.
ReadFront(t) ==
    /\ \/ /\ chan_data # <<>>
          /\ pc' = [pc EXCEPT ![t] = "idle"]
          /\ peeked' = [peeked EXCEPT ![t] = Head(chan_data)]
       \/ /\ chan_data = <<>>
          /\ pc' = [pc EXCEPT ![t] = "undefined"]
          /\ UNCHANGED peeked
    /\ UNCHANGED chan_data

PeekTest(t) ==
    /\ pc[t] = "peekTest"
    /\ Free("NotEmpty")
    /\ \/ chan_data # <<>> /\ ReadFront(t)
       \/ chan_data = <<>> /\ pc' = [pc EXCEPT ![t] = "peekAsleep"]
                           /\ UNCHANGED <<chan_data, peeked>>
    /\ UNCHANGED <<mutex, pending, nextPut, got>>

PeekResume(t) ==
    /\ pc[t] = "peekWoken"
    /\ Free("NotEmpty")
    /\ ReadFront(t)
    /\ UNCHANGED <<mutex, pending, nextPut, got>>

\* clear() with no lock and no signal; what was peeked is gone.
Reset(t) ==
    /\ pc[t] = "idle"
    /\ chan_data' = <<>>
    /\ peeked' = [u \in Consumers |-> NoItem]
    /\ UNCHANGED <<mutex, pending, pc, nextPut, got>>

-----------------------------------------------------------------------------
PutStep(t) == PutTest(t) \/ PutResume(t) \/ Push(t) \/ PutReturn(t)
GetStep(t) == GetTest(t) \/ GetResume(t) \/ Pop(t) \/ GetReturn(t)
PeekStep(t) == PeekTest(t) \/ PeekResume(t)

Next ==
    \/ \E t \in Producers : Put(t) \/ PutStep(t)
    \/ \E t \in Consumers : Get(t) \/ GetStep(t) \/ Peek(t) \/ PeekStep(t)
    \/ \E t \in Resetters : Reset(t)
    \/ \E t \in Threads, c \in Conds : StaleWake(t, c)

Spec == Init /\ [][Next]_vars

\* Pth's scheduler ages ready threads, so each one runs again: weak fairness of
\* every step inside an operation.  The receiving loops of the environment call
\* get for ever; a peek may come in between, hence strong fairness of Get.
\* Nothing obliges a producer to call put.
Fairness ==
    /\ \A t \in Producers : WF_vars(PutStep(t))
    /\ \A t \in Consumers : /\ WF_vars(GetStep(t))
                            /\ WF_vars(PeekStep(t))
                            /\ SF_vars(Get(t))
    /\ \A t \in Threads, c \in Conds : WF_vars(StaleWake(t, c))

FairSpec == Spec /\ Fairness

-----------------------------------------------------------------------------
(* Properties *)

\* The variables hold values of their C++ types ...
Types ==
    /\ chan_data \in Seq(Item)
    /\ mutex \in [Conds -> Threads \cup {NoThread}]
    /\ pending \in [Conds -> BOOLEAN]
    /\ pc \in [Threads -> {"idle", "undefined"} \cup PutPCs \cup GetPCs \cup PeekPCs]
    /\ \A t \in Producers : pc[t] \in {"idle"} \cup PutPCs
    /\ \A t \in Consumers : pc[t] \in {"idle", "undefined"} \cup GetPCs \cup PeekPCs
    /\ nextPut \in [Producers -> 0 .. Stamps - 1]
    /\ got \in [Consumers -> Item \cup {NoItem}]
    /\ peeked \in [Consumers -> Item \cup {NoItem}]

\* ... and between two critical sections a mutex is held exactly by the thread
\* that is inside a notify of its condition: put and get leave no mutex locked
\* on any path, and nobody is inside a notify whose mutex somebody else took.
MutexHeld == \A c \in Conds, t \in Threads : mutex[c] = t <=> pc[t] = Notifying(c)

TypeOK == Types /\ MutexHeld

\* The list never grows past "size", although the test and the push_back are in
\* different critical sections.  This, NoEmptyPop, RefinesFifo and the liveness
\* below are the promises of a channel of size 1, the size every environment
\* uses: on a larger one a broadcast left pending wakes a thread for nothing.
CapacityBound == Len(chan_data) <= Capacity

\* front() is never applied to an empty list, although get tests for it under
\* another mutex than the one it pops under and does not test again on waking.
NoEmptyPop == \A t \in Threads : pc[t] # "undefined"

\* No consumer sleeps on a message: however many consumers share the channel and
\* whenever it is reset, a thread asleep in get or peek has an empty list.
NoMissedMessage == \A t \in Sleepers("NotEmpty") : chan_data = <<>>

\* A thread asleep in pth_cond_await has something to wait for: no wakeup of
\* signal(true) is lost between the test and the sleep.
NoLostWakeup ==
    /\ \A t \in Sleepers("NotFull") : Len(chan_data) = Capacity
    /\ NoMissedMessage

\* What a consumer peeked is what its next get will pop.
PeekIsNextGet ==
    \A t \in Consumers : peeked[t] # NoItem =>
        chan_data # <<>> /\ Head(chan_data) = peeked[t]

\* Seen from its ends a channel with one producer and one consumer is a bounded
\* FIFO queue: nothing is lost, repeated or reordered, whatever the threads do.
Fifo == INSTANCE BoundedFifo WITH queue <- chan_data
RefinesFifo == Fifo!Spec

\* A put that waits for room returns once consumers keep receiving.
PutReturns == \A t \in Producers : pc[t] \in PutPCs ~> pc[t] = "idle"

\* Every message of the list is eventually taken off it.
Delivered ==
    \A t \in Producers, s \in 0 .. Stamps - 1 :
        (\E i \in DOMAIN chan_data : chan_data[i] = [from |-> t, stamp |-> s])
            ~> (\E u \in Consumers : got[u] = [from |-> t, stamp |-> s])
=============================================================================
