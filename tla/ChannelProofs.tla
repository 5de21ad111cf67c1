--------------------------- MODULE ChannelProofs ---------------------------
(* Theorems about Channel for every set of threads, and for every capacity   *)
(* unless a theorem says otherwise.                                          *)
EXTENDS Channel, TLAPS

-----------------------------------------------------------------------------
(* Typing *)

\* One conjunct of Types at a time is enough for an operation that only moves
\* its own thread.
LEMMA WokenFromType ==
    ASSUME NEW p \in {"putAsleep", "getAsleep", "peekAsleep"}
    PROVE  /\ p = "putAsleep" => WokenFrom(p) = "putWoken"
           /\ p = "getAsleep" => WokenFrom(p) = "getWoken"
           /\ p = "peekAsleep" => WokenFrom(p) = "peekWoken"
  BY DEF WokenFrom

\* What waking sleepers does to the thread states: a thread that is not woken
\* stays, and a woken one goes from its Asleep place to its Woken place.
LEMMA WakeType ==
    ASSUME Types, NEW c \in Conds, NEW u \in Sleepers(c)
    PROVE  /\ u \in Producers => WokenFrom(pc[u]) \in PutPCs
           /\ u \in Consumers => WokenFrom(pc[u]) \in GetPCs \cup PeekPCs
  BY ChannelAssumption, WokenFromType
     DEF Types, Sleepers, Asleep, Conds, PutPCs, GetPCs, PeekPCs, Threads

\* What notify does keeps the types of the variables it changes.
LEMMA NotifyType ==
    ASSUME Types, NEW t \in Threads, NEW c \in Conds, NEW notifying,
           \/ t \in Producers /\ notifying = "putNotify"
           \/ t \in Consumers /\ notifying = "getNotify",
           Notify(t, c, notifying)
    PROVE  /\ mutex' \in [Conds -> Threads \cup {NoThread}]
           /\ pending' \in [Conds -> BOOLEAN]
           /\ pc' \in [Threads -> {"idle", "undefined"} \cup PutPCs
                                    \cup GetPCs \cup PeekPCs]
           /\ \A u \in Producers : pc'[u] \in {"idle"} \cup PutPCs
           /\ \A u \in Consumers : pc'[u] \in {"idle", "undefined"}
                                                \cup GetPCs \cup PeekPCs
<1>1. CASE Waiters(c) = {}
  BY <1>1, ChannelAssumption
     DEF Notify, Types, Threads, PutPCs, GetPCs, PeekPCs
<1>2. CASE Waiters(c) # {}
  <2>1. /\ mutex' = [mutex EXCEPT ![c] = t]
        /\ pending' = [pending EXCEPT ![c] = Sleepers(c) = {}]
        /\ pc' = [u \in Threads |-> IF u = t THEN notifying
                                    ELSE IF u \in Sleepers(c) THEN WokenFrom(pc[u])
                                    ELSE pc[u]]
    BY <1>2, Zenon DEF Notify
  <2>2. mutex' \in [Conds -> Threads \cup {NoThread}]
    BY <2>1 DEF Types
  <2>3. pending' \in [Conds -> BOOLEAN]
    BY <2>1 DEF Types
  <2>4. \A u \in Producers : pc'[u] \in {"idle"} \cup PutPCs
    BY <2>1, WakeType, ChannelAssumption DEF Types, Threads, PutPCs
  <2>5. \A u \in Consumers : pc'[u] \in {"idle", "undefined"} \cup GetPCs \cup PeekPCs
    BY <2>1, WakeType, ChannelAssumption DEF Types, Threads, GetPCs
  <2>6. QED
    BY <2>1, <2>2, <2>3, <2>4, <2>5 DEF Threads
<1>3. QED
  BY <1>1, <1>2

\* Stamps stay in their range when the next one is drawn.
LEMMA StampStep ==
    ASSUME NEW n \in 0 .. Stamps - 1
    PROVE  (n + 1) % Stamps \in 0 .. Stamps - 1
  BY ChannelAssumption

\* The variables of a channel always have the types of the C++ members and
\* locals they stand for.
LEMMA TypesInvariant == Spec => []Types
<1>1. Init => Types
  BY ChannelAssumption
     DEF Init, Types, Conds, Threads, Item, NoItem, PutPCs, GetPCs, PeekPCs
<1>2. Types /\ [Next]_vars => Types'
  <2> SUFFICES ASSUME Types, [Next]_vars
               PROVE  Types'
    OBVIOUS
  <2> USE ChannelAssumption
  <2>1. ASSUME NEW t \in Producers, Put(t) PROVE Types'
    BY <2>1 DEF Put, Goto, Types, Threads, PutPCs, GetPCs, PeekPCs
  <2>2. ASSUME NEW t \in Producers, PutTest(t) PROVE Types'
    BY <2>2 DEF PutTest, Goto, Types, Threads, PutPCs, GetPCs, PeekPCs
  <2>3. ASSUME NEW t \in Producers, PutResume(t) PROVE Types'
    BY <2>3 DEF PutResume, Goto, Types, Threads, PutPCs, GetPCs, PeekPCs
  <2>4. ASSUME NEW t \in Producers, Push(t) PROVE Types'
    <3>1. t \in Threads /\ "NotEmpty" \in Conds
      BY DEF Threads, Conds
    <3>2. Notify(t, "NotEmpty", "putNotify")
      BY <2>4 DEF Push
    <3>3. [from |-> t, stamp |-> nextPut[t]] \in Item
      BY DEF Item, Types
    <3>4. chan_data' \in Seq(Item)
      BY <2>4, <3>3 DEF Push, Types
    <3>5. nextPut' \in [Producers -> 0 .. Stamps - 1]
      BY <2>4, StampStep DEF Push, Types
    <3>6. UNCHANGED <<got, peeked>>
      BY <2>4 DEF Push
    <3>7. QED
      BY <3>1, <3>2, <3>4, <3>5, <3>6, NotifyType DEF Types
  <2>5. ASSUME NEW t \in Producers, PutReturn(t) PROVE Types'
    BY <2>5 DEF PutReturn, NotifyReturn, Goto, Types, Conds, Threads,
                PutPCs, GetPCs, PeekPCs
  <2>6. ASSUME NEW t \in Consumers, Get(t) PROVE Types'
    BY <2>6 DEF Get, Goto, Types, Threads, PutPCs, GetPCs, PeekPCs
  <2>7. ASSUME NEW t \in Consumers, GetTest(t) PROVE Types'
    BY <2>7 DEF GetTest, Goto, Types, Threads, PutPCs, GetPCs, PeekPCs
  <2>8. ASSUME NEW t \in Consumers, GetResume(t) PROVE Types'
    BY <2>8 DEF GetResume, Goto, Types, Threads, PutPCs, GetPCs, PeekPCs
  <2>9. ASSUME NEW t \in Consumers, Pop(t) PROVE Types'
    <3>1. CASE chan_data # <<>>
      <4>1. t \in Threads /\ "NotFull" \in Conds
        BY DEF Threads, Conds
      <4>2. Notify(t, "NotFull", "getNotify")
        BY <2>9, <3>1 DEF Pop
      <4>3. Head(chan_data) \in Item /\ Tail(chan_data) \in Seq(Item)
        BY <3>1 DEF Types
      <4>4. /\ chan_data' = Tail(chan_data)
            /\ got' = [got EXCEPT ![t] = Head(chan_data)]
            /\ peeked' = [peeked EXCEPT ![t] = NoItem]
            /\ nextPut' = nextPut
        BY <2>9, <3>1 DEF Pop
      <4>5. QED
        BY <4>1, <4>2, <4>3, <4>4, NotifyType DEF Types
    <3>2. CASE chan_data = <<>>
      BY <2>9, <3>2 DEF Pop, Types, Threads, PutPCs, GetPCs, PeekPCs
    <3>3. QED
      BY <3>1, <3>2
  <2>10. ASSUME NEW t \in Consumers, GetReturn(t) PROVE Types'
    BY <2>10 DEF GetReturn, NotifyReturn, Goto, Types, Conds, Threads,
                 PutPCs, GetPCs, PeekPCs
  <2>11. ASSUME NEW t \in Consumers, Peek(t) PROVE Types'
    BY <2>11 DEF Peek, Goto, Types, Threads, PutPCs, GetPCs, PeekPCs
  <2>12. ASSUME NEW t \in Consumers, PeekStep(t) PROVE Types'
    <3>1. /\ UNCHANGED <<chan_data, mutex, pending, nextPut, got>>
          /\ \E p \in {"idle", "undefined", "peekAsleep"} : pc' = [pc EXCEPT ![t] = p]
          /\ \/ peeked' = peeked
             \/ chan_data # <<>> /\ peeked' = [peeked EXCEPT ![t] = Head(chan_data)]
      BY <2>12 DEF PeekStep, PeekTest, PeekResume, ReadFront
    <3>2. peeked' \in [Consumers -> Item \cup {NoItem}]
      BY <3>1 DEF Types
    <3>3. QED
      BY <3>1, <3>2 DEF Types, Threads, PutPCs, GetPCs, PeekPCs
  <2>13. ASSUME NEW t \in Resetters, Reset(t) PROVE Types'
    BY <2>13 DEF Reset, Types, NoItem
  <2>14. ASSUME NEW t \in Threads, NEW c \in Conds, StaleWake(t, c) PROVE Types'
    <3>1. \A u \in Producers : pc'[u] \in {"idle"} \cup PutPCs
      BY <2>14, WakeType DEF StaleWake, Types, Threads
    <3>2. \A u \in Consumers : pc'[u] \in {"idle", "undefined"} \cup GetPCs \cup PeekPCs
      BY <2>14, WakeType DEF StaleWake, Types, Threads
    <3>3. QED
      BY <2>14, <3>1, <3>2 DEF StaleWake, Types, Threads
  <2>15. CASE UNCHANGED vars
    BY <2>15 DEF vars, Types
  <2>16. QED
    BY <2>1, <2>2, <2>3, <2>4, <2>5, <2>6, <2>7, <2>8, <2>9, <2>10, <2>11, <2>12,
       <2>13, <2>14, <2>15 DEF Next, PutStep, GetStep
<1>3. QED
  BY <1>1, <1>2, PTL DEF Spec

-----------------------------------------------------------------------------
(* The mutexes *)

\* notify leaves the mutex of its condition with its caller exactly while the
\* caller is inside it, and no woken thread goes to a place inside a notify.
LEMMA NotifyMutex ==
    ASSUME Types, MutexHeld, NEW t \in Threads, NEW c \in Conds, Free(c),
           pc[t] \in {"push", "pop"}, Notify(t, c, Notifying(c))
    PROVE  MutexHeld'
<1>1. \A u \in Threads, d \in Conds :
        u \in Sleepers(c) => WokenFrom(pc[u]) # Notifying(d) /\ pc[u] # Notifying(d)
  BY WokenFromType DEF Sleepers, Asleep, Notifying, Conds
<1>2. t \notin Sleepers(c) /\ \A d \in Conds : mutex[d] # t /\ pc[t] # Notifying(d)
  BY DEF MutexHeld, Sleepers, Asleep, Notifying, Conds
<1>3. \A u \in Threads : u # NoThread
  BY ChannelAssumption
<1>4. CASE Waiters(c) = {}
  <2>1. pc' = [pc EXCEPT ![t] = "idle"] /\ mutex' = mutex
    BY <1>4 DEF Notify
  <2> QED
    BY <1>2, <2>1 DEF MutexHeld, Types, Notifying
<1>5. CASE Waiters(c) # {}
  <2>1. /\ mutex' = [mutex EXCEPT ![c] = t]
        /\ pc' = [u \in Threads |-> IF u = t THEN Notifying(c)
                                    ELSE IF u \in Sleepers(c) THEN WokenFrom(pc[u])
                                    ELSE pc[u]]
    BY <1>5, Zenon DEF Notify
  <2>2. ASSUME NEW d \in Conds, NEW u \in Threads
        PROVE  mutex'[d] = u <=> pc'[u] = Notifying(d)
    <3>1. CASE u = t
      BY <1>2, <2>1, <3>1 DEF Types, Notifying, Conds
    <3>2. CASE u # t
      <4>1. pc'[u] = Notifying(d) <=> pc[u] = Notifying(d)
        BY <1>1, <2>1, <3>2
      <4>2. mutex'[d] = u <=> mutex[d] = u
        BY <1>3, <2>1, <3>2 DEF Types, Free
      <4> QED
        BY <4>1, <4>2 DEF MutexHeld
    <3> QED
      BY <3>1, <3>2
  <2> QED
    BY <2>2 DEF MutexHeld, Notifying
<1> QED
  BY <1>4, <1>5

\* A step of one thread from a place outside a notify to another such place.
LEMMA MoveMutex ==
    ASSUME Types, MutexHeld, NEW t \in Threads, NEW p,
           pc[t] \notin {"putNotify", "getNotify"}, p \notin {"putNotify", "getNotify"},
           pc' = [pc EXCEPT ![t] = p], mutex' = mutex
    PROVE  MutexHeld'
  BY DEF Types, MutexHeld, Notifying

\* The variables of a channel keep their types, and a mutex is held exactly by
\* the thread inside a notify of its condition: put and get leave none locked.
THEOREM TypeCorrect == Spec => []TypeOK
<1>1. Init => MutexHeld
  BY ChannelAssumption DEF Init, MutexHeld, Notifying
<1>2. Types /\ MutexHeld /\ [Next]_vars => MutexHeld'
  <2> SUFFICES ASSUME Types, MutexHeld, [Next]_vars PROVE MutexHeld'
    OBVIOUS
  <2>1. ASSUME NEW t \in Producers, Put(t) \/ PutTest(t) \/ PutResume(t) PROVE MutexHeld'
    BY <2>1, MoveMutex DEF Put, PutTest, PutResume, Goto, Threads
  <2>2. ASSUME NEW t \in Producers, Push(t) PROVE MutexHeld'
    BY <2>2, NotifyMutex DEF Push, Notifying, Conds, Threads
  <2>3. ASSUME NEW t \in Consumers,
               Get(t) \/ GetTest(t) \/ GetResume(t) \/ Peek(t) \/ PeekStep(t)
        PROVE  MutexHeld'
    BY <2>3, MoveMutex DEF Get, GetTest, GetResume, Peek, PeekStep, PeekTest, PeekResume,
                           ReadFront, Goto, Threads
  <2>4. ASSUME NEW t \in Consumers, Pop(t), chan_data # <<>> PROVE MutexHeld'
    BY <2>4, NotifyMutex DEF Pop, Notifying, Conds, Threads
  <2>5. ASSUME NEW t \in Consumers, Pop(t), chan_data = <<>> PROVE MutexHeld'
    BY <2>5, MoveMutex DEF Pop, Threads
  <2>6. ASSUME NEW t \in Threads, NEW c \in Conds, NotifyReturn(t, c, Notifying(c))
        PROVE  MutexHeld'
    <3>1. pc[t] = Notifying(c) /\ mutex[c] = t /\ t # NoThread
      BY <2>6, ChannelAssumption DEF NotifyReturn, Goto, MutexHeld
    <3>2. pc' = [pc EXCEPT ![t] = "idle"] /\ mutex' = [mutex EXCEPT ![c] = NoThread]
      BY <2>6 DEF NotifyReturn, Goto
    <3>3. \A u \in Threads : u # NoThread
      BY ChannelAssumption
    <3> QED
      BY <3>1, <3>2, <3>3 DEF Types, MutexHeld, Notifying, Conds
  <2>7. ASSUME NEW t \in Threads, NEW c \in Conds, StaleWake(t, c) PROVE MutexHeld'
    <3>1. ASSUME NEW u \in Threads, NEW d \in Conds
          PROVE  pc'[u] = Notifying(d) <=> pc[u] = Notifying(d)
      BY <2>7, WokenFromType DEF StaleWake, Sleepers, Asleep, Notifying, Conds
    <3> QED
      BY <2>7, <3>1 DEF StaleWake, MutexHeld, Notifying
  <2>8. CASE (\E t \in Resetters : Reset(t)) \/ UNCHANGED vars
    BY <2>8 DEF Reset, vars, MutexHeld, Notifying
  <2>9. \A t \in Producers : PutReturn(t) => MutexHeld'
    BY <2>6 DEF PutReturn, Notifying, Conds, Threads
  <2>10. \A t \in Consumers : GetReturn(t) => MutexHeld'
    BY <2>6 DEF GetReturn, Notifying, Conds, Threads
  <2> QED
    BY <2>1, <2>2, <2>3, <2>4, <2>5, <2>7, <2>8, <2>9, <2>10
       DEF Next, PutStep, GetStep
<1> QED
  BY <1>1, <1>2, TypesInvariant, PTL DEF Spec, TypeOK

-----------------------------------------------------------------------------
(* The capacity, with one producer and any number of consumers *)

\* The channels of the environments hold one message.  A larger one is broken by
\* the broadcasts that Pth leaves pending.
SingleSlot == Capacity = 1

\* The strengthening of CapacityBound: between put's test (or its waking) and
\* its push_back there is room, because nobody else appends, and no broadcast on
\* NotFull is pending, so that a put never wakes while the list is full.  This
\* last part needs a capacity of one: a pop that leaves a broadcast pending finds
\* the put awake, hence the list full no longer, hence empty.
ProducerInv ==
    /\ CapacityBound
    /\ \A t \in Producers : pc[t] \in {"putWoken", "push"} => Len(chan_data) < Capacity
    /\ ~pending["NotFull"]

\* Waking sleepers on c moves only threads that were asleep on c.
LEMMA NotifyMoves ==
    ASSUME Types, NEW t \in Threads, NEW c \in Conds, NEW notifying,
           Notify(t, c, notifying), NEW u \in Threads, u # t
    PROVE  pc'[u] = IF u \in Sleepers(c) THEN WokenFrom(pc[u]) ELSE pc[u]
<1>1. CASE Waiters(c) = {}
  BY <1>1 DEF Notify, Waiters, Sleepers, Types
<1>2. CASE Waiters(c) # {}
  <2>1. pc' = [v \in Threads |-> IF v = t THEN notifying
                                 ELSE IF v \in Sleepers(c) THEN WokenFrom(pc[v])
                                 ELSE pc[v]]
    BY <1>2, Zenon DEF Notify
  <2>2. QED
    BY <2>1
<1>3. QED
  BY <1>1, <1>2

\* The caller of notify goes on or returns, and notify touches no other condition.
LEMMA NotifySelf ==
    ASSUME Types, NEW t \in Threads, NEW c \in Conds, NEW notifying,
           Notify(t, c, notifying)
    PROVE  /\ pc'[t] \in {"idle", notifying}
           /\ \A d \in Conds \ {c} : pending'[d] = pending[d]
           /\ pending'[c] => pending[c] \/ \E u \in Threads : pc[u] \in Woken(c)
  BY DEF Notify, Types, Waiters, Sleepers

\* The invariant of a single producer holds of every behaviour.
LEMMA ProducerInvariant ==
    ASSUME NEW p, Producers = {p}, SingleSlot
    PROVE  Spec => []ProducerInv
<1>1. Init => ProducerInv
  BY ChannelAssumption
     DEF Init, ProducerInv, CapacityBound, Threads, Conds
<1>2. Types /\ ProducerInv /\ [Next]_vars => ProducerInv'
  <2> SUFFICES ASSUME Types, ProducerInv, [Next]_vars
               PROVE  ProducerInv'
    OBVIOUS
  <2> USE ChannelAssumption
  <2>1. CASE \E t \in Producers : Put(t)
    BY <2>1 DEF Put, Goto, ProducerInv, CapacityBound, Types
  <2>2. CASE \E t \in Producers : PutTest(t)
    BY <2>2 DEF PutTest, Goto, ProducerInv, CapacityBound, Types
  <2>3. CASE \E t \in Producers : PutResume(t)
    BY <2>3 DEF PutResume, Goto, ProducerInv, CapacityBound, Types
  <2>4. ASSUME NEW t \in Producers, Push(t)
        PROVE  ProducerInv'
    <3>1. t = p /\ t \in Threads /\ "NotEmpty" \in Conds /\ "NotFull" \in Conds \ {"NotEmpty"}
      BY DEF Threads, Conds
    <3>2. Len(chan_data) < Capacity /\ Len(chan_data') = Len(chan_data) + 1
      BY <2>4 DEF Push, ProducerInv, Types
    <3>3. Notify(t, "NotEmpty", "putNotify")
      BY <2>4 DEF Push
    <3>4. pc'[t] \in {"idle", "putNotify"} /\ pending'["NotFull"] = pending["NotFull"]
      BY <3>1, <3>3, NotifySelf
    <3>5. QED
      BY <3>1, <3>2, <3>4 DEF ProducerInv, CapacityBound, Types
  <2>5. CASE \E t \in Producers : PutReturn(t)
    BY <2>5 DEF PutReturn, NotifyReturn, Goto, ProducerInv, CapacityBound, Types
  <2>6. ASSUME NEW t \in Consumers, Pop(t), chan_data # <<>>
        PROVE  ProducerInv'
    <3>1. t # p /\ t \in Threads /\ p \in Threads /\ "NotFull" \in Conds
      BY DEF Threads, Conds
    <3>2. Len(chan_data) > 0 /\ Len(chan_data') = Len(chan_data) - 1
      BY <2>6 DEF Pop, Types
    <3>3. Notify(t, "NotFull", "getNotify")
      BY <2>6 DEF Pop
    <3>4. ASSUME pending'["NotFull"] PROVE FALSE
      <4>1. \E u \in Threads : pc[u] = "putWoken"
        BY <3>1, <3>3, <3>4, NotifySelf DEF ProducerInv, Woken
      <4>2. pc[p] = "putWoken"
        BY <4>1 DEF Types, Threads, GetPCs, PeekPCs
      <4>3. Len(chan_data) < Capacity
        BY <4>2 DEF ProducerInv
      <4>4. QED
        BY <3>2, <4>3 DEF SingleSlot, Types
    <3>5. QED
      BY <3>2, <3>4 DEF ProducerInv, CapacityBound, Types
  <2>7. ASSUME NEW t \in Consumers, Pop(t), chan_data = <<>>
        PROVE  ProducerInv'
    BY <2>7 DEF Pop, ProducerInv, CapacityBound, Types
  <2>8. ASSUME NEW t \in Consumers,
               Get(t) \/ GetTest(t) \/ GetResume(t) \/ Peek(t) \/ PeekStep(t)
        PROVE  ProducerInv'
    <3>1. t # p /\ UNCHANGED <<chan_data, pending>>
      BY <2>8 DEF Get, GetTest, GetResume, Peek, PeekStep, PeekTest, PeekResume, ReadFront
    <3>2. pc'[p] = pc[p]
      BY <2>8, <3>1 DEF Get, GetTest, GetResume, Goto, Peek, PeekStep, PeekTest,
                        PeekResume, ReadFront, Types, Threads
    <3>3. QED
      BY <3>1, <3>2 DEF ProducerInv, CapacityBound
  <2>9. ASSUME NEW t \in Consumers, GetReturn(t)
        PROVE  ProducerInv'
    BY <2>9 DEF GetReturn, NotifyReturn, Goto, ProducerInv, CapacityBound, Types, Threads
  <2>10. ASSUME NEW t \in Resetters, Reset(t)
         PROVE  ProducerInv'
    BY <2>10 DEF Reset, ProducerInv, CapacityBound
  <2>11. ASSUME NEW t \in Threads, NEW c \in Conds, StaleWake(t, c)
         PROVE  ProducerInv'
    <3>1. c = "NotEmpty"
      BY <2>11 DEF StaleWake, ProducerInv, Conds
    <3>2. p \notin Sleepers(c) /\ p \in Threads
      BY <3>1 DEF Sleepers, Asleep, Types, PutPCs, Threads
    <3>3. pc'[p] = pc[p] /\ UNCHANGED chan_data /\ pending'["NotFull"] = pending["NotFull"]
      BY <2>11, <3>1, <3>2 DEF StaleWake, Types, Conds
    <3>4. QED
      BY <3>3 DEF ProducerInv, CapacityBound
  <2>12. CASE UNCHANGED vars
    BY <2>12 DEF vars, ProducerInv, CapacityBound
  <2>13. QED
    BY <2>1, <2>2, <2>3, <2>4, <2>5, <2>6, <2>7, <2>8, <2>9, <2>10, <2>11, <2>12
       DEF Next, PutStep, GetStep
<1>3. QED
  BY <1>1, <1>2, TypesInvariant, PTL DEF Spec

\* One producer and any number of consumers, some of which may reset it: the list
\* of a channel never exceeds the size it was built with.
THEOREM CapacityTheorem ==
    ASSUME NEW p, Producers = {p}, SingleSlot
    PROVE  Spec => []CapacityBound
<1>1. ProducerInv => CapacityBound
  BY DEF ProducerInv
<1>2. QED
  BY <1>1, ProducerInvariant, PTL

-----------------------------------------------------------------------------
(* No pop of an empty list, with one producer and one consumer *)

\* The strengthening of NoEmptyPop: between get's test (or its waking) and its
\* pop_front there is a message, because nobody else takes one off the list.
ConsumerInv ==
    /\ NoEmptyPop
    /\ \A t \in Consumers :
          pc[t] \in {"getWoken", "peekWoken", "pop"} => chan_data # <<>>
    /\ ~pending["NotEmpty"]

\* The invariant of a single consumer holds of every behaviour.
LEMMA ConsumerInvariant ==
    ASSUME NEW p, Producers = {p}, NEW c, Consumers = {c}, SingleSlot,
           Resetters \cap Producers = {}
    PROVE  Spec => []ConsumerInv
<1>1. Init => ConsumerInv
  BY ChannelAssumption DEF Init, ConsumerInv, NoEmptyPop, Threads, Conds
<1>2. Types /\ ProducerInv /\ ConsumerInv /\ [Next]_vars => ConsumerInv'
  <2> SUFFICES ASSUME Types, ProducerInv, ConsumerInv, [Next]_vars
               PROVE  ConsumerInv'
    OBVIOUS
  <2> USE ChannelAssumption
  <2>1. ASSUME NEW t \in Producers, Put(t) \/ PutTest(t) \/ PutResume(t)
        PROVE  ConsumerInv'
    <3>1. UNCHANGED <<chan_data, pending>> /\ pc'[c] = pc[c] /\ pc'[t] # "undefined"
      BY <2>1 DEF Put, PutTest, PutResume, Goto, Types, Threads
    <3>2. QED
      BY <3>1 DEF ConsumerInv, NoEmptyPop, Threads
  <2>2. ASSUME NEW t \in Producers, Push(t)
        PROVE  ConsumerInv'
    <3>1. t # c /\ t \in Threads /\ c \in Threads /\ "NotEmpty" \in Conds
      BY DEF Threads, Conds
    <3>2. chan_data' # <<>> /\ Len(chan_data) < Capacity
      <4>1. chan_data \in Seq(Item)
        BY DEF Types
      <4>2. chan_data' # <<>>
        BY <2>2, <4>1 DEF Push
      <4>3. Len(chan_data) < Capacity
        BY <2>2 DEF Push, ProducerInv
      <4> QED
        BY <4>2, <4>3
    <3>3. Notify(t, "NotEmpty", "putNotify")
      BY <2>2 DEF Push
    <3>4. pc'[t] # "undefined"
      BY <3>1, <3>3, NotifySelf
    <3>5. pc'[c] # "undefined"
      BY <3>1, <3>3, NotifyMoves, WakeType
         DEF ConsumerInv, NoEmptyPop, WokenFrom, Sleepers, Asleep
    <3>6. ASSUME pending'["NotEmpty"] PROVE FALSE
      <4>1. \E u \in Threads : pc[u] \in {"getWoken", "peekWoken"}
        BY <3>1, <3>3, <3>6, NotifySelf DEF ConsumerInv, Woken
      <4>2. chan_data # <<>>
        BY <4>1 DEF ConsumerInv, Types, Threads, PutPCs
      <4>3. Len(chan_data) > 0
        BY <4>2 DEF Types
      <4>4. QED
        BY <3>2, <4>3 DEF SingleSlot, Types
    <3>7. QED
      BY <3>2, <3>4, <3>5, <3>6 DEF ConsumerInv, NoEmptyPop, Threads
  <2>3. ASSUME NEW t \in Producers, PutReturn(t)
        PROVE  ConsumerInv'
    BY <2>3 DEF PutReturn, NotifyReturn, Goto, ConsumerInv, NoEmptyPop, Types, Threads
  <2>4. ASSUME NEW t \in Consumers,
               \/ Get(t) \/ GetTest(t) \/ GetResume(t)
               \/ Peek(t) \/ PeekStep(t) \/ GetReturn(t)
        PROVE  ConsumerInv'
    <3>1. UNCHANGED <<chan_data, pending>>
      BY <2>4 DEF Get, GetTest, GetResume, Peek, PeekStep, PeekTest, PeekResume,
                  ReadFront, GetReturn, NotifyReturn
    <3>2. /\ pc'[c] # "undefined"
          /\ pc'[c] \in {"getWoken", "peekWoken", "pop"} => chan_data # <<>>
      BY <2>4 DEF Get, GetTest, GetResume, Peek, PeekStep, PeekTest, PeekResume,
                  ReadFront, GetReturn, NotifyReturn, Goto, ConsumerInv, Types, Threads
    <3>3. pc'[p] = pc[p]
      BY <2>4 DEF Get, GetTest, GetResume, Peek, PeekStep, PeekTest, PeekResume,
                  ReadFront, GetReturn, NotifyReturn, Goto, Types, Threads
    <3>4. QED
      BY <3>1, <3>2, <3>3 DEF ConsumerInv, NoEmptyPop, Threads
  <2>5. ASSUME NEW t \in Consumers, Pop(t)
        PROVE  ConsumerInv'
    <3>1. t # p /\ t \in Threads /\ p \in Threads /\ "NotFull" \in Conds
          /\ "NotEmpty" \in Conds \ {"NotFull"}
      BY DEF Threads, Conds
    <3>2. Notify(t, "NotFull", "getNotify")
      BY <2>5 DEF Pop, ConsumerInv
    <3>3. pc'[t] \in {"idle", "getNotify"} /\ pending'["NotEmpty"] = pending["NotEmpty"]
      BY <3>1, <3>2, NotifySelf
    <3>4. pc'[p] # "undefined"
      BY <3>1, <3>2, NotifyMoves DEF ConsumerInv, NoEmptyPop, WokenFrom, Sleepers, Asleep
    <3>5. QED
      BY <3>3, <3>4 DEF ConsumerInv, NoEmptyPop, Threads
  <2>6. ASSUME NEW t \in Resetters, Reset(t)
        PROVE  ConsumerInv'
    <3>1. t = c
      BY DEF Threads
    <3>2. QED
      BY <2>6, <3>1 DEF Reset, ConsumerInv, NoEmptyPop
  <2>7. ASSUME NEW t \in Threads, NEW d \in Conds, StaleWake(t, d)
        PROVE  ConsumerInv'
    BY <2>7 DEF StaleWake, ConsumerInv, ProducerInv, Conds
  <2>8. CASE UNCHANGED vars
    BY <2>8 DEF vars, ConsumerInv, NoEmptyPop
  <2>9. QED
    BY <2>1, <2>2, <2>3, <2>4, <2>5, <2>6, <2>7, <2>8 DEF Next, PutStep, GetStep
<1>3. QED
  BY <1>1, <1>2, TypesInvariant, ProducerInvariant, PTL DEF Spec

\* One producer and one consumer, and only the consumer resets: get and peek
\* never apply front() or pop_front() to an empty list.
THEOREM EmptyPopTheorem ==
    ASSUME NEW p, Producers = {p}, NEW c, Consumers = {c}, SingleSlot,
           Resetters \cap Producers = {}
    PROVE  Spec => []NoEmptyPop
<1>1. ConsumerInv => NoEmptyPop
  BY DEF ConsumerInv
<1>2. QED
  BY <1>1, ConsumerInvariant, PTL

-----------------------------------------------------------------------------
(* The channel implements a bounded FIFO queue *)

\* One producer, one consumer and no reset: every step of the channel is a put
\* or a get of the bounded FIFO queue, or leaves that queue alone.
THEOREM FifoTheorem ==
    ASSUME NEW p, Producers = {p}, NEW c, Consumers = {c}, SingleSlot,
           Resetters = {}
    PROVE  Spec => RefinesFifo
<1>1. Init => Fifo!Init
  BY DEF Init, Fifo!Init, NoItem
<1>2. ProducerInv /\ [Next]_vars => [Fifo!Next]_<<chan_data, nextPut, got>>
  <2> SUFFICES ASSUME ProducerInv, [Next]_vars
               PROVE  [Fifo!Next]_<<chan_data, nextPut, got>>
    OBVIOUS
  <2>1. ASSUME NEW t \in Producers, Push(t)
        PROVE  Fifo!Next
    <3>1. Fifo!Put(t)
      BY <2>1 DEF Push, ProducerInv, Fifo!Put
    <3>2. QED
      BY <3>1 DEF Fifo!Next
  <2>2. ASSUME NEW t \in Consumers, Pop(t), chan_data # <<>>
        PROVE  Fifo!Next
    <3>1. Fifo!Get(t)
      BY <2>2 DEF Pop, Fifo!Get
    <3>2. QED
      BY <3>1 DEF Fifo!Next
  <2>3. ASSUME NEW t \in Consumers, Pop(t), chan_data = <<>>
        PROVE  UNCHANGED <<chan_data, nextPut, got>>
    BY <2>3 DEF Pop
  <2>4. ASSUME NEW t \in Producers,
               Put(t) \/ PutTest(t) \/ PutResume(t) \/ PutReturn(t)
        PROVE  UNCHANGED <<chan_data, nextPut, got>>
    BY <2>4 DEF Put, PutTest, PutResume, PutReturn, NotifyReturn
  <2>5. ASSUME NEW t \in Consumers,
               \/ Get(t) \/ GetTest(t) \/ GetResume(t) \/ GetReturn(t)
               \/ Peek(t) \/ PeekStep(t)
        PROVE  UNCHANGED <<chan_data, nextPut, got>>
    BY <2>5 DEF Get, GetTest, GetResume, GetReturn, NotifyReturn, Peek, PeekStep,
                PeekTest, PeekResume, ReadFront
  <2>6. ASSUME NEW t \in Threads, NEW d \in Conds, StaleWake(t, d)
        PROVE  UNCHANGED <<chan_data, nextPut, got>>
    BY <2>6 DEF StaleWake
  <2>7. CASE UNCHANGED vars
    BY <2>7 DEF vars
  <2>8. QED
    BY <2>1, <2>2, <2>3, <2>4, <2>5, <2>6, <2>7 DEF Next, PutStep, GetStep
<1>3. QED
  BY <1>1, <1>2, ProducerInvariant, PTL DEF Spec, RefinesFifo, Fifo!Spec

-----------------------------------------------------------------------------
(* No wakeup is lost *)

\* signal wakes everybody who sleeps on its condition, and nobody else falls
\* asleep.
LEMMA NotifyWakes ==
    ASSUME Types, NEW t \in Threads, NEW c \in Conds, NEW notifying \in {"putNotify", "getNotify"},
           Notify(t, c, notifying)
    PROVE  Sleepers(c)' = {} /\ \A d \in Conds : Sleepers(d)' \subseteq Sleepers(d)
<1>1. \A d \in Conds : t \notin Sleepers(d)'
  BY NotifySelf DEF Sleepers, Asleep
<1>2. ASSUME NEW u \in Threads, u # t, NEW d \in Conds, u \in Sleepers(d)'
      PROVE  u \in Sleepers(d) /\ d # c
  <2>1. pc'[u] = IF u \in Sleepers(c) THEN WokenFrom(pc[u]) ELSE pc[u]
    BY <1>2, NotifyMoves
  <2>2. CASE u \in Sleepers(c)
    <3>1. WokenFrom(pc[u]) \in {"putWoken", "getWoken", "peekWoken"}
      BY <2>2, WokenFromType DEF Sleepers, Asleep, Conds
    <3> QED
      BY <1>2, <2>1, <2>2, <3>1 DEF Sleepers, Asleep
  <2>3. CASE u \notin Sleepers(c)
    BY <1>2, <2>1, <2>3 DEF Sleepers
  <2> QED
    BY <2>2, <2>3
<1> QED
  BY <1>1, <1>2 DEF Sleepers

\* A step that moves one thread, to a place where it does not sleep.
LEMMA MoveSleepers ==
    ASSUME Types, NEW t \in Threads, NEW p, p \notin {"putAsleep", "getAsleep", "peekAsleep"},
           pc' = [pc EXCEPT ![t] = p]
    PROVE  \A d \in Conds : Sleepers(d)' \subseteq Sleepers(d)
  BY DEF Types, Sleepers, Asleep

\* Who falls asleep does so by a test, which finds the list full or empty; a step
\* that changes the list wakes everybody it concerns.
LEMMA SleepersStep ==
    ASSUME Types, [Next]_vars
    PROVE  \/ /\ chan_data' = chan_data
              /\ \A u \in Sleepers("NotEmpty")' : u \in Sleepers("NotEmpty") \/ chan_data = <<>>
              /\ \A u \in Sleepers("NotFull")' :
                     u \in Sleepers("NotFull") \/ Len(chan_data) = Capacity
           \/ /\ Sleepers("NotEmpty")' = {}
              /\ \E t \in Producers : Push(t) /\ Sleepers("NotFull")' \subseteq Sleepers("NotFull")
           \/ /\ Sleepers("NotFull")' = {} /\ chan_data # <<>>
              /\ Sleepers("NotEmpty")' \subseteq Sleepers("NotEmpty")
           \/ chan_data' = <<>> /\ \E t \in Resetters : Reset(t)
<1> DEFINE Still == chan_data' = chan_data /\ \A d \in Conds : Sleepers(d)' \subseteq Sleepers(d)
<1> USE DEF Conds
<1>1. CASE UNCHANGED vars
  BY <1>1 DEF vars, Sleepers
<1>2. ASSUME NEW t \in Threads, NEW p, p \notin {"putAsleep", "getAsleep", "peekAsleep"},
             pc' = [pc EXCEPT ![t] = p], chan_data' = chan_data
      PROVE  Still
  BY <1>2, MoveSleepers
<1>3. ASSUME NEW t \in Producers, Put(t) \/ PutResume(t) \/ PutReturn(t) PROVE Still
  BY <1>2, <1>3 DEF Put, PutResume, PutReturn, NotifyReturn, Goto, Threads
<1>4. ASSUME NEW t \in Producers, PutTest(t), Len(chan_data) # Capacity PROVE Still
  BY <1>2, <1>4 DEF PutTest, Goto, Threads
<1>5. ASSUME NEW t \in Producers, PutTest(t), Len(chan_data) = Capacity
      PROVE  chan_data' = chan_data /\ Sleepers("NotEmpty")' \subseteq Sleepers("NotEmpty")
  BY <1>5 DEF PutTest, Goto, Sleepers, Asleep, Types, Threads
<1>6. ASSUME NEW t \in Producers, Push(t)
      PROVE  Sleepers("NotEmpty")' = {} /\ Sleepers("NotFull")' \subseteq Sleepers("NotFull")
  BY <1>6, NotifyWakes DEF Push, Threads
<1>7. ASSUME NEW t \in Consumers, Get(t) \/ GetResume(t) \/ GetReturn(t) \/ Peek(t) \/ PeekResume(t)
      PROVE  Still
  BY <1>2, <1>7 DEF Get, GetResume, GetReturn, Peek, PeekResume, ReadFront, NotifyReturn, Goto, Threads
<1>8. ASSUME NEW t \in Consumers, GetTest(t) \/ PeekTest(t), chan_data # <<>> PROVE Still
  BY <1>2, <1>8 DEF GetTest, PeekTest, ReadFront, Goto, Threads
<1>9. ASSUME NEW t \in Consumers, GetTest(t) \/ PeekTest(t), chan_data = <<>>
      PROVE  chan_data' = chan_data /\ Sleepers("NotFull")' \subseteq Sleepers("NotFull")
  BY <1>9 DEF GetTest, PeekTest, Goto, Sleepers, Asleep, Types, Threads
<1>10. ASSUME NEW t \in Consumers, Pop(t), chan_data # <<>>
       PROVE  Sleepers("NotFull")' = {} /\ Sleepers("NotEmpty")' \subseteq Sleepers("NotEmpty")
  BY <1>10, NotifyWakes DEF Pop, Threads
<1>11. ASSUME NEW t \in Consumers, Pop(t), chan_data = <<>> PROVE Still
  BY <1>2, <1>11 DEF Pop, Threads
<1>12. ASSUME NEW t \in Resetters, Reset(t) PROVE chan_data' = <<>>
  BY <1>12 DEF Reset
<1>13. ASSUME NEW t \in Threads, NEW c \in Conds, StaleWake(t, c) PROVE Still
  <2>1. ASSUME NEW d \in Conds, NEW u \in Sleepers(d)' PROVE u \in Sleepers(d)
    <3>1. u \in Threads /\ pc'[u] = IF u \in Sleepers(c) THEN WokenFrom(pc[u]) ELSE pc[u]
      BY <1>13, <2>1 DEF StaleWake, Sleepers
    <3>2. u \in Sleepers(c) => WokenFrom(pc[u]) \in {"putWoken", "getWoken", "peekWoken"}
      BY WokenFromType DEF Sleepers, Asleep
    <3> QED
      BY <2>1, <3>1, <3>2 DEF Sleepers, Asleep
  <2> QED
    BY <1>13, <2>1 DEF StaleWake
<1> HIDE DEF Conds
<1>14. Still =>
          /\ chan_data' = chan_data
          /\ Sleepers("NotEmpty")' \subseteq Sleepers("NotEmpty")
          /\ Sleepers("NotFull")' \subseteq Sleepers("NotFull")
  BY DEF Conds
<1> HIDE DEF Still
<1>15. CASE \E t \in Producers : Put(t) \/ PutStep(t)
  BY <1>3, <1>4, <1>5, <1>6, <1>14, <1>15 DEF PutStep
<1>16. CASE \E t \in Consumers : Get(t) \/ GetStep(t) \/ Peek(t) \/ PeekStep(t)
  BY <1>7, <1>8, <1>9, <1>10, <1>11, <1>14, <1>16 DEF GetStep, PeekStep
<1> QED
  BY <1>1, <1>12, <1>13, <1>14, <1>15, <1>16 DEF Next, vars, Sleepers

\* No consumer sleeps on a message, for any number of producers and consumers,
\* whenever the channel is reset and whatever broadcasts are left pending.
THEOREM MissedMessageTheorem == Spec => []NoMissedMessage
<1>1. Init => NoMissedMessage
  BY DEF Init, NoMissedMessage
<1>2. Types /\ NoMissedMessage /\ [Next]_vars => NoMissedMessage'
  BY SleepersStep DEF NoMissedMessage
<1> QED
  BY <1>1, <1>2, TypesInvariant, PTL DEF Spec

\* With one producer and no reset, which signals nobody, a put does not sleep
\* while there is room either.
THEOREM LostWakeupTheorem ==
    ASSUME NEW p, Producers = {p}, Resetters = {}
    PROVE  Spec => []NoLostWakeup
<1>1. Init => NoLostWakeup
  BY DEF Init, NoLostWakeup, NoMissedMessage, Sleepers, Asleep
<1>2. Types /\ NoLostWakeup /\ [Next]_vars => NoLostWakeup'
  <2> SUFFICES ASSUME Types, NoLostWakeup, [Next]_vars PROVE NoLostWakeup'
    OBVIOUS
  <2>1. NoMissedMessage'
    BY SleepersStep DEF NoLostWakeup, NoMissedMessage
  <2>2. ASSUME NEW t \in Producers, Push(t) PROVE p \notin Sleepers("NotFull")
    BY <2>2 DEF Push, Sleepers, Asleep
  <2>3. \A u \in Sleepers("NotFull") : u = p
    BY DEF Sleepers, Asleep, Types, Threads, GetPCs, PeekPCs
  <2>4. \A u \in Sleepers("NotFull")' : Len(chan_data') = Capacity
    BY <2>2, <2>3, SleepersStep DEF NoLostWakeup
  <2> QED
    BY <2>1, <2>4 DEF NoLostWakeup
<1> QED
  BY <1>1, <1>2, TypesInvariant, PTL DEF Spec

\* What the only consumer of a channel peeked is what its next get pops, unless a
\* reset comes between, however many producers there are.
THEOREM PeekTheorem ==
    ASSUME NEW c, Consumers = {c}
    PROVE  Spec => []PeekIsNextGet
<1>1. Init => PeekIsNextGet
  BY DEF Init, PeekIsNextGet
<1>2. Types /\ PeekIsNextGet /\ [Next]_vars => PeekIsNextGet'
  <2> SUFFICES ASSUME Types, PeekIsNextGet, [Next]_vars PROVE PeekIsNextGet'
    OBVIOUS
  <2>1. CASE UNCHANGED <<chan_data, peeked>>
    BY <2>1 DEF PeekIsNextGet
  <2>2. ASSUME NEW t \in Producers, Push(t) PROVE PeekIsNextGet'
    <3>1. chan_data' = Append(chan_data, [from |-> t, stamp |-> nextPut[t]]) /\ peeked' = peeked
      BY <2>2 DEF Push
    <3>2. chan_data # <<>> => chan_data' # <<>> /\ Head(chan_data') = Head(chan_data)
      BY <3>1 DEF Types, Item
    <3> QED
      BY <3>1, <3>2 DEF PeekIsNextGet
  <2>3. ASSUME NEW t \in Consumers, Pop(t), chan_data # <<>> PROVE PeekIsNextGet'
    BY <2>3 DEF Pop, PeekIsNextGet, Types
  <2>4. ASSUME NEW t \in Consumers, ReadFront(t) PROVE PeekIsNextGet'
    BY <2>4 DEF ReadFront, PeekIsNextGet, Types
  <2>5. ASSUME NEW t \in Resetters, Reset(t) PROVE PeekIsNextGet'
    BY <2>5 DEF Reset, PeekIsNextGet
  <2>6. CASE \E t \in Producers : Put(t) \/ PutStep(t)
    BY <2>1, <2>2, <2>6 DEF Put, PutStep, PutTest, PutResume, PutReturn, NotifyReturn
  <2>7. CASE \E t \in Consumers : Get(t) \/ GetStep(t) \/ Peek(t) \/ PeekStep(t)
    BY <2>1, <2>3, <2>4, <2>7 DEF Get, GetStep, GetTest, GetResume, Pop, GetReturn, NotifyReturn,
                                  Peek, PeekStep, PeekTest, PeekResume
  <2>8. CASE \E t \in Threads, d \in Conds : StaleWake(t, d)
    BY <2>1, <2>8 DEF StaleWake
  <2> QED
    BY <2>1, <2>5, <2>6, <2>7, <2>8 DEF Next, vars
<1> QED
  BY <1>1, <1>2, TypesInvariant, PTL DEF Spec
=============================================================================
