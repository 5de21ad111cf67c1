# Verification of frsimulation

This directory holds TLA+ models of the frsimulation libraries (`libfrsim`,
`libfrvm`), the TLC runs that check them and the theorems about them that TLAPS
checks. `PROJECT.json` lists the components, the runs, the source lines behind
every definition, the hazards, the findings and the theorems.

    tlc -config MCSimWait_bench.cfg MCSimWait      # a run
    tlapm SimWaitProofs.tla                        # a proof module

## 1. The system

A test bench in C++ drives a Verilog design in Icarus Verilog over VPI. User
code runs in GNU Pth threads, which are cooperative: exactly one runs, and
control passes only inside a call to Pth. The simulator itself is one more such
thread, the one that called `$frsim_system`.

| component | state | operations | what makes it hard |
|---|---|---|---|
| `FrVmChannel` (libfrvm) | list, two mutexes, two conditions | put, get, peek, reset | tests and changes the list under different mutexes; waits with `if` |
| threads: `FrSimThread`, `FrSimThreadEvent`, `FrSimThreadTracker` (libfrsim) | Pth queues, one port per thread, list and counters | spawn, join, yield, wait, trigger, end, delete, waitAllThreadsBlocked | who runs next; counters; deleting a thread that is alive |
| `FrSimIfaceIvl`, `FrSimCond` | registered callbacks, conditions on thread stacks | wait, drive, sample, value-change callback | callbacks nested in user threads; unregistering after a yield; dangling frames |
| `FrSimReg`, `FrSimRegSlice`, `FrSimCReg` | words of aval and bval bits; the connected signal | assignments, bitwise operators, sum, shifts, slices, concatenation, comparisons | unused bits of the top word; stale copies of a signal; word boundaries |
| `FrVmEnv` | eight flags | eight steps, Run | bodies sleep between the test and the setting of a flag |
| `FrSimReport`, `FrSimReportControl` | mask, count, threshold | Report | threshold tested with `==`; exit from any thread |
| fric test bench (examples/fric/sim) | generators, transactors, monitors, checker, environment | threads joined by channels | packets of several ports interleave; end of test against packets in flight |
| fric design (examples/fric/rtl) | FSMs of the clients and of the 8-port switch | one step of all registers at each clock edge | framing without delimiters, acknowledges that start before a packet ends, outputs that keep their last byte |
| `FrVmXactor`, `FrVmCallback`, `FrVmData`, constraints | callback list, constraint list | RegisterCallback, randomize | constraints are drawn in order, later ones read what earlier ones drew |

How they interact: a user thread calls `wait(posedge(clk))`; the interface
registers a VPI callback for the signal and the thread sleeps on its port. When
the simulator (or another thread, by driving) changes the signal, VPI calls the
callbacks; each tests its condition, triggers its thread, unregisters itself and
yields in `waitAllThreadsBlocked` until no thread is ready. Threads pass data
through channels, which sleep on Pth conditions. The environment's phases create
the threads and wait for them. Registers are how threads read and drive signals.

## 2. The modules

`Channel` -> `FrVmChannel.h` and `FrSimThreadCondVar`. One action per critical
section: `Put`, `PutTest`, `PutResume`, `Push`, `PutReturn` are a put;
`Get`, `GetTest`, `GetResume`, `Pop`, `GetReturn` a get; `Peek*` and `Reset` the rest.
`pc` says where each thread is; `Notify` is `signal(true)`: with waiters it wakes all
of them and yields with the mutex held. Pth clears the broadcast in its `cn_state`
flag when its scheduler finds a thread asleep on the condition. A broadcast
that finds only threads already awake therefore stays set; that is `pending`, and `StaleWake`
is what it does to the next thread that sleeps there. `BoundedFifo` is what a channel promises its ends;
`Channel` is shown to implement it when its size is 1, as in all the environments. A
larger channel does not (finding 6).

`SimThread` -> `FrSimThread.cpp`, `FrSimThreadTracker.cpp`. `running` and `ready` are the Pth
scheduler, `at` the place of each agent (the threads and `Sim`), `port` the
messages in a thread's port. Every call into Pth that may give the processor away is one
`Switch`; sleepers whose event has occurred join the queue in any order.
`SimWait` extends it with `FrSimIfaceIvl.cpp` and `FrSimCond.cpp`: `Wait`, `Tick`, `Drive`
and the callback, cut where it yields: `TestTrue` (test and trigger),
`RemoveSimCallbacks`, `WaitAllThreadsBlocked`. A wait is named by its thread and one
of two records, because a thread may wait again while its last callback is
still registered. `change`, `posedge` and `negedge` are the constructors, of which the edge
conditions sample their signal. `met` is a history variable: the awaited edge has occurred.

`VmEnv` -> `FrVmEnv.cpp`. `complete` holds the flags, `goal` the step a caller called,
`body` the body it is in. A call descends to the first phase that is not
complete and comes back up through the enclosing calls (`Goes`). The phase methods
are virtual and user-defined: the model says only that they may take time.

`SimReport` -> `FrSimReport.cpp`, `FrSimReportControl.cpp`. The one control object of
the process is a record (mask, threshold, count), and a report an operator on it:
what it counts (`Counted`) and whether it calls `exit` (`Exits`). `VmTest` composes it with
`VmEnv`: threads inside a phase report at any level and set the mask and the
threshold, and the process may end at any report. `overdue` and `fatal` are history
variables. `FricBench` uses the same operators for the errors of its checker.

`SimReg` -> `FrSimReg.cpp`, `FrSimCReg.cpp`. A register is a width and a function
from positions to `0 1 x z`, over all words of `W` bits, the unused positions
included. The operators are translated as functions of the operands (`Or`,
`LeftShifted`, `SliceAssigned`, ...) with the loops over words and bits as recursive
functions; the actions apply them to the registers of the program, with
`readSync` (`Synced`) and `writeSync` (`Written` against `Kept`) where the code has
them. The encoding of x and z is that of the simulator and of `operator<<`
(`aval` and `bval` both set is x); the table in `FrSimReg.h:45-48` has the two the other way
round, and `&=` and `^=`, which their comments say give x, give z.

Literals and the hexadecimal printing are translated digit by digit (`FromBinary`,
`FromHex`, `hexString`), with digits of `H` bits: a digit is a number, x or z. What the
program does with characters, separators and the width before the quote is left
out.

`FricMaster`, `FricSlave`, `FricSwitch` -> `fric_client_master.v`, `fric_client_slave.v`,
`fric_switch_nosym_8port.v`. Each has one variable, the record of its registers,
and one action, `Clock`, which says what the registers hold after an edge; the
combinational signals (`trdy`, `psel`, `prep`, ...) are operators on them, the state machines
tables (`NextFos`, `NextMp`). `FricBus` has the bytes, as numbers below 256, and the receiver of packets
that the bench's transactors and monitors share. `FricBench` wires the three as
`tb_top.v` does and adds the transactors of the repository: those that `FricEnv` builds for
`randTest.cpp`, and `FricSlaveXactor` behind the slave client (`tb_top.slave`), which `FricEnv`
does not build. The generator by itself draws ports 2 to 7; a callback may direct a
request to the slave (`MayRequest`), so the bench does more than `randTest`. A thread of the bench reads
the wires as they were before an edge and writes what is on them after it, so
one action `Clock` is an edge of everything. The next request (`Generate`, `MasterGet`) and the
answers of the ports (`Respond`) come between edges, when user callbacks let them.
Wires nobody has driven yet read as 0 (`FrSimReg::to_int` of an unknown
value is 0, and the comparisons of the design with an unknown value fail).
`served` is a history variable: what clients have served since the last request
began. `compare` of the checker does not look at the type, nor does the model's.
What the generator may draw is `MayDraw`, the constraints of `FricMasterGenData` in the
order `randomize` evaluates them; `BenchAssumption` holds the requests and answers
of an instance to it, and `PortsAssumption`, `RequestsAssumption` and `WordsAssumption` to
the widths of the wires (ports 1 to 7, bytes, words of 16 bits). `FricService` is what the design and the transactors promise
the generator: one request at a time, served once, by the client it names, and
answered with what that client supplied, the registers behind the slave client
being a memory. `FricBench` is shown to implement it (`RefinesService`): `busy` is a
transactor inside `_sendPacket`, the memory is `_regs` of the slave transactor.

`MC*` modules name the model values; the `.cfg` files are the instances.
`*Proofs` modules hold the theorems.

## 3. The runs

| run | instance | shows |
|---|---|---|
| channel_spsc | 1 producer, 1 consumer, capacity 1, stamps modulo 4 | FIFO refinement, capacity, no empty pop, no lost wakeup, peek agrees with the next get, every put returns, everything is delivered |
| channel_shared | 1 producer, 2 consumers, resets, capacity 2 | nobody sleeps on a message, although get may now run on an empty list |
| channel_capacity | 1 producer, 1 consumer, capacity 2 | finding: a pending broadcast wakes the consumer for nothing, and it takes the front of an empty list |
| simwait_bench | 2 threads, a clock they watch, an output they drive | turns of simulator and threads, no spurious wakeup, callbacks exactly those of the waits, counters, progress (which fails if the spin detector ends the process) |
| simwait_hostile | the same, deletions of live threads, drives of watched signals | what survives: no missed edge, the assertion holds (that the simulator still runs alone is proved) |
| simwait_cancelled | as hostile | finding: a deleted thread's callback is called |
| simwait_nested | drives of watched signals, no deletion | finding: two agents wait for each other in waitAllThreadsBlocked |
| vmtest | 2 callers; reports in the last phase, at most 2 errors, thresholds 1 and 2, masks NOTE and FATAL | order of the phases, completeness on return, the test goes on below the threshold only, and it is cleaned up unless a report has ended it |
| simreg_ops | 2 registers of 1 to 3 bits, words of 2 bits | the operators against the four-state reference; a printed register reads back; what comparing a wide register with an int and negating a connected one really give (findings 5 and 7) |
| fric_bench | ports 1 (slave client), 2 and 3, three requests out of six, answers delayed by up to 2 cycles | buses never lose their framing, acknowledges come when they are awaited, the service is implemented, the checker agrees, the test ends and not before everything has come out |
| simreg_unused | as simreg_ops | finding: ones in unused bits |
| simreg_driven | same | finding: a modified register is not driven |

Bounds and why they suffice. Channel: capacity 1 is that of the environments; the stamps
tell a lost from a repeated message. With one message in the list at a time its order is
never in question: the order of the code's `push_back` and `pop_front` is in `Push` and `Pop`, and
what `peek` and `get` take is proved to agree for any capacity. Capacity 2, the smallest at which a second put can
broadcast to a consumer that is awake, is that of the other two runs.
`MaxQueued` only stops the list of a shared channel from growing. SimWait: two
threads and the simulator are the smallest set in which one callback yields to a
thread while another thread has a callback due for the same change; `SpinLimit`
stands for 1500 and `MaxYields` for how often a thread may yield before it sleeps, the
limit being larger than all yields of all threads together, as 1500 is in the
test benches. In the hostile run the limit is 3, which the threads can reach. VmTest: two
callers overlap in every pair of bodies; a report in one phase meets the other caller in every
other one; two errors and thresholds of one and two are a threshold reached,
raised in time, and lowered too late; the mask FATAL hides errors, NOTE (the
default) does not, and level DEBUG is hidden by both. SimReg: words of two bits and widths 1 to
3 give a register with unused bits, one that fills its word and one of two
words with unused bits; all the code does with words is uniform in their number.
Connected registers have at most one word (`Mirrored`), to keep the number of
states small, and z is not an input because `&=` produces it. Digits have one bit (`H`),
so that literals of two and three digits cross a word.

Fric: three ports are the slave client and two others, so that one can hold a leftover
while another is served; three requests let a pair leave something behind for
a third; addresses and data contain bytes that look like headers. The generator may be late by any number of cycles,
an answer by two. A drain must last `2 * MaxDelay + 27` cycles (`LongDrain`), here
31: the run passes with 31 and fails with 30. `FricEnv` lets 200 pass, as the run does.

Deadlock is not checked where the system may really stop: in the hostile and in the
violation runs of SimWait the process may exit or crash, and in channel_shared
a thread may run into undefined behaviour.

Fairness. Channel: each step inside an operation is weakly fair, since Pth's scheduler
ages ready threads; consumers loop on get (strongly fair, as a peek may
intervene); nobody has to put. SimWait: callbacks and wakeups are straight-line code of
the running agent; a user thread at length waits or ends (strongly fair, as a yield or
a drive may come between); the simulator need not change anything. VmTest: as long as the process
lives, bodies return and the test calls Run at last; nobody has to report. FricBench: the clock runs, and the threads that wait
for a message or return from a callback go on.

## 4. The proofs

For every value of the constants, under the `ASSUME`s of the modules:

* `ChannelProofs`: types, and that the mutex of a condition is held exactly by the thread
  inside its notify (`TypeCorrect`). On a channel of size 1 (`SingleSlot`): with one producer
  the size is never exceeded (`CapacityTheorem`); with one consumer too, get never
  pops an empty list (`EmptyPopTheorem`); without resets the channel implements
  `BoundedFifo` (`FifoTheorem`). For any size: nobody sleeps on a message, for any producers, consumers and resets
  (`MissedMessageTheorem`), nor, with one producer and no reset, on room
  (`LostWakeupTheorem`): `SleepersStep` relates who sleeps to what is in the list at every
  step. With one consumer, `peek` is the next `get` (`PeekTheorem`). `CapacityBound` is not inductive: a producer past its
  test holds a promise that there is room. `ProducerInv` adds it: a single producer
  at `push` finds fewer than `Capacity` messages, and one that has been woken does
  so because a message has been taken since. It also says that no broadcast is pending for a put,
  which is where the size matters: a get that would leave one pending finds the put awake,
  so fewer than 1 messages in the list, and yet one to take. `ConsumerInv` is its mirror image.
* `SimWaitProofs`: types, and `SimRunsAlone` with deletions, nested callbacks and
  drives of watched signals, for any number of threads and signals.
  `SimRunsAlone` speaks only of the moment when the simulator runs; the invariant `TurnInv`
  says of every moment that whoever is not running is either asleep or in
  the queue, that no sleeper whose event has occurred has been
  overlooked by the scheduler, and that the simulator is never asleep. The proof
  has one lemma per action and one (`SwitchLemma`) for the scheduler.
* `SimCountProofs`: the assertion of `decRunningThreads` never fails
  (`AssertionTheorem`), because each step adds a thread to the live ones, takes one off,
  or cancels one without counting it off (`CountInv`: the counter is never below the number of
  live threads). If only threads that are over are deleted the counters are exact
  (`CountTheorem`, `ExactInv`).
* `SimEdgeProofs`: what `wait` promises a test bench. `Bench` assumes that the program
  deletes only threads that are over (`DeleteLive = FALSE`) and waits only for signals
  the simulator changes (`Watched \cap Driven = {}`); the hostile run and findings 1 and 2 show what
  happens otherwise. Then no callback meets a frame that is gone, no port holds its
  message twice (`NoStrayWakeupTheorem`), the callbacks are those of the waits in
  progress (`CallbacksTheorem`), no edge is missed (`NoMissedEdgeTheorem`) and no thread
  wakes for nothing (`WokenByEventTheorem`). None of these is inductive. `EdgeInv` adds, for every
  moment inside the callbacks: `QueueInv`, that no agent is in the queue
  twice and a thread inside `wait` is there only with a message in its port; and `WaitInv`,
  that each registered callback belongs to a wait whose thread has not been triggered, or is about to be
  removed, that callbacks still to run know the value their edge started from
  (`ConditionsKnow`), and that a message comes only after the edge. `TurnInv` supplies
  the moments at which the simulator goes on.
* `VmEnvProofs`: types and the three safety properties of the phases, for any set of callers. The
  invariant: the flags that are set are a prefix of the phases, a caller in a body
  has all earlier flags set, and has begun nothing later.
* `VmTestProofs`: what is proved of `VmEnv` carries over to a test, whose steps are those
  of its environment and reports (`TestOrder`); types (`TestTypeCorrect`); and
  `GoesOnBelowThreshold`, for any masks, thresholds and counts. Its invariant is
  inductive with the type of the control object: a report that does not end the
  process was masked or left the count off the threshold, and a count below the
  threshold that moves by one and is not equal to it is still below.

* `SimRegProofs`: everything the run checks of the registers, for words, digits and
  registers of every size. The type invariant is inductive by itself (`TypeTheorem`), so
  what is proved of registers that satisfy it is proved of all a program can reach.
  `BitwiseTheorem`: on any bits, the unused ones included, `~`, `|=`, `&=` and `^=`
  agree with the four-state tables wherever they give a 0 or 1, and keep known bits
  known. `EqualTheorem`: registers compare equal exactly if their values do, given
  clear unused bits. `ShiftTheorem`, `SliceTheorem`: shifts, slices and concatenations move
  each bit to its place. `LiteralTheorem`: what `hexString` prints reads back.
  `ArithmeticTheorem`: sums of one-word registers are sums modulo the width, and
  `twos_compliment` negates a register that is not connected. The loops over words,
  bits and digits are recursive functions. The library's induction theorems take an operator,
  but `WFMin`, that a nonempty set of numbers has a least one, does not: `Induction`
  follows for a set of numbers, and from it that a recursion has at most one
  function (`SameRecursion`). Each loop therefore gets a closed form, the vector it has after
  `k` passes written bit by bit (`RightPassBits`, `SliceMaskBits`, `FromDigitsBits`, ...), and
  the proof shows that one pass takes it to the next; the sums, whose value has no
  closed form, split at any bit (`NumSplit`). What is left is arithmetic on bit and word
  positions (`DivMod`, `NextWord`).
* `FricBenchProofs`: for any ports, requests, answers, number of requests and delays, the
  types, with at most one request waiting in a transactor (`TypeCorrect`), quiet ports
  (`QuietTheorem`), acknowledges that come when they are awaited (`AwaitedTheorem`),
  the reply one cycle after trdy (`ReplyTheorem`), and that design and transactors implement
  `FricService` (`ServiceTheorem`). The properties say nothing of the way a
  packet takes, so the invariant `Stages` does: at each edge between
  the strobe and the reply a request is in one of 27 stages, each of which says
  where the sequencers of the master, of the switch and of the client are, which byte is on each of
  the six wires between them (`Bus`, `Carries`), that the other ports rest, and whether the request has
  been served. `WriteStages` and `ReadStages` show that an edge leads from a stage to
  the next, `RespondStep` that an answer is given only in the stage that waits for
  it. `Counts` follows the requests from the channel to the answer.

  The checker's properties need two more parts. `Watch` adds to each
  stage what the four monitors on the way have heard of the packet (nothing, the header, the
  address, ...) and which packet the checker expects at which port (`Watched`). It is
  inductive by itself: however short the drain, no packet comes out where it is not
  expected (`ExpectedTheorem`). That nothing is left over at the end takes time: `Left(n)` bounds
  by `n` the edges a request in each stage still takes, `14 + MaxDelay` at most, and every edge
  lowers the bound (`Left` is a ranking function, stated as a predicate on its bounds). When the
  drain begins the last request has been handed over but may wait for the one before, so
  `DrainInv` bounds what two requests still take by the cycles left. Hence the only
  hypothesis of `CheckerTheorem` and `DrainTheorem`, `LongDrain`: the code waits for a number of
  cycles, not for the answers, and with a shorter drain the test may
  end with a packet under way (`DrainedAtEnd` fails). At the 200 cycles of `FricEnv` it allows answers
  that come up to 86 cycles late.

Only model-checked: liveness (it needs fairness and ENABLED, outside this
prover), with it that the spin detector stays silent; `NoMissedEdge` without the
assumptions of `Bench` (run simwait_hostile).

## 5. Findings

Findings 1 to 4 and 6 have a run with the counterexample. 5, 7 and 8 are in the properties of
passing runs, which say what the code does instead.

1. A thread deleted inside `wait` leaves its callback behind
   (`FrSimThread.cpp:128-133`, `157-159`, against `FrSimThread.h:151-158`).
2. A thread that drives a signal others wait for waits inside its own drive for
   all threads; two agents do so at once and neither leaves
   (`FrSimIfaceIvl.cpp:392` against `FrSimThreadTracker.h:93-95`).
3. Operators leave ones in unused bits, which the right shift assumes are zero
   (`FrSimReg.cpp:642`, `702`, `215` against `791-793`).
4. Operators that modify a connected register do not drive it
   (`FrSimReg.cpp:573-704`, `946-971` against `FrSimReg.h:124`). On a connected
   register a slice assignment moreover only ors: `|=` samples the signal again
   and loses the bits `&=` had cleared.
5. A register of several words is compared with an int by its low word alone
   (`FrSimReg.cpp:477` against the comment at `475`; `EqualExact`).
6. A channel of size 2 or more is no queue. The consumer sleeps, and two puts follow before it runs:
   the broadcast of the second finds it awake and stays pending in Pth. The consumer
   takes both messages, waits on the empty list, is woken at once and, having waited
   with an `if`, takes the front of the empty list (`FrVmChannel.h:92-94`, `98-100`). In the same way a
   put overfills the list. The environments use size 1; `FricSlaveXactor.cpp:10-11` asks for 100.
7. `twos_compliment` of a connected register gives its signal plus one: `logical_not`
   does not drive the signal, and `operator+=` samples it again (`FrSimReg.cpp:596`
   against `584-587`; `ArithmeticSound`).
8. The error threshold is compared with `==` (`FrSimReportControl.cpp:73`): set to the error
   count, the next error goes past it, and set lower it is never met, against
   `FrSimReportControl.h:41-42`.
   `GoesOnBelowThreshold` holds because it exempts that case (`overdue`).

Deviations met on the way that no document contradicts, and that the properties
therefore leave out: hexadecimal literals drop their last digit when their width
is no multiple of four (`FrSimReg.cpp:1219`), a z digit clears the upper half of
the low word (`1095`), binary literals of several words come out with their words
in disorder (`1185-1207`, "almost certainly broken" at `1184`), and printing in binary
drops a full top word (`1027`).

## 6. Not modelled, and the plan

Done: Channel, BoundedFifo, SimThread, SimWait, VmEnv, SimReport, VmTest, SimReg, the
fric design, bench and service, and the proofs above.

What could still be added: an abstract specification of the turn taking (simulator
and threads in strict alternation, an edge wakes exactly its waiters) that `SimWait`
implements; its content is proved property by property in `SimWaitProofs` and
`SimEdgeProofs`.

Not modelled:

* `stop`, `finish`, `restart`, `getTime` and the connection of signals by name:
  calls handed on to the simulator.
* Printing of registers in binary (decimal and octal print nothing), the orderings
  and the reductions (stubs), the multi-word sum (exits).
* The condition `equal`: its constructor is empty, and nothing uses it. A wait for it
  would register no callback and never return.
* The lists of callbacks of transactors: built before the threads start and only
  read after that. What callbacks may do is in the steps of `FricBench`.
* The trivial simulator interface: it is not built, and its `wait` does not block, so it has no
  behaviour that a program could rely on. The SystemC interface: incomplete,
  not built.
* Voter and consensus (stubs), `fric_client.v` and `fric_switch_8port.v` (empty),
  formatting and wording of reports, build files.
