------------------------------- MODULE FricBench -------------------------------
(* The fric design as tb_top.v wires it, a master client on port 0 of the       *)
(* switch and a slave client on port 1, and the transactors of the repository   *)
(* around it: those FricEnv builds for randTest.cpp, which are the generator    *)
(* and the transactor of the master, transactors that answer on the other       *)
(* ports, monitors on every port, the checker and the end of the test; and      *)
(* FricSlaveXactor behind the slave client, which FricEnv does not build.  The  *)
(* generator alone draws ports 2 to 7, a callback may direct a request to the   *)
(* slave (MayRequest): the bench does more than that test.                      *)
(*                                                                              *)
(* The threads of the bench run at the rising edges of the clock. They read     *)
(* the wires as they were before the edge, for the simulator calls them before  *)
(* it performs the nonblocking assignments, and what they write is on the wires *)
(* after it (the delays of 1 ns in the *_xactor.v modules; rdat of the slave    *)
(* has none, and coming late is the harder case for it), so an edge is one      *)
(* step of all registers of the design and of all these threads. What user      *)
(* callbacks can delay, the next request and the answers, are steps between     *)
(* edges. The bench begins after reset (ResetDut); wires not driven yet are     *)
(* read as 0.                                                                   *)
EXTENDS FricBus, SimReport, Sequences, SequencesExt

CONSTANTS Ports,             \* the ports of the switch that have a client
          SlavePort,         \* the one with fric_client_slave
          Requests,          \* what the generator may draw
          AnswerData,        \* what the response generators may draw
          Leftovers,         \* what the registers of the slave may contain at first
          NumTransactions,   \* FricMasterGen::numTransactions
          DrainCycles,       \* the cycles WaitForEnd lets pass
          MaxDelay           \* bound on the cycles before a response is sent

VARIABLES m, s, sw,          \* the design
          mx,                \* FricMasterXactor and its wires
          regs, rdat,        \* FricSlaveXactor
          x,                 \* FricXactor and FricResponseGen of each other port
          mon,               \* FricMonitor of each port: its two receivers
          expect,            \* FricChecker: the packets expected out of each port
          control,           \* FrSimReportControl::src
          inChan,            \* the channel from the generator to the master transactor
          numGenerated, answers,   \* FricMasterGen
          env, cycles,       \* FricEnv::WaitForEnd
          served             \* the requests clients have served since the last one began

vars == <<m, s, sw, mx, regs, rdat, x, mon, expect, control, inChan, numGenerated,
          answers, env, cycles, served>>

\* A range constraint draws v for a register of w bits, which keeps the low ones.
Draws(v, w, upper, lower) == \E n \in lower .. upper : v = n % 2^w

\* randomize: the constraints of FricMasterGenData are evaluated in this order, and
\* that of the data looks at the type already drawn. None of them fails.
MayDraw(r) ==
  /\ Draws(r.type, 4, 3, 2)
  /\ Draws(r.port, 4, 7, 2)
  /\ IF r.type = Write THEN Draws(r.data, 16, 1024 * 1024, 0) ELSE r.data = 0
  /\ Draws(r.addr, 8, 1024, 1)

\* A PostRandomize callback may direct a request to another port with a client.
MayRequest(r) == r.port \in Ports /\ \E port \in 2..7 : MayDraw([r EXCEPT !.port = port])

ASSUME PortsAssumption == Ports \subseteq 1..7 /\ SlavePort \in Ports

\* The widths of the wires and of the registers.
ASSUME RequestsAssumption ==
  Requests \subseteq [type : {Write, Read}, port : Ports, addr : Byte, data : Word]

ASSUME WordsAssumption == AnswerData \subseteq Word /\ Leftovers \subseteq Word

ASSUME BenchAssumption ==
  /\ \A r \in Requests : MayRequest(r)
  /\ \A d \in AnswerData : Draws(d, 16, 1024, 1)
  /\ NumTransactions \in Nat /\ DrainCycles \in Nat \ {0} /\ MaxDelay \in Nat \ {0}

M == INSTANCE FricMaster
S == INSTANCE FricSlave
Sw == INSTANCE FricSwitch

XPorts == Ports \ {SlavePort}
AllPorts == Ports \union {0}
Addrs == {0} \union {r.addr : r \in Requests}

Packet(port, r) == [port |-> port, addr |-> r.addr, data |-> r.data]

-------------------------------------------------------------------------------
(* The master: FricMasterGen and FricMasterXactor                               *)

\* Generate: the channel holds one request, put waits while it is full.
Generate ==
  /\ numGenerated < NumTransactions
  /\ inChan = <<>>
  /\ \E r \in Requests : inChan' = <<r>>
  /\ numGenerated' = numGenerated + 1
  /\ UNCHANGED <<m, s, sw, mx, regs, rdat, x, mon, expect, control, answers, env, cycles, served>>

\* Send takes the next request and strobes it.
MasterGet ==
  /\ mx.at = "free"
  /\ inChan # <<>>
  /\ mx' = [at |-> "strobe", tstb |-> 1, type |-> inChan[1].type, port |-> inChan[1].port,
            addr |-> inChan[1].addr, wdat |-> inChan[1].data, data |-> inChan[1].data]
  /\ inChan' = <<>>
  /\ served' = <<>>
  /\ UNCHANGED <<m, s, sw, regs, rdat, x, mon, expect, control, numGenerated, answers, env, cycles>>

\* Where _sendPacket is after an edge: it waits for trdy, for a read then for rstb.
SendPacketAt ==
  LET replied == IF m.rstb = 1 THEN "free" ELSE "reply"
  IN  CASE mx.at = "free" -> "free"
        [] mx.at \in {"strobe", "ready"} ->
             IF ~M!trdy(mx) THEN "ready" ELSE IF mx.type = Read THEN replied ELSE "free"
        [] mx.at = "reply" -> replied

Replied == mx.at # "free" /\ SendPacketAt = "free"

MasterXactor ==
  mx' = [mx EXCEPT !.at = SendPacketAt, !.tstb = 0,
                   !.data = IF Replied /\ mx.type = Read THEN m.rdat ELSE @]

\* Each completed request goes back to the generator, which takes it at once.
ResponseMon == answers' = IF Replied THEN answers + 1 ELSE answers

-------------------------------------------------------------------------------
(* The other clients: FricSlaveXactor, FricXactor and FricResponseGen           *)

SlaveXactor ==
  /\ regs' = IF s.wstb = 1 THEN [regs EXCEPT ![s.addr] = s.wdat] ELSE regs
  /\ rdat' = regs'[s.addr]

\* What the slave client serves at this edge.
SlaveServes ==
  CASE s.wstb = 1 ->
         <<[type |-> Write, port |-> SlavePort, addr |-> s.addr, data |-> s.wdat]>>
    [] s.fos = "rd_adr" ->
         <<[type |-> Read, port |-> SlavePort, addr |-> s.addr, data |-> regs[s.addr]]>>
    [] OTHER -> <<>>

Quiet == [type |-> 0, addr |-> 0, data |-> 0]

\* A transactor of another port: out is its register on the bus, rx its receiver,
\* waits the requests received and not answered with the cycles since, tx and resp
\* the answer being sent.
XactorInit == [out |-> 0, rx |-> Listening, waits |-> <<>>, late |-> 0, tx |-> "idle", resp |-> Quiet]

\* GenerateResponse takes the request of port p, and Send begins to send the answer.
\* The header is driven without its port: |= does not drive the signal.
Respond(p) ==
  /\ x[p].waits # <<>>
  /\ x[p].tx = "idle"
  /\ LET req == x[p].waits[1]
     IN  \E d \in (IF req.type = Read THEN AnswerData ELSE {0}) :
           LET type == IF req.type = Read THEN ReadAck ELSE WriteAck
           IN  /\ x' = [x EXCEPT ![p] =
                          [x[p] EXCEPT !.out = Header(type, 0), !.tx = "header", !.late = 0,
                                       !.waits = Tail(x[p].waits),
                                       !.resp = [type |-> type, addr |-> req.addr, data |-> d]]]
               /\ served' = Append(served, [type |-> req.type, port |-> p, addr |-> req.addr,
                                            data |-> IF req.type = Read THEN d ELSE req.data])
  /\ UNCHANGED <<m, s, sw, mx, regs, rdat, mon, expect, control, inChan, numGenerated,
                 answers, env, cycles>>

\* _sendPacket of FricXactor: the byte driven at an edge and where it then is.
SendNext(c) ==
  CASE c.tx = "idle"   -> [c EXCEPT !.out = 0]
    [] c.tx = "header" -> [c EXCEPT !.out = c.resp.addr,
                                    !.tx = IF HasData(c.resp.type) THEN "addr" ELSE "last"]
    [] c.tx = "addr"   -> [c EXCEPT !.out = Lo(c.resp.data), !.tx = "lo"]
    [] c.tx = "lo"     -> [c EXCEPT !.out = Hi(c.resp.data), !.tx = "last"]
    [] c.tx = "last"   -> [c EXCEPT !.out = 0, !.tx = "idle", !.resp = Quiet]

\* Mutant: a packet is delivered twice.
RecvNext_Twice(c, b) ==
  [c EXCEPT !.rx = Receives(c.rx, b),
            !.waits = IF Complete(c.rx) THEN @ \o <<c.rx, c.rx>> ELSE @,
            !.late = IF c.waits = <<>> THEN 0 ELSE @ + 1]

\* _recvPacket delivers a packet at the edge after its last byte.
RecvNext(c, b) ==
  [c EXCEPT !.rx = Receives(c.rx, b),
            !.waits = IF Complete(c.rx) THEN Append(@, c.rx) ELSE @,
            !.late = IF c.waits = <<>> THEN 0 ELSE @ + 1]

Xactors == x' = [p \in XPorts |-> RecvNext(SendNext(x[p]), sw.fric_out[p])]

-------------------------------------------------------------------------------
(* FricMonitor and FricChecker                                                  *)

\* What goes into and comes out of each port of the switch.
In(p)  == CASE p = 0 -> m.fric_out [] p = SlavePort -> s.fric_out [] OTHER -> x[p].out
Out(p) == IF p = 0 THEN sw.fric_out0 ELSE sw.fric_out[p]

Monitors == mon' = [p \in AllPorts |-> [in  |-> Receives(mon[p].in, In(p)),
                                        out |-> Receives(mon[p].out, Out(p))]]

\* ProcessInput: a packet into port p is expected at the port it names, from p.
Arrivals(q) == {Packet(p, mon'[p].in) : p \in {r \in AllPorts :
                                        Complete(mon'[r].in) /\ mon'[r].in.port = q}}

\* ProcessOutput: the first expected packet that is equal is erased. compare
\* ignores the type.
Leaves(q) == Complete(mon'[q].out)
Departing(q) == Packet(mon'[q].out.port, mon'[q].out)
Matched(q) == SelectInSeq(expect[q], LAMBDA e : e = Departing(q))

\* A packet left a port where it was not expected.
Unexpected == \E q \in AllPorts : Leaves(q) /\ Matched(q) = 0

\* The monitors' threads that run at one edge are taken in the order least
\* favourable to the checker: packets leave before others are expected.
Checker ==
  /\ expect' = [q \in AllPorts |->
                  (IF Leaves(q) /\ Matched(q) > 0 THEN RemoveAt(expect[q], Matched(q)) ELSE expect[q])
                    \o SetToSeq(Arrivals(q))]

-------------------------------------------------------------------------------
(* FricEnv                                                                      *)

\* EndCheck finds an expected packet that has not come out.
NotEmpty == \E p \in AllPorts : expect[p] # <<>>

CleanupNow == env = "drain" /\ cycles + 1 = DrainCycles

\* What the checker reports at an edge: the first error ends the process when the
\* threshold is the default, so that further ones of the same edge do not matter.
ErrorNow == Unexpected \/ (CleanupNow /\ NotEmpty)
Reports == control' = IF ErrorNow THEN Counted(control, ERROR) ELSE control

\* Mutant: the test ends when the last request has been handed over.
WaitForEnd_NoDrain ==
  /\ env' = IF numGenerated = NumTransactions THEN "ended" ELSE env
  /\ cycles' = cycles

\* WaitForEnd, then Cleanup and the end of the simulation; or exit in Report.
WaitForEnd ==
  /\ env' = CASE ErrorNow /\ Exits(control, ERROR) -> "exited"
              [] env = "run" /\ numGenerated = NumTransactions -> "drain"
              [] CleanupNow -> "ended"
              [] OTHER -> env
  /\ cycles' = IF env = "drain" THEN cycles + 1 ELSE cycles

\* A rising edge of the clock. The master's thread takes a request that is there
\* before the simulator goes on, and responses are not delayed for ever.
Clock ==
  /\ env \in {"run", "drain"}
  /\ mx.at = "free" => inChan = <<>>
  /\ \A p \in XPorts : x[p].late < MaxDelay \/ x[p].waits = <<>>
  /\ M!Clock(sw.fric_out0, mx)
  /\ S!Clock(sw.fric_out[SlavePort], rdat)
  /\ Sw!Clock(m.fric_out, [p \in Ports |-> In(p)])
  /\ MasterXactor
  /\ ResponseMon
  /\ SlaveXactor
  /\ Xactors
  /\ Monitors
  /\ Checker
  /\ Reports
  /\ WaitForEnd
  /\ served' = served \o SlaveServes
  /\ UNCHANGED <<inChan, numGenerated>>

Ended == env \in {"ended", "exited"} /\ UNCHANGED vars

Init ==
  /\ M!Init /\ S!Init /\ Sw!Init
  /\ mx = [at |-> "free", tstb |-> 0, type |-> 0, port |-> 0, addr |-> 0, wdat |-> 0, data |-> 0]
  /\ \E d \in Leftovers : regs = [a \in Addrs |-> d]
  /\ rdat = 0
  /\ x = [p \in XPorts |-> XactorInit]
  /\ mon = [p \in AllPorts |-> [in |-> Listening, out |-> Listening]]
  /\ expect = [p \in AllPorts |-> <<>>]
  /\ control = DefaultControl
  /\ inChan = <<>>
  /\ numGenerated = 0 /\ answers = 0
  /\ env = "run" /\ cycles = 0
  /\ served = <<>>

Next == Generate \/ MasterGet \/ (\E p \in XPorts : Respond(p)) \/ Clock \/ Ended

Spec == Init /\ [][Next]_vars

(* The clock runs, threads that can run do, and callbacks return.               *)
Fairness == WF_vars(Clock) /\ WF_vars(MasterGet) /\ WF_vars(Generate)
            /\ \A p \in XPorts : WF_vars(Respond(p))

FairSpec == Spec /\ Fairness

-------------------------------------------------------------------------------
(* Properties                                                                   *)

(* The variables keep their types. A transactor never has a second request      *)
(* waiting, so the channels of capacity 1 between it and its response generator *)
(* never make a receiver late for the next packet.                              *)
TypeOK ==
  /\ M!TypeOK /\ S!TypeOK /\ Sw!TypeOK
  /\ mx.at \in {"free", "strobe", "ready", "reply"}
  /\ \A p \in XPorts : Len(x[p].waits) <= 1 /\ x[p].out \in Byte
  /\ \A p \in AllPorts : mon[p].in \in Receivers /\ mon[p].out \in Receivers
  /\ answers \in 0..numGenerated /\ numGenerated \in 0..NumTransactions

(* "Each transaction must go to zeroes before another one starts": the switch   *)
(* drives only the selected port, and each other port rests at zero, so that    *)
(* its client does not take a leftover byte for a packet.                       *)
QuietPorts == \A p \in Ports \ {Sw!psel} : sw.fric_out[p] = 0

(* "With quick turnaround, is it possible for the ack to start before we get to *)
(* this state?": no byte of an acknowledge reaches the switch before it waits   *)
(* for it or after it has gone back to idle.                                    *)
AckAwaited == Sw!prep # 0 => sw.mp \in {"wack", "rep_adr", "rdat0", "rdat1"}

(* "The rising edge of trdy must always be 1 cycle before rstb": the reply is   *)
(* strobed exactly one cycle after the master becomes ready again in a read.    *)
ReadyBeforeReply ==
  [][Clock => (m'.rstb = 1 <=> m.fos = "rd_ack" /\ M!trdy(mx))]_vars

(* The design and the transactors are the service the generator relies on: one  *)
(* request at a time, served exactly once, by the client of the port it names   *)
(* and no other, before it is answered; the registers behind the slave client   *)
(* are a memory, and the data of a read are those the client supplied for it.   *)
Service == INSTANCE FricService WITH
             busy <- mx.at # "free",
             req  <- [type |-> mx.type, port |-> mx.port, addr |-> mx.addr, data |-> mx.wdat],
             data <- mx.data

RefinesService == Service!Spec

(* The checker finds every packet that leaves a port among those expected there,*)
(* and never has two to choose from: ProcessOutput deletes the packet that      *)
(* follows the one it has erased, which is harmless only for the last.          *)
CheckerAgrees == control.count = 0 /\ \A p \in AllPorts : Len(expect[p]) <= 1

(* When the simulation ends every request has been answered and every packet    *)
(* that went into the switch has come out, a packet of the last answer too: the *)
(* cycles that WaitForEnd lets pass after the last request has been handed over *)
(* are enough.                                                                  *)
DrainedAtEnd ==
  env = "ended" => answers = NumTransactions /\ \A p \in AllPorts : expect[p] = <<>>

(* Every request is answered, and the test ends without an exit on an error.    *)
TestEnds == <>(env = "ended")
===============================================================================
