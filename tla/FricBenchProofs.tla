---------------------------- MODULE FricBenchProofs ----------------------------
(* Proofs about the fric bench, for every set of ports and requests, all data   *)
(* and any length of the test. What makes the properties inductive is the whole *)
(* course of a request: at each edge between the strobe and the reply it is in  *)
(* one of the stages below, which say where the sequencers of the master, of    *)
(* the switch and of the client of the port are, which byte is on each wire     *)
(* between them, and that every other port rests. Each step leads from a stage  *)
(* to the next one (WriteStages, ReadStages, RespondStep). What the monitors    *)
(* have heard and the checker expects at each stage (Watch) is inductive with   *)
(* the stages, and so is a bound on the edges that a request still takes        *)
(* (Left), from which the length of a drain that suffices follows.              *)
EXTENDS FricBench, TLAPS, FiniteSetTheorems

-----------------------------------------------------------------------------
(* What the registers carry *)

Requested ==
  /\ mx.type \in {Write, Read} /\ mx.port \in Ports
  /\ mx.addr \in Addrs /\ mx.wdat \in Word
Ack == IF mx.type = Read THEN ReadAck ELSE WriteAck

\* What the client that has served the request has supplied.
Answer == served[1].data

\* The byte b is of this kind, for this request and the data supplied.
Kind(b, kind, type, port, addr, wdat, answer) ==
  /\ kind = "zero" => b = 0
  /\ kind = "request" => b = Header(type, port)
  /\ kind = "forwarded" => b \in Byte /\ Type(b) = type /\ Port(b) = 0
  /\ kind = "addr" => b = addr
  /\ kind = "low" => b = Lo(wdat)
  /\ kind = "high" => b = Hi(wdat)
  /\ kind \in {"ack", "named_ack"} => b \in Byte /\ Type(b) = IF type = Read THEN ReadAck ELSE WriteAck
  /\ kind = "ack" => Port(b) = 0
  /\ kind = "named_ack" => Port(b) = port
  /\ kind = "answer_lo" => b = Lo(answer)
  /\ kind = "answer_hi" => b = Hi(answer)

Carries(b, kind) == Kind(b, kind, mx.type, mx.port, mx.addr, mx.wdat, Answer)

\* The client of port q has nothing to do, and nothing is on its wires.
ClientRests(q) ==
  IF q = SlavePort
  THEN s.fis = "idle" /\ s.fos = "idle" /\ s.fric_inr = 0 /\ s.fric_out = 0 /\ s.wstb = 0
  ELSE x[q].rx.at = "idle" /\ x[q].tx = "idle" /\ x[q].waits = <<>> /\ x[q].out = 0

Resting(q) == ClientRests(q) /\ sw.fric_out[q] = 0 /\ sw.fric_inr[q] = 0

\* The sequencers of the master and of the switch, and the bytes on the way from the
\* master to the selected port and back, in the order of the wires.
Bus(fos, out, in0, mp, sent, answer, out0, inr, fis) ==
  /\ m.fos = fos /\ Carries(m.fric_out, out)
  /\ Carries(sw.fric_inr0, in0) /\ sw.mp = mp
  /\ Carries(sw.fric_out[mx.port], sent) /\ Carries(sw.fric_inr[mx.port], answer)
  /\ Carries(sw.fric_out0, out0)
  /\ Carries(m.fric_inr, inr) /\ m.fis = fis

\* The client of the selected port: the slave client, or a transactor.
Slave(inr, fis, fos, out) ==
  /\ mx.port = SlavePort
  /\ Carries(s.fric_inr, inr) /\ s.fis = fis /\ s.fos = fos /\ Carries(s.fric_out, out)
  /\ s.wstb = 0
  /\ fis \in {"wr_adr", "rd_adr"} => s.port = 0
  /\ fis \in {"wr_da0", "wr_da1"} \/ fos \in {"rd_adr", "rd_da0"} => s.addr = mx.addr
  /\ fis = "wr_da1" => Lo(s.wdat) = Lo(mx.wdat)
  /\ fos = "rd_da0" => regs[mx.addr] = Answer
  /\ fos \in {"rd_da0", "rd_da1"} => rdat = Answer

SlaveStrobes ==
  /\ mx.port = SlavePort
  /\ s.fric_inr = 0 /\ s.fis = "idle" /\ s.fos = "idle" /\ s.fric_out = 0
  /\ s.wstb = 1 /\ s.addr = mx.addr /\ s.wdat = mx.wdat

Xactor(rx, tx, out) ==
  LET c == x[mx.port]
  IN  /\ mx.port # SlavePort
      /\ c.rx.at = rx /\ c.tx = tx /\ c.waits = <<>> /\ Carries(c.out, out)
      /\ rx # "idle" => c.rx.type = mx.type
      /\ rx \in {"lo", "hi", "end"} => c.rx.addr = mx.addr
      /\ rx = "hi" => c.rx.data = Lo(mx.wdat)
      /\ rx = "end" /\ mx.type = Write => c.rx.data = mx.wdat
      /\ tx \in {"header", "addr", "lo"} => c.resp.type = Ack
      /\ tx \in {"header", "addr", "lo"} /\ mx.type = Read => c.resp.data = Answer

XactorWaits ==
  LET c == x[mx.port]
  IN  /\ mx.port # SlavePort
      /\ c.rx.at = "idle" /\ c.tx = "idle" /\ c.out = 0
      /\ c.waits # <<>> /\ c.waits = <<c.waits[1]>>
      /\ c.waits[1].type = mx.type /\ c.waits[1].addr = mx.addr
      /\ mx.type = Write => c.waits[1].data = mx.wdat

-----------------------------------------------------------------------------
(* The stages of a request *)

\* Nothing is on the bus.
Still ==
  /\ m.fos = "idle" /\ m.fis = "idle" /\ m.fric_out = 0 /\ m.fric_inr = 0
  /\ sw.mp = "idle" /\ sw.fric_inr0 = 0 /\ sw.fric_out0 = 0
  /\ \A q \in Ports : Resting(q)

Idle   == Still /\ mx.at = "free" /\ mx.tstb = 0 /\ m.rstb = 0
Strobe == /\ Still /\ mx.at = "strobe" /\ mx.tstb = 1 /\ m.rstb = 0 /\ Requested
          /\ served = <<>>
Reply  == /\ Still /\ mx.at = "reply" /\ mx.tstb = 0 /\ m.rstb = 1 /\ mx.type = Read /\ Requested
          /\ served # <<>> /\ m.rdat = Answer

\* A request of this type is on its way, and only the port it names has to do with it.
Transfer(type) ==
  /\ Requested /\ mx.type = type
  /\ mx.at = "ready" /\ mx.tstb = 0 /\ m.rstb = 0
  /\ \A q \in Ports \ {mx.port} : Resting(q)
Selected(type) == Transfer(type) /\ sw.psel_reg = mx.port /\ sw.type = mx.type
Rests == ClientRests(mx.port)

Write1 ==
  /\ Transfer(Write) /\ served = <<>>
  /\ Rests
  /\ Bus("wr_adr", "request", "zero", "idle", "zero", "zero", "zero", "zero", "idle")
Write2 ==
  /\ Transfer(Write) /\ served = <<>>
  /\ Rests
  /\ Bus("wr_da0", "addr", "request", "idle", "zero", "zero", "zero", "zero", "idle")
Write3 ==
  /\ Selected(Write) /\ served = <<>>
  /\ Rests
  /\ Bus("wr_da1", "low", "addr", "req_adr", "forwarded", "zero", "zero", "zero", "idle")
Write4 ==
  /\ Selected(Write) /\ served = <<>>
  /\ Slave("forwarded", "idle", "idle", "zero") \/ Xactor("addr", "idle", "zero")
  /\ Bus("wr_ack", "high", "low", "wdat0", "addr", "zero", "zero", "zero", "idle")
Write5 ==
  /\ Selected(Write) /\ served = <<>>
  /\ Slave("addr", "wr_adr", "idle", "zero") \/ Xactor("lo", "idle", "zero")
  /\ Bus("wr_ack", "zero", "high", "wdat1", "low", "zero", "zero", "zero", "idle")
Write6 ==
  /\ Selected(Write) /\ served = <<>>
  /\ Slave("low", "wr_da0", "wr_adr", "ack") \/ Xactor("hi", "idle", "zero")
  /\ Bus("wr_ack", "zero", "zero", "wack", "high", "zero", "zero", "zero", "idle")
Write7 ==
  /\ Selected(Write) /\ served = <<>>
  /\ Xactor("end", "idle", "zero")
  /\ Bus("wr_ack", "zero", "zero", "wack", "zero", "zero", "zero", "zero", "idle")

WriteWait ==
  /\ Selected(Write)
  /\ \/ XactorWaits /\ served = <<>>
     \/ Xactor("idle", "header", "ack") /\ served # <<>>
  /\ Bus("wr_ack", "zero", "zero", "wack", "zero", "zero", "zero", "zero", "idle")

WriteAck1 ==
  /\ Selected(Write)
  /\ \/ Slave("high", "wr_da1", "idle", "any") /\ served = <<>>
     \/ Xactor("idle", "last", "any") /\ served # <<>>
  /\ Bus("wr_ack", "zero", "zero", "wack", "zero", "ack", "zero", "zero", "idle")
WriteAck2 ==
  /\ Selected(Write)
  /\ \/ SlaveStrobes /\ served = <<>>
     \/ Rests /\ served # <<>>
  /\ Bus("wr_ack", "zero", "zero", "rep_adr", "zero", "any", "named_ack", "zero", "idle")
WriteAck3 ==
  /\ Selected(Write) /\ served # <<>>
  /\ Rests
  /\ Bus("wr_ack", "zero", "zero", "idle", "zero", "zero", "any", "named_ack", "idle")
WriteAck4 ==
  /\ Selected(Write) /\ served # <<>>
  /\ Rests
  /\ Bus("wr_ack", "zero", "zero", "idle", "zero", "zero", "zero", "any", "wr_ack")

Read1 ==
  /\ Transfer(Read) /\ served = <<>>
  /\ Rests
  /\ Bus("rd_adr", "request", "zero", "idle", "zero", "zero", "zero", "zero", "idle")
Read2 ==
  /\ Transfer(Read) /\ served = <<>>
  /\ Rests
  /\ Bus("rd_ack", "addr", "request", "idle", "zero", "zero", "zero", "zero", "idle")
Read3 ==
  /\ Selected(Read) /\ served = <<>>
  /\ Rests
  /\ Bus("rd_ack", "zero", "addr", "req_adr", "forwarded", "zero", "zero", "zero", "idle")
Read4 ==
  /\ Selected(Read) /\ served = <<>>
  /\ Slave("forwarded", "idle", "idle", "zero") \/ Xactor("addr", "idle", "zero")
  /\ Bus("rd_ack", "zero", "zero", "wack", "addr", "zero", "zero", "zero", "idle")
Read5 ==
  /\ Selected(Read) /\ served = <<>>
  /\ Slave("addr", "rd_adr", "idle", "zero") \/ Xactor("end", "idle", "zero")
  /\ Bus("rd_ack", "zero", "zero", "wack", "zero", "zero", "zero", "zero", "idle")

ReadWait ==
  /\ Selected(Read)
  /\ \/ XactorWaits /\ served = <<>>
     \/ Slave("zero", "idle", "rd_adr", "ack") /\ served = <<>>
     \/ Xactor("idle", "header", "ack") /\ served # <<>>
  /\ Bus("rd_ack", "zero", "zero", "wack", "zero", "zero", "zero", "zero", "idle")

ReadAck1 ==
  /\ Selected(Read) /\ served # <<>>
  /\ Slave("zero", "idle", "rd_da0", "any") \/ Xactor("idle", "addr", "any")
  /\ Bus("rd_ack", "zero", "zero", "wack", "zero", "ack", "zero", "zero", "idle")
ReadAck2 ==
  /\ Selected(Read) /\ served # <<>>
  /\ Slave("zero", "idle", "rd_da1", "answer_lo") \/ Xactor("idle", "lo", "answer_lo")
  /\ Bus("rd_ack", "zero", "zero", "rep_adr", "zero", "any", "named_ack", "zero", "idle")
ReadAck3 ==
  /\ Selected(Read) /\ served # <<>>
  /\ Slave("zero", "idle", "idle", "answer_hi") \/ Xactor("idle", "last", "answer_hi")
  /\ Bus("rd_ack", "zero", "zero", "rdat0", "zero", "answer_lo", "any", "named_ack", "idle")
ReadAck4 ==
  /\ Selected(Read) /\ served # <<>>
  /\ Rests
  /\ Bus("rd_ack", "zero", "zero", "rdat1", "zero", "answer_hi", "answer_lo", "any", "rd_ack")
ReadAck5 ==
  /\ Selected(Read) /\ served # <<>>
  /\ Rests
  /\ Bus("rd_ack", "zero", "zero", "idle", "zero", "zero", "answer_hi", "answer_lo", "rd_da0")
ReadAck6 ==
  /\ Selected(Read) /\ served # <<>>
  /\ Rests
  /\ Bus("rd_ack", "zero", "zero", "idle", "zero", "zero", "zero", "answer_hi", "rd_da1")
  /\ Lo(m.rdat) = Lo(Answer)

Stages ==
  \/ Idle \/ Strobe \/ Reply
  \/ Write1 \/ Write2 \/ Write3 \/ Write4 \/ Write5 \/ Write6 \/ Write7 \/ WriteWait
  \/ WriteAck1 \/ WriteAck2 \/ WriteAck3 \/ WriteAck4
  \/ Read1 \/ Read2 \/ Read3 \/ Read4 \/ Read5 \/ ReadWait
  \/ ReadAck1 \/ ReadAck2 \/ ReadAck3 \/ ReadAck4 \/ ReadAck5 \/ ReadAck6

-----------------------------------------------------------------------------
(* The records keep their fields *)

IsXactor(c) ==
  /\ c = [out |-> c.out, rx |-> c.rx, waits |-> c.waits, late |-> c.late, tx |-> c.tx, resp |-> c.resp]
  /\ c.rx = [at |-> c.rx.at, type |-> c.rx.type, port |-> c.rx.port, addr |-> c.rx.addr, data |-> c.rx.data]
  /\ c.rx.at \in {"idle", "addr", "lo", "hi", "end"}
  /\ c.tx \in {"idle", "header", "addr", "lo", "last"}

Shape ==
  /\ mx = [at |-> mx.at, tstb |-> mx.tstb, type |-> mx.type, port |-> mx.port,
           addr |-> mx.addr, wdat |-> mx.wdat, data |-> mx.data]
  /\ m.rdat \in Nat /\ s.wdat \in Nat /\ s.port \in 0 .. 15
  /\ regs \in [Addrs -> Word]
  /\ served = <<>> \/ \E r : served = <<r>> /\ r.data \in Word
  /\ x = [p \in XPorts |-> x[p]] /\ \A p \in XPorts : IsXactor(x[p])
  /\ inChan = <<>> \/ \E r \in Requests : inChan = <<r>>

-----------------------------------------------------------------------------

\* A header holds the type and the port it is made of.
LEMMA Headers ==
    ASSUME NEW type \in {Write, Read, WriteAck, ReadAck}, NEW port \in 0 .. 15
    PROVE  /\ Header(type, port) \in Byte /\ Header(type, port) # 0
           /\ Type(Header(type, port)) = type /\ Port(Header(type, port)) = port
  BY DEF Header, Type, Port, Byte, Write, Read, WriteAck, ReadAck

\* Zero is no header.
LEMMA NoHeader == Type(0) = 0 /\ \A b \in Byte : Port(b) \in 0 .. 15 /\ (Type(b) # 0 => b # 0)
  BY DEF Type, Port, Byte

\* The master's transactor.
LEMMA MxStep ==
    ASSUME Shape, Clock
    PROVE  /\ mx' = [at |-> mx'.at, tstb |-> mx'.tstb, type |-> mx'.type, port |-> mx'.port,
                     addr |-> mx'.addr, wdat |-> mx'.wdat, data |-> mx'.data]
           /\ mx'.tstb = 0 /\ mx'.type = mx.type /\ mx'.port = mx.port
           /\ mx'.addr = mx.addr /\ mx'.wdat = mx.wdat
           /\ mx'.at = SendPacketAt
           /\ mx'.data = IF mx.at # "free" /\ SendPacketAt = "free" /\ mx.type = Read
                         THEN m.rdat ELSE mx.data
  BY DEF Replied, Shape, Clock, MasterXactor

\* Where _sendPacket is after an edge.
LEMMA MxAt ==
    /\ mx.at = "free" => SendPacketAt = "free"
    /\ mx.at = "strobe" /\ m.fos = "idle" /\ mx.tstb = 1 /\ Requested => SendPacketAt = "ready"
    /\ mx.at = "ready" /\ (m.fos \in {"wr_adr", "wr_da0", "wr_da1", "rd_adr"}
                           \/ (m.fos \in {"wr_ack", "rd_ack"} /\ m.fis \in {"idle", "rd_ack", "rd_da0"}))
         => SendPacketAt = "ready"
    /\ mx.at = "ready" /\ m.fos = "wr_ack" /\ m.fis = "wr_ack" /\ mx.type = Write
         => SendPacketAt = "free"
    /\ mx.at = "ready" /\ m.fos = "rd_ack" /\ m.fis = "rd_da1" /\ mx.type = Read /\ m.rstb = 0
         => SendPacketAt = "reply"
    /\ mx.at = "reply" /\ m.rstb = 1 => SendPacketAt = "free"
  BY DEF SendPacketAt, M!trdy, M!fis_ack, M!Strobed, Requested, M!Read, M!Write, Read, Write

\* What the master client does with a request.
LEMMA MasterStep ==
    ASSUME Shape, Clock
    PROVE  /\ m'.fric_inr = sw.fric_out0
           /\ m.fos = "idle" /\ mx.tstb = 0 => m'.fos = "idle" /\ m'.fric_out = 0
           /\ m.fos = "idle" /\ mx.tstb = 1 /\ Requested =>
                /\ m'.fos = IF mx.type = Write THEN "wr_adr" ELSE "rd_adr"
                /\ m'.fric_out = Header(mx.type, mx.port)
           /\ m.fos = "wr_adr" => m'.fos = "wr_da0" /\ m'.fric_out = mx.addr
           /\ m.fos = "wr_da0" => m'.fos = "wr_da1" /\ m'.fric_out = Lo(mx.wdat)
           /\ m.fos = "wr_da1" => m'.fos = "wr_ack" /\ m'.fric_out = Hi(mx.wdat)
           /\ m.fos = "wr_ack" => m'.fos = (IF m.fis \in {"wr_ack", "rd_da1"} THEN "idle" ELSE "wr_ack")
                                  /\ m'.fric_out = 0
           /\ m.fos = "rd_adr" => m'.fos = "rd_ack" /\ m'.fric_out = mx.addr
           /\ m.fos = "rd_ack" => m'.fos = (IF m.fis \in {"wr_ack", "rd_da1"} THEN "idle" ELSE "rd_ack")
                                  /\ m'.fric_out = 0
           /\ m'.rstb = IF m.fis = "rd_da1" THEN 1 ELSE 0
  BY DEF Clock, M!Clock, M!NextFos, M!FricOut, M!Strobed, M!fis_ack, Requested,
         M!Read, M!Write, Read, Write, M!Header, Header,
         M!Lo, Lo, M!Hi, Hi

\* What the master client does with an acknowledge.
LEMMA MasterReceives ==
    ASSUME Shape, Clock
    PROVE  /\ m.fis = "idle" /\ m.fric_inr = 0 => m'.fis = "idle"
           /\ m.fis = "idle" /\ m.fric_inr \in Byte /\ Type(m.fric_inr) = WriteAck => m'.fis = "wr_ack"
           /\ m.fis = "idle" /\ m.fric_inr \in Byte /\ Type(m.fric_inr) = ReadAck => m'.fis = "rd_ack"
           /\ m.fis = "wr_ack" => m'.fis = "idle"
           /\ m.fis = "rd_ack" => m'.fis = "rd_da0"
           /\ m.fis = "rd_da0" => m'.fis = "rd_da1"
           /\ m.fis = "rd_da1" => m'.fis = "idle"
           /\ m'.rdat = CASE m.fis = "rd_da0" -> 256 * Hi(m.rdat) + m.fric_inr
                          [] m.fis = "rd_da1" -> 256 * m.fric_inr + Lo(m.rdat)
                          [] OTHER -> m.rdat
  BY
     DEF Clock, M!Clock, M!NextFis, M!NextRdat, M!Lo, Lo, M!Hi, Hi, Type, M!Type, M!ReadAck,
         M!WriteAck, ReadAck, WriteAck

\* The port that is selected, and the reply it sends.
LEMMA Selection ==
    /\ (sw.mp # "idle" \/ sw.fric_inr0 = 0) => Sw!psel = sw.psel_reg /\ Sw!pdat = sw.fric_inr0
    /\ Requested /\ sw.mp = "idle" /\ sw.fric_inr0 = Header(mx.type, mx.port) =>
         /\ Sw!Starts /\ Sw!psel = mx.port /\ Sw!pdat = Header(mx.type, 0)
         /\ Sw!Type(sw.fric_inr0) = mx.type /\ Sw!Port(sw.fric_inr0) = mx.port
    /\ Sw!prep = IF Sw!psel \in Ports THEN sw.fric_inr[Sw!psel] ELSE 0
<1>1. /\ Requested /\ sw.fric_inr0 = Header(mx.type, mx.port) =>
           Type(sw.fric_inr0) = mx.type /\ Port(sw.fric_inr0) = mx.port
      /\ Requested => mx.type # 0
  <2>1. \A p \in Ports : p \in 0 .. 15
    BY PortsAssumption
  <2>2. Requested => mx.type \in {Write, Read, WriteAck, ReadAck} /\ mx.port \in 0 .. 15
    <3>1. Requested => mx.port \in 0 .. 15
      BY <2>1 DEF Requested
    <3> QED
      BY <3>1 DEF Requested
  <2>3. Requested => mx.type # 0
    BY DEF Requested, Read, Write
  <2> QED
    BY <2>2, <2>3, Headers
<1>2. \A b : /\ Sw!Type(b) = Type(b) /\ Sw!Port(b) = Port(b)
             /\ \A t : Sw!Header(t, b) = Header(t, b)
  BY DEF Sw!Type, Type, Sw!Port, Port, Sw!Header, Header
<1>3. Sw!Starts <=> sw.mp = "idle" /\ Type(sw.fric_inr0) # 0
  BY <1>2 DEF Sw!Starts
<1>4. Type(0) = 0
  BY NoHeader
<1>5. (sw.mp # "idle" \/ sw.fric_inr0 = 0) => Sw!psel = sw.psel_reg /\ Sw!pdat = sw.fric_inr0
  BY <1>3, <1>4 DEF Sw!psel, Sw!pdat
<1>6. Requested /\ sw.mp = "idle" /\ sw.fric_inr0 = Header(mx.type, mx.port) =>
         /\ Sw!Starts /\ Sw!psel = mx.port /\ Sw!pdat = Header(mx.type, 0)
         /\ Sw!Type(sw.fric_inr0) = mx.type /\ Sw!Port(sw.fric_inr0) = mx.port
  BY <1>1, <1>2, <1>3 DEF Sw!psel, Sw!pdat
<1> QED
  BY <1>5, <1>6 DEF Sw!prep

\* The switch at an edge.
LEMMA SwitchStep ==
    ASSUME Shape, Clock
    PROVE  /\ sw'.fric_inr0 = m.fric_out
           /\ sw'.fric_inr = [p \in Ports |-> In(p)]
           /\ sw'.fric_out = [p \in Ports |-> IF p = Sw!psel THEN Sw!pdat ELSE sw.fric_out[p]]
           /\ ~Sw!Starts => sw'.psel_reg = sw.psel_reg /\ sw'.type = sw.type
           /\ Sw!Starts => sw'.psel_reg = Sw!Port(sw.fric_inr0) /\ sw'.type = Sw!Type(sw.fric_inr0)
           /\ sw'.fric_out0 = IF sw.mp = "wack" /\ Sw!prep # 0 THEN Header(Type(Sw!prep), Sw!psel) ELSE Sw!prep
           /\ sw.mp = "idle" => sw'.mp = IF Sw!Starts THEN "req_adr" ELSE "idle"
           /\ sw.mp = "req_adr" /\ sw.type = Write => sw'.mp = "wdat0"
           /\ sw.mp = "req_adr" /\ sw.type = Read => sw'.mp = "wack"
           /\ sw.mp = "wdat0" => sw'.mp = "wdat1"
           /\ sw.mp = "wdat1" => sw'.mp = "wack"
           /\ sw.mp = "wack" => sw'.mp = IF Sw!prep # 0 THEN "rep_adr" ELSE "wack"
           /\ sw.mp = "rep_adr" => sw'.mp = IF sw.type = Write THEN "idle" ELSE "rdat0"
           /\ sw.mp = "rdat0" => sw'.mp = "rdat1"
           /\ sw.mp = "rdat1" => sw'.mp = "idle"
  BY DEF Clock, Sw!Clock, Sw!NextMp, Sw!Acknowledged, Sw!Type, Type, Sw!Header, Header,
         Sw!Read, Read, Sw!Write, Write

\* What the slave client does with a request.
LEMMA SlaveStep ==
    ASSUME Shape, Clock
    PROVE  /\ s'.fric_inr = sw.fric_out[SlavePort]
           /\ s.fis = "idle" /\ s.fric_inr = 0 => s'.fis = "idle"
           /\ s.fis = "idle" /\ s.fric_inr \in Byte /\ Type(s.fric_inr) = Write => s'.fis = "wr_adr"
           /\ s.fis = "idle" /\ s.fric_inr \in Byte /\ Type(s.fric_inr) = Read => s'.fis = "rd_adr"
           /\ s.fis = "wr_adr" => s'.fis = "wr_da0"
           /\ s.fis = "wr_da0" => s'.fis = "wr_da1"
           /\ s.fis \in {"rd_adr", "wr_da1"} => s'.fis = "idle"
           /\ s'.addr = IF s.fis \in {"rd_adr", "wr_adr"} THEN s.fric_inr ELSE s.addr
           /\ s'.port = IF s.fis = "idle" /\ Type(s.fric_inr) \in {Write, Read}
                        THEN Port(s.fric_inr) ELSE s.port
           /\ s'.wdat = CASE s.fis = "wr_da0" -> 256 * Hi(s.wdat) + s.fric_inr
                          [] s.fis = "wr_da1" -> 256 * s.fric_inr + Lo(s.wdat)
                          [] OTHER -> s.wdat
           /\ s'.wstb = IF s.fis = "wr_da1" THEN 1 ELSE 0
  BY DEF Clock, S!Clock, S!NextFis, S!NextWdat, S!init_rdack, S!init_wrack,
         S!Type, Type, S!Port, Port, S!Read, Read, S!Write, Write, S!Lo, Lo, S!Hi, Hi

\* What the slave client sends in answer.
LEMMA SlaveAnswers ==
    ASSUME Shape, Clock
    PROVE  /\ s.fos = "idle" /\ s.fis \in {"idle", "wr_da0", "wr_da1"} => s'.fos = "idle" /\ s'.fric_out = 0
           /\ s.fos = "idle" /\ s.fis = "wr_adr" => s'.fos = "wr_adr" /\ s'.fric_out = Header(WriteAck, s.port)
           /\ s.fos = "idle" /\ s.fis = "rd_adr" => s'.fos = "rd_adr" /\ s'.fric_out = Header(ReadAck, s.port)
           /\ s.fos = "wr_adr" => s'.fos = "idle"
           /\ s.fos = "rd_adr" => s'.fos = "rd_da0"
           /\ s.fos = "rd_da0" => s'.fos = "rd_da1" /\ s'.fric_out = Lo(rdat)
           /\ s.fos = "rd_da1" => s'.fos = "idle" /\ s'.fric_out = Hi(rdat)
  BY DEF Clock, S!Clock, S!NextFos, S!FricOut, S!init_rdack, S!init_wrack,
         S!Header, Header, S!ReadAck, ReadAck, S!WriteAck, WriteAck, S!Lo, Lo, S!Hi, Hi

\* The transactor behind the slave client: its registers, and what counts as served.
LEMMA ServeStep ==
    ASSUME Shape, Clock
    PROVE  /\ s.wstb # 1 /\ s.fos # "rd_adr" => served' = served
           /\ s.wstb # 1 => regs' = regs
           /\ s.wstb = 1 /\ s.fos # "rd_adr" /\ served = <<>> =>
                /\ served' = <<[type |-> Write, port |-> SlavePort, addr |-> s.addr, data |-> s.wdat]>>
                /\ regs' = [regs EXCEPT ![s.addr] = s.wdat]
           /\ s.wstb # 1 /\ s.fos = "rd_adr" /\ served = <<>> =>
                served' = <<[type |-> Read, port |-> SlavePort, addr |-> s.addr, data |-> regs[s.addr]]>>
           /\ served = <<>> /\ (s.wstb = 1 <=> s.fos # "rd_adr") => served' # <<>>
           /\ rdat' = regs'[s.addr]
<1>1. /\ regs' = IF s.wstb = 1 THEN [regs EXCEPT ![s.addr] = s.wdat] ELSE regs
      /\ rdat' = regs'[s.addr] /\ served' = served \o SlaveServes
  BY DEF Clock, SlaveXactor
<1>2. /\ <<>> \o <<>> = <<>> /\ \A r : <<>> \o <<r>> = <<r>> /\ <<r>> \o <<>> = <<r>>
  OBVIOUS
<1>3. s.wstb # 1 /\ s.fos # "rd_adr" => served' = served
  BY <1>1, <1>2 DEF SlaveServes, Shape
<1>4. ASSUME s.wstb = 1, s.fos # "rd_adr", served = <<>>
      PROVE  served' = <<[type |-> Write, port |-> SlavePort, addr |-> s.addr, data |-> s.wdat]>>
  <2> DEFINE r == [type |-> Write, port |-> SlavePort, addr |-> s.addr, data |-> s.wdat]
  <2>1. SlaveServes = <<r>>
    BY <1>4 DEF SlaveServes
  <2> HIDE DEF r
  <2>2. served' = <<r>>
    BY <1>1, <1>2, <1>4, <2>1
  <2> QED
    BY <2>2 DEF r
<1>5. ASSUME s.wstb # 1, s.fos = "rd_adr", served = <<>>
      PROVE  served' = <<[type |-> Read, port |-> SlavePort, addr |-> s.addr, data |-> regs[s.addr]]>>
  <2> DEFINE r == [type |-> Read, port |-> SlavePort, addr |-> s.addr, data |-> regs[s.addr]]
  <2>1. SlaveServes = <<r>>
    BY <1>5 DEF SlaveServes
  <2> HIDE DEF r
  <2>2. served' = <<r>>
    BY <1>1, <1>2, <1>5, <2>1
  <2> QED
    BY <2>2 DEF r
<1>6. \A r : <<r>> # <<>>
  OBVIOUS
<1>7. served = <<>> /\ (s.wstb = 1 <=> s.fos # "rd_adr") => served' # <<>>
  BY <1>4, <1>5, <1>6
<1> QED
  BY <1>1, <1>3, <1>4, <1>5, <1>7

\* The two bytes of a word.
LEMMA Halves ==
    /\ \A w \in Word : Lo(w) \in Byte /\ Hi(w) \in Byte /\ Lo(w) + 256 * Hi(w) = w
    /\ \A w \in Nat, b \in Byte : Hi(w) \in Nat /\ Lo(w) \in Byte /\ Lo(256 * Hi(w) + b) = b
    /\ \A w \in Word : Lo(w) \in Nat /\ Hi(w) \in Nat
<1>1. ASSUME NEW w \in Word
      PROVE  /\ Lo(w) \in Byte /\ Hi(w) \in Byte /\ Lo(w) + 256 * Hi(w) = w
             /\ Lo(w) \in Nat /\ Hi(w) \in Nat
  <2>1. w \in Nat /\ w <= MaxWord /\ MaxWord = 65535
    BY DEF Word, MaxWord
  <2>2. w \div 256 \in Nat /\ w \div 256 <= 255 /\ w % 256 \in 0 .. 255
    BY <2>1, SMT
  <2>3. (w % 256) + 256 * (w \div 256) = w
    BY <2>1, SMT
  <2>4. \A n \in Nat : n <= 255 => n \in Byte
    BY DEF Byte
  <2>5. w % 256 \in Nat /\ w % 256 <= 255
    BY <2>2
  <2>6. w % 256 \in Byte /\ w \div 256 \in Byte
    <3> DEFINE lo == w % 256
               hi == w \div 256
    <3>1. lo \in Nat /\ lo <= 255 /\ hi \in Nat /\ hi <= 255
      BY <2>2, <2>5
    <3> HIDE DEF lo, hi
    <3>2. lo \in Byte /\ hi \in Byte
      BY <2>4, <3>1
    <3> QED
      BY <3>2 DEF lo, hi
  <2> QED
    BY <2>2, <2>3, <2>5, <2>6 DEF Lo, Hi
<1>2. ASSUME NEW w \in Nat, NEW b \in Byte
      PROVE  Hi(w) \in Nat /\ Lo(w) \in Byte /\ Lo(256 * Hi(w) + b) = b
  BY SMT DEF Lo, Hi, Byte
<1> QED
  BY <1>1, <1>2

\* A receiver keeps its fields.
LEMMA ReceiverFields ==
    ASSUME NEW c, c = [at |-> c.at, type |-> c.type, port |-> c.port, addr |-> c.addr, data |-> c.data],
           c.at \in {"idle", "addr", "lo", "hi", "end"}, NEW b
    PROVE  LET r == Receives(c, b)
           IN  /\ r = [at |-> r.at, type |-> r.type, port |-> r.port, addr |-> r.addr, data |-> r.data]
               /\ r.at \in {"idle", "addr", "lo", "hi", "end"}
<1>1. CASE c.at \in {"idle", "end"}
  BY <1>1 DEF Receives, Listening
<1>2. CASE c.at = "addr"
  BY <1>2 DEF Receives
<1>3. CASE c.at = "lo"
  BY <1>3 DEF Receives
<1>4. CASE c.at = "hi"
  BY <1>4 DEF Receives
<1> QED
  BY <1>1, <1>2, <1>3, <1>4

\* A transactor at a port other than the slave's.
LEMMA XactorStep ==
    ASSUME Shape, Clock, NEW p \in XPorts
    PROVE  /\ x' = [q \in XPorts |-> x'[q]] /\ IsXactor(x'[p])
           /\ x[p].tx \in {"idle", "last"} => x'[p].tx = "idle" /\ x'[p].out = 0
           /\ x[p].tx = "header" => /\ x'[p].tx = IF HasData(x[p].resp.type) THEN "addr" ELSE "last"
                                    /\ x'[p].resp = x[p].resp
           /\ x[p].tx = "addr" => /\ x'[p].tx = "lo" /\ x'[p].resp = x[p].resp
                                  /\ x'[p].out = Lo(x[p].resp.data)
           /\ x[p].tx = "lo" => x'[p].tx = "last" /\ x'[p].out = Hi(x[p].resp.data)
           /\ x'[p].rx = Receives(x[p].rx, sw.fric_out[p])
           /\ x'[p].waits = IF x[p].rx.at = "end" THEN Append(x[p].waits, x[p].rx) ELSE x[p].waits
           /\ x'[p].late = IF x[p].waits = <<>> THEN 0 ELSE x[p].late + 1
<1> DEFINE c == SendNext(x[p])
           r == Receives(x[p].rx, sw.fric_out[p])
<1>1. /\ x[p] = [out |-> x[p].out, rx |-> x[p].rx, waits |-> x[p].waits, late |-> x[p].late,
                 tx |-> x[p].tx, resp |-> x[p].resp]
      /\ x[p].tx \in {"idle", "header", "addr", "lo", "last"}
      /\ x[p].rx.at \in {"idle", "addr", "lo", "hi", "end"}
      /\ x[p].rx = [at |-> x[p].rx.at, type |-> x[p].rx.type, port |-> x[p].rx.port,
                    addr |-> x[p].rx.addr, data |-> x[p].rx.data]
  BY DEF Shape, IsXactor
<1>2. x' = [q \in XPorts |-> RecvNext(SendNext(x[q]), sw.fric_out[q])]
  BY DEF Clock, Xactors
<1>3. x'[p] = RecvNext(c, sw.fric_out[p]) /\ x' = [q \in XPorts |-> x'[q]]
  BY <1>2
<1>4. /\ c = [out |-> c.out, rx |-> x[p].rx, waits |-> x[p].waits, late |-> x[p].late,
              tx |-> c.tx, resp |-> c.resp]
      /\ x[p].tx \in {"idle", "last"} => c.tx = "idle" /\ c.out = 0
      /\ x[p].tx = "header" => /\ c.tx = IF HasData(x[p].resp.type) THEN "addr" ELSE "last"
                               /\ c.resp = x[p].resp
      /\ x[p].tx = "addr" => c.tx = "lo" /\ c.resp = x[p].resp /\ c.out = Lo(x[p].resp.data)
      /\ x[p].tx = "lo" => c.tx = "last" /\ c.out = Hi(x[p].resp.data)
  BY <1>1 DEF SendNext
<1> HIDE DEF c
<1>5. /\ r = [at |-> r.at, type |-> r.type, port |-> r.port, addr |-> r.addr, data |-> r.data]
      /\ r.at \in {"idle", "addr", "lo", "hi", "end"}
  BY <1>1, ReceiverFields
<1> HIDE DEF r
<1>6. /\ c.rx = x[p].rx /\ c.waits = x[p].waits /\ c.late = x[p].late
      /\ c.tx \in {"idle", "header", "addr", "lo", "last"}
  BY <1>1, <1>4
<1>7. x'[p] = [c EXCEPT !.rx = r, !.waits = IF c.rx.at = "end" THEN Append(c.waits, c.rx) ELSE c.waits,
                        !.late = IF c.waits = <<>> THEN 0 ELSE c.late + 1]
  BY <1>3, <1>6 DEF RecvNext, Complete, r
<1>8. x'[p] = [out |-> c.out, rx |-> r,
               waits |-> IF x[p].rx.at = "end" THEN Append(x[p].waits, x[p].rx) ELSE x[p].waits,
               late |-> IF c.waits = <<>> THEN 0 ELSE c.late + 1, tx |-> c.tx, resp |-> c.resp]
  BY <1>4, <1>6, <1>7
<1>9. /\ x'[p].out = c.out /\ x'[p].tx = c.tx /\ x'[p].resp = c.resp /\ x'[p].rx = r
      /\ x'[p].waits = IF x[p].rx.at = "end" THEN Append(x[p].waits, x[p].rx) ELSE x[p].waits
      /\ x'[p].late = IF x[p].waits = <<>> THEN 0 ELSE x[p].late + 1
      /\ x'[p] = [out |-> x'[p].out, rx |-> x'[p].rx, waits |-> x'[p].waits,
                  late |-> x'[p].late, tx |-> x'[p].tx, resp |-> x'[p].resp]
  BY <1>6, <1>8
<1>10. IsXactor(x'[p])
  BY <1>5, <1>6, <1>9 DEF IsXactor
<1> QED
  BY <1>3, <1>4, <1>9, <1>10 DEF r

-----------------------------------------------------------------------------
(* A clock edge in each stage *)

\* The registers of the switch at a port.
LEMMA InputStep ==
    ASSUME Shape, Clock, NEW q \in Ports
    PROVE  /\ sw'.fric_inr[q] = IF q = SlavePort THEN s.fric_out ELSE x[q].out
           /\ sw'.fric_out[q] = IF q = Sw!psel THEN Sw!pdat ELSE sw.fric_out[q]
<1>1. q # 0
  BY PortsAssumption
<1> QED
  BY <1>1, SwitchStep DEF In

\* A client that rests goes on resting while nothing is sent to it.
LEMMA RestStep ==
    ASSUME Shape, Clock, NEW q \in Ports, ClientRests(q), sw.fric_out[q] = 0
    PROVE  ClientRests(q)'
<1>1. CASE q = SlavePort
  BY <1>1, SlaveStep, SlaveAnswers DEF ClientRests
<1>2. CASE q # SlavePort
  <2>1. Receives(x[q].rx, 0) = Listening
    BY <1>2 DEF Receives, ClientRests
  <2> QED
    BY <1>2, <2>1, XactorStep DEF ClientRests, XPorts, Listening
<1> QED
  BY <1>1, <1>2

\* A port that rests goes on resting unless it is the one being driven.
LEMMA RestingStep ==
    ASSUME Shape, Clock, NEW q \in Ports, Resting(q), q # Sw!psel \/ Sw!pdat = 0
    PROVE  Resting(q)'
<1>1. ClientRests(q)'
  BY RestStep DEF Resting
<1>2. sw'.fric_out[q] = 0 /\ sw'.fric_inr[q] = 0
  BY InputStep DEF Resting, ClientRests
<1> QED
  BY <1>1, <1>2 DEF Resting

\* The ports a request does not name rest while it is on its way.
LEMMA TransferStep ==
    ASSUME Shape, Clock, NEW type, Transfer(type),
           Sw!psel = mx.port \/ Sw!pdat = 0, SendPacketAt = "ready", m.fis # "rd_da1"
    PROVE  Transfer(type)'
<1>1. ASSUME NEW q \in Ports \ {mx.port} PROVE Resting(q)'
  BY <1>1, RestingStep DEF Transfer
<1>2. /\ mx'.at = "ready" /\ mx'.tstb = 0 /\ mx'.type = mx.type /\ mx'.port = mx.port
      /\ mx'.addr = mx.addr /\ mx'.wdat = mx.wdat
  BY MxStep
<1>3. m'.rstb = 0
  BY MasterStep
<1> QED
  BY <1>1, <1>2, <1>3 DEF Transfer, Requested

\* The slave client, when it has been selected.
LEMMA SlaveMoves ==
    ASSUME Shape, Clock, Requested
    PROVE  LET sent == sw.fric_out[mx.port]
           IN  /\ Rests /\ mx.port = SlavePort /\ Carries(sent, "forwarded")
                    => Slave("forwarded", "idle", "idle", "zero")'
               /\ Slave("forwarded", "idle", "idle", "zero") /\ mx.type = Write /\ sent = mx.addr
                    => Slave("addr", "wr_adr", "idle", "zero")'
               /\ Slave("addr", "wr_adr", "idle", "zero") /\ mx.type = Write /\ sent = Lo(mx.wdat)
                    => Slave("low", "wr_da0", "wr_adr", "ack")'
               /\ Slave("low", "wr_da0", "wr_adr", "ack") /\ sent = Hi(mx.wdat)
                    => Slave("high", "wr_da1", "idle", "any")'
               /\ Slave("high", "wr_da1", "idle", "any") /\ sent = 0 => SlaveStrobes'
               /\ SlaveStrobes /\ sent = 0 => Rests'
               /\ Slave("forwarded", "idle", "idle", "zero") /\ mx.type = Read /\ sent = mx.addr
                    => Slave("addr", "rd_adr", "idle", "zero")'
               /\ Slave("addr", "rd_adr", "idle", "zero") /\ mx.type = Read /\ sent = 0
                    => Slave("zero", "idle", "rd_adr", "ack")'
               /\ Slave("zero", "idle", "rd_adr", "ack") /\ sent = 0 /\ served = <<>>
                    => Slave("zero", "idle", "rd_da0", "any")'
               /\ Slave("zero", "idle", "rd_da0", "any") /\ sent = 0
                    => Slave("zero", "idle", "rd_da1", "answer_lo")'
               /\ Slave("zero", "idle", "rd_da1", "answer_lo") /\ sent = 0
                    => Slave("zero", "idle", "idle", "answer_hi")'
               /\ Slave("zero", "idle", "idle", "answer_hi") /\ sent = 0 => Rests'
<1> DEFINE sent == sw.fric_out[mx.port]
<1>1. /\ mx'.port = mx.port /\ mx'.type = mx.type /\ mx'.addr = mx.addr /\ mx'.wdat = mx.wdat
      /\ Ack' = Ack
  BY MxStep DEF Ack
<1>2. /\ Header(WriteAck, s.port) \in Byte /\ Type(Header(WriteAck, s.port)) = WriteAck
      /\ Header(ReadAck, s.port) \in Byte /\ Type(Header(ReadAck, s.port)) = ReadAck
      /\ Port(Header(WriteAck, s.port)) = s.port /\ Port(Header(ReadAck, s.port)) = s.port
  BY Headers DEF Shape
<1>3. /\ Rests /\ mx.port = SlavePort /\ Carries(sent, "forwarded")
           => Slave("forwarded", "idle", "idle", "zero")'
      /\ Slave("forwarded", "idle", "idle", "zero") /\ mx.type = Write /\ sent = mx.addr
           => Slave("addr", "wr_adr", "idle", "zero")'
      /\ Slave("forwarded", "idle", "idle", "zero") /\ mx.type = Read /\ sent = mx.addr
           => Slave("addr", "rd_adr", "idle", "zero")'
  BY <1>1, SlaveStep, SlaveAnswers DEF Slave, Carries, Kind, Ack, Rests, ClientRests, Read, Write
<1>4. /\ Slave("addr", "wr_adr", "idle", "zero") /\ mx.type = Write /\ sent = Lo(mx.wdat)
           => Slave("low", "wr_da0", "wr_adr", "ack")'
      /\ Slave("addr", "rd_adr", "idle", "zero") /\ mx.type = Read /\ sent = 0
           => Slave("zero", "idle", "rd_adr", "ack")'
  BY <1>1, <1>2, SlaveStep, SlaveAnswers DEF Slave, Carries, Kind, Ack, Read, Write
<1>5. Slave("low", "wr_da0", "wr_adr", "ack") /\ sent = Hi(mx.wdat)
        => Slave("high", "wr_da1", "idle", "any")'
  <2> SUFFICES ASSUME Slave("low", "wr_da0", "wr_adr", "ack"), sent = Hi(mx.wdat)
               PROVE  Slave("high", "wr_da1", "idle", "any")'
    OBVIOUS
  <2>1. Lo(s'.wdat) = Lo(mx.wdat)
    <3>1. s.fric_inr = Lo(mx.wdat) /\ s.fis = "wr_da0"
      BY DEF Slave, Carries, Kind, Ack
    <3>2. s.fric_inr \in Byte
      BY <3>1, Halves DEF Requested
    <3>3. s'.wdat = 256 * Hi(s.wdat) + s.fric_inr
      BY <3>1, SlaveStep
    <3> QED
      BY <3>1, <3>2, <3>3, Halves DEF Shape
  <2> QED
    BY <1>1, <2>1, SlaveStep, SlaveAnswers DEF Slave, Carries, Kind, Ack
<1>6. Slave("high", "wr_da1", "idle", "any") /\ sent = 0 => SlaveStrobes'
  <2> SUFFICES ASSUME Slave("high", "wr_da1", "idle", "any"), sent = 0 PROVE SlaveStrobes'
    OBVIOUS
  <2>1. s'.wdat = mx.wdat
    <3>1. s.fric_inr = Hi(mx.wdat) /\ s.fis = "wr_da1" /\ Lo(s.wdat) = Lo(mx.wdat)
      BY DEF Slave, Carries, Kind, Ack
    <3>2. s'.wdat = 256 * Hi(mx.wdat) + Lo(mx.wdat)
      BY <3>1, SlaveStep
    <3>3. /\ Lo(mx.wdat) \in Nat /\ Hi(mx.wdat) \in Nat
          /\ Lo(mx.wdat) + 256 * Hi(mx.wdat) = mx.wdat
      BY Halves DEF Requested
    <3> QED
      BY <3>2, <3>3
  <2> QED
    BY <1>1, <2>1, SlaveStep, SlaveAnswers DEF Slave, SlaveStrobes
<1>7. SlaveStrobes /\ sent = 0 => Rests'
  BY <1>1, SlaveStep, SlaveAnswers DEF SlaveStrobes, Rests, ClientRests
<1>8. Slave("zero", "idle", "rd_adr", "ack") /\ sent = 0 /\ served = <<>>
        => Slave("zero", "idle", "rd_da0", "any")'
  <2> SUFFICES ASSUME Slave("zero", "idle", "rd_adr", "ack"), sent = 0, served = <<>>
               PROVE  Slave("zero", "idle", "rd_da0", "any")'
    OBVIOUS
  <2>1. s.addr = mx.addr /\ s.wstb = 0 /\ s.fos = "rd_adr"
    BY DEF Slave
  <2>2. /\ served' = <<[type |-> Read, port |-> SlavePort, addr |-> s.addr, data |-> regs[s.addr]]>>
        /\ regs' = regs /\ rdat' = regs[s.addr]
    BY <2>1, ServeStep
  <2>3. Answer' = regs[mx.addr]
    BY <2>1, <2>2 DEF Answer
  <2> QED
    BY <1>1, <2>1, <2>2, <2>3, SlaveStep, SlaveAnswers DEF Slave, Carries, Kind, Ack
<1>9. /\ Slave("zero", "idle", "rd_da0", "any") /\ sent = 0
           => Slave("zero", "idle", "rd_da1", "answer_lo")'
      /\ Slave("zero", "idle", "rd_da1", "answer_lo") /\ sent = 0
           => Slave("zero", "idle", "idle", "answer_hi")'
      /\ Slave("zero", "idle", "idle", "answer_hi") /\ sent = 0 => Rests'
  <2>1. s.wstb = 0 /\ s.fos # "rd_adr" => served' = served /\ regs' = regs /\ rdat' = regs[s.addr] /\ Answer' = Answer
    BY ServeStep DEF Answer
  <2> QED
    BY <1>1, <2>1, SlaveStep, SlaveAnswers DEF Slave, Carries, Kind, Ack, Rests, ClientRests
<1> QED
  BY <1>3, <1>4, <1>5, <1>6, <1>7, <1>8, <1>9

\* The slave client, when another port has been selected.
LEMMA SlaveRests ==
    ASSUME Shape, Clock, NEW type, Transfer(type), mx.port # SlavePort
    PROVE  served' = served /\ regs' = regs /\ s.wstb = 0 /\ s.fos = "idle"
<1>1. s.wstb = 0 /\ s.fos = "idle"
  BY PortsAssumption DEF Transfer, Resting, ClientRests
<1> QED
  BY <1>1, ServeStep

\* The transactor of another port, when it has been selected.
LEMMA XactorMoves ==
    ASSUME Shape, Clock, NEW type, Transfer(type), mx.port # SlavePort
    PROVE  LET sent == sw.fric_out[mx.port]
           IN  /\ Rests /\ Carries(sent, "forwarded") => Xactor("addr", "idle", "zero")'
               /\ Xactor("addr", "idle", "zero") /\ mx.type = Write /\ sent = mx.addr
                    => Xactor("lo", "idle", "zero")'
               /\ Xactor("addr", "idle", "zero") /\ mx.type = Read /\ sent = mx.addr
                    => Xactor("end", "idle", "zero")'
               /\ Xactor("lo", "idle", "zero") /\ sent = Lo(mx.wdat) => Xactor("hi", "idle", "zero")'
               /\ Xactor("hi", "idle", "zero") /\ sent = Hi(mx.wdat) => Xactor("end", "idle", "zero")'
               /\ Xactor("end", "idle", "zero") /\ sent = 0 => XactorWaits'
               /\ XactorWaits /\ sent = 0 => XactorWaits'
               /\ Xactor("idle", "header", "ack") /\ sent = 0 =>
                    IF mx.type = Write THEN Xactor("idle", "last", "any")' ELSE Xactor("idle", "addr", "any")'
               /\ Xactor("idle", "addr", "any") /\ mx.type = Read /\ sent = 0
                    => Xactor("idle", "lo", "answer_lo")'
               /\ Xactor("idle", "lo", "answer_lo") /\ mx.type = Read /\ sent = 0
                    => Xactor("idle", "last", "answer_hi")'
               /\ \A out : Xactor("idle", "last", out) /\ sent = 0 => Rests'
<1> DEFINE sent == sw.fric_out[mx.port]
           c == x[mx.port]
           next == x'[mx.port]
<1>1. /\ mx'.port = mx.port /\ mx'.type = mx.type /\ mx'.addr = mx.addr /\ mx'.wdat = mx.wdat
      /\ Ack' = Ack /\ Answer' = Answer
  BY MxStep, SlaveRests DEF Ack, Answer
<1>2. mx.port \in XPorts /\ IsXactor(c) /\ Requested
  BY DEF Transfer, Requested, XPorts, Shape
<1>3. /\ c.tx \in {"idle", "last"} => next.tx = "idle" /\ next.out = 0
      /\ c.tx = "header" => /\ next.tx = IF HasData(c.resp.type) THEN "addr" ELSE "last"
                            /\ next.resp = c.resp
      /\ c.tx = "addr" => next.tx = "lo" /\ next.resp = c.resp /\ next.out = Lo(c.resp.data)
      /\ c.tx = "lo" => next.tx = "last" /\ next.out = Hi(c.resp.data)
      /\ next.rx = Receives(c.rx, sent)
      /\ next.waits = IF c.rx.at = "end" THEN Append(c.waits, c.rx) ELSE c.waits
  BY <1>2, XactorStep
<1>4. /\ c.rx.at \in {"idle", "end"} /\ sent = 0 => next.rx.at = "idle"
      /\ c.rx.at = "idle" /\ sent # 0 => next.rx.at = "addr" /\ next.rx.type = Type(sent)
      /\ c.rx.at = "addr" => /\ next.rx.at = IF HasData(c.rx.type) THEN "lo" ELSE "end"
                             /\ next.rx.type = c.rx.type /\ next.rx.addr = sent
      /\ c.rx.at = "lo" => /\ next.rx.at = "hi" /\ next.rx.type = c.rx.type
                           /\ next.rx.addr = c.rx.addr /\ next.rx.data = sent
      /\ c.rx.at = "hi" => /\ next.rx.at = "end" /\ next.rx.type = c.rx.type
                           /\ next.rx.addr = c.rx.addr /\ next.rx.data = c.rx.data + 256 * sent
  BY <1>2, <1>3 DEF IsXactor, Receives, Listening
<1>5. /\ HasData(Write) /\ ~HasData(Read) /\ ~HasData(WriteAck) /\ HasData(ReadAck)
      /\ mx.type = Write \/ mx.type = Read
      /\ Ack = IF mx.type = Write THEN WriteAck ELSE ReadAck
      /\ Read # Write
      /\ Carries(sent, "forwarded") => sent # 0 /\ Type(sent) = mx.type
  BY <1>2, NoHeader DEF HasData, Write, Read, WriteAck, ReadAck, Ack, Requested, Carries, Kind
<1>6. \A r : Append(<<>>, r) = <<r>> /\ <<r>> # <<>> /\ <<r>>[1] = r
  OBVIOUS
<1>7. Lo(mx.wdat) + 256 * Hi(mx.wdat) = mx.wdat
  BY <1>2, Halves DEF Requested
<1> HIDE DEF sent, next
<1>11. Rests /\ Carries(sent, "forwarded") => Xactor("addr", "idle", "zero")'
  BY <1>1, <1>3, <1>4, <1>5 DEF Rests, ClientRests, Xactor, Carries, Kind, Ack, next
<1>12. Xactor("addr", "idle", "zero") /\ sent = mx.addr =>
         IF mx.type = Write THEN Xactor("lo", "idle", "zero")' ELSE Xactor("end", "idle", "zero")'
  BY <1>1, <1>3, <1>4, <1>5 DEF Xactor, Carries, Kind, Ack, next
<1>13. Xactor("lo", "idle", "zero") /\ sent = Lo(mx.wdat) => Xactor("hi", "idle", "zero")'
  BY <1>1, <1>3, <1>4, <1>5 DEF Xactor, Carries, Kind, Ack, next
<1>14. Xactor("hi", "idle", "zero") /\ sent = Hi(mx.wdat) => Xactor("end", "idle", "zero")'
  BY <1>1, <1>3, <1>4, <1>5, <1>7 DEF Xactor, Carries, Kind, Ack, next
<1>15. Xactor("end", "idle", "zero") /\ sent = 0 => XactorWaits'
  BY <1>1, <1>3, <1>4, <1>5, <1>6 DEF Xactor, XactorWaits, Carries, Kind, Ack, next
<1>16. XactorWaits /\ sent = 0 => XactorWaits'
  BY <1>1, <1>3, <1>4, <1>5 DEF XactorWaits, next
<1>17. Xactor("idle", "header", "ack") /\ sent = 0 =>
         IF mx.type = Write THEN Xactor("idle", "last", "any")' ELSE Xactor("idle", "addr", "any")'
  BY <1>1, <1>3, <1>4, <1>5 DEF Xactor, Carries, Kind, Ack, next
<1>18. /\ Xactor("idle", "addr", "any") /\ mx.type = Read /\ sent = 0 => Xactor("idle", "lo", "answer_lo")'
       /\ Xactor("idle", "lo", "answer_lo") /\ mx.type = Read /\ sent = 0
            => Xactor("idle", "last", "answer_hi")'
       /\ \A out : Xactor("idle", "last", out) /\ sent = 0 => Rests'
  BY <1>1, <1>3, <1>4, <1>5 DEF Xactor, Carries, Kind, Ack, next, Rests, ClientRests
<1> QED
  BY <1>5, <1>11, <1>12, <1>13, <1>14, <1>15, <1>16, <1>17, <1>18 DEF sent

\* The switch while it waits for a request.
LEMMA IdleSwitch ==
    ASSUME Shape, Clock, sw.mp = "idle", sw.fric_inr0 = 0
    PROVE  /\ Sw!pdat = 0 /\ sw'.mp = "idle" /\ sw'.psel_reg = sw.psel_reg /\ sw'.type = sw.type
           /\ \A q \in Ports : sw.fric_out[q] = 0 => sw'.fric_out[q] = 0
           /\ (\A q \in Ports : sw.fric_inr[q] = 0) => sw'.fric_out0 = 0
<1>1. Sw!pdat = 0 /\ ~Sw!Starts
  BY Selection DEF Sw!Starts, Sw!Type
<1>2. (\A q \in Ports : sw.fric_inr[q] = 0) => Sw!prep = 0
  BY Selection
<1> QED
  BY <1>1, <1>2, SwitchStep, InputStep

\* The bytes on the wires of the selected port: what reaches them at the edge.
LEMMA BusStep ==
    ASSUME Shape, Clock, Requested
    PROVE  LET sent == sw.fric_out[mx.port]
               answer == sw.fric_inr[mx.port]
           IN  /\ sw'.fric_inr[mx.port] = IF mx.port = SlavePort THEN s.fric_out ELSE x[mx.port].out
               /\ sw.mp = "idle" /\ sw.fric_inr0 = Header(mx.type, mx.port) =>
                    /\ Sw!psel = mx.port /\ sw'.mp = "req_adr"
                    /\ sw'.psel_reg = mx.port /\ sw'.type = mx.type
                    /\ sw'.fric_out[mx.port] \in Byte /\ Type(sw'.fric_out[mx.port]) = mx.type
                    /\ Port(sw'.fric_out[mx.port]) = 0
                    /\ sw'.fric_out0 = answer
               /\ sw.mp = "idle" /\ sw.fric_inr0 = 0 =>
                    sw'.mp = "idle" /\ sw'.psel_reg = sw.psel_reg /\ sw'.type = sw.type
               /\ sw.psel_reg = mx.port /\ (sw.mp # "idle" \/ sw.fric_inr0 = 0) =>
                    /\ sw'.psel_reg = mx.port /\ sw'.type = sw.type
                    /\ Sw!psel = mx.port /\ Sw!prep = answer
                    /\ sw'.fric_out[mx.port] = sw.fric_inr0
                    /\ sw.mp # "wack" \/ answer = 0 => sw'.fric_out0 = answer
                    /\ sw.mp = "wack" /\ answer = 0 => sw'.mp = "wack"
                    /\ sw.mp = "wack" /\ answer \in Byte /\ Type(answer) = Ack =>
                         /\ sw'.mp = "rep_adr" /\ sw'.fric_out0 \in Byte /\ Type(sw'.fric_out0) = Ack
                         /\ Port(sw'.fric_out0) = mx.port
<1> DEFINE sent == sw.fric_out[mx.port]
           answer == sw.fric_inr[mx.port]
<1>1. /\ sw'.fric_inr[mx.port] = IF mx.port = SlavePort THEN s.fric_out ELSE x[mx.port].out
      /\ sw'.fric_out[mx.port] = IF mx.port = Sw!psel THEN Sw!pdat ELSE sw.fric_out[mx.port]
  BY InputStep DEF Requested
<1>2. mx.port \in Ports /\ mx.port \in 0 .. 15 /\ mx.type \in {Write, Read}
  <2>1. \A p \in Ports : p \in 0 .. 15
    BY PortsAssumption
  <2> QED
    BY <2>1 DEF Requested
<1>3. /\ Header(mx.type, 0) \in Byte /\ Type(Header(mx.type, 0)) = mx.type
      /\ Port(Header(mx.type, 0)) = 0
      /\ Header(Ack, mx.port) \in Byte /\ Type(Header(Ack, mx.port)) = Ack
      /\ Port(Header(Ack, mx.port)) = mx.port
      /\ \A b \in Byte : Type(b) = Ack => b # 0
  <2>1. Ack \in {WriteAck, ReadAck} /\ Ack # 0
    BY DEF Ack, WriteAck, ReadAck
  <2> QED
    BY <1>2, <2>1, Headers, NoHeader
<1>4. sw.mp # "idle" \/ sw.fric_inr0 = 0 => ~Sw!Starts
  BY DEF Sw!Starts, Sw!Type
<1>5. CASE sw.mp = "idle" /\ sw.fric_inr0 = Header(mx.type, mx.port)
  <2>1. /\ Sw!Starts /\ Sw!psel = mx.port /\ Sw!pdat = Header(mx.type, 0)
        /\ Sw!Type(sw.fric_inr0) = mx.type /\ Sw!Port(sw.fric_inr0) = mx.port
        /\ Sw!prep = answer
    BY <1>2, <1>5, Selection
  <2>2. sw.fric_inr0 # 0
    BY <1>2, <1>5, Headers
  <2> QED
    BY <1>1, <1>3, <1>5, <2>1, <2>2, SwitchStep
<1>6. CASE sw.mp # "idle" \/ sw.fric_inr0 = 0
  <2>1. Sw!psel = sw.psel_reg /\ Sw!pdat = sw.fric_inr0
    BY <1>6, Selection
  <2>2. sw.psel_reg = mx.port => Sw!prep = answer
    BY <1>2, <2>1, Selection
  <2>3. sw.mp = "idle" => sw.fric_inr0 # Header(mx.type, mx.port)
    BY <1>2, <1>6, Headers
  <2> QED
    BY <1>1, <1>3, <1>4, <1>6, <2>1, <2>2, <2>3, SwitchStep
<1> QED
  BY <1>1, <1>5, <1>6

\* The client of the selected port rests until the first byte reaches it.
LEMMA RestsStep ==
    ASSUME Shape, Clock, Requested, Rests, sw.fric_out[mx.port] = 0
    PROVE  Rests'
<1>1. mx.port \in Ports /\ mx'.port = mx.port /\ ClientRests(mx.port)
  BY MxStep DEF Requested, Rests
<1>2. \A q \in Ports : ClientRests(q) /\ sw.fric_out[q] = 0 =>
         IF q = SlavePort
         THEN s'.fis = "idle" /\ s'.fos = "idle" /\ s'.fric_inr = 0 /\ s'.fric_out = 0 /\ s'.wstb = 0
         ELSE x'[q].rx.at = "idle" /\ x'[q].tx = "idle" /\ x'[q].waits = <<>> /\ x'[q].out = 0
  BY RestStep DEF ClientRests
<1> QED
  BY <1>1, <1>2 DEF Rests, ClientRests

\* What a client has supplied is a word.
LEMMA AnswerWord == ASSUME Shape, served # <<>> PROVE Answer \in Word
<1>1. PICK r : served = <<r>> /\ r.data \in Word
  BY DEF Shape
<1>2. <<r>>[1] = r
  OBVIOUS
<1> QED
  BY <1>1, <1>2 DEF Answer

\* The slave client serves only when it strobes a write or fetches what is read.
LEMMA ServedStays ==
    ASSUME Shape, Clock, NEW type, Transfer(type)
    PROVE  /\ Rests => served' = served /\ Answer' = Answer
           /\ \A inr, fis, fos, out : Slave(inr, fis, fos, out) /\ fos # "rd_adr" =>
                served' = served /\ Answer' = Answer
           /\ \A rx, tx, out : Xactor(rx, tx, out) => served' = served /\ Answer' = Answer
           /\ XactorWaits => served' = served /\ Answer' = Answer
<1>1. s.wstb = 0 /\ s.fos # "rd_adr" => served' = served /\ Answer' = Answer
  BY ServeStep DEF Answer
<1>2. mx.port # SlavePort => s.wstb = 0 /\ s.fos # "rd_adr"
  BY SlaveRests
<1>3. mx.port = SlavePort /\ Rests => s.wstb = 0 /\ s.fos # "rd_adr"
  BY DEF Rests, ClientRests
<1>4. \A inr, fis, fos, out : Slave(inr, fis, fos, out) /\ fos # "rd_adr" => s.wstb = 0 /\ s.fos # "rd_adr"
  BY DEF Slave
<1>5. /\ \A rx, tx, out : Xactor(rx, tx, out) => mx.port # SlavePort
      /\ XactorWaits => mx.port # SlavePort
  BY DEF Xactor, XactorWaits
<1> QED
  BY <1>1, <1>2, <1>3, <1>4, <1>5

\* When the request is answered, nothing is left on the bus.
LEMMA StillStep ==
    ASSUME Shape, Clock, NEW type, Selected(type), Rests,
           sw.mp = "idle", sw.fric_inr0 = 0, sw.fric_out[mx.port] = 0, sw.fric_inr[mx.port] = 0,
           sw.fric_out0 = 0, m.fos \in {"wr_ack", "rd_ack"}, m.fis \in {"wr_ack", "rd_da1"},
           m.fric_out = 0
    PROVE  Still'
<1>1. ASSUME NEW q \in Ports PROVE Resting(q)'
  <2>1. Sw!pdat = 0
    BY Selection
  <2>2. Resting(q)
    BY DEF Selected, Transfer, Resting, Rests
  <2> QED
    BY <2>1, <2>2, RestingStep
<1>2. m'.fos = "idle" /\ m'.fis = "idle" /\ m'.fric_out = 0 /\ m'.fric_inr = 0
  BY MasterStep, MasterReceives
<1>3. sw'.mp = "idle" /\ sw'.fric_inr0 = 0 /\ sw'.fric_out0 = 0
  BY BusStep, SwitchStep DEF Selected, Transfer
<1> QED
  BY <1>1, <1>2, <1>3 DEF Still


\* Which client has to do with the request.
LEMMA Clients ==
    /\ \A inr, fis, fos, out : Slave(inr, fis, fos, out) =>
          mx.port = SlavePort /\ s.wstb = 0 /\ s.fos = fos
    /\ SlaveStrobes => mx.port = SlavePort /\ s.wstb = 1 /\ s.fos = "idle"
    /\ \A rx, tx, out : Xactor(rx, tx, out) => mx.port # SlavePort
    /\ XactorWaits => mx.port # SlavePort
  BY DEF Slave, SlaveStrobes, Xactor, XactorWaits

\* What the kinds of bytes are.
LEMMA Kinds ==
    \A b, type, port, addr, wdat, answer :
       /\ Kind(b, "zero", type, port, addr, wdat, answer) <=> b = 0
       /\ Kind(b, "request", type, port, addr, wdat, answer) <=> b = Header(type, port)
       /\ Kind(b, "forwarded", type, port, addr, wdat, answer)
             <=> b \in Byte /\ Type(b) = type /\ Port(b) = 0
       /\ Kind(b, "addr", type, port, addr, wdat, answer) <=> b = addr
       /\ Kind(b, "low", type, port, addr, wdat, answer) <=> b = Lo(wdat)
       /\ Kind(b, "high", type, port, addr, wdat, answer) <=> b = Hi(wdat)
       /\ Kind(b, "ack", type, port, addr, wdat, answer)
             <=> b \in Byte /\ Port(b) = 0 /\ Type(b) = IF type = Read THEN ReadAck ELSE WriteAck
       /\ Kind(b, "named_ack", type, port, addr, wdat, answer)
             <=> b \in Byte /\ Port(b) = port /\ Type(b) = IF type = Read THEN ReadAck ELSE WriteAck
       /\ Kind(b, "answer_lo", type, port, addr, wdat, answer) <=> b = Lo(answer)
       /\ Kind(b, "answer_hi", type, port, addr, wdat, answer) <=> b = Hi(answer)
       /\ Kind(b, "any", type, port, addr, wdat, answer)
  BY DEF Kind

\* The data supplied do not change, or a byte of this kind has nothing to do with them.
Kept(kind) == Answer' = Answer \/ kind \notin {"answer_lo", "answer_hi"}

\* A byte that keeps its value keeps its kind.
LEMMA KindKept ==
    ASSUME Shape, Clock, NEW b, NEW kind, Kept(kind)
    PROVE  Kind(b, kind, mx'.type, mx'.port, mx'.addr, mx'.wdat, Answer')
             <=> Kind(b, kind, mx.type, mx.port, mx.addr, mx.wdat, Answer)
<1>1. mx'.port = mx.port /\ mx'.type = mx.type /\ mx'.addr = mx.addr /\ mx'.wdat = mx.wdat
  BY MxStep
<1>2. CASE Answer' = Answer
  BY <1>1, <1>2
<1>3. CASE kind \notin {"answer_lo", "answer_hi"}
  BY <1>1, <1>3 DEF Kind
<1> QED
  BY <1>2, <1>3 DEF Kept

\* The bytes on the wires of the selected port move on, one register an edge.
LEMMA BusMoves ==
    ASSUME Shape, Clock, NEW type, Selected(type),
           NEW fos, NEW out, NEW in0, NEW mp, NEW sent, NEW answer, NEW out0, NEW inr, NEW fis,
           Bus(fos, out, in0, mp, sent, answer, out0, inr, fis),
           mp # "idle" \/ in0 = "zero", Kept(out), Kept(in0), Kept(answer), Kept(out0)
    PROVE  /\ Carries(sw.fric_inr0, out)' /\ Carries(sw.fric_out[mx.port], in0)'
           /\ Carries(m.fric_inr, out0)'
           /\ mp = "idle" => sw'.mp = "idle"
           /\ mp # "wack" \/ answer = "zero" => Carries(sw.fric_out0, answer)'
           /\ mp = "wack" /\ answer = "zero" => sw'.mp = "wack"
           /\ mp = "wack" /\ answer = "ack" => sw'.mp = "rep_adr" /\ Carries(sw.fric_out0, "named_ack")'
<1>1. Requested /\ sw.psel_reg = mx.port /\ mx'.port = mx.port
  BY MxStep DEF Selected, Transfer
<1>2. /\ sw'.fric_inr0 = m.fric_out /\ m'.fric_inr = sw.fric_out0
      /\ Carries(m.fric_out, out) /\ Carries(sw.fric_inr0, in0) /\ sw.mp = mp
      /\ Carries(sw.fric_inr[mx.port], answer) /\ Carries(sw.fric_out0, out0)
  BY SwitchStep, MasterStep DEF Bus
<1>3. sw.mp # "idle" \/ sw.fric_inr0 = 0
  BY <1>2 DEF Carries, Kind
<1>4. mp = "idle" => sw'.mp = "idle"
  BY <1>1, <1>2, <1>3, BusStep
<1>5. /\ sw'.fric_out[mx.port] = sw.fric_inr0
      /\ sw.mp # "wack" \/ sw.fric_inr[mx.port] = 0 => sw'.fric_out0 = sw.fric_inr[mx.port]
      /\ sw.mp = "wack" /\ sw.fric_inr[mx.port] = 0 => sw'.mp = "wack"
      /\ sw.mp = "wack" /\ sw.fric_inr[mx.port] \in Byte /\ Type(sw.fric_inr[mx.port]) = Ack =>
           /\ sw'.mp = "rep_adr" /\ sw'.fric_out0 \in Byte /\ Type(sw'.fric_out0) = Ack
           /\ Port(sw'.fric_out0) = mx.port
  BY <1>1, <1>3, BusStep
<1>6. answer = "zero" => sw.fric_inr[mx.port] = 0
  BY <1>2 DEF Carries, Kind
<1>7. answer = "ack" => sw.fric_inr[mx.port] \in Byte /\ Type(sw.fric_inr[mx.port]) = Ack
  BY <1>2 DEF Carries, Kind, Ack
<1>8. Carries(sw.fric_inr0, out)' /\ Carries(sw.fric_out[mx.port], in0)' /\ Carries(m.fric_inr, out0)'
  BY <1>1, <1>2, <1>5, KindKept DEF Carries
<1>9. mp # "wack" \/ answer = "zero" => Carries(sw.fric_out0, answer)'
  BY <1>2, <1>5, <1>6, KindKept DEF Carries
<1>10. ASSUME mp = "wack", answer = "ack" PROVE sw'.mp = "rep_adr" /\ Carries(sw.fric_out0, "named_ack")'
  <2>1. /\ sw'.mp = "rep_adr" /\ sw'.fric_out0 \in Byte /\ Type(sw'.fric_out0) = Ack
        /\ Port(sw'.fric_out0) = mx'.port
    BY <1>1, <1>2, <1>5, <1>7, <1>10
  <2>2. Ack' = Ack /\ Ack' = IF mx'.type = Read THEN ReadAck ELSE WriteAck
    BY MxStep DEF Ack
  <2> QED
    BY <2>1, <2>2 DEF Carries, Kind
<1> QED
  BY <1>2, <1>5, <1>6, <1>8, <1>9, <1>10, <1>4

\* What the selected client has on its wires reaches the switch.
LEMMA ClientOut ==
    ASSUME Shape, Clock, Requested
    PROVE  /\ \A inr, fis, fos, out : Slave(inr, fis, fos, out) /\ Kept(out)
                => Carries(sw.fric_inr[mx.port], out)'
           /\ \A rx, tx, out : Xactor(rx, tx, out) /\ Kept(out) => Carries(sw.fric_inr[mx.port], out)'
           /\ XactorWaits \/ SlaveStrobes \/ Rests => Carries(sw.fric_inr[mx.port], "zero")'
<1>1. /\ sw'.fric_inr[mx.port] = IF mx.port = SlavePort THEN s.fric_out ELSE x[mx.port].out
      /\ mx'.port = mx.port
  BY BusStep, MxStep
<1>2. ASSUME NEW inr, NEW fis, NEW fos, NEW out, Slave(inr, fis, fos, out), Kept(out)
      PROVE  Carries(sw.fric_inr[mx.port], out)'
  <2>1. Carries(s.fric_out, out) /\ mx.port = SlavePort
    BY <1>2 DEF Slave
  <2> QED
    BY <1>1, <1>2, <2>1, KindKept DEF Carries
<1>3. ASSUME NEW rx, NEW tx, NEW out, Xactor(rx, tx, out), Kept(out)
      PROVE  Carries(sw.fric_inr[mx.port], out)'
  <2>1. Carries(x[mx.port].out, out) /\ mx.port # SlavePort
    BY <1>3 DEF Xactor
  <2> QED
    BY <1>1, <1>3, <2>1, KindKept DEF Carries
<1>4. ASSUME XactorWaits \/ SlaveStrobes \/ Rests PROVE Carries(sw.fric_inr[mx.port], "zero")'
  <2>1. sw'.fric_inr[mx.port] = 0
    BY <1>1, <1>4 DEF XactorWaits, SlaveStrobes, Rests, ClientRests
  <2> QED
    BY <1>1, <2>1, Kinds DEF Carries
<1> QED
  BY <1>2, <1>3, <1>4


\* Each stage of a write is followed by the next one.
LEMMA WriteStages ==
    ASSUME Shape, Clock
    PROVE  /\ Write1 => Write2'
           /\ Write2 => Write3'
           /\ Write3 => Write4'
           /\ Write4 => Write5'
           /\ Write5 => Write6'
           /\ Write6 => (Write7 \/ WriteAck1)'
           /\ Write7 => WriteWait'
           /\ WriteWait => (WriteWait \/ WriteAck1)'
           /\ WriteAck1 => WriteAck2'
           /\ WriteAck2 => WriteAck3'
           /\ WriteAck3 => WriteAck4'
           /\ WriteAck4 => Idle'
<1>1. ASSUME Write1 PROVE Write2'
  <2>1. Transfer(Write) /\ Requested /\ mx.type = Write
    BY <1>1 DEF Write1, Transfer
  <2>2. Bus("wr_adr", "request", "zero", "idle", "zero", "zero", "zero", "zero", "idle")
    BY <1>1 DEF Write1
  <2>3. Rests /\ served = <<>>
    BY <1>1 DEF Write1
  <2>4. Transfer(Write)'
    BY <2>1, <2>2, TransferStep, Selection, BusStep, MxStep, MxAt
       DEF Selected, Transfer, Bus, Carries, Kind
  <2>5. Rests'
    BY <2>1, <2>2, <2>3, RestsStep DEF Bus, Carries, Kind
  <2>6. served' = <<>>
    BY <2>1, <2>3, ServedStays
  <2>7. Bus("wr_da0", "addr", "request", "idle", "zero", "zero", "zero", "zero", "idle")'
    <3>1. \A q \in Ports : sw.fric_inr[q] = 0
      BY <2>1, <2>2 DEF Transfer, Resting, Bus, Carries, Kind
    <3>2. sw'.mp = "idle" /\ sw'.fric_out[mx.port] = 0 /\ sw'.fric_out0 = 0
      BY <2>1, <2>2, <3>1, IdleSwitch DEF Bus, Carries, Kind, Requested
    <3> QED
      BY <2>1, <2>2, <2>3, <3>2, BusStep, SwitchStep, MasterStep, MasterReceives, MxStep
         DEF Bus, Carries, Kind, Rests, ClientRests
  <2> QED
    BY <2>4, <2>5, <2>6, <2>7 DEF Write2
<1>2. ASSUME Write2 PROVE Write3'
  <2>1. Transfer(Write) /\ Requested /\ mx.type = Write
    BY <1>2 DEF Write2, Transfer
  <2>2. Bus("wr_da0", "addr", "request", "idle", "zero", "zero", "zero", "zero", "idle")
    BY <1>2 DEF Write2
  <2>3. Rests /\ served = <<>>
    BY <1>2 DEF Write2
  <2>4. Selected(Write)'
    BY <2>1, <2>2, TransferStep, Selection, BusStep, MxStep, MxAt
       DEF Selected, Transfer, Bus, Carries, Kind
  <2>5. Rests'
    BY <2>1, <2>2, <2>3, RestsStep DEF Bus, Carries, Kind
  <2>6. served' = <<>>
    BY <2>1, <2>3, ServedStays
  <2>7. Bus("wr_da1", "low", "addr", "req_adr", "forwarded", "zero", "zero", "zero", "idle")'
    BY <2>1, <2>2, <2>3, BusStep, SwitchStep, MasterStep, MasterReceives, MxStep
       DEF Bus, Carries, Kind, Read, Write, Rests, ClientRests
  <2> QED
    BY <2>4, <2>5, <2>6, <2>7 DEF Write3
<1>3. ASSUME Write3 PROVE Write4'
  <2>1. Selected(Write) /\ Transfer(Write) /\ Requested /\ mx.type = Write
    BY <1>3 DEF Write3, Selected, Transfer
  <2>2. Bus("wr_da1", "low", "addr", "req_adr", "forwarded", "zero", "zero", "zero", "idle")
    BY <1>3 DEF Write3
  <2>3. Rests /\ served = <<>>
    BY <1>3 DEF Write3
  <2>4. served' = served /\ Answer' = Answer
    BY <2>1, <2>2, <2>3, ServedStays
  <2>5. \A kind : Kept(kind)
    BY <2>4 DEF Kept
  <2>6. Carries(sw.fric_out[mx.port], "forwarded")
    BY <2>1, <2>2, <2>3 DEF Bus, Carries, Kind
  <2>7. Selected(Write)'
    BY <2>1, <2>2, <2>3, TransferStep, Selection, BusStep, MxStep, MxAt
       DEF Selected, Transfer, Bus, Carries, Kind
  <2>8. (Slave("forwarded", "idle", "idle", "zero") \/ Xactor("addr", "idle", "zero"))'
    BY <2>1, <2>3, <2>6, <2>4, Clients, SlaveMoves, XactorMoves
  <2>9. /\ Carries(sw.fric_inr0, "low")' /\ Carries(sw.fric_out[mx.port], "addr")'
        /\ Carries(m.fric_inr, "zero")' /\ Carries(sw.fric_out0, "zero")'
    BY <2>1, <2>2, <2>5, BusMoves
  <2>10. Carries(sw.fric_inr[mx.port], "zero")'
    BY <2>1, <2>3, <2>5, ClientOut
  <2>11. m'.fos = "wr_ack" /\ sw'.mp = "wdat0" /\ m'.fis = "idle" /\ Carries(m.fric_out, "high")'
    BY <2>1, <2>2, <2>9, MasterStep, MasterReceives, SwitchStep, MxStep
       DEF Selected, Bus, Carries, Kind, Read, Write, ReadAck, WriteAck
  <2>12. Bus("wr_ack", "high", "low", "wdat0", "addr", "zero", "zero", "zero", "idle")'
    BY <2>9, <2>10, <2>11 DEF Bus
  <2> QED
    BY <2>3, <2>7, <2>4, <2>8, <2>12 DEF Write4
<1>4. ASSUME Write4 PROVE Write5'
  <2>1. Selected(Write) /\ Transfer(Write) /\ Requested /\ mx.type = Write
    BY <1>4 DEF Write4, Selected, Transfer
  <2>2. Bus("wr_ack", "high", "low", "wdat0", "addr", "zero", "zero", "zero", "idle")
    BY <1>4 DEF Write4
  <2>3. (Slave("forwarded", "idle", "idle", "zero") \/ Xactor("addr", "idle", "zero")) /\ served = <<>>
    BY <1>4 DEF Write4
  <2>4. served' = served /\ Answer' = Answer
    BY <2>1, <2>2, <2>3, ServedStays
  <2>5. \A kind : Kept(kind)
    BY <2>4 DEF Kept
  <2>6. sw.fric_out[mx.port] = mx.addr
    BY <2>1, <2>2, <2>3 DEF Bus, Carries, Kind
  <2>7. Selected(Write)'
    BY <2>1, <2>2, <2>3, TransferStep, Selection, BusStep, MxStep, MxAt
       DEF Selected, Transfer, Bus, Carries, Kind
  <2>8. (Slave("addr", "wr_adr", "idle", "zero") \/ Xactor("lo", "idle", "zero"))'
    BY <2>1, <2>3, <2>6, <2>4, Clients, SlaveMoves, XactorMoves
  <2>9. /\ Carries(sw.fric_inr0, "high")' /\ Carries(sw.fric_out[mx.port], "low")'
        /\ Carries(m.fric_inr, "zero")' /\ Carries(sw.fric_out0, "zero")'
    BY <2>1, <2>2, <2>5, BusMoves
  <2>10. Carries(sw.fric_inr[mx.port], "zero")'
    BY <2>1, <2>3, <2>5, ClientOut
  <2>11. m'.fos = "wr_ack" /\ sw'.mp = "wdat1" /\ m'.fis = "idle" /\ Carries(m.fric_out, "zero")'
    BY <2>1, <2>2, <2>9, MasterStep, MasterReceives, SwitchStep, MxStep
       DEF Selected, Bus, Carries, Kind, Read, Write, ReadAck, WriteAck
  <2>12. Bus("wr_ack", "zero", "high", "wdat1", "low", "zero", "zero", "zero", "idle")'
    BY <2>9, <2>10, <2>11 DEF Bus
  <2> QED
    BY <2>3, <2>7, <2>4, <2>8, <2>12 DEF Write5
<1>5. ASSUME Write5 PROVE Write6'
  <2>1. Selected(Write) /\ Transfer(Write) /\ Requested /\ mx.type = Write
    BY <1>5 DEF Write5, Selected, Transfer
  <2>2. Bus("wr_ack", "zero", "high", "wdat1", "low", "zero", "zero", "zero", "idle")
    BY <1>5 DEF Write5
  <2>3. (Slave("addr", "wr_adr", "idle", "zero") \/ Xactor("lo", "idle", "zero")) /\ served = <<>>
    BY <1>5 DEF Write5
  <2>4. served' = served /\ Answer' = Answer
    BY <2>1, <2>2, <2>3, ServedStays
  <2>5. \A kind : Kept(kind)
    BY <2>4 DEF Kept
  <2>6. sw.fric_out[mx.port] = Lo(mx.wdat)
    BY <2>1, <2>2, <2>3 DEF Bus, Carries, Kind
  <2>7. Selected(Write)'
    BY <2>1, <2>2, <2>3, TransferStep, Selection, BusStep, MxStep, MxAt
       DEF Selected, Transfer, Bus, Carries, Kind
  <2>8. (Slave("low", "wr_da0", "wr_adr", "ack") \/ Xactor("hi", "idle", "zero"))'
    BY <2>1, <2>3, <2>6, <2>4, Clients, SlaveMoves, XactorMoves
  <2>9. /\ Carries(sw.fric_inr0, "zero")' /\ Carries(sw.fric_out[mx.port], "high")'
        /\ Carries(m.fric_inr, "zero")' /\ Carries(sw.fric_out0, "zero")'
    BY <2>1, <2>2, <2>5, BusMoves
  <2>10. Carries(sw.fric_inr[mx.port], "zero")'
    BY <2>1, <2>3, <2>5, ClientOut
  <2>11. m'.fos = "wr_ack" /\ sw'.mp = "wack" /\ m'.fis = "idle" /\ Carries(m.fric_out, "zero")'
    BY <2>1, <2>2, <2>9, MasterStep, MasterReceives, SwitchStep, MxStep
       DEF Selected, Bus, Carries, Kind, Read, Write, ReadAck, WriteAck
  <2>12. Bus("wr_ack", "zero", "zero", "wack", "high", "zero", "zero", "zero", "idle")'
    BY <2>9, <2>10, <2>11 DEF Bus
  <2> QED
    BY <2>3, <2>7, <2>4, <2>8, <2>12 DEF Write6
<1>6. ASSUME Write6 PROVE (Write7 \/ WriteAck1)'
  <2>1. Selected(Write) /\ Transfer(Write) /\ Requested /\ mx.type = Write
    BY <1>6 DEF Write6, Selected, Transfer
  <2>2. Bus("wr_ack", "zero", "zero", "wack", "high", "zero", "zero", "zero", "idle")
    BY <1>6 DEF Write6
  <2>3. ASSUME Slave("low", "wr_da0", "wr_adr", "ack"), served = <<>> PROVE WriteAck1'
    <3>1. served' = served /\ Answer' = Answer
      BY <2>1, <2>2, <2>3, ServedStays
    <3>2. \A kind : Kept(kind)
      BY <3>1 DEF Kept
    <3>3. sw.fric_out[mx.port] = Hi(mx.wdat)
      BY <2>1, <2>2, <2>3 DEF Bus, Carries, Kind
    <3>4. Selected(Write)'
      BY <2>1, <2>2, <2>3, TransferStep, Selection, BusStep, MxStep, MxAt
         DEF Selected, Transfer, Bus, Carries, Kind
    <3>5. Slave("high", "wr_da1", "idle", "any")'
      BY <2>1, <2>3, <3>3, <3>1, Clients, SlaveMoves
    <3>6. /\ Carries(sw.fric_inr0, "zero")' /\ Carries(sw.fric_out[mx.port], "zero")'
          /\ Carries(m.fric_inr, "zero")' /\ sw'.mp = "wack" /\ Carries(sw.fric_out0, "zero")'
      BY <2>1, <2>2, <3>2, BusMoves
    <3>7. Carries(sw.fric_inr[mx.port], "ack")'
      BY <2>1, <2>3, <3>2, ClientOut
    <3>8. m'.fos = "wr_ack" /\ sw'.mp = "wack" /\ m'.fis = "idle" /\ Carries(m.fric_out, "zero")'
      BY <2>1, <2>2, <3>6, MasterStep, MasterReceives, SwitchStep, MxStep
         DEF Selected, Bus, Carries, Kind, Read, Write, ReadAck, WriteAck
    <3>9. Bus("wr_ack", "zero", "zero", "wack", "zero", "ack", "zero", "zero", "idle")'
      BY <3>6, <3>7, <3>8 DEF Bus
    <3> QED
      BY <2>3, <3>4, <3>1, <3>5, <3>9 DEF WriteAck1
  <2>4. ASSUME Xactor("hi", "idle", "zero"), served = <<>> PROVE Write7'
    <3>1. served' = served /\ Answer' = Answer
      BY <2>1, <2>2, <2>4, ServedStays
    <3>2. \A kind : Kept(kind)
      BY <3>1 DEF Kept
    <3>3. sw.fric_out[mx.port] = Hi(mx.wdat)
      BY <2>1, <2>2, <2>4 DEF Bus, Carries, Kind
    <3>4. Selected(Write)'
      BY <2>1, <2>2, <2>4, TransferStep, Selection, BusStep, MxStep, MxAt
         DEF Selected, Transfer, Bus, Carries, Kind
    <3>5. Xactor("end", "idle", "zero")'
      BY <2>1, <2>4, <3>3, <3>1, Clients, XactorMoves
    <3>6. /\ Carries(sw.fric_inr0, "zero")' /\ Carries(sw.fric_out[mx.port], "zero")'
          /\ Carries(m.fric_inr, "zero")' /\ sw'.mp = "wack" /\ Carries(sw.fric_out0, "zero")'
      BY <2>1, <2>2, <3>2, BusMoves
    <3>7. Carries(sw.fric_inr[mx.port], "zero")'
      BY <2>1, <2>4, <3>2, ClientOut
    <3>8. m'.fos = "wr_ack" /\ sw'.mp = "wack" /\ m'.fis = "idle" /\ Carries(m.fric_out, "zero")'
      BY <2>1, <2>2, <3>6, MasterStep, MasterReceives, SwitchStep, MxStep
         DEF Selected, Bus, Carries, Kind, Read, Write, ReadAck, WriteAck
    <3>9. Bus("wr_ack", "zero", "zero", "wack", "zero", "zero", "zero", "zero", "idle")'
      BY <3>6, <3>7, <3>8 DEF Bus
    <3> QED
      BY <2>4, <3>4, <3>1, <3>5, <3>9 DEF Write7
  <2> QED
    BY <1>6, <2>3, <2>4 DEF Write6
<1>7. ASSUME Write7 PROVE WriteWait'
  <2>1. Selected(Write) /\ Transfer(Write) /\ Requested /\ mx.type = Write
    BY <1>7 DEF Write7, Selected, Transfer
  <2>2. Bus("wr_ack", "zero", "zero", "wack", "zero", "zero", "zero", "zero", "idle")
    BY <1>7 DEF Write7
  <2>3. Xactor("end", "idle", "zero") /\ served = <<>>
    BY <1>7 DEF Write7
  <2>4. served' = served /\ Answer' = Answer
    BY <2>1, <2>2, <2>3, ServedStays
  <2>5. \A kind : Kept(kind)
    BY <2>4 DEF Kept
  <2>6. sw.fric_out[mx.port] = 0
    BY <2>1, <2>2, <2>3 DEF Bus, Carries, Kind
  <2>7. Selected(Write)'
    BY <2>1, <2>2, <2>3, TransferStep, Selection, BusStep, MxStep, MxAt
       DEF Selected, Transfer, Bus, Carries, Kind
  <2>8. XactorWaits'
    BY <2>1, <2>3, <2>6, <2>4, Clients, XactorMoves
  <2>9. /\ Carries(sw.fric_inr0, "zero")' /\ Carries(sw.fric_out[mx.port], "zero")'
        /\ Carries(m.fric_inr, "zero")' /\ sw'.mp = "wack" /\ Carries(sw.fric_out0, "zero")'
    BY <2>1, <2>2, <2>5, BusMoves
  <2>10. Carries(sw.fric_inr[mx.port], "zero")'
    BY <2>1, <2>3, <2>5, ClientOut
  <2>11. m'.fos = "wr_ack" /\ sw'.mp = "wack" /\ m'.fis = "idle" /\ Carries(m.fric_out, "zero")'
    BY <2>1, <2>2, <2>9, MasterStep, MasterReceives, SwitchStep, MxStep
       DEF Selected, Bus, Carries, Kind, Read, Write, ReadAck, WriteAck
  <2>12. Bus("wr_ack", "zero", "zero", "wack", "zero", "zero", "zero", "zero", "idle")'
    BY <2>9, <2>10, <2>11 DEF Bus
  <2> QED
    BY <2>3, <2>7, <2>4, <2>8, <2>12 DEF WriteWait
<1>8. ASSUME WriteWait PROVE (WriteWait \/ WriteAck1)'
  <2>1. Selected(Write) /\ Transfer(Write) /\ Requested /\ mx.type = Write
    BY <1>8 DEF WriteWait, Selected, Transfer
  <2>2. Bus("wr_ack", "zero", "zero", "wack", "zero", "zero", "zero", "zero", "idle")
    BY <1>8 DEF WriteWait
  <2>3. ASSUME XactorWaits, served = <<>> PROVE WriteWait'
    <3>1. served' = served /\ Answer' = Answer
      BY <2>1, <2>2, <2>3, ServedStays
    <3>2. \A kind : Kept(kind)
      BY <3>1 DEF Kept
    <3>3. sw.fric_out[mx.port] = 0
      BY <2>1, <2>2, <2>3 DEF Bus, Carries, Kind
    <3>4. Selected(Write)'
      BY <2>1, <2>2, <2>3, TransferStep, Selection, BusStep, MxStep, MxAt
         DEF Selected, Transfer, Bus, Carries, Kind
    <3>5. XactorWaits'
      BY <2>1, <2>3, <3>3, <3>1, Clients, XactorMoves
    <3>6. /\ Carries(sw.fric_inr0, "zero")' /\ Carries(sw.fric_out[mx.port], "zero")'
          /\ Carries(m.fric_inr, "zero")' /\ sw'.mp = "wack" /\ Carries(sw.fric_out0, "zero")'
      BY <2>1, <2>2, <3>2, BusMoves
    <3>7. Carries(sw.fric_inr[mx.port], "zero")'
      BY <2>1, <2>3, <3>2, ClientOut
    <3>8. m'.fos = "wr_ack" /\ sw'.mp = "wack" /\ m'.fis = "idle" /\ Carries(m.fric_out, "zero")'
      BY <2>1, <2>2, <3>6, MasterStep, MasterReceives, SwitchStep, MxStep
         DEF Selected, Bus, Carries, Kind, Read, Write, ReadAck, WriteAck
    <3>9. Bus("wr_ack", "zero", "zero", "wack", "zero", "zero", "zero", "zero", "idle")'
      BY <3>6, <3>7, <3>8 DEF Bus
    <3> QED
      BY <2>3, <3>4, <3>1, <3>5, <3>9 DEF WriteWait
  <2>4. ASSUME Xactor("idle", "header", "ack"), served # <<>> PROVE WriteAck1'
    <3>1. served' = served /\ Answer' = Answer
      BY <2>1, <2>2, <2>4, ServedStays
    <3>2. \A kind : Kept(kind)
      BY <3>1 DEF Kept
    <3>3. sw.fric_out[mx.port] = 0
      BY <2>1, <2>2, <2>4 DEF Bus, Carries, Kind
    <3>4. Selected(Write)'
      BY <2>1, <2>2, <2>4, TransferStep, Selection, BusStep, MxStep, MxAt
         DEF Selected, Transfer, Bus, Carries, Kind
    <3>5. Xactor("idle", "last", "any")'
      BY <2>1, <2>4, <3>3, <3>1, Clients, XactorMoves
    <3>6. /\ Carries(sw.fric_inr0, "zero")' /\ Carries(sw.fric_out[mx.port], "zero")'
          /\ Carries(m.fric_inr, "zero")' /\ sw'.mp = "wack" /\ Carries(sw.fric_out0, "zero")'
      BY <2>1, <2>2, <3>2, BusMoves
    <3>7. Carries(sw.fric_inr[mx.port], "ack")'
      BY <2>1, <2>4, <3>2, ClientOut
    <3>8. m'.fos = "wr_ack" /\ sw'.mp = "wack" /\ m'.fis = "idle" /\ Carries(m.fric_out, "zero")'
      BY <2>1, <2>2, <3>6, MasterStep, MasterReceives, SwitchStep, MxStep
         DEF Selected, Bus, Carries, Kind, Read, Write, ReadAck, WriteAck
    <3>9. Bus("wr_ack", "zero", "zero", "wack", "zero", "ack", "zero", "zero", "idle")'
      BY <3>6, <3>7, <3>8 DEF Bus
    <3> QED
      BY <2>4, <3>4, <3>1, <3>5, <3>9 DEF WriteAck1
  <2> QED
    BY <1>8, <2>3, <2>4 DEF WriteWait
<1>9. ASSUME WriteAck1 PROVE WriteAck2'
  <2>1. Selected(Write) /\ Transfer(Write) /\ Requested /\ mx.type = Write
    BY <1>9 DEF WriteAck1, Selected, Transfer
  <2>2. Bus("wr_ack", "zero", "zero", "wack", "zero", "ack", "zero", "zero", "idle")
    BY <1>9 DEF WriteAck1
  <2>3. ASSUME Slave("high", "wr_da1", "idle", "any"), served = <<>> PROVE WriteAck2'
    <3>1. served' = served /\ Answer' = Answer
      BY <2>1, <2>2, <2>3, ServedStays
    <3>2. \A kind : Kept(kind)
      BY <3>1 DEF Kept
    <3>3. sw.fric_out[mx.port] = 0
      BY <2>1, <2>2, <2>3 DEF Bus, Carries, Kind
    <3>4. Selected(Write)'
      BY <2>1, <2>2, <2>3, TransferStep, Selection, BusStep, MxStep, MxAt
         DEF Selected, Transfer, Bus, Carries, Kind
    <3>5. SlaveStrobes'
      BY <2>1, <2>3, <3>3, <3>1, Clients, SlaveMoves
    <3>6. /\ Carries(sw.fric_inr0, "zero")' /\ Carries(sw.fric_out[mx.port], "zero")'
          /\ Carries(m.fric_inr, "zero")' /\ sw'.mp = "rep_adr" /\ Carries(sw.fric_out0, "named_ack")'
      BY <2>1, <2>2, <3>2, BusMoves
    <3>7. Carries(sw.fric_inr[mx.port], "any")'
      BY <2>1, <2>3, <3>2, ClientOut
    <3>8. m'.fos = "wr_ack" /\ sw'.mp = "rep_adr" /\ m'.fis = "idle" /\ Carries(m.fric_out, "zero")'
      BY <2>1, <2>2, <3>6, MasterStep, MasterReceives, SwitchStep, MxStep
         DEF Selected, Bus, Carries, Kind, Read, Write, ReadAck, WriteAck
    <3>9. Bus("wr_ack", "zero", "zero", "rep_adr", "zero", "any", "named_ack", "zero", "idle")'
      BY <3>6, <3>7, <3>8 DEF Bus
    <3> QED
      BY <2>3, <3>4, <3>1, <3>5, <3>9 DEF WriteAck2
  <2>4. ASSUME Xactor("idle", "last", "any"), served # <<>> PROVE WriteAck2'
    <3>1. served' = served /\ Answer' = Answer
      BY <2>1, <2>2, <2>4, ServedStays
    <3>2. \A kind : Kept(kind)
      BY <3>1 DEF Kept
    <3>3. sw.fric_out[mx.port] = 0
      BY <2>1, <2>2, <2>4 DEF Bus, Carries, Kind
    <3>4. Selected(Write)'
      BY <2>1, <2>2, <2>4, TransferStep, Selection, BusStep, MxStep, MxAt
         DEF Selected, Transfer, Bus, Carries, Kind
    <3>5. Rests'
      BY <2>1, <2>4, <3>3, <3>1, Clients, XactorMoves
    <3>6. /\ Carries(sw.fric_inr0, "zero")' /\ Carries(sw.fric_out[mx.port], "zero")'
          /\ Carries(m.fric_inr, "zero")' /\ sw'.mp = "rep_adr" /\ Carries(sw.fric_out0, "named_ack")'
      BY <2>1, <2>2, <3>2, BusMoves
    <3>7. Carries(sw.fric_inr[mx.port], "any")'
      BY <2>1, <2>4, <3>2, ClientOut
    <3>8. m'.fos = "wr_ack" /\ sw'.mp = "rep_adr" /\ m'.fis = "idle" /\ Carries(m.fric_out, "zero")'
      BY <2>1, <2>2, <3>6, MasterStep, MasterReceives, SwitchStep, MxStep
         DEF Selected, Bus, Carries, Kind, Read, Write, ReadAck, WriteAck
    <3>9. Bus("wr_ack", "zero", "zero", "rep_adr", "zero", "any", "named_ack", "zero", "idle")'
      BY <3>6, <3>7, <3>8 DEF Bus
    <3> QED
      BY <2>4, <3>4, <3>1, <3>5, <3>9 DEF WriteAck2
  <2> QED
    BY <1>9, <2>3, <2>4 DEF WriteAck1
<1>10. ASSUME WriteAck2 PROVE WriteAck3'
  <2>1. Selected(Write) /\ Transfer(Write) /\ Requested /\ mx.type = Write
    BY <1>10 DEF WriteAck2, Selected, Transfer
  <2>2. Bus("wr_ack", "zero", "zero", "rep_adr", "zero", "any", "named_ack", "zero", "idle")
    BY <1>10 DEF WriteAck2
  <2>3. ASSUME SlaveStrobes, served = <<>> PROVE WriteAck3'
    <3>1. \A kind \in {"zero", "any", "named_ack"} : Kept(kind)
      BY DEF Kept
    <3>2. served' # <<>>
      BY <2>1, <2>2, <2>3, ServeStep, Clients
    <3>3. sw.fric_out[mx.port] = 0
      BY <2>1, <2>2, <2>3 DEF Bus, Carries, Kind
    <3>4. Selected(Write)'
      BY <2>1, <2>2, <2>3, TransferStep, Selection, BusStep, MxStep, MxAt
         DEF Selected, Transfer, Bus, Carries, Kind
    <3>5. Rests'
      BY <2>1, <2>3, <3>3, <3>2, Clients, SlaveMoves
    <3>6. /\ Carries(sw.fric_inr0, "zero")' /\ Carries(sw.fric_out[mx.port], "zero")'
          /\ Carries(m.fric_inr, "named_ack")' /\ Carries(sw.fric_out0, "any")'
      BY <2>1, <2>2, <3>1, BusMoves
    <3>7. Carries(sw.fric_inr[mx.port], "zero")'
      BY <2>1, <2>3, <3>1, ClientOut
    <3>8. m'.fos = "wr_ack" /\ sw'.mp = "idle" /\ m'.fis = "idle" /\ Carries(m.fric_out, "zero")'
      BY <2>1, <2>2, <3>6, MasterStep, MasterReceives, SwitchStep, MxStep
         DEF Selected, Bus, Carries, Kind, Read, Write, ReadAck, WriteAck
    <3>9. Bus("wr_ack", "zero", "zero", "idle", "zero", "zero", "any", "named_ack", "idle")'
      BY <3>6, <3>7, <3>8 DEF Bus
    <3> QED
      BY <2>3, <3>4, <3>2, <3>5, <3>9 DEF WriteAck3
  <2>4. ASSUME Rests, served # <<>> PROVE WriteAck3'
    <3>1. served' = served /\ Answer' = Answer
      BY <2>1, <2>2, <2>4, ServedStays
    <3>2. \A kind : Kept(kind)
      BY <3>1 DEF Kept
    <3>3. sw.fric_out[mx.port] = 0
      BY <2>1, <2>2, <2>4 DEF Bus, Carries, Kind
    <3>4. Selected(Write)'
      BY <2>1, <2>2, <2>4, TransferStep, Selection, BusStep, MxStep, MxAt
         DEF Selected, Transfer, Bus, Carries, Kind
    <3>5. Rests'
      BY <2>1, <2>4, <3>3, <3>1, Clients, RestsStep
    <3>6. /\ Carries(sw.fric_inr0, "zero")' /\ Carries(sw.fric_out[mx.port], "zero")'
          /\ Carries(m.fric_inr, "named_ack")' /\ Carries(sw.fric_out0, "any")'
      BY <2>1, <2>2, <3>2, BusMoves
    <3>7. Carries(sw.fric_inr[mx.port], "zero")'
      BY <2>1, <2>4, <3>2, ClientOut
    <3>8. m'.fos = "wr_ack" /\ sw'.mp = "idle" /\ m'.fis = "idle" /\ Carries(m.fric_out, "zero")'
      BY <2>1, <2>2, <3>6, MasterStep, MasterReceives, SwitchStep, MxStep
         DEF Selected, Bus, Carries, Kind, Read, Write, ReadAck, WriteAck
    <3>9. Bus("wr_ack", "zero", "zero", "idle", "zero", "zero", "any", "named_ack", "idle")'
      BY <3>6, <3>7, <3>8 DEF Bus
    <3> QED
      BY <2>4, <3>4, <3>1, <3>5, <3>9 DEF WriteAck3
  <2> QED
    BY <1>10, <2>3, <2>4 DEF WriteAck2
<1>11. ASSUME WriteAck3 PROVE WriteAck4'
  <2>1. Selected(Write) /\ Transfer(Write) /\ Requested /\ mx.type = Write
    BY <1>11 DEF WriteAck3, Selected, Transfer
  <2>2. Bus("wr_ack", "zero", "zero", "idle", "zero", "zero", "any", "named_ack", "idle")
    BY <1>11 DEF WriteAck3
  <2>3. Rests /\ served # <<>>
    BY <1>11 DEF WriteAck3
  <2>4. served' = served /\ Answer' = Answer
    BY <2>1, <2>2, <2>3, ServedStays
  <2>5. \A kind : Kept(kind)
    BY <2>4 DEF Kept
  <2>6. sw.fric_out[mx.port] = 0
    BY <2>1, <2>2, <2>3 DEF Bus, Carries, Kind
  <2>7. Selected(Write)'
    BY <2>1, <2>2, <2>3, TransferStep, Selection, BusStep, MxStep, MxAt
       DEF Selected, Transfer, Bus, Carries, Kind
  <2>8. Rests'
    BY <2>1, <2>3, <2>6, <2>4, Clients, RestsStep
  <2>9. /\ Carries(sw.fric_inr0, "zero")' /\ Carries(sw.fric_out[mx.port], "zero")'
        /\ Carries(m.fric_inr, "any")' /\ sw'.mp = "idle" /\ Carries(sw.fric_out0, "zero")'
    BY <2>1, <2>2, <2>5, BusMoves
  <2>10. Carries(sw.fric_inr[mx.port], "zero")'
    BY <2>1, <2>3, <2>5, ClientOut
  <2>11. m'.fos = "wr_ack" /\ sw'.mp = "idle" /\ m'.fis = "wr_ack" /\ Carries(m.fric_out, "zero")'
    BY <2>1, <2>2, <2>9, MasterStep, MasterReceives, SwitchStep, MxStep
       DEF Selected, Bus, Carries, Kind, Read, Write, ReadAck, WriteAck
  <2>12. Bus("wr_ack", "zero", "zero", "idle", "zero", "zero", "zero", "any", "wr_ack")'
    BY <2>9, <2>10, <2>11 DEF Bus
  <2> QED
    BY <2>3, <2>7, <2>4, <2>8, <2>12 DEF WriteAck4
<1>12. ASSUME WriteAck4 PROVE Idle'
  <2>1. Selected(Write) /\ Transfer(Write) /\ Requested /\ mx.type = Write
    BY <1>12 DEF WriteAck4, Selected, Transfer
  <2>2. Bus("wr_ack", "zero", "zero", "idle", "zero", "zero", "zero", "any", "wr_ack")
    BY <1>12 DEF WriteAck4
  <2>3. Rests /\ served # <<>>
    BY <1>12 DEF WriteAck4
  <2>4. Still'
    BY <2>1, <2>2, <2>3, StillStep DEF Bus, Carries, Kind
  <2> QED
    BY <2>1, <2>2, <2>4, MxStep, MxAt, MasterStep DEF Idle, Bus, Transfer
<1> QED
  BY <1>1, <1>2, <1>3, <1>4, <1>5, <1>6, <1>7, <1>8, <1>9, <1>10, <1>11, <1>12

\* Each stage of a read is followed by the next one.
LEMMA ReadStages ==
    ASSUME Shape, Clock
    PROVE  /\ Read1 => Read2'
           /\ Read2 => Read3'
           /\ Read3 => Read4'
           /\ Read4 => Read5'
           /\ Read5 => ReadWait'
           /\ ReadWait => (ReadWait \/ ReadAck1)'
           /\ ReadAck1 => ReadAck2'
           /\ ReadAck2 => ReadAck3'
           /\ ReadAck3 => ReadAck4'
           /\ ReadAck4 => ReadAck5'
           /\ ReadAck5 => ReadAck6'
           /\ ReadAck6 => Reply'
<1>1. ASSUME Read1 PROVE Read2'
  <2>1. Transfer(Read) /\ Requested /\ mx.type = Read
    BY <1>1 DEF Read1, Transfer
  <2>2. Bus("rd_adr", "request", "zero", "idle", "zero", "zero", "zero", "zero", "idle")
    BY <1>1 DEF Read1
  <2>3. Rests /\ served = <<>>
    BY <1>1 DEF Read1
  <2>4. Transfer(Read)'
    BY <2>1, <2>2, TransferStep, Selection, BusStep, MxStep, MxAt
       DEF Selected, Transfer, Bus, Carries, Kind
  <2>5. Rests'
    BY <2>1, <2>2, <2>3, RestsStep DEF Bus, Carries, Kind
  <2>6. served' = <<>>
    BY <2>1, <2>3, ServedStays
  <2>7. Bus("rd_ack", "addr", "request", "idle", "zero", "zero", "zero", "zero", "idle")'
    <3>1. \A q \in Ports : sw.fric_inr[q] = 0
      BY <2>1, <2>2 DEF Transfer, Resting, Bus, Carries, Kind
    <3>2. sw'.mp = "idle" /\ sw'.fric_out[mx.port] = 0 /\ sw'.fric_out0 = 0
      BY <2>1, <2>2, <3>1, IdleSwitch DEF Bus, Carries, Kind, Requested
    <3> QED
      BY <2>1, <2>2, <2>3, <3>2, BusStep, SwitchStep, MasterStep, MasterReceives, MxStep
         DEF Bus, Carries, Kind, Rests, ClientRests
  <2> QED
    BY <2>4, <2>5, <2>6, <2>7 DEF Read2
<1>2. ASSUME Read2 PROVE Read3'
  <2>1. Transfer(Read) /\ Requested /\ mx.type = Read
    BY <1>2 DEF Read2, Transfer
  <2>2. Bus("rd_ack", "addr", "request", "idle", "zero", "zero", "zero", "zero", "idle")
    BY <1>2 DEF Read2
  <2>3. Rests /\ served = <<>>
    BY <1>2 DEF Read2
  <2>4. Selected(Read)'
    BY <2>1, <2>2, TransferStep, Selection, BusStep, MxStep, MxAt
       DEF Selected, Transfer, Bus, Carries, Kind
  <2>5. Rests'
    BY <2>1, <2>2, <2>3, RestsStep DEF Bus, Carries, Kind
  <2>6. served' = <<>>
    BY <2>1, <2>3, ServedStays
  <2>7. Bus("rd_ack", "zero", "addr", "req_adr", "forwarded", "zero", "zero", "zero", "idle")'
    BY <2>1, <2>2, <2>3, BusStep, SwitchStep, MasterStep, MasterReceives, MxStep
       DEF Bus, Carries, Kind, Read, Write, Rests, ClientRests
  <2> QED
    BY <2>4, <2>5, <2>6, <2>7 DEF Read3
<1>3. ASSUME Read3 PROVE Read4'
  <2>1. Selected(Read) /\ Transfer(Read) /\ Requested /\ mx.type = Read
    BY <1>3 DEF Read3, Selected, Transfer
  <2>2. Bus("rd_ack", "zero", "addr", "req_adr", "forwarded", "zero", "zero", "zero", "idle")
    BY <1>3 DEF Read3
  <2>3. Rests /\ served = <<>>
    BY <1>3 DEF Read3
  <2>4. served' = served /\ Answer' = Answer
    BY <2>1, <2>2, <2>3, ServedStays
  <2>5. \A kind : Kept(kind)
    BY <2>4 DEF Kept
  <2>6. Carries(sw.fric_out[mx.port], "forwarded")
    BY <2>1, <2>2, <2>3 DEF Bus, Carries, Kind
  <2>7. Selected(Read)'
    BY <2>1, <2>2, <2>3, TransferStep, Selection, BusStep, MxStep, MxAt
       DEF Selected, Transfer, Bus, Carries, Kind
  <2>8. (Slave("forwarded", "idle", "idle", "zero") \/ Xactor("addr", "idle", "zero"))'
    BY <2>1, <2>3, <2>6, <2>4, Clients, SlaveMoves, XactorMoves
  <2>9. /\ Carries(sw.fric_inr0, "zero")' /\ Carries(sw.fric_out[mx.port], "addr")'
        /\ Carries(m.fric_inr, "zero")' /\ Carries(sw.fric_out0, "zero")'
    BY <2>1, <2>2, <2>5, BusMoves
  <2>10. Carries(sw.fric_inr[mx.port], "zero")'
    BY <2>1, <2>3, <2>5, ClientOut
  <2>11. m'.fos = "rd_ack" /\ sw'.mp = "wack" /\ m'.fis = "idle" /\ Carries(m.fric_out, "zero")'
    BY <2>1, <2>2, <2>9, MasterStep, MasterReceives, SwitchStep, MxStep
       DEF Selected, Bus, Carries, Kind, Read, Write, ReadAck, WriteAck
  <2>12. Bus("rd_ack", "zero", "zero", "wack", "addr", "zero", "zero", "zero", "idle")'
    BY <2>9, <2>10, <2>11 DEF Bus
  <2> QED
    BY <2>3, <2>7, <2>4, <2>8, <2>12 DEF Read4
<1>4. ASSUME Read4 PROVE Read5'
  <2>1. Selected(Read) /\ Transfer(Read) /\ Requested /\ mx.type = Read
    BY <1>4 DEF Read4, Selected, Transfer
  <2>2. Bus("rd_ack", "zero", "zero", "wack", "addr", "zero", "zero", "zero", "idle")
    BY <1>4 DEF Read4
  <2>3. (Slave("forwarded", "idle", "idle", "zero") \/ Xactor("addr", "idle", "zero")) /\ served = <<>>
    BY <1>4 DEF Read4
  <2>4. served' = served /\ Answer' = Answer
    BY <2>1, <2>2, <2>3, ServedStays
  <2>5. \A kind : Kept(kind)
    BY <2>4 DEF Kept
  <2>6. sw.fric_out[mx.port] = mx.addr
    BY <2>1, <2>2, <2>3 DEF Bus, Carries, Kind
  <2>7. Selected(Read)'
    BY <2>1, <2>2, <2>3, TransferStep, Selection, BusStep, MxStep, MxAt
       DEF Selected, Transfer, Bus, Carries, Kind
  <2>8. (Slave("addr", "rd_adr", "idle", "zero") \/ Xactor("end", "idle", "zero"))'
    BY <2>1, <2>3, <2>6, <2>4, Clients, SlaveMoves, XactorMoves
  <2>9. /\ Carries(sw.fric_inr0, "zero")' /\ Carries(sw.fric_out[mx.port], "zero")'
        /\ Carries(m.fric_inr, "zero")' /\ sw'.mp = "wack" /\ Carries(sw.fric_out0, "zero")'
    BY <2>1, <2>2, <2>5, BusMoves
  <2>10. Carries(sw.fric_inr[mx.port], "zero")'
    BY <2>1, <2>3, <2>5, ClientOut
  <2>11. m'.fos = "rd_ack" /\ sw'.mp = "wack" /\ m'.fis = "idle" /\ Carries(m.fric_out, "zero")'
    BY <2>1, <2>2, <2>9, MasterStep, MasterReceives, SwitchStep, MxStep
       DEF Selected, Bus, Carries, Kind, Read, Write, ReadAck, WriteAck
  <2>12. Bus("rd_ack", "zero", "zero", "wack", "zero", "zero", "zero", "zero", "idle")'
    BY <2>9, <2>10, <2>11 DEF Bus
  <2> QED
    BY <2>3, <2>7, <2>4, <2>8, <2>12 DEF Read5
<1>5. ASSUME Read5 PROVE ReadWait'
  <2>1. Selected(Read) /\ Transfer(Read) /\ Requested /\ mx.type = Read
    BY <1>5 DEF Read5, Selected, Transfer
  <2>2. Bus("rd_ack", "zero", "zero", "wack", "zero", "zero", "zero", "zero", "idle")
    BY <1>5 DEF Read5
  <2>3. ASSUME Slave("addr", "rd_adr", "idle", "zero"), served = <<>> PROVE ReadWait'
    <3>1. served' = served /\ Answer' = Answer
      BY <2>1, <2>2, <2>3, ServedStays
    <3>2. \A kind : Kept(kind)
      BY <3>1 DEF Kept
    <3>3. sw.fric_out[mx.port] = 0
      BY <2>1, <2>2, <2>3 DEF Bus, Carries, Kind
    <3>4. Selected(Read)'
      BY <2>1, <2>2, <2>3, TransferStep, Selection, BusStep, MxStep, MxAt
         DEF Selected, Transfer, Bus, Carries, Kind
    <3>5. Slave("zero", "idle", "rd_adr", "ack")'
      BY <2>1, <2>3, <3>3, <3>1, Clients, SlaveMoves
    <3>6. /\ Carries(sw.fric_inr0, "zero")' /\ Carries(sw.fric_out[mx.port], "zero")'
          /\ Carries(m.fric_inr, "zero")' /\ sw'.mp = "wack" /\ Carries(sw.fric_out0, "zero")'
      BY <2>1, <2>2, <3>2, BusMoves
    <3>7. Carries(sw.fric_inr[mx.port], "zero")'
      BY <2>1, <2>3, <3>2, ClientOut
    <3>8. m'.fos = "rd_ack" /\ sw'.mp = "wack" /\ m'.fis = "idle" /\ Carries(m.fric_out, "zero")'
      BY <2>1, <2>2, <3>6, MasterStep, MasterReceives, SwitchStep, MxStep
         DEF Selected, Bus, Carries, Kind, Read, Write, ReadAck, WriteAck
    <3>9. Bus("rd_ack", "zero", "zero", "wack", "zero", "zero", "zero", "zero", "idle")'
      BY <3>6, <3>7, <3>8 DEF Bus
    <3> QED
      BY <2>3, <3>4, <3>1, <3>5, <3>9 DEF ReadWait
  <2>4. ASSUME Xactor("end", "idle", "zero"), served = <<>> PROVE ReadWait'
    <3>1. served' = served /\ Answer' = Answer
      BY <2>1, <2>2, <2>4, ServedStays
    <3>2. \A kind : Kept(kind)
      BY <3>1 DEF Kept
    <3>3. sw.fric_out[mx.port] = 0
      BY <2>1, <2>2, <2>4 DEF Bus, Carries, Kind
    <3>4. Selected(Read)'
      BY <2>1, <2>2, <2>4, TransferStep, Selection, BusStep, MxStep, MxAt
         DEF Selected, Transfer, Bus, Carries, Kind
    <3>5. XactorWaits'
      BY <2>1, <2>4, <3>3, <3>1, Clients, XactorMoves
    <3>6. /\ Carries(sw.fric_inr0, "zero")' /\ Carries(sw.fric_out[mx.port], "zero")'
          /\ Carries(m.fric_inr, "zero")' /\ sw'.mp = "wack" /\ Carries(sw.fric_out0, "zero")'
      BY <2>1, <2>2, <3>2, BusMoves
    <3>7. Carries(sw.fric_inr[mx.port], "zero")'
      BY <2>1, <2>4, <3>2, ClientOut
    <3>8. m'.fos = "rd_ack" /\ sw'.mp = "wack" /\ m'.fis = "idle" /\ Carries(m.fric_out, "zero")'
      BY <2>1, <2>2, <3>6, MasterStep, MasterReceives, SwitchStep, MxStep
         DEF Selected, Bus, Carries, Kind, Read, Write, ReadAck, WriteAck
    <3>9. Bus("rd_ack", "zero", "zero", "wack", "zero", "zero", "zero", "zero", "idle")'
      BY <3>6, <3>7, <3>8 DEF Bus
    <3> QED
      BY <2>4, <3>4, <3>1, <3>5, <3>9 DEF ReadWait
  <2> QED
    BY <1>5, <2>3, <2>4 DEF Read5
<1>6. ASSUME ReadWait PROVE (ReadWait \/ ReadAck1)'
  <2>1. Selected(Read) /\ Transfer(Read) /\ Requested /\ mx.type = Read
    BY <1>6 DEF ReadWait, Selected, Transfer
  <2>2. Bus("rd_ack", "zero", "zero", "wack", "zero", "zero", "zero", "zero", "idle")
    BY <1>6 DEF ReadWait
  <2>3. ASSUME XactorWaits, served = <<>> PROVE ReadWait'
    <3>1. served' = served /\ Answer' = Answer
      BY <2>1, <2>2, <2>3, ServedStays
    <3>2. \A kind : Kept(kind)
      BY <3>1 DEF Kept
    <3>3. sw.fric_out[mx.port] = 0
      BY <2>1, <2>2, <2>3 DEF Bus, Carries, Kind
    <3>4. Selected(Read)'
      BY <2>1, <2>2, <2>3, TransferStep, Selection, BusStep, MxStep, MxAt
         DEF Selected, Transfer, Bus, Carries, Kind
    <3>5. XactorWaits'
      BY <2>1, <2>3, <3>3, <3>1, Clients, XactorMoves
    <3>6. /\ Carries(sw.fric_inr0, "zero")' /\ Carries(sw.fric_out[mx.port], "zero")'
          /\ Carries(m.fric_inr, "zero")' /\ sw'.mp = "wack" /\ Carries(sw.fric_out0, "zero")'
      BY <2>1, <2>2, <3>2, BusMoves
    <3>7. Carries(sw.fric_inr[mx.port], "zero")'
      BY <2>1, <2>3, <3>2, ClientOut
    <3>8. m'.fos = "rd_ack" /\ sw'.mp = "wack" /\ m'.fis = "idle" /\ Carries(m.fric_out, "zero")'
      BY <2>1, <2>2, <3>6, MasterStep, MasterReceives, SwitchStep, MxStep
         DEF Selected, Bus, Carries, Kind, Read, Write, ReadAck, WriteAck
    <3>9. Bus("rd_ack", "zero", "zero", "wack", "zero", "zero", "zero", "zero", "idle")'
      BY <3>6, <3>7, <3>8 DEF Bus
    <3> QED
      BY <2>3, <3>4, <3>1, <3>5, <3>9 DEF ReadWait
  <2>4. ASSUME Slave("zero", "idle", "rd_adr", "ack"), served = <<>> PROVE ReadAck1'
    <3>1. \A kind \in {"zero", "any", "ack"} : Kept(kind)
      BY DEF Kept
    <3>2. served' # <<>>
      BY <2>1, <2>2, <2>4, ServeStep, Clients
    <3>3. sw.fric_out[mx.port] = 0
      BY <2>1, <2>2, <2>4 DEF Bus, Carries, Kind
    <3>4. Selected(Read)'
      BY <2>1, <2>2, <2>4, TransferStep, Selection, BusStep, MxStep, MxAt
         DEF Selected, Transfer, Bus, Carries, Kind
    <3>5. Slave("zero", "idle", "rd_da0", "any")'
      BY <2>1, <2>4, <3>3, <3>2, Clients, SlaveMoves
    <3>6. /\ Carries(sw.fric_inr0, "zero")' /\ Carries(sw.fric_out[mx.port], "zero")'
          /\ Carries(m.fric_inr, "zero")' /\ sw'.mp = "wack" /\ Carries(sw.fric_out0, "zero")'
      BY <2>1, <2>2, <3>1, BusMoves
    <3>7. Carries(sw.fric_inr[mx.port], "ack")'
      BY <2>1, <2>4, <3>1, ClientOut
    <3>8. m'.fos = "rd_ack" /\ sw'.mp = "wack" /\ m'.fis = "idle" /\ Carries(m.fric_out, "zero")'
      BY <2>1, <2>2, <3>6, MasterStep, MasterReceives, SwitchStep, MxStep
         DEF Selected, Bus, Carries, Kind, Read, Write, ReadAck, WriteAck
    <3>9. Bus("rd_ack", "zero", "zero", "wack", "zero", "ack", "zero", "zero", "idle")'
      BY <3>6, <3>7, <3>8 DEF Bus
    <3> QED
      BY <2>4, <3>4, <3>2, <3>5, <3>9 DEF ReadAck1
  <2>5. ASSUME Xactor("idle", "header", "ack"), served # <<>> PROVE ReadAck1'
    <3>1. served' = served /\ Answer' = Answer
      BY <2>1, <2>2, <2>5, ServedStays
    <3>2. \A kind : Kept(kind)
      BY <3>1 DEF Kept
    <3>3. sw.fric_out[mx.port] = 0
      BY <2>1, <2>2, <2>5 DEF Bus, Carries, Kind
    <3>4. Selected(Read)'
      BY <2>1, <2>2, <2>5, TransferStep, Selection, BusStep, MxStep, MxAt
         DEF Selected, Transfer, Bus, Carries, Kind
    <3>5. Xactor("idle", "addr", "any")'
      BY <2>1, <2>5, <3>3, <3>1, Clients, XactorMoves DEF Read, Write
    <3>6. /\ Carries(sw.fric_inr0, "zero")' /\ Carries(sw.fric_out[mx.port], "zero")'
          /\ Carries(m.fric_inr, "zero")' /\ sw'.mp = "wack" /\ Carries(sw.fric_out0, "zero")'
      BY <2>1, <2>2, <3>2, BusMoves
    <3>7. Carries(sw.fric_inr[mx.port], "ack")'
      BY <2>1, <2>5, <3>2, ClientOut
    <3>8. m'.fos = "rd_ack" /\ sw'.mp = "wack" /\ m'.fis = "idle" /\ Carries(m.fric_out, "zero")'
      BY <2>1, <2>2, <3>6, MasterStep, MasterReceives, SwitchStep, MxStep
         DEF Selected, Bus, Carries, Kind, Read, Write, ReadAck, WriteAck
    <3>9. Bus("rd_ack", "zero", "zero", "wack", "zero", "ack", "zero", "zero", "idle")'
      BY <3>6, <3>7, <3>8 DEF Bus
    <3> QED
      BY <2>5, <3>4, <3>1, <3>5, <3>9 DEF ReadAck1
  <2> QED
    BY <1>6, <2>3, <2>4, <2>5 DEF ReadWait
<1>7. ASSUME ReadAck1 PROVE ReadAck2'
  <2>1. Selected(Read) /\ Transfer(Read) /\ Requested /\ mx.type = Read
    BY <1>7 DEF ReadAck1, Selected, Transfer
  <2>2. Bus("rd_ack", "zero", "zero", "wack", "zero", "ack", "zero", "zero", "idle")
    BY <1>7 DEF ReadAck1
  <2>3. (Slave("zero", "idle", "rd_da0", "any") \/ Xactor("idle", "addr", "any")) /\ served # <<>>
    BY <1>7 DEF ReadAck1
  <2>4. served' = served /\ Answer' = Answer
    BY <2>1, <2>2, <2>3, ServedStays
  <2>5. \A kind : Kept(kind)
    BY <2>4 DEF Kept
  <2>6. sw.fric_out[mx.port] = 0
    BY <2>1, <2>2, <2>3 DEF Bus, Carries, Kind
  <2>7. Selected(Read)'
    BY <2>1, <2>2, <2>3, TransferStep, Selection, BusStep, MxStep, MxAt
       DEF Selected, Transfer, Bus, Carries, Kind
  <2>8. (Slave("zero", "idle", "rd_da1", "answer_lo") \/ Xactor("idle", "lo", "answer_lo"))'
    BY <2>1, <2>3, <2>6, <2>4, Clients, SlaveMoves, XactorMoves
  <2>9. /\ Carries(sw.fric_inr0, "zero")' /\ Carries(sw.fric_out[mx.port], "zero")'
        /\ Carries(m.fric_inr, "zero")' /\ sw'.mp = "rep_adr" /\ Carries(sw.fric_out0, "named_ack")'
    BY <2>1, <2>2, <2>5, BusMoves
  <2>10. Carries(sw.fric_inr[mx.port], "any")'
    BY <2>1, <2>3, <2>5, ClientOut
  <2>11. m'.fos = "rd_ack" /\ sw'.mp = "rep_adr" /\ m'.fis = "idle" /\ Carries(m.fric_out, "zero")'
    BY <2>1, <2>2, <2>9, MasterStep, MasterReceives, SwitchStep, MxStep
       DEF Selected, Bus, Carries, Kind, Read, Write, ReadAck, WriteAck
  <2>12. Bus("rd_ack", "zero", "zero", "rep_adr", "zero", "any", "named_ack", "zero", "idle")'
    BY <2>9, <2>10, <2>11 DEF Bus
  <2> QED
    BY <2>3, <2>7, <2>4, <2>8, <2>12 DEF ReadAck2
<1>8. ASSUME ReadAck2 PROVE ReadAck3'
  <2>1. Selected(Read) /\ Transfer(Read) /\ Requested /\ mx.type = Read
    BY <1>8 DEF ReadAck2, Selected, Transfer
  <2>2. Bus("rd_ack", "zero", "zero", "rep_adr", "zero", "any", "named_ack", "zero", "idle")
    BY <1>8 DEF ReadAck2
  <2>3. (Slave("zero", "idle", "rd_da1", "answer_lo") \/ Xactor("idle", "lo", "answer_lo")) /\ served # <<>>
    BY <1>8 DEF ReadAck2
  <2>4. served' = served /\ Answer' = Answer
    BY <2>1, <2>2, <2>3, ServedStays
  <2>5. \A kind : Kept(kind)
    BY <2>4 DEF Kept
  <2>6. sw.fric_out[mx.port] = 0
    BY <2>1, <2>2, <2>3 DEF Bus, Carries, Kind
  <2>7. Selected(Read)'
    BY <2>1, <2>2, <2>3, TransferStep, Selection, BusStep, MxStep, MxAt
       DEF Selected, Transfer, Bus, Carries, Kind
  <2>8. (Slave("zero", "idle", "idle", "answer_hi") \/ Xactor("idle", "last", "answer_hi"))'
    BY <2>1, <2>3, <2>6, <2>4, Clients, SlaveMoves, XactorMoves
  <2>9. /\ Carries(sw.fric_inr0, "zero")' /\ Carries(sw.fric_out[mx.port], "zero")'
        /\ Carries(m.fric_inr, "named_ack")' /\ Carries(sw.fric_out0, "any")'
    BY <2>1, <2>2, <2>5, BusMoves
  <2>10. Carries(sw.fric_inr[mx.port], "answer_lo")'
    BY <2>1, <2>3, <2>5, ClientOut
  <2>11. m'.fos = "rd_ack" /\ sw'.mp = "rdat0" /\ m'.fis = "idle" /\ Carries(m.fric_out, "zero")'
    BY <2>1, <2>2, <2>9, MasterStep, MasterReceives, SwitchStep, MxStep
       DEF Selected, Bus, Carries, Kind, Read, Write, ReadAck, WriteAck
  <2>12. Bus("rd_ack", "zero", "zero", "rdat0", "zero", "answer_lo", "any", "named_ack", "idle")'
    BY <2>9, <2>10, <2>11 DEF Bus
  <2> QED
    BY <2>3, <2>7, <2>4, <2>8, <2>12 DEF ReadAck3
<1>9. ASSUME ReadAck3 PROVE ReadAck4'
  <2>1. Selected(Read) /\ Transfer(Read) /\ Requested /\ mx.type = Read
    BY <1>9 DEF ReadAck3, Selected, Transfer
  <2>2. Bus("rd_ack", "zero", "zero", "rdat0", "zero", "answer_lo", "any", "named_ack", "idle")
    BY <1>9 DEF ReadAck3
  <2>3. (Slave("zero", "idle", "idle", "answer_hi") \/ Xactor("idle", "last", "answer_hi")) /\ served # <<>>
    BY <1>9 DEF ReadAck3
  <2>4. served' = served /\ Answer' = Answer
    BY <2>1, <2>2, <2>3, ServedStays
  <2>5. \A kind : Kept(kind)
    BY <2>4 DEF Kept
  <2>6. sw.fric_out[mx.port] = 0
    BY <2>1, <2>2, <2>3 DEF Bus, Carries, Kind
  <2>7. Selected(Read)'
    BY <2>1, <2>2, <2>3, TransferStep, Selection, BusStep, MxStep, MxAt
       DEF Selected, Transfer, Bus, Carries, Kind
  <2>8. Rests'
    BY <2>1, <2>3, <2>6, <2>4, Clients, SlaveMoves, XactorMoves
  <2>9. /\ Carries(sw.fric_inr0, "zero")' /\ Carries(sw.fric_out[mx.port], "zero")'
        /\ Carries(m.fric_inr, "any")' /\ Carries(sw.fric_out0, "answer_lo")'
    BY <2>1, <2>2, <2>5, BusMoves
  <2>10. Carries(sw.fric_inr[mx.port], "answer_hi")'
    BY <2>1, <2>3, <2>5, ClientOut
  <2>11. m'.fos = "rd_ack" /\ sw'.mp = "rdat1" /\ m'.fis = "rd_ack" /\ Carries(m.fric_out, "zero")'
    BY <2>1, <2>2, <2>9, MasterStep, MasterReceives, SwitchStep, MxStep
       DEF Selected, Bus, Carries, Kind, Read, Write, ReadAck, WriteAck
  <2>12. Bus("rd_ack", "zero", "zero", "rdat1", "zero", "answer_hi", "answer_lo", "any", "rd_ack")'
    BY <2>9, <2>10, <2>11 DEF Bus
  <2> QED
    BY <2>3, <2>7, <2>4, <2>8, <2>12 DEF ReadAck4
<1>10. ASSUME ReadAck4 PROVE ReadAck5'
  <2>1. Selected(Read) /\ Transfer(Read) /\ Requested /\ mx.type = Read
    BY <1>10 DEF ReadAck4, Selected, Transfer
  <2>2. Bus("rd_ack", "zero", "zero", "rdat1", "zero", "answer_hi", "answer_lo", "any", "rd_ack")
    BY <1>10 DEF ReadAck4
  <2>3. Rests /\ served # <<>>
    BY <1>10 DEF ReadAck4
  <2>4. served' = served /\ Answer' = Answer
    BY <2>1, <2>2, <2>3, ServedStays
  <2>5. \A kind : Kept(kind)
    BY <2>4 DEF Kept
  <2>6. sw.fric_out[mx.port] = 0
    BY <2>1, <2>2, <2>3 DEF Bus, Carries, Kind
  <2>7. Selected(Read)'
    BY <2>1, <2>2, <2>3, TransferStep, Selection, BusStep, MxStep, MxAt
       DEF Selected, Transfer, Bus, Carries, Kind
  <2>8. Rests'
    BY <2>1, <2>3, <2>6, <2>4, Clients, RestsStep
  <2>9. /\ Carries(sw.fric_inr0, "zero")' /\ Carries(sw.fric_out[mx.port], "zero")'
        /\ Carries(m.fric_inr, "answer_lo")' /\ Carries(sw.fric_out0, "answer_hi")'
    BY <2>1, <2>2, <2>5, BusMoves
  <2>10. Carries(sw.fric_inr[mx.port], "zero")'
    BY <2>1, <2>3, <2>5, ClientOut
  <2>11. m'.fos = "rd_ack" /\ sw'.mp = "idle" /\ m'.fis = "rd_da0" /\ Carries(m.fric_out, "zero")'
    BY <2>1, <2>2, <2>9, MasterStep, MasterReceives, SwitchStep, MxStep
       DEF Selected, Bus, Carries, Kind, Read, Write, ReadAck, WriteAck
  <2>12. Bus("rd_ack", "zero", "zero", "idle", "zero", "zero", "answer_hi", "answer_lo", "rd_da0")'
    BY <2>9, <2>10, <2>11 DEF Bus
  <2> QED
    BY <2>3, <2>7, <2>4, <2>8, <2>12 DEF ReadAck5
<1>11. ASSUME ReadAck5 PROVE ReadAck6'
  <2>1. Selected(Read) /\ Transfer(Read) /\ Requested /\ mx.type = Read
    BY <1>11 DEF ReadAck5, Selected, Transfer
  <2>2. Bus("rd_ack", "zero", "zero", "idle", "zero", "zero", "answer_hi", "answer_lo", "rd_da0")
    BY <1>11 DEF ReadAck5
  <2>3. Rests /\ served # <<>>
    BY <1>11 DEF ReadAck5
  <2>4. served' = served /\ Answer' = Answer
    BY <2>1, <2>2, <2>3, ServedStays
  <2>5. \A kind : Kept(kind)
    BY <2>4 DEF Kept
  <2>6. sw.fric_out[mx.port] = 0
    BY <2>1, <2>2, <2>3 DEF Bus, Carries, Kind
  <2>7. Selected(Read)'
    BY <2>1, <2>2, <2>3, TransferStep, Selection, BusStep, MxStep, MxAt
       DEF Selected, Transfer, Bus, Carries, Kind
  <2>8. Rests'
    BY <2>1, <2>3, <2>6, <2>4, Clients, RestsStep
  <2>9. /\ Carries(sw.fric_inr0, "zero")' /\ Carries(sw.fric_out[mx.port], "zero")'
        /\ Carries(m.fric_inr, "answer_hi")' /\ sw'.mp = "idle" /\ Carries(sw.fric_out0, "zero")'
    BY <2>1, <2>2, <2>5, BusMoves
  <2>10. Carries(sw.fric_inr[mx.port], "zero")'
    BY <2>1, <2>3, <2>5, ClientOut
  <2>11. m'.fos = "rd_ack" /\ sw'.mp = "idle" /\ m'.fis = "rd_da1" /\ Carries(m.fric_out, "zero")'
    BY <2>1, <2>2, <2>9, MasterStep, MasterReceives, SwitchStep, MxStep
       DEF Selected, Bus, Carries, Kind, Read, Write, ReadAck, WriteAck
  <2>12. Bus("rd_ack", "zero", "zero", "idle", "zero", "zero", "zero", "answer_hi", "rd_da1")'
    BY <2>9, <2>10, <2>11 DEF Bus
  <2>13. Lo(m'.rdat) = Lo(Answer')
    <3>1. m'.rdat = 256 * Hi(m.rdat) + m.fric_inr
      BY <2>2, MasterReceives DEF Bus
    <3>2. m.fric_inr = Lo(Answer) /\ Answer \in Word /\ Answer' = Answer /\ m.rdat \in Nat
      BY <2>2, <2>3, <2>4, AnswerWord DEF Bus, Carries, Kind, Shape
    <3>3. Lo(Answer) \in Byte
      BY <3>2, Halves
    <3> QED
      BY <3>1, <3>2, <3>3, Halves
  <2> QED
    BY <2>3, <2>7, <2>4, <2>8, <2>12, <2>13 DEF ReadAck6
<1>12. ASSUME ReadAck6 PROVE Reply'
  <2>1. Selected(Read) /\ Transfer(Read) /\ Requested /\ mx.type = Read
    BY <1>12 DEF ReadAck6, Selected, Transfer
  <2>2. Bus("rd_ack", "zero", "zero", "idle", "zero", "zero", "zero", "answer_hi", "rd_da1")
    BY <1>12 DEF ReadAck6
  <2>3. Rests /\ served # <<>>
    BY <1>12 DEF ReadAck6
  <2>4. Still'
    BY <2>1, <2>2, <2>3, StillStep DEF Bus, Carries, Kind
  <2>5. served' = served /\ Answer' = Answer
    BY <2>1, <2>3, ServedStays
  <2>6. m'.rdat = Answer
    <3>1. m'.rdat = 256 * m.fric_inr + Lo(m.rdat)
      BY <2>2, MasterReceives DEF Bus
    <3>2. m.fric_inr = Hi(Answer) /\ Lo(m.rdat) = Lo(Answer) /\ Answer \in Word
      BY <1>12, <2>2, <2>3, AnswerWord DEF ReadAck6, Bus, Carries, Kind
    <3>3. Lo(Answer) \in Nat /\ Hi(Answer) \in Nat /\ Lo(Answer) + 256 * Hi(Answer) = Answer
      BY <3>2, Halves
    <3> QED
      BY <3>1, <3>2, <3>3
  <2>7. mx'.at = "reply" /\ mx'.tstb = 0 /\ m'.rstb = 1 /\ mx'.type = mx.type /\ Requested'
    BY <2>1, <2>2, MxStep, MxAt, MasterStep DEF Bus, Transfer, Requested
  <2> QED
    BY <2>1, <2>3, <2>4, <2>5, <2>6, <2>7 DEF Reply
<1> QED
  BY <1>1, <1>2, <1>3, <1>4, <1>5, <1>6, <1>7, <1>8, <1>9, <1>10, <1>11, <1>12

-----------------------------------------------------------------------------
(* The invariant *)

\* A quiet bus stays quiet until a request is strobed, which sets out on it then.
LEMMA QuietStages ==
    ASSUME Shape, Clock
    PROVE  /\ Idle => Idle'
           /\ Strobe => (Write1 \/ Read1)'
           /\ Reply => Idle'
<1> SUFFICES ASSUME Idle \/ Strobe \/ Reply
             PROVE  (Idle => Idle') /\ (Strobe => (Write1 \/ Read1)') /\ (Reply => Idle')
  OBVIOUS
<1> Still
  BY DEF Idle, Strobe, Reply
<1>1. ASSUME NEW q \in Ports PROVE Resting(q)'
  BY RestingStep, IdleSwitch DEF Still
<1>2. sw'.mp = "idle" /\ sw'.fric_inr0 = 0 /\ sw'.fric_out0 = 0
  BY IdleSwitch, SwitchStep DEF Still, Resting
<1>3. m'.fis = "idle" /\ m'.fric_inr = 0 /\ m'.rstb = 0
  BY MasterStep, MasterReceives DEF Still
<1>4. mx.tstb = 0 => Still'
  BY <1>1, <1>2, <1>3, MasterStep DEF Still
<1>5. Strobe => (Write1 \/ Read1)'
  <2> SUFFICES ASSUME Strobe PROVE (Write1 \/ Read1)'
    OBVIOUS
  <2>1. /\ mx'.at = "ready" /\ mx'.tstb = 0 /\ mx'.type = mx.type /\ mx'.port = mx.port
        /\ mx.type \in {Write, Read} /\ mx.port \in Ports
        /\ mx'.addr = mx.addr /\ mx'.wdat = mx.wdat
    BY MxStep, MxAt DEF Strobe, Still, Requested
  <2>2. Transfer(mx.type)'
    BY <1>1, <1>3, <2>1 DEF Transfer, Requested, Strobe
  <2>3. Rests' /\ sw'.fric_out[mx.port] = 0 /\ sw'.fric_inr[mx.port] = 0
    <3>1. \A q \in Ports : Resting(q)'
      BY <1>1
    <3> QED
      BY <2>1, <3>1 DEF Rests, Resting, ClientRests
  <2>4. /\ m'.fos = IF mx.type = Write THEN "wr_adr" ELSE "rd_adr"
        /\ m'.fric_out = Header(mx.type, mx.port)
    BY MasterStep DEF Strobe, Still
  <2>5. served' = <<>>
    <3>1. s.wstb = 0 /\ s.fos = "idle"
      BY PortsAssumption DEF Still, Resting, ClientRests
    <3> QED
      BY <3>1, ServeStep DEF Strobe
  <2>6. CASE mx.type = Write
    BY <1>2, <1>3, <2>1, <2>2, <2>3, <2>4, <2>5, <2>6 DEF Write1, Bus, Carries, Kind, Transfer
  <2>7. CASE mx.type = Read
    BY <1>2, <1>3, <2>1, <2>2, <2>3, <2>4, <2>5, <2>7
       DEF Read1, Bus, Carries, Kind, Transfer, Read, Write
  <2> QED
    BY <2>1, <2>6, <2>7
<1>6. (Idle => Idle') /\ (Reply => Idle')
  BY <1>3, <1>4, MxStep, MxAt DEF Idle, Reply
<1> QED
  BY <1>5, <1>6

\* What the slave client and the master receive, and what the slave serves.
Receiving ==
  /\ s.fis \in {"idle", "wr_da0", "wr_da1"} => s.fric_inr \in Byte
  /\ s.wstb = 1 => /\ s.addr \in Addrs /\ s.wdat \in Word
                   /\ s.fos # "rd_adr" /\ served = <<>>
  /\ s.fos = "rd_adr" => s.wstb = 0 /\ s.addr \in Addrs /\ served = <<>>
  /\ m.fis \in {"rd_da0", "rd_da1"} => m.fric_inr \in Byte

\* Every stage gives these receivers bytes, and the slave client a request.
LEMMA StagesReceive == ASSUME Shape, Stages PROVE Receiving
<1>1. 0 \in Byte
  BY DEF Byte
<1>2. Requested => mx.addr \in Addrs /\ mx.wdat \in Word /\ Lo(mx.wdat) \in Byte /\ Hi(mx.wdat) \in Byte
  BY Halves DEF Requested
<1>3. served # <<>> => Lo(Answer) \in Byte /\ Hi(Answer) \in Byte
  BY AnswerWord, Halves
<1> DEFINE AtSlave ==
      /\ s.fis \in {"idle", "wr_da0", "wr_da1"} => s.fric_inr \in Byte
      /\ s.wstb = 1 => /\ s.addr \in Addrs /\ s.wdat \in Word
                       /\ s.fos # "rd_adr" /\ served = <<>>
      /\ s.fos = "rd_adr" => s.wstb = 0 /\ s.addr \in Addrs /\ served = <<>>
<1>4. Still => AtSlave
  BY <1>1, PortsAssumption DEF Still, Resting, ClientRests
<1>5. ASSUME NEW type, Transfer(type), mx.port # SlavePort PROVE AtSlave
  BY <1>1, <1>5, PortsAssumption DEF Transfer, Resting, ClientRests
<1>6. Rests /\ mx.port = SlavePort => AtSlave
  BY <1>1 DEF Rests, ClientRests
<1>7. Requested /\ SlaveStrobes /\ served = <<>> => AtSlave
  BY <1>1, <1>2 DEF SlaveStrobes
<1>8. ASSUME NEW inr, NEW fis, NEW fos, NEW out, Slave(inr, fis, fos, out), Requested,
             fis = "idle" => inr \in {"zero", "forwarded"},
             fis = "wr_da0" => inr = "low", fis = "wr_da1" => inr = "high",
             fos = "rd_adr" => served = <<>>
      PROVE  AtSlave
  <2>1. /\ Carries(s.fric_inr, inr) /\ s.fis = fis /\ s.fos = fos /\ s.wstb = 0
        /\ fos = "rd_adr" => s.addr = mx.addr
    BY <1>8 DEF Slave
  <2>2. s.fis \in {"idle", "wr_da0", "wr_da1"} => s.fric_inr \in Byte
    BY <1>1, <1>2, <1>8, <2>1 DEF Carries, Kind
  <2> QED
    BY <1>2, <1>8, <2>1, <2>2
<1> HIDE DEF AtSlave
<1>9. AtSlave
  <2>1. \A type : Selected(type) => Transfer(type)
    BY DEF Selected
  <2>2. \A type : Transfer(type) => Requested
    BY DEF Transfer
  <2> QED
    BY <1>4, <1>5, <1>6, <1>7, <1>8, <2>1, <2>2, Clients
       DEF Stages, Idle, Strobe, Reply, Write1, Write2, Write3, Write4, Write5, Write6, Write7,
         WriteWait, WriteAck1, WriteAck2, WriteAck3, WriteAck4, Read1, Read2, Read3,
         Read4, Read5, ReadWait, ReadAck1, ReadAck2, ReadAck3, ReadAck4, ReadAck5,
         ReadAck6
<1>10. m.fis \in {"rd_da0", "rd_da1"} => m.fric_inr \in Byte
  BY <1>3
     DEF Stages, Still, Bus, Carries, Kind, Idle, Strobe, Reply, Write1, Write2, Write3, Write4,
         Write5, Write6, Write7,
         WriteWait, WriteAck1, WriteAck2, WriteAck3, WriteAck4, Read1, Read2, Read3,
         Read4, Read5, ReadWait, ReadAck1, ReadAck2, ReadAck3, ReadAck4, ReadAck5,
         ReadAck6
<1> QED
  BY <1>9, <1>10 DEF Receiving, AtSlave

\* An edge keeps the fields of the records.
LEMMA ShapeStep == ASSUME Shape, Stages, Clock PROVE Shape'
<1>1. /\ mx' = [at |-> mx'.at, tstb |-> mx'.tstb, type |-> mx'.type, port |-> mx'.port,
                addr |-> mx'.addr, wdat |-> mx'.wdat, data |-> mx'.data]
      /\ inChan' = inChan
  BY MxStep DEF Clock
<1> Receiving
  BY StagesReceive
<1>2. s'.port \in 0 .. 15
  BY NoHeader DEF Clock, S!Clock, S!Port, Port, Shape, Receiving
<1>3. ASSUME NEW p \in XPorts PROVE IsXactor(x'[p])
  BY XactorStep
<1>4. x' = [p \in XPorts |-> x'[p]]
  BY DEF Clock, Xactors
<1>5. \A p \in XPorts : IsXactor(x[p])'
  BY <1>3 DEF IsXactor
<1>6. \A w \in Nat, b \in Byte : 256 * Hi(w) + b \in Nat /\ 256 * b + Lo(w) \in Nat
  <2>1. ASSUME NEW w \in Nat, NEW b \in Byte PROVE 256 * Hi(w) + b \in Nat /\ 256 * b + Lo(w) \in Nat
    <3>1. Hi(w) \in Nat /\ Lo(w) \in 0 .. 255 /\ b \in 0 .. 255
      BY Halves DEF Byte
    <3> QED
      BY <3>1
  <2> QED
    BY <2>1
<1>7. m'.rdat \in Nat
  <2>1. m.rdat \in Nat
    BY DEF Shape
  <2>2. CASE m.fis = "rd_da0"
    BY <1>6, <2>1, <2>2, MasterReceives DEF Receiving
  <2>3. CASE m.fis = "rd_da1"
    BY <1>6, <2>1, <2>3, MasterReceives DEF Receiving
  <2>4. CASE m.fis \notin {"rd_da0", "rd_da1"}
    BY <2>1, <2>4, MasterReceives
  <2> QED
    BY <2>2, <2>3, <2>4
<1>8. s'.wdat \in Nat
  <2>1. s.wdat \in Nat
    BY DEF Shape
  <2>2. CASE s.fis = "wr_da0"
    BY <1>6, <2>1, <2>2, SlaveStep DEF Receiving
  <2>3. CASE s.fis = "wr_da1"
    BY <1>6, <2>1, <2>3, SlaveStep DEF Receiving
  <2>4. CASE s.fis \notin {"wr_da0", "wr_da1"}
    BY <2>1, <2>4, SlaveStep
  <2> QED
    BY <2>2, <2>3, <2>4
<1>9. regs' \in [Addrs -> Word]
  <2>1. regs \in [Addrs -> Word]
    BY DEF Shape
  <2>2. regs' = IF s.wstb = 1 THEN [regs EXCEPT ![s.addr] = s.wdat] ELSE regs
    BY DEF Clock, SlaveXactor
  <2> QED
    BY <2>1, <2>2 DEF Receiving
<1>10. served' = <<>> \/ \E r : served' = <<r>> /\ r.data \in Word
  <2>1. CASE s.wstb = 1
    BY <2>1, ServeStep DEF Receiving
  <2>2. CASE s.wstb # 1 /\ s.fos = "rd_adr"
    BY <2>2, ServeStep DEF Receiving, Shape
  <2>3. CASE s.wstb # 1 /\ s.fos # "rd_adr"
    BY <2>3, ServeStep DEF Shape
  <2> QED
    BY <2>1, <2>2, <2>3
<1> QED
  BY <1>1, <1>2, <1>4, <1>5, <1>7, <1>8, <1>9, <1>10 DEF Shape

BenchInv == Shape /\ Stages

\* The bench begins at rest.
LEMMA BenchInit == Init => BenchInv
<1> SUFFICES ASSUME Init PROVE BenchInv
  OBVIOUS
<1>1. Shape
  <2>1. /\ mx = [at |-> mx.at, tstb |-> mx.tstb, type |-> mx.type, port |-> mx.port,
                 addr |-> mx.addr, wdat |-> mx.wdat, data |-> mx.data]
        /\ m.rdat \in Nat /\ s.wdat \in Nat /\ s.port \in 0 .. 15
        /\ served = <<>> /\ inChan = <<>>
    BY DEF Init, M!Init, S!Init
  <2>2. x = [p \in XPorts |-> x[p]] /\ \A p \in XPorts : IsXactor(x[p])
    BY DEF Init, IsXactor, XactorInit, Listening, Quiet
  <2>3. regs \in [Addrs -> Word]
    <3>1. PICK d \in Leftovers : regs = [a \in Addrs |-> d]
      BY DEF Init
    <3>2. d \in Word
      BY WordsAssumption
    <3> QED
      BY <3>1, <3>2
  <2> QED
    BY <2>1, <2>2, <2>3 DEF Shape
<1>2. ASSUME NEW q \in Ports PROVE Resting(q)
  BY DEF Init, S!Init, Sw!Init, XPorts, XactorInit, Listening, Resting, ClientRests
<1>3. Idle
  BY <1>2 DEF Idle, Still, Init, M!Init, Sw!Init
<1> QED
  BY <1>1, <1>3 DEF BenchInv, Stages

\* A stage depends on the design and on the transactors only.
LEMMA SameStages ==
    ASSUME UNCHANGED <<m, s, sw, mx, x, regs, rdat, served>>
    PROVE  /\ Idle' = Idle /\ Strobe' = Strobe /\ Reply' = Reply /\ Write1' = Write1
           /\ Write2' = Write2 /\ Write3' = Write3 /\ Write4' = Write4
           /\ Write5' = Write5 /\ Write6' = Write6 /\ Write7' = Write7
           /\ WriteWait' = WriteWait /\ WriteAck1' = WriteAck1 /\ WriteAck2' = WriteAck2
           /\ WriteAck3' = WriteAck3 /\ WriteAck4' = WriteAck4 /\ Read1' = Read1
           /\ Read2' = Read2 /\ Read3' = Read3 /\ Read4' = Read4 /\ Read5' = Read5
           /\ ReadWait' = ReadWait /\ ReadAck1' = ReadAck1 /\ ReadAck2' = ReadAck2
           /\ ReadAck3' = ReadAck3 /\ ReadAck4' = ReadAck4 /\ ReadAck5' = ReadAck5
           /\ ReadAck6' = ReadAck6
<1>1. Still' = Still /\ Rests' = Rests /\ XactorWaits' = XactorWaits /\ Requested' = Requested
  BY DEF Still, Resting, ClientRests, Rests, XactorWaits, Requested
<1> Answer' = Answer /\ SlaveStrobes' = SlaveStrobes
  BY DEF Answer, SlaveStrobes
<1>2. \A type : Transfer(type)' = Transfer(type) /\ Selected(type)' = Selected(type)
  BY DEF Transfer, Selected, Requested, Resting, ClientRests
<1>3. \A b, kind : Carries(b, kind)' = Carries(b, kind)
  BY DEF Carries
<1>4. /\ \A fos, out, in0, mp, sent, answer, out0, inr, fis :
            Bus(fos, out, in0, mp, sent, answer, out0, inr, fis)'
              = Bus(fos, out, in0, mp, sent, answer, out0, inr, fis)
      /\ \A inr, fis, fos, out : Slave(inr, fis, fos, out)' = Slave(inr, fis, fos, out)
      /\ \A rx, tx, out : Xactor(rx, tx, out)' = Xactor(rx, tx, out)
  BY DEF Bus, Slave, Xactor, Carries, Ack
<1> QED
  BY <1>1, <1>2, <1>4
     DEF Idle, Strobe, Reply, Write1, Write2, Write3, Write4, Write5, Write6, Write7,
         WriteWait, WriteAck1, WriteAck2, WriteAck3, WriteAck4, Read1, Read2, Read3,
         Read4, Read5, ReadWait, ReadAck1, ReadAck2, ReadAck3, ReadAck4, ReadAck5,
         ReadAck6

\* Between the edges, some stage stays one.
LEMMA SameWires ==
    ASSUME Stages, UNCHANGED <<m, s, sw, mx, x, regs, rdat, served>>
    PROVE  Stages'
  BY SameStages DEF Stages

\* A response begins only while the switch waits for it.
LEMMA RespondStage ==
    ASSUME Shape, Stages, NEW p \in XPorts, Respond(p)
    PROVE  p = mx.port /\ XactorWaits /\ Requested /\ served = <<>> /\ (WriteWait \/ ReadWait)
<1>1. x[p].waits # <<>> /\ p \in Ports /\ p # SlavePort
  BY DEF Respond, XPorts
<1>2. ~Still
  BY <1>1 DEF Still, Resting, ClientRests
<1>3. \A type : Transfer(type) => p = mx.port /\ Requested
  BY <1>1 DEF Transfer, Resting, ClientRests
<1>4. p = mx.port => ~Rests /\ \A rx, tx, out : ~Xactor(rx, tx, out)
  BY <1>1 DEF Rests, ClientRests, Xactor
<1>5. p = mx.port => ~SlaveStrobes /\ \A inr, fis, fos, out : ~Slave(inr, fis, fos, out)
  BY <1>1, Clients
<1> QED
  BY <1>2, <1>3, <1>4, <1>5
     DEF Stages, Selected, Idle, Strobe, Reply, Write1, Write2, Write3, Write4, Write5, Write6, Write7,
         WriteWait, WriteAck1, WriteAck2, WriteAck3, WriteAck4, Read1, Read2, Read3,
         Read4, Read5, ReadWait, ReadAck1, ReadAck2, ReadAck3, ReadAck4, ReadAck5,
         ReadAck6

\* The response answers the request that is under way, and the request counts as served.
LEMMA RespondServes ==
    ASSUME Shape, Stages, NEW p \in XPorts, Respond(p)
    PROVE  \E resp, d :
             /\ d \in Word /\ IF mx.type = Read THEN d \in AnswerData ELSE d = mx.wdat
             /\ served' = <<[type |-> mx.type, port |-> mx.port, addr |-> mx.addr, data |-> d]>>
             /\ x' = [x EXCEPT ![p] = [x[p] EXCEPT !.out = Header(Ack, 0), !.tx = "header",
                                        !.late = 0, !.waits = Tail(x[p].waits), !.resp = resp]]
             /\ resp.type = Ack /\ (mx.type = Read => resp.data = d)
<1> DEFINE req == x[p].waits[1]
<1>1. /\ p = mx.port /\ served = <<>> /\ req.type = mx.type /\ req.addr = mx.addr
      /\ mx.type = Write => req.data = mx.wdat
      /\ mx.type = Write \/ mx.type = Read
      /\ mx.wdat \in Word
  BY RespondStage DEF XactorWaits, Requested
<1>2. Ack = IF req.type = Read THEN ReadAck ELSE WriteAck
  BY <1>1 DEF Ack
<1> DEFINE Sent(d) == [type |-> Ack, addr |-> req.addr, data |-> d]
           Done(d) == [type |-> req.type, port |-> p, addr |-> req.addr,
                       data |-> IF req.type = Read THEN d ELSE req.data]
<1>3. PICK d \in (IF req.type = Read THEN AnswerData ELSE {0}) :
           /\ x' = [x EXCEPT ![p] = [x[p] EXCEPT !.out = Header(Ack, 0), !.tx = "header", !.late = 0,
                                      !.waits = Tail(x[p].waits), !.resp = Sent(d)]]
           /\ served' = Append(served, Done(d))
  BY <1>2 DEF Respond
<1> DEFINE data == IF req.type = Read THEN d ELSE req.data
<1>4. Done(d) = [type |-> mx.type, port |-> mx.port, addr |-> mx.addr, data |-> data]
  BY <1>1
<1>5. Sent(d).type = Ack /\ Sent(d).data = d
  OBVIOUS
<1>6. served' = <<Done(d)>>
  <2> HIDE DEF Done
  <2>1. \A r : Append(<<>>, r) = <<r>>
    OBVIOUS
  <2> QED
    BY <1>1, <1>3, <2>1
<1>7. data \in Word /\ IF mx.type = Read THEN data \in AnswerData ELSE data = mx.wdat
  <2>1. AnswerData \subseteq Word
    BY WordsAssumption
  <2> QED
    BY <1>1, <1>3, <2>1
<1>8. mx.type = Read => data = d
  BY <1>1
<1> HIDE DEF req, data
<1>9. served' = <<[type |-> mx.type, port |-> mx.port, addr |-> mx.addr, data |-> data]>>
  <2> HIDE DEF Done
  <2> QED
    BY <1>4, <1>6
<1> HIDE DEF Sent, Done
<1> QED
  BY <1>3, <1>5, <1>7, <1>8, <1>9

\* A response is the next stage of the request it answers.
LEMMA RespondStep ==
    ASSUME Shape, Stages, NEW p \in XPorts, Respond(p)
    PROVE  /\ Shape' /\ Xactor("idle", "header", "ack")'
           /\ (WriteWait /\ WriteWait') \/ (ReadWait /\ ReadWait')
<1>1. /\ p = mx.port /\ p \in Ports /\ p # SlavePort /\ XactorWaits /\ Requested
      /\ WriteWait \/ ReadWait
      /\ x[p].waits = <<x[p].waits[1]>> /\ x[p].rx.at = "idle"
  BY RespondStage DEF XPorts, XactorWaits
<1>2. UNCHANGED <<m, s, sw, mx, inChan, regs>>
  BY DEF Respond
<1>3. Tail(x[p].waits) = <<>>
  <2>1. \A r : Tail(<<r>>) = <<>>
    OBVIOUS
  <2> QED
    BY <1>1, <2>1
<1>4. PICK resp, d :
         /\ d \in Word
         /\ served' = <<[type |-> mx.type, port |-> mx.port, addr |-> mx.addr, data |-> d]>>
         /\ x' = [x EXCEPT ![p] = [x[p] EXCEPT !.out = Header(Ack, 0), !.tx = "header",
                                    !.late = 0, !.waits = Tail(x[p].waits), !.resp = resp]]
         /\ resp.type = Ack /\ (mx.type = Read => resp.data = d)
  BY RespondServes
<1>5. /\ x' = [q \in XPorts |-> x'[q]] /\ \A q \in XPorts \ {p} : x'[q] = x[q]
      /\ x'[p] = [out |-> Header(Ack, 0), rx |-> x[p].rx, waits |-> <<>>, late |-> 0,
                  tx |-> "header", resp |-> resp]
  <2>1. x = [q \in XPorts |-> x[q]]
    BY DEF Shape
  <2> DEFINE next == [x[p] EXCEPT !.out = Header(Ack, 0), !.tx = "header", !.late = 0,
                                  !.waits = Tail(x[p].waits), !.resp = resp]
  <2>2. x' = [x EXCEPT ![p] = next]
    BY <1>4
  <2>3. x[p] = [out |-> x[p].out, rx |-> x[p].rx, waits |-> x[p].waits, late |-> x[p].late,
                tx |-> x[p].tx, resp |-> x[p].resp]
    BY DEF Shape, IsXactor
  <2>4. next = [out |-> Header(Ack, 0), rx |-> x[p].rx, waits |-> Tail(x[p].waits), late |-> 0,
                tx |-> "header", resp |-> resp]
    <3>1. ASSUME NEW n, n = next
          PROVE  n = [out |-> Header(Ack, 0), rx |-> x[p].rx, waits |-> Tail(x[p].waits), late |-> 0,
                      tx |-> "header", resp |-> resp]
      BY <2>3, <3>1
    <3> QED
      BY <3>1
  <2> HIDE DEF next
  <2>5. x'[p] = next /\ x' = [q \in XPorts |-> x'[q]] /\ \A q \in XPorts \ {p} : x'[q] = x[q]
    BY <2>1, <2>2
  <2> QED
    BY <1>3, <2>4, <2>5
<1>6. IsXactor(x'[p])
  BY <1>5 DEF Shape, IsXactor
<1>7. served' # <<>> /\ Answer' = d /\ \E r : served' = <<r>> /\ r.data \in Word
  <2> DEFINE r == [type |-> mx.type, port |-> mx.port, addr |-> mx.addr, data |-> d]
  <2>1. r.data = d
    OBVIOUS
  <2> HIDE DEF r
  <2>2. served' = <<r>>
    BY <1>4 DEF r
  <2>3. <<r>> # <<>> /\ <<r>>[1] = r
    OBVIOUS
  <2> QED
    BY <1>4, <2>1, <2>2, <2>3 DEF Answer
<1>8. Shape'
  <2>1. \A q \in XPorts : IsXactor(x[q])'
    BY <1>5, <1>6 DEF Shape, IsXactor
  <2> QED
    BY <1>2, <1>5, <1>7, <2>1 DEF Shape
<1>9. Header(Ack, 0) \in Byte /\ Type(Header(Ack, 0)) = Ack /\ Port(Header(Ack, 0)) = 0
  BY Headers DEF Ack
<1>10. Xactor("idle", "header", "ack")'
  <2>1. /\ x'[p].rx = x[p].rx /\ x'[p].tx = "header" /\ x'[p].waits = <<>>
        /\ x'[p].resp = resp /\ x'[p].out = Header(Ack, 0)
    BY <1>5
  <2>2. mx' = mx /\ Ack' = Ack
    BY <1>2 DEF Ack
  <2>3. Kind(Header(Ack, 0), "ack", mx.type, mx.port, mx.addr, mx.wdat, d)
    BY <1>9 DEF Kind, Ack
  <2> QED
    BY <1>1, <1>4, <1>7, <2>1, <2>2, <2>3 DEF Xactor, Carries
<1>11. \A q \in Ports \ {p} : Resting(q) => Resting(q)'
  BY <1>2, <1>5 DEF Resting, ClientRests, XPorts
<1>12. \A t : Selected(t) => Selected(t)'
  BY <1>1, <1>2, <1>11 DEF Selected, Transfer, Requested
<1>13. CASE WriteWait
  <2>1. Selected(Write)'
    BY <1>12, <1>13 DEF WriteWait
  <2>2. Bus("wr_ack", "zero", "zero", "wack", "zero", "zero", "zero", "zero", "idle")
    BY <1>13 DEF WriteWait
  <2>3. Bus("wr_ack", "zero", "zero", "wack", "zero", "zero", "zero", "zero", "idle")'
    BY <1>2, <2>2 DEF Bus, Carries, Kind
  <2>4. WriteWait'
    BY <1>7, <1>10, <2>1, <2>3 DEF WriteWait
  <2> QED
    BY <1>8, <1>10, <1>13, <2>4
<1>14. CASE ReadWait
  <2>1. Selected(Read)'
    BY <1>12, <1>14 DEF ReadWait
  <2>2. Bus("rd_ack", "zero", "zero", "wack", "zero", "zero", "zero", "zero", "idle")
    BY <1>14 DEF ReadWait
  <2>3. Bus("rd_ack", "zero", "zero", "wack", "zero", "zero", "zero", "zero", "idle")'
    BY <1>2, <2>2 DEF Bus, Carries, Kind
  <2>4. ReadWait'
    BY <1>7, <1>10, <2>1, <2>3 DEF ReadWait
  <2> QED
    BY <1>8, <1>10, <1>14, <2>4
<1> QED
  BY <1>1, <1>13, <1>14

\* Nothing is on the bus when the master's transactor is free.
LEMMA FreeStage == Stages /\ mx.at = "free" => Idle
  BY DEF Stages, Transfer, Selected, Idle, Strobe, Reply, Write1, Write2, Write3, Write4, Write5,
         Write6, Write7, WriteWait, WriteAck1, WriteAck2, WriteAck3, WriteAck4, Read1, Read2,
         Read3, Read4, Read5, ReadWait, ReadAck1, ReadAck2, ReadAck3, ReadAck4, ReadAck5,
         ReadAck6

\* A request is taken only when the last one has been answered.
LEMMA MasterGetStep ==
    ASSUME Shape, Stages, MasterGet
    PROVE  Shape' /\ Idle /\ Strobe'
<1>1. inChan[1] \in Requests /\ inChan' = <<>> /\ served' = <<>> /\ UNCHANGED <<m, s, sw, x, regs>>
  BY DEF Shape, MasterGet
<1>2. /\ inChan[1].type \in {Write, Read} /\ inChan[1].port \in Ports
      /\ inChan[1].addr \in Addrs /\ inChan[1].data \in Word
  <2>1. \A r \in Requests : r.type \in {Write, Read} /\ r.port \in Ports /\ r.data \in Word
    BY RequestsAssumption
  <2>2. \A r \in Requests : r.addr \in Addrs
    BY DEF Addrs
  <2> QED
    BY <1>1, <2>1, <2>2
<1>3. mx' = [at |-> "strobe", tstb |-> 1, type |-> inChan[1].type, port |-> inChan[1].port,
             addr |-> inChan[1].addr, wdat |-> inChan[1].data, data |-> inChan[1].data]
  BY DEF MasterGet
<1>4. Shape'
  BY <1>1, <1>3 DEF Shape, IsXactor
<1>5. Idle
  BY FreeStage DEF MasterGet
<1>6. Still'
  BY <1>1, <1>5 DEF Idle, Still, Resting, ClientRests
<1>7. Strobe'
  BY <1>1, <1>2, <1>3, <1>5, <1>6 DEF Idle, Strobe, Requested
<1> QED
  BY <1>4, <1>5, <1>7

\* Every step keeps the invariant.
LEMMA BenchStep == BenchInv /\ [Next]_vars => BenchInv'
<1> SUFFICES ASSUME Shape, Stages, [Next]_vars PROVE Shape' /\ Stages'
  BY DEF BenchInv
<1>1. CASE Generate
  <2>1. UNCHANGED <<m, s, sw, mx, x, regs, rdat, served>> /\ \E r \in Requests : inChan' = <<r>>
    BY <1>1 DEF Generate
  <2> QED
    BY <2>1, SameWires DEF Shape, IsXactor
<1>2. CASE MasterGet
  BY <1>2, MasterGetStep DEF Stages
<1>3. ASSUME NEW p \in XPorts, Respond(p) PROVE Shape' /\ Stages'
  BY <1>3, RespondStep DEF Stages
<1>4. CASE Clock
  <2>1. Stages'
    BY <1>4, QuietStages, WriteStages, ReadStages DEF Stages
  <2> QED
    BY <1>4, <2>1, ShapeStep
<1>5. CASE Ended \/ UNCHANGED vars
  <2>1. UNCHANGED <<m, s, sw, mx, x, regs, rdat, served, inChan>>
    BY <1>5 DEF Ended, vars
  <2> QED
    BY <2>1, SameWires DEF Shape, IsXactor
<1> QED
  BY <1>1, <1>2, <1>3, <1>4, <1>5 DEF Next

\* The invariant of the bench.
LEMMA BenchInvariant == Spec => []BenchInv
<1> QED
  BY BenchInit, BenchStep, PTL DEF Spec

-----------------------------------------------------------------------------
(* Types *)

\* What RecvPacket has collected of a packet: the second byte of its data has still
\* to be added to the first.
IsReceiver(r) == r \in Receivers /\ (r.at = "hi" => r.data \in Byte)

\* A packet or nothing is in the channel between a transactor and its generator.
TypedXactor(c) ==
  /\ c.out \in Byte /\ IsReceiver(c.rx)
  /\ c.waits = <<>> \/ \E r \in Receivers : c.waits = <<r>>
  /\ c.resp.type \in 0 .. 15 /\ c.resp.addr \in Byte /\ c.resp.data \in Word

TypedRequest ==
  /\ mx.at \in {"free", "strobe", "ready", "reply"}
  /\ mx.type \in 0 .. 15 /\ mx.port \in 0 .. 15 /\ mx.addr \in Byte /\ mx.wdat \in Word

\* Each request that has been generated is in the channel, in the transactor, or
\* answered.
Counts ==
  /\ numGenerated \in 0 .. NumTransactions /\ answers \in Nat
  /\ numGenerated = answers + Len(inChan) + IF mx.at = "free" THEN 0 ELSE 1

TypeInv ==
  /\ M!TypeOK /\ S!TypeOK /\ s.addr \in Addrs /\ Sw!TypeOK
  /\ TypedRequest /\ rdat \in Word
  /\ \A p \in XPorts : TypedXactor(x[p])
  /\ \A p \in AllPorts : IsReceiver(mon[p].in) /\ IsReceiver(mon[p].out)
  /\ Counts

\* Bytes and words are the same in all modules.
LEMMA SameTypes ==
    /\ M!Byte = Byte /\ S!Byte = Byte /\ Sw!Byte = Byte /\ M!Word = Word /\ S!Word = Word
    /\ \A b : /\ M!Lo(b) = Lo(b) /\ M!Hi(b) = Hi(b) /\ S!Lo(b) = Lo(b) /\ S!Hi(b) = Hi(b)
              /\ M!Type(b) = Type(b) /\ S!Type(b) = Type(b) /\ Sw!Type(b) = Type(b)
              /\ S!Port(b) = Port(b) /\ Sw!Port(b) = Port(b)
    /\ \A t, p : /\ M!Header(t, p) = Header(t, p) /\ S!Header(t, p) = Header(t, p)
                 /\ Sw!Header(t, p) = Header(t, p)
<1>1. M!MaxWord = MaxWord /\ S!MaxWord = MaxWord
  BY DEF M!MaxWord, S!MaxWord, MaxWord
<1>2. M!Byte = Byte /\ S!Byte = Byte /\ Sw!Byte = Byte /\ M!Word = Word /\ S!Word = Word
  BY <1>1 DEF M!Byte, S!Byte, Sw!Byte, Byte, M!Word, S!Word, Word
<1> QED
  BY <1>2
     DEF M!Lo, S!Lo, Lo, M!Hi, S!Hi, Hi, M!Type, S!Type, Sw!Type, Type, S!Port, Sw!Port, Port,
         M!Header, S!Header, Sw!Header, Header

\* Bytes that are taken apart and put together.
LEMMA Bytes ==
    /\ 0 \in Byte /\ 0 \in Word /\ Addrs \subseteq Byte
    /\ \A b \in Byte : Type(b) \in 0 .. 15 /\ Port(b) \in 0 .. 15
    /\ \A t \in 0 .. 15, p \in 0 .. 15 : Header(t, p) \in Byte
    /\ \A b \in Byte, c \in Byte : b + 256 * c \in Word /\ b \in Word
    /\ \A w \in Word : Lo(w) \in Byte /\ Hi(w) \in Byte
    /\ \A w \in Word, b \in Byte : 256 * Hi(w) + b \in Word /\ 256 * b + Lo(w) \in Word
<1>1. 0 \in Byte /\ 0 \in Word
  <2>1. MaxWord \in Nat
    BY DEF MaxWord
  <2> QED
    BY <2>1 DEF Byte, Word
<1>2. Addrs \subseteq Byte
  <2>1. \A r \in Requests : r.addr \in Byte
    BY RequestsAssumption
  <2> QED
    BY <1>1, <2>1 DEF Addrs
<1>3. \A b \in Byte : Type(b) \in 0 .. 15 /\ Port(b) \in 0 .. 15
  BY DEF Byte, Type, Port
<1>4. \A t \in 0 .. 15, p \in 0 .. 15 : Header(t, p) \in Byte
  BY DEF Byte, Header
<1>5. \A b \in Byte, c \in Byte : b + 256 * c \in Word /\ 256 * b + c \in Word /\ b \in Word
  <2>1. ASSUME NEW b \in Byte, NEW c \in Byte
        PROVE  b + 256 * c \in Word /\ 256 * b + c \in Word /\ b \in Word
    <3>1. b \in Nat /\ c \in Nat /\ b <= 255 /\ c <= 255
      BY DEF Byte
    <3>2. b + 256 * c \in Nat /\ b + 256 * c <= 65535
      BY <3>1
    <3>3. 256 * b + c \in Nat /\ 256 * b + c <= 65535
      BY <3>1
    <3>4. ASSUME NEW n \in Nat, n <= 65535 PROVE n \in Word
      <4>1. MaxWord \in Nat /\ n <= MaxWord
        BY <3>4 DEF MaxWord
      <4> QED
        BY <4>1 DEF Word
    <3> DEFINE d == b + 256 * c
               e == 256 * b + c
    <3>5. d \in Nat /\ d <= 65535 /\ e \in Nat /\ e <= 65535 /\ b <= 65535
      BY <3>1, <3>2, <3>3
    <3> HIDE DEF d, e
    <3>6. d \in Word /\ e \in Word /\ b \in Word
      BY <3>1, <3>4, <3>5
    <3> QED
      BY <3>6 DEF d, e
  <2> QED
    BY <2>1
<1>6. \A w \in Word : Lo(w) \in Byte /\ Hi(w) \in Byte
  BY Halves
<1> QED
  BY <1>1, <1>2, <1>3, <1>4, <1>5, <1>6

\* The master client.
LEMMA MasterTyped == ASSUME TypeInv, Clock PROVE M!TypeOK'
<1>1. /\ m.fos \in M!FosStates /\ m.fis \in M!FisStates
      /\ m.fric_inr \in Byte /\ m.rdat \in Word /\ sw.fric_out0 \in Byte
  BY SameTypes DEF TypeInv, M!TypeOK, Sw!TypeOK
<1>2. m' = [fos |-> M!NextFos(mx), fis |-> M!NextFis, fric_out |-> M!FricOut(mx),
            fric_inr |-> sw.fric_out0, rdat |-> M!NextRdat,
            rstb |-> IF m.fis = "rd_da1" THEN 1 ELSE 0]
  BY DEF Clock, M!Clock
<1>3. M!NextFos(mx) \in M!FosStates
  BY <1>1 DEF M!NextFos, M!FosStates
<1>4. M!NextFis \in M!FisStates
  BY <1>1 DEF M!NextFis, M!FisStates
<1>5. M!FricOut(mx) \in Byte
  BY Bytes, SameTypes DEF M!FricOut, TypeInv, TypedRequest
<1>6. M!NextRdat \in Word
  <2>1. CASE m.fis = "rd_da0"
    BY <1>1, <2>1, Bytes, SameTypes DEF M!NextRdat
  <2>2. CASE m.fis = "rd_da1"
    BY <1>1, <2>2, Bytes, SameTypes DEF M!NextRdat
  <2> QED
    BY <1>1, <2>1, <2>2 DEF M!NextRdat
<1> QED
  BY <1>1, <1>2, <1>3, <1>4, <1>5, <1>6, SameTypes DEF M!TypeOK

\* The slave client.
LEMMA SlaveTyped == ASSUME TypeInv, Clock PROVE S!TypeOK'
<1>1. /\ s.fis \in {"idle", "rd_adr", "wr_adr", "wr_da0", "wr_da1"}
      /\ s.fos \in {"idle", "rd_adr", "rd_da0", "rd_da1", "wr_adr"}
      /\ s.fric_inr \in Byte /\ s.port \in 0 .. 15 /\ s.addr \in Byte /\ s.wdat \in Word
      /\ sw.fric_out[SlavePort] \in Byte /\ rdat \in Word
  BY SameTypes, PortsAssumption DEF TypeInv, S!TypeOK, Sw!TypeOK
<1>2. s' = [fis |-> S!NextFis, fos |-> S!NextFos, fric_inr |-> sw.fric_out[SlavePort],
            fric_out |-> S!FricOut(rdat), port |-> s'.port, addr |-> s'.addr,
            wdat |-> S!NextWdat, wstb |-> IF s.fis = "wr_da1" THEN 1 ELSE 0]
  BY DEF Clock, S!Clock
<1>3. S!NextFis \in {"idle", "rd_adr", "wr_adr", "wr_da0", "wr_da1"}
  BY <1>1 DEF S!NextFis
<1>4. S!NextFos \in {"idle", "rd_adr", "rd_da0", "rd_da1", "wr_adr"}
  BY <1>1 DEF S!NextFos
<1>5. S!FricOut(rdat) \in Byte
  <2>1. S!ReadAck \in 0 .. 15 /\ S!WriteAck \in 0 .. 15
    BY DEF S!ReadAck, S!WriteAck
  <2> QED
    BY <1>1, <2>1, Bytes, SameTypes DEF S!FricOut
<1>6. S!NextWdat \in Word
  <2>1. CASE s.fis = "wr_da0"
    BY <1>1, <2>1, Bytes, SameTypes DEF S!NextWdat
  <2>2. CASE s.fis = "wr_da1"
    BY <1>1, <2>2, Bytes, SameTypes DEF S!NextWdat
  <2> QED
    BY <1>1, <2>1, <2>2 DEF S!NextWdat
<1>7. s'.port \in 0 .. 15 /\ s'.addr \in Byte
  BY <1>1, Bytes, SameTypes DEF Clock, S!Clock
<1> QED
  BY <1>1, <1>2, <1>3, <1>4, <1>5, <1>6, <1>7, SameTypes DEF S!TypeOK

\* The switch.
LEMMA SwitchTyped == ASSUME TypeInv, Clock PROVE Sw!TypeOK'
<1>1. /\ sw.mp \in Sw!MpStates /\ sw.fric_inr0 \in Byte
      /\ sw.psel_reg \in 0 .. 15 /\ sw.type \in 0 .. 15
      /\ sw.fric_inr \in [Ports -> Byte] /\ sw.fric_out \in [Ports -> Byte]
  BY SameTypes DEF TypeInv, Sw!TypeOK
<1>2. Sw!psel \in 0 .. 15 /\ Sw!pdat \in Byte /\ Sw!prep \in Byte
  <2>1. 0 \in 0 .. 15
    OBVIOUS
  <2> QED
    BY <1>1, <2>1, Bytes, SameTypes DEF Sw!psel, Sw!pdat, Sw!prep
<1>3. m.fric_out \in Byte /\ \A p \in Ports : In(p) \in Byte
  BY SameTypes DEF TypeInv, M!TypeOK, S!TypeOK, In, TypedXactor, XPorts
<1>4. sw' = [mp |-> Sw!NextMp, fric_inr0 |-> m.fric_out, psel_reg |-> sw'.psel_reg,
             type |-> sw'.type, fric_out0 |-> sw'.fric_out0,
             fric_inr |-> [p \in Ports |-> In(p)],
             fric_out |-> [p \in Ports |-> IF p = Sw!psel THEN Sw!pdat ELSE sw.fric_out[p]]]
  BY DEF Clock, Sw!Clock
<1>5. Sw!NextMp \in Sw!MpStates
  BY <1>1 DEF Sw!NextMp, Sw!MpStates
<1>6. sw'.psel_reg \in 0 .. 15 /\ sw'.type \in 0 .. 15
  BY <1>1, Bytes, SameTypes DEF Clock, Sw!Clock
<1>7. sw'.fric_out0 \in Byte
  BY <1>2, Bytes, SameTypes DEF Clock, Sw!Clock
<1> QED
  BY <1>1, <1>2, <1>3, <1>4, <1>5, <1>6, <1>7, SameTypes DEF Sw!TypeOK

\* A receiver takes bytes.
LEMMA ReceiverTyped ==
    ASSUME NEW r, IsReceiver(r), NEW b \in Byte
    PROVE  IsReceiver(Receives(r, b))
<1>1. /\ r.at \in {"idle", "addr", "lo", "hi", "end"} /\ r \in Receivers
      /\ r.at = "hi" => r.data \in Byte
  BY DEF IsReceiver, Receivers
<1>2. CASE r.at \in {"idle", "end"}
  <2>1. /\ Listening \in Receivers /\ Listening.at = "idle"
    BY Bytes DEF Listening, Receivers
  <2>2. b # 0 => Receives(r, b) = [at |-> "addr", type |-> Type(b), port |-> Port(b), addr |-> 0, data |-> 0]
    BY <1>2 DEF Receives, Listening
  <2>3. b = 0 => Receives(r, b) = Listening
    BY <1>2 DEF Receives
  <2>4. /\ Type(b) \in 0 .. 15 /\ Port(b) \in 0 .. 15 /\ 0 \in Byte /\ 0 \in Word
    BY Bytes
  <2>5. b # 0 => Receives(r, b) \in Receivers /\ Receives(r, b).at = "addr"
    BY <2>2, <2>4 DEF Receivers
  <2> QED
    BY <2>1, <2>3, <2>5 DEF IsReceiver
<1>3. CASE r.at = "addr"
  <2>1. \/ Receives(r, b) = [r EXCEPT !.addr = b, !.at = "lo"]
        \/ Receives(r, b) = [r EXCEPT !.addr = b, !.at = "end"]
    BY <1>3 DEF Receives
  <2> QED
    BY <1>1, <2>1 DEF IsReceiver, Receivers
<1>4. CASE r.at = "lo"
  <2>1. Receives(r, b) = [r EXCEPT !.data = b, !.at = "hi"]
    BY <1>4 DEF Receives
  <2> QED
    BY <1>1, <2>1, Bytes DEF IsReceiver, Receivers
<1>5. CASE r.at = "hi"
  <2>1. Receives(r, b) = [r EXCEPT !.data = r.data + 256 * b, !.at = "end"]
    BY <1>5 DEF Receives
  <2>2. r.data + 256 * b \in Word
    BY <1>1, <1>5, Bytes
  <2> QED
    BY <1>1, <2>1, <2>2 DEF IsReceiver, Receivers
<1> QED
  BY <1>1, <1>2, <1>3, <1>4, <1>5

\* A packet is complete only when the last one has been taken: the channel to the
\* response generator has room for it.
LEMMA Room ==
    ASSUME Shape, Stages, NEW p \in XPorts, x[p].rx.at = "end"
    PROVE  x[p].waits = <<>>
<1>1. ~Resting(p)
  BY DEF Resting, ClientRests, XPorts
<1>2. ~Still
  BY <1>1 DEF Still, XPorts
<1>3. ASSUME NEW type, Transfer(type) PROVE p = mx.port
  BY <1>1, <1>3 DEF Transfer, XPorts
<1>4. p = mx.port => ~XactorWaits /\ ~SlaveStrobes /\ ~Rests
  BY DEF XactorWaits, SlaveStrobes, Rests, ClientRests, XPorts
<1>5. ASSUME NEW inr, NEW fis, NEW fos, NEW out, Slave(inr, fis, fos, out) PROVE p # mx.port
  BY <1>5 DEF Slave, XPorts
<1>6. ASSUME NEW rx, NEW tx, NEW out, Xactor(rx, tx, out), p = mx.port PROVE x[p].waits = <<>>
  BY <1>6 DEF Xactor
<1> HIDE DEF Xactor
<1> QED
  BY <1>2, <1>3, <1>4, <1>5, <1>6
     DEF Stages, Selected, Idle, Strobe, Reply, Write1, Write2, Write3, Write4, Write5, Write6,
         Write7, WriteWait, WriteAck1, WriteAck2, WriteAck3, WriteAck4, Read1, Read2, Read3,
         Read4, Read5, ReadWait, ReadAck1, ReadAck2, ReadAck3, ReadAck4, ReadAck5,
         ReadAck6

\* The slave client takes an address that has been requested.
LEMMA Addressed ==
    ASSUME Shape, Stages, s.fis \in {"rd_adr", "wr_adr"}
    PROVE  s.fric_inr \in Addrs
<1>1. ~ClientRests(SlavePort)
  BY DEF ClientRests
<1>2. ~Still
  BY <1>1, PortsAssumption DEF Still, Resting
<1>3. ASSUME NEW type, Transfer(type) PROVE mx.port = SlavePort /\ mx.addr \in Addrs
  BY <1>1, <1>3, PortsAssumption DEF Transfer, Resting, Requested
<1>4. mx.port = SlavePort => ~XactorWaits /\ ~SlaveStrobes /\ ~Rests
  BY <1>1 DEF XactorWaits, SlaveStrobes, Rests
<1>5. ASSUME NEW inr, NEW fis, NEW fos, NEW out, Slave(inr, fis, fos, out)
      PROVE  fis \in {"rd_adr", "wr_adr"} /\ (inr = "addr" => s.fric_inr = mx.addr)
  BY <1>5 DEF Slave, Carries, Kind
<1>6. ASSUME NEW rx, NEW tx, NEW out, Xactor(rx, tx, out) PROVE mx.port # SlavePort
  BY <1>6 DEF Xactor
<1> QED
  BY <1>2, <1>3, <1>4, <1>5, <1>6
     DEF Stages, Selected, Idle, Strobe, Reply, Write1, Write2, Write3, Write4, Write5, Write6,
         Write7, WriteWait, WriteAck1, WriteAck2, WriteAck3, WriteAck4, Read1, Read2, Read3,
         Read4, Read5, ReadWait, ReadAck1, ReadAck2, ReadAck3, ReadAck4, ReadAck5,
         ReadAck6

\* A transactor at an edge.
LEMMA XactorTyped ==
    ASSUME Shape, Stages, TypeInv, Clock, NEW p \in XPorts
    PROVE  TypedXactor(x'[p])
<1> DEFINE c == x[p]
<1>1. TypedXactor(c) /\ sw.fric_out[p] \in Byte /\ c.tx \in {"idle", "header", "addr", "lo", "last"}
  BY SameTypes DEF TypeInv, Sw!TypeOK, Shape, IsXactor, XPorts
<1>2. x'[p].rx = Receives(c.rx, sw.fric_out[p])
  BY XactorStep
<1>3. IsReceiver(x'[p].rx)
  BY <1>1, <1>2, ReceiverTyped DEF TypedXactor
<1>4. x'[p].waits = <<>> \/ \E r \in Receivers : x'[p].waits = <<r>>
  <2>1. CASE c.rx.at = "end"
    <3>1. c.waits = <<>> /\ x'[p].waits = Append(c.waits, c.rx)
      BY <2>1, Room, XactorStep
    <3>2. Append(<<>>, c.rx) = <<c.rx>>
      OBVIOUS
    <3> QED
      BY <1>1, <3>1, <3>2 DEF TypedXactor, IsReceiver
  <2>2. CASE c.rx.at # "end"
    BY <1>1, <2>2, XactorStep DEF TypedXactor
  <2> QED
    BY <2>1, <2>2
<1>5. x'[p].out = SendNext(c).out /\ x'[p].resp = SendNext(c).resp
  <2>1. c = [out |-> c.out, rx |-> c.rx, waits |-> c.waits, late |-> c.late, tx |-> c.tx, resp |-> c.resp]
    BY DEF Shape, IsXactor
  <2>2. x'[p] = RecvNext(SendNext(c), sw.fric_out[p])
    BY DEF Clock, Xactors
  <2>3. SendNext(c) = [out |-> SendNext(c).out, rx |-> SendNext(c).rx, waits |-> SendNext(c).waits,
                       late |-> SendNext(c).late, tx |-> SendNext(c).tx, resp |-> SendNext(c).resp]
    BY <1>1, <2>1 DEF SendNext
  <2> HIDE DEF c
  <2> QED
    BY <2>2, <2>3 DEF RecvNext
<1>6. SendNext(c).out \in Byte
  <2>1. SendNext(c).out = CASE c.tx \in {"idle", "last"} -> 0
                            [] c.tx = "header" -> c.resp.addr
                            [] c.tx = "addr" -> Lo(c.resp.data)
                            [] c.tx = "lo" -> Hi(c.resp.data)
    BY <1>1 DEF SendNext, Shape, IsXactor
  <2>2. c.resp.addr \in Byte /\ Lo(c.resp.data) \in Byte /\ Hi(c.resp.data) \in Byte /\ 0 \in Byte
    BY <1>1, Bytes DEF TypedXactor
  <2> HIDE DEF c
  <2> QED
    BY <1>1, <2>1, <2>2
<1>7. SendNext(c).resp = c.resp \/ SendNext(c).resp = Quiet
  BY <1>1 DEF SendNext, Shape, IsXactor
<1>8. Quiet.type \in 0 .. 15 /\ Quiet.addr \in Byte /\ Quiet.data \in Word
  BY Bytes DEF Quiet
<1> HIDE DEF c
<1> QED
  BY <1>1, <1>3, <1>4, <1>5, <1>6, <1>7, <1>8 DEF TypedXactor

\* The master's transactor, and the counts of requests.
LEMMA RequestTyped == ASSUME Shape, TypeInv, Clock PROVE TypedRequest' /\ Counts'
<1>1. SendPacketAt \in {"free", "strobe", "ready", "reply"} /\ (mx.at = "free" => SendPacketAt = "free")
  BY DEF TypeInv, TypedRequest, SendPacketAt
<1>2. TypedRequest'
  BY <1>1, MxStep DEF TypeInv, TypedRequest
<1>3. /\ answers' = IF mx.at # "free" /\ SendPacketAt = "free" THEN answers + 1 ELSE answers
      /\ inChan' = inChan /\ numGenerated' = numGenerated
  BY DEF Clock, ResponseMon, Replied
<1>4. Len(inChan) \in Nat
  BY DEF Shape
<1>5. Counts'
  BY <1>1, <1>3, <1>4, MxStep DEF TypeInv, Counts
<1> QED
  BY <1>2, <1>5

\* An edge keeps the types.
LEMMA ClockTyped == ASSUME Shape, Stages, TypeInv, Clock PROVE TypeInv'
<1>1. M!TypeOK' /\ S!TypeOK' /\ Sw!TypeOK' /\ TypedRequest' /\ Counts'
  BY MasterTyped, SlaveTyped, SwitchTyped, RequestTyped
<1>2. s'.addr \in Addrs
  BY Addressed, SlaveStep DEF TypeInv
<1>3. rdat' \in Word
  <2>1. rdat' = regs'[s.addr]
    BY ServeStep
  <2>2. regs' \in [Addrs -> Word]
    BY ShapeStep DEF Shape
  <2> QED
    BY <2>1, <2>2 DEF TypeInv
<1>4. \A p \in XPorts : TypedXactor(x[p])'
  BY XactorTyped DEF TypedXactor
<1>5. ASSUME NEW p \in AllPorts PROVE IsReceiver(mon'[p].in) /\ IsReceiver(mon'[p].out)
  <2>1. In(p) \in Byte
    BY SameTypes DEF TypeInv, M!TypeOK, S!TypeOK, In, TypedXactor, XPorts, AllPorts
  <2>2. Out(p) \in Byte
    BY SameTypes DEF TypeInv, Sw!TypeOK, Out, AllPorts
  <2>3. /\ mon'[p].in = Receives(mon[p].in, In(p))
        /\ mon'[p].out = Receives(mon[p].out, Out(p))
    BY DEF Clock, Monitors
  <2> QED
    BY <2>1, <2>2, <2>3, ReceiverTyped DEF TypeInv
<1> QED
  BY <1>1, <1>2, <1>3, <1>4, <1>5 DEF TypeInv, IsReceiver

\* So does an answer.
LEMMA RespondTyped ==
    ASSUME Shape, TypeInv, NEW p \in XPorts, Respond(p)
    PROVE  TypeInv'
<1>1. UNCHANGED <<m, s, sw, mx, rdat, mon, inChan, numGenerated, answers>>
  BY DEF Respond
<1>2. ASSUME NEW q \in XPorts PROVE TypedXactor(x'[q])
  <2>1. CASE q # p
    <3>1. x'[q] = x[q]
      BY <2>1 DEF Respond, Shape
    <3> QED
      BY <3>1 DEF TypeInv
  <2>2. CASE q = p
    <3>1. PICK r \in Receivers : x[p].waits = <<r>>
      BY DEF Respond, TypeInv, TypedXactor
    <3> DEFINE type == IF r.type = Read THEN ReadAck ELSE WriteAck
    <3>2. /\ x[p].waits[1] = r /\ Tail(x[p].waits) = <<>>
          /\ r.addr \in Byte /\ type \in 0 .. 15
      BY <3>1 DEF Receivers, ReadAck, WriteAck
    <3>3. PICK d \in (IF r.type = Read THEN AnswerData ELSE {0}) :
             x' = [x EXCEPT ![p] = [x[p] EXCEPT !.out = Header(type, 0), !.tx = "header", !.late = 0,
                                                !.waits = Tail(x[p].waits),
                                                !.resp = [type |-> type, addr |-> r.addr, data |-> d]]]
      BY <3>2 DEF Respond
    <3>4. d \in Word
      BY Bytes, WordsAssumption
    <3> HIDE DEF type
    <3>5. /\ x'[p].out = Header(type, 0) /\ x'[p].waits = <<>> /\ x'[p].rx = x[p].rx
          /\ x'[p].resp = [type |-> type, addr |-> r.addr, data |-> d]
      <4>1. /\ x[p] = [out |-> x[p].out, rx |-> x[p].rx, waits |-> x[p].waits, late |-> x[p].late,
                       tx |-> x[p].tx, resp |-> x[p].resp]
            /\ x = [k \in XPorts |-> x[k]]
        BY DEF Shape, IsXactor
      <4>2. x'[p] = [x[p] EXCEPT !.out = Header(type, 0), !.tx = "header", !.late = 0,
                                 !.waits = Tail(x[p].waits),
                                 !.resp = [type |-> type, addr |-> r.addr, data |-> d]]
        BY <3>3, <4>1
      <4>3. x'[p] = [out |-> Header(type, 0), rx |-> x[p].rx, waits |-> Tail(x[p].waits), late |-> 0,
                     tx |-> "header", resp |-> [type |-> type, addr |-> r.addr, data |-> d]]
        BY <4>1, <4>2
      <4> QED
        BY <3>2, <4>3
    <3>6. Header(type, 0) \in Byte
      <4>1. 0 \in 0 .. 15
        OBVIOUS
      <4> QED
        BY <3>2, <4>1, Bytes
    <3> QED
      BY <2>2, <3>2, <3>4, <3>5, <3>6 DEF TypeInv, TypedXactor
  <2> QED
    BY <2>1, <2>2
<1> QED
  BY <1>1, <1>2
     DEF TypeInv, TypedXactor, TypedRequest, IsReceiver, Counts, M!TypeOK, S!TypeOK, Sw!TypeOK

\* The types, with what is known of the requests counted, are an invariant.
LEMMA TypeInvariant == Spec => []TypeInv
<1>1. Init => TypeInv
  <2> SUFFICES ASSUME Init PROVE TypeInv
    OBVIOUS
  <2>1. /\ 0 \in Byte /\ 0 \in Word /\ 0 \in 0 .. 15 /\ 0 \in Addrs
    BY Bytes DEF Addrs
  <2>2. M!TypeOK
    BY <2>1, SameTypes DEF Init, M!Init, M!TypeOK, M!FosStates, M!FisStates
  <2>3. S!TypeOK /\ s.addr \in Addrs
    BY <2>1, SameTypes DEF Init, S!Init, S!TypeOK
  <2>4. Sw!TypeOK
    BY <2>1, SameTypes DEF Init, Sw!Init, Sw!TypeOK, Sw!MpStates
  <2>5. TypedRequest /\ rdat \in Word /\ Counts
    BY <2>1, BenchAssumption DEF Init, TypedRequest, Counts
  <2>6. IsReceiver(Listening)
    BY <2>1 DEF IsReceiver, Receivers, Listening
  <2>7. \A p \in XPorts : TypedXactor(x[p])
    BY <2>1, <2>6 DEF Init, XactorInit, TypedXactor, Quiet
  <2>8. \A p \in AllPorts : IsReceiver(mon[p].in) /\ IsReceiver(mon[p].out)
    BY <2>6 DEF Init
  <2> QED
    BY <2>2, <2>3, <2>4, <2>5, <2>7, <2>8 DEF TypeInv
<1>2. BenchInv /\ TypeInv /\ [Next]_vars => TypeInv'
  <2> SUFFICES ASSUME Shape, Stages, TypeInv, [Next]_vars PROVE TypeInv'
    BY DEF BenchInv
  <2> USE DEF M!TypeOK, S!TypeOK, Sw!TypeOK
  <2>1. CASE Generate
    <3>1. /\ UNCHANGED <<m, s, sw, mx, rdat, x, mon, answers>>
          /\ numGenerated' = numGenerated + 1 /\ numGenerated < NumTransactions
          /\ Len(inChan) = 0 /\ Len(inChan') = 1
      BY <2>1 DEF Generate
    <3>2. Counts'
      BY <3>1, BenchAssumption DEF TypeInv, Counts
    <3> QED
      BY <3>1, <3>2 DEF TypeInv, TypedXactor, TypedRequest, IsReceiver
  <2>2. CASE MasterGet
    <3>1. /\ UNCHANGED <<m, s, sw, rdat, x, mon, answers, numGenerated>>
          /\ Len(inChan) = 1 /\ Len(inChan') = 0 /\ inChan[1] \in Requests
          /\ mx.at = "free" /\ mx'.at = "strobe"
          /\ mx'.type = inChan[1].type /\ mx'.port = inChan[1].port
          /\ mx'.addr = inChan[1].addr /\ mx'.wdat = inChan[1].data
      BY <2>2 DEF MasterGet, Shape
    <3>2. Counts'
      BY <3>1 DEF TypeInv, Counts
    <3>3. TypedRequest'
      <4>1. \A r \in Requests : r.type \in {Write, Read} /\ r.port \in Ports /\ r.addr \in Byte /\ r.data \in Word
        BY RequestsAssumption
      <4>2. \A p \in Ports : p \in 0 .. 15
        BY PortsAssumption
      <4>3. Write \in 0 .. 15 /\ Read \in 0 .. 15
        BY DEF Write, Read
      <4> QED
        BY <3>1, <4>1, <4>2, <4>3 DEF TypedRequest
    <3> QED
      BY <3>1, <3>2, <3>3 DEF TypeInv, TypedXactor, IsReceiver
  <2>3. CASE \E p \in XPorts : Respond(p)
    BY <2>3, RespondTyped
  <2>4. CASE Clock
    BY <2>4, ClockTyped
  <2>5. CASE Ended \/ UNCHANGED vars
    BY <2>5 DEF Ended, vars, TypeInv, TypedXactor, TypedRequest, IsReceiver, Counts
  <2> QED
    BY <2>1, <2>2, <2>3, <2>4, <2>5 DEF Next
<1> QED
  BY <1>1, <1>2, BenchInvariant, PTL DEF Spec, BenchInv

\* The variables of the bench keep their types, and no transactor ever has two requests
\* waiting: its channels never make a receiver late for the next packet.
THEOREM TypeCorrect == Spec => []TypeOK
<1>1. Shape /\ TypeInv => TypeOK
  <2> SUFFICES ASSUME Shape, TypeInv PROVE TypeOK
    OBVIOUS
  <2>1. \A p \in XPorts : Len(x[p].waits) <= 1 /\ x[p].out \in Byte
    <3>1. ASSUME NEW p \in XPorts PROVE Len(x[p].waits) <= 1 /\ x[p].out \in Byte
      <4>1. x[p].out \in Byte /\ (x[p].waits = <<>> \/ \E r \in Receivers : x[p].waits = <<r>>)
        BY DEF TypeInv, TypedXactor
      <4>2. Len(<<>>) = 0 /\ \A r : Len(<<r>>) = 1
        OBVIOUS
      <4>3. \A w : (w = <<>> \/ \E r \in Receivers : w = <<r>>) => Len(w) <= 1
        BY <4>2
      <4> QED
        BY <4>1, <4>3
    <3> QED
      BY <3>1
  <2>2. answers \in 0 .. numGenerated
    <3>1. Len(inChan) \in Nat
      BY DEF Shape
    <3> QED
      BY <3>1 DEF TypeInv, Counts
  <2> QED
    BY <2>1, <2>2 DEF TypeInv, TypeOK, TypedRequest, IsReceiver, Counts
<1> QED
  BY <1>1, BenchInvariant, TypeInvariant, PTL DEF BenchInv

-----------------------------------------------------------------------------
(* The theorems *)

\* Only the selected port of the switch is driven.
THEOREM QuietTheorem == Spec => []QuietPorts
<1>1. BenchInv => QuietPorts
  <2> SUFFICES ASSUME Shape, Stages, NEW q \in Ports, q # Sw!psel PROVE sw.fric_out[q] = 0
    BY DEF BenchInv, QuietPorts
  <2>1. Still => sw.fric_out[q] = 0
    BY DEF Still, Resting
  <2>2. \A type : Transfer(type) /\ q # mx.port => sw.fric_out[q] = 0
    BY DEF Transfer, Resting
  <2>3. \A type : Selected(type) => Requested /\ (sw.mp # "idle" \/ sw.fric_inr0 = 0 => Sw!psel = mx.port)
    BY Selection DEF Selected, Transfer
  <2>4. Still \/ \E type : /\ Transfer(type)
                          /\ \/ Carries(sw.fric_out[mx.port], "zero")
                             \/ Selected(type) /\ (sw.mp # "idle" \/ Carries(sw.fric_inr0, "zero"))
    BY DEF Stages, Selected, Bus, Idle, Strobe, Reply, Write1, Write2, Write3, Write4, Write5,
         Write6, Write7, WriteWait, WriteAck1, WriteAck2, WriteAck3, WriteAck4, Read1, Read2,
         Read3, Read4, Read5, ReadWait, ReadAck1, ReadAck2, ReadAck3, ReadAck4, ReadAck5,
         ReadAck6
  <2>5. \A b : Carries(b, "zero") => b = 0
    BY DEF Carries, Kind
  <2> QED
    BY <2>1, <2>2, <2>3, <2>4, <2>5
<1> QED
  BY <1>1, BenchInvariant, PTL

\* No byte of an acknowledge reaches the switch before it waits for one, or after it has
\* forwarded it.
THEOREM AwaitedTheorem == Spec => []AckAwaited
<1>1. BenchInv => AckAwaited
  <2> SUFFICES ASSUME Shape, Stages, Sw!prep # 0 PROVE sw.mp \in {"wack", "rep_adr", "rdat0", "rdat1"}
    BY DEF BenchInv, AckAwaited
  <2>1. Sw!psel \in Ports /\ sw.fric_inr[Sw!psel] # 0
    BY Selection
  <2>2. ~Still
    BY <2>1 DEF Still, Resting
  <2>3. \A type : Transfer(type) => Sw!psel = mx.port /\ sw.fric_inr[mx.port] # 0
    BY <2>1 DEF Transfer, Resting
  <2>4. Still \/ \E type : /\ Transfer(type)
                          /\ \/ Carries(sw.fric_inr[mx.port], "zero")
                             \/ sw.mp \in {"wack", "rep_adr", "rdat0", "rdat1"}
    BY DEF Stages, Selected, Bus, Idle, Strobe, Reply, Write1, Write2, Write3, Write4, Write5,
         Write6, Write7, WriteWait, WriteAck1, WriteAck2, WriteAck3, WriteAck4, Read1, Read2,
         Read3, Read4, Read5, ReadWait, ReadAck1, ReadAck2, ReadAck3, ReadAck4, ReadAck5,
         ReadAck6
  <2>5. \A b : Carries(b, "zero") => b = 0
    BY DEF Carries, Kind
  <2> QED
    BY <2>2, <2>3, <2>4, <2>5
<1> QED
  BY <1>1, BenchInvariant, PTL

\* The reply to a read is strobed one cycle after the master becomes ready again, and
\* at no other time.
THEOREM ReplyTheorem == Spec => ReadyBeforeReply
<1>1. BenchInv /\ [Next]_vars => [Clock => (m'.rstb = 1 <=> m.fos = "rd_ack" /\ M!trdy(mx))]_vars
  <2> SUFFICES ASSUME Shape, Stages, Clock
               PROVE  m'.rstb = 1 <=> m.fos = "rd_ack" /\ M!trdy(mx)
    BY DEF BenchInv
  <2>1. m'.rstb = 1 <=> m.fis = "rd_da1"
    BY MasterStep
  <2>2. m.fos = "rd_ack" => (M!trdy(mx) <=> m.fis \in {"wr_ack", "rd_da1"})
    BY DEF M!trdy, M!fis_ack
  <2>3. (m.fis = "rd_da1" => m.fos = "rd_ack") /\ (m.fos = "rd_ack" => m.fis # "wr_ack")
    BY
       DEF Stages, Still, Selected, Bus, Idle, Strobe, Reply, Write1, Write2, Write3, Write4,
           Write5, Write6, Write7,
         WriteWait, WriteAck1, WriteAck2, WriteAck3, WriteAck4, Read1, Read2, Read3,
         Read4, Read5, ReadWait, ReadAck1, ReadAck2, ReadAck3, ReadAck4, ReadAck5,
         ReadAck6
  <2> QED
    BY <2>1, <2>2, <2>3
<1> QED
  BY <1>1, BenchInvariant, PTL DEF Spec, ReadyBeforeReply

-----------------------------------------------------------------------------
(* The service *)

\* When the slave client serves, it is the selected one, and has not yet served.
LEMMA SlaveServing ==
    ASSUME Stages
    PROVE  /\ s.wstb = 1 => /\ WriteAck2 /\ mx.port = SlavePort /\ served = <<>> /\ s.fos = "idle"
                           /\ s.addr = mx.addr /\ s.wdat = mx.wdat
           /\ s.fos = "rd_adr" => /\ ReadWait /\ mx.port = SlavePort /\ served = <<>> /\ s.wstb = 0
                                 /\ s.addr = mx.addr
<1> DEFINE AtRest == s.wstb = 0 /\ s.fos # "rd_adr"
<1>1. Still => AtRest
  BY PortsAssumption DEF Still, Resting, ClientRests
<1>2. \A type : Selected(type) => Transfer(type)
  BY DEF Selected
<1>3. ASSUME NEW type, Transfer(type), mx.port # SlavePort PROVE AtRest
  BY <1>3, PortsAssumption DEF Transfer, Resting, ClientRests
<1>4. Rests /\ mx.port = SlavePort => AtRest
  BY DEF Rests, ClientRests
<1>5. /\ \A inr, fis, fos, out : Slave(inr, fis, fos, out) /\ fos # "rd_adr" => AtRest
      /\ SlaveStrobes => s.addr = mx.addr /\ s.wdat = mx.wdat
      /\ \A inr, fis, out : Slave(inr, fis, "rd_adr", out) => s.addr = mx.addr
  BY Clients DEF Slave, SlaveStrobes
<1> QED
  BY <1>1, <1>2, <1>3, <1>4, <1>5, Clients
     DEF Stages, Idle, Strobe, Reply, Write1, Write2, Write3, Write4, Write5, Write6, Write7,
         WriteWait, WriteAck1, WriteAck2, WriteAck3, WriteAck4, Read1, Read2, Read3,
         Read4, Read5, ReadWait, ReadAck1, ReadAck2, ReadAck3, ReadAck4, ReadAck5,
         ReadAck6

\* Where a request is answered.
LEMMA Replying ==
    ASSUME Shape, Stages, Clock, mx.at # "free", mx'.at = "free"
    PROVE  WriteAck4 \/ Reply
<1>1. \A type : ~Transfer(type)' /\ ~Selected(type)'
  BY DEF Transfer, Selected
<1>2. /\ ~Strobe' /\ ~Reply'
      /\ ~Write1' /\ ~Write2' /\ ~Write3' /\ ~Write4' /\ ~Write5' /\ ~Write6' /\ ~Write7'
      /\ ~WriteWait' /\ ~WriteAck1' /\ ~WriteAck2' /\ ~WriteAck3' /\ ~WriteAck4'
      /\ ~Read1' /\ ~Read2' /\ ~Read3' /\ ~Read4' /\ ~Read5' /\ ~ReadWait'
      /\ ~ReadAck1' /\ ~ReadAck2' /\ ~ReadAck3' /\ ~ReadAck4' /\ ~ReadAck5' /\ ~ReadAck6'
  BY <1>1 DEF Stages, Idle, Strobe, Reply, Write1, Write2, Write3, Write4, Write5, Write6, Write7,
         WriteWait, WriteAck1, WriteAck2, WriteAck3, WriteAck4, Read1, Read2, Read3,
         Read4, Read5, ReadWait, ReadAck1, ReadAck2, ReadAck3, ReadAck4, ReadAck5,
         ReadAck6
<1>3. ~Idle
  BY DEF Idle
<1> QED
  BY <1>2, <1>3, QuietStages, WriteStages, ReadStages DEF Stages

\* The request as the service sees it.
Req == [type |-> mx.type, port |-> mx.port, addr |-> mx.addr, data |-> mx.wdat]

\* The service begins with no request.
LEMMA ServiceInit == Init => Service!Init
<1> SUFFICES ASSUME Init PROVE Service!Init
  OBVIOUS
<1>1. (mx.at # "free") = FALSE /\ mx.data = 0 /\ served = <<>>
  BY DEF Init
<1>2. Req = Service!NoRequest
  BY DEF Init, Service!NoRequest, Req
<1>3. regs \in [Addrs -> Service!Word]
  <2>1. regs \in [Addrs -> Word]
    BY BenchInit DEF BenchInv, Shape
  <2>2. Service!Word = Word
    <3>1. Service!MaxWord = MaxWord
      BY DEF Service!MaxWord, MaxWord
    <3> QED
      BY <3>1 DEF Word, Service!Word
  <2> QED
    BY <2>1, <2>2
<1> QED
  BY <1>1, <1>2, <1>3 DEF Service!Init, Req

\* The transactor of the master asks.
LEMMA AskStep == ASSUME Shape, MasterGet PROVE Service!Ask
<1>1. /\ inChan[1] \in Requests /\ served' = <<>> /\ regs' = regs /\ mx.at = "free"
      /\ mx' = [at |-> "strobe", tstb |-> 1, type |-> inChan[1].type, port |-> inChan[1].port,
                addr |-> inChan[1].addr, wdat |-> inChan[1].data, data |-> inChan[1].data]
  BY DEF Shape, MasterGet
<1>2. inChan[1] = [type |-> inChan[1].type, port |-> inChan[1].port,
                   addr |-> inChan[1].addr, data |-> inChan[1].data]
  <2>1. \A r \in Requests : r = [type |-> r.type, port |-> r.port, addr |-> r.addr, data |-> r.data]
    BY RequestsAssumption
  <2> QED
    BY <1>1, <2>1
<1>3. Req' = inChan[1] /\ mx'.data = Req'.data /\ (mx'.at # "free") = TRUE
  <2>1. Req' = [type |-> inChan[1].type, port |-> inChan[1].port,
                addr |-> inChan[1].addr, data |-> inChan[1].data]
    BY <1>1 DEF Req
  <2>2. Req'.data = inChan[1].data
    BY <2>1
  <2> QED
    BY <1>1, <1>2, <2>1, <2>2
<1> QED
  BY <1>1, <1>3 DEF Service!Ask, Req

\* The client of the port the request names serves it: it supplies d.
LEMMA ServeRequest ==
    ASSUME NEW d,
           mx.at # "free", mx'.at # "free", served = <<>>, mx'.data = mx.data,
           mx'.type = mx.type, mx'.port = mx.port, mx'.addr = mx.addr, mx'.wdat = mx.wdat,
           served' = <<[type |-> mx.type, port |-> mx.port, addr |-> mx.addr, data |-> d]>>,
           \/ /\ mx.type = Write /\ d = mx.wdat
              /\ regs' = IF mx.port = SlavePort THEN [regs EXCEPT ![mx.addr] = mx.wdat] ELSE regs
           \/ /\ mx.type = Read /\ regs' = regs
              /\ IF mx.port = SlavePort THEN d = regs[mx.addr] ELSE d \in AnswerData
    PROVE  Service!Serve
<1>1. Req' = Req /\ (mx'.at # "free") = (mx.at # "free")
  BY DEF Req
<1>2. /\ Req.type = mx.type /\ Req.port = mx.port /\ Req.addr = mx.addr /\ Req.data = mx.wdat
      /\ \A e : [Req EXCEPT !.data = e] = [type |-> mx.type, port |-> mx.port, addr |-> mx.addr, data |-> e]
  BY DEF Req
<1> DEFINE done == [type |-> mx.type, port |-> mx.port, addr |-> mx.addr, data |-> d]
<1>3. [Req EXCEPT !.data = d] = done /\ served' = <<done>>
  BY <1>2
<1> HIDE DEF done
<1>4. served' = <<[Req EXCEPT !.data = d]>>
  BY <1>3
<1>5. Service!Write = Write /\ Service!Read = Read
  BY DEF Service!Write, Write, Service!Read, Read
<1>6. CASE mx.type = Write
  <2>1. d = mx.wdat /\ regs' = IF mx.port = SlavePort THEN [regs EXCEPT ![mx.addr] = mx.wdat] ELSE regs
    BY <1>6 DEF Read, Write
  <2>2. Service!ServeWrite
    BY <1>2, <1>4, <1>5, <1>6, <2>1 DEF Service!ServeWrite, Service!Served, Req
  <2> QED
    BY <1>1, <2>2 DEF Service!Serve, Req
<1>7. CASE mx.type = Read
  <2>1. regs' = regs /\ IF mx.port = SlavePort THEN d = regs[mx.addr] ELSE d \in AnswerData
    BY <1>7 DEF Read, Write
  <2>2. Service!ServeRead
    BY <1>2, <1>4, <1>5, <1>7, <2>1 DEF Service!ServeRead, Service!Served, Req
  <2> QED
    BY <1>1, <2>2 DEF Service!Serve, Req
<1> QED
  BY <1>6, <1>7

\* A response generator serves the request.
LEMMA RespondServe == ASSUME Shape, Stages, NEW p \in XPorts, Respond(p) PROVE Service!Serve
<1>1. /\ p = mx.port /\ p # SlavePort /\ served = <<>> /\ mx' = mx /\ regs' = regs /\ Requested
      /\ WriteWait \/ ReadWait
  BY RespondStage DEF Respond, XPorts
<1>2. mx.at # "free"
  BY <1>1 DEF WriteWait, ReadWait, Selected, Transfer
<1>3. PICK d : /\ IF mx.type = Read THEN d \in AnswerData ELSE d = mx.wdat
               /\ served' = <<[type |-> mx.type, port |-> mx.port, addr |-> mx.addr, data |-> d]>>
  BY RespondServes
<1> QED
  BY <1>1, <1>2, <1>3, ServeRequest DEF Requested, Read, Write

\* At an edge the slave client serves the request, or the request is answered, or
\* nothing of it changes.
LEMMA ClockServes ==
    ASSUME Shape, Stages, Clock
    PROVE  Service!Serve \/ Service!Reply \/ UNCHANGED Service!vars
<1>1. /\ mx'.type = mx.type /\ mx'.port = mx.port /\ mx'.addr = mx.addr /\ mx'.wdat = mx.wdat
      /\ mx'.at = SendPacketAt
      /\ mx'.data = IF mx.at # "free" /\ SendPacketAt = "free" /\ mx.type = Read THEN m.rdat ELSE mx.data
      /\ mx.at = "free" => mx'.at = "free"
  BY MxStep, MxAt
<1>2. CASE s.wstb = 1
  <2>1. WriteAck2 /\ WriteAck3'
    BY <1>2, SlaveServing, WriteStages
  <2>2. mx.at = "ready" /\ mx'.at = "ready" /\ mx.type = Write
    BY <2>1 DEF WriteAck2, WriteAck3, Selected, Transfer
  <2>3. /\ mx.port = SlavePort /\ served = <<>> /\ s.fos = "idle"
        /\ s.addr = mx.addr /\ s.wdat = mx.wdat
    BY <1>2, SlaveServing
  <2>4. /\ served' = <<[type |-> Write, port |-> SlavePort, addr |-> s.addr, data |-> s.wdat]>>
        /\ regs' = [regs EXCEPT ![s.addr] = s.wdat]
    BY <1>2, <2>3, ServeStep
  <2>5. served' = <<[type |-> mx.type, port |-> mx.port, addr |-> mx.addr, data |-> mx.wdat]>>
    BY <2>2, <2>3, <2>4
  <2>6. regs' = IF mx.port = SlavePort THEN [regs EXCEPT ![mx.addr] = mx.wdat] ELSE regs
    BY <2>3, <2>4
  <2> QED
    BY <1>1, <2>2, <2>3, <2>5, <2>6, ServeRequest
<1>3. CASE s.fos = "rd_adr"
  <2>1. ReadWait /\ (ReadWait \/ ReadAck1)'
    BY <1>3, SlaveServing, ReadStages
  <2>2. mx.at = "ready" /\ mx'.at = "ready" /\ mx.type = Read
    BY <2>1 DEF ReadWait, ReadAck1, Selected, Transfer
  <2>3. mx.port = SlavePort /\ served = <<>> /\ s.wstb = 0 /\ s.addr = mx.addr
    BY <1>3, SlaveServing
  <2>4. /\ served' = <<[type |-> Read, port |-> SlavePort, addr |-> s.addr, data |-> regs[s.addr]]>>
        /\ regs' = regs
    BY <1>3, <2>3, ServeStep
  <2>5. served' = <<[type |-> mx.type, port |-> mx.port, addr |-> mx.addr, data |-> regs[mx.addr]]>>
    BY <2>2, <2>3, <2>4
  <2> QED
    BY <1>1, <2>2, <2>3, <2>4, <2>5, ServeRequest
<1>4. CASE s.wstb # 1 /\ s.fos # "rd_adr"
  <2>1. served' = served /\ regs' = regs
    BY <1>4, ServeStep
  <2>2. Req' = Req
    BY <1>1 DEF Req
  <2>3. CASE mx.at # "free" /\ mx'.at = "free"
    <3>1. WriteAck4 \/ Reply
      BY <2>3, Replying
    <3>2. served # <<>> /\ mx'.data = IF mx.type = Read THEN Answer ELSE mx.data
      BY <1>1, <2>3, <3>1 DEF WriteAck4, Reply, Selected, Transfer, Read, Write
    <3>3. Service!Read = Read /\ Req.type = mx.type
      BY DEF Service!Read, Read, Req
    <3>4. /\ (mx.at # "free") = TRUE /\ (mx'.at # "free") = FALSE
          /\ mx'.data = IF Req.type = Service!Read THEN served[1].data ELSE mx.data
      BY <2>3, <3>2, <3>3 DEF Answer
    <3> QED
      BY <2>1, <2>2, <3>2, <3>4 DEF Service!Reply, Req
  <2>4. CASE ~(mx.at # "free" /\ mx'.at = "free")
    <3>1. (mx'.at # "free") = (mx.at # "free") /\ mx'.data = mx.data
      BY <1>1, <2>4
    <3> QED
      BY <2>1, <2>2, <3>1 DEF Service!vars, Req
  <2> QED
    BY <2>3, <2>4
<1> QED
  BY <1>2, <1>3, <1>4

\* The design and the transactors around it are the service the generator relies on:
\* each request is served once, by the client of the port it names, and answered with
\* what that client supplied.
THEOREM ServiceTheorem == Spec => RefinesService
<1>1. Init => Service!Init
  BY ServiceInit
<1>2. BenchInv /\ [Next]_vars => [Service!Next]_(Service!vars)
  <2> SUFFICES ASSUME Shape, Stages, [Next]_vars PROVE [Service!Next]_(Service!vars)
    BY DEF BenchInv
  <2>1. CASE Generate \/ Ended \/ UNCHANGED vars
    <3>1. UNCHANGED <<mx, served, regs>>
      BY <2>1 DEF Generate, Ended, vars
    <3> QED
      BY <3>1 DEF Service!vars
  <2>2. CASE MasterGet
    BY <2>2, AskStep DEF Service!Next
  <2>3. ASSUME NEW p \in XPorts, Respond(p) PROVE Service!Next
    BY <2>3, RespondServe DEF Service!Next
  <2>4. CASE Clock
    BY <2>4, ClockServes DEF Service!Next
  <2> QED
    BY <2>1, <2>2, <2>3, <2>4 DEF Next
<1> QED
  BY <1>1, <1>2, BenchInvariant, PTL DEF Spec, RefinesService, Service!Spec

-----------------------------------------------------------------------------
(* The monitors and the checker *)

\* A receiver that has heard a packet up to this place.
Heard(at, type, port, addr, data) ==
  IF at = "idle" THEN Listening
  ELSE [at |-> at, type |-> type, port |-> port,
        addr |-> IF at \in {"lo", "hi", "end"} THEN addr ELSE 0,
        data |-> CASE at = "hi" -> Lo(data) [] at = "end" -> data [] OTHER -> 0]

\* The data that go with the request and with the acknowledge.
Sent == IF mx.type = Write THEN mx.wdat ELSE 0
Returned == IF mx.type = Read THEN Answer ELSE 0

\* How far the four monitors on the way of a request have heard it, and the answer
\* with the address a: into port 0, out of the selected port, into it, out of port
\* 0; what is expected where; that the monitors of the other ports have heard nothing.
WatchedIn(in0, in, a) ==
  [p \in AllPorts |-> CASE p = 0 -> Heard(in0, mx.type, mx.port, mx.addr, Sent)
                        [] p # 0 /\ p = mx.port -> Heard(in, Ack, 0, a, Returned)
                        [] p # 0 /\ p # mx.port -> Listening]
WatchedOut(out, out0, a) ==
  [p \in AllPorts |-> CASE p = 0 -> Heard(out0, Ack, mx.port, a, Returned)
                        [] p # 0 /\ p = mx.port -> Heard(out, mx.type, 0, mx.addr, Sent)
                        [] p # 0 /\ p # mx.port -> Listening]
Expected(packet, a) ==
  [p \in AllPorts |->
     CASE packet = "request" /\ p # 0 /\ p = mx.port -> <<[port |-> 0, addr |-> mx.addr, data |-> Sent]>>
       [] packet = "answer" /\ p = 0 -> <<[port |-> mx.port, addr |-> a, data |-> Returned]>>
       [] OTHER -> <<>>]
Watched(in0, out, in, out0, packet, a) ==
  /\ mon = [p \in AllPorts |-> [in |-> WatchedIn(in0, in, a)[p], out |-> WatchedOut(out, out0, a)[p]]]
  /\ expect = Expected(packet, a)

Silent == Watched("idle", "idle", "idle", "idle", "none", 0)

\* The selected client is the slave client: the last byte of a write comes out of
\* its port when its answer goes in.
OutAtAck == IF mx.port = SlavePort THEN "end" ELSE "idle"

\* What has been heard at each stage.
WriteWatch ==
  \/ Silent /\ (Write1 \/ WriteWait)
  \/ Write2 /\ Watched("addr", "idle", "idle", "idle", "none", 0)
  \/ Write3 /\ Watched("lo", "idle", "idle", "idle", "none", 0)
  \/ Write4 /\ Watched("hi", "addr", "idle", "idle", "none", 0)
  \/ Write5 /\ Watched("end", "lo", "idle", "idle", "request", 0)
  \/ Write6 /\ Watched("idle", "hi", "idle", "idle", "request", 0)
  \/ Write7 /\ Watched("idle", "end", "idle", "idle", "none", 0)
  \/ WriteAck1 /\ Watched("idle", OutAtAck, "addr", "idle", "none", 0)
  \/ WriteAck2 /\ \E a : a = sw.fric_inr[mx.port] /\ Watched("idle", "idle", "end", "idle", "answer", a)
  \/ WriteAck3 /\ \E a : a = sw.fric_out0 /\ Watched("idle", "idle", "idle", "addr", "answer", a)
  \/ WriteAck4 /\ \E a : Watched("idle", "idle", "idle", "end", "none", a)
ReadWatch ==
  \/ Silent /\ (Read1 \/ ReadWait)
  \/ Read2 /\ Watched("addr", "idle", "idle", "idle", "none", 0)
  \/ Read3 /\ Watched("end", "idle", "idle", "idle", "request", 0)
  \/ Read4 /\ Watched("idle", "addr", "idle", "idle", "request", 0)
  \/ Read5 /\ Watched("idle", "end", "idle", "idle", "none", 0)
  \/ ReadAck1 /\ Watched("idle", "idle", "addr", "idle", "none", 0)
  \/ ReadAck2 /\ \E a : a = sw.fric_inr[mx.port] /\ Watched("idle", "idle", "lo", "idle", "none", a)
  \/ ReadAck3 /\ \E a : a = sw.fric_out0 /\ Watched("idle", "idle", "hi", "addr", "none", a)
  \/ ReadAck4 /\ \E a : Watched("idle", "idle", "end", "lo", "answer", a)
  \/ ReadAck5 /\ \E a : Watched("idle", "idle", "idle", "hi", "answer", a)
  \/ ReadAck6 /\ \E a : Watched("idle", "idle", "idle", "end", "none", a)
Watch == (Silent /\ (Idle \/ Strobe \/ Reply)) \/ WriteWatch \/ ReadWatch

\* Sequences of one element.
LEMMA SequenceFacts ==
    /\ \A e : <<e>> \o <<>> = <<e>> /\ <<>> \o <<e>> = <<e>> /\ Len(<<e>>) = 1 /\ <<e>>[1] = e
    /\ <<>> \o <<>> = <<>>
  OBVIOUS

\* The sequence of a set of at most one element.
LEMMA ShortSeqs == SetToSeq({}) = <<>> /\ \A e : SetToSeq({e}) = <<e>>
<1>1. SetToSeq({}) = <<>>
  <2> DEFINE Elems == {}
             P(f) == f \in [1 .. Cardinality(Elems) -> Elems] /\ IsInjective(f)
  <2>1. Cardinality(Elems) = 0 /\ 1 .. 0 = {}
    BY FS_EmptySet
  <2>2. \A f : f \in [1 .. Cardinality(Elems) -> Elems] => f = <<>>
    BY <2>1
  <2>3. P(<<>>)
    <3>1. <<>> \in [1 .. Cardinality(Elems) -> Elems]
      BY <2>1
    <3>2. IsInjective(<<>>)
      BY DEF IsInjective
    <3> QED
      BY <3>1, <3>2
  <2>4. SetToSeq(Elems) = CHOOSE f : P(f)
    BY DEF SetToSeq
  <2> HIDE DEF P
  <2>5. P(CHOOSE f : P(f))
    BY <2>3
  <2>6. P(SetToSeq(Elems))
    BY <2>4, <2>5
  <2> QED
    BY <2>2, <2>6 DEF P
<1>2. ASSUME NEW e PROVE SetToSeq({e}) = <<e>>
  <2> DEFINE Elems == {e}
             P(f) == f \in [1 .. Cardinality(Elems) -> Elems] /\ IsInjective(f)
  <2>1. Cardinality(Elems) = 1
    BY FS_Singleton
  <2>2. \A f : f \in [1 .. Cardinality(Elems) -> Elems] => f = <<e>>
    BY <2>1
  <2>3. P(<<e>>)
    <3>1. <<e>> \in [1 .. Cardinality(Elems) -> Elems]
      BY <2>1
    <3>2. IsInjective(<<e>>)
      BY DEF IsInjective
    <3> QED
      BY <3>1, <3>2
  <2>4. SetToSeq(Elems) = CHOOSE f : P(f)
    BY DEF SetToSeq
  <2> HIDE DEF P
  <2>5. P(CHOOSE f : P(f))
    BY <2>3
  <2>6. P(SetToSeq(Elems))
    BY <2>4, <2>5
  <2> QED
    BY <2>2, <2>6 DEF P
<1> QED
  BY <1>1, <1>2

\* A receiver takes a byte for what comes next in a packet.
LEMMA ReceivesIs ==
    ASSUME NEW r, r = [at |-> r.at, type |-> r.type, port |-> r.port, addr |-> r.addr, data |-> r.data], NEW b
    PROVE  /\ r.at \in {"idle", "end"} /\ b # 0 =>
                Receives(r, b) = [at |-> "addr", type |-> Type(b), port |-> Port(b), addr |-> 0, data |-> 0]
           /\ r.at = "addr" =>
                Receives(r, b) = [at |-> IF HasData(r.type) THEN "lo" ELSE "end", type |-> r.type,
                                  port |-> r.port, addr |-> b, data |-> r.data]
           /\ r.at = "lo" =>
                Receives(r, b) = [at |-> "hi", type |-> r.type, port |-> r.port, addr |-> r.addr, data |-> b]
           /\ r.at = "hi" =>
                Receives(r, b) = [at |-> "end", type |-> r.type, port |-> r.port, addr |-> r.addr,
                                  data |-> r.data + 256 * b]
<1>1. ASSUME r.at \in {"idle", "end"}, b # 0
      PROVE  Receives(r, b) = [at |-> "addr", type |-> Type(b), port |-> Port(b), addr |-> 0, data |-> 0]
  BY <1>1 DEF Receives, Listening
<1>2. ASSUME r.at = "addr"
      PROVE  Receives(r, b) = [at |-> IF HasData(r.type) THEN "lo" ELSE "end", type |-> r.type,
                                  port |-> r.port, addr |-> b, data |-> r.data]
  <2>1. Receives(r, b) = [r EXCEPT !.addr = b, !.at = IF HasData(r.type) THEN "lo" ELSE "end"]
    BY <1>2 DEF Receives
  <2> QED
    BY <2>1
<1>3. ASSUME r.at = "lo"
      PROVE  Receives(r, b) = [at |-> "hi", type |-> r.type, port |-> r.port, addr |-> r.addr, data |-> b]
  <2>1. Receives(r, b) = [r EXCEPT !.data = b, !.at = "hi"]
    BY <1>3 DEF Receives
  <2> QED
    BY <2>1
<1>4. ASSUME r.at = "hi"
      PROVE  Receives(r, b) = [at |-> "end", type |-> r.type, port |-> r.port, addr |-> r.addr,
                                  data |-> r.data + 256 * b]
  <2>1. Receives(r, b) = [r EXCEPT !.data = r.data + 256 * b, !.at = "end"]
    BY <1>4 DEF Receives
  <2> QED
    BY <2>1
<1> QED
  BY <1>1, <1>2, <1>3, <1>4

\* A receiver hears a packet byte by byte.
LEMMA HeardStep ==
    ASSUME NEW type \in {Write, Read, WriteAck, ReadAck}, NEW port, NEW addr, NEW data,
           HasData(type) \/ data = 0
    PROVE  /\ Receives(Heard("idle", type, port, addr, data), 0) = Listening
           /\ Receives(Heard("end", type, port, addr, data), 0) = Listening
           /\ \A b \in Byte : Type(b) = type /\ Port(b) = port =>
                Receives(Heard("idle", type, port, addr, data), b) = Heard("addr", type, port, addr, data)
           /\ Receives(Heard("addr", type, port, addr, data), addr)
                = Heard(IF HasData(type) THEN "lo" ELSE "end", type, port, addr, data)
           /\ Receives(Heard("lo", type, port, addr, data), Lo(data)) = Heard("hi", type, port, addr, data)
           /\ data \in Word =>
                Receives(Heard("hi", type, port, addr, data), Hi(data)) = Heard("end", type, port, addr, data)
<1>1. type # 0
  BY DEF Write, Read, WriteAck, ReadAck
<1>2. /\ Receives(Heard("idle", type, port, addr, data), 0) = Listening
      /\ Receives(Heard("end", type, port, addr, data), 0) = Listening
  BY DEF Heard, Receives, Listening
<1>3. ASSUME NEW b \in Byte, Type(b) = type, Port(b) = port
      PROVE  Receives(Heard("idle", type, port, addr, data), b) = Heard("addr", type, port, addr, data)
  <2>1. b # 0
    BY <1>1, <1>3, NoHeader
  <2> QED
    BY <1>3, <2>1, ReceivesIs DEF Heard, Listening
<1> DEFINE From(at) == Heard(at, type, port, addr, data)
<1>4. \A at : at # "idle" =>
        /\ From(at) = [at |-> From(at).at, type |-> From(at).type, port |-> From(at).port,
                       addr |-> From(at).addr, data |-> From(at).data]
        /\ From(at).at = at /\ From(at).type = type /\ From(at).port = port
  BY DEF Heard
<1>5. /\ From("addr").data = 0 /\ From("lo").addr = addr
      /\ From("hi").addr = addr /\ From("hi").data = Lo(data)
  BY DEF Heard
<1>6. /\ From("lo") = [at |-> "lo", type |-> type, port |-> port, addr |-> addr, data |-> 0]
      /\ From("hi") = [at |-> "hi", type |-> type, port |-> port, addr |-> addr, data |-> Lo(data)]
      /\ From("end") = [at |-> "end", type |-> type, port |-> port, addr |-> addr, data |-> data]
  BY DEF Heard
<1> HIDE DEF From
<1>7. Receives(From("addr"), addr) = From(IF HasData(type) THEN "lo" ELSE "end")
  BY <1>4, <1>5, <1>6, ReceivesIs
<1>8. Receives(From("lo"), Lo(data)) = From("hi")
  BY <1>4, <1>5, <1>6, ReceivesIs
<1>9. data \in Word => Receives(From("hi"), Hi(data)) = From("end")
  BY <1>4, <1>5, <1>6, ReceivesIs, Halves
<1> QED
  BY <1>2, <1>3, <1>7, <1>8, <1>9 DEF From

\* What the receivers at the ports have heard.
LEMMA HeardAt ==
    ASSUME NEW at, NEW type, NEW port, NEW addr, NEW data
    PROVE  /\ Complete(Heard(at, type, port, addr, data)) <=> at = "end"
           /\ at = "end" => /\ Heard(at, type, port, addr, data).port = port
                            /\ \A p : Packet(p, Heard(at, type, port, addr, data))
                                        = [port |-> p, addr |-> addr, data |-> data]
           /\ ~Complete(Listening)
  BY DEF Heard, Complete, Listening, Packet

\* The selected port is not that of the master.
LEMMA PortIsNotZero == \A p \in Ports : p # 0 /\ p \in AllPorts /\ 0 \in AllPorts
  BY PortsAssumption DEF AllPorts

\* What the checker does at an edge at which one packet at most is complete.
LEMMA CheckerStep ==
    ASSUME Shape, Clock, mx.port \in Ports,
           NEW in0, NEW out, NEW in, NEW out0, NEW packet, NEW a, NEW next, NEW b,
           mon' = [p \in AllPorts |-> [in |-> WatchedIn(in0, in, b)'[p], out |-> WatchedOut(out, out0, b)'[p]]],
           expect = Expected(packet, a),
           \/ /\ in0 # "end" /\ out # "end" /\ in # "end" /\ out0 # "end" /\ next = packet
              /\ packet = "answer" => a = b /\ Returned' = Returned
           \/ in0 = "end" /\ out # "end" /\ in # "end" /\ out0 # "end" /\ packet = "none" /\ next = "request"
           \/ in0 # "end" /\ out = "end" /\ in # "end" /\ out0 # "end" /\ packet = "request" /\ next = "none"
           \/ in0 # "end" /\ out # "end" /\ in = "end" /\ out0 # "end" /\ packet = "none" /\ next = "answer"
           \/ /\ in0 # "end" /\ out # "end" /\ in # "end" /\ out0 = "end" /\ packet = "answer" /\ next = "none"
              /\ a = b /\ Returned' = Returned
    PROVE  expect' = Expected(next, b)' /\ ~Unexpected
<1>1. /\ mx.port # 0 /\ mx.port \in AllPorts /\ 0 \in AllPorts
      /\ mx'.port = mx.port /\ mx'.type = mx.type /\ mx'.addr = mx.addr /\ mx'.wdat = mx.wdat
      /\ Ack' = Ack /\ Sent' = Sent
  BY PortIsNotZero, MxStep DEF Ack, Sent
<1> DEFINE Request == [port |-> 0, addr |-> mx.addr, data |-> Sent]
           Reply1 == [port |-> mx.port, addr |-> b, data |-> Returned']
<1>2. ASSUME NEW p \in AllPorts
      PROVE  /\ Complete(mon'[p].in) <=> (p = 0 /\ in0 = "end") \/ (p = mx.port /\ in = "end")
             /\ Complete(mon'[p].out) <=> (p = 0 /\ out0 = "end") \/ (p = mx.port /\ out = "end")
             /\ p = 0 /\ in0 = "end" => mon'[p].in.port = mx.port /\ Packet(p, mon'[p].in) = Request
             /\ p = mx.port /\ in = "end" => mon'[p].in.port = 0 /\ Packet(p, mon'[p].in) = Reply1
             /\ p = 0 /\ out0 = "end" => Packet(mon'[p].out.port, mon'[p].out) = Reply1
             /\ p = mx.port /\ out = "end" => Packet(mon'[p].out.port, mon'[p].out) = Request
  <2>1. mon'[p].in = WatchedIn(in0, in, b)'[p] /\ mon'[p].out = WatchedOut(out, out0, b)'[p]
    OBVIOUS
  <2>2. CASE p = 0
    <3>1. /\ mon'[p].in = Heard(in0, mx.type, mx.port, mx.addr, Sent)
          /\ mon'[p].out = Heard(out0, Ack, mx.port, b, Returned')
      BY <1>1, <2>1, <2>2 DEF WatchedIn, WatchedOut
    <3> QED
      BY <1>1, <2>2, <3>1, HeardAt
  <2>3. CASE p = mx.port
    <3>1. /\ mon'[p].in = Heard(in, Ack, 0, b, Returned')
          /\ mon'[p].out = Heard(out, mx.type, 0, mx.addr, Sent)
      BY <1>1, <2>1, <2>3 DEF WatchedIn, WatchedOut
    <3> QED
      BY <1>1, <2>3, <3>1, HeardAt
  <2>4. CASE p # 0 /\ p # mx.port
    <3>1. mon'[p].in = Listening /\ mon'[p].out = Listening
      BY <1>1, <2>1, <2>4 DEF WatchedIn, WatchedOut
    <3> QED
      BY <2>4, <3>1, HeardAt
  <2> QED
    BY <2>2, <2>3, <2>4
<1> HIDE DEF Request, Reply1
<1>3. ASSUME NEW q \in AllPorts
      PROVE  /\ in0 = "end" /\ in # "end" /\ q = mx.port => Arrivals(q) = {Request}
             /\ in0 = "end" /\ in # "end" /\ q # mx.port => Arrivals(q) = {}
             /\ in = "end" /\ in0 # "end" /\ q = 0 => Arrivals(q) = {Reply1}
             /\ in = "end" /\ in0 # "end" /\ q # 0 => Arrivals(q) = {}
             /\ in # "end" /\ in0 # "end" => Arrivals(q) = {}
  <2> DEFINE R == {r \in AllPorts : Complete(mon'[r].in) /\ mon'[r].in.port = q}
  <2>1. Arrivals(q) = {Packet(p, mon'[p].in) : p \in R}
    BY DEF Arrivals
  <2>2. /\ in0 = "end" /\ in # "end" /\ q = mx.port => R = {0}
        /\ in0 = "end" /\ in # "end" /\ q # mx.port => R = {}
        /\ in = "end" /\ in0 # "end" /\ q = 0 => R = {mx.port}
        /\ in = "end" /\ in0 # "end" /\ q # 0 => R = {}
        /\ in # "end" /\ in0 # "end" => R = {}
    <3>1. \A r \in AllPorts : /\ Complete(mon'[r].in) <=> (r = 0 /\ in0 = "end") \/ (r = mx.port /\ in = "end")
                              /\ r = 0 /\ in0 = "end" => mon'[r].in.port = mx.port
                              /\ r = mx.port /\ in = "end" => mon'[r].in.port = 0
      BY <1>2
    <3>2. mx.port # 0 /\ mx.port \in AllPorts /\ 0 \in AllPorts
      BY <1>1
    <3>3. CASE in0 = "end" /\ in # "end"
      BY ONLY <3>1, <3>2, <3>3, q \in AllPorts
    <3>4. CASE in0 # "end" /\ in = "end"
      BY ONLY <3>1, <3>2, <3>4, q \in AllPorts
    <3>5. CASE in0 # "end" /\ in # "end"
      BY ONLY <3>1, <3>2, <3>5, q \in AllPorts
    <3> QED
      BY <3>3, <3>4, <3>5
  <2>3. /\ R = {0} /\ in0 = "end" => {Packet(p, mon'[p].in) : p \in R} = {Request}
        /\ R = {mx.port} /\ in = "end" => {Packet(p, mon'[p].in) : p \in R} = {Reply1}
        /\ R = {} => {Packet(p, mon'[p].in) : p \in R} = {}
    <3>1. /\ in0 = "end" => Packet(0, mon'[0].in) = Request
          /\ in = "end" => Packet(mx.port, mon'[mx.port].in) = Reply1
      BY <1>1, <1>2
    <3> HIDE DEF R
    <3> QED
      BY <3>1
  <2> HIDE DEF R
  <2> QED
    BY <2>1, <2>2, <2>3
<1>4. ASSUME NEW q \in AllPorts
      PROVE  /\ Leaves(q) <=> (q = 0 /\ out0 = "end") \/ (q = mx.port /\ out = "end")
             /\ Leaves(q) => Departing(q) = IF q = 0 THEN Reply1 ELSE Request
  BY <1>1, <1>2 DEF Leaves, Departing
<1>5. ASSUME NEW q \in AllPorts
      PROVE  /\ expect'[q] = (IF Leaves(q) /\ Matched(q) > 0 THEN RemoveAt(expect[q], Matched(q)) ELSE expect[q])
                                \o SetToSeq(Arrivals(q))
             /\ expect'[q] = expect'[q]
  BY DEF Clock, Checker
<1>6. ASSUME NEW q \in AllPorts
      PROVE  /\ expect[q] = CASE packet = "request" /\ q = mx.port -> <<Request>>
                              [] packet = "answer" /\ q = 0 -> <<[port |-> mx.port, addr |-> a, data |-> Returned]>>
                              [] OTHER -> <<>>
             /\ Expected(next, b)'[q] = CASE next = "request" /\ q = mx.port -> <<Request>>
                                          [] next = "answer" /\ q = 0 -> <<Reply1>>
                                          [] OTHER -> <<>>
  BY <1>1 DEF Expected, Request, Reply1
<1>7. ASSUME NEW q \in AllPorts
      PROVE  expect'[q] = Expected(next, b)'[q] /\ ~(Leaves(q) /\ Matched(q) = 0)
  <2>1. CASE Leaves(q)
    <3>1. /\ expect[q] = <<Departing(q)>> /\ Arrivals(q) = {} /\ Expected(next, b)'[q] = <<>>
      BY <1>1, <1>3, <1>4, <1>6, <2>1 DEF Reply1
    <3>2. Matched(q) = 1 /\ RemoveAt(expect[q], 1) = <<>>
      <4>1. /\ {i \in 1 .. Len(<<Departing(q)>>) : <<Departing(q)>>[i] = Departing(q)} = {1}
            /\ RemoveAt(<<Departing(q)>>, 1) = <<>>
        BY SequenceFacts DEF RemoveAt
      <4>2. Min({1}) = 1
        BY DEF Min
      <4> QED
        BY <3>1, <4>1, <4>2 DEF Matched, SelectInSeq
    <3>3. expect'[q] = <<>> \o <<>>
      <4>1. Leaves(q) /\ Matched(q) > 0 /\ SetToSeq(Arrivals(q)) = <<>>
        BY <2>1, <3>1, <3>2, ShortSeqs
      <4>2. expect'[q] = RemoveAt(expect[q], Matched(q)) \o SetToSeq(Arrivals(q))
        BY <1>5, <4>1
      <4> QED
        BY <3>2, <4>1, <4>2
    <3> QED
      BY <3>1, <3>2, <3>3, SequenceFacts
  <2>2. CASE ~Leaves(q) /\ Arrivals(q) = {}
    <3>1. expect[q] = Expected(next, b)'[q]
      BY <1>1, <1>3, <1>4, <1>6, <2>2 DEF Reply1
    <3>2. expect[q] = <<>> \/ \E e : expect[q] = <<e>>
      BY <1>6
    <3> QED
      BY <1>5, <2>2, <3>1, <3>2, ShortSeqs, SequenceFacts
  <2>3. CASE ~Leaves(q) /\ Arrivals(q) # {}
    <3>1. PICK e : Arrivals(q) = {e} /\ expect[q] = <<>> /\ Expected(next, b)'[q] = <<e>>
      BY <1>1, <1>3, <1>4, <1>6, <2>3
    <3> QED
      BY <1>5, <2>3, <3>1, ShortSeqs, SequenceFacts
  <2> QED
    BY <2>1, <2>2, <2>3
<1>8. expect' = [q \in AllPorts |-> expect'[q]] /\ Expected(next, b)' = [q \in AllPorts |-> Expected(next, b)'[q]]
  BY DEF Clock, Checker, Expected
<1>9. expect' = Expected(next, b)'
  BY <1>7, <1>8
<1> QED
  BY <1>7, <1>9 DEF Unexpected

\* Nor is that of the slave client.
LEMMA SlaveNotZero == SlavePort # 0 /\ SlavePort \in Ports
  BY PortsAssumption

\* The monitors hear the bytes of a request and of its answer at their ports, and
\* zeros at the others.
LEMMA WatchStep ==
    ASSUME Shape, Clock, mx.port \in Ports, \A q \in Ports \ {mx.port} : Resting(q),
           NEW in0, NEW out, NEW in, NEW out0, NEW packet, NEW a,
           NEW to0, NEW from, NEW to, NEW from0, NEW next, NEW b,
           Watched(in0, out, in, out0, packet, a),
           Receives(Heard(in0, mx.type, mx.port, mx.addr, Sent), m.fric_out)
             = Heard(to0, mx.type, mx.port, mx.addr, Sent),
           Receives(Heard(out, mx.type, 0, mx.addr, Sent), sw.fric_out[mx.port])
             = Heard(from, mx.type, 0, mx.addr, Sent),
           Receives(Heard(in, Ack, 0, a, Returned), In(mx.port)) = Heard(to, Ack, 0, b, Returned'),
           Receives(Heard(out0, Ack, mx.port, a, Returned), sw.fric_out0)
             = Heard(from0, Ack, mx.port, b, Returned'),
           \/ /\ to0 # "end" /\ from # "end" /\ to # "end" /\ from0 # "end" /\ next = packet
              /\ packet = "answer" => a = b /\ Returned' = Returned
           \/ to0 = "end" /\ from # "end" /\ to # "end" /\ from0 # "end" /\ packet = "none" /\ next = "request"
           \/ to0 # "end" /\ from = "end" /\ to # "end" /\ from0 # "end" /\ packet = "request" /\ next = "none"
           \/ to0 # "end" /\ from # "end" /\ to = "end" /\ from0 # "end" /\ packet = "none" /\ next = "answer"
           \/ /\ to0 # "end" /\ from # "end" /\ to # "end" /\ from0 = "end" /\ packet = "answer" /\ next = "none"
              /\ a = b /\ Returned' = Returned
    PROVE  Watched(to0, from, to, from0, next, b)' /\ ~Unexpected
<1>1. /\ mx.port # 0 /\ mx.port \in AllPorts /\ 0 \in AllPorts
      /\ mx'.port = mx.port /\ mx'.type = mx.type /\ mx'.addr = mx.addr /\ mx'.wdat = mx.wdat
      /\ Ack' = Ack /\ Sent' = Sent
  BY PortIsNotZero, MxStep DEF Ack, Sent
<1>2. ASSUME NEW p \in AllPorts
      PROVE  /\ Receives(WatchedIn(in0, in, a)[p], In(p)) = WatchedIn(to0, to, b)'[p]
             /\ Receives(WatchedOut(out, out0, a)[p], Out(p)) = WatchedOut(from, from0, b)'[p]
  <2>1. CASE p = 0
    <3>1. In(p) = m.fric_out /\ Out(p) = sw.fric_out0
      BY <2>1, SlaveNotZero DEF In, Out
    <3>2. /\ WatchedIn(in0, in, a)[p] = Heard(in0, mx.type, mx.port, mx.addr, Sent)
          /\ WatchedOut(out, out0, a)[p] = Heard(out0, Ack, mx.port, a, Returned)
          /\ WatchedIn(to0, to, b)'[p] = Heard(to0, mx.type, mx.port, mx.addr, Sent)
          /\ WatchedOut(from, from0, b)'[p] = Heard(from0, Ack, mx.port, b, Returned')
      BY <1>1, <2>1 DEF WatchedIn, WatchedOut
    <3> QED
      BY <3>1, <3>2
  <2>2. CASE p = mx.port
    <3>1. Out(p) = sw.fric_out[mx.port]
      BY <1>1, <2>2 DEF Out
    <3>2. /\ WatchedIn(in0, in, a)[p] = Heard(in, Ack, 0, a, Returned)
          /\ WatchedOut(out, out0, a)[p] = Heard(out, mx.type, 0, mx.addr, Sent)
          /\ WatchedIn(to0, to, b)'[p] = Heard(to, Ack, 0, b, Returned')
          /\ WatchedOut(from, from0, b)'[p] = Heard(from, mx.type, 0, mx.addr, Sent)
      BY <1>1, <2>2 DEF WatchedIn, WatchedOut
    <3> QED
      BY <2>2, <3>1, <3>2
  <2>3. CASE p # 0 /\ p # mx.port
    <3>1. In(p) = 0 /\ Out(p) = 0
      BY <2>3 DEF In, Out, AllPorts, Resting, ClientRests
    <3>2. /\ WatchedIn(in0, in, a)[p] = Listening /\ WatchedIn(to0, to, b)'[p] = Listening
          /\ WatchedOut(out, out0, a)[p] = Listening /\ WatchedOut(from, from0, b)'[p] = Listening
      BY <1>1, <2>3 DEF WatchedIn, WatchedOut
    <3>3. Receives(Listening, 0) = Listening
      BY DEF Receives, Listening
    <3> QED
      BY <3>1, <3>2, <3>3
  <2> QED
    BY <2>1, <2>2, <2>3
<1>3. /\ mon = [p \in AllPorts |-> [in |-> WatchedIn(in0, in, a)[p], out |-> WatchedOut(out, out0, a)[p]]]
      /\ expect = Expected(packet, a)
  BY DEF Watched
<1>4. mon' = [p \in AllPorts |-> [in |-> WatchedIn(to0, to, b)'[p], out |-> WatchedOut(from, from0, b)'[p]]]
  <2>1. mon' = [p \in AllPorts |-> [in  |-> Receives(mon[p].in, In(p)), out |-> Receives(mon[p].out, Out(p))]]
    BY DEF Clock, Monitors
  <2>2. \A p \in AllPorts : mon[p].in = WatchedIn(in0, in, a)[p] /\ mon[p].out = WatchedOut(out, out0, a)[p]
    BY <1>3
  <2> QED
    BY <1>2, <2>1, <2>2
<1>5. expect' = Expected(next, b)' /\ ~Unexpected
  BY <1>1, <1>3, <1>4, CheckerStep
<1> QED
  BY <1>4, <1>5 DEF Watched

\* Silence says nothing of a request.
LEMMA SilentIs ==
    Silent <=> /\ mon = [p \in AllPorts |-> [in |-> Listening, out |-> Listening]]
               /\ expect = [p \in AllPorts |-> <<>>]
<1>1. Expected("none", 0) = [p \in AllPorts |-> <<>>]
  BY DEF Expected
<1>2. /\ WatchedIn("idle", "idle", 0) = [p \in AllPorts |-> Listening]
      /\ WatchedOut("idle", "idle", 0) = [p \in AllPorts |-> Listening]
  BY DEF WatchedIn, WatchedOut, Heard
<1> QED
  BY <1>1, <1>2 DEF Silent, Watched

\* Silence after a step says nothing of a request either.
LEMMA SilentNext ==
    ASSUME mon' = [p \in AllPorts |-> [in |-> Listening, out |-> Listening]],
           expect' = [p \in AllPorts |-> <<>>]
    PROVE  Silent'
<1>1. Expected("none", 0)' = [p \in AllPorts |-> <<>>]
  BY DEF Expected
<1>2. /\ WatchedIn("idle", "idle", 0)' = [p \in AllPorts |-> Listening]
      /\ WatchedOut("idle", "idle", 0)' = [p \in AllPorts |-> Listening]
  BY DEF WatchedIn, WatchedOut, Heard
<1> QED
  BY <1>1, <1>2 DEF Silent, Watched

\* Silence lasts as long as nothing is on the wires.
LEMMA SilentStep ==
    ASSUME Clock, Silent, m.fric_out = 0, sw.fric_out0 = 0,
           \A q \in Ports : In(q) = 0 /\ sw.fric_out[q] = 0
    PROVE  Silent' /\ ~Unexpected
<1>1. /\ mon = [p \in AllPorts |-> [in |-> Listening, out |-> Listening]]
      /\ expect = [p \in AllPorts |-> <<>>]
  BY SilentIs
<1>2. ASSUME NEW p \in AllPorts PROVE In(p) = 0 /\ Out(p) = 0
  BY SlaveNotZero DEF In, Out, AllPorts
<1>3. Receives(Listening, 0) = Listening /\ ~Complete(Listening)
  BY DEF Receives, Listening, Complete
<1>4. mon' = [p \in AllPorts |-> [in |-> Listening, out |-> Listening]]
  <2>1. mon' = [p \in AllPorts |-> [in  |-> Receives(mon[p].in, In(p)), out |-> Receives(mon[p].out, Out(p))]]
    BY DEF Clock, Monitors
  <2> QED
    BY <1>1, <1>2, <1>3, <2>1
<1>5. \A q \in AllPorts : ~Leaves(q) /\ Arrivals(q) = {}
  BY <1>3, <1>4 DEF Leaves, Arrivals
<1>6. expect' = [q \in AllPorts |-> <<>>]
  <2>1. \A q \in AllPorts : expect'[q] = <<>>
    BY <1>1, <1>5, ShortSeqs, SequenceFacts DEF Clock, Checker
  <2> QED
    BY <2>1 DEF Clock, Checker
<1> QED
  BY <1>4, <1>5, <1>6, SilentNext DEF Unexpected

\* A receiver that has heard a packet of this type up to a place hears a byte of this kind.
Hears(at, kind, type, to) ==
  \/ at \in {"idle", "end"} /\ kind = "zero" /\ to = "idle"
  \/ at = "idle" /\ kind = "header" /\ to = "addr"
  \/ at = "addr" /\ kind = "addr" /\ to = IF HasData(type) THEN "lo" ELSE "end"
  \/ at = "lo" /\ kind = "low" /\ HasData(type) /\ to = "hi"
  \/ at = "hi" /\ kind = "high" /\ HasData(type) /\ to = "end"

\* The byte b is of this kind in a packet.
Part(b, kind, type, port, addr, data) ==
  /\ kind = "zero" => b = 0
  /\ kind = "header" => b \in Byte /\ Type(b) = type /\ Port(b) = port
  /\ kind = "addr" => b = addr
  /\ kind = "low" => b = Lo(data)
  /\ kind = "high" => b = Hi(data)

\* A receiver that has heard a packet so far hears its next part, whatever of it was open.
LEMMA PartHeard ==
    ASSUME NEW type \in {Write, Read, WriteAck, ReadAck}, NEW port, NEW b, NEW kind, NEW at, NEW to,
           NEW addr, NEW data, NEW addr1, NEW data1,
           kind = "high" => data1 \in Word, HasData(type) \/ (data = 0 /\ data1 = 0),
           Part(b, kind, type, port, addr1, data1), Hears(at, kind, type, to),
           at \in {"lo", "hi"} => addr = addr1 /\ data = data1
    PROVE  Receives(Heard(at, type, port, addr, data), b) = Heard(to, type, port, addr1, data1)
<1>1. \A ad, da : /\ Heard("idle", type, port, ad, da) = Listening
                  /\ Heard("addr", type, port, ad, da)
                       = [at |-> "addr", type |-> type, port |-> port, addr |-> 0, data |-> 0]
  BY DEF Heard
<1>2. CASE at \in {"idle", "end"} /\ kind = "zero" /\ to = "idle"
  BY <1>1, <1>2, HeardStep DEF Part
<1>3. CASE at = "idle" /\ kind = "header" /\ to = "addr"
  BY <1>1, <1>3, HeardStep DEF Part
<1>4. CASE at = "addr" /\ kind = "addr" /\ to = IF HasData(type) THEN "lo" ELSE "end"
  BY <1>1, <1>4, HeardStep DEF Part
<1>5. CASE at = "lo" /\ kind = "low" /\ HasData(type) /\ to = "hi"
  BY <1>5, HeardStep DEF Part
<1>6. CASE at = "hi" /\ kind = "high" /\ HasData(type) /\ to = "end"
  BY <1>6, HeardStep DEF Part
<1> QED
  BY <1>2, <1>3, <1>4, <1>5, <1>6 DEF Hears

\* What a byte on the way of a request is in a packet.
AsPart(kind) ==
  CASE kind \in {"request", "forwarded", "ack", "named_ack"} -> "header"
    [] kind \in {"addr", "any"} -> "addr"
    [] kind \in {"low", "answer_lo"} -> "low"
    [] kind \in {"high", "answer_hi"} -> "high"
    [] OTHER -> "zero"

\* The bytes on the way of a request are the parts of its packet.
LEMMA PartOfRequest ==
    ASSUME Requested, NEW b, NEW kind, Carries(b, kind), NEW port,
           kind \in {"zero", "addr"} \/ (kind = "request" /\ port = mx.port) \/ (kind = "forwarded" /\ port = 0)
             \/ (kind \in {"low", "high"} /\ mx.type = Write)
    PROVE  Part(b, AsPart(kind), mx.type, port, mx.addr, Sent)
<1>1. \A p \in Ports : p \in 0 .. 15
  BY PortsAssumption
<1>2. mx.type \in {Write, Read, WriteAck, ReadAck} /\ mx.port \in 0 .. 15
  BY <1>1 DEF Requested
<1>3. Header(mx.type, mx.port) \in Byte /\ Type(Header(mx.type, mx.port)) = mx.type
      /\ Port(Header(mx.type, mx.port)) = mx.port
  BY <1>2, Headers
<1> QED
  BY <1>3 DEF Carries, Kind, Part, Sent, AsPart

\* The bytes on the way of an answer are the parts of its packet.
LEMMA PartOfAnswer ==
    ASSUME NEW b, NEW kind, NEW type, NEW port, NEW addr, NEW wdat, NEW answer,
           Kind(b, kind, type, port, addr, wdat, answer), NEW from, NEW a,
           \/ kind = "zero" \/ (kind = "any" /\ a = b)
           \/ (kind = "ack" /\ from = 0) \/ (kind = "named_ack" /\ from = port)
           \/ (kind \in {"answer_lo", "answer_hi"} /\ type = Read)
    PROVE  Part(b, AsPart(kind), IF type = Read THEN ReadAck ELSE WriteAck, from, a,
                IF type = Read THEN answer ELSE 0)
  BY DEF Kind, Part, AsPart

\* At most one of the monitors has just heard the end of a packet, and the checker
\* expects the request between its way in and its way out, and the answer likewise.
Course(to0, from, to, from0, packet, next) ==
  \/ to0 # "end" /\ from # "end" /\ to # "end" /\ from0 # "end" /\ next = packet
  \/ to0 = "end" /\ from # "end" /\ to # "end" /\ from0 # "end" /\ packet = "none" /\ next = "request"
  \/ to0 # "end" /\ from = "end" /\ to # "end" /\ from0 # "end" /\ packet = "request" /\ next = "none"
  \/ to0 # "end" /\ from # "end" /\ to = "end" /\ from0 # "end" /\ packet = "none" /\ next = "answer"
  \/ to0 # "end" /\ from # "end" /\ to # "end" /\ from0 = "end" /\ packet = "answer" /\ next = "none"

\* The byte is of one of these kinds; a byte of data goes with the wanted type only.
ToHear(kinds, kind, type, wanted) ==
  kind \in kinds /\ (kind \in {"low", "high", "answer_lo", "answer_hi"} => type = wanted)

\* What the bytes of four kinds, into port 0, out of the selected port, into it and out
\* of port 0, do to the receivers and to what is expected.
Hearing(type, k0, k1, k2, k3, i0, o, i, o0, to0, from, to, from0, packet, next) ==
  /\ ToHear({"zero", "request", "addr", "low", "high"}, k0, type, Write)
  /\ ToHear({"zero", "forwarded", "addr", "low", "high"}, k1, type, Write)
  /\ ToHear({"zero", "ack", "any", "answer_lo", "answer_hi"}, k2, type, Read)
  /\ ToHear({"zero", "named_ack", "any", "answer_lo", "answer_hi"}, k3, type, Read)
  /\ Hears(i0, AsPart(k0), type, to0) /\ Hears(o, AsPart(k1), type, from)
  /\ Hears(i, AsPart(k2), Ack, to) /\ Hears(o0, AsPart(k3), Ack, from0)
  /\ Course(to0, from, to, from0, packet, next)

\* At an edge of a transfer the monitors hear the bytes that are on the wires.
LEMMA WatchBus ==
    ASSUME Shape, Clock, NEW type, Transfer(type),
           NEW fos, NEW k0, NEW in0, NEW mp, NEW k1, NEW answer, NEW k3, NEW inr, NEW fis,
           Bus(fos, k0, in0, mp, k1, answer, k3, inr, fis), NEW k2, Carries(sw.fric_inr[mx.port], k2)',
           NEW i0, NEW o, NEW i, NEW o0, NEW packet, NEW a, Watched(i0, o, i, o0, packet, a),
           NEW to0, NEW from, NEW to, NEW from0, NEW next, NEW b,
           Hearing(type, k0, k1, k2, k3, i0, o, i, o0, to0, from, to, from0, packet, next),
           k2 = "any" => b = sw'.fric_inr[mx.port], k3 = "any" => b = sw.fric_out0,
           \/ i \notin {"lo", "hi"} /\ o0 \notin {"lo", "hi"} /\ packet # "answer"
                /\ k3 \notin {"answer_lo", "answer_hi"} /\ k2 # "answer_hi"
           \/ a = b /\ Returned' = Returned /\ (type = Read => Answer' = Answer /\ Answer \in Word)
    PROVE  Watched(to0, from, to, from0, next, b)' /\ ~Unexpected
<1>0. /\ ToHear({"zero", "request", "addr", "low", "high"}, k0, type, Write)
      /\ ToHear({"zero", "forwarded", "addr", "low", "high"}, k1, type, Write)
      /\ ToHear({"zero", "ack", "any", "answer_lo", "answer_hi"}, k2, type, Read)
      /\ ToHear({"zero", "named_ack", "any", "answer_lo", "answer_hi"}, k3, type, Read)
      /\ Hears(i0, AsPart(k0), type, to0) /\ Hears(o, AsPart(k1), type, from)
      /\ Hears(i, AsPart(k2), Ack, to) /\ Hears(o0, AsPart(k3), Ack, from0)
      /\ Course(to0, from, to, from0, packet, next)
  BY DEF Hearing
<1>1. /\ Requested /\ mx.type = type /\ mx.port \in Ports /\ \A q \in Ports \ {mx.port} : Resting(q)
      /\ type \in {Write, Read} /\ mx.wdat \in Word
  BY DEF Transfer, Requested
<1>2. /\ mx'.port = mx.port /\ mx'.type = mx.type /\ mx'.addr = mx.addr /\ mx'.wdat = mx.wdat
      /\ Ack' = Ack
  BY MxStep DEF Ack
<1>3. /\ Carries(m.fric_out, k0) /\ Carries(sw.fric_out[mx.port], k1) /\ Carries(sw.fric_out0, k3)
  BY DEF Bus
<1>4. In(mx.port) = sw'.fric_inr[mx.port] /\ mx.port # 0
  BY <1>1, InputStep, PortIsNotZero DEF In
<1>5. Part(m.fric_out, AsPart(k0), mx.type, mx.port, mx.addr, Sent)
  BY <1>0, <1>1, <1>3, PartOfRequest DEF ToHear
<1>6. Part(sw.fric_out[mx.port], AsPart(k1), mx.type, 0, mx.addr, Sent)
  BY <1>0, <1>1, <1>3, PartOfRequest DEF ToHear
<1>7. Part(In(mx.port), AsPart(k2), Ack, 0, b, Returned')
  <2>1. Kind(sw'.fric_inr[mx.port], k2, mx.type, mx.port, mx.addr, mx.wdat, Answer')
    BY <1>2 DEF Carries
  <2>2. Returned' = IF mx.type = Read THEN Answer' ELSE 0
    BY <1>2 DEF Returned
  <2> QED
    BY <1>0, <1>1, <1>4, <2>1, <2>2, PartOfAnswer DEF ToHear, Ack
<1>8. Part(sw.fric_out0, AsPart(k3), Ack, mx.port, b, Returned')
  <2>1. Kind(sw.fric_out0, k3, mx.type, mx.port, mx.addr, mx.wdat, Answer)
    BY <1>3 DEF Carries
  <2>2. Kind(sw.fric_out0, k3, mx.type, mx.port, mx.addr, mx.wdat, Answer')
    <3>1. CASE Answer' = Answer
      BY <2>1, <3>1
    <3>2. CASE k3 \notin {"answer_lo", "answer_hi"}
      BY <2>1, <3>2 DEF Kind
    <3> QED
      BY <1>0, <1>1, <3>1, <3>2 DEF ToHear
  <2>3. Returned' = IF mx.type = Read THEN Answer' ELSE 0
    BY <1>2 DEF Returned
  <2> QED
    BY <1>0, <1>1, <2>2, <2>3, PartOfAnswer DEF ToHear, Ack
<1>9. /\ mx.type \in {Write, Read, WriteAck, ReadAck} /\ Ack \in {Write, Read, WriteAck, ReadAck}
      /\ HasData(mx.type) \/ Sent = 0
      /\ HasData(Ack) \/ (Returned = 0 /\ Returned' = 0)
  BY <1>1, <1>2 DEF Ack, HasData, Sent, Returned, Write, Read, WriteAck, ReadAck
<1>10. /\ AsPart(k0) = "high" => Sent \in Word
       /\ AsPart(k1) = "high" => Sent \in Word
       /\ AsPart(k2) = "high" => Returned' \in Word
       /\ AsPart(k3) = "high" => Returned' \in Word
  <2>1. /\ AsPart(k0) = "high" \/ AsPart(k1) = "high" => mx.type = Write
        /\ AsPart(k2) = "high" \/ AsPart(k3) = "high" => mx.type = Read /\ Answer' \in Word
    BY <1>0, <1>1 DEF ToHear, AsPart
  <2> QED
    BY <1>1, <1>2, <2>1 DEF Sent, Returned
<1>11. /\ i \in {"lo", "hi"} => a = b /\ Returned = Returned'
       /\ o0 \in {"lo", "hi"} => a = b /\ Returned = Returned'
  OBVIOUS
<1>12. Receives(Heard(i0, mx.type, mx.port, mx.addr, Sent), m.fric_out)
             = Heard(to0, mx.type, mx.port, mx.addr, Sent)
  BY <1>0, <1>1, <1>5, <1>9, <1>10, PartHeard
<1>13. Receives(Heard(o, mx.type, 0, mx.addr, Sent), sw.fric_out[mx.port])
             = Heard(from, mx.type, 0, mx.addr, Sent)
  BY <1>0, <1>1, <1>6, <1>9, <1>10, PartHeard
<1>14. Receives(Heard(i, Ack, 0, a, Returned), In(mx.port)) = Heard(to, Ack, 0, b, Returned')
  BY <1>0, <1>7, <1>9, <1>10, <1>11, PartHeard
<1>15. Receives(Heard(o0, Ack, mx.port, a, Returned), sw.fric_out0)
             = Heard(from0, Ack, mx.port, b, Returned')
  BY <1>0, <1>8, <1>9, <1>10, <1>11, PartHeard
<1> HIDE DEF Watched
<1>16. packet = "answer" => a = b /\ Returned' = Returned
  OBVIOUS
<1> QED
  BY <1>0, <1>1, <1>12, <1>13, <1>14, <1>15, <1>16, WatchStep DEF Course

\* The acknowledge of a request.
LEMMA Acks == \A type : Transfer(type) => Ack = IF type = Read THEN ReadAck ELSE WriteAck
  BY DEF Transfer, Ack

\* What the monitors hear of a write, edge by edge.
LEMMA WatchWrite ==
    ASSUME Shape, Clock, WriteWatch
    PROVE  Watch' /\ ~Unexpected
<1>1. ASSUME Write1, Write2',
             Watched("idle", "idle", "idle", "idle", "none", 0)
      PROVE  Watch' /\ ~Unexpected
  <2>1. Transfer(Write) /\ Bus("wr_adr", "request", "zero", "idle", "zero", "zero", "zero", "zero", "idle")
    BY <1>1 DEF Write1
  <2>2. Carries(sw.fric_inr[mx.port], "zero")'
    BY <1>1 DEF Write2, Bus
  <2>3. Hearing(Write, "request", "zero", "zero", "zero",
                "idle", "idle", "idle", "idle", "addr", "idle", "idle", "idle", "none", "none")
    BY <2>1, Acks DEF Hearing, ToHear, Hears, AsPart, Course, HasData, Write, Read, WriteAck, ReadAck
  <2>4. Watched("addr", "idle", "idle", "idle", "none", 0)' /\ ~Unexpected
    BY <1>1, <2>1, <2>2, <2>3, WatchBus
  <2> QED
    BY <1>1, <2>4 DEF Watch, WriteWatch
<1>2. ASSUME Write2, Write3',
             Watched("addr", "idle", "idle", "idle", "none", 0)
      PROVE  Watch' /\ ~Unexpected
  <2>1. Transfer(Write) /\ Bus("wr_da0", "addr", "request", "idle", "zero", "zero", "zero", "zero", "idle")
    BY <1>2 DEF Write2
  <2>2. Carries(sw.fric_inr[mx.port], "zero")'
    BY <1>2 DEF Write3, Bus
  <2>3. Hearing(Write, "addr", "zero", "zero", "zero",
                "addr", "idle", "idle", "idle", "lo", "idle", "idle", "idle", "none", "none")
    BY <2>1, Acks DEF Hearing, ToHear, Hears, AsPart, Course, HasData, Write, Read, WriteAck, ReadAck
  <2>4. Watched("lo", "idle", "idle", "idle", "none", 0)' /\ ~Unexpected
    BY <1>2, <2>1, <2>2, <2>3, WatchBus
  <2> QED
    BY <1>2, <2>4 DEF Watch, WriteWatch
<1>3. ASSUME Write3, Write4',
             Watched("lo", "idle", "idle", "idle", "none", 0)
      PROVE  Watch' /\ ~Unexpected
  <2>1. Transfer(Write) /\ Bus("wr_da1", "low", "addr", "req_adr", "forwarded", "zero", "zero", "zero", "idle")
    BY <1>3 DEF Write3, Selected
  <2>2. Carries(sw.fric_inr[mx.port], "zero")'
    BY <1>3 DEF Write4, Bus
  <2>3. Hearing(Write, "low", "forwarded", "zero", "zero",
                "lo", "idle", "idle", "idle", "hi", "addr", "idle", "idle", "none", "none")
    BY <2>1, Acks DEF Hearing, ToHear, Hears, AsPart, Course, HasData, Write, Read, WriteAck, ReadAck
  <2>4. Watched("hi", "addr", "idle", "idle", "none", 0)' /\ ~Unexpected
    BY <1>3, <2>1, <2>2, <2>3, WatchBus
  <2> QED
    BY <1>3, <2>4 DEF Watch, WriteWatch
<1>4. ASSUME Write4, Write5',
             Watched("hi", "addr", "idle", "idle", "none", 0)
      PROVE  Watch' /\ ~Unexpected
  <2>1. Transfer(Write) /\ Bus("wr_ack", "high", "low", "wdat0", "addr", "zero", "zero", "zero", "idle")
    BY <1>4 DEF Write4, Selected
  <2>2. Carries(sw.fric_inr[mx.port], "zero")'
    BY <1>4 DEF Write5, Bus
  <2>3. Hearing(Write, "high", "addr", "zero", "zero",
                "hi", "addr", "idle", "idle", "end", "lo", "idle", "idle", "none", "request")
    BY <2>1, Acks DEF Hearing, ToHear, Hears, AsPart, Course, HasData, Write, Read, WriteAck, ReadAck
  <2>4. Watched("end", "lo", "idle", "idle", "request", 0)' /\ ~Unexpected
    BY <1>4, <2>1, <2>2, <2>3, WatchBus
  <2> QED
    BY <1>4, <2>4 DEF Watch, WriteWatch
<1>5. ASSUME Write5, Write6',
             Watched("end", "lo", "idle", "idle", "request", 0)
      PROVE  Watch' /\ ~Unexpected
  <2>1. Transfer(Write) /\ Bus("wr_ack", "zero", "high", "wdat1", "low", "zero", "zero", "zero", "idle")
    BY <1>5 DEF Write5, Selected
  <2>2. Carries(sw.fric_inr[mx.port], "zero")'
    BY <1>5 DEF Write6, Bus
  <2>3. Hearing(Write, "zero", "low", "zero", "zero",
                "end", "lo", "idle", "idle", "idle", "hi", "idle", "idle", "request", "request")
    BY <2>1, Acks DEF Hearing, ToHear, Hears, AsPart, Course, HasData, Write, Read, WriteAck, ReadAck
  <2>4. Watched("idle", "hi", "idle", "idle", "request", 0)' /\ ~Unexpected
    BY <1>5, <2>1, <2>2, <2>3, WatchBus
  <2> QED
    BY <1>5, <2>4 DEF Watch, WriteWatch
<1>6. ASSUME Write6, Write7',
             Watched("idle", "hi", "idle", "idle", "request", 0)
      PROVE  Watch' /\ ~Unexpected
  <2>1. Transfer(Write) /\ Bus("wr_ack", "zero", "zero", "wack", "high", "zero", "zero", "zero", "idle")
    BY <1>6 DEF Write6, Selected
  <2>2. Carries(sw.fric_inr[mx.port], "zero")'
    BY <1>6 DEF Write7, Bus
  <2>3. Hearing(Write, "zero", "high", "zero", "zero",
                "idle", "hi", "idle", "idle", "idle", "end", "idle", "idle", "request", "none")
    BY <2>1, Acks DEF Hearing, ToHear, Hears, AsPart, Course, HasData, Write, Read, WriteAck, ReadAck
  <2>4. Watched("idle", "end", "idle", "idle", "none", 0)' /\ ~Unexpected
    BY <1>6, <2>1, <2>2, <2>3, WatchBus
  <2> QED
    BY <1>6, <2>4 DEF Watch, WriteWatch
<1>7. ASSUME Write6, WriteAck1',
             Watched("idle", "hi", "idle", "idle", "request", 0)
      PROVE  Watch' /\ ~Unexpected
  <2>1. Transfer(Write) /\ Bus("wr_ack", "zero", "zero", "wack", "high", "zero", "zero", "zero", "idle")
    BY <1>7 DEF Write6, Selected
  <2>2. Carries(sw.fric_inr[mx.port], "ack")'
    BY <1>7 DEF WriteAck1, Bus
  <2>3. Hearing(Write, "zero", "high", "ack", "zero",
                "idle", "hi", "idle", "idle", "idle", "end", "addr", "idle", "request", "none")
    BY <2>1, Acks DEF Hearing, ToHear, Hears, AsPart, Course, HasData, Write, Read, WriteAck, ReadAck
  <2>4. Watched("idle", "end", "addr", "idle", "none", 0)' /\ ~Unexpected
    BY <1>7, <2>1, <2>2, <2>3, WatchBus
  <2>5. OutAtAck' = "end"
    <3>1. CASE mx.port = SlavePort
      BY <3>1, MxStep DEF OutAtAck
    <3>2. CASE mx.port # SlavePort
      <4>1. Xactor("hi", "idle", "zero") /\ mx.port \in Ports
        BY <1>7, <3>2, Clients DEF Write6, Selected, Transfer, Requested
      <4>2. x[mx.port].out = 0
        BY <4>1 DEF Xactor, Carries, Kind
      <4>3. sw'.fric_inr[mx'.port] = 0
        BY <3>2, <4>1, <4>2, InputStep, MxStep
      <4>4. Type(sw'.fric_inr[mx'.port]) \in {ReadAck, WriteAck}
        BY <1>7 DEF WriteAck1, Bus, Carries, Kind
      <4> QED
        BY <4>3, <4>4, NoHeader DEF ReadAck, WriteAck
    <3> QED
      BY <3>1, <3>2
  <2> QED
    BY <1>7, <2>4, <2>5 DEF Watch, WriteWatch
<1>8. ASSUME Write7, WriteWait',
             Watched("idle", "end", "idle", "idle", "none", 0)
      PROVE  Watch' /\ ~Unexpected
  <2>1. Transfer(Write) /\ Bus("wr_ack", "zero", "zero", "wack", "zero", "zero", "zero", "zero", "idle")
    BY <1>8 DEF Write7, Selected
  <2>2. Carries(sw.fric_inr[mx.port], "zero")'
    BY <1>8 DEF WriteWait, Bus
  <2>3. Hearing(Write, "zero", "zero", "zero", "zero",
                "idle", "end", "idle", "idle", "idle", "idle", "idle", "idle", "none", "none")
    BY <2>1, Acks DEF Hearing, ToHear, Hears, AsPart, Course, HasData, Write, Read, WriteAck, ReadAck
  <2>4. Watched("idle", "idle", "idle", "idle", "none", 0)' /\ ~Unexpected
    BY <1>8, <2>1, <2>2, <2>3, WatchBus
  <2> QED
    BY <1>8, <2>4 DEF Watch, WriteWatch, Silent
<1>9. ASSUME WriteWait, WriteWait',
             Watched("idle", "idle", "idle", "idle", "none", 0)
      PROVE  Watch' /\ ~Unexpected
  <2>1. Transfer(Write) /\ Bus("wr_ack", "zero", "zero", "wack", "zero", "zero", "zero", "zero", "idle")
    BY <1>9 DEF WriteWait, Selected
  <2>2. Carries(sw.fric_inr[mx.port], "zero")'
    BY <1>9 DEF WriteWait, Bus
  <2>3. Hearing(Write, "zero", "zero", "zero", "zero",
                "idle", "idle", "idle", "idle", "idle", "idle", "idle", "idle", "none", "none")
    BY <2>1, Acks DEF Hearing, ToHear, Hears, AsPart, Course, HasData, Write, Read, WriteAck, ReadAck
  <2>4. Watched("idle", "idle", "idle", "idle", "none", 0)' /\ ~Unexpected
    BY <1>9, <2>1, <2>2, <2>3, WatchBus
  <2> QED
    BY <1>9, <2>4 DEF Watch, WriteWatch, Silent
<1>10. ASSUME WriteWait, WriteAck1',
             Watched("idle", "idle", "idle", "idle", "none", 0)
      PROVE  Watch' /\ ~Unexpected
  <2>1. Transfer(Write) /\ Bus("wr_ack", "zero", "zero", "wack", "zero", "zero", "zero", "zero", "idle")
    BY <1>10 DEF WriteWait, Selected
  <2>2. Carries(sw.fric_inr[mx.port], "ack")'
    BY <1>10 DEF WriteAck1, Bus
  <2>3. Hearing(Write, "zero", "zero", "ack", "zero",
                "idle", "idle", "idle", "idle", "idle", "idle", "addr", "idle", "none", "none")
    BY <2>1, Acks DEF Hearing, ToHear, Hears, AsPart, Course, HasData, Write, Read, WriteAck, ReadAck
  <2>4. Watched("idle", "idle", "addr", "idle", "none", 0)' /\ ~Unexpected
    BY <1>10, <2>1, <2>2, <2>3, WatchBus
  <2>5. OutAtAck' = "idle"
    BY <1>10, MxStep, Clients DEF WriteWait, OutAtAck
  <2> QED
    BY <1>10, <2>4, <2>5 DEF Watch, WriteWatch
<1>11. ASSUME WriteAck1, WriteAck2',
             Watched("idle", OutAtAck, "addr", "idle", "none", 0)
      PROVE  Watch' /\ ~Unexpected
  <2>1. Transfer(Write) /\ Bus("wr_ack", "zero", "zero", "wack", "zero", "ack", "zero", "zero", "idle")
    BY <1>11 DEF WriteAck1, Selected
  <2>2. Carries(sw.fric_inr[mx.port], "any")'
    BY <1>11 DEF WriteAck2, Bus
  <2>3. Hearing(Write, "zero", "zero", "any", "zero",
                "idle", OutAtAck, "addr", "idle", "idle", "idle", "end", "idle", "none", "answer")
    BY <2>1, Acks DEF Hearing, ToHear, Hears, AsPart, Course, HasData, Write, Read, WriteAck, ReadAck, OutAtAck
  <2>5. mx'.port = mx.port
    BY MxStep
  <2>6. \A b : b = sw'.fric_inr[mx.port] => Watched("idle", "idle", "end", "idle", "answer", b)' /\ ~Unexpected
    BY <1>11, <2>1, <2>2, <2>3, WatchBus
  <2> QED
    BY <1>11, <2>5, <2>6 DEF Watch, WriteWatch
<1>12. ASSUME WriteAck2, WriteAck3',
             NEW a, a = sw.fric_inr[mx.port], Watched("idle", "idle", "end", "idle", "answer", a)
      PROVE  Watch' /\ ~Unexpected
  <2>1. Transfer(Write) /\ Bus("wr_ack", "zero", "zero", "rep_adr", "zero", "any", "named_ack", "zero", "idle")
    BY <1>12 DEF WriteAck2, Selected
  <2>2. Carries(sw.fric_inr[mx.port], "zero")'
    BY <1>12 DEF WriteAck3, Bus
  <2>3. Hearing(Write, "zero", "zero", "zero", "named_ack",
                "idle", "idle", "end", "idle", "idle", "idle", "idle", "addr", "answer", "answer")
    BY <2>1, Acks DEF Hearing, ToHear, Hears, AsPart, Course, HasData, Write, Read, WriteAck, ReadAck
  <2>4. Returned' = Returned /\ Write # Read
    BY <1>12, <2>1, MxStep, ServedStays, AnswerWord DEF WriteAck2, Returned, Transfer, Selected, Write, Read
  <2>5. sw'.fric_out0 = sw.fric_inr[mx.port]
    BY <1>12, <2>1, SwitchStep, Selection DEF WriteAck2, Bus, Selected, Transfer, Requested
  <2>6. Watched("idle", "idle", "idle", "addr", "answer", a)' /\ ~Unexpected
    BY <1>12, <2>1, <2>2, <2>3, <2>4, <2>5, WatchBus
  <2> QED
    BY <1>12, <2>5, <2>6 DEF Watch, WriteWatch
<1>13. ASSUME WriteAck3, WriteAck4',
             NEW a, a = sw.fric_out0, Watched("idle", "idle", "idle", "addr", "answer", a)
      PROVE  Watch' /\ ~Unexpected
  <2>1. Transfer(Write) /\ Bus("wr_ack", "zero", "zero", "idle", "zero", "zero", "any", "named_ack", "idle")
    BY <1>13 DEF WriteAck3, Selected
  <2>2. Carries(sw.fric_inr[mx.port], "zero")'
    BY <1>13 DEF WriteAck4, Bus
  <2>3. Hearing(Write, "zero", "zero", "zero", "any",
                "idle", "idle", "idle", "addr", "idle", "idle", "idle", "end", "answer", "none")
    BY <2>1, Acks DEF Hearing, ToHear, Hears, AsPart, Course, HasData, Write, Read, WriteAck, ReadAck
  <2>4. Returned' = Returned /\ Write # Read
    BY <1>13, <2>1, MxStep, ServedStays, AnswerWord DEF WriteAck3, Returned, Transfer, Selected, Write, Read
  <2>6. Watched("idle", "idle", "idle", "end", "none", a)' /\ ~Unexpected
    BY <1>13, <2>1, <2>2, <2>3, <2>4, WatchBus
  <2> QED
    BY <1>13, <2>6 DEF Watch, WriteWatch
<1>14. ASSUME WriteAck4, Idle',
             NEW a, Watched("idle", "idle", "idle", "end", "none", a)
      PROVE  Watch' /\ ~Unexpected
  <2>1. Transfer(Write) /\ Bus("wr_ack", "zero", "zero", "idle", "zero", "zero", "zero", "any", "wr_ack")
    BY <1>14 DEF WriteAck4, Selected
  <2>2. Carries(sw.fric_inr[mx.port], "zero")'
    <3>1. mx'.port \in Ports /\ Still'
      BY <1>14, <2>1, MxStep DEF Idle, Transfer, Requested
    <3> QED
      BY <3>1 DEF Still, Resting, Carries, Kind
  <2>3. Hearing(Write, "zero", "zero", "zero", "zero",
                "idle", "idle", "idle", "end", "idle", "idle", "idle", "idle", "none", "none")
    BY <2>1, Acks DEF Hearing, ToHear, Hears, AsPart, Course, HasData, Write, Read, WriteAck, ReadAck
  <2>4. Watched("idle", "idle", "idle", "idle", "none", 0)' /\ ~Unexpected
    BY <1>14, <2>1, <2>2, <2>3, WatchBus
  <2> QED
    BY <1>14, <2>4 DEF Watch, Silent
<1> QED
  BY <1>1, <1>2, <1>3, <1>4, <1>5, <1>6, <1>7, <1>8, <1>9, <1>10,
     <1>11, <1>12, <1>13, <1>14, WriteStages DEF WriteWatch, Silent

\* What the monitors hear of a read, edge by edge.
LEMMA WatchRead ==
    ASSUME Shape, Clock, ReadWatch
    PROVE  Watch' /\ ~Unexpected
<1>1. ASSUME Read1, Read2',
             Watched("idle", "idle", "idle", "idle", "none", 0)
      PROVE  Watch' /\ ~Unexpected
  <2>1. Transfer(Read) /\ Bus("rd_adr", "request", "zero", "idle", "zero", "zero", "zero", "zero", "idle")
    BY <1>1 DEF Read1
  <2>2. Carries(sw.fric_inr[mx.port], "zero")'
    BY <1>1 DEF Read2, Bus
  <2>3. Hearing(Read, "request", "zero", "zero", "zero",
                "idle", "idle", "idle", "idle", "addr", "idle", "idle", "idle", "none", "none")
    BY <2>1, Acks DEF Hearing, ToHear, Hears, AsPart, Course, HasData, Write, Read, WriteAck, ReadAck
  <2>4. Watched("addr", "idle", "idle", "idle", "none", 0)' /\ ~Unexpected
    BY <1>1, <2>1, <2>2, <2>3, WatchBus
  <2> QED
    BY <1>1, <2>4 DEF Watch, ReadWatch
<1>2. ASSUME Read2, Read3',
             Watched("addr", "idle", "idle", "idle", "none", 0)
      PROVE  Watch' /\ ~Unexpected
  <2>1. Transfer(Read) /\ Bus("rd_ack", "addr", "request", "idle", "zero", "zero", "zero", "zero", "idle")
    BY <1>2 DEF Read2
  <2>2. Carries(sw.fric_inr[mx.port], "zero")'
    BY <1>2 DEF Read3, Bus
  <2>3. Hearing(Read, "addr", "zero", "zero", "zero",
                "addr", "idle", "idle", "idle", "end", "idle", "idle", "idle", "none", "request")
    BY <2>1, Acks DEF Hearing, ToHear, Hears, AsPart, Course, HasData, Write, Read, WriteAck, ReadAck
  <2>4. Watched("end", "idle", "idle", "idle", "request", 0)' /\ ~Unexpected
    BY <1>2, <2>1, <2>2, <2>3, WatchBus
  <2> QED
    BY <1>2, <2>4 DEF Watch, ReadWatch
<1>3. ASSUME Read3, Read4',
             Watched("end", "idle", "idle", "idle", "request", 0)
      PROVE  Watch' /\ ~Unexpected
  <2>1. Transfer(Read) /\ Bus("rd_ack", "zero", "addr", "req_adr", "forwarded", "zero", "zero", "zero", "idle")
    BY <1>3 DEF Read3, Selected
  <2>2. Carries(sw.fric_inr[mx.port], "zero")'
    BY <1>3 DEF Read4, Bus
  <2>3. Hearing(Read, "zero", "forwarded", "zero", "zero",
                "end", "idle", "idle", "idle", "idle", "addr", "idle", "idle", "request", "request")
    BY <2>1, Acks DEF Hearing, ToHear, Hears, AsPart, Course, HasData, Write, Read, WriteAck, ReadAck
  <2>4. Watched("idle", "addr", "idle", "idle", "request", 0)' /\ ~Unexpected
    BY <1>3, <2>1, <2>2, <2>3, WatchBus
  <2> QED
    BY <1>3, <2>4 DEF Watch, ReadWatch
<1>4. ASSUME Read4, Read5',
             Watched("idle", "addr", "idle", "idle", "request", 0)
      PROVE  Watch' /\ ~Unexpected
  <2>1. Transfer(Read) /\ Bus("rd_ack", "zero", "zero", "wack", "addr", "zero", "zero", "zero", "idle")
    BY <1>4 DEF Read4, Selected
  <2>2. Carries(sw.fric_inr[mx.port], "zero")'
    BY <1>4 DEF Read5, Bus
  <2>3. Hearing(Read, "zero", "addr", "zero", "zero",
                "idle", "addr", "idle", "idle", "idle", "end", "idle", "idle", "request", "none")
    BY <2>1, Acks DEF Hearing, ToHear, Hears, AsPart, Course, HasData, Write, Read, WriteAck, ReadAck
  <2>4. Watched("idle", "end", "idle", "idle", "none", 0)' /\ ~Unexpected
    BY <1>4, <2>1, <2>2, <2>3, WatchBus
  <2> QED
    BY <1>4, <2>4 DEF Watch, ReadWatch
<1>5. ASSUME Read5, ReadWait',
             Watched("idle", "end", "idle", "idle", "none", 0)
      PROVE  Watch' /\ ~Unexpected
  <2>1. Transfer(Read) /\ Bus("rd_ack", "zero", "zero", "wack", "zero", "zero", "zero", "zero", "idle")
    BY <1>5 DEF Read5, Selected
  <2>2. Carries(sw.fric_inr[mx.port], "zero")'
    BY <1>5 DEF ReadWait, Bus
  <2>3. Hearing(Read, "zero", "zero", "zero", "zero",
                "idle", "end", "idle", "idle", "idle", "idle", "idle", "idle", "none", "none")
    BY <2>1, Acks DEF Hearing, ToHear, Hears, AsPart, Course, HasData, Write, Read, WriteAck, ReadAck
  <2>4. Watched("idle", "idle", "idle", "idle", "none", 0)' /\ ~Unexpected
    BY <1>5, <2>1, <2>2, <2>3, WatchBus
  <2> QED
    BY <1>5, <2>4 DEF Watch, ReadWatch, Silent
<1>6. ASSUME ReadWait, ReadWait',
             Watched("idle", "idle", "idle", "idle", "none", 0)
      PROVE  Watch' /\ ~Unexpected
  <2>1. Transfer(Read) /\ Bus("rd_ack", "zero", "zero", "wack", "zero", "zero", "zero", "zero", "idle")
    BY <1>6 DEF ReadWait, Selected
  <2>2. Carries(sw.fric_inr[mx.port], "zero")'
    BY <1>6 DEF ReadWait, Bus
  <2>3. Hearing(Read, "zero", "zero", "zero", "zero",
                "idle", "idle", "idle", "idle", "idle", "idle", "idle", "idle", "none", "none")
    BY <2>1, Acks DEF Hearing, ToHear, Hears, AsPart, Course, HasData, Write, Read, WriteAck, ReadAck
  <2>4. Watched("idle", "idle", "idle", "idle", "none", 0)' /\ ~Unexpected
    BY <1>6, <2>1, <2>2, <2>3, WatchBus
  <2> QED
    BY <1>6, <2>4 DEF Watch, ReadWatch, Silent
<1>7. ASSUME ReadWait, ReadAck1',
             Watched("idle", "idle", "idle", "idle", "none", 0)
      PROVE  Watch' /\ ~Unexpected
  <2>1. Transfer(Read) /\ Bus("rd_ack", "zero", "zero", "wack", "zero", "zero", "zero", "zero", "idle")
    BY <1>7 DEF ReadWait, Selected
  <2>2. Carries(sw.fric_inr[mx.port], "ack")'
    BY <1>7 DEF ReadAck1, Bus
  <2>3. Hearing(Read, "zero", "zero", "ack", "zero",
                "idle", "idle", "idle", "idle", "idle", "idle", "addr", "idle", "none", "none")
    BY <2>1, Acks DEF Hearing, ToHear, Hears, AsPart, Course, HasData, Write, Read, WriteAck, ReadAck
  <2>4. Watched("idle", "idle", "addr", "idle", "none", 0)' /\ ~Unexpected
    BY <1>7, <2>1, <2>2, <2>3, WatchBus
  <2> QED
    BY <1>7, <2>4 DEF Watch, ReadWatch
<1>8. ASSUME ReadAck1, ReadAck2',
             Watched("idle", "idle", "addr", "idle", "none", 0)
      PROVE  Watch' /\ ~Unexpected
  <2>1. Transfer(Read) /\ Bus("rd_ack", "zero", "zero", "wack", "zero", "ack", "zero", "zero", "idle")
    BY <1>8 DEF ReadAck1, Selected
  <2>2. Carries(sw.fric_inr[mx.port], "any")'
    BY <1>8 DEF ReadAck2, Bus
  <2>3. Hearing(Read, "zero", "zero", "any", "zero",
                "idle", "idle", "addr", "idle", "idle", "idle", "lo", "idle", "none", "none")
    BY <2>1, Acks DEF Hearing, ToHear, Hears, AsPart, Course, HasData, Write, Read, WriteAck, ReadAck
  <2>5. mx'.port = mx.port
    BY MxStep
  <2>6. \A b : b = sw'.fric_inr[mx.port] => Watched("idle", "idle", "lo", "idle", "none", b)' /\ ~Unexpected
    BY <1>8, <2>1, <2>2, <2>3, WatchBus
  <2> QED
    BY <1>8, <2>5, <2>6 DEF Watch, ReadWatch
<1>9. ASSUME ReadAck2, ReadAck3',
             NEW a, a = sw.fric_inr[mx.port], Watched("idle", "idle", "lo", "idle", "none", a)
      PROVE  Watch' /\ ~Unexpected
  <2>1. Transfer(Read) /\ Bus("rd_ack", "zero", "zero", "rep_adr", "zero", "any", "named_ack", "zero", "idle")
    BY <1>9 DEF ReadAck2, Selected
  <2>2. Carries(sw.fric_inr[mx.port], "answer_lo")'
    BY <1>9 DEF ReadAck3, Bus
  <2>3. Hearing(Read, "zero", "zero", "answer_lo", "named_ack",
                "idle", "idle", "lo", "idle", "idle", "idle", "hi", "addr", "none", "none")
    BY <2>1, Acks DEF Hearing, ToHear, Hears, AsPart, Course, HasData, Write, Read, WriteAck, ReadAck
  <2>4. Returned' = Returned /\ Answer' = Answer /\ Answer \in Word
    BY <1>9, <2>1, MxStep, ServedStays, AnswerWord DEF ReadAck2, Returned, Transfer, Selected
  <2>5. sw'.fric_out0 = sw.fric_inr[mx.port]
    BY <1>9, <2>1, SwitchStep, Selection DEF ReadAck2, Bus, Selected, Transfer, Requested
  <2>6. Watched("idle", "idle", "hi", "addr", "none", a)' /\ ~Unexpected
    BY <1>9, <2>1, <2>2, <2>3, <2>4, <2>5, WatchBus
  <2> QED
    BY <1>9, <2>5, <2>6 DEF Watch, ReadWatch
<1>10. ASSUME ReadAck3, ReadAck4',
             NEW a, a = sw.fric_out0, Watched("idle", "idle", "hi", "addr", "none", a)
      PROVE  Watch' /\ ~Unexpected
  <2>1. Transfer(Read) /\ Bus("rd_ack", "zero", "zero", "rdat0", "zero", "answer_lo", "any", "named_ack", "idle")
    BY <1>10 DEF ReadAck3, Selected
  <2>2. Carries(sw.fric_inr[mx.port], "answer_hi")'
    BY <1>10 DEF ReadAck4, Bus
  <2>3. Hearing(Read, "zero", "zero", "answer_hi", "any",
                "idle", "idle", "hi", "addr", "idle", "idle", "end", "lo", "none", "answer")
    BY <2>1, Acks DEF Hearing, ToHear, Hears, AsPart, Course, HasData, Write, Read, WriteAck, ReadAck
  <2>4. Returned' = Returned /\ Answer' = Answer /\ Answer \in Word
    BY <1>10, <2>1, MxStep, ServedStays, AnswerWord DEF ReadAck3, Returned, Transfer, Selected
  <2>6. Watched("idle", "idle", "end", "lo", "answer", a)' /\ ~Unexpected
    BY <1>10, <2>1, <2>2, <2>3, <2>4, WatchBus
  <2> QED
    BY <1>10, <2>6 DEF Watch, ReadWatch
<1>11. ASSUME ReadAck4, ReadAck5',
             NEW a, Watched("idle", "idle", "end", "lo", "answer", a)
      PROVE  Watch' /\ ~Unexpected
  <2>1. Transfer(Read) /\ Bus("rd_ack", "zero", "zero", "rdat1", "zero", "answer_hi", "answer_lo", "any", "rd_ack")
    BY <1>11 DEF ReadAck4, Selected
  <2>2. Carries(sw.fric_inr[mx.port], "zero")'
    BY <1>11 DEF ReadAck5, Bus
  <2>3. Hearing(Read, "zero", "zero", "zero", "answer_lo",
                "idle", "idle", "end", "lo", "idle", "idle", "idle", "hi", "answer", "answer")
    BY <2>1, Acks DEF Hearing, ToHear, Hears, AsPart, Course, HasData, Write, Read, WriteAck, ReadAck
  <2>4. Returned' = Returned /\ Answer' = Answer /\ Answer \in Word
    BY <1>11, <2>1, MxStep, ServedStays, AnswerWord DEF ReadAck4, Returned, Transfer, Selected
  <2>6. Watched("idle", "idle", "idle", "hi", "answer", a)' /\ ~Unexpected
    BY <1>11, <2>1, <2>2, <2>3, <2>4, WatchBus
  <2> QED
    BY <1>11, <2>6 DEF Watch, ReadWatch
<1>12. ASSUME ReadAck5, ReadAck6',
             NEW a, Watched("idle", "idle", "idle", "hi", "answer", a)
      PROVE  Watch' /\ ~Unexpected
  <2>1. Transfer(Read) /\ Bus("rd_ack", "zero", "zero", "idle", "zero", "zero", "answer_hi", "answer_lo", "rd_da0")
    BY <1>12 DEF ReadAck5, Selected
  <2>2. Carries(sw.fric_inr[mx.port], "zero")'
    BY <1>12 DEF ReadAck6, Bus
  <2>3. Hearing(Read, "zero", "zero", "zero", "answer_hi",
                "idle", "idle", "idle", "hi", "idle", "idle", "idle", "end", "answer", "none")
    BY <2>1, Acks DEF Hearing, ToHear, Hears, AsPart, Course, HasData, Write, Read, WriteAck, ReadAck
  <2>4. Returned' = Returned /\ Answer' = Answer /\ Answer \in Word
    BY <1>12, <2>1, MxStep, ServedStays, AnswerWord DEF ReadAck5, Returned, Transfer, Selected
  <2>6. Watched("idle", "idle", "idle", "end", "none", a)' /\ ~Unexpected
    BY <1>12, <2>1, <2>2, <2>3, <2>4, WatchBus
  <2> QED
    BY <1>12, <2>6 DEF Watch, ReadWatch
<1>13. ASSUME ReadAck6, Reply',
             NEW a, Watched("idle", "idle", "idle", "end", "none", a)
      PROVE  Watch' /\ ~Unexpected
  <2>1. Transfer(Read) /\ Bus("rd_ack", "zero", "zero", "idle", "zero", "zero", "zero", "answer_hi", "rd_da1")
    BY <1>13 DEF ReadAck6, Selected
  <2>2. Carries(sw.fric_inr[mx.port], "zero")'
    <3>1. mx'.port \in Ports /\ Still'
      BY <1>13, <2>1, MxStep DEF Reply, Transfer, Requested
    <3> QED
      BY <3>1 DEF Still, Resting, Carries, Kind
  <2>3. Hearing(Read, "zero", "zero", "zero", "zero",
                "idle", "idle", "idle", "end", "idle", "idle", "idle", "idle", "none", "none")
    BY <2>1, Acks DEF Hearing, ToHear, Hears, AsPart, Course, HasData, Write, Read, WriteAck, ReadAck
  <2>4. Watched("idle", "idle", "idle", "idle", "none", 0)' /\ ~Unexpected
    BY <1>13, <2>1, <2>2, <2>3, WatchBus
  <2> QED
    BY <1>13, <2>4 DEF Watch, Silent
<1> QED
  BY <1>1, <1>2, <1>3, <1>4, <1>5, <1>6, <1>7, <1>8, <1>9, <1>10,
     <1>11, <1>12, <1>13, ReadStages DEF ReadWatch, Silent

\* The monitors watch each stage; those of a request not before the bus is idle again.
LEMMA WatchStages ==
    ASSUME Watch
    PROVE  Stages /\ (mx.at = "free" => Silent /\ Idle)
<1>1. Stages
  BY DEF Watch, WriteWatch, ReadWatch, Stages
<1>2. WriteWatch \/ ReadWatch => \E type : Transfer(type)
  BY DEF WriteWatch, ReadWatch, Selected, Write1, Write2, Write3, Write4, Write5, Write6, Write7,
         WriteWait, WriteAck1, WriteAck2, WriteAck3, WriteAck4, Read1, Read2, Read3,
         Read4, Read5, ReadWait, ReadAck1, ReadAck2, ReadAck3, ReadAck4, ReadAck5,
         ReadAck6
<1>3. \A type : Transfer(type) => mx.at # "free"
  BY DEF Transfer
<1> QED
  BY <1>1, <1>2, <1>3, FreeStage DEF Watch

\* At first nothing has been heard.
LEMMA WatchInit == Init => Watch
<1> SUFFICES ASSUME Init PROVE Watch
  OBVIOUS
<1>1. Idle
  BY BenchInit, FreeStage DEF BenchInv, Init
<1>2. Silent
  BY SilentIs DEF Init
<1> QED
  BY <1>1, <1>2 DEF Watch

\* Nothing is heard while nothing is on the bus.
LEMMA WatchQuiet ==
    ASSUME Shape, Clock, Silent, Idle \/ Strobe \/ Reply
    PROVE  Watch' /\ ~Unexpected
<1>1. Still
  BY DEF Idle, Strobe, Reply
<1>2. \A q \in Ports : In(q) = 0 /\ sw.fric_out[q] = 0
  BY <1>1, PortIsNotZero DEF Still, Resting, ClientRests, In
<1>3. Silent' /\ ~Unexpected
  BY <1>1, <1>2, SilentStep DEF Still
<1> QED
  BY <1>3, QuietStages DEF Watch, WriteWatch, ReadWatch

\* At every edge the monitors hear what the stage leads one to expect, and the checker
\* finds each packet that comes out.
LEMMA WatchClock ==
    ASSUME Shape, Watch, Clock
    PROVE  Watch' /\ ~Unexpected
  BY WatchQuiet, WatchWrite, WatchRead DEF Watch

\* What the monitors have heard changes at the edges only.
LEMMA SameWatch ==
    ASSUME Watch, UNCHANGED <<m, s, sw, mx, x, regs, rdat, served, mon, expect>>
    PROVE  Watch'
<1>1. Answer' = Answer /\ Ack' = Ack /\ OutAtAck' = OutAtAck
  BY DEF Answer, Ack, OutAtAck
<1>2. \A in0, out, in, out0, packet, a :
        Watched(in0, out, in, out0, packet, a) => Watched(in0, out, in, out0, packet, a)'
  <2> SUFFICES ASSUME NEW in0, NEW out, NEW in, NEW out0, NEW packet, NEW a,
                      Watched(in0, out, in, out0, packet, a)
               PROVE  Watched(in0, out, in, out0, packet, a)'
    OBVIOUS
  <2>1. Sent' = Sent /\ Returned' = Returned /\ mx' = mx
    BY <1>1 DEF Sent, Returned
  <2>2. /\ WatchedIn(in0, in, a)' = WatchedIn(in0, in, a)
        /\ WatchedOut(out, out0, a)' = WatchedOut(out, out0, a)
        /\ Expected(packet, a)' = Expected(packet, a)
    BY <1>1, <2>1 DEF WatchedIn, WatchedOut, Expected
  <2> QED
    BY <2>2 DEF Watched
<1>3. Silent => Silent'
  BY <1>2 DEF Silent
<1> QED
  BY <1>1, <1>2, <1>3, SameStages DEF Watch, WriteWatch, ReadWatch

\* The monitors have heard nothing when a response begins.
LEMMA RespondSilent ==
    ASSUME Shape, Watch, NEW p \in XPorts, Respond(p)
    PROVE  Silent
<1>1. x[p].waits # <<>> /\ p \in Ports /\ p # SlavePort
  BY DEF Respond, XPorts
<1>2. Stages /\ p = mx.port
  BY WatchStages, RespondStage
<1>3. p = mx.port => ~Rests /\ \A rx, tx, out : ~Xactor(rx, tx, out)
  BY <1>1 DEF Rests, ClientRests, Xactor
<1>4. p = mx.port => ~SlaveStrobes /\ \A inr, fis, fos, out : ~Slave(inr, fis, fos, out)
  BY <1>1, Clients
<1> QED
  BY <1>2, <1>3, <1>4
     DEF Watch, WriteWatch, ReadWatch, Write2, Write3, Write4, Write5, Write6, Write7,
         WriteAck1, WriteAck2, WriteAck3, WriteAck4, Read2, Read3,
         Read4, Read5, ReadAck1, ReadAck2, ReadAck3, ReadAck4, ReadAck5, ReadAck6

\* Every step keeps what the monitors have heard of the request.
LEMMA WatchNext ==
    ASSUME Shape, Watch, [Next]_vars
    PROVE  Watch'
<1>1. CASE Generate \/ Ended \/ UNCHANGED vars
  <2>1. UNCHANGED <<m, s, sw, mx, x, regs, rdat, served, mon, expect>>
    BY <1>1 DEF Generate, Ended, vars
  <2> QED
    BY <2>1, SameWatch
<1>2. CASE MasterGet
  <2>1. Idle /\ Strobe' /\ Silent
    BY <1>2, MasterGetStep, WatchStages DEF Idle
  <2>2. mon' = mon /\ expect' = expect
    BY <1>2 DEF MasterGet
  <2> QED
    BY <2>1, <2>2, SilentIs, SilentNext DEF Watch
<1>3. ASSUME NEW p \in XPorts, Respond(p) PROVE Watch'
  <2>1. Silent /\ (WriteWait' \/ ReadWait')
    BY <1>3, RespondSilent, WatchStages, RespondStep
  <2>2. mon' = mon /\ expect' = expect
    BY <1>3 DEF Respond
  <2> QED
    BY <2>1, <2>2, SilentIs, SilentNext DEF Watch, WriteWatch, ReadWatch
<1>4. CASE Clock
  BY <1>4, WatchClock
<1> QED
  BY <1>1, <1>2, <1>3, <1>4 DEF Next

\* What the monitors have heard is an invariant.
LEMMA WatchInvariant == Spec => [](BenchInv /\ Watch)
<1>1. Init => BenchInv /\ Watch
  BY BenchInit, WatchInit
<1>2. BenchInv /\ Watch /\ [Next]_vars => BenchInv' /\ Watch'
  BY BenchStep, WatchNext DEF BenchInv
<1> QED
  BY <1>1, <1>2, PTL DEF Spec

\* One packet at most is expected at a port.
LEMMA FewExpected ==
    ASSUME Watch
    PROVE  \A p \in AllPorts : Len(expect[p]) <= 1
<1>1. PICK in0, out, in, out0, packet, a : Watched(in0, out, in, out0, packet, a)
  BY DEF Watch, WriteWatch, ReadWatch, Silent
<1>2. expect = Expected(packet, a)
  BY <1>1 DEF Watched
<1> SUFFICES ASSUME NEW p \in AllPorts PROVE Len(expect[p]) <= 1
  OBVIOUS
<1>3. expect[p] = <<>> \/ \E e : expect[p] = <<e>>
  BY <1>2 DEF Expected
<1>4. CASE expect[p] = <<>>
  BY <1>4
<1>5. ASSUME NEW e, expect[p] = <<e>> PROVE Len(expect[p]) <= 1
  BY <1>5, SequenceFacts
<1> QED
  BY <1>3, <1>4, <1>5

\* No packet leaves a port where the checker does not expect it, however long the drain.
THEOREM ExpectedTheorem == Spec => [][Clock => ~Unexpected]_vars
<1>1. BenchInv /\ Watch /\ [Next]_vars => [Clock => ~Unexpected]_vars
  BY WatchClock DEF BenchInv
<1> QED
  BY <1>1, WatchInvariant, PTL DEF Spec

-----------------------------------------------------------------------------
(* The drain *)

\* The answer to the request has still to be begun, by the callbacks of the port.
Waiting == mx.port \in XPorts /\ x[mx.port].waits # <<>>

\* How many cycles the callbacks have taken.
Late == x[mx.port].late

\* A request that has been strobed is complete after at most n more edges.
Left(n) ==
  \/ Idle /\ n = 0
  \/ (WriteAck4 \/ Reply) /\ n = 1
  \/ (WriteAck3 \/ ReadAck6) /\ n = 2
  \/ (WriteAck2 \/ ReadAck5) /\ n = 3
  \/ (WriteAck1 \/ ReadAck4) /\ n = 4
  \/ ReadAck3 /\ n = 5
  \/ ReadAck2 /\ n = 6
  \/ ReadAck1 /\ n = 7
  \/ WriteWait /\ ~Waiting /\ n = 5
  \/ ReadWait /\ ~Waiting /\ n = 8
  \/ WriteWait /\ Waiting /\ Late \in 0 .. MaxDelay /\ n = 5 + MaxDelay - Late
  \/ ReadWait /\ Waiting /\ Late \in 0 .. MaxDelay /\ n = 8 + MaxDelay - Late
  \/ Write7 /\ n = 6 + MaxDelay
  \/ Write6 /\ n = 7 + MaxDelay
  \/ Write5 /\ n = 8 + MaxDelay
  \/ (Write4 \/ Read5) /\ n = 9 + MaxDelay
  \/ (Write3 \/ Read4) /\ n = 10 + MaxDelay
  \/ (Write2 \/ Read3) /\ n = 11 + MaxDelay
  \/ (Write1 \/ Read2) /\ n = 12 + MaxDelay
  \/ Read1 /\ n = 13 + MaxDelay
  \/ Strobe /\ n = 14 + MaxDelay

\* Edges for a request, and for the one in the channel.
Longest == 14 + MaxDelay
Queued == IF inChan = <<>> THEN 0 ELSE Longest

\* When the last request has been generated, another one may be under way; the time
\* both still take passes with the drain.
Remaining(n) ==
  /\ n \in 0 .. Longest /\ Left(n)
  /\ env = "drain" => n + Queued = 0 \/ n + Queued + cycles < 2 * Longest

\* Nothing is under way when the test has ended, and no error has been counted.
DrainInv ==
  /\ \/ env = "run" /\ cycles = 0
     \/ env = "drain" /\ numGenerated = NumTransactions /\ cycles \in 0 .. DrainCycles - 1
     \/ env = "ended" /\ numGenerated = NumTransactions /\ mx.at = "free" /\ inChan = <<>>
  /\ \E n : Remaining(n)
  /\ control = DefaultControl

\* The drain is long enough for the two requests that may be under way.
LongDrain == 2 * MaxDelay + 27 <= DrainCycles

\* A transactor that has received nothing yet has not been waiting.
LEMMA LateStep ==
    ASSUME Shape, Clock, Requested, mx.port # SlavePort, x[mx.port].waits = <<>>, Waiting'
    PROVE  Late' = 0
<1>1. mx.port \in XPorts /\ mx'.port = mx.port
  BY MxStep DEF Requested, XPorts
<1> QED
  BY <1>1, XactorStep DEF Late

\* One that waits for its callbacks has waited for one more cycle, and never for too long.
LEMMA WaitStep ==
    ASSUME Shape, Clock, Requested, XactorWaits, Late \in 0 .. MaxDelay
    PROVE  Late < MaxDelay /\ Late' = Late + 1
<1>1. mx.port \in XPorts /\ mx'.port = mx.port
  BY MxStep DEF Requested, XPorts, XactorWaits
<1>2. x[mx.port].waits # <<>>
  BY DEF XactorWaits
<1>3. \A p \in XPorts : x[p].late < MaxDelay \/ x[p].waits = <<>>
  BY DEF Clock
<1> QED
  BY <1>1, <1>2, <1>3, XactorStep DEF Late

\* Whether the callbacks of the selected port have still to begin the answer.
LEMMA WaitingIs ==
    /\ XactorWaits /\ Requested => Waiting
    /\ \A rx, tx, out : Xactor(rx, tx, out) => ~Waiting
    /\ mx.port = SlavePort => ~Waiting
  BY DEF XactorWaits, Xactor, Requested, Waiting, XPorts

\* The header of an answer is on the wire for one edge.
LEMMA AckLeaves ==
    ASSUME Shape, Clock,
           \/ WriteWait /\ ~Waiting
           \/ ReadWait /\ ~Waiting
    PROVE  ~WriteWait' /\ ~ReadWait'
<1>1. Requested /\ mx.port \in Ports /\ mx'.port = mx.port
  BY MxStep DEF WriteWait, ReadWait, Selected, Transfer, Requested
<1>2. \/ Xactor("idle", "header", "ack")
      \/ Slave("zero", "idle", "rd_adr", "ack")
  BY <1>1, WaitingIs DEF WriteWait, ReadWait
<1>3. In(mx.port) # 0
  <2>1. In(mx.port) = IF mx.port = SlavePort THEN s.fric_out ELSE x[mx.port].out
    BY <1>1, PortIsNotZero DEF In
  <2>2. Carries(In(mx.port), "ack")
    BY <1>2, <2>1 DEF Xactor, Slave
  <2>3. Type(In(mx.port)) \in {ReadAck, WriteAck}
    BY <2>2 DEF Carries, Kind
  <2> QED
    BY <2>3, NoHeader DEF ReadAck, WriteAck
<1>4. sw'.fric_inr[mx'.port] # 0
  <2>1. In(mx.port) = IF mx.port = SlavePort THEN s.fric_out ELSE x[mx.port].out
    BY <1>1, PortIsNotZero DEF In
  <2> QED
    BY <1>1, <1>3, <2>1, InputStep
<1> QED
  BY <1>4 DEF WriteWait, ReadWait, Bus, Carries, Kind

\* MaxDelay is a number.
LEMMA Delay == MaxDelay \in Nat /\ MaxDelay > 0
  BY BenchAssumption

\* Each edge brings a request nearer to its end.
LEMMA LeftStep ==
    ASSUME Shape, Clock, NEW n \in Nat, Left(n)
    PROVE  \/ n = 0 /\ Idle /\ Idle'
           \/ n > 0 /\ \E k \in Nat : k < n /\ Left(k)'
<1> USE Delay
<1>1. CASE Idle /\ n = 0
  BY <1>1, QuietStages
<1>2. CASE (WriteAck4 \/ Reply) /\ n = 1
  <2>1. Left(0)'
    BY <1>2, QuietStages, WriteStages DEF Left
  <2> QED
    BY <1>2, <2>1
<1>3. CASE (WriteAck3 \/ ReadAck6) /\ n = 2
  <2>1. Left(1)'
    BY <1>3, WriteStages, ReadStages DEF Left
  <2> QED
    BY <1>3, <2>1
<1>4. CASE (WriteAck2 \/ ReadAck5) /\ n = 3
  <2>1. Left(2)'
    BY <1>4, WriteStages, ReadStages DEF Left
  <2> QED
    BY <1>4, <2>1
<1>5. CASE (WriteAck1 \/ ReadAck4) /\ n = 4
  <2>1. Left(3)'
    BY <1>5, WriteStages, ReadStages DEF Left
  <2> QED
    BY <1>5, <2>1
<1>6. CASE ReadAck3 /\ n = 5
  <2>1. Left(4)'
    BY <1>6, ReadStages DEF Left
  <2> QED
    BY <1>6, <2>1
<1>7. CASE ReadAck2 /\ n = 6
  <2>1. Left(5)'
    BY <1>7, ReadStages DEF Left
  <2> QED
    BY <1>7, <2>1
<1>8. CASE ReadAck1 /\ n = 7
  <2>1. Left(6)'
    BY <1>8, ReadStages DEF Left
  <2> QED
    BY <1>8, <2>1
<1>9. CASE WriteWait /\ ~Waiting /\ n = 5
  <2>1. WriteAck1'
    BY <1>9, AckLeaves, WriteStages
  <2>2. Left(4)'
    BY <2>1 DEF Left
  <2> QED
    BY <1>9, <2>2
<1>10. CASE ReadWait /\ ~Waiting /\ n = 8
  <2>1. ReadAck1'
    BY <1>10, AckLeaves, ReadStages
  <2>2. Left(7)'
    BY <2>1 DEF Left
  <2> QED
    BY <1>10, <2>2
<1>11. CASE WriteWait /\ Waiting /\ Late \in 0 .. MaxDelay /\ n = 5 + MaxDelay - Late
  <2>1. Requested /\ XactorWaits
    BY <1>11, WaitingIs DEF WriteWait, Selected, Transfer
  <2>2. Late < MaxDelay /\ Late' = Late + 1
    BY <1>11, <2>1, WaitStep
  <2>3. CASE WriteAck1'
    <3>1. Left(4)'
      BY <2>3 DEF Left
    <3> QED
      BY <1>11, <3>1
  <2>4. CASE WriteWait' /\ ~Waiting'
    <3>1. Left(5)'
      BY <2>4 DEF Left
    <3> QED
      BY <1>11, <2>2, <3>1
  <2>5. CASE WriteWait' /\ Waiting'
    <3>1. ASSUME NEW k, k = 4 + MaxDelay - Late PROVE k \in Nat /\ k < n /\ Left(k)'
      <4>1. k = 5 + MaxDelay - Late' /\ Late' \in 0 .. MaxDelay
        BY <1>11, <2>2, <3>1
      <4>2. Left(k)'
        BY <2>5, <4>1 DEF Left
      <4> QED
        BY <1>11, <2>2, <3>1, <4>2
    <3> QED
      BY <1>11, <3>1
  <2> QED
    BY <1>11, <2>3, <2>4, <2>5, WriteStages
<1>12. CASE ReadWait /\ Waiting /\ Late \in 0 .. MaxDelay /\ n = 8 + MaxDelay - Late
  <2>1. Requested /\ XactorWaits
    BY <1>12, WaitingIs, Clients DEF ReadWait, Selected, Transfer
  <2>2. Late < MaxDelay /\ Late' = Late + 1
    BY <1>12, <2>1, WaitStep
  <2>3. CASE ReadAck1'
    <3>1. Left(7)'
      BY <2>3 DEF Left
    <3> QED
      BY <1>12, <3>1
  <2>4. CASE ReadWait' /\ ~Waiting'
    <3>1. Left(8)'
      BY <2>4 DEF Left
    <3> QED
      BY <1>12, <2>2, <3>1
  <2>5. CASE ReadWait' /\ Waiting'
    <3>1. ASSUME NEW k, k = 7 + MaxDelay - Late PROVE k \in Nat /\ k < n /\ Left(k)'
      <4>1. k = 8 + MaxDelay - Late' /\ Late' \in 0 .. MaxDelay
        BY <1>12, <2>2, <3>1
      <4>2. Left(k)'
        BY <2>5, <4>1 DEF Left
      <4> QED
        BY <1>12, <2>2, <3>1, <4>2
    <3> QED
      BY <1>12, <3>1
  <2> QED
    BY <1>12, <2>3, <2>4, <2>5, ReadStages
<1>13. CASE Write7 /\ n = 6 + MaxDelay
  <2>1. WriteWait'
    BY <1>13, WriteStages
  <2>2. Requested /\ mx.port # SlavePort /\ x[mx.port].waits = <<>>
    BY <1>13 DEF Write7, Selected, Transfer, Xactor
  <2>3. CASE Waiting'
    <3>1. Late' = 0
      BY <2>2, <2>3, LateStep
    <3>2. Left(5 + MaxDelay)'
      BY <2>1, <2>3, <3>1 DEF Left
    <3> QED
      BY <1>13, <3>2
  <2>4. CASE ~Waiting'
    <3>1. Left(5)'
      BY <2>1, <2>4 DEF Left
    <3> QED
      BY <1>13, <3>1
  <2> QED
    BY <2>3, <2>4
<1>14. CASE Read5 /\ n = 9 + MaxDelay
  <2>1. ReadWait' /\ Requested /\ mx'.port = mx.port
    BY <1>14, ReadStages, MxStep DEF Read5, Selected, Transfer
  <2>2. CASE Waiting'
    <3>1. mx.port # SlavePort
      BY <2>1, <2>2 DEF Waiting, XPorts
    <3>2. x[mx.port].waits = <<>>
      BY <1>14, <3>1, Clients DEF Read5, Xactor
    <3>3. Late' = 0
      BY <2>1, <2>2, <3>1, <3>2, LateStep
    <3>4. Left(8 + MaxDelay)'
      BY <2>1, <2>2, <3>3 DEF Left
    <3> QED
      BY <1>14, <3>4
  <2>3. CASE ~Waiting'
    <3>1. Left(8)'
      BY <2>1, <2>3 DEF Left
    <3> QED
      BY <1>14, <3>1
  <2> QED
    BY <2>2, <2>3
<1>15. CASE Write6 /\ n = 7 + MaxDelay
  <2>1. Left(6 + MaxDelay)' \/ Left(4)'
    BY <1>15, WriteStages DEF Left
  <2> QED
    BY <1>15, <2>1
<1>16. CASE Write5 /\ n = 8 + MaxDelay
  <2>1. Left(7 + MaxDelay)'
    BY <1>16, WriteStages DEF Left
  <2> QED
    BY <1>16, <2>1
<1>17. CASE Write4 /\ n = 9 + MaxDelay
  <2>1. Left(8 + MaxDelay)'
    BY <1>17, WriteStages DEF Left
  <2> QED
    BY <1>17, <2>1
<1>18. CASE (Write3 \/ Read4) /\ n = 10 + MaxDelay
  <2>1. Left(9 + MaxDelay)'
    BY <1>18, WriteStages, ReadStages DEF Left
  <2> QED
    BY <1>18, <2>1
<1>19. CASE (Write2 \/ Read3) /\ n = 11 + MaxDelay
  <2>1. Left(10 + MaxDelay)'
    BY <1>19, WriteStages, ReadStages DEF Left
  <2> QED
    BY <1>19, <2>1
<1>20. CASE (Write1 \/ Read2) /\ n = 12 + MaxDelay
  <2>1. Left(11 + MaxDelay)'
    BY <1>20, WriteStages, ReadStages DEF Left
  <2> QED
    BY <1>20, <2>1
<1>21. CASE Read1 /\ n = 13 + MaxDelay
  <2>1. Left(12 + MaxDelay)'
    BY <1>21, ReadStages DEF Left
  <2> QED
    BY <1>21, <2>1
<1>22. CASE Strobe /\ n = 14 + MaxDelay
  <2>1. Left(12 + MaxDelay)' \/ Left(13 + MaxDelay)'
    BY <1>22, QuietStages DEF Left
  <2> QED
    BY <1>22, <2>1
<1> QED
  BY <1>1, <1>2, <1>3, <1>4, <1>5, <1>6, <1>7, <1>8, <1>9, <1>10, <1>11, <1>12, <1>13, <1>14,
     <1>15, <1>16, <1>17, <1>18, <1>19, <1>20, <1>21, <1>22 DEF Left

\* What is left of a request changes at the edges and with the answer only.
LEMMA SameLeft ==
    ASSUME UNCHANGED <<m, s, sw, mx, x, regs, rdat, served>>, NEW n, Left(n)
    PROVE  Left(n)'
<1>1. Waiting' = Waiting /\ Late' = Late
  BY DEF Waiting, Late
<1> QED
  BY <1>1, SameStages DEF Left

\* Little is left of a request when its answer is on its last wire.
LEMMA LastEdge ==
    ASSUME NEW n \in Nat, n <= 1, Left(n)
    PROVE  (n = 0 /\ Idle) \/ WriteAck4 \/ Reply
  BY Delay DEF Left

\* Nothing is expected any more at the last edge of a request.
LEMMA NothingExpected ==
    ASSUME Watch, Idle \/ WriteAck4 \/ Reply
    PROVE  ~NotEmpty
<1>1. \A i0, o, i, o0, a : Watched(i0, o, i, o0, "none", a) => ~NotEmpty
  BY DEF Watched, Expected, NotEmpty
<1>2. CASE Idle \/ Reply
  <2>1. mx.at # "ready"
    BY <1>2 DEF Idle, Reply
  <2>2. ~WriteWatch /\ ~ReadWatch
    BY <2>1 DEF WriteWatch, ReadWatch, Transfer, Selected, Write1, Write2, Write3, Write4, Write5,
         Write6, Write7, WriteWait, WriteAck1, WriteAck2, WriteAck3, WriteAck4, Read1, Read2,
         Read3, Read4, Read5, ReadWait, ReadAck1, ReadAck2, ReadAck3, ReadAck4, ReadAck5,
         ReadAck6
  <2> QED
    BY <1>1, <2>2 DEF Watch, Silent
<1>3. CASE WriteAck4
  <2>1. m.fis = "wr_ack" /\ mx.at = "ready"
    BY <1>3 DEF WriteAck4, Bus, Selected, Transfer
  <2>2. WriteWatch \/ ReadWatch
    BY <2>1 DEF Watch, Idle, Strobe, Reply
  <2>3. \E a : Watched("idle", "idle", "idle", "end", "none", a)
    BY <2>1, <2>2 DEF WriteWatch, ReadWatch, Bus, Write1, Write2, Write3, Write4, Write5,
         Write6, Write7, WriteWait, WriteAck1, WriteAck2, WriteAck3, Read1, Read2,
         Read3, Read4, Read5, ReadWait, ReadAck1, ReadAck2, ReadAck3, ReadAck4, ReadAck5,
         ReadAck6
  <2> QED
    BY <1>1, <2>3
<1> QED
  BY <1>2, <1>3

\* When the drain is over, so are the requests.
LEMMA Drained ==
    ASSUME LongDrain, NEW n, Remaining(n), CleanupNow, cycles \in Nat
    PROVE  n <= 1 /\ inChan = <<>>
<1>1. n + Queued <= 1
  BY Delay, BenchAssumption DEF LongDrain, Remaining, CleanupNow, Queued, Longest
<1> QED
  BY <1>1, Delay DEF Remaining, Queued, Longest

\* An edge brings the end of the test nearer, and reports no error.
LEMMA DrainClock ==
    ASSUME LongDrain, Shape, Watch, DrainInv, Clock
    PROVE  DrainInv'
<1>1. PICK n : Remaining(n)
  BY DEF DrainInv
<1>2. n \in Nat /\ n <= Longest /\ Left(n) /\ Longest \in Nat /\ Queued \in 0 .. Longest
  BY <1>1, Delay DEF Remaining, Longest, Queued
<1>3. ~Unexpected /\ Queued' = Queued
  BY WatchClock DEF Clock, Queued, Longest
<1>4. PICK k \in Nat : Left(k)' /\ ((n = 0 /\ k = 0 /\ Idle /\ Idle') \/ k < n)
  <2>1. Idle' => Left(0)'
    BY DEF Left
  <2> QED
    BY <1>2, <2>1, LeftStep
<1>5. n = 0 => Queued = 0
  BY <1>2, <1>4 DEF Idle, Clock, Queued
<1>6. k \in 0 .. Longest
  BY <1>2, <1>4
<1>7. numGenerated' = numGenerated /\ inChan' = inChan
  BY DEF Clock
<1>8. CASE env = "run"
  <2>1. ~ErrorNow /\ cycles = 0
    BY <1>3, <1>8 DEF ErrorNow, CleanupNow, DrainInv
  <2>2. /\ env' = IF numGenerated = NumTransactions THEN "drain" ELSE "run"
        /\ cycles' = 0 /\ control' = control
    BY <1>8, <2>1 DEF Clock, WaitForEnd, Reports, CleanupNow
  <2>3. Remaining(k)'
    <3>1. k + Queued' = 0 \/ k + Queued' + cycles' < 2 * Longest
      BY <1>2, <1>3, <1>4, <1>5, <2>2
    <3> QED
      BY <1>4, <1>6, <3>1 DEF Remaining, Longest
  <2> QED
    BY <1>7, <2>2, <2>3, BenchAssumption DEF DrainInv
<1>9. CASE env = "drain" /\ cycles + 1 # DrainCycles
  <2>1. ~ErrorNow /\ cycles \in 0 .. DrainCycles - 1 /\ numGenerated = NumTransactions
    BY <1>3, <1>9 DEF ErrorNow, CleanupNow, DrainInv
  <2>2. env' = "drain" /\ cycles' = cycles + 1 /\ control' = control
    BY <1>9, <2>1 DEF Clock, WaitForEnd, Reports, CleanupNow
  <2>3. Remaining(k)'
    <3>1. n + Queued = 0 \/ n + Queued + cycles < 2 * Longest
      BY <1>1, <1>9 DEF Remaining
    <3>2. k + Queued' = 0 \/ k + Queued' + cycles' < 2 * Longest
      BY <1>2, <1>3, <1>4, <1>5, <2>1, <2>2, <3>1, BenchAssumption
    <3> QED
      BY <1>4, <1>6, <3>2 DEF Remaining, Longest
  <2> QED
    BY <1>7, <1>9, <2>1, <2>2, <2>3, BenchAssumption DEF DrainInv
<1>10. CASE CleanupNow
  <2>1. cycles \in Nat /\ numGenerated = NumTransactions
    BY <1>10 DEF CleanupNow, DrainInv
  <2>2. n <= 1 /\ inChan = <<>>
    BY <1>1, <1>10, <2>1, Drained
  <2>3. ~ErrorNow
    BY <1>2, <1>3, <2>2, LastEdge, NothingExpected DEF ErrorNow
  <2>4. env' = "ended" /\ control' = control
    BY <1>10, <2>3 DEF Clock, WaitForEnd, Reports, CleanupNow
  <2>5. mx'.at = "free"
    <3>1. k = 0
      BY <1>2, <1>4, <2>2
    <3>2. Left(0)' => Idle'
      BY Delay DEF Left
    <3> QED
      BY <1>4, <3>1, <3>2 DEF Idle
  <2>6. Remaining(k)'
    BY <1>4, <1>6, <2>4 DEF Remaining, Longest
  <2> QED
    BY <1>7, <2>1, <2>2, <2>4, <2>5, <2>6 DEF DrainInv
<1> QED
  BY <1>8, <1>9, <1>10 DEF Clock, CleanupNow

\* At first nothing is under way.
LEMMA DrainInit == Init => DrainInv
<1> SUFFICES ASSUME Init PROVE DrainInv
  OBVIOUS
<1>1. Left(0)
  BY BenchInit, FreeStage DEF BenchInv, Init, Left
<1>2. Remaining(0)
  BY <1>1, Delay DEF Remaining, Longest, Init
<1> QED
  BY <1>2 DEF Init, DrainInv

\* The answer of the callbacks leaves no more to be done than before.
LEMMA RespondLeft ==
    ASSUME Shape, Stages, NEW p \in XPorts, Respond(p), NEW n \in Nat, Left(n)
    PROVE  \E k \in Nat : k <= n /\ Left(k)'
<1> USE Delay
<1>1. x[p].waits # <<>> /\ p \in Ports /\ p # SlavePort /\ p = mx.port
  BY RespondStage DEF Respond, XPorts
<1>2. ~Still /\ ~Rests /\ \A rx, tx, out : ~Xactor(rx, tx, out)
  BY <1>1 DEF Still, Resting, Rests, ClientRests, Xactor
<1>3. ~SlaveStrobes /\ \A inr, fis, fos, out : ~Slave(inr, fis, fos, out)
  BY <1>1, Clients
<1>4. ~Waiting'
  BY RespondStep, WaitingIs DEF Waiting, Xactor
<1>5. /\ ~Idle /\ ~Strobe /\ ~Reply
      /\ ~Write1 /\ ~Write2 /\ ~Write3 /\ ~Write4 /\ ~Write5 /\ ~Write6 /\ ~Write7
      /\ ~WriteAck1 /\ ~WriteAck2 /\ ~WriteAck3 /\ ~WriteAck4
      /\ ~Read1 /\ ~Read2 /\ ~Read3 /\ ~Read4 /\ ~Read5
      /\ ~ReadAck1 /\ ~ReadAck2 /\ ~ReadAck3 /\ ~ReadAck4 /\ ~ReadAck5 /\ ~ReadAck6
  BY <1>2, <1>3
     DEF Idle, Strobe, Reply, Write1, Write2, Write3, Write4, Write5, Write6, Write7,
         WriteAck1, WriteAck2, WriteAck3, WriteAck4, Read1, Read2, Read3,
         Read4, Read5, ReadAck1, ReadAck2, ReadAck3, ReadAck4, ReadAck5, ReadAck6
<1>6. ~(WriteWait /\ ReadWait)
  BY DEF WriteWait, ReadWait, Selected, Transfer, Write, Read
<1>7. CASE WriteWait /\ WriteWait'
  <2>1. n >= 5
    BY <1>5, <1>6, <1>7 DEF Left
  <2>2. Left(5)'
    BY <1>4, <1>7 DEF Left
  <2> QED
    BY <2>1, <2>2
<1>8. CASE ReadWait /\ ReadWait'
  <2>1. n >= 8
    BY <1>5, <1>6, <1>8 DEF Left
  <2>2. Left(8)'
    BY <1>4, <1>8 DEF Left
  <2> QED
    BY <2>1, <2>2
<1> QED
  BY <1>7, <1>8, RespondStep

\* Every step keeps within the drain.
LEMMA DrainNext ==
    ASSUME LongDrain, Shape, Watch, DrainInv, [Next]_vars
    PROVE  DrainInv'
<1>1. PICK n : Remaining(n)
  BY DEF DrainInv
<1>2. n \in Nat /\ n <= Longest /\ Left(n) /\ Longest \in Nat /\ Longest > 0
  BY <1>1, Delay DEF Remaining, Longest
<1>3. CASE Generate
  <2>1. UNCHANGED <<m, s, sw, mx, x, regs, rdat, served, env, cycles, control>> /\ env = "run"
    BY <1>3, BenchAssumption DEF Generate, DrainInv
  <2>2. Left(n)'
    BY <1>2, <2>1, SameLeft
  <2>3. Remaining(n)'
    BY <1>1, <2>1, <2>2 DEF Remaining, Longest
  <2> QED
    BY <2>1, <2>3 DEF DrainInv
<1>4. CASE MasterGet
  <2>1. /\ Strobe' /\ inChan # <<>> /\ inChan' = <<>>
        /\ UNCHANGED <<env, cycles, control, numGenerated>>
    BY <1>4, MasterGetStep, WatchStages DEF MasterGet
  <2>2. Queued = Longest /\ Queued' = 0 /\ Longest' = Longest
    BY <2>1 DEF Queued, Longest
  <2>3. ASSUME NEW k, k = Longest PROVE Remaining(k)'
    <3>1. Left(k)'
      BY <2>1, <2>3 DEF Left, Longest
    <3>2. env = "drain" => k + 0 + cycles < 2 * Longest
      <4>1. env = "drain" => cycles \in Nat
        BY BenchAssumption DEF DrainInv
      <4>2. env = "drain" => n + Longest = 0 \/ n + Longest + cycles < 2 * Longest
        BY <1>1, <2>2 DEF Remaining
      <4> QED
        BY <1>2, <2>3, <4>1, <4>2
    <3> QED
      BY <1>2, <2>1, <2>2, <2>3, <3>1, <3>2 DEF Remaining
  <2> QED
    BY <1>2, <2>1, <2>3 DEF DrainInv
<1>5. ASSUME NEW p \in XPorts, Respond(p) PROVE DrainInv'
  <2>1. UNCHANGED <<mx, inChan, env, cycles, control, numGenerated>>
    BY <1>5 DEF Respond
  <2>2. PICK k \in Nat : k <= n /\ Left(k)'
    BY <1>2, <1>5, RespondLeft, WatchStages
  <2>3. Queued' = Queued /\ Longest' = Longest /\ Queued \in {0, Longest}
    BY <2>1 DEF Queued, Longest
  <2>4. env = "drain" => k + Queued = 0 \/ k + Queued + cycles < 2 * Longest
    <3>1. env = "drain" => cycles \in Nat
      BY BenchAssumption DEF DrainInv
    <3>2. env = "drain" => n + Queued = 0 \/ n + Queued + cycles < 2 * Longest
      BY <1>1 DEF Remaining
    <3> QED
      BY <1>2, <2>2, <2>3, <3>1, <3>2
  <2>5. Remaining(k)'
    BY <1>2, <2>1, <2>2, <2>3, <2>4 DEF Remaining
  <2> QED
    BY <2>1, <2>5 DEF DrainInv
<1>6. CASE Clock
  BY <1>6, DrainClock
<1>7. CASE Ended \/ UNCHANGED vars
  <2>1. /\ UNCHANGED <<m, s, sw, mx, x, regs, rdat, served>>
        /\ UNCHANGED <<inChan, env, cycles, control, numGenerated>>
    BY <1>7 DEF Ended, vars
  <2>2. Left(n)'
    BY <1>2, <2>1, SameLeft
  <2>3. Remaining(n)'
    BY <1>1, <2>1, <2>2 DEF Remaining, Longest, Queued
  <2> QED
    BY <2>1, <2>3 DEF DrainInv
<1> QED
  BY <1>3, <1>4, <1>5, <1>6, <1>7 DEF Next

\* The test ends with the requests, if the drain is long enough.
LEMMA DrainInvariant == ASSUME LongDrain PROVE Spec => []DrainInv
<1>1. Init => DrainInv
  BY DrainInit
<1>2. BenchInv /\ Watch /\ DrainInv /\ [Next]_vars => DrainInv'
  BY DrainNext DEF BenchInv
<1> QED
  BY <1>1, <1>2, WatchInvariant, PTL DEF Spec

\* The checker of the bench finds each packet that comes out of the switch where it is
\* expected, never has two to choose from, and finds nothing left at the end: it never
\* reports an error, if the drain is long enough for the two requests that may be
\* under way when the last one has been handed over.
THEOREM CheckerTheorem == ASSUME LongDrain PROVE Spec => []CheckerAgrees
<1>1. Watch /\ DrainInv => CheckerAgrees
  <2> SUFFICES ASSUME Watch, DrainInv PROVE CheckerAgrees
    OBVIOUS
  <2>1. control.count = 0
    BY DEF DrainInv, DefaultControl
  <2> QED
    BY <2>1, FewExpected DEF CheckerAgrees
<1> QED
  BY <1>1, DrainInvariant, WatchInvariant, PTL

\* When the test has ended every request has been answered and every packet has come
\* out of the switch, if the drain is long enough.
THEOREM DrainTheorem == ASSUME LongDrain PROVE Spec => []DrainedAtEnd
<1>1. Shape /\ TypeInv /\ Watch /\ DrainInv => DrainedAtEnd
  <2> SUFFICES ASSUME Shape, TypeInv, Watch, DrainInv, env = "ended"
               PROVE  answers = NumTransactions /\ \A p \in AllPorts : expect[p] = <<>>
    BY DEF DrainedAtEnd
  <2>1. numGenerated = NumTransactions /\ mx.at = "free" /\ Len(inChan) = 0
    BY DEF DrainInv
  <2>2. answers = NumTransactions
    BY <2>1, BenchAssumption DEF TypeInv, Counts
  <2>3. ~NotEmpty
    BY <2>1, WatchStages, NothingExpected
  <2> QED
    BY <2>2, <2>3 DEF NotEmpty
<1> QED
  BY <1>1, DrainInvariant, WatchInvariant, TypeInvariant, PTL DEF BenchInv
=============================================================================
