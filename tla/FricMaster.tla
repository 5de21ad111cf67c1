----------------------------- MODULE FricMaster -----------------------------
(* fric_client_master.v: the client that turns a request into a packet on its   *)
(* bus and the acknowledge that comes back into trdy, rstb and rdat. "fos" is   *)
(* the sequencer of the outgoing bytes, "fis" that of the incoming ones. All    *)
(* registers change at the clock edge; a request is a record with the wires     *)
(* tstb, type, port, addr and wdat.                                             *)
EXTENDS FricBus

VARIABLE m     \* the registers

FosStates == {"idle", "wr_adr", "wr_da0", "wr_da1", "wr_ack", "rd_adr", "rd_ack"}
FisStates == {"idle", "wr_ack", "rd_ack", "rd_da0", "rd_da1"}

TypeOK == m \in [fos : FosStates, fis : FisStates, fric_out : Byte, fric_inr : Byte,
                 rdat : Word, rstb : {0, 1}]

Init == m = [fos |-> "idle", fis |-> "idle", fric_out |-> 0, fric_inr |-> 0,
             rdat |-> 0, rstb |-> 0]

Strobed(req) == req.tstb = 1 /\ req.type \in {Write, Read}

\* Mutants: acknowledged with the header of the reply; without any acknowledge.
fis_ack_OnHeader == m.fis \in {"wr_ack", "rd_ack"}
fis_ack_Always == TRUE

fis_ack == m.fis \in {"wr_ack", "rd_da1"}

trdy(req) ==
  \/ m.fos = "idle" /\ ~Strobed(req)
  \/ m.fos \in {"wr_ack", "rd_ack"} /\ fis_ack

NextFos(req) ==
  [idle   |-> IF ~Strobed(req) THEN "idle" ELSE IF req.type = Write THEN "wr_adr" ELSE "rd_adr",
   wr_adr |-> "wr_da0",
   wr_da0 |-> "wr_da1",
   wr_da1 |-> "wr_ack",
   wr_ack |-> IF fis_ack THEN "idle" ELSE "wr_ack",
   rd_adr |-> "rd_ack",
   rd_ack |-> IF fis_ack THEN "idle" ELSE "rd_ack"][m.fos]

\* Mutant: the bus does not go back to zero.
FricOut_Holds(req) ==
  CASE m.fos = "idle" /\ Strobed(req)   -> Header(req.type, req.port)
    [] m.fos \in {"wr_adr", "rd_adr"}   -> req.addr
    [] m.fos = "wr_da0"                 -> Lo(req.wdat)
    [] m.fos = "wr_da1"                 -> Hi(req.wdat)
    [] OTHER                            -> m.fric_out

FricOut(req) ==
  CASE m.fos = "idle" /\ Strobed(req)   -> Header(req.type, req.port)
    [] m.fos \in {"wr_adr", "rd_adr"}   -> req.addr
    [] m.fos = "wr_da0"                 -> Lo(req.wdat)
    [] m.fos = "wr_da1"                 -> Hi(req.wdat)
    [] OTHER                            -> 0

\* Mutant: only the acknowledges of reads are recognised.
NextFis_ReadsOnly ==
  [idle   |-> IF Type(m.fric_inr) = ReadAck THEN "rd_ack" ELSE "idle", wr_ack |-> "idle",
   rd_ack |-> "rd_da0", rd_da0 |-> "rd_da1", rd_da1 |-> "idle"][m.fis]

NextFis ==
  [idle   |-> CASE Type(m.fric_inr) = WriteAck -> "wr_ack"
                [] Type(m.fric_inr) = ReadAck  -> "rd_ack"
                [] OTHER                       -> "idle",
   wr_ack |-> "idle",
   rd_ack |-> "rd_da0",
   rd_da0 |-> "rd_da1",
   rd_da1 |-> "idle"][m.fis]

NextRdat ==
  CASE m.fis = "rd_da0" -> 256 * Hi(m.rdat) + m.fric_inr
    [] m.fis = "rd_da1" -> 256 * m.fric_inr + Lo(m.rdat)
    [] OTHER            -> m.rdat

\* A clock edge, with the byte in on the bus and the request req on the wires.
Clock(in, req) ==
  m' = [fos |-> NextFos(req), fis |-> NextFis, fric_out |-> FricOut(req), fric_inr |-> in,
        rdat |-> NextRdat, rstb |-> IF m.fis = "rd_da1" THEN 1 ELSE 0]
==============================================================================
