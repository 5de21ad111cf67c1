------------------------------ MODULE FricSlave ------------------------------
(* fric_client_slave.v: the client that strobes the writes it receives into its *)
(* user (wstb, addr, wdat), reads its user's rdat, and acknowledges. "fis" is   *)
(* the sequencer of the incoming bytes and starts "fos", that of the            *)
(* acknowledge, as soon as it has the address: a write is acknowledged while    *)
(* its data are still coming in.                                                *)
EXTENDS FricBus

VARIABLE s     \* the registers

TypeOK == s \in [fis : {"idle", "rd_adr", "wr_adr", "wr_da0", "wr_da1"},
                 fos : {"idle", "rd_adr", "rd_da0", "rd_da1", "wr_adr"},
                 fric_inr : Byte, fric_out : Byte, port : 0..15, addr : Byte,
                 wdat : Word, wstb : {0, 1}]

Init == s = [fis |-> "idle", fos |-> "idle", fric_inr |-> 0, fric_out |-> 0,
             port |-> 0, addr |-> 0, wdat |-> 0, wstb |-> 0]

init_rdack == s.fis = "rd_adr"
init_wrack == s.fis = "wr_adr"

NextFis ==
  [idle   |-> CASE Type(s.fric_inr) = Write -> "wr_adr"
                [] Type(s.fric_inr) = Read  -> "rd_adr"
                [] OTHER                    -> "idle",
   rd_adr |-> "idle",
   wr_adr |-> "wr_da0",
   wr_da0 |-> "wr_da1",
   wr_da1 |-> "idle"][s.fis]

\* A request that comes while an acknowledge is being sent gets none.
NextFos ==
  [idle   |-> CASE init_rdack -> "rd_adr"
                [] init_wrack -> "wr_adr"
                [] OTHER      -> "idle",
   rd_adr |-> "rd_da0",
   rd_da0 |-> "rd_da1",
   rd_da1 |-> "idle",
   wr_adr |-> "idle"][s.fos]

FricOut(rdat) ==
  CASE s.fos = "idle" /\ init_rdack     -> Header(ReadAck, s.port)
    [] s.fos = "idle" /\ init_wrack     -> Header(WriteAck, s.port)
    [] s.fos \in {"rd_adr", "wr_adr"}   -> s.addr
    [] s.fos = "rd_da0"                 -> Lo(rdat)
    [] s.fos = "rd_da1"                 -> Hi(rdat)
    [] OTHER                            -> 0

NextWdat ==
  CASE s.fis = "wr_da0" -> 256 * Hi(s.wdat) + s.fric_inr
    [] s.fis = "wr_da1" -> 256 * s.fric_inr + Lo(s.wdat)
    [] OTHER            -> s.wdat

\* A clock edge, with the byte in on the bus and the user's word rdat.
Clock(in, rdat) ==
  s' = [fis |-> NextFis, fos |-> NextFos, fric_inr |-> in, fric_out |-> FricOut(rdat),
        port |-> IF s.fis = "idle" /\ Type(s.fric_inr) \in {Write, Read}
                 THEN Port(s.fric_inr) ELSE s.port,
        addr |-> IF init_rdack \/ init_wrack THEN s.fric_inr ELSE s.addr,
        wdat |-> NextWdat,
        wstb |-> IF s.fis = "wr_da1" THEN 1 ELSE 0]
==============================================================================
