------------------------------ MODULE FricSwitch ------------------------------
(* fric_switch_nosym_8port.v: forwards each packet of the master (port 0) to    *)
(* the port its header names, with that port number replaced by 0, then waits   *)
(* for the acknowledge of that port and forwards it to the master with the      *)
(* number put back in. Port 0 has the state machine; the other ports have a     *)
(* register in each direction.                                                  *)
EXTENDS FricBus

CONSTANT Ports     \* the ports other than 0 that have a client

VARIABLE sw        \* the registers

MpStates == {"idle", "req_adr", "wdat0", "wdat1", "wack", "rep_adr", "rdat0", "rdat1"}

TypeOK == sw \in [mp : MpStates, fric_inr0 : Byte, psel_reg : 0..15, type : 0..15,
                  fric_out0 : Byte, fric_inr : [Ports -> Byte], fric_out : [Ports -> Byte]]

Init == sw = [mp |-> "idle", fric_inr0 |-> 0, psel_reg |-> 0, type |-> 0, fric_out0 |-> 0,
              fric_inr |-> [p \in Ports |-> 0], fric_out |-> [p \in Ports |-> 0]]

\* capt_psel and chng_port_out: a packet of the master begins.
Starts == sw.mp = "idle" /\ Type(sw.fric_inr0) # 0

\* Mutant: the header keeps its port.
pdat_KeepsPort == sw.fric_inr0

psel == IF Starts THEN Port(sw.fric_inr0) ELSE sw.psel_reg

pdat == IF Starts THEN Header(Type(sw.fric_inr0), 0) ELSE sw.fric_inr0

prep == IF psel \in Ports THEN sw.fric_inr[psel] ELSE 0

\* chng_port_in: the acknowledge begins.
Acknowledged == sw.mp = "wack" /\ prep # 0

\* Mutant: the reply of a read is taken for one byte shorter.
NextMp_ShortReply ==
  [idle    |-> IF Starts THEN "req_adr" ELSE "idle",
   req_adr |-> IF sw.type = Write THEN "wdat0" ELSE "wack",
   wdat0   |-> "wdat1", wdat1 |-> "wack",
   wack    |-> IF Acknowledged THEN "rep_adr" ELSE "wack",
   rep_adr |-> IF sw.type = Write THEN "idle" ELSE "rdat0", rdat0 |-> "idle"][sw.mp]

NextMp ==
  [idle    |-> IF Starts THEN "req_adr" ELSE "idle",
   req_adr |-> CASE sw.type = Write -> "wdat0" [] sw.type = Read -> "wack" [] OTHER -> "req_adr",
   wdat0   |-> "wdat1",
   wdat1   |-> "wack",
   wack    |-> IF Acknowledged THEN "rep_adr" ELSE "wack",
   rep_adr |-> IF sw.type = Write THEN "idle" ELSE "rdat0",
   rdat0   |-> "rdat1",
   rdat1   |-> "idle"][sw.mp]

\* A clock edge, with the byte in0 from the master and in[p] from each port p.
\* A port that is not selected keeps the last byte it was sent.
Clock(in0, in) ==
  sw' = [mp |-> NextMp, fric_inr0 |-> in0,
         psel_reg |-> IF Starts THEN Port(sw.fric_inr0) ELSE sw.psel_reg,
         type |-> IF Starts THEN Type(sw.fric_inr0) ELSE sw.type,
         fric_out0 |-> IF Acknowledged THEN Header(Type(prep), psel) ELSE prep,
         fric_inr |-> in,
         fric_out |-> [p \in Ports |-> IF p = psel THEN pdat ELSE sw.fric_out[p]]]
==============================================================================
