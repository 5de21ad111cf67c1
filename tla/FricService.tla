----------------------------- MODULE FricService -----------------------------
(* What the fric design and the transactors around it promise the generator:   *)
(* one request at a time, served exactly once, by the client of the port it     *)
(* names and by no other, and answered when it has been served. The registers   *)
(* behind the slave client are a memory: a read returns what the last write     *)
(* left there. The other clients make up their answers.                         *)
EXTENDS FricBus, Sequences

CONSTANTS SlavePort, Requests, AnswerData,
          Addrs        \* the addresses of the memory

VARIABLES busy,        \* a request is under way
          req,         \* the last request
          data,        \* its data: what is written, then what has been read
          served,      \* what clients have done since it was made
          regs         \* the memory

vars == <<busy, req, data, served, regs>>

NoRequest == [type |-> 0, port |-> 0, addr |-> 0, data |-> 0]

Init ==
  /\ busy = FALSE
  /\ req = NoRequest
  /\ data = 0
  /\ served = <<>>
  /\ regs \in [Addrs -> Word]

Ask ==
  /\ ~busy
  /\ busy' = TRUE
  /\ req' \in Requests
  /\ data' = req'.data
  /\ served' = <<>>
  /\ UNCHANGED regs

\* The client named by the request serves it and supplies d.
Served(d) == served' = <<[req EXCEPT !.data = d]>>

ServeWrite ==
  /\ req.type = Write
  /\ Served(req.data)
  /\ regs' = IF req.port = SlavePort THEN [regs EXCEPT ![req.addr] = req.data] ELSE regs

ServeRead ==
  /\ req.type = Read
  /\ IF req.port = SlavePort THEN Served(regs[req.addr]) ELSE \E d \in AnswerData : Served(d)
  /\ UNCHANGED regs

Serve ==
  /\ busy /\ served = <<>>
  /\ ServeWrite \/ ServeRead
  /\ UNCHANGED <<busy, req, data>>

Reply ==
  /\ busy /\ served # <<>>
  /\ busy' = FALSE
  /\ data' = IF req.type = Read THEN served[1].data ELSE data
  /\ UNCHANGED <<req, served, regs>>

Next == Ask \/ Serve \/ Reply

Spec == Init /\ [][Next]_vars
===============================================================================
