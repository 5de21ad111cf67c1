----------------------------- MODULE MCFricBench -----------------------------
(* Model values for FricBench. The addresses and data contain bytes that look   *)
(* like headers of requests (16#25, 16#31) and of acknowledges (16#40, 16#52).  *)
EXTENDS FricBench

MCRequests ==
  {[type |-> Write, port |-> 1, addr |-> 37, data |-> 16432],   \* 16#25, 16#4030
   [type |-> Read,  port |-> 1, addr |-> 37, data |-> 0],
   [type |-> Read,  port |-> 1, addr |-> 0,  data |-> 0],
   [type |-> Write, port |-> 2, addr |-> 64, data |-> 49],      \* 16#40, 16#0031
   [type |-> Read,  port |-> 2, addr |-> 0,  data |-> 0],
   [type |-> Read,  port |-> 3, addr |-> 82, data |-> 0]}       \* 16#52

MCAnswerData == {69, 1024}                                      \* 16#0045, 16#0400

MCLeftovers == {0, 12802}                                       \* 16#3202
==============================================================================
