----------------------------- MODULE MCChannel -----------------------------
(* Instances of Channel for TLC; the cfg files give the constants.          *)
EXTENDS Channel

CONSTANTS p1, c1, c2

OneProducer == {p1}
OneConsumer == {c1}
TwoConsumers == {c1, c2}
NoResetter == {}
TheResetter == {c1}
=============================================================================
