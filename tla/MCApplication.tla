---------------------------- MODULE MCApplication ----------------------------
(* Constant values for model checking Application.                         *)
EXTENDS Application
CONSTANT d1
Deliveries == {d1}
\* An emitter of Sui, whose address is written in lower case and with capitals.
Chains == {"sui"}
Emitters == {"cap"}
Addresses == {Hex("cap", "lower"), Hex("cap", "mixed")}
ChainOf == [e \in Emitters |-> "sui"]
EmitterOf == [d \in Deliveries |-> "cap"]
=============================================================================
