--------------------------- MODULE MCOpcodeEngine ---------------------------
(* Queues of eight and four entries stand for 256 and 16 where they are    *)
(* never to fill, queues of two where they are.                            *)
EXTENDS OpcodeEngine

NoTests == <<>>
OneTest == <<"test1">>
RegisterAndTest == <<Register, "test1">>
OneRegister == <<Register>>
CableEvents == {"cc"}
CableAndPdEvents == {"cc", "pd"}
CombinedEvents == {"cc_and_chgtype", "pd"}
AllButCableEvents == EventKinds \ {"cc"}
=============================================================================
