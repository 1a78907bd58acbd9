-------------------------------- MODULE MCRpc -------------------------------
(* The inputs of RpcTransports for TLC: the beginning of a message, a       *)
(* command and the session's end, and what cannot be handled or decoded.    *)
EXTENDS RpcTransports

MCPackets == {<<"part">>, <<"end", "stop">>, <<"unknown", "bad">>}
=============================================================================
