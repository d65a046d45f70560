------------------------------ MODULE MCServer ------------------------------
(***************************************************************************)
(* A small server for TLC: the packets are one of every kind the dispatch  *)
(* tells apart. The same bytes mean different packets in different phases: *)
(* id 0 is set_protocol, ping_start or login_start, id 1 is unknown, ping  *)
(* or encryption_response.                                                 *)
(***************************************************************************)
EXTENDS Server

ToStatus  == [id |-> 0, fits |-> TRUE, next |-> STATUS, version |-> 0]
ToLogin   == [id |-> 0, fits |-> TRUE, next |-> LOGIN, version |-> PROTOCOL_VERSION]
OldLogin  == [id |-> 0, fits |-> TRUE, next |-> LOGIN, version |-> 47]
ToPlay    == [id |-> 0, fits |-> TRUE, next |-> PLAY, version |-> PROTOCOL_VERSION]
IdOne     == [id |-> 1, fits |-> TRUE, next |-> HANDSHAKING, version |-> 0]
Malformed == [id |-> 0, fits |-> FALSE, next |-> STATUS, version |-> 0]

MCPackets == {ToStatus, ToLogin, OldLogin, ToPlay, IdOne, Malformed}
=============================================================================
