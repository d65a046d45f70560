------------------------------ MODULE Protocol ------------------------------
(***************************************************************************)
(* What the server does with one packet: the generated dispatch_packet     *)
(* (scripts/protodef.py) and the process_ functions of                     *)
(* src/minecraft/protocol/{handshaking,status,login}.c.                    *)
(*                                                                         *)
(* A packet is its id and what the handlers look at: "fits" says that the  *)
(* reader of that packet consumes exactly its bytes, "next" and "version"  *)
(* are read only of a set_protocol.                                        *)
(***************************************************************************)
EXTENDS Naturals

\* protocol_state_t
HANDSHAKING == 0
STATUS == 1
LOGIN == 2
PLAY == 3

Phase == {HANDSHAKING, STATUS, LOGIN, PLAY}

PROTOCOL_VERSION == 757

Packet == [id : Nat, fits : BOOLEAN, next : Nat, version : Nat]

\* The packets the generated dispatcher knows in each phase: id |-> name.
Known(phase) ==
  CASE phase = HANDSHAKING -> {0}       \* set_protocol
    [] phase = STATUS      -> {0, 1}    \* ping_start, ping
    [] phase = LOGIN       -> {0, 1, 2} \* login_start, encryption_response,
                                        \* login_plugin_response
    [] OTHER               -> {}

\* process_handshaking_packet_set_protocol accepts the packet.
ValidSetProtocol(p) ==
  \/ p.next = STATUS
  \/ p.next = LOGIN /\ p.version = PROTOCOL_VERSION

\* Of the process_login_packet_ functions only that of login_start returns
\* without a protocol error: nothing was requested that the others answer.
ValidLogin(p) == p.id = 0

\* The error the whole dispatch returns if sending a reply does not fail.
DispatchError(phase, p) ==
  IF phase \notin {HANDSHAKING, STATUS, LOGIN} THEN "CHECK_FAILED"
  ELSE IF \/ p.id \notin Known(phase)
          \/ ~p.fits
          \/ phase = HANDSHAKING /\ ~ValidSetProtocol(p)
          \/ phase = LOGIN /\ ~ValidLogin(p)
       THEN "PROTOCOL"
       ELSE "NO_ERROR"

\* client->state after a dispatch without error.
PhaseAfter(phase, p) == IF phase = HANDSHAKING THEN p.next ELSE phase

\* ping_start is answered with server_info and ping with pong.
Replies(phase) == phase = STATUS
=============================================================================
