------------------------------- MODULE Server -------------------------------
(***************************************************************************)
(* src/net/server.c, with what it calls of receiver.c and buffer_pool.c:   *)
(* one thread that owns every client, request and buffer, and the kernel   *)
(* behind an io_uring, which completes what is in flight in any order. The *)
(* server sees of the completion queue only its head, so the queue is not  *)
(* kept: a completion happens when the loop takes it up, and one that is   *)
(* taken up later happens later.                                           *)
(*                                                                         *)
(* Which of the free requests or buffers a pool hands out makes no         *)
(* difference to anything below, so a pool is a set and the least is taken *)
(* (the code takes the last).                                              *)
(*                                                                         *)
(* Memory is modelled by identity: an access to a client that was freed    *)
(* ends the behaviour with pc = "fault", since nothing can be said after.  *)
(***************************************************************************)
EXTENDS Protocol, Sequences, FiniteSets, SequencesExt

CONSTANTS
  MaxClients,           \* bound: connections in one behaviour
  MaxRequests,          \* bound: request_t ever allocated
  MaxSends,             \* bound: replies under way at one time
  MaxBuffers,           \* bound: no more is mapped for packets beyond this many
  MaxPackets,           \* bound: packets completed by one recv
  SqEntries,            \* entries of the submission queue
  Packets               \* the packets that clients send

ASSUME ServerAssumption ==
  /\ MaxClients \in Nat /\ MaxRequests \in Nat /\ MaxBuffers \in Nat
  /\ MaxPackets \in Nat /\ MaxSends \in Nat
  /\ SqEntries \in Nat \ {0}
  /\ Packets \subseteq Packet

Client  == 1 .. MaxClients
Request == 1 .. MaxRequests
Buffer  == 1 .. MaxBuffers + MaxClients
None    == 0

VARIABLES
  pc,                   \* where server_start is
  cqe,                  \* the completion being handled
  parsed,               \* packets taken from the data being consumed
  pool,                 \* m_requests_pool
  nreq,                 \* how many requests were ever allocated
  req,                  \* the contents of each request_t
  sq,                   \* requests prepared and not yet submitted
  inflight,             \* requests submitted and not yet completed
  client,               \* every client_t
  list,                 \* the list m_clients
  mapped,               \* how many buffers were ever mapped
  tcpPool,              \* m_tcp_recv
  sendPool,             \* m_protocol_send_buffers
  overflowed,           \* history: the submission queue had no room once
  sendFailed            \* history: a client was dropped for a failed send

ring == <<sq, inflight>>
requests == <<pool, nreq, req>>
buffers == <<mapped, tcpPool, sendPool>>
history == <<overflowed, sendFailed>>
vars == <<pc, cqe, parsed, requests, ring, client, list, buffers, history>>

L == INSTANCE ClientList WITH Node <- Client, ListHead <- None, Gone <- MaxClients + 1

NoCqe == [req |-> None, res |-> "none"]
Blank == [type |-> "none", client |-> None, buf |-> None]
Unborn == [life |-> "unused", phase |-> HANDSHAKING, partial |-> None, buf |-> None]

Live == {c \in Client : client[c].life = "live"}

\* Requests whose completion is still to be handled, or being handled.
Pending == sq \cup inflight \cup ({cqe.req} \ {None})

TypeOK ==
  /\ pc \in {"start", "submit", "wait", "loop", "handle", "arm_new", "arm_accept",
             "parse", "rearm", "disconnect", "recycle", "stopped", "fault"}
  /\ cqe \in [req : Request \cup {None}, res : {"none", "ok", "gone"}]
  /\ parsed \in 0 .. MaxPackets
  /\ pool \subseteq Request
  /\ nreq \in 0 .. MaxRequests
  /\ req \in [Request -> [type : {"none", "accept", "recv", "send"},
                          client : Client \cup {None}, buf : Buffer \cup {None}]]
  /\ sq \subseteq Request /\ Cardinality(sq) <= SqEntries
  /\ inflight \subseteq Request
  /\ client \in [Client -> [life : {"unused", "live", "freed"}, phase : Phase,
                            partial : Buffer \cup {None}, buf : Buffer \cup {None}]]
  /\ mapped \in 0 .. MaxBuffers + MaxClients
  /\ tcpPool \subseteq Buffer /\ sendPool \subseteq Buffer
  /\ overflowed \in BOOLEAN /\ sendFailed \in BOOLEAN

\* After init_server.
Init ==
  /\ pc = "start" /\ cqe = NoCqe /\ parsed = 0
  /\ pool = {} /\ nreq = 0 /\ req = [r \in Request |-> Blank]
  /\ sq = {} /\ inflight = {}
  /\ client = [c \in Client |-> Unborn]
  /\ list = L!EmptyList
  /\ mapped = 0 /\ tcpPool = {} /\ sendPool = {}
  /\ overflowed = FALSE /\ sendFailed = FALSE
-----------------------------------------------------------------------------
(* Requests, buffers and the submission queue.                             *)

\* What get_request, or a get of the buffer pools, returns when the last new
\* object was the n-th: a free one if there is one.
Take(p, n) == IF p = {} THEN n + 1 ELSE Min(p)
NewRequest == Take(pool, nreq)

GetRequest ==
  /\ pool = {} => nreq < MaxRequests
  /\ pool' = pool \ {NewRequest}
  /\ nreq' = IF pool = {} THEN nreq + 1 ELSE nreq

\* get_request, io_uring_get_sqe and the preparation of the sqe.
Queue(content) ==
  /\ GetRequest
  /\ req' = [req EXCEPT ![NewRequest] = content]
  /\ Cardinality(sq) < SqEntries
  /\ sq' = sq \cup {NewRequest}
  /\ UNCHANGED <<inflight, overflowed>>

\* The ring is full: io_uring_get_sqe returns NULL when the request is already
\* taken, and nobody gives it back.
QueueFull ==
  /\ Cardinality(sq) = SqEntries
  /\ GetRequest
  /\ overflowed' = TRUE
  /\ UNCHANGED <<req, ring>>

TakeBuffer(p) == Take(p, mapped)

\* A pool that is empty maps a new buffer.
MapBuffer(p) == mapped' = IF p = {} THEN mapped + 1 ELSE mapped

\* The same for packets, as far as the bound allows.
MapPacketBuffer(p) == (p = {} => mapped < MaxBuffers) /\ MapBuffer(p)
-----------------------------------------------------------------------------
(* The loop.                                                               *)

\* server_start, the first add_accept; the ring is empty, so it cannot fail.
Start ==
  /\ pc = "start" /\ pc' = "submit"
  /\ Queue([type |-> "accept", client |-> None, buf |-> None])
  /\ UNCHANGED <<cqe, parsed, client, list, buffers, sendFailed>>

\* io_uring_submit_and_wait submits ...
Submit ==
  /\ pc = "submit" /\ pc' = "wait"
  /\ inflight' = inflight \cup sq
  /\ sq' = {}
  /\ UNCHANGED <<cqe, parsed, requests, client, list, buffers, history>>

\* ... and returns when there is a completion; io_uring_for_each_cqe goes on as
\* long as there are more. The kernel decides what completes and how: with what
\* was asked for, or with an error or, on a recv, the end of the stream. A
\* connection comes only while the bound on clients allows.
NextCqe(r, res) ==
  /\ pc \in {"wait", "loop"} /\ pc' = "handle"
  /\ r \in inflight
  /\ req[r].type = "accept" /\ res = "ok" => \E c \in Client : client[c].life = "unused"
  /\ cqe' = [req |-> r, res |-> res]
  /\ inflight' = inflight \ {r}
  /\ UNCHANGED <<parsed, requests, sq, client, list, buffers, history>>

\* No more completions for now; io_uring_cq_advance frees their entries.
LoopEnds ==
  /\ pc = "loop" /\ pc' = "submit"
  /\ UNCHANGED <<cqe, parsed, requests, ring, client, list, buffers, history>>

Handling(type) == pc = "handle" /\ req[cqe.req].type = type
Subject == req[cqe.req].client

\* REQUEST_ACCEPT with an error leaves the loop and stops the server.
AcceptFailed ==
  /\ Handling("accept") /\ cqe.res = "gone" /\ pc' = "stopped"
  /\ UNCHANGED <<cqe, parsed, requests, ring, client, list, buffers, history>>

\* REQUEST_ACCEPT up to list_add_tail. The client is
\* remembered in the request until the two requests are queued.
Accepted ==
  /\ Handling("accept") /\ cqe.res = "ok" /\ pc' = "arm_new"
  /\ \E c \in Client :
       /\ client[c].life = "unused"
       /\ \A d \in Client : d < c => client[d].life # "unused"
       /\ client' = [client EXCEPT ![c].life = "live", ![c].buf = TakeBuffer(tcpPool)]
       /\ list' = L!AddTail(list, c)
       /\ req' = [req EXCEPT ![cqe.req].client = c]
  /\ MapBuffer(tcpPool)
  /\ tcpPool' = tcpPool \ {TakeBuffer(tcpPool)}
  /\ UNCHANGED <<cqe, parsed, pool, nreq, ring, sendPool, history>>

RecvOf(c) == [type |-> "recv", client |-> c, buf |-> client[c].buf]

\* add_recv(new_client), whose error is looked at. CHECK_ERRNO takes the error
\* from errno, which io_uring_get_sqe does not set: it is 0 or left over.
ArmNew ==
  /\ pc = "arm_new"
  /\ \/ Queue(RecvOf(Subject)) /\ pc' = "arm_accept"
     \/ QueueFull /\ pc' \in {"arm_accept", "stopped"}
  /\ UNCHANGED <<cqe, parsed, client, list, buffers, sendFailed>>

\* Mutant: the accept is not queued again.
ArmAcceptNone ==
  /\ pc = "arm_accept" /\ pc' = "recycle"
  /\ UNCHANGED <<cqe, parsed, requests, ring, client, list, buffers, history>>

\* add_accept(), the same.
ArmAccept ==
  /\ pc = "arm_accept"
  /\ \/ Queue([type |-> "accept", client |-> None, buf |-> None]) /\ pc' = "recycle"
     \/ /\ QueueFull
        /\ pc' \in {"recycle", "stopped"}
  /\ UNCHANGED <<cqe, parsed, client, list, buffers, sendFailed>>

\* REQUEST_RECV or a failed REQUEST_SEND of a client that was freed.
TouchFreed ==
  /\ pc = "handle"
  /\ \/ req[cqe.req].type = "recv"
     \/ req[cqe.req].type = "send" /\ cqe.res = "gone"
  /\ client[Subject].life = "freed"
  /\ pc' = "fault"
  /\ UNCHANGED <<cqe, parsed, requests, ring, client, list, buffers, history>>

\* Mutant: a failed recv is checked the way a failed accept is.
PeerGoneFatal ==
  /\ Handling("recv") \/ Handling("send")
  /\ cqe.res = "gone"
  /\ client[Subject].life = "live"
  /\ pc' = "stopped"
  /\ UNCHANGED <<cqe, parsed, requests, ring, client, list, buffers, history>>

\* REQUEST_RECV or REQUEST_SEND with res <= 0.
PeerGone ==
  /\ Handling("recv") \/ Handling("send")
  /\ cqe.res = "gone"
  /\ client[Subject].life = "live"
  /\ pc' = "disconnect"
  /\ sendFailed' = (sendFailed \/ Handling("send"))
  /\ UNCHANGED <<cqe, parsed, requests, ring, client, list, buffers, overflowed>>

\* Mutant: the client listens again before it is dropped for what it sent.
DisconnectArmed ==
  /\ pc = "disconnect" /\ pc' = "recycle"
  /\ Queue([type |-> "recv", client |-> Subject, buf |-> client[Subject].buf])
  /\ list' = L!Del(list, Subject)
  /\ tcpPool' = tcpPool \cup {client[Subject].buf}
  /\ client' = [client EXCEPT ![Subject] = [Unborn EXCEPT !.life = "freed"]]
  /\ UNCHANGED <<cqe, parsed, mapped, sendPool, sendFailed>>

\* disconnect_client. The descriptor stays open and a half received packet is
\* forgotten with the client, but neither is looked at again.
Disconnect ==
  /\ pc = "disconnect" /\ pc' = "recycle"
  /\ list' = L!Del(list, Subject)
  /\ tcpPool' = tcpPool \cup {client[Subject].buf}
  /\ client' = [client EXCEPT ![Subject] = [Unborn EXCEPT !.life = "freed"]]
  /\ UNCHANGED <<cqe, parsed, requests, ring, mapped, sendPool, history>>

\* Mutant: the buffer of a reply is only given back for a live client.
SendDoneLive ==
  /\ Handling("send") /\ cqe.res = "ok" /\ pc' = "recycle"
  /\ sendPool' = IF Subject \in Live THEN sendPool \cup {req[cqe.req].buf} ELSE sendPool
  /\ UNCHANGED <<cqe, parsed, requests, ring, client, list, mapped, tcpPool, history>>

\* REQUEST_SEND, all of it written. The client is not looked at.
SendDone ==
  /\ Handling("send") /\ cqe.res = "ok" /\ pc' = "recycle"
  /\ sendPool' = sendPool \cup {req[cqe.req].buf}
  /\ UNCHANGED <<cqe, parsed, requests, ring, client, list, mapped, tcpPool, history>>

\* Mutant: the recv is queued again before the data is consumed, too.
GotDataArmed ==
  /\ Handling("recv") /\ cqe.res = "ok"
  /\ client[Subject].life = "live"
  /\ pc' = "parse"
  /\ Queue(RecvOf(Subject))
  /\ UNCHANGED <<cqe, parsed, client, list, buffers, sendFailed>>

\* REQUEST_RECV with data: receiver_consume_data is called.
GotData ==
  /\ Handling("recv") /\ cqe.res = "ok"
  /\ client[Subject].life = "live"
  /\ pc' = "parse"
  /\ UNCHANGED <<cqe, parsed, requests, ring, client, list, buffers, history>>

\* The request goes back to the pool; what it held is not read again.
Recycle ==
  /\ pc = "recycle" /\ pc' = "loop"
  /\ pool' = pool \cup {cqe.req}
  /\ req' = [req EXCEPT ![cqe.req] = Blank]
  /\ cqe' = NoCqe
  /\ parsed' = 0
  /\ UNCHANGED <<nreq, ring, client, list, buffers, history>>
-----------------------------------------------------------------------------
(* receiver_consume_data on the data of one recv: first the end of a packet *)
(* whose beginning came earlier, then whole packets, then a beginning.     *)

\* A packet that came in pieces sits in a buffer mapped for packets, which is
\* given to the pool of send buffers when the packet was dispatched.
Done(c) == {client[c].partial} \ {None}

\* dispatch_packet without a reply.
PacketQuiet(p) ==
  LET c == Subject
  IN  /\ pc = "parse" /\ parsed < MaxPackets
      /\ DispatchError(client[c].phase, p) = "NO_ERROR"
      /\ ~Replies(client[c].phase)
      /\ parsed' = parsed + 1
      /\ client' = [client EXCEPT ![c].phase = PhaseAfter(client[c].phase, p),
                                  ![c].partial = None]
      /\ sendPool' = sendPool \cup Done(c)
      /\ UNCHANGED <<pc, cqe, requests, ring, list, mapped, tcpPool, history>>

SendOf(c) == [type |-> "send", client |-> c, buf |-> TakeBuffer(sendPool)]

\* Mutant: the buffer of the reply stays in the pool.
PacketAnsweredKept(p) ==
  LET c == Subject
  IN  /\ pc = "parse" /\ parsed < MaxPackets
      /\ DispatchError(client[c].phase, p) = "NO_ERROR"
      /\ Replies(client[c].phase)
      /\ Cardinality({r \in Pending : req[r].type = "send"}) < MaxSends
      /\ MapPacketBuffer(sendPool)
      /\ Queue(SendOf(c))
      /\ parsed' = parsed + 1
      /\ client' = [client EXCEPT ![c].partial = None]
      /\ sendPool' = sendPool \cup Done(c)
      /\ UNCHANGED <<pc, cqe, list, tcpPool, sendFailed>>

\* dispatch_packet with a reply: send_<packet> takes a buffer and calls
\* server_send_packet.
PacketAnswered(p) ==
  LET c == Subject
  IN  /\ pc = "parse" /\ parsed < MaxPackets
      /\ DispatchError(client[c].phase, p) = "NO_ERROR"
      /\ Replies(client[c].phase)
      /\ Cardinality({r \in Pending : req[r].type = "send"}) < MaxSends
      /\ MapPacketBuffer(sendPool)
      /\ Queue(SendOf(c))
      /\ parsed' = parsed + 1
      /\ client' = [client EXCEPT ![c].partial = None]
      /\ sendPool' = (sendPool \ {TakeBuffer(sendPool)}) \cup Done(c)
      /\ UNCHANGED <<pc, cqe, list, tcpPool, sendFailed>>

\* The same with the ring full. With errno 0 the caller hears of no error and
\* the buffer is never sent nor given back; otherwise send_<packet> returns the
\* buffer and the error leaves the loop of the server.
PacketUnanswered(p) ==
  LET c == Subject
  IN  /\ pc = "parse" /\ parsed < MaxPackets
      /\ DispatchError(client[c].phase, p) = "NO_ERROR"
      /\ Replies(client[c].phase)
      /\ MapPacketBuffer(sendPool)
      /\ QueueFull
      /\ client' = [client EXCEPT ![c].partial = None]
      /\ \/ /\ pc' = "parse" /\ parsed' = parsed + 1
            /\ sendPool' = (sendPool \ {TakeBuffer(sendPool)}) \cup Done(c)
         \/ /\ pc' = "stopped" /\ parsed' = parsed
            /\ sendPool' = sendPool \cup {TakeBuffer(sendPool)} \cup Done(c)
      /\ UNCHANGED <<cqe, list, tcpPool, sendFailed>>

\* dispatch_packet fails with ERROR_PROTOCOL.
PacketRefused(p) ==
  LET c == Subject
  IN  /\ pc = "parse" /\ parsed < MaxPackets /\ pc' = "disconnect"
      /\ DispatchError(client[c].phase, p) = "PROTOCOL"
      /\ client' = [client EXCEPT ![c].partial = None]
      /\ sendPool' = sendPool \cup Done(c)
      /\ UNCHANGED <<cqe, parsed, requests, ring, list, mapped, tcpPool, history>>

\* The data ends in the middle of a packet: the slow path maps a buffer for it
\* (nothing is ever returned to m_protocol_recv_buffers, so there is no other
\* to take), or has it already. Its CHECK of the length cannot fail here: a
\* length is one byte, below 128, and max_recv_packet_size is 65536 (Receiver
\* has a step for a smaller one).
PacketBegins ==
  LET c == Subject
  IN  /\ pc = "parse" /\ pc' = "rearm"
      /\ IF client[c].partial = None
         THEN /\ MapPacketBuffer({})
              /\ client' = [client EXCEPT ![c].partial = TakeBuffer({})]
         ELSE UNCHANGED <<mapped, client>>
      /\ UNCHANGED <<cqe, parsed, requests, ring, list, tcpPool, sendPool, history>>

\* The data ends with a packet.
DataEnds ==
  /\ pc = "parse" /\ pc' = "rearm"
  /\ parsed > 0
  /\ UNCHANGED <<cqe, parsed, requests, ring, client, list, buffers, history>>

\* Mutant: the recv is not queued again.
RearmNone ==
  /\ pc = "rearm" /\ pc' = "recycle"
  /\ UNCHANGED <<cqe, parsed, requests, ring, client, list, buffers, history>>

\* add_recv(client), whose error nobody looks at.
Rearm ==
  /\ pc = "rearm" /\ pc' = "recycle"
  /\ Queue(RecvOf(Subject)) \/ QueueFull
  /\ UNCHANGED <<cqe, parsed, client, list, buffers, sendFailed>>

Consume == \E p \in Packets : \/ PacketQuiet(p) \/ PacketAnswered(p)
                              \/ PacketUnanswered(p) \/ PacketRefused(p)
Completion == \E r \in inflight, res \in {"ok", "gone"} : NextCqe(r, res)

ServerNext ==
  \/ Start \/ Submit \/ LoopEnds \/ Recycle
  \/ AcceptFailed \/ Accepted \/ ArmNew \/ ArmAccept
  \/ TouchFreed \/ PeerGone \/ Disconnect \/ SendDone \/ GotData
  \/ Consume \/ PacketBegins \/ DataEnds \/ Rearm

Next == Completion \/ ServerNext

Spec == Init /\ [][Next]_vars

\* The loop keeps running; whether and when anything completes is up to the
\* peers, so the waiting may last for ever.
FairSpec == Spec /\ WF_vars(ServerNext)
-----------------------------------------------------------------------------
\* Between two completions, where the bookkeeping must be whole.
Settled == pc \in {"submit", "wait", "loop"}

Fields(type, c) == {r \in Pending : req[r].type = type /\ req[r].client = c}

\* A request_t is in one place at a time: in the pool, or prepared, or with the
\* kernel, or completed, so no completion finds a request that was set up again
\* for something else and none enters the pool twice.
RequestExclusive ==
  /\ pool \cap Pending = {}
  /\ sq \cap inflight = {}
  /\ cqe.req \notin sq \cup inflight

\* The buffers of replies, of packets that come in pieces and of the recvs of
\* clients: none is free, none serves two of these at once, and so none is given
\* back twice, although a packet's buffer goes to the pool of the replies.
BufferExclusive ==
  LET done == IF pc = "recycle" THEN {cqe.req} ELSE {}
      sending == {r \in Pending \ done : req[r].type = "send"}
      partials == {c \in Live : client[c].partial # None}
      free == sendPool \cup tcpPool
  IN  /\ sendPool \cap tcpPool = {}
      /\ \A r \in sending : req[r].buf \notin free
      /\ \A c \in partials : client[c].partial \notin free
      /\ \A c \in Live : client[c].buf \notin free
      /\ \A r \in sending, c \in partials : req[r].buf # client[c].partial
      /\ \A r \in sending, c \in Live : req[r].buf # client[c].buf
      /\ \A c \in Live, d \in partials : client[c].buf # client[d].partial
      /\ \A r, s \in sending : r # s => req[r].buf # req[s].buf
      /\ \A c, d \in Live : c # d => client[c].buf # client[d].buf
      /\ \A c, d \in partials : c # d => client[c].partial # client[d].partial

\* A connected client never has two recvs under way, which would fill its one
\* buffer at the same time, and as long as the submission queue never lacked room
\* it always has one.
OneRecvPerClient ==
  Settled => \A c \in Live :
    /\ Cardinality(Fields("recv", c)) <= 1
    /\ ~overflowed => Fields("recv", c) # {}

\* As long as the submission queue never lacked room there is one accept under
\* way while the server runs.
AlwaysAccepting ==
  Settled /\ ~overflowed => Cardinality({r \in Pending : req[r].type = "accept"}) = 1

\* Every request and every buffer has one owner at a time.
Ownership == TypeOK /\ RequestExclusive /\ BufferExclusive

\* The assertion of dispatch_packet, "Got to invalid state": a client never gets
\* into a phase the dispatch has no packets for, so it never fails fatally (and
\* there is no action for that).
StateIsHandled ==
  \A c \in Live, p \in Packets : DispatchError(client[c].phase, p) # "CHECK_FAILED"

\* server.c:310, an error of one client is "not really important": whatever the
\* clients send or however they leave, only a failed accept stops the server,
\* unless the submission queue had no room for what they caused.
ClientsCannotStop ==
  /\ StateIsHandled
  /\ pc = "stopped" /\ ~overflowed => req[cqe.req].type = "accept" /\ cqe.res = "gone"

\* No pointer of the list leads from a node in use to a client that was freed.
ListNeverDangles ==
  \A n \in Live \cup {None} :
    list.next[n] \in Live \cup {None} /\ list.prev[n] \in Live \cup {None}

\* The kernel receives into a buffer of the pool, which is another client's buffer
\* soon, only when a client was dropped for a failed send: dropping one for what
\* it sent, or for its end, finds its only recv completed.
QuietUnlessSendFailed ==
  ~sendFailed => \A r \in sq \cup inflight : req[r].type = "recv" => req[r].buf \notin tcpPool

\* Buffers that were mapped and are in no pool, client or reply.
Lost ==
  (1 .. mapped) \ (sendPool \cup tcpPool
    \cup {client[c].buf : c \in Live} \cup {client[c].partial : c \in Live}
    \cup {req[r].buf : r \in Pending})

\* Buffers are lost, for good, in three places only, and one at a time: with a
\* client that leaves in the middle of a packet, with a reply that could not
\* be sent, and with one for which the submission queue had no room.
BuffersLost ==
  [][/\ Lost \subseteq Lost'
     /\ \A b \in Lost' \ Lost :
          \/ pc = "disconnect" /\ b = client[Subject].partial
          \/ pc = "recycle" /\ req[cqe.req].type = "send" /\ cqe.res = "gone"
                /\ b = req[cqe.req].buf
          \/ pc = "parse" /\ b = TakeBuffer(sendPool) /\ Cardinality(sq) = SqEntries]_vars

\* A recv that completed is followed up: the client listens again or is gone,
\* unless the submission queue had no room.
DataIsConsumed ==
  \A c \in Client :
    pc = "handle" /\ req[cqe.req].type = "recv" /\ req[cqe.req].client = c
      ~> \/ \E r \in inflight : req[r].type = "recv" /\ req[r].client = c
         \/ client[c].life = "freed"
         \/ pc \in {"stopped", "fault"}
         \/ overflowed

-----------------------------------------------------------------------------
(* What the comments say and the code does not do.                         *)

\* server.c:203, "we can safely free the client now": no completion that is
\* still to come looks at it.
FreeIsSafe == pc # "fault"

\* server.c:75-77, m_clients are "The network clients".
ListHasClients == Settled => L!Members(list) = Live
=============================================================================
