---------------------------- MODULE ServerProofs ----------------------------
(***************************************************************************)
(* What src/net/server.c guarantees for any number of clients, requests,   *)
(* buffers and entries of the submission queue.                            *)
(***************************************************************************)
EXTENDS Server, FiniteSetTheorems, TLAPS

\* A completion is being handled.
Busy == pc \in {"handle", "arm_new", "arm_accept", "parse", "rearm", "disconnect", "recycle"}

\* The requests whose content still counts: all but the one to be recycled.
Working == Pending \ (IF pc = "recycle" THEN {cqe.req} ELSE {})

\* Every request is in one place, and was allocated.
PlaceInv ==
  /\ RequestExclusive
  /\ pool \cup Pending \subseteq 1 .. nreq
  /\ pc \in {"start", "submit", "wait", "loop"} => cqe = NoCqe
  /\ Busy => cqe.req # None /\ cqe.res # "none"
  /\ pc = "start" => Pending = {}

\* What the step at hand knows of the completion it handles.
SubjectInv ==
  /\ pc \in {"arm_new", "arm_accept"} => req[cqe.req].type = "accept"
  /\ pc \in {"parse", "rearm"} => req[cqe.req].type = "recv"
  /\ pc = "disconnect" => req[cqe.req].type \in {"recv", "send"}
  /\ pc \in {"arm_new", "parse", "rearm", "disconnect"} => Subject \in Live
  /\ pc = "arm_new" => \A r \in Pending : req[r].type = "recv" => req[r].client # Subject
  /\ pc = "disconnect" /\ req[cqe.req].type = "send" => sendFailed /\ cqe.res = "gone"

\* A request under way says what for; its client was accepted.
ContentInv ==
  \A r \in Pending :
    /\ req[r].type # "none"
    /\ req[r].type = "accept" => req[r].buf = None
    /\ req[r].type \in {"recv", "send"} =>
         req[r].client # None /\ client[req[r].client].life # "unused"

\* A recv fills the buffer of its client, and there is one of each. As long as no
\* send failed its client is there.
RecvInv ==
  /\ \A r \in Working : req[r].type = "recv" =>
       /\ client[req[r].client].life = "live" => req[r].buf = client[req[r].client].buf
       /\ ~sendFailed => client[req[r].client].life = "live"
  /\ \A r, s \in Working :
       req[r].type = "recv" /\ req[s].type = "recv" /\ req[r].client = req[s].client => r = s

\* Every client listens, or will before the next completion.
ListenInv ==
  ~overflowed =>
    \A c \in Live : \/ pc = "arm_new" /\ c = Subject
                    \/ \E r \in Working : req[r].type = "recv" /\ req[r].client = c

\* One accept is under way, or will be.
AcceptInv ==
  /\ \A r, s \in Working : req[r].type = "accept" /\ req[s].type = "accept" => r = s
  /\ ~overflowed /\ pc # "start" => \E r \in Working : req[r].type = "accept"

Used == {c \in Client : client[c].life # "unused"}

\* Every buffer anywhere was mapped, and the bound leaves one to map for each
\* client that is still to be accepted.
MapInv ==
  /\ mapped <= MaxBuffers + Cardinality(Used)
  /\ tcpPool \cup sendPool \subseteq 1 .. mapped
  /\ \A c \in Live : client[c].buf \in 1 .. mapped /\ client[c].partial \in 0 .. mapped
  /\ \A r \in Pending : req[r].type \in {"recv", "send"} => req[r].buf \in 1 .. mapped
  /\ \A c \in Client \ Live : client[c].partial = None

Sending == {r \in Working : req[r].type = "send"}
Piecing == {c \in Live : client[c].partial # None}

\* No buffer has two uses.
BufferInv == BufferExclusive

PhaseInv == \A c \in Client : client[c].phase \in {HANDSHAKING, STATUS, LOGIN}

\* Nodes in use point at the head, and the head at one of them or at itself.
ListInv ==
  /\ list.next \in [Client \cup {None} -> Client \cup {None, MaxClients + 1}]
  /\ list.prev \in [Client \cup {None} -> Client \cup {None, MaxClients + 1}]
  /\ \A c \in Live : list.next[c] = None /\ list.prev[c] = None
  /\ list.next[None] \in Live \cup {None} /\ list.prev[None] \in Live \cup {None}

\* What may be forgotten with the request that is recycled.
RecycleInv ==
  pc = "recycle" =>
    \/ req[cqe.req].type = "accept"
    \/ req[cqe.req].type = "recv"
         /\ req[cqe.req].buf \in tcpPool \cup {client[c].buf : c \in Live}
    \/ req[cqe.req].type = "send" /\ (cqe.res = "gone" \/ req[cqe.req].buf \in sendPool)

\* What stops the server.
StopInv ==
  pc = "stopped" /\ ~overflowed => req[cqe.req].type = "accept" /\ cqe.res = "gone"

IInv == /\ TypeOK /\ PlaceInv /\ SubjectInv /\ ContentInv /\ RecvInv /\ ListenInv /\ AcceptInv
        /\ MapInv /\ BufferInv /\ PhaseInv /\ ListInv /\ RecycleInv /\ StopInv

-----------------------------------------------------------------------------
\* A set of naturals has a least element.
LEMMA MinIsElement ==
  ASSUME NEW S \in SUBSET Nat, S # {}
  PROVE  Min(S) \in S
<1>1. PICK x \in S : \A y \in S : ~ (<<y, x>> \in OpToRel(<, Nat))
  BY NatLessThanWellFounded, WFMin
<1>a. \A y \in S : ~ (y < x)
  BY <1>1, Zenon DEF OpToRel
<1>2. \A y \in S : x <= y
  BY <1>a
<1>3. \E z \in S : \A y \in S : z =< y
  BY <1>2
<1> QED BY <1>3 DEF Min

\* A new request for content is prepared: it was nowhere before.
Adds(n, content) ==
  /\ n \in Request /\ n \notin Pending \cup pool' /\ n \in 1 .. nreq'
  /\ pool' \subseteq pool /\ nreq' \in nreq .. MaxRequests
  /\ sq' = sq \cup {n} /\ UNCHANGED <<inflight, cqe, overflowed>>
  /\ Cardinality(sq') <= SqEntries
  /\ Pending' = Pending \cup {n}
  /\ req' = [req EXCEPT ![n] = content]
  /\ req'[n] = content /\ \A r \in Pending : req'[r] = req[r]

\* A new request is lost: whatever is under way is as before.
Drops ==
  /\ pool' \subseteq pool /\ nreq' \in nreq .. MaxRequests
  /\ UNCHANGED <<req, sq, inflight, cqe>> /\ Pending' = Pending
  /\ overflowed' = TRUE /\ Cardinality(sq) = SqEntries

LEMMA FreshRequest ==
  ASSUME TypeOK, PlaceInv, GetRequest
  PROVE  /\ NewRequest \in Request /\ NewRequest \notin Pending \cup pool'
         /\ NewRequest \in 1 .. nreq'
         /\ pool' \subseteq pool /\ nreq' \in nreq .. MaxRequests
<1>0. nreq \in Nat /\ nreq <= MaxRequests /\ MaxRequests \in Nat
  BY ServerAssumption DEF TypeOK
<1>1. CASE pool = {}
  <2>1. NewRequest = nreq + 1 /\ nreq' = nreq + 1 /\ nreq < MaxRequests /\ pool' = {}
    BY <1>1 DEF GetRequest, NewRequest, Take
  <2>2. nreq + 1 \notin Pending
    BY <1>0 DEF PlaceInv
  <2> QED BY <1>0, <2>1, <2>2 DEF Request
<1>2. CASE pool # {}
  <2>1. pool \in SUBSET Nat
    BY <1>0 DEF PlaceInv
  <2>2. NewRequest \in pool /\ nreq' = nreq /\ pool' = pool \ {NewRequest}
    BY <1>2, <2>1, MinIsElement DEF GetRequest, NewRequest, Take
  <2>3. NewRequest \notin Pending
    BY <2>2 DEF PlaceInv, RequestExclusive
  <2> QED BY <1>0, <2>2, <2>3 DEF PlaceInv, TypeOK
<1> QED BY <1>1, <1>2

LEMMA QueueAdds ==
  ASSUME TypeOK, PlaceInv, NEW content, Queue(content), cqe' = cqe
  PROVE  \E n \in Request : Adds(n, content)
<1> DEFINE n == NewRequest
<1>1. /\ n \in Request /\ n \notin Pending \cup pool' /\ n \in 1 .. nreq'
      /\ pool' \subseteq pool /\ nreq' \in nreq .. MaxRequests
  BY FreshRequest DEF Queue
<1>2. /\ sq' = sq \cup {n} /\ UNCHANGED <<inflight, cqe, overflowed>>
      /\ req' = [req EXCEPT ![n] = content]
  BY DEF Queue
<1> HIDE DEF n
<1>3. Pending' = Pending \cup {n}
  BY <1>2 DEF Pending
<1>4. req'[n] = content /\ \A r \in Pending : req'[r] = req[r]
  BY <1>1, <1>2 DEF TypeOK
<1>5. Cardinality(sq') <= SqEntries
  <2>1. IsFiniteSet(sq) /\ Cardinality(sq) \in Nat
    <3>1. sq \subseteq 1 .. MaxRequests
      BY DEF TypeOK, Request
    <3>2. IsFiniteSet(1 .. MaxRequests)
      BY ServerAssumption, FS_Interval
    <3> QED BY <3>1, <3>2, FS_Subset, FS_CardinalityType
  <2>2. Cardinality(sq) < SqEntries
    BY DEF Queue
  <2>3. Cardinality(sq \cup {n}) <= Cardinality(sq) + 1
    BY <2>1, FS_AddElement
  <2>4. Cardinality(sq \cup {n}) \in Nat
    BY <2>1, FS_AddElement, FS_CardinalityType
  <2> QED BY <1>2, <2>1, <2>2, <2>3, <2>4, ServerAssumption
<1> QED BY <1>1, <1>2, <1>3, <1>4, <1>5 DEF Adds

LEMMA FullDrops ==
  ASSUME TypeOK, PlaceInv, QueueFull, cqe' = cqe
  PROVE  Drops
<1>1. pool' \subseteq pool /\ nreq' \in nreq .. MaxRequests
  BY FreshRequest DEF QueueFull
<1>2. UNCHANGED <<req, sq, inflight>> /\ overflowed' = TRUE /\ Cardinality(sq) = SqEntries
  BY DEF QueueFull, ring
<1> QED BY <1>1, <1>2 DEF Drops, Pending

-----------------------------------------------------------------------------
(* Requests are in one place.                                              *)

\* The steps that neither move a request nor change the completion at hand.
StaysPut ==
  /\ UNCHANGED <<pool, nreq, sq, inflight, cqe>> /\ Pending' = Pending
  /\ pc # "start" /\ pc' \notin {"start", "submit", "wait", "loop"}
  /\ Busy \/ ~Busy'

LEMMA AddedPlace ==
  ASSUME TypeOK, PlaceInv, NEW n, NEW content, Adds(n, content)
  PROVE  pool' \cap Pending' = {} /\ pool' \cup Pending' \subseteq 1 .. nreq'
<1>1. 1 .. nreq \subseteq 1 .. nreq'
  BY ServerAssumption DEF Adds, TypeOK
<1>2. n \in 1 .. nreq' /\ n \notin pool' /\ pool' \subseteq pool /\ Pending' = Pending \cup {n}
  BY DEF Adds
<1> QED BY <1>1, <1>2 DEF PlaceInv, RequestExclusive

LEMMA PlaceKept ==
  ASSUME TypeOK, PlaceInv, [Next]_vars
  PROVE  PlaceInv'
<1> USE DEF PlaceInv, RequestExclusive
<1>0. None \notin Request /\ NoCqe.req = None
  BY DEF None, Request, NoCqe
<1>1. ASSUME NEW content, Queue(content), cqe' = cqe, pc' \notin {"start", "submit", "wait", "loop"}, Busy
      PROVE  PlaceInv'
  <2>1. PICK n \in Request : Adds(n, content)
    BY <1>1, QueueAdds
  <2>2. pool' \cap Pending' = {} /\ pool' \cup Pending' \subseteq 1 .. nreq'
    BY <2>1, AddedPlace
  <2>3. sq' \cap inflight' = {} /\ cqe'.req \notin sq' \cup inflight'
    BY <2>1, <1>0 DEF Adds, Pending, TypeOK
  <2> QED BY <1>1, <2>2, <2>3 DEF Busy
<1>2. ASSUME QueueFull, cqe' = cqe, pc' \notin {"start", "submit", "wait", "loop"}, Busy
      PROVE  PlaceInv'
  <2>1. Drops
    BY <1>2, FullDrops
  <2>2. pool' \cap Pending' = {} /\ pool' \cup Pending' \subseteq 1 .. nreq'
    <3>1. 1 .. nreq \subseteq 1 .. nreq'
      BY <2>1, ServerAssumption DEF Drops, TypeOK
    <3> QED BY <2>1, <3>1 DEF Drops
  <2> QED BY <1>2, <2>1, <2>2 DEF Busy, Drops
<1>3. ASSUME StaysPut
      PROVE  PlaceInv'
  BY <1>3 DEF StaysPut, Busy
<1>4. CASE Start
  <2>1. Queue([type |-> "accept", client |-> None, buf |-> None]) /\ cqe' = cqe /\ pc' = "submit"
    BY <1>4 DEF Start
  <2>2. PICK n \in Request : Adds(n, [type |-> "accept", client |-> None, buf |-> None])
    BY <2>1, QueueAdds
  <2>3. cqe = NoCqe
    BY <1>4 DEF Start
  <2>4. pool' \cap Pending' = {} /\ pool' \cup Pending' \subseteq 1 .. nreq'
    BY <2>2, AddedPlace
  <2>5. sq' \cap inflight' = {} /\ cqe'.req \notin sq' \cup inflight'
    BY <2>2, <1>0 DEF Adds, Pending, TypeOK
  <2> QED BY <2>1, <2>3, <2>4, <2>5 DEF Busy
<1>5. CASE Submit
  <2> USE <1>5 DEF Submit, requests, Pending
  <2>1. Pending' = Pending
    OBVIOUS
  <2> QED BY <2>1 DEF Busy
<1>6. CASE Completion
  <2>1. PICK r \in inflight, res \in {"ok", "gone"} : NextCqe(r, res)
    BY <1>6 DEF Completion
  <2> USE <2>1 DEF NextCqe, requests
  <2>2. cqe = NoCqe /\ cqe' = [req |-> r, res |-> res] /\ r \in Request
    BY DEF TypeOK
  <2>3. Pending' = Pending
    BY <2>2, <1>0 DEF Pending
  <2> QED BY <2>2, <2>3, <1>0 DEF Busy, Settled
<1>7. CASE LoopEnds
  BY <1>7 DEF LoopEnds, requests, ring, Pending, Busy
<1>8. CASE Recycle
  <2> USE <1>8 DEF Recycle, ring
  <2>1. cqe.req \in Request /\ cqe.req \notin sq \cup inflight
    BY DEF Busy, TypeOK
  <2>2. Pending' = Pending \ {cqe.req} /\ cqe.req \in Pending
    BY <2>1, <1>0 DEF Pending
  <2>3. sq' = sq /\ inflight' = inflight /\ nreq' = nreq /\ cqe' = NoCqe /\ pc' = "loop"
    OBVIOUS
  <2>4. pool' \cap Pending' = {} /\ pool' \cup Pending' \subseteq 1 .. nreq'
    <3>1. pool' = pool \cup {cqe.req}
      OBVIOUS
    <3>2. pool \cap Pending = {} /\ pool \cup Pending \subseteq 1 .. nreq
      BY ONLY PlaceInv DEF PlaceInv, RequestExclusive
    <3> QED BY ONLY <2>2, <2>3, <3>1, <3>2
  <2>5. cqe'.req \notin sq' \cup inflight'
    BY <1>0, <2>3 DEF TypeOK
  <2>6. sq' \cap inflight' = {}
    BY <2>3
  <2> QED BY <1>0, <2>3, <2>4, <2>5, <2>6 DEF Busy
<1>9. CASE ArmNew
  BY <1>9, <1>1, <1>2, <1>3 DEF ArmNew, Busy
<1>10. CASE ArmAccept
  BY <1>10, <1>1, <1>2, <1>3 DEF ArmAccept, Busy
<1>11. CASE Rearm
  BY <1>11, <1>1, <1>2 DEF Rearm, Busy
<1>12. CASE Consume
  <2>1. PICK p \in Packets : PacketQuiet(p) \/ PacketAnswered(p) \/ PacketUnanswered(p) \/ PacketRefused(p)
    BY <1>12 DEF Consume
  <2>2. CASE PacketQuiet(p) \/ PacketRefused(p)
    BY <2>2, <1>3 DEF PacketQuiet, PacketRefused, StaysPut, requests, ring, Pending, Busy
  <2>3. CASE PacketAnswered(p)
    BY <2>3, <1>1 DEF PacketAnswered, Busy
  <2>4. CASE PacketUnanswered(p)
    BY <2>4, <1>2 DEF PacketUnanswered, Busy
  <2> QED BY <2>1, <2>2, <2>3, <2>4
<1>13. CASE \/ AcceptFailed \/ Accepted \/ TouchFreed \/ PeerGone \/ Disconnect
            \/ SendDone \/ GotData \/ PacketBegins \/ DataEnds
  BY <1>13, <1>3 DEF AcceptFailed, Accepted, TouchFreed, PeerGone, Disconnect, SendDone,
       GotData, PacketBegins, DataEnds, Handling, StaysPut, requests, ring, Pending, Busy
<1>14. CASE UNCHANGED vars
  BY <1>14 DEF vars, requests, ring, Pending, Busy
<1> QED BY <1>4, <1>5, <1>6, <1>7, <1>8, <1>9, <1>10, <1>11, <1>12, <1>13, <1>14
        DEF Next, ServerNext
-----------------------------------------------------------------------------
(* Types.                                                                  *)

\* What taking a buffer from p gives: one of p, or a new one.
LEMMA TakenBuffer ==
  ASSUME TypeOK, NEW p \in SUBSET (1 .. mapped), MapBuffer(p)
  PROVE  /\ TakeBuffer(p) \in 1 .. mapped' /\ mapped' \in Nat /\ mapped <= mapped'
         /\ p # {} => TakeBuffer(p) \in p /\ mapped' = mapped
         /\ p = {} => TakeBuffer(p) = mapped + 1 /\ mapped' = mapped + 1
<1>0. mapped \in Nat
  BY ServerAssumption DEF TypeOK
<1>1. CASE p = {}
  BY <1>0, <1>1 DEF MapBuffer, TakeBuffer, Take
<1>2. CASE p # {}
  <2>1. Min(p) \in p
    <3>1. p \in SUBSET Nat
      BY <1>0
    <3> QED BY <1>2, <3>1, MinIsElement
  <2>2. TakeBuffer(p) = Min(p) /\ mapped' = mapped
    BY <1>2 DEF MapBuffer, TakeBuffer, Take
  <2>3. TakeBuffer(p) \in 1 .. mapped
    BY <2>1, <2>2
  <2> QED BY <1>0, <1>2, <2>1, <2>2, <2>3
<1> QED BY <1>1, <1>2

\* While a client is unused there is room for its buffer.
LEMMA RoomForClient ==
  ASSUME TypeOK, MapInv, NEW c \in Client, client[c].life = "unused"
  PROVE  /\ Cardinality(Used) < MaxClients
         /\ IsFiniteSet(Used) /\ Cardinality(Used) \in Nat
         /\ Cardinality(Used \cup {c}) = Cardinality(Used) + 1
<1>1. IsFiniteSet(Client) /\ Cardinality(Client) = MaxClients
  <2>1. IsFiniteSet(1 .. MaxClients) /\ Cardinality(1 .. MaxClients) =
            IF 1 > MaxClients THEN 0 ELSE MaxClients - 1 + 1
    BY ServerAssumption, FS_Interval
  <2> QED BY <2>1, ServerAssumption DEF Client
<1>2. Used \subseteq Client /\ c \notin Used
  BY DEF Used
<1>3. IsFiniteSet(Used) /\ Cardinality(Used) \in Nat
  BY <1>1, <1>2, FS_Subset, FS_CardinalityType
<1>4. Cardinality(Used \cup {c}) = Cardinality(Used) + 1
  BY <1>2, <1>3, FS_AddElement
<1>5. Cardinality(Used \cup {c}) <= MaxClients
  BY <1>1, <1>2, FS_Subset
<1> QED BY <1>3, <1>4, <1>5, ServerAssumption

RequestType == [type : {"none", "accept", "recv", "send"},
                client : Client \cup {None}, buf : Buffer \cup {None}]
ClientType == [life : {"unused", "live", "freed"}, phase : Phase,
               partial : Buffer \cup {None}, buf : Buffer \cup {None}]

\* The part of TypeOK about requests, and the rest.
RingOK ==
  /\ pool \subseteq Request
  /\ nreq \in 0 .. MaxRequests
  /\ req \in [Request -> RequestType]
  /\ sq \subseteq Request /\ Cardinality(sq) <= SqEntries
  /\ inflight \subseteq Request
  /\ overflowed \in BOOLEAN

LEMMA RingKept ==
  ASSUME TypeOK, PlaceInv, cqe' = cqe,
         \/ \E content \in RequestType : Queue(content)
         \/ QueueFull
         \/ UNCHANGED <<requests, ring, overflowed>>
  PROVE  RingOK'
<1>0. RingOK /\ nreq \in Nat /\ MaxRequests \in Nat
  BY ServerAssumption DEF TypeOK, RingOK, RequestType
<1>1. CASE \E content \in RequestType : Queue(content)
  <2>1. PICK content \in RequestType : Queue(content)
    BY <1>1
  <2>2. PICK n \in Request : Adds(n, content)
    BY <2>1, QueueAdds
  <2> QED BY <1>0, <2>2 DEF Adds, RingOK
<1>2. CASE QueueFull
  <2>1. Drops
    BY <1>2, FullDrops
  <2> QED BY <1>0, <2>1 DEF Drops, RingOK
<1>3. CASE UNCHANGED <<requests, ring, overflowed>>
  BY <1>0, <1>3 DEF RingOK, requests, ring
<1> QED BY <1>1, <1>2, <1>3

RestOK ==
  /\ pc \in {"start", "submit", "wait", "loop", "handle", "arm_new", "arm_accept",
             "parse", "rearm", "disconnect", "recycle", "stopped", "fault"}
  /\ cqe \in [req : Request \cup {None}, res : {"none", "ok", "gone"}]
  /\ parsed \in 0 .. MaxPackets
  /\ client \in [Client -> ClientType]
  /\ sendFailed \in BOOLEAN

BuffersOK ==
  /\ mapped \in 0 .. MaxBuffers + MaxClients
  /\ tcpPool \subseteq Buffer /\ sendPool \subseteq Buffer

LEMMA TypeSplits ==
  TypeOK <=> RingOK /\ RestOK /\ BuffersOK
BY DEF TypeOK, RingOK, RestOK, BuffersOK, RequestType, ClientType

-----------------------------------------------------------------------------
(* What the steps do to clients.                                           *)

LEMMA ClientFields ==
  ASSUME TypeOK
  PROVE  /\ client \in [Client -> ClientType]
         /\ Live \subseteq Client /\ Used \subseteq Client /\ Live \subseteq Used
         /\ \A c \in Client : c # None
BY DEF TypeOK, ClientType, Live, Used, Client, None

\* The client c has got phase ph and a half received packet in b, or none.
Patched(c, ph, b) ==
  /\ client' \in [Client -> ClientType]
  /\ \A d \in Client : /\ client'[d].life = client[d].life
                       /\ client'[d].buf = client[d].buf
                       /\ d # c => client'[d] = client[d]
  /\ client'[c].phase = ph /\ client'[c].partial = b
  /\ Live' = Live /\ Used' = Used

LEMMA PatchesClient ==
  ASSUME TypeOK, NEW c \in Client, NEW b \in Buffer \cup {None}, NEW ph \in Phase,
         \/ client' = [client EXCEPT ![c].phase = ph, ![c].partial = b]
         \/ ph = client[c].phase /\ client' = [client EXCEPT ![c].partial = b]
  PROVE  Patched(c, ph, b)
<1>1. client \in [Client -> ClientType]
  BY ClientFields
<1>2. client'[c] = [client[c] EXCEPT !.phase = ph, !.partial = b]
  BY <1>1 DEF ClientType
<1>3. \A d \in Client : d # c => client'[d] = client[d]
  BY <1>1
<1>4. client'[c] \in ClientType
  BY <1>1, <1>2 DEF ClientType
<1>5. client' \in [Client -> ClientType]
  BY <1>1, <1>3, <1>4
<1>6. \A d \in Client : client'[d].life = client[d].life /\ client'[d].buf = client[d].buf
  BY <1>1, <1>2, <1>3 DEF ClientType
<1>7. client'[c].phase = ph /\ client'[c].partial = b
  BY <1>1, <1>2 DEF ClientType
<1>8. Live' = Live /\ Used' = Used
  BY <1>6 DEF Live, Used
<1> QED BY <1>3, <1>5, <1>6, <1>7, <1>8 DEF Patched

\* The client c is now new.
Joined(c, b) ==
  /\ client' \in [Client -> ClientType]
  /\ \A d \in Client : d # c => client'[d] = client[d]
  /\ client'[c].life = "live" /\ client'[c].buf = b
  /\ client'[c].phase = client[c].phase /\ client'[c].partial = client[c].partial
  /\ c \notin Live /\ Live' = Live \cup {c} /\ Used' = Used \cup {c}

LEMMA ClientJoins ==
  ASSUME TypeOK, NEW c \in Client, NEW b \in Buffer, client[c].life = "unused",
         client' = [client EXCEPT ![c].life = "live", ![c].buf = b]
  PROVE  Joined(c, b)
<1>1. client \in [Client -> ClientType]
  BY ClientFields
<1>2. client'[c] = [client[c] EXCEPT !.life = "live", !.buf = b]
  BY <1>1 DEF ClientType
<1>3. \A d \in Client : d # c => client'[d] = client[d]
  BY <1>1
<1>4. client'[c] \in ClientType
  BY <1>1, <1>2 DEF ClientType
<1>5. client' \in [Client -> ClientType]
  BY <1>1, <1>3, <1>4
<1>6. /\ client'[c].life = "live" /\ client'[c].buf = b
      /\ client'[c].phase = client[c].phase /\ client'[c].partial = client[c].partial
  BY <1>1, <1>2 DEF ClientType
<1>7. c \notin Live /\ Live' = Live \cup {c} /\ Used' = Used \cup {c}
  BY <1>3, <1>6 DEF Live, Used
<1> QED BY <1>3, <1>5, <1>6, <1>7 DEF Joined

\* The client c was dropped.
Left(c) ==
  /\ client' \in [Client -> ClientType]
  /\ \A d \in Client : d # c => client'[d] = client[d]
  /\ client'[c].life = "freed" /\ client'[c].partial = None
  /\ client'[c].phase = HANDSHAKING
  /\ Live' = Live \ {c} /\ Used' = Used

LEMMA ClientLeaves ==
  ASSUME TypeOK, NEW c \in Live, client' = [client EXCEPT ![c] = [Unborn EXCEPT !.life = "freed"]]
  PROVE  Left(c)
<1>1. client \in [Client -> ClientType] /\ c \in Client
  BY ClientFields
<1>2. client'[c] = [life |-> "freed", phase |-> HANDSHAKING, partial |-> None, buf |-> None]
  BY <1>1 DEF Unborn
<1>3. \A d \in Client : d # c => client'[d] = client[d]
  BY <1>1
<1>4. client' \in [Client -> ClientType]
  BY <1>1, <1>2, <1>3 DEF ClientType, Phase
<1>5. Live' = Live \ {c} /\ Used' = Used
  BY <1>1, <1>2, <1>3 DEF Live, Used
<1> QED BY <1>2, <1>3, <1>4, <1>5 DEF Left

\* The buffer b came from the pool p or is new.
Fresh(b, p) ==
  /\ b \in 1 .. mapped' /\ mapped' \in Nat /\ mapped <= mapped'
  /\ \/ b \in p /\ mapped' = mapped
     \/ p = {} /\ b = mapped + 1 /\ mapped' = mapped + 1

LEMMA TakesFresh ==
  ASSUME TypeOK, MapInv, NEW p, p \in {tcpPool, sendPool, {}}, MapBuffer(p)
  PROVE  Fresh(TakeBuffer(p), p)
<1>1. p \in SUBSET (1 .. mapped)
  BY DEF MapInv
<1> QED BY <1>1, TakenBuffer DEF Fresh

LEMMA PacketBufferFits ==
  ASSUME TypeOK, MapInv, NEW p, p \in {tcpPool, sendPool, {}}, MapPacketBuffer(p)
  PROVE  /\ Fresh(TakeBuffer(p), p) /\ TakeBuffer(p) \in Buffer
         /\ mapped' <= MaxBuffers + Cardinality(Used)
<1>1. Fresh(TakeBuffer(p), p)
  BY TakesFresh DEF MapPacketBuffer
<1>2. mapped \in Nat /\ mapped <= MaxBuffers + MaxClients /\ (p = {} => mapped < MaxBuffers)
  BY ServerAssumption DEF TypeOK, MapPacketBuffer
<1>3. IsFiniteSet(Used) /\ Cardinality(Used) \in Nat
  <2>1. IsFiniteSet(Client)
    BY ServerAssumption, FS_Interval DEF Client
  <2> QED BY <2>1, ClientFields, FS_Subset, FS_CardinalityType
<1>4. mapped \in Nat /\ mapped <= MaxBuffers + Cardinality(Used)
  BY <1>2 DEF MapInv, TypeOK
<1> QED BY <1>1, <1>2, <1>3, <1>4, ServerAssumption DEF Fresh, Buffer, TypeOK

\* The client c was accepted with the buffer b.
AcceptedEffect(c, b) ==
  /\ c \in Client /\ client[c].life = "unused" /\ Joined(c, b)
  /\ b \in Buffer /\ Fresh(b, tcpPool) /\ tcpPool' = tcpPool \ {b} /\ sendPool' = sendPool
  /\ mapped' <= MaxBuffers + Cardinality(Used')
  /\ cqe.req \in Request /\ cqe.req \in Pending
  /\ req[cqe.req].type = "accept"
  /\ req' \in [Request -> RequestType]
  /\ \A r \in Request : /\ r # cqe.req => req'[r] = req[r]
                        /\ req'[r].type = req[r].type /\ req'[r].buf = req[r].buf
  /\ req'[cqe.req].client = c
  /\ pc = "handle" /\ pc' = "arm_new" /\ list' = L!AddTail(list, c)
  /\ UNCHANGED <<cqe, parsed, pool, nreq, sq, inflight, overflowed, sendFailed>>
  /\ Pending' = Pending

LEMMA AcceptedDoes ==
  ASSUME TypeOK, PlaceInv, MapInv, Accepted
  PROVE  \E c \in Client, b \in Buffer : AcceptedEffect(c, b)
<1> DEFINE b == TakeBuffer(tcpPool)
<1>1. PICK c \in Client :
        /\ client[c].life = "unused"
        /\ client' = [client EXCEPT ![c].life = "live", ![c].buf = b]
        /\ list' = L!AddTail(list, c)
        /\ req' = [req EXCEPT ![cqe.req].client = c]
  BY DEF Accepted
<1>2. /\ MapBuffer(tcpPool) /\ tcpPool' = tcpPool \ {b} /\ sendPool' = sendPool
      /\ pc = "handle" /\ pc' = "arm_new" /\ req[cqe.req].type = "accept"
      /\ UNCHANGED <<cqe, parsed, pool, nreq, sq, inflight, overflowed, sendFailed>>
  BY DEF Accepted, ring, history, Handling
<1>3. Fresh(b, tcpPool)
  BY <1>2, TakesFresh
<1> HIDE DEF b
<1>4. Cardinality(Used) < MaxClients /\ Cardinality(Used) \in Nat /\ Cardinality(Used \cup {c}) = Cardinality(Used) + 1
  BY <1>1, RoomForClient
<1>5. mapped \in Nat /\ mapped <= MaxBuffers + Cardinality(Used)
  BY ServerAssumption DEF TypeOK, MapInv
<1>6. b \in Buffer
  BY <1>3, <1>4, <1>5, ServerAssumption DEF Fresh, Buffer
<1>7. Joined(c, b)
  BY <1>1, <1>6, ClientJoins
<1>8. mapped' <= MaxBuffers + Cardinality(Used')
  <2>1. Cardinality(Used') = Cardinality(Used) + 1
    BY <1>4, <1>7 DEF Joined
  <2> QED BY <1>3, <1>4, <1>5, <2>1, ServerAssumption DEF Fresh
<1>9. cqe.req \in Request /\ cqe.req \in Pending
  BY <1>2 DEF PlaceInv, Busy, TypeOK, Pending
<1>10. Pending' = Pending
  BY <1>2 DEF Pending
<1>11. req \in [Request -> RequestType]
  BY DEF TypeOK, RequestType
<1>12. req'[cqe.req] = [req[cqe.req] EXCEPT !.client = c] /\ \A r \in Request : r # cqe.req => req'[r] = req[r]
  BY <1>1, <1>9, <1>11 DEF RequestType
<1>13. req' \in [Request -> RequestType] /\ req'[cqe.req].client = c
       /\ req'[cqe.req].type = req[cqe.req].type /\ req'[cqe.req].buf = req[cqe.req].buf
  BY <1>1, <1>9, <1>11, <1>12 DEF RequestType
<1>14. AcceptedEffect(c, b)
  BY <1>1, <1>2, <1>3, <1>6, <1>7, <1>8, <1>9, <1>10, <1>12, <1>13 DEF AcceptedEffect
<1> QED BY <1>6, <1>14

AnyPacket(p) == PacketQuiet(p) \/ PacketAnswered(p) \/ PacketUnanswered(p) \/ PacketRefused(p)

LEMMA PacketPatches ==
  ASSUME TypeOK, SubjectInv, PhaseInv, NEW p \in Packets, AnyPacket(p)
  PROVE  /\ Subject \in Live
         /\ \E ph \in {HANDSHAKING, STATUS, LOGIN} : Patched(Subject, ph, None)
<1> DEFINE c == Subject
<1>1. pc = "parse"
  BY DEF AnyPacket, PacketQuiet, PacketAnswered, PacketUnanswered, PacketRefused
<1>2. c \in Live
  BY <1>1 DEF SubjectInv
<1>3. c \in Client /\ client[c].phase \in {HANDSHAKING, STATUS, LOGIN}
  BY <1>2, ClientFields DEF PhaseInv
<1> HIDE DEF c
<1>4. CASE PacketQuiet(p)
  <2>1. DispatchError(client[c].phase, p) = "NO_ERROR"
    BY <1>4 DEF PacketQuiet, c
  <2>2. client' = [client EXCEPT ![c].phase = PhaseAfter(client[c].phase, p), ![c].partial = None]
    BY <1>4 DEF PacketQuiet, c
  <2>3. PhaseAfter(client[c].phase, p) \in {HANDSHAKING, STATUS, LOGIN}
    BY <1>3, <2>1 DEF DispatchError, ValidSetProtocol, PhaseAfter, HANDSHAKING, STATUS, LOGIN
  <2>4. Patched(c, PhaseAfter(client[c].phase, p), None)
    BY <1>3, <2>2, <2>3, PatchesClient DEF Phase
  <2> QED BY <1>2, <2>3, <2>4 DEF c
<1>5. CASE PacketAnswered(p) \/ PacketUnanswered(p) \/ PacketRefused(p)
  <2>1. client' = [client EXCEPT ![c].partial = None]
    BY <1>5 DEF PacketAnswered, PacketUnanswered, PacketRefused, c
  <2>2. Patched(c, client[c].phase, None)
    BY <1>3, <2>1, PatchesClient DEF Phase
  <2> QED BY <1>2, <1>3, <2>2 DEF c
<1> QED BY <1>4, <1>5 DEF AnyPacket

\* A packet was mapped a buffer to be completed in, or had one already.
LEMMA BeginsPatches ==
  ASSUME TypeOK, SubjectInv, PhaseInv, MapInv, PacketBegins
  PROVE  /\ Subject \in Live
         /\ \/ UNCHANGED <<client, mapped>>
            \/ /\ client[Subject].partial = None
               /\ Fresh(mapped + 1, {}) /\ mapped' <= MaxBuffers + Cardinality(Used)
               /\ Patched(Subject, client[Subject].phase, mapped + 1)
<1> DEFINE c == Subject
<1>1. c \in Live
  BY DEF PacketBegins, SubjectInv
<1>2. c \in Client /\ client[c].phase \in {HANDSHAKING, STATUS, LOGIN}
  BY <1>1, ClientFields DEF PhaseInv
<1> HIDE DEF c
<1>3. ASSUME client[c].partial = None
      PROVE  /\ Fresh(mapped + 1, {}) /\ mapped' <= MaxBuffers + Cardinality(Used)
             /\ Patched(c, client[c].phase, mapped + 1)
  <2>1. MapPacketBuffer({}) /\ client' = [client EXCEPT ![c].partial = TakeBuffer({})]
    BY <1>3 DEF PacketBegins, c
  <2>2. TakeBuffer({}) = mapped + 1
    BY DEF TakeBuffer, Take
  <2>3. Fresh(mapped + 1, {}) /\ mapped' <= MaxBuffers + Cardinality(Used) /\ mapped + 1 \in Buffer
    BY <2>1, <2>2, PacketBufferFits
  <2> QED BY <1>2, <2>1, <2>2, <2>3, PatchesClient DEF Phase
<1>4. client[c].partial # None => UNCHANGED <<client, mapped>>
  BY DEF PacketBegins, c
<1> QED BY <1>1, <1>3, <1>4 DEF c

-----------------------------------------------------------------------------
(* The steps by what they do to requests.                                  *)

\* Nothing is prepared, and clients and buffers stay.
Plain == \/ Submit \/ Completion \/ LoopEnds \/ Recycle
         \/ AcceptFailed \/ TouchFreed \/ PeerGone \/ GotData \/ DataEnds

PlainEffect ==
  /\ UNCHANGED <<client, list, mapped, tcpPool, sendPool, overflowed>>
  /\ Pending' \subseteq Pending /\ Working' = Working
  /\ \A r \in Pending' : req'[r] = req[r]
  /\ pc \notin {"start", "arm_new", "arm_accept"}
  /\ pc' \notin {"start", "recycle", "arm_new", "arm_accept"}
  /\ sendFailed = TRUE => sendFailed' = TRUE

LEMMA PlainDoes ==
  ASSUME TypeOK, PlaceInv, Plain
  PROVE  PlainEffect
<1>0. None \notin Request /\ NoCqe.req = None /\ pool \cap Pending = {}
  BY DEF None, Request, NoCqe, PlaceInv, RequestExclusive
<1>1. CASE Submit
  <2>1. inflight' = inflight \cup sq /\ sq' = {} /\ cqe' = cqe /\ pc = "submit" /\ pc' = "wait"
    BY <1>1 DEF Submit
  <2>2. Pending' = Pending
    BY <2>1 DEF Pending
  <2>3. Working' = Working
    BY <2>1, <2>2 DEF Working
  <2> QED BY <1>1, <2>1, <2>2, <2>3 DEF Submit, PlainEffect, buffers, requests, history
<1>2. CASE Completion
  <2>1. PICK r \in inflight, res \in {"ok", "gone"} : NextCqe(r, res)
    BY <1>2 DEF Completion
  <2>2. cqe = NoCqe /\ cqe' = [req |-> r, res |-> res] /\ r \in Request
    BY <2>1 DEF TypeOK, NextCqe, PlaceInv
  <2>3. sq' = sq /\ inflight' = inflight \ {r} /\ pc # "recycle" /\ pc' # "recycle"
    BY <2>1 DEF NextCqe
  <2>4. Pending' = Pending
    BY <2>1, <2>2, <2>3, <1>0 DEF Pending
  <2>5. Working' = Working
    BY <2>3, <2>4 DEF Working
  <2> QED BY <2>1, <2>4, <2>5 DEF NextCqe, PlainEffect, buffers, requests, history
<1>3. CASE LoopEnds
  BY <1>3 DEF LoopEnds, PlainEffect, Pending, Working, buffers, requests, ring, history
<1>4. CASE Recycle
  <2>1. cqe.req \in Request /\ cqe.req \notin sq \cup inflight /\ cqe' = NoCqe
        /\ sq' = sq /\ inflight' = inflight /\ pc = "recycle" /\ pc' = "loop"
        /\ req' = [req EXCEPT ![cqe.req] = Blank]
    BY <1>4 DEF Recycle, ring, Busy, TypeOK, PlaceInv, RequestExclusive
  <2>2. Pending' = Pending \ {cqe.req}
    BY <2>1, <1>0 DEF Pending
  <2>3. Working' = Working
    BY <2>1, <2>2 DEF Working
  <2>4. \A r \in Pending' : req'[r] = req[r]
    BY <2>1, <2>2 DEF Pending, TypeOK
  <2> QED BY <1>4, <2>1, <2>2, <2>3, <2>4 DEF Recycle, PlainEffect, buffers, history
<1>5. CASE AcceptFailed \/ TouchFreed \/ PeerGone \/ GotData \/ DataEnds
  <2>1. /\ UNCHANGED <<client, list, mapped, tcpPool, sendPool, overflowed, sq, inflight, req, cqe>>
        /\ pc \in {"handle", "parse"} /\ pc' \in {"stopped", "fault", "disconnect", "parse", "rearm"}
    BY <1>5 DEF AcceptFailed, TouchFreed, PeerGone, GotData, DataEnds, Handling,
                buffers, requests, ring, history
  <2>2. sendFailed = TRUE => sendFailed' = TRUE
    BY <1>5 DEF AcceptFailed, TouchFreed, PeerGone, GotData, DataEnds, history
  <2>3. Pending' = Pending /\ Working' = Working
    BY <2>1 DEF Pending, Working
  <2> QED BY <2>1, <2>2, <2>3 DEF PlainEffect
<1> QED BY <1>1, <1>2, <1>3, <1>4, <1>5 DEF Plain

\* One request is prepared, as far as the submission queue has room, and clients and
\* buffers stay.
Prepares == Start \/ ArmNew \/ ArmAccept \/ Rearm

AcceptContent == [type |-> "accept", client |-> None, buf |-> None]

\* Working afterwards, when n was prepared.
WorkingWith(n) == (Working \cup {n}) \ (IF pc' = "recycle" THEN {cqe.req} ELSE {})

PreparesEffect(content) ==
  /\ UNCHANGED <<client, list, mapped, tcpPool, sendPool, cqe, sendFailed>>
  /\ \/ /\ \E n \in Request : Adds(n, content) /\ Working' = WorkingWith(n)
        /\ pc' # "stopped"
     \/ Drops /\ Working' = Working \ (IF pc' = "recycle" THEN {cqe.req} ELSE {})
  /\ pc # "recycle"

LEMMA AddsWorking ==
  ASSUME PlaceInv, NEW n, NEW content, Adds(n, content), pc # "recycle"
  PROVE  Working' = WorkingWith(n)
BY DEF Adds, Working, WorkingWith

LEMMA DropsWorking ==
  ASSUME Drops, pc # "recycle"
  PROVE  Working' = Working \ (IF pc' = "recycle" THEN {cqe.req} ELSE {})
BY DEF Drops, Working

LEMMA PreparesDoes ==
  ASSUME TypeOK, PlaceInv, NEW content, (Queue(content) /\ pc' # "stopped") \/ QueueFull, pc # "recycle",
         UNCHANGED <<client, list, mapped, tcpPool, sendPool, cqe, sendFailed>>
  PROVE  PreparesEffect(content)
<1>1. CASE Queue(content) /\ pc' # "stopped"
  <2>1. PICK n \in Request : Adds(n, content)
    BY <1>1, QueueAdds
  <2> QED BY <1>1, <2>1, AddsWorking DEF PreparesEffect
<1>2. CASE QueueFull
  BY <1>2, FullDrops, DropsWorking DEF PreparesEffect
<1> QED BY <1>1, <1>2

LEMMA PreparesCases ==
  ASSUME TypeOK, PlaceInv, SubjectInv, Prepares
  PROVE  \/ pc = "start" /\ pc' = "submit" /\ PreparesEffect(AcceptContent) /\ overflowed' = overflowed
         \/ /\ pc = "arm_new" /\ Subject \in Live /\ PreparesEffect(RecvOf(Subject))
            /\ pc' = "arm_accept" \/ (pc' = "stopped" /\ overflowed' = TRUE)
         \/ /\ pc = "arm_accept" /\ PreparesEffect(AcceptContent)
            /\ pc' = "recycle" \/ (pc' = "stopped" /\ overflowed' = TRUE)
         \/ /\ pc = "rearm" /\ Subject \in Live /\ PreparesEffect(RecvOf(Subject))
            /\ pc' = "recycle"
<1>1. CASE Start
  BY <1>1, PreparesDoes DEF Start, AcceptContent, buffers, Queue
<1>2. CASE ArmNew
  <2>1. /\ pc = "arm_new" /\ UNCHANGED <<client, list, mapped, tcpPool, sendPool, cqe, sendFailed>>
        /\ (Queue(RecvOf(Subject)) /\ pc' # "stopped") \/ QueueFull
        /\ pc' = "arm_accept" \/ (pc' = "stopped" /\ overflowed' = TRUE)
    BY <1>2 DEF ArmNew, buffers, QueueFull
  <2>2. PreparesEffect(RecvOf(Subject)) /\ Subject \in Live
    BY <2>1, PreparesDoes DEF SubjectInv
  <2> QED BY <2>1, <2>2
<1>3. CASE ArmAccept
  <2>1. /\ pc = "arm_accept" /\ UNCHANGED <<client, list, mapped, tcpPool, sendPool, cqe, sendFailed>>
        /\ (Queue(AcceptContent) /\ pc' # "stopped") \/ QueueFull
        /\ pc' = "recycle" \/ (pc' = "stopped" /\ overflowed' = TRUE)
    BY <1>3 DEF ArmAccept, AcceptContent, buffers, QueueFull
  <2>2. PreparesEffect(AcceptContent)
    BY <2>1, PreparesDoes
  <2> QED BY <2>1, <2>2
<1>4. CASE Rearm
  BY <1>4, PreparesDoes DEF Rearm, SubjectInv, buffers
<1> QED BY <1>1, <1>2, <1>3, <1>4 DEF Prepares

\* A packet was dispatched: its pieces are free again, and a reply took a buffer.
PacketEffect ==
  /\ pc = "parse" /\ Subject \in Live
  /\ UNCHANGED <<cqe, list, tcpPool, sendFailed>>
  /\ \E ph \in {HANDSHAKING, STATUS, LOGIN} : Patched(Subject, ph, None)
  /\ mapped' <= MaxBuffers + Cardinality(Used)

QuietEffect ==
  /\ mapped' = mapped /\ sendPool' = sendPool \cup Done(Subject)
  /\ UNCHANGED <<req, sq, inflight, overflowed>> /\ Pending' = Pending /\ Working' = Working
  /\ pc' \in {"parse", "disconnect"}

ReplyOf(b) == [type |-> "send", client |-> Subject, buf |-> b]

AnsweredEffect(b) ==
  /\ b \in Buffer /\ Fresh(b, sendPool) /\ sendPool' = (sendPool \ {b}) \cup Done(Subject)
  /\ \E n \in Request : Adds(n, ReplyOf(b)) /\ Working' = Working \cup {n}
  /\ pc' = "parse"

UnansweredEffect(b) ==
  /\ b \in Buffer /\ Fresh(b, sendPool) /\ Drops /\ Working' = Working
  /\ \/ pc' = "parse" /\ sendPool' = (sendPool \ {b}) \cup Done(Subject)
     \/ pc' = "stopped" /\ sendPool' = sendPool \cup {b} \cup Done(Subject)

LEMMA PacketDoes ==
  ASSUME TypeOK, PlaceInv, SubjectInv, MapInv, PhaseInv, NEW p \in Packets, AnyPacket(p)
  PROVE  /\ PacketEffect
         /\ \/ QuietEffect
            \/ PacketAnswered(p) /\ AnsweredEffect(TakeBuffer(sendPool))
            \/ PacketUnanswered(p) /\ UnansweredEffect(TakeBuffer(sendPool))
<1> DEFINE b == TakeBuffer(sendPool)
<1>1. pc = "parse" /\ UNCHANGED <<cqe, list, tcpPool, sendFailed>>
  BY DEF AnyPacket, PacketQuiet, PacketAnswered, PacketUnanswered, PacketRefused, history
<1>2. Subject \in Live /\ \E ph \in {HANDSHAKING, STATUS, LOGIN} : Patched(Subject, ph, None)
  BY PacketPatches
<1>3. mapped <= MaxBuffers + Cardinality(Used)
  BY DEF MapInv
<1>4. CASE PacketQuiet(p) \/ PacketRefused(p)
  <2>1. /\ UNCHANGED <<mapped, req, sq, inflight, cqe, overflowed>> /\ pc' \in {"parse", "disconnect"}
        /\ sendPool' = sendPool \cup Done(Subject)
    BY <1>4 DEF PacketQuiet, PacketRefused, requests, ring, history
  <2>2. Pending' = Pending /\ Working' = Working
    BY <1>1, <2>1 DEF Pending, Working
  <2> QED BY <1>1, <1>2, <1>3, <2>1, <2>2 DEF PacketEffect, QuietEffect
<1>5. CASE PacketAnswered(p)
  <2>1. /\ MapPacketBuffer(sendPool) /\ Queue(ReplyOf(b))
        /\ sendPool' = (sendPool \ {b}) \cup Done(Subject) /\ pc' = "parse"
    BY <1>1, <1>5 DEF PacketAnswered, SendOf, ReplyOf
  <2>2. Fresh(b, sendPool) /\ b \in Buffer /\ mapped' <= MaxBuffers + Cardinality(Used)
    BY <2>1, PacketBufferFits
  <2>3. PICK n \in Request : Adds(n, ReplyOf(b))
    BY <1>1, <2>1, QueueAdds
  <2>4. Working' = Working \cup {n}
    BY <1>1, <2>1, <2>3 DEF Adds, Working
  <2> QED BY <1>1, <1>2, <1>5, <2>1, <2>2, <2>3, <2>4 DEF PacketEffect, AnsweredEffect
<1>6. CASE PacketUnanswered(p)
  <2>1. /\ MapPacketBuffer(sendPool) /\ QueueFull
        /\ \/ pc' = "parse" /\ sendPool' = (sendPool \ {b}) \cup Done(Subject)
           \/ pc' = "stopped" /\ sendPool' = sendPool \cup {b} \cup Done(Subject)
    BY <1>6 DEF PacketUnanswered
  <2>2. Fresh(b, sendPool) /\ b \in Buffer /\ mapped' <= MaxBuffers + Cardinality(Used)
    BY <2>1, PacketBufferFits
  <2>3. Drops
    BY <1>1, <2>1, FullDrops
  <2>4. Working' = Working
    BY <1>1, <2>1, <2>3 DEF Drops, Working
  <2> QED BY <1>1, <1>2, <1>6, <2>1, <2>2, <2>3, <2>4 DEF PacketEffect, UnansweredEffect
<1> QED BY <1>4, <1>5, <1>6 DEF AnyPacket

\* The completion at hand is done with.
Releases == Disconnect \/ SendDone

ReleasesEffect ==
  /\ pc' = "recycle" /\ pc # "recycle" /\ pc # "start"
  /\ UNCHANGED <<req, sq, inflight, cqe, overflowed, sendFailed, mapped>>
  /\ Pending' = Pending /\ Working' = Working \ {cqe.req}
  /\ cqe.req \in Pending
  /\ \/ /\ pc = "disconnect" /\ Subject \in Live /\ Left(Subject)
        /\ list' = L!Del(list, Subject)
        /\ tcpPool' = tcpPool \cup {client[Subject].buf} /\ sendPool' = sendPool
     \/ /\ pc = "handle" /\ req[cqe.req].type = "send" /\ cqe.res = "ok"
        /\ UNCHANGED <<client, list, tcpPool>>
        /\ sendPool' = sendPool \cup {req[cqe.req].buf}

LEMMA ReleasesDoes ==
  ASSUME TypeOK, PlaceInv, SubjectInv, Releases
  PROVE  ReleasesEffect
<1>1. /\ pc' = "recycle" /\ pc \in {"disconnect", "handle"}
      /\ UNCHANGED <<req, sq, inflight, cqe, overflowed, sendFailed, mapped>>
  BY DEF Releases, Disconnect, SendDone, Handling, requests, ring, history
<1>2. Pending' = Pending /\ Working' = Working \ {cqe.req}
  BY <1>1 DEF Pending, Working
<1>3. cqe.req \in Pending
  BY <1>1 DEF Pending, PlaceInv, Busy
<1>4. CASE Disconnect
  <2>1. Subject \in Live /\ Left(Subject)
    BY <1>4, ClientLeaves DEF Disconnect, SubjectInv
  <2> QED BY <1>1, <1>2, <1>3, <1>4, <2>1 DEF Disconnect, ReleasesEffect
<1>5. CASE SendDone
  BY <1>1, <1>2, <1>3, <1>5 DEF SendDone, Handling, ReleasesEffect
<1> QED BY <1>4, <1>5 DEF Releases

\* A packet begins: what is known of it may have got a buffer.
BeginsEffect ==
  /\ pc = "parse" /\ pc' = "rearm" /\ Subject \in Live
  /\ UNCHANGED <<list, tcpPool, sendPool, req, sq, inflight, cqe, overflowed, sendFailed>>
  /\ Pending' = Pending /\ Working' = Working
  /\ \/ UNCHANGED <<client, mapped>>
     \/ /\ client[Subject].partial = None
        /\ Fresh(mapped + 1, {}) /\ mapped' <= MaxBuffers + Cardinality(Used)
        /\ Patched(Subject, client[Subject].phase, mapped + 1)

LEMMA BeginsDoes ==
  ASSUME TypeOK, SubjectInv, PhaseInv, MapInv, PacketBegins
  PROVE  BeginsEffect
<1>1. /\ pc = "parse" /\ pc' = "rearm"
      /\ UNCHANGED <<list, tcpPool, sendPool, req, sq, inflight, cqe, overflowed, sendFailed>>
  BY DEF PacketBegins, requests, ring, history
<1>2. Pending' = Pending /\ Working' = Working
  BY <1>1 DEF Pending, Working
<1> QED BY <1>1, <1>2, BeginsPatches DEF BeginsEffect

AcceptedStep == \E c \in Client, b \in Buffer : AcceptedEffect(c, b)
PacketStep(p) == /\ PacketEffect
                 /\ \/ QuietEffect
                    \/ PacketAnswered(p) /\ AnsweredEffect(TakeBuffer(sendPool))
                    \/ PacketUnanswered(p) /\ UnansweredEffect(TakeBuffer(sendPool))

\* What one step is.
LEMMA StepCases ==
  ASSUME IInv, Next
  PROVE  \/ Plain /\ PlainEffect
         \/ Prepares
         \/ Accepted /\ AcceptedStep
         \/ \E p \in Packets : AnyPacket(p) /\ PacketStep(p)
         \/ PacketBegins /\ BeginsEffect
         \/ Releases /\ ReleasesEffect
<1> USE DEF IInv
<1>1. CASE Plain
  BY <1>1, PlainDoes
<1>2. CASE Prepares
  BY <1>2
<1>3. CASE Accepted
  BY <1>3, AcceptedDoes DEF AcceptedStep
<1>4. CASE Consume
  <2>1. PICK p \in Packets : AnyPacket(p)
    BY <1>4 DEF Consume, AnyPacket
  <2> QED BY <2>1, PacketDoes DEF PacketStep
<1>5. CASE PacketBegins
  BY <1>5, BeginsDoes
<1>6. CASE Releases
  BY <1>6, ReleasesDoes
<1> QED BY <1>1, <1>2, <1>3, <1>4, <1>5, <1>6 DEF Next, ServerNext, Plain, Prepares, Releases

-----------------------------------------------------------------------------
(* Each part of the invariant is kept.                                     *)

LEMMA ClientSetSize ==
  ASSUME NEW S \in SUBSET Client
  PROVE  Cardinality(S) \in Nat /\ Cardinality(S) <= MaxClients
<1>1. IsFiniteSet(Client) /\ Cardinality(Client) = MaxClients
  <2>1. IsFiniteSet(1 .. MaxClients) /\ Cardinality(1 .. MaxClients) =
            IF 1 > MaxClients THEN 0 ELSE MaxClients - 1 + 1
    BY ServerAssumption, FS_Interval
  <2> QED BY <2>1, ServerAssumption DEF Client
<1> QED BY <1>1, FS_Subset, FS_CardinalityType

\* Buffers in use before are mapped after.
LEMMA MappedGrows ==
  ASSUME TypeOK, NEW p, NEW b, Fresh(b, p)
  PROVE  1 .. mapped \subseteq 1 .. mapped' /\ 0 .. mapped \subseteq 0 .. mapped'
         /\ b \in 1 .. mapped' /\ b \in 0 .. mapped'
BY DEF Fresh, TypeOK

LEMMA MapKept ==
  ASSUME IInv, Next
  PROVE  MapInv'
<1>1. MapInv /\ TypeOK /\ mapped \in Nat /\ PlaceInv /\ SubjectInv
  BY ServerAssumption DEF IInv, TypeOK
<1>2. CASE PlainEffect
  <2>1. UNCHANGED <<client, mapped, tcpPool, sendPool>> /\ Live' = Live /\ Used' = Used
    BY <1>2 DEF PlainEffect, Live, Used
  <2>2. \A r \in Pending' : r \in Pending /\ req'[r] = req[r]
    BY <1>2 DEF PlainEffect
  <2> QED BY <1>1, <2>1, <2>2 DEF MapInv
<1>3. CASE Prepares
  <2>1. PICK content : PreparesEffect(content) /\ (content.type = "recv" => content.buf \in 1 .. mapped)
                       /\ content.type # "send"
    <3>1. \/ PreparesEffect(AcceptContent)
          \/ Subject \in Live /\ PreparesEffect(RecvOf(Subject))
      BY <1>1, <1>3, PreparesCases
    <3>2. AcceptContent.type = "accept" /\ RecvOf(Subject).type = "recv"
          /\ RecvOf(Subject).buf = client[Subject].buf
      BY DEF AcceptContent, RecvOf
    <3>3. Subject \in Live => client[Subject].buf \in 1 .. mapped
      BY <1>1 DEF MapInv
    <3> QED BY <3>1, <3>2, <3>3
  <2>2. UNCHANGED <<client, mapped, tcpPool, sendPool>> /\ Live' = Live /\ Used' = Used
    BY <2>1 DEF PreparesEffect, Live, Used
  <2>3. CASE \E n \in Request : Adds(n, content)
    <3>1. PICK n \in Request : Adds(n, content)
      BY <2>3
    <3>2. \A r \in Pending' : (r \in Pending /\ req'[r] = req[r]) \/ req'[r] = content
      BY <3>1 DEF Adds
    <3> QED BY <1>1, <2>1, <2>2, <3>2 DEF MapInv
  <2>4. CASE Drops
    BY <1>1, <2>2, <2>4 DEF Drops, MapInv
  <2> QED BY <2>1, <2>3, <2>4 DEF PreparesEffect
<1>4. CASE AcceptedStep
  <2>1. PICK c \in Client, b \in Buffer : AcceptedEffect(c, b)
    BY <1>4 DEF AcceptedStep
  <2>2. mapped' <= MaxBuffers + Cardinality(Used') /\ Pending' = Pending
    BY <2>1 DEF AcceptedEffect
  <2>3. 1 .. mapped \subseteq 1 .. mapped' /\ 0 .. mapped \subseteq 0 .. mapped' /\ b \in 1 .. mapped'
        /\ mapped' \in Nat
    BY <1>1, <2>1, MappedGrows DEF AcceptedEffect, Fresh
  <2>4. tcpPool' \cup sendPool' \subseteq 1 .. mapped'
    BY <1>1, <2>1, <2>3 DEF AcceptedEffect, MapInv
  <2>5. c \notin Live /\ client[c].partial = None
    BY <1>1, <2>1 DEF AcceptedEffect, Joined, MapInv
  <2>6. \A d \in Live' : client'[d].buf \in 1 .. mapped' /\ client'[d].partial \in 0 .. mapped'
    <3>1. /\ \A d \in Client : d # c => client'[d] = client[d]
          /\ client'[c].buf = b /\ client'[c].partial = None /\ Live' = Live \cup {c}
      BY <2>1, <2>5 DEF AcceptedEffect, Joined
    <3>2. None \in 0 .. mapped'
      BY <2>3 DEF None
    <3> QED BY <1>1, <2>3, <3>1, <3>2, ClientFields DEF MapInv
  <2>7. \A d \in Client \ Live' : client'[d].partial = None
    BY <1>1, <2>1 DEF AcceptedEffect, Joined, MapInv
  <2>8. \A r \in Pending' : req'[r].type \in {"recv", "send"} => req'[r].buf \in 1 .. mapped'
    <3>1. \A r \in Pending : req'[r].type = req[r].type /\ req'[r].buf = req[r].buf
      BY <1>1, <2>1 DEF AcceptedEffect, TypeOK, Pending
    <3> QED BY <1>1, <2>2, <2>3, <3>1 DEF MapInv
  <2> QED BY <2>2, <2>4, <2>6, <2>7, <2>8 DEF MapInv
<1>5. CASE \E p \in Packets : PacketStep(p)
  <2>1. PICK p \in Packets : PacketStep(p)
    BY <1>5
  <2>2. PICK ph \in {HANDSHAKING, STATUS, LOGIN} : Patched(Subject, ph, None)
    BY <2>1 DEF PacketStep, PacketEffect
  <2>3. Subject \in Live /\ tcpPool' = tcpPool /\ mapped' <= MaxBuffers + Cardinality(Used')
    BY <2>1, <2>2 DEF PacketStep, PacketEffect, Patched
  <2>4. Done(Subject) \subseteq 1 .. mapped
    BY <1>1, <2>3 DEF Done, MapInv, None
  <2>5. 1 .. mapped \subseteq 1 .. mapped' /\ 0 .. mapped \subseteq 0 .. mapped' /\ mapped' \in Nat
    BY <1>1, <2>1, MappedGrows DEF PacketStep, QuietEffect, AnsweredEffect, UnansweredEffect, Fresh
  <2>6. tcpPool' \cup sendPool' \subseteq 1 .. mapped'
    BY <1>1, <2>1, <2>3, <2>4, <2>5 DEF PacketStep, QuietEffect, AnsweredEffect, UnansweredEffect, Fresh, MapInv
  <2>7. \A c \in Live' : client'[c].buf \in 1 .. mapped' /\ client'[c].partial \in 0 .. mapped'
    BY <1>1, <2>2, <2>5, ClientFields DEF Patched, MapInv, None
  <2>8. \A d \in Client \ Live' : client'[d].partial = None
    BY <1>1, <2>2 DEF Patched, MapInv
  <2>9. \A r \in Pending' : req'[r].type \in {"recv", "send"} => req'[r].buf \in 1 .. mapped'
    <3>1. CASE Pending' = Pending /\ req' = req
      BY <1>1, <2>5, <3>1 DEF MapInv
    <3>2. CASE AnsweredEffect(TakeBuffer(sendPool))
      <4>1. PICK n \in Request : Adds(n, ReplyOf(TakeBuffer(sendPool)))
        BY <3>2 DEF AnsweredEffect
      <4>2. TakeBuffer(sendPool) \in 1 .. mapped'
        BY <3>2 DEF AnsweredEffect, Fresh
      <4> QED BY <1>1, <2>5, <4>1, <4>2 DEF MapInv, Adds, ReplyOf
    <3> QED BY <2>1, <3>1, <3>2 DEF PacketStep, QuietEffect, UnansweredEffect, Drops
  <2> QED BY <2>3, <2>6, <2>7, <2>8, <2>9 DEF MapInv
<1>6. CASE BeginsEffect
  <2>1. CASE UNCHANGED <<client, mapped>>
    <3>1. Live' = Live /\ Used' = Used
      BY <2>1 DEF Live, Used
    <3> QED BY <1>1, <1>6, <2>1, <3>1 DEF BeginsEffect, MapInv
  <2>2. CASE ~UNCHANGED <<client, mapped>>
    <3>1. /\ Fresh(mapped + 1, {}) /\ mapped' <= MaxBuffers + Cardinality(Used)
          /\ Patched(Subject, client[Subject].phase, mapped + 1) /\ Subject \in Live
          /\ UNCHANGED <<tcpPool, sendPool, req>> /\ Pending' = Pending
      BY <1>6, <2>2 DEF BeginsEffect
    <3>2. 1 .. mapped \subseteq 1 .. mapped' /\ 0 .. mapped \subseteq 0 .. mapped' /\ mapped' \in Nat
          /\ mapped + 1 \in 0 .. mapped'
      BY <1>1, <3>1, MappedGrows DEF Fresh
    <3>3. \A c \in Live' : client'[c].buf \in 1 .. mapped' /\ client'[c].partial \in 0 .. mapped'
      BY <1>1, <3>1, <3>2, ClientFields DEF Patched, MapInv
    <3>4. \A d \in Client \ Live' : client'[d].partial = None
      BY <1>1, <3>1 DEF Patched, MapInv
    <3> QED BY <1>1, <3>1, <3>2, <3>3, <3>4 DEF MapInv, Patched
  <2> QED BY <2>1, <2>2
<1>7. CASE ReleasesEffect
  <2>1. mapped' = mapped /\ req' = req /\ Pending' = Pending /\ cqe.req \in Pending
    BY <1>7 DEF ReleasesEffect
  <2>2. CASE pc = "disconnect"
    <3>1. Subject \in Live /\ Left(Subject) /\ sendPool' = sendPool /\ tcpPool' = tcpPool \cup {client[Subject].buf}
      BY <1>7, <2>2 DEF ReleasesEffect
    <3> QED BY <1>1, <2>1, <3>1, ClientFields DEF MapInv, Left
  <2>3. CASE pc # "disconnect"
    <3>1. UNCHANGED <<client, tcpPool>> /\ sendPool' = sendPool \cup {req[cqe.req].buf}
          /\ req[cqe.req].type = "send"
      BY <1>7, <2>3 DEF ReleasesEffect
    <3>2. Live' = Live /\ Used' = Used
      BY <3>1 DEF Live, Used
    <3> QED BY <1>1, <2>1, <3>1, <3>2 DEF MapInv
  <2> QED BY <2>2, <2>3
<1> QED BY <1>2, <1>3, <1>4, <1>5, <1>6, <1>7, StepCases

LEMMA BuffersTyped ==
  ASSUME MapInv', mapped' \in Nat
  PROVE  BuffersOK'
<1>1. Used' \subseteq Client
  BY DEF Used
<1>2. Cardinality(Used') \in Nat /\ Cardinality(Used') <= MaxClients
  BY <1>1, ClientSetSize
<1>3. mapped' <= MaxBuffers + MaxClients
  BY <1>2, ServerAssumption DEF MapInv
<1>4. 1 .. mapped' \subseteq Buffer
  BY <1>3, ServerAssumption DEF Buffer
<1> QED BY <1>3, <1>4, ServerAssumption DEF BuffersOK, MapInv

LEMMA MappedTyped ==
  ASSUME IInv, Next
  PROVE  mapped' \in Nat
<1>1. mapped \in Nat
  BY ServerAssumption DEF IInv, TypeOK
<1>2. mapped' = mapped \/ \E b, p : Fresh(b, p)
  <2>1. CASE PlainEffect
    BY <2>1 DEF PlainEffect
  <2>2. CASE Prepares
    BY <2>2, PreparesCases DEF PreparesEffect, IInv
  <2>3. CASE AcceptedStep
    BY <2>3 DEF AcceptedStep, AcceptedEffect
  <2>4. CASE \E p \in Packets : PacketStep(p)
    BY <2>4 DEF PacketStep, QuietEffect, AnsweredEffect, UnansweredEffect
  <2>5. CASE BeginsEffect
    BY <2>5 DEF BeginsEffect
  <2>6. CASE ReleasesEffect
    BY <2>6 DEF ReleasesEffect
  <2> QED BY <2>1, <2>2, <2>3, <2>4, <2>5, <2>6, StepCases
<1> QED BY <1>1, <1>2 DEF Fresh

LEMMA ClientsTyped ==
  ASSUME IInv, Next
  PROVE  client' \in [Client -> ClientType]
<1>1. client \in [Client -> ClientType]
  BY ClientFields DEF IInv
<1>2. CASE PlainEffect
  BY <1>1, <1>2 DEF PlainEffect
<1>3. CASE Prepares
  BY <1>1, <1>3, PreparesCases DEF PreparesEffect, IInv
<1>4. CASE AcceptedStep
  BY <1>4 DEF AcceptedStep, AcceptedEffect, Joined
<1>5. CASE \E p \in Packets : PacketStep(p)
  BY <1>5 DEF PacketStep, PacketEffect, Patched
<1>6. CASE BeginsEffect
  BY <1>1, <1>6 DEF BeginsEffect, Patched
<1>7. CASE ReleasesEffect
  BY <1>1, <1>7 DEF ReleasesEffect, Left
<1> QED BY <1>2, <1>3, <1>4, <1>5, <1>6, <1>7, StepCases

LEMMA RingTyped ==
  ASSUME IInv, Next
  PROVE  RingOK'
<1>1. TypeOK /\ PlaceInv /\ SubjectInv /\ MapInv /\ RingOK
  BY TypeSplits DEF IInv
<1>0. None \in Client \cup {None} /\ None \in Buffer \cup {None}
  OBVIOUS
<1>2. CASE Start \/ ArmAccept
  <2>1. AcceptContent \in RequestType
    BY <1>0 DEF AcceptContent, RequestType
  <2> QED BY <1>1, <1>2, <2>1, RingKept DEF Start, ArmAccept, AcceptContent
<1>3. CASE ArmNew \/ Rearm
  <2>1. Subject \in Live
    BY <1>1, <1>3 DEF ArmNew, Rearm, SubjectInv
  <2>2. RecvOf(Subject) \in RequestType
    BY <1>1, <2>1, ClientFields DEF RecvOf, RequestType, ClientType
  <2> QED BY <1>1, <1>3, <2>2, RingKept DEF ArmNew, Rearm
<1>4. CASE Submit
  <2>1. Cardinality(sq') <= SqEntries /\ sq' \subseteq Request
    BY <1>4, FS_EmptySet, ServerAssumption DEF Submit
  <2> QED BY <1>1, <1>4, <2>1 DEF Submit, RingOK, requests, history
<1>5. CASE Completion
  <2>1. PICK r \in inflight, res \in {"ok", "gone"} : NextCqe(r, res)
    BY <1>5 DEF Completion
  <2> QED BY <1>1, <2>1 DEF NextCqe, RingOK, requests, history
<1>6. CASE Recycle
  <2>1. cqe.req \in Request
    BY <1>1, <1>6 DEF Recycle, PlaceInv, Busy, TypeOK
  <2>2. Blank \in RequestType
    BY <1>0 DEF Blank, RequestType
  <2> QED BY <1>1, <1>6, <2>1, <2>2 DEF Recycle, RingOK, ring, history
<1>7. CASE Accepted
  <2>1. PICK c \in Client, b \in Buffer : AcceptedEffect(c, b)
    BY <1>1, <1>7, AcceptedDoes
  <2> QED BY <1>1, <2>1 DEF AcceptedEffect, RingOK
<1>8. CASE LoopEnds \/ AcceptFailed \/ TouchFreed \/ PeerGone \/ GotData \/ DataEnds
           \/ PacketBegins \/ Releases
  BY <1>1, <1>8, RingKept DEF LoopEnds, AcceptFailed, TouchFreed, PeerGone, GotData, DataEnds,
     PacketBegins, Releases, Disconnect, SendDone, history
<1>9. CASE Consume
  <2>1. PICK p \in Packets : AnyPacket(p)
    BY <1>9 DEF Consume, AnyPacket
  <2>2. CASE PacketQuiet(p) \/ PacketRefused(p)
    BY <1>1, <2>2, RingKept DEF PacketQuiet, PacketRefused, history
  <2>3. CASE PacketAnswered(p)
    <3>1. pc = "parse" /\ MapPacketBuffer(sendPool) /\ Queue(ReplyOf(TakeBuffer(sendPool))) /\ cqe' = cqe
      BY <2>3 DEF PacketAnswered, SendOf, ReplyOf
    <3>2. ReplyOf(TakeBuffer(sendPool)) \in RequestType
      BY <1>1, <3>1, PacketBufferFits, ClientFields DEF ReplyOf, RequestType, SubjectInv
    <3> QED BY <1>1, <3>1, <3>2, RingKept
  <2>4. CASE PacketUnanswered(p)
    BY <1>1, <2>4, RingKept DEF PacketUnanswered
  <2> QED BY <2>1, <2>2, <2>3, <2>4 DEF AnyPacket
<1> QED BY <1>2, <1>3, <1>4, <1>5, <1>6, <1>7, <1>8, <1>9 DEF Next, ServerNext, Releases

LEMMA ControlTyped ==
  ASSUME IInv, Next
  PROVE  /\ pc' \in {"start", "submit", "wait", "loop", "handle", "arm_new", "arm_accept",
                     "parse", "rearm", "disconnect", "recycle", "stopped", "fault"}
         /\ cqe' \in [req : Request \cup {None}, res : {"none", "ok", "gone"}]
         /\ parsed' \in 0 .. MaxPackets
         /\ sendFailed' \in BOOLEAN
<1>1. TypeOK
  BY DEF IInv
<1>2. CASE Completion
  <2>1. PICK r \in inflight, res \in {"ok", "gone"} : NextCqe(r, res)
    BY <1>2 DEF Completion
  <2> QED BY <1>1, <2>1 DEF NextCqe, TypeOK, history
<1>3. CASE Recycle
  BY <1>1, <1>3, ServerAssumption DEF Recycle, TypeOK, NoCqe, history
<1>4. CASE Consume
  <2>1. PICK p \in Packets : AnyPacket(p)
    BY <1>4 DEF Consume, AnyPacket
  <2>2. pc' \in {"parse", "stopped", "disconnect"} /\ cqe' = cqe /\ sendFailed' = sendFailed
        /\ parsed < MaxPackets /\ parsed' \in {parsed, parsed + 1}
    BY <2>1 DEF AnyPacket, PacketQuiet, PacketAnswered, PacketUnanswered, PacketRefused, history
  <2> QED BY <1>1, <2>2, ServerAssumption DEF TypeOK
<1>5. CASE Start \/ Submit \/ LoopEnds \/ AcceptFailed \/ Accepted \/ ArmNew \/ ArmAccept
  BY <1>1, <1>5 DEF Start, Submit, LoopEnds, AcceptFailed, Accepted, ArmNew, ArmAccept, TypeOK, history
<1>6. CASE TouchFreed \/ PeerGone \/ Disconnect \/ SendDone \/ GotData \/ PacketBegins \/ DataEnds \/ Rearm
  BY <1>1, <1>6 DEF TouchFreed, PeerGone, Disconnect, SendDone, GotData, PacketBegins, DataEnds, Rearm,
     TypeOK, history
<1> QED BY <1>2, <1>3, <1>4, <1>5, <1>6 DEF Next, ServerNext

LEMMA TypeKept ==
  ASSUME IInv, Next
  PROVE  TypeOK'
<1>1. MapInv' /\ mapped' \in Nat
  BY MapKept, MappedTyped
<1>2. BuffersOK'
  BY <1>1, BuffersTyped
<1>3. RestOK'
  BY ControlTyped, ClientsTyped DEF RestOK
<1>4. RingOK'
  BY RingTyped
<1> QED BY <1>2, <1>3, <1>4 DEF TypeOK, RingOK, RestOK, BuffersOK, RequestType, ClientType

LEMMA ContentKept ==
  ASSUME IInv, Next
  PROVE  ContentInv'
<1>1. TypeOK /\ PlaceInv /\ SubjectInv /\ ContentInv
  BY DEF IInv
<1>2. CASE PlainEffect
  BY <1>1, <1>2 DEF PlainEffect, ContentInv
<1>3. CASE Prepares
  <2>1. PICK content :
          /\ PreparesEffect(content)
          /\ \/ content = AcceptContent
             \/ content = RecvOf(Subject) /\ Subject \in Live
    BY <1>1, <1>3, PreparesCases
  <2>2. client' = client
    BY <2>1 DEF PreparesEffect
  <2>3. CASE \E n \in Request : Adds(n, content)
    <3>1. PICK n \in Request : Adds(n, content)
      BY <2>3
    <3>2. /\ content.type # "none"
          /\ content.type = "accept" => content.buf = None
          /\ content.type \in {"recv", "send"} =>
               content.client # None /\ client[content.client].life # "unused"
      BY <1>1, <2>1, ClientFields DEF AcceptContent, RecvOf, Live
    <3>3. \A r \in Pending' : (r \in Pending /\ req'[r] = req[r]) \/ req'[r] = content
      BY <3>1 DEF Adds
    <3> QED BY <1>1, <2>2, <3>2, <3>3 DEF ContentInv
  <2>4. CASE Drops
    BY <1>1, <2>2, <2>4 DEF Drops, ContentInv
  <2> QED BY <2>1, <2>3, <2>4 DEF PreparesEffect
<1>4. CASE AcceptedStep
  <2>1. PICK c \in Client, b \in Buffer : AcceptedEffect(c, b)
    BY <1>4 DEF AcceptedStep
  <2>2. \A d \in Client : client[d].life # "unused" => client'[d].life # "unused"
    BY <2>1 DEF AcceptedEffect, Joined
  <2>3. \A r \in Pending : /\ req'[r].type = req[r].type /\ req'[r].buf = req[r].buf
                           /\ req[r].type # "accept" => req'[r].client = req[r].client
    BY <1>1, <2>1 DEF AcceptedEffect, Pending, TypeOK
  <2>4. \A r \in Pending : req[r].client \in Client \cup {None}
    BY <1>1 DEF TypeOK, Pending
  <2> QED BY <1>1, <2>1, <2>2, <2>3, <2>4 DEF AcceptedEffect, ContentInv
<1>5. CASE \E p \in Packets : PacketStep(p)
  <2>1. PICK p \in Packets : PacketStep(p)
    BY <1>5
  <2>2. \A d \in Client : client'[d].life = client[d].life
    BY <2>1 DEF PacketStep, PacketEffect, Patched
  <2>3. Subject \in Live
    BY <2>1 DEF PacketStep, PacketEffect
  <2>4. \A r \in Pending : req[r].client \in Client \cup {None}
    BY <1>1 DEF TypeOK, Pending
  <2>5. CASE Pending' = Pending /\ req' = req
    BY <1>1, <2>2, <2>4, <2>5 DEF ContentInv
  <2>6. CASE AnsweredEffect(TakeBuffer(sendPool))
    <3>1. PICK n \in Request : Adds(n, ReplyOf(TakeBuffer(sendPool)))
      BY <2>6 DEF AnsweredEffect
    <3>2. \A r \in Pending' : (r \in Pending /\ req'[r] = req[r])
                               \/ (req'[r].type = "send" /\ req'[r].client = Subject)
      BY <3>1 DEF Adds, ReplyOf
    <3> QED BY <1>1, <2>2, <2>3, <2>4, <3>2, ClientFields DEF ContentInv, Live
  <2> QED BY <2>1, <2>5, <2>6 DEF PacketStep, QuietEffect, UnansweredEffect, Drops
<1>6. CASE BeginsEffect
  <2>1. \A d \in Client : client'[d].life = client[d].life
    BY <1>6 DEF BeginsEffect, Patched
  <2>2. \A r \in Pending : req[r].client \in Client \cup {None}
    BY <1>1 DEF TypeOK, Pending
  <2> QED BY <1>1, <1>6, <2>1, <2>2 DEF BeginsEffect, ContentInv
<1>7. CASE ReleasesEffect
  <2>1. \A d \in Client : client[d].life # "unused" => client'[d].life # "unused"
    BY <1>7 DEF ReleasesEffect, Left
  <2>2. \A r \in Pending : req[r].client \in Client \cup {None}
    BY <1>1 DEF TypeOK, Pending
  <2> QED BY <1>1, <1>7, <2>1, <2>2 DEF ReleasesEffect, ContentInv
<1> QED BY <1>2, <1>3, <1>4, <1>5, <1>6, <1>7, StepCases

\* Where pc stays or moves on with the completion at hand, its subject does too.
LEMMA SubjectKept ==
  ASSUME IInv, Next
  PROVE  SubjectInv'
<1>1. TypeOK /\ PlaceInv /\ SubjectInv /\ ContentInv
  BY DEF IInv
<1>2. CASE Plain /\ PlainEffect
  <2>1. UNCHANGED client /\ Live' = Live
    BY <1>2 DEF PlainEffect, Live
  <2>2. CASE Submit \/ Completion \/ LoopEnds \/ Recycle \/ AcceptFailed \/ TouchFreed
    <3>1. pc' \in {"wait", "handle", "submit", "loop", "stopped", "fault"}
      BY <2>2 DEF Submit, Completion, NextCqe, LoopEnds, Recycle, AcceptFailed, TouchFreed
    <3> QED BY <3>1 DEF SubjectInv, Subject
  <2>3. CASE PeerGone \/ GotData
    <3>1. /\ pc = "handle" /\ req[cqe.req].type \in {"recv", "send"} /\ client[Subject].life = "live"
          /\ req' = req /\ cqe' = cqe /\ pc' \in {"disconnect", "parse"}
          /\ pc' = "parse" => req[cqe.req].type = "recv"
          /\ pc' = "disconnect" /\ req[cqe.req].type = "send" => sendFailed' = TRUE /\ cqe.res = "gone"
      <4>1. CASE PeerGone
        BY <4>1, Zenon DEF PeerGone, Handling, requests
      <4>2. CASE GotData
        BY <4>2 DEF GotData, Handling, requests
      <4> QED BY <2>3, <4>1, <4>2
    <3>2. cqe.req \in Pending /\ cqe.req \in Request
      BY <1>1, <3>1 DEF PlaceInv, Busy, Pending, TypeOK
    <3>3. Subject \in Client
      BY <1>1, <3>1, <3>2 DEF ContentInv, TypeOK, Subject
    <3>4. Subject \in Live /\ Subject' = Subject
      BY <3>1, <3>3 DEF Live, Subject
    <3> QED BY <2>1, <3>1, <3>4 DEF SubjectInv
  <2>4. CASE DataEnds
    <3>1. pc = "parse" /\ pc' = "rearm" /\ req' = req /\ cqe' = cqe /\ Subject' = Subject
      BY <2>4 DEF DataEnds, requests, Subject
    <3> QED BY <1>1, <2>1, <3>1 DEF SubjectInv
  <2> QED BY <1>2, <2>2, <2>3, <2>4 DEF Plain
<1>3. CASE Prepares
  <2>1. CASE pc' \in {"submit", "recycle", "stopped"}
    BY <2>1 DEF SubjectInv
  <2>2. CASE pc = "arm_new" /\ pc' = "arm_accept" /\ PreparesEffect(RecvOf(Subject))
    <3>1. cqe' = cqe /\ cqe.req \in Pending
      BY <1>1, <2>2 DEF PreparesEffect, PlaceInv, Busy, Pending
    <3>2. req'[cqe'.req] = req[cqe.req]
      BY <2>2, <3>1 DEF PreparesEffect, Adds, Drops
    <3> QED BY <1>1, <2>2, <3>2 DEF SubjectInv
  <2> QED BY <1>1, <1>3, <2>1, <2>2, PreparesCases
<1>4. CASE AcceptedStep
  <2>1. PICK c \in Client, b \in Buffer : AcceptedEffect(c, b)
    BY <1>4 DEF AcceptedStep
  <2>2. Subject' = c /\ c \in Live' /\ req'[cqe'.req].type = "accept"
    BY <2>1 DEF AcceptedEffect, Joined, Subject
  <2>3. ASSUME NEW r \in Pending', req'[r].type = "recv"
        PROVE  req'[r].client # c
    <3>1. r \in Pending /\ r \in Request /\ req[r].type = "recv"
      BY <1>1, <2>1, <2>3 DEF AcceptedEffect, TypeOK, Pending
    <3>2. req'[r].client = req[r].client
      BY <2>1, <3>1 DEF AcceptedEffect
    <3> QED BY <1>1, <2>1, <3>1, <3>2 DEF ContentInv, AcceptedEffect
  <2> QED BY <2>1, <2>2, <2>3 DEF AcceptedEffect, SubjectInv
<1>5. CASE \E p \in Packets : PacketStep(p)
  <2>1. PICK p \in Packets : PacketStep(p)
    BY <1>5
  <2>2. pc' \in {"parse", "disconnect", "stopped"} /\ Live' = Live /\ Subject \in Live /\ cqe' = cqe
        /\ req[cqe.req].type = "recv"
    BY <1>1, <2>1 DEF PacketStep, PacketEffect, QuietEffect, AnsweredEffect, UnansweredEffect, Patched, SubjectInv
  <2>3. cqe.req \in Pending
    BY <1>1, <2>1 DEF PacketStep, PacketEffect, PlaceInv, Busy, Pending
  <2>4. req'[cqe'.req] = req[cqe.req]
    BY <2>1, <2>2, <2>3 DEF PacketStep, QuietEffect, AnsweredEffect, UnansweredEffect, Adds, Drops
  <2> QED BY <2>2, <2>4 DEF SubjectInv, Subject
<1>6. CASE BeginsEffect
  <2>1. Live' = Live /\ Subject' = Subject
    BY <1>6 DEF BeginsEffect, Patched, Live, Subject
  <2> QED BY <1>1, <1>6, <2>1 DEF BeginsEffect, SubjectInv
<1>7. CASE ReleasesEffect
  BY <1>7 DEF ReleasesEffect, SubjectInv
<1> QED BY <1>2, <1>3, <1>4, <1>5, <1>6, <1>7, StepCases

LEMMA PhaseKept ==
  ASSUME IInv, Next
  PROVE  PhaseInv'
<1>1. PhaseInv
  BY DEF IInv
<1>2. CASE PlainEffect
  BY <1>1, <1>2 DEF PlainEffect, PhaseInv
<1>3. CASE Prepares
  BY <1>1, <1>3, PreparesCases DEF PreparesEffect, PhaseInv, IInv
<1>4. CASE AcceptedStep
  BY <1>1, <1>4 DEF AcceptedStep, AcceptedEffect, Joined, PhaseInv
<1>5. CASE \E p \in Packets : PacketStep(p)
  BY <1>1, <1>5 DEF PacketStep, PacketEffect, Patched, PhaseInv
<1>6. CASE BeginsEffect
  BY <1>1, <1>6, ClientFields DEF BeginsEffect, Patched, PhaseInv, IInv
<1>7. CASE ReleasesEffect
  BY <1>1, <1>7, ClientFields DEF ReleasesEffect, Left, PhaseInv, IInv
<1> QED BY <1>2, <1>3, <1>4, <1>5, <1>6, <1>7, StepCases

LEMMA StopKept ==
  ASSUME IInv, Next
  PROVE  StopInv'
<1>1. TypeOK /\ PlaceInv /\ SubjectInv
  BY DEF IInv
<1>2. CASE Plain
  <2>1. CASE AcceptFailed
    BY <2>1 DEF AcceptFailed, Handling, requests, StopInv
  <2>2. CASE ~AcceptFailed
    <3>1. pc' # "stopped"
      BY <1>2, <2>2 DEF Plain, Submit, Completion, NextCqe, LoopEnds, Recycle, TouchFreed, PeerGone,
                        GotData, DataEnds
    <3> QED BY <3>1 DEF StopInv
  <2> QED BY <2>1, <2>2
<1>3. CASE Prepares
  <2>1. pc' # "stopped" \/ overflowed' = TRUE
    BY <1>1, <1>3, PreparesCases
  <2> QED BY <2>1 DEF StopInv
<1>4. CASE AcceptedStep
  BY <1>4 DEF AcceptedStep, AcceptedEffect, StopInv
<1>5. CASE \E p \in Packets : PacketStep(p)
  <2>1. pc' # "stopped" \/ overflowed' = TRUE
    BY <1>5 DEF PacketStep, QuietEffect, AnsweredEffect, UnansweredEffect, Drops
  <2> QED BY <2>1 DEF StopInv
<1>6. CASE BeginsEffect \/ ReleasesEffect
  BY <1>6 DEF BeginsEffect, ReleasesEffect, StopInv
<1> QED BY <1>2, <1>3, <1>4, <1>5, <1>6, StepCases

LEMMA RecycleKept ==
  ASSUME IInv, Next
  PROVE  RecycleInv'
<1>1. TypeOK /\ PlaceInv /\ SubjectInv /\ RecvInv
  BY DEF IInv
<1>2. CASE PlainEffect
  BY <1>2 DEF PlainEffect, RecycleInv
<1>3. CASE Prepares
  <2>1. cqe' = cqe /\ client' = client /\ Live' = Live
    BY <1>1, <1>3, PreparesCases DEF PreparesEffect, Live
  <2>2. pc' = "recycle" => req'[cqe'.req] = req[cqe.req]
    <3>1. pc' = "recycle" => cqe.req \in Pending
      BY <1>1, <1>3, PreparesCases DEF PlaceInv, Busy, Pending
    <3> QED BY <1>1, <1>3, <2>1, <3>1, PreparesCases DEF PreparesEffect, Adds, Drops
  <2>3. CASE pc = "arm_accept"
    BY <1>1, <2>2, <2>3 DEF SubjectInv, RecycleInv
  <2>4. CASE pc = "rearm"
    <3>1. cqe.req \in Working /\ req[cqe.req].type = "recv" /\ Subject \in Live
      BY <1>1, <2>4 DEF Working, Pending, PlaceInv, Busy, SubjectInv
    <3>2. req[cqe.req].buf = client[Subject].buf
      BY <1>1, <3>1 DEF RecvInv, Subject, Live
    <3> QED BY <2>1, <2>2, <3>1, <3>2 DEF RecycleInv
  <2> QED BY <1>1, <1>3, <2>3, <2>4, PreparesCases DEF RecycleInv
<1>4. CASE AcceptedStep
  BY <1>4 DEF AcceptedStep, AcceptedEffect, RecycleInv
<1>5. CASE \E p \in Packets : PacketStep(p)
  BY <1>5 DEF PacketStep, QuietEffect, AnsweredEffect, UnansweredEffect, RecycleInv
<1>6. CASE BeginsEffect
  BY <1>6 DEF BeginsEffect, RecycleInv
<1>7. CASE ReleasesEffect
  <2>1. req' = req /\ cqe' = cqe
    BY <1>7 DEF ReleasesEffect
  <2>2. CASE pc = "disconnect"
    <3>1. cqe.req \in Working /\ Subject \in Live /\ req[cqe.req].type \in {"recv", "send"}
          /\ tcpPool' = tcpPool \cup {client[Subject].buf}
      BY <1>1, <1>7, <2>2 DEF Working, Pending, PlaceInv, Busy, SubjectInv, ReleasesEffect
    <3>2. req[cqe.req].type = "recv" => req[cqe.req].buf = client[Subject].buf
      BY <1>1, <3>1 DEF RecvInv, Subject, Live
    <3>3. req[cqe.req].type = "send" => cqe.res = "gone"
      BY <1>1, <2>2 DEF SubjectInv
    <3> QED BY <2>1, <3>1, <3>2, <3>3 DEF RecycleInv
  <2>3. CASE pc # "disconnect"
    BY <1>7, <2>1, <2>3 DEF ReleasesEffect, RecycleInv
  <2> QED BY <2>2, <2>3
<1> QED BY <1>2, <1>3, <1>4, <1>5, <1>6, <1>7, StepCases

\* The list: what AddTail and Del do to the nodes in use.
LEMMA ListKept ==
  ASSUME IInv, Next
  PROVE  ListInv'
<1>1. ListInv /\ TypeOK /\ Live \subseteq Client /\ None \notin Client
  BY ClientFields DEF IInv, None
<1>2. CASE list' = list /\ Live' = Live
  BY <1>1, <1>2 DEF ListInv
<1>3. CASE AcceptedStep
  <2>1. PICK c \in Client : list' = L!AddTail(list, c) /\ Live' = Live \cup {c}
    BY <1>3 DEF AcceptedStep, AcceptedEffect, Joined
  <2>2. /\ list'.next = [list.next EXCEPT ![c] = None, ![None] = c]
        /\ list'.prev = [list.prev EXCEPT ![None] = c, ![c] = None]
    BY <2>1 DEF L!AddTail
  <2> QED BY <1>1, <2>1, <2>2 DEF ListInv
<1>4. CASE ReleasesEffect /\ pc = "disconnect"
  <2> DEFINE c == Subject
  <2>1. c \in Live /\ list' = L!Del(list, c) /\ Live' = Live \ {c}
    BY <1>4 DEF ReleasesEffect, Left
  <2> HIDE DEF c
  <2>2. list.next[c] = None /\ list.prev[c] = None
    BY <1>1, <2>1 DEF ListInv
  <2>3. /\ list'.next = [list.next EXCEPT ![None] = None, ![c] = MaxClients + 1]
        /\ list'.prev = [list.prev EXCEPT ![None] = None, ![c] = MaxClients + 1]
    BY <2>1, <2>2 DEF L!Del
  <2> QED BY <1>1, <2>1, <2>3 DEF ListInv
<1>5. CASE PlainEffect
  BY <1>2, <1>5 DEF PlainEffect, Live
<1>6. CASE Prepares
  BY <1>2, <1>6, PreparesCases DEF PreparesEffect, Live, IInv
<1>7. CASE \E p \in Packets : PacketStep(p)
  BY <1>2, <1>7 DEF PacketStep, PacketEffect, Patched
<1>8. CASE BeginsEffect
  BY <1>2, <1>8 DEF BeginsEffect, Patched, Live
<1>9. CASE ReleasesEffect /\ pc # "disconnect"
  BY <1>2, <1>9 DEF ReleasesEffect, Live
<1> QED BY <1>3, <1>4, <1>5, <1>6, <1>7, <1>8, <1>9, StepCases

-----------------------------------------------------------------------------
(* What listens.                                                           *)

LEMMA WorkingFields ==
  ASSUME TypeOK
  PROVE  /\ Working \subseteq Pending /\ Pending \subseteq Request
         /\ \A r \in Pending : req[r].client \in Client \cup {None}
         /\ pc # "recycle" => Working = Pending
         /\ pc' = "recycle" => cqe.req \notin WorkingWith(None)
BY DEF TypeOK, Working, Pending, WorkingWith

\* What a step that prepares content leaves of the requests that count: all but the
\* completed one if it is done with, and the new one if there was room.
PreparedEffect(content) ==
  /\ UNCHANGED <<client, sendFailed, cqe>>
  /\ \/ pc = "start" /\ pc' = "submit" /\ content = AcceptContent
     \/ pc = "arm_new" /\ pc' \in {"arm_accept", "stopped"} /\ content = RecvOf(Subject)
     \/ pc = "arm_accept" /\ pc' \in {"recycle", "stopped"} /\ content = AcceptContent
     \/ pc = "rearm" /\ pc' = "recycle" /\ content = RecvOf(Subject)
  /\ pc' = "recycle" => cqe.req \notin Working'
  /\ \A r \in Working : r \in Working' \/ (r = cqe.req /\ pc' = "recycle")
  /\ \A r \in Working \cap Working' : req'[r] = req[r]
  /\ \/ /\ overflowed' = overflowed /\ pc' # "stopped"
        /\ \E n \in Working' \ Working : Working' \subseteq Working \cup {n} /\ req'[n] = content
     \/ overflowed' = TRUE /\ Working' \subseteq Working

LEMMA PreparedWorking ==
  ASSUME IInv, Prepares
  PROVE  \E content : PreparedEffect(content)
<1>1. TypeOK /\ PlaceInv /\ SubjectInv
  BY DEF IInv
<1>2. PICK content :
        /\ PreparesEffect(content)
        /\ \/ pc = "start" /\ pc' = "submit" /\ content = AcceptContent
           \/ pc = "arm_new" /\ pc' \in {"arm_accept", "stopped"} /\ content = RecvOf(Subject)
           \/ pc = "arm_accept" /\ pc' \in {"recycle", "stopped"} /\ content = AcceptContent
           \/ pc = "rearm" /\ pc' = "recycle" /\ content = RecvOf(Subject)
  BY <1>1, PreparesCases
<1>3. UNCHANGED <<client, sendFailed, cqe>> /\ pc # "recycle" /\ Working = Pending
  BY <1>2 DEF PreparesEffect, Working
<1>4. CASE (\E n \in Request : Adds(n, content) /\ Working' = WorkingWith(n)) /\ pc' # "stopped"
  <2>1. PICK n \in Request : Adds(n, content) /\ Working' = WorkingWith(n)
    BY <1>4
  <2>2. n \notin Pending /\ req'[n] = content /\ overflowed' = overflowed
        /\ (\A r \in Pending : req'[r] = req[r])
    BY <2>1 DEF Adds
  <2>3. pc' = "recycle" => cqe.req \in Pending
    BY <1>1, <1>2 DEF PlaceInv, Busy, Pending
  <2>4. n \in Working' \ Working /\ Working' \subseteq Working \cup {n}
    BY <1>3, <2>1, <2>2, <2>3 DEF WorkingWith
  <2>5. /\ pc' = "recycle" => cqe.req \notin Working'
        /\ \A r \in Working : r \in Working' \/ (r = cqe.req /\ pc' = "recycle")
    BY <2>1 DEF WorkingWith
  <2> QED BY <1>2, <1>3, <1>4, <2>2, <2>4, <2>5 DEF PreparedEffect
<1>5. CASE Drops /\ Working' = Working \ (IF pc' = "recycle" THEN {cqe.req} ELSE {})
  BY <1>2, <1>3, <1>5 DEF Drops, PreparedEffect
<1> QED BY <1>2, <1>4, <1>5 DEF PreparesEffect

LEMMA AcceptKept ==
  ASSUME IInv, Next
  PROVE  AcceptInv'
<1>1. TypeOK /\ PlaceInv /\ SubjectInv /\ AcceptInv
  BY DEF IInv
<1>2. ASSUME pc # "start", overflowed' = FALSE => overflowed = FALSE,
             \A r \in Working' : req'[r].type = "accept" => r \in Working /\ req[r].type = "accept",
             \A r \in Working : req[r].type = "accept" => r \in Working' /\ req'[r].type = "accept"
      PROVE  AcceptInv'
  BY <1>1, <1>2 DEF AcceptInv, TypeOK
<1>3. CASE PlainEffect
  BY <1>1, <1>2, <1>3, WorkingFields DEF PlainEffect, Working
<1>4. CASE Prepares
  <2>1. PICK content : PreparedEffect(content)
    BY <1>4, PreparedWorking
  <2>2. AcceptContent.type = "accept" /\ RecvOf(Subject).type = "recv"
    BY DEF AcceptContent, RecvOf
  <2>3. CASE pc \in {"arm_new", "rearm"}
    <3>1. pc = "rearm" => req[cqe.req].type = "recv"
      BY <1>1 DEF SubjectInv
    <3>2. \A r \in Working : req[r].type = "accept" => r \in Working' /\ req'[r] = req[r]
      BY <2>1, <2>3, <3>1 DEF PreparedEffect
    <3>3. \A r \in Working' : req'[r].type = "accept" => r \in Working /\ req[r] = req'[r]
      BY <2>1, <2>2, <2>3 DEF PreparedEffect
    <3> QED BY <1>2, <2>1, <2>3, <3>2, <3>3 DEF PreparedEffect
  <2>4. CASE pc = "start"
    <3>1. Working = {}
      BY <1>1, <2>4 DEF PlaceInv, Working
    <3> QED BY <1>1, <2>1, <2>2, <2>4, <3>1 DEF PreparedEffect, AcceptInv, TypeOK
  <2>5. CASE pc = "arm_accept"
    <3>1. cqe.req \in Working /\ req[cqe.req].type = "accept"
      BY <1>1, <2>5 DEF SubjectInv, PlaceInv, Busy, Working, Pending
    <3>2. \A r \in Working : req[r].type = "accept" => r = cqe.req
      BY <1>1, <3>1 DEF AcceptInv
    <3>3. CASE pc' = "recycle"
      BY <1>1, <2>1, <2>2, <2>5, <3>2, <3>3 DEF PreparedEffect, AcceptInv, TypeOK
    <3>4. CASE pc' # "recycle"
      BY <1>1, <2>1, <2>2, <2>5, <3>4 DEF PreparedEffect, AcceptInv, TypeOK
    <3> QED BY <3>3, <3>4
  <2> QED BY <2>1, <2>3, <2>4, <2>5 DEF PreparedEffect
<1>5. CASE AcceptedStep
  <2>1. PICK c \in Client, b \in Buffer : AcceptedEffect(c, b)
    BY <1>5 DEF AcceptedStep
  <2>2. Working = Pending /\ Working' = Pending /\ overflowed' = overflowed /\ pc # "start"
    BY <2>1 DEF AcceptedEffect, Working
  <2>3. \A r \in Pending : req'[r].type = req[r].type
    BY <1>1, <2>1, WorkingFields DEF AcceptedEffect
  <2> QED BY <1>2, <2>2, <2>3
<1>6. CASE \E p \in Packets : PacketStep(p)
  <2>1. PICK p \in Packets : PacketStep(p)
    BY <1>6
  <2>2. pc = "parse" /\ Working = Pending
    BY <2>1 DEF PacketStep, PacketEffect, Working
  <2>3. CASE req' = req /\ Working' = Working /\ (overflowed' = FALSE => overflowed = FALSE)
    BY <1>2, <2>2, <2>3
  <2>4. CASE AnsweredEffect(TakeBuffer(sendPool))
    <3>1. PICK n \in Request : Adds(n, ReplyOf(TakeBuffer(sendPool))) /\ Working' = Working \cup {n}
      BY <2>4 DEF AnsweredEffect
    <3>2. req'[n].type = "send" /\ overflowed' = overflowed /\ n \notin Working
          /\ (\A r \in Working : req'[r] = req[r])
      BY <2>2, <3>1 DEF Adds, ReplyOf
    <3> QED BY <1>2, <2>2, <3>1, <3>2
  <2> QED BY <2>1, <2>3, <2>4 DEF PacketStep, QuietEffect, UnansweredEffect, Drops
<1>7. CASE BeginsEffect
  BY <1>2, <1>7 DEF BeginsEffect
<1>8. CASE ReleasesEffect
  <2>1. req[cqe.req].type # "accept"
    BY <1>1, <1>8 DEF ReleasesEffect, SubjectInv
  <2> QED BY <1>2, <1>8, <2>1 DEF ReleasesEffect
<1> QED BY <1>3, <1>4, <1>5, <1>6, <1>7, <1>8, StepCases

\* The recvs that count are the same as before.
RecvsStay ==
  /\ \A r \in Working' : req'[r].type = "recv" => r \in Working /\ req'[r] = req[r]
  /\ \A r \in Working : req[r].type = "recv" => r \in Working' /\ req'[r] = req[r]

LEMMA StepsKeepRecvs ==
  ASSUME IInv, PlainEffect \/ AcceptedStep \/ (\E p \in Packets : PacketStep(p)) \/ BeginsEffect
  PROVE  RecvsStay
<1>1. TypeOK /\ PlaceInv /\ SubjectInv
  BY DEF IInv
<1>2. CASE PlainEffect
  BY <1>1, <1>2, WorkingFields DEF PlainEffect, Working, RecvsStay
<1>3. CASE AcceptedStep
  <2>1. PICK c \in Client, b \in Buffer : AcceptedEffect(c, b)
    BY <1>3 DEF AcceptedStep
  <2>2. Working = Pending /\ Working' = Pending /\ req[cqe.req].type = "accept"
    BY <2>1 DEF AcceptedEffect, Working
  <2>3. \A r \in Pending : r # cqe.req => req'[r] = req[r]
    BY <1>1, <2>1, WorkingFields DEF AcceptedEffect
  <2>4. req'[cqe.req].type = "accept"
    BY <2>1 DEF AcceptedEffect
  <2> QED BY <2>2, <2>3, <2>4 DEF RecvsStay
<1>4. CASE \E p \in Packets : PacketStep(p)
  <2>1. PICK p \in Packets : PacketStep(p)
    BY <1>4
  <2>2. pc = "parse" /\ Working = Pending
    BY <2>1 DEF PacketStep, PacketEffect, Working
  <2>3. CASE req' = req /\ Working' = Working
    BY <2>3 DEF RecvsStay
  <2>4. CASE AnsweredEffect(TakeBuffer(sendPool))
    <3>1. PICK n \in Request : Adds(n, ReplyOf(TakeBuffer(sendPool))) /\ Working' = Working \cup {n}
      BY <2>4 DEF AnsweredEffect
    <3>2. req'[n].type = "send" /\ n \notin Working /\ (\A r \in Working : req'[r] = req[r])
      BY <2>2, <3>1 DEF Adds, ReplyOf
    <3> QED BY <3>1, <3>2 DEF RecvsStay
  <2> QED BY <2>1, <2>3, <2>4 DEF PacketStep, QuietEffect, UnansweredEffect, Drops
<1>5. CASE BeginsEffect
  BY <1>5 DEF BeginsEffect, RecvsStay
<1> QED BY <1>2, <1>3, <1>4, <1>5

\* Every client of a recv that counts is as before but for its phase and its packet.
ClientsStay(S) ==
  \A c \in S : client'[c].life = client[c].life /\ client'[c].buf = client[c].buf

LEMMA RecvClient ==
  ASSUME IInv, NEW r \in Working, req[r].type = "recv"
  PROVE  r \in Pending /\ req[r].client \in Client /\ client[req[r].client].life # "unused"
BY WorkingFields DEF IInv, ContentInv

LEMMA RecvKept ==
  ASSUME IInv, Next
  PROVE  RecvInv'
<1>1. TypeOK /\ PlaceInv /\ SubjectInv /\ RecvInv
  BY DEF IInv
<1>2. ASSUME RecvsStay, ClientsStay(Used), sendFailed = TRUE => sendFailed' = TRUE
      PROVE  RecvInv'
  <2>1. ASSUME NEW r \in Working', req'[r].type = "recv"
        PROVE  /\ r \in Working /\ req'[r] = req[r] /\ req[r].type = "recv"
               /\ client'[req[r].client].life = client[req[r].client].life
               /\ client'[req[r].client].buf = client[req[r].client].buf
    <3>1. r \in Working /\ req'[r] = req[r] /\ req[r].type = "recv"
      BY <1>2, <2>1 DEF RecvsStay
    <3>2. req[r].client \in Used
      BY <3>1, RecvClient DEF Used
    <3> QED BY <1>2, <3>1, <3>2 DEF ClientsStay
  <2>2. ~sendFailed' => ~sendFailed
    BY <1>1, <1>2 DEF TypeOK
  <2> QED BY <1>1, <2>1, <2>2 DEF RecvInv
<1>3. CASE PlainEffect
  <2>1. ClientsStay(Used)
    BY <1>3 DEF PlainEffect, ClientsStay
  <2> QED BY <1>2, <1>3, <2>1, StepsKeepRecvs DEF PlainEffect
<1>4. CASE AcceptedStep
  <2>1. ClientsStay(Used) /\ sendFailed' = sendFailed
    BY <1>4 DEF AcceptedStep, AcceptedEffect, Joined, ClientsStay, Used
  <2> QED BY <1>2, <1>4, <2>1, StepsKeepRecvs
<1>5. CASE \E p \in Packets : PacketStep(p)
  <2>1. ClientsStay(Used) /\ sendFailed' = sendFailed
    BY <1>5 DEF PacketStep, PacketEffect, Patched, ClientsStay, Used
  <2> QED BY <1>2, <1>5, <2>1, StepsKeepRecvs
<1>6. CASE BeginsEffect
  <2>1. ClientsStay(Used) /\ sendFailed' = sendFailed
    BY <1>6 DEF BeginsEffect, Patched, ClientsStay, Used
  <2> QED BY <1>2, <1>6, <2>1, StepsKeepRecvs
<1>7. CASE Prepares
  <2>1. PICK content : PreparedEffect(content)
    BY <1>7, PreparedWorking
  <2>2. CASE pc \in {"start", "arm_accept"}
    <3>1. content.type = "accept" /\ content = AcceptContent
      BY <2>1, <2>2 DEF PreparedEffect, AcceptContent
    <3>2. \A r \in Working' : req'[r].type = "recv" => r \in Working /\ req'[r] = req[r]
      BY <2>1, <3>1 DEF PreparedEffect
    <3>3. client' = client /\ sendFailed' = sendFailed
      BY <2>1 DEF PreparedEffect
    <3> QED BY <1>1, <3>2, <3>3 DEF RecvInv
  <2>3. CASE pc \in {"arm_new", "rearm"}
    <3>1. content = RecvOf(Subject) /\ Subject \in Live
      BY <1>1, <2>1, <2>3 DEF PreparedEffect, SubjectInv
    <3>2. content.client = Subject /\ content.buf = client[Subject].buf
      BY <3>1 DEF RecvOf
    <3>3. client' = client /\ sendFailed' = sendFailed
      BY <2>1 DEF PreparedEffect
    <3>4. ASSUME NEW r \in Working \cap Working', req[r].type = "recv"
          PROVE  req[r].client # Subject
      <4>1. CASE pc = "arm_new"
        BY <1>1, <3>4, <4>1, WorkingFields DEF SubjectInv
      <4>2. CASE pc = "rearm"
        <5>1. cqe.req \in Working /\ req[cqe.req].type = "recv" /\ cqe.req \notin Working'
          BY <1>1, <2>1, <4>2 DEF SubjectInv, PlaceInv, Busy, Working, Pending, PreparedEffect
        <5> QED BY <1>1, <3>4, <5>1 DEF RecvInv, Subject
      <4> QED BY <2>3, <4>1, <4>2
    <3>5. client[Subject].life = "live"
      BY <3>1 DEF Live
    <3>6. \A r \in Working' : (r \in Working /\ req'[r] = req[r]) \/ (r \notin Working /\ req'[r] = content)
      BY <2>1 DEF PreparedEffect
    <3>7. \A r, s \in Working' \ Working : r = s
      BY <2>1 DEF PreparedEffect
    <3>8. \A r \in Working' : req'[r].type = "recv" =>
            /\ client'[req'[r].client].life = "live" => req'[r].buf = client'[req'[r].client].buf
            /\ ~sendFailed' => client'[req'[r].client].life = "live"
      BY <1>1, <3>2, <3>3, <3>5, <3>6 DEF RecvInv
    <3>9. \A r, s \in Working' :
            req'[r].type = "recv" /\ req'[s].type = "recv" /\ req'[r].client = req'[s].client => r = s
      BY <1>1, <3>2, <3>4, <3>6, <3>7 DEF RecvInv
    <3> QED BY <3>8, <3>9 DEF RecvInv
  <2> QED BY <2>1, <2>2, <2>3 DEF PreparedEffect
<1>8. CASE ReleasesEffect
  <2>1. req' = req /\ Working' = Working \ {cqe.req} /\ cqe.req \in Working /\ sendFailed' = sendFailed
    BY <1>8 DEF ReleasesEffect, Working
  <2>2. CASE pc # "disconnect"
    <3>1. client' = client
      BY <1>8, <2>2 DEF ReleasesEffect
    <3> QED BY <1>1, <2>1, <3>1 DEF RecvInv
  <2>3. CASE pc = "disconnect"
    <3>1. Subject \in Live /\ Left(Subject) /\ req[cqe.req].type \in {"recv", "send"}
      BY <1>1, <1>8, <2>3 DEF ReleasesEffect, SubjectInv
    <3>2. req[cqe.req].type = "send" => sendFailed' = TRUE
      BY <1>1, <2>1, <2>3 DEF SubjectInv, TypeOK
    <3>3. req[cqe.req].type = "recv" =>
            \A r \in Working' : req[r].type = "recv" => req[r].client # Subject
      BY <1>1, <2>1 DEF RecvInv, Subject
    <3>4. \A d \in Client : d # Subject => client'[d] = client[d]
      BY <3>1 DEF Left
    <3>5. client'[Subject].life = "freed"
      BY <3>1 DEF Left
    <3>6. \A r \in Working' : req[r].type = "recv" => r \in Working /\ req[r].client \in Client
      BY <2>1, RecvClient
    <3>7. \A r \in Working' : req[r].type = "recv" =>
            /\ client'[req[r].client].life = "live" => req[r].buf = client'[req[r].client].buf
            /\ ~sendFailed' => client'[req[r].client].life = "live"
      <4> SUFFICES ASSUME NEW r \in Working', req[r].type = "recv"
                   PROVE  /\ client'[req[r].client].life = "live" => req[r].buf = client'[req[r].client].buf
                          /\ ~sendFailed' => client'[req[r].client].life = "live"
        OBVIOUS
      <4>1. CASE req[r].client = Subject
        BY <3>1, <3>2, <3>3, <3>5, <4>1
      <4>2. CASE req[r].client # Subject
        BY <1>1, <2>1, <3>4, <3>6, <4>2 DEF RecvInv
      <4> QED BY <4>1, <4>2
    <3> QED BY <1>1, <2>1, <3>7 DEF RecvInv
  <2> QED BY <2>2, <2>3
<1> QED BY <1>3, <1>4, <1>5, <1>6, <1>7, <1>8, StepCases

LEMMA ListenKept ==
  ASSUME IInv, Next
  PROVE  ListenInv'
<1>1. TypeOK /\ PlaceInv /\ SubjectInv /\ ListenInv
  BY DEF IInv
<1>2. ASSUME RecvsStay, Live' = Live, pc # "arm_new", overflowed' = FALSE => overflowed = FALSE
      PROVE  ListenInv'
  BY <1>1, <1>2 DEF ListenInv, RecvsStay, TypeOK
<1>3. CASE PlainEffect
  <2>1. Live' = Live
    BY <1>3 DEF PlainEffect, Live
  <2> QED BY <1>2, <1>3, <2>1, StepsKeepRecvs DEF PlainEffect
<1>4. CASE AcceptedStep
  <2>1. PICK c \in Client, b \in Buffer : AcceptedEffect(c, b)
    BY <1>4 DEF AcceptedStep
  <2>2. /\ Live' = Live \cup {c} /\ pc' = "arm_new" /\ Subject' = c /\ overflowed' = overflowed
        /\ pc # "arm_new" /\ RecvsStay
    BY <1>4, <2>1, StepsKeepRecvs DEF AcceptedEffect, Joined, Subject
  <2> QED BY <1>1, <2>2 DEF ListenInv, RecvsStay
<1>5. CASE \E p \in Packets : PacketStep(p)
  <2>1. Live' = Live /\ pc # "arm_new" /\ (overflowed' = FALSE => overflowed = FALSE)
    BY <1>5 DEF PacketStep, PacketEffect, Patched, QuietEffect, AnsweredEffect, UnansweredEffect, Adds, Drops
  <2> QED BY <1>2, <1>5, <2>1, StepsKeepRecvs
<1>6. CASE BeginsEffect
  <2>1. Live' = Live /\ pc # "arm_new" /\ overflowed' = overflowed
    BY <1>6 DEF BeginsEffect, Patched, Live
  <2> QED BY <1>2, <1>6, <2>1, StepsKeepRecvs
<1>7. CASE Prepares
  <2>1. PICK content : PreparedEffect(content)
    BY <1>7, PreparedWorking
  <2>2. Live' = Live
    BY <2>1 DEF PreparedEffect, Live
  <2>3. CASE overflowed' = TRUE
    BY <2>3 DEF ListenInv
  <2>4. CASE overflowed' # TRUE
    <3>1. PICK n \in Working' \ Working : req'[n] = content /\ overflowed' = overflowed
      BY <2>1, <2>4 DEF PreparedEffect
    <3>2. ~overflowed
      BY <1>1, <2>4, <3>1 DEF TypeOK
    <3>3. CASE pc \in {"arm_new", "rearm"}
      <4>1. req'[n].type = "recv" /\ req'[n].client = Subject /\ n \in Working'
        BY <2>1, <3>1, <3>3 DEF PreparedEffect, RecvOf
      <4>2. \A r \in Working : (r \in Working' /\ req'[r] = req[r]) \/ r = cqe.req
        BY <2>1, <3>3 DEF PreparedEffect
      <4>3. ASSUME NEW c \in Live, c # Subject
            PROVE  \E r \in Working' : req'[r].type = "recv" /\ req'[r].client = c
        <5>1. PICK r \in Working : req[r].type = "recv" /\ req[r].client = c
          BY <1>1, <3>2, <4>3 DEF ListenInv
        <5>2. r # cqe.req
          BY <4>3, <5>1 DEF Subject
        <5> QED BY <4>2, <5>1, <5>2
      <4> QED BY <2>2, <4>1, <4>3 DEF ListenInv
    <3>4. CASE pc \in {"start", "arm_accept"}
      <4>1. pc = "arm_accept" => req[cqe.req].type = "accept"
        BY <1>1 DEF SubjectInv
      <4>2. \A r \in Working : req[r].type = "recv" => r \in Working' /\ req'[r] = req[r]
        BY <2>1, <3>4, <4>1 DEF PreparedEffect
      <4> QED BY <1>1, <2>2, <3>2, <3>4, <4>2 DEF ListenInv
    <3> QED BY <2>1, <3>3, <3>4 DEF PreparedEffect
  <2> QED BY <2>3, <2>4
<1>8. CASE ReleasesEffect
  <2>1. req' = req /\ Working' = Working \ {cqe.req} /\ pc # "arm_new" /\ overflowed' = overflowed
    BY <1>8 DEF ReleasesEffect
  <2>2. CASE pc = "disconnect"
    <3>1. Live' = Live \ {Subject}
      BY <1>8, <2>2 DEF ReleasesEffect, Left
    <3> QED BY <1>1, <2>1, <3>1 DEF ListenInv, Subject
  <2>3. CASE pc # "disconnect"
    <3>1. req[cqe.req].type = "send" /\ Live' = Live
      BY <1>8, <2>3 DEF ReleasesEffect, Live
    <3> QED BY <1>1, <2>1, <3>1 DEF ListenInv
  <2> QED BY <2>2, <2>3
<1> QED BY <1>3, <1>4, <1>5, <1>6, <1>7, <1>8, StepCases

-----------------------------------------------------------------------------
(* Buffers have one use.                                                   *)

\* BufferInv with its definitions.
Uses ==
  /\ sendPool \cap tcpPool = {}
  /\ \A r \in Sending : req[r].buf \notin sendPool \cup tcpPool
  /\ \A c \in Live : client[c].buf \notin sendPool \cup tcpPool
  /\ \A c \in Piecing : client[c].partial \notin sendPool \cup tcpPool
  /\ \A r \in Sending, c \in Piecing : req[r].buf # client[c].partial
  /\ \A r, s \in Sending : r # s => req[r].buf # req[s].buf
  /\ \A c, d \in Live : c # d => client[c].buf # client[d].buf
  /\ \A c, d \in Piecing : c # d => client[c].partial # client[d].partial
  /\ \A c \in Live, d \in Piecing : client[c].buf # client[d].partial
  /\ \A c \in Live, r \in Sending : client[c].buf # req[r].buf

LEMMA BufferUses ==
  BufferInv <=> Uses
BY DEF BufferInv, BufferExclusive, Uses, Sending, Piecing, Working

\* A buffer just taken is used by nobody.
LEMMA FreshUnused ==
  ASSUME TypeOK, MapInv, Uses, NEW p, p \in {tcpPool, sendPool, {}}, NEW b, Fresh(b, p)
  PROVE  /\ p = tcpPool => b \notin sendPool
         /\ p = sendPool => b \notin tcpPool
         /\ p = {} => b \notin sendPool \cup tcpPool
         /\ \A c \in Live : client[c].buf # b
         /\ \A c \in Piecing : client[c].partial # b
         /\ \A r \in Sending : req[r].buf # b
<1>0. mapped \in Nat /\ mapped + 1 \notin 1 .. mapped /\ mapped + 1 \notin 0 .. mapped
  BY ServerAssumption DEF TypeOK
<1>1. CASE b \in p
  BY <1>1 DEF Uses
<1>2. CASE p = {} /\ b = mapped + 1
  <2>1. \A r \in Sending : req[r].buf \in 1 .. mapped
    BY DEF MapInv, Sending, Working
  <2>2. \A c \in Piecing : client[c].partial \in 0 .. mapped
    BY DEF MapInv, Piecing
  <2> QED BY <1>0, <1>2, <2>1, <2>2 DEF MapInv
<1> QED BY <1>1, <1>2 DEF Fresh

\* The replies that count are some of those before.
RepliesStay == \A r \in Sending' : r \in Sending /\ req'[r].buf = req[r].buf

LEMMA PrepareKeepsReplies ==
  ASSUME IInv, Prepares
  PROVE  RepliesStay /\ UNCHANGED <<client, tcpPool, sendPool>>
<1>1. PICK content : PreparedEffect(content)
  BY PreparedWorking
<1>2. content.type # "send"
  BY <1>1 DEF PreparedEffect, AcceptContent, RecvOf
<1>3. \A r \in Working' : req'[r].type = "send" => r \in Working /\ req'[r] = req[r]
  BY <1>1, <1>2 DEF PreparedEffect
<1>4. UNCHANGED <<client, tcpPool, sendPool>>
  BY PreparesCases DEF PreparesEffect, IInv
<1> QED BY <1>3, <1>4 DEF RepliesStay, Sending

\* The subject's pieces are given back, which nothing else uses.
LEMMA PiecesDone ==
  ASSUME TypeOK, MapInv, Uses, NEW ph, Subject \in Live, Patched(Subject, ph, None)
  PROVE  /\ Live' = Live /\ Piecing' = Piecing \ {Subject}
         /\ \A c \in Live : client'[c].buf = client[c].buf
         /\ \A c \in Piecing' : client'[c].partial = client[c].partial
         /\ \A b \in Done(Subject) : /\ b \notin sendPool \cup tcpPool
                                     /\ \A r \in Sending : req[r].buf # b
                                     /\ \A c \in Live : client[c].buf # b
                                     /\ \A c \in Piecing' : client[c].partial # b
<1>1. /\ Live' = Live /\ client'[Subject].partial = None /\ Subject \in Client
      /\ \A d \in Client : d # Subject => client'[d] = client[d]
      /\ \A d \in Client : client'[d].buf = client[d].buf
  BY ClientFields DEF Patched
<1>2. Piecing' = Piecing \ {Subject}
  BY <1>1, ClientFields DEF Piecing
<1>3. \A c \in Piecing' : c \in Piecing /\ c # Subject /\ client'[c].partial = client[c].partial
  BY <1>1, <1>2, ClientFields DEF Piecing
<1>4. \A b \in Done(Subject) : b = client[Subject].partial /\ Subject \in Piecing
  BY DEF Done, Piecing
<1> QED BY <1>1, <1>2, <1>3, <1>4, ClientFields DEF Uses

LEMMA UsesKept ==
  ASSUME IInv, Next
  PROVE  Uses'
<1>1. TypeOK /\ PlaceInv /\ SubjectInv /\ MapInv /\ Uses
  BY BufferUses DEF IInv
<1>2. ASSUME RepliesStay, UNCHANGED <<client, tcpPool, sendPool>>
      PROVE  Uses'
  <2>1. Live' = Live /\ Piecing' = Piecing
    BY <1>2 DEF Live, Piecing
  <2> QED BY <1>1, <1>2, <2>1 DEF Uses, RepliesStay
<1>3. CASE PlainEffect
  <2>1. RepliesStay
    BY <1>1, <1>3, WorkingFields DEF PlainEffect, RepliesStay, Sending, Working
  <2> QED BY <1>2, <1>3, <2>1 DEF PlainEffect
<1>4. CASE Prepares
  BY <1>2, <1>4, PrepareKeepsReplies
<1>5. CASE AcceptedStep
  <2>1. PICK c \in Client, b \in Buffer : AcceptedEffect(c, b)
    BY <1>5 DEF AcceptedStep
  <2>2. /\ Fresh(b, tcpPool) /\ tcpPool' = tcpPool \ {b} /\ sendPool' = sendPool
        /\ c \notin Live /\ Live' = Live \cup {c} /\ client'[c].buf = b
        /\ \A d \in Live : client'[d] = client[d]
    BY <2>1, ClientFields, <1>1 DEF AcceptedEffect, Joined
  <2>3. client'[c].partial = None
    BY <1>1, <2>1, <2>2 DEF AcceptedEffect, Joined, MapInv
  <2>4. Piecing' = Piecing
    BY <2>2, <2>3 DEF Piecing
  <2>5. \A d \in Piecing : client'[d].partial = client[d].partial
    BY <2>2 DEF Piecing
  <2>6. Sending' = Sending /\ \A r \in Sending : req'[r].buf = req[r].buf
    <3>1. Working' = Working /\ Working = Pending
      BY <2>1 DEF AcceptedEffect, Working
    <3>2. \A r \in Pending : req'[r].type = req[r].type /\ req'[r].buf = req[r].buf
      BY <1>1, <2>1, WorkingFields DEF AcceptedEffect
    <3> QED BY <3>1, <3>2 DEF Sending
  <2>7. /\ b \notin sendPool
        /\ \A d \in Live : client[d].buf # b
        /\ \A d \in Piecing : client[d].partial # b
        /\ \A r \in Sending : req[r].buf # b
    BY <1>1, <2>2, FreshUnused
  <2> QED BY <1>1, <2>2, <2>4, <2>5, <2>6, <2>7 DEF Uses
<1>6. CASE \E p \in Packets : PacketStep(p)
  <2>1. PICK p \in Packets : PacketStep(p)
    BY <1>6
  <2> DEFINE b == TakeBuffer(sendPool)
             D == Done(Subject)
  <2>2. Subject \in Live /\ tcpPool' = tcpPool /\ Working = Pending
        /\ \E ph : Patched(Subject, ph, None)
    BY <2>1 DEF PacketStep, PacketEffect, Working
  <2>3. /\ Live' = Live /\ Piecing' = Piecing \ {Subject}
        /\ \A c \in Live : client'[c].buf = client[c].buf
        /\ \A c \in Piecing' : client'[c].partial = client[c].partial
        /\ \A x \in D : /\ x \notin sendPool \cup tcpPool
                        /\ \A r \in Sending : req[r].buf # x
                        /\ \A c \in Live : client[c].buf # x
                        /\ \A c \in Piecing' : client[c].partial # x
    BY <1>1, <2>2, PiecesDone
  <2>4. Fresh(b, sendPool) => /\ b \notin tcpPool
                              /\ \A d \in Live : client[d].buf # b
                              /\ \A d \in Piecing : client[d].partial # b
                              /\ \A r \in Sending : req[r].buf # b
    BY <1>1, FreshUnused
  <2>5. b \notin D \/ ~Fresh(b, sendPool)
    BY <2>2, <2>4 DEF Done, Piecing, D
  <2> HIDE DEF b, D
  <2>6. CASE QuietEffect
    <3>1. sendPool' = sendPool \cup D
      BY <2>6 DEF QuietEffect, D
    <3>2. Sending' = Sending /\ req' = req
      BY <2>6 DEF QuietEffect, Sending
    <3> QED BY <1>1, <2>2, <2>3, <3>1, <3>2 DEF Uses
  <2>7. CASE AnsweredEffect(b)
    <3>1. Fresh(b, sendPool) /\ sendPool' = (sendPool \ {b}) \cup D
      BY <2>7 DEF AnsweredEffect, D
    <3>2. PICK n \in Request : Adds(n, ReplyOf(b)) /\ Working' = Working \cup {n}
      BY <2>7 DEF AnsweredEffect
    <3>3. n \notin Working /\ req'[n].type = "send" /\ req'[n].buf = b
          /\ (\A r \in Working : req'[r] = req[r])
      BY <2>2, <3>2 DEF Adds, ReplyOf
    <3>4. n \notin Sending /\ Sending' = Sending \cup {n} /\ \A r \in Sending : req'[r].buf = req[r].buf
      BY <3>2, <3>3 DEF Sending
    <3> QED BY <1>1, <2>2, <2>3, <2>4, <2>5, <3>1, <3>3, <3>4 DEF Uses
  <2>8. CASE UnansweredEffect(b)
    <3>1. Fresh(b, sendPool) /\ \/ sendPool' = (sendPool \ {b}) \cup D
                                \/ sendPool' = sendPool \cup {b} \cup D
      BY <2>8 DEF UnansweredEffect, D
    <3>2. Sending' = Sending /\ req' = req
      BY <2>8 DEF UnansweredEffect, Drops, Sending
    <3> QED BY <1>1, <2>2, <2>3, <2>4, <3>1, <3>2 DEF Uses
  <2> QED BY <2>1, <2>6, <2>7, <2>8 DEF PacketStep, b
<1>7. CASE BeginsEffect
  <2>1. RepliesStay
    BY <1>7 DEF BeginsEffect, RepliesStay, Sending
  <2>2. CASE UNCHANGED client
    BY <1>2, <1>7, <2>1, <2>2 DEF BeginsEffect
  <2>3. CASE ~UNCHANGED client
    <3>1. /\ Fresh(mapped + 1, {}) /\ Patched(Subject, client[Subject].phase, mapped + 1)
          /\ Subject \in Live /\ client[Subject].partial = None /\ UNCHANGED <<tcpPool, sendPool>>
      BY <1>7, <2>3 DEF BeginsEffect
    <3>2. /\ Live' = Live /\ client'[Subject].partial = mapped + 1 /\ Subject \in Client
          /\ \A c \in Client : c # Subject => client'[c] = client[c]
          /\ \A c \in Client : client'[c].buf = client[c].buf
      BY <1>1, <3>1, ClientFields DEF Patched
    <3>3. /\ mapped + 1 \notin sendPool \cup tcpPool
          /\ \A c \in Live : client[c].buf # mapped + 1
          /\ \A c \in Piecing : client[c].partial # mapped + 1
          /\ \A r \in Sending : req[r].buf # mapped + 1
      BY <1>1, <3>1, FreshUnused
    <3>4. /\ \A c \in Piecing' : c \in Live /\ (c = Subject \/ c \in Piecing)
          /\ \A c \in Piecing' : c # Subject => client'[c].partial = client[c].partial
      BY <1>1, <3>2, ClientFields DEF Piecing
    <3>5. \A c \in Live : client'[c].buf = client[c].buf
      BY <1>1, <3>2, ClientFields
    <3> QED BY <1>1, <2>1, <3>1, <3>2, <3>3, <3>4, <3>5 DEF Uses, RepliesStay
  <2> QED BY <2>2, <2>3
<1>8. CASE ReleasesEffect
  <2>1. RepliesStay /\ (\A r \in Sending' : r # cqe.req)
    BY <1>8 DEF ReleasesEffect, RepliesStay, Sending
  <2>2. CASE pc = "disconnect"
    <3>1. /\ Subject \in Live /\ Live' = Live \ {Subject}
          /\ tcpPool' = tcpPool \cup {client[Subject].buf} /\ sendPool' = sendPool
          /\ \A d \in Client : d # Subject => client'[d] = client[d]
      BY <1>8, <2>2 DEF ReleasesEffect, Left
    <3>2. \A d \in Live' : d \in Live /\ d # Subject /\ client'[d] = client[d]
      BY <1>1, <3>1, ClientFields
    <3>3. \A d \in Piecing' : d \in Live' /\ d \in Piecing
      BY <3>2 DEF Piecing
    <3> QED BY <1>1, <2>1, <3>1, <3>2, <3>3 DEF Uses, RepliesStay
  <2>3. CASE pc # "disconnect"
    <3>1. /\ UNCHANGED <<client, tcpPool>> /\ sendPool' = sendPool \cup {req[cqe.req].buf}
          /\ req[cqe.req].type = "send" /\ cqe.req \in Pending /\ pc # "recycle"
      BY <1>8, <2>3 DEF ReleasesEffect
    <3>2. cqe.req \in Sending
      BY <3>1 DEF Sending, Working
    <3>3. Live' = Live /\ Piecing' = Piecing
      BY <3>1 DEF Live, Piecing
    <3> QED BY <1>1, <2>1, <3>1, <3>2, <3>3 DEF Uses, RepliesStay
  <2> QED BY <2>2, <2>3
<1> QED BY <1>3, <1>4, <1>5, <1>6, <1>7, <1>8, StepCases

-----------------------------------------------------------------------------
(* The invariant.                                                          *)

LEMMA InitIInv ==
  Init => IInv
<1> SUFFICES ASSUME Init PROVE IInv
  OBVIOUS
<1>0. None \notin Request /\ None \notin Client
  BY DEF None, Request, Client
<1>1. /\ Pending = {} /\ Working = {} /\ Live = {} /\ Used = {} /\ Sending = {} /\ Piecing = {}
  BY DEF Init, Pending, Working, Live, Used, Sending, Piecing, NoCqe, Unborn
<1>2. TypeOK
  <2>1. Cardinality({}) = 0
    BY FS_EmptySet
  <2>2. RingOK
    <3>1. Blank \in RequestType
      BY DEF Blank, RequestType
    <3>2. Cardinality(sq) <= SqEntries
      BY <2>1, ServerAssumption DEF Init
    <3>3. nreq \in 0 .. MaxRequests /\ overflowed \in BOOLEAN
      <4>1. nreq = 0 /\ overflowed = FALSE
        BY Zenon DEF Init
      <4>2. overflowed \in BOOLEAN
        BY <4>1, Zenon
      <4>3. nreq \in 0 .. MaxRequests
        BY <4>1, ServerAssumption
      <4> QED BY <4>2, <4>3
    <3>4. req \in [Request -> RequestType]
      BY <3>1 DEF Init
    <3> QED BY <3>2, <3>3, <3>4 DEF Init, RingOK
  <2>3. RestOK
    <3>1. Unborn \in ClientType
      BY DEF Unborn, ClientType, Phase
    <3>2. NoCqe \in [req : Request \cup {None}, res : {"none", "ok", "gone"}]
      BY DEF NoCqe
    <3>3. parsed \in 0 .. MaxPackets /\ sendFailed \in BOOLEAN
      <4>1. parsed = 0 /\ sendFailed = FALSE
        BY Zenon DEF Init
      <4>2. sendFailed \in BOOLEAN
        BY <4>1, Zenon
      <4>3. parsed \in 0 .. MaxPackets
        BY <4>1, ServerAssumption
      <4> QED BY <4>2, <4>3
    <3>4. client \in [Client -> ClientType]
      BY <3>1 DEF Init
    <3> QED BY <3>2, <3>3, <3>4 DEF Init, RestOK
  <2>4. BuffersOK
    BY ServerAssumption DEF Init, BuffersOK
  <2> QED BY <2>2, <2>3, <2>4, TypeSplits
<1>3. PlaceInv
  BY <1>0, <1>1 DEF Init, PlaceInv, RequestExclusive, Busy, NoCqe
<1>4. MapInv
  <2>1. Cardinality(Used) = 0
    BY <1>1, FS_EmptySet
  <2>2. \A c \in Client : client[c].partial = None
    BY DEF Init, Unborn
  <2> QED BY <1>1, <2>1, <2>2, ServerAssumption DEF Init, MapInv
<1>5. BufferInv
  BY <1>1, BufferUses DEF Init, Uses
<1>6. ListInv
  <2>1. /\ list.next = [n \in Client \cup {None} |-> IF n = None THEN None ELSE MaxClients + 1]
        /\ list.prev = [n \in Client \cup {None} |-> IF n = None THEN None ELSE MaxClients + 1]
    BY DEF Init, L!EmptyList
  <2> QED BY <1>1, <2>1 DEF ListInv
<1>7. PhaseInv /\ SubjectInv /\ RecycleInv /\ StopInv
  BY DEF Init, PhaseInv, SubjectInv, RecycleInv, StopInv, Unborn
<1>8. ContentInv /\ RecvInv /\ ListenInv /\ AcceptInv
  BY <1>1 DEF Init, ContentInv, RecvInv, ListenInv, AcceptInv
<1> QED BY <1>2, <1>3, <1>4, <1>5, <1>6, <1>7, <1>8 DEF IInv

LEMMA NextIInv ==
  IInv /\ [Next]_vars => IInv'
<1> SUFFICES ASSUME IInv, [Next]_vars PROVE IInv'
  OBVIOUS
<1>1. CASE Next
  <2>1. TypeOK' /\ PlaceInv' /\ SubjectInv' /\ ContentInv'
    BY <1>1, TypeKept, PlaceKept, SubjectKept, ContentKept DEF IInv
  <2>2. RecvInv' /\ ListenInv' /\ AcceptInv'
    BY <1>1, RecvKept, ListenKept, AcceptKept
  <2>3. MapInv' /\ Uses'
    BY <1>1, MapKept, UsesKept
  <2>4. BufferInv'
    BY <2>3 DEF BufferInv, BufferExclusive, Uses, Sending, Piecing, Working
  <2>5. PhaseInv' /\ ListInv' /\ RecycleInv' /\ StopInv'
    BY <1>1, PhaseKept, ListKept, RecycleKept, StopKept
  <2> QED BY <2>1, <2>2, <2>3, <2>4, <2>5 DEF IInv
<1>2. CASE UNCHANGED vars
  <2>1. UNCHANGED <<pc, cqe, parsed, pool, nreq, req, sq, inflight, client, list, mapped, tcpPool,
                    sendPool, overflowed, sendFailed>>
    BY <1>2 DEF vars, requests, ring, buffers, history
  <2>2. TypeOK' /\ PlaceInv' /\ SubjectInv' /\ ContentInv'
    BY <2>1 DEF IInv, TypeOK, PlaceInv, RequestExclusive, Pending, Busy, SubjectInv, Subject, Live, ContentInv
  <2>3. RecvInv' /\ ListenInv' /\ AcceptInv'
    BY <2>1 DEF IInv, RecvInv, ListenInv, AcceptInv, Working, Pending, Live, Subject
  <2>4. MapInv'
    BY <2>1 DEF IInv, MapInv, Used, Live, Pending
  <2>5. BufferInv'
    BY <2>1 DEF IInv, BufferInv, BufferExclusive, Piecing, Sending, Working, Pending, Live
  <2>6. PhaseInv' /\ ListInv' /\ RecycleInv' /\ StopInv'
    BY <2>1 DEF IInv, PhaseInv, ListInv, RecycleInv, StopInv, Live
  <2> QED BY <2>2, <2>3, <2>4, <2>5, <2>6 DEF IInv
<1> QED BY <1>1, <1>2

\* The invariant that everything below follows from.
THEOREM Invariance ==
  Spec => []IInv
BY InitIInv, NextIInv, PTL DEF Spec

\* Whatever the clients, the kernel and the order of the completions: every request
\* and every buffer has one owner at a time.
THEOREM EveryOwnerIsOne ==
  Spec => []Ownership
<1>1. IInv => Ownership
  BY DEF IInv, Ownership, PlaceInv, BufferInv
<1> QED BY <1>1, Invariance, PTL

\* A connected client has at most one recv under way, and one at least as long as
\* the submission queue never lacked room.
THEOREM ClientsListenOnce ==
  Spec => []OneRecvPerClient
<1>1. ASSUME IInv, Settled, NEW c \in Live
      PROVE  Cardinality(Fields("recv", c)) <= 1 /\ (~overflowed => Fields("recv", c) # {})
  <2>1. Working = Pending /\ pc # "arm_new"
    BY <1>1 DEF Settled, Working
  <2>2. \A r, s \in Fields("recv", c) : r = s
    BY <1>1, <2>1 DEF IInv, RecvInv, Fields
  <2>3. ~overflowed => Fields("recv", c) # {}
    BY <1>1, <2>1 DEF IInv, ListenInv, Fields
  <2>4. CASE Fields("recv", c) = {}
    BY <2>3, <2>4, FS_EmptySet
  <2>5. CASE Fields("recv", c) # {}
    <3>1. PICK r : Fields("recv", c) = {r}
      BY <2>2, <2>5
    <3>2. Cardinality({r}) = 1
      BY FS_Singleton
    <3>3. Cardinality(Fields("recv", c)) = 1
      BY <3>1, <3>2
    <3> QED BY <2>3, <3>3
  <2> QED BY <2>4, <2>5
<1>2. IInv => OneRecvPerClient
  BY <1>1 DEF OneRecvPerClient
<1> QED BY <1>2, Invariance, PTL

\* While the server runs there is always one accept under way, unless the submission
\* queue had no room for it.
THEOREM ServerListens ==
  Spec => []AlwaysAccepting
<1> DEFINE A == {r \in Pending : req[r].type = "accept"}
<1>1. ASSUME IInv, Settled, ~overflowed
      PROVE  Cardinality(A) = 1
  <2>1. Working = Pending /\ pc # "start"
    BY <1>1 DEF Settled, Working
  <2>2. PICK r : A = {r}
    BY <1>1, <2>1 DEF IInv, AcceptInv
  <2> QED BY <2>2, FS_Singleton
<1>2. IInv => AlwaysAccepting
  BY <1>1 DEF AlwaysAccepting
<1> QED BY <1>2, Invariance, PTL

\* Only a failed accept stops the server, unless the submission queue had no room;
\* and no client ever gets into a phase that the dispatch asserts against.
THEOREM NoClientStopsIt ==
  Spec => []ClientsCannotStop
<1>1. ASSUME IInv
      PROVE  StateIsHandled
  <2>1. \A c \in Live : client[c].phase \in {HANDSHAKING, STATUS, LOGIN}
    BY <1>1, ClientFields DEF IInv, PhaseInv
  <2> QED BY <2>1 DEF StateIsHandled, DispatchError
<1>2. IInv => ClientsCannotStop
  BY <1>1 DEF ClientsCannotStop, IInv, StopInv
<1> QED BY <1>2, Invariance, PTL

\* No pointer of the list, which list_add_tail breaks, leads to a client that was freed.
THEOREM NothingDangles ==
  Spec => []ListNeverDangles
<1>1. IInv => ListNeverDangles
  BY DEF IInv, ListInv, ListNeverDangles
<1> QED BY <1>1, Invariance, PTL

\* As long as no client was dropped for a failed send, the kernel receives into no
\* buffer that is free.
THEOREM QuietBuffers ==
  Spec => []QuietUnlessSendFailed
<1>1. ASSUME IInv, ~sendFailed, NEW r \in sq \cup inflight, req[r].type = "recv"
      PROVE  req[r].buf \notin tcpPool
  <2>1. r \in Working
    BY <1>1 DEF IInv, PlaceInv, RequestExclusive, Working, Pending
  <2>2. req[r].client \in Client
    BY <1>1, <2>1, RecvClient
  <2>3. req[r].client \in Live /\ req[r].buf = client[req[r].client].buf
    BY <1>1, <2>1, <2>2 DEF IInv, RecvInv, Live
  <2>4. Uses
    BY <1>1, BufferUses DEF IInv
  <2> QED BY <2>3, <2>4 DEF Uses
<1>2. IInv => QuietUnlessSendFailed
  BY <1>1 DEF QuietUnlessSendFailed
<1> QED BY <1>2, Invariance, PTL

-----------------------------------------------------------------------------
(* What is lost.                                                           *)

\* The buffers that something refers to.
Referred == sendPool \cup tcpPool \cup {client[c].buf : c \in Live}
              \cup {client[c].partial : c \in Live} \cup {req[r].buf : r \in Pending}

\* The three ways to lose the buffer b.
Loses(b) ==
  \/ pc = "disconnect" /\ b = client[Subject].partial
  \/ pc = "recycle" /\ req[cqe.req].type = "send" /\ cqe.res = "gone" /\ b = req[cqe.req].buf
  \/ pc = "parse" /\ b = TakeBuffer(sendPool) /\ Cardinality(sq) = SqEntries

\* A step finds no buffer again, and loses only these.
LosesOnly ==
  /\ 1 .. mapped \subseteq 1 .. mapped'
  /\ Referred' \cap (1 .. mapped) \subseteq Referred
  /\ \A b \in 1 .. mapped' : b \notin Referred' => (b \in 1 .. mapped /\ b \notin Referred) \/ Loses(b)

LEMMA PlainLoses ==
  ASSUME IInv, PlainEffect
  PROVE  LosesOnly
<1>1. /\ mapped' = mapped /\ Live' = Live /\ UNCHANGED <<client, tcpPool, sendPool>>
      /\ Pending' \subseteq Pending /\ \A r \in Pending' : req'[r] = req[r]
  BY DEF PlainEffect, Live
<1>2. Referred' \subseteq Referred
  BY <1>1 DEF Referred
<1>3. ASSUME NEW b \in 1 .. mapped, b \in Referred, b \notin Referred'
      PROVE  Loses(b)
  <2>1. PICK r \in Pending : b = req[r].buf /\ r \notin Pending'
    BY <1>1, <1>3 DEF Referred
  <2>2. pc = "recycle" /\ r = cqe.req
    BY <2>1 DEF PlainEffect, Working
  <2>3. b # None
    BY DEF None
  <2>4. req[cqe.req].type # "accept"
    BY <2>1, <2>2, <2>3 DEF IInv, ContentInv
  <2>5. b \notin tcpPool \cup sendPool \cup {client[c].buf : c \in Live}
    BY <1>1, <1>3 DEF Referred
  <2> QED BY <2>1, <2>2, <2>4, <2>5 DEF IInv, RecycleInv, Loses
<1> QED BY <1>1, <1>2, <1>3 DEF LosesOnly

LEMMA PreparesLoses ==
  ASSUME IInv, Prepares
  PROVE  LosesOnly
<1>1. PICK content : /\ PreparesEffect(content)
                     /\ \/ content = AcceptContent
                        \/ content = RecvOf(Subject) /\ Subject \in Live
  BY PreparesCases DEF IInv
<1>2. /\ mapped' = mapped /\ Live' = Live /\ UNCHANGED <<client, tcpPool, sendPool>>
  BY <1>1 DEF PreparesEffect, Live
<1>3. content.buf = None \/ content.buf \in Referred
  BY <1>1 DEF AcceptContent, RecvOf, Referred
<1>4. /\ \A r \in Pending : r \in Pending' /\ req'[r] = req[r]
      /\ \A r \in Pending' : (r \in Pending /\ req'[r] = req[r]) \/ req'[r] = content
  BY <1>1 DEF PreparesEffect, Adds, Drops
<1>5. Referred \subseteq Referred'
  BY <1>2, <1>4 DEF Referred
<1>6. Referred' \subseteq Referred \cup {None}
  BY <1>2, <1>3, <1>4 DEF Referred
<1>7. None \notin 1 .. mapped
  BY DEF None
<1> QED BY <1>2, <1>5, <1>6, <1>7 DEF LosesOnly

LEMMA AcceptedLoses ==
  ASSUME IInv, AcceptedStep
  PROVE  LosesOnly
<1>1. PICK c \in Client, b \in Buffer : AcceptedEffect(c, b)
  BY DEF AcceptedStep
<1>2. /\ Fresh(b, tcpPool) /\ tcpPool' = tcpPool \ {b} /\ sendPool' = sendPool
      /\ c \notin Live /\ Live' = Live \cup {c} /\ client'[c].buf = b
      /\ \A d \in Live : client'[d] = client[d]
  BY <1>1, ClientFields DEF AcceptedEffect, Joined, IInv
<1>3. client'[c].partial = None
  BY <1>1, <1>2 DEF AcceptedEffect, Joined, MapInv, IInv
<1>4. Pending' = Pending /\ \A r \in Pending : req'[r].buf = req[r].buf
  BY <1>1, WorkingFields DEF AcceptedEffect, IInv
<1>5. Referred' = (Referred \ {b}) \cup {b, None}
  <2>1. Referred' \subseteq Referred \cup {b, None}
    BY <1>2, <1>3, <1>4 DEF Referred
  <2>2. Referred \subseteq Referred'
    <3>1. b \in Referred'
      BY <1>2 DEF Referred
    <3> QED BY <1>2, <1>4, <3>1 DEF Referred
  <2>3. b \in Referred' /\ None \in Referred'
    BY <1>2, <1>3 DEF Referred
  <2> QED BY <2>1, <2>2, <2>3
<1>6. mapped \in Nat /\ None \notin 1 .. mapped /\ 1 .. mapped \subseteq 1 .. mapped'
  BY <1>2, MappedGrows, ServerAssumption DEF IInv, TypeOK, None
<1>7. CASE b \in tcpPool /\ mapped' = mapped
  <2>1. b \in Referred
    BY <1>7 DEF Referred
  <2> QED BY <1>5, <1>6, <1>7, <2>1 DEF LosesOnly
<1>8. CASE b = mapped + 1 /\ mapped' = mapped + 1
  <2>1. \A x \in 1 .. mapped' : x = b \/ x \in 1 .. mapped
    BY <1>6, <1>8
  <2>2. b \notin 1 .. mapped
    BY <1>6, <1>8
  <2> QED BY <1>5, <1>6, <2>1, <2>2 DEF LosesOnly
<1> QED BY <1>2, <1>7, <1>8 DEF Fresh

LEMMA PacketLoses ==
  ASSUME IInv, NEW p \in Packets, PacketStep(p)
  PROVE  LosesOnly
<1> DEFINE b == TakeBuffer(sendPool)
           D == Done(Subject)
<1>1. pc = "parse" /\ Subject \in Live /\ tcpPool' = tcpPool /\ \E ph : Patched(Subject, ph, None)
  BY DEF PacketStep, PacketEffect
<1>2. mapped \in Nat /\ None \notin 1 .. mapped
  BY ServerAssumption DEF IInv, TypeOK, None
<1>3. TypeOK /\ MapInv /\ Uses
  BY BufferUses DEF IInv
<1>4. /\ Live' = Live /\ \A c \in Live : client'[c].buf = client[c].buf
      /\ \A c \in Live : c # Subject => client'[c].partial = client[c].partial
      /\ client'[Subject].partial = None
  BY <1>1, <1>3, ClientFields DEF Patched
<1>5. D = {client[Subject].partial} \ {None}
  BY DEF Done
<1>6. Fresh(b, sendPool) => 1 .. mapped \subseteq 1 .. mapped'
  BY <1>3, MappedGrows
<1> HIDE DEF b, D
<1> DEFINE Rest == tcpPool \cup {client[c].buf : c \in Live} \cup {client[c].partial : c \in Live \ {Subject}}
           Reqs == {req[r].buf : r \in Pending}
<1>7. Referred \cup {None} = sendPool \cup Rest \cup D \cup Reqs \cup {None}
  BY <1>1, <1>5 DEF Referred
<1>8. Referred' = sendPool' \cup Rest \cup {None} \cup {req'[r].buf : r \in Pending'}
  BY <1>1, <1>4 DEF Referred
<1> HIDE DEF Rest
<1>9. CASE QuietEffect
  <2>1. mapped' = mapped /\ Referred' = Referred \cup {None}
    BY <1>7, <1>8, <1>9 DEF QuietEffect, D
  <2> QED BY <1>2, <2>1 DEF LosesOnly
<1>10. CASE AnsweredEffect(b)
  <2>1. Fresh(b, sendPool) /\ sendPool' = (sendPool \ {b}) \cup D
    BY <1>10 DEF AnsweredEffect, D
  <2>2. PICK n \in Request : Adds(n, ReplyOf(b))
    BY <1>10 DEF AnsweredEffect
  <2>3. {req'[r].buf : r \in Pending'} = Reqs \cup {b}
    BY <2>2 DEF Adds, ReplyOf
  <2>4. Referred' = Referred \cup {None, b}
    BY <1>7, <1>8, <2>1, <2>3
  <2> QED BY <1>2, <1>6, <2>1, <2>4 DEF LosesOnly, Fresh, Referred
<1>11. CASE UnansweredEffect(b)
  <2>1. Fresh(b, sendPool) /\ \/ sendPool' = (sendPool \ {b}) \cup D
                              \/ sendPool' = sendPool \cup {b} \cup D
    BY <1>11 DEF UnansweredEffect, D
  <2>2. {req'[r].buf : r \in Pending'} = Reqs /\ Cardinality(sq) = SqEntries
    BY <1>11 DEF UnansweredEffect, Drops
  <2>3. Loses(b)
    BY <1>1, <2>2 DEF Loses, b
  <2>4. Referred' \cup {b} = Referred \cup {None, b}
    BY <1>7, <1>8, <2>1, <2>2
  <2>5. b \in Referred' \cap (1 .. mapped) => b \in Referred
    BY <1>2, <2>1 DEF Fresh, Referred
  <2>6. \A x \in 1 .. mapped' : x = b \/ x \in 1 .. mapped
    BY <1>2, <2>1 DEF Fresh
  <2>7. Referred' \cap (1 .. mapped) \subseteq Referred
    BY <1>2, <2>4, <2>5
  <2>8. ASSUME NEW x \in 1 .. mapped', x \notin Referred', x # b
        PROVE  x \in 1 .. mapped /\ x \notin Referred
    BY <2>4, <2>6, <2>8
  <2> QED BY <1>6, <2>1, <2>3, <2>7, <2>8 DEF LosesOnly
<1> QED BY <1>9, <1>10, <1>11 DEF PacketStep, b

LEMMA BeginsLoses ==
  ASSUME IInv, BeginsEffect
  PROVE  LosesOnly
<1>1. mapped \in Nat /\ TypeOK /\ UNCHANGED <<tcpPool, sendPool, req>> /\ Pending' = Pending
  BY ServerAssumption DEF IInv, TypeOK, BeginsEffect
<1>2. CASE UNCHANGED <<client, mapped>>
  <2>1. Referred' = Referred /\ mapped' = mapped
    BY <1>1, <1>2 DEF Referred, Live
  <2> QED BY <2>1 DEF LosesOnly
<1>3. CASE ~UNCHANGED <<client, mapped>>
  <2>1. /\ Fresh(mapped + 1, {}) /\ Patched(Subject, client[Subject].phase, mapped + 1)
        /\ Subject \in Live /\ client[Subject].partial = None
    BY <1>3 DEF BeginsEffect
  <2>2. /\ mapped' = mapped + 1 /\ Live' = Live /\ client'[Subject].partial = mapped + 1
        /\ \A c \in Live : client'[c].buf = client[c].buf
        /\ \A c \in Live : c # Subject => client'[c].partial = client[c].partial
    BY <1>1, <2>1, ClientFields DEF Patched, Fresh
  <2>3. Referred' \subseteq Referred \cup {mapped + 1} /\ mapped + 1 \in Referred'
    BY <1>1, <2>1, <2>2 DEF Referred
  <2>4. Referred \subseteq Referred' \cup {None}
    BY <1>1, <2>1, <2>2 DEF Referred
  <2>5. None \notin 1 .. mapped' /\ mapped + 1 \notin 1 .. mapped /\ 1 .. mapped \subseteq 1 .. mapped'
    BY <1>1, <2>2 DEF None
  <2>6. \A x \in 1 .. mapped' : x = mapped + 1 \/ x \in 1 .. mapped
    BY <1>1, <2>2
  <2> QED BY <2>3, <2>4, <2>5, <2>6 DEF LosesOnly
<1> QED BY <1>2, <1>3

LEMMA ReleasesLoses ==
  ASSUME IInv, ReleasesEffect
  PROVE  LosesOnly
<1>1. mapped' = mapped /\ req' = req /\ Pending' = Pending /\ cqe.req \in Pending
  BY DEF ReleasesEffect
<1>2. CASE pc = "disconnect"
  <2>1. /\ Subject \in Live /\ Live' = Live \ {Subject}
        /\ tcpPool' = tcpPool \cup {client[Subject].buf} /\ sendPool' = sendPool
        /\ \A d \in Client : d # Subject => client'[d] = client[d]
    BY <1>2 DEF ReleasesEffect, Left
  <2>2. \A d \in Live' : d \in Live /\ d # Subject /\ client'[d] = client[d]
    BY <2>1, ClientFields DEF IInv
  <2>3. \A d \in Live : d = Subject \/ d \in Live'
    BY <2>1
  <2>4. Referred' \subseteq Referred
    BY <1>1, <2>1, <2>2 DEF Referred
  <2>5. Referred \subseteq Referred' \cup {client[Subject].partial}
    BY <1>1, <2>1, <2>2, <2>3 DEF Referred
  <2>6. Loses(client[Subject].partial)
    BY <1>2 DEF Loses
  <2> QED BY <1>1, <2>4, <2>5, <2>6 DEF LosesOnly
<1>3. CASE pc # "disconnect"
  <2>1. /\ UNCHANGED <<client, tcpPool>> /\ sendPool' = sendPool \cup {req[cqe.req].buf}
    BY <1>3 DEF ReleasesEffect
  <2>2. Referred' = Referred
    BY <1>1, <2>1 DEF Referred, Live
  <2> QED BY <1>1, <2>2 DEF LosesOnly
<1> QED BY <1>2, <1>3

\* Buffers are lost for good, and only with a client that leaves in the middle of a
\* packet, with a reply that could not be sent or with one that was not queued.
THEOREM WhatIsLost ==
  Spec => BuffersLost
<1>1. ASSUME IInv, Next
      PROVE  LosesOnly
  BY <1>1, StepCases, PlainLoses, PreparesLoses, AcceptedLoses, PacketLoses, BeginsLoses, ReleasesLoses
<1>2. Lost = (1 .. mapped) \ Referred
  BY DEF Lost, Referred
<1>3. ASSUME IInv, [Next]_vars
      PROVE  [/\ Lost \subseteq Lost'
              /\ \A b \in Lost' \ Lost :
                   \/ pc = "disconnect" /\ b = client[Subject].partial
                   \/ pc = "recycle" /\ req[cqe.req].type = "send" /\ cqe.res = "gone"
                         /\ b = req[cqe.req].buf
                   \/ pc = "parse" /\ b = TakeBuffer(sendPool) /\ Cardinality(sq) = SqEntries]_vars
  <2>1. CASE Next
    <3>1. LosesOnly
      BY <1>1, <1>3, <2>1
    <3>2. Lost' = (1 .. mapped') \ Referred'
      BY DEF Lost, Referred
    <3>3. Lost \subseteq Lost'
      BY <1>2, <3>1, <3>2 DEF LosesOnly
    <3>4. \A b \in Lost' \ Lost : Loses(b)
      BY <1>2, <3>1, <3>2 DEF LosesOnly
    <3> QED BY <3>3, <3>4 DEF Loses
  <2>2. CASE UNCHANGED vars
    BY <2>2
  <2> QED BY <1>3, <2>1, <2>2
<1> QED BY <1>3, Invariance, PTL DEF BuffersLost, Spec
=============================================================================
