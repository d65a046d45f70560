-------------------------- MODULE TickArenaProofs --------------------------
(***************************************************************************)
(* What holds of src/minecraft/tick_arena.c for every arena size, every    *)
(* width of size_t, every set of array sizes and any number of arrays in a *)
(* packet.                                                                 *)
(***************************************************************************)
EXTENDS TickArena, Integers, TLAPS

GameInside == gpc \in {"swap", "read", "advise", "clear", "leave"}
NetInside  == npc \in {"point", "count", "leave"}

\* The program counters and the lock agree, and whoever is inside is at the
\* head of a queue that is not empty.
LockInv ==
  /\ "game" \in inside <=> GameInside
  /\ "net" \in inside <=> NetInside
  /\ ~(GameInside /\ NetInside)
  /\ inside # {} => queue # <<>>

\* An allocation that passed its comparison fits.
StoreFits == npc = "store" => nSize \in Sizes /\ nPtr + nSize <= MaxSize

\* There are arrays only while a packet is parsed and processed.
ChunksOpen == npc \notin {"use", "store", "load"} => chunks = <<>>

\* What each step needs of a packet into which no switch fell: it is in the
\* current arena, which the game loop leaves alone.
Unhit ==
  /\ InPacket => nArena = cur
  /\ npc = "store" => nPtr = offset[nArena]
  /\ ~lost
  /\ \A i \in DOMAIN chunks : /\ chunks[i].arena = nArena
                              /\ chunks[i].at + chunks[i].size <= offset[nArena]
  /\ \A i, j \in DOMAIN chunks : i # j => ~Overlap(chunks[i], chunks[j])

\* As long as there was no switch in a packet, what was counted is given back.
Uncrossed ==
  /\ ~hit
  /\ npc = "drop" => nRet = nArena
  /\ \A a \in Arena : users[a] = Holders(a)

Base == TypeOK /\ LockInv /\ StoreFits /\ PointersDistinct

IInv == /\ Base
        /\ GetIsCurrent
        /\ UsersConserved
        /\ ChunksOpen
        /\ ~hit => Unhit
        /\ ~crossed => Uncrossed

-----------------------------------------------------------------------------
\* size_t arithmetic below 2 W, without the remainder.
LEMMA ModBelow ==
  ASSUME NEW x \in 0 .. W - 1
  PROVE  x % W = x
BY ArenaAssumption, SMT

LEMMA ModAbove ==
  ASSUME NEW x \in W .. 2 * W - 1
  PROVE  x % W = x - W
BY ArenaAssumption, SMT

LEMMA ModType ==
  ASSUME NEW x \in 0 .. 2 * W - 1
  PROVE  x % W \in 0 .. W - 1
<1>1. CASE x \in 0 .. W - 1
  BY <1>1, ModBelow
<1>2. CASE x \in W .. 2 * W - 1
  BY <1>2, ModAbove, ArenaAssumption
<1> QED BY <1>1, <1>2, ArenaAssumption

\* Adding 1 to either counter adds 1 to their sum.
LEMMA SumUp ==
  ASSUME NEW u \in 0 .. W - 1, NEW v \in 0 .. W - 1, (u + v) % W = 0
  PROVE  /\ (((u + 1) % W) + v) % W = 1
         /\ (v + ((u + 1) % W)) % W = 1
<1>1. u + v = 0 \/ u + v = W
  <2>1. CASE u + v < W
    BY <2>1, ModBelow, ArenaAssumption
  <2>2. CASE u + v >= W
    BY <2>2, ModAbove, ArenaAssumption
  <2> QED BY <2>1, <2>2, ArenaAssumption
<1>2. (u + 1) % W = IF u = W - 1 THEN 0 ELSE u + 1
  BY ModBelow, ModAbove, ArenaAssumption
<1>3. ((u + 1) % W) + v = 1 \/ ((u + 1) % W) + v = W + 1
  BY <1>1, <1>2, ArenaAssumption
<1>4. 1 % W = 1 /\ (W + 1) % W = 1
  BY ModBelow, ModAbove, ArenaAssumption
<1>5. ((u + 1) % W) + v = v + ((u + 1) % W)
  BY <1>2, ArenaAssumption
<1> QED BY <1>3, <1>4, <1>5

\* Adding W - 1, which is -1, to either counter takes 1 from their sum.
LEMMA SumDown ==
  ASSUME NEW u \in 0 .. W - 1, NEW v \in 0 .. W - 1, (u + v) % W = 1
  PROVE  /\ (((u + W - 1) % W) + v) % W = 0
         /\ (v + ((u + W - 1) % W)) % W = 0
<1>1. u + v = 1 \/ u + v = W + 1
  <2>1. CASE u + v < W
    BY <2>1, ModBelow, ArenaAssumption
  <2>2. CASE u + v >= W
    BY <2>2, ModAbove, ArenaAssumption
  <2> QED BY <2>1, <2>2, ArenaAssumption
<1>2. (u + W - 1) % W = IF u = 0 THEN W - 1 ELSE u - 1
  <2>1. CASE u = 0
    BY <2>1, ModBelow, ArenaAssumption
  <2>2. CASE u # 0
    <3>1. u + W - 1 \in W .. 2 * W - 1
      BY <2>2, ArenaAssumption
    <3>2. (u + W - 1) % W = (u + W - 1) - W
      BY <3>1, ModAbove
    <3> QED BY <3>2, <2>2, ArenaAssumption
  <2> QED BY <2>1, <2>2
<1>3. ((u + W - 1) % W) + v = 0 \/ ((u + W - 1) % W) + v = W
  BY <1>1, <1>2, ArenaAssumption
<1>4. 0 % W = 0 /\ W % W = 0
  BY ModBelow, ModAbove, ArenaAssumption
<1>5. ((u + W - 1) % W) + v = v + ((u + W - 1) % W)
  BY <1>2, ArenaAssumption
<1> QED BY <1>3, <1>4, <1>5

-----------------------------------------------------------------------------
\* The types, the lock and the pointers, one action after the other.
LEMMA BaseInit == Init => Base
<1> SUFFICES ASSUME Init PROVE Base
  OBVIOUS
<1>1. Lock!LockTypeOK /\ chunks \in Seq(Chunk)
  BY DEF Init, Lock!LockInit, Lock!LockTypeOK
<1>2. 0 \in 0 .. W - 1 /\ 0 \in 0 .. MaxSize
  BY ArenaAssumption
<1>3. TypeOK
  BY <1>1, <1>2 DEF Init, TypeOK, GameSteps, NetSteps, Arena
<1>4. LockInv /\ StoreFits /\ PointersDistinct
  BY DEF Init, LockInv, StoreFits, PointersDistinct, GameInside, NetInside, Lock!LockInit
<1> QED BY <1>3, <1>4 DEF Base

LEMMA GameKeepsBase == Base /\ GameNext => Base'
<1> SUFFICES ASSUME Base, GameNext PROVE Base'
  OBVIOUS
<1> USE ArenaAssumption DEF Base, TypeOK, LockInv, StoreFits, PointersDistinct,
        GameInside, NetInside, GameSteps, NetSteps, Arena, lock, net, history, Lock!LockTypeOK
<1>1. CASE GEnter
  BY <1>1 DEF GEnter, Lock!Arrive
<1>2. CASE GAcquire
  BY <1>2 DEF GAcquire, Lock!Acquire
<1>3. CASE GSwap
  BY <1>3 DEF GSwap
<1>4. CASE GRead
  BY <1>4 DEF GRead
<1>5. CASE GAdvise
  <2>1. lost' \in BOOLEAN /\ gOff' \in 0 .. MaxSize
    BY <1>5 DEF GAdvise
  <2>2. UNCHANGED <<lock, cur, nxt, users, offset, last, gLast, net, hit, crossed>>
    BY <1>5 DEF GAdvise
  <2>3. gpc = "advise" /\ gpc' = "clear"
    BY <1>5 DEF GAdvise
  <2> QED BY <2>1, <2>2, <2>3
<1>6. CASE GClear
  BY <1>6 DEF GClear
<1>7. CASE GLeave
  BY <1>7 DEF GLeave, Lock!Release
<1>8. CASE GWait
  BY <1>8 DEF GWait
<1>9. CASE GSleep
  BY <1>9 DEF GSleep
<1> QED BY <1>1, <1>2, <1>3, <1>4, <1>5, <1>6, <1>7, <1>8, <1>9 DEF GameNext

LEMMA NetKeepsBase == Base /\ NetNext => Base'
<1> SUFFICES ASSUME Base, NetNext PROVE Base'
  OBVIOUS
<1> USE ArenaAssumption DEF Base, TypeOK, LockInv, StoreFits, PointersDistinct,
        GameInside, NetInside, GameSteps, NetSteps, Arena, lock, game, history, Lock!LockTypeOK
<1>1. CASE NEnter
  BY <1>1 DEF NEnter, Lock!Arrive
<1>2. CASE NAcquire
  BY <1>2 DEF NAcquire, Lock!Acquire
<1>3. CASE NPoint
  BY <1>3 DEF NPoint
<1>4. CASE NCount
  <2>1. users' \in [Arena -> 0 .. W - 1]
    <3>1. (users[nArena] + 1) % W \in 0 .. W - 1
      BY users[nArena] \in 0 .. W - 1, users[nArena] + 1 \in 0 .. 2 * W - 1, ModType
    <3> QED BY <1>4, <3>1 DEF NCount
  <2> QED BY <1>4, <2>1 DEF NCount
<1>5. CASE NLeave
  BY <1>5 DEF NLeave, Lock!Release
<1>6. ASSUME NEW s \in Sizes, NAllocLoad(s) PROVE Base'
  BY <1>6 DEF NAllocLoad
<1>7. ASSUME NEW s \in Sizes, NAllocNull(s) PROVE Base'
  BY <1>7 DEF NAllocNull
<1>8. CASE NAllocStore
  <2>1. [arena |-> nArena, at |-> nPtr, size |-> nSize] \in Chunk
    BY <1>8 DEF NAllocStore, Chunk
  <2>2. chunks' \in Seq(Chunk)
    BY <1>8, <2>1 DEF NAllocStore
  <2> QED BY <1>8, <2>2 DEF NAllocStore
<1>9. CASE NDone
  BY <1>9 DEF NDone
<1>10. CASE NReturnLoad
  <2>1. chunks' \in Seq(Chunk)
    BY <1>10 DEF NReturnLoad
  <2> QED BY <1>10, <2>1 DEF NReturnLoad
<1>11. CASE NDrop
  <2>1. users' \in [Arena -> 0 .. W - 1]
    <3>1. (users[nRet] + W - 1) % W \in 0 .. W - 1
      BY users[nRet] \in 0 .. W - 1, users[nRet] + W - 1 \in 0 .. 2 * W - 1, ModType
    <3> QED BY <1>11, <3>1 DEF NDrop
  <2> QED BY <1>11, <2>1 DEF NDrop
<1> QED BY <1>1, <1>2, <1>3, <1>4, <1>5, <1>6, <1>7, <1>8, <1>9, <1>10, <1>11
        DEF NetNext, PacketNext, Alloc
-----------------------------------------------------------------------------
\* The rest of the invariant. The game loop changes neither users nor the
\* packet; it moves the pointers and an arena nobody allocates from.
LEMMA InitInv == Init => IInv
<1> SUFFICES ASSUME Init PROVE IInv
  OBVIOUS
<1>1. Base /\ GetIsCurrent /\ ChunksOpen
  BY BaseInit DEF Init, GetIsCurrent, ChunksOpen
<1>2. UsersConserved
  BY ModBelow, ArenaAssumption DEF Init, UsersConserved, Counted, Arena
<1>3. Unhit /\ Uncrossed
  BY DEF Init, Unhit, Uncrossed, InPacket, Counted, Holders
<1> QED BY <1>1, <1>2, <1>3 DEF IInv

LEMMA GameKeepsInv == IInv /\ GameNext => IInv'
<1> SUFFICES ASSUME IInv, GameNext PROVE IInv'
  OBVIOUS
<1>1. Base'
  BY GameKeepsBase DEF IInv
<1>2. UNCHANGED <<users, net>>
  BY DEF GameNext, GEnter, GAcquire, GSwap, GRead, GAdvise, GClear, GLeave, GWait, GSleep
<1>3. UsersConserved' /\ ChunksOpen'
  BY <1>2 DEF IInv, UsersConserved, ChunksOpen, Counted, net
<1>4. CASE GSwap
  <2>1. npc \notin {"count", "leave"}
    BY <1>4 DEF GSwap, IInv, Base, LockInv, GameInside, NetInside
  <2>2. GetIsCurrent'
    BY <1>2, <2>1 DEF GetIsCurrent, net
  <2>3. ~hit' => Unhit'
    <3> SUFFICES ASSUME ~hit' PROVE Unhit'
      OBVIOUS
    <3>1. Unhit /\ ~InPacket
      BY <1>4 DEF GSwap, IInv
    <3> QED BY <1>2, <1>4, <3>1 DEF GSwap, Unhit, InPacket, net
  <2>4. ~crossed' => Uncrossed'
    BY <1>2, <1>4 DEF GSwap, IInv, Uncrossed, InPacket, Counted, Holders, net
  <2> QED BY <1>1, <1>3, <2>2, <2>3, <2>4 DEF IInv
<1>5. CASE GAdvise
  <2>1. GetIsCurrent'
    BY <1>2, <1>5 DEF GAdvise, IInv, GetIsCurrent, net
  <2>2. ~hit' => Unhit'
    <3> SUFFICES ASSUME ~hit' PROVE Unhit'
      OBVIOUS
    <3>1. Unhit
      BY <1>5 DEF GAdvise, IInv
    <3>2. \A i \in DOMAIN chunks : chunks[i].arena # nxt
      <4>1. CASE InPacket
        BY <4>1, <3>1 DEF Unhit, IInv, Base, PointersDistinct
      <4>2. CASE ~InPacket
        BY <4>2 DEF IInv, ChunksOpen, InPacket
      <4> QED BY <4>1, <4>2
    <3>3. ~lost'
      BY <1>5, <3>1, <3>2 DEF GAdvise, Unhit
    <3> QED BY <1>2, <1>5, <3>1, <3>3 DEF GAdvise, Unhit, InPacket, net
  <2>3. ~crossed' => Uncrossed'
    BY <1>2, <1>5 DEF GAdvise, IInv, Uncrossed, Counted, Holders, net
  <2> QED BY <1>1, <1>3, <2>1, <2>2, <2>3 DEF IInv
<1>6. CASE GClear
  <2>1. GetIsCurrent'
    BY <1>2, <1>6 DEF GClear, IInv, GetIsCurrent, net
  <2>2. ~hit' => Unhit'
    <3> SUFFICES ASSUME ~hit' PROVE Unhit'
      OBVIOUS
    <3>1. Unhit
      BY <1>6 DEF GClear, IInv, history
    <3>2. CASE InPacket
      <4>1. offset'[nArena] = offset[nArena]
        BY <1>6, <3>1, <3>2 DEF GClear, Unhit, IInv, Base, TypeOK, PointersDistinct, Arena
      <4> QED BY <1>2, <1>6, <3>1, <4>1 DEF GClear, Unhit, InPacket, net, history
    <3>3. CASE ~InPacket
      <4>1. chunks = <<>> /\ npc # "store"
        BY <3>3 DEF IInv, ChunksOpen, InPacket
      <4> QED BY <1>2, <1>6, <3>1, <4>1 DEF GClear, Unhit, InPacket, net, history
    <3> QED BY <3>2, <3>3
  <2>3. ~crossed' => Uncrossed'
    BY <1>2, <1>6 DEF GClear, IInv, Uncrossed, Counted, Holders, net, history
  <2> QED BY <1>1, <1>3, <2>1, <2>2, <2>3 DEF IInv
<1>7. CASE UNCHANGED <<cur, nxt, offset, history>>
  <2>1. GetIsCurrent' /\ (~hit' => Unhit') /\ (~crossed' => Uncrossed')
    BY <1>2, <1>7 DEF IInv, GetIsCurrent, Unhit, Uncrossed, InPacket, Counted, Holders, net, history
  <2> QED BY <1>1, <1>3, <2>1 DEF IInv
<1> QED BY <1>4, <1>5, <1>6, <1>7
        DEF GameNext, GEnter, GAcquire, GRead, GLeave, GWait, GSleep, history

\* The network thread leaves the pointers alone.
LEMMA NetKeepsInv == IInv /\ NetNext => IInv'
<1> SUFFICES ASSUME IInv, NetNext PROVE IInv'
  OBVIOUS
<1>1. Base'
  BY NetKeepsBase DEF IInv
<1>2. UNCHANGED <<cur, nxt, crossed>>
  BY DEF NetNext, PacketNext, Alloc, NEnter, NAcquire, NPoint, NCount, NLeave,
     NAllocLoad, NAllocNull, NAllocStore, NDone, NReturnLoad, NDrop, history
<1> USE DEF IInv, GetIsCurrent, ChunksOpen, Unhit, Uncrossed, history, InPacket, Counted, Holders
<1>3. CASE NEnter
  BY <1>1, <1>2, <1>3 DEF NEnter, UsersConserved
<1>4. CASE NAcquire
  BY <1>1, <1>2, <1>4 DEF NAcquire, UsersConserved
<1>5. CASE NPoint
  BY <1>1, <1>2, <1>5 DEF NPoint, UsersConserved
<1>6. CASE NCount
  <2>1. nArena = cur /\ cur \in Arena /\ users \in [Arena -> 0 .. W - 1] /\ chunks = <<>>
    BY <1>6 DEF NCount, Base, TypeOK
  <2>2. (users[1] + users[2]) % W = 0
    BY <1>6 DEF NCount, UsersConserved
  <2>3. UsersConserved'
    <3>1. users[1] \in 0 .. W - 1 /\ users[2] \in 0 .. W - 1
      BY <2>1 DEF Arena
    <3>2. CASE nArena = 1
      BY <1>6, <2>1, <2>2, <3>1, <3>2, SumUp DEF NCount, UsersConserved, Arena
    <3>3. CASE nArena = 2
      <4>1. (users[2] + users[1]) % W = 0
        BY <2>2, <3>1
      <4> QED BY <1>6, <2>1, <4>1, <3>1, <3>3, SumUp DEF NCount, UsersConserved, Arena
    <3> QED BY <2>1, <3>2, <3>3 DEF Arena
  <2>4. 1 % W = 1
    BY ModBelow, ArenaAssumption
  <2>5. ~crossed' => Uncrossed'
    <3> SUFFICES ASSUME ~crossed' PROVE Uncrossed'
      OBVIOUS
    <3>1. Uncrossed /\ users[nArena] = 0
      BY <1>1, <1>2, <1>6, <2>1 DEF NCount
    <3>2. \A a \in Arena : users'[a] = (IF a = nArena THEN 1 ELSE 0)
      BY <1>6, <2>1, <2>4, <3>1 DEF NCount
    <3> QED BY <1>1, <1>2, <1>6, <2>1, <3>1, <3>2 DEF NCount
  <2>6. ~hit' => Unhit'
    BY <1>2, <1>6, <2>1 DEF NCount
  <2> QED BY <1>1, <1>2, <1>6, <2>1, <2>3, <2>5, <2>6 DEF NCount
<1>7. CASE NLeave
  BY <1>1, <1>2, <1>7 DEF NLeave, UsersConserved
<1>8. ASSUME NEW s \in Sizes, NAllocLoad(s) PROVE IInv'
  BY <1>1, <1>2, <1>8 DEF NAllocLoad, UsersConserved
<1>9. ASSUME NEW s \in Sizes, NAllocNull(s) PROVE IInv'
  BY <1>1, <1>2, <1>9 DEF NAllocNull, UsersConserved
<1>10. CASE NDone
  BY <1>1, <1>2, <1>10 DEF NDone, UsersConserved
<1>11. CASE NReturnLoad
  BY <1>1, <1>2, <1>11 DEF NReturnLoad, UsersConserved
<1>12. CASE NAllocStore
  <2>1. /\ nPtr \in 0 .. MaxSize /\ nSize \in Nat \ {0} /\ nArena \in Arena
        /\ offset \in [Arena -> 0 .. MaxSize]
        /\ chunks \in Seq(Chunk)
    BY <1>12, ArenaAssumption DEF NAllocStore, Base, TypeOK, StoreFits
  <2>2. GetIsCurrent' /\ UsersConserved' /\ ChunksOpen'
    BY <1>1, <1>2, <1>12 DEF NAllocStore, UsersConserved
  <2>3. ~hit' => Unhit'
    <3> SUFFICES ASSUME ~hit' PROVE Unhit'
      OBVIOUS
    <3>1. Unhit /\ nPtr = offset[nArena]
      BY <1>2, <1>12 DEF NAllocStore
    <3> DEFINE c == [arena |-> nArena, at |-> nPtr, size |-> nSize]
               n == Len(chunks)
    <3>2. /\ n \in Nat /\ DOMAIN chunks = 1 .. n /\ DOMAIN chunks' = 1 .. n + 1
          /\ \A i \in 1 .. n : chunks'[i] = chunks[i]
          /\ chunks'[n + 1] = c
      BY <1>12, <2>1 DEF NAllocStore
    <3>3. offset'[nArena] = nPtr + nSize /\ UNCHANGED <<nArena, users>>
      BY <1>12, <2>1 DEF NAllocStore
    <3>4. \A i \in 1 .. n : /\ chunks[i].arena = nArena
                            /\ chunks[i].at \in Nat /\ chunks[i].size \in Nat
                            /\ chunks[i].at + chunks[i].size <= nPtr
      <4> SUFFICES ASSUME NEW i \in 1 .. n
                   PROVE  /\ chunks[i].arena = nArena
                          /\ chunks[i].at \in Nat /\ chunks[i].size \in Nat
                          /\ chunks[i].at + chunks[i].size <= nPtr
        OBVIOUS
      <4>1. chunks[i] \in Chunk
        BY <2>1, <3>2
      <4>2. chunks[i].at \in Nat /\ chunks[i].size \in Nat
        BY <4>1, ArenaAssumption DEF Chunk
      <4> QED BY <3>1, <3>2, <4>2
    <3>5. \A i \in DOMAIN chunks' : /\ chunks'[i].arena = nArena
                                    /\ chunks'[i].at + chunks'[i].size <= nPtr + nSize
      BY <2>1, <3>2, <3>4
    <3>6. \A i, j \in DOMAIN chunks' : i # j => ~Overlap(chunks'[i], chunks'[j])
      <4>1. \A i \in 1 .. n : ~Overlap(chunks[i], c) /\ ~Overlap(c, chunks[i])
        <5> SUFFICES ASSUME NEW i \in 1 .. n
                     PROVE  Pages(chunks[i]) \cap Pages(c) = {}
          BY DEF Overlap
        <5>1. Pages(c) = nPtr .. nPtr + nSize - 1
          BY DEF Pages
        <5>2. \A x \in Pages(chunks[i]) : x < nPtr
          BY <2>1, <3>4 DEF Pages
        <5>3. \A x \in Pages(c) : x >= nPtr
          BY <2>1, <5>1
        <5>4. \A x \in Pages(c) : x \in Int /\ nPtr \in Int
          BY <2>1, <5>1
        <5> QED BY <5>2, <5>3, <5>4
      <4>2. \A i \in DOMAIN chunks' : i \in 1 .. n \/ i = n + 1
        BY <3>2
      <4> QED BY <3>1, <3>2, <4>1, <4>2
    <3> QED BY <1>1, <1>2, <1>12, <3>1, <3>3, <3>5, <3>6 DEF NAllocStore
  <2>4. ~crossed' => Uncrossed'
    BY <1>2, <1>12 DEF NAllocStore
  <2> QED BY <1>1, <2>2, <2>3, <2>4
<1>13. CASE NDrop
  <2>1. nRet \in Arena /\ users \in [Arena -> 0 .. W - 1] /\ chunks = <<>>
    BY <1>13 DEF NDrop, Base, TypeOK
  <2>2. (users[1] + users[2]) % W = 1
    BY <1>13 DEF NDrop, UsersConserved
  <2>3. UsersConserved'
    <3>1. users[1] \in 0 .. W - 1 /\ users[2] \in 0 .. W - 1
      BY <2>1 DEF Arena
    <3>2. CASE nRet = 1
      BY <1>13, <2>1, <2>2, <3>1, <3>2, SumDown DEF NDrop, UsersConserved, Arena
    <3>3. CASE nRet = 2
      <4>1. (users[2] + users[1]) % W = 1
        BY <2>2, <3>1
      <4> QED BY <1>13, <2>1, <4>1, <3>1, <3>3, SumDown DEF NDrop, UsersConserved, Arena
    <3> QED BY <2>1, <3>2, <3>3 DEF Arena
  <2>4. (1 + W - 1) % W = 0
    BY ModAbove, ArenaAssumption
  <2>5. ~crossed' => Uncrossed'
    <3> SUFFICES ASSUME ~crossed' PROVE Uncrossed'
      OBVIOUS
    <3>1. Uncrossed /\ nRet = nArena
      BY <1>2, <1>13 DEF NDrop
    <3>2. \A a \in Arena : users[a] = (IF a = nRet THEN 1 ELSE 0)
      BY <1>13, <2>1, <3>1 DEF NDrop
    <3>3. \A a \in Arena : users'[a] = 0
      BY <1>13, <2>1, <2>4, <3>2 DEF NDrop
    <3> QED BY <1>1, <1>2, <1>13, <2>1, <3>1, <3>3 DEF NDrop
  <2>6. ~hit' => Unhit'
    BY <1>2, <1>13, <2>1 DEF NDrop
  <2> QED BY <1>1, <1>2, <1>13, <2>1, <2>3, <2>5, <2>6 DEF NDrop
<1> QED BY <1>3, <1>4, <1>5, <1>6, <1>7, <1>8, <1>9, <1>10, <1>11, <1>12, <1>13
        DEF NetNext, PacketNext, Alloc

\* A stuttering step keeps every part of the invariant.
LEMMA StutterKeepsInv == IInv /\ UNCHANGED vars => IInv'
<1> SUFFICES ASSUME IInv, UNCHANGED vars PROVE IInv'
  OBVIOUS
<1> USE DEF vars, lock, game, net, history
<1>1. Base'
  BY DEF IInv, Base, TypeOK, LockInv, StoreFits, PointersDistinct, GameInside,
     NetInside, Lock!LockTypeOK
<1>2. GetIsCurrent' /\ UsersConserved' /\ ChunksOpen'
  BY DEF IInv, GetIsCurrent, UsersConserved, ChunksOpen, Counted
<1>3. (~hit' => Unhit') /\ (~crossed' => Uncrossed')
  BY DEF IInv, Unhit, Uncrossed, InPacket, Counted, Holders
<1> QED BY <1>1, <1>2, <1>3 DEF IInv

-----------------------------------------------------------------------------
\* The strengthened invariant holds in every reachable state.
THEOREM Invariance == Spec => []IInv
<1>1. IInv /\ [Next]_vars => IInv'
  BY GameKeepsInv, NetKeepsInv, StutterKeepsInv DEF Next
<1> QED BY InitInv, <1>1, PTL DEF Spec

\* Offsets stay inside the arenas, the counters inside a size_t.
THEOREM TypeCorrect == Spec => []TypeOK
<1>1. IInv => TypeOK
  BY DEF IInv, Base
<1> QED BY Invariance, <1>1, PTL

\* get_tick_arena counts and gives out the current arena.
THEOREM GetGivesCurrent == Spec => []GetIsCurrent
<1>1. IInv => GetIsCurrent
  BY DEF IInv
<1> QED BY Invariance, <1>1, PTL

\* The two user counters together never lose or gain a packet.
THEOREM UsersBalance == Spec => []UsersConserved
<1>1. IInv => UsersConserved
  BY DEF IInv
<1> QED BY Invariance, <1>1, PTL

\* The comments of tick_arena.h hold of each packet into which no switch falls,
\* and those on users until a switch falls into one.
THEOREM ContractHoldsUnlessCrossed == Spec => []ContractUnlessCrossed
<1>1. IInv => ContractUnlessCrossed
  <2> SUFFICES ASSUME IInv PROVE ContractUnlessCrossed
    OBVIOUS
  <2>1. cur # nxt
    BY DEF IInv, Base, PointersDistinct
  <2>2. ~crossed => \A a \in Arena : users[a] = Holders(a)
    BY DEF IInv, Uncrossed
  <2>3. ~hit => ChunksIntact /\ (InPacket => nArena # nxt)
    BY <2>1 DEF IInv, Unhit, ChunksIntact
  <2> QED BY <2>2, <2>3 DEF ContractUnlessCrossed
<1> QED BY Invariance, <1>1, PTL

\* The two pointers always name the two arenas.
THEOREM PointersStayDistinct == Spec => []PointersDistinct
<1>1. IInv => PointersDistinct
  BY DEF IInv, Base
<1> QED BY Invariance, <1>1, PTL
=============================================================================
