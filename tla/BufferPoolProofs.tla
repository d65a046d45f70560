-------------------------- MODULE BufferPoolProofs --------------------------
(***************************************************************************)
(* What src/net/buffer_pool.c and its spin lock guarantee for any number   *)
(* of senders and of buffers.                                              *)
(***************************************************************************)
EXTENDS BufferPool, FiniteSetTheorems, SequenceTheorems, TLAPS

\* The places between spin_lock_enter and spin_lock_leave, those where a thread
\* has a buffer to itself, and those where its packet is in it.
LockedPlaces == {"get", "pop", "push", "advise", "leave"}
OwnerPlaces  == {"pop", "write", "sending", "return", "push"}
PacketPlaces == {"sending", "return", "push"}

\* One thread at a time is between enter and leave, and the word knows.
LockInv ==
  /\ \A t \in Threads : spin[t] = "held" <=> pc[t] \in LockedPlaces
  /\ \A t, u \in Threads : spin[t] = "held" /\ spin[u] = "held" => t = u
  /\ locked = 1 <=> \E t \in Threads : spin[t] = "held"

\* Only the thread that pushed a buffer can still name it, and only before it
\* leaves the lock.
BufferInv ==
  /\ \A t \in Threads : pc[t] \in OwnerPlaces => buffer[t] # None
  /\ \A t \in Threads : pc[t] = "advise" => buffer[t] \in ToSet(pool)

\* The kernel may not take the pages of a packet.
PagesInv == \A t \in Threads : pc[t] \in PacketPlaces => buffer[t] \notin freeable

\* A thread about to map a buffer counts as if it had one: it found the pool
\* empty, and no buffer that came back since is its own.
Mapping == {t \in Threads : pc[t] = "map"}
RoomInv == mapped + Cardinality(Mapping) <= Cardinality(Threads)

PoolInv == TypeOK /\ LockInv /\ BufferInv /\ BuffersAccounted
IInv == PoolInv /\ PacketKept /\ PagesInv /\ RoomInv

-----------------------------------------------------------------------------
\* The pool as a set, when a buffer is pushed and when one is popped.
LEMMA PushSet ==
  ASSUME NEW s \in Seq(Buffer), NEW b \in Buffer, IsInjective(s), b \notin ToSet(s)
  PROVE  /\ Append(s, b) \in Seq(Buffer)
         /\ IsInjective(Append(s, b))
         /\ ToSet(Append(s, b)) = ToSet(s) \cup {b}
<1> DEFINE a == Append(s, b)
<1>1. /\ a \in Seq(Buffer) /\ Len(s) \in Nat /\ Len(a) = Len(s) + 1
      /\ DOMAIN a = 1 .. Len(s) + 1 /\ DOMAIN s = 1 .. Len(s)
  OBVIOUS
<1>2. \A i \in DOMAIN s : a[i] = s[i] /\ a[i] # b
  BY <1>1 DEF ToSet
<1>3. a[Len(s) + 1] = b
  OBVIOUS
<1>4. \A i \in DOMAIN a : i \in DOMAIN s \/ i = Len(s) + 1
  BY <1>1
<1>5. IsInjective(a)
  BY <1>2, <1>3, <1>4 DEF IsInjective
<1>6. ToSet(a) = ToSet(s) \cup {b}
  <2> HIDE DEF a
  <2>1. DOMAIN a = DOMAIN s \cup {Len(s) + 1}
    BY <1>1
  <2> QED BY <2>1, <1>2, <1>3 DEF ToSet
<1> QED BY <1>1, <1>5, <1>6

LEMMA PopSet ==
  ASSUME NEW s \in Seq(Buffer), s # <<>>, IsInjective(s)
  PROVE  /\ Front(s) \in Seq(Buffer)
         /\ Last(s) \in Buffer /\ Last(s) \in ToSet(s)
         /\ IsInjective(Front(s))
         /\ ToSet(Front(s)) = ToSet(s) \ {Last(s)}
<1> DEFINE f == Front(s)
<1>1. Len(s) \in Nat \ {0} /\ DOMAIN s = 1 .. Len(s)
  BY EmptySeq
<1>2. f \in Seq(Buffer) /\ Len(f) = Len(s) - 1 /\ \A i \in 1 .. Len(s) - 1 : f[i] = s[i]
  <2>1. \A i \in 1 .. Len(s) - 1 : s[i] \in Buffer
    BY <1>1
  <2>2. Len(s) - 1 \in Int
    BY <1>1
  <2> QED BY <1>1, <2>1, <2>2, SubSeqProperties DEF Front
<1>3. DOMAIN f = 1 .. Len(s) - 1
  BY <1>2
<1>4. Last(s) \in Buffer /\ Last(s) \in ToSet(s)
  BY <1>1 DEF Last, ToSet
<1> HIDE DEF f
<1>5. IsInjective(f)
  BY <1>1, <1>2, <1>3 DEF IsInjective
<1>6. ToSet(f) = ToSet(s) \ {Last(s)}
  <2>1. \A i \in DOMAIN s : s[i] = Last(s) <=> i = Len(s)
    BY <1>1 DEF IsInjective, Last
  <2>2. \A i \in DOMAIN s : i \in DOMAIN f \/ i = Len(s)
    BY <1>1, <1>3
  <2>3. \A i \in DOMAIN f : i \in DOMAIN s /\ i # Len(s) /\ f[i] = s[i]
    BY <1>1, <1>2, <1>3
  <2> QED BY <2>1, <2>2, <2>3 DEF ToSet
<1> QED BY <1>2, <1>4, <1>5, <1>6 DEF f

\* The owners are those in the owner places.
LEMMA OwningPlaces ==
  ASSUME \A t \in Threads : pc[t] \in OwnerPlaces => buffer[t] # None
  PROVE  Owning = {t \in Threads : pc[t] \in OwnerPlaces}
  BY DEF Owning, OwnerPlaces

\* A step in which no buffer changes hands.
Handless ==
  /\ UNCHANGED <<pool, mapped, buffer>>
  /\ \A u \in Threads : /\ pc'[u] \in OwnerPlaces <=> pc[u] \in OwnerPlaces
                        /\ pc'[u] = "advise" => pc[u] = "advise"

\* Such a step keeps what is known of the buffers.
LEMMA NoHandover ==
  ASSUME BufferInv, BuffersAccounted, Handless
  PROVE  BufferInv' /\ BuffersAccounted'
<1> USE DEF Handless
<1>1. BufferInv'
  BY DEF BufferInv
<1>2. Owning' = Owning
  <2>1. Owning = {t \in Threads : pc[t] \in OwnerPlaces}
    BY OwningPlaces DEF BufferInv
  <2>2. Owning' = {t \in Threads : pc'[t] \in OwnerPlaces}
    BY <1>1 DEF BufferInv, Owning, OwnerPlaces
  <2> QED BY <2>1, <2>2
<1>3. BuffersAccounted'
  BY <1>2 DEF BuffersAccounted
<1> QED BY <1>1, <1>3

-----------------------------------------------------------------------------
LEMMA InitInv == Init => IInv
<1> SUFFICES ASSUME Init PROVE IInv
  OBVIOUS
<1> USE DEF Init, SpinInit
<1>1. TypeOK
  BY PoolAssumption, EmptySeq DEF TypeOK, SpinTypeOK, Buffer, None
<1>2. LockInv /\ BufferInv /\ PagesInv
  BY DEF LockInv, BufferInv, PagesInv, LockedPlaces, OwnerPlaces, PacketPlaces
<1>3. BuffersAccounted
  <2>1. Owning = {} /\ ToSet(pool) = {} /\ IsInjective(pool)
    BY DEF Owning, ToSet, IsInjective
  <2>2. 1 .. mapped = {}
    OBVIOUS
  <2> QED BY <2>1, <2>2 DEF BuffersAccounted
<1>4. PacketKept
  BY DEF PacketKept
<1>5. RoomInv
  <2>1. Mapping = {}
    BY DEF Mapping
  <2> QED BY <2>1, FS_EmptySet, FS_CardinalityType, PoolAssumption DEF RoomInv
<1> QED BY <1>1, <1>2, <1>3, <1>4, <1>5 DEF IInv, PoolInv

\* Lock and buffers: one case for each step of a sender.
LEMMA StepKeepsPool ==
  ASSUME PoolInv, NEW t \in Threads, Step(t)
  PROVE  PoolInv'
<1> USE DEF PoolInv, lock
<1>a. SpinTypeOK /\ TypeOK
  BY DEF TypeOK
<1> DEFINE Kept == BufferInv' /\ BuffersAccounted'
<1>1. CASE Wait(t)
  <2> USE <1>1 DEF Wait, Spins, Call, TryFails, SeesFree
  <2>1. TypeOK'
    BY <1>a DEF TypeOK, SpinTypeOK
  <2>2. LockInv'
    BY <1>a DEF LockInv, SpinTypeOK, LockedPlaces
  <2>3. Kept
    <3>1. Handless
      BY DEF Handless
    <3> QED BY <3>1, NoHandover
  <2> QED BY <2>1, <2>2, <2>3
<1>2. CASE GetEnter(t)
  <2> USE <1>2 DEF GetEnter, Goto, TryLock
  <2>1. TypeOK'
    BY <1>a DEF TypeOK, SpinTypeOK
  <2>2. LockInv'
    BY <1>a DEF LockInv, TypeOK, SpinTypeOK, LockedPlaces
  <2>3. Kept
    <3>1. Handless
      BY <1>a DEF Handless, TypeOK, OwnerPlaces
    <3> QED BY <3>1, NoHandover
  <2> QED BY <2>1, <2>2, <2>3
<1>3. CASE GetEmpty(t)
  <2> USE <1>3 DEF GetEmpty, Goto, Leave
  <2>1. TypeOK'
    BY <1>a DEF TypeOK, SpinTypeOK
  <2>2. LockInv'
    BY <1>a DEF LockInv, TypeOK, SpinTypeOK, LockedPlaces
  <2>3. Kept
    <3>1. Handless
      BY <1>a DEF Handless, TypeOK, OwnerPlaces
    <3> QED BY <3>1, NoHandover
  <2> QED BY <2>1, <2>2, <2>3
<1>4. CASE GetMap(t)
  <2> USE <1>4 DEF GetMap, Goto
  <2>1. TypeOK'
    BY <1>a, PoolAssumption DEF TypeOK, SpinTypeOK, Buffer
  <2>2. LockInv'
    BY <1>a DEF LockInv, TypeOK, LockedPlaces
  <2>3. BufferInv'
    BY <1>a DEF BufferInv, TypeOK, OwnerPlaces, None
  <2>4. Owning' = Owning \cup {t} /\ t \notin Owning
    BY <2>3, <1>a DEF Owning, TypeOK, OwnerPlaces, BufferInv
  <2>5. /\ buffer'[t] = mapped + 1 /\ \A u \in Threads \ {t} : buffer'[u] = buffer[u]
        /\ mapped + 1 \notin 1 .. mapped /\ 1 .. mapped + 1 = (1 .. mapped) \cup {mapped + 1}
    BY <1>a DEF TypeOK
  <2>6. {buffer'[u] : u \in Owning'} = {buffer[u] : u \in Owning} \cup {mapped + 1}
    BY <2>4, <2>5 DEF Owning
  <2>7. BuffersAccounted'
    BY <2>4, <2>5, <2>6 DEF BuffersAccounted, Owning
  <2> QED BY <2>1, <2>2, <2>3, <2>7
<1>5. CASE GetPop(t)
  <2> USE <1>5 DEF GetPop, Goto
  <2>0. /\ Front(pool) \in Seq(Buffer)
        /\ Last(pool) \in Buffer /\ Last(pool) \in ToSet(pool)
        /\ IsInjective(Front(pool))
        /\ ToSet(Front(pool)) = ToSet(pool) \ {Last(pool)}
    BY PopSet, <1>a DEF TypeOK, BuffersAccounted
  <2>1. TypeOK'
    BY <1>a, <2>0 DEF TypeOK, SpinTypeOK
  <2>2. LockInv'
    BY <1>a DEF LockInv, TypeOK, LockedPlaces
  <2>3. BufferInv'
    <3>1. \A u \in Threads : pc[u] # "advise"
      BY <1>a DEF LockInv, LockedPlaces
    <3> QED BY <3>1, <1>a, <2>0 DEF BufferInv, TypeOK, OwnerPlaces, None, Buffer
  <2>4. Owning' = Owning \cup {t} /\ t \notin Owning
    BY <2>3, <1>a DEF Owning, TypeOK, OwnerPlaces, BufferInv
  <2>5. buffer'[t] = Last(pool) /\ \A u \in Threads \ {t} : buffer'[u] = buffer[u]
    BY <1>a DEF TypeOK
  <2>6. {buffer'[u] : u \in Owning'} = {buffer[u] : u \in Owning} \cup {Last(pool)}
    BY <2>4, <2>5 DEF Owning
  <2>7. BuffersAccounted'
    BY <2>0, <2>4, <2>5, <2>6 DEF BuffersAccounted, Owning
  <2> QED BY <2>1, <2>2, <2>3, <2>7
<1>6. CASE GetLeave(t)
  <2> USE <1>6 DEF GetLeave, Goto, Leave
  <2>1. TypeOK'
    BY <1>a DEF TypeOK, SpinTypeOK
  <2>2. LockInv'
    BY <1>a DEF LockInv, TypeOK, SpinTypeOK, LockedPlaces
  <2>3. Kept
    <3>1. Handless
      BY <1>a DEF Handless, TypeOK, OwnerPlaces
    <3> QED BY <3>1, NoHandover
  <2> QED BY <2>1, <2>2, <2>3
<1>7. CASE Write(t) \/ Sent(t)
  <2> USE <1>7 DEF Write, Sent, Goto
  <2>1. TypeOK'
    BY <1>a DEF TypeOK, SpinTypeOK
  <2>2. LockInv'
    BY <1>a DEF LockInv, TypeOK, LockedPlaces
  <2>3. Kept
    <3>1. Handless
      BY <1>a DEF Handless, TypeOK, OwnerPlaces
    <3> QED BY <3>1, NoHandover
  <2> QED BY <2>1, <2>2, <2>3
<1>8. CASE ReturnEnter(t)
  <2> USE <1>8 DEF ReturnEnter, Goto, TryLock
  <2>1. TypeOK'
    BY <1>a DEF TypeOK, SpinTypeOK
  <2>2. LockInv'
    BY <1>a DEF LockInv, TypeOK, SpinTypeOK, LockedPlaces
  <2>3. Kept
    <3>1. Handless
      BY <1>a DEF Handless, TypeOK, OwnerPlaces
    <3> QED BY <3>1, NoHandover
  <2> QED BY <2>1, <2>2, <2>3
<1>9. CASE ReturnPush(t)
  <2> USE <1>9 DEF ReturnPush, Goto
  <2>0. t \in Owning /\ buffer[t] \in Buffer /\ buffer[t] \notin ToSet(pool)
    BY <1>a DEF TypeOK, BufferInv, BuffersAccounted, Owning, OwnerPlaces
  <2>a. /\ Append(pool, buffer[t]) \in Seq(Buffer)
        /\ IsInjective(Append(pool, buffer[t]))
        /\ ToSet(Append(pool, buffer[t])) = ToSet(pool) \cup {buffer[t]}
    BY PushSet, <2>0, <1>a DEF TypeOK, BuffersAccounted
  <2>1. TypeOK'
    BY <1>a, <2>a DEF TypeOK, SpinTypeOK
  <2>2. LockInv'
    BY <1>a DEF LockInv, TypeOK, LockedPlaces
  <2>3. BufferInv'
    BY <1>a, <2>a DEF BufferInv, TypeOK, OwnerPlaces
  <2>4. Owning' = Owning \ {t}
    BY <2>3, <1>a DEF Owning, TypeOK, OwnerPlaces, BufferInv
  <2>5. BuffersAccounted'
    BY <2>0, <2>a, <2>4 DEF BuffersAccounted
  <2> QED BY <2>1, <2>2, <2>3, <2>5
<1>10. CASE ReturnAdvise(t)
  <2> USE <1>10 DEF ReturnAdvise, Goto
  <2>0. buffer[t] \in Buffer
    BY <1>a DEF TypeOK, BufferInv, BuffersAccounted, ToSet
  <2>1. TypeOK'
    BY <1>a, <2>0 DEF TypeOK, SpinTypeOK
  <2>2. LockInv'
    BY <1>a DEF LockInv, TypeOK, LockedPlaces
  <2>3. BufferInv'
    BY <1>a DEF BufferInv, TypeOK, OwnerPlaces
  <2>4. Owning' = Owning /\ t \notin Owning
    BY <2>3, <1>a DEF Owning, TypeOK, OwnerPlaces, BufferInv
  <2>5. \A u \in Owning : buffer'[u] = buffer[u]
    BY <2>4, <1>a DEF TypeOK, Owning
  <2>6. BuffersAccounted'
    BY <2>4, <2>5 DEF BuffersAccounted
  <2> QED BY <2>1, <2>2, <2>3, <2>6
<1>11. CASE ReturnLeave(t)
  <2> USE <1>11 DEF ReturnLeave, Goto, Leave
  <2>1. TypeOK'
    BY <1>a DEF TypeOK, SpinTypeOK
  <2>2. LockInv'
    BY <1>a DEF LockInv, TypeOK, SpinTypeOK, LockedPlaces
  <2>3. Kept
    <3>1. Handless
      BY <1>a DEF Handless, TypeOK, OwnerPlaces
    <3> QED BY <3>1, NoHandover
  <2> QED BY <2>1, <2>2, <2>3
<1> QED BY <1>1, <1>2, <1>3, <1>4, <1>5, <1>6, <1>7, <1>8, <1>9, <1>10, <1>11 DEF Step

\* The kernel, and a step that changes nothing.
LEMMA ReclaimKeepsPool ==
  ASSUME PoolInv, (\E b \in Buffer : Reclaim(b)) \/ UNCHANGED vars
  PROVE  PoolInv'
<1> USE DEF PoolInv, Reclaim, vars, lock
<1>1. TypeOK'
  BY DEF TypeOK, SpinTypeOK, Buffer, None
<1>2. LockInv'
  BY DEF LockInv
<1>3. BufferInv' /\ BuffersAccounted'
  <2>1. Handless
    BY DEF Handless
  <2> QED BY <2>1, NoHandover
<1> QED BY <1>1, <1>2, <1>3

\* Packets: written by their sender, and given up by it before anybody else
\* gets at the buffer.
LEMMA StepKeepsPackets ==
  ASSUME PoolInv, PacketKept, PagesInv, NEW t \in Threads, Step(t)
  PROVE  PacketKept' /\ PagesInv'
<1> USE DEF PoolInv, lock
<1>a. TypeOK
  OBVIOUS
<1>b. \A u \in Threads : pc[u] \in OwnerPlaces => u \in Owning
  BY DEF BufferInv, Owning, OwnerPlaces
<1>c. \A u, v \in Owning : buffer[u] = buffer[v] => u = v
  BY DEF BuffersAccounted
<1>d. \A u \in Owning : buffer[u] \notin ToSet(pool)
  BY DEF BuffersAccounted
<1>1. CASE Write(t)
  <2> USE <1>1 DEF Write, Goto
  <2>1. \A u \in Threads : pc[u] \in OwnerPlaces /\ u # t => buffer[u] # buffer[t]
    BY <1>b, <1>c DEF OwnerPlaces
  <2>2. buffer[t] \in Buffer
    BY <1>a DEF TypeOK, BufferInv, OwnerPlaces
  <2> QED BY <2>1, <2>2, <1>a DEF PacketKept, PagesInv, TypeOK, PacketPlaces, OwnerPlaces
<1>2. CASE Sent(t) \/ ReturnEnter(t) \/ ReturnPush(t)
  BY <1>2, <1>a DEF Sent, ReturnEnter, ReturnPush, Goto, PacketKept, PagesInv, TypeOK, PacketPlaces
<1>3. CASE ReturnAdvise(t)
  <2> USE <1>3 DEF ReturnAdvise, Goto
  <2>1. \A u \in Threads : pc[u] \in PacketPlaces => u # t /\ buffer[u] # buffer[t]
    BY <1>b, <1>d DEF BufferInv, OwnerPlaces, PacketPlaces
  <2> QED BY <2>1, <1>a DEF PacketKept, PagesInv, TypeOK, PacketPlaces
<1>4. CASE \/ Wait(t) \/ GetEnter(t) \/ GetEmpty(t) \/ GetMap(t)
           \/ GetPop(t) \/ GetLeave(t) \/ ReturnLeave(t)
  <2>1. /\ UNCHANGED <<content, freeable>>
        /\ \A u \in Threads : pc'[u] \in PacketPlaces =>
             pc[u] \in PacketPlaces /\ buffer'[u] = buffer[u]
    BY <1>4, <1>a DEF Wait, GetEnter, GetEmpty, GetMap, GetPop, GetLeave, ReturnLeave, Goto,
         TypeOK, PacketPlaces
  <2> QED BY <2>1 DEF PacketKept, PagesInv, PacketPlaces
<1> QED BY <1>1, <1>2, <1>3, <1>4 DEF Step

\* Pages that the kernel takes are not those of a packet.
LEMMA ReclaimKeepsPackets ==
  ASSUME PoolInv, PacketKept, PagesInv, (\E b \in Buffer : Reclaim(b)) \/ UNCHANGED vars
  PROVE  PacketKept' /\ PagesInv'
<1>1. CASE UNCHANGED vars
  BY <1>1 DEF vars, PacketKept, PagesInv
<1>2. CASE \E b \in Buffer : Reclaim(b)
  <2>1. PICK b \in Buffer : Reclaim(b)
    BY <1>2
  <2> QED BY <2>1 DEF Reclaim, PoolInv, TypeOK, PacketKept, PagesInv, PacketPlaces
<1> QED BY <1>1, <1>2

-----------------------------------------------------------------------------
\* With the pool empty there are as many buffers as threads that have one.
LEMMA EmptyPoolCount ==
  ASSUME TypeOK, BuffersAccounted, pool = <<>>
  PROVE  mapped <= Cardinality(Owning)
<1> DEFINE owner == [b \in 1 .. mapped |-> CHOOSE u \in Owning : buffer[u] = b]
<1>1. \A b \in 1 .. mapped : owner[b] \in Owning /\ buffer[owner[b]] = b
  <2>1. ToSet(pool) = {}
    BY DEF ToSet
  <2>2. \A b \in 1 .. mapped : \E u \in Owning : buffer[u] = b
    BY <2>1 DEF BuffersAccounted
  <2> QED BY <2>2
<1>2. mapped \in Nat /\ IsFiniteSet(1 .. mapped) /\ Cardinality(1 .. mapped) = mapped
  <2>1. mapped \in Nat
    BY PoolAssumption DEF TypeOK
  <2> QED BY <2>1, FS_Interval
<1>3. IsFiniteSet(Owning) /\ Cardinality(Owning) \in Nat
  BY PoolAssumption, FS_Subset, FS_CardinalityType DEF Owning
<1>4. owner \in [1 .. mapped -> Owning]
  BY <1>1
<1> HIDE DEF owner
<1>5. CASE Cardinality(Owning) < mapped
  <2>1. \E x, y \in 1 .. mapped : x # y /\ owner[x] = owner[y]
    BY <1>2, <1>3, <1>4, <1>5, FS_PigeonHole
  <2> QED BY <2>1, <1>1
<1> QED BY <1>2, <1>3, <1>5

LEMMA StepKeepsRoom ==
  ASSUME PoolInv, RoomInv, NEW t \in Threads, Step(t)
  PROVE  RoomInv'
<1> USE DEF PoolInv, lock
<1>a. TypeOK /\ mapped \in Nat
  BY PoolAssumption DEF TypeOK
<1>b. IsFiniteSet(Mapping) /\ Cardinality(Mapping) \in Nat /\ Cardinality(Threads) \in Nat
  BY PoolAssumption, FS_Subset, FS_CardinalityType DEF Mapping
<1>1. CASE GetEmpty(t)
  <2> USE <1>1 DEF GetEmpty, Goto
  <2>1. mapped <= Cardinality(Owning)
    BY EmptyPoolCount
  <2>2. Mapping' = Mapping \cup {t}
    BY <1>a DEF Mapping, TypeOK
  <2>3. IsFiniteSet(Mapping') /\ IsFiniteSet(Owning)
    BY <2>2, <1>b, FS_AddElement, FS_Subset, PoolAssumption DEF Owning
  <2>4. Owning \cap Mapping' = {} /\ Owning \cup Mapping' \subseteq Threads
    BY <2>2, <1>a DEF Owning, Mapping
  <2>5. Cardinality(Owning) + Cardinality(Mapping') <= Cardinality(Threads)
    <3>1. Cardinality(Owning \cup Mapping')
            = Cardinality(Owning) + Cardinality(Mapping') - Cardinality({})
      BY <2>3, <2>4, FS_Union
    <3>2. Cardinality(Owning \cup Mapping') <= Cardinality(Threads)
      BY <2>4, PoolAssumption, FS_Subset
    <3>3. Cardinality({}) = 0
      BY FS_EmptySet
    <3>4. Cardinality(Owning) \in Nat /\ Cardinality(Mapping') \in Nat
      BY <2>3, FS_CardinalityType
    <3> QED BY <3>1, <3>2, <3>3, <3>4
  <2>6. Cardinality(Owning) \in Nat /\ Cardinality(Mapping') \in Nat
    BY <2>3, FS_CardinalityType
  <2> HIDE DEF GetEmpty
  <2>7. mapped' = mapped
    BY DEF GetEmpty
  <2> QED BY <2>1, <2>5, <2>6, <2>7, <1>a, <1>b DEF RoomInv
<1>2. CASE GetMap(t)
  <2> USE <1>2 DEF GetMap, Goto
  <2>1. Mapping' = Mapping \ {t} /\ t \in Mapping
    BY <1>a DEF Mapping, TypeOK
  <2>2. Cardinality(Mapping') = Cardinality(Mapping) - 1
    BY <2>1, <1>b, FS_RemoveElement
  <2> QED BY <2>2, <1>a, <1>b DEF RoomInv
<1>3. ASSUME ~GetEmpty(t), ~GetMap(t)
      PROVE  RoomInv'
  <2>1. mapped' = mapped /\ Mapping' = Mapping
    BY <1>3, <1>a DEF Step, Wait, GetEnter, GetPop, GetLeave, Write, Sent, ReturnEnter,
         ReturnPush, ReturnAdvise, ReturnLeave, Goto, Mapping, TypeOK
  <2> QED BY <2>1 DEF RoomInv
<1> QED BY <1>1, <1>2, <1>3

-----------------------------------------------------------------------------
\* The strengthened invariant holds in every reachable state.
THEOREM Invariance == Spec => []IInv
<1>1. IInv /\ [Next]_vars => IInv'
  <2> SUFFICES ASSUME IInv, [Next]_vars PROVE IInv'
    OBVIOUS
  <2> USE DEF IInv
  <2>1. CASE \E t \in Threads : Step(t)
    BY <2>1, StepKeepsPool, StepKeepsPackets, StepKeepsRoom
  <2>2. CASE (\E b \in Buffer : Reclaim(b)) \/ UNCHANGED vars
    <3>1. RoomInv'
      BY <2>2 DEF Reclaim, vars, RoomInv, Mapping
    <3> QED BY <2>2, <3>1, ReclaimKeepsPool, ReclaimKeepsPackets
  <2> QED BY <2>1, <2>2 DEF Next
<1> QED BY InitInv, <1>1, PTL DEF Spec

\* The word of the lock is set exactly while one thread is inside.
LEMMA WordFollows == LockInv /\ TypeOK => WordIsLock
<1> SUFFICES ASSUME LockInv, TypeOK PROVE WordIsLock
  OBVIOUS
<1>1. CASE Inside = {}
  <2>1. locked = 0
    BY <1>1 DEF LockInv, TypeOK, SpinTypeOK, Inside
  <2> QED BY <1>1, <2>1, FS_EmptySet DEF WordIsLock
<1>2. CASE Inside # {}
  <2>1. PICK t \in Threads : Inside = {t} /\ locked = 1
    BY <1>2 DEF LockInv, Inside
  <2> QED BY <2>1, FS_Singleton DEF WordIsLock
<1> QED BY <1>1, <1>2

\* The lock tells the truth, types are right, and every buffer ever mapped is
\* in the pool once or with one sender.
THEOREM PoolStaysConsistent == Spec => []PoolConsistent
<1>1. IInv => PoolConsistent
  BY WordFollows DEF IInv, PoolInv, PoolConsistent
<1> QED BY Invariance, <1>1, PTL

\* Neither another sender nor the kernel gets at a packet before its buffer is
\* given back.
THEOREM PacketsStay == Spec => []PacketKept
<1>1. IInv => PacketKept
  BY DEF IInv
<1> QED BY Invariance, <1>1, PTL

\* A buffer is mapped only when there are more senders than buffers, although
\* the lock is left before it is mapped.
THEOREM PoolStaysSmall == Spec => []NoMoreThanSenders
<1>1. IInv => NoMoreThanSenders
  <2> SUFFICES ASSUME IInv PROVE mapped <= Cardinality(Threads)
    BY DEF NoMoreThanSenders
  <2>1. mapped \in Nat /\ Cardinality(Mapping) \in Nat /\ Cardinality(Threads) \in Nat
    BY PoolAssumption, FS_Subset, FS_CardinalityType DEF IInv, PoolInv, TypeOK, Mapping
  <2> QED BY <2>1 DEF IInv, RoomInv
<1> QED BY Invariance, <1>1, PTL

\* spin_lock.c, used as the pool uses it, is a mutual exclusion lock.
THEOREM SpinLockIsMutex == Spec => ImplementsMutex
<1>1. Init => M!MutexInit
  BY DEF Init, SpinInit, M!MutexInit, Inside
<1>2. IInv /\ [Next]_vars => [M!MutexNext]_Inside
  <2> SUFFICES ASSUME IInv, [Next]_vars PROVE M!MutexNext \/ Inside' = Inside
    OBVIOUS
  <2>a. LockInv /\ TypeOK
    BY DEF IInv, PoolInv
  <2>1. ASSUME NEW t \in Threads, TryLock(t)
        PROVE  M!MutexNext
    <3>1. Inside = {} /\ Inside' = {t}
      BY <2>1, <2>a DEF TryLock, LockInv, TypeOK, SpinTypeOK, Inside
    <3> QED BY <3>1 DEF M!MutexNext, M!Enter
  <2>2. ASSUME NEW t \in Threads, Leave(t)
        PROVE  M!MutexNext
    <3>1. t \in Inside /\ Inside' = {}
      BY <2>2, <2>a DEF Leave, LockInv, TypeOK, SpinTypeOK, Inside
    <3> QED BY <3>1 DEF M!MutexNext, M!Leave
  <2>3. ASSUME NEW t \in Threads, Spins(t)
        PROVE  Inside' = Inside
    BY <2>3, <2>a DEF Spins, Call, TryFails, SeesFree, TypeOK, SpinTypeOK, Inside
  <2>4. ASSUME UNCHANGED lock
        PROVE  Inside' = Inside
    BY <2>4 DEF lock, Inside
  <2>5. CASE \E t \in Threads : Step(t)
    <3>1. PICK t \in Threads : TryLock(t) \/ Leave(t) \/ Spins(t) \/ UNCHANGED lock
      BY <2>5 DEF Step, Wait, GetEnter, GetEmpty, GetMap, GetPop, GetLeave, Write, Sent,
           ReturnEnter, ReturnPush, ReturnAdvise, ReturnLeave
    <3> QED BY <3>1, <2>1, <2>2, <2>3, <2>4
  <2>6. CASE (\E b \in Buffer : Reclaim(b)) \/ UNCHANGED vars
    BY <2>6, <2>4 DEF Reclaim, vars, lock
  <2> QED BY <2>5, <2>6 DEF Next
<1> QED BY Invariance, <1>1, <1>2, PTL DEF Spec, ImplementsMutex, M!MutexSpec
=============================================================================
