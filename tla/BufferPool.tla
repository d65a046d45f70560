----------------------------- MODULE BufferPool -----------------------------
(***************************************************************************)
(* src/net/buffer_pool.c: the pool of send buffers, the only one that more *)
(* than one thread may use ("Sending could be done at alot of points").    *)
(* m_protocol_send_lock is a spin lock, with each of its steps. The two    *)
(* receiving pools are this one without the lock, for one thread.          *)
(*                                                                         *)
(* Buffers are mappings: giving one back tells the kernel that it may take *)
(* the pages (MADV_FREE), which it may then do at any later moment until   *)
(* they are written again.                                                 *)
(***************************************************************************)
EXTENDS SpinLock, Sequences, SequencesExt

CONSTANT MaxBuffers     \* bound: buffers ever mapped

ASSUME PoolAssumption == MaxBuffers \in Nat /\ IsFiniteSet(Threads)

Buffer == 1 .. MaxBuffers
None == 0

VARIABLES
  pool,                 \* m_protocol_send_buffers, the last is taken first
  mapped,               \* how many buffers were ever mapped
  pc,                   \* where each thread is
  buffer,               \* the buffer each thread has, or is returning
  content,              \* whose packet is in each buffer
  freeable              \* buffers whose pages the kernel may take

lock == <<locked, spin>>           \* m_protocol_send_lock
vars == <<lock, pool, mapped, pc, buffer, content, freeable>>

TypeOK ==
  /\ SpinTypeOK
  /\ pool \in Seq(Buffer)
  /\ mapped \in 0 .. MaxBuffers
  /\ pc \in [Threads -> {"idle", "get", "map", "pop", "write", "sending", "return",
                        "push", "advise", "leave"}]
  /\ buffer \in [Threads -> Buffer \cup {None}]
  /\ content \in [Buffer -> Threads \cup {None}]
  /\ freeable \subseteq Buffer

Init ==
  /\ SpinInit /\ pool = <<>> /\ mapped = 0
  /\ pc = [t \in Threads |-> "idle"]
  /\ buffer = [t \in Threads |-> None]
  /\ content = [b \in Buffer |-> None]
  /\ freeable = {}

Goto(t, from, to) == pc[t] = from /\ pc' = [pc EXCEPT ![t] = to]

\* spin_lock_enter is called by one of the two functions, and spins.
Wait(t) ==
  /\ pc[t] \in {"idle", "return"}
  /\ Spins(t)
  /\ UNCHANGED <<pool, mapped, pc, buffer, content, freeable>>

\* buffer_pool_get_protocol_send, spin_lock_enter returns.
GetEnter(t) ==
  /\ Goto(t, "idle", "get")
  /\ TryLock(t)
  /\ UNCHANGED <<pool, mapped, buffer, content, freeable>>

\* Mutant: a buffer is mapped whether or not there is one in the pool.
GetEmptyAlways(t) ==
  /\ Goto(t, "get", "map")
  /\ Leave(t)
  /\ UNCHANGED <<pool, mapped, buffer, content, freeable>>

\* The pool is empty: the lock is left before the buffer is mapped.
GetEmpty(t) ==
  /\ Goto(t, "get", "map")
  /\ pool = <<>>
  /\ Leave(t)
  /\ UNCHANGED <<pool, mapped, buffer, content, freeable>>

\* mmap.
GetMap(t) ==
  /\ Goto(t, "map", "write")
  /\ mapped < MaxBuffers
  /\ mapped' = mapped + 1
  /\ buffer' = [buffer EXCEPT ![t] = mapped + 1]
  /\ UNCHANGED <<lock, pool, content, freeable>>

\* Mutant: the buffer is looked at and not taken out.
GetPopKept(t) ==
  /\ Goto(t, "get", "pop")
  /\ pool # <<>>
  /\ buffer' = [buffer EXCEPT ![t] = Last(pool)]
  /\ UNCHANGED <<lock, pool, mapped, content, freeable>>

\* arrpop.
GetPop(t) ==
  /\ Goto(t, "get", "pop")
  /\ pool # <<>>
  /\ buffer' = [buffer EXCEPT ![t] = Last(pool)]
  /\ pool' = Front(pool)
  /\ UNCHANGED <<lock, mapped, content, freeable>>

\* spin_lock_leave; MADV_WILLNEED changes nothing of the pages.
GetLeave(t) ==
  /\ Goto(t, "pop", "write")
  /\ Leave(t)
  /\ UNCHANGED <<pool, mapped, buffer, content, freeable>>

\* The caller writes its packet, which cancels what MADV_FREE allowed, ...
Write(t) ==
  /\ Goto(t, "write", "sending")
  /\ content' = [content EXCEPT ![buffer[t]] = t]
  /\ freeable' = freeable \ {buffer[t]}
  /\ UNCHANGED <<lock, pool, mapped, buffer>>

\* ... and waits until it is sent.
Sent(t) ==
  /\ Goto(t, "sending", "return")
  /\ UNCHANGED <<lock, pool, mapped, buffer, content, freeable>>

\* buffer_pool_return_protocol_send, spin_lock_enter returns.
ReturnEnter(t) ==
  /\ Goto(t, "return", "push")
  /\ TryLock(t)
  /\ UNCHANGED <<pool, mapped, buffer, content, freeable>>

\* Mutant: the lock is left between arrpush and madvise.
ReturnPushLeave(t) ==
  /\ Goto(t, "push", "advise")
  /\ pool' = Append(pool, buffer[t])
  /\ Leave(t)
  /\ UNCHANGED <<mapped, buffer, content, freeable>>

\* arrpush.
ReturnPush(t) ==
  /\ Goto(t, "push", "advise")
  /\ pool' = Append(pool, buffer[t])
  /\ UNCHANGED <<lock, mapped, buffer, content, freeable>>

\* madvise with MADV_FREE.
ReturnAdvise(t) ==
  /\ Goto(t, "advise", "leave")
  /\ freeable' = freeable \cup {buffer[t]}
  /\ buffer' = [buffer EXCEPT ![t] = None]
  /\ UNCHANGED <<lock, pool, mapped, content>>

\* spin_lock_leave.
ReturnLeave(t) ==
  /\ Goto(t, "leave", "idle")
  /\ Leave(t)
  /\ UNCHANGED <<pool, mapped, buffer, content, freeable>>

\* The kernel takes pages that it may take: they read as zeroes from then on.
Reclaim(b) ==
  /\ b \in freeable
  /\ content' = [content EXCEPT ![b] = None]
  /\ freeable' = freeable \ {b}
  /\ UNCHANGED <<lock, pool, mapped, pc, buffer>>

Step(t) ==
  \/ Wait(t) \/ GetEnter(t) \/ GetEmpty(t) \/ GetMap(t) \/ GetPop(t) \/ GetLeave(t) \/ Write(t)
  \/ Sent(t) \/ ReturnEnter(t) \/ ReturnPush(t) \/ ReturnAdvise(t) \/ ReturnLeave(t)

Next == (\E t \in Threads : Step(t)) \/ (\E b \in Buffer : Reclaim(b))

Spec == Init /\ [][Next]_vars

\* A thread that waits for the lock or holds it keeps running; none has to send
\* a packet, and none is ever done with it.
InCall(t) ==
  \/ spin[t] # "idle" /\ (Wait(t) \/ GetEnter(t) \/ ReturnEnter(t))
  \/ GetEmpty(t) \/ GetPop(t) \/ GetLeave(t)
  \/ ReturnPush(t) \/ ReturnAdvise(t) \/ ReturnLeave(t)

FairSpec == Spec /\ \A t \in Threads : WF_vars(InCall(t))
-----------------------------------------------------------------------------
Owning == {t \in Threads : buffer[t] # None /\ pc[t] \in {"pop", "write", "sending", "return", "push"}}

\* A packet stays as it was written until the buffer is given back: neither
\* another sender nor the kernel gets at it, although buffers go round.
PacketKept == \A t \in Threads : pc[t] \in {"sending", "return", "push"} => content[buffer[t]] = t

\* Every buffer ever mapped is in the pool once or with one sender: none is
\* lost, none is in two places.
BuffersAccounted ==
  /\ IsInjective(pool)
  /\ \A t, u \in Owning : buffer[t] = buffer[u] => t = u
  /\ {buffer[t] : t \in Owning} \cap ToSet(pool) = {}
  /\ {buffer[t] : t \in Owning} \cup ToSet(pool) = 1 .. mapped

\* Lock, threads and buffers fit together.
PoolConsistent == TypeOK /\ WordIsLock /\ BuffersAccounted

\* No more buffers are mapped here than there ever are senders at one time (what
\* the receiver gives to this pool was mapped for another, see Server).
NoMoreThanSenders == mapped <= Cardinality(Threads)
=============================================================================
