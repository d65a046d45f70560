------------------------------ MODULE SpinLock ------------------------------
(***************************************************************************)
(* src/sync/spin_lock.[ch]: a lock made of one word. Each shared access is *)
(* an action of its own. The threads do more than lock: the module of what *)
(* the lock guards says when they call it.                                 *)
(***************************************************************************)
EXTENDS Naturals, FiniteSets

CONSTANT Threads        \* the threads that use one spin_lock_t

VARIABLES
  locked,               \* spin_lock_t.locked
  spin                  \* where each thread is in spin_lock_enter, or held

SpinTypeOK ==
  /\ locked \in {0, 1}
  /\ spin \in [Threads -> {"idle", "try", "pause", "held"}]

\* Every spin_lock_t is static.
SpinInit == locked = 0 /\ spin = [t \in Threads |-> "idle"]

\* spin_lock_enter is called.
Call(t) ==
  /\ spin[t] = "idle"
  /\ spin' = [spin EXCEPT ![t] = "try"]
  /\ UNCHANGED locked

\* Mutant: the word is loaded and stored instead of exchanged.
TryLockBlind(t) ==
  /\ spin[t] = "try"
  /\ locked' = 1
  /\ spin' = [spin EXCEPT ![t] = "held"]

\* spin_lock_try_lock_weak, the exchange succeeds.
TryLock(t) ==
  /\ spin[t] = "try"
  /\ locked = 0
  /\ locked' = 1
  /\ spin' = [spin EXCEPT ![t] = "held"]

\* spin_lock_try_lock_weak, the exchange fails. A weak one may fail although
\* the lock is free, but the instruction of the only architecture this builds
\* for (it uses __builtin_ia32_pause) does not.
TryFails(t) ==
  /\ spin[t] = "try"
  /\ locked = 1
  /\ spin' = [spin EXCEPT ![t] = "pause"]
  /\ UNCHANGED locked

\* spin_lock_is_locked is false: the inner loop ends. While it is true the
\* thread pauses and nothing changes.
SeesFree(t) ==
  /\ spin[t] = "pause"
  /\ locked = 0
  /\ spin' = [spin EXCEPT ![t] = "try"]
  /\ UNCHANGED locked

\* Mutant: the word is cleared only when somebody is seen waiting for it.
LeaveIfWanted(t) ==
  /\ spin[t] = "held"
  /\ locked' = IF \E u \in Threads : spin[u] = "pause" THEN 0 ELSE 1
  /\ spin' = [spin EXCEPT ![t] = "idle"]

\* spin_lock_leave.
Leave(t) ==
  /\ spin[t] = "held"
  /\ locked' = 0
  /\ spin' = [spin EXCEPT ![t] = "idle"]

\* The steps of spin_lock_enter that do not end it.
Spins(t) == Call(t) \/ TryFails(t) \/ SeesFree(t)
-----------------------------------------------------------------------------
Inside == {t \in Threads : spin[t] = "held"}

\* The word tells the truth: it is set exactly while one thread is inside, so
\* two are never inside together and the lock is never lost.
WordIsLock == Cardinality(Inside) = locked

M == INSTANCE Mutex WITH inside <- Inside

\* The word implements the mutual exclusion lock.
ImplementsMutex == M!MutexSpec

\* The lock is never idle for ever while somebody spins on it. (A given thread
\* may spin for ever: others can overtake it each time.)
SomebodyEnters == (\E t \in Threads : spin[t] \in {"try", "pause"}) ~> Inside # {}
=============================================================================
