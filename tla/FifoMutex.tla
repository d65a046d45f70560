------------------------------ MODULE FifoMutex ------------------------------
(***************************************************************************)
(* The promise of ticket_lock_enter / ticket_lock_leave: a mutual          *)
(* exclusion lock that serves threads in the order in which they asked.    *)
(* The queue is what the tickets stand for; a thread stays at its head     *)
(* while it is inside, so asking, getting and giving back the lock are     *)
(* three separate steps of the calling thread.                             *)
(***************************************************************************)
EXTENDS Naturals, Sequences

CONSTANT Threads        \* the threads that use the lock

VARIABLES
  queue,                \* threads that asked for the lock, oldest first
  inside                \* the threads (at most one) that hold it

lockVars == <<queue, inside>>

Queued(t) == \E i \in DOMAIN queue : queue[i] = t

LockTypeOK ==
  /\ queue \in Seq(Threads)
  /\ inside \in SUBSET Threads

LockInit ==
  /\ queue = <<>>
  /\ inside = {}

\* ticket_lock_enter takes its place: from here on nobody can overtake t.
Arrive(t) ==
  /\ ~Queued(t)
  /\ queue' = Append(queue, t)
  /\ UNCHANGED inside

\* ticket_lock_enter returns.
Acquire(t) ==
  /\ inside = {}
  /\ queue # <<>>
  /\ Head(queue) = t
  /\ inside' = {t}
  /\ UNCHANGED queue

\* ticket_lock_leave.
Release(t) ==
  /\ t \in inside
  /\ inside' = {}
  /\ queue' = Tail(queue)

LockNext == \E t \in Threads : Arrive(t) \/ Acquire(t) \/ Release(t)

LockSpec == LockInit /\ [][LockNext]_lockVars
=============================================================================
