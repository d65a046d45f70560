------------------------------- MODULE Mutex -------------------------------
(***************************************************************************)
(* The promise of spin_lock_enter / spin_lock_leave: at most one thread is *)
(* inside. Nothing is said of the order in which threads get in.           *)
(***************************************************************************)

CONSTANT Threads

VARIABLE inside         \* the threads (at most one) that hold the lock

MutexInit == inside = {}

\* spin_lock_enter returns.
Enter(t) == inside = {} /\ inside' = {t}

\* spin_lock_leave.
Leave(t) == t \in inside /\ inside' = {}

MutexNext == \E t \in Threads : Enter(t) \/ Leave(t)

MutexSpec == MutexInit /\ [][MutexNext]_inside
=============================================================================
