----------------------------- MODULE TicketLock -----------------------------
(***************************************************************************)
(* src/sync/ticket_lock.[ch]: a lock made of two counters, drawn from and  *)
(* compared with atomic operations. Each shared access of the two          *)
(* functions is an action of its own. The counters are size_t and wrap to  *)
(* 0 at W = 2^(bits of size_t); the bound is part of the algorithm because *)
(* mutual exclusion needs every outstanding ticket to be a different one.  *)
(***************************************************************************)
EXTENDS Naturals, FiniteSets

CONSTANTS
  Threads,              \* the threads that use one ticket_lock_t
  W                     \* number of values of a size_t

ASSUME TicketAssumption ==
  /\ IsFiniteSet(Threads)
  /\ W \in Nat
  /\ Cardinality(Threads) < W

VARIABLES
  now_serving,          \* ticket_lock_t.now_serving
  next_ticket,          \* ticket_lock_t.next_ticket
  pc,                   \* where each thread is in enter / leave
  ticket,               \* local of ticket_lock_enter
  new                   \* local of ticket_lock_leave

vars == <<now_serving, next_ticket, pc, ticket, new>>

SizeT == 0 .. W - 1

\* Mutant: the counter never wraps.
SuccUnbounded(x) == x + 1

\* x + 1 in size_t arithmetic.
Succ(x) == IF x + 1 = W THEN 0 ELSE x + 1

TypeOK ==
  /\ now_serving \in SizeT
  /\ next_ticket \in SizeT
  /\ pc \in [Threads -> {"idle", "spin", "held", "leave"}]
  /\ ticket \in [Threads -> SizeT]
  /\ new \in [Threads -> SizeT]

\* A ticket_lock_t is static, so both counters start at 0.
Init ==
  /\ now_serving = 0
  /\ next_ticket = 0
  /\ pc = [t \in Threads |-> "idle"]
  /\ ticket = [t \in Threads |-> 0]
  /\ new = [t \in Threads |-> 0]

\* Mutant: a load in place of the atomic_fetch_add.
DrawSame(t) ==
  /\ pc[t] = "idle"
  /\ ticket' = [ticket EXCEPT ![t] = next_ticket]
  /\ pc' = [pc EXCEPT ![t] = "spin"]
  /\ UNCHANGED <<now_serving, next_ticket, new>>

\* ticket_lock_enter, the atomic_fetch_add.
Draw(t) ==
  /\ pc[t] = "idle"
  /\ ticket' = [ticket EXCEPT ![t] = next_ticket]
  /\ next_ticket' = Succ(next_ticket)
  /\ pc' = [pc EXCEPT ![t] = "spin"]
  /\ UNCHANGED <<now_serving, new>>

\* Mutant: the counters are compared with >=, which is wrong once they wrap.
ServedLate(t) ==
  /\ pc[t] = "spin"
  /\ now_serving >= ticket[t]
  /\ pc' = [pc EXCEPT ![t] = "held"]
  /\ UNCHANGED <<now_serving, next_ticket, ticket, new>>

\* Mutant: whoever finds the lock free takes it.
ServedAny(t) ==
  /\ pc[t] = "spin"
  /\ \A u \in Threads : pc[u] \notin {"held", "leave"}
  /\ pc' = [pc EXCEPT ![t] = "held"]
  /\ UNCHANGED <<now_serving, next_ticket, ticket, new>>

\* ticket_lock_enter, the load that ends the loop; a load that finds another
\* ticket being served pauses and changes nothing.
Served(t) ==
  /\ pc[t] = "spin"
  /\ now_serving = ticket[t]
  /\ pc' = [pc EXCEPT ![t] = "held"]
  /\ UNCHANGED <<now_serving, next_ticket, ticket, new>>

\* Mutant: the number that was being served is stored again.
LeaveLoadSame(t) ==
  /\ pc[t] = "held"
  /\ new' = [new EXCEPT ![t] = now_serving]
  /\ pc' = [pc EXCEPT ![t] = "leave"]
  /\ UNCHANGED <<now_serving, next_ticket, ticket>>

\* ticket_lock_leave, the relaxed load.
LeaveLoad(t) ==
  /\ pc[t] = "held"
  /\ new' = [new EXCEPT ![t] = Succ(now_serving)]
  /\ pc' = [pc EXCEPT ![t] = "leave"]
  /\ UNCHANGED <<now_serving, next_ticket, ticket>>

\* ticket_lock_leave, the release store. The locals end with the call.
LeaveStore(t) ==
  /\ pc[t] = "leave"
  /\ now_serving' = new[t]
  /\ ticket' = [ticket EXCEPT ![t] = 0]
  /\ new' = [new EXCEPT ![t] = 0]
  /\ pc' = [pc EXCEPT ![t] = "idle"]
  /\ UNCHANGED next_ticket

Next == \E t \in Threads : Draw(t) \/ Served(t) \/ LeaveLoad(t) \/ LeaveStore(t)

\* Every thread that is in the middle of a call, or holds the lock, keeps being
\* scheduled; a thread that does not use the lock never has to ask for it.
Fairness ==
  \A t \in Threads : WF_vars(Served(t)) /\ WF_vars(LeaveLoad(t)) /\ WF_vars(LeaveStore(t))

Spec == Init /\ [][Next]_vars

FairSpec == Spec /\ Fairness
-----------------------------------------------------------------------------
Inside == {t \in Threads : pc[t] \in {"held", "leave"}}

Drawn == {t \in Threads : pc[t] # "idle"}

\* How many tickets are served before ticket x.
Ahead(x) == IF x >= now_serving THEN x - now_serving ELSE x - now_serving + W

\* Two threads never hold the lock together, in particular not when the
\* counters wrap with threads waiting on both sides of the wrap.
MutualExclusion == \A t, u \in Inside : t = u

\* The tickets handed out and not given back are exactly the ones between
\* now_serving and next_ticket: none is skipped, none is handed out twice, and
\* the thread inside is the one whose number is on the board.
TicketsInWindow ==
  /\ next_ticket \in SizeT /\ Ahead(next_ticket) = Cardinality(Drawn)
  /\ \A t \in Drawn : Ahead(ticket[t]) < Cardinality(Drawn)
  /\ \A t, u \in Drawn : t # u => ticket[t] # ticket[u]
  /\ \A t \in Inside : ticket[t] = now_serving

\* The line of waiting threads that the tickets encode.
Line ==
  [i \in 1 .. Cardinality(Drawn) |-> CHOOSE t \in Drawn : Ahead(ticket[t]) = i - 1]

Fifo == INSTANCE FifoMutex WITH queue <- Line, inside <- Inside

\* The counters implement the first-come first-served lock.
ImplementsFifoMutex == Fifo!LockSpec

\* Starvation freedom: a thread that drew a ticket is served.
EventuallyServed == \A t \in Threads : pc[t] = "spin" ~> pc[t] = "held"
=============================================================================
