-------------------------- MODULE TicketLockProofs --------------------------
(***************************************************************************)
(* What src/sync/ticket_lock.c guarantees for every number of threads and  *)
(* every width of size_t that can tell the threads apart.                  *)
(***************************************************************************)
EXTENDS TicketLock, Sequences, FiniteSetTheorems, TLAPS

\* Ahead as a function of the number on the board too, so that it can be
\* spoken of before and after the board changes.
Dist(s, x) == IF x >= s THEN x - s ELSE x - s + W

\* Between the load and the store of ticket_lock_leave nobody moves the board.
BoardIsOurs == \A t \in Threads : pc[t] = "leave" => new[t] = Succ(now_serving)

IInv == TypeOK /\ TicketsInWindow /\ BoardIsOurs

-----------------------------------------------------------------------------
\* Arithmetic on the circle of W tickets: distance 0 is the ticket itself, one
\* step of the far end adds one, one step of the near end takes one away.
LEMMA DistZero ==
  ASSUME NEW s \in SizeT, NEW x \in SizeT
  PROVE  /\ Dist(s, x) \in Nat
         /\ (Dist(s, x) = 0) <=> (x = s)
  BY TicketAssumption, SMT DEF Dist, SizeT

LEMMA DistInjective ==
  ASSUME NEW s \in SizeT, NEW x \in SizeT, NEW y \in SizeT,
         Dist(s, x) = Dist(s, y)
  PROVE  x = y
  BY TicketAssumption, SMT DEF Dist, SizeT

LEMMA DistSuccFar ==
  ASSUME NEW s \in SizeT, NEW x \in SizeT, Dist(s, x) + 1 < W
  PROVE  /\ Succ(x) \in SizeT
         /\ Dist(s, Succ(x)) = Dist(s, x) + 1
  BY TicketAssumption, SMT DEF Dist, SizeT, Succ

LEMMA DistSuccNear ==
  ASSUME NEW s \in SizeT, NEW x \in SizeT, x # s
  PROVE  /\ Succ(s) \in SizeT
         /\ Dist(Succ(s), x) = Dist(s, x) - 1
  BY TicketAssumption, SMT DEF Dist, SizeT, Succ

\* The successor stays in range.
LEMMA SuccType ==
  ASSUME NEW s \in SizeT
  PROVE  Succ(s) \in SizeT
  BY TicketAssumption, SMT DEF SizeT, Succ

\* W is positive, so 0 is a ticket.
LEMMA ZeroType == 0 \in SizeT
<1>1. Cardinality(Threads) \in Nat
  BY TicketAssumption, FS_CardinalityType
<1> QED BY <1>1, TicketAssumption DEF SizeT

\* The number of threads in the protocol is a number below W, strictly below
\* W - 1 while one of them is idle.
LEMMA DrawnCount ==
  /\ IsFiniteSet(Drawn)
  /\ Cardinality(Drawn) \in Nat
  /\ Cardinality(Drawn) < W
  /\ \A t \in Threads : t \notin Drawn => Cardinality(Drawn) + 1 < W
<1>1. Drawn \subseteq Threads
  BY DEF Drawn
<1>2. /\ IsFiniteSet(Drawn)
      /\ Cardinality(Drawn) <= Cardinality(Threads)
  BY <1>1, TicketAssumption, FS_Subset
<1>3. Cardinality(Drawn) \in Nat /\ Cardinality(Threads) \in Nat
  BY <1>2, TicketAssumption, FS_CardinalityType
<1>4. ASSUME NEW t \in Threads, t \notin Drawn
      PROVE  Cardinality(Drawn) + 1 < W
  <2>1. Drawn \cup {t} \subseteq Threads
    BY <1>1
  <2>2. Cardinality(Drawn \cup {t}) <= Cardinality(Threads)
    BY <2>1, TicketAssumption, FS_Subset
  <2>3. Cardinality(Drawn \cup {t}) = Cardinality(Drawn) + 1
    BY <1>2, <1>4, FS_AddElement
  <2> QED BY <2>2, <2>3, <1>3, TicketAssumption
<1> QED BY <1>2, <1>3, <1>4, TicketAssumption

\* A set of threads with a member is not empty.
LEMMA DrawnSome ==
  ASSUME NEW t \in Drawn
  PROVE  Cardinality(Drawn) >= 1
BY DrawnCount, FS_EmptySet

-----------------------------------------------------------------------------
\* What TicketsInWindow says, in terms of Dist, in one state.
LEMMA AheadIsDist == \A x : Ahead(x) = Dist(now_serving, x)
BY DEF Ahead, Dist

LEMMA InitInv == Init => IInv
<1> SUFFICES ASSUME Init PROVE IInv
  OBVIOUS
<1>1. Drawn = {} /\ Inside = {}
  BY DEF Init, Drawn, Inside
<1>2. Cardinality(Drawn) = 0
  BY <1>1, FS_EmptySet
<1>3. 0 \in SizeT
  BY ZeroType
<1>4. TypeOK
  BY <1>3 DEF Init, TypeOK
<1>5. Ahead(next_ticket) = 0
  BY DEF Init, Ahead
<1> QED BY <1>1, <1>2, <1>3, <1>4, <1>5 DEF IInv, TicketsInWindow, BoardIsOurs, Init

\* The thread inside is the only one: two of them would hold the same ticket.
LEMMA OneInside == IInv => MutualExclusion
BY DEF IInv, TicketsInWindow, MutualExclusion, Inside, Drawn

\* Every action changes pc, ticket and new of one thread only.
LEMMA DrawKeeps ==
  ASSUME IInv, NEW t \in Threads, Draw(t)
  PROVE  IInv'
<1> DEFINE n == Cardinality(Drawn)
<1>1. t \notin Drawn /\ Drawn' = Drawn \cup {t} /\ Inside' = Inside
  BY DEF IInv, TypeOK, Draw, Drawn, Inside
<1>2. IsFiniteSet(Drawn) /\ n \in Nat /\ n + 1 < W
  BY <1>1, DrawnCount
<1>3. Cardinality(Drawn') = n + 1
  BY <1>1, <1>2, FS_AddElement
<1>4. /\ now_serving \in SizeT /\ next_ticket \in SizeT
      /\ Dist(now_serving, next_ticket) = n
  BY AheadIsDist DEF IInv, TypeOK, TicketsInWindow
<1>5. /\ next_ticket' = Succ(next_ticket)
      /\ next_ticket' \in SizeT
      /\ Dist(now_serving, next_ticket') = n + 1
  <2> HIDE DEF n
  <2> QED BY <1>2, <1>4, DistSuccFar DEF Draw
<1>6. TypeOK'
  BY <1>5 DEF IInv, TypeOK, Draw
<1>7. \A u \in Drawn : /\ ticket'[u] = ticket[u]
                       /\ Dist(now_serving, ticket[u]) < n
  BY <1>1, AheadIsDist DEF IInv, TypeOK, TicketsInWindow, Draw, Drawn
<1>8. ticket'[t] = next_ticket
  BY DEF IInv, TypeOK, Draw
<1>9. \A x : Ahead(x)' = Dist(now_serving, x')
  BY DEF Ahead, Dist, Draw
<1>10. TicketsInWindow'
  <2>1. (next_ticket \in SizeT /\ Ahead(next_ticket) = Cardinality(Drawn))'
    BY <1>3, <1>5, <1>9
  <2>2. (\A u \in Drawn : Ahead(ticket[u]) < Cardinality(Drawn))'
    <3> SUFFICES ASSUME NEW u \in Drawn'
                 PROVE  Ahead(ticket[u])' < n + 1
      BY <1>3
    <3>1. CASE u = t
      BY <3>1, <1>8, <1>4, <1>2, <1>9
    <3>2. CASE u \in Drawn
      <4>1. ticket[u] \in SizeT
        BY <3>2 DEF IInv, TypeOK, Drawn
      <4>2. Dist(now_serving, ticket[u]) \in Nat
        BY <4>1, <1>4, DistZero
      <4>3. Ahead(ticket[u])' = Dist(now_serving, ticket[u])
        BY <3>2, <1>7, <1>9
      <4> HIDE DEF n
      <4> QED BY <3>2, <4>2, <4>3, <1>7, <1>2
    <3> QED BY <3>1, <3>2, <1>1
  <2>3. (\A u, v \in Drawn : u # v => ticket[u] # ticket[v])'
    <3>1. \A u \in Drawn : ticket[u] # next_ticket
      <4> HIDE DEF n
      <4> QED BY <1>4, <1>7, <1>2
    <3> QED BY <3>1, <1>1, <1>7, <1>8 DEF IInv, TicketsInWindow
  <2>4. (\A u \in Inside : ticket[u] = now_serving)'
    BY <1>1, <1>7 DEF IInv, TicketsInWindow, Inside, Drawn, Draw
  <2> QED BY <2>1, <2>2, <2>3, <2>4 DEF TicketsInWindow
<1>11. BoardIsOurs'
  BY DEF IInv, TypeOK, BoardIsOurs, Draw
<1> QED BY <1>6, <1>10, <1>11 DEF IInv

LEMMA ServedKeeps ==
  ASSUME IInv, NEW t \in Threads, Served(t)
  PROVE  IInv'
<1>1. Drawn' = Drawn /\ Inside' = Inside \cup {t}
  BY DEF IInv, TypeOK, Served, Drawn, Inside
<1>2. TypeOK'
  BY DEF IInv, TypeOK, Served
<1>3. TicketsInWindow'
  BY <1>1 DEF IInv, TicketsInWindow, Served, Ahead
<1>4. BoardIsOurs'
  BY DEF IInv, TypeOK, BoardIsOurs, Served
<1> QED BY <1>2, <1>3, <1>4 DEF IInv

LEMMA LeaveLoadKeeps ==
  ASSUME IInv, NEW t \in Threads, LeaveLoad(t)
  PROVE  IInv'
<1>1. Drawn' = Drawn /\ Inside' = Inside
  BY DEF IInv, TypeOK, LeaveLoad, Drawn, Inside
<1>2. TypeOK'
  BY SuccType DEF IInv, TypeOK, LeaveLoad
<1>3. TicketsInWindow'
  BY <1>1 DEF IInv, TicketsInWindow, LeaveLoad, Ahead
<1>4. BoardIsOurs'
  BY DEF IInv, TypeOK, BoardIsOurs, LeaveLoad
<1> QED BY <1>2, <1>3, <1>4 DEF IInv

LEMMA LeaveStoreKeeps ==
  ASSUME IInv, NEW t \in Threads, LeaveStore(t)
  PROVE  IInv'
<1> DEFINE n == Cardinality(Drawn)
<1>1. /\ t \in Inside /\ t \in Drawn
      /\ ticket[t] = now_serving
      /\ new[t] = Succ(now_serving)
  BY DEF IInv, TicketsInWindow, BoardIsOurs, LeaveStore, Inside, Drawn
<1>2. Drawn' = Drawn \ {t}
  BY DEF IInv, TypeOK, LeaveStore, Drawn
<1>3. Inside' = {}
  <2>1. Inside = {t}
    BY <1>1, OneInside DEF MutualExclusion
  <2>2. Inside' = Inside \ {t}
    BY DEF IInv, TypeOK, LeaveStore, Inside
  <2> QED BY <2>1, <2>2
<1>4. /\ IsFiniteSet(Drawn) /\ n \in Nat /\ n >= 1
      /\ Cardinality(Drawn') = n - 1
  BY <1>1, <1>2, DrawnCount, DrawnSome, FS_RemoveElement
<1>5. /\ now_serving \in SizeT /\ next_ticket \in SizeT
      /\ Dist(now_serving, next_ticket) = n
      /\ \A u \in Drawn : ticket[u] \in SizeT
  BY AheadIsDist DEF IInv, TypeOK, TicketsInWindow, Drawn
<1>6. now_serving' = Succ(now_serving) /\ next_ticket' = next_ticket
  BY <1>1 DEF LeaveStore
<1>7. \A x : Ahead(x)' = Dist(Succ(now_serving), x')
  BY <1>6 DEF Ahead, Dist
<1>8. next_ticket # now_serving
  <2> HIDE DEF n
  <2> QED BY <1>4, <1>5, DistZero
<1>9. \A u \in Drawn' : /\ ticket'[u] = ticket[u]
                        /\ ticket[u] # now_serving
                        /\ Dist(now_serving, ticket[u]) < n
  BY <1>1, <1>2, AheadIsDist DEF IInv, TypeOK, TicketsInWindow, LeaveStore, Drawn
<1>10. TypeOK'
  BY <1>6, SuccType, ZeroType DEF IInv, TypeOK, LeaveStore
<1>11. TicketsInWindow'
  <2>1. (next_ticket \in SizeT /\ Ahead(next_ticket) = Cardinality(Drawn))'
    BY <1>4, <1>5, <1>6, <1>7, <1>8, DistSuccNear
  <2>2. (\A u \in Drawn : Ahead(ticket[u]) < Cardinality(Drawn))'
    <3> SUFFICES ASSUME NEW u \in Drawn'
                 PROVE  Ahead(ticket[u])' < n - 1
      BY <1>4
    <3>1. Ahead(ticket[u])' = Dist(now_serving, ticket[u]) - 1
      BY <1>2, <1>5, <1>7, <1>9, DistSuccNear
    <3>2. Dist(now_serving, ticket[u]) \in Nat
      BY <1>2, <1>5, DistZero
    <3> HIDE DEF n
    <3> QED BY <3>1, <3>2, <1>4, <1>9
  <2>3. (\A u, v \in Drawn : u # v => ticket[u] # ticket[v])'
    BY <1>2, <1>9 DEF IInv, TicketsInWindow
  <2>4. (\A u \in Inside : ticket[u] = now_serving)'
    BY <1>3
  <2> QED BY <2>1, <2>2, <2>3, <2>4 DEF TicketsInWindow
<1>12. BoardIsOurs'
  <2>1. \A u \in Threads : pc'[u] # "leave"
    BY <1>3 DEF Inside
  <2> QED BY <2>1 DEF BoardIsOurs
<1> QED BY <1>10, <1>11, <1>12 DEF IInv

-----------------------------------------------------------------------------
\* The strengthened invariant holds in every reachable state.
THEOREM Invariance == Spec => []IInv
<1>1. IInv /\ [Next]_vars => IInv'
  <2> SUFFICES ASSUME IInv, [Next]_vars PROVE IInv'
    OBVIOUS
  <2>1. ASSUME NEW t \in Threads, Draw(t) PROVE IInv'
    BY <2>1, DrawKeeps
  <2>2. ASSUME NEW t \in Threads, Served(t) PROVE IInv'
    BY <2>2, ServedKeeps
  <2>3. ASSUME NEW t \in Threads, LeaveLoad(t) PROVE IInv'
    BY <2>3, LeaveLoadKeeps
  <2>4. ASSUME NEW t \in Threads, LeaveStore(t) PROVE IInv'
    BY <2>4, LeaveStoreKeeps
  <2>5. CASE UNCHANGED vars
    BY <2>5 DEF vars, IInv, TypeOK, TicketsInWindow, BoardIsOurs, Drawn, Inside, Ahead
  <2> QED BY <2>1, <2>2, <2>3, <2>4, <2>5 DEF Next
<1> QED BY InitInv, <1>1, PTL DEF Spec

\* The two counters and the locals of enter and leave keep their types.
THEOREM TypeCorrect == Spec => []TypeOK
<1>1. IInv => TypeOK
  BY DEF IInv
<1> QED BY Invariance, <1>1, PTL

\* At most one thread is inside, wherever the counters are.
THEOREM LockExcludes == Spec => []MutualExclusion
BY Invariance, OneInside, PTL

\* The outstanding tickets fill the window between the two counters.
THEOREM TicketsFillTheWindow == Spec => []TicketsInWindow
<1>1. IInv => TicketsInWindow
  BY DEF IInv
<1> QED BY Invariance, <1>1, PTL

-----------------------------------------------------------------------------
(* The line of threads that the tickets encode.                            *)

\* The threads of D in the order in which a board that shows s serves them.
LineOf(D, s, tick) ==
  [i \in 1 .. Cardinality(D) |-> CHOOSE t \in D : Dist(s, tick[t]) = i - 1]

\* Different tickets, none of them as far from s as there are threads.
Window(D, s, tick) ==
  /\ IsFiniteSet(D) /\ s \in SizeT
  /\ \A t \in D : tick[t] \in SizeT /\ Dist(s, tick[t]) < Cardinality(D)
  /\ \A t, u \in D : t # u => tick[t] # tick[u]

\* Every distance is then somebody's: as many threads as distances, and no two at
\* the same one.
LEMMA LineIs ==
  ASSUME NEW D, NEW s, NEW tick, Window(D, s, tick)
  PROVE  /\ LineOf(D, s, tick) \in Seq(D)
         /\ Len(LineOf(D, s, tick)) = Cardinality(D)
         /\ \A i \in 1 .. Cardinality(D) : Dist(s, tick[LineOf(D, s, tick)[i]]) = i - 1
<1> DEFINE n == Cardinality(D)
           f == [t \in D |-> Dist(s, tick[t]) + 1]
<1>1. n \in Nat /\ IsFiniteSet(D)
  BY FS_CardinalityType DEF Window
<1>2. IsFiniteSet(1 .. n) /\ Cardinality(1 .. n) = n
  <2> HIDE DEF n
  <2> QED BY <1>1, FS_Interval
<1>3. \A t \in D : Dist(s, tick[t]) \in 0 .. n - 1
  <2> SUFFICES ASSUME NEW t \in D PROVE Dist(s, tick[t]) \in 0 .. n - 1
    OBVIOUS
  <2>1. s \in SizeT /\ tick[t] \in SizeT /\ Dist(s, tick[t]) < n
    BY DEF Window
  <2>2. Dist(s, tick[t]) \in Nat
    BY <2>1, DistZero
  <2> HIDE DEF n
  <2> QED BY <1>1, <2>1, <2>2
<1>4. f \in Injection(D, 1 .. n)
  <2>1. f \in [D -> 1 .. n]
    <3> HIDE DEF n
    <3> QED BY <1>1, <1>3
  <2>2. ASSUME NEW t \in D, NEW u \in D, f[t] = f[u]
        PROVE  t = u
    <3>1. Dist(s, tick[t]) = Dist(s, tick[u])
      BY <1>3, <2>2
    <3>2. tick[t] = tick[u]
      BY <3>1, DistInjective DEF Window
    <3> QED BY <3>2 DEF Window
  <2> QED BY <2>1, <2>2 DEF Injection, IsInjective
<1>5. f \in Surjection(D, 1 .. n)
  BY <1>1, <1>2, <1>4, FS_Injection
<1>6. ASSUME NEW i \in 1 .. n
      PROVE  /\ LineOf(D, s, tick)[i] \in D
             /\ Dist(s, tick[LineOf(D, s, tick)[i]]) = i - 1
  <2>1. PICK t \in D : f[t] = i
    BY <1>5 DEF Surjection
  <2>2. Dist(s, tick[t]) = i - 1
    <3>1. Dist(s, tick[t]) + 1 = i /\ Dist(s, tick[t]) \in Int
      BY <1>3, <2>1
    <3> QED BY <3>1
  <2>3. LineOf(D, s, tick)[i] = CHOOSE u \in D : Dist(s, tick[u]) = i - 1
    BY DEF LineOf
  <2> QED BY <2>2, <2>3
<1>7. LineOf(D, s, tick) \in [1 .. n -> D]
  BY <1>6 DEF LineOf
<1> HIDE DEF n
<1>8. LineOf(D, s, tick) \in Seq(D) /\ Len(LineOf(D, s, tick)) = n
  BY <1>1, <1>7
<1> QED BY <1>6, <1>8 DEF n

\* There is only one such line.
LEMMA LineUnique ==
  ASSUME NEW D, NEW s, NEW tick, Window(D, s, tick),
         NEW q \in Seq(D), Len(q) = Cardinality(D),
         \A i \in 1 .. Cardinality(D) : Dist(s, tick[q[i]]) = i - 1
  PROVE  q = LineOf(D, s, tick)
<1> DEFINE l == LineOf(D, s, tick)
<1>1. l \in Seq(D) /\ Len(l) = Len(q)
  BY LineIs
<1>2. ASSUME NEW i \in 1 .. Len(q)
      PROVE  q[i] = l[i]
  <2>1. q[i] \in D /\ l[i] \in D
    BY <1>1
  <2>2. Dist(s, tick[q[i]]) = Dist(s, tick[l[i]])
    BY LineIs
  <2>3. tick[q[i]] = tick[l[i]]
    BY <2>1, <2>2, DistInjective DEF Window
  <2> QED BY <2>1, <2>3 DEF Window
<1> HIDE DEF l
<1>3. q = l
  BY <1>1, <1>2
<1> QED BY <1>3 DEF l

\* What the invariant says of the line, now and after a step.
LEMMA LineNow ==
  ASSUME IInv
  PROVE  /\ Window(Drawn, now_serving, ticket)
         /\ Line = LineOf(Drawn, now_serving, ticket)
BY DrawnCount, AheadIsDist DEF IInv, TypeOK, TicketsInWindow, Window, Line, LineOf, Drawn

LEMMA LineThen ==
  ASSUME IInv', NEW E, IsFiniteSet(E), Drawn' = E
  PROVE  /\ Window(E, now_serving', ticket')
         /\ Line' = LineOf(E, now_serving', ticket')
<1>1. \A x : Ahead(x)' = Dist(now_serving', x')
  BY DEF Ahead, Dist
<1>2. \A t \in E : t \in Threads
  BY DEF Drawn
<1> QED BY <1>1, <1>2 DEF IInv, TypeOK, TicketsInWindow, Window, Line, LineOf

\* A thread that draws a ticket joins at the end.
LEMMA DrawArrives ==
  ASSUME IInv, NEW t \in Threads, Draw(t)
  PROVE  Fifo!Arrive(t)
<1> DEFINE n == Cardinality(Drawn)
           E == Drawn \cup {t}
           q == Append(Line, t)
<1>1. t \notin Drawn /\ Drawn' = E /\ Inside' = Inside
  BY DEF IInv, TypeOK, Draw, Drawn, Inside
<1>2. n \in Nat /\ Cardinality(E) = n + 1 /\ IsFiniteSet(E)
  BY <1>1, DrawnCount, FS_AddElement
<1>3. /\ Line \in Seq(Drawn) /\ Len(Line) = n
      /\ \A i \in 1 .. n : Dist(now_serving, ticket[Line[i]]) = i - 1
  BY LineNow, LineIs
<1>4. /\ Window(E, now_serving', ticket')
      /\ Line' = LineOf(E, now_serving', ticket')
  BY <1>1, <1>2, DrawKeeps, LineThen
<1>5. /\ now_serving' = now_serving
      /\ \A u \in Drawn : ticket'[u] = ticket[u]
      /\ ticket'[t] = next_ticket
  BY <1>1 DEF IInv, TypeOK, Draw, Drawn
<1>6. Dist(now_serving, next_ticket) = n
  BY AheadIsDist DEF IInv, TicketsInWindow
<1> HIDE DEF n, E
<1>7. q \in Seq(E) /\ Len(q) = n + 1
  BY <1>2, <1>3 DEF E
<1>8. ASSUME NEW i \in 1 .. n + 1
      PROVE  Dist(now_serving', ticket'[q[i]]) = i - 1
  <2>1. CASE i = n + 1
    <3>1. q[i] = t
      BY <1>2, <1>3, <2>1
    <3> QED BY <1>2, <1>5, <1>6, <2>1, <3>1
  <2>2. CASE i \in 1 .. n
    <3>1. q[i] = Line[i] /\ Line[i] \in Drawn
      BY <1>2, <1>3, <2>2
    <3> QED BY <1>3, <1>5, <2>2, <3>1
  <2>3. i = n + 1 \/ i \in 1 .. n
    BY ONLY <1>2, i \in 1 .. n + 1
  <2> QED BY ONLY <2>1, <2>2, <2>3
<1>9. Line' = q
  <2> HIDE DEF q
  <2> QED BY <1>2, <1>4, <1>7, <1>8, LineUnique
<1>10. ~Fifo!Queued(t)
  BY <1>1, <1>3 DEF Fifo!Queued
<1> QED BY <1>1, <1>9, <1>10 DEF Fifo!Arrive

\* The thread that finds its number on the board is the first of the line, and
\* nobody is inside.
LEMMA ServedAcquires ==
  ASSUME IInv, NEW t \in Threads, Served(t)
  PROVE  Fifo!Acquire(t)
<1> DEFINE n == Cardinality(Drawn)
<1>1. t \in Drawn /\ ticket[t] = now_serving /\ pc[t] = "spin"
  BY DEF Served, Drawn
<1>2. Inside = {}
  <2>1. ASSUME NEW u \in Inside PROVE FALSE
    <3>1. u \in Drawn /\ ticket[u] = ticket[t] /\ u # t
      BY <1>1, <2>1 DEF IInv, TicketsInWindow, Inside, Drawn
    <3> QED BY <1>1, <3>1 DEF IInv, TicketsInWindow
  <2> QED BY <2>1
<1>3. Inside' = {t}
  BY <1>2 DEF IInv, TypeOK, Served, Inside
<1>4. n \in Nat /\ n >= 1
  BY <1>1, DrawnCount, DrawnSome
<1>5. /\ Line \in Seq(Drawn) /\ Len(Line) = n
      /\ Dist(now_serving, ticket[Line[1]]) = 0
  <2>1. Line \in Seq(Drawn) /\ Len(Line) = n
    BY LineNow, LineIs
  <2>2. \A i \in 1 .. n : Dist(now_serving, ticket[Line[i]]) = i - 1
    BY LineNow, LineIs
  <2> HIDE DEF n
  <2> QED BY <1>4, <2>1, <2>2
<1> HIDE DEF n
<1>6. Line # <<>> /\ Line[1] \in Drawn /\ Head(Line) = Line[1]
  BY <1>4, <1>5
<1>7. Line[1] = t
  <2>1. now_serving \in SizeT /\ ticket[Line[1]] \in SizeT
    BY <1>6 DEF IInv, TypeOK, Drawn
  <2>2. ticket[Line[1]] = ticket[t]
    BY <1>1, <1>5, <2>1, DistZero
  <2> QED BY <1>1, <1>6, <2>2 DEF IInv, TicketsInWindow
<1>8. Line' = Line
  <2>1. Drawn' = Drawn
    BY DEF IInv, TypeOK, Served, Drawn
  <2> QED BY <2>1 DEF Line, Ahead, Served
<1> QED BY <1>2, <1>3, <1>6, <1>7, <1>8 DEF Fifo!Acquire

\* Between the load and the store of leave nothing can be told from outside.
LEMMA LeaveLoadHides ==
  ASSUME IInv, NEW t \in Threads, LeaveLoad(t)
  PROVE  Line' = Line /\ Inside' = Inside
<1>1. Drawn' = Drawn /\ Inside' = Inside
  BY DEF IInv, TypeOK, LeaveLoad, Drawn, Inside
<1> QED BY <1>1 DEF Line, Ahead, LeaveLoad

\* The store takes the first out of the line and moves everybody one place up.
LEMMA LeaveStoreReleases ==
  ASSUME IInv, NEW t \in Threads, LeaveStore(t)
  PROVE  Fifo!Release(t)
<1> DEFINE n == Cardinality(Drawn)
           E == Drawn \ {t}
           q == Tail(Line)
<1>1. /\ t \in Inside /\ t \in Drawn
      /\ ticket[t] = now_serving
      /\ now_serving' = Succ(now_serving)
  BY DEF IInv, TicketsInWindow, BoardIsOurs, LeaveStore, Inside, Drawn
<1>2. Drawn' = E /\ Inside' = {}
  <2>1. Inside = {t}
    BY <1>1, OneInside DEF MutualExclusion
  <2> QED BY <2>1 DEF IInv, TypeOK, LeaveStore, Drawn, Inside
<1>3. n \in Nat /\ n >= 1 /\ Cardinality(E) = n - 1 /\ IsFiniteSet(E)
  BY <1>1, DrawnCount, DrawnSome, FS_RemoveElement
<1>4. /\ Line \in Seq(Drawn) /\ Len(Line) = n
      /\ \A i \in 1 .. n : Dist(now_serving, ticket[Line[i]]) = i - 1
  BY LineNow, LineIs
<1>5. /\ Window(E, now_serving', ticket')
      /\ Line' = LineOf(E, now_serving', ticket')
  BY <1>2, <1>3, LeaveStoreKeeps, LineThen
<1>6. /\ now_serving \in SizeT
      /\ \A u \in Drawn : ticket[u] \in SizeT
      /\ \A u \in E : ticket'[u] = ticket[u]
  BY DEF IInv, TypeOK, LeaveStore, Drawn
<1> HIDE DEF n
<1>7. Len(q) = n - 1 /\ \A i \in 1 .. n - 1 : q[i] = Line[i + 1]
  BY <1>3, <1>4
<1>8. ASSUME NEW i \in 1 .. n - 1
      PROVE  q[i] \in E /\ Dist(now_serving', ticket'[q[i]]) = i - 1
  <2> DEFINE u == Line[i + 1]
  <2>1. i + 1 \in 1 .. n /\ i \in Nat /\ i # 0
    BY <1>3
  <2>2. q[i] = u /\ u \in Drawn /\ Dist(now_serving, ticket[u]) = i
    BY <1>4, <1>7, <2>1
  <2> HIDE DEF u
  <2>3. ticket[u] # now_serving
    BY <1>6, <2>1, <2>2, DistZero
  <2>4. u \in E
    BY <1>1, <2>2, <2>3
  <2>5. Dist(Succ(now_serving), ticket[u]) = i - 1
    BY <1>6, <2>2, <2>3, DistSuccNear
  <2> QED BY <1>1, <1>6, <2>2, <2>4, <2>5
<1>9. q \in Seq(E)
  <2>1. q \in Seq(Drawn)
    BY <1>3, <1>4
  <2> HIDE DEF q
  <2> QED BY <1>7, <1>8, <2>1
<1>10. Line' = q
  <2> HIDE DEF q, E
  <2> QED BY <1>3, <1>5, <1>7, <1>8, <1>9, LineUnique
<1> QED BY <1>1, <1>2, <1>10 DEF Fifo!Release

\* ticket_lock.c serves the threads in the order in which they asked: drawing a
\* ticket is taking the last place of a line, and the board lets in the first.
THEOREM TicketLockIsFifo == Spec => ImplementsFifoMutex
<1>1. Init => Fifo!LockInit
  <2> SUFFICES ASSUME Init PROVE Line = <<>> /\ Inside = {}
    BY DEF Fifo!LockInit
  <2>1. Drawn = {} /\ Inside = {}
    BY DEF Init, Drawn, Inside
  <2>2. Cardinality(Drawn) = 0
    BY <2>1, FS_EmptySet
  <2>3. Line \in Seq(Drawn) /\ Len(Line) = 0
    BY <2>2, InitInv, LineNow, LineIs
  <2> QED BY <2>1, <2>3
<1>2. IInv /\ [Next]_vars => [Fifo!LockNext]_(Fifo!lockVars)
  <2> SUFFICES ASSUME IInv, [Next]_vars
               PROVE  Fifo!LockNext \/ UNCHANGED <<Line, Inside>>
    BY DEF Fifo!lockVars
  <2>1. CASE UNCHANGED vars
    BY <2>1 DEF vars, Line, Inside, Drawn, Ahead
  <2>2. ASSUME NEW t \in Threads, Draw(t) PROVE Fifo!LockNext
    BY <2>2, DrawArrives DEF Fifo!LockNext
  <2>3. ASSUME NEW t \in Threads, Served(t) PROVE Fifo!LockNext
    BY <2>3, ServedAcquires DEF Fifo!LockNext
  <2>4. ASSUME NEW t \in Threads, LeaveLoad(t) PROVE UNCHANGED <<Line, Inside>>
    BY <2>4, LeaveLoadHides
  <2>5. ASSUME NEW t \in Threads, LeaveStore(t) PROVE Fifo!LockNext
    BY <2>5, LeaveStoreReleases DEF Fifo!LockNext
  <2> QED BY <2>1, <2>2, <2>3, <2>4, <2>5 DEF Next
<1> QED BY Invariance, <1>1, <1>2, PTL DEF Spec, ImplementsFifoMutex, Fifo!LockSpec
=============================================================================
