------------------------------ MODULE TickArena ------------------------------
(***************************************************************************)
(* src/minecraft/tick_arena.[ch]: two bump allocators. Packets are parsed  *)
(* into the current one by the network thread ("net") while the game loop  *)
(* thread ("game") swaps the two once a tick. m_arena_lock is used through *)
(* what FifoMutex promises of it; everything the two threads read or write *)
(* outside of it is an action of its own.                                  *)
(*                                                                         *)
(* One unit of an offset stands for one page.                              *)
(***************************************************************************)
EXTENDS Naturals, Sequences, FiniteSets

CONSTANTS
  W,                    \* number of values of a size_t
  MaxSize,              \* tick_arena_t.max_size
  Slack,                \* SIZE_2MB, what a tick may leave unused and keep
  Sizes,                \* sizes of the arrays a packet asks for
  MaxChunks             \* bound: arrays in one packet

ASSUME ArenaAssumption ==
  /\ W \in Nat /\ W > 2
  /\ MaxSize \in Nat
  /\ Slack \in Nat
  /\ Sizes \subseteq Nat \ {0}
  /\ \A s \in Sizes : MaxSize + s < W
  /\ MaxChunks \in Nat

Arena == {1, 2}         \* m_arena_1 and m_arena_2

VARIABLES
  queue, inside,        \* m_arena_lock
  cur,                  \* m_current_tick_arena
  nxt,                  \* m_next_tick_arena
  users,                \* tick_arena_t.users, a size_t
  offset,               \* tick_arena_t.current_offset
  last,                 \* tick_arena_t.last_offset
  gpc,                  \* where the game loop is in switch_tick_arenas
  gOff, gLast,          \* the offsets that reset_arena read
  npc,                  \* where the network thread is with its packet
  nArena,               \* local arena of dispatch_<phase>_<packet>
  nPtr, nSize,          \* the allocation in progress
  nRet,                 \* the pointer return_tick_arena loaded
  chunks,               \* the arrays of the packet being processed
  lost,                 \* history: the kernel was given pages of such an array
  hit,                  \* history: a switch happened in the middle of this packet
  crossed               \* history: ... or of an earlier one

lock == <<queue, inside>>
game == <<gpc, gOff, gLast>>
net  == <<npc, nArena, nPtr, nSize, nRet, chunks>>
history == <<lost, hit, crossed>>
vars == <<lock, cur, nxt, users, offset, last, game, net, history>>

Lock == INSTANCE FifoMutex WITH Threads <- {"game", "net"}

GameSteps == {"sleep", "enter", "swap", "read", "advise", "clear", "leave", "wait", "tick"}
NetSteps  == {"idle", "enter", "point", "count", "leave", "use", "store", "load", "drop"}

\* From the increment of users until its decrement.
Counted == npc \in {"leave", "use", "store", "load", "drop"}

\* From the increment until return_tick_arena picks the arena to decrement.
InPacket == npc \in {"leave", "use", "store", "load"}

Chunk == [arena : Arena, at : Nat, size : Sizes]
Pages(c) == c.at .. c.at + c.size - 1

TypeOK ==
  /\ Lock!LockTypeOK
  /\ cur \in Arena /\ nxt \in Arena
  /\ users \in [Arena -> 0 .. W - 1]
  /\ offset \in [Arena -> 0 .. MaxSize]
  /\ last \in [Arena -> 0 .. MaxSize]
  /\ gpc \in GameSteps
  /\ gOff \in 0 .. MaxSize /\ gLast \in 0 .. MaxSize
  /\ npc \in NetSteps
  /\ nArena \in Arena /\ nRet \in Arena
  /\ nPtr \in 0 .. MaxSize /\ nSize \in Sizes \cup {0}
  /\ chunks \in Seq(Chunk)
  /\ lost \in BOOLEAN /\ hit \in BOOLEAN /\ crossed \in BOOLEAN

\* After init_tick_arenas; the arenas are static and zeroed.
Init ==
  /\ Lock!LockInit
  /\ cur = 1 /\ nxt = 2
  /\ users = [a \in Arena |-> 0]
  /\ offset = [a \in Arena |-> 0]
  /\ last = [a \in Arena |-> 0]
  /\ gpc = "sleep" /\ gOff = 0 /\ gLast = 0
  /\ npc = "idle" /\ nArena = 1 /\ nPtr = 0 /\ nSize = 0 /\ nRet = 1
  /\ chunks = <<>>
  /\ lost = FALSE /\ hit = FALSE /\ crossed = FALSE
-----------------------------------------------------------------------------
(* The game loop: one turn is one tick.                                    *)

GEnter ==
  /\ gpc = "sleep" /\ gpc' = "enter"
  /\ Lock!Arrive("game")
  /\ UNCHANGED <<cur, nxt, users, offset, last, gOff, gLast, net, history>>

GAcquire ==
  /\ gpc = "enter" /\ gpc' = "swap"
  /\ Lock!Acquire("game")
  /\ UNCHANGED <<cur, nxt, users, offset, last, gOff, gLast, net, history>>

\* The three assignments of the two pointers. Only m_current_tick_arena is
\* ever read by the other thread, so the three are one step for it.
GSwap ==
  /\ gpc = "swap" /\ gpc' = "read"
  /\ nxt' = cur
  /\ cur' = nxt
  /\ hit' = (hit \/ InPacket)
  /\ crossed' = (crossed \/ InPacket)
  /\ UNCHANGED <<lock, users, offset, last, gOff, gLast, net, lost>>

\* reset_arena(m_next_tick_arena), the loads of its condition.
GRead ==
  /\ gpc = "read" /\ gpc' = "advise"
  /\ gOff' = offset[nxt]
  /\ gLast' = last[nxt]
  /\ UNCHANGED <<lock, cur, nxt, users, offset, last, net, history>>

\* reset_arena, madvise: pages in [gOff, gLast) lose what was written to them.
\* The call makes the compiler load current_offset again.
GAdvise ==
  /\ gpc = "advise" /\ gpc' = "clear"
  /\ IF gOff < gLast /\ gLast - gOff > Slack
     THEN /\ gOff' = offset[nxt]
          /\ lost' = (lost \/ \E i \in DOMAIN chunks :
                                /\ chunks[i].arena = nxt
                                /\ Pages(chunks[i]) \cap (gOff .. gLast - 1) # {})
     ELSE UNCHANGED <<gOff, lost>>
  /\ UNCHANGED <<lock, cur, nxt, users, offset, last, gLast, net, hit, crossed>>

\* reset_arena, the two stores (nobody else reads last_offset).
GClear ==
  /\ gpc = "clear" /\ gpc' = "leave"
  /\ last' = [last EXCEPT ![nxt] = gOff]
  /\ offset' = [offset EXCEPT ![nxt] = 0]
  /\ gOff' = 0 /\ gLast' = 0
  /\ UNCHANGED <<lock, cur, nxt, users, net, history>>

\* Mutant: switch_tick_arenas waits with the lock held.
GLeaveLocked ==
  /\ gpc = "leave" /\ gpc' = "wait"
  /\ UNCHANGED <<lock, cur, nxt, users, offset, last, gOff, gLast, net, history>>

GLeave ==
  /\ gpc = "leave" /\ gpc' = "wait"
  /\ Lock!Release("game")
  /\ UNCHANGED <<cur, nxt, users, offset, last, gOff, gLast, net, history>>

\* The load that ends the loop: it looks at the users of the NEW current arena.
GWait ==
  /\ gpc = "wait" /\ gpc' = "tick"
  /\ users[cur] = 0
  /\ UNCHANGED <<lock, cur, nxt, users, offset, last, gOff, gLast, net, history>>

\* game_loop_thread sleeps until its next tick.
GSleep ==
  /\ gpc = "tick" /\ gpc' = "sleep"
  /\ UNCHANGED <<lock, cur, nxt, users, offset, last, gOff, gLast, net, history>>

GameNext == \/ GEnter \/ GAcquire \/ GSwap \/ GRead \/ GAdvise
            \/ GClear \/ GLeave \/ GWait \/ GSleep
-----------------------------------------------------------------------------
(* The network thread: get_tick_arena, the allocations, return_tick_arena. *)

NEnter ==
  /\ npc = "idle" /\ npc' = "enter"
  /\ Lock!Arrive("net")
  /\ UNCHANGED <<cur, nxt, users, offset, last, game, nArena, nPtr, nSize, nRet, chunks, history>>

\* Mutant: get_tick_arena without the lock.
NAcquireUnlocked ==
  /\ npc = "enter" /\ npc' = "point"
  /\ UNCHANGED <<lock, cur, nxt, users, offset, last, game, nArena, nPtr, nSize, nRet, chunks, history>>

NAcquire ==
  /\ npc = "enter" /\ npc' = "point"
  /\ Lock!Acquire("net")
  /\ UNCHANGED <<cur, nxt, users, offset, last, game, nArena, nPtr, nSize, nRet, chunks, history>>

NPoint ==
  /\ npc = "point" /\ npc' = "count"
  /\ nArena' = cur
  /\ UNCHANGED <<lock, cur, nxt, users, offset, last, game, nPtr, nSize, nRet, chunks, history>>

\* Mutant: the increment is forgotten.
NCountNone ==
  /\ npc = "count" /\ npc' = "leave"
  /\ UNCHANGED <<lock, cur, nxt, users, offset, last, game, nArena, nPtr, nSize, nRet, chunks, history>>

\* arena->users++ is not atomic, but only this thread ever writes users.
NCount ==
  /\ npc = "count" /\ npc' = "leave"
  /\ users' = [users EXCEPT ![nArena] = (@ + 1) % W]
  /\ UNCHANGED <<lock, cur, nxt, offset, last, game, nArena, nPtr, nSize, nRet, chunks, history>>

NLeave ==
  /\ npc = "leave" /\ npc' = "use"
  /\ Lock!Release("net")
  /\ UNCHANGED <<cur, nxt, users, offset, last, game, nArena, nPtr, nSize, nRet, chunks, history>>

\* Mutant: the comparison leaves the size of the array out.
NAllocLoadUnchecked(s) ==
  /\ npc = "use"
  /\ Len(chunks) < MaxChunks
  /\ offset[nArena] < MaxSize
  /\ npc' = "store"
  /\ nPtr' = offset[nArena] /\ nSize' = s
  /\ UNCHANGED <<lock, cur, nxt, users, offset, last, game, nArena, nRet, chunks, history>>

\* tick_arena_alloc_unlocked, the load and the comparison ...
NAllocLoad(s) ==
  /\ npc = "use"
  /\ Len(chunks) < MaxChunks
  /\ offset[nArena] + s <= MaxSize
  /\ npc' = "store"
  /\ nPtr' = offset[nArena] /\ nSize' = s
  /\ UNCHANGED <<lock, cur, nxt, users, offset, last, game, nArena, nRet, chunks, history>>

\* ... and the store of the new offset.
NAllocStore ==
  /\ npc = "store" /\ npc' = "use"
  /\ offset' = [offset EXCEPT ![nArena] = nPtr + nSize]
  /\ chunks' = Append(chunks, [arena |-> nArena, at |-> nPtr, size |-> nSize])
  /\ nPtr' = 0 /\ nSize' = 0
  /\ UNCHANGED <<lock, cur, nxt, users, last, game, nArena, nRet, history>>

\* NULL: the reader gives up and the packet ends in its cleanup.
NAllocNull(s) ==
  /\ npc = "use"
  /\ Len(chunks) < MaxChunks
  /\ offset[nArena] + s > MaxSize
  /\ npc' = "load"
  /\ UNCHANGED <<lock, cur, nxt, users, offset, last, game, nArena, nPtr, nSize, nRet, chunks, history>>

\* The packet is parsed and processed.
NDone ==
  /\ npc = "use" /\ npc' = "load"
  /\ UNCHANGED <<lock, cur, nxt, users, offset, last, game, nArena, nPtr, nSize, nRet, chunks, history>>

\* Mutant: the other arena is returned.
NReturnLoadOther ==
  /\ npc = "load" /\ npc' = "drop"
  /\ nRet' = nxt
  /\ chunks' = <<>> /\ lost' = FALSE /\ hit' = FALSE
  /\ UNCHANGED <<lock, cur, nxt, users, offset, last, game, nArena, nPtr, nSize, crossed>>

\* return_tick_arena loads m_current_tick_arena, without the lock and whatever
\* its parameter is; the arrays are not used any more.
NReturnLoad ==
  /\ npc = "load" /\ npc' = "drop"
  /\ nRet' = cur
  /\ chunks' = <<>> /\ lost' = FALSE /\ hit' = FALSE
  /\ UNCHANGED <<lock, cur, nxt, users, offset, last, game, nArena, nPtr, nSize, crossed>>

\* Mutant: a path on which the arena is not returned.
NDropNone ==
  /\ npc = "drop" /\ npc' = "idle"
  /\ UNCHANGED <<lock, cur, nxt, users, offset, last, game, nArena, nPtr, nSize, nRet, chunks, history>>

\* return_tick_arena, the atomic addition of -1.
NDrop ==
  /\ npc = "drop" /\ npc' = "idle"
  /\ users' = [users EXCEPT ![nRet] = (@ + W - 1) % W]
  /\ UNCHANGED <<lock, cur, nxt, offset, last, game, nArena, nPtr, nSize, nRet, chunks, history>>

Alloc == \E s \in Sizes : NAllocLoad(s) \/ NAllocNull(s)

PacketNext == \/ NAcquire \/ NPoint \/ NCount \/ NLeave \/ Alloc
              \/ NAllocStore \/ NDone \/ NReturnLoad \/ NDrop

NetNext == NEnter \/ PacketNext

Next == GameNext \/ NetNext

\* Both threads keep running. The loop on users is only as good as the moments
\* at which it looks, so it is promised nothing beyond weak fairness, and no
\* packet ever has to arrive.
Fairness ==
  /\ WF_vars(GameNext)
  /\ WF_vars(PacketNext)

Spec == Init /\ [][Next]_vars

FairSpec == Spec /\ Fairness
-----------------------------------------------------------------------------
Holders(a) == IF Counted /\ nArena = a THEN 1 ELSE 0

Overlap(c, d) == c.arena = d.arena /\ Pages(c) \cap Pages(d) # {}

\* The arrays of the packet being processed are its own: none shares a page
\* with another and none was handed back to the kernel.
ChunksIntact ==
  /\ ~lost
  /\ \A i, j \in DOMAIN chunks : i # j => ~Overlap(chunks[i], chunks[j])

\* get_tick_arena is atomic towards the switch: the arena it counts and gives
\* out is the current one when it returns, and never one being reset.
GetIsCurrent == npc \in {"count", "leave"} => nArena = cur

\* Outside of the critical section the two pointers name the two arenas.
PointersDistinct == cur # nxt

\* The increments and decrements of users balance, modulo size_t, whichever
\* arena they landed on: the two counters together say if a packet is open.
UsersConserved ==
  (users[1] + users[2]) % W = (IF Counted THEN 1 ELSE 0)

\* tick_arena.h: users counts the holders of each arena, the arrays of a packet
\* stay intact and the switch only ever resets an arena without a holder. The
\* first holds until a switch falls into a packet. The others hold of each packet
\* into which none falls, whatever an earlier one did to counters and offsets.
ContractUnlessCrossed ==
  /\ ~crossed => \A a \in Arena : users[a] = Holders(a)
  /\ ~hit => ChunksIntact
  /\ ~hit /\ InPacket /\ gpc \in {"read", "advise", "clear"} => nArena # nxt

\* A packet always gets its arena and ends, even when the game loop hangs: the
\* game loop never waits while it holds m_arena_lock.
PacketsFinish == npc = "enter" ~> npc = "idle"

\* Ticks go on when packets stop, provided no switch ever fell into a packet.
TicksUnlessCrossed ==
  [](~crossed) /\ <>[](npc = "idle") => []<>(gpc = "tick")

-----------------------------------------------------------------------------
(* What the comments say and the code does not do.                         *)

\* tick_arena.h:31, the switch is "done once a game tick": it returns again and
\* again, at the very least when no packet is being processed any more.
SwitchReturns == <>[](npc = "idle") => []<>(gpc = "tick")
=============================================================================
