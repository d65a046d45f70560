------------------------------ MODULE GameLoop ------------------------------
(***************************************************************************)
(* src/minecraft/game.c: how the game loop spaces its ticks. Time goes by  *)
(* in steps of a nanosecond, of which a second has few; what is compared   *)
(* and divided is as in the code. The loop may be held up anywhere, and a  *)
(* signal may come while it sleeps.                                        *)
(***************************************************************************)
EXTENDS Integers

CONSTANTS
  Millis,               \* milliseconds in a second
  Nanos,                \* nanoseconds in a millisecond
  Rate,                 \* ticks in a second
  MaxStay               \* bound: how long the loop is held up in one place

\* A second is a whole number of pauses, and more than one: there are 1000
\* milliseconds and 20 ticks.
ASSUME LoopAssumption ==
  /\ {Millis, Nanos, Rate} \subseteq Nat \ {0}
  /\ Rate > 1 /\ Millis % Rate = 0
  /\ MaxStay \in Nat

Second == Millis * Nanos
Tick   == (Millis \div Rate) * Nanos

VARIABLES
  pc,
  mono,                 \* tv_nsec of the monotonic clock
  wall,                 \* nanoseconds since time(NULL) last changed
  due,                  \* time(NULL) - start >= 1
  secs,                 \* tv_sec - tick_start.tv_sec
  tick_start,           \* tick_start.tv_nsec
  req,                  \* what nanosleep has left
  tps,
  stay,                 \* time in this place of the loop
  idle,                 \* history: time since the last tick ended, at most a Tick
  turned,               \* history: a new second came during the last tick
  turns                 \* history: such ticks since tps was 0

vars == <<pc, mono, wall, due, secs, tick_start, req, tps, stay, idle, turned, turns>>
clocks == <<mono, wall, idle>>
seconds == <<turned, turns>>

TypeOK ==
  /\ pc \in {"start", "tick", "sleep", "eintr", "count"}
  /\ {mono, wall, tick_start} \subseteq 0 .. Second - 1
  /\ {due, turned} \subseteq BOOLEAN
  /\ {secs, tps, stay, turns} \subseteq Nat
  /\ req \in 0 .. Tick
  /\ idle \in 0 .. Tick

Init ==
  /\ pc = "start"
  /\ mono \in 0 .. Second - 1 /\ wall \in 0 .. Second - 1
  /\ due = FALSE /\ secs = 0 /\ tick_start = 0 /\ req = 0 /\ tps = 0
  /\ stay = 0 /\ idle = Tick /\ turned = FALSE /\ turns = 0

\* The division of C, towards 0.
Quotient(a, b) == IF a < 0 THEN -((-a) \div b) ELSE a \div b

\* A nanosecond goes by.
Pass ==
  /\ pc # "eintr"
  /\ stay < MaxStay \/ req > 0
  /\ mono' = (mono + 1) % Second
  /\ wall' = (wall + 1) % Second
  /\ due' = (due \/ wall' = 0)
  /\ IF pc = "tick" /\ mono' = 0
     THEN secs' = secs + 1 /\ turned' = TRUE /\ turns' = IF turned THEN turns ELSE turns + 1
     ELSE UNCHANGED <<secs, seconds>>
  /\ req' = IF req > 0 THEN req - 1 ELSE 0
  /\ stay' = IF req > 0 THEN stay ELSE stay + 1
  /\ idle' = IF pc # "tick" /\ idle < Tick THEN idle + 1 ELSE idle
  /\ UNCHANGED <<pc, tick_start, tps>>

TickStart ==
  /\ pc = "start"
  /\ pc' = "tick" /\ stay' = 0
  /\ tick_start' = mono /\ secs' = 0
  /\ tps' = tps + 1
  /\ turned' = FALSE
  /\ UNCHANGED <<clocks, due, req, turns>>

\* Nanoseconds are divided by as many as a second has, where those of a
\* millisecond are meant.
TickDuration == secs * Millis + Quotient(mono - tick_start, Second)

\* safe_sleep, up to its loop: nothing to sleep for if millis is negative.
Sleep(millis) ==
  IF millis < 0
  THEN pc' = "count" /\ UNCHANGED req
  ELSE /\ pc' = "sleep"
       /\ req' = (millis \div Millis) * Second + (millis - millis \div Millis) * Nanos

TickEnd ==
  /\ pc = "tick"
  /\ Sleep(Millis \div Rate - TickDuration)
  /\ stay' = 0 /\ secs' = 0 /\ idle' = 0
  /\ UNCHANGED <<mono, wall, due, tick_start, tps, seconds>>

\* A signal: nanosleep returns and leaves in req what it had left.
Signal ==
  /\ pc = "sleep" /\ req > 0
  /\ pc' = "eintr"
  /\ UNCHANGED <<clocks, due, secs, tick_start, req, tps, stay, seconds>>

\* Mutant: the remaining time is not stored, and the whole is slept again.
ResumeWhole ==
  /\ pc = "eintr"
  /\ pc' = "sleep" /\ req' = Tick
  /\ UNCHANGED <<clocks, due, secs, tick_start, tps, stay, seconds>>

\* Mutant: a signal ends the sleep.
ResumeNone ==
  /\ pc = "eintr"
  /\ pc' = "count" /\ req' = 0
  /\ UNCHANGED <<clocks, due, secs, tick_start, tps, stay, seconds>>

Resume ==
  /\ pc = "eintr"
  /\ pc' = "sleep"
  /\ UNCHANGED <<clocks, due, secs, tick_start, req, tps, stay, seconds>>

Awake ==
  /\ pc = "sleep" /\ req = 0
  /\ pc' = "count" /\ stay' = 0
  /\ UNCHANGED <<clocks, due, secs, tick_start, req, tps, seconds>>

\* Mutant: tps goes on over the report.
CountOn ==
  /\ pc = "count"
  /\ pc' = "start" /\ stay' = 0
  /\ IF due THEN due' = FALSE /\ tps' = tps /\ turns' = 0 ELSE UNCHANGED <<due, tps, turns>>
  /\ UNCHANGED <<clocks, secs, tick_start, req, turned>>

\* Once a second the ticks are reported and counted anew.
Count ==
  /\ pc = "count"
  /\ pc' = "start" /\ stay' = 0
  /\ IF due THEN due' = FALSE /\ tps' = 0 /\ turns' = 0 ELSE UNCHANGED <<due, tps, turns>>
  /\ UNCHANGED <<clocks, secs, tick_start, req, turned>>

Loop == TickStart \/ TickEnd \/ Resume \/ Awake \/ Count

Next == Loop \/ Signal \/ Pass

\* The thread is scheduled, and time goes by between any two signals.
Spec == Init /\ [][Next]_vars /\ WF_vars(Loop) /\ SF_vars(Pass)
-----------------------------------------------------------------------------
\* A tick that did not meet a new second is followed by a whole pause, however
\* often signals come; how long the tick took makes no difference.
PauseIsWhole ==
  [][pc = "start" /\ pc' = "tick" /\ ~turned => idle = Tick]_vars

\* Between two reports there are no more ticks than the rate allows and one
\* for each that met a new second, after which the loop does not pause.
RateKept == TypeOK /\ tps <= Rate + turns

\* The loop goes on ticking, however often signals come.
KeepsTicking == []<>(pc = "tick")
=============================================================================
