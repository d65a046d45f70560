--------------------------- MODULE GameLoopProofs ---------------------------
(***************************************************************************)
(* What src/minecraft/game.c guarantees for clocks of any resolution, any  *)
(* rate and any time that the loop is held up.                             *)
(***************************************************************************)
EXTENDS GameLoop, TLAPS

\* There is something to sleep for in a pause only, and a tick that met a new
\* second is followed by none.
PlaceInv ==
  /\ pc \notin {"sleep", "eintr"} => req = 0
  /\ pc = "tick" => (turned = TRUE /\ secs >= 1) \/ (turned = FALSE /\ secs = 0)
  /\ pc \in {"sleep", "eintr"} => turned = FALSE

\* What was slept and what is left make a whole pause.
PauseInv ==
  /\ pc \in {"sleep", "eintr"} => idle + req >= Tick
  /\ pc \in {"count", "start"} /\ turned = FALSE => idle = Tick

\* The pause that is still to come of the ticks that were counted.
Owed == IF pc = "tick" /\ turned = FALSE THEN Tick ELSE req

\* As long as no report is due the second is not over, and all counted ticks but
\* the last had their pauses in it. A tick begun in spite of a due report is the last.
RateInv ==
  /\ due = FALSE => (tps - turns) * Tick <= wall + Owed
  /\ due = TRUE => tps - turns <= Rate
  /\ due = TRUE /\ pc = "start" => tps - turns < Rate

IInv == TypeOK /\ PlaceInv /\ PauseInv /\ RateInv

-----------------------------------------------------------------------------
(* Arithmetic.                                                             *)

LEMMA DivMod ==
  ASSUME NEW a \in Int, NEW b \in Nat, b > 0
  PROVE  /\ a \div b \in Int /\ a % b \in 0 .. b - 1
         /\ a = b * (a \div b) + (a % b)
OBVIOUS

\* A quotient is the one number that leaves a remainder in range.
LEMMA DivIs ==
  ASSUME NEW a \in Int, NEW b \in Nat, b > 0, NEW q \in Int, NEW r \in Int,
         a = b * q + r, 0 <= r, r < b
  PROVE  a \div b = q /\ a % b = r
OBVIOUS

LEMMA OneMore ==
  ASSUME NEW a \in Int, NEW t \in Int
  PROVE  (a + 1) * t = a * t + t /\ (a - 1) * t = a * t - t
OBVIOUS

LEMMA TimesMonotone ==
  ASSUME NEW a \in Int, NEW b \in Int, NEW t \in Nat, a <= b
  PROVE  a * t <= b * t
OBVIOUS

LEMMA TimesPositive ==
  ASSUME NEW a \in Nat, NEW b \in Nat, a >= 1, b >= 1
  PROVE  a * b \in Nat /\ a * b >= 1 /\ a * b >= b
OBVIOUS

\* One step of a clock that counts to s.
LEMMA Wraps ==
  ASSUME NEW s \in Nat, s > 0, NEW x \in 0 .. s - 1
  PROVE  (x + 1) % s = IF x + 1 = s THEN 0 ELSE x + 1
<1>1. CASE x + 1 = s
  <2>1. x + 1 = s * 1 + 0
    BY <1>1
  <2>2. (x + 1) % s = 0
    BY <2>1, DivIs
  <2> QED BY <1>1, <2>2
<1>2. CASE x + 1 # s
  <2>1. x + 1 = s * 0 + (x + 1) /\ x + 1 < s /\ 0 <= x + 1
    BY <1>2
  <2>2. (x + 1) % s = x + 1
    BY <2>1, DivIs
  <2> QED BY <1>2, <2>2
<1> QED BY <1>1, <1>2

Pause == Millis \div Rate

\* A pause is a whole number of milliseconds, less than a second, and the pauses of
\* all the ticks of a second fill it.
LEMMA Sizes ==
  /\ Millis \in Nat /\ Millis >= 1 /\ Nanos \in Nat /\ Nanos >= 1 /\ Rate \in Nat /\ Rate > 1
  /\ Pause \in Nat /\ Pause >= 1 /\ Pause < Millis
  /\ Tick = Pause * Nanos /\ Tick \in Nat /\ Tick >= 1
  /\ Second \in Nat /\ Second >= 1 /\ Second = Rate * Tick
<1>1. /\ Millis \in Nat /\ Millis >= 1 /\ Nanos \in Nat /\ Nanos >= 1
      /\ Rate \in Nat /\ Rate > 1 /\ Millis % Rate = 0
  BY LoopAssumption
<1> DEFINE q == Pause
<1>2. q \in Int /\ Millis = Rate * q + 0
  BY <1>1, DivMod DEF Pause
<1> HIDE DEF q
<1>3. q >= 1
  <2>1. CASE q <= 0
    <3>1. q * Rate <= 0 * Rate
      BY <1>1, <1>2, <2>1, TimesMonotone
    <3> QED BY <1>1, <1>2, <3>1
  <2> QED BY <1>2, <2>1
<1>4. q \in Nat /\ q < Millis
  <2>1. 2 * q <= Rate * q
    BY <1>1, <1>2, <1>3, TimesMonotone
  <2> QED BY <1>1, <1>2, <1>3, <2>1
<1>5. Tick = q * Nanos /\ Tick \in Nat /\ Tick >= 1
  <2>1. Tick = q * Nanos
    BY DEF Tick, q, Pause
  <2> QED BY <1>1, <1>3, <1>4, <2>1, TimesPositive
<1>6. Second = Rate * Tick
  <2>1. (Rate * q) * Nanos = Rate * (q * Nanos)
    BY <1>1, <1>4
  <2> QED BY <1>1, <1>2, <1>5, <2>1 DEF Second
<1>7. Second \in Nat /\ Second >= 1
  BY <1>1, TimesPositive DEF Second
<1> QED BY <1>1, <1>3, <1>4, <1>5, <1>6, <1>7 DEF q

\* If what is counted takes less than a second and a pause, it is no more than Rate.
LEMMA FewEnough ==
  ASSUME NEW x \in Int, NEW y \in Int, x * Tick <= y
  PROVE  /\ y < Second => x < Rate
         /\ y < Second + Tick => x <= Rate
<1>1. Rate \in Nat /\ Tick \in Nat /\ Tick >= 1 /\ Second = Rate * Tick
  BY Sizes
<1> DEFINE t == Tick
           s == Second
<1>2. t \in Nat /\ s \in Int /\ s = Rate * t /\ x * t <= y
  BY <1>1, Sizes
<1> HIDE DEF t, s
<1>3. ASSUME y < s PROVE x < Rate
  <2>1. CASE Rate <= x
    <3>1. Rate * t <= x * t
      BY <1>1, <1>2, <2>1, TimesMonotone
    <3>2. x * t \in Int
      BY <1>2
    <3> QED BY <1>2, <1>3, <3>1, <3>2
  <2> QED BY <1>1, <2>1
<1>4. ASSUME y < s + t PROVE x <= Rate
  <2>1. CASE Rate + 1 <= x
    <3>1. (Rate + 1) * t <= x * t
      BY <1>1, <1>2, <2>1, TimesMonotone
    <3>2. (Rate + 1) * t = Rate * t + t
      BY <1>1, <1>2, OneMore
    <3>3. x * t \in Int
      BY <1>2
    <3> QED BY <1>2, <1>4, <3>1, <3>2, <3>3
  <2> QED BY <1>1, <2>1
<1> QED BY <1>3, <1>4 DEF t, s

\* What TypeOK says, variable by variable.
LEMMA TypeFacts ==
  ASSUME TypeOK
  PROVE  /\ mono \in 0 .. Second - 1 /\ wall \in 0 .. Second - 1 /\ tick_start \in 0 .. Second - 1
         /\ mono \in Int /\ wall \in Int /\ tick_start \in Int
         /\ secs \in Nat /\ tps \in Nat /\ stay \in Nat /\ turns \in Nat
         /\ req \in Nat /\ req <= Tick /\ idle \in Nat /\ idle <= Tick
BY Sizes DEF TypeOK

LEMMA Truths ==
  ASSUME TypeOK
  PROVE  (due = TRUE \/ due = FALSE) /\ (turned = TRUE \/ turned = FALSE)
<1>1. due \in BOOLEAN /\ turned \in BOOLEAN
  BY DEF TypeOK
<1> QED BY <1>1

LEMMA TypeThen ==
  ASSUME pc' \in {"start", "tick", "sleep", "eintr", "count"},
         mono' \in 0 .. Second - 1, wall' \in 0 .. Second - 1, tick_start' \in 0 .. Second - 1,
         due' = TRUE \/ due' = FALSE, turned' = TRUE \/ turned' = FALSE,
         secs' \in Nat, tps' \in Nat, stay' \in Nat, turns' \in Nat,
         req' \in Nat, req' <= Tick, idle' \in Nat, idle' <= Tick
  PROVE  TypeOK'
<1>1. due' \in BOOLEAN /\ turned' \in BOOLEAN
  OBVIOUS
<1>2. req' \in 0 .. Tick /\ idle' \in 0 .. Tick
  BY Sizes
<1> QED BY <1>1, <1>2 DEF TypeOK

-----------------------------------------------------------------------------
(* The invariant is inductive.                                             *)

LEMMA InitInv == Init => IInv
<1> SUFFICES ASSUME Init PROVE IInv
  OBVIOUS
<1>1. /\ pc = "start" /\ mono \in 0 .. Second - 1 /\ wall \in 0 .. Second - 1
      /\ due = FALSE /\ secs = 0 /\ tick_start = 0 /\ req = 0 /\ tps = 0
      /\ stay = 0 /\ idle = Tick /\ turned = FALSE /\ turns = 0
  BY DEF Init
<1>2. 0 \in 0 .. Second - 1 /\ 0 \in 0 .. Tick /\ Tick \in 0 .. Tick
  BY Sizes
<1>3. TypeOK
  <2>1. {mono, wall, tick_start} \subseteq 0 .. Second - 1
    BY <1>1, <1>2
  <2>2. due \in BOOLEAN /\ turned \in BOOLEAN
    BY <1>1
  <2>3. {secs, tps, stay, turns} \subseteq Nat
    BY <1>1
  <2>4. req \in 0 .. Tick /\ idle \in 0 .. Tick
    BY <1>1, <1>2
  <2> QED BY <1>1, <2>1, <2>2, <2>3, <2>4 DEF TypeOK
<1>4. (tps - turns) * Tick <= wall + req
  <2>1. 0 * Tick = 0 /\ tps - turns = 0 /\ wall + req = wall /\ 0 <= wall
    BY <1>1, Sizes
  <2> QED BY <2>1
<1> QED BY <1>1, <1>3, <1>4 DEF IInv, PlaceInv, PauseInv, RateInv, Owed

\* A signal and what follows it.
LEMMA SignalKeeps ==
  ASSUME IInv, Signal \/ Resume
  PROVE  IInv'
<1>1. /\ pc \in {"sleep", "eintr"} /\ pc' \in {"sleep", "eintr"}
      /\ UNCHANGED <<mono, wall, idle, due, secs, tick_start, req, tps, stay, turned, turns>>
  BY DEF Signal, Resume, clocks, seconds
<1>2. TypeOK'
  BY <1>1 DEF IInv, TypeOK
<1>3. Owed' = Owed
  BY <1>1 DEF Owed
<1> QED BY <1>1, <1>2, <1>3 DEF IInv, PlaceInv, PauseInv, RateInv

LEMMA AwakeKeeps ==
  ASSUME IInv, Awake
  PROVE  IInv'
<1>1. /\ pc = "sleep" /\ pc' = "count" /\ stay' = 0 /\ req = 0
      /\ UNCHANGED <<mono, wall, idle, due, secs, tick_start, req, tps, turned, turns>>
  BY DEF Awake, clocks, seconds
<1>2. TypeOK'
  BY <1>1 DEF IInv, TypeOK
<1>3. Owed' = Owed
  BY <1>1 DEF Owed
<1>4. idle = Tick
  BY <1>1, TypeFacts, Sizes DEF IInv, PauseInv
<1> QED BY <1>1, <1>2, <1>3, <1>4 DEF IInv, PlaceInv, PauseInv, RateInv

LEMMA CountKeeps ==
  ASSUME IInv, Count
  PROVE  IInv'
<1>1. /\ pc = "count" /\ pc' = "start" /\ stay' = 0
      /\ UNCHANGED <<mono, wall, idle, secs, tick_start, req, turned>>
  BY DEF Count, clocks
<1>2. \/ due = TRUE /\ due' = FALSE /\ tps' = 0 /\ turns' = 0
      \/ due = FALSE /\ due' = FALSE /\ tps' = tps /\ turns' = turns
  BY Truths DEF Count, IInv
<1>3. TypeOK'
  <2>1. TypeOK
    BY DEF IInv
  <2>2. /\ mono' \in 0 .. Second - 1 /\ wall' \in 0 .. Second - 1 /\ tick_start' \in 0 .. Second - 1
        /\ secs' \in Nat /\ req' \in Nat /\ req' <= Tick /\ idle' \in Nat /\ idle' <= Tick
    BY <1>1, <2>1, TypeFacts
  <2>3. tps' \in Nat /\ turns' \in Nat /\ due' = FALSE
    BY <1>2, <2>1, TypeFacts
  <2>4. turned' = TRUE \/ turned' = FALSE
    BY <1>1, <2>1, Truths
  <2> QED BY <1>1, <2>2, <2>3, <2>4, TypeThen
<1>4. PlaceInv' /\ PauseInv'
  BY <1>1 DEF IInv, PlaceInv, PauseInv
<1>5. Owed = req /\ Owed' = req
  BY <1>1 DEF Owed
<1>6. (tps' - turns') * Tick <= wall' + Owed'
  <2>1. CASE due = TRUE
    <3>1. 0 * Tick = 0 /\ tps' - turns' = 0 /\ 0 <= wall + req
      BY <1>2, <2>1, Sizes, TypeFacts DEF IInv
    <3> QED BY <3>1, <1>1, <1>5
  <2>2. CASE due = FALSE
    BY <1>1, <1>2, <1>5, <2>2 DEF IInv, RateInv
  <2> QED BY <2>1, <2>2, <1>2
<1>7. RateInv'
  BY <1>2, <1>6 DEF RateInv
<1> QED BY <1>3, <1>4, <1>7 DEF IInv

LEMMA TickStartKeeps ==
  ASSUME IInv, TickStart
  PROVE  IInv'
<1>1. /\ pc = "start" /\ pc' = "tick" /\ stay' = 0 /\ tick_start' = mono /\ secs' = 0
      /\ tps' = tps + 1 /\ turned' = FALSE
      /\ UNCHANGED <<mono, wall, idle, due, req, turns>>
  BY DEF TickStart, clocks
<1>2. /\ tps \in Nat /\ turns \in Nat /\ wall \in Int /\ req = 0
      /\ mono \in 0 .. Second - 1
  BY <1>1, TypeFacts DEF IInv, PlaceInv
<1>3. TypeOK'
  <2>1. TypeOK
    BY DEF IInv
  <2>2. /\ mono' \in 0 .. Second - 1 /\ wall' \in 0 .. Second - 1 /\ tick_start' \in 0 .. Second - 1
        /\ req' \in Nat /\ req' <= Tick /\ idle' \in Nat /\ idle' <= Tick /\ turns' \in Nat
    BY <1>1, <2>1, TypeFacts
  <2>3. tps' \in Nat /\ secs' \in Nat
    BY <1>1, <1>2
  <2>4. due' = TRUE \/ due' = FALSE
    BY <1>1, <2>1, Truths
  <2> QED BY <1>1, <2>2, <2>3, <2>4, TypeThen
<1>4. PlaceInv' /\ PauseInv'
  BY <1>1, <1>2 DEF PlaceInv, PauseInv
<1>5. Owed = 0 /\ Owed' = Tick
  BY <1>1, <1>2 DEF Owed
<1>6. due = FALSE => (tps' - turns') * Tick <= wall' + Owed'
  <2> DEFINE n == tps - turns
             t == Tick
  <2>1. n \in Int /\ t \in Int /\ tps' - turns' = n + 1
    BY <1>1, <1>2, Sizes
  <2>2. due = FALSE => n * t <= wall + 0
    BY <1>5 DEF IInv, RateInv
  <2>3. (n + 1) * t = n * t + t /\ n * t \in Int
    <3> HIDE DEF n, t
    <3> QED BY <2>1, OneMore
  <2>4. wall' + Owed' = wall + t
    BY <1>1, <1>5
  <2> HIDE DEF n, t
  <2>5. due = FALSE => (n + 1) * t <= wall + t
    BY <1>2, <2>1, <2>2, <2>3
  <2>6. due = FALSE => (tps' - turns') * t <= wall' + Owed'
    BY <2>1, <2>4, <2>5
  <2> QED BY <2>6 DEF t
<1>7. due = TRUE => tps' - turns' <= Rate
  BY <1>1, <1>2, Sizes DEF IInv, RateInv
<1>8. RateInv'
  BY <1>1, <1>6, <1>7 DEF RateInv
<1> QED BY <1>3, <1>4, <1>8 DEF IInv

\* The quotient of game.c:73 is 0 whatever the tick took.
LEMMA TickDurationIs ==
  ASSUME TypeOK
  PROVE  TickDuration = secs * Millis
<1> DEFINE d == mono - tick_start
           s == Second
<1>1. d \in Int /\ -s < d /\ d < s /\ s \in Nat /\ s > 0
  BY TypeFacts, Sizes
<1> HIDE DEF d, s
<1>2. Quotient(d, s) = 0
  <2>1. CASE d < 0
    <3>1. -d = s * 0 + (-d) /\ 0 <= -d /\ -d < s /\ -d \in Int
      BY <1>1, <2>1
    <3>2. (-d) \div s = 0
      BY <1>1, <3>1, DivIs
    <3> QED BY <2>1, <3>2 DEF Quotient
  <2>2. CASE ~(d < 0)
    <3>1. d = s * 0 + d /\ 0 <= d
      BY <1>1, <2>2
    <3>2. d \div s = 0
      BY <1>1, <3>1, DivIs
    <3> QED BY <2>2, <3>2 DEF Quotient
  <2> QED BY <2>1, <2>2
<1>3. secs * Millis \in Int
  BY TypeFacts, Sizes
<1> QED BY <1>2, <1>3 DEF TickDuration, d, s

\* A tick that met no new second is followed by a whole pause, another by none.
LEMMA TickEndSleeps ==
  ASSUME IInv, TickEnd
  PROVE  \/ turned = FALSE /\ pc' = "sleep" /\ req' = Tick
         \/ turned = TRUE /\ pc' = "count" /\ req' = req
<1>1. pc = "tick" /\ Sleep(Pause - TickDuration)
  BY DEF TickEnd, Pause
<1>2. TickDuration = secs * Millis
  BY TickDurationIs DEF IInv
<1>3. CASE turned = TRUE /\ secs >= 1
  <2>1. secs \in Nat /\ Millis \in Nat
    BY TypeFacts, Sizes DEF IInv
  <2>2. secs * Millis >= Millis /\ secs * Millis \in Nat
    BY <1>3, <2>1, Sizes, TimesPositive
  <2>3. Pause - TickDuration < 0
    BY <1>2, <2>2, Sizes
  <2> QED BY <1>1, <1>3, <2>3 DEF Sleep
<1>4. CASE turned = FALSE /\ secs = 0
  <2>1. 0 * Millis = 0
    BY Sizes
  <2>2. Pause - TickDuration = Pause
    BY <1>2, <1>4, <2>1, Sizes
  <2>3. Pause \div Millis = 0
    <3>1. Pause = Millis * 0 + Pause /\ 0 <= Pause /\ Pause < Millis
      BY Sizes
    <3> QED BY <3>1, Sizes, DivIs
  <2>4. pc' = "sleep" /\ req' = 0 * Second + (Pause - 0) * Nanos
    <3>1. ~(Pause < 0)
      BY Sizes
    <3> QED BY <1>1, <2>2, <2>3, <3>1 DEF Sleep
  <2>5. req' = Tick
    <3>1. 0 * Second = 0 /\ Pause - 0 = Pause /\ 0 + Tick = Tick
      BY Sizes
    <3> QED BY <2>4, <3>1, Sizes
  <2> QED BY <1>4, <2>4, <2>5
<1> QED BY <1>1, <1>3, <1>4 DEF IInv, PlaceInv

LEMMA TickEndKeeps ==
  ASSUME IInv, TickEnd
  PROVE  IInv'
<1>1. /\ pc = "tick" /\ stay' = 0 /\ secs' = 0 /\ idle' = 0
      /\ UNCHANGED <<mono, wall, due, tick_start, tps, turned, turns>>
  BY DEF TickEnd, seconds
<1>2. req = 0 /\ Tick \in Nat /\ 0 \in 0 .. Tick /\ Tick \in 0 .. Tick
  BY <1>1, Sizes DEF IInv, PlaceInv
<1>3. \/ turned = FALSE /\ pc' = "sleep" /\ req' = Tick
      \/ turned = TRUE /\ pc' = "count" /\ req' = 0
  BY <1>2, TickEndSleeps
<1>4. TypeOK'
  BY <1>1, <1>2, <1>3 DEF IInv, TypeOK
<1>5. PlaceInv' /\ PauseInv'
  BY <1>1, <1>2, <1>3 DEF PlaceInv, PauseInv
<1>6. Owed' = Owed
  BY <1>1, <1>2, <1>3 DEF Owed
<1>7. RateInv'
  BY <1>1, <1>3, <1>6 DEF IInv, RateInv
<1> QED BY <1>4, <1>5, <1>7 DEF IInv

\* A nanosecond.
LEMMA PassKeeps ==
  ASSUME IInv, Pass
  PROVE  IInv'
<1>0. /\ mono \in 0 .. Second - 1 /\ wall \in 0 .. Second - 1 /\ tick_start \in 0 .. Second - 1
      /\ mono \in Int /\ wall \in Int
      /\ secs \in Nat /\ tps \in Nat /\ stay \in Nat /\ turns \in Nat
      /\ req \in Nat /\ req <= Tick /\ idle \in Nat /\ idle <= Tick
      /\ Tick \in Nat /\ Tick >= 1 /\ Second \in Nat /\ Second >= 1 /\ Rate \in Nat
  BY TypeFacts, Sizes DEF IInv
<1>1. /\ pc # "eintr" /\ pc' = pc /\ tick_start' = tick_start /\ tps' = tps
      /\ due' = (due \/ wall' = 0)
      /\ req' = IF req > 0 THEN req - 1 ELSE 0
      /\ stay' \in {stay, stay + 1}
      /\ idle' = IF pc # "tick" /\ idle < Tick THEN idle + 1 ELSE idle
  BY DEF Pass
<1>2. /\ mono' \in 0 .. Second - 1
      /\ wall' = IF wall + 1 = Second THEN 0 ELSE wall + 1
  <2>1. mono' = (mono + 1) % Second /\ wall' = (wall + 1) % Second
    BY DEF Pass
  <2> QED BY <1>0, <2>1, Wraps
<1>3. \/ pc = "tick" /\ secs' = secs + 1 /\ turned = FALSE /\ turned' = TRUE /\ turns' = turns + 1
      \/ pc = "tick" /\ secs' = secs + 1 /\ turned = TRUE /\ turned' = TRUE /\ turns' = turns
      \/ secs' = secs /\ turned' = turned /\ turns' = turns
  <2>1. turned = TRUE \/ turned = FALSE
    BY Truths DEF IInv
  <2>2. CASE pc = "tick" /\ mono' = 0
    <3>1. secs' = secs + 1 /\ turned' = TRUE /\ turns' = IF turned THEN turns ELSE turns + 1
      BY <2>2 DEF Pass
    <3> QED BY <2>1, <2>2, <3>1
  <2>3. CASE ~(pc = "tick" /\ mono' = 0)
    BY <2>3 DEF Pass, seconds
  <2> QED BY <2>2, <2>3
<1>4. /\ wall' = 0 => due' = TRUE
      /\ wall' # 0 => due' = due
  <2>1. due = TRUE \/ due = FALSE
    BY Truths DEF IInv
  <2>2. ASSUME wall' = 0 PROVE due' = TRUE
    BY <1>1, <2>1, <2>2
  <2>3. ASSUME wall' # 0 PROVE due' = due
    BY <1>1, <2>1, <2>3
  <2> QED BY <2>2, <2>3
<1>5. /\ req' \in Nat /\ req' <= Tick /\ req' <= req /\ (req = 0 => req' = 0)
      /\ req <= req' + 1
      /\ idle' \in Nat /\ idle' <= Tick /\ idle <= idle'
  BY <1>0, <1>1
<1>6. TypeOK'
  <2>1. secs' \in Nat /\ turns' \in Nat /\ stay' \in Nat
    BY <1>0, <1>1, <1>3
  <2>2. wall' \in 0 .. Second - 1
    BY <1>0, <1>2
  <2>3. (due' = TRUE \/ due' = FALSE) /\ (turned' = TRUE \/ turned' = FALSE)
    <3>1. (due = TRUE \/ due = FALSE) /\ (turned = TRUE \/ turned = FALSE)
      BY Truths DEF IInv
    <3> QED BY <1>3, <1>4, <3>1
  <2>4. pc' \in {"start", "tick", "sleep", "eintr", "count"}
    BY <1>1 DEF IInv, TypeOK
  <2> QED BY <1>0, <1>1, <1>2, <1>5, <2>1, <2>2, <2>3, <2>4, TypeThen
<1>7. PlaceInv'
  <2>1. (pc \notin {"sleep", "eintr"} => req = 0) /\ (pc \in {"sleep", "eintr"} => turned = FALSE)
        /\ (pc = "tick" => (turned = TRUE /\ secs >= 1) \/ (turned = FALSE /\ secs = 0))
    BY DEF IInv, PlaceInv
  <2> QED BY <1>0, <1>1, <1>3, <1>5, <2>1 DEF PlaceInv
<1>8. PauseInv'
  <2>1. ASSUME pc \in {"sleep", "eintr"} PROVE idle' + req' >= Tick
    <3>1. idle + req >= Tick /\ pc # "tick"
      BY <2>1 DEF IInv, PauseInv
    <3> QED BY <1>0, <1>1, <3>1
  <2>2. ASSUME pc \in {"count", "start"}, turned = FALSE PROVE idle' = Tick
    <3>1. idle = Tick
      BY <2>2 DEF IInv, PauseInv
    <3> QED BY <1>0, <1>1, <3>1
  <2>3. pc \in {"count", "start"} => turned' = turned
    BY <1>3
  <2> QED BY <1>1, <2>1, <2>2, <2>3 DEF PauseInv
<1>9. RateInv'
  <2> DEFINE t == Tick
             n == tps - turns
             m == tps' - turns'
             o == Owed
             p == Owed'
  <2>1. /\ t \in Nat /\ n \in Int /\ m \in Int /\ o \in Nat /\ o <= t /\ p \in Nat
        /\ pc = "start" => o = 0
    BY <1>0, <1>1, <1>3, <1>5 DEF Owed, IInv, PlaceInv
  <2>2. \/ m = n /\ p <= o /\ o <= p + 1
        \/ m = n - 1 /\ o = t /\ p = 0 /\ pc = "tick"
    <3>1. CASE turns' = turns + 1
      <4>1. pc = "tick" /\ turned = FALSE /\ turned' = TRUE /\ req = 0
        BY <1>0, <1>3, <3>1 DEF IInv, PlaceInv
      <4> QED BY <1>0, <1>1, <1>5, <3>1, <4>1 DEF Owed
    <3>2. CASE turns' = turns
      <4>1. turned' = turned
        <5>1. turns # turns + 1
          BY <1>0
        <5>2. CASE turned = FALSE /\ turns' = turns + 1
          BY <3>2, <5>1, <5>2
        <5>3. CASE turned = TRUE /\ turned' = TRUE
          BY <5>3
        <5> QED BY <1>3, <5>2, <5>3
      <4>2. m = n
        BY <1>1, <3>2
      <4>3. p <= o /\ o <= p + 1
        BY <1>0, <1>1, <1>5, <4>1 DEF Owed
      <4> QED BY <4>2, <4>3
    <3> QED BY <1>3, <3>1, <3>2
  <2>3. /\ due = FALSE => n * t <= wall + o
        /\ due = TRUE => n <= Rate
        /\ due = TRUE /\ pc = "start" => n < Rate
    BY DEF IInv, RateInv
  <2>4. (due = TRUE \/ due = FALSE) /\ n * t \in Int /\ m * t \in Int
    <3>1. due = TRUE \/ due = FALSE
      BY Truths DEF IInv
    <3> HIDE DEF n, m, t
    <3> QED BY <2>1, <3>1
  <2>5. m = n - 1 => m * t = n * t - t
    <3> HIDE DEF n, m, t
    <3> QED BY <2>1, OneMore
  <2> HIDE DEF n, m, t, o, p
  <2>6. CASE due = TRUE
    <3>1. due' = TRUE
      BY <1>4, <2>6
    <3>2. m <= Rate /\ (pc = "start" => m < Rate)
      BY <1>0, <2>1, <2>2, <2>3, <2>6
    <3> QED BY <1>1, <3>1, <3>2 DEF RateInv, m
  <2>7. CASE due = FALSE /\ wall + 1 # Second
    <3>1. wall' = wall + 1 /\ due' = FALSE
      BY <1>0, <1>2, <1>4, <2>7
    <3>2. m * t <= wall' + p
      BY <1>0, <2>1, <2>2, <2>3, <2>4, <2>5, <2>7, <3>1
    <3> QED BY <3>1, <3>2 DEF RateInv, m, t, p
  <2>8. CASE due = FALSE /\ wall + 1 = Second
    <3>1. wall' = 0 /\ due' = TRUE
      BY <1>0, <1>2, <1>4, <2>8
    <3>2. m * t <= Second - 1 + o
      BY <1>0, <2>1, <2>2, <2>3, <2>4, <2>5, <2>8
    <3>3. m * Tick <= Second - 1 + o /\ o <= Tick
      BY <2>1, <3>2 DEF t
    <3>4. m <= Rate /\ (o = 0 => m < Rate)
      <4>1. Second - 1 + o \in Int /\ Second - 1 + o < Second + Tick
            /\ (o = 0 => Second - 1 + o < Second)
        BY <1>0, <2>1, <3>3
      <4> QED BY <2>1, <3>3, <4>1, FewEnough
    <3>5. pc = "start" => m < Rate
      BY <2>1, <3>4
    <3> QED BY <1>1, <3>1, <3>4, <3>5 DEF RateInv, m
  <2> QED BY <2>4, <2>6, <2>7, <2>8
<1> QED BY <1>6, <1>7, <1>8, <1>9 DEF IInv

\* The invariant that everything below follows from.
THEOREM Invariance == Spec => []IInv
<1>1. IInv /\ [Next]_vars => IInv'
  <2> SUFFICES ASSUME IInv, [Next]_vars PROVE IInv'
    OBVIOUS
  <2>1. CASE UNCHANGED vars
    BY <2>1 DEF vars, IInv, TypeOK, PlaceInv, PauseInv, RateInv, Owed
  <2>2. CASE TickStart
    BY <2>2, TickStartKeeps
  <2>3. CASE TickEnd
    BY <2>3, TickEndKeeps
  <2>4. CASE Signal \/ Resume
    BY <2>4, SignalKeeps
  <2>5. CASE Awake
    BY <2>5, AwakeKeeps
  <2>6. CASE Count
    BY <2>6, CountKeeps
  <2>7. CASE Pass
    BY <2>7, PassKeeps
  <2> QED BY <2>1, <2>2, <2>3, <2>4, <2>5, <2>6, <2>7 DEF Next, Loop
<1> QED BY InitInv, <1>1, PTL DEF Spec

\* Between two reports there are at most Rate ticks and one for each that met a new
\* second, however long the loop is held up and however often signals come.
THEOREM LoopKeepsRate == Spec => []RateKept
<1>1. IInv => RateKept
  <2> SUFFICES ASSUME IInv PROVE RateKept
    OBVIOUS
  <2>0. /\ wall \in Int /\ wall <= Second - 1 /\ tps \in Nat /\ turns \in Nat /\ req \in Nat
        /\ req <= Tick /\ Tick \in Nat /\ Second \in Nat /\ Rate \in Nat
    BY TypeFacts, Sizes DEF IInv
  <2>1. tps - turns <= Rate
    <3>1. CASE due = FALSE
      <4>1. (tps - turns) * Tick <= wall + Owed
        BY <3>1 DEF IInv, RateInv
      <4>2. Owed \in Nat /\ Owed <= Tick
        BY <2>0 DEF Owed
      <4>3. wall + Owed \in Int /\ wall + Owed < Second + Tick
        BY <2>0, <4>2
      <4>4. tps - turns \in Int
        BY <2>0
      <4> QED BY <4>1, <4>3, <4>4, FewEnough
    <3>2. CASE due = TRUE
      BY <3>2 DEF IInv, RateInv
    <3> QED BY <3>1, <3>2, Truths DEF IInv
  <2>2. tps <= Rate + turns
    BY <2>0, <2>1
  <2> QED BY <2>2 DEF IInv, RateKept
<1> QED BY Invariance, <1>1, PTL

\* A tick begins a whole pause after the last one ended, unless that one met a new
\* second: signals do not shorten the pause and the length of the tick does not either.
THEOREM PausesAreWhole == Spec => PauseIsWhole
<1>1. IInv /\ [Next]_vars => [pc = "start" /\ pc' = "tick" /\ ~turned => idle = Tick]_vars
  <2> SUFFICES ASSUME IInv, pc = "start", ~turned PROVE idle = Tick
    OBVIOUS
  <2>1. turned = FALSE
    BY Truths DEF IInv
  <2> QED BY <2>1 DEF IInv, PauseInv
<1> QED BY Invariance, <1>1, PTL DEF Spec, PauseIsWhole
=============================================================================
