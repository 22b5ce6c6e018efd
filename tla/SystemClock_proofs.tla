------------------------- MODULE SystemClock_proofs -------------------------
(***************************************************************************)
(* No alarm is early, late or forgotten, and the wall clock is off by      *)
(* nothing but what its code loses by design: the turns of the counter and *)
(* the bits of the product of a late setting.  For every width of the      *)
(* counter, every set of alarms and the periods that fit into it, every    *)
(* rate of ticks that divides the second, and every time that is set.      *)
(***************************************************************************)
EXTENDS SystemClock, TLAPS

-----------------------------------------------------------------------------
(* The alarms *)

Inv == TypeOK /\ TimeOfAlarm

(* Registering an alarm, on either side of the wrap. *)
LEMMA StartKeepsInv ==
    ASSUME Inv, NEW a \in Alarm, NEW n \in 0 .. MaxPeriod, Start(a, n)
    PROVE  Inv'
<1>1. Wrap(n + nticks + 1) \in 0 .. Word - 1
  BY WordAssumption DEF Inv, TypeOK, Wrap
<1>2. n + 1 \in 1 .. Word - 1
  BY WordAssumption
<1>3. TypeOK'
  BY <1>1, <1>2 DEF Inv, TypeOK, Start
<1>4. ASSUME NEW b \in list'
      PROVE  wait[b]' > 0 /\ time[b]' = Wrap(nticks' + wait[b]') /\ (rollover[b]' <=> nticks' + wait[b]' >= Word)
  <2>1. CASE b = a
    <3>1. wait[b]' = n + 1 /\ time[b]' = Wrap(n + nticks + 1) /\ nticks' = nticks
      BY <2>1 DEF Inv, TypeOK, Start
    <3>2. rollover[b]' = (Wrap(n + nticks + 1) < nticks)
      BY <2>1 DEF Inv, TypeOK, Start
    <3>3. Wrap(n + nticks + 1) < nticks <=> nticks + (n + 1) >= Word
      BY WordAssumption DEF Inv, TypeOK, Wrap
    <3>4. rollover[b]' <=> nticks + (n + 1) >= Word
      BY <3>2, <3>3
    <3>5. Wrap(n + nticks + 1) = Wrap(nticks + (n + 1))
      BY WordAssumption DEF Inv, TypeOK, Wrap
    <3> QED
      BY <3>1, <3>4, <3>5, <1>2 DEF Wrap
  <2>2. CASE b # a
    <3>1. b \in list /\ wait[b]' = wait[b] /\ time[b]' = time[b] /\ rollover[b]' = rollover[b] /\ nticks' = nticks
      BY <2>2, <1>4 DEF Inv, TypeOK, Start
    <3> QED
      BY <3>1 DEF Inv, TimeOfAlarm
  <2> QED
    BY <2>1, <2>2
<1> QED
  BY <1>3, <1>4 DEF Inv, TimeOfAlarm

(* The next tick calls an alarm back exactly when its ticks are up. *)
LEMMA InvOnTime == Inv => OnTime
<1> SUFFICES ASSUME Inv, NEW a \in list
             PROVE  Called(a) <=> wait[a] = 1
  BY DEF OnTime
<1>1. a \in Alarm /\ nticks \in 0 .. Word - 1 /\ wait[a] \in 1 .. Word - 1 /\ time[a] = Wrap(nticks + wait[a])
  BY DEF Inv, TypeOK, TimeOfAlarm
<1>2. rollover[a] <=> nticks + wait[a] >= Word
  BY DEF Inv, TimeOfAlarm
<1> QED
  BY <1>1, <1>2, WordAssumption DEF Called, Later, Now, Wrap

(* A tick moves every alarm one tick closer, and those called back to      *)
(* where their callback wants them.                                        *)
LEMMA TickKeepsInv ==
    ASSUME Inv, NEW period \in [Alarm -> 0 .. MaxPeriod], Tick(period)
    PROVE  Inv'
<1>1. Now \in 0 .. Word - 1 /\ nticks' = Now
  BY WordAssumption DEF Inv, TypeOK, Tick, Now, Wrap
<1>2. ASSUME NEW a \in Alarm
      PROVE  /\ wait[a]' \in 0 .. Word - 1 /\ time[a]' \in 0 .. Word - 1 /\ rollover[a]' \in BOOLEAN
             /\ a \in list' => /\ wait[a]' > 0
                               /\ time[a]' = Wrap(nticks' + wait[a]')
                               /\ rollover[a]' <=> nticks' + wait[a]' >= Word
  <2>1. /\ time[a]' = (IF Called(a) THEN Wrap(time[a] + period[a]) ELSE time[a])
        /\ wait[a]' = (IF Called(a) THEN period[a] ELSE IF a \in list THEN wait[a] - 1 ELSE 0)
    BY DEF Tick
  <2>2. rollover[a]' = (IF Called(a) THEN Wrap(time[a] + period[a]) < Now
                        ELSE IF a \in list THEN Later(a) ELSE rollover[a])
    BY DEF Tick
  <2>3. period[a] \in 0 .. Word - 1 /\ time[a] \in 0 .. Word - 1 /\ wait[a] \in 0 .. Word - 1
        /\ nticks \in 0 .. Word - 1 /\ rollover[a] \in BOOLEAN
    BY WordAssumption DEF Inv, TypeOK
  <2>4. CASE Called(a)
    <3>1. a \in list /\ wait[a] = 1
      BY <2>4, InvOnTime DEF Called, OnTime
    <3>2. time[a] = Now
      BY <3>1, <2>3 DEF Inv, TimeOfAlarm, Now, Wrap
    <3>3. Wrap(time[a] + period[a]) \in 0 .. Word - 1
      BY <2>3, WordAssumption DEF Wrap
    <3>4. a \in list' => period[a] # 0
      BY <2>4 DEF Tick
    <3>5. period[a] # 0 => (Wrap(time[a] + period[a]) < Now <=> Now + period[a] >= Word)
      BY <3>2, <2>3, <1>1, WordAssumption DEF Wrap
    <3>6. time[a]' = Wrap(Now + period[a]) /\ wait[a]' = period[a] /\ nticks' = Now
      BY <2>4, <2>1, <3>2, <1>1
    <3>7. rollover[a]' = (Wrap(time[a] + period[a]) < Now)
      BY <2>4, <2>2
    <3>8. rollover[a]' \in BOOLEAN /\ (a \in list' => (rollover[a]' <=> Now + period[a] >= Word))
      <4>1. CASE Wrap(time[a] + period[a]) < Now
        <5>1. rollover[a]' = TRUE
          BY <4>1, <3>7
        <5> QED
          BY <5>1, <4>1, <3>4, <3>5
      <4>2. CASE ~(Wrap(time[a] + period[a]) < Now)
        <5>1. (Wrap(time[a] + period[a]) < Now) = FALSE
          BY <4>2, <3>3, <1>1
        <5>2. rollover[a]' = FALSE
          BY <5>1, <3>7
        <5> QED
          BY <5>2, <4>2, <3>4, <3>5
      <4> QED
        BY <4>1, <4>2
    <3>9. period[a] \in 0 .. Word - 1 /\ Wrap(Now + period[a]) \in 0 .. Word - 1
      BY <2>3, <3>2, <3>3
    <3>10. wait[a]' \in 0 .. Word - 1 /\ time[a]' \in 0 .. Word - 1 /\ (a \in list' => wait[a]' > 0)
      BY <3>4, <3>6, <3>9
    <3>11. time[a]' = Wrap(nticks' + wait[a]') /\ (nticks' + wait[a]' = Now + period[a])
      BY <3>6
    <3> QED
      BY <3>8, <3>10, <3>11
  <2>5. CASE ~Called(a) /\ a \in list
    <3>1. wait[a] > 1
      BY <2>5, <2>3, InvOnTime DEF OnTime, Inv, TimeOfAlarm
    <3>2. time[a] = Wrap(nticks + wait[a]) /\ (rollover[a] <=> nticks + wait[a] >= Word)
      BY <2>5 DEF Inv, TimeOfAlarm
    <3>3. Wrap(Now + (wait[a] - 1)) = time[a]
      BY <3>1, <3>2, <2>3, WordAssumption DEF Now, Wrap
    <3>4. Later(a) <=> Now + (wait[a] - 1) >= Word
      BY <3>1, <3>2, <2>3, WordAssumption DEF Later, Now, Wrap
    <3>5. Later(a) \in BOOLEAN
      BY DEF Later
    <3>6. time[a]' = time[a] /\ wait[a]' = wait[a] - 1 /\ nticks' = Now
      BY <2>5, <2>1, <1>1
    <3>7. rollover[a]' = Later(a)
      BY <2>5, <2>2
    <3>8. rollover[a]' \in BOOLEAN /\ (rollover[a]' <=> Now + (wait[a] - 1) >= Word)
      BY <3>4, <3>5, <3>7
    <3>10. wait[a]' \in 0 .. Word - 1 /\ time[a]' \in 0 .. Word - 1 /\ wait[a]' > 0
      BY <2>3, <3>1, <3>6, WordAssumption
    <3>11. time[a]' = Wrap(nticks' + wait[a]') /\ (nticks' + wait[a]' = Now + (wait[a] - 1))
      BY <3>3, <3>6
    <3> QED
      BY <3>8, <3>10, <3>11
  <2>6. CASE ~Called(a) /\ a \notin list
    <3>1. a \notin list'
      BY <2>6 DEF Tick
    <3> QED
      BY <2>6, <3>1, <2>1, <2>2, <2>3, WordAssumption DEF Called
  <2> QED
    BY <2>4, <2>5, <2>6
<1>3. TypeOK'
  <2>1. list' \subseteq Alarm
    BY DEF Inv, TypeOK, Tick
  <2>2. time' = [a \in Alarm |-> time'[a]] /\ rollover' = [a \in Alarm |-> rollover'[a]]
        /\ wait' = [a \in Alarm |-> wait'[a]]
    BY DEF Tick
  <2> QED
    BY <1>1, <1>2, <2>1, <2>2 DEF TypeOK
<1>4. TimeOfAlarm'
  <2>1. list' \subseteq Alarm
    BY DEF Inv, TypeOK, Tick
  <2> QED
    BY <1>2, <2>1 DEF TimeOfAlarm
<1> QED
  BY <1>3, <1>4 DEF Inv

LEMMA InvInductive == Spec => []Inv
<1>1. Init => Inv
  BY WordAssumption DEF Init, Inv, TypeOK, TimeOfAlarm
<1>2. Inv /\ [Next]_vars => Inv'
  <2> SUFFICES ASSUME Inv, [Next]_vars
               PROVE  Inv'
    OBVIOUS
  <2>1. ASSUME NEW a \in Alarm, NEW n \in 0 .. MaxPeriod, Start(a, n)
        PROVE  Inv'
    BY <2>1, StartKeepsInv
  <2>2. ASSUME NEW a \in Alarm, Stop(a)
        PROVE  Inv'
    <3>1. TypeOK'
      BY <2>2, WordAssumption DEF Inv, TypeOK, Stop
    <3>2. ASSUME NEW b \in list'
          PROVE  b \in list /\ wait[b]' = wait[b]
      BY <2>2, <3>2 DEF Inv, TypeOK, Stop
    <3>3. TimeOfAlarm'
      BY <2>2, <3>2 DEF Inv, TimeOfAlarm, Stop
    <3> QED
      BY <3>1, <3>3 DEF Inv
  <2>3. ASSUME NEW period \in [Alarm -> 0 .. MaxPeriod], Tick(period)
        PROVE  Inv'
    BY <2>3, TickKeepsInv
  <2>4. CASE UNCHANGED vars
    BY <2>4 DEF vars, Inv, TypeOK, TimeOfAlarm, Wrap
  <2> QED
    BY <2>1, <2>2, <2>3, <2>4 DEF Next
<1> QED
  BY <1>1, <1>2, PTL DEF Spec

(* Every alarm is called back by exactly the tick it asked for, however    *)
(* often the counter has wrapped (alt_tick, alt_alarm_start).              *)
THEOREM AlarmsOnTime == Spec => []OnTime
<1> QED
  BY InvOnTime, InvInductive, PTL

(* The time and the flag of an alarm, both kept in range by                *)
(* alt_alarm_start and alt_tick, together tell how many ticks are left:    *)
(* the flag marks the alarms whose time lies beyond the wrap.              *)
THEOREM TimesTold == Spec => [](TypeOK /\ TimeOfAlarm)
<1>1. Inv => TypeOK /\ TimeOfAlarm
  BY DEF Inv
<1> QED
  BY <1>1, InvInductive, PTL

-----------------------------------------------------------------------------
(* Division *)

LEMMA Division ==
    ASSUME NEW n \in Int, NEW b \in Nat \ {0}
    PROVE  n \div b \in Int /\ n % b \in 0 .. b - 1 /\ n = b * (n \div b) + (n % b)
  OBVIOUS

\* A multiple of b closer to 0 than b is 0.
LEMMA SmallMultiple ==
    ASSUME NEW b \in Nat \ {0}, NEW k \in Int, - b < b * k, b * k < b
    PROVE  k = 0
<1>1. k >= 1 => b * k >= b
  OBVIOUS
<1>2. k <= -1 => b * k <= - b
  OBVIOUS
<1> QED
  BY <1>1, <1>2

\* There is one quotient and one remainder.
LEMMA Quotient ==
    ASSUME NEW b \in Nat \ {0}, NEW q \in Int, NEW r \in 0 .. b - 1
    PROVE  (b * q + r) \div b = q /\ (b * q + r) % b = r
<1> DEFINE n == b * q + r
<1>1. n \in Int
  OBVIOUS
<1>2. n \div b \in Int /\ n % b \in 0 .. b - 1 /\ n = b * (n \div b) + (n % b)
  BY <1>1, Division
<1>3. n = b * q + r
  OBVIOUS
<1> HIDE DEF n
<1>4. b * ((n \div b) - q) = r - (n % b)
  BY <1>2, <1>3
<1>5. (n \div b) - q = 0
  <2> DEFINE k == (n \div b) - q
  <2>1. k \in Int /\ - b < b * k /\ b * k < b
    BY <1>2, <1>4
  <2> HIDE DEF k
  <2>2. k = 0
    BY <2>1, SmallMultiple
  <2> QED
    BY <2>2 DEF k
<1>6. n \div b = q /\ n % b = r
  BY <1>2, <1>3, <1>5
<1> QED
  BY <1>6 DEF n

\* Numbers below the divisor are their own remainder, and it leaves none.
LEMMA Remainders ==
    ASSUME NEW b \in Nat \ {0}
    PROVE  b % b = 0 /\ \A n \in 0 .. b - 1 : n % b = n
<1>1. b = b * 1 + 0 /\ 0 \in 0 .. b - 1 /\ 1 \in Int /\ 0 \in Int
  OBVIOUS
<1>2. (b * 1 + 0) % b = 0
  BY <1>1, Quotient, Zenon
<1>3. ASSUME NEW n \in 0 .. b - 1
      PROVE  n % b = n
  <2>1. (b * 0 + n) % b = n
    BY <1>1, Quotient, Zenon
  <2>2. b * 0 + n = n
    OBVIOUS
  <2> QED
    BY <2>1, <2>2
<1> QED
  BY <1>1, <1>2, <1>3

\* A tick is a whole number of microseconds and less than a second.
LEMMA Rates ==
    /\ US \in Nat \ {0} /\ Rate \in Nat \ {0}
    /\ Wall!PerTick \in Nat \ {0} /\ US = Rate * Wall!PerTick
<1>1. US \in Nat \ {0} /\ Rate \in Nat \ {0} /\ US % Rate = 0
  BY ClockAssumption
<1>2. US \div Rate \in Int /\ US = Rate * (US \div Rate) + (US % Rate)
  BY <1>1, Division
<1>3. US \div Rate \in Nat \ {0}
  <2>1. \A p \in Int : Rate * p = US => p > 0
    <3>1. \A p \in Int : p <= 0 => Rate * p <= 0
      BY <1>1
    <3> QED
      BY <1>1, <3>1
  <2> QED
    BY <1>1, <1>2, <2>1
<1> QED
  BY <1>1, <1>2, <1>3 DEF Wall!PerTick

\* The seconds and the rest of a second that n ticks take.
LEMMA TicksTaken ==
    ASSUME NEW n \in Nat
    PROVE  /\ n \div Rate \in Nat /\ (n * Wall!PerTick) % US \in 0 .. US - 1
           /\ n * Wall!PerTick \in Nat
           /\ n * Wall!PerTick = (n \div Rate) * US + ((n * Wall!PerTick) % US)
<1> DEFINE q == n \div Rate
           r == n % Rate
           P == Wall!PerTick
<1>1. P \in Nat \ {0} /\ US \in Nat \ {0} /\ Rate \in Nat \ {0} /\ US = Rate * P
  BY Rates
<1>2. q \in Int /\ r \in 0 .. Rate - 1 /\ n = Rate * q + r
  BY <1>1, Division
<1>3. q \in Nat
  <2>1. q <= -1 => Rate * q <= - Rate
    BY <1>1, <1>2
  <2> QED
    BY <1>1, <1>2, <2>1
<1> HIDE DEF q, r, P
<1>4. n * P = US * q + r * P
  <2>1. n * P = (Rate * q + r) * P
    BY <1>2
  <2>2. (Rate * q + r) * P = (Rate * P) * q + r * P
    BY <1>1, <1>2
  <2> QED
    BY <1>1, <2>1, <2>2
<1>5. r * P \in 0 .. US - 1
  <2>1. r * P >= 0 /\ (Rate - 1) * P >= r * P /\ (Rate - 1) * P = US - P
    BY <1>1, <1>2
  <2> QED
    BY <1>1, <1>2, <2>1
<1>6. n * P \in Nat /\ n * P \in Int
  BY <1>1
<1>7. (n * P) % US = r * P
  <2>1. (US * q + r * P) % US = r * P
    BY <1>1, <1>2, <1>5, Quotient, Zenon
  <2> QED
    BY <1>4, <2>1
<1>8. q * US = US * q
  BY <1>1, <1>2
<1> QED
  BY <1>3, <1>4, <1>5, <1>6, <1>7, <1>8 DEF q, P

-----------------------------------------------------------------------------
(* The wall clock *)

\* A reading of the clock p ticks after it was set.
ReadAt(g, p) ==
    Wall!Total(g) = Wall!Clock(p) \/ (Wall!Clock(p) < 0 /\ g = Wall!Zero)

(* The time at which the counter was 0 and the counter at the setting are  *)
(* the time set, but for what the product lost; the counter tells the      *)
(* ticks since up to its turns; a search under way has read the clock.     *)
Agreement ==
    /\ nticks = (at + passed) % Word
    /\ Wall!Total(reset) + at * Wall!PerTick = Wall!Total(set) + Wall!Lost
    /\ t1 # Wall!None => t1.at <= passed /\ ReadAt(t1.time, t1.at)
    /\ Wall!PrintsRight

WallInv == Wall!TypeOK /\ Agreement

LEMMA WallTypes ==
    ASSUME Wall!TypeOK
    PROVE  /\ Word \in Nat \ {0} /\ US \in Nat \ {0} /\ Rate \in Nat \ {0}
           /\ Wall!PerTick \in Nat \ {0} /\ MaxTicks \in Nat
           /\ nticks \in Nat /\ at \in 0 .. Word - 1 /\ at \in Nat /\ passed \in Nat
           /\ reset.sec \in Int /\ reset.usec \in 1 - US .. US - 1
           /\ set.sec \in Nat /\ set.usec \in 0 .. US - 1
           /\ Wall!Total(set) \in Nat /\ Wall!Total(reset) \in Int
<1>1. /\ Word \in Nat \ {0} /\ US \in Nat \ {0} /\ Rate \in Nat \ {0}
      /\ Wall!PerTick \in Nat \ {0} /\ MaxTicks \in Nat
  BY Rates, WordAssumption, ClockAssumption
<1>2. /\ nticks \in Nat /\ at \in 0 .. Word - 1 /\ at \in Nat /\ passed \in Nat
      /\ reset.sec \in Int /\ reset.usec \in 1 - US .. US - 1
      /\ set.sec \in Nat /\ set.usec \in 0 .. US - 1
  BY <1>1 DEF Wall!TypeOK, Wall!Time
<1>3. Wall!Total(set) = set.sec * US + set.usec /\ set.sec * US \in Nat
      /\ Wall!Total(reset) = reset.sec * US + reset.usec /\ reset.sec * US \in Int
  BY <1>1, <1>2 DEF Wall!Total
<1> QED
  BY <1>1, <1>2, <1>3

\* The product of settimeofday loses less than a second, and nothing while it
\* fits a word.
LEMMA LostTyped ==
    ASSUME Wall!TypeOK
    PROVE  Wall!Lost \in 1 - US .. US - 1 /\ (at * Wall!PerTick < Word => Wall!Lost = 0)
<1> DEFINE n == at * Wall!PerTick
<1>1. Word \in Nat \ {0} /\ US \in Nat \ {0} /\ at \in Nat /\ Wall!PerTick \in Nat \ {0}
  BY WallTypes
<1>2. n \in Nat
  BY <1>1
<1>3. Wall!Lost = (n % US) - ((n % Word) % US)
  BY DEF Wall!Lost, Wall!PerTick
<1> HIDE DEF n
<1>4. n % Word \in Nat
  BY <1>1, <1>2, Division
<1>5. n % US \in 0 .. US - 1 /\ (n % Word) % US \in 0 .. US - 1
  <2>1. n \in Int /\ n % Word \in Int
    BY <1>2, <1>4
  <2> QED
    BY <1>1, <2>1, Division, Zenon
<1>6. n < Word => n % Word = n
  <2>1. n < Word => n \in 0 .. Word - 1
    BY <1>1, <1>2
  <2> QED
    BY <1>1, <2>1, Remainders, Zenon
<1>7. n < Word => Wall!Lost = 0
  BY <1>3, <1>5, <1>6
<1>8. Wall!Lost \in 1 - US .. US - 1
  BY <1>1, <1>3, <1>5
<1> QED
  BY <1>7, <1>8 DEF n

\* The counter's turns, and the clock between two turns.
LEMMA ClockTyped ==
    ASSUME Wall!TypeOK
    PROVE  /\ \A p \in Nat : Wall!Turns(p) \in Int /\ Wall!Clock(p) \in Int
           /\ \A p, q \in Nat : Wall!Turns(p) = Wall!Turns(q) =>
                 Wall!Clock(q) - Wall!Clock(p) = (q - p) * Wall!PerTick
           /\ Wall!Clock(0) = Wall!Total(set) + Wall!Lost
<1> DEFINE P == Wall!PerTick
           base == Wall!Total(set)
           lost == Wall!Lost
<1>1. /\ Word \in Nat \ {0} /\ US \in Nat \ {0} /\ at \in 0 .. Word - 1 /\ at \in Nat
      /\ P \in Nat \ {0} /\ base \in Nat
  BY WallTypes
<1>2. lost \in Int
  BY <1>1, LostTyped
<1>3. \A p \in Nat : Wall!Turns(p) = (at + p) \div Word
  BY DEF Wall!Turns
<1>4. \A p \in Nat : Wall!Turns(p) \in Int
  BY <1>1, <1>3, Division
<1>5. \A p \in Nat : Wall!Clock(p) = base + p * P + lost - (Wall!Turns(p) * Word) * P
  BY DEF Wall!Clock, Wall!Turns, Wall!Lost, Wall!Total, Wall!PerTick
<1> HIDE DEF P, base, lost
<1>6. \A k \in Int : (k * Word) * P \in Int
  BY <1>1
<1>7. \A p \in Nat : Wall!Clock(p) \in Int
  <2> TAKE p \in Nat
  <2>1. (Wall!Turns(p) * Word) * P \in Int /\ p * P \in Int
    BY <1>1, <1>4, <1>6
  <2> QED
    BY <1>1, <1>2, <1>5, <2>1
<1>8. ASSUME NEW p \in Nat, NEW q \in Nat, Wall!Turns(p) = Wall!Turns(q)
      PROVE  Wall!Clock(q) - Wall!Clock(p) = (q - p) * P
  <2> DEFINE z == (Wall!Turns(p) * Word) * P
  <2>1. z \in Int
    BY <1>4, <1>6
  <2>2. Wall!Clock(p) = base + p * P + lost - z /\ Wall!Clock(q) = base + q * P + lost - z
    BY <1>5, <1>8
  <2> HIDE DEF z
  <2>3. (q - p) * P = q * P - p * P /\ q * P \in Int /\ p * P \in Int
    BY <1>1
  <2> QED
    BY <1>1, <1>2, <2>1, <2>2, <2>3
<1>9. Wall!Clock(0) = base + lost
  <2>1. at = Word * 0 + at /\ 0 \in Int
    BY <1>1
  <2>2. (Word * 0 + at) \div Word = 0
    BY <1>1, <2>1, Quotient, Zenon
  <2>3. Wall!Turns(0) = 0
    BY <1>1, <1>3, <2>1, <2>2
  <2>4. (0 * Word) * P = 0 /\ 0 * P = 0
    BY <1>1
  <2>5. Wall!Clock(0) = base + 0 * P + lost - (0 * Word) * P
    BY <1>5, <2>3
  <2> QED
    BY <1>1, <1>2, <2>4, <2>5
<1> QED
  BY <1>4, <1>7, <1>8, <1>9 DEF P, base, lost

\* What gettimeofday returns.
LEMMA Reading ==
    ASSUME WallInv
    PROVE  /\ Wall!Gettimeofday \in [sec : Int, usec : 0 .. US - 1]
           /\ ReadAt(Wall!Gettimeofday, passed)
<1> DEFINE sec == reset.sec + (nticks \div Rate)
           rest == (nticks * Wall!PerTick) % US
           usec == reset.usec + rest
           P == Wall!PerTick
           k == Wall!Turns(passed)
<1>0. Wall!TypeOK
  BY DEF WallInv
<1>1. /\ nticks \in Nat /\ reset.sec \in Int /\ reset.usec \in 1 - US .. US - 1
      /\ passed \in Nat /\ at \in Nat /\ Word \in Nat \ {0}
      /\ US \in Nat \ {0} /\ P \in Nat \ {0}
      /\ Wall!Total(set) \in Int /\ Wall!Total(reset) \in Int
  BY <1>0, WallTypes
<1>2. /\ nticks \div Rate \in Nat /\ rest \in 0 .. US - 1 /\ nticks * P \in Nat
      /\ nticks * P = (nticks \div Rate) * US + rest
  BY <1>1, TicksTaken
<1>3. sec \in Int /\ usec \in 1 - US .. 2 * US - 2
  BY <1>1, <1>2
<1>4. sec * US + usec = Wall!Total(reset) + nticks * P
  <2>1. Wall!Total(reset) = reset.sec * US + reset.usec
    BY DEF Wall!Total
  <2> HIDE DEF rest, P
  <2>2. \A a, b \in Int : (a + b) * US = a * US + b * US
    BY <1>1
  <2>3. sec * US = reset.sec * US + (nticks \div Rate) * US
    BY <1>1, <1>2, <2>2
  <2>4. /\ reset.sec * US \in Int /\ (nticks \div Rate) * US \in Int
        /\ rest \in Int /\ reset.usec \in Int
    BY <1>1, <1>2
  <2>5. usec = reset.usec + rest /\ nticks * P = (nticks \div Rate) * US + rest
    BY <1>2
  <2> HIDE DEF sec, usec
  <2> QED
    BY ONLY <2>1, <2>3, <2>4, <2>5
<1>5. nticks * P = at * P + passed * P - (k * Word) * P
  <2> DEFINE n == at + passed
  <2>1. n \in Int /\ k = n \div Word /\ nticks = n % Word
    BY <1>1 DEF WallInv, Agreement, Wall!Turns
  <2> HIDE DEF n, k, P
  <2>2. k \in Int /\ n = Word * k + nticks
    BY <1>1, <2>1, Division
  <2>3. k * Word \in Int /\ nticks = (at + passed) - k * Word
    BY <1>1, <2>1, <2>2 DEF n
  <2>4. \A a, b, c \in Int : ((a + b) - c) * P = a * P + b * P - c * P
    BY <1>1
  <2> QED
    BY <1>1, <2>3, <2>4
<1>6. sec * US + usec = Wall!Clock(passed)
  <2>1. Wall!Total(reset) + at * P = Wall!Total(set) + Wall!Lost
    BY DEF WallInv, Agreement
  <2>2. Wall!Clock(passed) = Wall!Total(set) + passed * P + Wall!Lost - (k * Word) * P
    BY DEF Wall!Clock, Wall!Turns, Wall!Lost, Wall!Total, Wall!PerTick
  <2>3. k \in Int /\ Wall!Lost \in Int
    BY <1>0, <1>1, ClockTyped, LostTyped
  <2> HIDE DEF k, P, sec, usec
  <2>4. at * P \in Int /\ passed * P \in Int /\ (k * Word) * P \in Int
    BY <1>1, <2>3
  <2>5. Wall!Total(reset) \in Int /\ Wall!Total(set) \in Int
    BY <1>1
  <2> HIDE DEF rest
  <2> QED
    BY ONLY <1>4, <1>5, <2>1, <2>2, <2>3, <2>4, <2>5
<1>7. Wall!Gettimeofday
        = IF usec < 0 /\ sec <= 0 THEN [sec |-> 0, usec |-> 0]
          ELSE IF usec < 0 THEN [sec |-> sec - 1, usec |-> usec + US]
          ELSE IF usec >= US THEN [sec |-> sec + 1, usec |-> usec - US]
          ELSE [sec |-> sec, usec |-> usec]
  BY DEF Wall!Gettimeofday, Wall!Zero, Wall!PerTick
<1> HIDE DEF sec, usec, rest, P, k
<1>8. \A s \in Int : s * US \in Int /\ (s + 1) * US = s * US + US
                     /\ (s - 1) * US = s * US - US /\ (s <= 0 => s * US <= 0)
  BY <1>1
<1>9. CASE usec < 0 /\ sec <= 0
  <2>1. Wall!Gettimeofday = [sec |-> 0, usec |-> 0]
    BY <1>7, <1>9
  <2>2. Wall!Clock(passed) < 0
    BY <1>3, <1>6, <1>8, <1>9
  <2>3. 0 \in 0 .. US - 1
    BY <1>1
  <2> QED
    BY <2>1, <2>2, <2>3 DEF ReadAt, Wall!Zero
<1>10. CASE usec < 0 /\ ~(sec <= 0)
  <2>1. Wall!Gettimeofday = [sec |-> sec - 1, usec |-> usec + US]
    BY <1>7, <1>10
  <2>2. sec - 1 \in Int /\ usec + US \in 0 .. US - 1
    BY <1>1, <1>3, <1>10
  <2>3. (sec - 1) * US + (usec + US) = sec * US + usec
    BY <1>1, <1>3, <1>8
  <2> QED
    BY <1>6, <2>1, <2>2, <2>3 DEF ReadAt, Wall!Total
<1>11. CASE usec >= US
  <2>1. Wall!Gettimeofday = [sec |-> sec + 1, usec |-> usec - US]
    BY <1>1, <1>3, <1>7, <1>11
  <2>2. sec + 1 \in Int /\ usec - US \in 0 .. US - 1
    BY <1>1, <1>3, <1>11
  <2>3. (sec + 1) * US + (usec - US) = sec * US + usec
    BY <1>1, <1>3, <1>8
  <2> QED
    BY <1>6, <2>1, <2>2, <2>3 DEF ReadAt, Wall!Total
<1>12. CASE usec >= 0 /\ usec < US
  <2>1. Wall!Gettimeofday = [sec |-> sec, usec |-> usec]
    BY <1>1, <1>3, <1>7, <1>12
  <2>2. usec \in 0 .. US - 1
    BY <1>1, <1>3, <1>12
  <2> QED
    BY <1>3, <1>6, <2>1, <2>2 DEF ReadAt, Wall!Total
<1> QED
  BY <1>1, <1>3, <1>9, <1>10, <1>11, <1>12

\* A time that is not before zero is read to the second and the microsecond.
LEMMA Read ==
    ASSUME US \in Nat \ {0}, NEW g \in [sec : Int, usec : 0 .. US - 1]
    PROVE  /\ Wall!Total(g) \in Int /\ Wall!Total(g) \div US = g.sec
           /\ g.usec = Wall!Total(g) - US * g.sec
<1>1. g.sec \in Int /\ g.usec \in 0 .. US - 1
  OBVIOUS
<1>2. Wall!Total(g) = US * g.sec + g.usec /\ US * g.sec \in Int
  <2>1. g.sec * US = US * g.sec /\ US * g.sec \in Int
    BY <1>1
  <2> QED
    BY <2>1 DEF Wall!Total
<1>3. (US * g.sec + g.usec) \div US = g.sec
  BY <1>1, Quotient, Zenon
<1> QED
  BY <1>1, <1>2, <1>3

\* gettimeofday is off by nothing but the two errors.
LEMMA ReadingRight == WallInv => Wall!ReadsRight
<1> SUFFICES ASSUME WallInv
             PROVE  Wall!ReadsRight
  OBVIOUS
<1> DEFINE g == Wall!Gettimeofday
<1>1. Wall!TypeOK /\ US \in Nat \ {0}
  BY WallTypes DEF WallInv
<1>2. g \in [sec : Int, usec : 0 .. US - 1] /\ ReadAt(g, passed)
  BY Reading
<1>3. Wall!Lost \in 1 - US .. US - 1 /\ (at * Wall!PerTick < Word => Wall!Lost = 0)
  BY <1>1, LostTyped
<1>4. passed = 0 /\ Wall!Lost = 0 => g = set
  <2> SUFFICES ASSUME passed = 0, Wall!Lost = 0
               PROVE  g = set
    OBVIOUS
  <2>1. Wall!Total(set) \in Nat /\ set \in [sec : Nat, usec : 0 .. US - 1]
    BY <1>1, WallTypes DEF Wall!TypeOK, Wall!Time
  <2>2. Wall!Clock(passed) = Wall!Total(set)
    BY <1>1, <2>1, ClockTyped
  <2>3. Wall!Total(g) = Wall!Total(set)
    BY <1>2, <2>1, <2>2 DEF ReadAt
  <2> HIDE DEF g
  <2>4. set \in [sec : Int, usec : 0 .. US - 1]
    BY <2>1
  <2>5. g.sec = set.sec /\ g.usec = set.usec
    BY <1>1, <1>2, <2>3, <2>4, Read
  <2> QED
    BY <1>2, <2>4, <2>5
<1>5. g.usec \in 0 .. US - 1
  BY <1>2
<1> QED
  BY <1>2, <1>3, <1>4, <1>5 DEF Wall!ReadsRight, ReadAt, Wall!PerTick

\* A tick moves the counter and the ticks since together.
LEMMA WallTick ==
    ASSUME WallInv, Wall!Tick
    PROVE  WallInv'
<1>1. /\ passed < MaxTicks /\ nticks' = (nticks + 1) % Word /\ passed' = passed + 1
      /\ printed' = Wall!None /\ UNCHANGED <<reset, t1, set, at>>
  BY DEF Wall!Tick, Wall!None
<1>2. Word \in Nat \ {0} /\ at \in Nat /\ passed \in Nat /\ MaxTicks \in Nat /\ nticks \in Nat
  BY WallTypes DEF WallInv
<1>3. nticks' \in 0 .. Word - 1 /\ passed' \in 0 .. MaxTicks
  <2>1. nticks + 1 \in Int
    BY <1>2
  <2>2. (nticks + 1) % Word \in 0 .. Word - 1
    BY <1>2, <2>1, Division, Zenon
  <2> QED
    BY <1>1, <1>2, <2>2
<1>4. Wall!TypeOK'
  BY <1>1, <1>3 DEF WallInv, Wall!TypeOK, Wall!None
<1>5. nticks' = (at' + passed') % Word
  <2> DEFINE n == at + passed
             q == n \div Word
             u == (nticks + 1) \div Word
  <2>1. n \in Int /\ nticks = n % Word /\ nticks + 1 \in Int
    BY <1>2 DEF WallInv, Agreement
  <2> HIDE DEF n
  <2>2. q \in Int /\ n = Word * q + nticks
    BY <1>2, <2>1, Division
  <2>3. u \in Int /\ nticks + 1 = Word * u + nticks'
    BY <1>1, <1>2, <2>1, Division
  <2> HIDE DEF q, u
  <2>4. Word * (q + u) = Word * q + Word * u /\ Word * q \in Int /\ Word * u \in Int
    BY <1>2, <2>2, <2>3
  <2>5. n + 1 = Word * (q + u) + nticks'
    BY <1>2, <1>3, <2>1, <2>2, <2>3, <2>4
  <2>6. q + u \in Int
    BY <2>2, <2>3
  <2>7. (Word * (q + u) + nticks') % Word = nticks'
    BY <1>2, <1>3, <2>6, Quotient, Zenon
  <2>8. at' + passed' = n + 1
    BY <1>1, <1>2 DEF n
  <2> QED
    BY <2>5, <2>7, <2>8
<1>6. (Wall!Total(reset) + at * Wall!PerTick = Wall!Total(set) + Wall!Lost)'
  BY <1>1 DEF WallInv, Agreement, Wall!Total, Wall!Lost, Wall!PerTick
<1>7. (t1 # Wall!None => t1.at <= passed /\ ReadAt(t1.time, t1.at))'
  <2>1. t1 # Wall!None => t1.at \in 0 .. MaxTicks /\ t1.at <= passed /\ ReadAt(t1.time, t1.at)
    BY DEF WallInv, Wall!TypeOK, Agreement
  <2>2. ReadAt(t1.time, t1.at)' <=> ReadAt(t1.time, t1.at)
    BY <1>1 DEF ReadAt, Wall!Total, Wall!Clock, Wall!Turns, Wall!Lost, Wall!PerTick, Wall!Zero
  <2>3. t1 # Wall!None => t1.at <= passed + 1
    BY <1>2, <2>1
  <2> QED
    BY <1>1, <2>1, <2>2, <2>3 DEF Wall!None
<1>8. Wall!PrintsRight'
  BY <1>1 DEF Wall!PrintsRight, Wall!None
<1> QED
  BY <1>4, <1>5, <1>6, <1>7, <1>8 DEF WallInv, Agreement

\* Setting the time takes the ticks there are off it, as the product has them.
LEMMA WallSet ==
    ASSUME WallInv, NEW t \in [sec : Nat, usec : 0 .. US - 1], Wall!Settimeofday(t)
    PROVE  WallInv'
<1> DEFINE n == nticks * Wall!PerTick
<1>1. /\ nticks \in 0 .. Word - 1 /\ nticks \in Nat /\ Word \in Nat \ {0} /\ US \in Nat \ {0}
      /\ Wall!PerTick \in Nat \ {0} /\ t.sec \in Nat /\ t.usec \in 0 .. US - 1
      /\ MaxTicks \in Nat
  BY WallTypes DEF WallInv, Wall!TypeOK
<1>2. /\ nticks \div Rate \in Nat /\ n % US \in 0 .. US - 1 /\ n \in Nat
      /\ n = (nticks \div Rate) * US + (n % US)
  BY <1>1, TicksTaken, Zenon
<1>3. /\ reset' = [sec |-> t.sec - (nticks \div Rate), usec |-> t.usec - ((n % Word) % US)]
      /\ set' = t /\ at' = nticks /\ passed' = 0
      /\ t1' = Wall!None /\ printed' = Wall!None /\ nticks' = nticks
  BY DEF Wall!Settimeofday, Wall!ResetTime, Wall!PerTick, Wall!None
<1>4. Wall!Lost' = (n % US) - ((n % Word) % US)
  BY <1>3 DEF Wall!Lost, Wall!PerTick
<1>5. (at * Wall!PerTick)' = n
  BY <1>3 DEF Wall!PerTick
<1> HIDE DEF n
<1>6. (n % Word) % US \in 0 .. US - 1
  <2>1. n % Word \in Int
    BY <1>1, <1>2
  <2> QED
    BY <1>1, <2>1, Division, Zenon
<1>7. Wall!TypeOK'
  <2>1. reset' \in [sec : Int, usec : 1 - US .. US - 1]
    BY <1>1, <1>2, <1>3, <1>6
  <2>2. passed' \in 0 .. MaxTicks
    BY <1>1, <1>3
  <2> QED
    BY <1>1, <1>3, <2>1, <2>2 DEF Wall!TypeOK, Wall!Time, Wall!None
<1>8. nticks' = (at' + passed') % Word
  <2>1. nticks % Word = nticks
    BY <1>1, Remainders, Zenon
  <2>2. at' + passed' = nticks
    BY <1>1, <1>3
  <2> QED
    BY <1>3, <2>1, <2>2
<1>9. (Wall!Total(reset) + at * Wall!PerTick = Wall!Total(set) + Wall!Lost)'
  <2> DEFINE s == nticks \div Rate
             e == (n % Word) % US
             f == n % US
  <2>1. s \in Nat /\ f \in Int /\ e \in Int /\ n = s * US + f
    BY <1>1, <1>2, <1>6
  <2>2. Wall!Total(reset)' = (t.sec - s) * US + (t.usec - e)
        /\ Wall!Total(set)' = t.sec * US + t.usec
    BY <1>3 DEF Wall!Total
  <2> HIDE DEF s, e, f
  <2>3. (t.sec - s) * US = t.sec * US - s * US /\ t.sec * US \in Int /\ s * US \in Int
    BY <1>1, <2>1
  <2>4. ((t.sec - s) * US + (t.usec - e)) + n = (t.sec * US + t.usec) + (f - e)
    BY <1>1, <2>1, <2>3
  <2> QED
    BY <1>4, <1>5, <2>2, <2>4 DEF e, f
<1>10. Wall!PrintsRight'
  BY <1>3 DEF Wall!PrintsRight, Wall!None
<1> QED
  BY <1>3, <1>7, <1>8, <1>9, <1>10 DEF WallInv, Agreement, Wall!None

\* A search notes the time.
LEMMA WallStart ==
    ASSUME WallInv, Wall!StartSearch
    PROVE  WallInv'
<1>1. /\ t1' = [time |-> Wall!Gettimeofday, at |-> passed] /\ printed' = Wall!None
      /\ UNCHANGED <<nticks, reset, set, at, passed>>
  BY DEF Wall!StartSearch, Wall!None
<1>2. /\ Wall!Gettimeofday \in [sec : Int, usec : 0 .. US - 1]
      /\ ReadAt(Wall!Gettimeofday, passed)
  BY Reading
<1>3. t1'.time = Wall!Gettimeofday /\ t1'.at = passed
  BY <1>1
<1>4. passed \in 0 .. MaxTicks /\ passed \in Nat
  BY WallTypes DEF WallInv, Wall!TypeOK
<1>5. Wall!TypeOK'
  BY <1>1, <1>2, <1>3, <1>4 DEF WallInv, Wall!TypeOK, Wall!None
<1>6. (t1 # Wall!None => t1.at <= passed /\ ReadAt(t1.time, t1.at))'
  <2>1. \A h, p : ReadAt(h, p)' <=> ReadAt(h, p)
    BY <1>1 DEF ReadAt, Wall!Total, Wall!Clock, Wall!Turns, Wall!Lost, Wall!PerTick, Wall!Zero
  <2>2. ReadAt(t1'.time, t1'.at)
    BY <1>2, <1>3
  <2>3. ReadAt(t1.time, t1.at)'
    BY <1>1, <2>2 DEF ReadAt, Wall!Total, Wall!Clock, Wall!Turns, Wall!Lost, Wall!PerTick,
       Wall!Zero
  <2> QED
    BY <1>1, <1>3, <1>4, <2>3
<1>7. Wall!PrintsRight'
  BY <1>1 DEF Wall!PrintsRight, Wall!None
<1>8. (Wall!Total(reset) + at * Wall!PerTick = Wall!Total(set) + Wall!Lost)'
      /\ (nticks = (at + passed) % Word)'
  BY <1>1 DEF WallInv, Agreement, Wall!Total, Wall!Lost, Wall!PerTick
<1> QED
  BY <1>5, <1>6, <1>7, <1>8 DEF WallInv, Agreement

\* What is printed misses the seconds that began, and nothing else.
LEMMA Printing ==
    ASSUME WallInv, t1 # Wall!None,
           Wall!Clock(t1.at) >= 0, Wall!Clock(passed) >= 0,
           NEW us, us = Wall!Gettimeofday.usec - t1.time.usec,
           NEW begun, begun = (Wall!Clock(passed) \div US) - (Wall!Clock(t1.at) \div US)
    PROVE  /\ us \in Int
           /\ us = (Wall!Clock(passed) - Wall!Clock(t1.at)) - US * begun
           /\ Wall!Turns(t1.at) = Wall!Turns(passed) =>
                LET elapsed == (passed - t1.at) * Wall!PerTick
                IN /\ us = elapsed - US * begun
                   /\ elapsed < US => (us = elapsed <=> us >= 0)
<1> DEFINE g == Wall!Gettimeofday
           h == t1.time
           P == Wall!PerTick
<1>1. Wall!TypeOK /\ US \in Nat \ {0} /\ P \in Nat \ {0} /\ passed \in Nat
  BY WallTypes DEF WallInv
<1>2. /\ h \in [sec : Int, usec : 0 .. US - 1] /\ t1.at \in Nat /\ t1.at <= passed
      /\ ReadAt(h, t1.at)
  BY <1>1 DEF WallInv, Agreement, Wall!TypeOK
<1>3. g \in [sec : Int, usec : 0 .. US - 1] /\ ReadAt(g, passed)
  BY Reading
<1>4. Wall!Clock(t1.at) \in Int /\ Wall!Clock(passed) \in Int
  BY <1>1, <1>2, ClockTyped
<1>5. Wall!Total(h) = Wall!Clock(t1.at) /\ Wall!Total(g) = Wall!Clock(passed)
  BY <1>2, <1>3, <1>4 DEF ReadAt
<1>6. us = g.usec - h.usec
  OBVIOUS
<1> HIDE DEF g, h
<1>7. /\ Wall!Clock(t1.at) \div US = h.sec /\ h.usec = Wall!Clock(t1.at) - US * h.sec
      /\ Wall!Clock(passed) \div US = g.sec /\ g.usec = Wall!Clock(passed) - US * g.sec
  BY <1>1, <1>2, <1>3, <1>5, Read
<1>8. /\ begun = g.sec - h.sec /\ g.sec \in Int /\ h.sec \in Int /\ begun \in Int
      /\ g.usec \in 0 .. US - 1 /\ h.usec \in 0 .. US - 1
  BY <1>2, <1>3, <1>7
<1>9. US * begun = US * g.sec - US * h.sec /\ US * g.sec \in Int /\ US * h.sec \in Int
  BY <1>1, <1>8
<1>10. us = (Wall!Clock(passed) - Wall!Clock(t1.at)) - US * begun
  BY <1>4, <1>6, <1>7, <1>9
<1>11. us \in Int /\ - US < us /\ us < US
  BY <1>1, <1>6, <1>8
<1> DEFINE elapsed == (passed - t1.at) * P
<1>12. elapsed \in Nat
  <2>1. passed - t1.at \in Nat
    BY <1>1, <1>2
  <2> QED
    BY <1>1, <2>1
<1>13. ASSUME Wall!Turns(t1.at) = Wall!Turns(passed)
       PROVE  us = elapsed - US * begun
  <2>1. Wall!Clock(passed) - Wall!Clock(t1.at) = elapsed
    BY <1>1, <1>2, <1>13, ClockTyped
  <2> HIDE DEF elapsed
  <2> QED
    BY <1>10, <2>1
<1> HIDE DEF elapsed
<1>14. ASSUME us = elapsed - US * begun, elapsed < US
       PROVE  us = elapsed <=> us >= 0
  <2>1. us >= 0 => begun = 0
    <3>1. US * begun \in Int /\ US * begun = elapsed - us
      BY <1>1, <1>8, <1>11, <1>12, <1>14
    <3>2. us >= 0 => - US < US * begun /\ US * begun < US
      BY <1>1, <1>11, <1>12, <1>14, <3>1
    <3> QED
      BY <1>1, <1>8, <3>2, SmallMultiple
  <2>2. begun = 0 => US * begun = 0
    BY <1>1
  <2> QED
    BY <1>11, <1>12, <1>14, <2>1, <2>2
<1> QED
  BY <1>10, <1>11, <1>13, <1>14 DEF elapsed, P

LEMMA WallEnd ==
    ASSUME WallInv, Wall!EndSearch
    PROVE  WallInv'
<1> DEFINE us == Wall!Gettimeofday.usec - t1.time.usec
           begun == (Wall!Clock(passed) \div US) - (Wall!Clock(t1.at) \div US)
<1>1. /\ t1 # Wall!None /\ t1' = Wall!None
      /\ printed' = [us |-> us, from |-> t1.at, to |-> passed]
      /\ UNCHANGED <<nticks, reset, set, at, passed>>
  BY DEF Wall!EndSearch, Wall!None
<1>2. us \in Int
  <2>1. Wall!Gettimeofday.usec \in 0 .. US - 1
    BY Reading
  <2>2. t1.time.usec \in 0 .. US - 1 /\ US \in Nat
    BY <1>1, WallTypes DEF WallInv, Wall!TypeOK
  <2> QED
    BY <2>1, <2>2
<1>3. Wall!Clock(t1.at) >= 0 /\ Wall!Clock(passed) >= 0 =>
        /\ us = (Wall!Clock(passed) - Wall!Clock(t1.at)) - US * begun
        /\ Wall!Turns(t1.at) = Wall!Turns(passed) =>
             /\ us = (passed - t1.at) * Wall!PerTick - US * begun
             /\ (passed - t1.at) * Wall!PerTick < US =>
                  (us = (passed - t1.at) * Wall!PerTick <=> us >= 0)
  BY <1>1, Printing
<1> HIDE DEF us
<1>4. printed'.us = us /\ printed'.from = t1.at /\ printed'.to = passed
  BY <1>1
<1>5. Wall!TypeOK'
  <2>1. t1.at \in 0 .. MaxTicks /\ passed \in 0 .. MaxTicks
    BY <1>1 DEF WallInv, Wall!TypeOK
  <2> QED
    BY <1>1, <1>2, <1>4, <2>1 DEF WallInv, Wall!TypeOK
<1>6. Wall!PrintsRight'
  <2>1. \A p : Wall!Clock(p)' = Wall!Clock(p) /\ Wall!Turns(p)' = Wall!Turns(p)
    BY <1>1 DEF Wall!Clock, Wall!Turns, Wall!Total, Wall!Lost, Wall!PerTick
  <2>2. /\ Wall!Clock(printed.from)' = Wall!Clock(t1.at)
        /\ Wall!Clock(printed.to)' = Wall!Clock(passed)
        /\ Wall!Turns(printed.from)' = Wall!Turns(t1.at)
        /\ Wall!Turns(printed.to)' = Wall!Turns(passed)
    BY <1>1, <1>4 DEF Wall!Clock, Wall!Turns, Wall!Total, Wall!Lost, Wall!PerTick
  <2> QED
    BY <1>3, <1>4, <2>2 DEF Wall!PrintsRight, Wall!PerTick
<1>7. (Wall!Total(reset) + at * Wall!PerTick = Wall!Total(set) + Wall!Lost)'
      /\ (nticks = (at + passed) % Word)'
  BY <1>1 DEF WallInv, Agreement, Wall!Total, Wall!Lost, Wall!PerTick
<1> QED
  BY <1>1, <1>5, <1>6, <1>7 DEF WallInv, Agreement, Wall!None

LEMMA WallInvariance == ClockSpec => []WallInv
<1>1. ClockInit => WallInv
  <2> SUFFICES ASSUME ClockInit
               PROVE  WallInv
    OBVIOUS
  <2>1. /\ nticks = 0 /\ passed = 0 /\ at = 0 /\ reset = [sec |-> 0, usec |-> 0]
        /\ set = [sec |-> 0, usec |-> 0] /\ t1 = Wall!None /\ printed = Wall!None
    BY DEF ClockInit, Wall!Init, Wall!Zero, Wall!None
  <2>2. /\ US \in Nat \ {0} /\ Wall!PerTick \in Nat /\ Word \in Nat \ {0}
        /\ MaxTicks \in Nat
    BY Rates, WordAssumption, ClockAssumption
  <2>3. Wall!TypeOK
    <3>1. 0 \in 0 .. Word - 1 /\ 0 \in 0 .. MaxTicks /\ 0 \in 1 - US .. US - 1
          /\ 0 \in 0 .. US - 1 /\ 0 \in Int /\ 0 \in Nat
      BY <2>2
    <3>2. reset \in [sec : Int, usec : 1 - US .. US - 1] /\ set \in [sec : Nat, usec : 0 .. US - 1]
      BY <2>1, <3>1
    <3> QED
      BY <2>1, <3>1, <3>2 DEF Wall!TypeOK, Wall!Time, Wall!None
  <2>4. Wall!Total(reset) = 0 /\ Wall!Total(set) = 0 /\ at * Wall!PerTick = 0 /\ Wall!Lost = 0
    <3>1. Wall!Total(reset) = 0 /\ Wall!Total(set) = 0 /\ at * Wall!PerTick = 0
      BY <2>1, <2>2 DEF Wall!Total
    <3>2. at * Wall!PerTick < Word
      BY <2>2, <3>1
    <3> QED
      BY <2>3, <3>1, <3>2, LostTyped
  <2>5. nticks = (at + passed) % Word
    <3>1. 0 \in 0 .. Word - 1
      BY <2>2
    <3>2. 0 % Word = 0
      BY <2>2, <3>1, Remainders, Zenon
    <3> QED
      BY <2>1, <3>2
  <2>6. Agreement
    BY <2>1, <2>4, <2>5 DEF Agreement, Wall!PrintsRight, Wall!None
  <2> QED
    BY <2>3, <2>6 DEF WallInv
<1>2. WallInv /\ [ClockNext]_clockVars => WallInv'
  <2> SUFFICES ASSUME WallInv, [ClockNext]_clockVars
               PROVE  WallInv'
    OBVIOUS
  <2>1. CASE TimerInterrupt
    BY <2>1, WallTick DEF TimerInterrupt
  <2>2. CASE Program
    <3>1. ASSUME NEW sec \in Seconds, NEW usec \in Micros,
                 Wall!Settimeofday([sec |-> sec, usec |-> usec])
          PROVE  WallInv'
      <4>1. [sec |-> sec, usec |-> usec] \in [sec : Nat, usec : 0 .. US - 1]
        BY ClockAssumption
      <4> QED
        BY <3>1, <4>1, WallSet
    <3> QED
      BY <2>2, <3>1, WallStart, WallEnd DEF Program, Wall!Set
  <2>3. CASE Register \/ UNCHANGED clockVars
    <3>1. UNCHANGED <<nticks, reset, t1, printed, set, at, passed>>
      BY <2>3 DEF Register, Start, Stop, clockVars, wallVars
    <3>2. Wall!TypeOK' /\ Wall!PrintsRight'
      BY <3>1 DEF WallInv, Agreement, Wall!TypeOK, Wall!PrintsRight, Wall!None, Wall!Clock,
         Wall!Turns, Wall!Total, Wall!Lost, Wall!PerTick
    <3>3. (t1 # Wall!None => t1.at <= passed /\ ReadAt(t1.time, t1.at))'
      BY <3>1 DEF WallInv, Agreement, ReadAt, Wall!None, Wall!Clock, Wall!Turns, Wall!Total,
         Wall!Lost, Wall!PerTick, Wall!Zero
    <3>4. (Wall!Total(reset) + at * Wall!PerTick = Wall!Total(set) + Wall!Lost)'
          /\ (nticks = (at + passed) % Word)'
      BY <3>1 DEF WallInv, Agreement, Wall!Total, Wall!Lost, Wall!PerTick
    <3> QED
      BY <3>2, <3>3, <3>4 DEF WallInv, Agreement
  <2> QED
    BY <2>1, <2>2, <2>3 DEF ClockNext
<1> QED
  BY <1>1, <1>2, PTL DEF ClockSpec

(* However often the counter goes round, and whenever the clock is set,    *)
(* gettimeofday is off by nothing but the microseconds that the product of *)
(* settimeofday lost and whole turns of the counter, and what a search     *)
(* prints by nothing but the seconds that began during the search.         *)
THEOREM ClockCorrect == ClockSpec => []ClockExact
<1>1. WallInv => ClockExact
  BY ReadingRight DEF ClockExact, WallInv, Agreement
<1> QED
  BY <1>1, WallInvariance, PTL

(* The programs and the drivers share one counter: setting and reading the *)
(* clock never disturbs an alarm.                                          *)
THEOREM AlarmsBesideClock == ClockSpec => []OnTime
<1>1. ClockInit => Init
  BY DEF ClockInit
<1>2. [ClockNext]_clockVars => [Next]_vars
  BY DEF ClockNext, TimerInterrupt, Register, Program, Wall!Set, Wall!Settimeofday,
     Wall!StartSearch, Wall!EndSearch, Next, vars, clockVars, alarmVars
<1>3. ClockSpec => Spec
  BY <1>1, <1>2, PTL DEF ClockSpec, Spec
<1> QED
  BY <1>3, AlarmsOnTime, PTL
=============================================================================
