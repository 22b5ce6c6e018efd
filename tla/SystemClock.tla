---------------------------- MODULE SystemClock ----------------------------
(***************************************************************************)
(* The one tick counter behind the alarms of the drivers and the wall      *)
(* clock of the programs: both count alt_tick, which goes around with the  *)
(* word.                                                                   *)
(***************************************************************************)
EXTENDS AlarmTick

CONSTANTS US, Rate, Seconds, Micros, MaxTicks    \* of TimeOfDay

VARIABLES reset, t1, printed, set, at, passed

Wall == INSTANCE TimeOfDay

ASSUME ClockAssumption ==
    /\ US \in Nat \ {0} /\ Rate \in Nat \ {0}
    /\ US % Rate = 0 /\ Rate < US /\ 2 * US < Word
    /\ Seconds \subseteq Nat /\ Micros \subseteq 0 .. US - 1 /\ MaxTicks \in Nat

wallVars == <<reset, t1, printed, set, at, passed>>
alarmVars == <<list, time, rollover, wait>>
clockVars == <<nticks, alarmVars, wallVars>>

ClockInit == Init /\ Wall!Init

TimerInterrupt == Wall!Tick /\ \E period \in [Alarm -> 0 .. MaxPeriod] : Tick(period)

Register ==
    /\ \E a \in Alarm : Stop(a) \/ \E n \in 0 .. MaxPeriod : Start(a, n)
    /\ UNCHANGED wallVars

Program == (Wall!Set \/ Wall!StartSearch \/ Wall!EndSearch) /\ UNCHANGED alarmVars

ClockNext == TimerInterrupt \/ Register \/ Program

ClockSpec == ClockInit /\ [][ClockNext]_clockVars

-----------------------------------------------------------------------------
(* The wall clock at every moment, however often the counter goes round    *)
(* and whenever the clock is set: what is read is off by nothing but the   *)
(* microseconds lost by a late setting and by whole turns of the counter,  *)
(* and what a search prints by nothing but whole seconds.                  *)
ClockExact == Wall!TypeOK /\ Wall!ReadsRight /\ Wall!PrintsRight
=============================================================================
