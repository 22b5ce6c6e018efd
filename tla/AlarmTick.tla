----------------------------- MODULE AlarmTick -----------------------------
(***************************************************************************)
(* The system clock of the HAL: a tick counter of one machine word and the *)
(* alarms that are called back after so many ticks.  The console driver    *)
(* and the driver of the display have one alarm each.  The counter wraps   *)
(* around (after 49 days at the timer's 1 ms); an alarm whose time lies    *)
(* beyond the wrap carries a flag until the counter gets there.            *)
(*                                                                         *)
(* alt_alarm_start, alt_alarm_stop and alt_tick run with the interrupts    *)
(* disabled: each is one step.                                             *)
(***************************************************************************)
EXTENDS Integers

CONSTANTS
    Alarm,      \* the alarm structures
    Word,       \* 2^32, the values of an alt_u32
    MaxPeriod   \* the longest period anybody asks for

ASSUME WordAssumption == Word \in Nat /\ MaxPeriod \in Nat /\ 0 < MaxPeriod /\ MaxPeriod + 1 < Word

VARIABLES
    nticks,     \* _alt_nticks
    list,       \* the alarms in alt_alarm_list
    time, rollover,
    wait        \* history: ticks until the callback that was asked for

vars == <<nticks, list, time, rollover, wait>>

Wrap(v) == IF v >= Word THEN v - Word ELSE v

Init ==
    /\ nticks = 0 /\ list = {}
    /\ time = [a \in Alarm |-> 0]
    /\ rollover = [a \in Alarm |-> FALSE]
    /\ wait = [a \in Alarm |-> 0]

(* An alarm structure is registered once: its links are in the list. *)
Start(a, n) ==
    /\ a \notin list
    /\ time' = [time EXCEPT ![a] = Wrap(n + nticks + 1)]
    /\ rollover' = [rollover EXCEPT ![a] = Wrap(n + nticks + 1) < nticks]
    /\ list' = list \cup {a}
    /\ wait' = [wait EXCEPT ![a] = n + 1]
    /\ UNCHANGED nticks

Stop(a) ==
    /\ a \in list
    /\ list' = list \ {a}
    /\ wait' = [wait EXCEPT ![a] = 0]
    /\ UNCHANGED <<nticks, time, rollover>>

Now == Wrap(nticks + 1)
Later(a) == rollover[a] /\ Now # 0

(* Mistake: the flag is not looked at. *)
Called_TimeOnly(a) == a \in list /\ time[a] <= Now

Called(a) == a \in list /\ time[a] <= Now /\ ~Later(a)

(* Every alarm of the list is looked at; period is what each callback that *)
(* is due returns, 0 to be taken off the list.                             *)
Tick(period) ==
    /\ nticks' = Now
    /\ list' = {a \in list : Called(a) => period[a] # 0}
    /\ time' = [a \in Alarm |-> IF Called(a) THEN Wrap(time[a] + period[a]) ELSE time[a]]
    /\ rollover' = [a \in Alarm |->
                       IF Called(a) THEN Wrap(time[a] + period[a]) < Now
                       ELSE IF a \in list THEN Later(a) ELSE rollover[a]]
    /\ wait' = [a \in Alarm |-> IF Called(a) THEN period[a] ELSE IF a \in list THEN wait[a] - 1 ELSE 0]

Next ==
    \/ \E a \in Alarm, n \in 0 .. MaxPeriod : Start(a, n)
    \/ \E a \in Alarm : Stop(a)
    \/ \E period \in [Alarm -> 0 .. MaxPeriod] : Tick(period)

Spec == Init /\ [][Next]_vars

-----------------------------------------------------------------------------
(* Every variable keeps its type: counter and times are words. *)
TypeOK ==
    /\ nticks \in 0 .. Word - 1
    /\ list \subseteq Alarm
    /\ time \in [Alarm -> 0 .. Word - 1]
    /\ rollover \in [Alarm -> BOOLEAN]
    /\ wait \in [Alarm -> 0 .. Word - 1]

(* The next tick calls back exactly the alarms whose ticks are up: none is *)
(* early, late or forgotten because the counter wraps meanwhile.           *)
OnTime == \A a \in list : Called(a) <=> wait[a] = 1

(* What time and rollover say together, and why OnTime holds. *)
TimeOfAlarm ==
    \A a \in list :
        /\ wait[a] > 0
        /\ time[a] = Wrap(nticks + wait[a])
        /\ rollover[a] <=> nticks + wait[a] >= Word

=============================================================================
