----------------------------- MODULE TimeOfDay -----------------------------
(***************************************************************************)
(* The wall clock of the HAL: settimeofday remembers the time at which the *)
(* tick counter was zero, gettimeofday adds the ticks to it.  The counter  *)
(* is an alt_u32; settimeofday multiplies it in 32 bits, gettimeofday in   *)
(* 64.  The search program reads the clock before and after a search and   *)
(* prints the difference of the microseconds.                              *)
(***************************************************************************)
EXTENDS Integers

CONSTANTS
    US,         \* ALT_US, microseconds in a second
    Rate,       \* ticks per second
    Word,       \* 2^32
    Seconds, Micros,    \* of the times somebody sets
    MaxTicks    \* bound: ticks from one setting of the clock to the next

Time == [sec : Nat, usec : 0 .. US - 1]

VARIABLES
    nticks,     \* _alt_nticks
    reset,      \* alt_resettime
    t1,         \* t1 of the search, with the ticks counted then; or None
    printed,    \* the elapsed time printed just now, with the ticks counted
                \* at both readings; or None
    set,        \* history: the time last set
    at,         \* history: the counter when it was set
    passed      \* history: ticks since then

vars == <<nticks, reset, t1, printed, set, at, passed>>

None == [none |-> TRUE]
Zero == [sec |-> 0, usec |-> 0]
PerTick == US \div Rate
Total(t) == t.sec * US + t.usec

Init ==
    /\ nticks = 0 /\ at = 0 /\ passed = 0
    /\ reset = Zero /\ set = Zero
    /\ t1 = None /\ printed = None

Tick ==
    /\ passed < MaxTicks
    /\ nticks' = (nticks + 1) % Word
    /\ passed' = passed + 1
    /\ printed' = None
    /\ UNCHANGED <<reset, t1, set, at>>

(* Mistake: a borrowed second is not given to the microseconds. *)
Gettimeofday_NoBorrow ==
    LET sec == reset.sec + nticks \div Rate
        usec == reset.usec + ((nticks * PerTick) % US)
    IN  IF usec >= US THEN [sec |-> sec + 1, usec |-> usec - US] ELSE [sec |-> sec, usec |-> usec]

(* Each loop of the code turns at most once: both terms are below US. *)
Gettimeofday ==
    LET sec == reset.sec + nticks \div Rate
        usec == reset.usec + ((nticks * PerTick) % US)
    IN  IF usec < 0 /\ sec <= 0 THEN Zero
        ELSE IF usec < 0 THEN [sec |-> sec - 1, usec |-> usec + US]
        ELSE IF usec >= US THEN [sec |-> sec + 1, usec |-> usec - US]
        ELSE [sec |-> sec, usec |-> usec]

ResetTime(t) ==
    [sec |-> t.sec - nticks \div Rate, usec |-> t.usec - (((nticks * PerTick) % Word) % US)]

(* A search that is under way is not looked at: setting the clock meanwhile *)
(* makes any difference of two readings meaningless.                       *)
Settimeofday(t) ==
    /\ reset' = ResetTime(t)
    /\ set' = t /\ at' = nticks /\ passed' = 0
    /\ t1' = None /\ printed' = None
    /\ UNCHANGED nticks

StartSearch ==
    /\ t1 = None
    /\ t1' = [time |-> Gettimeofday, at |-> passed]
    /\ printed' = None
    /\ UNCHANGED <<nticks, reset, set, at, passed>>

EndSearch ==
    /\ t1 # None
    /\ printed' = [us |-> Gettimeofday.usec - t1.time.usec, from |-> t1.at, to |-> passed]
    /\ t1' = None
    /\ UNCHANGED <<nticks, reset, set, at, passed>>

Set == \E sec \in Seconds, usec \in Micros : Settimeofday([sec |-> sec, usec |-> usec])

-----------------------------------------------------------------------------
(* What the product of settimeofday loses by its 32 bits, in microseconds. *)
Lost == ((at * PerTick) % US) - (((at * PerTick) % Word) % US)

(* How often the counter has gone round in the first p ticks since then.   *)
Turns(p) == (at + p) \div Word

(* The time set and p ticks, what was lost and the turns taken off.        *)
Clock(p) == Total(set) + p * PerTick + Lost - (Turns(p) * Word) * PerTick

(* The counter is a word, the remembered time less than a second away from *)
(* whole seconds.                                                          *)
TypeOK ==
    /\ nticks \in 0 .. Word - 1 /\ at \in 0 .. Word - 1 /\ passed \in 0 .. MaxTicks
    /\ reset \in [sec : Int, usec : 1 - US .. US - 1]
    /\ set \in Time
    /\ t1 = None \/ (t1.time \in [sec : Int, usec : 0 .. US - 1] /\ t1.at \in 0 .. MaxTicks)
    /\ \/ printed = None
       \/ printed.us \in Int /\ printed.from \in 0 .. MaxTicks /\ printed.to \in 0 .. MaxTicks

(* gettimeofday returns the time that was set plus the time since, but for *)
(* two errors: less than a second, fixed when the clock is set too late    *)
(* for its 32-bit product, and a whole turn for each time the counter has  *)
(* gone round.  A time before zero may be read as zero.  So what was set   *)
(* is read back at once if the product lost nothing.                       *)
ReadsRight ==
    /\ Gettimeofday.usec \in 0 .. US - 1
    /\ \/ Total(Gettimeofday) = Clock(passed)
       \/ Clock(passed) < 0 /\ Gettimeofday = Zero
    /\ Lost \in 1 - US .. US - 1 /\ (at * PerTick < Word => Lost = 0)
    /\ passed = 0 /\ Lost = 0 => Gettimeofday = set

(* The elapsed time that a search prints is short by one second for every  *)
(* second that begins during the search.  A search of less than a second   *)
(* is timed right if, and only if, no negative number is printed (unless   *)
(* the counter goes round during the search).                              *)
PrintsRight ==
    printed # None /\ Clock(printed.from) >= 0 /\ Clock(printed.to) >= 0 =>
        LET elapsed == (printed.to - printed.from) * PerTick
            begun == Clock(printed.to) \div US - Clock(printed.from) \div US
        IN /\ printed.us = (Clock(printed.to) - Clock(printed.from)) - US * begun
           /\ Turns(printed.from) = Turns(printed.to) =>
                /\ printed.us = elapsed - US * begun
                /\ elapsed < US => (printed.us = elapsed <=> printed.us >= 0)
=============================================================================
