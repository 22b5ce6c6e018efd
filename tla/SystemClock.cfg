CONSTANTS
    Alarm = {alarm}
    Word = 10
    MaxPeriod = 8
    US = 4
    Rate = 2
    Seconds = {0, 3}
    Micros = {0, 1, 3}
    MaxTicks = 21
SPECIFICATION ClockSpec
INVARIANTS
    OnTime
    ClockExact
