------------------------------ MODULE MultiClock ------------------------------
(***************************************************************************)
(* The internal clock (src/controller/multi.{h,cc}): a timer interrupt     *)
(* generates clock ticks and the main loop processes them.  The two share  *)
(* num_clock_events_, which the main loop decrements by loading and        *)
(* storing it, and tick_duration_, which it writes one byte after the      *)
(* other, in an order that the compiler chooses.                           *)
(*                                                                         *)
(* A definition whose name has an underscore is a faulty variant of the    *)
(* one that follows it: the properties are tested against these faults.    *)
(***************************************************************************)
EXTENDS Integers, FiniteSets

CONSTANTS
    Tables,         \* tick_duration_table_ for each tempo, as functions on 0..
    Internal,       \* the tempos that select the internal clock
    TicksPerStep,   \* kNumTicksPerStep
    ReleaseTicks,   \* clock_release * 24
    ByteSize,       \* the values of one byte of tick_duration_
    EventSize,      \* the values of num_clock_events_
    MaxPass,        \* bound: timer ticks during one pass of the main loop
    MidiTransport   \* whether start and stop messages come in

ASSUME ClockAssumption ==
    /\ Internal \subseteq DOMAIN Tables
    /\ \A t \in DOMAIN Tables :
           LET n == Cardinality(DOMAIN Tables[t])
           IN  n \in Nat \ {0} /\ Tables[t] \in [0..(n - 1) -> Nat]
    /\ TicksPerStep \in Nat \ {0} /\ ReleaseTicks \in Nat
    /\ ByteSize \in Nat \ {0} /\ EventSize \in Nat \ {0} /\ MaxPass \in Nat \ {0}
    /\ MidiTransport \in BOOLEAN

VARIABLES
    tempo,      \* the selected tempo
    counter,    \* clock_counter_
    duration,   \* tick_duration_
    events,     \* num_clock_events_
    tick,       \* tick_count_
    step,       \* step_count_
    running,    \* running_
    idle,       \* idle_ticks_
    pressed,    \* whether some part has a pressed key
    pc,         \* where the main loop is
    reg,        \* the copy of events being decremented
    old,        \* duration before the write in progress
    new,        \* duration after it
    resume,     \* where the main loop goes on after the write
    pass,       \* history: timer ticks in this pass of the main loop
    owed,       \* history: clock ticks generated, and neither processed nor lost
    missed,     \* history: those of them that came after the load in progress
    retuned     \* history: the tempo has been changed at this step of the groove

shared  == <<counter, duration, events>>
state   == <<tempo, tick, step, retuned, running, idle, pressed>>
writing == <<old, new, resume>>
counts  == <<pass, owed, missed>>
clockvars == <<shared, state, pc, reg, writing, counts>>

GrooveSteps == DOMAIN Tables[tempo]

\* One of the two bytes has been written.
HalfWritten(from, to) ==
    {(ByteSize * (to \div ByteSize)) + (from % ByteSize),
     (ByteSize * (from \div ByteSize)) + (to % ByteSize)}

ClockInit ==
    /\ tempo \in DOMAIN Tables
    /\ counter = 0 /\ duration = Tables[tempo][0] /\ events = 0
    /\ tick = 0 /\ step = 0 /\ running = FALSE /\ idle = 0 /\ pressed = FALSE
    /\ retuned = FALSE
    /\ pc = "events" /\ reg = 0
    /\ old = duration /\ new = duration /\ resume = "events"
    /\ pass = 0 /\ owed = 0 /\ missed = 0

-----------------------------------------------------------------------------
(* The timer interrupt: Multi::Tick.                                       *)

\* A clock tick is due.
Generates ==
    /\ counter' = 0 /\ events' = (events + 1) % EventSize
    /\ owed' = owed + 1
    /\ missed' = IF pc = "store" THEN missed + 1 ELSE missed

Tick ==
    /\ pass < MaxPass /\ pass' = pass + 1
    /\ \/ counter + 1 >= duration /\ Generates
       \/ counter + 1 < duration /\ counter' = counter + 1 /\ UNCHANGED <<events, owed, missed>>
    /\ UNCHANGED <<duration, state, pc, reg, writing>>

-----------------------------------------------------------------------------
(* The main loop.                                                          *)

\* tick_duration_ = d, then the rest of the code from `next`.
SetDuration(d, next) ==
    /\ old' = duration /\ new' = d /\ resume' = next
    /\ pc' = "half"
    /\ duration' \in HalfWritten(duration, d)

FinishWrite ==
    /\ pc = "half"
    /\ duration' = new /\ old' = new /\ pc' = resume
    /\ UNCHANGED <<counter, events, state, reg, new, resume, counts>>

Started ==
    /\ tick' = 0 /\ step' = 0 /\ retuned' = FALSE /\ idle' = 0 /\ running' = TRUE
    /\ SetDuration(Tables[tempo][0], "events")

Start ==
    /\ pc = "events" /\ MidiTransport
    /\ Started
    /\ UNCHANGED <<tempo, counter, events, pressed, reg, counts>>

\* Part::Stop releases the keys.
Stop ==
    /\ pc = "events" /\ MidiTransport
    /\ running' = FALSE /\ pressed' = FALSE
    /\ UNCHANGED <<shared, tempo, tick, step, retuned, idle, pc, reg, writing, counts>>

\* Multi::NoteOn and Multi::NoteOff.  A note that no part accepts starts the
\* clock all the same.
KeyDown ==
    /\ pc = "events"
    /\ pressed' \in {TRUE, pressed}
    /\ IF running
       THEN UNCHANGED <<shared, tick, step, retuned, running, idle, pc, writing>>
       ELSE Started /\ UNCHANGED <<counter, events>>
    /\ UNCHANGED <<tempo, reg, counts>>

KeyUp ==
    /\ pc = "events" /\ pressed
    /\ pressed' = FALSE
    /\ UNCHANGED <<shared, tempo, tick, step, retuned, running, idle, pc, reg, writing, counts>>

\* SetValue: ComputeInternalClockOverflowsTable.
SetTempo(t) ==
    /\ pc = "events" /\ t # tempo
    /\ tempo' = t /\ retuned' = TRUE
    /\ SetDuration(Tables[t][0], "events")
    /\ UNCHANGED <<counter, events, tick, step, running, idle, pressed, reg, counts>>

UpdateClocks ==
    /\ pc = "events"
    /\ pc' = "clocks"
    /\ UNCHANGED <<shared, state, reg, writing, counts>>

\* With the clock of another unit the ticks of the interrupt are dropped.
DropTicks ==
    /\ pc = "clocks" /\ tempo \notin Internal
    /\ events' = 0 /\ owed' = 0 /\ pc' = "events" /\ pass' = 0
    /\ UNCHANGED <<counter, duration, state, reg, writing, missed>>

\* As many ticks as num_clock_events_ has values are lost when it wraps.
NoMoreTicks ==
    /\ pc = "clocks" /\ tempo \in Internal /\ events = 0
    /\ owed' = 0 /\ pc' = "events" /\ pass' = 0
    /\ UNCHANGED <<shared, state, reg, writing, missed>>

\* No key is pressed: the parts that are left counting are stopped.
CountIdle_FromStep ==
    /\ idle' = IF running /\ tempo \in Internal
               THEN IF pressed \/ tick' = 0 THEN 0 ELSE idle + 1 ELSE idle
    /\ running' = (running /\ ~(tempo \in Internal /\ idle' > ReleaseTicks))

CountIdle ==
    /\ idle' = IF running /\ tempo \in Internal
               THEN IF pressed THEN 0 ELSE idle + 1 ELSE idle
    /\ running' = (running /\ ~(tempo \in Internal /\ idle' > ReleaseTicks))

\* Multi::Clock, from the loop of UpdateClocks.
ClockThen(next) ==
    /\ tick' = (tick + 1) % TicksPerStep
    /\ IF tick' = 0
       THEN /\ step' = (step + 1) % Cardinality(GrooveSteps) /\ retuned' = FALSE
            /\ SetDuration(Tables[tempo][step'], next)
       ELSE pc' = next /\ UNCHANGED <<step, retuned, duration, writing>>
    /\ CountIdle
    /\ UNCHANGED <<tempo, pressed>>

Clock_LoadsFirst ==
    /\ pc = "clocks" /\ tempo \in Internal /\ events # 0
    /\ ClockThen("store")
    /\ reg' = events /\ owed' = owed - 1
    /\ UNCHANGED <<counter, events, pass, missed>>

Clock ==
    /\ pc = "clocks" /\ tempo \in Internal /\ events # 0
    /\ ClockThen("load")
    /\ owed' = owed - 1
    /\ UNCHANGED <<counter, events, reg, pass, missed>>

\* Multi::Clock, from a MIDI clock message.
MidiClock ==
    /\ pc = "events" /\ MidiTransport /\ tempo \notin Internal
    /\ ClockThen("events")
    /\ UNCHANGED <<counter, events, reg, counts>>

\* --num_clock_events_
LoadEvents ==
    /\ pc = "load"
    /\ reg' = events /\ pc' = "store"
    /\ UNCHANGED <<shared, state, writing, counts>>

StoreEvents ==
    /\ pc = "store"
    /\ events' = (reg + EventSize - 1) % EventSize /\ pc' = "clocks"
    /\ owed' = owed - missed /\ missed' = 0
    /\ UNCHANGED <<counter, duration, state, reg, writing, pass>>

Work == \/ FinishWrite \/ UpdateClocks \/ DropTicks \/ NoMoreTicks
        \/ Clock \/ LoadEvents \/ StoreEvents

ClockNext ==
    \/ Tick
    \/ Start \/ Stop \/ KeyDown \/ KeyUp \/ MidiClock
    \/ \E t \in DOMAIN Tables : SetTempo(t)
    \/ FinishWrite \/ UpdateClocks \/ DropTicks \/ NoMoreTicks
    \/ Clock \/ LoadEvents \/ StoreEvents

\* The timer and the main loop keep running; nothing obliges a key or a
\* message to come.
ClockSpec == ClockInit /\ [][ClockNext]_clockvars /\ WF_clockvars(Tick) /\ WF_clockvars(Work)

-----------------------------------------------------------------------------
(* Correctness.                                                            *)

\* "Process ticks generated by the ISR-based clock." (multi.cc:223): each of
\* them waits in num_clock_events_, as far as it counts, until it is processed.
TicksAreCounted ==
    pc \in {"events", "clocks"} => owed % EventSize = events

\* The ticks that come while num_clock_events_ is being stored are lost.  They
\* come only in a pass of the main loop that takes longer than a tick.
OnlyLateLoopsLose ==
    Tick /\ missed' > missed => pass' > duration

\* The interrupt may find a duration that is neither the old nor the new one.
Torn ==
    /\ pc = "half"
    /\ old \div ByteSize # new \div ByteSize /\ old % ByteSize # new % ByteSize

\* The duration of the step of the groove, or of the first one from a change
\* of tempo up to the next step, or the one that is being replaced.
Due ==
    {Tables[tempo][IF retuned THEN 0 ELSE step]} \cup (IF pc = "half" THEN {old} ELSE {})

\* A tick comes neither early nor late, unless the duration is torn.
TicksAreDue ==
    Tick /\ ~Torn => \E d \in Due : owed' > owed <=> counter + 1 >= d

\* Whatever the interleaving of the interrupt and the main loop: the ticks are
\* processed or waiting but for those that a late loop loses, and they come
\* when they are due.
TicksKeepTime == [][TicksAreCounted' /\ OnlyLateLoopsLose /\ TicksAreDue]_clockvars

\* "No key is being pressed on any part. It looks like we are counting beats
\* for nothing..." (multi.cc:176): the clock does not run for ever without
\* keys, unless start messages keep coming.
IdleClockStops ==
    <>[][~Start]_clockvars => []<>(pressed \/ tempo \notin Internal \/ ~running)
=============================================================================
