------------------------------- MODULE PartLfos -------------------------------
(***************************************************************************)
(* The LFOs of a part (src/controller/part.cc: Clock, UpdateLfos and       *)
(* RetriggerLfos; src/common/lfo.h).  An LFO runs freely, or is tied to    *)
(* the MIDI clock: each clock tick then sets its phase, and its increment  *)
(* from the duration of the last tick, measured in calls of UpdateLfos;    *)
(* these calls are counted by LfoRefresh.                                  *)
(*                                                                         *)
(* A definition whose name has an underscore is a faulty variant of the    *)
(* one that follows it: the properties are tested against these faults.    *)
(***************************************************************************)
EXTENDS LfoRefresh, FiniteSetsExt

CONSTANTS
    Lfos,           \* 0..kNumLfos - 1
    Rates,          \* for each LFO, its settings: a record of
                    \*   synced     whether it follows the clock
                    \*   length     cycle_length, in clock ticks
                    \*   increment  phase per clock tick, or per update
                    \*   mode       "free", "slave" or "master"
    MaxTick         \* bound: updates during a clock tick

Word == 65536

\* How far two phases are from each other, on the circle.
Distance(a, b) == Min({(a - b) % Word, (b - a) % Word})

\* The increments of a synced LFO are rounded, and close the cycle up to that.
ASSUME LfoAssumption ==
    /\ Lfos \subseteq Nat /\ MaxTick \in Nat
    /\ \A i \in Lfos :
           /\ Rates[i].synced \in BOOLEAN
           /\ Rates[i].length \in 1..96
           /\ Rates[i].increment \in 0..(Word - 1)
           /\ Rates[i].mode \in {"free", "slave", "master"}
           /\ Rates[i].synced
              => Distance(Rates[i].increment * Rates[i].length, 0) <= Rates[i].length

VARIABLES
    phase,          \* of each LFO, on 16 bits
    increment,      \* phase_increment
    looped,         \* phase_reset
    lfoStep,        \* lfo_step_
    tickDuration,   \* midi_clock_tick_duration_
    retriggered,    \* the LFOs whose envelope the last step has retriggered
    listened,       \* whether the part has voices: num_allocated_voices_ # 0
    lastTick,       \* history: the duration of the tick before
    regular         \* history: the LFOs that only the clock has set since, and no update left out

lfo  == <<phase, increment, looped, lfoStep, tickDuration, retriggered, listened>>
lfovars == <<lfo, lastTick, regular>>

Synced  == {i \in Lfos : Rates[i].synced}
Slaves  == {i \in Lfos : Rates[i].mode = "slave"}
Masters == {i \in Lfos : Rates[i].mode = "master"}

\* A division by zero gives 0xffff on this processor.
Quotient(a, b) == IF b = 0 THEN Word - 1 ELSE a \div b

LfoInit ==
    /\ phase = [i \in Lfos |-> 0]
    /\ increment = [i \in Lfos |-> IF Rates[i].synced THEN 0 ELSE Rates[i].increment]
    /\ looped = [i \in Lfos |-> FALSE]
    /\ lfoStep = [i \in Lfos |-> 0]
    /\ tickDuration = 0
    /\ retriggered = {}
    /\ listened = TRUE
    /\ lastTick = 0 /\ regular = {}

-----------------------------------------------------------------------------

\* The phase has wrapped: it is below the increment.
Wrapped(i, p) == p < increment[i]

\* Cycle completion: seen in the phase, or in the step of a synced LFO.
Completed(i, wrapped) == IF i \in Synced THEN lfoStep[i] = 0 ELSE wrapped[i]

\* "No need to bother if there's no voicecard listening." (part.cc:761)
UpdateLfos ==
    /\ tickDuration < MaxTick
    /\ tickDuration' = tickDuration + 1
    /\ \/ /\ listened
          /\ phase' = [i \in Lfos |-> (phase[i] + increment[i]) % Word]
          /\ looped' = [i \in Lfos |-> Wrapped(i, phase'[i])]
          /\ retriggered' = {i \in Masters : Completed(i, looped')}
          /\ UNCHANGED regular
       \/ /\ ~listened
          /\ retriggered' = {} /\ regular' = {}
          /\ UNCHANGED <<phase, looped>>
    /\ UNCHANGED <<increment, lfoStep, listened, lastTick>>

\* Part::AssignVoices: the voices are given to another part, or come back.
AssignVoices ==
    /\ listened' = ~listened /\ retriggered' = {}
    /\ UNCHANGED <<phase, increment, looped, lfoStep, tickDuration, lastTick, regular>>

NextStep(i) == IF lfoStep[i] + 1 >= Rates[i].length THEN 0 ELSE lfoStep[i] + 1

SetPhase(i) == (Rates[i].increment * NextStep(i)) % Word

\* The duration of the last tick for each LFO: it is reset after the first.
MeasuredFor_OneMore(i) == IF i = Min(Synced) THEN tickDuration + 1 ELSE 0

MeasuredFor(i) == IF i = Min(Synced) THEN tickDuration ELSE 0

ClockLfos ==
    /\ lfoStep' = [i \in Lfos |-> IF i \in Synced THEN NextStep(i) ELSE lfoStep[i]]
    /\ looped' = [i \in Lfos |-> IF i \in Synced THEN SetPhase(i) <= phase[i] ELSE looped[i]]
    /\ phase' = [i \in Lfos |-> IF i \in Synced THEN SetPhase(i) ELSE phase[i]]
    /\ increment' = [i \in Lfos |-> IF i \in Synced
                                    THEN Quotient(Rates[i].increment, MeasuredFor(i))
                                    ELSE increment[i]]
    /\ tickDuration' = IF Synced = {} THEN tickDuration ELSE 0
    /\ retriggered' = {}
    /\ lastTick' = tickDuration /\ regular' = Synced
    /\ UNCHANGED listened

\* A note on restarts the slave LFOs.
RetriggerLfos ==
    /\ phase' = [i \in Lfos |-> IF i \in Slaves THEN 0 ELSE phase[i]]
    /\ looped' = [i \in Lfos |-> IF i \in Slaves THEN TRUE ELSE looped[i]]
    /\ lfoStep' = [i \in Lfos |-> IF i \in Slaves THEN 0 ELSE lfoStep[i]]
    /\ retriggered' = {}
    /\ regular' = regular \ Slaves
    /\ UNCHANGED <<increment, tickDuration, listened, lastTick>>

StartLfos ==
    /\ lfoStep' = [i \in Lfos |-> 0]
    /\ retriggered' = {}
    /\ regular' = {}
    /\ UNCHANGED <<phase, increment, looped, tickDuration, listened, lastTick>>

LfoNext == UpdateLfos \/ AssignVoices \/ ClockLfos \/ RetriggerLfos \/ StartLfos

LfoSpec == LfoInit /\ [][LfoNext]_lfovars

-----------------------------------------------------------------------------
(* Correctness.                                                            *)

\* "Set the LFO increment so that, if the MIDI clock is regular, we will have
\* reached the expected phase at the next clock tick." (part.cc:592-593): up
\* to the rounding of the increments.
PhaseReachedAtClock ==
    [][\A i \in regular : ClockLfos /\ tickDuration = lastTick /\ tickDuration > 0
          => Distance(phase[i], phase'[i]) <= tickDuration + Rates[i].length]_lfovars

\* The updates come at their rate, and between two clock ticks the phase goes where the next
\* one sets it: an LFO neither drifts nor jumps.
LfosKeepTime == []RefreshKeepsRate /\ PhaseReachedAtClock
=============================================================================
