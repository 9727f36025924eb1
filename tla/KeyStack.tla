------------------------------- MODULE KeyStack -------------------------------
(***************************************************************************)
(* What a part expects of its stack of keys: the keys held, most recent    *)
(* first, each once, and at most Capacity of them.                         *)
(***************************************************************************)
EXTENDS Integers, SequencesExt

CONSTANTS Capacity, KeyNotes, KeyVelocities

VARIABLE held           \* a sequence of [note, velocity, flagged]

KeysInit == held = <<>>

Without(note) ==
    LET places == {i \in DOMAIN held : held[i].note = note}
    IN  IF places = {} THEN held ELSE RemoveAt(held, CHOOSE i \in places : TRUE)

\* A pressed key is on top; in a full stack the oldest other key is forgotten.
Press(note, velocity) ==
    LET others == Without(note)
        kept == IF Len(others) = Capacity THEN Front(others) ELSE others
    IN  held' = <<[note |-> note, velocity |-> velocity, flagged |-> FALSE]>> \o kept

Release(note) == held' = Without(note)

\* A key released under the pedal keeps its place.
Sustain(note) ==
    held' = [i \in DOMAIN held |->
                IF held[i].note = note /\ held[i].velocity # 0
                THEN [held[i] EXCEPT !.flagged = TRUE]
                ELSE held[i]]

ReleaseAll == held' = <<>>

KeysNext ==
    \/ \E note \in KeyNotes, velocity \in KeyVelocities : Press(note, velocity)
    \/ \E note \in KeyNotes : Release(note) \/ Sustain(note)
    \/ ReleaseAll

KeysSpec == KeysInit /\ [][KeysNext]_held
=============================================================================
