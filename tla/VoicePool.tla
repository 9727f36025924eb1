------------------------------ MODULE VoicePool ------------------------------
(***************************************************************************)
(* What a part expects from its voice allocator outside cyclic mode, with  *)
(* no word about how voices are found: which note each voice is busy with. *)
(***************************************************************************)
EXTENDS Integers

CONSTANTS PoolNotes, PoolSizes

VARIABLE playing        \* playing[v] is the note voice v is busy with, or Free

Free == 255

PoolVoices == DOMAIN playing
FreeVoices == {v \in PoolVoices : playing[v] = Free}
Player(note) == {v \in PoolVoices : playing[v] = note}

Silence(n) == [v \in 0..(n - 1) |-> Free]

PoolInit == \E n \in PoolSizes : playing = Silence(n)

Resize(n) == playing' = Silence(n)

\* A note is played by the voice that plays it already, else by a free voice,
\* else by a voice taken from another note.
Play(note) ==
    \/ Player(note) # {} /\ UNCHANGED playing
    \/ Player(note) = {}
       /\ \E v \in IF FreeVoices # {} THEN FreeVoices ELSE PoolVoices :
             playing' = [playing EXCEPT ![v] = note]
    \/ PoolVoices = {} /\ UNCHANGED playing

\* Nobody plays a released note, and nobody else stops.
Stop(note) ==
    playing' = [v \in PoolVoices |-> IF playing[v] = note THEN Free ELSE playing[v]]

StopAll == playing' = [v \in PoolVoices |-> Free]

PoolNext ==
    \/ \E n \in PoolSizes : Resize(n)
    \/ \E note \in PoolNotes : Play(note) \/ Stop(note)
    \/ StopAll

PoolSpec == PoolInit /\ [][PoolNext]_playing
=============================================================================
