----------------------------- MODULE Arpeggiator -----------------------------
(***************************************************************************)
(* The position of a part's arpeggiator (Part::StartArpeggio and           *)
(* Part::StepArpeggio in src/controller/part.cc): which of the pressed     *)
(* keys, and which octave, the next note takes.  A position is a record    *)
(*                                                                         *)
(*   dir     arp_direction_, 1 or -1                                       *)
(*   step    arp_step_, an index into the pressed keys                     *)
(*   octave  arp_octave_                                                   *)
(*                                                                         *)
(* The keys pressed, the direction and the number of octaves change        *)
(* between any two steps without the position being told, except that      *)
(* Part::SetValue and Part::Start restart it.                              *)
(*                                                                         *)
(* A definition whose name has an underscore is a faulty variant of the    *)
(* one that follows it: the properties are tested against these faults.    *)
(***************************************************************************)
EXTENDS Integers

CONSTANTS
    MaxKeys,        \* the capacity of the stack of pressed keys
    MaxOctaves      \* the largest value of the parameter arp_octave

ASSUME MaxKeysAssumption == MaxKeys \in 1..12
ASSUME MaxOctavesAssumption == MaxOctaves \in 1..4

VARIABLES
    pos,            \* the position
    keys,           \* pressed_keys_.size()
    direction,      \* data_.arp_direction()
    octaves         \* data_.arp_octave()

arpvars == <<pos, keys, direction, octaves>>

\* CHORD does not step the arpeggiator; AS_PLAYED steps like UP.
Directions == {"up", "down", "up_down", "as_played", "random"}

InitialDir(d) == IF d = "down" THEN -1 ELSE 1

At(dir, step, octave) == [dir |-> dir, step |-> step, octave |-> octave]

Restarted_AtFirst(p, n, octs) == At(p.dir, 0, 0)

\* StartArpeggio
Restarted(p, n, octs) ==
    IF p.dir = 1
    THEN At(p.dir, 0, 0)
    ELSE At(p.dir, n - 1, octs - 1)

Overflows_Exactly(p, n) == p.step + p.dir = n

\* The arpeggiator moves by one key, and wraps to the next octave.
Overflows(p, n) == p.step + p.dir >= n
Underflows(p, n) == ~Overflows(p, n) /\ p.step + p.dir < 0
Wraps(p, n) == Overflows(p, n) \/ Underflows(p, n)

Moved(p, n) ==
    At(p.dir,
       IF Overflows(p, n) THEN 0
       ELSE IF Underflows(p, n) THEN n - 1
       ELSE p.step + p.dir,
       IF Wraps(p, n) THEN p.octave + p.dir ELSE p.octave)

\* After a wrap, the octave is one the arpeggio does not cover.
LeavesRange(p, n, octs) ==
    Wraps(p, n) /\ (Moved(p, n).octave >= octs \/ Moved(p, n).octave < 0)

Reversed(p, n, octs) == Restarted(At(-p.dir, p.step, p.octave), n, octs)

\* At the end of its range the arpeggio starts again or, in up/down mode,
\* turns round and moves on.  StepArpeggio calls itself for that; the call
\* never turns round again (RecursionStops below), so it is a plain move.
Stepped(p, d, n, octs) ==
    IF ~LeavesRange(p, n, octs) THEN Moved(p, n)
    ELSE IF d # "up_down" THEN Restarted(Moved(p, n), n, octs)
    ELSE IF n > 1 \/ octs > 1 THEN Moved(Reversed(p, n, octs), n)
    ELSE Reversed(p, n, octs)

\* StepArpeggio: in random mode, any key and any octave.
Steps(p, d, n, octs) ==
    IF d = "random"
    THEN {At(p.dir, s, o) : s \in 0..(n - 1), o \in 0..(octs - 1)}
    ELSE {Stepped(p, d, n, octs)}

-----------------------------------------------------------------------------
(* The state machine.  A part is clocked only once it has been started.    *)

ArpInit ==
    /\ direction \in Directions
    /\ octaves \in 1..MaxOctaves
    /\ keys = 0
    /\ pos = Restarted(At(InitialDir(direction), 0, 0), 0, octaves)

\* Part::Start
StartArpeggio ==
    /\ pos' = Restarted(At(InitialDir(direction), pos.step, pos.octave), keys, octaves)
    /\ UNCHANGED <<keys, direction, octaves>>

\* Part::SetValue on arp_direction
SetDirection(d) ==
    /\ direction' = d
    /\ pos' = Restarted(At(InitialDir(d), pos.step, pos.octave), keys, octaves)
    /\ UNCHANGED <<keys, octaves>>

\* Part::SetValue on arp_octave restarts nothing.
SetOctaves(octs) == octaves' = octs /\ UNCHANGED <<pos, keys, direction>>

\* A program is loaded: Part::Touch does not look at the arpeggiator.
Load(d, octs) == direction' = d /\ octaves' = octs /\ UNCHANGED <<pos, keys>>

\* Keys are pressed, released, evicted or cleared.
ChangeKeys(n) == keys' = n /\ UNCHANGED <<pos, direction, octaves>>

\* ClockArpeggiator with a note in the pattern and a key pressed.
StepArpeggio ==
    /\ keys > 0
    /\ pos' \in Steps(pos, direction, keys, octaves)
    /\ UNCHANGED <<keys, direction, octaves>>

ArpNext ==
    \/ StartArpeggio
    \/ \E d \in Directions : SetDirection(d)
    \/ \E octs \in 1..MaxOctaves : SetOctaves(octs)
    \/ \E d \in Directions, octs \in 1..MaxOctaves : Load(d, octs)
    \/ \E n \in 0..MaxKeys : ChangeKeys(n)
    \/ StepArpeggio

ArpSpec == ArpInit /\ [][ArpNext]_arpvars

\* The clock keeps ticking while a key is pressed, and every arpeggio pattern
\* has a note in it.
ArpFairSpec == ArpSpec /\ WF_arpvars(StepArpeggio)

-----------------------------------------------------------------------------
(* Correctness.                                                            *)

\* The position is bounded, so the 8-bit arithmetic never overflows.  The
\* step is off the keys only while nothing is pressed or after a release.
ArpTypeOK ==
    /\ pos \in [dir : {-1, 1}, step : -1..(MaxKeys - 1), octave : 0..(MaxOctaves - 1)]
    /\ keys \in 0..MaxKeys
    /\ direction \in Directions
    /\ octaves \in 1..MaxOctaves

\* The key an arpeggio note is read from (sorted_note or played_note of
\* arp_step_) is always one that is pressed now, whatever was pressed,
\* released, turned round or reconfigured since the last step.
StepsOnPressedKey == [][StepArpeggio => pos'.step \in 0..(keys - 1)]_arpvars

\* StepArpeggio's call to itself stays inside the range of the arpeggio, so
\* it calls itself at most once.
RecursionStops ==
    keys > 0 /\ direction = "up_down" /\ LeavesRange(pos, keys, octaves)
        /\ (keys > 1 \/ octaves > 1)
    => ~LeavesRange(Reversed(pos, keys, octaves), keys, octaves)

\* An arpeggio of more than one note never plays the same one twice in a
\* row, also where it turns round (the reason for the recursive call).
NoRepeat ==
    [][StepArpeggio /\ direction # "random" /\ keys * octaves > 1
            /\ pos.step \in 0..(keys - 1) /\ pos.octave \in 0..(octaves - 1)
        => <<pos'.step, pos'.octave>> # <<pos.step, pos.octave>>]_arpvars

\* With the keys held and the settings left alone, every key is played in
\* every octave again and again, from whatever position the past has left.
PlaysEveryKey ==
    \A k \in 0..(MaxKeys - 1), o \in 0..(MaxOctaves - 1) :
        <>[][StepArpeggio]_arpvars =>
            []<>(k < keys /\ o < octaves /\ direction # "random"
                    => pos.step = k /\ pos.octave = o)
=============================================================================
