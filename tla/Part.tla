--------------------------------- MODULE Part ---------------------------------
(***************************************************************************)
(* One part of the controller (src/controller/part.{h,cc}): the keys, the  *)
(* sustain pedal, the arpeggiator and the note sequencer on one side, the  *)
(* voices it drives, the notes it sends to MIDI out and the notes it hands *)
(* to a chained instrument on the other.                                   *)
(*                                                                         *)
(* The state of a part is a record, and each method a function on it, as   *)
(* the methods call one another.  Its fields:                              *)
(*                                                                         *)
(*   settings   polyMode, arpMode, direction, octaves, scale (the notes    *)
(*              the raga admits), voices (num_allocated_voices_)           *)
(*   allocMode  polyphony_mode_: the mode the allocators were last         *)
(*              initialised for                                            *)
(*   pedal      ignore_note_off_messages_                                  *)
(*   keys       pressed_keys_                                              *)
(*   mono,poly  the two allocators, which share their storage: only the    *)
(*              one of the polyphony mode is meaningful                    *)
(*   generated  previous_generated_note_                                   *)
(*   arp        the arpeggiator's position                                 *)
(*   sound      for each voice, the note it was last triggered with, until *)
(*              it is released or killed                                   *)
(*   midi       the notes switched on by OnNote (MIDI_OUT_SEQUENCER)       *)
(*   chain      the notes switched on by ForwardNote (MIDI_OUT_CHAIN).     *)
(*              Every other message is passed on to the chained unit as it *)
(*              comes in, so that unit follows the pedal and the panic     *)
(*              messages by itself                                         *)
(*                                                                         *)
(* The arpeggio pattern and the note sequence are arbitrary: each clock    *)
(* step brings a gate and a sequence step of its own.                      *)
(*                                                                         *)
(* A definition whose name has an underscore is a faulty variant of the    *)
(* one that follows it: the properties are tested against these faults.    *)
(***************************************************************************)
EXTENDS Integers, FiniteSets, SequencesExt

CONSTANTS
    Notes,          \* the notes of the keyboard
    PartNotes,      \* all the notes a part may play or store
    KeyCapacity,    \* capacity of pressed_keys_ (12)
    MonoCapacity,   \* capacity of mono_allocator_ (7)
    VoiceCounts,    \* the numbers of voices the part may be assigned
    PolyModes,      \* the polyphony modes selected
    ArpModes,       \* the arpeggiator/sequencer modes selected
    ArpDirections,  \* the arpeggio directions selected
    MaxOctaves,     \* the largest number of octaves selected
    Scales,         \* for each raga selected, the notes it admits
    NoteSteps,      \* the steps of the note sequence
    Restarts        \* whether a Start may come while the clock runs

ASSUME NotesAssumption == Notes \subseteq 0..127 /\ Scales \subseteq SUBSET (0..127)
ASSUME CapacityAssumption == KeyCapacity \in Nat \ {0} /\ MonoCapacity \in Nat \ {0}
ASSUME VoiceCountsAssumption == VoiceCounts \subseteq 0..6
ASSUME PolyModesAssumption == PolyModes \subseteq {"mono", "poly", "unison_2x", "cyclic", "chain"}

VARIABLES
    part,
    down,           \* the keys physically down
    running         \* Multi::running_: the parts are clocked

vars == <<part, down, running>>

None == 255
Silent == 255

SizeFor(mode, n) ==
    CASE mode = "unison_2x" -> (n + 1) \div 2
      [] mode = "chain"     -> 2 * n
      [] OTHER              -> n

Keys == INSTANCE NoteStack WITH
    Capacity <- KeyCapacity, StackNotes <- PartNotes, Velocities <- {1},
    stack <- part.keys

Mono == INSTANCE NoteStack WITH
    Capacity <- MonoCapacity, StackNotes <- PartNotes, Velocities <- {1},
    stack <- part.mono

Poly == INSTANCE VoiceAllocator WITH
    AllocNotes <- PartNotes,
    Sizes <- {SizeFor(mode, n) : mode \in PolyModes, n \in VoiceCounts},
    CyclicModes <- {mode = "cyclic" : mode \in PolyModes},
    alloc <- part.poly

Arp == INSTANCE Arpeggiator WITH
    MaxKeys <- KeyCapacity, pos <- part.arp, keys <- Keys!Size(part.keys),
    direction <- part.direction, octaves <- part.octaves

Voices(p) == 0..(p.voices - 1)

-----------------------------------------------------------------------------
(* Voices.                                                                 *)

Triggered(p, vs, note) ==
    [p EXCEPT !.sound = [v \in Voices(p) |-> IF v \in vs THEN note ELSE p.sound[v]]]

\* Release and Kill differ by the time the envelopes take.
Released(p, vs) == Triggered(p, vs, Silent)

NextVoice(p, v) == IF v + 1 < p.voices THEN v + 1 ELSE 0     \* GetNextVoice

\* The voices driven by an entry of the polyphonic allocator.
VoicesOfEntry(p, entry) ==
    CASE p.polyMode = "unison_2x" /\ entry < p.poly.size ->
            {2 * entry, NextVoice(p, 2 * entry)}
      [] p.polyMode = "chain" /\ entry < p.poly.size \div 2 -> {entry}
      [] p.polyMode \in {"poly", "cyclic"} /\ entry < p.poly.size -> {entry}
      [] OTHER -> {}

\* In chain mode the upper half of the allocator stands for the next unit.
\* So does "no entry".
IsForwarded(p, entry) == p.polyMode = "chain" /\ entry >= p.poly.size \div 2

-----------------------------------------------------------------------------
(* InternalNoteOn and InternalNoteOff.                                     *)

MonoNoteOn(p, note) ==
    Triggered([p EXCEPT !.mono = Mono!AfterNoteOn(p.mono, note, 1)], Voices(p), note)

\* "Prevent the same note to be allocated twice on two different voices."
EntryForNoteOn(p, note) ==
    IF Poly!FindActive(p.poly, note) # None THEN Poly!FindActive(p.poly, note)
    ELSE IF p.poly.size = 0 THEN None
    ELSE Poly!VoiceFor(p.poly, note)

PolyNoteOn(p, note) ==
    LET entry == EntryForNoteOn(p, note)
        q == [p EXCEPT !.poly = IF Poly!FindActive(p.poly, note) # None THEN p.poly
                                ELSE Poly!AfterNoteOn(p.poly, note),
                       !.chain = IF IsForwarded(p, entry) THEN @ \cup {note} ELSE @]
    IN  Triggered(q, VoicesOfEntry(p, entry), note)

InternalNoteOn(p, note) ==
    LET q == [p EXCEPT !.midi = @ \cup {note}]
    IN  IF note \notin p.scale THEN p
        ELSE IF p.polyMode = "mono" THEN MonoNoteOn(q, note)
        ELSE PolyNoteOn(q, note)

\* The last key up releases the voices; the top one up gives way to the next.
MonoNoteOff(p, note) ==
    LET q == [p EXCEPT !.mono = Mono!AfterNoteOff(p.mono, note)]
    IN  IF Mono!Size(q.mono) = 0 THEN Released(q, Voices(q))
        ELSE IF Mono!MostRecentNote(p.mono) = note
             THEN Triggered(q, Voices(q), Mono!MostRecentNote(q.mono))
        ELSE q

PolyNoteOff(p, note) ==
    LET entry == Poly!Find(p.poly, note)
        q == [p EXCEPT !.poly = Poly!AfterNoteOff(p.poly, note),
                       !.chain = IF IsForwarded(p, entry) THEN @ \ {note} ELSE @]
    IN  Released(q, VoicesOfEntry(p, entry))

InternalNoteOff(p, note) ==
    LET q == [p EXCEPT !.midi = @ \ {note}]
    IN  IF note = None THEN p
        ELSE IF p.polyMode = "mono" THEN MonoNoteOff(q, note)
        ELSE PolyNoteOff(q, note)

-----------------------------------------------------------------------------
(* Silence and (re)initialisation.                                         *)

AfterAllSoundOff(p) ==
    LET q == IF p.polyMode = "mono" THEN [p EXCEPT !.mono = Mono!EmptyStack]
             ELSE [p EXCEPT !.poly = Poly!AfterClear(p.poly)]
    IN  Released([q EXCEPT !.keys = Keys!EmptyStack], Voices(p))

\* The keys are cleared before the loop that would send the note offs of a
\* chord, so MIDI out hears of the generated note only.
AfterAllNotesOff(p) ==
    LET q == IF p.polyMode = "mono" THEN [p EXCEPT !.mono = Mono!EmptyStack]
             ELSE [p EXCEPT !.poly = Poly!AfterClearNotes(p.poly)]
        r == Released([q EXCEPT !.keys = Keys!EmptyStack], Voices(p))
    IN  IF p.pedal THEN p
        ELSE [r EXCEPT !.midi = IF p.direction = "chord" THEN @ ELSE @ \ {p.generated},
                       !.generated = None]

\* InitializeAllocators; the allocator that is not used is given no meaning.
WithAllocators(p) ==
    [p EXCEPT !.allocMode = p.polyMode,
              !.mono = Mono!EmptyStack,
              !.poly = IF p.polyMode = "mono" THEN Poly!Allocator(0, FALSE)
                       ELSE Poly!Allocator(SizeFor(p.polyMode, p.voices),
                                           p.polyMode = "cyclic")]

AfterAssignVoices(p, n) ==
    LET q == AfterAllSoundOff(p)
    IN  WithAllocators([q EXCEPT !.voices = n, !.sound = [v \in 0..(n - 1) |-> Silent]])

AfterPolyMode_NoKill(p, mode) ==
    IF mode = p.polyMode THEN p ELSE WithAllocators([p EXCEPT !.polyMode = mode])

\* SetValue on polyphony_mode.
AfterPolyMode(p, mode) ==
    IF mode = p.polyMode THEN p
    ELSE WithAllocators(AfterAllSoundOff([p EXCEPT !.polyMode = mode]))

\* Part::Touch, after a program is loaded.
AfterTouch(p) ==
    IF p.polyMode = p.allocMode THEN p ELSE WithAllocators(AfterAllSoundOff(p))

AftertouchVoices_Halved(p, note) ==
    LET entry == Poly!Find(p.poly, note)
    IN  IF entry < p.poly.size \div 2 THEN VoicesOfEntry(p, entry) ELSE {}

\* The voices an aftertouch message of a note goes to (Part::Aftertouch); it
\* is in cyclic mode that the code halves the size, not in chain mode.
AftertouchVoices(p, note) ==
    LET entry == Poly!Find(p.poly, note)
        size == IF p.polyMode = "cyclic" THEN p.poly.size \div 2 ELSE p.poly.size
    IN  CASE p.polyMode = "mono" -> Voices(p)
          [] p.polyMode # "mono" /\ entry >= size -> {}
          [] p.polyMode = "unison_2x" /\ entry < size -> {2 * entry, NextVoice(p, 2 * entry)}
          [] OTHER -> {entry}

-----------------------------------------------------------------------------
(* Keys and pedal.                                                         *)

AfterNoteOn(p, note) ==
    LET q == [p EXCEPT !.keys = Keys!AfterNoteOn(p.keys, note, 1)]
    IN  IF note \notin p.scale THEN p
        ELSE IF p.arpMode = "step" THEN InternalNoteOn(q, note)
        ELSE q

AfterNoteOff_NoCleanUp(p, note) ==
    LET q == [p EXCEPT !.keys = Keys!AfterNoteOff(p.keys, note)]
    IN  IF p.pedal THEN [p EXCEPT !.keys = Keys!AfterFlag(p.keys, note)]
        ELSE IF p.arpMode = "step" THEN InternalNoteOff(q, note)
        ELSE q

AfterNoteOff_NoFlag(p, note) ==
    IF p.pedal THEN p
    ELSE InternalNoteOff([p EXCEPT !.keys = Keys!AfterNoteOff(p.keys, note)], note)

AfterNoteOff(p, note) ==
    LET q == [p EXCEPT !.keys = Keys!AfterNoteOff(p.keys, note)]
        direct == p.arpMode = "step" \/ (p.arpMode = "arpeggiator" /\ p.direction = "chord")
    IN  IF note \notin p.scale THEN p
        ELSE IF p.pedal THEN [p EXCEPT !.keys = Keys!AfterFlag(p.keys, note)]
        ELSE IF direct THEN InternalNoteOff(q, note)
        ELSE IF Keys!Size(q.keys) = 0 THEN AfterAllNotesOff(q)
        ELSE q

-----------------------------------------------------------------------------
(* The loops over the keys.                                                *)

\* What the three of them do at place i of the pool, or at the i-th sorted
\* key, with the state that the places before it have left.
LoopStep(loop, q, i) ==
    CASE loop = "pedal" /\ q.keys.pool[i].flagged -> AfterNoteOff(q, Keys!NoteAt(q.keys, i))
      [] loop = "chord_on"  -> InternalNoteOn(q, Keys!SortedNote(q.keys, i - 1))
      [] loop = "chord_off" -> InternalNoteOff(q, Keys!SortedNote(q.keys, i - 1))
      [] OTHER -> q

AfterLoop(loop, p, n) ==
    LET after[i \in 0..n] == IF i = 0 THEN p ELSE LoopStep(loop, after[i - 1], i)
    IN  after[n]

AfterPedalUp_ByCount(p) == AfterLoop("pedal", [p EXCEPT !.pedal = FALSE], Keys!Size(p.keys))

\* The pedal goes up: NoteOff for each flagged entry of the pool.
AfterPedalUp(p) == AfterLoop("pedal", [p EXCEPT !.pedal = FALSE], KeyCapacity)

-----------------------------------------------------------------------------
(* Clock.                                                                  *)

Clip(n) == IF n < 0 THEN 0 ELSE IF n > 127 THEN 127 ELSE n

AfterSequencer_LegatoKeepsOld(p, step) ==
    LET note == Clip(step.note + Keys!MostRecentNote(p.keys) - 60)
    IN  IF p.arpMode # "note" \/ Keys!Size(p.keys) = 0 \/ ~step.gate THEN p
        ELSE [InternalNoteOn(IF step.legato THEN p ELSE InternalNoteOff(p, p.generated), note)
                 EXCEPT !.generated = note]

\* ClockSequencer in note mode.
AfterSequencer(p, step) ==
    LET note == Clip(step.note + Keys!MostRecentNote(p.keys) - 60)
        killed == InternalNoteOff(p, p.generated)
    IN  IF p.arpMode # "note" \/ Keys!Size(p.keys) = 0 THEN p
        ELSE IF ~step.gate THEN [killed EXCEPT !.generated = None]
        ELSE IF ~step.legato
             THEN [InternalNoteOn(killed, note) EXCEPT !.generated = note]
        ELSE IF p.generated # note
             THEN [InternalNoteOff(InternalNoteOn(p, note), p.generated)
                      EXCEPT !.generated = note]
        ELSE p

\* note -= 12 while it is above 127.
Folded(note) == IF note <= 127 THEN note ELSE note - 12 * ((note - 127 + 11) \div 12)

\* The note of the arpeggiator's position.
ArpNote(p) ==
    Folded(12 * p.arp.octave +
           (IF p.direction = "as_played" THEN Keys!PlayedNote(p.keys, p.arp.step)
            ELSE Keys!SortedNote(p.keys, p.arp.step)))

\* ClockArpeggiator, with a note in the pattern or not, moving to `arp`.
AfterArpeggiator(p, gate, arp) ==
    LET playing == Keys!Size(p.keys) > 0 /\ gate
        killed == [InternalNoteOff(p, p.generated) EXCEPT !.generated = None]
        moved == [killed EXCEPT !.arp = arp]
    IN  IF p.arpMode # "arpeggiator" THEN p
        ELSE IF playing /\ p.direction # "chord"
             THEN [InternalNoteOn(moved, ArpNote(moved)) EXCEPT !.generated = ArpNote(moved)]
        ELSE IF playing
             THEN [AfterLoop("chord_on", p, Keys!Size(p.keys)) EXCEPT !.generated = 60]
        ELSE IF p.direction # "chord" THEN killed
        ELSE IF p.generated = None THEN p
        ELSE [AfterLoop("chord_off", p, Keys!Size(p.keys)) EXCEPT !.generated = None]

\* Where StepArpeggio may take the arpeggiator, if it is called.
ArpMoves(p, gate) ==
    IF p.arpMode = "arpeggiator" /\ p.direction # "chord" /\ gate /\ Keys!Size(p.keys) > 0
    THEN Arp!Steps(p.arp, p.direction, Keys!Size(p.keys), p.octaves)
    ELSE {p.arp}

RestartedArp(p) ==
    Arp!Restarted(Arp!At(Arp!InitialDir(p.direction), p.arp.step, p.arp.octave),
                  Keys!Size(p.keys), p.octaves)

AfterStart(p) == [p EXCEPT !.generated = None, !.arp = RestartedArp(p)]

AfterStop(p) == AfterAllNotesOff([p EXCEPT !.pedal = FALSE])

-----------------------------------------------------------------------------
(* The state machine: what the rest of the firmware asks of a part.        *)

\* A part fresh from boot, its voices assigned.
Fresh(n, polyMode, arpMode, direction, octs, scale) ==
    WithAllocators(
      [ voices |-> n, polyMode |-> polyMode, allocMode |-> polyMode, arpMode |-> arpMode,
        direction |-> direction, octaves |-> octs, scale |-> scale,
        pedal |-> FALSE, keys |-> Keys!EmptyStack, mono |-> Keys!EmptyStack,
        poly |-> Poly!Allocator(0, FALSE), generated |-> 0,
        arp |-> [dir |-> 0, step |-> 0, octave |-> 0],
        sound |-> [v \in 0..(n - 1) |-> Silent], midi |-> {}, chain |-> {} ])

Init ==
    /\ \E n \in VoiceCounts, polyMode \in PolyModes, arpMode \in ArpModes,
          direction \in ArpDirections, octs \in 1..MaxOctaves, scale \in Scales :
          part = Fresh(n, polyMode, arpMode, direction, octs, scale)
    /\ down = {}
    /\ running = FALSE

\* Multi::NoteOn starts the clock with the first note.
KeyDown(note) ==
    /\ note \notin down
    /\ part' = AfterNoteOn(IF running THEN part ELSE AfterStart(part), note)
    /\ down' = down \cup {note}
    /\ running' = TRUE

KeyUp(note) ==
    /\ note \in down
    /\ part' = AfterNoteOff(part, note)
    /\ down' = down \ {note}
    /\ UNCHANGED running

PedalDown == part' = [part EXCEPT !.pedal = TRUE] /\ UNCHANGED <<down, running>>
PedalUp   == part' = AfterPedalUp(part) /\ UNCHANGED <<down, running>>

\* The chained unit gets the message too.
ChainSilenced(p) == [p EXCEPT !.chain = {}]

AllNotesOff ==
    /\ part' = IF part.pedal THEN part ELSE ChainSilenced(AfterAllNotesOff(part))
    /\ UNCHANGED <<down, running>>

AllSoundOff ==
    /\ part' = ChainSilenced(AfterAllSoundOff(part))
    /\ UNCHANGED <<down, running>>

ResetAllControllers ==
    part' = [part EXCEPT !.pedal = FALSE] /\ UNCHANGED <<down, running>>

\* Multi::Start on a MIDI start or continue message.
Start ==
    /\ Restarts \/ ~running
    /\ part' = AfterStart(part)
    /\ running' = TRUE
    /\ UNCHANGED down

\* Multi::Stop on a MIDI stop message.
Stop ==
    /\ part' = ChainSilenced(AfterStop(part))
    /\ running' = FALSE
    /\ UNCHANGED down

\* Multi::Clock stops when no key has been pressed for a while.
IdleStop ==
    /\ running /\ Keys!Size(part.keys) = 0
    /\ part' = AfterStop(part)
    /\ running' = FALSE
    /\ UNCHANGED down

\* Clock, each time the prescaler lets a step through.
Clock ==
    /\ running
    /\ \E gate \in BOOLEAN, step \in NoteSteps :
          LET p == AfterSequencer(part, step)
          IN  \E arp \in ArpMoves(p, gate) : part' = AfterArpeggiator(p, gate, arp)
    /\ UNCHANGED <<down, running>>

SetPolyMode(mode) == part' = AfterPolyMode(part, mode) /\ UNCHANGED <<down, running>>
SetArpMode(mode) == part' = [part EXCEPT !.arpMode = mode] /\ UNCHANGED <<down, running>>

SetDirection(d) ==
    LET p == [part EXCEPT !.direction = d]
    IN  part' = [p EXCEPT !.arp = RestartedArp(p)] /\ UNCHANGED <<down, running>>

SetOctaves(octs) == part' = [part EXCEPT !.octaves = octs] /\ UNCHANGED <<down, running>>
SetScale(scale) == part' = [part EXCEPT !.scale = scale] /\ UNCHANGED <<down, running>>

\* A program is loaded: all the settings change, then Touch looks at the
\* polyphony mode only.
LoadProgram(polyMode, arpMode, d, octs, scale) ==
    /\ part' = AfterTouch([part EXCEPT !.polyMode = polyMode, !.arpMode = arpMode,
                                       !.direction = d, !.octaves = octs, !.scale = scale])
    /\ UNCHANGED <<down, running>>

AssignVoices(n) == part' = AfterAssignVoices(part, n) /\ UNCHANGED <<down, running>>

Next ==
    \/ \E note \in Notes : KeyDown(note) \/ KeyUp(note)
    \/ PedalDown \/ PedalUp
    \/ AllNotesOff \/ AllSoundOff \/ ResetAllControllers
    \/ Start \/ Stop \/ IdleStop \/ Clock
    \/ \E mode \in PolyModes : SetPolyMode(mode)
    \/ \E mode \in ArpModes : SetArpMode(mode)
    \/ \E d \in ArpDirections : SetDirection(d)
    \/ \E octs \in 1..MaxOctaves : SetOctaves(octs)
    \/ \E scale \in Scales : SetScale(scale)
    \/ \E polyMode \in PolyModes, arpMode \in ArpModes, d \in ArpDirections,
          octs \in 1..MaxOctaves, scale \in Scales :
          LoadProgram(polyMode, arpMode, d, octs, scale)
    \/ \E n \in VoiceCounts : AssignVoices(n)

Spec == Init /\ [][Next]_vars

-----------------------------------------------------------------------------
(* Correctness.                                                            *)

Sounding(p) == {p.sound[v] : v \in Voices(p)} \ {Silent}

Pending(p) == Keys!FlaggedNotes(p.keys)

\* What a voice should be playing, going by the allocator.  With an odd number
\* of voices, the last pair of unison_2x borrows voice 0, which may then play
\* the note of either pair.
EntryOf(p, v) == IF p.polyMode = "unison_2x" THEN v \div 2 ELSE v

Expected(p, v) ==
    LET e == EntryOf(p, v)
    IN  IF p.polyMode = "mono"
        THEN IF Mono!Size(p.mono) = 0 THEN Silent ELSE Mono!MostRecentNote(p.mono)
        ELSE IF p.poly.pool[e].active THEN p.poly.pool[e].note ELSE Silent

\* The voicecards and the allocator never disagree: each voice sounds the
\* note of its entry, or in mono mode the most recent key still held, across
\* steals, releases, clears, program changes and voice assignments.  (In
\* cyclic mode a freed entry reads as note 127 being played.)
VoicesFollowAllocator ==
    part.polyMode # "cyclic" => \A v \in Voices(part) :
        \/ part.polyMode = "unison_2x" /\ part.voices % 2 = 1 /\ v = 0
        \/ part.sound[v] = Expected(part, v)

\* With E entries in the allocator, 2(E - 1) keys can be more recent than a
\* note that still sounds: the stack of keys has to hold more.  The largest
\* part has E = 6 and 12 keys; chain mode with four voices and more has E >= 8.
EnoughKeys(p) ==
    p.polyMode = "mono" \/ 2 * (SizeFor(p.polyMode, p.voices) - 1) < KeyCapacity

\* No stuck note while the keyboard plays directly: a note that sounds, here
\* or on the chained unit, belongs to a key that is down, or to an entry of
\* pressed_keys_ that the next pedal release will find.
SoundingNotesAreOwned ==
    EnoughKeys(part) => Sounding(part) \cup part.chain \subseteq down \cup Pending(part)

\* "The pedal was released. Kill all the sustained notes." (part.cc:379)
PedalUpKillsSustained ==
    [][Pending(part) # {} /\ ~part'.pedal /\ EnoughKeys(part) /\ PedalUp
        => Sounding(part') \subseteq down]_vars

\* The arpeggiator and the sequencer clean up after themselves: whatever they
\* have left sounding, on the voices or at MIDI out, is the one note they
\* remember, so the next step or the release of the last key will end it.
GeneratedNoteIsRemembered ==
    Sounding(part) \cup part.midi \subseteq {part.generated}

\* "The sequencer and arpeggiator might still have pending notes. Release
\* them." (part.cc:355): with no key pressed and the pedal up, an arpeggio or
\* a sequence leaves nothing sounding on the voices.
QuietWithoutKeys == Keys!Size(part.keys) = 0 => Sounding(part) = {}

\* An aftertouch message is sent to voices of this part only.
AftertouchStaysInPart ==
    \A note \in Notes : AftertouchVoices(part, note) \subseteq Voices(part)

\* "Send the aftertouch change to the voicecard playing the affected note."
\* (part.cc:478)  In cyclic mode the upper half of the voices never gets it.
AftertouchReachesVoice ==
    part.polyMode # "cyclic" => \A v \in Voices(part) :
        part.sound[v] \in Notes => v \in AftertouchVoices(part, part.sound[v])
=============================================================================
