-------------------------------- MODULE Nunchuk --------------------------------
(***************************************************************************)
(* The Nunchuk peripheral, a box that plays over MIDI what a game pad      *)
(* does: the apps (nunchuk/app.cc and apps/*.cc) and the notes that sound  *)
(* on the receiver (midi_output.cc).  The state is one record, and a       *)
(* handler maps it to the next: App::ProcessNunchuk calls several in turn. *)
(*                                                                         *)
(* The output buffer keeps messages in order and is never too full, so a   *)
(* message is what it does to the receiver.  Joystick and accelerometer    *)
(* are reduced to what the apps compare; the inhibit_ counters of the apps *)
(* only delay gestures, which come at any time.  Pitch bend, controllers   *)
(* and velocities are left out.                                            *)
(***************************************************************************)
EXTENDS Integers, Sequences

CONSTANTS
    Channels,       \* 16
    Steps,          \* CycloSequencer::notes_: 8
    ListSize,       \* Droner::note_list_: 16
    Sticks,         \* octants, the stick is pushed to
    Shifts,         \* semitones the stick, integrated since a reset, amounts to
    MaxPicks        \* bound: notes chosen with the stick, or put in the list

ASSUME NunchukAssumption ==
    /\ Channels \in Nat \ {0} /\ ListSize \in Nat \ {0}
    /\ Steps \in 1..8 /\ Sticks \subseteq 0..(Steps - 1) /\ Shifts \subseteq Int /\ MaxPicks \in Nat

Centre == 8
Between == 9

VARIABLE box    \* the app, the apps' variables, the buttons, and the receiver's notes

Note(s, n) == <<s.channel_, n>>
BoxNoteOn(s, n) == [s EXCEPT !.heard = @ \cup {Note(s, n)}]
BoxNoteOff(s, n) == [s EXCEPT !.heard = @ \ {Note(s, n)}]
BoxSoundsOff(s) == [s EXCEPT !.heard = {h \in @ : h[1] # s.channel_}, !.forgotten = FALSE]
set_channel(s, c) == IF c = s.channel_ THEN s ELSE [BoxSoundsOff(s) EXCEPT !.channel_ = c]
Clip127(x) == IF x < 0 THEN 0 ELSE IF x > 127 THEN 127 ELSE x

-----------------------------------------------------------------------------
(* Drummer.                                                                *)

octant_to_note == << <<36, 38>>, <<43, 61>>, <<45, 60>>, <<47, 64>>, <<48, 63>>, <<51, 75>>,
                     <<68, 67>>, <<66, 65>> >>
NewDrummer == [pressed_ |-> FALSE, active_instrument_ |-> 0]
DrummerPolar(s, stick) ==
    IF stick \in Sticks THEN [s EXCEPT !.drummer.active_instrument_ = stick] ELSE s
Drum(d) == octant_to_note[d.active_instrument_ + 1][IF d.pressed_ THEN 2 ELSE 1]
DrummerLogotone == {36, 38}
DrummerShaken(s) == BoxNoteOff(BoxNoteOn(s, Drum(s.drummer)), Drum(s.drummer))

-----------------------------------------------------------------------------
(* CycloSequencer: a note for each step, one of them active.               *)

NewNotes == [i \in 0..(Steps - 1) |-> IF i = Steps - 1 THEN 43 ELSE IF i % 2 = 0 THEN 48 ELSE 60]
NewCyclo(c) == [c EXCEPT !.notes_ = NewNotes, !.active_step_ = 0, !.root_note_ = 0]
ActiveNote(s) == s.cyclo.notes_[s.cyclo.active_step_]

CycloOnPress(s) ==
    [BoxNoteOff(s, ActiveNote(s))
        EXCEPT !.cyclo.recording_mode_ = TRUE, !.cyclo.root_note_ = ActiveNote(s)]
\* The root is read while recording only, and the next press sets it: it is forgotten here.
CycloOnRelease(s) == [s EXCEPT !.cyclo.recording_mode_ = FALSE, !.cyclo.root_note_ = 0]

\* Fault: the note of the previous step is not turned off.
SetActiveStep_KeepsNote(s, step) ==
    LET moved == [s EXCEPT !.cyclo.active_step_ = step]
    IN BoxNoteOn(moved, ActiveNote(moved))
SetActiveStep(s, step) ==
    LET moved == [BoxNoteOff(s, ActiveNote(s)) EXCEPT !.cyclo.active_step_ = step]
    IN IF step # s.cyclo.active_step_ THEN BoxNoteOn(moved, ActiveNote(moved))
       ELSE IF s.cyclo.retrigger_
            THEN BoxNoteOn([s EXCEPT !.cyclo.retrigger_ = FALSE], ActiveNote(s))
            ELSE s

CycloPolar(s, stick) ==
    IF s.cyclo.recording_mode_ THEN s
    ELSE IF stick \in Sticks
         THEN [SetActiveStep(s, stick) EXCEPT !.cyclo.center_cut_enabled_ = TRUE]
    ELSE IF stick = Centre
         THEN [(IF s.cyclo.center_cut_enabled_ THEN BoxNoteOff(s, ActiveNote(s)) ELSE s)
                  EXCEPT !.cyclo.retrigger_ = TRUE, !.cyclo.center_cut_enabled_ = FALSE]
    ELSE s

CycloIntegrated(s, shift) ==
    LET note == Clip127(s.cyclo.root_note_ + shift)
    IN IF ~s.cyclo.recording_mode_ \/ note = ActiveNote(s) THEN s
       ELSE BoxNoteOn([BoxNoteOff(s, ActiveNote(s))
                          EXCEPT !.cyclo.notes_[s.cyclo.active_step_] = note, !.picks = @ + 1],
                      note)

CycloLogotone == {24, 36, 48, 60}
CycloShaken(s) == SetActiveStep(s, (s.cyclo.active_step_ + 1) % Steps)

-----------------------------------------------------------------------------
(* Droner: the first num_notes_ notes of a list sound together, and the    *)
(* next one while it is chosen.                                            *)

Listed(d) == 0..(d.num_notes_ - 1)
DronerLogotone == {48, 55, 60}
NewDroner(d) == [d EXCEPT !.root_note_ = 60]

DronerOnPress(s) ==
    [s EXCEPT !.droner.recording_mode_ = TRUE, !.droner.note_changed_ = FALSE,
              !.forgotten = @ \/ s.droner.recording_mode_]

DronerOnRelease(s) ==
    LET d    == s.droner
        next == (d.num_notes_ + 1) % ListSize
        root == d.note_list_[d.num_notes_]
    IN IF ~d.note_changed_
       THEN [s EXCEPT !.heard = @ \ {Note(s, d.note_list_[i]) : i \in Listed(d)},
                      !.droner.recording_mode_ = FALSE, !.droner.root_note_ = 60,
                      !.droner.num_notes_ = 0, !.droner.note_list_[0] = 0]
       ELSE [s EXCEPT !.droner.recording_mode_ = FALSE, !.droner.root_note_ = root,
                      !.droner.num_notes_ = next, !.droner.note_list_[next] = (root + 7) % 256,
                      !.picks = @ + 1,
                      !.forgotten = @ \/ next = 0]

DronerIntegrated(s, shift) ==
    LET d    == s.droner
        note == Clip127(d.root_note_ + shift)
        note_available == \A i \in Listed(d) : d.note_list_[i] # note
    IN IF ~d.recording_mode_ \/ note = d.note_list_[d.num_notes_] \/ ~note_available THEN s
       ELSE BoxNoteOn([BoxNoteOff(s, d.note_list_[d.num_notes_])
                          EXCEPT !.droner.note_changed_ = TRUE,
                                 !.droner.note_list_[d.num_notes_] = note, !.picks = @ + 1],
                      note)

\* Every note is turned off, and on again if the dice say so; at least one is.
DronerShaken(s, dice) ==
    LET d == s.droner
        sounds(i) == i \in dice
        silenced  == {Note(s, d.note_list_[i]) : i \in Listed(d)}
        played    == {Note(s, d.note_list_[i]) : i \in {j \in Listed(d) :
                        /\ sounds(j)
                        /\ \A k \in (j + 1)..(d.num_notes_ - 1) :
                              d.note_list_[k] = d.note_list_[j] => sounds(k)}}
    IN [s EXCEPT !.heard = (@ \ silenced) \cup played]

-----------------------------------------------------------------------------
(* App.                                                                    *)

registry == <<"Drummer", "CycloSequencer", "Droner">>
Running(s) == registry[s.current_app_index_ + 1]

OnInit(s) ==
    CASE Running(s) = "Drummer"        -> [s EXCEPT !.drummer = NewDrummer]
      [] Running(s) = "CycloSequencer" -> [s EXCEPT !.cyclo = NewCyclo(@)]
      [] Running(s) = "Droner"         -> [s EXCEPT !.droner = NewDroner(@)]
BoxOnPress(s) ==
    CASE Running(s) = "Drummer"        -> [s EXCEPT !.drummer.pressed_ = TRUE]
      [] Running(s) = "CycloSequencer" -> CycloOnPress(s)
      [] Running(s) = "Droner"         -> DronerOnPress(s)
BoxOnRelease(s) ==
    CASE Running(s) = "Drummer"        -> [s EXCEPT !.drummer.pressed_ = FALSE]
      [] Running(s) = "CycloSequencer" -> CycloOnRelease(s)
      [] Running(s) = "Droner"         -> DronerOnRelease(s)
UpdateJoystickPolar(s, stick) ==
    CASE Running(s) = "Drummer"        -> DrummerPolar(s, stick)
      [] Running(s) = "CycloSequencer" -> CycloPolar(s, stick)
      [] Running(s) = "Droner"         -> s
UpdateJoystickIntegrated(s, shift) ==
    CASE Running(s) = "Drummer"        -> s
      [] Running(s) = "CycloSequencer" -> CycloIntegrated(s, shift)
      [] Running(s) = "Droner"         -> DronerIntegrated(s, shift)
UpdateAccelerometer(s, dice) ==
    CASE Running(s) = "Drummer"        -> DrummerShaken(s)
      [] Running(s) = "CycloSequencer" -> CycloShaken(s)
      [] Running(s) = "Droner"         -> DronerShaken(s, dice)

\* What an app plays to announce itself, a note off after each note on.
Logotone(s) ==
    CASE Running(s) = "Drummer"        -> DrummerLogotone
      [] Running(s) = "CycloSequencer" -> CycloLogotone
      [] Running(s) = "Droner"         -> DronerLogotone
PlayLogotone(s) == [s EXCEPT !.heard = @ \ {Note(s, n) : n \in Logotone(s)}]

\* OnInit sets the notes of the sequencer before anything reads them: until then they do not
\* matter.  What the other variables of the apps were stays.
Forgets(s) == [s EXCEPT !.cyclo = NewCyclo(@), !.drummer = NewDrummer]
Launch(s, app_index) ==
    LET launched == [Forgets(s) EXCEPT !.current_app_index_ =
                        IF app_index >= Len(registry) THEN 0 ELSE app_index]
    IN PlayLogotone(BoxSoundsOff(OnInit(launched)))

NextApp(s) == Launch(s, s.current_app_index_ + 1)
NextMidiChannel(s) == set_channel(s, (s.channel_ + 1) % Channels)

\* C alone changes the app when it is released; with Z, the channel.
BoxButtons(s, c_pressed, z_pressed) ==
    LET raised   == s.z_status_ /\ ~z_pressed
        launched == IF ~c_pressed /\ ~s.inhibit_app_change_ THEN NextApp(s) ELSE s
        allowed  == [s EXCEPT !.inhibit_app_change_ = FALSE]
        handled  ==
            CASE s.c_status_ /\ raised ->
                    [NextMidiChannel(launched) EXCEPT !.inhibit_app_change_ = TRUE]
              [] s.c_status_ /\ ~raised -> launched
              [] ~s.c_status_ /\ raised -> BoxOnRelease(allowed)
              [] ~s.c_status_ /\ ~s.z_status_ /\ z_pressed -> BoxOnPress(allowed)
              [] OTHER -> allowed
    IN [handled EXCEPT !.z_status_ = z_pressed, !.c_status_ = c_pressed]

ProcessNunchuk(stick, shift, shaken, c_pressed, z_pressed) ==
    /\ LET moved == UpdateJoystickIntegrated(UpdateJoystickPolar(box, stick), shift)
       IN \/ ~shaken /\ box' = BoxButtons(moved, c_pressed, z_pressed)
          \/ /\ shaken /\ Running(box) # "Droner"
             /\ box' = BoxButtons(UpdateAccelerometer(moved, {}), c_pressed, z_pressed)
          \/ /\ shaken /\ Running(box) = "Droner"
             /\ \E dice \in SUBSET Listed(moved.droner) \ {{}} :
                   box' = BoxButtons(UpdateAccelerometer(moved, dice), c_pressed, z_pressed)
    /\ box'.picks <= MaxPicks

\* Where the stick is, and what it amounts to: only what makes a difference to the app.
Tilts(s) ==
    CASE Running(s) = "Drummer" -> (Sticks \cup {Between}) \X {0}
      [] Running(s) = "CycloSequencer" ->
            IF s.cyclo.recording_mode_ THEN {Between} \X Shifts
            ELSE (Sticks \cup {Centre, Between}) \X {0}
      [] Running(s) = "Droner" ->
            {Between} \X (IF s.droner.recording_mode_ THEN Shifts ELSE {0})

Poll == \E tilt \in Tilts(box), shaken, c_pressed, z_pressed \in BOOLEAN :
        ProcessNunchuk(tilt[1], tilt[2], shaken, c_pressed, z_pressed)

\* The onboard switch: the main loop looks at what the timer's interrupt has seen after a poll,
\* and forgets it when the app has been launched.
SwitchReleased == box' = NextApp(box)

EmptyBox ==
    [current_app_index_ |-> 0, inhibit_app_change_ |-> FALSE, c_status_ |-> FALSE,
     z_status_ |-> FALSE, channel_ |-> 0, drummer |-> NewDrummer,
     cyclo |-> [notes_ |-> NewNotes, active_step_ |-> 0, root_note_ |-> 0,
                recording_mode_ |-> FALSE, retrigger_ |-> FALSE, center_cut_enabled_ |-> FALSE],
     droner |-> [note_list_ |-> [i \in 0..(ListSize - 1) |-> 0], num_notes_ |-> 0,
                 recording_mode_ |-> FALSE, root_note_ |-> 0, note_changed_ |-> FALSE],
     heard |-> {}, forgotten |-> FALSE, picks |-> 0]

BoxInit == box = Launch(EmptyBox, 0)
BoxNext == Poll \/ SwitchReleased

BoxSpec == BoxInit /\ [][BoxNext]_box

-----------------------------------------------------------------------------
(* Correctness.                                                            *)

\* The notes the running app knows of, and turns off when it is told to.
Held(s) ==
    CASE Running(s) = "Drummer"        -> {}
      [] Running(s) = "CycloSequencer" -> {Note(s, ActiveNote(s))}
      [] Running(s) = "Droner"         ->
            {Note(s, s.droner.note_list_[i]) : i \in 0..s.droner.num_notes_}

\* No note is left sounding that the running app does not know of, on any channel, however the
\* buttons are mixed.  The Droner does forget notes: when its list is full, and when the release
\* of Z went to the channel and the next press starts another note over the one being chosen.
SoundsAreHeld == ~box.forgotten => box.heard \subseteq Held(box)
=============================================================================
