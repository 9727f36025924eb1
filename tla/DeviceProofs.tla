----------------------------- MODULE DeviceProofs -----------------------------
(***************************************************************************)
(* Proofs about what runs beside the synthesizer: which notes of the       *)
(* Nunchuk peripheral may be left sounding (nunchuk/app.cc and apps/*.cc), *)
(* how an update of a voicecard's firmware ends                            *)
(* (ui_pages/os_info_page.cc and voicecard/bootloader/bootloader.cc), who  *)
(* has the bus that the voicecards share with the card                     *)
(* (controller/voicecard_tx.cc), and which blocks of an update over MIDI   *)
(* the controller writes (controller/bootloader/bootloader.cc).            *)
(***************************************************************************)
EXTENDS Firmware, ControllerLoader, Nunchuk, VoicecardLink, OrderLemmas, SequenceTheorems, TLAPS

StepIndices == 0..(Steps - 1)
ListIndices == 0..(ListSize - 1)

DrummerType == [pressed_ : BOOLEAN, active_instrument_ : 0..7]
CycloType ==
    [notes_ : [StepIndices -> Int], active_step_ : StepIndices, root_note_ : Int,
     recording_mode_ : BOOLEAN, retrigger_ : BOOLEAN, center_cut_enabled_ : BOOLEAN]
DronerType ==
    [note_list_ : [ListIndices -> Int], num_notes_ : ListIndices, recording_mode_ : BOOLEAN,
     root_note_ : Int, note_changed_ : BOOLEAN]
BoxType ==
    [current_app_index_ : 0..2, inhibit_app_change_ : BOOLEAN, c_status_ : BOOLEAN,
     z_status_ : BOOLEAN, channel_ : Int, drummer : DrummerType, cyclo : CycloType,
     droner : DronerType, heard : SUBSET (Int \X Int), forgotten : BOOLEAN, picks : Int]

\* Everything sounds on the channel in use: the others are silenced when it changes.
OnItsChannel(s) == \A h \in s.heard : h[1] = s.channel_

\* The notes of the Droner's list are all that sounds, unless the next one is being chosen.
ListedNotes(s, d) == {Note(s, d.note_list_[i]) : i \in Listed(d)}
Choosing(d) == d.recording_mode_ /\ d.note_changed_
DronerNotes(s, d) ==
    IF Choosing(d) THEN ListedNotes(s, d) \cup {Note(s, d.note_list_[d.num_notes_])}
    ELSE ListedNotes(s, d)

Knows(s) ==
    CASE Running(s) = "Drummer"        -> s.heard = {}
      [] Running(s) = "CycloSequencer" -> s.heard \subseteq {Note(s, ActiveNote(s))}
      [] Running(s) = "Droner"         -> s.heard \subseteq DronerNotes(s, s.droner)

\* Inductive, for every handler.
BoxOK(s) == s \in BoxType /\ OnItsChannel(s) /\ (~s.forgotten => Knows(s))

-----------------------------------------------------------------------------
LEMMA Apps ==
    ASSUME NEW s \in BoxType
    PROVE  /\ Running(s) = "Drummer" <=> s.current_app_index_ = 0
           /\ Running(s) = "CycloSequencer" <=> s.current_app_index_ = 1
           /\ Running(s) = "Droner" <=> s.current_app_index_ = 2
           /\ Running(s) \in {"Drummer", "CycloSequencer", "Droner"}
  BY DEF Running, registry, BoxType

LEMMA KnowsEnough ==
    ASSUME NEW s, BoxOK(s), ~s.forgotten
    PROVE  s.heard \subseteq Held(s)
  <1>1. s \in BoxType /\ Knows(s)
    BY DEF BoxOK
  <1>2. CASE Running(s) = "Drummer"
    BY <1>1, <1>2 DEF Knows, Held
  <1>3. CASE Running(s) = "CycloSequencer"
    BY <1>1, <1>3 DEF Knows, Held
  <1>4. CASE Running(s) = "Droner"
    <2>1. s.droner.num_notes_ \in Nat /\ Listed(s.droner) \subseteq 0..s.droner.num_notes_
      BY <1>1 DEF BoxType, DronerType, ListIndices, Listed
    <2>2. ListedNotes(s, s.droner) \cup {Note(s, s.droner.note_list_[s.droner.num_notes_])}
          \subseteq {Note(s, s.droner.note_list_[i]) : i \in 0..s.droner.num_notes_}
      BY <2>1 DEF ListedNotes
    <2>3. s.heard \subseteq ListedNotes(s, s.droner)
                            \cup {Note(s, s.droner.note_list_[s.droner.num_notes_])}
      BY <1>1, <1>4 DEF Knows, DronerNotes
    <2>4. QED
      BY <1>4, <2>2, <2>3 DEF Held
  <1>5. QED
    BY <1>1, <1>2, <1>3, <1>4, Apps

\* Where nothing sounds, everything that sounds is known.
LEMMA SilenceIsKnown ==
    ASSUME NEW s \in BoxType, s.heard = {}
    PROVE  BoxOK(s)
  <1>1. OnItsChannel(s)
    BY DEF OnItsChannel
  <1>2. Knows(s)
    BY Apps DEF Knows
  <1>3. QED
    BY <1>1, <1>2 DEF BoxOK

-----------------------------------------------------------------------------
(* The receiver.                                                           *)

LEMMA Receiver ==
    ASSUME NEW s \in BoxType, NEW n \in Int
    PROVE  /\ BoxNoteOn(s, n) \in BoxType /\ BoxNoteOff(s, n) \in BoxType
           /\ BoxNoteOn(s, n) = [s EXCEPT !.heard = s.heard \cup {Note(s, n)}]
           /\ BoxNoteOff(s, n) = [s EXCEPT !.heard = s.heard \ {Note(s, n)}]
           /\ Note(s, n) \in Int \X Int /\ Note(s, n)[1] = s.channel_
  BY DEF BoxNoteOn, BoxNoteOff, Note, BoxType

\* A message for all the notes of the channel leaves none.
LEMMA SoundsOff ==
    ASSUME NEW s \in BoxType, OnItsChannel(s)
    PROVE  BoxSoundsOff(s) \in BoxType /\ BoxSoundsOff(s).heard = {}
  BY DEF BoxSoundsOff, OnItsChannel, BoxType

LEMMA ChannelSet ==
    ASSUME NEW s, BoxOK(s)
    PROVE  BoxOK(NextMidiChannel(s))
  <1> DEFINE c == (s.channel_ + 1) % Channels
             off == BoxSoundsOff(s)
  <1>1. s \in BoxType /\ OnItsChannel(s) /\ c \in Int
    BY NunchukAssumption DEF BoxOK, BoxType
  <1>2. off \in BoxType /\ off.heard = {}
    BY <1>1, SoundsOff
  <1> HIDE DEF off, c
  <1>3. [off EXCEPT !.channel_ = c] \in BoxType /\ [off EXCEPT !.channel_ = c].heard = {}
    BY <1>1, <1>2 DEF BoxType
  <1>4. BoxOK([off EXCEPT !.channel_ = c])
    BY <1>3, SilenceIsKnown
  <1>5. NextMidiChannel(s) = s \/ NextMidiChannel(s) = [off EXCEPT !.channel_ = c]
    BY DEF NextMidiChannel, set_channel, off, c
  <1>6. QED
    BY <1>4, <1>5

-----------------------------------------------------------------------------
(* Drummer: a note never outlasts the gesture.                             *)

LEMMA DrummerKeeps ==
    ASSUME NEW s, BoxOK(s), Running(s) = "Drummer", NEW pressed \in BOOLEAN, NEW stick
    PROVE  /\ BoxOK([s EXCEPT !.drummer.pressed_ = pressed])
           /\ BoxOK(DrummerPolar(s, stick))
           /\ BoxOK(DrummerShaken(s))
  <1>1. s \in BoxType /\ s.current_app_index_ = 0 /\ OnItsChannel(s)
        /\ (~s.forgotten => s.heard = {})
    BY Apps DEF BoxOK, Knows
  <1>2. ASSUME NEW r \in BoxType, r.current_app_index_ = 0, r.channel_ = s.channel_,
               r.forgotten = s.forgotten, r.heard \subseteq s.heard
        PROVE  BoxOK(r)
    BY <1>1, <1>2, Apps DEF BoxOK, OnItsChannel, Knows
  <1>3. BoxOK([s EXCEPT !.drummer.pressed_ = pressed])
    <2> DEFINE r == [s EXCEPT !.drummer.pressed_ = pressed]
    <2>1. r \in BoxType /\ r.current_app_index_ = 0 /\ r.channel_ = s.channel_
          /\ r.forgotten = s.forgotten /\ r.heard = s.heard
      BY <1>1 DEF BoxType, DrummerType
    <2> HIDE DEF r
    <2>2. BoxOK(r)
      BY <1>2, <2>1
    <2>3. QED
      BY <2>2 DEF r
  <1>4. BoxOK(DrummerPolar(s, stick))
    <2> DEFINE r == [s EXCEPT !.drummer.active_instrument_ = stick]
    <2>1. CASE stick \in Sticks
      <3>1. stick \in 0..7
        BY <2>1, NunchukAssumption
      <3>2. r \in BoxType /\ r.current_app_index_ = 0 /\ r.channel_ = s.channel_
            /\ r.forgotten = s.forgotten /\ r.heard = s.heard
        BY <1>1, <3>1 DEF BoxType, DrummerType
      <3> HIDE DEF r
      <3>3. BoxOK(r)
        BY <1>2, <3>2
      <3>4. QED
        BY <2>1, <3>3 DEF r, DrummerPolar
    <2>2. CASE stick \notin Sticks
      BY <2>2 DEF DrummerPolar
    <2>3. QED
      BY <2>1, <2>2
  <1>5. BoxOK(DrummerShaken(s))
    <2> DEFINE n == Drum(s.drummer)
               r == DrummerShaken(s)
    <2>1. r = [s EXCEPT !.heard = (s.heard \cup {<<s.channel_, n>>}) \ {<<s.channel_, n>>}]
      BY <1>1 DEF DrummerShaken, BoxNoteOn, BoxNoteOff, Note, BoxType
    <2> HIDE DEF n, r
    <2>2. r \in BoxType /\ r.current_app_index_ = 0 /\ r.channel_ = s.channel_
          /\ r.forgotten = s.forgotten /\ r.heard \subseteq s.heard
      BY <1>1, <2>1 DEF BoxType
    <2>3. BoxOK(r)
      BY <1>2, <2>2
    <2>4. QED
      BY <2>3 DEF r
  <1>6. QED
    BY <1>3, <1>4, <1>5

-----------------------------------------------------------------------------
(* CycloSequencer: the note of the active step, or none.                   *)

\* A sequencer that has what it knows of sounding, at most.
CycloOK(s) ==
    /\ s \in BoxType /\ s.current_app_index_ = 1 /\ OnItsChannel(s)
    /\ ~s.forgotten => s.heard \subseteq {Note(s, ActiveNote(s))}

LEMMA CycloIsBox ==
    ASSUME NEW s
    PROVE  CycloOK(s) <=> BoxOK(s) /\ Running(s) = "CycloSequencer"
  BY Apps DEF CycloOK, BoxOK, Knows


\* What the next lemmas need to know of a sequencer.
LEMMA CycloFields ==
    ASSUME NEW s, CycloOK(s)
    PROVE  /\ s \in BoxType /\ OnItsChannel(s) /\ s.cyclo \in CycloType
           /\ s.cyclo.active_step_ \in StepIndices /\ ActiveNote(s) \in Int
           /\ 0 \in StepIndices
  BY NunchukAssumption DEF CycloOK, BoxType, CycloType, ActiveNote, StepIndices

\* The active note is turned off, then another one may become active and be turned on.
LEMMA CycloMoves ==
    ASSUME NEW s, CycloOK(s), NEW c \in CycloType, NEW picks \in Int,
           NEW H \in SUBSET {Note(s, c.notes_[c.active_step_])}
    PROVE  CycloOK([s EXCEPT !.heard = (s.heard \ {Note(s, ActiveNote(s))}) \cup H,
                             !.cyclo = c, !.picks = picks])
  <1> DEFINE K == (s.heard \ {Note(s, ActiveNote(s))}) \cup H
             r == [s EXCEPT !.heard = K, !.cyclo = c, !.picks = picks]
             note == c.notes_[c.active_step_]
  <1>1. s \in BoxType /\ OnItsChannel(s) /\ s.current_app_index_ = 1
        /\ (~s.forgotten => s.heard \subseteq {Note(s, ActiveNote(s))})
    BY DEF CycloOK
  <1>2. note \in Int
    BY DEF CycloType
  <1>3. Note(s, note) \in Int \X Int /\ s.heard \in SUBSET (Int \X Int)
        /\ Note(s, note)[1] = s.channel_
    BY <1>1, <1>2 DEF BoxType, Note
  <1> HIDE DEF note
  <1>4. H \subseteq {Note(s, note)}
    BY DEF note
  <1>5. K \in SUBSET (Int \X Int) /\ (\A h \in K : h[1] = s.channel_)
        /\ (~s.forgotten => K \subseteq {Note(s, note)})
    BY <1>1, <1>3, <1>4 DEF OnItsChannel
  <1> HIDE DEF K
  <1>6. r \in BoxType /\ r.current_app_index_ = 1 /\ r.channel_ = s.channel_
        /\ r.forgotten = s.forgotten /\ r.cyclo = c /\ r.heard = K
    BY <1>1, <1>5 DEF BoxType
  <1> HIDE DEF r
  <1>7. ActiveNote(r) = note /\ Note(r, note) = Note(s, note)
    BY <1>6 DEF ActiveNote, Note, note
  <1>8. CycloOK(r)
    BY <1>5, <1>6, <1>7 DEF CycloOK, OnItsChannel
  <1>9. QED
    BY <1>8 DEF r, K

LEMMA CycloSilenced ==
    ASSUME NEW s, CycloOK(s), NEW c \in CycloType, NEW picks \in Int
    PROVE  CycloOK([s EXCEPT !.heard = s.heard \ {Note(s, ActiveNote(s))},
                             !.cyclo = c, !.picks = picks])
  <1> DEFINE H == {}
  <1>1. H \in SUBSET {Note(s, c.notes_[c.active_step_])}
    OBVIOUS
  <1>2. (s.heard \ {Note(s, ActiveNote(s))}) \cup H = s.heard \ {Note(s, ActiveNote(s))}
    OBVIOUS
  <1> HIDE DEF H
  <1>3. CycloOK([s EXCEPT !.heard = (s.heard \ {Note(s, ActiveNote(s))}) \cup H,
                          !.cyclo = c, !.picks = picks])
    BY <1>1, CycloMoves
  <1>4. QED
    BY <1>2, <1>3

\* The flags of the sequencer do not matter to what sounds.
LEMMA CycloFlags ==
    ASSUME NEW s, CycloOK(s), NEW c \in CycloType,
           c.notes_ = s.cyclo.notes_, c.active_step_ = s.cyclo.active_step_
    PROVE  CycloOK([s EXCEPT !.cyclo = c])
  <1> DEFINE r == [s EXCEPT !.cyclo = c]
  <1>1. s \in BoxType /\ OnItsChannel(s) /\ s.current_app_index_ = 1
        /\ (~s.forgotten => s.heard \subseteq {Note(s, ActiveNote(s))})
    BY DEF CycloOK
  <1>2. r \in BoxType /\ r.current_app_index_ = 1 /\ r.channel_ = s.channel_
        /\ r.forgotten = s.forgotten /\ r.cyclo = c /\ r.heard = s.heard
    BY <1>1 DEF BoxType
  <1> HIDE DEF r
  <1>3. ActiveNote(r) = ActiveNote(s) /\ Note(r, ActiveNote(s)) = Note(s, ActiveNote(s))
    BY <1>2 DEF ActiveNote, Note
  <1>4. CycloOK(r)
    BY <1>1, <1>2, <1>3 DEF CycloOK, OnItsChannel
  <1>5. QED
    BY <1>4 DEF r

LEMMA StepIsSet ==
    ASSUME NEW s, CycloOK(s), NEW step \in StepIndices
    PROVE  CycloOK(SetActiveStep(s, step))
  <1>1. s \in BoxType /\ s.cyclo \in CycloType /\ ActiveNote(s) \in Int /\ s.picks \in Int
    BY CycloFields DEF BoxType
  <1>2. ASSUME NEW c \in CycloType
        PROVE  CycloOK([s EXCEPT
                          !.heard = (s.heard \ {Note(s, ActiveNote(s))})
                                    \cup {Note(s, c.notes_[c.active_step_])},
                          !.cyclo = c, !.picks = s.picks])
    BY <1>1, CycloMoves
  <1>3. CASE step # s.cyclo.active_step_
    <2> DEFINE c == [s.cyclo EXCEPT !.active_step_ = step]
    <2>1. c \in CycloType
      BY <1>1 DEF CycloType
    <2>2. SetActiveStep(s, step)
          = [s EXCEPT !.heard = (s.heard \ {Note(s, ActiveNote(s))})
                                \cup {Note(s, c.notes_[c.active_step_])},
                      !.cyclo = c, !.picks = s.picks]
      BY <1>1, <1>3, ZenonT(40) DEF SetActiveStep, BoxNoteOn, BoxNoteOff, Note, ActiveNote, BoxType
    <2> HIDE DEF c
    <2>3. QED
      BY <1>2, <2>1, <2>2
  <1>4. CASE step = s.cyclo.active_step_ /\ s.cyclo.retrigger_
    <2> DEFINE c == [s.cyclo EXCEPT !.retrigger_ = FALSE]
    <2>1. c \in CycloType /\ c.notes_[c.active_step_] = ActiveNote(s)
      BY <1>1 DEF CycloType, ActiveNote
    <2>2. SetActiveStep(s, step)
          = [s EXCEPT !.heard = s.heard \cup {Note(s, ActiveNote(s))}, !.cyclo = c]
      BY <1>1, <1>4 DEF SetActiveStep, BoxNoteOn, Note, BoxType
    <2> HIDE DEF c
    <2>3. s.heard \cup {Note(s, ActiveNote(s))}
          = (s.heard \ {Note(s, ActiveNote(s))}) \cup {Note(s, c.notes_[c.active_step_])}
      BY <2>1
    <2>4. SetActiveStep(s, step)
          = [s EXCEPT !.heard = (s.heard \ {Note(s, ActiveNote(s))})
                                \cup {Note(s, c.notes_[c.active_step_])}, !.cyclo = c]
      BY <2>2, <2>3
    <2>5. \A H : [s EXCEPT !.heard = H, !.cyclo = c]
                 = [s EXCEPT !.heard = H, !.cyclo = c, !.picks = s.picks]
      BY <1>1 DEF BoxType
    <2>6. QED
      BY <1>2, <2>1, <2>4, <2>5
  <1>5. CASE step = s.cyclo.active_step_ /\ ~s.cyclo.retrigger_
    BY <1>5 DEF SetActiveStep
  <1>6. QED
    BY <1>3, <1>4, <1>5

\* The handlers of the sequencer.
LEMMA CycloReleased ==
    ASSUME NEW s, CycloOK(s)
    PROVE  CycloOK(CycloOnRelease(s))
  <1> DEFINE c == [s.cyclo EXCEPT !.recording_mode_ = FALSE, !.root_note_ = 0]
  <1>1. s \in BoxType /\ s.cyclo \in CycloType
    BY CycloFields
  <1>2. c \in CycloType /\ c.notes_ = s.cyclo.notes_ /\ c.active_step_ = s.cyclo.active_step_
    <2>1. c \in CycloType
      <3>1. [s.cyclo EXCEPT !.recording_mode_ = FALSE] \in CycloType
        BY <1>1 DEF CycloType
      <3>2. \A e \in CycloType : [e EXCEPT !.root_note_ = 0] \in CycloType
        BY DEF CycloType
      <3>3. QED
        BY <1>1, <3>1, <3>2 DEF CycloType
    <2>2. c.notes_ = s.cyclo.notes_
      BY <1>1 DEF CycloType
    <2>3. c.active_step_ = s.cyclo.active_step_
      BY <1>1 DEF CycloType
    <2>4. QED
      BY <2>1, <2>2, <2>3
  <1>3. CycloOnRelease(s) = [s EXCEPT !.cyclo = c]
    BY <1>1 DEF CycloOnRelease, BoxType
  <1> HIDE DEF c
  <1>4. QED
    BY <1>2, <1>3, CycloFlags

LEMMA CycloPressed ==
    ASSUME NEW s, CycloOK(s)
    PROVE  CycloOK(CycloOnPress(s))
  <1> DEFINE c == [s.cyclo EXCEPT !.recording_mode_ = TRUE, !.root_note_ = ActiveNote(s)]
  <1>1. s \in BoxType /\ s.cyclo \in CycloType /\ ActiveNote(s) \in Int /\ s.picks \in Int
    BY CycloFields DEF BoxType
  <1>2. c \in CycloType
    BY <1>1 DEF CycloType
  <1>3. CycloOnPress(s) = [s EXCEPT !.heard = s.heard \ {Note(s, ActiveNote(s))},
                                    !.cyclo = c, !.picks = s.picks]
    BY <1>1 DEF CycloOnPress, BoxNoteOff, Note, ActiveNote, BoxType
  <1> HIDE DEF c
  <1>4. CycloOK([s EXCEPT !.heard = s.heard \ {Note(s, ActiveNote(s))},
                          !.cyclo = c, !.picks = s.picks])
    BY <1>1, <1>2, CycloSilenced
  <1>5. QED
    BY <1>3, <1>4

LEMMA CycloPolarKeeps ==
    ASSUME NEW s, CycloOK(s), NEW stick
    PROVE  CycloOK(CycloPolar(s, stick))
  <1>1. CASE ~s.cyclo.recording_mode_ /\ stick \in Sticks
    <2> DEFINE r == SetActiveStep(s, stick)
               c == [r.cyclo EXCEPT !.center_cut_enabled_ = TRUE]
    <2>1. stick \in StepIndices
      BY <1>1, NunchukAssumption DEF StepIndices
    <2>2. CycloOK(r)
      BY <2>1, StepIsSet
    <2> HIDE DEF r
    <2>3. r \in BoxType /\ r.cyclo \in CycloType
      BY <2>2, CycloFields
    <2>4. c \in CycloType /\ c.notes_ = r.cyclo.notes_ /\ c.active_step_ = r.cyclo.active_step_
      BY <2>3 DEF CycloType
    <2>5. CycloPolar(s, stick) = [r EXCEPT !.cyclo = c]
      BY <1>1, <2>3 DEF CycloPolar, r, BoxType
    <2> HIDE DEF c
    <2>6. QED
      BY <2>2, <2>4, <2>5, CycloFlags
  <1>2. CASE ~s.cyclo.recording_mode_ /\ stick \notin Sticks /\ stick = Centre
    <2> DEFINE c == [s.cyclo EXCEPT !.retrigger_ = TRUE, !.center_cut_enabled_ = FALSE]
    <2>1. s \in BoxType /\ s.cyclo \in CycloType /\ s.picks \in Int
      BY CycloFields DEF BoxType
    <2>2. c \in CycloType /\ c.notes_ = s.cyclo.notes_ /\ c.active_step_ = s.cyclo.active_step_
      BY <2>1 DEF CycloType
    <2>3. CASE s.cyclo.center_cut_enabled_
      <3>1. CycloPolar(s, stick)
            = [s EXCEPT !.heard = s.heard \ {Note(s, ActiveNote(s))},
                        !.cyclo = c, !.picks = s.picks]
        BY <1>2, <2>1, <2>3 DEF CycloPolar, BoxNoteOff, Note, ActiveNote, BoxType
      <3> HIDE DEF c
      <3>2. CycloOK([s EXCEPT !.heard = s.heard \ {Note(s, ActiveNote(s))},
                              !.cyclo = c, !.picks = s.picks])
        BY <2>1, <2>2, CycloSilenced
      <3>3. QED
        BY <3>1, <3>2
    <2>4. CASE ~s.cyclo.center_cut_enabled_
      <3>1. CycloPolar(s, stick) = [s EXCEPT !.cyclo = c]
        BY <1>2, <2>1, <2>4 DEF CycloPolar, BoxType
      <3> HIDE DEF c
      <3>2. QED
        BY <2>2, <3>1, CycloFlags
    <2>5. QED
      BY <2>3, <2>4
  <1>3. CASE s.cyclo.recording_mode_ \/ (stick \notin Sticks /\ stick # Centre)
    BY <1>3 DEF CycloPolar
  <1>4. QED
    BY <1>1, <1>2, <1>3

LEMMA CycloTilted ==
    ASSUME NEW s, CycloOK(s), NEW shift \in Int
    PROVE  CycloOK(CycloIntegrated(s, shift))
  <1> DEFINE note == Clip127(s.cyclo.root_note_ + shift)
             c == [s.cyclo EXCEPT !.notes_[s.cyclo.active_step_] = note]
             r == [s EXCEPT !.heard = (s.heard \ {Note(s, ActiveNote(s))})
                                      \cup {Note(s, c.notes_[c.active_step_])},
                            !.cyclo = c, !.picks = s.picks + 1]
  <1>1. s \in BoxType /\ s.cyclo \in CycloType /\ s.picks + 1 \in Int /\ note \in Int
    BY CycloFields DEF BoxType, CycloType, Clip127
  <1> HIDE DEF note
  <1>2. c \in CycloType /\ c.notes_[c.active_step_] = note
    BY <1>1 DEF CycloType
  <1>3. CASE s.cyclo.recording_mode_ /\ note # ActiveNote(s)
    <2>1. CycloIntegrated(s, shift)
          = [s EXCEPT !.heard = (s.heard \ {Note(s, ActiveNote(s))}) \cup {Note(s, note)},
                      !.cyclo = c, !.picks = s.picks + 1]
      BY <1>1, <1>3 DEF CycloIntegrated, BoxNoteOn, BoxNoteOff, Note, ActiveNote, BoxType, note
    <2> HIDE DEF c
    <2>2. CycloOK(r)
      BY <1>1, <1>2, CycloMoves
    <2>3. QED
      BY <1>2, <2>1, <2>2
  <1>4. CASE ~s.cyclo.recording_mode_ \/ note = ActiveNote(s)
    BY <1>4 DEF CycloIntegrated, note
  <1>5. QED
    BY <1>3, <1>4

LEMMA CycloShakenKeeps ==
    ASSUME NEW s, CycloOK(s)
    PROVE  CycloOK(CycloShaken(s))
  <1>1. (s.cyclo.active_step_ + 1) % Steps \in StepIndices
    BY CycloFields, NunchukAssumption DEF StepIndices
  <1>2. QED
    BY <1>1, StepIsSet DEF CycloShaken

-----------------------------------------------------------------------------
(* Droner: the notes of the list, and the one being chosen.                *)

DronerOK(s) ==
    /\ s \in BoxType /\ s.current_app_index_ = 2 /\ OnItsChannel(s)
    /\ ~s.forgotten => s.heard \subseteq DronerNotes(s, s.droner)

LEMMA DronerIsBox ==
    ASSUME NEW s
    PROVE  DronerOK(s) <=> BoxOK(s) /\ Running(s) = "Droner"
  BY Apps DEF DronerOK, BoxOK, Knows

LEMMA DronerFields ==
    ASSUME NEW s, DronerOK(s)
    PROVE  /\ s \in BoxType /\ OnItsChannel(s) /\ s.droner \in DronerType
           /\ s.heard \in SUBSET (Int \X Int) /\ s.forgotten \in BOOLEAN /\ s.picks \in Int
           /\ s.channel_ \in Int
           /\ s.droner.num_notes_ \in 0..(ListSize - 1) /\ 0 \in ListIndices
           /\ s.droner.note_list_ \in [0..(ListSize - 1) -> Int]
           /\ s.droner.recording_mode_ \in BOOLEAN /\ s.droner.note_changed_ \in BOOLEAN
           /\ s.droner.root_note_ \in Int
  BY NunchukAssumption DEF DronerOK, BoxType, DronerType, ListIndices

\* What has to be shown of the list and of the notes that sound after a handler.
LEMMA DronerBecomes ==
    ASSUME NEW s, DronerOK(s), NEW d \in DronerType, NEW H \in SUBSET (Int \X Int),
           NEW f \in BOOLEAN, NEW picks \in Int,
           \A h \in H : h[1] = s.channel_,
           ~f => H \subseteq DronerNotes(s, d)
    PROVE  DronerOK([s EXCEPT !.heard = H, !.droner = d, !.forgotten = f, !.picks = picks])
  <1> DEFINE r == [s EXCEPT !.heard = H, !.droner = d, !.forgotten = f, !.picks = picks]
  <1>1. s \in BoxType /\ s.current_app_index_ = 2
    BY DEF DronerOK
  <1>2. r \in BoxType /\ r.current_app_index_ = 2 /\ r.channel_ = s.channel_
        /\ r.forgotten = f /\ r.droner = d /\ r.heard = H
    BY <1>1 DEF BoxType
  <1> HIDE DEF r
  <1>3. OnItsChannel(r)
    BY <1>2 DEF OnItsChannel
  <1>4. \A n : Note(r, n) = Note(s, n)
    BY <1>2 DEF Note
  <1>5. DronerNotes(r, d) = DronerNotes(s, d)
    <2>1. ListedNotes(r, d) = ListedNotes(s, d)
      BY <1>4 DEF ListedNotes
    <2>2. QED
      BY <1>4, <2>1 DEF DronerNotes
  <1>6. DronerOK(r)
    BY <1>2, <1>3, <1>5 DEF DronerOK
  <1>7. QED
    BY <1>6 DEF r

LEMMA DronerPressed ==
    ASSUME NEW s, DronerOK(s)
    PROVE  DronerOK(DronerOnPress(s))
  <1> DEFINE d == [s.droner EXCEPT !.recording_mode_ = TRUE, !.note_changed_ = FALSE]
             f == s.forgotten \/ s.droner.recording_mode_
  <1>1. d \in DronerType /\ f \in BOOLEAN
    BY DronerFields DEF DronerType
  <1>2. ~f => s.heard \subseteq DronerNotes(s, d)
    <2>1. ListedNotes(s, d) = ListedNotes(s, s.droner) /\ ~Choosing(d)
      BY DronerFields DEF ListedNotes, Listed, Choosing, DronerType
    <2>2. ~f => ~Choosing(s.droner) /\ s.heard \subseteq DronerNotes(s, s.droner)
      BY DEF Choosing, DronerOK
    <2> HIDE DEF d, f
    <2>3. QED
      BY <2>1, <2>2 DEF DronerNotes
  <1>3. DronerOnPress(s) = [s EXCEPT !.heard = s.heard, !.droner = d, !.forgotten = f,
                                     !.picks = s.picks]
    BY DronerFields DEF DronerOnPress, BoxType
  <1> HIDE DEF d, f
  <1>4. DronerOK([s EXCEPT !.heard = s.heard, !.droner = d, !.forgotten = f, !.picks = s.picks])
    BY <1>1, <1>2, DronerBecomes, DronerFields DEF OnItsChannel
  <1>5. QED
    BY <1>3, <1>4

\* One after the other, round a list.
LEMMA NextRound ==
    ASSUME NEW n \in Nat, NEW m \in Nat, n < m
    PROVE  (n + 1) % m = IF n + 1 = m THEN 0 ELSE n + 1
  <1>1. CASE n + 1 = m
    <2>1. m % m = 0
      BY <1>1, SMT
    <2>2. QED
      BY <1>1, <2>1
  <1>2. CASE n + 1 < m
    BY <1>2, SMT
  <1>3. QED
    BY <1>1, <1>2

LEMMA DronerReleased ==
    ASSUME NEW s, DronerOK(s)
    PROVE  DronerOK(DronerOnRelease(s))
  <1> DEFINE num  == s.droner.num_notes_
             list == s.droner.note_list_
  <1>1. num \in ListIndices /\ list \in [ListIndices -> Int] /\ 0 \in ListIndices
    BY DronerFields DEF ListIndices
  <1>2. CASE ~s.droner.note_changed_
    <2>1. s.droner \in DronerType /\ s \in BoxType
      BY DronerFields
    <2>2. PICK zero \in ListIndices, root \in Int : zero = 0 /\ root = 60
      BY <1>1
    <2> DEFINE d == [s.droner EXCEPT !.recording_mode_ = FALSE, !.root_note_ = root,
                                     !.num_notes_ = zero, !.note_list_[zero] = zero]
               H == s.heard \ ListedNotes(s, s.droner)
    <2>3. d \in DronerType
      <3>1. zero \in Int
        BY <2>2
      <3>2. QED
        BY <2>1, <3>1 DEF DronerType
    <2>4. ~s.forgotten => s.heard \subseteq ListedNotes(s, s.droner)
      BY <1>2 DEF DronerOK, DronerNotes, Choosing
    <2>5. ~s.forgotten => H = {}
      BY <2>4
    <2>6. H \in SUBSET (Int \X Int) /\ \A h \in H : h[1] = s.channel_
      BY DronerFields DEF OnItsChannel
    <2>7. DronerOnRelease(s) = [s EXCEPT !.heard = H, !.droner = d, !.forgotten = s.forgotten,
                                         !.picks = s.picks]
      <3>1. DronerOnRelease(s)
            = [s EXCEPT !.heard = H, !.droner.recording_mode_ = FALSE, !.droner.root_note_ = root,
                        !.droner.num_notes_ = zero, !.droner.note_list_[zero] = zero]
        BY <1>2, <2>2 DEF DronerOnRelease, ListedNotes
      <3> HIDE DEF H
      <3>2. [s EXCEPT !.heard = H, !.droner.recording_mode_ = FALSE, !.droner.root_note_ = root,
                      !.droner.num_notes_ = zero, !.droner.note_list_[zero] = zero]
            = [s EXCEPT !.heard = H, !.droner = d]
        BY <2>1 DEF BoxType, DronerType
      <3>3. DronerOnRelease(s) = [s EXCEPT !.heard = H, !.droner = d]
        BY <3>1, <3>2
      <3> HIDE DEF d
      <3>4. QED
        BY <2>1, <3>3 DEF BoxType
    <2> HIDE DEF d, H
    <2>8. DronerOK([s EXCEPT !.heard = H, !.droner = d, !.forgotten = s.forgotten,
                             !.picks = s.picks])
      BY <2>3, <2>5, <2>6, DronerBecomes, DronerFields
    <2>9. QED
      BY <2>7, <2>8
  <1>3. CASE s.droner.note_changed_
    <2>1. PICK next \in ListIndices :
             next = (num + 1) % ListSize /\ (next # 0 => next = num + 1)
      <3>1. num \in Nat /\ ListSize \in Nat /\ num < ListSize
        BY <1>1, NunchukAssumption DEF ListIndices
      <3>2. (num + 1) % ListSize = IF num + 1 = ListSize THEN 0 ELSE num + 1
        BY <3>1, NextRound
      <3>3. QED
        BY <3>1, <3>2 DEF ListIndices
    <2>2. PICK root \in Int, seventh \in Int : root = list[num] /\ seventh = (root + 7) % 256
      BY <1>1
    <2>3. PICK f \in BOOLEAN : f <=> s.forgotten \/ next = 0
      OBVIOUS
    <2> DEFINE d == [s.droner EXCEPT !.recording_mode_ = FALSE, !.root_note_ = root,
                                     !.num_notes_ = next, !.note_list_[next] = seventh]
    <2>4. s.droner \in DronerType /\ s \in BoxType
      BY DronerFields
    <2>5. (s.forgotten \/ next = 0) = f
      BY <2>3, DronerFields
    <2>6. DronerOnRelease(s)
          = [s EXCEPT !.droner.recording_mode_ = FALSE, !.droner.root_note_ = root,
                      !.droner.num_notes_ = next, !.droner.note_list_[next] = seventh,
                      !.picks = s.picks + 1, !.forgotten = f]
      BY <1>3, <2>1, <2>2, <2>5 DEF DronerOnRelease
    <2>7. DronerOnRelease(s) = [s EXCEPT !.heard = s.heard, !.droner = d, !.forgotten = f,
                                         !.picks = s.picks + 1]
      <3>1. [s EXCEPT !.droner.recording_mode_ = FALSE, !.droner.root_note_ = root,
                      !.droner.num_notes_ = next, !.droner.note_list_[next] = seventh]
            = [s EXCEPT !.droner = d]
        BY <2>4 DEF BoxType, DronerType
      <3>2. DronerOnRelease(s) = [s EXCEPT !.droner = d, !.picks = s.picks + 1, !.forgotten = f]
        BY <2>6, <3>1
      <3> HIDE DEF d
      <3>3. QED
        BY <2>4, <3>2 DEF BoxType
    <2>8. d \in DronerType
      BY <2>4 DEF DronerType
    <2>9. d.num_notes_ = next /\ d.note_list_ = [list EXCEPT ![next] = seventh]
          /\ d.recording_mode_ = FALSE
      BY <2>4 DEF DronerType
    <2>10. ~f => s.heard \subseteq DronerNotes(s, d)
      <3>1. SUFFICES ASSUME ~f, NEW h \in s.heard
                     PROVE  h \in ListedNotes(s, d)
        BY <2>9 DEF DronerNotes, Choosing
      <3>2. h \in DronerNotes(s, s.droner)
        BY <2>3, <3>1 DEF DronerOK
      <3>3. PICK i \in 0..num : h = Note(s, list[i])
        BY <1>1, <3>2 DEF DronerNotes, ListedNotes, Listed, ListIndices
      <3>4. next = num + 1 /\ num \in Nat
        BY <1>1, <2>1, <2>3, <3>1 DEF ListIndices
      <3> HIDE DEF d, list, num
      <3>5. i \in Listed(d) /\ i # next /\ i \in ListIndices
        <4>1. i \in 0..num /\ d.num_notes_ = num + 1 /\ num \in 0..(ListSize - 1)
              /\ ListSize \in Nat
          BY <1>1, <2>9, <3>3, <3>4, NunchukAssumption DEF ListIndices
        <4>2. QED
          BY <3>4, <4>1 DEF Listed, ListIndices
      <3>6. d.note_list_[i] = list[i]
        BY <1>1, <2>9, <3>5
      <3>7. QED
        BY <3>3, <3>5, <3>6 DEF ListedNotes
    <2>11. f \in BOOLEAN
      OBVIOUS
    <2> HIDE DEF d
    <2>12. DronerOK([s EXCEPT !.heard = s.heard, !.droner = d, !.forgotten = f,
                             !.picks = s.picks + 1])
      <3>1. s.picks + 1 \in Int /\ s.heard \in SUBSET (Int \X Int)
            /\ \A h \in s.heard : h[1] = s.channel_
        BY DronerFields DEF OnItsChannel
      <3>2. QED
        BY <2>8, <2>10, <2>11, <3>1, DronerBecomes
    <2>13. QED
      BY <2>7, <2>12
  <1>4. QED
    BY <1>2, <1>3

LEMMA DronerTilted ==
    ASSUME NEW s, DronerOK(s), NEW shift \in Int
    PROVE  DronerOK(DronerIntegrated(s, shift))
  <1> DEFINE num  == s.droner.num_notes_
             list == s.droner.note_list_
             note == Clip127(s.droner.root_note_ + shift)
             d == [s.droner EXCEPT !.note_changed_ = TRUE, !.note_list_[num] = note]
             H == (s.heard \ {Note(s, list[num])}) \cup {Note(s, note)}
  <1>1. num \in ListIndices /\ list \in [ListIndices -> Int] /\ note \in Int
        /\ s.droner \in DronerType
    BY DronerFields DEF ListIndices, Clip127
  <1>2. CASE s.droner.recording_mode_ /\ note # list[num]
             /\ \A i \in Listed(s.droner) : list[i] # note
    <2>1. DronerIntegrated(s, shift)
          = [s EXCEPT !.heard = H, !.droner = d, !.forgotten = s.forgotten, !.picks = s.picks + 1]
      <3>1. DronerIntegrated(s, shift)
            = BoxNoteOn([BoxNoteOff(s, list[num]) EXCEPT !.droner.note_changed_ = TRUE,
                                                        !.droner.note_list_[num] = note,
                                                        !.picks = @ + 1], note)
        BY <1>2 DEF DronerIntegrated
      <3>2. s \in BoxType /\ num \in ListIndices
        BY <1>1, DronerFields
      <3> HIDE DEF note, list, num
      <3>3. QED
        BY ZenonT(60), <3>1, <3>2 DEF BoxType, DronerType, BoxNoteOn, BoxNoteOff, Note
    <2> HIDE DEF note
    <2>2. d \in DronerType
      <3> HIDE DEF num
      <3>1. QED
        BY <1>1 DEF DronerType
    <2>3. d.num_notes_ = num /\ d.note_list_ = [list EXCEPT ![num] = note] /\ Choosing(d)
      BY <1>1, <1>2 DEF Choosing, DronerType
    <2>4. Note(s, note) \in Int \X Int /\ Note(s, note)[1] = s.channel_
      BY <1>1, DronerFields DEF Note
    <2>5. H \in SUBSET (Int \X Int) /\ \A h \in H : h[1] = s.channel_
      BY <2>4, DronerFields DEF OnItsChannel
    <2>6. ~s.forgotten => H \subseteq DronerNotes(s, d)
      <3>1. SUFFICES ASSUME ~s.forgotten, NEW h \in H
                     PROVE  h \in DronerNotes(s, d)
        OBVIOUS
      <3>2. CASE h = Note(s, note)
        BY <1>1, <2>3, <3>2 DEF DronerNotes
      <3>3. CASE h \in s.heard /\ h # Note(s, list[num])
        <4>1. h \in DronerNotes(s, s.droner)
          BY <3>1, <3>3 DEF DronerOK
        <4>2. PICK i \in Listed(s.droner) : h = Note(s, list[i])
          BY <3>3, <4>1 DEF DronerNotes, ListedNotes
        <4>3. i \in Listed(d) /\ d.note_list_[i] = list[i]
          BY <1>1, <2>3 DEF Listed, ListIndices
        <4>4. QED
          BY <2>3, <4>2, <4>3 DEF DronerNotes, ListedNotes
      <3>4. QED
        BY <3>1, <3>2, <3>3
    <2> HIDE DEF d, H
    <2>7. DronerOK([s EXCEPT !.heard = H, !.droner = d, !.forgotten = s.forgotten,
                             !.picks = s.picks + 1])
      <3>1. s.picks + 1 \in Int /\ s.forgotten \in BOOLEAN
        BY DronerFields
      <3>2. QED
        BY <2>2, <2>5, <2>6, <3>1, DronerBecomes
    <2>8. QED
      BY <2>1, <2>7
  <1>3. CASE ~(s.droner.recording_mode_ /\ note # list[num]
               /\ \A i \in Listed(s.droner) : list[i] # note)
    BY <1>3 DEF DronerIntegrated
  <1>4. QED
    BY <1>2, <1>3

LEMMA DronerShakenKeeps ==
    ASSUME NEW s, DronerOK(s), NEW dice
    PROVE  DronerOK(DronerShaken(s, dice))
  <1> DEFINE list == s.droner.note_list_
             on == {j \in Listed(s.droner) :
                        /\ j \in dice
                        /\ \A k \in (j + 1)..(s.droner.num_notes_ - 1) :
                              list[k] = list[j] => k \in dice}
             played == {Note(s, list[i]) : i \in on}
             H == (s.heard \ ListedNotes(s, s.droner)) \cup played
  <1>1. DronerShaken(s, dice)
        = [s EXCEPT !.heard = H, !.droner = s.droner, !.forgotten = s.forgotten, !.picks = s.picks]
    BY DronerFields DEF DronerShaken, ListedNotes, BoxType
  <1>2. on \subseteq Listed(s.droner)
    OBVIOUS
  <1> HIDE DEF on
  <1>3. played \subseteq ListedNotes(s, s.droner)
    BY <1>2 DEF ListedNotes
  <1>4. ASSUME NEW h \in ListedNotes(s, s.droner)
        PROVE  h \in Int \X Int /\ h[1] = s.channel_
    <2>1. PICK i \in Listed(s.droner) : h = Note(s, s.droner.note_list_[i])
      BY DEF ListedNotes
    <2>2. i \in 0..(ListSize - 1)
      BY <2>1, DronerFields, NunchukAssumption DEF Listed
    <2>3. s.droner.note_list_[i] \in Int /\ s.channel_ \in Int
      BY <2>2, DronerFields
    <2>4. QED
      BY <2>1, <2>3 DEF Note
  <1> HIDE DEF played
  <1>5. H \in SUBSET (Int \X Int) /\ \A h \in H : h[1] = s.channel_
    BY <1>3, <1>4, DronerFields DEF OnItsChannel
  <1>6. ~s.forgotten => H \subseteq DronerNotes(s, s.droner)
    BY <1>3 DEF DronerOK, DronerNotes
  <1> HIDE DEF H
  <1>7. DronerOK([s EXCEPT !.heard = H, !.droner = s.droner, !.forgotten = s.forgotten,
                           !.picks = s.picks])
    BY <1>5, <1>6, DronerBecomes, DronerFields
  <1>8. QED
    BY <1>1, <1>7

-----------------------------------------------------------------------------
(* App: an app is launched with everything silenced.                       *)

LEMMA NewApps ==
    ASSUME NEW s \in BoxType
    PROVE  /\ NewCyclo(s.cyclo) \in CycloType
           /\ NewDrummer \in DrummerType
           /\ NewDroner(s.droner) \in DronerType
  <1>1. s.cyclo \in CycloType /\ s.droner \in DronerType
    BY DEF BoxType
  <1>2. NewNotes \in [StepIndices -> Int]
    BY NunchukAssumption DEF NewNotes, StepIndices
  <1>3. PICK zero \in StepIndices : zero = 0
    BY NunchukAssumption DEF StepIndices
  <1>4. zero \in Int
    BY <1>3
  <1>5. [s.cyclo EXCEPT !.notes_ = NewNotes, !.active_step_ = zero, !.root_note_ = zero]
        \in CycloType
    BY <1>1, <1>2, <1>4 DEF CycloType
  <1>6. NewCyclo(s.cyclo) \in CycloType
    BY <1>3, <1>5 DEF NewCyclo
  <1>7. NewDrummer \in DrummerType
    BY DEF NewDrummer, DrummerType
  <1>8. NewDroner(s.droner) \in DronerType
    BY <1>1 DEF NewDroner, DronerType
  <1>9. QED
    BY <1>6, <1>7, <1>8

LEMMA Initialised ==
    ASSUME NEW s \in BoxType
    PROVE  OnInit(s) \in BoxType /\ OnInit(s).heard = s.heard /\ OnInit(s).channel_ = s.channel_
  <1>1. CASE Running(s) = "Drummer"
    <2>1. OnInit(s) = [s EXCEPT !.drummer = NewDrummer]
      BY <1>1 DEF OnInit
    <2>2. QED
      BY <2>1, NewApps DEF BoxType
  <1>2. CASE Running(s) = "CycloSequencer"
    <2>1. OnInit(s) = [s EXCEPT !.cyclo = NewCyclo(s.cyclo)]
      BY <1>2 DEF OnInit
    <2>2. QED
      BY <2>1, NewApps DEF BoxType
  <1>3. CASE Running(s) = "Droner"
    <2>1. OnInit(s) = [s EXCEPT !.droner = NewDroner(s.droner)]
      BY <1>3 DEF OnInit
    <2>2. QED
      BY <2>1, NewApps DEF BoxType
  <1>4. QED
    BY <1>1, <1>2, <1>3, Apps

LEMMA Launched ==
    ASSUME NEW s \in BoxType, OnItsChannel(s), NEW i \in 0..3
    PROVE  BoxOK(Launch(s, i))
  <1>1. PICK app \in 0..2 : app = IF i >= Len(registry) THEN 0 ELSE i
    BY DEF registry
  <1> DEFINE before == [Forgets(s) EXCEPT !.current_app_index_ = app]
             begun  == OnInit(before)
             silent == BoxSoundsOff(begun)
             r      == PlayLogotone(silent)
  <1>2. Launch(s, i) = r
    BY <1>1 DEF Launch
  <1>3. before \in BoxType /\ before.heard = s.heard /\ before.channel_ = s.channel_
    BY NewApps DEF Forgets, BoxType
  <1> HIDE DEF before
  <1>4. begun \in BoxType /\ begun.heard = s.heard /\ begun.channel_ = s.channel_
    BY <1>3, Initialised
  <1> HIDE DEF begun
  <1>5. OnItsChannel(begun)
    BY <1>4 DEF OnItsChannel
  <1>6. silent \in BoxType /\ silent.heard = {}
    BY <1>4, <1>5, SoundsOff
  <1> HIDE DEF silent
  <1>7. r \in BoxType /\ r.heard = {}
    BY <1>6 DEF PlayLogotone, BoxType
  <1> HIDE DEF r
  <1>8. BoxOK(r)
    BY <1>7, SilenceIsKnown
  <1>9. QED
    BY <1>2, <1>8

LEMMA AppChanges ==
    ASSUME NEW s, BoxOK(s)
    PROVE  BoxOK(NextApp(s))
  <1>1. s \in BoxType /\ OnItsChannel(s) /\ s.current_app_index_ + 1 \in 0..3
    BY DEF BoxOK, BoxType
  <1>2. QED
    BY <1>1, Launched DEF NextApp

-----------------------------------------------------------------------------
(* App: the handlers of the app that runs.                                 *)

LEMMA PressKeeps ==
    ASSUME NEW s, BoxOK(s)
    PROVE  BoxOK(BoxOnPress(s)) /\ BoxOK(BoxOnRelease(s))
  <1>1. CASE Running(s) = "Drummer"
    BY <1>1, DrummerKeeps DEF BoxOnPress, BoxOnRelease
  <1>2. CASE Running(s) = "CycloSequencer"
    <2>1. CycloOK(s)
      BY <1>2, CycloIsBox
    <2>2. BoxOK(CycloOnPress(s)) /\ BoxOK(CycloOnRelease(s))
      BY <2>1, CycloPressed, CycloReleased, CycloIsBox
    <2>3. QED
      BY <1>2, <2>2 DEF BoxOnPress, BoxOnRelease
  <1>3. CASE Running(s) = "Droner"
    <2>1. DronerOK(s)
      BY <1>3, DronerIsBox
    <2>2. BoxOK(DronerOnPress(s)) /\ BoxOK(DronerOnRelease(s))
      BY <2>1, DronerPressed, DronerReleased, DronerIsBox
    <2>3. QED
      BY <1>3, <2>2 DEF BoxOnPress, BoxOnRelease
  <1>4. QED
    BY <1>1, <1>2, <1>3, Apps DEF BoxOK

LEMMA MovesKeep ==
    ASSUME NEW s, BoxOK(s), NEW stick, NEW shift \in Int, NEW dice
    PROVE  /\ BoxOK(UpdateJoystickPolar(s, stick))
           /\ BoxOK(UpdateJoystickIntegrated(s, shift))
           /\ BoxOK(UpdateAccelerometer(s, dice))
  <1>1. CASE Running(s) = "Drummer"
    BY <1>1, DrummerKeeps
       DEF UpdateJoystickPolar, UpdateJoystickIntegrated, UpdateAccelerometer
  <1>2. CASE Running(s) = "CycloSequencer"
    <2>1. CycloOK(s)
      BY <1>2, CycloIsBox
    <2>2. BoxOK(CycloPolar(s, stick)) /\ BoxOK(CycloIntegrated(s, shift)) /\ BoxOK(CycloShaken(s))
      BY <2>1, CycloPolarKeeps, CycloTilted, CycloShakenKeeps, CycloIsBox
    <2>3. QED
      BY <1>2, <2>2 DEF UpdateJoystickPolar, UpdateJoystickIntegrated, UpdateAccelerometer
  <1>3. CASE Running(s) = "Droner"
    <2>1. DronerOK(s)
      BY <1>3, DronerIsBox
    <2>2. BoxOK(DronerIntegrated(s, shift)) /\ BoxOK(DronerShaken(s, dice))
      BY <2>1, DronerTilted, DronerShakenKeeps, DronerIsBox
    <2>3. QED
      BY <1>3, <2>2 DEF UpdateJoystickPolar, UpdateJoystickIntegrated, UpdateAccelerometer
  <1>4. QED
    BY <1>1, <1>2, <1>3, Apps DEF BoxOK

-----------------------------------------------------------------------------
(* App: the buttons.                                                       *)

\* What the buttons were does not matter to what sounds.
LEMMA FlagsKeep ==
    ASSUME NEW s, BoxOK(s), NEW a \in BOOLEAN, NEW b \in BOOLEAN
    PROVE  /\ BoxOK([s EXCEPT !.inhibit_app_change_ = a])
           /\ BoxOK([s EXCEPT !.z_status_ = a, !.c_status_ = b])
  <1>1. s \in BoxType
    BY DEF BoxOK
  <1>2. ASSUME NEW r \in BoxType, r.current_app_index_ = s.current_app_index_,
               r.channel_ = s.channel_, r.heard = s.heard, r.forgotten = s.forgotten,
               r.cyclo = s.cyclo, r.droner = s.droner
        PROVE  BoxOK(r)
    <2>1. OnItsChannel(r) <=> OnItsChannel(s)
      BY <1>2 DEF OnItsChannel
    <2>2. \A n : Note(r, n) = Note(s, n)
      BY <1>2 DEF Note
    <2>3. ActiveNote(r) = ActiveNote(s) /\ Running(r) = Running(s)
      BY <1>2 DEF ActiveNote, Running
    <2>4. DronerNotes(r, s.droner) = DronerNotes(s, s.droner)
      <3>1. ListedNotes(r, s.droner) = ListedNotes(s, s.droner)
        BY <2>2 DEF ListedNotes
      <3>2. QED
        BY <2>2, <3>1 DEF DronerNotes
    <2>5. Knows(r) <=> Knows(s)
      <3>1. CASE Running(s) = "Drummer"
        BY <1>2, <2>3, <3>1 DEF Knows
      <3>2. CASE Running(s) = "CycloSequencer"
        BY <1>2, <2>2, <2>3, <3>2 DEF Knows
      <3>3. CASE Running(s) = "Droner"
        BY <1>2, <2>3, <2>4, <3>3 DEF Knows
      <3>4. QED
        BY <1>1, <3>1, <3>2, <3>3, Apps
    <2>6. QED
      BY <1>2, <2>1, <2>5 DEF BoxOK
  <1>3. BoxOK([s EXCEPT !.inhibit_app_change_ = a])
    <2> DEFINE r == [s EXCEPT !.inhibit_app_change_ = a]
    <2>1. r \in BoxType /\ r.current_app_index_ = s.current_app_index_
          /\ r.channel_ = s.channel_ /\ r.heard = s.heard /\ r.forgotten = s.forgotten
          /\ r.cyclo = s.cyclo /\ r.droner = s.droner
      BY <1>1 DEF BoxType
    <2> HIDE DEF r
    <2>2. BoxOK(r)
      BY <1>2, <2>1
    <2>3. QED
      BY <2>2 DEF r
  <1>4. BoxOK([s EXCEPT !.z_status_ = a, !.c_status_ = b])
    <2> DEFINE r == [s EXCEPT !.z_status_ = a, !.c_status_ = b]
    <2>1. r \in BoxType /\ r.current_app_index_ = s.current_app_index_
          /\ r.channel_ = s.channel_ /\ r.heard = s.heard /\ r.forgotten = s.forgotten
          /\ r.cyclo = s.cyclo /\ r.droner = s.droner
      BY <1>1 DEF BoxType
    <2> HIDE DEF r
    <2>2. BoxOK(r)
      BY <1>2, <2>1
    <2>3. QED
      BY <2>2 DEF r
  <1>5. QED
    BY <1>3, <1>4

LEMMA ButtonsKeep ==
    ASSUME NEW s, BoxOK(s), NEW c_pressed \in BOOLEAN, NEW z_pressed \in BOOLEAN
    PROVE  BoxOK(BoxButtons(s, c_pressed, z_pressed))
  <1> DEFINE raised   == s.z_status_ /\ ~z_pressed
             launched == IF ~c_pressed /\ ~s.inhibit_app_change_ THEN NextApp(s) ELSE s
             channel  == [NextMidiChannel(launched) EXCEPT !.inhibit_app_change_ = TRUE]
             allowed  == [s EXCEPT !.inhibit_app_change_ = FALSE]
             handled  ==
                 CASE s.c_status_ /\ raised -> channel
                   [] s.c_status_ /\ ~raised -> launched
                   [] ~s.c_status_ /\ raised -> BoxOnRelease(allowed)
                   [] ~s.c_status_ /\ ~s.z_status_ /\ z_pressed -> BoxOnPress(allowed)
                   [] OTHER -> allowed
  <1>1. BoxOK(launched)
    BY AppChanges
  <1> HIDE DEF launched
  <1>2. BoxOK(NextMidiChannel(launched))
    BY <1>1, ChannelSet
  <1>3. BoxOK(channel)
    BY <1>2, FlagsKeep
  <1>4. BoxOK(allowed)
    BY FlagsKeep
  <1> HIDE DEF channel, allowed
  <1>5. BoxOK(BoxOnRelease(allowed)) /\ BoxOK(BoxOnPress(allowed))
    BY <1>4, PressKeeps
  <1>6. handled \in {channel, launched, BoxOnRelease(allowed), BoxOnPress(allowed), allowed}
    OBVIOUS
  <1>7. BoxOK(handled)
    BY <1>1, <1>3, <1>4, <1>5, <1>6
  <1>8. BoxButtons(s, c_pressed, z_pressed)
        = [handled EXCEPT !.z_status_ = z_pressed, !.c_status_ = c_pressed]
    BY DEF BoxButtons, channel, launched, allowed
  <1> HIDE DEF handled
  <1>9. BoxOK([handled EXCEPT !.z_status_ = z_pressed, !.c_status_ = c_pressed])
    BY <1>7, FlagsKeep
  <1>10. QED
    BY <1>8, <1>9

-----------------------------------------------------------------------------
(* The specification.                                                      *)

LEMMA BoxInitially ==
    BoxInit => BoxOK(box)
  <1>1. NewNotes \in [StepIndices -> Int] /\ 0 \in StepIndices /\ 0 \in ListIndices
    BY NunchukAssumption DEF NewNotes, StepIndices, ListIndices
  <1>2. EmptyBox.cyclo \in CycloType
    BY <1>1 DEF EmptyBox, CycloType
  <1>3. EmptyBox.droner \in DronerType
    BY <1>1 DEF EmptyBox, DronerType, ListIndices
  <1>4. EmptyBox.drummer \in DrummerType
    BY DEF EmptyBox, NewDrummer, DrummerType
  <1>5. EmptyBox \in BoxType
    BY <1>2, <1>3, <1>4 DEF EmptyBox, BoxType
  <1>6. OnItsChannel(EmptyBox)
    BY DEF OnItsChannel, EmptyBox
  <1>7. BoxOK(Launch(EmptyBox, 0))
    BY <1>5, <1>6, Launched
  <1>8. QED
    BY <1>7 DEF BoxInit

LEMMA PollKeeps ==
    ASSUME BoxOK(box), Poll
    PROVE  BoxOK(box')
  <1>1. PICK tilt \in Tilts(box), shaken \in BOOLEAN, c_pressed \in BOOLEAN, z_pressed \in BOOLEAN :
           ProcessNunchuk(tilt[1], tilt[2], shaken, c_pressed, z_pressed)
    BY DEF Poll
  <1>2. tilt[2] \in Int
    BY Apps, NunchukAssumption DEF Tilts, BoxOK
  <1>3. PICK shift \in Int : shift = tilt[2]
    BY <1>2
  <1> DEFINE aimed == UpdateJoystickPolar(box, tilt[1])
             moved == UpdateJoystickIntegrated(aimed, shift)
  <1>4. BoxOK(aimed)
    BY MovesKeep
  <1>5. BoxOK(moved)
    BY <1>4, MovesKeep
  <1>6. \/ box' = BoxButtons(moved, c_pressed, z_pressed)
        \/ \E dice : box' = BoxButtons(UpdateAccelerometer(moved, dice), c_pressed, z_pressed)
    BY <1>1, <1>3 DEF ProcessNunchuk
  <1> HIDE DEF moved
  <1>7. \A dice : BoxOK(UpdateAccelerometer(moved, dice))
    BY <1>5, MovesKeep
  <1>8. QED
    BY <1>5, <1>6, <1>7, ButtonsKeep

\* Whatever is done with the stick, the buttons, the accelerometer and the switch, in any order,
\* the notes that sound are notes that the running app knows of and turns off, with any number
\* of channels, of steps and of notes in the list.
THEOREM NunchukHoldsItsNotes == BoxSpec => []SoundsAreHeld
  <1>1. BoxInit => BoxOK(box)
    BY BoxInitially
  <1>2. BoxOK(box) /\ [BoxNext]_box => BoxOK(box)'
    <2>1. CASE Poll
      BY <2>1, PollKeeps
    <2>2. CASE SwitchReleased
      BY <2>2, AppChanges DEF SwitchReleased
    <2>3. CASE UNCHANGED box
      BY <2>3
    <2>4. QED
      BY <2>1, <2>2, <2>3 DEF BoxNext
  <1>3. BoxOK(box) => SoundsAreHeld
    BY KnowsEnough DEF SoundsAreHeld
  <1>4. QED
    BY <1>1, <1>2, <1>3, PTL DEF BoxSpec

-----------------------------------------------------------------------------
(* The update of a voicecard: types, and the inductive invariant.         *)

RxType == [page : Nat, read : Nat, total_read : 0..255, right : BOOLEAN]
FirmwareTypeOK ==
    /\ card \in BOOLEAN /\ found \in BOOLEAN /\ opened \in BOOLEAN /\ done \in BOOLEAN
    /\ pc \in {"page", "wait", "confirm", "open", "read", "copy", "pause", "stop"}
    /\ confirmations \in 0..kConfirmations /\ page_size_nibbles \in Nat
    /\ byte_count \in 0..255 /\ page_count \in Nat /\ offset \in 0..FileSize
    /\ vc \in {"boot", "blink", "sync", "update", "writing", "dance", "main", "app", "hung"}
    /\ flag \in 0..255 /\ floating \in {0, 255}
    /\ reset_command_counter \in 0..(CounterSize - 1)
    /\ rx \in RxType
    /\ flash \in [Pages -> {"old", "erased", "new", "garbage"}]

Taking == vc \in {"update", "writing"}
PagesSoFar == \A p \in Pages : p < rx.page => flash[p] = "new"

\* The voicecard has what was sent of the file: whole pages, and the bytes in its buffer.
InStep ==
    /\ vc = "update" /\ rx.right /\ PagesSoFar
    /\ rx.read < SPM_PAGESIZE /\ offset = rx.page * SPM_PAGESIZE + rx.read
    /\ byte_count = (rx.total_read + 1) % 256

\* A page is full, and is the last one that was sent.
PageFull ==
    /\ vc = "writing" /\ ~done /\ rx.right /\ PagesSoFar
    /\ rx.read = SPM_PAGESIZE /\ offset = (rx.page + 1) * SPM_PAGESIZE
    /\ byte_count = (rx.total_read + 1) % 256

\* The last page of the file, which ends the update.
LastPage ==
    /\ done /\ Complete(rx) /\ PagesSoFar
    /\ FileSize <= (rx.page + 1) * SPM_PAGESIZE

\* The last reply to the confirmations tells who listens.
Answered ==
    /\ page_size_nibbles \in {SPM_PAGESIZE \div 16, floating}
    /\ page_size_nibbles = SPM_PAGESIZE \div 16 => vc = "sync"
    /\ vc = "sync" /\ reset_command_counter > 0 => page_size_nibbles = SPM_PAGESIZE \div 16

\* Nothing of the file has been sent.
AtRest == byte_count = 0 /\ page_count = 0 /\ offset = 0

\* What holds at each place of the controller's program.
OnPage ==
    /\ AtRest /\ confirmations = 0
    /\ opened /\ vc = "sync" => reset_command_counter <= 1
    /\ opened => vc # "update"
    /\ opened /\ vc = "writing" => LastPage
Waiting ==
    /\ AtRest /\ confirmations = 0 /\ vc # "update"
    /\ vc = "writing" => done /\ (opened => LastPage)
Confirming == AtRest /\ ~Taking /\ (confirmations > 0 => Answered)
Opening == AtRest /\ ~Taking /\ Answered /\ page_size_nibbles # 0
Copying ==
    /\ opened /\ page_size_nibbles # 0 /\ offset < FileSize
    /\ \/ AtRest /\ ~Taking /\ Answered
       \/ /\ offset > 0 /\ page_size_nibbles = SPM_PAGESIZE \div 16
          /\ InStep /\ page_count = rx.read
Pausing ==
    /\ opened /\ page_size_nibbles = SPM_PAGESIZE \div 16 /\ offset > 0
    /\ \/ InStep /\ page_count = rx.read
       \/ InStep /\ rx.read = 0 /\ page_count = SPM_PAGESIZE
       \/ PageFull /\ page_count = SPM_PAGESIZE
Stopping ==
    \/ ~Taking /\ (opened /\ vc = "sync" => reset_command_counter = 0)
    \/ opened /\ InStep /\ offset = FileSize

PhaseInv ==
    /\ vc = "blink" => reset_command_counter = 0
    /\ CASE pc = "page" -> OnPage
         [] pc = "wait" -> Waiting
         [] pc = "confirm" -> Confirming
         [] pc = "open" -> Opening
         [] pc \in {"read", "copy"} -> Copying
         [] pc = "pause" -> Pausing
         [] pc = "stop" -> Stopping

FirmwareInv == FirmwareTypeOK /\ PhaseInv

-----------------------------------------------------------------------------
\* The page size is counted in blocks of sixteen bytes.
LEMMA PageSize ==
  /\ SPM_PAGESIZE \in Nat /\ SPM_PAGESIZE >= 16
  /\ SPM_PAGESIZE \div 16 \in 1..128 /\ (SPM_PAGESIZE \div 16) * 16 = SPM_PAGESIZE
  /\ FileSize \in Nat /\ FileSize > 0 /\ MaxPages \in Nat
  /\ kSyncCommands \in Nat /\ kConfirmations \in Nat /\ CounterSize \in Nat
  /\ 1 < kSyncCommands /\ kSyncCommands <= kConfirmations /\ kConfirmations < CounterSize
BY FirmwareAssumption

\* The pages of the file fit, and the last one ends the file.
LEMMA LastFilePage ==
  /\ FilePages \subseteq Pages
  /\ \A page \in Nat : FileSize <= page * SPM_PAGESIZE => \A p \in FilePages : p < page
  /\ \A page \in Nat : (page + 1) * SPM_PAGESIZE <= FileSize => page \in Pages
<1> DEFINE N == SPM_PAGESIZE
           last == (FileSize - 1) \div N
<1>1. last \in Nat /\ last * N <= FileSize - 1
  BY PageSize
<1>2. FileSize <= MaxPages * N
  BY FirmwareAssumption
<1>3. ASSUME NEW page \in Nat, FileSize <= page * N
      PROVE  last < page
  <2>1. last * N < page * N
    BY <1>1, <1>3, PageSize
  <2> QED BY <1>1, <2>1, PageSize
<1>4. ASSUME NEW page \in Nat, (page + 1) * N <= FileSize
      PROVE  page \in Pages
  <2>1. (page + 1) * N <= MaxPages * N
    BY <1>2, <1>4, PageSize
  <2>2. page + 1 <= MaxPages
    BY <2>1, PageSize
  <2> QED BY <2>2, PageSize DEF Pages
<1> QED
  BY <1>1, <1>2, <1>3, <1>4, PageSize DEF FilePages, Pages

\* A full page ends at a multiple of four bytes.
LEMMA PageEnds ==
  ASSUME NEW page \in Nat
  PROVE  /\ (page + 1) * SPM_PAGESIZE = page * SPM_PAGESIZE + SPM_PAGESIZE
         /\ ((page + 1) * SPM_PAGESIZE) % 4 = 0
<1> DEFINE n == SPM_PAGESIZE \div 16
           k == 4 * ((page + 1) * n)
<1>1. n \in Nat /\ SPM_PAGESIZE = 16 * n
  BY PageSize
<1>2. (page + 1) * SPM_PAGESIZE = 4 * k /\ k \in Nat
  BY <1>1
<1>3. \A i \in Nat : (4 * i) % 4 = 0
  OBVIOUS
<1> QED
  BY <1>1, <1>2, <1>3

\* What the bootloader has received stays a record, with these fields.
LEMMA NoUpdateFacts ==
  /\ NoUpdate \in RxType /\ NoUpdate.read = 0 /\ NoUpdate.page = 0 /\ NoUpdate.right = TRUE
  /\ NoUpdate.total_read = 0
BY DEF RxType, NoUpdate

LEMMA PageRx ==
  ASSUME NEW r \in RxType, NEW q, q = [r EXCEPT !.page = @ + 1, !.read = 0, !.right = TRUE]
  PROVE  /\ q \in RxType /\ q.page = r.page + 1 /\ q.read = 0 /\ q.right = TRUE
         /\ q.total_read = r.total_read
<1>1. q.page = r.page + 1 /\ q.read = 0 /\ q.right = TRUE /\ q.total_read = r.total_read
  BY DEF RxType
<1>2. PICK page, read, right : page = r.page + 1 /\ read = 0 /\ right = TRUE
  OBVIOUS
<1>3. page \in Nat /\ read \in Nat /\ right \in BOOLEAN
  BY <1>2 DEF RxType
<1>4. q = [r EXCEPT !.page = page, !.read = read, !.right = right]
  BY <1>2
<1>5. q \in RxType
  BY <1>3, <1>4 DEF RxType
<1> QED
  BY <1>1, <1>5

LEMMA ReceivedRx ==
  ASSUME NEW r \in RxType, NEW at \in Int
  PROVE  /\ Received(r, at) \in RxType /\ Received(r, at).page = r.page
         /\ Received(r, at).read = r.read + 1 /\ Received(r, at).total_read = r.total_read
         /\ Received(r, at).right = (r.right /\ at = r.page * SPM_PAGESIZE + r.read)
<1>0. PICK q : q = Received(r, at)
  OBVIOUS
<1>1. PICK right \in BOOLEAN : right = (r.right /\ at = r.page * SPM_PAGESIZE + r.read)
  OBVIOUS
<1>2. PICK read : read = r.read + 1
  OBVIOUS
<1>3. read \in Nat /\ r.page \in Nat /\ r.total_read \in 0..255 /\ right \in BOOLEAN
  BY <1>1, <1>2 DEF RxType
<1>4. q = [r EXCEPT !.read = read, !.right = right]
  BY <1>0, <1>1, <1>2 DEF Received
<1>5. /\ q \in RxType /\ q.page = r.page /\ q.read = read /\ q.total_read = r.total_read
      /\ q.right = right
  <2>1. q \in RxType
    BY <1>3, <1>4 DEF RxType
  <2>2. q.page = r.page /\ q.read = read /\ q.total_read = r.total_read /\ q.right = right
    BY <1>4 DEF RxType
  <2> QED BY <2>1, <2>2
<1> QED
  BY <1>0, <1>1, <1>2, <1>5

Updated(r, at) == [Received(r, at) EXCEPT !.total_read = (@ + 1) % 256]
LEMMA ByteRx ==
  ASSUME NEW r \in RxType, NEW at \in Int
  PROVE  /\ Updated(r, at) \in RxType /\ Updated(r, at).page = r.page
         /\ Updated(r, at).read = r.read + 1
         /\ Updated(r, at).total_read = (r.total_read + 1) % 256
         /\ Updated(r, at).right = (r.right /\ at = r.page * SPM_PAGESIZE + r.read)
<1>1. PICK q : q = Received(r, at)
  OBVIOUS
<1>2. PICK u : u = [q EXCEPT !.total_read = (@ + 1) % 256] /\ u = Updated(r, at)
  BY <1>1 DEF Updated
<1>5. /\ q \in RxType /\ q.page = r.page /\ q.read = r.read + 1 /\ q.total_read = r.total_read
      /\ q.right = (r.right /\ at = r.page * SPM_PAGESIZE + r.read)
  BY <1>1, ReceivedRx
<1>6. PICK total_read \in 0..255 : total_read = (r.total_read + 1) % 256
  BY DEF RxType
<1>7. u = [q EXCEPT !.total_read = total_read]
  BY <1>2, <1>5, <1>6
<1>8. /\ u \in RxType /\ u.page = q.page /\ u.read = q.read /\ u.right = q.right
      /\ u.total_read = total_read
  <2>1. u \in RxType
    BY <1>5, <1>7 DEF RxType
  <2>2. u.page = q.page /\ u.read = q.read /\ u.right = q.right /\ u.total_read = total_read
    BY <1>5, <1>7 DEF RxType
  <2> QED BY <2>1, <2>2
<1> QED
  BY <1>2, <1>5, <1>6, <1>8

LEMMA StartInv == Init => FirmwareInv
<1> SUFFICES ASSUME Init
             PROVE  FirmwareInv
  OBVIOUS
<1>0. done \in BOOLEAN
  BY DEF Init
<1>1. rx \in RxType /\ flash \in [Pages -> {"old", "erased", "new", "garbage"}]
  BY NoUpdateFacts DEF Init
<1>2. FirmwareTypeOK
  <2>1. /\ confirmations \in 0..kConfirmations /\ page_size_nibbles \in Nat
        /\ byte_count \in 0..255 /\ page_count \in Nat /\ offset \in 0..FileSize
        /\ reset_command_counter \in 0..(CounterSize - 1)
    BY PageSize DEF Init
  <2>2. flag \in 0..255 /\ floating \in {0, 255}
    BY DEF Init, DONE
  <2>3. card \in BOOLEAN /\ found \in BOOLEAN /\ opened \in BOOLEAN /\ pc = "page" /\ vc = "boot"
    BY DEF Init
  <2> QED BY <1>0, <1>1, <2>1, <2>2, <2>3 DEF FirmwareTypeOK
<1> QED
  BY <1>2 DEF Init, FirmwareInv, PhaseInv, OnPage, AtRest

\* Power: everything but the flash and the flag starts again.
LEMMA PowerStep ==
  ASSUME FirmwareInv, PowerLoss \/ PowerCycle
  PROVE  FirmwareInv'
<1>1. PowerOn
  BY DEF PowerLoss, PowerCycle
<1>2. FirmwareTypeOK'
  <2>1. done' \in BOOLEAN
    BY <1>1 DEF PowerOn, NothingReceived
  <2> QED
    BY <1>1, <2>1, PageSize, NoUpdateFacts
       DEF FirmwareInv, FirmwareTypeOK, PowerOn, NothingReceived, Return
<1>3. OnPage' /\ pc' = "page" /\ vc' = "boot"
  BY <1>1 DEF PowerOn, NothingReceived, Return, OnPage, AtRest
<1> QED
  BY <1>2, <1>3 DEF FirmwareInv, PhaseInv

LEMMA VoicecardStep ==
  ASSUME FirmwareInv, Boot \/ Blinked \/ Danced \/ Main
  PROVE  FirmwareInv'
<1>0. UNCHANGED <<controller, flash, floating>> /\ vc \notin {"update", "writing", "sync"}
  BY DEF Boot, Blinked, Danced, Main, voicecard
<1>1. UNCHANGED <<pc, card, found, confirmations, page_size_nibbles, byte_count,
              page_count, offset, opened,
              flash, floating>>
  BY <1>0 DEF controller
<1>2. FirmwareTypeOK'
  <2>1. rx' \in RxType /\ done' \in BOOLEAN
    <3>1. rx \in RxType /\ done \in BOOLEAN
      BY DEF FirmwareInv, FirmwareTypeOK
    <3>2. NothingReceived \/ UNCHANGED <<rx, done>>
      BY DEF Boot, Blinked, Danced, Main
    <3> QED BY <3>1, <3>2, NoUpdateFacts DEF NothingReceived
  <2>2. reset_command_counter' \in 0..(CounterSize - 1)
    BY PageSize DEF Boot, Blinked, Danced, Main, FirmwareInv, FirmwareTypeOK, NothingReceived
  <2>3. flag' \in 0..255 /\ vc' \in {"boot", "blink", "sync", "update", "writing", "dance",
                                      "main", "app", "hung"}
    BY DEF Boot, Blinked, Danced, Main, FirmwareInv, FirmwareTypeOK, Decide, Run,
           NewUpdateFlag, update_flag, DONE, REQUESTED, PROBING_BOOT, PROBING_BOOT_LAST_TRY
  <2> QED BY <1>1, <2>1, <2>2, <2>3 DEF FirmwareInv, FirmwareTypeOK
<1>3. /\ vc' \notin {"update", "writing"}
      /\ vc' \in {"sync", "blink"} => reset_command_counter' = 0
  BY DEF Boot, Blinked, Danced, Main, Decide, Run, NothingReceived, FirmwareInv, PhaseInv
<1>4. page_size_nibbles = SPM_PAGESIZE \div 16 => ~Answered
  BY <1>0 DEF Answered
<1>5. ~Taking /\ ~Taking' /\ ~InStep /\ ~PageFull /\ AtRest' = AtRest
  BY <1>0, <1>1, <1>3 DEF Taking, InStep, PageFull, AtRest
<1>6. Answered => Answered'
  BY <1>0, <1>1, <1>3, <1>4 DEF Answered
<1>7. CASE pc = "page"
  BY <1>1, <1>2, <1>3, <1>5, <1>7 DEF FirmwareInv, PhaseInv, OnPage
<1>8. CASE pc = "wait"
  BY <1>1, <1>2, <1>3, <1>5, <1>8 DEF FirmwareInv, PhaseInv, Waiting
<1>9. CASE pc = "confirm"
  BY <1>1, <1>2, <1>3, <1>5, <1>6, <1>9 DEF FirmwareInv, PhaseInv, Confirming
<1>10. CASE pc = "open"
  BY <1>1, <1>2, <1>3, <1>5, <1>6, <1>10 DEF FirmwareInv, PhaseInv, Opening
<1>11. CASE pc \in {"read", "copy"}
  BY <1>1, <1>2, <1>3, <1>5, <1>6, <1>11 DEF FirmwareInv, PhaseInv, Copying
<1>12. CASE pc = "pause"
  BY <1>5, <1>12 DEF FirmwareInv, PhaseInv, Pausing
<1>13. CASE pc = "stop"
  BY <1>1, <1>2, <1>3, <1>5, <1>13 DEF FirmwareInv, PhaseInv, Stopping
<1> QED
  BY <1>7, <1>8, <1>9, <1>10, <1>11, <1>12, <1>13 DEF FirmwareInv, FirmwareTypeOK

LEMMA PageStep ==
  ASSUME FirmwareInv, PageWritten
  PROVE  FirmwareInv' /\ (vc' = "dance" /\ opened => Whole')
<1> DEFINE p == rx.page
<1>0. UNCHANGED <<pc, card, found, confirmations, page_size_nibbles, byte_count,
              page_count, offset, opened,
              floating, flag, reset_command_counter, done>> /\ vc = "writing"
  BY DEF PageWritten, controller
<1>1. /\ vc' = IF done THEN "dance" ELSE "update"
      /\ flash' = [flash EXCEPT ![p] = IF Complete(rx) THEN "new" ELSE "garbage"]
      /\ rx' = [rx EXCEPT !.page = @ + 1, !.read = 0, !.right = TRUE]
  BY DEF PageWritten
<1>3. /\ rx.page \in Nat /\ rx.read \in Nat /\ DOMAIN flash = Pages /\ rx' \in RxType
      /\ rx'.page = p + 1 /\ rx'.read = 0 /\ rx'.right = TRUE /\ rx'.total_read = rx.total_read
  BY <1>1, PageRx, ZenonT(40) DEF FirmwareInv, FirmwareTypeOK, RxType
<1>2. FirmwareTypeOK'
  <2>1. flash' \in [Pages -> {"old", "erased", "new", "garbage"}]
    BY <1>1 DEF FirmwareInv, FirmwareTypeOK
  <2> QED BY <1>0, <1>1, <1>3, <2>1 DEF FirmwareInv, FirmwareTypeOK
<1>4. ASSUME Complete(rx), PagesSoFar
      PROVE  PagesSoFar'
  BY <1>1, <1>3, <1>4 DEF PagesSoFar, Pages
<1>5. CASE pc = "page" \/ pc = "wait"
  <2>1. ASSUME opened
        PROVE  LastPage /\ done
    BY <1>0, <1>5, <2>1 DEF FirmwareInv, PhaseInv, OnPage, Waiting, LastPage
  <2>2. ASSUME opened
        PROVE  Whole'
    <3>1. FilePages \subseteq Pages /\ \A q \in FilePages : q < p + 1
      BY <1>3, <2>1, <2>2, LastFilePage DEF LastPage
    <3>2. PagesSoFar'
      BY <1>4, <2>1, <2>2 DEF LastPage
    <3> QED BY <1>3, <3>1, <3>2 DEF Whole, PagesSoFar
  <2>3. PhaseInv'
    BY <1>0, <1>1, <1>5, <2>1 DEF FirmwareInv, PhaseInv, OnPage, Waiting, AtRest
  <2> QED BY <1>0, <1>2, <2>2, <2>3 DEF FirmwareInv
<1>6. CASE pc = "pause"
  <2>1. PageFull /\ page_count = SPM_PAGESIZE /\ Pausing
    BY <1>0, <1>6 DEF FirmwareInv, PhaseInv, Pausing, InStep
  <2>2. offset = (p + 1) * SPM_PAGESIZE /\ offset <= FileSize /\ Complete(rx) /\ PagesSoFar /\ ~done
    BY <2>1 DEF PageFull, Complete, FirmwareInv, FirmwareTypeOK
  <2>3. PagesSoFar'
    BY <1>4, <2>2
  <2>4. InStep'
    <3>1. rx'.page * SPM_PAGESIZE = offset /\ vc' = "update"
      BY <1>0, <1>1, <1>3, <2>2
    <3>2. rx'.right /\ rx'.read < SPM_PAGESIZE
      BY <1>3, PageSize
    <3>3. offset' = rx'.page * SPM_PAGESIZE + rx'.read
      <4>1. PICK q \in Nat : q = rx'.page
        BY <1>3
      <4>2. q * SPM_PAGESIZE = q * SPM_PAGESIZE + 0
        BY PageSize
      <4> QED BY <1>0, <1>3, <3>1, <4>1, <4>2
    <3>4. byte_count' = (rx'.total_read + 1) % 256
      BY <1>0, <1>3, <2>1 DEF PageFull
    <3> QED BY <2>3, <3>1, <3>2, <3>3, <3>4 DEF InStep
  <2> QED
    BY <1>0, <1>1, <1>2, <1>3, <1>6, <2>1, <2>2, <2>4 DEF FirmwareInv, PhaseInv, Pausing
<1>7. ~(pc \in {"confirm", "open", "read", "copy", "stop"})
  BY <1>0 DEF FirmwareInv, PhaseInv, Confirming, Opening, Copying, Stopping, Taking, InStep
<1> QED
  BY <1>5, <1>6, <1>7 DEF FirmwareInv, FirmwareTypeOK

\* What a command may do to the voicecard.
LEMMA CommandTypes ==
  ASSUME FirmwareTypeOK, TakesCommand
  PROVE  /\ rx' = rx /\ done' \in BOOLEAN /\ reset_command_counter' \in 0..(CounterSize - 1)
         /\ flag' \in 0..255 /\ flash' \in [Pages -> {"old", "erased", "new", "garbage"}]
         /\ vc' \in {"boot", "blink", "sync", "update", "writing", "dance", "main", "app", "hung"}
<1>1. CASE vc = "app"
  <2>1. vc' = "boot" /\ flag' = 1 /\ UNCHANGED <<reset_command_counter, rx, done, flash>>
    BY <1>1 DEF TakesCommand, REQUESTED
  <2> QED BY <2>1 DEF FirmwareTypeOK
<1>2. CASE vc = "sync"
  <2>1. /\ reset_command_counter' = (reset_command_counter + 1) % CounterSize
        /\ UNCHANGED <<flag, vc, rx, done, flash>>
    BY <1>2 DEF TakesCommand
  <2>2. (reset_command_counter + 1) % CounterSize \in 0..(CounterSize - 1)
    BY PageSize DEF FirmwareTypeOK
  <2> QED BY <2>1, <2>2 DEF FirmwareTypeOK
<1>3. CASE vc = "update" /\ rx.read = 0
  <2>1. vc' = "dance" /\ done' = TRUE /\ UNCHANGED <<flag, reset_command_counter, rx, flash>>
    BY <1>3 DEF TakesCommand
  <2> QED BY <2>1 DEF FirmwareTypeOK
<1>4. CASE vc = "update" /\ rx.read # 0
  <2>1. rx.read > 0
    BY <1>4 DEF FirmwareTypeOK, RxType
  <2>2. /\ vc' = "writing" /\ done' = TRUE /\ rx' = rx
        /\ flash' = [flash EXCEPT ![rx.page] = "erased"]
        /\ UNCHANGED <<flag, reset_command_counter>>
    BY <1>4, <2>1 DEF TakesCommand, StartsPage
  <2> QED BY <2>2 DEF FirmwareTypeOK
<1>5. CASE vc = "writing"
  <2>1. done' = TRUE /\ UNCHANGED <<flag, vc, reset_command_counter, rx, flash>>
    BY <1>5 DEF TakesCommand
  <2> QED BY <2>1 DEF FirmwareTypeOK
<1>6. CASE vc \notin {"app", "sync", "update", "writing"}
  <2>1. UNCHANGED <<flag, vc, reset_command_counter, rx, done, flash>>
    BY <1>6 DEF TakesCommand, voicecard
  <2> QED BY <2>1 DEF FirmwareTypeOK
<1> QED
  BY <1>1, <1>2, <1>3, <1>4, <1>5, <1>6

LEMMA ByteTypes ==
  ASSUME FirmwareTypeOK, NEW at \in Int, TakesByte(at)
  PROVE  /\ rx' \in RxType /\ done' \in BOOLEAN /\ reset_command_counter' \in 0..(CounterSize - 1)
         /\ flag' \in 0..255 /\ flash' \in [Pages -> {"old", "erased", "new", "garbage"}]
         /\ vc' \in {"boot", "blink", "sync", "update", "writing", "dance", "main", "app", "hung"}
<1>1. CASE vc = "sync"
  <2>1. Received(NoUpdate, at) \in RxType
    BY NoUpdateFacts, ReceivedRx
  <2>2. CASE reset_command_counter >= kSyncCommands
    <3>1. /\ vc' = "update" /\ rx' = Received(NoUpdate, at)
          /\ UNCHANGED <<flag, reset_command_counter, done, flash>>
      BY <1>1, <2>2, PageSize DEF TakesByte, FirmwareTypeOK
    <3> QED BY <2>1, <3>1 DEF FirmwareTypeOK
  <2>3. CASE reset_command_counter < kSyncCommands
    <3>1. reset_command_counter' = 0 /\ UNCHANGED <<flag, vc, rx, done, flash>>
      BY <1>1, <2>3, PageSize DEF TakesByte, FirmwareTypeOK
    <3> QED BY <3>1, PageSize DEF FirmwareTypeOK
  <2> QED BY <2>2, <2>3, PageSize DEF FirmwareTypeOK
<1>2. CASE vc = "update"
  <2> DEFINE r == Updated(rx, at)
  <2>1. r \in RxType
    BY ByteRx DEF FirmwareTypeOK
  <2>2. /\ IF r.read = SPM_PAGESIZE THEN StartsPage(r, FALSE)
           ELSE rx' = r /\ UNCHANGED <<vc, done, flash>>
        /\ UNCHANGED <<flag, reset_command_counter>>
    BY <1>2 DEF TakesByte, Updated
  <2> HIDE DEF r
  <2>3. CASE r.read = SPM_PAGESIZE
    <3>1. /\ vc' = "writing" /\ done' = FALSE /\ rx' = r
          /\ flash' = [flash EXCEPT ![r.page] = "erased"]
      BY <2>2, <2>3 DEF StartsPage
    <3> QED BY <2>1, <2>2, <3>1 DEF FirmwareTypeOK
  <2>4. CASE r.read # SPM_PAGESIZE
    BY <2>1, <2>2, <2>4 DEF FirmwareTypeOK
  <2> QED BY <2>3, <2>4
<1>3. CASE vc \notin {"sync", "update"}
  <2>1. UNCHANGED <<flag, vc, reset_command_counter, rx, done, flash>>
    BY <1>3 DEF TakesByte, voicecard
  <2> QED BY <2>1 DEF FirmwareTypeOK
<1> QED
  BY <1>1, <1>2, <1>3

\* The page of the controller: it asks for the version, and starts an update.
LEMMA OnPageStep ==
  ASSUME FirmwareInv, UpdateScreen \/ EnterFirmwareUpdateMode \/ FindFirmwareFiles
  PROVE  FirmwareInv' /\ ~(vc' = "dance" /\ vc # "dance" /\ opened)
<1>1. FirmwareTypeOK /\ OnPage /\ pc = "page"
  BY DEF FirmwareInv, PhaseInv, UpdateScreen, EnterFirmwareUpdateMode, FindFirmwareFiles, Goes
<1>2. CASE UpdateScreen
  <2>1. TakesByte(-1) /\ UNCHANGED <<controller, floating>> /\ -1 \in Int
    BY <1>2 DEF UpdateScreen
  <2>2. UNCHANGED <<pc, card, found, confirmations, page_size_nibbles, byte_count, page_count,
                    offset, opened, floating>>
    BY <2>1 DEF controller
  <2>3. FirmwareTypeOK'
    BY <1>1, <2>1, <2>2, ByteTypes DEF FirmwareTypeOK
  <2>4. AtRest' /\ confirmations' = 0
    BY <1>1, <2>2 DEF OnPage, AtRest
  <2>5. /\ vc' = "dance" => vc = "dance"
        /\ vc' = "blink" => vc = "blink" /\ reset_command_counter' = reset_command_counter
    BY <2>1 DEF TakesByte, StartsPage, voicecard
  <2>6. CASE ~opened
    BY <1>1, <2>2, <2>3, <2>4, <2>5, <2>6 DEF FirmwareInv, PhaseInv, OnPage
  <2>7. CASE opened /\ vc = "sync"
    <3>1. reset_command_counter < kSyncCommands
      BY <1>1, <2>7, PageSize DEF OnPage, FirmwareTypeOK
    <3>2. vc' = "sync" /\ reset_command_counter' = 0
      BY <2>1, <2>7, <3>1, PageSize DEF TakesByte, FirmwareTypeOK
    <3> QED BY <1>1, <2>2, <2>3, <2>4, <3>2 DEF FirmwareInv, PhaseInv, OnPage
  <2>8. CASE opened /\ vc # "sync"
    <3>1. UNCHANGED <<flag, vc, reset_command_counter, rx, done, flash>>
      BY <1>1, <2>1, <2>8 DEF OnPage, TakesByte, voicecard
    <3> QED
      BY <1>1, <2>2, <2>3, <2>4, <2>8, <3>1
         DEF FirmwareInv, PhaseInv, OnPage, LastPage, Complete, PagesSoFar
  <2> QED BY <2>5, <2>6, <2>7, <2>8
<1>3. CASE EnterFirmwareUpdateMode
  <2>1. /\ TakesCommand /\ pc' = "wait"
        /\ UNCHANGED <<card, found, confirmations, page_size_nibbles, byte_count, page_count,
                       offset, opened, floating>>
    BY <1>3 DEF EnterFirmwareUpdateMode, Goes, Still, copying
  <2>2. FirmwareTypeOK'
    BY <1>1, <2>1, CommandTypes DEF FirmwareTypeOK
  <2>3. AtRest' /\ confirmations' = 0
    BY <1>1, <2>1 DEF OnPage, AtRest
  <2>4. /\ vc' # "update" /\ (vc' = "writing" => done' /\ (opened' => LastPage'))
        /\ vc' = "dance" /\ vc # "dance" => ~opened
        /\ vc' = "blink" => vc = "blink" /\ reset_command_counter' = reset_command_counter
    <3>1. CASE vc = "update"
      BY <1>1, <2>1, <3>1 DEF TakesCommand, StartsPage, OnPage, FirmwareTypeOK, RxType
    <3>2. CASE vc = "writing"
      <4>1. vc' = "writing" /\ done' = TRUE /\ UNCHANGED <<rx, flash>>
        BY <2>1, <3>2 DEF TakesCommand
      <4> QED BY <1>1, <2>1, <3>2, <4>1 DEF OnPage, LastPage, Complete, PagesSoFar
    <3>3. CASE vc = "app" \/ vc = "sync"
      BY <2>1, <3>3 DEF TakesCommand
    <3>4. CASE vc \notin {"update", "writing", "app", "sync"}
      BY <2>1, <3>4 DEF TakesCommand, voicecard
    <3> QED BY <3>1, <3>2, <3>3, <3>4
  <2> QED BY <2>1, <2>2, <2>3, <2>4 DEF FirmwareInv, PhaseInv, Waiting
<1>4. CASE FindFirmwareFiles
  <2>1. /\ UNCHANGED <<pc, card, confirmations, page_size_nibbles, byte_count, page_count,
                       offset, opened, floating, flag, vc, reset_command_counter, rx, done, flash>>
        /\ found' = card
    BY <1>4 DEF FindFirmwareFiles, copying, voicecard
  <2> QED
    BY <1>1, <2>1
       DEF FirmwareInv, FirmwareTypeOK, PhaseInv, OnPage, AtRest, LastPage, Complete, PagesSoFar
<1> QED
  BY <1>2, <1>3, <1>4

\* The confirmations: whoever replies with the size of a page listens.
LEMMA ConfirmStep ==
  ASSUME FirmwareInv, Waited \/ Confirm \/ Confirmed \/ Open
  PROVE  FirmwareInv' /\ (vc' = "dance" => vc = "dance")
<1>1. CASE Waited
  <2>1. /\ pc = "wait" /\ pc' = "confirm" /\ vc \notin {"boot", "writing"}
        /\ UNCHANGED <<card, found, confirmations, page_size_nibbles, byte_count, page_count,
                       offset, opened, floating, flag, vc, reset_command_counter, rx, done, flash>>
    BY <1>1 DEF Waited, Goes, Still, copying, voicecard
  <2>2. FirmwareTypeOK'
    BY <2>1 DEF FirmwareInv, FirmwareTypeOK
  <2>3. Confirming'
    BY <2>1 DEF FirmwareInv, PhaseInv, Waiting, Confirming, AtRest, Taking
  <2> QED BY <2>1, <2>2, <2>3 DEF FirmwareInv, PhaseInv
<1>2. CASE Confirm
  <2>1. /\ pc = "confirm" /\ pc' = "confirm" /\ confirmations < kConfirmations /\ TakesCommand
        /\ confirmations' = confirmations + 1 /\ page_size_nibbles' = CommandReply
        /\ UNCHANGED <<card, found, byte_count, page_count, offset, opened, floating>>
    BY <1>2 DEF Confirm, Goes, Still, copying
  <2>2. FirmwareTypeOK /\ Confirming
    BY <2>1 DEF FirmwareInv, PhaseInv
  <2>3. FirmwareTypeOK'
    <3>1. confirmations' \in 0..kConfirmations /\ page_size_nibbles' \in Nat
      BY <2>1, <2>2, PageSize DEF FirmwareTypeOK, CommandReply
    <3> QED BY <2>1, <2>2, <3>1, CommandTypes DEF FirmwareTypeOK
  <2>4. AtRest'
    BY <2>1, <2>2 DEF Confirming, AtRest
  <2>5. ~Taking' /\ (vc' = "sync" <=> vc = "sync") /\ (vc' = "dance" => vc = "dance")
        /\ (vc' = "blink" => vc = "blink" /\ reset_command_counter' = reset_command_counter)
    BY <2>1, <2>2 DEF Confirming, Taking, TakesCommand, voicecard
  <2>6. Answered'
    BY <2>1, <2>2, <2>5, PageSize DEF Answered, CommandReply, FirmwareTypeOK
  <2> QED BY <2>1, <2>2, <2>3, <2>4, <2>5, <2>6 DEF FirmwareInv, PhaseInv, Confirming
<1>3. CASE Confirmed
  <2>1. /\ pc = "confirm" /\ confirmations = kConfirmations
        /\ UNCHANGED <<card, found, opened, floating, losses, flag, vc, reset_command_counter, rx,
                       done, flash>>
    BY <1>3 DEF Confirmed, Still, voicecard
  <2>2. FirmwareTypeOK /\ AtRest /\ ~Taking /\ Answered
    BY <2>1, PageSize DEF FirmwareInv, PhaseInv, Confirming
  <2>3. CASE page_size_nibbles = 0
    <3>1. Return
      BY <1>3, <2>3 DEF Confirmed
    <3>2. FirmwareTypeOK'
      BY <2>1, <2>2, <3>1, PageSize DEF FirmwareTypeOK, Return
    <3>3. vc = "sync" => reset_command_counter = 0
      BY <2>2, <2>3, PageSize DEF Answered, FirmwareTypeOK
    <3>4. OnPage'
      BY <2>1, <2>2, <3>1, <3>3 DEF OnPage, AtRest, Return, Taking
    <3> QED BY <2>1, <3>1, <3>2, <3>4 DEF FirmwareInv, PhaseInv, Return
  <2>4. CASE page_size_nibbles # 0
    <3>1. /\ pc' = "open"
          /\ UNCHANGED <<confirmations, page_size_nibbles, byte_count, page_count, offset>>
      BY <1>3, <2>4 DEF Confirmed, copying
    <3>2. FirmwareTypeOK'
      BY <2>1, <2>2, <3>1 DEF FirmwareTypeOK
    <3>3. Opening'
      BY <2>1, <2>2, <2>4, <3>1 DEF Opening, AtRest, Taking, Answered
    <3> QED BY <2>1, <3>1, <3>2, <3>3 DEF FirmwareInv, PhaseInv
  <2> QED BY <2>3, <2>4
<1>4. CASE Open
  <2>1. /\ pc = "open" /\ pc' = (IF card THEN "read" ELSE "stop") /\ opened' = card
        /\ UNCHANGED <<card, found, confirmations, page_size_nibbles, byte_count, page_count,
                       offset, floating, flag, vc, reset_command_counter, rx, done, flash>>
    BY <1>4 DEF Open, Goes, Still, copying, voicecard
  <2>2. FirmwareTypeOK /\ Opening
    BY <2>1 DEF FirmwareInv, PhaseInv
  <2>3. FirmwareTypeOK'
    BY <2>1, <2>2 DEF FirmwareTypeOK
  <2>4. CASE card
    <3>1. Copying'
      BY <2>1, <2>2, <2>4, PageSize DEF Opening, Copying, AtRest, Taking, Answered
    <3> QED BY <2>1, <2>3, <2>4, <3>1 DEF FirmwareInv, PhaseInv
  <2>5. CASE ~card
    <3>1. Stopping'
      BY <2>1, <2>2, <2>5 DEF Opening, Stopping, Taking
    <3> QED BY <2>1, <2>3, <2>5, <3>1 DEF FirmwareInv, PhaseInv
  <2> QED BY <2>4, <2>5, <2>2 DEF FirmwareTypeOK
<1> QED
  BY <1>1, <1>2, <1>3, <1>4

\* The loop of SpiCopy: what it reads, and its pauses.
LEMMA LoopStep ==
  ASSUME FirmwareInv, Read \/ Pause
  PROVE  FirmwareInv' /\ UNCHANGED vc
<1>1. CASE Read
  <2>1. /\ pc = "read" /\ pc' = (IF card THEN "copy" ELSE "read")
        /\ UNCHANGED <<card, found, confirmations, page_size_nibbles, byte_count, page_count,
                       offset, opened, floating, flag, vc, reset_command_counter, rx, done, flash>>
    BY <1>1 DEF Read, Goes, Still, copying, voicecard
  <2>2. FirmwareTypeOK /\ Copying /\ (vc = "blink" => reset_command_counter = 0)
    BY <2>1 DEF FirmwareInv, PhaseInv
  <2>3. FirmwareTypeOK'
    BY <2>1, <2>2 DEF FirmwareTypeOK
  <2>4. Copying'
    BY <2>1, <2>2 DEF Copying, AtRest, Taking, Answered, InStep, PagesSoFar
  <2> QED BY <2>1, <2>2, <2>3, <2>4 DEF FirmwareInv, PhaseInv
<1>2. CASE Pause
  <2>1. /\ pc = "pause" /\ pc' = (IF offset = FileSize THEN "stop" ELSE "read")
        /\ page_count = page_size_nibbles * 16 => vc # "writing"
        /\ page_count' = IF page_count = page_size_nibbles * 16 THEN 0 ELSE page_count
        /\ UNCHANGED <<card, found, confirmations, page_size_nibbles, byte_count,
                       offset, opened, floating, flag, vc, reset_command_counter, rx, done, flash>>
    BY <1>2 DEF Pause, PageCount, Goes, Still, voicecard
  <2>2. FirmwareTypeOK /\ Pausing
    BY <2>1 DEF FirmwareInv, PhaseInv
  <2>3. FirmwareTypeOK'
    BY <2>1, <2>2 DEF FirmwareTypeOK
  <2>4. page_size_nibbles * 16 = SPM_PAGESIZE
    BY <2>2, PageSize DEF Pausing
  <2>5. InStep /\ page_count' = rx.read
    BY <2>1, <2>2, <2>4, PageSize DEF Pausing, InStep, PageFull, FirmwareTypeOK, RxType
  <2>6. InStep' /\ page_count' = rx'.read /\ vc' = "update"
    BY <2>1, <2>5 DEF InStep, PagesSoFar
  <2>7. CASE offset = FileSize
    BY <2>1, <2>2, <2>3, <2>6, <2>7 DEF FirmwareInv, PhaseInv, Stopping, Pausing
  <2>8. CASE offset # FileSize
    <3>1. offset < FileSize
      BY <2>2, <2>8, PageSize DEF FirmwareTypeOK
    <3>2. Copying'
      BY <2>1, <2>2, <2>6, <3>1, PageSize DEF Copying, Pausing
    <3> QED BY <2>1, <2>3, <2>6, <2>8, <3>2 DEF FirmwareInv, PhaseInv
  <2> QED BY <2>1, <2>7, <2>8
<1> QED
  BY <1>1, <1>2

\* One byte of the file: the first one wakes the voicecard, or is refused; each
\* other one is taken in its place.
LEMMA CopyStep ==
  ASSUME FirmwareInv, WriteAsNibbles
  PROVE  FirmwareInv' /\ (vc' = "dance" => vc = "dance")
<1>1. /\ pc = "copy" /\ TakesByte(offset)
      /\ IF ByteReply # byte_count
         THEN pc' = "stop" /\ UNCHANGED <<byte_count, page_count, offset>>
         ELSE /\ offset' = offset + 1 /\ page_count' = page_count + 1
              /\ byte_count' = (byte_count + 1) % 256
              /\ pc' = IF (offset + 1) % 4 = 0 \/ offset + 1 = FileSize THEN "pause" ELSE "copy"
      /\ UNCHANGED <<card, found, confirmations, page_size_nibbles, opened, floating>>
  BY DEF WriteAsNibbles, Still, copying
<1>2. FirmwareTypeOK /\ Copying /\ offset \in Nat /\ (vc = "blink" => reset_command_counter = 0)
  BY <1>1, PageSize DEF FirmwareInv, PhaseInv, FirmwareTypeOK
<1>3. FirmwareTypeOK'
  <2>1. byte_count' \in 0..255 /\ page_count' \in Nat /\ offset' \in 0..FileSize
    <3>1. (byte_count + 1) % 256 \in 0..255 /\ offset + 1 \in 0..FileSize
      BY <1>2, PageSize DEF FirmwareTypeOK, Copying
    <3> QED BY <1>1, <1>2, <3>1 DEF FirmwareTypeOK
  <2>2. pc' \in {"stop", "pause", "copy"}
    BY <1>1
  <2>3. offset \in Int
    BY <1>2
  <2> QED BY <1>1, <1>2, <2>1, <2>2, <2>3, ByteTypes DEF FirmwareTypeOK
<1>4. CASE AtRest /\ ~Taking /\ Answered
  <2>1. CASE vc = "sync" /\ reset_command_counter >= kSyncCommands
    <3>1. /\ vc' = "update" /\ rx' = Received(NoUpdate, offset)
          /\ UNCHANGED <<flag, reset_command_counter, done, flash>>
      BY <1>1, <1>2, <2>1, PageSize DEF TakesByte, FirmwareTypeOK
    <3>2. offset = 0 /\ byte_count = 0 /\ page_count = 0 /\ ByteReply = 0
      BY <1>2, <1>4, <2>1, PageSize DEF AtRest, ByteReply, FirmwareTypeOK
    <3>3. offset' = 1 /\ page_count' = 1 /\ byte_count' = 1 /\ pc' \in {"pause", "copy"}
          /\ (pc' = "copy" => offset' < FileSize)
      BY <1>1, <1>2, <3>2, PageSize DEF FirmwareTypeOK, Copying
    <3>4. rx'.page = 0 /\ rx'.read = 1 /\ rx'.total_read = 0 /\ rx'.right
      <4>1. NoUpdate \in RxType /\ offset \in Int
        BY <1>2, NoUpdateFacts
      <4>2. /\ Received(NoUpdate, offset).page = NoUpdate.page
            /\ Received(NoUpdate, offset).read = NoUpdate.read + 1
            /\ Received(NoUpdate, offset).total_read = NoUpdate.total_read
            /\ Received(NoUpdate, offset).right
                  = (NoUpdate.right /\ offset = NoUpdate.page * SPM_PAGESIZE + NoUpdate.read)
        BY <4>1, ReceivedRx
      <4>3. offset = NoUpdate.page * SPM_PAGESIZE + NoUpdate.read
        BY <3>2, NoUpdateFacts, PageSize
      <4>4. Received(NoUpdate, offset).right
        BY <4>2, <4>3, NoUpdateFacts
      <4> QED BY <3>1, <4>2, <4>4, NoUpdateFacts
    <3>5. page_size_nibbles = SPM_PAGESIZE \div 16
      BY <1>2, <1>4, <2>1, PageSize DEF Answered, FirmwareTypeOK
    <3>6. InStep'
      BY <3>1, <3>3, <3>4, PageSize DEF InStep, PagesSoFar, Pages
    <3>7. page_size_nibbles' = SPM_PAGESIZE \div 16 /\ page_size_nibbles' # 0 /\ opened'
      BY <1>1, <1>2, <3>5, PageSize DEF Copying
    <3>8. CASE pc' = "copy"
      <4>1. Copying'
        BY <3>3, <3>4, <3>6, <3>7, <3>8 DEF Copying
      <4> QED BY <1>3, <3>1, <3>8, <4>1 DEF FirmwareInv, PhaseInv
    <3>9. CASE pc' = "pause"
      <4>1. Pausing'
        BY <3>3, <3>4, <3>6, <3>7 DEF Pausing
      <4> QED BY <1>3, <3>1, <3>9, <4>1 DEF FirmwareInv, PhaseInv
    <3> QED BY <3>1, <3>3, <3>8, <3>9
  <2>2. CASE ~(vc = "sync" /\ reset_command_counter >= kSyncCommands)
    <3>1. /\ UNCHANGED <<vc, rx, done, flash>>
          /\ vc = "sync" => reset_command_counter' = 0
          /\ vc # "sync" => reset_command_counter' = reset_command_counter
      <4>1. CASE vc = "sync"
        <5>1. reset_command_counter < kSyncCommands
          BY <1>2, <2>2, <4>1, PageSize DEF FirmwareTypeOK
        <5>2. reset_command_counter' = 0 /\ UNCHANGED <<flag, vc, rx, done, flash>>
          BY <1>1, <1>2, <4>1, <5>1, PageSize DEF TakesByte, FirmwareTypeOK
        <5> QED BY <4>1, <5>2
      <4>2. CASE vc # "sync"
        BY <1>1, <1>4, <4>2 DEF TakesByte, Taking, voicecard
      <4> QED BY <4>1, <4>2
    <3>2. ByteReply # byte_count
      <4>1. CASE vc = "sync"
        <5>1. reset_command_counter < kSyncCommands
          BY <1>2, <2>2, <4>1, PageSize DEF FirmwareTypeOK
        <5>2. ByteReply = SPM_PAGESIZE \div 16
          BY <1>2, <4>1, <5>1, PageSize DEF ByteReply, FirmwareTypeOK
        <5> QED BY <1>4, <5>2, PageSize DEF AtRest
      <4>2. CASE vc # "sync"
        <5>1. ByteReply = floating
          BY <1>4, <4>2 DEF ByteReply, Taking
        <5> QED BY <1>2, <1>4, <4>2, <5>1, PageSize DEF AtRest, Answered, Copying
      <4> QED BY <4>1, <4>2
    <3>3. pc' = "stop"
      BY <1>1, <3>2
    <3>4. Stopping'
      BY <1>4, <3>1 DEF Stopping, Taking
    <3> QED BY <1>2, <1>3, <3>1, <3>3, <3>4 DEF FirmwareInv, PhaseInv
  <2> QED BY <2>1, <2>2
<1>5. CASE offset > 0 /\ page_size_nibbles = SPM_PAGESIZE \div 16 /\ InStep /\ page_count = rx.read
  <2> DEFINE r == Updated(rx, offset)
  <2>1. /\ r \in RxType /\ r.page = rx.page /\ r.read = rx.read + 1
        /\ r.total_read = (rx.total_read + 1) % 256
        /\ r.right = (rx.right /\ offset = rx.page * SPM_PAGESIZE + rx.read)
    <3>1. rx \in RxType /\ offset \in Int
      BY <1>2 DEF FirmwareTypeOK
    <3> QED BY <3>1, ByteRx
  <2>2. /\ IF r.read = SPM_PAGESIZE THEN StartsPage(r, FALSE)
           ELSE rx' = r /\ UNCHANGED <<vc, done, flash>>
        /\ UNCHANGED <<flag, reset_command_counter>>
    BY <1>1, <1>5 DEF TakesByte, InStep, Updated
  <2> HIDE DEF r
  <2>3. ByteReply = byte_count
    BY <1>5 DEF ByteReply, InStep
  <2>4. /\ rx.page \in Nat /\ rx.read \in Nat /\ rx.total_read \in 0..255
        /\ page_count = rx.read /\ rx.right /\ r.right
        /\ offset = rx.page * SPM_PAGESIZE + rx.read /\ rx.read < SPM_PAGESIZE
        /\ byte_count = r.total_read
    BY <1>2, <1>5, <2>1 DEF InStep, FirmwareTypeOK, RxType
  <2>5. /\ offset' = offset + 1 /\ page_count' = r.read /\ byte_count' = (r.total_read + 1) % 256
        /\ pc' = IF (offset + 1) % 4 = 0 \/ offset + 1 = FileSize THEN "pause" ELSE "copy"
    BY <1>1, <2>1, <2>3, <2>4
  <2>6. /\ offset' > 0 /\ opened' /\ page_size_nibbles' = SPM_PAGESIZE \div 16
        /\ page_size_nibbles' # 0 /\ rx' = r
    BY <1>1, <1>2, <1>5, <2>2, <2>5, PageSize DEF Copying, StartsPage
  <2>7. CASE r.read = SPM_PAGESIZE
    <3>1. /\ vc' = "writing" /\ done' = FALSE
          /\ flash' = [flash EXCEPT ![r.page] = "erased"]
      BY <2>2, <2>7 DEF StartsPage
    <3>2. offset + 1 = (rx.page + 1) * SPM_PAGESIZE /\ (offset + 1) % 4 = 0
      <4>1. offset + 1 = rx.page * SPM_PAGESIZE + SPM_PAGESIZE
        BY <1>2, <2>1, <2>4, <2>7, PageSize
      <4> QED BY <2>4, <4>1, PageEnds
    <3>3. PagesSoFar'
      BY <1>2, <1>5, <2>1, <2>4, <2>6, <3>1 DEF InStep, PagesSoFar, FirmwareTypeOK, Pages
    <3>4. PageFull' /\ page_count' = SPM_PAGESIZE
      BY <2>1, <2>4, <2>5, <2>6, <2>7, <3>1, <3>2, <3>3 DEF PageFull
    <3> QED
      BY <1>3, <2>5, <2>6, <3>1, <3>2, <3>4 DEF FirmwareInv, PhaseInv, Pausing
  <2>8. CASE r.read # SPM_PAGESIZE
    <3>1. UNCHANGED <<vc, done, flash>> /\ vc = "update"
      BY <1>5, <2>2, <2>8 DEF InStep
    <3>2. InStep'
      BY <1>5, <2>1, <2>4, <2>5, <2>6, <2>8, <3>1, PageSize DEF InStep, PagesSoFar
    <3>3. pc' = "copy" => offset' < FileSize
      BY <1>2, <2>5, PageSize DEF Copying, FirmwareTypeOK
    <3> QED
      BY <1>3, <2>5, <2>6, <3>1, <3>2, <3>3 DEF FirmwareInv, PhaseInv, Copying, Pausing
  <2> QED BY <2>7, <2>8
<1> QED
  BY <1>2, <1>4, <1>5 DEF Copying

\* The end of SpiCopy.
LEMMA StopStep ==
  ASSUME FirmwareInv, Stop
  PROVE  FirmwareInv' /\ (vc # "dance" /\ vc' = "dance" /\ opened => Whole')
<1>1. /\ pc = "stop" /\ Return /\ TakesCommand /\ UNCHANGED <<card, found, opened, floating>>
  BY DEF Stop, Still
<1>2. FirmwareTypeOK /\ Stopping /\ (vc = "blink" => reset_command_counter = 0)
  BY <1>1 DEF FirmwareInv, PhaseInv
<1>3. FirmwareTypeOK'
  BY <1>1, <1>2, CommandTypes, PageSize DEF FirmwareTypeOK, Return
<1>4. AtRest' /\ confirmations' = 0 /\ pc' = "page"
  BY <1>1 DEF Return, AtRest
<1>5. CASE ~Taking /\ (opened /\ vc = "sync" => reset_command_counter = 0)
  <2>1. CASE vc = "sync"
    <3>1. /\ reset_command_counter' = (reset_command_counter + 1) % CounterSize
          /\ UNCHANGED <<flag, vc, rx, done, flash>>
      BY <1>1, <2>1 DEF TakesCommand
    <3>2. opened => reset_command_counter' = 1
      BY <1>5, <2>1, <3>1, PageSize
    <3> QED BY <1>1, <1>3, <1>4, <2>1, <3>1, <3>2, PageSize DEF FirmwareInv, PhaseInv, OnPage
  <2>2. CASE vc = "app"
    BY <1>1, <1>3, <1>4, <2>2 DEF TakesCommand, FirmwareInv, PhaseInv, OnPage
  <2>3. CASE vc \notin {"sync", "app"}
    <3>1. UNCHANGED <<flag, vc, reset_command_counter, rx, done, flash>>
      BY <1>1, <1>5, <2>3 DEF TakesCommand, Taking, voicecard
    <3> QED
      BY <1>1, <1>2, <1>3, <1>4, <1>5, <2>3, <3>1 DEF FirmwareInv, PhaseInv, OnPage, Taking
  <2> QED BY <2>1, <2>2, <2>3
<1>6. CASE opened /\ InStep /\ offset = FileSize
  <2>1. /\ vc = "update" /\ rx.right /\ PagesSoFar /\ rx.page \in Nat /\ rx.read \in Nat
        /\ FileSize = rx.page * SPM_PAGESIZE + rx.read /\ rx.read < SPM_PAGESIZE
    BY <1>2, <1>6 DEF InStep, FirmwareTypeOK, RxType
  <2>2. CASE rx.read = 0
    <3>1. vc' = "dance" /\ done' = TRUE /\ UNCHANGED <<flag, reset_command_counter, rx, flash>>
      BY <1>1, <2>1, <2>2 DEF TakesCommand
    <3>2. FileSize = rx.page * SPM_PAGESIZE
      BY <2>1, <2>2, PageSize
    <3>3. FilePages \subseteq Pages /\ \A p \in FilePages : p < rx.page
      <4>1. PICK page \in Nat : page = rx.page
        BY <2>1
      <4>2. FileSize <= page * SPM_PAGESIZE
        <5>1. FileSize \in Int
          BY PageSize
        <5> QED BY <3>2, <4>1, <5>1
      <4>3. \A p \in FilePages : p < page
        BY <4>2, LastFilePage
      <4> QED BY <4>1, <4>3, LastFilePage
    <3>4. Whole'
      BY <2>1, <3>1, <3>3 DEF Whole, PagesSoFar
    <3> QED BY <1>1, <1>3, <1>4, <3>1, <3>4 DEF FirmwareInv, PhaseInv, OnPage
  <2>3. CASE rx.read # 0
    <3>1. /\ vc' = "writing" /\ done' = TRUE /\ rx' = rx
          /\ flash' = [flash EXCEPT ![rx.page] = "erased"]
      BY <1>1, <2>1, <2>3 DEF TakesCommand, StartsPage
    <3>2. FileSize <= (rx.page + 1) * SPM_PAGESIZE
      BY <2>1, PageEnds, PageSize
    <3>3. PagesSoFar'
      BY <1>2, <2>1, <3>1 DEF PagesSoFar, FirmwareTypeOK, Pages
    <3>4. LastPage'
      BY <2>1, <3>1, <3>2, <3>3 DEF LastPage, Complete
    <3> QED BY <1>1, <1>3, <1>4, <3>1, <3>4 DEF FirmwareInv, PhaseInv, OnPage
  <2> QED BY <2>2, <2>3
<1> QED
  BY <1>2, <1>5, <1>6 DEF Stopping

LEMMA CardStep ==
  ASSUME FirmwareInv, PullOrPutCard \/ UNCHANGED vars
  PROVE  FirmwareInv' /\ UNCHANGED vc
<1>1. /\ UNCHANGED <<pc, found, confirmations, page_size_nibbles, byte_count, page_count, offset,
                     opened, flag, vc, reset_command_counter, rx, done, flash, floating>>
      /\ card' \in {card, ~card}
  BY DEF PullOrPutCard, vars, controller, voicecard, copying
<1>2. FirmwareTypeOK'
  <2>1. card' \in BOOLEAN
    BY <1>1 DEF FirmwareInv, FirmwareTypeOK
  <2> QED BY <1>1, <2>1 DEF FirmwareInv, FirmwareTypeOK
<1>3. /\ AtRest' = AtRest /\ Taking' = Taking /\ Answered' = Answered /\ InStep' = InStep
      /\ PageFull' = PageFull /\ LastPage' = LastPage
  BY <1>1 DEF AtRest, Taking, Answered, InStep, PageFull, LastPage, PagesSoFar, Complete
<1>4. /\ OnPage => OnPage'
      /\ Waiting => Waiting'
      /\ Confirming => Confirming'
      /\ Opening => Opening'
      /\ Copying => Copying'
      /\ Pausing => Pausing'
      /\ Stopping => Stopping'
  BY <1>1, <1>3 DEF OnPage, Waiting, Confirming, Opening, Copying, Pausing, Stopping
<1>5. /\ pc \in {"page", "wait", "confirm", "open", "read", "copy", "pause", "stop"}
      /\ PhaseInv /\ UNCHANGED <<pc, vc, reset_command_counter>>
  BY <1>1 DEF FirmwareInv, FirmwareTypeOK
<1>6. PhaseInv'
  <2>1. CASE pc = "page"
    BY <1>4, <1>5, <2>1 DEF PhaseInv
  <2>2. CASE pc = "wait"
    BY <1>4, <1>5, <2>2 DEF PhaseInv
  <2>3. CASE pc = "confirm"
    BY <1>4, <1>5, <2>3 DEF PhaseInv
  <2>4. CASE pc = "open"
    BY <1>4, <1>5, <2>4 DEF PhaseInv
  <2>5. CASE pc \in {"read", "copy"}
    BY <1>4, <1>5, <2>5 DEF PhaseInv
  <2>6. CASE pc = "pause"
    BY <1>4, <1>5, <2>6 DEF PhaseInv
  <2>7. CASE pc = "stop"
    BY <1>4, <1>5, <2>7 DEF PhaseInv
  <2> QED BY <1>5, <2>1, <2>2, <2>3, <2>4, <2>5, <2>6, <2>7
<1> QED
  BY <1>2, <1>5, <1>6 DEF FirmwareInv

\* UpdateEndsWhole holds for every size of page and file: whatever was tried before, and with
\* power losses and a card that is pulled at any moment, a copy that was opened ends the update
\* only with the whole file in the flash (SpiCopy, and the bootloader of the voicecard).
THEOREM UpdatesEndWhole == Spec => UpdateEndsWhole
<1>1. Init => FirmwareInv
  BY StartInv
<1>2. FirmwareInv /\ [Next]_vars =>
         FirmwareInv' /\ (vc # "dance" /\ vc' = "dance" /\ opened => Whole')
  <2> SUFFICES ASSUME FirmwareInv, [Next]_vars
               PROVE  FirmwareInv' /\ (vc # "dance" /\ vc' = "dance" /\ opened => Whole')
    OBVIOUS
  <2>1. CASE Boot \/ Blinked \/ Danced \/ Main
    <3>1. vc # "dance" => vc' # "dance"
      BY <2>1 DEF Boot, Blinked, Danced, Main, Decide, Run
    <3> QED BY <2>1, <3>1, VoicecardStep
  <2>2. CASE PageWritten
    BY <2>2, PageStep
  <2>3. CASE FindFirmwareFiles \/ UpdateScreen \/ EnterFirmwareUpdateMode
    BY <2>3, OnPageStep
  <2>4. CASE Waited \/ Confirm \/ Confirmed \/ Open
    BY <2>4, ConfirmStep
  <2>5. CASE Read \/ Pause
    BY <2>5, LoopStep
  <2>6. CASE WriteAsNibbles
    BY <2>6, CopyStep
  <2>7. CASE Stop
    BY <2>7, StopStep
  <2>8. CASE PullOrPutCard \/ UNCHANGED vars
    BY <2>8, CardStep
  <2>9. CASE PowerLoss \/ PowerCycle
    <3>1. vc' = "boot"
      BY <2>9 DEF PowerLoss, PowerCycle, PowerOn
    <3> QED BY <2>9, <3>1, PowerStep
  <2> QED
    BY <2>1, <2>2, <2>3, <2>4, <2>5, <2>6, <2>7, <2>8, <2>9 DEF Next, VoicecardRuns
<1> QED
  BY <1>1, <1>2, PTL DEF Spec, UpdateEndsWhole

-----------------------------------------------------------------------------
(* The bus (VoicecardLink): what the controller may have left to do.       *)

\* The instructions that are not about the SD card.
Plain == [card : Cards, op : {"put", "spi", "block", "ask"}, byte : 0..255]
             \cup [op : {"delay"}, left : Nat] \cup [op : {"flush"}]
Quiet == \A p \in 0..1 : tx[p] = <<>>

\* Inductive: the card has the bus only at the end of its session, which began with a flush,
\* and what could fill the buffers is in no such operation.
BusOK ==
    /\ tx \in [0..1 -> Seq(Cards \X (0..255))] /\ sdBusy \in BOOLEAN
    /\ \/ todo \in Seq(Plain) /\ sdBusy = FALSE
       \/ todo = SdSession /\ sdBusy = FALSE
       \/ todo = <<Sd(TRUE), Sd(FALSE)>> /\ sdBusy = FALSE /\ Quiet
       \/ todo = <<Sd(FALSE)>> /\ Quiet

\* Joining sequences over a set gives a sequence over it.
LEMMA FlattenType ==
  ASSUME NEW S, NEW n \in Nat \ {0}, NEW seqs \in [1..n -> Seq(S)]
  PROVE  FlattenSeq(seqs) \in Seq(S)
<1> DEFINE G == [i \in 1..n |-> [s \in Seq(S) |-> s \o seqs[i]]]
           f == CHOOSE x : x = [i \in 1..n |-> IF i = 1 THEN seqs[i] ELSE x[i - 1] \o seqs[i]]
<1>1. Len(seqs) = n
  OBVIOUS
<1>2. FlattenSeq(seqs) = f[n]
  BY <1>1, ZenonT(30) DEF FlattenSeq
<1>3. PICK g \in [0..n -> Seq(S)] : Recurs(g, n, <<>>, G)
  <2>1. \A i \in 1..n : \A s \in Seq(S) : s \o seqs[i] \in Seq(S)
    OBVIOUS
  <2>2. G \in [1..n -> [Seq(S) -> Seq(S)]] /\ <<>> \in Seq(S)
    BY <2>1
  <2>3. n \in Nat
    OBVIOUS
  <2> HIDE DEF G
  <2>4. \E g \in [0..n -> Seq(S)] : Recurs(g, n, <<>>, G)
    BY <2>2, <2>3, RecursiveFunction
  <2> QED BY <2>4
<1>4. ASSUME NEW i \in 1..n
      PROVE  g[i] = g[i - 1] \o seqs[i] /\ seqs[i] \in Seq(S) /\ g[i - 1] \in Seq(S)
  <2>1. i \in 0..n /\ i # 0 /\ i - 1 \in 0..n /\ i \in Nat
    OBVIOUS
  <2>2. seqs[i] \in Seq(S) /\ g[i - 1] \in Seq(S)
    BY <2>1
  <2>3. g[i] = G[i][g[i - 1]]
    <3> HIDE DEF G
    <3> QED BY <1>3, <2>1 DEF Recurs
  <2> QED BY <2>2, <2>3
<1> DEFINE h == [i \in 1..n |-> g[i]]
<1>5. h = [i \in 1..n |-> IF i = 1 THEN seqs[i] ELSE h[i - 1] \o seqs[i]]
  <2>1. ASSUME NEW i \in 1..n
        PROVE  g[i] = IF i = 1 THEN seqs[i] ELSE h[i - 1] \o seqs[i]
    <3>1. i = 1 => g[i - 1] = <<>>
      BY <1>3 DEF Recurs
    <3>2. i # 1 => i - 1 \in 1..n /\ h[i - 1] = g[i - 1]
      OBVIOUS
    <3>3. <<>> \o seqs[i] = seqs[i]
      BY <1>4, SMTT(40)
    <3> HIDE DEF h
    <3> QED BY <1>4, <3>1, <3>2, <3>3
  <2> QED BY <2>1
<1>6. f = [i \in 1..n |-> IF i = 1 THEN seqs[i] ELSE f[i - 1] \o seqs[i]]
  <2> HIDE DEF h
  <2> QED BY <1>5, Zenon
<1> HIDE DEF f, G, h
<1> DEFINE T == {i \in 0..n : i = 0 \/ f[i] \in Seq(S)}
<1>7. 0 \in T
  OBVIOUS
<1>8. ASSUME NEW i \in 1..n, i - 1 \in T
      PROVE  i \in T
  <2>1. f[i] = (IF i = 1 THEN seqs[i] ELSE f[i - 1] \o seqs[i]) /\ i \in 0..n
    <3> DEFINE join(j) == IF j = 1 THEN seqs[j] ELSE f[j - 1] \o seqs[j]
    <3>1. f = [j \in 1..n |-> join(j)]
      BY <1>6
    <3> HIDE DEF join
    <3>2. f[i] = join(i) /\ i \in 0..n
      BY <3>1
    <3> QED BY <3>2 DEF join
  <2>2. i # 1 => f[i - 1] \in Seq(S)
    BY <1>8
  <2>3. i # 1 => f[i - 1] \o seqs[i] \in Seq(S)
    BY <1>4, <2>2, SeqFacts
  <2> QED BY <1>4, <2>1, <2>3
<1>9. \A i \in 0..n : i \in T
  <2> HIDE DEF T
  <2> QED BY <1>7, <1>8, InductionUpTo
<1> QED BY <1>2, <1>9

-----------------------------------------------------------------------------
LEMMA PlainTypes ==
    ASSUME NEW c \in Cards, NEW b \in 0..255, NEW n \in Nat
    PROVE  /\ Put(c, b) \in Plain /\ Spi(c, b) \in Plain /\ Block(c, b) \in Plain
           /\ Ask(c) \in Plain /\ Delay(n) \in Plain /\ Flush \in Plain
  <1>1. 255 \in 0..255
    OBVIOUS
  <1> QED BY <1>1 DEF Put, Spi, Block, Ask, Delay, Flush, Plain

LEMMA ProgramTypes ==
    ASSUME NEW c \in Cards
    PROVE  /\ \A bytes \in Seq(0..255) : Write(c, bytes) \in Seq(Plain)
           /\ SyncCard(c) \in Seq(Plain) /\ Version(c) \in Seq(Plain)
           /\ WriteBlock(c) \in Seq(Plain)
  <1>1. PauseDelay \in Nat /\ BlockDelay \in Nat /\ SettleDelay \in Nat
    BY LinkAssumption
  <1>2. ASSUME NEW x \in Plain
        PROVE  Transaction(x) \in Seq(Plain)
    <2>1. Flush \in Plain /\ Delay(PauseDelay) \in Plain
      BY <1>1, PlainTypes, 0 \in 0..255
    <2> QED BY <2>1 DEF Transaction
  <1>3. SyncCard(c) \in Seq(Plain)
    <2> DEFINE t == Transaction(Spi(c, SYNC))
               s == [i \in 1..4 |-> t]
    <2>1. t \in Seq(Plain)
      BY <1>2, PlainTypes, 255 \in 0..255, 0 \in Nat DEF SYNC
    <2> HIDE DEF t
    <2>2. s \in [1..4 -> Seq(Plain)] /\ 4 \in Nat \ {0}
      BY <2>1
    <2> HIDE DEF s
    <2>3. FlattenSeq(s) \in Seq(Plain)
      BY <2>2, FlattenType
    <2> QED BY <2>3 DEF s, t, SyncCard
  <1>4. ASSUME NEW bytes \in Seq(0..255)
        PROVE  Write(c, bytes) \in Seq(Plain)
    <2>1. \A i \in 1..Len(bytes) : bytes[i] \in 0..255 /\ Put(c, bytes[i]) \in Plain
      <3>1. \A i \in 1..Len(bytes) : bytes[i] \in 0..255
        BY SeqFacts
      <3>2. \A b \in 0..255 : Put(c, b) \in Plain
        BY PlainTypes, 0 \in Nat
      <3> QED BY <3>1, <3>2
    <2>2. DOMAIN bytes = 1..Len(bytes)
      OBVIOUS
    <2> QED BY <2>1, <2>2 DEF Write
  <1>5. Version(c) \in Seq(Plain)
    <2>1. Transaction(Spi(c, GET_SLAVE_ID)) \in Seq(Plain)
      BY <1>2, PlainTypes, 252 \in 0..255, 0 \in Nat DEF GET_SLAVE_ID
    <2>2. Transaction(Ask(c)) \in Seq(Plain)
      BY <1>2, PlainTypes, 252 \in 0..255, 0 \in Nat
    <2>3. <<Delay(BlockDelay)>> \in Seq(Plain) /\ <<Delay(SettleDelay)>> \in Seq(Plain)
      BY <1>1, PlainTypes, 252 \in 0..255
    <2> QED BY <1>3, <2>1, <2>2, <2>3 DEF Version
  <1>6. WriteBlock(c) \in Seq(Plain)
    <2>1. BlockData \in Seq(0..255) /\ Len(BlockData) \in 0..255
      BY LinkAssumption
    <2>2. \A i \in 1..Len(BlockData) : Block(c, BlockData[i]) \in Plain
      <3>1. \A i \in 1..Len(BlockData) : BlockData[i] \in 0..255
        BY <2>1, SeqFacts
      <3>2. \A b \in 0..255 : Block(c, b) \in Plain
        BY PlainTypes, 0 \in Nat
      <3> QED BY <3>1, <3>2
    <2>3. [i \in DOMAIN BlockData |-> Block(c, BlockData[i])] \in Seq(Plain)
      <3>1. DOMAIN BlockData = 1..Len(BlockData)
        BY <2>1
      <3> QED BY <2>1, <2>2, <3>1
    <2>4. Flush \in Plain /\ Block(c, Len(BlockData)) \in Plain
      BY <2>1, PlainTypes, 0 \in Nat
    <2> QED BY <2>3, <2>4 DEF WriteBlock
  <1> QED BY <1>3, <1>4, <1>5, <1>6

LEMMA CardNumbers == kNumVoices \in Nat \ {0} /\ \A i \in 1..kNumVoices : i - 1 \in Cards
  BY LinkAssumption DEF Cards

LEMMA PatchType == LoadPatch \in Seq(Plain)
  <1>1. CardSeq \in [1..kNumVoices -> Cards] /\ DOMAIN CardSeq = 1..kNumVoices
    BY CardNumbers DEF CardSeq
  <1> DEFINE blocks == [i \in DOMAIN CardSeq |-> WriteBlock(CardSeq[i])]
             heads == [i \in DOMAIN CardSeq |-> Put(CardSeq[i], BULK_SEND)]
  <1>2. blocks \in [1..kNumVoices -> Seq(Plain)]
    BY <1>1, ProgramTypes
  <1>3. heads \in Seq(Plain)
    <2>1. \A c \in Cards : Put(c, BULK_SEND) \in Plain
      BY PlainTypes, 0 \in 0..255, 0 \in Nat DEF BULK_SEND
    <2>2. heads \in [1..kNumVoices -> Plain]
      BY <1>1, <2>1
    <2> QED BY <2>2, CardNumbers
  <1> HIDE DEF blocks
  <1>4. FlattenSeq(blocks) \in Seq(Plain)
    BY <1>2, FlattenType, CardNumbers
  <1>5. <<Delay(BlockDelay)>> \in Seq(Plain)
    BY LinkAssumption, PlainTypes, CardNumbers, 0 \in 0..255, 1 \in 1..kNumVoices, SMTT(40)
  <1> HIDE DEF heads
  <1>6. LoadPatch = heads \o <<Delay(BlockDelay)>> \o FlattenSeq(blocks)
    BY DEF LoadPatch, heads, blocks
  <1> QED BY <1>3, <1>4, <1>5, <1>6

LEMMA BusStarts == LinkInit => BusOK
  <1> SUFFICES ASSUME LinkInit PROVE BusOK
    OBVIOUS
  <1>1. CardSeq \in [1..kNumVoices -> Cards] /\ DOMAIN CardSeq = 1..kNumVoices
    BY CardNumbers DEF CardSeq
  <1> DEFINE syncs == [i \in DOMAIN CardSeq |-> SyncCard(CardSeq[i])]
  <1>2. syncs \in [1..kNumVoices -> Seq(Plain)]
    BY <1>1, ProgramTypes
  <1>3. todo = FlattenSeq(syncs) \o <<Delay(SettleDelay)>>
    BY DEF LinkInit
  <1> HIDE DEF syncs
  <1>4. FlattenSeq(syncs) \in Seq(Plain)
    BY <1>2, FlattenType, CardNumbers
  <1>5. <<Delay(SettleDelay)>> \in Seq(Plain)
    <2>1. Delay(SettleDelay) \in Plain
      BY LinkAssumption DEF Delay, Plain
    <2> QED BY <2>1
  <1>6. todo \in Seq(Plain)
    BY <1>3, <1>4, <1>5
  <1>7. tx = [p \in 0..1 |-> <<>>] /\ sdBusy = FALSE
    BY DEF LinkInit
  <1>8. tx \in [0..1 -> Seq(Cards \X (0..255))]
    BY <1>7
  <1> QED BY <1>6, <1>7, <1>8 DEF BusOK

LEMMA Heads ==
    /\ Head(SdSession) = Flush /\ Tail(SdSession) = <<Sd(TRUE), Sd(FALSE)>>
    /\ Head(<<Sd(TRUE), Sd(FALSE)>>) = Sd(TRUE) /\ Tail(<<Sd(TRUE), Sd(FALSE)>>) = <<Sd(FALSE)>>
    /\ Head(<<Sd(FALSE)>>) = Sd(FALSE) /\ Tail(<<Sd(FALSE)>>) = <<>>
  <1>1. PICK a, b, c : a = Flush /\ b = Sd(TRUE) /\ c = Sd(FALSE)
    OBVIOUS
  <1>2. /\ Head(<<a, b, c>>) = a /\ Tail(<<a, b, c>>) = <<b, c>>
        /\ Head(<<b, c>>) = b /\ Tail(<<b, c>>) = <<c>> /\ Head(<<c>>) = c /\ Tail(<<c>>) = <<>>
    BY Tails
  <1>3. SdSession = <<a, b, c>>
    BY <1>1 DEF SdSession
  <1> QED BY <1>1, <1>2, <1>3

LEMMA BusStays == BusOK /\ [LinkNext]_linkvars => BusOK'
  <1> SUFFICES ASSUME BusOK, [LinkNext]_linkvars PROVE BusOK'
    OBVIOUS
  <1> DEFINE Words == Seq(Cards \X (0..255))
  <1>0. /\ tx \in [0..1 -> Words] /\ sdBusy \in BOOLEAN
        /\ todo = <<>> => todo \in Seq(Plain) /\ sdBusy = FALSE
    <2>1. tx \in [0..1 -> Words] /\ sdBusy \in BOOLEAN
      BY DEF BusOK
    <2>2. <<>> # SdSession /\ <<>> # <<Sd(TRUE), Sd(FALSE)>> /\ <<>> # <<Sd(FALSE)>>
      BY DEF SdSession
    <2> QED BY <2>1, <2>2 DEF BusOK
  <1>S. /\ Flush.op = "flush" /\ Sd(TRUE).op = "sd" /\ Sd(FALSE).op = "sd"
        /\ Sd(TRUE).busy = TRUE /\ Sd(FALSE).busy = FALSE
    BY DEF Flush, Sd
  \* Where a plain instruction other than a flush comes first, all are plain.
  <1>1. ASSUME todo # <<>>, Head(todo).op \notin {"flush", "sd"}
        PROVE  todo \in Seq(Plain) /\ sdBusy = FALSE /\ Head(todo) \in Plain
                 /\ Tail(todo) \in Seq(Plain)
    <2>1. todo \in Seq(Plain) /\ sdBusy = FALSE
      <3>1. todo # SdSession /\ todo # <<Sd(TRUE), Sd(FALSE)>> /\ todo # <<Sd(FALSE)>>
        BY <1>1, <1>S, Heads
      <3> QED BY <3>1 DEF BusOK
    <2> QED BY <1>1, <2>1, SeqFacts
  <1>2. ASSUME NEW receivers, NEW frame, NEW program \in Seq(Plain) \cup {SdSession},
               Issue(receivers, frame, program)
        PROVE  BusOK'
    <2>1. todo = <<>> /\ todo' = program /\ UNCHANGED <<tx, sdBusy>>
      BY <1>2 DEF Issue
    <2> QED BY <2>1, <1>0 DEF BusOK
  <1>3. ASSUME NEW c \in Cards, NEW m \in Messages, SendMessage(c, m)
        PROVE  BusOK'
    <2>1. Write(c, m) \in Seq(Plain)
      BY ProgramTypes, LinkAssumption
    <2> QED BY <1>2, <1>3, <2>1 DEF SendMessage
  <1>4. CASE SendPatch
    BY <1>2, <1>4, PatchType DEF SendPatch
  <1>5. CASE UseSdCard
    BY <1>2, <1>5 DEF UseSdCard
  <1>6. ASSUME NEW c \in Cards, GetVersion(c)
        PROVE  BusOK'
    BY <1>2, <1>6, ProgramTypes DEF GetVersion
  <1>7. CASE PutByte
    <2> DEFINE i == Head(todo)
               p == Parity(i.card)
    <2>1. todo # <<>> /\ i.op = "put" /\ todo' = Tail(todo) /\ sdBusy' = sdBusy
            /\ tx' = [tx EXCEPT ![p] = Append(@, <<i.card, i.byte>>)]
      BY <1>7 DEF PutByte
    <2>2. i \in Plain /\ Tail(todo) \in Seq(Plain) /\ sdBusy = FALSE
      BY <1>1, <2>1
    <2>3. i.card \in Cards /\ i.byte \in 0..255
      BY <2>1, <2>2 DEF Plain
    <2> HIDE DEF i
    <2>4. p \in 0..1
      BY <2>3, LinkAssumption DEF Parity, Cards
    <2>5. Append(tx[p], <<i.card, i.byte>>) \in Words
      <3>1. tx[p] \in Words /\ <<i.card, i.byte>> \in Cards \X (0..255)
        BY <1>0, <2>3, <2>4
      <3> HIDE DEF p
      <3> QED BY <3>1
    <2>6. tx' \in [0..1 -> Words]
      <3> HIDE DEF p, Words
      <3> QED BY <1>0, <2>1, <2>4, <2>5
    <2> QED BY <2>1, <2>2, <2>6 DEF BusOK
  <1>8. CASE FlushBuffers
    <2>1. todo # <<>> /\ Quiet /\ todo' = Tail(todo) /\ UNCHANGED <<tx, sdBusy>>
            /\ Head(todo).op = "flush"
      BY <1>8 DEF FlushBuffers, Quiet
    <2>2. Quiet'
      BY <2>1 DEF Quiet
    <2>3. CASE todo \in Seq(Plain) /\ sdBusy = FALSE
      <3>1. Tail(todo) \in Seq(Plain)
        BY <2>1, <2>3
      <3> QED BY <1>0, <2>1, <2>3, <3>1 DEF BusOK
    <2>4. CASE todo = SdSession /\ sdBusy = FALSE
      <3>1. todo' = <<Sd(TRUE), Sd(FALSE)>>
        BY <2>1, <2>4, Heads
      <3> QED BY <1>0, <2>1, <2>2, <2>4, <3>1 DEF BusOK
    <2>5. CASE todo = <<Sd(TRUE), Sd(FALSE)>> \/ todo = <<Sd(FALSE)>>
      BY <2>1, <2>5, <1>S, Heads
    <2> QED BY <2>3, <2>4, <2>5 DEF BusOK
  <1>9. CASE EndDelay
    <2>1. todo # <<>> /\ Head(todo).op = "delay" /\ todo' = Tail(todo) /\ UNCHANGED <<tx, sdBusy>>
      BY <1>9 DEF EndDelay
    <2>2. Tail(todo) \in Seq(Plain) /\ sdBusy = FALSE
      BY <1>1, <2>1
    <2> QED BY <1>0, <2>1, <2>2 DEF BusOK
  <1>10. CASE DriveBus
    <2>1. todo # <<>> /\ Head(todo).op \in {"spi", "block", "ask"} /\ todo' = Tail(todo)
            /\ UNCHANGED <<tx, sdBusy>>
      BY <1>10 DEF DriveBus
    <2>2. Tail(todo) \in Seq(Plain) /\ sdBusy = FALSE
      BY <1>1, <2>1
    <2> QED BY <1>0, <2>1, <2>2 DEF BusOK
  <1>11. CASE SwitchSd
    <2>1. todo # <<>> /\ Head(todo).op = "sd" /\ todo' = Tail(todo) /\ tx' = tx
            /\ sdBusy' = Head(todo).busy
      BY <1>11 DEF SwitchSd
    <2>2. ~(todo \in Seq(Plain)) /\ todo # SdSession
      <3>1. ~(todo \in Seq(Plain))
        <4>1. \A i \in Plain : i.op # "sd"
          BY DEF Plain
        <4> QED BY <2>1, <4>1, SeqFacts
      <3> QED BY <3>1, <2>1, <1>S, Heads
    <2>3. CASE todo = <<Sd(TRUE), Sd(FALSE)>> /\ sdBusy = FALSE /\ Quiet
      <3>1. todo' = <<Sd(FALSE)>> /\ sdBusy' = TRUE
        BY <2>1, <2>3, <1>S, Heads
      <3>2. Quiet'
        BY <2>1, <2>3 DEF Quiet
      <3> QED BY <1>0, <2>1, <3>1, <3>2 DEF BusOK
    <2>4. CASE todo = <<Sd(FALSE)>> /\ Quiet
      <3>1. todo' = <<>> /\ sdBusy' = FALSE /\ todo' \in Seq(Plain)
        <4>1. <<>> \in Seq(Plain)
          BY SeqFacts
        <4> QED BY <2>1, <2>4, <4>1, <1>S, Heads
      <3> QED BY <1>0, <2>1, <3>1 DEF BusOK
    <2> QED BY <2>2, <2>3, <2>4 DEF BusOK
  <1>12. CASE ControllerTick
    <2> DEFINE freed == SentAt(flop')
    <2>1. tx' = [p \in 0..1 |-> IF p \in freed THEN Tail(tx[p]) ELSE tx[p]] /\ sdBusy' = sdBusy
            /\ todo' = IF todo # <<>> /\ Head(todo).op = "delay" /\ Head(todo).left > 0
                       THEN <<Delay(Head(todo).left - 1)>> \o Tail(todo) ELSE todo
      BY <1>12 DEF ControllerTick
    <2>2. \A p \in 0..1 : p \in freed => tx[p] # <<>>
      BY DEF SentAt
    <2> HIDE DEF freed
    <2>3. tx' \in [0..1 -> Words] /\ (Quiet => Quiet')
      <3>1. \A p \in 0..1 : /\ tx'[p] = IF p \in freed THEN Tail(tx[p]) ELSE tx[p]
                            /\ tx[p] \in Words
        BY <1>0, <2>1
      <3>2. \A p \in 0..1 : tx'[p] \in Words /\ (tx[p] = <<>> => tx'[p] = <<>>)
        <4> HIDE DEF Words
        <4>1. \A s \in Words : s # <<>> => Tail(s) \in Words
          BY SeqFacts DEF Words
        <4> QED BY <2>2, <3>1, <4>1
      <3> QED BY <2>1, <3>2 DEF Quiet
    <2>4. CASE todo # <<>> /\ Head(todo).op = "delay" /\ Head(todo).left > 0
      <3>1. /\ todo \in Seq(Plain) /\ sdBusy = FALSE /\ Head(todo) \in Plain
            /\ Tail(todo) \in Seq(Plain)
        BY <1>1, <2>4
      <3>2. Head(todo).left \in Nat
        BY <2>4, <3>1 DEF Plain
      <3>3. Delay(Head(todo).left - 1) \in Plain
        BY <2>4, <3>2 DEF Delay, Plain
      <3>4. todo' \in Seq(Plain)
        BY <2>1, <2>4, <3>1, <3>3
      <3> QED BY <1>0, <2>1, <2>3, <3>1, <3>4 DEF BusOK
    <2>5. CASE ~(todo # <<>> /\ Head(todo).op = "delay" /\ Head(todo).left > 0)
      <3>1. todo' = todo
        BY <2>1, <2>5
      <3> HIDE DEF Words
      <3> QED BY <1>0, <2>1, <2>3, <3>1 DEF BusOK, Words
    <2> QED BY <2>4, <2>5
  <1>13. CASE UNCHANGED <<todo, tx, sdBusy>>
    BY <1>13 DEF BusOK, Quiet
  <1>14. \A c \in Cards : PollSpi(c) \/ Process(c) \/ NothingToProcess(c) \/ ReadBlock(c)
                            => UNCHANGED <<todo, tx, sdBusy>>
    BY DEF PollSpi, Process, NothingToProcess, ReadBlock
  <1>15. UNCHANGED linkvars => UNCHANGED <<todo, tx, sdBusy>>
    BY DEF linkvars
  <1> QED
    BY <1>3, <1>4, <1>5, <1>6, <1>7, <1>8, <1>9, <1>10, <1>11, <1>12, <1>13, <1>14, <1>15
    DEF LinkNext

\* While the SD card has the bus, the interrupt has nothing to send on it, for any number of
\* cards, size of the buffers, messages and delays.
THEOREM BusIsTheSdCards == LinkSpec => []SdCardHasTheBus
  <1>1. BusOK => SdCardHasTheBus
    BY DEF BusOK, Quiet, SdCardHasTheBus
  <1> QED BY <1>1, BusStarts, BusStays, PTL DEF LinkSpec

-----------------------------------------------------------------------------
(* The bootloader of the controller.                                       *)

Matching(k) ==
    [state |-> "MATCHING_HEADER", bytes_read |-> k, commands |-> <<>>, buffer |-> <<>>,
     checksum |-> 0]
Commanded(c) ==
    [state |-> "READING_COMMAND", bytes_read |-> Len(c), commands |-> c, buffer |-> <<>>,
     checksum |-> 0]
Reading(n, c, b, s) ==
    [state |-> "READING_DATA", bytes_read |-> n, commands |-> c, buffer |-> b, checksum |-> s]

IsReading(r, n, c, b, s) == r = Reading(n, c, b, s)

\* What MidiUpdater makes of one byte.
Taken(r, byte) ==
    IF byte > 240 /\ byte # EndOfSysEx THEN r
    ELSE IF r.state = "READING_DATA" /\ byte = EndOfSysEx THEN NewReception
    ELSE CASE r.state = "MATCHING_HEADER" -> MatchesHeader(r, byte)
           [] r.state = "READING_COMMAND" -> ReadsCommand(r, byte)
           [] r.state = "READING_DATA" -> ReadsData(r, byte)

Finishes(r, byte) == r.state = "READING_DATA" /\ byte = EndOfSysEx

LEMMA ConsumeFacts ==
    ASSUME NEW byte \in 0..255, Consume(byte)
    PROVE  /\ rxs' = Taken(rxs, byte)
           /\ ~Finishes(rxs, byte) => /\ UNCHANGED <<image, lpage>>
                                      /\ lpc' = lpc \/ (lpc' = "overrun" /\ Overruns(rxs, byte))
           /\ Finishes(rxs, byte) /\ IsReset(rxs) => lpc' = "main" /\ UNCHANGED <<image, lpage>>
           /\ Finishes(rxs, byte) /\ ~IsReset(rxs) /\ IsBlock(rxs) =>
                 UNCHANGED lpc /\ Writes([i \in 1..PageBytes |-> rxs.buffer[i]])
           /\ Finishes(rxs, byte) /\ ~IsReset(rxs) /\ ~IsBlock(rxs) =>
                 UNCHANGED <<image, lpage, lpc>>
<1>1. CASE byte > 240 /\ byte # EndOfSysEx
  BY <1>1 DEF Consume, Taken, Finishes
<1>2. CASE ~(byte > 240 /\ byte # EndOfSysEx) /\ Finishes(rxs, byte)
  BY <1>2 DEF Consume, Taken, Finishes
<1>3. CASE ~(byte > 240 /\ byte # EndOfSysEx) /\ ~Finishes(rxs, byte)
  BY <1>3 DEF Consume, Taken, Finishes
<1> QED BY <1>1, <1>2, <1>3

LEMMA Header ==
    /\ sysex_header[1] = 240 /\ sysex_header[2] = 0 /\ sysex_header[3] = 33
    /\ sysex_header[4] = 2 /\ sysex_header[5] = 0 /\ sysex_header[6] = 4
    /\ Len(sysex_header) = 6
  BY DEF sysex_header

Ignored(byte) == byte > 240 /\ byte # 247

\* The header, byte by byte.
LEMMA MatchingTaken ==
    ASSUME NEW k \in 0..5, NEW byte \in 0..255, NEW r, r = Matching(k)
    PROVE  /\ ~Finishes(r, byte)
           /\ byte = sysex_header[k + 1] /\ k # 5 => Taken(r, byte) = Matching(k + 1)
           /\ byte = sysex_header[k + 1] /\ k = 5 => Taken(r, byte) = Commanded(<<>>)
           /\ byte # sysex_header[k + 1] /\ Ignored(byte) => Taken(r, byte) = r
           /\ byte # sysex_header[k + 1] /\ ~Ignored(byte) => Taken(r, byte) = Matching(0)
<1> USE Header DEF EndOfSysEx
<1>1. r.state = "MATCHING_HEADER" /\ r.bytes_read = k
  BY DEF Matching
<1>2. Taken(r, byte) = IF byte > 240 /\ byte # 247 THEN r ELSE MatchesHeader(r, byte)
  BY <1>1 DEF Taken
<1>3. ASSUME byte = sysex_header[k + 1]
      PROVE  Taken(r, byte) = IF k = 5 THEN Commanded(<<>>) ELSE Matching(k + 1)
  <2>1. ~(byte > 240)
    BY <1>3
  <2>2. CASE k = 5
    <3>1. MatchesHeader(r, byte) = [NewReception EXCEPT !.state = "READING_COMMAND"]
      BY <1>1, <1>3, <2>2 DEF MatchesHeader
    <3>2. Len(<<>>) = 0
      OBVIOUS
    <3>3. [NewReception EXCEPT !.state = "READING_COMMAND"] = Commanded(<<>>)
      BY <3>2 DEF NewReception, Commanded
    <3> QED BY <1>2, <2>1, <2>2, <3>1, <3>3
  <2>3. CASE k # 5
    <3>1. MatchesHeader(r, byte) = [r EXCEPT !.bytes_read = @ + 1]
      BY <1>1, <1>3, <2>3 DEF MatchesHeader
    <3>2. [r EXCEPT !.bytes_read = @ + 1] = Matching(k + 1)
      BY DEF Matching
    <3> QED BY <1>2, <2>1, <2>3, <3>1, <3>2
  <2> QED BY <2>2, <2>3
<1>4. ASSUME byte # sysex_header[k + 1]
      PROVE  Taken(r, byte) = IF byte > 240 /\ byte # 247 THEN r ELSE Matching(0)
  <2>1. MatchesHeader(r, byte) = [r EXCEPT !.bytes_read = 0]
    BY <1>1, <1>4 DEF MatchesHeader
  <2>2. [r EXCEPT !.bytes_read = 0] = Matching(0)
    BY DEF Matching
  <2> QED BY <1>2, <2>1, <2>2
<1>5. ~Finishes(r, byte)
  BY <1>1 DEF Finishes
<1>6. byte # sysex_header[k + 1] /\ Ignored(byte) => Taken(r, byte) = r
  BY <1>4 DEF Ignored
<1>7. byte # sysex_header[k + 1] /\ ~Ignored(byte) => Taken(r, byte) = Matching(0)
  BY <1>4 DEF Ignored
<1> QED BY <1>3, <1>5, <1>6, <1>7

LEMMA NewMatches == NewReception = Matching(0)
  BY DEF NewReception, Matching

\* The two bytes of the command.
LEMMA CommandTaken ==
    ASSUME NEW c \in Seq(0..127), Len(c) \in 0..1, NEW byte \in 0..255,
           NEW r, r = Commanded(c)
    PROVE  /\ ~Finishes(r, byte)
           /\ byte < 128 /\ Len(c) = 0 => Taken(r, byte) = Commanded(Append(c, byte))
           /\ byte < 128 /\ Len(c) = 1 =>
                 IsReading(Taken(r, byte), 0, Append(c, byte), <<>>, 0)
           /\ byte >= 128 /\ Ignored(byte) => Taken(r, byte) = r
           /\ byte >= 128 /\ ~Ignored(byte) => Taken(r, byte) = Matching(0)
<1> USE DEF EndOfSysEx
<1>1. r.state = "READING_COMMAND" /\ r.bytes_read = Len(c) /\ r.commands = c
  BY DEF Commanded
<1>2. Taken(r, byte) = IF byte > 240 /\ byte # 247 THEN r ELSE ReadsCommand(r, byte)
  BY <1>1 DEF Taken
<1>3. ASSUME byte < 128
      PROVE  /\ Taken(r, byte) = ReadsCommand(r, byte) /\ byte \in 0..127
             /\ Append(c, byte) \in Seq(0..127) /\ Len(Append(c, byte)) = Len(c) + 1
  <2>1. byte \in 0..127
    BY <1>3
  <2>2. Append(c, byte) \in Seq(0..127) /\ Len(Append(c, byte)) = Len(c) + 1
    BY <2>1
  <2> QED BY <1>2, <1>3, <2>1, <2>2
<1>4. ASSUME byte < 128, Len(c) = 0
      PROVE  Taken(r, byte) = Commanded(Append(c, byte))
  <2>0. Append(c, byte) \in Seq(0..127) /\ Len(Append(c, byte)) = 1
    BY <1>3, <1>4
  <2>1. PICK d \in Seq(0..127) : d = Append(c, byte) /\ Len(d) = 1
    BY <2>0, Zenon
  <2>2. ~(byte >= 128) /\ r.bytes_read = 0 /\ (0 + 1) % 2 = 1
    BY <1>1, <1>4
  <2>3. ReadsCommand(r, byte) = [state |-> "READING_COMMAND", bytes_read |-> 1, commands |-> d,
                                 buffer |-> <<>>, checksum |-> 0]
    <3>1. ReadsCommand(r, byte) = [r EXCEPT !.commands = d, !.bytes_read = 1,
                                            !.state = "READING_COMMAND"]
      BY <1>1, <2>1, <2>2 DEF ReadsCommand
    <3> QED BY <3>1 DEF Commanded
  <2> QED BY <1>3, <1>4, <2>1, <2>3 DEF Commanded
<1>5. ASSUME byte < 128, Len(c) = 1
      PROVE  Taken(r, byte) = Reading(0, Append(c, byte), <<>>, 0)
  <2>0. Append(c, byte) \in Seq(0..127)
    BY <1>3, <1>5
  <2>1. PICK d \in Seq(0..127) : d = Append(c, byte)
    BY <2>0, Zenon
  <2>2. ~(byte >= 128) /\ r.bytes_read = 1 /\ (1 + 1) % 2 = 0
    BY <1>1, <1>5
  <2>3. ReadsCommand(r, byte) = Reading(0, d, <<>>, 0)
    <3>1. ReadsCommand(r, byte) = [r EXCEPT !.commands = d, !.bytes_read = 0,
                                            !.state = "READING_DATA"]
      BY <1>1, <2>1, <2>2 DEF ReadsCommand
    <3> QED BY <3>1 DEF Commanded, Reading
  <2> QED BY <1>3, <1>5, <2>1, <2>3
<1>6. ASSUME byte >= 128
      PROVE  Taken(r, byte) = IF byte > 240 /\ byte # 247 THEN r ELSE Matching(0)
  BY <1>2, <1>6, NewMatches DEF ReadsCommand
<1>7. ~Finishes(r, byte)
  BY <1>1 DEF Finishes
<1>8. byte >= 128 /\ Ignored(byte) => Taken(r, byte) = r
  BY <1>6 DEF Ignored
<1>9. byte >= 128 /\ ~Ignored(byte) => Taken(r, byte) = Matching(0)
  BY <1>6 DEF Ignored
<1> QED BY <1>4, <1>5, <1>7, <1>8, <1>9 DEF IsReading

\* The sum of the first bytes of a block.
RunningSum(d) ==
    LET to[i \in 0..PageBytes] == IF i = 0 THEN 0 ELSE (to[i - 1] + d[i]) % 256
    IN to
Bytes == 0..255
IsData(d) == \A i \in 1..PageBytes : d[i] \in Bytes

LEMMA Modulo ==
    ASSUME NEW a \in Nat
    PROVE  a % 256 \in Bytes /\ \E q \in Nat : a = 256 * q + (a % 256)
<1>1. PICK q : q = a \div 256
  OBVIOUS
<1>2. q \in Nat /\ a = 256 * q + (a % 256) /\ a % 256 \in 0..255
  BY <1>1
<1> QED BY <1>2 DEF Bytes

LEMMA SumRuns ==
    ASSUME NEW d, IsData(d)
    PROVE  /\ RunningSum(d) \in [0..PageBytes -> Bytes] /\ RunningSum(d)[0] = 0
           /\ \A i \in 1..PageBytes : RunningSum(d)[i] = (RunningSum(d)[i - 1] + d[i]) % 256
<1> DEFINE n == PageBytes
           G == [i \in 1..n |-> [y \in Bytes |-> (y + d[i]) % 256]]
           to == CHOOSE x : x = [i \in 0..n |-> IF i = 0 THEN 0 ELSE (x[i - 1] + d[i]) % 256]
<1>1. RunningSum(d) = to
  BY DEF RunningSum
<1>2. n \in Nat /\ 0 \in Bytes
  BY ControllerLoaderAssumption DEF Bytes
<1>3. \A i \in 1..n, y \in Bytes : (y + d[i]) % 256 \in Bytes
  <2> SUFFICES ASSUME NEW i \in 1..n, NEW y \in Bytes
               PROVE  (y + d[i]) % 256 \in Bytes
    OBVIOUS
  <2>1. PICK a \in Nat : a = y + d[i]
    BY SMTT(40) DEF IsData, Bytes
  <2> QED BY <2>1, Modulo
<1> HIDE DEF n
<1>4. G \in [1..n -> [Bytes -> Bytes]]
  BY <1>3
<1> HIDE DEF G
<1>5. PICK g \in [0..n -> Bytes] : Recurs(g, n, 0, G)
  <2>1. \E g \in [0..n -> Bytes] : Recurs(g, n, 0, G)
    BY <1>2, <1>4, RecursiveFunction
  <2> QED BY <2>1
<1>6. ASSUME NEW i \in 0..n
      PROVE  g[i] = IF i = 0 THEN 0 ELSE (g[i - 1] + d[i]) % 256
  <2>1. CASE i = 0
    BY <1>5, <2>1 DEF Recurs
  <2>2. CASE i # 0
    <3>1. i \in 1..n /\ i - 1 \in 0..n
      BY <1>2, <2>2
    <3>2. g[i - 1] \in Bytes
      BY <3>1
    <3>3. g[i] = G[i][g[i - 1]]
      BY <1>5, <2>2 DEF Recurs
    <3> QED BY <2>2, <3>1, <3>2, <3>3 DEF G
  <2> QED BY <2>1, <2>2
<1>7. g = [i \in 0..n |-> IF i = 0 THEN 0 ELSE (g[i - 1] + d[i]) % 256]
  <2>1. g = [i \in 0..n |-> g[i]]
    OBVIOUS
  <2> QED BY <1>6, <2>1
<1>8. to = [i \in 0..n |-> IF i = 0 THEN 0 ELSE (to[i - 1] + d[i]) % 256]
  BY <1>7, ZenonT(40)
<1> HIDE DEF to
<1>9. to[0] = 0 /\ \A i \in 1..n : to[i] = (to[i - 1] + d[i]) % 256
  <2>1. 0 \in 0..n /\ \A i \in 1..n : i \in 0..n /\ i # 0
    BY <1>2
  <2> QED BY <1>8, <2>1
<1>10. \A i \in 0..n : to[i] \in Bytes
  <2> DEFINE S == {i \in 0..n : to[i] \in Bytes}
  <2>1. 0 \in S
    BY <1>2, <1>9
  <2>2. \A i \in 1..n : i - 1 \in S => i \in S
    BY <1>2, <1>3, <1>9
  <2> HIDE DEF S
  <2>3. \A i \in 0..n : i \in S
    BY <1>2, <2>1, <2>2, InductionUpTo
  <2> QED BY <2>3 DEF S
<1>11. to \in [0..n -> Bytes]
  BY <1>8, <1>10
<1> QED BY <1>1, <1>9, <1>11 DEF n

\* It depends on these bytes only.
LEMMA SameSum ==
    ASSUME NEW d, NEW e, IsData(d), IsData(e), NEW k \in 0..PageBytes,
           \A i \in 1..k : d[i] = e[i]
    PROVE  RunningSum(d)[k] = RunningSum(e)[k]
<1> DEFINE S == {i \in 0..k : RunningSum(d)[i] = RunningSum(e)[i]}
<1>1. k \in Nat /\ \A i \in 1..k : i \in 1..PageBytes /\ i - 1 \in 0..k
  BY ControllerLoaderAssumption
<1>2. 0 \in S
  BY SumRuns, <1>1
<1>3. \A i \in 1..k : i - 1 \in S => i \in S
  <2> SUFFICES ASSUME NEW i \in 1..k, i - 1 \in S
               PROVE  i \in S
    OBVIOUS
  <2>1. RunningSum(d)[i] = (RunningSum(d)[i - 1] + d[i]) % 256
    BY <1>1, SumRuns
  <2>2. RunningSum(e)[i] = (RunningSum(e)[i - 1] + e[i]) % 256
    BY <1>1, SumRuns
  <2> QED BY <2>1, <2>2
<1> HIDE DEF S
<1>4. \A i \in 0..k : i \in S
  BY <1>1, <1>2, <1>3, InductionUpTo
<1>5. k \in S
  BY <1>1, <1>4
<1> QED BY <1>5 DEF S

\* b is a plus w, modulo 256.
Congruent(a, b, w) == \E q \in Int : b = a + w + 256 * q

LEMMA CongruentModulo ==
    ASSUME NEW a \in Nat, NEW b \in Nat, NEW w \in Int, Congruent(a, b, w)
    PROVE  Congruent(a % 256, b % 256, w)
<1>1. PICK q \in Nat : a = 256 * q + (a % 256)
  BY Modulo
<1>2. PICK r \in Nat : b = 256 * r + (b % 256)
  BY Modulo
<1>3. PICK p \in Int : b = a + w + 256 * p
  BY DEF Congruent
<1>4. a % 256 \in 0..255 /\ b % 256 \in 0..255
  BY Modulo DEF Bytes
<1>5. PICK x \in 0..255 : x = a % 256
  BY <1>4
<1>6. PICK y \in 0..255 : y = b % 256
  BY <1>4
<1>7. y = x + w + 256 * (p + q - r) /\ p + q - r \in Int
  <2>1. a = 256 * q + x /\ b = 256 * r + y
    BY <1>1, <1>2, <1>5, <1>6
  <2> QED BY <1>3, <2>1
<1> QED BY <1>5, <1>6, <1>7, ZenonT(40) DEF Congruent

LEMMA CongruentPlus ==
    ASSUME NEW x \in Int, NEW y \in Int, NEW u \in Int, NEW v \in Int, NEW w \in Int,
           \/ x = y /\ v - u = w
           \/ Congruent(x, y, w) /\ u = v
    PROVE  Congruent(x + u, y + v, w)
<1>1. CASE x = y /\ v - u = w
  <2>1. y + v = (x + u) + w + 256 * 0
    BY <1>1
  <2>2. 0 \in Int
    OBVIOUS
  <2> QED BY <2>1, <2>2 DEF Congruent
<1>2. CASE Congruent(x, y, w) /\ u = v
  <2>1. PICK q \in Int : y = x + w + 256 * q
    BY <1>2 DEF Congruent
  <2>2. y + v = (x + u) + w + 256 * q
    BY <1>2, <2>1
  <2> QED BY <2>2 DEF Congruent
<1> QED BY <1>1, <1>2

LEMMA CongruentBytes ==
    ASSUME NEW x \in 0..255, NEW y \in 0..255, NEW z \in Int, Congruent(z, z, y - x)
    PROVE  x = y
<1>1. PICK q \in Int : z = z + (y - x) + 256 * q
  BY DEF Congruent
<1>2. y - x = -(256 * q)
  BY <1>1
<1>3. q = 0
  BY <1>2
<1> QED BY <1>2, <1>3

LEMMA ByteAt ==
    ASSUME NEW d, IsData(d), NEW i \in 1..PageBytes
    PROVE  d[i] \in 0..255 /\ d[i] \in Nat /\ d[i] \in Int
<1>1. d[i] \in 0..255
  BY DEF IsData, Bytes
<1> QED BY <1>1, SMTT(40)

\* A sum that one other byte does not change has the same byte there.
LEMMA OtherSum ==
    ASSUME NEW d, NEW e, IsData(d), IsData(e), NEW j \in 1..PageBytes,
           \A i \in 1..PageBytes : i # j => d[i] = e[i],
           RunningSum(d)[PageBytes] = RunningSum(e)[PageBytes]
    PROVE  d[j] = e[j]
<1>1. PageBytes \in Nat /\ PageBytes \in 0..PageBytes
  BY ControllerLoaderAssumption
<1>2. d[j] \in 0..255 /\ e[j] \in 0..255 /\ e[j] - d[j] \in Int
  <2>1. d[j] \in 0..255 /\ e[j] \in 0..255
    BY DEF IsData, Bytes
  <2>2. \A x \in 0..255, y \in 0..255 : y - x \in Int
    OBVIOUS
  <2> QED BY <2>1, <2>2, Zenon
<1> DEFINE D(i) == RunningSum(d)[i]
           E(i) == RunningSum(e)[i]
           S == {i \in 0..PageBytes : i >= j => Congruent(D(i), E(i), e[j] - d[j])}
<1>3. \A i \in 0..PageBytes : D(i) \in Nat /\ E(i) \in Nat /\ D(i) \in Int /\ E(i) \in Int
  <2> SUFFICES ASSUME NEW i \in 0..PageBytes
               PROVE  D(i) \in Nat /\ E(i) \in Nat /\ D(i) \in Int /\ E(i) \in Int
    OBVIOUS
  <2>1. D(i) \in Bytes /\ E(i) \in Bytes
    <3>1. RunningSum(d) \in [0..PageBytes -> Bytes] /\ RunningSum(e) \in [0..PageBytes -> Bytes]
      BY SumRuns
    <3> QED BY <3>1
  <2> HIDE DEF D, E
  <2> QED BY <2>1 DEF Bytes
<1>4. \A i \in 1..PageBytes : D(i) = (D(i - 1) + d[i]) % 256 /\ E(i) = (E(i - 1) + e[i]) % 256
  BY SumRuns
<1>5. \A i \in 0..PageBytes : (\A l \in 1..i : d[l] = e[l]) => D(i) = E(i)
  BY SameSum
<1>6. D(PageBytes) = E(PageBytes)
  OBVIOUS
<1> HIDE DEF D, E
<1>7. 0 \in S
  BY <1>1
<1>8. ASSUME NEW i \in 1..PageBytes, i - 1 \in S
      PROVE  i \in S
  <2>1. i - 1 \in 0..PageBytes /\ i \in 0..PageBytes /\ i \in Int
    BY <1>1
  <2> SUFFICES ASSUME i >= j
               PROVE  Congruent(D(i), E(i), e[j] - d[j])
    BY <2>1
  <2>2. PICK x \in Nat, y \in Nat : x = D(i - 1) /\ y = E(i - 1)
    BY <1>3, <2>1
  <2>3. d[i] \in Nat /\ e[i] \in Nat
    BY ByteAt
  <2>4. PICK u \in Nat, v \in Nat : u = d[i] /\ v = e[i]
    BY <2>3
  <2>5. PICK w \in Int : w = e[j] - d[j]
    BY <1>2
  <2>6. (x = y /\ v - u = w) \/ (Congruent(x, y, w) /\ u = v)
    <3>1. CASE i = j
      <4>1. \A l \in 1..(i - 1) : l \in 1..PageBytes /\ l # j
        BY <1>1, <3>1
      <4>2. \A l \in 1..(i - 1) : d[l] = e[l]
        BY <4>1
      <4> QED BY <1>5, <2>1, <2>2, <2>4, <2>5, <3>1, <4>2
    <3>2. CASE i # j
      <4>1. i - 1 >= j
        BY <2>1, <3>2
      <4>2. Congruent(D(i - 1), E(i - 1), e[j] - d[j])
        BY <1>8, <4>1
      <4> QED BY <2>2, <2>4, <2>5, <3>2, <4>2
    <3> QED BY <3>1, <3>2
  <2>7. x \in Int /\ y \in Int /\ u \in Int /\ v \in Int
    OBVIOUS
  <2>8. Congruent(x + u, y + v, w)
    BY <2>6, <2>7, CongruentPlus
  <2>9. x + u \in Nat /\ y + v \in Nat
    OBVIOUS
  <2>10. Congruent((x + u) % 256, (y + v) % 256, w)
    BY <2>8, <2>9, CongruentModulo
  <2> QED BY <1>4, <2>2, <2>4, <2>5, <2>10
<1> HIDE DEF S
<1>9. \A i \in 0..PageBytes : i \in S
  BY <1>1, <1>7, <1>8, InductionUpTo
<1>10. PageBytes \in S /\ PageBytes >= j
  BY <1>1, <1>9
<1>11. Congruent(D(PageBytes), D(PageBytes), e[j] - d[j])
  BY <1>6, <1>10 DEF S
<1> QED BY <1>1, <1>2, <1>3, <1>11, CongruentBytes, Zenon

LEMMA Halves ==
    ASSUME NEW n \in Nat
    PROVE  \E k \in Nat :
               \/ /\ n = 2 * k /\ n % 2 = 0 /\ n \div 2 = k /\ (n + 1) \div 2 = k
                  /\ (n + 2) \div 2 = k + 1
               \/ /\ n = 2 * k + 1 /\ n % 2 = 1 /\ n \div 2 = k /\ (n + 1) \div 2 = k + 1
                  /\ (n + 2) \div 2 = k + 1
<1>1. n \div 2 \in Nat
  OBVIOUS
<1>2. PICK k \in Nat : k = n \div 2
  BY <1>1
<1>3. CASE n % 2 = 0
  <2>1. /\ n = 2 * k /\ n % 2 = 0 /\ n \div 2 = k /\ (n + 1) \div 2 = k
        /\ (n + 2) \div 2 = k + 1
    BY <1>2, <1>3
  <2> QED BY <2>1
<1>4. CASE n % 2 # 0
  <2>1. /\ n = 2 * k + 1 /\ n % 2 = 1 /\ n \div 2 = k /\ (n + 1) \div 2 = k + 1
        /\ (n + 2) \div 2 = k + 1
    BY <1>2, <1>4
  <2> QED BY <2>1
<1> QED BY <1>3, <1>4

\* What nibbles make of the record, field by field.
Begun(r, m, d) == [r EXCEPT !.bytes_read = m, !.buffer = d]
Replaced(b, i, v) == [b EXCEPT ![i] = v]
Completed(r, m, i, v, sum) == [r EXCEPT !.bytes_read = m, !.buffer[i] = v, !.checksum = sum]

LEMMA BegunFields ==
    ASSUME NEW r, NEW n, NEW c, NEW b, NEW s, IsReading(r, n, c, b, s), NEW m, NEW d
    PROVE  IsReading(Begun(r, m, d), m, c, d, s)
<1> USE DEF Reading
<1>1. PICK u : u = [r EXCEPT !.bytes_read = m]
  OBVIOUS
<1>2. u = Reading(m, c, b, s)
  BY <1>1 DEF IsReading
<1>3. [u EXCEPT !.buffer = d] = Reading(m, c, d, s)
  BY <1>2
<1>4. Begun(r, m, d) = [u EXCEPT !.buffer = d]
  BY <1>1, Zenon DEF Begun
<1> HIDE DEF Reading
<1> QED BY <1>3, <1>4, Zenon DEF IsReading

LEMMA CompletedFields ==
    ASSUME NEW r, NEW n, NEW c, NEW b, NEW s, IsReading(r, n, c, b, s), NEW m, NEW i, NEW v,
           NEW sum
    PROVE  IsReading(Completed(r, m, i, v, sum), m, c, Replaced(b, i, v), sum)
<1> USE DEF Reading
<1>1. PICK u : u = [r EXCEPT !.bytes_read = m]
  OBVIOUS
<1>2. u = Reading(m, c, b, s)
  BY <1>1 DEF IsReading
<1>3. PICK w : w = [u EXCEPT !.buffer[i] = v]
  OBVIOUS
<1>4. PICK d : d = [b EXCEPT ![i] = v]
  OBVIOUS
<1>5. w = Reading(m, c, d, s)
  BY <1>2, <1>3, <1>4
<1>6. [w EXCEPT !.checksum = sum] = Reading(m, c, d, sum)
  BY <1>5
<1>7. Completed(r, m, i, v, sum) = [w EXCEPT !.checksum = sum]
  BY <1>1, <1>3, Zenon DEF Completed
<1> HIDE DEF Reading
<1> QED BY <1>4, <1>6, <1>7, Zenon DEF IsReading, Replaced

\* Bytes that are no nibbles.
LEMMA ReadingEnds ==
    ASSUME NEW n, NEW c, NEW b, NEW s, NEW r, IsReading(r, n, c, b, s)
    PROVE  Taken(r, 247) = Matching(0)
<1>1. r.state = "READING_DATA"
  BY DEF IsReading, Reading
<1>2. Taken(r, 247) = NewReception
  BY <1>1 DEF Taken, EndOfSysEx
<1> QED BY <1>2, NewMatches

LEMMA ReadingIgnores ==
    ASSUME NEW n, NEW c, NEW b, NEW s, NEW r, IsReading(r, n, c, b, s), NEW byte \in 128..255,
           byte # 247
    PROVE  Taken(r, byte) = r
<1>1. r.state = "READING_DATA" /\ r.state # "MATCHING_HEADER" /\ r.state # "READING_COMMAND"
  BY DEF IsReading, Reading
<1>2. byte >= 128 /\ byte # EndOfSysEx
  BY DEF EndOfSysEx
<1>3. Taken(r, byte) = IF byte > 240 THEN r ELSE ReadsData(r, byte)
  BY <1>1, <1>2 DEF Taken
<1>4. ReadsData(r, byte) = r
  BY <1>2 DEF ReadsData
<1> QED BY <1>3, <1>4

LEMMA ReadingNibble ==
    ASSUME NEW n, NEW c, NEW b, NEW s, NEW r, IsReading(r, n, c, b, s), NEW byte \in 0..127
    PROVE  /\ Taken(r, byte) = ReadsData(r, byte) /\ ~(byte >= 128)
           /\ r.bytes_read = n /\ r.buffer = b /\ r.checksum = s
<1>1. /\ r.state = "READING_DATA" /\ r.state # "MATCHING_HEADER"
      /\ r.state # "READING_COMMAND"
  BY DEF IsReading, Reading
<1>2. ~(byte > 240) /\ byte # EndOfSysEx /\ ~(byte >= 128)
  BY DEF EndOfSysEx
<1>3. Taken(r, byte) = ReadsData(r, byte)
  BY <1>1, <1>2 DEF Taken
<1> QED BY <1>2, <1>3 DEF IsReading, Reading

\* A nibble begins a byte of the buffer, or completes it.
LEMMA ReadingBegins ==
    ASSUME NEW n, NEW c, NEW b, NEW s, NEW r, IsReading(r, n, c, b, s), NEW byte \in 0..127,
           n % 2 = 0
    PROVE  IsReading(Taken(r, byte), n + 1, c, Append(b, (16 * byte) % 256), s)
<1>1. ReadsData(r, byte) = Begun(r, r.bytes_read + 1, Append(r.buffer, (16 * byte) % 256))
  <2>1. r.bytes_read % 2 = 0 /\ ~(byte >= 128)
    BY ReadingNibble
  <2> QED BY <2>1, Zenon DEF ReadsData, Begun
<1>2. ReadsData(r, byte) = Begun(r, n + 1, Append(b, (16 * byte) % 256))
  BY <1>1, ReadingNibble
<1>3. IsReading(Begun(r, n + 1, Append(b, (16 * byte) % 256)), n + 1, c,
                Append(b, (16 * byte) % 256), s)
  BY BegunFields, ZenonT(40)
<1>4. Taken(r, byte) = ReadsData(r, byte)
  BY ReadingNibble
<1> QED BY <1>2, <1>3, <1>4, Zenon

NewSum(i, s, v) == IF i <= PageBytes THEN (s + v) % 256 ELSE s

LEMMA ReadingCompletes ==
    ASSUME NEW n \in Nat, NEW c, NEW b, NEW s, NEW r, IsReading(r, n, c, b, s),
           NEW byte \in 0..127, n % 2 # 0, NEW i, i = Len(b), NEW v, v = b[i] + (byte % 16)
    PROVE  IsReading(Taken(r, byte), n + 1, c, Replaced(b, i, v), NewSum(i, s, v))
<1>0. /\ r.bytes_read = n /\ r.buffer = b /\ r.checksum = s
      /\ Taken(r, byte) = ReadsData(r, byte) /\ ~(byte >= 128)
  <2>1. IsReading(r, n, c, b, s) /\ byte \in 0..127
    OBVIOUS
  <2> QED BY ONLY <2>1, ReadingNibble
<1>1. ReadsData(r, byte) =
          Completed(r, r.bytes_read + 1, Len(r.buffer),
                    r.buffer[Len(r.buffer)] + (byte % 16),
                    NewSum(Len(r.buffer), r.checksum, r.buffer[Len(r.buffer)] + (byte % 16)))
  <2>1. ~(r.bytes_read % 2 = 0)
    BY <1>0, Zenon
  <2>2. ReadsData(r, byte) =
            [r EXCEPT !.bytes_read = @ + 1,
                      !.buffer[Len(r.buffer)] = r.buffer[Len(r.buffer)] + (byte % 16),
                      !.checksum = IF Len(r.buffer) <= PageBytes
                                   THEN (@ + (r.buffer[Len(r.buffer)] + (byte % 16))) % 256
                                   ELSE @]
    BY <1>0, <2>1, Zenon DEF ReadsData
  <2>3. PICK sum : sum = IF Len(r.buffer) <= PageBytes
                         THEN (r.checksum + (r.buffer[Len(r.buffer)] + (byte % 16))) % 256
                         ELSE r.checksum
    OBVIOUS
  <2>4. sum = NewSum(Len(r.buffer), r.checksum, r.buffer[Len(r.buffer)] + (byte % 16))
    BY <2>3, Zenon DEF NewSum
  <2>5. ReadsData(r, byte) = Completed(r, r.bytes_read + 1, Len(r.buffer),
                                       r.buffer[Len(r.buffer)] + (byte % 16), sum)
    BY <2>2, <2>3, Zenon DEF Completed
  <2> QED BY <2>4, <2>5, Zenon
<1>2. ReadsData(r, byte) = Completed(r, n + 1, i, v, NewSum(i, s, v))
  <2>1. i = Len(r.buffer) /\ v = r.buffer[Len(r.buffer)] + (byte % 16)
    BY <1>0, Zenon
  <2> QED BY <1>0, <1>1, <2>1, Zenon
<1>3. IsReading(Completed(r, n + 1, i, v, NewSum(i, s, v)), n + 1, c, Replaced(b, i, v),
                NewSum(i, s, v))
  BY CompletedFields, Zenon
<1> QED BY <1>0, <1>2, <1>3, Zenon

\* Nibbles of data, the last one of a page being its checksum: what the buffer and the sum hold
\* after n of them.
IsBytes(d) == \A i \in 1..(PageBytes + 1) : d[i] \in Bytes
Summed(n) == IF n \div 2 <= PageBytes THEN n \div 2 ELSE PageBytes
Collected(b, s, d, n) ==
    /\ b \in Seq(Nat) /\ Len(b) = (n + 1) \div 2 /\ s \in Bytes
    /\ \A i \in 1..Len(b) : b[i] = IF 2 * i <= n THEN d[i] ELSE 16 * (d[i] \div 16)
    /\ s = RunningSum(d)[Summed(n)]

\* The byte is nibble n + 1 of the data.
Fits(byte, d, n) ==
    IF n % 2 = 0 THEN (16 * byte) % 256 = 16 * (d[(n \div 2) + 1] \div 16)
                 ELSE byte % 16 = d[(n \div 2) + 1] % 16

LEMMA BytesAreData ==
    ASSUME NEW d, IsBytes(d)
    PROVE  IsData(d)
<1>1. \A i \in 1..PageBytes : i \in 1..(PageBytes + 1)
  BY ControllerLoaderAssumption
<1> QED BY <1>1 DEF IsBytes, IsData

LEMMA CollectedStep ==
    ASSUME NEW n \in 0..(2 * PageBytes + 1), NEW c, NEW b, NEW s, NEW d, IsBytes(d),
           Collected(b, s, d, n), NEW byte \in 0..127, Fits(byte, d, n),
           NEW r, IsReading(r, n, c, b, s)
    PROVE  \E e, t : IsReading(Taken(r, byte), n + 1, c, e, t) /\ Collected(e, t, d, n + 1)
<1>1. n \in Nat /\ PageBytes \in Nat /\ byte \in 0..255 /\ byte < 128 /\ ~(byte >= 128)
  BY ControllerLoaderAssumption
<1>2. b \in Seq(Nat) /\ Len(b) = (n + 1) \div 2 /\ s \in Bytes
  BY DEF Collected
<1>3. IsData(d)
  BY BytesAreData
<1>4. PICK k \in Nat :
          \/ /\ n = 2 * k /\ n % 2 = 0 /\ n \div 2 = k /\ (n + 1) \div 2 = k
             /\ (n + 2) \div 2 = k + 1
          \/ /\ n = 2 * k + 1 /\ n % 2 = 1 /\ n \div 2 = k /\ (n + 1) \div 2 = k + 1
             /\ (n + 2) \div 2 = k + 1
  BY <1>1, Halves
<1>5. k <= PageBytes /\ k + 1 \in 1..(PageBytes + 1) /\ (n + 1) + 1 = n + 2
  BY <1>1, <1>4
<1>6. PICK v \in Bytes : v = d[k + 1]
  BY <1>5 DEF IsBytes
<1>7. v \in Nat /\ v = 16 * (v \div 16) + (v % 16)
  BY <1>6 DEF Bytes
<1>8. CASE n % 2 = 0
  <2>1. Len(b) = k /\ n = 2 * k /\ n \div 2 = k /\ (n + 1) \div 2 = k /\ (n + 2) \div 2 = k + 1
    BY <1>2, <1>4, <1>8
  <2>2. PICK x \in Nat : x = (16 * byte) % 256
    <3>1. (16 * byte) % 256 \in Nat
      BY <1>1
    <3> QED BY <3>1
  <2>3. x = 16 * (v \div 16)
    BY <1>6, <1>8, <2>1, <2>2 DEF Fits
  <2>4. /\ Append(b, x) \in Seq(Nat) /\ Len(Append(b, x)) = k + 1 /\ Append(b, x)[k + 1] = x
        /\ \A i \in 1..k : Append(b, x)[i] = b[i]
    BY <1>2, <2>1, AppendProperties
  <2>5. PICK e \in Seq(Nat) : /\ e = Append(b, x) /\ Len(e) = k + 1 /\ e[k + 1] = x
                             /\ \A i \in 1..k : e[i] = b[i]
    BY <2>4, Zenon
  <2>6. IsReading(Taken(r, byte), n + 1, c, e, s)
    <3>1. e = Append(b, (16 * byte) % 256)
      BY <2>2, <2>5
    <3>2. IsReading(Taken(r, byte), n + 1, c, Append(b, (16 * byte) % 256), s)
      BY <1>8, ReadingBegins, ZenonT(40)
    <3> QED BY <3>1, <3>2, Zenon
  <2>7. \A i \in 1..Len(e) : e[i] = IF 2 * i <= n + 1 THEN d[i] ELSE 16 * (d[i] \div 16)
    <3>1. ASSUME NEW i \in 1..k
          PROVE  e[i] = d[i] /\ 2 * i <= n + 1
      <4>1. 2 * i <= n /\ 2 * i <= n + 1 /\ i \in 1..Len(b)
        BY <2>1
      <4>2. b[i] = d[i]
        BY <4>1 DEF Collected
      <4> QED BY <2>5, <4>1, <4>2
    <3>2. e[k + 1] = 16 * (d[k + 1] \div 16) /\ ~(2 * (k + 1) <= n + 1)
      BY <1>6, <2>1, <2>3, <2>5
    <3>3. \A i \in 1..(k + 1) : i \in 1..k \/ i = k + 1
      OBVIOUS
    <3> QED BY <2>5, <3>1, <3>2, <3>3
  <2>8. Summed(n + 1) = Summed(n)
    BY <2>1 DEF Summed
  <2>9. s = RunningSum(d)[Summed(n + 1)]
    BY <2>8 DEF Collected
  <2>10. Collected(e, s, d, n + 1)
    BY <1>2, <1>5, <2>1, <2>5, <2>7, <2>9 DEF Collected
  <2> QED BY <2>6, <2>10
<1>9. CASE n % 2 # 0
  <2>1. /\ Len(b) = k + 1 /\ n = 2 * k + 1 /\ n \div 2 = k /\ (n + 1) \div 2 = k + 1
        /\ (n + 2) \div 2 = k + 1
    BY <1>2, <1>4, <1>9
  <2>2. b[k + 1] = 16 * (v \div 16)
    <3>1. ~(2 * (k + 1) <= n) /\ k + 1 \in 1..Len(b)
      BY <2>1
    <3> QED BY <1>6, <3>1 DEF Collected
  <2>3. b[Len(b)] + (byte % 16) = v
    <3>1. byte % 16 = v % 16
      BY <1>6, <1>9, <2>1 DEF Fits
    <3> QED BY <1>7, <2>1, <2>2, <3>1
  <2>4. /\ [b EXCEPT ![k + 1] = v] \in Seq(Nat) /\ Len([b EXCEPT ![k + 1] = v]) = k + 1
        /\ [b EXCEPT ![k + 1] = v][k + 1] = v
        /\ \A i \in 1..k : [b EXCEPT ![k + 1] = v][i] = b[i]
    <3>1. k + 1 \in 1..Len(b) /\ \A i \in 1..k : i \in 1..Len(b) /\ i # k + 1
      BY <2>1
    <3> QED BY <1>2, <1>7, <2>1, <3>1
  <2>5. PICK e \in Seq(Nat) : /\ e = [b EXCEPT ![k + 1] = v] /\ Len(e) = k + 1 /\ e[k + 1] = v
                             /\ \A i \in 1..k : e[i] = b[i]
    BY <2>4, Zenon
  <2>6. PICK t \in Bytes : t = IF k + 1 <= PageBytes THEN (s + v) % 256 ELSE s
    <3>1. CASE k + 1 <= PageBytes
      <4>1. s + v \in Nat
        BY <1>2, <1>7 DEF Bytes
      <4>2. (s + v) % 256 \in Bytes
        BY <4>1, Modulo
      <4> QED BY <3>1, <4>2
    <3>2. CASE ~(k + 1 <= PageBytes)
      BY <1>2, <3>2
    <3> QED BY <3>1, <3>2
  <2>7. IsReading(Taken(r, byte), n + 1, c, e, t)
    <3>1. PICK i : i = Len(b)
      OBVIOUS
    <3>2. v = b[i] + (byte % 16) /\ e = [b EXCEPT ![i] = v]
      BY <2>1, <2>3, <2>5, <3>1
    <3>3. t = NewSum(i, s, v)
      BY <2>1, <2>6, <3>1 DEF NewSum
    <3>4. IsReading(Taken(r, byte), n + 1, c, Replaced(b, i, v), NewSum(i, s, v))
      BY <1>1, <1>9, <3>1, <3>2, ReadingCompletes, Zenon
    <3> QED BY <3>2, <3>3, <3>4, Zenon DEF Replaced
  <2>8. \A i \in 1..Len(e) : e[i] = IF 2 * i <= n + 1 THEN d[i] ELSE 16 * (d[i] \div 16)
    <3>1. ASSUME NEW i \in 1..k
          PROVE  e[i] = d[i] /\ 2 * i <= n + 1
      <4>1. 2 * i <= n /\ 2 * i <= n + 1 /\ i \in 1..Len(b)
        BY <2>1
      <4>2. b[i] = d[i]
        BY <4>1 DEF Collected
      <4> QED BY <2>5, <4>1, <4>2
    <3>2. e[k + 1] = d[k + 1] /\ 2 * (k + 1) <= n + 1
      BY <1>6, <2>1, <2>5
    <3>3. \A i \in 1..(k + 1) : i \in 1..k \/ i = k + 1
      OBVIOUS
    <3> QED BY <2>5, <3>1, <3>2, <3>3
  <2>9. t = RunningSum(d)[Summed(n + 1)]
    <3>1. s = RunningSum(d)[k]
      BY <1>5, <2>1 DEF Collected, Summed
    <3>2. CASE k + 1 <= PageBytes
      <4>1. Summed(n + 1) = k + 1 /\ k + 1 \in 1..PageBytes /\ (k + 1) - 1 = k
        BY <1>1, <2>1, <3>2 DEF Summed
      <4>2. RunningSum(d)[k + 1] = (RunningSum(d)[(k + 1) - 1] + d[k + 1]) % 256
        BY <1>3, <4>1, SumRuns
      <4> QED BY <1>6, <2>6, <3>1, <3>2, <4>1, <4>2
    <3>3. CASE ~(k + 1 <= PageBytes)
      <4>1. Summed(n + 1) = PageBytes /\ k = PageBytes
        BY <1>1, <1>5, <2>1, <3>3 DEF Summed
      <4> QED BY <2>6, <3>1, <3>3, <4>1
    <3> QED BY <3>2, <3>3
  <2>10. Collected(e, t, d, n + 1)
    BY <1>5, <2>1, <2>5, <2>6, <2>8, <2>9 DEF Collected
  <2> QED BY <2>7, <2>10
<1> QED BY <1>8, <1>9

\* A block and its checksum, and the first byte of the command of a message.
Data(m) ==
    [i \in 1..(PageBytes + 1) |->
        IF i <= PageBytes THEN NewImage[m][i] ELSE ByteSum(NewImage[m])]
Code(m) == IF m <= Len(NewImage) THEN 126 ELSE 127

LEMMA ImagePages ==
    /\ PageBytes \in Nat /\ PageBytes >= 1 /\ Len(NewImage) \in Nat
    /\ \A m \in 1..Len(NewImage) : NewImage[m] \in [1..PageBytes -> 0..255]
<1>1. PICK U : U = [1..PageBytes -> 0..255]
  OBVIOUS
<1>2. NewImage \in Seq(U)
  BY <1>1, ControllerLoaderAssumption, Zenon
<1>3. Len(NewImage) \in Nat /\ \A m \in 1..Len(NewImage) : NewImage[m] \in U
  BY <1>2, SeqFacts
<1>4. PageBytes \in Nat /\ PageBytes >= 1
  BY ControllerLoaderAssumption
<1> QED BY <1>1, <1>3, <1>4

LEMMA PageData ==
    ASSUME NEW m \in 1..Len(NewImage)
    PROVE  /\ IsBytes(Data(m)) /\ Data(m)[PageBytes + 1] = RunningSum(Data(m))[PageBytes]
           /\ NewImage[m] = [i \in 1..PageBytes |-> Data(m)[i]]
           /\ Data(m)[PageBytes + 1] = ByteSum(NewImage[m])
           /\ \A i \in 1..PageBytes : Data(m)[i] = NewImage[m][i]
<1>1. NewImage[m] \in [1..PageBytes -> 0..255] /\ PageBytes \in Nat /\ PageBytes >= 1
  BY ImagePages
<1>2. PICK w \in [1..PageBytes -> 0..255] : w = NewImage[m]
  BY <1>1
<1>3. IsData(w)
  BY DEF IsData, Bytes
<1>4. ByteSum(w) = RunningSum(w)[PageBytes]
  BY DEF ByteSum, RunningSum
<1>5. ByteSum(w) \in Bytes
  <2>1. RunningSum(w) \in [0..PageBytes -> Bytes]
    BY <1>3, SumRuns
  <2> QED BY <1>1, <1>4, <2>1
<1>6. PICK z \in Bytes : z = ByteSum(w)
  BY <1>5
<1>7. PICK d : d = [i \in 1..(PageBytes + 1) |-> IF i <= PageBytes THEN w[i] ELSE z]
  OBVIOUS
<1>8. Data(m) = d
  BY <1>2, <1>6, <1>7, Zenon DEF Data
<1>9. IsBytes(d) /\ (\A i \in 1..PageBytes : d[i] = w[i]) /\ d[PageBytes + 1] = z
  <2>1. \A i \in 1..PageBytes : i \in 1..(PageBytes + 1) /\ i <= PageBytes
    BY <1>1
  <2>2. PageBytes + 1 \in 1..(PageBytes + 1) /\ ~(PageBytes + 1 <= PageBytes)
    BY <1>1
  <2>3. \A i \in 1..PageBytes : d[i] = w[i] /\ d[i] \in Bytes
    BY <1>7, <2>1 DEF Bytes
  <2>4. d[PageBytes + 1] = z
    BY <1>7, <2>2
  <2>5. \A i \in 1..(PageBytes + 1) : i \in 1..PageBytes \/ i = PageBytes + 1
    BY <1>1
  <2> QED BY <2>3, <2>4, <2>5 DEF IsBytes
<1>10. RunningSum(d)[PageBytes] = z
  <2>1. PageBytes \in 0..PageBytes
    BY <1>1
  <2> QED BY <1>3, <1>4, <1>6, <1>9, <2>1, BytesAreData, SameSum
<1>11. w = [i \in 1..PageBytes |-> d[i]]
  BY <1>9
<1> QED BY <1>2, <1>6, <1>8, <1>9, <1>10, <1>11

\* The two nibbles of a byte.
LEMMA NibblesOfByte ==
    ASSUME NEW v \in 0..255
    PROVE  /\ v \div 16 \in 0..15 /\ (16 * (v \div 16)) % 256 = 16 * (v \div 16)
           /\ v % 16 \in 0..15 /\ (v % 16) % 16 = v % 16
  OBVIOUS

LEMMA NibbleFits ==
    ASSUME NEW d, IsBytes(d), NEW w \in Seq(Bytes), Len(w) = PageBytes + 1,
           \A i \in 1..(PageBytes + 1) : w[i] = d[i], NEW n \in 0..(2 * PageBytes + 1)
    PROVE  Nibbles(w)[n + 1] \in 0..15 /\ Fits(Nibbles(w)[n + 1], d, n)
<1>1. n \in Nat /\ PageBytes \in Nat
  BY ControllerLoaderAssumption
<1>2. PICK k \in Nat :
          \/ /\ n = 2 * k /\ n % 2 = 0 /\ n \div 2 = k /\ (n + 1) \div 2 = k
             /\ (n + 2) \div 2 = k + 1
          \/ /\ n = 2 * k + 1 /\ n % 2 = 1 /\ n \div 2 = k /\ (n + 1) \div 2 = k + 1
             /\ (n + 2) \div 2 = k + 1
  BY <1>1, Halves
<1>3. k + 1 \in 1..(PageBytes + 1) /\ n + 1 \in 1..(2 * Len(w)) /\ (n + 1) + 1 = n + 2
  BY <1>1, <1>2
<1>4. PICK v \in 0..255 : v = d[k + 1]
  BY <1>3 DEF IsBytes, Bytes
<1>5. w[((n + 1) + 1) \div 2] = v
  BY <1>2, <1>3, <1>4
<1>6. Nibbles(w)[n + 1] = IF (n + 1) % 2 = 1 THEN v \div 16 ELSE v % 16
  BY <1>3, <1>5 DEF Nibbles
<1>7. CASE n % 2 = 0
  <2>1. (n + 1) % 2 = 1 /\ n \div 2 = k
    BY <1>1, <1>2, <1>7
  <2>2. PICK h \in 0..15 : h = v \div 16 /\ (16 * h) % 256 = 16 * h
    BY NibblesOfByte
  <2>3. Nibbles(w)[n + 1] = h
    BY <1>6, <2>1, <2>2
  <2>4. (16 * h) % 256 = 16 * (d[(n \div 2) + 1] \div 16)
    BY <1>4, <2>1, <2>2
  <2> QED BY <1>7, <2>3, <2>4, Zenon DEF Fits
<1>8. CASE n % 2 # 0
  <2>1. (n + 1) % 2 = 0 /\ n \div 2 = k
    BY <1>1, <1>2, <1>8
  <2>2. PICK h \in 0..15 : h = v % 16 /\ h % 16 = h
    BY NibblesOfByte
  <2>3. Nibbles(w)[n + 1] = h
    BY <1>6, <2>1, <2>2
  <2> QED BY <1>4, <1>8, <2>1, <2>2, <2>3 DEF Fits
<1> QED BY <1>7, <1>8

LEMMA Joined ==
    ASSUME NEW a \in Seq(0..255), NEW b \in Seq(0..255), NEW e, e = a \o b
    PROVE  /\ e \in Seq(0..255) /\ Len(e) = Len(a) + Len(b)
           /\ (\A i \in 1..Len(a) : e[i] = a[i]) /\ \A i \in 1..Len(b) : e[Len(a) + i] = b[i]
<1>1. /\ a \o b \in Seq(0..255) /\ Len(a \o b) = Len(a) + Len(b)
      /\ \A i \in 1..(Len(a) + Len(b)) :
            (a \o b)[i] = IF i <= Len(a) THEN a[i] ELSE b[i - Len(a)]
  BY ConcatProperties
<1>2. Len(a) \in Nat /\ Len(b) \in Nat
  OBVIOUS
<1>3. PICK x \in Nat, y \in Nat : x = Len(a) /\ y = Len(b)
  BY <1>2
<1>4. \A i \in 1..(x + y) : e[i] = IF i <= x THEN a[i] ELSE b[i - x]
  BY <1>1, <1>3
<1>5. \A i \in 1..x : i \in 1..(x + y) /\ i <= x
  OBVIOUS
<1>6. \A i \in 1..y : x + i \in 1..(x + y) /\ ~(x + i <= x) /\ (x + i) - x = i
  OBVIOUS
<1>7. (\A i \in 1..x : e[i] = a[i]) /\ \A i \in 1..y : e[x + i] = b[i]
  BY <1>4, <1>5, <1>6
<1> QED BY <1>1, <1>3, <1>7

\* What is sent.
SendsHeader(s) == \A p \in 1..6 : s[p] = sysex_header[p]
SendsNibbles(s, m) ==
    \A n \in 0..(2 * PageBytes + 1) : s[n + 9] \in 0..15 /\ Fits(s[n + 9], Data(m), n)

LEMMA BlockBytes ==
    ASSUME NEW m \in 1..Len(NewImage), NEW s, s = UpdateMessages[m]
    PROVE  /\ Len(s) = 2 * PageBytes + 11 /\ SendsHeader(s) /\ s[7] = 126 /\ s[8] = 0
           /\ SendsNibbles(s, m) /\ s[2 * PageBytes + 11] = 247
<1>1. Len(NewImage) \in Nat /\ PageBytes \in Nat /\ NewImage[m] \in [1..PageBytes -> 0..255]
  BY ImagePages
<1>2. s = BlockMessage(NewImage[m])
  BY <1>1 DEF UpdateMessages
<1>3. PICK block \in [1..PageBytes -> 0..255] : block = NewImage[m]
  BY <1>1
<1>4. PICK z \in Bytes : z = ByteSum(block)
  <2>1. PageBytes + 1 \in 1..(PageBytes + 1)
    BY <1>1
  <2>2. Data(m)[PageBytes + 1] \in Bytes
    BY <2>1, PageData DEF IsBytes
  <2>3. Data(m)[PageBytes + 1] = ByteSum(block)
    BY <1>3, PageData
  <2> QED BY <2>2, <2>3, Zenon
<1>5. PICK u \in Seq(Bytes) : u = [i \in 1..PageBytes |-> block[i]] /\ Len(u) = PageBytes
  <2>1. [i \in 1..PageBytes |-> block[i]] \in Seq(Bytes)
    BY <1>1 DEF Bytes
  <2>2. Len([i \in 1..PageBytes |-> block[i]]) = PageBytes
    BY <1>1
  <2> QED BY <2>1, <2>2
<1>6. PICK w : w = u \o <<z>>
  OBVIOUS
<1>7. w \in Seq(Bytes) /\ Len(w) = PageBytes + 1 /\ w[PageBytes + 1] = z
      /\ \A i \in 1..PageBytes : w[i] = u[i]
  BY <1>1, <1>5, <1>6
<1>8. \A i \in 1..(PageBytes + 1) : w[i] = Data(m)[i]
  <2>1. \A i \in 1..(PageBytes + 1) : i \in 1..PageBytes \/ i = PageBytes + 1
    BY <1>1
  <2>2. \A i \in 1..PageBytes : w[i] = Data(m)[i]
    BY <1>3, <1>5, <1>7, PageData
  <2>3. w[PageBytes + 1] = Data(m)[PageBytes + 1]
    BY <1>3, <1>4, <1>7, PageData
  <2> QED BY <2>1, <2>2, <2>3
<1>9. PICK f : f = Nibbles(w)
  OBVIOUS
<1>10. \A n \in 0..(2 * PageBytes + 1) : f[n + 1] \in 0..15 /\ Fits(f[n + 1], Data(m), n)
  <2>1. IsBytes(Data(m))
    BY PageData
  <2>2. PICK d : d = Data(m)
    OBVIOUS
  <2>3. \A n \in 0..(2 * PageBytes + 1) :
            Nibbles(w)[n + 1] \in 0..15 /\ Fits(Nibbles(w)[n + 1], d, n)
    BY <1>7, <1>8, <2>1, <2>2, NibbleFits, ZenonT(40)
  <2> QED BY <1>9, <2>2, <2>3
<1>11. f \in Seq(0..255) /\ Len(f) = 2 * PageBytes + 2
  <2>1. PICK l \in Nat : l = 2 * PageBytes + 2
    BY <1>1
  <2>2. DOMAIN f = 1..l /\ f = [i \in 1..l |-> f[i]]
    BY <1>1, <1>7, <1>9, <2>1 DEF Nibbles
  <2>3. \A i \in 1..l : f[i] \in 0..255
    <3> SUFFICES ASSUME NEW i \in 1..l
                 PROVE  f[i] \in 0..255
      OBVIOUS
    <3>1. i - 1 \in 0..(2 * PageBytes + 1) /\ (i - 1) + 1 = i
      BY <1>1, <2>1
    <3>2. f[i] \in 0..15
      BY <1>10, <3>1
    <3> QED BY <3>2
  <2>4. f \in [1..l -> 0..255]
    BY <2>2, <2>3
  <2>5. f \in Seq(0..255)
    BY <2>4, IsASeq
  <2>6. Len(f) = l
    BY <2>2, <2>5, LenProperties
  <2> QED BY <2>1, <2>5, <2>6
<1>12. PICK h \in Seq(0..255) : /\ h = sysex_header /\ Len(h) = 6
                               /\ \A p \in 1..6 : h[p] = sysex_header[p]
  <2>1. sysex_header \in Seq(0..255) /\ Len(sysex_header) = 6
    BY DEF sysex_header
  <2> QED BY <2>1
<1>13. PICK c \in Seq(0..255) : c = <<126, 0>> /\ Len(c) = 2 /\ c[1] = 126 /\ c[2] = 0
  <2>1. <<126, 0>> \in Seq(0..255)
    OBVIOUS
  <2> QED BY <2>1
<1>14. PICK g : g = h \o c
  OBVIOUS
<1>15. g \in Seq(0..255) /\ Len(g) = 8 /\ g[7] = 126 /\ g[8] = 0 /\ SendsHeader(g)
  <2>1. /\ g \in Seq(0..255) /\ Len(g) = Len(h) + Len(c)
        /\ (\A i \in 1..Len(h) : g[i] = h[i]) /\ \A i \in 1..Len(c) : g[Len(h) + i] = c[i]
    BY <1>14, Joined
  <2>2. g[6 + 1] = c[1] /\ g[6 + 2] = c[2]
    BY <1>12, <1>13, <2>1
  <2> QED BY <1>12, <1>13, <2>1, <2>2 DEF SendsHeader
<1>16. PICK e : e = g \o f
  OBVIOUS
<1>17. /\ e \in Seq(0..255) /\ Len(e) = 2 * PageBytes + 10
       /\ (\A i \in 1..8 : e[i] = g[i]) /\ \A n \in 0..(2 * PageBytes + 1) : e[n + 9] = f[n + 1]
  <2>1. /\ e \in Seq(0..255) /\ Len(e) = Len(g) + Len(f)
        /\ (\A i \in 1..Len(g) : e[i] = g[i]) /\ \A i \in 1..Len(f) : e[Len(g) + i] = f[i]
    <3>1. g \in Seq(0..255) /\ f \in Seq(0..255)
      BY <1>11, <1>15
    <3> QED BY <1>16, <3>1, Joined
  <2>2. ASSUME NEW n \in 0..(2 * PageBytes + 1)
        PROVE  e[n + 9] = f[n + 1]
    <3>1. n + 1 \in 1..Len(f) /\ 8 + (n + 1) = n + 9
      BY <1>1, <1>11
    <3>2. e[8 + (n + 1)] = f[n + 1]
      BY <1>15, <2>1, <3>1
    <3> QED BY <3>1, <3>2
  <2> QED BY <1>1, <1>11, <1>15, <2>1, <2>2
<1>18. s = e \o <<247>>
  BY <1>2, <1>3, <1>4, <1>5, <1>6, <1>9, <1>12, <1>13, <1>14, <1>16, ZenonT(40)
     DEF BlockMessage, EndOfSysEx
<1>19. /\ Len(s) = 2 * PageBytes + 11 /\ s[2 * PageBytes + 11] = 247
       /\ \A i \in 1..(2 * PageBytes + 10) : s[i] = e[i]
  <2>1. PICK c1 \in Seq(0..255) : c1 = <<247>> /\ Len(c1) = 1 /\ c1[1] = 247
    <3>1. <<247>> \in Seq(0..255)
      OBVIOUS
    <3> QED BY <3>1
  <2>2. /\ Len(s) = Len(e) + Len(c1)
        /\ (\A i \in 1..Len(e) : s[i] = e[i]) /\ \A i \in 1..Len(c1) : s[Len(e) + i] = c1[i]
    BY <1>17, <1>18, <2>1, Joined, SMTT(40)
  <2>3. 1 \in 1..Len(c1) /\ Len(e) + 1 = 2 * PageBytes + 11
    BY <1>1, <1>17, <2>1, SMTT(40)
  <2>4. s[Len(e) + 1] = 247
    BY <2>1, <2>2, <2>3
  <2> QED BY <1>17, <2>1, <2>2, <2>3, <2>4, SMTT(40)
<1>20. SendsHeader(s) /\ s[7] = 126 /\ s[8] = 0
  <2>1. \A i \in 1..8 : i \in 1..(2 * PageBytes + 10)
    BY <1>1
  <2>2. ASSUME NEW i \in 1..8
        PROVE  s[i] = g[i]
    <3>1. s[i] = e[i]
      BY <1>19, <2>1
    <3>2. e[i] = g[i]
      BY <1>17
    <3> QED BY <3>1, <3>2
  <2> QED BY <1>15, <2>2 DEF SendsHeader
<1>21. ASSUME NEW n \in 0..(2 * PageBytes + 1)
       PROVE  s[n + 9] = f[n + 1]
  <2>1. n + 9 \in 1..(2 * PageBytes + 10)
    BY <1>1
  <2>2. s[n + 9] = e[n + 9]
    BY <1>19, <2>1
  <2>3. e[n + 9] = f[n + 1]
    BY <1>17
  <2> QED BY <2>2, <2>3
<1>22. SendsNibbles(s, m)
  BY <1>10, <1>21 DEF SendsNibbles
<1> QED BY <1>19, <1>20, <1>22

LEMMA ResetBytes ==
    ASSUME NEW s, s = UpdateMessages[Len(NewImage) + 1]
    PROVE  /\ Len(s) = 9 /\ SendsHeader(s) /\ s[7] = 127 /\ s[8] = 0 /\ s[9] = 247
<1>1. Len(NewImage) \in Nat
  BY ControllerLoaderAssumption
<1>2. s = ResetMessage
  BY <1>1 DEF UpdateMessages
<1> QED BY <1>2 DEF ResetMessage, sysex_header, SendsHeader, EndOfSysEx

\* A buffer that grows, whatever it holds.
Grown(r, n, c, b) ==
    /\ n \in Nat /\ b \in Seq(Nat) /\ Len(b) = (n + 1) \div 2
    /\ \E s : IsReading(r, n, c, b, s)

SameUpTo(e, b, k) == \A i \in 1..k : e[i] = b[i]

LEMMA GrownStep ==
    ASSUME NEW r, NEW n, NEW c, NEW b, Grown(r, n, c, b), NEW byte \in 0..127
    PROVE  \E e : Grown(Taken(r, byte), n + 1, c, e) /\ SameUpTo(e, b, n \div 2)
<1>1. n \in Nat /\ b \in Seq(Nat) /\ Len(b) = (n + 1) \div 2 /\ byte \in Nat
  BY DEF Grown
<1>2. PICK s : IsReading(r, n, c, b, s)
  BY DEF Grown
<1>3. PICK k \in Nat :
          \/ /\ n = 2 * k /\ n % 2 = 0 /\ n \div 2 = k /\ (n + 1) \div 2 = k
             /\ (n + 2) \div 2 = k + 1
          \/ /\ n = 2 * k + 1 /\ n % 2 = 1 /\ n \div 2 = k /\ (n + 1) \div 2 = k + 1
             /\ (n + 2) \div 2 = k + 1
  BY <1>1, Halves
<1>4. (n + 1) + 1 = n + 2 /\ n + 1 \in Nat
  BY <1>1
<1>5. CASE n % 2 = 0
  <2>1. Len(b) = k /\ n \div 2 = k /\ (n + 2) \div 2 = k + 1
    BY <1>1, <1>3, <1>5
  <2>2. PICK x \in Nat : x = (16 * byte) % 256
    <3>1. (16 * byte) % 256 \in Nat
      BY <1>1
    <3> QED BY <3>1
  <2>3. /\ Append(b, x) \in Seq(Nat) /\ Len(Append(b, x)) = k + 1
        /\ \A i \in 1..k : Append(b, x)[i] = b[i]
    BY <1>1, <2>1, AppendProperties
  <2>4. PICK e \in Seq(Nat) : e = Append(b, x) /\ Len(e) = k + 1 /\ \A i \in 1..k : e[i] = b[i]
    BY <2>3, Zenon
  <2>5. IsReading(Taken(r, byte), n + 1, c, e, s)
    <3>1. e = Append(b, (16 * byte) % 256)
      BY <2>2, <2>4
    <3>2. IsReading(Taken(r, byte), n + 1, c, Append(b, (16 * byte) % 256), s)
      BY <1>2, <1>5, ReadingBegins, ZenonT(40)
    <3> QED BY <3>1, <3>2, Zenon
  <2>6. Grown(Taken(r, byte), n + 1, c, e)
    BY <1>4, <2>1, <2>4, <2>5 DEF Grown
  <2> QED BY <2>1, <2>4, <2>6 DEF SameUpTo
<1>6. CASE n % 2 # 0
  <2>1. Len(b) = k + 1 /\ n \div 2 = k /\ (n + 2) \div 2 = k + 1
    BY <1>1, <1>3, <1>6
  <2>2. PICK v \in Nat : v = b[k + 1] + (byte % 16)
    <3>1. k + 1 \in 1..Len(b)
      BY <2>1
    <3>2. b[k + 1] \in Nat /\ byte % 16 \in Nat
      BY <1>1, <3>1
    <3> QED BY <3>2
  <2>3. /\ [b EXCEPT ![k + 1] = v] \in Seq(Nat) /\ Len([b EXCEPT ![k + 1] = v]) = k + 1
        /\ \A i \in 1..k : [b EXCEPT ![k + 1] = v][i] = b[i]
    <3>1. k + 1 \in 1..Len(b) /\ \A i \in 1..k : i \in 1..Len(b) /\ i # k + 1
      BY <2>1
    <3> QED BY <1>1, <2>1, <3>1
  <2>4. PICK e \in Seq(Nat) : /\ e = [b EXCEPT ![k + 1] = v] /\ Len(e) = k + 1
                             /\ \A i \in 1..k : e[i] = b[i]
    BY <2>3, Zenon
  <2>5. \E t : IsReading(Taken(r, byte), n + 1, c, e, t)
    <3>1. PICK i : i = Len(b)
      OBVIOUS
    <3>2. v = b[i] + (byte % 16) /\ e = [b EXCEPT ![i] = v]
      BY <2>1, <2>2, <2>4, <3>1
    <3>3. IsReading(Taken(r, byte), n + 1, c, Replaced(b, i, v), NewSum(i, s, v))
      BY <1>1, <1>2, <1>6, <3>1, <3>2, ReadingCompletes, Zenon
    <3> QED BY <3>2, <3>3, Zenon DEF Replaced
  <2>6. Grown(Taken(r, byte), n + 1, c, e)
    BY <1>4, <2>1, <2>4, <2>5 DEF Grown
  <2> QED BY <2>1, <2>4, <2>6 DEF SameUpTo
<1> QED BY <1>5, <1>6

LEMMA CollectedGrows ==
    ASSUME NEW r, NEW n \in Nat, NEW c, NEW b, NEW s, NEW d, IsReading(r, n, c, b, s),
           Collected(b, s, d, n)
    PROVE  Grown(r, n, c, b)
  BY DEF Grown, Collected

\* Whatever nibble comes, the buffer holds data that differs at one place at most.
DiffersAt(d, e, j) == \A i \in 1..(PageBytes + 1) : i # j => e[i] = d[i]

BeginsAs(byte, x) == (16 * byte) % 256 = 16 * (x \div 16)
EndsAs(byte, v, x) == byte % 16 = x % 16 /\ x \div 16 = v \div 16

LEMMA BeginningNibble ==
    ASSUME NEW byte \in 0..127
    PROVE  \E x \in 0..255 : BeginsAs(byte, x)
<1>1. PICK l \in 0..15 : l = byte % 16
  OBVIOUS
<1>2. (16 * byte) % 256 = 16 * l
  BY <1>1
<1>3. 16 * l \in 0..255 /\ (16 * l) \div 16 = l
  OBVIOUS
<1> QED BY <1>2, <1>3 DEF BeginsAs

LEMMA EndingNibble ==
    ASSUME NEW v \in 0..255, NEW byte \in 0..127
    PROVE  \E x \in 0..255 : EndsAs(byte, v, x)
<1>1. PICK l \in 0..15 : l = byte % 16
  OBVIOUS
<1>2. PICK h \in 0..15 : h = v \div 16
  OBVIOUS
<1>3. 16 * h + l \in 0..255 /\ (16 * h + l) % 16 = l /\ (16 * h + l) \div 16 = h
  OBVIOUS
<1> QED BY <1>1, <1>2, <1>3 DEF EndsAs

LEMMA AnyNibble ==
    ASSUME NEW n \in 0..(2 * PageBytes + 1), NEW d, IsBytes(d), NEW b, NEW s,
           Collected(b, s, d, n), NEW byte \in 0..127
    PROVE  \E e : /\ IsBytes(e) /\ DiffersAt(d, e, (n \div 2) + 1)
                  /\ Collected(b, s, e, n) /\ Fits(byte, e, n)
<1>1. n \in Nat /\ PageBytes \in Nat
  BY ControllerLoaderAssumption
<1>2. b \in Seq(Nat) /\ Len(b) = (n + 1) \div 2 /\ s \in Bytes
  BY DEF Collected
<1>3. PICK k \in Nat :
          \/ /\ n = 2 * k /\ n % 2 = 0 /\ n \div 2 = k /\ (n + 1) \div 2 = k
             /\ (n + 2) \div 2 = k + 1
          \/ /\ n = 2 * k + 1 /\ n % 2 = 1 /\ n \div 2 = k /\ (n + 1) \div 2 = k + 1
             /\ (n + 2) \div 2 = k + 1
  BY <1>1, Halves
<1>4. n \div 2 = k /\ k + 1 \in 1..(PageBytes + 1) /\ k \in 0..PageBytes
  BY <1>1, <1>3
<1>5. PICK v \in 0..255 : v = d[k + 1]
  BY <1>4 DEF IsBytes, Bytes
<1>6. PICK x \in 0..255 :
          (n % 2 = 0 => BeginsAs(byte, x)) /\ (n % 2 # 0 => EndsAs(byte, v, x))
  <2>1. CASE n % 2 = 0
    <3>1. PICK x \in 0..255 : BeginsAs(byte, x)
      BY BeginningNibble, Zenon
    <3> QED BY <2>1, <3>1, ZenonT(40)
  <2>2. CASE n % 2 # 0
    BY <2>2, EndingNibble, Zenon
  <2> QED BY <2>1, <2>2
<1>7. PICK e : e = [i \in 1..(PageBytes + 1) |-> IF i = k + 1 THEN x ELSE d[i]]
  OBVIOUS
<1>8. IsBytes(e) /\ DiffersAt(d, e, k + 1) /\ e[k + 1] = x
  <2>1. \A i \in 1..(PageBytes + 1) : d[i] \in Bytes
    BY DEF IsBytes
  <2>2. \A i \in 1..(PageBytes + 1) : e[i] = IF i = k + 1 THEN x ELSE d[i]
    BY <1>7
  <2>3. \A i \in 1..(PageBytes + 1) : e[i] \in Bytes
    BY <2>1, <2>2, SMTT(40) DEF Bytes
  <2>4. e[k + 1] = x
    BY <1>4, <2>2
  <2> QED BY <2>2, <2>3, <2>4 DEF IsBytes, DiffersAt
<1>9. Fits(byte, e, n)
  BY <1>4, <1>6, <1>8 DEF Fits, BeginsAs, EndsAs
<1>10. Summed(n) = k
  BY <1>1, <1>4 DEF Summed
<1>11. RunningSum(e)[k] = RunningSum(d)[k]
  <2>1. \A i \in 1..k : i \in 1..(PageBytes + 1) /\ i # k + 1
    BY <1>1, <1>4
  <2>2. \A i \in 1..k : e[i] = d[i]
    BY <1>8, <2>1 DEF DiffersAt
  <2>3. IsData(d) /\ IsData(e)
    BY <1>8, BytesAreData
  <2>4. k \in 0..PageBytes /\ \A i \in 1..k : d[i] = e[i]
    BY <1>4, <2>2
  <2>5. RunningSum(d)[k] = RunningSum(e)[k]
    BY ONLY <2>3, <2>4, SameSum
  <2> QED BY <2>5
<1>12. \A i \in 1..Len(b) : b[i] = IF 2 * i <= n THEN e[i] ELSE 16 * (e[i] \div 16)
  <2> SUFFICES ASSUME NEW i \in 1..Len(b)
               PROVE  b[i] = IF 2 * i <= n THEN e[i] ELSE 16 * (e[i] \div 16)
    OBVIOUS
  <2>1. b[i] = IF 2 * i <= n THEN d[i] ELSE 16 * (d[i] \div 16)
    BY DEF Collected
  <2>2. CASE i # k + 1
    <3>1. i \in 1..(PageBytes + 1)
      BY <1>1, <1>2, <1>3, <1>4
    <3>2. e[i] = d[i]
      BY <1>8, <2>2, <3>1 DEF DiffersAt
    <3> QED BY <2>1, <3>2
  <2>3. CASE i = k + 1
    <3>1. n % 2 # 0 /\ ~(2 * i <= n)
      BY <1>1, <1>2, <1>3, <2>3
    <3>2. x \div 16 = v \div 16
      BY <1>6, <3>1 DEF EndsAs
    <3> QED BY <1>5, <1>8, <2>1, <2>3, <3>1, <3>2
  <2> QED BY <2>2, <2>3
<1>13. Collected(b, s, e, n)
  <2>1. s = RunningSum(d)[k]
    BY <1>10 DEF Collected
  <2> QED BY <1>2, <1>10, <1>11, <1>12, <2>1 DEF Collected
<1> QED BY <1>4, <1>8, <1>9, <1>13

LEMMA PairAppended ==
    ASSUME NEW x \in Nat, NEW y \in Nat
    PROVE  Append(<<x>>, y) = <<x, y>>
<1>1. PICK s \in Seq(Nat) : s = <<x>> /\ Len(s) = 1 /\ s[1] = x
  <2>1. <<x>> \in Seq(Nat) /\ Len(<<x>>) = 1 /\ <<x>>[1] = x
    OBVIOUS
  <2> QED BY <2>1
<1>2. PICK t \in Seq(Nat) : t = <<x, y>> /\ Len(t) = 2 /\ t[1] = x /\ t[2] = y
  <2>1. <<x, y>> \in Seq(Nat) /\ Len(<<x, y>>) = 2 /\ <<x, y>>[1] = x /\ <<x, y>>[2] = y
    OBVIOUS
  <2> QED BY <2>1
<1>3. PICK a \in Seq(Nat) :
          /\ a = Append(s, y) /\ Len(a) = Len(s) + 1
          /\ (\A i \in 1..Len(s) : a[i] = s[i]) /\ a[Len(s) + 1] = y
  <2>1. /\ Append(s, y) \in Seq(Nat) /\ Len(Append(s, y)) = Len(s) + 1
        /\ \A i \in 1..Len(s) : Append(s, y)[i] = s[i]
        /\ Append(s, y)[Len(s) + 1] = y
    BY AppendProperties
  <2> QED BY <2>1, Zenon
<1>4. Len(a) = Len(t) /\ \A i \in 1..Len(a) : a[i] = t[i]
  <2>1. Len(a) = 2 /\ a[1] = x /\ a[2] = y
    <3>1. 1 \in 1..Len(s) /\ Len(s) + 1 = 2
      BY <1>1
    <3> QED BY <1>1, <1>3, <3>1
  <2> QED BY <1>2, <2>1
<1>5. a = t
  BY <1>4, SeqEqual
<1> QED BY <1>1, <1>2, <1>3, <1>5, Zenon

\* The first command, and the second.
LEMMA FirstCommand ==
    ASSUME NEW byte \in 0..255, NEW r, r = Commanded(<<>>)
    PROVE  /\ ~Finishes(r, byte)
           /\ byte < 128 => Taken(r, byte) = Commanded(<<byte>>)
           /\ byte >= 128 => Taken(r, byte) = r \/ Taken(r, byte) = Matching(0)
<1>1. PICK c \in Seq(0..127) : c = <<>> /\ Len(c) = 0
  <2>1. <<>> \in Seq(0..127) /\ Len(<<>>) = 0
    OBVIOUS
  <2> QED BY <2>1
<1>2. Len(c) \in 0..1 /\ r = Commanded(c) /\ Append(c, byte) = <<byte>>
  BY <1>1
<1>3. /\ ~Finishes(r, byte) /\ (byte < 128 => Taken(r, byte) = Commanded(Append(c, byte)))
      /\ (byte >= 128 => Taken(r, byte) = r \/ Taken(r, byte) = Matching(0))
  BY <1>1, <1>2, CommandTaken
<1> QED BY <1>2, <1>3

LEMMA SecondCommand ==
    ASSUME NEW x \in 0..127, NEW byte \in 0..255, NEW r, r = Commanded(<<x>>)
    PROVE  /\ ~Finishes(r, byte)
           /\ byte < 128 => IsReading(Taken(r, byte), 0, <<x, byte>>, <<>>, 0)
           /\ byte >= 128 => Taken(r, byte) = r \/ Taken(r, byte) = Matching(0)
           /\ byte = 247 => Taken(r, byte) = Matching(0)
<1>1. PICK c \in Seq(0..127) : c = <<x>> /\ Len(c) = 1
  <2>1. <<x>> \in Seq(0..127) /\ Len(<<x>>) = 1
    OBVIOUS
  <2> QED BY <2>1
<1>2. Len(c) \in 0..1 /\ r = Commanded(c)
  BY <1>1
<1>3. Append(c, byte) = <<x, byte>>
  <2>1. x \in Nat /\ byte \in Nat
    OBVIOUS
  <2>2. Append(<<x>>, byte) = <<x, byte>>
    BY <2>1, PairAppended
  <2> QED BY <1>1, <2>2, Zenon
<1>4. /\ ~Finishes(r, byte)
      /\ (byte < 128 => IsReading(Taken(r, byte), 0, Append(c, byte), <<>>, 0))
      /\ (byte >= 128 => Taken(r, byte) = r \/ Taken(r, byte) = Matching(0))
  BY <1>1, <1>2, CommandTaken, ZenonT(40)
<1>5. byte = 247 => Taken(r, byte) = Matching(0)
  <2>1. byte >= 128 /\ ~Ignored(byte) => Taken(r, byte) = Matching(0)
    BY <1>1, <1>2, CommandTaken
  <2>2. byte = 247 => byte >= 128 /\ ~Ignored(byte)
    BY DEF Ignored
  <2> QED BY <2>1, <2>2
<1> QED BY <1>3, <1>4, <1>5

\* Where the loader is when byte p of message m is next: in step with it; out of step, after a
\* fault; or still reading the message before it, whose end was lost.
InTime(r, m, p) ==
    \/ p \in 1..6 /\ r = Matching(p - 1)
    \/ p = 7 /\ r = Commanded(<<>>)
    \/ p = 8 /\ r = Commanded(<<Code(m)>>)
    \/ /\ p >= 9
       /\ \E b, s : /\ IsReading(r, p - 9, <<Code(m), 0>>, b, s)
                    /\ IF m <= Len(NewImage) THEN Collected(b, s, Data(m), p - 9)
                       ELSE p = 9 /\ b = <<>>

\* Too few nibbles, other commands, or data that is wrong at one place.
Amiss(r, m, n, c, b, k) ==
    \/ n < k
    \/ n = k /\ (m > Len(NewImage) \/ c # <<126, 0>>)
    \/ /\ n = k
       /\ \E d, s : \E j \in 1..(PageBytes + 1) :
             /\ IsBytes(d) /\ DiffersAt(Data(m), d, j)
             /\ IsReading(r, n, c, b, s) /\ Collected(b, s, d, n)
OutOfTime(r, m, p) ==
    \/ p >= 2 /\ r = Matching(0)
    \/ p \in 2..7 /\ r = Matching(p - 2)
    \/ p = 8 /\ r = Commanded(<<>>)
    \/ p \in 8..9 /\ \E x \in 0..127 : (p = 8 => x # Code(m)) /\ r = Commanded(<<x>>)
    \/ p >= 9 /\ \E n, c, b : Grown(r, n, c, b) /\ Amiss(r, m, n, c, b, p - 9)

\* The block may still be written, whole, and nothing else may.
Trailing(r, m, n) ==
    /\ n \in Nat /\ n >= 2 * PageBytes + 2
    /\ \E c, b : /\ Grown(r, n, c, b)
                 /\ n <= 2 * PageBytes + 3 => \A i \in 1..PageBytes : b[i] = NewImage[m][i]
\* failed: how many bytes of message m failed.
Behind(r, m, p, failed, page) ==
    \/ failed = 1 /\ p >= 2 /\ r = Matching(0)
    \/ /\ m >= 2 /\ page <= m - 2
       /\ \E n : Trailing(r, m - 1, n) /\ n >= 2 * PageBytes + p - failed

\* The byte that is sent next.
IsNext(m, p, l, byte) ==
    /\ m \in 1..(Len(NewImage) + 1) /\ p \in 1..l /\ l \in Nat /\ l >= 9 /\ byte \in 0..255
    /\ p <= 6 => byte = sysex_header[p]
    /\ p = 7 => byte = Code(m)
    /\ p = 8 => byte = 0
    /\ p >= 2 /\ p < l => byte < 128
    /\ p = l => byte = 247
    /\ m > Len(NewImage) => l = 9
    /\ m <= Len(NewImage) =>
          /\ l = 2 * PageBytes + 11
          /\ p >= 9 /\ p < l => Fits(byte, Data(m), p - 9)

LEMMA HeaderBytes ==
    \A p \in 1..6 : sysex_header[p] \in 0..255 /\ (p >= 2 => sysex_header[p] < 128)
<1> SUFFICES ASSUME NEW p \in 1..6
             PROVE  sysex_header[p] \in 0..255 /\ (p >= 2 => sysex_header[p] < 128)
  OBVIOUS
<1>1. p = 1 \/ p = 2 \/ p = 3 \/ p = 4 \/ p = 5 \/ p = 6
  OBVIOUS
<1> QED BY <1>1, Header

LEMMA NextBytes ==
    ASSUME NEW m \in 1..(Len(NewImage) + 1), NEW l, l = Len(UpdateMessages[m]), NEW p \in 1..l,
           NEW byte, byte = UpdateMessages[m][p]
    PROVE  IsNext(m, p, l, byte)
<1>1. Len(NewImage) \in Nat /\ PageBytes \in Nat /\ PageBytes >= 1
  BY ImagePages
<1>2. PICK s : s = UpdateMessages[m]
  OBVIOUS
<1>3. CASE m <= Len(NewImage)
  <2>1. m \in 1..Len(NewImage) /\ ~(m > Len(NewImage))
    BY <1>1, <1>3
  <2>2. /\ Len(s) = 2 * PageBytes + 11 /\ SendsHeader(s) /\ s[7] = 126 /\ s[8] = 0
        /\ s[2 * PageBytes + 11] = 247
    BY <1>2, <2>1, BlockBytes
  <2>3. SendsNibbles(s, m)
    BY <1>2, <2>1, BlockBytes
  <2>4. p \in Int /\ l = 2 * PageBytes + 11 /\ byte = s[p]
    BY <1>1, <1>2, <2>2
  <2>5. ASSUME p >= 9, p < l
        PROVE  byte \in 0..15 /\ Fits(byte, Data(m), p - 9)
    <3>1. p - 9 \in 0..(2 * PageBytes + 1) /\ (p - 9) + 9 = p
      BY <1>1, <2>4, <2>5
    <3>2. s[p] \in 0..15 /\ Fits(s[p], Data(m), p - 9)
      BY <2>3, <3>1 DEF SendsNibbles
    <3> QED BY <2>4, <3>2
  <2>6. p <= 6 => byte = sysex_header[p]
    BY <2>2, <2>4 DEF SendsHeader
  <2>7. p \in 2..6 => byte < 128
    BY <2>4, <2>6, HeaderBytes
  <2>8. p <= 6 => byte \in 0..255
    <3>1. p <= 6 => p \in 1..6
      BY <1>1, <2>4
    <3> QED BY <2>6, <3>1, HeaderBytes
  <2>9. /\ l \in Nat /\ l >= 9 /\ (p = 7 => byte = 126) /\ (p = 8 => byte = 0)
        /\ (p = l => byte = 247) /\ Code(m) = 126
    <3>1. s[l] = 247 /\ l \in Nat /\ l >= 9
      BY <1>1, <2>2, <2>4
    <3>2. Code(m) = 126
      BY <2>1 DEF Code
    <3> QED BY <2>2, <2>4, <3>1, <3>2
  <2>10. byte \in 0..255 /\ (p >= 2 /\ p < l => byte < 128)
    <3>1. \/ p <= 6 \/ p = 7 \/ p = 8 \/ p = l
          \/ p >= 9 /\ p < l
      BY <2>4, <2>9
    <3>2. CASE p >= 9 /\ p < l
      <4>1. byte \in 0..15 /\ byte \in 0..255 /\ byte < 128
        BY <2>5, <3>2
      <4> QED BY <4>1
    <3>3. CASE p = l
      BY <2>9, <3>3
    <3>4. CASE p <= 6
      BY <2>4, <2>7, <2>8, <3>4
    <3> QED BY <2>4, <2>9, <3>1, <3>2, <3>3, <3>4
  <2> QED BY <2>1, <2>4, <2>5, <2>6, <2>9, <2>10 DEF IsNext
<1>4. CASE ~(m <= Len(NewImage))
  <2>1. m = Len(NewImage) + 1 /\ m > Len(NewImage)
    BY <1>1, <1>4
  <2>2. Len(s) = 9 /\ SendsHeader(s) /\ s[7] = 127 /\ s[8] = 0 /\ s[9] = 247
    BY <1>2, <2>1, ResetBytes
  <2>3. p \in Int /\ l = 9 /\ byte = s[p]
    BY <1>1, <1>2, <2>2
  <2>4. p <= 6 => byte = sysex_header[p]
    BY <2>2, <2>3 DEF SendsHeader
  <2>5. (p \in 2..6 => byte < 128) /\ (p <= 6 => byte \in 0..255)
    <3>1. (p <= 6 => p \in 1..6) /\ (p \in 2..6 => p \in 1..6 /\ p >= 2 /\ p <= 6)
      BY <2>3
    <3> QED BY <2>4, <3>1, HeaderBytes
  <2>6. Code(m) = 127
    BY <1>4 DEF Code
  <2>7. /\ (p = 7 => byte = 127) /\ (p = 8 => byte = 0) /\ (p = 9 => byte = 247)
        /\ (p >= 2 /\ p < 9 => byte < 128) /\ byte \in 0..255
    <3>1. p \in 1..6 \/ p = 7 \/ p = 8 \/ p = 9
      BY <2>3
    <3>2. CASE p \in 1..6
      <4>1. p # 7 /\ p # 8 /\ p # 9 /\ p <= 6 /\ (p >= 2 => p \in 2..6)
        BY <3>2
      <4> QED BY <2>5, <4>1
    <3>3. CASE p = 7 \/ p = 8 \/ p = 9
      BY <2>2, <2>3, <3>3
    <3> QED BY <3>1, <3>2, <3>3
  <2>8. /\ l \in Nat /\ l >= 9 /\ p \in 1..l /\ (p = 7 => byte = Code(m))
        /\ (p >= 2 /\ p < l => byte < 128) /\ (p = l => byte = 247)
    BY <2>3, <2>6, <2>7
  <2> QED BY <1>4, <2>1, <2>3, <2>4, <2>7, <2>8, Zenon DEF IsNext
<1> QED BY <1>3, <1>4

LEMMA ReadingFields ==
    ASSUME NEW r, NEW n, NEW c, NEW b, NEW s, IsReading(r, n, c, b, s)
    PROVE  /\ r.state = "READING_DATA" /\ r.bytes_read = n /\ r.commands = c /\ r.buffer = b
           /\ r.checksum = s
  BY DEF IsReading, Reading

LEMMA NothingCollected ==
    ASSUME NEW d, IsBytes(d)
    PROVE  Collected(<<>>, 0, d, 0)
<1>1. PageBytes \in Nat
  BY ImagePages
<1>2. IsData(d)
  BY BytesAreData
<1>3. RunningSum(d)[0] = 0
  BY <1>2, SumRuns
<1>4. PICK b \in Seq(Nat) : b = <<>> /\ Len(b) = 0
  <2>1. <<>> \in Seq(Nat) /\ Len(<<>>) = 0
    OBVIOUS
  <2> QED BY <2>1
<1>5. Summed(0) = 0 /\ (0 + 1) \div 2 = 0 /\ 0 \in Bytes
  BY <1>1 DEF Summed, Bytes
<1>6. \A i \in 1..Len(b) : b[i] = IF 2 * i <= 0 THEN d[i] ELSE 16 * (d[i] \div 16)
  BY <1>4
<1>7. Collected(b, 0, d, 0)
  BY <1>3, <1>4, <1>5, <1>6 DEF Collected
<1> QED BY <1>4, <1>7

LEMMA Codes ==
    ASSUME NEW m
    PROVE  /\ Code(m) \in 0..127 /\ (m <= Len(NewImage) => Code(m) = 126)
           /\ ~(m <= Len(NewImage)) => Code(m) = 127
  BY DEF Code

\* Bytes that arrive, in step.
LEMMA InTimeArrives ==
    ASSUME NEW m, NEW p, NEW l, NEW byte, IsNext(m, p, l, byte), p < l, NEW r, InTime(r, m, p)
    PROVE  InTime(Taken(r, byte), m, p + 1) /\ ~Finishes(r, byte)
<1>1. /\ p \in Int /\ p >= 1 /\ p + 1 \in Int /\ byte \in 0..255 /\ m \in Int /\ l \in Nat
      /\ Len(NewImage) \in Nat /\ PageBytes \in Nat
  BY ImagePages DEF IsNext
<1>2. CASE p \in 1..6
  <2>1. PICK k \in 0..5 : k = p - 1 /\ p = k + 1
    BY <1>2
  <2>2. r = Matching(k) /\ byte = sysex_header[k + 1]
    <3>1. p <= 6 /\ p # 7 /\ p # 8 /\ ~(p >= 9)
      BY <1>2
    <3> QED BY <2>1, <3>1 DEF InTime, IsNext
  <2>3. CASE k # 5
    <3>1. Taken(r, byte) = Matching(k + 1) /\ ~Finishes(r, byte)
      BY <1>1, <2>2, <2>3, MatchingTaken, Zenon
    <3>2. p + 1 \in 1..6 /\ (p + 1) - 1 = k + 1
      BY <2>1, <2>3
    <3> QED BY <3>1, <3>2, SMTT(40) DEF InTime
  <2>4. CASE k = 5
    <3>1. Taken(r, byte) = Commanded(<<>>) /\ ~Finishes(r, byte)
      BY <1>1, <2>2, <2>4, MatchingTaken, ZenonT(40)
    <3>2. p + 1 = 7
      BY <2>1, <2>4
    <3> QED BY <3>1, <3>2 DEF InTime
  <2> QED BY <2>3, <2>4
<1>3. CASE p = 7
  <2>1. r = Commanded(<<>>) /\ byte = Code(m) /\ byte < 128
    BY <1>3 DEF InTime, IsNext
  <2>2. Taken(r, byte) = Commanded(<<byte>>) /\ ~Finishes(r, byte)
    BY <1>1, <2>1, FirstCommand
  <2> QED BY <1>3, <2>1, <2>2 DEF InTime
<1>4. CASE p = 8
  <2>1. r = Commanded(<<Code(m)>>) /\ byte = 0
    BY <1>4 DEF InTime, IsNext
  <2>2. PICK x \in 0..127 : x = Code(m)
    BY Codes, Zenon
  <2>3. IsReading(Taken(r, 0), 0, <<x, 0>>, <<>>, 0) /\ ~Finishes(r, 0)
    <3>1. r = Commanded(<<x>>) /\ 0 \in 0..255 /\ 0 < 128
      BY <2>1, <2>2
    <3> QED BY <3>1, SecondCommand, Zenon
  <2>4. m <= Len(NewImage) => Collected(<<>>, 0, Data(m), 0)
    <3> SUFFICES ASSUME m <= Len(NewImage)
                 PROVE  Collected(<<>>, 0, Data(m), 0)
      OBVIOUS
    <3>1. m \in 1..Len(NewImage)
      BY <1>1 DEF IsNext
    <3> QED BY <3>1, PageData, NothingCollected
  <2>5. p + 1 = 9 /\ p + 1 >= 9 /\ (p + 1) - 9 = 0
    BY <1>4
  <2> QED BY <2>1, <2>2, <2>3, <2>4, <2>5 DEF InTime
<1>5. CASE p >= 9
  <2>1. m <= Len(NewImage) /\ m \in 1..Len(NewImage) /\ l = 2 * PageBytes + 11
    BY <1>1, <1>5 DEF IsNext
  <2>2. PICK n \in 0..(2 * PageBytes + 1) : n = p - 9
    BY <1>1, <1>5, <2>1
  <2>3. PICK b, s : IsReading(r, n, <<Code(m), 0>>, b, s) /\ Collected(b, s, Data(m), n)
    <3>1. ~(p \in 1..6) /\ p # 7 /\ p # 8
      BY <1>5
    <3> QED BY <2>1, <2>2, <3>1 DEF InTime
  <2>4. Fits(byte, Data(m), n) /\ byte \in 0..127 /\ byte # 247
    <3>1. byte < 128 /\ Fits(byte, Data(m), p - 9)
      BY <1>1, <1>5, <2>1 DEF IsNext
    <3> QED BY <1>1, <2>2, <3>1
  <2>5. IsBytes(Data(m))
    BY <2>1, PageData
  <2>6. PICK e, t : /\ IsReading(Taken(r, byte), n + 1, <<Code(m), 0>>, e, t)
                    /\ Collected(e, t, Data(m), n + 1)
    BY <2>3, <2>4, <2>5, CollectedStep
  <2>7. p + 1 >= 9 /\ (p + 1) - 9 = n + 1
    BY <1>1, <1>5, <2>2
  <2>8. ~Finishes(r, byte)
    BY <2>4 DEF Finishes, EndOfSysEx
  <2> QED BY <2>1, <2>6, <2>7, <2>8 DEF InTime
<1> QED BY <1>1, <1>2, <1>3, <1>4, <1>5

\* A byte is lost.
LEMMA InTimeLost ==
    ASSUME NEW m, NEW p, NEW l, NEW byte, IsNext(m, p, l, byte), p < l, NEW r, InTime(r, m, p)
    PROVE  OutOfTime(r, m, p + 1)
<1>1. /\ p \in Int /\ p >= 1 /\ p + 1 \in Int /\ m \in Int /\ l \in Nat
      /\ Len(NewImage) \in Nat /\ PageBytes \in Nat
  BY ImagePages DEF IsNext
<1>2. CASE p \in 1..6
  <2>1. r = Matching(p - 1)
    <3>1. p # 7 /\ p # 8 /\ ~(p >= 9)
      BY <1>2
    <3> QED BY <3>1 DEF InTime
  <2>2. p + 1 \in 2..7 /\ (p + 1) - 2 = p - 1
    BY <1>2
  <2> QED BY <2>1, <2>2 DEF OutOfTime
<1>3. CASE p = 7
  BY <1>3 DEF InTime, OutOfTime
<1>4. CASE p = 8
  <2>1. r = Commanded(<<Code(m)>>) /\ Code(m) \in 0..127 /\ p + 1 \in 8..9 /\ p + 1 # 8
    BY <1>4, Codes DEF InTime
  <2> QED BY <2>1 DEF OutOfTime
<1>5. CASE p >= 9
  <2>1. m <= Len(NewImage) /\ l = 2 * PageBytes + 11
    BY <1>1, <1>5 DEF IsNext
  <2>2. PICK n \in Nat : n = p - 9
    BY <1>1, <1>5
  <2>3. PICK b, s : IsReading(r, n, <<Code(m), 0>>, b, s) /\ Collected(b, s, Data(m), n)
    <3>1. ~(p \in 1..6) /\ p # 7 /\ p # 8
      BY <1>5
    <3> QED BY <2>1, <2>2, <3>1 DEF InTime
  <2>4. Grown(r, n, <<Code(m), 0>>, b)
    BY <2>3, CollectedGrows
  <2>5. p + 1 >= 9 /\ n < (p + 1) - 9
    BY <1>1, <1>5, <2>2
  <2>6. Amiss(r, m, n, <<Code(m), 0>>, b, (p + 1) - 9)
    BY <2>5 DEF Amiss
  <2> QED BY <2>4, <2>5, <2>6 DEF OutOfTime
<1> QED BY <1>1, <1>2, <1>3, <1>4, <1>5

\* A byte is damaged.
LEMMA InTimeDamaged ==
    ASSUME NEW m, NEW p, NEW l, NEW byte, IsNext(m, p, l, byte), p < l, NEW r, InTime(r, m, p),
           NEW other \in 0..255, other # byte
    PROVE  OutOfTime(Taken(r, other), m, p + 1) /\ (Finishes(r, other) => ~IsBlock(r))
<1>1. /\ p \in Int /\ p >= 1 /\ p + 1 \in Int /\ p + 1 >= 2 /\ m \in Int /\ l \in Nat
      /\ Len(NewImage) \in Nat /\ PageBytes \in Nat
  BY ImagePages DEF IsNext
<1>2. CASE p \in 1..6
  <2>1. PICK k \in 0..5 : k = p - 1 /\ p = k + 1
    BY <1>2
  <2>2. r = Matching(k) /\ other # sysex_header[k + 1]
    <3>1. p <= 6 /\ p # 7 /\ p # 8 /\ ~(p >= 9)
      BY <1>2, SMTT(40)
    <3> QED BY <2>1, <3>1 DEF InTime, IsNext
  <2>3. (Taken(r, other) = r \/ Taken(r, other) = Matching(0)) /\ ~Finishes(r, other)
    BY <2>2, MatchingTaken, Zenon
  <2>4. p + 1 \in 2..7 /\ (p + 1) - 2 = k
    BY <1>2, <2>1
  <2> QED BY <1>1, <2>2, <2>3, <2>4 DEF OutOfTime
<1>3. CASE p = 7
  <2>1. r = Commanded(<<>>) /\ other # Code(m) /\ p + 1 = 8 /\ p + 1 \in 8..9
    BY <1>3 DEF InTime, IsNext
  <2>2. CASE other < 128
    <3>1. Taken(r, other) = Commanded(<<other>>) /\ ~Finishes(r, other)
      BY <2>1, <2>2, FirstCommand
    <3>2. other \in 0..127
      BY <2>2
    <3> QED BY <2>1, <3>1, <3>2 DEF OutOfTime
  <2>3. CASE ~(other < 128)
    <3>1. other >= 128
      BY <2>3
    <3>2. (Taken(r, other) = r \/ Taken(r, other) = Matching(0)) /\ ~Finishes(r, other)
      BY <2>1, <3>1, FirstCommand
    <3> QED BY <1>1, <2>1, <3>2 DEF OutOfTime
  <2> QED BY <2>2, <2>3
<1>4. CASE p = 8
  <2>1. r = Commanded(<<Code(m)>>) /\ other # 0 /\ p + 1 = 9 /\ p + 1 \in 8..9
    BY <1>4 DEF InTime, IsNext
  <2>2. PICK x \in 0..127 : x = Code(m)
    BY Codes, ZenonT(40)
  <2>3. CASE other < 128
    <3>1. IsReading(Taken(r, other), 0, <<x, other>>, <<>>, 0) /\ ~Finishes(r, other)
      BY <2>1, <2>2, <2>3, SecondCommand, Zenon
    <3>2. Grown(Taken(r, other), 0, <<x, other>>, <<>>)
      <4>1. <<>> \in Seq(Nat) /\ Len(<<>>) = 0 /\ (0 + 1) \div 2 = 0
        OBVIOUS
      <4> QED BY <3>1, <4>1 DEF Grown
    <3>3. <<x, other>> # <<126, 0>>
      BY <2>1
    <3>4. Amiss(Taken(r, other), m, 0, <<x, other>>, <<>>, (p + 1) - 9)
      BY <2>1, <3>3 DEF Amiss
    <3>5. \E n, c, b :
              Grown(Taken(r, other), n, c, b) /\ Amiss(Taken(r, other), m, n, c, b, (p + 1) - 9)
      BY <3>2, <3>4, Zenon
    <3>6. p + 1 >= 9
      BY <2>1
    <3> QED BY <3>1, <3>5, <3>6, SMTT(40) DEF OutOfTime
  <2>4. CASE ~(other < 128)
    <3>1. other >= 128
      BY <2>4, SMTT(40)
    <3>2. (Taken(r, other) = r \/ Taken(r, other) = Matching(0)) /\ ~Finishes(r, other)
      BY <2>1, <2>2, <3>1, SecondCommand, Zenon
    <3>3. OutOfTime(r, m, p + 1)
      <4>1. \E y \in 0..127 : (p + 1 = 8 => y # Code(m)) /\ r = Commanded(<<y>>)
        <5>1. r = Commanded(<<x>>) /\ p + 1 # 8
          BY <2>1, <2>2
        <5> QED BY <5>1, Zenon
      <4> QED BY <2>1, <4>1 DEF OutOfTime
    <3>4. OutOfTime(Matching(0), m, p + 1)
      BY <1>1 DEF OutOfTime
    <3> QED BY <3>2, <3>3, <3>4
  <2> QED BY <2>3, <2>4
<1>5. CASE p >= 9
  <2>1. m <= Len(NewImage) /\ m \in 1..Len(NewImage) /\ l = 2 * PageBytes + 11
    BY <1>1, <1>5 DEF IsNext
  <2>2. PICK n \in 0..(2 * PageBytes + 1) : n = p - 9
    BY <1>1, <1>5, <2>1
  <2>3. PICK b, s : IsReading(r, n, <<Code(m), 0>>, b, s) /\ Collected(b, s, Data(m), n)
    <3>1. ~(p \in 1..6) /\ p # 7 /\ p # 8
      BY <1>5
    <3> QED BY <2>1, <2>2, <3>1 DEF InTime
  <2>4. IsBytes(Data(m)) /\ n \in Nat /\ p + 1 >= 9 /\ (p + 1) - 9 = n + 1
    <3>1. n \in Nat /\ p + 1 >= 9 /\ (p + 1) - 9 = n + 1
      BY <1>1, <1>5, <2>2
    <3> QED BY <2>1, <3>1, PageData
  <2>5. CASE other < 128
    <3>1. other \in 0..127 /\ other # 247
      BY <2>5
    <3>2. PICK d : /\ IsBytes(d) /\ DiffersAt(Data(m), d, (n \div 2) + 1)
                   /\ Collected(b, s, d, n) /\ Fits(other, d, n)
      BY <2>3, <2>4, <3>1, AnyNibble
    <3>3. PICK e, t : /\ IsReading(Taken(r, other), n + 1, <<Code(m), 0>>, e, t)
                      /\ Collected(e, t, d, n + 1)
      BY <2>3, <3>1, <3>2, CollectedStep
    <3>4. (n \div 2) + 1 \in 1..(PageBytes + 1)
      BY <1>1
    <3>5. Amiss(Taken(r, other), m, n + 1, <<Code(m), 0>>, e, (p + 1) - 9)
      BY <2>4, <3>2, <3>3, <3>4 DEF Amiss
    <3>6. Grown(Taken(r, other), n + 1, <<Code(m), 0>>, e)
      BY <2>4, <3>3, CollectedGrows
    <3>7. ~Finishes(r, other)
      BY <3>1 DEF Finishes, EndOfSysEx
    <3> QED BY <2>4, <3>5, <3>6, <3>7 DEF OutOfTime
  <2>6. CASE other = 247
    <3>1. Taken(r, other) = Matching(0)
      <4>1. Taken(r, 247) = Matching(0)
        BY <2>3, ReadingEnds
      <4> QED BY <2>6, <4>1
    <3>2. r.bytes_read \div 2 # PageBytes + 1
      <4>1. r.bytes_read = n
        BY <2>3, ReadingFields
      <4> QED BY <1>1, <4>1
    <3> QED BY <1>1, <3>1, <3>2 DEF OutOfTime, IsBlock
  <2>7. CASE other >= 128 /\ other # 247
    <3>1. Taken(r, other) = r /\ ~Finishes(r, other)
      <4>1. Taken(r, other) = r
        <5>1. other \in 128..255
          BY <2>7
        <5> QED BY <2>3, <2>7, <5>1, ReadingIgnores
      <4> QED BY <2>7, <4>1 DEF Finishes, EndOfSysEx
    <3>2. Grown(r, n, <<Code(m), 0>>, b)
      BY <2>3, <2>4, CollectedGrows
    <3>3. Amiss(r, m, n, <<Code(m), 0>>, b, (p + 1) - 9)
      BY <2>4, SMTT(40) DEF Amiss
    <3> QED BY <2>4, <3>1, <3>2, <3>3 DEF OutOfTime
  <2> QED BY <2>5, <2>6, <2>7
<1> QED BY <1>1, <1>2, <1>3, <1>4, <1>5

\* Bytes that arrive, out of step.
LEMMA LateMatching ==
    ASSUME NEW m, NEW p \in Int, NEW l, NEW byte, IsNext(m, p, l, byte), p >= 2, NEW k \in 0..5,
           k = 0 \/ (p \in 2..7 /\ k = p - 2), NEW r, r = Matching(k)
    PROVE  Taken(r, byte) = Matching(0) /\ ~Finishes(r, byte)
<1>1. byte \in 0..255 /\ l \in Nat /\ l >= 9 /\ p <= l
  BY DEF IsNext
<1>2. byte < 128 \/ byte = 247
  BY <1>1 DEF IsNext
<1>3. byte # sysex_header[k + 1]
  <2>1. CASE k = 0
    BY <1>2, <2>1, Header
  <2>2. CASE k # 0
    <3>1. p = k + 2 /\ k \in 1..5
      BY <2>2
    <3>2. k = 5 => byte \in 126..127
      BY <3>1 DEF IsNext, Code
    <3>3. k # 5 => byte = sysex_header[k + 2]
      BY <3>1 DEF IsNext
    <3>4. k = 1 \/ k = 2 \/ k = 3 \/ k = 4 \/ k = 5
      BY <3>1
    <3> QED BY <3>2, <3>3, <3>4, Header
  <2> QED BY <2>1, <2>2
<1>4. ~Ignored(byte)
  BY <1>1, <1>2, SMTT(40) DEF Ignored
<1> QED BY <1>1, <1>3, <1>4, MatchingTaken, Zenon

LEMMA OutOfTimeArrives ==
    ASSUME NEW m, NEW p, NEW l, NEW byte, IsNext(m, p, l, byte), p < l, NEW r,
           OutOfTime(r, m, p)
    PROVE  OutOfTime(Taken(r, byte), m, p + 1) /\ ~Finishes(r, byte)
<1>1. /\ p \in Int /\ p >= 1 /\ p + 1 \in Int /\ m \in Int /\ l \in Nat
      /\ Len(NewImage) \in Nat /\ PageBytes \in Nat
  BY ImagePages DEF IsNext
<1>2. ASSUME NEW k \in 0..5, p >= 2, k = 0 \/ (p \in 2..7 /\ k = p - 2), r = Matching(k)
      PROVE  OutOfTime(Taken(r, byte), m, p + 1) /\ ~Finishes(r, byte)
  <2>1. Taken(r, byte) = Matching(0) /\ ~Finishes(r, byte)
    BY <1>1, <1>2, LateMatching
  <2>2. p + 1 >= 2
    BY <1>1
  <2> QED BY <2>1, <2>2 DEF OutOfTime
<1>3. CASE p >= 2 /\ r = Matching(0)
  BY <1>2, <1>3
<1>4. CASE p \in 2..7 /\ r = Matching(p - 2)
  <2>1. p - 2 \in 0..5 /\ p >= 2
    BY <1>4
  <2> QED BY <1>2, <1>4, <2>1
<1>5. CASE p = 8 /\ r = Commanded(<<>>)
  <2>1. byte = 0
    BY <1>5 DEF IsNext
  <2>2. Taken(r, 0) = Commanded(<<0>>) /\ ~Finishes(r, 0)
    BY <1>5, FirstCommand
  <2>3. p + 1 \in 8..9 /\ p + 1 # 8 /\ 0 \in 0..127
    BY <1>5
  <2> QED BY <2>1, <2>2, <2>3 DEF OutOfTime
<1>6. ASSUME NEW x \in 0..127, p \in 8..9, p = 8 => x # Code(m), r = Commanded(<<x>>)
      PROVE  OutOfTime(Taken(r, byte), m, p + 1) /\ ~Finishes(r, byte)
  <2>1. byte \in 0..127
    BY <1>1, <1>6 DEF IsNext
  <2>2. IsReading(Taken(r, byte), 0, <<x, byte>>, <<>>, 0) /\ ~Finishes(r, byte)
    <3>1. byte \in 0..255 /\ byte < 128
      BY <2>1
    <3> QED BY <1>6, <3>1, SecondCommand, Zenon
  <2>3. Grown(Taken(r, byte), 0, <<x, byte>>, <<>>)
    <3>1. <<>> \in Seq(Nat) /\ Len(<<>>) = 0 /\ (0 + 1) \div 2 = 0
      OBVIOUS
    <3> QED BY <2>2, <3>1 DEF Grown
  <2>4. Amiss(Taken(r, byte), m, 0, <<x, byte>>, <<>>, (p + 1) - 9)
    <3>1. CASE p = 9
      <4>1. 0 < (p + 1) - 9
        BY <3>1
      <4> QED BY <4>1 DEF Amiss
    <3>2. CASE p = 8
      <4>1. 0 = (p + 1) - 9 /\ x # Code(m)
        BY <1>6, <3>2
      <4>2. m > Len(NewImage) \/ <<x, byte>> # <<126, 0>>
        BY <1>1, <4>1, Codes
      <4> QED BY <4>1, <4>2 DEF Amiss
    <3> QED BY <1>6, <3>1, <3>2
  <2>5. p + 1 >= 9
    BY <1>6
  <2> QED BY <2>2, <2>3, <2>4, <2>5 DEF OutOfTime
<1>7. ASSUME NEW n, NEW c, NEW b, p >= 9, Grown(r, n, c, b), Amiss(r, m, n, c, b, p - 9)
      PROVE  OutOfTime(Taken(r, byte), m, p + 1) /\ ~Finishes(r, byte)
  <2>1. m <= Len(NewImage) /\ m \in 1..Len(NewImage) /\ l = 2 * PageBytes + 11
    BY <1>1, <1>7 DEF IsNext
  <2>2. byte \in 0..127 /\ byte # 247 /\ Fits(byte, Data(m), p - 9)
    <3>1. byte < 128 /\ byte \in 0..255 /\ Fits(byte, Data(m), p - 9)
      BY <1>1, <1>7, <2>1 DEF IsNext
    <3> QED BY <3>1
  <2>3. ~Finishes(r, byte)
    BY <2>2 DEF Finishes, EndOfSysEx
  <2>4. n \in Nat /\ p + 1 >= 9 /\ (p + 1) - 9 = (p - 9) + 1 /\ p - 9 \in 0..(2 * PageBytes + 1)
    BY <1>1, <1>7, <2>1 DEF Grown
  <2>5. CASE n < p - 9 \/ (n = p - 9 /\ (m > Len(NewImage) \/ c # <<126, 0>>))
    <3>1. PICK e : Grown(Taken(r, byte), n + 1, c, e)
      BY <1>7, <2>2, GrownStep
    <3>2. \/ n + 1 < (p + 1) - 9
          \/ n + 1 = (p + 1) - 9 /\ (m > Len(NewImage) \/ c # <<126, 0>>)
      BY <1>1, <2>4, <2>5
    <3>3. Amiss(Taken(r, byte), m, n + 1, c, e, (p + 1) - 9)
      BY <3>2 DEF Amiss
    <3> QED BY <2>3, <2>4, <3>1, <3>3 DEF OutOfTime
  <2>6. ASSUME n = p - 9, NEW d, NEW s, NEW j \in 1..(PageBytes + 1), IsBytes(d),
               DiffersAt(Data(m), d, j), IsReading(r, n, c, b, s), Collected(b, s, d, n)
        PROVE  OutOfTime(Taken(r, byte), m, p + 1)
    <3>1. PICK g : /\ IsBytes(g) /\ DiffersAt(Data(m), g, j) /\ Collected(b, s, g, n)
                   /\ Fits(byte, g, n)
      <4>1. n \in 0..(2 * PageBytes + 1) /\ (n \div 2) + 1 \in 1..(PageBytes + 1)
        BY <1>1, <2>4, <2>6
      <4>2. CASE j = (n \div 2) + 1
        <5>1. PICK g : /\ IsBytes(g) /\ DiffersAt(d, g, (n \div 2) + 1)
                       /\ Collected(b, s, g, n) /\ Fits(byte, g, n)
          BY <2>2, <2>6, <4>1, AnyNibble
        <5>2. DiffersAt(Data(m), g, j)
          BY <2>6, <4>2, <5>1 DEF DiffersAt
        <5> QED BY <5>1, <5>2
      <4>3. CASE j # (n \div 2) + 1
        <5>1. d[(n \div 2) + 1] = Data(m)[(n \div 2) + 1]
          BY <2>6, <4>1, <4>3 DEF DiffersAt
        <5>2. Fits(byte, d, n)
          BY <2>2, <2>6, <5>1 DEF Fits
        <5> QED BY <2>6, <5>2
      <4> QED BY <4>2, <4>3
    <3>2. n \in 0..(2 * PageBytes + 1)
      BY <2>4, <2>6
    <3>3. PICK e, t : IsReading(Taken(r, byte), n + 1, c, e, t) /\ Collected(e, t, g, n + 1)
      BY <2>2, <2>6, <3>1, <3>2, CollectedStep
    <3>4. n + 1 = (p + 1) - 9 /\ n + 1 \in Nat
      BY <2>4, <2>6
    <3>5. Amiss(Taken(r, byte), m, n + 1, c, e, (p + 1) - 9)
      BY <3>1, <3>3, <3>4 DEF Amiss
    <3>6. Grown(Taken(r, byte), n + 1, c, e)
      BY <3>3, <3>4, CollectedGrows
    <3> QED BY <2>4, <3>5, <3>6 DEF OutOfTime
  <2> QED BY <1>7, <2>3, <2>5, <2>6 DEF Amiss
<1> QED BY <1>3, <1>4, <1>5, <1>6, <1>7, Zenon DEF OutOfTime

LEMMA WholeBlock ==
    ASSUME NEW r, NEW n, n = 2 * PageBytes + 2, NEW c, NEW b, NEW s, NEW d, IsBytes(d),
           IsReading(r, n, c, b, s), Collected(b, s, d, n)
    PROVE  /\ IsBlock(r) <=> c = <<126, 0>> /\ d[PageBytes + 1] = RunningSum(d)[PageBytes]
           /\ [i \in 1..PageBytes |-> r.buffer[i]] = [i \in 1..PageBytes |-> d[i]]
           /\ ~IsReset(r) /\ \A i \in 1..PageBytes : b[i] = d[i]
<1>1. PageBytes \in Nat /\ PageBytes >= 1
  BY ImagePages
<1>2. n \div 2 = PageBytes + 1 /\ (n + 1) \div 2 = PageBytes + 1 /\ n # 0
  BY <1>1
<1>3. Summed(n) = PageBytes
  BY <1>1, <1>2 DEF Summed
<1>4. s = RunningSum(d)[PageBytes] /\ Len(b) = PageBytes + 1
  BY <1>2, <1>3 DEF Collected
<1>5. ASSUME NEW i \in 1..(PageBytes + 1)
      PROVE  b[i] = d[i]
  <2>1. i \in 1..Len(b) /\ 2 * i <= n
    BY <1>1, <1>4
  <2> QED BY <2>1 DEF Collected
<1>6. (\A i \in 1..PageBytes : b[i] = d[i]) /\ b[PageBytes + 1] = d[PageBytes + 1]
  <2>1. PageBytes + 1 \in 1..(PageBytes + 1) /\ \A i \in 1..PageBytes : i \in 1..(PageBytes + 1)
    BY <1>1
  <2> QED BY <1>5, <2>1
<1>7. r.bytes_read = n /\ r.commands = c /\ r.buffer = b /\ r.checksum = s
  BY ReadingFields
<1>8. IsBlock(r) <=> c = <<126, 0>> /\ d[PageBytes + 1] = RunningSum(d)[PageBytes]
  BY <1>2, <1>4, <1>6, <1>7 DEF IsBlock
<1>9. ~IsReset(r)
  BY <1>2, <1>7 DEF IsReset
<1>10. [i \in 1..PageBytes |-> r.buffer[i]] = [i \in 1..PageBytes |-> d[i]]
  BY <1>6, <1>7
<1> QED BY <1>6, <1>8, <1>9, <1>10

\* The end of a message, in step.
LEMMA InTimeEnds ==
    ASSUME NEW m, NEW p, NEW l, NEW byte, IsNext(m, p, l, byte), p = l, NEW r, InTime(r, m, p)
    PROVE  /\ Taken(r, 247) = Matching(0) /\ Finishes(r, 247)
           /\ m <= Len(NewImage) =>
                 /\ IsBlock(r) /\ ~IsReset(r)
                 /\ [i \in 1..PageBytes |-> r.buffer[i]] = NewImage[m]
           /\ ~(m <= Len(NewImage)) => IsReset(r)
<1>1. /\ p \in Int /\ p >= 9 /\ m \in Int /\ Len(NewImage) \in Nat /\ PageBytes \in Nat
  BY ImagePages DEF IsNext
<1>2. PICK n \in Nat : n = p - 9
  BY <1>1
<1>3. PICK b, s : /\ IsReading(r, n, <<Code(m), 0>>, b, s)
                  /\ m <= Len(NewImage) => Collected(b, s, Data(m), n)
  <2>1. ~(p \in 1..6) /\ p # 7 /\ p # 8
    BY <1>1
  <2> QED BY <1>2, <2>1 DEF InTime
<1>4. Taken(r, 247) = Matching(0) /\ Finishes(r, 247)
  <2>1. Taken(r, 247) = Matching(0)
    BY <1>3, ReadingEnds
  <2>2. r.state = "READING_DATA"
    BY <1>3, ReadingFields
  <2> QED BY <2>1, <2>2 DEF Finishes, EndOfSysEx
<1>5. ASSUME m <= Len(NewImage)
      PROVE  IsBlock(r) /\ ~IsReset(r) /\ [i \in 1..PageBytes |-> r.buffer[i]] = NewImage[m]
  <2>1. m \in 1..Len(NewImage) /\ n = 2 * PageBytes + 2 /\ Code(m) = 126
    BY <1>1, <1>2, <1>5, Codes DEF IsNext
  <2>2. PICK c : c = <<Code(m), 0>>
    OBVIOUS
  <2>3. PICK d : d = Data(m)
    OBVIOUS
  <2>4. /\ IsBytes(d) /\ d[PageBytes + 1] = RunningSum(d)[PageBytes]
        /\ NewImage[m] = [i \in 1..PageBytes |-> d[i]]
    BY <2>1, <2>3, PageData
  <2>5. IsReading(r, n, c, b, s) /\ Collected(b, s, d, n) /\ c = <<126, 0>>
    BY <1>3, <1>5, <2>1, <2>2, <2>3
  <2>6. /\ IsBlock(r) <=> c = <<126, 0>> /\ d[PageBytes + 1] = RunningSum(d)[PageBytes]
        /\ [i \in 1..PageBytes |-> r.buffer[i]] = [i \in 1..PageBytes |-> d[i]]
        /\ ~IsReset(r)
    BY <2>1, <2>4, <2>5, WholeBlock
  <2> QED BY <2>4, <2>5, <2>6
<1>6. ASSUME ~(m <= Len(NewImage))
      PROVE  IsReset(r)
  <2>1. n = 0 /\ Code(m) = 127
    BY <1>1, <1>2, <1>6, Codes DEF IsNext
  <2>2. r.bytes_read = n /\ r.commands = <<Code(m), 0>>
    BY <1>3, ReadingFields
  <2> QED BY <2>1, <2>2 DEF IsReset
<1> QED BY <1>4, <1>5, <1>6

\* The block that is kept when its end does not arrive.
LEMMA TrailingStep ==
    ASSUME NEW r, NEW m, NEW n, Trailing(r, m, n), NEW byte \in 0..127
    PROVE  Trailing(Taken(r, byte), m, n + 1)
<1>1. n \in Nat /\ n >= 2 * PageBytes + 2 /\ PageBytes \in Nat
  BY ImagePages DEF Trailing
<1>2. PICK c, b : /\ Grown(r, n, c, b)
                  /\ n <= 2 * PageBytes + 3 => \A i \in 1..PageBytes : b[i] = NewImage[m][i]
  BY DEF Trailing
<1>3. PICK e : Grown(Taken(r, byte), n + 1, c, e) /\ SameUpTo(e, b, n \div 2)
  BY <1>2, GrownStep
<1>4. \A i \in 1..PageBytes : i \in 1..(n \div 2)
  BY <1>1
<1>5. n + 1 <= 2 * PageBytes + 3 => \A i \in 1..PageBytes : e[i] = NewImage[m][i]
  <2>1. n + 1 <= 2 * PageBytes + 3 => n <= 2 * PageBytes + 3
    BY <1>1
  <2> QED BY <1>2, <1>3, <1>4, <2>1 DEF SameUpTo
<1>6. n + 1 \in Nat /\ n + 1 >= 2 * PageBytes + 2
  BY <1>1
<1> QED BY <1>3, <1>5, <1>6 DEF Trailing

LEMMA TrailingOther ==
    ASSUME NEW r, NEW m, NEW n, Trailing(r, m, n), NEW byte \in 0..255, byte # 247
    PROVE  ~Finishes(r, byte) /\ \E k \in n..(n + 1) : Trailing(Taken(r, byte), m, k)
<1>1. n \in Nat
  BY DEF Trailing
<1>2. ~Finishes(r, byte)
  BY DEF Finishes, EndOfSysEx
<1>3. CASE byte < 128
  <2>1. byte \in 0..127 /\ n + 1 \in n..(n + 1)
    BY <1>1, <1>3
  <2>2. Trailing(Taken(r, byte), m, n + 1)
    BY <2>1, TrailingStep
  <2> QED BY <1>2, <2>1, <2>2
<1>4. CASE ~(byte < 128)
  <2>1. byte \in 128..255 /\ n \in n..(n + 1)
    BY <1>1, <1>4
  <2>2. PICK c, b, s : IsReading(r, n, c, b, s)
    BY DEF Trailing, Grown
  <2>3. Taken(r, byte) = r
    BY <2>1, <2>2, ReadingIgnores
  <2> QED BY <1>2, <2>1, <2>3
<1> QED BY <1>3, <1>4

LEMMA TrailingEnds ==
    ASSUME NEW r, NEW m \in 1..Len(NewImage), NEW n, Trailing(r, m, n)
    PROVE  /\ Taken(r, 247) = Matching(0) /\ ~IsReset(r)
           /\ IsBlock(r) => /\ n <= 2 * PageBytes + 3
                            /\ [i \in 1..PageBytes |-> r.buffer[i]] = NewImage[m]
<1>1. /\ n \in Nat /\ n >= 2 * PageBytes + 2 /\ PageBytes \in Nat
      /\ NewImage[m] \in [1..PageBytes -> 0..255]
  BY ImagePages DEF Trailing
<1>2. PICK c, b : /\ Grown(r, n, c, b)
                  /\ n <= 2 * PageBytes + 3 => \A i \in 1..PageBytes : b[i] = NewImage[m][i]
  BY DEF Trailing
<1>3. PICK s : IsReading(r, n, c, b, s)
  BY <1>2 DEF Grown
<1>4. r.bytes_read = n /\ r.buffer = b
  BY <1>3, ReadingFields
<1>5. Taken(r, 247) = Matching(0)
  BY <1>3, ReadingEnds
<1>6. ~IsReset(r)
  BY <1>1, <1>4 DEF IsReset
<1>7. ASSUME IsBlock(r)
      PROVE  /\ n <= 2 * PageBytes + 3
             /\ [i \in 1..PageBytes |-> r.buffer[i]] = NewImage[m]
  <2>1. n \div 2 = PageBytes + 1
    BY <1>4, <1>7 DEF IsBlock
  <2>2. n <= 2 * PageBytes + 3
    BY <1>1, <2>1
  <2>3. \A i \in 1..PageBytes : r.buffer[i] = NewImage[m][i]
    BY <1>2, <1>4, <2>2
  <2>4. NewImage[m] = [i \in 1..PageBytes |-> NewImage[m][i]]
    BY <1>1
  <2> QED BY <2>2, <2>3, <2>4
<1> QED BY <1>5, <1>6, <1>7

\* The end of a message, out of step: a block is written only when it is the one that was sent.
LEMMA OutOfTimeEnds ==
    ASSUME NEW m, NEW p, NEW l, NEW byte, IsNext(m, p, l, byte), p = l, NEW r,
           OutOfTime(r, m, p)
    PROVE  /\ Taken(r, 247) = Matching(0)
           /\ Finishes(r, 247) /\ IsBlock(r) =>
                 /\ m \in 1..Len(NewImage)
                 /\ [i \in 1..PageBytes |-> r.buffer[i]] = NewImage[m]
<1>1. /\ p \in Int /\ p >= 9 /\ m \in Int /\ Len(NewImage) \in Nat /\ PageBytes \in Nat
      /\ PageBytes >= 1 /\ byte = 247 /\ ~(p \in 2..7) /\ p # 8
  BY ImagePages DEF IsNext
<1>2. CASE r = Matching(0)
  <2>1. Taken(r, byte) = Matching(0) /\ ~Finishes(r, byte)
    <3>1. p >= 2 /\ 0 \in 0..5
      BY <1>1
    <3> QED BY <1>1, <1>2, <3>1, LateMatching
  <2> QED BY <1>1, <2>1
<1>3. ASSUME NEW x \in 0..127, r = Commanded(<<x>>)
      PROVE  Taken(r, 247) = Matching(0) /\ ~Finishes(r, 247)
  <2>1. byte \in 0..255
    BY <1>1, SMTT(40)
  <2>2. Taken(r, byte) = Matching(0) /\ ~Finishes(r, byte)
    BY <1>1, <1>3, <2>1, SecondCommand, ZenonT(40)
  <2> QED BY <1>1, <2>2
<1>4. ASSUME NEW n, NEW c, NEW b, Grown(r, n, c, b), Amiss(r, m, n, c, b, p - 9)
      PROVE  /\ Taken(r, 247) = Matching(0)
             /\ IsBlock(r) => /\ m \in 1..Len(NewImage)
                              /\ [i \in 1..PageBytes |-> r.buffer[i]] = NewImage[m]
  <2>1. PICK s : IsReading(r, n, c, b, s)
    BY <1>4 DEF Grown
  <2>2. Taken(r, 247) = Matching(0)
    BY <2>1, ReadingEnds
  <2> SUFFICES ASSUME IsBlock(r)
               PROVE  /\ m \in 1..Len(NewImage)
                      /\ [i \in 1..PageBytes |-> r.buffer[i]] = NewImage[m]
    BY <2>2
  <2>3. n \in Nat /\ n \div 2 = PageBytes + 1 /\ c = <<126, 0>>
    <3>1. r.bytes_read = n /\ r.commands = c
      BY <2>1, ReadingFields
    <3> QED BY <1>4, <3>1 DEF IsBlock, Grown
  <2>4. n >= 2 * PageBytes + 2
    BY <1>1, <2>3
  <2>5. m <= Len(NewImage) /\ m \in 1..Len(NewImage) /\ p - 9 = 2 * PageBytes + 2
    <3>1. CASE m <= Len(NewImage)
      BY <1>1, <3>1 DEF IsNext
    <3>2. CASE ~(m <= Len(NewImage))
      <4>1. p - 9 = 0
        BY <1>1, <3>2 DEF IsNext
      <4>2. n < p - 9 \/ n = p - 9
        BY <1>4 DEF Amiss
      <4> QED BY <1>1, <2>3, <2>4, <4>1, <4>2
    <3> QED BY <3>1, <3>2
  <2>6. ~(n < p - 9)
    BY <1>1, <2>3, <2>4, <2>5
  <2>7. ~(m > Len(NewImage) \/ c # <<126, 0>>)
    BY <1>1, <2>3, <2>5
  <2>8. PICK d, u : \E j \in 1..(PageBytes + 1) :
                       /\ n = p - 9 /\ IsBytes(d) /\ DiffersAt(Data(m), d, j)
                       /\ IsReading(r, n, c, b, u) /\ Collected(b, u, d, n)
    BY <1>4, <2>6, <2>7 DEF Amiss
  <2>9. PICK j \in 1..(PageBytes + 1) :
            /\ n = p - 9 /\ IsBytes(d) /\ DiffersAt(Data(m), d, j)
            /\ IsReading(r, n, c, b, u) /\ Collected(b, u, d, n)
    BY <2>8
  <2>10. PICK e : e = Data(m)
    OBVIOUS
  <2>11. /\ IsBytes(e) /\ e[PageBytes + 1] = RunningSum(e)[PageBytes]
         /\ NewImage[m] = [i \in 1..PageBytes |-> e[i]]
    BY <2>5, <2>10, PageData
  <2>12. /\ d[PageBytes + 1] = RunningSum(d)[PageBytes]
         /\ [i \in 1..PageBytes |-> r.buffer[i]] = [i \in 1..PageBytes |-> d[i]]
    <3>1. n = 2 * PageBytes + 2
      BY <2>5, <2>9
    <3>2. /\ IsBlock(r) <=> c = <<126, 0>> /\ d[PageBytes + 1] = RunningSum(d)[PageBytes]
          /\ [i \in 1..PageBytes |-> r.buffer[i]] = [i \in 1..PageBytes |-> d[i]]
      BY <2>9, <3>1, WholeBlock
    <3> QED BY <3>2
  <2>13. IsData(d) /\ IsData(e)
    BY <2>9, <2>11, BytesAreData
  <2>14. \A i \in 1..PageBytes : d[i] = e[i]
    <3>1. \A i \in 1..PageBytes : i \in 1..(PageBytes + 1) /\ i # PageBytes + 1
      BY <1>1
    <3>2. CASE j = PageBytes + 1
      BY <2>9, <2>10, <3>1, <3>2 DEF DiffersAt
    <3>3. CASE j # PageBytes + 1
      <4>1. j \in 1..PageBytes /\ PageBytes + 1 \in 1..(PageBytes + 1)
        BY <1>1, <3>3
      <4>2. d[PageBytes + 1] = e[PageBytes + 1]
        BY <2>9, <2>10, <3>3, <4>1 DEF DiffersAt
      <4>3. \A i \in 1..PageBytes : i # j => d[i] = e[i]
        BY <2>9, <2>10, <3>1 DEF DiffersAt
      <4>4. RunningSum(d)[PageBytes] = RunningSum(e)[PageBytes]
        BY <2>11, <2>12, <4>2
      <4>5. d[j] = e[j]
        BY <2>13, <4>1, <4>3, <4>4, OtherSum
      <4> QED BY <4>3, <4>5
    <3> QED BY <3>2, <3>3
  <2>15. [i \in 1..PageBytes |-> d[i]] = [i \in 1..PageBytes |-> e[i]]
    BY <2>14
  <2> QED BY <2>5, <2>11, <2>12, <2>15
<1> QED BY <1>1, <1>2, <1>3, <1>4 DEF OutOfTime

\* The end of a block is lost, or damaged.
LEMMA EndIsMissed ==
    ASSUME NEW m, NEW p, NEW l, NEW byte, IsNext(m, p, l, byte), p = l, NEW r, InTime(r, m, p),
           m <= Len(NewImage), NEW page \in Nat, page <= m - 1
    PROVE  /\ Behind(r, m + 1, 1, 0, page)
           /\ \A other \in 0..255 : other # 247 => Behind(Taken(r, other), m + 1, 1, 0, page)
<1>1. /\ p \in Int /\ p >= 9 /\ m \in Int /\ PageBytes \in Nat /\ m \in 1..Len(NewImage)
      /\ l = 2 * PageBytes + 11
  BY ImagePages DEF IsNext
<1>2. PICK n \in Nat : n = p - 9 /\ n = 2 * PageBytes + 2
  BY <1>1
<1>3. PICK b, s : IsReading(r, n, <<Code(m), 0>>, b, s) /\ Collected(b, s, Data(m), n)
  <2>1. ~(p \in 1..6) /\ p # 7 /\ p # 8
    BY <1>1
  <2> QED BY <1>2, <2>1 DEF InTime
<1>4. PICK c : c = <<Code(m), 0>>
  OBVIOUS
<1>5. PICK d : d = Data(m)
  OBVIOUS
<1>6. IsReading(r, n, c, b, s) /\ Collected(b, s, d, n)
  BY <1>3, <1>4, <1>5
<1>7. IsBytes(d) /\ \A i \in 1..PageBytes : d[i] = NewImage[m][i]
  BY <1>1, <1>5, PageData
<1>8. \A i \in 1..PageBytes : b[i] = d[i]
  BY <1>2, <1>6, <1>7, WholeBlock
<1>9. Trailing(r, m, n)
  <2>1. Grown(r, n, c, b)
    BY <1>6, CollectedGrows
  <2>2. \A i \in 1..PageBytes : b[i] = NewImage[m][i]
    BY <1>7, <1>8
  <2>3. n >= 2 * PageBytes + 2
    BY <1>1, <1>2
  <2> QED BY <2>1, <2>2, <2>3 DEF Trailing
<1>10. ASSUME NEW q, NEW k \in n..(n + 1), Trailing(q, m, k)
       PROVE  Behind(q, m + 1, 1, 0, page)
  <2>1. m + 1 >= 2 /\ page <= (m + 1) - 2 /\ (m + 1) - 1 = m /\ k >= 2 * PageBytes + 1 - 0
    BY <1>1, <1>2
  <2> QED BY <1>10, <2>1 DEF Behind
<1>11. Behind(r, m + 1, 1, 0, page)
  <2>1. n \in n..(n + 1)
    OBVIOUS
  <2> QED BY <1>9, <1>10, <2>1
<1>12. ASSUME NEW other \in 0..255, other # 247
       PROVE  Behind(Taken(r, other), m + 1, 1, 0, page)
  <2>1. PICK k \in n..(n + 1) : Trailing(Taken(r, other), m, k)
    BY <1>9, <1>12, TrailingOther
  <2> QED BY <1>10, <2>1
<1> QED BY <1>11, <1>12

\* The message after it.
LEMMA BehindArrives ==
    ASSUME NEW m, NEW p, NEW l, NEW byte, IsNext(m, p, l, byte), p < l, NEW r,
           NEW failed \in 0..1, NEW page \in Nat, Behind(r, m, p, failed, page)
    PROVE  Behind(Taken(r, byte), m, p + 1, failed, page) /\ ~Finishes(r, byte)
<1>1. /\ p \in Int /\ p >= 1 /\ m \in Int /\ PageBytes \in Nat /\ byte \in 0..255
      /\ l \in Nat /\ byte # 247
  <2>1. /\ p \in Int /\ p >= 1 /\ m \in Int /\ PageBytes \in Nat /\ byte \in 0..255 /\ l \in Nat
    BY ImagePages DEF IsNext
  <2>2. p = 1 => byte = 240
    BY Header DEF IsNext
  <2>3. p >= 2 => byte < 128
    BY DEF IsNext
  <2> QED BY <2>1, <2>2, <2>3
<1>2. CASE failed = 1 /\ p >= 2 /\ r = Matching(0)
  <2>1. Taken(r, byte) = Matching(0) /\ ~Finishes(r, byte)
    <3>1. 0 \in 0..5
      OBVIOUS
    <3> QED BY <1>1, <1>2, <3>1, LateMatching
  <2>2. p + 1 >= 2
    BY <1>1
  <2> QED BY <1>2, <2>1, <2>2 DEF Behind
<1>3. ASSUME m >= 2, page <= m - 2, NEW n, Trailing(r, m - 1, n),
             n >= 2 * PageBytes + p - failed
      PROVE  Behind(Taken(r, byte), m, p + 1, failed, page) /\ ~Finishes(r, byte)
  <2>1. n \in Nat /\ n >= 2 * PageBytes + 2
    BY <1>3 DEF Trailing
  <2>2. CASE p = 1
    <3>1. PICK k \in n..(n + 1) : ~Finishes(r, byte) /\ Trailing(Taken(r, byte), m - 1, k)
      BY <1>1, <1>3, TrailingOther
    <3>2. k >= 2 * PageBytes + (p + 1) - failed
      BY <1>1, <2>1, <2>2
    <3> QED BY <1>3, <3>1, <3>2 DEF Behind
  <2>3. CASE p >= 2
    <3>1. byte \in 0..127
      BY <1>1, <2>3 DEF IsNext
    <3>2. Trailing(Taken(r, byte), m - 1, n + 1)
      BY <1>3, <3>1, TrailingStep
    <3>3. n + 1 >= 2 * PageBytes + (p + 1) - failed
      BY <1>1, <1>3, <2>1
    <3>4. ~Finishes(r, byte)
      BY <1>1 DEF Finishes, EndOfSysEx
    <3> QED BY <1>3, <3>2, <3>3, <3>4 DEF Behind
  <2> QED BY <1>1, <2>2, <2>3
<1> QED BY <1>2, <1>3 DEF Behind

LEMMA BehindReads ==
    ASSUME NEW m, NEW p, NEW l, NEW byte, IsNext(m, p, l, byte), NEW r, NEW page \in Nat,
           Behind(r, m, p, 0, page)
    PROVE  /\ m \in 2..(Len(NewImage) + 1) /\ page <= m - 2 /\ m - 1 \in 1..Len(NewImage)
           /\ \E n \in Nat : Trailing(r, m - 1, n) /\ n >= 2 * PageBytes + p
<1>1. /\ p \in Int /\ m \in Int /\ Len(NewImage) \in Nat /\ m <= Len(NewImage) + 1
      /\ PageBytes \in Nat
  BY ImagePages DEF IsNext
<1>2. PICK n : /\ m >= 2 /\ page <= m - 2 /\ Trailing(r, m - 1, n)
               /\ n >= 2 * PageBytes + p - 0
  BY DEF Behind
<1>3. n \in Nat
  BY <1>2 DEF Trailing
<1> QED BY <1>1, <1>2, <1>3

LEMMA BehindNext ==
    ASSUME NEW m, NEW p, NEW l, NEW byte, IsNext(m, p, l, byte), NEW r, NEW page \in Nat,
           Behind(r, m, p, 0, page), NEW q, NEW n \in Nat, n >= 2 * PageBytes + p,
           NEW k \in n..(n + 1), Trailing(q, m - 1, k)
    PROVE  Behind(q, m, p + 1, 1, page)
<1>1. p \in Int /\ m \in Int /\ m >= 2 /\ page <= m - 2 /\ PageBytes \in Nat
  <2>1. m \in 2..(Len(NewImage) + 1) /\ page <= m - 2 /\ m - 1 \in 1..Len(NewImage)
    BY BehindReads
  <2>2. /\ p \in Int /\ m \in Int /\ PageBytes \in Nat /\ p >= 1 /\ l >= 9
        /\ Len(NewImage) \in Nat
    BY ImagePages DEF IsNext
  <2> QED BY <2>1, <2>2
<1>2. k >= 2 * PageBytes + (p + 1) - 1
  BY <1>1
<1> QED BY <1>1, <1>2 DEF Behind

LEMMA BehindFurther ==
    ASSUME NEW m, NEW p, NEW l, NEW byte, IsNext(m, p, l, byte), p = l, m <= Len(NewImage),
           NEW r, NEW page \in Nat, Behind(r, m, p, 0, page), NEW q, NEW n \in Nat,
           n >= 2 * PageBytes + p, NEW k \in n..(n + 1), Trailing(q, m - 1, k)
    PROVE  Behind(q, m + 1, 1, 0, page)
<1>1. p \in Int /\ p >= 9 /\ m \in Int /\ m >= 2 /\ page <= m - 2 /\ PageBytes \in Nat
  <2>1. m \in 2..(Len(NewImage) + 1) /\ page <= m - 2 /\ m - 1 \in 1..Len(NewImage)
    BY BehindReads
  <2>2. /\ p \in Int /\ m \in Int /\ PageBytes \in Nat /\ p >= 1 /\ l >= 9
        /\ Len(NewImage) \in Nat
    BY ImagePages DEF IsNext
  <2> QED BY <2>1, <2>2
<1>2. /\ k \in Nat /\ k >= 2 * PageBytes + 1 - 0
      /\ ~(k <= 2 * PageBytes + 3) /\ k >= 2 * PageBytes + 2
  BY <1>1
<1>3. Trailing(q, m, k)
  BY <1>2 DEF Trailing
<1>4. m + 1 >= 2 /\ page <= (m + 1) - 2 /\ (m + 1) - 1 = m
  BY <1>1
<1> QED BY <1>2, <1>3, <1>4 DEF Behind

\* A byte that fails there: nothing of it is read, or it is a byte that was not sent.
LEMMA BehindFails ==
    ASSUME NEW m, NEW p, NEW l, NEW byte, IsNext(m, p, l, byte), NEW r, NEW page \in Nat,
           Behind(r, m, p, 0, page)
    PROVE  Behind(r, m, p + 1, 1, page)
<1>1. PICK n \in Nat : Trailing(r, m - 1, n) /\ n >= 2 * PageBytes + p
  BY BehindReads
<1>2. n \in n..(n + 1)
  OBVIOUS
<1> QED BY <1>1, <1>2, BehindNext

LEMMA BehindDamaged ==
    ASSUME NEW m, NEW p, NEW l, NEW byte, IsNext(m, p, l, byte), NEW r, NEW page \in Nat,
           Behind(r, m, p, 0, page), NEW other \in 0..255, other # 247
    PROVE  Behind(Taken(r, other), m, p + 1, 1, page)
<1>1. PICK n \in Nat : Trailing(r, m - 1, n) /\ n >= 2 * PageBytes + p
  BY BehindReads
<1>2. PICK k \in n..(n + 1) : Trailing(Taken(r, other), m - 1, k)
  BY <1>1, TrailingOther
<1> QED BY <1>1, <1>2, BehindNext

LEMMA BehindMissed ==
    ASSUME NEW m, NEW p, NEW l, NEW byte, IsNext(m, p, l, byte), p = l, m <= Len(NewImage),
           NEW r, NEW page \in Nat, Behind(r, m, p, 0, page)
    PROVE  /\ Behind(r, m + 1, 1, 0, page)
           /\ \A other \in 0..255 : other # 247 => Behind(Taken(r, other), m + 1, 1, 0, page)
<1>1. PICK n \in Nat : Trailing(r, m - 1, n) /\ n >= 2 * PageBytes + p
  BY BehindReads
<1>2. n \in n..(n + 1)
  OBVIOUS
<1>3. Behind(r, m + 1, 1, 0, page)
  BY <1>1, <1>2, BehindFurther
<1>4. ASSUME NEW other \in 0..255, other # 247
      PROVE  Behind(Taken(r, other), m + 1, 1, 0, page)
  <2>1. PICK k \in n..(n + 1) : Trailing(Taken(r, other), m - 1, k)
    BY <1>1, <1>4, TrailingOther
  <2> QED BY <1>1, <2>1, BehindFurther
<1> QED BY <1>3, <1>4

LEMMA BehindWrites ==
    ASSUME NEW m, NEW p, NEW l, NEW byte, IsNext(m, p, l, byte), NEW r, NEW page \in Nat,
           Behind(r, m, p, 0, page)
    PROVE  /\ Behind(Matching(0), m, p + 1, 1, page + 1)
           /\ Behind(Matching(0), m, p + 1, 1, page)
           /\ Taken(r, 247) = Matching(0)
           /\ IsBlock(r) => [i \in 1..PageBytes |-> r.buffer[i]] = NewImage[m - 1]
<1>1. p \in Int /\ p + 1 >= 2 /\ m - 1 \in 1..Len(NewImage)
  <2>1. m \in 2..(Len(NewImage) + 1) /\ page <= m - 2 /\ m - 1 \in 1..Len(NewImage)
    BY BehindReads
  <2>2. /\ p \in Int /\ m \in Int /\ PageBytes \in Nat /\ p >= 1 /\ l >= 9
        /\ Len(NewImage) \in Nat
    BY ImagePages DEF IsNext
  <2> QED BY <2>1, <2>2
<1>2. PICK n \in Nat : Trailing(r, m - 1, n)
  BY BehindReads
<1>3. /\ Taken(r, 247) = Matching(0)
      /\ IsBlock(r) => /\ n <= 2 * PageBytes + 3
                       /\ [i \in 1..PageBytes |-> r.buffer[i]] = NewImage[m - 1]
  BY <1>1, <1>2, TrailingEnds
<1> QED BY <1>1, <1>3 DEF Behind

LEMMA BehindEnds ==
    ASSUME NEW m, NEW p, NEW l, NEW byte, IsNext(m, p, l, byte), p = l, NEW r,
           NEW failed \in 0..1, NEW page \in Nat, Behind(r, m, p, failed, page)
    PROVE  Taken(r, 247) = Matching(0) /\ (Finishes(r, 247) => ~IsBlock(r))
<1>1. /\ p \in Int /\ p >= 9 /\ m \in Int /\ PageBytes \in Nat /\ Len(NewImage) \in Nat
      /\ m <= Len(NewImage) + 1 /\ byte = 247 /\ p >= 2
  BY ImagePages DEF IsNext
<1>2. CASE r = Matching(0)
  <2>1. 0 \in 0..5
    OBVIOUS
  <2>2. Taken(r, byte) = Matching(0) /\ ~Finishes(r, byte)
    BY <1>1, <1>2, <2>1, LateMatching
  <2> QED BY <1>1, <2>2
<1>3. ASSUME m >= 2, NEW n, Trailing(r, m - 1, n), n >= 2 * PageBytes + p - failed
      PROVE  Taken(r, 247) = Matching(0) /\ ~IsBlock(r)
  <2>1. n \in Nat /\ m - 1 \in 1..Len(NewImage)
    BY <1>1, <1>3 DEF Trailing
  <2>2. ~(n <= 2 * PageBytes + 3)
    BY <1>1, <1>3, <2>1
  <2> QED BY <1>3, <2>1, <2>2, TrailingEnds
<1> QED BY <1>2, <1>3 DEF Behind

\* What is known of the loader when byte p of message m is next.
Following(r, m, p, clean, ended, page) ==
    /\ clean /\ ended => InTime(r, m, p)
    /\ ~clean /\ ended => OutOfTime(r, m, p)
    /\ clean /\ ~ended => Behind(r, m, p, 0, page)
    /\ ~clean /\ ~ended => Behind(r, m, p, 1, page)

LEMMA FollowingArrives ==
    ASSUME NEW m, NEW p, NEW l, NEW byte, IsNext(m, p, l, byte), p < l, NEW r,
           NEW clean \in BOOLEAN, NEW ended \in BOOLEAN, NEW page \in Nat,
           Following(r, m, p, clean, ended, page)
    PROVE  Following(Taken(r, byte), m, p + 1, clean, ended, page) /\ ~Finishes(r, byte)
<1>1. 0 \in 0..1 /\ 1 \in 0..1
  OBVIOUS
<1>2. CASE clean /\ ended
  BY <1>2, InTimeArrives DEF Following
<1>3. CASE ~clean /\ ended
  BY <1>3, OutOfTimeArrives DEF Following
<1>4. CASE clean /\ ~ended
  <2>1. Behind(r, m, p, 0, page)
    BY <1>4 DEF Following
  <2>2. Behind(Taken(r, byte), m, p + 1, 0, page) /\ ~Finishes(r, byte)
    BY <1>1, <2>1, BehindArrives
  <2> QED BY <1>4, <2>2 DEF Following
<1>5. CASE ~clean /\ ~ended
  <2>1. Behind(r, m, p, 1, page)
    BY <1>5 DEF Following
  <2>2. Behind(Taken(r, byte), m, p + 1, 1, page) /\ ~Finishes(r, byte)
    BY <1>1, <2>1, BehindArrives
  <2> QED BY <1>5, <2>2 DEF Following
<1> QED BY <1>2, <1>3, <1>4, <1>5

LEMMA FollowingLost ==
    ASSUME NEW m, NEW p, NEW l, NEW byte, IsNext(m, p, l, byte), p < l, NEW r,
           NEW ended \in BOOLEAN, NEW page \in Nat, Following(r, m, p, TRUE, ended, page)
    PROVE  Following(r, m, p + 1, FALSE, ended, page)
<1>1. CASE ended
  <2>1. InTime(r, m, p)
    BY <1>1 DEF Following
  <2>2. OutOfTime(r, m, p + 1)
    BY <2>1, InTimeLost
  <2> QED BY <1>1, <2>2 DEF Following
<1>2. CASE ~ended
  <2>1. Behind(r, m, p, 0, page)
    BY <1>2 DEF Following
  <2>2. Behind(r, m, p + 1, 1, page)
    BY <2>1, BehindFails
  <2> QED BY <1>2, <2>2 DEF Following
<1> QED BY <1>1, <1>2

\* Room for what is read, while the loader reads no more than was sent of the message.
LEMMA GrownFits ==
    ASSUME NEW r, NEW n, NEW c, NEW b, Grown(r, n, c, b), n <= 2 * PageBytes + 2, NEW other
    PROVE  ~Overruns(r, other)
<1>1. PageBytes \in Nat /\ PageBytes >= 1
  BY ImagePages
<1>2. n \in Nat /\ Len(b) = (n + 1) \div 2 /\ \E s : IsReading(r, n, c, b, s)
  BY DEF Grown
<1>3. r.buffer = b
  BY <1>2, ReadingFields
<1>4. Len(b) < 2 * (PageBytes + 1)
  BY <1>1, <1>2
<1> QED BY <1>1, <1>2, <1>3, <1>4 DEF Overruns, Room

LEMMA NotReadingFits ==
    ASSUME NEW r, NEW other, r.state # "READING_DATA"
    PROVE  ~Overruns(r, other)
  BY DEF Overruns

LEMMA InTimeFits ==
    ASSUME NEW m, NEW p, NEW l, NEW byte, IsNext(m, p, l, byte), NEW r, InTime(r, m, p), NEW other
    PROVE  ~Overruns(r, other)
<1>1. /\ p \in Int /\ p >= 1 /\ p <= l /\ m \in Int /\ l \in Nat
      /\ Len(NewImage) \in Nat /\ PageBytes \in Nat
      /\ m <= Len(NewImage) => l = 2 * PageBytes + 11
  BY ImagePages DEF IsNext
<1>2. CASE p \in 1..6
  <2>1. r = Matching(p - 1)
    BY <1>2 DEF InTime
  <2>2. r.state = "MATCHING_HEADER"
    BY <2>1 DEF Matching
  <2> QED BY <2>2, NotReadingFits
<1>3. CASE p = 7 \/ p = 8
  <2>1. PICK c : r = Commanded(c)
    BY <1>3 DEF InTime
  <2>2. r.state = "READING_COMMAND"
    BY <2>1 DEF Commanded
  <2> QED BY <2>2, NotReadingFits
<1>4. CASE p >= 9
  <2>1. PICK n \in Nat : n = p - 9
    BY <1>1, <1>4
  <2>2. PICK b, s : /\ IsReading(r, n, <<Code(m), 0>>, b, s)
                    /\ IF m <= Len(NewImage) THEN Collected(b, s, Data(m), n)
                       ELSE p = 9 /\ b = <<>>
    <3>1. ~(p \in 1..6) /\ p # 7 /\ p # 8
      BY <1>4
    <3> QED BY <2>1, <3>1 DEF InTime
  <2>3. n <= 2 * PageBytes + 2
    BY <1>1, <2>1, <2>2
  <2>4. Grown(r, n, <<Code(m), 0>>, b)
    <3>1. CASE m <= Len(NewImage)
      BY <2>2, <3>1, CollectedGrows
    <3>2. CASE ~(m <= Len(NewImage))
      <4>1. b = <<>> /\ n = 0
        BY <2>1, <2>2, <3>2
      <4>2. b \in Seq(Nat) /\ Len(b) = (n + 1) \div 2
        <5>1. <<>> \in Seq(Nat) /\ Len(<<>>) = 0 /\ (0 + 1) \div 2 = 0
          OBVIOUS
        <5> QED BY <4>1, <5>1
      <4> QED BY <2>2, <4>2 DEF Grown
    <3> QED BY <3>1, <3>2
  <2> QED BY <2>3, <2>4, GrownFits
<1> QED BY <1>1, <1>2, <1>3, <1>4

LEMMA OutOfTimeFits ==
    ASSUME NEW m, NEW p, NEW l, NEW byte, IsNext(m, p, l, byte), NEW r, OutOfTime(r, m, p),
           NEW other
    PROVE  ~Overruns(r, other)
<1>1. /\ p \in Int /\ p >= 1 /\ p <= l /\ m \in Int /\ l \in Nat
      /\ Len(NewImage) \in Nat /\ PageBytes \in Nat
      /\ l = 9 \/ l = 2 * PageBytes + 11
  BY ImagePages DEF IsNext
<1>2. ASSUME NEW k, r = Matching(k)
      PROVE  ~Overruns(r, other)
  <2>1. r.state = "MATCHING_HEADER"
    BY <1>2 DEF Matching
  <2> QED BY <2>1, NotReadingFits
<1>3. ASSUME NEW c, r = Commanded(c)
      PROVE  ~Overruns(r, other)
  <2>1. r.state = "READING_COMMAND"
    BY <1>3 DEF Commanded
  <2> QED BY <2>1, NotReadingFits
<1>4. ASSUME NEW n, NEW c, NEW b, p >= 9, Grown(r, n, c, b), Amiss(r, m, n, c, b, p - 9)
      PROVE  ~Overruns(r, other)
  <2>1. n \in Nat /\ n <= p - 9
    <3>1. n \in Nat
      BY <1>4 DEF Grown
    <3>2. n < p - 9 \/ n = p - 9
      BY <1>4 DEF Amiss
    <3> QED BY <1>1, <3>1, <3>2
  <2>2. n <= 2 * PageBytes + 2
    BY <1>1, <2>1
  <2> QED BY <1>4, <2>2, GrownFits
<1> QED BY <1>2, <1>3, <1>4 DEF OutOfTime

LEMMA FollowingFits ==
    ASSUME NEW m, NEW p, NEW l, NEW byte, IsNext(m, p, l, byte), NEW r, NEW clean \in BOOLEAN,
           NEW page, Following(r, m, p, clean, TRUE, page), NEW other
    PROVE  ~Overruns(r, other)
<1>1. CASE clean
  BY <1>1, InTimeFits DEF Following
<1>2. CASE ~clean
  BY <1>2, OutOfTimeFits DEF Following
<1> QED BY <1>1, <1>2

\* The block is written.
Accepts(r, byte) == Finishes(r, byte) /\ ~IsReset(r) /\ IsBlock(r)
Holds(r, m) == m \in 1..Len(NewImage) /\ [i \in 1..PageBytes |-> r.buffer[i]] = NewImage[m]

DamageFollowed(r, m, p, ended, page, other) ==
    /\ Following(Taken(r, other), m, p + 1, FALSE, ended, page)
    /\ Accepts(r, other) =>
          /\ ~ended /\ Holds(r, m - 1) /\ page <= m - 2
          /\ Following(Taken(r, other), m, p + 1, FALSE, ended, page + 1)

LEMMA FollowingDamaged ==
    ASSUME NEW m, NEW p, NEW l, NEW byte, IsNext(m, p, l, byte), p < l, NEW r,
           NEW ended \in BOOLEAN, NEW page \in Nat, Following(r, m, p, TRUE, ended, page),
           NEW other, other \in 0..255, other # byte
    PROVE  DamageFollowed(r, m, p, ended, page, other)
<1> USE DEF DamageFollowed
<1>1. CASE ended
  <2>1. InTime(r, m, p)
    BY <1>1 DEF Following
  <2>2. OutOfTime(Taken(r, other), m, p + 1) /\ (Finishes(r, other) => ~IsBlock(r))
    BY <2>1, InTimeDamaged
  <2> QED BY <1>1, <2>2 DEF Following, Accepts
<1>2. CASE ~ended
  <2>1. Behind(r, m, p, 0, page)
    BY <1>2 DEF Following
  <2>2. CASE other # 247
    <3>1. Behind(Taken(r, other), m, p + 1, 1, page)
      BY <2>1, <2>2, BehindDamaged
    <3>2. ~Accepts(r, other)
      BY <2>2 DEF Accepts, Finishes, EndOfSysEx
    <3> QED BY <1>2, <3>1, <3>2 DEF Following
  <2>3. CASE other = 247
    <3>1. /\ Taken(r, 247) = Matching(0) /\ Behind(Matching(0), m, p + 1, 1, page + 1)
          /\ Behind(Matching(0), m, p + 1, 1, page)
          /\ IsBlock(r) => [i \in 1..PageBytes |-> r.buffer[i]] = NewImage[m - 1]
      BY <2>1, BehindWrites
    <3>2. page <= m - 2 /\ m - 1 \in 1..Len(NewImage)
      BY <2>1, BehindReads
    <3>3. Accepts(r, other) => Holds(r, m - 1)
      BY <3>1, <3>2 DEF Accepts, Holds
    <3> QED BY <1>2, <2>3, <3>1, <3>2, <3>3 DEF Following
  <2> QED BY <2>2, <2>3
<1> QED BY <1>1, <1>2

LEMMA FollowingEnds ==
    ASSUME NEW m, NEW p, NEW l, NEW byte, IsNext(m, p, l, byte), p = l, NEW r,
           NEW clean \in BOOLEAN, NEW ended \in BOOLEAN, NEW page \in Nat,
           Following(r, m, p, clean, ended, page)
    PROVE  /\ Taken(r, 247) = Matching(0) /\ (Accepts(r, 247) => Holds(r, m))
           /\ clean /\ ended => /\ Finishes(r, 247)
                                /\ m <= Len(NewImage) => Accepts(r, 247)
                                /\ ~(m <= Len(NewImage)) => IsReset(r)
<1>1. m \in Int /\ m >= 1 /\ Len(NewImage) \in Nat
  BY ImagePages DEF IsNext
<1>2. CASE clean /\ ended
  <2>1. InTime(r, m, p)
    BY <1>2 DEF Following
  <2>2. Taken(r, 247) = Matching(0) /\ Finishes(r, 247)
    BY <2>1, InTimeEnds, ZenonT(40)
  <2>3. m <= Len(NewImage) => /\ IsBlock(r) /\ ~IsReset(r)
                              /\ [i \in 1..PageBytes |-> r.buffer[i]] = NewImage[m]
    BY <2>1, InTimeEnds, ZenonT(40)
  <2>4. ~(m <= Len(NewImage)) => IsReset(r)
    BY <2>1, InTimeEnds
  <2> QED BY <1>1, <1>2, <2>2, <2>3, <2>4 DEF Accepts, Holds
<1>3. CASE ~clean /\ ended
  <2>1. OutOfTime(r, m, p)
    BY <1>3 DEF Following
  <2>2. Taken(r, 247) = Matching(0)
    BY <2>1, OutOfTimeEnds
  <2>3. Finishes(r, 247) /\ IsBlock(r) =>
            /\ m \in 1..Len(NewImage)
            /\ [i \in 1..PageBytes |-> r.buffer[i]] = NewImage[m]
    BY <2>1, OutOfTimeEnds
  <2> QED BY <1>3, <2>2, <2>3 DEF Accepts, Holds
<1>4. CASE ~ended
  <2>1. PICK failed \in 0..1 : Behind(r, m, p, failed, page)
    <3>1. Behind(r, m, p, 0, page) \/ Behind(r, m, p, 1, page)
      BY <1>4 DEF Following
    <3>2. 0 \in 0..1 /\ 1 \in 0..1
      OBVIOUS
    <3> QED BY <3>1, <3>2
  <2>2. Taken(r, 247) = Matching(0) /\ (Finishes(r, 247) => ~IsBlock(r))
    BY <2>1, BehindEnds
  <2> QED BY <1>4, <2>2 DEF Accepts
<1> QED BY <1>2, <1>3, <1>4

LEMMA FollowingMissed ==
    ASSUME NEW m, NEW p, NEW l, NEW byte, IsNext(m, p, l, byte), p = l, NEW r,
           NEW ended \in BOOLEAN, NEW page \in Nat, Following(r, m, p, TRUE, ended, page),
           m <= Len(NewImage), page <= m - 1
    PROVE  /\ Following(r, m + 1, 1, TRUE, FALSE, page)
           /\ \A other \in 0..255 : other # 247 =>
                 Following(Taken(r, other), m + 1, 1, TRUE, FALSE, page)
<1>1. /\ Behind(r, m + 1, 1, 0, page)
      /\ \A other \in 0..255 : other # 247 => Behind(Taken(r, other), m + 1, 1, 0, page)
  <2>1. CASE ended
    <3>1. InTime(r, m, p)
      BY <2>1 DEF Following
    <3> QED BY <3>1, EndIsMissed
  <2>2. CASE ~ended
    <3>1. Behind(r, m, p, 0, page)
      BY <2>2 DEF Following
    <3> QED BY <3>1, BehindMissed
  <2> QED BY <2>1, <2>2
<1> QED BY <1>1 DEF Following

SentRecords ==
    [message : 1..(Len(NewImage) + 2), position : Nat, clean : BOOLEAN, ended : BOOLEAN]

LEMMA LastSent ==
    ASSUME sent \in SentRecords, sent.message <= Len(NewImage) + 1, NEW right \in BOOLEAN,
           LastByte, NEW s, s = SentOne(right)
    PROVE  /\ s \in SentRecords /\ s.message = sent.message + 1 /\ s.position = 1
           /\ s.clean = TRUE /\ s.ended = right
<1>1. Len(NewImage) \in Nat
  BY ImagePages
<1>2. PICK yes \in BOOLEAN : yes = TRUE
  OBVIOUS
<1>3. s = [message |-> sent.message + 1, position |-> 1, clean |-> yes, ended |-> right]
  BY <1>2 DEF SentOne
<1>4. sent.message + 1 \in 1..(Len(NewImage) + 2)
  BY <1>1 DEF SentRecords
<1> QED BY <1>2, <1>3, <1>4 DEF SentRecords

LEMMA NextSent ==
    ASSUME sent \in SentRecords, NEW right \in BOOLEAN, ~LastByte, NEW s, s = SentOne(right)
    PROVE  /\ s \in SentRecords /\ s.message = sent.message /\ s.position = sent.position + 1
           /\ s.clean = (sent.clean /\ right) /\ s.ended = sent.ended
<1>1. PICK c \in BOOLEAN : c = (sent.clean /\ right)
  OBVIOUS
<1>2. PICK m \in 1..(Len(NewImage) + 2), p \in Nat, d \in BOOLEAN, e \in BOOLEAN :
          /\ sent = [message |-> m, position |-> p, clean |-> d, ended |-> e]
          /\ sent.message = m /\ sent.position = p /\ sent.clean = d /\ sent.ended = e
  BY DEF SentRecords
<1>3. PICK u : u = [sent EXCEPT !.position = sent.position + 1]
  OBVIOUS
<1>4. u = [message |-> m, position |-> p + 1, clean |-> d, ended |-> e]
  BY <1>2, <1>3
<1>5. PICK v : v = [u EXCEPT !.clean = c]
  OBVIOUS
<1>6. v = [message |-> m, position |-> p + 1, clean |-> c, ended |-> e]
  BY <1>4, <1>5
<1>7. s = v
  <2>1. s = [sent EXCEPT !.position = @ + 1, !.clean = @ /\ right]
    BY Zenon DEF SentOne
  <2> QED BY <1>1, <1>3, <1>5, <2>1, Zenon
<1>8. p + 1 \in Nat
  OBVIOUS
<1>9. v \in SentRecords
  BY <1>6, <1>8 DEF SentRecords
<1>10. v.message = m /\ v.position = p + 1 /\ v.clean = c /\ v.ended = e
  BY <1>6
<1> QED BY <1>1, <1>2, <1>7, <1>9, <1>10, Zenon

LEMMA ImageWritten ==
    ASSUME NEW D, NEW f, f = [q \in D |-> f[q]], NEW p, NEW content, NEW g,
           g = [f EXCEPT ![p] = content]
    PROVE  g = [q \in D |-> g[q]] /\ (p \in D => g[p] = content)
<1>1. g = [q \in D |-> IF q = p THEN content ELSE f[q]]
  OBVIOUS
<1> QED BY <1>1

\* The invariant: between two bytes, where the loader is in what is sent.
InStepWith(r, s, page) ==
    /\ s \in SentRecords /\ page <= s.message - 1
    /\ s.message <= Len(NewImage) + 1 =>
          /\ s.position \in 1..Len(UpdateMessages[s.message])
          /\ Following(r, s.message, s.position, s.clean, s.ended, page)
IsImage(f) == f = [p \in 0..(Len(NewImage) - 1) |-> f[p]]
LoaderInv ==
    /\ lpage \in Nat /\ IsImage(image)
    /\ lpc = "start" => lpage = 0 /\ sent = NothingSent /\ rxs = NewReception
    /\ lpc = "midi" => InStepWith(rxs, sent, lpage)

\* BlocksArriveWhole, one step.
BlockStep ==
    lpc = "midi" /\ lpc' # "start" =>
          /\ lpage' # lpage =>
                \E m \in 1..Len(NewImage) :
                    /\ image'[lpage] = NewImage[m]
                    /\ IF LastByte THEN m = sent.message ELSE m = sent.message - 1 /\ ~sent.ended
          /\ sent.clean /\ sent.ended /\ sent'.ended /\ sent'.message > sent.message =>
                IF sent.message <= Len(NewImage) THEN lpage' = lpage + 1 ELSE lpc' = "main"
          /\ lpc' = "overrun" => ~sent.ended

LEMMA UpdateLength == Len(UpdateMessages) = Len(NewImage) + 1 /\ Len(NewImage) + 1 \in Nat
<1>1. Len(NewImage) + 1 \in Nat
  BY ImagePages
<1>2. PICK n \in Nat : n = Len(NewImage) + 1
  BY <1>1
<1>3. DOMAIN UpdateMessages = 1..n
  BY <1>2 DEF UpdateMessages
<1>4. UpdateMessages = [m \in 1..n |-> UpdateMessages[m]]
  BY <1>2 DEF UpdateMessages
<1>5. UpdateMessages \in Seq({UpdateMessages[m] : m \in 1..n})
  BY <1>4
<1> QED BY <1>1, <1>2, <1>3, <1>5, LenProperties

\* A message begins.
LEMMA BeginsMessage ==
    ASSUME NEW s, s \in SentRecords, s.position = 1, NEW page \in Nat, page <= s.message - 1,
           NEW r, s.message <= Len(NewImage) + 1 =>
                     Following(r, s.message, 1, s.clean, s.ended, page)
    PROVE  InStepWith(r, s, page)
<1>1. Len(NewImage) \in Nat /\ s.message \in 1..(Len(NewImage) + 2)
  BY ImagePages DEF SentRecords
<1>2. ASSUME s.message <= Len(NewImage) + 1
      PROVE  1 \in 1..Len(UpdateMessages[s.message])
  <2>1. PICK m \in 1..(Len(NewImage) + 1) : m = s.message
    BY <1>1, <1>2
  <2>2. Len(UpdateMessages[m]) \in Nat /\ Len(UpdateMessages[m]) >= 9
    <3>1. CASE m <= Len(NewImage)
      <4>1. m \in 1..Len(NewImage) /\ PageBytes \in Nat
        BY <1>1, <3>1, ImagePages
      <4>2. Len(UpdateMessages[m]) = 2 * PageBytes + 11
        BY <4>1, BlockBytes
      <4> QED BY <4>1, <4>2
    <3>2. CASE ~(m <= Len(NewImage))
      <4>1. m = Len(NewImage) + 1
        BY <1>1, <3>2
      <4>2. Len(UpdateMessages[m]) = 9
        BY <4>1, ResetBytes
      <4> QED BY <4>2
    <3> QED BY <3>1, <3>2
  <2> QED BY <2>1, <2>2
<1> QED BY <1>2 DEF InStepWith

LEMMA SendingFacts ==
    ASSUME LoaderInv, Sending
    PROVE  \E m, p, l, byte : \E clean, ended \in BOOLEAN :
              /\ sent.message = m /\ sent.position = p /\ l = Len(UpdateMessages[m])
              /\ sent.clean = clean /\ sent.ended = ended /\ byte = NextByte
              /\ sent \in SentRecords /\ (LastByte <=> p = l) /\ (LastByte \/ p < l)
              /\ IsNext(m, p, l, byte) /\ lpage \in Nat /\ lpage <= m - 1
              /\ Following(rxs, m, p, clean, ended, lpage)
<1>1. Len(NewImage) \in Nat
  BY ImagePages
<1>2. InStepWith(rxs, sent, lpage) /\ lpage \in Nat /\ sent.message <= Len(NewImage) + 1
  BY UpdateLength DEF LoaderInv, Sending
<1>3. sent \in SentRecords /\ lpage <= sent.message - 1
  BY <1>2 DEF InStepWith
<1>4. sent.message \in 1..(Len(NewImage) + 1) /\ sent.clean \in BOOLEAN /\ sent.ended \in BOOLEAN
  BY <1>1, <1>2, <1>3 DEF SentRecords
<1>5. /\ sent.position \in 1..Len(UpdateMessages[sent.message])
      /\ Following(rxs, sent.message, sent.position, sent.clean, sent.ended, lpage)
  BY <1>2 DEF InStepWith
<1>6. PICK m, p, l, byte : /\ m = sent.message /\ p = sent.position
                           /\ l = Len(UpdateMessages[m]) /\ byte = UpdateMessages[m][p]
  OBVIOUS
<1>7. PICK clean, ended \in BOOLEAN : clean = sent.clean /\ ended = sent.ended
  BY <1>4
<1>8. m \in 1..(Len(NewImage) + 1) /\ p \in 1..l
  BY <1>4, <1>5, <1>6
<1>9. IsNext(m, p, l, byte)
  BY <1>6, <1>8, NextBytes
<1>10. l \in Nat
  BY <1>9 DEF IsNext
<1>11. (LastByte <=> p = l) /\ (LastByte \/ p < l) /\ byte = NextByte
  BY <1>6, <1>8, <1>10 DEF LastByte, NextByte
<1>12. Following(rxs, m, p, clean, ended, lpage)
  BY <1>5, <1>6, <1>7
<1> QED BY <1>2, <1>3, <1>6, <1>7, <1>9, <1>11, <1>12

\* What one byte does to the flash.
LEMMA ConsumeWrites ==
    ASSUME lpage \in Nat, IsImage(image), NEW other \in 0..255, Consume(other), lpc = "midi"
    PROVE  /\ rxs' = Taken(rxs, other) /\ IsImage(image')
           /\ lpc' # "start" /\ (lpc' = "overrun" => Overruns(rxs, other))
           /\ ~Accepts(rxs, other) => lpage' = lpage
           /\ Accepts(rxs, other) =>
                 /\ lpage' = lpage + 1
                 /\ lpage < Len(NewImage) =>
                       image'[lpage] = [i \in 1..PageBytes |-> rxs.buffer[i]]
           /\ Finishes(rxs, other) /\ IsReset(rxs) => lpc' = "main"
<1>1. rxs' = Taken(rxs, other) /\ (Finishes(rxs, other) /\ IsReset(rxs) => lpc' = "main")
  BY ConsumeFacts
<1>2. CASE Accepts(rxs, other)
  <2>1. UNCHANGED lpc /\ Writes([i \in 1..PageBytes |-> rxs.buffer[i]])
    BY <1>2, ConsumeFacts DEF Accepts
  <2>2. PICK content : content = [i \in 1..PageBytes |-> rxs.buffer[i]]
    OBVIOUS
  <2>3. image' = [image EXCEPT ![lpage] = content] /\ lpage' = lpage + 1
    BY <2>1, <2>2 DEF Writes
  <2>4. PICK D : D = 0..(Len(NewImage) - 1)
    OBVIOUS
  <2>5. image = [q \in D |-> image[q]]
    BY <2>4 DEF IsImage
  <2>6. image' = [q \in D |-> image'[q]] /\ (lpage \in D => image'[lpage] = content)
    BY <2>3, <2>5, ImageWritten
  <2>7. IsImage(image')
    BY <2>4, <2>6 DEF IsImage
  <2>8. lpage < Len(NewImage) => lpage \in D
    BY <2>4, ImagePages
  <2> QED BY <1>1, <1>2, <2>1, <2>2, <2>3, <2>6, <2>7, <2>8
<1>3. CASE ~Accepts(rxs, other)
  <2>1. /\ UNCHANGED <<image, lpage>>
        /\ lpc' = "midi" \/ lpc' = "main" \/ (lpc' = "overrun" /\ Overruns(rxs, other))
    <3>1. CASE ~Finishes(rxs, other)
      BY <3>1, ConsumeFacts
    <3>2. CASE Finishes(rxs, other)
      <4>1. IsReset(rxs) \/ ~IsBlock(rxs)
        BY <1>3, <3>2 DEF Accepts
      <4> QED BY <3>2, <4>1, ConsumeFacts
    <3> QED BY <3>1, <3>2
  <2> QED BY <1>1, <1>3, <2>1
<1> QED BY <1>2, <1>3

\* A byte in the middle of a message.
LEMMA MiddleByte ==
    ASSUME LoaderInv, Sending, NEW other \in 0..255, NEW right \in BOOLEAN, Consume(other),
           sent' = SentOne(right), ~LastByte, right => other = NextByte,
           ~right => sent.clean /\ other # NextByte
    PROVE  LoaderInv' /\ BlockStep
<1>1. PICK m, p, l, byte : \E clean, ended \in BOOLEAN :
          /\ sent.message = m /\ sent.position = p /\ l = Len(UpdateMessages[m])
          /\ sent.clean = clean /\ sent.ended = ended /\ byte = NextByte
          /\ sent \in SentRecords /\ (LastByte <=> p = l) /\ (LastByte \/ p < l)
          /\ IsNext(m, p, l, byte) /\ lpage \in Nat /\ lpage <= m - 1
          /\ Following(rxs, m, p, clean, ended, lpage)
  BY SendingFacts
<1>2. PICK clean, ended \in BOOLEAN :
          /\ sent.message = m /\ sent.position = p /\ l = Len(UpdateMessages[m])
          /\ sent.clean = clean /\ sent.ended = ended /\ byte = NextByte
          /\ sent \in SentRecords /\ p < l
          /\ IsNext(m, p, l, byte) /\ lpage \in Nat /\ lpage <= m - 1
          /\ Following(rxs, m, p, clean, ended, lpage)
  BY <1>1
<1>3. /\ sent' \in SentRecords /\ sent'.message = m /\ sent'.position = p + 1
      /\ sent'.clean = (clean /\ right) /\ sent'.ended = ended
  BY <1>2, NextSent
<1>4. /\ m \in Int /\ p \in Int /\ l \in Nat /\ Len(NewImage) \in Nat /\ p >= 1
      /\ m <= Len(NewImage) + 1 /\ m >= 1
  BY <1>2, ImagePages DEF IsNext
<1>5. /\ rxs' = Taken(rxs, other) /\ IsImage(image')
      /\ lpc' # "start" /\ (lpc' = "overrun" => Overruns(rxs, other))
      /\ ~Accepts(rxs, other) => lpage' = lpage
      /\ Accepts(rxs, other) =>
            /\ lpage' = lpage + 1
            /\ lpage < Len(NewImage) =>
                  image'[lpage] = [i \in 1..PageBytes |-> rxs.buffer[i]]
  BY <1>2, ConsumeWrites DEF LoaderInv, Sending
<1>6. /\ lpage' \in Nat /\ lpage' <= m - 1
      /\ Following(rxs', m, p + 1, clean /\ right, ended, lpage')
      /\ Accepts(rxs, other) => ~ended /\ Holds(rxs, m - 1) /\ lpage < Len(NewImage)
  <2>1. CASE right
    <3>1. Following(Taken(rxs, byte), m, p + 1, clean, ended, lpage) /\ ~Finishes(rxs, byte)
      BY <1>2, FollowingArrives
    <3>2. ~Accepts(rxs, other)
      BY <1>2, <2>1, <3>1 DEF Accepts
    <3>3. rxs' = Taken(rxs, byte) /\ lpage' = lpage
      BY <1>2, <1>5, <2>1, <3>2
    <3> QED BY <1>2, <2>1, <3>1, <3>2, <3>3
  <2>2. CASE ~right
    <3>1. other # byte /\ clean = TRUE
      BY <1>2, <2>2
    <3>2. /\ Following(Taken(rxs, other), m, p + 1, FALSE, ended, lpage)
          /\ Accepts(rxs, other) =>
                /\ ~ended /\ Holds(rxs, m - 1) /\ lpage <= m - 2
                /\ Following(Taken(rxs, other), m, p + 1, FALSE, ended, lpage + 1)
      <4>1. IsNext(m, p, l, byte) /\ p < l /\ lpage \in Nat
        BY <1>2
      <4>2. Following(rxs, m, p, TRUE, ended, lpage)
        BY <1>2, <3>1
      <4>3. PICK r, page : r = rxs /\ page = lpage
        OBVIOUS
      <4>4. page \in Nat /\ Following(r, m, p, TRUE, ended, page)
        BY <4>1, <4>2, <4>3
      <4>5. other # byte
        BY <3>1
      <4>6. /\ Following(Taken(r, other), m, p + 1, FALSE, ended, page)
            /\ Accepts(r, other) =>
                  /\ ~ended /\ Holds(r, m - 1) /\ page <= m - 2
                  /\ Following(Taken(r, other), m, p + 1, FALSE, ended, page + 1)
        <5>1. DamageFollowed(r, m, p, ended, page, other)
          BY <4>1, <4>4, <4>5, FollowingDamaged
        <5> QED BY <5>1 DEF DamageFollowed
      <4> QED BY <4>3, <4>6
    <3>3. CASE Accepts(rxs, other)
      <4>1. lpage < Len(NewImage) /\ lpage + 1 \in Nat /\ lpage + 1 <= m - 1
        BY <1>2, <1>4, <3>2, <3>3
      <4> QED BY <1>5, <2>2, <3>2, <3>3, <4>1
    <3>4. CASE ~Accepts(rxs, other)
      BY <1>2, <1>5, <2>2, <3>2, <3>4
    <3> QED BY <3>3, <3>4
  <2> QED BY <2>1, <2>2
<1>7. InStepWith(rxs', sent', lpage')
  <2>1. p + 1 \in 1..l
    BY <1>2, <1>4
  <2>2. sent'.position \in 1..Len(UpdateMessages[sent'.message])
    BY <1>2, <1>3, <2>1
  <2>3. Following(rxs', sent'.message, sent'.position, sent'.clean, sent'.ended, lpage')
    BY <1>3, <1>6
  <2> QED BY <1>3, <1>6, <2>2, <2>3 DEF InStepWith
<1>8. LoaderInv'
  BY <1>5, <1>6, <1>7 DEF LoaderInv
<1>9. ASSUME lpage' # lpage
      PROVE  \E k \in 1..Len(NewImage) :
                /\ image'[lpage] = NewImage[k]
                /\ IF LastByte THEN k = sent.message ELSE k = sent.message - 1 /\ ~sent.ended
  <2>1. Accepts(rxs, other)
    BY <1>5, <1>9
  <2>2. m - 1 \in 1..Len(NewImage) /\ image'[lpage] = NewImage[m - 1] /\ ~ended
    BY <1>5, <1>6, <2>1 DEF Holds
  <2> QED BY <1>2, <2>2
<1>10. ~(sent'.message > sent.message)
  BY <1>2, <1>3, <1>4
<1>11. lpc' = "overrun" => ~sent.ended
  <2> SUFFICES ASSUME lpc' = "overrun", ended
               PROVE  FALSE
    BY <1>2
  <2>1. Following(rxs, m, p, clean, TRUE, lpage)
    BY <1>2
  <2>2. ~Overruns(rxs, other)
    BY <1>2, <2>1, FollowingFits
  <2> QED BY <1>5, <2>2
<1> QED BY <1>8, <1>9, <1>10, <1>11 DEF BlockStep

\* A byte is lost in the middle of a message.
LEMMA MiddleLost ==
    ASSUME LoaderInv, Sending, sent.clean, UNCHANGED <<rxs, image, lpage, lpc>>,
           sent' = SentOne(FALSE), ~LastByte
    PROVE  LoaderInv' /\ BlockStep
<1>1. PICK m, p, l, byte : \E clean, ended \in BOOLEAN :
          /\ sent.message = m /\ sent.position = p /\ l = Len(UpdateMessages[m])
          /\ sent.clean = clean /\ sent.ended = ended /\ byte = NextByte
          /\ sent \in SentRecords /\ (LastByte <=> p = l) /\ (LastByte \/ p < l)
          /\ IsNext(m, p, l, byte) /\ lpage \in Nat /\ lpage <= m - 1
          /\ Following(rxs, m, p, clean, ended, lpage)
  BY SendingFacts
<1>2. PICK ended \in BOOLEAN :
          /\ sent.message = m /\ sent.position = p /\ l = Len(UpdateMessages[m])
          /\ sent.ended = ended /\ sent \in SentRecords /\ p < l
          /\ IsNext(m, p, l, byte) /\ lpage \in Nat /\ lpage <= m - 1
          /\ Following(rxs, m, p, TRUE, ended, lpage)
  <2>1. PICK clean, ended \in BOOLEAN :
            /\ sent.message = m /\ sent.position = p /\ l = Len(UpdateMessages[m])
            /\ sent.clean = clean /\ sent.ended = ended /\ sent \in SentRecords /\ p < l
            /\ IsNext(m, p, l, byte) /\ lpage \in Nat /\ lpage <= m - 1
            /\ Following(rxs, m, p, clean, ended, lpage)
    BY <1>1
  <2>2. clean = TRUE
    BY <2>1
  <2> QED BY <2>1, <2>2
<1>3. PICK right \in BOOLEAN : right = FALSE
  OBVIOUS
<1>4. /\ sent' \in SentRecords /\ sent'.message = m /\ sent'.position = p + 1
      /\ sent'.clean = FALSE /\ sent'.ended = ended
  BY <1>2, <1>3, NextSent
<1>5. /\ m \in Int /\ p \in Int /\ l \in Nat /\ p >= 1
  BY <1>2 DEF IsNext
<1>6. Following(rxs, m, p + 1, FALSE, ended, lpage)
  BY <1>2, FollowingLost
<1>7. InStepWith(rxs', sent', lpage')
  <2>1. p + 1 \in 1..l
    BY <1>2, <1>5
  <2>2. sent'.position \in 1..Len(UpdateMessages[sent'.message])
    BY <1>2, <1>4, <2>1
  <2>3. Following(rxs', sent'.message, sent'.position, sent'.clean, sent'.ended, lpage')
    BY <1>4, <1>6
  <2> QED BY <1>2, <1>4, <2>2, <2>3 DEF InStepWith
<1>8. LoaderInv'
  BY <1>7 DEF LoaderInv, Sending, IsImage
<1>9. ~(sent'.message > sent.message)
  <2>1. ~(m > m)
    BY ONLY <1>5
  <2> QED BY <1>2, <1>4, <2>1, Zenon
<1>10. lpc' # "overrun"
  BY DEF Sending
<1> QED BY <1>8, <1>9, <1>10 DEF BlockStep

LEMMA NewMessageInTime ==
    ASSUME NEW m \in Nat, m >= 1, NEW page \in Nat
    PROVE  Following(Matching(0), m, 1, TRUE, TRUE, page)
<1>1. InTime(Matching(0), m, 1)
  BY DEF InTime
<1> QED BY <1>1 DEF Following

LEMMA LastFacts ==
    ASSUME LoaderInv, Sending, LastByte
    PROVE  \E m, p, l, byte : \E clean, ended \in BOOLEAN :
              /\ sent.message = m /\ sent.clean = clean /\ sent.ended = ended /\ p = l
              /\ byte = NextByte /\ byte = 247
              /\ m \in 1..(Len(NewImage) + 1) /\ Len(NewImage) \in Nat
              /\ sent \in SentRecords /\ IsNext(m, p, l, byte) /\ lpage \in Nat /\ lpage <= m - 1
              /\ Following(rxs, m, p, clean, ended, lpage)
<1>1. PICK m, p, l, byte : \E clean, ended \in BOOLEAN :
          /\ sent.message = m /\ sent.position = p /\ l = Len(UpdateMessages[m])
          /\ sent.clean = clean /\ sent.ended = ended /\ byte = NextByte
          /\ sent \in SentRecords /\ (LastByte <=> p = l) /\ (LastByte \/ p < l)
          /\ IsNext(m, p, l, byte) /\ lpage \in Nat /\ lpage <= m - 1
          /\ Following(rxs, m, p, clean, ended, lpage)
  BY SendingFacts
<1>2. m \in 1..(Len(NewImage) + 1) /\ (p = l => byte = 247) /\ Len(NewImage) \in Nat
  BY <1>1, ImagePages DEF IsNext
<1> QED BY <1>1, <1>2

\* The last byte of a message arrives.
LEMMA EndArrives ==
    ASSUME LoaderInv, Sending, Consume(247), sent' = SentOne(TRUE), LastByte
    PROVE  LoaderInv' /\ BlockStep
<1>1. PICK m, p, l, byte : \E clean, ended \in BOOLEAN :
          /\ sent.message = m /\ sent.clean = clean /\ sent.ended = ended /\ p = l
          /\ byte = NextByte /\ byte = 247
          /\ m \in 1..(Len(NewImage) + 1) /\ Len(NewImage) \in Nat
          /\ sent \in SentRecords /\ IsNext(m, p, l, byte) /\ lpage \in Nat /\ lpage <= m - 1
          /\ Following(rxs, m, p, clean, ended, lpage)
  BY LastFacts
<1>2. PICK clean, ended \in BOOLEAN :
          /\ sent.message = m /\ sent.clean = clean /\ sent.ended = ended /\ p = l
          /\ m \in 1..(Len(NewImage) + 1) /\ Len(NewImage) \in Nat
          /\ sent \in SentRecords /\ IsNext(m, p, l, byte) /\ lpage \in Nat /\ lpage <= m - 1
          /\ Following(rxs, m, p, clean, ended, lpage)
  BY <1>1
<1>3. PICK right \in BOOLEAN : right = TRUE
  OBVIOUS
<1>4. /\ sent' \in SentRecords /\ sent'.message = m + 1 /\ sent'.position = 1
      /\ sent'.clean = TRUE /\ sent'.ended = TRUE
  <2>1. sent.message <= Len(NewImage) + 1 /\ sent' = SentOne(right)
    BY <1>2, <1>3
  <2> QED BY <1>2, <1>3, <2>1, LastSent
<1>5. /\ Taken(rxs, 247) = Matching(0) /\ (Accepts(rxs, 247) => Holds(rxs, m))
      /\ clean /\ ended => /\ Finishes(rxs, 247)
                           /\ m <= Len(NewImage) => Accepts(rxs, 247)
                           /\ ~(m <= Len(NewImage)) => IsReset(rxs)
  <2>1. /\ IsNext(m, p, l, byte) /\ p = l /\ lpage \in Nat
        /\ Following(rxs, m, p, clean, ended, lpage)
    BY <1>2
  <2> QED BY <2>1, FollowingEnds, Zenon
<1>6. /\ rxs' = Taken(rxs, 247) /\ IsImage(image')
      /\ lpc' # "start" /\ (lpc' = "overrun" => Overruns(rxs, 247))
      /\ ~Accepts(rxs, 247) => lpage' = lpage
      /\ Accepts(rxs, 247) =>
            /\ lpage' = lpage + 1
            /\ lpage < Len(NewImage) =>
                  image'[lpage] = [i \in 1..PageBytes |-> rxs.buffer[i]]
      /\ Finishes(rxs, 247) /\ IsReset(rxs) => lpc' = "main"
  <2>1. 247 \in 0..255
    OBVIOUS
  <2> QED BY <1>2, <2>1, ConsumeWrites DEF LoaderInv, Sending
<1>7. lpage' \in Nat /\ lpage' <= m
  BY <1>2, <1>6
<1>8. InStepWith(rxs', sent', lpage')
  <2>1. m + 1 \in Nat /\ m + 1 >= 1 /\ lpage' <= (m + 1) - 1
    BY <1>2, <1>7
  <2>2. Following(rxs', m + 1, 1, TRUE, TRUE, lpage')
    BY <1>5, <1>6, <1>7, <2>1, NewMessageInTime
  <2>3. /\ lpage' <= sent'.message - 1
        /\ Following(rxs', sent'.message, 1, sent'.clean, sent'.ended, lpage')
    BY <1>4, <2>1, <2>2
  <2> QED BY <1>4, <1>7, <2>3, BeginsMessage
<1>9. LoaderInv'
  BY <1>6, <1>7, <1>8 DEF LoaderInv
<1>10. ASSUME lpage' # lpage
       PROVE  m \in 1..Len(NewImage) /\ image'[lpage] = NewImage[m]
  <2>1. Accepts(rxs, 247) /\ Holds(rxs, m)
    BY <1>5, <1>6, <1>10
  <2>2. m \in 1..Len(NewImage) /\ [i \in 1..PageBytes |-> rxs.buffer[i]] = NewImage[m]
    BY <2>1 DEF Holds
  <2>3. lpage < Len(NewImage)
    BY <1>2, <2>2
  <2> QED BY <1>6, <2>1, <2>2, <2>3
<1>11. ASSUME sent.clean, sent.ended
       PROVE  IF sent.message <= Len(NewImage) THEN lpage' = lpage + 1 ELSE lpc' = "main"
  <2>1. /\ Finishes(rxs, 247) /\ (m <= Len(NewImage) => Accepts(rxs, 247))
        /\ ~(m <= Len(NewImage)) => IsReset(rxs)
    BY <1>2, <1>5, <1>11
  <2> QED BY <1>2, <1>6, <2>1
<1>12. lpage' # lpage =>
          \E k \in 1..Len(NewImage) :
             /\ image'[lpage] = NewImage[k]
             /\ IF LastByte THEN k = sent.message ELSE k = sent.message - 1 /\ ~sent.ended
  BY <1>2, <1>10
<1>13. lpc' # "overrun"
  <2>1. ~Overruns(rxs, 247)
    BY DEF Overruns
  <2> QED BY <1>6, <2>1
<1> QED BY <1>9, <1>11, <1>12, <1>13 DEF BlockStep

\* The last byte of a message is lost or damaged.
LEMMA EndMissed ==
    ASSUME LoaderInv, Sending, sent.clean, sent' = SentOne(FALSE), LastByte,
           \/ UNCHANGED <<rxs, image, lpage, lpc>>
           \/ \E other \in 0..255 : other # NextByte /\ Consume(other)
    PROVE  LoaderInv' /\ BlockStep
<1>1. PICK m, p, l, byte : \E clean, ended \in BOOLEAN :
          /\ sent.message = m /\ sent.clean = clean /\ sent.ended = ended /\ p = l
          /\ byte = NextByte /\ byte = 247
          /\ m \in 1..(Len(NewImage) + 1) /\ Len(NewImage) \in Nat
          /\ sent \in SentRecords /\ IsNext(m, p, l, byte) /\ lpage \in Nat /\ lpage <= m - 1
          /\ Following(rxs, m, p, clean, ended, lpage)
  BY LastFacts
<1>2. PICK clean, ended \in BOOLEAN :
          /\ sent.message = m /\ sent.clean = clean /\ sent.ended = ended /\ p = l
          /\ byte = NextByte /\ byte = 247
          /\ m \in 1..(Len(NewImage) + 1) /\ Len(NewImage) \in Nat
          /\ sent \in SentRecords /\ IsNext(m, p, l, byte) /\ lpage \in Nat /\ lpage <= m - 1
          /\ Following(rxs, m, p, clean, ended, lpage)
  BY <1>1
<1>3. Following(rxs, m, p, TRUE, ended, lpage)
  <2>1. clean = TRUE
    BY <1>2
  <2> QED BY <1>2, <2>1
<1>4. PICK right \in BOOLEAN : right = FALSE /\ sent' = SentOne(right)
  BY Zenon
<1>5. /\ sent' \in SentRecords /\ sent'.message = m + 1 /\ sent'.position = 1
      /\ sent'.clean = TRUE /\ sent'.ended = FALSE
  <2>1. sent.message <= Len(NewImage) + 1
    BY <1>2
  <2> QED BY <1>2, <1>4, <2>1, LastSent
<1>6. /\ rxs' = rxs \/ \E other \in 0..255 : other # 247 /\ rxs' = Taken(rxs, other)
      /\ lpage' = lpage /\ IsImage(image') /\ lpc' # "start"
      /\ lpc' = "overrun" => ~ended
  <2>1. CASE UNCHANGED <<rxs, image, lpage, lpc>>
    BY <2>1 DEF LoaderInv, Sending
  <2>2. ASSUME NEW other \in 0..255, other # NextByte, Consume(other)
        PROVE  /\ other # 247 /\ rxs' = Taken(rxs, other)
               /\ lpage' = lpage /\ IsImage(image') /\ lpc' # "start"
               /\ lpc' = "overrun" => ~ended
    <3>1. other # 247
      BY <1>2, <2>2
    <3>2. ~Accepts(rxs, other)
      BY <3>1 DEF Accepts, Finishes, EndOfSysEx
    <3>3. ended => ~Overruns(rxs, other)
      <4> SUFFICES ASSUME ended
                   PROVE  ~Overruns(rxs, other)
        OBVIOUS
      <4>1. PICK yes \in BOOLEAN : yes = TRUE /\ Following(rxs, m, p, yes, TRUE, lpage)
        <5>1. ended = TRUE
          OBVIOUS
        <5> QED BY <1>3, <5>1, Zenon
      <4>2. IsNext(m, p, l, byte) /\ Following(rxs, m, p, yes, TRUE, lpage)
        BY <1>2, <4>1, Zenon
      <4> QED BY <4>2, FollowingFits
    <3>4. /\ rxs' = Taken(rxs, other) /\ lpage' = lpage /\ IsImage(image')
          /\ lpc' # "start" /\ (lpc' = "overrun" => Overruns(rxs, other))
      BY <1>2, <2>2, <3>2, ConsumeWrites DEF LoaderInv, Sending
    <3> QED BY <3>1, <3>3, <3>4
  <2> QED BY <2>1, <2>2
<1>7. InStepWith(rxs', sent', lpage')
  <2>1. sent'.message <= Len(NewImage) + 1 =>
              Following(rxs', sent'.message, 1, sent'.clean, sent'.ended, lpage')
    <3>1. SUFFICES ASSUME m <= Len(NewImage)
                   PROVE  Following(rxs', m + 1, 1, TRUE, FALSE, lpage)
      <4>1. m + 1 <= Len(NewImage) + 1 => m <= Len(NewImage)
        BY <1>2
      <4> QED BY <1>5, <1>6, <4>1, Zenon
    <3>2. /\ Following(rxs, m + 1, 1, TRUE, FALSE, lpage)
          /\ \A other \in 0..255 : other # 247 =>
                Following(Taken(rxs, other), m + 1, 1, TRUE, FALSE, lpage)
      <4>1. IsNext(m, p, l, byte) /\ p = l /\ lpage \in Nat /\ lpage <= m - 1
        BY <1>2
      <4> QED BY <1>3, <3>1, <4>1, FollowingMissed, ZenonT(40)
    <3> QED BY <1>6, <3>2
  <2>2. lpage' \in Nat /\ lpage' <= sent'.message - 1
    <3>1. lpage <= (m + 1) - 1 /\ lpage \in Nat
      BY <1>2
    <3> QED BY <1>5, <1>6, <3>1, Zenon
  <2> QED BY <1>5, <2>1, <2>2, BeginsMessage
<1>8. LoaderInv'
  <2>1. lpc' # "start" /\ lpage' \in Nat
    BY <1>2, <1>6
  <2> QED BY <1>6, <1>7, <2>1 DEF LoaderInv
<1>9. lpage' = lpage /\ ~sent'.ended /\ (lpc' = "overrun" => ~sent.ended)
  BY <1>2, <1>5, <1>6
<1> QED BY <1>8, <1>9 DEF BlockStep

LEMMA ArrivesStep ==
    ASSUME LoaderInv, Arrives
    PROVE  LoaderInv' /\ BlockStep
<1>1. Sending /\ Consume(NextByte) /\ sent' = SentOne(TRUE)
  BY DEF Arrives
<1>2. CASE LastByte
  <2>1. NextByte = 247
    BY <1>1, <1>2, LastFacts
  <2>2. Consume(247)
    BY <1>1, <2>1
  <2> QED BY <1>1, <1>2, <2>2, EndArrives
<1>3. CASE ~LastByte
  <2>1. PICK right \in BOOLEAN : right = TRUE /\ sent' = SentOne(right)
    BY <1>1, Zenon
  <2>2. NextByte \in 0..255
    BY <1>1, SendingFacts DEF IsNext
  <2>3. PICK other \in 0..255 : other = NextByte /\ Consume(other)
    BY <1>1, <2>2
  <2> QED BY <1>1, <1>3, <2>1, <2>3, MiddleByte
<1> QED BY <1>2, <1>3

LEMMA FailsStep ==
    ASSUME LoaderInv, Fails
    PROVE  LoaderInv' /\ BlockStep
<1>1. /\ Sending /\ sent.clean /\ sent' = SentOne(FALSE)
      /\ \/ UNCHANGED <<rxs, image, lpage, lpc>>
         \/ \E other \in 0..255 : other # NextByte /\ Consume(other)
  BY ControllerLoaderAssumption DEF Fails
<1>2. CASE LastByte
  BY <1>1, <1>2, EndMissed
<1>3. CASE ~LastByte
  <2>1. CASE UNCHANGED <<rxs, image, lpage, lpc>>
    BY <1>1, <1>3, <2>1, MiddleLost
  <2>2. ASSUME NEW other \in 0..255, other # NextByte, Consume(other)
        PROVE  LoaderInv' /\ BlockStep
    <3>1. PICK right \in BOOLEAN : right = FALSE /\ sent' = SentOne(right)
      BY <1>1, Zenon
    <3> QED BY <1>1, <1>3, <2>2, <3>1, MiddleByte
  <2> QED BY <1>1, <2>1, <2>2
<1> QED BY <1>2, <1>3

LEMMA LoaderStarts ==
    ASSUME NEW page, page = 0
    PROVE  InStepWith(NewReception, NothingSent, page)
<1>1. Len(NewImage) \in Nat /\ page \in Nat
  BY ImagePages
<1>2. NothingSent \in SentRecords /\ NothingSent.position = 1 /\ NothingSent.message = 1
  BY <1>1 DEF NothingSent, SentRecords
<1>3. NothingSent.clean = TRUE /\ NothingSent.ended = TRUE
  BY DEF NothingSent
<1>4. Following(NewReception, 1, 1, TRUE, TRUE, page)
  <2>1. PICK m \in Nat : m = 1 /\ m >= 1
    OBVIOUS
  <2>2. Following(Matching(0), m, 1, TRUE, TRUE, page)
    BY <1>1, <2>1, NewMessageInTime
  <2> QED BY <2>1, <2>2, NewMatches
<1>5. page <= NothingSent.message - 1
  BY <1>2
<1>6. Following(NewReception, NothingSent.message, 1, NothingSent.clean, NothingSent.ended, page)
  BY <1>2, <1>3, <1>4
<1> QED BY <1>1, <1>2, <1>5, <1>6, BeginsMessage

LEMMA OtherLoaderSteps ==
    ASSUME LoaderInv, Start \/ SdBlock \/ SdEnds \/ PowerCycled \/ RequestUpdate
    PROVE  LoaderInv' /\ BlockStep
<1>1. CASE Start
  <2>1. lpc = "start" /\ lpc' \in {"sd", "midi", "main"} /\ UNCHANGED <<lpage, image, rxs, sent>>
    BY <1>1 DEF Start
  <2>2. lpage = 0 /\ sent = NothingSent /\ rxs = NewReception /\ IsImage(image)
    BY <2>1 DEF LoaderInv
  <2>3. InStepWith(rxs, sent, lpage)
    BY <2>2, LoaderStarts
  <2> QED BY <2>1, <2>2, <2>3 DEF LoaderInv, BlockStep, IsImage
<1>2. CASE SdBlock
  <2>1. PICK content : /\ lpc = "sd" /\ lpc' = "sd" /\ lpage' = lpage + 1
                       /\ image' = [image EXCEPT ![lpage] = content]
    BY <1>2 DEF SdBlock, Writes
  <2>2. PICK D : D = 0..(Len(NewImage) - 1)
    OBVIOUS
  <2>3. image' = [q \in D |-> image'[q]]
    BY <2>1, <2>2, ImageWritten DEF LoaderInv, IsImage
  <2>4. IsImage(image')
    BY <2>2, <2>3 DEF IsImage
  <2> QED BY <2>1, <2>4 DEF LoaderInv, BlockStep
<1>3. CASE SdEnds
  BY <1>3 DEF SdEnds, LoaderInv, BlockStep, IsImage
<1>4. CASE PowerCycled \/ RequestUpdate
  BY <1>4 DEF PowerCycled, RequestUpdate, Restart, LoaderInv, BlockStep, IsImage
<1> QED BY <1>1, <1>2, <1>3, <1>4

\* In every run, whatever the cable loses or damages, one byte of a message at most: the loader
\* writes no page but a whole block of the update, and each block that arrives as it was sent
\* is written, if the end of the message before it was seen; only when it was not can a byte
\* come for which the buffer has no room (BlocksArriveWhole).
THEOREM BlocksStayWhole == LoaderSpec => BlocksArriveWhole
<1>1. LoaderInit => LoaderInv
  <2> SUFFICES ASSUME LoaderInit PROVE LoaderInv
    OBVIOUS
  <2>1. lpc = "start" /\ lpage = 0 /\ sent = NothingSent /\ rxs = NewReception
    BY DEF LoaderInit
  <2>2. IsImage(image)
    BY DEF LoaderInit, IsImage
  <2> QED BY <2>1, <2>2 DEF LoaderInv
<1>2. LoaderInv /\ [LoaderNext]_loadervars => LoaderInv' /\ [BlockStep]_loadervars
  <2> SUFFICES ASSUME LoaderInv, [LoaderNext]_loadervars
               PROVE  LoaderInv' /\ [BlockStep]_loadervars
    OBVIOUS
  <2>1. CASE Arrives
    BY <2>1, ArrivesStep
  <2>2. CASE Fails
    BY <2>2, FailsStep
  <2>3. CASE Start \/ SdBlock \/ SdEnds \/ PowerCycled \/ RequestUpdate
    BY <2>3, OtherLoaderSteps
  <2>4. CASE UNCHANGED loadervars
    <3>1. LoaderInv'
      BY <2>4 DEF loadervars, LoaderInv, IsImage
    <3> QED BY <2>4, <3>1
  <2> QED BY <2>1, <2>2, <2>3, <2>4 DEF LoaderNext
<1>3. LoaderSpec => [][BlockStep]_loadervars
  BY <1>1, <1>2, PTL DEF LoaderSpec
<1> QED BY <1>3 DEF BlocksArriveWhole, BlockStep
=============================================================================
