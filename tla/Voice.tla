------------------------------- MODULE Voice -------------------------------
(***************************************************************************)
(* A voicecard once its messages are parsed: the main loop of voicecard.cc *)
(* renders a block when the audio buffer has room for it and then executes *)
(* the commands received (voicecard_rx.h); the timer interrupt consumes    *)
(* the samples.  A block updates the envelopes, the modulation matrix, the *)
(* portamento and the oscillators (voice.h, voice.cc, envelope.h).         *)
(*                                                                         *)
(* Left out: the samples and their mixing, the filter, the modifiers and   *)
(* the noise source, which only make values for them.                      *)
(***************************************************************************)
EXTENDS Oscillators

CONSTANTS
    kNumEnvelopes,      \* 3
    audio_buffer_size,  \* 128
    EnvIncrements,      \* lut_res_env_portamento_increments
    EnvExpo,            \* wav_res_env_expo
    OscIncrements,      \* lut_res_oscillator_increments
    LfoIncrements,      \* lut_res_lfo_increments
    RandomBytes,        \* what Random::GetByte may return
    Sessions            \* what the controller sends: see VoiceAssumption

Envelopes == 1..kNumEnvelopes
EnvSource == <<"ENV_1", "ENV_2", "ENV_3">>
PitchOf == <<"OSC_1", "OSC_2">>
ParameterOf == <<"PARAMETER_1", "PARAMETER_2">>
AcCoupled == {"LFO_1", "LFO_4", "PITCH_BEND", "NOTE"}
Controllers == [PITCH_BEND |-> 128, WHEEL |-> 0, CONSTANT_256 |-> 255]
Sources ==
    {"ENV_1", "ENV_2", "ENV_3", "NOTE", "GATE", "VELOCITY", "LFO_1", "LFO_4"} \cup DOMAIN Controllers
Destinations ==
    {"VCA", "PARAMETER_1", "PARAMETER_2", "OSC_1", "OSC_2", "OSC_1_2_COARSE", "OSC_1_2_FINE",
     "ATTACK", "DECAY", "RELEASE", "LFO_4"}

\* The bytes that the controller keeps in range (BytesStayInRange of EditLink), and the notes of
\* Part::TuneNote: tuned and spread, they stay within eight semitones of those of MIDI.
NoteRange == -1024..17407
PartSettings == [volume : 0..127, portamento_time : 0..63, legato : BOOLEAN]
Patches ==
    [osc : [1..2 -> [shape : 0..WAVEQUENCE, parameter : 0..127, range : -36..36, detune : -64..64]],
     sync : BOOLEAN, sub_shape : 0..10, voice_lfo : [shape : 0..3, rate : 0..127],
     env : [Envelopes -> [attack : 0..127, decay : 0..127, sustain : 0..127, release : 0..127]],
     modulation : Seq([source : Sources, destination : Destinations, amount : -63..63])]

ASSUME VoiceAssumption ==
    /\ kNumEnvelopes \in 1..3
    /\ audio_buffer_size \in Nat /\ audio_buffer_size >= kAudioBlockSize
    /\ EnvIncrements \in [0..127 -> 1..65535]
    /\ EnvExpo \in [0..256 -> 0..255] /\ EnvExpo[0] = 0
    /\ OscIncrements \in [0..767 -> 0..65535]
    /\ LfoIncrements \in [0..127 -> 0..65535]
    /\ RandomBytes \subseteq 0..255 /\ RandomBytes # {}
    \* patches and parts: what BULK_SEND, WRITE_PATCH_DATA and WRITE_PART_DATA make of the patch
    \* and of the part; notes: what NOTE_ON plays; sources: what WRITE_MOD_MATRIX and WRITE_LFO
    \* write; others: which commands without arguments come; commands: the bound on all of them.
    /\ \A s \in Sessions :
          /\ DOMAIN s = {"patches", "parts", "notes", "sources", "others", "commands"}
          /\ s.patches \subseteq Patches /\ s.parts \subseteq PartSettings
          /\ s.notes \subseteq NoteRange /\ s.sources \subseteq Sources \X (0..255)
          /\ s.others \subseteq {"RELEASE", "KILL", "RETRIGGER", "CONTROLLERS", "RESET"}
          /\ s.commands \in Nat

VARIABLES
    session,            \* the one of Sessions that this behaviour is about
    commands,           \* commands still to come
    pc,                 \* where the main loop is: "block" or "messages"
    filled,             \* samples in audio_buffer
    update_vca, vca_12bits,
    patch, part,
    envelope, gate,
    mod_source_value,
    vca,                \* modulation_destinations[MOD_DST_VCA]
    pitch,              \* pitch_value, pitch_target, pitch_increment
    osc, sync_state,
    voice_lfo,
    released            \* the last of Trigger, Release, Kill, ... let the voice end

vars == <<session, commands, pc, filled, update_vca, vca_12bits, patch, part, envelope, gate,
          mod_source_value, vca, pitch, osc, sync_state, voice_lfo, released>>
loop == <<session, pc, filled, update_vca, vca_12bits>>
sound == <<vca, osc, sync_state, voice_lfo>>

-----------------------------------------------------------------------------
(* Arithmetic of avrlib.                                                   *)

U8MixU16(a, b, balance) == a * (255 - balance) + b * balance
U8Mix(a, b, balance) == U8MixU16(a, b, balance) \div 256
U8U8MulShift8(a, b) == (a * b) \div 256
InterpolateSample(table, phase) == U8Mix(table[highByte(phase)], table[highByte(phase) + 1], U8(phase))
S16(x) == IF U16(x) >= 32768 THEN U16(x) - 65536 ELSE U16(x)
S16ClipU14(x) == IF S16(x) < 0 THEN 0 ELSE IF S16(x) > 16383 THEN 16383 ELSE S16(x)
Clip(x, low, high) == IF x < low THEN low ELSE IF x > high THEN high ELSE x

-----------------------------------------------------------------------------
(* Envelopes.                                                              *)

ATTACK == 0
DECAY == 1
SUSTAIN == 2
RELEASE == 3
DEAD == 4

\* Envelope::Trigger.
EnvTrigger(e, s) ==
    LET value == IF s = DEAD THEN 0 ELSE e.value
    IN [e EXCEPT !.stage = s, !.value = value, !.phase = 0, !.phase_increment = e.increments[s],
                 !.start = highByte(value), !.end = e.targets[s]]

\* Envelope::Update.
\* Fault: the time of the release is not taken over.
EnvUpdate_NoRelease(e, attack, decay, sustain, release) ==
    [e EXCEPT !.increments = [@ EXCEPT ![ATTACK] = EnvIncrements[attack],
                                       ![DECAY] = EnvIncrements[decay]],
              !.targets = [@ EXCEPT ![DECAY] = 2 * sustain, ![SUSTAIN] = 2 * sustain]]
EnvUpdate(e, attack, decay, sustain, release) ==
    [e EXCEPT !.increments = [@ EXCEPT ![ATTACK] = EnvIncrements[attack],
                                       ![DECAY] = EnvIncrements[decay],
                                       ![RELEASE] = EnvIncrements[release]],
              !.targets = [@ EXCEPT ![DECAY] = 2 * sustain, ![SUSTAIN] = 2 * sustain]]

\* Envelope::Render: the phase wraps at the end of a stage; a stage without increment stays.
EnvRender(e) ==
    LET moved   == [e EXCEPT !.phase = U16(e.phase + e.phase_increment)]
        arrived == [moved EXCEPT !.value = U8MixU16(e.start, e.end, 255)]
        next    == IF moved.phase < e.phase_increment THEN EnvTrigger(arrived, e.stage + 1)
                   ELSE moved
    IN IF next.phase_increment = 0 THEN next
       ELSE [next EXCEPT !.value = U8MixU16(next.start, next.end, InterpolateSample(EnvExpo, next.phase))]

\* Envelope::Init, over an envelope in static storage.
EnvZero == [stage |-> ATTACK, phase |-> 0, phase_increment |-> 0, value |-> 0, start |-> 0,
            end |-> 0, increments |-> [s \in ATTACK..DEAD |-> 0],
            targets |-> [s \in ATTACK..DEAD |-> 0]]
EnvInit(e) == [e EXCEPT !.targets = [@ EXCEPT ![ATTACK] = 255, ![RELEASE] = 0, ![DEAD] = 0],
                        !.increments = [@ EXCEPT ![SUSTAIN] = 0, ![DEAD] = 0]]

TriggerEnvelope(s) == [i \in Envelopes |-> EnvTrigger(envelope[i], s)]

-----------------------------------------------------------------------------
(* The voice LFO and the transients.                                       *)

LFO_WAVEFORM_TRIANGLE == 0
LFO_WAVEFORM_SQUARE == 1
LFO_WAVEFORM_S_H == 2
LFO_WAVEFORM_RAMP == 3
LFO_WAVEFORM_WAVE_1 == 4

\* Lfo::Render: the phase, the byte held, and the value.  random is drawn when the phase wraps.
\* A wave read from a table counts as 0.
LfoRender(lfo, shape, random) ==
    LET moved == U16(lfo.phase + lfo.phase_increment)
        held  == IF shape = LFO_WAVEFORM_S_H /\ moved < lfo.phase_increment THEN random
                 ELSE lfo.s_h_value
        half  == U8(moved \div 128)
        value == CASE shape = LFO_WAVEFORM_RAMP -> highByte(moved)
                   [] shape = LFO_WAVEFORM_S_H -> held
                   [] shape = LFO_WAVEFORM_TRIANGLE -> IF moved >= 32768 THEN half ELSE 255 - half
                   [] shape = LFO_WAVEFORM_SQUARE -> IF moved >= 32768 THEN 255 ELSE 0
                   [] OTHER -> 0
    IN [lfo EXCEPT !.phase = moved, !.s_h_value = held, !.value = value]
ReadsLfo(shape) ==
    IF shape < LFO_WAVEFORM_WAVE_1 THEN {}
    ELSE {Reading("LFO_WAVEFORMS", U8(shape - LFO_WAVEFORM_WAVE_1) * 257 + 256)}

\* TransientGenerator::Render, for the shapes that the sub oscillator does not render.
WAVEFORM_SUB_OSC_CLICK == 6
WAVEFORM_SUB_OSC_POP == 10
ReadsTransient(shape) ==
    IF shape < WAVEFORM_SUB_OSC_CLICK THEN {}
    ELSE {Reading("TRANSIENTS", (IF shape > WAVEFORM_SUB_OSC_POP THEN WAVEFORM_SUB_OSC_POP ELSE shape)
                                - WAVEFORM_SUB_OSC_CLICK)}

-----------------------------------------------------------------------------
(* The block.                                                              *)

\* LoadSources: the sources made here, and the values that the matrix starts from.
LoadSources(lfo) ==
    [s \in DOMAIN mod_source_value |->
        CASE \E i \in Envelopes : s = EnvSource[i] ->
                highByte(EnvRender(envelope[CHOOSE i \in Envelopes : s = EnvSource[i]]).value)
          [] s = "NOTE" -> U8(pitch.value \div 64)
          [] s = "GATE" -> gate
          [] s = "LFO_4" -> lfo.value
          [] OTHER -> mod_source_value[s]]
InitialDestinations ==
    [d \in Destinations |->
        CASE d = "VCA" -> 2 * part.volume
          [] d = "PARAMETER_1" -> patch.osc[1].parameter * 128
          [] d = "PARAMETER_2" -> patch.osc[2].parameter * 128
          [] d = "LFO_4" -> patch.voice_lfo.rate * 128
          [] OTHER -> 8192]

\* ProcessModulationMatrix: the VCA is scaled, any other destination is shifted and clipped.
Scaled(value, amount, source) ==
    LET s == IF amount < 0 THEN 255 - source ELSE source
        a == IF amount < 0 THEN -amount ELSE amount
    IN U8U8MulShift8(value, IF a = 63 THEN s ELSE U8Mix(255, s, U8(a * 4)))
Modulated(dst, m, amount, source) ==
    IF m.destination = "VCA" THEN [dst EXCEPT !["VCA"] = Scaled(@, amount, source)]
    ELSE [dst EXCEPT ![m.destination] =
            S16ClipU14(@ + amount * (IF m.source \in AcCoupled THEN source - 128 ELSE source))]
\* The wheel scales the amount of the last modulation.
Amount(i, sources) ==
    LET amount == patch.modulation[i].amount
    IN IF i = Len(patch.modulation) THEN (amount * sources["WHEEL"]) \div 256 ELSE amount
ProcessModulationMatrix(sources) ==
    LET after[i \in 0..Len(patch.modulation)] ==
            IF i = 0 THEN InitialDestinations
            ELSE Modulated(after[i - 1], patch.modulation[i], Amount(i, sources),
                           sources[patch.modulation[i].source])
    IN after[Len(patch.modulation)]

\* UpdateDestinations: the envelopes and the parameters of the oscillators.
U15ShiftRight7(x) == U8(U16(x) \div 128)
UpdateEnvelope(e, env, dst) ==
    LET time(t, destination) == Clip(t + U15ShiftRight7(dst[destination]) - 64, 0, 127)
    IN EnvUpdate(e, time(env.attack, "ATTACK"), time(env.decay, "DECAY"), env.sustain,
                 time(env.release, "RELEASE"))
UpdateOscillator(i, dst) ==
    [osc[i] EXCEPT !.parameter = U15ShiftRight7(dst[ParameterOf[i]]),
                   !.fm_parameter = patch.osc[i].range + 36]

LfoIncrementIndex(dst) == U15ShiftRight7(dst["LFO_4"])

\* RenderOscillators: the portamento ...
GlideStep ==
    LET base == pitch.value + pitch.increment
    IN IF (pitch.increment > 0) # (base < pitch.target)
       THEN [pitch EXCEPT !.value = pitch.target, !.increment = 0]
       ELSE [pitch EXCEPT !.value = base]

\* ... and the pitch, the increment and the note of each oscillator.
kHighestNote == 120 * 128
kOctave == 12 * 128
kPitchTableStart == 116 * 128
Quarter(x) == IF x < 0 THEN -((-x) \div 4) ELSE x \div 4
Detuned(i, base, dst) ==
    base + (dst["OSC_1_2_COARSE"] - 8192) \div 16 + (dst["OSC_1_2_FINE"] - 8192) \div 128
         + (IF patch.osc[i].shape = Shape("FM") THEN 0 ELSE patch.osc[i].range * 128)
         + patch.osc[i].detune + Quarter(dst[PitchOf[i]] - 8192)
OscillatorPitch(i, base, dst) ==
    LET p == Detuned(i, base, dst)
    IN IF p >= kHighestNote THEN kHighestNote ELSE p
Shifts(p) == IF p >= kPitchTableStart THEN 0 ELSE (kPitchTableStart - p + kOctave - 1) \div kOctave
TableIndex(p) == (p - kPitchTableStart + Shifts(p) * kOctave) \div 2
Shifted(x, shifts) == LET by[i \in 0..shifts] == IF i = 0 THEN x ELSE by[i - 1] \div 2 IN by[shifts]
OscillatorIncrement(p) == Shifted(OscIncrements[TableIndex(p)] * 256, Shifts(p))
MidiNote(p) ==
    LET note == U15ShiftRight7(p) - 12
    IN IF note < 0 \/ note > 127 THEN 0 ELSE note

TunedOscillator(o, i, base, dst) ==
    LET p == OscillatorPitch(i, base, dst)
    IN [o EXCEPT !.shape = patch.osc[i].shape, !.note = MidiNote(p), !.pitch = p,
                 !.increment = OscillatorIncrement(p)]
RenderedAs(o, in, out) == Rendered(RenderFn(o.shape, o.parameter), o.phase, o.increment, in, out)

-----------------------------------------------------------------------------
(* The main loop and the interrupt.                                        *)

ProcessBlock(random) ==
    LET lfo == LfoRender(voice_lfo, patch.voice_lfo.shape, random) IN
    /\ mod_source_value' = LoadSources(lfo)
    /\ LET dst    == ProcessModulationMatrix(mod_source_value')
           set    == << UpdateOscillator(1, dst), UpdateOscillator(2, dst) >>
           base   == GlideStep.value
           tuned  == << TunedOscillator(set[1], 1, base, dst), TunedOscillator(set[2], 2, base, dst) >>
           first  == RenderedAs(tuned[1], no_sync, sync_state)
           second == RenderedAs(tuned[2], IF patch.sync THEN first.out ELSE no_sync, no_sync)
       IN /\ vca' = dst["VCA"]
          /\ voice_lfo' = [lfo EXCEPT !.phase_increment = LfoIncrements[LfoIncrementIndex(dst)]]
          /\ envelope' = [i \in Envelopes |->
                            UpdateEnvelope(EnvRender(envelope[i]), patch.env[i], dst)]
          /\ IF dst["VCA"] < 2
             THEN osc' = set /\ UNCHANGED <<pitch, sync_state>>
             ELSE /\ pitch' = GlideStep
                  /\ osc' = << [tuned[1] EXCEPT !.phase = first.phase],
                               [tuned[2] EXCEPT !.phase = second.phase] >>
                  /\ sync_state' = first.out

FillAudioBuffer ==
    /\ pc = "block" /\ pc' = "messages"
    /\ IF audio_buffer_size - filled >= kAudioBlockSize
       THEN /\ \E random \in RandomBytes : ProcessBlock(random)
            /\ filled' = filled + kAudioBlockSize
            /\ update_vca' = TRUE
       ELSE UNCHANGED <<filled, update_vca, mod_source_value, vca, envelope, pitch, osc, sync_state,
                      voice_lfo>>
    /\ UNCHANGED <<session, commands, vca_12bits, patch, part, gate, released>>

NoMoreMessages ==
    /\ pc = "messages" /\ pc' = "block"
    /\ UNCHANGED <<session, commands, filled, update_vca, vca_12bits, patch, part, envelope, gate,
                   mod_source_value, pitch, released, sound>>

\* ISR(TIMER2_OVF_vect): the VCA is sent one update late.
Interrupt ==
    /\ update_vca \/ filled > 0
    /\ update_vca' = FALSE
    /\ vca_12bits' = IF update_vca THEN vca ELSE vca_12bits
    /\ filled' = IF filled > 0 THEN filled - 1 ELSE 0
    /\ UNCHANGED <<session, commands, pc, patch, part, envelope, gate, mod_source_value, pitch,
                   released, sound>>

-----------------------------------------------------------------------------
(* The commands.                                                           *)

Receives(command) ==
    /\ command \in session.others \cup {"NOTE_ON", "WRITE"}
    /\ pc = "messages" /\ commands > 0 /\ commands' = commands - 1
    /\ UNCHANGED <<loop, vca, osc, voice_lfo>>

\* Fault: a glide slower than one unit each block has no increment.
GlideIncrement_MayBeZero(delta, time) == (delta * EnvIncrements[time]) \div 65536
GlideIncrement(delta, time) ==
    LET increment == (delta * EnvIncrements[time]) \div 65536
    IN IF increment # 0 THEN increment ELSE IF delta < 0 THEN -1 ELSE 1

Glide(note, legato) ==
    IF pitch.value = 0 \/ (part.legato /\ ~legato)
    THEN [value |-> note, target |-> note, increment |-> 1]
    ELSE [pitch EXCEPT !.target = note,
                       !.increment = GlideIncrement(note - pitch.value, part.portamento_time)]

Trigger(note, velocity, legato) ==
    /\ Receives("NOTE_ON")
    /\ pitch' = Glide(note, legato)
    /\ IF ~part.legato \/ ~legato
       THEN /\ gate' = 255
            /\ envelope' = TriggerEnvelope(ATTACK)
            /\ mod_source_value' = [mod_source_value EXCEPT !["VELOCITY"] = velocity]
            /\ released' = FALSE
       ELSE UNCHANGED <<gate, envelope, mod_source_value, released>>
    /\ UNCHANGED <<patch, part, sync_state>>

Release ==
    /\ Receives("RELEASE")
    /\ gate' = 0 /\ envelope' = TriggerEnvelope(RELEASE) /\ released' = TRUE
    /\ UNCHANGED <<patch, part, mod_source_value, pitch, sync_state>>

Kill ==
    /\ Receives("KILL")
    /\ envelope' = TriggerEnvelope(DEAD) /\ released' = TRUE
    /\ UNCHANGED <<patch, part, gate, mod_source_value, pitch, sync_state>>

RetriggerEnvelope(i) ==
    /\ Receives("RETRIGGER")
    /\ envelope' = [envelope EXCEPT ![i] = EnvTrigger(@, ATTACK)] /\ released' = FALSE
    /\ UNCHANGED <<patch, part, gate, mod_source_value, pitch, sync_state>>

WritePatchData(p) ==
    /\ Receives("WRITE") /\ p # patch /\ patch' = p
    /\ UNCHANGED <<part, envelope, gate, mod_source_value, pitch, released, sync_state>>

WritePartData(p) ==
    /\ Receives("WRITE") /\ p # part /\ part' = p
    /\ UNCHANGED <<patch, envelope, gate, mod_source_value, pitch, released, sync_state>>

WriteModSource(s, v) ==
    /\ Receives("WRITE") /\ mod_source_value' = [mod_source_value EXCEPT ![s] = v]
    /\ UNCHANGED <<patch, part, envelope, gate, pitch, released, sync_state>>

AfterResetAllControllers ==
    [s \in DOMAIN mod_source_value |->
        IF s \in DOMAIN Controllers THEN Controllers[s] ELSE mod_source_value[s]]
ResetAllControllers ==
    /\ Receives("CONTROLLERS") /\ mod_source_value' = AfterResetAllControllers
    /\ UNCHANGED <<patch, part, envelope, gate, pitch, released, sync_state>>

\* Voice::Init, at power up and on RESET; pitch_target and pitch_increment stay.  Of the
\* modulations of the initial patch, all but two have an amount of 0.
init_patch ==
    [osc |-> [i \in 1..2 |-> [shape |-> Shape("NONE"), parameter |-> 0, range |-> 0, detune |-> 0]],
     sync |-> FALSE, sub_shape |-> 0,
     voice_lfo |-> [shape |-> LFO_WAVEFORM_TRIANGLE, rate |-> 16],
     env |-> [i \in Envelopes |-> [attack |-> 0, decay |-> 40, sustain |-> 20, release |-> 60]],
     modulation |-> << [source |-> "ENV_1", destination |-> "OSC_2", amount |-> 0],
                       [source |-> "LFO_4", destination |-> "PARAMETER_1", amount |-> 63],
                       [source |-> "ENV_2", destination |-> "VCA", amount |-> 32],
                       [source |-> "LFO_1", destination |-> "OSC_1_2_COARSE", amount |-> 0] >>]
init_part == [volume |-> 127, portamento_time |-> 0, legato |-> FALSE]
Reset ==
    /\ Receives("RESET")
    /\ patch' = init_patch /\ part' = init_part
    /\ envelope' = [i \in Envelopes |-> EnvTrigger(EnvInit(envelope[i]), DEAD)]
    /\ mod_source_value' = AfterResetAllControllers
    /\ pitch' = [pitch EXCEPT !.value = 0] /\ sync_state' = no_sync
    /\ released' = TRUE
    /\ UNCHANGED gate

Init ==
    /\ session \in Sessions /\ commands = session.commands
    /\ pc = "block" /\ filled = 0 /\ update_vca = FALSE /\ vca_12bits = 0
    /\ patch = init_patch /\ part = init_part
    /\ envelope = [i \in Envelopes |-> EnvTrigger(EnvInit(EnvZero), DEAD)]
    /\ gate = 0
    /\ mod_source_value =
          [s \in Sources |-> IF s \in DOMAIN Controllers THEN Controllers[s] ELSE 0]
    /\ vca = 0
    /\ pitch = [value |-> 0, target |-> 0, increment |-> 0]
    /\ osc = [i \in 1..2 |-> [shape |-> Shape("NONE"), parameter |-> 0, fm_parameter |-> 0,
                              note |-> 0, pitch |-> 0, phase |-> 0, increment |-> 0]]
    /\ sync_state = no_sync
    /\ voice_lfo = [phase |-> 0, phase_increment |-> 0, s_h_value |-> 0, value |-> 0]
    /\ released = TRUE

Command ==
    \/ \E n \in session.notes, legato \in BOOLEAN : Trigger(n, 100, legato)
    \/ Release
    \/ Kill
    \/ \E i \in Envelopes : RetriggerEnvelope(i)
    \/ \E p \in session.patches : WritePatchData(p)
    \/ \E p \in session.parts : WritePartData(p)
    \/ \E w \in session.sources : WriteModSource(w[1], w[2])
    \/ ResetAllControllers
    \/ Reset

Next == FillAudioBuffer \/ Command \/ NoMoreMessages \/ Interrupt

\* The main loop never waits, and the timer always runs.
MainLoopPasses == pc' \in {"block", "messages"} \ {pc}
Fairness == WF_pc(MainLoopPasses) /\ WF_vars(Interrupt)
Spec == Init /\ [][Next]_vars /\ Fairness

-----------------------------------------------------------------------------
(* Properties.                                                             *)

\* A voice whose VCA follows an envelope at full amount falls silent once it was released or
\* killed, unless something triggers it again: whatever the stage an envelope was in, the
\* release has an increment, ends, and takes the VCA below the level at which the voice is
\* rendered.
Gated == \E i \in 1..(Len(patch.modulation) - 1) :
            LET m == patch.modulation[i]
            IN m.destination = "VCA" /\ m.amount = 63 /\ \E e \in Envelopes : m.source = EnvSource[e]
ReleasedFallsSilent == []<>(vca < 2 \/ ~released \/ ~Gated)

\* A block that is rendered moves the pitch towards its target by at most the increment of the
\* portamento, always by something, and never past the target.
Rendering == pc = "block" /\ pc' = "messages" /\ filled' = filled + kAudioBlockSize /\ vca' >= 2
Distance(a, b) == IF a < b THEN b - a ELSE a - b
GlideHeadsForTarget ==
    [][Rendering /\ "RESET" \notin session.others =>
        LET before == Distance(pitch.value, pitch.target)
            after  == Distance(pitch'.value, pitch.target)
            moved  == Distance(pitch'.value, pitch.value)
        IN /\ after + moved = before
           /\ moved <= Distance(0, pitch.increment)
           /\ before > 0 => moved > 0]_vars

\* With sync, the second oscillator ends a block where it would be had it restarted at the last
\* sample, or pair of samples, at which the first one began a new period.  A first oscillator
\* that lands on 0 exactly restarts the second one at the next sample too.
SyncFollowsMaster ==
    [][Rendering /\ patch.sync
       /\ WritesSync(RenderFn(osc'[1].shape, osc'[1].parameter))
       /\ FollowsSync(RenderFn(osc'[2].shape, osc'[2].parameter)) =>
        LET m      == osc'[1].increment
            s      == osc'[2].increment
            at(i)  == osc[1].phase + i * m
            begins == {i \in Block : at(i) \div 16777216 > at(i - 1) \div 16777216}
            step   == IF RenderFn(osc'[2].shape, osc'[2].parameter) = "BandlimitedPwm" THEN 2 ELSE 1
            last   == CHOOSE i \in begins : \A j \in begins : j <= i
            steps  == (kAudioBlockSize \div step) - ((last + step - 1) \div step) + 1
        IN \/ \E i \in 0..kAudioBlockSize : U24(at(i)) = 0
           \/ osc'[2].phase = U24(IF begins = {} THEN osc[2].phase + kAudioBlockSize * s
                                  ELSE steps * step * s)]_vars

\* Whatever the shapes, the parameters and the pitch, after modulation, the oscillators, the voice
\* LFO and the transient generator read only inside their tables, and of the band-limited waveforms
\* an oscillator reads only its own.  Not so for a wavequence above wave 79, and for the pulse above
\* note 95 before the limit of 12 semitones.
InTable(r) == r.last < TableSize[r.table]
ReadsOwnTables ==
    [][Rendering =>
        /\ \A i \in 1..2 :
              LET o == osc'[i]
                  fn == RenderFn(o.shape, o.parameter)
              IN \/ fn = "Wavequence" /\ o.parameter > GreatestWave
                 \/ fn = "BandlimitedPwm" /\ o.note >= 96
                 \/ \A r \in Reads(o) : r.table \in TablesOf(o.shape) /\ InTable(r)
        /\ \A r \in ReadsLfo(patch.voice_lfo.shape) \cup ReadsTransient(patch.sub_shape) :
              InTable(r)]_vars
=============================================================================
