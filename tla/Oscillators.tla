----------------------------- MODULE Oscillators -----------------------------
(***************************************************************************)
(* The oscillators of a voicecard (voicecard/oscillator.h, oscillator.cc): *)
(* their 24-bit phases, the hard sync of the second by the first through   *)
(* an array with one flag for each sample, and which tables of             *)
(* resources.cc each algorithm reads, and how far.  The samples, and the   *)
(* state an algorithm keeps beyond the phase, are left out.                *)
(***************************************************************************)
EXTENDS Integers, Sequences

CONSTANT kAudioBlockSize        \* samples in a block: 40

ASSUME OscillatorsAssumption == kAudioBlockSize \in Nat \ {0} /\ kAudioBlockSize % 2 = 0

U8(x) == x % 256
U16(x) == x % 65536
U24(x) == x % 16777216
highByte(x) == U16(x) \div 256
highNibble(x) == x \div 16

-----------------------------------------------------------------------------
(* The algorithms, and the function that renders each.                     *)

OscillatorAlgorithm ==
    << "NONE", "SAW", "SQUARE", "TRIANGLE", "SINE", "CZ_SAW", "CZ_SAW_LP", "CZ_SAW_PK",
       "CZ_SAW_BP", "CZ_SAW_HP", "CZ_PLS_LP", "CZ_PLS_PK", "CZ_PLS_BP", "CZ_PLS_HP",
       "CZ_TRI_LP", "QUAD_SAW_PAD", "FM", "8BITLAND", "DIRTY_PWM", "FILTERED_NOISE", "VOWEL",
       "POLYBLEP_SAW", "POLYBLEP_PWM", "POLYBLEP_CSAW" >>
WAVETABLE_1 == Len(OscillatorAlgorithm)
WAVEQUENCE == WAVETABLE_1 + 16
Shape(name) == CHOOSE s \in 0..(WAVETABLE_1 - 1) : OscillatorAlgorithm[s + 1] = name

fn_table ==
    << "Silence", "SimpleWavetable", "BandlimitedPwm", "SimpleWavetable", "SimpleWavetable",
       "CzSaw", "CzResoWave", "CzResoWave", "CzResoWave", "CzResoWave", "CzResoWave", "CzResoWave",
       "CzResoWave", "CzResoWave", "CzResoWave", "QuadSawPad", "Fm", "8BitLand", "DirtyPwm",
       "FilteredNoise", "Vowel", "PolyBlepWave", "PolyBlepWave", "PolyBlepWave",
       "InterpolatedWavetable" >>

\* Oscillator::Render chooses the function.
RenderFn(shape, parameter) ==
    IF shape = Shape("SQUARE") /\ parameter = 0 THEN "SimpleWavetable"
    ELSE IF shape = WAVEQUENCE THEN "Wavequence"
    ELSE fn_table[(IF shape >= WAVETABLE_1 THEN WAVETABLE_1 ELSE shape) + 1]

-----------------------------------------------------------------------------
(* Phase and sync, over one block.  in and out are the flags of the block: *)
(* in[i] restarts the oscillator at sample i.                              *)

Block == 1..kAudioBlockSize
no_sync == [i \in Block |-> FALSE]

\* update_phase_and_sync: the next phase, and whether it is a restart.
NextPhase(phase, increment, in) == IF in THEN increment ELSE U24(phase + increment)
PhaseReset(phase, increment, in) == in \/ U24(phase + increment) <= increment

RenderSynced(phase, increment, in) ==
    LET at[i \in 0..kAudioBlockSize] ==
            IF i = 0 THEN phase ELSE NextPhase(at[i - 1], increment, in[i])
    IN [phase |-> at[kAudioBlockSize],
        out   |-> [i \in Block |-> PhaseReset(at[i - 1], increment, in[i])]]

\* RenderBandlimitedPwm computes every other sample, at twice the increment, from the flags
\* of both; it leaves the flags it should write as they were.
\* Fault: it looks at the flag of the sample it computes.
RenderPwm_OneFlag(phase, increment, in, out) ==
    LET at[i \in 0..(kAudioBlockSize \div 2)] ==
            IF i = 0 THEN phase ELSE NextPhase(at[i - 1], U24(2 * increment), in[2 * i - 1])
    IN [phase |-> at[kAudioBlockSize \div 2], out |-> out]
RenderPwm(phase, increment, in, out) ==
    LET at[i \in 0..(kAudioBlockSize \div 2)] ==
            IF i = 0 THEN phase
            ELSE NextPhase(at[i - 1], U24(2 * increment), in[2 * i - 1] \/ in[2 * i])
    IN [phase |-> at[kAudioBlockSize \div 2], out |-> out]

\* RenderVowel counts down, every other sample, and is not synced; silence and noise have no
\* phase.  None of them writes its flags.
RenderVowel(phase, increment, out) ==
    [phase |-> U24(phase - (kAudioBlockSize \div 2) * increment), out |-> out]
RenderUnpitched(phase, out) == [phase |-> phase, out |-> out]

\* RenderPolyBlepWave keeps the sample that it has not put out yet, besides its phase.
RenderPolyBlepWave(phase, increment, in) == RenderSynced(phase, increment, in)

Rendered(fn, phase, increment, in, out) ==
    CASE fn = "BandlimitedPwm" -> RenderPwm(phase, increment, in, out)
      [] fn = "Vowel" -> RenderVowel(phase, increment, out)
      [] fn \in {"Silence", "FilteredNoise"} -> RenderUnpitched(phase, out)
      [] fn = "PolyBlepWave" -> RenderPolyBlepWave(phase, increment, in)
      [] OTHER -> RenderSynced(phase, increment, in)

WritesSync(fn) == fn \notin {"BandlimitedPwm", "Vowel", "Silence", "FilteredNoise"}
FollowsSync(fn) == WritesSync(fn) \/ fn = "BandlimitedPwm"

-----------------------------------------------------------------------------
(* Tables.  A read is a table and the greatest index read from it; a       *)
(* waveform with several tables, one for each zone of the keyboard, counts *)
(* as several tables of one kind.                                          *)

TableSize ==
    [FORMANT_SINE |-> 256, FORMANT_SQUARE |-> 256, SINE |-> 257, SQUARE |-> 257, SAW |-> 257,
     TRIANGLE |-> 257, VOWEL_DATA |-> 63, WAVES |-> 10320, WAVETABLES |-> 288,
     FM_FREQUENCY_RATIOS |-> 64, CZ_PHASE_RESET |-> 4, LFO_WAVEFORMS |-> 2, TRANSIENTS |-> 5]

SQUARE_0 == 3
SAW_0 == 10
SAW_1 == 11
TRIANGLE_0 == 17
\* The last zone of each waveform is a sine.
waveform_table ==
    [r \in 2..23 |-> CASE r \in {2, SAW_0 - 1, TRIANGLE_0 - 1, 23} -> "SINE"
                       [] r \in SQUARE_0..(SAW_0 - 2) -> "SQUARE"
                       [] r \in SAW_0..(TRIANGLE_0 - 2) -> "SAW"
                       [] r \in TRIANGLE_0..22 -> "TRIANGLE"]

Reading(table, last) == [table |-> table, last |-> last]
\* InterpolateSample reads the entry of the high byte of the phase and the one after it.
Interpolated(resource) == Reading(waveform_table[resource], 256)

kNumZonesFullSampleRate == 6
kNumZonesHalfSampleRate == 5

\* The zone of a note, and the next one.
\* Fault: the next zone is not clipped.
NextZone_NoClip(zone, zones) == zone + 1
NextZone(zone, zones) == IF zone + 1 > zones THEN zones ELSE zone + 1

ReadsSimpleWavetable(shape, note) ==
    IF shape = Shape("SINE") THEN {Reading("SINE", 256)}
    ELSE LET base == CASE shape = Shape("SAW") -> SAW_0
                       [] shape = Shape("SQUARE") -> SQUARE_0
                       [] OTHER -> TRIANGLE_0
         IN {Interpolated(base + highNibble(note)),
             Interpolated(base + NextZone(highNibble(note), kNumZonesFullSampleRate))}

ReadsBandlimitedPwm(note) ==
    {Interpolated(SAW_1 + highNibble(note)),
     Interpolated(SAW_1 + NextZone(highNibble(note), kNumZonesHalfSampleRate))}

ReadsCzSaw == {Reading("SINE", 255)}
ReadsCzResoWave(shape) ==
    {Reading("SINE", 255), Reading("CZ_PHASE_RESET", (shape - Shape("CZ_SAW_LP")) % 4)}
ReadsFm(fm_parameter) == {Reading("FM_FREQUENCY_RATIOS", fm_parameter % 64), Reading("SINE", 256)}

\* The formants of two neighbouring vowels, and an entry of a formant wave for each nibble of
\* phase and of amplitude.
ReadsVowel(parameter) ==
    {Reading("VOWEL_DATA", U8(highNibble(parameter) * 7) + 7 + 3 + 3),
     Reading("FORMANT_SINE", 255), Reading("FORMANT_SQUARE", 255)}

\* wav_res_wavetables: the number of steps of each wavetable, and its waves.
WavetableSteps == <<16, 16, 1, 8, 8, 1, 8, 8, 8, 16, 16, 16, 8, 4, 8, 4>>
GreatestWave == 79
ReadsInterpolatedWavetable(shape, parameter) ==
    LET wavetable == (shape - WAVETABLE_1)
        pointer   == U8(parameter * 2) * WavetableSteps[wavetable + 1]
    IN {Reading("WAVETABLES", wavetable * 18 + 2 + highByte(pointer)),
        Reading("WAVES", GreatestWave * 129 + 128)}
ReadsWavequence(parameter) == {Reading("WAVES", parameter * 129 + 128)}

\* The other algorithms compute their samples from the phase.
Reads(o) ==
    LET fn == RenderFn(o.shape, o.parameter)
    IN CASE fn = "SimpleWavetable" -> ReadsSimpleWavetable(o.shape, o.note)
         [] fn = "BandlimitedPwm" -> ReadsBandlimitedPwm(o.note)
         [] fn = "CzSaw" -> ReadsCzSaw
         [] fn = "CzResoWave" -> ReadsCzResoWave(o.shape)
         [] fn = "Fm" -> ReadsFm(o.fm_parameter)
         [] fn = "Vowel" -> ReadsVowel(o.parameter)
         [] fn = "InterpolatedWavetable" -> ReadsInterpolatedWavetable(o.shape, o.parameter)
         [] fn = "Wavequence" -> ReadsWavequence(o.parameter)
         [] OTHER -> {}

\* Which tables make the sound of a shape.
TablesOf(shape) ==
    CASE shape = Shape("SQUARE") -> {"SQUARE", "SAW", "SINE"}
      [] shape = Shape("SAW") -> {"SAW", "SINE"}
      [] shape = Shape("TRIANGLE") -> {"TRIANGLE", "SINE"}
      [] OTHER -> DOMAIN TableSize \ {"SQUARE", "SAW", "TRIANGLE"}
=============================================================================
