----------------------------- MODULE Parameters -----------------------------
(***************************************************************************)
(* The parameter manager of the controller (controller/parameter.h and     *)
(* parameter.cc) and the memory layouts its offsets point into: the table  *)
(* of the 75 editable parameters, the MIDI controller and NRPN maps that   *)
(* lead to it, and the arithmetic of every edit, in 8 bits.  Values are    *)
(* the bytes in memory: a signed value is stored modulo 256.               *)
(***************************************************************************)
EXTENDS Integers, Sequences, SequencesExt

U8(x) == x % 256
S8(x) == IF x < 128 THEN x ELSE x - 256

kNoParameter == 255         \* 0xff in the two maps
kSequenceData == 254        \* 0xfe: the parameter that stands for sequence data

-----------------------------------------------------------------------------
(* Enumerations of offsets.                                                *)

\* The enumerators listed in names, the first of which has the value first.
Enum(first, names) ==
    [n \in ToSet(names) |-> first - 1 + CHOOSE i \in DOMAIN names : names[i] = n]
Joined(f, g) == [n \in DOMAIN f \cup DOMAIN g |-> IF n \in DOMAIN f THEN f[n] ELSE g[n]]

PatchParameter ==
    Joined(Enum(0, <<
        "PATCH_OSC1_SHAPE", "PATCH_OSC1_PWM", "PATCH_OSC1_RANGE", "PATCH_OSC1_DETUNE",
        "PATCH_OSC2_SHAPE", "PATCH_OSC2_PWM", "PATCH_OSC2_RANGE", "PATCH_OSC2_DETUNE",
        "PATCH_MIX_BALANCE", "PATCH_MIX_OPERATOR", "PATCH_MIX_PARAMETER", "PATCH_MIX_SUB_SHAPE",
        "PATCH_MIX_SUB_LEVEL", "PATCH_MIX_NOISE_LEVEL", "PATCH_MIX_FUZZ", "PATCH_MIX_CRUSH",
        "PATCH_FILTER1_CUTOFF", "PATCH_FILTER1_RESONANCE", "PATCH_FILTER1_MODE",
        "PATCH_FILTER2_CUTOFF", "PATCH_FILTER2_RESONANCE", "PATCH_FILTER2_MODE",
        "PATCH_FILTER1_ENV", "PATCH_FILTER1_LFO",
        "PATCH_ENV_ATTACK", "PATCH_ENV_DECAY", "PATCH_ENV_SUSTAIN", "PATCH_ENV_RELEASE",
        "PATCH_LFO_SHAPE", "PATCH_LFO_RATE", "PATCH_LFO_ATTACK", "PATCH_LFO_SYNC" >>),
    Joined(Enum(48, << "PATCH_VOICE_LFO_SHAPE", "PATCH_VOICE_LFO_RATE",
        "PATCH_MOD_SOURCE", "PATCH_MOD_DESTINATION", "PATCH_MOD_AMOUNT" >>),
    Joined(Enum(92, << "PATCH_MOD_OPERAND1", "PATCH_MOD_OPERAND2", "PATCH_MOD_OPERATOR" >>),
           Enum(104, << "PATCH_FILTER1_VELO", "PATCH_FILTER1_KBT" >>))))

kPatchSize == 112
kPartSize == 84

PartParameter == Enum(kPatchSize, <<
    "PART_VOLUME", "PART_OCTAVE", "PART_TUNING", "PART_TUNING_SPREAD", "PART_RAGA",
    "PART_LEGATO", "PART_PORTAMENTO_TIME", "PART_ARP_MODE", "PART_ARP_DIRECTION",
    "PART_ARP_OCTAVE", "PART_ARP_PATTERN", "PART_ARP_RESOLUTION", "PART_SEQUENCE_LENGTH_1",
    "PART_SEQUENCE_LENGTH_2", "PART_SEQUENCE_LENGTH_3", "PART_POLYPHONY_MODE" >>)

MultiParameter ==
    Joined(Enum(0, << "MULTI_MIDI_CHANNEL", "MULTI_KEYRANGE_LOW", "MULTI_KEYRANGE_HIGH",
                      "MULTI_VOICE_ALLOCATION" >>),
           Enum(24, << "MULTI_CLOCK_BPM", "MULTI_CLOCK_GROOVE_TEMPLATE",
                       "MULTI_CLOCK_GROOVE_AMOUNT", "MULTI_CLOCK_LATCH" >>))

SystemSettingsParameter == Enum(0, <<
    "SYSTEM_MIDI_IN_MASK", "SYSTEM_MIDI_OUT_MODE", "SYSTEM_SHOW_HELP", "SYSTEM_SNAP",
    "SYSTEM_AUTOBACKUP", "SYSTEM_VOICECARD_LEDS", "SYSTEM_VOICECARD_SWAP_LEDS_COLORS" >>)

UiStateParameter == Enum(0, <<
    "UI_ACTIVE_ENV_LFO", "UI_ACTIVE_MODULATION", "UI_ACTIVE_MODIFIER", "UI_ACTIVE_PART" >>)

Offset == Joined(PatchParameter, Joined(PartParameter, Joined(MultiParameter,
              Joined(SystemSettingsParameter, UiStateParameter))))

-----------------------------------------------------------------------------
(* The structures: for each byte, the member that is there, named as its   *)
(* enumerator, and which of the structures of an array it belongs to.      *)

\* n structures, one after another, with the members f.
Array(n, f) == [i \in 1..(n * Len(f)) |-> <<f[((i - 1) % Len(f)) + 1], (i - 1) \div Len(f)>>]
Padding(n) == Array(n, <<"padding">>)

PatchLayout ==
       Array(1, << "PATCH_OSC1_SHAPE", "PATCH_OSC1_PWM", "PATCH_OSC1_RANGE", "PATCH_OSC1_DETUNE" >>)
    \o Array(1, << "PATCH_OSC2_SHAPE", "PATCH_OSC2_PWM", "PATCH_OSC2_RANGE", "PATCH_OSC2_DETUNE" >>)
    \o Array(1, << "PATCH_MIX_BALANCE", "PATCH_MIX_OPERATOR", "PATCH_MIX_PARAMETER",
                   "PATCH_MIX_SUB_SHAPE", "PATCH_MIX_SUB_LEVEL", "PATCH_MIX_NOISE_LEVEL",
                   "PATCH_MIX_FUZZ", "PATCH_MIX_CRUSH" >>)
    \o Array(1, << "PATCH_FILTER1_CUTOFF", "PATCH_FILTER1_RESONANCE", "PATCH_FILTER1_MODE" >>)
    \o Array(1, << "PATCH_FILTER2_CUTOFF", "PATCH_FILTER2_RESONANCE", "PATCH_FILTER2_MODE" >>)
    \o Array(1, << "PATCH_FILTER1_ENV", "PATCH_FILTER1_LFO" >>)
    \o Array(3, << "PATCH_ENV_ATTACK", "PATCH_ENV_DECAY", "PATCH_ENV_SUSTAIN",
                   "PATCH_ENV_RELEASE", "PATCH_LFO_SHAPE", "PATCH_LFO_RATE", "padding",
                   "PATCH_LFO_SYNC" >>)
    \o Array(1, << "PATCH_VOICE_LFO_SHAPE", "PATCH_VOICE_LFO_RATE" >>)
    \o Array(14, << "PATCH_MOD_SOURCE", "PATCH_MOD_DESTINATION", "PATCH_MOD_AMOUNT" >>)
    \o Array(4, << "PATCH_MOD_OPERAND1", "PATCH_MOD_OPERAND2", "PATCH_MOD_OPERATOR" >>)
    \o Array(1, << "PATCH_FILTER1_VELO", "PATCH_FILTER1_KBT" >>)
    \o Padding(6)

PartLayout ==
       Array(1, << "PART_VOLUME", "PART_OCTAVE", "PART_TUNING", "PART_TUNING_SPREAD", "PART_RAGA",
                   "PART_LEGATO", "PART_PORTAMENTO_TIME", "PART_ARP_MODE", "PART_ARP_DIRECTION",
                   "PART_ARP_OCTAVE", "PART_ARP_PATTERN", "PART_ARP_RESOLUTION",
                   "PART_SEQUENCE_LENGTH_1", "PART_SEQUENCE_LENGTH_2", "PART_SEQUENCE_LENGTH_3",
                   "PART_POLYPHONY_MODE" >>)
    \o Array(64, <<"sequence_data">>)
    \o Padding(4)

MultiLayout ==
       Array(6, << "MULTI_MIDI_CHANNEL", "MULTI_KEYRANGE_LOW", "MULTI_KEYRANGE_HIGH",
                   "MULTI_VOICE_ALLOCATION" >>)
    \o Array(1, << "MULTI_CLOCK_BPM", "MULTI_CLOCK_GROOVE_TEMPLATE",
                   "MULTI_CLOCK_GROOVE_AMOUNT", "MULTI_CLOCK_LATCH" >>)
    \o Array(8, << "knob_part", "knob_parameter", "knob_instance" >>)
    \o Padding(4)

SystemLayout ==
       Array(1, << "SYSTEM_MIDI_IN_MASK", "SYSTEM_MIDI_OUT_MODE", "SYSTEM_SHOW_HELP", "SYSTEM_SNAP",
                   "SYSTEM_AUTOBACKUP", "SYSTEM_VOICECARD_LEDS",
                   "SYSTEM_VOICECARD_SWAP_LEDS_COLORS" >>)
    \o Padding(8) \o Array(1, <<"checksum">>)

UiLayout == Array(1, << "UI_ACTIVE_ENV_LFO", "UI_ACTIVE_MODULATION", "UI_ACTIVE_MODIFIER",
                        "UI_ACTIVE_PART" >>)

\* What a parameter of each level is an offset into: those of a part go on after the patch.
LayoutOf(level) == CASE level \in {"patch", "part"} -> PatchLayout \o PartLayout
                     [] level = "multi" -> MultiLayout
                     [] level = "system" -> SystemLayout
                     [] level = "ui" -> UiLayout

-----------------------------------------------------------------------------
(* The table.                                                              *)

\* A parameter with one instance, and one with n, stride bytes apart, chosen by the
\* variable indexed_by of the user interface.
Bank(level, name, unit, min, max, n, stride, by, cc) ==
    [ level |-> level, name |-> name, unit |-> unit,
      min_value |-> U8(min), max_value |-> U8(max), num_instances |-> n, stride |-> stride,
      indexed_by |-> by, midi_cc |-> cc ]
One(level, name, unit, min, max, cc) == Bank(level, name, unit, min, max, 1, 0, "none", cc)

OscillatorParameters == <<
  One("patch", "PATCH_OSC1_SHAPE", "oscillator_waveform", 0, 40, 16),
  One("patch", "PATCH_OSC1_PWM", "raw_uint8", 0, 127, 17),
  One("patch", "PATCH_OSC1_RANGE", "int8", -36, 36, 14),
  One("patch", "PATCH_OSC1_DETUNE", "int8", -64, 64, 15),
  One("patch", "PATCH_OSC2_SHAPE", "oscillator_waveform", 0, 40, 18),
  One("patch", "PATCH_OSC2_PWM", "raw_uint8", 0, 127, 19),
  One("patch", "PATCH_OSC2_RANGE", "int8", -36, 36, 20),
  One("patch", "PATCH_OSC2_DETUNE", "int8", -64, 64, 21) >>

MixerParameters == <<
  One("patch", "PATCH_MIX_BALANCE", "uint8", 0, 63, 22),
  One("patch", "PATCH_MIX_OPERATOR", "mix_operator", 0, 5, 23),
  One("patch", "PATCH_MIX_PARAMETER", "uint8", 0, 63, 24),
  One("patch", "PATCH_MIX_SUB_SHAPE", "sub_osc_waveform", 0, 10, 25),
  One("patch", "PATCH_MIX_SUB_LEVEL", "uint8", 0, 63, 26),
  One("patch", "PATCH_MIX_NOISE_LEVEL", "uint8", 0, 63, 27),
  One("patch", "PATCH_MIX_FUZZ", "uint8", 0, 63, 12),
  One("patch", "PATCH_MIX_CRUSH", "uint8", 0, 31, 13) >>

FilterParameters == <<
  One("patch", "PATCH_FILTER1_CUTOFF", "raw_uint8", 0, 127, 74),
  One("patch", "PATCH_FILTER1_RESONANCE", "uint8", 0, 63, 71),
  One("patch", "PATCH_FILTER1_MODE", "filter_mode", 0, 2, 28),
  One("patch", "PATCH_FILTER2_CUTOFF", "raw_uint8", 0, 127, 29),
  One("patch", "PATCH_FILTER2_RESONANCE", "uint8", 0, 63, 30),
  One("patch", "PATCH_FILTER2_MODE", "filter_mode", 0, 2, 31),
  One("patch", "PATCH_FILTER1_ENV", "uint8", 0, 63, 3),
  One("patch", "PATCH_FILTER1_LFO", "uint8", 0, 63, 9) >>

EnvelopeParameters == <<
  One("ui", "UI_ACTIVE_ENV_LFO", "index", 0, 2, 255),
  Bank("patch", "PATCH_ENV_ATTACK", "raw_uint8", 0, 127, 3, 8, "UI_ACTIVE_ENV_LFO", 73),
  Bank("patch", "PATCH_ENV_DECAY", "raw_uint8", 0, 127, 3, 8, "UI_ACTIVE_ENV_LFO", 75),
  Bank("patch", "PATCH_ENV_SUSTAIN", "raw_uint8", 0, 127, 3, 8, "UI_ACTIVE_ENV_LFO", 70),
  Bank("patch", "PATCH_ENV_RELEASE", "raw_uint8", 0, 127, 3, 8, "UI_ACTIVE_ENV_LFO", 72),
  Bank("patch", "PATCH_LFO_SYNC", "lfo_sync_mode", 0, 2, 3, 8, "UI_ACTIVE_ENV_LFO", 44),
  Bank("patch", "PATCH_LFO_RATE", "lfo_rate", 0, 142, 3, 8, "UI_ACTIVE_ENV_LFO", 45),
  Bank("patch", "PATCH_LFO_SHAPE", "lfo_shape", 0, 19, 3, 8, "UI_ACTIVE_ENV_LFO", 46),
  One("patch", "PATCH_VOICE_LFO_RATE", "raw_uint8", 0, 127, 47),
  One("patch", "PATCH_VOICE_LFO_SHAPE", "lfo_shape", 0, 3, 48) >>

ModulationParameters == <<
  One("ui", "UI_ACTIVE_MODULATION", "index", 0, 13, 255),
  Bank("patch", "PATCH_MOD_SOURCE", "modulation_source", 0, 24, 14, 3, "UI_ACTIVE_MODULATION", 255),
  Bank("patch", "PATCH_MOD_DESTINATION", "modulation_destination", 0, 18, 14, 3, "UI_ACTIVE_MODULATION", 255),
  Bank("patch", "PATCH_MOD_AMOUNT", "int8", -63, 63, 14, 3, "UI_ACTIVE_MODULATION", 255),
  One("ui", "UI_ACTIVE_MODIFIER", "index", 0, 3, 255),
  Bank("patch", "PATCH_MOD_OPERAND1", "modulation_source", 0, 30, 4, 3, "UI_ACTIVE_MODIFIER", 255),
  Bank("patch", "PATCH_MOD_OPERAND2", "modulation_source", 0, 30, 4, 3, "UI_ACTIVE_MODIFIER", 255),
  Bank("patch", "PATCH_MOD_OPERATOR", "modifier", 0, 10, 4, 3, "UI_ACTIVE_MODIFIER", 255) >>

PartParameters == <<
  One("part", "PART_VOLUME", "raw_uint8", 0, 127, 7),
  One("part", "PART_OCTAVE", "int8", -2, 2, 255),
  One("part", "PART_TUNING", "int8", -127, 127, 94),
  One("part", "PART_TUNING_SPREAD", "uint8", 0, 40, 95),
  One("part", "PART_RAGA", "raga", 0, 31, 255),
  One("part", "PART_LEGATO", "boolean", 0, 1, 68),
  One("part", "PART_PORTAMENTO_TIME", "uint8", 0, 63, 5),
  One("part", "PART_ARP_MODE", "arp_mode", 0, 2, 102),
  One("part", "PART_ARP_DIRECTION", "arp_direction", 0, 5, 103),
  One("part", "PART_ARP_OCTAVE", "int8", 1, 4, 104),
  One("part", "PART_ARP_PATTERN", "index", 0, 21, 105),
  One("part", "PART_ARP_RESOLUTION", "clock_resolution", 0, 14, 106),
  One("part", "PART_SEQUENCE_LENGTH_1", "uint8", 1, 32, 255),
  One("part", "PART_SEQUENCE_LENGTH_2", "uint8", 1, 32, 255),
  One("part", "PART_SEQUENCE_LENGTH_3", "uint8", 1, 32, 255),
  One("part", "PART_POLYPHONY_MODE", "polyphony_mode", 0, 4, 107) >>

MultiParameters == <<
  One("ui", "UI_ACTIVE_PART", "index", 0, 5, 255),
  Bank("multi", "MULTI_MIDI_CHANNEL", "midi_channel", 0, 16, 6, 4, "UI_ACTIVE_PART", 255),
  Bank("multi", "MULTI_KEYRANGE_LOW", "note", 0, 127, 6, 4, "UI_ACTIVE_PART", 255),
  Bank("multi", "MULTI_KEYRANGE_HIGH", "note", 0, 127, 6, 4, "UI_ACTIVE_PART", 255),
  One("multi", "MULTI_CLOCK_BPM", "tempo", 39, 240, 255),
  One("multi", "MULTI_CLOCK_GROOVE_TEMPLATE", "groove_template", 0, 5, 255),
  One("multi", "MULTI_CLOCK_GROOVE_AMOUNT", "raw_uint8", 0, 127, 255),
  One("multi", "MULTI_CLOCK_LATCH", "uint8", 0, 8, 255) >>

SystemParameters == <<
  One("system", "SYSTEM_MIDI_IN_MASK", "midi_in_mask", 0, 15, 255),
  One("system", "SYSTEM_MIDI_OUT_MODE", "midi_out_mode", 0, 4, 255),
  One("system", "SYSTEM_SHOW_HELP", "boolean", 0, 1, 255),
  One("system", "SYSTEM_SNAP", "boolean", 0, 1, 255),
  One("system", "SYSTEM_AUTOBACKUP", "boolean", 0, 1, 255),
  One("system", "SYSTEM_VOICECARD_LEDS", "boolean", 0, 1, 255),
  One("system", "SYSTEM_VOICECARD_SWAP_LEDS_COLORS", "boolean", 0, 1, 255) >>

FilterModulationParameters == <<
  One("patch", "PATCH_FILTER1_VELO", "int8", -63, 63, 108),
  One("patch", "PATCH_FILTER1_KBT", "int8", -63, 63, 109) >>

ParameterTable ==
    OscillatorParameters \o MixerParameters \o FilterParameters \o EnvelopeParameters
    \o ModulationParameters \o PartParameters \o MultiParameters \o SystemParameters
    \o FilterModulationParameters

kNumParameters == 75

dummy_parameter ==
    [ level |-> "part", name |-> "sequence_data", unit |-> "uint8", min_value |-> 0,
      max_value |-> 255, num_instances |-> 0, stride |-> 0, indexed_by |-> "none", midi_cc |-> 0 ]

parameter(index) == IF index = kSequenceData THEN dummy_parameter ELSE ParameterTable[index + 1]

\* The address of an instance (get_address): the offset is the enumerator's.
Address(p, instance) == U8(Offset[p.name] + p.stride * instance)

-----------------------------------------------------------------------------
(* The arithmetic of an edit.                                              *)

\* A 7-bit value from a pot or a MIDI controller, spread over the range.
Scale(p, value_7bits) ==
    LET range == U8(p.max_value - p.min_value + 1)
        spread == U8((range * U8(2 * value_7bits)) \div 256 + p.min_value)
        tempo == IF spread >= 239 THEN 240 ELSE spread
    IN CASE p.unit = "raw_uint8" -> value_7bits
         [] p.unit = "tempo" -> tempo - (tempo % 2)
         [] OTHER -> spread

Signed(p, x) == IF p.unit = "int8" THEN S8(x) ELSE x

Within(p, x) == Signed(p, p.min_value) <= x /\ x <= Signed(p, p.max_value)

Clamp(p, value) ==
    CASE Signed(p, value) < Signed(p, p.min_value) -> p.min_value
      [] Signed(p, value) > Signed(p, p.max_value) -> p.max_value
      [] OTHER -> value

Increment(p, current, increment) ==
    LET value == Signed(p, current) + increment
    IN IF Within(p, value) THEN U8(value) ELSE current

\* What a random byte becomes.
RandomValue(p, byte) ==
    LET range == U8(p.max_value - p.min_value + 1)
    IN CASE range # 0 -> U8((byte % range) + p.min_value)
         [] p.max_value = p.min_value -> p.min_value
         [] OTHER -> byte

-----------------------------------------------------------------------------
(* The maps from MIDI.                                                     *)

Repeat(n, s) == FlattenSeq([i \in 1..n |-> s])
Nothing(n) == Repeat(n, <<kNoParameter>>)

midi_cc_map ==
       <<255, 255, 255, 22, 255, 48, 255, 42, 255, 23, 255, 255, 14, 15, 2, 3>>
    \o <<0, 1, 4, 5, 6, 7, 8, 9, 10, 11, 12, 13, 18, 19, 20, 21>>
    \o Nothing(12) \o <<29, 30, 31, 32, 33, 255, 255, 255, 29, 30, 31>> \o Nothing(5)
    \o <<29, 30, 31>> \o Nothing(5)
    \o <<47, 255, 27, 17, 28, 25, 16, 26, 255, 255, 27, 255>>
    \o <<28, 25, 255, 26, 255, 255, 27, 255, 28, 25, 255, 26, 255, 255, 44, 45>>
    \o Nothing(6) \o <<49, 50, 51, 52, 53, 57, 73, 74>> \o Nothing(18)

midi_nrpn_map ==
       [i \in 1..24 |-> i - 1]
    \o Repeat(3, <<25, 26, 27, 28, 31, 30, 255, 29>>)
    \o <<33, 32>> \o Repeat(14, <<35, 36, 37>>) \o Repeat(4, <<39, 40, 41>>)
    \o <<73, 74>> \o Nothing(6)
    \o [i \in 1..16 |-> i + 41]
    \o Repeat(64, <<kSequenceData>>) \o Nothing(64)

ControlChangeToParameterId(cc) == midi_cc_map[cc + 1]
AddressToParameterId(address) == midi_nrpn_map[address + 1]

\* The instance a controller stands for: the loop of Part::ControlChange.
\* Fault: the loop stops one instance early.
InstanceOfController_OneLess(p, cc) ==
    LET hits == {k \in 0..(p.num_instances - 2) : p.midi_cc = U8(cc - k * p.stride)}
    IN IF hits = {} THEN p.num_instances ELSE CHOOSE k \in hits : \A j \in hits : k <= j
InstanceOfController(p, cc) ==
    LET hits == {k \in 0..(p.num_instances - 1) : p.midi_cc = U8(cc - k * p.stride)}
    IN IF hits = {} THEN p.num_instances ELSE CHOOSE k \in hits : \A j \in hits : k <= j

-----------------------------------------------------------------------------
(* The initial patch and part.                                             *)

ModSource == Enum(0, <<
    "ENV_1", "ENV_2", "ENV_3", "LFO_1", "LFO_2", "LFO_3", "LFO_4", "OP_1", "OP_2", "OP_3", "OP_4",
    "SEQ_1", "SEQ_2", "ARP_STEP", "VELOCITY", "AFTERTOUCH", "PITCH_BEND", "WHEEL", "WHEEL_2",
    "EXPRESSION", "NOTE", "GATE", "NOISE", "RANDOM", "CONSTANT_256", "CONSTANT_128", "CONSTANT_64",
    "CONSTANT_32", "CONSTANT_16", "CONSTANT_8", "CONSTANT_4" >>)
ModDestination == Enum(0, <<
    "PARAMETER_1", "PARAMETER_2", "OSC_1", "OSC_2", "OSC_1_2_COARSE", "OSC_1_2_FINE",
    "MIX_BALANCE", "MIX_PARAM", "MIX_NOISE", "MIX_SUB_OSC", "MIX_FUZZ", "MIX_CRUSH",
    "FILTER_CUTOFF", "FILTER_RESONANCE", "ATTACK", "DECAY", "RELEASE", "LFO_4", "VCA" >>)
ModifierOp == Enum(0, << "NONE", "SUM", "PRODUCT", "ATTENUATE", "MAX", "MIN", "XOR", "GE", "LE",
                         "QUANTIZE", "LAG_PROCESSOR" >>)
MixOperator == Enum(0, <<"SUM", "SYNC", "RING_MOD", "XOR", "FOLD", "BITS">>)
LfoWave == Enum(0, <<"TRIANGLE", "SQUARE", "S_H", "RAMP">>)
LfoSyncMode == Enum(0, <<"FREE", "SLAVE", "MASTER">>)
FilterMode == Enum(0, <<"LP", "BP", "HP", "NOTCH">>)
Waveform == Enum(0, <<"NONE", "SAW", "SQUARE">>)
SubOscShape == Enum(0, << "SQUARE_1", "TRIANGLE_1", "PULSE_1", "SQUARE_2", "TRIANGLE_2", "PULSE_2",
                          "CLICK", "GLITCH", "BLOW", "METALLIC", "POP" >>)
kNumSyncedLfoRates == 15

EnvelopeLfo(attack, decay, sustain, release, rate) ==
    << attack, decay, sustain, release, LfoWave.TRIANGLE, kNumSyncedLfoRates + rate, 0,
       LfoSyncMode.FREE >>
Route(source, destination, amount) == <<ModSource[source], ModDestination[destination], amount>>
Combine(a, b) == <<ModSource[a], ModSource[b], ModifierOp.NONE>>

init_patch_params ==
       << Waveform.SAW, 0, 0, 0, Waveform.SQUARE, 32, U8(-12), 12 >>
    \o << 32, MixOperator.SUM, 31, SubOscShape.SQUARE_1, 0, 0, 0, 0 >>
    \o << 96, 0, FilterMode.LP, 0, 0, FilterMode.LP, 24, 0 >>
    \o EnvelopeLfo(0, 40, 20, 60, 24) \o EnvelopeLfo(0, 40, 0, 40, 32)
    \o EnvelopeLfo(0, 40, 100, 40, 48)
    \o << LfoWave.TRIANGLE, 72 >>
    \o Route("ENV_1", "PARAMETER_1", 0) \o Route("ENV_1", "PARAMETER_2", 0)
    \o Route("LFO_1", "OSC_1", 0) \o Route("LFO_1", "OSC_2", 0)
    \o Route("LFO_2", "PARAMETER_1", 0) \o Route("LFO_2", "PARAMETER_2", 0)
    \o Route("LFO_3", "MIX_BALANCE", 0) \o Route("LFO_4", "FILTER_CUTOFF", 0)
    \o Route("SEQ_1", "FILTER_CUTOFF", 0) \o Route("SEQ_2", "MIX_BALANCE", 0)
    \o Route("ENV_3", "VCA", 63) \o Route("VELOCITY", "VCA", 16)
    \o Route("PITCH_BEND", "OSC_1_2_COARSE", 32) \o Route("LFO_4", "OSC_1_2_COARSE", 16)
    \o Combine("LFO_1", "LFO_2") \o Combine("LFO_2", "LFO_3")
    \o Combine("LFO_3", "SEQ_1") \o Combine("SEQ_1", "SEQ_2")
    \o << 0, 0 >> \o Repeat(6, <<0>>)

ArpSequencerMode == Enum(0, <<"STEP", "ARPEGGIATOR", "NOTE">>)
ArpeggiatorDirection == Enum(0, <<"UP", "DOWN", "UP_DOWN", "AS_PLAYED", "RANDOM", "CHORD">>)
PolyphonyMode == Enum(0, <<"MONO", "POLY", "UNISON_2X", "CYCLIC", "CHAIN">>)

\* A note with a gate, and one without.
Gated(note, velocity) == <<note + 128, velocity>>
Held(note, velocity) == <<note, velocity>>

init_part_params ==
       << 120, 0, 0, 0, 0, 0, 0, ArpSequencerMode.STEP >>
    \o << ArpeggiatorDirection.UP, 1, 0, 10, 16, 16, 16, PolyphonyMode.POLY >>
    \o << 255, 255, 128, 128, 204, 204, 32, 32, 0, 32, 64, 96, 128, 160, 192, 255 >>
    \o << 0, 16, 32, 64, 128, 255, 128, 64, 32, 32, 32, 32, 0, 0, 128, 64 >>
    \o Repeat(2, Gated(60, 100) \o Held(60, 100) \o Gated(48, 100) \o Held(48, 100))
    \o Gated(60, 100) \o Held(60, 100) \o Gated(48, 100) \o Gated(48, 100 + 128)
    \o Gated(60, 100) \o Held(60, 100) \o Gated(48, 100) \o Held(48, 100)
    \o Repeat(4, <<0>>)

=============================================================================
