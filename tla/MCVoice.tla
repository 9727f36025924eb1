------------------------------ MODULE MCVoice ------------------------------
\* The sessions of a voicecard for TLC, with tables of a few values.  An oscillator without a
\* shape, or a voice that ends soon, keeps the phases from multiplying the states.
EXTENDS Voice

MCEnvIncrements == [t \in 0..127 |-> IF t = 0 THEN 65535 ELSE IF t < 63 THEN 30000 ELSE 1]
MCEnvExpo == [i \in 0..256 |-> IF i < 86 THEN 0 ELSE IF i < 171 THEN 128 ELSE 255]
MCOscIncrements == [i \in 0..767 |-> IF i < 384 THEN 32768 ELSE 14336]
MCLfoIncrements == [i \in 0..127 |-> IF i < 64 THEN 0 ELSE 24576]

Osc(shape, parameter, range) ==
    [shape |-> Shape(shape), parameter |-> parameter, range |-> range, detune |-> 0]
Adsr(a, d, s, r) == [i \in Envelopes |-> [attack |-> a, decay |-> d, sustain |-> s, release |-> r]]
Wheel == [source |-> "LFO_1", destination |-> "OSC_1_2_COARSE", amount |-> 63]
Vca(source) == [source |-> source, destination |-> "VCA", amount |-> 63]
Patch(o1, o2, sync, env, modulation) ==
    [osc |-> <<o1, o2>>, sync |-> sync, sub_shape |-> 0,
     voice_lfo |-> [shape |-> LFO_WAVEFORM_RAMP, rate |-> 0], env |-> env, modulation |-> modulation]
PartOf(volume, time, legato) == [volume |-> volume, portamento_time |-> time, legato |-> legato]

None == Osc("NONE", 0, 0)
Gate == Patch(None, None, FALSE, Adsr(0, 0, 60, 20), <<Vca("ENV_2"), Wheel>>)
Slow == Patch(None, None, FALSE, Adsr(20, 20, 60, 20),
              <<Vca("ENV_1"), [source |-> "VELOCITY", destination |-> "RELEASE", amount |-> -20],
                Wheel>>)
Synced(a, b, range) ==
    Patch(Osc(a, 40, 0), Osc(b, 40, range), TRUE, Adsr(0, 0, 60, 0),
          <<Vca("ENV_2"), Wheel, Wheel>>)
Short(shape, parameter, range) ==
    [Patch(None, None, FALSE, Adsr(0, 0, 0, 0),
           <<[source |-> "CONSTANT_256", destination |-> "PARAMETER_1", amount |-> 8],
             Vca("ENV_1"), Wheel>>)
       EXCEPT !.osc[1] = [shape |-> shape, parameter |-> parameter, range |-> range, detune |-> 0],
              !.sub_shape = shape % 11]
Wobble(lfo_shape) ==
    [Patch(None, None, FALSE, Adsr(0, 0, 0, 0),
           <<[source |-> "LFO_4", destination |-> "PARAMETER_1", amount |-> 63],
             [source |-> "LFO_4", destination |-> "LFO_4", amount |-> 32], Vca("ENV_1"), Wheel>>)
       EXCEPT !.osc[1] = [shape |-> WAVETABLE_1, parameter |-> 127, range |-> 0, detune |-> 0],
              !.voice_lfo = [shape |-> lfo_shape, rate |-> 100]]

\* Notes, released, killed and triggered again at any moment.
Notes == [patches |-> {Gate, Slow}, parts |-> {}, notes |-> {20}, sources |-> {},
          others |-> {"RELEASE", "KILL", "RETRIGGER", "RESET"}, commands |-> 4]
\* Glides between near pitches, at every speed, cut short by other notes.
Glides == [patches |-> {Gate}, parts |-> {PartOf(127, t, l) : t \in {30, 63}, l \in BOOLEAN},
           notes |-> {1000, 1040}, sources |-> {}, others |-> {"RELEASE"}, commands |-> 4]
\* Sync between oscillators of several kinds and intervals.
Syncs(patch_) ==
    [patches |-> {patch_}, parts |-> {}, notes |-> {14700},
     sources |-> {<<"LFO_1", 255>>, <<"WHEEL", 255>>}, others |-> {"CONTROLLERS"}, commands |-> 3]
\* Every shape at extreme parameters, and those that read the zones of the keyboard at pitches
\* in and between the zones.
Shaped(shape, parameter, range, note) ==
    [patches |-> {Short(shape, parameter, range)}, parts |-> {}, notes |-> {note}, sources |-> {},
     others |-> {}, commands |-> 2]
Zones == {<<-24, 2568>>, <<0, 8192>>, <<0, 13800>>, <<0, 13830>>}
Zoned == {<<"SAW", 0>>, <<"SQUARE", 0>>, <<"SQUARE", 40>>, <<"TRIANGLE", 0>>, <<"SINE", 0>>}
Shapings ==
    {Shaped(shape, parameter, 24, 16383) : shape \in 0..WAVEQUENCE, parameter \in {0, 79, 127}}
    \cup {Shaped(Shape(shape[1]), shape[2], zone[1], zone[2]) : shape \in Zoned, zone \in Zones}
\* A voice LFO of every shape on the parameter of a wavetable, and on its own rate.
Wobbles ==
    {[patches |-> {Wobble(shape)}, parts |-> {}, notes |-> {8192}, sources |-> {},
      others |-> {}, commands |-> 2] : shape \in 0..3}
MCSessions ==
    { Notes, Glides,
       Syncs(Synced("SAW", "FM", 7)), Syncs(Synced("CZ_SAW", "SQUARE", -5)),
       Syncs(Synced("SQUARE", "SAW", 0)), Syncs(Synced("SAW", "VOWEL", 0)) }
    \cup Shapings \cup Wobbles
=============================================================================
