-------------------------------- MODULE MCMidi --------------------------------
(***************************************************************************)
(* MIDI in and MIDI out side by side, for TLC: the reception of bytes and  *)
(* of SysEx transfers, and what the dispatcher sends and passes on.        *)
(* Each behaviour runs one of them; the other rests in one initial state.  *)
(***************************************************************************)
EXTENDS SysExReception, MidiPorts

VARIABLE port       \* which of them runs

\* A header of two bytes, and objects of one byte.
MCHeader == <<240, 1>>
MCObjectSize == [object \in 0..4 |-> 1]

\* What a unit sends and a device sends to it: notes and realtime bytes as a sequencer; notes of
\* its own and of a device that is passed through; in a chain, which keeps the notes of a device
\* to itself, an edit in the middle of a SysEx that is passed on; program changes, an aftertouch
\* that is passed on, and an object; and an object between notes and realtime bytes.
Quiet == [modes |-> {"full"}, notes |-> {}, edits |-> {}, clocks |-> {}, programs |-> {},
          device |-> {}, objects |-> {}]
Object == <<240, 0, 1, 2, 247>>
MCPlans ==
    { [Quiet EXCEPT !.modes = {"sequencer"}, !.notes = {60, 61}, !.clocks = {248, 250}],
      [Quiet EXCEPT !.modes = {"sequencer", "thru"}, !.notes = {60}, !.device = {<<208, 9>>}],
      [Quiet EXCEPT !.modes = {"chain"}, !.edits = {5}, !.device = {<<144, 60, 0>>, <<240, 1, 247>>}],
      [Quiet EXCEPT !.programs = {1, 2}, !.device = {<<208, 9>>}, !.objects = {Object}],
      [Quiet EXCEPT !.modes = {"chain", "thru"}, !.notes = {60}, !.device = {<<248>>},
                   !.objects = {Object}] }

MidiInit ==
    /\ port \in {"in", "out"}
    /\ RxInit
    /\ PortsInit /\ (port # "out" => plan.programs # {})

InRuns  == port = "in" /\ RxNext /\ UNCHANGED <<port, portsvars>>
OutRuns == port = "out" /\ PortsNext /\ UNCHANGED <<port, vars>>

MidiSpec == MidiInit /\ [][InRuns \/ OutRuns]_<<port, vars, portsvars>>
=============================================================================
