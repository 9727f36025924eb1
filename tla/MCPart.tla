-------------------------------- MODULE MCPart --------------------------------
(***************************************************************************)
(* Instances of Part for TLC: the scales and the steps of the sequence.    *)
(***************************************************************************)
EXTENDS Part

MCAllNotes == {PartNotes}

Gated(note, legato) == [note |-> note, gate |-> TRUE, legato |-> legato]
Rest == [note |-> 60, gate |-> FALSE, legato |-> FALSE]

MCRestOnly == {Rest}
MCSequence == {Rest, Gated(60, FALSE), Gated(72, TRUE)}
=============================================================================
