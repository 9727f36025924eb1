--------------------------- MODULE MCVoicecardLink ---------------------------
(***************************************************************************)
(* Instances of VoicecardLink for TLC.  The arguments of the commands look *)
(* like commands themselves, so that a loss of framing shows.              *)
(***************************************************************************)
EXTENDS VoicecardLink

MCOneMessage == {<<WRITE_LFO, NOTE_ON>>}
MCBlock == <<NOTE_ON, SYNC>>
=============================================================================
