------------------------------ MODULE MidiParser ------------------------------
(***************************************************************************)
(* The parser of the MIDI input (src/midi/midi.h, MidiStreamParser), with  *)
(* what it passes on to MIDI out in the mode MIDI_OUT_FULL                 *)
(* (src/controller/midi_dispatcher.h), and a second unit that parses what  *)
(* comes out of the first.                                                 *)
(*                                                                         *)
(* A message handed to the device is the sequence of its status and data   *)
(* bytes: <<144, 60, 100>> is NoteOn(0, 60, 100), <<240>> SysExStart,      *)
(* <<240, b>> SysExByte(b), <<247>> SysExEnd, <<248>> Clock.               *)
(*                                                                         *)
(* A definition whose name has an underscore is a faulty variant of the    *)
(* one that follows it: the properties are tested against these faults.    *)
(***************************************************************************)
EXTENDS Integers, SequencesExt

CONSTANT Input      \* the bytes that may come in

ASSUME ParserAssumption == Input \subseteq 0..255

VARIABLES
    parser,         \* the parser of this unit
    next,           \* the parser of the next unit
    status,         \* history: the status the data bytes belong to
    since           \* history: the data bytes of its unfinished message, SysEx
                    \* bytes apart

parserVars == <<parser, next, status, since>>

IsRealtime(b) == b >= 248
IsStatus(b)   == b >= 128 /\ ~IsRealtime(b)
Hi(b) == 16 * (b \div 16)

Fresh == [running |-> 0, data |-> <<>>, expected |-> 0]

\* How many data bytes follow a status byte.
ExpectedSize(b) ==
    CASE Hi(b) \in {128, 144, 160, 176, 224} -> 2
      [] Hi(b) \in {192, 208} -> 1
      [] b \in {240, 243} -> 1
      [] b \in {241, 242} -> 2
      [] OTHER -> 0

-----------------------------------------------------------------------------
(* MessageReceived: what is handed to the device, and what is passed on.   *)

Handed(st, data) ==
    CASE IsRealtime(st) -> IF st \in {249, 253} THEN <<>> ELSE <<<<st>>>>
      [] st \in 128..240 -> <<<<st>> \o data>>
      [] OTHER -> <<>>          \* system common messages are not implemented

\* RawMidiData, through the controller's Send: the status and the data bytes
\* received so far; SysEx bytes are passed on by their own handlers.
PassedOn_StatusOnce(st, data) ==
    IF st \in {240, 247} THEN data ELSE IF data = <<>> THEN <<st>> ELSE data

PassedOn(st, data) == IF st \in {240, 247} THEN data ELSE <<st>> \o data

-----------------------------------------------------------------------------
(* PushByte: the parser, the messages and the bytes passed on.             *)

\* A message is complete; running status survives unless it was a system one.
Completed(p) ==
    [parser |-> IF p.running > 240 THEN Fresh ELSE [p EXCEPT !.data = <<>>],
     messages |-> Handed(p.running, p.data), out |-> PassedOn(p.running, p.data)]

\* A status byte.  The start and the end of a SysEx are handed over at once.
AfterStatus(p, b) ==
    LET q == [running |-> IF b = 247 THEN 0 ELSE b, data |-> <<>>, expected |-> ExpectedSize(b)]
        r == IF q.expected = 0 THEN Completed(q)
             ELSE [parser |-> q, messages |-> <<>>, out |-> <<>>]
        edge == IF b = 240 \/ (b = 247 /\ p.running = 240) THEN <<b>> ELSE <<>>
    IN  [r EXCEPT !.messages = (IF edge = <<>> THEN <<>> ELSE <<edge>>) \o @, !.out = edge \o @]

AfterData(p, b) ==
    LET q == [p EXCEPT !.data = Append(@, b)]
    IN  IF Len(q.data) >= q.expected THEN Completed(q)
        ELSE [parser |-> q, messages |-> <<>>, out |-> <<>>]

\* A realtime byte is handed over with the parser as it is.
AfterRealtime_AsStatus(p, b) == AfterStatus(p, b)

AfterRealtime(p, b) ==
    [parser |-> p, messages |-> Handed(b, p.data), out |-> PassedOn(b, p.data)]

Pushed(p, b) ==
    CASE IsRealtime(b) -> AfterRealtime(p, b)
      [] IsStatus(b) -> AfterStatus(p, b)
      [] OTHER -> AfterData(p, b)

\* The next unit parses several bytes.
PushedAll(p, bytes) ==
    LET after[i \in 0..Len(bytes)] ==
            IF i = 0 THEN [parser |-> p, messages |-> <<>>]
            ELSE LET r == Pushed(after[i - 1].parser, bytes[i])
                 IN  [parser |-> r.parser, messages |-> after[i - 1].messages \o r.messages]
    IN  after[Len(bytes)]

-----------------------------------------------------------------------------

\* What byte b makes of this unit and of the next one.
Messages(b)     == Pushed(parser, b).messages
NextPushed(b)   == PushedAll(next, Pushed(parser, b).out)

ParserInit == parser = Fresh /\ next = Fresh /\ status = 0 /\ since = <<>>

\* What the MIDI protocol says the bytes mean: data bytes belong to the last
\* status, in groups of its size; a system common message counts once.
With(b) == Append(since, b)
Completes(b) == Len(With(b)) = ExpectedSize(status)

Remember(b) ==
    CASE IsRealtime(b) -> UNCHANGED <<status, since>>
      [] IsStatus(b) -> since' = <<>> /\ status' = IF ExpectedSize(b) = 0 THEN 0 ELSE b
      [] OTHER -> /\ since' = IF status \in {0, 240} \/ Completes(b) THEN <<>> ELSE With(b)
                  /\ status' = IF status > 240 /\ Completes(b) THEN 0 ELSE status

PushByte(b) ==
    /\ LET r == Pushed(parser, b)
       IN  parser' = r.parser /\ next' = PushedAll(next, r.out).parser
    /\ Remember(b)

ParserNext == \E b \in Input : PushByte(b)

ParserSpec == ParserInit /\ [][ParserNext]_parserVars

-----------------------------------------------------------------------------
(* Correctness.                                                            *)

\* Whatever the stream, running status, interrupted messages and realtime
\* bytes in the middle of others included, a channel message is handed over
\* exactly when its last data byte has come, with its own data bytes.
HandsOverWholeMessages ==
    status \in 128..239 =>
        \A b \in {i \in Input : i < 128} :
            Messages(b) = IF Completes(b) THEN <<<<status>> \o With(b)>> ELSE <<>>

ChannelMessages(ms) ==
    LET upto[i \in 0..Len(ms)] ==
            IF i = 0 THEN <<>>
            ELSE upto[i - 1] \o (IF ms[i][1] < 240 THEN <<ms[i]>> ELSE <<>>)
    IN  upto[Len(ms)]

\* A realtime byte is passed on with the data bytes of the message it comes
\* in the middle of, the end of a SysEx that is not going on as a zero, and a
\* data byte that belongs to no message with a zero before it.
PassesOnMore(b) ==
    \/ IsRealtime(b) /\ parser.data # <<>>
    \/ b = 247 /\ parser.running # 240
    \/ b < 128 /\ parser.running = 0

\* A unit connected to MIDI out gets the messages that this one gets, at the
\* same moments, except when one of the three cases above comes in; and
\* what these leave behind in its parser disturbs none of the later messages.
NextUnitFollows ==
    \A b \in {i \in Input : ~PassesOnMore(i)} :
        NextPushed(b).messages = Messages(b)
=============================================================================
