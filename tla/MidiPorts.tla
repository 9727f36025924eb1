------------------------------- MODULE MidiPorts -------------------------------
(***************************************************************************)
(* MIDI out: what the dispatcher sends (src/controller/midi_dispatcher.h,  *)
(* .cc), its two buffers, the interrupt that empties them                  *)
(* (src/controller/controller.cc), and the parser of the next unit.        *)
(*                                                                         *)
(* A byte on its way says of which message it is and at what place,        *)
(* whether bytes before it have been lost, and whether it belongs to a     *)
(* transfer of SysExSendRaw.                                               *)
(*                                                                         *)
(* A definition whose name has an underscore is a faulty variant of the    *)
(* one that follows it: the properties are tested against these faults.    *)
(***************************************************************************)
EXTENDS Integers, SequencesExt

CONSTANTS
    LowRoom, HighRoom,  \* bytes that the two buffers hold
    Plans               \* the uses: modes, what the unit sends and what a device sends to it

VARIABLES
    plan,       \* the use in question: bound
    mode,       \* system_settings.midi_out_mode
    low, high,  \* the output buffers
    gap,        \* whether bytes have been lost at the end of the low priority buffer
    incoming,   \* the message of the device that is coming in, and how much of it has come
    sending,    \* whether the main loop is in SysExSendRaw; it does nothing else
    bulk,       \* what it has still to write
    receiver,   \* the parser of the next unit
    arrived,    \* history: the bytes of the message that is coming out, if none is lost
    flow        \* history: "broken" if some are, or between messages, else "whole", or "object"
                \* in the middle of a transfer of SysExSendRaw

portsvars == <<plan, mode, low, high, gap, incoming, sending, bulk, receiver, arrived, flow>>

\* MidiOutMode, in its order.
Modes == <<"thru", "sequencer", "controller", "chain", "full">>
Level(m) == CHOOSE i \in DOMAIN Modes : Modes[i] = m

Parser == INSTANCE MidiParser WITH Input <- {}, parser <- receiver, next <- receiver,
                                   status <- 0, since <- <<>>

\* What a device sends comes whole, each message with its status; an object is a SysEx.
IsChannelMessage(m) ==
    /\ Len(m) > 0 /\ m[1] \in 128..239 /\ Len(m) = 1 + Parser!ExpectedSize(m[1])
    /\ \A i \in 2..Len(m) : m[i] \in 0..127
IsSysEx(m) ==
    /\ Len(m) > 1 /\ m[1] = 240 /\ m[Len(m)] = 247
    /\ \A i \in 2..(Len(m) - 1) : m[i] \in 0..127
IsRealtimeMessage(m) == Len(m) = 1 /\ m[1] \in 248..255

IsMessage(m) == m \in Seq(0..255) /\ (IsChannelMessage(m) \/ IsSysEx(m) \/ IsRealtimeMessage(m))

ASSUME PortsAssumption ==
    /\ LowRoom \in Nat \ {0} /\ HighRoom \in Nat \ {0}
    /\ \A p \in Plans :
           /\ p.notes \subseteq 0..127 /\ p.edits \subseteq 0..127 /\ p.programs \subseteq 0..127
           /\ p.clocks \subseteq 248..255
           /\ \A m \in p.device : IsMessage(m)
           /\ \A m \in p.objects : IsMessage(m) /\ IsSysEx(m)

NoMessage == [bytes |-> <<>>, pos |-> 0, passed |-> TRUE]

PortsInit ==
    /\ plan \in Plans /\ mode \in plan.modes
    /\ low = <<>> /\ high = <<>> /\ gap = FALSE
    /\ incoming = NoMessage /\ sending = FALSE /\ bulk = <<>>
    /\ receiver = Parser!Fresh /\ arrived = <<>> /\ flow = "broken"

-----------------------------------------------------------------------------
(* The buffers.                                                            *)

Tagged(message, i, cut) == [message |-> message, at |-> i, cut |-> cut, object |-> FALSE]

ByteOf(e)  == e.message[e.at]
IsFirst(e) == e.at = 1
IsLast(e)  == e.at = Len(e.message)

\* Their class is not in this repository: when one is full, Overwrite may lose the new byte
\* or all those that wait.  Pairs of the buffer and of whether its end is lost.
Overwritten(b, entry) ==
    IF Len(b[1]) < LowRoom THEN {<<Append(b[1], [entry EXCEPT !.cut = @ \/ b[2]]), FALSE>>}
    ELSE {<<b[1], TRUE>>, <<<<[entry EXCEPT !.cut = TRUE]>>, FALSE>>}

\* The bytes of a message, in order.
Written(b, message) ==
    LET after[i \in 0..Len(message)] ==
            IF i = 0 THEN {b}
            ELSE UNION {Overwritten(c, Tagged(message, i, FALSE)) : c \in after[i - 1]}
    IN  after[Len(message)]

Sent(messages) ==
    LET after[i \in 0..Len(messages)] ==
            IF i = 0 THEN {<<low, gap>>}
            ELSE UNION {Written(c, messages[i]) : c \in after[i - 1]}
    IN  after[Len(messages)]

\* Send and Send3.
Send(messages) == \E b \in Sent(messages) : low' = b[1] /\ gap' = b[2]

\* SendNow: a realtime byte, which is a message of its own.
SendNow(byte) == high' \in IF Len(high) < HighRoom THEN {Append(high, byte)} ELSE {high, <<byte>>}

-----------------------------------------------------------------------------
(* The main loop.                                                          *)

\* What the unit sends in the middle of a message that it passes on ends that message for the
\* next unit.
Interrupted == IF incoming = NoMessage THEN incoming ELSE [incoming EXCEPT !.passed = FALSE]

\* OnNote, ForwardNote and OnEdit: a note or a controller.
OnNote ==
    /\ ~sending /\ plan.notes # {} /\ mode \in {"sequencer", "chain"}
    /\ \E note \in plan.notes : Send(<< <<144, note, 100>> >>)
    /\ incoming' = Interrupted
    /\ UNCHANGED <<plan, mode, high, sending, bulk, receiver, arrived, flow>>

OnEdit ==
    /\ ~sending /\ plan.edits # {} /\ Level(mode) >= Level("controller")
    /\ \E value \in plan.edits : Send(<< <<176, 6, 0>>, <<176, 38, value>> >>)
    /\ incoming' = Interrupted
    /\ UNCHANGED <<plan, mode, high, sending, bulk, receiver, arrived, flow>>

\* OnClock, OnStart and OnStop.
OnClock ==
    /\ ~sending /\ plan.clocks # {} /\ mode = "sequencer"
    /\ \E byte \in plan.clocks : SendNow(byte)
    /\ UNCHANGED <<plan, mode, low, gap, incoming, sending, bulk, receiver, arrived, flow>>

\* Each by Send3: the third byte of a program change is an active sensing message.
ProgramMessages(program) == << <<176, 32, 0>>, <<192, program>>, <<254>> >>

OnProgramLoaded ==
    /\ ~sending /\ plan.programs # {} /\ mode = "full"
    /\ \E program \in plan.programs : Send(ProgramMessages(program))
    /\ incoming' = Interrupted
    /\ UNCHANGED <<plan, mode, high, sending, bulk, receiver, arrived, flow>>

\* RawMidiData: a message is passed on when it is complete, in chain mode unless it is a note.
Passes(message) ==
    \/ mode = "full"
    \/ mode = "chain" /\ 16 * (message[1] \div 16) \notin {128, 144}

\* RawByte and ProcessSysEx: the bytes that are passed on as they come.
PassesByte(message) ==
    \/ mode = "thru"
    \/ message[1] = 240 /\ mode \in {"chain", "full"}

\* A byte of the device: RawByte, then what MessageReceived and the SysEx handlers pass on.
PassOn(message, i) ==
    LET byte == Tagged(message, i, ~incoming.passed)
        complete == i = Len(message)
    IN  /\ IF PassesByte(message)
           THEN \E b \in Overwritten(<<low, gap>>, byte) : low' = b[1] /\ gap' = b[2]
           ELSE IF message[1] # 240 /\ complete /\ Passes(message) THEN Send(<<message>>)
           ELSE UNCHANGED <<low, gap>>
        /\ incoming' = IF complete THEN NoMessage
                       ELSE [bytes |-> message, pos |-> i,
                             passed |-> PassesByte(message) /\ (i = 1 \/ incoming.passed)]

DeviceByte ==
    /\ ~sending
    /\ IF incoming = NoMessage THEN \E message \in plan.device : PassOn(message, 1)
       ELSE PassOn(incoming.bytes, incoming.pos + 1)
    /\ UNCHANGED <<plan, mode, high, sending, bulk, receiver, arrived, flow>>

\* SysExSendRaw: Flush waits until the low priority buffer is empty, SendBlocking until there
\* is room in it; at the end it is flushed again.
StartSending ==
    /\ ~sending /\ plan.objects # {} /\ low = <<>>
    /\ \E object \in plan.objects :
           bulk' = [i \in DOMAIN object |-> [Tagged(object, i, FALSE) EXCEPT !.object = TRUE]]
    /\ sending' = TRUE /\ gap' = FALSE /\ incoming' = Interrupted
    /\ UNCHANGED <<plan, mode, low, high, receiver, arrived, flow>>

SendBlocking ==
    /\ bulk # <<>> /\ Len(low) < LowRoom
    /\ low' = Append(low, Head(bulk)) /\ bulk' = Tail(bulk)
    /\ UNCHANGED <<plan, mode, high, gap, incoming, sending, receiver, arrived, flow>>

\* Fault: what is sent next may find the buffer full of the transfer.
Flush_NotAtEnd ==
    /\ sending /\ bulk = <<>>
    /\ sending' = FALSE
    /\ UNCHANGED <<plan, mode, low, high, gap, incoming, bulk, receiver, arrived, flow>>

Flush ==
    /\ sending /\ bulk = <<>> /\ low = <<>>
    /\ sending' = FALSE
    /\ UNCHANGED <<plan, mode, low, high, gap, incoming, bulk, receiver, arrived, flow>>

SetMode ==
    /\ ~sending /\ mode' \in plan.modes \ {mode}
    /\ UNCHANGED <<plan, low, high, gap, incoming, sending, bulk, receiver, arrived, flow>>

-----------------------------------------------------------------------------
(* The interrupt, and the other end of the cable.                          *)

\* The bytes of the message that comes out, up to this one; nothing is known when some are lost.
Intact(e) == IsFirst(e) \/ (flow # "broken" /\ ~e.cut)
FlowAfter(e) == IF ~Intact(e) \/ IsLast(e) THEN "broken" ELSE IF e.object THEN "object" ELSE "whole"
Arrived(e) ==
    IF IsFirst(e) THEN <<ByteOf(e)>> ELSE IF Intact(e) THEN Append(arrived, ByteOf(e)) ELSE <<>>

\* FlushMidiOut: the high priority buffer first.
FlushHigh ==
    /\ high # <<>> /\ high' = Tail(high)
    /\ receiver' = Parser!Pushed(receiver, Head(high)).parser
    /\ UNCHANGED <<plan, mode, low, gap, incoming, sending, bulk, arrived, flow>>

FlushLow ==
    /\ high = <<>> /\ low # <<>> /\ low' = Tail(low)
    /\ receiver' = Parser!Pushed(receiver, ByteOf(Head(low))).parser
    /\ arrived' = Arrived(Head(low)) /\ flow' = FlowAfter(Head(low))
    /\ UNCHANGED <<plan, mode, high, gap, incoming, sending, bulk>>

PortsNext ==
    \/ OnNote \/ OnEdit \/ OnClock \/ OnProgramLoaded \/ DeviceByte
    \/ StartSending \/ SendBlocking \/ Flush \/ SetMode
    \/ FlushHigh \/ FlushLow

PortsSpec == PortsInit /\ [][PortsNext]_portsvars

-----------------------------------------------------------------------------
\* The channel messages handed over by the next unit when an entry comes out.
HandedOver(e) == Parser!ChannelMessages(Parser!Pushed(receiver, ByteOf(e)).messages)

\* Whatever is sent, passed on or lost when a buffer is full, and whatever realtime bytes come
\* in between: a message none of whose bytes is lost is handed over by the next unit, once, with
\* its last byte, and nothing else is handed over while it comes; so a loss makes nothing wrong
\* beyond the next status byte.  And of a transfer of SysExSendRaw no byte is lost.
OutputIsWhole ==
    low # <<>> =>
        LET e == Head(low)
        IN  /\ Intact(e) =>
                   HandedOver(e) = IF IsLast(e) /\ Arrived(e)[1] < 240 THEN <<Arrived(e)>> ELSE <<>>
            /\ flow = "object" <=> e.object /\ ~IsFirst(e)
=============================================================================
