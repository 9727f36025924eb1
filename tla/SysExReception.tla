---------------------------- MODULE SysExReception ----------------------------
(***************************************************************************)
(* The reception of SysEx transfers (src/controller/storage.{h,cc},        *)
(* Storage::SysExReceive), fed by the MIDI parser through the dispatcher   *)
(* (ProcessSysEx).  A transfer is                                          *)
(*                                                                         *)
(*     header, command, argument, data, checksum, 247                      *)
(*                                                                         *)
(* with each byte of the data and the checksum sent as two nibbles.  The   *)
(* data are put in the buffer of the file system, so an operation of the   *)
(* storage abandons the transfer that is going on.                         *)
(*                                                                         *)
(* The modelled commands are the reception of an object, a request for an  *)
(* object and any other.  PEEK and POKE are received like an object, with  *)
(* another size.                                                           *)
(*                                                                         *)
(* A definition whose name has an underscore is a faulty variant of the    *)
(* one that follows it: the properties are tested against these faults.    *)
(***************************************************************************)
EXTENDS MidiParser

CONSTANTS
    Header,         \* sysex_header: 240 and the numbers of the device (6 bytes)
    object_size,    \* the size of each object of the storage
    BufferBytes     \* what operations of the storage leave in the buffer

ASSUME ReceptionAssumption ==
    /\ Header \in Seq(0..255) /\ Len(Header) > 1 /\ Header[1] = 240
    /\ object_size \in [0..4 -> 1..254] /\ BufferBytes \subseteq 0..255

VARIABLES
    rx,             \* the state of the reception, sysex_rx_*
    buffer,         \* buffer_, as far as a transfer may use it
    frame           \* history: the bytes since the start of the SysEx that is
                    \* going on or has just ended, else <<>>

vars == <<parserVars, rx, buffer, frame>>

\* The objects of the storage; a command is the number of an object and one of these.
STORAGE_OBJECT_PATCH == 0
STORAGE_OBJECT_SEQUENCE == 1
STORAGE_OBJECT_PROGRAM == 2
STORAGE_OBJECT_MULTI == 3
STORAGE_OBJECT_PART == 4
Objects == 0..4
Reception == 1
Request == 17
Receptions == {Reception + object : object \in Objects}
Requests == {Request + object : object \in Objects}
NoCommand == <<0, 0>>

Places == 0..Max({object_size[object] : object \in Objects})

\* Static variables are zero at the beginning.
FreshRx ==
    [ state |-> "header", received |-> 0, checksum |-> 0, expected |-> 0,
      command |-> NoCommand ]

-----------------------------------------------------------------------------
(* SysExReceive.  The reception and the buffer are one record here.        *)

Start(r) == [r EXCEPT !.state = "header", !.received = 0, !.checksum = 0]

HeaderByte(r, b) ==
    IF Header[r.received + 1] # b THEN [r EXCEPT !.state = "footer"]
    ELSE IF r.received + 1 = Len(Header) THEN [r EXCEPT !.state = "command", !.received = 0]
    ELSE [r EXCEPT !.received = @ + 1]

\* SysExParseCommand; an unknown command leaves the expected size as it was.
Parse(r) ==
    LET q == [r EXCEPT !.received = 0, !.state = "data"]
    IN  CASE r.command[1] \in Receptions ->
                 [q EXCEPT !.expected = object_size[r.command[1] - Reception]]
          [] r.command[1] \in Requests -> [q EXCEPT !.expected = 0]
          [] OTHER -> [q EXCEPT !.state = "footer"]

CommandByte(r, b) ==
    LET q == [r EXCEPT !.command[r.received + 1] = b, !.received = @ + 1]
    IN  IF q.received = 2 THEN Parse(q) ELSE q

\* The high nibble of a byte, then the low one, which completes it.
Assembled(r, b) ==
    LET i == r.received \div 2
    IN  IF r.received % 2 = 0 THEN 16 * (b % 16) ELSE r.buffer[i] + (b % 16)

IsSummed_All(r) == r.received % 2 = 1

\* Only the data count for the checksum, not the checksum itself.
IsSummed(r) == r.received % 2 = 1 /\ r.received \div 2 < r.expected

DataByte(r, b) ==
    [r EXCEPT !.buffer[r.received \div 2] = Assembled(r, b),
              !.received = @ + 1,
              !.checksum = IF IsSummed(r) THEN (@ + Assembled(r, b)) % 256 ELSE @,
              !.state = IF r.received + 1 >= 2 * (r.expected + 1) THEN "footer" ELSE @]

\* SysExAcceptCommand: whether there is such a command.
IsCommand(r) == r.command[1] \in Receptions \cup Requests

FooterByte(r, b, enabled) ==
    IF b = 247 /\ r.checksum = r.buffer[r.expected] /\ enabled
    THEN [r EXCEPT !.state = IF IsCommand(r) THEN "ok" ELSE "error"]
    ELSE [r EXCEPT !.state = "error"]

SysExReceive(s, b, enabled) ==
    LET r == IF b = 240 THEN Start(s) ELSE s
    IN  CASE r.state = "header"  -> HeaderByte(r, b)
          [] r.state = "command" -> CommandByte(r, b)
          [] r.state = "data"    -> DataByte(r, b)
          [] r.state = "footer"  -> FooterByte(r, b, enabled)
          [] OTHER -> r

-----------------------------------------------------------------------------
(* Sending.                                                                *)

Nibbles(b) == <<b \div 16, b % 16>>
SumOf(data) == FoldLeft(LAMBDA sum, b : (sum + b) % 256, 0, data)

\* What SysExSendRaw sends, when it sends these bytes for the header.
SysExSendRaw(header, command, data) ==
    header \o command \o FlattenSeq([i \in DOMAIN data |-> Nibbles(data[i])])
           \o Nibbles(SumOf(data)) \o <<247>>

-----------------------------------------------------------------------------
(* The dispatcher: SysExStart, SysExByte and SysExEnd.                     *)

SysExBytes(ms) ==
    FoldLeft(LAMBDA bytes, m : IF m \in {<<240>>, <<247>>} THEN bytes \o m
                               ELSE IF m[1] = 240 THEN Append(bytes, m[2]) ELSE bytes,
             <<>>, ms)

Whole == [state |-> rx.state, received |-> rx.received, checksum |-> rx.checksum,
          expected |-> rx.expected, command |-> rx.command, buffer |-> buffer]

RxInit ==
    /\ ParserInit
    /\ rx = FreshRx
    /\ buffer = [i \in Places |-> 0]
    /\ frame = <<>>

\* The number of data bytes of a command, and the length of its transfer up
\* to the end of the SysEx.
SizeOf(command) == IF command \in Receptions THEN object_size[command - Reception] ELSE 0
LongestFrame(f) ==
    IF Len(f) <= Len(Header) THEN Len(f) + 1
    ELSE Len(Header) + 2 + 2 * (SizeOf(f[Len(Header) + 1]) + 1)

\* The bytes before the last one are not those of a header.
Diverged(f) == \E i \in 1..(Len(f) - 1) : i <= Len(Header) /\ f[i] # Header[i]

\* Nothing more is remembered of a SysEx that cannot be a transfer any more;
\* its end makes it longer than a transfer.
Framed(b) ==
    CASE b = 240 -> <<240>>
      [] frame = <<>> \/ (IsStatus(b) /\ b # 247) -> <<>>
      [] Last(frame) = 247 -> <<>>
      [] b # 247 /\ (Diverged(frame) \/ Len(frame) > LongestFrame(frame)) -> frame
      [] OTHER -> Append(frame, b)

\* The reception after byte b, with system_settings.rx_sysex() on or off.
Received(b, enabled) ==
    FoldLeft(LAMBDA r, x : SysExReceive(r, x, enabled), Whole, SysExBytes(Messages(b)))

\* One byte comes in.  A realtime byte is no part of a transfer.
Receive(b, enabled) ==
    /\ PushByte(b)
    /\ LET r == Received(b, enabled)
       IN  rx' = [f \in DOMAIN rx |-> r[f]] /\ buffer' = r.buffer
    /\ frame' = IF IsRealtime(b) THEN frame ELSE Framed(b)

StorageOperation_NoInvalidation(contents) ==
    /\ buffer' = contents
    /\ frame' = <<>>
    /\ UNCHANGED <<parserVars, rx>>

\* Load, Save, FileExists, SpiCopy, Snapshot... call
\* InvalidatePendingSysExTransfer and use the buffer of the file system.
StorageOperation(contents) ==
    /\ rx' = [rx EXCEPT !.state = "error"]
    /\ buffer' = contents
    /\ frame' = <<>>
    /\ UNCHANGED parserVars

\* The setting is read when the end of a SysEx comes, and may then be either.
RxNext ==
    \/ \E b \in Input : Receive(b, TRUE)
    \/ 247 \in Input /\ Receive(247, FALSE)
    \/ \E contents \in [Places -> BufferBytes] : StorageOperation(contents)

RxSpec == RxInit /\ [][RxNext]_vars

-----------------------------------------------------------------------------
(* Correctness.                                                            *)

\* The bytes of a transfer.  The upper half of a byte that carries a nibble does not matter.
IsTransfer(bytes, command, data) ==
    LET sent == SysExSendRaw(Header, command, data)
        nibbles == (Len(Header) + 3)..(Len(sent) - 1)
    IN  /\ Len(bytes) = Len(sent)
        /\ \A i \in DOMAIN sent : (IF i \in nibbles THEN bytes[i] % 16 ELSE bytes[i]) = sent[i]

\* What may be sent with a command: an object, or nothing.
Sendable(command) ==
    [1..SizeOf(command) -> {16 * (h % 16) + (l % 16) : h, l \in Input \cap 0..127}]

\* A transfer cut in its header is taken for one that has reached its footer:
\* it is then compared with what an earlier transfer has left behind.
CutInHeader(f) ==
    Len(f) > 2 /\ ~Diverged(SubSeq(f, 1, Len(f) - 1)) /\ Diverged(f)

\* This step makes the unit execute the command received.
Accepts == rx.state # "ok" /\ rx'.state = "ok"

\* The data of the command received.
Payload(r) == [i \in 1..r.expected |-> r.buffer[i - 1]]

\* A command is accepted only with the last byte of its own transfer, and
\* with the data of that transfer: nothing of an earlier one, nothing that a
\* storage operation has put in the buffer they share, and nothing of a
\* transfer that another message has interrupted.
AcceptsOwnTransfer ==
    Accepts => CutInHeader(frame') \/ IsTransfer(frame', rx'.command, Payload(Whole'))

\* Every transfer that comes in whole is accepted if the setting is on,
\* whatever came before it and whatever realtime messages come in the middle.
AcceptsEveryTransfer ==
    frame' # frame /\ frame' # <<>> /\ Last(frame') = 247 =>
        \A c \in Input \cap (Receptions \cup Requests), a \in Input : \A data \in Sendable(c) :
           IsTransfer(frame', <<c, a>>, data) =>
               LET r == Received(247, TRUE)
               IN  r.state = "ok" /\ r.command = <<c, a>> /\ Payload(r) = data

\* A command is executed exactly for a transfer that has come in whole, with its own data.
ExecutesWholeTransfers == [][AcceptsOwnTransfer /\ AcceptsEveryTransfer]_vars
=============================================================================
