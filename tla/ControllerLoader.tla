---------------------------- MODULE ControllerLoader ----------------------------
(***************************************************************************)
(* The bootloader of the controller (controller/bootloader/bootloader.cc): *)
(* what it does when the unit is turned on, the update from the SD card,   *)
(* and the update over MIDI, whose SysEx messages it reads byte by byte    *)
(* from a cable that may lose or damage some.                              *)
(*                                                                         *)
(* The receive buffer has room for two blocks and its end is not checked.  *)
(* Once the loader has written past it, over other variables, what it does *)
(* is not determined by the source: the model leaves it at that until the  *)
(* power is cycled.                                                        *)
(***************************************************************************)
EXTENDS Integers, Sequences

CONSTANTS
    PageBytes,          \* SPM_PAGESIZE: 256
    NewImage,          \* the update: a sequence of pages, each of PageBytes bytes
    Damage,             \* what a damaged byte may read
    MaxFaults           \* bound: bytes lost or damaged, at most one in a message

ASSUME ControllerLoaderAssumption ==
    /\ PageBytes \in Nat \ {0} /\ NewImage \in Seq([1..PageBytes -> 0..255])
    /\ Damage \subseteq 0..255 /\ MaxFaults \in Nat

VARIABLES
    lpc,                \* "start", "sd", "midi", "main": main_entry_point, or "overrun"
    update_requested,   \* kFirmwareUpdateFlagPtr
    lpage,              \* page, in pages
    image,              \* the pages of the flash: Old, or what was written there
    rxs,                \* the variables of MidiUpdater
    sent,               \* what was sent: message, position, and the faults of the cable
    faults

loadervars == <<lpc, update_requested, lpage, image, rxs, sent, faults>>

Old == <<>>
sysex_header == <<240, 0, 33, 2, 0, 4>>
EndOfSysEx == 247
ByteSum(block) ==
    LET to[i \in 0..PageBytes] == IF i = 0 THEN 0 ELSE (to[i - 1] + block[i]) % 256
    IN to[PageBytes]
NewReception ==
    [state |-> "MATCHING_HEADER", bytes_read |-> 0, commands |-> <<>>, buffer |-> <<>>,
     checksum |-> 0]

-----------------------------------------------------------------------------
(* The sender: a message for each page, then the one that ends the update. *)

Nibbles(bytes) ==
    [i \in 1..(2 * Len(bytes)) |-> LET b == bytes[(i + 1) \div 2]
                                   IN IF i % 2 = 1 THEN b \div 16 ELSE b % 16]
BlockMessage(block) ==
    sysex_header \o <<126, 0>> \o Nibbles([i \in 1..PageBytes |-> block[i]] \o <<ByteSum(block)>>)
        \o <<EndOfSysEx>>
ResetMessage == sysex_header \o <<127, 0, EndOfSysEx>>
UpdateMessages == [m \in 1..(Len(NewImage) + 1) |->
                IF m <= Len(NewImage) THEN BlockMessage(NewImage[m]) ELSE ResetMessage]

NothingSent == [message |-> 1, position |-> 1, clean |-> TRUE, ended |-> TRUE]
LastByte == sent.position = Len(UpdateMessages[sent.message])
\* clean: the message has had no fault; ended: the one before it arrived to its end.
SentOne(right) ==
    IF LastByte
    THEN [message |-> sent.message + 1, position |-> 1, clean |-> TRUE, ended |-> right]
    ELSE [sent EXCEPT !.position = @ + 1, !.clean = @ /\ right]

-----------------------------------------------------------------------------
(* MidiUpdater, one byte.                                                  *)

\* MATCHING_HEADER: a byte that does not match is not looked at again as the first one.
MatchesHeader(r, byte) ==
    IF byte # sysex_header[r.bytes_read + 1] THEN [r EXCEPT !.bytes_read = 0]
    ELSE IF r.bytes_read + 1 < Len(sysex_header) THEN [r EXCEPT !.bytes_read = @ + 1]
    ELSE [NewReception EXCEPT !.state = "READING_COMMAND"]

ReadsCommand(r, byte) ==
    IF byte >= 128 THEN NewReception
    ELSE [r EXCEPT !.commands = Append(@, byte), !.bytes_read = (@ + 1) % 2,
                   !.state = IF r.bytes_read = 1 THEN "READING_DATA" ELSE @]

\* READING_DATA: two nibbles make a byte of the buffer; the sum is that of the first PageBytes.
\* Status bytes other than the last one are ignored.
ReadsData(r, byte) ==
    LET index == Len(r.buffer)
        value == r.buffer[index] + (byte % 16)
    IN IF byte >= 128 THEN r
       ELSE IF r.bytes_read % 2 = 0
       THEN [r EXCEPT !.bytes_read = @ + 1, !.buffer = Append(@, (16 * byte) % 256)]
       ELSE [r EXCEPT !.bytes_read = @ + 1, !.buffer[index] = value,
                      !.checksum = IF index <= PageBytes THEN (@ + value) % 256 ELSE @]

\* rx_buffer: the byte would be written past its end.
Room == 2 * (PageBytes + 1)
Overruns(r, byte) ==
    r.state = "READING_DATA" /\ byte < 128 /\ r.bytes_read % 2 = 0 /\ Len(r.buffer) >= Room

\* Fault: the checksum is not compared.
IsBlock_NoChecksum(r) == r.bytes_read \div 2 = PageBytes + 1 /\ r.commands = <<126, 0>>
IsBlock(r) ==
    /\ r.bytes_read \div 2 = PageBytes + 1 /\ r.commands = <<126, 0>>
    /\ r.buffer[PageBytes + 1] = r.checksum
IsReset(r) == r.bytes_read = 0 /\ r.commands = <<127, 0>>

\* WriteBufferToFlash.
Writes(content) == image' = [image EXCEPT ![lpage] = content] /\ lpage' = lpage + 1

Consume(byte) ==
    IF byte > 240 /\ byte # EndOfSysEx THEN UNCHANGED <<rxs, image, lpage, lpc>>
    ELSE IF rxs.state = "READING_DATA" /\ byte = EndOfSysEx
    THEN /\ rxs' = NewReception
         /\ IF IsReset(rxs) THEN lpc' = "main" /\ UNCHANGED <<image, lpage>>
            ELSE IF IsBlock(rxs) THEN Writes([i \in 1..PageBytes |-> rxs.buffer[i]]) /\ UNCHANGED lpc
            ELSE UNCHANGED <<image, lpage, lpc>>
    ELSE /\ lpc' = IF Overruns(rxs, byte) THEN "overrun" ELSE lpc
         /\ UNCHANGED <<image, lpage>>
         /\ rxs' = CASE rxs.state = "MATCHING_HEADER" -> MatchesHeader(rxs, byte)
                     [] rxs.state = "READING_COMMAND" -> ReadsCommand(rxs, byte)
                     [] rxs.state = "READING_DATA" -> ReadsData(rxs, byte)

\* The next byte arrives, is lost, or arrives damaged.
NextByte == UpdateMessages[sent.message][sent.position]
Sending == lpc = "midi" /\ sent.message <= Len(UpdateMessages)
Arrives ==
    /\ Sending /\ Consume(NextByte) /\ sent' = SentOne(TRUE)
    /\ UNCHANGED <<faults, update_requested>>
Fails ==
    /\ Sending /\ sent.clean /\ faults < MaxFaults /\ faults' = faults + 1
    /\ sent' = SentOne(FALSE) /\ UNCHANGED update_requested
    /\ \/ UNCHANGED <<rxs, image, lpage, lpc>>
       \/ \E byte \in Damage \ {NextByte} : Consume(byte)

-----------------------------------------------------------------------------
(* Starting, and the update from the SD card.                              *)

\* main: a switch, or the main program, asks for an update.
Start ==
    /\ lpc = "start" /\ update_requested' = FALSE
    /\ \E held \in {"none", "sd", "midi"} :
          lpc' = IF held = "sd" \/ update_requested THEN "sd"
                 ELSE IF held = "midi" THEN "midi" ELSE "main"
    /\ UNCHANGED <<lpage, image, rxs, sent, faults>>

SdBlock ==
    /\ lpc = "sd" /\ lpage < Len(NewImage) /\ Writes(NewImage[lpage + 1])
    /\ UNCHANGED <<lpc, update_requested, rxs, sent, faults>>
\* The end of the file, no file, or a card that cannot be read: the main program runs.
SdEnds ==
    /\ lpc = "sd" /\ lpc' = "main"
    /\ UNCHANGED <<update_requested, lpage, image, rxs, sent, faults>>

\* The unit is turned off and on, and whoever sends starts again; or OsInfoPage::OnKey asks for
\* an update, and resets it.
Restart(requested) ==
    /\ lpc' = "start" /\ update_requested' = requested /\ lpage' = 0 /\ rxs' = NewReception
    /\ sent' = NothingSent /\ faults' = 0 /\ UNCHANGED image
PowerCycled == Restart(update_requested)
RequestUpdate == lpc = "main" /\ Restart(TRUE)

LoaderInit ==
    /\ lpc = "start" /\ update_requested = FALSE /\ lpage = 0
    /\ image = [p \in 0..(Len(NewImage) - 1) |-> Old]
    /\ rxs = NewReception /\ sent = NothingSent /\ faults = 0

LoaderNext == Arrives \/ Fails \/ Start \/ SdBlock \/ SdEnds \/ PowerCycled \/ RequestUpdate

LoaderSpec == LoaderInit /\ [][LoaderNext]_loadervars

-----------------------------------------------------------------------------
(* Correctness.                                                            *)

\* A page is written only with a block that was sent for it, whole, when its message ends, or
\* in the next message when the end was missing; a block that arrives as it was sent is written,
\* unless the end of the message before it was not seen; and only in the message after such a
\* one is the buffer overrun: whatever else goes wrong, the loader is back in step by the end of
\* the message.
BlocksArriveWhole ==
    [][lpc = "midi" /\ lpc' # "start" =>
          /\ lpage' # lpage =>
                \E m \in 1..Len(NewImage) :
                    /\ image'[lpage] = NewImage[m]
                    /\ IF LastByte THEN m = sent.message ELSE m = sent.message - 1 /\ ~sent.ended
          /\ sent.clean /\ sent.ended /\ sent'.ended /\ sent'.message > sent.message =>
                IF sent.message <= Len(NewImage) THEN lpage' = lpage + 1 ELSE lpc' = "main"
          /\ lpc' = "overrun" => ~sent.ended
      ]_loadervars
=============================================================================
