------------------------------- MODULE Firmware -------------------------------
(***************************************************************************)
(* The firmware of a voicecard is replaced over the SPI bus: the page of   *)
(* the controller that starts it (os_info_page.cc), Storage::SpiCopy, the  *)
(* bootloader of the voicecard and the flag in its EEPROM that counts the  *)
(* boots which did not succeed.  Power may fail anywhere, and the SD card  *)
(* may be pulled out.                                                      *)
(*                                                                         *)
(* A byte is what position of the file it is, or garbage.  A voicecard     *)
(* that listens takes each byte before the next comes; a page is written   *)
(* in less than the 15 ms, and a reset takes less than the 100 ms, that    *)
(* the controller waits.                                                   *)
(***************************************************************************)
EXTENDS Integers

CONSTANTS
    SPM_PAGESIZE,       \* bytes in a page: 128
    FileSize,           \* bytes in VOICE$.BIN
    kConfirmations,     \* 250
    kSyncCommands,      \* 240
    CounterSize,        \* 256: values of the bootloader's counter of commands
    MaxPages,           \* bound: pages written in one update
    MaxStrayPages,      \* bound: of them, pages of the controller's other traffic
    MaxPowerLosses      \* bound

ASSUME FirmwareAssumption ==
    /\ SPM_PAGESIZE \in 16..2048 /\ SPM_PAGESIZE % 16 = 0
    /\ FileSize \in Nat \ {0} /\ FileSize <= MaxPages * SPM_PAGESIZE
    /\ kConfirmations \in Nat /\ kSyncCommands \in 2..kConfirmations
    /\ CounterSize \in Nat /\ kConfirmations < CounterSize
    /\ MaxPages \in Nat /\ MaxStrayPages \in 0..(MaxPages - 1) /\ MaxPowerLosses \in Nat

DONE == 0
REQUESTED == 1
PROBING_BOOT == 2
PROBING_BOOT_LAST_TRY == 6

VARIABLES
    card, found,        \* whether the SD card is in; bit 1 of found_firmware_files_
    pc,                 \* where OsInfoPage::OnKey is
    confirmations,      \* i of its loop
    page_size_nibbles,
    byte_count, page_count,
    offset,             \* the position in file_
    opened,             \* whether the last SpiCopy could open its file
    flag,               \* kFirmwareUpdateFlagPtr of the voicecard
    vc,                 \* what the voicecard does
    reset_command_counter,
    rx,                 \* of the update: page, read, total_read, right: rx_buffer is the file's
    done,
    flash,              \* what each page holds: "old", "erased", "new" or "garbage"
    floating,           \* what the controller reads when no voicecard drives the bus
    losses

controller == <<card, found, pc, confirmations, page_size_nibbles, byte_count, page_count, offset,
                opened>>
copying == <<byte_count, page_count, offset>>
voicecard == <<flag, vc, reset_command_counter, rx, done, flash>>
vars == <<controller, voicecard, floating, losses>>

Pages == 0..(MaxPages - 1)
FilePages == 0..((FileSize - 1) \div SPM_PAGESIZE)
NoUpdate == [page |-> 0, read |-> 0, total_read |-> 0, right |-> TRUE]

-----------------------------------------------------------------------------
(* The bootloader of the voicecard.                                        *)

\* What is written before main_entry_point is called.
\* Fault: the boots are not counted.
NewUpdateFlag_NotCounted(flag_read) == PROBING_BOOT
NewUpdateFlag(flag_read) ==
    IF flag_read \in PROBING_BOOT..(PROBING_BOOT_LAST_TRY - 1) THEN flag_read + 1
    ELSE PROBING_BOOT

\* The variables of the bootloader are local to it.
NothingReceived == reset_command_counter' = 0 /\ rx' = NoUpdate /\ done' = FALSE
Run(flag_read) == vc' = "main" /\ flag' = NewUpdateFlag(flag_read)

\* An EEPROM never written reads 255.
update_flag == IF flag = 255 THEN DONE ELSE flag
Decide ==
    IF update_flag = REQUESTED \/ update_flag >= PROBING_BOOT_LAST_TRY
    THEN vc' = "sync" /\ UNCHANGED flag
    ELSE Run(update_flag)

Boot ==
    /\ vc = "boot"
    /\ NothingReceived
    /\ IF update_flag >= PROBING_BOOT THEN vc' = "blink" /\ UNCHANGED flag ELSE Decide
    /\ UNCHANGED <<flash, controller, floating, losses>>

Blinked ==
    /\ vc = "blink" /\ Decide
    /\ UNCHANGED <<reset_command_counter, rx, done, flash, controller, floating, losses>>

\* The page is erased, then written.
StartsPage(r, stop) ==
    /\ vc' = "writing" /\ done' = stop /\ rx' = r
    /\ flash' = [flash EXCEPT ![r.page] = "erased"]

\* A padded page holds the end of the file, or not the file.
Complete(r) == r.right /\ (r.read = SPM_PAGESIZE \/ r.page * SPM_PAGESIZE + r.read = FileSize)
PageWritten ==
    /\ vc = "writing" /\ vc' = IF done THEN "dance" ELSE "update"
    /\ flash' = [flash EXCEPT ![rx.page] = IF Complete(rx) THEN "new" ELSE "garbage"]
    /\ rx' = [rx EXCEPT !.page = @ + 1, !.read = 0, !.right = TRUE]
    /\ UNCHANGED <<flag, reset_command_counter, done, controller, floating, losses>>

Danced ==
    /\ vc = "dance" /\ Run(REQUESTED) /\ NothingReceived
    /\ UNCHANGED <<flash, controller, floating, losses>>

\* main_entry_point: the firmware that was there, and the one of the file, boot ("Successful
\* boot!", voicecard.cc); a mixture may do anything.
Whole == \A p \in FilePages : flash[p] = "new"
Untouched == \A p \in Pages : flash[p] = "old"
Main ==
    /\ vc = "main"
    /\ \/ vc' = "app" /\ flag' = DONE
       \/ ~Whole /\ ~Untouched /\ vc' = "hung" /\ UNCHANGED flag
    /\ UNCHANGED <<reset_command_counter, rx, done, flash, controller, floating, losses>>

-----------------------------------------------------------------------------
(* One transaction, as the voicecard sees it, and the reply.               *)

\* COMMAND_FIRMWARE_UPDATE_MODE.
TakesCommand ==
    CASE vc = "app" -> vc' = "boot" /\ flag' = REQUESTED
                       /\ UNCHANGED <<reset_command_counter, rx, done, flash>>
      [] vc = "sync" -> reset_command_counter' = (reset_command_counter + 1) % CounterSize
                        /\ UNCHANGED <<flag, vc, rx, done, flash>>
      [] vc = "update" /\ rx.read = 0 -> vc' = "dance" /\ done' = TRUE
                        /\ UNCHANGED <<flag, reset_command_counter, rx, flash>>
      [] vc = "update" /\ rx.read > 0 -> StartsPage(rx, TRUE)
                        /\ UNCHANGED <<flag, reset_command_counter>>
      [] vc = "writing" -> done' = TRUE /\ UNCHANGED <<flag, vc, reset_command_counter, rx, flash>>
      [] OTHER -> UNCHANGED voicecard
CommandReply == IF vc = "sync" THEN SPM_PAGESIZE \div 16 ELSE floating

\* The two nibbles of a byte; at is its offset in the file, or -1 for another byte.
Received(r, at) ==
    [r EXCEPT !.read = @ + 1,
              !.right = @ /\ at = r.page * SPM_PAGESIZE + r.read]
TakesByte(at) ==
    CASE vc = "sync" /\ reset_command_counter >= kSyncCommands ->
            vc' = "update" /\ rx' = Received(NoUpdate, at)
            /\ UNCHANGED <<flag, reset_command_counter, done, flash>>
      [] vc = "sync" /\ reset_command_counter < kSyncCommands ->
            reset_command_counter' = 0 /\ UNCHANGED <<flag, vc, rx, done, flash>>
      [] vc = "update" ->
            LET r == [Received(rx, at) EXCEPT !.total_read = (@ + 1) % 256]
            IN /\ IF r.read = SPM_PAGESIZE THEN StartsPage(r, FALSE)
                  ELSE rx' = r /\ UNCHANGED <<vc, done, flash>>
               /\ UNCHANGED <<flag, reset_command_counter>>
      [] OTHER -> UNCHANGED voicecard
ByteReply ==
    CASE vc = "sync" /\ reset_command_counter >= kSyncCommands -> 0
      [] vc = "sync" /\ reset_command_counter < kSyncCommands -> SPM_PAGESIZE \div 16
      [] vc = "update" -> (rx.total_read + 1) % 256
      [] OTHER -> floating

-----------------------------------------------------------------------------
(* The controller: OsInfoPage::OnKey(SWITCH_4) and SpiCopy.                *)

Goes(from, to) == pc = from /\ pc' = to
\* The variables of OnKey and of SpiCopy are local to them.
Return ==
    /\ pc' = "page" /\ confirmations' = 0 /\ page_size_nibbles' = 0
    /\ byte_count' = 0 /\ page_count' = 0 /\ offset' = 0
Still == UNCHANGED <<card, found, floating, losses>>

FindFirmwareFiles ==
    /\ pc = "page" /\ found' = card
    /\ UNCHANGED <<card, pc, confirmations, page_size_nibbles, copying, opened, voicecard, floating,
                   losses>>

\* UpdateScreen asks for the version: two commands and two bytes to read the replies.
UpdateScreen ==
    /\ pc = "page" /\ TakesByte(-1)
    /\ vc = "update" => rx.page < MaxStrayPages
    /\ UNCHANGED <<controller, floating, losses>>

EnterFirmwareUpdateMode ==
    /\ found /\ Goes("page", "wait") /\ TakesCommand
    /\ UNCHANGED <<confirmations, page_size_nibbles, copying, opened>> /\ Still

Waited ==
    /\ vc \notin {"boot", "writing"}
    /\ Goes("wait", "confirm")
    /\ UNCHANGED <<confirmations, page_size_nibbles, copying, opened, voicecard>> /\ Still

Confirm ==
    /\ confirmations < kConfirmations /\ Goes("confirm", "confirm") /\ TakesCommand
    /\ confirmations' = confirmations + 1 /\ page_size_nibbles' = CommandReply
    /\ UNCHANGED <<copying, opened>> /\ Still

Confirmed ==
    /\ confirmations = kConfirmations
    /\ pc = "confirm"
    /\ IF page_size_nibbles = 0 THEN Return
       ELSE pc' = "open" /\ UNCHANGED <<confirmations, page_size_nibbles, copying>>
    /\ UNCHANGED <<opened, voicecard>> /\ Still

Open ==
    /\ Goes("open", IF card THEN "read" ELSE "stop") /\ opened' = card
    /\ UNCHANGED <<confirmations, page_size_nibbles, copying, voicecard>> /\ Still

\* "Read a few bytes."  Without the card, nothing is read and the end is never reached.
Read ==
    /\ Goes("read", IF card THEN "copy" ELSE "read")
    /\ UNCHANGED <<confirmations, page_size_nibbles, copying, opened, voicecard>> /\ Still

WriteAsNibbles ==
    /\ pc = "copy" /\ TakesByte(offset)
    /\ IF ByteReply # byte_count
       THEN pc' = "stop" /\ UNCHANGED copying
       ELSE /\ offset' = offset + 1 /\ page_count' = page_count + 1
            /\ byte_count' = (byte_count + 1) % 256
            /\ pc' = IF (offset + 1) % 4 = 0 \/ offset + 1 = FileSize THEN "pause" ELSE "copy"
    /\ UNCHANGED <<confirmations, page_size_nibbles, opened>> /\ Still

\* "Pause every time a page is full to let the voicecard write its input buffer to the flash."
\* Fault: the count of the page goes on.
PageCount_GoesOn == page_count
PageCount == IF page_count = page_size_nibbles * 16 THEN 0 ELSE page_count
Pause ==
    /\ page_count = page_size_nibbles * 16 => vc # "writing"
    /\ Goes("pause", IF offset = FileSize THEN "stop" ELSE "read")
    /\ page_count' = PageCount
    /\ UNCHANGED <<confirmations, page_size_nibbles, byte_count, offset, opened, voicecard>> /\ Still

Stop ==
    /\ pc = "stop" /\ Return /\ TakesCommand
    /\ UNCHANGED opened /\ Still

-----------------------------------------------------------------------------
\* The card is looked at nowhere else.
PullOrPutCard ==
    /\ pc \in {"page", "open", "read"} /\ card' = ~card
    /\ UNCHANGED <<found, pc, confirmations, page_size_nibbles, copying, opened, voicecard, floating,
                   losses>>

\* The controller starts again; its page looks for the files when it is opened.
PowerOn ==
    /\ vc' = "boot" /\ NothingReceived /\ Return /\ found' = card
    /\ UNCHANGED <<card, opened, flag, flash, floating>>
PowerLoss == losses < MaxPowerLosses /\ losses' = losses + 1 /\ PowerOn
\* Somebody turns off a unit whose voicecard is silent.
PowerCycle == vc = "hung" /\ UNCHANGED losses /\ PowerOn

Init ==
    /\ card = TRUE /\ found = TRUE /\ pc = "page" /\ confirmations = 0 /\ page_size_nibbles = 0
    /\ byte_count = 0 /\ page_count = 0 /\ offset = 0 /\ opened = FALSE
    /\ flag \in {DONE, 255} /\ vc = "boot" /\ reset_command_counter = 0 /\ rx = NoUpdate
    /\ done = FALSE /\ flash = [p \in Pages |-> "old"]
    /\ floating \in {0, 255} /\ losses = 0

VoicecardRuns == Boot \/ Blinked \/ PageWritten \/ Danced \/ Main

Next ==
    \/ VoicecardRuns
    \/ FindFirmwareFiles \/ UpdateScreen \/ EnterFirmwareUpdateMode \/ Waited \/ Confirm
    \/ Confirmed \/ Open \/ Read \/ WriteAsNibbles \/ Pause \/ Stop
    \/ PullOrPutCard \/ PowerLoss \/ PowerCycle

\* The voicecard runs, and a unit that hangs is turned off and on again.
Spec == Init /\ [][Next]_vars /\ WF_vars(VoicecardRuns) /\ WF_vars(PowerCycle)

-----------------------------------------------------------------------------
(* Correctness.                                                            *)

\* A voicecard ends an update, and runs what it has received, only when the whole file is in
\* its flash, whatever failed or was tried before: a copy that is given up leaves a voicecard
\* which still waits for an update.  Not so when SpiCopy could not open the file: the
\* voicecard, which was told to expect one, then takes any message for it.
UpdateEndsWhole == [][vc # "dance" /\ vc' = "dance" /\ opened => Whole']_vars

\* A firmware that does not boot is not the end: turned off and on again, the voicecard comes
\* back to its bootloader and waits for another update.
LoaderComesBack == []<>(vc \in {"sync", "update", "app"})
=============================================================================
