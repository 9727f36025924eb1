# Ambika in TLA+

A verification project for the firmware of Ambika, a hybrid polyphonic
synthesizer: a *controller* (an AVR that handles MIDI, keys, arpeggiator,
sequencer, storage and the panel) and up to six *voicecards* (an AVR each) that
it drives over SPI. The modules are translated from the source under `src/`;
`PROJECT.json` maps each definition to the lines it stands for.

Contents: [1 The system](#1-the-system), [2 Plan](#2-plan),
[3 Modules](#3-modules-and-code), [4 Runs](#4-runs), [5 Fairness](#5-fairness),
[6 Proofs](#6-proofs), [7 Where code and comments
disagree](#7-where-the-code-and-its-comments-disagree),
[8 Not modelled](#8-not-modelled).

## 1 The system

Each processor has one main loop, one timer interrupt, and no operating system.
On the controller the interrupt sends the bytes for the voicecards, counts the
internal clock and samples the panel; everything else is called from the main
loop, one handler at a time. So concurrency means: interrupt against main loop,
controller against voicecards, and this unit against whatever sends MIDI to it.
Otherwise the difficulty is in long sequences of legal calls that share state,
and in power that fails between two bytes of a memory.

| Component | State | Operations | Interacts with | What is hard, and what makes it correct |
|---|---|---|---|---|
| Stack of keys (`controller/note_stack.h`) | pool of entries, linked list, sorted view | note on, off, clear, sustain mark | a part's pressed keys; allocator of MONO | eviction when full, unlinking. It must keep every other key, its place in time and in pitch |
| Voice allocator (`voice_allocator.*`) | note and active bit of each voice, LRU order | note on, off, clear notes, clear, init | part | stealing, reuse, a lookup that ignores the active bit. One note on one voice; the least recent candidate is taken; a release finds the voice that sounds |
| Part (`part.*`) | settings, pressed keys, pedal, the allocators, the generated note | notes, pedal, panic messages, clock, start, stop, settings, program load, voice assignment | multi, voicecard link, MIDI out | everything above in any order. No stuck note; voices and allocator agree |
| Arpeggiator (`part.cc`) | direction, step, octave | step, restart, settings | pressed keys that change at any time | stale positions, turning round. In range, all keys played |
| LFOs of a part (`part.cc`, `common/lfo.h`) | phases, increments, tick duration | update, clock, retrigger | clock, envelopes of the voicecards | the measured tick, the counter of updates shared with the interrupt. The phase arrives where the next tick sets it; updates keep their rate |
| Multi: clock (`multi.*`) | clock counter, tick duration, waiting events, step, idle count | timer tick, clock, start, stop, tempo | interrupt and main loop share memory | non-atomic access. No tick is lost but by a late loop, none is early but on a torn duration; it stops by itself |
| Multi: mapping (`multi.*`) | channels, ranges, voices of the parts | note dispatch, voice assignment | parts | edits between note on and off. Note off follows note on; voices disjoint |
| Parameters (`parameter.*`, `part.*`) | patch and part data, byte by byte | edits from the panel, CC, NRPN, random, reset | pages, MIDI in, voicecards | 8-bit arithmetic, instances, lost messages. An edit reaches the byte it was made for, and stays in range |
| MIDI parser (`midi/midi.h`) | running status, data bytes | one byte | dispatcher | realtime bytes anywhere, interrupted messages. Messages whole |
| MIDI dispatcher and output (`midi_dispatcher.*`) | two output buffers | send, pass on, transfer | parts, storage, the next unit | full buffers, streams that are merged. What is not lost is whole |
| SysEx and objects (`storage.*`) | automaton, buffer shared with the file system | one byte, invalidation, send, load, save | parser, every storage operation | cut and repeated transfers. A command is executed for its own complete transfer only, and an object arrives where it was meant to |
| Storage: versions, clipboard (`storage.*`, pages) | files, 8-bit version counter, user-change flag | snapshot, previous, next, copy, paste, swap, load, init | UI pages, program change, SD card | wrap, reboot, card failures, order of steps. History in order; edits not lost |
| Storage: EEPROM (`storage.cc`, `system_settings.cc`) | multi and settings with checksums | write, load | boot, power loss | partial writes. The unit boots with whole blocks or with the defaults |
| Voicecard link (`voicecard_tx.*`, `voicecard_rx.h`, `voicecard.cc`) | two buffers, bus, SPI registers, reception buffer, frame | write, transactions, block, version, SD card session; poll, parse | two interrupts and two main loops per link | timing, framing, bus sharing. Every command executed once, whole, in order |
| Voicecard voice (`voicecard/*`) | envelopes, modulation, pitch, oscillators, audio buffer | trigger, release, kill, reset, writes; render a block | link, interrupt | fixed-point edges, stages that never end, tables. A released voice falls silent; glides and sync arrive; reads stay in the tables |
| Firmware update (`*/bootloader/`, `os_info_page.cc`) | flash, boot flag, copy protocol | page copy, reset, boots, MIDI update | link, SD card, power | power losses and pulled cards in the middle, stray traffic, damaged blocks. An update ends with a whole firmware, or the loader comes back |
| User interface (`ui.*`, `ui_pages/`) | event queue, page, dialog, library location | poll, events, page changes, MIDI notes and program changes | all of the above | events that wait while the page changes, stale locations. Events meet their page, edits an instance that exists |
| Nunchuk (`peripherals/nunchuk`) | app, gesture, held notes | game pad, steps, switch | MIDI receiver | gestures that mix. No note without the app that ends it |
| Utilities, resources, hardware data | | | | offline scripts and tables, no program to model |

The hazards (behaviours hard to reach with a test, each at its line) are in
`PROJECT.json`, with the properties that cover them.

## 2 Plan

The order of work was that of importance, and all of these modules are done:

1. allocation, with its abstractions (`VoiceAllocator`, `NoteStack`), the
   `Arpeggiator`, and `Part`, which composes them;
2. `VoicecardLink` against the abstract `CommandChannel`;
3. time: `MultiClock`, `PartLfos`, `LfoRefresh`;
4. MIDI: `MidiParser`, `SysExReception`, `ObjectTransfer`, `MidiPorts`;
5. storage and mapping: `VersionHistory`, `Parameters`, `EditLink`, `Multi`;
6. the panel: `Library`, `Pages`, `Panel`;
7. the rest of the devices: `Oscillators`, `Voice`, `Firmware`,
   `ControllerLoader`, `Nunchuk`.

Proofs: allocator, stack of keys, arpeggiator, part, versions, panel, clock and LFOs,
mapping and EEPROM, edits over MIDI, MIDI in and out, the bus of the link, the
nunchuk, and the updates of a voicecard and of the controller (section 6). Left to
prove, in this order: the pauses of the link; `BytesStayInRange`; of `Part`,
`SoundingNotesAreOwned` and `PedalUpKillsSustained`.

The modules to be proved about have no RECURSIVE operator; parameters are
constants with named assumptions; each state is a record with one function per
method of the source where methods call one another, and one action per
operation.

## 3 Modules and code

A definition whose name contains an underscore is a deliberately faulty variant
of the definition after it (a dropped guard, an off-by-one, a swapped order);
the properties are tested against these faults.

*Allocation.* **NoteStack** is the linked list of `note_stack.h` with its three
views (played order, pitch order, most recent). **KeyStack** is what it promises:
a bounded sequence of keys in order of pressing; `Held`, at the end of NoteStack,
is the refinement mapping that relates the two. **VoiceAllocator** has the pool of notes, the LRU order and the mode
flag of `voice_allocator.cc`. `NoteOn` is `AfterNoteOn`: find a voice
(`VoiceFor`: reuse the voice of the same note, else an idle one, else steal), then
`Touch`. **VoiceAllocatorHistory** adds the time each voice was last used, as a
history variable. **VoicePool** is the abstraction: each voice is free or plays a
note; a note starts on a free voice, the least recently used, if there is one.
**Allocators** composes the two: a part uses one or the other, and they share
their storage (`Part::InitializeAllocators`).

*Part.* **Arpeggiator** is the position of `StepArpeggio` and `StartArpeggio`,
while keys and settings change freely. **Part** is the whole of a part: a record,
a function per method of `Part`, an action per event of the rest of the firmware.
It uses `NoteStack` twice, `VoiceAllocator` and `Arpeggiator` as instances, so
that their code is the same in all runs. A voice's `sound` is the note it was
triggered with and not yet released or killed; `midi` and `chain` are the notes
left on at MIDI out and on a chained unit.

*Link.* **VoicecardLink** has the two transmission buffers, the alternation of the
interrupt, the operations of the main loop as sequences of instructions (flush,
delay, bus transfer), and for each card its SPI register, buffer and parser.
**CommandChannel** is the abstraction: commands are queued and executed once each.

*Time.* **MultiClock** is `Multi::Tick` in the interrupt against the main loop,
split at the loads and stores of the memory they share: `num_clock_events_`
(read-modify-write) and `tick_duration_` (two bytes, either order). History variables
count the ticks that are neither processed nor lost, and those that a store overwrites.
**PartLfos** is
`Part::Clock`, `UpdateLfos` and `RetriggerLfos`. **LfoRefresh** is the counter that
the interrupt counts up and the main loop down, byte by byte.

*MIDI.* **MidiParser** is `MidiStreamParser::PushByte` with what is passed on to MIDI
out, and a second parser that receives it. **SysExReception** puts
`Storage::SysExReceive` behind the parser; operations of the storage interfere
through the shared buffer. **ObjectTransfer** extends it to whole objects (patch,
part, sequence, program, multi), sent by one unit and received by another, or
saved and loaded. **MidiPorts** has the five output modes, the two output buffers
with their rule for a full buffer, and the interrupt that empties them; each byte
knows its place in its message.

*Settings.* **Parameters** is the table of the 75 parameters, the memory layouts
its offsets point into, the CC and NRPN maps and the 8-bit arithmetic of an edit.
**EditLink** sends edits as NRPN through a buffer that loses messages to the same
parameters of another unit, on the channel of the part that is edited. **Multi** extends it with the mapping (channels, key
ranges, voices), the routing of notes, and the two blocks of the EEPROM, written
byte by byte with power losses. **VersionHistory** is the program of one part: live
data, user-change flag, the 8-bit version counter, the files of the history and of
the clipboard, and the version manager page. History variables record in which
order files were saved and where the program comes from: edited by the user and not
saved since, from the storage, or from elsewhere. The six parts differ in their history folders; they share
the clipboard (`CopyElsewhere`).

*Panel.* **Panel** is the interrupt that polls encoder, switches and pots into the
event queue, and the main loop that hands events to the page. **Pages** has the
table of pages and the handlers of each, **Library** the library page, the version
manager and program changes: which location each operation is about.

*Voicecard.* **Voice** is the main loop that renders a block when the audio buffer
has room and executes commands, and the interrupt that consumes samples; a block is
envelopes, modulation matrix, glide and oscillators. **Oscillators** has the
phases, the sync flags and the table reads of each algorithm.

*Devices.* **Firmware** is the update of a voicecard: the page that starts it,
`SpiCopy`, the bootloader, the boot counter, power losses, a pulled card.
**ControllerLoader** is the controller's own bootloader, from the card and over MIDI.
**Nunchuk** is the box that plays from a game pad.

`MC*` modules define constants for TLC; MCUnits, MCMidi and MCDevices also put
units that do not call one another side by side: a behaviour runs one of them and
leaves the others in their initial states, so the run is the union of theirs.

## 4 Runs

| Run | Question | Instance, and why it is enough |
|---|---|---|
| `units` | do the small units keep their promises: allocators, arpeggiator, clock, LFOs, versions? | pools of 0, 1 and 3 voices with notes 0 and 127 among five (whose bytes are also marks), key stacks of 3 with four notes: stealing, eviction and reuse all happen, and sizes change at any time; 4 keys and 4 octaves; clock durations 4, 3 and 5 in bytes of 4 values, so that a step of the groove rewrites both bytes and half of the new duration is 0 or 7, passes of the main loop of up to 8 timer ticks, which is several clock ticks: they come at every step of the decrement and between the two bytes; 2 ticks per step (6 in the code), idle stop after 3; one synced LFO (cycle of three ticks, real increment) and two free ones, 0 to 5 updates per tick; refresh counter of rate 2 in bytes of 5 values; 4 versions (256), 2 contents: the counter wraps with files left |
| `part_keys` | stuck notes, aftertouch, pedal | 2 voices, 3 key slots, 4 notes: more keys than slots and voices, in MONO and POLY |
| `part_modes` | changes of mode, program and voices while notes sound | 0, 1 and 3 voices (odd, for UNISON_2X pairs), four modes, 5 key slots, 2 notes |
| `part_generated` | are generated notes cleaned up? | notes an octave apart, two octaves, POLY and MONO, arpeggiator and note sequence with rests, gates and ties |
| `link` | is every command executed once, whole, in order; do the pauses suffice; bus sharing | 2 cards, one per buffer; buffers of 2 (31 in the code) so that they fill; cards in the middle of a command at power up; at most 2 commands in flight |
| `midi` | in: messages whole, pass-on parses, SysEx executed exactly for its own transfer; out: what is not lost is whole | in: the bytes 144, 240, 247, 248, 1, 16, 17: a channel status, SysEx start and end, a realtime byte and data that are commands, nibbles and header at once; a header of 2 bytes (6), objects of 1 byte. Out: buffers of 3 and 1 bytes, five plans that together use every mode |
| `multi` | voices disjoint; note off follows note on; edits arrive and stay in range; boots with whole blocks | 2 parts, 2 mappings besides the default, buffer of 4 bytes, the address repeated every 2 edits; sessions that each allow a few kinds of events, so that every kind meets those it shares state with |
| `panel` | events meet their page, edits meet an instance, settings are saved, the browser is right | eight sessions of two to four pages each, which together visit every page and use every key; a queue of 1 or 2 events (8), so that it fills; 1 bank of 2 slots |
| `voice` | release, glide, sync, table reads | blocks of 4 samples, 2 envelopes, a buffer of one block; tables of few values with the extremes of the real ones; one session for notes, one for glides, four for sync, one for every shape at three parameters, twenty for the zones of the keyboard, four for the voice LFO |
| `devices` | do updates end whole; are the nunchuk's notes held? | a file of two pages and a byte (33 bytes, pages of 16), 2 power losses, one stray page; MIDI update of 3 pages of 2 bytes with 2 faults; 2 channels, 2 steps, lists of 2 notes |
| `part_chain_aftertouch` | violation, see section 7 | 1 voice in CHAIN |
| `sysex_header` | violation, see section 7 | two parts, small objects |

The bounds in guards are `MaxPending`, `MaxLag`, `MaxAge` (link), `MaxPass` (clock),
`MaxTick` (LFOs), `MaxPassTicks` (refresh), `MaxPages`, `MaxStrayPages`,
`MaxPowerLosses`, `MaxFaults` (firmware), `MaxPicks` (nunchuk), and what a session or
a plan allows (`multi`, `panel`, `voice`, `midi`). `multi` and `panel` disable the
deadlock check, because a session ends when its player has nothing left to do;
the other runs do not.

Conditions stated in the properties, where the code needs them:

* *Keys enough* (`Part!EnoughKeys`): with E entries of the allocator, 2(E-1)
  keys can be more recent than a note that still sounds, and `pressed_keys_` has
  12 entries. It holds for all modes but CHAIN with four voices and more.
* `part_keys` and `part_modes` keep the scale and the arpeggiator mode fixed or
  without notes of its own; `part_generated` has no restart while the sequence
  plays. Section 7 says what happens otherwise.
* MONO, POLY, CYCLIC, UNISON_2X and CHAIN are set by the panel or a program; the
  mode messages of MIDI do not reach a part, since `MidiDispatcher` does not
  handle them.
* Link times: `BlockDelay`, `PauseDelay` are `ConstantDelay(5)` and `(1)`,
  scaled with the buffers. In the real unit the delay of 5 ms is 195 timer ticks;
  the worst case before the card reads the block command is 62 ticks (a full
  buffer, every second tick), two passes of its main loop (2 x 40) and 2 more:
  144. The timers have the same nominal rate and are not synchronised: a card
  polls at least once in `MaxLag` ticks. `SettleDelay` is an assumption: after
  a bus transaction nothing in the code makes the next command wait; the callers
  go on with the display or the EEPROM. A card caught in the middle of a block
  at power up is excluded: sync bytes cannot complete a block.
* Clock: `TicksKeepTime` says when a tick can be lost: when it comes while
  `num_clock_events_` is being stored, which takes a pass of the main loop longer than
  a clock tick; and what "when it is due" means: by the duration of the step, or of the
  first step from a change of tempo to the next step, or the one that is being replaced,
  unless both bytes are being rewritten. Nothing is assumed of the length of a pass; that
  256 waiting ticks read as none is in the property (and in the theorem), while passes as
  long as that are not in the run. `IdleClockStops` is checked with passes of up to 8 timer
  ticks; a main loop that always took exactly 256 clock ticks would never count one.
* LFO updates: a pass is short enough for the counter to stay in one byte
  (`RefreshAssumption`); longer ones tear it, see section 7. `LfosKeepTime` is
  checked with one synced LFO; two divide by zero (section 7).
* `ExecutesWholeTransfers` excludes a SysEx cut within its header and ended at once.
  `NextUnitFollows` excludes three bytes at the moment they come in
  (`PassesOnMore`), not what they leave behind.
* `StuckOnlyAfterRemap` says what its name says: a part whose channel or range
  changes while a key is down does keep the note. `EditsArrive` is about a
  receiving unit that takes CC and NRPN.
* `BytesStayInRange` is about edits; files and SysEx load any bytes.
* `BootsWithWholeBlocks`: a power loss may leave a multi whose parts are some old,
  some new, each of them whole; a checksum of 8 bits is taken to tell a torn block.
* Storage: an operation finds the card usable or not as a whole.
  `EditedContentIsKept` is about what the operations of the storage on this program
  replace: SysEx and objects that share the part's flag take no snapshot, which a history
  variable records (`origin`). It also excludes stepping in the version manager when it came to
  this program by a change of part.
* The bootloader of the controller: only in the message after one whose end was lost is
  its buffer overrun (section 7); `BlocksArriveWhole` says so, and nothing of the loader
  after that.
* `ReadsOwnTables`, `SyncFollowsMaster`, `ReleasedFallsSilent` exclude the cases of
  section 7; `UpdateEndsWhole` leaves out a copy whose file could not be opened.

Every property of every passing run is also checked against a fault in one
definition (`mutants` in `PROJECT.json`), under the same configuration.

## 5 Fairness

* Arpeggiator, `WF(StepArpeggio)`: while a key is pressed `Multi` keeps clocking
  the part, and every arpeggio pattern has a note in it. `PlaysEveryKey` assumes in
  its statement that from some moment on keys and settings are left alone.
* Link, `WF` of the main loop's next instruction, of the controller's timer, and
  of each card: interrupts keep coming and the main loops have no other wait.
  Nothing obliges the controller to issue commands.
* Clock, `WF(Tick)` and `WF` of the main loop's work. Keys and messages are not
  fair. `IdleClockStops` assumes that start messages do not keep coming.
* Voice, `WF` of the main loop passing from rendering to messages and back, which
  never waits, and of the timer interrupt. Commands are not fair.
* Firmware, `WF(VoicecardRuns)`: the processor of a voicecard runs while it has
  power; `WF(PowerCycle)`: a unit whose voicecard is silent is turned off
  and on again some day. Power losses and the user's keys are not fair.
* The other specifications are safety only.


## 6 Proofs

All statements hold for every value of the constants under the assumptions named
in the modules; TLC evaluates these in the runs. Each proof follows the same plan:
an inductive invariant, which is the property and what it rests on, one lemma per
operation, and for an action property its consequence for one step.

**PlayingProofs**: the allocator (with `OrderLemmas`, on minima and on moving an element
to the front). `AllocInv` adds to the types that `lru_` is a permutation of the
voices, and that no two entries hold the same note unless the later one is still
cleared. The second part is why a note is active on one voice and why `NoteOff` may
look it up without its active bit: neither is inductive alone, because a released
voice that still holds its note is invisible to them. `Touch` is the delicate
operation. `ImplementsVoicePool`: initial states and steps of the allocator with
its history map to `VoicePool`, so the voice taken is the least recently used
(`UseInv` relates `lru_` to the times of use), a change of size to `Resize`; only
without cyclic mode.

The clock, in the same module. `ClockKeepsTime`, for any duration table, any passes of the
main loop and any width of the counter of waiting ticks: a tick is processed or waits, but
for those that come between a load and its store in a pass that outlasts a tick, and comes
when it is due but on a torn duration. `DurationInv` says which of the two
bytes of `tick_duration_` is already the new one at each point of the main loop;
`OwedInv` that what is owed and what is counted differ by a multiple of the counter's
width (`Same`), and by the tick in progress and those missed while the main loop is
between them; `YoungInv` that the clock counter is younger than the pass when a tick
waits, so that a second one in the same pass makes the pass longer than a tick. `LfoRateKept`
does the same for the counter of the LFO updates.
`LfoClocksKept`: the phase arrives where the next clock sets it, for any cycle length,
when at most one LFO follows the clock; with two, it is false (section 7). The
arpeggiator, there too: its position is in range for all numbers of keys and octaves,
inductive as it stands, with a lemma for restarting, moving and turning. From it each
step reads a pressed key, `StepArpeggio` calls itself at most once, and no note is
repeated.

**NoteStackProofs**, for any capacity and any notes. `StackOK` says that the linked list
visits each occupied slot once (`Lists`), that the sorted view names the same slots, each
once, that no note is in two slots, and that free slots are clean. No part is
inductive alone: `NoteOff` unlinks by the list what it takes out of the pool, and the
position it takes out of the sorted view must exist. `ListImplementsKeyStack`: read along
the list (`Contents`), a note on, with the eviction of the oldest key and the release of
the same key before it, is one step of `KeyStack`, and so are a note off, a mark of the
pedal and a clear; `PartKeepsKeys` says the same of the stack that shares its storage
with the voice allocator. Links leave no choice of where to go next, so the list is the only
sequence that follows them (`ListingFacts`).

**PartProofs**, for any number of voices, key slots and notes, any scale and any
range of the arpeggiator. `PartOK` is the inductive invariant: the stack of keys and
the allocators are in order (`StackOK`, and of the pool what `AllocInv` says, kept
through a change of size), every sounding voice is one of the part's and stands in its
allocator with its note (`VoicesOK`). In UNISON_2X with an odd number of voices, the
last entry sounds on a voice it borrows from the first, which `VoicesOK` has to name.
Each handler that goes over all keys (the pedal, the chords, the release of sustained
notes) is a recursive function over positions; one step keeps the invariant, and the
least position at which it fails gives the contradiction. From it `VoicesFollow` and
`AftertouchReaches`, both outside cyclic mode. `Tidy` adds for generated notes that
what sounds on the voices and at MIDI out is the one note remembered, or nothing;
it is inductive under `Generates`, which says what the run `part_generated` does:
the arpeggiator without its chord direction, or the note sequence, is on, not in
cyclic mode, and no start message comes while it plays (the cases of section 7).
`GeneratedStaysRemembered` and `QuietWhenReleased` follow.

**PanelProofs.** The versions, for any number of them. `HistoryInOrder` is inductive
with the types: a snapshot creates at most one new pair of neighbours, the file
before it and its own, which is the newest, and the gap after it removes the pair
that would be out of order. `EditsAreKept` needs two more facts: an edit not yet
saved is marked by the user-change flag (`Marked`), and a version manager entered
with a snapshot has no unsaved edit in it (`SavedInManager`).

The panel, for any sessions: any turns, keys, pots, notes and program changes, any
lengths of the sequences, any size of the card and of the queue. The four properties
come from one invariant, `PanelInv`, because they need each other: a page edits what
exists only if the numbers chosen by other pages and the assignments of the knobs are
in range (`ChoicesOK`, `KnobsOK`), if the encoder's control is one with a parameter
(`ControlOK`), and if a handler is never called on a page it is not made for, which is
what the queue is flushed for (`Waiting`). The settings can only be edited on their page,
so they are saved as soon as every way out of it passes through `PageOnKey` (`WhereOK`:
no page is being opened while they are not). The library shows what it has loaded in
the states where it browses (`LibOK`). Each handler of a page has a lemma: it keeps the
state and either leaves the player where he is (`Stays`) or has asked for a flush
(`Follows`); `HandledFollows` puts them together as `DoEvents` does. What a handler
edits is read in the tables of pages and parameters, which are taken apart once
(`PagesOK`, `TableFits`). Recursions over parts and over the parameters are shown to
have a function (`RecursionDefined`) and then followed to the least bad position.

**MultiProofs**, for any number of parts and voicecards. `VoicesOwnedOnce` is
inductive with the types: `SolveAllocationConflicts` only takes voices away, and
leaves no voice to two parts whatever it starts with; a pot may give a part what
`Available` says because that is what no other part claims. `StuckOnlyAfterRemap`
is inductive too: a note off reaches the parts that the note on has reached, unless
their mapping changed. `BootsWithWholeBlocks` needs `WritingInv`, that the blocks
before the one being written are stored with their checksums while the multi rests,
and `KeptInv`, that a multi which was saved whole is still there; then it follows
for one boot, since solving the conflicts of a mapping that has none changes nothing.

`EditsReachTheirParts`, for any rate of resending and any room in the output buffer.
`EditInv` looks ahead: while the address was sent more recently than anything was lost
(`Told`), each part that hears its channel will, once it has been handed all that is on
the wire, stand at that address, and the one that was edited will have the value there
(`Reached`). What a sequence of messages makes of a part is a function over positions
(`Follows`); a message sent extends it (`OneMore`), one delivered shortens it
(`OneLess`), and the four controllers of an edit are followed one by one
(`AddressFollows`, `DataFollows`). What the buffer may lose is a recursive function of
sets, followed by induction (`SentFacts`).

**MidiProofs.** `HandsOverWholeMessages` is about the parser that feeds all parts, for
any stream of bytes: the invariant, `ParserFollows`, says that after the status of a
channel message the parser holds that status, its number of data bytes, and exactly
the data bytes that came since; `DataOfChannel` and `StatusOfChannel` say what one
byte makes of it. `NextUnitFollows` needs only that the next unit is in a SysEx when
this one is (`NextInv`): every other message is passed on from its status byte, after
which it does not matter what the parser of the next unit held (`Reparsed`).

`OutputStaysWhole`, for any sizes of the two buffers, any uses and any bytes lost: in
`PortsInv`, what waits in the buffer is chained (`Linked`: an entry that is not first in
its message follows the one before it, unless it is marked as cut), the next unit's
parser stands where the bytes that came out leave it (`NextWaits`), and during a
transfer the buffer and what is still to be written are together what is left of the
object (`Transfer`). `SendsKeep` follows a message through the buffer by induction over
its bytes. A realtime byte changes nothing for the next unit (`RealtimeKeeps`), as the
parser it goes through is the one of the input.

**DeviceProofs.** `NunchukHoldsItsNotes`, for any scale, cycle, list and pitch.
`BoxOK` is inductive: all that sounds is on the channel in use (`OnItsChannel`), and
unless a button has forgotten a note (section 7), the application in the foreground
knows it (`Knows`): none for the Drummer, the note of the active step for the
sequencer, the list for the Droner, with the note under the cursor while it is chosen.
`UpdatesEndWhole`, for any size of page and of file. `PhaseInv` has one condition for
each place of the controller's program: nothing of the file is sent before its
bootloader has answered (`Answered`: the last confirmation tells who listens), from
then on the voicecard has the pages before this one and the bytes of its buffer
(`InStep`), or a full page (`PageFull`), or the last one (`LastPage`). The assumption
`2 <= kSyncCommands` is needed (240 in the code): the command that ends the update
counts as one of those that a bootloader in "sync" waits for. `BusIsTheSdCards`, for any
number of voicecards and any commands: a program that gives the bus to the card is
always one that has flushed the buffers just before, and puts nothing into them after
(`FlattenType` takes the programs apart, instruction by instruction).

`BlocksStayWhole`, for any size and number of the pages, and any damage. `LoaderInv`
says where the loader is when the byte at some position of a message is next
(`Following`): in step with the message (`InTime`); out of step, since a byte of it was
lost or damaged, and then what it has read is too short, has another command, or is
wrong at exactly one place (`OutOfTime`); or, when the end of the message before was not
seen, still taking this one for the rest of that block (`Behind`). The sum decides:
a block that differs at one place has another sum (`OtherSum`), one that was cut has too
few nibbles, one that ran on has too many, unless the very next byte reads as the end.
One of those is then written, and it is the whole block of the message before. In step and
out of step alike, the loader has read no more nibbles than were sent of the message, so
that the buffer has room (`FollowingFits`); behind, it may run over. The nibbles
received are followed by `Collected`, and sums and the bytes sent are recursive
functions over a block of any length.

Only model-checked:

* liveness: `PlaysEveryKey`, `IdleClockStops`, `ReleasedFallsSilent`,
  `LoaderComesBack`, and the progress in `ImplementsChannel`; the prover has no
  rule for fairness;
* `Part`: `SoundingNotesAreOwned` and `PedalUpKillsSustained`. That a sounding note is
  still among the pressed keys needs a bound on how many keys can be more recent than
  it (section 4, *keys enough*), so the history of the LRU order of the entries
  against the order of the keys; the bound is argued there and only checked. CHAIN's
  aftertouch is a violation;
* `ForwardIsRedo`, which looks along the history, and `ExecutesWholeTransfers`, which
  passes over a whole transfer: inductions over data, see below;
* `BytesStayInRange`, over the table of 75 parameters, which the provers would have to
  take apart case by case;
* the order in the link, the SysEx reception and the voices: not proved yet.

The library's induction theorems take an operator as a parameter, which the installed
provers cannot instantiate. Where a recursive function goes over positions with an
invariant, the proofs here use the least position at which it fails, or induction over
a set of positions, and the existence of the function is proved from a set of its
initial segments (`OrderLemmas`: `InductionUpTo`, `RecursiveFunction`).

## 7 Where the code and its comments disagree

Shown by a run:

* `part_chain_aftertouch`: `Part::Aftertouch` halves the allocator's size in CYCLIC
  mode (`part.cc:481`), but it is in CHAIN mode that the upper half stands for the
  chained unit. The aftertouch of a forwarded note indexes `allocated_voices_`
  beyond its end; in CYCLIC mode the upper voices never get theirs.
* `sysex_header`: `SysExSendRaw` reads program memory at the *value* of each byte of
  the header (`storage.cc:347`, `pgm_read_byte(sysex_header[i])`), where `SysExReceive`
  reads it at the byte's address (`storage.cc:781`): what is sent does not begin with
  the header that reception waits for, against `storage.cc:45-47`. The other runs take
  transfers with the header.

Met while modelling; the conditions of the properties exclude these cases, or name them.

*Parts and time.*

* Two synced LFOs: `Part::Clock` resets the measured tick duration inside its loop
  over the LFOs (`part.cc:595`, comment at 592-593); the second one divides by zero.
* CHAIN with four voices or more: a key pressed under the pedal can evict a
  sustained note from `pressed_keys_`; releasing the pedal leaves it sounding
  (`part.cc:379-386`, "Kill all the sustained notes").
* CYCLIC: a freed entry (0xff) reads as note 127 being played
  (`voice_allocator.cc:107`).
* CHAIN: releasing the last key of an arpeggio does not end the note forwarded to
  the chained unit (`part.cc:532`); leaving CHAIN leaves forwarded notes.
* A start message while the sequence plays forgets the generated note without
  ending it (`part.cc:604`, against `part.cc:826`).
* Chord direction: `AllNotesOff` clears `pressed_keys_` before its loop over
  them that would send note offs to MIDI out (`part.cc:531`).
* After a start the first note of an arpeggio is that of the second position
  (`part.cc:865`; `multi.h:171-172` speaks of the first step).
* `NoteOff` drops notes outside the scale chosen meanwhile: a stuck note
  (`part.cc:333`).
* A synced LFO in master mode retriggers its envelope at each update of the tick
  that begins its cycle (`part.cc:784`), which restarts a voice after its release.
* `lfo_previous_values_` is not reset when voices are reassigned (`part.cc:771-776`): a
  new voice gets no value until it changes.
* MIDI System Reset gives the voices the init patch while the parts keep theirs until
  the next Touch (`part.cc:567`).
* `UpdateClocks` decrements `num_clock_events_` non-atomically (`multi.cc:227`): a
  tick that comes in between is lost. It takes a pass of the main loop that outlasts a
  clock tick, which writing to the card or to the EEPROM and the delays do.
* Between the two bytes of `tick_duration_` (`multi.cc:163`) the interrupt compares with
  neither the old nor the new duration. Two durations of a groove on either side of a
  multiple of 256 (255 and 256) have 0 as a half: the tick in progress ends at once.
  A start and a change of tempo write it at any moment of a tick, a step of the groove
  when the main loop comes to it.
* The counter of LFO updates is compared and decreased in two bytes while the
  interrupt counts (`multi.cc:215-217`): after a pass of 216 timer ticks (5.5 ms) and
  more, updates come at another rate than "39kHz / 40" (`multi.h`).
* `SetValue` and `GetValue` with an address of 112 and more index beyond the patch and
  rely on the part's data to follow it.

*Voicecards and link.*

* `FlushBuffers` may take 62 ticks, 1.6 ms (`voicecard_tx.h:127`, "This can take up
  to 1ms").
* Wavequence with a parameter of 80 and more reads past its table, and a voice LFO
  shape of 4 and more past its waveforms, which files and SysEx may contain.
* Some algorithms write no sync flags (pulse, none, vowel, filtered noise): an
  oscillator synced to them follows those of an earlier one. A phase that lands on 0
  exactly is flagged twice.
* A vowel is updated on three calls of four, against `oscillator.h:55`, "Update only every
  kVowelControlRateDecimation-th call".
* `osc_2.Reset` writes into the memory that the algorithms share. The interrupt may read
  the VCA between the loading of the sources and the matrix. A glide is frozen while the
  VCA is below 2.

*MIDI and storage.*

* A realtime byte in the middle of a message is passed on with that message's data
  (`midi.h:184`, against `midi.h:111-112`).
* A message of this unit that is sent while a SysEx is passed on byte by byte
  (`midi_dispatcher.h:292`) cuts it for the next unit, which takes the rest for data of
  controllers.
* A SysEx cut within its header and ended at once is compared with the size and
  checksum an earlier transfer has left, and may execute its command
  (`storage.cc:788`, `816-822`).
* A received PROGRAM has nowhere to go: `mutable_object_data` is null, and `ReadObject`
  copies to it. `Load` takes the size of a NAME chunk from the file.
* The second encoder or a program change moves the open version manager to
  another program without a snapshot (`ui.cc:320-323`); stepping then discards
  its unsaved edits, and entering it with a change of part still queued snapshots the
  other part.
* The user-change flag is one per part: loading the patch clears the mark of edits
  to the sequence (`part.cc:165`), and a later program load takes no snapshot.
  The same for objects received by SysEx, and edits by MIDI controllers do not
  set it.
* Initialising a program with an unusable card loses its edits, since `Snapshot`
  reports no failure; and a version that was browsed to and not kept is
  overwritten by the next snapshot.
* A checksum of 8 bits may accept a torn block by chance.

*Panel.*

* `snapped_` stays set when the active part or instance changes; the dialog of the
  library keeps its part only until shift and the encoder change it; a program change
  while the save page is open changes its target.
* A single value of `inhibit_switch_` serves two modifiers. `OnNote` of the voice
  assigner is subject to snap. `MidiDispatcher::OnEdit` keeps one address for all
  channels (`midi_dispatcher.h:269-275`): the parameter last edited, edited on a part of
  another channel, goes out without its address, and there to the parameter of an earlier
  edit, until the address is sent again (32 edits).
* `os_info_page` clips its selection to `kNumVoices`, one too many.

*Firmware and nunchuk.*

* "After 3 unsuccessful boots" (the voicecard's bootloader): it takes five.
* If `SpiCopy` cannot open its file, the page's next traffic is recorded as firmware;
  with the card pulled it never ends; its result is ignored.
* The controller's bootloader clears its flag before the update from the card: a power
  loss leaves half-written firmware that is run.
* The blocks of the MIDI update carry no number, so a lost one shifts the later pages;
  a byte that breaks the match of the header is not looked at again.
* The reception buffer of the controller's bootloader has room for two blocks
  (`bootloader.cc:50`) and is written without a bound check (`bootloader.cc:184`, `190`).
  When the end of a block's message is lost, the loader takes the whole next message for
  more data, since a status byte in it is ignored: 514 nibbles, 7 of the header and the
  command, and 514 more, which is 518 bytes in a buffer of 514.
* Z released while C is held changes the channel and leaves `recording_mode_` set; the
  Droner then forgets the note that was being chosen, and it forgets all of them when
  its list wraps.

## 8 Not modelled

* Samples, filters, the display, the LEDs, the contents of the resources, the build
  scripts and the hardware: data without control that the properties could be about.
* Within modelled parts: tuning, legato flags and velocities beyond the stack of keys;
  step sequences 1 and 2; the text of values and the entry of names; reads that fail in
  the middle of a file; power cuts inside one storage operation on the SD card; the bus,
  the pitch bend and the controllers of the nunchuk; the computation of tick durations.
* Traffic that reaches the bootloader of a voicecard from other pages comes in whole bytes,
  that is pairs of nibbles (`Firmware!UpdateScreen`, whose request is eight bytes long): a
  loader left in the middle of a pair, by a command of one byte or by bytes missed while it
  writes to its flash, is not modelled. What the controller's loader does after it has
  overrun its buffer is not either: it depends on where the linker puts its variables.
* `avrlib` (ring buffers, SPI, file system, delays) is not in the repository; what
  the code relies on is modelled from its use and marked external in the map.
