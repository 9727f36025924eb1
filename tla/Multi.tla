-------------------------------- MODULE Multi --------------------------------
(***************************************************************************)
(* The multi: which channel, key range and voicecards each part has        *)
(* (controller/multi.h, multi.cc), how notes are routed to parts by that   *)
(* mapping while it changes, where the edits of a part go (EditLink), and  *)
(* how the multi and the system settings are kept in the EEPROM            *)
(* (storage.cc, system_settings.cc), which can lose power at any byte.     *)
(***************************************************************************)
EXTENDS EditLink

CONSTANTS
    Voices,         \* the voicecards, 0..(kNumVoices - 1)
    Default,        \* the mapping of init_settings
    Mappings,       \* the mappings that can be loaded: bound
    Channels,       \* MIDI channels in use, 0-based: bound
    Versions,       \* contents a block of memory can have: bound
    Sessions        \* what is exercised: bound, see SessionFields

SessionFields ==
    { "map",        \* the mapping it starts with
      "mode",       \* midi_out_mode
      "edits",      \* edits of parts: [part, address, values]
      "backlog",    \* messages that may wait when an edit is made
      "others",     \* what the other unit gets from elsewhere: <<controller, value>>
      "inits",      \* what its player resets or randomizes
      "meddling",   \* how often, at most, the last two happen
      "keys",       \* the notes played
      "remaps",     \* values of midi_channel, low and high: <<field, value>>
      "voices",     \* the voices clicked on the voices page
      "blocks" }    \* the blocks of memory that are edited and saved

\* PartMapping, of every part.
RemapFields == {"midi_channel", "low", "high"}
Maps == [Parts -> [midi_channel : Nat, low : Nat, high : Nat, voices : SUBSET Voices]]
ClaimedOnce(map) == \A p, q \in Parts : p # q => map[p].voices \cap map[q].voices = {}

\* The blocks of the EEPROM: for each part its data and its patch, then the multi; the
\* settings are on their own.
kNumBlocks == 2 * kNumParts + 1
kSettings == kNumBlocks + 1
Areas == 1..kSettings
MultiBlocks == 1..kNumBlocks

\* Of a byte that is a parameter's, or the sequence's, to a value in range.
IsEdit(mode, e) ==
    /\ e.part \in Parts /\ e.address \in 0..(kPatchSize + kPartSize - 1)
    /\ e.values \subseteq 0..255
    /\ AddressToParameterId(e.address) # kNoParameter
    /\ \A v \in e.values : LET value == Remapped(mode, e.address, v)
                           IN /\ value \in 0..255
                              /\ Clamp(parameter(AddressToParameterId(e.address)), value) = value

ASSUME MultiAssumption ==
    /\ kNumParts <= 255 /\ Voices \subseteq Nat
    /\ Default \in Maps /\ ClaimedOnce(Default) /\ Mappings \subseteq Maps
    /\ "default" \in Versions /\ Channels \subseteq 0..15
    /\ \A x \in Sessions : /\ DOMAIN x = SessionFields /\ x.map \in Maps
                           /\ x.remaps \subseteq RemapFields \X Nat
                           /\ x.voices \subseteq Voices /\ x.blocks \subseteq Areas
                           /\ x.inits \subseteq {"patch", "sequence", "part"}
                           /\ \A e \in x.edits : IsEdit(x.mode, e)

VARIABLES
    mapping,    \* for each part: midi_channel (0: omni), low, high, and its voices
    assigned,   \* allocated_voices_ of each part
    pressed,    \* the keys of the stack of each part
    down,       \* the keys a player holds: <<channel, note>>
    moved,      \* history: <<part, note>> pressed when the part was remapped
    memory,     \* the data and the patch of each part, and the settings, in RAM
    rom,        \* the same and the mapping in the EEPROM, each with its checksum
    power,      \* "on", "off", or "writing": in WriteMultiToEeprom or Save
    place,      \* the block being written, and the step
    kept,       \* history: the multi and the settings last saved whole, if still there
    session

multiVars == <<mapping, assigned, pressed, down, moved>>
memoryVars == <<memory, rom, power, place, kept>>
vars == <<editVars, multiVars, memoryVars, session>>

-----------------------------------------------------------------------------
(* PartMapping.                                                            *)

receive_channel(m, channel) == m.midi_channel \in {0, channel + 1}

\* A range whose ends are swapped is all the notes outside.
accept_note(m, note) ==
    IF m.low <= m.high THEN note >= m.low /\ note <= m.high
    ELSE note <= m.high \/ note >= m.low

accept_channel_note(m, channel, note) == receive_channel(m, channel) /\ accept_note(m, note)
tx_channel(m) == IF m.midi_channel = 0 THEN 0 ELSE m.midi_channel - 1

Receivers(channel) == {p \in Parts : receive_channel(mapping[p], channel)}

-----------------------------------------------------------------------------
(* Voices.                                                                 *)

NoConstraint == 255

\* A voice claimed twice stays with the first part; constraint is left out, and gets what
\* no other part has.  The new mapping.
VoicesBefore(map, p, constraint) ==
    UNION {map[q].voices : q \in {q \in Parts \ {constraint} : q < p}}
SolveAllocationConflicts(map, constraint) ==
    [p \in Parts |-> IF p = constraint THEN map[p]
                     ELSE [map[p] EXCEPT !.voices = @ \ VoicesBefore(map, p, constraint)]]

\* Fault: one part less.
Available_ButLast(map, constraint) ==
    Voices \ UNION {map[q].voices : q \in (Parts \ {constraint}) \ {kNumParts - 1}}

Available(map, constraint) == Voices \ UNION {map[q].voices : q \in Parts \ {constraint}}

\* Part::AssignVoices of every part, AllSoundOff included.
AssignVoicesToParts(map) ==
    /\ mapping' = map
    /\ assigned' = [p \in Parts |-> map[p].voices]
    /\ pressed' = [p \in Parts |-> {}]
    /\ moved' = {}

Touch(map) == AssignVoicesToParts(SolveAllocationConflicts(map, NoConstraint))

\* VoiceAssigner::OnClick: a voice of another part is taken from it.
Clicked(map, part, voice) ==
    LET freed == IF voice \in map[part].voices THEN map
                 ELSE [p \in Parts |-> [map[p] EXCEPT !.voices = @ \ {voice}]]
    IN [freed EXCEPT ![part].voices = IF voice \in map[part].voices THEN @ \ {voice}
                                                                    ELSE @ \cup {voice}]
ClickVoice(part, voice) ==
    /\ AssignVoicesToParts(SolveAllocationConflicts(Clicked(mapping, part, voice), NoConstraint))
    /\ UNCHANGED <<editVars, down, memoryVars, session>>

\* VoiceAssigner::OnPot: each of three pots chooses among two voices.
TurnVoicePot(part, pot, chosen) ==
    LET solved == SolveAllocationConflicts(mapping, part)
        two == {2 * pot, 2 * pot + 1}
        new == ((mapping[part].voices \ two) \cup chosen) \cap Available(solved, part)
    IN /\ chosen \subseteq two
       /\ IF new = mapping[part].voices
          THEN mapping' = solved /\ UNCHANGED <<assigned, pressed, moved>>
          ELSE AssignVoicesToParts([solved EXCEPT ![part].voices = new])
       /\ UNCHANGED <<editVars, down, memoryVars, session>>

\* A multi from the card or from SysEx: any bytes, then Touch.
Load(map) ==
    /\ Touch(map)
    /\ Rechannelled
    /\ UNCHANGED <<down, memoryVars, session>>

-----------------------------------------------------------------------------
(* Messages from MIDI, routed to the parts.                                *)

NoteOn(channel, note) ==
    /\ <<channel, note>> \notin down
    /\ down' = down \cup {<<channel, note>>}
    /\ pressed' = [p \in Parts |-> IF accept_channel_note(mapping[p], channel, note)
                                   THEN pressed[p] \cup {note} ELSE pressed[p]]
    /\ moved' = {x \in moved : ~(x[2] = note /\ accept_channel_note(mapping[x[1]], channel, note))}
    /\ UNCHANGED <<editVars, mapping, assigned, memoryVars, session>>
\* Fault: the key range is tested as if it did not wrap.
AfterNoteOff_NoWrap(channel, note) ==
    [p \in Parts |-> IF /\ receive_channel(mapping[p], channel)
                        /\ note >= mapping[p].low /\ note <= mapping[p].high
                     THEN pressed[p] \ {note} ELSE pressed[p]]

AfterNoteOff(channel, note) ==
    [p \in Parts |-> IF accept_channel_note(mapping[p], channel, note)
                     THEN pressed[p] \ {note} ELSE pressed[p]]

NoteOff(channel, note) ==
    /\ <<channel, note>> \in down
    /\ down' = down \ {<<channel, note>>}
    /\ pressed' = AfterNoteOff(channel, note)
    /\ moved' = {x \in moved : x[2] \in pressed'[x[1]]}
    /\ UNCHANGED <<editVars, mapping, assigned, memoryVars, session>>

\* AllNotesOff and AllSoundOff, which forget the keys alike.
AllOff(channel) ==
    /\ pressed' = [p \in Parts |-> IF p \in Receivers(channel) THEN {} ELSE pressed[p]]
    /\ moved' = {x \in moved : x[1] \notin Receivers(channel)}
    /\ UNCHANGED <<editVars, mapping, assigned, down, memoryVars, session>>

\* What changes a mapping without Touch: the keys pressed stay pressed.
Remap(parts, field, value) ==
    /\ mapping' = [p \in Parts |-> IF p \in parts THEN [mapping[p] EXCEPT ![field] = value]
                                   ELSE mapping[p]]
    /\ moved' = moved \cup {x \in parts \X session.keys : x[2] \in pressed[x[1]]}
    /\ Rechannelled
    /\ UNCHANGED <<assigned, pressed, down, memoryVars, session>>

OmniModeOff(channel) ==
    Remap(Receivers(channel), "midi_channel", channel + 1)
OmniModeOn(channel) ==
    Remap(Receivers(channel), "midi_channel", 0)

\* Multi::SetValue of a channel or of an end of a key range.
SetValue(part, field, value) ==
    /\ mapping[part][field] # value
    /\ Remap({part}, field, value)

-----------------------------------------------------------------------------
(* The EEPROM.                                                             *)

\* The bytes of a block: those of some content, or neither the old nor the new.
Content(b) == IF b = kNumBlocks THEN <<mapping>> ELSE memory[b]
DefaultContent(b) == IF b = kNumBlocks THEN <<Default>> ELSE <<"default">>
Torn == <<>>

\* A block cut in the middle has a checksum of its own.  That a sum of 8 bits agrees with it
\* by chance is left out.
Checksum(content) == content
IsWhole(block) == block.content # Torn /\ block.sum = Checksum(block.content)

Edit(b, version) ==
    /\ memory' = [memory EXCEPT ![b] = <<version>>]
    /\ UNCHANGED <<editVars, multiVars, rom, power, place, kept, session>>

Begin(what, b, step) == power' = what /\ place' = [block |-> b, step |-> step]

\* WriteMultiToEeprom, from block 1, and SystemSettings::Save.
Save(b) ==
    /\ Begin("writing", b, "first_byte")
    /\ kept' = [a \in Areas |-> IF (a = kSettings) = (b = kSettings) THEN Torn ELSE kept[a]]
    /\ UNCHANGED <<editVars, multiVars, memory, rom, session>>

\* The bytes of a block, then its checksum.
Written(b, step) ==
    CASE step = "first_byte" ->
             IF rom[b].content = Content(b) THEN rom ELSE [rom EXCEPT ![b].content = Torn]
      [] step = "last_byte" -> [rom EXCEPT ![b].content = Content(b)]
      [] step = "checksum" -> [rom EXCEPT ![b].sum = Checksum(Content(b))]

WriteStep ==
    LET b == place.block
        last == b \in {kNumBlocks, kSettings} /\ place.step = "checksum"
    IN /\ power = "writing"
       /\ rom' = Written(b, place.step)
       /\ CASE place.step = "first_byte" -> Begin("writing", b, "last_byte")
            [] place.step = "last_byte" -> Begin("writing", b, "checksum")
            [] last -> Begin("on", 1, "first_byte")
            [] OTHER -> Begin("writing", b + 1, "first_byte")
       /\ kept' = [a \in Areas |-> IF last /\ (a = kSettings) = (b = kSettings)
                                   THEN Content(a) ELSE kept[a]]
       /\ UNCHANGED <<editVars, multiVars, memory, session>>

PowerLoss ==
    /\ power # "off"
    /\ Begin("off", 1, "first_byte")
    /\ UNCHANGED <<editVars, multiVars, memory, rom, kept, session>>
\* Fault: each block overwrites what was found of those before.
LoadMultiFromEeprom_Last == IsWhole(rom[kNumBlocks])

\* LoadMultiFromEeprom: whether every block agrees with its checksum.
LoadMultiFromEeprom == \A b \in MultiBlocks : IsWhole(rom[b])

\* SystemSettings::Init.
SettingsAtBoot(shifted) ==
    IF IsWhole(rom[kSettings]) /\ ~shifted THEN rom[kSettings].content
    ELSE DefaultContent(kSettings)

\* controller.cc, Init and Multi::Init; with the first switch held, everything is reset.
Boot(shifted) ==
    LET loaded == ~shifted /\ LoadMultiFromEeprom
        At(b) == IF loaded THEN rom[b].content ELSE DefaultContent(b)
    IN /\ power = "off"
       /\ memory' = [b \in Areas \ {kNumBlocks} |->
                        IF b = kSettings THEN SettingsAtBoot(shifted) ELSE At(b)]
       /\ Touch(At(kNumBlocks)[1])
       /\ IF loaded THEN Begin("on", 1, "first_byte") /\ kept' = kept
          ELSE /\ Begin("writing", 1, "first_byte")
               /\ kept' = [b \in Areas |-> IF b = kSettings THEN kept[b] ELSE Torn]
       /\ Restarted
       /\ UNCHANGED <<down, rom, session>>

-----------------------------------------------------------------------------
Init ==
    /\ EditInit
    /\ session \in Sessions
    /\ mapping = SolveAllocationConflicts(session.map, NoConstraint)
    /\ assigned = [p \in Parts |-> mapping[p].voices]
    /\ pressed = [p \in Parts |-> {}]
    /\ down = {}
    /\ moved = {}
    /\ memory = [b \in Areas \ {kNumBlocks} |-> DefaultContent(b)]
    /\ rom = [b \in Areas |-> [content |-> Torn, sum |-> Torn]]
    /\ power = IF session.blocks = {} THEN "on" ELSE "off"
    /\ place = [block |-> 1, step |-> "first_byte"]
    /\ kept = [b \in Areas |-> Torn]

EditPart ==
    \E e \in session.edits, v \in 0..255 :
        /\ v \in e.values /\ Len(wire) <= session.backlog
        /\ OnEdit(session.mode, tx_channel(mapping[e.part]), e.part, e.address, v)
        /\ UNCHANGED <<multiVars, memoryVars, session>>

Receive ==
    /\ Deliver(Receivers(Head(wire).channel))
    /\ UNCHANGED <<multiVars, memoryVars, session>>

\* The other unit, on which the player of this one has no influence.
Elsewhere ==
    /\ sender.others < session.meddling
    /\ \/ \E channel \in Channels, x \in session.others :
             DeliverOther(Message(channel, x[1], x[2]), Receivers(channel))
       \/ \E p \in Parts, what \in session.inits : InitPart(p, what)
    /\ UNCHANGED <<multiVars, memoryVars, session>>

Running ==
    \/ EditPart
    \/ Receive
    \/ Elsewhere
    \/ \E channel \in Channels, note \in session.keys :
           NoteOn(channel, note) \/ NoteOff(channel, note) \/ AllOff(channel)
    \/ \E channel \in Channels :
           session.remaps # {} /\ (OmniModeOff(channel) \/ OmniModeOn(channel))
    \/ \E p \in Parts, r \in session.remaps : SetValue(p, r[1], r[2])
    \/ \E p \in Parts, v \in session.voices : ClickVoice(p, v)
    \/ /\ session.voices # {}
       /\ \/ \E p \in Parts, pot \in 0..2, chosen \in SUBSET session.voices :
                TurnVoicePot(p, pot, chosen)
          \/ \E map \in Mappings : Load(map)
    \/ \E b \in session.blocks \ {kNumBlocks}, v \in Versions : Edit(b, v)
    \/ \E map \in Mappings : kNumBlocks \in session.blocks /\ Load(map)
    \/ session.blocks # {} /\ (Save(1) \/ Save(kSettings))

Next ==
    \/ power = "on" /\ Running
    \/ WriteStep
    \/ session.blocks # {} /\ (PowerLoss \/ \E shifted \in BOOLEAN : Boot(shifted))

Spec == Init /\ [][Next]_vars

-----------------------------------------------------------------------------
\* A voicecard belongs to one part at most, and each part plays on the voices that its
\* mapping gives it, whatever was clicked, turned or loaded (voice_assigner.cc, multi.cc).
VoicesOwnedOnce ==
    /\ ClaimedOnce(mapping)
    /\ \A p \in Parts : assigned[p] = mapping[p].voices

\* A key that a part takes as pressed is held on a channel and in a range of the part,
\* except for keys of a part that was moved to other notes while they were pressed: those
\* are the only stuck notes that the routing of multi.h makes.
StuckOnlyAfterRemap ==
    \A p \in Parts : \A note \in pressed[p] :
        \/ \E channel \in Channels : /\ <<channel, note>> \in down
                                     /\ accept_channel_note(mapping[p], channel, note)
        \/ <<p, note>> \in moved

\* Whenever the power went, the unit starts with the factory settings or with blocks that
\* were written whole; and when the last save was not cut, with what was saved, unless the
\* player holds the switch that resets it.
BootsWithWholeBlocks ==
    [][\A shifted \in BOOLEAN : Boot(shifted) =>
        \/ /\ shifted \/ kept[1] = Torn
           /\ \A b \in MultiBlocks : Content(b)' = DefaultContent(b)
        \/ /\ \A b \in MultiBlocks : Content(b)' # Torn
           /\ kept[1] # Torn => \A b \in MultiBlocks : Content(b)' = kept[b]]_vars

=============================================================================
