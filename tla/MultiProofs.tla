----------------------------- MODULE MultiProofs -----------------------------
(***************************************************************************)
(* Proofs about the multi (src/controller/multi.cc, storage.cc): who owns  *)
(* a voicecard, which keys stay pressed when the mapping changes, which    *)
(* part an edit reaches, and what the unit starts with after its power     *)
(* went.                                                                   *)
(***************************************************************************)
EXTENDS Multi, OrderLemmas, SequenceTheorems, TLAPS

VersionBlocks == {<<v>> : v \in Versions}
MapBlocks     == {<<m>> : m \in Maps}
BlocksAt(b)   == IF b = kNumBlocks THEN MapBlocks ELSE VersionBlocks
Blocks        == MapBlocks \cup VersionBlocks \cup {Torn}

MappingTypeOK ==
    /\ session \in Sessions
    /\ mapping \in Maps
    /\ pressed \in [Parts -> SUBSET session.keys]

MemoryTypeOK ==
    /\ memory \in [Areas \ {kNumBlocks} -> VersionBlocks]
    /\ rom \in [Areas -> [content : Blocks, sum : Blocks]]
    /\ \A b \in Areas : rom[b].content \in BlocksAt(b) \cup {Torn}
    /\ power \in {"on", "off", "writing"}
    /\ place \in [block : Areas, step : {"first_byte", "last_byte", "checksum"}]
    /\ kept \in [Areas -> Blocks]

\* The invariant of the mapping: what the first two theorems state is inductive but for types.
MappingInv == MappingTypeOK /\ VoicesOwnedOnce /\ StuckOnlyAfterRemap

-----------------------------------------------------------------------------
(* Voices.                                                                 *)

LEMMA PartsAreNumbers == Parts \subseteq Nat /\ NoConstraint \notin Parts
  BY EditLinkAssumption, MultiAssumption DEF Parts, NoConstraint

\* Two mappings of a part that let the same notes in.
SameNotes(m, n) == m.midi_channel = n.midi_channel /\ m.low = n.low /\ m.high = n.high

\* SolveAllocationConflicts takes voices away, and changes nothing else.
LEMMA Solved ==
    ASSUME NEW map \in Maps, NEW constraint
    PROVE  /\ SolveAllocationConflicts(map, constraint) \in Maps
           /\ \A p \in Parts : SameNotes(SolveAllocationConflicts(map, constraint)[p], map[p])
           /\ \A p \in Parts : SolveAllocationConflicts(map, constraint)[p].voices
                               = IF p = constraint THEN map[p].voices
                                 ELSE map[p].voices \ VoicesBefore(map, p, constraint)
  <1> DEFINE new == SolveAllocationConflicts(map, constraint)
             left(p) == map[p].voices \ VoicesBefore(map, p, constraint)
  <1>1. \A p \in Parts : left(p) \in SUBSET Voices /\ map[p].voices \in SUBSET Voices
    BY DEF Maps
  <1>2. \A p \in Parts : new[p] = IF p = constraint THEN map[p]
                                  ELSE [map[p] EXCEPT !.voices = left(p)]
    BY DEF SolveAllocationConflicts, Maps
  <1>3. \A p \in Parts : p = constraint \/ p # constraint
    OBVIOUS
  <1>4. ASSUME NEW p \in Parts
        PROVE  /\ new[p] \in [midi_channel : Nat, low : Nat, high : Nat, voices : SUBSET Voices]
               /\ SameNotes(new[p], map[p])
               /\ new[p].voices = IF p = constraint THEN map[p].voices ELSE left(p)
    <2> HIDE DEF new, left
    <2>1. CASE p = constraint
      BY <1>2, <2>1 DEF Maps, SameNotes
    <2>2. CASE p # constraint
      <3>1. new[p] = [map[p] EXCEPT !.voices = left(p)]
        BY <1>2, <2>2
      <3>2. QED
        BY <1>1, <2>2, <3>1 DEF Maps, SameNotes
    <2>3. QED
      BY <2>1, <2>2
  <1>5. new \in Maps
    <2>1. new = [p \in Parts |-> new[p]]
      BY DEF SolveAllocationConflicts
    <2> HIDE DEF new
    <2>2. QED
      BY <1>4, <2>1 DEF Maps
  <1>6. QED
    BY <1>4, <1>5

LEMMA ClaimedBefore ==
    ASSUME NEW map \in Maps, NEW constraint, NEW p \in Parts, NEW q \in Parts \ {constraint}, q < p
    PROVE  map[q].voices \subseteq VoicesBefore(map, p, constraint)
  BY DEF VoicesBefore

\* Of two parts, the second loses what the first claims.
LEMMA SolvedOnce ==
    ASSUME NEW map \in Maps
    PROVE  ClaimedOnce(SolveAllocationConflicts(map, NoConstraint))
  <1> DEFINE new == SolveAllocationConflicts(map, NoConstraint)
  <1>1. \A p \in Parts : new[p].voices = map[p].voices \ VoicesBefore(map, p, NoConstraint)
    BY Solved, PartsAreNumbers
  <1> HIDE DEF new
  <1>2. ASSUME NEW p \in Parts, NEW q \in Parts, q < p
        PROVE  new[p].voices \cap new[q].voices = {}
    <2>1. map[q].voices \subseteq VoicesBefore(map, p, NoConstraint)
      BY <1>2, ClaimedBefore, PartsAreNumbers
    <2>2. QED
      BY <1>1, <2>1
  <1>3. ASSUME NEW p \in Parts, NEW q \in Parts, p # q
        PROVE  new[p].voices \cap new[q].voices = {}
    <2>1. p < q \/ q < p
      BY <1>3, PartsAreNumbers
    <2>2. QED
      BY <1>2, <2>1
  <1>4. QED
    BY <1>3 DEF ClaimedOnce, new

\* Where no voice is claimed twice, there is no conflict to solve.
LEMMA NothingToSolve ==
    ASSUME NEW map \in Maps, ClaimedOnce(map), NEW constraint
    PROVE  SolveAllocationConflicts(map, constraint) = map
  <1>1. ASSUME NEW p \in Parts
        PROVE  [map[p] EXCEPT !.voices = @ \ VoicesBefore(map, p, constraint)] = map[p]
    <2>1. \A q \in Parts : q < p => map[p].voices \cap map[q].voices = {}
      BY PartsAreNumbers DEF ClaimedOnce
    <2>2. map[p].voices \ VoicesBefore(map, p, constraint) = map[p].voices
      BY <2>1 DEF VoicesBefore
    <2>3. QED
      BY <2>2 DEF Maps
  <1>2. SolveAllocationConflicts(map, constraint) = [p \in Parts |-> map[p]]
    BY <1>1 DEF SolveAllocationConflicts
  <1>3. QED
    BY <1>2 DEF Maps

LEMMA AssignedOnce ==
    ASSUME NEW map \in Maps, ClaimedOnce(map), AssignVoicesToParts(map)
    PROVE  VoicesOwnedOnce' /\ mapping' \in Maps
  BY DEF AssignVoicesToParts, VoicesOwnedOnce, ClaimedOnce

LEMMA TouchKeeps ==
    ASSUME NEW map \in Maps, Touch(map)
    PROVE  VoicesOwnedOnce' /\ mapping' \in Maps
  BY Solved, SolvedOnce, AssignedOnce DEF Touch

\* What VoiceAssigner::OnClick makes of a mapping is one.
LEMMA ClickedIsMap ==
    ASSUME NEW map \in Maps, NEW part \in Parts, NEW voice \in Voices
    PROVE  Clicked(map, part, voice) \in Maps
  BY DEF Clicked, Maps

\* Of the voices that no other part has, a part may choose any.
LEMMA ChosenOnce ==
    ASSUME NEW map \in Maps, ClaimedOnce(map), NEW part \in Parts,
           NEW new \in SUBSET Available(map, part)
    PROVE  LET chosen == [map EXCEPT ![part].voices = new]
           IN  chosen \in Maps /\ ClaimedOnce(chosen)
  <1> DEFINE chosen == [map EXCEPT ![part].voices = new]
  <1>1. new \in SUBSET Voices
    BY DEF Available
  <1>2. /\ chosen \in Maps
        /\ \A p \in Parts : chosen[p].voices = IF p = part THEN new ELSE map[p].voices
    BY <1>1 DEF Maps
  <1>3. \A p \in Parts \ {part} : new \cap map[p].voices = {}
    BY DEF Available
  <1> HIDE DEF chosen
  <1>4. ClaimedOnce(chosen)
    BY <1>2, <1>3 DEF ClaimedOnce
  <1>5. QED
    BY <1>2, <1>4 DEF chosen

\* What VoiceAssigner::OnPot does: either nothing, or a new choice.
LEMMA PotTurned ==
    ASSUME mapping \in Maps, VoicesOwnedOnce, NEW part \in Parts, NEW pot, NEW chosen,
           TurnVoicePot(part, pot, chosen)
    PROVE  /\ VoicesOwnedOnce' /\ mapping' \in Maps
           /\ \/ UNCHANGED <<mapping, pressed, moved>>
              \/ AssignVoicesToParts(mapping')
  <1> DEFINE new == ((mapping[part].voices \ {2 * pot, 2 * pot + 1}) \cup chosen)
                        \cap Available(mapping, part)
  <1>1. SolveAllocationConflicts(mapping, part) = mapping
    BY NothingToSolve DEF VoicesOwnedOnce
  <1>2. IF new = mapping[part].voices
        THEN mapping' = mapping /\ UNCHANGED <<assigned, pressed, moved>>
        ELSE AssignVoicesToParts([mapping EXCEPT ![part].voices = new])
    BY <1>1 DEF TurnVoicePot
  <1>3. new \in SUBSET Available(mapping, part)
    OBVIOUS
  <1> HIDE DEF new
  <1>4. CASE new = mapping[part].voices
    BY <1>2, <1>4 DEF VoicesOwnedOnce, ClaimedOnce
  <1>5. CASE new # mapping[part].voices
    <2>1. AssignVoicesToParts([mapping EXCEPT ![part].voices = new])
      BY <1>2, <1>5
    <2>2. mapping' = [mapping EXCEPT ![part].voices = new]
      BY <2>1 DEF AssignVoicesToParts
    <2>3. QED
      BY <1>3, <2>1, <2>2, ChosenOnce, AssignedOnce DEF VoicesOwnedOnce
  <1>6. QED
    BY <1>4, <1>5

-----------------------------------------------------------------------------
(* Keys.                                                                   *)

LEMMA SameNotesAccepted ==
    ASSUME NEW m, NEW n, SameNotes(m, n), NEW channel, NEW note
    PROVE  accept_channel_note(m, channel, note) <=> accept_channel_note(n, channel, note)
  BY DEF SameNotes, accept_channel_note, receive_channel, accept_note

LEMMA NotesKeep ==
    ASSUME MappingInv, NEW channel \in Channels, NEW note \in session.keys,
           NoteOn(channel, note) \/ NoteOff(channel, note) \/ AllOff(channel)
    PROVE  MappingInv'
  <1> DEFINE takes(p) == accept_channel_note(mapping[p], channel, note)
  <1>1. /\ MappingTypeOK /\ VoicesOwnedOnce /\ StuckOnlyAfterRemap
        /\ UNCHANGED <<mapping, assigned, session>>
    BY DEF MappingInv, NoteOn, NoteOff, AllOff
  <1>2. VoicesOwnedOnce'
    BY <1>1 DEF VoicesOwnedOnce, ClaimedOnce
  <1>3. MappingTypeOK'
    BY <1>1 DEF MappingTypeOK, NoteOn, NoteOff, AfterNoteOff, AllOff
  <1>4. ASSUME NEW p \in Parts, NEW n \in pressed'[p]
        PROVE  \/ \E c \in Channels : <<c, n>> \in down' /\ accept_channel_note(mapping[p], c, n)
               \/ <<p, n>> \in moved'
    <2>1. CASE NoteOn(channel, note)
      <3>1. CASE n = note /\ takes(p)
        BY <2>1, <3>1 DEF NoteOn
      <3>2. CASE ~(n = note /\ takes(p))
        <4>1. n \in pressed[p]
          BY <1>1, <2>1, <3>2, <1>4 DEF NoteOn, MappingTypeOK
        <4>2. <<p, n>> \in moved => <<p, n>> \in moved'
          BY <2>1, <3>2 DEF NoteOn
        <4>3. down \subseteq down'
          BY <2>1 DEF NoteOn
        <4>4. QED
          BY <1>1, <4>1, <4>2, <4>3 DEF StuckOnlyAfterRemap
      <3>3. QED
        BY <3>1, <3>2
    <2>2. CASE NoteOff(channel, note)
      <3>1. n \in pressed[p] /\ ~(n = note /\ takes(p))
        BY <1>1, <2>2, <1>4 DEF NoteOff, AfterNoteOff, MappingTypeOK
      <3>2. <<p, n>> \in moved => <<p, n>> \in moved'
        BY <2>2, <1>4 DEF NoteOff
      <3>3. \A c \in Channels : <<c, n>> \in down /\ accept_channel_note(mapping[p], c, n)
                                => <<c, n>> \in down'
        BY <2>2, <3>1 DEF NoteOff
      <3>4. QED
        BY <1>1, <3>1, <3>2, <3>3 DEF StuckOnlyAfterRemap
    <2>3. CASE AllOff(channel)
      <3>1. n \in pressed[p] /\ p \notin Receivers(channel)
        BY <1>1, <2>3, <1>4 DEF AllOff, MappingTypeOK
      <3>2. (<<p, n>> \in moved => <<p, n>> \in moved') /\ down' = down
        BY <2>3, <3>1 DEF AllOff
      <3>3. QED
        BY <1>1, <3>1, <3>2 DEF StuckOnlyAfterRemap
    <2>4. QED
      BY <2>1, <2>2, <2>3
  <1>5. StuckOnlyAfterRemap'
    BY <1>1, <1>4 DEF StuckOnlyAfterRemap
  <1>6. QED
    BY <1>2, <1>3, <1>5 DEF MappingInv

\* A part that is moved to other notes keeps its keys, which are recorded as moved.
LEMMA RemapKeeps ==
    ASSUME MappingInv, NEW parts \in SUBSET Parts, NEW field \in RemapFields, NEW value \in Nat,
           Remap(parts, field, value)
    PROVE  MappingInv'
  <1>1. /\ MappingTypeOK /\ VoicesOwnedOnce /\ StuckOnlyAfterRemap
        /\ UNCHANGED <<assigned, pressed, down, session>>
    BY DEF MappingInv, Remap
  <1>2. mapping' = [p \in Parts |-> IF p \in parts THEN [mapping[p] EXCEPT ![field] = value]
                                    ELSE mapping[p]]
    BY DEF Remap
  <1>3. ASSUME NEW p \in Parts
        PROVE  /\ mapping'[p] \in [midi_channel : Nat, low : Nat, high : Nat,
                                   voices : SUBSET Voices]
               /\ mapping'[p].voices = mapping[p].voices
    <2>1. mapping[p] \in [midi_channel : Nat, low : Nat, high : Nat, voices : SUBSET Voices]
      BY <1>1 DEF MappingTypeOK, Maps
    <2>2. CASE p \notin parts
      BY <1>2, <2>1, <2>2
    <2>3. CASE p \in parts
      <3>1. mapping'[p] = [mapping[p] EXCEPT ![field] = value]
        BY <1>2, <2>3
      <3>2. field = "midi_channel" \/ field = "low" \/ field = "high"
        BY DEF RemapFields
      <3>3. CASE field = "midi_channel"
        BY <2>1, <3>1, <3>3
      <3>4. CASE field = "low"
        BY <2>1, <3>1, <3>4
      <3>5. CASE field = "high"
        BY <2>1, <3>1, <3>5
      <3>6. QED
        BY <3>2, <3>3, <3>4, <3>5
    <2>4. QED
      BY <2>2, <2>3
  <1>4. mapping' \in Maps
    BY <1>2, <1>3 DEF Maps
  <1>5. MappingTypeOK'
    BY <1>1, <1>4 DEF MappingTypeOK
  <1>6. VoicesOwnedOnce'
    BY <1>1, <1>3 DEF VoicesOwnedOnce, ClaimedOnce
  <1>7. ASSUME NEW p \in Parts, NEW n \in pressed[p]
        PROVE  \/ \E c \in Channels : <<c, n>> \in down /\ accept_channel_note(mapping'[p], c, n)
               \/ <<p, n>> \in moved'
    <2>1. CASE p \in parts
      <3>1. n \in session.keys
        BY <1>1 DEF MappingTypeOK
      <3>2. QED
        BY <1>7, <2>1, <3>1 DEF Remap
    <2>2. CASE p \notin parts
      <3>1. mapping'[p] = mapping[p]
        BY <1>2, <2>2
      <3>2. moved \subseteq moved'
        BY DEF Remap
      <3>3. QED
        BY <1>1, <3>1, <3>2 DEF StuckOnlyAfterRemap
    <2>3. QED
      BY <2>1, <2>2
  <1>8. StuckOnlyAfterRemap'
    BY <1>1, <1>7 DEF StuckOnlyAfterRemap
  <1>9. QED
    BY <1>5, <1>6, <1>8 DEF MappingInv

\* Part::AssignVoices lets go of all the keys.
LEMMA AssignKeeps ==
    ASSUME MappingInv, UNCHANGED session, mapping' \in Maps, VoicesOwnedOnce',
           NEW map, AssignVoicesToParts(map)
    PROVE  MappingInv'
  BY DEF AssignVoicesToParts, MappingInv, MappingTypeOK, StuckOnlyAfterRemap

LEMMA TouchKeepsAll ==
    ASSUME MappingInv, UNCHANGED session, NEW map \in Maps, Touch(map)
    PROVE  MappingInv'
  BY TouchKeeps, AssignKeeps DEF Touch

LEMMA VoicesKeep ==
    ASSUME MappingInv, NEW part \in Parts,
           \/ \E voice \in session.voices : ClickVoice(part, voice)
           \/ \E pot \in 0..2, chosen \in SUBSET session.voices : TurnVoicePot(part, pot, chosen)
    PROVE  MappingInv'
  <1>1. mapping \in Maps /\ VoicesOwnedOnce /\ session.voices \subseteq Voices
    BY MultiAssumption DEF MappingInv, MappingTypeOK
  <1>2. ASSUME NEW voice \in session.voices, ClickVoice(part, voice)
        PROVE  MappingInv'
    <2>1. Clicked(mapping, part, voice) \in Maps
      BY <1>1, ClickedIsMap
    <2>2. UNCHANGED session /\ Touch(Clicked(mapping, part, voice))
      BY <1>2 DEF ClickVoice, Touch
    <2>3. QED
      BY <2>1, <2>2, TouchKeepsAll
  <1>3. ASSUME NEW pot \in 0..2, NEW chosen \in SUBSET session.voices,
               TurnVoicePot(part, pot, chosen)
        PROVE  MappingInv'
    <2>1. /\ VoicesOwnedOnce' /\ mapping' \in Maps
          /\ UNCHANGED <<mapping, pressed, moved>> \/ AssignVoicesToParts(mapping')
          /\ UNCHANGED <<session, down>>
      BY <1>1, <1>3, PotTurned DEF TurnVoicePot
    <2>2. CASE UNCHANGED <<mapping, pressed, moved>>
      BY <2>1, <2>2 DEF MappingInv, MappingTypeOK, StuckOnlyAfterRemap
    <2>3. CASE AssignVoicesToParts(mapping')
      BY <2>1, <2>3, AssignKeeps
    <2>4. QED
      BY <2>1, <2>2, <2>3
  <1>4. QED
    BY <1>2, <1>3

-----------------------------------------------------------------------------
(* The EEPROM.                                                             *)

Stored(b) == rom[b].content = Content(b) /\ rom[b].sum = Checksum(Content(b))

\* WriteMultiToEeprom has stored the blocks before the one it writes, and the data and the
\* mapping rest meanwhile.
WritingInv ==
    power = "writing" /\ place.block \in MultiBlocks =>
        /\ kept[1] = Torn
        /\ \A a \in MultiBlocks : a < place.block => Stored(a)
        /\ place.step = "checksum" => rom[place.block].content = Content(place.block)

\* A multi that was saved whole is still there.
KeptInv ==
    kept[1] # Torn =>
        /\ \A a \in MultiBlocks : IsWhole(rom[a]) /\ rom[a].content = kept[a]
        /\ \E m \in Maps : ClaimedOnce(m) /\ kept[kNumBlocks] = <<m>>

BlocksInv == MemoryTypeOK /\ WritingInv /\ KeptInv

MultiInv == MappingInv /\ BlocksInv

LEMMA AreasAreNumbers ==
    /\ kNumBlocks \in Nat /\ 1 < kNumBlocks /\ kSettings = kNumBlocks + 1
    /\ \A b : b \in MultiBlocks <=> b \in Nat /\ 1 <= b /\ b <= kNumBlocks
    /\ \A b : b \in Areas <=> b \in MultiBlocks \/ b = kSettings
    /\ 1 \in MultiBlocks /\ kNumBlocks \in MultiBlocks /\ kSettings \notin MultiBlocks
  <1>1. kNumBlocks \in Nat /\ 1 < kNumBlocks /\ kSettings = kNumBlocks + 1
    BY EditLinkAssumption DEF kNumBlocks, kSettings
  <1>2. \A b : b \in MultiBlocks <=> b \in Nat /\ 1 <= b /\ b <= kNumBlocks
    BY <1>1 DEF MultiBlocks
  <1>3. \A b : b \in Areas <=> b \in MultiBlocks \/ b = kSettings
    BY <1>1, <1>2 DEF Areas
  <1>4. QED
    BY <1>1, <1>2, <1>3

LEMMA NotTorn ==
    /\ \A x \in VersionBlocks \cup MapBlocks : x # Torn
    /\ <<"default">> \in VersionBlocks /\ <<Default>> \in MapBlocks
    /\ \A m \in Maps : <<m>> \in MapBlocks
    /\ \A x \in MapBlocks : x[1] \in Maps /\ x = <<x[1]>>
  BY MultiAssumption DEF VersionBlocks, MapBlocks, Torn

\* What is saved of a block is some content of it.
LEMMA ContentOfBlock ==
    ASSUME MappingTypeOK, MemoryTypeOK, NEW b \in Areas
    PROVE  Content(b) \in BlocksAt(b) /\ Content(b) \in Blocks /\ Content(b) # Torn
  <1>1. CASE b = kNumBlocks
    BY <1>1, NotTorn DEF Content, BlocksAt, Blocks, MappingTypeOK
  <1>2. CASE b # kNumBlocks
    BY <1>2, NotTorn DEF Content, BlocksAt, Blocks, MemoryTypeOK
  <1>3. QED
    BY <1>1, <1>2

\* Where neither the memory nor the mapping changes, the contents are the same.
LEMMA ContentRests ==
    ASSUME UNCHANGED <<memory, mapping>>
    PROVE  \A b \in Areas : Content(b)' = Content(b)
  BY DEF Content

\* While the program runs, only Save and Edit touch the blocks.
LEMMA EditKeeps ==
    ASSUME BlocksInv, power = "on",
           \/ \E b \in Areas \ {kNumBlocks}, v \in Versions : Edit(b, v)
           \/ UNCHANGED memoryVars
    PROVE  BlocksInv'
  <1>1. UNCHANGED <<rom, power, place, kept>>
    BY DEF Edit, memoryVars
  <1>2. MemoryTypeOK'
    <2>1. memory' \in [Areas \ {kNumBlocks} -> VersionBlocks]
      BY DEF BlocksInv, MemoryTypeOK, Edit, memoryVars, VersionBlocks
    <2>2. QED
      BY <1>1, <2>1 DEF BlocksInv, MemoryTypeOK
  <1>3. WritingInv' /\ KeptInv'
    BY <1>1 DEF BlocksInv, WritingInv, KeptInv
  <1>4. QED
    BY <1>2, <1>3 DEF BlocksInv

LEMMA SaveKeeps ==
    ASSUME BlocksInv, power = "on", NEW b \in {1, kSettings}, Save(b)
    PROVE  BlocksInv'
  <1>1. /\ UNCHANGED <<memory, rom>> /\ power' = "writing"
        /\ place' = [block |-> b, step |-> "first_byte"] /\ b \in Areas
        /\ kept' = [a \in Areas |-> IF (a = kSettings) = (b = kSettings) THEN Torn ELSE kept[a]]
    BY AreasAreNumbers DEF Save, Begin
  <1>2. MemoryTypeOK'
    BY <1>1 DEF BlocksInv, MemoryTypeOK, Blocks
  <1>3. CASE b = 1
    <2>1. kept'[1] = Torn
      BY <1>1, <1>3, AreasAreNumbers
    <2>2. \A a \in MultiBlocks : ~(a < place'.block)
      <3>1. place'.block = 1
        BY <1>1, <1>3
      <3>2. \A a \in MultiBlocks : a \in Nat /\ 1 <= a
        BY AreasAreNumbers
      <3>3. QED
        BY <3>1, <3>2
    <2>3. QED
      BY <1>1, <1>2, <2>1, <2>2 DEF BlocksInv, WritingInv, KeptInv
  <1>4. CASE b = kSettings
    <2>1. \A a \in MultiBlocks : kept'[a] = kept[a]
      BY <1>1, <1>4, AreasAreNumbers
    <2>2. place'.block \notin MultiBlocks /\ 1 \in MultiBlocks /\ kNumBlocks \in MultiBlocks
      BY <1>1, <1>4, AreasAreNumbers
    <2>3. QED
      BY <1>1, <1>2, <2>1, <2>2 DEF BlocksInv, WritingInv, KeptInv
  <1>5. QED
    BY <1>3, <1>4

\* A step of Written changes one block, and in it the bytes or the checksum.
LEMMA OneBlockWritten ==
    ASSUME MappingTypeOK, BlocksInv, power = "writing", WriteStep
    PROVE  LET b == place.block
           IN  /\ rom' \in [Areas -> [content : Blocks, sum : Blocks]]
               /\ \A a \in Areas : rom'[a].content \in BlocksAt(a) \cup {Torn}
               /\ \A a \in Areas \ {b} : rom'[a] = rom[a]
               /\ place.step = "last_byte" => rom'[b].content = Content(b)
               /\ place.step = "checksum" => /\ rom'[b].content = rom[b].content
                                             /\ rom'[b].sum = Checksum(Content(b))
  <1> DEFINE b == place.block
  <1>1. /\ b \in Areas /\ place.step \in {"first_byte", "last_byte", "checksum"}
        /\ rom \in [Areas -> [content : Blocks, sum : Blocks]]
        /\ \A a \in Areas : rom[a].content \in BlocksAt(a) \cup {Torn}
        /\ rom' = Written(b, place.step)
    BY DEF BlocksInv, MemoryTypeOK, WriteStep
  <1>2. Content(b) \in BlocksAt(b) /\ Content(b) \in Blocks /\ Torn \in Blocks
    BY <1>1, ContentOfBlock DEF BlocksInv, Blocks
  <1> HIDE DEF b
  <1>3. CASE place.step = "first_byte"
    <2>1. rom' = rom \/ rom' = [rom EXCEPT ![b].content = Torn]
      BY <1>1, <1>3 DEF Written
    <2>2. QED
      BY <1>1, <1>2, <1>3, <2>1 DEF b
  <1>4. CASE place.step = "last_byte"
    <2>1. rom' = [rom EXCEPT ![b].content = Content(b)]
      BY <1>1, <1>4 DEF Written
    <2>2. QED
      BY <1>1, <1>2, <1>4, <2>1 DEF b
  <1>5. CASE place.step = "checksum"
    <2>1. rom' = [rom EXCEPT ![b].sum = Checksum(Content(b))]
      BY <1>1, <1>5 DEF Written
    <2>2. Checksum(Content(b)) \in Blocks
      BY <1>2 DEF Checksum
    <2>3. QED
      BY <1>1, <1>2, <1>5, <2>1, <2>2 DEF b
  <1>6. QED
    BY <1>1, <1>3, <1>4, <1>5

\* Where the writing is after a step, and what was saved whole by then.
LEMMA NextPlace ==
    ASSUME MemoryTypeOK, WriteStep
    PROVE  \/ /\ place.step = "first_byte" /\ power' = "writing" /\ kept' = kept
              /\ place' = [block |-> place.block, step |-> "last_byte"]
           \/ /\ place.step = "last_byte" /\ power' = "writing" /\ kept' = kept
              /\ place' = [block |-> place.block, step |-> "checksum"]
           \/ /\ place.step = "checksum" /\ place.block \notin {kNumBlocks, kSettings}
              /\ power' = "writing" /\ kept' = kept
              /\ place' = [block |-> place.block + 1, step |-> "first_byte"]
           \/ /\ place.step = "checksum" /\ place.block \in {kNumBlocks, kSettings}
              /\ power' = "on" /\ place' = [block |-> 1, step |-> "first_byte"]
              /\ kept' = [a \in Areas |-> IF (a = kSettings) = (place.block = kSettings)
                                          THEN Content(a) ELSE kept[a]]
  <1> DEFINE b == place.block
             last == b \in {kNumBlocks, kSettings} /\ place.step = "checksum"
  <1>1. /\ b \in Areas /\ place.step \in {"first_byte", "last_byte", "checksum"}
        /\ kept = [a \in Areas |-> kept[a]]
    BY DEF MemoryTypeOK
  <1>2. /\ kept' = [a \in Areas |-> IF last /\ (a = kSettings) = (b = kSettings)
                                    THEN Content(a) ELSE kept[a]]
        /\ CASE place.step = "first_byte" -> Begin("writing", b, "last_byte")
             [] place.step = "last_byte" -> Begin("writing", b, "checksum")
             [] last -> Begin("on", 1, "first_byte")
             [] OTHER -> Begin("writing", b + 1, "first_byte")
    BY DEF WriteStep
  <1>3. ~last => kept' = kept
    <2>1. ~last => kept' = [a \in Areas |-> kept[a]]
      BY <1>2
    <2>2. QED
      BY <1>1, <2>1
  <1> HIDE DEF b
  <1>4. CASE place.step = "first_byte"
    BY <1>2, <1>3, <1>4 DEF Begin, b
  <1>5. CASE place.step = "last_byte"
    BY <1>2, <1>3, <1>5 DEF Begin, b
  <1>6. CASE place.step = "checksum" /\ ~last
    <2>1. Begin("writing", b + 1, "first_byte")
      BY <1>2, <1>6
    <2>2. QED
      BY <1>3, <1>6, <2>1 DEF Begin, b
  <1>7. CASE place.step = "checksum" /\ last
    <2>1. Begin("on", 1, "first_byte")
      BY <1>2, <1>7
    <2>2. QED
      BY <1>2, <1>7, <2>1 DEF Begin, b
  <1>8. QED
    BY <1>1, <1>4, <1>5, <1>6, <1>7

LEMMA WriteKeepsTypes ==
    ASSUME MappingTypeOK, BlocksInv, power = "writing", WriteStep
    PROVE  MemoryTypeOK'
  <1>1. MemoryTypeOK /\ UNCHANGED memory
    BY DEF BlocksInv, WriteStep
  <1>2. /\ rom' \in [Areas -> [content : Blocks, sum : Blocks]]
        /\ \A a \in Areas : rom'[a].content \in BlocksAt(a) \cup {Torn}
    BY OneBlockWritten
  <1>3. \A a \in Areas : Content(a) \in Blocks
    BY <1>1, ContentOfBlock
  <1>4. kept' \in [Areas -> Blocks]
    <2>1. kept \in [Areas -> Blocks]
      BY <1>1 DEF MemoryTypeOK
    <2>2. \/ kept' = kept
          \/ kept' = [a \in Areas |-> IF (a = kSettings) = (place.block = kSettings)
                                       THEN Content(a) ELSE kept[a]]
      BY <1>1, NextPlace
    <2> HIDE DEF Areas
    <2>3. QED
      BY <1>3, <2>1, <2>2
  <1>5. place' \in [block : Areas, step : {"first_byte", "last_byte", "checksum"}]
    <2>1. place.block \in Areas /\ 1 \in Areas
      BY <1>1, AreasAreNumbers DEF MemoryTypeOK
    <2>2. place.block \notin {kNumBlocks, kSettings} => place.block + 1 \in Areas
      BY <2>1, AreasAreNumbers
    <2>3. QED
      BY <1>1, <2>1, <2>2, NextPlace
  <1>6. power' \in {"on", "off", "writing"}
    BY <1>1, NextPlace
  <1>7. QED
    BY <1>1, <1>2, <1>4, <1>5, <1>6 DEF MemoryTypeOK

\* The blocks before the one written stay as they are, and so does what it holds once its
\* bytes are there.
LEMMA StoredRests ==
    ASSUME MappingTypeOK, BlocksInv, power = "writing", WriteStep,
           NEW b \in MultiBlocks, place.block = b
    PROVE  /\ \A a \in MultiBlocks : a < b => Stored(a)'
           /\ place.step = "last_byte" => rom'[b].content = Content(b)'
           /\ place.step = "checksum" => Stored(b)'
  <1>1. /\ \A a \in Areas \ {b} : rom'[a] = rom[a]
        /\ place.step = "last_byte" => rom'[b].content = Content(b)
        /\ place.step = "checksum" => /\ rom'[b].content = rom[b].content
                                      /\ rom'[b].sum = Checksum(Content(b))
    BY OneBlockWritten
  <1>2. /\ \A a \in MultiBlocks : a < b => Stored(a)
        /\ place.step = "checksum" => rom[b].content = Content(b)
    BY DEF BlocksInv, WritingInv
  <1>3. \A a \in Areas : Content(a)' = Content(a)
    BY ContentRests DEF WriteStep, multiVars
  <1>4. b \in MultiBlocks /\ \A a \in MultiBlocks : a \in Areas
    BY AreasAreNumbers
  <1>5. \A a \in MultiBlocks : a \in Nat
    BY AreasAreNumbers
  <1>6. \A a \in MultiBlocks : a < b => a # b
    BY <1>4, <1>5
  <1>7. \A a \in MultiBlocks : a < b => rom'[a] = rom[a]
    BY <1>1, <1>4, <1>6
  <1>8. \A a \in MultiBlocks : a < b => Stored(a)'
    <2>1. ASSUME NEW a \in MultiBlocks, a < b PROVE Stored(a)'
      <3>1. rom'[a] = rom[a] /\ Content(a)' = Content(a) /\ Stored(a)
        BY <1>2, <1>3, <1>4, <1>7, <2>1
      <3>2. QED
        BY <3>1 DEF Stored, Checksum
    <2>2. QED
      BY <2>1
  <1>9. ASSUME place.step = "checksum" PROVE Stored(b)'
    <2>1. rom'[b].content = Content(b) /\ rom'[b].sum = Content(b) /\ Content(b)' = Content(b)
      BY <1>1, <1>2, <1>3, <1>4, <1>9 DEF Checksum
    <2>2. QED
      BY <2>1 DEF Stored, Checksum
  <1>10. QED
    BY <1>1, <1>3, <1>4, <1>8, <1>9

LEMMA WriteKeeps ==
    ASSUME MultiInv, WriteStep
    PROVE  BlocksInv'
  <1> PICK b : b = place.block
    OBVIOUS
  <1>1. /\ MappingTypeOK /\ VoicesOwnedOnce /\ BlocksInv /\ MemoryTypeOK
        /\ power = "writing" /\ UNCHANGED <<memory, mapping>> /\ b \in Areas
    BY DEF MultiInv, MappingInv, BlocksInv, MemoryTypeOK, WriteStep, multiVars
  <1>2. MemoryTypeOK'
    BY <1>1, WriteKeepsTypes
  <1>3. CASE b \in MultiBlocks
    <2>1. /\ \A a \in MultiBlocks : a < b => Stored(a)'
          /\ place.step = "last_byte" => rom'[b].content = Content(b)'
          /\ place.step = "checksum" => Stored(b)'
      BY <1>1, <1>3, StoredRests
    <2>2. kept[1] = Torn
      BY <1>1, <1>3 DEF BlocksInv, WritingInv
    <2>3. CASE place' = [block |-> b, step |-> "last_byte"] /\ kept' = kept
      BY <1>2, <2>1, <2>2, <2>3 DEF BlocksInv, WritingInv, KeptInv
    <2>4. CASE /\ place.step = "last_byte" /\ kept' = kept
               /\ place' = [block |-> b, step |-> "checksum"]
      BY <1>2, <2>1, <2>2, <2>4 DEF BlocksInv, WritingInv, KeptInv
    <2>5. CASE /\ place.step = "checksum" /\ kept' = kept
               /\ place' = [block |-> b + 1, step |-> "first_byte"]
      <3>1. \A a \in MultiBlocks : a < b + 1 => a < b \/ a = b
        BY <1>3, AreasAreNumbers
      <3>2. \A a \in MultiBlocks : a < place'.block => Stored(a)'
        BY <2>1, <2>5, <3>1
      <3>3. place'.step # "checksum"
        BY <2>5
      <3>4. QED
        BY <1>2, <2>2, <2>5, <3>2, <3>3 DEF BlocksInv, WritingInv, KeptInv
    <2>6. CASE /\ place.step = "checksum" /\ b \in {kNumBlocks, kSettings} /\ power' = "on"
               /\ kept' = [a \in Areas |-> IF (a = kSettings) = (b = kSettings)
                                           THEN Content(a) ELSE kept[a]]
      <3>1. b = kNumBlocks /\ b # kSettings
        BY <1>3, <2>6, AreasAreNumbers
      <3>2. \A a \in MultiBlocks : a \in Areas /\ a # kSettings /\ (a < b \/ a = b)
        BY <3>1, AreasAreNumbers
      <3>3. \A a \in MultiBlocks : Stored(a)'
        BY <2>1, <2>6, <3>2
      <3>4. \A a \in MultiBlocks : kept'[a] = Content(a)
        BY <2>6, <3>1, <3>2
      <3>5. \A a \in MultiBlocks : Content(a)' = Content(a) /\ Content(a) # Torn
        BY <1>1, <3>2, ContentRests, ContentOfBlock
      <3>6. \A a \in MultiBlocks : IsWhole(rom'[a]) /\ rom'[a].content = kept'[a]
        BY <3>3, <3>4, <3>5 DEF IsWhole, Stored, Checksum
      <3>7. mapping \in Maps /\ ClaimedOnce(mapping) /\ kept'[kNumBlocks] = <<mapping>>
        BY <1>1, <3>4, AreasAreNumbers DEF Content, MappingTypeOK, VoicesOwnedOnce
      <3>8. KeptInv'
        BY <3>6, <3>7 DEF KeptInv
      <3>9. QED
        BY <1>2, <2>6, <3>8 DEF BlocksInv, WritingInv
    <2>7. QED
      BY <1>1, <2>3, <2>4, <2>5, <2>6, NextPlace
  <1>4. CASE b \notin MultiBlocks
    <2>1. b = kSettings
      BY <1>1, <1>4, AreasAreNumbers
    <2>2. \A a \in MultiBlocks : a \in Areas \ {b} /\ a # kSettings
      BY <2>1, AreasAreNumbers
    <2>3. \A a \in MultiBlocks : rom'[a] = rom[a]
      BY <1>1, <2>2, OneBlockWritten
    <2>4. \A a \in MultiBlocks : kept'[a] = kept[a]
      BY <1>1, <2>1, <2>2, NextPlace
    <2>5. 1 \in MultiBlocks /\ kNumBlocks \in MultiBlocks
      BY AreasAreNumbers
    <2>6. KeptInv'
      BY <1>1, <2>3, <2>4, <2>5 DEF BlocksInv, KeptInv
    <2>7. power' = "writing" => place'.block = b
      BY <1>1, <2>1, NextPlace
    <2>8. WritingInv'
      BY <1>4, <2>7 DEF WritingInv
    <2>9. QED
      BY <1>2, <2>6, <2>8 DEF BlocksInv
  <1>5. QED
    BY <1>3, <1>4

-----------------------------------------------------------------------------
(* The power.                                                              *)

\* Boot starts with the blocks of the EEPROM or with the defaults.
LEMMA BootStarts ==
    ASSUME BlocksInv, NEW shifted \in BOOLEAN, Boot(shifted)
    PROVE  \E m \in Maps :
             /\ Touch(m)
             /\ memory' \in [Areas \ {kNumBlocks} -> VersionBlocks]
             /\ \/ /\ ~shifted /\ \A b \in MultiBlocks : IsWhole(rom[b])
                   /\ power' = "on" /\ kept' = kept /\ rom[kNumBlocks].content = <<m>>
                   /\ \A b \in MultiBlocks \ {kNumBlocks} : memory'[b] = rom[b].content
                \/ /\ shifted \/ ~(\A b \in MultiBlocks : IsWhole(rom[b]))
                   /\ power' = "writing" /\ m = Default
                   /\ kept' = [b \in Areas |-> IF b = kSettings THEN kept[b] ELSE Torn]
                   /\ \A b \in MultiBlocks \ {kNumBlocks} : memory'[b] = <<"default">>
  <1> DEFINE loaded == ~shifted /\ LoadMultiFromEeprom
             At(b) == IF loaded THEN rom[b].content ELSE DefaultContent(b)
  <1>1. /\ memory' = [b \in Areas \ {kNumBlocks} |->
                        IF b = kSettings THEN SettingsAtBoot(shifted) ELSE At(b)]
        /\ Touch(At(kNumBlocks)[1])
        /\ IF loaded THEN Begin("on", 1, "first_byte") /\ kept' = kept
           ELSE /\ Begin("writing", 1, "first_byte")
                /\ kept' = [b \in Areas |-> IF b = kSettings THEN kept[b] ELSE Torn]
    BY DEF Boot
  <1>2. SettingsAtBoot(shifted) \in VersionBlocks
    <2>1. kSettings \in Areas /\ kSettings # kNumBlocks
      BY AreasAreNumbers
    <2>2. rom[kSettings].content \in VersionBlocks \cup {Torn}
      BY <2>1 DEF BlocksInv, MemoryTypeOK, BlocksAt
    <2>3. QED
      BY <2>1, <2>2, NotTorn DEF SettingsAtBoot, IsWhole, DefaultContent
  <1>3. \A b \in MultiBlocks : At(b) \in BlocksAt(b)
    <2>1. \A b \in MultiBlocks : DefaultContent(b) \in BlocksAt(b)
      BY NotTorn DEF DefaultContent, BlocksAt
    <2>2. \A b \in MultiBlocks : IsWhole(rom[b]) => rom[b].content \in BlocksAt(b)
      BY AreasAreNumbers DEF BlocksInv, MemoryTypeOK, IsWhole
    <2>3. QED
      BY <2>1, <2>2 DEF LoadMultiFromEeprom
  <1>4. At(kNumBlocks)[1] \in Maps /\ At(kNumBlocks) = <<At(kNumBlocks)[1]>>
    <2>1. At(kNumBlocks) \in MapBlocks
      BY <1>3, AreasAreNumbers DEF BlocksAt
    <2> HIDE DEF At
    <2>2. QED
      BY <2>1, NotTorn
  <1>5. /\ \A b \in MultiBlocks \ {kNumBlocks} : memory'[b] = At(b)
        /\ memory' \in [Areas \ {kNumBlocks} -> VersionBlocks]
    <2>1. \A b \in MultiBlocks \ {kNumBlocks} : b \in Areas \ {kNumBlocks} /\ b # kSettings
      BY AreasAreNumbers
    <2>2. \A b \in Areas \ {kNumBlocks} : b # kSettings => At(b) \in VersionBlocks
      BY <1>3, AreasAreNumbers DEF BlocksAt
    <2> HIDE DEF At
    <2>3. QED
      BY <1>1, <1>2, <2>1, <2>2
  <1>6. CASE loaded
    <2>1. At(kNumBlocks) = rom[kNumBlocks].content
      BY <1>6
    <2>2. \A b \in MultiBlocks \ {kNumBlocks} : memory'[b] = rom[b].content
      BY <1>5, <1>6
    <2>3. power' = "on" /\ kept' = kept
      BY <1>1, <1>6 DEF Begin
    <2>4. ~shifted /\ \A b \in MultiBlocks : IsWhole(rom[b])
      BY <1>6 DEF LoadMultiFromEeprom
    <2> HIDE DEF At, loaded
    <2>5. QED
      BY <1>1, <1>4, <1>5, <2>1, <2>2, <2>3, <2>4
  <1>7. CASE ~loaded
    <2>1. At(kNumBlocks)[1] = Default
      BY <1>7 DEF DefaultContent
    <2>2. \A b \in MultiBlocks \ {kNumBlocks} : memory'[b] = <<"default">>
      BY <1>5, <1>7 DEF DefaultContent
    <2>3. /\ power' = "writing"
          /\ kept' = [b \in Areas |-> IF b = kSettings THEN kept[b] ELSE Torn]
      BY <1>1, <1>7 DEF Begin
    <2>4. shifted \/ ~(\A b \in MultiBlocks : IsWhole(rom[b]))
      BY <1>7 DEF LoadMultiFromEeprom
    <2> HIDE DEF At, loaded
    <2>5. QED
      BY <1>1, <1>4, <1>5, <2>1, <2>2, <2>3, <2>4
  <1>8. QED
    BY <1>6, <1>7

LEMMA PowerKeeps ==
    ASSUME MultiInv,
           PowerLoss \/ \E shifted \in BOOLEAN : Boot(shifted)
    PROVE  BlocksInv'
  <1>1. BlocksInv /\ MemoryTypeOK
    BY DEF MultiInv, BlocksInv
  <1>2. UNCHANGED rom /\ place' = [block |-> 1, step |-> "first_byte"]
    BY DEF PowerLoss, Boot, Begin
  <1>3. 1 \in MultiBlocks /\ 1 \in Areas /\ 1 # kSettings
        /\ \A a \in MultiBlocks : ~(a < 1)
    BY AreasAreNumbers
  <1>4. CASE PowerLoss
    <2>1. UNCHANGED <<memory, kept>> /\ power' = "off"
      BY <1>4 DEF PowerLoss, Begin
    <2>2. MemoryTypeOK'
      BY <1>1, <1>2, <1>3, <2>1 DEF MemoryTypeOK
    <2>3. QED
      BY <1>1, <1>2, <2>1, <2>2 DEF BlocksInv, WritingInv, KeptInv
  <1>5. CASE \E shifted \in BOOLEAN : Boot(shifted)
    <2>1. /\ memory' \in [Areas \ {kNumBlocks} -> VersionBlocks]
          /\ \/ power' = "on" /\ kept' = kept
             \/ /\ power' = "writing"
                /\ kept' = [b \in Areas |-> IF b = kSettings THEN kept[b] ELSE Torn]
      BY <1>1, <1>5, BootStarts
    <2>2. kept' \in [Areas -> Blocks]
      BY <1>1, <2>1 DEF MemoryTypeOK, Blocks
    <2>3. MemoryTypeOK'
      BY <1>1, <1>2, <1>3, <2>1, <2>2 DEF MemoryTypeOK
    <2>4. CASE kept' = kept /\ power' = "on"
      BY <1>1, <1>2, <2>3, <2>4 DEF BlocksInv, WritingInv, KeptInv
    <2>5. CASE kept' = [b \in Areas |-> IF b = kSettings THEN kept[b] ELSE Torn]
      <3>1. kept'[1] = Torn
        BY <1>3, <2>5
      <3>2. QED
        BY <1>2, <1>3, <2>3, <3>1 DEF BlocksInv, WritingInv, KeptInv
    <2>6. QED
      BY <2>1, <2>4, <2>5
  <1>6. QED
    BY <1>4, <1>5

\* With the power off or on, the keys of the parts and their mapping follow.
LEMMA BootKeepsMapping ==
    ASSUME MultiInv,
           WriteStep \/ PowerLoss \/ \E shifted \in BOOLEAN : Boot(shifted)
    PROVE  MappingInv'
  <1>1. MappingInv /\ BlocksInv /\ UNCHANGED session
    BY DEF MultiInv, WriteStep, PowerLoss, Boot
  <1>2. CASE UNCHANGED multiVars
    BY <1>1, <1>2 DEF MappingInv, MappingTypeOK, VoicesOwnedOnce, StuckOnlyAfterRemap, multiVars
  <1>3. CASE \E shifted \in BOOLEAN : Boot(shifted)
    BY <1>1, <1>3, BootStarts, TouchKeepsAll
  <1>4. QED
    BY <1>2, <1>3 DEF WriteStep, PowerLoss

-----------------------------------------------------------------------------
(* The whole.                                                              *)

LEMMA MultiInit == Init => MultiInv
  <1> SUFFICES ASSUME Init PROVE MultiInv
    OBVIOUS
  <1>1. session \in Sessions /\ session.map \in Maps
    BY MultiAssumption DEF Init
  <1>2. mapping \in Maps /\ ClaimedOnce(mapping)
    BY <1>1, Solved, SolvedOnce DEF Init
  <1>3. MappingInv
    BY <1>1, <1>2 DEF Init, MappingInv, MappingTypeOK, VoicesOwnedOnce, StuckOnlyAfterRemap
  <1>4. 1 \in Areas
    BY AreasAreNumbers
  <1>5. MemoryTypeOK
    <2>1. memory \in [Areas \ {kNumBlocks} -> VersionBlocks]
      BY NotTorn DEF Init, DefaultContent
    <2>2. QED
      BY <1>4, <2>1 DEF Init, MemoryTypeOK, Blocks
  <1>6. WritingInv /\ KeptInv
    BY <1>4 DEF Init, WritingInv, KeptInv
  <1>7. QED
    BY <1>3, <1>5, <1>6 DEF MultiInv, BlocksInv

\* What the parts and the player do with keys, voices and the mapping.
LEMMA MappingKeeps ==
    ASSUME MultiInv, power = "on", UNCHANGED memoryVars, MappingInv'
    PROVE  MultiInv'
  BY EditKeeps DEF MultiInv

LEMMA RunningKeeps ==
    ASSUME MultiInv, power = "on", Running
    PROVE  MultiInv'
  <1>1. MappingInv /\ BlocksInv
    BY DEF MultiInv
  <1>2. ASSUME UNCHANGED <<multiVars, session>> PROVE MappingInv'
    BY <1>1, <1>2 DEF MappingInv, MappingTypeOK, VoicesOwnedOnce, StuckOnlyAfterRemap, multiVars
  <1>3. CASE EditPart \/ Receive \/ Elsewhere
    <2>1. UNCHANGED <<multiVars, memoryVars, session>>
      BY <1>3 DEF EditPart, Receive, Elsewhere
    <2>2. QED
      BY <1>2, <2>1, MappingKeeps
  <1>4. CASE \E channel \in Channels, note \in session.keys :
               NoteOn(channel, note) \/ NoteOff(channel, note) \/ AllOff(channel)
    <2>1. UNCHANGED memoryVars
      BY <1>4 DEF NoteOn, NoteOff, AllOff
    <2>2. QED
      BY <1>1, <1>4, <2>1, NotesKeep, MappingKeeps
  <1>5. CASE \E channel \in Channels : OmniModeOff(channel) \/ OmniModeOn(channel)
    <2>1. PICK channel \in Channels : OmniModeOff(channel) \/ OmniModeOn(channel)
      BY <1>5
    <2>2. /\ channel + 1 \in Nat /\ 0 \in Nat /\ Receivers(channel) \in SUBSET Parts
          /\ "midi_channel" \in RemapFields
      BY MultiAssumption DEF Receivers, RemapFields
    <2>3. MappingInv'
      BY <1>1, <2>1, <2>2, RemapKeeps DEF OmniModeOff, OmniModeOn
    <2>4. UNCHANGED memoryVars
      BY <2>1 DEF OmniModeOff, OmniModeOn, Remap
    <2>5. QED
      BY <2>3, <2>4, MappingKeeps
  <1>6. CASE \E p \in Parts, r \in session.remaps : SetValue(p, r[1], r[2])
    <2>1. PICK p \in Parts, r \in session.remaps : SetValue(p, r[1], r[2])
      BY <1>6
    <2>2. r[1] \in RemapFields /\ r[2] \in Nat /\ {p} \in SUBSET Parts
      BY <1>1, MultiAssumption DEF MappingInv, MappingTypeOK
    <2>3. MappingInv' /\ UNCHANGED memoryVars
      BY <1>1, <2>1, <2>2, RemapKeeps DEF SetValue, Remap
    <2>4. QED
      BY <2>3, MappingKeeps
  <1>7. CASE \/ \E p \in Parts, v \in session.voices : ClickVoice(p, v)
             \/ \E p \in Parts, pot \in 0..2, chosen \in SUBSET session.voices :
                  TurnVoicePot(p, pot, chosen)
    <2>1. UNCHANGED memoryVars
      BY <1>7 DEF ClickVoice, TurnVoicePot
    <2>2. QED
      BY <1>1, <1>7, <2>1, VoicesKeep, MappingKeeps
  <1>8. CASE \E map \in Mappings : Load(map)
    <2>1. PICK map \in Mappings : Load(map)
      BY <1>8
    <2>2. map \in Maps /\ Touch(map) /\ UNCHANGED <<session, memoryVars>>
      BY <2>1, MultiAssumption DEF Load
    <2>3. QED
      BY <1>1, <2>2, TouchKeepsAll, MappingKeeps
  <1>9. CASE \E b \in session.blocks \ {kNumBlocks}, v \in Versions : Edit(b, v)
    <2>1. PICK b \in session.blocks \ {kNumBlocks}, v \in Versions : Edit(b, v)
      BY <1>9
    <2>2. b \in Areas \ {kNumBlocks} /\ UNCHANGED <<multiVars, session>>
      BY <1>1, <2>1, MultiAssumption DEF Edit, MappingInv, MappingTypeOK
    <2>3. QED
      BY <1>1, <1>2, <2>1, <2>2, EditKeeps DEF MultiInv
  <1>10. CASE Save(1) \/ Save(kSettings)
    <2>1. UNCHANGED <<multiVars, session>>
      BY <1>10 DEF Save
    <2>2. QED
      BY <1>1, <1>2, <1>10, <2>1, SaveKeeps DEF MultiInv
  <1>11. QED
    BY <1>3, <1>4, <1>5, <1>6, <1>7, <1>8, <1>9, <1>10 DEF Running

LEMMA MultiStep ==
    ASSUME MultiInv, [Next]_vars
    PROVE  MultiInv'
  <1>1. CASE power = "on" /\ Running
    BY <1>1, RunningKeeps
  <1>2. CASE WriteStep
    BY <1>2, WriteKeeps, BootKeepsMapping DEF MultiInv
  <1>3. CASE PowerLoss \/ \E shifted \in BOOLEAN : Boot(shifted)
    BY <1>3, PowerKeeps, BootKeepsMapping DEF MultiInv
  <1>4. CASE UNCHANGED vars
    <2>1. UNCHANGED <<mapping, assigned, pressed, down, moved, session>>
      BY <1>4 DEF vars, multiVars
    <2>2. UNCHANGED <<memory, rom, power, place, kept, mapping>>
      BY <1>4 DEF vars, multiVars, memoryVars
    <2>3. MappingInv'
      BY <2>1 DEF MultiInv, MappingInv, MappingTypeOK, VoicesOwnedOnce, StuckOnlyAfterRemap
    <2>4. BlocksInv'
      BY <2>2 DEF MultiInv, BlocksInv, MemoryTypeOK, WritingInv, KeptInv, Stored, Content
    <2>5. QED
      BY <2>3, <2>4 DEF MultiInv
  <1>5. QED
    BY <1>1, <1>2, <1>3, <1>4 DEF Next

THEOREM MultiStaysWhole == Spec => []MultiInv
  BY MultiInit, MultiStep, PTL DEF Spec

\* Of all the clicks, pots, loads, resets and remaps, none gives a voicecard to two parts or
\* leaves a part playing on other voices than its mapping says (Multi::Touch,
\* SolveAllocationConflicts, VoiceAssigner::OnPot and OnClick).
THEOREM VoicesStayOwnedOnce == Spec => []VoicesOwnedOnce
  <1>1. MultiInv => VoicesOwnedOnce
    BY DEF MultiInv, MappingInv
  <1>2. QED
    BY <1>1, MultiStaysWhole, PTL

\* A key stays pressed after its release only in a part that was moved to another channel or
\* range while it was held (Multi::NoteOn, NoteOff, SetValue, OmniModeOn and OmniModeOff).
THEOREM KeysStickOnlyAfterRemap == Spec => []StuckOnlyAfterRemap
  <1>1. MultiInv => StuckOnlyAfterRemap
    BY DEF MultiInv, MappingInv
  <1>2. QED
    BY <1>1, MultiStaysWhole, PTL

\* What Boot makes of the EEPROM, whichever byte of whichever save was the last one written.
LEMMA BootIsWhole ==
    ASSUME MultiInv, NEW shifted \in BOOLEAN, Boot(shifted)
    PROVE  \/ /\ shifted \/ kept[1] = Torn
              /\ \A b \in MultiBlocks : Content(b)' = DefaultContent(b)
           \/ /\ \A b \in MultiBlocks : Content(b)' # Torn
              /\ kept[1] # Torn => \A b \in MultiBlocks : Content(b)' = kept[b]
  <1>1. BlocksInv
    BY DEF MultiInv
  <1>2. PICK m \in Maps :
             /\ Touch(m)
             /\ \/ /\ ~shifted /\ \A b \in MultiBlocks : IsWhole(rom[b])
                   /\ rom[kNumBlocks].content = <<m>>
                   /\ \A b \in MultiBlocks \ {kNumBlocks} : memory'[b] = rom[b].content
                \/ /\ shifted \/ ~(\A b \in MultiBlocks : IsWhole(rom[b]))
                   /\ m = Default
                   /\ \A b \in MultiBlocks \ {kNumBlocks} : memory'[b] = <<"default">>
    BY <1>1, BootStarts
  <1>3. mapping' = SolveAllocationConflicts(m, NoConstraint)
    BY <1>2 DEF Touch, AssignVoicesToParts
  <1>4. ClaimedOnce(m) => mapping' = m
    BY <1>3, NothingToSolve
  <1>5. /\ Content(kNumBlocks)' = <<mapping'>>
        /\ \A b \in MultiBlocks \ {kNumBlocks} : Content(b)' = memory'[b]
    BY DEF Content
  <1>6. CASE /\ ~shifted /\ \A b \in MultiBlocks : IsWhole(rom[b])
             /\ rom[kNumBlocks].content = <<m>>
             /\ \A b \in MultiBlocks \ {kNumBlocks} : memory'[b] = rom[b].content
    <2>1. \A b \in MultiBlocks : Content(b)' # Torn
      BY <1>5, <1>6 DEF IsWhole, Torn
    <2>2. ASSUME kept[1] # Torn
          PROVE  \A b \in MultiBlocks : Content(b)' = kept[b]
      <3>1. /\ \A a \in MultiBlocks : rom[a].content = kept[a]
            /\ \E n \in Maps : ClaimedOnce(n) /\ kept[kNumBlocks] = <<n>>
        BY <1>1, <2>2 DEF BlocksInv, KeptInv
      <3>2. kNumBlocks \in MultiBlocks
        BY AreasAreNumbers
      <3>3. PICK n \in Maps : ClaimedOnce(n) /\ kept[kNumBlocks] = <<n>>
        BY <3>1
      <3>4. <<m>> = <<n>>
        BY <1>6, <3>1, <3>2, <3>3
      <3>5. mapping' = m
        BY <1>4, <3>3, <3>4
      <3>6. Content(kNumBlocks)' = kept[kNumBlocks]
        BY <1>5, <3>3, <3>4, <3>5
      <3>7. QED
        BY <1>5, <1>6, <3>1, <3>6
    <2>3. QED
      BY <2>1, <2>2
  <1>7. CASE /\ shifted \/ ~(\A b \in MultiBlocks : IsWhole(rom[b]))
             /\ m = Default
             /\ \A b \in MultiBlocks \ {kNumBlocks} : memory'[b] = <<"default">>
    <2>1. shifted \/ kept[1] = Torn
      BY <1>1, <1>7 DEF BlocksInv, KeptInv
    <2>2. mapping' = Default
      BY <1>4, <1>7, MultiAssumption
    <2>3. \A b \in MultiBlocks : Content(b)' = DefaultContent(b)
      BY <1>5, <1>7, <2>2 DEF DefaultContent
    <2>4. QED
      BY <2>1, <2>3
  <1>8. QED
    BY <1>2, <1>6, <1>7

\* The unit never starts with half-written blocks, and starts with what was last saved whole
\* (Storage::WriteMultiToEeprom, LoadMultiFromEeprom; Multi::Init).
THEOREM StartsWithWholeBlocks == Spec => BootsWithWholeBlocks
  <1>1. ASSUME MultiInv, [Next]_vars
        PROVE  [\A shifted \in BOOLEAN : Boot(shifted) =>
                  \/ /\ shifted \/ kept[1] = Torn
                     /\ \A b \in MultiBlocks : Content(b)' = DefaultContent(b)
                  \/ /\ \A b \in MultiBlocks : Content(b)' # Torn
                     /\ kept[1] # Torn => \A b \in MultiBlocks : Content(b)' = kept[b]]_vars
    BY <1>1, BootIsWhole
  <1>2. QED
    BY <1>1, MultiStaysWhole, PTL DEF Spec, BootsWithWholeBlocks

-----------------------------------------------------------------------------
(* Edits (EditLink): what the other unit makes of the messages on the      *)
(* wire, and of all it has been sent.                                      *)

MessageType == [channel : Int, controller : Int, value : Int]
IsPart(x) == x = [nrpn |-> x.nrpn, nrpn_msb |-> x.nrpn_msb, data_msb |-> x.data_msb,
                  values |-> x.values]
IsSender(s) ==
    /\ s = [address |-> s.address, counter |-> s.counter, channel |-> s.channel, last |-> s.last,
            since |-> s.since, others |-> s.others]
    /\ s.address \in 0..255 /\ s.counter \in 0..(kDataEntryResendRate - 1)
    /\ s.channel \in Int /\ s.since \in Nat

\* What a part of the other unit makes of a message, when it hears these channels.
Heard(hears, x, m) == IF m.channel \in hears THEN AfterControlChange(x, m) ELSE x

\* f[i] is what becomes of x with the first i of n messages.
Follows(f, hears, x, messages, n) ==
    /\ f[0] = x /\ \A i \in 0..n : IsPart(f[i])
    /\ \A i \in 1..n : f[i] = Heard(hears, f[i - 1], messages[i])

Hears(p) == {channel \in Int : p \in Receivers(channel)}

\* The address was sent since the other unit may have missed something.
Told == sender.counter < sender.since

\* With all the messages, a part that is x comes to the address; and, if it is the one that
\* was edited, to the value.
Reached(x, messages, hears, address, edited, value) ==
    \E f : /\ Follows(f, hears, x, messages, Len(messages))
           /\ f[Len(messages)].nrpn = address
           /\ edited => GetValue(f[Len(messages)], address) = value
Reaches(p) ==
    Reached(far[p], wire, Hears(p), sender.address, p = sender.last.part, sender.last.value)

\* Inductive.
EditInv ==
    /\ wire \in Seq(MessageType) /\ IsSender(sender)
    /\ far = [p \in Parts |-> far[p]] /\ \A p \in Parts : IsPart(far[p])
    /\ sender.address = 255 => sender.last = NoEdit
    /\ sender.address # 255 =>
           /\ sender.last.address = sender.address /\ sender.last.part \in Parts
           /\ Told => /\ sender.last.part \in Receivers(sender.channel)
                      /\ \A p \in Receivers(sender.channel) : Reaches(p)

-----------------------------------------------------------------------------
LEMMA ValuesSet ==
    ASSUME NEW x, IsPart(x), NEW v, NEW y, y = [x EXCEPT !.values = v]
    PROVE  IsPart(y) /\ y.values = v /\ y.nrpn = x.nrpn
  BY DEF IsPart

\* What the controllers of an edit do.
WithDataMsb(x, v) == [x EXCEPT !.data_msb = v]
WithNrpnMsb(x, v) == [x EXCEPT !.nrpn_msb = v, !.data_msb = 0]
WithNrpn(x, v) == [x EXCEPT !.nrpn = v, !.nrpn_msb = 0, !.data_msb = 0]

LEMMA PartsWith ==
    ASSUME NEW x, IsPart(x), NEW v
    PROVE  /\ /\ IsPart(WithDataMsb(x, v)) /\ WithDataMsb(x, v).data_msb = v
              /\ WithDataMsb(x, v).nrpn = x.nrpn
           /\ IsPart(WithNrpnMsb(x, v)) /\ WithNrpnMsb(x, v).nrpn_msb = v
           /\ IsPart(WithNrpn(x, v)) /\ WithNrpn(x, v).nrpn = v
  <1>1. PICK y : y = [x EXCEPT !.data_msb = v]
    OBVIOUS
  <1>2. IsPart(y) /\ y.data_msb = v /\ y.nrpn = x.nrpn
    BY <1>1 DEF IsPart
  <1>3. PICK z : z = [x EXCEPT !.nrpn_msb = v, !.data_msb = 0]
    OBVIOUS
  <1>4. IsPart(z) /\ z.nrpn_msb = v
    BY <1>3 DEF IsPart
  <1>5. PICK w : w = [x EXCEPT !.nrpn = v, !.nrpn_msb = 0, !.data_msb = 0]
    OBVIOUS
  <1>6. IsPart(w) /\ w.nrpn = v
    BY <1>5 DEF IsPart
  <1>7. WithDataMsb(x, v) = y /\ WithNrpnMsb(x, v) = z /\ WithNrpn(x, v) = w
    BY <1>1, <1>3, <1>5 DEF WithDataMsb, WithNrpnMsb, WithNrpn
  <1> QED BY <1>2, <1>4, <1>6, <1>7

LEMMA ChangedBy ==
    ASSUME NEW x, NEW m
    PROVE  /\ m.controller = kDataEntryMsb =>
                  AfterControlChange(x, m) = WithDataMsb(x, IF m.value = 0 THEN 0 ELSE 128)
           /\ m.controller = kNrpnMsb =>
                  AfterControlChange(x, m) = WithNrpnMsb(x, IF m.value = 0 THEN 0 ELSE 128)
           /\ m.controller = kNrpnLsb =>
                  AfterControlChange(x, m) = WithNrpn(x, m.value + x.nrpn_msb)
           /\ m.controller = kDataEntryLsb =>
                  AfterControlChange(x, m) = Edited(x, Clamp(Addressed(x), m.value + x.data_msb))
           /\ m.controller \notin {kDataEntryMsb, kNrpnMsb, kNrpnLsb} =>
                  \/ \E value : AfterControlChange(x, m) = Edited(x, value)
                  \/ AfterControlChange(x, m) = Controlled(x, m.controller, m.value)
  <1>1. PICK v : v = IF m.value = 0 THEN 0 ELSE 128
    OBVIOUS
  <1>2. PICK y, z, w : /\ y = [x EXCEPT !.data_msb = v]
                       /\ z = [x EXCEPT !.nrpn_msb = v, !.data_msb = 0]
                       /\ w = [x EXCEPT !.nrpn = m.value + x.nrpn_msb, !.nrpn_msb = 0,
                                       !.data_msb = 0]
    OBVIOUS
  <1>3. AfterControlChange(x, m) =
            CASE m.controller = kDataEntryMsb -> y
              [] m.controller = kNrpnLsb -> w
              [] m.controller = kNrpnMsb -> z
              [] m.controller = kDataEntryLsb ->
                     Edited(x, Clamp(Addressed(x), m.value + x.data_msb))
              [] m.controller = kDataIncrement ->
                     Edited(x, Increment(Addressed(x), GetValue(x, x.nrpn), 1))
              [] m.controller = kDataDecrement ->
                     Edited(x, Increment(Addressed(x), GetValue(x, x.nrpn), -1))
              [] OTHER -> Controlled(x, m.controller, m.value)
    BY <1>1, <1>2 DEF AfterControlChange
  <1>4. y = WithDataMsb(x, v) /\ z = WithNrpnMsb(x, v) /\ w = WithNrpn(x, m.value + x.nrpn_msb)
    BY <1>2 DEF WithDataMsb, WithNrpnMsb, WithNrpn
  <1> HIDE <1>2
  <1> QED
    BY <1>1, <1>3, <1>4
    DEF kDataEntryMsb, kDataEntryLsb, kNrpnMsb, kNrpnLsb, kDataIncrement, kDataDecrement

LEMMA SetByteFacts ==
    ASSUME NEW x, IsPart(x), NEW address, NEW value
    PROVE  /\ IsPart(SetByte(x, address, value)) /\ SetByte(x, address, value).nrpn = x.nrpn
           /\ GetValue(SetByte(x, address, value), address) = value
  <1> DEFINE v == [a \in DOMAIN x.values \cup {address} |-> IF a = address THEN value
                                                            ELSE x.values[a]]
  <1>1. PICK y : y = [x EXCEPT !.values = v]
    OBVIOUS
  <1>2. SetByte(x, address, value) = y
    BY <1>1 DEF SetByte
  <1>3. address \in DOMAIN v /\ v[address] = value
    OBVIOUS
  <1> HIDE DEF v
  <1>4. IsPart(y) /\ y.values = v /\ y.nrpn = x.nrpn
    BY <1>1, ValuesSet
  <1>5. GetValue(y, address) = value
    BY <1>3, <1>4 DEF GetValue
  <1> QED BY <1>2, <1>4, <1>5

LEMMA HeardIsPart ==
    ASSUME NEW x, IsPart(x), NEW m, NEW hears
    PROVE  IsPart(AfterControlChange(x, m)) /\ IsPart(Heard(hears, x, m))
  <1>1. \A value : IsPart(Edited(x, value))
    BY SetByteFacts DEF Edited
  <1>2. \A controller, value : IsPart(Controlled(x, controller, value))
    BY SetByteFacts DEF Controlled
  <1>3. \A v : IsPart(WithDataMsb(x, v)) /\ IsPart(WithNrpnMsb(x, v)) /\ IsPart(WithNrpn(x, v))
    BY PartsWith
  <1>4. IsPart(AfterControlChange(x, m))
    BY <1>1, <1>2, <1>3, ChangedBy
  <1> QED BY <1>4 DEF Heard

\* The messages on the wire lead somewhere.
LEMMA Followed ==
    ASSUME NEW hears, NEW x, IsPart(x), NEW messages, NEW n \in Nat
    PROVE  \E f : Follows(f, hears, x, messages, n)
  <1> DEFINE S == {k \in 0..n : \E f : Follows(f, hears, x, messages, k)}
  <1>1. 0 \in S
    <2> DEFINE f == [i \in 0..0 |-> x]
    <2>1. Follows(f, hears, x, messages, 0)
      BY DEF Follows
    <2> HIDE DEF f
    <2> QED BY <2>1
  <1>2. ASSUME NEW k \in 1..n, k - 1 \in S
        PROVE  k \in S
    <2>1. PICK f : Follows(f, hears, x, messages, k - 1)
      BY <1>2
    <2> DEFINE g == [i \in 0..k |-> IF i = k THEN Heard(hears, f[k - 1], messages[k]) ELSE f[i]]
    <2>2. g[0] = x
      <3>1. 0 \in 0..k /\ 0 # k
        OBVIOUS
      <3> QED BY <2>1, <3>1 DEF Follows
    <2>3. ASSUME NEW i \in 1..k
          PROVE  g[i] = Heard(hears, g[i - 1], messages[i]) /\ IsPart(g[i])
      <3>1. i \in 0..k /\ i - 1 \in 0..k /\ i - 1 # k /\ g[i - 1] = f[i - 1] /\ i - 1 \in 0..(k - 1)
        OBVIOUS
      <3>2. IsPart(f[i - 1])
        BY <2>1, <3>1 DEF Follows
      <3>3. g[i] = Heard(hears, f[i - 1], messages[i])
        <4>1. CASE i = k
          BY <3>1, <4>1
        <4>2. CASE i # k
          <5>1. i \in 1..(k - 1) /\ g[i] = f[i]
            BY <4>2
          <5> QED BY <2>1, <5>1 DEF Follows
        <4> QED BY <4>1, <4>2
      <3> HIDE DEF g
      <3> QED BY <3>1, <3>2, <3>3, HeardIsPart
    <2> HIDE DEF g
    <2>4. \A i \in 0..k : i = 0 \/ i \in 1..k
      OBVIOUS
    <2>5. Follows(g, hears, x, messages, k)
      BY <2>2, <2>3, <2>4 DEF Follows
    <2> QED BY <2>5
  <1> HIDE DEF S
  <1>3. n \in 0..n /\ \A k \in 0..n : k \in S
    BY <1>1, <1>2, InductionUpTo
  <1> QED BY <1>3 DEF S

\* One more message.
LEMMA OneMore ==
    ASSUME NEW hears, NEW x, NEW messages, NEW n \in Nat, NEW f, Follows(f, hears, x, messages, n)
    PROVE  \E g : /\ Follows(g, hears, x, messages, n + 1)
                  /\ g[n + 1] = Heard(hears, f[n], messages[n + 1])
  <1> DEFINE g == [i \in 0..(n + 1) |->
                      IF i = n + 1 THEN Heard(hears, f[n], messages[n + 1]) ELSE f[i]]
  <1>1. /\ f[0] = x /\ \A i \in 0..n : IsPart(f[i])
        /\ \A i \in 1..n : f[i] = Heard(hears, f[i - 1], messages[i])
    BY DEF Follows
  <1>2. \A i \in 0..n : g[i] = f[i]
    OBVIOUS
  <1>3. g[n + 1] = Heard(hears, f[n], messages[n + 1])
    OBVIOUS
  <1> HIDE DEF g
  <1>4. IsPart(g[n + 1]) /\ 0 \in 0..n /\ n \in 0..n
    BY <1>1, <1>3, HeardIsPart
  <1>5. ASSUME NEW i \in 1..(n + 1)
        PROVE  g[i] = Heard(hears, g[i - 1], messages[i])
    <2>1. i - 1 \in 0..n
      OBVIOUS
    <2>2. CASE i = n + 1
      BY <1>2, <1>3, <2>1, <2>2
    <2>3. CASE i # n + 1
      <3>1. i \in 1..n /\ i \in 0..n
        BY <2>3
      <3> QED BY <1>1, <1>2, <2>1, <3>1
    <2> QED BY <2>2, <2>3
  <1>6. \A i \in 0..(n + 1) : i \in 0..n \/ i = n + 1
    OBVIOUS
  <1>7. Follows(g, hears, x, messages, n + 1)
    BY <1>1, <1>2, <1>4, <1>5, <1>6 DEF Follows
  <1> QED BY <1>3, <1>7

\* One message less, when it has arrived.
LEMMA OneLess ==
    ASSUME NEW f, NEW hears, NEW x, NEW messages \in Seq(MessageType), messages # <<>>,
           Follows(f, hears, x, messages, Len(messages))
    PROVE  \E g : /\ Follows(g, hears, Heard(hears, x, Head(messages)), Tail(messages),
                          Len(Tail(messages)))
                  /\ g[Len(Tail(messages))] = f[Len(messages)]
  <1> DEFINE n == Len(messages) - 1
             rest == Tail(messages)
             g == [i \in 0..n |-> f[i + 1]]
  <1>1. n \in Nat /\ Len(rest) = n /\ Head(messages) = messages[1] /\ Len(messages) = n + 1
    OBVIOUS
  <1>2. \A i \in 1..n : rest[i] = messages[i + 1]
    OBVIOUS
  <1> HIDE DEF n, rest
  <1>3. /\ f[0] = x /\ \A i \in 0..(n + 1) : IsPart(f[i])
        /\ \A i \in 1..(n + 1) : f[i] = Heard(hears, f[i - 1], messages[i])
    BY <1>1 DEF Follows
  <1>4. \A i \in 0..n : g[i] = f[i + 1] /\ i + 1 \in 1..(n + 1) /\ i + 1 \in 0..(n + 1)
    BY <1>1
  <1> HIDE DEF g
  <1>5. g[0] = Heard(hears, x, messages[1])
    <2>1. 0 \in 0..n /\ 0 + 1 = 1 /\ 1 \in 1..(n + 1) /\ 1 - 1 = 0
      BY <1>1
    <2> QED BY <1>3, <1>4, <2>1
  <1>6. \A i \in 0..n : IsPart(g[i])
    BY <1>3, <1>4
  <1>7. ASSUME NEW i \in 1..n
        PROVE  g[i] = Heard(hears, g[i - 1], rest[i])
    <2>1. i \in 0..n /\ i - 1 \in 0..n /\ (i - 1) + 1 = i /\ (i + 1) - 1 = i /\ i + 1 \in 1..(n + 1)
      BY <1>1
    <2> QED BY <1>2, <1>3, <1>4, <2>1
  <1>8. n \in 0..n
    BY <1>1
  <1>9. g[n] = f[n + 1]
    BY <1>4, <1>8
  <1>10. Follows(g, hears, Heard(hears, x, messages[1]), rest, n)
    BY <1>5, <1>6, <1>7 DEF Follows
  <1> QED BY <1>1, <1>9, <1>10 DEF rest

-----------------------------------------------------------------------------
(* Sending.                                                                *)

\* w is what was there before, and then n messages.
Carries(w, before, messages, n) ==
    /\ Len(w) = Len(before) + n
    /\ \A i \in 1..Len(before) : w[i] = before[i]
    /\ \A i \in 1..n : w[Len(before) + i] = messages[i]

Buffers == Seq(MessageType) \X BOOLEAN

LEMMA OverwrittenFacts ==
    ASSUME NEW c \in Buffers, NEW m \in MessageType, NEW b \in Overwritten(c, m)
    PROVE  /\ b \in Buffers
           /\ b[2] = FALSE => c[2] = FALSE /\ b[1] = Append(c[1], m)
  <1> DEFINE a == Append(c[1], m)
             o == <<m>>
  <1>1. c[1] \in Seq(MessageType) /\ c[2] \in BOOLEAN
    BY DEF Buffers
  <1>2. a \in Seq(MessageType) /\ o \in Seq(MessageType)
    BY <1>1
  <1>3. b = <<a, c[2]>> \/ b = <<c[1], TRUE>> \/ b = <<o, TRUE>>
    BY DEF Overwritten
  <1> HIDE DEF a, o
  <1>4. CASE b = <<a, c[2]>>
    BY <1>1, <1>2, <1>4 DEF Buffers, a
  <1>5. CASE b = <<c[1], TRUE>>
    BY <1>1, <1>5 DEF Buffers
  <1>6. CASE b = <<o, TRUE>>
    BY <1>2, <1>6 DEF Buffers
  <1> QED BY <1>3, <1>4, <1>5, <1>6

LEMMA Pairs ==
    ASSUME NEW A, NEW a \in A
    PROVE  <<a, FALSE>> \in A \X BOOLEAN
  OBVIOUS

\* After the first i messages, the buffer is one of them.
LEMMA SentFacts ==
    ASSUME wire \in Seq(MessageType), NEW messages \in Seq(MessageType), NEW b \in Sent(messages)
    PROVE  b \in Buffers /\ (b[2] = FALSE => Carries(b[1], wire, messages, Len(messages)))
  <1> DEFINE n == Len(messages)
             V == SUBSET Buffers
             more(y, i) == UNION {Overwritten(c, messages[i]) : c \in y}
             G == [i \in 1..n |-> [y \in V |-> more(y, i)]]
             first == {<<wire, FALSE>>}
             after == CHOOSE x : x = [i \in 0..n |-> IF i = 0 THEN first ELSE more(x[i - 1], i)]
  <1>1. Sent(messages) = after[n]
    BY DEF Sent
  <1>2. n \in Nat /\ \A i \in 1..n : messages[i] \in MessageType
    OBVIOUS
  <1> HIDE DEF n
  <1>3. \A y \in V : \A i \in 1..n : more(y, i) \in V
    <2>1. \A y \in V : \A i \in 1..n : \A c \in y : Overwritten(c, messages[i]) \subseteq Buffers
      BY <1>2, OverwrittenFacts
    <2> QED BY <2>1
  <1>4. first \in V /\ <<wire, FALSE>> \in Buffers
    BY Pairs DEF Buffers
  <1> HIDE DEF more, first
  <1>5. G \in [1..n -> [V -> V]]
    BY <1>3
  <1> HIDE DEF G
  <1>6. PICK g \in [0..n -> V] : Recurs(g, n, first, G)
    <2> HIDE DEF V
    <2>1. n \in Nat /\ first \in V
      BY <1>2, <1>4
    <2>2. \E g \in [0..n -> V] : Recurs(g, n, first, G)
      BY <1>5, <2>1, RecursiveFunction
    <2> QED BY <2>2
  <1>7. ASSUME NEW i \in 0..n
        PROVE  g[i] = IF i = 0 THEN first ELSE more(g[i - 1], i)
    <2>1. CASE i = 0
      BY <1>6, <2>1 DEF Recurs
    <2>2. CASE i # 0
      <3>1. i \in 1..n /\ i - 1 \in 0..n /\ i \in Nat
        BY <1>2, <2>2
      <3>2. g[i - 1] \in V
        BY <3>1
      <3>3. g[i] = G[i][g[i - 1]]
        BY <1>6, <2>2 DEF Recurs
      <3> QED BY <2>2, <3>1, <3>2, <3>3 DEF G
    <2> QED BY <2>1, <2>2
  <1>8. g = [i \in 0..n |-> IF i = 0 THEN first ELSE more(g[i - 1], i)]
    <2>1. g = [i \in 0..n |-> g[i]]
      OBVIOUS
    <2> QED BY <1>7, <2>1
  <1>9. after = [i \in 0..n |-> IF i = 0 THEN first ELSE more(after[i - 1], i)]
    BY <1>8, Zenon
  <1> HIDE DEF after
  <1>10. after[0] = first /\ \A i \in 1..n : after[i] = more(after[i - 1], i)
    <2> DEFINE entry(i) == IF i = 0 THEN first ELSE more(after[i - 1], i)
    <2>1. after = [i \in 0..n |-> entry(i)]
      BY <1>9
    <2> HIDE DEF entry
    <2>2. \A i \in 0..n : after[i] = entry(i)
      BY <2>1
    <2>3. \A i \in 1..n : i \in 0..n /\ i # 0
      OBVIOUS
    <2> QED BY <1>2, <2>2, <2>3 DEF entry
  <1> DEFINE S == {i \in 0..n : \A c \in after[i] :
                      c \in Buffers /\ (c[2] = FALSE => Carries(c[1], wire, messages, i))}
  <1>11. 0 \in S
    <2>1. \A c \in after[0] : c = <<wire, FALSE>>
      BY <1>10 DEF first
    <2>2. Carries(wire, wire, messages, 0)
      BY SeqFacts DEF Carries
    <2>3. 0 \in 0..n
      BY <1>2
    <2>4. ASSUME NEW c \in after[0]
          PROVE  c \in Buffers /\ (c[2] = FALSE => Carries(c[1], wire, messages, 0))
      <3>1. c = <<wire, FALSE>>
        BY <2>1, Zenon
      <3>2. c[1] = wire
        BY <3>1
      <3> QED BY <1>4, <2>2, <3>1, <3>2
    <2> QED BY <2>3, <2>4
  <1>12. ASSUME NEW i \in 1..n, i - 1 \in S
         PROVE  i \in S
    <2>1. i \in 0..n
      OBVIOUS
    <2>2. ASSUME NEW c \in after[i]
          PROVE  c \in Buffers /\ (c[2] = FALSE => Carries(c[1], wire, messages, i))
      <3>1. PICK d \in after[i - 1] : c \in Overwritten(d, messages[i])
        BY <1>10, <2>2 DEF more
      <3>2. d \in Buffers /\ (d[2] = FALSE => Carries(d[1], wire, messages, i - 1))
        BY <1>12, <3>1
      <3>3. c \in Buffers /\ (c[2] = FALSE => d[2] = FALSE /\ c[1] = Append(d[1], messages[i]))
        BY <1>2, <3>1, <3>2, OverwrittenFacts
      <3>4. ASSUME Carries(d[1], wire, messages, i - 1), NEW w, w = Append(d[1], messages[i])
            PROVE  Carries(w, wire, messages, i)
        <4>1. PICK u : u = d[1]
          OBVIOUS
        <4>2. /\ u \in Seq(MessageType) /\ Carries(u, wire, messages, i - 1)
              /\ w = Append(u, messages[i])
          BY <3>2, <3>4, <4>1 DEF Buffers
        <4>3. /\ Len(w) = Len(u) + 1 /\ w[Len(u) + 1] = messages[i]
              /\ \A j \in 1..Len(u) : w[j] = u[j]
          BY <1>2, <4>2
        <4>4. Len(wire) \in Nat /\ Len(u) = Len(wire) + (i - 1)
          BY <4>2 DEF Carries
        <4>5. \A j \in 1..Len(wire) : w[j] = wire[j]
          BY <4>2, <4>3, <4>4 DEF Carries
        <4>6. ASSUME NEW j \in 1..i
              PROVE  w[Len(wire) + j] = messages[j]
          <5>1. CASE j = i
            BY <4>3, <4>4, <5>1
          <5>2. CASE j # i
            <6>1. j \in 1..(i - 1) /\ Len(wire) + j \in 1..Len(u)
              BY <4>4, <5>2
            <6> QED BY <4>2, <4>3, <6>1 DEF Carries
          <5> QED BY <5>1, <5>2
        <4> QED BY <4>3, <4>4, <4>5, <4>6 DEF Carries
      <3> QED BY <3>2, <3>3, <3>4
    <2> QED BY <2>1, <2>2
  <1>13. n \in S
    <2> HIDE DEF S
    <2>1. \A i \in 0..n : i \in S
      BY <1>2, <1>11, <1>12, InductionUpTo
    <2> QED BY <1>2, <2>1
  <1> QED BY <1>1, <1>13 DEF n

-----------------------------------------------------------------------------
(* What the other unit makes of an edit.                                   *)

LEMMA MessageFields ==
    ASSUME NEW channel, NEW controller, NEW value, NEW m, m = Message(channel, controller, value)
    PROVE  m.channel = channel /\ m.controller = controller /\ m.value = value
  BY DEF Message

LEMMA HighBit ==
    ASSUME NEW value \in 0..255, NEW v, v = IF msb(value) = 0 THEN 0 ELSE 128
    PROVE  U7(value) + v = value
  BY DEF msb, U7

LEMMA DataMsbHeard ==
    ASSUME NEW x, IsPart(x), NEW m, m.controller = kDataEntryMsb
    PROVE  /\ IsPart(AfterControlChange(x, m)) /\ AfterControlChange(x, m).nrpn = x.nrpn
           /\ AfterControlChange(x, m).data_msb = IF m.value = 0 THEN 0 ELSE 128
  BY ChangedBy, PartsWith

LEMMA DataLsbHeard ==
    ASSUME NEW x, IsPart(x), NEW m, m.controller = kDataEntryLsb,
           AddressToParameterId(x.nrpn) # kNoParameter
    PROVE  AfterControlChange(x, m) =
               SetByte(x, x.nrpn,
                       Clamp(parameter(AddressToParameterId(x.nrpn)), m.value + x.data_msb))
  BY ChangedBy DEF Edited, Addressed

LEMMA NrpnMsbHeard ==
    ASSUME NEW x, IsPart(x), NEW m, m.controller = kNrpnMsb
    PROVE  /\ IsPart(AfterControlChange(x, m))
           /\ AfterControlChange(x, m).nrpn_msb = IF m.value = 0 THEN 0 ELSE 128
  BY ChangedBy, PartsWith

LEMMA NrpnLsbHeard ==
    ASSUME NEW x, IsPart(x), NEW m, m.controller = kNrpnLsb
    PROVE  AfterControlChange(x, m).nrpn = m.value + x.nrpn_msb
  BY ChangedBy, PartsWith

\* The messages of a value and of an address, after n messages.
DataAt(messages, n, channel, value) ==
    /\ messages[n + 1] = Message(channel, kDataEntryMsb, msb(value))
    /\ messages[n + 2] = Message(channel, kDataEntryLsb, U7(value))
AddressAt(messages, n, channel, address) ==
    /\ messages[n + 1] = Message(channel, kNrpnMsb, msb(address))
    /\ messages[n + 2] = Message(channel, kNrpnLsb, U7(address))

\* An address and a value that an edit may have.
Takes(address, value) ==
    /\ address \in 0..255 /\ value \in 0..255
    /\ AddressToParameterId(address) # kNoParameter
    /\ Clamp(parameter(AddressToParameterId(address)), value) = value

\* With the first n messages, a part that is x comes to the address, and to the value there.
Leads(hears, x, messages, n, address) ==
    \E f : Follows(f, hears, x, messages, n) /\ f[n].nrpn = address
LeadsTo(hears, x, messages, n, address, value) ==
    \E f : /\ Follows(f, hears, x, messages, n) /\ f[n].nrpn = address
           /\ GetValue(f[n], address) = value

\* The two messages of a value, sent to a part that is at the address.
LEMMA DataFollows ==
    ASSUME NEW hears, NEW x, NEW messages, NEW n \in Nat, NEW address, NEW value,
           Leads(hears, x, messages, n, address), Takes(address, value),
           NEW channel \in hears, DataAt(messages, n, channel, value)
    PROVE  LeadsTo(hears, x, messages, n + 2, address, value)
  <1>0. PICK f : Follows(f, hears, x, messages, n) /\ f[n].nrpn = address
    BY DEF Leads
  <1>1. PICK g : /\ Follows(g, hears, x, messages, n + 1)
                 /\ g[n + 1] = Heard(hears, f[n], messages[n + 1])
    BY <1>0, OneMore
  <1>2. n + 1 \in Nat /\ (n + 1) + 1 = n + 2
    OBVIOUS
  <1>3. PICK h : /\ Follows(h, hears, x, messages, n + 2)
                 /\ h[n + 2] = Heard(hears, g[n + 1], messages[n + 2])
    <2>1. \E h : /\ Follows(h, hears, x, messages, (n + 1) + 1)
                 /\ h[(n + 1) + 1] = Heard(hears, g[n + 1], messages[(n + 1) + 1])
      BY <1>1, <1>2, OneMore
    <2> QED BY <1>2, <2>1
  <1>4. /\ messages[n + 1].channel = channel /\ messages[n + 2].channel = channel
        /\ messages[n + 1].controller = kDataEntryMsb /\ messages[n + 1].value = msb(value)
        /\ messages[n + 2].controller = kDataEntryLsb /\ messages[n + 2].value = U7(value)
    BY MessageFields DEF DataAt
  <1>5. IsPart(f[n]) /\ f[n].nrpn = address
    BY <1>0 DEF Follows
  <1>6. PICK u, v, w, d, e : /\ u = f[n] /\ v = g[n + 1] /\ w = h[n + 2]
                             /\ d = messages[n + 1] /\ e = messages[n + 2]
    OBVIOUS
  <1>7. v = AfterControlChange(u, d) /\ w = AfterControlChange(v, e)
    BY <1>1, <1>3, <1>4, <1>6 DEF Heard
  <1>8. /\ d.controller = kDataEntryMsb /\ d.value = msb(value)
        /\ e.controller = kDataEntryLsb /\ e.value = U7(value)
        /\ IsPart(u) /\ u.nrpn = address
    BY <1>4, <1>5, <1>6
  <1>9. IsPart(v) /\ v.nrpn = address /\ v.data_msb = IF d.value = 0 THEN 0 ELSE 128
    BY <1>7, <1>8, DataMsbHeard
  <1>10. e.value + v.data_msb = value
    BY <1>8, <1>9, HighBit DEF Takes
  <1>11. w = SetByte(v, address, value)
    BY <1>7, <1>8, <1>9, <1>10, DataLsbHeard DEF Takes
  <1>12. w.nrpn = address /\ GetValue(w, address) = value
    BY <1>9, <1>11, SetByteFacts
  <1> QED BY <1>3, <1>6, <1>12 DEF LeadsTo

\* The two messages of an address, wherever the part is.
LEMMA AddressFollows ==
    ASSUME NEW hears, NEW x, NEW messages, NEW n \in Nat, NEW f, Follows(f, hears, x, messages, n),
           NEW address \in 0..255, NEW channel \in hears, AddressAt(messages, n, channel, address)
    PROVE  Leads(hears, x, messages, n + 2, address)
  <1>1. PICK g : /\ Follows(g, hears, x, messages, n + 1)
                 /\ g[n + 1] = Heard(hears, f[n], messages[n + 1])
    BY OneMore
  <1>2. n + 1 \in Nat /\ (n + 1) + 1 = n + 2
    OBVIOUS
  <1>3. PICK h : /\ Follows(h, hears, x, messages, n + 2)
                 /\ h[n + 2] = Heard(hears, g[n + 1], messages[n + 2])
    <2>1. \E h : /\ Follows(h, hears, x, messages, (n + 1) + 1)
                 /\ h[(n + 1) + 1] = Heard(hears, g[n + 1], messages[(n + 1) + 1])
      BY <1>1, <1>2, OneMore
    <2> QED BY <1>2, <2>1
  <1>4. /\ messages[n + 1].channel = channel /\ messages[n + 2].channel = channel
        /\ messages[n + 1].controller = kNrpnMsb /\ messages[n + 1].value = msb(address)
        /\ messages[n + 2].controller = kNrpnLsb /\ messages[n + 2].value = U7(address)
    BY MessageFields DEF AddressAt
  <1>5. IsPart(f[n])
    BY DEF Follows
  <1>6. PICK u, v, w, d, e : /\ u = f[n] /\ v = g[n + 1] /\ w = h[n + 2]
                             /\ d = messages[n + 1] /\ e = messages[n + 2]
    OBVIOUS
  <1>7. v = AfterControlChange(u, d) /\ w = AfterControlChange(v, e)
    BY <1>1, <1>3, <1>4, <1>6 DEF Heard
  <1>8. /\ d.controller = kNrpnMsb /\ d.value = msb(address)
        /\ e.controller = kNrpnLsb /\ e.value = U7(address) /\ IsPart(u)
    BY <1>4, <1>5, <1>6
  <1>9. IsPart(v) /\ v.nrpn_msb = IF d.value = 0 THEN 0 ELSE 128
    BY <1>7, <1>8, NrpnMsbHeard
  <1>10. e.value + v.nrpn_msb = address
    BY <1>8, <1>9, HighBit
  <1>11. w.nrpn = address
    BY <1>7, <1>8, <1>9, <1>10, NrpnLsbHeard
  <1> QED BY <1>3, <1>6, <1>11 DEF Leads

\* With the same messages and more.
LEMMA SameFollows ==
    ASSUME NEW f, NEW hears, NEW x, NEW messages, NEW more, NEW n \in Nat,
           \A i \in 1..n : more[i] = messages[i], Follows(f, hears, x, messages, n)
    PROVE  Follows(f, hears, x, more, n)
  BY DEF Follows

LEMMA ReachedWithData ==
    ASSUME NEW x, NEW w \in Seq(MessageType), NEW hears, NEW address, NEW edited, NEW old,
           Reached(x, w, hears, address, edited, old), NEW value, Takes(address, value),
           NEW channel \in hears, NEW messages, DataAt(messages, 0, channel, value),
           NEW v \in Seq(MessageType), Carries(v, w, messages, 2), NEW now
    PROVE  Reached(x, v, hears, address, now, value)
  <1>1. PICK n \in Nat : n = Len(w)
    OBVIOUS
  <1>2. PICK f : Follows(f, hears, x, w, n) /\ f[n].nrpn = address
    BY <1>1 DEF Reached
  <1>3. /\ Len(v) = n + 2 /\ \A i \in 1..n : v[i] = w[i]
        /\ v[n + 1] = messages[1] /\ v[n + 2] = messages[2]
    BY <1>1 DEF Carries
  <1>4. Leads(hears, x, v, n, address)
    BY <1>2, <1>3, SameFollows DEF Leads
  <1>5. DataAt(v, n, channel, value)
    BY <1>3 DEF DataAt
  <1>6. LeadsTo(hears, x, v, n + 2, address, value)
    BY <1>4, <1>5, DataFollows
  <1> QED BY <1>3, <1>6 DEF Reached, LeadsTo

LEMMA ReachedWithAddress ==
    ASSUME NEW x, IsPart(x), NEW w \in Seq(MessageType), NEW hears, NEW address, NEW value,
           Takes(address, value), NEW channel \in hears, NEW messages,
           AddressAt(messages, 0, channel, address), DataAt(messages, 2, channel, value),
           NEW v \in Seq(MessageType), Carries(v, w, messages, 4), NEW now
    PROVE  Reached(x, v, hears, address, now, value)
  <1>1. PICK n \in Nat : n = Len(w)
    OBVIOUS
  <1>2. PICK f : Follows(f, hears, x, w, n)
    BY <1>1, Followed
  <1>3. /\ Len(v) = n + 4 /\ \A i \in 1..n : v[i] = w[i]
        /\ v[n + 1] = messages[1] /\ v[n + 2] = messages[2]
        /\ v[n + 3] = messages[3] /\ v[n + 4] = messages[4]
    BY <1>1 DEF Carries
  <1>4. Follows(f, hears, x, v, n)
    BY <1>2, <1>3, SameFollows
  <1>5. AddressAt(v, n, channel, address) /\ address \in 0..255
    BY <1>3 DEF AddressAt, Takes
  <1>6. Leads(hears, x, v, n + 2, address)
    BY <1>4, <1>5, AddressFollows
  <1>7. PICK k \in Nat : k = n + 2
    OBVIOUS
  <1>8. k + 1 = n + 3 /\ k + 2 = n + 4
    BY <1>7
  <1>9. DataAt(v, k, channel, value)
    BY <1>3, <1>8 DEF DataAt
  <1>10. LeadsTo(hears, x, v, k + 2, address, value)
    BY <1>6, <1>7, <1>9, DataFollows
  <1> QED BY <1>3, <1>8, <1>10 DEF Reached, LeadsTo

LEMMA JoinedPairs ==
    ASSUME NEW S, NEW a \in S, NEW b \in S, NEW c \in S, NEW d \in S,
           NEW s, s = <<a, b>>, NEW t, t = <<c, d>>, NEW m, m = s \o t, NEW n, n = <<>> \o t
    PROVE  /\ m \in Seq(S) /\ Len(m) = 4 /\ m[1] = a /\ m[2] = b /\ m[3] = c /\ m[4] = d
           /\ n \in Seq(S) /\ Len(n) = 2 /\ n[1] = c /\ n[2] = d
  <1>1. s \in Seq(S) /\ Len(s) = 2 /\ s[1] = a /\ s[2] = b
    OBVIOUS
  <1>2. t \in Seq(S) /\ Len(t) = 2 /\ t[1] = c /\ t[2] = d
    OBVIOUS
  <1>3. m \in Seq(S) /\ Len(m) = 4
    BY <1>1, <1>2
  <1>4. m[1] = a /\ m[2] = b /\ m[3] = c /\ m[4] = d
    BY <1>1, <1>2
  <1>5. n = t
    BY <1>2
  <1> QED BY <1>2, <1>3, <1>4, <1>5

\* The messages of an edit.
MessagesOf(addressed, channel, address, value) ==
    (IF addressed THEN AddressMessages(channel, address) ELSE <<>>) \o DataMessages(channel, value)

LEMMA EditMessages ==
    ASSUME NEW channel, channel \in Int, NEW address, NEW value, Takes(address, value),
           NEW addressed, addressed \in BOOLEAN,
           NEW messages, messages = MessagesOf(addressed, channel, address, value)
    PROVE  /\ messages \in Seq(MessageType) /\ Len(messages) = IF addressed THEN 4 ELSE 2
           /\ addressed => /\ AddressAt(messages, 0, channel, address)
                           /\ DataAt(messages, 2, channel, value)
           /\ ~addressed => DataAt(messages, 0, channel, value)
  <1>1. PICK a, b, c, d : /\ a = Message(channel, kNrpnMsb, msb(address))
                          /\ b = Message(channel, kNrpnLsb, U7(address))
                          /\ c = Message(channel, kDataEntryMsb, msb(value))
                          /\ d = Message(channel, kDataEntryLsb, U7(value))
    OBVIOUS
  <1>2. a \in MessageType /\ b \in MessageType /\ c \in MessageType /\ d \in MessageType
    BY <1>1
    DEF Takes, Message, MessageType, msb, U7, kNrpnMsb, kNrpnLsb, kDataEntryMsb, kDataEntryLsb
  <1>3. PICK s, t : s = <<a, b>> /\ t = <<c, d>>
    OBVIOUS
  <1>4. PICK m, n : m = s \o t /\ n = <<>> \o t
    OBVIOUS
  <1>5. /\ m \in Seq(MessageType) /\ Len(m) = 4 /\ m[1] = a /\ m[2] = b /\ m[3] = c /\ m[4] = d
        /\ n \in Seq(MessageType) /\ Len(n) = 2 /\ n[1] = c /\ n[2] = d
    BY <1>2, <1>3, <1>4, JoinedPairs
  <1>6. messages = IF addressed THEN m ELSE n
    BY <1>1, <1>3, <1>4 DEF MessagesOf, AddressMessages, DataMessages
  <1>7. 0 + 1 = 1 /\ 0 + 2 = 2 /\ 2 + 1 = 3 /\ 2 + 2 = 4
    OBVIOUS
  <1>8. /\ AddressAt(m, 0, channel, address) /\ DataAt(m, 2, channel, value)
        /\ DataAt(n, 0, channel, value)
    BY <1>1, <1>5, <1>7 DEF AddressAt, DataAt
  <1>9. CASE addressed
    <2>1. messages = m
      BY <1>6, <1>9
    <2> QED BY <1>5, <1>8, <1>9, <2>1, Zenon
  <1>10. CASE ~addressed
    <2>1. messages = n
      BY <1>6, <1>10
    <2> QED BY <1>5, <1>8, <1>10, <2>1, Zenon
  <1> QED BY <1>9, <1>10

-----------------------------------------------------------------------------
(* The invariant of the edits.                                             *)

Bytes == 0..255
Counts == 0..(kDataEntryResendRate - 1)
SenderWith(s, a, c, h, l, n) ==
    [s EXCEPT !.address = a, !.counter = c, !.channel = h, !.last = l, !.since = n]

LEMMA SenderFields ==
    ASSUME NEW s, IsSender(s), NEW a, a \in Bytes, NEW c, c \in Counts, NEW h, h \in Int, NEW l,
           NEW n, n \in Nat, NEW t, t = SenderWith(s, a, c, h, l, n)
    PROVE  /\ IsSender(t) /\ t.address = a /\ t.counter = c /\ t.channel = h /\ t.last = l
           /\ t.since = n
  <1>1. t = [s EXCEPT !.address = a, !.counter = c, !.channel = h, !.last = l, !.since = n]
    BY DEF SenderWith
  <1>2. t = [address |-> a, counter |-> c, channel |-> h, last |-> l, since |-> n,
             others |-> s.others]
    BY <1>1 DEF IsSender
  <1> QED BY <1>2 DEF IsSender, Bytes, Counts

\* What is sent to a channel, the parts of that channel hear.
LEMMA PartHearsItself ==
    ASSUME mapping \in Maps, NEW part \in Parts
    PROVE  /\ tx_channel(mapping[part]) \in Int
           /\ part \in Receivers(tx_channel(mapping[part]))
  <1>1. mapping[part].midi_channel \in Nat
    BY DEF Maps
  <1> QED BY <1>1 DEF tx_channel, Receivers, receive_channel

LEMMA OnEditKeeps ==
    ASSUME EditInv, UNCHANGED mapping, NEW mode, NEW channel \in Int, NEW part \in Parts,
           part \in Receivers(channel), NEW address, address # 255, NEW edited,
           Takes(address, Remapped(mode, address, edited)),
           OnEdit(mode, channel, part, address, edited)
    PROVE  EditInv'
  <1> DEFINE value == Remapped(mode, address, edited)
             messages == (IF NeedsAddress(sender, address) THEN AddressMessages(channel, address)
                          ELSE <<>>) \o DataMessages(channel, value)
             n == IF NeedsAddress(sender, address) THEN 4 ELSE 2
             last == [part |-> part, address |-> address, value |-> value]
  <1>1. PICK b \in Sent(messages) :
          /\ wire' = b[1] /\ far' = far
          /\ sender' = [sender EXCEPT
               !.address = IF NeedsAddress(sender, address) THEN address ELSE @,
               !.counter = IF NeedsAddress(sender, address) THEN 0 ELSE @ + 1,
               !.channel = IF NeedsAddress(sender, address) THEN channel ELSE @,
               !.last = last,
               !.since = IF b[2] \/ (~NeedsAddress(sender, address) /\ channel # sender.channel)
                         THEN 0 ELSE IF @ >= kDataEntryResendRate THEN @ ELSE @ + 1]
    BY DEF OnEdit
  <1>2. PICK addressed \in BOOLEAN : addressed = NeedsAddress(sender, address)
    BY DEF NeedsAddress
  <1>3. /\ wire \in Seq(MessageType) /\ IsSender(sender)
        /\ far = [p \in Parts |-> far[p]] /\ \A p \in Parts : IsPart(far[p])
        /\ sender.address # 255 =>
              (Told => \A p \in Receivers(sender.channel) : Reaches(p))
    BY DEF EditInv
  <1>4. Takes(address, value) /\ address \in 0..255 /\ value \in 0..255
    BY DEF Takes
  <1>5. last.part = part /\ last.address = address /\ last.value = value
    OBVIOUS
  <1> HIDE DEF value, last
  <1>6. /\ messages \in Seq(MessageType) /\ Len(messages) = n
        /\ addressed => /\ AddressAt(messages, 0, channel, address)
                        /\ DataAt(messages, 2, channel, value)
        /\ ~addressed => DataAt(messages, 0, channel, value)
    <2>1. messages = MessagesOf(addressed, channel, address, value)
      BY <1>2 DEF MessagesOf
    <2>2. n = IF addressed THEN 4 ELSE 2
      BY <1>2
    <2> HIDE DEF messages, n
    <2> QED BY <1>4, <2>1, <2>2, EditMessages
  <1>7. n = IF addressed THEN 4 ELSE 2
    BY <1>2
  <1> HIDE DEF messages, n
  <1>8. b \in Buffers /\ (b[2] = FALSE => Carries(b[1], wire, messages, n))
    BY <1>3, <1>6, SentFacts
  <1>9. wire' \in Seq(MessageType) /\ b[2] \in BOOLEAN
    BY <1>1, <1>8 DEF Buffers
  <1>10. PICK since0 : since0 = IF b[2] \/ (~addressed /\ channel # sender.channel) THEN 0
                                ELSE IF sender.since >= kDataEntryResendRate THEN sender.since
                                     ELSE sender.since + 1
    OBVIOUS
  <1>11. PICK counter0 : counter0 = IF addressed THEN 0 ELSE sender.counter + 1
    OBVIOUS
  <1>12. PICK channel0 : channel0 = IF addressed THEN channel ELSE sender.channel
    OBVIOUS
  <1>13. ~addressed => sender.address = address /\ sender.counter + 1 < kDataEntryResendRate
    <2>1. ~addressed => ~NeedsAddress(sender, address)
      BY <1>2
    <2>2. sender.counter \in Nat /\ kDataEntryResendRate \in Nat
      BY <1>3, EditLinkAssumption DEF IsSender
    <2> QED BY <2>1, <2>2 DEF NeedsAddress
  <1>14. (IF addressed THEN address ELSE sender.address) = address
    BY <1>13
  <1>15. since0 \in Nat /\ counter0 \in 0..(kDataEntryResendRate - 1) /\ channel0 \in Int
    BY <1>3, <1>10, <1>11, <1>12, <1>13, EditLinkAssumption DEF IsSender
  <1>16. sender' = SenderWith(sender, address, counter0, channel0, last, since0)
    BY <1>1, <1>2, <1>10, <1>11, <1>12, <1>14 DEF SenderWith
  <1>17. /\ IsSender(sender') /\ sender'.address = address /\ sender'.counter = counter0
         /\ sender'.channel = channel0 /\ sender'.last = last /\ sender'.since = since0
    <2>1. address \in Bytes /\ counter0 \in Counts
      BY <1>4, <1>15 DEF Bytes, Counts
    <2> QED BY <1>3, <1>15, <1>16, <2>1, SenderFields
  <1>18. ASSUME counter0 < since0
         PROVE  part \in Receivers(channel0) /\ \A p \in Receivers(channel0) : Reaches(p)'
    <2>1. /\ b[2] = FALSE /\ (addressed \/ channel = sender.channel)
          /\ ~addressed => sender.counter < sender.since
      BY <1>3, <1>9, <1>10, <1>11, <1>18 DEF IsSender
    <2>2. channel0 = channel /\ Carries(wire', wire, messages, n)
      BY <1>1, <1>8, <1>12, <2>1
    <2>3. ASSUME NEW p \in Receivers(channel)
          PROVE  Reached(far[p], wire', Hears(p), address, p = part, value)
      <3>1. p \in Parts /\ IsPart(far[p]) /\ channel \in Hears(p)
        BY <1>3 DEF Receivers, Hears
      <3>2. CASE addressed
        BY <1>3, <1>4, <1>6, <1>7, <1>9, <2>2, <3>1, <3>2, ReachedWithAddress
      <3>3. CASE ~addressed
        <4>1. Reaches(p) /\ sender.address = address
          BY <1>3, <1>13, <2>1, <2>3, <3>3 DEF Told
        <4>2. Reached(far[p], wire, Hears(p), address, p = sender.last.part, sender.last.value)
          BY <4>1 DEF Reaches
        <4> QED BY <1>3, <1>4, <1>6, <1>7, <1>9, <2>2, <3>1, <3>3, <4>2, ReachedWithData
      <3> QED BY <3>2, <3>3
    <2>4. \A p : Hears(p)' = Hears(p)
      BY DEF Hears, Receivers
    <2>5. ASSUME NEW p \in Receivers(channel)
          PROVE  Reaches(p)'
      BY <1>1, <1>5, <1>17, <2>3, <2>4 DEF Reaches
    <2> QED BY <2>2, <2>5
  <1>19. \A c : Receivers(c)' = Receivers(c)
    BY DEF Receivers
  <1> QED BY <1>1, <1>3, <1>5, <1>9, <1>17, <1>18, <1>19 DEF EditInv, Told

LEMMA EditsUnchanged ==
    ASSUME EditInv, UNCHANGED editVars, \A c : Receivers(c)' = Receivers(c)
    PROVE  EditInv'
  <1>1. \A p : Hears(p)' = Hears(p)
    BY DEF Hears
  <1>2. wire' = wire /\ sender' = sender /\ far' = far
    BY DEF editVars
  <1>3. \A p : Reaches(p)' <=> Reaches(p)
    BY <1>1, <1>2 DEF Reaches
  <1> QED BY <1>2, <1>3 DEF EditInv, Told

LEMMA DeliverKeeps ==
    ASSUME EditInv, UNCHANGED mapping, Deliver(Receivers(Head(wire).channel))
    PROVE  EditInv'
  <1>1. PICK m : m = Head(wire)
    OBVIOUS
  <1>2. /\ wire \in Seq(MessageType) /\ wire # <<>> /\ wire' = Tail(wire) /\ sender' = sender
        /\ far' = [p \in Parts |-> IF p \in Receivers(m.channel) THEN AfterControlChange(far[p], m)
                                   ELSE far[p]]
    BY <1>1 DEF EditInv, Deliver, ControlChange
  <1>3. m \in MessageType /\ wire' \in Seq(MessageType)
    BY <1>1, <1>2
  <1>4. \A c : Receivers(c)' = Receivers(c)
    BY DEF Receivers
  <1>5. \A p : Hears(p)' = Hears(p)
    BY DEF Hears, Receivers
  <1>6. \A p \in Parts : far'[p] = Heard(Hears(p), far[p], m)
    <2>1. m.channel \in Int
      BY <1>3 DEF MessageType
    <2>2. \A p : p \in Receivers(m.channel) <=> m.channel \in Hears(p)
      BY <2>1 DEF Hears
    <2> QED BY <1>2, <2>2 DEF Heard
  <1>7. \A p \in Parts : IsPart(far[p]) /\ IsPart(far'[p])
    BY <1>6, HeardIsPart DEF EditInv
  <1>8. far' = [p \in Parts |-> far'[p]]
    BY <1>2
  <1>9. ASSUME NEW p \in Parts, Reaches(p)
        PROVE  Reaches(p)'
    <2>1. PICK address, edited, value : /\ address = sender.address /\ value = sender.last.value
                                        /\ edited = (p = sender.last.part)
      OBVIOUS
    <2>2. PICK f : /\ Follows(f, Hears(p), far[p], wire, Len(wire))
                   /\ f[Len(wire)].nrpn = address
                   /\ edited => GetValue(f[Len(wire)], address) = value
      BY <1>9, <2>1 DEF Reaches, Reached
    <2>3. PICK g : /\ Follows(g, Hears(p), Heard(Hears(p), far[p], m), wire', Len(wire'))
                   /\ g[Len(wire')] = f[Len(wire)]
      BY <1>1, <1>2, <2>2, OneLess
    <2>4. Reached(far'[p], wire', Hears(p), address, edited, value)
      BY <1>6, <2>2, <2>3 DEF Reached
    <2> QED BY <1>2, <1>5, <2>1, <2>4 DEF Reaches
  <1>10. \A c : Receivers(c) \subseteq Parts
    BY DEF Receivers
  <1> QED BY <1>2, <1>3, <1>4, <1>7, <1>8, <1>9, <1>10 DEF EditInv, Told

\* Nothing is promised of the other unit while it may have missed something.
LEMMA NothingPromised ==
    ASSUME EditInv, UNCHANGED wire, far' = [p \in Parts |-> far'[p]],
           \A p \in Parts : IsPart(far'[p]),
           NEW others, sender' = [sender EXCEPT !.since = 0, !.others = others]
    PROVE  EditInv'
  <1>1. IsSender(sender) /\ wire \in Seq(MessageType)
    BY DEF EditInv
  <1>2. sender' = [address |-> sender.address, counter |-> sender.counter,
                   channel |-> sender.channel, last |-> sender.last, since |-> 0,
                   others |-> others]
    BY <1>1 DEF IsSender
  <1>3. /\ IsSender(sender') /\ sender'.address = sender.address /\ sender'.last = sender.last
        /\ sender'.counter = sender.counter /\ sender'.since = 0
    <2>1. PICK a, c, h, l : a = sender.address /\ c = sender.counter /\ h = sender.channel
                            /\ l = sender.last
      OBVIOUS
    <2>2. PICK t : t = [address |-> a, counter |-> c, channel |-> h, last |-> l, since |-> 0,
                        others |-> others]
      OBVIOUS
    <2>3. a \in 0..255 /\ c \in 0..(kDataEntryResendRate - 1) /\ h \in Int
      BY <1>1, <2>1 DEF IsSender
    <2>4. IsSender(t) /\ t.address = a /\ t.last = l /\ t.counter = c /\ t.since = 0
      BY <2>2, <2>3 DEF IsSender
    <2> QED BY <1>2, <2>1, <2>2, <2>4
  <1>4. ~Told'
    BY <1>1, <1>3 DEF Told, IsSender
  <1>5. /\ sender.address = 255 => sender.last = NoEdit
        /\ sender.address # 255 =>
              sender.last.address = sender.address /\ sender.last.part \in Parts
    BY DEF EditInv
  <1> QED BY <1>1, <1>3, <1>4, <1>5 DEF EditInv

LEMMA RestartedKeeps ==
    ASSUME EditInv, Restarted
    PROVE  EditInv'
  <1>1. PICK s : s = [NewSender EXCEPT !.others = sender.others]
    OBVIOUS
  <1>2. IsSender(s) /\ s.address = 255 /\ s.last = NoEdit
    BY <1>1, EditLinkAssumption DEF NewSender, IsSender
  <1>3. <<>> \in Seq(MessageType)
    OBVIOUS
  <1>4. far = [p \in Parts |-> far[p]] /\ \A p \in Parts : IsPart(far[p])
    BY DEF EditInv
  <1> QED BY <1>1, <1>2, <1>3, <1>4 DEF EditInv, Restarted

LEMMA RechannelledKeeps ==
    ASSUME EditInv, Rechannelled
    PROVE  EditInv'
  <1>1. sender' = [sender EXCEPT !.since = 0, !.others = sender.others]
    BY DEF EditInv, IsSender, Rechannelled
  <1>2. far = [p \in Parts |-> far[p]] /\ \A p \in Parts : IsPart(far[p])
    BY DEF EditInv
  <1> QED BY <1>1, <1>2, NothingPromised DEF Rechannelled

\* Elsewhere: another device, or the player of the other unit.
LEMMA InitializedIsPart ==
    ASSUME NEW x, IsPart(x), NEW bytes, NEW y \in Initialized(x, bytes)
    PROVE  IsPart(y)
  <1>1. \A v : IsPart([x EXCEPT !.values = v])
    BY ValuesSet
  <1>2. IsPart(Loaded(x, bytes))
    BY <1>1 DEF Loaded
  <1>3. \A draw : IsPart(RandomizeRange(x, bytes, draw))
    BY <1>1 DEF RandomizeRange
  <1> QED BY <1>2, <1>3 DEF Initialized

LEMMA ElsewhereKeeps ==
    ASSUME MultiInv, EditInv, UNCHANGED mapping, Elsewhere
    PROVE  EditInv'
  <1>1. far = [p \in Parts |-> far[p]] /\ \A p \in Parts : IsPart(far[p])
    BY DEF EditInv
  <1>2. ASSUME NEW m, NEW listening, DeliverOther(m, listening)
        PROVE  EditInv'
    <2>1. far' = [p \in Parts |-> IF p \in listening THEN AfterControlChange(far[p], m) ELSE far[p]]
      BY <1>2 DEF DeliverOther, ControlChange
    <2>2. far' = [p \in Parts |-> far'[p]] /\ \A p \in Parts : IsPart(far'[p])
      BY <1>1, <2>1, HeardIsPart
    <2>3. sender' = [sender EXCEPT !.since = 0, !.others = sender.others + 1] /\ UNCHANGED wire
      BY <1>2 DEF DeliverOther, Others, EditInv, IsSender
    <2> QED BY <2>2, <2>3, NothingPromised
  <1>3. ASSUME NEW p \in Parts, NEW what \in {"patch", "sequence", "part"}, InitPart(p, what)
        PROVE  EditInv'
    <2>1. PICK new \in CASE what = "patch" -> Initialized(far[p], PatchBytes)
                         [] what = "sequence" -> Initialized(far[p], SequenceBytes)
                         [] what = "part" -> Initialized(far[p], PatchBytes \cup PartBytes) :
              far' = [far EXCEPT ![p] = new]
      BY <1>3 DEF InitPart
    <2>2. PICK bytes : new \in Initialized(far[p], bytes)
      OBVIOUS
    <2>3. IsPart(new)
      BY <1>1, <2>2, InitializedIsPart
    <2>4. far' = [p2 \in Parts |-> far'[p2]] /\ \A p2 \in Parts : IsPart(far'[p2])
      BY <1>1, <2>1, <2>3
    <2>5. sender' = [sender EXCEPT !.since = 0, !.others = sender.others + 1] /\ UNCHANGED wire
      BY <1>3 DEF InitPart, Others, EditInv, IsSender
    <2> QED BY <2>4, <2>5, NothingPromised
  <1>4. session.inits \subseteq {"patch", "sequence", "part"}
    BY MultiAssumption DEF MultiInv, MappingInv, MappingTypeOK
  <1> QED BY <1>2, <1>3, <1>4 DEF Elsewhere

LEMMA EditPartKeeps ==
    ASSUME MultiInv, EditInv, EditPart
    PROVE  EditInv'
  <1>1. session \in Sessions /\ mapping \in Maps
    BY DEF MultiInv, MappingInv, MappingTypeOK
  <1>2. PICK e \in session.edits, v \in 0..255 :
            /\ v \in e.values
            /\ OnEdit(session.mode, tx_channel(mapping[e.part]), e.part, e.address, v)
            /\ UNCHANGED mapping
    BY DEF EditPart, multiVars
  <1>3. IsEdit(session.mode, e)
    BY <1>1, MultiAssumption
  <1>4. /\ e.part \in Parts /\ e.address \in 0..(kPatchSize + kPartSize - 1)
        /\ AddressToParameterId(e.address) # kNoParameter
        /\ Remapped(session.mode, e.address, v) \in 0..255
        /\ Clamp(parameter(AddressToParameterId(e.address)),
                 Remapped(session.mode, e.address, v)) = Remapped(session.mode, e.address, v)
    BY <1>2, <1>3 DEF IsEdit
  <1>5. e.address \in 0..255 /\ e.address # 255
    BY <1>4 DEF kPatchSize, kPartSize
  <1>6. Takes(e.address, Remapped(session.mode, e.address, v))
    BY <1>4, <1>5 DEF Takes
  <1>7. /\ tx_channel(mapping[e.part]) \in Int
        /\ e.part \in Receivers(tx_channel(mapping[e.part]))
    BY <1>1, <1>4, PartHearsItself
  <1> QED BY <1>2, <1>4, <1>5, <1>6, <1>7, OnEditKeeps

\* The voices of a part are nothing to its channel.
LEMMA VoicesKeepEdits ==
    ASSUME MultiInv, EditInv, NEW part \in Parts,
           \/ \E voice \in session.voices : ClickVoice(part, voice)
           \/ \E pot, chosen : TurnVoicePot(part, pot, chosen)
    PROVE  EditInv'
  <1>1. session \in Sessions /\ mapping \in Maps /\ VoicesOwnedOnce
    BY DEF MultiInv, MappingInv, MappingTypeOK
  <1>2. UNCHANGED editVars
    BY DEF ClickVoice, TurnVoicePot
  <1>3. ASSUME \A p \in Parts : mapping'[p].midi_channel = mapping[p].midi_channel
        PROVE  EditInv'
    <2>1. \A c : Receivers(c)' = Receivers(c)
      BY <1>3 DEF Receivers, receive_channel
    <2> QED BY <1>2, <2>1, EditsUnchanged
  <1>4. ASSUME NEW voice \in session.voices, ClickVoice(part, voice)
        PROVE  EditInv'
    <2>1. PICK map : map = Clicked(mapping, part, voice)
      OBVIOUS
    <2>2. map \in Maps
      BY <1>1, <2>1, ClickedIsMap, MultiAssumption
    <2>3. \A p \in Parts : map[p].midi_channel = mapping[p].midi_channel
      BY <1>1, <2>1 DEF Clicked, Maps
    <2>4. mapping' = SolveAllocationConflicts(map, NoConstraint)
      BY <1>4, <2>1 DEF ClickVoice, AssignVoicesToParts
    <2>5. \A p \in Parts : mapping'[p].midi_channel = map[p].midi_channel
      BY <2>2, <2>4, Solved DEF SameNotes
    <2> QED BY <1>3, <2>3, <2>5
  <1>5. ASSUME NEW pot, NEW chosen, TurnVoicePot(part, pot, chosen)
        PROVE  EditInv'
    <2>1. SolveAllocationConflicts(mapping, part) = mapping
      BY <1>1, NothingToSolve DEF VoicesOwnedOnce
    <2>2. mapping' = mapping \/ \E new : mapping' = [mapping EXCEPT ![part].voices = new]
      BY <1>5, <2>1 DEF TurnVoicePot, AssignVoicesToParts
    <2>3. \A p \in Parts : mapping'[p].midi_channel = mapping[p].midi_channel
      BY <1>1, <2>2 DEF Maps
    <2> QED BY <1>3, <2>3
  <1> QED BY <1>4, <1>5

LEMMA RunningKeepsEdits ==
    ASSUME MultiInv, EditInv, Running
    PROVE  EditInv'
  <1>1. ASSUME UNCHANGED <<editVars, mapping>>
        PROVE  EditInv'
    BY <1>1, EditsUnchanged DEF Receivers
  <1>2. CASE EditPart
    BY <1>2, EditPartKeeps
  <1>3. CASE Receive
    BY <1>3, DeliverKeeps DEF Receive, multiVars
  <1>4. CASE Elsewhere
    BY <1>4, ElsewhereKeeps DEF Elsewhere, multiVars
  <1>5. CASE \E channel \in Channels, note \in session.keys :
               NoteOn(channel, note) \/ NoteOff(channel, note) \/ AllOff(channel)
    BY <1>1, <1>5 DEF NoteOn, NoteOff, AllOff
  <1>6. CASE \/ \E channel \in Channels : OmniModeOff(channel) \/ OmniModeOn(channel)
             \/ \E p \in Parts, r \in session.remaps : SetValue(p, r[1], r[2])
             \/ \E map \in Mappings : Load(map)
    BY <1>6, RechannelledKeeps DEF OmniModeOff, OmniModeOn, SetValue, Remap, Load
  <1>7. CASE \/ \E p \in Parts, v \in session.voices : ClickVoice(p, v)
             \/ \E p \in Parts, pot \in 0..2, chosen \in SUBSET session.voices :
                  TurnVoicePot(p, pot, chosen)
    BY <1>7, VoicesKeepEdits
  <1>8. CASE \/ \E b \in session.blocks \ {kNumBlocks}, v \in Versions : Edit(b, v)
             \/ Save(1) \/ Save(kSettings)
    BY <1>1, <1>8 DEF Edit, Save, multiVars
  <1> QED BY <1>2, <1>3, <1>4, <1>5, <1>6, <1>7, <1>8 DEF Running

LEMMA EditStep ==
    ASSUME MultiInv, EditInv, [Next]_vars
    PROVE  EditInv'
  <1>1. ASSUME UNCHANGED <<editVars, mapping>>
        PROVE  EditInv'
    BY <1>1, EditsUnchanged DEF Receivers
  <1>2. CASE power = "on" /\ Running
    BY <1>2, RunningKeepsEdits
  <1>3. CASE WriteStep \/ PowerLoss
    BY <1>1, <1>3 DEF WriteStep, PowerLoss, multiVars
  <1>4. CASE \E shifted \in BOOLEAN : Boot(shifted)
    BY <1>4, RestartedKeeps DEF Boot
  <1>5. CASE UNCHANGED vars
    BY <1>1, <1>5 DEF vars, multiVars
  <1> QED BY <1>2, <1>3, <1>4, <1>5 DEF Next

LEMMA EditStart == Init => EditInv
  <1> SUFFICES ASSUME Init PROVE EditInv
    OBVIOUS
  <1>1. IsSender(sender) /\ sender.address = 255 /\ sender.last = NoEdit
    BY EditLinkAssumption DEF Init, EditInit, NewSender, IsSender
  <1>2. wire \in Seq(MessageType)
    BY DEF Init, EditInit
  <1>3. far = [p \in Parts |-> far[p]] /\ \A p \in Parts : IsPart(far[p])
    BY DEF Init, EditInit, IsPart
  <1> QED BY <1>1, <1>2, <1>3 DEF EditInv

LEMMA EditsHaveArrived == EditInv => EditsArrive
  <1> SUFFICES ASSUME EditInv, wire = <<>>, sender.since >= kDataEntryResendRate,
                      sender.last # NoEdit
               PROVE  GetValue(far[sender.last.part], sender.last.address) = sender.last.value
    BY DEF EditsArrive
  <1>1. IsSender(sender) /\ sender.address # 255
    BY DEF EditInv
  <1>2. Told
    BY <1>1, EditLinkAssumption DEF Told, IsSender
  <1>3. PICK p : p = sender.last.part
    OBVIOUS
  <1>4. p \in Parts /\ sender.last.address = sender.address /\ Reaches(p)
    BY <1>1, <1>2, <1>3 DEF EditInv
  <1>5. Len(wire) = 0
    OBVIOUS
  <1>6. PICK f : f[0] = far[p] /\ GetValue(f[0], sender.address) = sender.last.value
    BY <1>3, <1>4, <1>5 DEF Reaches, Reached, Follows
  <1> QED BY <1>3, <1>4, <1>6

\* EditsArrive holds of any number of parts, any mapping, any room in the output buffer and any
\* rate of resending: whatever was lost, sent by other devices, reset or moved to other channels,
\* the other unit has the value last edited once the address was sent again and everything has
\* arrived (MidiDispatcher::OnEdit, Part::ControlChange, Multi::ControlChange).
THEOREM EditsReachTheirParts == Spec => []EditsArrive
  <1>1. MultiInv /\ EditInv /\ [Next]_vars => EditInv'
    BY EditStep
  <1>2. Spec => []EditInv
    BY <1>1, EditStart, MultiStaysWhole, PTL DEF Spec
  <1> QED BY <1>2, EditsHaveArrived, PTL
=============================================================================
