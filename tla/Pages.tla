-------------------------------- MODULE Pages --------------------------------
(***************************************************************************)
(* The pages of the front panel (controller/ui_pages): what each control   *)
(* of a page edits, and what the page does with an encoder step, a click,  *)
(* a key, a pot, a note and a pause.  A handler takes the state s of the   *)
(* main loop (see module Panel) to another, or to the set of those it may  *)
(* leave.                                                                  *)
(*                                                                         *)
(* The values of the parameters are left out, but for those of the level   *)
(* of the user interface, which choose what the other controls edit, and   *)
(* for the snap.                                                           *)
(***************************************************************************)
EXTENDS Parameters, Library, FiniteSetsExt

CONSTANT Lengths        \* the lengths of the three sequences of each part

kNumParts == 6
kNumVoices == 6

ASSUME PagesAssumption == Lengths \in [0..(kNumParts - 1) -> [0..2 -> 1..32]]

ClipTo(x, low, high) == IF x < low THEN low ELSE IF x > high THEN high ELSE x
Int8(x) == S8(x % 256)

-----------------------------------------------------------------------------
(* The pages.                                                              *)

PAGE_FILTER == 2
PAGE_MULTI_CLOCK == 10
PAGE_KNOB_ASSIGN == 12
PAGE_LIBRARY == 13
PAGE_SYSTEM_SETTINGS == 15

\* A page: its handlers, what each of its eight controls edits (255 nothing, 240 and
\* more an assignable knob), the next page of its group, and the group.
Page(handlers, data, next, group) ==
    [handlers |-> handlers, data |-> data, next_page |-> next, group |-> group]

NoData == <<0, 0, 0, 0, 0, 0, 0, 0>>

page_registry ==
    << Page("parameters", <<0, 1, 2, 3, 4, 5, 6, 7>>, 1, 0),
       Page("parameters", <<8, 13, 12, 11, 9, 10, 14, 15>>, 0, 0),
       Page("parameters", <<16, 17, 255, 18, 22, 23, 73, 74>>, 2, 1),
       Page("parameters", <<24, 30, 31, 29, 25, 26, 27, 28>>, 4, 2),
       Page("parameters", <<255, 32, 33, 255, 255, 255, 255, 255>>, 3, 2),
       Page("parameters", <<34, 35, 36, 37, 38, 39, 40, 41>>, 5, 3),
       Page("parameters", <<42, 57, 47, 48, 43, 44, 45, 46>>, 7, 4),
       Page("parameters", <<49, 50, 51, 52, 53, 54, 55, 56>>, 8, 4),
       Page("sequence", NoData, 6, 4),
       Page("voices", <<58, 59, 60, 61, 255, 255, 255, 255>>, 10, 5),
       Page("parameters", <<62, 63, 64, 65, 255, 255, 255, 255>>, 9, 5),
       Page("performance", <<240, 241, 242, 243, 244, 245, 246, 247>>, 12, 6),
       Page("knobs", NoData, 11, 6),
       Page("library", NoData, 13, 7),
       Page("versions", NoData, 13, 8),
       Page("parameters", <<66, 67, 71, 72, 68, 69, 255, 70>>, 15, 8),
       Page("os_info", NoData, 16, 8) >>

default_most_recent_page_in_group == <<0, 2, 3, 5, 6, 9, 11, 13, 15>>

Shown(s) == page_registry[s.page + 1]
Handlers(s) == IF s.dialog.id # "none" THEN "dialog" ELSE Shown(s).handlers
Edits(s) == Handlers(s) \in {"parameters", "voices", "performance"}

-----------------------------------------------------------------------------
(* What a control edits.                                                   *)

IsKnob(d) == d \in 240..247

parameter_index(s, control) ==
    LET d == Shown(s).data[control + 1] IN IF IsKnob(d) THEN s.knobs[d - 240].parameter ELSE d

part_index(s, control) ==
    LET d == Shown(s).data[control + 1] IN IF IsKnob(d) THEN s.knobs[d - 240].part ELSE s.state["UI_ACTIVE_PART"]

instance_index(s, control) ==
    LET d == Shown(s).data[control + 1]
    IN CASE IsKnob(d) -> s.knobs[d - 240].instance
         [] d = 255 -> 255
         [] OTHER -> IF parameter(d).indexed_by # "none" THEN s.state[parameter(d).indexed_by] ELSE 0

\* ParameterManager::SetValue, for the levels kept here: the state of the user
\* interface, and that the settings differ from the memory they are saved in.
SetValue(s, p, value) ==
    CASE p.level = "ui" -> [s EXCEPT !.state[p.name] = value]
      [] p.level = "system" -> [s EXCEPT !.unsaved = TRUE,
                                         !.snap = IF p.name = "SYSTEM_SNAP" THEN value = 1 ELSE @]
      [] OTHER -> s

\* ParameterManager::Increment.  Only what is kept here has a value to read.
IncrementValue(s, p, increment) ==
    LET value == CASE p.level = "ui" -> s.state[p.name]
                   [] p.name = "SYSTEM_SNAP" -> IF s.snap THEN 1 ELSE 0
                   [] OTHER -> p.min_value
    IN SetValue(s, p, Increment(p, value, increment))

-----------------------------------------------------------------------------
(* Handlers that several pages share (UiPage).                             *)

PageOnInit(s) == [s EXCEPT !.edit = "idle", !.control = 0]

PageOnClick(s) == [s EXCEPT !.edit = IF s.edit = "idle" THEN "by_encoder" ELSE "idle"]

\* Fault: the settings are saved only when the key is that of the page's own group.
PageOnKey_SavesForGroup(s, key) ==
    IF key >= 8 THEN <<TRUE, s>>
    ELSE <<FALSE, IF s.page = PAGE_SYSTEM_SETTINGS /\ key = Shown(s).group
                  THEN [s EXCEPT !.unsaved = FALSE] ELSE s>>

\* Whether the page takes the key, and the state it leaves.  The keys with the shift
\* work on the program of the active part; leaving the settings saves them.
PageOnKey(s, key) ==
    IF key >= 8 THEN <<TRUE, s>>
    ELSE <<FALSE, IF s.page = PAGE_SYSTEM_SETTINGS THEN [s EXCEPT !.unsaved = FALSE] ELSE s>>

PageOnIdle(s) == IF s.edit = "by_pot" THEN [s EXCEPT !.edit = "idle"] ELSE s

\* Ui::ShowPageRelative.
ShowPageRelative(s, increment) ==
    LET to == s.page + increment
    IN IF s.page >= PAGE_LIBRARY THEN s
       ELSE Goto(s, IF to < 0 THEN PAGE_MULTI_CLOCK ELSE IF to > PAGE_MULTI_CLOCK THEN 0 ELSE to,
                 TRUE, [do |-> IF increment >= 0 THEN "first" ELSE "last"])

-----------------------------------------------------------------------------
(* The parameter editor.                                                   *)

\* The control that the encoder reaches: those with nothing to edit are skipped.
NextControl(s, from, increment) ==
    LET steps == {k \in 1..9 : LET c == from + k * increment
                               IN c \notin 0..7 \/ Shown(s).data[c + 1] # 255}
    IN from + increment * (CHOOSE k \in steps : \A j \in steps : k <= j)

EditorOnIncrement(s, increment) ==
    LET to == NextControl(s, s.control, increment)
    IN IF s.edit # "idle"
       THEN [IncrementValue(s, parameter(parameter_index(s, s.control)), increment)
                 EXCEPT !.edit = "by_encoder"]
       ELSE CASE to < 0 -> ShowPageRelative(s, -1)
              [] to > 7 -> ShowPageRelative(s, 1)
              [] OTHER -> [s EXCEPT !.control = to]

EditorSetActiveControl(s, which) ==
    IF which = "first" THEN EditorOnIncrement([s EXCEPT !.control = -1], 1)
    ELSE EditorOnIncrement([s EXCEPT !.control = 8], -1)

EditorOnInit(s) ==
    [EditorSetActiveControl(PageOnInit(s), "first") EXCEPT !.snapped = {}]

\* With snap, a pot does nothing until its position meets the value; the pots that choose
\* what is shown are not subject to it.
PotEdits(s, index, p, value) ==
    LET taken == [SetValue(s, p, Scale(p, value)) EXCEPT !.control = index, !.edit = "by_pot"]
    IN CASE ~s.snap \/ index \in s.snapped -> {taken}
         [] p.level = "ui" -> {[taken EXCEPT !.snapped = @ \cup {index}]}
         [] OTHER -> {s, [taken EXCEPT !.snapped = @ \cup {index}]}

EditorOnPot(s, index, value) ==
    IF parameter_index(s, index) = kNoParameter THEN {s}
    ELSE PotEdits(s, index, parameter(parameter_index(s, index)), value)

-----------------------------------------------------------------------------
(* The page of the multi: ranges, and a voicecard under each control from  *)
(* the fifth.  Which voices the part gets is in module Multi.              *)

VoicesOnIncrement(s, increment) ==
    LET to == s.control + increment
    IN IF s.edit # "idle" /\ s.control < 4 THEN EditorOnIncrement(s, increment)
       ELSE CASE to < 0 -> ShowPageRelative(s, -1)
              [] to > 3 + kNumVoices -> ShowPageRelative(s, 1)
              [] OTHER -> [s EXCEPT !.control = to]

VoicesSetActiveControl(s, which) ==
    IF which = "first" THEN VoicesOnIncrement([s EXCEPT !.control = -1], 1)
    ELSE [s EXCEPT !.control = 3 + kNumVoices]

VoicesOnInit(s) == VoicesSetActiveControl(EditorOnInit(s), "first")

VoicesOnClick(s) == IF s.control < 4 THEN PageOnClick(s) ELSE s

\* The first pot chooses the part and leaves the active control what it was.
Released(s, states) == {[t EXCEPT !.control = s.control, !.edit = "idle"] : t \in states}

VoicesOnPot(s, index, value) ==
    CASE index = 0 -> Released(s, EditorOnPot(s, 0, value))
      [] index \in 1..4 -> EditorOnPot(s, index, value)
      [] OTHER -> {s}

\* A note sets the end of the key range that is being edited, through the same snap.
VoicesOnNote(s, note) ==
    {[t EXCEPT !.edit = "idle"] : t \in EditorOnPot(s, s.control, note)}

-----------------------------------------------------------------------------
(* The performance page, its knobs, and the note it plays.                 *)

\* multi.StartNote and multi.StopNote.
StartNote(s, note) == [s EXCEPT !.playing = @ \cup {note}]
StopNote(s, note) == [s EXCEPT !.playing = @ \ {note}]

PerformanceOnIncrement(s, increment) ==
    LET to == (s.note + increment) % 256
        may == IF increment > 0 THEN s.note < 127 ELSE s.note > 0
    IN IF s.sounds /\ may THEN [StopNote(StartNote(s, to), s.note) EXCEPT !.note = to] ELSE s

PerformanceOnClick(s) ==
    IF s.sounds THEN [StopNote(s, s.note) EXCEPT !.sounds = FALSE]
    ELSE [StartNote(s, s.note) EXCEPT !.sounds = TRUE]

NumInstances == [i \in 0..(kNumParameters - 1) |-> parameter(i).num_instances]
Assignable == {i \in DOMAIN NumInstances : parameter(i).level \in {"patch", "part"}}

\* num_parameters_, and the assignable instance with a number.
InstancesBefore[i \in 0..kNumParameters] ==
    IF i = 0 THEN 0
    ELSE InstancesBefore[i - 1] + IF i - 1 \in Assignable THEN NumInstances[i - 1] ELSE 0
num_parameters == U8(InstancesBefore[kNumParameters])

AssignKnob(s, i, instance) ==
    [s EXCEPT !.knobs[s.knob].parameter = i, !.knobs[s.knob].instance = instance]

AssignPart(s, part) == [s EXCEPT !.knobs[s.knob].part = part]

KnobsOnInit(s) == PageOnInit(s)

\* The assignable parameter that a step of the encoder leads to, if there is one.
NextAssignable(from, one) ==
    LET ahead == {j \in Assignable : (j - from) * one > 0}
    IN {j \in ahead : \A k \in ahead : (k - j) * one >= 0}

\* Fault: the instance stays that of the parameter before.
KnobsOnIncrement_KeepsInstance(s, increment) ==
    LET one == IF increment > 0 THEN 1 ELSE -1
        a == s.knobs[s.knob]
        next == NextAssignable(a.parameter, one)
    IN CASE a.instance + one \in 0..(NumInstances[a.parameter] - 1) ->
                {AssignKnob(s, a.parameter, a.instance + one)}
         [] next = {} -> {s}
         [] OTHER -> {AssignKnob(s, i, a.instance) : i \in next}

KnobsOnIncrement(s, increment) ==
    LET one == IF increment > 0 THEN 1 ELSE -1
        a == s.knobs[s.knob]
        next == NextAssignable(a.parameter, one)
    IN CASE a.instance + one \in 0..(NumInstances[a.parameter] - 1) ->
                {AssignKnob(s, a.parameter, a.instance + one)}
         [] next = {} -> {s}
         [] OTHER -> {AssignKnob(s, i, IF one = 1 THEN 0 ELSE NumInstances[i] - 1) : i \in next}

\* The search of OnPot: before is InstancesBefore.
KnobNumbered(s, before, number) ==
    LET i == CHOOSE j \in Assignable : before[j] <= number /\ number < before[j + 1]
    IN AssignKnob(s, i, number - before[i])

KnobsOnPot(s, index, value) ==
    LET t == [s EXCEPT !.control = index, !.edit = "by_pot"]
    IN CASE index \in {0, 4} -> [t EXCEPT !.knob = value \div 16]
         [] index \in {1, 5} -> AssignPart(t, (kNumParts * U8(2 * value)) \div 256)
         [] OTHER -> KnobNumbered(t, InstancesBefore, (num_parameters * U8(2 * value)) \div 256)

-----------------------------------------------------------------------------
(* The step sequence editor.  Controls 0 to 3 edit the step of the first   *)
(* line, which is the one before step_, controls 4 to 7 that of the        *)
(* second.  Only where the edit goes is kept.                              *)

LengthsHere(s) == Lengths[s.state["UI_ACTIVE_PART"]]
LongestHere(s) == Max({LengthsHere(s)[i] : i \in 0..2})

\* actual_step.
ActualStep(s, index, sequence) == index % LengthsHere(s)[sequence]

\* The step that a control is about: -1 above the first step.
StepOf(s, control) == IF control >= 4 THEN s.step ELSE s.step - 1

\* The sequence of a column: 2 is that of notes and velocities.
SequenceOf(control) == IF control % 4 \in {0, 1} THEN 2 ELSE (control % 4) - 2

WriteStep(s, control) ==
    IF StepOf(s, control) < 0 THEN s
    ELSE [s EXCEPT !.did = [op |-> "write", sequence |-> SequenceOf(control),
                            step |-> ActualStep(s, StepOf(s, control), SequenceOf(control))]]

SequenceOnIncrement(s, increment) ==
    LET to == s.step + increment
    IN IF s.edit # "idle" THEN WriteStep([s EXCEPT !.edit = "by_encoder"], s.control)
       ELSE CASE to < 0 -> ShowPageRelative(s, -1)
              [] to >= LongestHere(s) /\ increment > 0 -> ShowPageRelative(s, 1)
              [] OTHER ->
                     [s EXCEPT !.step = IF to >= LongestHere(s) THEN LongestHere(s) - 1 ELSE to]

SequenceOnInit(s) == SequenceOnIncrement([PageOnInit(s) EXCEPT !.control = 4], 0)

SequenceSetActiveControl(s, which) ==
    IF which = "first" THEN [s EXCEPT !.step = 0]
    ELSE SequenceOnIncrement([s EXCEPT !.step = 127], -1)

SequenceOnClick(s) ==
    IF s.edit = "idle" THEN [s EXCEPT !.edit = "by_encoder"]
    ELSE [s EXCEPT !.edit = "idle", !.control = 4]

SequenceOnPot(s, index) == WriteStep([s EXCEPT !.control = index], index)

\* A note is recorded in the step edited, and the next one follows.
SequenceOnNote(s) ==
    IF s.edit = "idle" \/ StepOf(s, s.control) < 0 THEN s
    ELSE LET t == WriteStep(s, 4 * (s.control \div 4))
         IN [t EXCEPT !.step = ActualStep(s, t.did.step + 1, 2)]

-----------------------------------------------------------------------------
(* Dialog boxes, over the page that showed them.                           *)

DialogType(id) ==
    CASE id = "init" -> "select" [] id = "default_multi" -> "confirm" [] OTHER -> "error"

kNumChoices == 2            \* of the only dialog with choices

\* Ui::CloseDialogBox.
CloseDialogBox(s, value) ==
    Goto(s, s.page, FALSE, [do |-> "closed", id |-> s.dialog.id, value |-> value])

DialogOnIncrement(s, increment) ==
    IF DialogType(s.dialog.id) # "select" THEN s
    ELSE [s EXCEPT !.dialog.choice = ClipTo(@ + increment, 0, kNumChoices - 1)]

DialogOnPot(s, value) ==
    IF DialogType(s.dialog.id) # "select" THEN s
    ELSE [s EXCEPT !.dialog.choice = (kNumChoices * U8(2 * value)) \div 256]

DialogOnKey(s, key) ==
    CASE key = 6 /\ DialogType(s.dialog.id) # "error" -> CloseDialogBox(s, 1 + s.dialog.choice)
      [] key = 7 -> CloseDialogBox(s, IF DialogType(s.dialog.id) = "error" THEN 1 ELSE 0)
      [] OTHER -> s

DialogOnClick(s) == CloseDialogBox(s, 1 + s.dialog.choice)

-----------------------------------------------------------------------------
(* The page of the firmware versions; its updates are in module Firmware.  *)

OsInfoOnInit(s) == [s EXCEPT !.control = 0]
OsInfoOnIncrement(s, increment) == [s EXCEPT !.control = ClipTo(@ + increment, 0, kNumVoices)]
OsInfoOnKey(s, key) == IF key = 7 THEN ShowPreviousPage(s) ELSE s

-----------------------------------------------------------------------------
(* The tables of handlers (EventHandlers).                                 *)

OnInit(s) ==
    CASE Handlers(s) \in {"parameters", "performance"} -> {EditorOnInit(s)}
      [] Handlers(s) = "voices" -> {VoicesOnInit(s)}
      [] Handlers(s) = "knobs" -> {KnobsOnInit(s)}
      [] Handlers(s) = "sequence" -> {SequenceOnInit(s)}
      [] Handlers(s) = "library" -> LibraryOnInit(s)
      [] Handlers(s) = "versions" -> {VersionsOnInit(s)}
      [] Handlers(s) = "os_info" -> {OsInfoOnInit(s)}

SetActiveControl(s, which) ==
    CASE Handlers(s) \in {"parameters", "performance"} -> EditorSetActiveControl(s, which)
      [] Handlers(s) = "voices" -> VoicesSetActiveControl(s, which)
      [] Handlers(s) = "sequence" -> SequenceSetActiveControl(s, which)
      [] OTHER -> s

OnIncrement(s, increment) ==
    CASE Handlers(s) = "parameters" -> {EditorOnIncrement(s, increment)}
      [] Handlers(s) = "voices" -> {VoicesOnIncrement(s, increment)}
      [] Handlers(s) = "performance" -> {PerformanceOnIncrement(s, increment)}
      [] Handlers(s) = "knobs" -> KnobsOnIncrement(s, increment)
      [] Handlers(s) = "sequence" -> {SequenceOnIncrement(s, increment)}
      [] Handlers(s) = "library" -> {LibraryOnIncrement(s, increment)}
      [] Handlers(s) = "os_info" -> {OsInfoOnIncrement(s, increment)}
      [] Handlers(s) = "dialog" -> {DialogOnIncrement(s, increment)}
      [] OTHER -> {s}

OnClick(s) ==
    CASE Handlers(s) = "voices" -> VoicesOnClick(s)
      [] Handlers(s) = "performance" -> PerformanceOnClick(s)
      [] Handlers(s) = "sequence" -> SequenceOnClick(s)
      [] Handlers(s) = "library" -> LibraryOnClick(s)
      [] Handlers(s) = "dialog" -> DialogOnClick(s)
      [] OTHER -> PageOnClick(s)

OnPot(s, index, value) ==
    CASE Handlers(s) \in {"parameters", "performance"} -> EditorOnPot(s, index, value)
      [] Handlers(s) = "voices" -> VoicesOnPot(s, index, value)
      [] Handlers(s) = "knobs" -> {KnobsOnPot(s, index, value)}
      [] Handlers(s) = "sequence" -> {SequenceOnPot(s, index)}
      [] Handlers(s) = "dialog" -> {DialogOnPot(s, value)}
      [] OTHER -> {s}

\* Pairs of whether the key is taken and of the state that is left.
OnKey(s, key) ==
    LET taken(states) == {<<TRUE, t>> : t \in states}
    IN CASE Handlers(s) = "library" -> taken(LibraryOnKey(s, key))
         [] Handlers(s) = "versions" -> taken({VersionsOnKey(s, key)})
         [] Handlers(s) = "os_info" -> taken({OsInfoOnKey(s, key)})
         [] Handlers(s) = "dialog" -> taken({DialogOnKey(s, key)})
         [] OTHER -> {PageOnKey(s, key)}

OnIdle(s) == IF Handlers(s) = "dialog" THEN s ELSE PageOnIdle(s)

\* Whether the page takes a note, and what it makes of it (Ui::OnNote).
TakesNote(s) ==
    /\ s.edit # "idle"
    /\ \/ Handlers(s) = "voices" /\ s.control \in {2, 3}
       \/ Handlers(s) = "sequence" /\ StepOf(s, s.control) >= 0

OnNote(s, note) == IF Handlers(s) = "voices" THEN VoicesOnNote(s, note) ELSE {SequenceOnNote(s)}

UpdateScreen(s) == IF Handlers(s) \in {"library", "versions"} THEN UpdateLocation(s) ELSE s

=============================================================================
