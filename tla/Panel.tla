-------------------------------- MODULE Panel --------------------------------
(***************************************************************************)
(* The front panel: encoder, switches and pots, polled by an interrupt     *)
(* (Ui::Poll) that fills a queue of events, and the main loop that hands   *)
(* each event to the page shown (Ui::DoEvents).                            *)
(*                                                                         *)
(* ui is what only the main loop touches.  A page change is two steps: the *)
(* interrupt may add an event after the queue is flushed and before the    *)
(* new page is there.  What the player does, and what arrives from MIDI,   *)
(* is bounded by a session, chosen at the start.                           *)
(***************************************************************************)
EXTENDS Pages

CONSTANT Sessions       \* what the player may do: see SessionFields

SessionFields ==
    { "page",       \* the page it starts on
      "pages",      \* the pages visited: bound
      "parts",      \* the parts made active: bound
      "objects",    \* the objects of the library: bound
      "turns",      \* increments of the encoder
      "clicks",     \* whether the encoder is clicked
      "room",       \* events the queue holds (8 in the code)
      "switches",   \* switches of the panel, as the interrupt numbers them
      "pots",       \* pairs of a pot and its position
      "notes",      \* notes from MIDI
      "changes",    \* program changes from MIDI: [parts, bank, place]
      "snap" }      \* the setting of the same name

ASSUME PanelAssumption ==
    \A x \in Sessions :
        /\ DOMAIN x = SessionFields
        /\ x.page \in 0..(Len(page_registry) - 1)
        /\ x.turns \subseteq Int /\ x.switches \subseteq 0..7
        /\ x.pots \subseteq (0..7) \X (0..127) /\ x.notes \subseteq 0..127
        /\ x.room \in Nat \ {0}
        /\ \A c \in x.changes : c.parts \in Seq(0..(kNumParts - 1))

VARIABLES
    ui,         \* the state of the main loop: see UiInit
    queue,      \* queue_: the events to handle
    held,       \* the switches that are down
    inhibit,    \* inhibit_switch_: the switches whose release is not an event
    session

vars == <<ui, queue, held, inhibit, session>>

-----------------------------------------------------------------------------
(* Ui::Poll: the interrupt.                                                *)

\* The class of the queue is not in this repository: of a full queue, the new event, the
\* oldest or all of them are lost.
AddEvent(q, e) ==
    IF Len(q) < session.room THEN {Append(q, e)} ELSE {q, Append(Tail(q), e), <<>>}

\* What the player saw when the event was made.
Here(s) == <<s.page, s.dialog.id>>
Seen == IF ui.opening = NoPage THEN Here(ui) ELSE <<"opening">>

Post(type, id, value) ==
    queue' \in AddEvent(queue, [type |-> type, id |-> id, value |-> value, seen |-> Seen])

\* The first and the last switch modify the encoder; their release is then no event.
TurnEncoder(increment) ==
    /\ Post("turn", IF 7 \in held THEN 1 ELSE 0, IF 0 \in held THEN 8 * increment ELSE increment)
    /\ inhibit' = IF 7 \in held THEN {7} ELSE IF 0 \in held THEN {0} ELSE inhibit
    /\ UNCHANGED <<ui, held, session>>

ClickEncoder ==
    /\ session.clicks
    /\ Post("click", 0, 1)
    /\ UNCHANGED <<ui, held, inhibit, session>>

\* Two switches at most are down at once, one of them a modifier: bound.
PressSwitch(i) ==
    /\ i \notin held
    /\ held \in {{}, {0}, {7}}
    /\ held' = held \cup {i}
    /\ UNCHANGED <<ui, queue, inhibit, session>>

ReleaseSwitch(i) ==
    /\ i \in held
    /\ held' = held \ {i}
    /\ IF i \in inhibit
       THEN inhibit' = inhibit \ {i} /\ queue' = queue
       ELSE /\ Post("switch", (IF 0 \in held' THEN 15 ELSE 7) - i, 1)
            /\ inhibit' = IF 0 \in held' THEN {0} ELSE inhibit
    /\ UNCHANGED <<ui, session>>

\* The pots of the upper row are wired in reverse.
MovePot(index, value) ==
    /\ Post("pot", IF index < 4 THEN 3 - index ELSE index, value)
    /\ UNCHANGED <<ui, held, inhibit, session>>

Poll ==
    \/ \E i \in session.turns : TurnEncoder(i)
    \/ ClickEncoder
    \/ \E i \in session.switches : PressSwitch(i) \/ ReleaseSwitch(i)
    \/ \E p \in session.pots : MovePot(p[1], p[2])

-----------------------------------------------------------------------------
(* Ui::DoEvents: the main loop.                                            *)

\* A key that the page does not take leads to a page of its group.
PageOfKey(s, key) ==
    Goto(s, IF Shown(s).group = key THEN Shown(s).next_page ELSE s.recent[key + 1], TRUE, NoMore)

Handled(s, e) ==
    CASE e.type = "click" -> {OnClick(s)}
      [] e.type = "turn" /\ e.id = 0 -> OnIncrement(s, e.value)
      [] e.type = "turn" /\ e.id = 1 ->
             {[s EXCEPT !.state["UI_ACTIVE_PART"] = ClipTo(Int8(@ + e.value), 0, kNumParts - 1)]}
      [] e.type = "switch" -> {IF k[1] THEN k[2] ELSE PageOfKey(k[2], e.id) : k \in OnKey(s, e.id)}
      [] e.type = "pot" -> OnPot(s, e.id, e.value)
      [] OTHER -> {s}

\* The queue that a handler leaves, when it has asked for a flush.
Flushed(s, q) == IF s.flush THEN <<>> ELSE q
Unflushed(s) == [s EXCEPT !.flush = FALSE]

InBounds(s) ==
    /\ s.opening.page \in session.pages \cup {-1}
    /\ s.state["UI_ACTIVE_PART"] \in session.parts
    /\ s.lib.object \in session.objects
    /\ s.note \in session.notes \cup {60}

HandleEvent ==
    /\ ui.opening = NoPage
    /\ queue # <<>>
    /\ \E s \in Handled([ui EXCEPT !.redraw = TRUE, !.did = NoOperation], Head(queue)) :
         /\ InBounds(s)
         /\ ui' = Unflushed(s)
         /\ queue' = Flushed(s, Tail(queue))
    /\ UNCHANGED <<held, inhibit, session>>

\* The second half of Ui::ShowPage, and what its caller does next.
Opened(s) ==
    LET o == s.opening
        group == page_registry[o.page + 1].group
        there == [s EXCEPT !.page = o.page, !.dialog = NoDialog, !.opening = NoPage,
                           !.home = IF o.page <= PAGE_KNOB_ASSIGN THEN o.page ELSE @,
                           !.recent[group + 1] = o.page]
        drawn == {UpdateScreen(t) : t \in IF o.initialize THEN OnInit(there) ELSE {there}}
    IN CASE o.then.do = "nothing" -> drawn
         [] o.then.do \in {"first", "last"} -> {SetActiveControl(t, o.then.do) : t \in drawn}
         [] OTHER -> {IF Handlers(t) = "library"
                      THEN LibraryOnDialogClosed(t, o.then.id, o.then.value) ELSE t : t \in drawn}

OpenPage ==
    /\ ui.opening # NoPage
    /\ \E s \in Opened(ui) :
         /\ InBounds(s)
         /\ ui' = Unflushed(s)
         /\ queue' = Flushed(s, queue)
    /\ UNCHANGED <<held, inhibit, session>>

\* No event is left: the page is drawn if there were some, or after a pause.
Draw ==
    /\ ui.opening = NoPage
    /\ queue = <<>>
    /\ ui' = [UpdateScreen(IF ui.redraw THEN ui ELSE OnIdle(ui)) EXCEPT !.redraw = FALSE, !.did = NoOperation]
    /\ UNCHANGED <<queue, held, inhibit, session>>

-----------------------------------------------------------------------------
(* MIDI messages, which the main loop reads before it handles events.      *)

Free == ui.opening = NoPage /\ ~ui.redraw

\* Ui::OnNote: a note the page takes is followed by an event with no effect.
NoteArrives(note) ==
    /\ Free
    /\ TakesNote(ui)
    /\ ui' \in OnNote(ui, note)
    /\ Post("note", 0, 0)
    /\ UNCHANGED <<held, inhibit, session>>

ProgramChangeArrives(c) ==
    /\ Free
    /\ ui' \in ProgramChange(ui, c.parts, c.bank, c.place)
    /\ UNCHANGED <<queue, held, inhibit, session>>

-----------------------------------------------------------------------------
(* The panel after Ui::Init, and after the keys that lead to page.         *)

Knob(part, parameter_, instance) == [part |-> part, parameter |-> parameter_, instance |-> instance]

\* The assignments of the default multi.
kDefaultKnobs ==
    [i \in 0..7 |->
        <<Knob(0, 1, 0), Knob(0, 16, 0), Knob(1, 1, 0), Knob(1, 16, 0),
          Knob(0, 22, 0), Knob(0, 42, 0), Knob(1, 22, 0), Knob(1, 42, 0)>>[i + 1]]

UiInit(page, snap) ==
    [ page |-> page, dialog |-> NoDialog, opening |-> [page |-> page, initialize |-> TRUE, then |-> NoMore],
      flush |-> FALSE, redraw |-> FALSE, home |-> PAGE_FILTER,
      recent |-> [default_most_recent_page_in_group EXCEPT ![9] = 0],
      edit |-> "idle", control |-> 0, snapped |-> {}, snap |-> snap, unsaved |-> FALSE,
      state |-> [n \in {"UI_ACTIVE_ENV_LFO", "UI_ACTIVE_MODULATION", "UI_ACTIVE_MODIFIER",
                        "UI_ACTIVE_PART"} |-> 0],
      knobs |-> kDefaultKnobs, knob |-> 0, note |-> 60, sounds |-> FALSE, playing |-> {},
      step |-> 0, did |-> NoOperation, lib |-> LibraryInit ]

Init ==
    /\ session \in Sessions
    /\ ui = UiInit(session.page, session.snap)
    /\ queue = <<>> /\ held = {} /\ inhibit = {}

Next ==
    \/ Poll
    \/ HandleEvent
    \/ OpenPage
    \/ Draw
    \/ \E n \in session.notes : NoteArrives(n)
    \/ \E c \in session.changes : ProgramChangeArrives(c)

Spec == Init /\ [][Next]_vars

-----------------------------------------------------------------------------
(* Properties.                                                             *)

\* An event waits only for the page the player saw when it was made, or was made while a
\* page was being opened: no key meant for a page reaches the page or the dialog box that
\* took its place (ui.cc, the flush in ShowPage and ShowDialogBox).
EventsMeetTheirPage ==
    ui.opening = NoPage =>
        \A i \in DOMAIN queue : queue[i].seen \in {Here(ui), <<"opening">>}

\* Whatever the knobs are assigned to, and whichever envelope, modulation or modifier is
\* chosen, each control of the page edits an instance that its parameter has, in a part
\* that exists; and the encoder edits only where there is something to edit.
EditsExistingInstances ==
    Edits(ui) =>
        /\ \A c \in 0..7 : parameter_index(ui, c) # kNoParameter =>
             LET p == parameter(parameter_index(ui, c))
             IN /\ instance_index(ui, c) < p.num_instances
                /\ part_index(ui, c) \in 0..(kNumParts - 1)
                /\ IsKnob(Shown(ui).data[c + 1]) => p.level \in {"patch", "part"}
        /\ ui.edit # "idle" => ui.control \in 0..7 /\ parameter_index(ui, ui.control) # kNoParameter

\* Settings that were changed on their page are saved when the player has left it.
SettingsAreSaved == ui.unsaved => ui.page = PAGE_SYSTEM_SETTINGS

\* When the location of the library has followed the active part and the program changes,
\* the place it shows is the one loaded in that part: a step of the encoder loads its
\* neighbour, and the name on the screen is that of what plays.
BrowserShowsWhatIsLoaded ==
    LET l == ui.lib
    IN (/\ Handlers(ui) \in {"library", "versions"} /\ l.action = "browse" /\ l.named /\ ~l.dirty
        /\ l.part = ui.state["UI_ACTIVE_PART"])
       => l.place = l.loaded[Index(l)]

=============================================================================
