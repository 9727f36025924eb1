------------------------------- MODULE Library -------------------------------
(***************************************************************************)
(* The library page (controller/ui_pages/library.cc), the version manager  *)
(* and the program changes that arrive from MIDI: how they choose the      *)
(* location they hand to Storage.  The operators take and return the state *)
(* s of the main loop of module Panel; those that use the memory card      *)
(* return the states of a success and of a failure.                        *)
(*                                                                         *)
(* s.lib is                                                                *)
(*   action, more, mode   LIBRARY_ACTION_..., more_, initialization_mode_  *)
(*   object, part, place  location_; place is <<bank, slot>>               *)
(*   named                location_.name points to the name of the page    *)
(*   loaded               loaded_objects_indices_                          *)
(*   dirty                name_dirty_                                      *)
(* s.did is the last operation on objects or on the sequence, until the    *)
(* next event.                                                             *)
(***************************************************************************)
EXTENDS Integers, Sequences

CONSTANTS
    LastBank,           \* 25 in the code
    LastSlot            \* 127 in the code

kBlankPlace == <<0, 0>>

\* The key in loaded_objects_indices_ (StorageLocation::index).
IndexOf(object, part) == IF object = "multi" THEN <<"multi", 0>> ELSE <<object, part>>
Index(l) == IndexOf(l.object, l.part)

NextObject(object) ==
    CASE object = "patch" -> "sequence" [] object = "sequence" -> "program"
      [] object = "program" -> "multi" [] OTHER -> "patch"

NoOperation == [op |-> "none"]
Did(s, op) == [s EXCEPT !.did = [op |-> op, object |-> s.lib.object, part |-> s.lib.part]]

SaveLocation(s) == [s EXCEPT !.lib.loaded[Index(s.lib)] = s.lib.place]

Browse(s) ==
    [s EXCEPT !.lib.action = "browse", !.lib.place = s.lib.loaded[Index(s.lib)],
              !.lib.named = TRUE, !.edit = "idle", !.control = 1]

\* Fault: the name and the place stay those of the other part.
UpdateLocation_PartOnly(s) ==
    IF s.lib.part # s.state["UI_ACTIVE_PART"] \/ s.lib.dirty
    THEN [s EXCEPT !.lib.part = s.state["UI_ACTIVE_PART"], !.lib.dirty = FALSE]
    ELSE s

\* The page follows the active part, and a program change, when it is drawn.
UpdateLocation(s) ==
    IF s.lib.part # s.state["UI_ACTIVE_PART"] \/ s.lib.dirty
    THEN Browse([s EXCEPT !.lib.part = s.state["UI_ACTIVE_PART"], !.lib.dirty = FALSE])
    ELSE s

NoDialog == [id |-> "none"]

\* A dialog box takes the place of the page; about is the object its text names.
ShowDialog(s, id, choice) ==
    [s EXCEPT !.dialog = [id |-> id, choice |-> choice,
                          about |-> Index(s.lib)],
              !.flush = TRUE]

NoPage == [page |-> -1]
NoMore == [do |-> "nothing"]

\* Fault: the events that wait are kept.
Goto_NoFlush(s, page, initialize, then) ==
    [s EXCEPT !.opening = [page |-> page, initialize |-> initialize, then |-> then]]

\* ShowPage, up to the flush of the queue; then is what the caller does afterwards.
Goto(s, page, initialize, then) ==
    [s EXCEPT !.opening = [page |-> page, initialize |-> initialize, then |-> then],
              !.flush = TRUE]

ShowPreviousPage(s) == Goto(s, s.home, TRUE, NoMore)

-----------------------------------------------------------------------------
(* The library page.                                                       *)

LibraryOnInit(s) ==
    LET here == [s EXCEPT !.lib.more = FALSE, !.lib.part = s.state["UI_ACTIVE_PART"]]
        ready(t) == [Browse(t) EXCEPT !.lib.dirty = FALSE, !.lib.mode = 1]
    IN {ready(here), ready(ShowDialog(here, "error", 0))}

Moved(place, control, increment) ==
    LET to(x, last) == IF x < 0 THEN 0 ELSE IF x > last THEN last ELSE x
    IN CASE control = 0 -> <<to(place[1] + increment, LastBank), place[2]>>
         [] control = 1 -> <<place[1], to(place[2] + increment, LastSlot)>>
         [] OTHER -> place

LibraryOnIncrement(s, increment) ==
    LET l == s.lib
        moved == IF l.action = "browse" \/ s.edit = "by_encoder"
                 THEN [s EXCEPT !.lib.place = Moved(l.place, s.control, increment)] ELSE s
        aimed == IF l.action = "save" /\ s.edit = "idle"
                 THEN [moved EXCEPT !.control = LET c == s.control + increment
                           IN IF c < 0 THEN 0 ELSE IF c > 16 THEN 16 ELSE c]
                 ELSE moved
    IN IF l.action = "browse" /\ aimed.lib.place # l.loaded[Index(l)]
       THEN SaveLocation(Did(aimed, "load"))
       ELSE aimed

LibraryOnClick(s) ==
    IF s.lib.action = "browse" THEN [s EXCEPT !.control = (s.control + 1) % 2]
    ELSE [s EXCEPT !.edit = IF s.edit = "idle" THEN "by_encoder" ELSE "idle"]

OnKeySave(s, key) ==
    CASE key = 6 -> { Browse(SaveLocation(Did(s, "save"))), ShowDialog(s, "error", 0) }
      [] key = 7 -> {Browse(s)}
      [] OTHER -> {s}

OnKeyBrowse(s, key) ==
    CASE key = 6 -> [s EXCEPT !.lib.more = ~s.lib.more]
      [] key = 7 -> ShowPreviousPage(s)
      [] key = 0 /\ ~s.lib.more -> Browse([s EXCEPT !.lib.object = NextObject(s.lib.object)])
      [] key = 1 /\ ~s.lib.more -> ShowDialog(s, "init", s.lib.mode)
      [] key = 3 /\ ~s.lib.more -> [s EXCEPT !.lib.action = "save", !.control = 2, !.edit = "by_encoder"]
      [] key = 4 /\ ~s.lib.more -> Goto(s, 14, TRUE, NoMore)
      [] key = 0 /\ s.lib.more -> Goto(s, 15, TRUE, NoMore)
      [] key = 1 /\ s.lib.more -> ShowDialog(s, "default_multi", 0)
      [] key = 2 /\ s.lib.more -> Goto(s, 16, TRUE, NoMore)
      [] OTHER -> s

LibraryOnKey(s, key) ==
    IF s.lib.action = "browse" THEN {OnKeyBrowse(s, key)} ELSE OnKeySave(s, key)

\* value is 0 for no, and 1 more than the choice for yes.
LibraryOnDialogClosed(s, id, value) ==
    CASE id = "init" ->
             Browse(IF value = 0 THEN s
                    ELSE Did([s EXCEPT !.lib.mode = value - 1], "init"))
      [] id = "default_multi" /\ value # 0 -> Did(s, "write_eeprom")
      [] OTHER -> s

-----------------------------------------------------------------------------
(* The version manager.                                                    *)

\* A snapshot, and the version before it.
VersionsOnInit(s) == Did(Did(s, "snapshot"), "previous_version")

VersionsOnKey(s, key) ==
    CASE key = 0 -> ShowPreviousPage(Did(s, "copy"))
      [] key = 1 -> ShowPreviousPage(Did(s, "swap"))
      [] key = 2 -> ShowPreviousPage(Did(s, "paste"))
      [] key = 4 -> Did(s, "previous_version")
      [] key = 5 -> Did(s, "next_version")
      [] key = 6 -> ShowPreviousPage(Did(s, "snapshot"))
      [] key = 7 -> ShowPreviousPage(s)
      [] OTHER -> s

-----------------------------------------------------------------------------
(* Program changes from MIDI (MidiDispatcher::ProgramChange).              *)

\* The location moves to the program of part i, which is loaded if nothing has failed yet:
\* tried is <<s, error>>, and fails the part whose program cannot be loaded, if any.
LoadProgram(tried, i, place, fails) ==
    LET t == [tried[1] EXCEPT !.lib.object = "program", !.lib.part = i, !.lib.place = place,
                              !.lib.named = FALSE]
        error == tried[2] \/ i = fails
    IN <<IF error THEN t ELSE SaveLocation(Did(t, "load")), error>>

\* One try for the programs of the parts in the sequence parts.
LoadPrograms(s, parts, place, fails) ==
    LET tried[i \in 0..Len(parts)] ==
            IF i = 0 THEN <<s, FALSE>> ELSE LoadProgram(tried[i - 1], parts[i], place, fails)
    IN tried[Len(parts)]

LoadMulti(s, place, error) ==
    LET t == [s EXCEPT !.lib.object = "multi", !.lib.part = 0, !.lib.place = place,
                       !.lib.named = FALSE]
    IN <<IF error THEN t ELSE SaveLocation(Did(t, "load")), error>>

\* A try that fails is followed by another.
ProgramChange(s, parts, bank, place) ==
    LET failures == {-1} \cup {parts[i] : i \in DOMAIN parts}
        try(t) == IF bank THEN {LoadPrograms(t, parts, place, f) : f \in failures}
                  ELSE {LoadMulti(t, place, e) : e \in BOOLEAN}
        done == {r \in try(s) : ~r[2]}
        again == UNION {try(r[1]) : r \in try(s) \ done}
    IN {IF r[2] THEN r[1] ELSE [r[1] EXCEPT !.lib.dirty = TRUE] : r \in done \cup again}

LibraryInit ==
    [ action |-> "browse", more |-> FALSE, mode |-> 0, object |-> "program", part |-> 0,
      place |-> kBlankPlace, named |-> FALSE, dirty |-> FALSE,
      loaded |-> [i \in {IndexOf(o, p) : o \in {"patch", "sequence", "program", "multi"},
                                         p \in 0..5} |-> kBlankPlace] ]

=============================================================================
