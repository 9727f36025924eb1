---------------------------- MODULE VersionHistory ----------------------------
(***************************************************************************)
(* The versions and the clipboard of one object of the storage, the        *)
(* program of a part (src/controller/storage.{h,cc} and the pages that use *)
(* them).  A snapshot is saved to the history, in files numbered by a      *)
(* counter of 8 bits, and the version manager steps back and forward       *)
(* through these files.  The files outlive a restart of the unit, the      *)
(* counter does not.                                                       *)
(*                                                                         *)
(* The contents of a program is a model value.  An operation finds the     *)
(* memory card usable or not; on a usable card it completes.               *)
(*                                                                         *)
(* A definition whose name has an underscore is a faulty variant of the    *)
(* one that follows it: the properties are tested against these faults.    *)
(***************************************************************************)
EXTENDS Integers

CONSTANTS
    Versions,       \* the number of versions (256)
    Contents,       \* what a program may contain
    NoFile            \* no file

ASSUME HistoryAssumption ==
    /\ Versions \in Nat /\ Versions > 1
    /\ Contents # {} /\ NoFile \notin Contents

VARIABLES
    store,      \* the program, its files and its version
    card,       \* whether the memory card can be used
    page,       \* the version manager: closed, showing this program, or another
    entered,    \* history: a snapshot of this program opened the version manager,
                \* and nothing has changed the program shown since
    steps       \* history: steps back less steps forward since then

historyvars == <<store, card, page, entered, steps>>
manager == <<page, entered, steps>>

Slots == 0..(Versions - 1)
Next1(v) == IF v = Versions - 1 THEN 0 ELSE v + 1     \* uint8_t + 1
Back1(v) == IF v = 0 THEN Versions - 1 ELSE v - 1     \* uint8_t - 1

Files == Contents \cup {NoFile}

Saved(s) == {v \in Slots : s.history[v] # NoFile}

\* The program at boot.  In the record,
\*   live       the program in memory
\*   flag       FLAG_HAS_USER_CHANGE of the part
\*   version    version_[location.index()]
\*   history    the file of each version
\*   clipboard  the clipboard, and previous, its backup
\*   older      history: <<v, w>> if the file v was saved before the file w
\*   origin     history: "user" if the user has edited the program and no snapshot
\*              of it was saved since, "elsewhere" if something that takes no
\*              snapshot has replaced it since, else "storage"
Booted(content) ==
    [ live |-> content, flag |-> FALSE, version |-> 0,
      history |-> [v \in Slots |-> NoFile], clipboard |-> NoFile, previous |-> NoFile,
      older |-> {}, origin |-> "storage" ]

-----------------------------------------------------------------------------
(* The operations of Storage.                                              *)

\* Load: the flags of the part are cleared (TouchObject), if there is a file.
AfterLoad(s, file, usable) ==
    IF file = NoFile \/ ~usable THEN s
    ELSE [s EXCEPT !.live = file, !.flag = FALSE, !.origin = "storage"]

AfterSnapshot_NoGap(s, usable) ==
    IF ~usable THEN [s EXCEPT !.version = Next1(s.version)]
    ELSE [s EXCEPT !.history = [v \in Slots |-> IF v = s.version THEN s.live ELSE s.history[v]],
                   !.older = {p \in s.older : p[1] # s.version /\ p[2] # s.version}
                       \cup {<<v, s.version>> : v \in Saved(s) \ {s.version}},
                   !.version = Next1(s.version),
                   !.origin = "storage"]

\* The version is saved and the file of the next one removed: "Create a gap in
\* the version number sequence to prevent forwarding."  Whether this works
\* does not matter for the counter.
AfterSnapshot(s, usable) ==
    LET gap == Next1(s.version)
        rest == Saved(s) \ {s.version, gap}
    IN  IF ~usable THEN [s EXCEPT !.version = gap]
        ELSE [s EXCEPT !.history = [v \in Slots |-> IF v = gap THEN NoFile
                                                    ELSE IF v = s.version THEN s.live
                                                    ELSE s.history[v]],
                       !.older = {p \in s.older : p[1] \in rest /\ p[2] \in rest}
                           \cup {<<v, s.version>> : v \in rest},
                       !.version = gap,
                       !.origin = "storage"]

\* PreviousVersion and NextVersion.
AfterStepTo(s, version, usable) ==
    IF s.history[version] = NoFile \/ ~usable THEN s
    ELSE [AfterLoad(s, s.history[version], usable) EXCEPT !.version = version]

AfterPreviousVersion(s, usable) == AfterStepTo(s, Back1(s.version), usable)

AfterNextVersion_Twice(s, usable) == AfterStepTo(s, Next1(Next1(s.version)), usable)

AfterNextVersion(s, usable) == AfterStepTo(s, Next1(s.version), usable)

\* Save to the clipboard, the previous clipboard being kept.
AfterCopy(s, usable) ==
    IF ~usable THEN s ELSE [s EXCEPT !.previous = s.clipboard, !.clipboard = s.live]

AfterPaste(s, usable) ==
    LET t == AfterSnapshot(s, usable)
    IN  AfterLoad(t, t.clipboard, usable)

AfterSwap(s, usable) ==
    LET t == AfterCopy(AfterSnapshot(s, usable), usable)
    IN  AfterLoad(t, t.previous, usable)

\* Load from a bank.
AfterBankLoad_NoSnapshot(s, file, usable) == AfterLoad(s, file, usable)

AfterBankLoad(s, file, usable) ==
    AfterLoad(IF s.flag THEN AfterSnapshot(s, usable) ELSE s, file, usable)

-----------------------------------------------------------------------------
(* The pages, MIDI and the rest of the firmware.                           *)

HistoryInit ==
    /\ \E content \in Contents : store = Booted(content)
    /\ card \in BOOLEAN
    /\ page = "closed" /\ entered = FALSE /\ steps = 0

NotEntered == entered' = FALSE /\ steps' = 0

\* A parameter is changed from the panel.
Edit(content) ==
    /\ page = "closed"
    /\ store' = [store EXCEPT !.live = content, !.flag = TRUE, !.origin = "user"]
    /\ UNCHANGED <<card, manager>>

\* UiPage::OnKey: the shifted keys of every other page.
QuickKey ==
    /\ page = "closed"
    /\ store' \in {AfterCopy(store, card), AfterSwap(store, card), AfterPaste(store, card),
                   AfterSnapshot(store, card)}
    /\ UNCHANGED <<card, manager>>

\* Library::OnIncrement.  Saving to a bank does not change this state.
BrowseTo(file) ==
    /\ page = "closed"
    /\ store' = AfterBankLoad(store, file, card)
    /\ UNCHANGED <<card, manager>>

\* The dialog of the library that initialises or randomises the program.
InitProgram(content) ==
    /\ page = "closed"
    /\ store' = [AfterSnapshot(store, card) EXCEPT !.live = content, !.flag = FALSE,
                                                   !.origin = "storage"]
    /\ UNCHANGED <<card, manager>>

\* MidiDispatcher::ProgramChange, which tries twice.  It changes the location
\* the library and the version manager work on.
LoadByProgramChange(file) ==
    /\ LET s == AfterBankLoad(store, file, card)
       IN  store' = IF file = NoFile \/ ~card THEN AfterBankLoad(s, file, card) ELSE s
    /\ page' \in IF page = "closed" THEN {page} ELSE {page, "here"}
    /\ NotEntered
    /\ UNCHANGED card

\* VersionManager::OnInit, for this program or for another object.
OpenHere ==
    /\ page = "closed"
    /\ store' = AfterPreviousVersion(AfterSnapshot(store, card), card)
    /\ page' = "here" /\ entered' = card /\ steps' = 0
    /\ UNCHANGED card

OpenElsewhere ==
    /\ page = "closed"
    /\ page' = "elsewhere"
    /\ UNCHANGED <<store, card, entered, steps>>

\* Library::UpdateLocation follows the active part, which the second encoder
\* changes on every page.
TurnPage ==
    /\ page # "closed"
    /\ page' = IF page = "here" THEN "elsewhere" ELSE "here"
    /\ NotEntered
    /\ UNCHANGED <<store, card>>

\* VersionManager::OnKey: copy, swap, paste, keep and exit leave the page.
Leave ==
    /\ page # "closed"
    /\ store' \in IF page = "elsewhere" THEN {store}
                  ELSE {AfterCopy(store, card), AfterSwap(store, card), AfterPaste(store, card),
                        AfterSnapshot(store, card), store}
    /\ page' = "closed" /\ NotEntered
    /\ UNCHANGED card

Count(n) == steps' = IF entered /\ store'.version # store.version THEN steps + n ELSE steps

StepBack ==
    /\ page = "here"
    /\ store' = AfterPreviousVersion(store, card)
    /\ Count(1)
    /\ UNCHANGED <<card, page, entered>>

StepForward ==
    /\ page = "here"
    /\ store' = AfterNextVersion(store, card)
    /\ Count(-1)
    /\ UNCHANGED <<card, page, entered>>

\* A SysEx transfer, or an object that shares the flags of the part (its
\* patch, its sequence, the multi), replaces some of the program.
ReplaceFromElsewhere(content) ==
    /\ store' = [store EXCEPT !.live = content, !.flag = FALSE, !.origin = "elsewhere"]
    /\ UNCHANGED <<card, manager>>

\* The program of another part is copied or swapped: the clipboard is shared.
CopyElsewhere(content) ==
    /\ page # "here" /\ card
    /\ store' = [store EXCEPT !.previous = store.clipboard, !.clipboard = content]
    /\ page' = "closed" /\ NotEntered
    /\ UNCHANGED card

InsertOrRemoveCard == card' = ~card /\ UNCHANGED <<store, manager>>

\* The unit is switched off and on; the files stay.
Restart(content) ==
    /\ store' = [Booted(content) EXCEPT !.history = store.history, !.older = store.older,
                                        !.clipboard = store.clipboard,
                                        !.previous = store.previous,
                                        !.origin = "elsewhere"]
    /\ page' = "closed" /\ NotEntered
    /\ UNCHANGED card

HistoryNext ==
    \/ \E content \in Contents :
          \/ Edit(content) \/ InitProgram(content)
          \/ ReplaceFromElsewhere(content) \/ CopyElsewhere(content) \/ Restart(content)
    \/ \E file \in Files : BrowseTo(file) \/ LoadByProgramChange(file)
    \/ QuickKey
    \/ OpenHere \/ OpenElsewhere \/ TurnPage \/ Leave \/ StepBack \/ StepForward
    \/ InsertOrRemoveCard

HistorySpec == HistoryInit /\ [][HistoryNext]_historyvars

-----------------------------------------------------------------------------
(* Correctness.                                                            *)

Store ==
    [ live : Contents, flag : BOOLEAN, version : Slots, history : [Slots -> Files],
      clipboard : Files, previous : Files, older : SUBSET (Slots \X Slots),
      origin : {"storage", "user", "elsewhere"} ]

HistoryTypeOK ==
    /\ store \in Store
    /\ card \in BOOLEAN /\ entered \in BOOLEAN
    /\ page \in {"closed", "here", "elsewhere"}

\* The files are a history: when two versions that follow each other have a
\* file, the second one was saved after the first, across restarts (the
\* counter starts again among older files), the wrap of the counter, failures
\* of the card and versions abandoned by stepping back.
Ordered(s) ==
    \A v \in Slots : {v, Next1(v)} \subseteq Saved(s) => <<v, Next1(v)>> \in s.older

HistoryInOrder == Ordered(store)

\* A step forward in the version manager only undoes a step back: no version
\* that a snapshot has left behind can be reached by forwarding
\* (storage.cc:233).
ForwardIsRedo ==
    [][entered /\ StepForward /\ store'.version # store.version => steps > 0]_historyvars

\* Whatever operation of the storage replaces what the user has edited, by the
\* clipboard, a program of a bank, another version or an initialised program, a
\* snapshot has been saved first: it is the current version or the one before.
\* It is lost in the version manager if the page came to this program by a
\* change of part, which takes no snapshot.
EditedContentIsKept ==
    [][store.origin = "user" /\ card /\ store'.origin = "storage" =>
          \/ store.live \in {store'.history[store'.version],
                             store'.history[Back1(store'.version)]}
          \/ ~entered /\ (StepBack \/ StepForward)]_historyvars
=============================================================================
