----------------------------- MODULE PanelProofs -----------------------------
(***************************************************************************)
(* Theorems about the versions of a program, for any number of versions    *)
(* and any contents, and about the front panel, for any sessions of the    *)
(* player.                                                                 *)
(*                                                                         *)
(* The versions: the operations are functions on the record store, so each *)
(* of them gets a lemma, and a step of the system is one or several of     *)
(* them in turn.                                                           *)
(*                                                                         *)
(* The panel: the invariant PanelInv says where the player may be, that    *)
(* what is chosen and assigned exists, that the active control can be      *)
(* edited, that the library shows the place it has loaded, and that the    *)
(* events in the queue were made for what is shown.  Each handler of a     *)
(* page gets a lemma that says that it keeps the state of the main loop    *)
(* and either leaves the player where he is (Stays) or has asked for a     *)
(* flush of the queue (Follows).                                           *)
(***************************************************************************)
EXTENDS VersionHistory, Panel, OrderLemmas, TLAPS

\* The counter of 8 bits goes around both ways.
LEMMA Neighbours ==
    ASSUME NEW v \in Slots
    PROVE  /\ Next1(v) \in Slots /\ Next1(v) # v /\ Back1(Next1(v)) = v
           /\ Back1(v) \in Slots /\ Next1(Back1(v)) = v
  BY HistoryAssumption DEF Slots, Next1, Back1

\* What every operation preserves.
Sound(s) == s \in Store /\ Ordered(s)

\* A load changes the program and its marks, none of the files.
LEMMA LoadIsSound ==
    ASSUME NEW s, Sound(s), NEW file \in Files, NEW usable \in BOOLEAN
    PROVE  Sound(AfterLoad(s, file, usable))
  <1>1. CASE file = NoFile \/ ~usable
    BY <1>1 DEF AfterLoad
  <1>2. CASE file \in Contents /\ usable
    <2>1. /\ AfterLoad(s, file, usable) \in Store
          /\ AfterLoad(s, file, usable).history = s.history
          /\ AfterLoad(s, file, usable).older = s.older
      BY <1>2, HistoryAssumption DEF AfterLoad, Store, Sound
    <2> QED  BY <2>1 DEF Sound, Ordered, Saved
  <1> QED  BY <1>1, <1>2 DEF Files

\* A snapshot adds the newest file and removes the one that follows it: the
\* only new pair of neighbours is the file before it and the new one.
LEMMA SnapshotIsSound ==
    ASSUME NEW s, Sound(s), NEW usable \in BOOLEAN
    PROVE  Sound(AfterSnapshot(s, usable))
  <1>0. /\ s \in Store /\ s.version \in Slots /\ s.live \in Contents
        /\ s.history \in [Slots -> Files] /\ s.older \subseteq Slots \X Slots
    BY DEF Sound, Store
  <1>1. CASE ~usable
    <2>1. /\ AfterSnapshot(s, usable) = [s EXCEPT !.version = Next1(s.version)]
          /\ Next1(s.version) \in Slots
      BY <1>0, <1>1, Neighbours DEF AfterSnapshot
    <2>2. /\ AfterSnapshot(s, usable) \in Store
          /\ AfterSnapshot(s, usable).history = s.history
          /\ AfterSnapshot(s, usable).older = s.older
      BY <1>0, <2>1 DEF Store
    <2> QED  BY <2>2 DEF Sound, Ordered, Saved
  <1>2. CASE usable
    <2> DEFINE gap == Next1(s.version)
               rest == Saved(s) \ {s.version, gap}
               history == [v \in Slots |-> IF v = gap THEN NoFile
                                           ELSE IF v = s.version THEN s.live
                                           ELSE s.history[v]]
               older == {p \in s.older : p[1] \in rest /\ p[2] \in rest}
                           \cup {<<v, s.version>> : v \in rest}
               t == AfterSnapshot(s, usable)
    <2>1. t = [s EXCEPT !.history = history, !.older = older, !.version = gap,
                        !.origin = "storage"]
      BY <1>2 DEF AfterSnapshot
    <2>2. gap \in Slots /\ gap # s.version
      BY <1>0, Neighbours
    <2>3. history \in [Slots -> Files]
      BY <1>0 DEF Files
    <2>4. older \in SUBSET (Slots \X Slots)
      BY <1>0 DEF Saved
    <2>5. t \in Store /\ t.history = history /\ t.older = older
      <3> HIDE DEF history, older, gap, t
      <3> QED  BY <1>0, <2>1, <2>2, <2>3, <2>4 DEF Store
    <2>6. Saved(t) = rest \cup {s.version}
      BY <1>0, <2>2, <2>5, HistoryAssumption DEF Saved
    <2>7. ASSUME NEW v \in Slots, {v, Next1(v)} \subseteq Saved(t)
          PROVE  <<v, Next1(v)>> \in older
      <3>1. v # s.version
        BY <2>2, <2>6, <2>7
      <3>2. v \in rest
        BY <2>6, <2>7, <3>1
      <3>3. CASE Next1(v) = s.version
        BY <3>2, <3>3
      <3>4. CASE Next1(v) # s.version
        <4>1. Next1(v) \in rest
          BY <2>6, <2>7, <3>4
        <4>2. <<v, Next1(v)>> \in s.older
          BY <3>2, <4>1 DEF Sound, Ordered
        <4> QED  BY <3>2, <4>1, <4>2
      <3> QED  BY <3>3, <3>4
    <2> QED  BY <2>5, <2>7 DEF Sound, Ordered
  <1> QED  BY <1>1, <1>2

\* A step to another version is a load.
LEMMA StepToIsSound ==
    ASSUME NEW s, Sound(s), NEW version \in Slots, NEW usable \in BOOLEAN
    PROVE  Sound(AfterStepTo(s, version, usable))
  <1>1. s.history[version] \in Files
    BY DEF Sound, Store
  <1> DEFINE t == AfterLoad(s, s.history[version], usable)
  <1>2. Sound(t)
    BY <1>1, LoadIsSound
  <1>3. CASE AfterStepTo(s, version, usable) = s
    BY <1>3
  <1>4. CASE AfterStepTo(s, version, usable) = [t EXCEPT !.version = version]
    <2> HIDE DEF t
    <2> DEFINE u == [t EXCEPT !.version = version]
    <2>1. u \in Store /\ u.history = t.history /\ u.older = t.older
      BY <1>2 DEF Sound, Store
    <2>2. Sound(u)
      BY <1>2, <2>1 DEF Sound, Ordered, Saved
    <2> QED  BY <1>4, <2>2
  <1> QED  BY <1>3, <1>4 DEF AfterStepTo

LEMMA VersionsAreSound ==
    ASSUME NEW s, Sound(s), NEW usable \in BOOLEAN
    PROVE  Sound(AfterPreviousVersion(s, usable)) /\ Sound(AfterNextVersion(s, usable))
  <1>1. Back1(s.version) \in Slots /\ Next1(s.version) \in Slots
    BY Neighbours DEF Sound, Store
  <1> QED  BY <1>1, StepToIsSound DEF AfterPreviousVersion, AfterNextVersion

LEMMA CopyIsSound ==
    ASSUME NEW s, Sound(s), NEW usable \in BOOLEAN
    PROVE  Sound(AfterCopy(s, usable))
  <1>1. /\ AfterCopy(s, usable) \in Store
        /\ AfterCopy(s, usable).history = s.history
        /\ AfterCopy(s, usable).older = s.older
    BY DEF AfterCopy, Sound, Store, Files
  <1> QED  BY <1>1 DEF Sound, Ordered, Saved

LEMMA PasteIsSound ==
    ASSUME NEW s, Sound(s), NEW usable \in BOOLEAN
    PROVE  Sound(AfterPaste(s, usable))
  <1> DEFINE t == AfterSnapshot(s, usable)
  <1>1. Sound(t)
    BY SnapshotIsSound
  <1>2. t.clipboard \in Files
    BY <1>1 DEF Sound, Store
  <1>3. AfterPaste(s, usable) = AfterLoad(t, t.clipboard, usable)
    BY DEF AfterPaste
  <1> HIDE DEF t
  <1> QED  BY <1>1, <1>2, <1>3, LoadIsSound

LEMMA SwapIsSound ==
    ASSUME NEW s, Sound(s), NEW usable \in BOOLEAN
    PROVE  Sound(AfterSwap(s, usable))
  <1> DEFINE t == AfterCopy(AfterSnapshot(s, usable), usable)
  <1>1. Sound(t)
    BY SnapshotIsSound, CopyIsSound
  <1>2. t.previous \in Files
    BY <1>1 DEF Sound, Store
  <1>3. AfterSwap(s, usable) = AfterLoad(t, t.previous, usable)
    BY DEF AfterSwap
  <1> HIDE DEF t
  <1> QED  BY <1>1, <1>2, <1>3, LoadIsSound

LEMMA BankLoadIsSound ==
    ASSUME NEW s, Sound(s), NEW file \in Files, NEW usable \in BOOLEAN
    PROVE  Sound(AfterBankLoad(s, file, usable))
  <1> DEFINE t == IF s.flag THEN AfterSnapshot(s, usable) ELSE s
  <1>1. Sound(t)
    BY SnapshotIsSound
  <1>2. AfterBankLoad(s, file, usable) = AfterLoad(t, file, usable)
    BY DEF AfterBankLoad
  <1> HIDE DEF t
  <1> QED  BY <1>1, <1>2, LoadIsSound

\* The program in memory and its marks do not matter for the files.
LEMMA LiveIsFree ==
    ASSUME NEW s, Sound(s), NEW t \in Store, t.history = s.history, t.older = s.older
    PROVE  Sound(t)
  BY DEF Sound, Ordered, Saved

-----------------------------------------------------------------------------

IInv == HistoryTypeOK /\ HistoryInOrder

LEMMA InitSound == HistoryInit => IInv
  <1> SUFFICES ASSUME NEW content \in Contents, store = Booted(content),
                      card \in BOOLEAN, page = "closed", entered = FALSE
               PROVE  IInv
    BY DEF HistoryInit
  <1>1. store \in Store
    BY HistoryAssumption DEF Booted, Store, Files, Slots
  <1>2. Saved(store) = {}
    BY DEF Booted, Saved
  <1> QED  BY <1>1, <1>2 DEF IInv, HistoryTypeOK, HistoryInOrder, Ordered

LEMMA NextSound == IInv /\ [HistoryNext]_historyvars => IInv'
  <1> SUFFICES ASSUME IInv, [HistoryNext]_historyvars
               PROVE  IInv'
    OBVIOUS
  <1> USE DEF NotEntered, manager, Count
  <1>0. Sound(store) /\ card \in BOOLEAN /\ entered \in BOOLEAN
        /\ page \in {"closed", "here", "elsewhere"}
    BY DEF IInv, HistoryTypeOK, HistoryInOrder, Sound
  <1>S. Sound(store') /\ card' \in BOOLEAN /\ entered' \in BOOLEAN
        /\ page' \in {"closed", "here", "elsewhere"} => IInv'
    BY DEF IInv, HistoryTypeOK, HistoryInOrder, Sound
  <1>1. ASSUME NEW content \in Contents, Edit(content)
        PROVE  IInv'
    <2>1. store' \in Store /\ store'.history = store.history /\ store'.older = store.older
      BY <1>0, <1>1 DEF Edit, Store, Sound
    <2> QED  BY <1>0, <1>1, <1>S, <2>1, LiveIsFree DEF Edit
  <1>2. ASSUME NEW content \in Contents, InitProgram(content)
        PROVE  IInv'
    <2> DEFINE s == AfterSnapshot(store, card)
    <2>1. Sound(s)
      BY <1>0, SnapshotIsSound
    <2>2. store' = [s EXCEPT !.live = content, !.flag = FALSE, !.origin = "storage"]
      BY <1>2 DEF InitProgram
    <2> HIDE DEF s
    <2>3. store' \in Store /\ store'.history = s.history /\ store'.older = s.older
      BY <2>1, <2>2 DEF Store, Sound
    <2>4. Sound(store')
      BY <2>1, <2>3, LiveIsFree
    <2> QED  BY <1>0, <1>2, <1>S, <2>4 DEF InitProgram
  <1>3. ASSUME NEW content \in Contents, ReplaceFromElsewhere(content)
        PROVE  IInv'
    <2>1. store' \in Store /\ store'.history = store.history /\ store'.older = store.older
      BY <1>0, <1>3 DEF ReplaceFromElsewhere, Store, Sound
    <2> QED  BY <1>0, <1>3, <1>S, <2>1, LiveIsFree DEF ReplaceFromElsewhere
  <1>4. ASSUME NEW content \in Contents, Restart(content)
        PROVE  IInv'
    <2>1. 0 \in Slots
      BY HistoryAssumption DEF Slots
    <2>2. store' \in Store /\ store'.history = store.history /\ store'.older = store.older
      BY <1>0, <1>4, <2>1 DEF Restart, Booted, Store, Sound
    <2> QED  BY <1>0, <1>4, <1>S, <2>2, LiveIsFree DEF Restart
  <1>5. ASSUME NEW file \in Files, BrowseTo(file)
        PROVE  IInv'
    BY <1>0, <1>5, <1>S, BankLoadIsSound DEF BrowseTo
  <1>6. ASSUME NEW file \in Files, LoadByProgramChange(file)
        PROVE  IInv'
    <2> DEFINE s == AfterBankLoad(store, file, card)
    <2>1. Sound(s)
      BY <1>0, BankLoadIsSound
    <2>2. Sound(AfterBankLoad(s, file, card))
      <3> HIDE DEF s
      <3> QED  BY <1>0, <2>1, BankLoadIsSound
    <2>3. Sound(store')
      BY <1>6, <2>1, <2>2 DEF LoadByProgramChange
    <2> QED  BY <1>0, <1>6, <1>S, <2>3 DEF LoadByProgramChange
  <1>7. CASE QuickKey
    BY <1>0, <1>7, <1>S, CopyIsSound, SwapIsSound, PasteIsSound, SnapshotIsSound DEF QuickKey
  <1>8. CASE OpenHere
    BY <1>0, <1>8, <1>S, SnapshotIsSound, VersionsAreSound DEF OpenHere
  <1>9. CASE OpenElsewhere
    BY <1>0, <1>9, <1>S DEF OpenElsewhere
  <1>10. CASE TurnPage
    BY <1>0, <1>10, <1>S DEF TurnPage
  <1>11. CASE Leave
    BY <1>0, <1>11, <1>S, CopyIsSound, SwapIsSound, PasteIsSound, SnapshotIsSound DEF Leave
  <1>12. CASE StepBack
    BY <1>0, <1>12, <1>S, VersionsAreSound DEF StepBack
  <1>13. CASE StepForward
    BY <1>0, <1>13, <1>S, VersionsAreSound DEF StepForward
  <1>14. CASE InsertOrRemoveCard
    BY <1>0, <1>14, <1>S DEF InsertOrRemoveCard
  <1>15. CASE UNCHANGED historyvars
    BY <1>0, <1>15, <1>S DEF historyvars
  <1>16. ASSUME NEW content \in Contents, CopyElsewhere(content)
        PROVE  IInv'
    <2>1. /\ store' \in Store /\ store'.history = store.history
          /\ store'.older = store.older
      BY <1>0, <1>16 DEF CopyElsewhere, Store, Sound, Files
    <2>2. Sound(store')
      BY <1>0, <2>1 DEF Sound, Ordered, Saved
    <2> QED  BY <1>0, <1>16, <1>S, <2>2 DEF CopyElsewhere
  <1> QED
    BY <1>1, <1>2, <1>3, <1>4, <1>5, <1>6, <1>7, <1>8, <1>9, <1>10, <1>11, <1>12, <1>13,
       <1>14, <1>15, <1>16 DEF HistoryNext

\* The files of the history stay in order for any number of versions, whatever
\* the snapshots, steps, failures of the card and restarts (Storage::Snapshot,
\* PreviousVersion and NextVersion).
THEOREM HistoryStaysInOrder == HistorySpec => []HistoryInOrder
  <1>1. IInv => HistoryInOrder
    BY DEF IInv
  <1> QED  BY InitSound, NextSound, <1>1, PTL DEF HistorySpec

-----------------------------------------------------------------------------
(* What the user has edited is marked for Load, and the version manager is  *)
(* entered with a snapshot, so that nothing is left to save in it.          *)

Marked == store.origin = "user" => store.flag
SavedInManager == entered => page = "here" /\ store.origin # "user"

EditInv == IInv /\ Marked /\ SavedInManager

\* The marks after an operation.
LEMMA Marks ==
    ASSUME NEW s, Sound(s), s.origin = "user" => s.flag, NEW file \in Files,
           NEW version \in Slots, NEW usable \in BOOLEAN
    PROVE  /\ AfterLoad(s, file, usable).origin = "user" => AfterLoad(s, file, usable).flag
           /\ AfterSnapshot(s, usable).origin = "user" => AfterSnapshot(s, usable).flag
           /\ AfterCopy(s, usable).origin = "user" => AfterCopy(s, usable).flag
           /\ AfterStepTo(s, version, usable).origin = "user" => AfterStepTo(s, version, usable).flag
           /\ usable => AfterSnapshot(s, usable).origin # "user"
           /\ s.origin # "user" => AfterStepTo(s, version, usable).origin # "user"
  <1>1. s \in Store
    BY DEF Sound
  <1>2. /\ AfterLoad(s, file, usable).origin = "user" => AfterLoad(s, file, usable).flag
        /\ AfterCopy(s, usable).origin = "user" => AfterCopy(s, usable).flag
    BY <1>1 DEF AfterLoad, AfterCopy, Store
  <1>3. /\ AfterSnapshot(s, usable).origin = "user" => AfterSnapshot(s, usable).flag
        /\ usable => AfterSnapshot(s, usable).origin # "user"
    BY <1>1 DEF AfterSnapshot, Store
  <1>4. /\ AfterStepTo(s, version, usable).origin = "user" => AfterStepTo(s, version, usable).flag
        /\ s.origin # "user" => AfterStepTo(s, version, usable).origin # "user"
    BY <1>1 DEF AfterStepTo, AfterLoad, Store
  <1> QED  BY <1>2, <1>3, <1>4

\* The marks after the operations made of several.
LEMMA CompositeMarks ==
    ASSUME NEW s, Sound(s), s.origin = "user" => s.flag, NEW file \in Files, NEW usable \in BOOLEAN
    PROVE  /\ AfterPaste(s, usable).origin = "user" => AfterPaste(s, usable).flag
           /\ AfterSwap(s, usable).origin = "user" => AfterSwap(s, usable).flag
           /\ AfterBankLoad(s, file, usable).origin = "user" => AfterBankLoad(s, file, usable).flag
  <1> DEFINE t == AfterSnapshot(s, usable)
             u == AfterCopy(t, usable)
             w == IF s.flag THEN t ELSE s
  <1>0. 0 \in Slots
    BY HistoryAssumption DEF Slots
  <1>1. Sound(t) /\ (t.origin = "user" => t.flag) /\ t.clipboard \in Files
    BY <1>0, SnapshotIsSound, Marks DEF Sound, Store
  <1>2. Sound(u) /\ (u.origin = "user" => u.flag) /\ u.previous \in Files
    <2> HIDE DEF t
    <2> QED  BY <1>0, <1>1, CopyIsSound, Marks DEF Sound, Store
  <1>3. Sound(w) /\ (w.origin = "user" => w.flag)
    <2> HIDE DEF t
    <2> QED  BY <1>1
  <1>4. /\ AfterPaste(s, usable) = AfterLoad(t, t.clipboard, usable)
        /\ AfterSwap(s, usable) = AfterLoad(u, u.previous, usable)
        /\ AfterBankLoad(s, file, usable) = AfterLoad(w, file, usable)
    BY DEF AfterPaste, AfterSwap, AfterBankLoad
  <1> HIDE DEF t, u, w
  <1> QED  BY <1>0, <1>1, <1>2, <1>3, <1>4, Marks

LEMMA InitEdits == HistoryInit => EditInv
  <1>1. HistoryInit => store.origin # "user" /\ ~entered
    <2> SUFFICES ASSUME HistoryInit, NEW content \in Contents, store = Booted(content)
                 PROVE  store.origin # "user" /\ ~entered
      BY DEF HistoryInit
    <2> QED  BY DEF HistoryInit, Booted
  <1> QED  BY <1>1, InitSound DEF EditInv, Marked, SavedInManager

LEMMA NextEdits == EditInv /\ [HistoryNext]_historyvars => EditInv'
  <1> SUFFICES ASSUME EditInv, [HistoryNext]_historyvars
               PROVE  (Marked /\ SavedInManager)'
    BY NextSound DEF EditInv
  <1> USE DEF NotEntered, manager, Count
  <1>0. /\ Sound(store) /\ card \in BOOLEAN /\ entered \in BOOLEAN
        /\ (store.origin = "user" => store.flag)
        /\ (entered => page = "here" /\ store.origin # "user")
        /\ store \in Store
    BY DEF EditInv, IInv, HistoryTypeOK, HistoryInOrder, Sound, Marked, SavedInManager
  <1>S. /\ store'.origin = "user" => store'.flag
        /\ entered' => page' = "here" /\ store'.origin # "user"
        => (Marked /\ SavedInManager)'
    BY DEF Marked, SavedInManager
  <1>V. NoFile \in Files /\ 0 \in Slots
    BY HistoryAssumption DEF Files, Slots
  <1>1. ASSUME NEW content \in Contents, Edit(content)
        PROVE  (Marked /\ SavedInManager)'
    BY <1>0, <1>1, <1>S DEF Edit, Store
  <1>2. ASSUME NEW content \in Contents, InitProgram(content)
        PROVE  (Marked /\ SavedInManager)'
    <2> DEFINE s == AfterSnapshot(store, card)
    <2>1. s \in Store
      BY <1>0, SnapshotIsSound DEF Sound
    <2>2. store'.origin # "user"
      <3>1. store' = [s EXCEPT !.live = content, !.flag = FALSE, !.origin = "storage"]
        BY <1>2 DEF InitProgram
      <3> HIDE DEF s
      <3> QED  BY <2>1, <3>1 DEF Store
    <2> QED  BY <1>0, <1>2, <1>S, <2>2 DEF InitProgram
  <1>3. ASSUME NEW content \in Contents, ReplaceFromElsewhere(content)
        PROVE  (Marked /\ SavedInManager)'
    BY <1>0, <1>3, <1>S DEF ReplaceFromElsewhere, Store
  <1>4. ASSUME NEW content \in Contents, Restart(content)
        PROVE  (Marked /\ SavedInManager)'
    BY <1>0, <1>4, <1>S DEF Restart, Booted
  <1>5. ASSUME NEW file \in Files, BrowseTo(file)
        PROVE  (Marked /\ SavedInManager)'
    BY <1>0, <1>5, <1>S, CompositeMarks DEF BrowseTo
  <1>6. ASSUME NEW file \in Files, LoadByProgramChange(file)
        PROVE  (Marked /\ SavedInManager)'
    <2> DEFINE s == AfterBankLoad(store, file, card)
    <2>1. Sound(s) /\ (s.origin = "user" => s.flag)
      BY <1>0, BankLoadIsSound, CompositeMarks
    <2>2. AfterBankLoad(s, file, card).origin = "user" => AfterBankLoad(s, file, card).flag
      <3> HIDE DEF s
      <3> QED  BY <1>0, <2>1, CompositeMarks
    <2>3. store'.origin = "user" => store'.flag
      BY <1>6, <2>1, <2>2 DEF LoadByProgramChange
    <2> QED  BY <1>6, <1>S, <2>3 DEF LoadByProgramChange
  <1>7. CASE QuickKey
    BY <1>0, <1>7, <1>S, <1>V, Marks, CompositeMarks DEF QuickKey
  <1>8. CASE OpenHere
    <2> DEFINE s == AfterSnapshot(store, card)
    <2>1. /\ Sound(s) /\ (s.origin = "user" => s.flag) /\ (card => s.origin # "user")
          /\ Back1(s.version) \in Slots
      BY <1>0, <1>V, SnapshotIsSound, Marks, Neighbours DEF Sound, Store
    <2>2. /\ AfterPreviousVersion(s, card).origin = "user" => AfterPreviousVersion(s, card).flag
          /\ card => AfterPreviousVersion(s, card).origin # "user"
      <3> HIDE DEF s
      <3> QED  BY <1>0, <1>V, <2>1, Marks DEF AfterPreviousVersion
    <2> QED  BY <1>8, <1>S, <2>2 DEF OpenHere
  <1>9. CASE OpenElsewhere
    BY <1>0, <1>9, <1>S DEF OpenElsewhere
  <1>10. CASE TurnPage
    BY <1>0, <1>10, <1>S DEF TurnPage
  <1>11. CASE Leave
    BY <1>0, <1>11, <1>S, <1>V, Marks, CompositeMarks DEF Leave
  <1>12. CASE StepBack
    <2>1. Back1(store.version) \in Slots
      BY <1>0, Neighbours DEF Store
    <2> QED  BY <1>0, <1>12, <1>S, <1>V, <2>1, Marks DEF StepBack, AfterPreviousVersion
  <1>13. CASE StepForward
    <2>1. Next1(store.version) \in Slots
      BY <1>0, Neighbours DEF Store
    <2> QED  BY <1>0, <1>13, <1>S, <1>V, <2>1, Marks DEF StepForward, AfterNextVersion
  <1>14. CASE InsertOrRemoveCard
    BY <1>0, <1>14, <1>S DEF InsertOrRemoveCard
  <1>15. CASE UNCHANGED historyvars
    BY <1>0, <1>15, <1>S DEF historyvars
  <1>16. ASSUME NEW content \in Contents, CopyElsewhere(content)
        PROVE  (Marked /\ SavedInManager)'
    BY <1>0, <1>16, <1>S DEF CopyElsewhere, Store
  <1> QED
    BY <1>1, <1>2, <1>3, <1>4, <1>5, <1>6, <1>7, <1>8, <1>9, <1>10, <1>11, <1>12, <1>13,
       <1>14, <1>15, <1>16 DEF HistoryNext

\* A snapshot on a usable card: the program is in the file before the version.
LEMMA SnapshotSaves ==
    ASSUME NEW s \in Store
    PROVE  LET t == AfterSnapshot(s, TRUE)
           IN  /\ t.history[Back1(t.version)] = s.live /\ t.live = s.live /\ t.flag = s.flag
               /\ Back1(t.version) \in Slots
  <1> DEFINE v == s.version  gap == Next1(v)
  <1>1. v \in Slots /\ gap \in Slots /\ gap # v /\ Back1(gap) = v
    BY Neighbours DEF Store
  <1>2. /\ AfterSnapshot(s, TRUE).version = gap
        /\ AfterSnapshot(s, TRUE).history[v] = s.live
        /\ AfterSnapshot(s, TRUE).live = s.live
        /\ AfterSnapshot(s, TRUE).flag = s.flag
    BY <1>1 DEF AfterSnapshot, Store
  <1> QED  BY <1>1, <1>2

\* What a load and a copy leave alone.
LEMMA LoadKeepsFiles ==
    ASSUME NEW s \in Store, NEW file, NEW usable \in BOOLEAN
    PROVE  /\ AfterLoad(s, file, usable).history = s.history
           /\ AfterLoad(s, file, usable).version = s.version
           /\ AfterCopy(s, usable).history = s.history
           /\ AfterCopy(s, usable).version = s.version
           /\ AfterCopy(s, usable).origin = s.origin
  BY DEF AfterLoad, AfterCopy, Store

\* The program is the current version or the one before.
Kept(s, t) == s.live \in {t.history[t.version], t.history[Back1(t.version)]}

LEMMA OperationsKeep ==
    ASSUME NEW s, Sound(s), s.flag, NEW file \in Files
    PROVE  /\ Kept(s, AfterSnapshot(s, TRUE)) /\ Kept(s, AfterPaste(s, TRUE))
           /\ Kept(s, AfterSwap(s, TRUE)) /\ Kept(s, AfterBankLoad(s, file, TRUE))
  <1> DEFINE t == AfterSnapshot(s, TRUE)
             u == AfterCopy(t, TRUE)
  <1>1. s \in Store /\ t \in Store /\ u \in Store
    BY SnapshotIsSound, CopyIsSound DEF Sound
  <1>2. t.history[Back1(t.version)] = s.live
    BY <1>1, SnapshotSaves
  <1>3. /\ AfterSnapshot(s, TRUE) = t
        /\ AfterPaste(s, TRUE) = AfterLoad(t, t.clipboard, TRUE)
        /\ AfterSwap(s, TRUE) = AfterLoad(u, u.previous, TRUE)
        /\ AfterBankLoad(s, file, TRUE) = AfterLoad(t, file, TRUE)
    BY DEF AfterPaste, AfterSwap, AfterBankLoad
  <1>4. u.history = t.history /\ u.version = t.version
    <2> HIDE DEF t
    <2> QED  BY <1>1, LoadKeepsFiles
  <1> HIDE DEF t, u
  <1>5. Kept(s, t)
    BY <1>2 DEF Kept
  <1>6. ASSUME NEW f
        PROVE  Kept(s, AfterLoad(t, f, TRUE)) /\ Kept(s, AfterLoad(u, f, TRUE))
    <2>1. /\ AfterLoad(t, f, TRUE).history = t.history
          /\ AfterLoad(t, f, TRUE).version = t.version
          /\ AfterLoad(u, f, TRUE).history = u.history
          /\ AfterLoad(u, f, TRUE).version = u.version
      BY <1>1, LoadKeepsFiles
    <2> QED  BY <1>2, <1>4, <2>1 DEF Kept
  <1> QED  BY <1>3, <1>5, <1>6

LEMMA EditedIsKeptByStep ==
    ASSUME EditInv, [HistoryNext]_historyvars, store.origin = "user", card,
           store'.origin = "storage"
    PROVE  \/ Kept(store, store')
           \/ ~entered /\ (StepBack \/ StepForward)
  <1>0. /\ Sound(store) /\ store \in Store /\ store.flag /\ card = TRUE /\ ~entered
        /\ NoFile \in Files
    BY DEF EditInv, IInv, HistoryTypeOK, HistoryInOrder, Sound, Marked, SavedInManager, Files
  <1> DEFINE t == AfterSnapshot(store, TRUE)
  <1>1. Sound(t) /\ t \in Store /\ t.live = store.live /\ t.flag /\ Kept(store, t)
    BY <1>0, SnapshotIsSound, SnapshotSaves, OperationsKeep DEF Sound
  <1>2. AfterCopy(store, TRUE).origin = "user"
    BY <1>0, LoadKeepsFiles
  <1>3. ASSUME NEW content \in Contents, Edit(content)
        PROVE  FALSE
    BY <1>0, <1>3 DEF Edit, Store
  <1>4. ASSUME NEW content \in Contents, InitProgram(content)
        PROVE  Kept(store, store')
    <2>1. store' = [t EXCEPT !.live = content, !.flag = FALSE, !.origin = "storage"]
      BY <1>0, <1>4 DEF InitProgram
    <2> HIDE DEF t
    <2>2. store'.history = t.history /\ store'.version = t.version
      BY <1>1, <2>1 DEF Store
    <2> QED  BY <1>1, <2>2 DEF Kept
  <1>5. ASSUME NEW file \in Files, BrowseTo(file)
        PROVE  Kept(store, store')
    BY <1>0, <1>5, OperationsKeep DEF BrowseTo
  <1>6. ASSUME NEW file \in Files, LoadByProgramChange(file)
        PROVE  Kept(store, store')
    <2>1. CASE file # NoFile
      <3>1. store' = AfterBankLoad(store, file, TRUE)
        BY <1>0, <1>6, <2>1 DEF LoadByProgramChange
      <3> QED  BY <1>0, <3>1, OperationsKeep
    <2>2. CASE file = NoFile
      <3>1. AfterBankLoad(store, NoFile, TRUE) = t
        BY <1>0 DEF AfterBankLoad, AfterLoad
      <3>2. store' = AfterBankLoad(t, NoFile, TRUE)
        BY <1>0, <1>6, <2>2, <3>1 DEF LoadByProgramChange
      <3> HIDE DEF t
      <3>3. Kept(t, store')
        BY <1>0, <1>1, <3>2, OperationsKeep
      <3> QED  BY <1>1, <3>3 DEF Kept
    <2> QED  BY <2>1, <2>2
  <1>7. CASE QuickKey
    BY <1>0, <1>2, <1>7, OperationsKeep DEF QuickKey
  <1>8. CASE OpenHere
    <2>1. store' = AfterPreviousVersion(t, TRUE)
      BY <1>0, <1>8 DEF OpenHere
    <2>2. t.history[Back1(t.version)] = store.live /\ store.live # NoFile
      BY <1>0, SnapshotSaves, HistoryAssumption DEF Store
    <2> DEFINE v == Back1(t.version)
               u == AfterLoad(t, t.history[v], TRUE)
    <2>3. store' = [u EXCEPT !.version = v]
      BY <2>1, <2>2 DEF AfterPreviousVersion, AfterStepTo
    <2>4. u.history = t.history /\ u \in Store
      <3>1. t.history[v] = store.live /\ store.live \in Files
        BY <1>0, <2>2 DEF Store, Files
      <3>2. u = AfterLoad(t, t.history[v], TRUE)
        OBVIOUS
      <3> HIDE DEF t, u, v
      <3> QED  BY <1>1, <3>1, <3>2, LoadKeepsFiles, LoadIsSound DEF Sound
    <2> HIDE DEF u, v
    <2>5. store'.history = u.history /\ store'.version = v
      BY <2>3, <2>4 DEF Store
    <2> QED  BY <2>2, <2>4, <2>5 DEF Kept, v
  <1>9. CASE Leave
    BY <1>0, <1>2, <1>9, OperationsKeep DEF Leave
  <1>11. ASSUME NEW content \in Contents, CopyElsewhere(content)
        PROVE  FALSE
    BY <1>0, <1>11 DEF CopyElsewhere, Store
  <1>12. ASSUME NEW content \in Contents, ReplaceFromElsewhere(content) \/ Restart(content)
         PROVE  FALSE
    BY <1>0, <1>12 DEF ReplaceFromElsewhere, Restart, Booted, Store
  <1>10. CASE OpenElsewhere \/ TurnPage \/ InsertOrRemoveCard \/ UNCHANGED historyvars
    BY <1>0, <1>10 DEF OpenElsewhere, TurnPage, InsertOrRemoveCard, historyvars
  <1> QED
    BY <1>0, <1>3, <1>4, <1>5, <1>6, <1>7, <1>8, <1>9, <1>10, <1>11, <1>12 DEF HistoryNext

\* What the user has edited is found in the history after any operation of the storage has
\* replaced it, whatever the contents and the number of versions (the calls of Snapshot in
\* storage.h, library.cc and version_manager.cc).
THEOREM EditsAreKept == HistorySpec => EditedContentIsKept
  <1>1. EditInv /\ [HistoryNext]_historyvars
        => (store.origin = "user" /\ card /\ store'.origin = "storage" =>
              \/ store.live \in {store'.history[store'.version],
                                 store'.history[Back1(store'.version)]}
              \/ ~entered /\ (StepBack \/ StepForward))
    BY EditedIsKeptByStep DEF Kept
  <1> QED  BY InitEdits, NextEdits, <1>1, PTL DEF HistorySpec, EditedContentIsKept

-----------------------------------------------------------------------------
(* The parameters that the controls of the pages edit.                      *)

\* What chooses the instance that a control edits, and between how many.
Choosers == {"UI_ACTIVE_ENV_LFO", "UI_ACTIVE_MODULATION", "UI_ACTIVE_MODIFIER", "UI_ACTIVE_PART"}
Numbers == [n \in Choosers |->
    CASE n = "UI_ACTIVE_ENV_LFO" -> 3 [] n = "UI_ACTIVE_MODULATION" -> 14
      [] n = "UI_ACTIVE_MODIFIER" -> 4 [] n = "UI_ACTIVE_PART" -> 6]

\* A parameter has as many instances as its chooser has choices, or one; a chooser takes
\* the numbers of the instances as values.
WellIndexed(p) ==
    /\ \/ p.indexed_by = "none" /\ p.num_instances = 1
       \/ p.indexed_by \in Choosers /\ p.num_instances = Numbers[p.indexed_by]
    /\ p.level = "ui" => /\ p.name \in Choosers /\ p.unit = "index"
                         /\ p.min_value = 0 /\ p.max_value = Numbers[p.name] - 1

Edited(p) == WellIndexed(p) /\ p.level \in {"patch", "part", "multi", "ui"}
Setting(p) == WellIndexed(p) /\ p.level = "system"

\* A parameter with one instance.
LEMMA OneFits ==
    ASSUME NEW level, NEW name, NEW unit, NEW min, NEW max, NEW cc
    PROVE  /\ level \in {"patch", "part", "multi"} => Edited(One(level, name, unit, min, max, cc))
           /\ One(level, name, unit, min, max, cc).level = level
           /\ level = "system" => Setting(One(level, name, unit, min, max, cc))
  BY DEF One, Bank, Edited, Setting, WellIndexed

\* A parameter that chooses what is shown.
LEMMA ChooserFits ==
    ASSUME NEW name \in Choosers, NEW cc
    PROVE  Edited(One("ui", name, "index", 0, Numbers[name] - 1, cc))
<1>1. U8(0) = 0 /\ U8(Numbers[name] - 1) = Numbers[name] - 1
  BY DEF U8, Numbers, Choosers
<1> QED BY <1>1 DEF One, Bank, Edited, WellIndexed

\* The parameters of a bank, one by one.
LEMMA BankFits ==
    ASSUME NEW level \in {"patch", "part", "multi"}, NEW name, NEW unit, NEW min, NEW max,
           NEW stride, NEW by \in Choosers, NEW cc
    PROVE  Edited(Bank(level, name, unit, min, max, Numbers[by], stride, by, cc))
  BY DEF Bank, Edited, WellIndexed

\* The table is made of segments; first those of the patch.
LEMMA OscillatorsFit ==
    /\ Len(OscillatorParameters) = 8
    /\ OscillatorParameters \in Seq({OscillatorParameters[i] : i \in 1..8})
    /\ \A i \in 1..8 : Edited(OscillatorParameters[i]) /\ OscillatorParameters[i].level = "patch"
  BY OneFits DEF OscillatorParameters
\* The segment of the parts.
LEMMA PartsFit ==
    /\ Len(PartParameters) = 16
    /\ PartParameters \in Seq({PartParameters[i] : i \in 1..16})
    /\ \A i \in 1..16 : Edited(PartParameters[i]) /\ PartParameters[i].level = "part"
  BY OneFits DEF PartParameters
\* The segments of the modulations and of the modifiers.
LEMMA ModulationsFit ==
    /\ Len(ModulationParameters) = 8
    /\ ModulationParameters \in Seq({ModulationParameters[i] : i \in 1..8})
    /\ \A i \in 1..8 : Edited(ModulationParameters[i])
<1>1. Numbers["UI_ACTIVE_MODULATION"] = 14 /\ Numbers["UI_ACTIVE_MODIFIER"] = 4
  BY DEF Numbers, Choosers
<1>2. \A name, unit, min, max, cc :
        /\ Edited(Bank("patch", name, unit, min, max, 14, 3, "UI_ACTIVE_MODULATION", cc))
        /\ Edited(Bank("patch", name, unit, min, max, 4, 3, "UI_ACTIVE_MODIFIER", cc))
  BY <1>1, BankFits DEF Choosers
<1>3. /\ Edited(One("ui", "UI_ACTIVE_MODULATION", "index", 0, 13, 255))
      /\ Edited(One("ui", "UI_ACTIVE_MODIFIER", "index", 0, 3, 255))
  BY <1>1, ChooserFits DEF Choosers
<1> QED BY <1>2, <1>3 DEF ModulationParameters

\* The segments of the envelopes and LFOs.
LEMMA EnvelopesFit ==
    /\ Len(EnvelopeParameters) = 10
    /\ EnvelopeParameters \in Seq({EnvelopeParameters[i] : i \in 1..10})
    /\ \A i \in 1..10 : Edited(EnvelopeParameters[i])
<1>1. Numbers["UI_ACTIVE_ENV_LFO"] = 3
  BY DEF Numbers, Choosers
<1>2. \A name, unit, min, max, cc :
        Edited(Bank("patch", name, unit, min, max, 3, 8, "UI_ACTIVE_ENV_LFO", cc))
  BY <1>1, BankFits DEF Choosers
<1>3. Edited(One("ui", "UI_ACTIVE_ENV_LFO", "index", 0, 2, 255))
  BY <1>1, ChooserFits DEF Choosers
<1>4. \A name, unit, min, max, cc : Edited(One("patch", name, unit, min, max, cc))
  BY OneFits
<1> QED BY <1>2, <1>3, <1>4 DEF EnvelopeParameters

\* The segment of the multi.
LEMMA MultisFit ==
    /\ Len(MultiParameters) = 8
    /\ MultiParameters \in Seq({MultiParameters[i] : i \in 1..8})
    /\ \A i \in 1..8 : Edited(MultiParameters[i])
<1>1. Numbers["UI_ACTIVE_PART"] = 6
  BY DEF Numbers, Choosers
<1>2. \A name, unit, min, max, cc :
        Edited(Bank("multi", name, unit, min, max, 6, 4, "UI_ACTIVE_PART", cc))
  BY <1>1, BankFits DEF Choosers
<1>3. Edited(One("ui", "UI_ACTIVE_PART", "index", 0, 5, 255))
  BY <1>1, ChooserFits DEF Choosers
<1>4. \A name, unit, min, max, cc : Edited(One("multi", name, unit, min, max, cc))
  BY OneFits
<1> QED BY <1>2, <1>3, <1>4 DEF MultiParameters

\* The segment of the settings: only those are of the system.
LEMMA SettingsFit ==
    /\ Len(SystemParameters) = 7
    /\ SystemParameters \in Seq({SystemParameters[i] : i \in 1..7})
    /\ \A i \in 1..7 : Setting(SystemParameters[i])
  BY OneFits DEF SystemParameters

\* The segments that are left.
LEMMA OthersFit ==
    /\ Len(MixerParameters) = 8 /\ Len(FilterParameters) = 8 /\ Len(FilterModulationParameters) = 2
    /\ MixerParameters \in Seq({MixerParameters[i] : i \in 1..8})
    /\ FilterParameters \in Seq({FilterParameters[i] : i \in 1..8})
    /\ FilterModulationParameters \in Seq({FilterModulationParameters[i] : i \in 1..2})
    /\ \A i \in 1..8 : Edited(MixerParameters[i]) /\ MixerParameters[i].level = "patch"
    /\ \A i \in 1..8 : Edited(FilterParameters[i]) /\ FilterParameters[i].level = "patch"
    /\ \A i \in 1..2 : Edited(FilterModulationParameters[i])
<1>1. \A name, unit, min, max, cc :
        /\ Edited(One("patch", name, unit, min, max, cc))
        /\ One("patch", name, unit, min, max, cc).level = "patch"
  BY OneFits
<1>2. /\ Len(MixerParameters) = 8 /\ \A i \in 1..8 : Edited(MixerParameters[i])
               /\ MixerParameters[i].level = "patch"
      /\ MixerParameters \in Seq({MixerParameters[i] : i \in 1..8})
  BY <1>1 DEF MixerParameters
<1>3. /\ Len(FilterParameters) = 8 /\ \A i \in 1..8 : Edited(FilterParameters[i])
               /\ FilterParameters[i].level = "patch"
      /\ FilterParameters \in Seq({FilterParameters[i] : i \in 1..8})
  BY <1>1 DEF FilterParameters
<1>4. /\ Len(FilterModulationParameters) = 2
      /\ FilterModulationParameters \in Seq({FilterModulationParameters[i] : i \in 1..2})
      /\ \A i \in 1..2 : Edited(FilterModulationParameters[i])
  BY <1>1 DEF FilterModulationParameters
<1> QED BY <1>2, <1>3, <1>4

\* Two tables one after the other.
LEMMA Appended ==
    ASSUME NEW S, NEW A \in Seq(S), NEW B \in Seq(S)
    PROVE  /\ A \o B \in Seq(S) /\ Len(A \o B) = Len(A) + Len(B)
           /\ \A i \in 1..Len(A) : (A \o B)[i] = A[i]
           /\ \A i \in 1..Len(B) : (A \o B)[Len(A) + i] = B[i]
  OBVIOUS

\* A segment is where the table says.
LEMMA Wider ==
    ASSUME NEW X, NEW S, X \subseteq S, NEW s \in Seq(X)
    PROVE  s \in Seq(S)
<1>1. s \in [1..Len(s) -> S] /\ Len(s) \in Nat
  OBVIOUS
<1> QED BY <1>1

\* The table is made of its nine segments.
LEMMA TableSegments ==
    /\ \A i \in 1..8 : ParameterTable[0 + i] = OscillatorParameters[i]
    /\ \A i \in 1..8 : ParameterTable[8 + i] = MixerParameters[i]
    /\ \A i \in 1..8 : ParameterTable[16 + i] = FilterParameters[i]
    /\ \A i \in 1..10 : ParameterTable[24 + i] = EnvelopeParameters[i]
    /\ \A i \in 1..8 : ParameterTable[34 + i] = ModulationParameters[i]
    /\ \A i \in 1..16 : ParameterTable[42 + i] = PartParameters[i]
    /\ \A i \in 1..8 : ParameterTable[58 + i] = MultiParameters[i]
    /\ \A i \in 1..7 : ParameterTable[66 + i] = SystemParameters[i]
    /\ \A i \in 1..2 : ParameterTable[73 + i] = FilterModulationParameters[i]
<1>1. PICK S : /\ OscillatorParameters \in Seq(S) /\ MixerParameters \in Seq(S)
               /\ FilterParameters \in Seq(S) /\ EnvelopeParameters \in Seq(S)
               /\ ModulationParameters \in Seq(S) /\ PartParameters \in Seq(S)
               /\ MultiParameters \in Seq(S) /\ SystemParameters \in Seq(S)
               /\ FilterModulationParameters \in Seq(S)
  <2> DEFINE S == {OscillatorParameters[i] : i \in 1..8} \cup {MixerParameters[i] : i \in 1..8}
                  \cup {FilterParameters[i] : i \in 1..8} \cup {EnvelopeParameters[i] : i \in 1..10}
                  \cup {ModulationParameters[i] : i \in 1..8} \cup {PartParameters[i] : i \in 1..16}
                  \cup {MultiParameters[i] : i \in 1..8} \cup {SystemParameters[i] : i \in 1..7}
                  \cup {FilterModulationParameters[i] : i \in 1..2}
  <2>1. \A X, s : X \subseteq S /\ s \in Seq(X) => s \in Seq(S)
    BY Wider
  <2>2. /\ {OscillatorParameters[i] : i \in 1..8} \subseteq S
                 /\ {MixerParameters[i] : i \in 1..8} \subseteq S
        /\ {FilterParameters[i] : i \in 1..8} \subseteq S
                 /\ {EnvelopeParameters[i] : i \in 1..10} \subseteq S
        /\ {ModulationParameters[i] : i \in 1..8} \subseteq S
                 /\ {PartParameters[i] : i \in 1..16} \subseteq S
        /\ {MultiParameters[i] : i \in 1..8} \subseteq S
                 /\ {SystemParameters[i] : i \in 1..7} \subseteq S
        /\ {FilterModulationParameters[i] : i \in 1..2} \subseteq S
    OBVIOUS
  <2> HIDE DEF S
  <2> QED BY <2>1, <2>2, OscillatorsFit, OthersFit, EnvelopesFit, ModulationsFit, PartsFit,
        MultisFit,
             SettingsFit
<1>T1. PICK T1 : T1 = OscillatorParameters \o MixerParameters
  OBVIOUS
<1>T2. PICK T2 : T2 = T1 \o FilterParameters
  OBVIOUS
<1>T3. PICK T3 : T3 = T2 \o EnvelopeParameters
  OBVIOUS
<1>T4. PICK T4 : T4 = T3 \o ModulationParameters
  OBVIOUS
<1>T5. PICK T5 : T5 = T4 \o PartParameters
  OBVIOUS
<1>T6. PICK T6 : T6 = T5 \o MultiParameters
  OBVIOUS
<1>T7. PICK T7 : T7 = T6 \o SystemParameters
  OBVIOUS
<1>T8. PICK T8 : T8 = T7 \o FilterModulationParameters
  OBVIOUS
<1>2. /\ T1 \in Seq(S) /\ Len(T1) = 16
      /\ \A i \in 1..8 : T1[i] = OscillatorParameters[i]
      /\ \A i \in 1..8 : T1[8 + i] = MixerParameters[i]
  <2>1. OscillatorParameters \in Seq(S) /\ MixerParameters \in Seq(S)
    BY <1>1, OscillatorsFit
  <2>2. Len(OscillatorParameters) = 8 /\ Len(MixerParameters) = 8
    BY OscillatorsFit, OthersFit
  <2>3. /\ OscillatorParameters \o MixerParameters \in Seq(S)
                 /\ Len(OscillatorParameters \o MixerParameters)
                          = Len(OscillatorParameters) + Len(MixerParameters)
        /\ \A i \in 1..Len(OscillatorParameters) :
                 (OscillatorParameters \o MixerParameters)[i] = OscillatorParameters[i]
    BY <2>1, Appended, Zenon
  <2>4. ASSUME NEW i \in 1..Len(MixerParameters)
        PROVE  (OscillatorParameters \o MixerParameters)[Len(OscillatorParameters) + i]
              = MixerParameters[i]
    BY <2>1
  <2>5. /\ T1 \in Seq(S) /\ Len(T1) = Len(OscillatorParameters) + Len(MixerParameters)
        /\ \A i \in 1..Len(OscillatorParameters) : T1[i] = OscillatorParameters[i]
        /\ \A i \in 1..Len(MixerParameters) : T1[Len(OscillatorParameters) + i] = MixerParameters[i]
    BY <2>3, <2>4, <1>T1, Zenon
  <2> QED BY <2>2, <2>5
<1>3. /\ T2 \in Seq(S) /\ Len(T2) = 24
      /\ \A i \in 1..16 : T2[i] = T1[i]
      /\ \A i \in 1..8 : T2[16 + i] = FilterParameters[i]
  <2>1. T1 \in Seq(S) /\ FilterParameters \in Seq(S)
    BY <1>1, <1>2
  <2>2. Len(T1) = 16 /\ Len(FilterParameters) = 8
    BY <1>2, OthersFit
  <2>3. /\ T1 \o FilterParameters \in Seq(S)
                 /\ Len(T1 \o FilterParameters) = Len(T1) + Len(FilterParameters)
        /\ \A i \in 1..Len(T1) : (T1 \o FilterParameters)[i] = T1[i]
    BY <2>1, Appended, Zenon
  <2>4. ASSUME NEW i \in 1..Len(FilterParameters)
        PROVE  (T1 \o FilterParameters)[Len(T1) + i] = FilterParameters[i]
    BY <2>1
  <2>5. /\ T2 \in Seq(S) /\ Len(T2) = Len(T1) + Len(FilterParameters)
        /\ \A i \in 1..Len(T1) : T2[i] = T1[i]
        /\ \A i \in 1..Len(FilterParameters) : T2[Len(T1) + i] = FilterParameters[i]
    BY <2>3, <2>4, <1>T2, Zenon
  <2> QED BY <2>2, <2>5
<1>4. /\ T3 \in Seq(S) /\ Len(T3) = 34
      /\ \A i \in 1..24 : T3[i] = T2[i]
      /\ \A i \in 1..10 : T3[24 + i] = EnvelopeParameters[i]
  <2>1. T2 \in Seq(S) /\ EnvelopeParameters \in Seq(S)
    BY <1>1, <1>3
  <2>2. Len(T2) = 24 /\ Len(EnvelopeParameters) = 10
    BY <1>3, EnvelopesFit
  <2>3. /\ T2 \o EnvelopeParameters \in Seq(S)
                 /\ Len(T2 \o EnvelopeParameters) = Len(T2) + Len(EnvelopeParameters)
        /\ \A i \in 1..Len(T2) : (T2 \o EnvelopeParameters)[i] = T2[i]
    BY <2>1, Appended, Zenon
  <2>4. ASSUME NEW i \in 1..Len(EnvelopeParameters)
        PROVE  (T2 \o EnvelopeParameters)[Len(T2) + i] = EnvelopeParameters[i]
    BY <2>1
  <2>5. /\ T3 \in Seq(S) /\ Len(T3) = Len(T2) + Len(EnvelopeParameters)
        /\ \A i \in 1..Len(T2) : T3[i] = T2[i]
        /\ \A i \in 1..Len(EnvelopeParameters) : T3[Len(T2) + i] = EnvelopeParameters[i]
    BY <2>3, <2>4, <1>T3, Zenon
  <2> QED BY <2>2, <2>5
<1>5. /\ T4 \in Seq(S) /\ Len(T4) = 42
      /\ \A i \in 1..34 : T4[i] = T3[i]
      /\ \A i \in 1..8 : T4[34 + i] = ModulationParameters[i]
  <2>1. T3 \in Seq(S) /\ ModulationParameters \in Seq(S)
    BY <1>1, <1>4
  <2>2. Len(T3) = 34 /\ Len(ModulationParameters) = 8
    BY <1>4, ModulationsFit
  <2>3. /\ T3 \o ModulationParameters \in Seq(S)
                 /\ Len(T3 \o ModulationParameters) = Len(T3) + Len(ModulationParameters)
        /\ \A i \in 1..Len(T3) : (T3 \o ModulationParameters)[i] = T3[i]
    BY <2>1, Appended, Zenon
  <2>4. ASSUME NEW i \in 1..Len(ModulationParameters)
        PROVE  (T3 \o ModulationParameters)[Len(T3) + i] = ModulationParameters[i]
    BY <2>1
  <2>5. /\ T4 \in Seq(S) /\ Len(T4) = Len(T3) + Len(ModulationParameters)
        /\ \A i \in 1..Len(T3) : T4[i] = T3[i]
        /\ \A i \in 1..Len(ModulationParameters) : T4[Len(T3) + i] = ModulationParameters[i]
    BY <2>3, <2>4, <1>T4, Zenon
  <2> QED BY <2>2, <2>5
<1>6. /\ T5 \in Seq(S) /\ Len(T5) = 58
      /\ \A i \in 1..42 : T5[i] = T4[i]
      /\ \A i \in 1..16 : T5[42 + i] = PartParameters[i]
  <2>1. T4 \in Seq(S) /\ PartParameters \in Seq(S)
    BY <1>1, <1>5
  <2>2. Len(T4) = 42 /\ Len(PartParameters) = 16
    BY <1>5, PartsFit
  <2>3. /\ T4 \o PartParameters \in Seq(S)
                 /\ Len(T4 \o PartParameters) = Len(T4) + Len(PartParameters)
        /\ \A i \in 1..Len(T4) : (T4 \o PartParameters)[i] = T4[i]
    BY <2>1, Appended, Zenon
  <2>4. ASSUME NEW i \in 1..Len(PartParameters)
        PROVE  (T4 \o PartParameters)[Len(T4) + i] = PartParameters[i]
    BY <2>1
  <2>5. /\ T5 \in Seq(S) /\ Len(T5) = Len(T4) + Len(PartParameters)
        /\ \A i \in 1..Len(T4) : T5[i] = T4[i]
        /\ \A i \in 1..Len(PartParameters) : T5[Len(T4) + i] = PartParameters[i]
    BY <2>3, <2>4, <1>T5, Zenon
  <2> QED BY <2>2, <2>5
<1>7. /\ T6 \in Seq(S) /\ Len(T6) = 66
      /\ \A i \in 1..58 : T6[i] = T5[i]
      /\ \A i \in 1..8 : T6[58 + i] = MultiParameters[i]
  <2>1. T5 \in Seq(S) /\ MultiParameters \in Seq(S)
    BY <1>1, <1>6
  <2>2. Len(T5) = 58 /\ Len(MultiParameters) = 8
    BY <1>6, MultisFit
  <2>3. /\ T5 \o MultiParameters \in Seq(S)
                 /\ Len(T5 \o MultiParameters) = Len(T5) + Len(MultiParameters)
        /\ \A i \in 1..Len(T5) : (T5 \o MultiParameters)[i] = T5[i]
    BY <2>1, Appended, Zenon
  <2>4. ASSUME NEW i \in 1..Len(MultiParameters)
        PROVE  (T5 \o MultiParameters)[Len(T5) + i] = MultiParameters[i]
    BY <2>1
  <2>5. /\ T6 \in Seq(S) /\ Len(T6) = Len(T5) + Len(MultiParameters)
        /\ \A i \in 1..Len(T5) : T6[i] = T5[i]
        /\ \A i \in 1..Len(MultiParameters) : T6[Len(T5) + i] = MultiParameters[i]
    BY <2>3, <2>4, <1>T6, Zenon
  <2> QED BY <2>2, <2>5
<1>8. /\ T7 \in Seq(S) /\ Len(T7) = 73
      /\ \A i \in 1..66 : T7[i] = T6[i]
      /\ \A i \in 1..7 : T7[66 + i] = SystemParameters[i]
  <2>1. T6 \in Seq(S) /\ SystemParameters \in Seq(S)
    BY <1>1, <1>7
  <2>2. Len(T6) = 66 /\ Len(SystemParameters) = 7
    BY <1>7, SettingsFit
  <2>3. /\ T6 \o SystemParameters \in Seq(S)
                 /\ Len(T6 \o SystemParameters) = Len(T6) + Len(SystemParameters)
        /\ \A i \in 1..Len(T6) : (T6 \o SystemParameters)[i] = T6[i]
    BY <2>1, Appended, Zenon
  <2>4. ASSUME NEW i \in 1..Len(SystemParameters)
        PROVE  (T6 \o SystemParameters)[Len(T6) + i] = SystemParameters[i]
    BY <2>1
  <2>5. /\ T7 \in Seq(S) /\ Len(T7) = Len(T6) + Len(SystemParameters)
        /\ \A i \in 1..Len(T6) : T7[i] = T6[i]
        /\ \A i \in 1..Len(SystemParameters) : T7[Len(T6) + i] = SystemParameters[i]
    BY <2>3, <2>4, <1>T7, Zenon
  <2> QED BY <2>2, <2>5
<1>9. /\ T8 \in Seq(S) /\ Len(T8) = 75
      /\ \A i \in 1..73 : T8[i] = T7[i]
      /\ \A i \in 1..2 : T8[73 + i] = FilterModulationParameters[i]
  <2>1. T7 \in Seq(S) /\ FilterModulationParameters \in Seq(S)
    BY <1>1, <1>8
  <2>2. Len(T7) = 73 /\ Len(FilterModulationParameters) = 2
    BY <1>8, OthersFit
  <2>3. /\ T7 \o FilterModulationParameters \in Seq(S)
                 /\ Len(T7 \o FilterModulationParameters)
                          = Len(T7) + Len(FilterModulationParameters)
        /\ \A i \in 1..Len(T7) : (T7 \o FilterModulationParameters)[i] = T7[i]
    BY <2>1, Appended, Zenon
  <2>4. ASSUME NEW i \in 1..Len(FilterModulationParameters)
        PROVE  (T7 \o FilterModulationParameters)[Len(T7) + i] = FilterModulationParameters[i]
    BY <2>1
  <2>5. /\ T8 \in Seq(S) /\ Len(T8) = Len(T7) + Len(FilterModulationParameters)
        /\ \A i \in 1..Len(T7) : T8[i] = T7[i]
        /\ \A i \in 1..Len(FilterModulationParameters) : T8[Len(T7) + i]
                 = FilterModulationParameters[i]
    BY <2>3, <2>4, <1>T8, Zenon
  <2> QED BY <2>2, <2>5
<1>h1. \A i \in 1..8 : T1[i] = OscillatorParameters[i]
  BY <1>2, Zenon
<1>t1. \A i \in 1..8 : T1[8 + i] = MixerParameters[i]
  BY <1>2, Zenon
<1>h2. \A i \in 1..16 : T2[i] = T1[i]
  BY <1>3, Zenon
<1>t2. \A i \in 1..8 : T2[16 + i] = FilterParameters[i]
  BY <1>3, Zenon
<1>h3. \A i \in 1..24 : T3[i] = T2[i]
  BY <1>4, Zenon
<1>t3. \A i \in 1..10 : T3[24 + i] = EnvelopeParameters[i]
  BY <1>4, Zenon
<1>h4. \A i \in 1..34 : T4[i] = T3[i]
  BY <1>5, Zenon
<1>t4. \A i \in 1..8 : T4[34 + i] = ModulationParameters[i]
  BY <1>5, Zenon
<1>h5. \A i \in 1..42 : T5[i] = T4[i]
  BY <1>6, Zenon
<1>t5. \A i \in 1..16 : T5[42 + i] = PartParameters[i]
  BY <1>6, Zenon
<1>h6. \A i \in 1..58 : T6[i] = T5[i]
  BY <1>7, Zenon
<1>t6. \A i \in 1..8 : T6[58 + i] = MultiParameters[i]
  BY <1>7, Zenon
<1>h7. \A i \in 1..66 : T7[i] = T6[i]
  BY <1>8, Zenon
<1>t7. \A i \in 1..7 : T7[66 + i] = SystemParameters[i]
  BY <1>8, Zenon
<1>h8. \A i \in 1..73 : T8[i] = T7[i]
  BY <1>9, Zenon
<1>t8. \A i \in 1..2 : T8[73 + i] = FilterModulationParameters[i]
  BY <1>9, Zenon
<1>10. ParameterTable = T8
  <2>1. ParameterTable = T1 \o FilterParameters \o EnvelopeParameters \o ModulationParameters
            \o PartParameters \o MultiParameters \o SystemParameters \o FilterModulationParameters
    BY <1>T1 DEF ParameterTable
  <2>2. ParameterTable = T3 \o ModulationParameters \o PartParameters \o MultiParameters
            \o SystemParameters \o FilterModulationParameters
    BY <2>1, <1>T2, <1>T3
  <2>3. ParameterTable = T5 \o MultiParameters \o SystemParameters \o FilterModulationParameters
    BY <2>2, <1>T4, <1>T5
  <2> QED BY <2>3, <1>T6, <1>T7, <1>T8
<1>11. ASSUME NEW i \in 1..8
      PROVE  ParameterTable[0 + i] = OscillatorParameters[i]
  <2>0. 0 + i \in 1..8
    OBVIOUS
  <2>1. T1[i] = OscillatorParameters[i]
    BY <1>h1
  <2>2. T2[i] = T1[i]
    BY <2>0, <1>h2
  <2>3. T3[i] = T2[i]
    BY <2>0, <1>h3
  <2>4. T4[i] = T3[i]
    BY <2>0, <1>h4
  <2>5. T5[i] = T4[i]
    BY <2>0, <1>h5
  <2>6. T6[i] = T5[i]
    BY <2>0, <1>h6
  <2>7. T7[i] = T6[i]
    BY <2>0, <1>h7
  <2>8. T8[i] = T7[i]
    BY <2>0, <1>h8
  <2> QED BY <2>1, <2>2, <2>3, <2>4, <2>5, <2>6, <2>7, <2>8, <1>10
<1>12. ASSUME NEW i \in 1..8
      PROVE  ParameterTable[8 + i] = MixerParameters[i]
  <2>0. 8 + i \in 1..16
    OBVIOUS
  <2>1. T1[8 + i] = MixerParameters[i]
    BY <1>t1
  <2>2. T2[8 + i] = T1[8 + i]
    BY <2>0, <1>h2
  <2>3. T3[8 + i] = T2[8 + i]
    BY <2>0, <1>h3
  <2>4. T4[8 + i] = T3[8 + i]
    BY <2>0, <1>h4
  <2>5. T5[8 + i] = T4[8 + i]
    BY <2>0, <1>h5
  <2>6. T6[8 + i] = T5[8 + i]
    BY <2>0, <1>h6
  <2>7. T7[8 + i] = T6[8 + i]
    BY <2>0, <1>h7
  <2>8. T8[8 + i] = T7[8 + i]
    BY <2>0, <1>h8
  <2> QED BY <2>1, <2>2, <2>3, <2>4, <2>5, <2>6, <2>7, <2>8, <1>10
<1>13. ASSUME NEW i \in 1..8
      PROVE  ParameterTable[16 + i] = FilterParameters[i]
  <2>0. 16 + i \in 1..24
    OBVIOUS
  <2>2. T2[16 + i] = FilterParameters[i]
    BY <1>t2
  <2>3. T3[16 + i] = T2[16 + i]
    BY <2>0, <1>h3
  <2>4. T4[16 + i] = T3[16 + i]
    BY <2>0, <1>h4
  <2>5. T5[16 + i] = T4[16 + i]
    BY <2>0, <1>h5
  <2>6. T6[16 + i] = T5[16 + i]
    BY <2>0, <1>h6
  <2>7. T7[16 + i] = T6[16 + i]
    BY <2>0, <1>h7
  <2>8. T8[16 + i] = T7[16 + i]
    BY <2>0, <1>h8
  <2> QED BY <2>2, <2>3, <2>4, <2>5, <2>6, <2>7, <2>8, <1>10
<1>14. ASSUME NEW i \in 1..10
      PROVE  ParameterTable[24 + i] = EnvelopeParameters[i]
  <2>0. 24 + i \in 1..34
    OBVIOUS
  <2>3. T3[24 + i] = EnvelopeParameters[i]
    BY <1>t3
  <2>4. T4[24 + i] = T3[24 + i]
    BY <2>0, <1>h4
  <2>5. T5[24 + i] = T4[24 + i]
    BY <2>0, <1>h5
  <2>6. T6[24 + i] = T5[24 + i]
    BY <2>0, <1>h6
  <2>7. T7[24 + i] = T6[24 + i]
    BY <2>0, <1>h7
  <2>8. T8[24 + i] = T7[24 + i]
    BY <2>0, <1>h8
  <2> QED BY <2>3, <2>4, <2>5, <2>6, <2>7, <2>8, <1>10
<1>15. ASSUME NEW i \in 1..8
      PROVE  ParameterTable[34 + i] = ModulationParameters[i]
  <2>0. 34 + i \in 1..42
    OBVIOUS
  <2>4. T4[34 + i] = ModulationParameters[i]
    BY <1>t4
  <2>5. T5[34 + i] = T4[34 + i]
    BY <2>0, <1>h5
  <2>6. T6[34 + i] = T5[34 + i]
    BY <2>0, <1>h6
  <2>7. T7[34 + i] = T6[34 + i]
    BY <2>0, <1>h7
  <2>8. T8[34 + i] = T7[34 + i]
    BY <2>0, <1>h8
  <2> QED BY <2>4, <2>5, <2>6, <2>7, <2>8, <1>10
<1>16. ASSUME NEW i \in 1..16
      PROVE  ParameterTable[42 + i] = PartParameters[i]
  <2>0. 42 + i \in 1..58
    OBVIOUS
  <2>5. T5[42 + i] = PartParameters[i]
    BY <1>t5
  <2>6. T6[42 + i] = T5[42 + i]
    BY <2>0, <1>h6
  <2>7. T7[42 + i] = T6[42 + i]
    BY <2>0, <1>h7
  <2>8. T8[42 + i] = T7[42 + i]
    BY <2>0, <1>h8
  <2> QED BY <2>5, <2>6, <2>7, <2>8, <1>10
<1>17. ASSUME NEW i \in 1..8
      PROVE  ParameterTable[58 + i] = MultiParameters[i]
  <2>0. 58 + i \in 1..66
    OBVIOUS
  <2>6. T6[58 + i] = MultiParameters[i]
    BY <1>t6
  <2>7. T7[58 + i] = T6[58 + i]
    BY <2>0, <1>h7
  <2>8. T8[58 + i] = T7[58 + i]
    BY <2>0, <1>h8
  <2> QED BY <2>6, <2>7, <2>8, <1>10
<1>18. ASSUME NEW i \in 1..7
      PROVE  ParameterTable[66 + i] = SystemParameters[i]
  <2>0. 66 + i \in 1..73
    OBVIOUS
  <2>7. T7[66 + i] = SystemParameters[i]
    BY <1>t7
  <2>8. T8[66 + i] = T7[66 + i]
    BY <2>0, <1>h8
  <2> QED BY <2>7, <2>8, <1>10
<1>19. ASSUME NEW i \in 1..2
      PROVE  ParameterTable[73 + i] = FilterModulationParameters[i]
  <2>0. 73 + i \in 1..75
    OBVIOUS
  <2>8. T8[73 + i] = FilterModulationParameters[i]
    BY <1>t8
  <2> QED BY <2>8, <1>10
<1> QED BY <1>11, <1>12, <1>13, <1>14, <1>15, <1>16, <1>17, <1>18, <1>19

\* The table, looked up by the number of a parameter.
LEMMA TableFits ==
    /\ \A i \in 1..75 : i \notin 67..73 => Edited(ParameterTable[i])
    /\ \A i \in 67..73 : Setting(ParameterTable[i])
    /\ \A i \in 1..24 : ParameterTable[i].level = "patch"
    /\ ParameterTable[43].level = "part"
<1>1. ASSUME NEW i \in 1..8
      PROVE  Edited(ParameterTable[i]) /\ ParameterTable[i].level = "patch"
  <2>1. i - 0 \in 1..8 /\ 0 + (i - 0) = i
    OBVIOUS
  <2>2. ParameterTable[0 + (i - 0)] = OscillatorParameters[i - 0]
    BY <2>1, TableSegments, Zenon
  <2> QED BY <2>1, <2>2, OscillatorsFit
<1>2. ASSUME NEW i \in 9..16
      PROVE  Edited(ParameterTable[i]) /\ ParameterTable[i].level = "patch"
  <2>1. i - 8 \in 1..8 /\ 8 + (i - 8) = i
    OBVIOUS
  <2>2. ParameterTable[8 + (i - 8)] = MixerParameters[i - 8]
    BY <2>1, TableSegments, Zenon
  <2> QED BY <2>1, <2>2, OthersFit
<1>3. ASSUME NEW i \in 17..24
      PROVE  Edited(ParameterTable[i]) /\ ParameterTable[i].level = "patch"
  <2>1. i - 16 \in 1..8 /\ 16 + (i - 16) = i
    OBVIOUS
  <2>2. ParameterTable[16 + (i - 16)] = FilterParameters[i - 16]
    BY <2>1, TableSegments, Zenon
  <2> QED BY <2>1, <2>2, OthersFit
<1>4. ASSUME NEW i \in 25..34
      PROVE  Edited(ParameterTable[i])
  <2>1. i - 24 \in 1..10 /\ 24 + (i - 24) = i
    OBVIOUS
  <2>2. ParameterTable[24 + (i - 24)] = EnvelopeParameters[i - 24]
    BY <2>1, TableSegments, Zenon
  <2> QED BY <2>1, <2>2, EnvelopesFit
<1>5. ASSUME NEW i \in 35..42
      PROVE  Edited(ParameterTable[i])
  <2>1. i - 34 \in 1..8 /\ 34 + (i - 34) = i
    OBVIOUS
  <2>2. ParameterTable[34 + (i - 34)] = ModulationParameters[i - 34]
    BY <2>1, TableSegments, Zenon
  <2> QED BY <2>1, <2>2, ModulationsFit
<1>6. ASSUME NEW i \in 43..58
      PROVE  Edited(ParameterTable[i]) /\ ParameterTable[i].level = "part"
  <2>1. i - 42 \in 1..16 /\ 42 + (i - 42) = i
    OBVIOUS
  <2>2. ParameterTable[42 + (i - 42)] = PartParameters[i - 42]
    BY <2>1, TableSegments, Zenon
  <2> QED BY <2>1, <2>2, PartsFit
<1>7. ASSUME NEW i \in 59..66
      PROVE  Edited(ParameterTable[i])
  <2>1. i - 58 \in 1..8 /\ 58 + (i - 58) = i
    OBVIOUS
  <2>2. ParameterTable[58 + (i - 58)] = MultiParameters[i - 58]
    BY <2>1, TableSegments, Zenon
  <2> QED BY <2>1, <2>2, MultisFit
<1>8. ASSUME NEW i \in 67..73
      PROVE  Setting(ParameterTable[i])
  <2>1. i - 66 \in 1..7 /\ 66 + (i - 66) = i
    OBVIOUS
  <2>2. ParameterTable[66 + (i - 66)] = SystemParameters[i - 66]
    BY <2>1, TableSegments, Zenon
  <2> QED BY <2>1, <2>2, SettingsFit
<1>9. ASSUME NEW i \in 74..75
      PROVE  Edited(ParameterTable[i])
  <2>1. i - 73 \in 1..2 /\ 73 + (i - 73) = i
    OBVIOUS
  <2>2. ParameterTable[73 + (i - 73)] = FilterModulationParameters[i - 73]
    BY <2>1, TableSegments, Zenon
  <2> QED BY <2>1, <2>2, OthersFit
<1>10. ASSUME NEW i \in 1..75, i \notin 67..73
       PROVE  Edited(ParameterTable[i])
  <2>1. \/ i \in 1..8 \/ i \in 9..16 \/ i \in 17..24 \/ i \in 25..34 \/ i \in 35..42
        \/ i \in 43..58 \/ i \in 59..66 \/ i \in 74..75
    BY <1>10
  <2> QED BY <2>1, <1>1, <1>2, <1>3, <1>4, <1>5, <1>6, <1>7, <1>9, ZenonT(60)
<1>11. ASSUME NEW i \in 1..24
       PROVE  ParameterTable[i].level = "patch"
  <2>1. i \in 1..8 \/ i \in 9..16 \/ i \in 17..24
    OBVIOUS
  <2> QED BY <2>1, <1>1, <1>2, <1>3, Zenon
<1>12. 43 \in 43..58
  OBVIOUS
<1> QED BY <1>6, <1>8, <1>10, <1>11, <1>12

PageNumbers == 0..16

\* A page that edits parameters: each of its controls edits a parameter of the table, a knob,
\* or nothing, at least one of them edits something, and only the page of the settings edits
\* the settings.
EditsParameters(p, data) ==
    /\ data \in [1..8 -> 0..255]
    /\ \A c \in 1..8 : IsKnob(data[c]) \/ data[c] = 255 \/ data[c] \in 0..74
    /\ p # PAGE_SYSTEM_SETTINGS => \A c \in 1..8 : data[c] \notin 66..72
    /\ \E c \in 1..8 : data[c] # 255

PageOK(p, g) ==
    /\ g.next_page \in PageNumbers /\ g.group \in 0..8
    /\ g.handlers \in {"parameters", "voices", "performance"} => EditsParameters(p, g.data)
    /\ g.handlers = "voices" => g.data[5] = 255 /\ \A c \in 1..4 : g.data[c] # 255
    /\ g.handlers = "library" <=> p = PAGE_LIBRARY
    /\ g.handlers = "versions" <=> p = 14
    /\ p = PAGE_SYSTEM_SETTINGS => g.handlers = "parameters"
    /\ g.handlers \in {"parameters", "voices", "performance", "sequence", "knobs", "library",
             "versions", "os_info"}

\* Every page of the registry is as the handlers expect it.
LEMMA PagesOK == \A p \in PageNumbers : PageOK(p, page_registry[p + 1])
<1> SUFFICES ASSUME NEW p \in PageNumbers
             PROVE  PageOK(p, page_registry[p + 1])
  OBVIOUS
<1> USE DEF PageOK, EditsParameters, Page, NoData, IsKnob, PAGE_LIBRARY, PAGE_SYSTEM_SETTINGS,
          PageNumbers
<1>p0. CASE p = 0
  BY <1>p0 DEF page_registry
<1>p1. CASE p = 1
  BY <1>p1 DEF page_registry
<1>p2. CASE p = 2
  BY <1>p2 DEF page_registry
<1>p3. CASE p = 3
  BY <1>p3 DEF page_registry
<1>p4. CASE p = 4
  BY <1>p4 DEF page_registry
<1>p5. CASE p = 5
  BY <1>p5 DEF page_registry
<1>p6. CASE p = 6
  BY <1>p6 DEF page_registry
<1>p7. CASE p = 7
  BY <1>p7 DEF page_registry
<1>p8. CASE p = 8
  BY <1>p8 DEF page_registry
<1>p9. CASE p = 9
  BY <1>p9 DEF page_registry
<1>p10. CASE p = 10
  BY <1>p10 DEF page_registry
<1>p11. CASE p = 11
  BY <1>p11 DEF page_registry
<1>p12. CASE p = 12
  BY <1>p12 DEF page_registry
<1>p13. CASE p = 13
  BY <1>p13 DEF page_registry
<1>p14. CASE p = 14
  BY <1>p14 DEF page_registry
<1>p15. CASE p = 15
  BY <1>p15 DEF page_registry
<1>p16. CASE p = 16
  BY <1>p16 DEF page_registry
<1> HIDE DEF PageOK
<1> QED BY <1>p0, <1>p1, <1>p2, <1>p3, <1>p4, <1>p5, <1>p6, <1>p7, <1>p8, <1>p9, <1>p10, <1>p11,
      <1>p12, <1>p13, <1>p14, <1>p15, <1>p16 DEF PageNumbers

UiFields == { "page", "dialog", "opening", "flush", "redraw", "home", "recent", "edit", "control",
              "snapped", "snap", "unsaved", "state", "knobs", "knob", "note", "sounds", "playing",
              "step", "did", "lib" }
LibFields == {"action", "more", "mode", "object", "part", "place", "named", "dirty", "loaded"}
Objects == {"patch", "sequence", "program", "multi"}
PartNumbers == 0..5

\* Where the player is, and where the main loop takes him.  A page is initialised when it is
\* opened, but for the library after a dialog box; changed settings are not left.
WhereOK(s) ==
    /\ s.page \in PageNumbers /\ s.home \in PageNumbers /\ s.recent \in [1..9 -> PageNumbers]
    /\ "id" \in DOMAIN s.dialog
    /\ s.dialog.id # "none" => s.page = PAGE_LIBRARY
    /\ s.opening # NoPage => /\ s.opening.page \in PageNumbers
                             /\ s.opening.initialize = TRUE \/ s.opening.page = PAGE_LIBRARY
    /\ s.unsaved \in BOOLEAN
    /\ s.unsaved = TRUE => s.page = PAGE_SYSTEM_SETTINGS /\ s.opening = NoPage

\* What is chosen exists.
ChoicesOK(s) ==
    /\ s.state \in [Choosers -> Nat]
    /\ \A n \in Choosers : s.state[n] < Numbers[n]

KnobSettings ==
    {k \in [part : PartNumbers, parameter : Assignable, instance : Nat] :
        k.instance < NumInstances[k.parameter]}
KnobsOK(s) == s.knob \in 0..7 /\ s.knobs \in [0..7 -> KnobSettings]

\* The active control can be edited, if it is being edited or may be.
ControlOK(s) ==
    /\ Shown(s).handlers \in {"parameters", "performance"} =>
         \/ s.control \in 0..7 /\ Shown(s).data[s.control + 1] # 255
         \/ s.edit = "idle" /\ s.opening # NoPage
    /\ Shown(s).handlers = "voices" =>
         s.control \in Nat /\ (s.edit # "idle" => s.control \in 0..3)

\* The library shows the place it has loaded.
Places == {IndexOf(o, p) : o \in Objects, p \in PartNumbers}
LibTyped(l) ==
    /\ DOMAIN l = LibFields
    /\ l.object \in Objects /\ l.part \in PartNumbers /\ DOMAIN l.loaded = Places
LibOK(l) ==
    /\ LibTyped(l)
    /\ l.action = "browse" /\ l.named = TRUE => l.place = l.loaded[Index(l)]

BaseOK(s) ==
    /\ DOMAIN s = UiFields /\ s.flush \in BOOLEAN
    /\ WhereOK(s) /\ ChoicesOK(s) /\ KnobsOK(s) /\ LibOK(s.lib)
UiOK(s) == BaseOK(s) /\ ControlOK(s)

\* Where the player was when an event that waits was made.
SeenBy(s) == IF s.opening = NoPage THEN {Here(s), <<"opening">>} ELSE {<<"opening">>}
Waiting(s) ==
    {e \in [type : {"turn", "click", "switch", "pot", "note"}, id : 0..15, value : Int,
            seen : SeenBy(s)] :
        e.type = "pot" => e.id \in 0..7 /\ e.value \in 0..127}

PanelInv ==
    /\ session \in Sessions
    /\ UiOK(ui) /\ ui.flush = FALSE
    /\ queue \in Seq(Waiting(ui))

\* What a handler may make of s: the player stays where he is, or the queue is flushed.
Stays(s, t) ==
    /\ UiOK(t)
    /\ t.flush = s.flush /\ t.page = s.page /\ t.dialog.id = s.dialog.id /\ t.opening = s.opening
Follows(s, t) == UiOK(t) /\ t.page = s.page /\ (t.flush = TRUE \/ Stays(s, t))

\* To do nothing is to stay.
LEMMA StaysItself == ASSUME NEW s, UiOK(s) PROVE Stays(s, s) /\ Follows(s, s)
  BY DEF Stays, Follows

\* One step after another.
LEMMA StaysTwice ==
    ASSUME NEW s, NEW t, NEW u, Stays(s, t), Stays(t, u)
    PROVE  Stays(s, u)
  BY DEF Stays

\* To stay is one of the things a handler may do.
LEMMA StaysFollows ==
    ASSUME NEW s, NEW t, Stays(s, t)
    PROVE  Follows(s, t)
  BY DEF Stays, Follows

\* One handler after another: once flushed, the queue stays so.
LEMMA FollowsTwice ==
    ASSUME NEW s, NEW t, NEW u, Follows(s, t), Follows(t, u)
    PROVE  Follows(s, u)
  BY DEF Stays, Follows

\* Another page is asked for.
LEMMA GoesTo ==
    ASSUME NEW s, UiOK(s), s.unsaved = FALSE, NEW to \in PageNumbers, NEW initialize, NEW then,
           initialize = TRUE \/ to = PAGE_LIBRARY
    PROVE  Follows(s, Goto(s, to, initialize, then))
<1>0. PICK o : o = [page |-> to, initialize |-> initialize, then |-> then]
  OBVIOUS
<1>1. PICK t : t = Goto(s, to, initialize, then)
  OBVIOUS
<1>2. /\ DOMAIN s = UiFields
      /\ t = [s EXCEPT !.opening = o, !.flush = TRUE]
  BY <1>0, <1>1 DEF Goto, UiOK, BaseOK
<1>3. /\ DOMAIN t = UiFields /\ t.opening = o /\ t.flush = TRUE
      /\ t.page = s.page /\ t.home = s.home /\ t.recent = s.recent /\ t.dialog = s.dialog
      /\ t.unsaved = s.unsaved /\ t.state = s.state /\ t.knob = s.knob /\ t.knobs = s.knobs
      /\ t.control = s.control /\ t.edit = s.edit /\ t.lib = s.lib
  BY <1>2 DEF UiFields
<1>4. o # NoPage /\ o.page = to /\ o.initialize = initialize
  BY <1>0 DEF NoPage, PageNumbers
<1>5. WhereOK(t)
  BY <1>3, <1>4 DEF UiOK, BaseOK, WhereOK
<1>6. ControlOK(t)
  BY <1>3, <1>4 DEF UiOK, ControlOK, Shown
<1>7. ChoicesOK(t) /\ KnobsOK(t) /\ LibOK(t.lib)
  BY <1>3 DEF UiOK, BaseOK, ChoicesOK, KnobsOK
<1> QED BY <1>1, <1>3, <1>5, <1>6, <1>7 DEF Follows, UiOK, BaseOK

\* What no part of the invariant is about.
LEMMA Frame ==
    ASSUME NEW s, BaseOK(s), NEW t, DOMAIN t = UiFields,
           t.page = s.page, t.home = s.home, t.recent = s.recent, t.dialog = s.dialog,
           t.opening = s.opening, t.flush = s.flush, t.unsaved = s.unsaved, t.state = s.state,
           t.knob = s.knob, t.knobs = s.knobs, t.lib = s.lib, ControlOK(t)
    PROVE  Stays(s, t)
  BY DEF Stays, UiOK, BaseOK, WhereOK, ChoicesOK, KnobsOK

\* The control that is active, and whether it is edited.
LEMMA ActiveControl ==
    ASSUME NEW s, UiOK(s), NEW edit, NEW control,
           Shown(s).handlers \in {"parameters", "performance"} =>
               control \in 0..7 /\ Shown(s).data[control + 1] # 255,
           Shown(s).handlers = "voices" => control \in Nat /\ (edit # "idle" => control \in 0..3)
    PROVE  Stays(s, [s EXCEPT !.edit = edit, !.control = control])
<1>1. PICK t : t = [s EXCEPT !.edit = edit, !.control = control]
  OBVIOUS
<1>2. /\ DOMAIN s = UiFields
  BY DEF UiOK, BaseOK
<1>3. /\ DOMAIN t = UiFields /\ t.opening = s.opening /\ t.flush = s.flush
      /\ t.page = s.page /\ t.home = s.home /\ t.recent = s.recent /\ t.dialog = s.dialog
      /\ t.unsaved = s.unsaved /\ t.state = s.state /\ t.knob = s.knob /\ t.knobs = s.knobs
      /\ t.lib = s.lib /\ t.control = control /\ t.edit = edit
  BY <1>1, <1>2 DEF UiFields
<1>4. ControlOK(t)
  BY <1>3 DEF ControlOK, Shown
<1> QED BY <1>1, <1>3, <1>4, Frame DEF UiOK

\* Only the active control changes.
LEMMA ControlMoves ==
    ASSUME NEW s, UiOK(s), NEW control,
           Shown(s).handlers \in {"parameters", "performance"} =>
               control \in 0..7 /\ Shown(s).data[control + 1] # 255,
           Shown(s).handlers = "voices" => control \in Nat /\ (s.edit # "idle" => control \in 0..3)
    PROVE  Stays(s, [s EXCEPT !.control = control])
<1>1. [s EXCEPT !.control = control] = [s EXCEPT !.edit = s.edit, !.control = control]
  BY DEF UiOK, BaseOK, UiFields
<1> QED BY <1>1, ActiveControl

\* Only the way the control is edited changes.
LEMMA EditChanges ==
    ASSUME NEW s, UiOK(s), NEW edit,
           \/ edit = "idle"
           \/ /\ Shown(s).handlers \in {"parameters", "performance"} =>
                   s.control \in 0..7 /\ Shown(s).data[s.control + 1] # 255
              /\ Shown(s).handlers = "voices" => s.control \in 0..3
    PROVE  Stays(s, [s EXCEPT !.edit = edit])
<1>1. PICK t : t = [s EXCEPT !.edit = edit]
  OBVIOUS
<1>2. DOMAIN s = UiFields
  BY DEF UiOK, BaseOK
<1>3. /\ DOMAIN t = UiFields /\ t.opening = s.opening /\ t.flush = s.flush
      /\ t.page = s.page /\ t.home = s.home /\ t.recent = s.recent /\ t.dialog = s.dialog
      /\ t.unsaved = s.unsaved /\ t.state = s.state /\ t.knob = s.knob /\ t.knobs = s.knobs
      /\ t.lib = s.lib /\ t.control = s.control /\ t.edit = edit
  BY <1>1, <1>2 DEF UiFields
<1>4. ControlOK(t)
  BY <1>3 DEF UiOK, ControlOK, Shown
<1> QED BY <1>1, <1>3, <1>4, Frame DEF UiOK

\* What the invariant is not about, whatever the page.
LEMMA OtherChanges ==
    ASSUME NEW s, UiOK(s), NEW f \in {"redraw", "snapped", "snap", "note", "sounds", "playing",
                                      "step", "did"}, NEW value
    PROVE  Stays(s, [s EXCEPT ![f] = value])
<1>1. PICK t : t = [s EXCEPT ![f] = value]
  OBVIOUS
<1>2. DOMAIN s = UiFields
  BY DEF UiOK, BaseOK
<1>3. /\ DOMAIN t = UiFields /\ t.opening = s.opening /\ t.flush = s.flush
      /\ t.page = s.page /\ t.home = s.home /\ t.recent = s.recent /\ t.dialog = s.dialog
      /\ t.unsaved = s.unsaved /\ t.state = s.state /\ t.knob = s.knob /\ t.knobs = s.knobs
      /\ t.lib = s.lib /\ t.control = s.control /\ t.edit = s.edit
  BY <1>1, <1>2 DEF UiFields
<1>4. ControlOK(t)
  BY <1>3 DEF UiOK, ControlOK, Shown
<1> QED BY <1>1, <1>3, <1>4, Frame DEF UiOK

-----------------------------------------------------------------------------
(* The parameters.                                                         *)

\* What the proofs use of the table of parameters.
LEMMA ParameterFacts ==
    ASSUME NEW d \in 0..74
    PROVE  /\ WellIndexed(parameter(d))
           /\ parameter(d).level = "system" => d \in 66..72
           /\ parameter(d).level \in {"patch", "part", "multi", "ui", "system"}
           /\ d \in 0..23 => parameter(d).level = "patch"
           /\ d = 42 => parameter(d).level = "part"
<1>1. d + 1 \in 1..75 /\ parameter(d) = ParameterTable[d + 1]
  BY DEF parameter, kSequenceData
<1>2. CASE d \in 66..72
  <2>1. d + 1 \in 67..73
    BY <1>2
  <2>2. Setting(ParameterTable[d + 1])
    BY <2>1, TableFits, Zenon
  <2> QED BY <1>1, <1>2, <2>2 DEF Setting
<1>3. CASE d \notin 66..72
  <2>1. d + 1 \notin 67..73
    BY <1>3
  <2>2. Edited(ParameterTable[d + 1])
    BY <1>1, <2>1, TableFits, Zenon
  <2>3. d \in 0..23 => ParameterTable[d + 1].level = "patch"
    <3>1. d \in 0..23 => d + 1 \in 1..24
      OBVIOUS
    <3> QED BY <3>1, TableFits, Zenon
  <2>4. d = 42 => ParameterTable[d + 1].level = "part"
    <3>1. d = 42 => d + 1 = 43
      OBVIOUS
    <3> QED BY <3>1, TableFits, Zenon
  <2> QED BY <1>1, <1>3, <2>2, <2>3, <2>4 DEF Edited
<1> QED BY <1>2, <1>3

\* How many instances a parameter has.
LEMMA InstanceNumbers ==
    ASSUME NEW p, WellIndexed(p)
    PROVE  p.num_instances \in 1..14
  BY DEF WellIndexed, Choosers, Numbers

\* The parameters that a knob may be assigned to.
LEMMA AssignableFacts ==
    /\ Assignable \subseteq 0..74
    /\ \A i \in Assignable : parameter(i).level \in {"patch", "part"} /\ WellIndexed(parameter(i))
    /\ \A i \in Assignable : /\ NumInstances[i] = parameter(i).num_instances
                             /\ NumInstances[i] \in 1..14
    /\ 0..23 \subseteq Assignable /\ 42 \in Assignable
<1>1. DOMAIN NumInstances = 0..74 /\ \A i \in 0..74 : NumInstances[i] = parameter(i).num_instances
  BY DEF NumInstances, kNumParameters
<1>2. Assignable = {i \in 0..74 : parameter(i).level \in {"patch", "part"}}
  BY <1>1 DEF Assignable
<1>3. \A i \in 0..74 : WellIndexed(parameter(i)) /\ NumInstances[i] \in 1..14
  BY <1>1, ParameterFacts, InstanceNumbers
<1>4. 42 \in 0..74 /\ 0..23 \subseteq 0..74
  OBVIOUS
<1>5. parameter(42).level = "part" /\ \A i \in 0..23 : parameter(i).level = "patch"
  BY <1>4, ParameterFacts
<1> HIDE DEF NumInstances
<1> QED BY <1>1, <1>2, <1>3, <1>4, <1>5

\* The assignments of the default multi exist.
LEMMA DefaultKnobs == kDefaultKnobs \in [0..7 -> KnobSettings]
<1>1. \A p \in PartNumbers : \A d \in {1, 16, 22, 42} : Knob(p, d, 0) \in KnobSettings
  <2>1. \A d \in {1, 16, 22, 42} : d \in Assignable /\ 0 < NumInstances[d]
    BY AssignableFacts
  <2> QED BY <2>1 DEF Knob, KnobSettings
<1>2. \A i \in 0..7 : kDefaultKnobs[i] \in KnobSettings
  BY <1>1 DEF kDefaultKnobs, PartNumbers
<1> QED BY <1>2 DEF kDefaultKnobs

\* What a control edits.
LEMMA ControlEdits ==
    ASSUME NEW s, BaseOK(s), Shown(s).handlers \in {"parameters", "performance", "voices"},
           NEW c \in 0..7, parameter_index(s, c) # kNoParameter
    PROVE  /\ WellIndexed(parameter(parameter_index(s, c)))
           /\ parameter(parameter_index(s, c)).level = "system" => s.page = PAGE_SYSTEM_SETTINGS
           /\ instance_index(s, c) < parameter(parameter_index(s, c)).num_instances
           /\ part_index(s, c) \in PartNumbers
           /\ IsKnob(Shown(s).data[c + 1]) =>
                parameter(parameter_index(s, c)).level \in {"patch", "part"}
<1>1. PICK d : d = Shown(s).data[c + 1]
  OBVIOUS
<1>2. s.page \in PageNumbers /\ EditsParameters(s.page, Shown(s).data) /\ c + 1 \in 1..8
  BY PagesOK DEF Shown, BaseOK, WhereOK, PageOK
<1>3. /\ d \in 0..255 /\ (IsKnob(d) \/ d = 255 \/ d \in 0..74)
      /\ s.page # PAGE_SYSTEM_SETTINGS => d \notin 66..72
  <2>1. PICK data : data = Shown(s).data
    OBVIOUS
  <2>2. PICK k \in 1..8 : k = c + 1
    BY <1>2
  <2>3. d = data[k]
    BY <1>1, <2>1, <2>2
  <2>4. EditsParameters(s.page, data)
    BY <1>2, <2>1
  <2> QED BY <2>3, <2>4 DEF EditsParameters
<1>4. CASE IsKnob(d)
  <2>1. d - 240 \in 0..7 /\ s.knobs[d - 240] \in KnobSettings
    BY <1>4 DEF IsKnob, BaseOK, KnobsOK
  <2>2. PICK k : k = s.knobs[d - 240]
    OBVIOUS
  <2>3. k.part \in PartNumbers /\ k.parameter \in Assignable
              /\ k.instance < NumInstances[k.parameter]
    BY <2>1, <2>2 DEF KnobSettings
  <2>4. /\ parameter_index(s, c) = k.parameter /\ instance_index(s, c) = k.instance
        /\ part_index(s, c) = k.part
    BY <1>1, <1>4, <2>2 DEF parameter_index, instance_index, part_index, IsKnob
  <2>5. /\ parameter(k.parameter).level \in {"patch", "part"} /\ WellIndexed(parameter(k.parameter))
        /\ NumInstances[k.parameter] = parameter(k.parameter).num_instances
    BY <2>3, AssignableFacts
  <2> QED BY <2>3, <2>4, <2>5
<1>5. CASE ~IsKnob(d)
  <2>1. parameter_index(s, c) = d /\ part_index(s, c) = s.state["UI_ACTIVE_PART"]
    BY <1>1, <1>5 DEF parameter_index, part_index
  <2>2. d \in 0..74
    BY <1>3, <1>5, <2>1 DEF kNoParameter
  <2>3. WellIndexed(parameter(d)) /\ (parameter(d).level = "system" => d \in 66..72)
    BY <2>2, ParameterFacts
  <2>4. instance_index(s, c) = IF parameter(d).indexed_by # "none"
                               THEN s.state[parameter(d).indexed_by] ELSE 0
    BY <1>1, <1>5, <2>2 DEF instance_index
  <2>5. instance_index(s, c) < parameter(d).num_instances
    <3>1. PICK p : p = parameter(d)
      OBVIOUS
    <3>2. CASE p.indexed_by = "none" /\ p.num_instances = 1
      BY <2>4, <3>1, <3>2
    <3>3. CASE p.indexed_by \in Choosers /\ p.num_instances = Numbers[p.indexed_by]
      <4>1. p.indexed_by # "none"
        BY <3>3 DEF Choosers
      <4>2. s.state[p.indexed_by] < Numbers[p.indexed_by]
        BY <3>3 DEF BaseOK, ChoicesOK
      <4> QED BY <2>4, <3>1, <3>3, <4>1, <4>2
    <3> QED BY <2>3, <3>1, <3>2, <3>3 DEF WellIndexed
  <2>6. s.state["UI_ACTIVE_PART"] \in PartNumbers
    BY DEF BaseOK, ChoicesOK, Choosers, Numbers, PartNumbers
  <2> QED BY <1>1, <1>3, <1>5, <2>1, <2>3, <2>5, <2>6
<1> QED BY <1>4, <1>5

\* A control with data edits a parameter.
LEMMA ControlIndex ==
    ASSUME NEW s, BaseOK(s), Shown(s).handlers \in {"parameters", "performance", "voices"},
           NEW c \in 0..7
    PROVE  parameter_index(s, c) # kNoParameter <=> Shown(s).data[c + 1] # 255
<1>1. PICK d : d = Shown(s).data[c + 1]
  OBVIOUS
<1>2. CASE IsKnob(d)
  <2>1. d - 240 \in 0..7 /\ s.knobs[d - 240] \in KnobSettings /\ d # 255
    BY <1>2 DEF IsKnob, BaseOK, KnobsOK
  <2>2. s.knobs[d - 240].parameter \in Assignable
    BY <2>1 DEF KnobSettings
  <2>3. parameter_index(s, c) = s.knobs[d - 240].parameter
    BY <1>1, <1>2 DEF parameter_index
  <2> QED BY <1>1, <2>1, <2>2, <2>3, AssignableFacts DEF kNoParameter
<1>3. CASE ~IsKnob(d)
  BY <1>1, <1>3 DEF parameter_index, kNoParameter
<1> QED BY <1>2, <1>3

-----------------------------------------------------------------------------
(* The arithmetic of an edit keeps to the values of a chooser.             *)

\* There is always something to choose.
LEMMA ChoosersNumbers == \A n \in Choosers : Numbers[n] \in 1..14
  BY DEF Choosers, Numbers

\* A pot chooses an instance that exists.
LEMMA ScaleFits ==
    ASSUME NEW p, WellIndexed(p), p.level = "ui", NEW v \in 0..127
    PROVE  Scale(p, v) \in Nat /\ Scale(p, v) < Numbers[p.name]
<1>1. PICK n \in 1..14 : n = Numbers[p.name]
  BY ChoosersNumbers DEF WellIndexed
<1>2. p.unit = "index" /\ p.min_value = 0 /\ p.max_value = n - 1
  BY <1>1 DEF WellIndexed
<1>3. U8(p.max_value - p.min_value + 1) = n
  BY <1>2 DEF U8
<1>4. PICK u \in 0..255 : u = U8(2 * v)
  BY DEF U8
<1>5. n * u <= n * 255 /\ 0 <= n * u /\ n * u \in Nat
  BY <1>1, <1>4
<1>6. (n * u) \div 256 \in 0..(n - 1)
  BY <1>5
<1>7. U8((n * u) \div 256 + 0) = (n * u) \div 256
  BY <1>6 DEF U8
<1>8. Scale(p, v) = (n * u) \div 256
  BY <1>2, <1>3, <1>4, <1>7 DEF Scale
<1> QED BY <1>1, <1>6, <1>8

\* The encoder chooses an instance that exists.
LEMMA IncrementFits ==
    ASSUME NEW p, WellIndexed(p), p.level = "ui", NEW v \in Nat, v < Numbers[p.name],
           NEW increment \in Int
    PROVE  /\ Increment(p, v, increment) \in Nat
           /\ Increment(p, v, increment) < Numbers[p.name]
<1>1. PICK n \in 1..14 : n = Numbers[p.name]
  BY ChoosersNumbers DEF WellIndexed
<1>2. p.unit = "index" /\ p.min_value = 0 /\ p.max_value = n - 1
  BY <1>1 DEF WellIndexed
<1>3. Increment(p, v, increment) = IF 0 <= v + increment /\ v + increment <= n - 1
                                   THEN U8(v + increment) ELSE v
  BY <1>2 DEF Increment, Within, Signed
<1> QED BY <1>1, <1>3 DEF U8

-----------------------------------------------------------------------------
(* The parameter editor.                                                   *)

\* A value within its range is set.
LEMMA SetValueStays ==
    ASSUME NEW s, UiOK(s), NEW p, NEW value,
           p.level = "ui" => p.name \in Choosers /\ value \in Nat /\ value < Numbers[p.name],
           p.level = "system" => s.page = PAGE_SYSTEM_SETTINGS /\ s.opening = NoPage
    PROVE  /\ Stays(s, SetValue(s, p, value))
           /\ SetValue(s, p, value).page = s.page /\ SetValue(s, p, value).control = s.control
<1>1. CASE p.level = "ui"
  <2>1. PICK t : t = [s EXCEPT !.state[p.name] = value]
    OBVIOUS
  <2>2. DOMAIN s = UiFields /\ s.state \in [Choosers -> Nat]
    BY DEF UiOK, BaseOK, ChoicesOK
  <2>3. /\ DOMAIN t = UiFields /\ t.opening = s.opening /\ t.flush = s.flush
        /\ t.page = s.page /\ t.home = s.home /\ t.recent = s.recent /\ t.dialog = s.dialog
        /\ t.unsaved = s.unsaved /\ t.knob = s.knob /\ t.knobs = s.knobs
        /\ t.lib = s.lib /\ t.control = s.control /\ t.edit = s.edit
        /\ t.state = [s.state EXCEPT ![p.name] = value]
    BY <2>1, <2>2 DEF UiFields
  <2>4. ChoicesOK(t)
    BY <1>1, <2>2, <2>3 DEF UiOK, BaseOK, ChoicesOK
  <2>5. ControlOK(t)
    BY <2>3 DEF UiOK, ControlOK, Shown
  <2>6. WhereOK(t) /\ KnobsOK(t)
    BY <2>3 DEF UiOK, BaseOK, WhereOK, KnobsOK
  <2>7. SetValue(s, p, value) = t
    BY <1>1, <2>1 DEF SetValue
  <2> QED BY <2>3, <2>4, <2>5, <2>6, <2>7 DEF Stays, UiOK, BaseOK
<1>2. CASE p.level = "system"
  <2>1. PICK t : t = [s EXCEPT !.unsaved = TRUE,
                               !.snap = IF p.name = "SYSTEM_SNAP" THEN value = 1 ELSE @]
    OBVIOUS
  <2>2. DOMAIN s = UiFields
    BY DEF UiOK, BaseOK
  <2>3. /\ DOMAIN t = UiFields /\ t.opening = s.opening /\ t.flush = s.flush
        /\ t.page = s.page /\ t.home = s.home /\ t.recent = s.recent /\ t.dialog = s.dialog
        /\ t.unsaved = TRUE /\ t.state = s.state /\ t.knob = s.knob /\ t.knobs = s.knobs
        /\ t.lib = s.lib /\ t.control = s.control /\ t.edit = s.edit
    BY <2>1, <2>2 DEF UiFields
  <2>4. ControlOK(t)
    BY <2>3 DEF UiOK, ControlOK, Shown
  <2>5. ChoicesOK(t) /\ KnobsOK(t)
    BY <2>3 DEF UiOK, BaseOK, ChoicesOK, KnobsOK
  <2>6. WhereOK(t)
    BY <1>2, <2>3 DEF UiOK, BaseOK, WhereOK
  <2>7. SetValue(s, p, value) = t
    BY <1>2, <2>1 DEF SetValue
  <2> QED BY <2>3, <2>4, <2>5, <2>6, <2>7 DEF Stays, UiOK, BaseOK
<1>3. CASE p.level # "ui" /\ p.level # "system"
  <2>1. SetValue(s, p, value) = s
    BY <1>3 DEF SetValue
  <2> QED BY <2>1, StaysItself
<1> QED BY <1>1, <1>2, <1>3

\* A value is moved within its range.
LEMMA IncrementValueStays ==
    ASSUME NEW s, UiOK(s), NEW p, WellIndexed(p), NEW increment \in Int,
           p.level = "system" => s.page = PAGE_SYSTEM_SETTINGS /\ s.opening = NoPage
    PROVE  /\ Stays(s, IncrementValue(s, p, increment))
           /\ IncrementValue(s, p, increment).page = s.page
           /\ IncrementValue(s, p, increment).control = s.control
<1>1. PICK value : value = CASE p.level = "ui" -> s.state[p.name]
                             [] p.name = "SYSTEM_SNAP" -> IF s.snap THEN 1 ELSE 0
                             [] OTHER -> p.min_value
  OBVIOUS
<1>2. IncrementValue(s, p, increment) = SetValue(s, p, Increment(p, value, increment))
  BY <1>1 DEF IncrementValue
<1>3. ASSUME p.level = "ui"
      PROVE  /\ p.name \in Choosers /\ Increment(p, value, increment) \in Nat
             /\ Increment(p, value, increment) < Numbers[p.name]
  <2>1. p.name \in Choosers /\ p.name # "SYSTEM_SNAP"
    BY <1>3 DEF WellIndexed, Choosers
  <2>2. value = s.state[p.name]
    BY <1>1, <1>3, <2>1
  <2>3. value \in Nat /\ value < Numbers[p.name]
    BY <2>1, <2>2 DEF UiOK, BaseOK, ChoicesOK
  <2> QED BY <1>3, <2>1, <2>3, IncrementFits
<1> QED BY <1>2, <1>3, SetValueStays

\* The control that the encoder reaches from a control, or from either side of the page.
LEMMA NextControlFits ==
    ASSUME NEW s, EditsParameters(s.page, Shown(s).data), NEW from \in -1..8,
           NEW increment \in Int, increment # 0 \/ (from \in 0..7 /\ Shown(s).data[from + 1] # 255)
    PROVE  /\ NextControl(s, from, increment) \in Int
           /\ NextControl(s, from, increment) \in 0..7 =>
                Shown(s).data[NextControl(s, from, increment) + 1] # 255
           /\ from = -1 /\ increment = 1 => NextControl(s, from, increment) \in 0..7
           /\ from = 8 /\ increment = -1 => NextControl(s, from, increment) \in 0..7
<1> DEFINE data == Shown(s).data
           At(k) == from + k * increment
           reach == {k \in 1..9 : At(k) \notin 0..7 \/ data[At(k) + 1] # 255}
           least == CHOOSE k \in reach : \A j \in reach : k <= j
<1>1. NextControl(s, from, increment) = from + increment * least
  BY DEF NextControl
<1>2. 9 \in reach \/ 1 \in reach
  <2>1. CASE increment > 0
    <3>1. 9 * increment >= 9
      BY <2>1
    <3>2. At(9) \notin 0..7
      BY <3>1
    <3> QED BY <3>2
  <2>2. CASE increment < 0
    <3>1. 9 * increment <= -9
      BY <2>2
    <3>2. At(9) \notin 0..7
      BY <3>1
    <3> QED BY <3>2
  <2>3. CASE increment = 0
    <3>1. At(1) = from /\ from \in 0..7 /\ data[from + 1] # 255
      BY <2>3
    <3> QED BY <3>1
  <2> QED BY <2>1, <2>2, <2>3
<1>3. PICK k \in reach : \A j \in reach : k <= j
  <2>1. reach \in SUBSET Nat
    OBVIOUS
  <2> HIDE DEF reach
  <2> QED BY <1>2, <2>1, MinOfNaturals
<1>4. least \in reach /\ \A j \in reach : least <= j
  <2> HIDE DEF reach
  <2> QED BY <1>3
<1> HIDE DEF least
<1>5. least \in 1..9 /\ At(least) \in Int /\ NextControl(s, from, increment) = At(least)
  BY <1>1, <1>4
<1>6. At(least) \in 0..7 => data[At(least) + 1] # 255
  BY <1>4
<1>7. PICK c \in 1..8 : data[c] # 255
  BY DEF EditsParameters
<1>8. from = -1 /\ increment = 1 => At(least) \in 0..7
  <2> SUFFICES ASSUME from = -1, increment = 1
               PROVE  At(least) \in 0..7
    OBVIOUS
  <2>1. At(c) = c - 1 /\ At(least) = least - 1
    BY <1>5
  <2>2. c \in reach
    BY <1>7, <2>1
  <2> QED BY <1>4, <1>5, <2>1, <2>2
<1>9. from = 8 /\ increment = -1 => At(least) \in 0..7
  <2> SUFFICES ASSUME from = 8, increment = -1
               PROVE  At(least) \in 0..7
    OBVIOUS
  <2>1. At(9 - c) = c - 1 /\ At(least) = 8 - least /\ 9 - c \in 1..9
    BY <1>5
  <2>2. 9 - c \in reach
    BY <1>7, <2>1
  <2> QED BY <1>4, <1>5, <2>1, <2>2
<1> HIDE DEF At
<1> QED BY <1>5, <1>6, <1>8, <1>9

\* Before or after the pages of the encoder, or where there is none to go to.
LEMMA RelativeFollows ==
    ASSUME NEW s, UiOK(s), NEW increment \in Int
    PROVE  Follows(s, ShowPageRelative(s, increment))
<1>1. CASE s.page >= PAGE_LIBRARY
  <2>1. ShowPageRelative(s, increment) = s
    BY <1>1 DEF ShowPageRelative
  <2> QED BY <2>1, StaysItself
<1>2. CASE ~(s.page >= PAGE_LIBRARY)
  <2>1. s.page \in 0..12 /\ s.unsaved = FALSE
    BY <1>2 DEF UiOK, BaseOK, WhereOK, PageNumbers, PAGE_LIBRARY, PAGE_SYSTEM_SETTINGS
  <2> DEFINE to == s.page + increment
  <2>2. PICK other \in PageNumbers :
            other = IF to < 0 THEN PAGE_MULTI_CLOCK ELSE IF to > PAGE_MULTI_CLOCK THEN 0 ELSE to
    BY <2>1 DEF PageNumbers, PAGE_MULTI_CLOCK
  <2>3. PICK then : then = [do |-> IF increment >= 0 THEN "first" ELSE "last"]
    OBVIOUS
  <2>4. ShowPageRelative(s, increment) = Goto(s, other, TRUE, then)
    BY <1>2, <2>2, <2>3 DEF ShowPageRelative
  <2> QED BY <2>1, <2>4, GoesTo
<1> QED BY <1>1, <1>2

\* The pages where the encoder moves between the controls.
LEMMA PageEdits ==
    ASSUME NEW s, BaseOK(s), Shown(s).handlers \in {"parameters", "performance", "voices"}
    PROVE  EditsParameters(s.page, Shown(s).data)
  BY PagesOK DEF Shown, BaseOK, WhereOK, PageOK

\* The encoder in a page of parameters: a value, a control or the page.
LEMMA EditorIncrementFollows ==
    ASSUME NEW s, UiOK(s), s.opening = NoPage, NEW increment \in Int,
           \/ Shown(s).handlers \in {"parameters", "performance"}
           \/ Shown(s).handlers = "voices" /\ s.edit # "idle"
    PROVE  Follows(s, EditorOnIncrement(s, increment))
<1>0. PICK from : from = s.control
  OBVIOUS
<1> DEFINE to == NextControl(s, from, increment)
<1>1. from \in 0..7 /\ Shown(s).data[from + 1] # 255
  <2>1. s.page \in PageNumbers /\ PageOK(s.page, Shown(s))
    BY PagesOK DEF Shown, UiOK, BaseOK, WhereOK
  <2> QED BY <1>0, <2>1 DEF UiOK, ControlOK, PageOK
<1>2. BaseOK(s) /\ EditsParameters(s.page, Shown(s).data)
  BY PageEdits DEF UiOK
<1>3. CASE s.edit # "idle"
  <2>1. PICK p : p = parameter(parameter_index(s, s.control))
    OBVIOUS
  <2>2. WellIndexed(p) /\ (p.level = "system" => s.page = PAGE_SYSTEM_SETTINGS)
    BY <1>0, <1>1, <1>2, <2>1, ControlIndex, ControlEdits
  <2>3. PICK t : t = IncrementValue(s, p, increment)
    OBVIOUS
  <2>4. Stays(s, t) /\ t.page = s.page /\ t.control = s.control
    BY <2>2, <2>3, IncrementValueStays
  <2>5. Stays(t, [t EXCEPT !.edit = "by_encoder"])
    <3>1. UiOK(t) /\ Shown(t) = Shown(s)
      BY <2>4 DEF Stays, Shown
    <3>2. Shown(s).handlers = "voices" => s.control \in 0..3
      BY <1>3 DEF UiOK, ControlOK
    <3> QED BY <1>0, <1>1, <2>4, <3>1, <3>2, EditChanges
  <2>6. Follows(s, [t EXCEPT !.edit = "by_encoder"])
    BY <2>4, <2>5, StaysTwice, StaysFollows
  <2>7. EditorOnIncrement(s, increment) = [t EXCEPT !.edit = "by_encoder"]
    BY <1>3, <2>1, <2>3 DEF EditorOnIncrement
  <2> QED BY <2>6, <2>7
<1>4. CASE s.edit = "idle"
  <2>1. from \in -1..8
    BY <1>1
  <2>2. to \in Int /\ (to \in 0..7 => Shown(s).data[to + 1] # 255)
    <3> HIDE DEF to
    <3>1. \/ increment # 0
          \/ from \in 0..7 /\ Shown(s).data[from + 1] # 255
      BY <1>1
    <3>2. /\ NextControl(s, from, increment) \in Int
          /\ NextControl(s, from, increment) \in 0..7 =>
               Shown(s).data[NextControl(s, from, increment) + 1] # 255
      BY <1>2, <2>1, <3>1, NextControlFits
    <3> QED BY <3>2 DEF to
  <2> HIDE DEF to
  <2>3. CASE to < 0
    <3>1. EditorOnIncrement(s, increment) = ShowPageRelative(s, -1)
      BY <1>0, <1>4, <2>2, <2>3 DEF EditorOnIncrement, to
    <3> QED BY <3>1, RelativeFollows
  <2>4. CASE to > 7
    <3>1. EditorOnIncrement(s, increment) = ShowPageRelative(s, 1)
      BY <1>0, <1>4, <2>2, <2>4 DEF EditorOnIncrement, to
    <3> QED BY <3>1, RelativeFollows
  <2>5. CASE to \in 0..7
    <3>1. EditorOnIncrement(s, increment) = [s EXCEPT !.control = to]
      BY <1>0, <1>4, <2>5 DEF EditorOnIncrement, to
    <3>2. Follows(s, [s EXCEPT !.control = to])
      BY <1>4, <2>2, <2>5, ControlMoves, StaysFollows
    <3> QED BY <3>1, <3>2
  <2> QED BY <2>2, <2>3, <2>4, <2>5
<1> QED BY <1>3, <1>4

\* Whatever the control was, the first or the last of the page is chosen.
LEMMA EditorActivates ==
    ASSUME NEW s, BaseOK(s), Shown(s).handlers \in {"parameters", "performance", "voices"},
           s.edit = "idle", NEW which
    PROVE  \E c \in 0..7 : /\ Shown(s).data[c + 1] # 255
                           /\ EditorSetActiveControl(s, which) = [s EXCEPT !.control = c]
<1>1. EditsParameters(s.page, Shown(s).data) /\ DOMAIN s = UiFields
  BY PageEdits DEF BaseOK
<1>2. ASSUME NEW from \in {-1, 8}, NEW increment \in {-1, 1}, from = -1 <=> increment = 1
      PROVE  \E c \in 0..7 : /\ Shown(s).data[c + 1] # 255
                             /\ EditorOnIncrement([s EXCEPT !.control = from], increment)
                                  = [s EXCEPT !.control = c]
  <2>1. PICK t : t = [s EXCEPT !.control = from]
    OBVIOUS
  <2>2. t.control = from /\ t.edit = "idle" /\ t.page = s.page
    BY <1>1, <2>1 DEF UiFields
  <2>3. Shown(t) = Shown(s) /\ from \in -1..8 /\ increment \in Int /\ increment # 0
    BY <2>2 DEF Shown
  <2>4. PICK c : c = NextControl(t, from, increment)
    OBVIOUS
  <2>5. EditsParameters(t.page, Shown(t).data)
    BY <1>1, <2>2, <2>3
  <2>6. c \in 0..7 /\ Shown(t).data[c + 1] # 255
    <3>1. (from = -1 /\ increment = 1) \/ (from = 8 /\ increment = -1)
      BY <1>2
    <3>2. /\ NextControl(t, from, increment) \in 0..7
          /\ NextControl(t, from, increment) \in 0..7 =>
               Shown(t).data[NextControl(t, from, increment) + 1] # 255
      BY <2>3, <2>5, <3>1, NextControlFits
    <3> QED BY <2>4, <3>2
  <2>7. EditorOnIncrement(t, increment) = [t EXCEPT !.control = c]
    BY <2>2, <2>4, <2>6 DEF EditorOnIncrement
  <2>8. [t EXCEPT !.control = c] = [s EXCEPT !.control = c]
    BY <1>1, <2>1 DEF UiFields
  <2> QED BY <2>1, <2>3, <2>6, <2>7, <2>8
<1> QED BY <1>2 DEF EditorSetActiveControl

\* A page that is just opened: its controls are where the page before left them.
LEMMA EditorInitFollows ==
    ASSUME NEW s, BaseOK(s), Shown(s).handlers \in {"parameters", "performance", "voices"}
    PROVE  Stays(s, EditorOnInit(s)) /\ EditorOnInit(s).edit = "idle"
<1>1. PICK p : p = PageOnInit(s)
  OBVIOUS
<1>2. DOMAIN s = UiFields /\ p = [s EXCEPT !.edit = "idle", !.control = 0]
  BY <1>1 DEF PageOnInit, BaseOK
<1>3. /\ DOMAIN p = UiFields /\ p.opening = s.opening /\ p.flush = s.flush
      /\ p.page = s.page /\ p.home = s.home /\ p.recent = s.recent /\ p.dialog = s.dialog
      /\ p.unsaved = s.unsaved /\ p.state = s.state /\ p.knob = s.knob /\ p.knobs = s.knobs
      /\ p.lib = s.lib /\ p.edit = "idle"
  BY <1>2 DEF UiFields
<1>4. BaseOK(p) /\ Shown(p) = Shown(s)
  BY <1>3 DEF BaseOK, WhereOK, ChoicesOK, KnobsOK, Shown
<1>5. PICK c \in 0..7 : /\ Shown(p).data[c + 1] # 255
                        /\ EditorSetActiveControl(p, "first") = [p EXCEPT !.control = c]
  BY <1>3, <1>4, EditorActivates
<1>6. PICK t : t = [[p EXCEPT !.control = c] EXCEPT !.snapped = {}]
  OBVIOUS
<1>7. /\ DOMAIN t = UiFields /\ t.opening = s.opening /\ t.flush = s.flush
      /\ t.page = s.page /\ t.home = s.home /\ t.recent = s.recent /\ t.dialog = s.dialog
      /\ t.unsaved = s.unsaved /\ t.state = s.state /\ t.knob = s.knob /\ t.knobs = s.knobs
      /\ t.lib = s.lib /\ t.control = c /\ t.edit = "idle"
  BY <1>3, <1>6 DEF UiFields
<1>8. ControlOK(t)
  BY <1>4, <1>5, <1>7 DEF ControlOK, Shown
<1>9. EditorOnInit(s) = t
  BY <1>1, <1>5, <1>6 DEF EditorOnInit
<1> QED BY <1>7, <1>8, <1>9, Frame

\* A pot edits the control it is under.
LEMMA EditorPotStays ==
    ASSUME NEW s, UiOK(s), s.opening = NoPage, NEW index \in 0..7, NEW value \in 0..127,
           Shown(s).handlers \in {"parameters", "performance", "voices"},
           Shown(s).handlers = "voices" => index \in 0..3,
           NEW t \in EditorOnPot(s, index, value)
    PROVE  Stays(s, t)
<1>1. CASE parameter_index(s, index) = kNoParameter
  BY <1>1, StaysItself DEF EditorOnPot
<1>2. CASE parameter_index(s, index) # kNoParameter
  <2>0. BaseOK(s)
    BY DEF UiOK
  <2>1. PICK p : p = parameter(parameter_index(s, index))
    OBVIOUS
  <2>2. t \in PotEdits(s, index, p, value)
    BY <1>2, <2>1 DEF EditorOnPot
  <2>3. /\ WellIndexed(p) /\ (p.level = "system" => s.page = PAGE_SYSTEM_SETTINGS)
        /\ Shown(s).data[index + 1] # 255
    BY <1>2, <2>0, <2>1, ControlIndex, ControlEdits
  <2>4. PICK v : v = Scale(p, value)
    OBVIOUS
  <2>5. p.level = "ui" => p.name \in Choosers /\ v \in Nat /\ v < Numbers[p.name]
    BY <2>3, <2>4, ScaleFits DEF WellIndexed
  <2>6. PICK u : u = SetValue(s, p, v)
    OBVIOUS
  <2>7. Stays(s, u) /\ u.page = s.page
    BY <2>3, <2>5, <2>6, SetValueStays
  <2>8. PICK taken : taken = [u EXCEPT !.edit = "by_pot", !.control = index]
    OBVIOUS
  <2>9. Stays(u, taken)
    <3>1. UiOK(u) /\ Shown(u) = Shown(s)
      BY <2>7 DEF Stays, Shown
    <3>2. /\ Shown(u).handlers \in {"parameters", "performance"} =>
                 index \in 0..7 /\ Shown(u).data[index + 1] # 255
          /\ Shown(u).handlers = "voices" => index \in Nat /\ index \in 0..3
      BY <2>3, <3>1
    <3> QED BY <2>8, <3>1, <3>2, ActiveControl
  <2>10. Stays(s, taken)
    BY <2>7, <2>9, StaysTwice
  <2>11. [u EXCEPT !.control = index, !.edit = "by_pot"] = taken
    BY <2>7, <2>8 DEF Stays, UiOK, BaseOK, UiFields
  <2>12. \/ t = taken
         \/ t = s
         \/ \E w : t = [taken EXCEPT !.snapped = w]
    BY <2>2, <2>4, <2>6, <2>11 DEF PotEdits
  <2>13. ASSUME NEW w, t = [taken EXCEPT !.snapped = w]
         PROVE  Stays(s, t)
    <3>1. t = [taken EXCEPT !["snapped"] = w] /\ UiOK(taken)
      BY <2>10, <2>13 DEF Stays
    <3> QED BY <2>10, <3>1, OtherChanges, StaysTwice
  <2> QED BY <2>10, <2>12, <2>13, StaysItself
<1> QED BY <1>1, <1>2

-----------------------------------------------------------------------------
(* The page of the multi.                                                  *)

\* The page of the multi has four parameters, none of the settings.
LEMMA VoicesPage ==
    ASSUME NEW s, BaseOK(s), Shown(s).handlers = "voices"
    PROVE  /\ s.page # PAGE_SYSTEM_SETTINGS /\ s.page # PAGE_LIBRARY
           /\ Shown(s).data[5] = 255 /\ \A c \in 1..4 : Shown(s).data[c] # 255
  BY PagesOK DEF Shown, BaseOK, WhereOK, PageOK

\* The encoder in the page of the multi.
LEMMA VoicesIncrementFollows ==
    ASSUME NEW s, UiOK(s), s.opening = NoPage, NEW increment \in Int, Shown(s).handlers = "voices"
    PROVE  Follows(s, VoicesOnIncrement(s, increment))
<1> DEFINE to == s.control + increment
<1>1. s.control \in Nat /\ (s.edit # "idle" => s.control \in 0..3)
  BY DEF UiOK, ControlOK
<1>2. CASE s.edit # "idle"
  <2>1. VoicesOnIncrement(s, increment) = EditorOnIncrement(s, increment)
    BY <1>1, <1>2 DEF VoicesOnIncrement
  <2> QED BY <1>2, <2>1, EditorIncrementFollows
<1>3. CASE s.edit = "idle"
  <2>1. CASE to < 0
    <3>1. VoicesOnIncrement(s, increment) = ShowPageRelative(s, -1)
      BY <1>1, <1>3, <2>1 DEF VoicesOnIncrement, kNumVoices
    <3> QED BY <3>1, RelativeFollows
  <2>2. CASE to > 9
    <3>1. VoicesOnIncrement(s, increment) = ShowPageRelative(s, 1)
      BY <1>1, <1>3, <2>2 DEF VoicesOnIncrement, kNumVoices
    <3> QED BY <3>1, RelativeFollows
  <2>3. CASE to \in 0..9
    <3>1. VoicesOnIncrement(s, increment) = [s EXCEPT !.control = to]
      BY <1>1, <1>3, <2>3 DEF VoicesOnIncrement, kNumVoices
    <3>2. Follows(s, [s EXCEPT !.control = to])
      BY <1>3, <2>3, ControlMoves, StaysFollows
    <3> QED BY <3>1, <3>2
  <2> QED BY <1>1, <2>1, <2>2, <2>3
<1> QED BY <1>2, <1>3

\* The page of the multi is reached from another by the encoder.
LEMMA VoicesActivates ==
    ASSUME NEW s, UiOK(s), Shown(s).handlers = "voices", s.edit = "idle", NEW which
    PROVE  Stays(s, VoicesSetActiveControl(s, which))
           /\ VoicesSetActiveControl(s, which).edit = "idle"
<1>0. DOMAIN s = UiFields
  BY DEF UiOK, BaseOK
<1>1. CASE which = "first"
  <2>1. PICK t : t = [s EXCEPT !.control = -1]
    OBVIOUS
  <2>2. DOMAIN s = UiFields
    BY DEF UiOK, BaseOK
  <2>3. t.control = -1 /\ t.edit = "idle"
    BY <2>1, <2>2 DEF UiFields
  <2>4. VoicesOnIncrement(t, 1) = [t EXCEPT !.control = 0]
    BY <2>3 DEF VoicesOnIncrement, kNumVoices
  <2>5. [t EXCEPT !.control = 0] = [s EXCEPT !.control = 0]
    BY <2>1, <2>2 DEF UiFields
  <2>6. Stays(s, [s EXCEPT !.control = 0])
    BY ControlMoves
  <2>7. [s EXCEPT !.control = 0].edit = "idle"
    BY <1>0 DEF UiFields
  <2> QED BY <1>1, <2>1, <2>4, <2>5, <2>6, <2>7 DEF VoicesSetActiveControl
<1>2. CASE which # "first"
  <2>1. Stays(s, [s EXCEPT !.control = 9])
    BY ControlMoves
  <2>2. [s EXCEPT !.control = 9].edit = "idle"
    BY <1>0 DEF UiFields
  <2> QED BY <1>2, <2>1, <2>2 DEF VoicesSetActiveControl, kNumVoices
<1> QED BY <1>1, <1>2

\* The page of the multi is opened.
LEMMA VoicesInitStays ==
    ASSUME NEW s, BaseOK(s), Shown(s).handlers = "voices"
    PROVE  Stays(s, VoicesOnInit(s)) /\ VoicesOnInit(s).edit = "idle"
<1>1. PICK t : t = EditorOnInit(s)
  OBVIOUS
<1>2. Stays(s, t) /\ t.edit = "idle"
  BY <1>1, EditorInitFollows
<1>3. UiOK(t) /\ Shown(t).handlers = "voices"
  BY <1>2 DEF Stays, Shown
<1>4. Stays(t, VoicesSetActiveControl(t, "first"))
            /\ VoicesSetActiveControl(t, "first").edit = "idle"
  BY <1>2, <1>3, VoicesActivates
<1> QED BY <1>1, <1>2, <1>4, StaysTwice DEF VoicesOnInit

\* A click is for the page, but on the voicecards.
LEMMA ClickStays ==
    ASSUME NEW s, UiOK(s), s.opening = NoPage, Shown(s).handlers = "voices" => s.control < 4
    PROVE  Stays(s, PageOnClick(s))
<1>1. PICK edit : edit = IF s.edit = "idle" THEN "by_encoder" ELSE "idle"
  OBVIOUS
<1>2. PageOnClick(s) = [s EXCEPT !.edit = edit]
  BY <1>1 DEF PageOnClick
<1>3. /\ Shown(s).handlers \in {"parameters", "performance"} =>
             s.control \in 0..7 /\ Shown(s).data[s.control + 1] # 255
      /\ Shown(s).handlers = "voices" => s.control \in 0..3
  BY DEF UiOK, ControlOK
<1> QED BY <1>2, <1>3, EditChanges

\* A click in the page of the multi.
LEMMA VoicesClickStays ==
    ASSUME NEW s, UiOK(s), s.opening = NoPage
    PROVE  Stays(s, VoicesOnClick(s))
  BY ClickStays, StaysItself DEF VoicesOnClick

\* A pot in the page of the multi.
LEMMA VoicesPotStays ==
    ASSUME NEW s, UiOK(s), s.opening = NoPage, NEW index \in 0..7, NEW value \in 0..127,
           Shown(s).handlers = "voices", NEW t \in VoicesOnPot(s, index, value)
    PROVE  Stays(s, t)
<1>0. BaseOK(s) /\ Shown(s).data[5] = 255 /\ s.control \in Nat
  BY VoicesPage DEF UiOK, ControlOK
<1>1. CASE index = 0
  <2>1. VoicesOnPot(s, index, value) = Released(s, EditorOnPot(s, 0, value))
    BY <1>1 DEF VoicesOnPot
  <2>a. PICK u \in EditorOnPot(s, 0, value) : t = [u EXCEPT !.control = s.control, !.edit = "idle"]
    BY <2>1 DEF Released
  <2>2. Stays(s, u)
    <3>1. 0 \in 0..7 /\ 0 \in 0..3 /\ BaseOK(s)
      BY DEF UiOK
    <3> QED BY <2>a, <3>1, EditorPotStays
  <2>3. UiOK(u) /\ DOMAIN u = UiFields /\ Shown(u) = Shown(s)
    BY <2>2 DEF Stays, Shown, UiOK, BaseOK
  <2>4. t = [u EXCEPT !.edit = "idle", !.control = s.control]
    <3>1. [u EXCEPT !.control = s.control, !.edit = "idle"]
            = [u EXCEPT !.edit = "idle", !.control = s.control]
      BY <2>3 DEF UiFields
    <3> QED BY <2>a, <3>1
  <2>5. Stays(u, t)
    <3>1. PICK c \in Nat : c = s.control
      BY <1>0
    <3>2. Stays(u, [u EXCEPT !.edit = "idle", !.control = c])
      BY <2>3, ActiveControl
    <3> QED BY <2>4, <3>1, <3>2
  <2> QED BY <2>2, <2>5, StaysTwice
<1>2. CASE index \in 1..3
  <2>1. t \in EditorOnPot(s, index, value)
    BY <1>2 DEF VoicesOnPot
  <2>2. index \in 0..3 /\ Shown(s).handlers \in {"parameters", "performance", "voices"}
    BY <1>2
  <2> QED BY <2>1, <2>2, EditorPotStays, Zenon
<1>3. CASE index = 4
  <2>1. t \in EditorOnPot(s, index, value)
    BY <1>3 DEF VoicesOnPot
  <2>2. parameter_index(s, index) = kNoParameter
    BY <1>0, <1>3, ControlIndex
  <2> QED BY <2>1, <2>2, StaysItself DEF EditorOnPot
<1>4. CASE index \in 5..7
  BY <1>4, StaysItself DEF VoicesOnPot
<1> QED BY <1>1, <1>2, <1>3, <1>4

\* A note in the page of the multi.
LEMMA VoicesNoteStays ==
    ASSUME NEW s, UiOK(s), s.opening = NoPage, NEW note \in 0..127, s.control \in {2, 3},
           Shown(s).handlers = "voices", NEW t \in VoicesOnNote(s, note)
    PROVE  Stays(s, t)
<1>1. PICK u \in EditorOnPot(s, s.control, note) : t = [u EXCEPT !.edit = "idle"]
  BY DEF VoicesOnNote
<1>2. Stays(s, u)
  <2>1. /\ s.control \in 0..7 /\ s.control \in 0..3
        /\ Shown(s).handlers \in {"parameters", "performance", "voices"}
    OBVIOUS
  <2> QED BY <1>1, <2>1, EditorPotStays, Zenon
<1>3. Stays(u, t)
  BY <1>1, <1>2, EditChanges DEF Stays
<1> QED BY <1>2, <1>3, StaysTwice

-----------------------------------------------------------------------------
(* The performance page.                                                   *)

\* The note of the performance page.
LEMMA NotesStay ==
    ASSUME NEW s, UiOK(s), NEW note
    PROVE  Stays(s, StartNote(s, note)) /\ Stays(s, StopNote(s, note))
<1>1. \A v : Stays(s, [s EXCEPT !["playing"] = v])
  BY OtherChanges
<1>2. /\ StartNote(s, note) = [s EXCEPT !["playing"] = s.playing \cup {note}]
      /\ StopNote(s, note) = [s EXCEPT !["playing"] = s.playing \ {note}]
  BY DEF StartNote, StopNote
<1> QED BY <1>1, <1>2

\* The encoder in the performance page.
LEMMA PerformanceIncrementStays ==
    ASSUME NEW s, UiOK(s), NEW increment
    PROVE  Stays(s, PerformanceOnIncrement(s, increment))
<1>1. PICK to : to = (s.note + increment) % 256
  OBVIOUS
<1>2. PICK t : t = StartNote(s, to)
  OBVIOUS
<1>3. PICK u : u = StopNote(t, s.note)
  OBVIOUS
<1>4. Stays(s, u)
  BY <1>2, <1>3, NotesStay, StaysTwice DEF Stays
<1>5. Stays(s, [u EXCEPT !["note"] = to])
  BY <1>4, OtherChanges, StaysTwice DEF Stays
<1>6. \/ PerformanceOnIncrement(s, increment) = [u EXCEPT !["note"] = to]
      \/ PerformanceOnIncrement(s, increment) = s
  BY <1>1, <1>2, <1>3 DEF PerformanceOnIncrement
<1> QED BY <1>5, <1>6, StaysItself

\* A click in the performance page.
LEMMA PerformanceClickStays ==
    ASSUME NEW s, UiOK(s)
    PROVE  Stays(s, PerformanceOnClick(s))
<1>1. PICK t : t = StopNote(s, s.note)
  OBVIOUS
<1>2. PICK u : u = StartNote(s, s.note)
  OBVIOUS
<1>3. Stays(s, t) /\ Stays(s, u)
  BY <1>1, <1>2, NotesStay
<1>4. Stays(s, [t EXCEPT !["sounds"] = FALSE]) /\ Stays(s, [u EXCEPT !["sounds"] = TRUE])
  BY <1>3, OtherChanges, StaysTwice DEF Stays
<1>5. \/ PerformanceOnClick(s) = [t EXCEPT !["sounds"] = FALSE]
      \/ PerformanceOnClick(s) = [u EXCEPT !["sounds"] = TRUE]
  BY <1>1, <1>2 DEF PerformanceOnClick
<1> QED BY <1>4, <1>5

-----------------------------------------------------------------------------
(* The knobs.                                                              *)

\* A knob gets an instance that exists.
LEMMA AssignStays ==
    ASSUME NEW s, UiOK(s), NEW i \in Assignable, NEW instance \in Nat, instance < NumInstances[i]
    PROVE  Stays(s, AssignKnob(s, i, instance))
<1>1. PICK t : t = AssignKnob(s, i, instance)
  OBVIOUS
<1>2. DOMAIN s = UiFields /\ s.knob \in 0..7 /\ s.knobs \in [0..7 -> KnobSettings]
  BY DEF UiOK, BaseOK, KnobsOK
<1>3. PICK knobs : knobs = [s.knobs EXCEPT ![s.knob].parameter = i, ![s.knob].instance = instance]
  OBVIOUS
<1>4. t = [s EXCEPT !.knobs = knobs]
  BY <1>1, <1>2, <1>3 DEF AssignKnob, UiFields
<1>5. /\ DOMAIN t = UiFields /\ t.opening = s.opening /\ t.flush = s.flush
      /\ t.page = s.page /\ t.home = s.home /\ t.recent = s.recent /\ t.dialog = s.dialog
      /\ t.unsaved = s.unsaved /\ t.state = s.state /\ t.knob = s.knob /\ t.knobs = knobs
      /\ t.lib = s.lib /\ t.control = s.control /\ t.edit = s.edit
  BY <1>2, <1>4 DEF UiFields
<1>6. knobs \in [0..7 -> KnobSettings]
  <2>1. PICK k : k = [s.knobs[s.knob] EXCEPT !.parameter = i, !.instance = instance]
    OBVIOUS
  <2>2. s.knobs[s.knob] \in KnobSettings
    BY <1>2
  <2>3. k \in KnobSettings
    BY <2>1, <2>2 DEF KnobSettings
  <2>4. knobs = [s.knobs EXCEPT ![s.knob] = k]
    BY <1>2, <1>3, <2>1
  <2> QED BY <1>2, <2>3, <2>4
<1> QED BY <1>1, <1>5, <1>6 DEF Stays, UiOK, BaseOK, WhereOK, ChoicesOK, KnobsOK, ControlOK, Shown

\* The encoder assigns the neighbour of what the knob is assigned to.
LEMMA KnobsIncrementStays ==
    ASSUME NEW s, UiOK(s), NEW increment \in Int, NEW t \in KnobsOnIncrement(s, increment)
    PROVE  Stays(s, t)
<1>1. PICK one \in {-1, 1} : one = IF increment > 0 THEN 1 ELSE -1
  OBVIOUS
<1>2. PICK a : a = s.knobs[s.knob]
  OBVIOUS
<1>3. a.parameter \in Assignable /\ a.instance \in Nat
  BY <1>2 DEF UiOK, BaseOK, KnobsOK, KnobSettings
<1>4. PICK next : next = NextAssignable(a.parameter, one)
  OBVIOUS
<1>5. next \subseteq Assignable
  BY <1>4 DEF NextAssignable
<1>6. \/ /\ a.instance + one \in 0..(NumInstances[a.parameter] - 1)
         /\ t = AssignKnob(s, a.parameter, a.instance + one)
      \/ t = s
      \/ \E i \in next : t = AssignKnob(s, i, IF one = 1 THEN 0 ELSE NumInstances[i] - 1)
  BY <1>1, <1>2, <1>4 DEF KnobsOnIncrement
<1>7. ASSUME a.instance + one \in 0..(NumInstances[a.parameter] - 1)
      PROVE  Stays(s, AssignKnob(s, a.parameter, a.instance + one))
  <2>1. NumInstances[a.parameter] \in 1..14
    BY <1>3, AssignableFacts
  <2>2. PICK instance \in Nat : instance = a.instance + one /\ instance < NumInstances[a.parameter]
    BY <1>7, <2>1
  <2> QED BY <1>3, <2>2, AssignStays
<1>8. ASSUME NEW i \in next
      PROVE  Stays(s, AssignKnob(s, i, IF one = 1 THEN 0 ELSE NumInstances[i] - 1))
  <2>1. i \in Assignable /\ NumInstances[i] \in 1..14
    BY <1>5, AssignableFacts
  <2>2. PICK instance \in Nat : /\ instance = IF one = 1 THEN 0 ELSE NumInstances[i] - 1
                                /\ instance < NumInstances[i]
    BY <2>1
  <2> QED BY <2>1, <2>2, AssignStays
<1> QED BY <1>6, <1>7, <1>8, StaysItself

\* A recursion over the naturals up to n: the instances before each parameter, and the
\* programs of a program change.
NextOf(loop, x, i) ==
    IF loop = <<>> THEN x + IF i - 1 \in Assignable THEN NumInstances[i - 1] ELSE 0
    ELSE LoadProgram(x, loop[1][i], loop[2], loop[3])
Recursion(f, loop, x, n) == f = [i \in 0..n |-> IF i = 0 THEN x ELSE NextOf(loop, f[i - 1], i)]

\* A recursion over the numbers up to n has a function.
LEMMA RecursionDefined ==
  ASSUME NEW loop, NEW x, NEW n \in Nat
  PROVE  \E f : Recursion(f, loop, x, n)
<1> DEFINE D == {m \in Nat : ~ \E f : Recursion(f, loop, x, m)}
<1>1. ASSUME D # {}
      PROVE  FALSE
  <2>1. PICK m \in D : \A y \in D : m <= y
    <3>1. D \in SUBSET Nat
      OBVIOUS
    <3> HIDE DEF D
    <3> QED BY <1>1, <3>1, MinOfNaturals
  <2>2. CASE m = 0
    <3> DEFINE g == [i \in 0..m |-> x]
    <3>1. g = [i \in 0..m |-> IF i = 0 THEN x ELSE NextOf(loop, g[i - 1], i)]
      BY <2>2
    <3>2. Recursion(g, loop, x, m)
      BY <3>1 DEF Recursion
    <3> QED BY <3>2
  <2>3. CASE m # 0
    <3>1. m - 1 \in Nat /\ m - 1 \notin D /\ m \in Nat
      BY <2>1, <2>3
    <3>2. PICK f : Recursion(f, loop, x, m - 1)
      BY <3>1
    <3> DEFINE g == [i \in 0..m |-> IF i = m THEN NextOf(loop, f[m - 1], m) ELSE f[i]]
               h == [i \in 0..m |-> IF i = 0 THEN x ELSE NextOf(loop, g[i - 1], i)]
    <3>3. \A i \in 0..(m - 1) : f[i] = IF i = 0 THEN x ELSE NextOf(loop, f[i - 1], i)
      BY <3>2 DEF Recursion
    <3>4. ASSUME NEW i \in 0..m
          PROVE  g[i] = IF i = 0 THEN x ELSE NextOf(loop, g[i - 1], i)
      <4>1. i # 0 => i - 1 \in 0..m /\ i - 1 # m /\ g[i - 1] = f[i - 1]
        BY <3>1
      <4>2. CASE i = m
        BY <2>3, <4>1, <4>2
      <4>3. CASE i # m
        <5>1. i \in 0..(m - 1)
          BY <3>1, <4>3
        <5> QED BY <3>3, <4>1, <4>3, <5>1
      <4> QED BY <4>2, <4>3
    <3>5. g = h
      <4> HIDE DEF g
      <4>1. \A i \in 0..m : g[i] = h[i]
        BY <3>4
      <4>2. DOMAIN g = 0..m /\ g = [i \in 0..m |-> g[i]]
        BY DEF g
      <4> QED BY <4>1, <4>2
    <3>6. Recursion(g, loop, x, m)
      BY <3>5 DEF Recursion
    <3> QED BY <3>6
  <2> QED BY <2>2, <2>3
<1> QED BY <1>1

\* The number of instances of the parameters before i.
LEMMA InstancesBeforeFacts ==
    /\ InstancesBefore[0] = 0
    /\ \A i \in 1..75 :
          InstancesBefore[i] = InstancesBefore[i - 1]
                               + IF i - 1 \in Assignable THEN NumInstances[i - 1] ELSE 0
    /\ \A i \in 0..75 : InstancesBefore[i] \in Nat /\ (i # 0 => InstancesBefore[i] >= 1)
<1> DEFINE f == InstancesBefore
<1>1. PICK g : Recursion(g, <<>>, 0, 75)
  BY RecursionDefined
<1>2. f = CHOOSE g1 : g1 = [i \in 0..75 |-> IF i = 0 THEN 0 ELSE g1[i - 1]
                              + IF i - 1 \in Assignable THEN NumInstances[i - 1] ELSE 0]
  BY DEF InstancesBefore, kNumParameters
<1>3. g = [i \in 0..75 |-> IF i = 0 THEN 0 ELSE g[i - 1]
                              + IF i - 1 \in Assignable THEN NumInstances[i - 1] ELSE 0]
  BY <1>1 DEF Recursion, NextOf
<1>4. f = [i \in 0..75 |-> IF i = 0 THEN 0 ELSE f[i - 1]
                              + IF i - 1 \in Assignable THEN NumInstances[i - 1] ELSE 0]
  <2> HIDE DEF f
  <2> QED BY <1>2, <1>3
<1> HIDE DEF f
<1>5. f[0] = 0 /\ \A i \in 1..75 : f[i]
            = f[i - 1] + IF i - 1 \in Assignable THEN NumInstances[i - 1] ELSE 0
  <2>1. f[0] = 0
    BY <1>4
  <2>2. ASSUME NEW i \in 1..75
        PROVE  f[i] = f[i - 1] + IF i - 1 \in Assignable THEN NumInstances[i - 1] ELSE 0
    <3>1. i \in 0..75 /\ i # 0
      OBVIOUS
    <3> QED BY <1>4, <3>1
  <2> QED BY <2>1, <2>2
<1> DEFINE Bad == {i \in 0..75 : ~(f[i] \in Nat /\ (i # 0 => f[i] >= 1))}
<1>6. ASSUME Bad # {}
      PROVE  FALSE
  <2>1. PICK m \in Bad : \A y \in Bad : m <= y
    <3>1. Bad \in SUBSET Nat
      OBVIOUS
    <3> HIDE DEF Bad
    <3> QED BY <1>6, <3>1, MinOfNaturals
  <2>2. m # 0 /\ m \in 1..75
    BY <1>5, <2>1
  <2>3. m - 1 \in 0..75 /\ m - 1 \notin Bad
    BY <2>1, <2>2
  <2>4. f[m - 1] \in Nat /\ (m - 1 # 0 => f[m - 1] >= 1)
    BY <2>3
  <2>5. m - 1 \in Assignable => NumInstances[m - 1] \in 1..14
    BY AssignableFacts
  <2>6. m = 1 => m - 1 \in Assignable
    BY AssignableFacts
  <2>7. f[m] = f[m - 1] + IF m - 1 \in Assignable THEN NumInstances[m - 1] ELSE 0
    BY <1>5, <2>2
  <2>8. f[m] \in Nat /\ f[m] >= 1
    BY <2>2, <2>4, <2>5, <2>6, <2>7
  <2> QED BY <2>1, <2>8
<1> QED BY <1>5, <1>6 DEF f

\* The instance with a number is found.
LEMMA NumberedStays ==
    ASSUME NEW s, UiOK(s), NEW number \in Nat, number < InstancesBefore[75]
    PROVE  Stays(s, KnobNumbered(s, InstancesBefore, number))
<1> DEFINE found == CHOOSE j \in Assignable :
                        InstancesBefore[j] <= number /\ number < InstancesBefore[j + 1]
           Past == {i \in 0..75 : number < InstancesBefore[i]}
<1>1. PICK i \in Past : \A y \in Past : i <= y
  <2>1. Past \in SUBSET Nat /\ 75 \in Past
    OBVIOUS
  <2> HIDE DEF Past
  <2> QED BY <2>1, MinOfNaturals
<1>2. i \in 1..75
  BY <1>1, InstancesBeforeFacts
<1>3. i - 1 \in 0..75 /\ i - 1 \notin Past /\ InstancesBefore[i - 1] \in Nat
  BY <1>1, <1>2, InstancesBeforeFacts
<1>4. InstancesBefore[i - 1] <= number /\ number < InstancesBefore[i]
  BY <1>1, <1>3
<1>5. InstancesBefore[i] = InstancesBefore[i - 1]
                           + IF i - 1 \in Assignable THEN NumInstances[i - 1] ELSE 0
  BY <1>2, InstancesBeforeFacts
<1>6. i - 1 \in Assignable /\ (i - 1) + 1 = i
  BY <1>2, <1>3, <1>4, <1>5
<1>7. found \in Assignable /\ InstancesBefore[found] <= number
            /\ number < InstancesBefore[found + 1]
  BY <1>4, <1>6
<1> HIDE DEF found
<1>8. found \in 0..74 /\ NumInstances[found] \in 1..14
  BY <1>7, AssignableFacts
<1>9. /\ found + 1 \in 1..75 /\ (found + 1) - 1 = found
      /\ InstancesBefore[found] \in Nat
  BY <1>8, InstancesBeforeFacts
<1>10. InstancesBefore[found + 1] = InstancesBefore[found] + NumInstances[found]
  BY <1>7, <1>9, InstancesBeforeFacts
<1>11. PICK instance \in Nat : instance = number - InstancesBefore[found]
             /\ instance < NumInstances[found]
  BY <1>7, <1>8, <1>9, <1>10
<1>12. KnobNumbered(s, InstancesBefore, number) = AssignKnob(s, found, instance)
  BY <1>11 DEF KnobNumbered, found
<1> QED BY <1>7, <1>11, <1>12, AssignStays

\* On a page whose controls are not the active one's, any control will do.
LEMMA AnyControl ==
    ASSUME NEW s, UiOK(s), Shown(s).handlers \notin {"parameters", "performance", "voices"},
           NEW edit, NEW control
    PROVE  /\ Stays(s, [s EXCEPT !.edit = edit, !.control = control])
           /\ Stays(s, [s EXCEPT !.control = control]) /\ Stays(s, [s EXCEPT !.edit = edit])
  BY ActiveControl, ControlMoves, EditChanges

\* A fraction of n.
LEMMA Fraction ==
    ASSUME NEW n \in 1..255, NEW value \in 0..127
    PROVE  (n * U8(2 * value)) \div 256 \in 0..(n - 1)
<1>1. PICK u \in 0..255 : u = U8(2 * value)
  BY DEF U8
<1>2. n * u <= n * 255 /\ 0 <= n * u /\ n * u \in Nat
  BY <1>1
<1>3. (n * u) \div 256 \in 0..(n - 1)
  BY <1>2
<1> QED BY <1>1, <1>3

\* The pots choose the knob, its part, or what it is assigned to.
LEMMA KnobsPotStays ==
    ASSUME NEW s, UiOK(s), Shown(s).handlers = "knobs", NEW index \in 0..7, NEW value \in 0..127
    PROVE  Stays(s, KnobsOnPot(s, index, value))
<1>1. PICK t : t = [s EXCEPT !.edit = "by_pot", !.control = index]
  OBVIOUS
<1>2. Stays(s, t)
  BY <1>1, AnyControl
<1>3. [s EXCEPT !.control = index, !.edit = "by_pot"] = t
  BY <1>1 DEF UiOK, BaseOK, UiFields
<1>4. UiOK(t) /\ DOMAIN t = UiFields /\ t.knob = s.knob /\ s.knob \in 0..7
      /\ t.knobs \in [0..7 -> KnobSettings]
  BY <1>1, <1>2 DEF Stays, UiOK, BaseOK, KnobsOK, UiFields
<1>5. CASE index \in {0, 4}
  <2>1. PICK knob \in 0..7 : knob = value \div 16
    OBVIOUS
  <2>2. PICK u : u = [t EXCEPT !.knob = knob]
    OBVIOUS
  <2>3. /\ DOMAIN u = UiFields /\ u.opening = t.opening /\ u.flush = t.flush
        /\ u.page = t.page /\ u.home = t.home /\ u.recent = t.recent /\ u.dialog = t.dialog
        /\ u.unsaved = t.unsaved /\ u.state = t.state /\ u.knob = knob /\ u.knobs = t.knobs
        /\ u.lib = t.lib /\ u.control = t.control /\ u.edit = t.edit
    BY <1>4, <2>2 DEF UiFields
  <2>4. Stays(t, u)
    BY <1>4, <2>3 DEF Stays, UiOK, BaseOK, WhereOK, ChoicesOK, KnobsOK, ControlOK, Shown
  <2>5. KnobsOnPot(s, index, value) = u
    BY <1>3, <1>5, <2>1, <2>2 DEF KnobsOnPot
  <2> QED BY <1>2, <2>4, <2>5, StaysTwice
<1>6. CASE index \in {1, 5}
  <2>1. PICK part \in PartNumbers : part = (kNumParts * U8(2 * value)) \div 256
    <3>1. 6 \in 1..255
      OBVIOUS
    <3>2. (6 * U8(2 * value)) \div 256 \in 0..(6 - 1)
      BY <3>1, Fraction
    <3> QED BY <3>2 DEF PartNumbers, kNumParts
  <2>2. PICK knobs : knobs = [t.knobs EXCEPT ![s.knob].part = part]
    OBVIOUS
  <2>3. PICK u : u = [t EXCEPT !.knobs = knobs]
    OBVIOUS
  <2>4. /\ DOMAIN u = UiFields /\ u.opening = t.opening /\ u.flush = t.flush
        /\ u.page = t.page /\ u.home = t.home /\ u.recent = t.recent /\ u.dialog = t.dialog
        /\ u.unsaved = t.unsaved /\ u.state = t.state /\ u.knob = t.knob /\ u.knobs = knobs
        /\ u.lib = t.lib /\ u.control = t.control /\ u.edit = t.edit
    BY <1>4, <2>3 DEF UiFields
  <2>5. knobs \in [0..7 -> KnobSettings]
    <3>1. PICK k : k = [t.knobs[s.knob] EXCEPT !.part = part]
      OBVIOUS
    <3>2. t.knobs[s.knob] \in KnobSettings
      BY <1>4
    <3>3. k \in KnobSettings
      BY <3>1, <3>2 DEF KnobSettings
    <3>4. knobs = [t.knobs EXCEPT ![s.knob] = k]
      BY <1>4, <2>2, <3>1
    <3> QED BY <1>4, <3>3, <3>4
  <2>6. Stays(t, u)
    BY <1>4, <2>4, <2>5 DEF Stays, UiOK, BaseOK, WhereOK, ChoicesOK, KnobsOK, ControlOK, Shown
  <2>7. AssignPart(t, part) = u
    BY <1>4, <2>2, <2>3 DEF UiFields, AssignPart
  <2>8. KnobsOnPot(s, index, value) = AssignPart(t, part)
    BY <1>3, <1>6, <2>1 DEF KnobsOnPot
  <2> QED BY <1>2, <2>6, <2>7, <2>8, StaysTwice
<1>7. CASE index \notin {0, 1, 4, 5}
  <2>1. PICK n \in Nat : n = InstancesBefore[75] /\ n >= 1
    BY InstancesBeforeFacts
  <2>2. PICK m \in 0..255 : m = num_parameters /\ m <= n
    BY <2>1 DEF num_parameters, kNumParameters, U8
  <2>3. PICK number \in Nat : number = (num_parameters * U8(2 * value)) \div 256 /\ number < n
    <3>1. CASE m = 0
      <4>1. (m * U8(2 * value)) \div 256 = 0
        BY <3>1 DEF U8
      <4> QED BY <2>1, <2>2, <4>1
    <3>2. CASE m # 0
      <4>1. (m * U8(2 * value)) \div 256 \in 0..(m - 1)
        <5>1. m \in 1..255
          BY <2>2, <3>2
        <5> QED BY <5>1, Fraction
      <4> QED BY <2>1, <2>2, <4>1
    <3> QED BY <3>1, <3>2
  <2>4. KnobsOnPot(s, index, value) = KnobNumbered(t, InstancesBefore, number)
    BY <1>3, <1>7, <2>3 DEF KnobsOnPot
  <2> QED BY <1>2, <1>4, <2>1, <2>3, <2>4, NumberedStays, StaysTwice
<1> QED BY <1>5, <1>6, <1>7

-----------------------------------------------------------------------------
(* The sequence editor.                                                    *)

\* A step of a sequence is written.
LEMMA WriteStays ==
    ASSUME NEW s, UiOK(s), NEW control
    PROVE  Stays(s, WriteStep(s, control))
<1>1. \A v : Stays(s, [s EXCEPT !["did"] = v])
  BY OtherChanges
<1>2. PICK w : w = [op |-> "write", sequence |-> SequenceOf(control),
                    step |-> ActualStep(s, StepOf(s, control), SequenceOf(control))]
  OBVIOUS
<1>3. WriteStep(s, control) = s \/ WriteStep(s, control) = [s EXCEPT !["did"] = w]
  BY <1>2 DEF WriteStep
<1> QED BY <1>1, <1>3, StaysItself

\* The encoder in the sequence editor.
LEMMA SequenceIncrementFollows ==
    ASSUME NEW s, UiOK(s), NEW increment, Shown(s).handlers = "sequence"
    PROVE  Follows(s, SequenceOnIncrement(s, increment))
<1>1. CASE s.edit # "idle"
  <2>1. PICK t : t = [s EXCEPT !.edit = "by_encoder"]
    OBVIOUS
  <2>2. Stays(s, t)
    BY <2>1, AnyControl
  <2>3. Stays(t, WriteStep(t, s.control))
    BY <2>2, WriteStays DEF Stays
  <2>4. SequenceOnIncrement(s, increment) = WriteStep(t, s.control)
    BY <1>1, <2>1 DEF SequenceOnIncrement
  <2> QED BY <2>2, <2>3, <2>4, StaysTwice, StaysFollows
<1>2. CASE s.edit = "idle"
  <2> DEFINE to == s.step + increment
  <2>0. PICK v : v = IF to >= LongestHere(s) THEN LongestHere(s) - 1 ELSE to
    OBVIOUS
  <2>1. \/ SequenceOnIncrement(s, increment) = ShowPageRelative(s, -1)
        \/ SequenceOnIncrement(s, increment) = ShowPageRelative(s, 1)
        \/ SequenceOnIncrement(s, increment) = [s EXCEPT !["step"] = v]
    BY <1>2, <2>0 DEF SequenceOnIncrement
  <2>2. Follows(s, ShowPageRelative(s, -1)) /\ Follows(s, ShowPageRelative(s, 1))
    BY RelativeFollows
  <2>3. Stays(s, [s EXCEPT !["step"] = v])
    BY OtherChanges
  <2> QED BY <2>1, <2>2, <2>3, StaysFollows
<1> QED BY <1>1, <1>2

\* A page with no parameters is opened.
LEMMA OpenedIsIdle ==
    ASSUME NEW s, BaseOK(s), Shown(s).handlers \notin {"parameters", "performance", "voices"},
           NEW control
    PROVE  /\ UiOK(s)
           /\ Stays(s, [PageOnInit(s) EXCEPT !.control = control]) /\ Stays(s, PageOnInit(s))
<1>1. UiOK(s) /\ DOMAIN s = UiFields
  BY DEF UiOK, BaseOK, ControlOK
<1>2. /\ PageOnInit(s) = [s EXCEPT !.edit = "idle", !.control = 0]
      /\ [PageOnInit(s) EXCEPT !.control = control] = [s EXCEPT !.edit = "idle", !.control
               = control]
  BY <1>1 DEF PageOnInit, UiFields
<1>3. /\ Stays(s, [s EXCEPT !.edit = "idle", !.control = 0])
      /\ Stays(s, [s EXCEPT !.edit = "idle", !.control = control])
  <2>1. ASSUME NEW c
        PROVE  Stays(s, [s EXCEPT !.edit = "idle", !.control = c])
    BY <1>1, AnyControl
  <2> QED BY <2>1
<1> QED BY <1>1, <1>2, <1>3

\* The sequence editor is opened.
LEMMA SequenceInitFollows ==
    ASSUME NEW s, BaseOK(s), Shown(s).handlers = "sequence"
    PROVE  Follows(s, SequenceOnInit(s))
<1>1. PICK t : t = [PageOnInit(s) EXCEPT !.control = 4]
  OBVIOUS
<1>2. Stays(s, t)
  BY <1>1, OpenedIsIdle
<1>3. Follows(t, SequenceOnIncrement(t, 0))
  BY <1>2, SequenceIncrementFollows DEF Stays, Shown
<1> QED BY <1>1, <1>2, <1>3, StaysFollows, FollowsTwice DEF SequenceOnInit

\* The sequence editor is reached from another page by the encoder.
LEMMA SequenceActivates ==
    ASSUME NEW s, UiOK(s), Shown(s).handlers = "sequence", NEW which
    PROVE  Follows(s, SequenceSetActiveControl(s, which))
<1>1. \A v : Stays(s, [s EXCEPT !["step"] = v])
  BY OtherChanges
<1>2. PICK t : t = [s EXCEPT !["step"] = 127]
  OBVIOUS
<1>3. Stays(s, t)
  BY <1>1, <1>2
<1>4. Follows(t, SequenceOnIncrement(t, -1))
  BY <1>3, SequenceIncrementFollows DEF Stays, Shown
<1>5. \/ SequenceSetActiveControl(s, which) = [s EXCEPT !["step"] = 0]
      \/ SequenceSetActiveControl(s, which) = SequenceOnIncrement(t, -1)
  BY <1>2 DEF SequenceSetActiveControl
<1> QED BY <1>1, <1>3, <1>4, <1>5, StaysFollows, FollowsTwice

\* A click in the sequence editor.
LEMMA SequenceClickStays ==
    ASSUME NEW s, UiOK(s), Shown(s).handlers = "sequence"
    PROVE  Stays(s, SequenceOnClick(s))
  BY AnyControl DEF SequenceOnClick

\* A pot in the sequence editor.
LEMMA SequencePotStays ==
    ASSUME NEW s, UiOK(s), Shown(s).handlers = "sequence", NEW index
    PROVE  Stays(s, SequenceOnPot(s, index))
<1>1. PICK t : t = [s EXCEPT !.control = index]
  OBVIOUS
<1>2. Stays(s, t)
  BY <1>1, AnyControl
<1>3. Stays(t, WriteStep(t, index))
  BY <1>2, WriteStays DEF Stays
<1> QED BY <1>1, <1>2, <1>3, StaysTwice DEF SequenceOnPot

\* A note in the sequence editor.
LEMMA SequenceNoteStays ==
    ASSUME NEW s, UiOK(s)
    PROVE  Stays(s, SequenceOnNote(s))
<1>1. PICK t : t = WriteStep(s, 4 * (s.control \div 4))
  OBVIOUS
<1>2. Stays(s, t)
  BY <1>1, WriteStays
<1>3. \A v : Stays(t, [t EXCEPT !["step"] = v])
  BY <1>2, OtherChanges DEF Stays
<1>4. \/ SequenceOnNote(s) = s
      \/ SequenceOnNote(s) = [t EXCEPT !["step"] = ActualStep(s, t.did.step + 1, 2)]
  BY <1>1 DEF SequenceOnNote
<1> QED BY <1>2, <1>3, <1>4, StaysItself, StaysTwice

-----------------------------------------------------------------------------
(* The library.                                                            *)

\* The library changes.
LEMMA LibStays ==
    ASSUME NEW s, UiOK(s), NEW l, LibOK(l)
    PROVE  Stays(s, [s EXCEPT !.lib = l])
<1>1. PICK t : t = [s EXCEPT !.lib = l]
  OBVIOUS
<1>2. DOMAIN s = UiFields
  BY DEF UiOK, BaseOK
<1>3. /\ DOMAIN t = UiFields /\ t.opening = s.opening /\ t.flush = s.flush
      /\ t.page = s.page /\ t.home = s.home /\ t.recent = s.recent /\ t.dialog = s.dialog
      /\ t.unsaved = s.unsaved /\ t.state = s.state /\ t.knob = s.knob /\ t.knobs = s.knobs
      /\ t.lib = l /\ t.control = s.control /\ t.edit = s.edit
  BY <1>1, <1>2 DEF UiFields
<1> QED BY <1>1, <1>3 DEF Stays, UiOK, BaseOK, WhereOK, ChoicesOK, KnobsOK, ControlOK, Shown

\* A location has its place among those that are loaded.
LEMMA IndexFits ==
    ASSUME NEW l, LibTyped(l)
    PROVE  Index(l) \in Places
  BY DEF LibTyped, Index, Places

\* What is saved is what is loaded, and what is browsed is what was loaded.
LEMMA SavedFits ==
    ASSUME NEW l, LibTyped(l)
    PROVE  LibOK([l EXCEPT !.loaded[Index(l)] = l.place])
<1>1. PICK i \in Places : i = Index(l)
  BY IndexFits
<1>2. PICK m : m = [l EXCEPT !.loaded[i] = l.place]
  OBVIOUS
<1>3. /\ DOMAIN m = LibFields /\ m.object = l.object /\ m.part = l.part /\ m.place = l.place
      /\ m.loaded = [l.loaded EXCEPT ![i] = l.place]
  BY <1>2 DEF LibTyped, LibFields
<1>4. Index(m) = i /\ DOMAIN m.loaded = Places /\ m.loaded[i] = l.place
  BY <1>1, <1>3 DEF LibTyped, Index
<1> QED BY <1>1, <1>2, <1>3, <1>4 DEF LibOK, LibTyped

\* The location goes back to the place that is loaded.
LEMMA BrowsedFits ==
    ASSUME NEW l, LibTyped(l)
    PROVE  LibOK([l EXCEPT !.action = "browse", !.place = l.loaded[Index(l)], !.named = TRUE])
<1>1. PICK x : x = l.loaded[Index(l)]
  OBVIOUS
<1>2. PICK m : m = [l EXCEPT !.action = "browse", !.place = x, !.named = TRUE]
  OBVIOUS
<1>3. /\ DOMAIN m = LibFields /\ m.object = l.object /\ m.part = l.part /\ m.place = x
      /\ m.loaded = l.loaded
  BY <1>2 DEF LibTyped, LibFields
<1>4. Index(m) = Index(l)
  BY <1>3 DEF Index
<1> QED BY <1>1, <1>2, <1>3, <1>4 DEF LibOK, LibTyped

\* The place is kept as the one that is loaded.
LEMMA SaveStays ==
    ASSUME NEW s, UiOK(s), NEW l, LibTyped(l)
    PROVE  Stays(s, SaveLocation([s EXCEPT !.lib = l]))
<1>1. PICK m : m = [l EXCEPT !.loaded[Index(l)] = l.place]
  OBVIOUS
<1>2. DOMAIN s = UiFields
  BY DEF UiOK, BaseOK
<1>3. PICK u : u = [s EXCEPT !.lib = l]
  OBVIOUS
<1>4. u.lib = l /\ DOMAIN u = UiFields
  BY <1>2, <1>3 DEF UiFields
<1>5. SaveLocation(u) = [u EXCEPT !.lib = m]
  BY <1>1, <1>4 DEF SaveLocation
<1>6. [u EXCEPT !.lib = m] = [s EXCEPT !.lib = m]
  BY <1>2, <1>3 DEF UiFields
<1>7. Stays(s, [s EXCEPT !.lib = m])
  BY <1>1, SavedFits, LibStays
<1> QED BY <1>3, <1>5, <1>6, <1>7

\* The library browses another object.
LEMMA BrowseStays ==
    ASSUME NEW s, UiOK(s), Shown(s).handlers \notin {"parameters", "performance", "voices"},
           NEW l, LibTyped(l)
    PROVE  Stays(s, Browse([s EXCEPT !.lib = l]))
<1>1. PICK m : m = [l EXCEPT !.action = "browse", !.place = l.loaded[Index(l)], !.named = TRUE]
  OBVIOUS
<1>2. DOMAIN s = UiFields
  BY DEF UiOK, BaseOK
<1>3. PICK u : u = [s EXCEPT !.lib = l]
  OBVIOUS
<1>4. u.lib = l /\ DOMAIN u = UiFields
  BY <1>2, <1>3 DEF UiFields
<1>5. PICK t : t = [s EXCEPT !.lib = m]
  OBVIOUS
<1>6. Browse(u) = [t EXCEPT !.edit = "idle", !.control = 1]
  <2>1. PICK x : x = l.loaded[Index(l)]
    OBVIOUS
  <2>2. Browse(u) = [u EXCEPT !.lib.action = "browse", !.lib.place = x, !.lib.named = TRUE,
                              !.edit = "idle", !.control = 1]
    BY <1>4, <2>1 DEF Browse
  <2>3. m = [l EXCEPT !.action = "browse", !.place = x, !.named = TRUE]
    BY <1>1, <2>1
  <2>4. [u EXCEPT !.lib.action = "browse", !.lib.place = x, !.lib.named = TRUE]
              = [u EXCEPT !.lib = m]
    BY <1>4, <2>3 DEF UiFields
  <2>5. [u EXCEPT !.lib = m] = t
    BY <1>2, <1>3, <1>5 DEF UiFields
  <2> QED BY <2>2, <2>4, <2>5
<1>7. Stays(s, t)
  BY <1>1, <1>5, BrowsedFits, LibStays
<1>8. Stays(t, [t EXCEPT !.edit = "idle", !.control = 1])
  <2>1. UiOK(t) /\ Shown(t) = Shown(s)
    BY <1>7 DEF Stays, Shown
  <2> QED BY <2>1, AnyControl
<1> QED BY <1>3, <1>6, <1>7, <1>8, StaysTwice

\* An operation on an object leaves the location alone.
LEMMA DidStays ==
    ASSUME NEW s, UiOK(s), NEW op
    PROVE  Stays(s, Did(s, op)) /\ Did(s, op).lib = s.lib
<1>1. PICK d : d = [op |-> op, object |-> s.lib.object, part |-> s.lib.part]
  OBVIOUS
<1>2. Did(s, op) = [s EXCEPT !["did"] = d]
  BY <1>1 DEF Did
<1>3. Stays(s, [s EXCEPT !["did"] = d])
  BY OtherChanges
<1> QED BY <1>2, <1>3 DEF UiOK, BaseOK, UiFields

\* A dialog box is shown over the library.
LEMMA DialogFollows ==
    ASSUME NEW s, UiOK(s), s.page = PAGE_LIBRARY, NEW d, "id" \in DOMAIN d
    PROVE  Follows(s, [s EXCEPT !.dialog = d, !.flush = TRUE])
<1>1. PICK t : t = [s EXCEPT !.dialog = d, !.flush = TRUE]
  OBVIOUS
<1>2. DOMAIN s = UiFields
  BY DEF UiOK, BaseOK
<1>3. /\ DOMAIN t = UiFields /\ t.opening = s.opening /\ t.flush = TRUE
      /\ t.page = s.page /\ t.home = s.home /\ t.recent = s.recent /\ t.dialog = d
      /\ t.unsaved = s.unsaved /\ t.state = s.state /\ t.knob = s.knob /\ t.knobs = s.knobs
      /\ t.lib = s.lib /\ t.control = s.control /\ t.edit = s.edit
  BY <1>1, <1>2 DEF UiFields
<1>4. WhereOK(t)
  BY <1>3 DEF UiOK, BaseOK, WhereOK
<1>5. UiOK(t)
  <2>1. ControlOK(t)
    BY <1>3 DEF UiOK, ControlOK, Shown
  <2>2. ChoicesOK(t) /\ KnobsOK(t)
    BY <1>3 DEF UiOK, BaseOK, ChoicesOK, KnobsOK
  <2> QED BY <1>3, <1>4, <2>1, <2>2 DEF UiOK, BaseOK
<1> QED BY <1>1, <1>3, <1>5 DEF Follows

\* ShowDialog flushes the queue.
LEMMA ShowDialogFollows ==
    ASSUME NEW s, UiOK(s), s.page = PAGE_LIBRARY, NEW id, NEW choice
    PROVE  Follows(s, ShowDialog(s, id, choice))
<1>1. PICK d : d = [id |-> id, choice |-> choice, about |-> Index(s.lib)]
  OBVIOUS
<1>2. ShowDialog(s, id, choice) = [s EXCEPT !.dialog = d, !.flush = TRUE]
  BY <1>1 DEF ShowDialog
<1>3. "id" \in DOMAIN d
  BY <1>1
<1>4. Follows(s, [s EXCEPT !.dialog = d, !.flush = TRUE])
  BY <1>3, DialogFollows
<1> QED BY <1>2, <1>4

\* The page in the state it is drawn in: it follows the active part.
LEMMA UpdateStays ==
    ASSUME NEW s, UiOK(s), Shown(s).handlers \notin {"parameters", "performance", "voices"}
    PROVE  Stays(s, UpdateLocation(s))
<1>1. PICK part \in PartNumbers : part = s.state["UI_ACTIVE_PART"]
  BY DEF UiOK, BaseOK, ChoicesOK, Choosers, Numbers, PartNumbers
<1>2. PICK l : l = [s.lib EXCEPT !.part = part, !.dirty = FALSE]
  OBVIOUS
<1>3. LibTyped(l)
  BY <1>2 DEF UiOK, BaseOK, LibOK, LibTyped, LibFields
<1>4. [s EXCEPT !.lib.part = part, !.lib.dirty = FALSE] = [s EXCEPT !.lib = l]
  BY <1>2 DEF UiOK, BaseOK, UiFields
<1>5. Stays(s, Browse([s EXCEPT !.lib = l]))
  BY <1>3, BrowseStays
<1>6. UpdateLocation(s) = s \/ UpdateLocation(s) = Browse([s EXCEPT !.lib = l])
  BY <1>1, <1>4 DEF UpdateLocation
<1> QED BY <1>5, <1>6, StaysItself

\* What no part of the invariant says of the library.
LEMMA LibDetail ==
    ASSUME NEW s, UiOK(s), NEW l, DOMAIN l = LibFields, l.object = s.lib.object,
           l.part = s.lib.part, l.loaded = s.lib.loaded, l.action = s.lib.action,
           l.named = s.lib.named, l.place = s.lib.place
    PROVE  Stays(s, [s EXCEPT !.lib = l])
<1>1. LibOK(l)
  BY DEF UiOK, BaseOK, LibOK, LibTyped, Index
<1> QED BY <1>1, LibStays

\* The library is ready when it is opened.
LEMMA ReadyStays ==
    ASSUME NEW s, UiOK(s), Shown(s).handlers \notin {"parameters", "performance", "voices"},
           NEW l, LibTyped(l)
    PROVE  Stays(s, [Browse([s EXCEPT !.lib = l]) EXCEPT !.lib.dirty = FALSE, !.lib.mode = 1])
<1>1. PICK b : b = Browse([s EXCEPT !.lib = l])
  OBVIOUS
<1>2. Stays(s, b)
  BY <1>1, BrowseStays
<1>3. UiOK(b) /\ DOMAIN b = UiFields /\ DOMAIN b.lib = LibFields
  BY <1>2 DEF Stays, UiOK, BaseOK, LibOK, LibTyped
<1>4. PICK m : m = [b.lib EXCEPT !.dirty = FALSE, !.mode = 1]
  OBVIOUS
<1>5. Stays(b, [b EXCEPT !.lib = m])
  BY <1>3, <1>4, LibDetail DEF LibFields
<1>6. [b EXCEPT !.lib.dirty = FALSE, !.lib.mode = 1] = [b EXCEPT !.lib = m]
  BY <1>3, <1>4 DEF UiFields
<1> QED BY <1>1, <1>2, <1>5, <1>6, StaysTwice

\* The library is opened, or the error of the card is shown.
LEMMA LibraryInitFollows ==
    ASSUME NEW s, BaseOK(s), Shown(s).handlers = "library", NEW t \in LibraryOnInit(s)
    PROVE  Follows(s, t)
<1>0. UiOK(s) /\ DOMAIN s = UiFields /\ s.page = PAGE_LIBRARY /\ DOMAIN s.lib = LibFields
  BY PagesOK DEF UiOK, BaseOK, ControlOK, WhereOK, PageOK, Shown, LibOK, LibTyped
<1>1. PICK part \in PartNumbers : part = s.state["UI_ACTIVE_PART"]
  BY <1>0 DEF UiOK, BaseOK, ChoicesOK, Choosers, Numbers, PartNumbers
<1>2. PICK l : l = [s.lib EXCEPT !.more = FALSE, !.part = part]
  OBVIOUS
<1>3. LibTyped(l)
  BY <1>0, <1>2 DEF UiOK, BaseOK, LibOK, LibTyped, LibFields
<1>4. PICK here : here = [s EXCEPT !.lib = l]
  OBVIOUS
<1>5. [s EXCEPT !.lib.more = FALSE, !.lib.part = part] = here
  BY <1>0, <1>2, <1>4 DEF UiFields
<1>6. PICK d : d = [id |-> "error", choice |-> 0, about |-> Index(l)]
  OBVIOUS
<1>7. PICK u : u = [s EXCEPT !.dialog = d, !.flush = TRUE]
  OBVIOUS
<1>8. ShowDialog(here, "error", 0) = [u EXCEPT !.lib = l]
  <2>1. here.lib = l
    BY <1>0, <1>4 DEF UiFields
  <2>2. ShowDialog(here, "error", 0) = [here EXCEPT !.dialog = d, !.flush = TRUE]
    BY <1>6, <2>1 DEF ShowDialog
  <2> QED BY <1>0, <1>4, <1>7, <2>2 DEF UiFields
<1>9. Follows(s, u) /\ u.page = s.page
  <2>1. "id" \in DOMAIN d
    BY <1>6
  <2> QED BY <1>0, <1>7, <2>1, DialogFollows DEF UiFields
<1>10. UiOK(u) /\ Shown(u) = Shown(s)
  BY <1>9 DEF Follows, Shown
<1> DEFINE ready(w) == [Browse(w) EXCEPT !.lib.dirty = FALSE, !.lib.mode = 1]
<1>11. Stays(s, ready([s EXCEPT !.lib = l])) /\ Stays(u, ready([u EXCEPT !.lib = l]))
  BY <1>0, <1>3, <1>10, ReadyStays
<1>12. t = ready([s EXCEPT !.lib = l]) \/ t = ready([u EXCEPT !.lib = l])
  <2>1. t \in {ready(here), ready(ShowDialog(here, "error", 0))}
    BY <1>1, <1>5 DEF LibraryOnInit
  <2> HIDE DEF ready
  <2> QED BY <1>4, <1>8, <2>1
<1> HIDE DEF ready
<1> QED BY <1>9, <1>11, <1>12, StaysFollows, FollowsTwice

\* The pages that have no parameters to edit.
Apart(s) == Shown(s).handlers \notin {"parameters", "performance", "voices"}

\* The library page, and the settings: what their numbers are.
LEMMA PageFacts ==
    ASSUME NEW s, BaseOK(s)
    PROVE  /\ Shown(s).handlers = "library" <=> s.page = PAGE_LIBRARY
           /\ Shown(s).handlers \in {"library", "versions", "os_info", "sequence", "knobs"}
                => s.unsaved = FALSE
           /\ Shown(s).next_page \in PageNumbers /\ Shown(s).group \in 0..8
           /\ s.page = PAGE_LIBRARY => s.unsaved = FALSE
<1>1. s.page \in PageNumbers /\ PageOK(s.page, Shown(s))
  BY PagesOK DEF Shown, BaseOK, WhereOK
<1>2. s.unsaved \in BOOLEAN /\ (s.unsaved = TRUE => s.page = PAGE_SYSTEM_SETTINGS)
  BY DEF BaseOK, WhereOK
<1>3. PAGE_LIBRARY # PAGE_SYSTEM_SETTINGS
  BY DEF PAGE_LIBRARY, PAGE_SYSTEM_SETTINGS
<1> QED BY <1>1, <1>2, <1>3 DEF PageOK

\* A page with keys of its own leads back home.
LEMMA PreviousFollows ==
    ASSUME NEW s, UiOK(s), s.unsaved = FALSE
    PROVE  Follows(s, ShowPreviousPage(s))
  BY GoesTo DEF ShowPreviousPage, UiOK, BaseOK, WhereOK

\* The encoder loads the neighbour, or moves in the name.
LEMMA LibraryIncrementStays ==
    ASSUME NEW s, UiOK(s), Apart(s), NEW increment
    PROVE  Stays(s, LibraryOnIncrement(s, increment))
<1>0. DOMAIN s = UiFields /\ LibOK(s.lib)
  BY DEF UiOK, BaseOK
<1>1. PICK place : place = Moved(s.lib.place, s.control, increment)
  OBVIOUS
<1>2. PICK l : l = [s.lib EXCEPT !.place = place]
  OBVIOUS
<1>3. PICK moved : moved = [s EXCEPT !.lib = l]
  OBVIOUS
<1>4. [s EXCEPT !.lib.place = place] = moved
  BY <1>2, <1>3
<1>5. /\ LibTyped(l) /\ l.action = s.lib.action /\ l.place = place
      /\ l.loaded = s.lib.loaded /\ Index(l) = Index(s.lib)
  BY <1>0, <1>2 DEF LibOK, LibTyped, LibFields, Index
<1>6. CASE s.lib.action = "browse"
  <2>1. moved.lib = l
    BY <1>0, <1>3 DEF UiFields
  <2>2. LibraryOnIncrement(s, increment) =
            IF moved.lib.place # s.lib.loaded[Index(s.lib)] THEN SaveLocation(Did(moved, "load"))
            ELSE moved
    BY <1>1, <1>4, <1>6 DEF LibraryOnIncrement
  <2>3. CASE place # s.lib.loaded[Index(s.lib)]
    <3>1. PICK d : d = [op |-> "load", object |-> l.object, part |-> l.part]
      OBVIOUS
    <3>2. PICK u : u = [s EXCEPT !["did"] = d]
      OBVIOUS
    <3>3. Stays(s, u)
      BY <3>2, OtherChanges
    <3>4. Did(moved, "load") = [u EXCEPT !.lib = l]
      <4>1. Did(moved, "load") = [moved EXCEPT !.did = d]
        BY <2>1, <3>1 DEF Did
      <4> QED BY <1>0, <1>3, <3>2, <4>1 DEF UiFields
    <3>5. Stays(u, SaveLocation([u EXCEPT !.lib = l]))
      <4>1. UiOK(u)
        BY <3>3 DEF Stays
      <4> QED BY <1>5, <4>1, SaveStays
    <3>6. LibraryOnIncrement(s, increment) = SaveLocation([u EXCEPT !.lib = l])
      BY <1>5, <2>1, <2>2, <2>3, <3>4
    <3> QED BY <3>3, <3>5, <3>6, StaysTwice
  <2>4. CASE place = s.lib.loaded[Index(s.lib)]
    <3>1. LibOK(l)
      BY <1>5, <2>4 DEF LibOK
    <3>2. LibraryOnIncrement(s, increment) = moved
      BY <1>5, <2>1, <2>2, <2>4
    <3> QED BY <1>3, <3>1, <3>2, LibStays
  <2> QED BY <2>3, <2>4
<1>7. CASE s.lib.action # "browse"
  <2>1. LibOK(l)
    BY <1>5, <1>7 DEF LibOK
  <2>2. Stays(s, moved)
    BY <1>3, <2>1, LibStays
  <2>3. PICK m \in {s, moved} : m = IF s.edit = "by_encoder" THEN moved ELSE s
    OBVIOUS
  <2>4. Stays(s, m)
    BY <2>2, <2>3, StaysItself
  <2>5. PICK c : c
              = LET to == s.control + increment IN IF to < 0 THEN 0 ELSE IF to > 16 THEN 16 ELSE to
    OBVIOUS
  <2>6. Stays(m, [m EXCEPT !.control = c])
    <3>1. UiOK(m) /\ Shown(m) = Shown(s)
      BY <2>4 DEF Stays, Shown
    <3> QED BY <3>1, AnyControl DEF Apart
  <2>7. LibraryOnIncrement(s, increment) = m \/ LibraryOnIncrement(s, increment)
              = [m EXCEPT !.control = c]
    BY <1>1, <1>4, <1>7, <2>3, <2>5 DEF LibraryOnIncrement
  <2> QED BY <2>4, <2>6, <2>7, StaysTwice
<1> QED BY <1>6, <1>7

\* A click in the library.
LEMMA LibraryClickStays ==
    ASSUME NEW s, UiOK(s), Apart(s)
    PROVE  Stays(s, LibraryOnClick(s))
<1>1. \A v : Stays(s, [s EXCEPT !.control = v]) /\ Stays(s, [s EXCEPT !.edit = v])
  BY AnyControl DEF Apart
<1>2. PICK edit : edit = IF s.edit = "idle" THEN "by_encoder" ELSE "idle"
  OBVIOUS
<1>3. \/ LibraryOnClick(s) = [s EXCEPT !.control = (s.control + 1) % 2]
      \/ LibraryOnClick(s) = [s EXCEPT !.edit = edit]
  BY <1>2 DEF LibraryOnClick
<1> QED BY <1>1, <1>3

\* Browsing again, with what the library has.
LEMMA BrowseAgain ==
    ASSUME NEW s, UiOK(s), Apart(s)
    PROVE  Stays(s, Browse(s))
<1>1. DOMAIN s = UiFields /\ LibTyped(s.lib)
  BY DEF UiOK, BaseOK, LibOK
<1>2. PICK l : l = s.lib
  OBVIOUS
<1>3. PICK x : x = l.loaded[Index(l)]
  OBVIOUS
<1>4. PICK m : m = [l EXCEPT !.action = "browse", !.place = x, !.named = TRUE]
  OBVIOUS
<1>5. Browse(s) = [s EXCEPT !.lib = m, !.edit = "idle", !.control = 1]
  <2>1. Browse(s) = [s EXCEPT !.lib.action = "browse", !.lib.place = x, !.lib.named = TRUE,
                              !.edit = "idle", !.control = 1]
    BY <1>2, <1>3 DEF Browse
  <2>2. [s EXCEPT !.lib.action = "browse", !.lib.place = x, !.lib.named = TRUE]
              = [s EXCEPT !.lib = m]
    BY <1>1, <1>2, <1>4 DEF UiFields
  <2> QED BY <2>1, <2>2
<1>6. PICK t : t = [s EXCEPT !.lib = m]
  OBVIOUS
<1>7. Stays(s, t)
  BY <1>1, <1>2, <1>3, <1>4, <1>6, BrowsedFits, LibStays
<1>8. Stays(t, [t EXCEPT !.edit = "idle", !.control = 1])
  <2>1. UiOK(t) /\ Shown(t) = Shown(s)
    BY <1>7 DEF Stays, Shown
  <2> QED BY <2>1, AnyControl DEF Apart
<1> QED BY <1>5, <1>6, <1>7, <1>8, StaysTwice

\* The location of the library becomes the one that is loaded.
LEMMA SaveAgain ==
    ASSUME NEW s, UiOK(s)
    PROVE  Stays(s, SaveLocation(s))
<1>1. PICK l : l = s.lib
  OBVIOUS
<1>2. PICK m : m = [l EXCEPT !.loaded[Index(l)] = l.place]
  OBVIOUS
<1>3. SaveLocation(s) = [s EXCEPT !.lib = m]
  BY <1>1, <1>2 DEF SaveLocation
<1>4. LibTyped(l)
  BY <1>1 DEF UiOK, BaseOK, LibOK
<1> QED BY <1>2, <1>3, <1>4, SavedFits, LibStays

\* The keys of the library.
LEMMA LibraryKeyFollows ==
    ASSUME NEW s, UiOK(s), Shown(s).handlers = "library", NEW key, NEW t \in LibraryOnKey(s, key)
    PROVE  Follows(s, t)
<1>0. Apart(s) /\ s.page = PAGE_LIBRARY /\ s.unsaved = FALSE /\ DOMAIN s = UiFields /\ LibOK(s.lib)
  BY PageFacts DEF UiOK, BaseOK, Apart
<1>1. \A id, choice : Follows(s, ShowDialog(s, id, choice))
  BY <1>0, ShowDialogFollows
<1>2. Stays(s, Browse(s))
  BY <1>0, BrowseAgain
<1>3. CASE s.lib.action = "browse"
  <2>1. t = OnKeyBrowse(s, key)
    BY <1>3 DEF LibraryOnKey
  <2>a. PICK a : a = [s EXCEPT !.lib.more = ~s.lib.more]
    OBVIOUS
  <2>b. PICK b : b = [s EXCEPT !.lib.object = NextObject(s.lib.object)]
    OBVIOUS
  <2>c. PICK c : c = [s EXCEPT !.lib.action = "save", !.control = 2, !.edit = "by_encoder"]
    OBVIOUS
  <2>2. Follows(s, a)
    <3>1. PICK l : l = [s.lib EXCEPT !.more = ~s.lib.more]
      OBVIOUS
    <3>2. [s EXCEPT !.lib.more = ~s.lib.more] = [s EXCEPT !.lib = l]
      BY <3>1
    <3>3. Stays(s, [s EXCEPT !.lib = l])
      BY <1>0, <3>1, LibDetail DEF LibOK, LibTyped, LibFields
    <3> QED BY <2>a, <3>2, <3>3, StaysFollows
  <2>3. Follows(s, Browse(b))
    <3>1. PICK object \in Objects : object = NextObject(s.lib.object)
      BY DEF NextObject, Objects
    <3>2. PICK l : l = [s.lib EXCEPT !.object = object]
      OBVIOUS
    <3>3. LibTyped(l)
      BY <1>0, <3>2 DEF LibOK, LibTyped, LibFields
    <3>4. [s EXCEPT !.lib.object = NextObject(s.lib.object)] = [s EXCEPT !.lib = l]
      BY <3>1, <3>2
    <3>5. Stays(s, Browse([s EXCEPT !.lib = l]))
      BY <1>0, <3>3, BrowseStays DEF Apart
    <3> QED BY <2>b, <3>4, <3>5, StaysFollows
  <2>4. Follows(s, c)
    <3>1. PICK l : l = [s.lib EXCEPT !.action = "save"]
      OBVIOUS
    <3>2. LibOK(l)
      BY <1>0, <3>1 DEF LibOK, LibTyped, LibFields
    <3>3. PICK u : u = [s EXCEPT !.lib = l]
      OBVIOUS
    <3>4. Stays(s, u)
      BY <3>2, <3>3, LibStays
    <3>5. Stays(u, [u EXCEPT !.edit = "by_encoder", !.control = 2])
      <4>1. UiOK(u) /\ Shown(u) = Shown(s)
        BY <3>4 DEF Stays, Shown
      <4> QED BY <1>0, <4>1, AnyControl DEF Apart
    <3>6. c = [u EXCEPT !.edit = "by_encoder", !.control = 2]
      BY <1>0, <2>c, <3>1, <3>3 DEF UiFields
    <3> QED BY <3>4, <3>5, <3>6, StaysTwice, StaysFollows
  <2>5. \A to \in PageNumbers : Follows(s, Goto(s, to, TRUE, NoMore))
    BY <1>0, GoesTo
  <2>6. Follows(s, ShowPreviousPage(s))
    BY <1>0, PreviousFollows
  <2>7. 14 \in PageNumbers /\ 15 \in PageNumbers /\ 16 \in PageNumbers
    BY DEF PageNumbers
  <2>8. t = CASE key = 6 -> a
              [] key = 7 -> ShowPreviousPage(s)
              [] key = 0 /\ ~s.lib.more -> Browse(b)
              [] key = 1 /\ ~s.lib.more -> ShowDialog(s, "init", s.lib.mode)
              [] key = 3 /\ ~s.lib.more -> c
              [] key = 4 /\ ~s.lib.more -> Goto(s, 14, TRUE, NoMore)
              [] key = 0 /\ s.lib.more -> Goto(s, 15, TRUE, NoMore)
              [] key = 1 /\ s.lib.more -> ShowDialog(s, "default_multi", 0)
              [] key = 2 /\ s.lib.more -> Goto(s, 16, TRUE, NoMore)
              [] OTHER -> s
    BY <2>1, <2>a, <2>b, <2>c, Zenon DEF OnKeyBrowse
  <2> QED BY <1>1, <2>2, <2>3, <2>4, <2>5, <2>6, <2>7, <2>8, StaysItself
<1>4. CASE s.lib.action # "browse"
  <2>1. t \in OnKeySave(s, key)
    BY <1>4 DEF LibraryOnKey
  <2>2. PICK d : d = Did(s, "save")
    OBVIOUS
  <2>3. Stays(s, d)
    BY <2>2, DidStays
  <2>4. UiOK(d) /\ Shown(d) = Shown(s) /\ DOMAIN d = UiFields /\ LibTyped(d.lib)
    BY <2>3 DEF Stays, Shown, UiOK, BaseOK, LibOK
  <2>5. Stays(d, SaveLocation(d))
    BY <2>4, SaveAgain
  <2>6. Stays(SaveLocation(d), Browse(SaveLocation(d)))
    <3>1. UiOK(SaveLocation(d)) /\ Shown(SaveLocation(d)) = Shown(s)
      BY <2>4, <2>5 DEF Stays, Shown
    <3> QED BY <1>0, <3>1, BrowseAgain DEF Apart
  <2>7. Follows(s, Browse(SaveLocation(d)))
    BY <2>3, <2>5, <2>6, StaysTwice, StaysFollows
  <2>8. \/ t = Browse(SaveLocation(d))
        \/ t = ShowDialog(s, "error", 0)
        \/ t = Browse(s)
        \/ t = s
    BY <2>1, <2>2 DEF OnKeySave
  <2> QED BY <1>1, <1>2, <2>7, <2>8, StaysItself, StaysFollows
<1> QED BY <1>3, <1>4

\* The library after a dialog box.
LEMMA DialogClosedStays ==
    ASSUME NEW s, UiOK(s), Apart(s), NEW id, NEW value
    PROVE  Stays(s, LibraryOnDialogClosed(s, id, value))
<1>1. PICK l : l = [s.lib EXCEPT !.mode = value - 1]
  OBVIOUS
<1>2. PICK u : u = [s EXCEPT !.lib = l]
  OBVIOUS
<1>3. Stays(s, u)
  BY <1>1, <1>2, LibDetail DEF UiOK, BaseOK, LibOK, LibTyped, LibFields
<1>4. [s EXCEPT !.lib.mode = value - 1] = u
  BY <1>1, <1>2
<1>5. PICK d : d = Did(u, "init")
  OBVIOUS
<1>6. Stays(s, d)
  <2>1. UiOK(u)
    BY <1>3 DEF Stays
  <2> QED BY <1>3, <1>5, <2>1, DidStays, StaysTwice
<1>7. Stays(s, Browse(d))
  <2>1. UiOK(d) /\ Apart(d)
    BY <1>6 DEF Stays, Shown, Apart
  <2> QED BY <1>6, <2>1, BrowseAgain, StaysTwice
<1>8. Stays(s, Browse(s)) /\ Stays(s, Did(s, "write_eeprom"))
  BY BrowseAgain, DidStays
<1>9. \/ LibraryOnDialogClosed(s, id, value) = Browse(s)
      \/ LibraryOnDialogClosed(s, id, value) = Browse(d)
      \/ LibraryOnDialogClosed(s, id, value) = Did(s, "write_eeprom")
      \/ LibraryOnDialogClosed(s, id, value) = s
  BY <1>4, <1>5 DEF LibraryOnDialogClosed
<1> QED BY <1>7, <1>8, <1>9, StaysItself

-----------------------------------------------------------------------------
(* The versions.                                                           *)

\* The version manager is opened.
LEMMA VersionsInitStays ==
    ASSUME NEW s, BaseOK(s), Apart(s)
    PROVE  Stays(s, VersionsOnInit(s))
<1>1. PICK d : d = Did(s, "snapshot")
  OBVIOUS
<1>2. UiOK(s)
  BY DEF UiOK, ControlOK, Apart
<1>3. Stays(s, d)
  BY <1>1, <1>2, DidStays
<1>4. Stays(d, Did(d, "previous_version"))
  BY <1>3, DidStays DEF Stays
<1> QED BY <1>1, <1>3, <1>4, StaysTwice DEF VersionsOnInit

\* The keys of the version manager.
LEMMA VersionsKeyFollows ==
    ASSUME NEW s, UiOK(s), Shown(s).handlers = "versions", NEW key
    PROVE  Follows(s, VersionsOnKey(s, key))
<1>0. s.unsaved = FALSE /\ DOMAIN s = UiFields
  BY PageFacts DEF UiOK, BaseOK
<1>1. ASSUME NEW op
      PROVE  Follows(s, Did(s, op)) /\ Follows(s, ShowPreviousPage(Did(s, op)))
  <2>1. PICK d : d = Did(s, op)
    OBVIOUS
  <2>2. Stays(s, d)
    BY <2>1, DidStays
  <2>3. UiOK(d) /\ d.unsaved = FALSE
    BY <1>0, <2>1, <2>2 DEF Stays, Did, UiFields
  <2> QED BY <2>1, <2>2, <2>3, PreviousFollows, StaysFollows, FollowsTwice
<1>2. Follows(s, ShowPreviousPage(s))
  BY <1>0, PreviousFollows
<1>3. \/ VersionsOnKey(s, key) = s
      \/ VersionsOnKey(s, key) = ShowPreviousPage(s)
      \/ VersionsOnKey(s, key) = ShowPreviousPage(Did(s, "copy"))
      \/ VersionsOnKey(s, key) = ShowPreviousPage(Did(s, "swap"))
      \/ VersionsOnKey(s, key) = ShowPreviousPage(Did(s, "paste"))
      \/ VersionsOnKey(s, key) = Did(s, "previous_version")
      \/ VersionsOnKey(s, key) = Did(s, "next_version")
      \/ VersionsOnKey(s, key) = ShowPreviousPage(Did(s, "snapshot"))
  BY DEF VersionsOnKey
<1> QED BY <1>1, <1>2, <1>3, StaysItself

-----------------------------------------------------------------------------
(* Program changes.                                                        *)

\* The location after a program or a multi has been looked for, and loaded if it was found.
Located(s, object, part, place) ==
    [s EXCEPT !.lib.object = object, !.lib.part = part, !.lib.place = place, !.lib.named = FALSE]

\* The location moves, and what is there may be loaded.
LEMMA LocatedStays ==
    ASSUME NEW s, UiOK(s), NEW object \in Objects, NEW part \in PartNumbers, NEW place
    PROVE  /\ Stays(s, Located(s, object, part, place))
           /\ Stays(s, SaveLocation(Did(Located(s, object, part, place), "load")))
<1>1. PICK l : l = [s.lib EXCEPT !.object = object, !.part = part, !.place = place, !.named = FALSE]
  OBVIOUS
<1>2. LibOK(l)
  BY <1>1 DEF UiOK, BaseOK, LibOK, LibTyped, LibFields
<1>3. PICK t : t = Located(s, object, part, place)
  OBVIOUS
<1>4. t = [s EXCEPT !.lib = l]
  BY <1>1, <1>3 DEF Located, UiOK, BaseOK, UiFields
<1>5. Stays(s, t)
  BY <1>2, <1>4, LibStays
<1>6. PICK d : d = Did(t, "load")
  OBVIOUS
<1>7. Stays(s, d) /\ UiOK(d)
  <2>1. UiOK(t)
    BY <1>5 DEF Stays
  <2> QED BY <1>5, <1>6, <2>1, DidStays, StaysTwice DEF Stays
<1>8. Stays(d, SaveLocation(d))
  BY <1>7, SaveAgain
<1> QED BY <1>3, <1>5, <1>6, <1>7, <1>8, StaysTwice

\* The program of one part.
LEMMA LoadProgramStays ==
    ASSUME NEW tried, UiOK(tried[1]), NEW i \in PartNumbers, NEW place, NEW fails
    PROVE  Stays(tried[1], LoadProgram(tried, i, place, fails)[1])
<1>1. PICK t : t = Located(tried[1], "program", i, place)
  OBVIOUS
<1>2. Stays(tried[1], t) /\ Stays(tried[1], SaveLocation(Did(t, "load")))
  BY <1>1, LocatedStays DEF Objects
<1>3. \/ LoadProgram(tried, i, place, fails)[1] = t
      \/ LoadProgram(tried, i, place, fails)[1] = SaveLocation(Did(t, "load"))
  BY <1>1 DEF LoadProgram, Located
<1> QED BY <1>2, <1>3

\* The programs of the parts, whichever of them cannot be loaded.
LEMMA LoadProgramsStays ==
    ASSUME NEW s, UiOK(s), NEW parts \in Seq(PartNumbers), NEW place, NEW fails
    PROVE  Stays(s, LoadPrograms(s, parts, place, fails)[1])
<1>1. PICK loop : loop = <<parts, place, fails>>
  OBVIOUS
<1>2. PICK n \in Nat : n = Len(parts)
  OBVIOUS
<1>3. PICK first : first = <<s, FALSE>>
  OBVIOUS
<1> DEFINE f == CHOOSE g : g = [i \in 0..Len(parts) |->
                    IF i = 0 THEN <<s, FALSE>> ELSE LoadProgram(g[i - 1], parts[i], place, fails)]
<1>4. PICK g : Recursion(g, loop, first, n)
  BY RecursionDefined
<1>5. \A x, i : NextOf(loop, x, i) = LoadProgram(x, parts[i], place, fails)
  BY <1>1 DEF NextOf
<1>6. LoadPrograms(s, parts, place, fails) = f[n]
  BY <1>2 DEF LoadPrograms
<1>6a. g = [i \in 0..Len(parts) |->
              IF i = 0 THEN <<s, FALSE>> ELSE LoadProgram(g[i - 1], parts[i], place, fails)]
  BY <1>1, <1>2, <1>3, <1>4 DEF Recursion, NextOf
<1>6b. f = [i \in 0..Len(parts) |->
              IF i = 0 THEN <<s, FALSE>> ELSE LoadProgram(f[i - 1], parts[i], place, fails)]
  BY <1>6a
<1> HIDE DEF f
<1>7. \A i \in 0..n : f[i] = IF i = 0 THEN first ELSE LoadProgram(f[i - 1], parts[i], place, fails)
  BY <1>2, <1>3, <1>6b
<1> DEFINE D == {m \in 0..n : ~Stays(s, f[m][1])}
<1>8. ASSUME D # {}
      PROVE  FALSE
  <2>1. PICK m \in D : \A x \in D : m <= x
    <3>1. D \in SUBSET Nat
      OBVIOUS
    <3> HIDE DEF D
    <3> QED BY <1>8, <3>1, MinOfNaturals
  <2>2. m # 0
    BY <1>3, <1>7, <2>1, StaysItself
  <2>3. m \in 0..n /\ m - 1 \in 0..n /\ m - 1 \notin D /\ m \in 1..Len(parts)
    BY <1>2, <2>1, <2>2
  <2>4. Stays(s, f[m - 1][1]) /\ parts[m] \in PartNumbers
    BY <2>3
  <2>5. f[m] = LoadProgram(f[m - 1], parts[m], place, fails)
    BY <1>7, <2>2, <2>3
  <2>6. Stays(f[m - 1][1], f[m][1])
    BY <2>4, <2>5, LoadProgramStays DEF Stays
  <2>7. Stays(s, f[m][1])
    BY <2>4, <2>6, StaysTwice
  <2> QED BY <2>1, <2>7
<1>9. n \in 0..n /\ n \notin D
  BY <1>8
<1> QED BY <1>6, <1>9

\* The multi.
LEMMA LoadMultiStays ==
    ASSUME NEW s, UiOK(s), NEW place, NEW error
    PROVE  Stays(s, LoadMulti(s, place, error)[1])
<1>1. PICK t : t = Located(s, "multi", 0, place)
  OBVIOUS
<1>2. Stays(s, t) /\ Stays(s, SaveLocation(Did(t, "load")))
  BY <1>1, LocatedStays DEF Objects, PartNumbers
<1>3. \/ LoadMulti(s, place, error)[1] = t
      \/ LoadMulti(s, place, error)[1] = SaveLocation(Did(t, "load"))
  BY <1>1 DEF LoadMulti, Located
<1> QED BY <1>2, <1>3

\* A program change, after one try or two.
LEMMA ProgramChangeStays ==
    ASSUME NEW s, UiOK(s), NEW parts \in Seq(PartNumbers), NEW bank, NEW place,
           NEW t \in ProgramChange(s, parts, bank, place)
    PROVE  Stays(s, t)
<1> DEFINE failures == {-1} \cup {parts[i] : i \in DOMAIN parts}
           try(u) == IF bank THEN {LoadPrograms(u, parts, place, f) : f \in failures}
                     ELSE {LoadMulti(u, place, e) : e \in BOOLEAN}
           done == {r \in try(s) : ~r[2]}
           again == UNION {try(r[1]) : r \in try(s) \ done}
<1>1. ASSUME NEW u, UiOK(u), NEW r \in try(u)
      PROVE  Stays(u, r[1])
  BY <1>1, LoadProgramsStays, LoadMultiStays
<1>2. PICK r \in done \cup again : t = IF r[2] THEN r[1] ELSE [r[1] EXCEPT !.lib.dirty = TRUE]
  BY DEF ProgramChange
<1>3. Stays(s, r[1])
  <2>1. CASE r \in done
    BY <1>1, <2>1
  <2>2. CASE r \in again
    <3>1. PICK q \in try(s) : r \in try(q[1])
      <4> HIDE DEF try, done
      <4> QED BY <2>2
    <3>2. Stays(s, q[1])
      BY <1>1, <3>1
    <3>3. Stays(q[1], r[1])
      <4>1. UiOK(q[1])
        BY <3>2 DEF Stays
      <4> HIDE DEF try
      <4> QED BY <1>1, <3>1, <4>1
    <3> QED BY <3>2, <3>3, StaysTwice
  <2> QED BY <1>2, <2>1, <2>2
<1>4. PICK w : w = r[1]
  OBVIOUS
<1>5. UiOK(w) /\ DOMAIN w = UiFields /\ DOMAIN w.lib = LibFields
  BY <1>3, <1>4 DEF Stays, UiOK, BaseOK, LibOK, LibTyped
<1>6. PICK l : l = [w.lib EXCEPT !.dirty = TRUE]
  OBVIOUS
<1>7. Stays(w, [w EXCEPT !.lib = l])
  BY <1>5, <1>6, LibDetail DEF LibFields
<1>8. [w EXCEPT !.lib.dirty = TRUE] = [w EXCEPT !.lib = l]
  BY <1>5, <1>6 DEF UiFields
<1>9. t = w \/ t = [w EXCEPT !.lib.dirty = TRUE]
  BY <1>2, <1>4
<1> HIDE DEF try, done, again
<1>10. Stays(w, t)
  BY <1>5, <1>7, <1>8, <1>9, StaysItself
<1> QED BY <1>3, <1>4, <1>10, StaysTwice

-----------------------------------------------------------------------------
(* Dialog boxes, and the pages with few controls.                          *)

\* A dialog box is over the library.
LEMMA DialogPlace ==
    ASSUME NEW s, UiOK(s), s.dialog.id # "none"
    PROVE  s.page = PAGE_LIBRARY /\ Apart(s) /\ s.unsaved = FALSE /\ s.page \in PageNumbers
<1>1. s.page = PAGE_LIBRARY /\ s.page \in PageNumbers
  BY DEF UiOK, BaseOK, WhereOK
<1>2. Shown(s).handlers = "library" /\ s.unsaved = FALSE
  BY <1>1, PageFacts DEF UiOK
<1> QED BY <1>1, <1>2 DEF Apart

\* The library takes its place again, without being initialised.
LEMMA CloseFollows ==
    ASSUME NEW s, UiOK(s), s.dialog.id # "none", NEW value
    PROVE  Follows(s, CloseDialogBox(s, value))
<1>1. s.page = PAGE_LIBRARY /\ s.unsaved = FALSE /\ s.page \in PageNumbers
  BY DialogPlace
<1>2. PICK then : then = [do |-> "closed", id |-> s.dialog.id, value |-> value]
  OBVIOUS
<1>3. Follows(s, Goto(s, s.page, FALSE, then))
  BY <1>1, GoesTo
<1> QED BY <1>2, <1>3 DEF CloseDialogBox

\* A choice of a dialog box.
LEMMA ChoiceStays ==
    ASSUME NEW s, UiOK(s), NEW choice
    PROVE  Stays(s, [s EXCEPT !.dialog.choice = choice])
<1>1. PICK d : d = [s.dialog EXCEPT !.choice = choice]
  OBVIOUS
<1>2. PICK t : t = [s EXCEPT !.dialog = d]
  OBVIOUS
<1>3. DOMAIN s = UiFields /\ "id" \in DOMAIN s.dialog
  BY DEF UiOK, BaseOK, WhereOK
<1>4. t = [s EXCEPT !.dialog.choice = choice]
  BY <1>1, <1>2, <1>3 DEF UiFields
<1>5. "id" \in DOMAIN d /\ d.id = s.dialog.id
  BY <1>1, <1>3
<1>6. /\ DOMAIN t = UiFields /\ t.opening = s.opening /\ t.flush = s.flush /\ t.dialog = d
      /\ t.page = s.page /\ t.home = s.home /\ t.recent = s.recent
      /\ t.unsaved = s.unsaved /\ t.state = s.state /\ t.knob = s.knob /\ t.knobs = s.knobs
      /\ t.control = s.control /\ t.edit = s.edit /\ t.lib = s.lib
  BY <1>2, <1>3 DEF UiFields
<1>7. WhereOK(t)
  BY <1>5, <1>6 DEF UiOK, BaseOK, WhereOK
<1>8. ControlOK(t)
  BY <1>6 DEF UiOK, ControlOK, Shown
<1>9. ChoicesOK(t) /\ KnobsOK(t) /\ LibOK(t.lib) /\ t.flush \in BOOLEAN
  BY <1>6 DEF UiOK, BaseOK, ChoicesOK, KnobsOK
<1> QED BY <1>4, <1>5, <1>6, <1>7, <1>8, <1>9 DEF Stays, UiOK, BaseOK

\* The encoder and the pots over a dialog box.
LEMMA DialogStays ==
    ASSUME NEW s, UiOK(s), NEW increment, NEW value
    PROVE  Stays(s, DialogOnIncrement(s, increment)) /\ Stays(s, DialogOnPot(s, value))
<1>1. \A choice : Stays(s, [s EXCEPT !.dialog.choice = choice])
  BY ChoiceStays
<1>2. PICK c : c = ClipTo(s.dialog.choice + increment, 0, kNumChoices - 1)
  OBVIOUS
<1>3. PICK d : d = (kNumChoices * U8(2 * value)) \div 256
  OBVIOUS
<1>4. PICK t : t = [s EXCEPT !.dialog.choice = c]
  OBVIOUS
<1>5. PICK u : u = [s EXCEPT !.dialog.choice = d]
  OBVIOUS
<1>6. DialogOnIncrement(s, increment) \in {s, t} /\ DialogOnPot(s, value) \in {s, u}
  BY <1>2, <1>3, <1>4, <1>5 DEF DialogOnIncrement, DialogOnPot
<1> QED BY <1>1, <1>4, <1>5, <1>6, StaysItself

\* A key or a click over a dialog box.
LEMMA DialogKeyFollows ==
    ASSUME NEW s, UiOK(s), s.dialog.id # "none", NEW key
    PROVE  Follows(s, DialogOnKey(s, key)) /\ Follows(s, DialogOnClick(s))
<1>1. \A value : Follows(s, CloseDialogBox(s, value))
  BY CloseFollows
<1>2. \/ DialogOnKey(s, key) = s
      \/ \E value : DialogOnKey(s, key) = CloseDialogBox(s, value)
  BY DEF DialogOnKey
<1> QED BY <1>1, <1>2, StaysItself DEF DialogOnClick

\* The page of the firmware versions.
LEMMA OsInfoFollows ==
    ASSUME NEW s, UiOK(s), Shown(s).handlers = "os_info", NEW x
    PROVE  Follows(s, OsInfoOnIncrement(s, x)) /\ Follows(s, OsInfoOnKey(s, x))
<1>1. s.unsaved = FALSE
  BY PageFacts DEF UiOK
<1>2. Follows(s, ShowPreviousPage(s))
  BY <1>1, PreviousFollows
<1>3. PICK c : c = ClipTo(s.control + x, 0, kNumVoices)
  OBVIOUS
<1>4. Stays(s, [s EXCEPT !.control = c])
  BY AnyControl
<1> QED BY <1>2, <1>3, <1>4, StaysFollows, StaysItself DEF OsInfoOnIncrement, OsInfoOnKey

\* The page of the firmware versions is opened.
LEMMA OsInfoInitStays ==
    ASSUME NEW s, BaseOK(s), Shown(s).handlers = "os_info"
    PROVE  Stays(s, OsInfoOnInit(s))
<1>1. UiOK(s)
  BY OpenedIsIdle
<1> QED BY <1>1, AnyControl DEF OsInfoOnInit

-----------------------------------------------------------------------------
(* The tables of handlers.                                                 *)

\* The handlers are those of the dialog box, or of the page.
LEMMA HandlersOf ==
    ASSUME NEW s, BaseOK(s)
    PROVE  /\ \/ s.dialog.id # "none" /\ Handlers(s) = "dialog" /\ Shown(s).handlers = "library"
              \/ /\ s.dialog.id = "none" /\ Handlers(s) = Shown(s).handlers
                 /\ Handlers(s) # "dialog"
           /\ Shown(s).handlers \in {"parameters", "voices", "performance", "sequence", "knobs",
                                     "library", "versions", "os_info"}
<1>1. s.page \in PageNumbers /\ PageOK(s.page, Shown(s))
  BY PagesOK DEF Shown, BaseOK, WhereOK
<1>2. s.dialog.id # "none" => s.page = PAGE_LIBRARY
  BY DEF BaseOK, WhereOK
<1> QED BY <1>1, <1>2 DEF PageOK, Handlers

\* The encoder, whatever is shown.
LEMMA IncrementFollows ==
    ASSUME NEW s, UiOK(s), s.opening = NoPage, NEW increment \in Int,
           NEW t \in OnIncrement(s, increment)
    PROVE  Follows(s, t)
<1>1. BaseOK(s)
  BY DEF UiOK
<1> DEFINE h == Handlers(s)
<1>2. /\ h = "dialog" \/ h = Shown(s).handlers
      /\ h \in {"dialog", "parameters", "voices", "performance", "sequence", "knobs",
                "library", "versions", "os_info"}
  BY <1>1, HandlersOf
<1>3. CASE h = "parameters"
  <2>1. t = EditorOnIncrement(s, increment)
    BY <1>3 DEF OnIncrement
  <2> QED BY <1>2, <1>3, <2>1, EditorIncrementFollows
<1>4. CASE h = "voices"
  <2>1. t = VoicesOnIncrement(s, increment)
    BY <1>4 DEF OnIncrement
  <2> QED BY <1>2, <1>4, <2>1, VoicesIncrementFollows
<1>5. CASE h = "performance"
  <2>1. t = PerformanceOnIncrement(s, increment)
    BY <1>5 DEF OnIncrement
  <2> QED BY <2>1, PerformanceIncrementStays, StaysFollows
<1>6. CASE h = "knobs"
  <2>1. t \in KnobsOnIncrement(s, increment)
    BY <1>6 DEF OnIncrement
  <2> QED BY <2>1, KnobsIncrementStays, StaysFollows
<1>7. CASE h = "sequence"
  <2>1. t = SequenceOnIncrement(s, increment)
    BY <1>7 DEF OnIncrement
  <2> QED BY <1>2, <1>7, <2>1, SequenceIncrementFollows
<1>8. CASE h = "library"
  <2>1. t = LibraryOnIncrement(s, increment)
    BY <1>8 DEF OnIncrement
  <2> QED BY <1>2, <1>8, <2>1, LibraryIncrementStays, StaysFollows DEF Apart
<1>9. CASE h = "os_info"
  <2>1. t = OsInfoOnIncrement(s, increment)
    BY <1>9 DEF OnIncrement
  <2> QED BY <1>2, <1>9, <2>1, OsInfoFollows
<1>10. CASE h = "dialog"
  <2>1. t = DialogOnIncrement(s, increment)
    BY <1>10 DEF OnIncrement
  <2> QED BY <2>1, DialogStays, StaysFollows
<1>11. CASE h = "versions"
  <2>1. t = s
    BY <1>11 DEF OnIncrement
  <2> QED BY <2>1, StaysItself
<1> QED BY <1>2, <1>3, <1>4, <1>5, <1>6, <1>7, <1>8, <1>9, <1>10, <1>11

\* A click, whatever is shown.
LEMMA ClickFollows ==
    ASSUME NEW s, UiOK(s), s.opening = NoPage
    PROVE  Follows(s, OnClick(s))
<1>1. BaseOK(s)
  BY DEF UiOK
<1> DEFINE h == Handlers(s)
<1>2. /\ h = "dialog" \/ h = Shown(s).handlers
      /\ h \in {"dialog", "parameters", "voices", "performance", "sequence", "knobs",
                "library", "versions", "os_info"}
  BY <1>1, HandlersOf
<1>3. CASE h = "voices"
  <2>1. OnClick(s) = VoicesOnClick(s)
    BY <1>3 DEF OnClick
  <2> QED BY <2>1, VoicesClickStays, StaysFollows
<1>4. CASE h = "performance"
  <2>1. OnClick(s) = PerformanceOnClick(s)
    BY <1>4 DEF OnClick
  <2> QED BY <2>1, PerformanceClickStays, StaysFollows
<1>5. CASE h = "sequence"
  <2>1. OnClick(s) = SequenceOnClick(s)
    BY <1>5 DEF OnClick
  <2> QED BY <1>2, <1>5, <2>1, SequenceClickStays, StaysFollows
<1>6. CASE h = "library"
  <2>1. OnClick(s) = LibraryOnClick(s)
    BY <1>6 DEF OnClick
  <2> QED BY <1>2, <1>6, <2>1, LibraryClickStays, StaysFollows DEF Apart
<1>7. CASE h = "dialog"
  <2>1. OnClick(s) = DialogOnClick(s)
    BY <1>7 DEF OnClick
  <2>2. s.dialog.id # "none"
    BY <1>1, <1>7, HandlersOf
  <2> QED BY <2>1, <2>2, DialogKeyFollows
<1>8. CASE h \in {"parameters", "knobs", "versions", "os_info"}
  <2>1. OnClick(s) = PageOnClick(s)
    BY <1>8 DEF OnClick
  <2>2. Shown(s).handlers # "voices"
    BY <1>2, <1>8
  <2> QED BY <2>1, <2>2, ClickStays, StaysFollows
<1> QED BY <1>2, <1>3, <1>4, <1>5, <1>6, <1>7, <1>8

\* A pot, whatever is shown.
LEMMA PotFollows ==
    ASSUME NEW s, UiOK(s), s.opening = NoPage, NEW index \in 0..7, NEW value \in 0..127,
           NEW t \in OnPot(s, index, value)
    PROVE  Follows(s, t)
<1>1. BaseOK(s)
  BY DEF UiOK
<1> DEFINE h == Handlers(s)
<1>2. /\ h = "dialog" \/ h = Shown(s).handlers
      /\ h \in {"dialog", "parameters", "voices", "performance", "sequence", "knobs",
                "library", "versions", "os_info"}
  BY <1>1, HandlersOf
<1>3. CASE h \in {"parameters", "performance"}
  <2>1. t \in EditorOnPot(s, index, value)
    BY <1>3 DEF OnPot
  <2> QED BY <1>2, <1>3, <2>1, EditorPotStays, StaysFollows
<1>4. CASE h = "voices"
  <2>1. t \in VoicesOnPot(s, index, value)
    BY <1>4 DEF OnPot
  <2> QED BY <1>2, <1>4, <2>1, VoicesPotStays, StaysFollows
<1>5. CASE h = "knobs"
  <2>1. t = KnobsOnPot(s, index, value)
    BY <1>5 DEF OnPot
  <2> QED BY <1>2, <1>5, <2>1, KnobsPotStays, StaysFollows
<1>6. CASE h = "sequence"
  <2>1. t = SequenceOnPot(s, index)
    BY <1>6 DEF OnPot
  <2> QED BY <1>2, <1>6, <2>1, SequencePotStays, StaysFollows
<1>7. CASE h = "dialog"
  <2>1. t = DialogOnPot(s, value)
    BY <1>7 DEF OnPot
  <2> QED BY <2>1, DialogStays, StaysFollows
<1>8. CASE h \in {"library", "versions", "os_info"}
  <2>1. t = s
    BY <1>8 DEF OnPot
  <2> QED BY <2>1, StaysItself
<1> QED BY <1>2, <1>3, <1>4, <1>5, <1>6, <1>7, <1>8

\* A key that a page leaves to the panel saves the settings first.
LEMMA PageKeyStays ==
    ASSUME NEW s, UiOK(s), NEW key \in 0..15
    PROVE  /\ Stays(s, PageOnKey(s, key)[2])
           /\ \/ PageOnKey(s, key)[1] = TRUE
              \/ /\ PageOnKey(s, key)[1] = FALSE /\ key \in 0..7
                 /\ PageOnKey(s, key)[2].unsaved = FALSE
<1>1. PICK t : t = [s EXCEPT !.unsaved = FALSE]
  OBVIOUS
<1>2. DOMAIN s = UiFields
  BY DEF UiOK, BaseOK
<1>3. /\ DOMAIN t = UiFields /\ t.opening = s.opening /\ t.flush = s.flush
      /\ t.page = s.page /\ t.home = s.home /\ t.recent = s.recent /\ t.dialog = s.dialog
      /\ t.unsaved = FALSE /\ t.state = s.state /\ t.knob = s.knob /\ t.knobs = s.knobs
      /\ t.control = s.control /\ t.edit = s.edit /\ t.lib = s.lib
  BY <1>1, <1>2 DEF UiFields
<1>4. WhereOK(t) /\ ControlOK(t) /\ ChoicesOK(t) /\ KnobsOK(t) /\ LibOK(t.lib)
  <2>1. WhereOK(t)
    BY <1>3 DEF UiOK, BaseOK, WhereOK
  <2>2. ControlOK(t)
    BY <1>3 DEF UiOK, ControlOK, Shown
  <2>3. ChoicesOK(t) /\ KnobsOK(t) /\ LibOK(t.lib)
    BY <1>3 DEF UiOK, BaseOK, ChoicesOK, KnobsOK
  <2> QED BY <2>1, <2>2, <2>3
<1>5. Stays(s, t)
  BY <1>3, <1>4 DEF Stays, UiOK, BaseOK
<1>6. s.page # PAGE_SYSTEM_SETTINGS => s.unsaved = FALSE
  BY DEF UiOK, BaseOK, WhereOK
<1>7. CASE key >= 8
  <2>1. PageOnKey(s, key) = <<TRUE, s>>
    BY <1>7 DEF PageOnKey
  <2> QED BY <2>1, StaysItself
<1>8. CASE ~(key >= 8)
  <2>1. PageOnKey(s, key) = <<FALSE, IF s.page = PAGE_SYSTEM_SETTINGS THEN t ELSE s>>
    BY <1>1, <1>8 DEF PageOnKey
  <2>2. key \in 0..7
    BY <1>8
  <2> QED BY <1>3, <1>5, <1>6, <2>1, <2>2, StaysItself
<1> QED BY <1>7, <1>8

\* What a key leads to: k is whether it was taken, and the state.
LEMMA KeyFollows ==
    ASSUME NEW s, UiOK(s), NEW key \in 0..15, NEW k \in OnKey(s, key)
    PROVE  /\ Follows(s, k[2])
           /\ k[1] = TRUE \/ (k[1] = FALSE /\ key \in 0..7 /\ k[2].unsaved = FALSE)
<1>1. BaseOK(s)
  BY DEF UiOK
<1> DEFINE h == Handlers(s)
<1>2. /\ h = "dialog" \/ h = Shown(s).handlers
      /\ h \in {"dialog", "parameters", "voices", "performance", "sequence", "knobs",
                "library", "versions", "os_info"}
  BY <1>1, HandlersOf
<1>3. CASE h = "library"
  <2>1. PICK t \in LibraryOnKey(s, key) : k = <<TRUE, t>>
    BY <1>3 DEF OnKey
  <2> QED BY <1>2, <1>3, <2>1, LibraryKeyFollows
<1>4. CASE h = "versions"
  <2>1. k = <<TRUE, VersionsOnKey(s, key)>>
    BY <1>4 DEF OnKey
  <2> QED BY <1>2, <1>4, <2>1, VersionsKeyFollows
<1>5. CASE h = "os_info"
  <2>1. k = <<TRUE, OsInfoOnKey(s, key)>>
    BY <1>5 DEF OnKey
  <2> QED BY <1>2, <1>5, <2>1, OsInfoFollows
<1>6. CASE h = "dialog"
  <2>1. k = <<TRUE, DialogOnKey(s, key)>>
    BY <1>6 DEF OnKey
  <2>2. s.dialog.id # "none"
    BY <1>1, <1>6, HandlersOf
  <2> QED BY <2>1, <2>2, DialogKeyFollows
<1>7. CASE h \in {"parameters", "voices", "performance", "sequence", "knobs"}
  <2>1. k = PageOnKey(s, key)
    BY <1>7 DEF OnKey
  <2> QED BY <2>1, PageKeyStays, StaysFollows
<1> QED BY <1>2, <1>3, <1>4, <1>5, <1>6, <1>7

-----------------------------------------------------------------------------
(* A page is opened, and drawn.                                            *)

EditHandlers == {"parameters", "performance", "voices"}

\* A page is initialised in the state it is opened in.
LEMMA InitFollows ==
    ASSUME NEW s, BaseOK(s), s.dialog.id = "none", NEW t \in OnInit(s)
    PROVE  /\ Follows(s, t)
           /\ Shown(s).handlers \in EditHandlers => Stays(s, t) /\ t.edit = "idle"
<1> DEFINE h == Shown(s).handlers
<1>1. /\ Handlers(s) = h
      /\ h \in {"parameters", "voices", "performance", "sequence", "knobs",
                "library", "versions", "os_info"}
  BY HandlersOf
<1>2. CASE h \in {"parameters", "performance"}
  <2>1. t = EditorOnInit(s)
    BY <1>1, <1>2 DEF OnInit
  <2> QED BY <1>2, <2>1, EditorInitFollows, StaysFollows
<1>3. CASE h = "voices"
  <2>1. t = VoicesOnInit(s)
    BY <1>1, <1>3 DEF OnInit
  <2> QED BY <1>3, <2>1, VoicesInitStays, StaysFollows
<1>4. CASE h = "knobs"
  <2>1. t = PageOnInit(s)
    BY <1>1, <1>4 DEF OnInit, KnobsOnInit
  <2>2. Stays(s, PageOnInit(s))
    BY <1>4, OpenedIsIdle
  <2> QED BY <1>4, <2>1, <2>2, StaysFollows DEF EditHandlers
<1>5. CASE h = "sequence"
  <2>1. t = SequenceOnInit(s)
    BY <1>1, <1>5 DEF OnInit
  <2> QED BY <1>5, <2>1, SequenceInitFollows DEF EditHandlers
<1>6. CASE h = "library"
  <2>1. t \in LibraryOnInit(s)
    BY <1>1, <1>6 DEF OnInit
  <2> QED BY <1>6, <2>1, LibraryInitFollows DEF EditHandlers
<1>7. CASE h = "versions"
  <2>1. t = VersionsOnInit(s)
    BY <1>1, <1>7 DEF OnInit
  <2> QED BY <1>7, <2>1, VersionsInitStays, StaysFollows DEF EditHandlers, Apart
<1>8. CASE h = "os_info"
  <2>1. t = OsInfoOnInit(s)
    BY <1>1, <1>8 DEF OnInit
  <2> QED BY <1>8, <2>1, OsInfoInitStays, StaysFollows DEF EditHandlers
<1> QED BY <1>1, <1>2, <1>3, <1>4, <1>5, <1>6, <1>7, <1>8

\* The page is drawn.
LEMMA ScreenStays ==
    ASSUME NEW s, UiOK(s)
    PROVE  /\ Stays(s, UpdateScreen(s))
           /\ Shown(s).handlers \in EditHandlers => UpdateScreen(s) = s
<1>1. Handlers(s) = "dialog" \/ Handlers(s) = Shown(s).handlers
  BY HandlersOf DEF UiOK
<1>2. CASE Handlers(s) \in {"library", "versions"}
  <2>1. UpdateScreen(s) = UpdateLocation(s)
    BY <1>2 DEF UpdateScreen
  <2>2. Shown(s).handlers \in {"library", "versions"}
    BY <1>1, <1>2
  <2>3. Stays(s, UpdateLocation(s))
    BY <2>2, UpdateStays
  <2> QED BY <2>1, <2>2, <2>3 DEF EditHandlers
<1>3. CASE Handlers(s) \notin {"library", "versions"}
  <2>1. UpdateScreen(s) = s
    BY <1>3 DEF UpdateScreen
  <2> QED BY <2>1, StaysItself
<1> QED BY <1>2, <1>3

\* The pause after the last event.
LEMMA IdleStays ==
    ASSUME NEW s, UiOK(s)
    PROVE  Stays(s, OnIdle(s))
<1>1. Stays(s, [s EXCEPT !.edit = "idle"])
  BY EditChanges
<1> QED BY <1>1, StaysItself DEF OnIdle, PageOnIdle

\* The first or the last control of the page that is shown.
LEMMA ActivateFollows ==
    ASSUME NEW s, UiOK(s), Shown(s).handlers \in EditHandlers => s.edit = "idle", NEW which
    PROVE  Follows(s, SetActiveControl(s, which))
<1> DEFINE h == Handlers(s)
<1>1. /\ h = "dialog" \/ h = Shown(s).handlers
      /\ h \in {"dialog", "parameters", "voices", "performance", "sequence", "knobs",
                "library", "versions", "os_info"}
  BY HandlersOf DEF UiOK
<1>2. CASE h \in {"parameters", "performance"}
  <2>1. SetActiveControl(s, which) = EditorSetActiveControl(s, which)
    BY <1>2 DEF SetActiveControl
  <2>2. s.edit = "idle" /\ Shown(s).handlers \in {"parameters", "performance"}
    BY <1>1, <1>2 DEF EditHandlers
  <2>3. PICK c \in 0..7 : /\ Shown(s).data[c + 1] # 255
                          /\ EditorSetActiveControl(s, which) = [s EXCEPT !.control = c]
    BY <2>2, EditorActivates DEF UiOK
  <2>4. Stays(s, [s EXCEPT !.control = c])
    BY <2>2, <2>3, ControlMoves
  <2> QED BY <2>1, <2>3, <2>4, StaysFollows
<1>3. CASE h = "voices"
  <2>1. SetActiveControl(s, which) = VoicesSetActiveControl(s, which)
    BY <1>3 DEF SetActiveControl
  <2>2. s.edit = "idle" /\ Shown(s).handlers = "voices"
    BY <1>1, <1>3 DEF EditHandlers
  <2> QED BY <2>1, <2>2, VoicesActivates, StaysFollows
<1>4. CASE h = "sequence"
  <2>1. SetActiveControl(s, which) = SequenceSetActiveControl(s, which)
    BY <1>4 DEF SetActiveControl
  <2> QED BY <1>1, <1>4, <2>1, SequenceActivates
<1>5. CASE h \notin {"parameters", "performance", "voices", "sequence"}
  <2>1. SetActiveControl(s, which) = s
    BY <1>5 DEF SetActiveControl
  <2> QED BY <2>1, StaysItself
<1> QED BY <1>2, <1>3, <1>4, <1>5

\* The state in which a page is initialised.
There(s) ==
    LET o == s.opening
    IN [s EXCEPT !.page = o.page, !.dialog = NoDialog, !.opening = NoPage,
                 !.home = IF o.page <= PAGE_KNOB_ASSIGN THEN o.page ELSE @,
                 !.recent[page_registry[o.page + 1].group + 1] = o.page]

\* The page that is opened has its state, even before it is initialised.
LEMMA ThereFits ==
    ASSUME NEW s, UiOK(s), s.opening # NoPage
    PROVE  LET t == There(s)
           IN /\ BaseOK(t) /\ t.opening = NoPage /\ t.dialog.id = "none" /\ t.flush = s.flush
              /\ s.opening.initialize = TRUE \/ (UiOK(t) /\ Apart(t))
<1>1. PICK p \in PageNumbers : p = s.opening.page
  BY DEF UiOK, BaseOK, WhereOK
<1>2. /\ s.home \in PageNumbers /\ s.recent \in [1..9 -> PageNumbers] /\ s.unsaved = FALSE
      /\ s.opening.initialize = TRUE \/ p = PAGE_LIBRARY
      /\ DOMAIN s = UiFields
  BY <1>1 DEF UiOK, BaseOK, WhereOK
<1>3. PageOK(p, page_registry[p + 1])
  BY <1>1, PagesOK
<1>4. PICK g \in 1..9 : g = page_registry[p + 1].group + 1
  BY <1>3 DEF PageOK
<1>5. PICK recent \in [1..9 -> PageNumbers] : recent = [s.recent EXCEPT ![g] = p]
  BY <1>1, <1>2, <1>4
<1>6. PICK home \in PageNumbers : home = IF p <= PAGE_KNOB_ASSIGN THEN p ELSE s.home
  BY <1>1, <1>2
<1>7. PICK t : t = [s EXCEPT !.page = p, !.dialog = NoDialog, !.opening = NoPage, !.home = home,
                             !.recent = recent]
  OBVIOUS
<1>8. There(s) = t
  BY <1>1, <1>2, <1>4, <1>5, <1>6, <1>7 DEF There, UiFields
<1>9. /\ DOMAIN t = UiFields /\ t.opening = NoPage /\ t.flush = s.flush
      /\ t.page = p /\ t.home = home /\ t.recent = recent /\ t.dialog = NoDialog
      /\ t.unsaved = FALSE /\ t.state = s.state /\ t.knob = s.knob /\ t.knobs = s.knobs
      /\ t.lib = s.lib
  BY <1>2, <1>7 DEF UiFields
<1>10. "id" \in DOMAIN NoDialog /\ NoDialog.id = "none"
  BY DEF NoDialog
<1>11. WhereOK(t)
  BY <1>1, <1>9, <1>10 DEF WhereOK
<1>12. BaseOK(t)
  BY <1>9, <1>11 DEF UiOK, BaseOK, ChoicesOK, KnobsOK
<1>13. p = PAGE_LIBRARY => Apart(t) /\ UiOK(t)
  <2>1. p = PAGE_LIBRARY => Shown(t).handlers = "library"
    BY <1>9, <1>12, PageFacts
  <2> QED BY <1>12, <2>1 DEF Apart, UiOK, ControlOK
<1> QED BY <1>2, <1>8, <1>9, <1>10, <1>12, <1>13

\* What the second half of ShowPage leaves.
LEMMA OpenedFollows ==
    ASSUME NEW s, UiOK(s), s.opening # NoPage, NEW u \in Opened(s)
    PROVE  UiOK(u) /\ (u.flush = TRUE \/ (u.opening = NoPage /\ u.flush = s.flush))
<1>1. PICK there : there = There(s)
  OBVIOUS
<1>2. /\ BaseOK(there) /\ there.opening = NoPage /\ there.dialog.id = "none"
      /\ there.flush = s.flush
      /\ s.opening.initialize = TRUE \/ (UiOK(there) /\ Apart(there))
  BY <1>1, ThereFits
<1> DEFINE from == IF s.opening.initialize THEN OnInit(there) ELSE {there}
           drawn == {UpdateScreen(t) : t \in from}
           Fits(t) == /\ Follows(there, t)
                      /\ Shown(t).handlers \in EditHandlers => t.edit = "idle"
<1>3. ASSUME NEW t \in from
      PROVE  Fits(t)
  <2>1. CASE s.opening.initialize = TRUE
    <3>1. t \in OnInit(there)
      BY <1>3, <2>1
    <3>2. /\ Follows(there, t)
          /\ Shown(there).handlers \in EditHandlers => Stays(there, t) /\ t.edit = "idle"
      BY <1>2, <3>1, InitFollows
    <3>3. Shown(t) = Shown(there)
      BY <3>2 DEF Follows, Shown
    <3> QED BY <3>2, <3>3
  <2>2. CASE s.opening.initialize # TRUE
    <3>1. t = there
      BY <1>3, <2>2
    <3>2. UiOK(there) /\ Apart(there)
      BY <1>2, <2>2
    <3> QED BY <3>1, <3>2, StaysItself DEF Apart, EditHandlers
  <2> QED BY <2>1, <2>2
<1>4. ASSUME NEW t \in drawn
      PROVE  Fits(t)
  <2>1. PICK v \in from : t = UpdateScreen(v)
    <3> HIDE DEF from
    <3> QED BY <1>4
  <2>2. Fits(v)
    BY <1>3, <2>1
  <2>3. UiOK(v)
    BY <2>2 DEF Follows
  <2>4. /\ Stays(v, t)
        /\ Shown(v).handlers \in EditHandlers => t = v
    BY <2>1, <2>3, ScreenStays
  <2>5. Shown(t) = Shown(v)
    BY <2>4 DEF Stays, Shown
  <2>6. Follows(there, t)
    BY <2>2, <2>4, StaysFollows, FollowsTwice
  <2> QED BY <2>2, <2>4, <2>5, <2>6
<1> DEFINE then == s.opening.then
<1>5. \/ u \in drawn
      \/ \E t \in drawn : u = SetActiveControl(t, then.do)
      \/ \E t \in drawn : /\ Handlers(t) = "library"
                          /\ u = LibraryOnDialogClosed(t, then.id, then.value)
  BY <1>1 DEF Opened, There
<1>6. Follows(there, u)
  <2> HIDE DEF drawn, from, then
  <2>1. CASE u \in drawn
    BY <1>4, <2>1
  <2>2. ASSUME NEW t \in drawn, u = SetActiveControl(t, then.do)
        PROVE  Follows(there, u)
    <3>1. Fits(t)
      BY <1>4
    <3>2. UiOK(t)
      BY <3>1 DEF Follows
    <3>3. Follows(t, u)
      BY <2>2, <3>1, <3>2, ActivateFollows
    <3> QED BY <3>1, <3>3, FollowsTwice
  <2>3. ASSUME NEW t \in drawn, Handlers(t) = "library",
               u = LibraryOnDialogClosed(t, then.id, then.value)
        PROVE  Follows(there, u)
    <3>1. Fits(t)
      BY <1>4
    <3>2. UiOK(t)
      BY <3>1 DEF Follows
    <3>3. Shown(t).handlers = "library"
      BY <2>3, <3>2, HandlersOf DEF UiOK
    <3>4. Stays(t, u)
      BY <2>3, <3>2, <3>3, DialogClosedStays DEF Apart
    <3> QED BY <3>1, <3>4, StaysFollows, FollowsTwice
  <2> QED BY <1>5, <2>1, <2>2, <2>3
<1> QED BY <1>2, <1>6 DEF Follows, Stays

-----------------------------------------------------------------------------
(* Events.                                                                 *)

\* The part that the last switch and the encoder choose.
LEMMA PartChosen ==
    ASSUME NEW s, UiOK(s), NEW value \in Int
    PROVE  Stays(s, [s EXCEPT !.state["UI_ACTIVE_PART"] =
                                  ClipTo(Int8(@ + value), 0, kNumParts - 1)])
<1>1. s.state \in [Choosers -> Nat] /\ "UI_ACTIVE_PART" \in Choosers
  BY DEF UiOK, BaseOK, ChoicesOK, Choosers
<1>2. PICK x \in Int : x = s.state["UI_ACTIVE_PART"] + value
  BY <1>1
<1>3. PICK n \in 0..5 : n = ClipTo(Int8(x), 0, kNumParts - 1)
  BY DEF ClipTo, Int8, S8, kNumParts
<1>4. n < Numbers["UI_ACTIVE_PART"]
  BY DEF Numbers, Choosers
<1>5. PICK state : state = [s.state EXCEPT !["UI_ACTIVE_PART"] = n]
  OBVIOUS
<1>6. state \in [Choosers -> Nat] /\ \A c \in Choosers : state[c] < Numbers[c]
  BY <1>1, <1>4, <1>5 DEF UiOK, BaseOK, ChoicesOK
<1>7. PICK t : t = [s EXCEPT !.state = state]
  OBVIOUS
<1>8. DOMAIN s = UiFields
  BY DEF UiOK, BaseOK
<1>9. t = [s EXCEPT !.state["UI_ACTIVE_PART"] = ClipTo(Int8(@ + value), 0, kNumParts - 1)]
  BY <1>2, <1>3, <1>5, <1>7, <1>8 DEF UiFields
<1>10. /\ DOMAIN t = UiFields /\ t.opening = s.opening /\ t.flush = s.flush
       /\ t.page = s.page /\ t.home = s.home /\ t.recent = s.recent /\ t.dialog = s.dialog
       /\ t.unsaved = s.unsaved /\ t.state = state /\ t.knob = s.knob /\ t.knobs = s.knobs
       /\ t.control = s.control /\ t.edit = s.edit /\ t.lib = s.lib
  BY <1>7, <1>8 DEF UiFields
<1>11. WhereOK(t) /\ ControlOK(t) /\ KnobsOK(t) /\ LibOK(t.lib) /\ t.flush \in BOOLEAN
  <2>1. WhereOK(t)
    BY <1>10 DEF UiOK, BaseOK, WhereOK
  <2>2. ControlOK(t)
    BY <1>10 DEF UiOK, ControlOK, Shown
  <2> QED BY <1>10, <2>1, <2>2 DEF UiOK, BaseOK, KnobsOK
<1>12. ChoicesOK(t)
  BY <1>6, <1>10 DEF ChoicesOK
<1> QED BY <1>9, <1>10, <1>11, <1>12 DEF Stays, UiOK, BaseOK

\* A key that is not taken leads to another page, once the settings are saved.
LEMMA PageOfKeyFollows ==
    ASSUME NEW s, UiOK(s), s.unsaved = FALSE, NEW key \in 0..7
    PROVE  Follows(s, PageOfKey(s, key))
<1>1. Shown(s).next_page \in PageNumbers /\ s.recent[key + 1] \in PageNumbers
  <2>1. s.recent \in [1..9 -> PageNumbers] /\ key + 1 \in 1..9
    BY DEF UiOK, BaseOK, WhereOK
  <2> QED BY <2>1, PageFacts DEF UiOK
<1>2. PICK p \in PageNumbers :
        p = IF Shown(s).group = key THEN Shown(s).next_page ELSE s.recent[key + 1]
  BY <1>1
<1>3. PageOfKey(s, key) = Goto(s, p, TRUE, NoMore)
  BY <1>2 DEF PageOfKey
<1> QED BY <1>3, GoesTo

\* Whatever event is handled.
LEMMA HandledFollows ==
    ASSUME NEW s, UiOK(s), s.opening = NoPage, NEW e \in Waiting(s), NEW t \in Handled(s, e)
    PROVE  Follows(s, t)
<1>1. /\ e.type \in {"turn", "click", "switch", "pot", "note"}
      /\ e.id \in 0..15 /\ e.value \in Int
      /\ e.type = "pot" => e.id \in 0..7 /\ e.value \in 0..127
  BY DEF Waiting
<1>2. CASE e.type = "click"
  <2>1. t = OnClick(s)
    BY <1>2 DEF Handled
  <2> QED BY <2>1, ClickFollows
<1>3. CASE e.type = "turn"
  <2>1. CASE e.id = 0
    <3>1. t \in OnIncrement(s, e.value)
      BY <1>3, <2>1 DEF Handled
    <3> QED BY <1>1, <3>1, IncrementFollows
  <2>2. CASE e.id = 1
    <3>1. t = [s EXCEPT !.state["UI_ACTIVE_PART"] = ClipTo(Int8(@ + e.value), 0, kNumParts - 1)]
      BY <1>3, <2>2 DEF Handled
    <3> QED BY <1>1, <3>1, PartChosen, StaysFollows
  <2>3. CASE e.id \notin {0, 1}
    <3>1. t = s
      BY <1>3, <2>3 DEF Handled
    <3> QED BY <3>1, StaysItself
  <2> QED BY <2>1, <2>2, <2>3
<1>4. CASE e.type = "switch"
  <2>1. PICK k \in OnKey(s, e.id) : t = IF k[1] THEN k[2] ELSE PageOfKey(k[2], e.id)
    BY <1>4 DEF Handled
  <2>2. /\ Follows(s, k[2])
        /\ k[1] = TRUE \/ (k[1] = FALSE /\ e.id \in 0..7 /\ k[2].unsaved = FALSE)
    BY <1>1, <2>1, KeyFollows
  <2>3. CASE k[1] = TRUE
    BY <2>1, <2>2, <2>3
  <2>4. CASE k[1] = FALSE
    <3>1. t = PageOfKey(k[2], e.id)
      BY <2>1, <2>4
    <3>2. UiOK(k[2])
      BY <2>2 DEF Follows
    <3>3. Follows(k[2], t)
      BY <2>2, <2>4, <3>1, <3>2, PageOfKeyFollows
    <3> QED BY <2>2, <3>3, FollowsTwice
  <2> QED BY <2>2, <2>3, <2>4
<1>5. CASE e.type = "pot"
  <2>1. t \in OnPot(s, e.id, e.value)
    BY <1>5 DEF Handled
  <2> QED BY <1>1, <1>5, <2>1, PotFollows
<1>6. CASE e.type = "note"
  <2>1. t = s
    BY <1>6 DEF Handled
  <2> QED BY <2>1, StaysItself
<1> QED BY <1>1, <1>2, <1>3, <1>4, <1>5, <1>6

\* A note from MIDI that the page takes.
LEMMA NoteStays ==
    ASSUME NEW s, UiOK(s), s.opening = NoPage, TakesNote(s), NEW note \in 0..127,
           NEW t \in OnNote(s, note)
    PROVE  Stays(s, t)
<1>1. CASE Handlers(s) = "voices"
  <2>1. Shown(s).handlers = "voices"
    BY <1>1, HandlersOf DEF UiOK
  <2>2. t \in VoicesOnNote(s, note) /\ s.control \in {2, 3}
    BY <1>1 DEF OnNote, TakesNote
  <2> QED BY <2>1, <2>2, VoicesNoteStays
<1>2. CASE Handlers(s) # "voices"
  <2>1. t = SequenceOnNote(s)
    BY <1>2 DEF OnNote
  <2> QED BY <2>1, SequenceNoteStays
<1> QED BY <1>1, <1>2

-----------------------------------------------------------------------------
(* The queue.                                                              *)

\* Whatever the queue does when it is full, it holds only events that were made.
LEMMA AddFits ==
    ASSUME NEW S, NEW q \in Seq(S), NEW e \in S, session.room \in Nat \ {0},
           NEW r \in AddEvent(q, e)
    PROVE  r \in Seq(S)
<1>1. CASE Len(q) < session.room
  BY <1>1 DEF AddEvent
<1>2. CASE ~(Len(q) < session.room)
  <2>1. q # <<>>
    BY <1>2
  <2>2. Tail(q) \in Seq(S)
    BY <2>1
  <2>3. Append(Tail(q), e) \in Seq(S) /\ <<>> \in Seq(S)
    BY <2>2
  <2> QED BY <1>2, <2>3 DEF AddEvent
<1> QED BY <1>1, <1>2

\* Sequences over a larger set.
LEMMA WaitsToo ==
    ASSUME NEW S, NEW T, S \subseteq T, NEW q \in Seq(S)
    PROVE  q \in Seq(T)
<1>1. q \in [1..Len(q) -> T] /\ Len(q) \in Nat
  OBVIOUS
<1> QED BY <1>1

\* An event that is made is one that may wait.
LEMMA MadeFits ==
    ASSUME UiOK(ui), NEW type \in {"turn", "click", "switch", "pot", "note"},
           NEW id \in 0..15, NEW value \in Int,
           type = "pot" => id \in 0..7 /\ value \in 0..127
    PROVE  [type |-> type, id |-> id, value |-> value, seen |-> Seen] \in Waiting(ui)
<1>1. Seen \in SeenBy(ui)
  BY DEF Seen, SeenBy
<1> QED BY <1>1 DEF Waiting

\* An event is added.
LEMMA PostFits ==
    ASSUME PanelInv, NEW type \in {"turn", "click", "switch", "pot", "note"},
           NEW id \in 0..15, NEW value \in Int,
           type = "pot" => id \in 0..7 /\ value \in 0..127, Post(type, id, value)
    PROVE  queue' \in Seq(Waiting(ui))
<1>1. PICK e : e = [type |-> type, id |-> id, value |-> value, seen |-> Seen]
  OBVIOUS
<1>2. e \in Waiting(ui)
  BY <1>1, MadeFits DEF PanelInv
<1>3. session.room \in Nat \ {0}
  BY PanelAssumption DEF PanelInv
<1>4. queue' \in AddEvent(queue, e)
  BY <1>1 DEF Post
<1>5. PICK S : S = Waiting(ui)
  OBVIOUS
<1>6. queue \in Seq(S)
  BY <1>5 DEF PanelInv
<1> QED BY <1>2, <1>3, <1>4, <1>5, <1>6, AddFits

\* The events that wait for the page are the same.
LEMMA StaysWaiting ==
    ASSUME NEW s, NEW t, t.page = s.page, t.dialog.id = s.dialog.id, t.opening = s.opening
    PROVE  Waiting(t) = Waiting(s)
<1>1. SeenBy(t) = SeenBy(s)
  BY DEF SeenBy, Here
<1> QED BY <1>1 DEF Waiting

\* The request to flush is forgotten.
LEMMA UnflushedFits ==
    ASSUME NEW s, UiOK(s)
    PROVE  /\ UiOK(Unflushed(s)) /\ Unflushed(s).flush = FALSE
           /\ Waiting(Unflushed(s)) = Waiting(s)
<1>1. PICK t : t = Unflushed(s)
  OBVIOUS
<1>2. DOMAIN s = UiFields
  BY DEF UiOK, BaseOK
<1>3. /\ DOMAIN t = UiFields /\ t.opening = s.opening /\ t.flush = FALSE
      /\ t.page = s.page /\ t.home = s.home /\ t.recent = s.recent /\ t.dialog = s.dialog
      /\ t.unsaved = s.unsaved /\ t.state = s.state /\ t.knob = s.knob /\ t.knobs = s.knobs
      /\ t.control = s.control /\ t.edit = s.edit /\ t.lib = s.lib
  BY <1>1, <1>2 DEF Unflushed, UiFields
<1>4. UiOK(t)
  <2>1. WhereOK(t)
    BY <1>3 DEF UiOK, BaseOK, WhereOK
  <2>2. ControlOK(t)
    BY <1>3 DEF UiOK, ControlOK, Shown
  <2>3. ChoicesOK(t) /\ KnobsOK(t) /\ LibOK(t.lib)
    BY <1>3 DEF UiOK, BaseOK, ChoicesOK, KnobsOK
  <2> QED BY <1>3, <2>1, <2>2, <2>3 DEF UiOK, BaseOK
<1>5. Waiting(t) = Waiting(s)
  BY <1>3, StaysWaiting
<1> QED BY <1>1, <1>3, <1>4, <1>5

\* What the main loop leaves when it has flushed the queue, or not.
LEMMA FlushedFits ==
    ASSUME NEW s, UiOK(s), NEW q, s.flush = TRUE \/ q \in Seq(Waiting(s))
    PROVE  Flushed(s, q) \in Seq(Waiting(Unflushed(s)))
<1>1. PICK S : S = Waiting(Unflushed(s))
  OBVIOUS
<1>2. S = Waiting(s)
  BY <1>1, UnflushedFits
<1>3. <<>> \in Seq(S)
  OBVIOUS
<1>4. s.flush \in BOOLEAN
  BY DEF UiOK, BaseOK
<1> QED BY <1>1, <1>2, <1>3, <1>4 DEF Flushed

-----------------------------------------------------------------------------
(* Every step keeps the invariant.                                         *)

\* The panel after Ui::Init.
LEMMA PanelInvInit ==
    ASSUME Init
    PROVE  PanelInv
<1>1. PICK p \in PageNumbers : p = session.page
  BY PanelAssumption DEF Init, PageNumbers, page_registry
<1>2. PICK s : s = UiInit(p, session.snap)
  OBVIOUS
<1>3. PICK o : o = [page |-> p, initialize |-> TRUE, then |-> NoMore]
  OBVIOUS
<1>4. /\ DOMAIN s = UiFields /\ s.opening = o /\ s.flush = FALSE
      /\ s.page = p /\ s.home = PAGE_FILTER /\ s.dialog = NoDialog
      /\ s.recent = [default_most_recent_page_in_group EXCEPT ![9] = 0]
      /\ s.unsaved = FALSE /\ s.knob = 0 /\ s.knobs = kDefaultKnobs
      /\ s.state = [n \in {"UI_ACTIVE_ENV_LFO", "UI_ACTIVE_MODULATION", "UI_ACTIVE_MODIFIER",
                           "UI_ACTIVE_PART"} |-> 0]
      /\ s.control = 0 /\ s.edit = "idle" /\ s.lib = LibraryInit
  BY <1>2, <1>3 DEF UiInit, UiFields
<1>5. WhereOK(s)
  <2>1. s.recent \in [1..9 -> PageNumbers]
    BY <1>4 DEF default_most_recent_page_in_group, PageNumbers
  <2>2. PAGE_FILTER \in PageNumbers
    BY DEF PAGE_FILTER, PageNumbers
  <2>3. "id" \in DOMAIN NoDialog /\ NoDialog.id = "none"
    BY DEF NoDialog
  <2>4. o.page = p /\ o.initialize = TRUE
    BY <1>3
  <2> QED BY <1>1, <1>4, <2>1, <2>2, <2>3, <2>4 DEF WhereOK
<1>6. ChoicesOK(s)
  <2>1. s.state = [n \in Choosers |-> 0]
    BY <1>4 DEF Choosers
  <2> QED BY <2>1, ChoosersNumbers DEF ChoicesOK
<1>7. KnobsOK(s)
  BY <1>4, DefaultKnobs DEF KnobsOK
<1>8. LibOK(s.lib)
  <2>1. DOMAIN LibraryInit.loaded = Places
    BY DEF LibraryInit, Places, Objects, PartNumbers
  <2>2. /\ DOMAIN LibraryInit = LibFields /\ LibraryInit.object = "program"
        /\ LibraryInit.part = 0 /\ LibraryInit.named = FALSE
    BY DEF LibraryInit, LibFields
  <2> QED BY <1>4, <2>1, <2>2 DEF LibOK, LibTyped, Objects, PartNumbers
<1>9. ControlOK(s)
  <2>1. o # NoPage
    <3>1. o.page # NoPage.page
      BY <1>3 DEF NoPage, PageNumbers
    <3> QED BY <3>1
  <2> QED BY <1>4, <2>1 DEF ControlOK
<1>10. ui = s /\ session \in Sessions /\ queue = <<>>
  BY <1>1, <1>2 DEF Init
<1>11. PICK S : S = Waiting(ui)
  OBVIOUS
<1>12. <<>> \in Seq(S)
  OBVIOUS
<1> QED BY <1>4, <1>5, <1>6, <1>7, <1>8, <1>9, <1>10, <1>11, <1>12 DEF PanelInv, UiOK, BaseOK

\* The interrupt.
LEMMA PollKeepsInv ==
    ASSUME PanelInv, Poll
    PROVE  PanelInv'
<1>1. /\ session.turns \subseteq Int /\ session.switches \subseteq 0..7
      /\ session.pots \subseteq (0..7) \X (0..127)
  BY PanelAssumption DEF PanelInv
<1>2. ui' = ui /\ session' = session
  BY DEF Poll, TurnEncoder, ClickEncoder, PressSwitch, ReleaseSwitch, MovePot
<1>3. queue' \in Seq(Waiting(ui))
  <2>1. ASSUME NEW i \in session.turns, TurnEncoder(i)
        PROVE  queue' \in Seq(Waiting(ui))
    <3>1. PICK id \in {0, 1} : id = IF 7 \in held THEN 1 ELSE 0
      OBVIOUS
    <3>2. PICK value \in Int : value = IF 0 \in held THEN 8 * i ELSE i
      BY <1>1, <2>1
    <3>3. Post("turn", id, value)
      BY <2>1, <3>1, <3>2 DEF TurnEncoder
    <3> QED BY <3>3, PostFits
  <2>2. ASSUME ClickEncoder
        PROVE  queue' \in Seq(Waiting(ui))
    <3>1. Post("click", 0, 1)
      BY <2>2 DEF ClickEncoder
    <3> QED BY <3>1, PostFits
  <2>3. ASSUME NEW i \in session.switches, PressSwitch(i)
        PROVE  queue' \in Seq(Waiting(ui))
    BY <2>3 DEF PressSwitch, PanelInv
  <2>4. ASSUME NEW i \in session.switches, ReleaseSwitch(i)
        PROVE  queue' \in Seq(Waiting(ui))
    <3>1. PICK id \in 0..15 : id = (IF 0 \in held' THEN 15 ELSE 7) - i
      BY <1>1, <2>4
    <3>2. queue' = queue \/ Post("switch", id, 1)
      BY <2>4, <3>1 DEF ReleaseSwitch
    <3>3. queue \in Seq(Waiting(ui))
      BY DEF PanelInv
    <3>4. Post("switch", id, 1) => queue' \in Seq(Waiting(ui))
      BY PostFits
    <3> QED BY <3>2, <3>3, <3>4
  <2>5. ASSUME NEW p \in session.pots, MovePot(p[1], p[2])
        PROVE  queue' \in Seq(Waiting(ui))
    <3>1. p[1] \in 0..7 /\ p[2] \in 0..127
      BY <1>1, <2>5
    <3>2. PICK id \in 0..7 : id = IF p[1] < 4 THEN 3 - p[1] ELSE p[1]
      BY <3>1
    <3>3. PICK value \in 0..127 : value = p[2]
      BY <3>1
    <3>4. Post("pot", id, value)
      BY <2>5, <3>2, <3>3 DEF MovePot
    <3>5. id \in 0..15 /\ value \in Int
      OBVIOUS
    <3> QED BY <3>4, <3>5, PostFits
  <2> QED BY <2>1, <2>2, <2>3, <2>4, <2>5 DEF Poll
<1> QED BY <1>2, <1>3 DEF PanelInv

\* An event is handled.
LEMMA HandleEventKeepsInv ==
    ASSUME PanelInv, HandleEvent
    PROVE  PanelInv'
<1> DEFINE s == [ui EXCEPT !.redraw = TRUE, !.did = NoOperation]
<1>1. Stays(ui, s)
  <2>1. PICK t : t = [ui EXCEPT !["redraw"] = TRUE]
    OBVIOUS
  <2>2. Stays(ui, t)
    BY <2>1, OtherChanges DEF PanelInv
  <2>3. Stays(t, [t EXCEPT !["did"] = NoOperation])
    BY <2>2, OtherChanges DEF Stays
  <2>4. s = [t EXCEPT !["did"] = NoOperation]
    BY <2>1 DEF PanelInv, UiOK, BaseOK, UiFields
  <2> QED BY <2>2, <2>3, <2>4, StaysTwice
<1>2. PICK t \in Handled(s, Head(queue)) : ui' = Unflushed(t) /\ queue' = Flushed(t, Tail(queue))
  BY DEF HandleEvent
<1> HIDE DEF s
<1>3. UiOK(s) /\ s.opening = NoPage /\ Waiting(s) = Waiting(ui)
  BY <1>1, StaysWaiting DEF Stays, HandleEvent
<1>4. PICK S : S = Waiting(s)
  OBVIOUS
<1>5. Head(queue) \in S /\ Tail(queue) \in Seq(S)
  BY <1>3, <1>4 DEF PanelInv, HandleEvent
<1>6. Follows(s, t)
  BY <1>2, <1>3, <1>4, <1>5, HandledFollows
<1>7. UiOK(t) /\ (t.flush = TRUE \/ Tail(queue) \in Seq(Waiting(t)))
  BY <1>4, <1>5, <1>6, StaysWaiting DEF Follows, Stays
<1>8. queue' \in Seq(Waiting(ui')) /\ UiOK(ui') /\ ui'.flush = FALSE
  BY <1>2, <1>7, FlushedFits, UnflushedFits
<1>9. session' = session
  BY DEF HandleEvent
<1> QED BY <1>8, <1>9 DEF PanelInv

\* The page that was asked for is opened.
LEMMA OpenPageKeepsInv ==
    ASSUME PanelInv, OpenPage
    PROVE  PanelInv'
<1>1. PICK t \in Opened(ui) : ui' = Unflushed(t) /\ queue' = Flushed(t, queue)
  BY DEF OpenPage
<1>2. UiOK(ui) /\ ui.opening # NoPage
  BY DEF PanelInv, OpenPage
<1>3. UiOK(t) /\ (t.flush = TRUE \/ t.opening = NoPage)
  BY <1>1, <1>2, OpenedFollows
<1>4. t.opening = NoPage => Waiting(ui) \subseteq Waiting(t)
  BY <1>2 DEF Waiting, SeenBy
<1>5. PICK S : S = Waiting(ui)
  OBVIOUS
<1>6. PICK T : T = Waiting(t)
  OBVIOUS
<1>7. t.flush = TRUE \/ queue \in Seq(T)
  BY <1>3, <1>4, <1>5, <1>6, WaitsToo DEF PanelInv
<1>8. queue' \in Seq(Waiting(ui')) /\ UiOK(ui') /\ ui'.flush = FALSE
  BY <1>1, <1>3, <1>6, <1>7, FlushedFits, UnflushedFits
<1>9. session' = session
  BY DEF OpenPage
<1> QED BY <1>8, <1>9 DEF PanelInv

\* A step of the main loop that leaves the player where he is.
LEMMA StayKeepsInv ==
    ASSUME PanelInv, Stays(ui, ui'), session' = session, queue' \in Seq(Waiting(ui))
    PROVE  PanelInv'
<1>1. Waiting(ui') = Waiting(ui) /\ UiOK(ui') /\ ui'.flush = FALSE
  BY StaysWaiting DEF Stays, PanelInv
<1> QED BY <1>1 DEF PanelInv

\* The page is drawn, and idles.
LEMMA DrawKeepsInv ==
    ASSUME PanelInv, Draw
    PROVE  PanelInv'
<1>1. PICK x : x = IF ui.redraw THEN ui ELSE OnIdle(ui)
  OBVIOUS
<1>2. PICK t : t = UpdateScreen(x)
  OBVIOUS
<1>3. UiOK(ui)
  BY DEF PanelInv
<1>4. Stays(ui, x)
  BY <1>1, <1>3, IdleStays, StaysItself
<1>5. Stays(x, t)
  BY <1>2, <1>4, ScreenStays DEF Stays
<1>6. PICK u : u = [t EXCEPT !["redraw"] = FALSE]
  OBVIOUS
<1>7. Stays(t, u) /\ UiOK(u)
  <2>1. UiOK(t)
    BY <1>5 DEF Stays
  <2>2. Stays(t, u)
    BY <1>6, <2>1, OtherChanges
  <2> QED BY <2>2 DEF Stays
<1>8. PICK v : v = [u EXCEPT !["did"] = NoOperation]
  OBVIOUS
<1>9. Stays(u, v)
  BY <1>7, <1>8, OtherChanges
<1>10. DOMAIN t = UiFields
  BY <1>5 DEF Stays, UiOK, BaseOK
<1>11. v = [t EXCEPT !.redraw = FALSE, !.did = NoOperation]
  BY <1>6, <1>8, <1>10 DEF UiFields
<1>12. ui' = v /\ session' = session /\ queue' = queue
  BY <1>1, <1>2, <1>11 DEF Draw
<1>13. Stays(ui, v)
  BY <1>4, <1>5, <1>7, <1>9, StaysTwice
<1>14. queue' \in Seq(Waiting(ui))
  BY <1>12 DEF PanelInv
<1> QED BY <1>12, <1>13, <1>14, StayKeepsInv

\* Notes and program changes from MIDI.
LEMMA MidiKeepsInv ==
    ASSUME PanelInv,
           \/ \E n \in session.notes : NoteArrives(n)
           \/ \E c \in session.changes : ProgramChangeArrives(c)
    PROVE  PanelInv'
<1>1. /\ session.notes \subseteq 0..127
      /\ \A c \in session.changes : c.parts \in Seq(0..(kNumParts - 1))
      /\ UiOK(ui)
  BY PanelAssumption DEF PanelInv
<1>2. ASSUME NEW n \in session.notes, NoteArrives(n)
      PROVE  PanelInv'
  <2>1. /\ TakesNote(ui) /\ ui.opening = NoPage /\ ui' \in OnNote(ui, n)
        /\ Post("note", 0, 0) /\ session' = session
    BY <1>2 DEF NoteArrives, Free
  <2>2. n \in 0..127
    BY <1>1
  <2>3. Stays(ui, ui')
    BY <1>1, <2>1, <2>2, NoteStays
  <2>4. queue' \in Seq(Waiting(ui))
    BY <2>1, PostFits
  <2> QED BY <2>1, <2>3, <2>4, StayKeepsInv
<1>3. ASSUME NEW c \in session.changes, ProgramChangeArrives(c)
      PROVE  PanelInv'
  <2>1. /\ ui' \in ProgramChange(ui, c.parts, c.bank, c.place)
        /\ session' = session /\ queue' = queue
    BY <1>3 DEF ProgramChangeArrives
  <2>2. PICK parts \in Seq(PartNumbers) : parts = c.parts
    <3>1. 0..(kNumParts - 1) = PartNumbers
      BY DEF kNumParts, PartNumbers
    <3> QED BY <1>1, <3>1
  <2>3. Stays(ui, ui')
    BY <1>1, <2>1, <2>2, ProgramChangeStays
  <2>4. queue' \in Seq(Waiting(ui))
    BY <2>1 DEF PanelInv
  <2> QED BY <2>1, <2>3, <2>4, StayKeepsInv
<1> QED BY <1>2, <1>3

\* The invariant of the panel holds, for any sessions, lengths of the sequences and sizes of
\* the card and of the queue.
THEOREM PanelKeepsInv == Spec => []PanelInv
<1>1. Init => PanelInv
  BY PanelInvInit
<1>2. PanelInv /\ [Next]_vars => PanelInv'
  <2> SUFFICES ASSUME PanelInv, [Next]_vars
               PROVE  PanelInv'
    OBVIOUS
  <2>1. CASE Next
    BY <2>1, PollKeepsInv, HandleEventKeepsInv, OpenPageKeepsInv, DrawKeepsInv, MidiKeepsInv
       DEF Next
  <2>2. CASE UNCHANGED vars
    BY <2>2 DEF vars, PanelInv
  <2> QED BY <2>1, <2>2
<1> QED BY <1>1, <1>2, PTL DEF Spec

-----------------------------------------------------------------------------
(* The properties.                                                         *)

\* An event that waits was made for the page or the dialog box that is shown, or while it was
\* being opened: ShowPage and ShowDialogBox leave none that was made before.
THEOREM EventsReachTheirPage == Spec => []EventsMeetTheirPage
<1>1. PanelInv => EventsMeetTheirPage
  <2> SUFFICES ASSUME PanelInv, ui.opening = NoPage, NEW i \in DOMAIN queue
               PROVE  queue[i].seen \in {Here(ui), <<"opening">>}
    BY DEF EventsMeetTheirPage
  <2>1. PICK S : S = Waiting(ui)
    OBVIOUS
  <2>2. queue[i] \in S
    BY <2>1 DEF PanelInv
  <2> QED BY <2>1, <2>2 DEF Waiting, SeenBy
<1> QED BY <1>1, PanelKeepsInv, PTL

\* A control edits an instance that exists, of a parameter that exists, in a part that exists,
\* whatever the knobs are assigned to and whatever is chosen; where nothing can be edited, the
\* encoder does not edit.
THEOREM EditsExist == Spec => []EditsExistingInstances
<1>1. PanelInv => EditsExistingInstances
  <2> SUFFICES ASSUME PanelInv, Edits(ui)
               PROVE  EditsExistingInstances
    BY DEF EditsExistingInstances
  <2>1. UiOK(ui) /\ BaseOK(ui)
    BY DEF PanelInv, UiOK
  <2>2. Shown(ui).handlers \in {"parameters", "performance", "voices"}
    BY <2>1, HandlersOf DEF Edits
  <2>3. ASSUME NEW c \in 0..7, parameter_index(ui, c) # kNoParameter
        PROVE  LET p == parameter(parameter_index(ui, c))
               IN /\ instance_index(ui, c) < p.num_instances
                  /\ part_index(ui, c) \in 0..(kNumParts - 1)
                  /\ IsKnob(Shown(ui).data[c + 1]) => p.level \in {"patch", "part"}
    <3>1. PartNumbers = 0..(kNumParts - 1)
      BY DEF PartNumbers, kNumParts
    <3> QED BY <2>1, <2>2, <2>3, <3>1, ControlEdits
  <2>4. ASSUME ui.edit # "idle"
        PROVE  ui.control \in 0..7 /\ parameter_index(ui, ui.control) # kNoParameter
    <3>1. ui.control \in 0..7 /\ Shown(ui).data[ui.control + 1] # 255
      <4>1. CASE Shown(ui).handlers \in {"parameters", "performance"}
        BY <2>1, <2>4, <4>1 DEF UiOK, ControlOK
      <4>2. CASE Shown(ui).handlers = "voices"
        <5>1. ui.control \in 0..3
          BY <2>1, <2>4, <4>2 DEF UiOK, ControlOK
        <5> QED BY <2>1, <4>2, <5>1, VoicesPage
      <4> QED BY <2>2, <4>1, <4>2
    <3> QED BY <2>1, <2>2, <3>1, ControlIndex
  <2> QED BY <2>3, <2>4 DEF EditsExistingInstances
<1> QED BY <1>1, PanelKeepsInv, PTL

\* The settings are left only when they have been saved.
THEOREM SettingsSaved == Spec => []SettingsAreSaved
<1>1. PanelInv => SettingsAreSaved
  BY DEF PanelInv, UiOK, BaseOK, WhereOK, SettingsAreSaved
<1> QED BY <1>1, PanelKeepsInv, PTL

\* The place the library shows is the one loaded, after any saves, loads, program changes and
\* changes of the active part.
THEOREM BrowserIsTrue == Spec => []BrowserShowsWhatIsLoaded
<1>1. PanelInv => BrowserShowsWhatIsLoaded
  BY DEF PanelInv, UiOK, BaseOK, LibOK, BrowserShowsWhatIsLoaded
<1> QED BY <1>1, PanelKeepsInv, PTL

=============================================================================
