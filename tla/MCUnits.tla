------------------------------- MODULE MCUnits -------------------------------
(***************************************************************************)
(* Small units of the controller side by side, for TLC: the allocators,    *)
(* the arpeggiator, the internal clock, the LFOs of a part and the counter *)
(* of their updates, and the versions of a program.                        *)
(* Each behaviour runs one of them; the others rest in one initial state.  *)
(***************************************************************************)
EXTENDS Allocators, Arpeggiator, MultiClock, PartLfos, VersionHistory, TLC

VARIABLE unit       \* which of them runs

\* One note more than the largest pool holds, next to notes 0 and 127 whose bytes the pool also
\* uses as marks; one key more than the stack holds.
MCNotes == {0, 1, 2, 3, 127}
\* A tempo with swing whose durations differ in both bytes, with halves of 0 and 7 between
\* them, and the clock of another unit.
MCTables == [swing |-> (0 :> 4 @@ 1 :> 3), external |-> (0 :> 5 @@ 1 :> 5)]
\* Increments of the source's table, for cycles of three clock ticks; two free LFOs.
MCRates ==
    [i \in 0..2 |->
        IF i = 1 THEN [synced |-> TRUE, length |-> 3, increment |-> 21845, mode |-> "slave"]
        ELSE [synced |-> FALSE, length |-> 96, increment |-> 16384, mode |-> "master"]]

lfosvars == <<lfovars, refreshvars>>
restvars == <<unit, avars, arpvars, historyvars>>
allvars  == <<restvars, clockvars, lfosvars>>

UnitsInit ==
    /\ unit \in {"allocators", "arpeggiator", "clock", "lfos", "refresh", "versions"}
    /\ AInit /\ (unit # "allocators" => mono)
    /\ ArpInit /\ (unit # "arpeggiator" => direction = "up" /\ octaves = 1)
    /\ ClockInit /\ (unit # "clock" => tempo = "external")
    /\ LfoInit
    /\ RefreshInit /\ (unit # "refresh" => build.lowLoad /\ build.lowStore /\ build.reload)
    /\ HistoryInit /\ (unit # "versions" => card /\ store = Booted(CHOOSE c \in Contents : TRUE))

AllocatorsRun ==
    /\ unit = "allocators" /\ ANext
    /\ UNCHANGED <<unit, arpvars, historyvars, clockvars, lfosvars>>
ArpeggiatorRuns ==
    /\ unit = "arpeggiator" /\ ArpNext
    /\ UNCHANGED <<unit, avars, historyvars, clockvars, lfosvars>>
ClockRuns   == unit = "clock" /\ ClockNext /\ UNCHANGED <<restvars, lfosvars>>
LfosRun     == unit = "lfos" /\ LfoNext /\ UNCHANGED <<restvars, clockvars, refreshvars>>
RefreshRuns == unit = "refresh" /\ RefreshNext /\ UNCHANGED <<restvars, clockvars, lfovars>>
VersionsRun ==
    /\ unit = "versions" /\ HistoryNext
    /\ UNCHANGED <<unit, avars, arpvars, clockvars, lfosvars>>

UnitsNext ==
    \/ AllocatorsRun \/ ArpeggiatorRuns \/ ClockRuns \/ LfosRun
    \/ RefreshRuns \/ VersionsRun

\* The fairness of ArpFairSpec and of ClockSpec, where that unit runs.
UnitsSpec ==
    /\ UnitsInit /\ [][UnitsNext]_allvars
    /\ WF_arpvars(unit = "arpeggiator" /\ StepArpeggio)
    /\ WF_clockvars(unit = "clock" /\ Tick)
    /\ WF_clockvars(unit = "clock" /\ Work)
=============================================================================
