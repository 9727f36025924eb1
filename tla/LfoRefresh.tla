------------------------------ MODULE LfoRefresh ------------------------------
(***************************************************************************)
(* The rate of the LFOs (src/controller/multi.{h,cc}): the timer interrupt *)
(* counts in lfo_refresh_counter_, and the main loop takes kControlRate    *)
(* from it for each update.  The counter has two bytes, it is not          *)
(* volatile, and the interrupt stays enabled: which byte is loaded or      *)
(* stored first, and whether the subtraction loads the counter again, is   *)
(* up to the compiler.                                                     *)
(*                                                                         *)
(* A definition whose name has an underscore is a faulty variant of the    *)
(* one that follows it: the properties are tested against these faults.    *)
(***************************************************************************)
EXTENDS Integers

CONSTANTS
    kControlRate,       \* timer ticks for each update (40)
    RefreshByteSize,    \* the values of one byte of lfo_refresh_counter_ (256)
    MaxPassTicks        \* bound: timer ticks between two ends of the loop

ASSUME RefreshAssumption ==
    kControlRate \in Nat \ {0} /\ RefreshByteSize \in Nat \ {0} /\ MaxPassTicks \in Nat

VARIABLES
    build,      \* what the compiler has chosen: lowLoad, lowStore, reload
    refresh,    \* lfo_refresh_counter_
    cycle,      \* lfo_refresh_cycle_ & 1
    at,         \* where the main loop is
    copy,       \* the registers: a byte of the counter, then all of it
    hit,        \* the interrupt has come since the loop began to load
    begin,      \* history: the counter at the last end of the loop
    ticks,      \* history: the timer ticks since
    updates     \* history: the updates since

refreshvars == <<build, refresh, cycle, at, copy, hit, begin, ticks, updates>>

WordSize == RefreshByteSize * RefreshByteSize
LowByte(x)  == x % RefreshByteSize
HighByte(x) == x \div RefreshByteSize
Of(high, low) == (RefreshByteSize * high) + low

RefreshInit ==
    /\ build \in [lowLoad : BOOLEAN, lowStore : BOOLEAN, reload : BOOLEAN]
    /\ refresh = 0 /\ cycle = 0 /\ at = "rest" /\ copy = 0 /\ hit = FALSE
    /\ begin = 0 /\ ticks = 0 /\ updates = 0

\* Multi::Tick, in the interrupt.  It comes at most once while the loop goes from its load
\* to its store: that is a few instructions.
CountTick ==
    /\ ticks < MaxPassTicks
    /\ at \in {"rest", "compare"} \/ ~hit
    /\ refresh' = (refresh + 1) % WordSize
    /\ hit' = TRUE /\ ticks' = ticks + 1
    /\ UNCHANGED <<build, cycle, at, copy, begin, updates>>

\* Multi::UpdateClocks: the main loop comes round to it.
BeginLoop ==
    /\ at = "rest" /\ at' = "compare"
    /\ UNCHANGED <<build, refresh, cycle, copy, hit, begin, ticks, updates>>

\* One byte of the counter, then the other; for the comparison or for the subtraction.
LoadByte ==
    /\ at \in {"compare", "subtract"}
    /\ copy' = IF build.lowLoad THEN LowByte(refresh) ELSE HighByte(refresh)
    /\ at' = IF at = "compare" THEN "comparing" ELSE "subtracting"
    /\ hit' = (at = "subtract" /\ hit)
    /\ UNCHANGED <<build, refresh, cycle, begin, ticks, updates>>

LoadRest ==
    /\ at \in {"comparing", "subtracting"}
    /\ copy' = IF build.lowLoad THEN Of(HighByte(refresh), copy) ELSE Of(copy, LowByte(refresh))
    /\ at' = IF at = "comparing" THEN "test" ELSE "store"
    /\ UNCHANGED <<build, refresh, cycle, hit, begin, ticks, updates>>

Test ==
    /\ at = "test"
    /\ IF copy >= kControlRate
       THEN /\ at' = IF build.reload THEN "subtract" ELSE "store"
            /\ cycle' = 1 - cycle
            /\ UNCHANGED <<begin, ticks, updates>>
       ELSE /\ at' = "rest" /\ begin' = refresh /\ ticks' = 0 /\ updates' = 0
            /\ UNCHANGED cycle
    /\ UNCHANGED <<build, refresh, copy, hit>>

\* Fault: the counter starts again from zero.
Taken_All(x) == 0

Taken(x) == (x + WordSize - kControlRate) % WordSize

StoreByte ==
    /\ at = "store" /\ at' = "storing"
    /\ refresh' = IF build.lowStore THEN Of(HighByte(refresh), LowByte(Taken(copy)))
                  ELSE Of(HighByte(Taken(copy)), LowByte(refresh))
    /\ UNCHANGED <<build, cycle, copy, hit, begin, ticks, updates>>

\* The other byte is stored, and the LFOs of the parts are updated.
StoreRest ==
    /\ at = "storing" /\ at' = "compare"
    /\ refresh' = IF build.lowStore THEN Of(HighByte(Taken(copy)), LowByte(refresh))
                  ELSE Of(HighByte(refresh), LowByte(Taken(copy)))
    /\ updates' = updates + 1
    /\ UNCHANGED <<build, cycle, copy, hit, begin, ticks>>

RefreshNext ==
    \/ CountTick \/ BeginLoop \/ LoadByte \/ LoadRest
    \/ Test \/ StoreByte \/ StoreRest

RefreshSpec == RefreshInit /\ [][RefreshNext]_refreshvars

-----------------------------------------------------------------------------
\* "Incremented at 39kHz / 40" (multi.h, lfo_refresh_cycle_): each update stands for
\* kControlRate ticks of the timer, and loses at most the one tick that comes between its load
\* and its store, whatever the compiler has chosen, as long as the counter stays in one byte.
RefreshKeepsRate ==
    at = "compare" /\ begin + ticks < RefreshByteSize
    => (begin + ticks) - (kControlRate * updates) - refresh \in 0..updates
=============================================================================
