------------------------------- MODULE Budget -------------------------------
(***************************************************************************)
(* The memory planner: what the machine can hold besides what is already   *)
(* spoken for (memory_budget.cpp) and how much context that leaves for     *)
(* serving (kv_budget.cpp).  Memory is counted in MiB, a context in        *)
(* tokens.  size_t never goes below 0: every subtraction is guarded.       *)
(***************************************************************************)
EXTENDS Naturals

BaseReserve == 2048
KvKiBPerToken == 20

AtLeastZero(a, b) == IF a > b THEN a - b ELSE 0

\* What is left of the available memory for anonymous allocations.
Usable(avail) == AtLeastZero(AtLeastZero(avail, (avail * 12) \div 100), BaseReserve)

\* clamp_cache_cap: the cache gets what was asked for or what is left.
CacheHeadroom(avail, fixed) == AtLeastZero(Usable(avail), fixed)
ClampCacheCap(asked, avail, fixed) ==
    LET head == CacheHeadroom(avail, fixed) IN IF asked < head THEN asked ELSE head

\* classify: model size over available memory.
Regime(model, avail) ==
    IF avail = 0 THEN 4
    ELSE IF model < avail THEN 0
    ELSE IF 2 * model < 3 * avail THEN 1
    ELSE IF model < 4 * avail THEN 2
    ELSE IF model < 8 * avail THEN 3
    ELSE 4

\* A resident model is memory the contexts cannot have.
AnonHeadroom(avail, fixed, model) ==
    AtLeastZero(Usable(avail),
                fixed + 512 + IF Regime(model, avail) = 0 THEN model ELSE 0)

KvFits(ctx, headroom) == ctx * KvKiBPerToken <= headroom * 1024
=============================================================================
