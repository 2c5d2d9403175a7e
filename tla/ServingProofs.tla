--------------------------- MODULE ServingProofs ---------------------------
(***************************************************************************)
(* What holds of every deployment: of the memory plan of the boot, of the  *)
(* tenants and the policy of the gateway, of the fitting of a request into *)
(* its lane and of the two rate limits.                                    *)
(***************************************************************************)
EXTENDS Serving, TLAPS, FiniteSetTheorems, WellFoundedInduction

-----------------------------------------------------------------------------
(* The wizard, the file and the boot.                                      *)

Numbers(knobs) == \A k \in Numeric : k \in DOMAIN knobs => IsNum(knobs[k])

SetupType ==
    /\ DOMAIN setup = {"at", "box", "lanes", "perLane"}
    /\ setup.box \in Sites /\ setup.lanes \in Int /\ setup.perLane \in Int
    /\ Numbers(file)

BootType ==
    /\ Numbers(env)
    /\ DOMAIN rt = DOMAIN NoEngine
    /\ rt.cap \in Int /\ rt.seen \in Int /\ rt.lane \in Int /\ rt.rpm \in Int

PlanType == SetupType /\ BootType

\* Numbers stay numbers when one set of knobs is laid over another.
LEMMA OverNumbers ==
    ASSUME NEW f, NEW g, Numbers(f), Numbers(g)
    PROVE  Numbers(Over(f, g))
BY DEF Numbers, Over

\* What the wizard suggests for a numeric item is a number or nothing.
LEMMA SuggestedNumbers ==
    ASSUME SetupType, NEW k \in Numeric
    PROVE  /\ k \in DOMAIN Suggestions
           /\ Suggestions[k] = Blank \/ IsNum(Suggestions[k])
<1>1. PlannedCtx \in Int /\ setup.lanes \in Int
  BY DEF SetupType, PlannedCtx
<1>2. \A n \in Int : IsNum(Num(n))
  BY DEF IsNum, Num
<1>3. Suggestions["mtp"] \in {Num(8), Num(0)}
  BY DEF Suggestions
<1> QED
  BY <1>1, <1>2, <1>3 DEF Suggestions, Numeric

\* Every numeric item in server.json is a number.
LEMMA WrittenNumbers ==
    ASSUME SetupType
    PROVE  Numbers(Written(Over(setup.box.answers, Suggestions)))
<1> DEFINE items == Over(setup.box.answers, Suggestions)
           api   == items["api_mode"] = Flag(TRUE)
           kept  == {k \in DOMAIN items :
                       /\ items[k] # Blank
                       /\ k = "cache_gib" => items[k].num > 0
                       /\ k \in {"session_max_per_user", "api_rpm"} => api
                       /\ k = "api_mode" => api}
           cfg   == [k \in kept |-> items[k]]
<1>1. \A k \in Numeric : k \in DOMAIN items => items[k] = Blank \/ IsNum(items[k])
  <2>1. setup.box \in Sites
    BY DEF SetupType
  <2> QED
    BY <2>1, SiteAssumption, SuggestedNumbers DEF Over
<1> HIDE DEF items
<1>2. Numbers(cfg)
  BY <1>1 DEF Numbers
<1>3. Numbers([session_max |-> Num(2)])
  BY DEF Numbers, IsNum, Num
<1> HIDE DEF cfg
<1>4. Numbers(Over([session_max |-> Num(2)], cfg))
  BY <1>2, <1>3, OverNumbers
<1>5. Written(items) = cfg \/ Written(items) = Over([session_max |-> Num(2)], cfg)
  BY DEF Written, cfg
<1> QED
  BY <1>2, <1>4, <1>5 DEF items

\* The file's numbers become the environment's.
LEMMA ConfiguredNumbers ==
    ASSUME SetupType
    PROVE  Numbers(Configured(setup.box.env))
<1>1. Numbers(setup.box.env)
  BY SiteAssumption DEF SetupType, Numbers
<1>2. Numbers([k \in DOMAIN file |-> Injected(file[k])])
  BY DEF SetupType, Numbers, Injected, IsNum
<1> QED
  BY <1>1, <1>2, OverNumbers DEF Configured

\* A numeric knob is a number, set or not.
LEMMA KnobNumber ==
    ASSUME BootType, NEW k \in Numeric, NEW d \in Int
    PROVE  Knob(k, d) \in Int
BY DEF BootType, Numbers, IsNum, Knob

\* A step of the wizard keeps the machine and the types.
LEMMA SetupStep ==
    ASSUME SetupType, SetupNext
    PROVE  SetupType' /\ setup'.box = setup.box
<1>1. CASE Detect
  <2>1. LanesWanted(setup.box) \in Int
    BY DEF LanesWanted
  <2> QED
    BY <1>1, <2>1 DEF Detect, SetupType, Numbers
<1>2. CASE Shrink
  <2>1. Halved(setup.perLane) \in Int
    BY DEF SetupType, Halved
  <2> QED
    BY <1>2, <2>1 DEF Shrink, SetupType, Numbers
<1>3. CASE PlanDone
  BY <1>3 DEF PlanDone, SetupType, Numbers
<1>4. CASE Confirm
  BY <1>4, WrittenNumbers DEF Confirm, SetupType, Numbers
<1>5. CASE Decline
  BY <1>5 DEF Decline, SetupType, Numbers
<1> QED
  BY <1>1, <1>2, <1>3, <1>4, <1>5 DEF SetupNext

\* The end of a process changes nothing but where it is and its threads.
LEMMA LeftKeeps ==
    ASSUME NEW r, DOMAIN r = DOMAIN NoEngine
    PROVE  /\ DOMAIN Left(r) = DOMAIN NoEngine
           /\ Left(r).cap = r.cap /\ Left(r).seen = r.seen /\ Left(r).dense = r.dense
           /\ Left(r).lane = r.lane /\ Left(r).rpm = r.rpm
           /\ Left(r).at \in {"exited", "aborted"}
BY DEF Left, NoEngine

\* What is left to the cache is left by everything else.
LEMMA ClampLeavesRoom ==
    ASSUME NEW asked \in Int, NEW avail \in Nat, NEW fixed \in Nat,
           ClampCacheCap(asked, avail, fixed) > 0
    PROVE  ClampCacheCap(asked, avail, fixed) + BaseReserve + fixed
               <= avail - (avail * 12) \div 100
<1> DEFINE p == (avail * 12) \div 100
<1>1. p \in Nat
  OBVIOUS
<1> HIDE DEF p
<1>2. AtLeastZero(avail, p) \in Nat /\ (AtLeastZero(avail, p) > 0 => AtLeastZero(avail, p) = avail - p)
  BY <1>1 DEF AtLeastZero
<1> DEFINE rest == AtLeastZero(avail, p)
<1> HIDE DEF rest
<1>3. /\ Usable(avail) \in Nat
      /\ Usable(avail) > 0 => Usable(avail) = rest - BaseReserve /\ rest > BaseReserve
  BY <1>2 DEF Usable, AtLeastZero, BaseReserve, rest, p
<1>4. /\ CacheHeadroom(avail, fixed) \in Nat
      /\ CacheHeadroom(avail, fixed) > 0 =>
             CacheHeadroom(avail, fixed) = Usable(avail) - fixed /\ Usable(avail) > fixed
  BY <1>3 DEF CacheHeadroom, AtLeastZero
<1>5. /\ ClampCacheCap(asked, avail, fixed) \in Int
      /\ ClampCacheCap(asked, avail, fixed) <= CacheHeadroom(avail, fixed)
  BY <1>4 DEF ClampCacheCap
<1> QED
  BY <1>1, <1>2, <1>3, <1>4, <1>5 DEF BaseReserve, rest, p

\* What a stage of the boot does to the memory plan: only the first one
\* makes it, from a reading of its own.
PlanKept == /\ rt'.cap = rt.cap /\ rt'.dense = rt.dense /\ rt'.seen = rt.seen

\* A stage of the boot has its types, does not start from a server that
\* listens, and keeps or makes the plan.
LEMMA StageStep ==
    ASSUME PlanType, BootStep, UNCHANGED setupVars
    PROVE  /\ BootType'
           /\ ~Listening
           /\ PlanKept \/ CapLeavesRoom'
<1>1. CASE \E taken \in Drifts :
               Prepare(setup.box, setup.box.avail, AtLeastZero(setup.box.avail, taken))
  <2>1. PICK taken \in Drifts :
            Prepare(setup.box, setup.box.avail, AtLeastZero(setup.box.avail, taken))
    BY <1>1
  <2> DEFINE box == setup.box
             seen == AtLeastZero(setup.box.avail, taken)
             dense == DensePolicy(box, box.avail)
             asked == SizeT(Knob("cache_gib", 8) * 1024)
  <2>2. box.avail \in Nat /\ box.dense \in Nat /\ seen \in Nat
    BY SiteAssumption, DriftAssumption DEF PlanType, SetupType, AtLeastZero
  <2>3. Knob("cache_gib", 8) \in Int
    BY KnobNumber DEF PlanType, Numeric
  <2>4. asked \in Int
    BY <2>3, HugeAssumption DEF SizeT
  <2>6. Fixed(box, dense) \in Nat
    BY <2>2 DEF Fixed
  <2>7. Fixed(box, dense) = 640 + (IF dense = "anon" THEN box.dense ELSE 0)
    BY <2>2 DEF Fixed
  <2> DEFINE cap == ClampCacheCap(asked, seen, Fixed(box, dense))
  <2>8. cap > 0 => cap + BaseReserve + Fixed(box, dense) <= seen - (seen * 12) \div 100
    <3> HIDE DEF seen, asked, dense, box
    <3> QED
      BY <2>2, <2>4, <2>6, ClampLeavesRoom
  <2>9. cap \in Int
    <3> HIDE DEF seen, asked, dense
    <3> QED
      BY <2>2, <2>4, <2>6 DEF ClampCacheCap, CacheHeadroom, AtLeastZero, Usable, BaseReserve
  <2>10. /\ rt.at = "config" /\ UNCHANGED env
         /\ rt' = [rt EXCEPT !.at = "prepared", !.dense = dense, !.seen = seen, !.cap = cap,
                             !.threads = IF Knob("prefetch", 0) = 1 THEN {"prefetch"} ELSE {}]
    BY <2>1 DEF Prepare
  <2> HIDE DEF seen, asked, dense, cap
  <2>11. /\ DOMAIN rt' = DOMAIN NoEngine
         /\ rt'.cap = cap /\ rt'.dense = dense /\ rt'.seen = seen
         /\ rt'.lane = rt.lane /\ rt'.rpm = rt.rpm
    BY <2>10 DEF PlanType, BootType, NoEngine
  <2>12. BootType' /\ ~Listening
    BY <2>2, <2>9, <2>10, <2>11 DEF PlanType, BootType, Numbers, Listening
  <2>13. setup'.box = box
    BY DEF setupVars
  <2>14. CapLeavesRoom'
    <3> HIDE DEF box
    <3> QED
      BY <2>2, <2>6, <2>7, <2>8, <2>9, <2>11, <2>13 DEF CapLeavesRoom, BaseReserve
  <2> QED
    BY <2>12, <2>14
<1>2. CASE PrepareFails \/ LoadFails \/ ListenFails
  BY <1>2, LeftKeeps DEF PrepareFails, LoadFails, ListenFails, PlanType, BootType, Numbers,
     PlanKept, Listening
<1>3. CASE Load
  <2>1. CtxSize \in Int /\ SeqMax \in Int /\ SeqMax >= 1
    BY KnobNumber DEF PlanType, Numeric, CtxSize, SeqMax
  <2>2. CtxSeq(CtxSize, SeqMax) \in Int
    BY <2>1 DEF CtxSeq
  <2> QED
    BY <1>3, <2>1, <2>2 DEF Load, PlanType, BootType, Numbers, PlanKept, Listening, NoEngine
<1>4. CASE InitApi
  <2>1. Knob("api_rpm", 60) \in Int
    BY KnobNumber DEF PlanType, Numeric
  <2>2. Count("api_rpm", 60) \in Int
    BY <2>1 DEF Count
  <2> QED
    BY <1>4, <2>2 DEF InitApi, PlanType, BootType, Numbers, PlanKept, Listening,
     NoEngine
<1>5. CASE Listen
  BY <1>5 DEF Listen, PlanType, BootType, Numbers, PlanKept, Listening, NoEngine
<1> QED
  BY <1>1, <1>2, <1>3, <1>4, <1>5 DEF BootStep

\* The process without an engine.
LEMMA NoEngineFacts ==
    /\ NoEngine.cap = 0 /\ NoEngine.seen = 0 /\ NoEngine.lane = 0 /\ NoEngine.rpm = 0
    /\ NoEngine.at = "down"
BY DEF NoEngine

\* The steps that leave the wizard, the file and the boot alone.
Aside ==
    \/ Tick \/ Engine
    \/ \E i \in Ids : Come(i) \/ Deliver(i) \/ Gate(i)

\* They leave them alone.
LEMMA AsideKeeps ==
    ASSUME Aside \/ UNCHANGED vars
    PROVE  UNCHANGED <<setupVars, bootVars>>
<1>1. CASE Tick \/ UNCHANGED vars
  BY <1>1 DEF Tick, vars
<1>2. CASE Engine
  BY <1>2 DEF Engine
<1>3. ASSUME NEW i \in Ids, Come(i) \/ Deliver(i) \/ Gate(i)
      PROVE  UNCHANGED <<setupVars, bootVars>>
  BY <1>3 DEF Come, Deliver, Gate
<1> QED
  BY <1>1, <1>2, <1>3 DEF Aside

PlanInv == PlanType /\ CapLeavesRoom

\* The wizard starts with what the operator and the machine give it.
LEMMA PlanInit == Init => PlanInv
<1> SUFFICES ASSUME Init PROVE PlanInv
  OBVIOUS
<1>1. SetupType
  BY DEF Init, SetupInit, SetupType, Numbers
<1>2. BootType
  BY NoEngineFacts DEF Init, BootInit, BootType, Numbers
<1>3. CapLeavesRoom
  BY NoEngineFacts DEF Init, BootInit, CapLeavesRoom
<1> QED
  BY <1>1, <1>2, <1>3 DEF PlanInv, PlanType

\* Every step keeps the types and the plan.
LEMMA PlanStep == PlanInv /\ [Next]_vars => PlanInv'
<1> SUFFICES ASSUME PlanInv, [Next]_vars PROVE PlanInv'
  OBVIOUS
<1> USE DEF PlanInv, PlanType
<1>1. CASE Aside \/ UNCHANGED vars
  BY <1>1, AsideKeeps DEF setupVars, bootVars, SetupType, BootType, Numbers, CapLeavesRoom
<1>2. CASE Configure
  <2>1. SetupType' /\ setup'.box = setup.box
    BY <1>2, SetupStep DEF Configure
  <2>2. UNCHANGED bootVars
    BY <1>2 DEF Configure
  <2> QED
    BY <2>1, <2>2 DEF bootVars, BootType, Numbers, CapLeavesRoom
<1>3. CASE Start
  <2>1. /\ Numbers(Configured(setup.box.env))
        /\ env' = Configured(setup.box.env)
        /\ rt' = [NoEngine EXCEPT !.at = "config"]
        /\ UNCHANGED setupVars
    BY <1>3, ConfiguredNumbers DEF Start, Launch
  <2>2. /\ DOMAIN rt' = DOMAIN NoEngine
        /\ rt'.cap = 0 /\ rt'.seen = 0 /\ rt'.lane = 0 /\ rt'.rpm = 0
    BY <2>1 DEF NoEngine
  <2>3. BootType'
    BY <2>1, <2>2 DEF BootType, Numbers
  <2>4. CapLeavesRoom'
    BY <2>2 DEF CapLeavesRoom
  <2> QED
    BY <2>1, <2>3, <2>4 DEF setupVars, SetupType, Numbers
<1>4. CASE Boots
  <2>1. /\ UNCHANGED setupVars /\ BootType'
        /\ PlanKept \/ CapLeavesRoom'
    BY <1>4, StageStep DEF Boots
  <2> QED
    BY <2>1 DEF setupVars, SetupType, Numbers, PlanKept, CapLeavesRoom
<1>5. CASE Crash
  BY <1>5, NoEngineFacts DEF Crash, setupVars, SetupType, BootType, Numbers, CapLeavesRoom
<1> QED
  BY <1>1, <1>2, <1>3, <1>4, <1>5 DEF Next, Aside

\* Whatever the machine, the answers and the environment of the operator and
\* the memory that other processes take meanwhile, the cache cap of the boot
\* leaves the reserve, the fixed parts and the dense copies their room in the
\* memory that was seen (memory_budget.cpp:43, cne_runtime.cpp:54).
THEOREM CapFits == Spec => []CapLeavesRoom
<1>1. Spec => []PlanInv
  BY PlanInit, PlanStep, PTL DEF Spec
<1>2. PlanInv => CapLeavesRoom
  BY DEF PlanInv
<1> QED
  BY <1>1, <1>2, PTL

-----------------------------------------------------------------------------
(* Trimming: the least number of old messages that has to go.              *)

\* Every set of numbers has a least one, every bounded one a greatest.
LEMMA LeastOf ==
    ASSUME NEW S \in SUBSET Nat, S # {}
    PROVE  Min(S) \in S /\ \A y \in S : Min(S) <= y
<1> DEFINE Less == {p \in Nat \X Nat : p[1] < p[2]}
<1>1. IsWellFoundedOn(Less, Nat)
  BY NatLessThanWellFounded DEF OpToRel
<1> HIDE DEF Less
<1>2. PICK x \in S : \A y \in S : ~(<<y, x>> \in Less)
  BY <1>1, WFMin
<1>3. \A y \in S : ~(y < x)
  BY <1>2 DEF Less
<1>4. \A y \in S : x <= y
  BY <1>3
<1> QED
  BY <1>4 DEF Min

\* A bounded set of numbers has a greatest one.
LEMMA GreatestOf ==
    ASSUME NEW b \in Nat, NEW S \in SUBSET (0 .. b), S # {}
    PROVE  Max(S) \in S /\ \A y \in S : Max(S) >= y
<1> DEFINE T == {n \in Nat : b - n \in S}
<1>1. \A x \in S : x \in Int /\ b - x \in Nat /\ b - (b - x) = x
  OBVIOUS
<1>2. T \in SUBSET Nat /\ T # {}
  <2>1. PICK x \in S : TRUE
    OBVIOUS
  <2>2. b - x \in T
    BY <1>1, <2>1
  <2> QED
    BY <2>2
<1>3. Min(T) \in T /\ \A y \in T : Min(T) <= y
  BY <1>2, LeastOf
<1> DEFINE x == b - Min(T)
<1>4. x \in S
  BY <1>3
<1>5. \A y \in S : x >= y
  <2> SUFFICES ASSUME NEW y \in S PROVE x >= y
    OBVIOUS
  <2>1. b - y \in T
    BY <1>1
  <2>2. Min(T) <= b - y /\ Min(T) \in Nat /\ y \in Int
    BY <1>1, <1>3, <2>1
  <2> QED
    BY <2>2
<1> HIDE DEF x
<1> QED
  BY <1>4, <1>5 DEF Max

Messages == Seq([sys : BOOLEAN, len : Nat])

\* The messages up to n that may be dropped, and how many they are.
Old(ms, n) == {k \in 1 .. n : ~ms[k].sys}

\* There are finitely many of them.
LEMMA OldCount ==
    ASSUME NEW ms \in Messages, NEW n \in Nat
    PROVE  IsFiniteSet(Old(ms, n)) /\ Cardinality(Old(ms, n)) \in Nat
<1>1. IsFiniteSet(1 .. n) /\ Old(ms, n) \in SUBSET (1 .. n)
  BY FS_Interval DEF Old
<1> QED
  BY <1>1, FS_Subset, FS_CardinalityType

\* The count grows with the position, and strictly at such a message.
LEMMA OldGrows ==
    ASSUME NEW ms \in Messages, NEW k \in Nat, NEW n \in Nat, k < n
    PROVE  /\ Cardinality(Old(ms, k)) <= Cardinality(Old(ms, n))
           /\ ~ms[n].sys => Cardinality(Old(ms, k)) < Cardinality(Old(ms, n))
<1>1. Old(ms, k) \in SUBSET Old(ms, n) /\ n \notin Old(ms, k)
  BY DEF Old
<1>2. /\ IsFiniteSet(Old(ms, n)) /\ Cardinality(Old(ms, n)) \in Nat
      /\ IsFiniteSet(Old(ms, k)) /\ Cardinality(Old(ms, k)) \in Nat
  BY OldCount
<1>3. Cardinality(Old(ms, k)) <= Cardinality(Old(ms, n))
  BY <1>1, <1>2, FS_Subset
<1>4. ASSUME ~ms[n].sys
      PROVE  Cardinality(Old(ms, k)) < Cardinality(Old(ms, n))
  <2>1. n \in Old(ms, n)
    BY <1>4 DEF Old
  <2>2. Cardinality(Old(ms, n)) # Cardinality(Old(ms, k))
    BY <1>1, <1>2, <2>1, FS_Subset
  <2> QED
    BY <1>2, <1>3, <2>2
<1> QED
  BY <1>3, <1>4

\* What is dropped is not of the system, and every such message before it
\* is dropped too.
LEMMA DroppedFromFront ==
    ASSUME NEW ms \in Messages, NEW d \in Nat,
           NEW n \in DOMAIN ms \ Without(ms, d), NEW k \in DOMAIN ms, k < n
    PROVE  ~ms[n].sys /\ (ms[k].sys \/ k \in DOMAIN ms \ Without(ms, d))
<1>1. n \in Nat /\ k \in Nat
  BY DEF Messages
<1>2. ~ms[n].sys /\ ~(Cardinality(Old(ms, n)) > d)
  BY DEF Without, Old
<1>3. /\ Cardinality(Old(ms, k)) <= Cardinality(Old(ms, n))
      /\ Cardinality(Old(ms, k)) \in Nat /\ Cardinality(Old(ms, n)) \in Nat
  BY <1>1, OldGrows, OldCount
<1>4. ~(Cardinality(Old(ms, k)) > d)
  BY <1>2, <1>3
<1> QED
  BY <1>2, <1>4 DEF Without, Old

\* One message fewer: the newest of the dropped ones stays, if keeping one
\* more makes a difference at all.
LEMMA OneMoreKept ==
    ASSUME NEW ms \in Messages, NEW d \in Nat, d >= 1,
           NEW x \in DOMAIN ms \ Without(ms, d),
           \A y \in DOMAIN ms \ Without(ms, d) : x >= y,
           Without(ms, d - 1) # Without(ms, d)
    PROVE  Without(ms, d - 1) = Without(ms, d) \cup {x}
<1> DEFINE C(n) == Cardinality(Old(ms, n))
<1>1. \A n \in DOMAIN ms : n \in Nat /\ C(n) \in Nat
  <2>1. \A n \in DOMAIN ms : n \in Nat
    BY DEF Messages
  <2> QED
    BY <2>1, OldCount
<1>2. \A e \in Nat : Without(ms, e) = {n \in DOMAIN ms : ms[n].sys \/ C(n) > e}
  BY DEF Without, Old
<1>3. \A k, n \in DOMAIN ms : k < n => C(k) <= C(n) /\ (~ms[n].sys => C(k) < C(n))
  BY <1>1, OldGrows
<1> HIDE DEF C
<1>4. d - 1 \in Nat
  OBVIOUS
<1>5. ~ms[x].sys /\ C(x) <= d
  BY <1>1, <1>2
<1>6. Without(ms, d) \subseteq Without(ms, d - 1)
  BY <1>1, <1>2, <1>4
<1>7. PICK z \in DOMAIN ms : z \in Without(ms, d - 1) /\ z \notin Without(ms, d)
  BY <1>2, <1>4, <1>6
<1>8. ~ms[z].sys /\ C(z) = d /\ z <= x
  BY <1>1, <1>2, <1>4, <1>7
<1>9. \A n \in DOMAIN ms : ~ms[n].sys /\ C(n) = d => n = x
  <2> SUFFICES ASSUME NEW n \in DOMAIN ms, ~ms[n].sys, C(n) = d PROVE n = x
    OBVIOUS
  <2>1. n \in DOMAIN ms \ Without(ms, d)
    BY <1>1, <1>2
  <2>2. n <= x /\ n \in Nat /\ x \in Nat
    BY <1>1, <2>1
  <2>3. CASE n < x
    BY <1>1, <1>3, <1>5, <2>3
  <2> QED
    BY <2>2, <2>3
<1>10. C(x) = d
  BY <1>8, <1>9
<1> QED
  BY <1>1, <1>2, <1>4, <1>5, <1>9, <1>10

\* When what is kept fits, it is the least that had to go: the newest of
\* the dropped messages would not have fit.
LEMMA TrimmedIsLeast ==
    ASSUME NEW ms \in Messages, NEW room \in Int, Renders(ms),
           \A I \in SUBSET DOMAIN ms : Tokens(ms, I) \in Nat,
           Tokens(ms, Trimmed(ms, room)) <= room
    PROVE  \E d \in Nat :
              /\ Trimmed(ms, room) = Without(ms, d)
              /\ DOMAIN ms \ Without(ms, d) # {} =>
                    Tokens(ms, Without(ms, d) \cup {Max(DOMAIN ms \ Without(ms, d))}) > room
<1> DEFINE fits == {d \in 0 .. Len(ms) : Tokens(ms, Without(ms, d)) <= room}
           d    == IF fits = {} THEN Len(ms) ELSE Min(fits)
           gone == DOMAIN ms \ Without(ms, d)
<1>1. Len(ms) \in Nat /\ DOMAIN ms = 1 .. Len(ms)
  BY DEF Messages
<1>2. Trimmed(ms, room) = Without(ms, d)
  BY DEF Trimmed
<1>3. fits # {}
  <2>1. fits = {} => Len(ms) \in fits
    BY <1>1, <1>2
  <2> QED
    BY <2>1
<1>4. d \in fits /\ \A y \in fits : d <= y
  <2>1. fits \in SUBSET Nat
    BY <1>1
  <2> HIDE DEF fits
  <2> QED
    BY <1>3, <2>1, LeastOf
<1>5. d \in Nat /\ d <= Len(ms)
  BY <1>1, <1>4
<1> HIDE DEF d
<1>6. ASSUME gone # {}
      PROVE  Tokens(ms, Without(ms, d) \cup {Max(gone)}) > room
  <2>1. gone \in SUBSET (0 .. Len(ms))
    BY <1>1
  <2>2. Max(gone) \in gone /\ \A y \in gone : Max(gone) >= y
    <3> HIDE DEF gone
    <3> QED
      BY <1>1, <1>6, <2>1, GreatestOf
  <2> DEFINE x == Max(gone)
  <2>3. x \in Nat /\ x \in 1 .. x /\ ~ms[x].sys /\ ~(Cardinality(Old(ms, x)) > d)
    BY <1>1, <2>2 DEF Without, Old
  <2>4. Cardinality(Old(ms, x)) \in Nat /\ Cardinality(Old(ms, x)) # 0
    <3>1. x \in Old(ms, x)
      BY <2>3 DEF Old
    <3> HIDE DEF x
    <3> QED
      BY <2>3, <3>1, OldCount, FS_EmptySet
  <2>5. d >= 1 /\ d - 1 \in 0 .. Len(ms)
    BY <1>1, <1>5, <2>3, <2>4
  <2>6. d - 1 \notin fits
    BY <1>4, <1>5
  <2>7. ~(Tokens(ms, Without(ms, d - 1)) <= room)
    BY <2>5, <2>6
  <2>8. Without(ms, d - 1) # Without(ms, d)
    BY <1>4, <2>7
  <2>9. Without(ms, d - 1) = Without(ms, d) \cup {x}
    <3> HIDE DEF x
    <3> QED
      BY <1>5, <2>2, <2>5, <2>8, OneMoreKept DEF x
  <2>10. Tokens(ms, Without(ms, d - 1)) \in Nat
    BY DEF Without
  <2> QED
    BY <2>7, <2>9, <2>10
<1> QED
  BY <1>2, <1>5, <1>6

-----------------------------------------------------------------------------
(* What the engine makes of one request.                                   *)

\* Trimming leaves only messages that were there.
LEMMA TrimmedKnown ==
    ASSUME NEW m, WellFormed(m), NEW room
    PROVE  Trimmed(m.messages, room) \in SUBSET DOMAIN m.messages
BY DEF Trimmed, Without

\* The lengths that the engine compares are numbers.
LEMMA LengthsType ==
    ASSUME NEW m, WellFormed(m), rt.lane \in Int
    PROVE  /\ MaxTokens(m) \in Int /\ MaxTokens(m) >= 1
           /\ MaxPrompt(m) \in Int /\ Prompt(m) \in Int /\ Headroom(m) \in Int
           /\ Prompt(m) + Headroom(m) + 4 = rt.lane
           /\ Tokens(m.messages, Trimmed(m.messages, MaxPrompt(m))) \in Nat
<1>1. MaxTokens(m) \in Int /\ MaxTokens(m) >= 1
  BY DEF MaxTokens, WellFormed
<1>2. MaxPrompt(m) \in Int
  BY <1>1 DEF MaxPrompt
<1>3. Tokens(m.messages, Trimmed(m.messages, MaxPrompt(m))) \in Nat
  <2>1. Trimmed(m.messages, MaxPrompt(m)) \in SUBSET DOMAIN m.messages
    BY TrimmedKnown
  <2>2. \A I \in SUBSET DOMAIN m.messages : Tokens(m.messages, I) \in Nat
    BY DEF WellFormed
  <2> QED
    BY <2>1, <2>2
<1>4. Prompt(m) \in Int
  BY <1>3, EdgeAssumption DEF Prompt
<1> QED
  BY <1>1, <1>2, <1>3, <1>4 DEF Headroom

\* The generation is no longer than asked for and than the lane has room.
LEMMA GenerationFits ==
    ASSUME NEW m, WellFormed(m), rt.lane \in Int, NEW user, ChatStatus(m, user) = 200
    PROVE  /\ NGen(m) >= 1 /\ NGen(m) <= MaxTokens(m)
           /\ NGen(m) \in Int /\ Prompt(m) + NGen(m) + 4 <= rt.lane
<1>1. /\ MaxTokens(m) \in Int /\ MaxTokens(m) >= 1
      /\ Prompt(m) \in Int /\ Headroom(m) \in Int
      /\ Prompt(m) + Headroom(m) + 4 = rt.lane
  BY LengthsType
<1>2. ~(Headroom(m) < 1)
  BY DEF ChatStatus
<1>3. /\ NGen(m) \in Int /\ NGen(m) >= 1
      /\ NGen(m) <= MaxTokens(m) /\ NGen(m) <= Headroom(m)
  BY <1>1, <1>2 DEF NGen
<1> QED
  BY <1>1, <1>3

\* Only old messages are dropped, and none that would have fit.
Fitting(m, kept, dropped) ==
    /\ \A n \in dropped :
           /\ ~m.messages[n].sys
           /\ \A k \in DOMAIN m.messages : k < n => m.messages[k].sys \/ k \in dropped
    /\ dropped # {} => Tokens(m.messages, kept \cup {Max(dropped)}) > MaxPrompt(m)

\* What is kept of the messages of a request that is accepted.
LEMMA KeptFits ==
    ASSUME NEW m, WellFormed(m), rt.lane \in Int, NEW user, ChatStatus(m, user) = 200,
           NEW kept, kept = Trimmed(m.messages, MaxPrompt(m)),
           NEW dropped, dropped = DOMAIN m.messages \ kept
    PROVE  Fitting(m, kept, dropped)
<1> DEFINE ms == m.messages
<1>1. ms \in Messages /\ \A I \in SUBSET DOMAIN ms : Tokens(ms, I) \in Nat
  BY DEF WellFormed, Messages
<1>2. MaxPrompt(m) \in Int
  BY LengthsType
<1>3. Renders(ms) /\ ~(Tokens(ms, kept) > MaxPrompt(m))
  BY DEF ChatStatus
<1>4. Tokens(ms, kept) \in Nat
  BY LengthsType
<1>5. Tokens(ms, kept) <= MaxPrompt(m)
  BY <1>2, <1>3, <1>4
<1> HIDE DEF ms
<1>6. PICK d \in Nat :
          /\ kept = Without(ms, d)
          /\ DOMAIN ms \ Without(ms, d) # {} =>
                Tokens(ms, Without(ms, d) \cup {Max(DOMAIN ms \ Without(ms, d))}) > MaxPrompt(m)
  <2> DEFINE room == MaxPrompt(m)
  <2>1. kept = Trimmed(ms, room)
    BY DEF ms
  <2>2. room \in Int /\ Tokens(ms, Trimmed(ms, room)) <= room
    BY <1>2, <1>5, <2>1
  <2> HIDE DEF room
  <2>3. \E d \in Nat :
           /\ Trimmed(ms, room) = Without(ms, d)
           /\ DOMAIN ms \ Without(ms, d) # {} =>
                 Tokens(ms, Without(ms, d) \cup {Max(DOMAIN ms \ Without(ms, d))}) > room
    BY <1>1, <1>3, <2>2, TrimmedIsLeast
  <2> QED
    BY <2>1, <2>3 DEF room
<1>7. dropped = DOMAIN ms \ Without(ms, d)
  BY <1>6 DEF ms
<1>8. \A n \in dropped : ~ms[n].sys
  BY <1>7 DEF Without
<1>9. \A n \in dropped : \A k \in DOMAIN ms : k < n => ms[k].sys \/ k \in dropped
  BY <1>1, <1>7, DroppedFromFront
<1>10. dropped # {} => Tokens(ms, kept \cup {Max(dropped)}) > MaxPrompt(m)
  BY <1>6, <1>7
<1> QED
  BY <1>8, <1>9, <1>10 DEF ms, Fitting

\* A user that the engine has let in is one that it can count.
LEMMA AuthenticUser ==
    ASSUME NEW m, WellFormed(m), AuthStatus(m) = 200
    PROVE  AuthUser(m) \in UserIds
<1>1. m.user \in UserIds \cup {NoUser}
  BY DEF WellFormed
<1>2. /\ m.bearer \in Keys
      /\ ~(Mapped(m.bearer) = NoUser /\ m.user = NoUser)
  BY DEF AuthStatus
<1> QED
  BY <1>1, <1>2, KeyAssumption DEF AuthUser

\* An id that begins with a user and a colon.
LEMMA MadeContinues ==
    ASSUME NEW user \in Seq(STRING), NEW chat \in Seq(STRING), chat # <<>>
    PROVE  /\ user \o chat \in Seq(STRING)
           /\ Continues(user \o chat, user)
<1> DEFINE id == user \o chat
<1>1. /\ id \in Seq(STRING) /\ Len(id) = Len(user) + Len(chat)
      /\ \A n \in 1 .. Len(user) : id[n] = user[n]
  OBVIOUS
<1>2. Len(chat) > 0 /\ Len(user) \in Nat /\ Len(chat) \in Nat
  OBVIOUS
<1> HIDE DEF id
<1>3. Len(user) < Len(id)
  BY <1>1, <1>2
<1>4. SubSeq(id, 1, Len(user)) = user
  BY <1>1, <1>2, <1>3
<1> QED
  BY <1>1, <1>3, <1>4 DEF Continues, id

\* A conversation id of an authenticated user begins with the user.
LEMMA ConversationOfUser ==
    ASSUME NEW m, WellFormed(m), NEW user \in UserIds, rt.api, ChatStatus(m, user) = 200,
           ConvId(m, user) # <<>>
    PROVE  ConvId(m, user) \in Seq(STRING) /\ Continues(ConvId(m, user), user)
<1>1. ConvStatus(m, user) = 200
  BY DEF ChatStatus
<1>2. Text(m.chatId) \in Seq(STRING) /\ ConvGiven(m) \in Seq(STRING)
  <2>1. /\ IsText(m.chatId) => m.chatId.str \in Seq(STRING)
        /\ IsText(m.convId) => m.convId.str \in Seq(STRING)
        /\ m.convHdr \in Seq(STRING)
    BY DEF WellFormed
  <2>2. <<>> \in Seq(STRING)
    OBVIOUS
  <2> QED
    BY <2>1, <2>2 DEF Text, ConvGiven
<1>3. CASE Text(m.chatId) # <<>>
  <2>1. ConvId(m, user) = user \o Text(m.chatId)
    BY <1>3 DEF ConvId, MakeConversationId
  <2>2. user \in Seq(STRING)
    BY KeyAssumption
  <2> QED
    BY <1>2, <1>3, <2>1, <2>2, MadeContinues
<1>4. CASE Text(m.chatId) = <<>>
  <2>1. ConvId(m, user) = ConvGiven(m)
    BY <1>4 DEF ConvId
  <2>2. ConversationOwnedBy(ConvGiven(m), user)
    BY <1>1, <1>4, <2>1 DEF ConvStatus
  <2> QED
    BY <1>2, <2>1, <2>2 DEF ConversationOwnedBy
<1> QED
  BY <1>3, <1>4

\* Two users that an id begins with begin alike: they are the same, or one
\* goes on where the other ends.
LEMMA TwoBeginnings ==
    ASSUME NEW id \in Seq(STRING), NEW u \in Seq(STRING), NEW v \in Seq(STRING),
           Continues(id, u), Continues(id, v)
    PROVE  u = v \/ Continues(u, v) \/ Continues(v, u)
<1>1. /\ Len(u) \in Nat /\ Len(v) \in Nat /\ Len(id) \in Nat
      /\ Len(u) < Len(id) /\ Len(v) < Len(id)
      /\ SubSeq(id, 1, Len(u)) = u /\ SubSeq(id, 1, Len(v)) = v
  BY DEF Continues
<1>2. \A n \in 1 .. Len(u) : u[n] = id[n]
  BY <1>1
<1>3. \A n \in 1 .. Len(v) : v[n] = id[n]
  BY <1>1
<1>4. CASE Len(u) = Len(v)
  <2>1. u = v
    BY <1>1, <1>4
  <2> QED
    BY <2>1
<1>5. CASE Len(v) < Len(u)
  <2>1. SubSeq(u, 1, Len(v)) = v
    BY <1>1, <1>2, <1>3, <1>5
  <2> QED
    BY <1>5, <2>1 DEF Continues
<1>6. CASE Len(u) < Len(v)
  <2>1. SubSeq(v, 1, Len(u)) = u
    BY <1>1, <1>2, <1>3, <1>6
  <2> QED
    BY <1>6, <2>1 DEF Continues
<1>7. Len(u) = Len(v) \/ Len(v) < Len(u) \/ Len(u) < Len(v)
  <2>1. Len(u) \in Nat /\ Len(v) \in Nat
    OBVIOUS
  <2> QED
    BY ONLY <2>1
<1> QED
  BY <1>4, <1>5, <1>6, <1>7

\* What the gateway forwards is a request again, under the user's name,
\* capped and without thinking where thinking is off.
LEMMA ForwardedUnderPolicy ==
    ASSUME NEW t, WellFormed(t), NEW user \in UserIds, PolicyStatus(t) = 200,
           NEW m, m = Forwarded(t, user)
    PROVE  /\ WellFormed(m)
           /\ AuthUser(m) = user
           /\ TokenCap > 0 => MaxTokens(m) <= TokenCap
           /\ ~AllowThinking => ~ThinkEnabled(m)
<1> DEFINE chat  == ForwardedChat(t)
           cap   == Capped(t)
           think == IF AllowThinking THEN t.think ELSE Flag(FALSE)
<1>1. /\ DOMAIN m = DOMAIN t
      /\ m.user = user /\ m.messages = t.messages /\ m.maxTokens = cap
      /\ m.maxCompletion = t.maxCompletion /\ m.chatId = chat /\ m.chatHdr = t.chatHdr
      /\ m.convId = t.convId /\ m.convHdr = <<>> /\ m.think = think
  BY DEF Forwarded, WellFormed
<1>2. IsText(chat) => chat.str \in Seq(STRING)
  BY DEF ForwardedChat, WellFormed, IsText, Str
<1>3. "num" \in DOMAIN cap => cap.num \in Int
  BY GatewayAssumption DEF Capped, WellFormed, Num
<1>4. "flag" \in DOMAIN think => think.flag \in BOOLEAN
  BY DEF WellFormed, Flag
<1>5. TokenCap > 0 => "num" \in DOMAIN cap /\ cap.num \in Int /\ cap.num <= TokenCap
  BY GatewayAssumption DEF Capped, WellFormed, Num
<1>6. ~AllowThinking => "flag" \in DOMAIN think /\ think.flag = FALSE
  BY DEF Flag
<1> HIDE DEF chat, cap, think
<1>7. WellFormed(m)
  BY <1>1, <1>2, <1>3, <1>4 DEF WellFormed
<1>8. AuthUser(m) = user
  BY <1>1, KeyAssumption DEF AuthUser
<1>9. TokenCap > 0 => MaxTokens(m) <= TokenCap
  <2> SUFFICES ASSUME TokenCap > 0 PROVE MaxTokens(m) <= TokenCap
    OBVIOUS
  <2>1. MaxTokens(m) = IF cap.num < 1 THEN 1 ELSE cap.num
    BY <1>1, <1>5 DEF MaxTokens
  <2>2. cap.num \in Int /\ cap.num <= TokenCap /\ TokenCap \in Nat
    BY <1>5, GatewayAssumption
  <2> QED
    BY <2>1, <2>2
<1>10. ~AllowThinking => ~ThinkEnabled(m)
  BY <1>1, <1>6 DEF ThinkEnabled
<1> QED
  BY <1>7, <1>8, <1>9, <1>10

-----------------------------------------------------------------------------
(* A request on its way: from the client through the gateway to the job.   *)

ClientType ==
    /\ DOMAIN client = Ids
    /\ \A i \in Ids :
           /\ DOMAIN client[i] = DOMAIN Unused
           /\ client[i].req = NoRequest \/ WellFormed(client[i].req)

\* What the engine gets of r is m.
OnItsWay(r, m) ==
    /\ WellFormed(r)
    /\ r.via = "gateway" =>
           /\ r.bearer \in ClientKeys /\ PolicyStatus(r) = 200
           /\ m = Forwarded(r, UserOf(r.bearer))
    /\ r.via # "gateway" => m = r

Passage(i) ==
    /\ client[i].at \in {"unused", "arrived"} =>
           client[i].admitted = Never /\ client[i].refused = Never
    /\ client[i].at \in {"arrived", "admitted"} =>
           WellFormed(client[i].req) /\ client[i].req.via = "gateway"
    /\ client[i].at = "admitted" =>
           /\ client[i].req.bearer \in ClientKeys
           /\ client[i].user = UserOf(client[i].req.bearer)
    /\ client[i].at \in {"sent", "waiting", "streaming"} =>
           OnItsWay(client[i].req, client[i].fwd)

ClientInv == ClientType /\ \A i \in Ids : Passage(i)

\* A request that waits for its answer keeps what was sent, or is closed.
Stays(i) == client[i].at \in {"waiting", "streaming"} =>
    /\ client'[i].at \in {"waiting", "streaming"}
    /\ client'[i].req = client[i].req /\ client'[i].fwd = client[i].fwd

\* The end of an exchange keeps what the limiter needs of it.
LEMMA ClosedFacts ==
    ASSUME NEW c, NEW status, NEW end
    PROVE  /\ DOMAIN Closed(c, status, end) = DOMAIN Unused
           /\ Closed(c, status, end).at = "closed"
           /\ Closed(c, status, end).req = NoRequest
           /\ Closed(c, status, end).user = c.user
           /\ Closed(c, status, end).admitted = c.admitted
           /\ Closed(c, status, end).refused = Never
BY DEF Closed, Unused

\* One client moves; what has to be shown of its new state alone.
LEMMA OneClientMoves ==
    ASSUME ClientInv, NEW j \in Ids, NEW c, client' = [client EXCEPT ![j] = c],
           DOMAIN c = DOMAIN Unused,
           c.req = NoRequest \/ WellFormed(c.req),
           c.at \in {"unused", "arrived"} => c.admitted = Never /\ c.refused = Never,
           c.at \in {"arrived", "admitted"} => WellFormed(c.req) /\ c.req.via = "gateway",
           c.at = "admitted" => c.req.bearer \in ClientKeys /\ c.user = UserOf(c.req.bearer),
           c.at \in {"sent", "waiting", "streaming"} => OnItsWay(c.req, c.fwd)
    PROVE  ClientInv'
<1>1. /\ DOMAIN client' = Ids /\ client'[j] = c
      /\ \A i \in Ids : i # j => client'[i] = client[i]
  BY DEF ClientInv, ClientType
<1>2. ClientType'
  BY <1>1 DEF ClientInv, ClientType
<1>3. ASSUME NEW i \in Ids PROVE Passage(i)'
  <2>1. CASE i = j
    BY <1>1, <2>1 DEF Passage
  <2>2. CASE i # j
    BY <1>1, <2>2 DEF ClientInv, Passage
  <2> QED
    BY <2>1, <2>2
<1> QED
  BY <1>2, <1>3 DEF ClientInv

\* No client has come yet.
LEMMA ClientInit == Init => ClientInv
<1> SUFFICES ASSUME Init PROVE ClientInv
  OBVIOUS
<1>1. PICK mix \in Mixes : client = [i \in Ids |-> [Unused EXCEPT !.req = mix[i]]]
  BY DEF Init, GatewayInit
<1>2. DOMAIN client = Ids
  BY <1>1
<1>3. ASSUME NEW i \in Ids
      PROVE  /\ DOMAIN client[i] = DOMAIN Unused
             /\ client[i].req = NoRequest \/ WellFormed(client[i].req)
             /\ Passage(i)
  <2>1. client[i] = [Unused EXCEPT !.req = mix[i]]
    BY <1>1
  <2>2. /\ DOMAIN client[i] = DOMAIN Unused
        /\ client[i].req = mix[i] /\ client[i].at = "unused"
        /\ client[i].admitted = Never /\ client[i].refused = Never
    BY <2>1 DEF Unused
  <2>3. mix[i] = NoRequest \/ WellFormed(mix[i])
    BY GatewayAssumption
  <2> QED
    BY <2>2, <2>3 DEF Passage
<1> QED
  BY <1>2, <1>3 DEF ClientInv, ClientType

\* A client comes.
LEMMA ArriveStep ==
    ASSUME ClientInv, NEW j \in Ids, Arrive(j)
    PROVE  ClientInv' /\ \A i \in Ids : Stays(i)
<1> DEFINE c == [client[j] EXCEPT !.fwd = client[j].req,
                                  !.at = IF client[j].req.via = "gateway" THEN "arrived"
                                                                          ELSE "sent"]
<1>1. client' = [client EXCEPT ![j] = c] /\ client[j].at = "unused"
  BY DEF Arrive
<1>2. WellFormed(client[j].req) /\ DOMAIN client[j] = DOMAIN Unused
  BY DEF Arrive, ClientInv, ClientType
<1>3. client[j].admitted = Never /\ client[j].refused = Never
  BY <1>1 DEF ClientInv, Passage
<1>4. /\ DOMAIN c = DOMAIN Unused /\ c.req = client[j].req /\ c.fwd = client[j].req
      /\ c.at = IF client[j].req.via = "gateway" THEN "arrived" ELSE "sent"
      /\ c.admitted = Never /\ c.refused = Never
  BY <1>2, <1>3 DEF Unused
<1> HIDE DEF c
<1>5. ClientInv'
  BY <1>1, <1>2, <1>4, OneClientMoves DEF OnItsWay
<1>6. \A i \in Ids : Stays(i)
  BY <1>1 DEF Stays, ClientInv, ClientType
<1> QED
  BY <1>5, <1>6

\* The request is handed to the engine.
LEMMA DeliveredStep ==
    ASSUME ClientInv, NEW j \in Ids, client[j].at = "sent",
           client' = [client EXCEPT ![j].at = "waiting"]
    PROVE  /\ ClientInv' /\ \A i \in Ids : Stays(i)
           /\ client'[j].at = "waiting" /\ client'[j].fwd = client[j].fwd
<1> DEFINE c == [client[j] EXCEPT !.at = "waiting"]
<1>1. client' = [client EXCEPT ![j] = c]
  OBVIOUS
<1>2. DOMAIN client[j] = DOMAIN Unused /\ OnItsWay(client[j].req, client[j].fwd)
  BY DEF ClientInv, ClientType, Passage
<1>3. /\ DOMAIN c = DOMAIN Unused /\ c.req = client[j].req /\ c.fwd = client[j].fwd
      /\ c.at = "waiting"
  BY <1>2 DEF Unused
<1>4. WellFormed(client[j].req)
  BY <1>2 DEF OnItsWay
<1> HIDE DEF c
<1>5. ClientInv'
  BY <1>1, <1>2, <1>3, <1>4, OneClientMoves
<1>6. \A i \in Ids : Stays(i)
  BY <1>1 DEF Stays, ClientInv, ClientType
<1> QED
  BY <1>1, <1>3, <1>5, <1>6 DEF ClientInv, ClientType

\* An exchange is closed; the engine is not at work on it any more.
LEMMA ClosedStep ==
    ASSUME ClientInv, NEW j \in Ids, NEW status, NEW end,
           client[j].at \in {"waiting", "streaming"} => ~Accepted(j),
           client' = [client EXCEPT ![j] = Closed(@, status, end)]
    PROVE  ClientInv' /\ \A i \in Ids : Accepted(i) => Stays(i)
<1> DEFINE c == Closed(client[j], status, end)
<1>1. client' = [client EXCEPT ![j] = c]
  OBVIOUS
<1>2. DOMAIN c = DOMAIN Unused /\ c.at = "closed" /\ c.req = NoRequest
  BY ClosedFacts
<1> HIDE DEF c
<1>3. ClientInv'
  BY <1>1, <1>2, OneClientMoves
<1>4. \A i \in Ids : i # j => client'[i] = client[i]
  BY <1>1 DEF ClientInv, ClientType
<1> QED
  BY <1>3, <1>4 DEF Stays

\* Two fields of one client, changed together.
LEMMA TwoFields ==
    ASSUME NEW f, NEW j, NEW a, NEW b
    PROVE  [f EXCEPT ![j].at = a, ![j].fwd = b]
               = [f EXCEPT ![j] = [f[j] EXCEPT !.at = a, !.fwd = b]]
OBVIOUS

\* Every step of the gateway keeps what was said of the clients.
LEMMA GateStep ==
    ASSUME ClientInv, NEW j \in Ids, GatewayStep(j)
    PROVE  ClientInv' /\ \A i \in Ids : Accepted(i) => Stays(i)
<1>1. CASE Unauthorized(j) \/ Refuse(j) \/ Get(j) \/ Unreachable(j)
  <2>1. /\ client[j].at \in {"waiting", "streaming"} => ~Accepted(j)
        /\ \E status : client' = [client EXCEPT ![j] = Closed(@, status, "whole")]
    BY <1>1 DEF Unauthorized, NeedsUser, Refuse, Get, Unreachable, Answer, Accepted
  <2> QED
    BY <2>1, ClosedStep
<1>2. CASE TooMany(j)
  <2> DEFINE user == UserOf(client[j].req.bearer)
             old  == Closed(client[j], 429, "whole")
             c    == [old EXCEPT !.user = user, !.refused = now]
  <2>1. client' = [client EXCEPT ![j] = c] /\ client[j].at = "arrived"
    BY <1>2 DEF TooMany, NeedsUser
  <2>2. DOMAIN c = DOMAIN Unused /\ c.at = "closed" /\ c.req = NoRequest
    <3>1. DOMAIN old = DOMAIN Unused /\ old.at = "closed" /\ old.req = NoRequest
      BY ClosedFacts
    <3> HIDE DEF old
    <3> QED
      BY <3>1 DEF Unused
  <2> HIDE DEF c
  <2>3. ClientInv'
    BY <2>1, <2>2, OneClientMoves
  <2> QED
    BY <2>1, <2>3 DEF Stays, ClientInv, ClientType
<1>3. CASE Admit(j)
  <2> DEFINE user == UserOf(client[j].req.bearer)
             c    == [client[j] EXCEPT !.at = "admitted", !.user = user, !.admitted = now]
  <2>1. /\ client' = [client EXCEPT ![j] = c] /\ client[j].at = "arrived"
        /\ client[j].req.bearer \in ClientKeys
    BY <1>3 DEF Admit, NeedsUser
  <2>2. /\ DOMAIN client[j] = DOMAIN Unused /\ WellFormed(client[j].req)
        /\ client[j].req.via = "gateway"
    BY <2>1 DEF ClientInv, ClientType, Passage
  <2>3. DOMAIN c = DOMAIN Unused /\ c.at = "admitted" /\ c.req = client[j].req /\ c.user = user
    BY <2>2 DEF Unused
  <2> HIDE DEF c
  <2>4. ClientInv'
    BY <2>1, <2>2, <2>3, OneClientMoves
  <2> QED
    BY <2>1, <2>4 DEF Stays, ClientInv, ClientType
<1>4. CASE Forward(j)
  <2> DEFINE m == Forwarded(client[j].req, client[j].user)
             c == [client[j] EXCEPT !.at = "sent", !.fwd = m]
  <2>1. /\ client' = [client EXCEPT ![j] = c] /\ client[j].at = "admitted"
        /\ PolicyStatus(client[j].req) = 200
    <3>1. client' = [client EXCEPT ![j].at = "sent", ![j].fwd = m]
      BY <1>4 DEF Forward
    <3>2. client[j].at = "admitted" /\ PolicyStatus(client[j].req) = 200
      BY <1>4 DEF Forward
    <3> HIDE DEF m
    <3>3. client' = [client EXCEPT ![j] = c]
      BY <3>1, TwoFields, ZenonT(30)
    <3> QED
      BY <3>2, <3>3
  <2>2. /\ DOMAIN client[j] = DOMAIN Unused /\ WellFormed(client[j].req)
        /\ client[j].req.via = "gateway" /\ client[j].req.bearer \in ClientKeys
        /\ client[j].user = UserOf(client[j].req.bearer)
    BY <2>1 DEF ClientInv, ClientType, Passage
  <2>3. DOMAIN c = DOMAIN Unused /\ c.at = "sent" /\ c.req = client[j].req /\ c.fwd = m
    BY <2>2 DEF Unused
  <2>4. OnItsWay(client[j].req, m)
    BY <2>1, <2>2 DEF OnItsWay
  <2> HIDE DEF c
  <2> HIDE DEF m
  <2>5. ClientInv'
    <3>1. OnItsWay(c.req, c.fwd)
      BY <2>3, <2>4
    <3>2. /\ c.req = NoRequest \/ WellFormed(c.req)
          /\ c.at \notin {"unused", "arrived", "admitted"}
      BY <2>2, <2>3
    <3>3. client' = [client EXCEPT ![j] = c] /\ DOMAIN c = DOMAIN Unused
      BY <2>1, <2>3
    <3> QED
      BY <3>1, <3>2, <3>3, OneClientMoves
  <2> QED
    BY <2>1, <2>5 DEF Stays, ClientInv, ClientType
<1>5. CASE Relay(j) \/ StreamEnds(j)
  <2>1. /\ ~Accepted(j)
        /\ \E status, end : client' = [client EXCEPT ![j] = Closed(@, status, end)]
    BY <1>5 DEF Relay, StreamEnds, Accepted
  <2> QED
    BY <2>1, ClosedStep
<1>6. CASE StreamStarts(j)
  <2> DEFINE c == [client[j] EXCEPT !.at = "streaming", !.status = 200]
  <2>1. client' = [client EXCEPT ![j] = c] /\ client[j].at = "waiting"
    BY <1>6 DEF StreamStarts
  <2>2. DOMAIN client[j] = DOMAIN Unused /\ OnItsWay(client[j].req, client[j].fwd)
    BY <2>1 DEF ClientInv, ClientType, Passage
  <2>3. /\ DOMAIN c = DOMAIN Unused /\ c.at = "streaming"
        /\ c.req = client[j].req /\ c.fwd = client[j].fwd
    BY <2>2 DEF Unused
  <2>4. WellFormed(client[j].req)
    BY <2>2 DEF OnItsWay
  <2> HIDE DEF c
  <2>5. ClientInv'
    BY <2>1, <2>2, <2>3, <2>4, OneClientMoves
  <2> QED
    BY <2>1, <2>3, <2>5 DEF Stays, ClientInv, ClientType
<1> QED
  BY <1>1, <1>2, <1>3, <1>4, <1>5, <1>6 DEF GatewayStep

-----------------------------------------------------------------------------
(* The engine's side.                                                      *)

\* The user that the engine counts a request for.
Caller(m) == IF rt.api THEN AuthUser(m) ELSE NoUser

\* The engine runs c for the request m.
Handles(c, m) ==
    /\ rt.api => AuthStatus(m) = 200
    /\ ChatStatus(m, Caller(m)) = 200
    /\ c.user = Caller(m) /\ c.conv = ConvId(m, Caller(m))
    /\ c.nGen = NGen(m) /\ c.prompt = Prompt(m)
    /\ c.think = ~ThinkClosed(m) /\ c.strip = ThinkStripped(m)
    /\ c.kept = Trimmed(m.messages, MaxPrompt(m))

CallType ==
    /\ DOMAIN call = Ids
    /\ \A i \in Ids : /\ DOMAIN call[i] = DOMAIN NoCall
                      /\ call[i].at = "none" =>
                             call[i].admitted = Never /\ call[i].refused = Never

Serves(i) ==
    Accepted(i) =>
        /\ Listening
        /\ client[i].at \in {"waiting", "streaming"}
        /\ Handles(call[i], client[i].fwd)

CallInv == CallType /\ \A i \in Ids : Serves(i)

\* As long as the engine is the same, it handles a request the same way.
LEMMA SameHandling ==
    ASSUME NEW c, NEW m, UNCHANGED rt, Handles(c, m)
    PROVE  Handles(c, m)'
<1>1. Caller(m)' = Caller(m)
  BY DEF Caller
<1>2. \A u : ConvStatus(m, u)' = ConvStatus(m, u) /\ ConvId(m, u)' = ConvId(m, u)
  BY DEF ConvStatus, ConvId
<1>3. MaxPrompt(m)' = MaxPrompt(m) /\ ThinkEnabled(m)' = ThinkEnabled(m)
  BY DEF MaxPrompt, ThinkEnabled
<1>4. ThinkClosed(m)' = ThinkClosed(m) /\ ThinkStripped(m)' = ThinkStripped(m)
  BY <1>3 DEF ThinkClosed, ThinkStripped
<1>5. Prompt(m)' = Prompt(m)
  BY <1>3, <1>4 DEF Prompt
<1>6. Headroom(m)' = Headroom(m)
  BY <1>5 DEF Headroom
<1>7. NGen(m)' = NGen(m)
  BY <1>6 DEF NGen
<1>8. \A u : ChatStatus(m, u)' = ChatStatus(m, u)
  BY <1>2, <1>3, <1>6 DEF ChatStatus
<1> QED
  BY <1>1, <1>2, <1>3, <1>4, <1>5, <1>7, <1>8 DEF Handles

\* The engine has been asked nothing yet.
LEMMA CallInit == Init => CallInv
<1> SUFFICES ASSUME Init PROVE CallInv
  OBVIOUS
<1>1. DOMAIN call = Ids /\ \A i \in Ids : call[i] = NoCall
  BY DEF Init, ApiInit
<1>2. NoCall.at = "none" /\ NoCall.admitted = Never /\ NoCall.refused = Never
  BY DEF NoCall
<1> QED
  BY <1>1, <1>2 DEF CallInv, CallType, Serves, Accepted

\* The engine is what it was for a call that it does not touch.
LEMMA CallKept ==
    ASSUME CallInv, UNCHANGED rt, NEW i \in Ids, call'[i] = call[i],
           Accepted(i) => Stays(i)
    PROVE  Serves(i)'
<1> SUFFICES ASSUME Accepted(i)' PROVE /\ Listening'
                                       /\ client'[i].at \in {"waiting", "streaming"}
                                       /\ Handles(call[i], client[i].fwd)'
  BY DEF Serves
<1>1. Accepted(i)
  BY DEF Accepted
<1>2. /\ Listening /\ client[i].at \in {"waiting", "streaming"}
      /\ Handles(call[i], client[i].fwd)
  BY <1>1 DEF CallInv, Serves
<1>3. /\ client'[i].at \in {"waiting", "streaming"} /\ client'[i].fwd = client[i].fwd
  BY <1>1, <1>2 DEF Stays
<1>4. \A c, m : Handles(c, m) => Handles(c, m)'
  BY SameHandling
<1>5. ASSUME NEW c, NEW m, c = call[i], m = client[i].fwd
      PROVE  Handles(call[i], client[i].fwd)'
  <2>1. Handles(c, m)'
    BY <1>2, <1>4, <1>5
  <2>2. call'[i] = c /\ client'[i].fwd = m
    BY <1>3, <1>5
  <2> QED
    BY <2>1, <2>2 DEF Handles
<1>6. Handles(call[i], client[i].fwd)'
  BY <1>5
<1> QED
  BY <1>2, <1>3, <1>6 DEF Listening

\* One call moves; what has to be shown of its new state alone.
LEMMA OneCallMoves ==
    ASSUME CallInv, UNCHANGED rt, NEW j \in Ids, NEW c, call' = [call EXCEPT ![j] = c],
           DOMAIN c = DOMAIN NoCall,
           c.at = "none" => c.admitted = Never /\ c.refused = Never,
           \A i \in Ids : Accepted(i) => Stays(i),
           NEW m,
           c.at \in {"queued", "blocked", "streaming"} =>
               /\ Listening /\ client'[j].at \in {"waiting", "streaming"}
               /\ client'[j].fwd = m /\ Handles(c, m)
    PROVE  CallInv'
<1>1. /\ DOMAIN call' = Ids /\ call'[j] = c
      /\ \A i \in Ids : i # j => call'[i] = call[i]
  BY DEF CallInv, CallType
<1>2. CallType'
  BY <1>1 DEF CallInv, CallType
<1>3. ASSUME Accepted(j)'
      PROVE  /\ Listening'
             /\ client'[j].at \in {"waiting", "streaming"}
             /\ Handles(call[j], client[j].fwd)'
  <2>1. c.at \in {"queued", "blocked", "streaming"}
    BY <1>1, <1>3 DEF Accepted
  <2>2. Handles(c, m)'
    BY <2>1, SameHandling
  <2> QED
    BY <1>1, <2>1, <2>2 DEF Handles, Listening
<1>4. Serves(j)'
  BY <1>3 DEF Serves
<1>5. \A i \in Ids : i # j => Serves(i)'
  BY <1>1, CallKept
<1> QED
  BY <1>2, <1>4, <1>5 DEF CallInv

\* The end of a call keeps what the limiter needs of it.
LEMMA EndedFacts ==
    ASSUME NEW c, NEW at, NEW status
    PROVE  /\ DOMAIN Ended(c, at, status) = DOMAIN NoCall
           /\ Ended(c, at, status).at = at /\ Ended(c, at, status).user = c.user
           /\ Ended(c, at, status).admitted = c.admitted
           /\ Ended(c, at, status).refused = Never
BY DEF Ended, NoCall

\* A call ends.
LEMMA EndStep ==
    ASSUME CallInv, UNCHANGED rt, NEW j \in Ids, NEW at \in {"done", "cut"}, NEW status,
           call' = [call EXCEPT ![j] = Ended(@, at, status)],
           \A i \in Ids : Accepted(i) => Stays(i)
    PROVE  CallInv'
<1> DEFINE c == Ended(call[j], at, status)
<1>1. call' = [call EXCEPT ![j] = c]
  OBVIOUS
<1>2. DOMAIN c = DOMAIN NoCall /\ c.at = at
  BY EndedFacts
<1> HIDE DEF c
<1> QED
  BY <1>1, <1>2, OneCallMoves

\* The handler takes a request.
LEMMA PostStep ==
    ASSUME CallInv, UNCHANGED rt, NEW j \in Ids, NEW m, PostChat(j, m), Listening,
           client'[j].at = "waiting", client'[j].fwd = m,
           \A i \in Ids : Accepted(i) => Stays(i)
    PROVE  CallInv'
<1>1. CASE BadBody(j, m) \/ Unauthenticated(j, m)
  <2>1. \E status : call' = [call EXCEPT ![j] = Ended(@, "done", status)]
    BY <1>1 DEF BadBody, Unauthenticated, Reply
  <2> QED
    BY <2>1, EndStep
<1>2. CASE Limited(j, m)
  <2> DEFINE u == AuthUser(m)
             full == "done"
             code == 429
             c == [call[j] EXCEPT !.at = full, !.status = code, !.user = u, !.refused = now]
  <2>1. call' = [call EXCEPT ![j] = c]
    <3>1. call' = [call EXCEPT ![j].at = full, ![j].status = code,
                               ![j].user = u, ![j].refused = now]
      BY <1>2 DEF Limited
    <3> HIDE DEF u, full, code
    <3> QED
      BY <3>1
  <2>2. DOMAIN c = DOMAIN NoCall /\ c.at = "done"
    BY DEF CallInv, CallType, NoCall
  <2> HIDE DEF c
  <2> QED
    BY <2>1, <2>2, OneCallMoves
<1>3. CASE Handled(j, m)
  <2> DEFINE user    == Caller(m)
             status  == ChatStatus(m, user)
             counted == [NoCall EXCEPT !.user = user,
                                       !.admitted = IF rt.api THEN now ELSE Never]
             refuse  == [counted EXCEPT !.at = "done", !.status = status]
             accept  == [counted EXCEPT !.at = "queued", !.conv = ConvId(m, user),
                                        !.nGen = NGen(m), !.prompt = Prompt(m),
                                        !.think = ~ThinkClosed(m),
                                        !.strip = ThinkStripped(m),
                                        !.kept = Trimmed(m.messages, MaxPrompt(m))]
  <2>1. /\ call' = [call EXCEPT ![j] = IF status # 200 THEN refuse ELSE accept]
        /\ rt.api => AuthStatus(m) = 200
    BY <1>3 DEF Handled, Caller
  <2>2. DOMAIN counted = DOMAIN NoCall /\ counted.user = user
    BY DEF NoCall
  <2>3. DOMAIN refuse = DOMAIN NoCall /\ refuse.at = "done"
    <3> HIDE DEF counted
    <3> QED
      BY <2>2 DEF NoCall
  <2>4. /\ DOMAIN accept = DOMAIN NoCall /\ accept.at = "queued" /\ accept.user = user
        /\ accept.conv = ConvId(m, user) /\ accept.nGen = NGen(m)
        /\ accept.prompt = Prompt(m)
        /\ accept.think = ~ThinkClosed(m) /\ accept.strip = ThinkStripped(m)
        /\ accept.kept = Trimmed(m.messages, MaxPrompt(m))
    <3> HIDE DEF counted, user
    <3> QED
      BY <2>2 DEF NoCall
  <2>5. status = 200 => Handles(accept, m)
    <3> HIDE DEF accept
    <3> QED
      BY <2>1, <2>4 DEF Handles
  <2> HIDE DEF accept, refuse, status
  <2>6. CASE status # 200
    BY <2>1, <2>3, <2>6, OneCallMoves
  <2>7. CASE status = 200
    BY <2>1, <2>4, <2>5, <2>7, OneCallMoves
  <2> QED
    BY <2>6, <2>7
<1> QED
  BY <1>1, <1>2, <1>3 DEF PostChat

\* The decode lock and the job: a call goes on with what it has, or ends.
LEMMA BindStep ==
    ASSUME CallInv, UNCHANGED <<rt, client>>, Listening, NEW j \in Ids, NEW stream,
           Bind(j, stream)
    PROVE  CallInv'
<1> DEFINE c == [call[j] EXCEPT !.at = IF stream THEN "streaming" ELSE "blocked",
                                !.status = IF stream THEN 200 ELSE 0]
<1>1. call' = [call EXCEPT ![j] = c] /\ call[j].at = "queued"
  BY DEF Bind
<1>2. /\ DOMAIN c = DOMAIN NoCall
      /\ c.at = IF stream THEN "streaming" ELSE "blocked"
      /\ c.user = call[j].user /\ c.conv = call[j].conv /\ c.nGen = call[j].nGen
      /\ c.prompt = call[j].prompt /\ c.kept = call[j].kept
      /\ c.think = call[j].think /\ c.strip = call[j].strip
  BY DEF CallInv, CallType, NoCall
<1>3. client[j].at \in {"waiting", "streaming"} /\ Handles(call[j], client[j].fwd)
  BY <1>1 DEF CallInv, Serves, Accepted
<1> HIDE DEF c
<1>4. Handles(c, client[j].fwd)
  BY <1>2, <1>3 DEF Handles
<1>5. \A i \in Ids : Accepted(i) => Stays(i)
  BY DEF Stays
<1> QED
  BY <1>1, <1>2, <1>3, <1>4, <1>5, OneCallMoves

\* The decode lock and the jobs: a call goes on or ends.
LEMMA EngineStep ==
    ASSUME CallInv, Engine
    PROVE  CallInv'
<1>1. UNCHANGED <<rt, client>> /\ Listening
  BY DEF Engine, bootVars, gwVars
<1>2. \A i \in Ids : Accepted(i) => Stays(i)
  BY <1>1 DEF Stays
<1>3. ASSUME NEW j \in Ids, BindFails(j)
      PROVE  CallInv'
  <2>1. call' = [call EXCEPT ![j] = Ended(@, "done", 403)]
    BY <1>3 DEF BindFails, Reply
  <2> QED
    BY <1>1, <1>2, <2>1, EndStep, ZenonT(30)
<1>4. ASSUME NEW j \in Ids, Bind(j, client[j].fwd.stream)
      PROVE  CallInv'
  BY <1>1, <1>4, BindStep
<1>5. ASSUME NEW ok \in BOOLEAN, RunJob(ok)
      PROVE  CallInv'
  <2> DEFINE j == Head(jobs)
  <2>1. PICK at, status : /\ at = "done" \/ at = "cut"
                          /\ call' = [call EXCEPT ![j] = Ended(@, at, status)]
    <3>1. CASE call[j].at = "streaming"
      <4> DEFINE way == IF ok THEN "done" ELSE "cut"
      <4>1. call' = [call EXCEPT ![j] = Ended(@, way, 200)]
        BY <1>5, <3>1 DEF RunJob
      <4>2. way = "done" \/ way = "cut"
        OBVIOUS
      <4> HIDE DEF way
      <4> WITNESS way, 200
      <4> QED
        BY <4>1, <4>2
    <3>2. CASE call[j].at # "streaming"
      <4> DEFINE code == IF ok THEN 200 ELSE 500
      <4>1. call' = [call EXCEPT ![j] = Ended(@, "done", code)]
        BY <1>5, <3>2 DEF RunJob
      <4> HIDE DEF code
      <4> WITNESS "done", code
      <4> QED
        BY <4>1
    <3> QED
      BY <3>1, <3>2
  <2> HIDE DEF j
  <2>2. CASE j \in Ids
    BY <1>1, <1>2, <2>1, <2>2, EndStep
  <2>3. CASE j \notin Ids
    <3>1. DOMAIN call = Ids
      BY DEF CallInv, CallType
    <3>2. DOMAIN call' = Ids /\ \A i \in Ids : call'[i] = call[i]
      BY <2>1, <2>3, <3>1
    <3>3. \A i \in Ids : Serves(i)'
      BY <1>1, <1>2, <3>2, CallKept
    <3> QED
      BY <3>2, <3>3 DEF CallInv, CallType
  <2> QED
    BY <2>2, <2>3
<1> QED
  BY <1>3, <1>4, <1>5 DEF Engine

\* Nothing is accepted where no engine listens, or when one dies.
LEMMA LostStep ==
    ASSUME CallInv, ApiLost
    PROVE  /\ CallInv'
           /\ \A i \in Ids : call'[i].admitted = Never /\ call'[i].refused = Never
<1>1. /\ DOMAIN call' = Ids
      /\ \A i \in Ids :
             call'[i] = IF call[i].at \in {"queued", "blocked", "streaming"}
                        THEN [NoCall EXCEPT !.at = "lost"]
                        ELSE [call[i] EXCEPT !.admitted = Never, !.refused = Never]
  BY DEF ApiLost
<1>2. ASSUME NEW i \in Ids
      PROVE  /\ DOMAIN call'[i] = DOMAIN NoCall
             /\ call'[i].at \notin {"queued", "blocked", "streaming"}
             /\ call'[i].admitted = Never /\ call'[i].refused = Never
  <2>1. DOMAIN call[i] = DOMAIN NoCall
    BY DEF CallInv, CallType
  <2> DEFINE lost == [NoCall EXCEPT !.at = "lost"]
             same == [call[i] EXCEPT !.admitted = Never, !.refused = Never]
  <2>2. /\ DOMAIN lost = DOMAIN NoCall /\ lost.at = "lost"
        /\ lost.admitted = Never /\ lost.refused = Never
    BY DEF NoCall
  <2>3. /\ DOMAIN same = DOMAIN NoCall /\ same.at = call[i].at
        /\ same.admitted = Never /\ same.refused = Never
    BY <2>1 DEF NoCall
  <2> HIDE DEF lost, same
  <2>4. call'[i] = IF call[i].at \in {"queued", "blocked", "streaming"} THEN lost ELSE same
    BY <1>1 DEF lost, same
  <2> QED
    BY <2>2, <2>3, <2>4
<1> QED
  BY <1>1, <1>2 DEF CallInv, CallType, Serves, Accepted

EdgeInv == PlanInv /\ ClientInv /\ CallInv

\* Every step keeps the invariant of the plan, the clients and the calls.
LEMMA EdgeStep == EdgeInv /\ [Next]_vars => EdgeInv'
<1> SUFFICES ASSUME EdgeInv, [Next]_vars PROVE EdgeInv'
  OBVIOUS
<1> USE DEF EdgeInv
<1>1. PlanInv'
  BY PlanStep
<1>2. CASE Tick \/ Configure \/ UNCHANGED vars
  <2>1. UNCHANGED <<client, call, rt>>
    BY <1>2 DEF Tick, Configure, vars, gwVars, apiVars, bootVars
  <2>2. ClientInv'
    BY <2>1 DEF ClientInv, ClientType, Passage
  <2>3. \A i \in Ids : Serves(i)'
    BY <2>1, CallKept DEF Stays
  <2> QED
    BY <1>1, <2>1, <2>2, <2>3 DEF CallInv, CallType
<1>3. CASE Start \/ Boots
  <2>1. UNCHANGED <<client, call>> /\ ~Listening
    <3>1. CASE Start
      BY <3>1 DEF Start, Launch, Gone, Listening, gwVars, apiVars
    <3>2. CASE Boots
      BY <3>2, StageStep DEF PlanInv, Boots, gwVars, apiVars
    <3> QED
      BY <1>3, <3>1, <3>2
  <2>2. ClientInv'
    BY <2>1 DEF ClientInv, ClientType, Passage
  <2>3. \A i \in Ids : ~Accepted(i)
    BY <2>1 DEF CallInv, Serves
  <2>4. \A i \in Ids : ~Accepted(i)'
    BY <2>1, <2>3 DEF Accepted
  <2> QED
    BY <1>1, <2>1, <2>2, <2>4 DEF CallInv, CallType, Serves
<1>4. CASE Crash
  <2>1. ClientInv'
    BY <1>4 DEF Crash, gwVars, ClientInv, ClientType, Passage
  <2> QED
    BY <1>1, <1>4, <2>1, LostStep DEF Crash
<1>5. CASE Engine
  <2>1. ClientInv'
    BY <1>5 DEF Engine, gwVars, ClientInv, ClientType, Passage
  <2> QED
    BY <1>1, <1>5, <2>1, EngineStep
<1>6. ASSUME NEW j \in Ids, Come(j) \/ Gate(j)
      PROVE  ClientInv' /\ CallInv'
  <2>1. UNCHANGED <<call, rt>>
    BY <1>6 DEF Come, Gate, apiVars, bootVars
  <2>2. ClientInv' /\ \A i \in Ids : Accepted(i) => Stays(i)
    BY <1>6, ArriveStep, GateStep DEF Come, Gate
  <2>3. \A i \in Ids : Serves(i)'
    BY <2>1, <2>2, CallKept
  <2> QED
    BY <2>1, <2>2, <2>3 DEF CallInv, CallType
<1>7. ASSUME NEW j \in Ids, Deliver(j)
      PROVE  ClientInv' /\ CallInv'
  <2>1. /\ UNCHANGED rt /\ Listening /\ client[j].at = "sent"
        /\ PostChat(j, client[j].fwd)
        /\ client' = [client EXCEPT ![j].at = "waiting"]
    BY <1>7 DEF Deliver, bootVars
  <2>2. /\ ClientInv' /\ \A i \in Ids : Stays(i)
        /\ client'[j].at = "waiting" /\ client'[j].fwd = client[j].fwd
    BY <2>1, DeliveredStep
  <2> QED
    BY <2>1, <2>2, PostStep
<1> QED
  BY <1>1, <1>2, <1>3, <1>4, <1>5, <1>6, <1>7 DEF Next

\* So it holds in every state.
LEMMA EdgeHolds == Spec => []EdgeInv
<1>1. Init => EdgeInv
  BY PlanInit, ClientInit, CallInit DEF EdgeInv
<1> QED
  BY <1>1, EdgeStep, PTL DEF Spec

\* What is on its way to the engine is a request like any other.
LEMMA OnItsWayIsWellFormed ==
    ASSUME NEW r, NEW m, OnItsWay(r, m)
    PROVE  WellFormed(m)
<1>1. CASE r.via = "gateway"
  <2>1. UserOf(r.bearer) \in UserIds
    BY <1>1, GatewayAssumption DEF OnItsWay
  <2> QED
    BY <1>1, <2>1, ForwardedUnderPolicy DEF OnItsWay
<1>2. CASE r.via # "gateway"
  BY <1>2 DEF OnItsWay
<1> QED
  BY <1>1, <1>2

\* What is known of a call that the engine has accepted.
LEMMA AcceptedFacts ==
    ASSUME EdgeInv, NEW i \in Ids, Accepted(i)
    PROVE  /\ OnItsWay(client[i].req, client[i].fwd)
           /\ WellFormed(client[i].fwd)
           /\ Handles(call[i], client[i].fwd)
           /\ rt.lane \in Int
           /\ client[i].req.via = "gateway" =>
                  /\ UserOf(client[i].req.bearer) \in UserIds
                  /\ client[i].fwd = Forwarded(client[i].req, UserOf(client[i].req.bearer))
                  /\ WellFormed(client[i].req) /\ PolicyStatus(client[i].req) = 200
<1>1. client[i].at \in {"waiting", "streaming"} /\ Handles(call[i], client[i].fwd)
  BY DEF EdgeInv, CallInv, Serves
<1>2. OnItsWay(client[i].req, client[i].fwd)
  BY <1>1 DEF EdgeInv, ClientInv, Passage
<1>3. client[i].req.via = "gateway" => UserOf(client[i].req.bearer) \in UserIds
  BY <1>2, GatewayAssumption DEF OnItsWay
<1>4. WellFormed(client[i].fwd)
  BY <1>2, OnItsWayIsWellFormed
<1>5. rt.lane \in Int
  BY DEF EdgeInv, PlanInv, PlanType, BootType
<1> QED
  BY <1>1, <1>2, <1>3, <1>4, <1>5 DEF OnItsWay

\* Every conversation id in use begins with the user it is used by.
LEMMA IdsOfUsers ==
    ASSUME EdgeInv, NEW i \in Ids, Accepted(i), rt.api, call[i].conv # <<>>
    PROVE  /\ call[i].user \in UserIds /\ call[i].user \in Seq(STRING)
           /\ call[i].conv \in Seq(STRING) /\ Continues(call[i].conv, call[i].user)
<1> DEFINE m == client[i].fwd
<1>1. WellFormed(m) /\ Handles(call[i], m)
  BY AcceptedFacts
<1>2. /\ AuthStatus(m) = 200 /\ Caller(m) = AuthUser(m)
      /\ ChatStatus(m, Caller(m)) = 200
      /\ call[i].user = Caller(m) /\ call[i].conv = ConvId(m, Caller(m))
  BY <1>1 DEF Handles, Caller
<1> HIDE DEF m
<1>3. Caller(m) \in UserIds
  BY <1>1, <1>2, AuthenticUser
<1>4. ConvId(m, Caller(m)) \in Seq(STRING) /\ Continues(ConvId(m, Caller(m)), Caller(m))
  BY <1>1, <1>2, <1>3, ConversationOfUser
<1>5. Caller(m) \in Seq(STRING)
  BY <1>3, KeyAssumption
<1> QED
  BY <1>2, <1>3, <1>4, <1>5

\* Whatever keys, headers, ids and bodies the clients send, and however the
\* engine dies and comes back meanwhile, what runs for a client of the gateway
\* runs as the user of its key, and two users share a conversation id only
\* where the name of one is the other's with a colon and more behind it
\* (proxy.py, cne_api.cpp:189).
THEOREM TenantsNamed == Spec => []TenantNamed
<1>1. ASSUME EdgeInv PROVE TenantNamed
  <2>1. ASSUME NEW i \in Ids, Accepted(i), rt.api, client[i].req.via = "gateway"
        PROVE  call[i].user = UserOf(client[i].req.bearer)
    <3>1. /\ UserOf(client[i].req.bearer) \in UserIds
          /\ client[i].fwd = Forwarded(client[i].req, UserOf(client[i].req.bearer))
          /\ WellFormed(client[i].req) /\ PolicyStatus(client[i].req) = 200
          /\ Handles(call[i], client[i].fwd)
      BY <1>1, <2>1, AcceptedFacts
    <3>2. AuthUser(client[i].fwd) = UserOf(client[i].req.bearer)
      BY <3>1, ForwardedUnderPolicy
    <3> QED
      BY <2>1, <3>1, <3>2 DEF Handles, Caller
  <2>2. ASSUME NEW i \in Ids, NEW j \in Ids, Accepted(i), Accepted(j), rt.api,
               call[i].conv # <<>>, call[j].conv = call[i].conv
        PROVE  \/ call[j].user = call[i].user
               \/ Continues(call[j].user, call[i].user)
               \/ Continues(call[i].user, call[j].user)
    <3>1. /\ call[i].user \in Seq(STRING) /\ call[i].conv \in Seq(STRING)
          /\ Continues(call[i].conv, call[i].user)
      BY <1>1, <2>2, IdsOfUsers
    <3>2. /\ call[j].user \in Seq(STRING)
          /\ Continues(call[i].conv, call[j].user)
      BY <1>1, <2>2, IdsOfUsers
    <3> QED
      BY <3>1, <3>2, TwoBeginnings
  <2> QED
    BY <2>1, <2>2 DEF TenantNamed
<1> QED
  BY <1>1, EdgeHolds, PTL

\* No conversation id is shared by two users.
TenantsApart ==
    \A i, j \in Ids :
        Accepted(i) /\ Accepted(j) /\ rt.api /\ call[i].conv # <<>>
            /\ call[j].conv = call[i].conv => call[j].user = call[i].user

\* Where no user has a colon in the name, which nothing in the repository
\* asks for (keys.txt, cne_api.cpp:189), no two users share an id.
THEOREM ColonFreeTenantsApart ==
    ASSUME \A u \in UserIds : Len(u) = 1
    PROVE  Spec => []TenantsApart
<1>1. ASSUME EdgeInv PROVE TenantsApart
  <2> SUFFICES ASSUME NEW i \in Ids, NEW j \in Ids, Accepted(i), Accepted(j), rt.api,
                      call[i].conv # <<>>, call[j].conv = call[i].conv
               PROVE  call[j].user = call[i].user
    BY DEF TenantsApart
  <2>1. /\ call[i].user \in UserIds /\ call[i].user \in Seq(STRING)
        /\ call[i].conv \in Seq(STRING) /\ Continues(call[i].conv, call[i].user)
    BY <1>1, IdsOfUsers
  <2>2. /\ call[j].user \in UserIds /\ call[j].user \in Seq(STRING)
        /\ Continues(call[i].conv, call[j].user)
    BY <1>1, IdsOfUsers
  <2>3. ~Continues(call[j].user, call[i].user) /\ ~Continues(call[i].user, call[j].user)
    BY <2>1, <2>2 DEF Continues
  <2> QED
    BY <2>1, <2>2, <2>3, TwoBeginnings
<1> QED
  BY <1>1, EdgeHolds, PTL

\* Whatever the clients ask for, nothing that the engine runs for a client of
\* the gateway is longer than the cap; and when thinking is off, no qwen3 model
\* is left room to think and of no model but lfm2moe is thinking shown
\* (policy.py:15, cne-server.cpp:766, :889).
THEOREM PolicyEnforced == Spec => []PolicyHolds
<1>1. ASSUME EdgeInv PROVE PolicyHolds
  <2> SUFFICES ASSUME NEW i \in Ids, Accepted(i), client[i].req.via = "gateway"
               PROVE  /\ TokenCap > 0 => call[i].nGen <= TokenCap
                      /\ ~AllowThinking => /\ rt.arch = "qwen3" => ~call[i].think
                                           /\ rt.arch # "lfm2moe" => call[i].strip
    BY DEF PolicyHolds
  <2> DEFINE m == client[i].fwd
  <2>1. /\ UserOf(client[i].req.bearer) \in UserIds
        /\ m = Forwarded(client[i].req, UserOf(client[i].req.bearer))
        /\ WellFormed(client[i].req) /\ PolicyStatus(client[i].req) = 200
        /\ Handles(call[i], m) /\ WellFormed(m) /\ rt.lane \in Int
    BY <1>1, AcceptedFacts
  <2>2. /\ TokenCap > 0 => MaxTokens(m) <= TokenCap
        /\ ~AllowThinking => ~ThinkEnabled(m)
    BY <2>1, ForwardedUnderPolicy
  <2>3. /\ ChatStatus(m, Caller(m)) = 200
        /\ call[i].nGen = NGen(m)
        /\ call[i].think = ~ThinkClosed(m) /\ call[i].strip = ThinkStripped(m)
    BY <2>1 DEF Handles
  <2> HIDE DEF m
  <2>4. NGen(m) \in Int /\ NGen(m) <= MaxTokens(m)
    BY <2>1, <2>3, GenerationFits
  <2>5. MaxTokens(m) \in Int /\ TokenCap \in Int
    BY <2>1, LengthsType, GatewayAssumption
  <2>6. TokenCap > 0 => call[i].nGen <= TokenCap
    BY <2>2, <2>3, <2>4, <2>5
  <2>7. ~AllowThinking => /\ rt.arch = "qwen3" => ~call[i].think
                          /\ rt.arch # "lfm2moe" => call[i].strip
    BY <2>2, <2>3 DEF ThinkClosed, ThinkStripped
  <2> QED
    BY <2>6, <2>7
<1> QED
  BY <1>1, EdgeHolds, PTL

\* For messages of every number and length, an accepted request fits its lane
\* with what it will generate; what was dropped are the oldest messages but
\* those of the system, and no fewer would have done (cne-server.cpp:491).
THEOREM RequestsFit == Spec => []FitsLane
<1>1. ASSUME EdgeInv PROVE FitsLane
  <2>1. ASSUME NEW i \in Ids, Accepted(i)
        PROVE  /\ call[i].nGen >= 1 /\ call[i].prompt + call[i].nGen + 4 <= rt.lane
               /\ Fitting(client[i].fwd, call[i].kept, DOMAIN client[i].fwd.messages \ call[i].kept)
    <3> DEFINE m == client[i].fwd
    <3>1. WellFormed(m) /\ Handles(call[i], m) /\ rt.lane \in Int
      BY <1>1, <2>1, AcceptedFacts
    <3>2. /\ ChatStatus(m, Caller(m)) = 200
          /\ call[i].nGen = NGen(m) /\ call[i].prompt = Prompt(m)
          /\ call[i].kept = Trimmed(m.messages, MaxPrompt(m))
      BY <3>1 DEF Handles
    <3> HIDE DEF m
    <3>3. NGen(m) >= 1 /\ Prompt(m) + NGen(m) + 4 <= rt.lane
      BY <3>1, <3>2, GenerationFits
    <3>4. Fitting(m, call[i].kept, DOMAIN m.messages \ call[i].kept)
      BY <3>1, <3>2, KeptFits
    <3> QED
      BY <3>2, <3>3, <3>4 DEF m
  <2> QED
    BY <2>1 DEF FitsLane, Fitting
<1> QED
  BY <1>1, EdgeHolds, PTL

-----------------------------------------------------------------------------
(* The sliding windows.  side is the gateway's or the engine's record of   *)
(* the requests, hits its limiter, at the time.                            *)

\* The requests of u that were admitted since t.
Since(side, u, t) ==
    {i \in Ids : side[i].user = u /\ side[i].admitted # Never /\ side[i].admitted >= t}

\* From some position f on, h holds one hit for every request since t.
Tracks(side, h, u, t) ==
    \E f \in 1 .. Len(h) + 1 :
        /\ \A n \in DOMAIN h : h[n] >= t <=> n >= f
        /\ Cardinality(Since(side, u, t)) = Len(h) + 1 - f

\* So it is for every time that the window of some later request reaches.
TracksUser(side, h, u, at) == \A t \in Int : t >= at - Window => Tracks(side, h, u, t)

TimesOk(side, at) ==
    \A i \in Ids :
        /\ side[i].admitted # Never => side[i].admitted \in 0 .. at
        /\ side[i].refused # Never => side[i].refused \in 0 .. at /\ side[i].user \in UserIds

HitsOk(side, hits, rpm, at) ==
    /\ DOMAIN hits = UserIds
    /\ \A u \in UserIds :
           hits[u] \in Seq(Int) /\ (rpm > 0 => TracksUser(side, hits[u], u, at))

WindowsOk(side, rpm) ==
    rpm > 0 => \A u \in UserIds, t \in Int : Cardinality(Between(side, u, t, t + Window)) <= rpm

FullOk(side, rpm) ==
    \A i \in Ids : side[i].refused # Never =>
        /\ rpm > 0
        /\ Cardinality(Between(side, side[i].user, side[i].refused - Window,
                               side[i].refused)) = rpm

LimitInv(side, hits, rpm, at) ==
    /\ at \in 0 .. MaxNow /\ rpm \in Int
    /\ TimesOk(side, at) /\ HitsOk(side, hits, rpm, at)
    /\ WindowsOk(side, rpm) /\ FullOk(side, rpm)

\* Popping the hits that are too old loses none that counts, and what is left
\* is as long as there are requests in the window.
LEMMA PrunedTracks ==
    ASSUME NEW side, NEW u, NEW at \in Nat, NEW h \in Seq(Int), TracksUser(side, h, u, at)
    PROVE  /\ Pruned(h, at) \in Seq(Int)
           /\ TracksUser(side, Pruned(h, at), u, at)
           /\ Len(Pruned(h, at)) = Cardinality(Since(side, u, at - Window))
<1>1. at - Window \in Int /\ Window \in Nat /\ Len(h) \in Nat /\ DOMAIN h = 1 .. Len(h)
  BY WindowAssumption
<1>2. PICK k \in 1 .. Len(h) + 1 :
          /\ \A n \in DOMAIN h : h[n] >= at - Window <=> n >= k
          /\ Cardinality(Since(side, u, at - Window)) = Len(h) + 1 - k
  BY <1>1 DEF TracksUser, Tracks
<1> DEFINE recent == {n \in DOMAIN h : at - h[n] <= Window}
           p == SubSeq(h, k, Len(h))
<1>3. recent = {n \in DOMAIN h : n >= k}
  <2>1. \A n \in DOMAIN h : at - h[n] <= Window <=> h[n] >= at - Window
    BY <1>1
  <2> QED
    BY <1>2, <2>1
<1>4. Pruned(h, at) = IF recent = {} THEN <<>> ELSE SubSeq(h, Min(recent), Len(h))
  BY Zenon DEF Pruned
<1>5. Pruned(h, at) = p
  <2>1. CASE k = Len(h) + 1
    <3>1. recent = {}
      BY <1>1, <1>3, <2>1
    <3>2. Pruned(h, at) = <<>>
      BY <3>1 DEF Pruned
    <3> QED
      BY <1>1, <2>1, <3>2
  <2>2. CASE k \in DOMAIN h
    <3>1. k \in recent /\ \A n \in recent : k <= n
      BY <1>1, <1>3, <2>2
    <3>2. recent \in SUBSET Nat /\ recent # {}
      BY <1>1, <3>1
    <3> HIDE DEF recent
    <3>3. Min(recent) \in recent /\ \A n \in recent : Min(recent) <= n
      BY <3>2, LeastOf
    <3>4. Min(recent) = k
      <4> DEFINE least == Min(recent)
      <4>1. k <= least /\ least <= k
        BY <3>1, <3>3
      <4>2. k \in Nat /\ least \in Nat
        BY <3>1, <3>2, <3>3
      <4> HIDE DEF least
      <4>3. least = k
        BY <4>1, <4>2
      <4> QED
        BY <4>3 DEF least
    <3> QED
      BY <1>4, <3>2, <3>4
  <2> QED
    BY <1>1, <2>1, <2>2
<1>6. /\ p \in Seq(Int) /\ Len(p) = Len(h) + 1 - k
      /\ \A n \in 1 .. Len(p) : p[n] = h[n + k - 1] /\ n + k - 1 \in DOMAIN h
  BY <1>1
<1> HIDE DEF p
<1>7. ASSUME NEW t \in Int, t >= at - Window
      PROVE  Tracks(side, p, u, t)
  <2>1. PICK f \in 1 .. Len(h) + 1 :
            /\ \A n \in DOMAIN h : h[n] >= t <=> n >= f
            /\ Cardinality(Since(side, u, t)) = Len(h) + 1 - f
    BY <1>7 DEF TracksUser, Tracks
  <2>2. f >= k
    <3>1. CASE f \in DOMAIN h
      <4>1. h[f] >= t /\ h[f] \in Int
        BY <2>1, <3>1
      <4>2. h[f] >= at - Window
        BY <1>1, <1>7, <4>1
      <4> QED
        BY <1>2, <3>1, <4>2
    <3>2. CASE f = Len(h) + 1
      BY <1>1, <3>2
    <3> QED
      BY <1>1, <3>1, <3>2
  <2> DEFINE g == f - k + 1
  <2>3. g \in 1 .. Len(p) + 1 /\ Len(p) + 1 - g = Len(h) + 1 - f
    BY <1>1, <1>6, <2>2
  <2>4. ASSUME NEW n \in DOMAIN p
        PROVE  p[n] >= t <=> n >= g
    <3>1. n \in 1 .. Len(p)
      <4>1. p \in Seq(Int)
        BY <1>6
      <4> QED
        BY ONLY <2>4, <4>1, SMTT(30)
    <3>2. p[n] = h[n + k - 1] /\ n + k - 1 \in DOMAIN h
      BY <1>6, <3>1
    <3>3. h[n + k - 1] >= t <=> n + k - 1 >= f
      BY <2>1, <3>2
    <3> QED
      BY <1>1, <3>1, <3>2, <3>3, SMTT(20)
  <2> HIDE DEF g
  <2> QED
    BY <2>1, <2>3, <2>4 DEF Tracks
<1> QED
  BY <1>2, <1>5, <1>6, <1>7 DEF TracksUser

\* The sets of requests are finite.
LEMMA FiniteSides ==
    ASSUME NEW side, NEW u, NEW a, NEW b
    PROVE  /\ IsFiniteSet(Since(side, u, a)) /\ Cardinality(Since(side, u, a)) \in Nat
           /\ IsFiniteSet(Between(side, u, a, b))
           /\ Cardinality(Between(side, u, a, b)) \in Nat
<1>1. Since(side, u, a) \in SUBSET Ids /\ Between(side, u, a, b) \in SUBSET Ids
  BY DEF Since, Between
<1> QED
  BY <1>1, EdgeAssumption, FS_Subset, FS_CardinalityType

\* Nothing is admitted later than now.
LEMMA SinceIsBetween ==
    ASSUME NEW side, NEW u, NEW at \in Nat, TimesOk(side, at), NEW t \in Int
    PROVE  Since(side, u, t) = Between(side, u, t, at)
BY DEF Since, Between, TimesOk

\* Time goes on.
LEMMA TickTracks ==
    ASSUME NEW side, NEW hits, NEW rpm, NEW at, LimitInv(side, hits, rpm, at), at < MaxNow
    PROVE  LimitInv(side, hits, rpm, at + 1)
<1>1. at \in Nat /\ at + 1 \in 0 .. MaxNow /\ MaxNow \in Nat
  BY ClockAssumption DEF LimitInv
<1>2. TimesOk(side, at + 1)
  BY <1>1 DEF LimitInv, TimesOk
<1>3. \A h, u : TracksUser(side, h, u, at) => TracksUser(side, h, u, at + 1)
  BY <1>1, WindowAssumption DEF TracksUser
<1> QED
  BY <1>1, <1>2, <1>3 DEF LimitInv, HitsOk

\* Steps that admit and refuse nobody.
LEMMA QuietTracks ==
    ASSUME NEW side, NEW hits, NEW rpm, NEW at, LimitInv(side, hits, rpm, at), NEW new,
           \A i \in Ids :
               /\ new[i].admitted = side[i].admitted
               /\ side[i].admitted # Never => new[i].user = side[i].user
               /\ new[i].refused # Never =>
                      new[i].refused = side[i].refused /\ new[i].user = side[i].user
    PROVE  LimitInv(new, hits, rpm, at)
<1>1. \A u, t : Since(new, u, t) = Since(side, u, t)
  BY DEF Since
<1>2. \A u, a, b : Between(new, u, a, b) = Between(side, u, a, b)
  BY DEF Between
<1>3. TimesOk(new, at)
  BY DEF LimitInv, TimesOk
<1>4. \A h, u : TracksUser(side, h, u, at) => TracksUser(new, h, u, at)
  BY <1>1 DEF TracksUser, Tracks
<1>5. HitsOk(new, hits, rpm, at)
  BY <1>4 DEF LimitInv, HitsOk
<1>6. WindowsOk(new, rpm)
  BY <1>2 DEF LimitInv, WindowsOk
<1>7. FullOk(new, rpm)
  BY <1>2 DEF LimitInv, FullOk
<1> QED
  BY <1>3, <1>5, <1>6, <1>7 DEF LimitInv

\* Nobody of another user than u moves in or out of a window.
LEMMA OthersUnmoved ==
    ASSUME NEW side, NEW new, NEW j \in Ids, NEW u,
           side[j].admitted = Never, new[j].user = u,
           \A i \in Ids : i # j => new[i] = side[i],
           NEW v, v # u
    PROVE  /\ \A t : Since(new, v, t) = Since(side, v, t)
           /\ \A a, b : Between(new, v, a, b) = Between(side, v, a, b)
<1>1. \A t : Since(new, v, t) = Since(side, v, t)
  BY DEF Since
<1>2. \A a, b : Between(new, v, a, b) = Between(side, v, a, b)
  BY DEF Between
<1> QED
  BY <1>1, <1>2

\* A request is admitted and counted.
LEMMA AdmitTracks ==
    ASSUME NEW side, NEW hits, NEW rpm, NEW at, LimitInv(side, hits, rpm, at),
           NEW j \in Ids, NEW u \in UserIds, side[j].admitted = Never,
           Allows(hits, rpm, u, at),
           NEW new, \A i \in Ids : i # j => new[i] = side[i],
           new[j].user = u, new[j].admitted = at, new[j].refused = Never
    PROVE  LimitInv(new, Counted(hits, rpm, u, at), rpm, at)
<1>1. /\ at \in Nat /\ at \in 0 .. MaxNow /\ at # Never /\ rpm \in Int /\ Window \in Nat
      /\ TimesOk(side, at)
  BY ClockAssumption, WindowAssumption DEF LimitInv
<1>2. TimesOk(new, at)
  BY <1>1 DEF TimesOk
<1>3. ASSUME NEW v \in UserIds, v # u
      PROVE  /\ \A t : Since(new, v, t) = Since(side, v, t)
             /\ \A a, b : Between(new, v, a, b) = Between(side, v, a, b)
  BY <1>3, OthersUnmoved
<1>4. ASSUME NEW t \in Int, t <= at
      PROVE  Cardinality(Since(new, u, t)) = Cardinality(Since(side, u, t)) + 1
  <2>1. Since(new, u, t) = Since(side, u, t) \cup {j} /\ j \notin Since(side, u, t)
    BY <1>1, <1>4 DEF Since
  <2> DEFINE S == Since(side, u, t)
  <2>2. IsFiniteSet(S) /\ j \notin S
    BY <2>1, FiniteSides
  <2> HIDE DEF S
  <2>3. Cardinality(S \cup {j}) = Cardinality(S) + 1
    BY <2>2, FS_AddElement
  <2> QED
    BY <2>1, <2>3 DEF S
<1>5. ASSUME NEW a \in Int, NEW b \in Int, ~(at \in a .. b)
      PROVE  Between(new, u, a, b) = Between(side, u, a, b)
  BY <1>1, <1>5 DEF Between
<1>6. CASE ~(rpm > 0)
  <2>1. Counted(hits, rpm, u, at) = hits
    BY <1>1, <1>6 DEF Counted
  <2>2. FullOk(new, rpm)
    BY <1>6 DEF FullOk, LimitInv
  <2> QED
    BY <1>1, <1>2, <1>6, <2>1, <2>2 DEF LimitInv, HitsOk, WindowsOk
<1>7. CASE rpm > 0
  <2> DEFINE p == Pruned(hits[u], at)
             q == Append(p, at)
  <2>1. hits[u] \in Seq(Int) /\ TracksUser(side, hits[u], u, at) /\ DOMAIN hits = UserIds
    BY <1>7 DEF LimitInv, HitsOk
  <2>2. /\ p \in Seq(Int) /\ TracksUser(side, p, u, at)
        /\ Len(p) = Cardinality(Since(side, u, at - Window))
    <3> DEFINE h == hits[u]
    <3>1. at \in Nat /\ h \in Seq(Int) /\ TracksUser(side, h, u, at)
      BY <1>1, <2>1
    <3> HIDE DEF h
    <3>2. /\ Pruned(h, at) \in Seq(Int) /\ TracksUser(side, Pruned(h, at), u, at)
          /\ Len(Pruned(h, at)) = Cardinality(Since(side, u, at - Window))
      BY ONLY <3>1, PrunedTracks
    <3> QED
      BY <3>2 DEF h
  <2>3. Len(p) < rpm /\ Counted(hits, rpm, u, at) = [hits EXCEPT ![u] = q]
    <3>1. Len(p) < rpm
      BY <1>1, <1>7 DEF Allows
    <3>2. Counted(hits, rpm, u, at)
              = [hits EXCEPT ![u] = IF Len(p) < rpm THEN Append(p, at) ELSE p]
      BY <1>1, <1>7 DEF Counted
    <3> HIDE DEF p
    <3> QED
      BY <3>1, <3>2
  <2> HIDE DEF p
  <2>4. /\ q \in Seq(Int) /\ Len(q) = Len(p) + 1 /\ Len(p) \in Nat
        /\ DOMAIN p = 1 .. Len(p) /\ DOMAIN q = 1 .. Len(p) + 1
        /\ q[Len(p) + 1] = at /\ \A n \in DOMAIN p : q[n] = p[n] /\ p[n] \in Int
    BY <1>1, <2>2
  <2> HIDE DEF q
  <2>5. ASSUME NEW t \in Int, t >= at - Window
        PROVE  Tracks(new, q, u, t)
    <3>1. PICK f \in 1 .. Len(p) + 1 :
              /\ \A n \in DOMAIN p : p[n] >= t <=> n >= f
              /\ Cardinality(Since(side, u, t)) = Len(p) + 1 - f
      BY <2>2, <2>5 DEF TracksUser, Tracks
    <3>2. CASE t <= at
      <4>1. f \in 1 .. Len(q) + 1
        BY <2>4
      <4>2. \A n \in DOMAIN q : q[n] >= t <=> n >= f
        BY <1>1, <2>4, <3>1, <3>2
      <4>3. Cardinality(Since(new, u, t)) = Len(q) + 1 - f
        BY <1>4, <2>4, <3>1, <3>2
      <4> QED
        BY <4>1, <4>2, <4>3 DEF Tracks
    <3>3. CASE t > at
      <4>1. Since(side, u, t) = {} /\ Since(new, u, t) = {}
        BY <1>1, <1>2, <3>3 DEF Since, TimesOk
      <4>2. Cardinality(Since(side, u, t)) = 0 /\ Cardinality(Since(new, u, t)) = 0
        BY <4>1, FS_EmptySet
      <4>3. f = Len(p) + 1
        BY <2>4, <3>1, <4>2
      <4>4. \A n \in DOMAIN q : ~(q[n] >= t)
        BY <1>1, <2>4, <3>1, <3>3, <4>3
      <4>5. Len(q) + 1 \in 1 .. Len(q) + 1 /\ Len(q) + 1 - (Len(q) + 1) = 0
        BY <2>4
      <4>6. \A n \in DOMAIN q : ~(n >= Len(q) + 1)
        BY <2>4
      <4> QED
        BY <4>2, <4>4, <4>5, <4>6 DEF Tracks
    <3> QED
      BY <1>1, <3>2, <3>3
  <2>6. HitsOk(new, [hits EXCEPT ![u] = q], rpm, at)
    <3>1. TracksUser(new, q, u, at)
      BY <2>5 DEF TracksUser
    <3>2. \A v \in UserIds : v # u => TracksUser(new, hits[v], v, at)
      BY <1>3, <1>7 DEF LimitInv, HitsOk, TracksUser, Tracks
    <3> QED
      BY <2>1, <2>4, <3>1, <3>2 DEF HitsOk, LimitInv
  <2>7. WindowsOk(new, rpm)
    <3> SUFFICES ASSUME NEW v \in UserIds, NEW t \in Int
                 PROVE  Cardinality(Between(new, v, t, t + Window)) <= rpm
      BY DEF WindowsOk
    <3>1. Cardinality(Between(side, v, t, t + Window)) <= rpm
      BY <1>7 DEF LimitInv, WindowsOk
    <3>2. CASE v # u
      BY <1>3, <3>1, <3>2
    <3>3. CASE v = u /\ ~(at \in t .. t + Window)
      BY <1>1, <1>5, <3>1, <3>3
    <3>4. CASE v = u /\ at \in t .. t + Window
      <4>1. Between(new, u, t, t + Window) \in SUBSET Since(new, u, at - Window)
        BY <1>1, <1>2, <3>4 DEF Between, Since, TimesOk
      <4>2. Cardinality(Since(new, u, at - Window)) = Len(p) + 1
        BY <1>1, <1>4, <2>2
      <4>3. Cardinality(Between(new, u, t, t + Window)) <= Cardinality(Since(new, u, at - Window))
        BY <4>1, FiniteSides, FS_Subset
      <4>4. Cardinality(Between(new, u, t, t + Window)) \in Nat
        BY FiniteSides
      <4> QED
        BY <1>1, <2>3, <2>4, <3>4, <4>2, <4>3, <4>4
    <3> QED
      BY <3>2, <3>3, <3>4
  <2>8. FullOk(new, rpm)
    <3> SUFFICES ASSUME NEW i \in Ids, new[i].refused # Never
                 PROVE  Cardinality(Between(new, new[i].user, new[i].refused - Window,
                                            new[i].refused)) = rpm
      BY <1>7 DEF FullOk
    <3> DEFINE v == side[i].user
               r == side[i].refused
    <3>1. i # j /\ new[i] = side[i]
      OBVIOUS
    <3>2. r \in 0 .. at /\ v \in UserIds /\ Cardinality(Between(side, v, r - Window, r)) = rpm
      BY <1>1, <3>1 DEF LimitInv, TimesOk, FullOk
    <3> HIDE DEF v, r
    <3>3. Cardinality(Between(new, v, r - Window, r)) = rpm
      <4>1. CASE v # u
        BY <1>3, <3>2, <4>1
      <4>2. CASE v = u /\ r # at
        BY <1>1, <1>5, <3>2, <4>2
      <4>3. CASE v = u /\ r = at
        <5>1. Between(side, u, at - Window, at) = Since(side, u, at - Window)
          BY <1>1, SinceIsBetween
        <5> QED
          BY <1>1, <2>2, <2>3, <2>4, <3>2, <4>3, <5>1
      <4> QED
        BY <4>1, <4>2, <4>3
    <3> QED
      BY <3>1, <3>3 DEF v, r
  <2> QED
    BY <1>1, <1>2, <2>3, <2>6, <2>7, <2>8 DEF LimitInv
<1> QED
  BY <1>6, <1>7

\* A request is refused.
LEMMA RefuseTracks ==
    ASSUME NEW side, NEW hits, NEW rpm, NEW at, LimitInv(side, hits, rpm, at),
           NEW j \in Ids, NEW u \in UserIds, side[j].admitted = Never,
           ~Allows(hits, rpm, u, at),
           NEW new, \A i \in Ids : i # j => new[i] = side[i],
           new[j].user = u, new[j].admitted = Never, new[j].refused = at
    PROVE  LimitInv(new, Counted(hits, rpm, u, at), rpm, at)
<1>1. /\ at \in Nat /\ at \in 0 .. MaxNow /\ rpm \in Int /\ Window \in Nat
      /\ TimesOk(side, at) /\ rpm > 0
  BY ClockAssumption, WindowAssumption DEF LimitInv, Allows
<1>2. TimesOk(new, at)
  BY <1>1 DEF TimesOk
<1>3. \A v, t : Since(new, v, t) = Since(side, v, t)
  BY DEF Since
<1>4. \A v, a, b : Between(new, v, a, b) = Between(side, v, a, b)
  BY DEF Between
<1> DEFINE p == Pruned(hits[u], at)
<1>5. hits[u] \in Seq(Int) /\ TracksUser(side, hits[u], u, at) /\ DOMAIN hits = UserIds
  BY <1>1 DEF LimitInv, HitsOk
<1>6. /\ p \in Seq(Int) /\ TracksUser(side, p, u, at)
      /\ Len(p) = Cardinality(Since(side, u, at - Window))
  BY <1>1, <1>5, PrunedTracks
<1>7. ~(Len(p) < rpm) /\ Counted(hits, rpm, u, at) = [hits EXCEPT ![u] = p]
  BY <1>1 DEF Allows, Counted
<1> HIDE DEF p
<1>8. HitsOk(new, [hits EXCEPT ![u] = p], rpm, at)
  <2>1. \A h, v : TracksUser(side, h, v, at) => TracksUser(new, h, v, at)
    BY <1>3 DEF TracksUser, Tracks
  <2> QED
    BY <1>5, <1>6, <2>1 DEF HitsOk, LimitInv
<1>9. WindowsOk(new, rpm)
  BY <1>4 DEF LimitInv, WindowsOk
<1>10. Cardinality(Between(side, u, at - Window, at)) = rpm
  <2>1. Between(side, u, at - Window, at) = Since(side, u, at - Window)
    BY <1>1, SinceIsBetween
  <2>2. Cardinality(Between(side, u, at - Window, (at - Window) + Window)) <= rpm
    BY <1>1 DEF LimitInv, WindowsOk
  <2>3. (at - Window) + Window = at /\ Len(p) \in Nat
    BY <1>1, <1>6
  <2>4. Len(p) <= rpm
    BY <1>6, <2>1, <2>2, <2>3
  <2> QED
    BY <1>1, <1>6, <1>7, <2>1, <2>3, <2>4
<1>11. FullOk(new, rpm)
  <2> SUFFICES ASSUME NEW i \in Ids, new[i].refused # Never
               PROVE  Cardinality(Between(side, new[i].user, new[i].refused - Window,
                                          new[i].refused)) = rpm
    BY <1>1, <1>4 DEF FullOk
  <2>1. CASE i = j
    BY <1>10, <2>1
  <2>2. CASE i # j
    BY <2>2 DEF LimitInv, FullOk
  <2> QED
    BY <2>1, <2>2
<1> QED
  BY <1>1, <1>2, <1>7, <1>8, <1>9, <1>11 DEF LimitInv

\* A limiter that has counted nobody.
LEMMA EmptyTracks ==
    ASSUME NEW side, \A i \in Ids : side[i].admitted = Never /\ side[i].refused = Never,
           NEW rpm \in Int, NEW at \in 0 .. MaxNow
    PROVE  LimitInv(side, NoHits, rpm, at)
<1>1. \A u, t : Since(side, u, t) = {}
  BY DEF Since
<1>2. \A u, a, b : Between(side, u, a, b) = {}
  BY DEF Between
<1>3. \A u \in UserIds, t \in Int : Tracks(side, <<>>, u, t)
  <2> SUFFICES ASSUME NEW u \in UserIds, NEW t \in Int PROVE Tracks(side, <<>>, u, t)
    OBVIOUS
  <2>1. Cardinality(Since(side, u, t)) = 0
    BY <1>1, FS_EmptySet
  <2>2. 1 \in 1 .. Len(<<>>) + 1 /\ Len(<<>>) + 1 - 1 = 0 /\ DOMAIN <<>> = {}
    OBVIOUS
  <2> QED
    BY <2>1, <2>2 DEF Tracks
<1>4. HitsOk(side, NoHits, rpm, at)
  <2>1. DOMAIN NoHits = UserIds /\ \A u \in UserIds : NoHits[u] = <<>>
    BY DEF NoHits
  <2>2. <<>> \in Seq(Int)
    OBVIOUS
  <2> QED
    BY <1>3, <2>1, <2>2 DEF HitsOk, TracksUser
<1>5. WindowsOk(side, rpm)
  BY <1>2, FS_EmptySet DEF WindowsOk
<1> QED
  BY <1>4, <1>5 DEF LimitInv, TimesOk, FullOk

GatewayLimit == LimitInv(client, gwHits, RpmPerUser, now)

\* An engine that does not listen has counted nobody.
EngineLimit ==
    /\ LimitInv(call, apiHits, rt.rpm, now)
    /\ ~Listening => /\ apiHits = NoHits
                     /\ \A i \in Ids : call[i].admitted = Never /\ call[i].refused = Never

\* A client's side that only goes on or ends.
LEMMA QuietClient ==
    ASSUME GatewayLimit, UNCHANGED <<gwHits, now>>,
           \A i \in Ids : /\ client'[i].admitted = client[i].admitted
                          /\ client'[i].user = client[i].user
                          /\ client'[i].refused \in {client[i].refused, Never}
    PROVE  GatewayLimit'
<1>1. LimitInv(client', gwHits, RpmPerUser, now)
  BY QuietTracks DEF GatewayLimit
<1> QED
  BY <1>1 DEF GatewayLimit

\* A step of the gateway: it counts a request when it lets it in or refuses it.
LEMMA GateLimits ==
    ASSUME ClientInv, GatewayLimit, NEW j \in Ids, GatewayStep(j), UNCHANGED now
    PROVE  GatewayLimit'
<1>1. DOMAIN client = Ids
  BY DEF ClientInv, ClientType
<1>2. ASSUME UNCHANGED gwHits, NEW status, NEW end,
             client' = [client EXCEPT ![j] = Closed(@, status, end)]
      PROVE  GatewayLimit'
  <2>1. /\ client'[j] = Closed(client[j], status, end)
        /\ \A i \in Ids : i # j => client'[i] = client[i]
    BY <1>1, <1>2
  <2> QED
    BY <1>2, <2>1, ClosedFacts, QuietClient
<1>3. CASE Unauthorized(j) \/ Refuse(j) \/ Get(j) \/ Unreachable(j) \/ Relay(j) \/ StreamEnds(j)
  <2>1. /\ UNCHANGED gwHits
        /\ \E status, end : client' = [client EXCEPT ![j] = Closed(@, status, end)]
    BY <1>3 DEF Unauthorized, Refuse, Get, Unreachable, Relay, StreamEnds, Answer
  <2> QED
    BY <1>2, <2>1
<1>4. CASE Forward(j)
  <2>1. UNCHANGED gwHits /\ \E m : client' = [client EXCEPT ![j].at = "sent", ![j].fwd = m]
    BY <1>4 DEF Forward
  <2> QED
    BY <1>1, <2>1, QuietClient
<1>5. CASE StreamStarts(j)
  <2>1. UNCHANGED gwHits /\ client' = [client EXCEPT ![j].at = "streaming", ![j].status = 200]
    BY <1>5 DEF StreamStarts
  <2> QED
    BY <1>1, <2>1, QuietClient
<1>6. CASE TooMany(j) \/ Admit(j)
  <2> DEFINE user == UserOf(client[j].req.bearer)
  <2>1. /\ client[j].at = "arrived" /\ client[j].req.bearer \in ClientKeys
        /\ gwHits' = Counted(gwHits, RpmPerUser, user, now)
    BY <1>6 DEF TooMany, Admit, NeedsUser
  <2>2. user \in UserIds
    BY <2>1, GatewayAssumption
  <2>3. /\ client[j].admitted = Never /\ client[j].refused = Never
        /\ DOMAIN client[j] = DOMAIN Unused
    BY <2>1 DEF ClientInv, ClientType, Passage
  <2>4. CASE Admit(j)
    <3>1. /\ Allows(gwHits, RpmPerUser, user, now)
          /\ client' = [client EXCEPT ![j].at = "admitted", ![j].user = user,
                                      ![j].admitted = now]
      BY <2>4 DEF Admit
    <3> HIDE DEF user
    <3>2. /\ \A i \in Ids : i # j => client'[i] = client[i]
          /\ client'[j].user = user /\ client'[j].admitted = now
          /\ client'[j].refused = Never
      BY <1>1, <2>3, <3>1 DEF Unused
    <3>3. LimitInv(client', Counted(gwHits, RpmPerUser, user, now), RpmPerUser, now)
      <4>1. LimitInv(client, gwHits, RpmPerUser, now)
        BY DEF GatewayLimit
      <4>2. Allows(gwHits, RpmPerUser, user, now) /\ client[j].admitted = Never
        BY <2>3, <3>1
      <4> QED
        BY <2>2, <3>2, <4>1, <4>2, AdmitTracks
    <3> QED
      BY <2>1, <3>3 DEF GatewayLimit
  <2>5. CASE TooMany(j)
    <3> DEFINE old == Closed(client[j], 429, "whole")
    <3>1. /\ ~Allows(gwHits, RpmPerUser, user, now)
          /\ client' = [client EXCEPT ![j] = [old EXCEPT !.user = user, !.refused = now]]
      BY <2>5 DEF TooMany
    <3>2. DOMAIN old = DOMAIN Unused /\ old.admitted = Never
      BY <2>3, ClosedFacts
    <3> HIDE DEF user, old
    <3>3. /\ \A i \in Ids : i # j => client'[i] = client[i]
          /\ client'[j].user = user /\ client'[j].admitted = Never
          /\ client'[j].refused = now
      BY <1>1, <3>1, <3>2 DEF Unused
    <3>4. LimitInv(client', Counted(gwHits, RpmPerUser, user, now), RpmPerUser, now)
      BY <2>2, <2>3, <3>1, <3>3, RefuseTracks, ZenonT(30) DEF GatewayLimit
    <3> QED
      BY <2>1, <3>4 DEF GatewayLimit
  <2> QED
    BY <1>6, <2>4, <2>5
<1> QED
  BY <1>3, <1>4, <1>5, <1>6 DEF GatewayStep

\* The engine's side of a step that admits and refuses nobody.
LEMMA QuietEngine ==
    ASSUME EngineLimit, UNCHANGED <<rt, apiHits, now>>, Listening,
           \A i \in Ids : /\ call'[i].admitted = call[i].admitted
                          /\ call[i].admitted # Never => call'[i].user = call[i].user
                          /\ call'[i].refused # Never =>
                                 /\ call'[i].refused = call[i].refused
                                 /\ call'[i].user = call[i].user
    PROVE  EngineLimit'
<1>1. LimitInv(call', apiHits, rt.rpm, now)
  BY QuietTracks DEF EngineLimit
<1> QED
  BY <1>1 DEF EngineLimit, Listening

\* A request reaches the engine, which counts it when it has a user.
LEMMA PostLimits ==
    ASSUME CallInv, EngineLimit, NEW j \in Ids, NEW m, WellFormed(m), PostChat(j, m),
           Listening, UNCHANGED <<rt, now>>
    PROVE  EngineLimit'
<1>1. /\ DOMAIN call = Ids /\ DOMAIN call[j] = DOMAIN NoCall
      /\ call[j].admitted = Never /\ call[j].refused = Never
  BY DEF CallInv, CallType, PostChat
<1>2. LimitInv(call, apiHits, rt.rpm, now)
  BY DEF EngineLimit
<1>3. CASE BadBody(j, m) \/ Unauthenticated(j, m)
  <2>1. /\ UNCHANGED apiHits
        /\ \E status : call' = [call EXCEPT ![j] = Ended(@, "done", status)]
    BY <1>3 DEF BadBody, Unauthenticated, Reply
  <2>2. PICK status : call' = [call EXCEPT ![j] = Ended(@, "done", status)]
    BY <2>1
  <2>3. /\ call'[j] = Ended(call[j], "done", status)
        /\ \A i \in Ids : i # j => call'[i] = call[i]
    BY <1>1, <2>2
  <2> QED
    BY <2>1, <2>3, EndedFacts, QuietEngine
<1>4. CASE Limited(j, m)
  <2> DEFINE u == AuthUser(m)
             hits == Counted(apiHits, rt.rpm, u, now)
  <2>1. /\ AuthStatus(m) = 200 /\ ~Allows(apiHits, rt.rpm, u, now) /\ apiHits' = hits
        /\ call' = [call EXCEPT ![j].at = "done", ![j].status = 429,
                                ![j].user = u, ![j].refused = now]
    BY <1>4 DEF Limited
  <2>2. u \in UserIds
    BY <2>1, AuthenticUser
  <2> HIDE DEF u
  <2>3. /\ \A i \in Ids : i # j => call'[i] = call[i]
        /\ call'[j].user = u /\ call'[j].admitted = Never /\ call'[j].refused = now
    BY <1>1, <2>1 DEF NoCall
  <2>4. ~Allows(apiHits, rt.rpm, u, now)
    BY <2>1
  <2>5. LimitInv(call', hits, rt.rpm, now)
    BY <1>1, <1>2, <2>2, <2>3, <2>4, RefuseTracks
  <2>6. LimitInv(call', apiHits', rt.rpm, now)
    BY <2>1, <2>5
  <2> QED
    BY <2>6 DEF EngineLimit, Listening
<1>5. CASE Handled(j, m)
  <2> DEFINE user    == Caller(m)
             counted == [NoCall EXCEPT !.user = user,
                                       !.admitted = IF rt.api THEN now ELSE Never]
             hits    == Counted(apiHits, rt.rpm, user, now)
             status  == ChatStatus(m, user)
             refuse  == [counted EXCEPT !.at = "done", !.status = status]
             accept  == [counted EXCEPT !.at = "queued", !.conv = ConvId(m, user),
                                        !.nGen = NGen(m), !.prompt = Prompt(m),
                                        !.think = ~ThinkClosed(m),
                                        !.strip = ThinkStripped(m),
                                        !.kept = Trimmed(m.messages, MaxPrompt(m))]
  <2>1. /\ call' = [call EXCEPT ![j] = IF status # 200 THEN refuse ELSE accept]
        /\ rt.api => AuthStatus(m) = 200 /\ Allows(apiHits, rt.rpm, user, now)
        /\ apiHits' = IF rt.api THEN hits ELSE apiHits
    BY <1>5 DEF Handled, Caller
  <2>2. /\ DOMAIN counted = DOMAIN NoCall /\ counted.user = user
        /\ counted.admitted = (IF rt.api THEN now ELSE Never) /\ counted.refused = Never
    BY DEF NoCall
  <2>3. /\ refuse.user = user /\ refuse.admitted = counted.admitted /\ refuse.refused = Never
    <3> HIDE DEF counted, user
    <3> QED
      BY <2>2 DEF NoCall
  <2>4. /\ accept.user = user /\ accept.admitted = counted.admitted /\ accept.refused = Never
    <3> HIDE DEF counted, user
    <3> QED
      BY <2>2 DEF NoCall
  <2> HIDE DEF refuse, accept, counted
  <2>5. /\ \A i \in Ids : i # j => call'[i] = call[i]
        /\ call'[j].user = user /\ call'[j].refused = Never
        /\ call'[j].admitted = IF rt.api THEN now ELSE Never
    <3> HIDE DEF status, user
    <3> QED
      BY <1>1, <2>1, <2>2, <2>3, <2>4
  <2>6. CASE rt.api
    <3>1. user \in UserIds
      BY <2>1, <2>6, AuthenticUser DEF Caller
    <3>2. Allows(apiHits, rt.rpm, user, now) /\ apiHits' = hits /\ call'[j].admitted = now
      BY <2>1, <2>5, <2>6
    <3> HIDE DEF user
    <3>3. LimitInv(call', hits, rt.rpm, now)
      BY <1>1, <1>2, <2>5, <3>1, <3>2, AdmitTracks
    <3>4. LimitInv(call', apiHits', rt.rpm, now)
      BY <3>2, <3>3
    <3> QED
      BY <3>4 DEF EngineLimit, Listening
  <2>7. CASE ~rt.api
    <3>1. UNCHANGED apiHits /\ call'[j].admitted = Never
      BY <2>1, <2>5, <2>7
    <3> QED
      BY <1>1, <2>5, <3>1, QuietEngine
  <2> QED
    BY <2>6, <2>7
<1> QED
  BY <1>3, <1>4, <1>5 DEF PostChat

\* The decode lock and the jobs admit and refuse nobody.
LEMMA JobLimits ==
    ASSUME CallInv, EngineLimit, Engine
    PROVE  EngineLimit'
<1>1. UNCHANGED <<rt, now>> /\ Listening
  BY DEF Engine, bootVars
<1>2. DOMAIN call = Ids
  BY DEF CallInv, CallType
<1>3. ASSUME UNCHANGED apiHits,
             \A i \in Ids : call'[i] = call[i]
                            \/ \E at, status : call'[i] = Ended(call[i], at, status)
      PROVE  EngineLimit'
  BY <1>1, <1>3, EndedFacts, QuietEngine
<1>4. ASSUME NEW j \in Ids, BindFails(j)
      PROVE  EngineLimit'
  <2>1. UNCHANGED apiHits /\ call' = [call EXCEPT ![j] = Ended(@, "done", 403)]
    BY <1>4 DEF BindFails, Reply
  <2>2. \A i \in Ids : call'[i] = call[i] \/ call'[i] = Ended(call[i], "done", 403)
    BY <1>2, <2>1
  <2> QED
    BY <1>3, <2>1, <2>2
<1>5. ASSUME NEW j \in Ids, Bind(j, client[j].fwd.stream)
      PROVE  EngineLimit'
  <2>1. /\ UNCHANGED apiHits
        /\ \E a, b : call' = [call EXCEPT ![j].at = a, ![j].status = b]
    BY <1>5 DEF Bind
  <2>2. PICK a, b : call' = [call EXCEPT ![j].at = a, ![j].status = b]
    BY <2>1
  <2>3. \A i \in Ids : /\ call'[i].admitted = call[i].admitted
                       /\ call'[i].user = call[i].user /\ call'[i].refused = call[i].refused
    BY <1>2, <2>2
  <2> QED
    BY <1>1, <2>1, <2>3, QuietEngine
<1>6. ASSUME NEW ok \in BOOLEAN, RunJob(ok)
      PROVE  EngineLimit'
  <2> DEFINE j == Head(jobs)
  <2>1. UNCHANGED apiHits
    BY <1>6 DEF RunJob
  <2>2. CASE call[j].at = "streaming"
    <3>1. call' = [call EXCEPT ![j] = Ended(@, IF ok THEN "done" ELSE "cut", 200)]
      BY <1>6, <2>2 DEF RunJob
    <3> HIDE DEF j
    <3>2. \A i \in Ids :
              call'[i] = call[i] \/ call'[i] = Ended(call[i], IF ok THEN "done" ELSE "cut", 200)
      BY <1>2, <3>1
    <3> QED
      BY <1>3, <2>1, <3>2
  <2>3. CASE call[j].at # "streaming"
    <3>1. call' = [call EXCEPT ![j] = Ended(@, "done", IF ok THEN 200 ELSE 500)]
      BY <1>6, <2>3 DEF RunJob
    <3> HIDE DEF j
    <3>2. \A i \in Ids :
              call'[i] = call[i] \/ call'[i] = Ended(call[i], "done", IF ok THEN 200 ELSE 500)
      BY <1>2, <3>1
    <3> QED
      BY <1>3, <2>1, <3>2
  <2> QED
    BY <2>2, <2>3
<1> QED
  BY <1>4, <1>5, <1>6 DEF Engine

\* An engine that starts, boots or has died has counted nobody.
LEMMA FreshEngine ==
    ASSUME now \in 0 .. MaxNow, BootType', UNCHANGED now, apiHits' = NoHits,
           \A i \in Ids : call'[i].admitted = Never /\ call'[i].refused = Never
    PROVE  EngineLimit'
<1>1. rt'.rpm \in Int
  BY DEF BootType
<1>2. LimitInv(call', NoHits, rt'.rpm, now)
  BY <1>1, EmptyTracks
<1> QED
  BY <1>2 DEF EngineLimit

\* The two limiters count nobody at first.
LEMMA LimitsInit == Init => GatewayLimit /\ EngineLimit
<1> SUFFICES ASSUME Init PROVE GatewayLimit /\ EngineLimit
  OBVIOUS
<1>1. now = 0 /\ 0 \in 0 .. MaxNow
  BY ClockAssumption DEF Init
<1>2. apiHits = NoHits /\ gwHits = NoHits
  BY DEF Init, ApiInit, GatewayInit
<1>3. \A i \in Ids : client[i].admitted = Never /\ client[i].refused = Never
  <2>1. PICK mix \in Mixes : client = [i \in Ids |-> [Unused EXCEPT !.req = mix[i]]]
    BY DEF Init, GatewayInit
  <2>2. \A r : /\ [Unused EXCEPT !.req = r].admitted = Never
               /\ [Unused EXCEPT !.req = r].refused = Never
    BY DEF Unused
  <2> QED
    BY <2>1, <2>2
<1>4. \A i \in Ids : call[i].admitted = Never /\ call[i].refused = Never
  <2>1. NoCall.admitted = Never /\ NoCall.refused = Never
    BY DEF NoCall
  <2> QED
    BY <2>1 DEF Init, ApiInit
<1>5. rt.rpm \in Int
  BY PlanInit DEF PlanInv, PlanType, BootType
<1>6. LimitInv(client, NoHits, RpmPerUser, now)
  BY <1>1, <1>3, GatewayAssumption, EmptyTracks
<1>7. LimitInv(call, NoHits, rt.rpm, now)
  BY <1>1, <1>4, <1>5, EmptyTracks
<1> QED
  BY <1>2, <1>4, <1>6, <1>7 DEF GatewayLimit, EngineLimit

\* Every step keeps the two limiters in step with what they let through.
LEMMA LimitsStep ==
    EdgeInv /\ GatewayLimit /\ EngineLimit /\ [Next]_vars => GatewayLimit' /\ EngineLimit'
<1> SUFFICES ASSUME EdgeInv, GatewayLimit, EngineLimit, [Next]_vars
             PROVE  GatewayLimit' /\ EngineLimit'
  OBVIOUS
<1> USE DEF EdgeInv
<1>1. BootType'
  BY PlanStep DEF PlanInv, PlanType
<1>2. now \in 0 .. MaxNow
  BY DEF GatewayLimit, LimitInv
<1>3. CASE Tick
  <2>1. now < MaxNow /\ now' = now + 1 /\ UNCHANGED <<client, gwHits, call, apiHits, rt>>
    BY <1>3 DEF Tick, gwVars, apiVars, bootVars
  <2>2. LimitInv(client, gwHits, RpmPerUser, now + 1)
    BY <2>1, TickTracks DEF GatewayLimit
  <2>3. LimitInv(call, apiHits, rt.rpm, now + 1)
    BY <2>1, TickTracks DEF EngineLimit
  <2> QED
    BY <2>1, <2>2, <2>3 DEF GatewayLimit, EngineLimit, Listening
<1>4. CASE Configure \/ UNCHANGED vars
  <2>1. UNCHANGED <<client, gwHits, call, apiHits, rt, now>>
    BY <1>4 DEF Configure, vars, gwVars, apiVars, bootVars
  <2> QED
    BY <2>1 DEF GatewayLimit, EngineLimit, Listening
<1>5. CASE Start \/ Boots
  <2>1. UNCHANGED <<client, gwHits, call, apiHits, now>> /\ ~Listening
    <3>1. CASE Start
      BY <3>1 DEF Start, Launch, Gone, Listening, gwVars, apiVars
    <3>2. CASE Boots
      BY <3>2, StageStep DEF PlanInv, Boots, gwVars, apiVars
    <3> QED
      BY <1>5, <3>1, <3>2
  <2>2. /\ apiHits' = NoHits
        /\ \A i \in Ids : call'[i].admitted = Never /\ call'[i].refused = Never
    BY <2>1 DEF EngineLimit
  <2>3. GatewayLimit'
    BY <2>1 DEF GatewayLimit
  <2> QED
    BY <1>1, <1>2, <2>1, <2>2, <2>3, FreshEngine
<1>6. CASE Crash
  <2>1. UNCHANGED <<client, gwHits, now>> /\ ApiLost
    BY <1>6 DEF Crash, gwVars
  <2>2. /\ apiHits' = NoHits
        /\ \A i \in Ids : call'[i].admitted = Never /\ call'[i].refused = Never
    BY <2>1, LostStep DEF ApiLost
  <2>3. GatewayLimit'
    BY <2>1 DEF GatewayLimit
  <2> QED
    BY <1>1, <1>2, <2>1, <2>2, <2>3, FreshEngine
<1>7. CASE Engine
  <2>1. UNCHANGED <<client, gwHits, now>>
    BY <1>7 DEF Engine, gwVars
  <2>2. GatewayLimit'
    BY <2>1 DEF GatewayLimit
  <2> QED
    BY <1>7, <2>2, JobLimits
<1>8. ASSUME NEW j \in Ids, Come(j) \/ Gate(j)
      PROVE  GatewayLimit' /\ EngineLimit'
  <2>1. UNCHANGED <<call, apiHits, rt, now>>
    BY <1>8 DEF Come, Gate, apiVars, bootVars
  <2>2. EngineLimit'
    BY <2>1 DEF EngineLimit, Listening
  <2>3. CASE Gate(j)
    BY <2>1, <2>2, <2>3, GateLimits DEF Gate
  <2>4. CASE Come(j)
    <3>1. /\ UNCHANGED gwHits /\ DOMAIN client = Ids
          /\ \E m, at : client' = [client EXCEPT ![j].fwd = m, ![j].at = at]
      BY <2>4 DEF Come, Arrive, ClientInv, ClientType
    <3>2. \A i \in Ids : /\ client'[i].admitted = client[i].admitted
                         /\ client'[i].user = client[i].user
                         /\ client'[i].refused = client[i].refused
      BY <3>1
    <3> QED
      BY <2>1, <2>2, <3>1, <3>2, QuietClient
  <2> QED
    BY <1>8, <2>3, <2>4
<1>9. ASSUME NEW j \in Ids, Deliver(j)
      PROVE  GatewayLimit' /\ EngineLimit'
  <2>1. /\ UNCHANGED <<rt, now, gwHits>> /\ Listening /\ client[j].at = "sent"
        /\ PostChat(j, client[j].fwd)
        /\ client' = [client EXCEPT ![j].at = "waiting"]
        /\ DOMAIN client = Ids
    BY <1>9 DEF Deliver, bootVars, ClientInv, ClientType
  <2>2. \A i \in Ids : /\ client'[i].admitted = client[i].admitted
                       /\ client'[i].user = client[i].user
                       /\ client'[i].refused = client[i].refused
    BY <2>1
  <2>3. GatewayLimit'
    BY <2>1, <2>2, QuietClient
  <2>4. WellFormed(client[j].fwd)
    BY <2>1, OnItsWayIsWellFormed DEF ClientInv, Passage
  <2>5. EngineLimit'
    BY <2>1, <2>4, PostLimits
  <2> QED
    BY <2>3, <2>5
<1> QED
  BY <1>3, <1>4, <1>5, <1>6, <1>7, <1>8, <1>9 DEF Next

\* Whatever keys and chats the clients use, however they are delayed on the
\* way, and however often the engine dies and comes back with another limit,
\* neither the gateway (auth.py:83) nor one engine process (cne_api.cpp:175)
\* lets more than its limit of requests of a user through in any window, and
\* neither refuses one of a user whose window is not full.
THEOREM LimitsAreExact == Spec => []LimitsExact
<1> DEFINE Inv == EdgeInv /\ GatewayLimit /\ EngineLimit
<1>1. Init => Inv
  BY PlanInit, ClientInit, CallInit, LimitsInit DEF EdgeInv
<1>2. Inv /\ [Next]_vars => Inv'
  BY EdgeStep, LimitsStep
<1>3. Inv => LimitsExact
  <2> SUFFICES ASSUME Inv PROVE WindowHolds /\ RefusedOnlyWhenFull
    BY DEF LimitsExact
  <2>1. /\ WindowsOk(client, RpmPerUser) /\ FullOk(client, RpmPerUser)
        /\ WindowsOk(call, rt.rpm) /\ FullOk(call, rt.rpm)
    BY DEF GatewayLimit, EngineLimit, LimitInv
  <2>2. \A t \in 0 .. MaxNow : t \in Int
    BY ClockAssumption
  <2> QED
    BY <2>1, <2>2 DEF WindowHolds, RefusedOnlyWhenFull, WindowsOk, FullOk
<1> QED
  BY <1>1, <1>2, <1>3, PTL DEF Spec

=============================================================================
