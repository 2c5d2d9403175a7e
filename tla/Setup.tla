-------------------------------- MODULE Setup --------------------------------
(***************************************************************************)
(* cne_setup: detect the machine, plan context and lanes, let the user     *)
(* confirm or override every item, write server.json.  A JSON value is     *)
(* Num, Flag or Str; only the items that the serving properties tell apart *)
(* are kept.                                                               *)
(***************************************************************************)
EXTENDS Budget, Integers

CONSTANT Sites   \* machine, model and operator of a deployment: memory, model and
                 \* dense weights in MiB, architecture, MTP layers or not, the answers typed
                 \* over the suggestions, whether the file is confirmed,
                 \* and the CNE_* environment of the server

VARIABLES setup,      \* the wizard: at, the machine, lanes and tokens per lane
          file        \* server.json: a function from keys to JSON values

setupVars == <<setup, file>>

Num(n) == [num |-> n]
Flag(b) == [flag |-> b]
Str(s) == [str |-> s]
Blank == [blank |-> TRUE]
Null == [null |-> TRUE]

IsNum(v) == DOMAIN v = {"num"} /\ v.num \in Int

\* The items whose values are numbers.
Numeric == {"cache_gib", "ctx", "session_max", "session_max_per_user", "api_rpm", "mtp"}

\* The wizard takes only digits for these items, or nothing; the environment
\* is the operator's own.
ASSUME SiteAssumption ==
    \A b \in Sites :
        /\ b.avail \in Nat /\ b.model \in Nat /\ b.dense \in Nat
        /\ \A k \in Numeric :
               /\ k \in DOMAIN b.answers => b.answers[k] = Blank \/ IsNum(b.answers[k])
               /\ k \in DOMAIN b.env => IsNum(b.env[k])

\* What f says, and where it says nothing what g says.
Over(f, g) == [k \in DOMAIN f \cup DOMAIN g |-> IF k \in DOMAIN f THEN f[k] ELSE g[k]]

SetupInit ==
    /\ setup \in {[at |-> "start", box |-> b, lanes |-> 1, perLane |-> 1024] : b \in Sites}
    /\ file = <<>>

-----------------------------------------------------------------------------
(* suggest_serving_kv.                                                     *)

Deep(box) == Regime(box.model, box.avail) >= 3
MtpOn(box) == box.mtp /\ ~Deep(box)

LanesWanted(box) ==
    IF box.model > (box.avail * 85) \div 100 THEN 1
    ELSE IF Regime(box.model, box.avail) = 0 /\ box.avail > box.model + 2048 THEN 3
    ELSE 2

Detect ==
    /\ setup.at = "start"
    /\ setup' = IF MtpOn(setup.box) THEN [setup EXCEPT !.at = "items"]
                ELSE [setup EXCEPT !.at = "plan", !.lanes = LanesWanted(setup.box),
                                   !.perLane = 2048]
    /\ UNCHANGED file

PlannedCtx == setup.lanes * setup.perLane

TooBig ==
    /\ PlannedCtx > 512
    /\ ~KvFits(PlannedCtx, AnonHeadroom(setup.box.avail, 0, setup.box.model))

\* Mutant: the floor is kept above what a single lane may have to go down to.
HalvedToFloor(per) == IF per \div 2 > 1024 THEN per \div 2 ELSE 1024

Halved(per) == IF per \div 2 > 512 THEN per \div 2 ELSE 512

\* One turn of the loop; with several lanes at the floor it changes nothing.
Shrink ==
    /\ setup.at = "plan" /\ TooBig
    /\ setup' = [setup EXCEPT !.perLane = Halved(@)]
    /\ UNCHANGED file

PlanDone ==
    /\ setup.at = "plan" /\ ~TooBig
    /\ setup' = [setup EXCEPT !.at = "items"]
    /\ UNCHANGED file

-----------------------------------------------------------------------------
(* build_suggestions, the confirmation and the file.                       *)

Suggestions ==
    [stream |-> Flag(Deep(setup.box)), prefetch |-> Flag(FALSE),
     dense |-> IF MtpOn(setup.box) THEN Str("mmap") ELSE Blank,
     mtp |-> Num(IF MtpOn(setup.box) THEN 8 ELSE 0),
     ctx |-> Num(PlannedCtx), session_max |-> Num(setup.lanes),
     api_mode |-> Flag(~MtpOn(setup.box)), session_max_per_user |-> Num(2),
     api_rpm |-> Num(120), cache_gib |-> Blank, think |-> Flag(TRUE)]

\* Blank items and a cache of 0 are left to the engine; the items of API mode
\* are written only with it, and then there are at least two lanes.
Written(items) ==
    LET api  == items["api_mode"] = Flag(TRUE)
        kept == {k \in DOMAIN items :
                    /\ items[k] # Blank
                    /\ k = "cache_gib" => items[k].num > 0
                    /\ k \in {"session_max_per_user", "api_rpm"} => api
                    /\ k = "api_mode" => api}
        cfg  == [k \in kept |-> items[k]]
        few  == "session_max" \notin kept \/ items["session_max"].num < 2
    IN IF api /\ few THEN Over([session_max |-> Num(2)], cfg) ELSE cfg

Confirm ==
    /\ setup.at = "items" /\ setup.box.confirm
    /\ file' = Written(Over(setup.box.answers, Suggestions))
    /\ setup' = [setup EXCEPT !.at = "done"]

\* The user declines, or a preset is not valid: no file.
Decline ==
    /\ setup.at = "items" /\ ~setup.box.confirm
    /\ setup' = [setup EXCEPT !.at = "done"]
    /\ UNCHANGED file

SetupNext == Detect \/ Shrink \/ PlanDone \/ Confirm \/ Decline

-----------------------------------------------------------------------------
FloorFits ==
    \/ setup.lanes = 1
    \/ KvFits(512 * setup.lanes, AnonHeadroom(setup.box.avail, 0, setup.box.model))

\* The planner ends whenever one lane was planned, or the planned lanes fit
\* the machine at 512 tokens each: halving reaches the floor, and the floor
\* satisfies the loop's test (kv_budget.cpp:48).
PlanEnds == (setup.at = "plan" /\ FloorFits) ~> setup.at # "plan"
=============================================================================
