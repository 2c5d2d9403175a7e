-------------------------------- MODULE Boot --------------------------------
(***************************************************************************)
(* The start of cne-server: main, runtime_prepare, runtime_load_llama and  *)
(* init_api_state, up to the listening socket, and its end.  Every stage   *)
(* that can fail ends the process: by return, or by std::terminate when a  *)
(* thread is still joinable.                                               *)
(***************************************************************************)
EXTENDS Setup

CONSTANTS Drifts,       \* MiB that other processes may take during the boot
          StagesFail,   \* whether a stage of the boot may fail
          Huge          \* a size_t that was made of a negative number

ASSUME DriftAssumption == Drifts \subseteq Nat

\* It is more than any machine has.
ASSUME HugeAssumption == Huge \in Nat /\ \A b \in Sites : b.avail < Huge

VARIABLES env,          \* the process's CNE_* variables
          rt            \* what the boot has set up so far

bootVars == <<env, rt>>

\* The state of a process that is not there.
NoEngine == [at |-> "down", threads |-> {}, dense |-> "mmap", cap |-> 0, seen |-> 0,
             ctx |-> 0, lanes |-> 0, lane |-> 0, slots |-> 8, perUser |-> 0,
             mtp |-> 0, arch |-> "none", think |-> TRUE, sessions |-> TRUE,
             api |-> FALSE, rpm |-> 0, needChat |-> FALSE]

BootInit == env = <<>> /\ rt = NoEngine

Gone(r) == r.at \in {"down", "exited", "aborted"}

\* return from main: threads that nobody joined take the process down.
Left(r) == [r EXCEPT !.at = IF r.threads = {} THEN "exited" ELSE "aborted",
                     !.threads = {}]

-----------------------------------------------------------------------------
(* apply_config_file.                                                      *)

\* A boolean becomes "1" or "0", a number its digits; a string is dumped as
\* JSON, quotes included.
Injected(v) ==
    IF "flag" \in DOMAIN v THEN Num(IF v.flag THEN 1 ELSE 0)
    ELSE IF "str" \in DOMAIN v THEN [quoted |-> v.str]
    ELSE v

\* The file's knobs, except where the environment has its own.
Configured(explicit) == Over(explicit, [k \in DOMAIN file |-> Injected(file[k])])

Knob(k, default) == IF k \in DOMAIN env THEN env[k].num ELSE default

\* (size_t) of an int wraps; a count that is negative is ignored.
SizeT(n) == IF n < 0 THEN Huge ELSE n
Count(k, default) == IF Knob(k, default) >= 0 THEN Knob(k, default) ELSE default

Launch ==
    /\ Gone(rt)
    /\ env' = Configured(setup.box.env)
    /\ rt' = [NoEngine EXCEPT !.at = "config"]

-----------------------------------------------------------------------------
(* runtime_prepare.                                                        *)

\* auto: private copies when the model does not fit and twice the dense
\* weights do; a value the engine does not know means mmap.
DensePolicy(box, avail) ==
    IF "dense" \notin DOMAIN env
    THEN IF Regime(box.model, avail) # 0 /\ avail > box.dense * 2 THEN "anon" ELSE "mmap"
    ELSE CASE env["dense"] = Str("warm") -> "warm"
           [] env["dense"] = Str("anon") -> "anon"
           [] OTHER -> "mmap"

\* Mutant: the private copies are not counted.
FixedWithoutCopies(box, dense) == 64 + 64 + 512

\* Memory that is taken besides the cache: KV, staging, base, dense copies.
Fixed(box, dense) == 64 + 64 + 512 + IF dense = "anon" THEN box.dense ELSE 0

\* The policy and the cap each come from a reading of their own.
Prepare(box, avail, seen) ==
    LET dense == DensePolicy(box, avail)
    IN /\ rt.at = "config"
       /\ rt' = [rt EXCEPT
                   !.at = "prepared",
                   !.dense = dense,
                   !.seen = seen,
                   !.cap = ClampCacheCap(SizeT(Knob("cache_gib", 8) * 1024), seen,
                                         Fixed(box, dense)),
                   !.threads = IF Knob("prefetch", 0) = 1 THEN {"prefetch"} ELSE {}]
       /\ UNCHANGED env

\* No manifest: nothing was started yet.
PrepareFails ==
    /\ rt.at = "config" /\ StagesFail
    /\ rt' = Left(rt)
    /\ UNCHANGED env

-----------------------------------------------------------------------------
(* runtime_load_llama and the rest of main.                                *)

\* n_ctx, and the lanes it is divided among.
CtxSize == IF Knob("ctx", 1024) < 64 THEN 64 ELSE Knob("ctx", 1024)
SeqMax == IF Knob("session_max", 1) > 1 THEN Knob("session_max", 1) ELSE 1

\* llama_n_ctx_seq: the context is split evenly.
CtxSeq(ctx, lanes) == ctx \div lanes

\* The architecture is the manifest's.
Load ==
    /\ rt.at = "prepared"
    /\ rt' = [rt EXCEPT !.at = "loaded", !.ctx = CtxSize, !.lanes = SeqMax,
                        !.lane = CtxSeq(CtxSize, SeqMax), !.mtp = Count("mtp", 0),
                        !.arch = setup.box.arch]
    /\ UNCHANGED env

\* No model, no context, or the warm pass cannot open the file: a prefetch
\* worker is left behind.
LoadFails ==
    /\ rt.at = "prepared" /\ StagesFail
    /\ rt' = Left(rt)
    /\ UNCHANGED env

\* Session store, API settings and limiter, then the engine thread.
InitApi ==
    /\ rt.at = "loaded"
    /\ rt' = [rt EXCEPT
                !.at = "ready",
                !.slots = IF Knob("session_max", 0) # 0 THEN SizeT(Knob("session_max", 0)) ELSE 8,
                !.perUser = Count("session_max_per_user", 2),
                !.think = Knob("think", 1) # 0,
                !.sessions = Knob("session", 1) # 0,
                !.api = Knob("api_mode", 0) # 0,
                !.needChat = Knob("require_chat_id", 0) # 0,
                !.rpm = Count("api_rpm", 60),
                !.threads = @ \cup {"engine"}]
    /\ UNCHANGED env

Listen ==
    /\ rt.at = "ready"
    /\ rt' = [rt EXCEPT !.at = "listening"]
    /\ UNCHANGED env

\* The port is taken: main returns with the engine thread running.
ListenFails ==
    /\ rt.at = "ready" /\ StagesFail
    /\ rt' = Left(rt)
    /\ UNCHANGED env

Listening == rt.at = "listening"

\* Other processes may have taken memory between the two readings.
BootStep ==
    \/ \E taken \in Drifts :
           Prepare(setup.box, setup.box.avail, AtLeastZero(setup.box.avail, taken))
    \/ PrepareFails \/ Load \/ LoadFails \/ InitApi \/ Listen \/ ListenFails

-----------------------------------------------------------------------------
\* The cache cap leaves 12 percent, the reserve and every copy that the
\* dense policy makes to the rest of the process: with the memory that was
\* there when the cap was set, nothing underflows (memory_budget.cpp:43).
CapLeavesRoom ==
    rt.cap > 0 =>
        rt.cap + BaseReserve + 640 + (IF rt.dense = "anon" THEN setup.box.dense ELSE 0)
            <= rt.seen - (rt.seen * 12) \div 100
=============================================================================
