------------------------------ MODULE Serving ------------------------------
(***************************************************************************)
(* A deployment: cne_setup writes server.json, cne-server boots from it,   *)
(* may die and be started again, and serves clients that come through the  *)
(* gateway or on their own.                                                *)
(***************************************************************************)
EXTENDS Gateway

CONSTANTS Deployments, \* pairs of a site and what its clients send
          MaxNow,      \* the clock stops here
          MaxCrashes   \* deaths of the engine process

ASSUME ClockAssumption == MaxNow \in Nat /\ Never \notin 0 .. MaxNow

VARIABLE crashes

vars == <<setupVars, bootVars, apiVars, gwVars, now, crashes>>

Init ==
    /\ SetupInit /\ BootInit /\ ApiInit /\ GatewayInit
    /\ <<setup.box, [i \in Ids |-> client[i].req]>> \in Deployments
    /\ now = 0 /\ crashes = 0

Tick ==
    /\ setup.at = "done" /\ now < MaxNow
    /\ now' = now + 1
    /\ UNCHANGED <<setupVars, bootVars, apiVars, gwVars, crashes>>

\* The wizard runs before the first start.
Configure == SetupNext /\ UNCHANGED <<bootVars, apiVars, gwVars, now, crashes>>

Start ==
    /\ setup.at = "done" /\ Launch
    /\ UNCHANGED <<setupVars, apiVars, gwVars, now, crashes>>

Boots == BootStep /\ UNCHANGED <<setupVars, apiVars, gwVars, now, crashes>>

\* Killed, or brought down by an exception: the supervisor starts it again.
Crash ==
    /\ Listening /\ crashes < MaxCrashes
    /\ crashes' = crashes + 1
    /\ rt' = NoEngine
    /\ ApiLost
    /\ UNCHANGED <<setupVars, env, gwVars, now>>

\* The engine's handler takes the request that was sent.
Deliver(i) ==
    /\ Listening /\ client[i].at = "sent"
    /\ PostChat(i, client[i].fwd)
    /\ client' = [client EXCEPT ![i].at = "waiting"]
    /\ UNCHANGED <<setupVars, bootVars, gwHits, now, crashes>>

Engine ==
    /\ Listening
    /\ \/ \E i \in Ids : BindFails(i) \/ Bind(i, client[i].fwd.stream)
       \/ \E ok \in BOOLEAN : RunJob(ok)
    /\ UNCHANGED <<setupVars, bootVars, gwVars, now, crashes>>

Gate(i) ==
    /\ GatewayStep(i)
    /\ UNCHANGED <<setupVars, bootVars, apiVars, now, crashes>>

\* Clients come once the server is configured, up or not.
Come(i) ==
    /\ setup.at = "done" /\ Arrive(i)
    /\ UNCHANGED <<setupVars, bootVars, apiVars, now, crashes>>

Next ==
    \/ Tick \/ Configure \/ Start \/ Boots \/ Crash \/ Engine
    \/ \E i \in Ids : Come(i) \/ Deliver(i) \/ Gate(i)

Spec == Init /\ [][Next]_vars

\* Work that is under way goes on: the wizard's planner, the engine's
\* threads and the gateway's tasks.  Nobody has to come, to boot or to
\* restart anything.
Work ==
    \/ (Shrink \/ PlanDone) /\ Configure
    \/ Engine
    \/ \E i \in Ids : Deliver(i) \/ Gate(i)

FairSpec == Spec /\ WF_vars(Work)

-----------------------------------------------------------------------------
(* Properties.                                                             *)

\* The requests of u that side[i] admitted between two times.
Between(side, u, from, to) ==
    {i \in Ids : side[i].user = u /\ side[i].admitted # Never
                 /\ side[i].admitted \in from .. to}

\* In no window does the gateway, or one engine process, let more than its
\* limit of requests of a user through, whatever keys and chats they use and
\* however they are delayed in between (auth.py:83, cne_api.cpp:175).
WindowHolds ==
    \A u \in UserIds, t \in 0 .. MaxNow :
        /\ RpmPerUser > 0 => Cardinality(Between(client, u, t, t + Window)) <= RpmPerUser
        /\ rt.rpm > 0 => Cardinality(Between(call, u, t, t + Window)) <= rt.rpm

\* A 429, of the gateway or of an engine process, is only for a user whose
\* window is full at that time.
RefusedOnlyWhenFull ==
    \A i \in Ids :
        /\ client[i].refused # Never =>
               Cardinality(Between(client, client[i].user, client[i].refused - Window,
                                   client[i].refused)) = RpmPerUser
        /\ call[i].refused # Never =>
               Cardinality(Between(call, call[i].user, call[i].refused - Window,
                                   call[i].refused)) = rt.rpm

\* Both windows are exact: they admit up to the limit and refuse only beyond.
LimitsExact == WindowHolds /\ RefusedOnlyWhenFull

Accepted(i) == call[i].at \in {"queued", "blocked", "streaming"}

\* What the engine runs for a client of the gateway runs as the user of the
\* client's key, and two users share a conversation id only if the name of one
\* is the other's with a colon behind it and more: user:chat is a mere
\* concatenation (cne_api.cpp:189), a:b:c is chat b:c of a and chat c of a:b.
TenantNamed ==
    \A i \in Ids :
        Accepted(i) /\ rt.api =>
            /\ client[i].req.via = "gateway" =>
                   call[i].user = UserOf(client[i].req.bearer)
            /\ \A j \in Ids :
                   Accepted(j) /\ call[i].conv # <<>> /\ call[j].conv = call[i].conv =>
                       \/ call[j].user = call[i].user
                       \/ Continues(call[j].user, call[i].user)
                       \/ Continues(call[i].user, call[j].user)

\* Behind the gateway no generation is longer than its cap, whichever field
\* asked for it (policy.py:15).  When thinking is off no qwen3 model thinks and
\* no think block is shown, except of the architecture that cannot stop
\* ("LFM2.5 always thinks", docs/GATEWAY.md:107): there the policy does nothing.
PolicyHolds ==
    \A i \in Ids :
        Accepted(i) /\ client[i].req.via = "gateway" =>
            /\ TokenCap > 0 => call[i].nGen <= TokenCap
            /\ ~AllowThinking => /\ rt.arch = "qwen3" => ~call[i].think
                                 /\ rt.arch # "lfm2moe" => call[i].strip

\* An accepted request fits its lane with what it will generate, keeps every
\* system message and the newest of the others, and lost no message that
\* would have fit (cne-server.cpp:491).
FitsLane ==
    \A i \in Ids :
        Accepted(i) =>
            LET ms      == client[i].fwd.messages
                kept    == call[i].kept
                dropped == DOMAIN ms \ kept
            IN /\ call[i].nGen >= 1 /\ call[i].prompt + call[i].nGen + 4 <= rt.lane
               /\ \A n \in dropped :
                      ~ms[n].sys /\ \A k \in DOMAIN ms : k < n => ms[k].sys \/ k \in dropped
               /\ dropped # {} =>
                      Tokens(ms, kept \cup {Max(dropped)}) > MaxPrompt(client[i].fwd)

Unanswered(i) == client[i].at \notin {"unused", "closed"}

\* Every request is answered or sees its connection end, though the engine may
\* be down, die half way or be started again: whatever is under way, there
\* comes a time when nobody waits.
EveryRequestAnswered == (\E i \in Ids : Unanswered(i)) ~> (\A i \in Ids : ~Unanswered(i))
=============================================================================
