----------------------------- MODULE ChatServer -----------------------------
(***************************************************************************)
(* The chat path of server/cne-server.cpp over the session store: one HTTP *)
(* thread per request (handle_chat) and the engine thread that runs the    *)
(* generation jobs they submit.  gen_mutex serializes the handlers; a      *)
(* blocking request keeps it until its answer is ready, a streaming one    *)
(* only until its job is queued, because the content provider runs after   *)
(* the handler has returned.                                               *)
(*                                                                         *)
(* Requests reach the model validated, authenticated and tokenized.  MTP   *)
(* is off (with it every request is stateless).                            *)
(***************************************************************************)
EXTENDS SessionStore

CONSTANTS Ids,            \* request threads
          Requests,       \* what a client may ask
          NoConv,         \* no conversation id: a stateless request
          NGen,           \* tokens generated per request, at most
          DecodeMayFail,  \* llama_decode can fail
          TrimMayFail     \* the memory cannot drop a suffix of a lane

Request == [conv : Convs \cup {NoConv}, owner : Owners, clear : BOOLEAN,
            stream : BOOLEAN, prompt : Seq(Tokens) \ {<<>>}]

ASSUME ServerAssumption ==
    /\ IsFiniteSet(Ids) /\ "none" \notin Ids /\ NoConv \notin Convs
    /\ Requests # {} /\ Requests \subseteq Request
    /\ NGen \in Nat
    /\ DecodeMayFail \in BOOLEAN /\ TrimMayFail \in BOOLEAN

\* API mode gives every request an owner, single-tenant mode none.
ASSUME ModeAssumption ==
    \/ \A q \in Requests : q.owner = NoOwner
    \/ \A q \in Requests : q.owner # NoOwner

VARIABLES gen,      \* holder of gen_mutex
          pc, req,  \* the request threads
          ptr,      \* the SessionSlot* each one was given
          jobs,     \* g_jobs
          eng, epc, \* the job on the engine thread and its stage
          ngen,     \* tokens generated by that job
          logits,   \* the tokens behind the logits in the context
          ended,    \* jobs that have reported the end of their generation
          aborted   \* streams whose client is gone

handlers == <<gen, pc, req, ptr>>
engine == <<eng, epc, ngen>>
vars == <<store, kv, handlers, jobs, engine, logits, ended, aborted>>

None == "none"
NoSlot == <<NoConv, 0>>

Goto(i, stage) == pc' = [pc EXCEPT ![i] = stage]

-----------------------------------------------------------------------------
(* A request thread: handle_chat.                                          *)

Arrive(i, q) ==
    /\ pc[i] = "new"
    /\ req' = [req EXCEPT ![i] = q]
    /\ Goto(i, "queued")
    /\ UNCHANGED <<store, kv, gen, ptr, jobs, engine, logits, ended, aborted>>

\* The lock, then the start of bind_conversation.
Acquire(i) ==
    /\ pc[i] = "queued" /\ gen = None
    /\ gen' = i
    /\ Goto(i, IF req[i].conv = NoConv THEN "submit"
               ELSE IF req[i].clear THEN "remove" ELSE "bind")
    /\ UNCHANGED <<store, kv, req, ptr, jobs, engine, logits, ended, aborted>>

RemoveConv(i) ==
    /\ pc[i] = "remove"
    /\ Remove(req[i].conv)
    /\ Goto(i, "bind")
    /\ UNCHANGED <<gen, req, ptr, jobs, engine, logits, ended, aborted>>

\* 403: the conversation belongs to another user.
Reject(i) ==
    /\ pc[i] = "bind" /\ Mismatch(req[i].conv, req[i].owner)
    /\ gen' = None
    /\ Goto(i, "done")
    /\ UNCHANGED <<store, kv, req, ptr, jobs, engine, logits, ended, aborted>>

BindFound(i) ==
    /\ pc[i] = "bind"
    /\ Find(req[i].conv, req[i].owner)
    /\ ptr' = [ptr EXCEPT ![i] = <<req[i].conv, born[req[i].conv]>>]
    /\ Goto(i, "submit")
    /\ UNCHANGED <<gen, req, jobs, engine, logits, ended, aborted>>

\* get_or_create makes room for a new slot: under the user's cap, under the
\* global cap, and, once, for a lane.
Unbound(i) == pc[i] = "bind" /\ req[i].conv \notin live

EvictOwn(i) ==
    /\ Unbound(i) /\ OverUserCap(req[i].owner)
    /\ EvictLruForOwner(req[i].owner)
    /\ UNCHANGED <<handlers, jobs, engine, logits, ended, aborted>>

EvictFull(i) ==
    /\ Unbound(i) /\ ~OverUserCap(req[i].owner)
    /\ Cardinality(live) >= MaxSlots
    /\ EvictLru
    /\ UNCHANGED <<handlers, jobs, engine, logits, ended, aborted>>

EvictForLane(i) ==
    /\ Unbound(i) /\ ~OverUserCap(req[i].owner)
    /\ Cardinality(live) < MaxSlots /\ free = {}
    /\ IF live = {} THEN UNCHANGED <<store, kv>> ELSE EvictLru
    /\ Goto(i, "alloc")
    /\ UNCHANGED <<gen, req, ptr, jobs, engine, logits, ended, aborted>>

BindNew(i) ==
    /\ \/ pc[i] = "alloc"
       \/ /\ Unbound(i) /\ ~OverUserCap(req[i].owner)
          /\ Cardinality(live) < MaxSlots /\ free # {}
    /\ Create(req[i].conv, req[i].owner)
    /\ ptr' = [ptr EXCEPT ![i] = <<req[i].conv, tick + 1>>]
    /\ Goto(i, "submit")
    /\ UNCHANGED <<gen, req, jobs, engine, logits, ended, aborted>>

\* Mutant: every handler drops the lock once its job is queued.
SubmitUnlocked(i) ==
    /\ pc[i] = "submit"
    /\ jobs' = Append(jobs, i)
    /\ gen' = None /\ Goto(i, IF req[i].stream THEN "drain" ELSE "await")
    /\ UNCHANGED <<store, kv, req, ptr, engine, logits, ended, aborted>>

\* submit_job; the streaming handler then returns and drops the lock.
Submit(i) ==
    /\ pc[i] = "submit"
    /\ jobs' = Append(jobs, i)
    /\ IF req[i].stream THEN gen' = None /\ Goto(i, "drain")
                        ELSE UNCHANGED gen /\ Goto(i, "await")
    /\ UNCHANGED <<store, kv, req, ptr, engine, logits, ended, aborted>>

\* The blocking handler wakes, clears lane 0 after a stateless job, answers.
Answer(i) ==
    /\ pc[i] = "await" /\ i \in ended
    /\ kv' = IF ptr[i] = NoSlot THEN [kv EXCEPT ![0] = <<>>] ELSE kv
    /\ gen' = None
    /\ Goto(i, "done")
    /\ UNCHANGED <<store, req, ptr, jobs, engine, logits, ended, aborted>>

\* The content provider sees the end of the stream.
Drained(i) ==
    /\ pc[i] = "drain" /\ i \in ended
    /\ Goto(i, "done")
    /\ UNCHANGED <<store, kv, gen, req, ptr, jobs, engine, logits, ended, aborted>>

\* The content provider finds the peer gone.
Disconnect(i) ==
    /\ pc[i] = "drain" /\ i \notin ended
    /\ aborted' = aborted \cup {i}
    /\ Goto(i, "done")
    /\ UNCHANGED <<store, kv, gen, req, ptr, jobs, engine, logits, ended>>

-----------------------------------------------------------------------------
(* The engine thread: engine_thread_loop and generate_sequential.          *)

\* The job's SessionSlot* points to a slot that is still in the map.
Valid(i) == ptr[i] = NoSlot \/ (ptr[i][1] \in live /\ born[ptr[i][1]] = ptr[i][2])

Conv == ptr[eng][1]
LaneOfJob == IF ptr[eng] = NoSlot THEN 0 ELSE lane[Conv]
Prompt == req[eng].prompt

Take ==
    /\ eng = None /\ jobs # <<>>
    /\ eng' = Head(jobs) /\ jobs' = Tail(jobs)
    /\ epc' = "prefill" /\ ngen' = 0
    /\ UNCHANGED <<store, kv, handlers, logits, ended, aborted>>

\* The job uses a slot that was freed: nothing is known about the process
\* from here on.
UseAfterFree ==
    /\ epc \in {"prefill", "gen"} /\ ~Valid(eng)
    /\ epc' = "undefined"
    /\ UNCHANGED <<store, kv, handlers, jobs, eng, ngen, logits, ended, aborted>>

\* A stateless job starts lane 0 afresh.
PrefillStateless ==
    /\ epc = "prefill" /\ ptr[eng] = NoSlot
    /\ \/ /\ kv' = [kv EXCEPT ![0] = Prompt]
          /\ logits' = Prompt /\ epc' = "gen"
       \/ /\ DecodeMayFail
          /\ \E m \in 0 .. Len(Prompt) - 1 : kv' = [kv EXCEPT ![0] = Prefix(Prompt, m)]
          /\ epc' = "finish" /\ UNCHANGED logits
    /\ UNCHANGED <<store, handlers, jobs, eng, ngen, ended, aborted>>

PrefillSession(trimOk) ==
    /\ epc = "prefill" /\ ptr[eng] # NoSlot /\ Valid(eng)
    /\ TrimMayFail \/ trimOk
    /\ LET n == Reused(Conv, Prompt, trimOk) IN
       \/ /\ Prefilled(Conv, Prompt, n)
          /\ logits' = IF n < Len(Prompt) THEN kv'[lane[Conv]] ELSE logits
          /\ epc' = "gen"
       \/ /\ DecodeMayFail
          /\ \E m \in 0 .. Len(Prompt) - n - 1 : PrefillBroken(Conv, Prompt, n, m)
          /\ epc' = "finish" /\ UNCHANGED logits
    /\ UNCHANGED <<live, owner, lane, last, born, tick, free>>
    /\ UNCHANGED <<handlers, jobs, eng, ngen, ended, aborted>>

\* The loop ends: client gone, wall budget spent, end of generation sampled,
\* or length reached.
GenerationEnds ==
    /\ epc = "gen" /\ Valid(eng)
    /\ epc' = "finish"
    /\ UNCHANGED <<store, kv, handlers, jobs, eng, ngen, logits, ended, aborted>>

\* One turn of the loop: the sampled token enters the ledger, then the lane.
DecodeToken(t) ==
    /\ epc = "gen" /\ Valid(eng) /\ eng \notin aborted /\ ngen < NGen
    /\ IF ptr[eng] = NoSlot THEN UNCHANGED ledger
       ELSE ledger' = [ledger EXCEPT ![Conv] = Append(@, t)]
    /\ \/ /\ kv' = [kv EXCEPT ![LaneOfJob] = Append(@, t)]
          /\ logits' = kv'[LaneOfJob]
          /\ ngen' = ngen + 1 /\ UNCHANGED epc
       \/ /\ DecodeMayFail
          /\ epc' = "finish" /\ UNCHANGED <<kv, logits, ngen>>
    /\ UNCHANGED <<live, owner, lane, last, born, tick, free>>
    /\ UNCHANGED <<handlers, jobs, eng, ended, aborted>>

\* Mutant: the end of the generation is not reported.
FinishSilently ==
    /\ epc = "finish"
    /\ kv' = IF ptr[eng] = NoSlot /\ req[eng].stream
             THEN [kv EXCEPT ![0] = <<>>] ELSE kv
    /\ eng' = None /\ epc' = "idle" /\ ngen' = 0
    /\ UNCHANGED <<store, handlers, jobs, logits, ended, aborted>>

\* Mutant: a streaming stateless job leaves its tokens in lane 0.
FinishUncleared ==
    /\ epc = "finish"
    /\ ended' = ended \cup {eng}
    /\ eng' = None /\ epc' = "idle" /\ ngen' = 0
    /\ UNCHANGED <<store, kv, handlers, jobs, logits, aborted>>

\* The rest of the job: a streaming stateless one clears lane 0 itself.
Finish ==
    /\ epc = "finish"
    /\ kv' = IF ptr[eng] = NoSlot /\ req[eng].stream
             THEN [kv EXCEPT ![0] = <<>>] ELSE kv
    /\ ended' = ended \cup {eng}
    /\ eng' = None /\ epc' = "idle" /\ ngen' = 0
    /\ UNCHANGED <<store, handlers, jobs, logits, aborted>>

-----------------------------------------------------------------------------
Init ==
    /\ StoreInit
    /\ gen = None /\ jobs = <<>> /\ eng = None /\ epc = "idle" /\ ngen = 0
    /\ pc = [i \in Ids |-> "new"]
    /\ req = [i \in Ids |-> CHOOSE q \in Requests : TRUE]
    /\ ptr = [i \in Ids |-> NoSlot]
    /\ logits = <<>> /\ ended = {} /\ aborted = {}

\* What a request thread does on its own, once its request has arrived.
HandlerStep(i) ==
    \/ Acquire(i) \/ RemoveConv(i) \/ Reject(i) \/ BindFound(i)
    \/ EvictOwn(i) \/ EvictFull(i) \/ EvictForLane(i) \/ BindNew(i)
    \/ Submit(i) \/ Answer(i) \/ Drained(i)

EngineStep ==
    \/ Take \/ UseAfterFree \/ PrefillStateless
    \/ \E ok \in BOOLEAN : PrefillSession(ok)
    \/ GenerationEnds \/ (\E t \in Tokens : DecodeToken(t)) \/ Finish

Alive == epc # "undefined"

\* No request is left, or there is nothing left to be said of the process.
Quiet ==
    /\ Alive => (\A i \in Ids : pc[i] = "done") /\ eng = None /\ jobs = <<>>
    /\ UNCHANGED vars

Next ==
    \/ /\ Alive
       /\ \/ \E i \in Ids, q \in Requests : Arrive(i, q)
          \/ \E i \in Ids : HandlerStep(i) \/ Disconnect(i)
          \/ EngineStep
    \/ Quiet

Spec == Init /\ [][Next]_vars

\* The threads run, and llama_decode and the sampler return.
FairSpec ==
    /\ Spec
    /\ WF_vars(Alive /\ EngineStep)
    /\ \A i \in Ids : WF_vars(Alive /\ HandlerStep(i))

-----------------------------------------------------------------------------
(* Properties.                                                             *)

\* Every variable has its type; what was submitted was submitted once.
TypeOK ==
    /\ live \subseteq Convs /\ free \subseteq Lanes /\ tick \in Nat
    /\ owner \in [Convs -> Owners] /\ lane \in [Convs -> Lanes \cup {-1}]
    /\ ledger \in [Convs -> Seq(Tokens)] /\ kv \in [Lanes -> Seq(Tokens)]
    /\ last \in [Convs -> Nat] /\ born \in [Convs -> Nat]
    /\ gen \in Ids \cup {None}
    /\ pc \in [Ids -> {"new", "queued", "remove", "bind", "alloc", "submit",
                       "await", "drain", "done"}]
    /\ req \in [Ids -> Requests]
    /\ ptr \in [Ids -> (Convs \cup {NoConv}) \X Nat]
    /\ jobs \in Seq(Ids) /\ eng \in Ids \cup {None}
    /\ epc \in {"idle", "prefill", "gen", "finish", "undefined"}
    /\ ngen \in 0 .. NGen /\ logits \in Seq(Tokens)
    /\ ended \subseteq Ids /\ aborted \subseteq Ids

\* Every slot has a lane of its own and every lane that is not free belongs
\* to a slot, through any sequence of evictions, removals and failed requests:
\* no lane leaks, none is shared, and alloc_seq never ends with -1 after the
\* eviction that get_or_create makes for it.
LanesOwned ==
    /\ \A c \in live : lane[c] \in Lanes \ free
    /\ \A c, d \in live : lane[c] = lane[d] => c = d
    /\ \A l \in Lanes \ free : \E c \in live : lane[c] = l

\* The caps hold after every step: max_slots_ over all slots, and
\* max_slots_per_user_ for each tenant.
CapsHold ==
    /\ Cardinality(live) <= MaxSlots
    /\ \A o \in Owners : o # NoOwner /\ MaxSlotsPerUser > 0
        => Cardinality(Owned(o)) <= MaxSlotsPerUser

\* Only the conversation's owner generates in it, also when a removal or an
\* eviction and a new binding come between two requests.
TenantIsolation ==
    epc \in {"prefill", "gen"} /\ ptr[eng] # NoSlot /\ Valid(eng)
        => owner[Conv] = req[eng].owner

\* The slot a job reads and appends to is still the conversation's slot
\* ("appends generated tokens to the slot afterward", generate_sequential).
SlotValid == epc \in {"prefill", "gen"} => Valid(eng)

\* Prefix reuse cannot be observed: when a token is sampled, the lane holds
\* exactly the request's prompt and what the request has generated ("Align KV
\* with prompt on slot.seq_id", cne_session.h), whatever earlier requests,
\* evictions and failures left in the lane.
CleanContext ==
    epc = "gen" /\ Valid(eng) =>
        /\ Len(kv[LaneOfJob]) = Len(Prompt) + ngen
        /\ Prefix(kv[LaneOfJob], Len(Prompt)) = Prompt

\* "sample after each forward" (generate_sequential): the logits a token is
\* sampled from are those of the job's own lane as it stands.  This does not
\* hold when a prompt is sent again (cne_session.cpp:103), and no run has it.
SampleFresh == epc = "gen" /\ Valid(eng) => logits = kv[LaneOfJob]

\* session_max_per_user "evicts LRU chats within a user before touching another
\* user's slots" (docs/SERVING.md): a request that makes room takes another
\* tenant's conversation only if its own user is below the cap even so, and
\* the slots or the lanes have run out (get_or_create).
OwnChatsFirst ==
    [][\A i \in Ids, c \in live :
          /\ gen = i /\ pc[i] = "bind" /\ req[i].owner # NoOwner /\ MaxSlotsPerUser > 0
          /\ c \notin live' /\ owner[c] # req[i].owner
          => /\ CountForOwner(req[i].owner) < MaxSlotsPerUser
             /\ Cardinality(live) = MaxSlots \/ free = {}]_vars

\* "HTTP handlers only prepare state and submit jobs" (engine thread): so it is
\* while a blocking job is on the engine thread, streaming clients or not.
\* Behind a streaming job, whose handler has dropped gen_mutex, a handler that
\* evicts or clears a conversation does empty its lane, and only that lane.
KvOnlyByEngine ==
    [][eng # None /\ UNCHANGED engine /\ kv' # kv =>
          /\ req[eng].stream
          /\ \E c \in live \ live' : kv' = [kv EXCEPT ![lane[c]] = <<>>]]_vars

\* Every request is answered: the lock is passed on, no job is forgotten, and
\* the handler or the content provider learns of its end.
Answered == \A i \in Ids : (pc[i] = "queued") ~> (pc[i] = "done")
=============================================================================
