---------------------------- MODULE StreamEngine ----------------------------
(***************************************************************************)
(* The streaming runtime (runtime/cne_stream_cb.cpp) over the slice cache: *)
(* the evaluation callback of the decode thread, which harvests the routing*)
(* of each layer and serves the expert matmuls, and the worker thread that *)
(* prefetches what the routing of an earlier step suggests.                *)
(*                                                                         *)
(* Streaming is on (rebind), without the full_fill and LAYER_LIMIT debug   *)
(* switches.  The cache calls run step by step as in SliceCache.           *)
(***************************************************************************)
EXTENDS SliceCache

CONSTANTS Order,          \* the routed tensors by node_rank
          LayerOf,        \* parse_layer_index
          Graph,          \* the nodes an evaluation of the model visits
          Drafts,         \* the graphs of the MTP draft context, if there is one
          LookaheadNodes, \* kLookaheadNodes
          PfModes,        \* the prefetch modes it may be configured for
          Routings,       \* sets of experts the router of a layer may select
          MinKept,        \* experts that mass gating keeps at least
          MaxStep,        \* bound on the steps of a request
          MaxEvals,       \* bound on the evaluations
          MaxQueue        \* bound on the queue when an evaluation begins

Layers == {LayerOf[t] : t \in Tensors}

Node == [op : {"router"}, layer : Layers] \cup [op : {"mmid"}, tensor : Tensors]

ASSUME StreamAssumption ==
    /\ Order \in Seq(Tensors)
    /\ \A t \in Tensors : \E r \in 1..Len(Order) : Order[r] = t
    /\ DOMAIN LayerOf = Tensors
    /\ Graph \in Seq(Node) /\ Drafts \subseteq Seq(Node)
    /\ PfModes \subseteq {"off", "full", "lookahead"}
    /\ Routings \in [Layers -> SUBSET (SUBSET Experts \ {{}})]
    /\ LookaheadNodes \in Nat /\ MinKept \in Nat
    /\ \A l \in Layers : \A R \in Routings[l] : MinKept <= Cardinality(R)
    /\ MaxStep \in Nat /\ MaxEvals \in Nat /\ MaxQueue \in Nat
    /\ Calls = Batch /\ Prefetches = Batch

\* The routed tensors of the model itself; the draft graph may run others.
MainTensors ==
    {t \in Tensors : \E i \in 1..Len(Graph) : Graph[i].op = "mmid" /\ Graph[i].tensor = t}

VARIABLES mode,                 \* g_pf_mode
          epc, node,            \* the decode thread and its node of the graph
          decoding, graph,      \* a token is evaluated and will be kicked; by which graph
          evals,                \* evaluations begun
          step,                 \* g.step
          routed,               \* the experts each router has selected
          kept,                 \* g_fresh_kept
          fills,                \* windows the router's callback has yet to serve
          windows,              \* g.windows
          ids, slotNo,          \* g_step_ids, g_id_slot
          looked, lookedStep,   \* g_looked, g_looked_step
          queue,                \* g_pi_q
          wpc, item,            \* the prefetch worker and the item it took
          stop                  \* g_pi_stop

evaluation == <<decoding, graph, evals, step>>
routing == <<routed, kept, fills>>
history == <<ids, slotNo, looked, lookedStep>>
prefetcher == <<wpc, item, stop>>
svars == <<mode, epc, node, evaluation, routing, windows, history, queue,
           prefetcher>>

NoIds == [t \in Tensors |-> {}]

StreamInit ==
    /\ Init
    /\ mode \in PfModes
    /\ epc = "idle" /\ node = 1 /\ decoding = FALSE /\ graph = Graph
    /\ evals = 0 /\ step = -1
    /\ routed = [l \in Layers |-> {}] /\ kept = [l \in Layers |-> {}] /\ fills = {}
    /\ windows = {}
    /\ ids = [i \in {0, 1} |-> NoIds] /\ slotNo = 0
    /\ looked = {} /\ lookedStep = -1
    /\ queue = <<>> /\ item = NoBatch /\ stop = FALSE
    /\ wpc = IF mode = "off" THEN "exited" ELSE "wait"

Here == graph[node]
LayerHere == IF Here.op = "router" THEN Here.layer ELSE LayerOf[Here.tensor]
At(op) == epc = "node" /\ node <= Len(graph) /\ Here.op = op
AtEnd == epc = "node" /\ node > Len(graph)

Rank(t) == CHOOSE r \in 1..Len(Order) : Order[r] = t

\* What a matmul's callback serves: the harvested routing, or the ids of the
\* node itself when gating has kept nothing.
Wanted == IF kept[LayerHere] # {} THEN kept[LayerHere] ELSE routed[LayerHere]

-----------------------------------------------------------------------------
(* The decode thread.                                                      *)

\* An evaluation after which nothing is kicked: a part of the prompt, or one of
\* the MTP loop, which verifies with the model's graph, drafts with the draft
\* context's under the same callback and sets the step between its rounds.
BeginPass(g, s) ==
    /\ epc = "idle" /\ Len(queue) <= MaxQueue /\ evals < MaxEvals
    /\ s = step \/ (Drafts # {} /\ s >= 1)
    /\ step' = s /\ evals' = evals + 1
    /\ epc' = "node" /\ node' = 1 /\ decoding' = FALSE /\ graph' = g
    /\ UNCHANGED <<vars, mode, routing, windows, history, queue, prefetcher>>

\* stream_set_step; a token is evaluated, the first of a request or the next.
BeginToken(s) ==
    /\ epc = "idle" /\ Len(queue) <= MaxQueue /\ evals < MaxEvals
    /\ s \in {0, step + 1} /\ s <= MaxStep
    /\ step' = s /\ evals' = evals + 1
    /\ epc' = "node" /\ node' = 1 /\ decoding' = TRUE /\ graph' = Graph
    /\ UNCHANGED <<vars, mode, routing, windows, history, queue, prefetcher>>

\* The router has selected R.  Gating keeps the experts K up to some rank of
\* each token, or none of it; the masses are read into doubles of which only
\* half is written, so any such K may come out.  In offset mode the windows
\* of the layer that exist are served at once.
Router(R, K) ==
    /\ At("router") /\ R \in Routings[LayerHere]
    /\ K \subseteq R /\ (Cardinality(K) >= MinKept \/ K \in {{}, R})
    /\ routed' = [routed EXCEPT ![LayerHere] = R]
    /\ kept' = [kept EXCEPT ![LayerHere] = K]
    /\ fills' = {t \in windows : UseOdirect /\ K # {} /\ LayerOf[t] = LayerHere}
    /\ epc' = "harvest"
    /\ UNCHANGED <<vars, mode, node, evaluation, windows, history, queue, prefetcher>>

\* touch_batch_at for the layer's windows in turn.
HarvestCall(t) ==
    /\ epc = "harvest" /\ t \in fills /\ \A u \in fills : Rank(t) <= Rank(u)
    /\ BeginCall([tensor |-> t, experts |-> kept[LayerHere]], FALSE)
    /\ fills' = fills \ {t}
    /\ UNCHANGED <<mode, epc, node, evaluation, routed, kept, windows, history, queue,
                   prefetcher>>

\* No kernel follows the return of such a call.
HarvestReturn == epc = "harvest" /\ ComputeDone /\ UNCHANGED svars

HarvestDone ==
    /\ epc = "harvest" /\ fills = {} /\ dpc = "idle"
    /\ epc' = "node" /\ node' = node + 1
    /\ UNCHANGED <<vars, mode, evaluation, routing, windows, history, queue, prefetcher>>

\* ensure_window inserts into the registry, which the worker reads: from the
\* first write to the last.
InsertWindow ==
    /\ At("mmid") /\ Here.tensor \notin windows
    /\ epc' = "insert"
    /\ UNCHANGED <<vars, mode, node, evaluation, routing, windows, history, queue,
                   prefetcher>>

WindowInserted ==
    /\ epc = "insert"
    /\ windows' = windows \cup {Here.tensor}
    /\ epc' = "node"
    /\ UNCHANGED <<vars, mode, node, evaluation, routing, history, queue, prefetcher>>

\* Mutant: what the router has filled is taken to be there still.
ServeTrustsHarvest ==
    /\ At("mmid") /\ Here.tensor \in windows
    /\ BeginCall([tensor |-> Here.tensor,
                  experts |-> IF UseOdirect /\ kept[LayerHere] # {} THEN {} ELSE Wanted],
                 ~UseOdirect)
    /\ epc' = "serve"
    /\ UNCHANGED <<mode, node, evaluation, routing, windows, history, queue, prefetcher>>

\* The demand call of a matmul.
Serve ==
    /\ At("mmid") /\ Here.tensor \in windows
    /\ BeginCall([tensor |-> Here.tensor, experts |-> Wanted], ~UseOdirect)
    /\ epc' = "serve"
    /\ UNCHANGED <<mode, node, evaluation, routing, windows, history, queue, prefetcher>>

\* The call has returned and its routing is recorded; the first node of a
\* step resets what the look-ahead has already queued.
Record ==
    /\ epc = "serve" /\ dpc = "compute"
    /\ ids' = IF mode = "off" THEN ids ELSE [ids EXCEPT ![slotNo][Here.tensor] = Wanted]
    /\ IF mode = "lookahead" /\ lookedStep # step
       THEN looked' = {} /\ lookedStep' = step
       ELSE UNCHANGED <<looked, lookedStep>>
    /\ epc' = "look"
    /\ UNCHANGED <<vars, mode, node, evaluation, routing, windows, slotNo, queue,
                   prefetcher>>

\* The tensors to look ahead for: behind this one by rank, routed to in the
\* step before, not queued in this step.
Ahead ==
    {t \in Tensors :
        /\ mode = "lookahead"
        /\ Rank(t) \in Rank(Here.tensor) + 1 .. Rank(Here.tensor) + LookaheadNodes
        /\ ids[1 - slotNo][t] # {} /\ t \notin looked}

\* lookahead_push: one turn of its loop.
LookaheadPush(t) ==
    /\ epc = "look" /\ t \in Ahead /\ \A u \in Ahead : Rank(t) <= Rank(u)
    /\ looked' = looked \cup {t}
    /\ queue' = Append(queue, [tensor |-> t, experts |-> ids[1 - slotNo][t]])
    /\ UNCHANGED <<vars, mode, epc, node, evaluation, routing, windows, ids, slotNo,
                   lookedStep, prefetcher>>

KernelStarts ==
    /\ epc = "look" /\ Ahead = {}
    /\ epc' = "kernel"
    /\ UNCHANGED <<vars, mode, node, evaluation, routing, windows, history, queue,
                   prefetcher>>

KernelDone ==
    /\ epc = "kernel"
    /\ ComputeDone
    /\ epc' = "node" /\ node' = node + 1
    /\ UNCHANGED <<mode, evaluation, routing, windows, history, queue, prefetcher>>

\* What stream_prefetch_kick_full queues, in the map's unspecified order.
Kicks ==
    LET T == {t \in Tensors : ids[slotNo][t] # {}}
        orders == {f \in [1..Cardinality(T) -> T] : {f[i] : i \in DOMAIN f} = T}
    IN  {[i \in DOMAIN f |-> [tensor |-> f[i], experts |-> ids[slotNo][f[i]]]] : f \in orders}

\* Mutant: the prefetch is kicked before the result is tested.
EvalFailsKicks ==
    /\ epc = "node" /\ node <= Len(graph)
    /\ IF mode = "full" THEN queue' \in Kicks ELSE UNCHANGED queue
    /\ epc' = "idle" /\ node' = 1 /\ decoding' = FALSE /\ graph' = Graph
    /\ UNCHANGED <<vars, mode, evals, step, routing, windows, history, prefetcher>>

\* llama_decode fails with part of the graph evaluated: nothing is kicked and
\* the step does not end.
EvalFails ==
    /\ epc = "node" /\ node <= Len(graph)
    /\ epc' = "idle" /\ node' = 1 /\ decoding' = FALSE /\ graph' = Graph
    /\ UNCHANGED <<vars, mode, evals, step, routing, windows, history, queue, prefetcher>>

EndPass ==
    /\ AtEnd /\ ~decoding
    /\ epc' = "idle" /\ node' = 1 /\ decoding' = FALSE /\ graph' = Graph
    /\ UNCHANGED <<vars, mode, evals, step, routing, windows, history, queue, prefetcher>>

\* Mutant: what is still queued from the token before stays.
EndTokenAppends ==
    /\ AtEnd /\ decoding
    /\ IF mode = "full" THEN queue' \in {queue \o q : q \in Kicks} ELSE UNCHANGED queue
    /\ slotNo' = 1 - slotNo
    /\ ids' = [ids EXCEPT ![1 - slotNo] = NoIds]
    /\ looked' = {} /\ lookedStep' = -1
    /\ epc' = "idle" /\ node' = 1 /\ decoding' = FALSE /\ graph' = Graph
    /\ UNCHANGED <<vars, mode, evals, step, routing, windows, prefetcher>>

\* stream_prefetch_kick_full, then stream_step_boundary.
EndToken ==
    /\ AtEnd /\ decoding
    /\ IF mode = "full" THEN queue' \in Kicks ELSE UNCHANGED queue
    /\ slotNo' = 1 - slotNo
    /\ ids' = [ids EXCEPT ![1 - slotNo] = NoIds]
    /\ looked' = {} /\ lookedStep' = -1
    /\ epc' = "idle" /\ node' = 1 /\ decoding' = FALSE /\ graph' = Graph
    /\ UNCHANGED <<vars, mode, evals, step, routing, windows, prefetcher>>

-----------------------------------------------------------------------------
(* The prefetch worker.                                                    *)

TakeItem ==
    /\ Alive /\ wpc = "wait" /\ queue # <<>>
    /\ item' = Head(queue) /\ queue' = Tail(queue)
    /\ wpc' = "find"
    /\ UNCHANGED <<vars, mode, epc, node, evaluation, routing, windows, history, stop>>

\* The window is found, and the cache has something to load.
StartPrefetch ==
    /\ wpc = "find" /\ item.tensor \in windows
    /\ PrefetchFilter(item)
    /\ wpc' = "prefetch"
    /\ UNCHANGED <<mode, epc, node, evaluation, routing, windows, history, queue, item,
                   stop>>

\* Mutant: an item with nothing to load goes back to the queue.
SkipRequeues ==
    /\ Alive /\ wpc = "find"
    /\ item.tensor \in windows /\ epc # "insert" /\ UseOdirect =>
          mu = "free" /\ BatchKeys(item) \subseteq map
    /\ wpc' = "wait" /\ item' = NoBatch
    /\ queue' = Append(queue, item)
    /\ UNCHANGED <<vars, mode, epc, node, evaluation, routing, windows, history, stop>>

\* No window, or none found while the registry changes; no offset source, or
\* nothing absent.
SkipItem ==
    /\ Alive /\ wpc = "find"
    /\ item.tensor \in windows /\ epc # "insert" /\ UseOdirect =>
          mu = "free" /\ BatchKeys(item) \subseteq map
    /\ wpc' = "wait" /\ item' = NoBatch
    /\ UNCHANGED <<vars, mode, epc, node, evaluation, routing, windows, history, queue,
                   stop>>

PrefetchReturns ==
    /\ Alive /\ wpc = "prefetch" /\ ppc = "idle"
    /\ wpc' = "wait" /\ item' = NoBatch
    /\ UNCHANGED <<vars, mode, epc, node, evaluation, routing, windows, history, queue,
                   stop>>

\* stream_prefetch_stop, on the thread that shuts the server down.
StopPrefetch ==
    /\ Alive /\ ~stop /\ stop' = TRUE
    /\ UNCHANGED <<vars, mode, epc, node, evaluation, routing, windows, history, queue,
                   wpc, item>>

\* The worker leaves only when the queue is empty.
WorkerExits ==
    /\ Alive /\ wpc = "wait" /\ stop /\ queue = <<>>
    /\ wpc' = "exited"
    /\ UNCHANGED <<vars, mode, epc, node, evaluation, routing, windows, history, queue,
                   item, stop>>

\* The process is gone after abort(), or when both threads are at rest.
Ended ==
    /\ Alive => stop /\ wpc = "exited" /\ epc = "idle"
    /\ UNCHANGED <<vars, svars>>

-----------------------------------------------------------------------------
\* What the decode thread does outside the cache, once an evaluation runs.
CallbackStep ==
    \/ \E R \in SUBSET Experts : \E K \in SUBSET R : Router(R, K)
    \/ \E t \in Tensors : HarvestCall(t)
    \/ HarvestReturn \/ HarvestDone \/ InsertWindow \/ WindowInserted
    \/ Serve \/ Record
    \/ \E t \in Tensors : LookaheadPush(t)
    \/ KernelStarts \/ KernelDone \/ EvalFails \/ EndPass \/ EndToken

WorkerStep == TakeItem \/ StartPrefetch \/ SkipItem \/ PrefetchReturns \/ WorkerExits

\* The steps of the cache's calls.
InDemand == DemandStep /\ UNCHANGED svars
InPrefetch == PrefetchStep /\ UNCHANGED svars

StreamNext ==
    \/ \E g \in {Graph} \cup Drafts, s \in -1 .. MaxStep : BeginPass(g, s)
    \/ \E s \in 0 .. MaxStep : BeginToken(s)
    \/ CallbackStep
    \/ WorkerStep
    \/ StopPrefetch
    \/ InDemand
    \/ InPrefetch
    \/ Ended

allvars == <<vars, svars>>

StreamSpec == StreamInit /\ [][StreamNext]_allvars

\* The worker runs whenever it can; nothing is asked of the decode thread.
StreamFairSpec == StreamSpec /\ WF_allvars(WorkerStep \/ InPrefetch)

-----------------------------------------------------------------------------
(* Properties.                                                             *)

\* Every variable has its type; what is queued is a batch of the model.
StreamTypeOK ==
    /\ mode \in PfModes
    /\ epc \in {"idle", "node", "harvest", "insert", "serve", "look", "kernel"}
    /\ graph \in {Graph} \cup Drafts /\ node \in 1 .. Len(graph) + 1
    /\ decoding \in BOOLEAN /\ evals \in 0 .. MaxEvals /\ step \in -1 .. MaxStep
    /\ routed \in [Layers -> SUBSET Experts] /\ kept \in [Layers -> SUBSET Experts]
    /\ fills \subseteq Tensors /\ windows \subseteq Tensors
    /\ ids \in [{0, 1} -> [Tensors -> SUBSET Experts]] /\ slotNo \in {0, 1}
    /\ looked \subseteq Tensors /\ lookedStep \in -1 .. MaxStep
    /\ queue \in Seq(Batch)
    /\ wpc \in {"wait", "find", "prefetch", "exited"} /\ item \in Batch
    /\ stop \in BOOLEAN

\* The worker looks windows up without a lock (prefetch_worker), which is
\* sound only while the decode thread inserts none.  The model's own windows
\* are never inserted meanwhile: nothing is queued before a whole token has
\* been evaluated.  A window of the MTP draft graph may be: a sampled request
\* kicks the worker, the first greedy one drafts.
RegistryUnshared ==
    epc = "insert" /\ wpc = "find" => Here.tensor \notin MainTensors

\* "latest-wins" (g_pi_q): in full mode what is queued is the routing of the
\* latest token, however far the worker is behind.
LatestWins ==
    mode = "full" => \A i \in 1..Len(queue) :
        queue[i].experts = ids[1 - slotNo][queue[i].tensor]

\* Without prefetch the kernel finds the experts that its router has kept: the
\* fills at the router evict each other and what earlier layers left, and the
\* demand call makes up for it.
KernelServed ==
    mode = "off" /\ epc = "kernel" /\ Fits(call) =>
        Slices({Here.tensor} \X Wanted) \subseteq window

\* "Dropped ids are excluded from the fill list so their window slices stay
\* zero - dropped experts contribute exactly nothing" (stream_cb_eval).  This
\* does not hold for a slice that an earlier fill left (cne_stream_cb.cpp:433),
\* and no run has it.
DroppedAreZero ==
    epc = "kernel" =>
        Slices({Here.tensor} \X (routed[LayerHere] \ Wanted)) \cap window = {}

\* stream_prefetch_stop can join the worker: when the last evaluation has
\* ended, it drains the queue and leaves.
WorkerStops ==
    <>[](stop /\ epc = "idle") => <>(wpc = "exited" \/ ~Alive)
=============================================================================
