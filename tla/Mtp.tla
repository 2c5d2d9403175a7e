-------------------------------- MODULE Mtp --------------------------------
(***************************************************************************)
(* The draft-MTP generation loop (runtime/cne_stream_spec.cpp): a drafter  *)
(* proposes tokens, the target verifies all of them in one decode, and     *)
(* what was rejected must leave both memories again.  Recurrent layers     *)
(* cannot drop a tail, so that contexts that have them are rolled back to  *)
(* a checkpoint and the accepted tokens are replayed.                      *)
(***************************************************************************)
EXTENDS Integers, Sequences

CONSTANTS Tokens,      \* the vocabulary
          Eog,         \* its end-of-generation token
          Target(_),   \* the target's best token after a context
          Garbled,     \* what a memory that contradicts itself produces
          Prompts,     \* tokenized prompts of the requests
          NGen,        \* the budgets of the requests
          NMax,        \* depth of a draft
          NCtx,        \* positions of the context
          NBatch,      \* tokens per prefill decode
          Kinds,       \* which contexts can only drop whole sequences
          MayFail,     \* decodes and the drafter may fail
          Retains      \* upstream #26425: a generation outlives its clear

ASSUME MtpAssumption ==
    /\ Eog \in Tokens /\ Garbled \in Tokens
    /\ Prompts \subseteq Seq(Tokens) /\ NGen \subseteq Nat
    /\ NMax \in Nat /\ NCtx \in Nat /\ NBatch \in Nat \ {0}
    /\ Kinds \subseteq [tgt : BOOLEAN, dft : BOOLEAN]
    /\ MayFail \in BOOLEAN /\ Retains \in BOOLEAN

\* The target's best token is one of the vocabulary, whatever fits the context.
ASSUME TargetAssumption ==
    \A n \in 0 .. NCtx : \A c \in [1 .. n -> Tokens] : Target(c) \in Tokens

VARIABLES stage,       \* where the loop stands
          kind,        \* [tgt, dft]: the context only drops whole sequences
          probed,      \* ckpt_probed, latched once per process
          tgt, dft,    \* the two memories: attention cells, recurrent state
          prompt, nGen,
          promptTgt, idLast, nPast,
          draft,       \* tokens proposed for the next verify batch
          ckpt,        \* the checkpoint of the last drafting round
          ids,         \* sampled tokens that are not handed on yet
          out,         \* tokens handed to on_token; stats.produced of them
          stopped      \* poll_stop has ended the loop

mtpVars == <<stage, kind, probed, tgt, dft, prompt, nGen, promptTgt, idLast,
             nPast, draft, ckpt, ids, out, stopped>>
asking == <<kind, prompt, nGen>>

-----------------------------------------------------------------------------
(* Memories.  A sequence of tokens stands for the cells of a memory and    *)
(* for the tokens a recurrent state has absorbed.                          *)

EmptyMem == [attn |-> <<>>, state |-> <<>>]

Cut(s, n) == SubSeq(s, 1, IF n < Len(s) THEN n ELSE Len(s))

\* A decode appends to the cells and to the state.
Feed(m, batch) == [attn |-> m.attn \o batch, state |-> m.state \o batch]

\* llama_memory_seq_rm(p, -1): a state beyond p makes the memory refuse.
SeqRm(m, full, p) ==
    IF ~full THEN [attn |-> Cut(m.attn, p), state |-> Cut(m.state, p)]
    ELSE IF Len(m.state) > p THEN m
    ELSE [m EXCEPT !.attn = Cut(@, p)]

\* A PARTIAL_ONLY checkpoint holds the recurrent state and nothing else.
Load(m, full, saved) == IF full THEN [m EXCEPT !.state = saved] ELSE m

\* What is left of a memory that is emptied, or made anew for the next request.
\* The server says of its clears that they "blunt the retention but do not
\* eliminate it": with the upstream defect a recurrent state may survive.
Emptied(m) == {EmptyMem} \cup IF Retains THEN {[EmptyMem EXCEPT !.state = m.state]} ELSE {}

\* The best token after a memory's content.
Best(m) ==
    IF m.attn = m.state /\ Len(m.attn) <= NCtx THEN Target(m.attn) ELSE Garbled

\* sample_and_accept_n: the target's token after id_last, and one more for
\* every draft token that agrees with it.
Row(m, d, i) == Best(Feed(m, <<idLast>> \o SubSeq(d, 1, i)))

Accepted(m, d) ==
    CHOOSE n \in 0 .. Len(d) :
        /\ \A i \in 1 .. n : d[i] = Row(m, d, i - 1)
        /\ n < Len(d) => d[n + 1] # Row(m, d, n)

Sampled(m, d) == [i \in 1 .. Accepted(m, d) + 1 |-> Row(m, d, i - 1)]

-----------------------------------------------------------------------------
NoCkpt == [tokens |-> 0, pos |-> 0, tgt |-> <<>>, dft |-> <<>>]

MtpInit ==
    /\ stage = "idle"
    /\ kind \in Kinds
    /\ probed = FALSE
    /\ tgt = EmptyMem /\ dft = EmptyMem
    /\ prompt = <<>> /\ nGen = 0
    /\ promptTgt = <<>> /\ idLast = Eog /\ nPast = 0
    /\ draft = <<>> /\ ckpt = NoCkpt /\ ids = <<>> /\ out = <<>>
    /\ stopped = FALSE

Fresh(p, n) ==
    /\ stage = "idle"
    /\ prompt' = p /\ nGen' = n /\ out' = <<>> /\ stopped' = FALSE
    /\ draft' = <<>> /\ ids' = <<>> /\ ckpt' = NoCkpt
    /\ promptTgt' = <<>> /\ idLast' = Eog /\ nPast' = 0
    /\ dft' \in Emptied(dft)
    /\ UNCHANGED kind

\* Nothing to do, or the draft context cannot be made.
Refuse(p, n) ==
    /\ Fresh(p, n)
    /\ p = <<>> \/ n <= 0 \/ MayFail
    /\ stage' = "ended"
    /\ UNCHANGED <<tgt, probed>>

\* A new drafter; the probe, which wipes the target's memory, runs once per
\* process and before the prompt is primed.
Begin(p, n) ==
    /\ Fresh(p, n)
    /\ p # <<>> /\ n > 0
    /\ tgt' = IF probed THEN tgt ELSE EmptyMem
    /\ probed' = TRUE
    /\ stage' \in {"prefill"} \cup (IF MayFail THEN {"ended"} ELSE {})

\* The next chunk of the prompt without its last token.
Chunk == SubSeq(prompt, nPast + 1,
                IF nPast + NBatch < Len(prompt) - 1 THEN nPast + NBatch
                                                    ELSE Len(prompt) - 1)

Prefill ==
    /\ stage = "prefill"
    /\ nPast + 1 < Len(prompt)
    /\ tgt' = Feed(tgt, Chunk) /\ dft' = Feed(dft, Chunk)
    /\ nPast' = nPast + Len(Chunk)
    /\ UNCHANGED <<stage, asking, probed, promptTgt, idLast, draft, ckpt, ids, out,
                   stopped>>

\* The decode fails, or the drafter does after the decode.
PrefillFails ==
    /\ stage = "prefill" /\ MayFail
    /\ nPast + 1 < Len(prompt)
    /\ tgt' \in {tgt, Feed(tgt, Chunk)}
    /\ stage' = "ended"
    /\ UNCHANGED <<asking, probed, dft, promptTgt, idLast, nPast, draft, ckpt, ids,
                   out, stopped>>

Primed ==
    /\ stage = "prefill"
    /\ nPast + 1 >= Len(prompt)
    /\ idLast' = prompt[Len(prompt)]
    /\ promptTgt' = Cut(prompt, Len(prompt) - 1)
    /\ nPast' = Len(prompt) - 1
    /\ stage' = "loop"
    /\ UNCHANGED <<asking, probed, tgt, dft, draft, ckpt, ids, out, stopped>>

\* Room for drafts: two positions stay free, and the verified tokens plus
\* the one sampled after them stay within the budget.
DraftMax ==
    LET byCtx == NCtx - nPast - 2
        byGen == nGen - Len(out) - 1
        least == IF byCtx < byGen THEN byCtx ELSE byGen
        room  == IF least > 0 THEN least ELSE 0
    IN IF room < NMax THEN room ELSE NMax

\* The checkpoint is taken, the drafter drafts in its own memory and is put
\* back to where the target stands.
Draft(d) ==
    /\ stage = "loop" /\ Len(out) < nGen /\ draft = <<>>
    /\ Len(d) <= DraftMax
    /\ draft' = d
    /\ ckpt' = [tokens |-> Len(promptTgt), pos |-> Len(tgt.attn),
                tgt |-> IF d # <<>> THEN tgt.state ELSE ckpt.tgt,
                dft |-> dft.state]
    /\ dft' = SeqRm(Load(Feed(dft, <<idLast>> \o d), kind.dft, dft.state),
                    kind.dft, Len(tgt.attn))
    /\ stage' = "verify"
    /\ UNCHANGED <<asking, probed, tgt, promptTgt, idLast, nPast, ids, out, stopped>>

\* A draft that is left from a partial acceptance is verified as it is.
Replay ==
    /\ stage = "loop" /\ Len(out) < nGen /\ draft # <<>>
    /\ stage' = "verify"
    /\ UNCHANGED <<asking, probed, tgt, dft, promptTgt, idLast, nPast, draft, ckpt,
                   ids, out, stopped>>

\* poll_stop: the client is gone or the wall budget is spent.
PollStop ==
    /\ stage = "loop" /\ Len(out) < nGen
    /\ stopped' = TRUE
    /\ stage' = "ended"
    /\ UNCHANGED <<asking, probed, tgt, dft, promptTgt, idLast, nPast, draft, ckpt,
                   ids, out>>

Spent ==
    /\ stage = "loop" /\ Len(out) >= nGen
    /\ stage' = "ended"
    /\ UNCHANGED <<asking, probed, tgt, dft, promptTgt, idLast, nPast, draft, ckpt,
                   ids, out, stopped>>

Batch == <<idLast>> \o draft
Fits == nPast + Len(Batch) <= NCtx
Rejects == Accepted(tgt, draft) < Len(draft)

\* The verify decode fails, or the drafter does after it.
VerifyFails ==
    /\ stage = "verify"
    /\ MayFail \/ ~Fits
    /\ tgt' \in {tgt} \cup (IF Fits THEN {Feed(tgt, Batch)} ELSE {})
    /\ nPast' = nPast + 1
    /\ stage' = "ended"
    /\ UNCHANGED <<asking, probed, dft, promptTgt, idLast, draft, ckpt, ids, out,
                   stopped>>

\* Mutant: the drafts themselves are replayed, as many as would be kept.
RollBackDrafts ==
    /\ stage = "verify" /\ Fits
    /\ kind.tgt /\ Rejects
    /\ draft' = Cut(draft, Accepted(tgt, draft) + 1)
    /\ tgt' = SeqRm(Load(Feed(tgt, Batch), kind.tgt, ckpt.tgt), kind.tgt, ckpt.pos)
    /\ dft' = SeqRm(Load(Feed(dft, Batch), kind.dft, ckpt.dft), kind.dft, ckpt.pos)
    /\ nPast' = Len(promptTgt)
    /\ stage' = "loop"
    /\ UNCHANGED <<asking, probed, promptTgt, idLast, ckpt, ids, out, stopped>>

\* Some drafts are rejected and the memory cannot drop them: back to the
\* checkpoint, with the accepted tokens and the sampled one as next draft.
RollBack ==
    /\ stage = "verify" /\ Fits
    /\ kind.tgt /\ Rejects
    /\ draft' = Sampled(tgt, draft)
    /\ tgt' = SeqRm(Load(Feed(tgt, Batch), kind.tgt, ckpt.tgt), kind.tgt, ckpt.pos)
    /\ dft' = SeqRm(Load(Feed(dft, Batch), kind.dft, ckpt.dft), kind.dft, ckpt.pos)
    /\ promptTgt' = Cut(promptTgt, ckpt.tokens)
    /\ nPast' = Len(promptTgt')
    /\ stage' = "loop"
    /\ UNCHANGED <<asking, probed, idLast, ckpt, ids, out, stopped>>

Accept ==
    /\ stage = "verify" /\ Fits
    /\ ~(kind.tgt /\ Rejects)
    /\ tgt' = Feed(tgt, Batch) /\ dft' = Feed(dft, Batch)
    /\ ids' = Sampled(tgt, draft)
    /\ nPast' = nPast + Len(ids')
    /\ stage' = "emit"
    /\ UNCHANGED <<asking, probed, promptTgt, idLast, draft, ckpt, out, stopped>>

\* One sampled token becomes id_last and is handed on, unless it ends it.
Emit ==
    /\ stage = "emit" /\ ids # <<>>
    /\ promptTgt' = Append(promptTgt, idLast)
    /\ idLast' = Head(ids)
    /\ ids' = Tail(ids)
    /\ IF Head(ids) = Eog THEN stage' = "ended" /\ UNCHANGED out
                          ELSE out' = Append(out, Head(ids)) /\ UNCHANGED stage
    /\ UNCHANGED <<asking, probed, tgt, dft, nPast, draft, ckpt, stopped>>

\* Rejected drafts leave both memories.
Trim ==
    /\ stage = "emit" /\ ids = <<>>
    /\ draft' = <<>>
    /\ tgt' = SeqRm(tgt, kind.tgt, nPast)
    /\ dft' = SeqRm(dft, kind.dft, nPast)
    /\ stage' = "loop"
    /\ UNCHANGED <<asking, probed, promptTgt, idLast, nPast, ckpt, ids, out, stopped>>

\* generate_mtp takes a request that produced nothing for a failed one.
Failed == out = <<>> /\ ~stopped

\* Mutant: the memory is left to the next request.
ClearNothing ==
    /\ stage = "ended"
    /\ stage' = "idle"
    /\ UNCHANGED <<asking, probed, tgt, dft, promptTgt, idLast, nPast, draft, ckpt,
                   ids, out, stopped>>

\* The server empties lane 0 behind every request without a slot.
Clear ==
    /\ stage = "ended"
    /\ tgt' \in Emptied(tgt)
    /\ stage' = "idle"
    /\ UNCHANGED <<asking, probed, dft, promptTgt, idLast, nPast, draft, ckpt, ids,
                   out, stopped>>

Drafts == UNION {[1 .. n -> Tokens] : n \in 0 .. NMax}

Step ==
    \/ Prefill \/ PrefillFails \/ Primed
    \/ (\E d \in Drafts : Draft(d)) \/ Replay \/ Spent
    \/ VerifyFails \/ RollBack \/ Accept \/ Emit \/ Trim

MtpNext ==
    \/ \E p \in Prompts, n \in NGen : Begin(p, n) \/ Refuse(p, n)
    \/ Step \/ PollStop \/ Clear

MtpSpec == MtpInit /\ [][MtpNext]_mtpVars
-----------------------------------------------------------------------------
(* Properties.                                                             *)

\* Every variable has its type; drafts and tokens keep within their bounds.
MtpTypeOK ==
    /\ stage \in {"idle", "prefill", "loop", "verify", "emit", "ended"}
    /\ kind \in Kinds /\ probed \in BOOLEAN /\ stopped \in BOOLEAN
    /\ tgt \in [attn : Seq(Tokens), state : Seq(Tokens)]
    /\ dft \in [attn : Seq(Tokens), state : Seq(Tokens)]
    /\ prompt \in Seq(Tokens) /\ nGen \in Nat
    /\ promptTgt \in Seq(Tokens) /\ idLast \in Tokens /\ nPast \in Nat
    /\ draft \in Seq(Tokens) /\ ids \in Seq(Tokens) /\ out \in Seq(Tokens)
    /\ ckpt \in [tokens : Nat, pos : Nat, tgt : Seq(Tokens), dft : Seq(Tokens)]

\* Speculation is lossless (cne_stream_spec.cpp:2): whatever is drafted,
\* rejected, rolled back and replayed, the tokens handed on are the target's
\* own greedy path from the request's prompt, within the budget.  This is about
\* the loop and the server's clears when they clear: it fails from the second
\* request on with Retains, the upstream defect that makes the server warn that
\* "output may degrade across requests" (cne-server.cpp:1117, :1314).
Greedy == INSTANCE GreedyDecode
              WITH live <- stage # "idle", asked <- prompt, budget <- nGen, said <- out
ImplementsGreedy == Greedy!Spec

\* At the top of the loop the cells and the recurrent state of both memories
\* hold the conversation up to id_last: nothing rejected is left in them, and,
\* without Retains, nothing of an earlier request.
MemoriesInStep ==
    stage = "loop" =>
        /\ promptTgt \o <<idLast>> = prompt \o out
        /\ nPast = Len(promptTgt)
        /\ tgt = [attn |-> promptTgt, state |-> promptTgt]
        /\ dft = [attn |-> promptTgt, state |-> promptTgt]

\* A draft left by a rollback is the target's own path, so that it is
\* accepted whole the next time: no second rollback, and progress.
ReplayIsTarget ==
    stage = "loop" =>
        \A i \in 1 .. Len(draft) :
            draft[i] = Target(promptTgt \o <<idLast>> \o SubSeq(draft, 1, i - 1))

\* What every round of the loop (cne_stream_spec.cpp:129) starts from.
LoopInvariant == MemoriesInStep /\ ReplayIsTarget

=============================================================================
