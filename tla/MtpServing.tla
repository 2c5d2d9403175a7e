---------------------------- MODULE MtpServing ----------------------------
(***************************************************************************)
(* Streamed answers of a server with MTP on: jobs run one after the other  *)
(* on the engine thread, each one the speculative loop with emit_token as  *)
(* on_token and request_poll_stop as poll_stop; the content providers of   *)
(* the same requests run on HTTP threads next to it.                       *)
(***************************************************************************)
EXTENDS Mtp, TokenStream, FiniteSets

VARIABLES jobs,        \* g_jobs: requests whose job waits
          cur,         \* the request whose job runs, or Nobody
          crashed      \* an exception left the engine thread

CONSTANT Nobody

vars == <<mtpVars, streamVars, jobs, cur, crashed>>

Init == MtpInit /\ StreamsInit /\ jobs = <<>> /\ cur = Nobody /\ crashed = FALSE

\* The handler queues the job and returns with the provider registered.
Submit(r, strip) ==
    /\ OpenStream(r, strip)
    /\ jobs' = Append(jobs, r)
    /\ UNCHANGED <<mtpVars, cur, crashed>>

TakeJob(p, n) ==
    /\ cur = Nobody /\ jobs # <<>>
    /\ Begin(p, n) \/ Refuse(p, n)
    /\ cur' = Head(jobs)
    /\ jobs' = Tail(jobs)
    /\ UNCHANGED <<streamVars, crashed>>

Internal ==
    /\ cur # Nobody
    /\ \/ Prefill \/ PrefillFails \/ Primed \/ Spent
       \/ VerifyFails \/ RollBack \/ Accept \/ Trim
    /\ UNCHANGED <<streamVars, jobs, cur, crashed>>

\* request_poll_stop at the top of the loop.
GoesOn ==
    /\ cur # Nobody /\ ~st[cur].aborted
    /\ (\E d \in Drafts : Draft(d)) \/ Replay
    /\ UNCHANGED <<streamVars, jobs, cur, crashed>>

\* The wall budget may be spent at any time.
Stops ==
    /\ cur # Nobody /\ PollStop
    /\ UNCHANGED <<streamVars, jobs, cur, crashed>>

\* A sampled token goes through the emitter into the queue.
EmitToken ==
    /\ cur # Nobody
    /\ Emit
    /\ st' = IF out' = out THEN st ELSE [st EXCEPT ![cur] = Emitted(@, idLast')]
    /\ crashed' = Throws(st'[cur].strip, Detokenize(st'[cur].toks))
    /\ UNCHANGED <<net, jobs, cur>>

\* The end of the job: the stream is finished after lane 0 is empty again.
FinishJob ==
    /\ cur # Nobody
    /\ Clear
    /\ st' = [st EXCEPT ![cur] = Finished(@, ~Failed)]
    /\ cur' = Nobody
    /\ UNCHANGED <<net, jobs, crashed>>

Provide(r) == Provider(r) /\ UNCHANGED <<mtpVars, jobs, cur, crashed>>

Leave(r) == ClientLeaves(r) /\ UNCHANGED <<mtpVars, jobs, cur, crashed>>

Engine == GoesOn \/ Internal \/ Stops \/ EmitToken \/ FinishJob

Next ==
    /\ ~crashed
    /\ \/ \E r \in Reqs, strip \in Strips : Submit(r, strip)
       \/ \E p \in Prompts, n \in NGen : TakeJob(p, n)
       \/ Engine
       \/ \E r \in Reqs : Provide(r) \/ Leave(r)

Spec == Init /\ [][Next]_vars

\* The engine thread and the HTTP threads run on.
FairSpec ==
    /\ Spec
    /\ WF_vars(~crashed /\ Engine)
    /\ WF_vars(~crashed /\ \E p \in Prompts, n \in NGen : TakeJob(p, n))
    /\ \A r \in Reqs : WF_vars(~crashed /\ Provide(r))

-----------------------------------------------------------------------------
(* Properties.                                                             *)

\* The characters outside think blocks; the white space that the template
\* puts behind a block goes with it.
CloseLen == 8
Hidden(s, i) ==
    \E o \in 1 .. i :
        s[o] = Open /\ \A c \in o .. i : s[c] = Close => i < c + CloseLen
Outside(strip, s) ==
    LET kept == {i \in 1 .. Len(s) : ~Hidden(s, i)}
        text == [k \in 1 .. Cardinality(kept) |->
                    s[CHOOSE i \in kept : Cardinality({j \in kept : j <= i}) = k]]
    IN IF ~strip THEN s
       ELSE IF \E i \in 1 .. Len(s) : s[i] = Close THEN TrimLeft(text) ELSE text

\* What the client of a stream should have been sent so far.
Shown(s) ==
    LET text == Outside(s.strip, Detokenize(s.toks))
    IN IF s.done /\ s.strip /\ s.toks # <<>> /\ text = <<>> THEN Notice ELSE text

\* A connected client has been sent, or is about to be sent, exactly the
\* visible text of the tokens produced for it, in order, and the filter never
\* throws (cne-server.cpp:257: "drop <think>...</think> spans").
AnswerIntact ==
    /\ ~crashed
    /\ \A r \in Reqs :
           net[r].up /\ ~st[r].aborted =>
               net[r].got \o FlattenSeq(st[r].q) = Shown(st[r])

\* A stream that ends with [DONE] has delivered the whole answer of a job
\* that succeeded, whoever was faster.
CleanIsComplete ==
    \A r \in Reqs :
        net[r].end = "clean" /\ net[r].up =>
            st[r].done /\ ~st[r].failed /\ net[r].got = Shown(st[r])

\* Every stream ends and frees the engine: the loop makes progress, and a
\* client that left is noticed.
EveryStreamEnds == \A r \in Reqs : st[r].at = "header" ~> Over(r)
=============================================================================
