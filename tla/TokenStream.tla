---------------------------- MODULE TokenStream ----------------------------
(***************************************************************************)
(* The hand-over of a streamed answer (server/cne-server.cpp): the engine  *)
(* thread turns tokens into visible text (Emitter, emit_token) and queues  *)
(* the pieces (TokenStream), the HTTP thread pulls them and writes them to *)
(* the client, which may leave at any time.                                *)
(***************************************************************************)
EXTENDS Naturals, Sequences, SequencesExt

CONSTANTS Reqs,        \* streaming requests
          Text(_),     \* the characters of a token
          Open, Close, \* the first characters of <think> and </think>
          Blanks,      \* white space
          Notice,      \* the text sent when thinking used all tokens
          Strips       \* values of strip_think

VARIABLES st,          \* StreamState of each request
          net          \* the client's side: [up, got, end]

streamVars == <<st, net>>

-----------------------------------------------------------------------------
(* Emitter.                                                                *)

Detokenize(toks) == FlattenSeq([i \in 1 .. Len(toks) |-> Text(toks[i])])

\* std::string::find from a position; 0 when absent.
Find(s, c, from) ==
    LET at == {i \in from .. Len(s) : s[i] = c}
    IN IF at = {} THEN 0 ELSE CHOOSE i \in at : \A j \in at : i <= j

AfterClose == 20

\* The scan of visible() from a position on: the text kept, whether a span
\* was dropped, and whether substr throws because the scan is past the end.
Scan(full) ==
    LET f[pos \in 1 .. Len(full) + AfterClose + 1] ==
        LET begin == Find(full, Open, pos)
            close == Find(full, Close, begin)
        IN IF pos > Len(full) + 1 THEN [text |-> <<>>, cut |-> FALSE, throws |-> TRUE]
           ELSE IF begin = 0
             THEN [text |-> SubSeq(full, pos, Len(full)), cut |-> FALSE, throws |-> FALSE]
           ELSE IF close = 0 THEN [text |-> <<>>, cut |-> FALSE, throws |-> FALSE]
           ELSE [f[close + AfterClose] EXCEPT !.text = SubSeq(full, pos, begin - 1) \o @,
                                              !.cut = TRUE]
    IN f[1]

\* Leading white space goes once a span was dropped.
TrimLeft(s) ==
    LET solid == {i \in 1 .. Len(s) : s[i] \notin Blanks}
    IN IF solid = {} THEN <<>>
       ELSE SubSeq(s, CHOOSE i \in solid : \A j \in solid : i <= j, Len(s))

Throws(strip, full) == strip /\ Scan(full).throws

Visible(strip, full) ==
    IF ~strip THEN full
    ELSE IF Scan(full).cut THEN TrimLeft(Scan(full).text) ELSE Scan(full).text

\* Mutant: the whole visible text again.
EmittedAgain(s, id) ==
    LET toks == Append(s.toks, id)
        vis  == Visible(s.strip, Detokenize(toks))
    IN IF s.aborted THEN s
       ELSE IF Len(vis) <= s.sent THEN [s EXCEPT !.toks = toks]
       ELSE [s EXCEPT !.toks = toks, !.sent = Len(vis), !.q = Append(@, vis)]

\* emit_token: the token, and the visible characters beyond those sent.
Emitted(s, id) ==
    LET toks  == Append(s.toks, id)
        vis   == Visible(s.strip, Detokenize(toks))
        piece == SubSeq(vis, s.sent + 1, Len(vis))
    IN IF s.aborted THEN s
       ELSE IF piece = <<>> THEN [s EXCEPT !.toks = toks]
       ELSE [s EXCEPT !.toks = toks, !.sent = Len(vis), !.q = Append(@, piece)]

TruncatedInThink(s) == s.strip /\ s.sent = 0 /\ s.toks # <<>>

\* The end of the job: the notice if nothing became visible, then finish().
Finished(s, ok) ==
    [s EXCEPT !.q = IF TruncatedInThink(s) THEN Append(@, Notice) ELSE @,
              !.done = TRUE, !.failed = ~ok]

-----------------------------------------------------------------------------
NewStream(strip) ==
    [toks |-> <<>>, sent |-> 0, strip |-> strip, q |-> <<>>, done |-> FALSE,
     failed |-> FALSE, aborted |-> FALSE, at |-> "header"]

NewClient == [up |-> TRUE, got |-> <<>>, end |-> "open"]

\* No request of this name is under way.
Over(r) == st[r].at = "ended" /\ st[r].done

StreamsInit ==
    /\ st = [r \in Reqs |-> [NewStream(FALSE) EXCEPT !.at = "ended", !.done = TRUE]]
    /\ net = [r \in Reqs |-> NewClient]

\* The handler makes the stream and registers the content provider.
OpenStream(r, strip) ==
    /\ Over(r)
    /\ st' = [st EXCEPT ![r] = NewStream(strip)]
    /\ net' = [net EXCEPT ![r] = NewClient]

\* Writes to a client that left fail or vanish in the kernel's buffers.
Writes(r) == IF net[r].up THEN {TRUE} ELSE BOOLEAN

SendHeader(r) ==
    /\ st[r].at = "header"
    /\ \E written \in Writes(r) :
           st' = [st EXCEPT ![r].at = IF written THEN "pull" ELSE "ended",
                            ![r].aborted = @ \/ ~written]
    /\ UNCHANGED net

\* pull() returns a piece: also after an abort, and before done counts.
SendPiece(r) ==
    /\ st[r].at = "pull" /\ st[r].q # <<>>
    /\ \E written \in Writes(r) :
           st' = [st EXCEPT ![r].q = Tail(@), ![r].aborted = @ \/ ~written]
    /\ net' = [net EXCEPT ![r].got = IF net[r].up THEN @ \o Head(st[r].q) ELSE @]

\* pull() times out: the provider looks whether the peer still reads.
PullTimeout(r) ==
    /\ st[r].at = "pull"
    /\ st[r].q = <<>> /\ ~st[r].done /\ ~st[r].aborted
    /\ ~net[r].up
    /\ st' = [st EXCEPT ![r].at = "ended", ![r].aborted = TRUE]
    /\ UNCHANGED net

\* Mutant: a finished job counts before the pieces that are left.
DrainedEarly(r) ==
    /\ st[r].at = "pull"
    /\ st[r].done \/ st[r].aborted
    /\ st' = [st EXCEPT ![r].at = "ended"]
    /\ net' = [net EXCEPT ![r].end = IF ~st[r].failed /\ ~st[r].aborted THEN "clean"
                                                                       ELSE "cut"]

\* pull() finds nothing left: the closing chunks of a generation that
\* succeeded, or the end of the connection without them.
Drained(r) ==
    /\ st[r].at = "pull"
    /\ st[r].q = <<>> /\ (st[r].done \/ st[r].aborted)
    /\ st' = [st EXCEPT ![r].at = "ended"]
    /\ net' = [net EXCEPT ![r].end = IF ~st[r].failed /\ ~st[r].aborted THEN "clean"
                                                                       ELSE "cut"]

ClientLeaves(r) ==
    /\ st[r].at # "ended" /\ net[r].up
    /\ net' = [net EXCEPT ![r].up = FALSE]
    /\ UNCHANGED st

Provider(r) == SendHeader(r) \/ SendPiece(r) \/ PullTimeout(r) \/ Drained(r)
=============================================================================
