------------------------------ MODULE ApiEdge ------------------------------
(***************************************************************************)
(* The HTTP surface of cne-server in front of generation: the POST handler *)
(* of /v1/chat/completions with authentication, rate limit, conversation   *)
(* ids and the fitting of the messages into a lane, then the decode lock   *)
(* and the job queue.  A user, a key or an id of a chat is the sequence of *)
(* its parts between colons.                                               *)
(***************************************************************************)
EXTENDS Boot, RateLimiter

CONSTANTS Ids,          \* the requests
          KeyLines,     \* the engine's keys in file order: [key, user]
          NoUser,       \* no user
          PrefixTokens, \* tokens of the template around the messages
          ThinkOff,     \* tokens of the closed think block
          Never         \* no time

ASSUME EdgeAssumption == IsFiniteSet(Ids) /\ ThinkOff \in Nat

VARIABLES now,          \* the clock
          apiHits,      \* the engine's limiter
          call,         \* per request: what the engine made of it
          jobs          \* g_jobs: requests whose generation waits or runs

apiVars == <<apiHits, call, jobs>>

NoCall == [at |-> "none", status |-> 0, user |-> NoUser, conv |-> <<>>, nGen |-> 0,
           prompt |-> 0, think |-> FALSE, strip |-> FALSE, kept |-> {}, admitted |-> Never,
           refused |-> Never]

ApiInit == apiHits = NoHits /\ call = [i \in Ids |-> NoCall] /\ jobs = <<>>

-----------------------------------------------------------------------------
(* authenticate.                                                           *)

\* The user that the key lines map a key to: the last line that has one.
Mapped(key) ==
    LET own == {n \in DOMAIN KeyLines : KeyLines[n].key = key /\ KeyLines[n].user # NoUser}
    IN IF own = {} THEN NoUser ELSE KeyLines[Max(own)].user

Keys == {KeyLines[n].key : n \in DOMAIN KeyLines}

ASSUME KeyAssumption ==
    /\ UserIds \subseteq Seq(STRING) \ {<<>>} /\ NoUser \notin UserIds
    /\ \A key \in Keys : Mapped(key) \in UserIds \cup {NoUser}

AuthStatus(m) ==
    IF Keys = {} THEN 503
    ELSE IF m.bearer \notin Keys THEN 401
    ELSE IF Mapped(m.bearer) # NoUser /\ m.user \notin {NoUser, Mapped(m.bearer)} THEN 403
    ELSE IF Mapped(m.bearer) = NoUser /\ m.user = NoUser THEN 400
    ELSE 200

AuthUser(m) == IF m.user # NoUser THEN m.user ELSE Mapped(m.bearer)

-----------------------------------------------------------------------------
(* resolve_conversation_id.                                                *)

IsText(v) == "str" \in DOMAIN v
Text(v) == IF IsText(v) THEN v.str ELSE <<>>

MakeConversationId(user, chat) == user \o chat

\* id begins with user and a colon; an owned one goes on behind it.
Continues(id, user) == Len(user) < Len(id) /\ SubSeq(id, 1, Len(user)) = user

ConversationOwnedBy(conv, user) == Continues(conv, user) /\ conv # user \o <<"">>

ConvGiven(m) == IF IsText(m.convId) THEN m.convId.str ELSE m.convHdr

ConvStatus(m, user) ==
    LET chat == Text(m.chatId)
        conv == ConvGiven(m)
    IN IF ~rt.api THEN 200
       ELSE IF chat # <<>> /\ conv # <<>> THEN 400
       ELSE IF conv # <<>> /\ ~ConversationOwnedBy(conv, user) THEN 403
       ELSE IF chat = <<>> /\ conv = <<>> /\ rt.needChat THEN 400
       ELSE 200

ConvId(m, user) ==
    IF rt.api /\ Text(m.chatId) # <<>> THEN MakeConversationId(user, Text(m.chatId))
    ELSE ConvGiven(m)

-----------------------------------------------------------------------------
(* handle_chat up to the decode lock.                                      *)

\* body.value throws on a value of another type; httplib answers 500.
WrongTypes(m) ==
    \/ DOMAIN m.maxTokens \cap {"num", "blank"} = {}
    \/ DOMAIN m.maxCompletion \cap {"num", "blank"} = {}

MaxTokens(m) ==
    LET asked == IF "num" \in DOMAIN m.maxTokens THEN m.maxTokens.num
                 ELSE IF "num" \in DOMAIN m.maxCompletion THEN m.maxCompletion.num
                 ELSE 256
    IN IF asked < 1 THEN 1 ELSE asked

ThinkEnabled(m) == IF "flag" \in DOMAIN m.think THEN m.think.flag ELSE rt.think

\* The request's flag is not all: only on qwen3 is a closed think block put
\* behind the prompt, so that nothing is left to be thought, and on lfm2moe,
\* which always thinks, think blocks are not taken out of the answer either.
ThinkClosed(m) == ~ThinkEnabled(m) /\ rt.arch = "qwen3"
ThinkStripped(m) == ~ThinkEnabled(m) /\ rt.arch # "lfm2moe"

\* count_msg_tokens for the messages of some positions; a message without a
\* role or a content cannot be rendered.
Renders(ms) == \A n \in DOMAIN ms : ms[n].len > 0
Tokens(ms, I) == PrefixTokens + MapThenSumSet(LAMBDA n : ms[n].len, I)

\* What a request is made of: messages of some length each, the tokens of any
\* of them together a number, and fields of the types that JSON gives them.
WellFormed(m) ==
    /\ DOMAIN m = {"via", "path", "bearer", "user", "json", "messages", "maxTokens",
                   "maxCompletion", "chatId", "chatHdr", "convId", "convHdr", "think",
                   "stream"}
    /\ m.user \in UserIds \cup {NoUser}
    /\ m.messages \in Seq([sys : BOOLEAN, len : Nat])
    /\ \A I \in SUBSET DOMAIN m.messages : Tokens(m.messages, I) \in Nat
    /\ \A v \in {m.maxTokens, m.maxCompletion} : "num" \in DOMAIN v => v.num \in Int
    /\ \A v \in {m.chatId, m.convId} : IsText(v) => v.str \in Seq(STRING)
    /\ m.chatHdr \in Seq(STRING) /\ m.convHdr \in Seq(STRING)
    /\ "flag" \in DOMAIN m.think => m.think.flag \in BOOLEAN

\* Mutant: the newest go first.
WithoutNewest(ms, d) ==
    {n \in DOMAIN ms :
        ms[n].sys \/ Cardinality({k \in n .. Len(ms) : ~ms[k].sys}) > d}

\* The positions left when the d oldest messages without the system role
\* are dropped.
Without(ms, d) ==
    {n \in DOMAIN ms : ms[n].sys \/ Cardinality({k \in 1 .. n : ~ms[k].sys}) > d}

\* trim_messages_for_context.
Trimmed(ms, room) ==
    LET fits == {d \in 0 .. Len(ms) : Tokens(ms, Without(ms, d)) <= room}
    IN IF ~Renders(ms) THEN DOMAIN ms
       ELSE Without(ms, IF fits = {} THEN Len(ms) ELSE Min(fits))

MaxPrompt(m) == rt.lane - MaxTokens(m) - 4

\* The prompt as it is decoded.
Prompt(m) ==
    Tokens(m.messages, Trimmed(m.messages, MaxPrompt(m)))
        + IF ThinkClosed(m) THEN ThinkOff ELSE 0

Headroom(m) == rt.lane - Prompt(m) - 4

ChatStatus(m, user) ==
    IF WrongTypes(m) THEN 500
    ELSE IF ConvStatus(m, user) # 200 THEN ConvStatus(m, user)
    ELSE IF \/ MaxPrompt(m) < 1
            \/ ~Renders(m.messages)
            \/ Tokens(m.messages, Trimmed(m.messages, MaxPrompt(m))) > MaxPrompt(m)
            \/ Headroom(m) < 1
         THEN 400
    ELSE 200

NGen(m) == IF MaxTokens(m) < Headroom(m) THEN MaxTokens(m) ELSE Headroom(m)

-----------------------------------------------------------------------------
(* The POST handler.                                                       *)

\* The end of a request; what the limiter needs of it is kept.
Ended(c, at, status) ==
    [NoCall EXCEPT !.at = at, !.status = status, !.user = c.user, !.admitted = c.admitted]

Reply(i, status) == call' = [call EXCEPT ![i] = Ended(@, "done", status)]

\* The body is looked at before the key.
BadBody(i, m) ==
    /\ m.json # "ok" \/ m.messages = <<>>
    /\ Reply(i, 400)
    /\ UNCHANGED <<apiHits, jobs>>

Unauthenticated(i, m) ==
    /\ m.json = "ok" /\ m.messages # <<>>
    /\ rt.api /\ AuthStatus(m) # 200
    /\ Reply(i, AuthStatus(m))
    /\ UNCHANGED <<apiHits, jobs>>

\* The clock is read and the limiter's lock taken in one step: a thread that
\* is held up between the two (cne_api.cpp:177) is not modelled.
Limited(i, m) ==
    /\ m.json = "ok" /\ m.messages # <<>>
    /\ rt.api /\ AuthStatus(m) = 200
    /\ ~Allows(apiHits, rt.rpm, AuthUser(m), now)
    /\ apiHits' = Counted(apiHits, rt.rpm, AuthUser(m), now)
    /\ call' = [call EXCEPT ![i].at = "done", ![i].status = 429,
                            ![i].user = AuthUser(m), ![i].refused = now]
    /\ UNCHANGED jobs

\* Past the limiter; the request then waits for gen_mutex or is refused.
Handled(i, m) ==
    LET user   == IF rt.api THEN AuthUser(m) ELSE NoUser
        status == ChatStatus(m, user)
    IN /\ m.json = "ok" /\ m.messages # <<>>
       /\ rt.api => AuthStatus(m) = 200 /\ Allows(apiHits, rt.rpm, user, now)
       /\ apiHits' = IF rt.api THEN Counted(apiHits, rt.rpm, user, now) ELSE apiHits
       /\ call' = [call EXCEPT ![i] =
              LET counted == [NoCall EXCEPT !.user = user,
                                            !.admitted = IF rt.api THEN now ELSE Never]
              IN IF status # 200 THEN [counted EXCEPT !.at = "done", !.status = status]
                 ELSE [counted EXCEPT !.at = "queued", !.conv = ConvId(m, user),
                                      !.nGen = NGen(m), !.prompt = Prompt(m),
                                      !.think = ~ThinkClosed(m),
                                      !.strip = ThinkStripped(m),
                                      !.kept = Trimmed(m.messages, MaxPrompt(m))]]
       /\ UNCHANGED jobs

PostChat(i, m) ==
    /\ call[i].at = "none"
    /\ BadBody(i, m) \/ Unauthenticated(i, m) \/ Limited(i, m) \/ Handled(i, m)

-----------------------------------------------------------------------------
(* The decode lock, the job, the answer.                                   *)

Locked == \E i \in Ids : call[i].at = "blocked"

\* bind_conversation gives no slot: with MTP, with sessions switched off, ...
Unbindable(c) == c.conv # <<>> /\ (rt.mtp > 0 \/ ~rt.sessions)

\* ... or because the conversation is another user's.  Ids alone do not tell:
\* it is for the session store to know whose it is, and either may be the case
\* of an id that more than one user could have made.
MayBeAnothers(c) ==
    \E u \in UserIds \ {c.user} : ConversationOwnedBy(c.conv, u)

\* In API mode a conversation that cannot be bound is refused.
BindFails(i) ==
    /\ call[i].at = "queued" /\ ~Locked
    /\ rt.api /\ (Unbindable(call[i]) \/ MayBeAnothers(call[i]))
    /\ Reply(i, 403)
    /\ UNCHANGED <<apiHits, jobs>>

\* A streaming handler returns at once, with status 200; another one keeps
\* the lock until its job is done.
Bind(i, stream) ==
    /\ call[i].at = "queued" /\ ~Locked
    /\ ~(rt.api /\ Unbindable(call[i]))
    /\ call' = [call EXCEPT ![i].at = IF stream THEN "streaming" ELSE "blocked",
                            ![i].status = IF stream THEN 200 ELSE 0]
    /\ jobs' = Append(jobs, i)
    /\ UNCHANGED apiHits

\* The engine thread ends the oldest job; a job that fails is a 500, or a
\* stream without an end.
RunJob(ok) ==
    /\ jobs # <<>>
    /\ LET i == Head(jobs)
       IN call' = [call EXCEPT ![i] =
                     IF @.at = "streaming" THEN Ended(@, IF ok THEN "done" ELSE "cut", 200)
                     ELSE Ended(@, "done", IF ok THEN 200 ELSE 500)]
    /\ jobs' = Tail(jobs)
    /\ UNCHANGED apiHits

\* The process is gone, and with it its limiter and all it was doing.
ApiLost ==
    /\ apiHits' = NoHits
    /\ jobs' = <<>>
    /\ call' = [i \in Ids |->
                  IF call[i].at \in {"queued", "blocked", "streaming"}
                  THEN [NoCall EXCEPT !.at = "lost"]
                  ELSE [call[i] EXCEPT !.admitted = Never, !.refused = Never]]
=============================================================================
