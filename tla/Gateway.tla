------------------------------ MODULE Gateway ------------------------------
(***************************************************************************)
(* cne_gateway: client keys, a rate limit per user, the chat policy, and   *)
(* the proxying to the engine with the internal key and X-User-Id.  A      *)
(* request is the template the client sends; the model of one exchange is  *)
(* client[i].                                                              *)
(***************************************************************************)
EXTENDS ApiEdge

CONSTANTS Mixes,         \* what the clients send: functions from Ids to requests
          GatewayLines,  \* client keys in the order they are ingested: [key, user]
          InternalKey,   \* the key the gateway shows to the engine
          RpmPerUser,    \* rpm_per_user
          TokenCap,      \* max_tokens_per_request, 0 = none
          AllowThinking

VARIABLES gwHits,        \* the gateway's limiter
          client         \* per request: the client's side of it

gwVars == <<gwHits, client>>

NoRequest == [via |-> "gateway", path |-> "none"]

Unused == [at |-> "unused", req |-> NoRequest, user |-> NoUser, fwd |-> NoRequest,
           status |-> 0, end |-> "open", admitted |-> Never, refused |-> Never]

GatewayInit ==
    /\ gwHits = NoHits
    /\ client \in {[i \in Ids |-> [Unused EXCEPT !.req = mix[i]]] : mix \in Mixes}

\* load_api_keys: the last entry of a key counts, a key alone is its user.
ClientKeys == {GatewayLines[n].key : n \in DOMAIN GatewayLines}
UserOf(key) ==
    LET line == GatewayLines[Max({n \in DOMAIN GatewayLines : GatewayLines[n].key = key})]
    IN IF line.user = NoUser THEN key ELSE line.user

ASSUME GatewayAssumption ==
    /\ \A mix \in Mixes, i \in Ids : mix[i] = NoRequest \/ WellFormed(mix[i])
    /\ \A key \in ClientKeys : UserOf(key) \in UserIds
    /\ RpmPerUser \in Int /\ TokenCap \in Nat /\ AllowThinking \in BOOLEAN

\* The end of an exchange; what the limiter needs of it is kept.
Closed(c, status, end) ==
    [Unused EXCEPT !.at = "closed", !.status = status, !.end = end, !.user = c.user,
                   !.admitted = c.admitted]

Answer(i, status) == client' = [client EXCEPT ![i] = Closed(@, status, "whole")]

\* A client connects to the gateway, or to the engine itself.
Arrive(i) ==
    /\ client[i].at = "unused" /\ client[i].req # NoRequest
    /\ client' = [client EXCEPT ![i].fwd = client[i].req,
                                ![i].at = IF client[i].req.via = "gateway" THEN "arrived"
                                                                           ELSE "sent"]
    /\ UNCHANGED gwHits

-----------------------------------------------------------------------------
(* current_user: runs before the body is read; every request with a valid  *)
(* key is counted, whatever becomes of it.                                 *)

NeedsUser(i) == client[i].at = "arrived" /\ client[i].req.path # "health"

Unauthorized(i) ==
    /\ NeedsUser(i) /\ client[i].req.bearer \notin ClientKeys
    /\ Answer(i, 401)
    /\ UNCHANGED gwHits

TooMany(i) ==
    /\ NeedsUser(i) /\ client[i].req.bearer \in ClientKeys
    /\ LET user == UserOf(client[i].req.bearer)
       IN /\ ~Allows(gwHits, RpmPerUser, user, now)
          /\ gwHits' = Counted(gwHits, RpmPerUser, user, now)
          /\ client' = [client EXCEPT ![i] =
                           [Closed(@, 429, "whole") EXCEPT !.user = user, !.refused = now]]

Admit(i) ==
    /\ NeedsUser(i) /\ client[i].req.bearer \in ClientKeys
    /\ LET user == UserOf(client[i].req.bearer)
       IN /\ Allows(gwHits, RpmPerUser, user, now)
          /\ gwHits' = Counted(gwHits, RpmPerUser, user, now)
          /\ client' = [client EXCEPT ![i].at = "admitted", ![i].user = user,
                                      ![i].admitted = now]

-----------------------------------------------------------------------------
(* apply_chat_policy and the headers.                                      *)

\* The cap only takes numbers from 1.
CapStatus(t) ==
    IF TokenCap > 0 /\ \/ DOMAIN t.maxTokens \cap {"num", "blank", "null"} = {}
                       \/ "num" \in DOMAIN t.maxTokens /\ t.maxTokens.num < 1
    THEN 400 ELSE 200

\* Mutant: only a value that is there is capped.
CappedIfGiven(t) ==
    IF TokenCap = 0 \/ "num" \notin DOMAIN t.maxTokens THEN t.maxTokens
    ELSE Num(Min({TokenCap, t.maxTokens.num}))

\* An absent or a null value is replaced by the cap, a larger one too.
Capped(t) ==
    IF TokenCap = 0 \/ ("num" \in DOMAIN t.maxTokens /\ t.maxTokens.num <= TokenCap)
    THEN t.maxTokens
    ELSE Num(TokenCap)

PolicyStatus(t) ==
    IF t.json # "ok" \/ CapStatus(t) # 200 THEN 400
    ELSE IF ~AllowThinking /\ t.think = Flag(TRUE) THEN 403
    ELSE 200

\* extract_chat_id: the header first; the body keeps a chat_id of its own.
ForwardedChat(t) ==
    IF t.chatHdr # <<>> /\ "blank" \in DOMAIN t.chatId THEN Str(t.chatHdr) ELSE t.chatId

\* Mutant: the client's X-User-Id goes through.
ForwardedAsSent(t, user) ==
    [t EXCEPT !.bearer = InternalKey, !.user = IF t.user # NoUser THEN t.user ELSE user,
              !.convHdr = <<>>, !.chatId = ForwardedChat(t), !.maxTokens = Capped(t),
              !.think = IF AllowThinking THEN t.think ELSE Flag(FALSE)]

\* upstream_headers and the body; other headers of the client stay behind.
Forwarded(t, user) ==
    [t EXCEPT !.bearer = InternalKey, !.user = user, !.convHdr = <<>>,
              !.chatId = ForwardedChat(t), !.maxTokens = Capped(t),
              !.think = IF AllowThinking THEN t.think ELSE Flag(FALSE)]

Refuse(i) ==
    /\ client[i].at = "admitted" /\ client[i].req.path = "chat"
    /\ PolicyStatus(client[i].req) # 200
    /\ Answer(i, PolicyStatus(client[i].req))
    /\ UNCHANGED gwHits

Forward(i) ==
    /\ client[i].at = "admitted" /\ client[i].req.path = "chat"
    /\ PolicyStatus(client[i].req) = 200
    /\ client' = [client EXCEPT ![i].at = "sent",
                                ![i].fwd = Forwarded(client[i].req, client[i].user)]
    /\ UNCHANGED gwHits

-----------------------------------------------------------------------------
(* GET /health and /v1/models, and what comes back from the engine.        *)

\* health always answers and says whether the engine did; models does not.
Get(i) ==
    /\ \/ client[i].at = "arrived" /\ client[i].req.path = "health"
       \/ client[i].at = "admitted" /\ client[i].req.path = "models"
    /\ Answer(i, IF Listening \/ client[i].req.path = "health" THEN 200 ELSE 502)
    /\ UNCHANGED gwHits

\* Mutant: only the failure to connect is caught.
UnreachableAtConnect(i) ==
    /\ client[i].at = "sent" /\ call[i].at = "none" /\ ~Listening
    /\ Answer(i, 502)
    /\ UNCHANGED gwHits

\* No connection, or one that broke before the status: 502.  A client of the
\* engine itself sees its connection fail.
Unreachable(i) ==
    /\ \/ client[i].at = "sent" /\ call[i].at = "none" /\ ~Listening
       \/ client[i].at = "waiting" /\ call[i].at = "lost"
    /\ Answer(i, 502)
    /\ UNCHANGED gwHits

\* proxy_json waits for the whole answer; proxy_stream goes on from status
\* 200 with the body, and reads the whole body of an error first.
Relay(i) ==
    /\ client[i].at = "waiting" /\ call[i].at \in {"done", "cut"}
    /\ client' = [client EXCEPT ![i] =
                     Closed(@, call[i].status, IF call[i].at = "cut" THEN "cut" ELSE "whole")]
    /\ UNCHANGED gwHits

StreamStarts(i) ==
    /\ client[i].at = "waiting" /\ call[i].at = "streaming"
    /\ client' = [client EXCEPT ![i].at = "streaming", ![i].status = 200]
    /\ UNCHANGED gwHits

\* The body ends with the engine's, or breaks off with it.
StreamEnds(i) ==
    /\ client[i].at = "streaming" /\ call[i].at \in {"done", "cut", "lost"}
    /\ client' = [client EXCEPT ![i] =
                     Closed(@, 200, IF call[i].at = "done" THEN "whole" ELSE "cut")]
    /\ UNCHANGED gwHits

GatewayStep(i) ==
    \/ Unauthorized(i) \/ TooMany(i) \/ Admit(i) \/ Refuse(i) \/ Forward(i)
    \/ Get(i) \/ Unreachable(i) \/ Relay(i) \/ StreamStarts(i) \/ StreamEnds(i)
=============================================================================
