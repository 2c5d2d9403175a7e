---------------------------- MODULE MCChatServer ----------------------------
(* Instances of ChatServer for TLC.                                        *)
EXTENDS ChatServer, TLC

CONSTANTS c1, c2, c3, u, v, w, a, b, r1, r2, r3, r4

\* A request for conversation c by o.
Ask(c, o, clear, stream, p) ==
    [conv |-> c, owner |-> o, clear |-> clear, stream |-> stream, prompt |-> p]

\* Three tenants; u and v, u and w may name the same conversation, so that a
\* mismatch can occur.  One conversation is streamed.
TenantRequests ==
    {Ask(c, u, FALSE, c = c1, <<a>>) : c \in {c1, c2, c3}}
    \cup {Ask(c3, v, clear, FALSE, <<a>>) : clear \in BOOLEAN}
    \cup {Ask(c2, w, FALSE, FALSE, <<a>>)}

\* One tenant, edited and extended prompts.
Prompts == {<<a>>, <<b>>, <<a, b>>, <<b, a>>, <<b, a, a>>}
PromptRequests(C) == {Ask(c, NoOwner, FALSE, FALSE, p) : c \in C, p \in Prompts}

ShareRequests == PromptRequests({c1, c2})

\* Streaming and blocking, with and without a conversation, and different
\* tokens: a conversation's ledger and a stateless request on the same lane
\* can have the same length and another text.
StreamRequests ==
    {Ask(c1, NoOwner, FALSE, TRUE, <<a, b>>), Ask(c1, NoOwner, FALSE, FALSE, <<a>>),
     Ask(c2, NoOwner, FALSE, TRUE, <<a>>),
     Ask(NoConv, NoOwner, FALSE, TRUE, <<b, a>>), Ask(NoConv, NoOwner, FALSE, FALSE, <<b>>)}

\* Request threads are interchangeable.
Symmetry == Permutations(Ids)
=============================================================================
