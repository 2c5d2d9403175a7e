------------------------------ MODULE MCServing ------------------------------
(* Instances of Serving for TLC.                                           *)
EXTENDS Serving, TLC

Site(arch, avail, model, mtp, answers, env0) ==
    [arch |-> arch, avail |-> avail, model |-> model, dense |-> 500, mtp |-> mtp,
     answers |-> answers, confirm |-> TRUE, env |-> env0]

\* Three lanes; the rate limit of the engine is as tight as the gateway's.
Roomy ==
    Site("qwen3", 16384, 4096, FALSE, "api_rpm" :> Num(1) @@ "prefetch" :> Flag(TRUE), <<>>)
MCSites ==
    {Roomy,
     \* a model that just fits: the planner goes down to 512 tokens
     Site("lfm2moe", 4096, 3800, FALSE, "think" :> Flag(FALSE) @@ "cache_gib" :> Num(0),
          "require_chat_id" :> Num(1) @@ "dense" :> Str("warm")),
     \* a streamed model without API mode, and one without server.json, with
     \* negative numbers in the environment
     Site("lfm2moe", 4096, 20000, FALSE,
          "api_mode" :> Flag(FALSE) @@ "dense" :> Str("anon"), <<>>),
     [Site("other", 4096, 20000, FALSE, <<>>,
           "ctx" :> Num(600) @@ "cache_gib" :> Num(-1) @@ "session_max" :> Num(-1)
           @@ "api_rpm" :> Num(-1) @@ "session" :> Num(0) @@ "api_mode" :> Num(1))
        EXCEPT !.confirm = FALSE],
     \* MTP and API mode together
     Site("qwen3", 16384, 20000, TRUE, <<>>,
          "api_mode" :> Num(1) @@ "dense" :> Str("anon")),
     \* a machine on which the planner does not end
     Site("other", 3400, 1000, FALSE, <<>>, <<>>)}

\* Users u, v and u:x.
MCUserIds == {<<"u">>, <<"v">>, <<"u", "x">>}
MCInternalKey == <<"int">>
MCKeyLines == <<[key |-> <<"int">>, user |-> NoUser], [key |-> <<"kv">>, user |-> <<"v">>]>>
MCGatewayLines ==
    <<[key |-> <<"ku">>, user |-> <<"v">>], [key |-> <<"ku">>, user |-> <<"u">>],
      [key |-> <<"k2">>, user |-> <<"u">>], [key |-> <<"kn">>, user |-> <<"u", "x">>],
      [key |-> <<"v">>, user |-> NoUser]>>

User(n) == [sys |-> FALSE, len |-> n]
System(n) == [sys |-> TRUE, len |-> n]

Plain == [via |-> "gateway", path |-> "chat", bearer |-> <<"ku">>, user |-> NoUser,
          json |-> "ok", messages |-> <<User(10)>>, maxTokens |-> Blank,
          maxCompletion |-> Blank, chatId |-> Blank, chatHdr |-> <<"x">>,
          convId |-> Blank, convHdr |-> <<>>, think |-> Blank, stream |-> FALSE]
Direct == [Plain EXCEPT !.via = "engine", !.bearer = <<"int">>, !.user = <<"u">>,
                        !.maxTokens = Num(50)]

Odd ==
    {[Plain EXCEPT !.bearer = <<"kx">>],
     [Plain EXCEPT !.path = "models"],
     [Plain EXCEPT !.path = "health"],
     [Plain EXCEPT !.json = "nolist"],
     [Plain EXCEPT !.messages = <<>>],
     [Plain EXCEPT !.messages = <<User(0)>>],
     [Plain EXCEPT !.maxTokens = Num(0)],
     [Plain EXCEPT !.maxTokens = Str("many")],
     [Plain EXCEPT !.think = Flag(TRUE)],
     [Plain EXCEPT !.bearer = <<"k2">>, !.user = <<"v">>, !.think = Str("true")],
     [Plain EXCEPT !.bearer = <<"v">>, !.chatId = Str(<<"x">>), !.convId = Str(<<"u", "x">>)],
     [Plain EXCEPT !.bearer = <<"v">>, !.chatHdr = <<>>, !.convId = Str(<<"u", "x">>)],
     [Plain EXCEPT !.chatHdr = <<>>, !.convId = Str(<<"u", "x">>), !.maxCompletion = Num(9)],
     [Plain EXCEPT !.messages = <<User(60), System(20), User(60), User(60)>>],
     [Plain EXCEPT !.messages = <<System(9000), User(9)>>],
     [Direct EXCEPT !.bearer = <<"kx">>],
     [Direct EXCEPT !.user = NoUser],
     [Direct EXCEPT !.bearer = <<"kv">>],
     [Direct EXCEPT !.bearer = <<"kv">>, !.user = NoUser, !.convHdr = <<"v", "x">>],
     [Direct EXCEPT !.maxTokens = Null],
     [Direct EXCEPT !.maxTokens = Num(2040)],
     [Direct EXCEPT !.chatHdr = <<>>, !.think = Flag(FALSE),
                    !.messages = <<User(60), System(20), User(60), User(60)>>]}

Mix(a, b, c) == "r1" :> a @@ "r2" :> b @@ "r3" :> c

\* Three requests of one user that compete for both limits; two users whose
\* ids come out the same; every odd request on its own, everywhere.
Rush == Mix(Plain, [Plain EXCEPT !.bearer = <<"k2">>, !.stream = TRUE], Direct)
Lone == {Mix(NoRequest, odd, NoRequest) : odd \in Odd}
Alike == Mix([Plain EXCEPT !.chatHdr = <<"x", "y">>],
             [Plain EXCEPT !.bearer = <<"kn">>, !.chatHdr = <<"y">>], NoRequest)
MCMixes == {Rush, Alike} \cup Lone
MCDeployments == ({Roomy} \X {Rush, Alike}) \cup (MCSites \X Lone)
=============================================================================
