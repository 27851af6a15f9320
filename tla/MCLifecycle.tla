---------------------------- MODULE MCLifecycle -----------------------------
(***************************************************************************)
(* Config files, queries and flags of Lifecycle for TLC.                   *)
(***************************************************************************)
EXTENDS Lifecycle

URL(host) == [https |-> TRUE, user |-> FALSE, host |-> host, path |-> TRUE, id |-> 1, token |-> "w"]
Hooks     == {URL("discord.com"), [id |-> 1, token |-> "w"]}
BadHooks  == {URL("example.com"), [id |-> 0, token |-> "w"]}

Instance(name, token, b, hook) ==
    [name |-> name, tokens |-> IF token = "none" THEN <<>> ELSE <<token>>, bot |-> b, webhook |-> hook]

Bot(events)   == [token |-> <<"i", "t", "h">>, events |-> events]
BadBot        == [token |-> <<"i", "t">>, events |-> {}]
Feed          == [intents |-> {"guilds", "message_content", "guild_members"}, size |-> {}]
PlainFeed     == [intents |-> {"guilds"}, size |-> {1}]
BadFeeds      == {[PlainFeed EXCEPT !.size = {0}], [PlainFeed EXCEPT !.intents = {}],
                  [PlainFeed EXCEPT !.intents = {"guild"}]}

(* Instances a careful operator writes, and those with a mistake each. *)
Good(name, token) ==
    {Instance(name, token, {Bot({})}, {}),
     Instance(name, token, {Bot({Feed})}, {}), Instance(name, token, {Bot({PlainFeed})}, {})}
        \cup {Instance(name, token, {}, {h}) : h \in Hooks}

Bad ==
    {Instance("b", "none", {Bot({})}, {}), Instance("b", "t2", {}, {}),
     Instance("b", "", {Bot({})}, {}), Instance("", "t2", {Bot({})}, {}),
     Instance("a", "t2", {Bot({})}, {}), Instance("b", "t1", {Bot({})}, {}),
     Instance("b", "t2", {BadBot}, {}), Instance("b", "t2", {Bot({})}, {URL("discord.com")})}
        \cup {Instance("b", "t2", {Bot({e})}, {}) : e \in BadFeeds}
        \cup {Instance("b", "t2", {}, {h}) : h \in BadHooks}

File(enabled, instances) == [enabled |-> enabled, ttl |-> 0, timeout |-> 0, instances |-> instances]

MCFiles ==
    {File(TRUE, <<>>), File(FALSE, <<>>), [File(TRUE, <<>>) EXCEPT !.timeout = -1]}
        \cup {File(TRUE, <<i>>) : i \in Good("a", "t1") \cup Bad}
        \cup {File(FALSE, <<i, j>>) : i \in {Instance("a", "t1", {Bot({Feed})}, {})},
                                      j \in Good("b", "t2") \cup Bad}

MCFlags == {{}, {<<"message_content", "limited">>},
            {<<"message_content", "full">>, <<"guild_members", "limited">>}}

Query(path, method, scheme, value, key) ==
    [path |-> path, method |-> method, scheme |-> scheme, value |-> value, key |-> key]

MCQueries ==
    {Query("/healthz", "GET", "", "", ""), Query("/healthz", "POST", "", "", ""),
     Query("/mcp", "POST", "bearer", "t1", ""), Query("/mcp", "POST", "bearer", "t2", "t1"),
     Query("/mcp", "POST", "basic", "t1", ""), Query("/mcp", "POST", "bearer", "bot", ""),
     Query("/mcp", "POST", "", "", "hook"), Query("/other", "GET", "bearer", "", "t2")}
=============================================================================
