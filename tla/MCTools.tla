------------------------------ MODULE MCTools ------------------------------
(* Values for the constants of Tools: for every kind of argument the       *)
(* values at its edges and one of each wrong type.                         *)
EXTENDS Tools, TLC

MCID == [author_id |-> "11", channel_id |-> "12", guild_id |-> "13", message_id |-> "14",
         parent_id |-> "15", role_id |-> "16", thread_id |-> "17", user_id |-> "18",
         before |-> "21", after |-> "22", around |-> "23", reply_to |-> "24"]

MCWebhook    == [id |-> "31", token |-> "secret"]
MCDMChannel  == "32"
MCTokens     == {"secret", "31"}
MCSnowflakes == {MCID[key] : key \in DOMAIN MCID} \cup {"31", "32"}

MCPath(begins, odd, segs) == [begins |-> begins, odd |-> odd, segs |-> segs]
MCPaths ==
    ("/guilds/13/emojis" :> MCPath("/", {}, <<"guilds", "13", "emojis">>)) @@
    ("/webhooks/31/secret" :> MCPath("/", {}, <<"webhooks", "31", "secret">>)) @@
    ("/api/v10/users" :> MCPath("/api/", {}, <<"api", "v10", "users">>)) @@
    ("users" :> MCPath("other", {}, <<"sers">>)) @@
    ("/users?limit=1" :> MCPath("/", {"?"}, <<"users?limit=1">>)) @@
    ("/users/a b" :> MCPath("/", {"space"}, <<"users", "a b">>)) @@
    ("/users//1" :> MCPath("/", {}, <<"users", "", "1">>)) @@
    ("/users/%2e%2e/13" :> MCPath("/", {}, <<"users", "%2e%2e", "13">>)) @@
    ("/users/a%2Fb" :> MCPath("/", {}, <<"users", "a%2Fb">>)) @@
    ("/users/%zz" :> MCPath("/", {}, <<"users", "%zz">>))

MCUsual(key, arg) ==
    CASE arg.of = "id"     -> Str(MCID[key])
      [] arg.of = "enum"   -> Str(CHOOSE s \in arg.texts : TRUE)
      [] arg.of = "emoji"  -> Str("name:1")
      [] arg.of = "route"  -> Str("/guilds/13/emojis")
      [] arg.of = "cursor" -> Str("1:5")
      [] arg.k = "string"  -> Str("hello")
      [] arg.k = "number"  -> Num(arg.lo)
      [] arg.k = "list"    -> List(1, arg.of)
      [] arg.k = "object"  -> Obj("plain")
      [] OTHER             -> Bool(TRUE)

MCSample(key, arg) ==
    {MCUsual(key, arg), Null} \cup
    CASE arg.of = "id"     -> {Str(""), Str("abc"), Num(42)}
      [] arg.of = "enum"   -> {Str(""), Str("abc")} \cup {Str(s) : s \in arg.texts}
      [] arg.of = "emoji"  -> {Str(" "), Str("overlong"), Str("<:name:1>"), Str("a/b"), Str("14")}
      [] arg.of = "route"  -> {Str(s) : s \in DOMAIN MCPaths} \cup {Str("")}
      [] arg.of = "cursor" -> {Str(""), Str("garbled"), Num(5)}
      [] arg.of = "short"  -> {Str(""), Str(" "), Str("overlong"), Num(1)}
      [] arg.k = "string"  -> {Str(""), Str(" "), Num(1)}
      [] arg.of = "any" /\ arg.k = "number" -> {Num(10000), Num(10001), Half(1), Str("1")}
      [] arg.k = "number"  -> {Num(arg.hi), Num(arg.hi + 1), Half(arg.lo + 1), Num(61), Str("60"),
                               Str("")} \cup IF arg.lo > 0 THEN {Num(arg.lo - 1)} ELSE {}
      [] arg.k = "list"    -> {List(0, arg.of), List(arg.hi, arg.of), List(arg.hi + 1, arg.of),
                               List(1, "other"), List(1, "oddfile"), Str("abc")}
      [] arg.k = "object"  -> {Obj("nested"), List(1, "text")}
      [] OTHER             -> {Bool(FALSE), Str("true")}
=============================================================================
