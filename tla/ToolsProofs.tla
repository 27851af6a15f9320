----------------------------- MODULE ToolsProofs -----------------------------
(***************************************************************************)
(* What holds of every call of every tool, whatever the arguments are:     *)
(* nothing was done when they are refused (RefusedUnsent), the requests    *)
(* are the ones that were asked for (ActsAsAsked), what a request was      *)
(* given stays within its route, its bucket and out of the audit log       *)
(* (RoutesHold), and what is refused of what schema and description tell,  *)
(* or taken of what they exclude, are the cases listed in Tools            *)
(* (SchemaGaps).                                                           *)
(*                                                                         *)
(* One lemma per tool says that its handler, given arguments it accepts,   *)
(* acts as asked; a call only goes through the requests of its handler.    *)
(***************************************************************************)
EXTENDS Tools, FiniteSetTheorems, TLAPS

-----------------------------------------------------------------------------
(* A route of the program: webhooks, of what RedactRoute looks for, only   *)
(* stand at its beginning, and a token stands only after them; an emoji,   *)
(* which may be any text, is followed by at most one segment.              *)
Special == {"webhooks", "Webhooks", "interactions"}

PlainRoute(route) ==
    \A i \in 1 .. Len(route) :
        /\ route[i] # "a/b"
        /\ route[i] \in Special => i = 1
        /\ route[i] = "webhook_token" <=> i = 3 /\ route[1] \in Special
        /\ route[1] \in Special /\ i = 2 => route[i] = "webhook_id"
        /\ route[i] = "emoji" => Len(route) <= i + 1

(* The names are the parameters of a route, and each is there once.        *)
Fills(names, route) ==
    /\ Len(route) \in Nat /\ DOMAIN route = 1 .. Len(route) /\ PlainRoute(route)
    /\ names = {route[i] : i \in Holes(route)}
    /\ \A i, j \in Holes(route) : route[i] = route[j] => i = j

(* No handler gives a route too few or too many parameters, so no call     *)
(* fails for a mistake of the program.                                     *)
LEMMA FilledRoute ==
    ASSUME NEW params, NEW route, Fills(DOMAIN params, route)
    PROVE  /\ ExpandError(route, params) \in {"none", "arg"}
           /\ (\A name \in DOMAIN params : Fits(name, params[name]))
              => ExpandError(route, params) = "none"
<1> DEFINE H == Holes(route)
           f == [i \in H |-> route[i]]
<1>1. H \subseteq 1 .. Len(route)
  BY DEF Holes, Fills
<1>2. IsFiniteSet(1 .. Len(route))
  BY FS_Interval DEF Fills
<1>3. IsFiniteSet(H)
  BY <1>1, <1>2, FS_Subset
<1>4. f \in [H -> DOMAIN params] /\ \A name \in DOMAIN params : \E i \in H : f[i] = name
  BY DEF Fills
<1>5. \A i, j \in H : f[i] = f[j] => i = j
  BY DEF Fills
<1>6. Cardinality(DOMAIN params) = Cardinality(H)
  <2> HIDE DEF H, f
  <2>1. f \in Bijection(H, DOMAIN params)
    BY <1>4, <1>5 DEF Bijection, Injection, Surjection, IsInjective
  <2> QED  BY <2>1, <1>3, FS_Bijection DEF ExistsBijection
<1>7. \A i \in H : route[i] \in DOMAIN params
  BY DEF Fills
<1>8. \A name \in DOMAIN params : \E i \in H : route[i] = name
  BY DEF Fills
<1> QED  BY <1>6, <1>7, <1>8 DEF ExpandError

(* The routes of the handlers and the parameters they give them.           *)
LEMMA RoutesFilled ==
    /\ Fills({}, <<"users", "@me">>)
    /\ Fills({}, <<"users", "@me", "guilds">>)
    /\ Fills({}, <<"users", "@me", "channels">>)
    /\ Fills({"guild_id"}, <<"guilds", "guild_id">>)
    /\ Fills({"guild_id"}, <<"guilds", "guild_id", "channels">>)
    /\ Fills({"guild_id"}, <<"guilds", "guild_id", "messages", "search">>)
    /\ Fills({"guild_id"}, <<"guilds", "guild_id", "threads", "active">>)
    /\ Fills({"guild_id"}, <<"guilds", "guild_id", "roles">>)
  BY DEF Fills, PlainRoute, Special, Holes, ParamNames, IDNames

LEMMA ChannelRoutesFilled ==
    /\ Fills({"channel_id"}, InChannel)
    /\ Fills({"channel_id"}, Messages)
    /\ Fills({"channel_id"}, <<"channels", "channel_id", "threads">>)
    /\ Fills(ChanMsg, TheMessage)
    /\ Fills(ChanMsg, <<"channels", "channel_id", "messages", "message_id", "threads">>)
    /\ Fills(ChanMsg, <<"channels", "channel_id", "messages", "pins", "message_id">>)
    /\ Fills(ChanMsg \cup {"emoji"}, OwnReaction)
    /\ Fills(ChanMsg \cup {"emoji", "user_id"}, UserReaction)
  BY DEF Fills, PlainRoute, Special, Holes, ParamNames, IDNames, InChannel, Messages, TheMessage,
     OwnReaction,
         UserReaction, ChanMsg

LEMMA MemberRoutesFilled ==
    /\ Fills({"guild_id"}, Members)
    /\ Fills({"guild_id"}, <<"guilds", "guild_id", "members", "search">>)
    /\ Fills(GuildUser, TheMember)
    /\ Fills(GuildUser, TheBan)
    /\ Fills(GuildUser \cup {"role_id"},
             <<"guilds", "guild_id", "members", "user_id", "roles", "role_id">>)
  BY DEF Fills, PlainRoute, Special, Holes, ParamNames, IDNames, Members, TheMember, TheBan,
     GuildUser

LEMMA WebhookRoutesFilled ==
    /\ Fills({"webhook_id", "webhook_token"}, OwnWebhook)
    /\ Fills({"webhook_id", "webhook_token", "message_id"}, OwnMessage)
  BY DEF Fills, PlainRoute, Special, Holes, ParamNames, IDNames, OwnWebhook, OwnMessage

-----------------------------------------------------------------------------
(* The arguments are ones a client can give, and the handler accepts them. *)
Asked(t, a) == DOMAIN a \subseteq DOMAIN Known(t) /\ Def(t, a).accepts

(* Carries, of given arguments.                                            *)
CarriesOf(a, r, key) ==
    \/ key \in DOMAIN r.params /\ r.params[key] = a[key].s
    \/ key \in DOMAIN r.query /\ r.query[key] = a[key].s
    \/ key \in {GivenAs(k) : k \in r.body}

(* An emoji is not looked at before Do does.                               *)
Reactions == {"add_reaction", "remove_reaction"}

(* What ActsAsAsked wants of one request, and that its path can be made.   *)
Faithful(t, a, r) ==
    /\ Fills(DOMAIN r.params, r.route)
    /\ \A key \in DOMAIN r.params \cap IDNames :
          r.params[key] = CASE key = "webhook_id" -> Webhook.id
                            [] t = "send_dm"      -> DMChannel
                            [] OTHER              -> Targets(a)[key]
    /\ t \in WebhookTools => {"webhook_id", "webhook_token"} \subseteq DOMAIN r.params
    /\ r.reason = Text(a, "reason")
    /\ r.method = "PATCH" => \A key \in r.body : Present(a, GivenAs(key))
    /\ r.method = "GET" <=> Def(t, a).hint = "readOnly"
    /\ t \notin Reactions => ExpandError(r.route, r.params) = "none"

(* The tool makes this one request, and it carries what was aimed at.      *)
ActsBy(t, a, r) ==
    /\ Def(t, a).requests = <<r>>
    /\ Faithful(t, a, r)
    /\ \A key \in DOMAIN Targets(a) \cap DOMAIN Takes(t) : a[key] # Str("") => CarriesOf(a, r, key)

(* A tool that takes no reason is given none.                              *)
LEMMA NoReason ==
    ASSUME NEW t, NEW a, Asked(t, a), "reason" \notin DOMAIN Takes(t)
    PROVE  Text(a, "reason") = ""
<1>1. "reason" \notin DOMAIN Known(t)
  BY DEF Known, Files, ++
<1> QED  BY <1>1 DEF Asked, Text, Present

(* A tool of the bot's that names what it acts on by IDs it has checked,   *)
(* and carries the rest of what it takes.                                  *)
LEMMA ByCheckedIDs ==
    ASSUME NEW t, NEW a, NEW r, NEW more,
           t \notin WebhookTools \cup {"send_dm"},
           Def(t, a).requests = <<r>>,
           Fills(DOMAIN r.params, r.route), t \in Reactions \/ DOMAIN r.params \subseteq IDNames,
           \A key \in DOMAIN r.params \cap IDNames :
              key # "webhook_id" /\ HasID(a, key) /\ r.params[key] = Text(a, key),
           DOMAIN Takes(t) \cap IDNames \subseteq DOMAIN r.params \cup more,
           \A key \in more : Present(a, key) /\ a[key] # Str("") => CarriesOf(a, r, key),
           r.reason = Text(a, "reason"),
           r.method = "PATCH" => \A key \in r.body : Present(a, GivenAs(key)),
           r.method = "GET" <=> Def(t, a).hint = "readOnly"
    PROVE  ActsBy(t, a, r)
<1>1. \A key \in DOMAIN r.params \cap IDNames :
         r.params[key] = Targets(a)[key] /\ r.params[key] = a[key].s
  BY DEF Targets, HasID, CheckID, Present, Text
<1>2. t \notin Reactions => ExpandError(r.route, r.params) = "none"
  <2>1. ASSUME DOMAIN r.params \subseteq IDNames
        PROVE  \A name \in DOMAIN r.params : Fits(name, r.params[name])
    BY <2>1 DEF Fits, HasID, CheckID, Present, Text, IDNames
  <2> QED  BY <2>1, FilledRoute
<1>3. Faithful(t, a, r)
  BY <1>1, <1>2 DEF Faithful
<1>4. \A key \in DOMAIN Targets(a) : key \in IDNames /\ Present(a, key)
  BY DEF Targets, Present
<1>5. \A key \in DOMAIN Targets(a) \cap DOMAIN Takes(t) : a[key] # Str("") => CarriesOf(a, r, key)
  BY <1>1, <1>4 DEF CarriesOf
<1> QED  BY <1>3, <1>5 DEF ActsBy

(* What an optional ID becomes part of the query as.                       *)
LEMMA InQuery ==
    ASSUME NEW a, NEW r, NEW keys, r.query = Given(a, keys)
    PROVE  \A key \in keys : Present(a, key) /\ a[key] # Str("") => CarriesOf(a, r, key)
  BY DEF Given, Set, CarriesOf, Text

-----------------------------------------------------------------------------
(* The tools of one shape, and get_me.                                     *)
LEMMA ReadsActs ==
    ASSUME NEW t, NEW a, NEW keys, NEW route, t \notin WebhookTools \cup {"send_dm"},
           Def(t, a) = Reads(a, keys, route), Takes(t) = Reads(<<>>, keys, route).takes,
           keys \subseteq IDNames \ {"webhook_id"}, Fills(keys, route), Asked(t, a)
    PROVE  \E r : ActsBy(t, a, r)
<1> DEFINE r == Req("GET", route, IDs(a, keys))
<1>1. /\ Def(t, a).requests = <<r>> /\ Def(t, a).hint = "readOnly"
      /\ \A key \in keys : HasID(a, key)
  <2> DEFINE ok == FormatOK(a) /\ \A key \in keys : HasID(a, key)
  <2>1. Def(t, a) = Tool("readOnly", keys, IDArgs(keys) ++ Format, ok, r)
    BY DEF Reads
  <2> HIDE DEF ok, r
  <2>2. Def(t, a).requests = <<r>> /\ Def(t, a).hint = "readOnly" /\ Def(t, a).accepts = ok
    BY <2>1 DEF Tool
  <2> QED  BY <2>2 DEF ok, Asked
<1>2. DOMAIN Takes(t) = keys \cup {"format"}
  BY DEF Reads, Tool, IDArgs, Format, ++
<1>3. /\ r.params = IDs(a, keys) /\ r.route = route /\ r.query = <<>> /\ r.body = {}
      /\ r.reason = "" /\ r.method = "GET"
  BY DEF Req
<1>4. DOMAIN IDs(a, keys) = keys /\ \A key \in keys : IDs(a, keys)[key] = Text(a, key)
  BY DEF IDs
<1>5. r.reason = Text(a, "reason")
  BY <1>2, <1>3, NoReason DEF IDNames
<1>6. ActsBy(t, a, r)
  <2> HIDE DEF r
  <2> QED  BY <1>1, <1>2, <1>3, <1>4, <1>5, ByCheckedIDs DEF IDNames
<1> QED  BY <1>6

LEMMA DoesActs ==
    ASSUME NEW t, NEW a, NEW keys, NEW hint, NEW method, NEW route,
           t \notin WebhookTools \cup {"send_dm"}, hint # "readOnly",
           method \notin {"GET", "PATCH"},
           Def(t, a) = Does(hint, a, keys, method, route),
           Takes(t) = Does(hint, <<>>, keys, method, route).takes,
           keys \subseteq IDNames \ {"webhook_id"}, Fills(keys, route), Asked(t, a)
    PROVE  \E r : ActsBy(t, a, r)
<1> DEFINE r == [Req(method, route, IDs(a, keys)) EXCEPT !.reason = Text(a, "reason")]
<1>1. /\ Def(t, a).requests = <<r>> /\ Def(t, a).hint = hint
      /\ \A key \in keys : HasID(a, key)
  <2> DEFINE ok == (\A key \in keys : HasID(a, key)) /\ ReasonOK(a)
  <2>1. Def(t, a) = Tool(hint, keys, IDArgs(keys) ++ Reason, ok, r)
    BY DEF Does
  <2> HIDE DEF ok, r
  <2>2. Def(t, a).requests = <<r>> /\ Def(t, a).hint = hint /\ Def(t, a).accepts = ok
    BY <2>1 DEF Tool
  <2> QED  BY <2>2 DEF ok, Asked
<1>2. DOMAIN Takes(t) = keys \cup {"reason"}
  BY DEF Does, Tool, IDArgs, Reason, ++
<1>3. /\ r.params = IDs(a, keys) /\ r.route = route /\ r.method = method
      /\ r.reason = Text(a, "reason")
  BY DEF Req
<1>4. DOMAIN IDs(a, keys) = keys /\ \A key \in keys : IDs(a, keys)[key] = Text(a, key)
  BY DEF IDs
<1>5. ActsBy(t, a, r)
  <2> DEFINE more == {}
  <2> HIDE DEF r
  <2>1. DOMAIN Takes(t) \cap IDNames \subseteq DOMAIN r.params \cup more
    BY <1>2, <1>3, <1>4 DEF IDNames
  <2>2. \A key \in DOMAIN r.params \cap IDNames :
           key # "webhook_id" /\ HasID(a, key) /\ r.params[key] = Text(a, key)
    BY <1>1, <1>3, <1>4
  <2>3. Fills(DOMAIN r.params, r.route)
    BY <1>3, <1>4
  <2>4. (r.method = "GET" <=> Def(t, a).hint = "readOnly") /\ r.method # "PATCH"
    BY <1>1, <1>3
  <2>5. r.method = "PATCH" => \A key \in r.body : Present(a, GivenAs(key))
    BY <2>4
  <2>6. \A key \in more : Present(a, key) /\ a[key] # Str("") => CarriesOf(a, r, key)
    OBVIOUS
  <2>7. Def(t, a).requests = <<r>> /\ r.reason = Text(a, "reason")
        /\ DOMAIN r.params \subseteq IDNames
    BY <1>1, <1>3, <1>4
  <2> HIDE DEF more
  <2> QED  BY <2>1, <2>2, <2>3, <2>4, <2>5, <2>6, <2>7, ByCheckedIDs
<1> QED  BY <1>5

LEMMA ReadToolsAct ==
    ASSUME NEW t \in {"get_guild", "list_channels", "get_channel", "get_message",
                      "list_active_threads", "get_member", "list_roles"},
           NEW a, Asked(t, a)
    PROVE  \E r : ActsBy(t, a, r)
<1>1. CASE t = "get_guild"
  BY <1>1, ReadsActs, RoutesFilled DEF Def, Takes, GetGuild, IDNames, WebhookTools
<1>2. CASE t = "list_channels"
  BY <1>2, ReadsActs, RoutesFilled DEF Def, Takes, ListChannels, IDNames, WebhookTools
<1>3. CASE t = "get_channel"
  BY <1>3, ReadsActs, ChannelRoutesFilled DEF Def, Takes, GetChannel, InChannel, IDNames,
     WebhookTools
<1>4. CASE t = "get_message"
  BY <1>4, ReadsActs, ChannelRoutesFilled DEF Def, Takes, GetMessage, ChanMsg, IDNames, WebhookTools
<1>5. CASE t = "list_active_threads"
  BY <1>5, ReadsActs, RoutesFilled DEF Def, Takes, ListActiveThreads, IDNames, WebhookTools
<1>6. CASE t = "get_member"
  BY <1>6, ReadsActs, MemberRoutesFilled DEF Def, Takes, GetMember, GuildUser, IDNames, WebhookTools
<1>7. CASE t = "list_roles"
  BY <1>7, ReadsActs, RoutesFilled DEF Def, Takes, ListRoles, IDNames, WebhookTools
<1> QED  BY <1>1, <1>2, <1>3, <1>4, <1>5, <1>6, <1>7

(* A tool of the bot's whose parameters are the IDs keys.                  *)
LEMMA ByIDs ==
    ASSUME NEW t, NEW a, NEW r, NEW keys, NEW more,
           t \notin WebhookTools \cup {"send_dm"}, Asked(t, a),
           Def(t, a).requests = <<r>>,
           r.params = IDs(a, keys), keys \subseteq IDNames \ {"webhook_id"}, Fills(keys, r.route),
           \A key \in keys : HasID(a, key),
           DOMAIN Takes(t) \cap IDNames \subseteq keys \cup more,
           \A key \in more : Present(a, key) /\ a[key] # Str("") => CarriesOf(a, r, key),
           r.reason = Text(a, "reason") \/ (r.reason = "" /\ "reason" \notin DOMAIN Takes(t)),
           r.method = "PATCH" => \A key \in r.body : Present(a, GivenAs(key)),
           r.method = "GET" <=> Def(t, a).hint = "readOnly"
    PROVE  \E req : ActsBy(t, a, req)
<1>1. DOMAIN r.params = keys /\ \A key \in keys : r.params[key] = Text(a, key)
  BY DEF IDs
<1>2. r.reason = Text(a, "reason")
  BY NoReason
<1>3. \A key \in DOMAIN r.params \cap IDNames :
         key # "webhook_id" /\ HasID(a, key) /\ r.params[key] = Text(a, key)
  BY <1>1
<1>4. DOMAIN Takes(t) \cap IDNames \subseteq DOMAIN r.params \cup more
      /\ Fills(DOMAIN r.params, r.route) /\ DOMAIN r.params \subseteq IDNames
  BY <1>1
<1>5. ActsBy(t, a, r)
  BY <1>2, <1>3, <1>4, ByCheckedIDs
<1> QED  BY <1>5

(* What a message's body carries was given.                                *)
LEMMA PayloadGiven ==
    ASSUME NEW a
    PROVE  \A key \in Payload(a) : Present(a, GivenAs(key))
<1>1. Payload(a) \subseteq {"content", "embeds", "attachments", "allowed_mentions"}
  BY DEF Payload
<1>2. "content" \in Payload(a) => Present(a, "content")
  BY DEF Payload, Text
<1>3. "embeds" \in Payload(a) => Present(a, "embeds")
  BY DEF Payload
<1>4. "attachments" \in Payload(a) => Present(a, "attachments")
  BY DEF Payload, Len_
<1>5. "allowed_mentions" \in Payload(a) => Present(a, "allow_mentions")
  BY DEF Payload, BoolOr
<1> QED  BY <1>1, <1>2, <1>3, <1>4, <1>5 DEF GivenAs

(* The tools that make one request, each with the IDs it needs (keys) and  *)
(* those it may take besides (more).                                       *)
LEMMA GetMeActs ==
    ASSUME NEW a, Asked("get_me", a)
    PROVE  \E r : ActsBy("get_me", a, r)
<1> DEFINE r    == Req("GET", <<"users", "@me">>, <<>>)
           keys == {}
           more == {}
<1>1. Def("get_me", a) = GetMe(a) /\ Takes("get_me") = GetMe(<<>>).takes
  BY DEF Def, Takes
<1>2. GetMe(a).requests = <<r>> /\ GetMe(a).hint = "readOnly"
  BY DEF GetMe, Tool
<1>3. GetMe(a).accepts
  BY <1>1 DEF Asked
<1>4. \A key \in keys : HasID(a, key)
  BY <1>3 DEF GetMe, Tool
<1>5. DOMAIN GetMe(<<>>).takes = {"format"}
  BY DEF GetMe, Tool, Format, ++
<1>6. /\ r.params = IDs(a, keys) /\ r.route = <<"users", "@me">> /\ r.method = "GET"
      /\ r.query = <<>> /\ r.body = {} /\ r.reason = ""
  BY DEF Req, IDs
<1> HIDE DEF r
<1>7. Fills(keys, r.route)
  BY <1>6, RoutesFilled
<1>8. \A key \in more : Present(a, key) /\ a[key] # Str("") => CarriesOf(a, r, key)
  OBVIOUS
<1>9. /\ DOMAIN Takes("get_me") \cap IDNames \subseteq keys \cup more
      /\ keys \subseteq IDNames \ {"webhook_id"} /\ "get_me" \notin WebhookTools \cup {"send_dm"}
  BY <1>1, <1>5, <1>6 DEF IDNames, WebhookTools
<1>10. "reason" \notin DOMAIN Takes("get_me")
  BY <1>1, <1>5
<1> HIDE DEF keys, more
<1> QED  BY <1>1, <1>2, <1>4, <1>6, <1>7, <1>8, <1>9, <1>10, ByIDs

LEMMA ListGuildsActs ==
    ASSUME NEW a, Asked("list_guilds", a)
    PROVE  \E r : ActsBy("list_guilds", a, r)
<1> DEFINE r    == [Req("GET", <<"users", "@me", "guilds">>, <<>>)
                    EXCEPT !.query = Given(a, {"after"})]
           keys == {}
           more == {}
<1>1. Def("list_guilds", a) = ListGuilds(a) /\ Takes("list_guilds") = ListGuilds(<<>>).takes
  BY DEF Def, Takes
<1>2. ListGuilds(a).requests = <<r>> /\ ListGuilds(a).hint = "readOnly"
  BY DEF ListGuilds, Tool
<1>3. ListGuilds(a).accepts
  BY <1>1 DEF Asked
<1>4. \A key \in keys : HasID(a, key)
  BY <1>3 DEF ListGuilds, Tool
<1>5. DOMAIN ListGuilds(<<>>).takes = {"after", "limit", "format"}
  BY DEF ListGuilds, Tool, IDArgs, Format, ++
<1>6. /\ r.params = IDs(a, keys) /\ r.route = <<"users", "@me", "guilds">> /\ r.method = "GET"
      /\ r.query = Given(a, {"after"}) /\ r.body = {} /\ r.reason = ""
  BY DEF Req, IDs
<1> HIDE DEF r
<1>7. Fills(keys, r.route)
  BY <1>6, RoutesFilled
<1>8. \A key \in more : Present(a, key) /\ a[key] # Str("") => CarriesOf(a, r, key)
  OBVIOUS
<1>9. /\ DOMAIN Takes("list_guilds") \cap IDNames \subseteq keys \cup more
      /\ keys \subseteq IDNames \ {"webhook_id"}
      /\ "list_guilds" \notin WebhookTools \cup {"send_dm"}
  BY <1>1, <1>5, <1>6 DEF IDNames, WebhookTools
<1>10. "reason" \notin DOMAIN Takes("list_guilds")
  BY <1>1, <1>5
<1> HIDE DEF keys, more
<1> QED  BY <1>1, <1>2, <1>4, <1>6, <1>7, <1>8, <1>9, <1>10, ByIDs

LEMMA ReadMessagesActs ==
    ASSUME NEW a, Asked("read_messages", a)
    PROVE  \E r : ActsBy("read_messages", a, r)
<1> DEFINE r    == [Req("GET", Messages, IDs(a, {"channel_id"})) EXCEPT
                       !.query = Given(a, Set(a, {"before", "after", "around"}))]
           keys == {"channel_id"}
           more == {}
<1>1. Def("read_messages", a) = ReadMessages(a) /\ Takes("read_messages") = ReadMessages(<<>>).takes
  BY DEF Def, Takes
<1>2. ReadMessages(a).requests = <<r>> /\ ReadMessages(a).hint = "readOnly"
  BY DEF ReadMessages, Tool
<1>3. ReadMessages(a).accepts
  BY <1>1 DEF Asked
<1>4. \A key \in keys : HasID(a, key)
  BY <1>3 DEF ReadMessages, Tool
<1>5. DOMAIN ReadMessages(<<>>).takes = {"channel_id", "before", "after", "around", "limit",
                                         "format"}
  BY DEF ReadMessages, Tool, IDArgs, Format, ++
<1>6. /\ r.params = IDs(a, keys) /\ r.route = Messages /\ r.method = "GET"
      /\ r.query = Given(a, Set(a, {"before", "after", "around"})) /\ r.body = {} /\ r.reason = ""
  BY DEF Req
<1> HIDE DEF r
<1>7. Fills(keys, r.route)
  BY <1>6, ChannelRoutesFilled
<1>8. \A key \in more : Present(a, key) /\ a[key] # Str("") => CarriesOf(a, r, key)
  OBVIOUS
<1>9. /\ DOMAIN Takes("read_messages") \cap IDNames \subseteq keys \cup more
      /\ keys \subseteq IDNames \ {"webhook_id"}
      /\ "read_messages" \notin WebhookTools \cup {"send_dm"}
  BY <1>1, <1>5, <1>6 DEF IDNames, WebhookTools
<1>10. "reason" \notin DOMAIN Takes("read_messages")
  BY <1>1, <1>5
<1> HIDE DEF keys, more
<1> QED  BY <1>1, <1>2, <1>4, <1>6, <1>7, <1>8, <1>9, <1>10, ByIDs

LEMMA SendMessageActs ==
    ASSUME NEW a, Asked("send_message", a)
    PROVE  \E r : ActsBy("send_message", a, r)
<1> DEFINE r    == [Req("POST", Messages, IDs(a, {"channel_id"})) EXCEPT
                       !.body = Payload(a) \cup {key \in {"message_reference"} :
                                                   Text(a, "reply_to") # ""}]
           keys == {"channel_id"}
           more == {}
<1>1. Def("send_message", a) = SendMessage(a) /\ Takes("send_message") = SendMessage(<<>>).takes
  BY DEF Def, Takes
<1>2. SendMessage(a).requests = <<r>> /\ SendMessage(a).hint = "mutating"
  BY DEF SendMessage, Tool
<1>3. SendMessage(a).accepts
  BY <1>1 DEF Asked
<1>4. \A key \in keys : HasID(a, key)
  BY <1>3 DEF SendMessage, Tool
<1>5. DOMAIN SendMessage(<<>>).takes = {"channel_id", "reply_to", "content", "embeds",
                                        "allow_mentions", "attachments", "format"}
  BY DEF SendMessage, Tool, IDArgs, Short, Message, Files, Format, ++
<1>6. /\ r.params = IDs(a, keys) /\ r.route = Messages /\ r.method = "POST"
      /\ r.query = <<>>
      /\ r.body = Payload(a) \cup {key \in {"message_reference"} : Text(a, "reply_to") # ""}
      /\ r.reason = ""
  BY DEF Req
<1> HIDE DEF r
<1>7. Fills(keys, r.route)
  BY <1>6, ChannelRoutesFilled
<1>8. \A key \in more : Present(a, key) /\ a[key] # Str("") => CarriesOf(a, r, key)
  OBVIOUS
<1>9. /\ DOMAIN Takes("send_message") \cap IDNames \subseteq keys \cup more
      /\ keys \subseteq IDNames \ {"webhook_id"}
      /\ "send_message" \notin WebhookTools \cup {"send_dm"}
  BY <1>1, <1>5, <1>6 DEF IDNames, WebhookTools
<1>10. "reason" \notin DOMAIN Takes("send_message")
  BY <1>1, <1>5
<1> HIDE DEF keys, more
<1> QED  BY <1>1, <1>2, <1>4, <1>6, <1>7, <1>8, <1>9, <1>10, ByIDs

LEMMA EditMessageActs ==
    ASSUME NEW a, Asked("edit_message", a)
    PROVE  \E r : ActsBy("edit_message", a, r)
<1> DEFINE r    == [Req("PATCH", TheMessage, ChanMsgIDs(a)) EXCEPT !.body = Payload(a)]
           keys == ChanMsg
           more == {}
<1>1. Def("edit_message", a) = EditMessage(a) /\ Takes("edit_message") = EditMessage(<<>>).takes
  BY DEF Def, Takes
<1>2. EditMessage(a).requests = <<r>> /\ EditMessage(a).hint = "mutating"
  BY DEF EditMessage, Tool, ChanMsgOK, ChanMsg
<1>3. EditMessage(a).accepts
  BY <1>1 DEF Asked
<1>4. \A key \in keys : HasID(a, key)
  BY <1>3 DEF EditMessage, Tool, ChanMsgOK, ChanMsg
<1>5. DOMAIN EditMessage(<<>>).takes = ChanMsg
      \cup {"content", "embeds", "allow_mentions", "format"}
  BY DEF EditMessage, Tool, IDArgs, Message, Format, ++
<1>6. /\ r.params = IDs(a, keys) /\ r.route = TheMessage /\ r.method = "PATCH"
      /\ r.query = <<>> /\ r.body = Payload(a) /\ r.reason = ""
  BY DEF Req, ChanMsgIDs
<1> HIDE DEF r
<1>7. Fills(keys, r.route)
  BY <1>6, ChannelRoutesFilled
<1>8. \A key \in more : Present(a, key) /\ a[key] # Str("") => CarriesOf(a, r, key)
  OBVIOUS
<1>9. /\ DOMAIN Takes("edit_message") \cap IDNames \subseteq keys \cup more
      /\ keys \subseteq IDNames \ {"webhook_id"}
      /\ "edit_message" \notin WebhookTools \cup {"send_dm"}
  BY <1>1, <1>5, <1>6 DEF IDNames, WebhookTools, ChanMsg
<1>10. "reason" \notin DOMAIN Takes("edit_message")
  BY <1>1, <1>5 DEF ChanMsg
<1>11. \A key \in r.body : Present(a, GivenAs(key))
  BY <1>6, PayloadGiven
<1> HIDE DEF keys, more
<1> QED  BY <1>1, <1>2, <1>4, <1>6, <1>7, <1>8, <1>9, <1>10, <1>11, ByIDs

LEMMA DeleteMessageActs ==
    ASSUME NEW a, Asked("delete_message", a)
    PROVE  \E r : ActsBy("delete_message", a, r)
<1> DEFINE r    == [Req("DELETE", TheMessage, ChanMsgIDs(a)) EXCEPT !.reason = Text(a, "reason")]
           keys == ChanMsg
           more == {}
<1>1. Def("delete_message", a) = DeleteMessage(a)
      /\ Takes("delete_message") = DeleteMessage(<<>>).takes
  BY DEF Def, Takes
<1>2. DeleteMessage(a).requests = <<r>> /\ DeleteMessage(a).hint = "destructive"
  BY DEF DeleteMessage, Tool, ChanMsgOK, ChanMsg
<1>3. DeleteMessage(a).accepts
  BY <1>1 DEF Asked
<1>4. \A key \in keys : HasID(a, key)
  BY <1>3 DEF DeleteMessage, Tool, ChanMsgOK, ChanMsg
<1>5. DOMAIN DeleteMessage(<<>>).takes = ChanMsg \cup {"reason"}
  BY DEF DeleteMessage, Tool, IDArgs, Reason, ++
<1>6. /\ r.params = IDs(a, keys) /\ r.route = TheMessage /\ r.method = "DELETE"
      /\ r.query = <<>> /\ r.body = {} /\ r.reason = Text(a, "reason")
  BY DEF Req, ChanMsgIDs
<1> HIDE DEF r
<1>7. Fills(keys, r.route)
  BY <1>6, ChannelRoutesFilled
<1>8. \A key \in more : Present(a, key) /\ a[key] # Str("") => CarriesOf(a, r, key)
  OBVIOUS
<1>9. /\ DOMAIN Takes("delete_message") \cap IDNames \subseteq keys \cup more
      /\ keys \subseteq IDNames \ {"webhook_id"}
      /\ "delete_message" \notin WebhookTools \cup {"send_dm"}
  BY <1>1, <1>5, <1>6 DEF IDNames, WebhookTools, ChanMsg
<1> HIDE DEF keys, more
<1> QED  BY <1>1, <1>2, <1>4, <1>6, <1>7, <1>8, <1>9, ByIDs

LEMMA PinMessageActs ==
    ASSUME NEW a, Asked("pin_message", a)
    PROVE  \E r : ActsBy("pin_message", a, r)
<1> DEFINE r    == [Req(IF BoolOr(a, "pinned", FALSE) THEN "PUT" ELSE "DELETE",
                       <<"channels", "channel_id", "messages", "pins", "message_id">>,
                       ChanMsgIDs(a))
                     EXCEPT !.reason = Text(a, "reason")]
           keys == ChanMsg
           more == {}
<1>1. Def("pin_message", a) = PinMessage(a) /\ Takes("pin_message") = PinMessage(<<>>).takes
  BY DEF Def, Takes
<1>2. PinMessage(a).requests = <<r>> /\ PinMessage(a).hint = "mutating"
  BY DEF PinMessage, Tool, ChanMsgOK, ChanMsg
<1>3. PinMessage(a).accepts
  BY <1>1 DEF Asked
<1>4. \A key \in keys : HasID(a, key)
  BY <1>3 DEF PinMessage, Tool, ChanMsgOK, ChanMsg
<1>5. DOMAIN PinMessage(<<>>).takes = ChanMsg \cup {"pinned", "reason"}
  BY DEF PinMessage, Tool, IDArgs, Reason, ++
<1>6. /\ r.params = IDs(a, keys)
      /\ r.route = <<"channels", "channel_id", "messages", "pins", "message_id">>
      /\ r.method \in {"PUT", "DELETE"}
      /\ r.query = <<>> /\ r.body = {} /\ r.reason = Text(a, "reason")
  BY DEF Req, ChanMsgIDs
<1> HIDE DEF r
<1>7. Fills(keys, r.route)
  BY <1>6, ChannelRoutesFilled
<1>8. \A key \in more : Present(a, key) /\ a[key] # Str("") => CarriesOf(a, r, key)
  OBVIOUS
<1>9. /\ DOMAIN Takes("pin_message") \cap IDNames \subseteq keys \cup more
      /\ keys \subseteq IDNames \ {"webhook_id"}
      /\ "pin_message" \notin WebhookTools \cup {"send_dm"}
  BY <1>1, <1>5, <1>6 DEF IDNames, WebhookTools, ChanMsg
<1> HIDE DEF keys, more
<1> QED  BY <1>1, <1>2, <1>4, <1>6, <1>7, <1>8, <1>9, ByIDs

LEMMA SearchMessagesActs ==
    ASSUME NEW a, Asked("search_messages", a)
    PROVE  \E r : ActsBy("search_messages", a, r)
<1> DEFINE r    == [Req("GET", <<"guilds", "guild_id", "messages", "search">>, IDs(a, {"guild_id"}))
                     EXCEPT !.query = Given(a, {"content", "channel_id", "author_id"})]
           keys == {"guild_id"}
           more == {"channel_id", "author_id"}
<1>1. Def("search_messages", a) = SearchMessages(a)
      /\ Takes("search_messages") = SearchMessages(<<>>).takes
  BY DEF Def, Takes
<1>2. SearchMessages(a).requests = <<r>> /\ SearchMessages(a).hint = "readOnly"
  BY DEF SearchMessages, Tool
<1>3. SearchMessages(a).accepts
  BY <1>1 DEF Asked
<1>4. \A key \in keys : HasID(a, key)
  BY <1>3 DEF SearchMessages, Tool
<1>5. DOMAIN SearchMessages(<<>>).takes = {"guild_id", "channel_id", "author_id", "content",
                                           "limit", "offset", "format"}
  BY DEF SearchMessages, Tool, IDArgs, Format, ++
<1>6. /\ r.params = IDs(a, keys) /\ r.route = <<"guilds", "guild_id", "messages", "search">>
      /\ r.method = "GET"
      /\ r.query = Given(a, {"content", "channel_id", "author_id"}) /\ r.body = {} /\ r.reason = ""
  BY DEF Req
<1> HIDE DEF r
<1>7. Fills(keys, r.route)
  BY <1>6, RoutesFilled
<1>8. \A key \in more : Present(a, key) /\ a[key] # Str("") => CarriesOf(a, r, key)
  BY <1>6, InQuery
<1>9. /\ DOMAIN Takes("search_messages") \cap IDNames \subseteq keys \cup more
      /\ keys \subseteq IDNames \ {"webhook_id"}
      /\ "search_messages" \notin WebhookTools \cup {"send_dm"}
  BY <1>1, <1>5, <1>6 DEF IDNames, WebhookTools
<1>10. "reason" \notin DOMAIN Takes("search_messages")
  BY <1>1, <1>5
<1> HIDE DEF keys, more
<1> QED  BY <1>1, <1>2, <1>4, <1>6, <1>7, <1>8, <1>9, <1>10, ByIDs

LEMMA CreateChannelActs ==
    ASSUME NEW a, Asked("create_channel", a)
    PROVE  \E r : ActsBy("create_channel", a, r)
<1> DEFINE r    == [Req("POST", <<"guilds", "guild_id", "channels">>, IDs(a, {"guild_id"})) EXCEPT
                     !.body = {"name", "type"} \cup Optional(a, {"topic", "parent_id", "nsfw"}),
                     !.reason = Text(a, "reason")]
           keys == {"guild_id"}
           more == {"parent_id"}
<1>1. Def("create_channel", a) = CreateChannel(a)
      /\ Takes("create_channel") = CreateChannel(<<>>).takes
  BY DEF Def, Takes
<1>2. CreateChannel(a).requests = <<r>> /\ CreateChannel(a).hint = "mutating"
  BY DEF CreateChannel, Tool
<1>3. CreateChannel(a).accepts
  BY <1>1 DEF Asked
<1>4. \A key \in keys : HasID(a, key)
  BY <1>3 DEF CreateChannel, Tool
<1>5. DOMAIN CreateChannel(<<>>).takes = {"guild_id", "parent_id", "name", "type", "topic", "nsfw",
                                          "reason", "format"}
  BY DEF CreateChannel, Tool, IDArgs, Reason, Format, ++
<1>6. /\ r.params = IDs(a, keys) /\ r.route = <<"guilds", "guild_id", "channels">>
      /\ r.method = "POST"
      /\ r.query = <<>>
      /\ r.body = {"name", "type"} \cup Optional(a, {"topic", "parent_id", "nsfw"})
      /\ r.reason = Text(a, "reason")
  BY DEF Req
<1> HIDE DEF r
<1>7. Fills(keys, r.route)
  BY <1>6, RoutesFilled
<1>8. \A key \in more : Present(a, key) /\ a[key] # Str("") => CarriesOf(a, r, key)
  BY <1>6 DEF CarriesOf, Optional, GivenAs
<1>9. /\ DOMAIN Takes("create_channel") \cap IDNames \subseteq keys \cup more
      /\ keys \subseteq IDNames \ {"webhook_id"}
      /\ "create_channel" \notin WebhookTools \cup {"send_dm"}
  BY <1>1, <1>5, <1>6 DEF IDNames, WebhookTools
<1> HIDE DEF keys, more
<1> QED  BY <1>1, <1>2, <1>4, <1>6, <1>7, <1>8, <1>9, ByIDs

LEMMA EditChannelActs ==
    ASSUME NEW a, Asked("edit_channel", a)
    PROVE  \E r : ActsBy("edit_channel", a, r)
<1> DEFINE r    == [Req("PATCH", InChannel, IDs(a, {"channel_id"})) EXCEPT
                     !.body = Optional(a, {"name", "topic", "parent_id", "nsfw", "position",
                                           "archived", "locked"}),
                     !.reason = Text(a, "reason")]
           keys == {"channel_id"}
           more == {"parent_id"}
<1>1. Def("edit_channel", a) = EditChannel(a) /\ Takes("edit_channel") = EditChannel(<<>>).takes
  BY DEF Def, Takes
<1>2. EditChannel(a).requests = <<r>> /\ EditChannel(a).hint = "mutating"
  BY DEF EditChannel, Tool
<1>3. EditChannel(a).accepts
  BY <1>1 DEF Asked
<1>4. \A key \in keys : HasID(a, key)
  BY <1>3 DEF EditChannel, Tool
<1>5. DOMAIN EditChannel(<<>>).takes = {"channel_id", "parent_id", "name", "topic", "nsfw",
                                        "position", "archived", "locked", "reason", "format"}
  BY DEF EditChannel, Tool, IDArgs, Reason, Format, ++
<1>6. /\ r.params = IDs(a, keys) /\ r.route = InChannel /\ r.method = "PATCH"
      /\ r.query = <<>>
      /\ r.body = Optional(a, {"name", "topic", "parent_id", "nsfw", "position", "archived",
                               "locked"})
      /\ r.reason = Text(a, "reason")
  BY DEF Req
<1> HIDE DEF r
<1>7. Fills(keys, r.route)
  BY <1>6, ChannelRoutesFilled
<1>8. \A key \in more : Present(a, key) /\ a[key] # Str("") => CarriesOf(a, r, key)
  BY <1>6 DEF CarriesOf, Optional, GivenAs
<1>9. /\ DOMAIN Takes("edit_channel") \cap IDNames \subseteq keys \cup more
      /\ keys \subseteq IDNames \ {"webhook_id"}
      /\ "edit_channel" \notin WebhookTools \cup {"send_dm"}
  BY <1>1, <1>5, <1>6 DEF IDNames, WebhookTools
<1>10. \A key \in r.body : Present(a, GivenAs(key))
  BY <1>6 DEF Optional, GivenAs
<1> HIDE DEF keys, more
<1> QED  BY <1>1, <1>2, <1>4, <1>6, <1>7, <1>8, <1>9, <1>10, ByIDs

LEMMA DeleteChannelActs ==
    ASSUME NEW a, Asked("delete_channel", a)
    PROVE  \E r : ActsBy("delete_channel", a, r)
<1> DEFINE r    == [Req("DELETE", InChannel, IDs(a, {"channel_id"}))
                    EXCEPT !.reason = Text(a, "reason")]
           keys == {"channel_id"}
           more == {}
<1>1. Def("delete_channel", a) = DeleteChannel(a)
      /\ Takes("delete_channel") = DeleteChannel(<<>>).takes
  BY DEF Def, Takes
<1>2. DeleteChannel(a).requests = <<r>> /\ DeleteChannel(a).hint = "destructive"
  BY DEF DeleteChannel, Tool
<1>3. DeleteChannel(a).accepts
  BY <1>1 DEF Asked
<1>4. \A key \in keys : HasID(a, key)
  BY <1>3 DEF DeleteChannel, Tool
<1>5. DOMAIN DeleteChannel(<<>>).takes = {"channel_id", "reason", "format"}
  BY DEF DeleteChannel, Tool, IDArgs, Reason, Format, ++
<1>6. /\ r.params = IDs(a, keys) /\ r.route = InChannel /\ r.method = "DELETE"
      /\ r.query = <<>> /\ r.body = {} /\ r.reason = Text(a, "reason")
  BY DEF Req
<1> HIDE DEF r
<1>7. Fills(keys, r.route)
  BY <1>6, ChannelRoutesFilled
<1>8. \A key \in more : Present(a, key) /\ a[key] # Str("") => CarriesOf(a, r, key)
  OBVIOUS
<1>9. /\ DOMAIN Takes("delete_channel") \cap IDNames \subseteq keys \cup more
      /\ keys \subseteq IDNames \ {"webhook_id"}
      /\ "delete_channel" \notin WebhookTools \cup {"send_dm"}
  BY <1>1, <1>5, <1>6 DEF IDNames, WebhookTools
<1> HIDE DEF keys, more
<1> QED  BY <1>1, <1>2, <1>4, <1>6, <1>7, <1>8, <1>9, ByIDs

LEMMA ListMembersActs ==
    ASSUME NEW a, Asked("list_members", a)
    PROVE  \E r : ActsBy("list_members", a, r)
<1> DEFINE r    == [Req("GET", Members, IDs(a, {"guild_id"})) EXCEPT !.query = Given(a, {"after"})]
           keys == {"guild_id"}
           more == {}
<1>1. Def("list_members", a) = ListMembers(a) /\ Takes("list_members") = ListMembers(<<>>).takes
  BY DEF Def, Takes
<1>2. ListMembers(a).requests = <<r>> /\ ListMembers(a).hint = "readOnly"
  BY DEF ListMembers, Tool
<1>3. ListMembers(a).accepts
  BY <1>1 DEF Asked
<1>4. \A key \in keys : HasID(a, key)
  BY <1>3 DEF ListMembers, Tool
<1>5. DOMAIN ListMembers(<<>>).takes = {"guild_id", "after", "limit", "format"}
  BY DEF ListMembers, Tool, IDArgs, Format, ++
<1>6. /\ r.params = IDs(a, keys) /\ r.route = Members /\ r.method = "GET"
      /\ r.query = Given(a, {"after"}) /\ r.body = {} /\ r.reason = ""
  BY DEF Req
<1> HIDE DEF r
<1>7. Fills(keys, r.route)
  BY <1>6, MemberRoutesFilled
<1>8. \A key \in more : Present(a, key) /\ a[key] # Str("") => CarriesOf(a, r, key)
  OBVIOUS
<1>9. /\ DOMAIN Takes("list_members") \cap IDNames \subseteq keys \cup more
      /\ keys \subseteq IDNames \ {"webhook_id"}
      /\ "list_members" \notin WebhookTools \cup {"send_dm"}
  BY <1>1, <1>5, <1>6 DEF IDNames, WebhookTools
<1>10. "reason" \notin DOMAIN Takes("list_members")
  BY <1>1, <1>5
<1> HIDE DEF keys, more
<1> QED  BY <1>1, <1>2, <1>4, <1>6, <1>7, <1>8, <1>9, <1>10, ByIDs

LEMMA SearchMembersActs ==
    ASSUME NEW a, Asked("search_members", a)
    PROVE  \E r : ActsBy("search_members", a, r)
<1> DEFINE r    == [Req("GET", <<"guilds", "guild_id", "members", "search">>, IDs(a, {"guild_id"}))
                     EXCEPT !.query = Given(a, {"query"})]
           keys == {"guild_id"}
           more == {}
<1>1. Def("search_members", a) = SearchMembers(a)
      /\ Takes("search_members") = SearchMembers(<<>>).takes
  BY DEF Def, Takes
<1>2. SearchMembers(a).requests = <<r>> /\ SearchMembers(a).hint = "readOnly"
  BY DEF SearchMembers, Tool
<1>3. SearchMembers(a).accepts
  BY <1>1 DEF Asked
<1>4. \A key \in keys : HasID(a, key)
  BY <1>3 DEF SearchMembers, Tool
<1>5. DOMAIN SearchMembers(<<>>).takes = {"guild_id", "query", "limit", "format"}
  BY DEF SearchMembers, Tool, IDArgs, Format, ++
<1>6. /\ r.params = IDs(a, keys) /\ r.route = <<"guilds", "guild_id", "members", "search">>
      /\ r.method = "GET"
      /\ r.query = Given(a, {"query"}) /\ r.body = {} /\ r.reason = ""
  BY DEF Req
<1> HIDE DEF r
<1>7. Fills(keys, r.route)
  BY <1>6, MemberRoutesFilled
<1>8. \A key \in more : Present(a, key) /\ a[key] # Str("") => CarriesOf(a, r, key)
  OBVIOUS
<1>9. /\ DOMAIN Takes("search_members") \cap IDNames \subseteq keys \cup more
      /\ keys \subseteq IDNames \ {"webhook_id"}
      /\ "search_members" \notin WebhookTools \cup {"send_dm"}
  BY <1>1, <1>5, <1>6 DEF IDNames, WebhookTools
<1>10. "reason" \notin DOMAIN Takes("search_members")
  BY <1>1, <1>5
<1> HIDE DEF keys, more
<1> QED  BY <1>1, <1>2, <1>4, <1>6, <1>7, <1>8, <1>9, <1>10, ByIDs

(* An optional ID that says something is one that was checked.             *)
LEMMA MayIDGiven ==
    ASSUME NEW a, NEW key, MayID(a, key), Text(a, key) # ""
    PROVE  HasID(a, key) /\ a[key] # Str("")
<1>1. Present(a, key) /\ a[key].s # ""
  BY DEF Text
<1>2. Str("").s = ""
  BY DEF Str
<1> QED  BY <1>1, <1>2 DEF MayID, HasID

(* The reactions, whose route also has the emoji.                          *)
LEMMA AddReactionActs ==
    ASSUME NEW a, Asked("add_reaction", a)
    PROVE  \E r : ActsBy("add_reaction", a, r)
<1> DEFINE r    == Req("PUT", OwnReaction, EmojiIDs(a))
           more == {}
<1>1. Def("add_reaction", a) = AddReaction(a) /\ Takes("add_reaction") = AddReaction(<<>>).takes
  BY DEF Def, Takes
<1>2. AddReaction(a).requests = <<r>> /\ AddReaction(a).hint = "mutating"
  BY DEF AddReaction, Tool
<1>3. AddReaction(a).accepts
  BY <1>1 DEF Asked
<1>4. \A key \in ChanMsg : HasID(a, key)
  BY <1>3 DEF AddReaction, Tool, ChanMsgOK, ChanMsg
<1>5. DOMAIN AddReaction(<<>>).takes = ChanMsg \cup {"emoji"}
  BY DEF AddReaction, Tool, IDArgs, ++
<1>6. r.params = EmojiIDs(a) /\ r.route = OwnReaction /\ r.method = "PUT" /\ r.reason = ""
  BY DEF Req
<1>7. DOMAIN EmojiIDs(a) = ChanMsg \cup {"emoji"}
      /\ \A key \in ChanMsg : EmojiIDs(a)[key] = Text(a, key)
  BY DEF EmojiIDs, ChanMsgIDs, IDs, ++
<1> HIDE DEF r
<1>8. Fills(DOMAIN r.params, r.route)
  BY <1>6, <1>7, ChannelRoutesFilled
<1>9. \A key \in DOMAIN r.params \cap IDNames :
         key # "webhook_id" /\ HasID(a, key) /\ r.params[key] = Text(a, key)
  BY <1>4, <1>6, <1>7 DEF ChanMsg, IDNames
<1>10. DOMAIN Takes("add_reaction") \cap IDNames \subseteq DOMAIN r.params \cup more
  BY <1>1, <1>5, <1>6, <1>7
<1>11. r.reason = Text(a, "reason")
  <2>1. "reason" \notin DOMAIN Takes("add_reaction")
    BY <1>1, <1>5 DEF ChanMsg
  <2> QED  BY <2>1, <1>6, NoReason
<1>12. "add_reaction" \notin WebhookTools \cup {"send_dm"} /\ "add_reaction" \in Reactions
  BY DEF WebhookTools, Reactions
<1>13. \A key \in more : Present(a, key) /\ a[key] # Str("") => CarriesOf(a, r, key)
  OBVIOUS
<1> HIDE DEF more
<1>14. ActsBy("add_reaction", a, r)
  BY <1>1, <1>2, <1>6, <1>8, <1>9, <1>10, <1>11, <1>12, <1>13, ByCheckedIDs
<1> QED  BY <1>14

LEMMA RemoveReactionActs ==
    ASSUME NEW a, Asked("remove_reaction", a)
    PROVE  \E r : ActsBy("remove_reaction", a, r)
<1> DEFINE route  == IF Text(a, "user_id") = "" THEN OwnReaction ELSE UserReaction
           params == EmojiIDs(a) ++ Given(a, {"user_id"})
           r      == Req("DELETE", route, params)
           more   == {"user_id"}
<1>1. Def("remove_reaction", a) = RemoveReaction(a)
      /\ Takes("remove_reaction") = RemoveReaction(<<>>).takes
  BY DEF Def, Takes
<1>2. RemoveReaction(a).requests = <<r>> /\ RemoveReaction(a).hint = "destructive"
  BY DEF RemoveReaction, Tool
<1>3. RemoveReaction(a).accepts
  BY <1>1 DEF Asked
<1>4. (\A key \in ChanMsg : HasID(a, key)) /\ MayID(a, "user_id")
  BY <1>3 DEF RemoveReaction, Tool, ChanMsgOK, ChanMsg
<1>5. DOMAIN RemoveReaction(<<>>).takes = ChanMsg \cup {"emoji", "user_id"}
  BY DEF RemoveReaction, Tool, IDArgs, ++
<1>6. r.params = params /\ r.route = route /\ r.method = "DELETE" /\ r.reason = ""
  BY DEF Req
<1>7. DOMAIN EmojiIDs(a) = ChanMsg \cup {"emoji"}
      /\ \A key \in ChanMsg : EmojiIDs(a)[key] = Text(a, key)
  BY DEF EmojiIDs, ChanMsgIDs, IDs, ++
<1>8. /\ Fills(DOMAIN params, route)
      /\ \A key \in more : Present(a, key) /\ a[key] # Str("") =>
            key \in DOMAIN params /\ params[key] = Text(a, key)
      /\ \A key \in DOMAIN params \cap IDNames :
            key # "webhook_id" /\ HasID(a, key) /\ params[key] = Text(a, key)
      /\ DOMAIN Takes("remove_reaction") \cap IDNames \subseteq DOMAIN params \cup more
  <2>1. CASE Text(a, "user_id") = ""
    <3>1. Set(a, {"user_id"}) = {}
      BY <1>4, <2>1, SnowflakesAssumption DEF MayID, Set, Text, CheckID, IsSnowflake
    <3>2. DOMAIN params = ChanMsg \cup {"emoji"} /\ \A key \in ChanMsg : params[key] = Text(a, key)
      BY <1>7, <3>1 DEF Given, ++
    <3>3. Fills(DOMAIN params, route)
      BY <2>1, <3>2, ChannelRoutesFilled
    <3>4. \A key \in more : ~(Present(a, key) /\ a[key] # Str(""))
      BY <3>1 DEF Set
    <3>5. \A key \in DOMAIN params \cap IDNames :
             key # "webhook_id" /\ HasID(a, key) /\ params[key] = Text(a, key)
      BY <1>4, <3>2 DEF ChanMsg, IDNames
    <3>6. DOMAIN Takes("remove_reaction") \cap IDNames \subseteq DOMAIN params \cup more
      BY <1>1, <1>5, <3>2
    <3> QED  BY <3>3, <3>4, <3>5, <3>6
  <2>2. CASE Text(a, "user_id") # ""
    <3>1. Set(a, {"user_id"}) = {"user_id"} /\ HasID(a, "user_id")
      BY <1>4, <2>2, MayIDGiven DEF HasID, Set
    <3>2. /\ DOMAIN params = ChanMsg \cup {"emoji", "user_id"}
          /\ \A key \in ChanMsg \cup {"user_id"} : params[key] = Text(a, key)
      BY <1>7, <3>1 DEF Given, ChanMsg, ++
    <3>3. Fills(DOMAIN params, route)
      BY <2>2, <3>2, ChannelRoutesFilled
    <3>4. \A key \in more : key \in DOMAIN params /\ params[key] = Text(a, key)
      BY <3>2
    <3>5. \A key \in DOMAIN params \cap IDNames :
             key # "webhook_id" /\ HasID(a, key) /\ params[key] = Text(a, key)
      BY <1>4, <3>1, <3>2 DEF ChanMsg, IDNames
    <3>6. DOMAIN Takes("remove_reaction") \cap IDNames \subseteq DOMAIN params \cup more
      BY <1>1, <1>5, <3>2
    <3> QED  BY <3>3, <3>4, <3>5, <3>6
  <2> QED  BY <2>1, <2>2
<1> HIDE DEF r, params, route
<1>9. \A key \in more : Present(a, key) /\ a[key] # Str("") => CarriesOf(a, r, key)
  BY <1>6, <1>8 DEF CarriesOf, Text
<1>10. r.reason = Text(a, "reason")
  <2>1. "reason" \notin DOMAIN Takes("remove_reaction")
    BY <1>1, <1>5 DEF ChanMsg
  <2> QED  BY <2>1, <1>6, NoReason
<1>11. "remove_reaction" \notin WebhookTools \cup {"send_dm"} /\ "remove_reaction" \in Reactions
  BY DEF WebhookTools, Reactions
<1> HIDE DEF more
<1>12. ActsBy("remove_reaction", a, r)
  BY <1>1, <1>2, <1>6, <1>8, <1>9, <1>10, <1>11, ByCheckedIDs
<1> QED  BY <1>12

(* A thread on its own, or from a message.                                 *)
LEMMA CreateThreadActs ==
    ASSUME NEW a, Asked("create_thread", a)
    PROVE  \E r : ActsBy("create_thread", a, r)
<1> DEFINE alone == [Req("POST", <<"channels", "channel_id", "threads">>, IDs(a, {"channel_id"}))
                       EXCEPT !.body = {"name", "auto_archive_duration", "type"}]
           from  == [Req("POST", <<"channels", "channel_id", "messages", "message_id", "threads">>,
                         ChanMsgIDs(a))
                       EXCEPT !.body = {"name", "auto_archive_duration"}]
           r0    == IF Text(a, "message_id") = "" THEN alone ELSE from
           r     == [r0 EXCEPT !.reason = Text(a, "reason")]
           keys  == IF Text(a, "message_id") = "" THEN {"channel_id"} ELSE ChanMsg
           more  == {"message_id"}
<1>1. Def("create_thread", a) = CreateThread(a) /\ Takes("create_thread") = CreateThread(<<>>).takes
  BY DEF Def, Takes
<1>2. /\ CreateThread(a).requests = <<r>> /\ CreateThread(a).hint = "mutating"
      /\ CreateThread(a).accepts => HasID(a, "channel_id") /\ MayID(a, "message_id")
  <2> DEFINE private == BoolOr(a, "private", FALSE) => Text(a, "message_id") = ""
             ok == /\ FormatOK(a) /\ HasID(a, "channel_id") /\ HasText(a, "name")
                   /\ MayID(a, "message_id") /\ IsBool(a, "private")
                   /\ IsInt(a, "auto_archive_minutes", 60, 10080)
                   /\ IntOr(a, "auto_archive_minutes", 1440) \in {60, 1440, 4320, 10080}
                   /\ ReasonOK(a) /\ private
             takes == CreateThread(a).takes
             tool0 == Tool("mutating", {"channel_id", "name"}, takes, ok, r)
  <2>1. CreateThread(a) = [tool0 EXCEPT !.says = private]
    BY DEF CreateThread, Tool
  <2> HIDE DEF private, ok, takes, r
  <2>2. /\ CreateThread(a).requests = <<r>> /\ CreateThread(a).hint = "mutating"
        /\ CreateThread(a).accepts = ok
    BY <2>1 DEF Tool
  <2> QED  BY <2>2 DEF ok
<1>3. CreateThread(a).accepts
  BY <1>1 DEF Asked
<1>4. HasID(a, "channel_id") /\ MayID(a, "message_id")
  BY <1>2, <1>3
<1>5. DOMAIN CreateThread(<<>>).takes =
         {"channel_id", "message_id", "name", "private", "auto_archive_minutes", "reason", "format"}
  BY DEF CreateThread, Tool, IDArgs, Reason, Format, ++
<1>6. /\ r.params = IDs(a, keys) /\ r.method = "POST" /\ r.reason = Text(a, "reason")
      /\ Fills(keys, r.route)
  <2>1. CASE Text(a, "message_id") = ""
    BY <2>1, ChannelRoutesFilled DEF Req
  <2>2. CASE Text(a, "message_id") # ""
    BY <2>2, ChannelRoutesFilled DEF Req, ChanMsgIDs
  <2> QED  BY <2>1, <2>2
<1> HIDE DEF r
<1>7. /\ \A key \in keys : HasID(a, key)
      /\ \A key \in more : Present(a, key) /\ a[key] # Str("") => CarriesOf(a, r, key)
      /\ keys \subseteq IDNames \ {"webhook_id"}
      /\ DOMAIN Takes("create_thread") \cap IDNames \subseteq keys \cup more
  <2>1. CASE Text(a, "message_id") = ""
    <3>1. ~(Present(a, "message_id") /\ a["message_id"] # Str(""))
      BY <1>4, <2>1, SnowflakesAssumption DEF MayID, Text, CheckID, IsSnowflake
    <3>2. keys = {"channel_id"}
      BY <2>1
    <3> QED  BY <1>1, <1>4, <1>5, <3>1, <3>2 DEF IDNames
  <2>2. CASE Text(a, "message_id") # ""
    <3>1. HasID(a, "message_id")
      BY <1>4, <2>2, MayIDGiven
    <3>2. keys = {"channel_id", "message_id"}
      BY <2>2 DEF ChanMsg
    <3>3. "message_id" \in DOMAIN r.params /\ r.params["message_id"] = a["message_id"].s
      BY <1>6, <3>1, <3>2 DEF IDs, HasID, Text
    <3>4. \A key \in more : CarriesOf(a, r, key)
      BY <3>3 DEF CarriesOf
    <3> QED  BY <1>1, <1>4, <1>5, <3>1, <3>2, <3>4 DEF IDNames
  <2> QED  BY <2>1, <2>2
<1>8. "create_thread" \notin WebhookTools \cup {"send_dm"}
  BY DEF WebhookTools
<1> HIDE DEF keys, more
<1> QED  BY <1>1, <1>2, <1>6, <1>7, <1>8, ByIDs

(* The two tools that take an argument besides what Does has.              *)
LEMMA TimeoutMemberActs ==
    ASSUME NEW a, Asked("timeout_member", a)
    PROVE  \E r : ActsBy("timeout_member", a, r)
<1> DEFINE does == Does("destructive", a, GuildUser, "PATCH", TheMember)
           r0   == [Req("PATCH", TheMember, IDs(a, GuildUser)) EXCEPT !.reason = Text(a, "reason")]
           r    == [r0 EXCEPT !.body = {"communication_disabled_until"}]
           keys == GuildUser
           more == {}
<1>1. Def("timeout_member", a) = TimeoutMember(a)
      /\ Takes("timeout_member") = TimeoutMember(<<>>).takes
  BY DEF Def, Takes
<1>2. TimeoutMember(a).requests = <<r>> /\ TimeoutMember(a).hint = "destructive"
  <2>1. does.requests = <<r0>> /\ does.hint = "destructive"
    BY DEF Does, Tool
  <2>2. /\ TimeoutMember(a).requests
           = [does.requests EXCEPT ![1].body = {"communication_disabled_until"}]
        /\ TimeoutMember(a).hint = does.hint
    BY DEF TimeoutMember, Does, Tool
  <2> HIDE DEF does, r0
  <2> QED  BY <2>1, <2>2
<1>3. TimeoutMember(a).accepts
  BY <1>1 DEF Asked
<1>4. (\A key \in keys : HasID(a, key)) /\ Present(a, "minutes")
  <2> DEFINE ok == (\A key \in GuildUser : HasID(a, key)) /\ ReasonOK(a)
             more_ok == Present(a, "minutes") /\ IsInt(a, "minutes", 0, 28 * 24 * 60)
  <2>1. does = Tool("destructive", GuildUser, IDArgs(GuildUser) ++ Reason, ok, r0)
    BY DEF Does
  <2>2. TimeoutMember(a).accepts = (does.accepts /\ more_ok)
    BY DEF TimeoutMember, Does, Tool
  <2> HIDE DEF does, ok, more_ok, r0
  <2>3. does.accepts = ok
    BY <2>1 DEF Tool
  <2>4. ok /\ more_ok
    BY <1>3, <2>2, <2>3
  <2> QED  BY <2>4 DEF ok, more_ok
<1>5. DOMAIN TimeoutMember(<<>>).takes = GuildUser \cup {"reason", "minutes"}
  BY DEF TimeoutMember, Does, Tool, IDArgs, Reason, ++
<1>6. /\ r.params = IDs(a, keys) /\ r.route = TheMember /\ r.method = "PATCH"
      /\ r.body = {"communication_disabled_until"} /\ r.reason = Text(a, "reason")
  BY DEF Req
<1> HIDE DEF r
<1>7. Fills(keys, r.route)
  BY <1>6, MemberRoutesFilled
<1>8. \A key \in more : Present(a, key) /\ a[key] # Str("") => CarriesOf(a, r, key)
  OBVIOUS
<1>9. /\ DOMAIN Takes("timeout_member") \cap IDNames \subseteq keys \cup more
      /\ keys \subseteq IDNames \ {"webhook_id"}
      /\ "timeout_member" \notin WebhookTools \cup {"send_dm"}
  BY <1>1, <1>5 DEF IDNames, WebhookTools, GuildUser
<1>10. \A key \in r.body : Present(a, GivenAs(key))
  BY <1>4, <1>6 DEF GivenAs
<1> HIDE DEF keys, more
<1> QED  BY <1>1, <1>2, <1>4, <1>6, <1>7, <1>8, <1>9, <1>10, ByIDs

LEMMA BanMemberActs ==
    ASSUME NEW a, Asked("ban_member", a)
    PROVE  \E r : ActsBy("ban_member", a, r)
<1> DEFINE does == Does("destructive", a, GuildUser, "PUT", TheBan)
           r0   == [Req("PUT", TheBan, IDs(a, GuildUser)) EXCEPT !.reason = Text(a, "reason")]
           r    == [r0 EXCEPT !.body = {"delete_message_seconds"}]
           keys == GuildUser
           more == {}
<1>1. Def("ban_member", a) = BanMember(a) /\ Takes("ban_member") = BanMember(<<>>).takes
  BY DEF Def, Takes
<1>2. BanMember(a).requests = <<r>> /\ BanMember(a).hint = "destructive"
  <2>1. does.requests = <<r0>> /\ does.hint = "destructive"
    BY DEF Does, Tool
  <2>2. /\ BanMember(a).requests = [does.requests EXCEPT ![1].body = {"delete_message_seconds"}]
        /\ BanMember(a).hint = does.hint
    BY DEF BanMember, Does, Tool
  <2> HIDE DEF does, r0
  <2> QED  BY <2>1, <2>2
<1>3. BanMember(a).accepts
  BY <1>1 DEF Asked
<1>4. \A key \in keys : HasID(a, key)
  <2> DEFINE ok == (\A key \in GuildUser : HasID(a, key)) /\ ReasonOK(a)
             more_ok == IsInt(a, "delete_message_hours", 0, 168)
  <2>1. does = Tool("destructive", GuildUser, IDArgs(GuildUser) ++ Reason, ok, r0)
    BY DEF Does
  <2>2. BanMember(a).accepts = (does.accepts /\ more_ok)
    BY DEF BanMember, Does, Tool
  <2> HIDE DEF does, ok, more_ok, r0
  <2>3. does.accepts = ok
    BY <2>1 DEF Tool
  <2>4. ok /\ more_ok
    BY <1>3, <2>2, <2>3
  <2> QED  BY <2>4 DEF ok
<1>5. DOMAIN BanMember(<<>>).takes = GuildUser \cup {"reason", "delete_message_hours"}
  BY DEF BanMember, Does, Tool, IDArgs, Reason, ++
<1>6. /\ r.params = IDs(a, keys) /\ r.route = TheBan /\ r.method = "PUT"
      /\ r.reason = Text(a, "reason")
  BY DEF Req
<1> HIDE DEF r
<1>7. Fills(keys, r.route)
  BY <1>6, MemberRoutesFilled
<1>8. \A key \in more : Present(a, key) /\ a[key] # Str("") => CarriesOf(a, r, key)
  OBVIOUS
<1>9. /\ DOMAIN Takes("ban_member") \cap IDNames \subseteq keys \cup more
      /\ keys \subseteq IDNames \ {"webhook_id"}
      /\ "ban_member" \notin WebhookTools \cup {"send_dm"}
  BY <1>1, <1>5 DEF IDNames, WebhookTools, GuildUser
<1> HIDE DEF keys, more
<1> QED  BY <1>1, <1>2, <1>4, <1>6, <1>7, <1>8, <1>9, ByIDs

LEMMA DoesToolsAct ==
    ASSUME NEW t \in {"add_role", "remove_role", "kick_member", "unban_member"}, NEW a, Asked(t, a)
    PROVE  \E r : ActsBy(t, a, r)
<1>1. CASE t = "add_role"
  <2> DEFINE keys  == GuildUser \cup {"role_id"}
             route == <<"guilds", "guild_id", "members", "user_id", "roles", "role_id">>
  <2>1. Def(t, a) = Does("mutating", a, keys, "PUT", route)
        /\ Takes(t) = Does("mutating", <<>>, keys, "PUT", route).takes
    BY <1>1 DEF Def, Takes, AddRole, RoleTool
  <2>2. t \notin WebhookTools \cup {"send_dm"} /\ Fills(keys, route)
        /\ keys \subseteq IDNames \ {"webhook_id"}
    BY <1>1, MemberRoutesFilled DEF WebhookTools, GuildUser, IDNames
  <2> HIDE DEF keys, route
  <2> QED  BY <2>1, <2>2, DoesActs
<1>2. CASE t = "remove_role"
  <2> DEFINE keys  == GuildUser \cup {"role_id"}
             route == <<"guilds", "guild_id", "members", "user_id", "roles", "role_id">>
  <2>1. Def(t, a) = Does("destructive", a, keys, "DELETE", route)
        /\ Takes(t) = Does("destructive", <<>>, keys, "DELETE", route).takes
    BY <1>2 DEF Def, Takes, RemoveRole, RoleTool
  <2>2. t \notin WebhookTools \cup {"send_dm"} /\ Fills(keys, route)
        /\ keys \subseteq IDNames \ {"webhook_id"}
    BY <1>2, MemberRoutesFilled DEF WebhookTools, GuildUser, IDNames
  <2> HIDE DEF keys, route
  <2> QED  BY <2>1, <2>2, DoesActs
<1>3. CASE t = "kick_member"
  <2>1. Def(t, a) = Does("destructive", a, GuildUser, "DELETE", TheMember)
        /\ Takes(t) = Does("destructive", <<>>, GuildUser, "DELETE", TheMember).takes
    BY <1>3 DEF Def, Takes, KickMember
  <2>2. /\ t \notin WebhookTools \cup {"send_dm"} /\ Fills(GuildUser, TheMember)
        /\ GuildUser \subseteq IDNames \ {"webhook_id"}
    BY <1>3, MemberRoutesFilled DEF WebhookTools, GuildUser, IDNames
  <2> QED  BY <2>1, <2>2, DoesActs
<1>4. CASE t = "unban_member"
  <2>1. Def(t, a) = Does("mutating", a, GuildUser, "DELETE", TheBan)
        /\ Takes(t) = Does("mutating", <<>>, GuildUser, "DELETE", TheBan).takes
    BY <1>4 DEF Def, Takes, UnbanMember
  <2>2. /\ t \notin WebhookTools \cup {"send_dm"} /\ Fills(GuildUser, TheBan)
        /\ GuildUser \subseteq IDNames \ {"webhook_id"}
    BY <1>4, MemberRoutesFilled DEF WebhookTools, GuildUser, IDNames
  <2> QED  BY <2>1, <2>2, DoesActs
<1> QED  BY <1>1, <1>2, <1>3, <1>4

-----------------------------------------------------------------------------
(* A tool of a webhook principal: whatever its arguments say, it acts on   *)
(* the webhook of the principal.                                           *)
LEMMA ByWebhook ==
    ASSUME NEW t \in WebhookTools, NEW a, NEW r, NEW keys, NEW more,
           Asked(t, a), "reason" \notin DOMAIN Takes(t), r.reason = "",
           Def(t, a).requests = <<r>>, keys \subseteq {"message_id"},
           DOMAIN r.params = {"webhook_id", "webhook_token"} \cup keys,
           r.params["webhook_id"] = Webhook.id, r.params["webhook_token"] = Webhook.token,
           Fills(DOMAIN r.params, r.route),
           \A key \in keys : HasID(a, key) /\ r.params[key] = Text(a, key),
           DOMAIN Takes(t) \cap IDNames \subseteq keys \cup more,
           \A key \in more : Present(a, key) /\ a[key] # Str("") => CarriesOf(a, r, key),
           r.method = "PATCH" => \A key \in r.body : Present(a, GivenAs(key)),
           r.method = "GET" <=> Def(t, a).hint = "readOnly"
    PROVE  \E req : ActsBy(t, a, req)
<1>1. \A key \in keys : r.params[key] = Targets(a)[key] /\ r.params[key] = a[key].s
  BY DEF Targets, HasID, CheckID, Present, Text, IDNames
<1>2. t # "send_dm" /\ "webhook_token" \notin IDNames /\ "webhook_id" \notin keys
  BY DEF WebhookTools, IDNames
<1>3. \A key \in DOMAIN r.params \cap IDNames : key = "webhook_id"
      \/ (key \in keys /\ key # "webhook_id")
  BY <1>2
<1>4. r.reason = Text(a, "reason")
  BY NoReason
<1>5. ExpandError(r.route, r.params) = "none"
  <2>1. \A key \in keys : Fits(key, r.params[key])
    BY DEF Fits, HasID, CheckID, Present, Text, IDNames
  <2>2. Fits("webhook_id", Webhook.id) /\ Fits("webhook_token", Webhook.token)
    BY WebhookAssumption DEF Fits, IsSnowflake, IDNames
  <2> QED  BY <2>1, <2>2, FilledRoute
<1>6. Faithful(t, a, r)
  BY <1>1, <1>2, <1>3, <1>4, <1>5 DEF Faithful
<1>7. \A key \in DOMAIN Targets(a) : key \in IDNames /\ Present(a, key)
  BY DEF Targets, Present
<1>8. \A key \in DOMAIN Targets(a) \cap DOMAIN Takes(t) : a[key] # Str("") => CarriesOf(a, r, key)
  BY <1>1, <1>7 DEF CarriesOf
<1>9. ActsBy(t, a, r)
  BY <1>6, <1>8 DEF ActsBy
<1> QED  BY <1>9

LEMMA OwnWebhookParams ==
    /\ DOMAIN WebhookIDs = {"webhook_id", "webhook_token"}
    /\ WebhookIDs["webhook_id"] = Webhook.id /\ WebhookIDs["webhook_token"] = Webhook.token
    /\ \A a : LET params == WebhookIDs ++ IDs(a, {"message_id"})
              IN  /\ DOMAIN params = {"webhook_id", "webhook_token", "message_id"}
                  /\ params["webhook_id"] = Webhook.id
                  /\ params["webhook_token"] = Webhook.token
                  /\ params["message_id"] = Text(a, "message_id")
  BY DEF WebhookIDs, IDs, ++

LEMMA WebhookGetActs ==
    ASSUME NEW a, Asked("webhook_get", a)
    PROVE  \E r : ActsBy("webhook_get", a, r)
<1> DEFINE r    == Req("GET", OwnWebhook, WebhookIDs)
           keys == {}
           more == {}
<1>1. /\ Def("webhook_get", a) = WebhookGet(a)
      /\ Takes("webhook_get") = WebhookGet(<<>>).takes
  BY DEF Def, Takes
<1>2. WebhookGet(a).requests = <<r>> /\ WebhookGet(a).hint = "readOnly"
  BY DEF WebhookGet, Tool
<1>3. DOMAIN WebhookGet(<<>>).takes = {"format"}
  BY DEF WebhookGet, Tool, Format
<1>4. /\ r.params = WebhookIDs /\ r.route = OwnWebhook
      /\ r.method = "GET" /\ r.reason = ""
  BY DEF Req
<1> HIDE DEF r
<1>5. Fills(DOMAIN r.params, r.route)
  BY <1>4, OwnWebhookParams, WebhookRoutesFilled
<1>6. /\ DOMAIN r.params = {"webhook_id", "webhook_token"} \cup keys
      /\ r.params["webhook_id"] = Webhook.id /\ r.params["webhook_token"] = Webhook.token
      /\ \A key \in keys : HasID(a, key) /\ r.params[key] = Text(a, key)
  BY <1>4, OwnWebhookParams
<1>7. "reason" \notin DOMAIN Takes("webhook_get") /\ DOMAIN Takes("webhook_get") \cap IDNames = {}
  BY <1>1, <1>3 DEF IDNames
<1>8. "webhook_get" \in WebhookTools /\ keys \subseteq {"message_id"}
  BY DEF WebhookTools
<1>9. \A key \in more : Present(a, key) /\ a[key] # Str("") => CarriesOf(a, r, key)
  OBVIOUS
<1> HIDE DEF keys, more
<1> QED  BY <1>1, <1>2, <1>4, <1>5, <1>6, <1>7, <1>8, <1>9, ByWebhook

LEMMA WebhookSendActs ==
    ASSUME NEW a, Asked("webhook_send", a)
    PROVE  \E r : ActsBy("webhook_send", a, r)
<1> DEFINE r    == [Req("POST", OwnWebhook, WebhookIDs) EXCEPT !.query = Given(a, {"thread_id"}),
                      !.body = Payload(a) \cup Set(a, {"username", "avatar_url"})]
           keys == {}
           more == {"thread_id"}
<1>1. /\ Def("webhook_send", a) = WebhookSend(a)
      /\ Takes("webhook_send") = WebhookSend(<<>>).takes
  BY DEF Def, Takes
<1>2. WebhookSend(a).requests = <<r>> /\ WebhookSend(a).hint = "mutating"
  BY DEF WebhookSend, Tool
<1>3. DOMAIN WebhookSend(<<>>).takes = {"content", "embeds", "allow_mentions", "attachments",
                                        "thread_id", "username", "avatar_url", "format"}
  BY DEF WebhookSend, Tool, Short, Message, Files, IDArgs, Format, ++
<1>4. /\ r.params = WebhookIDs /\ r.route = OwnWebhook
      /\ r.method = "POST" /\ r.query = Given(a, {"thread_id"}) /\ r.reason = ""
  BY DEF Req
<1> HIDE DEF r
<1>5. Fills(DOMAIN r.params, r.route)
  BY <1>4, OwnWebhookParams, WebhookRoutesFilled
<1>6. /\ DOMAIN r.params = {"webhook_id", "webhook_token"} \cup keys
      /\ r.params["webhook_id"] = Webhook.id /\ r.params["webhook_token"] = Webhook.token
      /\ \A key \in keys : HasID(a, key) /\ r.params[key] = Text(a, key)
  BY <1>4, OwnWebhookParams
<1>7. /\ "reason" \notin DOMAIN Takes("webhook_send")
      /\ DOMAIN Takes("webhook_send") \cap IDNames \subseteq keys \cup more
  BY <1>1, <1>3 DEF IDNames
<1>8. "webhook_send" \in WebhookTools /\ keys \subseteq {"message_id"}
  BY DEF WebhookTools
<1>9. \A key \in more : Present(a, key) /\ a[key] # Str("") => CarriesOf(a, r, key)
  BY <1>4, InQuery
<1> HIDE DEF keys, more
<1> QED  BY <1>1, <1>2, <1>4, <1>5, <1>6, <1>7, <1>8, <1>9, ByWebhook

(* The three tools on a message of the webhook.                            *)
LEMMA OwnMessageActs ==
    ASSUME NEW t \in WebhookTools, NEW a, Asked(t, a), NEW hint, NEW method, NEW r,
           Def(t, a).requests = <<r>>, Def(t, a).hint = hint,
           method = "GET" <=> hint = "readOnly",
           r.method = method, r.route = OwnMessage, r.params = WebhookIDs ++ IDs(a, {"message_id"}),
           r.query = Given(a, {"thread_id"}), r.reason = "",
           r.method = "PATCH" => \A key \in r.body : Present(a, GivenAs(key)),
           HasID(a, "message_id"), "reason" \notin DOMAIN Takes(t),
           DOMAIN Takes(t) \cap IDNames \subseteq {"message_id", "thread_id"}
    PROVE  \E req : ActsBy(t, a, req)
<1> DEFINE keys == {"message_id"}
           more == {"thread_id"}
<1>1. Fills(DOMAIN r.params, r.route)
  BY OwnWebhookParams, WebhookRoutesFilled
<1> DEFINE p == WebhookIDs ++ IDs(a, {"message_id"})
<1>2. /\ DOMAIN r.params = {"webhook_id", "webhook_token"} \cup keys
      /\ r.params["webhook_id"] = Webhook.id /\ r.params["webhook_token"] = Webhook.token
      /\ \A key \in keys : HasID(a, key) /\ r.params[key] = Text(a, key)
  <2>1. r.params = p
    OBVIOUS
  <2>2. /\ DOMAIN p = {"webhook_id", "webhook_token"} \cup {"message_id"}
        /\ p["webhook_id"] = Webhook.id /\ p["webhook_token"] = Webhook.token
        /\ \A key \in {"message_id"} : p[key] = Text(a, key)
    BY OwnWebhookParams
  <2> HIDE DEF p
  <2> QED  BY <2>1, <2>2
<1>3. DOMAIN Takes(t) \cap IDNames \subseteq keys \cup more /\ keys \subseteq {"message_id"}
  OBVIOUS
<1>4. \A key \in more : Present(a, key) /\ a[key] # Str("") => CarriesOf(a, r, key)
  BY InQuery
<1> HIDE DEF keys, more
<1> QED  BY <1>1, <1>2, <1>3, <1>4, ByWebhook

LEMMA OwnMessageToolsAct ==
    ASSUME NEW t \in {"webhook_get_message", "webhook_edit_message", "webhook_delete_message"},
           NEW a, Asked(t, a)
    PROVE  \E r : ActsBy(t, a, r)
<1> DEFINE r(method) == [Req(method, OwnMessage, WebhookIDs ++ IDs(a, {"message_id"})) EXCEPT
                           !.query = Given(a, {"thread_id"})]
<1>1. t \in WebhookTools
  BY DEF WebhookTools
<1>2. CASE t = "webhook_get_message"
  <2>1. Def(t, a) = WebhookGetMessage(a) /\ Takes(t) = WebhookGetMessage(<<>>).takes
    BY <1>2 DEF Def, Takes
  <2>2. /\ WebhookGetMessage(a).requests = <<r("GET")>> /\ WebhookGetMessage(a).hint = "readOnly"
        /\ WebhookGetMessage(a).accepts => HasID(a, "message_id")
    BY DEF WebhookGetMessage, OnOwnMessage, Tool
  <2>3. DOMAIN WebhookGetMessage(<<>>).takes = {"message_id", "thread_id", "format"}
    BY DEF WebhookGetMessage, OnOwnMessage, Tool, IDArgs, Format, ++
  <2>4. Asked(t, a) /\ HasID(a, "message_id")
    BY <2>1, <2>2 DEF Asked
  <2>5. /\ r("GET").method = "GET" /\ r("GET").route = OwnMessage
        /\ r("GET").params = WebhookIDs ++ IDs(a, {"message_id"})
        /\ r("GET").query = Given(a, {"thread_id"}) /\ r("GET").reason = ""
    BY DEF Req
  <2>6. "reason" \notin DOMAIN Takes(t)
        /\ DOMAIN Takes(t) \cap IDNames \subseteq {"message_id", "thread_id"}
    BY <2>1, <2>3 DEF IDNames
  <2> HIDE DEF r
  <2> QED  BY <1>1, <2>1, <2>2, <2>4, <2>5, <2>6, OwnMessageActs
<1>3. CASE t = "webhook_edit_message"
  <2> DEFINE r0 == r("PATCH")
             r1 == [r0 EXCEPT !.body = Payload(a)]
             base == OnOwnMessage(a, "mutating", "PATCH")
  <2>1. Def(t, a) = WebhookEditMessage(a) /\ Takes(t) = WebhookEditMessage(<<>>).takes
    BY <1>3 DEF Def, Takes
  <2>2. /\ WebhookEditMessage(a).requests = <<r1>> /\ WebhookEditMessage(a).hint = "mutating"
        /\ WebhookEditMessage(a).accepts => HasID(a, "message_id")
    <3>1. base.requests = <<r0>> /\ base.hint = "mutating"
          /\ base.accepts = (HasID(a, "message_id") /\ MayID(a, "thread_id"))
      BY DEF OnOwnMessage, Tool
    <3>2. /\ WebhookEditMessage(a).requests = [base.requests EXCEPT ![1].body = Payload(a)]
          /\ WebhookEditMessage(a).hint = base.hint
          /\ WebhookEditMessage(a).accepts => base.accepts
      BY DEF WebhookEditMessage, OnOwnMessage, Tool
    <3> HIDE DEF base, r0
    <3>3. [<<r0>> EXCEPT ![1].body = Payload(a)] = <<r1>>
      OBVIOUS
    <3> HIDE DEF r1
    <3>4. HasID(a, "message_id") \/ ~WebhookEditMessage(a).accepts
      BY <3>1, <3>2
    <3> QED  BY <3>1, <3>2, <3>3, <3>4
  <2>3. DOMAIN WebhookEditMessage(<<>>).takes =
           {"message_id", "thread_id", "content", "embeds", "allow_mentions", "format"}
    BY DEF WebhookEditMessage, OnOwnMessage, Tool, IDArgs, Message, Format, ++
  <2>4. Asked(t, a) /\ HasID(a, "message_id")
    BY <2>1, <2>2 DEF Asked
  <2>5. /\ r1.method = "PATCH" /\ r1.route = OwnMessage
        /\ r1.params = WebhookIDs ++ IDs(a, {"message_id"})
        /\ r1.query = Given(a, {"thread_id"}) /\ r1.reason = "" /\ r1.body = Payload(a)
    BY DEF Req
  <2>6. "reason" \notin DOMAIN Takes(t)
        /\ DOMAIN Takes(t) \cap IDNames \subseteq {"message_id", "thread_id"}
    BY <2>1, <2>3 DEF IDNames
  <2>7. \A key \in r1.body : Present(a, GivenAs(key))
    BY <2>5, PayloadGiven
  <2> HIDE DEF r1
  <2> QED  BY <1>1, <2>1, <2>2, <2>4, <2>5, <2>6, <2>7, OwnMessageActs
<1>4. CASE t = "webhook_delete_message"
  <2>1. Def(t, a) = WebhookDeleteMessage(a) /\ Takes(t) = WebhookDeleteMessage(<<>>).takes
    BY <1>4 DEF Def, Takes
  <2>2. /\ WebhookDeleteMessage(a).requests = <<r("DELETE")>>
        /\ WebhookDeleteMessage(a).hint = "destructive"
        /\ WebhookDeleteMessage(a).accepts => HasID(a, "message_id")
    BY DEF WebhookDeleteMessage, OnOwnMessage, Tool
  <2>3. DOMAIN WebhookDeleteMessage(<<>>).takes = {"message_id", "thread_id"}
    BY DEF WebhookDeleteMessage, OnOwnMessage, Tool, IDArgs
  <2>4. Asked(t, a) /\ HasID(a, "message_id")
    BY <2>1, <2>2 DEF Asked
  <2>5. /\ r("DELETE").method = "DELETE" /\ r("DELETE").route = OwnMessage
        /\ r("DELETE").params = WebhookIDs ++ IDs(a, {"message_id"})
        /\ r("DELETE").query = Given(a, {"thread_id"}) /\ r("DELETE").reason = ""
    BY DEF Req
  <2>6. "reason" \notin DOMAIN Takes(t)
        /\ DOMAIN Takes(t) \cap IDNames \subseteq {"message_id", "thread_id"}
    BY <2>1, <2>3 DEF IDNames
  <2> HIDE DEF r
  <2> QED  BY <1>1, <2>1, <2>2, <2>4, <2>5, <2>6, OwnMessageActs
<1> QED  BY <1>2, <1>3, <1>4

-----------------------------------------------------------------------------
(* send_dm asks twice.  The second request cannot be refused: the channel  *)
(* is the one that Discord answered with.                                  *)
LEMMA SendDMActs ==
    ASSUME NEW a, Asked("send_dm", a)
    PROVE  \E r1, r2 :
              /\ Def("send_dm", a).requests = <<r1, r2>>
              /\ Faithful("send_dm", a, r1) /\ Faithful("send_dm", a, r2)
              /\ ExpandError(r2.route, r2.params) = "none"
              /\ \A key \in DOMAIN Targets(a) \cap DOMAIN Takes("send_dm") :
                    CarriesOf(a, r1, key) \/ CarriesOf(a, r2, key)
<1> DEFINE r1 == [Req("POST", <<"users", "@me", "channels">>, <<>>)
                  EXCEPT !.body = {"recipient_id"}]
           r2 == [Req("POST", Messages, [channel_id |-> DMChannel]) EXCEPT !.body = Payload(a)]
<1>1. Def("send_dm", a) = SendDM(a) /\ Takes("send_dm") = SendDM(<<>>).takes
  BY DEF Def, Takes
<1>2. SendDM(a).requests = <<r1, r2>> /\ SendDM(a).hint = "mutating"
  BY DEF SendDM, SendMessage, Tool
<1>3. DOMAIN SendDM(<<>>).takes = {"user_id", "content", "embeds", "allow_mentions", "attachments",
                                   "format"}
  BY DEF SendDM, SendMessage, Tool, IDArgs, Message, Files, Format, ++
<1>4. /\ r1.method = "POST" /\ r1.route = <<"users", "@me", "channels">> /\ r1.params = <<>>
      /\ r1.reason = "" /\ r1.body = {"recipient_id"}
  BY DEF Req
<1>5. /\ r2.method = "POST" /\ r2.route = Messages /\ r2.params = [channel_id |-> DMChannel]
      /\ r2.reason = ""
  BY DEF Req
<1> HIDE DEF r1, r2
<1>6. Text(a, "reason") = ""
  <2>1. "reason" \notin DOMAIN Takes("send_dm")
    BY <1>1, <1>3
  <2> QED  BY <2>1, NoReason
<1>7. DOMAIN r1.params = {} /\ DOMAIN r2.params = {"channel_id"}
      /\ r2.params["channel_id"] = DMChannel
  <2>1. DOMAIN <<>> = {}
    OBVIOUS
  <2>2. DOMAIN [channel_id |-> DMChannel] = {"channel_id"}
        /\ [channel_id |-> DMChannel].channel_id = DMChannel
    OBVIOUS
  <2> QED  BY <1>4, <1>5, <2>1, <2>2
<1>8. Fills(DOMAIN r1.params, r1.route) /\ Fills(DOMAIN r2.params, r2.route)
  BY <1>4, <1>5, <1>7, RoutesFilled, ChannelRoutesFilled
<1>9. "send_dm" \notin WebhookTools
  BY DEF WebhookTools
<1>10. ExpandError(r1.route, r1.params) = "none" /\ ExpandError(r2.route, r2.params) = "none"
  <2>1. \A name \in DOMAIN r1.params : Fits(name, r1.params[name])
    BY <1>7
  <2>2. \A name \in DOMAIN r2.params : Fits(name, r2.params[name])
    BY <1>7, AnswerAssumption DEF Fits, IsSnowflake, IDNames
  <2> QED  BY <1>8, <2>1, <2>2, FilledRoute
<1>11. Faithful("send_dm", a, r1)
  BY <1>1, <1>2, <1>4, <1>6, <1>7, <1>8, <1>9, <1>10 DEF Faithful
<1>12. Faithful("send_dm", a, r2)
  BY <1>1, <1>2, <1>5, <1>6, <1>7, <1>8, <1>9, <1>10 DEF Faithful
<1>13. \A key \in DOMAIN Targets(a) \cap DOMAIN Takes("send_dm") : CarriesOf(a, r1, key)
  <2>1. DOMAIN Targets(a) \cap DOMAIN Takes("send_dm") \subseteq {"user_id"}
    BY <1>1, <1>3 DEF Targets, IDNames
  <2>2. CarriesOf(a, r1, "user_id")
    BY <1>4 DEF CarriesOf, GivenAs
  <2> QED  BY <2>1, <2>2
<1> QED  BY <1>1, <1>2, <1>10, <1>11, <1>12, <1>13

(* What a tool needs is something it takes.                                *)
LEMMA NeedsKnown ==
    ASSUME NEW t \in BotTools \cup EventTools \cup WebhookTools
    PROVE  Needs(t) \subseteq DOMAIN Takes(t)
<1>1. CASE t = "get_me"
  BY <1>1 DEF Needs, Takes, Def, GetMe, Tool, Format, ++
<1>2. CASE t = "list_guilds"
  BY <1>2 DEF Needs, Takes, Def, ListGuilds, Tool, IDArgs, Format, ++
<1>3. CASE t = "get_guild"
  BY <1>3 DEF Needs, Takes, Def, GetGuild, Tool, Reads, IDArgs, Format, ++
<1>4. CASE t = "list_channels"
  BY <1>4 DEF Needs, Takes, Def, ListChannels, Tool, Reads, IDArgs, Format, ++
<1>5. CASE t = "get_channel"
  BY <1>5 DEF Needs, Takes, Def, GetChannel, Tool, Reads, IDArgs, Format, ++
<1>6. CASE t = "read_messages"
  BY <1>6 DEF Needs, Takes, Def, ReadMessages, Tool, IDArgs, Format, ++
<1>7. CASE t = "get_message"
  BY <1>7 DEF Needs, Takes, Def, GetMessage, Tool, Reads, IDArgs, Format, ChanMsg, ++
<1>8. CASE t = "send_message"
  BY <1>8 DEF Needs, Takes, Def, SendMessage, Tool, IDArgs, Format, Message, Files, ++
<1>9. CASE t = "edit_message"
  BY <1>9 DEF Needs, Takes, Def, EditMessage, Tool, IDArgs, Format, Message, ChanMsg, ++
<1>10. CASE t = "delete_message"
  BY <1>10 DEF Needs, Takes, Def, DeleteMessage, Tool, IDArgs, Reason, ChanMsg, ++
<1>11. CASE t = "pin_message"
  BY <1>11 DEF Needs, Takes, Def, PinMessage, Tool, IDArgs, Reason, ChanMsg, ++
<1>12. CASE t = "add_reaction"
  BY <1>12 DEF Needs, Takes, Def, AddReaction, Tool, IDArgs, ChanMsg, ++
<1>13. CASE t = "remove_reaction"
  BY <1>13 DEF Needs, Takes, Def, RemoveReaction, Tool, IDArgs, ChanMsg, ++
<1>14. CASE t = "send_dm"
  BY <1>14 DEF Needs, Takes, Def, SendDM, Tool, SendMessage, IDArgs, Format, Message, Files, ++
<1>15. CASE t = "search_messages"
  BY <1>15 DEF Needs, Takes, Def, SearchMessages, Tool, IDArgs, Format, ++
<1>16. CASE t = "create_thread"
  <2>1. Needs(t) = CreateThread(<<>>).needs /\ Takes(t) = CreateThread(<<>>).takes
    BY <1>16 DEF Needs, Takes, Def
  <2>2. CreateThread(<<>>).needs = {"channel_id", "name"}
    BY DEF CreateThread, Tool
  <2>3. DOMAIN CreateThread(<<>>).takes = {"channel_id", "message_id", "name", "private",
                                           "auto_archive_minutes", "reason", "format"}
    BY DEF CreateThread, Tool, IDArgs, Format, Reason, ++
  <2> QED  BY <2>1, <2>2, <2>3
<1>17. CASE t = "list_active_threads"
  BY <1>17 DEF Needs, Takes, Def, ListActiveThreads, Tool, Reads, IDArgs, Format, ++
<1>18. CASE t = "create_channel"
  BY <1>18 DEF Needs, Takes, Def, CreateChannel, Tool, IDArgs, Format, Reason, ++
<1>19. CASE t = "edit_channel"
  <2>1. Needs(t) = EditChannel(<<>>).needs /\ Takes(t) = EditChannel(<<>>).takes
    BY <1>19 DEF Needs, Takes, Def
  <2>2. EditChannel(<<>>).needs = {"channel_id"}
    BY DEF EditChannel, Tool
  <2>3. DOMAIN EditChannel(<<>>).takes = {"channel_id", "parent_id", "name", "topic", "nsfw",
                                          "position", "archived", "locked",
                                   "reason", "format"}
    BY DEF EditChannel, Tool, IDArgs, Format, Reason, ++
  <2> QED  BY <2>1, <2>2, <2>3
<1>20. CASE t = "delete_channel"
  BY <1>20 DEF Needs, Takes, Def, DeleteChannel, Tool, IDArgs, Format, Reason, ++
<1>21. CASE t = "list_members"
  BY <1>21 DEF Needs, Takes, Def, ListMembers, Tool, IDArgs, Format, ++
<1>22. CASE t = "get_member"
  BY <1>22 DEF Needs, Takes, Def, GetMember, Tool, Reads, IDArgs, Format, GuildUser, ++
<1>23. CASE t = "search_members"
  BY <1>23 DEF Needs, Takes, Def, SearchMembers, Tool, IDArgs, Format, ++
<1>24. CASE t = "list_roles"
  BY <1>24 DEF Needs, Takes, Def, ListRoles, Tool, Reads, IDArgs, Format, ++
<1>25. CASE t = "add_role"
  BY <1>25 DEF Needs, Takes, Def, AddRole, Tool, Does, RoleTool, IDArgs, Reason, GuildUser, ++
<1>26. CASE t = "remove_role"
  BY <1>26 DEF Needs, Takes, Def, RemoveRole, Tool, Does, RoleTool, IDArgs, Reason, GuildUser, ++
<1>27. CASE t = "timeout_member"
  <2>1. Needs(t) = TimeoutMember(<<>>).needs /\ Takes(t) = TimeoutMember(<<>>).takes
    BY <1>27 DEF Needs, Takes, Def
  <2>2. TimeoutMember(<<>>).needs = GuildUser \cup {"minutes"}
    BY DEF TimeoutMember, Does, Tool
  <2>3. DOMAIN TimeoutMember(<<>>).takes = GuildUser \cup {"reason", "minutes"}
    BY DEF TimeoutMember, Does, Tool, IDArgs, Reason, ++
  <2> QED  BY <2>1, <2>2, <2>3
<1>28. CASE t = "kick_member"
  BY <1>28 DEF Needs, Takes, Def, KickMember, Tool, Does, IDArgs, Reason, GuildUser, ++
<1>29. CASE t = "ban_member"
  BY <1>29 DEF Needs, Takes, Def, BanMember, Tool, Does, IDArgs, Reason, GuildUser, ++
<1>30. CASE t = "unban_member"
  BY <1>30 DEF Needs, Takes, Def, UnbanMember, Tool, Does, IDArgs, Reason, GuildUser, ++
<1>31. CASE t = "webhook_get"
  BY <1>31 DEF Needs, Takes, Def, WebhookGet, Tool, Format, ++
<1>32. CASE t = "webhook_send"
  BY <1>32 DEF Needs, Takes, Def, WebhookSend, Tool, IDArgs, Format, Message, Files, ++
<1>33. CASE t = "request"
  BY <1>33 DEF Needs, Takes, Def, Request, Tool, Reason, ++
<1>34. CASE t = "webhook_get_message"
  BY <1>34 DEF Needs, Takes, Def, WebhookGetMessage, Tool, OnOwnMessage, IDArgs, Format, ++
<1>35. CASE t = "webhook_edit_message"
  BY <1>35 DEF Needs, Takes, Def, WebhookEditMessage, Tool, OnOwnMessage, IDArgs, Format, Message,
     ++
<1>36. CASE t = "webhook_delete_message"
  BY <1>36 DEF Needs, Takes, Def, WebhookDeleteMessage, Tool, OnOwnMessage, IDArgs, ++
<1>37. CASE t = "poll_events"
  BY <1>37 DEF Needs, Takes, Def, PollEvents, Tool, IDArgs, Format, ++
<1>38. CASE t = "wait_for_message"
  BY <1>38 DEF Needs, Takes, Def, WaitForMessage, Tool, IDArgs, Format, ++
<1> QED
  BY <1>1, <1>2, <1>3, <1>4, <1>5, <1>6, <1>7, <1>8, <1>9, <1>10, <1>11, <1>12, <1>13, <1>14,
     <1>15, <1>16, <1>17, <1>18, <1>19, <1>20, <1>21, <1>22, <1>23, <1>24, <1>25, <1>26, <1>27,
     <1>28, <1>29, <1>30, <1>31, <1>32, <1>33, <1>34, <1>35, <1>36, <1>37, <1>38
     DEF BotTools, Discovery, Messaging, Channels, Guilds, EventTools, WebhookTools

(* Every tool but send_dm and discord_request, which say of themselves     *)
(* what they ask for.                                                      *)
LEMMA ToolActs ==
    ASSUME NEW t \in (BotTools \cup WebhookTools) \ {"send_dm", "request"}, NEW a, Asked(t, a)
    PROVE  \E r : ActsBy(t, a, r)
  BY ReadToolsAct, DoesToolsAct, OwnMessageToolsAct, GetMeActs, ListGuildsActs, ReadMessagesActs,
     SendMessageActs, EditMessageActs, DeleteMessageActs, PinMessageActs, AddReactionActs,
     RemoveReactionActs, SearchMessagesActs, CreateThreadActs, CreateChannelActs, EditChannelActs,
     DeleteChannelActs, ListMembersActs, SearchMembersActs, TimeoutMemberActs, BanMemberActs,
     WebhookGetActs, WebhookSendActs
  DEF BotTools, Discovery, Messaging, Channels, Guilds, WebhookTools

(* The route of discord_request is the client's, and checked by DoRaw.     *)
LEMMA RequestAsks ==
    ASSUME NEW a
    PROVE  \E r : /\ Def("request", a).requests = <<r>>
                  /\ DOMAIN r.params = {} /\ r.reason = Text(a, "reason")
                  /\ r.method = Text(a, "method")
                  /\ \A key \in r.body : Present(a, GivenAs(key))
<1> DEFINE r == [Req(Text(a, "method"), <<>>, <<>>) EXCEPT
                   !.body = Optional(a, {"body"}), !.reason = Text(a, "reason")]
<1>1. Def("request", a) = Request(a)
  BY DEF Def
<1>2. Request(a).requests = <<r>>
  BY DEF Request, Tool
<1>3. /\ r.params = <<>> /\ r.reason = Text(a, "reason") /\ r.body = Optional(a, {"body"})
      /\ r.method = Text(a, "method")
  BY DEF Req
<1>4. \A key \in Optional(a, {"body"}) : Present(a, GivenAs(key))
  BY DEF Optional, GivenAs
<1>5. DOMAIN <<>> = {}
  OBVIOUS
<1> HIDE DEF r
<1> QED  BY <1>1, <1>2, <1>3, <1>4, <1>5

LEMMA EventToolsAskNothing ==
    ASSUME NEW t \in EventTools, NEW a
    PROVE  Def(t, a).requests = <<>>
<1>1. CASE t = "poll_events"
  BY <1>1 DEF Def, PollEvents, Tool
<1>2. CASE t = "wait_for_message"
  BY <1>2 DEF Def, WaitForMessage, Tool
<1> QED  BY <1>1, <1>2 DEF EventTools

(* What a request of a handler has to be for ActsAsAsked, and that of the  *)
(* requests only the first can still be refused.                           *)
RightRequest(t, a, r) ==
    /\ \A key \in DOMAIN r.params \cap IDNames :
          r.params[key] = CASE key = "webhook_id" -> Webhook.id
                            [] t = "send_dm"      -> DMChannel
                            [] OTHER              -> Targets(a)[key]
    /\ t \in WebhookTools => {"webhook_id", "webhook_token"} \subseteq DOMAIN r.params
    /\ r.reason = Text(a, "reason")
    /\ r.method = "PATCH" => \A key \in r.body : Present(a, GivenAs(key))
    /\ t # "request" => (r.method = "GET" <=> Def(t, a).hint = "readOnly")

NoMistake(t, r, again) ==
    t # "request" => /\ Fills(DOMAIN r.params, r.route)
                     /\ ExpandError(r.route, r.params) \in {"none", "arg"}
                     /\ again => ExpandError(r.route, r.params) = "none"

Aimed(t, a) == {key \in DOMAIN Targets(a) \cap DOMAIN Takes(t) : a[key] # Str("")}

Right(t, a, requests) ==
    /\ Len(requests) \in {0, 1, 2}
    /\ \A i \in 1 .. Len(requests) :
          RightRequest(t, a, requests[i]) /\ NoMistake(t, requests[i], i = 2)
    /\ t = "request" => Len(requests) = 1
    /\ t \notin EventTools \cup {"request"} => \A key \in Aimed(t, a) :
          \E i \in 1 .. Len(requests) : CarriesOf(a, requests[i], key)

LEMMA RequestsRight ==
    ASSUME NEW t \in BotTools \cup EventTools \cup WebhookTools, NEW a, Asked(t, a)
    PROVE  Right(t, a, Def(t, a).requests)
<1> DEFINE q == Def(t, a).requests
<1>1. CASE t \in EventTools
  <2>1. Len(q) = 0 /\ t # "request"
    BY <1>1, EventToolsAskNothing DEF EventTools
  <2> HIDE DEF q
  <2>2. \A i \in 1 .. Len(q) : FALSE
    BY <2>1
  <2>3. Right(t, a, q)
    BY <1>1, <2>1, <2>2 DEF Right
  <2> QED  BY <2>3 DEF q
<1>2. CASE t = "request"
  <2>1. PICK r : /\ Def(t, a).requests = <<r>>
                 /\ DOMAIN r.params = {} /\ r.reason = Text(a, "reason")
                 /\ \A key \in r.body : Present(a, GivenAs(key))
    BY <1>2, RequestAsks
  <2>2. RightRequest(t, a, r) /\ NoMistake(t, r, 1 = 2)
    BY <1>2, <2>1 DEF RightRequest, NoMistake, WebhookTools
  <2>3. Len(q) = 1 /\ q[1] = r
    BY <2>1
  <2> HIDE DEF q
  <2>4. \A i \in 1 .. Len(q) : i = 1
    BY <2>3
  <2>5. Right(t, a, q)
    BY <1>2, <2>2, <2>3, <2>4 DEF Right
  <2> QED  BY <2>5 DEF q
<1>3. CASE t = "send_dm"
  <2>1. PICK r1, r2 :
           /\ Def(t, a).requests = <<r1, r2>> /\ Faithful(t, a, r1) /\ Faithful(t, a, r2)
           /\ ExpandError(r2.route, r2.params) = "none"
           /\ \A key \in Aimed(t, a) : CarriesOf(a, r1, key) \/ CarriesOf(a, r2, key)
    BY <1>3, SendDMActs DEF Aimed
  <2>2. RightRequest(t, a, r1) /\ RightRequest(t, a, r2)
    BY <2>1 DEF RightRequest, Faithful
  <2>3. NoMistake(t, r1, 1 = 2) /\ NoMistake(t, r2, 2 = 2)
    BY <2>1, FilledRoute DEF Faithful, NoMistake
  <2>4. Len(q) = 2 /\ q[1] = r1 /\ q[2] = r2
    BY <2>1
  <2> HIDE DEF q
  <2>5. (\A i \in 1 .. Len(q) : i = 1 \/ i = 2) /\ 1 \in 1 .. Len(q) /\ 2 \in 1 .. Len(q)
    BY <2>4
  <2>6. Right(t, a, q)
    BY <1>3, <2>1, <2>2, <2>3, <2>4, <2>5 DEF Right
  <2> QED  BY <2>6 DEF q
<1>4. CASE t \in (BotTools \cup WebhookTools) \ {"send_dm", "request"}
  <2>1. PICK r : ActsBy(t, a, r)
    BY <1>4, ToolActs
  <2>2. RightRequest(t, a, r)
    BY <2>1 DEF RightRequest, Faithful, ActsBy
  <2>3. q = <<r>> /\ Fills(DOMAIN r.params, r.route)
    BY <2>1 DEF ActsBy, Faithful
  <2>4. NoMistake(t, r, 1 = 2)
    <3>1. ExpandError(r.route, r.params) \in {"none", "arg"}
      BY <2>3, FilledRoute
    <3> QED  BY <2>3, <3>1 DEF NoMistake
  <2>5. Len(q) = 1 /\ q[1] = r
    <3> HIDE DEF q
    <3> QED  BY <2>3
  <2>6. \A key \in Aimed(t, a) : CarriesOf(a, r, key)
    BY <2>1 DEF ActsBy, Aimed
  <2> HIDE DEF q
  <2>7. (\A i \in 1 .. Len(q) : i = 1) /\ 1 \in 1 .. Len(q)
    BY <2>5
  <2>8. Right(t, a, q)
    BY <1>4, <2>2, <2>4, <2>5, <2>6, <2>7 DEF Right
  <2> QED  BY <2>8 DEF q
<1> QED  BY <1>1, <1>2, <1>3, <1>4

-----------------------------------------------------------------------------
(* A call as it goes: its arguments are ones a client can give; what was   *)
(* sent are the first of the requests of its handler, which accepted; and  *)
(* a call that ends is refused before, or through with its requests, or    *)
(* failed by Discord.                                                      *)
IsSeq(s) == \E S : s \in Seq(S)

CallInv ==
    LET requests == Def(tool, args).requests
    IN  /\ tool \in BotTools \cup EventTools \cup WebhookTools
        /\ DOMAIN args \subseteq DOMAIN Known(tool)
        /\ phase \in {"asking", "sent", "done"}
        /\ IsSeq(sent) /\ \A i \in 1 .. Len(sent) : sent[i].req = requests[i]
        /\ phase = "asking" => sent = <<>> /\ outcome = "none"
        /\ phase = "sent" => sent # <<>> /\ outcome = "none"
        /\ sent # <<>> => Def(tool, args).accepts /\ Len(sent) <= Len(requests)
        /\ outcome \in {"none", "ok", "arg", "failed"}
        /\ outcome = "ok" => Def(tool, args).accepts /\ Len(sent) = Len(requests)
        /\ outcome = "arg" => sent = <<>>

(* One more request.                                                       *)
LEMMA SendOne ==
    ASSUME NEW s, IsSeq(s), NEW x
    PROVE  /\ IsSeq(Append(s, x)) /\ Append(s, x) # <<>>
           /\ Len(s) \in Nat /\ Len(Append(s, x)) = Len(s) + 1
           /\ \A i \in 1 .. Len(s) : Append(s, x)[i] = s[i]
           /\ Append(s, x)[Len(s) + 1] = x
<1>1. PICK S : s \in Seq(S)
  BY DEF IsSeq
<1>2. s \in Seq(S \cup {x}) /\ x \in S \cup {x}
  BY <1>1
<1>3. Append(s, x) \in Seq(S \cup {x})
  BY <1>2
<1> QED  BY <1>2, <1>3 DEF IsSeq

LEMMA SentNothing == ASSUME NEW s, IsSeq(s) PROVE Len(s) \in Nat /\ (s = <<>> <=> Len(s) = 0)
  BY DEF IsSeq

LEMMA InitCallInv == Init => CallInv
<1> SUFFICES ASSUME Init PROVE CallInv
  OBVIOUS
<1>1. DOMAIN Plain(tool) \subseteq DOMAIN Known(tool)
  <2>1. Needs(tool) \subseteq DOMAIN Takes(tool)
    BY NeedsKnown DEF Init
  <2>2. tool = "edit_channel" => "topic" \in DOMAIN Takes(tool)
    <3>1. DOMAIN EditChannel(<<>>).takes =
             {"channel_id", "parent_id", "name", "topic", "nsfw", "position", "archived", "locked",
              "reason", "format"}
      BY DEF EditChannel, Tool, IDArgs, Reason, Format, ++
    <3> QED  BY <3>1 DEF Takes, Def
  <2>3. DOMAIN Takes(tool) \subseteq DOMAIN Known(tool)
    BY DEF Known, ++
  <2> QED  BY <2>1, <2>2, <2>3 DEF Plain
<1>2. IsSeq(<<>>) /\ Len(<<>>) = 0
  BY DEF IsSeq
<1> QED  BY <1>1, <1>2 DEF Init, CallInv

(* The handler goes on: to the next request, to its end, or, before the    *)
(* first request and never later, to the error of a parameter.             *)
LEMMA ProceedCallInv ==
    ASSUME CallInv, phase \in {"asking", "sent"}, Def(tool, args).accepts,
           Proceed, UNCHANGED <<tool, args>>
    PROVE  CallInv'
<1> DEFINE requests == Def(tool, args).requests
           r        == requests[Len(sent) + 1]
<1>1. Right(tool, args, requests)
  BY RequestsRight DEF CallInv, Asked
<1>2. /\ IsSeq(sent) /\ Len(sent) \in Nat /\ (sent = <<>> <=> Len(sent) = 0)
      /\ Len(sent) <= Len(requests) /\ Len(requests) \in {0, 1, 2}
      /\ outcome = "none" /\ \A i \in 1 .. Len(sent) : sent[i].req = requests[i]
  BY <1>1, SentNothing DEF CallInv, Right
<1>3. /\ tool' \in BotTools \cup EventTools \cup WebhookTools
      /\ DOMAIN args' \subseteq DOMAIN Known(tool') /\ Def(tool', args').accepts
      /\ Def(tool', args').requests = requests
  BY DEF CallInv
<1>4. CASE Len(sent) = Len(requests) /\ End("ok") /\ UNCHANGED sent
  BY <1>2, <1>3, <1>4 DEF CallInv, End
<1>5. CASE Len(sent) # Len(requests) /\ Error(r) # "none" /\ End(Error(r)) /\ UNCHANGED sent
  <2>1. Len(sent) + 1 \in 1 .. Len(requests)
    BY <1>2, <1>5
  <2>2. Error(r) = "arg" /\ Len(sent) + 1 # 2
    BY <1>1, <1>5, <2>1 DEF Error, Right, NoMistake
  <2>3. sent = <<>>
    BY <1>2, <2>1, <2>2
  <2> QED  BY <1>2, <1>3, <1>5, <2>2, <2>3 DEF CallInv, End
<1>6. CASE /\ Len(sent) # Len(requests) /\ sent' = Append(sent, Wire(r))
           /\ phase' = "sent" /\ UNCHANGED outcome
  <2>1. Wire(r).req = r
    BY DEF Wire
  <2>2. /\ IsSeq(sent') /\ sent' # <<>> /\ Len(sent') = Len(sent) + 1
        /\ \A i \in 1 .. Len(sent) : sent'[i] = sent[i]
        /\ sent'[Len(sent) + 1].req = r
    BY <1>2, <1>6, <2>1, SendOne
  <2>3. \A i \in 1 .. Len(sent') : i \in 1 .. Len(sent) \/ i = Len(sent) + 1
    BY <1>2, <2>2
  <2>4. \A i \in 1 .. Len(sent') : sent'[i].req = requests[i]
    BY <1>2, <2>2, <2>3
  <2>5. Len(sent') <= Len(requests)
    BY <1>2, <1>6, <2>2
  <2> QED  BY <1>2, <1>3, <1>6, <2>2, <2>4, <2>5 DEF CallInv
<1> QED  BY <1>4, <1>5, <1>6 DEF Proceed

LEMMA NextCallInv == CallInv /\ [Next]_vars => CallInv'
<1> SUFFICES ASSUME CallInv, [Next]_vars PROVE CallInv'
  OBVIOUS
<1>1. ASSUME NEW key \in DOMAIN Known(tool), Give(key) PROVE CallInv'
  BY <1>1 DEF CallInv, Give, ++
<1>2. ASSUME NEW key \in DOMAIN args, LeaveOut(key) PROVE CallInv'
  BY <1>2 DEF CallInv, LeaveOut
<1>3. CASE Refuse
  BY <1>3 DEF CallInv, Refuse, End
<1>4. CASE Handle
  BY <1>4, ProceedCallInv DEF Handle
<1>5. CASE Answered
  <2>1. Def(tool, args).accepts
    BY <1>5 DEF CallInv, Answered
  <2> QED  BY <1>5, <2>1, ProceedCallInv DEF Answered
<1>6. CASE Failed
  BY <1>6 DEF CallInv, Failed, End
<1>7. CASE UNCHANGED vars
  BY <1>7 DEF CallInv, vars
<1> QED  BY <1>1, <1>2, <1>3, <1>4, <1>5, <1>6, <1>7 DEF Next

LEMMA InvariantCallInv == Spec => []CallInv
  BY InitCallInv, NextCallInv, PTL DEF Spec

-----------------------------------------------------------------------------
(* Whatever a client gives to whichever tool: arguments are refused before *)
(* anything was done with them, and no call fails because a handler gave a *)
(* route the wrong parameters.                                             *)
THEOREM ArgumentsRefusedUnsent == Spec => []RefusedUnsent
<1>1. CallInv => RefusedUnsent
  BY DEF CallInv, RefusedUnsent
<1> QED  BY <1>1, InvariantCallInv, PTL

(* Whatever a client gives to whichever tool: the requests are the ones it *)
(* asked for and the audit line tells of.                                  *)
THEOREM EveryToolActsAsAsked == Spec => []ActsAsAsked
<1>1. CallInv => ActsAsAsked
  <2> SUFFICES ASSUME CallInv PROVE ActsAsAsked
    OBVIOUS
  <2> DEFINE requests == Def(tool, args).requests
             reqs     == {sent[i].req : i \in DOMAIN sent}
  <2>1. IsSeq(sent) /\ DOMAIN sent = 1 .. Len(sent) /\ Len(sent) \in Nat
    BY DEF CallInv, IsSeq
  <2>2. \A i \in DOMAIN sent : sent[i].req = requests[i]
    BY <2>1 DEF CallInv
  <2>3. sent # <<>> \/ outcome = "ok" => Right(tool, args, requests)
    BY RequestsRight DEF CallInv, Asked
  <2>4. \A req \in reqs : RightRequest(tool, args, req)
    <3> SUFFICES ASSUME NEW i \in DOMAIN sent PROVE RightRequest(tool, args, sent[i].req)
      OBVIOUS
    <3>1. sent # <<>> /\ Len(sent) <= Len(requests)
      BY <2>1, SentNothing DEF CallInv
    <3>2. Right(tool, args, requests)
      BY <2>3, <3>1
    <3>3. i \in 1 .. Len(requests)
      BY <2>1, <3>1, <3>2 DEF Right
    <3> QED  BY <2>2, <3>2, <3>3 DEF Right
  <2>5. outcome = "ok" /\ tool \notin EventTools \cup {"request"} =>
           \A key \in Aimed(tool, args) : \E req \in reqs : CarriesOf(args, req, key)
    <3> SUFFICES ASSUME outcome = "ok", tool \notin EventTools \cup {"request"},
                        NEW key \in Aimed(tool, args)
                 PROVE  \E req \in reqs : CarriesOf(args, req, key)
      OBVIOUS
    <3>1. PICK i \in 1 .. Len(requests) : CarriesOf(args, requests[i], key)
      BY <2>3 DEF Right
    <3>2. i \in DOMAIN sent /\ sent[i].req = requests[i]
      BY <2>1, <2>2 DEF CallInv
    <3> QED  BY <3>1, <3>2
  <2> HIDE DEF requests
  <2> QED  BY <2>4, <2>5 DEF ActsAsAsked, RightRequest, Aimed, CarriesOf, Carries
<1> QED  BY <1>1, InvariantCallInv, PTL

-----------------------------------------------------------------------------
(* Given parameters that fit, every segment of a path is one of the route, *)
(* an ID, a token or an emoji.                                             *)
LEMMA Segments ==
    ASSUME NEW route, NEW params, Fills(DOMAIN params, route), ExpandError(route, params) = "none"
    PROVE  LET path == Expand(route, params)
           IN  /\ DOMAIN path = 1 .. Len(route)
               /\ \A i \in 1 .. Len(route) :
                     \/ route[i] \notin ParamNames /\ path[i] = route[i]
                     \/ route[i] \in IDNames /\ path[i] = params[route[i]] /\ path[i] \in Snowflakes
                     \/ route[i] = "webhook_token" /\ path[i] \in Tokens
                     \/ route[i] = "emoji" /\ path[i] # "a/b"
<1> DEFINE path == Expand(route, params)
<1>1. DOMAIN path = 1 .. Len(route)
  BY DEF Expand, Fills
<1>2. \A i \in Holes(route) : route[i] \in DOMAIN params
  BY DEF Fills
<1>3. \A i \in Holes(route) : Fits(route[i], params[route[i]])
  BY <1>2 DEF ExpandError
<1>4. ASSUME NEW i \in 1 .. Len(route)
      PROVE  \/ route[i] \notin ParamNames /\ path[i] = route[i]
             \/ route[i] \in IDNames /\ path[i] = params[route[i]] /\ path[i] \in Snowflakes
             \/ route[i] = "webhook_token" /\ path[i] \in Tokens
             \/ route[i] = "emoji" /\ path[i] # "a/b"
  <2>1. i \in DOMAIN route /\ (i \in Holes(route) <=> route[i] \in ParamNames)
    BY DEF Fills, Holes
  <2>2. path[i] = CASE i \notin Holes(route) -> route[i]
                    [] route[i] = "emoji"    -> PathEscape(params["emoji"])
                    [] OTHER                 -> params[route[i]]
    BY <2>1 DEF Expand
  <2>3. CASE i \notin Holes(route)
    <3>1. route[i] # "emoji"
      BY <2>1, <2>3 DEF ParamNames
    <3>2. path[i] = route[i]
      <4> HIDE DEF path
      <4> QED  BY <2>2, <2>3, <3>1
    <3> QED  BY <2>1, <2>3, <3>2
  <2>4. CASE i \in Holes(route) /\ route[i] = "emoji"
    <3>1. path[i] = PathEscape(params["emoji"])
      BY <2>2, <2>4
    <3>2. \A v : PathEscape(v) # "a/b"
      BY DEF PathEscape
    <3> QED  BY <2>4, <3>1, <3>2
  <2>5. CASE i \in Holes(route) /\ route[i] = "webhook_token"
    <3>1. path[i] = params[route[i]]
      BY <2>2, <2>5
    <3>2. Fits("webhook_token", params["webhook_token"])
      BY <1>3, <2>5
    <3>3. params["webhook_token"] \in Tokens
      BY <3>2 DEF Fits, IDNames
    <3> QED  BY <2>5, <3>1, <3>3
  <2>6. CASE i \in Holes(route) /\ route[i] \in IDNames
    <3>1. path[i] = params[route[i]]
      BY <2>2, <2>6 DEF IDNames
    <3>2. Fits(route[i], params[route[i]])
      BY <1>3, <2>6
    <3>3. params[route[i]] \in Snowflakes
      BY <2>6, <3>2 DEF Fits, IsSnowflake, IDNames
    <3> QED  BY <2>6, <3>1, <3>3
  <2> QED  BY <2>1, <2>3, <2>4, <2>5, <2>6 DEF ParamNames
<1> QED  BY <1>1, <1>4

(* None of them is in two parts.                                           *)
LEMMA SegmentsWhole ==
    ASSUME NEW route, NEW params, Fills(DOMAIN params, route), ExpandError(route, params) = "none"
    PROVE  \A j \in DOMAIN Expand(route, params) : Expand(route, params)[j] # "a/b"
<1> DEFINE path == Expand(route, params)
<1>1. /\ DOMAIN path = 1 .. Len(route)
      /\ \A i \in 1 .. Len(route) :
            \/ route[i] \notin ParamNames /\ path[i] = route[i]
            \/ path[i] \in Snowflakes \/ path[i] \in Tokens \/ path[i] # "a/b"
  BY Segments
<1>2. \A i \in 1 .. Len(route) : route[i] # "a/b"
  BY DEF Fills, PlainRoute
<1> HIDE DEF path
<1> QED  BY <1>1, <1>2, SnowflakesAssumption, TokensAssumption DEF path

(* One pass of RedactRoute over a path, given what became of the segments. *)
Redacted(path, red) ==
    [i \in DOMAIN path |->
        IF IsSnowflake(path[i]) THEN "{id}"
        ELSE IF i > 2 /\ red[i - 2] \in Special /\ red[i - 1] = "{id}" THEN "{token}"
        ELSE path[i]]

LEMMA RedactRouteDef ==
    ASSUME NEW path, NEW red, red = Redacted(path, red)
    PROVE  RedactRoute(path) = Redacted(path, RedactRoute(path))
<1>1. RedactRoute(path) = CHOOSE f : f = Redacted(path, f)
  BY DEF RedactRoute, Redacted, Special
<1> QED  BY <1>1

(* What RedactRoute leaves of a path of the program.                       *)
Shown(path, route, j) ==
    IF IsSnowflake(path[j]) THEN "{id}"
    ELSE IF route[j] = "webhook_token" THEN "{token}"
    ELSE path[j]

LEMMA RouteRedacted ==
    ASSUME NEW route, NEW params, Fills(DOMAIN params, route), ExpandError(route, params) = "none"
    PROVE  \A j \in DOMAIN Expand(route, params) :
              RedactRoute(Expand(route, params))[j] = Shown(Expand(route, params), route, j)
<1> DEFINE path == Expand(route, params)
           kept(j) == IF IsSnowflake(path[j]) THEN "{id}"
                     ELSE IF route[j] = "webhook_token" THEN "{token}"
                     ELSE path[j]
           red  == [j \in DOMAIN path |-> kept(j)]
<1>1. /\ DOMAIN path = 1 .. Len(route) /\ Len(route) \in Nat
      /\ \A i \in 1 .. Len(route) :
            \/ route[i] \notin ParamNames /\ path[i] = route[i]
            \/ route[i] \in IDNames /\ path[i] \in Snowflakes
            \/ route[i] = "webhook_token"
            \/ route[i] = "emoji"
  BY Segments DEF Fills
<1>2. PlainRoute(route)
  BY DEF Fills
<1> HIDE DEF path
<1>3. \A j : IsSnowflake(path[j]) => kept(j) = "{id}"
  OBVIOUS
<1>4. \A j : ~IsSnowflake(path[j]) /\ route[j] = "webhook_token" => kept(j) = "{token}"
  OBVIOUS
<1>5. \A j : ~IsSnowflake(path[j]) /\ route[j] # "webhook_token" => kept(j) = path[j]
  OBVIOUS
<1>6. red = [j \in DOMAIN path |-> kept(j)]
  OBVIOUS
<1> HIDE DEF kept, red
<1>7. \A i \in 1 .. Len(route) : route[i] \in Special => path[i] = route[i] /\ ~IsSnowflake(path[i])
  BY <1>1, SnowflakesAssumption DEF Special, ParamNames, IDNames, IsSnowflake
<1>8. \A i \in 1 .. Len(route) : route[i] = "webhook_token" =>
         /\ i = 3 /\ 1 \in 1 .. Len(route) /\ 2 \in 1 .. Len(route)
         /\ route[1] \in Special /\ route[2] = "webhook_id" /\ IsSnowflake(path[2])
  <2> SUFFICES ASSUME NEW i \in 1 .. Len(route), route[i] = "webhook_token"
               PROVE  /\ i = 3 /\ 1 \in 1 .. Len(route) /\ 2 \in 1 .. Len(route)
                      /\ route[1] \in Special /\ route[2] = "webhook_id" /\ IsSnowflake(path[2])
    OBVIOUS
  <2>1. i = 3 /\ route[1] \in Special
    BY <1>2 DEF PlainRoute
  <2>2. 1 \in 1 .. Len(route) /\ 2 \in 1 .. Len(route)
    BY <1>1, <2>1
  <2>3. route[2] = "webhook_id"
    BY <1>2, <2>1, <2>2 DEF PlainRoute
  <2>4. IsSnowflake(path[2])
    BY <1>1, <2>2, <2>3 DEF IsSnowflake, ParamNames, IDNames
  <2> QED  BY <2>1, <2>2, <2>3, <2>4
(* A token is found where there is one, and nowhere else.                  *)
<1>9. ASSUME NEW f, 1 \in DOMAIN path => f[1] = kept(1), 2 \in DOMAIN path => f[2] = kept(2),
             \A j \in DOMAIN path : f[j] \in {"{id}", "{token}", path[j]},
             \A j \in DOMAIN path : route[j] = "webhook_token" => f[j] \in {"{id}", "{token}"},
             NEW j \in DOMAIN path, ~IsSnowflake(path[j])
      PROVE  (j > 2 /\ f[j - 2] \in Special /\ f[j - 1] = "{id}") <=> route[j] = "webhook_token"
  <2>1. ASSUME route[j] = "webhook_token"
        PROVE  j > 2 /\ f[j - 2] \in Special /\ f[j - 1] = "{id}"
    <3>1. j = 3 /\ route[1] \in Special /\ IsSnowflake(path[2]) /\ 1 \in DOMAIN path
          /\ 2 \in DOMAIN path
      BY <1>1, <1>8, <2>1
    <3>2. f[1] = kept(1) /\ f[2] = kept(2)
      BY <1>9, <3>1
    <3>3. kept(2) = "{id}"
      <4>1. route[2] # "webhook_token"
        BY <1>1, <1>8, <3>1
      <4> QED  BY <1>3, <3>1, <4>1
    <3>4. kept(1) = route[1]
      <4>1. route[1] # "webhook_token" /\ 1 \in 1 .. Len(route)
        BY <1>1, <1>8, <3>1
      <4> QED  BY <1>7, <1>5, <3>1, <4>1
    <3>5. f[1] \in Special /\ f[2] = "{id}"
      BY <3>1, <3>2, <3>3, <3>4
    <3>6. j > 2 /\ j - 2 = 1 /\ j - 1 = 2
      BY <3>1
    <3> QED  BY <3>5, <3>6
  <2>2. ASSUME j > 2, f[j - 2] \in Special, f[j - 1] = "{id}"
        PROVE  route[j] = "webhook_token"
    <3>1. j \in 1 .. Len(route)
      BY <1>1, <1>9
    <3>2. j \in Nat /\ j <= Len(route) /\ j > 2 /\ Len(route) \in Nat
      <4>1. Len(route) \in Nat
        BY <1>1
      <4>2. j > 2
        BY <2>2
      <4> QED  BY <3>1, <4>1, <4>2
    <3>3. j - 2 \in 1 .. Len(route)
      BY <3>2
    <3>4. j - 2 \in 1 .. Len(route) /\ j - 2 \in DOMAIN path
      BY <1>1, <3>3
    <3>5. path[j - 2] \in Special /\ f[j - 2] = path[j - 2]
      BY <1>9, <2>2, <3>4 DEF Special
    <3>6. path[j - 2] \notin Snowflakes
      BY <3>5, SnowflakesAssumption DEF Special
    <3>7. route[j - 2] # "webhook_token"
      BY <1>9, <2>2, <3>4 DEF Special
    <3>8. route[j - 2] # "emoji"
      BY <1>1, <1>2, <3>4 DEF PlainRoute
    <3>9. route[j - 2] \in Special
      BY <1>1, <3>4, <3>5, <3>6, <3>7, <3>8
    <3>10. j - 2 = 1
      BY <1>2, <3>4, <3>9 DEF PlainRoute
    <3>11. j = 3
      BY <3>10, <3>2
    <3>12. route[1] \in Special
      BY <3>9, <3>10
    <3> QED  BY <1>2, <3>1, <3>11, <3>12 DEF PlainRoute
  <2> QED  BY <2>1, <2>2
<1>10. red = Redacted(path, red)
  <2>1. \A j \in DOMAIN path : red[j] = kept(j)
    BY <1>6
  <2>2. \A j \in DOMAIN path : red[j] \in {"{id}", "{token}", path[j]}
    BY <2>1, <1>3, <1>4, <1>5
  <2>3. \A j \in DOMAIN path : route[j] = "webhook_token" => red[j] \in {"{id}", "{token}"}
    BY <2>1, <1>3, <1>4
  <2>4. \A j \in DOMAIN path : ~IsSnowflake(path[j]) =>
           ((j > 2 /\ red[j - 2] \in Special /\ red[j - 1] = "{id}") <=> route[j] = "webhook_token")
    BY <1>9, <2>1, <2>2, <2>3
  <2>5. \A j \in DOMAIN path :
           kept(j) = IF IsSnowflake(path[j]) THEN "{id}"
                     ELSE IF j > 2 /\ red[j - 2] \in Special /\ red[j - 1] = "{id}" THEN "{token}"
                     ELSE path[j]
    BY <2>4, <1>3, <1>4, <1>5
  <2> QED  BY <1>6, <2>5 DEF Redacted
<1> DEFINE f == RedactRoute(path)
<1>11. f = Redacted(path, f)
  BY <1>10, RedactRouteDef
<1>12. \A j \in DOMAIN path :
         f[j] = IF IsSnowflake(path[j]) THEN "{id}"
                ELSE IF j > 2 /\ f[j - 2] \in Special /\ f[j - 1] = "{id}" THEN "{token}"
                ELSE path[j]
  <2> HIDE DEF f
  <2> QED  BY <1>11 DEF Redacted
<1> HIDE DEF f
<1>13. ASSUME NEW j \in {1, 2}, j \in DOMAIN path
      PROVE  f[j] = IF IsSnowflake(path[j]) THEN "{id}" ELSE path[j]
  <2>1. ~(j > 2)
    OBVIOUS
  <2>2. f[j] = IF IsSnowflake(path[j]) THEN "{id}"
                ELSE IF j > 2 /\ f[j - 2] \in Special /\ f[j - 1] = "{id}" THEN "{token}"
                ELSE path[j]
    BY <1>13, <1>12
  <2> QED  BY <2>1, <2>2
<1>14. (1 \in DOMAIN path => f[1] = kept(1)) /\ (2 \in DOMAIN path => f[2] = kept(2))
  <2> SUFFICES ASSUME NEW j \in {1, 2}, j \in DOMAIN path  PROVE f[j] = kept(j)
    OBVIOUS
  <2>1. route[j] # "webhook_token"
    BY <1>1, <1>8
  <2> QED  BY <2>1, <1>13, <1>3, <1>5
<1>15. \A j \in DOMAIN path : f[j] \in {"{id}", "{token}", path[j]}
  BY <1>12
<1>16. \A j \in DOMAIN path : route[j] = "webhook_token" => f[j] \in {"{id}", "{token}"}
  <2> SUFFICES ASSUME NEW j \in DOMAIN path, route[j] = "webhook_token", ~IsSnowflake(path[j])
               PROVE  f[j] = "{token}"
    BY <1>12
  <2>1. j = 3 /\ route[1] \in Special /\ IsSnowflake(path[2]) /\ 1 \in DOMAIN path
        /\ 2 \in DOMAIN path
    BY <1>1, <1>8
  <2>2. path[1] \in Special /\ ~IsSnowflake(path[1])
    BY <1>1, <1>7, <2>1
  <2>3. f[1] = path[1] /\ f[2] = "{id}"
    BY <1>13, <2>1, <2>2
  <2>4. f[3] = IF IsSnowflake(path[3]) THEN "{id}"
               ELSE IF 3 > 2 /\ f[3 - 2] \in Special /\ f[3 - 1] = "{id}" THEN "{token}"
               ELSE path[3]
    BY <1>12, <2>1
  <2>5. 3 > 2 /\ 3 - 2 = 1 /\ 3 - 1 = 2
    OBVIOUS
  <2>6. f[3 - 2] \in Special /\ f[3 - 1] = "{id}"
    BY <2>2, <2>3, <2>5
  <2> QED  BY <2>1, <2>4, <2>5, <2>6
<1>17. \A j \in DOMAIN path : ~IsSnowflake(path[j]) =>
          ((j > 2 /\ f[j - 2] \in Special /\ f[j - 1] = "{id}") <=> route[j] = "webhook_token")
  BY <1>9, <1>14, <1>15, <1>16
<1>18. \A j \in DOMAIN path : f[j] = kept(j)
  BY <1>12, <1>17, <1>3, <1>4, <1>5
<1> QED  BY <1>18 DEF f, path, kept, Shown

(* Two requests on one route share a bucket exactly if they differ in      *)
(* nothing but a minor parameter.                                          *)
LEMMA BucketTells ==
    ASSUME NEW method, NEW route, NEW params, Fills(DOMAIN params, route),
           ExpandError(route, params) = "none", NEW key \in DOMAIN params
    PROVE  (Bucket(method, route, [params EXCEPT ![key] = "another"])
               = Bucket(method, route, params))
              <=> key \notin {"channel_id", "guild_id", "webhook_id"}
<1> DEFINE major   == {"channel_id", "guild_id", "webhook_id"}
           changed == [params EXCEPT ![key] = "another"]
           part(p) == [i \in DOMAIN route |->
                          IF route[i] \in major /\ route[i] \in DOMAIN p
                          THEN p[route[i]] ELSE route[i]]
<1>1. /\ DOMAIN changed = DOMAIN params /\ changed[key] = "another"
      /\ \A name \in DOMAIN params : name # key => changed[name] = params[name]
  OBVIOUS
<1>2. \A p : Bucket(method, route, p) = <<method, part(p)>>
  BY DEF Bucket
<1>3. (Bucket(method, route, changed) = Bucket(method, route, params))
      <=> part(changed) = part(params)
  <2> HIDE DEF part, changed
  <2> QED  BY <1>2
<1>4. ASSUME key \notin major
      PROVE  part(changed) = part(params)
  <2> HIDE DEF changed
  <2> QED  BY <1>1, <1>4
<1>5. ASSUME key \in major
      PROVE  part(changed) # part(params)
  <2>1. PICK i \in Holes(route) : route[i] = key
    BY DEF Fills
  <2>2. i \in DOMAIN route /\ Fits(key, params[key])
    BY <2>1 DEF ExpandError, Holes
  <2>3. params[key] # "another"
    BY <1>5, <2>2, SnowflakesAssumption DEF Fits, IsSnowflake, IDNames
  <2> HIDE DEF changed
  <2>4. part(changed)[i] = "another" /\ part(params)[i] = params[key]
    BY <1>1, <1>5, <2>1, <2>2
  <2> QED  BY <2>3, <2>4
<1> QED  BY <1>3, <1>4, <1>5

(* The requests of a call left as Do makes them of their routes.           *)
WireInv ==
    tool # "request" => \A i \in 1 .. Len(sent) :
        LET r == sent[i].req
        IN  /\ ExpandError(r.route, r.params) = "none"
            /\ sent[i].path = Expand(r.route, r.params)
            /\ sent[i].bucket = Bucket(r.method, r.route, r.params)

LEMMA NextWireInv == CallInv /\ WireInv /\ [Next]_vars => WireInv'
<1> SUFFICES ASSUME CallInv, WireInv, [Next]_vars PROVE WireInv'
  OBVIOUS
<1>1. CASE UNCHANGED <<tool, sent>>
  BY <1>1 DEF WireInv
<1>2. ASSUME UNCHANGED tool, tool # "request", NEW r, Error(r) = "none",
             sent' = Append(sent, Wire(r))
      PROVE  WireInv'
  <2>1. /\ Wire(r).req = r /\ ExpandError(r.route, r.params) = "none"
        /\ Wire(r).path = Expand(r.route, r.params)
        /\ Wire(r).bucket = Bucket(r.method, r.route, r.params)
    BY <1>2 DEF Wire, Error
  <2>2. /\ Len(sent) \in Nat /\ Len(sent') = Len(sent) + 1
        /\ \A i \in 1 .. Len(sent) : sent'[i] = sent[i]
        /\ sent'[Len(sent) + 1] = Wire(r)
    BY <1>2, SendOne DEF CallInv
  <2> SUFFICES ASSUME NEW i \in 1 .. Len(sent')
               PROVE  LET q == sent'[i].req
                      IN  /\ ExpandError(q.route, q.params) = "none"
                          /\ sent'[i].path = Expand(q.route, q.params)
                          /\ sent'[i].bucket = Bucket(q.method, q.route, q.params)
    BY DEF WireInv
  <2>3. CASE i \in 1 .. Len(sent)
    BY <1>2, <2>2, <2>3 DEF WireInv
  <2>4. CASE i = Len(sent) + 1
    BY <2>1, <2>2, <2>4
  <2> QED  BY <2>2, <2>3, <2>4
<1>3. ASSUME Proceed, UNCHANGED tool
      PROVE  WireInv'
  <2>1. CASE tool = "request"
    BY <1>3, <2>1 DEF WireInv
  <2> QED  BY <1>1, <1>2, <1>3, <2>1 DEF Proceed
<1> QED  BY <1>1, <1>3 DEF Next, Give, LeaveOut, Refuse, Handle, Answered, Failed, vars

(* Of every request of every tool: its path has the segments of its route  *)
(* and no more, the audit log would show neither an ID nor a token of it,  *)
(* and its bucket is that of its major parameters.                         *)
THEOREM PathsAndBucketsHold == Spec => []RoutesHold
<1>1. Init => WireInv
  BY DEF Init, WireInv
<1>2. CallInv /\ WireInv => RoutesHold
  <2> SUFFICES ASSUME CallInv, WireInv, NEW i \in DOMAIN sent, tool # "request"
               PROVE  LET r == sent[i].req  path == sent[i].path  red == RedactRoute(path)
                      IN  /\ \A j \in DOMAIN path : path[j] # "a/b"
                          /\ \A j \in DOMAIN path :
                                red[j] = IF IsSnowflake(path[j]) THEN "{id}"
                                         ELSE IF r.route[j] = "webhook_token" THEN "{token}"
                                         ELSE path[j]
                          /\ \A key \in DOMAIN r.params :
                                LET other == Bucket(r.method, r.route,
                                                    [r.params EXCEPT ![key] = "another"])
                                IN  (other = sent[i].bucket)
                                       <=> key \notin {"channel_id", "guild_id", "webhook_id"}
    BY DEF RoutesHold
  <2> DEFINE requests == Def(tool, args).requests
             r        == sent[i].req
             path     == sent[i].path
  <2>1. IsSeq(sent) /\ DOMAIN sent = 1 .. Len(sent) /\ Len(sent) \in Nat /\ sent # <<>>
    BY DEF CallInv, IsSeq
  <2>2. Right(tool, args, requests) /\ r = requests[i] /\ Len(sent) <= Len(requests)
    BY <2>1, RequestsRight DEF CallInv, Asked
  <2>3. Fills(DOMAIN r.params, r.route)
    <3> HIDE DEF requests, r
    <3>1. Len(requests) \in Nat
      BY <2>2 DEF Right
    <3>2. i \in 1 .. Len(requests)
      BY <2>1, <2>2, <3>1
    <3> QED  BY <2>2, <3>2 DEF Right, NoMistake
  <2>4. /\ ExpandError(r.route, r.params) = "none" /\ path = Expand(r.route, r.params)
        /\ sent[i].bucket = Bucket(r.method, r.route, r.params)
    BY <2>1 DEF WireInv
  <2> HIDE DEF r, path
  <2>5. \A j \in DOMAIN path :
           RedactRoute(path)[j] = IF IsSnowflake(path[j]) THEN "{id}"
                                  ELSE IF r.route[j] = "webhook_token" THEN "{token}"
                                  ELSE path[j]
    <3>1. \A j \in DOMAIN Expand(r.route, r.params) :
             RedactRoute(Expand(r.route, r.params))[j]
                = Shown(Expand(r.route, r.params), r.route, j)
      BY <2>3, <2>4, RouteRedacted
    <3> QED  BY <3>1, <2>4 DEF Shown
  <2>6. \A j \in DOMAIN path : path[j] # "a/b"
    BY <2>3, <2>4, SegmentsWhole
  <2>7. \A key \in DOMAIN r.params :
           (Bucket(r.method, r.route, [r.params EXCEPT ![key] = "another"]) = sent[i].bucket)
              <=> key \notin {"channel_id", "guild_id", "webhook_id"}
    BY <2>3, <2>4, BucketTells
  <2> QED  BY <2>5, <2>6, <2>7 DEF r, path
<1> QED  BY <1>1, <1>2, NextWireInv, InvariantCallInv, PTL DEF Spec

-----------------------------------------------------------------------------
(* What a tool is told, argument by argument.                              *)
Askable(t, a) == DOMAIN a \subseteq DOMAIN Known(t) /\ \A key \in DOMAIN a : Sendable(key, a[key])

Told(arg, a, key) == Present(a, key) => Passes(arg, a[key])

There(a, key) == Present(a, key) /\ ~(a[key].k = "string" /\ Blank(a[key].s))

Values(a) == \A key : Present(a, key) => IsValue(a[key])

AllThere(t, a) == \A key \in Needs(t) : There(a, key)
AllTold(t, a)  == \A key \in DOMAIN Takes(t) : Told(Takes(t)[key], a, key)

(* The tools with a rule on several arguments that they do not tell.       *)
Silent == {"edit_channel", "send_dm", "webhook_edit_message"}

LEMMA ForeseenByKeys ==
    ASSUME NEW t, NEW a, Askable(t, a)
    PROVE  /\ Values(a)
           /\ Foreseen(t, a) <=>
                /\ AllThere(t, a) /\ AllTold(t, a) /\ Def(t, a).says /\ ~UntoldOf(t, a)
                /\ "embeds" \in DOMAIN Takes(t) /\ "attachments" \notin DOMAIN Takes(t) =>
                      ~Present(a, "attachments")
<1>1. Values(a)
  BY DEF Askable, Sendable, Values, Present
<1>2. \A key \in DOMAIN a : key \in DOMAIN Takes(t)
                           \/ (key = "attachments" /\ "embeds" \in DOMAIN Takes(t))
  BY DEF Askable, Known, Files, ++
<1>3. (\A key \in DOMAIN a : Present(a, key) =>
         key \in DOMAIN Takes(t) /\ Passes(Takes(t)[key], a[key]))
      <=> /\ AllTold(t, a)
          /\ "embeds" \in DOMAIN Takes(t) /\ "attachments" \notin DOMAIN Takes(t) =>
                ~Present(a, "attachments")
  BY <1>2 DEF Told, Present, AllTold
<1> QED  BY <1>1, <1>3 DEF Foreseen, There, AllThere

LEMMA ToldByKeys ==
    ASSUME NEW t, NEW a, Askable(t, a), t \notin Silent
    PROVE  /\ Values(a)
           /\ Foreseen(t, a) <=>
                /\ AllThere(t, a) /\ AllTold(t, a) /\ Def(t, a).says
                /\ "embeds" \in DOMAIN Takes(t) /\ "attachments" \notin DOMAIN Takes(t) =>
                      ~Present(a, "attachments")
<1>1. ~UntoldOf(t, a)
  BY DEF UntoldOf, Silent
<1> QED  BY <1>1, ForeseenByKeys

(* What the kinds of a value leave of it.                                  *)
LEMMA ValueKinds ==
    ASSUME NEW v, IsValue(v)
    PROVE  /\ v.k = "string" /\ v.s = "" => v = Str("")
           /\ v.k \in {"number", "list"} => v.n \in Nat
           /\ v.k = "number" => v.s \in {"whole", "fraction"}
           /\ v.k = "object" => v.s \in {"plain", "nested"}
           /\ v.k = "string" => v = Str(v.s)
<1>1. CASE v \in {Null, Bool(TRUE), Bool(FALSE), Obj("plain"), Obj("nested")}
  <2>1. Null.k = "null" /\ Bool(TRUE).k = "bool" /\ Bool(FALSE).k = "bool"
    BY DEF Null, Bool
  <2>2. \A of : Obj(of).k = "object" /\ Obj(of).s = of
    BY DEF Obj
  <2> QED  BY <1>1, <2>1, <2>2
<1>2. CASE v.n \in Nat /\ v \in {Str(v.s), Num(v.n), Half(v.n), List(v.n, v.s)}
  <2>1. \A s, n : /\ Num(n).k = "number" /\ Num(n).s = "whole"
                  /\ Half(n).k = "number" /\ Half(n).s = "fraction"
                  /\ List(n, s).k = "list"
    BY DEF Num, Half, List
  <2>2. \A s : Str(s).k = "string"
    BY DEF Str
  <2>3. v.k = "string" => v = Str(v.s)
    BY <1>2, <2>1
  <2>4. v.k # "object"
    BY <1>2, <2>1, <2>2
  <2>5. v.k = "number" => v.s \in {"whole", "fraction"}
    BY <1>2, <2>1, <2>2
  <2> QED  BY <1>2, <2>3, <2>4, <2>5
<1> QED  BY <1>1, <1>2 DEF IsValue

LEMMA EmptyText == Str("").k = "string" /\ Str("").s = ""
  BY DEF Str

(* What is said of values of the right type, for each sort of argument.    *)
LEMMA AdmitsByType ==
    ASSUME NEW arg, arg.k # "any", NEW v
    PROVE  Admits(arg, v) <=> v.k = arg.k /\ Suits(arg, v)
  BY DEF Admits

LEMMA IDSuits ==
    ASSUME NEW arg, arg.k # "list", arg.of = "id", NEW v
    PROVE  Suits(arg, v) <=> IsSnowflake(v.s)
  BY DEF Suits

LEMMA EnumSuits ==
    ASSUME NEW arg, arg.k # "list", arg.of = "enum", NEW v
    PROVE  Suits(arg, v) <=> v.s \in arg.texts
  BY DEF Suits

LEMMA ShortSuits ==
    ASSUME NEW arg, arg.k # "list", arg.of = "short", NEW v
    PROVE  Suits(arg, v) <=> v.s # "overlong"
  BY DEF Suits

LEMMA EmojiSuits ==
    ASSUME NEW arg, arg.k # "list", arg.of = "emoji", NEW v
    PROVE  Suits(arg, v) <=> v.s \in Emojis
  BY DEF Suits

LEMMA CursorSuits ==
    ASSUME NEW arg, arg.k # "list", arg.of = "cursor", NEW v
    PROVE  Suits(arg, v) <=> v.s \notin {"", "garbled"}
  BY DEF Suits

LEMMA RouteSuits ==
    ASSUME NEW arg, arg.k # "list", arg.of = "route", NEW v
    PROVE  Suits(arg, v) <=> /\ v.s \in DOMAIN Paths /\ Paths[v.s].begins = "/"
                             /\ "?" \notin Paths[v.s].odd
  BY DEF Suits

LEMMA ArchiveSuits ==
    ASSUME NEW arg, arg.k # "list", arg.of = "archive", NEW v
    PROVE  Suits(arg, v) <=> v.s = "whole" /\ v.n \in {60, 1440, 4320, 10080}
  BY DEF Suits

LEMMA RangeSuits ==
    ASSUME NEW arg, arg.k # "list", arg.of = "range", NEW v
    PROVE  Suits(arg, v) <=> v.n \in arg.lo .. arg.hi /\ (v.s = "fraction" => v.n < arg.hi)
  BY DEF Suits

LEMMA AllSuit ==
    ASSUME NEW arg, arg.k # "list", arg.of \in {"text", "any"}, NEW v
    PROVE  Suits(arg, v)
  BY DEF Suits

LEMMA EmbedsSuit ==
    ASSUME NEW arg, arg.of = "object", NEW v, Suits(arg, v), arg.k = "list"
    PROVE  v.n <= arg.hi
  BY DEF Suits

LEMMA FilesSuit ==
    ASSUME NEW arg, arg.k = "list", arg.of = "file", NEW v
    PROVE  Suits(arg, v) <=> v.n <= arg.hi /\ (v.n = 0 \/ v.s = "file" \/ v.s = "oddfile")
  BY DEF Suits

LEMMA TypesSuit ==
    ASSUME NEW arg, arg.k = "list", arg.of = "text", NEW v
    PROVE  Suits(arg, v) <=> v.n = 0 \/ v.s = "text"
  BY DEF Suits

(* A text that is no route, a flag and a list that is not of files are     *)
(* looked at as told; of what is told of a flag, a number or an object     *)
(* nothing goes unchecked.                                                 *)
LEMMA NothingUntold ==
    ASSUME NEW arg, arg.k \in {"string", "bool", "list", "any"}, arg.of \notin {"file", "route"},
           NEW v
    PROVE  ~Untold(arg, v)
  BY DEF Untold

LEMMA RouteUntold ==
    ASSUME NEW arg, arg.k = "string", arg.of = "route", NEW v, v.s \in DOMAIN Paths
    PROVE  Untold(arg, v) <=>
              \/ Paths[v.s].odd \ {"?"} # {}
              \/ \E i \in DOMAIN Paths[v.s].segs : BadSegment(Paths[v.s].segs[i])
  BY DEF Untold

LEMMA NothingUnchecked ==
    ASSUME NEW arg, arg.k # "string", arg.of \notin {"short", "object", "emoji"}, NEW v
    PROVE  ~Unchecked(arg, v)
  BY DEF Unchecked

LEMMA TextPasses ==
    ASSUME NEW arg, arg.k = "string", arg.of \notin {"short", "emoji", "route", "file", "object"},
           NEW v
    PROVE  Passes(arg, v) <=> Admits(arg, v) \/ v = Str("")
<1>1. ~Untold(arg, v)
  BY NothingUntold
<1>2. Unchecked(arg, v) <=> v = Str("")
  BY DEF Unchecked
<1> QED  BY <1>1, <1>2 DEF Passes

(* Each kind of argument is told as the accessor for it checks it.         *)
LEMMA TextsTold ==
    ASSUME NEW a, Values(a), NEW key
    PROVE  /\ Told(IDArg, a, key) <=> MayID(a, key)
           /\ There(a, key) /\ Told(IDArg, a, key) <=> HasID(a, key)
           /\ Told(TextArg, a, key) <=> IsText(a, key)
           /\ There(a, key) /\ Told(TextArg, a, key) <=> HasText(a, key)
           /\ Told(ShortArg, a, key) <=> Told(TextArg, a, key)
<1>1. /\ Present(a, key) => (a[key].k = "string" /\ a[key].s = "" => a[key] = Str(""))
      /\ Str("").k = "string" /\ Str("").s = ""
  BY ValueKinds, EmptyText DEF Values
<1>2. /\ IDArg.k = "string" /\ IDArg.of = "id" /\ TextArg.k = "string" /\ TextArg.of = "text"
      /\ ShortArg.k = "string" /\ ShortArg.of = "short"
  BY DEF IDArg, TextArg, ShortArg, TextLike, Arg
<1>3. \A s : Blank(s) <=> s = "" \/ s = " "
  BY DEF Blank
<1>4. ~IsSnowflake("") /\ ~IsSnowflake(" ")
  BY SnowflakesAssumption DEF IsSnowflake
<1>5. \A v : Passes(IDArg, v) <=> v = Str("") \/ (v.k = "string" /\ IsSnowflake(v.s))
  <2>1. \A v : Admits(IDArg, v) <=> v.k = "string" /\ IsSnowflake(v.s)
    BY <1>2, AdmitsByType, IDSuits
  <2> QED  BY <1>2, <2>1, TextPasses
<1>6. \A v : Passes(TextArg, v) <=> v.k = "string"
  <2>1. \A v : Admits(TextArg, v) <=> v.k = "string"
    BY <1>2, AdmitsByType, AllSuit
  <2> QED  BY <1>1, <1>2, <2>1, TextPasses
<1>7. Told(IDArg, a, key) <=> MayID(a, key)
  BY <1>1, <1>5 DEF Told, MayID, CheckID
<1>8. There(a, key) /\ Told(IDArg, a, key) <=> HasID(a, key)
  BY <1>1, <1>3, <1>4, <1>5 DEF Told, There, HasID, CheckID
<1>9. Told(TextArg, a, key) <=> IsText(a, key)
  BY <1>6 DEF Told, IsText
<1>10. There(a, key) /\ Told(TextArg, a, key) <=> HasText(a, key)
  BY <1>3, <1>6 DEF Told, There, HasText, IsText, Text
<1>11. Told(ShortArg, a, key) <=> Told(TextArg, a, key)
  <2>1. \A v : Admits(ShortArg, v) <=> v.k = "string" /\ v.s # "overlong"
    BY <1>2, AdmitsByType, ShortSuits
  <2>2. \A v : Unchecked(ShortArg, v) <=> v = Str("") \/ v = Str("overlong")
    BY <1>2 DEF Unchecked
  <2>3. Str("overlong").k = "string" /\ Str("overlong").s = "overlong"
    BY DEF Str
  <2>4. \A v : ~Untold(ShortArg, v)
    BY <1>2, NothingUntold
  <2>5. Present(a, key) /\ a[key].k = "string" => a[key] = Str(a[key].s)
    BY ValueKinds DEF Values
  <2>6. Present(a, key) => (Passes(ShortArg, a[key]) <=> a[key].k = "string")
    BY <1>1, <2>1, <2>2, <2>3, <2>4, <2>5 DEF Passes
  <2> QED  BY <1>6, <2>6 DEF Told
<1> QED  BY <1>7, <1>8, <1>9, <1>10, <1>11

LEMMA EnumTold ==
    ASSUME NEW a, Values(a), NEW key, NEW texts
    PROVE  Told(Enum(texts), a, key) <=> IsText(a, key) /\ Text(a, key) \in texts \cup {""}
<1>1. /\ Present(a, key) => (a[key].k = "string" /\ a[key].s = "" => a[key] = Str(""))
      /\ Str("").k = "string" /\ Str("").s = ""
  BY ValueKinds, EmptyText DEF Values
<1>2. Enum(texts).k = "string" /\ Enum(texts).of = "enum" /\ Enum(texts).texts = texts
  BY DEF Enum, Arg
<1>3. \A v : Passes(Enum(texts), v) <=> v = Str("") \/ (v.k = "string" /\ v.s \in texts)
  <2>1. \A v : Admits(Enum(texts), v) <=> v.k = "string" /\ v.s \in texts
    BY <1>2, AdmitsByType, EnumSuits
  <2> QED  BY <1>2, <2>1, TextPasses
<1> QED  BY <1>1, <1>3 DEF Told, IsText, Text

LEMMA FormatTold ==
    ASSUME NEW a, Values(a)
    PROVE  Told(Enum({"text", "json"}), a, "format") <=> FormatOK(a)
<1>1. Told(Enum({"text", "json"}), a, "format")
         <=> IsText(a, "format") /\ Text(a, "format") \in {"text", "json"} \cup {""}
  BY EnumTold
<1> QED  BY <1>1 DEF FormatOK

LEMMA NumbersTold ==
    ASSUME NEW a, Values(a), NEW key, NEW lo, NEW hi
    PROVE  Told(IntArg(lo, hi), a, key) <=> IsInt(a, key, lo, hi)
<1>1. /\ IntArg(lo, hi).k = "number" /\ IntArg(lo, hi).of = "range"
      /\ IntArg(lo, hi).lo = lo /\ IntArg(lo, hi).hi = hi
  BY DEF IntArg, Arg
<1>2. \A v : Passes(IntArg(lo, hi), v)
                <=> v.k = "number" /\ v.s # "fraction" /\ v.n \in lo .. hi
  <2>1. \A v : Admits(IntArg(lo, hi), v)
                  <=> v.k = "number" /\ v.n \in lo .. hi /\ (v.s = "fraction" => v.n < hi)
    BY <1>1, AdmitsByType, RangeSuits
  <2>2. \A v : ~Unchecked(IntArg(lo, hi), v)
    BY <1>1, NothingUnchecked
  <2>3. \A v : Untold(IntArg(lo, hi), v) <=> v.s = "fraction"
    BY <1>1 DEF Untold
  <2> QED  BY <2>1, <2>2, <2>3 DEF Passes
<1>3. Present(a, key) /\ a[key].k = "number" => a[key].s \in {"whole", "fraction"}
  BY ValueKinds DEF Values
<1> QED  BY <1>2, <1>3 DEF Told, IsInt

LEMMA PositionTold ==
    ASSUME NEW a, Values(a), NEW key
    PROVE  Told(NumberArg, a, key) <=> IsInt(a, key, 0, 10000)
<1> DEFINE lo == 0
           hi == 10000
<1>1. NumberArg.k = "number" /\ NumberArg.of = "any"
  BY DEF NumberArg, Arg
<1>2. \A v : Admits(NumberArg, v) <=> v.k = "number"
  BY <1>1, AdmitsByType, AllSuit
<1>3. \A v : Untold(NumberArg, v) <=> v.s = "fraction" \/ v.n > hi
  BY <1>1 DEF Untold
<1>4. \A v : ~Unchecked(NumberArg, v)
  BY <1>1, NothingUnchecked
<1>5. Present(a, key) /\ a[key].k = "number" => a[key].s \in {"whole", "fraction"} /\ a[key].n \in Nat
  BY ValueKinds DEF Values
<1>6. lo = 0 /\ hi \in Nat
  OBVIOUS
<1> HIDE DEF lo, hi
<1>7. Told(NumberArg, a, key) <=> IsInt(a, key, lo, hi)
  <2>1. CASE Present(a, key) /\ a[key].k = "number"
    <3>1. a[key].n \in lo .. hi <=> ~(a[key].n > hi)
      BY <1>5, <1>6, <2>1
    <3> QED  BY <1>2, <1>3, <1>4, <1>5, <2>1, <3>1 DEF Told, Passes, IsInt
  <2>2. CASE ~(Present(a, key) /\ a[key].k = "number")
    BY <1>2, <1>4, <2>2 DEF Told, Passes, IsInt
  <2> QED  BY <2>1, <2>2
<1> QED  BY <1>7 DEF lo, hi

(* What Passes comes to for one sort of argument.                          *)
LEMMA EmbedsPass ==
    ASSUME NEW arg, arg.k = "list", arg.of = "object", NEW v
    PROVE  Passes(arg, v) <=> v.k = "list" /\ v.n <= arg.hi
<1>1. ~Untold(arg, v)
  BY NothingUntold
<1>2. Unchecked(arg, v) <=> v.k = "list" /\ v.n <= arg.hi
  BY DEF Unchecked
<1>3. Admits(arg, v) => v.k = "list" /\ v.n <= arg.hi
  BY AdmitsByType, EmbedsSuit
<1> QED  BY <1>1, <1>2, <1>3 DEF Passes

LEMMA FilesPass ==
    ASSUME NEW arg, arg.k = "list", arg.of = "file", NEW v, v.k = "list" => v.n \in Nat
    PROVE  Passes(arg, v) <=> v.k = "list" /\ v.n <= arg.hi /\ (v.s = "file" \/ v.n = 0)
<1>1. ~Unchecked(arg, v)
  BY NothingUnchecked
<1>2. Admits(arg, v) <=>
         v.k = "list" /\ v.n <= arg.hi /\ (v.n = 0 \/ v.s = "file" \/ v.s = "oddfile")
  BY AdmitsByType, FilesSuit
<1>3. v.k = "list" => (Untold(arg, v) <=> v.n # 0 /\ v.s = "oddfile")
  BY DEF Untold
<1> QED  BY <1>1, <1>2, <1>3 DEF Passes

LEMMA TypesPass ==
    ASSUME NEW arg, arg.k = "list", arg.of = "text", NEW v
    PROVE  Passes(arg, v) <=> v.k = "list" /\ (v.s = "text" \/ v.n = 0)
<1>1. ~Unchecked(arg, v) /\ ~Untold(arg, v)
  BY NothingUnchecked, NothingUntold
<1>2. Admits(arg, v) <=> v.k = "list" /\ (v.s = "text" \/ v.n = 0)
  BY AdmitsByType, TypesSuit
<1> QED  BY <1>1, <1>2 DEF Passes

LEMMA QueryPasses ==
    ASSUME NEW arg, arg.k = "object", arg.of = "any", NEW v
    PROVE  Passes(arg, v) <=> v.k = "object" /\ v.s # "nested"
<1>1. ~Unchecked(arg, v) /\ (Untold(arg, v) <=> v.s = "nested")
  BY NothingUnchecked DEF Untold
<1>2. Admits(arg, v) <=> v.k = "object"
  BY AdmitsByType, AllSuit
<1> QED  BY <1>1, <1>2 DEF Passes

LEMMA CursorPasses ==
    ASSUME NEW arg, arg.k = "string", arg.of = "cursor", NEW v
    PROVE  Passes(arg, v) <=> v = Str("") \/ (v.k = "string" /\ v.s \notin {"", "garbled"})
<1>1. Admits(arg, v) <=> v.k = "string" /\ v.s \notin {"", "garbled"}
  BY AdmitsByType, CursorSuits
<1> QED  BY <1>1, TextPasses

LEMMA EmojiPasses ==
    ASSUME NEW arg, arg.k = "string", arg.of = "emoji", NEW v
    PROVE  Passes(arg, v) <=> v.k = "string" /\ v.s # "overlong"
<1>1. ~Untold(arg, v)
  BY NothingUntold
<1>2. Unchecked(arg, v) <=> v.k = "string" /\ v.s # "overlong"
  BY EmptyText DEF Unchecked
<1>3. Admits(arg, v) => v.k = "string" /\ v.s # "overlong"
  <2>1. Admits(arg, v) => v.k = "string" /\ v.s \in Emojis
    BY AdmitsByType, EmojiSuits
  <2>2. "overlong" \notin Emojis
    BY DEF Emojis
  <2> QED  BY <2>1, <2>2
<1> QED  BY <1>1, <1>2, <1>3 DEF Passes

LEMMA RoutePasses ==
    ASSUME NEW arg, arg.k = "string", arg.of = "route", NEW v, v.s # ""
    PROVE  Passes(arg, v) <=> v.k = "string" /\ v.s \in DOMAIN Paths /\ RawOK("GET", v.s)
<1>1. ~Unchecked(arg, v)
  BY EmptyText DEF Unchecked
<1>2. Admits(arg, v) <=> /\ v.k = "string" /\ v.s \in DOMAIN Paths
                         /\ Paths[v.s].begins = "/" /\ "?" \notin Paths[v.s].odd
  BY AdmitsByType, RouteSuits
<1>3. v.s \in DOMAIN Paths =>
         (Untold(arg, v) <=> \/ Paths[v.s].odd \ {"?"} # {}
                             \/ \E i \in DOMAIN Paths[v.s].segs : BadSegment(Paths[v.s].segs[i]))
  BY RouteUntold
<1>4. RawOK("GET", v.s) <=>
         /\ Paths[v.s].begins = "/" /\ "?" \notin Paths[v.s].odd /\ Paths[v.s].odd \ {"?"} = {}
         /\ ~\E i \in DOMAIN Paths[v.s].segs : BadSegment(Paths[v.s].segs[i])
  <2>1. Paths[v.s].odd = {} <=> "?" \notin Paths[v.s].odd /\ Paths[v.s].odd \ {"?"} = {}
    OBVIOUS
  <2> QED  BY <2>1 DEF RawOK, RawMethods
<1> QED  BY <1>1, <1>2, <1>3, <1>4 DEF Passes

LEMMA ArchivePasses ==
    ASSUME NEW arg, arg.k = "number", arg.of = "archive", NEW v
    PROVE  Passes(arg, v) <=> v.k = "number" /\ v.s = "whole" /\ v.n \in {60, 1440, 4320, 10080}
<1>1. ~Unchecked(arg, v) /\ (Untold(arg, v) <=> v.s = "fraction")
  BY NothingUnchecked DEF Untold
<1>2. Admits(arg, v) <=> v.k = "number" /\ v.s = "whole" /\ v.n \in {60, 1440, 4320, 10080}
  BY AdmitsByType, ArchiveSuits
<1> QED  BY <1>1, <1>2 DEF Passes

LEMMA OthersTold ==
    ASSUME NEW a, Values(a), NEW key
    PROVE  /\ Told(BoolArg, a, key) <=> IsBool(a, key)
           /\ Told(ListArg("object", 10), a, key) <=> IsList(a, key, 10)
           /\ Told(ListArg("file", 10), a, "attachments") <=> AttachmentsOK(a)
           /\ Told(ListArg("text", 1), a, key) <=> IsStringList(a, key)
           /\ Told(ObjArg, a, "query")
                 <=> IsObject(a, "query") /\ Text(a, "query") \in {"", "plain"}
           /\ Told(AnyArg, a, key)
           /\ Told(TextLike("cursor"), a, "cursor") <=> CursorOK(a)
<1>1. /\ BoolArg.k = "bool" /\ BoolArg.of = "any"
      /\ ObjArg.k = "object" /\ ObjArg.of = "any" /\ AnyArg.k = "any" /\ AnyArg.of = "any"
      /\ TextLike("cursor").k = "string" /\ TextLike("cursor").of = "cursor"
  BY DEF BoolArg, ObjArg, AnyArg, TextLike, Arg
<1>2. /\ ListArg("object", 10).k = "list" /\ ListArg("object", 10).of = "object"
      /\ ListArg("object", 10).hi = 10
      /\ ListArg("file", 10).k = "list" /\ ListArg("file", 10).of = "file"
      /\ ListArg("file", 10).hi = 10
      /\ ListArg("text", 1).k = "list" /\ ListArg("text", 1).of = "text"
  BY DEF ListArg, Arg
<1>3. \A x : Present(a, x) /\ a[x].k = "object" => a[x].s \in {"plain", "nested"}
  BY ValueKinds DEF Values
<1>4. \A x : Present(a, x) /\ a[x].k = "list" => a[x].n \in Nat
  BY ValueKinds DEF Values
<1>5. Told(BoolArg, a, key) <=> IsBool(a, key)
  <2>1. \A v : Passes(BoolArg, v) <=> v.k = "bool"
    BY <1>1, NothingUntold, NothingUnchecked, AdmitsByType, AllSuit DEF Passes
  <2> QED  BY <2>1 DEF Told, IsBool
<1>6. Told(ListArg("object", 10), a, key) <=> IsList(a, key, 10)
  <2>1. Passes(ListArg("object", 10), a[key]) <=> a[key].k = "list" /\ a[key].n <= 10
    BY <1>2, EmbedsPass
  <2> QED  BY <2>1 DEF Told, IsList
<1>7. Told(ListArg("file", 10), a, "attachments") <=> AttachmentsOK(a)
  <2>1. Present(a, "attachments") =>
           (Passes(ListArg("file", 10), a["attachments"]) <=>
              /\ a["attachments"].k = "list" /\ a["attachments"].n <= 10
              /\ a["attachments"].s = "file" \/ a["attachments"].n = 0)
    BY <1>2, <1>4, FilesPass
  <2>2. Told(ListArg("file", 10), a, "attachments") <=>
           (Present(a, "attachments") =>
              /\ a["attachments"].k = "list" /\ a["attachments"].n <= 10
              /\ a["attachments"].s = "file" \/ a["attachments"].n = 0)
    BY <2>1 DEF Told
  <2>3. CASE Present(a, "attachments") /\ a["attachments"].k = "list"
    <3>1. a["attachments"].n \in Nat
      BY <1>4, <2>3
    <3> QED  BY <2>2, <2>3, <3>1 DEF AttachmentsOK, IsList, Len_
  <2>4. CASE Present(a, "attachments") /\ a["attachments"].k # "list"
    BY <2>2, <2>4 DEF AttachmentsOK, IsList
  <2>5. CASE ~Present(a, "attachments")
    BY <2>2, <2>5 DEF AttachmentsOK, IsList, Len_
  <2> QED  BY <2>3, <2>4, <2>5
<1>8. Told(ListArg("text", 1), a, key) <=> IsStringList(a, key)
  <2>1. Passes(ListArg("text", 1), a[key])
           <=> a[key].k = "list" /\ (a[key].s = "text" \/ a[key].n = 0)
    BY <1>2, TypesPass
  <2> QED  BY <2>1 DEF Told, IsStringList
<1>9. Told(ObjArg, a, "query") <=> IsObject(a, "query") /\ Text(a, "query") \in {"", "plain"}
  <2>1. Passes(ObjArg, a["query"]) <=> a["query"].k = "object" /\ a["query"].s # "nested"
    BY <1>1, QueryPasses
  <2> QED  BY <1>3, <2>1 DEF Told, IsObject, Text
<1>10. Told(AnyArg, a, key)
  <2>1. \A v : Admits(AnyArg, v) /\ ~Untold(AnyArg, v)
    BY <1>1, NothingUntold DEF Admits
  <2> QED  BY <2>1 DEF Told, Passes
<1>11. Told(TextLike("cursor"), a, "cursor") <=> CursorOK(a)
  <2>1. Passes(TextLike("cursor"), a["cursor"]) <=>
           a["cursor"] = Str("") \/ (a["cursor"].k = "string" /\ a["cursor"].s \notin {"", "garbled"})
    BY <1>1, CursorPasses
  <2>2. Present(a, "cursor") =>
           (a["cursor"].k = "string" /\ a["cursor"].s = "" => a["cursor"] = Str(""))
    BY ValueKinds DEF Values
  <2> QED  BY <2>1, <2>2, EmptyText DEF Told, CursorOK, IsText, Text
<1> QED  BY <1>5, <1>6, <1>7, <1>8, <1>9, <1>10, <1>11

(* A message, where files may come with it and where they may not.         *)
LEMMA MessageTold ==
    ASSUME NEW a, Values(a)
    PROVE  /\ PayloadOK(a, TRUE) <=>
                /\ Told(TextArg, a, "content") /\ Told(ListArg("object", 10), a, "embeds")
                /\ Told(BoolArg, a, "allow_mentions")
                /\ Told(ListArg("file", 10), a, "attachments") /\ SaysBody(a)
           /\ PayloadOK(a, FALSE) <=>
                /\ Told(TextArg, a, "content") /\ Told(ListArg("object", 10), a, "embeds")
                /\ Told(BoolArg, a, "allow_mentions") /\ ~Present(a, "attachments") /\ SaysBody(a)
           /\ Told(ShortArg, a, "content") <=> Told(TextArg, a, "content")
<1>1. ~Present(a, "attachments") => AttachmentsOK(a)
  BY DEF AttachmentsOK, IsList, Len_
<1>2. /\ Told(TextArg, a, "content") <=> IsText(a, "content")
      /\ Told(ShortArg, a, "content") <=> Told(TextArg, a, "content")
      /\ Told(ListArg("object", 10), a, "embeds") <=> IsList(a, "embeds", 10)
      /\ Told(BoolArg, a, "allow_mentions") <=> IsBool(a, "allow_mentions")
      /\ Told(ListArg("file", 10), a, "attachments") <=> AttachmentsOK(a)
  BY TextsTold, OthersTold
<1> QED  BY <1>1, <1>2 DEF PayloadOK, SaysBody

(* An argument that is needed, of a kind no blank text is.                 *)
LEMMA FlagNeeded ==
    ASSUME NEW a, Values(a), NEW key
    PROVE  There(a, key) /\ Told(BoolArg, a, key) <=> Present(a, key) /\ IsBool(a, key)
<1>1. Told(BoolArg, a, key) <=> IsBool(a, key)
  BY OthersTold
<1> QED  BY <1>1 DEF There, IsBool

LEMMA NumberNeeded ==
    ASSUME NEW a, Values(a), NEW key, NEW lo, NEW hi
    PROVE  There(a, key) /\ Told(IntArg(lo, hi), a, key)
              <=> Present(a, key) /\ IsInt(a, key, lo, hi)
<1>1. Told(IntArg(lo, hi), a, key) <=> IsInt(a, key, lo, hi)
  BY NumbersTold
<1> QED  BY <1>1 DEF There, IsInt

(* An emoji, as it goes into the path.                                     *)
EmojiFits(a) == Fits("emoji", NormalizeEmoji(Text(a, "emoji")))

LEMMA EmojiTold ==
    ASSUME NEW a, Values(a)
    PROVE  There(a, "emoji") /\ Told(TextLike("emoji"), a, "emoji")
              <=> HasText(a, "emoji") /\ EmojiFits(a)
<1>1. TextLike("emoji").k = "string" /\ TextLike("emoji").of = "emoji"
  BY DEF TextLike, Arg
<1>2. Passes(TextLike("emoji"), a["emoji"])
         <=> a["emoji"].k = "string" /\ a["emoji"].s # "overlong"
  BY <1>1, EmojiPasses
<1>3. \A s : s # "" => (Fits("emoji", NormalizeEmoji(s)) <=> s # "overlong")
  <2>1. \A v : Fits("emoji", v) <=> v \notin {"", "overlong"}
    BY DEF Fits, IDNames
  <2>2. \A s : s # "" => (NormalizeEmoji(s) \in {"", "overlong"} <=> s = "overlong")
    BY DEF NormalizeEmoji
  <2> QED  BY <2>1, <2>2
<1>4. \A s : ~Blank(s) => s # ""
  BY DEF Blank
<1>5. Blank("")
  BY DEF Blank
<1> QED
  BY <1>1, <1>2, <1>3, <1>4, <1>5, EmptyText DEF There, Told, HasText, IsText, Text, EmojiFits

(* A number that is one of few.                                            *)
LEMMA OneOfTold ==
    ASSUME NEW a, NEW key, NEW arg, arg.k = "number",
           NEW lo \in Int, NEW hi \in Int, NEW few, NEW def \in few,
           \A n \in few : n \in Int /\ lo <= n /\ n <= hi,
           \A v : Passes(arg, v) <=> v.k = "number" /\ v.s = "whole" /\ v.n \in few
    PROVE  Told(arg, a, key) <=> IsInt(a, key, lo, hi) /\ IntOr(a, key, def) \in few
<1>1. few \subseteq lo .. hi
  OBVIOUS
<1>2. CASE Present(a, key)
  <2>1. Told(arg, a, key) <=> Passes(arg, a[key])
    BY <1>2 DEF Told
  <2>2. /\ IsInt(a, key, lo, hi)
           <=> a[key].k = "number" /\ a[key].s = "whole" /\ a[key].n \in lo .. hi
        /\ IntOr(a, key, def) = a[key].n
    BY <1>2 DEF IsInt, IntOr
  <2> QED  BY <1>1, <2>1, <2>2
<1>3. CASE ~Present(a, key)
  BY <1>3 DEF Told, IsInt, IntOr
<1> QED  BY <1>2, <1>3

LEMMA ArchiveTold ==
    ASSUME NEW a
    PROVE  Told(Arg("number", "archive", {}, 60, 10080), a, "auto_archive_minutes")
              <=> /\ IsInt(a, "auto_archive_minutes", 60, 10080)
                  /\ IntOr(a, "auto_archive_minutes", 1440) \in {60, 1440, 4320, 10080}
<1> DEFINE arg == Arg("number", "archive", {}, 60, 10080)
           few == {60, 1440, 4320, 10080}
           key == "auto_archive_minutes"
           lo  == 60
           hi  == 10080
           def == 1440
<1>1. arg.k = "number" /\ arg.of = "archive"
  BY DEF Arg
<1>2. /\ lo \in Int /\ hi \in Int /\ def \in few
      /\ \A n \in few : n \in Int /\ lo <= n /\ n <= hi
  OBVIOUS
<1> HIDE DEF arg
<1>3. \A v : Passes(arg, v) <=> v.k = "number" /\ v.s = "whole" /\ v.n \in few
  BY <1>1, ArchivePasses
<1> HIDE DEF few, key, lo, hi, def
<1>4. Told(arg, a, key) <=> IsInt(a, key, lo, hi) /\ IntOr(a, key, def) \in few
  BY <1>1, <1>2, <1>3, OneOfTold
<1> QED  BY <1>4 DEF arg, few, key, lo, hi, def

-----------------------------------------------------------------------------
(* Tool by tool: the handler accepts what is foreseen.                     *)
LEMMA ReadsTold ==
    ASSUME NEW t, t \notin Silent, NEW a, Askable(t, a), NEW keys, keys \subseteq IDNames, NEW route,
           Def(t, a) = Reads(a, keys, route), Needs(t) = Reads(<<>>, keys, route).needs,
           Takes(t) = Reads(<<>>, keys, route).takes
    PROVE  Def(t, a).accepts <=> Foreseen(t, a)
<1> DEFINE ok == FormatOK(a) /\ \A key \in keys : HasID(a, key)
<1>1. "format" \notin keys /\ "embeds" \notin keys
  BY DEF IDNames
<1>2. Def(t, a).accepts = ok /\ Def(t, a).says = TRUE /\ Needs(t) = keys
  BY DEF Reads, Tool
<1>3. /\ DOMAIN Takes(t) = keys \cup {"format"} /\ Takes(t).format = Enum({"text", "json"})
      /\ \A key \in keys : Takes(t)[key] = IDArg
  BY <1>1 DEF Reads, Tool, IDArgs, Format, ++
<1> HIDE DEF ok
<1>4. Values(a)
  BY ToldByKeys
<1>5. AllThere(t, a) /\ AllTold(t, a)
         <=> /\ \A key \in keys : There(a, key) /\ Told(IDArg, a, key)
             /\ Told(Enum({"text", "json"}), a, "format")
  BY <1>2, <1>3 DEF AllThere, AllTold
<1>6. Told(Enum({"text", "json"}), a, "format") <=> FormatOK(a)
  BY <1>4, FormatTold
<1>7. \A key : There(a, key) /\ Told(IDArg, a, key) <=> HasID(a, key)
  BY <1>4, TextsTold
<1>8. Foreseen(t, a) <=> AllThere(t, a) /\ AllTold(t, a)
  BY <1>1, <1>2, <1>3, ToldByKeys
<1> QED  BY <1>2, <1>5, <1>6, <1>7, <1>8 DEF ok

LEMMA DoesTold ==
    ASSUME NEW t, t \notin Silent, NEW a, Askable(t, a), NEW keys, keys \subseteq IDNames, NEW hint, NEW method,
           NEW route, Def(t, a) = Does(hint, a, keys, method, route),
           Needs(t) = Does(hint, <<>>, keys, method, route).needs,
           Takes(t) = Does(hint, <<>>, keys, method, route).takes
    PROVE  Def(t, a).accepts <=> Foreseen(t, a)
<1> DEFINE ok == (\A key \in keys : HasID(a, key)) /\ ReasonOK(a)
<1>1. "reason" \notin keys /\ "embeds" \notin keys
  BY DEF IDNames
<1>2. Def(t, a).accepts = ok /\ Def(t, a).says = TRUE /\ Needs(t) = keys
  BY DEF Does, Tool
<1>3. /\ DOMAIN Takes(t) = keys \cup {"reason"} /\ Takes(t).reason = TextArg
      /\ \A key \in keys : Takes(t)[key] = IDArg
  BY <1>1 DEF Does, Tool, IDArgs, Reason, ++
<1> HIDE DEF ok
<1>4. Values(a)
  BY ToldByKeys
<1>5. AllThere(t, a) /\ AllTold(t, a)
         <=> /\ \A key \in keys : There(a, key) /\ Told(IDArg, a, key)
             /\ Told(TextArg, a, "reason")
  BY <1>2, <1>3 DEF AllThere, AllTold
<1>6. Told(TextArg, a, "reason") <=> ReasonOK(a)
  BY <1>4, TextsTold DEF ReasonOK
<1>7. \A key : There(a, key) /\ Told(IDArg, a, key) <=> HasID(a, key)
  BY <1>4, TextsTold
<1>8. Foreseen(t, a) <=> AllThere(t, a) /\ AllTold(t, a)
  BY <1>1, <1>2, <1>3, ToldByKeys
<1> QED  BY <1>2, <1>5, <1>6, <1>7, <1>8 DEF ok

LEMMA GetMeTold ==
    ASSUME NEW a, Askable("get_me", a)
    PROVE  Def("get_me", a).accepts <=> Foreseen("get_me", a)
<1> DEFINE ok == FormatOK(a)
<1>1. /\ Def("get_me", a) = GetMe(a)
      /\ Needs("get_me") = GetMe(<<>>).needs
      /\ Takes("get_me") = GetMe(<<>>).takes
  BY DEF Def, Needs, Takes
<1>2. GetMe(a).accepts = ok /\ GetMe(a).says = TRUE
  BY DEF GetMe, Tool
<1>3. /\ GetMe(<<>>).needs = {}
      /\ DOMAIN GetMe(<<>>).takes = {"format"}
  BY DEF GetMe, Tool, Format
<1>4. GetMe(<<>>).takes.format = Enum({"text", "json"})
  BY DEF GetMe, Tool, Format
<1> HIDE DEF ok
<1>5. AllThere("get_me", a)
  BY <1>1, <1>3 DEF AllThere
<1>6. AllTold("get_me", a) <=>
         Told(Enum({"text", "json"}), a, "format")
  BY <1>1, <1>3, <1>4 DEF AllTold
<1>7. Values(a)
  BY ToldByKeys DEF Silent
<1>8. Told(Enum({"text", "json"}), a, "format") <=> FormatOK(a)
  BY <1>7, FormatTold
<1>9. "embeds" \notin DOMAIN Takes("get_me")
  BY <1>1, <1>3
<1>10. Foreseen("get_me", a) <=>
         AllThere("get_me", a) /\ AllTold("get_me", a)
  BY <1>1, <1>2, <1>9, ToldByKeys DEF Silent
<1>11. Def("get_me", a).accepts <=> ok
  BY <1>1, <1>2
<1> QED
  BY <1>5, <1>6, <1>8, <1>10, <1>11 DEF ok

LEMMA ListGuildsTold ==
    ASSUME NEW a, Askable("list_guilds", a)
    PROVE  Def("list_guilds", a).accepts <=> Foreseen("list_guilds", a)
<1> DEFINE ok == FormatOK(a) /\ MayID(a, "after") /\ IsInt(a, "limit", 1, 200)
<1>1. /\ Def("list_guilds", a) = ListGuilds(a)
      /\ Needs("list_guilds") = ListGuilds(<<>>).needs
      /\ Takes("list_guilds") = ListGuilds(<<>>).takes
  BY DEF Def, Needs, Takes
<1>2. ListGuilds(a).accepts = ok /\ ListGuilds(a).says = TRUE
  BY DEF ListGuilds, Tool
<1>3. /\ ListGuilds(<<>>).needs = {}
      /\ DOMAIN ListGuilds(<<>>).takes = {"after", "limit", "format"}
  BY DEF ListGuilds, Tool, IDArgs, Format, ++
<1>4. /\ ListGuilds(<<>>).takes.after = IDArg /\ ListGuilds(<<>>).takes.limit = IntArg(1, 200)
      /\ ListGuilds(<<>>).takes.format = Enum({"text", "json"})
  BY DEF ListGuilds, Tool, IDArgs, Format, ++
<1> HIDE DEF ok
<1>5. AllThere("list_guilds", a)
  BY <1>1, <1>3 DEF AllThere
<1>6. AllTold("list_guilds", a) <=>
         /\ Told(IDArg, a, "after") /\ Told(IntArg(1, 200), a, "limit")
         /\ Told(Enum({"text", "json"}), a, "format")
  BY <1>1, <1>3, <1>4 DEF AllTold
<1>7. Values(a)
  BY ToldByKeys DEF Silent
<1>8. Told(IDArg, a, "after") <=> MayID(a, "after")
  BY <1>7, TextsTold
<1>9. Told(IntArg(1, 200), a, "limit") <=> IsInt(a, "limit", 1, 200)
  BY <1>7, NumbersTold
<1>10. Told(Enum({"text", "json"}), a, "format") <=> FormatOK(a)
  BY <1>7, FormatTold
<1>11. "embeds" \notin DOMAIN Takes("list_guilds")
  BY <1>1, <1>3
<1>12. Foreseen("list_guilds", a) <=>
         AllThere("list_guilds", a) /\ AllTold("list_guilds", a)
  BY <1>1, <1>2, <1>11, ToldByKeys DEF Silent
<1>13. Def("list_guilds", a).accepts <=> ok
  BY <1>1, <1>2
<1> QED
  BY <1>5, <1>6, <1>8, <1>9, <1>10, <1>12, <1>13 DEF ok

LEMMA SendMessageTold ==
    ASSUME NEW a, Askable("send_message", a)
    PROVE  Def("send_message", a).accepts <=> Foreseen("send_message", a)
<1> DEFINE says == SaysBody(a)
           ok   == /\ FormatOK(a) /\ HasID(a, "channel_id") /\ PayloadOK(a, TRUE)
                   /\ MayID(a, "reply_to")
<1>1. /\ Def("send_message", a) = SendMessage(a)
      /\ Needs("send_message") = SendMessage(<<>>).needs
      /\ Takes("send_message") = SendMessage(<<>>).takes
  BY DEF Def, Needs, Takes
<1>2. SendMessage(a).accepts = ok /\ SendMessage(a).says = says
  BY DEF SendMessage, Tool
<1>3. /\ SendMessage(<<>>).needs = {"channel_id"}
      /\ DOMAIN SendMessage(<<>>).takes = {"channel_id", "reply_to", "content", "embeds",
                                           "allow_mentions", "attachments", "format"}
  BY DEF SendMessage, Tool, IDArgs, Short, Message, Files, Format, ++
<1>4. /\ SendMessage(<<>>).takes.channel_id = IDArg /\ SendMessage(<<>>).takes.reply_to = IDArg
      /\ SendMessage(<<>>).takes.content = ShortArg
      /\ SendMessage(<<>>).takes.embeds = ListArg("object", 10)
      /\ SendMessage(<<>>).takes.allow_mentions = BoolArg
      /\ SendMessage(<<>>).takes.attachments = ListArg("file", 10)
      /\ SendMessage(<<>>).takes.format = Enum({"text", "json"})
  BY DEF SendMessage, Tool, IDArgs, Short, Message, Files, Format, ++
<1> HIDE DEF ok, says
<1>5. AllThere("send_message", a) <=> There(a, "channel_id")
  BY <1>1, <1>3 DEF AllThere
<1>6. AllTold("send_message", a) <=>
         /\ Told(IDArg, a, "channel_id") /\ Told(IDArg, a, "reply_to")
         /\ Told(ShortArg, a, "content") /\ Told(ListArg("object", 10), a, "embeds")
         /\ Told(BoolArg, a, "allow_mentions") /\ Told(ListArg("file", 10), a, "attachments")
         /\ Told(Enum({"text", "json"}), a, "format")
  BY <1>1, <1>3, <1>4 DEF AllTold
<1>7. Values(a)
  BY ToldByKeys DEF Silent
<1>8. /\ There(a, "channel_id") /\ Told(IDArg, a, "channel_id") <=> HasID(a, "channel_id")
      /\ Told(IDArg, a, "reply_to") <=> MayID(a, "reply_to")
  BY <1>7, TextsTold
<1>9. Told(Enum({"text", "json"}), a, "format") <=> FormatOK(a)
  BY <1>7, FormatTold
<1>10. PayloadOK(a, TRUE) <=>
         /\ Told(ShortArg, a, "content") /\ Told(ListArg("object", 10), a, "embeds")
         /\ Told(BoolArg, a, "allow_mentions") /\ Told(ListArg("file", 10), a, "attachments")
         /\ says
  BY <1>7, MessageTold DEF says
<1>11. /\ "embeds" \in DOMAIN Takes("send_message")
       /\ "attachments" \in DOMAIN Takes("send_message")
  BY <1>1, <1>3
<1>12. Foreseen("send_message", a) <=>
         AllThere("send_message", a) /\ AllTold("send_message", a) /\ says
  BY <1>1, <1>2, <1>11, ToldByKeys DEF Silent
<1>13. Def("send_message", a).accepts <=> ok
  BY <1>1, <1>2
<1> QED
  BY <1>5, <1>6, <1>8, <1>9, <1>10, <1>12, <1>13 DEF ok

LEMMA EditMessageTold ==
    ASSUME NEW a, Askable("edit_message", a)
    PROVE  Def("edit_message", a).accepts <=> Foreseen("edit_message", a)
<1> DEFINE says == SaysBody(a)
           ok   == /\ FormatOK(a) /\ HasID(a, "channel_id") /\ HasID(a, "message_id")
                   /\ PayloadOK(a, FALSE)
<1>1. /\ Def("edit_message", a) = EditMessage(a)
      /\ Needs("edit_message") = EditMessage(<<>>).needs
      /\ Takes("edit_message") = EditMessage(<<>>).takes
  BY DEF Def, Needs, Takes
<1>2. EditMessage(a).accepts = ok /\ EditMessage(a).says = says
  BY DEF EditMessage, Tool, ChanMsgOK
<1>3. /\ EditMessage(<<>>).needs = {"channel_id", "message_id"}
      /\ DOMAIN EditMessage(<<>>).takes = {"channel_id", "message_id", "content", "embeds",
                                           "allow_mentions", "format"}
  BY DEF EditMessage, Tool, ChanMsg, IDArgs, Message, Format, ++
<1>4. /\ EditMessage(<<>>).takes.channel_id = IDArg /\ EditMessage(<<>>).takes.message_id = IDArg
      /\ EditMessage(<<>>).takes.content = TextArg
      /\ EditMessage(<<>>).takes.embeds = ListArg("object", 10)
      /\ EditMessage(<<>>).takes.allow_mentions = BoolArg
      /\ EditMessage(<<>>).takes.format = Enum({"text", "json"})
  BY DEF EditMessage, Tool, ChanMsg, IDArgs, Message, Format, ++
<1> HIDE DEF ok, says
<1>5. AllThere("edit_message", a) <=> There(a, "channel_id") /\ There(a, "message_id")
  BY <1>1, <1>3 DEF AllThere
<1>6. AllTold("edit_message", a) <=>
         /\ Told(IDArg, a, "channel_id") /\ Told(IDArg, a, "message_id")
         /\ Told(TextArg, a, "content") /\ Told(ListArg("object", 10), a, "embeds")
         /\ Told(BoolArg, a, "allow_mentions") /\ Told(Enum({"text", "json"}), a, "format")
  BY <1>1, <1>3, <1>4 DEF AllTold
<1>7. Values(a)
  BY ToldByKeys DEF Silent
<1>8. /\ There(a, "channel_id") /\ Told(IDArg, a, "channel_id") <=> HasID(a, "channel_id")
      /\ There(a, "message_id") /\ Told(IDArg, a, "message_id") <=> HasID(a, "message_id")
  BY <1>7, TextsTold
<1>9. Told(Enum({"text", "json"}), a, "format") <=> FormatOK(a)
  BY <1>7, FormatTold
<1>10. PayloadOK(a, FALSE) <=>
         /\ Told(TextArg, a, "content") /\ Told(ListArg("object", 10), a, "embeds")
         /\ Told(BoolArg, a, "allow_mentions") /\ ~Present(a, "attachments") /\ says
  BY <1>7, MessageTold DEF says
<1>11. /\ "embeds" \in DOMAIN Takes("edit_message")
       /\ "attachments" \notin DOMAIN Takes("edit_message")
  BY <1>1, <1>3
<1>12. Foreseen("edit_message", a) <=>
         /\ AllThere("edit_message", a) /\ AllTold("edit_message", a) /\ says
         /\ ~Present(a, "attachments")
  BY <1>1, <1>2, <1>11, ToldByKeys DEF Silent
<1>13. Def("edit_message", a).accepts <=> ok
  BY <1>1, <1>2
<1> QED
  BY <1>5, <1>6, <1>8, <1>9, <1>10, <1>12, <1>13 DEF ok

LEMMA DeleteMessageTold ==
    ASSUME NEW a, Askable("delete_message", a)
    PROVE  Def("delete_message", a).accepts <=> Foreseen("delete_message", a)
<1> DEFINE ok == HasID(a, "channel_id") /\ HasID(a, "message_id") /\ ReasonOK(a)
<1>1. /\ Def("delete_message", a) = DeleteMessage(a)
      /\ Needs("delete_message") = DeleteMessage(<<>>).needs
      /\ Takes("delete_message") = DeleteMessage(<<>>).takes
  BY DEF Def, Needs, Takes
<1>2. DeleteMessage(a).accepts = ok /\ DeleteMessage(a).says = TRUE
  BY DEF DeleteMessage, Tool, ChanMsgOK
<1>3. /\ DeleteMessage(<<>>).needs = {"channel_id", "message_id"}
      /\ DOMAIN DeleteMessage(<<>>).takes = {"channel_id", "message_id", "reason"}
  BY DEF DeleteMessage, Tool, ChanMsg, IDArgs, Reason, ++
<1>4. /\ DeleteMessage(<<>>).takes.channel_id = IDArg
      /\ DeleteMessage(<<>>).takes.message_id = IDArg /\ DeleteMessage(<<>>).takes.reason = TextArg
  BY DEF DeleteMessage, Tool, ChanMsg, IDArgs, Reason, ++
<1> HIDE DEF ok
<1>5. AllThere("delete_message", a) <=> There(a, "channel_id") /\ There(a, "message_id")
  BY <1>1, <1>3 DEF AllThere
<1>6. AllTold("delete_message", a) <=>
         /\ Told(IDArg, a, "channel_id") /\ Told(IDArg, a, "message_id")
         /\ Told(TextArg, a, "reason")
  BY <1>1, <1>3, <1>4 DEF AllTold
<1>7. Values(a)
  BY ToldByKeys DEF Silent
<1>8. /\ There(a, "channel_id") /\ Told(IDArg, a, "channel_id") <=> HasID(a, "channel_id")
      /\ There(a, "message_id") /\ Told(IDArg, a, "message_id") <=> HasID(a, "message_id")
  BY <1>7, TextsTold
<1>9. Told(TextArg, a, "reason") <=> ReasonOK(a)
  BY <1>7, TextsTold DEF ReasonOK
<1>10. "embeds" \notin DOMAIN Takes("delete_message")
  BY <1>1, <1>3
<1>11. Foreseen("delete_message", a) <=>
         AllThere("delete_message", a) /\ AllTold("delete_message", a)
  BY <1>1, <1>2, <1>10, ToldByKeys DEF Silent
<1>12. Def("delete_message", a).accepts <=> ok
  BY <1>1, <1>2
<1> QED
  BY <1>5, <1>6, <1>8, <1>9, <1>11, <1>12 DEF ok

LEMMA PinMessageTold ==
    ASSUME NEW a, Askable("pin_message", a)
    PROVE  Def("pin_message", a).accepts <=> Foreseen("pin_message", a)
<1> DEFINE ok == /\ HasID(a, "channel_id") /\ HasID(a, "message_id") /\ Present(a, "pinned")
                 /\ IsBool(a, "pinned") /\ ReasonOK(a)
<1>1. /\ Def("pin_message", a) = PinMessage(a)
      /\ Needs("pin_message") = PinMessage(<<>>).needs
      /\ Takes("pin_message") = PinMessage(<<>>).takes
  BY DEF Def, Needs, Takes
<1>2. PinMessage(a).accepts = ok /\ PinMessage(a).says = TRUE
  BY DEF PinMessage, Tool, ChanMsgOK
<1>3. /\ PinMessage(<<>>).needs = {"channel_id", "message_id", "pinned"}
      /\ DOMAIN PinMessage(<<>>).takes = {"channel_id", "message_id", "pinned", "reason"}
  BY DEF PinMessage, Tool, ChanMsg, IDArgs, Reason, ++
<1>4. /\ PinMessage(<<>>).takes.channel_id = IDArg /\ PinMessage(<<>>).takes.message_id = IDArg
      /\ PinMessage(<<>>).takes.pinned = BoolArg /\ PinMessage(<<>>).takes.reason = TextArg
  BY DEF PinMessage, Tool, ChanMsg, IDArgs, Reason, ++
<1> HIDE DEF ok
<1>5. AllThere("pin_message", a) <=> /\ There(a, "channel_id") /\ There(a, "message_id")
                                     /\ There(a, "pinned")
  BY <1>1, <1>3 DEF AllThere
<1>6. AllTold("pin_message", a) <=>
         /\ Told(IDArg, a, "channel_id") /\ Told(IDArg, a, "message_id")
         /\ Told(BoolArg, a, "pinned") /\ Told(TextArg, a, "reason")
  BY <1>1, <1>3, <1>4 DEF AllTold
<1>7. Values(a)
  BY ToldByKeys DEF Silent
<1>8. /\ There(a, "channel_id") /\ Told(IDArg, a, "channel_id") <=> HasID(a, "channel_id")
      /\ There(a, "message_id") /\ Told(IDArg, a, "message_id") <=> HasID(a, "message_id")
  BY <1>7, TextsTold
<1>9. There(a, "pinned") /\ Told(BoolArg, a, "pinned")
         <=> Present(a, "pinned") /\ IsBool(a, "pinned")
  BY <1>7, FlagNeeded
<1>10. Told(TextArg, a, "reason") <=> ReasonOK(a)
  BY <1>7, TextsTold DEF ReasonOK
<1>11. "embeds" \notin DOMAIN Takes("pin_message")
  BY <1>1, <1>3
<1>12. Foreseen("pin_message", a) <=>
         AllThere("pin_message", a) /\ AllTold("pin_message", a)
  BY <1>1, <1>2, <1>11, ToldByKeys DEF Silent
<1>13. Def("pin_message", a).accepts <=> ok
  BY <1>1, <1>2
<1> QED
  BY <1>5, <1>6, <1>8, <1>9, <1>10, <1>12, <1>13 DEF ok

LEMMA SearchMessagesTold ==
    ASSUME NEW a, Askable("search_messages", a)
    PROVE  Def("search_messages", a).accepts <=> Foreseen("search_messages", a)
<1> DEFINE ok == /\ FormatOK(a) /\ HasID(a, "guild_id") /\ IsText(a, "content")
                 /\ MayID(a, "channel_id") /\ MayID(a, "author_id") /\ IsInt(a, "limit", 1, 25)
                 /\ IsInt(a, "offset", 0, 9975)
<1>1. /\ Def("search_messages", a) = SearchMessages(a)
      /\ Needs("search_messages") = SearchMessages(<<>>).needs
      /\ Takes("search_messages") = SearchMessages(<<>>).takes
  BY DEF Def, Needs, Takes
<1>2. SearchMessages(a).accepts = ok /\ SearchMessages(a).says = TRUE
  BY DEF SearchMessages, Tool
<1>3. /\ SearchMessages(<<>>).needs = {"guild_id"}
      /\ DOMAIN SearchMessages(<<>>).takes = {"guild_id", "channel_id", "author_id", "content",
                                              "limit", "offset", "format"}
  BY DEF SearchMessages, Tool, IDArgs, Format, ++
<1>4. /\ SearchMessages(<<>>).takes.guild_id = IDArg
      /\ SearchMessages(<<>>).takes.channel_id = IDArg
      /\ SearchMessages(<<>>).takes.author_id = IDArg
      /\ SearchMessages(<<>>).takes.content = TextArg
      /\ SearchMessages(<<>>).takes.limit = IntArg(1, 25)
      /\ SearchMessages(<<>>).takes.offset = IntArg(0, 9975)
      /\ SearchMessages(<<>>).takes.format = Enum({"text", "json"})
  BY DEF SearchMessages, Tool, IDArgs, Format, ++
<1> HIDE DEF ok
<1>5. AllThere("search_messages", a) <=> There(a, "guild_id")
  BY <1>1, <1>3 DEF AllThere
<1>6. AllTold("search_messages", a) <=>
         /\ Told(IDArg, a, "guild_id") /\ Told(IDArg, a, "channel_id")
         /\ Told(IDArg, a, "author_id") /\ Told(TextArg, a, "content")
         /\ Told(IntArg(1, 25), a, "limit") /\ Told(IntArg(0, 9975), a, "offset")
         /\ Told(Enum({"text", "json"}), a, "format")
  BY <1>1, <1>3, <1>4 DEF AllTold
<1>7. Values(a)
  BY ToldByKeys DEF Silent
<1>8. /\ There(a, "guild_id") /\ Told(IDArg, a, "guild_id") <=> HasID(a, "guild_id")
      /\ Told(IDArg, a, "channel_id") <=> MayID(a, "channel_id")
      /\ Told(IDArg, a, "author_id") <=> MayID(a, "author_id")
      /\ Told(TextArg, a, "content") <=> IsText(a, "content")
  BY <1>7, TextsTold
<1>9. /\ Told(IntArg(1, 25), a, "limit") <=> IsInt(a, "limit", 1, 25)
      /\ Told(IntArg(0, 9975), a, "offset") <=> IsInt(a, "offset", 0, 9975)
  BY <1>7, NumbersTold
<1>10. Told(Enum({"text", "json"}), a, "format") <=> FormatOK(a)
  BY <1>7, FormatTold
<1>11. "embeds" \notin DOMAIN Takes("search_messages")
  BY <1>1, <1>3
<1>12. Foreseen("search_messages", a) <=>
         AllThere("search_messages", a) /\ AllTold("search_messages", a)
  BY <1>1, <1>2, <1>11, ToldByKeys DEF Silent
<1>13. Def("search_messages", a).accepts <=> ok
  BY <1>1, <1>2
<1> QED
  BY <1>5, <1>6, <1>8, <1>9, <1>10, <1>12, <1>13 DEF ok

LEMMA SendDMTold ==
    ASSUME NEW a, Askable("send_dm", a)
    PROVE  Def("send_dm", a).accepts <=> Foreseen("send_dm", a)
<1> DEFINE says == SaysBody(a)
           ok   == FormatOK(a) /\ HasID(a, "user_id") /\ PayloadOK(a, TRUE)
<1>1. /\ Def("send_dm", a) = SendDM(a)
      /\ Needs("send_dm") = SendDM(<<>>).needs
      /\ Takes("send_dm") = SendDM(<<>>).takes
  BY DEF Def, Needs, Takes
<1>2. SendDM(a).accepts = ok /\ SendDM(a).says = TRUE
  BY DEF SendDM, Tool, SendMessage
<1>3. /\ SendDM(<<>>).needs = {"user_id"}
      /\ DOMAIN SendDM(<<>>).takes = {"user_id", "content", "embeds", "allow_mentions",
                                      "attachments", "format"}
  BY DEF SendDM, Tool, SendMessage, IDArgs, Message, Files, Format, ++
<1>4. /\ SendDM(<<>>).takes.user_id = IDArg /\ SendDM(<<>>).takes.content = TextArg
      /\ SendDM(<<>>).takes.embeds = ListArg("object", 10)
      /\ SendDM(<<>>).takes.allow_mentions = BoolArg
      /\ SendDM(<<>>).takes.attachments = ListArg("file", 10)
      /\ SendDM(<<>>).takes.format = Enum({"text", "json"})
  BY DEF SendDM, Tool, SendMessage, IDArgs, Message, Files, Format, ++
<1> HIDE DEF ok, says
<1>5. AllThere("send_dm", a) <=> There(a, "user_id")
  BY <1>1, <1>3 DEF AllThere
<1>6. AllTold("send_dm", a) <=>
         /\ Told(IDArg, a, "user_id") /\ Told(TextArg, a, "content")
         /\ Told(ListArg("object", 10), a, "embeds") /\ Told(BoolArg, a, "allow_mentions")
         /\ Told(ListArg("file", 10), a, "attachments")
         /\ Told(Enum({"text", "json"}), a, "format")
  BY <1>1, <1>3, <1>4 DEF AllTold
<1>7. Values(a)
  BY ForeseenByKeys
<1>8. There(a, "user_id") /\ Told(IDArg, a, "user_id") <=> HasID(a, "user_id")
  BY <1>7, TextsTold
<1>9. Told(Enum({"text", "json"}), a, "format") <=> FormatOK(a)
  BY <1>7, FormatTold
<1>10. PayloadOK(a, TRUE) <=>
         /\ Told(TextArg, a, "content") /\ Told(ListArg("object", 10), a, "embeds")
         /\ Told(BoolArg, a, "allow_mentions") /\ Told(ListArg("file", 10), a, "attachments")
         /\ says
  BY <1>7, MessageTold DEF says
<1>11. /\ "embeds" \in DOMAIN Takes("send_dm")
       /\ "attachments" \in DOMAIN Takes("send_dm")
  BY <1>1, <1>3
<1>12. UntoldOf("send_dm", a) <=> ~says
  BY DEF UntoldOf, says
<1>13. Foreseen("send_dm", a) <=>
         AllThere("send_dm", a) /\ AllTold("send_dm", a) /\ says
  BY <1>1, <1>2, <1>11, <1>12, ForeseenByKeys
<1>14. Def("send_dm", a).accepts <=> ok
  BY <1>1, <1>2
<1> QED
  BY <1>5, <1>6, <1>8, <1>9, <1>10, <1>13, <1>14 DEF ok

LEMMA DeleteChannelTold ==
    ASSUME NEW a, Askable("delete_channel", a)
    PROVE  Def("delete_channel", a).accepts <=> Foreseen("delete_channel", a)
<1> DEFINE ok == FormatOK(a) /\ HasID(a, "channel_id") /\ ReasonOK(a)
<1>1. /\ Def("delete_channel", a) = DeleteChannel(a)
      /\ Needs("delete_channel") = DeleteChannel(<<>>).needs
      /\ Takes("delete_channel") = DeleteChannel(<<>>).takes
  BY DEF Def, Needs, Takes
<1>2. DeleteChannel(a).accepts = ok /\ DeleteChannel(a).says = TRUE
  BY DEF DeleteChannel, Tool
<1>3. /\ DeleteChannel(<<>>).needs = {"channel_id"}
      /\ DOMAIN DeleteChannel(<<>>).takes = {"channel_id", "reason", "format"}
  BY DEF DeleteChannel, Tool, IDArgs, Reason, Format, ++
<1>4. /\ DeleteChannel(<<>>).takes.channel_id = IDArg /\ DeleteChannel(<<>>).takes.reason = TextArg
      /\ DeleteChannel(<<>>).takes.format = Enum({"text", "json"})
  BY DEF DeleteChannel, Tool, IDArgs, Reason, Format, ++
<1> HIDE DEF ok
<1>5. AllThere("delete_channel", a) <=> There(a, "channel_id")
  BY <1>1, <1>3 DEF AllThere
<1>6. AllTold("delete_channel", a) <=>
         /\ Told(IDArg, a, "channel_id") /\ Told(TextArg, a, "reason")
         /\ Told(Enum({"text", "json"}), a, "format")
  BY <1>1, <1>3, <1>4 DEF AllTold
<1>7. Values(a)
  BY ToldByKeys DEF Silent
<1>8. There(a, "channel_id") /\ Told(IDArg, a, "channel_id") <=> HasID(a, "channel_id")
  BY <1>7, TextsTold
<1>9. Told(TextArg, a, "reason") <=> ReasonOK(a)
  BY <1>7, TextsTold DEF ReasonOK
<1>10. Told(Enum({"text", "json"}), a, "format") <=> FormatOK(a)
  BY <1>7, FormatTold
<1>11. "embeds" \notin DOMAIN Takes("delete_channel")
  BY <1>1, <1>3
<1>12. Foreseen("delete_channel", a) <=>
         AllThere("delete_channel", a) /\ AllTold("delete_channel", a)
  BY <1>1, <1>2, <1>11, ToldByKeys DEF Silent
<1>13. Def("delete_channel", a).accepts <=> ok
  BY <1>1, <1>2
<1> QED
  BY <1>5, <1>6, <1>8, <1>9, <1>10, <1>12, <1>13 DEF ok

LEMMA ListMembersTold ==
    ASSUME NEW a, Askable("list_members", a)
    PROVE  Def("list_members", a).accepts <=> Foreseen("list_members", a)
<1> DEFINE ok == /\ FormatOK(a) /\ HasID(a, "guild_id") /\ IsInt(a, "limit", 1, 1000)
                 /\ MayID(a, "after")
<1>1. /\ Def("list_members", a) = ListMembers(a)
      /\ Needs("list_members") = ListMembers(<<>>).needs
      /\ Takes("list_members") = ListMembers(<<>>).takes
  BY DEF Def, Needs, Takes
<1>2. ListMembers(a).accepts = ok /\ ListMembers(a).says = TRUE
  BY DEF ListMembers, Tool
<1>3. /\ ListMembers(<<>>).needs = {"guild_id"}
      /\ DOMAIN ListMembers(<<>>).takes = {"guild_id", "after", "limit", "format"}
  BY DEF ListMembers, Tool, IDArgs, Format, ++
<1>4. /\ ListMembers(<<>>).takes.guild_id = IDArg /\ ListMembers(<<>>).takes.after = IDArg
      /\ ListMembers(<<>>).takes.limit = IntArg(1, 1000)
      /\ ListMembers(<<>>).takes.format = Enum({"text", "json"})
  BY DEF ListMembers, Tool, IDArgs, Format, ++
<1> HIDE DEF ok
<1>5. AllThere("list_members", a) <=> There(a, "guild_id")
  BY <1>1, <1>3 DEF AllThere
<1>6. AllTold("list_members", a) <=>
         /\ Told(IDArg, a, "guild_id") /\ Told(IDArg, a, "after")
         /\ Told(IntArg(1, 1000), a, "limit") /\ Told(Enum({"text", "json"}), a, "format")
  BY <1>1, <1>3, <1>4 DEF AllTold
<1>7. Values(a)
  BY ToldByKeys DEF Silent
<1>8. /\ There(a, "guild_id") /\ Told(IDArg, a, "guild_id") <=> HasID(a, "guild_id")
      /\ Told(IDArg, a, "after") <=> MayID(a, "after")
  BY <1>7, TextsTold
<1>9. Told(IntArg(1, 1000), a, "limit") <=> IsInt(a, "limit", 1, 1000)
  BY <1>7, NumbersTold
<1>10. Told(Enum({"text", "json"}), a, "format") <=> FormatOK(a)
  BY <1>7, FormatTold
<1>11. "embeds" \notin DOMAIN Takes("list_members")
  BY <1>1, <1>3
<1>12. Foreseen("list_members", a) <=>
         AllThere("list_members", a) /\ AllTold("list_members", a)
  BY <1>1, <1>2, <1>11, ToldByKeys DEF Silent
<1>13. Def("list_members", a).accepts <=> ok
  BY <1>1, <1>2
<1> QED
  BY <1>5, <1>6, <1>8, <1>9, <1>10, <1>12, <1>13 DEF ok

LEMMA SearchMembersTold ==
    ASSUME NEW a, Askable("search_members", a)
    PROVE  Def("search_members", a).accepts <=> Foreseen("search_members", a)
<1> DEFINE ok == /\ FormatOK(a) /\ HasID(a, "guild_id") /\ HasText(a, "query")
                 /\ IsInt(a, "limit", 1, 1000)
<1>1. /\ Def("search_members", a) = SearchMembers(a)
      /\ Needs("search_members") = SearchMembers(<<>>).needs
      /\ Takes("search_members") = SearchMembers(<<>>).takes
  BY DEF Def, Needs, Takes
<1>2. SearchMembers(a).accepts = ok /\ SearchMembers(a).says = TRUE
  BY DEF SearchMembers, Tool
<1>3. /\ SearchMembers(<<>>).needs = {"guild_id", "query"}
      /\ DOMAIN SearchMembers(<<>>).takes = {"guild_id", "query", "limit", "format"}
  BY DEF SearchMembers, Tool, IDArgs, Format, ++
<1>4. /\ SearchMembers(<<>>).takes.guild_id = IDArg /\ SearchMembers(<<>>).takes.query = TextArg
      /\ SearchMembers(<<>>).takes.limit = IntArg(1, 1000)
      /\ SearchMembers(<<>>).takes.format = Enum({"text", "json"})
  BY DEF SearchMembers, Tool, IDArgs, Format, ++
<1> HIDE DEF ok
<1>5. AllThere("search_members", a) <=> There(a, "guild_id") /\ There(a, "query")
  BY <1>1, <1>3 DEF AllThere
<1>6. AllTold("search_members", a) <=>
         /\ Told(IDArg, a, "guild_id") /\ Told(TextArg, a, "query")
         /\ Told(IntArg(1, 1000), a, "limit") /\ Told(Enum({"text", "json"}), a, "format")
  BY <1>1, <1>3, <1>4 DEF AllTold
<1>7. Values(a)
  BY ToldByKeys DEF Silent
<1>8. /\ There(a, "guild_id") /\ Told(IDArg, a, "guild_id") <=> HasID(a, "guild_id")
      /\ There(a, "query") /\ Told(TextArg, a, "query") <=> HasText(a, "query")
  BY <1>7, TextsTold
<1>9. Told(IntArg(1, 1000), a, "limit") <=> IsInt(a, "limit", 1, 1000)
  BY <1>7, NumbersTold
<1>10. Told(Enum({"text", "json"}), a, "format") <=> FormatOK(a)
  BY <1>7, FormatTold
<1>11. "embeds" \notin DOMAIN Takes("search_members")
  BY <1>1, <1>3
<1>12. Foreseen("search_members", a) <=>
         AllThere("search_members", a) /\ AllTold("search_members", a)
  BY <1>1, <1>2, <1>11, ToldByKeys DEF Silent
<1>13. Def("search_members", a).accepts <=> ok
  BY <1>1, <1>2
<1> QED
  BY <1>5, <1>6, <1>8, <1>9, <1>10, <1>12, <1>13 DEF ok

LEMMA WebhookGetTold ==
    ASSUME NEW a, Askable("webhook_get", a)
    PROVE  Def("webhook_get", a).accepts <=> Foreseen("webhook_get", a)
<1> DEFINE ok == FormatOK(a)
<1>1. /\ Def("webhook_get", a) = WebhookGet(a)
      /\ Needs("webhook_get") = WebhookGet(<<>>).needs
      /\ Takes("webhook_get") = WebhookGet(<<>>).takes
  BY DEF Def, Needs, Takes
<1>2. WebhookGet(a).accepts = ok /\ WebhookGet(a).says = TRUE
  BY DEF WebhookGet, Tool
<1>3. /\ WebhookGet(<<>>).needs = {}
      /\ DOMAIN WebhookGet(<<>>).takes = {"format"}
  BY DEF WebhookGet, Tool, Format
<1>4. WebhookGet(<<>>).takes.format = Enum({"text", "json"})
  BY DEF WebhookGet, Tool, Format
<1> HIDE DEF ok
<1>5. AllThere("webhook_get", a)
  BY <1>1, <1>3 DEF AllThere
<1>6. AllTold("webhook_get", a) <=>
         Told(Enum({"text", "json"}), a, "format")
  BY <1>1, <1>3, <1>4 DEF AllTold
<1>7. Values(a)
  BY ToldByKeys DEF Silent
<1>8. Told(Enum({"text", "json"}), a, "format") <=> FormatOK(a)
  BY <1>7, FormatTold
<1>9. "embeds" \notin DOMAIN Takes("webhook_get")
  BY <1>1, <1>3
<1>10. Foreseen("webhook_get", a) <=>
         AllThere("webhook_get", a) /\ AllTold("webhook_get", a)
  BY <1>1, <1>2, <1>9, ToldByKeys DEF Silent
<1>11. Def("webhook_get", a).accepts <=> ok
  BY <1>1, <1>2
<1> QED
  BY <1>5, <1>6, <1>8, <1>10, <1>11 DEF ok

LEMMA WebhookSendTold ==
    ASSUME NEW a, Askable("webhook_send", a)
    PROVE  Def("webhook_send", a).accepts <=> Foreseen("webhook_send", a)
<1> DEFINE says == SaysBody(a)
           ok   == /\ FormatOK(a) /\ PayloadOK(a, TRUE) /\ MayID(a, "thread_id")
                   /\ IsText(a, "username") /\ IsText(a, "avatar_url")
<1>1. /\ Def("webhook_send", a) = WebhookSend(a)
      /\ Needs("webhook_send") = WebhookSend(<<>>).needs
      /\ Takes("webhook_send") = WebhookSend(<<>>).takes
  BY DEF Def, Needs, Takes
<1>2. WebhookSend(a).accepts = ok /\ WebhookSend(a).says = says
  BY DEF WebhookSend, Tool
<1>3. /\ WebhookSend(<<>>).needs = {}
      /\ DOMAIN WebhookSend(<<>>).takes = {"content", "embeds", "allow_mentions", "attachments",
                                           "thread_id", "username", "avatar_url", "format"}
  BY DEF WebhookSend, Tool, IDArgs, Short, Message, Files, Format, ++
<1>4. /\ WebhookSend(<<>>).takes.content = ShortArg
      /\ WebhookSend(<<>>).takes.embeds = ListArg("object", 10)
      /\ WebhookSend(<<>>).takes.allow_mentions = BoolArg
      /\ WebhookSend(<<>>).takes.attachments = ListArg("file", 10)
      /\ WebhookSend(<<>>).takes.thread_id = IDArg /\ WebhookSend(<<>>).takes.username = TextArg
      /\ WebhookSend(<<>>).takes.avatar_url = TextArg
      /\ WebhookSend(<<>>).takes.format = Enum({"text", "json"})
  BY DEF WebhookSend, Tool, IDArgs, Short, Message, Files, Format, ++
<1> HIDE DEF ok, says
<1>5. AllThere("webhook_send", a)
  BY <1>1, <1>3 DEF AllThere
<1>6. AllTold("webhook_send", a) <=>
         /\ Told(ShortArg, a, "content") /\ Told(ListArg("object", 10), a, "embeds")
         /\ Told(BoolArg, a, "allow_mentions") /\ Told(ListArg("file", 10), a, "attachments")
         /\ Told(IDArg, a, "thread_id") /\ Told(TextArg, a, "username")
         /\ Told(TextArg, a, "avatar_url") /\ Told(Enum({"text", "json"}), a, "format")
  BY <1>1, <1>3, <1>4 DEF AllTold
<1>7. Values(a)
  BY ToldByKeys DEF Silent
<1>8. /\ Told(IDArg, a, "thread_id") <=> MayID(a, "thread_id")
      /\ Told(TextArg, a, "username") <=> IsText(a, "username")
      /\ Told(TextArg, a, "avatar_url") <=> IsText(a, "avatar_url")
  BY <1>7, TextsTold
<1>9. Told(Enum({"text", "json"}), a, "format") <=> FormatOK(a)
  BY <1>7, FormatTold
<1>10. PayloadOK(a, TRUE) <=>
         /\ Told(ShortArg, a, "content") /\ Told(ListArg("object", 10), a, "embeds")
         /\ Told(BoolArg, a, "allow_mentions") /\ Told(ListArg("file", 10), a, "attachments")
         /\ says
  BY <1>7, MessageTold DEF says
<1>11. /\ "embeds" \in DOMAIN Takes("webhook_send")
       /\ "attachments" \in DOMAIN Takes("webhook_send")
  BY <1>1, <1>3
<1>12. Foreseen("webhook_send", a) <=>
         AllThere("webhook_send", a) /\ AllTold("webhook_send", a) /\ says
  BY <1>1, <1>2, <1>11, ToldByKeys DEF Silent
<1>13. Def("webhook_send", a).accepts <=> ok
  BY <1>1, <1>2
<1> QED
  BY <1>5, <1>6, <1>8, <1>9, <1>10, <1>12, <1>13 DEF ok

LEMMA PollEventsTold ==
    ASSUME NEW a, Askable("poll_events", a)
    PROVE  Def("poll_events", a).accepts <=> Foreseen("poll_events", a)
<1> DEFINE ok == /\ FormatOK(a) /\ CursorOK(a) /\ IsStringList(a, "types") /\ MayID(a, "guild_id")
                 /\ MayID(a, "channel_id") /\ IsInt(a, "limit", 1, 100)
<1>1. /\ Def("poll_events", a) = PollEvents(a)
      /\ Needs("poll_events") = PollEvents(<<>>).needs
      /\ Takes("poll_events") = PollEvents(<<>>).takes
  BY DEF Def, Needs, Takes
<1>2. PollEvents(a).accepts = ok /\ PollEvents(a).says = TRUE
  BY DEF PollEvents, Tool
<1>3. /\ PollEvents(<<>>).needs = {}
      /\ DOMAIN PollEvents(<<>>).takes = {"guild_id", "channel_id", "cursor", "types", "limit",
                                          "format"}
  BY DEF PollEvents, Tool, IDArgs, Format, ++
<1>4. /\ PollEvents(<<>>).takes.guild_id = IDArg /\ PollEvents(<<>>).takes.channel_id = IDArg
      /\ PollEvents(<<>>).takes.cursor = TextLike("cursor")
      /\ PollEvents(<<>>).takes.types = ListArg("text", 1)
      /\ PollEvents(<<>>).takes.limit = IntArg(1, 100)
      /\ PollEvents(<<>>).takes.format = Enum({"text", "json"})
  BY DEF PollEvents, Tool, IDArgs, Format, ++
<1> HIDE DEF ok
<1>5. AllThere("poll_events", a)
  BY <1>1, <1>3 DEF AllThere
<1>6. AllTold("poll_events", a) <=>
         /\ Told(IDArg, a, "guild_id") /\ Told(IDArg, a, "channel_id")
         /\ Told(TextLike("cursor"), a, "cursor") /\ Told(ListArg("text", 1), a, "types")
         /\ Told(IntArg(1, 100), a, "limit") /\ Told(Enum({"text", "json"}), a, "format")
  BY <1>1, <1>3, <1>4 DEF AllTold
<1>7. Values(a)
  BY ToldByKeys DEF Silent
<1>8. /\ Told(IDArg, a, "guild_id") <=> MayID(a, "guild_id")
      /\ Told(IDArg, a, "channel_id") <=> MayID(a, "channel_id")
  BY <1>7, TextsTold
<1>9. /\ Told(TextLike("cursor"), a, "cursor") <=> CursorOK(a)
      /\ Told(ListArg("text", 1), a, "types") <=> IsStringList(a, "types")
  BY <1>7, OthersTold
<1>10. Told(IntArg(1, 100), a, "limit") <=> IsInt(a, "limit", 1, 100)
  BY <1>7, NumbersTold
<1>11. Told(Enum({"text", "json"}), a, "format") <=> FormatOK(a)
  BY <1>7, FormatTold
<1>12. "embeds" \notin DOMAIN Takes("poll_events")
  BY <1>1, <1>3
<1>13. Foreseen("poll_events", a) <=>
         AllThere("poll_events", a) /\ AllTold("poll_events", a)
  BY <1>1, <1>2, <1>12, ToldByKeys DEF Silent
<1>14. Def("poll_events", a).accepts <=> ok
  BY <1>1, <1>2
<1> QED
  BY <1>5, <1>6, <1>8, <1>9, <1>10, <1>11, <1>13, <1>14 DEF ok

LEMMA WaitForMessageTold ==
    ASSUME NEW a, Askable("wait_for_message", a)
    PROVE  Def("wait_for_message", a).accepts <=> Foreseen("wait_for_message", a)
<1> DEFINE ok == /\ FormatOK(a) /\ MayID(a, "channel_id") /\ MayID(a, "author_id")
                 /\ IsBool(a, "include_self") /\ CursorOK(a) /\ IsInt(a, "timeout_seconds", 1, 300)
<1>1. /\ Def("wait_for_message", a) = WaitForMessage(a)
      /\ Needs("wait_for_message") = WaitForMessage(<<>>).needs
      /\ Takes("wait_for_message") = WaitForMessage(<<>>).takes
  BY DEF Def, Needs, Takes
<1>2. WaitForMessage(a).accepts = ok /\ WaitForMessage(a).says = TRUE
  BY DEF WaitForMessage, Tool
<1>3. /\ WaitForMessage(<<>>).needs = {}
      /\ DOMAIN WaitForMessage(<<>>).takes = {"channel_id", "author_id", "include_self", "cursor",
                                              "timeout_seconds", "format"}
  BY DEF WaitForMessage, Tool, IDArgs, Format, ++
<1>4. /\ WaitForMessage(<<>>).takes.channel_id = IDArg
      /\ WaitForMessage(<<>>).takes.author_id = IDArg
      /\ WaitForMessage(<<>>).takes.include_self = BoolArg
      /\ WaitForMessage(<<>>).takes.cursor = TextLike("cursor")
      /\ WaitForMessage(<<>>).takes.timeout_seconds = IntArg(1, 300)
      /\ WaitForMessage(<<>>).takes.format = Enum({"text", "json"})
  BY DEF WaitForMessage, Tool, IDArgs, Format, ++
<1> HIDE DEF ok
<1>5. AllThere("wait_for_message", a)
  BY <1>1, <1>3 DEF AllThere
<1>6. AllTold("wait_for_message", a) <=>
         /\ Told(IDArg, a, "channel_id") /\ Told(IDArg, a, "author_id")
         /\ Told(BoolArg, a, "include_self") /\ Told(TextLike("cursor"), a, "cursor")
         /\ Told(IntArg(1, 300), a, "timeout_seconds") /\ Told(Enum({"text", "json"}), a, "format")
  BY <1>1, <1>3, <1>4 DEF AllTold
<1>7. Values(a)
  BY ToldByKeys DEF Silent
<1>8. /\ Told(IDArg, a, "channel_id") <=> MayID(a, "channel_id")
      /\ Told(IDArg, a, "author_id") <=> MayID(a, "author_id")
  BY <1>7, TextsTold
<1>9. /\ Told(BoolArg, a, "include_self") <=> IsBool(a, "include_self")
      /\ Told(TextLike("cursor"), a, "cursor") <=> CursorOK(a)
  BY <1>7, OthersTold
<1>10. Told(IntArg(1, 300), a, "timeout_seconds") <=> IsInt(a, "timeout_seconds", 1, 300)
  BY <1>7, NumbersTold
<1>11. Told(Enum({"text", "json"}), a, "format") <=> FormatOK(a)
  BY <1>7, FormatTold
<1>12. "embeds" \notin DOMAIN Takes("wait_for_message")
  BY <1>1, <1>3
<1>13. Foreseen("wait_for_message", a) <=>
         AllThere("wait_for_message", a) /\ AllTold("wait_for_message", a)
  BY <1>1, <1>2, <1>12, ToldByKeys DEF Silent
<1>14. Def("wait_for_message", a).accepts <=> ok
  BY <1>1, <1>2
<1> QED
  BY <1>5, <1>6, <1>8, <1>9, <1>10, <1>11, <1>13, <1>14 DEF ok

LEMMA TimeoutMemberTold ==
    ASSUME NEW a, Askable("timeout_member", a)
    PROVE  Def("timeout_member", a).accepts <=> Foreseen("timeout_member", a)
<1> DEFINE ok == /\ HasID(a, "guild_id") /\ HasID(a, "user_id") /\ ReasonOK(a)
                 /\ Present(a, "minutes") /\ IsInt(a, "minutes", 0, 40320)
<1>1. /\ Def("timeout_member", a) = TimeoutMember(a)
      /\ Needs("timeout_member") = TimeoutMember(<<>>).needs
      /\ Takes("timeout_member") = TimeoutMember(<<>>).takes
  BY DEF Def, Needs, Takes
<1>2. TimeoutMember(a).accepts = ok /\ TimeoutMember(a).says = TRUE
  <2> DEFINE does == Does("destructive", a, GuildUser, "PATCH", TheMember)
             ok0  == (\A key \in GuildUser : HasID(a, key)) /\ ReasonOK(a)
             more == Present(a, "minutes") /\ IsInt(a, "minutes", 0, 28 * 24 * 60)
  <2>1. TimeoutMember(a).accepts = (does.accepts /\ more) /\ TimeoutMember(a).says = TRUE
    BY DEF TimeoutMember, Does, Tool
  <2>2. does.accepts = ok0
    BY DEF Does, Tool
  <2>3. ok0 <=> HasID(a, "guild_id") /\ HasID(a, "user_id") /\ ReasonOK(a)
    BY DEF GuildUser
  <2> HIDE DEF does, ok0
  <2>4. more <=> Present(a, "minutes") /\ IsInt(a, "minutes", 0, 40320)
    <3>1. 28 * 24 * 60 = 40320
      OBVIOUS
    <3> QED  BY <3>1
  <2>5. ok <=> ok0 /\ more
    BY <2>3, <2>4
  <2> HIDE DEF more, ok
  <2> QED  BY <2>1, <2>2, <2>5
<1>3. /\ TimeoutMember(<<>>).needs = {"guild_id", "user_id", "minutes"}
      /\ DOMAIN TimeoutMember(<<>>).takes = {"guild_id", "user_id", "minutes", "reason"}
  BY DEF TimeoutMember, Tool, Does, GuildUser, IDArgs, Reason, ++
<1>4. /\ TimeoutMember(<<>>).takes.guild_id = IDArg /\ TimeoutMember(<<>>).takes.user_id = IDArg
      /\ TimeoutMember(<<>>).takes.minutes = IntArg(0, 40320)
      /\ TimeoutMember(<<>>).takes.reason = TextArg
  BY DEF TimeoutMember, Tool, Does, GuildUser, IDArgs, Reason, ++
<1> HIDE DEF ok
<1>5. AllThere("timeout_member", a) <=> /\ There(a, "guild_id") /\ There(a, "user_id")
                                        /\ There(a, "minutes")
  BY <1>1, <1>3 DEF AllThere
<1>6. AllTold("timeout_member", a) <=>
         /\ Told(IDArg, a, "guild_id") /\ Told(IDArg, a, "user_id")
         /\ Told(IntArg(0, 40320), a, "minutes") /\ Told(TextArg, a, "reason")
  BY <1>1, <1>3, <1>4 DEF AllTold
<1>7. Values(a)
  BY ToldByKeys DEF Silent
<1>8. /\ There(a, "guild_id") /\ Told(IDArg, a, "guild_id") <=> HasID(a, "guild_id")
      /\ There(a, "user_id") /\ Told(IDArg, a, "user_id") <=> HasID(a, "user_id")
  BY <1>7, TextsTold
<1>9. There(a, "minutes") /\ Told(IntArg(0, 40320), a, "minutes")
         <=> Present(a, "minutes") /\ IsInt(a, "minutes", 0, 40320)
  BY <1>7, NumberNeeded
<1>10. Told(TextArg, a, "reason") <=> ReasonOK(a)
  BY <1>7, TextsTold DEF ReasonOK
<1>11. "embeds" \notin DOMAIN Takes("timeout_member")
  BY <1>1, <1>3
<1>12. Foreseen("timeout_member", a) <=>
         AllThere("timeout_member", a) /\ AllTold("timeout_member", a)
  BY <1>1, <1>2, <1>11, ToldByKeys DEF Silent
<1>13. Def("timeout_member", a).accepts <=> ok
  BY <1>1, <1>2
<1> QED
  BY <1>5, <1>6, <1>8, <1>9, <1>10, <1>12, <1>13 DEF ok

LEMMA BanMemberTold ==
    ASSUME NEW a, Askable("ban_member", a)
    PROVE  Def("ban_member", a).accepts <=> Foreseen("ban_member", a)
<1> DEFINE ok == /\ HasID(a, "guild_id") /\ HasID(a, "user_id") /\ ReasonOK(a)
                 /\ IsInt(a, "delete_message_hours", 0, 168)
<1>1. /\ Def("ban_member", a) = BanMember(a)
      /\ Needs("ban_member") = BanMember(<<>>).needs
      /\ Takes("ban_member") = BanMember(<<>>).takes
  BY DEF Def, Needs, Takes
<1>2. BanMember(a).accepts = ok /\ BanMember(a).says = TRUE
  <2> DEFINE does == Does("destructive", a, GuildUser, "PUT", TheBan)
             ok0  == (\A key \in GuildUser : HasID(a, key)) /\ ReasonOK(a)
             more == IsInt(a, "delete_message_hours", 0, 168)
  <2>1. BanMember(a).accepts = (does.accepts /\ more) /\ BanMember(a).says = TRUE
    BY DEF BanMember, Does, Tool
  <2>2. does.accepts = ok0
    BY DEF Does, Tool
  <2>3. ok0 <=> HasID(a, "guild_id") /\ HasID(a, "user_id") /\ ReasonOK(a)
    BY DEF GuildUser
  <2> HIDE DEF does, ok0
  <2> QED  BY <2>1, <2>2, <2>3
<1>3. /\ BanMember(<<>>).needs = {"guild_id", "user_id"}
      /\ DOMAIN BanMember(<<>>).takes = {"guild_id", "user_id", "delete_message_hours", "reason"}
  BY DEF BanMember, Tool, Does, GuildUser, IDArgs, Reason, ++
<1>4. /\ BanMember(<<>>).takes.guild_id = IDArg /\ BanMember(<<>>).takes.user_id = IDArg
      /\ BanMember(<<>>).takes.delete_message_hours = IntArg(0, 168)
      /\ BanMember(<<>>).takes.reason = TextArg
  BY DEF BanMember, Tool, Does, GuildUser, IDArgs, Reason, ++
<1> HIDE DEF ok
<1>5. AllThere("ban_member", a) <=> There(a, "guild_id") /\ There(a, "user_id")
  BY <1>1, <1>3 DEF AllThere
<1>6. AllTold("ban_member", a) <=>
         /\ Told(IDArg, a, "guild_id") /\ Told(IDArg, a, "user_id")
         /\ Told(IntArg(0, 168), a, "delete_message_hours") /\ Told(TextArg, a, "reason")
  BY <1>1, <1>3, <1>4 DEF AllTold
<1>7. Values(a)
  BY ToldByKeys DEF Silent
<1>8. /\ There(a, "guild_id") /\ Told(IDArg, a, "guild_id") <=> HasID(a, "guild_id")
      /\ There(a, "user_id") /\ Told(IDArg, a, "user_id") <=> HasID(a, "user_id")
  BY <1>7, TextsTold
<1>9. Told(IntArg(0, 168), a, "delete_message_hours") <=> IsInt(a, "delete_message_hours", 0, 168)
  BY <1>7, NumbersTold
<1>10. Told(TextArg, a, "reason") <=> ReasonOK(a)
  BY <1>7, TextsTold DEF ReasonOK
<1>11. "embeds" \notin DOMAIN Takes("ban_member")
  BY <1>1, <1>3
<1>12. Foreseen("ban_member", a) <=>
         AllThere("ban_member", a) /\ AllTold("ban_member", a)
  BY <1>1, <1>2, <1>11, ToldByKeys DEF Silent
<1>13. Def("ban_member", a).accepts <=> ok
  BY <1>1, <1>2
<1> QED
  BY <1>5, <1>6, <1>8, <1>9, <1>10, <1>12, <1>13 DEF ok

LEMMA WebhookGetMessageTold ==
    ASSUME NEW a, Askable("webhook_get_message", a)
    PROVE  Def("webhook_get_message", a).accepts <=> Foreseen("webhook_get_message", a)
<1> DEFINE ok == HasID(a, "message_id") /\ MayID(a, "thread_id") /\ FormatOK(a)
<1>1. /\ Def("webhook_get_message", a) = WebhookGetMessage(a)
      /\ Needs("webhook_get_message") = WebhookGetMessage(<<>>).needs
      /\ Takes("webhook_get_message") = WebhookGetMessage(<<>>).takes
  BY DEF Def, Needs, Takes
<1>2. WebhookGetMessage(a).accepts = ok /\ WebhookGetMessage(a).says = TRUE
  <2> DEFINE base == OnOwnMessage(a, "readOnly", "GET")
             ok0  == HasID(a, "message_id") /\ MayID(a, "thread_id")
  <2>1. WebhookGetMessage(a).accepts = (base.accepts /\ FormatOK(a))
        /\ WebhookGetMessage(a).says = TRUE
    BY DEF WebhookGetMessage, OnOwnMessage, Tool
  <2>2. base.accepts = ok0
    BY DEF OnOwnMessage, Tool
  <2> HIDE DEF base
  <2> QED  BY <2>1, <2>2
<1>3. /\ WebhookGetMessage(<<>>).needs = {"message_id"}
      /\ DOMAIN WebhookGetMessage(<<>>).takes = {"message_id", "thread_id", "format"}
  BY DEF WebhookGetMessage, Tool, OnOwnMessage, IDArgs, Format, ++
<1>4. /\ WebhookGetMessage(<<>>).takes.message_id = IDArg
      /\ WebhookGetMessage(<<>>).takes.thread_id = IDArg
      /\ WebhookGetMessage(<<>>).takes.format = Enum({"text", "json"})
  BY DEF WebhookGetMessage, Tool, OnOwnMessage, IDArgs, Format, ++
<1> HIDE DEF ok
<1>5. AllThere("webhook_get_message", a) <=> There(a, "message_id")
  BY <1>1, <1>3 DEF AllThere
<1>6. AllTold("webhook_get_message", a) <=>
         /\ Told(IDArg, a, "message_id") /\ Told(IDArg, a, "thread_id")
         /\ Told(Enum({"text", "json"}), a, "format")
  BY <1>1, <1>3, <1>4 DEF AllTold
<1>7. Values(a)
  BY ToldByKeys DEF Silent
<1>8. /\ There(a, "message_id") /\ Told(IDArg, a, "message_id") <=> HasID(a, "message_id")
      /\ Told(IDArg, a, "thread_id") <=> MayID(a, "thread_id")
  BY <1>7, TextsTold
<1>9. Told(Enum({"text", "json"}), a, "format") <=> FormatOK(a)
  BY <1>7, FormatTold
<1>10. "embeds" \notin DOMAIN Takes("webhook_get_message")
  BY <1>1, <1>3
<1>11. Foreseen("webhook_get_message", a) <=>
         AllThere("webhook_get_message", a) /\ AllTold("webhook_get_message", a)
  BY <1>1, <1>2, <1>10, ToldByKeys DEF Silent
<1>12. Def("webhook_get_message", a).accepts <=> ok
  BY <1>1, <1>2
<1> QED
  BY <1>5, <1>6, <1>8, <1>9, <1>11, <1>12 DEF ok

LEMMA WebhookEditMessageTold ==
    ASSUME NEW a, Askable("webhook_edit_message", a)
    PROVE  Def("webhook_edit_message", a).accepts <=> Foreseen("webhook_edit_message", a)
<1> DEFINE says == SaysBody(a)
           ok   == /\ HasID(a, "message_id") /\ MayID(a, "thread_id") /\ FormatOK(a)
                   /\ PayloadOK(a, FALSE)
<1>1. /\ Def("webhook_edit_message", a) = WebhookEditMessage(a)
      /\ Needs("webhook_edit_message") = WebhookEditMessage(<<>>).needs
      /\ Takes("webhook_edit_message") = WebhookEditMessage(<<>>).takes
  BY DEF Def, Needs, Takes
<1>2. WebhookEditMessage(a).accepts = ok /\ WebhookEditMessage(a).says = TRUE
  <2> DEFINE base == OnOwnMessage(a, "mutating", "PATCH")
             ok0  == HasID(a, "message_id") /\ MayID(a, "thread_id")
  <2>1. WebhookEditMessage(a).accepts = (base.accepts /\ FormatOK(a) /\ PayloadOK(a, FALSE))
        /\ WebhookEditMessage(a).says = TRUE
    BY DEF WebhookEditMessage, OnOwnMessage, Tool
  <2>2. base.accepts = ok0
    BY DEF OnOwnMessage, Tool
  <2> HIDE DEF base
  <2> QED  BY <2>1, <2>2
<1>3. /\ WebhookEditMessage(<<>>).needs = {"message_id"}
      /\ DOMAIN WebhookEditMessage(<<>>).takes = {"message_id", "thread_id", "content", "embeds",
                                                  "allow_mentions", "format"}
  BY DEF WebhookEditMessage, Tool, OnOwnMessage, IDArgs, Message, Format, ++
<1>4. /\ WebhookEditMessage(<<>>).takes.message_id = IDArg
      /\ WebhookEditMessage(<<>>).takes.thread_id = IDArg
      /\ WebhookEditMessage(<<>>).takes.content = TextArg
      /\ WebhookEditMessage(<<>>).takes.embeds = ListArg("object", 10)
      /\ WebhookEditMessage(<<>>).takes.allow_mentions = BoolArg
      /\ WebhookEditMessage(<<>>).takes.format = Enum({"text", "json"})
  BY DEF WebhookEditMessage, Tool, OnOwnMessage, IDArgs, Message, Format, ++
<1> HIDE DEF ok, says
<1>5. AllThere("webhook_edit_message", a) <=> There(a, "message_id")
  BY <1>1, <1>3 DEF AllThere
<1>6. AllTold("webhook_edit_message", a) <=>
         /\ Told(IDArg, a, "message_id") /\ Told(IDArg, a, "thread_id")
         /\ Told(TextArg, a, "content") /\ Told(ListArg("object", 10), a, "embeds")
         /\ Told(BoolArg, a, "allow_mentions") /\ Told(Enum({"text", "json"}), a, "format")
  BY <1>1, <1>3, <1>4 DEF AllTold
<1>7. Values(a)
  BY ForeseenByKeys
<1>8. /\ There(a, "message_id") /\ Told(IDArg, a, "message_id") <=> HasID(a, "message_id")
      /\ Told(IDArg, a, "thread_id") <=> MayID(a, "thread_id")
  BY <1>7, TextsTold
<1>9. Told(Enum({"text", "json"}), a, "format") <=> FormatOK(a)
  BY <1>7, FormatTold
<1>10. PayloadOK(a, FALSE) <=>
         /\ Told(TextArg, a, "content") /\ Told(ListArg("object", 10), a, "embeds")
         /\ Told(BoolArg, a, "allow_mentions") /\ ~Present(a, "attachments") /\ says
  BY <1>7, MessageTold DEF says
<1>11. /\ "embeds" \in DOMAIN Takes("webhook_edit_message")
       /\ "attachments" \notin DOMAIN Takes("webhook_edit_message")
  BY <1>1, <1>3
<1>12. UntoldOf("webhook_edit_message", a) <=> ~says
  BY DEF UntoldOf, says
<1>13. Foreseen("webhook_edit_message", a) <=>
         /\ AllThere("webhook_edit_message", a) /\ AllTold("webhook_edit_message", a) /\ says
         /\ ~Present(a, "attachments")
  BY <1>1, <1>2, <1>11, <1>12, ForeseenByKeys
<1>14. Def("webhook_edit_message", a).accepts <=> ok
  BY <1>1, <1>2
<1> QED
  BY <1>5, <1>6, <1>8, <1>9, <1>10, <1>13, <1>14 DEF ok

LEMMA WebhookDeleteMessageTold ==
    ASSUME NEW a, Askable("webhook_delete_message", a)
    PROVE  Def("webhook_delete_message", a).accepts <=> Foreseen("webhook_delete_message", a)
<1> DEFINE ok == HasID(a, "message_id") /\ MayID(a, "thread_id")
<1>1. /\ Def("webhook_delete_message", a) = WebhookDeleteMessage(a)
      /\ Needs("webhook_delete_message") = WebhookDeleteMessage(<<>>).needs
      /\ Takes("webhook_delete_message") = WebhookDeleteMessage(<<>>).takes
  BY DEF Def, Needs, Takes
<1>2. WebhookDeleteMessage(a).accepts = ok /\ WebhookDeleteMessage(a).says = TRUE
  BY DEF WebhookDeleteMessage, OnOwnMessage, Tool
<1>3. /\ WebhookDeleteMessage(<<>>).needs = {"message_id"}
      /\ DOMAIN WebhookDeleteMessage(<<>>).takes = {"message_id", "thread_id"}
  BY DEF WebhookDeleteMessage, Tool, OnOwnMessage, IDArgs, ++
<1>4. /\ WebhookDeleteMessage(<<>>).takes.message_id = IDArg
      /\ WebhookDeleteMessage(<<>>).takes.thread_id = IDArg
  BY DEF WebhookDeleteMessage, Tool, OnOwnMessage, IDArgs, ++
<1> HIDE DEF ok
<1>5. AllThere("webhook_delete_message", a) <=> There(a, "message_id")
  BY <1>1, <1>3 DEF AllThere
<1>6. AllTold("webhook_delete_message", a) <=>
         Told(IDArg, a, "message_id") /\ Told(IDArg, a, "thread_id")
  BY <1>1, <1>3, <1>4 DEF AllTold
<1>7. Values(a)
  BY ToldByKeys DEF Silent
<1>8. /\ There(a, "message_id") /\ Told(IDArg, a, "message_id") <=> HasID(a, "message_id")
      /\ Told(IDArg, a, "thread_id") <=> MayID(a, "thread_id")
  BY <1>7, TextsTold
<1>9. "embeds" \notin DOMAIN Takes("webhook_delete_message")
  BY <1>1, <1>3
<1>10. Foreseen("webhook_delete_message", a) <=>
         AllThere("webhook_delete_message", a) /\ AllTold("webhook_delete_message", a)
  BY <1>1, <1>2, <1>9, ToldByKeys DEF Silent
<1>11. Def("webhook_delete_message", a).accepts <=> ok
  BY <1>1, <1>2
<1> QED
  BY <1>5, <1>6, <1>8, <1>10, <1>11 DEF ok

LEMMA AddReactionTold ==
    ASSUME NEW a, Askable("add_reaction", a)
    PROVE  Def("add_reaction", a).accepts /\ EmojiFits(a) <=> Foreseen("add_reaction", a)
<1> DEFINE ok == HasID(a, "channel_id") /\ HasID(a, "message_id") /\ HasText(a, "emoji")
<1>1. /\ Def("add_reaction", a) = AddReaction(a)
      /\ Needs("add_reaction") = AddReaction(<<>>).needs
      /\ Takes("add_reaction") = AddReaction(<<>>).takes
  BY DEF Def, Needs, Takes
<1>2. AddReaction(a).accepts = ok /\ AddReaction(a).says = TRUE
  BY DEF AddReaction, Tool, ChanMsgOK
<1>3. /\ AddReaction(<<>>).needs = {"channel_id", "message_id", "emoji"}
      /\ DOMAIN AddReaction(<<>>).takes = {"channel_id", "message_id", "emoji"}
  BY DEF AddReaction, Tool, ChanMsg, IDArgs, ++
<1>4. /\ AddReaction(<<>>).takes.channel_id = IDArg /\ AddReaction(<<>>).takes.message_id = IDArg
      /\ AddReaction(<<>>).takes.emoji = TextLike("emoji")
  BY DEF AddReaction, Tool, ChanMsg, IDArgs, ++
<1> HIDE DEF ok
<1>5. AllThere("add_reaction", a) <=> /\ There(a, "channel_id") /\ There(a, "message_id")
                                      /\ There(a, "emoji")
  BY <1>1, <1>3 DEF AllThere
<1>6. AllTold("add_reaction", a) <=>
         /\ Told(IDArg, a, "channel_id") /\ Told(IDArg, a, "message_id")
         /\ Told(TextLike("emoji"), a, "emoji")
  BY <1>1, <1>3, <1>4 DEF AllTold
<1>7. Values(a)
  BY ToldByKeys DEF Silent
<1>8. /\ There(a, "channel_id") /\ Told(IDArg, a, "channel_id") <=> HasID(a, "channel_id")
      /\ There(a, "message_id") /\ Told(IDArg, a, "message_id") <=> HasID(a, "message_id")
  BY <1>7, TextsTold
<1>9. There(a, "emoji") /\ Told(TextLike("emoji"), a, "emoji")
            <=> HasText(a, "emoji") /\ EmojiFits(a)
  BY <1>7, EmojiTold
<1>10. "embeds" \notin DOMAIN Takes("add_reaction")
  BY <1>1, <1>3
<1>11. Foreseen("add_reaction", a) <=>
         AllThere("add_reaction", a) /\ AllTold("add_reaction", a)
  BY <1>1, <1>2, <1>10, ToldByKeys DEF Silent
<1>12. Def("add_reaction", a).accepts <=> ok
  BY <1>1, <1>2
<1> QED
  BY <1>5, <1>6, <1>8, <1>9, <1>11, <1>12 DEF ok

LEMMA RemoveReactionTold ==
    ASSUME NEW a, Askable("remove_reaction", a)
    PROVE  Def("remove_reaction", a).accepts /\ EmojiFits(a) <=> Foreseen("remove_reaction", a)
<1> DEFINE ok == /\ HasID(a, "channel_id") /\ HasID(a, "message_id") /\ HasText(a, "emoji")
                 /\ MayID(a, "user_id")
<1>1. /\ Def("remove_reaction", a) = RemoveReaction(a)
      /\ Needs("remove_reaction") = RemoveReaction(<<>>).needs
      /\ Takes("remove_reaction") = RemoveReaction(<<>>).takes
  BY DEF Def, Needs, Takes
<1>2. RemoveReaction(a).accepts = ok /\ RemoveReaction(a).says = TRUE
  BY DEF RemoveReaction, Tool, ChanMsgOK
<1>3. /\ RemoveReaction(<<>>).needs = {"channel_id", "message_id", "emoji"}
      /\ DOMAIN RemoveReaction(<<>>).takes = {"channel_id", "message_id", "user_id", "emoji"}
  BY DEF RemoveReaction, Tool, ChanMsg, IDArgs, ++
<1>4. /\ RemoveReaction(<<>>).takes.channel_id = IDArg
      /\ RemoveReaction(<<>>).takes.message_id = IDArg
      /\ RemoveReaction(<<>>).takes.user_id = IDArg
      /\ RemoveReaction(<<>>).takes.emoji = TextLike("emoji")
  BY DEF RemoveReaction, Tool, ChanMsg, IDArgs, ++
<1> HIDE DEF ok
<1>5. AllThere("remove_reaction", a) <=> /\ There(a, "channel_id") /\ There(a, "message_id")
                                         /\ There(a, "emoji")
  BY <1>1, <1>3 DEF AllThere
<1>6. AllTold("remove_reaction", a) <=>
         /\ Told(IDArg, a, "channel_id") /\ Told(IDArg, a, "message_id")
         /\ Told(IDArg, a, "user_id") /\ Told(TextLike("emoji"), a, "emoji")
  BY <1>1, <1>3, <1>4 DEF AllTold
<1>7. Values(a)
  BY ToldByKeys DEF Silent
<1>8. /\ There(a, "channel_id") /\ Told(IDArg, a, "channel_id") <=> HasID(a, "channel_id")
      /\ There(a, "message_id") /\ Told(IDArg, a, "message_id") <=> HasID(a, "message_id")
      /\ Told(IDArg, a, "user_id") <=> MayID(a, "user_id")
  BY <1>7, TextsTold
<1>9. There(a, "emoji") /\ Told(TextLike("emoji"), a, "emoji")
            <=> HasText(a, "emoji") /\ EmojiFits(a)
  BY <1>7, EmojiTold
<1>10. "embeds" \notin DOMAIN Takes("remove_reaction")
  BY <1>1, <1>3
<1>11. Foreseen("remove_reaction", a) <=>
         AllThere("remove_reaction", a) /\ AllTold("remove_reaction", a)
  BY <1>1, <1>2, <1>10, ToldByKeys DEF Silent
<1>12. Def("remove_reaction", a).accepts <=> ok
  BY <1>1, <1>2
<1> QED
  BY <1>5, <1>6, <1>8, <1>9, <1>11, <1>12 DEF ok

LEMMA ReadMessagesTold ==
    ASSUME NEW a, Askable("read_messages", a)
    PROVE  Def("read_messages", a).accepts <=> Foreseen("read_messages", a)
<1> DEFINE says == Cardinality(Set(a, {"before", "after", "around"})) <= 1
           ok   == /\ FormatOK(a) /\ HasID(a, "channel_id") /\ IsInt(a, "limit", 1, 100) /\ says
                   /\ \A key \in Set(a, {"before", "after", "around"}) : HasID(a, key)
<1>1. /\ Def("read_messages", a) = ReadMessages(a)
      /\ Needs("read_messages") = ReadMessages(<<>>).needs
      /\ Takes("read_messages") = ReadMessages(<<>>).takes
  BY DEF Def, Needs, Takes
<1>2. ReadMessages(a).accepts = ok /\ ReadMessages(a).says = says
  BY DEF ReadMessages, Tool
<1>3. /\ ReadMessages(<<>>).needs = {"channel_id"}
      /\ DOMAIN ReadMessages(<<>>).takes = {"channel_id", "before", "after", "around", "limit",
                                            "format"}
  BY DEF ReadMessages, Tool, IDArgs, Format, ++
<1>4. /\ ReadMessages(<<>>).takes.channel_id = IDArg /\ ReadMessages(<<>>).takes.before = IDArg
      /\ ReadMessages(<<>>).takes.after = IDArg /\ ReadMessages(<<>>).takes.around = IDArg
      /\ ReadMessages(<<>>).takes.limit = IntArg(1, 100)
      /\ ReadMessages(<<>>).takes.format = Enum({"text", "json"})
  BY DEF ReadMessages, Tool, IDArgs, Format, ++
<1> HIDE DEF ok, says
<1>5. AllThere("read_messages", a) <=> There(a, "channel_id")
  BY <1>1, <1>3 DEF AllThere
<1>6. AllTold("read_messages", a) <=>
         /\ Told(IDArg, a, "channel_id") /\ Told(IDArg, a, "before") /\ Told(IDArg, a, "after")
         /\ Told(IDArg, a, "around") /\ Told(IntArg(1, 100), a, "limit")
         /\ Told(Enum({"text", "json"}), a, "format")
  BY <1>1, <1>3, <1>4 DEF AllTold
<1>7. Values(a)
  BY ToldByKeys DEF Silent
<1>8. /\ There(a, "channel_id") /\ Told(IDArg, a, "channel_id") <=> HasID(a, "channel_id")
      /\ Told(IDArg, a, "before") <=> MayID(a, "before")
      /\ Told(IDArg, a, "after") <=> MayID(a, "after")
      /\ Told(IDArg, a, "around") <=> MayID(a, "around")
  BY <1>7, TextsTold
<1>9. Told(IntArg(1, 100), a, "limit") <=> IsInt(a, "limit", 1, 100)
  BY <1>7, NumbersTold
<1>10. Told(Enum({"text", "json"}), a, "format") <=> FormatOK(a)
  BY <1>7, FormatTold
<1>11. MayID(a, "before") /\ MayID(a, "after") /\ MayID(a, "around")
      <=> \A key \in Set(a, {"before", "after", "around"}) : HasID(a, key)
  BY DEF Set, MayID, HasID
<1>12. "embeds" \notin DOMAIN Takes("read_messages")
  BY <1>1, <1>3
<1>13. Foreseen("read_messages", a) <=>
         AllThere("read_messages", a) /\ AllTold("read_messages", a) /\ says
  BY <1>1, <1>2, <1>12, ToldByKeys DEF Silent
<1>14. Def("read_messages", a).accepts <=> ok
  BY <1>1, <1>2
<1> QED
  BY <1>5, <1>6, <1>8, <1>9, <1>10, <1>11, <1>13, <1>14 DEF ok, says

LEMMA CreateThreadTold ==
    ASSUME NEW a, Askable("create_thread", a)
    PROVE  Def("create_thread", a).accepts <=> Foreseen("create_thread", a)
<1> DEFINE says == BoolOr(a, "private", FALSE) => Text(a, "message_id") = ""
           ok   == /\ FormatOK(a) /\ HasID(a, "channel_id") /\ HasText(a, "name")
                   /\ MayID(a, "message_id") /\ IsBool(a, "private")
                   /\ IsInt(a, "auto_archive_minutes", 60, 10080)
                   /\ IntOr(a, "auto_archive_minutes", 1440) \in {60, 1440, 4320, 10080}
                   /\ ReasonOK(a) /\ says
<1>1. /\ Def("create_thread", a) = CreateThread(a)
      /\ Needs("create_thread") = CreateThread(<<>>).needs
      /\ Takes("create_thread") = CreateThread(<<>>).takes
  BY DEF Def, Needs, Takes
<1>2. CreateThread(a).accepts = ok /\ CreateThread(a).says = says
  BY DEF CreateThread, Tool
<1>3. /\ CreateThread(<<>>).needs = {"channel_id", "name"}
      /\ DOMAIN CreateThread(<<>>).takes = {"channel_id", "message_id", "name", "private",
                                            "auto_archive_minutes", "reason", "format"}
  BY DEF CreateThread, Tool, IDArgs, Reason, Format, ++
<1>4. /\ CreateThread(<<>>).takes.channel_id = IDArg /\ CreateThread(<<>>).takes.message_id = IDArg
      /\ CreateThread(<<>>).takes.name = ShortArg /\ CreateThread(<<>>).takes.private = BoolArg
      /\ CreateThread(<<>>).takes.auto_archive_minutes = Arg("number", "archive", {}, 60, 10080)
      /\ CreateThread(<<>>).takes.reason = TextArg
      /\ CreateThread(<<>>).takes.format = Enum({"text", "json"})
  BY DEF CreateThread, Tool, IDArgs, Reason, Format, ++
<1> HIDE DEF ok, says
<1>5. AllThere("create_thread", a) <=> There(a, "channel_id") /\ There(a, "name")
  BY <1>1, <1>3 DEF AllThere
<1>6. AllTold("create_thread", a) <=>
         /\ Told(IDArg, a, "channel_id") /\ Told(IDArg, a, "message_id")
         /\ Told(ShortArg, a, "name") /\ Told(BoolArg, a, "private")
         /\ Told(Arg("number", "archive", {}, 60, 10080), a, "auto_archive_minutes")
         /\ Told(TextArg, a, "reason") /\ Told(Enum({"text", "json"}), a, "format")
  BY <1>1, <1>3, <1>4 DEF AllTold
<1>7. Values(a)
  BY ToldByKeys DEF Silent
<1>8. /\ There(a, "channel_id") /\ Told(IDArg, a, "channel_id") <=> HasID(a, "channel_id")
      /\ Told(IDArg, a, "message_id") <=> MayID(a, "message_id")
      /\ There(a, "name") /\ Told(ShortArg, a, "name") <=> HasText(a, "name")
  BY <1>7, TextsTold
<1>9. Told(BoolArg, a, "private") <=> IsBool(a, "private")
  BY <1>7, OthersTold
<1>10. Told(Arg("number", "archive", {}, 60, 10080), a, "auto_archive_minutes")
            <=> /\ IsInt(a, "auto_archive_minutes", 60, 10080)
                /\ IntOr(a, "auto_archive_minutes", 1440) \in {60, 1440, 4320, 10080}
  BY <1>7, ArchiveTold
<1>11. Told(TextArg, a, "reason") <=> ReasonOK(a)
  BY <1>7, TextsTold DEF ReasonOK
<1>12. Told(Enum({"text", "json"}), a, "format") <=> FormatOK(a)
  BY <1>7, FormatTold
<1>13. "embeds" \notin DOMAIN Takes("create_thread")
  BY <1>1, <1>3
<1>14. Foreseen("create_thread", a) <=>
         AllThere("create_thread", a) /\ AllTold("create_thread", a) /\ says
  BY <1>1, <1>2, <1>13, ToldByKeys DEF Silent
<1>15. Def("create_thread", a).accepts <=> ok
  BY <1>1, <1>2
<1> QED
  BY <1>5, <1>6, <1>8, <1>9, <1>10, <1>11, <1>12, <1>14, <1>15 DEF ok

LEMMA CreateChannelTold ==
    ASSUME NEW a, Askable("create_channel", a)
    PROVE  Def("create_channel", a).accepts <=> Foreseen("create_channel", a)
<1> DEFINE ok == /\ FormatOK(a) /\ HasID(a, "guild_id") /\ HasText(a, "name") /\ IsText(a, "type")
                 /\ Text(a, "type") \in ChannelTypes \cup {""}
                 /\ OptionalOK(a, {"topic", "parent_id", "nsfw"}) /\ ReasonOK(a)
<1>1. /\ Def("create_channel", a) = CreateChannel(a)
      /\ Needs("create_channel") = CreateChannel(<<>>).needs
      /\ Takes("create_channel") = CreateChannel(<<>>).takes
  BY DEF Def, Needs, Takes
<1>2. CreateChannel(a).accepts = ok /\ CreateChannel(a).says = TRUE
  BY DEF CreateChannel, Tool
<1>3. /\ CreateChannel(<<>>).needs = {"guild_id", "name"}
      /\ DOMAIN CreateChannel(<<>>).takes = {"guild_id", "parent_id", "name", "type", "topic",
                                             "nsfw", "reason", "format"}
  BY DEF CreateChannel, Tool, IDArgs, Reason, Format, ++
<1>4. /\ CreateChannel(<<>>).takes.guild_id = IDArg /\ CreateChannel(<<>>).takes.parent_id = IDArg
      /\ CreateChannel(<<>>).takes.name = TextArg
      /\ CreateChannel(<<>>).takes.type = Enum(ChannelTypes)
      /\ CreateChannel(<<>>).takes.topic = TextArg /\ CreateChannel(<<>>).takes.nsfw = BoolArg
      /\ CreateChannel(<<>>).takes.reason = TextArg
      /\ CreateChannel(<<>>).takes.format = Enum({"text", "json"})
  BY DEF CreateChannel, Tool, IDArgs, Reason, Format, ++
<1> HIDE DEF ok
<1>5. AllThere("create_channel", a) <=> There(a, "guild_id") /\ There(a, "name")
  BY <1>1, <1>3 DEF AllThere
<1>6. AllTold("create_channel", a) <=>
         /\ Told(IDArg, a, "guild_id") /\ Told(IDArg, a, "parent_id") /\ Told(TextArg, a, "name")
         /\ Told(Enum(ChannelTypes), a, "type") /\ Told(TextArg, a, "topic")
         /\ Told(BoolArg, a, "nsfw") /\ Told(TextArg, a, "reason")
         /\ Told(Enum({"text", "json"}), a, "format")
  BY <1>1, <1>3, <1>4 DEF AllTold
<1>7. Values(a)
  BY ToldByKeys DEF Silent
<1>8. /\ There(a, "guild_id") /\ Told(IDArg, a, "guild_id") <=> HasID(a, "guild_id")
      /\ Told(IDArg, a, "parent_id") <=> MayID(a, "parent_id")
      /\ There(a, "name") /\ Told(TextArg, a, "name") <=> HasText(a, "name")
      /\ Told(TextArg, a, "topic") <=> IsText(a, "topic")
  BY <1>7, TextsTold
<1>9. Told(Enum(ChannelTypes), a, "type")
            <=> IsText(a, "type") /\ Text(a, "type") \in ChannelTypes \cup {""}
  BY <1>7, EnumTold
<1>10. Told(BoolArg, a, "nsfw") <=> IsBool(a, "nsfw")
  BY <1>7, OthersTold
<1>11. Told(TextArg, a, "reason") <=> ReasonOK(a)
  BY <1>7, TextsTold DEF ReasonOK
<1>12. Told(Enum({"text", "json"}), a, "format") <=> FormatOK(a)
  BY <1>7, FormatTold
<1>13. OptionalOK(a, {"topic", "parent_id", "nsfw"}) <=>
         MayID(a, "parent_id") /\ IsText(a, "topic") /\ IsBool(a, "nsfw")
  BY DEF OptionalOK, IDNames
<1>14. "embeds" \notin DOMAIN Takes("create_channel")
  BY <1>1, <1>3
<1>15. Foreseen("create_channel", a) <=>
         AllThere("create_channel", a) /\ AllTold("create_channel", a)
  BY <1>1, <1>2, <1>14, ToldByKeys DEF Silent
<1>16. Def("create_channel", a).accepts <=> ok
  BY <1>1, <1>2
<1> QED
  BY <1>5, <1>6, <1>8, <1>9, <1>10, <1>11, <1>12, <1>13, <1>15, <1>16 DEF ok

LEMMA EditChannelTold ==
    ASSUME NEW a, Askable("edit_channel", a)
    PROVE  Def("edit_channel", a).accepts <=> Foreseen("edit_channel", a)
<1> DEFINE fields == {"name", "topic", "parent_id", "nsfw", "position", "archived", "locked"}
           says   == \E key \in fields : Present(a, key)
           ok     == /\ FormatOK(a) /\ HasID(a, "channel_id")
                     /\ OptionalOK(a, fields)
                     /\ Optional(a, fields) # {}
                     /\ ReasonOK(a)
<1>1. /\ Def("edit_channel", a) = EditChannel(a)
      /\ Needs("edit_channel") = EditChannel(<<>>).needs
      /\ Takes("edit_channel") = EditChannel(<<>>).takes
  BY DEF Def, Needs, Takes
<1>2. EditChannel(a).accepts = ok /\ EditChannel(a).says = TRUE
  BY DEF EditChannel, Tool
<1>3. /\ EditChannel(<<>>).needs = {"channel_id"}
      /\ DOMAIN EditChannel(<<>>).takes = {"channel_id", "parent_id", "name", "topic", "nsfw",
                                           "position", "archived", "locked", "reason", "format"}
  BY DEF EditChannel, Tool, IDArgs, Reason, Format, ++
<1>4. /\ EditChannel(<<>>).takes.channel_id = IDArg /\ EditChannel(<<>>).takes.parent_id = IDArg
      /\ EditChannel(<<>>).takes.name = TextArg /\ EditChannel(<<>>).takes.topic = TextArg
      /\ EditChannel(<<>>).takes.nsfw = BoolArg
      /\ EditChannel(<<>>).takes.position = NumberArg
      /\ EditChannel(<<>>).takes.archived = BoolArg /\ EditChannel(<<>>).takes.locked = BoolArg
      /\ EditChannel(<<>>).takes.reason = TextArg
      /\ EditChannel(<<>>).takes.format = Enum({"text", "json"})
  BY DEF EditChannel, Tool, IDArgs, Reason, Format, ++
<1> HIDE DEF ok, says
<1>5. AllThere("edit_channel", a) <=> There(a, "channel_id")
  BY <1>1, <1>3 DEF AllThere
<1>6. AllTold("edit_channel", a) <=>
         /\ Told(IDArg, a, "channel_id") /\ Told(IDArg, a, "parent_id") /\ Told(TextArg, a, "name")
         /\ Told(TextArg, a, "topic") /\ Told(BoolArg, a, "nsfw")
         /\ Told(NumberArg, a, "position") /\ Told(BoolArg, a, "archived")
         /\ Told(BoolArg, a, "locked") /\ Told(TextArg, a, "reason")
         /\ Told(Enum({"text", "json"}), a, "format")
  BY <1>1, <1>3, <1>4 DEF AllTold
<1>7. Values(a)
  BY ForeseenByKeys
<1>8. /\ There(a, "channel_id") /\ Told(IDArg, a, "channel_id") <=> HasID(a, "channel_id")
      /\ Told(IDArg, a, "parent_id") <=> MayID(a, "parent_id")
      /\ Told(TextArg, a, "name") <=> IsText(a, "name")
      /\ Told(TextArg, a, "topic") <=> IsText(a, "topic")
  BY <1>7, TextsTold
<1>9. /\ Told(BoolArg, a, "nsfw") <=> IsBool(a, "nsfw")
      /\ Told(BoolArg, a, "archived") <=> IsBool(a, "archived")
      /\ Told(BoolArg, a, "locked") <=> IsBool(a, "locked")
  BY <1>7, OthersTold
<1>10. Told(NumberArg, a, "position") <=> IsInt(a, "position", 0, 10000)
  BY <1>7, PositionTold
<1>11. Told(TextArg, a, "reason") <=> ReasonOK(a)
  BY <1>7, TextsTold DEF ReasonOK
<1>12. Told(Enum({"text", "json"}), a, "format") <=> FormatOK(a)
  BY <1>7, FormatTold
<1>13. OptionalOK(a, fields) <=>
         /\ MayID(a, "parent_id") /\ IsText(a, "name") /\ IsText(a, "topic") /\ IsBool(a, "nsfw")
         /\ IsInt(a, "position", 0, 10000) /\ IsBool(a, "archived") /\ IsBool(a, "locked")
  BY DEF OptionalOK, IDNames
<1>14. Optional(a, fields) # {} <=>
         \E key \in fields : Present(a, key)
  BY DEF Optional
<1>15. "embeds" \notin DOMAIN Takes("edit_channel")
  BY <1>1, <1>3
<1>16. UntoldOf("edit_channel", a) <=> ~says
  <2>1. fields = DOMAIN Takes("edit_channel") \ {"channel_id", "reason", "format"}
    BY <1>1, <1>3
  <2> QED  BY <2>1 DEF UntoldOf, says
<1>17. Foreseen("edit_channel", a) <=>
         AllThere("edit_channel", a) /\ AllTold("edit_channel", a) /\ says
  BY <1>1, <1>2, <1>15, <1>16, ForeseenByKeys
<1>18. Def("edit_channel", a).accepts <=> ok
  BY <1>1, <1>2
<1> QED
  BY <1>5, <1>6, <1>8, <1>9, <1>10, <1>11, <1>12, <1>13, <1>14, <1>17, <1>18 DEF ok, says


(* The route of discord_request is a text that Paths tells of.             *)
LEMMA RequestTold ==
    ASSUME NEW a, Askable("request", a)
    PROVE  Def("request", a).accepts /\ RawOK(Text(a, "method"), Text(a, "route"))
              <=> Foreseen("request", a)
<1> DEFINE says == Present(a, "body") => Text(a, "method") # "GET"
           ok   == /\ HasText(a, "method") /\ HasText(a, "route") /\ IsObject(a, "query")
                   /\ Text(a, "query") \in {"", "plain"} /\ says /\ ReasonOK(a)
<1>1. /\ Def("request", a) = Request(a)
      /\ Needs("request") = Request(<<>>).needs
      /\ Takes("request") = Request(<<>>).takes
  BY DEF Def, Needs, Takes
<1>2. Request(a).accepts = ok /\ Request(a).says = says
  BY DEF Request, Tool
<1>3. /\ Request(<<>>).needs = {"method", "route"}
      /\ DOMAIN Request(<<>>).takes = {"method", "route", "query", "body", "reason"}
  BY DEF Request, Tool, Reason, ++
<1>4. /\ Request(<<>>).takes.method = Enum(RawMethods)
      /\ Request(<<>>).takes.route = TextLike("route") /\ Request(<<>>).takes.query = ObjArg
      /\ Request(<<>>).takes.body = AnyArg /\ Request(<<>>).takes.reason = TextArg
  BY DEF Request, Tool, Reason, ++
<1> HIDE DEF ok, says
<1>5. AllThere("request", a) <=> There(a, "method") /\ There(a, "route")
  BY <1>1, <1>3 DEF AllThere
<1>6. AllTold("request", a) <=>
         /\ Told(Enum(RawMethods), a, "method") /\ Told(TextLike("route"), a, "route")
         /\ Told(ObjArg, a, "query") /\ Told(AnyArg, a, "body") /\ Told(TextArg, a, "reason")
  BY <1>1, <1>3, <1>4 DEF AllTold
<1>7. Values(a)
  BY ToldByKeys DEF Silent
<1>8. Told(Enum(RawMethods), a, "method")
         <=> IsText(a, "method") /\ Text(a, "method") \in RawMethods \cup {""}
  BY <1>7, EnumTold
<1>9. \A m, text : RawOK(m, text) <=> m \in RawMethods /\ RawOK("GET", text)
  BY DEF RawOK, RawMethods
<1>10. There(a, "method") /\ Told(Enum(RawMethods), a, "method")
         <=> HasText(a, "method") /\ Text(a, "method") \in RawMethods
  BY <1>8 DEF There, HasText, IsText, Text, Blank, RawMethods
<1>11. There(a, "route") /\ Told(TextLike("route"), a, "route")
         <=> HasText(a, "route") /\ RawOK("GET", Text(a, "route"))
  <2>1. TextLike("route").k = "string" /\ TextLike("route").of = "route"
    BY DEF TextLike, Arg
  <2>2. a["route"].s # "" =>
           (Passes(TextLike("route"), a["route"]) <=>
              /\ a["route"].k = "string" /\ a["route"].s \in DOMAIN Paths
              /\ RawOK("GET", a["route"].s))
    BY <2>1, RoutePasses
  <2>3. Present(a, "route") /\ a["route"].k = "string" =>
           Blank(a["route"].s) \/ a["route"].s \in DOMAIN Paths
    BY DEF Askable, Sendable, Present
  <2>4. Blank("")
    BY DEF Blank
  <2>5. CASE There(a, "route")
    <3>1. Present(a, "route") /\ (a["route"].k = "string" => a["route"].s # "")
      BY <2>4, <2>5 DEF There
    <3>2. HasText(a, "route") <=> a["route"].k = "string"
      BY <2>5, <3>1 DEF There, HasText, IsText, Text
    <3>3. CASE a["route"].k = "string"
      <4>1. a["route"].s \in DOMAIN Paths
        BY <2>3, <2>5, <3>3 DEF There
      <4>2. Text(a, "route") = a["route"].s
        BY <3>1 DEF Text
      <4> QED  BY <2>2, <2>5, <3>1, <3>2, <3>3, <4>1, <4>2 DEF Told
    <3>4. CASE a["route"].k # "string"
      <4>1. ~Passes(TextLike("route"), a["route"])
        <5>1. ~Admits(TextLike("route"), a["route"])
          BY <2>1, <3>4, AdmitsByType
        <5>2. ~Unchecked(TextLike("route"), a["route"])
          BY <2>1, <3>4, EmptyText DEF Unchecked
        <5> QED  BY <5>1, <5>2 DEF Passes
      <4> QED  BY <3>1, <3>2, <3>4, <4>1 DEF Told
    <3> QED  BY <3>3, <3>4
  <2>6. CASE ~There(a, "route")
    BY <2>4, <2>6 DEF There, HasText, IsText, Text
  <2> QED  BY <2>5, <2>6
<1>12. /\ Told(ObjArg, a, "query") <=> IsObject(a, "query") /\ Text(a, "query") \in {"", "plain"}
       /\ Told(AnyArg, a, "body")
  BY <1>7, OthersTold
<1>13. Told(TextArg, a, "reason") <=> ReasonOK(a)
  BY <1>7, TextsTold DEF ReasonOK
<1>14. "embeds" \notin DOMAIN Takes("request")
  BY <1>1, <1>3
<1>15. Foreseen("request", a) <=> AllThere("request", a) /\ AllTold("request", a) /\ says
  BY <1>1, <1>2, <1>14, ToldByKeys DEF Silent
<1>16. Def("request", a).accepts <=> ok
  BY <1>1, <1>2
<1>17. RawOK(Text(a, "method"), Text(a, "route"))
          <=> Text(a, "method") \in RawMethods /\ RawOK("GET", Text(a, "route"))
  BY <1>9
<1> QED  BY <1>5, <1>6, <1>10, <1>11, <1>12, <1>13, <1>15, <1>16, <1>17 DEF ok

(* Every tool whose requests cannot be refused on their way out.           *)
LEMMA ToolTold ==
    ASSUME NEW t \in (BotTools \cup EventTools \cup WebhookTools) \ (Reactions \cup {"request"}),
           NEW a, Askable(t, a)
    PROVE  Def(t, a).accepts <=> Foreseen(t, a)
<1>1. CASE t \in {"get_guild", "list_channels", "list_active_threads", "list_roles"}
  <2>1. PICK route : Def(t, a) = Reads(a, {"guild_id"}, route)
                     /\ Def(t, <<>>) = Reads(<<>>, {"guild_id"}, route)
    BY <1>1 DEF Def, GetGuild, ListChannels, ListActiveThreads, ListRoles
  <2> QED  BY <1>1, <2>1, ReadsTold DEF Silent, Needs, Takes, IDNames
<1>2. CASE t = "get_channel"
  <2>1. Def(t, a) = Reads(a, {"channel_id"}, InChannel)
        /\ Def(t, <<>>) = Reads(<<>>, {"channel_id"}, InChannel)
    BY <1>2 DEF Def, GetChannel, InChannel
  <2> QED  BY <1>2, <2>1, ReadsTold DEF Silent, Needs, Takes, IDNames
<1>3. CASE t = "get_message"
  <2>1. Def(t, a) = Reads(a, ChanMsg, TheMessage) /\ Def(t, <<>>) = Reads(<<>>, ChanMsg, TheMessage)
    BY <1>3 DEF Def, GetMessage
  <2> QED  BY <1>3, <2>1, ReadsTold DEF Silent, Needs, Takes, IDNames, ChanMsg
<1>4. CASE t = "get_member"
  <2>1. Def(t, a) = Reads(a, GuildUser, TheMember)
        /\ Def(t, <<>>) = Reads(<<>>, GuildUser, TheMember)
    BY <1>4 DEF Def, GetMember
  <2> QED  BY <1>4, <2>1, ReadsTold DEF Silent, Needs, Takes, IDNames, GuildUser
<1>5. CASE t \in {"add_role", "remove_role"}
  <2> DEFINE keys  == GuildUser \cup {"role_id"}
             route == <<"guilds", "guild_id", "members", "user_id", "roles", "role_id">>
  <2>1. PICK hint, method : Def(t, a) = Does(hint, a, keys, method, route)
                            /\ Def(t, <<>>) = Does(hint, <<>>, keys, method, route)
    BY <1>5 DEF Def, AddRole, RemoveRole, RoleTool
  <2>2. keys \subseteq IDNames
    BY DEF IDNames, GuildUser
  <2> HIDE DEF keys, route
  <2> QED  BY <1>5, <2>1, <2>2, DoesTold DEF Silent, Needs, Takes
<1>6. CASE t \in {"kick_member", "unban_member"}
  <2>1. PICK hint, method, route : Def(t, a) = Does(hint, a, GuildUser, method, route)
                                   /\ Def(t, <<>>) = Does(hint, <<>>, GuildUser, method, route)
    BY <1>6 DEF Def, KickMember, UnbanMember
  <2>2. GuildUser \subseteq IDNames
    BY DEF IDNames, GuildUser
  <2> QED  BY <1>6, <2>1, <2>2, DoesTold DEF Silent, Needs, Takes
<1>7. CASE t \in EventTools \cup WebhookTools
  BY <1>7, PollEventsTold, WaitForMessageTold, WebhookGetTold, WebhookSendTold,
     WebhookGetMessageTold, WebhookEditMessageTold, WebhookDeleteMessageTold
  DEF EventTools, WebhookTools
<1>8. CASE t \in {"get_me", "list_guilds", "read_messages", "send_message", "edit_message",
                  "delete_message", "pin_message", "search_messages", "send_dm"}
  BY <1>8, GetMeTold, ListGuildsTold, ReadMessagesTold, SendMessageTold, EditMessageTold,
     DeleteMessageTold, PinMessageTold, SearchMessagesTold, SendDMTold
<1>9. CASE t \in {"create_thread", "create_channel", "edit_channel", "delete_channel",
                  "list_members", "search_members", "timeout_member", "ban_member"}
  BY <1>9, CreateThreadTold, CreateChannelTold, EditChannelTold, DeleteChannelTold,
     ListMembersTold, SearchMembersTold, TimeoutMemberTold, BanMemberTold
<1> QED
  BY <1>1, <1>2, <1>3, <1>4, <1>5, <1>6, <1>7, <1>8, <1>9
  DEF BotTools, Discovery, Messaging, Channels, Guilds, EventTools, WebhookTools, Reactions

-----------------------------------------------------------------------------
(* The error of a parameter that is found when a request is made: only an  *)
(* emoji and the route of discord_request are looked at that late.         *)
LEMMA EmojiError ==
    ASSUME NEW params, NEW route, Fills(DOMAIN params, route), "emoji" \in DOMAIN params,
           \A name \in DOMAIN params \ {"emoji"} : Fits(name, params[name])
    PROVE  ExpandError(route, params) = "none" <=> Fits("emoji", params["emoji"])
<1>1. Fits("emoji", params["emoji"]) => ExpandError(route, params) = "none"
  BY FilledRoute
<1>2. ~Fits("emoji", params["emoji"]) => ExpandError(route, params) # "none"
  <2> SUFFICES ASSUME ~Fits("emoji", params["emoji"]) PROVE ExpandError(route, params) # "none"
    OBVIOUS
  <2> DEFINE missing == {i \in Holes(route) : route[i] \notin DOMAIN params}
             unfit   == {i \in Holes(route) \ missing : ~Fits(route[i], params[route[i]])}
  <2>1. PICK i \in Holes(route) : route[i] = "emoji"
    BY DEF Fills
  <2>2. i \in unfit
    BY <2>1
  <2>3. unfit # {}
    BY <2>2
  <2> HIDE DEF unfit, missing
  <2> QED  BY <2>3 DEF ExpandError, missing, unfit
<1> QED  BY <1>1, <1>2

LEMMA ReactionError ==
    ASSUME NEW t \in Reactions, NEW a, Asked(t, a)
    PROVE  \E r : /\ Def(t, a).requests = <<r>>
                  /\ ExpandError(r.route, r.params) = "none" <=> EmojiFits(a)
<1>1. CASE t = "add_reaction"
  <2> DEFINE params == EmojiIDs(a)
             r      == Req("PUT", OwnReaction, params)
  <2>1. Def(t, a).requests = <<r>> /\ Def(t, a).accepts
    BY <1>1 DEF Asked, Def, AddReaction, Tool
  <2>2. \A key \in ChanMsg : HasID(a, key)
    BY <1>1, <2>1 DEF Def, AddReaction, Tool, ChanMsgOK, ChanMsg
  <2>3. DOMAIN params = ChanMsg \cup {"emoji"}
        /\ params["emoji"] = NormalizeEmoji(Text(a, "emoji"))
        /\ \A key \in ChanMsg : params[key] = Text(a, key)
    BY DEF EmojiIDs, ChanMsgIDs, IDs, ChanMsg, ++
  <2>4. r.params = params /\ r.route = OwnReaction
    BY DEF Req
  <2>5. \A name \in ChanMsg : Fits(name, params[name])
    BY <2>2, <2>3 DEF ChanMsg, Fits, IDNames, HasID, CheckID, Text
  <2>6. Fills(DOMAIN params, OwnReaction)
    BY <2>3, ChannelRoutesFilled
  <2> HIDE DEF r, params
  <2>7. ExpandError(OwnReaction, params) = "none" <=> Fits("emoji", params["emoji"])
    BY <2>3, <2>5, <2>6, EmojiError
  <2> QED  BY <2>1, <2>3, <2>4, <2>7 DEF EmojiFits
<1>2. CASE t = "remove_reaction"
  <2> DEFINE route  == IF Text(a, "user_id") = "" THEN OwnReaction ELSE UserReaction
             params == EmojiIDs(a) ++ Given(a, {"user_id"})
             r      == Req("DELETE", route, params)
  <2>1. Def(t, a).requests = <<r>> /\ Def(t, a).accepts
    BY <1>2 DEF Asked, Def, RemoveReaction, Tool
  <2>2. (\A key \in ChanMsg : HasID(a, key)) /\ MayID(a, "user_id")
    BY <1>2, <2>1 DEF Def, RemoveReaction, Tool, ChanMsgOK, ChanMsg
  <2>3. r.params = params /\ r.route = route
    BY DEF Req
  <2>4. DOMAIN EmojiIDs(a) = ChanMsg \cup {"emoji"}
        /\ EmojiIDs(a)["emoji"] = NormalizeEmoji(Text(a, "emoji"))
        /\ \A key \in ChanMsg : EmojiIDs(a)[key] = Text(a, key)
    BY DEF EmojiIDs, ChanMsgIDs, IDs, ChanMsg, ++
  <2>5. /\ DOMAIN params = DOMAIN EmojiIDs(a) \cup Set(a, {"user_id"})
        /\ \A key \in DOMAIN EmojiIDs(a) : params[key] = EmojiIDs(a)[key]
        /\ "user_id" \in DOMAIN params => params["user_id"] = Text(a, "user_id")
    BY <2>4 DEF Given, ++, ChanMsg, Set
  <2>6. Set(a, {"user_id"}) = IF Text(a, "user_id") = "" THEN {} ELSE {"user_id"}
    BY <2>2, SnowflakesAssumption, MayIDGiven DEF MayID, Set, Text, CheckID, IsSnowflake, HasID
  <2>7. "user_id" \in Set(a, {"user_id"}) => HasID(a, "user_id")
    BY <2>2, <2>6, MayIDGiven
  <2>8. \A name \in DOMAIN params \ {"emoji"} : Fits(name, params[name])
    <3>1. \A name \in ChanMsg : Fits(name, params[name])
      BY <2>2, <2>4, <2>5 DEF ChanMsg, Fits, IDNames, HasID, CheckID, Text
    <3>2. "user_id" \in Set(a, {"user_id"}) => Fits("user_id", params["user_id"])
      BY <2>5, <2>7 DEF Fits, IDNames, HasID, CheckID, Text
    <3>3. Set(a, {"user_id"}) \subseteq {"user_id"}
      BY DEF Set
    <3> HIDE DEF params
    <3> QED  BY <2>4, <2>5, <3>1, <3>2, <3>3
  <2>9. Fills(DOMAIN params, route)
    <3>1. DOMAIN params = ChanMsg \cup {"emoji"} \cup Set(a, {"user_id"})
      BY <2>4, <2>5
    <3> HIDE DEF params
    <3>2. CASE Text(a, "user_id") = ""
      <4>1. DOMAIN params = ChanMsg \cup {"emoji"}
        BY <2>6, <3>1, <3>2
      <4> QED  BY <3>2, <4>1, ChannelRoutesFilled
    <3>3. CASE Text(a, "user_id") # ""
      <4>1. DOMAIN params = ChanMsg \cup {"emoji", "user_id"}
        BY <2>6, <3>1, <3>3
      <4> QED  BY <3>3, <4>1, ChannelRoutesFilled
    <3> QED  BY <3>2, <3>3
  <2> HIDE DEF r, params, route
  <2>10. ExpandError(route, params) = "none" <=> Fits("emoji", params["emoji"])
    BY <2>4, <2>5, <2>8, <2>9, EmojiError
  <2> QED  BY <2>1, <2>3, <2>4, <2>5, <2>10 DEF EmojiFits
<1> QED  BY <1>1, <1>2 DEF Reactions

(* The call is one that gets to its end, if Discord does not fail.         *)
Goes(t, a) ==
    /\ Def(t, a).accepts
    /\ t \in Reactions => EmojiFits(a)
    /\ t = "request" => RawOK(Text(a, "method"), Text(a, "route"))

LEMMA GoesAsForeseen ==
    ASSUME NEW t \in BotTools \cup EventTools \cup WebhookTools, NEW a, Askable(t, a)
    PROVE  Goes(t, a) <=> Foreseen(t, a)
<1>1. CASE t = "add_reaction"
  BY <1>1, AddReactionTold DEF Goes, Reactions
<1>2. CASE t = "remove_reaction"
  BY <1>2, RemoveReactionTold DEF Goes, Reactions
<1>3. CASE t = "request"
  BY <1>3, RequestTold DEF Goes, Reactions
<1>4. CASE t \notin Reactions \cup {"request"}
  BY <1>4, ToolTold DEF Goes
<1> QED  BY <1>1, <1>2, <1>3, <1>4 DEF Reactions

(* Nothing but what Goes tells of stands between a handler and its first   *)
(* request.                                                                *)
LEMMA FirstRequest ==
    ASSUME NEW t \in BotTools \cup EventTools \cup WebhookTools, NEW a, Asked(t, a)
    PROVE  LET requests == Def(t, a).requests
           IN  /\ Len(requests) = 0 => Goes(t, a)
               /\ t = "request" => requests[1].method = Text(a, "method")
               /\ Len(requests) # 0 /\ t # "request" =>
                    (ExpandError(requests[1].route, requests[1].params) = "none" <=> Goes(t, a))
<1> DEFINE requests == Def(t, a).requests
<1>1. CASE t \in EventTools
  BY <1>1, EventToolsAskNothing DEF Goes, Asked, EventTools, Reactions
<1>2. CASE t = "request"
  BY <1>2, RequestAsks DEF Goes, Asked
<1>3. CASE t = "send_dm"
  <2>1. PICK r1, r2 : requests = <<r1, r2>> /\ Faithful(t, a, r1)
    BY <1>3, SendDMActs
  <2>2. ExpandError(r1.route, r1.params) = "none" /\ Goes(t, a)
    BY <1>3, <2>1 DEF Faithful, Reactions, Goes, Asked
  <2>3. Len(requests) = 2 /\ requests[1] = r1
    BY <2>1
  <2> QED  BY <1>3, <2>2, <2>3
<1>4. CASE t \in Reactions
  <2>1. PICK r : requests = <<r>> /\ (ExpandError(r.route, r.params) = "none" <=> EmojiFits(a))
    BY <1>4, ReactionError
  <2>2. Goes(t, a) <=> EmojiFits(a)
    BY <1>4 DEF Goes, Asked, Reactions
  <2>3. Len(requests) = 1 /\ requests[1] = r /\ t # "request"
    BY <1>4, <2>1 DEF Reactions
  <2> QED  BY <2>1, <2>2, <2>3
<1>5. CASE t \in (BotTools \cup WebhookTools) \ (Reactions \cup {"send_dm", "request"})
  <2>1. PICK r : ActsBy(t, a, r)
    BY <1>5, ToolActs
  <2>2. ExpandError(r.route, r.params) = "none" /\ Goes(t, a)
    BY <1>5, <2>1 DEF ActsBy, Faithful, Goes, Asked
  <2>3. requests = <<r>>
    BY <2>1 DEF ActsBy
  <2>4. Len(requests) = 1 /\ requests[1] = r
    <3> HIDE DEF requests
    <3> QED  BY <2>3
  <2> QED  BY <1>5, <2>2, <2>4
<1> QED  BY <1>1, <1>2, <1>3, <1>4, <1>5

(* The arguments stay ones a client can put together, and a call that was  *)
(* looked at is refused for them exactly if it does not go.                *)
ToldInv ==
    /\ Askable(tool, args)
    /\ phase # "asking" => (outcome = "arg" <=> ~Goes(tool, args))

LEMMA InitToldInv == Init => ToldInv
<1> SUFFICES ASSUME Init PROVE ToldInv
  OBVIOUS
<1>1. DOMAIN args \subseteq DOMAIN Takes(tool)
      /\ \A key \in DOMAIN args : args[key] = Usual(key, Takes(tool)[key])
  <2>1. Needs(tool) \subseteq DOMAIN Takes(tool)
    BY NeedsKnown DEF Init
  <2>2. tool = "edit_channel" => "topic" \in DOMAIN Takes(tool)
    <3>1. DOMAIN EditChannel(<<>>).takes =
             {"channel_id", "parent_id", "name", "topic", "nsfw", "position", "archived", "locked",
              "reason", "format"}
      BY DEF EditChannel, Tool, IDArgs, Reason, Format, ++
    <3> QED  BY <3>1 DEF Takes, Def
  <2> QED  BY <2>1, <2>2 DEF Init, Plain
<1>2. \A key \in DOMAIN Takes(tool) : key \in DOMAIN Known(tool)
                                     /\ Known(tool)[key] = Takes(tool)[key]
  BY DEF Known, ++
<1>3. \A key \in DOMAIN args : Sendable(key, args[key])
  BY <1>1, <1>2, ValuesAssumption DEF Init
<1> QED  BY <1>1, <1>2, <1>3 DEF Init, ToldInv, Askable

LEMMA NextToldInv == CallInv /\ CallInv' /\ ToldInv /\ [Next]_vars => ToldInv'
<1> SUFFICES ASSUME CallInv, CallInv', ToldInv, [Next]_vars PROVE ToldInv'
  OBVIOUS
<1>1. ASSUME NEW key \in DOMAIN Known(tool), Give(key) PROVE ToldInv'
  <2>1. PICK v \in Sample(key, Known(tool)[key]) : args' = [k \in {key} |-> v] ++ args
    BY <1>1 DEF Give
  <2>2. Sendable(key, v)
    BY <1>1, <2>1, ValuesAssumption DEF CallInv
  <2>3. DOMAIN args' = {key} \cup DOMAIN args /\ args'[key] = v
        /\ \A k \in DOMAIN args \ {key} : args'[k] = args[k]
    BY <2>1 DEF ++
  <2> QED  BY <1>1, <2>2, <2>3 DEF Give, ToldInv, Askable
<1>2. ASSUME NEW key \in DOMAIN args, LeaveOut(key) PROVE ToldInv'
  BY <1>2 DEF LeaveOut, ToldInv, Askable
<1>3. CASE Refuse
  BY <1>3 DEF Refuse, End, ToldInv, Goes
<1>4. CASE Handle
  <2> DEFINE requests == Def(tool, args).requests
             r        == requests[1]
  <2>1. Asked(tool, args) /\ tool \in BotTools \cup EventTools \cup WebhookTools
        /\ Len(sent) = 0 /\ outcome = "none"
    BY <1>4 DEF Handle, CallInv, Asked
  <2>2. /\ Len(requests) = 0 => Goes(tool, args)
        /\ tool = "request" => r.method = Text(args, "method")
        /\ Len(requests) # 0 /\ tool # "request" =>
              (ExpandError(r.route, r.params) = "none" <=> Goes(tool, args))
    BY <2>1, FirstRequest
  <2>3. Right(tool, args, requests)
    BY <2>1, RequestsRight
  <2>4. tool \notin Reactions \/ tool # "request"
    BY DEF Reactions
  <2>5. Len(requests) # 0 => /\ Error(r) = "none" <=> Goes(tool, args)
                             /\ Error(r) \in {"none", "arg"}
    <3>1. CASE tool = "request"
      BY <2>1, <2>2, <3>1 DEF Error, Goes, Asked, Reactions
    <3>2. CASE tool # "request"
      <4>1. Len(requests) # 0 => ExpandError(r.route, r.params) \in {"none", "arg"}
        BY <2>3, <3>2 DEF Right, NoMistake
      <4> QED  BY <2>2, <3>2, <4>1 DEF Error
    <3> QED  BY <3>1, <3>2
  <2>6. /\ UNCHANGED <<tool, args>>
        /\ \/ Len(requests) = 0 /\ outcome' = "ok"
           \/ Len(requests) # 0 /\ Error(r) # "none" /\ outcome' = Error(r)
           \/ Len(requests) # 0 /\ Error(r) = "none" /\ outcome' = outcome
    <3>1. Len(sent) + 1 = 1
      BY <2>1
    <3> QED  BY <1>4, <2>1, <3>1 DEF Handle, Proceed, End
  <2> HIDE DEF requests, r
  <2> QED  BY <2>1, <2>2, <2>5, <2>6 DEF ToldInv
<1>5. CASE Answered
  <2>1. sent # <<>> /\ outcome = "none" /\ Goes(tool, args) /\ UNCHANGED <<tool, args>>
    BY <1>5 DEF Answered, CallInv, ToldInv
  <2>2. outcome' # "arg"
    <3>1. outcome' = outcome \/ outcome' = "ok" \/ sent' = sent
      BY <1>5 DEF Answered, Proceed, End
    <3> QED  BY <2>1, <3>1 DEF CallInv
  <2> QED  BY <2>1, <2>2 DEF ToldInv
<1>6. CASE Failed
  BY <1>6 DEF Failed, End, CallInv, ToldInv
<1>7. CASE UNCHANGED vars
  BY <1>7 DEF ToldInv, vars
<1> QED  BY <1>1, <1>2, <1>3, <1>4, <1>5, <1>6, <1>7 DEF Next

(* Whatever a client gives to whichever tool: between what definitions     *)
(* tell and what handlers refuse there are the differences that Untold,    *)
(* UntoldOf and Unchecked list, and no other.                              *)
THEOREM SchemaGapsComplete == Spec => []SchemaGaps
<1>1. CallInv /\ ToldInv => SchemaGaps
  BY GoesAsForeseen DEF CallInv, ToldInv, SchemaGaps
<1> QED  BY <1>1, InvariantCallInv, InitToldInv, NextToldInv, PTL DEF Spec

=============================================================================
