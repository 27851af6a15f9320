----------------------------- MODULE Catalogue -----------------------------
(***************************************************************************)
(* internal/tools: every tool, as the definition clients see and as what   *)
(* its handler does with arguments a.                                      *)
(*                                                                         *)
(*   hint      readOnly, mutating or destructive                           *)
(*   needs     the arguments its schema marks as required                  *)
(*   takes     what schema and description say of each argument, and no    *)
(*             more: a rule that only the handler knows is not in here     *)
(*   says      what the descriptions say of several arguments together     *)
(*   accepts   the checks of the handler                                   *)
(*   requests  what the handler then asks of Discord, one after the other  *)
(*                                                                         *)
(* What a handler makes of the answers is text for the reader and left     *)
(* out; that it needs the first answer for the second request is not.      *)
(***************************************************************************)
EXTENDS Routes

CONSTANTS
    Webhook,     \* of a webhook principal: its id and token
    DMChannel    \* the channel Discord opens for a direct message

(* Discord names the channel by an ID; Resolve has parsed the webhook.     *)
ASSUME AnswerAssumption == DMChannel \in Snowflakes
ASSUME WebhookAssumption == Webhook.id \in Snowflakes /\ Webhook.token \in Tokens

(* What a definition says of one argument: its JSON type, what it stands   *)
(* for, the texts of an enumeration, the bounds of a number or a length.   *)
(* Numbers need not be whole, and items only have the type of the schema.  *)
Arg(k, of, texts, lo, hi) == [k |-> k, of |-> of, texts |-> texts, lo |-> lo, hi |-> hi]
TextLike(of)   == Arg("string", of, {}, 0, 0)
IDArg          == TextLike("id")
TextArg        == TextLike("text")
ShortArg       == TextLike("short")        \* "up to 2000", "1-100 characters"
Enum(texts)    == Arg("string", "enum", texts, 0, 0)
IntArg(lo, hi) == Arg("number", "range", {}, lo, hi)
NumberArg      == Arg("number", "any", {}, 0, 0)
BoolArg        == Arg("bool", "any", {}, 0, 0)
ListArg(of, max) == Arg("list", of, {}, 0, max)
ObjArg         == Arg("object", "any", {}, 0, 0)
AnyArg         == Arg("any", "any", {}, 0, 0)

IDArgs(keys) == [key \in keys |-> IDArg]
Format  == [format |-> Enum({"text", "json"})]
Reason  == [reason |-> TextArg]
Message == [content |-> TextArg, embeds |-> ListArg("object", 10), allow_mentions |-> BoolArg]
Short   == [content |-> ShortArg]
Files   == [attachments |-> ListArg("file", 10)]

(* A request; the sets and records that are left out are empty. *)
Req(method, route, params) ==
    [method |-> method, route |-> route, params |-> params, query |-> <<>>, body |-> {},
     reason |-> ""]

IDs(a, keys) == [key \in keys |-> Text(a, key)]
Given(a, keys) == [key \in Set(a, keys) |-> Text(a, key)]

(* A tool that makes one request. *)
Tool(hint, needs, takes, accepts, request) ==
    [hint |-> hint, needs |-> needs, takes |-> takes, says |-> TRUE, accepts |-> accepts,
     requests |-> <<request>>]

(* "Provide content, embeds or attachments." *)
SaysBody(a) == Text(a, "content") # "" \/ Len_(a, "embeds") > 0 \/ Len_(a, "attachments") > 0

-----------------------------------------------------------------------------
(* discovery.go *)
GetMe(a) == Tool("readOnly", {}, Format, FormatOK(a), Req("GET", <<"users", "@me">>, <<>>))

ListGuilds(a) ==
    Tool("readOnly", {}, IDArgs({"after"}) ++ [limit |-> IntArg(1, 200)] ++ Format,
         FormatOK(a) /\ MayID(a, "after") /\ IsInt(a, "limit", 1, 200),
         [Req("GET", <<"users", "@me", "guilds">>, <<>>) EXCEPT !.query = Given(a, {"after"})])

(* The tools that read a thing by the IDs in its route. *)
Reads(a, keys, route) ==
    Tool("readOnly", keys, IDArgs(keys) ++ Format,
         FormatOK(a) /\ \A key \in keys : HasID(a, key),
         Req("GET", route, IDs(a, keys)))

GetGuild(a)     == Reads(a, {"guild_id"}, <<"guilds", "guild_id">>)
ListChannels(a) == Reads(a, {"guild_id"}, <<"guilds", "guild_id", "channels">>)
GetChannel(a)   == Reads(a, {"channel_id"}, <<"channels", "channel_id">>)

-----------------------------------------------------------------------------
(* messages.go *)
ChanMsg == {"channel_id", "message_id"}

ChanMsgIDs(a) == IDs(a, ChanMsg)
ChanMsgOK(a) == HasID(a, "channel_id") /\ HasID(a, "message_id")

InChannel  == <<"channels", "channel_id">>
Messages   == <<"channels", "channel_id", "messages">>
TheMessage == <<"channels", "channel_id", "messages", "message_id">>

(* "Use at most one of before, after, around." *)
ReadMessages(a) ==
    LET anchors == Set(a, {"before", "after", "around"})
    IN  [Tool("readOnly", {"channel_id"},
              IDArgs({"channel_id", "before", "after", "around"})
                ++ [limit |-> IntArg(1, 100)] ++ Format,
              /\ FormatOK(a) /\ HasID(a, "channel_id") /\ IsInt(a, "limit", 1, 100)
              /\ Cardinality(anchors) <= 1 /\ \A key \in anchors : HasID(a, key),
              [Req("GET", Messages, IDs(a, {"channel_id"})) EXCEPT !.query = Given(a, anchors)])
         EXCEPT !.says = Cardinality(anchors) <= 1]

GetMessage(a) == Reads(a, ChanMsg, TheMessage)

(* "Provide content, embeds or attachments." *)
SendMessage(a) ==
    [Tool("mutating", {"channel_id"},
          IDArgs({"channel_id", "reply_to"}) ++ Short ++ Message ++ Files ++ Format,
          FormatOK(a) /\ HasID(a, "channel_id") /\ PayloadOK(a, TRUE) /\ MayID(a, "reply_to"),
          [Req("POST", Messages, IDs(a, {"channel_id"})) EXCEPT
             !.body = Payload(a) \cup {key \in {"message_reference"} : Text(a, "reply_to") # ""}])
     EXCEPT !.says = SaysBody(a)]

(* "Replace its content and/or embeds." *)
EditMessage(a) ==
    [Tool("mutating", ChanMsg, IDArgs(ChanMsg) ++ Message ++ Format,
          FormatOK(a) /\ ChanMsgOK(a) /\ PayloadOK(a, FALSE),
          [Req("PATCH", TheMessage, ChanMsgIDs(a)) EXCEPT !.body = Payload(a)])
     EXCEPT !.says = SaysBody(a)]

DeleteMessage(a) ==
    Tool("destructive", ChanMsg, IDArgs(ChanMsg) ++ Reason, ChanMsgOK(a) /\ ReasonOK(a),
         [Req("DELETE", TheMessage, ChanMsgIDs(a)) EXCEPT !.reason = Text(a, "reason")])

PinMessage(a) ==
    Tool("mutating", ChanMsg \cup {"pinned"}, IDArgs(ChanMsg) ++ [pinned |-> BoolArg] ++ Reason,
         ChanMsgOK(a) /\ Present(a, "pinned") /\ IsBool(a, "pinned") /\ ReasonOK(a),
         [Req(IF BoolOr(a, "pinned", FALSE) THEN "PUT" ELSE "DELETE",
              <<"channels", "channel_id", "messages", "pins", "message_id">>, ChanMsgIDs(a))
          EXCEPT !.reason = Text(a, "reason")])

(* "Unicode emoji or custom emoji as name:id or <:name:id>": those of the  *)
(* texts here that are one.                                                *)
Emojis == {"name:1", "<:name:1>"}

(* normalizeEmoji: <:name:id> as it stands in a message becomes name:id.   *)
NormalizeEmoji(s) == IF s = "<:name:1>" THEN "name:1" ELSE s

EmojiIDs(a)  == ChanMsgIDs(a) ++ [emoji |-> NormalizeEmoji(Text(a, "emoji"))]
OwnReaction  == <<"channels", "channel_id", "messages", "message_id", "reactions", "emoji", "@me">>
UserReaction == <<"channels", "channel_id", "messages", "message_id", "reactions", "emoji",
                  "user_id">>

AddReaction(a) ==
    Tool("mutating", ChanMsg \cup {"emoji"}, IDArgs(ChanMsg) ++ [emoji |-> TextLike("emoji")],
         ChanMsgOK(a) /\ HasText(a, "emoji"), Req("PUT", OwnReaction, EmojiIDs(a)))

RemoveReaction(a) ==
    Tool("destructive", ChanMsg \cup {"emoji"},
         IDArgs(ChanMsg \cup {"user_id"}) ++ [emoji |-> TextLike("emoji")],
         ChanMsgOK(a) /\ HasText(a, "emoji") /\ MayID(a, "user_id"),
         Req("DELETE", IF Text(a, "user_id") = "" THEN OwnReaction ELSE UserReaction,
             EmojiIDs(a) ++ Given(a, {"user_id"})))

SearchMessages(a) ==
    Tool("readOnly", {"guild_id"},
         IDArgs({"guild_id", "channel_id", "author_id"}) ++ [content |-> TextArg,
             limit |-> IntArg(1, 25), offset |-> IntArg(0, 9975)] ++ Format,
         /\ FormatOK(a) /\ HasID(a, "guild_id") /\ IsText(a, "content")
         /\ MayID(a, "channel_id") /\ MayID(a, "author_id")
         /\ IsInt(a, "limit", 1, 25) /\ IsInt(a, "offset", 0, 9975),
         [Req("GET", <<"guilds", "guild_id", "messages", "search">>, IDs(a, {"guild_id"}))
            EXCEPT !.query = Given(a, {"content", "channel_id", "author_id"})])

(* fault: the message is looked at only when its channel is open *)
SendDMUnchecked(a) ==
    [SendMessage(a) EXCEPT
        !.needs = {"user_id"}, !.takes = IDArgs({"user_id"}) ++ Message ++ Files ++ Format,
        !.says = TRUE,
        !.accepts = FormatOK(a) /\ HasID(a, "user_id"),
        !.requests = <<[Req("POST", <<"users", "@me", "channels">>, <<>>)
                        EXCEPT !.body = {"recipient_id"}],
                       [Req("POST", Messages,
                            [channel_id |-> IF PayloadOK(a, TRUE) THEN DMChannel ELSE ""])
                          EXCEPT !.body = Payload(a)]>>]

(* Two requests: the channel, as Discord names it, and the message in it.  *)
(* That there must be something to send is not said.                       *)
SendDM(a) ==
    [SendMessage(a) EXCEPT
        !.needs = {"user_id"}, !.takes = IDArgs({"user_id"}) ++ Message ++ Files ++ Format,
        !.says = TRUE,
        !.accepts = FormatOK(a) /\ HasID(a, "user_id") /\ PayloadOK(a, TRUE),
        !.requests = <<[Req("POST", <<"users", "@me", "channels">>, <<>>)
                        EXCEPT !.body = {"recipient_id"}],
                       [Req("POST", Messages, [channel_id |-> DMChannel])
                        EXCEPT !.body = Payload(a)]>>]

-----------------------------------------------------------------------------
(* channels.go *)
(* "Standalone threads only" (private). *)
CreateThread(a) ==
    LET standalone == Text(a, "message_id") = ""
        alone      == BoolOr(a, "private", FALSE) => standalone
        archive    == {60, 1440, 4320, 10080}
    IN  [Tool("mutating", {"channel_id", "name"},
              IDArgs({"channel_id", "message_id"}) ++ [name |-> ShortArg, private |-> BoolArg,
                  auto_archive_minutes |-> Arg("number", "archive", {}, 60, 10080)] ++ Reason
                      ++ Format,
              /\ FormatOK(a) /\ HasID(a, "channel_id") /\ HasText(a, "name")
              /\ MayID(a, "message_id") /\ IsBool(a, "private")
              /\ IsInt(a, "auto_archive_minutes", 60, 10080)
              /\ IntOr(a, "auto_archive_minutes", 1440) \in archive
              /\ ReasonOK(a) /\ alone,
              [IF standalone
               THEN [Req("POST", <<"channels", "channel_id", "threads">>, IDs(a, {"channel_id"}))
                       EXCEPT !.body = {"name", "auto_archive_duration", "type"}]
               ELSE [Req("POST", <<"channels", "channel_id", "messages", "message_id", "threads">>,
                         ChanMsgIDs(a))
                       EXCEPT !.body = {"name", "auto_archive_duration"}]
               EXCEPT !.reason = Text(a, "reason")])
         EXCEPT !.says = alone]

ListActiveThreads(a) == Reads(a, {"guild_id"}, <<"guilds", "guild_id", "threads", "active">>)

(* copyOptional: each key by its kind, if it was given. *)
OptionalOK(a, keys) ==
    \A key \in keys :
        CASE key \in IDNames                        -> MayID(a, key)
          [] key \in {"nsfw", "archived", "locked"} -> IsBool(a, key)
          [] key = "position"                       -> IsInt(a, key, 0, 10000)
          [] OTHER                                  -> IsText(a, key)

Optional(a, keys) == {key \in keys : Present(a, key)}

ChannelTypes == {"text", "voice", "category", "announcement", "stage", "forum"}

CreateChannel(a) ==
    LET optional == {"topic", "parent_id", "nsfw"}
    IN  Tool("mutating", {"guild_id", "name"},
             IDArgs({"guild_id", "parent_id"}) ++ [name |-> TextArg, type |-> Enum(ChannelTypes),
                 topic |-> TextArg, nsfw |-> BoolArg] ++ Reason ++ Format,
             /\ FormatOK(a) /\ HasID(a, "guild_id") /\ HasText(a, "name")
             /\ IsText(a, "type") /\ Text(a, "type") \in ChannelTypes \cup {""}
             /\ OptionalOK(a, optional) /\ ReasonOK(a),
             [Req("POST", <<"guilds", "guild_id", "channels">>, IDs(a, {"guild_id"})) EXCEPT
                !.body = {"name", "type"} \cup Optional(a, optional), !.reason = Text(a, "reason")])

(* "Only the fields given are changed": not that one has to be, nor what a *)
(* position may be.                                                        *)
EditChannel(a) ==
    LET fields == {"name", "topic", "parent_id", "nsfw", "position", "archived", "locked"}
    IN  Tool("mutating", {"channel_id"},
             IDArgs({"channel_id", "parent_id"}) ++ [name |-> TextArg, topic |-> TextArg,
                 nsfw |-> BoolArg, position |-> NumberArg, archived |-> BoolArg,
                 locked |-> BoolArg] ++ Reason ++ Format,
             /\ FormatOK(a) /\ HasID(a, "channel_id") /\ OptionalOK(a, fields)
             /\ Optional(a, fields) # {} /\ ReasonOK(a),
             [Req("PATCH", InChannel, IDs(a, {"channel_id"})) EXCEPT
                !.body = Optional(a, fields), !.reason = Text(a, "reason")])

DeleteChannel(a) ==
    Tool("destructive", {"channel_id"}, IDArgs({"channel_id"}) ++ Reason ++ Format,
         FormatOK(a) /\ HasID(a, "channel_id") /\ ReasonOK(a),
         [Req("DELETE", InChannel, IDs(a, {"channel_id"})) EXCEPT !.reason = Text(a, "reason")])

-----------------------------------------------------------------------------
(* members.go *)
GuildUser == {"guild_id", "user_id"}
Members   == <<"guilds", "guild_id", "members">>
TheMember == <<"guilds", "guild_id", "members", "user_id">>
TheBan    == <<"guilds", "guild_id", "bans", "user_id">>

ListMembers(a) ==
    Tool("readOnly", {"guild_id"},
         IDArgs({"guild_id", "after"}) ++ [limit |-> IntArg(1, 1000)] ++ Format,
         FormatOK(a) /\ HasID(a, "guild_id") /\ IsInt(a, "limit", 1, 1000) /\ MayID(a, "after"),
         [Req("GET", Members, IDs(a, {"guild_id"})) EXCEPT !.query = Given(a, {"after"})])

GetMember(a) == Reads(a, GuildUser, TheMember)

SearchMembers(a) ==
    Tool("readOnly", {"guild_id", "query"},
         IDArgs({"guild_id"}) ++ [query |-> TextArg, limit |-> IntArg(1, 1000)] ++ Format,
         FormatOK(a) /\ HasID(a, "guild_id") /\ HasText(a, "query") /\ IsInt(a, "limit", 1, 1000),
         [Req("GET", <<"guilds", "guild_id", "members", "search">>, IDs(a, {"guild_id"}))
          EXCEPT !.query = Given(a, {"query"})])

ListRoles(a) == Reads(a, {"guild_id"}, <<"guilds", "guild_id", "roles">>)

(* The tools that do something to a member and take nothing but its IDs    *)
(* and a reason.                                                           *)
Does(hint, a, keys, method, route) ==
    Tool(hint, keys, IDArgs(keys) ++ Reason,
         (\A key \in keys : HasID(a, key)) /\ ReasonOK(a),
         [Req(method, route, IDs(a, keys)) EXCEPT !.reason = Text(a, "reason")])

RoleTool(a, method, hint) ==
    Does(hint, a, GuildUser \cup {"role_id"}, method,
         <<"guilds", "guild_id", "members", "user_id", "roles", "role_id">>)

AddRole(a)     == RoleTool(a, "PUT", "mutating")
RemoveRole(a)  == RoleTool(a, "DELETE", "destructive")
KickMember(a)  == Does("destructive", a, GuildUser, "DELETE", TheMember)
UnbanMember(a) == Does("mutating", a, GuildUser, "DELETE", TheBan)

TimeoutMember(a) ==
    [Does("destructive", a, GuildUser, "PATCH", TheMember) EXCEPT
        !.needs = @ \cup {"minutes"}, !.takes = @ ++ [minutes |-> IntArg(0, 40320)],
        !.accepts = @ /\ Present(a, "minutes") /\ IsInt(a, "minutes", 0, 28 * 24 * 60),
        !.requests[1].body = {"communication_disabled_until"}]

BanMember(a) ==
    [Does("destructive", a, GuildUser, "PUT", TheBan) EXCEPT
        !.takes = @ ++ [delete_message_hours |-> IntArg(0, 168)],
        !.accepts = @ /\ IsInt(a, "delete_message_hours", 0, 168),
        !.requests[1].body = {"delete_message_seconds"}]

-----------------------------------------------------------------------------
(* webhook.go: the webhook is the principal's, never an argument.          *)
WebhookIDs == [webhook_id |-> Webhook.id, webhook_token |-> Webhook.token]
OwnWebhook == <<"webhooks", "webhook_id", "webhook_token">>
OwnMessage == <<"webhooks", "webhook_id", "webhook_token", "messages", "message_id">>

WebhookGet(a) == Tool("readOnly", {}, Format, FormatOK(a), Req("GET", OwnWebhook, WebhookIDs))

WebhookSend(a) ==
    [Tool("mutating", {}, Short ++ Message ++ Files ++ IDArgs({"thread_id"})
              ++ [username |-> TextArg, avatar_url |-> TextArg] ++ Format,
          /\ FormatOK(a) /\ PayloadOK(a, TRUE) /\ MayID(a, "thread_id")
          /\ IsText(a, "username") /\ IsText(a, "avatar_url"),
          [Req("POST", OwnWebhook, WebhookIDs) EXCEPT !.query = Given(a, {"thread_id"}),
             !.body = Payload(a) \cup Set(a, {"username", "avatar_url"})])
     EXCEPT !.says = SaysBody(a)]

(* fault: the thread is forgotten *)
OnOwnMessageHere(a, hint, method) ==
    Tool(hint, {"message_id"}, IDArgs({"message_id", "thread_id"}),
         HasID(a, "message_id") /\ MayID(a, "thread_id"),
         Req(method, OwnMessage, WebhookIDs ++ IDs(a, {"message_id"})))

(* webhookMessageParams and threadQuery: a message of the webhook.         *)
OnOwnMessage(a, hint, method) ==
    Tool(hint, {"message_id"}, IDArgs({"message_id", "thread_id"}),
         HasID(a, "message_id") /\ MayID(a, "thread_id"),
         [Req(method, OwnMessage, WebhookIDs ++ IDs(a, {"message_id"})) EXCEPT
            !.query = Given(a, {"thread_id"})])

WebhookGetMessage(a) ==
    [OnOwnMessage(a, "readOnly", "GET") EXCEPT
        !.takes = @ ++ Format, !.accepts = @ /\ FormatOK(a)]

WebhookEditMessage(a) ==
    [OnOwnMessage(a, "mutating", "PATCH") EXCEPT
        !.takes = @ ++ Message ++ Format,
        !.accepts = @ /\ FormatOK(a) /\ PayloadOK(a, FALSE), !.requests[1].body = Payload(a)]

WebhookDeleteMessage(a) == OnOwnMessage(a, "destructive", "DELETE")

-----------------------------------------------------------------------------
(* request.go: the route goes to Discord as it is, see RawOK.              *)
(* "not allowed with GET" (body).                                          *)
Request(a) ==
    LET bodiless == Present(a, "body") => Text(a, "method") # "GET"
    IN  [Tool("destructive", {"method", "route"},
              [method |-> Enum(RawMethods), route |-> TextLike("route"), query |-> ObjArg,
               body |-> AnyArg] ++ Reason,
              /\ HasText(a, "method") /\ HasText(a, "route") /\ IsObject(a, "query")
              /\ Text(a, "query") \in {"", "plain"}                     \* toQuery
              /\ bodiless /\ ReasonOK(a),
              [Req(Text(a, "method"), <<>>, <<>>) EXCEPT
                 !.body = Optional(a, {"body"}), !.reason = Text(a, "reason")])
         EXCEPT !.says = bodiless]

(* events.go: the two tools that read the event buffer, and ask nothing of *)
(* Discord.  The buffer refuses a cursor it never handed out; EventTools   *)
(* has what these tools do beyond their arguments.                         *)
CursorOK(a) == IsText(a, "cursor") /\ Text(a, "cursor") # "garbled"

PollEvents(a) ==
    [Tool("readOnly", {}, IDArgs({"guild_id", "channel_id"}) ++ [cursor |-> TextLike("cursor"),
              types |-> ListArg("text", 1), limit |-> IntArg(1, 100)] ++ Format,
          /\ FormatOK(a) /\ CursorOK(a) /\ IsStringList(a, "types")
          /\ MayID(a, "guild_id") /\ MayID(a, "channel_id") /\ IsInt(a, "limit", 1, 100),
          Req("", <<>>, <<>>))
     EXCEPT !.requests = <<>>]

WaitForMessage(a) ==
    [Tool("readOnly", {}, IDArgs({"channel_id", "author_id"}) ++ [include_self |-> BoolArg,
              cursor |-> TextLike("cursor"), timeout_seconds |-> IntArg(1, 300)] ++ Format,
          /\ FormatOK(a) /\ MayID(a, "channel_id") /\ MayID(a, "author_id")
          /\ IsBool(a, "include_self") /\ CursorOK(a)
          /\ IsInt(a, "timeout_seconds", 1, 300),
          Req("", <<>>, <<>>))
     EXCEPT !.requests = <<>>]

=============================================================================
