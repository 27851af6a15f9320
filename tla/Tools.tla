-------------------------------- MODULE Tools --------------------------------
(***************************************************************************)
(* One call of one tool, from the arguments a client puts together to the  *)
(* requests that leave for Discord: internal/tools/sets.go with every      *)
(* handler of the Catalogue, client.go Do, and what the audit line of      *)
(* tools.go wrap keeps of the call.  Each tool call has its own arguments  *)
(* and shares nothing with another but the client (see RestClient).        *)
(***************************************************************************)
EXTENDS Catalogue

CONSTANTS
    Usual(_, _),   \* a good value for an argument and its Arg
    Sample(_, _),  \* the values a client tries for it
    MaxChanges     \* BOUND: how many arguments differ from a plain good call

VARIABLES
    tool, args,
    changes,       \* auxiliary: the changes the client made
    phase,         \* where the call is
    sent,          \* the requests that left, as the client and the log have them
    outcome

vars == <<tool, args, changes, phase, sent, outcome>>

-----------------------------------------------------------------------------
(* sets.go: the tools of each capability. *)
Discovery == {"get_me", "list_guilds", "get_guild", "list_channels", "get_channel"}
Messaging == {"read_messages", "get_message", "send_message", "edit_message", "delete_message",
              "pin_message", "add_reaction", "remove_reaction", "search_messages", "send_dm"}
Channels  == {"create_thread", "list_active_threads", "create_channel", "edit_channel",
              "delete_channel"}
Guilds    == {"list_members", "get_member", "search_members", "list_roles", "add_role",
              "remove_role", "timeout_member", "kick_member", "ban_member", "unban_member"}
BotTools     == Discovery \cup Messaging \cup Channels \cup Guilds \cup {"request"}
EventTools   == {"poll_events", "wait_for_message"}
WebhookTools == {"webhook_get", "webhook_send", "webhook_get_message", "webhook_edit_message",
                 "webhook_delete_message"}

Def(t, a) ==
    CASE t = "get_me" -> GetMe(a)                   [] t = "list_guilds" -> ListGuilds(a)
      [] t = "get_guild" -> GetGuild(a)             [] t = "list_channels" -> ListChannels(a)
      [] t = "get_channel" -> GetChannel(a)         [] t = "read_messages" -> ReadMessages(a)
      [] t = "get_message" -> GetMessage(a)         [] t = "send_message" -> SendMessage(a)
      [] t = "edit_message" -> EditMessage(a)       [] t = "delete_message" -> DeleteMessage(a)
      [] t = "pin_message" -> PinMessage(a)         [] t = "add_reaction" -> AddReaction(a)
      [] t = "remove_reaction" -> RemoveReaction(a) [] t = "send_dm" -> SendDM(a)
      [] t = "search_messages" -> SearchMessages(a) [] t = "create_thread" -> CreateThread(a)
      [] t = "list_active_threads" -> ListActiveThreads(a)
      [] t = "create_channel" -> CreateChannel(a)   [] t = "edit_channel" -> EditChannel(a)
      [] t = "delete_channel" -> DeleteChannel(a)   [] t = "list_members" -> ListMembers(a)
      [] t = "get_member" -> GetMember(a)           [] t = "search_members" -> SearchMembers(a)
      [] t = "list_roles" -> ListRoles(a)           [] t = "add_role" -> AddRole(a)
      [] t = "remove_role" -> RemoveRole(a)         [] t = "timeout_member" -> TimeoutMember(a)
      [] t = "kick_member" -> KickMember(a)         [] t = "ban_member" -> BanMember(a)
      [] t = "unban_member" -> UnbanMember(a)       [] t = "webhook_get" -> WebhookGet(a)
      [] t = "webhook_send" -> WebhookSend(a)       [] t = "request" -> Request(a)
      [] t = "webhook_get_message" -> WebhookGetMessage(a)
      [] t = "webhook_edit_message" -> WebhookEditMessage(a)
      [] t = "webhook_delete_message" -> WebhookDeleteMessage(a)
      [] t = "poll_events" -> PollEvents(a)         [] t = "wait_for_message" -> WaitForMessage(a)

Takes(t) == Def(t, <<>>).takes
Needs(t) == Def(t, <<>>).needs

-----------------------------------------------------------------------------
(* A good call: what is required, some content, something to change.       *)
Plain(t) ==
    LET keys == Needs(t) \cup ({"content"} \cap DOMAIN Takes(t))
                         \cup IF t = "edit_channel" THEN {"topic"} ELSE {}
    IN  [key \in keys |-> Usual(key, Takes(t)[key])]

(* The arguments a client may add to a call: those of the schema, and      *)
(* files where there may be none.                                          *)
Known(t) == Takes(t) ++ (IF "embeds" \in DOMAIN Takes(t) THEN Files ELSE <<>>)

(* They are JSON values; routes are among the texts that Paths tells of.   *)
Sendable(key, v) ==
    IsValue(v) /\ (key = "route" /\ v.k = "string" => Blank(v.s) \/ v.s \in DOMAIN Paths)

ASSUME ValuesAssumption ==
    \A t \in BotTools \cup EventTools \cup WebhookTools : \A key \in DOMAIN Known(t) :
        \A v \in {Usual(key, Known(t)[key])} \cup Sample(key, Known(t)[key]) : Sendable(key, v)

Init ==
    /\ tool \in BotTools \cup EventTools \cup WebhookTools
    /\ args = Plain(tool)
    /\ changes = 0 /\ phase = "asking" /\ sent = <<>> /\ outcome = "none"

Give(key) ==
    /\ phase = "asking" /\ changes < MaxChanges /\ changes' = changes + 1
    /\ \E v \in Sample(key, Known(tool)[key]) : args' = [k \in {key} |-> v] ++ args
    /\ UNCHANGED <<tool, phase, sent, outcome>>

LeaveOut(key) ==
    /\ phase = "asking" /\ changes < MaxChanges /\ changes' = changes + 1
    /\ args' = [k \in DOMAIN args \ {key} |-> args[k]]
    /\ UNCHANGED <<tool, phase, sent, outcome>>

-----------------------------------------------------------------------------
(* Do and DoRaw up to the wire: an error, or the request with its path,    *)
(* its bucket and the route the recorder keeps.                            *)
Error(r) ==
    IF tool = "request"
    THEN IF RawOK(r.method, Text(args, "route")) THEN "none" ELSE "arg"
    ELSE ExpandError(r.route, r.params)

Wire(r) ==
    LET raw  == Paths[Text(args, "route")].segs
        path == Expand(r.route, r.params)
    IN  IF tool = "request"
        THEN [req |-> r, path |-> raw, bucket |-> <<r.method, raw>>, logged |-> RedactRoute(raw)]
        ELSE [req |-> r, path |-> path, bucket |-> Bucket(r.method, r.route, r.params),
              logged |-> r.route]

End(o) == phase' = "done" /\ outcome' = o

(* The handler goes on to the request after those sent, or returns.        *)
Proceed ==
    LET requests == Def(tool, args).requests
        r        == requests[Len(sent) + 1]
    IN  IF Len(sent) = Len(requests) THEN End("ok") /\ UNCHANGED sent
        ELSE IF Error(r) # "none" THEN End(Error(r)) /\ UNCHANGED sent
        ELSE /\ sent' = Append(sent, Wire(r))
             /\ phase' = "sent" /\ UNCHANGED outcome

Refuse ==
    /\ phase = "asking" /\ ~Def(tool, args).accepts
    /\ End("arg")
    /\ UNCHANGED <<tool, args, changes, sent>>

Handle ==
    /\ phase = "asking" /\ Def(tool, args).accepts
    /\ Proceed
    /\ UNCHANGED <<tool, args, changes>>

Answered ==
    /\ phase = "sent"
    /\ Proceed
    /\ UNCHANGED <<tool, args, changes>>

(* Discord refused, did not answer, or answered what does not decode.      *)
Failed ==
    /\ phase = "sent"
    /\ End("failed")
    /\ UNCHANGED <<tool, args, changes, sent>>

Next ==
    \/ \E key \in DOMAIN Known(tool) : Give(key)
    \/ \E key \in DOMAIN args : LeaveOut(key)
    \/ Refuse \/ Handle \/ Answered \/ Failed

Spec == Init /\ [][Next]_vars

-----------------------------------------------------------------------------
(* Every variable has its type. *)
TypeOK ==
    /\ tool \in BotTools \cup EventTools \cup WebhookTools
    /\ \A key \in DOMAIN args : args[key].k \in {"string", "number", "bool", "list", "object", "null"}
    /\ changes \in 0 .. MaxChanges
    /\ phase \in {"asking", "sent", "done"}
    /\ outcome \in {"none", "ok", "arg", "internal", "failed"}
    /\ Len(sent) <= Len(Def(tool, args).requests)

(* What schema and description tell a client of one argument: its type,    *)
(* and what else they say of values of that type.                          *)
Suits(arg, v) ==
    /\ arg.of = "id"      => IsSnowflake(v.s)
    /\ arg.of = "enum"    => v.s \in arg.texts
    /\ arg.of = "short"   => v.s # "overlong"
    /\ arg.of = "emoji"   => v.s \in Emojis
    /\ arg.of = "cursor"  => v.s \notin {"", "garbled"}
    /\ arg.of = "route"   => v.s \in DOMAIN Paths /\ Paths[v.s].begins = "/"
                                                /\ "?" \notin Paths[v.s].odd
    /\ arg.of = "archive" => v.s = "whole" /\ v.n \in {60, 1440, 4320, 10080}
    /\ arg.of = "range"   => v.n \in arg.lo .. arg.hi /\ (v.s = "fraction" => v.n < arg.hi)
    /\ arg.k = "list"     =>
          /\ v.n <= arg.hi \/ arg.of = "text"
          /\ v.n = 0 \/ v.s = arg.of \/ (arg.of = "file" /\ v.s = "oddfile")

Admits(arg, v) == arg.k = "any" \/ (arg.k = v.k /\ Suits(arg, v))

(* What a handler refuses although no definition says so: a fraction where *)
(* a number is wanted (args.go:90); a position above 10000 (channels.go:   *)
(* 194; nor below 0, of which there are none here); a file whose name is   *)
(* no plain one or whose content is none or not base64 (common.go:158,     *)
(* 162, 166); nested values of query parameters (request.go:107); and what *)
(* else than its beginning and a query string ValidateRawRoute minds of a  *)
(* route (route.go:86-109).                                                *)
Untold(arg, v) ==
    \/ arg.k = "number" /\ (v.s = "fraction" \/ (arg.of = "any" /\ v.n > 10000))
    \/ arg.of = "file" /\ v.n > 0 /\ v.s = "oddfile"
    \/ arg.k = "object" /\ v.s = "nested"
    \/ /\ arg.of = "route" /\ v.s \in DOMAIN Paths
       /\ \/ Paths[v.s].odd \ {"?"} # {}
          \/ \E i \in DOMAIN Paths[v.s].segs : BadSegment(Paths[v.s].segs[i])

(* The same of several arguments: a change of a channel with nothing to    *)
(* change (channels.go:237), and a message with nothing in it (common.go:  *)
(* 136) where the definition does not mention it.                          *)
UntoldOf(t, a) ==
    \/ /\ t = "edit_channel"
       /\ \A key \in DOMAIN Takes(t) \ {"channel_id", "reason", "format"} : ~Present(a, key)
    \/ t \in {"send_dm", "webhook_edit_message"} /\ ~SaysBody(a)

(* What a definition excludes and no handler looks at: an empty text, which *)
(* is as good as none; a text longer than promised (messages.go:124,       *)
(* webhook.go:78, channels.go:25); embeds that are no objects (common.go:  *)
(* 80); and a text that is no emoji, of up to 100 bytes (messages.go:255,  *)
(* route.go:31).                                                           *)
Unchecked(arg, v) ==
    \/ arg.k = "string" /\ v = Str("")
    \/ arg.of = "short" /\ v = Str("overlong")
    \/ arg.of = "object" /\ v.k = "list" /\ v.n <= arg.hi
    \/ arg.of = "emoji" /\ v.k = "string" /\ v.s # "overlong"

Passes(arg, v) == (Admits(arg, v) \/ Unchecked(arg, v)) /\ ~Untold(arg, v)

(* A text that is required must not be blank either (args.go:44), which    *)
(* the definitions do not say: "required" is about the key.                *)
Foreseen(t, a) ==
    /\ \A key \in Needs(t) : Present(a, key) /\ ~(a[key].k = "string" /\ Blank(a[key].s))
    /\ \A key \in DOMAIN a : Present(a, key) =>
          key \in DOMAIN Takes(t) /\ Passes(Takes(t)[key], a[key])
    /\ Def(t, a).says /\ ~UntoldOf(t, a)

(* A client sees 38 schemas and descriptions, and handlers and accessors   *)
(* check by themselves.  Where the two differ is in the lists above, with  *)
(* a line each, and nowhere else: a call is refused for its arguments if   *)
(* they are not what the definition of the tool tells, unless Unchecked    *)
(* names the reason, and otherwise only for a reason that Untold, UntoldOf *)
(* or a blank text names.                                                  *)
SchemaGaps ==
    phase # "asking" => (outcome = "arg" <=> ~Foreseen(tool, args))

(* Arguments are refused before anything was done with them, also by a     *)
(* tool that asks twice (messages.go:410-426), and no call fails because a *)
(* handler gave a route the wrong parameters (route.go:25, 46, 54).        *)
RefusedUnsent == outcome # "internal" /\ (outcome = "arg" => sent = <<>>)

-----------------------------------------------------------------------------
(* The name under which what a body carries was given. *)
GivenAs(key) == CASE key = "allowed_mentions" -> "allow_mentions"
                  [] key = "communication_disabled_until" -> "minutes"
                  [] key = "recipient_id" -> "user_id"
                  [] OTHER -> key

Carries(r, key) ==
    \/ key \in DOMAIN r.params /\ r.params[key] = args[key].s
    \/ key \in DOMAIN r.query /\ r.query[key] = args[key].s
    \/ key \in {GivenAs(k) : k \in r.body}

(* The requests are the ones that were asked for and that the audit line   *)
(* tells of: every ID among its targets is in one of them, under its own   *)
(* name, and none acts on another ID or, for a webhook tool, on another    *)
(* webhook; the reason goes with each; an edit touches nothing that was    *)
(* not given; and a tool is marked as read-only exactly if it only reads.  *)
ActsAsAsked ==
    LET reqs == {sent[i].req : i \in DOMAIN sent}
    IN  /\ outcome = "ok" /\ tool \notin EventTools \cup {"request"} =>
             \A key \in DOMAIN Targets(args) \cap DOMAIN Takes(tool) :
                 args[key] # Str("") => \E r \in reqs : Carries(r, key)
        /\ \A r \in reqs :
             /\ \A key \in DOMAIN r.params \cap IDNames :
                   r.params[key] = CASE key = "webhook_id" -> Webhook.id
                                     [] tool = "send_dm"   -> DMChannel
                                     [] OTHER              -> Targets(args)[key]
             /\ tool \in WebhookTools => {"webhook_id", "webhook_token"} \subseteq DOMAIN r.params
             /\ r.reason = Text(args, "reason")
             /\ r.method = "PATCH" => \A key \in r.body : Present(args, GivenAs(key))
             /\ tool # "request" => (r.method = "GET" <=> Def(tool, args).hint = "readOnly")

(* A path has the segments of its route and no more; had the same path     *)
(* been asked for by discord_request, the audit log would show the route   *)
(* and neither an ID nor a webhook's token (route.go:15-17, 112-113); and  *)
(* two requests share a bucket exactly if they differ in nothing but minor *)
(* parameters.                                                             *)
RoutesHold ==
    \A i \in DOMAIN sent : tool # "request" =>
        LET r == sent[i].req  path == sent[i].path  red == RedactRoute(path)
        IN  /\ \A j \in DOMAIN path : path[j] # "a/b"
            /\ \A j \in DOMAIN path :
                  red[j] = IF IsSnowflake(path[j]) THEN "{id}"
                           ELSE IF r.route[j] = "webhook_token" THEN "{token}"
                           ELSE path[j]
            /\ \A key \in DOMAIN r.params :
                  LET other == Bucket(r.method, r.route, [r.params EXCEPT ![key] = "another"])
                  IN  (other = sent[i].bucket) <=> key \notin {"channel_id", "guild_id", "webhook_id"}

=============================================================================
