------------------------------- MODULE Config -------------------------------
(***************************************************************************)
(* The config file: internal/config (defaults and validation), with the    *)
(* shapes of internal/credential and the intents of internal/intents it    *)
(* checks against.                                                         *)
(***************************************************************************)
EXTENDS Integers, Sequences

(* The document.  A value that may be absent is a set of at most one       *)
(* element; a bot token is the sequence of its segments; a webhook is      *)
(* written as a URL or as the pair of its id and token; durations are in   *)
(* seconds.                                                                *)
EventsDoc   == [intents: SUBSET STRING, size: SUBSET Int]
BotDoc      == [token: Seq(STRING), events: SUBSET EventsDoc]
WebhookDoc  == [https: BOOLEAN, user: BOOLEAN, host: STRING, path: BOOLEAN, id: Int, token: STRING]
                   \cup [id: Int, token: STRING]
InstanceDoc == [name: STRING, tokens: Seq(STRING), bot: SUBSET BotDoc, webhook: SUBSET WebhookDoc]
Document    == [enabled: BOOLEAN, ttl: Int, timeout: Int, instances: Seq(InstanceDoc)]

AtMostOne(s) == \A x, y \in s : x = y

DefaultCacheTTL   == 600
DefaultTimeout    == 15
DefaultBufferSize == 1000

-----------------------------------------------------------------------------
(* A mask is the set of the names whose bits it has. *)
Privileged == {"guild_members", "guild_presences", "message_content"}

ByName == Privileged \cup
    {"guilds", "guild_moderation", "guild_expressions", "guild_integrations",
     "guild_webhooks", "guild_invites", "guild_voice_states", "guild_messages",
     "guild_message_reactions", "guild_message_typing", "direct_messages",
     "direct_message_reactions", "direct_message_typing",
     "guild_scheduled_events", "auto_moderation_configuration",
     "auto_moderation_execution", "guild_message_polls", "direct_message_polls"}

(* Either of two application flags enables a privileged intent. *)
Enabling(p) == {p} \X {"full", "limited"}

MissingPrivileged(mask, flags) ==
    {p \in Privileged \cap mask : Enabling(p) \cap flags = {}}

-----------------------------------------------------------------------------
(* The shapes of credentials.  An id is a positive number, a token of a    *)
(* webhook any text that is not empty: their alphabets are left out.       *)
WebhookHosts == {"discord.com", "discordapp.com", "ptb.discord.com", "canary.discord.com"}

IsBotToken(segments) == Len(segments) = 3 /\ \A i \in 1 .. 3 : segments[i] # ""

ParseWebhook(s) ==
    IF /\ "host" \in DOMAIN s => s.https /\ ~s.user /\ s.host \in WebhookHosts /\ s.path
       /\ s.id > 0 /\ s.token # ""
    THEN {[id |-> s.id, token |-> s.token]} ELSE {}

-----------------------------------------------------------------------------
ValidDurations(c) == c.ttl >= 0 /\ c.timeout >= 0

OrDefault(n, default) == IF n = 0 THEN default ELSE n

DefaultEvents(e) == [e EXCEPT !.size = IF e.size = {} THEN {DefaultBufferSize} ELSE e.size]
DefaultBot(b)    == [b EXCEPT !.events = {DefaultEvents(e) : e \in b.events}]

DefaultInstance(in) == [in EXCEPT !.bot = {DefaultBot(b) : b \in in.bot}]

ApplyDefaults(c) ==
    [c EXCEPT !.ttl = OrDefault(c.ttl, DefaultCacheTTL),
              !.timeout = OrDefault(c.timeout, DefaultTimeout),
              !.instances = [i \in DOMAIN c.instances |-> DefaultInstance(c.instances[i])]]

ValidEvents(e) ==
    /\ e.intents # {} /\ e.intents \subseteq ByName
    /\ \A n \in e.size : n >= 1

ValidInstance(in) ==
    /\ in.name # ""
    /\ in.tokens # <<>> /\ \A j \in DOMAIN in.tokens : in.tokens[j] # ""
    /\ (in.bot = {}) # (in.webhook = {})
    /\ \A b \in in.bot : IsBotToken(b.token) /\ \A e \in b.events : ValidEvents(e)
    /\ \A s \in in.webhook : ParseWebhook(s) # {}

(* Where a token stands in the file. *)
Places(c) == UNION {{i} \X DOMAIN c.instances[i].tokens : i \in DOMAIN c.instances}
TokenAt(c, p) == c.instances[p[1]].tokens[p[2]]

(* fault: owners is made anew for each instance *)
DistinctWithin(c) ==
    \A p, q \in Places(c) : p # q /\ p[1] = q[1] => TokenAt(c, p) # TokenAt(c, q)

DistinctTokens(c) == \A p, q \in Places(c) : p # q => TokenAt(c, p) # TokenAt(c, q)

DistinctNames(c) ==
    \A i, j \in DOMAIN c.instances : i # j => c.instances[i].name # c.instances[j].name

Valid(c) ==
    /\ c.instances # <<>> \/ c.enabled
    /\ \A i \in DOMAIN c.instances : ValidInstance(c.instances[i])
    /\ DistinctNames(c) /\ DistinctTokens(c)

(* Parse: {} when it refuses the document. *)
Parse(c) ==
    IF ValidDurations(c) /\ Valid(ApplyDefaults(c)) THEN {ApplyDefaults(c)} ELSE {}
=============================================================================
