# Verification of discord-mcp

TLA+ specifications of discord-mcp (an MCP server through which a language model
drives Discord), checked with TLC and, where it says so, proved with TLAPS.

## The system

    client --HTTP--> Router --> Resolver --> MCP server of the capability
                                                  |
                                     tool wrapper (audit, evict)
                                                  |
                                  handler --> REST client --> Discord
                                      |
                                   Buffer <-- Gateway <-- Discord (websocket)

| component | state it keeps | operations | correct when |
|---|---|---|---|
| event buffer (`events/buffer.go`) | ring, start, count, lastSeq, boot id, the channel closed on change, closed | Append, Since, Cursor, Wait, Close | the ring is the tail of the history; a reader that keeps its cursor gets every event or a gap; no waiter sleeps through a match; Close ends every wait |
| event tools (`tools/events.go`) | none; the client keeps the cursor | poll_events, wait_for_message | a client that passes `next_cursor` back gets every event it wants once, or knows of a gap, through lost replies, timeouts and restarts |
| Gateway feed (`events/gateway.go`) | readyCount, startupGuilds, ready | Start, handle, Close | every dispatch but READY, RESUMED and the startup burst is buffered once; a re-identified session leaves one marker, between the sessions; Start ends |
| resolver (`auth/resolver.go`) | success cache, failure cache, lastSweep | Resolve, Invalidate | one principal per cached credential; a refused credential is not asked about again for a minute; an outage locks nobody out; both caches are bounded in time |
| REST client (`discord/*.go`) | discordgo session with its rate-limit buckets | Do, DoRaw, Verify* | a call ends by its deadline; a rate limit is waited for only as long as there is time; the recorder has one entry per request |
| routes (`discord/route.go`, `raw.go`) | none (pure) | expandRoute, bucketFor, ValidateRawRoute, RedactRoute | a path has the segments of its route; buckets are told apart by major parameters only; a redacted route shows neither IDs nor tokens |
| tool wrapper (`tools/tools.go`) | none | wrap | one audit line per call with the outcome Discord gave; a 401 evicts |
| tools (`tools/*.go`) | none | 38 handlers | arguments are refused where the definition clients see excludes them, but for the gaps listed below, and before anything is sent; the requests are those asked for |
| config, intents (`config`, `credential`, `intents`) | none (pure) | Parse, validate, applyDefaults, MissingPrivileged | what it accepts suffices for everything downstream |
| app, main, router (`app`, `cmd/server`, `router`) | servers, gateways, buffers | Build, Close, run, ServeHTTP | a failed Build leaves nothing running; waits are answered at shutdown; a request runs as the instance whose token it sends |
| audit log (`audit`) | none | one line per call or event | how often, with what outcome and which targets; wording is not modelled |

What is hard here: Append, Close and any number of Waits interleave around one channel that is
replaced at every Append; the ring laps slow readers; cursors outlive the process; discordgo calls
`handle` in a goroutine per dispatch, so dispatches overlap and overtake each other; Resolve reads
the clock before it takes the lock and asks Discord with the lock released; tool calls evict what
other requests are verifying; calls of one credential meet in the rate-limit buckets of one
discordgo session; Discord may carry a request out and the answer be lost. `PROJECT.json` lists each
hazard at its line with the properties that cover it.

## Modules

| module | models | uses |
|---|---|---|
| `EventLog` | what readers are promised: an append-only log, cursors, gaps | |
| `EventBuffer` | `internal/events/buffer.go` | `EventLog` (refinement) |
| `MCEventBuffer` | payloads, filters and cursors for TLC | `EventBuffer` |
| `EventBufferProofs` | theorems: ring, waiters, cursors | `EventBuffer`, TLAPS |
| `EventLogProofs` | theorems: what a finished wait was told; the buffer implements `EventLog` | `EventBufferProofs` |
| `EventTools` | `internal/tools/events.go` and clients that follow the events | `EventBuffer` |
| `MCEventTools` | messages, filters and cursors for TLC | `EventTools` |
| `EventToolsProofs` | theorems: every page, and the clients that follow | `EventTools`, `EventLogProofs` |
| `Gateway` | `internal/events/gateway.go`, with Discord and discordgo as environment | |
| `GatewayProofs` | theorems: dispatches, `ready`, markers, however calls overlap; the burst, and the place of markers | `Gateway`, TLAPS |
| `Resolver` | `internal/auth/resolver.go` and the eviction of `tools.go` | |
| `MCResolver` | credentials for TLC | `Resolver` |
| `ResolverProofs` | theorems | `Resolver`, TLAPS |
| `RestClient` | `Do`, the send loop and the recorder of `internal/discord`, with discordgo and Discord as environment | |
| `ToolCall` | `wrap` and `classify` of `internal/tools/tools.go`, and handlers as the requests they make | `RestClient` |
| `MCToolCall` | two tool calls for TLC | `ToolCall` |
| `ToolCallProofs` | theorems | `ToolCall`, TLAPS |
| `Args` | `internal/tools/args.go`, `common.go`: JSON values, accessors, shared arguments | |
| `Routes` | `internal/discord/route.go`, `raw.go` | `Args` |
| `Catalogue` | every tool: its definition, the checks of its handler, its requests | `Routes` |
| `Tools` | one call of any tool, from its arguments to its last request; `sets.go` | `Catalogue` |
| `MCTools` | values at the edges of every kind of argument | `Tools` |
| `ToolsProofs` | theorems: every tool, whatever it is given | `Tools`, TLAPS |
| `Config` | `internal/config`, `credential`, `intents`: defaults and validation | |
| `Lifecycle` | `cmd/server/main.go`, `internal/app`, `internal/router`, and how the resolver is set up and asked | `Config` |
| `MCLifecycle` | config files, requests and application flags for TLC | `Lifecycle` |
| `LifecycleProofs` | theorems | `Lifecycle`, TLAPS |

Operators with a comment `fault:` are not part of the specification. Each is a
variant of the definition below it with a plausible bug in it; putting it in the
place of that definition makes TLC report the property `mutants` names.

### EventBuffer

One action is one critical section of `b.mu` or one way out of the `select`.
`Wait` is `CallWait`, `ReadCursor` (the call of `Cursor` for an empty cursor, a
critical section of its own), one of four `Scan` actions (the loop body up to the
unlock), then `Woken` or `ContextDone`. Channels are numbers: `changed` is the one
`b.changed` points to, `closedChans` those that were closed, `ch[w]` the one a
waiter selects on. `Append` on a closed buffer and a second `Close` change nothing
and are stuttering steps. A cursor is a record of its form, boot and seq; a text
`parse` refuses is `garbled`. A payload is the type and ids of a dispatch; time
and raw JSON are left out, and `extractIDs` is abstracted to the payload itself.
`history` and `asked` are auxiliary: the code never reads them.

In `EventBuffer` alone an earlier process is there through the cursors of another
boot it handed out; `EventTools` runs the processes one after the other.

### EventLog

Readers take the next matching entry after their position. A reader may be told
that it missed entries only if entries after its position fell out of the last
`Size`; it may step over an entry only if it does not match or was missed.
`EventBuffer!ImplementsLog` maps the buffer onto it: `log` is the history, `at` is
the position of the cursor.

### EventTools

A waiter of `EventBuffer` is a client here. `PollEvents` is one call of
`discord_poll_events` (one critical section, so one action); `discord_wait_for_message`
is `WaitForMessage`, the steps of `Wait`, and `Reply`, which translates how it ended
(`Err`). `Deadline` and `Leave` are the two ways the context of a wait ends; the code
tells them apart, as one is an answer and the other an error. `Accept` is the client
that takes `next_cursor` over, `LoseReply` the reply that does not arrive, and `Restart`
a process that ends in any way and another that starts with an empty buffer and a boot
ID of its own. The buffer is emptied and clients keep what they have: the cursor `hold`.
`since`, `have`, `missed` and `past` (the histories of earlier processes) are auxiliary.

A poll cannot ask for an author and a wait asks for messages of any guild, as in the
code (`CanPoll`, `CanWait`). What a client is told of its missed events is `gap`: the
events between its cursor and the next one that it wants and did not get. Without a
cursor it begins to follow at the reply.

### Gateway

Discord (`Identify`, `Resume`, `FillIn`, `Leave`, `Join`, `Message`) and discordgo
(`Receive`) are the environment, external to `src/`. `NewGateway` leaves
`Session.SyncEvents` at its default, so discordgo starts a goroutine for every
dispatch and handler: `calls` is the set of calls of `handle` under way, and
`Concurrency` bounds it. A call is split at the critical section of `g.mu`:
`HandleReady` then `Announce` or `Mark`; `HandleGuildCreate` then `Buffer`. The
buffer is the sequence of what `Append` kept, which is what `EventLog` says of it.

`StartReady` and `StartTimeout` begin after `Open` has succeeded; an `Open` that fails
is left out. Shutdown is `App.Close`: the gateways, then the buffers; only
then does `main` drain HTTP (`cmd/server/main.go:81`), so a wait that is under way is
ended by the buffer and not by the drain.

### Resolver

A call is `ResolveDirect` (reads the clock), one of `LookHit`, `LookRefused`,
`LookMiss` (the first critical section, sweep included), `Verify` (Discord answers
at some moment with the lock free), and one of the `Record` actions (the second
critical section). An accepted request runs its tool (`ServeEnds`,
`ServeRefused`) and on a 401 takes the lock once more (`Invalidate`). Both caches
map a key to a set of at most one entry. `valid` is what Discord accepts; it only
shrinks, because a token that is reset and a webhook that is deleted never work
again. Time is `Tick`: it waits for a call that has held its clock for `Lag`, which
stands for `discord.timeout`. Nothing is assumed of how it compares with the TTLs, as
`validate.go` refuses negative durations only: a call may hold its clock for longer
than the failure window or `cache_ttl`. `SweptOut` and `BackOff` say how far an entry may then
be off, which is by the age of that clock.

### RestClient and ToolCall

`send[t]` holds the locals of `Client.send` for tool call `t`: where it stands
(`bucket`: in `RequestRaw` and without the bucket; `asked`: the request is out;
`paused`: in the `select` after a 429), what is left of its deadline and of the wait,
and the sink. Time is what is left on each timer, and `Tick` takes one unit off all,
but never past a step that is due. `Ask` to `BadGateway` are the parts of one
`RequestRaw`; `Pause`, `Retry` and `GiveUp` are the loop of `send`. Of discordgo v0.29 the
model assumes what its source does: a mutex per bucket, held during the request; a
sleep under that mutex while the bucket is used up; neither looks at the context; a
502 is sent again (three times in the code, `MaxResend` here); a 429 comes back as
`RateLimitError`, every other refusal as `RESTError`. The bucket is released in one step
with the end of the request, although discordgo releases it at the headers. Global rate limits
and the routes of different bots are left out.

`ToolCall` runs `wrap` around it. A handler is the sequence of buckets it asks
(`Script`): none for an event tool, one for nearly every action tool, two for
`send_dm`. `Over` ends the call and forgets what belonged to it. `carried` (what
Discord really carried out), `notBefore` (how long a 429 bars the call) and the field
`read` of a record are auxiliary.

### Args, Routes, Catalogue, Tools

An argument is a decoded JSON value as far as the accessors tell one from another.
Every error an accessor returns is an ArgError and a handler returns the first, so an
accessor is a condition and a handler the conjunction of its conditions (`accepts`).
Beside it stands, for each of the 38 tools, what clients see, from the definitions alone: the
schema (`needs`, `takes`) and what descriptions say of several arguments together (`says`). The
two are written down in different places of the code. `requests` is the sequence of what the
handler then asks of Discord.

Schema and handler do not agree everywhere. `SchemaGaps` compares a call that was refused, or was
not, with the definition (`Suits`) and the following two lists, and says that they differ nowhere else.

A handler refuses, and no definition says so (`Untold`, `UntoldOf`, `Foreseen`):

| refused | by |
|---|---|
| `position` below 0 or above 10000 in `edit_channel` | `channels.go:194`, published without bounds at 220 |
| `edit_channel` with nothing to change | `channels.go:237` |
| a message with nothing in it, in `send_dm` and `webhook_edit_message` (the other tools that send say it) | `common.go:136` |
| a file whose name is no plain file name, or whose content is empty or not base64 | `common.go:158`, `162`, `166` |
| a number that is not whole | `args.go:90` |
| a required text that is blank | `args.go:44` |
| nested query values in `discord_request` | `request.go:107` |
| a raw route with dot, empty or encoded-slash segments, spaces, `\`, `#` or a URL | `route.go:86`-`109` |

A definition excludes, and no handler looks at it (`Unchecked`); Discord decides:

| accepted | where it is promised |
|---|---|
| a text longer than promised | `messages.go:124`, `webhook.go:78`, `channels.go:25` |
| `embeds` that are no objects | `common.go:80` |
| a text of up to 100 bytes that is no emoji | `messages.go:255`, bounded by `route.go:31` |
| an empty text where it is optional, which counts as nothing given; a number given as `""` is refused | every text |

`Tools` starts with a plain good call of a tool; `Give` and `LeaveOut` change it, up to
`MaxChanges` arguments. `Refuse` or `Handle` is the handler up to its first request, `Answered`
and `Failed` what follows. `Wire` is `Do` up to the wire: the expanded path, the
bucket and the route the recorder keeps; `Error` the checks before that. A route is the
sequence of its segments, and a text stands for a class of texts: `"a/b"` for one with a
slash, `"%2e%2e"` for a dot segment in disguise, `Snowflakes` for those with
the shape of an ID.

### Config and Lifecycle

`Config` takes a decoded document: what may be absent is a set of at most one element, a
bot token the sequence of its segments, a webhook a URL's parts or an id and token.
`Parse` is the checks, the defaults and the validation in the order of the code.

`Lifecycle` follows the goroutine of `main` with `pc`: `Load`; for each instance `verify`,
`intents`, `open`, `ready`; `NewResolver`; `serve`; then `close`, `buffers`, `shutdown`, `drain` and
`end`: the gateways, the buffers, the listener and what is under way, one after the other, so a
request may still come in when its buffer is closed already. `Fail` is every return of an error that
goes through `Close`; `NotReady` also closes the session that `Close` does not know. `Signal` is
possible from `signal.NotifyContext` on; the requests that `ctx` cancels look at it, `Gateway.Start`
does not. `gateways` and `buffers` are the lists of the App, `session` and `buffer` what became of
the things themselves, so that a session no list knows is seen. `ServeHTTP` is the router with
`Resolve`: healthz, 401, the server of the capability, 404. Discord may answer a direct credential
or not (`DirectBots`, `DirectHooks`), and verification may fail at any time. `Finish` and `Woken`
end a request.

Environment: Discord sends no READY to a session with an intent it does not allow (`Allowed`);
`ListenAndServe` comes up or fails at any time; `srv.Shutdown` returns when nothing is under way or
its ten seconds are over, and ten seconds are enough for a wait that was woken (`DrainTimeout`).

## Runs

All bounds are in the `.cfg` files.

| run | question | bounds, and why they are enough |
|---|---|---|
| `buffer_waits` | the safety of waits and ring; refinement of `EventLog` | two waiters (symmetric), ring of 2, five Appends: a waiter can be lapped twice between two scans; cursors: none, garbled, other boot, 0 and 1 |
| `events_follow` | clients that follow the events; every page of `Since`; a client catches up, Close ends waits | one client, as clients share nothing but the buffer; ring of 2 and three events in two processes, so that events are overwritten before and after a restart; one lost reply; pages of 1 and 2; for the pages all cursors of both boots up to one beyond the newest |
| `events_marker` | what the design says of the marker, where the code breaks it | as above, one process, nothing lost |
| `gateway_overlap` | no loss, no double, one close of `ready`, one marker; burst and marker order while calls have not overlapped | one guild, three calls at once, five dispatches: READY, its burst and a second READY overlap |
| `gateway_burst`, `gateway_stale` | what the design says, where the code breaks it | two calls, and one call, at once; four dispatches |
| `resolver_races` | caches under two racing requests | one bot token; a cache TTL of 1, a failure TTL of 3, calls that hold their clock for up to 2, longer than an entry of the cache lives; clock to 8: every entry can expire and be swept |
| `resolver_revoked` | revocation where the code breaks it | clock to 6 |
| `tool_lines` | the audit line, eviction and waits of tool calls | a call of two requests and a call of one that meet at a bucket; a timeout of 2, so that one wait of 1 fits, a second 1 and a 2 do not; one resend; a bucket that may be used up for 1 |
| `tool_overrun` | the deadline, where the code breaks it | as above, with a bucket used up for 2 |
| `tools` | arguments, requests, routes and buckets of all tools | up to three changes of a plain good call: most checks concern one argument, the rest two or three (one of three anchors, body and files); samples are the edges of each bound, the enumerations and one of each wrong type |
| `lifecycle` | what is left behind, whether an accepted file suffices, who is served as whom, whether a signal ends the process | forty files: none, one or two instances, every good kind and one mistake of each kind; a second instance that fails after a first with a feed; two requests, so that a wait and a call are under way at once |

Deadlock is not checked where the system may stop: `Gateway` stops when the session is
closed and every call is done, `tools` when the call is over, `lifecycle` when the process
has ended. Everywhere else it is checked: a waiter, a client and the resolver can always
go on, and time in `ToolCall` never stops. (In `buffer_waits` a spent buffer still takes
`Wait`.)

Fairness. `events_follow`, `gateway_overlap`, `tool_lines` and `lifecycle` assume that a goroutine
that can run does run (weak fairness of each step of a `Wait`, of each call of `handle`, of each
step of a tool call, of `main`), which the Go scheduler gives. `events_follow` assumes of its client
that it takes replies and asks again, and nothing of Append, of the timer of a wait or of the end of
its context: a waiter has to be woken by the buffer. `tool_lines` also assumes that time passes and
that a request whose context has ended comes back, which `net/http` does; a tool call has to end
though Discord never answers. `lifecycle` assumes that the timers of `main` fire (`discord.timeout`,
the ready timeout, the drain), that `session.Open` returns, and that a woken wait runs; a request
need not end, a listener need not come up, and Discord need not send READY.

## Findings

Each is a `violation` run, with the quoted line in `PROJECT.json`.

1. `gateway_burst`: a `GUILD_CREATE` of the startup burst can be handled before the
   READY that lists it, and is then buffered.
2. `gateway_stale`: a guild that READY listed and the bot left before its fill-in
   swallows the `GUILD_CREATE` of a later join. This needs no overlap.
3. `resolver_revoked`: a verification answered before a token was reset and recorded
   after the refusal puts the token back; until the next 401 it is accepted.
4. `tool_overrun`: a call that waits for a discordgo bucket does not end at its
   deadline. It still ends (`OneLineEach`), and it sends nothing after the deadline.
5. `events_marker`: the marker of a reconnect has neither guild nor channel and a type of
   its own, so a client that filters on any of these, and every `wait_for_message`, passes
   over it, with no gap and nothing else in the reply.

Where calls do not overlap, `BurstHidden` and `SessionsMarked` show that what 1 is about
holds, and that the marker separates the sessions; with overlap it has no fixed place
either (it is appended outside `g.mu`). `OutForGood` is what holds of 3 in any case: a token that is
neither cached nor freshly verified stays out.

## Proofs

`EventBufferProofs` proves, for every ring size, set of waiters, filters and
cursors, the theorems listed in `PROJECT.json`. The invariant is
`IInv == Basic /\ WaitInv`. `RingHoldsLatest` is inductive with the types once the
arithmetic of `%` is known (`ModOneLap`, `ModSum`, `SlotsShift`, `PushOnRing`,
`PushOnFullRing`); it says what a scan sees (`RetainedIsSurviving`, `SinceOne`).
`NoLostWakeup` and `NoSilentSkip` are not inductive: `WaitInv` adds that every
channel before the current one is closed, that an empty scan stays empty while its
channel is the current one, where a cursor stands relative to the caller's, and that
what was passed over either fell out of the ring or does not match. The assumptions
are that the ring has at least one slot (`validate.go` refuses less) and that
cursors have the three forms `parse` distinguishes.

`EventLogProofs` proves `WaitAnswers`. `AnswerInv` adds, for every waiter, that its
cursor is the caller's until a scan puts one of this buffer in its place (`Origin`), and that
the event it returned, the gap it was told and the cursor it hands on are right of the
history at that moment (`Returned`, `Justified`, `Usable`); later events cannot make
them wrong, as the history only grows.

It also proves the refinement, `Spec => ImplementsLog`: the initial states are
those of the log, and a step is a step of the log or a stutter. `MovesReader` says that a
step of one waiter moves the position of its reader only, `ScanReads` says in the terms
of the log what a scan may pass over and what it has to tell; the two invariants above
are what these need.

`EventToolsProofs` proves what `events_follow` checks of safety, for any ring, clients, filters,
page sizes, restarts and lost replies. `FollowInv` has three parts. `BufInv` is the invariants of
`EventBuffer` above, shown once more: here the cursor of a call is what the client holds and not one
of a constant set, a call that is answered leaves its locals, and a restart starts the buffer anew.
`ClientTypes` ties `past` to the boot IDs. `ClientOK` says of each client that the cursor it holds
was given out by this process or an earlier one and lies within its log (`HoldOK`; this is why no
cursor is ever refused), that a wait under way has passed over nothing it does not know of
(`WaitOK`), that a reply not yet taken would be right if taken (`ReplyOK`), and that what it follows
up to its cursor it has or knows it missed (`FollowOK`). `FollowsLog` alone is not inductive:
whether the next cursor is right depends on the reply that carries it and on the scan that made it.
Replies stay right while they are under way, as logs only grow (`LogGrows`). The pages of `Since`
are defined by how many matches lie before or after an event, so that nothing has to be shown by
induction over the limit: that a page is full or reaches the end follows from cardinalities and the
least number with a property.

`ResolverProofs` proves seven theorems. `IInv` adds to the types that the clock a call holds is at
most `Lag` old (`ClockInv`), that what is about to be recorded as a refusal is one (`RefusalInv`),
and that a recent refusal is still covered by an entry (`BackOffInv`): an older call may overwrite
the entry, but only with a clock at most `Lag` older. `BadStep` and `OkStep` say once what any step
can do to a cache. `OneClientPerCredential` and `RevokedStaysOut` need the types only;
`CacheExpiresUnused` needs that an entry is dated no later than the last acceptance (`SeenInv`).
Nothing is assumed of the durations but that they are natural numbers and the failure TTL is not 0
(a constant of the code). `SweepBoundsCaches` therefore has two cases: an entry is within its TTL at
the last sweep, or a call that the sweep overtook wrote it, and then the sweep was at most `Lag`
later than its date. Where `Lag` is below the TTLs, the second case implies the first.

`LifecycleProofs` proves all three safety properties of the process, for every set of
config files, flags and requests. `EndsClean` follows from `IInv`, which adds to the types
what is there at each place of `run` (`PlaceInv`: before the resolver there is an instance
to work on, and the parsed file has its instances), that every session and buffer
that is open is one `Close` will find, or the one `ready` is waiting for (`OpenInv`), and that a wait is
on buffers `Close` knows, which are closed once the drain begins (`DrainInv`).
`ConfigSuffices` and `ServedAsConfigured` need two more: the entries of the resolver
are those of the file's instances built so far (`EntryInv`), and buffers belong to bots with a
feed, sessions to intents the bot may have (`EventsInv`). The
first lemmas are about `Config`: what `Parse` leaves as it was and what it guarantees. The
assumptions are that files are documents and direct credentials are not both a bot's and
a webhook's.

`GatewayProofs` proves, for any guilds, any number of calls of `handle` at once and any
number of dispatches, what holds however the calls overlap. `Basic` adds to the types that
a dispatch has its place in the stream, that no two calls are for one (`CallInv`), and that
`readyCount` is the READYs that arrived less those whose call has not taken the lock
(`CountInv`); the properties are then sums of cardinalities, and each step moves one element
from one set to another. The last two theorems speak of order.
`DropInv` gives every drop of a guild, every guild still listed and every READY not yet taken
up a listing of its own. `OrderInv` is about behaviours without overlap so far: then at most
one call is under way, it is for the dispatch that arrived last (`AloneInv`), and the burst
and the markers are where they belong (`BurstInv`, `InSessionOrder`).

`ToolCallProofs` proves the type invariant and five properties for any calls, any
timeout and any times Discord asks for. `CallInv` follows one call: the
recorder has the requests of its tool up to where it stands (`RecordInv`), the verdict of the
last `Do` is that of the last entry (`PlaceInv`), the outcome that of the verdict
(`OutcomeInv`); what Discord carried out is in the recorder or out right now (`CarriedInv`);
what a `Do` has waited, will wait and has left is never more than the timeout together
(`TimeInv`). Calls meet in the buckets only, which none of these
mentions, so one lemma (`OthersKeep`) leaves the other calls out of every step but `Tick`. The
assumptions are that the timeout and every wait are at least a unit of time and that the
routes of the scripts are routes.

`ToolsProofs` proves the four properties of `tools` for every text, number, ID, token and answer;
TLC sees the samples of `MCTools` only. `CallInv` says that a call only goes through the requests of
its handler, so each tool needs one lemma for what it asks (`ActsAsAsked`): what the handler sends
is in the arguments, and what is in the arguments the handler sends. `WireInv` says that a request
left as `Do` makes it of its route; `Fills` and `PlainRoute` then give the segments of the path, its
bucket and its redaction for each route. `SchemaGapsComplete` has a second lemma per tool: `Told`
and `There` say of one argument that it is as the definition tells or one of the gaps, and of
arguments that are JSON values these amount to `accepts` together with what `says` has of several;
`ToldInv` carries the values to the step that refuses. As the property is an equivalence, it says
both that the lists of gaps are complete and that what they name is really refused or let pass.

The assumptions of `Tools` are those the code has: IDs and tokens are no fixed segment of a route and
have no slash (`credential.go`), the webhook of a principal has an ID and a token
(`credential.ParseWebhook` took it apart), Discord names a DM channel by an ID, and arguments are JSON
values. Redaction is a recursive function of the position, and `++`
stands for the `@@` of module `TLC`, which the prover does not have.

Only model-checked is liveness, as the prover has no rule for fairness or ENABLED: `CatchesUp`
and `CloseEndsWaits` of `events_follow`, `ReconnectReported` of `gateway_overlap`, `OneLineEach` of
`tool_lines` and `StopsOnSignal` of `lifecycle`. Every other property of a passing run is
stated by a theorem.

## Plan

Done: every module above, with the proofs above.

What is left, in this order:

1. `Gateway` over `EventBuffer` instead of over a sequence, if the burst or the marker
   come to depend on the ring.
2. The safety part of what the liveness properties rest on: that some step is enabled
   wherever a wait, a `handle` or a tool call is not over.
3. The answers of the tools that feed a later call: message and thread IDs the texts show.

## Not modelled

- What handlers make of answers: `render.go`, the texts of the handlers, and the
  removal of token and URL from the JSON of `webhook_get`.
- Bodies, queries and files as bytes; the default limits in queries; the items of `embeds`,
  which handlers pass on unchecked.
- The wording and sanitising of the audit log, and the copy of the arguments it logs.
- Decoding YAML, and how secrets print themselves.
- A webhook that was deleted (404) stays in the success cache until it is idle for its TTL;
  nothing in the repository promises more.
- discordgo's global rate limit, and routes of different bots.
- Concurrent verifications of one bad credential before its first refusal are bounded by the
  requests in flight only; the code promises no other bound.
- Docker and Make files, tests and the fake Discord they use.
