------------------------------ MODULE Gateway ------------------------------
(***************************************************************************)
(* internal/events/gateway.go: how one bot's Gateway dispatches reach its  *)
(* event buffer.                                                           *)
(*                                                                         *)
(* discordgo reads dispatches from the socket in order and calls handle on *)
(* each.  NewGateway leaves the session's SyncEvents at its default, so    *)
(* discordgo runs every call in a goroutine of its own and never waits for *)
(* it: up to Concurrency calls are under way at once.  Concurrency = 1 is  *)
(* the order the package's own test calls handle in.                       *)
(*                                                                         *)
(* An action of a call is one critical section of g.mu, or what the call   *)
(* does after it.  The buffer is the log EventLog describes: stored is the *)
(* sequence of what Append kept.                                           *)
(***************************************************************************)
EXTENDS Naturals, Sequences, FiniteSets

CONSTANTS
    Guilds,       \* guild ids
    Concurrency,  \* BOUND: calls of handle under way at once
    MaxDispatch   \* BOUND: dispatches of a behaviour

ASSUME ConcurrencyAssumption == Concurrency \in Nat \ {0}
ASSUME DispatchAssumption    == MaxDispatch \in Nat

Lifecycle == {"READY", "RESUMED"}
Types     == Lifecycle \cup {"GUILD_CREATE", "GUILD_DELETE", "MESSAGE_CREATE"}

(* A dispatch: its place in the stream, the session it came in, the guilds *)
(* it names, and whether it is one of the GUILD_CREATEs by which Discord   *)
(* fills in the guilds a READY listed (nothing in the payload says so).    *)
Dispatch == [n: 1 .. MaxDispatch, type: Types, guilds: SUBSET Guilds,
             session: Nat, burst: BOOLEAN]

VARIABLES
    member,        \* Discord: the guilds the bot is in
    pending,       \* Discord: guilds of the last READY still to be filled in
    received,      \* the dispatches read from the socket, in order
    open,          \* the session is open
    starting,      \* Start: "waiting", "started" or "failed"
    calls,         \* the calls of handle under way: [d, pc]
    readyCount, startupGuilds,
    ready,         \* the channel g.ready is closed
    bufClosed,     \* the buffer is closed: Append keeps nothing
    stored,        \* what the buffer kept: [marker, d]
    dropped,       \* auxiliary: the GUILD_CREATEs handle did not buffer
    inOrder        \* auxiliary: no call was started while another was under way

discordVars == <<member, pending, received, open, starting>>
gateVars    == <<readyCount, startupGuilds, ready>>
bufferVars  == <<bufClosed, stored>>
auxVars     == <<dropped, inOrder>>
vars == <<discordVars, calls, gateVars, bufferVars, auxVars>>

Session == Cardinality({i \in DOMAIN received : received[i].type = "READY"})

-----------------------------------------------------------------------------
Init ==
    /\ member = Guilds /\ pending = {} /\ received = <<>> /\ open = TRUE
    /\ starting = "waiting"
    /\ calls = {} /\ readyCount = 0 /\ startupGuilds = {} /\ ready = FALSE
    /\ bufClosed = FALSE /\ stored = <<>>
    /\ dropped = {} /\ inOrder = TRUE

(* discordgo reads one dispatch and starts a call of handle for it. *)
Receive(type, guilds, session, burst) ==
    /\ open
    /\ Len(received) < MaxDispatch
    /\ Cardinality(calls) < Concurrency
    /\ LET d == [n |-> Len(received) + 1, type |-> type, guilds |-> guilds,
                 session |-> session, burst |-> burst]
       IN  /\ received' = Append(received, d)
           /\ calls' = calls \cup {[d |-> d, pc |-> "handle"]}
    /\ inOrder' = (inOrder /\ calls = {})
    /\ UNCHANGED <<open, starting, gateVars, bufferVars, dropped>>

(* A session starts, the first one or after a resume that failed: READY    *)
(* lists the bot's guilds.                                                 *)
Identify ==
    /\ Receive("READY", member, Session + 1, FALSE)
    /\ pending' = member
    /\ UNCHANGED member

Resume ==
    /\ Session > 0
    /\ Receive("RESUMED", {}, Session, FALSE)
    /\ UNCHANGED <<member, pending>>

FillIn(g) ==
    /\ g \in pending
    /\ Receive("GUILD_CREATE", {g}, Session, TRUE)
    /\ pending' = pending \ {g}
    /\ UNCHANGED member

(* The bot leaves a guild, and is added to one. *)
Leave(g) ==
    /\ Session > 0
    /\ g \in member
    /\ Receive("GUILD_DELETE", {g}, Session, FALSE)
    /\ member' = member \ {g}
    /\ pending' = pending \ {g}

Join(g) ==
    /\ Session > 0
    /\ g \notin member
    /\ Receive("GUILD_CREATE", {g}, Session, FALSE)
    /\ member' = member \cup {g}
    /\ UNCHANGED pending

Message ==
    /\ Session > 0
    /\ Receive("MESSAGE_CREATE", {}, Session, FALSE)
    /\ UNCHANGED <<member, pending>>

-----------------------------------------------------------------------------
(* handle. *)
MoveTo(c, pc) == calls' = (calls \ {c}) \cup {[c EXCEPT !.pc = pc]}
Done(c)       == calls' = calls \ {c}

At(c, pc, types) == c \in calls /\ c.pc = pc /\ c.d.type \in types

(* READY under g.mu; what follows depends on first, taken under the lock. *)
AfterReadyAlways   == "announce"                          \* fault: first unused
AfterReadyUnmarked == IF readyCount' = 1 THEN "announce" ELSE "none"

AfterReady == IF readyCount' = 1 THEN "announce" ELSE "mark"

HandleReadyOneKey(c) ==                     \* fault: the listing is one key
    /\ At(c, "handle", {"READY"})
    /\ startupGuilds' = {c.d.guilds}
    /\ readyCount' = readyCount + 1
    /\ MoveTo(c, AfterReady)
    /\ UNCHANGED <<discordVars, ready, bufferVars, auxVars>>

HandleReady(c) ==
    /\ At(c, "handle", {"READY"})
    /\ startupGuilds' = c.d.guilds
    /\ readyCount' = readyCount + 1
    /\ MoveTo(c, AfterReady)
    /\ UNCHANGED <<discordVars, ready, bufferVars, auxVars>>

(* The first READY closes g.ready. *)
Announce(c) ==
    /\ At(c, "announce", {"READY"})
    /\ ready' = TRUE
    /\ Done(c)
    /\ UNCHANGED <<discordVars, readyCount, startupGuilds, bufferVars, auxVars>>

BufPrepend(entry) ==                        \* fault: newest first
    /\ stored' = IF bufClosed THEN stored ELSE <<entry>> \o stored
    /\ UNCHANGED bufClosed

BufAppend(entry) ==
    /\ stored' = IF bufClosed THEN stored ELSE Append(stored, entry)
    /\ UNCHANGED bufClosed

(* Any later one leaves a gateway_reconnected marker in the buffer. *)
Mark(c) ==
    /\ At(c, "mark", {"READY"})
    /\ BufAppend([marker |-> TRUE, d |-> c.d])
    /\ Done(c)
    /\ UNCHANGED <<discordVars, gateVars, auxVars>>

(* A RESUMED is only logged; so is an event that is no dispatch ignored.   *)
HandleResumed(c) ==
    /\ At(c, "handle", {"RESUMED"})
    /\ Done(c)
    /\ UNCHANGED <<discordVars, gateVars, bufferVars, auxVars>>

(* GUILD_CREATE under g.mu: part of the burst if the guild is still listed. *)
HandleGuildListed(c) ==                     \* fault: the listing is kept
    /\ At(c, "handle", {"GUILD_CREATE"})
    /\ IF c.d.guilds \subseteq startupGuilds
       THEN dropped' = dropped \cup {c.d} /\ Done(c)
       ELSE UNCHANGED dropped /\ MoveTo(c, "append")
    /\ UNCHANGED <<discordVars, readyCount, startupGuilds, ready, bufferVars, inOrder>>

HandleGuildCreate(c) ==
    /\ At(c, "handle", {"GUILD_CREATE"})
    /\ startupGuilds' = startupGuilds \ c.d.guilds
    /\ IF c.d.guilds \subseteq startupGuilds
       THEN dropped' = dropped \cup {c.d} /\ Done(c)
       ELSE UNCHANGED dropped /\ MoveTo(c, "append")
    /\ UNCHANGED <<discordVars, readyCount, ready, bufferVars, inOrder>>

(* Every other type goes straight to the buffer. *)
Buffered(c) ==
    \/ At(c, "append", {"GUILD_CREATE"})
    \/ At(c, "handle", {"GUILD_DELETE", "MESSAGE_CREATE"})

BufferAgain(c) ==                           \* fault: stored, not finished
    /\ Buffered(c)
    /\ BufAppend([marker |-> FALSE, d |-> c.d])
    /\ UNCHANGED <<discordVars, calls, gateVars, auxVars>>

Buffer(c) ==
    /\ Buffered(c)
    /\ BufAppend([marker |-> FALSE, d |-> c.d])
    /\ Done(c)
    /\ UNCHANGED <<discordVars, gateVars, auxVars>>

Handle(c) == \/ HandleReady(c) \/ Announce(c) \/ Mark(c) \/ HandleResumed(c)
             \/ HandleGuildCreate(c) \/ Buffer(c)

-----------------------------------------------------------------------------
(* Start returns when g.ready is closed; at its timeout it closes the      *)
(* session and fails.  When both are ready Go picks either.                *)
StartReady ==
    /\ starting = "waiting" /\ ready
    /\ starting' = "started"
    /\ UNCHANGED <<member, pending, received, open, calls, gateVars, bufferVars, auxVars>>

StartTimeout ==
    /\ starting = "waiting"
    /\ starting' = "failed" /\ open' = FALSE
    /\ UNCHANGED <<member, pending, received, calls, gateVars, bufferVars, auxVars>>

(* App.Close: Gateway.Close ends the session, then the buffer is closed.   *)
CloseGateway ==
    /\ starting = "started" /\ open
    /\ open' = FALSE
    /\ UNCHANGED <<member, pending, received, starting, calls, gateVars, bufferVars, auxVars>>

CloseBuffer ==
    /\ starting = "started" /\ ~open /\ ~bufClosed
    /\ bufClosed' = TRUE
    /\ UNCHANGED <<discordVars, calls, gateVars, stored, auxVars>>

Next ==
    \/ Identify \/ Resume \/ Message
    \/ \E g \in Guilds : FillIn(g) \/ Leave(g) \/ Join(g)
    \/ \E c \in calls : Handle(c)
    \/ StartReady \/ StartTimeout \/ CloseGateway \/ CloseBuffer

Spec == Init /\ [][Next]_vars

(* A call that was started finishes. *)
HandleNth(n) == \E c \in calls : c.d.n = n /\ Handle(c)

FairSpec == Spec /\ \A n \in 1 .. MaxDispatch : WF_vars(HandleNth(n))

-----------------------------------------------------------------------------
TypeOK ==
    /\ member \subseteq Guilds /\ pending \subseteq member
    /\ received \in Seq(Dispatch)
    /\ open \in BOOLEAN /\ starting \in {"waiting", "started", "failed"}
    /\ calls \subseteq [d: Dispatch, pc: {"handle", "announce", "mark", "append"}]
    /\ readyCount \in 0 .. MaxDispatch
    /\ startupGuilds \subseteq Guilds
    /\ ready \in BOOLEAN /\ bufClosed \in BOOLEAN
    /\ stored \in Seq([marker: BOOLEAN, d: Dispatch])
    /\ dropped \subseteq Dispatch /\ inOrder \in BOOLEAN

Entries == {stored[i].d : i \in {i \in DOMAIN stored : ~stored[i].marker}}
Markers == {i \in DOMAIN stored : stored[i].marker}
InHand  == {c.d : c \in {c \in calls : c.d.type \notin Lifecycle}}
Regular == {received[i] : i \in {i \in DOMAIN received : received[i].type \notin Lifecycle}}

(* handle loses nothing and stores nothing twice: while the buffer is open *)
(* every dispatch that is not READY or RESUMED is in exactly one place,    *)
(* stored, dropped as startup burst, or in the hands of a call.            *)
EachDispatchOnce ==
    ~bufClosed =>
        /\ Regular = Entries \cup dropped \cup InHand
        /\ Entries \cap dropped = {} /\ (Entries \cup dropped) \cap InHand = {}
        /\ Cardinality(Entries) + Cardinality(Markers) = Len(stored)

(* Two READYs handled at once never both close g.ready (the second close   *)
(* would panic), and never both leave it open (Start would time out).      *)
ReadyClosedOnce ==
    Cardinality({c \in calls : c.pc = "announce"}) + (IF ready THEN 1 ELSE 0)
        = (IF readyCount > 0 THEN 1 ELSE 0)

(* Each session after the first puts exactly one marker in the buffer.     *)
MarkerPerReconnect ==
    ~bufClosed =>
        Cardinality(Markers) + Cardinality({c \in calls : c.pc = "mark"})
            = IF readyCount > 0 THEN readyCount - 1 ELSE 0

(* One listing of a guild hides at most one GUILD_CREATE of it.            *)
OneDropPerListing ==
    \A g \in Guilds :
        Cardinality({d \in dropped : d.guilds = {g}}) <=
            Cardinality({i \in DOMAIN received :
                            received[i].type = "READY" /\ g \in received[i].guilds})

(* A reconnect is always reported, whatever else is going on. *)
ReconnectReported ==
    \A k \in 2 .. MaxDispatch :
        Session = k ~> (Cardinality(Markers) >= k - 1 \/ bufClosed)

-----------------------------------------------------------------------------
(* Design, section 6: "every dispatch event delivered, except lifecycle    *)
(* ones (READY, RESUMED, and the GUILD_CREATE burst following READY)".     *)
BurstNotStored == \A d \in Entries : ~d.burst

(* It holds as long as handle finishes one dispatch before the next, as in *)
(* the tests of the package.                                               *)
BurstNotStoredInOrder == inOrder => BurstNotStored

(* What startupGuilds hides (gateway.go:99-111): no more than one dispatch *)
(* per listing, however the calls overlap, and all of the burst as long as *)
(* they do not.                                                            *)
BurstHidden == OneDropPerListing /\ BurstNotStoredInOrder

(* The other half of that sentence: nothing but the burst is left out.     *)
OnlyBurstDropped == \A d \in dropped : d.burst

(* "TypeGatewayReconnected marks a point where events may be missing"      *)
(* (gateway.go:15-16): in order, the marker of a session stands after      *)
(* everything of the sessions before it and before everything of its own.  *)
(* With overlapping calls it has no fixed place: it is appended outside    *)
(* g.mu.                                                                   *)
MarkerSeparatesSessions ==
    inOrder => \A i \in Markers, j \in DOMAIN stored :
                   /\ j < i => stored[j].d.session < stored[i].d.session
                   /\ j > i => stored[j].d.session >= stored[i].d.session

(* The marker of a new session (gateway.go:93-95) is there once, whatever  *)
(* overlaps, and in its place as long as nothing does.                     *)
SessionsMarked == MarkerPerReconnect /\ MarkerSeparatesSessions
=============================================================================
