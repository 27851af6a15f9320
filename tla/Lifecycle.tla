----------------------------- MODULE Lifecycle ------------------------------
(***************************************************************************)
(* The process from its config file to its exit: run of cmd/server/main.go, *)
(* Build, buildInstance and Close of internal/app/app.go, the router       *)
(* (internal/router/router.go) that hands requests to the server of their  *)
(* capability, and the requests under way when the process is told to stop. *)
(*                                                                         *)
(* What Discord and the HTTP server of Go do is environment: the answers   *)
(* to verification, READY, the listener, and how srv.Shutdown drains.      *)
(***************************************************************************)
EXTENDS Config, FiniteSets

CONSTANTS
    Files,           \* what the config file may hold
    Verify,          \* the values of -verify-credentials
    Flags,           \* the application flags a bot may have at Discord
    Requests,        \* HTTP requests
    Queries,         \* what they ask: [path, method, scheme, value, key]
    DirectBots, DirectHooks   \* credentials of Discord that clients send

ASSUME FilesAssumption ==
    \A f \in Files :
        /\ f \in Document
        /\ \A i \in DOMAIN f.instances : /\ AtMostOne(f.instances[i].bot)
                                         /\ \A b \in f.instances[i].bot : AtMostOne(b.events)
ASSUME VerifyAssumption == Verify \subseteq BOOLEAN
ASSUME DirectAssumption == DirectBots \cap DirectHooks = {} /\ "" \notin DirectBots \cup DirectHooks

VARIABLES
    file, verify,    \* the document and the flag the process started with
    cfg,             \* what Load returned: {} or {c}
    pc,              \* where run is
    next,            \* the instance Build works on
    flags,           \* auxiliary: the application flags of the bots
    entries,         \* tokens and principal of the instances built so far
    gateways, buffers,   \* the lists of the App, as sets of instances
    session, buffer, \* what became of the websocket and the buffer of an instance
    signalled,       \* ctx of signal.NotifyContext is done
    listener,        \* the goroutine of ListenAndServe
    stage, got,      \* of each request: where it is, and what the router made of it
    failure          \* why run returned an error

buildVars   == <<next, entries, gateways, buffers>>
requestVars == <<stage, got>>
fixedVars   == <<file, verify, flags>>
vars == <<fixedVars, cfg, pc, buildVars, session, buffer, signalled, listener,
          requestVars, failure>>

c == CHOOSE x \in cfg : TRUE
Instances == DOMAIN file.instances
inst == c.instances[next]
bot  == CHOOSE b \in inst.bot : TRUE
ev   == CHOOSE e \in bot.events : TRUE

-----------------------------------------------------------------------------
Unasked == [status |-> 0, query |-> {}, by |-> {}]

Init ==
    /\ file \in Files /\ verify \in Verify /\ flags \in Flags
    /\ cfg = {} /\ pc = "load" /\ next = 1
    /\ entries = <<>> /\ gateways = {} /\ buffers = {}
    /\ session = [i \in Instances |-> "none"]
    /\ buffer = [i \in Instances |-> "none"]
    /\ signalled = FALSE /\ listener = "none"
    /\ stage = [r \in Requests |-> "idle"] /\ got = [r \in Requests |-> Unasked]
    /\ failure = "none"

(* How run returns: main exits, and whatever is under way with it. *)
End(why) ==
    /\ pc' = "end" /\ failure' = why
    /\ listener' = IF listener = "none" THEN "none" ELSE "closed"

Load ==
    /\ pc = "load"
    /\ cfg' = Parse(file)
    /\ IF cfg' = {}
       THEN End("config")
       ELSE pc' = (IF file.instances = <<>> THEN "resolver" ELSE "verify")
            /\ UNCHANGED <<failure, listener>>
    /\ UNCHANGED <<fixedVars, buildVars, session, buffer, signalled, requestVars>>

(* SIGINT or SIGTERM, from signal.NotifyContext on. *)
Signal ==
    /\ pc \notin {"load", "end"} /\ ~signalled
    /\ signalled' = TRUE
    /\ UNCHANGED <<fixedVars, cfg, pc, buildVars, session, buffer, listener,
                   requestVars, failure>>

-----------------------------------------------------------------------------
(* App.Close: the gateways, then the buffers. *)
ClosedSessions == [i \in Instances |-> IF i \in gateways THEN "closed" ELSE session[i]]
ClosedBuffers  == [i \in Instances |-> IF i \in buffers THEN "closed" ELSE buffer[i]]

(* Build returns an error: what was started is closed. *)
Fail(why) ==
    /\ End(why)
    /\ session' = ClosedSessions /\ buffer' = ClosedBuffers

Principal(cap) ==
    [cap |-> cap, user |-> verify /\ cap # "webhook", instance |-> {next},
     events |-> IF cap = "bot+events" THEN {next} ELSE {}]

(* The instance is built; on to the next one. *)
Built(cap) ==
    /\ entries' = Append(entries, [tokens |-> inst.tokens, p |-> Principal(cap)])
    /\ next' = next + 1
    /\ pc' = IF next = Len(c.instances) THEN "resolver" ELSE "verify"

(* The request of VerifyBot, VerifyWebhook or CheckPrivilegedIntents fails: *)
(* Discord refuses or does not answer, or ctx is done.                      *)
VerifyFails ==
    /\ pc = "verify" /\ verify
    /\ Fail("verify")
    /\ UNCHANGED <<fixedVars, cfg, buildVars, signalled, requestVars>>

Verified == pc = "verify" /\ (verify => ~signalled)

BuildWebhook ==
    /\ Verified /\ inst.webhook # {}
    /\ Built("webhook")
    /\ UNCHANGED <<fixedVars, cfg, gateways, buffers, session, buffer, signalled,
                   listener, requestVars, failure>>

BuildBot ==
    /\ Verified /\ inst.webhook = {} /\ bot.events = {}
    /\ Built("bot")
    /\ UNCHANGED <<fixedVars, cfg, gateways, buffers, session, buffer, signalled,
                   listener, requestVars, failure>>

NewBuffer ==
    /\ Verified /\ inst.webhook = {} /\ bot.events # {}
    /\ buffer' = [buffer EXCEPT ![next] = "open"]
    /\ buffers' = buffers \cup {next}
    /\ IF verify THEN pc' = "intents" /\ UNCHANGED <<next, entries>>
                 ELSE Built("bot+events")
    /\ UNCHANGED <<fixedVars, cfg, gateways, session, signalled, listener,
                   requestVars, failure>>

-----------------------------------------------------------------------------
AsksFlags == ev.intents \cap Privileged # {}

FlagsUnknown ==
    /\ pc = "intents" /\ AsksFlags
    /\ Fail("verify")
    /\ UNCHANGED <<fixedVars, cfg, buildVars, signalled, requestVars>>

CheckPrivilegedIntents ==
    /\ pc = "intents" /\ (AsksFlags => ~signalled)
    /\ IF AsksFlags /\ MissingPrivileged(ev.intents, flags) # {}
       THEN Fail("intents")
       ELSE pc' = "open" /\ UNCHANGED <<session, buffer, listener, failure>>
    /\ UNCHANGED <<fixedVars, cfg, buildVars, signalled, requestVars>>

(* Gateway.Start.  Nothing in it looks at ctx. *)
OpenFails ==
    /\ pc = "open"
    /\ Fail("gateway")
    /\ UNCHANGED <<fixedVars, cfg, buildVars, signalled, requestVars>>

Open ==
    /\ pc = "open"
    /\ session' = [session EXCEPT ![next] = "open"]
    /\ pc' = "ready"
    /\ UNCHANGED <<fixedVars, cfg, buildVars, buffer, signalled, listener,
                   requestVars, failure>>

(* Discord sends no READY to a session with an intent it does not allow. *)
Allowed(mask) == \A p \in mask \cap Privileged : Enabling(p) \cap flags # {}

Ready ==
    /\ pc = "ready" /\ Allowed(ev.intents)
    /\ gateways' = gateways \cup {next}
    /\ Built("bot+events")
    /\ UNCHANGED <<fixedVars, cfg, buffers, session, buffer, signalled, listener,
                   requestVars, failure>>

(* fault: the session that did not get ready is left to Close, which does  *)
(* not know it                                                             *)
NotReadyLeft ==
    /\ pc = "ready"
    /\ Fail("not ready")
    /\ UNCHANGED <<fixedVars, cfg, buildVars, signalled, requestVars>>

NotReady ==
    /\ pc = "ready"
    /\ End("not ready")
    /\ session' = [ClosedSessions EXCEPT ![next] = "closed"]
    /\ buffer' = ClosedBuffers
    /\ UNCHANGED <<fixedVars, cfg, buildVars, signalled, requestVars>>

Build ==
    \/ VerifyFails \/ BuildWebhook \/ BuildBot \/ NewBuffer
    \/ FlagsUnknown \/ CheckPrivilegedIntents
    \/ OpenFails \/ Open \/ Ready \/ NotReady

(* auth.NewResolver: tokens are not empty, and each has one owner. *)
Indexed ==
    LET at == UNION {{i} \X DOMAIN entries[i].tokens : i \in DOMAIN entries}
        token(p) == entries[p[1]].tokens[p[2]]
    IN  \A p, q \in at : token(p) # "" /\ (p # q => token(p) # token(q))

NewResolver ==
    /\ pc = "resolver"
    /\ IF Indexed THEN pc' = "serve" /\ listener' = "starting"
                       /\ UNCHANGED <<session, buffer, failure>>
                  ELSE Fail("resolver")
    /\ UNCHANGED <<fixedVars, cfg, buildVars, signalled, requestVars>>

-----------------------------------------------------------------------------
(* auth.Credential: a bearer header that is not blank wins. *)
CredentialKeyFirst(q) ==                    \* fault: X-API-Key wins
    IF q.key # "" THEN q.key ELSE IF q.scheme = "bearer" THEN q.value ELSE ""

Credential(q) == IF q.scheme = "bearer" /\ q.value # "" THEN q.value ELSE q.key

DirectPrincipal(cap) == [cap |-> cap, user |-> cap = "bot", instance |-> {}, events |-> {}]

(* What Resolve may return: {} is a refusal.  Discord decides on the       *)
(* credentials that are not in the file (module Resolver).                 *)
Resolve(cred) ==
    LET owners == {i \in DOMAIN entries : \E j \in DOMAIN entries[i].tokens :
                                              entries[i].tokens[j] = cred}
    IN  IF owners # {} THEN {{entries[i].p} : i \in owners}
        ELSE {{}} \cup
             IF ~c.enabled THEN {}
             ELSE IF cred \in DirectBots THEN {{DirectPrincipal("bot")}}
             ELSE IF cred \in DirectHooks THEN {{DirectPrincipal("webhook")}} ELSE {}

(* Router.ServeHTTP: a status of 200 with a principal is the MCP server of *)
(* its capability.                                                         *)
Replies(q) ==
    IF q.path = "/healthz"
    THEN {[status |-> IF q.method \in {"GET", "HEAD"} THEN 200 ELSE 405, query |-> {q}, by |-> {}]}
    ELSE {[status |-> IF p = {} THEN 401 ELSE IF q.path = "/mcp" THEN 200 ELSE 404,
           query |-> {q}, by |-> p] : p \in Resolve(Credential(q))}

Accepting == listener = "listening"

(* What the client does with its MCP server: a call, or a wait if it has   *)
(* the tool for one.                                                       *)
Serving(reply) ==
    IF reply.status # 200 \/ reply.by = {} THEN {"answered"}
    ELSE {"call"} \cup IF \E p \in reply.by : p.events # {} THEN {"wait"} ELSE {}

ServeHTTP(r, q) ==
    /\ Accepting /\ stage[r] = "idle"
    /\ \E reply \in Replies(q) :
        /\ got' = [got EXCEPT ![r] = reply]
        /\ \E s \in Serving(reply) : stage' = [stage EXCEPT ![r] = s]
    /\ UNCHANGED <<fixedVars, cfg, pc, buildVars, session, buffer, signalled,
                   listener, failure>>

WaitsOn(r, state) ==
    stage[r] = "wait" /\ \A p \in got[r].by : \A i \in p.events : buffer[i] = state

Answer(r) ==
    /\ stage' = [stage EXCEPT ![r] = "answered"]
    /\ UNCHANGED <<fixedVars, cfg, pc, buildVars, session, buffer, signalled,
                   listener, got, failure>>

(* A tool call ends when Discord has answered or its time is over; a wait  *)
(* ends by an event, its timeout or its client, and by Close.              *)
Finish(r) == pc # "end" /\ (stage[r] = "call" \/ WaitsOn(r, "open")) /\ Answer(r)
Woken(r)  == pc # "end" /\ WaitsOn(r, "closed") /\ Answer(r)

-----------------------------------------------------------------------------
(* The goroutine of ListenAndServe. *)
Listen ==
    /\ listener = "starting" /\ pc \in {"serve", "close", "buffers", "shutdown"}
    /\ listener' \in {"listening", "failed"}
    /\ UNCHANGED <<fixedVars, cfg, pc, buildVars, session, buffer, signalled,
                   requestVars, failure>>

(* Accept fails for good. *)
ListenerFails ==
    /\ listener = "listening" /\ pc = "serve"
    /\ listener' = "failed"
    /\ UNCHANGED <<fixedVars, cfg, pc, buildVars, session, buffer, signalled,
                   requestVars, failure>>

(* The select of run, and the deferred a.Close. *)
ServeFails ==
    /\ pc = "serve" /\ listener = "failed"
    /\ Fail("listen")
    /\ UNCHANGED <<fixedVars, cfg, buildVars, signalled, requestVars>>

ShutDown ==
    /\ pc = "serve" /\ signalled
    /\ pc' = "close"
    /\ UNCHANGED <<fixedVars, cfg, buildVars, session, buffer, signalled, listener,
                   requestVars, failure>>

CloseGateways ==
    /\ pc = "close"
    /\ session' = ClosedSessions
    /\ pc' = "buffers"
    /\ UNCHANGED <<fixedVars, cfg, buildVars, buffer, signalled, listener,
                   requestVars, failure>>

(* b.Close for each buffer.  Requests are still accepted; one that waits   *)
(* from now on finds its buffer closed.                                    *)
CloseBuffers ==
    /\ pc = "buffers"
    /\ buffer' = ClosedBuffers
    /\ pc' = "shutdown"
    /\ UNCHANGED <<fixedVars, cfg, buildVars, session, signalled, listener,
                   requestVars, failure>>

(* srv.Shutdown closes the listener, or keeps it from coming up. *)
CloseListener ==
    /\ pc = "shutdown"
    /\ listener' = "closed"
    /\ pc' = "drain"
    /\ UNCHANGED <<fixedVars, cfg, buildVars, session, buffer, signalled,
                   requestVars, failure>>

InFlight == {r \in Requests : stage[r] \in {"call", "wait"}}

(* srv.Shutdown returns when nothing is under way. *)
Drained ==
    /\ pc = "drain" /\ InFlight = {}
    /\ Fail("none")
    /\ UNCHANGED <<fixedVars, cfg, buildVars, signalled, requestVars>>

(* Or after ten seconds, in which a wait that was woken answers.           *)
DrainTimeoutNever == FALSE                  \* fault: Shutdown without a deadline

DrainTimeout ==
    /\ pc = "drain" /\ InFlight # {} /\ \A r \in Requests : ~WaitsOn(r, "closed")
    /\ Fail("drain")
    /\ UNCHANGED <<fixedVars, cfg, buildVars, signalled, requestVars>>

Stop ==
    \/ ServeFails \/ ShutDown
    \/ CloseGateways \/ CloseBuffers \/ CloseListener
    \/ Drained \/ DrainTimeout

(* The goroutine of main. *)
Run == Load \/ Build \/ NewResolver \/ Stop

Next ==
    \/ Run \/ Signal \/ Listen \/ ListenerFails
    \/ \E r \in Requests : Finish(r) \/ Woken(r) \/ \E q \in Queries : ServeHTTP(r, q)

Spec == Init /\ [][Next]_vars

(* The goroutine of main and the woken waits run; discord.timeout, the     *)
(* ready timeout and the drain's are timers that fire.  A request need not *)
(* end, and a listener need not come up.                                   *)
FairSpec == Spec /\ WF_vars(Run) /\ \A r \in Requests : WF_vars(Woken(r))

-----------------------------------------------------------------------------
Principals == [cap: {"bot", "bot+events", "webhook"}, user: BOOLEAN,
               instance: SUBSET Instances, events: SUBSET Instances]

(* Every variable has its type. *)
TypeOK ==
    /\ file \in Files /\ verify \in Verify /\ flags \in Flags
    /\ cfg = {} \/ cfg = Parse(file)
    /\ pc \in {"load", "verify", "intents", "open", "ready", "resolver", "serve",
               "close", "buffers", "shutdown", "drain", "end"}
    /\ next \in Nat
    /\ entries \in Seq([tokens: Seq(STRING), p: Principals])
    /\ gateways \subseteq Instances /\ buffers \subseteq Instances
    /\ session \in [Instances -> {"none", "open", "closed"}]
    /\ buffer \in [Instances -> {"none", "open", "closed"}]
    /\ signalled \in BOOLEAN
    /\ listener \in {"none", "starting", "listening", "failed", "closed"}
    /\ stage \in [Requests -> {"idle", "call", "wait", "answered"}]
    /\ got \in [Requests -> [status: {0, 200, 401, 404, 405}, query: SUBSET Queries,
                            by: SUBSET Principals]]

(* "On error, anything already started is closed" (app.go:50), and run     *)
(* defers a.Close: however run returns, no Gateway session and no buffer   *)
(* is left open, not even those of the instance that failed.               *)
NothingLeftOpen ==
    pc = "end" => \A i \in Instances : session[i] # "open" /\ buffer[i] # "open"

(* "Wake wait_for_message calls first so Shutdown can drain them"          *)
(* (main.go:80): a wait is never cut off by the end of the process, not    *)
(* even one that began after the buffers were closed.                      *)
WaitsAnswered ==
    pc = "end" /\ failure # "listen" => \A r \in Requests : stage[r] # "wait"

EndsClean == NothingLeftOpen /\ WaitsAnswered

(* "Everything downstream receives a complete, valid value and never       *)
(* re-checks it" (config.go:8-9): a file Parse accepted never fails in the *)
(* resolver, a buffer has room for an event, and a Gateway that is opened  *)
(* may have all the intents it asks for, so that a privileged intent that  *)
(* is not enabled is named and does not time out (intents.go:72-75).       *)
ConfigSuffices ==
    /\ failure # "resolver"
    /\ \A i \in buffers : \E b \in c.instances[i].bot : \E e \in b.events :
           /\ \A n \in e.size : n >= 1
           /\ e.size # {}
           /\ session[i] # "none" => Allowed(e.intents)

(* The capability the file gives an instance. *)
Configured(i) ==
    LET in == file.instances[i]
    IN  IF in.webhook # {} THEN "webhook"
        ELSE IF \E b \in in.bot : b.events # {} THEN "bot+events" ELSE "bot"

Owners(cred) == {i \in Instances : \E j \in DOMAIN file.instances[i].tokens :
                                       file.instances[i].tokens[j] = cred}

(* The principal of instance i: one that was verified knows its user.      *)
ConfiguredPrincipal(i) ==
    [cap |-> Configured(i), user |-> verify /\ Configured(i) # "webhook", instance |-> {i},
     events |-> IF Configured(i) = "bot+events" THEN {i} ELSE {}]

Sent(q) == IF q.scheme = "bearer" /\ q.value # "" THEN q.value ELSE q.key

AsConfigured(owners, answer) ==
    /\ answer.by = {} <=> answer.status = 401
    /\ \A i \in owners : answer.by = {ConfiguredPrincipal(i)}
    /\ owners = {} => \A p \in answer.by : /\ file.enabled
                                           /\ p.instance = {} /\ p.events = {}
                                           /\ p.cap # "bot+events"

(* A request runs as the instance whose token it sends, on the server of   *)
(* the capability the file gives that instance, whatever else it asks for; *)
(* a config token is never refused; and nobody else gets past 401 unless   *)
(* direct authentication is on, and then reaches no instance and no feed.  *)
ServedAsConfigured ==
    \A r \in Requests : \A q \in got[r].query :
        q.path # "/healthz" => AsConfigured(Owners(Sent(q)), got[r])

(* From the signal on, the process ends: neither a Gateway that never gets *)
(* ready, nor a wait, nor a call that Discord does not answer holds it.    *)
StopsOnSignal == signalled ~> pc = "end"
=============================================================================
