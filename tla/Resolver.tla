------------------------------ MODULE Resolver ------------------------------
(***************************************************************************)
(* internal/auth/resolver.go: concurrent calls of Resolve, the two caches  *)
(* it keeps under r.mu, and what the tool wrapper does with the principal  *)
(* it returns (internal/tools/tools.go: evict the credential on a 401).    *)
(*                                                                         *)
(* A call reads the clock, looks in the caches, asks Discord with the lock *)
(* released, and records the answer: four steps, with others in between.   *)
(***************************************************************************)
EXTENDS Integers

CONSTANTS
    Requests,        \* HTTP requests that may be under way at once
    Keys,            \* what the caches are keyed by: hash of the credential
    Credentials,     \* what clients send: [form, key]
    DirectEnabled,   \* direct_auth.enabled
    CacheTTL, FailureTTL,
    Lag,             \* BOUND: longest time from reading the clock to recording
    MaxTime          \* BOUND on the clock

(* "token" is a token of the config file, "garbled" is no credential known *)
(* or recognised; "url" and "pair" are the two ways to write one webhook.  *)
Direct   == {"bot", "url", "pair"}
Forms    == Direct \cup {"none", "token", "garbled"}
Instance == "instance"                \* the principal of a config token

ASSUME KeysAssumption == Keys # {}
ASSUME CredentialAssumption == Credentials \subseteq [form: Forms, key: Keys]
ASSUME InstanceAssumption   == Instance \notin Requests
ASSUME DirectAssumption     == DirectEnabled \in BOOLEAN
ASSUME DurationAssumption   ==
    /\ CacheTTL \in Nat /\ FailureTTL \in Nat \ {0} /\ MaxTime \in Nat
    /\ Lag \in Nat

(* A principal is known by the request whose verification made it.         *)
Principal == Requests \cup {Instance}
Entry     == [p: Requests, lastUsed: Nat]
Status    == {200, 401, 404, 503}     \* 503: any answer that is no verdict, or none
Nobody    == [form |-> "none", key |-> CHOOSE k \in Keys : TRUE]

VARIABLES
    time,         \* the clock r.now() reads
    valid,        \* the credentials Discord accepts
    ok, bad,      \* the caches: a key has at most one entry
    lastSweep,
    pc, cred, clock, status, held,    \* of each request: where it is, what it
                                      \* sent, its now, Discord's answer, and
                                      \* the principal it runs under
    outcome,      \* how the last call of Resolve of the request ended
    refusedAt,    \* auxiliary: when a refusal of the key was last recorded
    warned,       \* auxiliary: the call began within FailureTTL of refusedAt
    seenAt,       \* auxiliary: when the key was last accepted
    shared        \* auxiliary: requests whose principal was in ok ever since

cacheVars   == <<ok, bad, lastSweep>>
requestVars == <<pc, cred, clock, status, held, outcome>>
auxVars     == <<refusedAt, warned, seenAt, shared>>
vars == <<time, valid, cacheVars, requestVars, auxVars>>

key(r) == cred[r].key

-----------------------------------------------------------------------------
Init ==
    /\ time = FailureTTL          \* the zero lastSweep is long past
    /\ valid \in SUBSET Keys
    /\ ok = [k \in Keys |-> {}] /\ bad = [k \in Keys |-> {}]
    /\ lastSweep = 0
    /\ pc = [r \in Requests |-> "idle"]
    /\ cred = [r \in Requests |-> Nobody]
    /\ clock = [r \in Requests |-> 0]
    /\ status = [r \in Requests |-> 503]
    /\ held = [r \in Requests |-> Instance]
    /\ outcome = [r \in Requests |-> "none"]
    /\ refusedAt = [k \in Keys |-> {}]
    /\ warned = [r \in Requests |-> FALSE]
    /\ seenAt = [k \in Keys |-> {}]
    /\ shared = {}

(* Time passes, but no call takes longer than Lag between reading the clock *)
(* and recording: verify is bounded by discord.timeout.                     *)
Tick ==
    /\ time < MaxTime
    /\ \A r \in Requests : pc[r] \in {"look", "ask", "record"} => time < clock[r] + Lag
    /\ time' = time + 1
    /\ UNCHANGED <<valid, cacheVars, requestVars, auxVars>>

(* A token is reset or a webhook deleted; neither ever works again.        *)
Revoke(k) ==
    /\ k \in valid
    /\ valid' = valid \ {k}
    /\ UNCHANGED <<time, cacheVars, requestVars, auxVars>>

-----------------------------------------------------------------------------
(* How a call of Resolve ends: the router answers 401, or runs the tool.   *)
Refuse(r, rejection) ==
    /\ pc' = [pc EXCEPT ![r] = "idle"]
    /\ outcome' = [outcome EXCEPT ![r] = rejection]
    /\ held' = [held EXCEPT ![r] = Instance]

Accept(r, p) ==
    /\ pc' = [pc EXCEPT ![r] = "serve"]
    /\ outcome' = [outcome EXCEPT ![r] = "accepted"]
    /\ held' = [held EXCEPT ![r] = p]

(* A new request, with fresh locals; what Resolve decides before it reads  *)
(* the clock.                                                              *)
Arrive(r, c, now) ==
    /\ pc[r] = "idle"
    /\ cred' = [cred EXCEPT ![r] = c]
    /\ clock' = [clock EXCEPT ![r] = now]
    /\ status' = [status EXCEPT ![r] = 503]
    /\ warned' = [warned EXCEPT ![r] =
                      \E t \in refusedAt[c.key] : time - t < FailureTTL]
    /\ shared' = shared \ {r}
    /\ UNCHANGED <<time, valid, cacheVars, refusedAt, seenAt>>

ResolveMissing(r, c) ==
    /\ Arrive(r, c, 0) /\ c.form = "none"
    /\ Refuse(r, "missing_credential")

ResolveToken(r, c) ==
    /\ Arrive(r, c, 0) /\ c.form = "token"
    /\ Accept(r, Instance)

ResolveUnknown(r, c) ==
    /\ Arrive(r, c, 0)
    /\ c.form = "garbled" \/ (c.form \in Direct /\ ~DirectEnabled)
    /\ Refuse(r, "unknown_token")

ResolveDirect(r, c) ==
    /\ Arrive(r, c, time) /\ c.form \in Direct /\ DirectEnabled
    /\ pc' = [pc EXCEPT ![r] = "look"]
    /\ held' = [held EXCEPT ![r] = Instance]
    /\ outcome' = [outcome EXCEPT ![r] = "none"]

-----------------------------------------------------------------------------
(* sweepLocked: what the caches hold once it has run. *)
Due(now) == now - lastSweep >= FailureTTL

FreshLonger(c, now) == now - c.lastUsed <= FailureTTL   \* fault: the other TTL
Fresh(c, now)  == now - c.lastUsed <= CacheTTL
Recent(t, now) == now - t < FailureTTL

SweptOk(now) ==
    [k \in Keys |-> {c \in ok[k] : Due(now) => Fresh(c, now)}]

SweptBadKeep(now) == bad                    \* fault: nothing is dropped
SweptBadAll(now)  ==                        \* fault: everything is dropped
    [k \in Keys |-> IF Due(now) THEN {} ELSE bad[k]]

SweptBad(now) ==
    [k \in Keys |-> {t \in bad[k] : Due(now) => Recent(t, now)}]

Swept(now) ==
    /\ lastSweep' = IF Due(now) THEN now ELSE lastSweep

(* auxiliary: requests whose principal is still in ok. *)
StillShared == {r \in shared : ok'[key(r)] # {}}

(* The first critical section: sweep, then one of three ways on. *)
LookHit(r) ==
    /\ pc[r] = "look"
    /\ \E c \in SweptOk(clock[r])[key(r)] :
        /\ Fresh(c, clock[r])
        /\ ok' = [SweptOk(clock[r]) EXCEPT ![key(r)] = {[c EXCEPT !.lastUsed = clock[r]]}]
        /\ Accept(r, c.p)
    /\ bad' = SweptBad(clock[r])
    /\ Swept(clock[r])
    /\ seenAt' = [seenAt EXCEPT ![key(r)] = {time}]
    /\ shared' = StillShared \cup {r}
    /\ UNCHANGED <<time, valid, cred, clock, status, refusedAt, warned>>

NoHit(r) == \A c \in SweptOk(clock[r])[key(r)] : ~Fresh(c, clock[r])

LookRefused(r) ==
    /\ pc[r] = "look"
    /\ NoHit(r)
    /\ \E t \in SweptBad(clock[r])[key(r)] : Recent(t, clock[r])
    /\ ok' = SweptOk(clock[r])
    /\ bad' = SweptBad(clock[r])
    /\ Swept(clock[r])
    /\ Refuse(r, "recently_rejected")
    /\ shared' = StillShared
    /\ UNCHANGED <<time, valid, cred, clock, status, refusedAt, warned, seenAt>>

LookMiss(r) ==
    /\ pc[r] = "look"
    /\ NoHit(r)
    /\ \A t \in SweptBad(clock[r])[key(r)] : ~Recent(t, clock[r])
    /\ ok' = SweptOk(clock[r])
    /\ bad' = SweptBad(clock[r])
    /\ Swept(clock[r])
    /\ pc' = [pc EXCEPT ![r] = "ask"]
    /\ shared' = StillShared
    /\ UNCHANGED <<time, valid, cred, clock, status, held, outcome, refusedAt,
                   warned, seenAt>>

-----------------------------------------------------------------------------
(* What Discord answers, at some moment while the lock is free: a reset    *)
(* token is unauthorized, a deleted webhook is unknown.                    *)
Answers(c) ==
    {503} \cup IF c.key \in valid THEN {200}
               ELSE IF c.form = "bot" THEN {401} ELSE {404}

Verify(r) ==
    /\ pc[r] = "ask"
    /\ \E s \in Answers(cred[r]) : status' = [status EXCEPT ![r] = s]
    /\ pc' = [pc EXCEPT ![r] = "record"]
    /\ UNCHANGED <<time, valid, cacheVars, cred, clock, held, outcome, auxVars>>

ClassifyOpen(s) ==                          \* fault: an outage lets everyone in
    IF s \in {401, 404} THEN "discord_rejected" ELSE ""
ClassifyAll(s) == IF s = 200 THEN "" ELSE "discord_rejected"  \* fault: no outage

Classify(s) ==
    IF s = 200 THEN ""
    ELSE IF s \in {401, 403, 404} THEN "discord_rejected" ELSE "discord_unavailable"

(* The second critical section.  Its now is the one read before verify.    *)
RememberMine(r) ==                          \* fault: the last one wins
    /\ ok' = [ok EXCEPT ![key(r)] = {[p |-> r, lastUsed |-> clock[r]]}]
    /\ Accept(r, r)

RememberBoth(r) ==                          \* fault: one entry per request
    /\ ok' = [ok EXCEPT ![key(r)] = @ \cup {[p |-> r, lastUsed |-> clock[r]]}]
    /\ Accept(r, r)

RememberVerified(r) ==
    LET winner == IF ok[key(r)] = {} THEN {r} ELSE {c.p : c \in ok[key(r)]}
    IN  \E p \in winner :
            /\ ok' = [ok EXCEPT ![key(r)] = {[p |-> p, lastUsed |-> clock[r]]}]
            /\ Accept(r, p)

RecordVerified(r) ==
    /\ pc[r] = "record" /\ Classify(status[r]) = ""
    /\ RememberVerified(r)
    /\ seenAt' = [seenAt EXCEPT ![key(r)] = {time}]
    /\ shared' = StillShared \cup {r}
    /\ UNCHANGED <<time, valid, bad, lastSweep, cred, clock, status, refusedAt,
                   warned>>

RecordRejected(r) ==
    /\ pc[r] = "record" /\ Classify(status[r]) = "discord_rejected"
    /\ bad' = [bad EXCEPT ![key(r)] = {clock[r]}]
    /\ Refuse(r, "discord_rejected")
    /\ refusedAt' = [refusedAt EXCEPT ![key(r)] = {time}]
    /\ UNCHANGED <<time, valid, ok, lastSweep, cred, clock, status, warned,
                   seenAt, shared>>

RecordUnavailable(r) ==
    /\ pc[r] = "record" /\ Classify(status[r]) = "discord_unavailable"
    /\ Refuse(r, "discord_unavailable")
    /\ UNCHANGED <<time, valid, cacheVars, cred, clock, status, auxVars>>

-----------------------------------------------------------------------------
(* The tool call of an accepted request ends; Discord may have refused the *)
(* credential.  Only a 401 leads to Invalidate, and that is a no-op for a  *)
(* config instance.                                                        *)
ServeEnds(r) ==
    /\ pc[r] = "serve"
    /\ pc' = [pc EXCEPT ![r] = "idle"]
    /\ UNCHANGED <<time, valid, cacheVars, cred, clock, status, held, outcome, auxVars>>

ServeRefused(r) ==
    /\ pc[r] = "serve" /\ held[r] # Instance
    /\ key(r) \notin valid
    /\ \E s \in Answers(cred[r]) \ {503} :
        /\ status' = [status EXCEPT ![r] = s]
        /\ pc' = [pc EXCEPT ![r] = IF s = 401 THEN "evict" ELSE "idle"]
    /\ UNCHANGED <<time, valid, cacheVars, cred, clock, held, outcome,
                   refusedAt, warned, seenAt, shared>>

(* Principal.Invalidate, through the closure invalidator made. *)
Drop(k) == ok' = [ok EXCEPT ![k] = {}]

Invalidate(r) ==
    /\ pc[r] = "evict"
    /\ Drop(key(r))
    /\ bad' = [bad EXCEPT ![key(r)] = {time}]
    /\ pc' = [pc EXCEPT ![r] = "idle"]
    /\ refusedAt' = [refusedAt EXCEPT ![key(r)] = {time}]
    /\ shared' = StillShared
    /\ UNCHANGED <<time, valid, lastSweep, cred, clock, status, held, outcome,
                   warned, seenAt>>

Resolve(r) ==
    \/ \E c \in Credentials :
        ResolveMissing(r, c) \/ ResolveToken(r, c) \/ ResolveUnknown(r, c) \/ ResolveDirect(r, c)
    \/ LookHit(r) \/ LookRefused(r) \/ LookMiss(r)
    \/ Verify(r)
    \/ RecordVerified(r) \/ RecordRejected(r) \/ RecordUnavailable(r)

Serve(r) == ServeEnds(r) \/ ServeRefused(r) \/ Invalidate(r)

Next ==
    \/ Tick
    \/ \E k \in Keys : Revoke(k)
    \/ \E r \in Requests : Resolve(r) \/ Serve(r)

Spec == Init /\ [][Next]_vars

-----------------------------------------------------------------------------
Outcomes == {"none", "accepted", "missing_credential", "unknown_token",
             "recently_rejected", "discord_rejected", "discord_unavailable"}

TypeOK ==
    /\ time \in Nat /\ lastSweep \in Nat
    /\ valid \subseteq Keys
    /\ ok \in [Keys -> SUBSET Entry]
    /\ bad \in [Keys -> SUBSET Nat]
    /\ \A k \in Keys : (\A c, d \in ok[k] : c = d) /\ (\A t, u \in bad[k] : t = u)
    /\ pc \in [Requests -> {"idle", "look", "ask", "record", "serve", "evict"}]
    /\ cred \in [Requests -> [form: Forms, key: Keys]]
    /\ clock \in [Requests -> Nat]
    /\ status \in [Requests -> Status]
    /\ held \in [Requests -> Principal]
    /\ outcome \in [Requests -> Outcomes]
    /\ refusedAt \in [Keys -> SUBSET Nat] /\ seenAt \in [Keys -> SUBSET Nat]
    /\ shared \subseteq Requests
    /\ warned \in [Requests -> BOOLEAN]

(* Requests that run for one credential while it stays cached share one    *)
(* principal, so one Discord client and one set of rate-limit buckets,     *)
(* even when they verified it at the same time (resolver.go:165).          *)
OnePrincipal ==
    \A r \in shared : \A c \in ok[key(r)] : held[r] = c.p

(* An outage or a rate limit never locks anyone out: the failure cache     *)
(* only ever holds what Discord has refused for good.                      *)
NeverLockedOut == \A k \in valid : bad[k] = {}

(* The sweep bounds both caches, whatever the TTLs and however slow        *)
(* Discord is: no entry outlives its TTL past a sweep (resolver.go:219,    *)
(* 224), unless a call that the sweep overtook wrote it afterwards, under  *)
(* a clock it had read before (resolver.go:138, 165-173); and then it was  *)
(* older by no more than a call may take.                                  *)
SweptOut ==
    \A k \in Keys :
        /\ \A c \in ok[k] : Fresh(c, lastSweep) \/ lastSweep <= c.lastUsed + Lag
        /\ \A t \in bad[k] : Recent(t, lastSweep) \/ lastSweep <= t + Lag

(* "Discord bans an IP after 10,000 invalid requests in 10 minutes; a      *)
(* client retrying a bad token must not get the server banned" (Direct-    *)
(* Options): once a refusal is recorded, no call goes to Discord for that  *)
(* credential before FailureTTL is over, short by no more than the age of  *)
(* a clock, whatever older call overwrites or sweeps the entry.            *)
Asks(r) == pc[r] = "look" /\ pc'[r] = "ask"
BackOff ==
    [][\A r \in Requests : Asks(r) =>
           \A t \in refusedAt[key(r)] : time + Lag >= t + FailureTTL]_vars

(* "CacheTTL is how long a verified credential stays cached without use":  *)
(* no call is accepted from the cache later than that.                     *)
Cached(r) == pc[r] = "look" /\ pc'[r] = "serve"
IdleExpires ==
    [][\A r \in Requests : Cached(r) =>
           \E t \in seenAt[key(r)] : time <= t + CacheTTL + Lag]_vars

(* A revoked credential that is not cached and that no call has just had   *)
(* verified stays refused for ever: nothing but such a call re-admits it.  *)
Out(k) ==
    /\ k \notin valid /\ ok[k] = {}
    /\ \A r \in Requests : pc[r] = "record" /\ key(r) = k => status[r] # 200
OutForGood == [][\A k \in Keys : Out(k) => Out(k)']_vars

Serving(r) == pc[r] \in {"serve", "evict"} /\ held[r] # Instance

(* "a credential Discord rejected is remembered for 1 minute and rejected  *)
(* without calling Discord again" (design, Caches): a call that begins     *)
(* within FailureTTL of the refusal is not accepted.                       *)
RefusedForAMinute == \A r \in Requests : warned[r] => ~Serving(r)
=============================================================================
