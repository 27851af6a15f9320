--------------------------- MODULE ResolverProofs ---------------------------
(***************************************************************************)
(* Theorems about Resolver, for any number of requests and credentials and *)
(* any durations: DurationAssumption says no more than their types.        *)
(***************************************************************************)
EXTENDS Resolver, TLAPS

(* The clock a call works with is never more than Lag old while it holds   *)
(* it, and the last sweep is not in the future.                            *)
ClockInv ==
    /\ lastSweep <= time
    /\ \A r \in Requests : pc[r] \in {"look", "ask", "record"} =>
           clock[r] <= time /\ time <= clock[r] + Lag

(* A refusal in the cache, in an answer not yet recorded or in a tool call *)
(* about to evict is a refusal of a credential that is not valid.          *)
RefusalInv ==
    /\ NeverLockedOut
    /\ \A r \in Requests :
        /\ pc[r] = "record" /\ status[r] \in {401, 404} => key(r) \notin valid
        /\ pc[r] = "evict" => key(r) \notin valid

(* A refusal recorded less than FailureTTL - Lag ago is still in the cache. *)
BackOffInv ==
    \A k \in Keys : \A t \in refusedAt[k] :
        \/ time + Lag >= t + FailureTTL
        \/ \E u \in bad[k] : u + Lag >= t

(* No entry is dated after the present. *)
DatedInv == \A k \in Keys : \A t \in bad[k] : t <= time

IInv == TypeOK /\ ClockInv /\ RefusalInv /\ SweptOut /\ DatedInv /\ BackOffInv

(* What a request may be doing. *)
Quiet == {"idle", "serve", "evict"}

(* Requests that share a cached principal are past their Resolve.          *)
SharedInv ==
    /\ OnePrincipal
    /\ \A r \in shared : pc[r] \in Quiet /\ ok[key(r)] # {}

-----------------------------------------------------------------------------
(* The placeholder for a request that has not come yet is well typed. *)
LEMMA NobodyType == Nobody \in [form: Forms, key: Keys]
  BY KeysAssumption DEF Nobody, Forms, Direct

(* What the sweep leaves is a part of what was there. *)
LEMMA SweepShrinks ==
    ASSUME TypeOK, NEW now \in Nat
    PROVE  /\ SweptOk(now) \in [Keys -> SUBSET Entry]
           /\ SweptBad(now) \in [Keys -> SUBSET Nat]
           /\ \A k \in Keys : SweptOk(now)[k] \subseteq ok[k]
           /\ \A k \in Keys : SweptBad(now)[k] \subseteq bad[k]
  BY DEF TypeOK, SweptOk, SweptBad

(* Init is well typed. *)
LEMMA InitType == Init => TypeOK
  BY NobodyType, DurationAssumption
  DEF Init, TypeOK, Status, Principal, Outcomes

(* Every step keeps the types, and one entry per key in each cache. *)
LEMMA TypeStep == TypeOK /\ [Next]_vars => TypeOK'
<1> SUFFICES ASSUME TypeOK, [Next]_vars PROVE TypeOK'
  OBVIOUS
<1> USE DurationAssumption
<1>1. CASE Tick
  BY <1>1 DEF TypeOK, Tick, cacheVars, requestVars, auxVars
<1>2. ASSUME NEW k \in Keys, Revoke(k) PROVE TypeOK'
  BY <1>2 DEF TypeOK, Revoke, cacheVars, requestVars, auxVars
<1>3. ASSUME NEW r \in Requests, NEW c \in Credentials,
             ResolveMissing(r, c) \/ ResolveToken(r, c)
                 \/ ResolveUnknown(r, c) \/ ResolveDirect(r, c)
      PROVE  TypeOK'
  <2>1. c \in [form: Forms, key: Keys]
    BY CredentialAssumption
  <2>2. \E now \in Nat : Arrive(r, c, now)
    BY <1>3 DEF ResolveMissing, ResolveToken, ResolveUnknown, ResolveDirect, TypeOK
  <2>3. /\ pc' \in [Requests -> {"idle", "look", "ask", "record", "serve", "evict"}]
        /\ held' \in [Requests -> Principal] /\ outcome' \in [Requests -> Outcomes]
    <3>1. CASE ResolveMissing(r, c)
      BY <3>1 DEF ResolveMissing, TypeOK, Refuse, Principal, Outcomes
    <3>2. CASE ResolveToken(r, c)
      BY <3>2 DEF ResolveToken, TypeOK, Accept, Principal, Outcomes
    <3>3. CASE ResolveUnknown(r, c)
      BY <3>3 DEF ResolveUnknown, TypeOK, Refuse, Principal, Outcomes
    <3>4. CASE ResolveDirect(r, c)
      BY <3>4 DEF ResolveDirect, TypeOK, Principal, Outcomes
    <3> QED
      BY <1>3, <3>1, <3>2, <3>3, <3>4
  <2>4. warned' \in [Requests -> BOOLEAN]
    <3> DEFINE w == \E t \in refusedAt[c.key] : time - t < FailureTTL
    <3>1. w \in BOOLEAN
      OBVIOUS
    <3>2. warned' = [warned EXCEPT ![r] = w]
      BY <2>2, Zenon DEF Arrive
    <3>3. warned \in [Requests -> BOOLEAN]
      BY DEF TypeOK
    <3> HIDE DEF w
    <3> QED
      BY <3>1, <3>2, <3>3, Zenon
  <2> QED
    BY <2>1, <2>2, <2>3, <2>4 DEF Arrive, TypeOK, cacheVars, Status
<1>4. ASSUME NEW r \in Requests, LookHit(r) \/ LookRefused(r) \/ LookMiss(r)
      PROVE  TypeOK'
  <2> DEFINE now == clock[r]
  <2>1. now \in Nat /\ key(r) \in Keys
    BY DEF TypeOK, key
  <2>2. bad' = SweptBad(now) /\ Swept(now)
    BY <1>4 DEF LookHit, LookRefused, LookMiss
  <2>3. /\ ok' \in [Keys -> SUBSET Entry]
        /\ \A k \in Keys : \A c, d \in ok'[k] : c = d
    <3>1. CASE LookHit(r)
      <4>1. PICK c \in SweptOk(now)[key(r)] :
                ok' = [SweptOk(now) EXCEPT ![key(r)] = {[c EXCEPT !.lastUsed = now]}]
        BY <3>1 DEF LookHit
      <4>2. c \in Entry
        BY <2>1, SweepShrinks
      <4>3. [c EXCEPT !.lastUsed = now] \in Entry
        BY <4>2, <2>1 DEF Entry
      <4>4. \A k \in Keys \ {key(r)} : ok'[k] = SweptOk(now)[k]
        BY <2>1, <4>1, SweepShrinks
      <4>5. ok'[key(r)] = {[c EXCEPT !.lastUsed = now]}
        BY <2>1, <4>1, SweepShrinks
      <4>6. ok' \in [Keys -> SUBSET Entry]
        BY <2>1, <4>1, <4>3, SweepShrinks
      <4>7. \A k \in Keys \ {key(r)} : \A d, e \in ok'[k] : d = e
        BY <2>1, <4>4, SweepShrinks DEF TypeOK
      <4> QED
        BY <4>5, <4>6, <4>7
    <3>2. CASE ok' = SweptOk(now)
      BY <2>1, <3>2, SweepShrinks DEF TypeOK
    <3> QED
      BY <1>4, <3>1, <3>2 DEF LookRefused, LookMiss
  <2>4. /\ bad' \in [Keys -> SUBSET Nat] /\ \A k \in Keys : \A t, u \in bad'[k] : t = u
        /\ lastSweep' \in Nat
    BY <2>1, <2>2, SweepShrinks DEF TypeOK, Swept
  <2>5. held' \in [Requests -> Principal]
    <3>1. CASE LookHit(r)
      <4>1. PICK c \in SweptOk(now)[key(r)] : held' = [held EXCEPT ![r] = c.p]
        BY <3>1 DEF LookHit, Accept
      <4>2. c.p \in Requests
        BY <2>1, SweepShrinks DEF Entry
      <4> QED
        BY <4>1, <4>2 DEF TypeOK, Principal
    <3>2. CASE LookRefused(r)
      BY <3>2 DEF LookRefused, Refuse, TypeOK, Principal
    <3>3. CASE LookMiss(r)
      BY <3>3 DEF LookMiss, TypeOK
    <3> QED
      BY <1>4, <3>1, <3>2, <3>3
  <2>6. /\ pc' \in [Requests -> {"idle", "look", "ask", "record", "serve", "evict"}]
        /\ outcome' \in [Requests -> Outcomes]
    <3>1. CASE LookHit(r)
      BY <3>1 DEF LookHit, Accept, TypeOK, Outcomes
    <3>2. CASE LookRefused(r)
      BY <3>2 DEF LookRefused, Refuse, TypeOK, Outcomes
    <3>3. CASE LookMiss(r)
      BY <3>3 DEF LookMiss, TypeOK, Outcomes
    <3> QED
      BY <1>4, <3>1, <3>2, <3>3
  <2>7. /\ seenAt' \in [Keys -> SUBSET Nat] /\ shared' \subseteq Requests
        /\ UNCHANGED <<time, valid, cred, clock, status, refusedAt, warned>>
    <3>1. /\ seenAt' = seenAt \/ seenAt' = [seenAt EXCEPT ![key(r)] = {time}]
          /\ shared' = StillShared \/ shared' = StillShared \cup {r}
          /\ UNCHANGED <<time, valid, cred, clock, status, refusedAt, warned>>
      BY <1>4 DEF LookHit, LookRefused, LookMiss
    <3>2. seenAt \in [Keys -> SUBSET Nat] /\ shared \subseteq Requests /\ time \in Nat
      BY DEF TypeOK
    <3>3. StillShared \subseteq Requests
      BY <3>2 DEF StillShared
    <3> QED
      BY <3>1, <3>2, <3>3
  <2> QED
    BY <2>3, <2>4, <2>5, <2>6, <2>7 DEF TypeOK
<1>5. ASSUME NEW r \in Requests, Verify(r) PROVE TypeOK'
  <2>1. \A s \in Answers(cred[r]) : s \in Status
    BY DEF Answers, Status
  <2> QED
    BY <1>5, <2>1 DEF TypeOK, Verify, cacheVars, auxVars
<1>6. ASSUME NEW r \in Requests, RecordVerified(r) PROVE TypeOK'
  <2>1. key(r) \in Keys
    BY DEF TypeOK, key
  <2>2. PICK p \in IF ok[key(r)] = {} THEN {r} ELSE {c.p : c \in ok[key(r)]} :
            /\ ok' = [ok EXCEPT ![key(r)] = {[p |-> p, lastUsed |-> clock[r]]}]
            /\ Accept(r, p)
    BY <1>6 DEF RecordVerified, RememberVerified
  <2>3. p \in Requests
    BY <2>1, <2>2 DEF TypeOK, Entry
  <2>4. [p |-> p, lastUsed |-> clock[r]] \in Entry
    BY <2>3 DEF TypeOK, Entry
  <2>5. /\ ok' \in [Keys -> SUBSET Entry]
        /\ \A k \in Keys : \A c, d \in ok'[k] : c = d
    BY <2>1, <2>2, <2>4 DEF TypeOK
  <2>6. seenAt' \in [Keys -> SUBSET Nat] /\ shared' \subseteq Requests
    <3>1. StillShared \subseteq Requests
      BY DEF TypeOK, StillShared
    <3>2. shared' = StillShared \cup {r} /\ seenAt' = [seenAt EXCEPT ![key(r)] = {time}]
      BY <1>6 DEF RecordVerified
    <3> QED
      BY <2>1, <3>1, <3>2 DEF TypeOK
  <2> QED
    BY <1>6, <2>2, <2>3, <2>5, <2>6 DEF RecordVerified, Accept, TypeOK, Principal, Outcomes
<1>7. ASSUME NEW r \in Requests, RecordRejected(r) PROVE TypeOK'
  BY <1>7 DEF RecordRejected, Refuse, TypeOK, key, Principal, Outcomes
<1>8. ASSUME NEW r \in Requests, RecordUnavailable(r) PROVE TypeOK'
  BY <1>8 DEF RecordUnavailable, Refuse, TypeOK, cacheVars, auxVars, Principal, Outcomes
<1>9. ASSUME NEW r \in Requests, ServeEnds(r) PROVE TypeOK'
  BY <1>9 DEF ServeEnds, TypeOK, cacheVars, auxVars
<1>10. ASSUME NEW r \in Requests, ServeRefused(r) PROVE TypeOK'
  <2>1. \A s \in Answers(cred[r]) : s \in Status
    BY DEF Answers, Status
  <2> QED
    BY <1>10, <2>1 DEF ServeRefused, TypeOK, cacheVars, key
<1>11. ASSUME NEW r \in Requests, Invalidate(r) PROVE TypeOK'
  BY <1>11 DEF Invalidate, Drop, TypeOK, key, StillShared
<1>12. CASE UNCHANGED vars
  BY <1>12 DEF TypeOK, vars, cacheVars, requestVars, auxVars
<1> QED
  BY <1>1, <1>2, <1>3, <1>4, <1>5, <1>6, <1>7, <1>8, <1>9, <1>10, <1>11, <1>12
  DEF Next, Resolve, Serve

(* TypeOK of Resolver: the caches keep at most one entry for a key. *)
THEOREM TypeCorrect == Spec => []TypeOK
  BY InitType, TypeStep, PTL DEF Spec

-----------------------------------------------------------------------------
(* Time and revocation only go one way. *)
LEMMA OneWay ==
    ASSUME TypeOK, [Next]_vars
    PROVE  time' \in Nat /\ time <= time' /\ valid' \subseteq valid
<1>1. CASE Tick
  BY <1>1 DEF Tick, TypeOK
<1>2. ASSUME NEW k \in Keys, Revoke(k) PROVE time' = time /\ valid' \subseteq valid
  BY <1>2 DEF Revoke
<1>3. ASSUME NEW r \in Requests, Resolve(r) \/ Serve(r)
      PROVE  time' = time /\ valid' = valid
  BY <1>3 DEF Resolve, Serve, Arrive, ResolveMissing, ResolveToken, ResolveUnknown,
              ResolveDirect, LookHit, LookRefused, LookMiss, Verify, RecordVerified,
              RecordRejected, RecordUnavailable, ServeEnds, ServeRefused, Invalidate
<1>4. CASE UNCHANGED vars
  BY <1>4 DEF vars, TypeOK
<1>5. time \in Nat
  BY DEF TypeOK
<1> QED
  BY <1>1, <1>2, <1>3, <1>4, <1>5 DEF Next

(* Whichever principal a verified call ends with, it goes on to serve.     *)
LEMMA VerifiedServes ==
    ASSUME NEW r, RecordVerified(r)
    PROVE  pc' = [pc EXCEPT ![r] = "serve"]
  BY DEF RecordVerified, RememberVerified, Accept

(* The clock of a call that is in hand is a fit clock: at most Lag old.    *)
FitClock(now) == now \in Nat /\ now <= time /\ time <= now + Lag

(* What a step may do to the failure cache and to the one auxiliary of it. *)
BadSame(k)  == bad'[k] = bad[k] /\ refusedAt'[k] = refusedAt[k] /\ lastSweep' = lastSweep
BadSwept(k) == /\ \E now \in Nat : FitClock(now) /\ bad'[k] = SweptBad(now)[k] /\ Swept(now)
               /\ refusedAt'[k] = refusedAt[k]
BadNoted(k) == /\ k \notin valid
               /\ \E u \in Nat : FitClock(u) /\ bad'[k] = {u}
               /\ refusedAt'[k] = {time} /\ lastSweep' = lastSweep /\ time' = time

(* The failure cache changes in three ways: not at all, by a sweep, or by  *)
(* a refusal that is written down under a clock at most Lag old.           *)
LEMMA BadStep ==
    ASSUME TypeOK, ClockInv, RefusalInv, [Next]_vars, NEW k \in Keys
    PROVE  BadSame(k) \/ BadSwept(k) \/ BadNoted(k)
<1> USE DurationAssumption
<1>1. CASE Tick
  BY <1>1 DEF Tick, cacheVars, auxVars, BadSame
<1>2. ASSUME NEW x \in Keys, Revoke(x) PROVE BadSame(k)
  BY <1>2 DEF Revoke, cacheVars, auxVars, BadSame
<1>3. ASSUME NEW r \in Requests, NEW c \in Credentials, NEW now, Arrive(r, c, now) PROVE BadSame(k)
  BY <1>3 DEF Arrive, cacheVars, BadSame
<1>4. ASSUME NEW r \in Requests, LookHit(r) \/ LookRefused(r) \/ LookMiss(r)
      PROVE  BadSwept(k)
  <2>1. FitClock(clock[r])
    BY <1>4 DEF LookHit, LookRefused, LookMiss, FitClock, ClockInv, TypeOK
  <2> QED
    BY <1>4, <2>1 DEF LookHit, LookRefused, LookMiss, BadSwept, FitClock
<1>5. ASSUME NEW r \in Requests,
             Verify(r) \/ RecordUnavailable(r) \/ RecordVerified(r) \/ ServeEnds(r) \/ ServeRefused(r)
      PROVE  BadSame(k)
  BY <1>5 DEF Verify, RecordUnavailable, RecordVerified, ServeEnds, ServeRefused,
              cacheVars, auxVars, BadSame
<1>6. ASSUME NEW r \in Requests, RecordRejected(r) PROVE BadSame(k) \/ BadNoted(k)
  <2>1. FitClock(clock[r])
    BY <1>6 DEF RecordRejected, FitClock, ClockInv, TypeOK
  <2>2. key(r) \notin valid
    BY <1>6 DEF RecordRejected, RefusalInv, Classify, TypeOK, Status
  <2> QED
    BY <1>6, <2>1, <2>2 DEF RecordRejected, BadSame, BadNoted, FitClock, TypeOK
<1>7. ASSUME NEW r \in Requests, Invalidate(r) PROVE BadSame(k) \/ BadNoted(k)
  <2>1. FitClock(time) /\ key(r) \notin valid
    BY <1>7 DEF Invalidate, RefusalInv, FitClock, TypeOK
  <2> QED
    BY <1>7, <2>1 DEF Invalidate, BadSame, BadNoted, FitClock, TypeOK
<1>8. CASE UNCHANGED vars
  BY <1>8 DEF vars, cacheVars, auxVars, BadSame
<1> QED
  BY <1>1, <1>2, <1>3, <1>4, <1>5, <1>6, <1>7, <1>8
  DEF Next, Resolve, Serve, ResolveMissing, ResolveToken, ResolveUnknown, ResolveDirect

(* What a step may do to the success cache. *)
OkSame(k)    == (ok'[k] = ok[k] \/ ok'[k] = {}) /\ lastSweep' = lastSweep
OkSwept(k)   == \E now \in Nat : FitClock(now) /\ ok'[k] = SweptOk(now)[k] /\ Swept(now)
OkUsed(k)    == \E c \in Entry : /\ FitClock(c.lastUsed)
                                 /\ ok'[k] = {c}
                                 /\ Swept(c.lastUsed) \/ lastSweep' = lastSweep

(* The success cache changes in four ways: not at all, by a removal, by a  *)
(* sweep, or by an entry used at a clock at most Lag old, with a sweep     *)
(* before it or not.                                                       *)
LEMMA OkStep ==
    ASSUME TypeOK, ClockInv, [Next]_vars, NEW k \in Keys
    PROVE  OkSame(k) \/ OkSwept(k) \/ OkUsed(k)
<1> USE DurationAssumption
<1>1. CASE Tick
  BY <1>1 DEF Tick, cacheVars, OkSame
<1>2. ASSUME NEW x \in Keys, Revoke(x) PROVE OkSame(k)
  BY <1>2 DEF Revoke, cacheVars, OkSame
<1>3. ASSUME NEW r \in Requests, NEW c \in Credentials, NEW now, Arrive(r, c, now) PROVE OkSame(k)
  BY <1>3 DEF Arrive, cacheVars, OkSame
<1>4. ASSUME NEW r \in Requests, LookRefused(r) \/ LookMiss(r) PROVE OkSwept(k)
  <2>1. FitClock(clock[r])
    BY <1>4 DEF LookRefused, LookMiss, FitClock, ClockInv, TypeOK
  <2> QED
    BY <1>4, <2>1 DEF LookRefused, LookMiss, OkSwept, FitClock
<1>5. ASSUME NEW r \in Requests, LookHit(r) PROVE OkSwept(k) \/ OkUsed(k)
  <2> DEFINE now == clock[r]
  <2>1. FitClock(now) /\ key(r) \in Keys
    BY <1>5 DEF LookHit, FitClock, ClockInv, TypeOK, key
  <2>2. now \in Nat
    BY <2>1 DEF FitClock
  <2>3. PICK c \in SweptOk(now)[key(r)] :
            ok' = [SweptOk(now) EXCEPT ![key(r)] = {[c EXCEPT !.lastUsed = now]}]
    BY <1>5 DEF LookHit
  <2> DEFINE d == [c EXCEPT !.lastUsed = now]
  <2>4. c \in Entry
    BY <2>1, <2>2, <2>3, SweepShrinks
  <2>5. d \in Entry /\ d.lastUsed = now
    BY <2>2, <2>4 DEF Entry
  <2>6. Swept(now)
    BY <1>5 DEF LookHit
  <2> HIDE DEF now, d
  <2>7. CASE k = key(r)
    <3>1. ok'[k] = {d}
      BY <2>1, <2>2, <2>3, <2>7, SweepShrinks DEF d
    <3> QED
      BY <2>1, <2>5, <2>6, <3>1 DEF OkUsed
  <2>8. CASE k # key(r)
    <3>1. ok'[k] = SweptOk(now)[k]
      BY <2>1, <2>2, <2>3, <2>8, SweepShrinks
    <3> QED
      BY <2>1, <2>2, <2>6, <3>1 DEF OkSwept
  <2> QED
    BY <2>7, <2>8
<1>6. ASSUME NEW r \in Requests, RecordVerified(r) PROVE OkSame(k) \/ OkUsed(k)
  <2>1. FitClock(clock[r]) /\ key(r) \in Keys /\ lastSweep' = lastSweep
    BY <1>6 DEF RecordVerified, FitClock, ClockInv, TypeOK, key
  <2>2. PICK p \in IF ok[key(r)] = {} THEN {r} ELSE {c.p : c \in ok[key(r)]} :
            ok' = [ok EXCEPT ![key(r)] = {[p |-> p, lastUsed |-> clock[r]]}]
    BY <1>6 DEF RecordVerified, RememberVerified
  <2>3. p \in Requests
    BY <2>1, <2>2 DEF TypeOK, Entry
  <2> DEFINE d == [p |-> p, lastUsed |-> clock[r]]
  <2>4. d \in Entry /\ d.lastUsed = clock[r]
    BY <2>3 DEF TypeOK, Entry
  <2>5. k = key(r) => ok'[k] = {d}
    BY <2>1, <2>2 DEF TypeOK
  <2>6. k # key(r) => ok'[k] = ok[k]
    BY <2>1, <2>2 DEF TypeOK
  <2> HIDE DEF d
  <2> QED
    BY <2>1, <2>4, <2>5, <2>6 DEF OkSame, OkUsed
<1>7. ASSUME NEW r \in Requests,
             Verify(r) \/ RecordRejected(r) \/ RecordUnavailable(r) \/ ServeEnds(r) \/ ServeRefused(r)
      PROVE  OkSame(k)
  BY <1>7 DEF Verify, RecordRejected, RecordUnavailable, ServeEnds, ServeRefused,
              cacheVars, OkSame
<1>8. ASSUME NEW r \in Requests, Invalidate(r) PROVE OkSame(k)
  BY <1>8 DEF Invalidate, Drop, OkSame, TypeOK
<1>9. CASE UNCHANGED vars
  BY <1>9 DEF vars, cacheVars, OkSame
<1> QED
  BY <1>1, <1>2, <1>3, <1>4, <1>5, <1>6, <1>7, <1>8, <1>9
  DEF Next, Resolve, Serve, ResolveMissing, ResolveToken, ResolveUnknown, ResolveDirect

-----------------------------------------------------------------------------
(* The initial state satisfies the invariant. *)
LEMMA InitIInv == Init => IInv
<1> SUFFICES ASSUME Init PROVE IInv
  OBVIOUS
<1>1. TypeOK
  BY InitType
<1>2. ClockInv /\ RefusalInv /\ SweptOut /\ DatedInv /\ BackOffInv
  BY DurationAssumption
  DEF Init, ClockInv, RefusalInv, NeverLockedOut, SweptOut, DatedInv, BackOffInv
<1> QED
  BY <1>1, <1>2 DEF IInv

(* Clocks stay fit: Tick waits for every call that holds one. *)
LEMMA ClockStep ==
    ASSUME TypeOK, ClockInv, RefusalInv, KeysAssumption, [Next]_vars
    PROVE  ClockInv'
<1> USE DurationAssumption
<1>1. lastSweep' <= time'
  <2>1. PICK k \in Keys : TRUE
    BY KeysAssumption
  <2>2. BadSame(k) \/ BadSwept(k) \/ BadNoted(k)
    BY BadStep
  <2> QED
    BY <2>2, OneWay DEF BadSame, BadSwept, BadNoted, FitClock, Swept, ClockInv, TypeOK
<1>2. ASSUME NEW r \in Requests, pc'[r] \in {"look", "ask", "record"}
      PROVE  clock'[r] <= time' /\ time' <= clock'[r] + Lag
  <2>1. CASE Tick
    BY <1>2, <2>1 DEF Tick, requestVars, ClockInv, TypeOK
  <2>2. ASSUME NEW k \in Keys, Revoke(k)
        PROVE  clock'[r] <= time' /\ time' <= clock'[r] + Lag
    BY <1>2, <2>2 DEF Revoke, requestVars, ClockInv
  <2>3. ASSUME NEW q \in Requests, NEW c \in Credentials,
               ResolveMissing(q, c) \/ ResolveToken(q, c) \/ ResolveUnknown(q, c)
        PROVE  clock'[r] <= time' /\ time' <= clock'[r] + Lag
    BY <1>2, <2>3 DEF ResolveMissing, ResolveToken, ResolveUnknown, Arrive, Refuse,
                      Accept, ClockInv, TypeOK
  <2>4. ASSUME NEW q \in Requests, NEW c \in Credentials, ResolveDirect(q, c)
        PROVE  clock'[r] <= time' /\ time' <= clock'[r] + Lag
    <3>1. time' = time /\ clock' = [clock EXCEPT ![q] = time] /\ pc' = [pc EXCEPT ![q] = "look"]
      BY <2>4 DEF ResolveDirect, Arrive
    <3> QED
      BY <1>2, <3>1 DEF ClockInv, TypeOK
  <2>5. ASSUME NEW q \in Requests,
               LookHit(q) \/ LookRefused(q) \/ LookMiss(q) \/ Verify(q)
        PROVE  clock'[r] <= time' /\ time' <= clock'[r] + Lag
    BY <1>2, <2>5 DEF LookHit, LookRefused, LookMiss, Verify, Refuse, Accept,
                      ClockInv, TypeOK
  <2>6. ASSUME NEW q \in Requests,
               RecordVerified(q) \/ RecordRejected(q) \/ RecordUnavailable(q) \/ Serve(q)
        PROVE  clock'[r] <= time' /\ time' <= clock'[r] + Lag
    <3>1. time' = time /\ clock' = clock
      BY <2>6 DEF RecordVerified, RecordRejected, RecordUnavailable, Serve, ServeEnds,
                  ServeRefused, Invalidate
    <3>2. \E x \in {"idle", "serve", "evict"} : pc' = [pc EXCEPT ![q] = x]
      BY <2>6, VerifiedServes DEF RecordRejected, RecordUnavailable, Serve, ServeEnds,
                                  ServeRefused, Invalidate, Refuse
    <3> QED
      BY <1>2, <3>1, <3>2 DEF ClockInv, TypeOK
  <2>7. CASE UNCHANGED vars
    BY <1>2, <2>7 DEF vars, requestVars, ClockInv
  <2> QED
    BY <2>1, <2>2, <2>3, <2>4, <2>5, <2>6, <2>7 DEF Next, Resolve
<1> QED
  BY <1>1, <1>2 DEF ClockInv

(* Discord's refusals are final, and only they reach the failure cache. *)
LEMMA RefusalStep ==
    ASSUME TypeOK, ClockInv, RefusalInv, [Next]_vars
    PROVE  RefusalInv'
<1>1. NeverLockedOut'
  <2> SUFFICES ASSUME NEW k \in Keys, k \in valid' PROVE bad'[k] = {}
    BY OneWay DEF NeverLockedOut, TypeOK
  <2>1. k \in valid /\ bad[k] = {}
    BY OneWay DEF RefusalInv, NeverLockedOut
  <2>2. BadSame(k) \/ BadSwept(k)
    BY <2>1, BadStep DEF BadNoted
  <2> QED
    BY <2>1, <2>2, SweepShrinks DEF BadSame, BadSwept
<1>2. ASSUME NEW r \in Requests
      PROVE  /\ pc'[r] = "record" /\ status'[r] \in {401, 404} => key(r)' \notin valid'
             /\ pc'[r] = "evict" => key(r)' \notin valid'
  <2> DEFINE Goal == /\ pc'[r] = "record" /\ status'[r] \in {401, 404} => key(r)' \notin valid'
                     /\ pc'[r] = "evict" => key(r)' \notin valid'
  <2>1. CASE Tick
    BY <2>1 DEF Tick, requestVars, RefusalInv, key
  <2>2. ASSUME NEW k \in Keys, Revoke(k) PROVE Goal
    BY <2>2 DEF Revoke, requestVars, RefusalInv, key
  <2>3. ASSUME NEW q \in Requests, NEW c \in Credentials,
               ResolveMissing(q, c) \/ ResolveToken(q, c) \/ ResolveUnknown(q, c)
                   \/ ResolveDirect(q, c)
        PROVE  Goal
    <3>1. pc'[q] \notin {"record", "evict"} /\ (r # q => pc'[r] = pc[r])
      BY <2>3 DEF ResolveMissing, ResolveToken, ResolveUnknown, ResolveDirect, Refuse,
                  Accept, TypeOK
    <3>2. r # q => cred'[r] = cred[r] /\ status'[r] = status[r] /\ valid' = valid
      BY <2>3 DEF ResolveMissing, ResolveToken, ResolveUnknown, ResolveDirect, Arrive, TypeOK
    <3> QED
      BY <3>1, <3>2 DEF RefusalInv, key
  <2>4. ASSUME NEW q \in Requests, LookHit(q) \/ LookRefused(q) \/ LookMiss(q) PROVE Goal
    BY <2>4 DEF LookHit, LookRefused, LookMiss, Refuse, Accept, RefusalInv, TypeOK, key
  <2>5. ASSUME NEW q \in Requests, Verify(q) PROVE Goal
    BY <2>5 DEF Verify, Answers, RefusalInv, TypeOK, key
  <2>6. ASSUME NEW q \in Requests,
               RecordVerified(q) \/ RecordRejected(q) \/ RecordUnavailable(q)
        PROVE  Goal
    <3>1. valid' = valid /\ cred' = cred /\ status' = status
      BY <2>6 DEF RecordVerified, RecordRejected, RecordUnavailable
    <3>2. \E x \in {"idle", "serve"} : pc' = [pc EXCEPT ![q] = x]
      BY <2>6, VerifiedServes DEF RecordRejected, RecordUnavailable, Refuse
    <3> QED
      BY <3>1, <3>2 DEF RefusalInv, TypeOK, key
  <2>7. ASSUME NEW q \in Requests, ServeEnds(q) \/ Invalidate(q) PROVE Goal
    BY <2>7 DEF ServeEnds, Invalidate, RefusalInv, TypeOK, key
  <2>8. ASSUME NEW q \in Requests, ServeRefused(q) PROVE Goal
    BY <2>8 DEF ServeRefused, RefusalInv, TypeOK, key
  <2>9. CASE UNCHANGED vars
    BY <2>9 DEF vars, requestVars, RefusalInv, key
  <2> QED
    BY <2>1, <2>2, <2>3, <2>4, <2>5, <2>6, <2>7, <2>8, <2>9 DEF Next, Resolve, Serve
<1> QED
  BY <1>1, <1>2 DEF RefusalInv

(* An entry written under an old clock is dated at most Lag before the     *)
(* present, and no sweep is later than that.                               *)
LEMMA SweptStep ==
    ASSUME TypeOK, ClockInv, RefusalInv, SweptOut, [Next]_vars
    PROVE  SweptOut'
<1> USE DurationAssumption
<1> SUFFICES ASSUME NEW k \in Keys
             PROVE  /\ \A c \in ok'[k] : \/ lastSweep' - c.lastUsed <= CacheTTL
                                          \/ lastSweep' <= c.lastUsed + Lag
                    /\ \A t \in bad'[k] : \/ lastSweep' - t < FailureTTL
                                           \/ lastSweep' <= t + Lag
  BY DEF SweptOut, Fresh, Recent
<1>1. /\ \A c \in ok[k] : /\ c.lastUsed \in Nat
                         /\ \/ lastSweep - c.lastUsed <= CacheTTL
                            \/ lastSweep <= c.lastUsed + Lag
      /\ \A t \in bad[k] : /\ t \in Nat
                           /\ lastSweep - t < FailureTTL \/ lastSweep <= t + Lag
      /\ lastSweep \in Nat /\ time \in Nat /\ lastSweep <= time
  BY DEF SweptOut, Fresh, Recent, TypeOK, ClockInv, Entry
<1>2. ASSUME NEW c \in ok'[k]
      PROVE  lastSweep' - c.lastUsed <= CacheTTL \/ lastSweep' <= c.lastUsed + Lag
  <2>1. CASE OkSame(k)
    BY <1>1, <1>2, <2>1 DEF OkSame
  <2>2. CASE OkSwept(k)
    BY <1>1, <1>2, <2>2 DEF OkSwept, SweptOk, Swept, Due, Fresh
  <2>3. CASE OkUsed(k)
    BY <1>1, <1>2, <2>3 DEF OkUsed, FitClock, Swept
  <2> QED
    BY <2>1, <2>2, <2>3, OkStep
<1>3. ASSUME NEW t \in bad'[k]
      PROVE  lastSweep' - t < FailureTTL \/ lastSweep' <= t + Lag
  <2>1. CASE BadSame(k)
    BY <1>1, <1>3, <2>1 DEF BadSame
  <2>2. CASE BadSwept(k)
    BY <1>1, <1>3, <2>2 DEF BadSwept, SweptBad, Swept, Due, Recent
  <2>3. CASE BadNoted(k)
    BY <1>1, <1>3, <2>3 DEF BadNoted, FitClock
  <2> QED
    BY <2>1, <2>2, <2>3, BadStep
<1> QED
  BY <1>2, <1>3

(* Whatever overwrites or sweeps an entry leaves the refusal covered. *)
LEMMA BackOffStep ==
    ASSUME TypeOK, ClockInv, RefusalInv, DatedInv, BackOffInv, [Next]_vars
    PROVE  BackOffInv' /\ DatedInv'
<1> USE DurationAssumption
<1> SUFFICES ASSUME NEW k \in Keys
             PROVE  /\ \A t \in refusedAt'[k] :
                           \/ time' + Lag >= t + FailureTTL
                           \/ \E u \in bad'[k] : u + Lag >= t
                    /\ \A u \in bad'[k] : u <= time'
  BY DEF BackOffInv, DatedInv
<1>1. time \in Nat /\ time' \in Nat /\ time <= time'
  BY OneWay DEF TypeOK
<1>2. /\ \A t \in refusedAt[k] :
            t \in Nat /\ (time + Lag >= t + FailureTTL \/ \E u \in bad[k] : u + Lag >= t)
      /\ \A u \in bad[k] : u \in Nat /\ u <= time
  BY DEF BackOffInv, DatedInv, TypeOK
<1>3. CASE BadSame(k)
  BY <1>1, <1>2, <1>3 DEF BadSame
<1>4. CASE BadSwept(k)
  <2>1. PICK now \in Nat : now <= time /\ bad'[k] = SweptBad(now)[k]
    BY <1>4 DEF BadSwept, FitClock
  <2>2. \A u \in bad[k] : u \in bad'[k] \/ now - u >= FailureTTL
    BY <1>2, <2>1 DEF SweptBad, Recent
  <2>3. bad'[k] \subseteq bad[k]
    BY <2>1 DEF SweptBad
  <2> QED
    BY <1>1, <1>2, <1>4, <2>1, <2>2, <2>3 DEF BadSwept
<1>5. CASE BadNoted(k)
  BY <1>1, <1>5 DEF BadNoted, FitClock
<1> QED
  BY <1>3, <1>4, <1>5, BadStep

(* IInv is an invariant. *)
LEMMA InvariantIInv == Spec => []IInv
<1>1. IInv /\ [Next]_vars => IInv'
  BY TypeStep, ClockStep, RefusalStep, SweptStep, BackOffStep, KeysAssumption DEF IInv
<1> QED
  BY <1>1, InitIInv, PTL DEF Spec

-----------------------------------------------------------------------------
(* NeverLockedOut of Resolver: no outage, rate limit or race puts a        *)
(* credential that Discord accepts into the failure cache.                 *)
THEOREM OutageLocksNobodyOut == Spec => []NeverLockedOut
<1>1. IInv => NeverLockedOut
  BY DEF IInv, RefusalInv
<1> QED
  BY <1>1, InvariantIInv, PTL

(* SweptOut of Resolver: the sweep bounds the age of what the caches hold  *)
(* by the TTL, or by the time a call may take where that is longer, for    *)
(* every setting of either.                                                *)
THEOREM SweepBoundsCaches == Spec => []SweptOut
<1>1. IInv => SweptOut
  BY DEF IInv
<1> QED
  BY <1>1, InvariantIInv, PTL

(* BackOff of Resolver: after a refusal no call asks Discord about that    *)
(* credential until FailureTTL is over, less Lag.                          *)
THEOREM RefusalIsRemembered == Spec => BackOff
<1> DEFINE Kept == \A r \in Requests : Asks(r) =>
                       \A t \in refusedAt[key(r)] : time + Lag >= t + FailureTTL
<1>1. IInv /\ [Next]_vars => [Kept]_vars
  <2> SUFFICES ASSUME IInv, Next, NEW r \in Requests, Asks(r), NEW t \in refusedAt[key(r)]
               PROVE  time + Lag >= t + FailureTTL
    OBVIOUS
  <2> USE DurationAssumption
  <2>1. LookMiss(r)
    <3>1. pc[r] = "look" /\ pc'[r] = "ask"
      BY DEF Asks
    <3>2. ~Tick /\ ~\E k \in Keys : Revoke(k)
      BY <3>1 DEF Tick, Revoke, requestVars
    <3>3. PICK q \in Requests : Resolve(q) \/ Serve(q)
      BY <3>2 DEF Next
    <3> DEFINE Elsewhere == \E x \in {"idle", "look", "record", "serve", "evict"} :
                                pc' = [pc EXCEPT ![q] = x]
    <3>4. ~Elsewhere
      BY <3>1 DEF IInv, TypeOK
    <3>5. \A c \in Credentials :
              ResolveMissing(q, c) \/ ResolveToken(q, c) \/ ResolveUnknown(q, c)
                  \/ ResolveDirect(q, c) => Elsewhere
      BY DEF ResolveMissing, ResolveToken, ResolveUnknown, ResolveDirect, Refuse, Accept
    <3>6. LookHit(q) \/ LookRefused(q) \/ Verify(q) => Elsewhere
      BY DEF LookHit, LookRefused, Verify, Refuse, Accept
    <3>7. RecordVerified(q) \/ RecordRejected(q) \/ RecordUnavailable(q) => Elsewhere
      BY VerifiedServes DEF RecordRejected, RecordUnavailable, Refuse
    <3>8. ServeEnds(q) \/ ServeRefused(q) \/ Invalidate(q) => Elsewhere
      BY DEF ServeEnds, ServeRefused, Invalidate
    <3>9. LookMiss(q)
      BY <3>3, <3>4, <3>5, <3>6, <3>7, <3>8 DEF Resolve, Serve
    <3>10. pc \in [Requests -> {"idle", "look", "ask", "record", "serve", "evict"}]
      BY DEF IInv, TypeOK
    <3>11. pc' = [pc EXCEPT ![q] = "ask"]
      BY <3>9 DEF LookMiss
    <3>12. q = r
      BY <3>1, <3>10, <3>11
    <3> QED
      BY <3>9, <3>12
  <2>2. /\ key(r) \in Keys /\ t \in Nat /\ time \in Nat
        /\ clock[r] \in Nat /\ clock[r] <= time
        /\ \A u \in bad[key(r)] : u \in Nat
    BY <2>1 DEF LookMiss, IInv, TypeOK, ClockInv, key
  <2>3. \/ time + Lag >= t + FailureTTL
        \/ \E u \in bad[key(r)] : u + Lag >= t
    BY <2>2 DEF IInv, BackOffInv
  <2>4. \A u \in bad[key(r)] : clock[r] - u >= FailureTTL
    BY <2>1, <2>2 DEF LookMiss, SweptBad, Recent
  <2> QED
    BY <2>2, <2>3, <2>4
<1> QED
  BY <1>1, InvariantIInv, PTL DEF Spec, BackOff

-----------------------------------------------------------------------------
(* An entry of the success cache is dated by a clock read before the       *)
(* acceptance that wrote it, and nothing but an acceptance renews it.      *)
SeenInv == \A k \in Keys : \A c \in ok[k] : \E t \in seenAt[k] : c.lastUsed <= t

(* A step leaves of the cached entries of k what it leaves, or accepts k.  *)
SeenSame(k) == ok'[k] \subseteq ok[k] /\ seenAt'[k] = seenAt[k]
SeenNow(k)  == (\A c \in ok'[k] : c.lastUsed <= time) /\ seenAt'[k] = {time}

LEMMA SeenChange ==
    ASSUME TypeOK, ClockInv, [Next]_vars, NEW k \in Keys
    PROVE  SeenSame(k) \/ SeenNow(k)
<1>1. ASSUME UNCHANGED <<ok, seenAt>> PROVE SeenSame(k)
  BY <1>1 DEF SeenSame
<1>2. ASSUME NEW r \in Requests, LookRefused(r) \/ LookMiss(r) PROVE SeenSame(k)
  BY <1>2, SweepShrinks DEF LookRefused, LookMiss, SeenSame, TypeOK
<1>3. ASSUME NEW r \in Requests, LookHit(r) PROVE SeenSame(k) \/ SeenNow(k)
  <2> DEFINE now == clock[r]
  <2>1. /\ now \in Nat /\ now <= time /\ key(r) \in Keys
        /\ seenAt' = [seenAt EXCEPT ![key(r)] = {time}]
    BY <1>3 DEF LookHit, ClockInv, TypeOK, key
  <2>2. PICK c \in SweptOk(now)[key(r)] :
            ok' = [SweptOk(now) EXCEPT ![key(r)] = {[c EXCEPT !.lastUsed = now]}]
    BY <1>3 DEF LookHit
  <2> HIDE DEF now
  <2>3. c \in Entry
    BY <2>1, <2>2, SweepShrinks
  <2>4. CASE k = key(r)
    BY <2>1, <2>2, <2>3, <2>4, SweepShrinks DEF SeenNow, TypeOK, Entry
  <2>5. CASE k # key(r)
    BY <2>1, <2>2, <2>5, SweepShrinks DEF SeenSame, TypeOK
  <2> QED
    BY <2>4, <2>5
<1>4. ASSUME NEW r \in Requests, RecordVerified(r) PROVE SeenSame(k) \/ SeenNow(k)
  <2>1. /\ clock[r] \in Nat /\ clock[r] <= time /\ key(r) \in Keys
        /\ seenAt' = [seenAt EXCEPT ![key(r)] = {time}]
    BY <1>4 DEF RecordVerified, ClockInv, TypeOK, key
  <2>2. PICK p : ok' = [ok EXCEPT ![key(r)] = {[p |-> p, lastUsed |-> clock[r]]}]
    BY <1>4 DEF RecordVerified, RememberVerified
  <2>3. CASE k = key(r)
    BY <2>1, <2>2, <2>3 DEF SeenNow, TypeOK
  <2>4. CASE k # key(r)
    BY <2>1, <2>2, <2>4 DEF SeenSame, TypeOK
  <2> QED
    BY <2>3, <2>4
<1>5. ASSUME NEW r \in Requests, Invalidate(r) PROVE SeenSame(k)
  BY <1>5 DEF Invalidate, Drop, SeenSame, TypeOK
<1>6. ASSUME NEW r \in Requests, NEW c \in Credentials, NEW now, Arrive(r, c, now)
      PROVE  UNCHANGED <<ok, seenAt>>
  BY <1>6 DEF Arrive, cacheVars
<1>7. ASSUME \/ Tick \/ (\E x \in Keys : Revoke(x)) \/ UNCHANGED vars
             \/ \E r \in Requests : \/ Verify(r) \/ RecordRejected(r) \/ RecordUnavailable(r)
                                    \/ ServeEnds(r) \/ ServeRefused(r)
      PROVE  UNCHANGED <<ok, seenAt>>
  BY <1>7 DEF Tick, Revoke, Verify, RecordRejected, RecordUnavailable, ServeEnds, ServeRefused,
              vars, cacheVars, auxVars
<1> QED
  BY <1>1, <1>2, <1>3, <1>4, <1>5, <1>6, <1>7
  DEF Next, Resolve, Serve, ResolveMissing, ResolveToken, ResolveUnknown, ResolveDirect

LEMMA InvariantSeenInv == Spec => []SeenInv
<1>1. Init => SeenInv
  BY DEF Init, SeenInv
<1>2. IInv /\ SeenInv /\ [Next]_vars => SeenInv'
  <2> SUFFICES ASSUME IInv, SeenInv, [Next]_vars, NEW k \in Keys, NEW c \in ok'[k]
               PROVE  \E t \in seenAt'[k] : c.lastUsed <= t
    BY DEF SeenInv
  <2>1. SeenSame(k) \/ SeenNow(k)
    BY SeenChange DEF IInv
  <2> QED
    BY <2>1 DEF SeenInv, SeenSame, SeenNow
<1> QED
  BY <1>1, <1>2, InvariantIInv, PTL DEF Spec

(* Of all steps only a hit in the cache leads from the look to the tool.   *)
LEMMA CachedIsHit ==
    ASSUME TypeOK, Next, NEW r \in Requests, Cached(r)
    PROVE  LookHit(r)
<1>1. pc[r] = "look" /\ pc'[r] = "serve"
  BY DEF Cached
<1>2. ~Tick /\ ~\E k \in Keys : Revoke(k)
  BY <1>1 DEF Tick, Revoke, requestVars
<1>3. PICK q \in Requests : Resolve(q) \/ Serve(q)
  BY <1>2 DEF Next
<1>4. ASSUME NEW x, pc' = [pc EXCEPT ![q] = x]
      PROVE  x = "serve" /\ q = r
  BY <1>1, <1>4 DEF TypeOK
<1>5. \A c \in Credentials :
          ~(ResolveMissing(q, c) \/ ResolveToken(q, c) \/ ResolveUnknown(q, c)
            \/ ResolveDirect(q, c))
  <2> SUFFICES ASSUME NEW c \in Credentials
               PROVE  ~(ResolveMissing(q, c) \/ ResolveToken(q, c) \/ ResolveUnknown(q, c)
                        \/ ResolveDirect(q, c))
    OBVIOUS
  <2>1. pc' # [pc EXCEPT ![q] = "idle"] /\ pc' # [pc EXCEPT ![q] = "look"]
    BY <1>4
  <2>2. ~ResolveMissing(q, c) /\ ~ResolveUnknown(q, c)
    BY <2>1 DEF ResolveMissing, ResolveUnknown, Refuse
  <2>3. ~ResolveToken(q, c)
    BY <1>1, <1>4 DEF ResolveToken, Accept, Arrive
  <2>4. ~ResolveDirect(q, c)
    BY <2>1 DEF ResolveDirect
  <2> QED  BY <2>2, <2>3, <2>4
<1>6. ~(LookRefused(q) \/ LookMiss(q) \/ Verify(q) \/ RecordRejected(q) \/ RecordUnavailable(q))
  BY <1>4 DEF LookRefused, LookMiss, Verify, RecordRejected, RecordUnavailable, Refuse
<1>7. ~RecordVerified(q)
  BY <1>1, <1>4, VerifiedServes DEF RecordVerified
<1>8. ~(ServeEnds(q) \/ ServeRefused(q) \/ Invalidate(q))
  BY <1>1, <1>4 DEF ServeEnds, ServeRefused, Invalidate
<1>9. LookHit(q)
  BY <1>3, <1>5, <1>6, <1>7, <1>8 DEF Resolve, Serve
<1> QED
  BY <1>4, <1>9 DEF LookHit, Accept

(* IdleExpires of Resolver: no call is accepted from the cache later than  *)
(* CacheTTL after the credential was last accepted, plus the age of a      *)
(* clock, although entries are dated by clocks read before they are used.  *)
THEOREM CacheExpiresUnused == Spec => IdleExpires
<1> DEFINE Timely == \A r \in Requests : Cached(r) =>
                         \E t \in seenAt[key(r)] : time <= t + CacheTTL + Lag
<1>1. IInv /\ SeenInv /\ [Next]_vars => [Timely]_vars
  <2> SUFFICES ASSUME IInv, SeenInv, Next, NEW r \in Requests, Cached(r)
               PROVE  \E t \in seenAt[key(r)] : time <= t + CacheTTL + Lag
    OBVIOUS
  <2>1. LookHit(r)
    BY CachedIsHit DEF IInv
  <2>2. /\ key(r) \in Keys /\ time \in Nat /\ clock[r] \in Nat
        /\ time <= clock[r] + Lag /\ seenAt[key(r)] \subseteq Nat
    BY <2>1 DEF LookHit, IInv, TypeOK, ClockInv, key
  <2>3. PICK c \in SweptOk(clock[r])[key(r)] : Fresh(c, clock[r])
    BY <2>1 DEF LookHit
  <2>4. c \in ok[key(r)] /\ c.lastUsed \in Nat
    BY <2>2, <2>3, SweepShrinks DEF IInv, TypeOK, Entry
  <2>5. PICK t \in seenAt[key(r)] : c.lastUsed <= t
    BY <2>2, <2>4 DEF SeenInv
  <2>6. t \in Nat /\ time <= t + CacheTTL + Lag
    BY <2>2, <2>3, <2>4, <2>5, DurationAssumption DEF Fresh
  <2> QED
    BY <2>5, <2>6
<1> QED
  BY <1>1, InvariantIInv, InvariantSeenInv, PTL DEF Spec, IdleExpires

-----------------------------------------------------------------------------
(* Request r runs under the cached principal of its credential. *)
Agrees(r) == pc[r] \in Quiet /\ ok[key(r)] # {} /\ \A c \in ok[key(r)] : held[r] = c.p

(* Requests that share a principal keep it through every step: the ones    *)
(* whose entry went leave the set, and a late verification adopts the      *)
(* entry it finds.                                                         *)
LEMMA SharedStep ==
    ASSUME TypeOK, SharedInv, [Next]_vars
    PROVE  SharedInv'
<1> SUFFICES ASSUME NEW r \in Requests, r \in shared' PROVE Agrees(r)'
  BY TypeStep DEF SharedInv, OnePrincipal, Agrees, TypeOK
<1>1. r \in shared => Agrees(r)
  BY DEF SharedInv, OnePrincipal, Agrees
<1>2. CASE Tick
  BY <1>1, <1>2 DEF Tick, cacheVars, requestVars, auxVars, Agrees, key
<1>3. ASSUME NEW k \in Keys, Revoke(k) PROVE Agrees(r)'
  BY <1>1, <1>3 DEF Revoke, cacheVars, requestVars, auxVars, Agrees, key
<1>4. ASSUME NEW q \in Requests, NEW c \in Credentials,
             ResolveMissing(q, c) \/ ResolveToken(q, c) \/ ResolveUnknown(q, c)
                 \/ ResolveDirect(q, c)
      PROVE  Agrees(r)'
  <2>1. \E now : Arrive(q, c, now)
    BY <1>4 DEF ResolveMissing, ResolveToken, ResolveUnknown, ResolveDirect
  <2>2. r \in shared /\ r # q /\ cred'[r] = cred[r] /\ ok' = ok
    BY <2>1 DEF Arrive, cacheVars, TypeOK
  <2>3. pc'[r] = pc[r] /\ held'[r] = held[r]
    BY <1>4, <2>2 DEF ResolveMissing, ResolveToken, ResolveUnknown, ResolveDirect,
                      Refuse, Accept, TypeOK
  <2> QED
    BY <1>1, <2>2, <2>3 DEF Agrees, key
<1>5. ASSUME NEW q \in Requests, LookHit(q) PROVE Agrees(r)'
  <2> DEFINE now == clock[q]
  <2>1. now \in Nat /\ key(q) \in Keys /\ key(r) \in Keys
    BY DEF TypeOK, key
  <2>2. PICK c \in SweptOk(now)[key(q)] :
            /\ ok' = [SweptOk(now) EXCEPT ![key(q)] = {[c EXCEPT !.lastUsed = now]}]
            /\ pc' = [pc EXCEPT ![q] = "serve"] /\ held' = [held EXCEPT ![q] = c.p]
    BY <1>5 DEF LookHit, Accept
  <2>3. c \in ok[key(q)] /\ c \in Entry
    BY <2>1, <2>2, SweepShrinks
  <2> DEFINE d == [c EXCEPT !.lastUsed = now]
  <2>4. d.p = c.p
    BY <2>3 DEF Entry
  <2>5. pc[q] = "look" /\ shared' = StillShared \cup {q} /\ cred' = cred
    BY <1>5 DEF LookHit
  <2> HIDE DEF now, d
  <2>6. /\ ok'[key(q)] = {d}
        /\ key(r) # key(q) => ok'[key(r)] \subseteq ok[key(r)]
    BY <2>1, <2>2, SweepShrinks DEF d
  <2>7. CASE r = q
    BY <2>2, <2>4, <2>5, <2>6, <2>7 DEF Agrees, Quiet, key, TypeOK
  <2>8. CASE r # q
    <3>1. r \in shared /\ ok'[key(r)] # {}
      BY <2>5, <2>8 DEF StillShared
    <3>2. pc'[r] = pc[r] /\ held'[r] = held[r]
      BY <2>2, <2>8 DEF TypeOK
    <3>3. \A e \in ok'[key(r)] : held[r] = e.p
      BY <1>1, <2>3, <2>4, <2>6, <3>1 DEF Agrees
    <3> QED
      BY <1>1, <2>5, <3>1, <3>2, <3>3 DEF Agrees, key
  <2> QED
    BY <2>7, <2>8
<1>6. ASSUME NEW q \in Requests, LookRefused(q) \/ LookMiss(q) PROVE Agrees(r)'
  <2>1. clock[q] \in Nat /\ key(r) \in Keys
    BY DEF TypeOK, key
  <2>2. /\ pc[q] = "look" /\ cred' = cred /\ shared' = StillShared
        /\ ok' = SweptOk(clock[q])
    BY <1>6 DEF LookRefused, LookMiss
  <2>3. r \in shared /\ ok'[key(r)] # {} /\ ok'[key(r)] \subseteq ok[key(r)]
    BY <2>1, <2>2, SweepShrinks DEF StillShared
  <2>4. r # q
    BY <1>1, <2>2, <2>3 DEF Agrees, Quiet
  <2>5. pc'[r] = pc[r] /\ held'[r] = held[r]
    BY <1>6, <2>4 DEF LookRefused, LookMiss, Refuse, TypeOK
  <2> QED
    BY <1>1, <2>2, <2>3, <2>5 DEF Agrees, key
<1>7. ASSUME NEW q \in Requests, Verify(q) \/ RecordRejected(q) \/ RecordUnavailable(q)
      PROVE  Agrees(r)'
  <2>1. /\ pc[q] \in {"ask", "record"} /\ cred' = cred /\ shared' = shared /\ ok' = ok
        /\ r \in shared
    BY <1>7 DEF Verify, RecordRejected, RecordUnavailable, cacheVars, auxVars
  <2>2. r # q
    BY <1>1, <2>1 DEF Agrees, Quiet
  <2>3. pc'[r] = pc[r] /\ held'[r] = held[r]
    BY <1>7, <2>2 DEF Verify, RecordRejected, RecordUnavailable, Refuse, TypeOK
  <2> QED
    BY <1>1, <2>1, <2>3 DEF Agrees, key
<1>8. ASSUME NEW q \in Requests, RecordVerified(q) PROVE Agrees(r)'
  <2>1. key(q) \in Keys /\ key(r) \in Keys
    BY DEF TypeOK, key
  <2>2. PICK p \in IF ok[key(q)] = {} THEN {q} ELSE {c.p : c \in ok[key(q)]} :
            /\ ok' = [ok EXCEPT ![key(q)] = {[p |-> p, lastUsed |-> clock[q]]}]
            /\ pc' = [pc EXCEPT ![q] = "serve"] /\ held' = [held EXCEPT ![q] = p]
    BY <1>8 DEF RecordVerified, RememberVerified, Accept
  <2>3. pc[q] = "record" /\ shared' = StillShared \cup {q} /\ cred' = cred
    BY <1>8 DEF RecordVerified
  <2> DEFINE d == [p |-> p, lastUsed |-> clock[q]]
  <2>4. d.p = p
    OBVIOUS
  <2>5. /\ ok'[key(q)] = {d}
        /\ key(r) # key(q) => ok'[key(r)] = ok[key(r)]
    BY <2>1, <2>2 DEF TypeOK
  <2> HIDE DEF d
  <2>6. key(r)' = key(r)
    BY <2>3 DEF key
  <2>7. CASE r = q
    <3>1. pc'[r] = "serve" /\ held'[r] = p
      BY <2>2, <2>7 DEF TypeOK
    <3> QED
      BY <2>4, <2>5, <2>6, <2>7, <3>1 DEF Agrees, Quiet
  <2>8. CASE r # q
    <3>1. r \in shared
      BY <2>3, <2>8 DEF StillShared
    <3>2. pc'[r] = pc[r] /\ held'[r] = held[r]
      BY <2>2, <2>8 DEF TypeOK
    <3>3. pc[r] \in Quiet /\ ok[key(r)] # {} /\ \A c \in ok[key(r)] : held[r] = c.p
      BY <1>1, <3>1 DEF Agrees
    <3>4. key(r) = key(q) => held[r] = p
      BY <2>2, <3>3
    <3>5. \A c \in ok'[key(r)] : held[r] = c.p
      BY <2>4, <2>5, <3>3, <3>4
    <3>6. ok'[key(r)] # {}
      BY <2>5, <3>3
    <3> QED
      BY <2>6, <3>2, <3>3, <3>5, <3>6 DEF Agrees
  <2> QED
    BY <2>7, <2>8
<1>9. ASSUME NEW q \in Requests, ServeEnds(q) \/ ServeRefused(q) PROVE Agrees(r)'
  <2>1. ok' = ok /\ shared' = shared /\ held' = held /\ cred' = cred
    BY <1>9 DEF ServeEnds, ServeRefused, cacheVars, auxVars
  <2>2. \E x \in {"idle", "evict"} : pc' = [pc EXCEPT ![q] = x]
    BY <1>9 DEF ServeEnds, ServeRefused
  <2> QED
    BY <1>1, <2>1, <2>2 DEF Agrees, Quiet, key, TypeOK
<1>10. ASSUME NEW q \in Requests, Invalidate(q) PROVE Agrees(r)'
  <2>1. key(q) \in Keys /\ key(r) \in Keys
    BY DEF TypeOK, key
  <2>2. /\ ok' = [ok EXCEPT ![key(q)] = {}] /\ shared' = StillShared
        /\ held' = held /\ cred' = cred /\ pc' = [pc EXCEPT ![q] = "idle"]
    BY <1>10 DEF Invalidate, Drop
  <2>3. r \in shared /\ ok'[key(r)] # {}
    BY <2>2 DEF StillShared
  <2>4. ok'[key(r)] = ok[key(r)]
    BY <2>1, <2>2, <2>3 DEF TypeOK
  <2> QED
    BY <1>1, <2>2, <2>3, <2>4 DEF Agrees, Quiet, key, TypeOK
<1>11. CASE UNCHANGED vars
  BY <1>1, <1>11 DEF vars, cacheVars, requestVars, auxVars, Agrees, key
<1> QED
  BY <1>2, <1>3, <1>4, <1>5, <1>6, <1>7, <1>8, <1>9, <1>10, <1>11
  DEF Next, Resolve, Serve

(* OnePrincipal of Resolver: requests that run for one cached credential   *)
(* hold one principal, however their verifications overlapped.             *)
THEOREM OneClientPerCredential == Spec => []OnePrincipal
<1>1. Init => SharedInv
  BY DEF Init, SharedInv, OnePrincipal
<1>2. TypeOK /\ SharedInv /\ [Next]_vars => SharedInv'
  BY SharedStep
<1>3. SharedInv => OnePrincipal
  BY DEF SharedInv
<1> QED
  BY <1>1, <1>2, <1>3, TypeCorrect, PTL DEF Spec

-----------------------------------------------------------------------------
(* OutForGood of Resolver: a revoked credential that is neither cached nor *)
(* freshly verified is never accepted again.                               *)
THEOREM RevokedStaysOut == Spec => OutForGood
<1> DEFINE Stays == \A k \in Keys : Out(k) => Out(k)'
<1>1. TypeOK /\ [Next]_vars => [Stays]_vars
  <2> SUFFICES ASSUME TypeOK, Next, NEW k \in Keys, Out(k) PROVE Out(k)'
    OBVIOUS
  <2>1. /\ k \notin valid /\ ok[k] = {} /\ k \notin valid'
        /\ \A r \in Requests : pc[r] = "record" /\ key(r) = k => status[r] # 200
    BY OneWay DEF Out
  <2>2. CASE Tick
    BY <2>1, <2>2 DEF Tick, cacheVars, requestVars, Out, key
  <2>3. ASSUME NEW x \in Keys, Revoke(x) PROVE Out(k)'
    BY <2>1, <2>3 DEF Revoke, cacheVars, requestVars, Out, key
  <2>4. ASSUME NEW r \in Requests, NEW c \in Credentials,
               ResolveMissing(r, c) \/ ResolveToken(r, c) \/ ResolveUnknown(r, c)
                   \/ ResolveDirect(r, c)
        PROVE  Out(k)'
    <3>1. ok' = ok /\ \E x \in {"idle", "serve", "look"} : pc' = [pc EXCEPT ![r] = x]
      BY <2>4 DEF ResolveMissing, ResolveToken, ResolveUnknown, ResolveDirect, Arrive,
                  Refuse, Accept, cacheVars
    <3>2. \A q \in Requests \ {r} : cred'[q] = cred[q] /\ status'[q] = status[q]
      BY <2>4 DEF ResolveMissing, ResolveToken, ResolveUnknown, ResolveDirect, Arrive, TypeOK
    <3> QED
      BY <2>1, <3>1, <3>2 DEF Out, key, TypeOK
  <2>5. ASSUME NEW r \in Requests, LookHit(r) \/ LookRefused(r) \/ LookMiss(r)
        PROVE  Out(k)'
    <3>1. clock[r] \in Nat /\ key(r) \in Keys
      BY DEF TypeOK, key
    <3>2. SweptOk(clock[r])[k] = {}
      BY <2>1, <3>1, SweepShrinks
    <3>3. ok'[k] = {}
      <4>1. CASE LookHit(r)
        <5>1. PICK c \in SweptOk(clock[r])[key(r)] :
                  ok' = [SweptOk(clock[r]) EXCEPT ![key(r)] = {[c EXCEPT !.lastUsed = clock[r]]}]
          BY <4>1 DEF LookHit
        <5>2. k # key(r)
          BY <3>2, <5>1
        <5> QED
          BY <3>1, <3>2, <5>1, <5>2, SweepShrinks
      <4>2. CASE ok' = SweptOk(clock[r])
        BY <3>2, <4>2
      <4> QED
        BY <2>5, <4>1, <4>2 DEF LookRefused, LookMiss
    <3>4. \E x \in {"idle", "serve", "ask"} : pc' = [pc EXCEPT ![r] = x]
      BY <2>5 DEF LookHit, LookRefused, LookMiss, Refuse, Accept
    <3>5. cred' = cred /\ status' = status
      BY <2>5 DEF LookHit, LookRefused, LookMiss
    <3> QED
      BY <2>1, <3>3, <3>4, <3>5 DEF Out, key, TypeOK
  <2>6. ASSUME NEW r \in Requests, Verify(r) PROVE Out(k)'
    BY <2>1, <2>6 DEF Verify, Answers, cacheVars, Out, key, TypeOK
  <2>7. ASSUME NEW r \in Requests, RecordVerified(r) PROVE Out(k)'
    <3>1. pc[r] = "record" /\ status[r] = 200 /\ cred' = cred /\ status' = status
      BY <2>7 DEF RecordVerified, Classify, TypeOK, Status
    <3>2. key(r) # k
      BY <2>1, <3>1
    <3>3. ok'[k] = ok[k]
      BY <2>7, <3>2 DEF RecordVerified, RememberVerified, TypeOK
    <3>4. pc' = [pc EXCEPT ![r] = "serve"]
      BY <2>7, VerifiedServes
    <3> QED
      BY <2>1, <3>1, <3>3, <3>4 DEF Out, key, TypeOK
  <2>8. ASSUME NEW r \in Requests, RecordRejected(r) \/ RecordUnavailable(r) \/ ServeEnds(r)
        PROVE  Out(k)'
    <3>1. ok' = ok /\ cred' = cred /\ status' = status /\ pc' = [pc EXCEPT ![r] = "idle"]
      BY <2>8 DEF RecordRejected, RecordUnavailable, ServeEnds, Refuse, cacheVars
    <3> QED
      BY <2>1, <3>1 DEF Out, key, TypeOK
  <2>9. ASSUME NEW r \in Requests, ServeRefused(r) \/ Invalidate(r) PROVE Out(k)'
    <3>1. cred' = cred /\ \E x \in {"idle", "evict"} : pc' = [pc EXCEPT ![r] = x]
      BY <2>9 DEF ServeRefused, Invalidate
    <3>2. ok'[k] = {}
      BY <2>1, <2>9 DEF ServeRefused, Invalidate, Drop, cacheVars, TypeOK
    <3>3. \A q \in Requests \ {r} : status'[q] = status[q]
      BY <2>9 DEF ServeRefused, Invalidate, TypeOK
    <3> QED
      BY <2>1, <3>1, <3>2, <3>3 DEF Out, key, TypeOK
  <2> QED
    BY <2>2, <2>3, <2>4, <2>5, <2>6, <2>7, <2>8, <2>9 DEF Next, Resolve, Serve
<1> QED
  BY <1>1, TypeCorrect, PTL DEF Spec, OutForGood
=============================================================================
