-------------------------- MODULE EventToolsProofs --------------------------
(***************************************************************************)
(* Theorems about EventTools: the pages of Since, and what the clients     *)
(* that follow the events get, for any ring, clients, filters and page     *)
(* sizes, and however replies, requests and processes are lost.            *)
(***************************************************************************)
EXTENDS EventTools, EventLogProofs

-----------------------------------------------------------------------------
(* Counting.  The elements of a finite set, each with a key of its own.    *)
Keys(S, k, n) ==
    /\ IsFiniteSet(S) /\ k \in [S -> 0 .. n]
    /\ \A d, e \in S : k[d] = k[e] => d = e

(* Those up to e, and the first limit of them all. *)
UpTo(S, k, e)      == {d \in S : k[d] <= k[e]}
First(S, k, limit) == {e \in S : Cardinality(UpTo(S, k, e)) <= limit}

(* A non-empty part of S has a first and a last element.                   *)
LEMMA FirstAndLast ==
    ASSUME NEW n \in Nat, NEW S, NEW k, Keys(S, k, n), NEW T, T \subseteq S, T # {}
    PROVE  /\ \E m \in T : \A d \in T : k[m] <= k[d]
           /\ \E m \in T : \A d \in T : k[d] <= k[m]
<1>1. \A d \in T : k[d] \in 0 .. n
    BY DEF Keys
<1>2. \E m \in T : \A d \in T : k[m] <= k[d]
    <2>1. {k[d] : d \in T} \subseteq Nat /\ {k[d] : d \in T} # {}
        BY <1>1
    <2>2. PICK x \in {k[d] : d \in T} : \A y \in {k[d] : d \in T} : x <= y
        BY <2>1, LeastNatural
    <2> QED  BY <2>2
<1>3. \E m \in T : \A d \in T : k[d] <= k[m]
    <2>1. {n - k[d] : d \in T} \subseteq Nat /\ {n - k[d] : d \in T} # {}
        BY <1>1
    <2>2. PICK x \in {n - k[d] : d \in T} : \A y \in {n - k[d] : d \in T} : x <= y
        BY <2>1, LeastNatural
    <2>3. PICK m \in T : x = n - k[m]
        BY <2>2
    <2>4. ASSUME NEW d \in T
          PROVE  k[d] <= k[m]
        <3>1. n - k[m] <= n - k[d]
            BY <2>2, <2>3
        <3> QED  BY <1>1, <3>1
    <2> QED  BY <2>4
<1> QED  BY <1>2, <1>3

(* The first limit elements are an initial part of S, no more than limit,  *)
(* and all of it if they are fewer.                                        *)
LEMMA FirstOnes ==
    ASSUME NEW n \in Nat, NEW S, NEW k, Keys(S, k, n), NEW limit \in Nat \ {0}
    PROVE  LET E == First(S, k, limit)
           IN  /\ E \subseteq S /\ IsFiniteSet(E) /\ Cardinality(E) \in Nat
               /\ \A e \in E, d \in S : k[d] <= k[e] => d \in E
               /\ Cardinality(E) <= limit
               /\ Cardinality(E) < limit => E = S
<1> DEFINE E == First(S, k, limit)
<1>1. \A d \in S : k[d] \in Nat
    BY DEF Keys
<1>2. \A T : T \subseteq S => IsFiniteSet(T) /\ Cardinality(T) \in Nat
    BY FS_Subset, FS_CardinalityType DEF Keys
<1>3. E \subseteq S
    BY DEF First
<1>4. ASSUME NEW e \in E, NEW d \in S, k[d] <= k[e]
      PROVE  d \in E
    <2>1. UpTo(S, k, d) \subseteq UpTo(S, k, e) /\ UpTo(S, k, e) \subseteq S
        BY <1>1, <1>3, <1>4 DEF UpTo
    <2>2. Cardinality(UpTo(S, k, d)) <= Cardinality(UpTo(S, k, e))
        BY <1>2, <2>1, FS_Subset
    <2>3. /\ Cardinality(UpTo(S, k, e)) <= limit
          /\ Cardinality(UpTo(S, k, d)) \in Nat /\ Cardinality(UpTo(S, k, e)) \in Nat
        BY <1>2, <2>1 DEF First
    <2>4. Cardinality(UpTo(S, k, d)) <= limit
        BY <2>2, <2>3
    <2> QED  BY <2>4 DEF First
<1>5. Cardinality(E) <= limit
    <2>1. CASE E = {}
        BY <2>1, FS_EmptySet
    <2>2. CASE E # {}
        <3>1. PICK m \in E : \A d \in E : k[d] <= k[m]
            BY <1>3, <2>2, FirstAndLast
        <3>2. UpTo(S, k, m) = E
            BY <1>3, <1>4, <3>1 DEF UpTo
        <3>3. Cardinality(UpTo(S, k, m)) <= limit
            BY <3>1 DEF First
        <3> QED  BY <3>2, <3>3
    <2> QED  BY <2>1, <2>2
<1>6. ASSUME Cardinality(E) < limit, E # S
      PROVE  FALSE
    <2>1. S \ E \subseteq S /\ S \ E # {}
        BY <1>3, <1>6
    <2>2. PICK d \in S \ E : \A x \in S \ E : k[d] <= k[x]
        BY <2>1, FirstAndLast
    <2>3. UpTo(S, k, d) = E \cup {d}
        <3>1. ASSUME NEW x \in S, k[x] <= k[d], x # d
              PROVE  x \in E
            <4>1. k[x] # k[d]
                BY <3>1, <2>2 DEF Keys
            <4>2. ~(k[d] <= k[x])
                BY <1>1, <2>2, <3>1, <4>1
            <4> QED  BY <2>2, <3>1, <4>2
        <3>2. ASSUME NEW x \in E
              PROVE  k[x] <= k[d]
            BY <1>1, <1>3, <1>4, <2>2
        <3> QED  BY <1>1, <1>3, <2>2, <3>1, <3>2 DEF UpTo
    <2>4. Cardinality(E \cup {d}) = Cardinality(E) + 1
        BY <1>2, <1>3, <2>2, FS_AddElement
    <2>5. Cardinality(UpTo(S, k, d)) <= limit
        BY <1>2, <1>3, <1>6, <2>3, <2>4
    <2> QED  BY <2>2, <2>5 DEF First
<1> HIDE DEF E
<1> QED  BY <1>2, <1>3, <1>4, <1>5, <1>6 DEF E

-----------------------------------------------------------------------------
(* The hits of a cursor are the wanted events, each under its own seq.     *)
LEMMA HitsAreWanted ==
    ASSUME TypeOK, RingHoldsLatest, NEW c \in CursorSet, NEW f
    PROVE  LET H == Hits(Position(c), f)
           IN  /\ H = {Stored(s) : s \in Wanted(c, f)}
               /\ IsFiniteSet(H)
               /\ \A e \in H : /\ e.seq \in Position(c) + 1 .. lastSeq
                               /\ e.seq \in Wanted(c, f) /\ e = Stored(e.seq)
               /\ \A d, e \in H : d.seq = e.seq => d = e
<1> DEFINE H == Hits(Position(c), f)
<1>1. /\ lastSeq \in Nat /\ lastSeq = Published /\ Position(c) \in Nat
      /\ Surviving \subseteq 1 .. Published
    BY DEF TypeOK, RingHoldsLatest, Position, CursorSet, Surviving
<1>2. \A s : Stored(s).seq = s /\ Stored(s).body = history[s]
    BY DEF Stored
<1>3. H = {Stored(s) : s \in Wanted(c, f)}
    BY <1>2, RetainedIsSurviving DEF Hits, Wanted
<1>4. H \in SUBSET Retained
    BY DEF Hits
<1>5. IsFiniteSet(H)
    BY <1>4, RetainedFinite, FS_Subset
<1>6. ASSUME NEW e \in H
      PROVE  /\ e.seq \in Position(c) + 1 .. lastSeq
             /\ e.seq \in Wanted(c, f) /\ e = Stored(e.seq)
    <2>1. PICK s \in Wanted(c, f) : e = Stored(s)
        BY <1>3
    <2>2. e.seq = s /\ s \in 1 .. Published /\ s > Position(c)
        BY <1>1, <1>2, <2>1 DEF Wanted
    <2> QED  BY <1>1, <2>1, <2>2
<1> QED  BY <1>3, <1>4, <1>5, <1>6, SeqIdentifies

(* A page of the first hits after a cursor: it is an initial part of them, *)
(* it ends where the next page begins, and it is short only at the end.    *)
LEMMA EarliestPage ==
    ASSUME TypeOK, RingHoldsLatest, NEW c \in CursorSet, NEW f, NEW limit \in Nat \ {0},
           Position(c) <= lastSeq
    PROVE  LET H   == Hits(Position(c), f)
               out == Earliest(H, limit)
               nxt == NextSeq(out, limit)
           IN  /\ nxt \in Position(c) .. lastSeq
               /\ out = {e \in H : e.seq <= nxt}
               /\ Cardinality(out) <= limit
               /\ Cardinality(out) < limit => nxt = lastSeq
<1> DEFINE H   == Hits(Position(c), f)
           k   == [e \in H |-> e.seq]
           out == Earliest(H, limit)
           nxt == NextSeq(out, limit)
<1>1. /\ lastSeq \in Nat /\ Position(c) \in Nat
      /\ IsFiniteSet(H) /\ \A d, e \in H : d.seq = e.seq => d = e
      /\ \A e \in H : e.seq \in Position(c) + 1 .. lastSeq
    BY HitsAreWanted DEF TypeOK, Position, CursorSet
<1> HIDE DEF H
<1>2. Keys(H, k, lastSeq)
    BY <1>1 DEF Keys
<1>3. out = First(H, k, limit)
    BY DEF Earliest, First, UpTo
<1> HIDE DEF k
<1>4. /\ out \subseteq H /\ IsFiniteSet(out) /\ Cardinality(out) \in Nat
      /\ \A e \in out, d \in H : k[d] <= k[e] => d \in out
      /\ Cardinality(out) <= limit
      /\ Cardinality(out) < limit => out = H
    BY <1>1, <1>2, <1>3, FirstOnes
<1> HIDE DEF out
<1>5. ASSUME Cardinality(out) = limit
      PROVE  /\ nxt \in Position(c) .. lastSeq
             /\ out = {e \in H : e.seq <= nxt}
    <2>1. out # {}
        BY <1>5, FS_EmptySet
    <2>2. PICK m \in out : \A d \in out : k[d] <= k[m]
        BY <1>1, <1>2, <1>4, <2>1, FirstAndLast
    <2>3. \A d \in out : d.seq <= m.seq
        BY <1>4, <2>2 DEF k
    <2>4. LastOf(out) \in out /\ \A d \in out : d.seq <= LastOf(out).seq
        BY <2>3 DEF LastOf
    <2>5. nxt = LastOf(out).seq
        BY <1>5 DEF NextSeq
    <2>6. \A e \in H : e.seq <= nxt => e \in out
        BY <1>4, <2>4, <2>5 DEF k
    <2> QED  BY <1>1, <1>4, <2>4, <2>5, <2>6
<1>6. ASSUME Cardinality(out) # limit
      PROVE  nxt = lastSeq /\ out = {e \in H : e.seq <= nxt}
    <2>1. Cardinality(out) < limit /\ nxt = lastSeq /\ out = H
        BY <1>4, <1>6 DEF NextSeq
    <2> QED  BY <1>1, <2>1
<1> HIDE DEF nxt
<1>7. /\ nxt \in Position(c) .. lastSeq
      /\ out = {e \in H : e.seq <= nxt}
      /\ Cardinality(out) <= limit
      /\ Cardinality(out) < limit => nxt = lastSeq
    BY <1>1, <1>4, <1>5, <1>6
<1> QED  BY <1>7 DEF H, out, nxt

(* What Since answers to a cursor that parse accepts.                      *)
LEMMA SinceAt ==
    ASSUME TypeOK, RingHoldsLatest, NEW c \in CursorSet, NEW f, NEW limit \in Nat \ {0},
           c.form # "empty", ~Parse(c).bad
    PROVE  LET p   == Since(c, f, limit)
               H   == Hits(Position(c), f)
           IN  /\ ~p.bad /\ p.gap = Parse(c).gap
               /\ p.next \in Position(c) .. lastSeq
               /\ p.events = {e \in H : e.seq <= p.next}
               /\ Cardinality(p.events) <= limit
               /\ Cardinality(p.events) < limit => p.next = lastSeq
<1> DEFINE H   == Hits(Position(c), f)
           out == Earliest(H, limit)
           nxt == NextSeq(out, limit)
<1>1. Parse(c).after = Position(c) /\ Position(c) \in 0 .. lastSeq /\ lastSeq \in Nat
    BY ParseType DEF TypeOK
<1>2. Since(c, f, limit) =
        [events |-> out, next |-> IF nxt < Position(c) THEN Position(c) ELSE nxt,
         gap |-> Parse(c).gap, bad |-> FALSE]
    BY <1>1 DEF Since
<1>3. /\ nxt \in Position(c) .. lastSeq
      /\ out = {e \in H : e.seq <= nxt}
      /\ Cardinality(out) <= limit
      /\ Cardinality(out) < limit => nxt = lastSeq
    BY <1>1, EarliestPage
<1> HIDE DEF H, out, nxt
<1>4. ~(nxt < Position(c))
    BY <1>1, <1>3
<1> QED  BY <1>2, <1>3, <1>4 DEF H

(* Pages tell all: the page of a cursor, whatever its filter and limit.    *)
LEMMA PageIsComplete ==
    ASSUME TypeOK, RingHoldsLatest, NEW c \in CursorSet, NEW f, NEW limit \in Nat \ {0}
    PROVE  PageComplete(c, f, limit)
<1> SUFFICES ASSUME c.form = "at", ~Since(c, f, limit).bad
             PROVE  LET p == Since(c, f, limit)
                    IN  /\ p.events = {Stored(s) : s \in {s \in Wanted(c, f) : s <= p.next}}
                        /\ Cardinality(p.events) <= limit
                        /\ p.next \in Position(c) .. Published
                        /\ Cardinality(p.events) < limit => p.next = Published
    BY DEF PageComplete
<1> DEFINE p == Since(c, f, limit)
           H == Hits(Position(c), f)
<1>1. ~Parse(c).bad
    BY DEF Since
<1>2. /\ p.next \in Position(c) .. lastSeq
      /\ p.events = {e \in H : e.seq <= p.next}
      /\ Cardinality(p.events) <= limit
      /\ Cardinality(p.events) < limit => p.next = lastSeq
    BY <1>1, SinceAt
<1>3. H = {Stored(s) : s \in Wanted(c, f)} /\ \A s : Stored(s).seq = s
    BY HitsAreWanted DEF Stored
<1> HIDE DEF p, H
<1>4. p.events = {Stored(s) : s \in {s \in Wanted(c, f) : s <= p.next}}
    BY <1>2, <1>3
<1> QED  BY <1>2, <1>4 DEF p, RingHoldsLatest

(* A set of events that differ in seq has as many seqs. *)
LEMMA SeqsAsMany ==
    ASSUME NEW S, IsFiniteSet(S), \A d, e \in S : d.seq = e.seq => d = e
    PROVE  /\ IsFiniteSet({e.seq : e \in S})
           /\ Cardinality({e.seq : e \in S}) = Cardinality(S)
<1> DEFINE T == {e.seq : e \in S}
           b == [e \in S |-> e.seq]
<1>1. b \in [S -> T] /\ \A t \in T : \E x \in S : b[x] = t
    OBVIOUS
<1>2. \A x, y \in S : b[x] = b[y] => x = y
    OBVIOUS
<1> HIDE DEF b, T
<1>3. ExistsBijection(S, T)
    BY <1>1, <1>2 DEF ExistsBijection, Bijection, Injection, Surjection, IsInjective
<1> QED  BY <1>3, FS_Bijection DEF T

(* The page without a cursor: the latest wanted events, as many as fit.    *)
LEMMA PageIsLatest ==
    ASSUME TypeOK, RingHoldsLatest, NEW f, NEW limit \in Nat \ {0}
    PROVE  PageLatest(f, limit)
<1> DEFINE H    == Hits(0, f)
           k    == [e \in H |-> lastSeq - e.seq]
           out  == Latest(H, limit)
           want == Wanted(EmptyCursor, f)
           got  == {e.seq : e \in out}
<1>1. Position(EmptyCursor) = 0 /\ EmptyCursor \in CursorSet /\ EmptyCursor.form = "empty"
    BY DEF Position, EmptyCursor, CursorSet
<1>2. /\ lastSeq \in Nat /\ lastSeq = Published
      /\ H = {Stored(s) : s \in want}
      /\ IsFiniteSet(H) /\ \A d, e \in H : d.seq = e.seq => d = e
      /\ \A e \in H : e.seq \in 1 .. lastSeq /\ e.seq \in want
    BY <1>1, HitsAreWanted DEF TypeOK, RingHoldsLatest
<1>3. \A s : Stored(s).seq = s
    BY DEF Stored
<1> HIDE DEF H, want
<1>4. Keys(H, k, lastSeq)
    BY <1>2 DEF Keys
<1>5. out = First(H, k, limit)
    <2>1. \A d, e \in H : d.seq >= e.seq <=> k[d] <= k[e]
        BY <1>2
    <2> HIDE DEF k
    <2> QED  BY <2>1 DEF Latest, First, UpTo
<1> HIDE DEF k, out
<1>6. /\ out \subseteq H /\ IsFiniteSet(out) /\ Cardinality(out) \in Nat
      /\ \A e \in out, d \in H : k[d] <= k[e] => d \in out
      /\ Cardinality(out) <= limit
      /\ Cardinality(out) < limit => out = H
    <2> HIDE DEF got
    <2> QED  BY <1>2, <1>4, <1>5, FirstOnes
<1>7. /\ IsFiniteSet(got) /\ Cardinality(got) = Cardinality(out)
    BY <1>2, <1>6, SeqsAsMany
<1>8. IsFiniteSet(want) /\ Cardinality(want) = Cardinality(H) /\ Cardinality(H) \in Nat
    <2>1. want = {e.seq : e \in H}
        BY <1>2, <1>3
    <2> QED  BY <1>2, <2>1, SeqsAsMany, FS_CardinalityType
<1>9. Cardinality(got) = IF Cardinality(want) < limit THEN Cardinality(want) ELSE limit
    <2>1. Cardinality(out) <= Cardinality(H)
        BY <1>2, <1>6, FS_Subset
    <2> QED  BY <1>6, <1>7, <1>8, <2>1
<1>10. got \subseteq want
    BY <1>2, <1>6
<1>11. ASSUME NEW s \in want \ got, NEW t \in got
       PROVE  s < t
    <2>1. PICK e \in out : t = e.seq
        OBVIOUS
    <2>2. Stored(s) \in H /\ Stored(s) \notin out
        BY <1>2, <1>3
    <2>3. ~(k[Stored(s)] <= k[e])
        BY <1>6, <2>2
    <2>4. k[Stored(s)] = lastSeq - s /\ k[e] = lastSeq - t
        BY <1>3, <1>6, <2>1, <2>2 DEF k
    <2>5. s \in Nat /\ t \in Nat
        BY <1>2, <1>3, <1>6, <2>1, <2>2
    <2> QED  BY <1>2, <2>3, <2>4, <2>5
<1>12. Since(EmptyCursor, f, limit) =
          [events |-> out, next |-> lastSeq, gap |-> FALSE, bad |-> FALSE]
    BY <1>1 DEF Since, out, H
<1> HIDE DEF got
<1>13. Since(EmptyCursor, f, limit).next = Published /\ Since(EmptyCursor, f, limit).events = out
    BY <1>2, <1>12
<1> QED  BY <1>9, <1>10, <1>11, <1>13 DEF PageLatest, got, want

(* A gap is told exactly when an event after the cursor is gone.           *)
LEMMA GapIsExact ==
    ASSUME TypeOK, RingHoldsLatest, NEW c \in CursorSet, c.form = "at"
    PROVE  GapExact(c)
<1> SUFFICES ASSUME ~Parse(c).bad
             PROVE  Parse(c).gap <=> c.boot # bootID \/ \E s \in Evicted : s > Position(c)
    BY DEF GapExact
<1>1. /\ lastSeq \in Nat /\ lastSeq = Published /\ Size \in Nat \ {0} /\ c.seq \in Nat
    BY SizeAssumption DEF TypeOK, RingHoldsLatest, CursorSet
<1>2. CASE c.boot # bootID
    BY <1>2 DEF Parse
<1>3. CASE c.boot = bootID
    <2>1. (Parse(c).gap <=> c.seq + 1 < Oldest) /\ Position(c) = c.seq
        BY <1>3 DEF Parse, Position
    <2>2. Oldest = IF Published < Size THEN 1 ELSE Published - Size + 1
        BY <1>1, OldestIs DEF RingHoldsLatest
    <2>3. c.seq + 1 < Oldest => c.seq + 1 \in Evicted /\ c.seq + 1 > c.seq
        BY <1>1, <2>2 DEF Evicted
    <2>4. ASSUME NEW s \in Evicted, s > c.seq
          PROVE  c.seq + 1 < Oldest
        BY <1>1, <2>2, <2>4 DEF Evicted
    <2> QED  BY <1>3, <2>1, <2>3, <2>4
<1> QED  BY <1>2, <1>3

(* All of it, for every cursor, filter and page size: in the words of the  *)
(* runs, and without their restriction to a buffer nobody has asked yet.   *)
EveryPage ==
    /\ \A c \in CursorSet, f \in Filters, limit \in Nat \ {0} : PageComplete(c, f, limit)
    /\ \A f \in Filters, limit \in Nat \ {0} : PageLatest(f, limit)
    /\ \A c \in CursorSet : c.form = "at" => GapExact(c)

LEMMA PagesTell == TypeOK /\ RingHoldsLatest => EveryPage
BY PageIsComplete, PageIsLatest, GapIsExact DEF EveryPage

LEMMA EveryPageTells == EveryPage => PagesTellAll
<1> SUFFICES ASSUME EveryPage PROVE PagesComplete /\ PagesLatest /\ GapsExact
    BY DEF PagesTellAll
<1>1. \A c \in Cursors : c \in CursorSet
    BY CursorAssumption
<1>2. \A n \in Limits : n \in Nat \ {0}
    BY LimitsAssumption
<1>3. ASSUME NEW c \in Cursors, NEW f \in Filters, NEW n \in Limits
      PROVE  PageComplete(c, f, n)
    BY <1>1, <1>2 DEF EveryPage
<1>4. ASSUME NEW f \in Filters, NEW n \in Limits
      PROVE  PageLatest(f, n)
    BY <1>2 DEF EveryPage
<1>5. ASSUME NEW c \in Cursors, c.form = "at"
      PROVE  GapExact(c)
    BY <1>1, <1>5 DEF EveryPage
<1> QED  BY <1>3, <1>4, <1>5 DEF PagesComplete, PagesLatest, GapsExact

-----------------------------------------------------------------------------
(* The buffer under the clients.  Beside the steps of EventBuffer there    *)
(* are the calls with the clients' own cursors, the locals of a wait that  *)
(* is over, and the buffer of the next process.                            *)
BufInv == Basic /\ WaitInv /\ AnswerInv

ClientTypes ==
    /\ bootID \in Nat \ {0}
    /\ past \in Seq(Seq(Payloads)) /\ Len(past) = bootID - 1
    /\ stage \in [Waiters -> {"idle", "waiting", "answered"}]
    /\ wants \in [Waiters -> Filters]
    /\ hold \in [Waiters -> CursorSet] /\ since \in [Waiters -> CursorSet]
    /\ reply \in [Waiters -> [err: {"none", "closing", "cancelled", "bad_cursor"},
                              events: SUBSET Nat, next: CursorSet, gap: BOOLEAN]]
    /\ ended \in [Waiters -> {"no", "deadline", "cancel"}]
    /\ gone \in [Waiters -> BOOLEAN]
    /\ have \in [Waiters -> SUBSET (Nat \X Nat)] /\ missed \in [Waiters -> SUBSET (Nat \X Nat)]

(* A waiter that is idle has nothing to answer for. *)
Rests(w) ==
    /\ pc[w] = "idle" /\ gap[w] = FALSE
    /\ cursor[w] = EmptyCursor /\ asked[w] = EmptyCursor /\ filter[w] = NoFilter
    /\ result[w] = [event |-> NoEvent, err |-> "none"] /\ ch[w] = 0

(* The reply of a wait leaves the buffer alone. *)
LEMMA ForgetKeepsBuffer ==
    ASSUME BufInv, NEW w \in Waiters, Forget(w), UNCHANGED bufVars
    PROVE  BufInv'
<1>1. NoEvent \in Event /\ EmptyCursor \in CursorSet
    BY DEF NoEvent, Event, EmptyCursor, CursorSet
<1>2. TypeOK /\ TypeOK'
    BY <1>1 DEF BufInv, Basic, TypeOK, Forget, bufVars, Errors
<1>3. CursorRead'
    BY <1>2 DEF BufInv, Basic, CursorRead, TypeOK, Forget
<1>4. Rests(w)'
    BY <1>2 DEF Rests, TypeOK, Forget
<1>5. ASSUME NEW v \in Waiters
      PROVE  WaiterOK(v)' /\ AnswerOK(v)'
    <2>1. CASE v = w
        <3>1. WaiterOK(w)' /\ AnswerOK(w)'
            BY <1>4 DEF Rests, WaiterOK, Asleep, Empty, Place, Passed, AnswerOK, Returned,
                        Justified, Usable, Origin
        <3> QED  BY <2>1, <3>1
    <2>2. CASE v # w
        <3>1. /\ pc'[v] = pc[v] /\ cursor'[v] = cursor[v] /\ filter'[v] = filter[v]
              /\ gap'[v] = gap[v] /\ ch'[v] = ch[v] /\ result'[v] = result[v]
              /\ asked'[v] = asked[v]
            BY <1>2, <2>2 DEF Forget, TypeOK
        <3> QED  BY <3>1, OthersUndisturbed, AnswerUndisturbed DEF BufInv
    <2> QED  BY <2>1, <2>2
<1> QED  BY <1>2, <1>3, <1>5, WaiterKeepsRing, ChannelsKept DEF BufInv, Basic, WaitInv, AnswerInv

(* The next process begins with a buffer as Init makes it. *)
LEMMA RestartKeepsBuffer ==
    ASSUME BufInv, Restart
    PROVE  BufInv'
<1>1. NoEvent \in Event /\ EmptyCursor \in CursorSet /\ 0 \in Slots
    BY SizeAssumption DEF NoEvent, Event, EmptyCursor, CursorSet, Slots
<1>2. TypeOK'
    <2>1. /\ bootID' \in Nat /\ ring' \in [Slots -> Event] /\ start' \in Slots
          /\ count' \in 0 .. Size /\ lastSeq' \in Nat /\ changed' \in Nat
          /\ closedChans' \subseteq Nat /\ closed' \in BOOLEAN
          /\ history' \in Seq(Payloads)
        <3>1. bootID \in Nat
            BY DEF BufInv, Basic, TypeOK
        <3>2. /\ ring' = [i \in Slots |-> NoEvent] /\ bootID' = bootID + 1 /\ history' = <<>>
              /\ start' = 0 /\ count' = 0 /\ lastSeq' = 0 /\ changed' = 0
              /\ closedChans' = {} /\ closed' = FALSE
            BY DEF Restart
        <3>3. ring' \in [Slots -> Event]
            BY <1>1, <3>2
        <3>4. history' \in Seq(Payloads)
            BY <3>2
        <3>5. closedChans' \subseteq Nat /\ closed' \in BOOLEAN
            BY <3>2
        <3> QED  BY <1>1, <3>1, <3>2, <3>3, <3>4, <3>5, SizeAssumption
    <2>2. /\ pc' \in [Waiters -> {"idle", "start", "scan", "select", "returned"}]
          /\ cursor' \in [Waiters -> CursorSet]
          /\ filter' \in [Waiters -> Filters \cup {NoFilter}]
          /\ gap' \in [Waiters -> BOOLEAN]
          /\ ch' \in [Waiters -> Nat]
          /\ asked' \in [Waiters -> CursorSet]
        BY <1>1 DEF Restart
    <2>3. result' \in [Waiters -> [event: Event, err: Errors]]
        BY <1>1 DEF Restart, Errors
    <2> QED  BY <2>1, <2>2, <2>3 DEF TypeOK
<1>3. RingHoldsLatest' /\ CursorRead'
    BY SizeAssumption DEF Restart, RingHoldsLatest, Published, CursorRead
<1>4. ChannelsClosed'
    BY DEF Restart, ChannelsClosed
<1>5. ASSUME NEW w \in Waiters
      PROVE  WaiterOK(w)' /\ AnswerOK(w)'
    <2>1. Rests(w)'
        BY DEF Restart, Rests
    <2> QED  BY <2>1 DEF Rests, WaiterOK, Asleep, Empty, Place, Passed, AnswerOK, Returned,
                         Justified, Usable, Origin
<1> QED  BY <1>2, <1>3, <1>4, <1>5 DEF BufInv, Basic, WaitInv, AnswerInv

(* A step of a client is one of these: the buffer's own, or one that only  *)
(* the clients see.                                                        *)
LEMMA BufferStep ==
    ASSUME BufInv, ClientTypes, [FollowNext]_allVars
    PROVE  BufInv'
<1>1. ASSUME [Next \/ AnyCall]_vars
      PROVE  BufInv'
    BY <1>1, BasicStep, WaitInvStep, AnswerInvStep DEF BufInv
<1>2. CASE Restart
    BY <1>2, RestartKeepsBuffer
<1>3. ASSUME NEW w \in Waiters, WaitForMessage(w)
      PROVE  AnyCall
    <2>1. hold[w] \in CursorSet /\ wants[w] \in Filters
        BY DEF ClientTypes
    <2> QED  BY <1>3, <2>1 DEF AnyCall, WaitForMessage
<1>4. ASSUME NEW w \in Waiters, Reply(w)
      PROVE  BufInv'
    BY <1>4, ForgetKeepsBuffer DEF Reply
<1>5. ASSUME NEW w \in Waiters, ReadCursor(w) \/ Scan(w) \/ Woken(w) \/ WaitEnded(w)
      PROVE  Next
    BY <1>5 DEF Next, WaitEnded
<1>6. ASSUME Close \/ \E b \in Payloads : AppendEvent(b)
      PROVE  Next
    BY <1>6 DEF Next
<1>7. ASSUME NEW w \in Waiters,
             \/ Deadline(w) \/ Leave(w) \/ Accept(w) \/ LoseReply(w)
             \/ \E n \in Limits : PollEvents(w, n)
      PROVE  UNCHANGED vars
    BY <1>7 DEF Deadline, Leave, Accept, LoseReply, PollEvents
<1>8. CASE UNCHANGED allVars
    BY <1>1, <1>8 DEF allVars
<1> QED  BY <1>1, <1>2, <1>3, <1>4, <1>5, <1>6, <1>7, <1>8 DEF FollowNext, Ask

-----------------------------------------------------------------------------
(* The log over all processes only grows: the entries there are stay, the  *)
(* log of an earlier process is complete, and what was evicted stays so    *)
(* while its process lives.                                                *)
LogGrows ==
    /\ bootID' \in {bootID, bootID + 1}
    /\ \A b \in 1 .. bootID :
        /\ Len(LogOf(b)) \in Nat /\ Len(LogOf(b))' \in Nat
        /\ Len(LogOf(b)) <= Len(LogOf(b))'
        /\ b # bootID \/ bootID' # bootID => LogOf(b)' = LogOf(b)
        /\ \A s \in 1 .. Len(LogOf(b)) : LogOf(b)[s]' = LogOf(b)[s]
    /\ bootID' = bootID => Evicted \subseteq Evicted'

(* What a process has published is counted by a number. *)
LEMMA LogLength ==
    ASSUME ClientTypes, TypeOK, NEW b \in 1 .. bootID
    PROVE  LogOf(b) \in Seq(Payloads) /\ Len(LogOf(b)) \in Nat
<1>1. CASE b = bootID
    BY <1>1 DEF LogOf, TypeOK
<1>2. CASE b # bootID
    <2>1. b \in 1 .. Len(past)
        BY <1>2 DEF ClientTypes
    <2> QED  BY <1>2, <2>1 DEF LogOf, ClientTypes
<1> QED  BY <1>1, <1>2

(* A step that leaves the log alone. *)
LEMMA LogStays ==
    ASSUME ClientTypes, TypeOK, UNCHANGED <<bootID, history, past>>
    PROVE  LogGrows
BY LogLength DEF LogGrows, LogOf, Evicted, Published

LEMMA AppendGrowsLog ==
    ASSUME ClientTypes, BufInv, NEW b \in Payloads, AppendEvent(b), UNCHANGED past
    PROVE  LogGrows
<1>1. /\ TypeOK /\ history \in Seq(Payloads) /\ bootID \in Nat \ {0} /\ bootID' = bootID
      /\ history' = Append(history, b) /\ Size \in Nat
    BY SizeAssumption DEF BufInv, Basic, TypeOK, ClientTypes, AppendEvent
<1>2. /\ Len(history) \in Nat /\ Len(history') = Len(history) + 1
      /\ \A s \in 1 .. Len(history) : history'[s] = history[s]
    BY <1>1
<1>3. Evicted \subseteq Evicted'
    BY <1>1, <1>2 DEF Evicted, Published
<1>4. ASSUME NEW n \in 1 .. bootID
      PROVE  /\ Len(LogOf(n)) \in Nat /\ Len(LogOf(n))' \in Nat
             /\ Len(LogOf(n)) <= Len(LogOf(n))'
             /\ n # bootID => LogOf(n)' = LogOf(n)
             /\ \A s \in 1 .. Len(LogOf(n)) : LogOf(n)[s]' = LogOf(n)[s]
    <2>1. Len(LogOf(n)) \in Nat
        BY <1>1, LogLength
    <2>2. CASE n = bootID
        BY <1>1, <1>2, <2>2 DEF LogOf
    <2>3. CASE n # bootID
        BY <1>1, <2>1, <2>3 DEF LogOf
    <2> QED  BY <2>1, <2>2, <2>3
<1> QED  BY <1>1, <1>3, <1>4 DEF LogGrows

LEMMA RestartGrowsLog ==
    ASSUME ClientTypes, TypeOK, Restart
    PROVE  LogGrows
<1>1. /\ bootID \in Nat \ {0} /\ bootID' = bootID + 1
      /\ past \in Seq(Seq(Payloads)) /\ Len(past) = bootID - 1
      /\ history \in Seq(Payloads) /\ past' = Append(past, history)
    BY DEF ClientTypes, TypeOK, Restart
<1>2. past'[bootID] = history /\ \A b \in 1 .. bootID - 1 : past'[b] = past[b]
    BY <1>1
<1>3. ASSUME NEW b \in 1 .. bootID
      PROVE  LogOf(b)' = LogOf(b) /\ Len(LogOf(b)) \in Nat
    BY <1>1, <1>2, LogLength DEF LogOf
<1> QED  BY <1>1, <1>3 DEF LogGrows

LEMMA StepGrowsLog ==
    ASSUME ClientTypes, BufInv, [FollowNext]_allVars
    PROVE  LogGrows
<1>1. TypeOK
    BY DEF BufInv, Basic
<1>2. ASSUME NEW w \in Waiters,
             \/ Ask(w) \/ Deadline(w) \/ Leave(w) \/ WaitEnded(w) \/ Reply(w)
             \/ (ReadCursor(w) \/ Scan(w) \/ Woken(w)) /\ UNCHANGED toolVars
             \/ Accept(w) \/ LoseReply(w)
      PROVE  UNCHANGED <<bootID, history, past>>
    <2>1. CASE Ask(w)
        BY <2>1 DEF Ask, WaitForMessage, PollEvents, CallWait, vars, bufVars
    <2>2. CASE Deadline(w) \/ Leave(w) \/ Accept(w) \/ LoseReply(w) \/ Reply(w)
        BY <2>2 DEF Deadline, Leave, Accept, LoseReply, Reply, vars, bufVars
    <2>3. CASE WaitEnded(w)
        BY <2>3 DEF WaitEnded, ContextDone, Return, bufVars, toolVars
    <2>4. CASE (ReadCursor(w) \/ Scan(w) \/ Woken(w)) /\ UNCHANGED toolVars
        BY <2>4 DEF ReadCursor, Scan, ScanClosed, ScanRefused, ScanHit, ScanMiss, Woken,
                    Return, bufVars, toolVars
    <2> QED  BY <1>2, <2>1, <2>2, <2>3, <2>4
<1>3. ASSUME (Close /\ UNCHANGED toolVars) \/ UNCHANGED allVars
      PROVE  UNCHANGED <<bootID, history, past>>
    BY <1>3 DEF Close, toolVars, allVars, vars, bufVars
<1>4. CASE Restart
    BY <1>1, <1>4, RestartGrowsLog
<1>5. ASSUME NEW b \in Payloads, AppendEvent(b), UNCHANGED toolVars
      PROVE  LogGrows
    BY <1>5, AppendGrowsLog DEF toolVars
<1> QED  BY <1>1, <1>2, <1>3, <1>4, <1>5, LogStays DEF FollowNext

-----------------------------------------------------------------------------
(* The types of the clients.                                               *)

(* Whatever a client sends, a page has a type. *)
LEMMA PageTyped ==
    ASSUME TypeOK, RingHoldsLatest, NEW c \in CursorSet, NEW f, NEW limit \in Nat \ {0}
    PROVE  LET p == Since(c, f, limit)
           IN  /\ {e.seq : e \in p.events} \subseteq Nat
               /\ p.next \in Nat /\ p.gap \in BOOLEAN
<1> DEFINE p == Since(c, f, limit)
<1>1. /\ lastSeq \in Nat /\ Position(c) \in Nat /\ EmptyCursor \in CursorSet
      /\ Position(EmptyCursor) = 0
    BY DEF TypeOK, Position, CursorSet, EmptyCursor
<1>2. \A d \in CursorSet : \A e \in Hits(Position(d), f) : e.seq \in Nat
    BY SeqIdentifies DEF Hits, Published, TypeOK
<1>3. CASE c.form = "empty"
    <2>1. p = [events |-> Latest(Hits(0, f), limit), next |-> lastSeq,
               gap |-> FALSE, bad |-> FALSE]
        BY <1>3 DEF Since
    <2>2. Latest(Hits(0, f), limit) \subseteq Hits(0, f)
        BY DEF Latest
    <2> QED  BY <1>1, <1>2, <2>1, <2>2
<1>4. CASE c.form # "empty" /\ Parse(c).bad
    <2>1. p = [events |-> {}, next |-> 0, gap |-> FALSE, bad |-> TRUE]
        BY <1>4 DEF Since
    <2> QED  BY <2>1
<1>5. CASE c.form # "empty" /\ ~Parse(c).bad
    <2>1. /\ p.gap = Parse(c).gap /\ p.next \in Position(c) .. lastSeq
          /\ p.events \subseteq Hits(Position(c), f)
        BY <1>5, SinceAt
    <2> QED  BY <1>1, <1>2, <2>1, ParseType
<1> QED  BY <1>3, <1>4, <1>5

(* The five outcomes of the switch on the error of Wait. *)
LEMMA ErrIs ==
    ASSUME NEW w, result[w].err \in Errors
    PROVE  /\ Err(w) \in {"none", "closing", "cancelled", "bad_cursor"}
           /\ Err(w) = "none" => \/ result[w].err = "none"
                                 \/ result[w].err = "context"
           /\ Err(w) = "closing" => result[w].err = "closed"
           /\ Err(w) = "bad_cursor" => result[w].err = "bad_cursor"
           /\ Err(w) = "cancelled" => /\ result[w].err = "context"
                                      /\ ended[w] # "deadline" \/ gone[w]
<1>1. CASE result[w].err = "none"
    BY <1>1 DEF Err
<1>2. CASE result[w].err = "context" /\ ended[w] = "deadline" /\ ~gone[w]
    BY <1>2 DEF Err
<1>3. CASE result[w].err = "context" /\ ~(ended[w] = "deadline" /\ ~gone[w])
    BY <1>3 DEF Err
<1>4. CASE result[w].err = "closed"
    BY <1>4 DEF Err
<1>5. CASE result[w].err = "bad_cursor"
    BY <1>5 DEF Err
<1> QED  BY <1>1, <1>2, <1>3, <1>4, <1>5 DEF Errors

LEMMA ClientTypesStep ==
    ASSUME ClientTypes, BufInv, [FollowNext]_allVars
    PROVE  ClientTypes'
<1>1. TypeOK /\ RingHoldsLatest /\ history \in Seq(Payloads) /\ EmptyCursor \in CursorSet
    BY DEF BufInv, Basic, TypeOK, EmptyCursor, CursorSet
<1>2. NoReply \in [err: {"none", "closing", "cancelled", "bad_cursor"},
                   events: SUBSET Nat, next: CursorSet, gap: BOOLEAN]
    BY <1>1 DEF NoReply
<1>3. CASE Restart
    <2>1. /\ bootID' \in Nat \ {0} /\ past' \in Seq(Seq(Payloads)) /\ Len(past') = bootID' - 1
        BY <1>1, <1>3 DEF ClientTypes, Restart
    <2> QED  BY <1>2, <1>3, <2>1 DEF ClientTypes, Restart
<1>4. ASSUME UNCHANGED toolVars, bootID' = bootID
      PROVE  ClientTypes'
    BY <1>4 DEF ClientTypes, toolVars, clientVars
<1>5. ASSUME NEW w \in Waiters, NEW n \in Limits, PollEvents(w, n)
      PROVE  ClientTypes'
    <2> DEFINE p == Since(hold[w], wants[w], n)
               r == [err |-> IF p.bad THEN "bad_cursor" ELSE "none",
                     events |-> {e.seq : e \in p.events},
                     next |-> Cursor(p.next), gap |-> p.gap]
    <2>1. hold[w] \in CursorSet /\ n \in Nat \ {0}
        BY LimitsAssumption DEF ClientTypes
    <2>2. /\ {e.seq : e \in p.events} \subseteq Nat
          /\ p.next \in Nat /\ p.gap \in BOOLEAN
        BY <1>1, <2>1, PageTyped
    <2>3. reply' = [reply EXCEPT ![w] = r] /\ stage' = [stage EXCEPT ![w] = "answered"]
          /\ UNCHANGED <<bootID, past, wants, hold, ended, gone, since, have, missed>>
        BY <1>5 DEF PollEvents, vars, bufVars
    <2> HIDE DEF p
    <2>4. r \in [err: {"none", "closing", "cancelled", "bad_cursor"},
                 events: SUBSET Nat, next: CursorSet, gap: BOOLEAN]
        BY <2>2 DEF Cursor, CursorSet, ClientTypes
    <2> HIDE DEF r
    <2> QED  BY <2>3, <2>4 DEF ClientTypes
<1>6. ASSUME NEW w \in Waiters, WaitForMessage(w)
      PROVE  ClientTypes'
    BY <1>6 DEF ClientTypes, WaitForMessage, CallWait, bufVars
<1>7. ASSUME NEW w \in Waiters, Deadline(w) \/ Leave(w)
      PROVE  ClientTypes'
    BY <1>7 DEF ClientTypes, Deadline, Leave, vars, bufVars
<1>8. ASSUME NEW w \in Waiters, Reply(w)
      PROVE  ClientTypes'
    <2> DEFINE r == [err |-> Err(w), events |-> {result[w].event.seq} \ {0},
                     next |-> cursor[w], gap |-> gap[w]]
    <2>1. /\ result[w].err \in Errors /\ result[w].event.seq \in Nat
          /\ cursor[w] \in CursorSet /\ gap[w] \in BOOLEAN
        BY <1>1 DEF TypeOK, Event
    <2>2. Err(w) \in {"none", "closing", "cancelled", "bad_cursor"}
        BY <2>1, ErrIs
    <2>3. r \in [err: {"none", "closing", "cancelled", "bad_cursor"},
                 events: SUBSET Nat, next: CursorSet, gap: BOOLEAN]
        BY <2>1, <2>2
    <2>4. reply' = [reply EXCEPT ![w] = r] /\ stage' = [stage EXCEPT ![w] = "answered"]
          /\ UNCHANGED <<bootID, past, wants, hold, ended, gone, since, have, missed>>
        BY <1>8 DEF Reply, bufVars
    <2> HIDE DEF r
    <2> QED  BY <2>3, <2>4 DEF ClientTypes
<1>9. ASSUME NEW w \in Waiters, Over(w)
      PROVE  /\ stage' \in [Waiters -> {"idle", "waiting", "answered"}]
             /\ reply' \in [Waiters -> [err: {"none", "closing", "cancelled", "bad_cursor"},
                              events: SUBSET Nat, next: CursorSet, gap: BOOLEAN]]
             /\ ended' \in [Waiters -> {"no", "deadline", "cancel"}]
             /\ gone' \in [Waiters -> BOOLEAN]
    BY <1>2, <1>9 DEF Over, ClientTypes
<1>10. ASSUME NEW w \in Waiters, LoseReply(w)
       PROVE  ClientTypes'
    BY <1>9, <1>10 DEF LoseReply, ClientTypes, vars, bufVars
<1>11. ASSUME NEW w \in Waiters, Accept(w)
       PROVE  ClientTypes'
    <2> DEFINE r == reply[w]
               got == {<<r.next.boot, s>> : s \in r.events}
    <2>1. /\ r.next \in CursorSet /\ r.events \subseteq Nat /\ r.next.boot \in Nat
          /\ hold[w] \in CursorSet /\ hold[w].boot \in Nat
        BY DEF ClientTypes, CursorSet
    <2>2. got \subseteq Nat \X Nat
        BY <2>1
    <2>3. Between(hold[w], r.next) \subseteq Nat \X Nat
        BY <2>1 DEF Between
    <2>4. /\ hold' = hold \/ hold' = [hold EXCEPT ![w] = r.next]
          /\ \/ since' = since
             \/ since' = [since EXCEPT ![w] = IF hold[w] = EmptyCursor THEN r.next ELSE @]
          /\ have' = have \/ have' = [have EXCEPT ![w] = @ \cup got]
          /\ \/ missed' = missed
             \/ missed' = [missed EXCEPT ![w] =
                             @ \cup ({e \in Between(hold[w], r.next) : Wants(w, e)} \ got)]
          /\ UNCHANGED <<bootID, past, wants>> /\ Over(w)
        BY <1>11 DEF Accept, vars, bufVars
    <2> HIDE DEF got, r
    <2>5. hold' \in [Waiters -> CursorSet] /\ since' \in [Waiters -> CursorSet]
        <3>1. hold \in [Waiters -> CursorSet] /\ since \in [Waiters -> CursorSet]
            BY DEF ClientTypes
        <3>2. (IF hold[w] = EmptyCursor THEN r.next ELSE since[w]) \in CursorSet
            BY <2>1, <3>1
        <3>3. hold' \in [Waiters -> CursorSet]
            BY <2>1, <2>4, <3>1
        <3>4. since' \in [Waiters -> CursorSet]
            BY <2>4, <3>1, <3>2
        <3> QED  BY <3>3, <3>4
    <2>6. /\ have' \in [Waiters -> SUBSET (Nat \X Nat)]
          /\ missed' \in [Waiters -> SUBSET (Nat \X Nat)]
        <3> DEFINE new == {e \in Between(hold[w], r.next) : Wants(w, e)} \ got
        <3>1. new \subseteq Nat \X Nat
            BY <2>3 DEF r
        <3>2. /\ have' = have \/ have' = [have EXCEPT ![w] = @ \cup got]
              /\ missed' = missed \/ missed' = [missed EXCEPT ![w] = @ \cup new]
            BY <2>4
        <3>3. /\ have \in [Waiters -> SUBSET (Nat \X Nat)]
              /\ missed \in [Waiters -> SUBSET (Nat \X Nat)]
            BY DEF ClientTypes
        <3> HIDE DEF new
        <3> QED  BY <2>2, <3>1, <3>2, <3>3
    <2> QED  BY <1>9, <2>4, <2>5, <2>6 DEF ClientTypes
<1>12. ASSUME NEW w \in Waiters,
              WaitEnded(w) \/ ((ReadCursor(w) \/ Scan(w) \/ Woken(w)) /\ UNCHANGED toolVars)
       PROVE  UNCHANGED toolVars /\ bootID' = bootID
    BY <1>12 DEF WaitEnded, ContextDone, ReadCursor, Scan, ScanClosed, ScanRefused, ScanHit,
                 ScanMiss, Woken, Return, bufVars
<1>13. ASSUME \/ (Close \/ \E b \in Payloads : AppendEvent(b)) /\ UNCHANGED toolVars
              \/ UNCHANGED allVars
       PROVE  UNCHANGED toolVars /\ bootID' = bootID
    BY <1>13 DEF Close, AppendEvent, allVars, vars, bufVars
<1> QED  BY <1>3, <1>4, <1>5, <1>6, <1>7, <1>8, <1>10, <1>11, <1>12, <1>13 DEF FollowNext, Ask

-----------------------------------------------------------------------------
(* The invariant of the clients, in four parts.                            *)

(* A client holds no cursor or one that a buffer has handed out. *)
InLog(c)  == c.form = "at" /\ c.boot \in 1 .. bootID /\ c.seq <= Len(LogOf(c.boot))
HoldOK(w) == hold[w] = EmptyCursor \/ InLog(hold[w])

(* A wait that has begun with a cursor of an earlier process knows of a    *)
(* gap once its cursor is of this one, and a matching event it has passed  *)
(* over is gone.                                                           *)
Told(w) ==
    pc[w] \in {"scan", "select", "returned"} =>
        /\ asked[w].boot # bootID /\ cursor[w].boot = bootID => gap[w]
        /\ \A s \in Position(asked[w]) + 1 .. Position(cursor[w]) :
              Match(filter[w], history[s]) => s = result[w].event.seq \/ s \in Evicted

(* A wait asks what its client asks, after a cursor the buffer accepts. *)
Asks(w) ==
    /\ stage[w] = "waiting" <=> pc[w] # "idle"
    /\ pc[w] # "idle" => filter[w] = wants[w]
    /\ pc[w] = "start" => hold[w] = EmptyCursor
    /\ pc[w] \in {"scan", "select", "returned"} =>
          /\ asked[w].form = "at"
          /\ asked[w].boot = bootID => asked[w].seq <= lastSeq
          /\ hold[w] # EmptyCursor => asked[w] = hold[w]

(* A wait ends for one of its reasons. *)
Ends(w) ==
    /\ pc[w] = "idle" => result[w].err = "none"
    /\ result[w].err = "context" => ended[w] # "no"
    /\ result[w].err = "closed" => closed
    /\ result[w].err # "bad_cursor"
    /\ ended[w] = "cancel" => gone[w]

WaitOK(w) == Told(w) /\ Asks(w) /\ Ends(w)

(* A good reply goes on from the client's cursor, holds what it wants, and *)
(* leaves out only what is gone, and then says so.                         *)
Good(w, r) ==
    /\ r.next.form = "at" /\ r.next.boot = bootID
    /\ Position(hold[w]) <= r.next.seq /\ r.next.seq <= lastSeq
    /\ \A s \in r.events : /\ s \in Position(hold[w]) + 1 .. r.next.seq
                           /\ Match(wants[w], history[s])
    /\ hold[w] # EmptyCursor =>
          /\ \A s \in Position(hold[w]) + 1 .. r.next.seq :
                Match(wants[w], history[s]) => s \in r.events \/ (r.gap /\ s \in Evicted)
          /\ hold[w].boot # bootID => r.gap

ReplyOK(w) ==
    stage[w] = "answered" =>
        \/ reply[w].err = "none" /\ Good(w, reply[w])
        \/ reply[w].err = "closing" /\ closed
        \/ reply[w].err = "cancelled" /\ gone[w]

(* What a client got and what it was told it may have missed. *)
FollowOK(w) ==
    /\ hold[w] = EmptyCursor => have[w] = {} /\ missed[w] = {}
    /\ hold[w] # EmptyCursor =>
        /\ since[w].boot # 0
        /\ \A e \in Between(since[w], hold[w]) : Wants(w, e) => e \in have[w] \cup missed[w]
        /\ \A e \in have[w] : Wants(w, e)
        /\ have[w] \cap missed[w] = {}
        /\ \A e \in missed[w] : e[1] # bootID \/ e[2] \in Evicted
        /\ \A e \in have[w] \cup missed[w] :
             /\ e[1] \in 1 .. hold[w].boot /\ e[2] \in 1 .. Len(LogOf(e[1]))
             /\ e[1] = hold[w].boot => e[2] <= hold[w].seq

ClientOK(w) == HoldOK(w) /\ WaitOK(w) /\ ReplyOK(w) /\ FollowOK(w)

FollowInv == BufInv /\ ClientTypes /\ \A w \in Waiters : ClientOK(w)

-----------------------------------------------------------------------------
(* Arithmetic of positions. *)
LEMMA PositionType ==
    ASSUME NEW c \in CursorSet
    PROVE  Position(c) \in Nat /\ (c = EmptyCursor => Position(c) = 0)
BY DEF Position, CursorSet, EmptyCursor

(* The buffer as the log of this process. *)
LEMMA ThisLog ==
    ASSUME BufInv, ClientTypes
    PROVE  /\ LogOf(bootID) = history /\ lastSeq = Len(history) /\ lastSeq \in Nat
           /\ Published = lastSeq /\ bootID \in 1 .. bootID
BY DEF BufInv, Basic, TypeOK, RingHoldsLatest, Published, LogOf, ClientTypes

(* How it grows while the process lives. *)
LEMMA ThisLogGrows ==
    ASSUME BufInv, ClientTypes, BufInv', ClientTypes', LogGrows, bootID' = bootID
    PROVE  /\ lastSeq <= lastSeq' /\ lastSeq \in Nat /\ lastSeq' \in Nat
           /\ \A s \in 1 .. lastSeq : history'[s] = history[s]
           /\ Evicted \subseteq Evicted'
<1>1. /\ LogOf(bootID) = history /\ lastSeq = Len(history) /\ lastSeq \in Nat
      /\ bootID \in 1 .. bootID
    BY ThisLog
<1>2. LogOf(bootID)' = history' /\ lastSeq' = Len(history') /\ lastSeq' \in Nat
    BY DEF BufInv, Basic, TypeOK, RingHoldsLatest, Published, LogOf
<1>3. /\ Len(LogOf(bootID)) <= Len(LogOf(bootID))'
      /\ \A s \in 1 .. Len(LogOf(bootID)) : LogOf(bootID)[s]' = LogOf(bootID)[s]
      /\ Evicted \subseteq Evicted'
    BY <1>1 DEF LogGrows
<1> QED  BY <1>1, <1>2, <1>3

(* A client that a step does not concern, while the buffer at most grows   *)
(* or closes: its wait, ...                                                *)
LEMMA WaitStays ==
    ASSUME BufInv, ClientTypes, BufInv', ClientTypes', LogGrows, bootID' = bootID,
           closed => closed', NEW v \in Waiters, WaitOK(v),
           pc'[v] = pc[v], cursor'[v] = cursor[v], filter'[v] = filter[v],
           gap'[v] = gap[v], result'[v] = result[v], asked'[v] = asked[v],
           stage'[v] = stage[v], hold'[v] = hold[v], wants'[v] = wants[v],
           ended'[v] = ended[v], gone'[v] = gone[v]
    PROVE  WaitOK(v)'
<1>1. /\ lastSeq <= lastSeq' /\ lastSeq \in Nat /\ lastSeq' \in Nat
      /\ \A s \in 1 .. lastSeq : history'[s] = history[s]
      /\ Evicted \subseteq Evicted'
    BY ThisLogGrows
<1>2. /\ cursor[v] \in CursorSet /\ asked[v] \in CursorSet
      /\ Position(cursor[v]) \in Nat /\ Position(asked[v]) \in Nat
      /\ Position(cursor[v])' = Position(cursor[v]) /\ Position(asked[v])' = Position(asked[v])
    BY PositionType DEF BufInv, Basic, TypeOK, Position
<1>3. pc[v] \in {"scan", "select", "returned"} =>
        \A s \in Position(asked[v]) + 1 .. Position(cursor[v]) : s \in 1 .. lastSeq
    BY <1>1, <1>2 DEF BufInv, WaitInv, WaiterOK, Place
<1>4. Told(v)'
    BY <1>1, <1>2, <1>3 DEF WaitOK, Told
<1>5. Asks(v)'
    BY <1>1, <1>2 DEF WaitOK, Asks, CursorSet
<1>6. Ends(v)'
    BY DEF WaitOK, Ends
<1> QED  BY <1>4, <1>5, <1>6 DEF WaitOK

(* ... the reply on its way to it, ...                                     *)
LEMMA ReplyStays ==
    ASSUME BufInv, ClientTypes, BufInv', ClientTypes', LogGrows, bootID' = bootID,
           closed => closed', NEW v \in Waiters, ReplyOK(v),
           stage'[v] = stage[v], reply'[v] = reply[v], hold'[v] = hold[v],
           wants'[v] = wants[v], gone[v] => gone'[v]
    PROVE  ReplyOK(v)'
<1>1. /\ lastSeq <= lastSeq' /\ lastSeq \in Nat /\ lastSeq' \in Nat
      /\ \A s \in 1 .. lastSeq : history'[s] = history[s]
      /\ Evicted \subseteq Evicted'
    BY ThisLogGrows
<1>2. /\ Position(hold[v]) \in Nat /\ Position(hold[v])' = Position(hold[v])
      /\ reply[v].next.seq \in Nat
    BY PositionType DEF ClientTypes, Position, CursorSet
<1>3. Good(v, reply[v]) => Good(v, reply[v])'
    <2> SUFFICES ASSUME Good(v, reply[v]) PROVE Good(v, reply[v])'
        OBVIOUS
    <2>1. \A s \in Position(hold[v]) + 1 .. reply[v].next.seq :
              s \in 1 .. lastSeq /\ history'[s] = history[s]
        BY <1>1, <1>2 DEF Good
    <2> QED  BY <1>1, <1>2, <2>1 DEF Good
<1> QED  BY <1>3 DEF ReplyOK

(* ... and what it holds and has got.                                      *)
LEMMA FollowStays ==
    ASSUME BufInv, ClientTypes, LogGrows, NEW v \in Waiters, HoldOK(v), FollowOK(v),
           hold'[v] = hold[v], since'[v] = since[v], have'[v] = have[v],
           missed'[v] = missed[v], wants'[v] = wants[v]
    PROVE  HoldOK(v)' /\ FollowOK(v)'
<1>1. CASE hold[v] = EmptyCursor
    BY <1>1 DEF HoldOK, FollowOK
<1>2. CASE hold[v] # EmptyCursor
    <2> DEFINE c == hold[v]
    <2>1. /\ c.boot \in 1 .. bootID /\ c.seq \in Nat /\ c.seq <= Len(LogOf(c.boot))
          /\ c.form = "at" /\ bootID \in Nat /\ since[v].boot \in Nat \ {0}
        BY <1>2 DEF HoldOK, InLog, FollowOK, ClientTypes, CursorSet
    <2>2. /\ bootID' \in {bootID, bootID + 1}
          /\ \A b \in 1 .. bootID :
                /\ Len(LogOf(b)) \in Nat /\ Len(LogOf(b))' \in Nat
                /\ Len(LogOf(b)) <= Len(LogOf(b))'
                /\ b # bootID => LogOf(b)' = LogOf(b)
                /\ \A s \in 1 .. Len(LogOf(b)) : LogOf(b)[s]' = LogOf(b)[s]
          /\ bootID' = bootID => Evicted \subseteq Evicted'
        BY DEF LogGrows
    <2>3. HoldOK(v)'
        BY <2>1, <2>2 DEF HoldOK, InLog
    <2>4. ASSUME NEW e, e[1] \in 1 .. c.boot, e[2] \in 1 .. Len(LogOf(e[1]))
          PROVE  /\ e[1] \in 1 .. bootID /\ e[2] \in 1 .. Len(LogOf(e[1]))'
                 /\ Wants(v, e)' = Wants(v, e)
        <3>1. e[1] \in 1 .. bootID
            BY <2>1, <2>4
        <3>2. LogOf(e[1])[e[2]]' = LogOf(e[1])[e[2]]
            BY <2>2, <2>4, <3>1
        <3>3. e[2] \in 1 .. Len(LogOf(e[1]))'
            BY <2>2, <2>4, <3>1
        <3> QED  BY <3>1, <3>2, <3>3 DEF Wants
    <2>5. ASSUME NEW e \in Between(since[v], c)'
          PROVE  /\ e \in Between(since[v], c)
                 /\ e[1] \in 1 .. c.boot /\ e[2] \in 1 .. Len(LogOf(e[1]))
        <3>1. /\ e \in (since[v].boot .. c.boot) \X (1 .. MaxSeq)
              /\ e[2] <= Len(LogOf(e[1]))'
              /\ e[1] = since[v].boot => e[2] > since[v].seq
              /\ e[1] = c.boot => e[2] <= c.seq
            BY <2>5 DEF Between
        <3>2. e[1] \in 1 .. c.boot /\ e[1] \in 1 .. bootID /\ e[2] \in Nat \ {0}
            BY <2>1, <3>1, BoundAssumption
        <3>3. e[2] <= Len(LogOf(e[1]))
            <4>1. CASE e[1] = c.boot
                BY <2>1, <2>2, <3>1, <3>2, <4>1
            <4>2. CASE e[1] # c.boot
                <5>1. e[1] # bootID
                    BY <2>1, <3>2, <4>2
                <5> QED  BY <2>2, <3>1, <3>2, <5>1
            <4> QED  BY <4>1, <4>2
        <3>4. e[2] \in 1 .. Len(LogOf(e[1]))
            BY <2>2, <3>2, <3>3
        <3> QED  BY <3>1, <3>2, <3>3, <3>4 DEF Between
    <2>6. FollowOK(v)'
        <3>1. \A e \in have[v] \cup missed[v] :
                 /\ e[1] \in 1 .. c.boot /\ e[2] \in 1 .. Len(LogOf(e[1]))
                 /\ e[1] = c.boot => e[2] <= c.seq
            BY <1>2 DEF FollowOK
        <3>2. \A e \in Between(since[v], c)' : Wants(v, e)' => e \in have[v] \cup missed[v]
            BY <1>2, <2>4, <2>5 DEF FollowOK
        <3>3. \A e \in have[v] : Wants(v, e)'
            BY <1>2, <2>4, <3>1 DEF FollowOK
        <3>4. \A e \in missed[v] : e[1] # bootID' \/ e[2] \in Evicted'
            BY <1>2, <2>1, <2>2, <3>1 DEF FollowOK
        <3>5. \A e \in have[v] \cup missed[v] :
                 /\ e[1] \in 1 .. c.boot /\ e[2] \in 1 .. Len(LogOf(e[1]))'
                 /\ e[1] = c.boot => e[2] <= c.seq
            BY <2>4, <3>1
        <3> QED  BY <1>2, <2>1, <3>2, <3>3, <3>4, <3>5 DEF FollowOK
    <2> QED  BY <2>3, <2>6
<1> QED  BY <1>1, <1>2

-----------------------------------------------------------------------------
(* The wait of client w, step by step.                                     *)

(* A step of w's goroutine that leaves the buffer and the client alone. *)
ClientWaits(w) ==
    UNCHANGED <<bufVars, past, stage, wants, hold, ended, gone>>

LEMMA CallOK ==
    ASSUME BufInv, ClientTypes, NEW w \in Waiters, ClientOK(w), WaitForMessage(w)
    PROVE  WaitOK(w)'
<1>1. /\ TypeOK /\ hold[w] \in CursorSet /\ UNCHANGED <<bootID, lastSeq, hold, wants, closed, ended, gone>>
      /\ stage[w] = "idle" /\ stage' = [stage EXCEPT ![w] = "waiting"]
    BY DEF BufInv, Basic, ClientTypes, WaitForMessage, CallWait, bufVars
<1>2. /\ pc'[w] = IF hold[w].form = "empty" THEN "start" ELSE "scan"
      /\ cursor'[w] = hold[w] /\ asked'[w] = hold[w] /\ filter'[w] = wants[w]
      /\ gap'[w] = FALSE /\ result'[w].err = "none" /\ stage'[w] = "waiting"
    BY <1>1 DEF WaitForMessage, CallWait, TypeOK, ClientTypes
<1>3. hold[w] = EmptyCursor \/ InLog(hold[w])
    BY DEF ClientOK, HoldOK
<1>4. hold[w].form = "empty" => hold[w] = EmptyCursor
    BY <1>3 DEF InLog
<1>5. Told(w)'
    BY <1>1, <1>2, PositionType DEF Told, Position
<1>6. Asks(w)'
    <2>1. CASE hold[w].form = "empty"
        BY <1>1, <1>2, <1>4, <2>1 DEF Asks
    <2>2. CASE hold[w].form # "empty"
        <3>1. /\ hold[w].form = "at"
              /\ hold[w].boot = bootID => hold[w].seq <= lastSeq
            BY <1>3, <2>2, ThisLog DEF InLog, EmptyCursor
        <3> QED  BY <1>1, <1>2, <2>2, <3>1 DEF Asks
    <2> QED  BY <2>1, <2>2
<1>7. Ends(w)'
    BY <1>1, <1>2 DEF ClientOK, WaitOK, Ends
<1> QED  BY <1>5, <1>6, <1>7 DEF WaitOK

LEMMA ReadCursorOK ==
    ASSUME BufInv, ClientTypes, NEW w \in Waiters, ClientOK(w), ReadCursor(w), ClientWaits(w)
    PROVE  WaitOK(w)'
<1>1. /\ TypeOK /\ lastSeq \in Nat /\ pc[w] = "start"
      /\ UNCHANGED <<bootID, lastSeq, closed, filter, gap, result, stage, wants, hold, ended, gone>>
    BY DEF BufInv, Basic, TypeOK, ReadCursor, bufVars, ClientWaits
<1>2. pc'[w] = "scan" /\ cursor'[w] = Cursor(lastSeq) /\ asked'[w] = Cursor(lastSeq)
    BY <1>1 DEF ReadCursor, TypeOK
<1>3. Told(w)'
    BY <1>1, <1>2 DEF Told, Position, Cursor
<1>4. Asks(w)'
    BY <1>1, <1>2 DEF ClientOK, WaitOK, Asks, Cursor
<1>5. Ends(w)'
    BY <1>1, <1>2 DEF ClientOK, WaitOK, Ends
<1> QED  BY <1>3, <1>4, <1>5 DEF WaitOK

(* The buffer never refuses the cursor of a client's wait. *)
LEMMA NeverRefused ==
    ASSUME BufInv, ClientTypes, NEW w \in Waiters, ClientOK(w), pc[w] = "scan"
    PROVE  ~Since(cursor[w], filter[w], 1).bad
<1> DEFINE c == cursor[w]
<1>1. /\ TypeOK /\ lastSeq \in Nat /\ c \in CursorSet /\ asked[w] \in CursorSet
      /\ c.seq \in Nat /\ asked[w].seq \in Nat
    BY DEF BufInv, Basic, TypeOK, CursorSet
<1>2. /\ asked[w].form = "at" /\ (asked[w].boot = bootID => asked[w].seq <= lastSeq)
      /\ c = asked[w] \/ c = Cursor(c.seq)
      /\ \/ Position(c) = Position(asked[w])
         \/ Position(asked[w]) <= Position(c) /\ Position(c) <= lastSeq
    BY DEF ClientOK, WaitOK, Asks, BufInv, AnswerInv, AnswerOK, Origin, WaitInv, WaiterOK, Place
<1>3. c.form = "at"
    BY <1>2 DEF Cursor
<1>4. ASSUME c.boot = bootID
      PROVE  ~(c.seq > lastSeq)
    <2>1. Position(c) = c.seq
        BY <1>3, <1>4 DEF Position
    <2>2. Position(asked[w]) <= lastSeq
        BY <1>1, <1>2 DEF Position
    <2> QED  BY <1>1, <1>2, <2>1, <2>2
<1>5. ~Parse(c).bad
    BY <1>3, <1>4 DEF Parse
<1> QED  BY <1>3, <1>5 DEF Since

LEMMA ScanOK ==
    ASSUME BufInv, ClientTypes, NEW w \in Waiters, ClientOK(w), ScanHit(w) \/ ScanMiss(w),
           ClientWaits(w)
    PROVE  WaitOK(w)'
<1> DEFINE p  == Since(cursor[w], filter[w], 1)
           at == Position(cursor[w])
<1>1. /\ Scanned(w, p) /\ pc[w] = "scan" /\ TypeOK /\ Basic
      /\ UNCHANGED <<bufVars, filter, asked, stage, wants, hold, ended, gone>>
    BY DEF BufInv, Basic, ScanHit, ScanMiss, Scanned, Return, ClientWaits
<1>2. \/ /\ p.events = {} /\ pc'[w] = "select" /\ result'[w] = result[w]
      \/ \E e \in p.events : /\ pc'[w] = "returned" /\ result'[w].event = e
                             /\ result'[w].err = "none"
    BY <1>1 DEF ScanHit, ScanMiss, Return, TypeOK
<1>3. cursor'[w] = Cursor(p.next) /\ gap'[w] = (gap[w] \/ p.gap)
    BY <1>1 DEF Scanned, TypeOK
<1> HIDE DEF p
<1>4. /\ at \in Nat /\ p.next \in Nat /\ at <= p.next /\ p.next <= Published
      /\ p.gap <=> StaleCursor(w) \/ at + 1 + Size <= Published
      /\ \A s \in at + 1 .. Published :
            Match(filter[w], history[s]) /\ (p.events = {} \/ s < p.next)
               => s + Size <= Published
      /\ \A e \in p.events : e.seq = p.next
      /\ cursor[w].form = "at"
    BY <1>1, ScanReads DEF p
<1>5. /\ result[w].event.seq = 0 /\ WaitOK(w) /\ Published \in Nat /\ Size \in Nat
      /\ Position(asked[w]) \in Nat /\ Position(asked[w]) <= at
      /\ gap[w] \in BOOLEAN
    <2>1. Position(asked[w]) \in Nat
        BY <1>1, PositionType DEF TypeOK
    <2>2. Position(asked[w]) <= at
        BY <1>1, <1>4, <2>1 DEF BufInv, WaitInv, WaiterOK, Place
    <2> QED  BY <1>1, <2>1, <2>2, SizeAssumption
             DEF BufInv, WaitInv, WaiterOK, Empty, NoEvent, ClientOK, Published, TypeOK
<1>6. /\ Position(asked[w])' = Position(asked[w]) /\ Position(cursor[w])' = p.next
      /\ bootID' = bootID /\ history' = history /\ Evicted' = Evicted /\ lastSeq' = lastSeq
      /\ filter'[w] = filter[w] /\ asked'[w] = asked[w] /\ closed' = closed
      /\ cursor'[w].boot = bootID
    BY <1>1, <1>3 DEF bufVars, Position, Cursor, Evicted, Published
<1> HIDE DEF at
<1>7. Told(w)'
    <2>1. asked[w].boot # bootID => gap'[w]
        <3>1. CASE cursor[w].boot = bootID
            BY <1>1, <1>3, <1>5, <3>1 DEF WaitOK, Told
        <3>2. CASE cursor[w].boot # bootID
            BY <1>3, <1>4, <3>2 DEF StaleCursor
        <3> QED  BY <3>1, <3>2
    <2>2. ASSUME NEW s \in Position(asked[w]) + 1 .. p.next, Match(filter[w], history[s])
          PROVE  s = result'[w].event.seq \/ s \in Evicted
        <3>1. CASE s <= at
            <4>1. s = 0 \/ s \in Evicted
                BY <1>1, <1>4, <1>5, <2>2, <3>1 DEF WaitOK, Told, at
            <4> QED  BY <1>5, <2>2, <4>1
        <3>2. CASE ~(s <= at)
            <4>1. s \in at + 1 .. Published /\ s <= p.next
                BY <1>4, <1>5, <2>2, <3>2
            <4>2. CASE p.events = {} \/ s < p.next
                <5>1. s + Size <= Published
                    BY <1>4, <2>2, <4>1, <4>2
                <5> QED  BY <1>4, <1>5, <4>1, <5>1 DEF Evicted
            <4>3. CASE p.events # {} /\ s = p.next
                BY <1>2, <1>4, <4>3
            <4> QED  BY <1>4, <4>1, <4>2, <4>3
        <3> QED  BY <3>1, <3>2
    <2> QED  BY <1>6, <2>1, <2>2 DEF Told
<1>8. Asks(w)'
    BY <1>1, <1>2, <1>5, <1>6 DEF WaitOK, Asks
<1>9. Ends(w)'
    BY <1>1, <1>2, <1>5, <1>6 DEF WaitOK, Ends
<1> QED  BY <1>7, <1>8, <1>9 DEF WaitOK

(* Waking up, and the ends without an event. *)
LEMMA OtherWaitOK ==
    ASSUME BufInv, ClientTypes, NEW w \in Waiters, ClientOK(w), ClientWaits(w),
           Woken(w) \/ ScanClosed(w) \/ ScanRefused(w) \/ (ContextDone(w) /\ ended[w] # "no")
    PROVE  WaitOK(w)'
<1>1. ~ScanRefused(w)
    BY NeverRefused DEF ScanRefused
<1>2. /\ UNCHANGED <<bootID, history, lastSeq, closed, cursor, gap, filter, asked,
                     stage, wants, hold, ended, gone>>
      /\ pc[w] \in {"scan", "select"} /\ pc'[w] \in {"scan", "returned"}
      /\ \/ result'[w] = result[w]
         \/ result'[w].event = NoEvent /\ result'[w].err = "closed" /\ closed
         \/ result'[w].event = NoEvent /\ result'[w].err = "context" /\ ended[w] # "no"
    BY <1>1 DEF Woken, ScanClosed, ContextDone, Return, BufInv, Basic, TypeOK, ClientWaits, bufVars
<1>3. result[w].event = NoEvent /\ WaitOK(w)
    BY <1>2 DEF BufInv, WaitInv, WaiterOK, Empty, ClientOK
<1>4. result'[w].event = result[w].event
    BY <1>2, <1>3
<1>5. Told(w)'
    BY <1>2, <1>3, <1>4 DEF WaitOK, Told, Position, Evicted, Published
<1>6. Asks(w)'
    BY <1>2, <1>3 DEF WaitOK, Asks
<1>7. Ends(w)'
    BY <1>2, <1>3 DEF WaitOK, Ends
<1> QED  BY <1>5, <1>6, <1>7 DEF WaitOK

(* A client whose goroutine is not in Wait. *)
LEMMA IdleOK ==
    ASSUME NEW w, WaitOK(w), stage[w] # "waiting",
           pc'[w] = pc[w], result'[w] = result[w], stage'[w] # "waiting",
           ended'[w] = "cancel" => gone'[w]
    PROVE  WaitOK(w)'
<1>1. pc[w] = "idle" /\ result[w].err = "none"
    BY DEF WaitOK, Asks, Ends
<1> QED  BY <1>1 DEF WaitOK, Told, Asks, Ends

LEMMA ForgottenOK ==
    ASSUME TypeOK, NEW w \in Waiters, WaitOK(w), Forget(w), stage'[w] = "answered",
           ended'[w] = ended[w], gone'[w] = gone[w]
    PROVE  WaitOK(w)'
<1>1. pc'[w] = "idle" /\ result'[w].err = "none"
    BY DEF Forget, TypeOK
<1> QED  BY <1>1 DEF WaitOK, Told, Asks, Ends

LEMMA EndingOK ==
    ASSUME ClientTypes, NEW w \in Waiters, WaitOK(w), Deadline(w) \/ Leave(w)
    PROVE  WaitOK(w)'
<1>1. /\ UNCHANGED <<vars, stage, hold, wants>>
      /\ ended'[w] # "no" /\ (ended'[w] = "cancel" => gone'[w])
    BY DEF Deadline, Leave, ClientTypes, WaitOK, Ends
<1>2. UNCHANGED <<bootID, history, lastSeq, closed, pc, cursor, filter, gap, result, asked>>
    BY <1>1 DEF vars, bufVars, waitVars
<1> QED  BY <1>1, <1>2 DEF WaitOK, Told, Asks, Ends, Position, Evicted, Published

-----------------------------------------------------------------------------
(* The replies.                                                            *)

(* Between a cursor of a client and the end of a page nothing wanted is    *)
(* left out but what is gone, and then the page says so.                   *)
LEMMA PageLeavesOut ==
    ASSUME TypeOK, RingHoldsLatest, NEW c \in CursorSet, NEW f, NEW limit \in Nat \ {0},
           c.form = "at", ~Parse(c).bad
    PROVE  LET p == Since(c, f, limit)
           IN  /\ p.next \in Position(c) .. lastSeq
               /\ \A e \in p.events : /\ e.seq \in Position(c) + 1 .. p.next
                                      /\ Match(f, history[e.seq])
               /\ \A s \in Position(c) + 1 .. p.next :
                     Match(f, history[s]) =>
                        s \in {e.seq : e \in p.events} \/ (p.gap /\ s \in Evicted)
               /\ c.boot # bootID => p.gap
<1> DEFINE p == Since(c, f, limit)
           H == Hits(Position(c), f)
<1>1. /\ p.gap = Parse(c).gap /\ p.next \in Position(c) .. lastSeq
      /\ p.events = {e \in H : e.seq <= p.next}
    BY SinceAt
<1>2. /\ H = {Stored(s) : s \in Wanted(c, f)}
      /\ \A e \in H : e.seq \in Position(c) + 1 .. lastSeq /\ e.seq \in Wanted(c, f)
      /\ lastSeq = Published /\ lastSeq \in Nat /\ Position(c) \in Nat
    BY HitsAreWanted, PositionType DEF RingHoldsLatest, TypeOK
<1>3. \A s : Stored(s).seq = s
    BY DEF Stored
<1>4. Parse(c).gap <=> c.boot # bootID \/ \E s \in Evicted : s > Position(c)
    BY GapIsExact DEF GapExact
<1> HIDE DEF p, H
<1>5. ASSUME NEW e \in p.events
      PROVE  e.seq \in Position(c) + 1 .. p.next /\ Match(f, history[e.seq])
    BY <1>1, <1>2, <1>5 DEF Wanted
<1>6. ASSUME NEW s \in Position(c) + 1 .. p.next, Match(f, history[s])
      PROVE  s \in {e.seq : e \in p.events} \/ (p.gap /\ s \in Evicted)
    <2>1. s \in 1 .. Published /\ s > Position(c) /\ s <= p.next
        BY <1>1, <1>2
    <2>2. CASE s \in Evicted
        BY <1>1, <1>4, <2>1, <2>2
    <2>3. CASE s \notin Evicted
        <3>1. s \in Wanted(c, f)
            BY <1>6, <2>1, <2>3 DEF Wanted, Surviving
        <3>2. Stored(s) \in p.events
            BY <1>1, <1>2, <1>3, <2>1, <3>1
        <3> QED  BY <1>3, <3>2
    <2> QED  BY <2>2, <2>3
<1> QED  BY <1>1, <1>4, <1>5, <1>6 DEF p

LEMMA PollOK ==
    ASSUME BufInv, ClientTypes, NEW w \in Waiters, ClientOK(w), NEW n \in Limits,
           PollEvents(w, n)
    PROVE  ReplyOK(w)'
<1> DEFINE p == Since(hold[w], wants[w], n)
           r == [err |-> IF p.bad THEN "bad_cursor" ELSE "none",
                 events |-> {e.seq : e \in p.events},
                 next |-> Cursor(p.next), gap |-> p.gap]
<1>1. /\ TypeOK /\ RingHoldsLatest /\ hold[w] \in CursorSet /\ n \in Nat \ {0}
      /\ lastSeq \in Nat /\ lastSeq = Published
    BY LimitsAssumption DEF BufInv, Basic, ClientTypes, TypeOK, RingHoldsLatest
<1>2. /\ reply'[w] = r /\ UNCHANGED <<bootID, lastSeq, history, hold, wants>>
    BY DEF PollEvents, ClientTypes, vars, bufVars
<1>3. ~p.bad /\ Good(w, r)
    <2>1. CASE hold[w] = EmptyCursor
        <3>1. hold[w].form = "empty" /\ Position(hold[w]) = 0 /\ hold[w] \in CursorSet
            BY <2>1 DEF EmptyCursor, Position, CursorSet
        <3>2. p = [events |-> Latest(Hits(0, wants[w]), n), next |-> lastSeq,
                   gap |-> FALSE, bad |-> FALSE]
            BY <3>1 DEF Since
        <3>3. \A e \in Hits(0, wants[w]) : /\ e.seq \in 1 .. lastSeq
                                           /\ Match(wants[w], history[e.seq])
            <4>1. \A e \in Hits(0, wants[w]) : /\ e.seq \in 0 + 1 .. lastSeq
                                               /\ e.seq \in Wanted(hold[w], wants[w])
                BY <1>1, <3>1, HitsAreWanted
            <4> QED  BY <4>1 DEF Wanted
        <3>4. Latest(Hits(0, wants[w]), n) \subseteq Hits(0, wants[w])
            BY DEF Latest
        <3> HIDE DEF p
        <3>5. \A s \in r.events : s \in 1 .. lastSeq /\ Match(wants[w], history[s])
            BY <3>2, <3>3, <3>4
        <3>6. r.next = Cursor(lastSeq)
            BY <3>2
        <3> HIDE DEF r
        <3> QED  BY <1>1, <2>1, <3>1, <3>2, <3>5, <3>6 DEF Good, Cursor
    <2>2. CASE hold[w] # EmptyCursor
        <3>1. /\ hold[w].form = "at"
              /\ hold[w].boot = bootID => hold[w].seq <= lastSeq
            BY <2>2, ThisLog DEF ClientOK, HoldOK, InLog
        <3>2. ~Parse(hold[w]).bad
            BY <1>1, <3>1 DEF Parse, CursorSet
        <3>3. ~p.bad
            BY <1>1, <3>1, <3>2, SinceAt
        <3>4. /\ p.next \in Position(hold[w]) .. lastSeq
              /\ \A e \in p.events : /\ e.seq \in Position(hold[w]) + 1 .. p.next
                                     /\ Match(wants[w], history[e.seq])
              /\ \A s \in Position(hold[w]) + 1 .. p.next :
                    Match(wants[w], history[s]) =>
                       s \in {e.seq : e \in p.events} \/ (p.gap /\ s \in Evicted)
              /\ hold[w].boot # bootID => p.gap
            BY <1>1, <3>1, <3>2, PageLeavesOut
        <3>5. Position(hold[w]) \in Nat
            BY <1>1, PositionType
        <3> HIDE DEF p
        <3>6. r.next = Cursor(p.next) /\ r.events = {e.seq : e \in p.events} /\ r.gap = p.gap
            OBVIOUS
        <3> HIDE DEF r
        <3> QED  BY <1>1, <3>3, <3>4, <3>5, <3>6 DEF Good, Cursor
    <2> QED  BY <2>1, <2>2
<1> HIDE DEF p
<1>4. r.err = "none"
    BY <1>3
<1> HIDE DEF r
<1> QED  BY <1>2, <1>3, <1>4 DEF ReplyOK, Good, Position, Evicted, Published

LEMMA WaitReplyOK ==
    ASSUME BufInv, ClientTypes, NEW w \in Waiters, ClientOK(w), Reply(w)
    PROVE  ReplyOK(w)'
<1> DEFINE r == [err |-> Err(w), events |-> {result[w].event.seq} \ {0},
                 next |-> cursor[w], gap |-> gap[w]]
<1>1. /\ TypeOK /\ hold[w] \in CursorSet /\ cursor[w] \in CursorSet /\ asked[w] \in CursorSet
      /\ lastSeq \in Nat /\ lastSeq = Published /\ gap[w] \in BOOLEAN
      /\ result[w].err \in Errors /\ result[w].event.seq \in Nat
    BY DEF BufInv, Basic, ClientTypes, TypeOK, RingHoldsLatest, Event
<1>2. /\ reply'[w] = r /\ pc[w] = "returned" /\ stage[w] = "waiting"
      /\ UNCHANGED <<bootID, lastSeq, history, hold, wants, closed, gone>>
    BY DEF Reply, ClientTypes, bufVars
<1>3. WaitOK(w) /\ filter[w] = wants[w] /\ asked[w].form = "at"
      /\ (hold[w] # EmptyCursor => asked[w] = hold[w])
    BY <1>2 DEF ClientOK, WaitOK, Asks
<1>4. CASE Err(w) = "none"
    <2>1. /\ cursor[w].form = "at" /\ cursor[w].boot = bootID
          /\ cursor[w].seq \in Position(asked[w]) .. lastSeq
          /\ Position(cursor[w]) = cursor[w].seq
        <3>1. result[w].err \in {"none", "context"}
            BY <1>1, <1>4, ErrIs
        <3> QED  BY <1>2, <3>1 DEF BufInv, AnswerInv, AnswerOK, Usable, Position
    <2>2. /\ Position(hold[w]) \in Nat /\ Position(asked[w]) \in Nat
          /\ Position(hold[w]) <= Position(asked[w])
        BY <1>1, <1>3, PositionType
    <2>3. ASSUME result[w].event.seq # 0
          PROVE  /\ result[w].event.seq \in Position(asked[w]) + 1 .. cursor[w].seq
                 /\ Match(wants[w], history[result[w].event.seq])
        <3>1. result[w].event # NoEvent
            BY <2>3 DEF NoEvent
        <3>2. LET e == result[w].event
              IN  /\ e.seq \in Position(asked[w]) + 1 .. Published
                  /\ e = Stored(e.seq) /\ Match(filter[w], e.body)
                  /\ cursor[w] = Cursor(e.seq)
            BY <3>1 DEF BufInv, AnswerInv, AnswerOK, Returned
        <3>3. cursor[w].seq = result[w].event.seq
            BY <3>2 DEF Cursor
        <3>4. result[w].event.body = history[result[w].event.seq]
            BY <3>2 DEF Stored
        <3> QED  BY <1>1, <1>3, <2>2, <3>2, <3>3, <3>4
    <2>4. ASSUME hold[w] # EmptyCursor
          PROVE  /\ \A s \in Position(hold[w]) + 1 .. cursor[w].seq :
                       Match(wants[w], history[s]) =>
                          s = result[w].event.seq \/ (gap[w] /\ s \in Evicted)
                 /\ hold[w].boot # bootID => gap[w]
        <3>1. \A s \in Position(asked[w]) + 1 .. Position(cursor[w]) :
                 Match(filter[w], history[s]) => gap[w] \/ result[w].event.seq = s
            BY <1>2 DEF BufInv, WaitInv, WaiterOK, Passed
        <3>2. /\ asked[w].boot # bootID /\ cursor[w].boot = bootID => gap[w]
              /\ \A s \in Position(asked[w]) + 1 .. Position(cursor[w]) :
                    Match(filter[w], history[s]) => s = result[w].event.seq \/ s \in Evicted
            BY <1>2, <1>3 DEF WaitOK, Told
        <3> QED  BY <1>3, <2>1, <2>4, <3>1, <3>2
    <2>5. r.next = cursor[w] /\ r.gap = gap[w] /\ r.err = "none"
          /\ r.events = {result[w].event.seq} \ {0}
        BY <1>4
    <2> HIDE DEF r
    <2>6. Good(w, r)
        <3>1. \A s \in r.events : /\ s \in Position(hold[w]) + 1 .. r.next.seq
                                  /\ Match(wants[w], history[s])
            BY <1>1, <2>1, <2>2, <2>3, <2>5
        <3>2. ASSUME hold[w] # EmptyCursor, NEW s \in Position(hold[w]) + 1 .. r.next.seq,
                     Match(wants[w], history[s])
              PROVE  s \in r.events \/ (r.gap /\ s \in Evicted)
            <4>1. s # 0
                BY <2>2, <3>2
            <4> QED  BY <2>4, <2>5, <3>2, <4>1
        <3> QED  BY <1>1, <2>1, <2>2, <2>4, <2>5, <3>1, <3>2 DEF Good
    <2> QED  BY <1>2, <2>5, <2>6 DEF ReplyOK, Good, Position, Evicted, Published
<1>5. CASE Err(w) = "closing"
    BY <1>1, <1>2, <1>3, <1>5, ErrIs DEF ReplyOK, WaitOK, Ends
<1>6. CASE Err(w) = "cancelled"
    <2>1. gone[w]
        <3>1. result[w].err = "context" /\ (ended[w] # "deadline" \/ gone[w])
            BY <1>1, <1>6, ErrIs
        <3>2. ended[w] \in {"no", "deadline", "cancel"}
            BY DEF ClientTypes
        <3> QED  BY <1>3, <3>1, <3>2 DEF WaitOK, Ends
    <2> QED  BY <1>2, <1>6, <2>1 DEF ReplyOK
<1>7. CASE Err(w) = "bad_cursor"
    BY <1>1, <1>3, <1>7, ErrIs DEF WaitOK, Ends
<1> QED  BY <1>1, <1>4, <1>5, <1>6, <1>7, ErrIs

-----------------------------------------------------------------------------
(* The client takes a good reply: what lies between its old cursor and the *)
(* new one is what it got with it, or what it was told it may have missed. *)
LEMMA AcceptFirst ==
    ASSUME BufInv, ClientTypes, NEW w \in Waiters, ClientOK(w), NEW r, Good(w, r),
           r.next \in CursorSet, hold[w] = EmptyCursor,
           UNCHANGED <<bootID, history, past, wants>>,
           hold'[w] = r.next, since'[w] = r.next,
           have'[w] = have[w] \cup {<<r.next.boot, s>> : s \in r.events},
           missed'[w] = missed[w]
    PROVE  HoldOK(w)' /\ FollowOK(w)'
<1> DEFINE d == r.next
<1>1. /\ d.form = "at" /\ d.boot = bootID /\ d.seq \in Nat /\ d.seq <= lastSeq
      /\ LogOf(bootID) = history /\ lastSeq = Len(history) /\ lastSeq \in Nat
      /\ bootID \in Nat \ {0} /\ d # EmptyCursor
    <2>1. d.form = "at" /\ d.boot = bootID /\ d.seq <= lastSeq
        BY DEF Good
    <2>2. d.seq \in Nat
        BY DEF CursorSet
    <2>3. d # EmptyCursor
        BY <2>1 DEF EmptyCursor
    <2>4. bootID \in Nat \ {0}
        BY DEF ClientTypes
    <2> QED  BY <2>1, <2>2, <2>3, <2>4, ThisLog
<1>2. /\ have[w] = {} /\ missed[w] = {} /\ Position(hold[w]) = 0
    BY PositionType DEF ClientOK, FollowOK, ClientTypes
<1>3. \A s \in r.events : s \in 1 .. d.seq /\ Match(wants[w], history[s])
    BY <1>2 DEF Good
<1>4. \A b : LogOf(b)' = LogOf(b)
    BY DEF LogOf
<1>5. HoldOK(w)'
    BY <1>1, <1>4 DEF HoldOK, InLog
<1>6. Between(d, d)' = {}
    BY <1>1, BoundAssumption DEF Between
<1>7. \A e \in have'[w] : /\ e[1] = bootID /\ e[2] \in 1 .. d.seq
                          /\ Match(wants[w], history[e[2]])
    BY <1>1, <1>2, <1>3
<1>8. \A e \in have'[w] : Wants(w, e)'
    BY <1>1, <1>4, <1>7 DEF Wants
<1>9. \A e \in have'[w] \cup missed'[w] :
          /\ e[1] \in 1 .. d.boot /\ e[2] \in 1 .. Len(LogOf(e[1]))'
          /\ e[1] = d.boot => e[2] <= d.seq
    BY <1>1, <1>2, <1>4, <1>7
<1> HIDE DEF d
<1>10. FollowOK(w)'
    BY <1>1, <1>2, <1>6, <1>8, <1>9 DEF FollowOK, d
<1> QED  BY <1>5, <1>10

LEMMA AcceptNext ==
    ASSUME BufInv, ClientTypes, NEW w \in Waiters, ClientOK(w), NEW r, Good(w, r),
           r.next \in CursorSet, hold[w] # EmptyCursor,
           UNCHANGED <<bootID, history, past, wants>>,
           hold'[w] = r.next, since'[w] = since[w],
           NEW got, got = {<<r.next.boot, s>> : s \in r.events},
           have'[w] = have[w] \cup got,
           NEW new, new = {e \in Between(hold[w], r.next) : Wants(w, e)} \ got,
           missed'[w] = missed[w] \cup (IF r.gap THEN new ELSE {})
    PROVE  HoldOK(w)' /\ FollowOK(w)'
<1> DEFINE c == hold[w]
           d == r.next
<1>1. /\ d.form = "at" /\ d.boot = bootID /\ d.seq \in Nat /\ d.seq <= lastSeq
      /\ LogOf(bootID) = history /\ lastSeq = Len(history) /\ lastSeq \in Nat
      /\ bootID \in Nat \ {0} /\ d # EmptyCursor
    <2>1. d.form = "at" /\ d.boot = bootID /\ d.seq <= lastSeq
        BY DEF Good
    <2>2. d.seq \in Nat
        BY DEF CursorSet
    <2>3. d # EmptyCursor
        BY <2>1 DEF EmptyCursor
    <2>4. bootID \in Nat \ {0}
        BY DEF ClientTypes
    <2> QED  BY <2>1, <2>2, <2>3, <2>4, ThisLog
<1>2. /\ c.form = "at" /\ c.boot \in 1 .. bootID /\ c.seq \in Nat
      /\ since[w].boot \in Nat \ {0} /\ since[w].seq \in Nat
    BY DEF ClientOK, HoldOK, InLog, FollowOK, ClientTypes, CursorSet
<1>3. /\ Position(c) \in Nat /\ Position(c) <= d.seq
      /\ c.boot = bootID => Position(c) = c.seq
      /\ c.boot # bootID => Position(c) = 0
    BY <1>2 DEF Good, Position
<1>4. /\ \A s \in r.events : /\ s \in Position(c) + 1 .. d.seq
                             /\ Match(wants[w], history[s])
      /\ \A s \in Position(c) + 1 .. d.seq :
            Match(wants[w], history[s]) => s \in r.events \/ (r.gap /\ s \in Evicted)
      /\ c.boot # bootID => r.gap
    BY DEF Good
<1>5. /\ \A e \in Between(since[w], c) : Wants(w, e) => e \in have[w] \cup missed[w]
      /\ \A e \in have[w] : Wants(w, e)
      /\ have[w] \cap missed[w] = {}
      /\ \A e \in missed[w] : e[1] # bootID \/ e[2] \in Evicted
      /\ \A e \in have[w] \cup missed[w] :
           /\ e[1] \in 1 .. c.boot /\ e[2] \in 1 .. Len(LogOf(e[1]))
           /\ e[1] = c.boot => e[2] <= c.seq
    BY DEF ClientOK, FollowOK
<1>6. /\ \A b : LogOf(b)' = LogOf(b)
      /\ Evicted' = Evicted
    BY DEF LogOf, Evicted, Published
<1>7. \A e : Wants(w, e)' = Wants(w, e)
    BY <1>6 DEF Wants
<1>8. \A x, y : Between(x, y)' = Between(x, y)
    BY <1>6 DEF Between
(* Of what lies ahead. *)
<1>9. ASSUME NEW e \in Between(c, d)
      PROVE  /\ e = <<e[1], e[2]>> /\ e[1] \in c.boot .. bootID
             /\ e[2] \in 1 .. Len(LogOf(e[1]))
             /\ e[1] = c.boot => e[2] > c.seq
             /\ e[1] = bootID => e[2] \in Position(c) + 1 .. d.seq
    <2>1. /\ e \in (c.boot .. d.boot) \X (1 .. MaxSeq)
          /\ e[2] <= Len(LogOf(e[1]))
          /\ e[1] = c.boot => e[2] > c.seq
          /\ e[1] = d.boot => e[2] <= d.seq
        BY DEF Between
    <2>2. /\ e = <<e[1], e[2]>> /\ e[1] \in c.boot .. bootID /\ e[2] \in Nat \ {0}
        BY <1>1, <2>1, BoundAssumption
    <2>3. Len(LogOf(e[1])) \in Nat
        <3>1. e[1] \in 1 .. bootID
            BY <1>1, <1>2, <2>2
        <3> QED  BY <3>1, LogLength DEF BufInv, Basic
    <2> QED  BY <1>1, <1>2, <1>3, <2>1, <2>2, <2>3
<1>10. ASSUME NEW e \in Between(c, d), Wants(w, e), e[1] = bootID
       PROVE  e \in got \/ (r.gap /\ e[2] \in Evicted)
    <2>1. Match(wants[w], history[e[2]])
        BY <1>1, <1>10 DEF Wants
    <2>2. e[2] \in r.events \/ (r.gap /\ e[2] \in Evicted)
        BY <1>4, <1>9, <1>10, <2>1
    <2> QED  BY <1>1, <1>9, <1>10, <2>2
<1>11. ASSUME NEW e \in got
       PROVE  /\ e[1] = bootID /\ e[2] \in Position(c) + 1 .. d.seq
              /\ Wants(w, e)
    <2>1. PICK s \in r.events : e = <<d.boot, s>>
        OBVIOUS
    <2> QED  BY <1>1, <1>4, <2>1 DEF Wants
(* The cursor. *)
<1>12. HoldOK(w)'
    BY <1>1, <1>6 DEF HoldOK, InLog
(* Nothing is left out. *)
<1>13. ASSUME NEW e \in Between(since[w], d), Wants(w, e)
       PROVE  e \in have'[w] \cup missed'[w]
    <2>1. CASE e \in Between(since[w], c)
        BY <1>5, <1>13, <2>1
    <2>2. CASE e \notin Between(since[w], c)
        <3>1. /\ e \in (since[w].boot .. d.boot) \X (1 .. MaxSeq)
              /\ e[2] <= Len(LogOf(e[1]))
              /\ e[1] = since[w].boot => e[2] > since[w].seq
              /\ e[1] = d.boot => e[2] <= d.seq
            BY <1>13 DEF Between
        <3>2. e \in Between(c, d)
            BY <1>1, <1>2, <2>2, <3>1, BoundAssumption DEF Between
        <3>3. CASE r.gap
            BY <1>13, <3>2, <3>3
        <3>4. CASE ~r.gap
            <4>1. c.boot = bootID
                BY <1>4, <3>4
            <4>2. e[1] = bootID
                BY <1>2, <1>9, <3>2, <4>1
            <4> QED  BY <1>10, <1>13, <3>2, <3>4, <4>2
        <3> QED  BY <3>3, <3>4
    <2> QED  BY <2>1, <2>2
(* Nothing comes twice, and nothing is told missed that was got. *)
<1>14. ASSUME NEW e \in have[w] \cup missed[w]
       PROVE  e \notin got /\ e \notin Between(c, d)
    <2>1. /\ e[1] \in 1 .. c.boot /\ e[2] \in Nat
          /\ e[1] = c.boot => e[2] <= c.seq
        <3>1. e[1] \in 1 .. c.boot /\ e[2] \in 1 .. Len(LogOf(e[1]))
            BY <1>5
        <3>2. Len(LogOf(e[1])) \in Nat
            BY <1>1, <1>2, <3>1, LogLength DEF BufInv, Basic
        <3> QED  BY <1>5, <3>1, <3>2
    <2>2. e \notin got
        BY <1>2, <1>3, <1>11, <2>1
    <2>3. e \notin Between(c, d)
        BY <1>2, <1>9, <2>1
    <2> QED  BY <2>2, <2>3
<1>15. have'[w] \cap missed'[w] = {}
    BY <1>5, <1>14
<1>16. \A e \in missed'[w] : e[1] # bootID \/ e[2] \in Evicted
    <2>1. ASSUME NEW e \in new
          PROVE  e[1] # bootID \/ e[2] \in Evicted
        BY <1>10, <2>1
    <2> QED  BY <1>5, <2>1
<1>17. \A e \in have'[w] \cup missed'[w] :
          /\ e[1] \in 1 .. d.boot /\ e[2] \in 1 .. Len(LogOf(e[1]))
          /\ e[1] = d.boot => e[2] <= d.seq
    <2>1. ASSUME NEW e \in have[w] \cup missed[w]
          PROVE  /\ e[1] \in 1 .. d.boot /\ e[2] \in 1 .. Len(LogOf(e[1]))
                 /\ e[1] = d.boot => e[2] <= d.seq
        <3>1. /\ e[1] \in 1 .. c.boot /\ e[2] \in 1 .. Len(LogOf(e[1]))
              /\ e[1] = c.boot => e[2] <= c.seq
            BY <1>5
        <3>2. Len(LogOf(e[1])) \in Nat
            BY <1>1, <1>2, <3>1, LogLength DEF BufInv, Basic
        <3> QED  BY <1>1, <1>2, <1>3, <3>1, <3>2
    <2>2. ASSUME NEW e \in got
          PROVE  /\ e[1] \in 1 .. d.boot /\ e[2] \in 1 .. Len(LogOf(e[1]))
                 /\ e[1] = d.boot => e[2] <= d.seq
        BY <1>1, <1>3, <1>11, <2>2
    <2>3. ASSUME NEW e \in new
          PROVE  /\ e[1] \in 1 .. d.boot /\ e[2] \in 1 .. Len(LogOf(e[1]))
                 /\ e[1] = d.boot => e[2] <= d.seq
        <3>1. e \in Between(c, d)
            BY <2>3
        <3> QED  BY <1>1, <1>2, <1>3, <1>9, <3>1
    <2> QED  BY <2>1, <2>2, <2>3
<1>18. \A e \in have'[w] : Wants(w, e)
    BY <1>5, <1>11
<1> HIDE DEF c, d
<1>19. FollowOK(w)'
    BY <1>1, <1>2, <1>6, <1>7, <1>8, <1>13, <1>15, <1>16, <1>17, <1>18 DEF FollowOK, d
<1> QED  BY <1>12, <1>19

(* After any reply: the client goes on from the new cursor, or keeps the   *)
(* one it had.                                                             *)
LEMMA AcceptOK ==
    ASSUME BufInv, ClientTypes, LogGrows, NEW w \in Waiters, ClientOK(w),
           Accept(w)
    PROVE  ClientOK(w)'
<1>1. reply[w].next \in CursorSet
    BY DEF ClientTypes
<1>2. /\ stage[w] = "answered" /\ ~gone[w] /\ stage'[w] = "idle" /\ ended'[w] = "no"
      /\ UNCHANGED <<bootID, history, past, wants, pc, result>>
    BY <1>1 DEF Accept, Over, ClientTypes, vars, bufVars, waitVars
<1>3. WaitOK(w)'
    BY <1>1, <1>2, IdleOK DEF ClientOK
<1>4. ReplyOK(w)'
    BY <1>2 DEF ReplyOK
<1>5. HoldOK(w)' /\ FollowOK(w)'
    <2>1. CASE reply[w].err # "none"
        <3>1. UNCHANGED <<hold, since, have, missed>>
            BY <2>1 DEF Accept
        <3> QED  BY <1>1, <1>2, <3>1, FollowStays DEF ClientOK
    <2>2. CASE reply[w].err = "none"
        <3> DEFINE r   == reply[w]
                   got == {<<r.next.boot, s>> : s \in r.events}
                   new == {e \in Between(hold[w], r.next) : Wants(w, e)} \ got
        <3>1. Good(w, r)
            BY <1>1, <1>2, <2>2 DEF ClientOK, ReplyOK
        <3>2. /\ hold' = [hold EXCEPT ![w] = r.next]
              /\ since' = [since EXCEPT ![w] = IF hold[w] = EmptyCursor THEN r.next ELSE @]
              /\ have' = [have EXCEPT ![w] = @ \cup got]
              /\ missed' = IF ~r.gap \/ hold[w] = EmptyCursor THEN missed
                           ELSE [missed EXCEPT ![w] = @ \cup new]
            BY <2>2 DEF Accept
        <3> HIDE DEF got, new
        <3>3. /\ hold'[w] = r.next /\ have'[w] = have[w] \cup got
              /\ since'[w] = IF hold[w] = EmptyCursor THEN r.next ELSE since[w]
            BY <1>1, <3>2 DEF ClientTypes
        <3>4. CASE hold[w] = EmptyCursor
            BY <1>1, <1>2, <3>1, <3>2, <3>3, <3>4, AcceptFirst DEF got
        <3>5. CASE hold[w] # EmptyCursor
            <4>1. missed'[w] = missed[w] \cup (IF r.gap THEN new ELSE {})
                BY <1>1, <3>2, <3>5 DEF ClientTypes
            <4> QED  BY <1>1, <1>2, <3>1, <3>3, <3>5, <4>1, AcceptNext DEF got, new
        <3> QED  BY <3>4, <3>5
    <2> QED  BY <2>1, <2>2
<1> QED  BY <1>3, <1>4, <1>5 DEF ClientOK

-----------------------------------------------------------------------------
(* A step of the system, for one client.                                   *)

(* The variables of client v are as they were. *)
Untouched(v) ==
    /\ pc'[v] = pc[v] /\ cursor'[v] = cursor[v] /\ filter'[v] = filter[v]
    /\ gap'[v] = gap[v] /\ result'[v] = result[v] /\ asked'[v] = asked[v]
    /\ stage'[v] = stage[v] /\ wants'[v] = wants[v] /\ hold'[v] = hold[v]
    /\ reply'[v] = reply[v] /\ ended'[v] = ended[v] /\ gone'[v] = gone[v]
    /\ since'[v] = since[v] /\ have'[v] = have[v] /\ missed'[v] = missed[v]

LEMMA ClientStays ==
    ASSUME BufInv, ClientTypes, BufInv', ClientTypes', LogGrows, bootID' = bootID,
           closed => closed', NEW v \in Waiters, ClientOK(v), Untouched(v)
    PROVE  ClientOK(v)'
<1>1. WaitOK(v)'
    BY WaitStays DEF ClientOK, Untouched
<1>2. ReplyOK(v)'
    BY ReplyStays DEF ClientOK, Untouched
<1>3. HoldOK(v)' /\ FollowOK(v)'
    BY FollowStays DEF ClientOK, Untouched
<1> QED  BY <1>1, <1>2, <1>3 DEF ClientOK

(* What client w does, or the goroutine of its request. *)
ClientStep(w) ==
    \/ Ask(w) \/ Deadline(w) \/ Leave(w) \/ WaitEnded(w) \/ Reply(w)
    \/ (ReadCursor(w) \/ Scan(w) \/ Woken(w)) /\ UNCHANGED toolVars
    \/ Accept(w) \/ LoseReply(w)

LEMMA OtherClientsStay ==
    ASSUME BufInv, ClientTypes, NEW w \in Waiters, ClientStep(w), NEW v \in Waiters, v # w
    PROVE  Untouched(v)
<1>1. TypeOK
    BY DEF BufInv, Basic
<1>2. CASE WaitForMessage(w)
    BY <1>1, <1>2 DEF WaitForMessage, CallWait, TypeOK, ClientTypes, Untouched
<1>3. ASSUME NEW n \in Limits, PollEvents(w, n)
      PROVE  Untouched(v)
    BY <1>1, <1>3 DEF PollEvents, ClientTypes, Untouched, vars, waitVars
<1>4. CASE Deadline(w) \/ Leave(w)
    BY <1>4 DEF Deadline, Leave, ClientTypes, Untouched, vars, waitVars
<1>5. CASE WaitEnded(w) \/ ((ReadCursor(w) \/ Scan(w) \/ Woken(w)) /\ UNCHANGED toolVars)
    <2>1. UNCHANGED <<stage, wants, hold, reply, ended, gone, since, have, missed>>
        BY <1>5 DEF WaitEnded, toolVars, clientVars
    <2>2. /\ pc'[v] = pc[v] /\ cursor'[v] = cursor[v] /\ filter'[v] = filter[v]
          /\ gap'[v] = gap[v] /\ result'[v] = result[v] /\ asked'[v] = asked[v]
        BY <1>1, <1>5 DEF WaitEnded, ContextDone, ReadCursor, Scan, ScanClosed, ScanRefused,
                          ScanHit, ScanMiss, Scanned, Woken, Return, TypeOK
    <2> QED  BY <2>1, <2>2 DEF Untouched
<1>6. CASE Reply(w)
    BY <1>1, <1>6 DEF Reply, Forget, TypeOK, ClientTypes, Untouched
<1>7. CASE LoseReply(w)
    BY <1>7 DEF LoseReply, Over, ClientTypes, Untouched, vars, waitVars
<1>8. CASE Accept(w)
    <2>1. /\ Over(w) /\ UNCHANGED <<wants, pc, cursor, filter, gap, result, asked>>
        BY <1>8 DEF Accept, vars, waitVars
    <2>2. /\ hold'[v] = hold[v] /\ since'[v] = since[v]
          /\ have'[v] = have[v] /\ missed'[v] = missed[v]
        BY <1>8 DEF Accept, ClientTypes
    <2> QED  BY <2>1, <2>2 DEF Over, ClientTypes, Untouched
<1> QED  BY <1>2, <1>3, <1>4, <1>5, <1>6, <1>7, <1>8 DEF ClientStep, Ask

LEMMA OwnStepOK ==
    ASSUME BufInv, ClientTypes, BufInv', ClientTypes', LogGrows, NEW w \in Waiters,
           ClientOK(w), ClientStep(w)
    PROVE  ClientOK(w)'
<1>1. TypeOK
    BY DEF BufInv, Basic
(* Every step of a client but one leaves what it holds alone. *)
<1>2. CASE Accept(w)
    BY <1>2, AcceptOK
<1>3. ASSUME ~Accept(w)
      PROVE  HoldOK(w)' /\ FollowOK(w)'
    <2>1. UNCHANGED <<wants, hold, since, have, missed>>
        BY <1>3 DEF ClientStep, Ask, WaitForMessage, PollEvents, Deadline, Leave, WaitEnded,
                    Reply, LoseReply, toolVars, clientVars
    <2> QED  BY <2>1, FollowStays DEF ClientOK
(* Its wait and its reply. *)
<1>4. CASE WaitForMessage(w)
    <2>1. WaitOK(w)' /\ stage'[w] = "waiting"
        BY <1>4, CallOK DEF WaitForMessage, ClientTypes
    <2>2. ~Accept(w)
        BY <1>4 DEF WaitForMessage, Accept
    <2> QED  BY <1>3, <2>1, <2>2 DEF ClientOK, ReplyOK
<1>5. ASSUME NEW n \in Limits, PollEvents(w, n)
      PROVE  ClientOK(w)'
    <2>1. /\ UNCHANGED <<pc, result, ended, gone>> /\ stage[w] = "idle"
          /\ stage'[w] = "answered"
        BY <1>5 DEF PollEvents, ClientTypes, vars, waitVars
    <2>2. WaitOK(w)'
        BY <2>1, IdleOK DEF ClientOK, WaitOK, Ends
    <2>3. ~Accept(w)
        BY <2>1 DEF Accept
    <2> QED  BY <1>3, <1>5, <2>2, <2>3, PollOK DEF ClientOK
<1>6. CASE Deadline(w) \/ Leave(w)
    <2>1. stage[w] = "waiting" /\ stage'[w] = "waiting"
        BY <1>6 DEF Deadline, Leave
    <2>2. ~Accept(w)
        BY <2>1 DEF Accept
    <2> QED  BY <1>3, <1>6, <2>1, <2>2, EndingOK DEF ClientOK, ReplyOK
<1>7. CASE WaitEnded(w) \/ ((ReadCursor(w) \/ Scan(w) \/ Woken(w)) /\ UNCHANGED toolVars)
    <2>1. ClientWaits(w) /\ pc[w] # "idle"
        BY <1>7 DEF WaitEnded, ContextDone, ReadCursor, Scan, ScanClosed, ScanRefused, ScanHit,
                    ScanMiss, Scanned, Woken, Return, ClientWaits, toolVars, clientVars
    <2>2. stage[w] = "waiting" /\ stage'[w] = "waiting"
        BY <2>1 DEF ClientOK, WaitOK, Asks, ClientWaits
    <2>3. WaitOK(w)'
        BY <1>7, <2>1, ReadCursorOK, ScanOK, OtherWaitOK DEF WaitEnded, Scan
    <2>4. ~Accept(w)
        BY <2>2 DEF Accept
    <2> QED  BY <1>3, <2>2, <2>3, <2>4 DEF ClientOK, ReplyOK
<1>8. CASE Reply(w)
    <2>1. /\ Forget(w) /\ stage[w] = "waiting" /\ stage'[w] = "answered"
          /\ UNCHANGED <<ended, gone>>
        BY <1>8 DEF Reply, ClientTypes
    <2>2. WaitOK(w)'
        BY <1>1, <2>1, ForgottenOK DEF ClientOK
    <2>3. ~Accept(w)
        BY <2>1 DEF Accept
    <2> QED  BY <1>3, <1>8, <2>2, <2>3, WaitReplyOK DEF ClientOK
<1>9. CASE LoseReply(w)
    <2>1. /\ stage[w] = "answered" /\ stage'[w] = "idle" /\ ended'[w] = "no"
          /\ UNCHANGED <<pc, result, wants, hold, since, have, missed>>
        BY <1>9 DEF LoseReply, Over, ClientTypes, vars, waitVars
    <2>2. WaitOK(w)' /\ ReplyOK(w)'
        BY <2>1, IdleOK DEF ClientOK, ReplyOK
    <2>3. HoldOK(w)' /\ FollowOK(w)'
        BY <2>1, FollowStays DEF ClientOK
    <2> QED  BY <2>2, <2>3 DEF ClientOK
<1> QED  BY <1>2, <1>4, <1>5, <1>6, <1>7, <1>8, <1>9 DEF ClientStep, Ask

(* A restart takes the requests in progress with it, and leaves the        *)
(* clients what they hold.                                                 *)
LEMMA RestartOK ==
    ASSUME BufInv, ClientTypes, LogGrows, Restart, NEW w \in Waiters, ClientOK(w)
    PROVE  ClientOK(w)'
<1>1. /\ stage'[w] = "idle" /\ pc'[w] = "idle" /\ result'[w].err = "none"
      /\ ended'[w] = "no" /\ UNCHANGED <<wants, hold, since, have, missed>>
    BY DEF Restart
<1>2. WaitOK(w)' /\ ReplyOK(w)'
    BY <1>1 DEF WaitOK, Told, Asks, Ends, ReplyOK
<1>3. HoldOK(w)' /\ FollowOK(w)'
    BY <1>1, FollowStays DEF ClientOK
<1> QED  BY <1>2, <1>3 DEF ClientOK

LEMMA InitFollow == FollowInit => FollowInv
<1> SUFFICES ASSUME FollowInit PROVE FollowInv
    OBVIOUS
<1>1. Init
    BY DEF FollowInit
<1>2. BufInv
    BY <1>1, InitBasic, InitWaitInv, InitAnswerInv DEF BufInv
<1>3. EmptyCursor \in CursorSet
    BY DEF EmptyCursor, CursorSet
<1>4. ClientTypes
    <2>1. bootID = 1 /\ past = <<>> /\ wants \in [Waiters -> Filters]
        BY <1>1 DEF FollowInit, Init
    <2>2. past \in Seq(Seq(Payloads)) /\ Len(past) = bootID - 1 /\ bootID \in Nat \ {0}
        BY <2>1
    <2>3. /\ stage \in [Waiters -> {"idle", "waiting", "answered"}]
          /\ hold \in [Waiters -> CursorSet] /\ since \in [Waiters -> CursorSet]
          /\ ended \in [Waiters -> {"no", "deadline", "cancel"}]
          /\ gone \in [Waiters -> BOOLEAN]
        BY <1>3 DEF FollowInit
    <2>4. reply \in [Waiters -> [err: {"none", "closing", "cancelled", "bad_cursor"},
                                 events: SUBSET Nat, next: CursorSet, gap: BOOLEAN]]
        BY <1>3 DEF FollowInit, NoReply
    <2>5. /\ have \in [Waiters -> SUBSET (Nat \X Nat)]
          /\ missed \in [Waiters -> SUBSET (Nat \X Nat)]
        <3>1. {} \in SUBSET (Nat \X Nat)
            OBVIOUS
        <3> QED  BY <3>1 DEF FollowInit
    <2> QED  BY <2>1, <2>2, <2>3, <2>4, <2>5 DEF ClientTypes
<1>5. ASSUME NEW w \in Waiters
      PROVE  ClientOK(w)
    <2>1. /\ hold[w] = EmptyCursor /\ stage[w] = "idle" /\ ended[w] = "no"
          /\ have[w] = {} /\ missed[w] = {}
        BY DEF FollowInit
    <2>2. pc[w] = "idle" /\ result[w].err = "none"
        BY <1>1 DEF Init
    <2> QED  BY <2>1, <2>2 DEF ClientOK, HoldOK, WaitOK, Told, Asks, Ends, ReplyOK, FollowOK
<1> QED  BY <1>2, <1>4, <1>5 DEF FollowInv

LEMMA FollowStep == FollowInv /\ [FollowNext]_allVars => FollowInv'
<1> SUFFICES ASSUME FollowInv, [FollowNext]_allVars PROVE FollowInv'
    OBVIOUS
<1>1. BufInv /\ ClientTypes /\ \A w \in Waiters : ClientOK(w)
    BY DEF FollowInv
<1>2. BufInv' /\ ClientTypes' /\ LogGrows
    BY <1>1, BufferStep, ClientTypesStep, StepGrowsLog
<1>3. ASSUME NEW v \in Waiters
      PROVE  ClientOK(v)'
    <2>1. CASE Restart
        BY <1>1, <1>2, <2>1, RestartOK
    <2>2. ASSUME UNCHANGED toolVars /\ UNCHANGED waitVars, bootID' = bootID, closed => closed'
          PROVE  ClientOK(v)'
        <3>1. Untouched(v)
            BY <2>2 DEF Untouched, toolVars, clientVars, waitVars
        <3> QED  BY <1>1, <1>2, <2>2, <3>1, ClientStays
    <2>3. CASE Close /\ UNCHANGED toolVars
        BY <2>2, <2>3 DEF Close
    <2>4. CASE (\E b \in Payloads : AppendEvent(b)) /\ UNCHANGED toolVars
        BY <2>2, <2>4 DEF AppendEvent
    <2>5. CASE UNCHANGED allVars
        BY <2>2, <2>5 DEF allVars, vars, bufVars
    <2>6. ASSUME NEW w \in Waiters, ClientStep(w)
          PROVE  ClientOK(v)'
        <3>1. bootID' = bootID /\ closed' = closed
            BY <2>6 DEF ClientStep, Ask, WaitForMessage, PollEvents, CallWait, Deadline, Leave,
                        Accept, LoseReply, Reply, WaitEnded, ContextDone, ReadCursor, Scan,
                        ScanClosed, ScanRefused, ScanHit, ScanMiss, Woken, Return, vars, bufVars
        <3>2. CASE v = w
            BY <1>1, <1>2, <2>6, <3>2, OwnStepOK
        <3>3. CASE v # w
            BY <1>1, <1>2, <2>6, <3>1, <3>3, OtherClientsStay, ClientStays
        <3> QED  BY <3>2, <3>3
    <2> QED  BY <2>1, <2>3, <2>4, <2>5, <2>6 DEF FollowNext, ClientStep
<1> QED  BY <1>2, <1>3 DEF FollowInv

LEMMA InvariantFollow == FollowSpec => []FollowInv
BY InitFollow, FollowStep, PTL DEF FollowSpec

-----------------------------------------------------------------------------
(* What the clients can rely on.                                           *)

(* Through restarts, retries and waits that end in any way the buffer is   *)
(* what it is for one process alone (buffer.go): the ring holds the latest *)
(* events, no channel is closed twice, no sleeper has anything to wake up  *)
(* for, and a wait skips nothing in silence and answers right.             *)
THEOREM FollowKeepsBuffer ==
    FollowSpec => [](/\ TypeOK /\ RingHoldsLatest /\ NoDoubleClose /\ NoLostWakeup
                     /\ NoSilentSkip /\ WaitAnswers)
<1>1. BufInv => TypeOK /\ RingHoldsLatest
    BY DEF BufInv, Basic
<1>2. BufInv => NoDoubleClose /\ NoLostWakeup
    BY DEF BufInv, Basic, TypeOK, WaitInv, ChannelsClosed, WaiterOK, Asleep, NoDoubleClose,
           NoLostWakeup
<1>3. BufInv => NoSilentSkip
    BY DEF BufInv, WaitInv, WaiterOK, Passed, NoSilentSkip
<1>4. BufInv => WaitAnswers
    BY DEF BufInv, AnswerInv, AnswerOK, Returned, Justified, Usable, WaitAnswers,
           WaitReturnsMatch, GapJustified, ResumeCursorUsable
<1> QED  BY <1>1, <1>2, <1>3, <1>4, InvariantFollow, PTL DEF FollowInv

(* poll_events, to every cursor, filter and limit, and at any time: pages  *)
(* without a cursor show the latest, pages after one leave nothing out and *)
(* show nothing twice, and "gap" says exactly when events are gone         *)
(* (buffer.go 130-171).                                                    *)
THEOREM EveryPageRight == FollowSpec => []EveryPage
<1>1. FollowInv => EveryPage
    BY PagesTell DEF FollowInv, BufInv, Basic
<1> QED  BY <1>1, InvariantFollow, PTL

(* The same, as the run states it. *)
THEOREM PagesTellAllHolds == FollowSpec => []PagesTellAll
BY EveryPageRight, EveryPageTells, PTL

(* "A timeout is a normal result that returns a cursor to keep waiting     *)
(* from" (events.go:131): a client that stays gets an error only from a    *)
(* server that shuts down, never because of a cursor it was given.         *)
THEOREM ErrorsExplainedHolds == FollowSpec => []ErrorsExplained
<1>1. FollowInv => ErrorsExplained
    <2> SUFFICES ASSUME FollowInv, NEW w \in Waiters, stage[w] = "answered"
                 PROVE  /\ reply[w].err \in {"none", "closing", "cancelled"}
                        /\ reply[w].err = "none" =>
                              /\ reply[w].next.form = "at" /\ reply[w].next.boot = bootID
                              /\ hold[w].boot = bootID => reply[w].next.seq >= hold[w].seq
                        /\ reply[w].err = "closing" => closed
                        /\ reply[w].err = "cancelled" => gone[w]
        BY DEF ErrorsExplained
    <2>1. ClientOK(w) /\ hold[w] \in CursorSet /\ reply[w].next \in CursorSet
        BY DEF FollowInv, ClientTypes
    <2>2. CASE reply[w].err = "none" /\ Good(w, reply[w])
        <3>1. hold[w].boot = bootID => reply[w].next.seq >= hold[w].seq
            <4> SUFFICES ASSUME hold[w].boot = bootID PROVE reply[w].next.seq >= hold[w].seq
                OBVIOUS
            <4>1. bootID # 0
                BY DEF FollowInv, ClientTypes
            <4>2. Position(hold[w]) = hold[w].seq
                BY <2>1, <4>1 DEF ClientOK, HoldOK, InLog, EmptyCursor, Position
            <4> QED  BY <2>1, <2>2, <4>2 DEF Good, CursorSet
        <3> QED  BY <2>2, <3>1 DEF Good
    <2>3. CASE reply[w].err = "closing" /\ closed
        BY <2>3
    <2>4. CASE reply[w].err = "cancelled" /\ gone[w]
        BY <2>4
    <2> QED  BY <2>1, <2>2, <2>3, <2>4 DEF ClientOK, ReplyOK
<1> QED  BY <1>1, InvariantFollow, PTL

(* "Pass next_cursor back to continue" (events.go:63): whatever replies    *)
(* are lost, waits time out and processes restart, what a client follows   *)
(* reaches it once, or it is told that it may have missed it.              *)
THEOREM FollowsLogHolds == FollowSpec => []FollowsLog
<1>1. FollowInv => FollowsLog
    <2> SUFFICES ASSUME FollowInv, NEW w \in Waiters, hold[w] # EmptyCursor
                 PROVE  /\ \A e \in Between(since[w], hold[w]) :
                              Wants(w, e) => e \in have[w] \cup missed[w]
                        /\ \A e \in have[w] : Wants(w, e)
                        /\ have[w] \cap missed[w] = {}
                        /\ \A e \in missed[w] : e[1] # bootID \/ e[2] \in Evicted
                        /\ stage[w] = "answered" /\ reply[w].err = "none" =>
                              \A s \in reply[w].events :
                                 <<reply[w].next.boot, s>> \notin have[w] \cup missed[w]
        BY DEF FollowsLog
    <2>1. /\ ClientOK(w) /\ hold[w] \in CursorSet /\ bootID \in Nat
          /\ \A e \in have[w] \cup missed[w] : e[2] \in Nat
        <3>1. have[w] \in SUBSET (Nat \X Nat) /\ missed[w] \in SUBSET (Nat \X Nat)
            BY DEF FollowInv, ClientTypes
        <3> QED  BY <3>1 DEF FollowInv, ClientTypes
    <2>2. FollowOK(w) /\ InLog(hold[w])
        BY <2>1 DEF ClientOK, HoldOK
    <2>3. ASSUME stage[w] = "answered", reply[w].err = "none", NEW s \in reply[w].events
          PROVE  <<reply[w].next.boot, s>> \notin have[w] \cup missed[w]
        <3>1. Good(w, reply[w])
            BY <2>1, <2>3 DEF ClientOK, ReplyOK
        <3>2. /\ reply[w].next.boot = bootID /\ Position(hold[w]) \in Nat
              /\ s \in Position(hold[w]) + 1 .. reply[w].next.seq
            BY <2>1, <3>1, PositionType DEF Good
        <3>3. SUFFICES ASSUME <<bootID, s>> \in have[w] \cup missed[w] PROVE FALSE
            BY <3>2
        <3>4. /\ bootID \in 1 .. hold[w].boot
              /\ bootID = hold[w].boot => s <= hold[w].seq
            BY <2>2, <3>3 DEF FollowOK
        <3>5. hold[w].boot = bootID /\ hold[w].form = "at" /\ s <= hold[w].seq
            BY <2>1, <2>2, <3>4 DEF InLog, CursorSet
        <3>6. Position(hold[w]) = hold[w].seq
            BY <3>5 DEF Position
        <3> QED  BY <2>1, <3>2, <3>5, <3>6 DEF CursorSet
    <2> QED  BY <2>2, <2>3 DEF FollowOK
<1> QED  BY <1>1, InvariantFollow, PTL
=============================================================================
