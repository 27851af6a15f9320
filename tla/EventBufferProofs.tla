------------------------- MODULE EventBufferProofs -------------------------
(***************************************************************************)
(* Theorems about EventBuffer, for every capacity, set of waiters, payload *)
(* and filter, and every cursor a caller can present.                      *)
(***************************************************************************)
EXTENDS EventBuffer, FiniteSetTheorems, TLAPS

-----------------------------------------------------------------------------
(* Facts about numbers and sets.                                           *)

(* One wrap-around: the index of a slot at most one lap ahead. *)
LEMMA ModOneLap ==
    ASSUME NEW n \in Nat \ {0}, NEW a \in 0 .. 2 * n - 1
    PROVE  a % n = IF a < n THEN a ELSE a - n
<1>1. CASE a < n
    BY <1>1, SMT
<1>2. CASE ~(a < n)
    BY <1>2, SMT
<1> QED  BY <1>1, <1>2

(* The index arithmetic of at(): one subtraction of n does what % n does   *)
(* on a sum of two slots.                                                  *)
LEMMA ModSum ==
    ASSUME NEW n \in Nat \ {0}, NEW s \in 0 .. n - 1, NEW i \in 0 .. n - 1
    PROVE  (s + i) % n = IF s + i < n THEN s + i ELSE s + i - n
<1> DEFINE a == s + i
<1>1. a \in 0 .. 2 * n - 1
    OBVIOUS
<1> HIDE DEF a
<1>2. a % n = IF a < n THEN a ELSE a - n
    BY <1>1, ModOneLap
<1> QED  BY <1>2 DEF a

(* From a start s, the n slots s, s+1, ... of a ring are all different.    *)
LEMMA SlotsDistinct ==
    ASSUME NEW n \in Nat \ {0}, NEW s \in 0 .. n - 1
    PROVE  \A i, j \in 0 .. n - 1 :
                /\ (s + i) % n \in 0 .. n - 1
                /\ i # j => (s + i) % n # (s + j) % n
<1>1. ASSUME NEW i \in 0 .. n - 1
      PROVE  (s + i) % n = IF s + i < n THEN s + i ELSE s + i - n
    BY ModSum
<1> QED  BY <1>1

(* Moving the start by one slot moves every index by one slot. *)
LEMMA SlotsShift ==
    ASSUME NEW n \in Nat \ {0}, NEW s \in 0 .. n - 1
    PROVE  /\ (s + 1) % n \in 0 .. n - 1
           /\ \A i \in 0 .. n - 2 : (((s + 1) % n) + i) % n = (s + (i + 1)) % n
           /\ (((s + 1) % n) + (n - 1)) % n = s
<1> DEFINE t == (s + 1) % n
<1>1. t = IF s + 1 < n THEN s + 1 ELSE 0
    <2>1. s + 1 \in 0 .. 2 * n - 1
        OBVIOUS
    <2> QED  BY <2>1, ModOneLap
<1> HIDE DEF t
<1>2. t \in 0 .. n - 1
    BY <1>1
<1>3. ASSUME NEW i \in 0 .. n - 1
      PROVE  (t + i) % n = IF t + i < n THEN t + i ELSE t + i - n
    BY <1>2, ModSum
<1>4. ASSUME NEW i \in 0 .. n - 2
      PROVE  (t + i) % n = (s + (i + 1)) % n
    <2> DEFINE a == s + (i + 1)
    <2>1. a \in 0 .. 2 * n - 1
        OBVIOUS
    <2>2. a - n = s + 1 - n + i /\ a = s + 1 + i
        OBVIOUS
    <2> HIDE DEF a
    <2>3. a % n = IF a < n THEN a ELSE a - n
        BY <2>1, ModOneLap
    <2>4. (t + i) % n = IF t + i < n THEN t + i ELSE t + i - n
        BY <1>3
    <2>5. (t + i) % n = a % n
        BY <1>1, <1>2, <2>1, <2>2, <2>3, <2>4
    <2> QED  BY <2>5 DEF a
<1>5. (t + (n - 1)) % n = s
    <2>1. n - 1 \in 0 .. n - 1
        OBVIOUS
    <2> QED  BY <1>1, <1>2, <1>3, <2>1
<1> QED  BY <1>2, <1>4, <1>5 DEF t

(* From slot s on, the ring r of n slots holds h[m-k+1] ... h[m].          *)
Holds(n, r, s, k, h, m) ==
    \A i \in 0 .. k - 1 : r[(s + i) % n] = h[m - k + 1 + i]

(* q is r with v in slot x. *)
Writes(n, q, r, x, v) == \A y \in 0 .. n - 1 : q[y] = IF y = x THEN v ELSE r[y]

(* Writing h[m+1] in the slot after the entries held, or over the oldest   *)
(* when the ring is full, makes it hold the last entries up to m+1.        *)
LEMMA PushOnRing ==
    ASSUME NEW n \in Nat \ {0}, NEW s \in 0 .. n - 1, NEW k \in 0 .. n - 1,
           NEW m \in Nat, NEW h, NEW r, NEW q,
           Holds(n, r, s, k, h, m), Writes(n, q, r, (s + k) % n, h[m + 1])
    PROVE  Holds(n, q, s, k + 1, h, m + 1)
<1>1. (s + k) % n \in 0 .. n - 1
    BY SlotsDistinct
<1>2. q[(s + k) % n] = h[m + 1]
    BY <1>1 DEF Writes
<1>3. ASSUME NEW i \in 0 .. k - 1
      PROVE  q[(s + i) % n] = h[m - k + 1 + i]
    <2>1. i \in 0 .. n - 1 /\ k \in 0 .. n - 1 /\ i # k
        OBVIOUS
    <2>2. (s + i) % n \in 0 .. n - 1 /\ (s + i) % n # (s + k) % n
        BY <2>1, SlotsDistinct
    <2> QED  BY <2>2 DEF Holds, Writes
<1>4. ASSUME NEW i \in 0 .. k + 1 - 1
      PROVE  q[(s + i) % n] = h[m + 1 - (k + 1) + 1 + i]
    <2>1. m + 1 - (k + 1) + 1 + i = m - k + 1 + i
        OBVIOUS
    <2>2. CASE i = k
        <3>1. m - k + 1 + i = m + 1
            BY <2>2
        <3> QED  BY <1>2, <2>1, <2>2, <3>1
    <2>3. CASE i # k
        <3>1. i \in 0 .. k - 1
            BY <2>3
        <3> QED  BY <1>3, <2>1, <3>1
    <2> QED  BY <2>2, <2>3
<1> QED  BY <1>4 DEF Holds

(* Over a full ring the push replaces the oldest slot and start moves on:  *)
(* the ring holds the last n entries of the longer history.                *)
LEMMA PushOnFullRing ==
    ASSUME NEW n \in Nat \ {0}, NEW s \in 0 .. n - 1,
           NEW m \in Nat, NEW h, NEW r, NEW q,
           Holds(n, r, s, n, h, m), Writes(n, q, r, s, h[m + 1])
    PROVE  Holds(n, q, (s + 1) % n, n, h, m + 1)
<1> DEFINE t == (s + 1) % n
<1>1. q[s] = h[m + 1]
    BY DEF Writes
<1>2. ASSUME NEW i \in 1 .. n - 1
      PROVE  q[(s + i) % n] = h[m - n + 1 + i]
    <2>1. (s + i) % n = IF s + i < n THEN s + i ELSE s + i - n
        BY ModSum
    <2>2. (s + i) % n \in 0 .. n - 1 /\ (s + i) % n # s
        BY <2>1
    <2> QED  BY <2>2 DEF Holds, Writes
<1>3. /\ \A i \in 0 .. n - 2 : (t + i) % n = (s + (i + 1)) % n
      /\ (t + (n - 1)) % n = s
    BY SlotsShift
<1> HIDE DEF t
<1>4. ASSUME NEW i \in 0 .. n - 1
      PROVE  q[(t + i) % n] = h[m + 1 - n + 1 + i]
    <2>1. CASE i = n - 1
        <3>1. m + 1 - n + 1 + i = m + 1
            BY <2>1
        <3> QED  BY <1>1, <1>3, <2>1, <3>1
    <2>2. CASE i # n - 1
        <3>1. i \in 0 .. n - 2 /\ i + 1 \in 1 .. n - 1
            BY <2>2
        <3>2. m + 1 - n + 1 + i = m - n + 1 + (i + 1)
            OBVIOUS
        <3> QED  BY <1>2, <1>3, <3>1, <3>2
    <2> QED  BY <2>1, <2>2
<1> QED  BY <1>4 DEF Holds, t

(* Every non-empty set of natural numbers has a least element. *)
LEMMA LeastNatural ==
    ASSUME NEW S, S \subseteq Nat, S # {}
    PROVE  \E m \in S : \A n \in S : m <= n
<1>1. PICK m \in S : \A n \in S : ~(<<n, m>> \in OpToRel(<, Nat))
    BY WFMin, NatLessThanWellFounded
<1>2. \A n \in S : ~(n < m)
    BY <1>1 DEF OpToRel
<1> QED  BY <1>2

-----------------------------------------------------------------------------
(* Type correctness of a page: whatever the arguments, Since returns       *)
(* events of the ring and a seq.                                           *)

(* What at() reads is an event.                                            *)
LEMMA AtType ==
    ASSUME TypeOK, NEW i \in Nat
    PROVE  At(i) \in Event
<1>1. (start + i) % Size \in Slots
    BY SizeAssumption DEF TypeOK, Slots
<1> QED  BY <1>1 DEF TypeOK, At

(* A ring holds finitely many events.                                      *)
LEMMA RetainedFinite ==
    ASSUME TypeOK
    PROVE  Retained \subseteq Event /\ IsFiniteSet(Retained)
<1>1. Retained \subseteq Event
    BY AtType DEF Retained, TypeOK
<1> DEFINE f == [i \in 0 .. count - 1 |-> At(i)]
<1>2. f \in Surjection(0 .. count - 1, Retained)
    BY DEF Surjection, Retained
<1>3. IsFiniteSet(0 .. count - 1)
    BY FS_Interval, SizeAssumption DEF TypeOK
<1>4. IsFiniteSet(Retained)
    BY <1>2, <1>3, FS_Surjection
<1> QED  BY <1>1, <1>4

-----------------------------------------------------------------------------
(* What the ring holds.                                                    *)

(* The events of the ring are exactly the surviving entries of history.    *)
LEMMA RetainedIsSurviving ==
    ASSUME TypeOK, RingHoldsLatest
    PROVE  Retained = {Stored(s) : s \in Surviving}
<1>1. Published \in Nat /\ count \in Nat /\ Published = lastSeq
    BY DEF TypeOK, RingHoldsLatest, Published
<1>2. Surviving = Published - count + 1 .. Published
    BY <1>1, SizeAssumption DEF RingHoldsLatest, Surviving, Evicted
<1>3. ASSUME NEW i \in 0 .. count - 1
      PROVE  /\ Published - count + 1 + i \in Surviving
             /\ At(i) = Stored(Published - count + 1 + i)
    BY <1>1, <1>2 DEF RingHoldsLatest
<1>4. ASSUME NEW s \in Surviving
      PROVE  /\ s - (Published - count + 1) \in 0 .. count - 1
             /\ At(s - (Published - count + 1)) = Stored(s)
    <2>1. s - (Published - count + 1) \in 0 .. count - 1
        BY <1>1, <1>2
    <2>2. Published - count + 1 + (s - (Published - count + 1)) = s
        BY <1>1, <1>2
    <2> QED  BY <1>3, <2>1, <2>2
<1> QED  BY <1>3, <1>4 DEF Retained

(* Two events of the ring with the same seq are the same event. *)
LEMMA SeqIdentifies ==
    ASSUME TypeOK, RingHoldsLatest
    PROVE  /\ \A e \in Retained : e.seq \in 1 .. Published /\ e = Stored(e.seq)
           /\ \A d, e \in Retained : d.seq = e.seq => d = e
<1>1. \A s : Stored(s).seq = s
    BY DEF Stored
<1>2. Surviving \subseteq 1 .. Published
    BY DEF Surviving
<1> QED  BY <1>1, <1>2, RetainedIsSurviving

(* oldestSeqLocked is the seq of the oldest event kept, or the next one to *)
(* be stored when nothing is.                                              *)
LEMMA OldestIs ==
    ASSUME TypeOK, RingHoldsLatest
    PROVE  Oldest = lastSeq - count + 1
<1>1. count \in Nat /\ lastSeq \in Nat
    BY DEF TypeOK
<1>2. CASE count > 0
    <2>1. At(0) = Stored(lastSeq - count + 1 + 0)
        BY <1>1, <1>2 DEF RingHoldsLatest
    <2> QED  BY <1>1, <1>2, <2>1 DEF Oldest, Stored
<1>3. CASE count = 0
    BY <1>1, <1>3 DEF Oldest
<1> QED  BY <1>1, <1>2, <1>3

-----------------------------------------------------------------------------
(* A page of one event, as Wait asks for: the earliest hit, or nothing and *)
(* then there is no hit.                                                   *)
LEMMA EarliestOne ==
    ASSUME NEW S, IsFiniteSet(S), \A e \in S : e.seq \in Nat,
           \A d, e \in S : d.seq = e.seq => d = e
    PROVE  IF S = {} THEN Earliest(S, 1) = {}
           ELSE \E e \in S : /\ Earliest(S, 1) = {e}
                             /\ \A d \in S : e.seq <= d.seq
<1>1. CASE S = {}
    BY <1>1 DEF Earliest
<1>2. CASE S # {}
    <2> DEFINE upTo(e) == {d \in S : d.seq <= e.seq}
    <2>1. PICK e \in S : \A d \in S : e.seq <= d.seq
        <3>1. {d.seq : d \in S} \subseteq Nat /\ {d.seq : d \in S} # {}
            BY <1>2
        <3>2. PICK m \in {d.seq : d \in S} : \A n \in {d.seq : d \in S} : m <= n
            BY <3>1, LeastNatural
        <3> QED  BY <3>2
    <2>2. e \in Earliest(S, 1)
        <3>1. upTo(e) = {e}
            BY <2>1
        <3>2. Cardinality(upTo(e)) = 1
            BY <3>1, FS_Singleton
        <3> QED  BY <3>2 DEF Earliest
    <2>3. ASSUME NEW d \in Earliest(S, 1)
          PROVE  d = e
        <3>1. d \in S /\ Cardinality(upTo(d)) <= 1
            BY DEF Earliest
        <3>2. e \in upTo(d) /\ d \in upTo(d)
            BY <3>1, <2>1
        <3>3. IsFiniteSet(upTo(d))
            BY FS_Subset
        <3>4. Cardinality(upTo(d)) \in Nat /\ Cardinality(upTo(d)) # 0
            BY <3>2, <3>3, FS_CardinalityType, FS_EmptySet
        <3>5. Cardinality(upTo(d)) = 1
            BY <3>1, <3>4
        <3>6. PICK x : upTo(d) = {x}
            BY <3>3, <3>5, FS_Singleton
        <3> QED  BY <3>2, <3>6
    <2> QED  BY <1>2, <2>1, <2>2, <2>3
<1> QED  BY <1>1, <1>2

(* Parse yields a seq to read after, never past the newest event. *)
LEMMA ParseType ==
    ASSUME TypeOK, NEW c \in CursorSet
    PROVE  /\ Parse(c).after \in 0 .. lastSeq
           /\ Parse(c).gap \in BOOLEAN
           /\ ~Parse(c).bad => Parse(c).after = Position(c)
<1>1. lastSeq \in Nat /\ c.seq \in Nat
    BY DEF TypeOK, CursorSet
<1>2. CASE c.form # "at"
    BY <1>1, <1>2 DEF Parse
<1>3. CASE c.form = "at" /\ c.boot # bootID
    BY <1>1, <1>3 DEF Parse, Position
<1>4. CASE c.form = "at" /\ c.boot = bootID /\ c.seq > lastSeq
    <2>1. Parse(c) = [after |-> 0, gap |-> FALSE, bad |-> TRUE]
        BY <1>4 DEF Parse
    <2> QED  BY <1>1, <2>1
<1>5. CASE c.form = "at" /\ c.boot = bootID /\ ~(c.seq > lastSeq)
    <2>1. Parse(c) = [after |-> c.seq, gap |-> c.seq + 1 < Oldest, bad |-> FALSE]
        BY <1>5 DEF Parse
    <2> QED  BY <1>1, <1>5, <2>1 DEF Position
<1> QED  BY <1>2, <1>3, <1>4, <1>5

(* The page Wait gets for a cursor that parse accepts. *)
LEMMA SinceOne ==
    ASSUME TypeOK, RingHoldsLatest, NEW c \in CursorSet, NEW f,
           c.form # "empty", ~Parse(c).bad
    PROVE  LET p == Since(c, f, 1)
               H == Hits(Position(c), f)
           IN  /\ ~p.bad /\ p.gap = Parse(c).gap
               /\ \/ H = {} /\ p.events = {} /\ p.next = lastSeq
                  \/ \E e \in H : /\ p.events = {e} /\ p.next = e.seq
                                  /\ \A d \in H : e.seq <= d.seq
<1> DEFINE H   == Hits(Position(c), f)
           out == Earliest(H, 1)
           nxt == NextSeq(out, 1)
<1>1. Parse(c).after = Position(c) /\ Position(c) \in 0 .. lastSeq
    BY ParseType
<1>2. Since(c, f, 1) =
        [events |-> out, next |-> IF nxt < Position(c) THEN Position(c) ELSE nxt,
         gap |-> Parse(c).gap, bad |-> FALSE]
    BY <1>1 DEF Since
<1>3. /\ IsFiniteSet(H)
      /\ \A e \in H : e.seq \in Nat /\ e.seq > Position(c)
      /\ \A d, e \in H : d.seq = e.seq => d = e
    <2>1. H \in SUBSET Retained
        BY DEF Hits
    <2>2. IsFiniteSet(H)
        BY <2>1, RetainedFinite, FS_Subset
    <2> QED  BY <2>1, <2>2, SeqIdentifies DEF Hits
<1>4. CASE H = {}
    <2>1. out = {} /\ Cardinality(out) = 0
        BY <1>3, <1>4, EarliestOne, FS_EmptySet
    <2>2. nxt = lastSeq
        BY <2>1 DEF NextSeq
    <2>3. ~(nxt < Position(c))
        BY <1>1, <2>2 DEF TypeOK
    <2> QED  BY <1>2, <1>4, <2>1, <2>2, <2>3
<1>5. CASE H # {}
    <2>1. PICK e \in H : out = {e} /\ \A d \in H : e.seq <= d.seq
        BY <1>3, <1>5, EarliestOne
    <2>2. Cardinality(out) = 1
        BY <2>1, FS_Singleton
    <2>3. LastOf(out) = e
        BY <1>3, <2>1 DEF LastOf
    <2>4. nxt = e.seq /\ ~(nxt < Position(c))
        BY <1>1, <1>3, <2>2, <2>3 DEF NextSeq
    <2> QED  BY <1>2, <2>1, <2>4
<1> QED  BY <1>4, <1>5

-----------------------------------------------------------------------------
(* The type of what Wait does with a page. *)
LEMMA PageType ==
    ASSUME TypeOK, RingHoldsLatest, NEW w \in Waiters,
           cursor[w].form # "empty", ~Since(cursor[w], filter[w], 1).bad,
           NEW p, p = Since(cursor[w], filter[w], 1)
    PROVE  /\ ~Parse(cursor[w]).bad
           /\ p.gap \in BOOLEAN
           /\ p.next \in Nat /\ Position(cursor[w]) <= p.next /\ p.next <= lastSeq
           /\ p.events \subseteq Retained
<1>1. cursor[w] \in CursorSet
    BY DEF TypeOK
<1>2. ~Parse(cursor[w]).bad
    BY DEF Since
<1>3. /\ Position(cursor[w]) \in 0 .. lastSeq
      /\ Parse(cursor[w]).gap \in BOOLEAN
    BY <1>1, <1>2, ParseType
<1>4. \A e \in Hits(Position(cursor[w]), filter[w]) :
            /\ e \in Retained /\ e.seq \in Position(cursor[w]) + 1 .. lastSeq
    BY <1>3, SeqIdentifies DEF Hits, RingHoldsLatest, TypeOK
<1>5. lastSeq \in Nat
    BY DEF TypeOK
<1> QED  BY <1>1, <1>2, <1>3, <1>4, <1>5, SinceOne

-----------------------------------------------------------------------------
(* The invariant.  TypeOK alone is not inductive: that a page read from    *)
(* the ring has a type rests on what the ring holds.  A waiter past the    *)
(* first critical section no longer has an empty cursor.                   *)
CursorRead == \A w \in Waiters :
                pc[w] \in {"scan", "select"} => cursor[w].form # "empty"

Basic == TypeOK /\ RingHoldsLatest /\ CursorRead

(* NewBuffer establishes the ring part of the invariant.                   *)
LEMMA InitBasic == Init => Basic
<1> SUFFICES ASSUME Init PROVE Basic
    OBVIOUS
<1>1. NoEvent \in Event
    BY DEF NoEvent, Event
<1>2. TypeOK
    <2>1. EmptyCursor \in CursorSet /\ 0 \in Slots
        BY SizeAssumption DEF CursorSet, EmptyCursor, Slots
    <2>2. /\ bootID \in Nat /\ ring \in [Slots -> Event] /\ start \in Slots
          /\ count \in 0 .. Size /\ lastSeq \in Nat /\ changed \in Nat
          /\ closedChans \subseteq Nat /\ closed \in BOOLEAN
          /\ history \in Seq(Payloads)
        BY <1>1, <2>1, SizeAssumption DEF Init
    <2>3. /\ pc \in [Waiters -> {"idle", "start", "scan", "select", "returned"}]
          /\ cursor \in [Waiters -> CursorSet]
          /\ filter \in [Waiters -> Filters \cup {NoFilter}]
          /\ gap \in [Waiters -> BOOLEAN]
          /\ ch \in [Waiters -> Nat]
          /\ asked \in [Waiters -> CursorSet]
        BY <2>1 DEF Init
    <2>4. result \in [Waiters -> [event: Event, err: Errors]]
        BY <1>1 DEF Init, Errors
    <2> QED  BY <2>2, <2>3, <2>4 DEF TypeOK
<1>3. RingHoldsLatest
    BY SizeAssumption DEF Init, RingHoldsLatest, Published
<1>4. CursorRead
    BY DEF Init, CursorRead
<1> QED  BY <1>2, <1>3, <1>4 DEF Basic

(* Storing an event keeps the ring the last Size entries of history. *)
LEMMA AppendKeepsRing ==
    ASSUME TypeOK, RingHoldsLatest, NEW b \in Payloads, AppendEvent(b)
    PROVE  /\ ring' \in [Slots -> Event] /\ start' \in Slots
           /\ count' \in 0 .. Size /\ lastSeq' \in Nat
           /\ history' \in Seq(Payloads)
           /\ RingHoldsLatest'
<1> DEFINE e == [seq |-> lastSeq + 1, body |-> b]
           h == [s \in 1 .. lastSeq + 1 |-> [seq |-> s, body |-> history'[s]]]
<1>1. /\ Size \in Nat \ {0} /\ start \in 0 .. Size - 1 /\ count \in 0 .. Size
      /\ lastSeq \in Nat /\ lastSeq = Len(history)
      /\ ring \in [0 .. Size - 1 -> Event]
    BY SizeAssumption DEF TypeOK, Slots, RingHoldsLatest, Published
<1>2. e \in Event
    BY <1>1 DEF Event
<1>3. /\ history' \in Seq(Payloads) /\ lastSeq' = lastSeq + 1
      /\ Len(history') = lastSeq + 1
      /\ \A s \in 1 .. lastSeq : history'[s] = history[s]
      /\ history'[lastSeq + 1] = b
    BY <1>1 DEF AppendEvent, TypeOK
<1>4. count = IF lastSeq < Size THEN lastSeq ELSE Size
    BY <1>1 DEF RingHoldsLatest, Published
<1>5. h[lastSeq + 1] = e
    BY <1>1, <1>3
<1>6. Holds(Size, ring, start, count, h, lastSeq)
    <2>1. ASSUME NEW i \in 0 .. count - 1
          PROVE  lastSeq - count + 1 + i \in 1 .. lastSeq
        BY <1>1, <1>4
    <2>2. ASSUME NEW i \in 0 .. count - 1
          PROVE  ring[(start + i) % Size] = Stored(lastSeq - count + 1 + i)
        BY DEF RingHoldsLatest, At
    <2>3. ASSUME NEW s \in 1 .. lastSeq
          PROVE  h[s] = Stored(s)
        BY <1>1, <1>3 DEF Stored
    <2> HIDE DEF h
    <2> QED  BY <2>1, <2>2, <2>3 DEF Holds
<1>7. \/ /\ count < Size
         /\ ring' = [ring EXCEPT ![(start + count) % Size] = e]
         /\ count' = count + 1 /\ start' = start
      \/ /\ count = Size
         /\ ring' = [ring EXCEPT ![start] = e]
         /\ count' = Size /\ start' = (start + 1) % Size
    BY DEF AppendEvent, Store
<1>8. /\ ring' \in [0 .. Size - 1 -> Event] /\ start' \in 0 .. Size - 1
      /\ count' \in 0 .. Size
      /\ count' = IF lastSeq + 1 < Size THEN lastSeq + 1 ELSE Size
    <2>1. CASE count < Size
        <3>1. (start + count) % Size \in 0 .. Size - 1
            BY <1>1, <2>1, SlotsDistinct
        <3>2. /\ ring' = [ring EXCEPT ![(start + count) % Size] = e]
              /\ count' = count + 1 /\ start' = start
            BY <1>1, <1>7, <2>1
        <3>3. ring' \in [0 .. Size - 1 -> Event]
            BY <1>1, <1>2, <3>1, <3>2
        <3> QED  BY <1>1, <1>4, <2>1, <3>2, <3>3
    <2>2. CASE count = Size
        <3>1. (start + 1) % Size \in 0 .. Size - 1
            BY <1>1, SlotsShift
        <3>2. /\ ring' = [ring EXCEPT ![start] = e]
              /\ count' = Size /\ start' = (start + 1) % Size
            BY <1>1, <1>7, <2>2
        <3>3. ring' \in [0 .. Size - 1 -> Event]
            BY <1>1, <1>2, <3>2
        <3> QED  BY <1>1, <1>4, <2>2, <3>1, <3>2, <3>3
    <2> QED  BY <1>1, <2>1, <2>2
<1>9. Holds(Size, ring', start', count', h, lastSeq + 1)
    <2> HIDE DEF e, h
    <2>1. CASE count < Size
        <3>1. /\ ring' = [ring EXCEPT ![(start + count) % Size] = h[lastSeq + 1]]
              /\ count' = count + 1 /\ start' = start
            BY <1>1, <1>5, <1>7, <2>1
        <3>2. Writes(Size, ring', ring, (start + count) % Size, h[lastSeq + 1])
            BY <1>1, <3>1 DEF Writes
        <3>3. count \in 0 .. Size - 1
            BY <1>1, <2>1
        <3> QED  BY <1>1, <1>6, <3>1, <3>2, <3>3, PushOnRing
    <2>2. CASE count = Size
        <3>1. /\ ring' = [ring EXCEPT ![start] = h[lastSeq + 1]]
              /\ count' = Size /\ start' = (start + 1) % Size
            BY <1>1, <1>5, <1>7, <2>2
        <3>2. Writes(Size, ring', ring, start, h[lastSeq + 1])
            BY <1>1, <3>1 DEF Writes
        <3> QED  BY <1>1, <1>6, <2>2, <3>1, <3>2, PushOnFullRing
    <2> QED  BY <1>1, <2>1, <2>2
<1>10. \A i \in 0 .. count' - 1 : (lastSeq + 1) - count' + 1 + i \in 1 .. lastSeq + 1
    BY <1>1, <1>8
<1>11. ASSUME NEW i \in 0 .. count' - 1
       PROVE  ring'[(start' + i) % Size]
                = [seq |-> lastSeq' - count' + 1 + i,
                   body |-> history'[lastSeq' - count' + 1 + i]]
    <2>1. lastSeq' - count' + 1 + i = (lastSeq + 1) - count' + 1 + i
        BY <1>1, <1>3, <1>8
    <2>2. ring'[(start' + i) % Size] = h[(lastSeq + 1) - count' + 1 + i]
        <3> HIDE DEF h
        <3> QED  BY <1>9 DEF Holds
    <2>3. (lastSeq + 1) - count' + 1 + i \in 1 .. lastSeq + 1
        BY <1>10
    <2> QED  BY <2>1, <2>2, <2>3
<1>12. lastSeq' = Len(history') /\ count' = IF Len(history') < Size THEN Len(history') ELSE Size
    BY <1>3, <1>8
<1>13. RingHoldsLatest'
    BY <1>11, <1>12 DEF RingHoldsLatest, Published, At, Stored
<1> QED  BY <1>1, <1>3, <1>8, <1>13 DEF Slots

(* Nothing outside b.mu's critical sections touches the buffer. *)
LEMMA WaiterKeepsRing ==
    ASSUME RingHoldsLatest, UNCHANGED bufVars
    PROVE  RingHoldsLatest'
BY DEF RingHoldsLatest, bufVars, Published, At, Stored

(* A call of Wait with any cursor there is.  Those of Next are such calls; *)
(* the clients of EventTools send cursors of their own.                    *)
AnyCall == \E w \in Waiters, c \in CursorSet, f \in Filters : CallWait(w, c, f)

(* Every step keeps the ring part of the invariant.                        *)
LEMMA BasicStep == Basic /\ [Next \/ AnyCall]_vars => Basic'
<1> SUFFICES ASSUME Basic, [Next \/ AnyCall]_vars PROVE Basic'
    OBVIOUS
<1> USE DEF Basic
<1>1. ASSUME NEW b \in Payloads, AppendEvent(b)
      PROVE  Basic'
    <2>1. TypeOK'
        BY <1>1, AppendKeepsRing DEF TypeOK, AppendEvent, WakeWaiters, waitVars
    <2>2. CursorRead'
        BY <1>1 DEF CursorRead, AppendEvent, waitVars
    <2> QED  BY <1>1, <2>1, <2>2, AppendKeepsRing
<1>2. CASE Close
    <2>1. TypeOK'
        BY <1>2 DEF TypeOK, Close, waitVars
    <2>2. RingHoldsLatest'
        BY <1>2 DEF Close, RingHoldsLatest, Published, At, Stored
    <2>3. CursorRead'
        BY <1>2 DEF CursorRead, Close, waitVars
    <2> QED  BY <2>1, <2>2, <2>3
<1>3. ASSUME NEW w \in Waiters, NEW c \in CursorSet, NEW f \in Filters, CallWait(w, c, f)
      PROVE  Basic'
    <2>1. NoEvent \in Event
        BY DEF NoEvent, Event
    <2>2. TypeOK'
        BY <1>3, <2>1 DEF TypeOK, CallWait, bufVars, Errors
    <2>3. CursorRead'
        BY <1>3 DEF TypeOK, CursorRead, CallWait
    <2> QED  BY <1>3, <2>2, <2>3, WaiterKeepsRing DEF CallWait
<1>4. ASSUME NEW w \in Waiters, ReadCursor(w)
      PROVE  Basic'
    <2>1. Cursor(lastSeq) \in CursorSet /\ Cursor(lastSeq).form # "empty"
        BY DEF TypeOK, Cursor, CursorSet
    <2>2. TypeOK'
        BY <1>4, <2>1 DEF TypeOK, ReadCursor, bufVars
    <2>3. CursorRead'
        BY <1>4, <2>1 DEF TypeOK, CursorRead, ReadCursor
    <2> QED  BY <1>4, <2>2, <2>3, WaiterKeepsRing DEF ReadCursor
<1>5. ASSUME NEW w \in Waiters, NEW e \in Event, NEW err \in Errors, Return(w, e, err),
             gap' \in [Waiters -> BOOLEAN], cursor' \in [Waiters -> CursorSet],
             \A v \in Waiters \ {w} : cursor'[v] = cursor[v]
      PROVE  Basic'
    <2>1. TypeOK'
        BY <1>5 DEF TypeOK, Return, bufVars
    <2>2. CursorRead'
        BY <1>5 DEF TypeOK, CursorRead, Return
    <2> QED  BY <1>5, <2>1, <2>2, WaiterKeepsRing DEF Return
<1>6. NoEvent \in Event
    BY DEF NoEvent, Event
<1>7. ASSUME NEW w \in Waiters, ScanClosed(w) \/ ScanRefused(w) \/ ContextDone(w)
      PROVE  Basic'
    BY <1>5, <1>6, <1>7 DEF TypeOK, ScanClosed, ScanRefused, ContextDone, Errors
<1>8. ASSUME NEW w \in Waiters, NEW p, p = Since(cursor[w], filter[w], 1), Scanned(w, p)
      PROVE  /\ gap' \in [Waiters -> BOOLEAN] /\ cursor' \in [Waiters -> CursorSet]
             /\ \A v \in Waiters \ {w} : cursor'[v] = cursor[v]
             /\ cursor'[w].form # "empty"
             /\ p.events \subseteq Event
    <2>1. cursor[w].form # "empty" /\ ~Since(cursor[w], filter[w], 1).bad
        BY <1>8 DEF Scanned, CursorRead
    <2>2. p.gap \in BOOLEAN /\ p.next \in Nat /\ p.events \subseteq Event
        BY <1>8, <2>1, PageType, RetainedFinite
    <2>3. Cursor(p.next) \in CursorSet /\ Cursor(p.next).form # "empty"
        BY <2>2 DEF TypeOK, Cursor, CursorSet
    <2> QED  BY <1>8, <2>2, <2>3 DEF TypeOK, Scanned
<1>9. ASSUME NEW w \in Waiters, ScanHit(w)
      PROVE  Basic'
    <2> DEFINE p == Since(cursor[w], filter[w], 1)
    <2>1. Scanned(w, p) /\ \E e \in p.events : Return(w, e, "none")
        BY <1>9 DEF ScanHit
    <2> HIDE DEF p
    <2> QED  BY <1>5, <1>8, <2>1 DEF Errors, p
<1>10. ASSUME NEW w \in Waiters, ScanMiss(w)
       PROVE  Basic'
    <2> DEFINE p == Since(cursor[w], filter[w], 1)
    <2>1. Scanned(w, p)
        BY <1>10 DEF ScanMiss
    <2>2. /\ gap' \in [Waiters -> BOOLEAN] /\ cursor' \in [Waiters -> CursorSet]
          /\ \A v \in Waiters \ {w} : cursor'[v] = cursor[v]
          /\ cursor'[w].form # "empty"
        BY <1>8, <2>1
    <2>3. TypeOK'
        BY <1>10, <2>2 DEF TypeOK, ScanMiss, bufVars
    <2>4. CursorRead'
        BY <1>10, <2>2 DEF TypeOK, CursorRead, ScanMiss
    <2> QED  BY <1>10, <2>3, <2>4, WaiterKeepsRing DEF ScanMiss
<1>11. ASSUME NEW w \in Waiters, Woken(w)
       PROVE  Basic'
    <2>1. TypeOK'
        BY <1>11 DEF TypeOK, Woken, bufVars
    <2>2. CursorRead'
        BY <1>11 DEF TypeOK, CursorRead, Woken
    <2> QED  BY <1>11, <2>1, <2>2, WaiterKeepsRing DEF Woken
<1>12. CASE UNCHANGED vars
    <2>1. TypeOK' /\ CursorRead'
        BY <1>12 DEF TypeOK, CursorRead, vars, bufVars, waitVars
    <2> QED  BY <1>12, <2>1, WaiterKeepsRing DEF vars
<1> QED  BY <1>1, <1>2, <1>3, <1>4, <1>7, <1>9, <1>10, <1>11, <1>12, CursorAssumption
         DEF Next, Scan, AnyCall

(* Every variable keeps its type, whatever the interleaving. *)
THEOREM TypeCorrect == Spec => []TypeOK
<1>1. Init => Basic
    BY InitBasic
<1>2. Basic /\ [Next]_vars => Basic'
    BY BasicStep
<1> QED  BY <1>1, <1>2, PTL DEF Spec, Basic

(* The ring always holds the last Size events, in order, under their own   *)
(* seqs: the index arithmetic of Append and at never misplaces one.        *)
THEOREM RingCorrect == Spec => []RingHoldsLatest
<1>1. Init => Basic
    BY InitBasic
<1>2. Basic /\ [Next]_vars => Basic'
    BY BasicStep
<1> QED  BY <1>1, <1>2, PTL DEF Spec, Basic

-----------------------------------------------------------------------------
(* Waiters.  The strengthening of NoLostWakeup and NoSilentSkip: which     *)
(* channels are closed, that a waiter about to sleep on the current one    *)
(* has seen everything, that it holds no result while it waits, and that   *)
(* its cursor only leaves the caller's for a place in the log.             *)

ChannelsClosed ==
    \A c \in Nat : c \in closedChans <=> c < changed \/ (closed /\ c = changed)

Asleep(w) ==
    pc[w] = "select" =>
        /\ ch[w] <= changed
        /\ ~closed /\ ch[w] = changed => Hits(Position(cursor[w]), filter[w]) = {}

Empty(w) == pc[w] \in {"start", "scan", "select"} => result[w].event = NoEvent

Place(w) ==
    pc[w] \in {"scan", "select", "returned"} =>
        \/ Position(cursor[w]) = Position(asked[w])
        \/ /\ Position(asked[w]) <= Position(cursor[w])
           /\ Position(cursor[w]) <= lastSeq

Passed(w) ==
    pc[w] \in {"scan", "select", "returned"} =>
        \A s \in Position(asked[w]) + 1 .. Position(cursor[w]) :
            Match(filter[w], history[s]) => gap[w] \/ result[w].event.seq = s

WaiterOK(w) == Asleep(w) /\ Empty(w) /\ Place(w) /\ Passed(w)

WaitInv == ChannelsClosed /\ \A w \in Waiters : WaiterOK(w)

IInv == Basic /\ WaitInv

(* Nobody waits at first.                                                  *)
LEMMA InitWaitInv == Init => WaitInv
BY DEF Init, WaitInv, ChannelsClosed, WaiterOK, Asleep, Empty, Place, Passed

(* What a scan passes over was evicted, and then the page says gap; or it  *)
(* is the event the page returns.                                          *)
LEMMA ScanPasses ==
    ASSUME Basic, NEW w \in Waiters, NEW p, p = Since(cursor[w], filter[w], 1),
           Scanned(w, p)
    PROVE  /\ p.next \in Nat /\ Position(cursor[w]) \in Nat
           /\ Position(cursor[w]) <= p.next /\ p.next <= lastSeq
           /\ p.events = {} => Hits(p.next, filter[w]) = {}
           /\ \A e \in p.events : e.seq = p.next
           /\ \A s \in Position(cursor[w]) + 1 .. p.next :
                 Match(filter[w], history[s]) =>
                    p.gap \/ (s = p.next /\ p.events # {})
<1> DEFINE c == cursor[w]
           H == Hits(Position(c), filter[w])
<1>1. /\ c \in CursorSet /\ c.form # "empty" /\ ~Since(c, filter[w], 1).bad
      /\ TypeOK /\ RingHoldsLatest /\ lastSeq \in Nat /\ Position(c) \in Nat
    BY DEF Basic, TypeOK, CursorRead, Scanned, Position, CursorSet
<1>2. /\ ~Parse(c).bad /\ p.next \in Nat
      /\ Position(c) <= p.next /\ p.next <= lastSeq
    BY <1>1, PageType
<1>3. /\ p.gap = Parse(c).gap
      /\ \/ H = {} /\ p.events = {} /\ p.next = lastSeq
         \/ \E e \in H : /\ p.events = {e} /\ p.next = e.seq
                         /\ \A d \in H : e.seq <= d.seq
    BY <1>1, <1>2, SinceOne
<1>4. p.events = {} => Hits(p.next, filter[w]) = {}
    <2>1. \A e \in Retained : e.seq \in 1 .. lastSeq
        BY <1>1, SeqIdentifies DEF RingHoldsLatest
    <2> QED  BY <1>1, <1>3, <2>1 DEF Hits
<1>5. ASSUME NEW s \in Position(c) + 1 .. p.next, Match(filter[w], history[s])
      PROVE  p.gap \/ (s = p.next /\ p.events # {})
    <2>1. s \in Nat /\ s > Position(c) /\ s <= p.next /\ s \in 1 .. Published
        BY <1>1, <1>2 DEF RingHoldsLatest
    <2>2. CASE s \in Surviving
        <3>1. Stored(s) \in Retained
            BY <1>1, <2>2, RetainedIsSurviving
        <3>2. Stored(s) \in H /\ Stored(s).seq = s
            BY <1>5, <2>1, <3>1 DEF Hits, Stored
        <3>3. PICK e \in H : p.events = {e} /\ p.next = e.seq /\ e.seq <= s
            BY <1>3, <3>2
        <3> QED  BY <1>2, <2>1, <3>3
    <2>3. CASE s \notin Surviving
        <3>1. s <= Published - Size /\ Published \in Nat /\ Size \in Nat \ {0}
            BY <1>1, <2>1, <2>3, SizeAssumption DEF Surviving, Evicted, RingHoldsLatest
        <3>2. Oldest = Published - Size + 1
            <4>1. count = Size /\ lastSeq = Published
                BY <1>1, <2>1, <3>1 DEF RingHoldsLatest
            <4> QED  BY <1>1, <4>1, OldestIs
        <3>3. Position(c) + 1 < Oldest
            BY <1>1, <2>1, <3>1, <3>2
        <3>4. Parse(c).gap
            BY <1>1, <1>2, <3>3 DEF Parse, Position, CursorSet
        <3> QED  BY <1>3, <3>4
    <2> QED  BY <2>2, <2>3
<1> QED  BY <1>1, <1>2, <1>3, <1>4, <1>5

(* A waiter that no step concerns, while the buffer does not change. *)
LEMMA OthersUndisturbed ==
    ASSUME WaitInv, UNCHANGED bufVars, NEW v \in Waiters,
           pc'[v] = pc[v], cursor'[v] = cursor[v], filter'[v] = filter[v],
           gap'[v] = gap[v], ch'[v] = ch[v], result'[v] = result[v],
           asked'[v] = asked[v]
    PROVE  WaiterOK(v)'
BY DEF WaitInv, WaiterOK, Asleep, Empty, Place, Passed, bufVars, Hits, Retained,
       At, Position

(* A step that leaves the buffer alone leaves its channels alone.          *)
LEMMA ChannelsKept ==
    ASSUME ChannelsClosed, UNCHANGED bufVars
    PROVE  ChannelsClosed'
BY DEF ChannelsClosed, bufVars

(* Storing an event: whoever sleeps on the current channel is woken, and   *)
(* no entry of the log changes.                                            *)
LEMMA AppendKeepsWaits ==
    ASSUME Basic, WaitInv, NEW b \in Payloads, AppendEvent(b)
    PROVE  WaitInv'
<1>1. /\ lastSeq \in Nat /\ lastSeq = Len(history) /\ changed \in Nat
      /\ history \in Seq(Payloads) /\ ch \in [Waiters -> Nat]
      /\ cursor \in [Waiters -> CursorSet] /\ asked \in [Waiters -> CursorSet]
    BY DEF Basic, TypeOK, RingHoldsLatest, Published
<1>2. /\ lastSeq' = lastSeq + 1 /\ changed' = changed + 1
      /\ closedChans' = closedChans \cup {changed} /\ ~closed /\ ~closed'
      /\ history' = Append(history, b)
      /\ UNCHANGED <<bootID, pc, cursor, filter, gap, ch, result, asked>>
    BY DEF AppendEvent, WakeWaiters, waitVars
<1>3. ChannelsClosed'
    BY <1>1, <1>2 DEF WaitInv, ChannelsClosed
<1>4. ASSUME NEW w \in Waiters
      PROVE  WaiterOK(w)'
    <2>1. WaiterOK(w)
        BY DEF WaitInv
    <2>2. /\ Position(cursor[w])' = Position(cursor[w])
          /\ Position(asked[w])' = Position(asked[w])
          /\ Position(cursor[w]) \in Nat /\ Position(asked[w]) \in Nat
        BY <1>1, <1>2 DEF Position, CursorSet
    <2>3. Asleep(w)'
        BY <1>1, <1>2, <2>1 DEF WaiterOK, Asleep
    <2>4. Empty(w)'
        BY <1>2, <2>1 DEF WaiterOK, Empty
    <2>5. Place(w)'
        BY <1>1, <1>2, <2>1, <2>2 DEF WaiterOK, Place
    <2>6. Passed(w)'
        <3>1. ASSUME pc[w] \in {"scan", "select", "returned"},
                     NEW s \in Position(asked[w]) + 1 .. Position(cursor[w])
              PROVE  history'[s] = history[s]
            <4>1. s \in 1 .. lastSeq
                BY <1>1, <2>1, <2>2, <3>1 DEF WaiterOK, Place
            <4> QED  BY <1>1, <1>2, <4>1
        <3> QED  BY <1>2, <2>1, <2>2, <3>1 DEF WaiterOK, Passed
    <2> QED  BY <2>3, <2>4, <2>5, <2>6 DEF WaiterOK
<1> QED  BY <1>3, <1>4 DEF WaitInv

(* Close closes the current channel, so no sleeper is left behind.         *)
LEMMA CloseKeepsWaits ==
    ASSUME Basic, WaitInv, Close
    PROVE  WaitInv'
<1>1. ChannelsClosed'
    BY DEF Basic, TypeOK, WaitInv, ChannelsClosed, Close
<1>2. ASSUME NEW w \in Waiters
      PROVE  WaiterOK(w)'
    BY DEF WaitInv, WaiterOK, Asleep, Empty, Place, Passed, Close, waitVars, Position
<1> QED  BY <1>1, <1>2 DEF WaitInv

(* The waiter that scans: it sleeps only after seeing everything. *)
LEMMA ScanKeepsWait ==
    ASSUME Basic, WaitInv, NEW w \in Waiters, ScanHit(w) \/ ScanMiss(w)
    PROVE  WaiterOK(w)'
<1> DEFINE p == Since(cursor[w], filter[w], 1)
<1>1. Scanned(w, p) /\ UNCHANGED bufVars /\ UNCHANGED <<filter, asked>>
    BY DEF ScanHit, ScanMiss, Return
<1>2. \/ /\ p.events = {} /\ pc'[w] = "select" /\ ch'[w] = changed
         /\ result'[w] = result[w]
      \/ \E e \in p.events : pc'[w] = "returned" /\ result'[w].event = e
    BY DEF ScanHit, ScanMiss, Return, Basic, TypeOK
<1> HIDE DEF p
<1>3. /\ p.next \in Nat /\ Position(cursor[w]) \in Nat
      /\ Position(cursor[w]) <= p.next /\ p.next <= lastSeq
      /\ p.events = {} => Hits(p.next, filter[w]) = {}
      /\ \A e \in p.events : e.seq = p.next
      /\ \A s \in Position(cursor[w]) + 1 .. p.next :
            Match(filter[w], history[s]) =>
                p.gap \/ (s = p.next /\ p.events # {})
    BY <1>1, ScanPasses DEF p
<1>4. /\ pc[w] = "scan" /\ WaiterOK(w) /\ result[w].event.seq = 0
      /\ lastSeq \in Nat /\ changed \in Nat /\ Position(asked[w]) \in Nat
      /\ p.gap \in BOOLEAN /\ gap[w] \in BOOLEAN
    <2>1. cursor[w].form # "empty" /\ ~Since(cursor[w], filter[w], 1).bad
        BY <1>1 DEF Basic, CursorRead, Scanned, p
    <2>2. p.gap \in BOOLEAN
        BY <2>1, PageType DEF Basic, p
    <2> QED  BY <1>1, <2>2 DEF Scanned, WaitInv, WaiterOK, Empty, NoEvent, Basic,
                            TypeOK, Position, CursorSet
<1>5. /\ cursor'[w] = Cursor(p.next) /\ gap'[w] = (gap[w] \/ p.gap)
      /\ Position(cursor[w])' = p.next /\ Position(asked[w])' = Position(asked[w])
      /\ history' = history /\ lastSeq' = lastSeq /\ filter'[w] = filter[w]
      /\ changed' = changed /\ closed' = closed
      /\ Retained' = Retained
    <2>1. cursor'[w] = Cursor(p.next) /\ gap'[w] = (gap[w] \/ p.gap)
        BY <1>1 DEF Scanned, Basic, TypeOK
    <2>2. Position(cursor[w])' = p.next
        BY <1>1, <2>1 DEF bufVars, Position, Cursor
    <2>3. Position(asked[w])' = Position(asked[w])
        BY <1>1 DEF bufVars, Position
    <2>4. Retained' = Retained
        BY <1>1 DEF bufVars, Retained, At
    <2> QED  BY <1>1, <2>1, <2>2, <2>3, <2>4 DEF bufVars
<1>6. Asleep(w)'
    <2>1. p.events = {} => Hits(Position(cursor[w]), filter[w])' = {}
        BY <1>3, <1>5 DEF Hits
    <2> QED  BY <1>2, <1>4, <1>5, <2>1 DEF Asleep
<1>7. Empty(w)'
    BY <1>2, <1>4 DEF Empty, WaiterOK
<1>8. Place(w)'
    BY <1>3, <1>4, <1>5 DEF Place, WaiterOK
<1>9. Passed(w)'
    <2>1. ASSUME NEW s \in Position(asked[w]) + 1 .. p.next, Match(filter[w], history[s])
          PROVE  gap'[w] \/ result'[w].event.seq = s
        <3>1. CASE s <= Position(cursor[w])
            BY <1>3, <1>4, <1>5, <2>1, <3>1 DEF WaiterOK, Passed
        <3>2. CASE ~(s <= Position(cursor[w]))
            BY <1>2, <1>3, <1>4, <1>5, <2>1, <3>2
        <3> QED  BY <3>1, <3>2
    <2> QED  BY <1>5, <2>1 DEF Passed
<1> QED  BY <1>6, <1>7, <1>8, <1>9 DEF WaiterOK

(* Every step keeps the waiting part of the invariant.                     *)
LEMMA WaitInvStep == Basic /\ WaitInv /\ [Next \/ AnyCall]_vars => WaitInv'
<1> SUFFICES ASSUME Basic, WaitInv, [Next \/ AnyCall]_vars PROVE WaitInv'
    OBVIOUS
<1>1. ASSUME NEW b \in Payloads, AppendEvent(b)
      PROVE  WaitInv'
    BY <1>1, AppendKeepsWaits
<1>2. CASE Close
    BY <1>2, CloseKeepsWaits
<1>3. ASSUME NEW w \in Waiters, UNCHANGED bufVars, WaiterOK(w)',
             \A v \in Waiters \ {w} :
                /\ pc'[v] = pc[v] /\ cursor'[v] = cursor[v] /\ filter'[v] = filter[v]
                /\ gap'[v] = gap[v] /\ ch'[v] = ch[v] /\ result'[v] = result[v]
                /\ asked'[v] = asked[v]
      PROVE  WaitInv'
    BY <1>3, OthersUndisturbed, ChannelsKept DEF WaitInv
<1>4. ASSUME NEW w \in Waiters, NEW c \in CursorSet, NEW f \in Filters, CallWait(w, c, f)
      PROVE  WaitInv'
    <2>1. WaiterOK(w)'
        BY <1>4 DEF CallWait, WaiterOK, Asleep, Empty, Place, Passed,
               Basic, TypeOK, NoEvent, Position, CursorSet
    <2> QED  BY <1>3, <1>4, <2>1 DEF CallWait, Basic, TypeOK
<1>5. ASSUME NEW w \in Waiters, ReadCursor(w)
      PROVE  WaitInv'
    <2>1. WaiterOK(w)'
        BY <1>5 DEF ReadCursor, WaitInv, WaiterOK, Asleep, Empty, Place, Passed,
               Basic, TypeOK, Position, Cursor
    <2> QED  BY <1>3, <1>5, <2>1 DEF ReadCursor, Basic, TypeOK
<1>6. ASSUME NEW w \in Waiters, ScanClosed(w) \/ ScanRefused(w) \/ ContextDone(w)
      PROVE  WaitInv'
    <2>1. /\ Return(w, NoEvent, result'[w].err) /\ UNCHANGED <<cursor, gap>>
          /\ pc[w] \in {"scan", "select"}
        BY <1>6 DEF ScanClosed, ScanRefused, ContextDone, Return, Basic, TypeOK
    <2>2. result[w].event = NoEvent
        BY <2>1 DEF WaitInv, WaiterOK, Empty
    <2>3. WaiterOK(w)'
        BY <2>1, <2>2 DEF Return, WaitInv, WaiterOK, Asleep, Empty, Place, Passed,
               Basic, TypeOK, Position, bufVars
    <2> QED  BY <1>3, <2>1, <2>3 DEF Return, Basic, TypeOK
<1>7. ASSUME NEW w \in Waiters, ScanHit(w) \/ ScanMiss(w)
      PROVE  WaitInv'
    <2>1. WaiterOK(w)'
        BY <1>7, ScanKeepsWait
    <2> QED  BY <1>3, <1>7, <2>1 DEF ScanHit, ScanMiss, Scanned, Return, Basic, TypeOK
<1>8. ASSUME NEW w \in Waiters, Woken(w)
      PROVE  WaitInv'
    <2>1. WaiterOK(w)'
        BY <1>8 DEF Woken, WaitInv, WaiterOK, Asleep, Empty, Place, Passed,
               Basic, TypeOK, Position, bufVars
    <2> QED  BY <1>3, <1>8, <2>1 DEF Woken, Basic, TypeOK
<1>9. CASE UNCHANGED vars
    BY <1>9, OthersUndisturbed, ChannelsKept DEF WaitInv, vars, waitVars
<1> QED  BY <1>1, <1>2, <1>4, <1>5, <1>6, <1>7, <1>8, <1>9, CursorAssumption
         DEF Next, Scan, AnyCall

(* IInv is an invariant of the buffer.                                     *)
LEMMA InvariantIInv == Spec => []IInv
<1>1. Init => IInv
    BY InitBasic, InitWaitInv DEF IInv
<1>2. IInv /\ [Next]_vars => IInv'
    BY BasicStep, WaitInvStep DEF IInv
<1> QED  BY <1>1, <1>2, PTL DEF Spec

(* Neither Append nor Close can close a channel twice. *)
THEOREM ChannelClosedOnce == Spec => []NoDoubleClose
<1>1. IInv => NoDoubleClose
    BY DEF IInv, Basic, TypeOK, WaitInv, ChannelsClosed, NoDoubleClose
<1> QED  BY <1>1, InvariantIInv, PTL

(* A goroutine that stays asleep in Wait has nothing to wake up for. *)
THEOREM SleepersMissNothing == Spec => []NoLostWakeup
<1>1. IInv => NoLostWakeup
    BY DEF IInv, Basic, TypeOK, WaitInv, ChannelsClosed, WaiterOK, Asleep, NoLostWakeup
<1> QED  BY <1>1, InvariantIInv, PTL

(* Whatever the interleaving with Append, however often the ring laps a    *)
(* waiter, no matching event is passed over without the waiter being told. *)
THEOREM NothingSkippedSilently == Spec => []NoSilentSkip
<1>1. IInv => NoSilentSkip
    BY DEF IInv, WaitInv, WaiterOK, Passed, NoSilentSkip
<1> QED  BY <1>1, InvariantIInv, PTL
=============================================================================
