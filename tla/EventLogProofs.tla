--------------------------- MODULE EventLogProofs ---------------------------
(***************************************************************************)
(* What a Wait answers, and that the event buffer implements EventLog:     *)
(* every step of ring, channels and cursors is a step of the log its       *)
(* readers are promised, or none.  Both build on the invariant of          *)
(* EventBufferProofs.                                                      *)
(***************************************************************************)
EXTENDS EventBufferProofs

-----------------------------------------------------------------------------
(* The strengthening.  A cursor is the one the caller sent until a scan    *)
(* has put one of this buffer in its place; a gap is not yet there when    *)
(* the empty cursor is read.                                               *)

Returned(w) ==
    result[w].event # NoEvent =>
        LET e == result[w].event
        IN  /\ e.seq \in Position(asked[w]) + 1 .. Published
            /\ e = Stored(e.seq)
            /\ Match(filter[w], e.body)
            /\ cursor[w] = Cursor(e.seq)

Justified(w) ==
    gap[w] => \/ asked[w].boot # bootID
              \/ \E s \in Evicted : s > Position(asked[w])

Usable(w) ==
    (pc[w] = "select" \/ (pc[w] = "returned" /\ result[w].err \in {"none", "context"})) =>
        /\ cursor[w].form = "at" /\ cursor[w].boot = bootID
        /\ cursor[w].seq \in Position(asked[w]) .. lastSeq

Origin(w) ==
    /\ pc[w] = "start" => ~gap[w]
    /\ pc[w] \in {"scan", "select"} =>
           cursor[w] = asked[w] \/ cursor[w] = Cursor(cursor[w].seq)

AnswerOK(w) == Returned(w) /\ Justified(w) /\ Usable(w) /\ Origin(w)

AnswerInv == \A w \in Waiters : AnswerOK(w)

(* Nobody has an answer at first.                                         *)
LEMMA InitAnswerInv == Init => AnswerInv
BY DEF Init, AnswerInv, AnswerOK, Returned, Justified, Usable, Origin

(* A waiter that no step concerns, while the buffer does not change. *)
LEMMA AnswerUndisturbed ==
    ASSUME AnswerInv, UNCHANGED bufVars, NEW v \in Waiters,
           pc'[v] = pc[v], cursor'[v] = cursor[v], filter'[v] = filter[v],
           gap'[v] = gap[v], result'[v] = result[v], asked'[v] = asked[v]
    PROVE  AnswerOK(v)'
BY DEF AnswerInv, AnswerOK, Returned, Justified, Usable, Origin, bufVars, Position,
       Published, Evicted, Stored, Cursor

(* What is right of a log stays right when it grows: entries keep their    *)
(* place, and what was evicted stays so.                                   *)
LEMMA AppendKeepsAnswers ==
    ASSUME Basic, AnswerInv, NEW b \in Payloads, AppendEvent(b), NEW w \in Waiters
    PROVE  AnswerOK(w)'
<1>1. /\ lastSeq \in Nat /\ lastSeq = Published /\ Size \in Nat
      /\ history \in Seq(Payloads) /\ asked[w] \in CursorSet /\ cursor[w] \in CursorSet
      /\ AnswerOK(w)
    BY SizeAssumption DEF Basic, TypeOK, RingHoldsLatest, AnswerInv
<1>2. /\ lastSeq' = lastSeq + 1 /\ history' = Append(history, b)
      /\ UNCHANGED <<bootID, pc, cursor, filter, gap, result, asked>>
    BY DEF AppendEvent, waitVars
<1>3. /\ Published' = Published + 1
      /\ \A s \in 1 .. Published : Stored(s)' = Stored(s)
      /\ Evicted \subseteq Evicted'
    BY <1>1, <1>2 DEF Published, Stored, Evicted
<1>4. /\ Position(asked[w])' = Position(asked[w]) /\ Position(asked[w]) \in Nat
      /\ \A s : Cursor(s)' = Cursor(s)
    BY <1>1, <1>2 DEF Position, Cursor, CursorSet
<1>5. Returned(w)'
    <2>1. ASSUME NEW e, e = result[w].event, e # NoEvent
          PROVE  /\ e.seq \in Position(asked[w]) + 1 .. Published'
                 /\ e = [seq |-> e.seq, body |-> history'[e.seq]]
                 /\ Match(filter[w], e.body)
                 /\ cursor[w] = Cursor(e.seq)
        BY <1>1, <1>3, <1>4, <2>1 DEF AnswerOK, Returned, Stored
    <2> QED  BY <1>2, <1>4, <2>1 DEF Returned, Stored
<1>6. Justified(w)'
    BY <1>1, <1>2, <1>3, <1>4 DEF AnswerOK, Justified
<1>7. Usable(w)'
    BY <1>1, <1>2, <1>4 DEF AnswerOK, Usable
<1>8. Origin(w)'
    BY <1>1, <1>2, <1>4 DEF AnswerOK, Origin
<1> QED  BY <1>5, <1>6, <1>7, <1>8 DEF AnswerOK

(* The waiter that scans. *)
LEMMA ScanAnswers ==
    ASSUME Basic, WaitInv, AnswerInv, NEW w \in Waiters, ScanHit(w) \/ ScanMiss(w)
    PROVE  AnswerOK(w)'
<1> DEFINE p == Since(cursor[w], filter[w], 1)
<1>1. Scanned(w, p) /\ UNCHANGED bufVars /\ UNCHANGED <<filter, asked>>
    BY DEF ScanHit, ScanMiss, Return
<1>2. \/ /\ p.events = {} /\ pc'[w] = "select" /\ result'[w] = result[w]
      \/ \E e \in p.events : pc'[w] = "returned" /\ result'[w].event = e
    BY DEF ScanHit, ScanMiss, Return, Basic, TypeOK
<1>3. /\ TypeOK /\ RingHoldsLatest /\ pc[w] = "scan" /\ AnswerOK(w)
      /\ cursor[w] \in CursorSet /\ asked[w] \in CursorSet
      /\ cursor[w].form # "empty" /\ ~p.bad
      /\ result[w].event = NoEvent
      /\ lastSeq \in Nat /\ lastSeq = Published /\ Size \in Nat \ {0}
    BY <1>1, SizeAssumption DEF Basic, TypeOK, RingHoldsLatest, CursorRead, Scanned,
           AnswerInv, WaitInv, WaiterOK, Empty
<1>4. /\ p.next \in Nat /\ Position(cursor[w]) \in Nat
      /\ Position(cursor[w]) <= p.next /\ p.next <= lastSeq
      /\ \A e \in p.events : e.seq = p.next
    <2> HIDE DEF p
    <2> QED  BY <1>1, ScanPasses DEF p
<1>5. /\ ~Parse(cursor[w]).bad
      /\ p.gap = Parse(cursor[w]).gap
      /\ p.events \subseteq Hits(Position(cursor[w]), filter[w])
    <2>1. ~Parse(cursor[w]).bad
        BY <1>3, PageType
    <2> QED  BY <1>3, <2>1, SinceOne
<1> HIDE DEF p
<1>6. /\ cursor'[w] = Cursor(p.next) /\ gap'[w] = (gap[w] \/ p.gap)
      /\ Position(asked[w])' = Position(asked[w]) /\ Position(asked[w]) \in Nat
      /\ \A s : Cursor(s)' = Cursor(s) /\ Stored(s)' = Stored(s)
      /\ Published' = Published /\ Evicted' = Evicted
      /\ UNCHANGED <<bootID, lastSeq>> /\ asked'[w] = asked[w] /\ filter'[w] = filter[w]
    BY <1>1, <1>3 DEF Scanned, Basic, TypeOK, bufVars, Position, Cursor, Stored, Published,
                      Evicted, CursorSet
<1>7. Position(asked[w]) <= Position(cursor[w])
    BY <1>3, <1>4, <1>6 DEF WaitInv, WaiterOK, Place
<1>8. Returned(w)'
    <2>1. CASE p.events = {}
        BY <1>2, <1>3, <2>1 DEF Returned
    <2>2. ASSUME NEW e \in p.events, result'[w].event = e
          PROVE  Returned(w)'
        <3>1. /\ e \in Retained /\ e.seq > Position(cursor[w]) /\ Match(filter[w], e.body)
              /\ e.seq = p.next
            BY <1>4, <1>5, <2>2 DEF Hits
        <3>2. e.seq \in 1 .. Published /\ e = Stored(e.seq)
            BY <1>3, <3>1, SeqIdentifies
        <3>3. e.seq \in Position(asked[w]) + 1 .. Published
            BY <1>3, <1>4, <1>6, <1>7, <3>1, <3>2
        <3> QED  BY <1>6, <2>2, <3>1, <3>2, <3>3 DEF Returned
    <2> QED  BY <1>2, <2>1, <2>2
<1>9. Justified(w)'
    <2>1. ASSUME p.gap
          PROVE  asked[w].boot # bootID \/ \E s \in Evicted : s > Position(asked[w])
        <3>1. CASE cursor[w].boot # bootID
            <4>1. cursor[w] = asked[w]
                BY <1>3, <3>1 DEF AnswerOK, Origin, Cursor
            <4> QED  BY <3>1, <4>1
        <3>2. CASE cursor[w].boot = bootID
            <4>1. cursor[w].form = "at"
                BY <1>5 DEF Parse
            <4>2. cursor[w].seq + 1 < Oldest /\ Position(cursor[w]) = cursor[w].seq
                BY <1>5, <2>1, <3>2, <4>1 DEF Parse, Position
            <4>3. Oldest = lastSeq - count + 1 /\ count \in Nat
                BY <1>3, OldestIs DEF TypeOK
            <4>4. count = IF Published < Size THEN Published ELSE Size
                BY <1>3 DEF RingHoldsLatest
            <4>5. cursor[w].seq + 1 \in Evicted
                BY <1>3, <1>4, <4>2, <4>3, <4>4 DEF Evicted
            <4>6. cursor[w].seq + 1 > Position(asked[w])
                BY <1>4, <1>6, <1>7, <4>2
            <4> QED  BY <4>5, <4>6
        <3> QED  BY <3>1, <3>2
    <2> QED  BY <1>3, <1>6, <2>1 DEF AnswerOK, Justified
<1>10. Usable(w)'
    <2>1. p.next \in Position(asked[w]) .. lastSeq
        BY <1>3, <1>4, <1>6, <1>7
    <2> QED  BY <1>6, <2>1 DEF Usable, Cursor
<1>11. Origin(w)'
    BY <1>2, <1>6 DEF Origin, Cursor
<1> QED  BY <1>8, <1>9, <1>10, <1>11 DEF AnswerOK

(* Every step keeps the answers right.                                     *)
LEMMA AnswerInvStep == Basic /\ WaitInv /\ AnswerInv /\ [Next \/ AnyCall]_vars => AnswerInv'
<1> SUFFICES ASSUME Basic, WaitInv, AnswerInv, [Next \/ AnyCall]_vars PROVE AnswerInv'
    OBVIOUS
<1>1. ASSUME NEW b \in Payloads, AppendEvent(b)
      PROVE  AnswerInv'
    BY <1>1, AppendKeepsAnswers DEF AnswerInv
<1>2. CASE Close
    BY <1>2 DEF Close, waitVars, AnswerInv, AnswerOK, Returned, Justified, Usable, Origin,
                Position, Published, Evicted, Stored, Cursor
<1>3. ASSUME NEW w \in Waiters, UNCHANGED bufVars, AnswerOK(w)',
             \A v \in Waiters \ {w} :
                /\ pc'[v] = pc[v] /\ cursor'[v] = cursor[v] /\ filter'[v] = filter[v]
                /\ gap'[v] = gap[v] /\ result'[v] = result[v] /\ asked'[v] = asked[v]
      PROVE  AnswerInv'
    BY <1>3, AnswerUndisturbed DEF AnswerInv
<1>4. ASSUME NEW w \in Waiters, NEW c \in CursorSet, NEW f \in Filters, CallWait(w, c, f)
      PROVE  AnswerInv'
    <2>1. AnswerOK(w)'
        BY <1>4 DEF CallWait, AnswerOK, Returned, Justified, Usable, Origin, Basic, TypeOK
    <2> QED  BY <1>3, <1>4, <2>1 DEF CallWait, Basic, TypeOK
<1>5. ASSUME NEW w \in Waiters, ReadCursor(w)
      PROVE  AnswerInv'
    <2>1. result[w].event = NoEvent /\ ~gap[w]
        BY <1>5 DEF ReadCursor, WaitInv, WaiterOK, Empty, AnswerInv, AnswerOK, Origin
    <2>2. AnswerOK(w)'
        BY <1>5, <2>1 DEF ReadCursor, AnswerOK, Returned, Justified, Usable, Origin,
               Basic, TypeOK
    <2> QED  BY <1>3, <1>5, <2>2 DEF ReadCursor, Basic, TypeOK
<1>6. ASSUME NEW w \in Waiters, ScanClosed(w) \/ ScanRefused(w) \/ ContextDone(w)
      PROVE  AnswerInv'
    <2>1. /\ UNCHANGED <<bufVars, cursor, gap, filter, asked>>
          /\ pc'[w] = "returned" /\ result'[w].event = NoEvent
          /\ result'[w].err \in {"none", "context"} => pc[w] = "select"
          /\ \A v \in Waiters \ {w} : pc'[v] = pc[v] /\ result'[v] = result[v]
        BY <1>6 DEF ScanClosed, ScanRefused, ContextDone, Return, Basic, TypeOK
    <2>2. AnswerOK(w)
        BY DEF AnswerInv
    <2>3. AnswerOK(w)'
        BY <2>1, <2>2 DEF AnswerOK, Returned, Justified, Usable, Origin, bufVars, Position,
               Published, Evicted
    <2> QED  BY <1>3, <2>1, <2>3
<1>7. ASSUME NEW w \in Waiters, ScanHit(w) \/ ScanMiss(w)
      PROVE  AnswerInv'
    <2>1. AnswerOK(w)'
        BY <1>7, ScanAnswers
    <2> QED  BY <1>3, <1>7, <2>1 DEF ScanHit, ScanMiss, Scanned, Return, Basic, TypeOK
<1>8. ASSUME NEW w \in Waiters, Woken(w)
      PROVE  AnswerInv'
    <2>1. AnswerOK(w)'
        BY <1>8 DEF Woken, AnswerInv, AnswerOK, Returned, Justified, Usable, Origin, Basic,
               TypeOK, bufVars, Position, Published, Evicted, Stored, Cursor
    <2> QED  BY <1>3, <1>8, <2>1 DEF Woken, Basic, TypeOK
<1>9. CASE UNCHANGED vars
    BY <1>9, AnswerUndisturbed DEF AnswerInv, vars, waitVars
<1> QED  BY <1>1, <1>2, <1>4, <1>5, <1>6, <1>7, <1>8, <1>9, CursorAssumption
         DEF Next, Scan, AnyCall

(* AnswerInv is an invariant of the buffer.                                *)
LEMMA InvariantAnswerInv == Spec => []AnswerInv
<1>1. Init => AnswerInv
    BY InitAnswerInv
<1>2. IInv /\ AnswerInv /\ [Next]_vars => AnswerInv'
    BY AnswerInvStep DEF IInv
<1> QED  BY <1>1, <1>2, InvariantIInv, PTL DEF Spec

(* The event a Wait returns, the gap it reports and the cursor it hands    *)
(* out are right for the log, in whatever way it ends, for any ring,       *)
(* waiters, filters and cursors (buffer.go 199-228).                       *)
THEOREM WaitsAnswerRight == Spec => []WaitAnswers
<1>1. AnswerInv => WaitAnswers
    BY DEF AnswerInv, AnswerOK, Returned, Justified, Usable, WaitAnswers, WaitReturnsMatch,
           GapJustified, ResumeCursorUsable
<1> QED  BY <1>1, InvariantAnswerInv, PTL

-----------------------------------------------------------------------------
(* The refinement.                                                         *)

(* What the log sees of a waiter, beside its filter and its gap.           *)
StaleCursor(w)   == cursor[w].form = "at" /\ cursor[w].boot # bootID
RefusedCursor(w) == cursor[w].form = "garbled"

(* An empty buffer is an empty log that nobody reads.                      *)
LEMMA InitImplements == Init => Log!Init
<1> SUFFICES ASSUME Init PROVE Log!Init
    OBVIOUS
<1>1. history = <<>> /\ closed = FALSE /\ filter \in [Waiters -> Filters \cup {NoFilter}]
    BY DEF Init
<1>2. [w \in Waiters |-> LogState(w)] = [r \in Waiters |-> "idle"]
    BY DEF Init, LogState
<1>3. /\ [w \in Waiters |-> Position(cursor[w])] = [r \in Waiters |-> 0]
      /\ [w \in Waiters |-> result[w].event.seq] = [r \in Waiters |-> 0]
    BY DEF Init, Position, EmptyCursor, NoEvent
<1>4. ASSUME NEW w \in Waiters
      PROVE  StaleCursor(w) = FALSE /\ RefusedCursor(w) = FALSE
    BY DEF Init, EmptyCursor, StaleCursor, RefusedCursor
<1>5. /\ [w \in Waiters |-> StaleCursor(w)] = [r \in Waiters |-> FALSE]
      /\ [w \in Waiters |-> RefusedCursor(w)] = [r \in Waiters |-> FALSE]
    BY <1>4, Zenon
<1>6. gap = [r \in Waiters |-> FALSE]
    BY DEF Init
<1> QED  BY <1>1, <1>2, <1>3, <1>5, <1>6 DEF Log!Init, StaleCursor, RefusedCursor

-----------------------------------------------------------------------------
(* A step of waiter w alone. *)
OthersStay(w) ==
    \A v \in Waiters \ {w} :
        /\ pc'[v] = pc[v] /\ filter'[v] = filter[v] /\ cursor'[v] = cursor[v]
        /\ gap'[v] = gap[v] /\ result'[v] = result[v]

(* In the log, reader w is now in state s with filter f, at n, and so on.  *)
Moved(w, s, f, n, old, bad, told, seq) ==
    /\ [v \in Waiters |-> LogState(v)]' = [[v \in Waiters |-> LogState(v)] EXCEPT ![w] = s]
    /\ filter' = [filter EXCEPT ![w] = f]
    /\ [v \in Waiters |-> Position(cursor[v])]'
           = [[v \in Waiters |-> Position(cursor[v])] EXCEPT ![w] = n]
    /\ [v \in Waiters |-> cursor[v].form = "at" /\ cursor[v].boot # bootID]'
           = [[v \in Waiters |-> cursor[v].form = "at" /\ cursor[v].boot # bootID]
                 EXCEPT ![w] = old]
    /\ [v \in Waiters |-> cursor[v].form = "garbled"]'
           = [[v \in Waiters |-> cursor[v].form = "garbled"] EXCEPT ![w] = bad]
    /\ gap' = [gap EXCEPT ![w] = told]
    /\ [v \in Waiters |-> result[v].event.seq]'
           = [[v \in Waiters |-> result[v].event.seq] EXCEPT ![w] = seq]

(* What a waiter does alone is what its reader does alone.                 *)
LEMMA MovesReader ==
    ASSUME TypeOK, TypeOK', UNCHANGED bufVars, NEW w \in Waiters, OthersStay(w)
    PROVE  Moved(w, LogState(w)', filter'[w], Position(cursor'[w]), StaleCursor(w)',
                 RefusedCursor(w)', gap'[w], result'[w].event.seq)
<1> DEFINE s == LogState(w)'
           f == filter'[w]
           n == Position(cursor'[w])
           old == StaleCursor(w)'
           bad == RefusedCursor(w)'
           told == gap'[w]
           seq == result'[w].event.seq
<1> USE DEF OthersStay
<1>1. /\ bootID' = bootID
      /\ filter \in [Waiters -> Filters \cup {NoFilter}]
      /\ filter' \in [Waiters -> Filters \cup {NoFilter}]
      /\ gap \in [Waiters -> BOOLEAN] /\ gap' \in [Waiters -> BOOLEAN]
    BY DEF bufVars, TypeOK
<1>2. filter' = [filter EXCEPT ![w] = f]
    BY <1>1
<1>3. gap' = [gap EXCEPT ![w] = told]
    BY <1>1
<1>4. [v \in Waiters |-> LogState(v)]' = [[v \in Waiters |-> LogState(v)] EXCEPT ![w] = s]
    BY DEF LogState
<1>5. /\ [v \in Waiters |-> Position(cursor[v])]'
             = [[v \in Waiters |-> Position(cursor[v])] EXCEPT ![w] = n]
      /\ [v \in Waiters |-> result[v].event.seq]'
             = [[v \in Waiters |-> result[v].event.seq] EXCEPT ![w] = seq]
    BY <1>1 DEF Position
<1>6. ASSUME NEW v \in Waiters
      PROVE  /\ StaleCursor(v)' = IF v = w THEN old ELSE StaleCursor(v)
             /\ RefusedCursor(v)' = IF v = w THEN bad ELSE RefusedCursor(v)
    BY <1>1 DEF StaleCursor, RefusedCursor
<1>7. /\ [v \in Waiters |-> StaleCursor(v)]'
             = [[v \in Waiters |-> StaleCursor(v)] EXCEPT ![w] = old]
      /\ [v \in Waiters |-> RefusedCursor(v)]'
             = [[v \in Waiters |-> RefusedCursor(v)] EXCEPT ![w] = bad]
    BY <1>6, Zenon
<1> QED  BY <1>2, <1>3, <1>4, <1>5, <1>7 DEF Moved, StaleCursor, RefusedCursor

(* A new call starts a reader of the log where its cursor says.            *)
LEMMA CallImplements ==
    ASSUME TypeOK, TypeOK', NEW w \in Waiters, NEW c \in Cursors, NEW f \in Filters,
           CallWait(w, c, f)
    PROVE  Log!Next
<1> DEFINE s == IF c.form = "empty" THEN "called" ELSE "reading"
           old == (c.form = "at" /\ c.boot # bootID)
           bad == (c.form = "garbled")
<1>1. /\ c \in CursorSet /\ LogState(w) \in {"idle", "returned"} /\ UNCHANGED bufVars
      /\ LogState(w)' = s /\ filter'[w] = f /\ cursor'[w] = c /\ gap'[w] = FALSE
      /\ result'[w].event.seq = 0
    BY CursorAssumption DEF CallWait, LogState, TypeOK, NoEvent
<1>2. OthersStay(w)
    BY DEF CallWait, TypeOK, OthersStay
<1>3. /\ Position(cursor'[w]) = Position(c) /\ (StaleCursor(w))' = old
      /\ (RefusedCursor(w))' = bad
    BY <1>1 DEF bufVars, StaleCursor, RefusedCursor
<1>4. Moved(w, s, f, Position(c), old, bad, FALSE, 0)
    <2> HIDE DEF s, old, bad
    <2>1. Moved(w, LogState(w)', filter'[w], Position(cursor'[w]), StaleCursor(w)',
                RefusedCursor(w)', gap'[w], result'[w].event.seq)
        BY <1>1, <1>2, MovesReader
    <2> QED  BY <1>1, <1>3, <2>1 DEF Moved
<1>5. Log!Enter(w, s, f, Position(c), old, bad)
    <2> HIDE DEF s, old, bad
    <2>1. history' = history /\ closed' = closed
        BY <1>1 DEF bufVars
    <2> QED  BY <1>4, <2>1 DEF Moved, Log!Enter
<1>6. [v \in Waiters |-> LogState(v)][w] \in {"idle", "returned"}
    BY <1>1
<1>7. CASE c.form = "empty"
    <2>1. s = "called" /\ Position(c) = 0 /\ old = FALSE /\ bad = FALSE
        BY <1>7 DEF Position
    <2>2. Log!Call(w, f)
        BY <1>5, <1>6, <2>1 DEF Log!Call
    <2> QED  BY <2>2 DEF Log!Next
<1>8. CASE c.form = "garbled"
    <2>1. s = "reading" /\ Position(c) = 0 /\ old = FALSE /\ bad = TRUE
        BY <1>8 DEF Position
    <2>2. Log!ReadBad(w, f)
        BY <1>5, <1>6, <2>1 DEF Log!ReadBad
    <2> QED  BY <2>2 DEF Log!Next
<1>9. CASE c.form = "at" /\ c.boot # bootID
    <2>1. s = "reading" /\ Position(c) = 0 /\ old = TRUE /\ bad = FALSE
        BY <1>9 DEF Position
    <2>2. Log!ReadStale(w, f)
        BY <1>5, <1>6, <2>1 DEF Log!ReadStale
    <2> QED  BY <2>2 DEF Log!Next
<1>10. CASE c.form = "at" /\ c.boot = bootID
    <2>1. s = "reading" /\ Position(c) = c.seq /\ old = FALSE /\ bad = FALSE
        BY <1>10 DEF Position
    <2>2. Log!ReadAfter(w, f, c.seq)
        BY <1>5, <1>6, <2>1 DEF Log!ReadAfter
    <2> QED  BY <2>2 DEF Log!Next
<1> QED  BY <1>1, <1>7, <1>8, <1>9, <1>10 DEF CursorSet

(* An empty cursor becomes the end of the log.                             *)
LEMMA ReadCursorImplements ==
    ASSUME IInv, AnswerInv, TypeOK', NEW w \in Waiters, ReadCursor(w)
    PROVE  Log!ReadFromNow(w)
<1>1. /\ TypeOK /\ lastSeq = Len(history) /\ UNCHANGED bufVars
      /\ ~gap[w] /\ result[w].event = NoEvent
    BY DEF IInv, Basic, RingHoldsLatest, Published, WaitInv, WaiterOK, Empty, AnswerInv,
           AnswerOK, Origin, ReadCursor
<1>2. /\ LogState(w) = "called" /\ LogState(w)' = "reading"
      /\ filter'[w] = filter[w] /\ cursor'[w] = Cursor(lastSeq)
      /\ gap'[w] = FALSE /\ result'[w].event.seq = 0
    BY <1>1 DEF ReadCursor, LogState, TypeOK, NoEvent
<1>3. /\ Position(cursor'[w]) = Len(history)
      /\ (StaleCursor(w))' = FALSE /\ (RefusedCursor(w))' = FALSE
    BY <1>1, <1>2 DEF bufVars, StaleCursor, RefusedCursor, Cursor, Position
<1>4. OthersStay(w)
    BY DEF ReadCursor, TypeOK, OthersStay
<1>5. Moved(w, "reading", filter[w], Len(history), FALSE, FALSE, FALSE, 0)
    <2>1. Moved(w, LogState(w)', filter'[w], Position(cursor'[w]), StaleCursor(w)',
                RefusedCursor(w)', gap'[w], result'[w].event.seq)
        BY <1>1, <1>4, MovesReader
    <2> QED  BY <1>2, <1>3, <2>1 DEF Moved
<1>6. Log!Enter(w, "reading", filter[w], Len(history), FALSE, FALSE)
    BY <1>1, <1>5 DEF Moved, Log!Enter, bufVars
<1>7. [v \in Waiters |-> LogState(v)][w] = "called"
    BY <1>2
<1> QED  BY <1>6, <1>7 DEF Log!ReadFromNow

(* A wait that ends without an event.                                      *)
LEMMA StopImplements ==
    ASSUME IInv, TypeOK', NEW w \in Waiters,
           ScanClosed(w) \/ ScanRefused(w) \/ ContextDone(w)
    PROVE  Log!Stop(w)
<1>1. /\ TypeOK /\ UNCHANGED <<bufVars, cursor, gap, filter>>
      /\ pc[w] \in {"scan", "select"} /\ pc' = [pc EXCEPT ![w] = "returned"]
      /\ result'[w].event = NoEvent
      /\ \A v \in Waiters \ {w} : result'[v] = result[v]
    BY DEF IInv, Basic, ScanClosed, ScanRefused, ContextDone, Return, TypeOK
<1>2. result[w].event = NoEvent
    BY <1>1 DEF IInv, WaitInv, WaiterOK, Empty
<1>3. [v \in Waiters |-> result[v].event.seq]' = [v \in Waiters |-> result[v].event.seq]
    BY <1>1, <1>2
<1>4. /\ [v \in Waiters |-> LogState(v)]'
            = [[v \in Waiters |-> LogState(v)] EXCEPT ![w] = "returned"]
      /\ [v \in Waiters |-> LogState(v)][w] = "reading"
    BY <1>1 DEF LogState, TypeOK
<1>5. UNCHANGED <<history, closed, bootID, cursor, gap, filter>>
    BY <1>1 DEF bufVars
<1> QED  BY <1>3, <1>4, <1>5 DEF Log!Stop, Position

-----------------------------------------------------------------------------
(* What a scan may pass over, and what it must say of that, is what the    *)
(* log says of reading from the same place.                                *)
LEMMA ScanReads ==
    ASSUME Basic, NEW w \in Waiters, NEW p, p = Since(cursor[w], filter[w], 1),
           Scanned(w, p)
    PROVE  LET at == Position(cursor[w])
           IN  /\ at \in Nat /\ p.next \in Nat /\ at <= p.next /\ p.next <= Published
               /\ cursor[w].form = "at"
               /\ p.gap <=> StaleCursor(w) \/ at + 1 + Size <= Published
               /\ \A s \in at + 1 .. Published :
                     Match(filter[w], history[s]) /\ (p.events = {} \/ s < p.next)
                        => s + Size <= Published
               /\ p.events = {} => p.next = Published
               /\ \A e \in p.events : /\ e.seq = p.next /\ at < p.next
                                      /\ Match(filter[w], history[p.next])
                                      /\ ~(p.next + Size <= Published)
<1> DEFINE c == cursor[w]
           at == Position(c)
           H  == Hits(at, filter[w])
<1>1. /\ c \in CursorSet /\ c.form # "empty" /\ ~Since(c, filter[w], 1).bad
      /\ TypeOK /\ RingHoldsLatest /\ at \in Nat
      /\ lastSeq = Published /\ Published \in Nat /\ Size \in Nat \ {0}
    BY SizeAssumption DEF Basic, TypeOK, RingHoldsLatest, CursorRead, Scanned, Position, CursorSet
<1>2. ~Parse(c).bad /\ p.next \in Nat /\ at <= p.next /\ p.next <= lastSeq
    BY <1>1, PageType
<1>3. c.form = "at" /\ (c.boot = bootID => ~(c.seq > lastSeq) /\ at = c.seq)
    BY <1>2 DEF Parse, Position
<1>4. /\ p.gap = Parse(c).gap
      /\ \/ H = {} /\ p.events = {} /\ p.next = lastSeq
         \/ \E e \in H : /\ p.events = {e} /\ p.next = e.seq
                         /\ \A d \in H : e.seq <= d.seq
    BY <1>1, <1>2, SinceOne
<1>5. Parse(c).gap <=> StaleCursor(w) \/ at + 1 + Size <= Published
    <2>1. CASE c.boot # bootID
        BY <1>3, <2>1 DEF Parse, StaleCursor
    <2>2. CASE c.boot = bootID
        <3>1. Parse(c).gap <=> c.seq + 1 < Oldest
            BY <1>3, <2>2 DEF Parse
        <3>2. Oldest = IF Published < Size THEN 1 ELSE Published - Size + 1
            BY <1>1, OldestIs DEF RingHoldsLatest
        <3>3. at = c.seq /\ ~StaleCursor(w)
            BY <1>3, <2>2 DEF StaleCursor
        <3> QED  BY <1>1, <3>1, <3>2, <3>3
    <2> QED  BY <2>1, <2>2
<1>6. ASSUME NEW s \in at + 1 .. Published, ~(s + Size <= Published), Match(filter[w], history[s])
      PROVE  Stored(s) \in H /\ Stored(s).seq = s
    <2>1. s \in Surviving
        BY <1>1, <1>6 DEF Surviving, Evicted
    <2>2. Stored(s) \in Retained
        BY <1>1, <2>1, RetainedIsSurviving
    <2> QED  BY <1>1, <1>6, <2>2 DEF Hits, Stored
<1>7. ASSUME NEW e \in H
      PROVE  /\ at < e.seq /\ e.seq \in 1 .. Published /\ Match(filter[w], history[e.seq])
             /\ ~(e.seq + Size <= Published)
    <2>1. e \in Retained /\ e.seq > at /\ Match(filter[w], e.body)
        BY DEF Hits
    <2>2. PICK s \in Surviving : e = Stored(s)
        BY <1>1, <2>1, RetainedIsSurviving
    <2>3. e.seq = s /\ e.body = history[s]
        BY <2>2 DEF Stored
    <2>4. s \in 1 .. Published /\ ~(s + Size <= Published)
        BY <1>1, <2>2 DEF Surviving, Evicted
    <2> QED  BY <1>1, <2>1, <2>3, <2>4
<1> HIDE DEF H
<1>8. ASSUME NEW s \in at + 1 .. Published, Match(filter[w], history[s]),
             p.events = {} \/ s < p.next
      PROVE  s + Size <= Published
    <2> SUFFICES ASSUME ~(s + Size <= Published) PROVE FALSE
        OBVIOUS
    <2>1. Stored(s) \in H /\ Stored(s).seq = s
        BY <1>6, <1>8
    <2> QED  BY <1>1, <1>2, <1>4, <1>8, <2>1
<1>9. p.events = {} => p.next = Published
    BY <1>1, <1>4
<1>10. ASSUME NEW e \in p.events
       PROVE  /\ e.seq = p.next /\ at < p.next /\ Match(filter[w], history[p.next])
              /\ ~(p.next + Size <= Published)
    BY <1>4, <1>7, <1>10
<1> QED  BY <1>1, <1>2, <1>3, <1>4, <1>5, <1>8, <1>9, <1>10

(* What a reader of the log is told. *)
LEMMA ToldIs ==
    ASSUME NEW w \in Waiters
    PROVE  Log!Told(w) <=> \/ gap[w] \/ StaleCursor(w)
                           \/ Position(cursor[w]) + 1 + Size <= Published
BY DEF Log!Told, Log!Lost, StaleCursor, Published

(* What it may pass over. *)
LEMMA MayPassIs ==
    ASSUME NEW w \in Waiters, NEW n, Position(cursor[w]) <= n, n <= Published,
           ~RefusedCursor(w),
           \A s \in Position(cursor[w]) + 1 .. n :
               Match(filter[w], history[s]) => s + Size <= Published
    PROVE  Log!MayPass(w, n)
BY DEF Log!MayPass, Log!Lost, RefusedCursor, Published

(* A scan that finds nothing moves the reader to the end of the log, and   *)
(* one that finds an event delivers it.                                    *)
LEMMA ScanImplements ==
    ASSUME IInv, TypeOK', NEW w \in Waiters, ScanMiss(w) \/ ScanHit(w)
    PROVE  Log!Next
<1> DEFINE p  == Since(cursor[w], filter[w], 1)
           at == Position(cursor[w])
<1>1. /\ TypeOK /\ Basic /\ Scanned(w, p) /\ UNCHANGED bufVars /\ UNCHANGED filter
    BY DEF IInv, Basic, ScanHit, ScanMiss, Return
<1>2. /\ pc[w] = "scan" /\ ~closed
      /\ gap'[w] = (gap[w] \/ p.gap) /\ cursor'[w] = Cursor(p.next)
      /\ \A v \in Waiters \ {w} : cursor'[v] = cursor[v] /\ gap'[v] = gap[v]
    BY <1>1 DEF Scanned, TypeOK
<1>3. \A v \in Waiters \ {w} : pc'[v] = pc[v] /\ result'[v] = result[v]
    BY <1>1 DEF ScanHit, ScanMiss, Return, TypeOK
<1>4. \/ p.events = {} /\ pc'[w] = "select" /\ result'[w] = result[w]
      \/ \E e \in p.events : pc'[w] = "returned" /\ result'[w].event = e
    BY <1>1 DEF ScanHit, ScanMiss, Return, TypeOK
<1> HIDE DEF p
<1>5. /\ at \in Nat /\ p.next \in Nat /\ at <= p.next /\ p.next <= Published
      /\ cursor[w].form = "at"
      /\ p.gap <=> StaleCursor(w) \/ at + 1 + Size <= Published
      /\ \A s \in at + 1 .. Published :
            Match(filter[w], history[s]) /\ (p.events = {} \/ s < p.next)
               => s + Size <= Published
      /\ p.events = {} => p.next = Published
      /\ \A e \in p.events : /\ e.seq = p.next /\ at < p.next
                             /\ Match(filter[w], history[p.next])
                             /\ ~(p.next + Size <= Published)
    BY <1>1, ScanReads DEF p
<1> HIDE DEF at
<1>6. gap'[w] = Log!Told(w) /\ Log!Told(w) \in BOOLEAN
    <2>1. Log!Told(w) <=> gap[w] \/ p.gap
        BY <1>5, ToldIs DEF at
    <2>2. Log!Told(w) \in BOOLEAN
        BY <1>1 DEF Log!Told, Log!Lost, TypeOK
    <2> QED  BY <1>2, <2>1, <2>2
<1>7. /\ Position(cursor'[w]) = p.next /\ (StaleCursor(w))' = FALSE
      /\ (RefusedCursor(w))' = FALSE /\ ~RefusedCursor(w)
      /\ history' = history /\ closed' = closed /\ LogState(w) = "reading"
      /\ filter'[w] = filter[w] /\ Published = Len(history) /\ Published \in Nat
    BY <1>1, <1>2, <1>5 DEF bufVars, StaleCursor, RefusedCursor, Cursor, Position, LogState,
                      Published, TypeOK
<1>8. Moved(w, LogState(w)', filter[w], p.next, FALSE, FALSE, Log!Told(w), result'[w].event.seq)
    <2>1. OthersStay(w)
        BY <1>1, <1>2, <1>3 DEF OthersStay
    <2> QED  BY <1>1, <1>6, <1>7, <2>1, MovesReader
<1>9. [v \in Waiters |-> cursor[v].form = "garbled"]' = [v \in Waiters |-> cursor[v].form = "garbled"]
    <2>1. ASSUME NEW v \in Waiters
          PROVE  RefusedCursor(v)' = RefusedCursor(v)
        BY <1>2, <1>7, <2>1 DEF RefusedCursor
    <2>2. [v \in Waiters |-> RefusedCursor(v)]' = [v \in Waiters |-> RefusedCursor(v)]
        BY <2>1, Zenon
    <2> QED  BY <2>2 DEF RefusedCursor
<1>10. CASE p.events = {}
    <2>1. /\ p.next = Published /\ LogState(w)' = LogState(w)
          /\ result'[w].event.seq = result[w].event.seq
        BY <1>4, <1>5, <1>7, <1>10 DEF LogState
    <2>2. Log!MayPass(w, Len(history))
        BY <1>5, <1>7, <1>10, <2>1, MayPassIs DEF at
    <2>3. /\ [v \in Waiters |-> LogState(v)]' = [v \in Waiters |-> LogState(v)]
          /\ [v \in Waiters |-> result[v].event.seq]' = [v \in Waiters |-> result[v].event.seq]
        BY <1>8, <2>1 DEF Moved
    <2>4. Log!Advance(w)
        BY <1>1, <1>2, <1>7, <1>8, <1>9, <2>1, <2>2, <2>3 DEF Log!Advance, Moved
    <2> QED  BY <2>4 DEF Log!Next
<1>11. CASE p.events # {}
    <2>1. /\ LogState(w)' = "returned" /\ result'[w].event.seq = p.next
          /\ at < p.next /\ Match(filter[w], history[p.next]) /\ ~(p.next + Size <= Published)
        BY <1>4, <1>5, <1>11 DEF LogState
    <2>2. Log!MayPass(w, p.next - 1)
        <3>1. /\ at <= p.next - 1 /\ p.next - 1 <= Published
              /\ \A s \in at + 1 .. p.next - 1 :
                    Match(filter[w], history[s]) => s + Size <= Published
            BY <1>5, <1>7, <2>1
        <3> QED  BY <1>7, <3>1, MayPassIs DEF at
    <2>3. PICK n : n = p.next
        OBVIOUS
    <2>4. Log!Deliver(w, n)
        BY <1>1, <1>2, <1>5, <1>7, <1>8, <1>9, <2>1, <2>2, <2>3
        DEF Log!Deliver, Log!Lost, Log!MayPass, Published, at, Moved
    <2>5. n \in [v \in Waiters |-> Position(cursor[v])][w] + 1 .. Len(history)
        BY <1>5, <1>7, <2>1, <2>3 DEF at
    <2> QED  BY <2>4, <2>5 DEF Log!Next
<1> QED  BY <1>10, <1>11

(* Every step of the buffer is a step of the log, or none. *)
LEMMA StepImplements ==
    IInv /\ AnswerInv /\ TypeOK' /\ [Next]_vars => [Log!Next]_(Log!vars)
<1> SUFFICES ASSUME IInv, AnswerInv, TypeOK', [Next]_vars
             PROVE  Log!Next \/ UNCHANGED Log!vars
    OBVIOUS
<1>1. ASSUME NEW b \in Payloads, AppendEvent(b)
      PROVE  Log!Publish(b)
    BY <1>1 DEF AppendEvent, waitVars, Log!Publish, Log!readerVars, LogState, Position
<1>2. CASE Close
    <2>1. Log!Shut
        BY <1>2 DEF Close, waitVars, Log!Shut, Log!readerVars, LogState, Position
    <2> QED  BY <2>1 DEF Log!Next
<1>3. ASSUME NEW w \in Waiters, NEW c \in Cursors, NEW f \in Filters, CallWait(w, c, f)
      PROVE  Log!Next
    BY <1>3, CallImplements DEF IInv, Basic
<1>4. ASSUME NEW w \in Waiters, ReadCursor(w)
      PROVE  Log!ReadFromNow(w)
    BY <1>4, ReadCursorImplements
<1>5. ASSUME NEW w \in Waiters, ScanClosed(w) \/ ScanRefused(w) \/ ContextDone(w)
      PROVE  Log!Stop(w)
    BY <1>5, StopImplements
<1>6. ASSUME NEW w \in Waiters, ScanMiss(w) \/ ScanHit(w)
      PROVE  Log!Next
    BY <1>6, ScanImplements
<1>7. ASSUME NEW w \in Waiters, Woken(w)
      PROVE  UNCHANGED Log!vars
    <2>1. [v \in Waiters |-> LogState(v)]' = [v \in Waiters |-> LogState(v)]
        BY <1>7 DEF Woken, LogState, IInv, Basic, TypeOK
    <2>2. UNCHANGED <<history, closed, bootID, filter, cursor, gap, result>>
        BY <1>7 DEF Woken, bufVars
    <2> QED  BY <2>1, <2>2 DEF Log!vars, Log!readerVars, Position
<1>8. CASE UNCHANGED vars
    BY <1>8 DEF vars, bufVars, waitVars, Log!vars, Log!readerVars, LogState, Position
<1>9. ASSUME NEW w \in Waiters, Log!ReadFromNow(w) \/ Log!Stop(w)
      PROVE  Log!Next
    BY <1>9 DEF Log!Next
<1>10. ASSUME NEW b \in Payloads, Log!Publish(b)
       PROVE  Log!Next
    BY <1>10 DEF Log!Next
<1> QED  BY <1>1, <1>2, <1>3, <1>4, <1>5, <1>6, <1>7, <1>8, <1>9, <1>10 DEF Next, Scan

(* Every behaviour of the buffer is one of the log: what EventLog promises *)
(* to readers holds of every ring, with any waiters, filters and cursors   *)
(* (buffer.go 104-240).                                                    *)
THEOREM BufferImplementsLog == Spec => ImplementsLog
<1>1. Init => Log!Init
    BY InitImplements
<1>2. IInv /\ AnswerInv /\ IInv' /\ [Next]_vars => [Log!Next]_(Log!vars)
    BY StepImplements DEF IInv, Basic
<1> QED  BY <1>1, <1>2, InvariantIInv, InvariantAnswerInv, PTL DEF Spec, ImplementsLog, Log!Spec
=============================================================================
