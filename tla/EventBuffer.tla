---------------------------- MODULE EventBuffer ----------------------------
(***************************************************************************)
(* internal/events/buffer.go: the bounded ring of Gateway events, its      *)
(* cursors, and the goroutines blocked in Wait.                            *)
(*                                                                         *)
(* Every action is one critical section of b.mu, or one way out of the     *)
(* select in Wait; the gaps between actions are the places where another   *)
(* goroutine may run.                                                      *)
(***************************************************************************)
EXTENDS Naturals, Sequences, FiniteSets

CONSTANTS
    Size,       \* len(b.ring): config events.buffer_size
    Waiters,    \* goroutines that may be inside Wait
    Payloads,   \* dispatches, as the type and the ids extractIDs finds in them
    Filters,    \* filters the callers use
    Cursors,    \* cursors the callers present, see CursorSet
    MaxSeq      \* BOUND on Append: the number of events of a behaviour

(* A cursor is the text "<bootID>:<seq>" a caller sends back.  "garbled" is *)
(* any text parse refuses; boot and seq then mean nothing.                  *)
CursorSet   == [form: {"empty", "garbled", "at"}, boot: Nat, seq: Nat]
EmptyCursor == [form |-> "empty", boot |-> 0, seq |-> 0]

ASSUME SizeAssumption   == Size \in Nat \ {0}
ASSUME BoundAssumption  == MaxSeq \in Nat
ASSUME CursorAssumption == Cursors \subseteq CursorSet

NoBody  == [type |-> "", guild |-> "", channel |-> "", author |-> ""]
NoFilter == [types |-> {}, guild |-> "", channel |-> "", author |-> "",
             exclude |-> ""]
NoEvent == [seq |-> 0, body |-> NoBody]                 \* Go's Event{}
Event   == [seq: Nat, body: Payloads \cup {NoBody}]
Errors  == {"none", "closed", "bad_cursor", "context"}
Slots   == 0 .. Size - 1

VARIABLES
    bootID, ring, start, count, lastSeq,
    changed,      \* the channel b.changed points to
    closedChans,  \* the channels that were closed
    closed,
    pc,           \* where each waiter is in Wait
    cursor, filter, gap, ch,   \* its locals there
    result,       \* what its last Wait returned, beside cursor and gap
    history,      \* auxiliary: the body of every event ever stored, by seq
    asked         \* auxiliary: the cursor each caller asked to read after

bufVars  == <<bootID, ring, start, count, lastSeq, changed, closedChans,
              closed, history>>
waitVars == <<pc, cursor, filter, gap, ch, result, asked>>
vars     == <<bufVars, waitVars>>

-----------------------------------------------------------------------------
(* Filter.Match: an empty field of the filter matches everything. *)
Match(f, b) ==
    /\ f.types # {} => b.type \in f.types
    /\ f.guild # "" => b.guild = f.guild
    /\ f.channel # "" => b.channel = f.channel
    /\ f.author # "" => b.author = f.author
    /\ f.exclude # "" => b.author # f.exclude

(* The i-th oldest event. *)
At(i) == ring[(start + i) % Size]

Retained == {At(i) : i \in 0 .. count - 1}

Cursor(seq) == [form |-> "at", boot |-> bootID, seq |-> seq]

Oldest == IF count > 0 THEN At(0).seq ELSE lastSeq + 1

(* fault: the boot is not looked at *)
ParseAnyBoot(c) ==
    IF c.form # "at" \/ c.seq > lastSeq
    THEN [after |-> 0, gap |-> FALSE, bad |-> TRUE]
    ELSE [after |-> c.seq, gap |-> c.seq + 1 < Oldest, bad |-> FALSE]

(* fault: a gap is seen one event early *)
ParseEager(c) ==
    IF c.form # "at" THEN [after |-> 0, gap |-> FALSE, bad |-> TRUE]
    ELSE IF c.boot # bootID THEN [after |-> 0, gap |-> TRUE, bad |-> FALSE]
    ELSE IF c.seq > lastSeq THEN [after |-> 0, gap |-> FALSE, bad |-> TRUE]
    ELSE [after |-> c.seq, gap |-> c.seq < Oldest, bad |-> FALSE]

(* parse: the seq to read after, whether events were missed, and whether  *)
(* the cursor is refused.  A cursor of another boot reads from the start. *)
Parse(c) ==
    IF c.form # "at" THEN [after |-> 0, gap |-> FALSE, bad |-> TRUE]
    ELSE IF c.boot # bootID THEN [after |-> 0, gap |-> TRUE, bad |-> FALSE]
    ELSE IF c.seq > lastSeq THEN [after |-> 0, gap |-> FALSE, bad |-> TRUE]
    ELSE [after |-> c.seq, gap |-> c.seq + 1 < Oldest, bad |-> FALSE]

(* The first limit events of a set, in seq order, and the last limit. *)
Earliest(S, limit) ==
    {e \in S : Cardinality({d \in S : d.seq <= e.seq}) <= limit}

Latest(S, limit) ==
    {e \in S : Cardinality({d \in S : d.seq >= e.seq}) <= limit}

LastOf(S) == CHOOSE e \in S : \A d \in S : d.seq <= e.seq

(* fault: the event at the cursor is read again *)
HitsAgain(after, f) == {e \in Retained : e.seq >= after /\ Match(f, e.body)}

Hits(after, f) == {e \in Retained : e.seq > after /\ Match(f, e.body)}

(* fault: a full page skips to the newest event *)
NextNewest(out, limit) == lastSeq

(* The seq of NextCursor: a full page ends at its last event; a page that  *)
(* is not full has looked at everything, so it ends at lastSeq.            *)
NextSeq(out, limit) ==
    IF Cardinality(out) = limit THEN LastOf(out).seq ELSE lastSeq

(* since: one page; a refused cursor gives none. *)
Since(c, f, limit) ==
    IF c.form = "empty"
    THEN [events |-> Latest(Hits(0, f), limit), next |-> lastSeq,
          gap |-> FALSE, bad |-> FALSE]
    ELSE LET p   == Parse(c)
             out == Earliest(Hits(p.after, f), limit)
             nxt == NextSeq(out, limit)
         IN  IF p.bad
             THEN [events |-> {}, next |-> 0, gap |-> FALSE, bad |-> TRUE]
             ELSE [events |-> out,
                   next   |-> IF nxt < p.after THEN p.after ELSE nxt,
                   gap    |-> p.gap, bad |-> FALSE]

-----------------------------------------------------------------------------
Init ==
    /\ bootID = 1
    /\ ring = [i \in Slots |-> NoEvent]
    /\ start = 0 /\ count = 0 /\ lastSeq = 0
    /\ changed = 0 /\ closedChans = {} /\ closed = FALSE
    /\ history = <<>>
    /\ pc = [w \in Waiters |-> "idle"]
    /\ cursor = [w \in Waiters |-> EmptyCursor]
    /\ filter = [w \in Waiters |-> NoFilter]
    /\ gap = [w \in Waiters |-> FALSE]
    /\ ch = [w \in Waiters |-> 0]
    /\ result = [w \in Waiters |-> [event |-> NoEvent, err |-> "none"]]
    /\ asked = [w \in Waiters |-> EmptyCursor]

(* fault: start stays where it is *)
StoreStuck(e) ==
    \/ /\ count < Size
       /\ ring' = [ring EXCEPT ![(start + count) % Size] = e]
       /\ count' = count + 1
       /\ UNCHANGED start
    \/ /\ count = Size
       /\ ring' = [ring EXCEPT ![start] = e]
       /\ UNCHANGED <<start, count>>

(* fault: start is not wrapped *)
StoreUnwrapped(e) ==
    /\ ring' = [ring EXCEPT ![(start + count) % Size] = e]
    /\ count' = IF count < Size THEN count + 1 ELSE count
    /\ start' = IF count < Size THEN start ELSE start + 1

(* Put e after the newest event, or over the oldest of a full ring. *)
Store(e) ==
    \/ /\ count < Size
       /\ ring' = [ring EXCEPT ![(start + count) % Size] = e]
       /\ count' = count + 1
       /\ UNCHANGED start
    \/ /\ count = Size
       /\ ring' = [ring EXCEPT ![start] = e]
       /\ start' = (start + 1) % Size
       /\ UNCHANGED count

(* fault: the closed channel stays the current one *)
WakeInPlace == closedChans' = closedChans \cup {changed} /\ UNCHANGED changed
(* fault: the old channel is not closed *)
WakeNobody  == changed' = changed + 1 /\ UNCHANGED closedChans

(* close(b.changed), then a new channel for those who scan from now on.    *)
WakeWaiters ==
    /\ closedChans' = closedChans \cup {changed}
    /\ changed' = changed + 1

(* Append on an open buffer.  On a closed one it changes nothing: that call *)
(* is a stuttering step.                                                    *)
AppendEvent(b) ==
    /\ ~closed
    /\ lastSeq < MaxSeq
    /\ lastSeq' = lastSeq + 1
    /\ Store([seq |-> lastSeq + 1, body |-> b])
    /\ WakeWaiters
    /\ history' = Append(history, b)
    /\ UNCHANGED <<bootID, closed, waitVars>>

(* fault: Close wakes nobody *)
CloseQuietly ==
    /\ ~closed
    /\ closed' = TRUE
    /\ UNCHANGED <<bootID, ring, start, count, lastSeq, changed, closedChans,
                   history, waitVars>>

Close ==
    /\ ~closed
    /\ closed' = TRUE
    /\ closedChans' = closedChans \cup {changed}
    /\ UNCHANGED <<bootID, ring, start, count, lastSeq, changed, history,
                   waitVars>>

(* Entry of Wait.  An empty cursor is replaced by Cursor(), which takes and *)
(* releases the lock before the loop takes it again.                        *)
CallWait(w, c, f) ==
    /\ pc[w] \in {"idle", "returned"}
    /\ pc' = [pc EXCEPT ![w] = IF c.form = "empty" THEN "start" ELSE "scan"]
    /\ cursor' = [cursor EXCEPT ![w] = c]
    /\ filter' = [filter EXCEPT ![w] = f]
    /\ gap' = [gap EXCEPT ![w] = FALSE]
    /\ result' = [result EXCEPT ![w] = [event |-> NoEvent, err |-> "none"]]
    /\ asked' = [asked EXCEPT ![w] = c]
    /\ ch' = [ch EXCEPT ![w] = 0]
    /\ UNCHANGED bufVars

ReadCursor(w) ==
    /\ pc[w] = "start"
    /\ pc' = [pc EXCEPT ![w] = "scan"]
    /\ cursor' = [cursor EXCEPT ![w] = Cursor(lastSeq)]
    /\ asked' = [asked EXCEPT ![w] = Cursor(lastSeq)]
    /\ UNCHANGED <<bufVars, filter, gap, ch, result>>

Return(w, e, err) ==
    /\ pc' = [pc EXCEPT ![w] = "returned"]
    /\ result' = [result EXCEPT ![w] = [event |-> e, err |-> err]]
    /\ ch' = [ch EXCEPT ![w] = 0]
    /\ UNCHANGED <<bufVars, filter, asked>>

(* The critical section of one turn of Wait's loop, in its four outcomes. *)
ScanClosed(w) ==
    /\ pc[w] = "scan" /\ closed
    /\ Return(w, NoEvent, "closed")
    /\ UNCHANGED <<cursor, gap>>

ScanRefused(w) ==
    /\ pc[w] = "scan" /\ ~closed
    /\ Since(cursor[w], filter[w], 1).bad
    /\ Return(w, NoEvent, "bad_cursor")
    /\ UNCHANGED <<cursor, gap>>

(* fault: the gap of the last turn only *)
ScannedForgetful(w, p) ==
    /\ pc[w] = "scan" /\ ~closed /\ ~p.bad
    /\ gap' = [gap EXCEPT ![w] = p.gap]
    /\ cursor' = [cursor EXCEPT ![w] = Cursor(p.next)]

Scanned(w, p) ==
    /\ pc[w] = "scan" /\ ~closed /\ ~p.bad
    /\ gap' = [gap EXCEPT ![w] = gap[w] \/ p.gap]
    /\ cursor' = [cursor EXCEPT ![w] = Cursor(p.next)]

ScanHit(w) ==
    LET p == Since(cursor[w], filter[w], 1)
    IN  /\ Scanned(w, p)
        /\ \E e \in p.events : Return(w, e, "none")

ScanMiss(w) ==
    LET p == Since(cursor[w], filter[w], 1)
    IN  /\ Scanned(w, p)
        /\ p.events = {}
        /\ pc' = [pc EXCEPT ![w] = "select"]
        /\ ch' = [ch EXCEPT ![w] = changed]
        /\ UNCHANGED <<bufVars, filter, result, asked>>

(* The two ways out of the select; when both are ready Go picks either. *)
Woken(w) ==
    /\ pc[w] = "select"
    /\ ch[w] \in closedChans
    /\ pc' = [pc EXCEPT ![w] = "scan"]
    /\ UNCHANGED <<bufVars, cursor, filter, gap, ch, result, asked>>

ContextDone(w) ==
    /\ pc[w] = "select"
    /\ Return(w, NoEvent, "context")
    /\ UNCHANGED <<cursor, gap>>

Scan(w) == ScanClosed(w) \/ ScanRefused(w) \/ ScanHit(w) \/ ScanMiss(w)

Next ==
    \/ \E b \in Payloads : AppendEvent(b)
    \/ Close
    \/ \E w \in Waiters :
        \/ \E c \in Cursors, f \in Filters : CallWait(w, c, f)
        \/ ReadCursor(w)
        \/ Scan(w)
        \/ Woken(w)
        \/ ContextDone(w)

Spec == Init /\ [][Next]_vars

(* A goroutine that can run does run.  No fairness for Append, Close or the *)
(* end of a context: a waiter must be woken by the buffer, not by its timer. *)
Fairness == \A w \in Waiters :
    WF_vars(ReadCursor(w)) /\ WF_vars(Scan(w)) /\ WF_vars(Woken(w))

FairSpec == Spec /\ Fairness

-----------------------------------------------------------------------------
TypeOK ==
    /\ bootID \in Nat
    /\ ring \in [Slots -> Event]
    /\ start \in Slots
    /\ count \in 0 .. Size
    /\ lastSeq \in Nat
    /\ changed \in Nat
    /\ closedChans \subseteq Nat
    /\ closed \in BOOLEAN
    /\ history \in Seq(Payloads)
    /\ pc \in [Waiters -> {"idle", "start", "scan", "select", "returned"}]
    /\ cursor \in [Waiters -> CursorSet]
    /\ filter \in [Waiters -> Filters \cup {NoFilter}]
    /\ gap \in [Waiters -> BOOLEAN]
    /\ ch \in [Waiters -> Nat]
    /\ result \in [Waiters -> [event: Event, err: Errors]]
    /\ asked \in [Waiters -> CursorSet]

-----------------------------------------------------------------------------
(* What the ring stands for, in terms of everything ever stored. *)
Stored(s) == [seq |-> s, body |-> history[s]]

Published == Len(history)
Evicted   == 1 .. Published - Size
Surviving == 1 .. Published \ Evicted

(* The seq a cursor that parse accepts reads after. *)
Position(c) == IF c.form = "at" /\ c.boot = bootID THEN c.seq ELSE 0

(* The ring holds the last Size events and only them, oldest first, each   *)
(* under its own seq: the modular arithmetic of Append and at agrees with  *)
(* the plain history.                                                      *)
RingHoldsLatest ==
    /\ lastSeq = Published
    /\ count = IF Published < Size THEN Published ELSE Size
    /\ \A i \in 0 .. count - 1 : At(i) = Stored(lastSeq - count + 1 + i)

(* Append and Close both close b.changed, and Go panics on the second      *)
(* close of a channel: while the buffer is open the current one is open.   *)
NoDoubleClose == ~closed => changed \notin closedChans

(* A waiter asleep on a channel that is still open sleeps on the current   *)
(* one, the buffer is open, and nothing it waits for is in the ring: what  *)
(* Append stored between its scan and its select has closed its channel.   *)
NoLostWakeup ==
    \A w \in Waiters :
        pc[w] = "select" /\ ch[w] \notin closedChans =>
            /\ ~closed
            /\ ch[w] = changed
            /\ Hits(Position(cursor[w]), filter[w]) = {}

(* "It returns the cursor to resume from whatever happens, and whether any *)
(* gap was crossed" (Wait): between the cursor the caller sent and the one *)
(* it may be handed back there is no matching event that it neither gets   *)
(* nor is warned about, however often it was woken, lapped or timed out.   *)
NoSilentSkip ==
    \A w \in Waiters : pc[w] \in {"scan", "select", "returned"} =>
        \A s \in Position(asked[w]) + 1 .. Position(cursor[w]) :
            Match(filter[w], history[s]) => gap[w] \/ result[w].event.seq = s

(* The event Wait returns is one that was published after the caller's     *)
(* cursor and passes the filter, and the returned cursor is just past it.  *)
WaitReturnsMatch ==
    \A w \in Waiters : result[w].event # NoEvent =>
        LET e == result[w].event
        IN  /\ e.seq \in Position(asked[w]) + 1 .. Published
            /\ e = Stored(e.seq)
            /\ Match(filter[w], e.body)
            /\ cursor[w] = Cursor(e.seq)

(* A gap is never a false alarm: the caller's cursor is of another boot or *)
(* an event after it is gone from the ring.                                *)
GapJustified ==
    \A w \in Waiters : gap[w] =>
        \/ asked[w].boot # bootID
        \/ \E s \in Evicted : s > Position(asked[w])

(* A wait that ends, in whatever way, after one good scan leaves a cursor  *)
(* that the buffer accepts without a gap at the point reached: it is of    *)
(* this boot, not behind the caller's and not ahead of the newest event.   *)
ResumeCursorUsable ==
    \A w \in Waiters :
        (pc[w] = "select" \/ (pc[w] = "returned" /\ result[w].err \in {"none", "context"})) =>
            /\ cursor[w].form = "at" /\ cursor[w].boot = bootID
            /\ cursor[w].seq \in Position(asked[w]) .. lastSeq

(* What a wait answers, in whatever way it ends, is right for the log: the *)
(* event, the gap and the cursor (buffer.go 199-228).                      *)
WaitAnswers == WaitReturnsMatch /\ GapJustified /\ ResumeCursorUsable

-----------------------------------------------------------------------------
(* The buffer as an EventLog: a waiter stands where its cursor stands.     *)
LogState(w) == CASE pc[w] = "start" -> "called"
                 [] pc[w] \in {"scan", "select"} -> "reading"
                 [] OTHER -> pc[w]

Log == INSTANCE EventLog WITH
    Readers   <- Waiters,
    Filters   <- Filters \cup {NoFilter},
    Positions <- {c.seq : c \in Cursors},
    Passes    <- Match,
    log       <- history,
    shut      <- closed,
    state     <- [w \in Waiters |-> LogState(w)],
    wants     <- filter,
    at        <- [w \in Waiters |-> Position(cursor[w])],
    stale     <- [w \in Waiters |-> cursor[w].form = "at" /\ cursor[w].boot # bootID],
    refused   <- [w \in Waiters |-> cursor[w].form = "garbled"],
    missed    <- gap,
    got       <- [w \in Waiters |-> result[w].event.seq]

(* Every step of the buffer is a step of the log or changes nothing there: *)
(* ring, wrap-around, channels and re-scans keep the log's promise.        *)
ImplementsLog == Log!Spec

-----------------------------------------------------------------------------
(* Pages, for poll_events: what Since returns for every cursor, filter and *)
(* limit, judged against the history.                                      *)
Wanted(c, f) ==
    {s \in Surviving : s > Position(c) /\ Match(f, history[s])}

(* A page holds matching events only, at most limit of them, and with the  *)
(* cursor it hands out for the next one no surviving event falls between   *)
(* two pages or appears on both; a page that is not full reaches the end.  *)
PageComplete(c, f, limit) ==
    LET p == Since(c, f, limit)
    IN  c.form = "at" /\ ~p.bad =>
            /\ p.events = {Stored(s) : s \in {s \in Wanted(c, f) : s <= p.next}}
            /\ Cardinality(p.events) <= limit
            /\ p.next \in Position(c) .. Published
            /\ Cardinality(p.events) < limit => p.next = Published

(* The page of an empty cursor is the newest limit matching events.        *)
PageLatest(f, limit) ==
    LET p    == Since(EmptyCursor, f, limit)
        want == Wanted(EmptyCursor, f)
        got  == {e.seq : e \in p.events}
    IN  /\ got \subseteq want
        /\ Cardinality(got) = IF Cardinality(want) < limit THEN Cardinality(want)
                                                           ELSE limit
        /\ \A s \in want \ got, t \in got : s < t
        /\ p.next = Published

(* A page says gap exactly when an event after the cursor is gone: the     *)
(* cursor of the newest evicted event is still good, the one before not.   *)
GapExact(c) ==
    LET p == Parse(c)
    IN  ~p.bad => (p.gap <=> \/ c.boot # bootID
                             \/ \E s \in Evicted : s > Position(c))

-----------------------------------------------------------------------------
(* Close ends every wait: no goroutine stays blocked in a closed buffer,   *)
(* whichever of Close and Wait took the lock first.                        *)
CloseEndsWaits ==
    \A w \in Waiters : closed ~> pc[w] \in {"idle", "returned"}
=============================================================================
