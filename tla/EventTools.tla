----------------------------- MODULE EventTools -----------------------------
(***************************************************************************)
(* internal/tools/events.go over EventBuffer: discord_poll_events and      *)
(* discord_wait_for_message, and the clients that follow the events by     *)
(* passing each next_cursor back, through lost replies, timeouts, a        *)
(* shutdown and restarts of the server.                                    *)
(*                                                                         *)
(* A waiter of EventBuffer is a client here, with one request at a time.   *)
(***************************************************************************)
EXTENDS EventBuffer

CONSTANTS
    Limits,     \* the page sizes clients ask for
    MaxBoots,   \* BOUND on Restart: the processes of a behaviour
    MaxLost     \* BOUND on LoseReply and Leave: replies that reach nobody

ASSUME LimitsAssumption == Limits \subseteq Nat \ {0}
ASSUME FaultsAssumption == MaxBoots \in Nat \ {0} /\ MaxLost \in Nat

VARIABLES
    past,      \* auxiliary: the histories of the earlier processes
    stage,     \* of each client: idle, waiting in wait_for_message, answered
    wants,     \* the filter it asks with
    hold,      \* the last next_cursor it got
    reply,     \* the reply on its way to it
    ended,     \* how the context of its wait ended: a deadline or a cancel
    gone,      \* it went away during its wait
    lost,      \* replies that reached nobody so far
    since,     \* auxiliary: where it began to follow
    have,      \* auxiliary: the events it got
    missed     \* auxiliary: those it was told it may have missed

clientVars == <<stage, hold, reply, ended, gone, lost, since, have, missed>>
toolVars   == <<past, wants, clientVars>>
allVars    == <<vars, toolVars>>

NoReply == [err |-> "none", events |-> {}, next |-> EmptyCursor, gap |-> FALSE]

FollowInit ==
    /\ Init
    /\ past = <<>>
    /\ wants \in [Waiters -> Filters]
    /\ stage = [w \in Waiters |-> "idle"] /\ hold = [w \in Waiters |-> EmptyCursor]
    /\ reply = [w \in Waiters |-> NoReply]
    /\ ended = [w \in Waiters |-> "no"] /\ gone = [w \in Waiters |-> FALSE] /\ lost = 0
    /\ since = [w \in Waiters |-> EmptyCursor]
    /\ have = [w \in Waiters |-> {}] /\ missed = [w \in Waiters |-> {}]

-----------------------------------------------------------------------------
(* The log over all processes. *)
LogOf(b) == IF b = bootID THEN history ELSE past[b]

(* What was published after cursor c and up to cursor d. *)
Between(c, d) ==
    {e \in (c.boot .. d.boot) \X (1 .. MaxSeq) :
        /\ e[2] <= Len(LogOf(e[1]))
        /\ e[1] = c.boot => e[2] > c.seq
        /\ e[1] = d.boot => e[2] <= d.seq}

(* MaxSeq bounds the events of all processes together. *)
EverPublished == Cardinality(Between([Cursor(0) EXCEPT !.boot = 1], Cursor(lastSeq)))

Wants(w, e) == Match(wants[w], LogOf(e[1])[e[2]])

-----------------------------------------------------------------------------
(* discord_poll_events: one page, from a closed buffer as well.  Its       *)
(* filter has no author in it.                                             *)
CanPoll(w) == wants[w].author = "" /\ wants[w].exclude = ""

PollEvents(w, limit) ==
    /\ stage[w] = "idle" /\ CanPoll(w)
    /\ LET p == Since(hold[w], wants[w], limit)
       IN  reply' = [reply EXCEPT ![w] =
             [err |-> IF p.bad THEN "bad_cursor" ELSE "none", events |-> {e.seq : e \in p.events},
              next |-> Cursor(p.next), gap |-> p.gap]]
    /\ stage' = [stage EXCEPT ![w] = "answered"]
    /\ UNCHANGED <<vars, past, wants, hold, ended, gone, lost, since, have, missed>>

(* discord_wait_for_message: messages only, of any guild. *)
CanWait(w) == wants[w].types = {"MESSAGE_CREATE"} /\ wants[w].guild = ""

WaitForMessage(w) ==
    /\ stage[w] = "idle" /\ CanWait(w)
    /\ CallWait(w, hold[w], wants[w])
    /\ stage' = [stage EXCEPT ![w] = "waiting"]
    /\ UNCHANGED <<past, wants, hold, reply, ended, gone, lost, since, have, missed>>

(* The deadline of waitCtx passes, or the client goes away and its context *)
(* with it; the first of the two is the error of waitCtx.                  *)
Deadline(w) ==
    /\ stage[w] = "waiting" /\ ended[w] = "no"
    /\ ended' = [ended EXCEPT ![w] = "deadline"]
    /\ UNCHANGED <<vars, past, wants, stage, hold, reply, gone, lost, since, have, missed>>

Leave(w) ==
    /\ stage[w] = "waiting" /\ ~gone[w] /\ lost < MaxLost
    /\ gone' = [gone EXCEPT ![w] = TRUE] /\ lost' = lost + 1
    /\ ended' = [ended EXCEPT ![w] = IF @ = "no" THEN "cancel" ELSE @]
    /\ UNCHANGED <<vars, past, wants, stage, hold, reply, since, have, missed>>

WaitEnded(w) == ended[w] # "no" /\ ContextDone(w) /\ UNCHANGED toolVars

(* fault: a deadline is an error as a cancel is *)
ErrStrict(w) ==
    CASE result[w].err = "closed"     -> "closing"
      [] result[w].err = "bad_cursor" -> "bad_cursor"
      [] result[w].err = "context"    -> "cancelled"
      [] OTHER                        -> "none"

(* The switch on the error of Wait. *)
Err(w) ==
    CASE result[w].err = "none"       -> "none"
      [] result[w].err = "context" /\ ended[w] = "deadline" /\ ~gone[w] -> "none"
      [] result[w].err = "closed"     -> "closing"
      [] result[w].err = "bad_cursor" -> "bad_cursor"
      [] OTHER                        -> "cancelled"

(* The locals of a wait that is over. *)
Forget(w) ==
    /\ pc' = [pc EXCEPT ![w] = "idle"] /\ cursor' = [cursor EXCEPT ![w] = EmptyCursor]
    /\ filter' = [filter EXCEPT ![w] = NoFilter] /\ gap' = [gap EXCEPT ![w] = FALSE]
    /\ result' = [result EXCEPT ![w] = [event |-> NoEvent, err |-> "none"]]
    /\ asked' = [asked EXCEPT ![w] = EmptyCursor] /\ ch' = [ch EXCEPT ![w] = 0]

Reply(w) ==
    /\ stage[w] = "waiting" /\ pc[w] = "returned"
    /\ reply' = [reply EXCEPT ![w] =
         [err |-> Err(w), events |-> {result[w].event.seq} \ {0},
          next |-> cursor[w], gap |-> gap[w]]]
    /\ stage' = [stage EXCEPT ![w] = "answered"]
    /\ Forget(w)
    /\ UNCHANGED <<bufVars, past, wants, hold, ended, gone, lost, since, have, missed>>

-----------------------------------------------------------------------------
(* The client.  It takes the next cursor over from a good reply; after an  *)
(* error it keeps the one it has.                                          *)
Over(w) ==
    /\ stage' = [stage EXCEPT ![w] = "idle"] /\ reply' = [reply EXCEPT ![w] = NoReply]
    /\ ended' = [ended EXCEPT ![w] = "no"] /\ gone' = [gone EXCEPT ![w] = FALSE]

Accept(w) ==
    /\ stage[w] = "answered" /\ ~gone[w]
    /\ Over(w)
    /\ LET r   == reply[w]
           got == {<<r.next.boot, s>> : s \in r.events}
       IN  IF r.err = "none"
           THEN /\ hold' = [hold EXCEPT ![w] = r.next]
                /\ since' = [since EXCEPT ![w] = IF hold[w] = EmptyCursor THEN r.next ELSE @]
                /\ have' = [have EXCEPT ![w] = @ \cup got]
                /\ missed' = IF ~r.gap \/ hold[w] = EmptyCursor THEN missed
                     ELSE [missed EXCEPT ![w] =
                             @ \cup ({e \in Between(hold[w], r.next) : Wants(w, e)} \ got)]
           ELSE UNCHANGED <<hold, since, have, missed>>
    /\ UNCHANGED <<vars, past, wants, lost>>

LoseReply(w) ==
    /\ stage[w] = "answered" /\ (gone[w] \/ lost < MaxLost)
    /\ lost' = IF gone[w] THEN lost ELSE lost + 1
    /\ Over(w)
    /\ UNCHANGED <<vars, past, wants, hold, since, have, missed>>

(* The process ends, in whatever way, and another starts with an empty     *)
(* buffer and a boot ID of its own.  What was in progress is gone.         *)
Restart ==
    /\ bootID < MaxBoots
    /\ past' = Append(past, history) /\ history' = <<>>
    /\ bootID' = bootID + 1
    /\ ring' = [i \in Slots |-> NoEvent] /\ start' = 0 /\ count' = 0 /\ lastSeq' = 0
    /\ changed' = 0 /\ closedChans' = {} /\ closed' = FALSE
    /\ pc' = [w \in Waiters |-> "idle"] /\ cursor' = [w \in Waiters |-> EmptyCursor]
    /\ filter' = [w \in Waiters |-> NoFilter] /\ gap' = [w \in Waiters |-> FALSE]
    /\ result' = [w \in Waiters |-> [event |-> NoEvent, err |-> "none"]]
    /\ asked' = [w \in Waiters |-> EmptyCursor] /\ ch' = [w \in Waiters |-> 0]
    /\ stage' = [w \in Waiters |-> "idle"] /\ reply' = [w \in Waiters |-> NoReply]
    /\ ended' = [w \in Waiters |-> "no"] /\ gone' = [w \in Waiters |-> FALSE]
    /\ UNCHANGED <<wants, hold, lost, since, have, missed>>

Ask(w) == WaitForMessage(w) \/ \E n \in Limits : PollEvents(w, n)

FollowNext ==
    \/ Restart
    \/ Close /\ UNCHANGED toolVars
    \/ EverPublished < MaxSeq /\ (\E b \in Payloads : AppendEvent(b)) /\ UNCHANGED toolVars
    \/ \E w \in Waiters :
        \/ Ask(w) \/ Deadline(w) \/ Leave(w) \/ WaitEnded(w) \/ Reply(w)
        \/ (ReadCursor(w) \/ Scan(w) \/ Woken(w)) /\ UNCHANGED toolVars
        \/ Accept(w) \/ LoseReply(w)

FollowSpec == FollowInit /\ [][FollowNext]_allVars

(* Goroutines that can run do, and a client goes on asking.  The timer of  *)
(* a wait need not fire, nor anything more be published.                   *)
FollowFairness == \A w \in Waiters :
    /\ WF_allVars((ReadCursor(w) \/ Scan(w) \/ Woken(w)) /\ UNCHANGED toolVars)
    /\ WF_allVars(Reply(w)) /\ WF_allVars(Accept(w) \/ LoseReply(w)) /\ WF_allVars(Ask(w))

FairFollowSpec == FollowSpec /\ FollowFairness

-----------------------------------------------------------------------------
(* What Since answers to every cursor, filter and limit (buffer.go         *)
(* 130-171): a page holds the matching events after the cursor, with its   *)
(* next cursor none is left out or shown twice; without a cursor it holds  *)
(* the latest; and it says gap exactly if an event after the cursor is     *)
(* gone.  (All this is of the buffer alone, and every state of the buffer  *)
(* is reached before a client asks for anything.)                          *)
PagesComplete == \A c \in Cursors, f \in Filters, n \in Limits : PageComplete(c, f, n)
PagesLatest   == \A f \in Filters, n \in Limits : PageLatest(f, n)
GapsExact     == \A c \in Cursors : c.form = "at" => GapExact(c)
PagesTellAll  ==
    (\A w \in Waiters : stage[w] = "idle" /\ hold[w] = EmptyCursor /\ lost = 0)
        => PagesComplete /\ PagesLatest /\ GapsExact

(* "Pass next_cursor back to continue" (events.go:63): of what was         *)
(* published since a client began to follow, it has got or been told it    *)
(* missed every event it wants up to its cursor, and has got no other; it  *)
(* gets none twice, however many replies were lost, and it is told of a    *)
(* miss only when the event is gone from the buffer.                       *)
FollowsLog ==
    \A w \in Waiters : hold[w] # EmptyCursor =>
        /\ \A e \in Between(since[w], hold[w]) : Wants(w, e) => e \in have[w] \cup missed[w]
        /\ \A e \in have[w] : Wants(w, e)
        /\ have[w] \cap missed[w] = {}
        /\ \A e \in missed[w] : e[1] # bootID \/ e[2] \in Evicted
        /\ stage[w] = "answered" /\ reply[w].err = "none" =>
              \A s \in reply[w].events : <<reply[w].next.boot, s>> \notin have[w] \cup missed[w]

(* "A timeout is a normal result that returns a cursor to keep waiting     *)
(* from" (events.go:131): a client that is still there and passes back the *)
(* cursors it was given gets an error from nothing but a server that shuts *)
(* down, and whatever else ends its request gives it a cursor to go on     *)
(* from, ahead of the one it has.                                          *)
ErrorsExplained ==
    \A w \in Waiters : stage[w] = "answered" =>
        LET r == reply[w]
        IN  CASE r.err = "none"      -> /\ r.next.form = "at" /\ r.next.boot = bootID
                                        /\ hold[w].boot = bootID => r.next.seq >= hold[w].seq
              [] r.err = "closing"   -> closed
              [] r.err = "cancelled" -> gone[w]
              [] OTHER               -> FALSE

(* Every event a client wants reaches it, or the client knows or will know *)
(* with its next reply that it missed something; unless the server closes  *)
(* the buffer, or ends and begins again with fewer events (events.go:63,   *)
(* buffer.go 199-228).                                                     *)
CatchesUp ==
    \A w \in Waiters, s \in 1 .. MaxSeq :
        LET e == <<bootID, s>>
        IN  (/\ hold[w] # EmptyCursor /\ s <= Published
             /\ e \in Between(since[w], Cursor(s)) /\ Wants(w, e))
                ~> (e \in have[w] \cup missed[w] \/ gap[w] \/ closed \/ Published < s)

(* "so readers know events may be missing" (the design on the reconnect    *)
(* marker): a client that has read past a gateway_reconnected has got it   *)
(* or been told that it missed something.                                  *)
MarkerReachesReaders ==
    \A w \in Waiters : hold[w] # EmptyCursor =>
        \A e \in Between(since[w], hold[w]) :
            LogOf(e[1])[e[2]].type = "gateway_reconnected" => e \in have[w] \cup missed[w]

=============================================================================
