----------------------------- MODULE RestClient -----------------------------
(***************************************************************************)
(* internal/discord/client.go: Client.Do and its send loop, run by several *)
(* tool calls at once with one credential, so with one discordgo session   *)
(* and its rate-limit buckets.                                             *)
(*                                                                         *)
(* A request goes out through discordgo's RequestRaw, which is external:   *)
(* it takes the bucket of the route, sleeping there while the bucket is    *)
(* used up whatever the context says, sends, and releases the bucket.      *)
(*                                                                         *)
(* Time is the time left on each timer; Tick takes one unit off all.       *)
(***************************************************************************)
EXTENDS Naturals, Sequences

CONSTANTS
    Calls,         \* the tool calls in progress, each with one Do at a time
    Routes,        \* the buckets (method, route and major resource)
    Timeout,       \* discord.timeout
    Pauses,        \* the retry_after values Discord sends with a 429
    Refills,       \* the times after which a used-up bucket refills
    MaxResend,     \* discordgo: how often a 502 is sent again
    Free           \* nobody's

ASSUME TimeoutAssumption == Timeout \in Nat \ {0}
ASSUME PausesAssumption  == Pauses \subseteq Nat \ {0} /\ Refills \subseteq Nat
ASSUME ResendAssumption  == MaxResend \in Nat
ASSUME FreeAssumption    == Free \notin Calls

VARIABLES
    holder, refill,   \* discordgo's buckets: who is in, and when they refill
    send,             \* the locals of send, of each tool call
    gone,             \* the context of the tool call was cancelled
    verdict,          \* what the last Do of the tool call returned
    rec,              \* the Recorder in the context of the tool call
    carried,          \* auxiliary: the routes Discord carried out for it
    notBefore         \* auxiliary: how long Discord bars it from asking

callVars == <<send, verdict, rec, carried, notBefore>>
restVars == <<holder, refill, gone, callVars>>

(* 200 stands for every 2xx, 404 for every other refusal or failure that   *)
(* Discord explains; 0: no answer was seen.                                *)
Statuses == {0, 200, 401, 404, 429, 502}
Verdicts == {"ok", "unauthorized", "api", "limited", "unavailable"}

Send  == [at: {"idle", "bucket", "asked", "paused"}, route: Routes,
          left: Nat,                       \* until the deadline
          retry: Nat, pause: Nat,          \* the wait, and what is left of it
          waited: Nat, resent: Nat, sink: Statuses]
(* read is auxiliary: that answer was read to its end. *)
Entry == [route: Routes, status: Statuses, waited: Nat, read: BOOLEAN]

(* send on route r, about to ask for the first time. *)
Begun(r, where) == [at |-> where, route |-> r, left |-> Timeout, retry |-> 0,
                    pause |-> 0, waited |-> 0, resent |-> 0, sink |-> 0]
Idle == Begun(CHOOSE r \in Routes : TRUE, "idle")

RestInit ==
    /\ holder = [r \in Routes |-> Free] /\ refill = [r \in Routes |-> 0]
    /\ send = [t \in Calls |-> Idle] /\ gone = [t \in Calls |-> FALSE]
    /\ verdict = [t \in Calls |-> "ok"] /\ rec = [t \in Calls |-> <<>>]
    /\ carried = [t \in Calls |-> {}] /\ notBefore = [t \in Calls |-> 0]

At(t, where) == send[t].at = where
Route(t)     == send[t].route

(* The context of send: the tool call's, with the timeout of the client.   *)
CtxDone(t) == gone[t] \/ send[t].left = 0

-----------------------------------------------------------------------------
(* Do, once the route is expanded and the body encoded.                    *)
Do(t, r) ==
    /\ At(t, "idle")
    /\ send' = [send EXCEPT ![t] = Begun(r, "bucket")]
    /\ UNCHANGED <<holder, refill, gone, verdict, rec, carried, notBefore>>

(* send returns v; the recorder gets one entry on every way out.           *)
Finish(t, s, read, v) ==
    /\ rec' = [rec EXCEPT ![t] =
         Append(@, [route |-> Route(t), status |-> s, waited |-> send[t].waited,
                    read |-> read])]
    /\ verdict' = [verdict EXCEPT ![t] = v]
    /\ send' = [send EXCEPT ![t] = Idle]
    /\ notBefore' = [notBefore EXCEPT ![t] = 0]

-----------------------------------------------------------------------------
(* discordgo's RequestRaw and Discord.                                     *)
Granted(t) == At(t, "bucket") /\ holder[Route(t)] = Free /\ refill[Route(t)] = 0

Ask(t) ==
    /\ Granted(t) /\ ~CtxDone(t)
    /\ holder' = [holder EXCEPT ![Route(t)] = t]
    /\ send' = [send EXCEPT ![t].at = "asked"]
    /\ UNCHANGED <<refill, gone, verdict, rec, carried, notBefore>>

(* With a dead context nothing is sent any more.                           *)
AskLate(t) ==
    /\ Granted(t) /\ CtxDone(t)
    /\ Finish(t, send[t].sink, FALSE, "unavailable")
    /\ UNCHANGED <<holder, refill, gone, carried>>

(* The headers of an answer may say that the bucket is used up for a time. *)
Release(t) ==
    /\ holder' = [holder EXCEPT ![Route(t)] = Free]
    /\ \E p \in Refills \cup {0} : refill' = [refill EXCEPT ![Route(t)] = p]

Carry(t, yes) ==
    carried' = IF yes THEN [carried EXCEPT ![t] = @ \cup {Route(t)}] ELSE carried

(* result: what an answer with status s is to the caller.                  *)
Result(s) == CASE s = 200 -> "ok"
               [] s = 401 -> "unauthorized"
               [] OTHER   -> "api"

Answer(t) ==
    /\ At(t, "asked")
    /\ \E s \in {200, 401, 404} : Finish(t, s, TRUE, Result(s)) /\ Carry(t, s = 200)
    /\ Release(t)
    /\ UNCHANGED gone

(* The connection fails, or the context ends, before the headers of an     *)
(* answer or in its body: the transport may have seen its status.          *)
Broken(t) ==
    /\ At(t, "asked")
    /\ \/ /\ Finish(t, send[t].sink, FALSE, "unavailable")
          /\ \E yes \in BOOLEAN : Carry(t, yes)
          /\ holder' = [holder EXCEPT ![Route(t)] = Free] /\ UNCHANGED refill
       \/ /\ \E s \in {200, 401, 404, 429} :
                Finish(t, s, FALSE, "unavailable") /\ Carry(t, s = 200)
          /\ Release(t)
    /\ UNCHANGED gone

(* discordgo sends again after a 502, and then gives up with an error of   *)
(* no type.                                                                *)
BadGateway(t) ==
    /\ At(t, "asked")
    /\ IF send[t].resent < MaxResend
       THEN /\ send' = [send EXCEPT ![t].at = "bucket", ![t].sink = 502,
                                    ![t].resent = @ + 1]
            /\ UNCHANGED <<verdict, rec, notBefore>>
       ELSE Finish(t, 502, TRUE, "unavailable")
    /\ \E yes \in BOOLEAN : Carry(t, yes)
    /\ Release(t)
    /\ UNCHANGED gone

-----------------------------------------------------------------------------
(* A 429 is waited for in send, unless the wait reaches the deadline.      *)
FitsExactly(t, p) == p <= send[t].left                 \* fault: off by one

Fits(t, p) == p < send[t].left

(* send waits for p, and is barred for p. *)
Wait(t, p) ==
    /\ send' = [send EXCEPT ![t].at = "paused", ![t].retry = p, ![t].pause = p,
                            ![t].sink = 429]
    /\ notBefore' = [notBefore EXCEPT ![t] = p]
    /\ UNCHANGED <<verdict, rec>>

PauseQuietly(t, p) ==                    \* fault: no entry when it gives up
    IF Fits(t, p) THEN Wait(t, p)
    ELSE /\ send' = [send EXCEPT ![t] = Idle]
         /\ verdict' = [verdict EXCEPT ![t] = "limited"]
         /\ UNCHANGED <<rec, notBefore>>

Pause(t, p) == IF Fits(t, p) THEN Wait(t, p) ELSE Finish(t, 429, TRUE, "limited")

Limited(t) ==
    /\ At(t, "asked")
    /\ \E p \in Pauses : Pause(t, p)
    /\ Release(t)
    /\ UNCHANGED <<gone, carried>>

(* The timer of the wait and the end of the context race in one select;    *)
(* another turn of the loop has a new sink.                                *)
ElapsedAtOnce(t) == TRUE                              \* fault: no wait

Elapsed(t) == send[t].pause = 0

Retry(t) ==
    /\ At(t, "paused") /\ Elapsed(t)
    /\ send' = [send EXCEPT ![t].at = "bucket", ![t].waited = @ + send[t].retry,
                            ![t].retry = 0, ![t].resent = 0, ![t].sink = 0]
    /\ UNCHANGED <<holder, refill, gone, verdict, rec, carried, notBefore>>

GiveUp(t) ==
    /\ At(t, "paused") /\ CtxDone(t)
    /\ Finish(t, send[t].sink, TRUE, "limited")
    /\ UNCHANGED <<holder, refill, gone, carried>>

-----------------------------------------------------------------------------
(* The caller of the tool goes away. *)
Cancel(t) ==
    /\ ~gone[t]
    /\ gone' = [gone EXCEPT ![t] = TRUE]
    /\ UNCHANGED <<holder, refill, callVars>>

(* Time passes; timers and an ended context take effect when they are due. *)
Due(t) ==
    \/ Granted(t)
    \/ At(t, "asked") /\ CtxDone(t)
    \/ At(t, "paused") /\ (CtxDone(t) \/ Elapsed(t))

Less(n) == IF n = 0 THEN 0 ELSE n - 1

Tick ==
    /\ \A t \in Calls : ~Due(t)
    /\ refill' = [r \in Routes |-> Less(refill[r])]
    /\ send' = [t \in Calls |-> IF At(t, "idle") THEN send[t]
                 ELSE [send[t] EXCEPT !.left = Less(@), !.pause = Less(@)]]
    /\ notBefore' = [t \in Calls |-> Less(notBefore[t])]
    /\ UNCHANGED <<holder, gone, verdict, rec, carried>>

SendStep(t) ==
    \/ Ask(t) \/ AskLate(t) \/ Answer(t) \/ Broken(t) \/ BadGateway(t)
    \/ Limited(t) \/ Retry(t) \/ GiveUp(t)

===========================================================================
