------------------------------ MODULE ToolCall ------------------------------
(***************************************************************************)
(* internal/tools/tools.go: the wrapper every tool runs in, with the       *)
(* handlers as the sequence of requests they make, over RestClient.        *)
(* Several tool calls run at once with one principal.                      *)
(***************************************************************************)
EXTENDS RestClient

CONSTANT Used      \* the tools each call may be of

(* The requests a tool makes, by bucket, in order: none, as the two event  *)
(* tools; one, as nearly all of them, here for send_message; or two.       *)
Script == [poll_events  |-> <<>>,
           send_message |-> <<"messages">>,
           send_dm      |-> <<"dms", "messages">>]

Tools == DOMAIN Script

ASSUME UsedAssumption == Used \in [Calls -> SUBSET Tools]
ASSUME RoutesAssumption == {"dms", "messages"} \subseteq Routes

VARIABLES
    pc, tool, step,      \* of each tool call
    outcome,             \* what classify made of the handler's error
    evicted,             \* the calls that evicted the principal
    lines                \* the outcomes of its lines in the audit log

toolVars == <<pc, tool, step, outcome, evicted, lines>>
vars     == <<restVars, toolVars>>

Outcomes == {"none", "ok", "invalid_args", "discord_error", "rate_limited",
             "credential_rejected"}

Init ==
    /\ RestInit
    /\ pc = [t \in Calls |-> "handler"] /\ tool \in [Calls -> Tools]
    /\ \A t \in Calls : tool[t] \in Used[t]
    /\ step = [t \in Calls |-> 1] /\ outcome = [t \in Calls |-> "none"]
    /\ evicted = {} /\ lines = [t \in Calls |-> <<>>]

Requests(t) == Script[tool[t]]

-----------------------------------------------------------------------------
(* classify. *)
ClassifyRaw(err) ==                    \* fault: an error of no class is kept
    CASE err = "ok"           -> "ok"
      [] err = "arg"          -> "invalid_args"
      [] err = "unauthorized" -> "credential_rejected"
      [] err = "limited"      -> "rate_limited"
      [] OTHER                -> err

ClassifyMild(err) ==                   \* fault: a 401 is as any other answer
    CASE err = "ok"      -> "ok"
      [] err = "arg"     -> "invalid_args"
      [] err = "limited" -> "rate_limited"
      [] OTHER           -> "discord_error"

Classify(err) == CASE err = "ok"           -> "ok"
                   [] err = "arg"          -> "invalid_args"
                   [] err = "unauthorized" -> "credential_rejected"
                   [] err = "limited"      -> "rate_limited"
                   [] OTHER                -> "discord_error"

(* The handler returned err to wrap. *)
Return(t, err) ==
    /\ outcome' = [outcome EXCEPT ![t] = Classify(err)]
    /\ pc' = [pc EXCEPT ![t] =
                IF Classify(err) = "credential_rejected" THEN "evict" ELSE "log"]
    /\ UNCHANGED <<tool, step, evicted, lines>>

(* A handler checks its arguments before its first request, and Do those   *)
(* that go into the route (an emoji) before it asks.                       *)
ArgsRefused(t) ==
    /\ pc[t] = "handler" /\ step[t] = 1
    /\ Return(t, "arg") /\ UNCHANGED restVars

Request(t) ==
    /\ pc[t] = "handler" /\ step[t] <= Len(Requests(t))
    /\ Do(t, Requests(t)[step[t]])
    /\ pc' = [pc EXCEPT ![t] = "sending"]
    /\ UNCHANGED <<tool, step, outcome, evicted, lines>>

(* Do returned: on an error the handler returns it, and asks nothing more. *)
RequestedAnyway(t) ==          \* fault: the error of the first is not looked at
    /\ pc[t] = "sending" /\ At(t, "idle") /\ step[t] < Len(Requests(t))
    /\ pc' = [pc EXCEPT ![t] = "handler"] /\ step' = [step EXCEPT ![t] = @ + 1]
    /\ UNCHANGED <<restVars, tool, outcome, evicted, lines>>

Requested(t) ==
    /\ pc[t] = "sending" /\ At(t, "idle") /\ verdict[t] = "ok"
    /\ pc' = [pc EXCEPT ![t] = "handler"] /\ step' = [step EXCEPT ![t] = @ + 1]
    /\ UNCHANGED <<restVars, tool, outcome, evicted, lines>>

Failed(t) ==
    /\ pc[t] = "sending" /\ At(t, "idle") /\ verdict[t] # "ok"
    /\ Return(t, verdict[t]) /\ UNCHANGED restVars

(* An answer that does not decode, and the errors of the event tools       *)
(* (shut down, or the client gone).                                        *)
Undecodable(t) ==
    /\ pc[t] = "handler" /\ (step[t] > 1 \/ Requests(t) = <<>>)
    /\ Return(t, "decode") /\ UNCHANGED restVars

Succeeded(t) ==
    /\ pc[t] = "handler" /\ step[t] > Len(Requests(t))
    /\ Return(t, "ok") /\ UNCHANGED restVars

(* Invalidate, then the audit line, then the reply.                        *)
Evict(t) ==
    /\ pc[t] = "evict"
    /\ evicted' = evicted \cup {t} /\ pc' = [pc EXCEPT ![t] = "log"]
    /\ UNCHANGED <<restVars, tool, step, outcome, lines>>

(* The call is over: its context, recorder and history with it.            *)
Over(t) ==
    /\ pc' = [pc EXCEPT ![t] = "done"]
    /\ gone' = [gone EXCEPT ![t] = FALSE] /\ rec' = [rec EXCEPT ![t] = <<>>]
    /\ carried' = [carried EXCEPT ![t] = {}] /\ verdict' = [verdict EXCEPT ![t] = "ok"]
    /\ step' = [step EXCEPT ![t] = 1] /\ outcome' = [outcome EXCEPT ![t] = "none"]
    /\ evicted' = evicted \ {t}
    /\ UNCHANGED <<holder, refill, send, notBefore, tool>>

LogSent(t) ==                        \* fault: no line when nothing was sent
    /\ pc[t] = "log"
    /\ lines' = IF rec[t] = <<>> THEN lines
                ELSE [lines EXCEPT ![t] = Append(@, outcome[t])]
    /\ Over(t)

Log(t) ==
    /\ pc[t] = "log"
    /\ lines' = [lines EXCEPT ![t] = Append(@, outcome[t])]
    /\ Over(t)

-----------------------------------------------------------------------------
ToolStep(t) ==
    \/ ArgsRefused(t) \/ Request(t) \/ Requested(t)
    \/ Failed(t) \/ Undecodable(t) \/ Succeeded(t) \/ Evict(t) \/ Log(t)

Next ==
    \/ Tick /\ UNCHANGED toolVars
    \/ \E t \in Calls : \/ ToolStep(t)
                        \/ SendStep(t) /\ UNCHANGED toolVars
                        \/ pc[t] # "done" /\ Cancel(t) /\ UNCHANGED toolVars

Spec == Init /\ [][Next]_vars

(* A goroutine that can run does, time passes, and a request whose context *)
(* has ended comes back. Discord need never answer.                        *)
Fairness ==
    /\ WF_vars(Tick /\ UNCHANGED toolVars)
    /\ \A t \in Calls :
        /\ WF_vars(ToolStep(t))
        /\ WF_vars((Ask(t) \/ AskLate(t) \/ Retry(t) \/ GiveUp(t)) /\ UNCHANGED toolVars)
        /\ WF_vars(CtxDone(t) /\ Broken(t) /\ UNCHANGED toolVars)

FairSpec == Spec /\ Fairness

-----------------------------------------------------------------------------
(* Every variable has its type. *)
TypeOK ==
    /\ holder \in [Routes -> Calls \cup {Free}] /\ refill \in [Routes -> Nat]
    /\ send \in [Calls -> Send] /\ gone \in [Calls -> BOOLEAN]
    /\ verdict \in [Calls -> Verdicts] /\ rec \in [Calls -> Seq(Entry)]
    /\ carried \in [Calls -> SUBSET Routes] /\ notBefore \in [Calls -> Nat]
    /\ pc \in [Calls -> {"handler", "sending", "evict", "log", "done"}]
    /\ tool \in [Calls -> Tools] /\ step \in [Calls -> 1 .. 3]
    /\ outcome \in [Calls -> Outcomes] /\ evicted \subseteq Calls
    /\ lines \in [Calls -> Seq(Outcomes)]

Asked(t)    == [i \in DOMAIN rec[t] |-> rec[t][i].route]
Ended(t, s) == rec[t] # <<>> /\ LET e == rec[t][Len(rec[t])]
                                IN  e.status = s /\ e.read

(* The audit line tells what happened (tools.go classify, client.go send): *)
(* its requests are those of the tool in order, all but the last succeeded;*)
(* it is rate_limited or credential_rejected exactly if the last answer    *)
(* that was read was a 429 or a 401, whatever turns, resends and waits     *)
(* came before; ok only if every request succeeded; invalid_args only if   *)
(* nothing was sent.                                                       *)
LineTellsAnswer ==
    \A t \in Calls : pc[t] = "log" =>
        /\ Asked(t) = SubSeq(Requests(t), 1, Len(rec[t]))
        /\ \A i \in 1 .. Len(rec[t]) - 1 : rec[t][i].status = 200
        /\ outcome[t] = "rate_limited" <=> Ended(t, 429)
        /\ outcome[t] = "credential_rejected" <=> Ended(t, 401)
        /\ outcome[t] = "ok" =>
              Len(rec[t]) = Len(Requests(t)) /\ \A i \in DOMAIN rec[t] : rec[t][i].status = 200
        /\ outcome[t] = "invalid_args" => rec[t] = <<>> /\ carried[t] = {}

(* What Discord carried out is in the line, also when the request ended in *)
(* an error, a timeout or a rate limit after it took effect (recorder.go,  *)
(* client.go send).                                                        *)
EffectsInLine ==
    \A t \in Calls : pc[t] = "log" =>
        \A r \in carried[t] : \E i \in DOMAIN rec[t] : rec[t][i].route = r

(* A principal whose credential Discord rejected during a call is evicted  *)
(* before the call is logged and answered, and none that it did not (wrap).*)
EvictedIfRejected ==
    \A t \in Calls : pc[t] = "log" => (t \in evicted <=> Ended(t, 401))

(* The waits of one Do stay below the timeout together, not each: a Do     *)
(* that cannot ask again in time does not wait (client.go:131-149).        *)
WaitsFitTimeout ==
    \A t \in Calls : \A i \in DOMAIN rec[t] : rec[t][i].waited < Timeout

(* After a 429 a call asks again only when the time Discord gave is over.  *)
NeverAskedEarly ==
    [][\A t \in Calls : ~At(t, "asked") /\ At(t, "asked")' => notBefore[t] = 0]_vars

(* "exactly one audit line per call" (tools.go:8-9): every call ends with  *)
(* its one line, though Discord may never answer and callers may leave.    *)
OneLineEach ==
    \A t \in Calls : <>[](pc[t] = "done" /\ Len(lines[t]) = 1)

(* "Timeout bounds one Do call, rate-limit waits included" (client.go:28): *)
(* no time passes in a Do beyond its deadline.                             *)
EndsByDeadline ==
    [][\A t \in Calls : ~At(t, "idle") /\ send[t].left = 0 => ~Tick]_vars

===========================================================================
