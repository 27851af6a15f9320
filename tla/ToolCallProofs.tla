--------------------------- MODULE ToolCallProofs ---------------------------
(***************************************************************************)
(* Theorems about ToolCall, for any number of calls, any timeout and any   *)
(* times that Discord asks callers to wait.                                *)
(***************************************************************************)
EXTENDS ToolCall, TLAPS

Last(t)  == rec[t][Len(rec[t])]
AllOk(t) == \A i \in DOMAIN rec[t] : rec[t][i].status = 200

(* What a verdict of Do says of the entry the recorder got with it.        *)
Tells(v, e) ==
    /\ v = "ok" => e.status = 200
    /\ v = "limited" <=> e.status = 429 /\ e.read
    /\ v = "unauthorized" <=> e.status = 401 /\ e.read

(* The recorder has the requests that are done, in the order of the tool,  *)
(* and all but the last of them succeeded.                                 *)
RecordInv(t) ==
    /\ step[t] \in 1 .. Len(Requests(t)) + 1
    /\ Len(rec[t]) <= Len(Requests(t))
    /\ \A i \in DOMAIN rec[t] : rec[t][i].route = Requests(t)[i]
    /\ \A i \in 1 .. Len(rec[t]) - 1 : rec[t][i].status = 200

(* Where a call stands, and what its last Do told it. *)
PlaceInv(t) ==
    /\ pc[t] # "sending" => At(t, "idle")
    /\ pc[t] = "handler" => Len(rec[t]) = step[t] - 1 /\ AllOk(t)
    /\ pc[t] = "sending" => step[t] <= Len(Requests(t))
    /\ pc[t] = "sending" /\ ~At(t, "idle") =>
          /\ Len(rec[t]) = step[t] - 1 /\ AllOk(t)
          /\ Route(t) = Requests(t)[step[t]]
    /\ pc[t] = "sending" /\ At(t, "idle") =>
          Len(rec[t]) = step[t] /\ Tells(verdict[t], Last(t))

(* What a handler made of it, and whom that evicts. *)
OutcomeInv(t) ==
    /\ pc[t] \in {"evict", "log"} =>
        /\ outcome[t] = "rate_limited" <=> Ended(t, 429)
        /\ outcome[t] = "credential_rejected" <=> Ended(t, 401)
        /\ outcome[t] = "ok" => Len(rec[t]) = Len(Requests(t)) /\ AllOk(t)
        /\ outcome[t] = "invalid_args" => rec[t] = <<>> /\ carried[t] = {}
    /\ pc[t] = "evict" => outcome[t] = "credential_rejected"
    /\ t \in evicted <=> pc[t] = "log" /\ outcome[t] = "credential_rejected"

(* What Discord carried out is in the record, or is the request that is    *)
(* out.                                                                    *)
CarriedInv(t) ==
    \A r \in carried[t] :
        \/ \E i \in DOMAIN rec[t] : rec[t][i].route = r
        \/ ~At(t, "idle") /\ Route(t) = r

(* What a Do has waited, what it is waiting and what is left of its time   *)
(* are the timeout together.                                               *)
TimeInv(t) ==
    /\ \A i \in DOMAIN rec[t] : rec[t][i].waited < Timeout
    /\ send[t].waited < Timeout
    /\ ~At(t, "paused") => send[t].waited + send[t].left <= Timeout /\ notBefore[t] = 0
    /\ At(t, "paused") =>
          /\ send[t].waited + send[t].retry + send[t].left <= Timeout + send[t].pause
          /\ send[t].pause < send[t].left
          /\ notBefore[t] = send[t].pause /\ send[t].sink = 429

CallInv(t) == RecordInv(t) /\ PlaceInv(t) /\ OutcomeInv(t) /\ CarriedInv(t) /\ TimeInv(t)

IInv == TypeOK /\ \A t \in Calls : CallInv(t)

-----------------------------------------------------------------------------
(* The tools make at most two requests, on routes there are. *)
LEMMA Scripts ==
    \A x \in Tools : Script[x] \in Seq(Routes) /\ Len(Script[x]) \in 0 .. 2
<1>1. Tools = {"poll_events", "send_message", "send_dm"}
  BY DEF Tools, Script
<1>2. Script["poll_events"] = <<>>
  BY DEF Script
<1>3. Script["send_message"] = <<"messages">>
  BY DEF Script
<1>4. Script["send_dm"] = <<"dms", "messages">>
  BY DEF Script
<1>5. <<"messages">> \in Seq(Routes) /\ Len(<<"messages">>) = 1
  BY RoutesAssumption
<1>6. <<"dms", "messages">> \in Seq(Routes) /\ Len(<<"dms", "messages">>) = 2
  BY RoutesAssumption
<1>7. <<>> \in Seq(Routes) /\ Len(<<>>) = 0
  OBVIOUS
<1>8. Script["poll_events"] \in Seq(Routes) /\ Len(Script["poll_events"]) \in 0 .. 2
  <2>1. Len(Script["poll_events"]) = 0
    BY <1>2, <1>7, Zenon
  <2> QED  BY <1>2, <1>7, <2>1
<1>9. Script["send_message"] \in Seq(Routes) /\ Len(Script["send_message"]) \in 0 .. 2
  <2>1. Len(Script["send_message"]) = 1 /\ Script["send_message"] \in Seq(Routes)
    BY <1>3, <1>5, Zenon
  <2> QED  BY <2>1
<1>10. Script["send_dm"] \in Seq(Routes) /\ Len(Script["send_dm"]) \in 0 .. 2
  <2>1. Len(Script["send_dm"]) = 2 /\ Script["send_dm"] \in Seq(Routes)
    BY <1>4, <1>6, Zenon
  <2> QED  BY <2>1
<1> QED  BY <1>1, <1>8, <1>9, <1>10, Zenon

LEMMA RequestsTyped ==
    ASSUME TypeOK, NEW t \in Calls
    PROVE  Requests(t) \in Seq(Routes) /\ Len(Requests(t)) \in 0 .. 2
  BY Scripts DEF TypeOK, Requests

(* The idle state of send is one. *)
LEMMA IdleTyped ==
    /\ Idle \in Send /\ Idle.at = "idle" /\ Idle.waited = 0 /\ Idle.left = Timeout
    /\ \A r \in Routes : /\ Begun(r, "bucket") \in Send /\ Begun(r, "bucket").at = "bucket"
                         /\ Begun(r, "bucket").route = r /\ Begun(r, "bucket").waited = 0
                         /\ Begun(r, "bucket").left = Timeout
<1>1. (CHOOSE r \in Routes : TRUE) \in Routes
  BY RoutesAssumption
<1>2. \A r \in Routes, w \in {"idle", "bucket"} :
        /\ Begun(r, w) \in Send /\ Begun(r, w).at = w /\ Begun(r, w).route = r
        /\ Begun(r, w).waited = 0 /\ Begun(r, w).left = Timeout
  BY TimeoutAssumption DEF Begun, Send, Statuses
<1> QED  BY <1>1, <1>2 DEF Idle

(* What is said of the record and of the place of a call stays true as     *)
(* long as the variables it is about stay as they are.                     *)
LEMMA RecordStays ==
    ASSUME NEW t \in Calls, RecordInv(t),
           rec'[t] = rec[t], step'[t] = step[t], tool'[t] = tool[t]
    PROVE  RecordInv(t)'
<1>1. Requests(t)' = Requests(t)
  BY DEF Requests
<1> QED  BY <1>1 DEF RecordInv

LEMMA PlaceStays ==
    ASSUME NEW t \in Calls, PlaceInv(t),
           rec'[t] = rec[t], step'[t] = step[t], tool'[t] = tool[t], pc'[t] = pc[t],
           verdict'[t] = verdict[t], send'[t].at = send[t].at, send'[t].route = send[t].route
    PROVE  PlaceInv(t)'
<1>1. Requests(t)' = Requests(t) /\ Route(t)' = Route(t) /\ Last(t)' = Last(t)
  BY DEF Requests, Route, Last
<1>2. (At(t, "idle")' <=> At(t, "idle")) /\ (AllOk(t)' <=> AllOk(t))
  BY DEF At, AllOk
<1>3. Tells(verdict[t], Last(t))' <=> Tells(verdict[t], Last(t))
  BY <1>1 DEF Tells
<1> QED  BY <1>1, <1>2, <1>3 DEF PlaceInv

(* Every variable of another call is as it was. *)
OthersStay(t) ==
    \A v \in Calls \ {t} :
        /\ send'[v] = send[v] /\ verdict'[v] = verdict[v] /\ rec'[v] = rec[v]
        /\ carried'[v] = carried[v] /\ notBefore'[v] = notBefore[v]
        /\ pc'[v] = pc[v] /\ tool'[v] = tool[v] /\ step'[v] = step[v]
        /\ outcome'[v] = outcome[v] /\ (v \in evicted' <=> v \in evicted)

(* What is said of a call depends on its own variables only. *)
LEMMA OthersKeep ==
    ASSUME IInv, NEW t \in Calls, OthersStay(t), CallInv(t)'
    PROVE  \A v \in Calls : CallInv(v)'
<1> SUFFICES ASSUME NEW v \in Calls \ {t} PROVE CallInv(v)'
  OBVIOUS
<1>1. CallInv(v)
  BY DEF IInv
<1>2. /\ send'[v] = send[v] /\ verdict'[v] = verdict[v] /\ rec'[v] = rec[v]
      /\ carried'[v] = carried[v] /\ notBefore'[v] = notBefore[v]
      /\ pc'[v] = pc[v] /\ tool'[v] = tool[v] /\ step'[v] = step[v]
      /\ outcome'[v] = outcome[v] /\ (v \in evicted' <=> v \in evicted)
  BY DEF OthersStay
<1>3. RecordInv(v)'
  BY <1>1, <1>2, RecordStays DEF CallInv
<1>4. PlaceInv(v)'
  BY <1>1, <1>2, PlaceStays DEF CallInv
<1>5. OutcomeInv(v)'
  BY <1>1, <1>2 DEF CallInv, OutcomeInv, Requests, AllOk, Ended
<1>6. CarriedInv(v)'
  BY <1>1, <1>2 DEF CallInv, CarriedInv, At, Route
<1>7. TimeInv(v)'
  BY <1>1, <1>2 DEF CallInv, TimeInv, At
<1> QED  BY <1>3, <1>4, <1>5, <1>6, <1>7 DEF CallInv

-----------------------------------------------------------------------------
(* The buckets and what Discord carries out keep their types. *)
BucketsTyped == holder' \in [Routes -> Calls \cup {Free}] /\ refill' \in [Routes -> Nat]

(* Discord carried the request of t out, or did not. *)
MayCarry(t) ==
    /\ carried' \in [Calls -> SUBSET Routes]
    /\ carried'[t] \subseteq carried[t] \cup {Route(t)}
    /\ \A v \in Calls \ {t} : carried'[v] = carried[v]

LEMMA CarryMay ==
    ASSUME TypeOK, NEW t \in Calls, NEW yes, Carry(t, yes) PROVE MayCarry(t)
<1>1. carried \in [Calls -> SUBSET Routes] /\ Route(t) \in Routes
  BY DEF TypeOK, Send, Route
<1>2. \/ carried' = [carried EXCEPT ![t] = @ \cup {Route(t)}]
      \/ carried' = carried
  BY DEF Carry
<1> QED  BY <1>1, <1>2 DEF MayCarry

LEMMA CarriesNothing ==
    ASSUME TypeOK, NEW t \in Calls, carried' = carried PROVE MayCarry(t)
  BY DEF TypeOK, MayCarry

LEMMA ReleaseTyped ==
    ASSUME TypeOK, NEW t \in Calls, Release(t) PROVE BucketsTyped
<1>1. PICK p \in Refills \cup {0} : refill' = [refill EXCEPT ![Route(t)] = p]
  BY DEF Release
<1>2. p \in Nat
  BY PausesAssumption
<1> QED  BY <1>1, <1>2 DEF Release, TypeOK, BucketsTyped

(* The locals of send, one by one. *)
LEMMA SendParts ==
    ASSUME TypeOK, NEW t \in Calls
    PROVE  /\ Route(t) \in Routes /\ send[t].left \in Nat /\ send[t].retry \in Nat
           /\ send[t].pause \in Nat /\ send[t].waited \in Nat /\ send[t].resent \in Nat
           /\ send[t].sink \in Statuses
  BY DEF TypeOK, Send, Route

(* Locals with some fields changed are locals, if the new ones have their  *)
(* types.                                                                  *)
LEMMA SendChanged ==
    ASSUME NEW l \in Send, NEW x, x = [f \in DOMAIN l |-> x[f]],
           x.at \in {"idle", "bucket", "asked", "paused"}, x.route \in Routes,
           x.left \in Nat, x.retry \in Nat, x.pause \in Nat, x.waited \in Nat,
           x.resent \in Nat, x.sink \in Statuses
    PROVE  x \in Send
<1>1. DOMAIN l = {"at", "route", "left", "retry", "pause", "waited", "resent", "sink"}
  BY DEF Send
<1>2. x = [at |-> x.at, route |-> x.route, left |-> x.left, retry |-> x.retry,
           pause |-> x.pause, waited |-> x.waited, resent |-> x.resent, sink |-> x.sink]
  BY <1>1
<1> QED  BY <1>2 DEF Send

(* A Do that is over, with entry e of the recorder and verdict v.          *)
LEMMA FinishKeeps ==
    ASSUME IInv, NEW t \in Calls, ~At(t, "idle"),
           NEW s \in Statuses, NEW read \in BOOLEAN, NEW v \in Verdicts,
           Finish(t, s, read, v), BucketsTyped, MayCarry(t),
           v = "ok" => s = 200, v = "limited" <=> s = 429 /\ read,
           v = "unauthorized" <=> s = 401 /\ read,
           UNCHANGED <<gone, toolVars>>
    PROVE  IInv'
<1> DEFINE e == [route |-> Route(t), status |-> s, waited |-> send[t].waited, read |-> read]
<1>1. TypeOK /\ CallInv(t)
  BY DEF IInv
<1>2. send[t] \in Send /\ rec[t] \in Seq(Entry)
  BY <1>1 DEF TypeOK
<1>3. e \in Entry /\ e.route = Route(t) /\ e.status = s /\ e.waited = send[t].waited
      /\ e.read = read
  BY <1>2 DEF Entry, Send, Route
<1>4. /\ rec' = [rec EXCEPT ![t] = Append(@, e)]
      /\ verdict' = [verdict EXCEPT ![t] = v] /\ send' = [send EXCEPT ![t] = Idle]
      /\ notBefore' = [notBefore EXCEPT ![t] = 0]
  BY DEF Finish
<1> HIDE DEF e
<1>5. rec'[t] = Append(rec[t], e) /\ verdict'[t] = v /\ send'[t] = Idle /\ notBefore'[t] = 0
  BY <1>1, <1>4 DEF TypeOK
<1>6. /\ Len(rec[t]) \in Nat /\ Len(rec'[t]) = Len(rec[t]) + 1
      /\ DOMAIN rec[t] = 1 .. Len(rec[t]) /\ DOMAIN rec'[t] = 1 .. Len(rec[t]) + 1
      /\ \A i \in 1 .. Len(rec[t]) : rec'[t][i] = rec[t][i]
      /\ rec'[t][Len(rec[t]) + 1] = e
  BY <1>2, <1>3, <1>5
<1>7. TypeOK'
  <2>1. send' \in [Calls -> Send]
    BY <1>1, <1>4, IdleTyped DEF TypeOK
  <2>2. rec' \in [Calls -> Seq(Entry)]
    <3>1. Append(rec[t], e) \in Seq(Entry)
      BY <1>2, <1>3
    <3> QED  BY <1>1, <1>4, <3>1 DEF TypeOK
  <2>3. verdict' \in [Calls -> Verdicts] /\ notBefore' \in [Calls -> Nat]
    BY <1>1, <1>4 DEF TypeOK
  <2> QED  BY <1>1, <2>1, <2>2, <2>3 DEF TypeOK, BucketsTyped, MayCarry, toolVars
<1>8. OthersStay(t)
  BY <1>1, <1>4 DEF TypeOK, OthersStay, MayCarry, toolVars
<1>9. /\ pc[t] = "sending" /\ pc'[t] = pc[t] /\ tool' = tool /\ step' = step
      /\ evicted' = evicted
      /\ Len(rec[t]) = step[t] - 1 /\ AllOk(t) /\ Route(t) = Requests(t)[step[t]]
      /\ step[t] \in 1 .. Len(Requests(t)) /\ Len(Requests(t)) \in Nat
      /\ At(t, "idle")'
  <2>1. pc[t] = "sending"
    BY <1>1 DEF CallInv, PlaceInv
  <2>2. Len(Requests(t)) \in Nat
    BY <1>1, RequestsTyped
  <2> QED
    BY <1>1, <1>5, <2>1, <2>2, IdleTyped DEF CallInv, PlaceInv, RecordInv, toolVars, At
<1>10. Requests(t)' = Requests(t)
  BY <1>9 DEF Requests
<1>11. RecordInv(t)'
  <2>1. step[t]' = step[t] /\ Len(rec'[t]) = step[t]
    BY <1>6, <1>9
  <2>2. \A i \in 1 .. Len(rec[t]) : rec[t][i].route = Requests(t)[i] /\ rec[t][i].status = 200
    BY <1>1, <1>6, <1>9, SMTT(30) DEF CallInv, RecordInv, AllOk
  <2>3. \A i \in DOMAIN rec'[t] : rec'[t][i].route = Requests(t)[i]
    <3> SUFFICES ASSUME NEW i \in DOMAIN rec'[t] PROVE rec'[t][i].route = Requests(t)[i]
      OBVIOUS
    <3>1. CASE i \in 1 .. Len(rec[t])
      BY <1>6, <2>2, <3>1
    <3>2. CASE i = Len(rec[t]) + 1
      <4>1. i = step[t] /\ rec'[t][i] = e
        BY <1>6, <1>9, <3>2
      <4> QED  BY <1>3, <1>9, <4>1
    <3> QED  BY <1>6, <3>1, <3>2
  <2>4. \A i \in 1 .. Len(rec'[t]) - 1 : rec'[t][i].status = 200
    BY <1>6, <2>2
  <2> QED  BY <1>9, <1>10, <2>1, <2>3, <2>4 DEF RecordInv
<1>12. PlaceInv(t)'
  <2>1. Last(t)' = e
    BY <1>6 DEF Last
  <2>2. Tells(verdict[t], Last(t))'
    BY <1>3, <1>5, <2>1 DEF Tells
  <2> QED  BY <1>6, <1>9, <1>10, <2>2 DEF PlaceInv
<1>13. OutcomeInv(t)'
  BY <1>1, <1>9 DEF CallInv, OutcomeInv
<1>14. CarriedInv(t)'
  <2> SUFFICES ASSUME NEW r \in carried'[t]
               PROVE  \E i \in DOMAIN rec'[t] : rec'[t][i].route = r
    BY <1>9 DEF CarriedInv
  <2>1. CASE r = Route(t)
    BY <1>3, <1>6, <2>1
  <2>2. CASE \E i \in DOMAIN rec[t] : rec[t][i].route = r
    BY <1>6, <2>2
  <2>3. r \in carried[t] \/ r = Route(t)
    BY DEF MayCarry
  <2> QED  BY <1>1, <2>1, <2>2, <2>3 DEF CallInv, CarriedInv
<1>15. TimeInv(t)'
  BY <1>1, <1>3, <1>5, <1>6, <1>9, IdleTyped, TimeoutAssumption, SMTT(30)
  DEF CallInv, TimeInv, At
<1> QED
  BY <1>7, <1>8, <1>11, <1>12, <1>13, <1>14, <1>15, OthersKeep DEF CallInv, IInv

(* A Do that goes on, in state x. *)
LEMMA MoveKeeps ==
    ASSUME IInv, NEW t \in Calls, ~At(t, "idle"),
           NEW x \in Send, x.at # "idle", x.route = Route(t),
           send' = [send EXCEPT ![t] = x], BucketsTyped, MayCarry(t), TimeInv(t)',
           notBefore' \in [Calls -> Nat], \A v \in Calls \ {t} : notBefore'[v] = notBefore[v],
           UNCHANGED <<gone, verdict, rec, toolVars>>
    PROVE  IInv'
<1>1. TypeOK /\ CallInv(t)
  BY DEF IInv
<1>2. send'[t] = x /\ send' \in [Calls -> Send]
  BY <1>1 DEF TypeOK
<1>3. TypeOK'
  BY <1>1, <1>2 DEF TypeOK, BucketsTyped, MayCarry, toolVars
<1>4. OthersStay(t)
  BY <1>1 DEF TypeOK, OthersStay, MayCarry, toolVars
<1>5. /\ pc[t] = "sending" /\ UNCHANGED <<pc, tool, step, evicted, rec, verdict, outcome>>
      /\ ~At(t, "idle")' /\ Route(t)' = Route(t)
  BY <1>1, <1>2, SMTT(30) DEF CallInv, PlaceInv, toolVars, At, Route
<1>6. RecordInv(t)'
  BY <1>1, <1>5, RecordStays DEF CallInv
<1>7. PlaceInv(t)'
  BY <1>1, <1>5 DEF CallInv, PlaceInv, Requests, AllOk
<1>8. OutcomeInv(t)'
  BY <1>1, <1>5 DEF CallInv, OutcomeInv
<1>9. CarriedInv(t)'
  BY <1>1, <1>5 DEF CallInv, CarriedInv, MayCarry
<1> QED
  BY <1>3, <1>4, <1>6, <1>7, <1>8, <1>9, OthersKeep DEF CallInv, IInv

(* A Do that ends with a 429. *)
LEMMA LimitEnds ==
    ASSUME IInv, NEW t \in Calls, ~At(t, "idle"), Finish(t, 429, TRUE, "limited"),
           BucketsTyped, MayCarry(t), UNCHANGED <<gone, toolVars>>
    PROVE  IInv'
<1> DEFINE v == "limited"
<1> DEFINE s == 429
<1> DEFINE read == TRUE
<1>1. s \in Statuses /\ v \in Verdicts /\ read \in BOOLEAN
  BY DEF Statuses, Verdicts
<1>2. /\ v = "ok" => s = 200
      /\ v = "limited" <=> s = 429 /\ read
      /\ v = "unauthorized" <=> s = 401 /\ read
  OBVIOUS
<1>3. Finish(t, s, read, v)
  OBVIOUS
<1> HIDE DEF v, s, read
<1> QED  BY <1>1, <1>2, <1>3, FinishKeeps

(* A Do that ends without a verdict. *)
LEMMA UnavailableEnds ==
    ASSUME IInv, NEW t \in Calls, ~At(t, "idle"), NEW s \in Statuses, NEW read \in BOOLEAN,
           Finish(t, s, read, "unavailable"),
           ~(read /\ s \in {401, 429}),
           BucketsTyped, MayCarry(t), UNCHANGED <<gone, toolVars>>
    PROVE  IInv'
<1> DEFINE v == "unavailable"
<1>1. v \in Verdicts
  BY DEF Verdicts
<1>2. /\ v = "ok" => s = 200
      /\ v = "limited" <=> s = 429 /\ read
      /\ v = "unauthorized" <=> s = 401 /\ read
  OBVIOUS
<1>3. Finish(t, s, read, v)
  OBVIOUS
<1> HIDE DEF v
<1> QED  BY <1>1, <1>2, <1>3, FinishKeeps

-----------------------------------------------------------------------------
(* The steps of RequestRaw and of the loop of send, one lemma each.        *)

LEMMA AskKeeps ==
    ASSUME IInv, NEW t \in Calls, Ask(t), UNCHANGED toolVars PROVE IInv'
<1> DEFINE x == [send[t] EXCEPT !.at = "asked"]
<1>1. TypeOK /\ CallInv(t) /\ send[t] \in Send
  BY DEF IInv, TypeOK
<1>2. At(t, "bucket") /\ send' = [send EXCEPT ![t] = x]
  BY DEF Ask, Granted
<1>3. /\ x \in Send /\ x.at = "asked" /\ x.route = Route(t) /\ x.waited = send[t].waited
      /\ x.left = send[t].left
  BY <1>1 DEF Send, Route
<1> HIDE DEF x
<1>4. BucketsTyped
  BY <1>1 DEF Ask, TypeOK, BucketsTyped
<1>5. TimeInv(t)'
  <2>1. send'[t] = x /\ rec' = rec /\ notBefore' = notBefore
    BY <1>1, <1>2 DEF Ask, TypeOK
  <2> QED  BY <1>1, <1>2, <1>3, <2>1 DEF CallInv, TimeInv, At
<1>6. MayCarry(t)
  BY <1>1, CarriesNothing DEF Ask
<1>7. ~At(t, "idle") /\ UNCHANGED <<gone, verdict, rec, notBefore>>
  BY <1>2 DEF Ask, At
<1>8. notBefore' \in [Calls -> Nat]
  BY <1>1, <1>7 DEF TypeOK
<1> QED  BY <1>2, <1>3, <1>4, <1>5, <1>6, <1>7, <1>8, MoveKeeps

LEMMA AskLateKeeps ==
    ASSUME IInv, NEW t \in Calls, AskLate(t), UNCHANGED toolVars PROVE IInv'
<1>1. TypeOK /\ ~At(t, "idle") /\ UNCHANGED <<holder, refill, gone, carried>>
  BY DEF AskLate, Granted, At, IInv
<1>2. BucketsTyped /\ MayCarry(t)
  BY <1>1, CarriesNothing DEF TypeOK, BucketsTyped
<1> DEFINE read == FALSE
<1>3. send[t].sink \in Statuses /\ read \in BOOLEAN /\ ~read
  BY <1>1, SendParts
<1>4. Finish(t, send[t].sink, read, "unavailable")
  BY DEF AskLate
<1> HIDE DEF read
<1> QED  BY <1>1, <1>2, <1>3, <1>4, UnavailableEnds

LEMMA AnswerKeeps ==
    ASSUME IInv, NEW t \in Calls, Answer(t), UNCHANGED toolVars PROVE IInv'
<1>1. PICK s \in {200, 401, 404} : Finish(t, s, TRUE, Result(s)) /\ Carry(t, s = 200)
  BY DEF Answer
<1>2. TypeOK /\ ~At(t, "idle") /\ gone' = gone /\ Release(t)
  BY DEF Answer, At, IInv
<1>3. BucketsTyped
  BY <1>2, ReleaseTyped
<1>4. MayCarry(t)
  BY <1>1, <1>2, CarryMay
<1> DEFINE v == Result(s)
<1> DEFINE read == TRUE
<1>5. s \in Statuses /\ v \in Verdicts /\ read \in BOOLEAN
  BY DEF Result, Statuses, Verdicts
<1>6. /\ v = "ok" => s = 200
      /\ v = "limited" <=> s = 429 /\ read
      /\ v = "unauthorized" <=> s = 401 /\ read
  BY DEF Result
<1>7. Finish(t, s, read, v)
  BY <1>1
<1> HIDE DEF v, read
<1> QED  BY <1>2, <1>3, <1>4, <1>5, <1>6, <1>7, FinishKeeps

LEMMA BrokenKeeps ==
    ASSUME IInv, NEW t \in Calls, Broken(t), UNCHANGED toolVars PROVE IInv'
<1>1. TypeOK /\ ~At(t, "idle") /\ gone' = gone
  BY DEF Broken, At, IInv
<1> DEFINE read == FALSE
<1>2. CASE /\ Finish(t, send[t].sink, FALSE, "unavailable")
           /\ \E yes \in BOOLEAN : Carry(t, yes)
           /\ holder' = [holder EXCEPT ![Route(t)] = Free] /\ UNCHANGED refill
  <2>1. MayCarry(t)
    BY <1>1, <1>2, CarryMay
  <2>2. BucketsTyped
    BY <1>1, <1>2 DEF TypeOK, BucketsTyped
  <2>3. send[t].sink \in Statuses /\ read \in BOOLEAN /\ ~read
    BY <1>1, SendParts
  <2>4. Finish(t, send[t].sink, read, "unavailable")
    BY <1>2
  <2> HIDE DEF read
  <2> QED  BY <1>1, <2>1, <2>2, <2>3, <2>4, UnavailableEnds
<1>3. CASE (\E s \in {200, 401, 404, 429} :
               Finish(t, s, FALSE, "unavailable") /\ Carry(t, s = 200)) /\ Release(t)
  <2>1. PICK s \in {200, 401, 404, 429} :
            Finish(t, s, FALSE, "unavailable") /\ Carry(t, s = 200)
    BY <1>3
  <2>2. MayCarry(t)
    BY <1>1, <2>1, CarryMay
  <2>3. BucketsTyped /\ s \in Statuses /\ read \in BOOLEAN /\ ~read
    BY <1>1, <1>3, ReleaseTyped DEF Statuses
  <2>4. Finish(t, s, read, "unavailable")
    BY <2>1
  <2> HIDE DEF read
  <2> QED  BY <1>1, <2>2, <2>3, <2>4, UnavailableEnds
<1> QED  BY <1>2, <1>3 DEF Broken

LEMMA BadGatewayKeeps ==
    ASSUME IInv, NEW t \in Calls, BadGateway(t), UNCHANGED toolVars PROVE IInv'
<1>1. TypeOK /\ ~At(t, "idle") /\ At(t, "asked") /\ gone' = gone /\ CallInv(t)
  BY DEF BadGateway, At, IInv
<1>2. BucketsTyped /\ MayCarry(t)
  BY <1>1, ReleaseTyped, CarryMay DEF BadGateway
<1>5. send \in [Calls -> Send] /\ send[t] \in Send
  BY <1>1 DEF TypeOK
<1>3. CASE send[t].resent < MaxResend
  <2> DEFINE x == [send[t] EXCEPT !.at = "bucket", !.sink = 502, !.resent = @ + 1]
  <2>1. send' = [send EXCEPT ![t] = x] /\ UNCHANGED <<verdict, rec, notBefore>>
    <3>1. /\ send' = [send EXCEPT ![t].at = "bucket", ![t].sink = 502, ![t].resent = @ + 1]
          /\ UNCHANGED <<verdict, rec, notBefore>>
      BY <1>3, Zenon DEF BadGateway
    <3>2. send'[t] = x
      BY <1>5, <3>1
    <3>4. \A v \in Calls : v # t => send'[v] = send[v]
      BY <1>5, <3>1
    <3>5. send' = [v \in Calls |-> send'[v]]
      BY <1>5, <3>1, ZenonT(30)
    <3> HIDE DEF x
    <3>3. send' = [send EXCEPT ![t] = x]
      BY <1>5, <3>2, <3>4, <3>5
    <3> QED  BY <3>1, <3>3
  <2>2. /\ x \in Send /\ x.at = "bucket" /\ x.route = Route(t)
        /\ x.waited = send[t].waited /\ x.left = send[t].left
    <3>1. /\ x.at = "bucket" /\ x.route = Route(t) /\ x.left = send[t].left
          /\ x.retry = send[t].retry /\ x.pause = send[t].pause
          /\ x.waited = send[t].waited /\ x.resent = send[t].resent + 1 /\ x.sink = 502
      BY <1>1, <1>5 DEF Send, Route
    <3>2. x = [f \in DOMAIN send[t] |-> x[f]]
      BY ZenonT(30)
    <3> HIDE DEF x
    <3>3. send[t].resent + 1 \in Nat /\ 502 \in Statuses
      BY <1>1, SendParts DEF Statuses
    <3> QED  BY <1>1, <1>5, <3>1, <3>2, <3>3, SendParts, SendChanged
  <2> HIDE DEF x
  <2>3. TimeInv(t)'
    <3>1. send'[t] = x
      BY <1>1, <2>1 DEF TypeOK
    <3> QED  BY <1>1, <2>1, <2>2, <3>1 DEF CallInv, TimeInv, At
  <2>4. notBefore' \in [Calls -> Nat]
    BY <1>1, <2>1 DEF TypeOK
  <2> QED  BY <1>1, <1>2, <2>1, <2>2, <2>3, <2>4, MoveKeeps
<1>4. CASE ~(send[t].resent < MaxResend)
  <2> DEFINE s == 502
  <2> DEFINE read == TRUE
  <2>1. Finish(t, s, read, "unavailable")
    BY <1>4, Zenon DEF BadGateway
  <2>2. s \in Statuses /\ s \notin {401, 429} /\ read \in BOOLEAN
    BY DEF Statuses
  <2> HIDE DEF s, read
  <2> QED  BY <1>1, <1>2, <2>1, <2>2, UnavailableEnds
<1> QED  BY <1>3, <1>4

LEMMA LimitedKeeps ==
    ASSUME IInv, NEW t \in Calls, Limited(t), UNCHANGED toolVars PROVE IInv'
<1>1. TypeOK /\ ~At(t, "idle") /\ At(t, "asked") /\ gone' = gone /\ CallInv(t)
  BY DEF Limited, At, IInv
<1>2. BucketsTyped /\ MayCarry(t)
  BY <1>1, ReleaseTyped, CarriesNothing DEF Limited
<1>3. PICK p \in Pauses : Pause(t, p)
  BY DEF Limited
<1>4. p \in Nat \ {0}
  BY PausesAssumption
<1>7. send \in [Calls -> Send] /\ send[t] \in Send
  BY <1>1 DEF TypeOK
<1>5. CASE Fits(t, p)
  <2> DEFINE x == [send[t] EXCEPT !.at = "paused", !.retry = p, !.pause = p, !.sink = 429]
  <2>1. /\ send' = [send EXCEPT ![t] = x] /\ UNCHANGED <<verdict, rec>>
        /\ notBefore' = [notBefore EXCEPT ![t] = p]
    <3>1. Wait(t, p)
      BY <1>3, <1>5, Zenon DEF Pause
    <3> QED  BY <1>7, <3>1, ZenonT(30) DEF Wait
  <2>2. /\ x \in Send /\ x.at = "paused" /\ x.route = Route(t) /\ x.pause = p
        /\ x.retry = p /\ x.waited = send[t].waited /\ x.left = send[t].left /\ x.sink = 429
    <3>1. /\ x.at = "paused" /\ x.route = Route(t) /\ x.left = send[t].left
          /\ x.retry = p /\ x.pause = p /\ x.waited = send[t].waited
          /\ x.resent = send[t].resent /\ x.sink = 429
      BY <1>1, <1>7 DEF Send, Route
    <3>2. x = [f \in DOMAIN send[t] |-> x[f]]
      BY ZenonT(30)
    <3> HIDE DEF x
    <3>3. p \in Nat /\ 429 \in Statuses
      BY <1>4 DEF Statuses
    <3> QED  BY <1>1, <1>7, <3>1, <3>2, <3>3, SendParts, SendChanged
  <2> HIDE DEF x
  <2>3. TimeInv(t)'
    <3>1. send'[t] = x /\ notBefore'[t] = p /\ p < send[t].left
      BY <1>1, <1>5, <2>1 DEF TypeOK, Fits
    <3>2. /\ send[t].waited + send[t].left <= Timeout /\ send[t].waited < Timeout
          /\ send[t].waited \in Nat /\ send[t].left \in Nat
      BY <1>1 DEF CallInv, TimeInv, At, TypeOK, Send
    <3>3. \A i \in DOMAIN rec'[t] : rec'[t][i].waited < Timeout
      BY <1>1, <2>1 DEF CallInv, TimeInv
    <3> QED  BY <1>4, <2>2, <3>1, <3>2, <3>3, TimeoutAssumption DEF TimeInv, At
  <2>4. /\ notBefore' \in [Calls -> Nat]
        /\ \A v \in Calls \ {t} : notBefore'[v] = notBefore[v]
    BY <1>1, <1>4, <2>1 DEF TypeOK
  <2> QED  BY <1>1, <1>2, <2>1, <2>2, <2>3, <2>4, MoveKeeps
<1>6. CASE ~Fits(t, p)
  <2>1. Finish(t, 429, TRUE, "limited")
    BY <1>3, <1>6 DEF Pause
  <2> QED  BY <1>1, <1>2, <2>1, LimitEnds
<1> QED  BY <1>5, <1>6

LEMMA RetryKeeps ==
    ASSUME IInv, NEW t \in Calls, Retry(t), UNCHANGED toolVars PROVE IInv'
<1> DEFINE x == [send[t] EXCEPT !.at = "bucket", !.waited = @ + send[t].retry,
                                !.retry = 0, !.resent = 0, !.sink = 0]
<1>1. /\ TypeOK /\ CallInv(t) /\ send[t] \in Send
      /\ At(t, "paused") /\ ~At(t, "idle") /\ send[t].pause = 0
      /\ send' = [send EXCEPT ![t] = x]
      /\ UNCHANGED <<holder, refill, gone, verdict, rec, carried, notBefore>>
  BY DEF IInv, TypeOK, Retry, At, Elapsed
<1>2. /\ x \in Send /\ x.at = "bucket" /\ x.route = Route(t) /\ x.left = send[t].left
      /\ x.waited = send[t].waited + send[t].retry
  <2>1. /\ x.at = "bucket" /\ x.route = Route(t) /\ x.left = send[t].left
        /\ x.retry = 0 /\ x.pause = send[t].pause
        /\ x.waited = send[t].waited + send[t].retry /\ x.resent = 0 /\ x.sink = 0
    BY <1>1 DEF Send, Route
  <2>2. x = [f \in DOMAIN send[t] |-> x[f]]
    OBVIOUS
  <2> HIDE DEF x
  <2>3. send[t].waited + send[t].retry \in Nat /\ 0 \in Statuses
    BY <1>1, SendParts DEF Statuses
  <2> QED  BY <1>1, <2>1, <2>2, <2>3, SendParts, SendChanged
<1> HIDE DEF x
<1>3. BucketsTyped /\ MayCarry(t)
  BY <1>1, CarriesNothing DEF TypeOK, BucketsTyped
<1>4. TimeInv(t)'
  <2>1. send'[t] = x
    BY <1>1 DEF TypeOK
  <2>2. send[t].left \in Nat /\ send[t].waited \in Nat /\ send[t].retry \in Nat
    BY <1>1 DEF Send
  <2> QED  BY <1>1, <1>2, <2>1, <2>2, TimeoutAssumption DEF CallInv, TimeInv, At
<1>5. notBefore' \in [Calls -> Nat]
  BY <1>1 DEF TypeOK
<1> QED  BY <1>1, <1>2, <1>3, <1>4, <1>5, MoveKeeps

LEMMA GiveUpKeeps ==
    ASSUME IInv, NEW t \in Calls, GiveUp(t), UNCHANGED toolVars PROVE IInv'
<1>1. /\ TypeOK /\ CallInv(t) /\ At(t, "paused") /\ ~At(t, "idle")
      /\ UNCHANGED <<holder, refill, gone, carried>>
  BY DEF GiveUp, At, IInv
<1>2. BucketsTyped /\ MayCarry(t)
  BY <1>1, CarriesNothing DEF TypeOK, BucketsTyped
<1>3. send[t].sink = 429
  BY <1>1 DEF CallInv, TimeInv
<1>4. Finish(t, 429, TRUE, "limited")
  BY <1>3 DEF GiveUp
<1> QED  BY <1>1, <1>2, <1>4, LimitEnds

-----------------------------------------------------------------------------
(* The steps of the wrapper and of the handler. *)

LEMMA ClassifyTells ==
    ASSUME NEW err \in Verdicts \cup {"arg", "decode"}
    PROVE  /\ Classify(err) \in Outcomes
           /\ Classify(err) = "rate_limited" <=> err = "limited"
           /\ Classify(err) = "credential_rejected" <=> err = "unauthorized"
           /\ Classify(err) = "ok" <=> err = "ok"
           /\ Classify(err) = "invalid_args" <=> err = "arg"
  BY DEF Classify, Outcomes, Verdicts

(* Ended is about the last entry, if there is one. *)
LEMMA EndedSays ==
    ASSUME TypeOK, NEW t \in Calls, NEW s
    PROVE  /\ Ended(t, s) <=> rec[t] # <<>> /\ Last(t).status = s /\ Last(t).read
           /\ rec[t] = <<>> <=> Len(rec[t]) = 0
           /\ Len(rec[t]) \in Nat /\ DOMAIN rec[t] = 1 .. Len(rec[t])
<1>1. rec[t] \in Seq(Entry)
  BY DEF TypeOK
<1> QED  BY <1>1 DEF Ended, Last

(* A handler that returns err. *)
LEMMA ReturnKeeps ==
    ASSUME IInv, NEW t \in Calls, pc[t] \in {"handler", "sending"}, At(t, "idle"),
           NEW err \in Verdicts \cup {"arg", "decode"}, Return(t, err), UNCHANGED restVars,
           err = "limited" <=> Ended(t, 429), err = "unauthorized" <=> Ended(t, 401),
           err = "ok" => Len(rec[t]) = Len(Requests(t)) /\ AllOk(t),
           err = "arg" => rec[t] = <<>> /\ carried[t] = {}
    PROVE  IInv'
<1> DEFINE o == Classify(err)
<1>1. /\ o \in Outcomes
      /\ o = "rate_limited" <=> err = "limited"
      /\ o = "credential_rejected" <=> err = "unauthorized"
      /\ o = "ok" <=> err = "ok"
      /\ o = "invalid_args" <=> err = "arg"
  BY ClassifyTells
<1>2. TypeOK /\ CallInv(t)
  BY DEF IInv
<1>3. /\ outcome' = [outcome EXCEPT ![t] = o]
      /\ pc' = [pc EXCEPT ![t] = IF o = "credential_rejected" THEN "evict" ELSE "log"]
      /\ UNCHANGED <<tool, step, evicted, lines>>
  BY DEF Return
<1> HIDE DEF o
<1>4. UNCHANGED <<holder, refill, gone, send, verdict, rec, carried, notBefore>>
  BY DEF restVars, callVars
<1>5. /\ outcome'[t] = o
      /\ pc'[t] = IF o = "credential_rejected" THEN "evict" ELSE "log"
  BY <1>2, <1>3 DEF TypeOK
<1>6. TypeOK'
  BY <1>1, <1>2, <1>3, <1>4 DEF TypeOK
<1>7. OthersStay(t)
  BY <1>2, <1>3, <1>4 DEF TypeOK, OthersStay
<1>8. RecordInv(t)'
  BY <1>2, <1>3, <1>4, RecordStays DEF CallInv
<1>9. PlaceInv(t)'
  BY <1>4, <1>5 DEF PlaceInv, At
<1>10. t \notin evicted
  BY <1>2 DEF CallInv, OutcomeInv
<1>11. OutcomeInv(t)'
  BY <1>1, <1>3, <1>4, <1>5, <1>10 DEF OutcomeInv, Ended, Requests, AllOk
<1>12. CarriedInv(t)'
  BY <1>2, <1>4 DEF CallInv, CarriedInv, At, Route
<1>13. TimeInv(t)'
  BY <1>2, <1>4 DEF CallInv, TimeInv, At
<1> QED
  BY <1>6, <1>7, <1>8, <1>9, <1>11, <1>12, <1>13, OthersKeep DEF CallInv, IInv

LEMMA ReturnsKeep ==
    ASSUME IInv, NEW t \in Calls,
           ArgsRefused(t) \/ Failed(t) \/ Undecodable(t) \/ Succeeded(t)
    PROVE  IInv'
<1>1. TypeOK /\ CallInv(t)
  BY DEF IInv
<1>2. /\ Len(rec[t]) \in Nat /\ Len(Requests(t)) \in Nat /\ DOMAIN rec[t] = 1 .. Len(rec[t])
      /\ rec[t] = <<>> <=> Len(rec[t]) = 0
      /\ step[t] \in Nat \ {0}
  <2>1. /\ Len(rec[t]) \in Nat /\ DOMAIN rec[t] = 1 .. Len(rec[t])
        /\ rec[t] = <<>> <=> Len(rec[t]) = 0
    BY <1>1, EndedSays
  <2>2. Len(Requests(t)) \in Nat
    BY <1>1, RequestsTyped
  <2>3. step[t] \in Nat \ {0}
    <3>1. step \in [Calls -> 1 .. 3]
      BY <1>1 DEF TypeOK
    <3> QED  BY <3>1
  <2> QED  BY <2>1, <2>2, <2>3
<1>3. UNCHANGED restVars /\ pc[t] \in {"handler", "sending"} /\ At(t, "idle")
  BY <1>1 DEF ArgsRefused, Failed, Undecodable, Succeeded, CallInv, PlaceInv
<1>4. AllOk(t) => ~Ended(t, 429) /\ ~Ended(t, 401)
  BY <1>1, <1>2, EndedSays DEF AllOk, Last
<1>5. CASE ArgsRefused(t)
  <2> DEFINE err == "arg"
  <2>1. rec[t] = <<>> /\ AllOk(t)
    BY <1>1, <1>2, <1>5 DEF ArgsRefused, CallInv, PlaceInv
  <2>2. carried[t] = {}
    BY <1>1, <1>2, <1>3, <2>1 DEF CallInv, CarriedInv
  <2>3. /\ err \in Verdicts \cup {"arg", "decode"} /\ Return(t, err)
        /\ err \notin {"limited", "unauthorized", "ok"}
    BY <1>5 DEF ArgsRefused
  <2> HIDE DEF err
  <2> QED  BY <1>3, <1>4, <2>1, <2>2, <2>3, ReturnKeeps
<1>6. CASE Undecodable(t)
  <2> DEFINE err == "decode"
  <2>1. AllOk(t)
    BY <1>1, <1>6 DEF Undecodable, CallInv, PlaceInv
  <2>2. /\ err \in Verdicts \cup {"arg", "decode"} /\ Return(t, err)
        /\ err \notin {"limited", "unauthorized", "ok", "arg"}
    BY <1>6 DEF Undecodable
  <2> HIDE DEF err
  <2> QED  BY <1>3, <1>4, <2>1, <2>2, ReturnKeeps
<1>7. CASE Succeeded(t)
  <2> DEFINE err == "ok"
  <2>1. AllOk(t) /\ Len(rec[t]) = Len(Requests(t))
    BY <1>1, <1>2, <1>7 DEF Succeeded, CallInv, PlaceInv, RecordInv
  <2>2. /\ err \in Verdicts \cup {"arg", "decode"} /\ Return(t, err)
        /\ err \notin {"limited", "unauthorized", "arg"}
    BY <1>7 DEF Succeeded, Verdicts
  <2> HIDE DEF err
  <2> QED  BY <1>3, <1>4, <2>1, <2>2, ReturnKeeps
<1>8. CASE Failed(t)
  <2> DEFINE err == verdict[t]
  <2>1. Len(rec[t]) = step[t] /\ Tells(err, Last(t)) /\ pc[t] = "sending"
    BY <1>1, <1>8 DEF Failed, CallInv, PlaceInv
  <2>2. rec[t] # <<>>
    BY <1>2, <2>1
  <2>3. (err = "limited" <=> Ended(t, 429)) /\ (err = "unauthorized" <=> Ended(t, 401))
    BY <1>1, <2>1, <2>2, EndedSays DEF Tells
  <2>4. /\ err \in Verdicts \cup {"arg", "decode"} /\ Return(t, err)
        /\ err \notin {"ok", "arg"}
    BY <1>1, <1>8 DEF Failed, TypeOK, Verdicts
  <2> HIDE DEF err
  <2> QED  BY <1>3, <2>3, <2>4, ReturnKeeps
<1> QED  BY <1>5, <1>6, <1>7, <1>8

LEMMA RequestKeeps == ASSUME IInv, NEW t \in Calls, Request(t) PROVE IInv'
<1> DEFINE r == Requests(t)[step[t]]
<1> DEFINE x == Begun(r, "bucket")
<1>1. TypeOK /\ CallInv(t) /\ send \in [Calls -> Send]
  BY DEF IInv, TypeOK
<1>2. /\ pc[t] = "handler" /\ step[t] <= Len(Requests(t)) /\ At(t, "idle")
      /\ send' = [send EXCEPT ![t] = x] /\ pc' = [pc EXCEPT ![t] = "sending"]
      /\ UNCHANGED <<holder, refill, gone, verdict, rec, carried, notBefore>>
      /\ UNCHANGED <<tool, step, outcome, evicted, lines>>
  BY DEF Request, Do
<1>3. r \in Routes
  BY <1>1, <1>2, RequestsTyped DEF CallInv, RecordInv
<1>4. x \in Send /\ x.at = "bucket" /\ x.route = r /\ x.waited = 0 /\ x.left = Timeout
  BY <1>3, IdleTyped
<1> HIDE DEF x
<1>5. send'[t] = x /\ pc'[t] = "sending"
  BY <1>1, <1>2 DEF TypeOK
<1>6. TypeOK'
  BY <1>1, <1>2, <1>4 DEF TypeOK
<1>7. OthersStay(t)
  BY <1>1, <1>2 DEF TypeOK, OthersStay
<1>8. RecordInv(t)'
  BY <1>1, <1>2, RecordStays DEF CallInv
<1>9. PlaceInv(t)'
  BY <1>1, <1>2, <1>4, <1>5 DEF CallInv, PlaceInv, Requests, At, AllOk, Route
<1>10. OutcomeInv(t)'
  BY <1>1, <1>2, <1>5 DEF CallInv, OutcomeInv
<1>11. CarriedInv(t)'
  BY <1>1, <1>2 DEF CallInv, CarriedInv
<1>12. TimeInv(t)'
  BY <1>1, <1>2, <1>4, <1>5, TimeoutAssumption DEF CallInv, TimeInv, At
<1> QED
  BY <1>6, <1>7, <1>8, <1>9, <1>10, <1>11, <1>12, OthersKeep DEF CallInv, IInv

LEMMA RequestedKeeps == ASSUME IInv, NEW t \in Calls, Requested(t) PROVE IInv'
<1>1. TypeOK /\ CallInv(t)
  BY DEF IInv
<1>2. /\ pc[t] = "sending" /\ At(t, "idle") /\ verdict[t] = "ok"
      /\ pc' = [pc EXCEPT ![t] = "handler"] /\ step' = [step EXCEPT ![t] = step[t] + 1]
      /\ UNCHANGED <<holder, refill, gone, send, verdict, rec, carried, notBefore>>
      /\ UNCHANGED <<tool, outcome, evicted, lines>>
  BY DEF Requested, restVars, callVars
<1>3. pc'[t] = "handler" /\ step'[t] = step[t] + 1
  BY <1>1, <1>2 DEF TypeOK
<1>4. /\ step[t] \in Nat /\ step[t] <= Len(Requests(t)) /\ Len(Requests(t)) \in 0 .. 2
      /\ Len(rec[t]) = step[t] /\ Last(t).status = 200
      /\ DOMAIN rec[t] = 1 .. Len(rec[t]) /\ Len(rec[t]) \in Nat
  BY <1>1, <1>2, RequestsTyped, EndedSays DEF CallInv, PlaceInv, Tells, TypeOK
<1>5. AllOk(t)
  BY <1>1, <1>4 DEF CallInv, RecordInv, AllOk, Last
<1>6. TypeOK'
  <2>1. step[t] + 1 \in 1 .. 3
    <3>1. step \in [Calls -> 1 .. 3]
      BY <1>1 DEF TypeOK
    <3>2. step[t] \in 1 .. 3
      BY <3>1
    <3> DEFINE k == step[t]
               n == Len(Requests(t))
    <3>3. k \in 1 .. 3 /\ k <= n /\ n \in 0 .. 2
      BY <1>4, <3>2, Zenon
    <3>4. k + 1 = step[t] + 1
      OBVIOUS
    <3> HIDE DEF k, n
    <3>5. k + 1 \in 1 .. 3
      BY <3>3
    <3> QED  BY <3>4, <3>5
  <2>2. /\ step' \in [Calls -> 1 .. 3]
        /\ pc' \in [Calls -> {"handler", "sending", "evict", "log", "done"}]
    BY <1>1, <1>2, <2>1 DEF TypeOK
  <2> QED  BY <1>1, <1>2, <2>2 DEF TypeOK
<1>7. OthersStay(t)
  BY <1>1, <1>2 DEF TypeOK, OthersStay
<1>8. RecordInv(t)'
  BY <1>1, <1>2, <1>3, <1>4, SMTT(30) DEF CallInv, RecordInv, Requests
<1>9. PlaceInv(t)'
  BY <1>2, <1>3, <1>4, <1>5 DEF PlaceInv, At, AllOk
<1>10. OutcomeInv(t)'
  BY <1>1, <1>2, <1>3 DEF CallInv, OutcomeInv
<1>11. CarriedInv(t)'
  BY <1>1, <1>2 DEF CallInv, CarriedInv, At, Route
<1>12. TimeInv(t)'
  BY <1>1, <1>2 DEF CallInv, TimeInv, At
<1> QED
  BY <1>6, <1>7, <1>8, <1>9, <1>10, <1>11, <1>12, OthersKeep DEF CallInv, IInv

LEMMA EvictKeeps == ASSUME IInv, NEW t \in Calls, Evict(t) PROVE IInv'
<1>1. TypeOK /\ CallInv(t)
  BY DEF IInv
<1>2. /\ pc[t] = "evict" /\ evicted' = evicted \cup {t} /\ pc' = [pc EXCEPT ![t] = "log"]
      /\ UNCHANGED <<holder, refill, gone, send, verdict, rec, carried, notBefore>>
      /\ UNCHANGED <<tool, step, outcome, lines>>
  BY DEF Evict, restVars, callVars
<1>3. pc'[t] = "log"
  BY <1>1, <1>2 DEF TypeOK
<1>4. TypeOK'
  BY <1>1, <1>2 DEF TypeOK
<1>5. OthersStay(t)
  BY <1>1, <1>2 DEF TypeOK, OthersStay
<1>6. RecordInv(t)'
  BY <1>1, <1>2, RecordStays DEF CallInv
<1>7. PlaceInv(t)'
  BY <1>1, <1>2, <1>3 DEF CallInv, PlaceInv, At
<1>8. OutcomeInv(t)'
  BY <1>1, <1>2, <1>3 DEF CallInv, OutcomeInv, Ended, Requests, AllOk
<1>9. CarriedInv(t)'
  BY <1>1, <1>2 DEF CallInv, CarriedInv, At, Route
<1>10. TimeInv(t)'
  BY <1>1, <1>2 DEF CallInv, TimeInv, At
<1> QED
  BY <1>4, <1>5, <1>6, <1>7, <1>8, <1>9, <1>10, OthersKeep DEF CallInv, IInv

LEMMA LogKeeps == ASSUME IInv, NEW t \in Calls, Log(t) PROVE IInv'
<1>1. TypeOK /\ CallInv(t)
  BY DEF IInv
<1>2. /\ pc[t] = "log" /\ pc' = [pc EXCEPT ![t] = "done"]
      /\ gone' = [gone EXCEPT ![t] = FALSE] /\ rec' = [rec EXCEPT ![t] = <<>>]
      /\ carried' = [carried EXCEPT ![t] = {}] /\ verdict' = [verdict EXCEPT ![t] = "ok"]
      /\ step' = [step EXCEPT ![t] = 1] /\ outcome' = [outcome EXCEPT ![t] = "none"]
      /\ evicted' = evicted \ {t}
      /\ lines' = [lines EXCEPT ![t] = Append(lines[t], outcome[t])]
      /\ UNCHANGED <<holder, refill, send, notBefore, tool>>
  BY DEF Log, Over
<1>3. pc'[t] = "done" /\ rec'[t] = <<>> /\ carried'[t] = {} /\ step'[t] = 1
  BY <1>1, <1>2 DEF TypeOK
<1>4. TypeOK'
  <2>1. lines' \in [Calls -> Seq(Outcomes)]
    BY <1>1, <1>2 DEF TypeOK
  <2>2. rec' \in [Calls -> Seq(Entry)] /\ carried' \in [Calls -> SUBSET Routes]
    BY <1>1, <1>2 DEF TypeOK
  <2>3. gone' \in [Calls -> BOOLEAN] /\ verdict' \in [Calls -> Verdicts]
    BY <1>1, <1>2 DEF TypeOK, Verdicts
  <2>4. /\ pc' \in [Calls -> {"handler", "sending", "evict", "log", "done"}]
        /\ step' \in [Calls -> 1 .. 3] /\ outcome' \in [Calls -> Outcomes]
        /\ evicted' \subseteq Calls
    BY <1>1, <1>2 DEF TypeOK, Outcomes
  <2> QED  BY <1>1, <1>2, <2>1, <2>2, <2>3, <2>4 DEF TypeOK
<1>5. OthersStay(t)
  BY <1>1, <1>2 DEF TypeOK, OthersStay
<1>6. RecordInv(t)'
  <2>1. Len(Requests(t)) \in Nat /\ Requests(t)' = Requests(t)
    BY <1>1, <1>2, RequestsTyped DEF Requests
  <2> QED  BY <1>3, <2>1 DEF RecordInv
<1>7. PlaceInv(t)'
  BY <1>1, <1>2, <1>3 DEF CallInv, PlaceInv, At
<1>8. OutcomeInv(t)'
  BY <1>2, <1>3 DEF OutcomeInv
<1>9. CarriedInv(t)'
  BY <1>3 DEF CarriedInv
<1>10. TimeInv(t)'
  BY <1>1, <1>2, <1>3 DEF CallInv, TimeInv, At
<1> QED
  BY <1>4, <1>5, <1>6, <1>7, <1>8, <1>9, <1>10, OthersKeep DEF CallInv, IInv

-----------------------------------------------------------------------------
(* The caller goes away, and time passes. *)

LEMMA CancelKeeps ==
    ASSUME IInv, NEW t \in Calls, Cancel(t), UNCHANGED toolVars PROVE IInv'
<1>1. TypeOK /\ CallInv(t)
  BY DEF IInv
<1>2. /\ gone' = [gone EXCEPT ![t] = TRUE]
      /\ UNCHANGED <<holder, refill, send, verdict, rec, carried, notBefore>>
      /\ UNCHANGED <<pc, tool, step, outcome, evicted, lines>>
  BY DEF Cancel, callVars, toolVars
<1>3. gone' \in [Calls -> BOOLEAN]
  BY <1>1, <1>2 DEF TypeOK
<1>4. TypeOK'
  BY <1>1, <1>2, <1>3 DEF TypeOK
<1>5. OthersStay(t)
  BY <1>2 DEF OthersStay
<1>6. RecordInv(t)' /\ PlaceInv(t)'
  BY <1>1, <1>2, RecordStays, PlaceStays DEF CallInv
<1>7. OutcomeInv(t)'
  BY <1>1, <1>2 DEF CallInv, OutcomeInv, Ended, Requests, AllOk
<1>8. CarriedInv(t)' /\ TimeInv(t)'
  BY <1>1, <1>2 DEF CallInv, CarriedInv, TimeInv, At, Route
<1> QED  BY <1>4, <1>5, <1>6, <1>7, <1>8, OthersKeep DEF CallInv, IInv

(* A unit of time off the timers of a call that none of them holds up.     *)
LEMMA TickLocals ==
    ASSUME IInv, Tick, NEW t \in Calls
    PROVE  /\ send'[t] \in Send /\ send'[t].at = send[t].at /\ send'[t].route = send[t].route
           /\ TimeInv(t)'
<1>1. TypeOK /\ CallInv(t) /\ send[t] \in Send /\ notBefore[t] \in Nat
  BY DEF IInv, TypeOK
<1>2. /\ send'[t] = IF At(t, "idle") THEN send[t]
                    ELSE [send[t] EXCEPT !.left = Less(@), !.pause = Less(@)]
      /\ notBefore'[t] = Less(notBefore[t]) /\ ~Due(t) /\ rec' = rec
  BY DEF Tick
<1>3. \A n \in Nat : Less(n) \in Nat /\ Less(n) <= n /\ (n # 0 => Less(n) = n - 1)
  BY DEF Less
<1>4. Less(0) = 0
  BY DEF Less
<1>5. CASE At(t, "idle")
  <2>1. send'[t] = send[t] /\ notBefore'[t] = notBefore[t]
    BY <1>1, <1>2, <1>4, <1>5 DEF CallInv, TimeInv, At
  <2> QED  BY <1>1, <1>2, <2>1, ZenonT(30) DEF CallInv, TimeInv, At
<1>6. CASE ~At(t, "idle")
  <2> DEFINE x == [send[t] EXCEPT !.left = Less(@), !.pause = Less(@)]
  <2>1. /\ send[t].left \in Nat /\ send[t].pause \in Nat /\ send[t].waited \in Nat
        /\ send[t].retry \in Nat
    BY <1>1, SendParts
  <2>2. /\ x \in Send /\ x.at = send[t].at /\ x.route = send[t].route
        /\ x.left = Less(send[t].left) /\ x.pause = Less(send[t].pause)
        /\ x.retry = send[t].retry /\ x.waited = send[t].waited /\ x.sink = send[t].sink
    BY <1>1, <1>3, <2>1 DEF Send
  <2>3. send'[t] = x
    BY <1>2, <1>6
  <2> HIDE DEF x
  <2>4. CASE At(t, "paused")
    <3>1. send[t].left # 0 /\ send[t].pause # 0
      BY <1>2, <2>4 DEF Due, CtxDone, Elapsed
    <3>2. x.left = send[t].left - 1 /\ x.pause = send[t].pause - 1
      BY <1>3, <2>1, <2>2, <3>1
    <3>3. notBefore'[t] = x.pause
      BY <1>1, <1>2, <2>2, <2>4 DEF CallInv, TimeInv
    <3>4. At(t, "paused")'
      BY <2>2, <2>3, <2>4 DEF At
    <3> QED
      BY <1>1, <1>2, <2>1, <2>2, <2>3, <2>4, <3>1, <3>2, <3>3, <3>4, TimeoutAssumption
      DEF CallInv, TimeInv
  <2>5. CASE ~At(t, "paused")
    <3>1. notBefore'[t] = 0
      BY <1>1, <1>2, <1>4, <2>5 DEF CallInv, TimeInv
    <3>2. x.left \in Nat /\ x.left <= send[t].left
      BY <1>3, <2>1, <2>2
    <3>3. ~At(t, "paused")'
      BY <2>2, <2>3, <2>5 DEF At
    <3> QED
      BY <1>1, <1>2, <2>1, <2>2, <2>3, <2>5, <3>1, <3>2, <3>3, TimeoutAssumption
      DEF CallInv, TimeInv
  <2> QED  BY <2>4, <2>5
<1> QED  BY <1>5, <1>6

LEMMA TickKeeps == ASSUME IInv, Tick, UNCHANGED toolVars PROVE IInv'
<1>1. TypeOK
  BY DEF IInv
<1>2. /\ UNCHANGED <<holder, gone, verdict, rec, carried>>
      /\ UNCHANGED <<pc, tool, step, outcome, evicted, lines>>
      /\ refill' = [r \in Routes |-> Less(refill[r])]
      /\ notBefore' = [t \in Calls |-> Less(notBefore[t])]
  BY DEF Tick, toolVars
<1>3. \A n \in Nat : Less(n) \in Nat
  BY DEF Less
<1>4. refill' \in [Routes -> Nat] /\ notBefore' \in [Calls -> Nat]
  BY <1>1, <1>2, <1>3 DEF TypeOK
<1>5. send' \in [Calls -> Send]
  <2>1. send' = [t \in Calls |-> send'[t]]
    BY DEF Tick
  <2>2. \A t \in Calls : send'[t] \in Send
    BY TickLocals
  <2> QED  BY <2>1, <2>2
<1>6. TypeOK'
  BY <1>1, <1>2, <1>4, <1>5 DEF TypeOK
<1>7. ASSUME NEW t \in Calls PROVE CallInv(t)'
  <2>1. CallInv(t)
    BY DEF IInv
  <2>2. send'[t].at = send[t].at /\ send'[t].route = send[t].route /\ TimeInv(t)'
    BY TickLocals
  <2>3. RecordInv(t)' /\ PlaceInv(t)'
    BY <1>2, <2>1, <2>2, RecordStays, PlaceStays DEF CallInv
  <2>4. OutcomeInv(t)'
    BY <1>2, <2>1 DEF CallInv, OutcomeInv, Ended, Requests, AllOk
  <2>5. CarriedInv(t)'
    BY <1>2, <2>1, <2>2 DEF CallInv, CarriedInv, At, Route
  <2> QED  BY <2>2, <2>3, <2>4, <2>5 DEF CallInv
<1> QED  BY <1>6, <1>7 DEF IInv

-----------------------------------------------------------------------------
LEMMA InitInv == ASSUME Init PROVE IInv
<1>1. /\ holder = [r \in Routes |-> Free] /\ refill = [r \in Routes |-> 0]
      /\ send = [t \in Calls |-> Idle] /\ gone = [t \in Calls |-> FALSE]
      /\ verdict = [t \in Calls |-> "ok"] /\ rec = [t \in Calls |-> <<>>]
      /\ carried = [t \in Calls |-> {}] /\ notBefore = [t \in Calls |-> 0]
      /\ pc = [t \in Calls |-> "handler"] /\ tool \in [Calls -> Tools]
      /\ step = [t \in Calls |-> 1] /\ outcome = [t \in Calls |-> "none"]
      /\ evicted = {} /\ lines = [t \in Calls |-> <<>>]
  BY DEF Init, RestInit
<1>2. TypeOK
  <2>1. send \in [Calls -> Send] /\ gone \in [Calls -> BOOLEAN]
    BY <1>1, IdleTyped
  <2>2. rec \in [Calls -> Seq(Entry)] /\ lines \in [Calls -> Seq(Outcomes)]
    BY <1>1
  <2>3. verdict \in [Calls -> Verdicts] /\ outcome \in [Calls -> Outcomes]
    BY <1>1 DEF Verdicts, Outcomes
  <2> QED  BY <1>1, <2>1, <2>2, <2>3 DEF TypeOK
<1>3. ASSUME NEW t \in Calls PROVE CallInv(t)
  <2>1. Len(Requests(t)) \in Nat
    BY <1>2, RequestsTyped
  <2>2. /\ pc[t] = "handler" /\ step[t] = 1 /\ rec[t] = <<>> /\ carried[t] = {}
        /\ send[t] = Idle /\ notBefore[t] = 0
    BY <1>1
  <2>3. At(t, "idle") /\ send[t].waited = 0 /\ send[t].left = Timeout
    BY <2>2, IdleTyped DEF At
  <2>4. RecordInv(t)
    BY <2>1, <2>2 DEF RecordInv
  <2>5. PlaceInv(t)
    BY <2>2, <2>3 DEF PlaceInv, AllOk
  <2>6. OutcomeInv(t) /\ CarriedInv(t)
    BY <1>1, <2>2 DEF OutcomeInv, CarriedInv
  <2>7. TimeInv(t)
    BY <2>2, <2>3, TimeoutAssumption DEF TimeInv, At
  <2> QED  BY <2>4, <2>5, <2>6, <2>7 DEF CallInv
<1> QED  BY <1>2, <1>3 DEF IInv

LEMMA StepInv == ASSUME IInv, [Next]_vars PROVE IInv'
<1>1. CASE Tick /\ UNCHANGED toolVars
  BY <1>1, TickKeeps
<1>2. ASSUME NEW t \in Calls, ToolStep(t) PROVE IInv'
  BY <1>2, ReturnsKeep, RequestKeeps, RequestedKeeps, EvictKeeps, LogKeeps DEF ToolStep
<1>3. ASSUME NEW t \in Calls, SendStep(t), UNCHANGED toolVars PROVE IInv'
  BY <1>3, AskKeeps, AskLateKeeps, AnswerKeeps, BrokenKeeps, BadGatewayKeeps, LimitedKeeps,
     RetryKeeps, GiveUpKeeps DEF SendStep
<1>4. ASSUME NEW t \in Calls, Cancel(t), UNCHANGED toolVars PROVE IInv'
  BY <1>4, CancelKeeps
<1>5. CASE UNCHANGED vars
  <2>1. /\ UNCHANGED <<holder, refill, gone, send, verdict, rec, carried, notBefore>>
        /\ UNCHANGED <<pc, tool, step, outcome, evicted, lines>>
    BY <1>5 DEF vars, restVars, callVars, toolVars
  <2>2. TypeOK'
    BY <2>1 DEF IInv, TypeOK
  <2>3. ASSUME NEW t \in Calls PROVE CallInv(t)'
    <3>1. CallInv(t)
      BY DEF IInv
    <3>2. RecordInv(t)' /\ PlaceInv(t)'
      BY <2>1, <3>1, RecordStays, PlaceStays DEF CallInv
    <3>3. OutcomeInv(t)'
      BY <2>1, <3>1 DEF CallInv, OutcomeInv, Ended, Requests, AllOk
    <3>4. CarriedInv(t)' /\ TimeInv(t)'
      BY <2>1, <3>1 DEF CallInv, CarriedInv, TimeInv, At, Route
    <3> QED  BY <3>2, <3>3, <3>4 DEF CallInv
  <2> QED  BY <2>2, <2>3 DEF IInv
<1> QED  BY <1>1, <1>2, <1>3, <1>4, <1>5 DEF Next

LEMMA Invariant == Spec => []IInv
<1>1. Init => IInv
  BY InitInv
<1>2. IInv /\ [Next]_vars => IInv'
  BY StepInv
<1> QED  BY <1>1, <1>2, PTL DEF Spec

-----------------------------------------------------------------------------
(* Every variable of the calls, of send and of the buckets has its type.   *)
THEOREM TypeCorrect == Spec => []TypeOK
<1>1. IInv => TypeOK
  BY DEF IInv
<1> QED  BY <1>1, Invariant, PTL

(* The audit line of a call names the requests of its tool in order up to  *)
(* the first that failed, and its outcome is what the last answer was, for *)
(* any number of turns, resends and waits of send before it.               *)
THEOREM LineIsTrue == Spec => []LineTellsAnswer
<1>1. IInv => LineTellsAnswer
  <2> SUFFICES ASSUME IInv, NEW t \in Calls, pc[t] = "log"
               PROVE  /\ Asked(t) = SubSeq(Requests(t), 1, Len(rec[t]))
                      /\ \A i \in 1 .. Len(rec[t]) - 1 : rec[t][i].status = 200
                      /\ outcome[t] = "rate_limited" <=> Ended(t, 429)
                      /\ outcome[t] = "credential_rejected" <=> Ended(t, 401)
                      /\ outcome[t] = "ok" =>
                           /\ Len(rec[t]) = Len(Requests(t))
                           /\ \A i \in DOMAIN rec[t] : rec[t][i].status = 200
                      /\ outcome[t] = "invalid_args" => rec[t] = <<>> /\ carried[t] = {}
    BY DEF LineTellsAnswer
  <2>1. TypeOK /\ RecordInv(t) /\ OutcomeInv(t)
    BY DEF IInv, CallInv
  <2>2. /\ Requests(t) \in Seq(Routes) /\ Len(rec[t]) \in Nat
        /\ DOMAIN rec[t] = 1 .. Len(rec[t]) /\ Len(rec[t]) <= Len(Requests(t))
    BY <2>1, RequestsTyped, EndedSays DEF RecordInv
  <2>3. Asked(t) = [i \in 1 .. Len(rec[t]) |-> Requests(t)[i]]
    BY <2>1, <2>2 DEF Asked, RecordInv
  <2>4. SubSeq(Requests(t), 1, Len(rec[t])) = [i \in 1 .. Len(rec[t]) |-> Requests(t)[i]]
    BY <2>2
  <2> QED  BY <2>1, <2>3, <2>4 DEF RecordInv, OutcomeInv, AllOk
<1> QED  BY <1>1, Invariant, PTL

(* What Discord carried out for a call is in its audit line, also when the *)
(* connection broke after the request took effect.                         *)
THEOREM NothingUnrecorded == Spec => []EffectsInLine
<1>1. IInv => EffectsInLine
  <2> SUFFICES ASSUME IInv, NEW t \in Calls, pc[t] = "log", NEW r \in carried[t]
               PROVE  \E i \in DOMAIN rec[t] : rec[t][i].route = r
    BY DEF EffectsInLine
  <2>1. PlaceInv(t) /\ CarriedInv(t)
    BY DEF IInv, CallInv
  <2> QED  BY <2>1 DEF PlaceInv, CarriedInv
<1> QED  BY <1>1, Invariant, PTL

(* A call evicts its principal exactly if the last answer Discord gave it  *)
(* was a 401, and has done so before its line is written.                  *)
THEOREM EvictsExactly == Spec => []EvictedIfRejected
<1>1. IInv => EvictedIfRejected
  <2> SUFFICES ASSUME IInv, NEW t \in Calls, pc[t] = "log"
               PROVE  t \in evicted <=> Ended(t, 401)
    BY DEF EvictedIfRejected
  <2>1. OutcomeInv(t)
    BY DEF IInv, CallInv
  <2> QED  BY <2>1 DEF OutcomeInv
<1> QED  BY <1>1, Invariant, PTL

(* The waits of one Do are together shorter than the timeout.              *)
THEOREM WaitsBounded == Spec => []WaitsFitTimeout
<1>1. IInv => WaitsFitTimeout
  BY DEF IInv, CallInv, TimeInv, WaitsFitTimeout
<1> QED  BY <1>1, Invariant, PTL

(* Only Ask, in the bucket, makes a call one that has asked. *)
LEMMA OnlyAsk ==
    ASSUME IInv, NEW t \in Calls, [Next]_vars, ~At(t, "asked"), At(t, "asked")'
    PROVE  At(t, "bucket")
<1>1. TypeOK /\ send \in [Calls -> Send] /\ send'[t].at = "asked" /\ send[t].at # "asked"
  BY DEF IInv, TypeOK, At
<1>2. CASE Tick
  BY <1>1, <1>2, TickLocals
<1>3. ASSUME NEW u \in Calls, ToolStep(u) PROVE FALSE
  <2>1. CASE Request(u)
    <3> DEFINE x == Begun(Requests(u)[step[u]], "bucket")
    <3>1. send' = [send EXCEPT ![u] = x]
      BY <2>1 DEF Request, Do
    <3>2. x.at = "bucket"
      BY DEF Begun
    <3> HIDE DEF x
    <3> QED  BY <1>1, <3>1, <3>2
  <2>2. CASE ~Request(u)
    <3>1. send' = send
      BY <1>3, <2>2 DEF ToolStep, ArgsRefused, Requested, Failed, Undecodable, Succeeded,
                        Evict, Log, Over, restVars, callVars
    <3> QED  BY <1>1, <3>1
  <2> QED  BY <2>1, <2>2
<1>4. ASSUME NEW u \in Calls, SendStep(u) PROVE At(t, "bucket")
  <2>1. CASE Ask(u)
    <3>1. u = t
      BY <1>1, <2>1 DEF Ask
    <3> QED  BY <2>1, <3>1 DEF Ask, Granted
  <2>2. CASE ~Ask(u)
    <3>1. \/ send' = [send EXCEPT ![u] = Idle]
          \/ send' = [send EXCEPT ![u].at = "bucket", ![u].sink = 502, ![u].resent = @ + 1]
          \/ \E p \in Pauses : send' = [send EXCEPT ![u].at = "paused", ![u].retry = p,
                                                    ![u].pause = p, ![u].sink = 429]
          \/ send' = [send EXCEPT ![u].at = "bucket", ![u].waited = @ + send[u].retry,
                                  ![u].retry = 0, ![u].resent = 0, ![u].sink = 0]
      BY <1>4, <2>2, ZenonT(30)
      DEF SendStep, AskLate, Answer, Broken, BadGateway, Limited, Retry, GiveUp, Finish,
          Pause, Wait
    <3>2. Idle.at = "idle"
      BY IdleTyped
    <3> DEFINE y502 == [send[u] EXCEPT !.at = "bucket", !.sink = 502, !.resent = @ + 1]
               yWait(p) == [send[u] EXCEPT !.at = "paused", !.retry = p, !.pause = p,
                                           !.sink = 429]
               yNext == [send[u] EXCEPT !.at = "bucket", !.waited = @ + send[u].retry,
                                        !.retry = 0, !.resent = 0, !.sink = 0]
               others == \A v \in Calls : v # u => send'[v] = send[v]
    <3>3. send[u] \in Send
      BY <1>1
    <3>4. y502.at = "bucket" /\ yNext.at = "bucket" /\ \A p \in Pauses : yWait(p).at = "paused"
      BY <3>3 DEF Send
    <3>5. ASSUME send' = [send EXCEPT ![u] = Idle] PROVE send'[u] = Idle /\ others
      BY <1>1, <3>5
    <3>6. ASSUME send' = [send EXCEPT ![u].at = "bucket", ![u].sink = 502, ![u].resent = @ + 1]
          PROVE  send'[u] = y502 /\ others
      BY <1>1, <3>6
    <3>7. ASSUME NEW p \in Pauses,
                 send' = [send EXCEPT ![u].at = "paused", ![u].retry = p, ![u].pause = p,
                                      ![u].sink = 429]
          PROVE  send'[u] = yWait(p) /\ others
      BY <1>1, <3>7
    <3>8. ASSUME send' = [send EXCEPT ![u].at = "bucket", ![u].waited = @ + send[u].retry,
                                      ![u].retry = 0, ![u].resent = 0, ![u].sink = 0]
          PROVE  send'[u] = yNext /\ others
      BY <1>1, <3>8
    <3> HIDE DEF y502, yWait, yNext
    <3>9. send'[u].at # "asked" /\ others
      BY <3>1, <3>2, <3>4, <3>5, <3>6, <3>7, <3>8
    <3> QED  BY <1>1, <3>9
  <2> QED  BY <2>1, <2>2
<1>5. CASE UNCHANGED send
  BY <1>1, <1>5
<1>6. \A u \in Calls : Cancel(u) => UNCHANGED send
  BY DEF Cancel, callVars
<1>7. UNCHANGED vars => UNCHANGED send
  BY DEF vars, restVars, callVars
<1> QED  BY <1>2, <1>3, <1>4, <1>5, <1>6, <1>7 DEF Next

(* After a 429, whatever the other calls do, a call asks Discord again     *)
(* only when the time that Discord gave is over.                           *)
THEOREM BarredUntilOver == Spec => NeverAskedEarly
<1>1. IInv /\ [Next]_vars =>
        [\A t \in Calls : ~At(t, "asked") /\ At(t, "asked")' => notBefore[t] = 0]_vars
  <2> SUFFICES ASSUME IInv, [Next]_vars, NEW t \in Calls, ~At(t, "asked"), At(t, "asked")'
               PROVE  notBefore[t] = 0
    OBVIOUS
  <2>1. At(t, "bucket") /\ TimeInv(t)
    BY OnlyAsk DEF IInv, CallInv
  <2> QED  BY <2>1 DEF TimeInv, At
<1> QED  BY <1>1, Invariant, PTL DEF Spec, NeverAskedEarly

=============================================================================
