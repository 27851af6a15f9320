--------------------------- MODULE LifecycleProofs ---------------------------
(***************************************************************************)
(* Theorems about Lifecycle, for any config files, requests and queries.   *)
(***************************************************************************)
EXTENDS Lifecycle, TLAPS

(* The places of run, by what has been done before it gets there. *)
Building == {"verify", "intents", "open", "ready"}
Early    == Building \cup {"load", "resolver"}

(* What is in place where. *)
PlaceInv ==
    /\ pc = "load" => next = 1 /\ entries = <<>> /\ gateways = {} /\ buffers = {}
    /\ pc \in Building => next \in Instances
    /\ pc \in {"intents", "open", "ready"} => next \in buffers
    /\ pc \notin {"load", "end"} => cfg # {}
    /\ pc \in Early => listener = "none" /\ \A r \in Requests : stage[r] = "idle"
    /\ pc \in {"drain", "end"} => listener \in {"none", "closed"}

(* Close knows every session and buffer that is open, except a session that *)
(* Start is waiting for.                                                   *)
OpenInv ==
    /\ \A i \in Instances : session[i] = "open" => i \in gateways \/ (pc = "ready" /\ i = next)
    /\ \A i \in Instances : buffer[i] = "open" => i \in buffers
    /\ NothingLeftOpen

(* A wait is on buffers that Close knows, and that are closed before the   *)
(* listener is.                                                            *)
DrainInv ==
    /\ \A k \in DOMAIN entries : entries[k].p.events \subseteq buffers
    /\ \A r \in Requests : \A p \in got[r].by : p.events \subseteq buffers
    /\ pc \in {"shutdown", "drain"} => \A i \in buffers : buffer[i] = "closed"
    /\ WaitsAnswered

IInv == TypeOK /\ PlaceInv /\ OpenInv /\ DrainInv

-----------------------------------------------------------------------------
(* The document is a document, and its instances a sequence. *)
LEMMA FileType ==
    ASSUME file \in Files
    PROVE  /\ file \in Document
           /\ Len(file.instances) \in Nat
           /\ Instances = 1 .. Len(file.instances)
  BY FilesAssumption DEF Document, Instances

(* What the defaults leave as it is. *)
LEMMA DefaultsKeep ==
    ASSUME NEW f \in Document
    PROVE  LET d == ApplyDefaults(f)
           IN  /\ d.enabled = f.enabled
               /\ DOMAIN d.instances = DOMAIN f.instances
               /\ Len(d.instances) = Len(f.instances)
               /\ \A i \in DOMAIN f.instances :
                     d.instances[i] = DefaultInstance(f.instances[i])
<1> DEFINE d == ApplyDefaults(f)
<1>1. f.instances \in Seq(InstanceDoc) /\ Len(f.instances) \in Nat
      /\ DOMAIN f.instances = 1 .. Len(f.instances)
  BY DEF Document
<1>2. d.instances = [i \in DOMAIN f.instances |-> DefaultInstance(f.instances[i])]
      /\ d.enabled = f.enabled
  BY DEF ApplyDefaults, Document
<1>3. Len(d.instances) = Len(f.instances)
  BY <1>1, <1>2
<1> QED
  BY <1>2, <1>3

(* The config that was loaded is the file with its defaults, and valid.    *)
LEMMA Loaded ==
    ASSUME TypeOK, cfg # {}
    PROVE  /\ c = ApplyDefaults(file) /\ Valid(c)
           /\ c.enabled = file.enabled
           /\ DOMAIN c.instances = Instances
           /\ Len(c.instances) = Len(file.instances)
           /\ \A i \in Instances :
                 c.instances[i] = DefaultInstance(file.instances[i])
<1>1. file \in Document /\ cfg = Parse(file)
  BY FileType DEF TypeOK
<1>2. cfg = {ApplyDefaults(file)} /\ Valid(ApplyDefaults(file))
  BY <1>1 DEF Parse
<1>3. c = ApplyDefaults(file)
  BY <1>2 DEF c
<1> QED
  BY <1>1, <1>2, <1>3, DefaultsKeep DEF Instances

(* The part of an instance that run reads is as the file has it.           *)
LEMMA InstanceType ==
    ASSUME TypeOK, cfg # {}, NEW i \in Instances
    PROVE  /\ c.instances[i].tokens = file.instances[i].tokens
           /\ c.instances[i].tokens \in Seq(STRING)
           /\ c.instances[i].webhook = file.instances[i].webhook
           /\ c.instances[i].bot = {DefaultBot(b) : b \in file.instances[i].bot}
<1>1. c.instances[i] = DefaultInstance(file.instances[i])
  BY Loaded
<1>2. file.instances[i] \in InstanceDoc
  BY FileType DEF TypeOK, Document, Instances
<1> QED
  BY <1>1, <1>2 DEF DefaultInstance, InstanceDoc

(* An instance that is built has its entry, and run goes on to an instance *)
(* there is or to the resolver.                                            *)
LEMMA BuiltStep ==
    ASSUME TypeOK, PlaceInv, pc \in Building,
           NEW cap \in {"bot", "bot+events", "webhook"}, Built(cap)
    PROVE  /\ Principal(cap) \in Principals
           /\ entries' = Append(entries, [tokens |-> file.instances[next].tokens, p |-> Principal(cap)])
           /\ entries' \in Seq([tokens: Seq(STRING), p: Principals])
           /\ next' = next + 1 /\ next' \in Nat
           /\ \/ pc' = "resolver" /\ next = Len(file.instances)
              \/ pc' = "verify" /\ next' \in Instances
<1>1. next \in Instances /\ cfg # {}
  BY DEF PlaceInv, Building
<1>2. Principal(cap) \in Principals
  BY <1>1, VerifyAssumption DEF Principal, Principals, TypeOK
<1>3. inst.tokens = file.instances[next].tokens /\ inst.tokens \in Seq(STRING)
  BY <1>1, InstanceType DEF inst
<1>4. Len(c.instances) = Len(file.instances) /\ Instances = 1 .. Len(file.instances)
      /\ Len(file.instances) \in Nat
  BY <1>1, Loaded, FileType DEF TypeOK
<1>5. entries' = Append(entries, [tokens |-> file.instances[next].tokens, p |-> Principal(cap)])
  BY <1>3 DEF Built
<1>6. [tokens |-> file.instances[next].tokens, p |-> Principal(cap)]
          \in [tokens: Seq(STRING), p: Principals]
  BY <1>2, <1>3
<1>7. entries' \in Seq([tokens: Seq(STRING), p: Principals])
  BY <1>5, <1>6 DEF TypeOK
<1> QED
  BY <1>1, <1>2, <1>4, <1>5, <1>7 DEF Built, TypeOK

(* The reply to a request is well typed: its principals are those of the   *)
(* file, or one that has no instance and no events.                        *)
LEMMA ReplyType ==
    ASSUME TypeOK, NEW q \in Queries, NEW reply \in Replies(q)
    PROVE  /\ reply \in [status: {0, 200, 401, 404, 405}, query: SUBSET Queries,
                          by: SUBSET Principals]
           /\ \A p \in reply.by : p.events # {} => \E k \in DOMAIN entries : p = entries[k].p
<1>1. \A cap \in {"bot", "webhook"} : /\ DirectPrincipal(cap) \in Principals
                                      /\ DirectPrincipal(cap).events = {}
  BY DEF DirectPrincipal, Principals
<1>2. \A k \in DOMAIN entries : entries[k].p \in Principals
  <2> DEFINE Entry == [tokens: Seq(STRING), p: Principals]
  <2>1. entries \in Seq(Entry)
    BY DEF TypeOK
  <2>2. \A e \in Entry : e.p \in Principals
    OBVIOUS
  <2> HIDE DEF Entry
  <2>3. \A k \in DOMAIN entries : entries[k] \in Entry
    BY <2>1
  <2> QED
    BY <2>2, <2>3
<1>3. \A cred : \A s \in Resolve(cred) :
          /\ s \subseteq Principals
          /\ \A p \in s : p.events # {} => \E k \in DOMAIN entries : p = entries[k].p
  <2> SUFFICES ASSUME NEW cred, NEW s \in Resolve(cred)
               PROVE  /\ s \subseteq Principals
                      /\ \A p \in s : p.events # {} => \E k \in DOMAIN entries : p = entries[k].p
    OBVIOUS
  <2>1. \/ s = {} \/ s = {DirectPrincipal("bot")} \/ s = {DirectPrincipal("webhook")}
        \/ \E k \in DOMAIN entries : s = {entries[k].p}
    BY Zenon DEF Resolve
  <2> QED
    BY <1>1, <1>2, <2>1
<1>4. CASE q.path = "/healthz"
  BY <1>4 DEF Replies
<1>5. CASE q.path # "/healthz"
  BY <1>3, <1>5 DEF Replies
<1> QED
  BY <1>4, <1>5

(* No principal before the first request, and none without a request.      *)
LEMMA InitType == Init => TypeOK
<1> SUFFICES ASSUME Init PROVE TypeOK
  OBVIOUS
<1>1. entries \in Seq([tokens: Seq(STRING), p: Principals])
  BY DEF Init
<1>2. got \in [Requests -> [status: {0, 200, 401, 404, 405}, query: SUBSET Queries,
                            by: SUBSET Principals]]
  BY DEF Init, Unasked
<1>3. cfg = {}
  BY DEF Init
<1> QED
  BY <1>1, <1>2, <1>3, ZenonT(30) DEF Init, TypeOK

(* What the process started with stays. *)
LEMMA FixedStep == [Next]_vars => file' = file /\ verify' = verify /\ flags' = flags
  BY DEF Next, Run, Load, Build, VerifyFails, BuildWebhook, BuildBot, NewBuffer, FlagsUnknown,
         CheckPrivilegedIntents, OpenFails, Open, Ready, NotReady, NewResolver, Stop, ServeFails,
         ShutDown, CloseGateways, CloseBuffers, CloseListener, Drained, DrainTimeout, Signal,
         Listen, ListenerFails, Finish, Woken, Answer, ServeHTTP, fixedVars, vars

(* Every step keeps the types. *)
LEMMA TypeStep == TypeOK /\ PlaceInv /\ [Next]_vars => TypeOK'
<1> SUFFICES ASSUME TypeOK, PlaceInv, [Next]_vars PROVE TypeOK'
  OBVIOUS
<1> DEFINE Entry == [tokens: Seq(STRING), p: Principals]
           Reply == [status: {0, 200, 401, 404, 405}, query: SUBSET Queries, by: SUBSET Principals]
<1>fixed. file' = file /\ verify' = verify /\ flags' = flags
  BY FixedStep
<1>same. Instances' = Instances /\ Principals' = Principals /\ Entry' = Entry /\ Reply' = Reply
  BY <1>fixed DEF Instances, Principals
<1>closed. /\ ClosedSessions \in [Instances -> {"none", "open", "closed"}]
           /\ ClosedBuffers \in [Instances -> {"none", "open", "closed"}]
  BY DEF ClosedSessions, ClosedBuffers, TypeOK
<1>fail. ASSUME NEW why, Fail(why)
         PROVE  /\ pc' = "end" /\ listener' \in {"none", "closed"}
                /\ session' \in [Instances -> {"none", "open", "closed"}]
                /\ buffer' \in [Instances -> {"none", "open", "closed"}]
  BY <1>fail, <1>closed DEF Fail, End
<1> HIDE DEF Entry, Reply
<1>typed. /\ entries \in Seq(Entry) /\ got \in [Requests -> Reply]
  BY DEF TypeOK, Entry, Reply
<1>1. CASE Load
  <2>1. cfg' = Parse(file)
    BY <1>1 DEF Load
  <2> QED
    BY <1>1, <1>fixed, <1>same, <2>1 DEF Load, End, TypeOK, buildVars, requestVars
<1>2. CASE VerifyFails \/ FlagsUnknown \/ OpenFails \/ ServeFails \/ Drained \/ DrainTimeout
  <2>1. \E why : Fail(why)
    BY <1>2 DEF VerifyFails, FlagsUnknown, OpenFails, ServeFails, Drained, DrainTimeout
  <2>2. UNCHANGED <<cfg, buildVars, signalled, requestVars>>
    BY <1>2 DEF VerifyFails, FlagsUnknown, OpenFails, ServeFails, Drained, DrainTimeout
  <2> QED
    BY <1>fixed, <1>same, <1>fail, <2>1, <2>2 DEF TypeOK, buildVars, requestVars
<1>3. CASE BuildWebhook \/ BuildBot
  <2>1. \E cap \in {"bot", "webhook"} : Built(cap)
    BY <1>3 DEF BuildWebhook, BuildBot
  <2>2. UNCHANGED <<cfg, gateways, buffers, session, buffer, signalled, listener, requestVars>>
        /\ pc \in Building
    BY <1>3 DEF BuildWebhook, BuildBot, Verified, Building
  <2>3. entries' \in Seq(Entry) /\ next' \in Nat /\ pc' \in {"resolver", "verify"}
    BY <2>1, <2>2, BuiltStep DEF Entry
  <2> QED
    BY <1>fixed, <1>same, <2>2, <2>3 DEF TypeOK, requestVars, Entry
<1>4. CASE NewBuffer
  <2>1. next \in Instances /\ pc \in Building
    BY <1>4 DEF NewBuffer, Verified, PlaceInv, Building
  <2>2. UNCHANGED <<cfg, gateways, session, signalled, listener, requestVars>>
        /\ buffer' \in [Instances -> {"none", "open", "closed"}]
        /\ buffers' \subseteq Instances
    BY <1>4, <2>1 DEF NewBuffer, TypeOK
  <2>3. entries' \in Seq(Entry) /\ next' \in Nat /\ pc' \in {"resolver", "verify", "intents"}
    <3>1. CASE Built("bot+events")
      BY <2>1, <3>1, BuiltStep DEF Entry
    <3>2. CASE UNCHANGED <<next, entries>> /\ pc' = "intents"
      BY <1>typed, <3>2 DEF TypeOK
    <3> QED
      BY <1>4, <3>1, <3>2 DEF NewBuffer
  <2> QED
    BY <1>fixed, <1>same, <2>2, <2>3 DEF TypeOK, requestVars, Entry
<1>5. CASE CheckPrivilegedIntents
  <2>1. (\E why : Fail(why)) \/ (pc' = "open" /\ UNCHANGED <<session, buffer, listener>>)
    BY <1>5 DEF CheckPrivilegedIntents
  <2>2. UNCHANGED <<cfg, buildVars, signalled, requestVars>>
    BY <1>5 DEF CheckPrivilegedIntents
  <2> QED
    BY <1>fixed, <1>same, <1>fail, <2>1, <2>2 DEF TypeOK, buildVars, requestVars
<1>6. CASE Open
  BY <1>6, <1>fixed, <1>same DEF Open, TypeOK, buildVars, requestVars
<1>7. CASE Ready
  <2>1. next \in Instances /\ pc \in Building
    BY <1>7 DEF Ready, PlaceInv, Building
  <2>2. entries' \in Seq(Entry) /\ next' \in Nat /\ pc' \in {"resolver", "verify"}
    BY <1>7, <2>1, BuiltStep DEF Ready, Entry
  <2> QED
    BY <1>7, <1>fixed, <1>same, <2>1, <2>2 DEF Ready, TypeOK, requestVars, Entry
<1>8. CASE NotReady
  <2>1. session' \in [Instances -> {"none", "open", "closed"}]
        /\ buffer' \in [Instances -> {"none", "open", "closed"}]
    BY <1>8, <1>closed DEF NotReady
  <2> QED
    BY <1>8, <1>fixed, <1>same, <2>1 DEF NotReady, End, TypeOK, buildVars, requestVars
<1>9. CASE NewResolver
  <2>1. (\E why : Fail(why))
        \/ (pc' = "serve" /\ listener' = "starting" /\ UNCHANGED <<session, buffer>>)
    BY <1>9 DEF NewResolver
  <2>2. UNCHANGED <<cfg, buildVars, signalled, requestVars>>
    BY <1>9 DEF NewResolver
  <2> QED
    BY <1>fixed, <1>same, <1>fail, <2>1, <2>2 DEF TypeOK, buildVars, requestVars
<1>10. CASE ShutDown \/ CloseGateways \/ CloseBuffers \/ CloseListener
  BY <1>10, <1>fixed, <1>same, <1>closed
  DEF ShutDown, CloseGateways, CloseBuffers, CloseListener, TypeOK, buildVars, requestVars
<1>11. CASE Signal \/ Listen \/ ListenerFails
  <2>1. /\ UNCHANGED <<cfg, pc, buildVars, session, buffer, requestVars>>
    BY <1>11, Zenon DEF Signal, Listen, ListenerFails
  <2>2. signalled' = TRUE \/ signalled' = signalled
    BY <1>11, Zenon DEF Signal, Listen, ListenerFails
  <2>3. signalled' \in BOOLEAN
    BY <2>2 DEF TypeOK
  <2>4. listener' \in {"none", "starting", "listening", "failed", "closed"}
    <3>1. listener' = listener \/ listener' \in {"listening", "failed"}
      BY <1>11 DEF Signal, Listen, ListenerFails
    <3> QED
      BY <3>1 DEF TypeOK
  <2> QED
    BY <2>1, <2>3, <2>4, <1>fixed, <1>same DEF TypeOK, buildVars, requestVars
<1>12. ASSUME NEW r \in Requests, Finish(r) \/ Woken(r) PROVE TypeOK'
  BY <1>12, <1>fixed, <1>same DEF Finish, Woken, Answer, TypeOK, buildVars
<1>13. ASSUME NEW r \in Requests, NEW q \in Queries, ServeHTTP(r, q) PROVE TypeOK'
  <2>1. PICK reply \in Replies(q) : got' = [got EXCEPT ![r] = reply]
    BY <1>13 DEF ServeHTTP
  <2>2. got' \in [Requests -> Reply]
    BY <1>typed, <2>1, ReplyType DEF Reply
  <2>3. stage' \in [Requests -> {"idle", "call", "wait", "answered"}]
    <3>1. PICK rep \in Replies(q) : \E t \in Serving(rep) : stage' = [stage EXCEPT ![r] = t]
      BY <1>13 DEF ServeHTTP
    <3>2. Serving(rep) \subseteq {"answered", "call", "wait"}
      BY DEF Serving
    <3>3. PICK t \in Serving(rep) : stage' = [stage EXCEPT ![r] = t]
      BY <3>1
    <3> QED
      BY <3>2, <3>3 DEF TypeOK
  <2>4. UNCHANGED <<cfg, pc, buildVars, session, buffer, signalled, listener>>
    BY <1>13 DEF ServeHTTP
  <2> QED
    BY <1>fixed, <1>same, <2>2, <2>3, <2>4 DEF TypeOK, buildVars, Reply
<1>14. CASE UNCHANGED vars
  BY <1>14, <1>same DEF TypeOK, vars, fixedVars, buildVars, requestVars
<1> QED
  BY <1>1, <1>2, <1>3, <1>4, <1>5, <1>6, <1>7, <1>8, <1>9, <1>10, <1>11, <1>12, <1>13, <1>14
  DEF Next, Run, Build, Stop

(* Every step keeps what is in place where. *)
LEMMA PlaceStep == TypeOK /\ PlaceInv /\ [Next]_vars => PlaceInv'
<1> SUFFICES ASSUME TypeOK, PlaceInv, [Next]_vars PROVE PlaceInv'
  OBVIOUS
<1>same. Instances' = Instances
  BY FixedStep DEF Instances
<1>end. ASSUME NEW why, End(why) PROVE PlaceInv'
  BY <1>end DEF End, PlaceInv, Building, Early
<1>1. CASE Load
  <2>1. pc = "load" /\ cfg' = Parse(file) /\ UNCHANGED <<buildVars, requestVars>>
    BY <1>1 DEF Load
  <2>2. (\E why : End(why))
        \/ (cfg' # {} /\ listener' = listener
             /\ (pc' = "resolver" \/ (file.instances # <<>> /\ pc' = "verify")))
    BY <1>1 DEF Load
  <2>3. file.instances # <<>> => 1 \in Instances
    BY FileType DEF TypeOK, Document
  <2> QED
    BY <1>same, <1>end, <2>1, <2>2, <2>3 DEF PlaceInv, Building, Early, buildVars, requestVars
<1>2. CASE VerifyFails \/ FlagsUnknown \/ OpenFails \/ ServeFails \/ Drained \/ DrainTimeout
  <2>1. \E why : End(why)
    BY <1>2 DEF VerifyFails, FlagsUnknown, OpenFails, ServeFails, Drained, DrainTimeout, Fail
  <2> QED
    BY <1>end, <2>1
<1>3. CASE BuildWebhook \/ BuildBot
  <2>1. pc \in Building /\ \E cap \in {"bot", "webhook"} : Built(cap)
    BY <1>3 DEF BuildWebhook, BuildBot, Verified, Building
  <2>2. pc' = "resolver" \/ (pc' = "verify" /\ next' \in Instances)
    BY <2>1, BuiltStep
  <2>3. UNCHANGED <<cfg, gateways, buffers, listener, requestVars>>
    BY <1>3 DEF BuildWebhook, BuildBot
  <2> QED
    BY <1>same, <2>1, <2>2, <2>3 DEF PlaceInv, Building, Early, requestVars
<1>4. CASE NewBuffer
  <2>1. pc = "verify" /\ buffers' = buffers \cup {next} /\ UNCHANGED <<cfg, listener, requestVars>>
    BY <1>4 DEF NewBuffer, Verified
  <2>2. CASE Built("bot+events")
    <3>1. pc' = "resolver" \/ (pc' = "verify" /\ next' \in Instances)
      BY <2>1, <2>2, BuiltStep DEF Building
    <3> QED
      BY <1>same, <2>1, <3>1 DEF PlaceInv, Building, Early, requestVars
  <2>3. CASE pc' = "intents" /\ UNCHANGED <<next, entries>>
    BY <1>same, <2>1, <2>3 DEF PlaceInv, Building, Early, requestVars
  <2> QED
    BY <1>4, <2>2, <2>3 DEF NewBuffer
<1>5. CASE CheckPrivilegedIntents
  <2>1. pc = "intents" /\ UNCHANGED <<cfg, buildVars, requestVars>>
    BY <1>5 DEF CheckPrivilegedIntents
  <2>2. (\E why : End(why)) \/ (pc' = "open" /\ UNCHANGED listener)
    BY <1>5 DEF CheckPrivilegedIntents, Fail
  <2> QED
    BY <1>same, <1>end, <2>1, <2>2 DEF PlaceInv, Building, Early, buildVars, requestVars
<1>6. CASE Open
  BY <1>6, <1>same DEF Open, PlaceInv, Building, Early, buildVars, requestVars
<1>7. CASE Ready
  <2>1. pc = "ready" /\ Built("bot+events") /\ UNCHANGED <<cfg, buffers, listener, requestVars>>
    BY <1>7 DEF Ready
  <2>2. pc' = "resolver" \/ (pc' = "verify" /\ next' \in Instances)
    BY <2>1, BuiltStep DEF Building
  <2> QED
    BY <1>same, <2>1, <2>2 DEF PlaceInv, Building, Early, requestVars
<1>8. CASE NotReady
  BY <1>8, <1>end DEF NotReady
<1>9. CASE NewResolver
  <2>1. pc = "resolver" /\ UNCHANGED <<cfg, buildVars, requestVars>>
    BY <1>9 DEF NewResolver
  <2>2. (\E why : End(why)) \/ (pc' = "serve" /\ listener' = "starting")
    BY <1>9 DEF NewResolver, Fail
  <2> QED
    BY <1>same, <1>end, <2>1, <2>2 DEF PlaceInv, Building, Early, buildVars, requestVars
<1>10. CASE ShutDown \/ CloseGateways \/ CloseBuffers \/ CloseListener
  BY <1>10, <1>same
  DEF ShutDown, CloseGateways, CloseBuffers, CloseListener, PlaceInv, Building, Early, buildVars,
      requestVars
<1>11. CASE Signal
  BY <1>11, <1>same DEF Signal, PlaceInv, Building, Early, buildVars, requestVars
<1>12. CASE Listen \/ ListenerFails
  BY <1>12, <1>same DEF Listen, ListenerFails, PlaceInv, Building, Early, buildVars, requestVars
<1>13. ASSUME NEW r \in Requests, Finish(r) \/ Woken(r) PROVE PlaceInv'
  <2>1. stage[r] \in {"call", "wait"} /\ UNCHANGED <<cfg, pc, buildVars, listener>>
    BY <1>13 DEF Finish, Woken, WaitsOn, Answer
  <2>2. pc \notin Early
    BY <2>1 DEF PlaceInv
  <2> QED
    BY <1>same, <2>1, <2>2 DEF PlaceInv, Building, Early, buildVars
<1>14. ASSUME NEW r \in Requests, NEW q \in Queries, ServeHTTP(r, q) PROVE PlaceInv'
  <2>1. listener = "listening" /\ UNCHANGED <<cfg, pc, buildVars, listener>>
    BY <1>14 DEF ServeHTTP, Accepting
  <2>2. pc \notin Early
    BY <2>1 DEF PlaceInv
  <2> QED
    BY <1>same, <2>1, <2>2 DEF PlaceInv, Building, Early, buildVars
<1>15. CASE UNCHANGED vars
  BY <1>15, <1>same DEF PlaceInv, Building, Early, vars, buildVars, requestVars
<1> QED
  BY <1>1, <1>2, <1>3, <1>4, <1>5, <1>6, <1>7, <1>8, <1>9, <1>10, <1>11, <1>12, <1>13, <1>14,
     <1>15
  DEF Next, Run, Build, Stop

(* Every variable keeps its type. *)
THEOREM TypeCorrect == Spec => []TypeOK
<1>1. Init => TypeOK /\ PlaceInv
  BY InitType DEF Init, PlaceInv, Building, Early
<1>2. TypeOK /\ PlaceInv /\ [Next]_vars => TypeOK' /\ PlaceInv'
  BY TypeStep, PlaceStep
<1> QED
  BY <1>1, <1>2, PTL DEF Spec

-----------------------------------------------------------------------------
(* Close closes all it knows. *)
LEMMA CloseCloses ==
    ASSUME TypeOK
    PROVE  /\ \A i \in Instances : ClosedSessions[i] = IF i \in gateways THEN "closed" ELSE session[i]
           /\ \A i \in Instances : ClosedBuffers[i] = IF i \in buffers THEN "closed" ELSE buffer[i]
  BY DEF ClosedSessions, ClosedBuffers

(* Every step keeps the open sessions and buffers known to Close, and run  *)
(* returns with none open.                                                 *)
LEMMA OpenStep == TypeOK /\ PlaceInv /\ OpenInv /\ [Next]_vars => OpenInv'
<1> SUFFICES ASSUME TypeOK, PlaceInv, OpenInv, [Next]_vars PROVE OpenInv'
  OBVIOUS
<1>same. Instances' = Instances
  BY FixedStep DEF Instances
<1>fail. ASSUME NEW why, Fail(why), UNCHANGED buildVars, pc # "ready" PROVE OpenInv'
  BY <1>fail, <1>same, CloseCloses DEF Fail, End, OpenInv, NothingLeftOpen, buildVars
<1>still. ASSUME pc # "ready", pc' \notin {"ready", "end"}, gateways \subseteq gateways',
                 buffers \subseteq buffers', UNCHANGED <<session, buffer>>
          PROVE  OpenInv'
  BY <1>still, <1>same DEF OpenInv, NothingLeftOpen
<1>idle. ASSUME UNCHANGED <<pc, buildVars, session, buffer>> PROVE OpenInv'
  BY <1>idle, <1>same DEF OpenInv, NothingLeftOpen, buildVars
<1>1. CASE Load
  <2>1. pc = "load" /\ UNCHANGED <<buildVars, session, buffer>>
        /\ pc' \in {"end", "resolver", "verify"}
    BY <1>1 DEF Load, End
  <2> QED
    BY <1>same, <2>1 DEF PlaceInv, OpenInv, NothingLeftOpen, buildVars
<1>2. CASE VerifyFails \/ FlagsUnknown \/ OpenFails \/ ServeFails \/ Drained \/ DrainTimeout
  <2>1. (\E why : Fail(why)) /\ UNCHANGED buildVars /\ pc # "ready"
    BY <1>2 DEF VerifyFails, FlagsUnknown, OpenFails, ServeFails, Drained, DrainTimeout
  <2> QED
    BY <1>fail, <2>1
<1>3. CASE BuildWebhook \/ BuildBot
  <2>1. pc = "verify" /\ pc' \in {"resolver", "verify"}
        /\ UNCHANGED <<gateways, buffers, session, buffer>>
    BY <1>3 DEF BuildWebhook, BuildBot, Verified, Built
  <2> QED
    BY <1>still, <2>1
<1>4. CASE NewBuffer
  <2>1. /\ pc = "verify" /\ pc' \in {"intents", "resolver", "verify"}
        /\ buffers' = buffers \cup {next} /\ UNCHANGED <<gateways, session>>
        /\ buffer' = [buffer EXCEPT ![next] = "open"]
    BY <1>4 DEF NewBuffer, Verified, Built
  <2>2. \A i \in Instances : buffer'[i] = "open" => i \in buffers'
    BY <2>1 DEF OpenInv, TypeOK
  <2> QED
    BY <1>same, <2>1, <2>2 DEF OpenInv, NothingLeftOpen
<1>5. CASE CheckPrivilegedIntents
  <2>1. pc = "intents" /\ UNCHANGED buildVars
    BY <1>5 DEF CheckPrivilegedIntents
  <2>2. CASE \E why : Fail(why)
    BY <1>fail, <2>1, <2>2
  <2>3. CASE pc' = "open" /\ UNCHANGED <<session, buffer>>
    BY <1>still, <2>1, <2>3 DEF buildVars
  <2> QED
    BY <1>5, <2>2, <2>3 DEF CheckPrivilegedIntents
<1>6. CASE Open
  BY <1>6, <1>same DEF Open, OpenInv, NothingLeftOpen, TypeOK, buildVars
<1>7. CASE Ready
  BY <1>7, <1>same DEF Ready, Built, OpenInv, NothingLeftOpen
<1>8. CASE NotReady
  <2>1. UNCHANGED buildVars /\ pc' = "end" /\ buffer' = ClosedBuffers
        /\ session' = [ClosedSessions EXCEPT ![next] = "closed"]
    BY <1>8 DEF NotReady, End
  <2>2. \A i \in Instances : session'[i] # "open"
    BY <2>1, CloseCloses DEF OpenInv, ClosedSessions
  <2> QED
    BY <1>same, <2>1, <2>2, CloseCloses DEF OpenInv, NothingLeftOpen, buildVars
<1>9. CASE NewResolver
  <2>1. pc = "resolver" /\ UNCHANGED buildVars
    BY <1>9 DEF NewResolver
  <2>2. CASE \E why : Fail(why)
    BY <1>fail, <2>1, <2>2
  <2>3. CASE pc' = "serve" /\ UNCHANGED <<session, buffer>>
    BY <1>still, <2>1, <2>3 DEF buildVars
  <2> QED
    BY <1>9, <2>2, <2>3 DEF NewResolver
<1>10. CASE ShutDown \/ CloseListener
  BY <1>10, <1>still DEF ShutDown, CloseListener, buildVars
<1>11. CASE CloseGateways \/ CloseBuffers
  BY <1>11, <1>same, CloseCloses DEF CloseGateways, CloseBuffers, OpenInv, NothingLeftOpen, buildVars
<1>12. CASE Signal \/ Listen \/ ListenerFails
  BY <1>12, <1>idle DEF Signal, Listen, ListenerFails
<1>13. ASSUME NEW r \in Requests, Finish(r) \/ Woken(r) \/ \E q \in Queries : ServeHTTP(r, q)
       PROVE  OpenInv'
  BY <1>13, <1>idle DEF Finish, Woken, Answer, ServeHTTP
<1>14. CASE UNCHANGED vars
  BY <1>14, <1>idle DEF vars
<1> QED
  BY <1>1, <1>2, <1>3, <1>4, <1>5, <1>6, <1>7, <1>8, <1>9, <1>10, <1>11, <1>12, <1>13, <1>14
  DEF Next, Run, Build, Stop
-----------------------------------------------------------------------------
(* Every step keeps the waits on buffers that are closed before the drain,  *)
(* and the process ends with none under way.                               *)
LEMMA DrainStep == TypeOK /\ PlaceInv /\ DrainInv /\ [Next]_vars => DrainInv'
<1> SUFFICES ASSUME TypeOK, PlaceInv, DrainInv, [Next]_vars PROVE DrainInv'
  OBVIOUS
<1>same. Instances' = Instances
  BY FixedStep DEF Instances
<1>early. ASSUME UNCHANGED <<entries, buffers, requestVars>>, pc \in Early, pc' \notin {"shutdown", "drain"}
          PROVE  DrainInv'
  BY <1>early DEF DrainInv, PlaceInv, WaitsAnswered, requestVars
<1>built. ASSUME NEW cap, Built(cap), pc \in Building, UNCHANGED requestVars,
                 buffers \subseteq buffers', cap = "bot+events" => next \in buffers'
          PROVE  DrainInv'
  <2>1. entries' = Append(entries, [tokens |-> inst.tokens, p |-> Principal(cap)])
        /\ pc' \in {"resolver", "verify"}
    BY <1>built DEF Built
  <2>2. Principal(cap).events \subseteq buffers'
    BY <1>built DEF Principal
  <2>3. entries \in Seq([tokens: Seq(STRING), p: Principals])
    BY DEF TypeOK
  <2>4. \A k \in DOMAIN entries' : entries'[k].p.events \subseteq buffers'
    BY <1>built, <2>1, <2>2, <2>3 DEF DrainInv
  <2> QED
    BY <1>built, <2>1, <2>4 DEF DrainInv, WaitsAnswered, requestVars
<1>1. CASE Load
  <2>1. pc = "load" /\ UNCHANGED <<buildVars, requestVars>> /\ pc' \notin {"shutdown", "drain"}
    BY <1>1 DEF Load, End
  <2> QED
    BY <1>early, <2>1 DEF Early, buildVars
<1>2. CASE VerifyFails \/ FlagsUnknown \/ OpenFails
  <2>1. pc \in Early /\ UNCHANGED <<buildVars, requestVars>> /\ pc' \notin {"shutdown", "drain"}
    BY <1>2 DEF VerifyFails, FlagsUnknown, OpenFails, Fail, End, Early, Building
  <2> QED
    BY <1>early, <2>1 DEF buildVars
<1>3. CASE BuildWebhook \/ BuildBot
  <2>1. pc \in Building /\ (\E cap \in {"bot", "webhook"} : Built(cap))
        /\ UNCHANGED <<buffers, requestVars>>
    BY <1>3 DEF BuildWebhook, BuildBot, Verified, Building
  <2> QED
    BY <1>built, <2>1
<1>4. CASE NewBuffer
  <2>1. pc = "verify" /\ buffers' = buffers \cup {next} /\ UNCHANGED requestVars
    BY <1>4 DEF NewBuffer, Verified
  <2>2. CASE Built("bot+events")
    BY <1>built, <2>1, <2>2 DEF Building
  <2>3. CASE pc' = "intents" /\ UNCHANGED <<next, entries>>
    BY <2>1, <2>3 DEF DrainInv, WaitsAnswered, requestVars
  <2> QED
    BY <1>4, <2>2, <2>3 DEF NewBuffer
<1>5. CASE CheckPrivilegedIntents
  <2>1. pc \in Early /\ UNCHANGED <<buildVars, requestVars>> /\ pc' \notin {"shutdown", "drain"}
    BY <1>5 DEF CheckPrivilegedIntents, Fail, End, Early, Building
  <2> QED
    BY <1>early, <2>1 DEF buildVars
<1>6. CASE Open \/ NotReady
  <2>1. pc \in Early /\ UNCHANGED <<buildVars, requestVars>> /\ pc' \notin {"shutdown", "drain"}
    BY <1>6 DEF Open, NotReady, End, Early, Building, buildVars
  <2> QED
    BY <1>early, <2>1 DEF buildVars
<1>7. CASE Ready
  <2>1. pc = "ready" /\ Built("bot+events") /\ UNCHANGED <<buffers, requestVars>>
    BY <1>7 DEF Ready
  <2>2. next \in buffers
    BY <2>1 DEF PlaceInv
  <2> QED
    BY <1>built, <2>1, <2>2 DEF Building
<1>8. CASE NewResolver
  <2>1. pc \in Early /\ UNCHANGED <<buildVars, requestVars>> /\ pc' \notin {"shutdown", "drain"}
    BY <1>8 DEF NewResolver, Fail, End, Early, Building
  <2> QED
    BY <1>early, <2>1 DEF buildVars
<1>9. CASE ServeFails
  <2>1. UNCHANGED <<buildVars, requestVars>> /\ pc' = "end" /\ failure' = "listen"
    BY <1>9 DEF ServeFails, Fail, End
  <2> QED
    BY <2>1 DEF DrainInv, WaitsAnswered, buildVars, requestVars
<1>10. CASE ShutDown \/ CloseGateways
  <2>1. UNCHANGED <<buildVars, requestVars>> /\ pc' \in {"close", "buffers"}
    BY <1>10 DEF ShutDown, CloseGateways, buildVars
  <2> QED
    BY <2>1 DEF DrainInv, WaitsAnswered, buildVars, requestVars
<1>11. CASE CloseBuffers
  <2>1. UNCHANGED <<buildVars, requestVars>> /\ pc' = "shutdown" /\ buffer' = ClosedBuffers
    BY <1>11 DEF CloseBuffers
  <2>2. \A i \in buffers' : buffer'[i] = "closed"
    BY <2>1, CloseCloses DEF TypeOK, buildVars
  <2> QED
    BY <2>1, <2>2 DEF DrainInv, WaitsAnswered, buildVars, requestVars
<1>listener. CASE CloseListener
  <2>1. /\ UNCHANGED <<buildVars, buffer, requestVars, failure>>
        /\ pc = "shutdown" /\ pc' = "drain"
    BY <1>listener DEF CloseListener
  <2> QED
    BY <2>1 DEF DrainInv, WaitsAnswered, buildVars, requestVars
<1>12. CASE Drained \/ DrainTimeout
  <2>1. UNCHANGED <<buildVars, requestVars>> /\ pc = "drain" /\ pc' = "end"
    BY <1>12 DEF Drained, DrainTimeout, Fail, End
  <2>2. \A r \in Requests : stage[r] # "wait"
    <3>1. \A r \in Requests : stage[r] = "wait" => WaitsOn(r, "closed")
      BY <2>1 DEF DrainInv, WaitsOn
    <3> QED
      BY <1>12, <3>1 DEF Drained, DrainTimeout, InFlight
  <2> QED
    BY <2>1, <2>2 DEF DrainInv, WaitsAnswered, buildVars, requestVars
<1>13. CASE Signal \/ Listen \/ ListenerFails
  <2>1. UNCHANGED <<pc, buildVars, buffer, requestVars, failure>>
    BY <1>13 DEF Signal, Listen, ListenerFails
  <2> QED
    BY <2>1 DEF DrainInv, WaitsAnswered, buildVars, requestVars
<1>14. ASSUME NEW r \in Requests, Finish(r) \/ Woken(r) PROVE DrainInv'
  <2>1. pc # "end" /\ UNCHANGED <<pc, buildVars, buffer, got>>
    BY <1>14 DEF Finish, Woken, Answer
  <2> QED
    BY <2>1 DEF DrainInv, WaitsAnswered, buildVars
<1>15. ASSUME NEW r \in Requests, NEW q \in Queries, ServeHTTP(r, q) PROVE DrainInv'
  <2>1. listener = "listening" /\ UNCHANGED <<pc, buildVars, buffer>>
    BY <1>15 DEF ServeHTTP, Accepting
  <2>2. pc \notin {"drain", "end"}
    BY <2>1 DEF PlaceInv
  <2>3. PICK reply \in Replies(q) : got' = [got EXCEPT ![r] = reply]
    BY <1>15 DEF ServeHTTP
  <2>4. \A p \in reply.by : p.events \subseteq buffers
    BY ReplyType DEF DrainInv
  <2>5. \A s \in Requests : \A p \in got'[s].by : p.events \subseteq buffers
    BY <2>3, <2>4 DEF DrainInv, TypeOK
  <2> QED
    BY <2>1, <2>2, <2>5 DEF DrainInv, WaitsAnswered, buildVars
<1>16. CASE UNCHANGED vars
  BY <1>16 DEF DrainInv, WaitsAnswered, vars, buildVars, requestVars
<1> QED
  BY <1>1, <1>2, <1>3, <1>4, <1>5, <1>6, <1>7, <1>8, <1>9, <1>10, <1>11, <1>12, <1>13, <1>14,
     <1>15, <1>16, <1>listener
  DEF Next, Run, Build, Stop

(* The invariant is one. *)
LEMMA Inductive == Spec => []IInv
<1>1. Init => IInv
  <2>1. Init => PlaceInv /\ OpenInv
    BY DEF Init, PlaceInv, OpenInv, NothingLeftOpen, Building, Early
  <2>2. Init => DrainInv
    BY DEF Init, DrainInv, WaitsAnswered, Unasked
  <2> QED
    BY <2>1, <2>2, InitType DEF IInv
<1>2. IInv /\ [Next]_vars => IInv'
  BY TypeStep, PlaceStep, OpenStep, DrainStep DEF IInv
<1> QED
  BY <1>1, <1>2, PTL DEF Spec

(* "On error, anything already started is closed" (app.go:50), and run     *)
(* closes the buffers before it drains (main.go:80): however run returns,  *)
(* no session and no buffer stays open, and no wait is cut off.            *)
THEOREM EndsCleanly == Spec => []EndsClean
<1>1. IInv => EndsClean
  BY DEF IInv, OpenInv, DrainInv, EndsClean
<1> QED
  BY <1>1, Inductive, PTL
-----------------------------------------------------------------------------
(* The instances built so far are those of the file, in its order. *)
EntryInv ==
    /\ Len(entries) <= Len(file.instances)
    /\ \A k \in DOMAIN entries : /\ entries[k].tokens = file.instances[k].tokens
                                 /\ entries[k].p = ConfiguredPrincipal(k)
    /\ pc \in Building => Len(entries) = next - 1
    /\ pc \notin Building \cup {"load", "end"} => Len(entries) = Len(file.instances)

(* Every intent of instance i is allowed. *)
AllAllowed(i) == \A b \in c.instances[i].bot : \A e \in b.events : Allowed(e.intents)

(* Buffers are of instances with events, and sessions of those that may    *)
(* have what they ask for.                                                 *)
EventsInv ==
    /\ \A i \in buffers : cfg # {} /\ \E b \in c.instances[i].bot : b.events # {}
    /\ \A i \in gateways : session[i] # "none"
    /\ \A i \in Instances : session[i] # "none" => AllAllowed(i)
    /\ pc \in {"open", "ready"} => AllAllowed(next)
    /\ pc = "ready" => session[next] # "none"
    /\ pc = "load" => \A i \in Instances : session[i] = "none"
    /\ failure # "resolver"

(* The bot of an instance is the one there is, and so is its feed. *)
LEMMA TheBot ==
    ASSUME TypeOK, cfg # {}, NEW i \in Instances
    PROVE  /\ \A b \in c.instances[i].bot :
                 /\ c.instances[i].bot = {b}
                 /\ \A e \in b.events : b.events = {e} /\ e.size # {}
           /\ (\E b \in c.instances[i].bot : b.events # {})
                 <=> \E b \in file.instances[i].bot : b.events # {}
           /\ ValidInstance(c.instances[i])
<1> DEFINE bots == file.instances[i].bot
<1>1. c.instances[i].bot = {DefaultBot(b) : b \in bots}
  BY InstanceType
<1>2. bots \subseteq BotDoc /\ \A b, d \in bots : b = d
  <2>1. file \in Document /\ AtMostOne(bots)
    BY FilesAssumption DEF TypeOK, Instances
  <2>2. file.instances[i] \in InstanceDoc
    BY <2>1 DEF Document, Instances
  <2> QED
    BY <2>1, <2>2 DEF InstanceDoc, AtMostOne
<1>3. \A b \in bots : /\ \A e \in b.events : b.events = {e}
                      /\ DefaultBot(b).events = {DefaultEvents(e) : e \in b.events}
  BY <1>2, FilesAssumption DEF TypeOK, Document, Instances, AtMostOne, DefaultBot, BotDoc
<1>4. \A b \in bots : \A e \in b.events : DefaultEvents(e).size # {}
  BY <1>2 DEF DefaultEvents, BotDoc, EventsDoc
<1>5. ValidInstance(c.instances[i])
  BY Loaded DEF Valid
<1> HIDE DEF bots
<1>6. \A b \in c.instances[i].bot : c.instances[i].bot = {b}
  BY <1>1, <1>2
<1>7. \A b \in c.instances[i].bot : \A e \in b.events : b.events = {e} /\ e.size # {}
  BY <1>1, <1>3, <1>4
<1>8. (\E b \in c.instances[i].bot : b.events # {}) <=> \E b \in bots : b.events # {}
  <2>1. \A b \in bots : DefaultBot(b).events # {} <=> b.events # {}
    BY <1>3
  <2>2. \A d : d \in c.instances[i].bot <=> \E b \in bots : d = DefaultBot(b)
    BY <1>1, Zenon
  <2> QED
    BY <2>1, <2>2, Zenon
<1>9. (\E b \in c.instances[i].bot : b.events # {})
         <=> \E b \in file.instances[i].bot : b.events # {}
  BY <1>8 DEF bots
<1> QED
  BY <1>5, <1>6, <1>7, <1>9, Zenon
(* The intents that CheckPrivilegedIntents lets pass are allowed.          *)
LEMMA NoneMissing ==
    ASSUME NEW mask
    PROVE  /\ mask \cap Privileged = {} => Allowed(mask)
           /\ MissingPrivileged(mask, flags) = {} => Allowed(mask)
  BY DEF Allowed, MissingPrivileged

(* The tokens of a config that was loaded have one owner each. *)
LEMMA LoadedIndexed ==
    ASSUME TypeOK, cfg # {}, EntryInv, Len(entries) = Len(file.instances)
    PROVE  Indexed
<1>1. DOMAIN entries = Instances
  BY FileType DEF TypeOK
<1>2. \A k \in Instances : entries[k].tokens = c.instances[k].tokens
  BY <1>1, InstanceType DEF EntryInv
<1>3. DOMAIN c.instances = Instances /\ DistinctTokens(c)
  BY Loaded DEF Valid
<1>4. \A k \in Instances : \A j \in DOMAIN c.instances[k].tokens : c.instances[k].tokens[j] # ""
  BY TheBot DEF ValidInstance
<1> DEFINE at == UNION {{k} \X DOMAIN entries[k].tokens : k \in DOMAIN entries}
<1>5. at = Places(c)
  BY <1>1, <1>2, <1>3 DEF Places
<1>6. \A p \in at : p[1] \in Instances /\ p[2] \in DOMAIN c.instances[p[1]].tokens
  <2> SUFFICES ASSUME NEW p \in at
               PROVE  p[1] \in Instances /\ p[2] \in DOMAIN c.instances[p[1]].tokens
    OBVIOUS
  <2>1. PICK k \in Instances : p \in {k} \X DOMAIN c.instances[k].tokens
    BY <1>1, <1>2
  <2> QED
    BY <2>1
<1>7. \A p \in at : entries[p[1]].tokens[p[2]] = TokenAt(c, p)
  BY <1>2, <1>6 DEF TokenAt
<1> HIDE DEF at
<1>8. \A p, q \in at : /\ entries[p[1]].tokens[p[2]] # ""
                       /\ p # q => entries[p[1]].tokens[p[2]] # entries[q[1]].tokens[q[2]]
  <2>1. \A p \in at : TokenAt(c, p) # ""
    BY <1>4, <1>6 DEF TokenAt
  <2>2. \A p, q \in at : p # q => TokenAt(c, p) # TokenAt(c, q)
    BY <1>3, <1>5 DEF DistinctTokens
  <2> QED
    BY <1>7, <2>1, <2>2
<1> QED
  BY <1>8, Zenon DEF Indexed, at

(* What the instance under way is by the file. *)
LEMMA Capability ==
    ASSUME TypeOK, PlaceInv, pc \in Building
    PROVE  /\ inst.webhook # {} => Configured(next) = "webhook"
           /\ inst.webhook = {} /\ bot.events = {} => Configured(next) = "bot"
           /\ inst.webhook = {} /\ bot.events # {} => Configured(next) = "bot+events"
           /\ inst.webhook = {} => inst.bot = {bot}
           /\ \A e \in bot.events : e = ev
<1>1. next \in Instances /\ cfg # {}
  BY DEF PlaceInv, Building
<1>2. inst.webhook = file.instances[next].webhook
  BY <1>1, InstanceType DEF inst
<1>3. inst.webhook = {} => inst.bot = {bot}
  <2>1. ValidInstance(inst)
    BY <1>1, TheBot DEF inst
  <2>2. inst.webhook = {} => inst.bot # {}
    BY <2>1 DEF ValidInstance
  <2>3. inst.bot # {} => bot \in inst.bot
    BY DEF bot
  <2> QED
    BY <1>1, <2>2, <2>3, TheBot DEF inst
<1> QED
  BY <1>1, <1>2, <1>3, TheBot DEF inst, Configured, ev
(* An instance that has a buffer is a bot with events. *)
LEMMA FeedConfigured ==
    ASSUME TypeOK, PlaceInv, EventsInv, pc \in {"intents", "open", "ready"}
    PROVE  Configured(next) = "bot+events" /\ inst.bot = {bot} /\ bot.events = {ev}
<1>1. next \in Instances /\ cfg # {} /\ next \in buffers
  BY DEF PlaceInv, Building
<1>2. \E b \in inst.bot : b.events # {}
  BY <1>1 DEF EventsInv, inst
<1>3. inst.webhook = {}
  BY <1>1, <1>2, TheBot DEF inst, ValidInstance
<1>4. inst.bot = {bot} /\ bot.events # {} /\ Configured(next) = "bot+events"
  BY <1>2, <1>3, Capability DEF Building
<1>5. ev \in bot.events
  BY <1>4 DEF ev
<1> QED
  BY <1>4, <1>5, Capability, <1>3 DEF Building

(* Every step keeps the entries those of the file. *)
LEMMA EntryStep == TypeOK /\ PlaceInv /\ EntryInv /\ EventsInv /\ [Next]_vars => EntryInv'
<1> SUFFICES ASSUME TypeOK, PlaceInv, EntryInv, EventsInv, [Next]_vars PROVE EntryInv'
  OBVIOUS
<1>same. /\ file' = file /\ \A k : ConfiguredPrincipal(k)' = ConfiguredPrincipal(k)
  BY FixedStep DEF ConfiguredPrincipal, Configured
<1>len. Len(entries) \in Nat /\ Len(file.instances) \in Nat /\ Instances = 1 .. Len(file.instances)
        /\ DOMAIN entries = 1 .. Len(entries)
  BY FileType DEF TypeOK
<1>kept. ASSUME UNCHANGED <<entries, next>>,
                \/ pc' = "end" \/ pc' = pc
                \/ pc \in Building /\ pc' \in Building
                \/ pc \notin Building \cup {"load", "end"} /\ pc' \notin Building \cup {"load", "end"}
         PROVE  EntryInv'
  BY <1>kept, <1>same DEF EntryInv, Building
<1>built. ASSUME NEW cap \in {"bot", "bot+events", "webhook"}, Built(cap), pc \in Building,
                 cap = Configured(next)
          PROVE  EntryInv'
  <2>1. /\ entries' = Append(entries, [tokens |-> file.instances[next].tokens, p |-> Principal(cap)])
        /\ next' = next + 1
        /\ \/ pc' = "resolver" /\ next = Len(file.instances)
           \/ pc' = "verify" /\ next' \in Instances
    BY <1>built, BuiltStep
  <2>2. Principal(cap) = ConfiguredPrincipal(next)
    BY <1>built DEF Principal, ConfiguredPrincipal
  <2>3. Len(entries) = next - 1 /\ next \in Instances
    BY <1>built DEF EntryInv, PlaceInv, Building
  <2>4. Len(entries') = next /\ DOMAIN entries' = 1 .. next
    BY <1>len, <2>1, <2>3 DEF TypeOK
  <2>5. entries'[next] = [tokens |-> file.instances[next].tokens, p |-> Principal(cap)]
    BY <1>len, <2>1, <2>3 DEF TypeOK
  <2>6. \A k \in 1 .. next : k # next => k \in DOMAIN entries /\ entries'[k] = entries[k]
    BY <1>len, <2>1, <2>3 DEF TypeOK
  <2>7. \A k \in DOMAIN entries' : /\ entries'[k].tokens = file.instances[k].tokens
                                   /\ entries'[k].p = ConfiguredPrincipal(k)
    <3> SUFFICES ASSUME NEW k \in 1 .. next
                 PROVE  /\ entries'[k].tokens = file.instances[k].tokens
                        /\ entries'[k].p = ConfiguredPrincipal(k)
      BY <2>4
    <3>1. CASE k = next
      BY <2>2, <2>5, <3>1
    <3>2. CASE k # next
      BY <2>6, <3>2 DEF EntryInv
    <3> QED
      BY <3>1, <3>2
  <2> QED
    BY <1>same, <1>len, <2>1, <2>3, <2>4, <2>7 DEF EntryInv, Building
<1>1. CASE Load
  <2>1. pc = "load" /\ UNCHANGED <<entries, next>>
    BY <1>1 DEF Load, buildVars
  <2>2. \/ pc' = "end" \/ pc' = "verify"
        \/ pc' = "resolver" /\ file.instances = <<>>
    BY <1>1 DEF Load, End
  <2> QED
    BY <1>same, <2>1, <2>2 DEF EntryInv, PlaceInv, Building
<1>2. CASE VerifyFails \/ FlagsUnknown \/ OpenFails \/ NotReady \/ ServeFails \/ Drained \/ DrainTimeout
  <2>1. UNCHANGED <<entries, next>> /\ pc' = "end"
    BY <1>2 DEF VerifyFails, FlagsUnknown, OpenFails, NotReady, ServeFails, Drained, DrainTimeout,
                Fail, End, buildVars
  <2> QED
    BY <1>kept, <2>1
<1>3. CASE BuildWebhook
  BY <1>3, <1>built, Capability DEF BuildWebhook, Verified, Building
<1>4. CASE BuildBot
  BY <1>4, <1>built, Capability DEF BuildBot, Verified, Building
<1>5. CASE NewBuffer
  <2>1. pc = "verify" /\ Configured(next) = "bot+events"
    BY <1>5, Capability DEF NewBuffer, Verified, Building
  <2>2. CASE Built("bot+events")
    BY <1>built, <2>1, <2>2 DEF Building
  <2>3. CASE pc' = "intents" /\ UNCHANGED <<next, entries>>
    BY <1>kept, <2>1, <2>3 DEF Building
  <2> QED
    BY <1>5, <2>2, <2>3 DEF NewBuffer
<1>6. CASE CheckPrivilegedIntents \/ Open
  <2>1. pc \in Building /\ UNCHANGED <<entries, next>> /\ pc' \in {"end", "open", "ready"}
    BY <1>6 DEF CheckPrivilegedIntents, Open, Fail, End, Building, buildVars
  <2> QED
    BY <1>kept, <2>1 DEF Building
<1>7. CASE Ready
  <2>1. pc = "ready" /\ Built("bot+events")
    BY <1>7 DEF Ready
  <2>2. Configured(next) = "bot+events"
    BY <2>1, FeedConfigured
  <2> QED
    BY <1>built, <2>1, <2>2 DEF Building
<1>8. CASE NewResolver \/ ShutDown \/ CloseGateways \/ CloseBuffers \/ CloseListener
  <2>1. /\ pc \in {"resolver", "serve", "close", "buffers", "shutdown"}
        /\ UNCHANGED <<entries, next>>
        /\ pc' \in {"end", "serve", "close", "buffers", "shutdown", "drain"}
    BY <1>8 DEF NewResolver, ShutDown, CloseGateways, CloseBuffers, CloseListener, Fail, End,
                buildVars
  <2> QED
    BY <1>kept, <2>1 DEF Building
<1>9. CASE Signal \/ Listen \/ ListenerFails
  BY <1>9, <1>kept DEF Signal, Listen, ListenerFails, buildVars
<1>10. ASSUME NEW r \in Requests, Finish(r) \/ Woken(r) \/ \E q \in Queries : ServeHTTP(r, q)
       PROVE  EntryInv'
  BY <1>10, <1>kept DEF Finish, Woken, Answer, ServeHTTP, buildVars
<1>11. CASE UNCHANGED vars
  BY <1>11, <1>kept DEF vars, buildVars
<1> QED
  BY <1>1, <1>2, <1>3, <1>4, <1>5, <1>6, <1>7, <1>8, <1>9, <1>10, <1>11 DEF Next, Run, Build, Stop
(* Every step keeps the sessions allowed, and the resolver accepts. *)
LEMMA EventsStep ==
    TypeOK /\ PlaceInv /\ EntryInv /\ EventsInv /\ [Next]_vars => EventsInv'
<1> SUFFICES ASSUME TypeOK, PlaceInv, EntryInv, EventsInv, [Next]_vars PROVE EventsInv'
  OBVIOUS
<1>same. file' = file /\ flags' = flags /\ Instances' = Instances
  BY FixedStep DEF Instances
<1>c. cfg' = cfg => c' = c /\ \A i : AllAllowed(i)' = AllAllowed(i)
  BY <1>same DEF c, AllAllowed, Allowed
<1>sessions. ASSUME cfg' = cfg, UNCHANGED <<gateways, buffers>>, session' = ClosedSessions,
                    pc' \notin {"open", "ready", "load"}, failure' # "resolver"
             PROVE  EventsInv'
  BY <1>sessions, <1>same, <1>c, CloseCloses DEF EventsInv, TypeOK
<1>fail. ASSUME NEW why, Fail(why), why # "resolver", cfg' = cfg, UNCHANGED buildVars
         PROVE  EventsInv'
  BY <1>fail, <1>sessions DEF Fail, End, buildVars
<1>still. ASSUME UNCHANGED <<cfg, gateways, buffers, session, failure>>,
                 \/ pc' \notin {"open", "ready", "load"}
                 \/ pc' = pc /\ next' = next
          PROVE  EventsInv'
  BY <1>still, <1>same, <1>c DEF EventsInv
<1>1. CASE Load
  <2>1. pc = "load" /\ UNCHANGED <<gateways, buffers, session>> /\ pc' \in {"end", "resolver", "verify"}
        /\ failure' \in {failure, "config"}
    BY <1>1 DEF Load, End, buildVars
  <2> QED
    BY <1>same, <2>1 DEF EventsInv, PlaceInv, TypeOK
<1>2. CASE VerifyFails \/ FlagsUnknown \/ OpenFails \/ ServeFails \/ Drained \/ DrainTimeout
  <2>1. (\E why : Fail(why) /\ why # "resolver") /\ cfg' = cfg /\ UNCHANGED buildVars
    BY <1>2 DEF VerifyFails, FlagsUnknown, OpenFails, ServeFails, Drained, DrainTimeout
  <2> QED
    BY <1>fail, <2>1
<1>3. CASE BuildWebhook \/ BuildBot
  <2>1. UNCHANGED <<cfg, gateways, buffers, session, failure>> /\ pc' \in {"resolver", "verify"}
    BY <1>3 DEF BuildWebhook, BuildBot, Built
  <2> QED
    BY <1>still, <2>1
<1>4. CASE NewBuffer
  <2>1. /\ pc = "verify" /\ buffers' = buffers \cup {next}
        /\ UNCHANGED <<cfg, gateways, session, failure>>
        /\ pc' \in {"intents", "resolver", "verify"}
    BY <1>4 DEF NewBuffer, Verified, Built
  <2>2. cfg # {} /\ \E b \in c.instances[next].bot : b.events # {}
    BY <1>4, <2>1, Capability DEF NewBuffer, PlaceInv, Building, inst
  <2> QED
    BY <1>same, <1>c, <2>1, <2>2 DEF EventsInv
<1>5. CASE CheckPrivilegedIntents
  <2>1. pc = "intents" /\ cfg' = cfg /\ UNCHANGED buildVars
    BY <1>5 DEF CheckPrivilegedIntents
  <2>2. CASE Fail("intents")
    BY <1>fail, <2>1, <2>2
  <2>3. CASE ~(AsksFlags /\ MissingPrivileged(ev.intents, flags) # {})
    <3>1. pc' = "open" /\ UNCHANGED <<session, failure>>
      BY <1>5, <2>3 DEF CheckPrivilegedIntents
    <3>2. Allowed(ev.intents)
      BY <2>3, NoneMissing DEF AsksFlags
    <3>3. AllAllowed(next)
      BY <2>1, <3>2, FeedConfigured DEF AllAllowed, inst
    <3> QED
      BY <1>same, <1>c, <2>1, <3>1, <3>3 DEF EventsInv, buildVars
  <2> QED
    BY <1>5, <2>2, <2>3 DEF CheckPrivilegedIntents
<1>6. CASE Open
  BY <1>6, <1>same, <1>c DEF Open, EventsInv, PlaceInv, TypeOK, Building, buildVars
<1>7. CASE Ready
  <2>1. /\ pc = "ready" /\ gateways' = gateways \cup {next}
        /\ UNCHANGED <<cfg, buffers, session, failure>> /\ pc' \in {"resolver", "verify"}
    BY <1>7 DEF Ready, Built
  <2> QED
    BY <1>same, <1>c, <2>1 DEF EventsInv, TypeOK
<1>8. CASE NotReady
  <2>1. /\ pc = "ready" /\ UNCHANGED <<cfg, gateways, buffers>> /\ pc' = "end"
        /\ session' = [ClosedSessions EXCEPT ![next] = "closed"] /\ failure' = "not ready"
    BY <1>8 DEF NotReady, End, buildVars
  <2>2. \A i \in Instances : session'[i] # "none" => AllAllowed(i)
    BY <2>1, CloseCloses DEF EventsInv, ClosedSessions
  <2> QED
    BY <1>same, <1>c, <2>1, <2>2, CloseCloses, ZenonT(30) DEF EventsInv, ClosedSessions, TypeOK
<1>9. CASE NewResolver
  <2>1. Indexed
    BY <1>9, LoadedIndexed DEF NewResolver, EntryInv, PlaceInv, Building
  <2> QED
    BY <1>9, <1>still, <2>1 DEF NewResolver, buildVars
<1>10. CASE ShutDown \/ CloseBuffers \/ CloseListener
  <2>1. /\ UNCHANGED <<cfg, gateways, buffers, session, failure>>
        /\ pc' \in {"close", "shutdown", "drain"}
    BY <1>10 DEF ShutDown, CloseBuffers, CloseListener, buildVars
  <2> QED
    BY <1>still, <2>1
<1>11. CASE CloseGateways
  BY <1>11, <1>sessions DEF CloseGateways, EventsInv, buildVars
<1>12. CASE Signal \/ Listen \/ ListenerFails
  BY <1>12, <1>still DEF Signal, Listen, ListenerFails, buildVars
<1>13. ASSUME NEW r \in Requests, Finish(r) \/ Woken(r) \/ \E q \in Queries : ServeHTTP(r, q)
       PROVE  EventsInv'
  BY <1>13, <1>still DEF Finish, Woken, Answer, ServeHTTP, buildVars
<1>14. CASE UNCHANGED vars
  BY <1>14, <1>still DEF vars, buildVars
<1> QED
  BY <1>1, <1>2, <1>3, <1>4, <1>5, <1>6, <1>7, <1>8, <1>9, <1>10, <1>11, <1>12, <1>13, <1>14
  DEF Next, Run, Build, Stop
(* A file that was accepted is enough for the rest of the run: the resolver *)
(* takes its tokens, its buffers have room, and no session is opened that  *)
(* Discord would not let get ready.                                        *)
THEOREM ConfigIsEnough == Spec => []ConfigSuffices
<1>1. Init => EntryInv /\ EventsInv
  <2> SUFFICES ASSUME Init PROVE EntryInv /\ EventsInv
    OBVIOUS
  <2>1. TypeOK
    BY InitType
  <2> QED
    BY <2>1, FileType DEF Init, EntryInv, EventsInv, TypeOK, Building
<1>2. IInv /\ EntryInv /\ EventsInv /\ [Next]_vars => EntryInv' /\ EventsInv'
  BY EntryStep, EventsStep DEF IInv
<1>3. IInv /\ EventsInv => ConfigSuffices
  <2> SUFFICES ASSUME IInv, EventsInv, NEW i \in buffers
               PROVE  \E b \in c.instances[i].bot : \E e \in b.events :
                          /\ \A n \in e.size : n >= 1
                          /\ e.size # {}
                          /\ session[i] # "none" => Allowed(e.intents)
    BY DEF ConfigSuffices, EventsInv
  <2>1. TypeOK /\ i \in Instances /\ cfg # {}
    BY DEF IInv, TypeOK, EventsInv
  <2>2. PICK b \in c.instances[i].bot : b.events # {}
    BY DEF EventsInv
  <2>3. PICK e \in b.events : TRUE
    BY <2>2
  <2>4. e.size # {} /\ ValidEvents(e)
    BY <2>1, TheBot DEF ValidInstance
  <2> QED
    BY <2>1, <2>4 DEF ValidEvents, EventsInv, AllAllowed
<1> QED
  BY <1>1, <1>2, <1>3, Inductive, PTL DEF Spec

-----------------------------------------------------------------------------
(* What the resolver makes of a credential, once all instances are built.  *)
LEMMA ResolveConfigured ==
    ASSUME TypeOK, EntryInv, cfg # {}, Len(entries) = Len(file.instances),
           NEW cred, NEW p \in Resolve(cred)
    PROVE  /\ Owners(cred) # {} => \E i \in Owners(cred) :
                 Owners(cred) = {i} /\ p = {ConfiguredPrincipal(i)}
           /\ Owners(cred) = {} => \/ p = {}
                                   \/ /\ file.enabled
                                      /\ p \in {{DirectPrincipal("bot")}, {DirectPrincipal("webhook")}}
<1>1. DOMAIN entries = Instances
  BY FileType DEF TypeOK
<1>2. {i \in DOMAIN entries : \E j \in DOMAIN entries[i].tokens : entries[i].tokens[j] = cred}
          = Owners(cred)
  BY <1>1 DEF EntryInv, Owners
<1>3. \A i \in Owners(cred) : entries[i].p = ConfiguredPrincipal(i)
  BY <1>1 DEF EntryInv, Owners
<1>4. \A i, k \in Owners(cred) : i = k
  <2> SUFFICES ASSUME NEW i \in Owners(cred), NEW k \in Owners(cred), i # k PROVE FALSE
    OBVIOUS
  <2>1. PICK j \in DOMAIN file.instances[i].tokens : file.instances[i].tokens[j] = cred
    BY DEF Owners
  <2>2. PICK l \in DOMAIN file.instances[k].tokens : file.instances[k].tokens[l] = cred
    BY DEF Owners
  <2>3. /\ i \in Instances /\ c.instances[i].tokens = file.instances[i].tokens
        /\ k \in Instances /\ c.instances[k].tokens = file.instances[k].tokens
    BY InstanceType DEF Owners
  <2>4. DOMAIN c.instances = Instances /\ DistinctTokens(c)
    BY Loaded DEF Valid
  <2>5. <<i, j>> \in Places(c) /\ <<k, l>> \in Places(c)
    BY <2>3, <2>4 DEF Places
  <2>6. TokenAt(c, <<i, j>>) = TokenAt(c, <<k, l>>)
    BY <2>1, <2>2, <2>3 DEF TokenAt
  <2> QED
    BY <2>4, <2>5, <2>6 DEF DistinctTokens
<1>5. CASE Owners(cred) # {}
  <2>1. PICK i \in Owners(cred) : p = {entries[i].p}
    BY <1>2, <1>5, Zenon DEF Resolve
  <2> QED
    BY <1>3, <1>4, <2>1
<1>6. CASE Owners(cred) = {}
  <2>1. \/ p = {}
        \/ c.enabled /\ p \in {{DirectPrincipal("bot")}, {DirectPrincipal("webhook")}}
    BY <1>2, <1>6 DEF Resolve
  <2> QED
    BY <1>6, <2>1, Loaded
<1> QED
  BY <1>5, <1>6

(* A request is answered as the file has it. *)
LEMMA ServedStep ==
    TypeOK /\ PlaceInv /\ EntryInv /\ ServedAsConfigured /\ [Next]_vars => ServedAsConfigured'
<1> SUFFICES ASSUME TypeOK, PlaceInv, EntryInv, ServedAsConfigured, [Next]_vars
             PROVE  ServedAsConfigured'
  OBVIOUS
<1>fixed. file' = file /\ verify' = verify /\ Instances' = Instances
  BY FixedStep DEF Instances
<1>same. \A q, a : AsConfigured(Owners(Sent(q)), a)' <=> AsConfigured(Owners(Sent(q)), a)
  <2>1. \A cred : Owners(cred)' = Owners(cred)
    BY <1>fixed DEF Owners
  <2>2. \A i : ConfiguredPrincipal(i)' = ConfiguredPrincipal(i)
    BY <1>fixed DEF ConfiguredPrincipal, Configured
  <2>3. \A o, a : AsConfigured(o, a)' <=> AsConfigured(o, a)
    BY <1>fixed, <2>2 DEF AsConfigured
  <2> QED
    BY <2>1, <2>3, Zenon
<1>got. ASSUME got' = got PROVE ServedAsConfigured'
  BY <1>got, <1>same, Zenon DEF ServedAsConfigured
<1>1. ASSUME NEW r \in Requests, NEW q \in Queries, ServeHTTP(r, q) PROVE ServedAsConfigured'
  <2>1. PICK reply \in Replies(q) : got' = [got EXCEPT ![r] = reply]
    BY <1>1 DEF ServeHTTP
  <2>2. listener = "listening"
    BY <1>1 DEF ServeHTTP, Accepting
  <2>3. cfg # {} /\ Len(entries) = Len(file.instances)
    BY <2>2 DEF PlaceInv, EntryInv, Early, Building
  <2>4. got'[r] = reply /\ \A s \in Requests : s # r => got'[s] = got[s]
    BY <2>1 DEF TypeOK
  <2>5. q.path # "/healthz" => reply.query = {q} /\ AsConfigured(Owners(Sent(q)), reply)
    <3> SUFFICES ASSUME q.path # "/healthz" PROVE reply.query = {q} /\ AsConfigured(Owners(Sent(q)), reply)
      OBVIOUS
    <3> DEFINE sent == Credential(q)
    <3>1. PICK p \in Resolve(sent) :
            reply = [status |-> IF p = {} THEN 401 ELSE IF q.path = "/mcp" THEN 200 ELSE 404,
                     query |-> {q}, by |-> p]
      BY DEF Replies
    <3> HIDE DEF sent
    <3>2. /\ Owners(sent) # {} => \E i \in Owners(sent) :
                Owners(sent) = {i} /\ p = {ConfiguredPrincipal(i)}
          /\ Owners(sent) = {} => \/ p = {}
                                  \/ /\ file.enabled
                                     /\ p \in {{DirectPrincipal("bot")}, {DirectPrincipal("webhook")}}
      BY <2>3, ResolveConfigured
    <3>3. reply.query = {q} /\ reply.by = p
      BY <3>1
    <3>4. p = {} <=> reply.status = 401
      <4>1. CASE p = {}
        BY <3>1, <4>1
      <4>2. CASE p # {}
        BY <3>1, <4>2
      <4> QED
        BY <4>1, <4>2
    <3>5. \A i \in Owners(sent) : p = {ConfiguredPrincipal(i)}
      BY <3>2
    <3>6. Owners(sent) = {} => \A pr \in p : /\ file.enabled
                                             /\ pr.instance = {} /\ pr.events = {}
                                             /\ pr.cap # "bot+events"
      BY <3>2 DEF DirectPrincipal
    <3>7. sent = Sent(q)
      BY DEF sent, Credential, Sent
    <3> QED
      BY <3>3, <3>4, <3>5, <3>6, <3>7, Zenon DEF AsConfigured
  <2>6. q.path = "/healthz" => reply.query = {q}
    BY DEF Replies
  <2>7. \A s \in Requests : \A x \in got'[s].query : x.path # "/healthz" => AsConfigured(Owners(Sent(x)), got'[s])
    BY <2>4, <2>5, <2>6 DEF ServedAsConfigured
  <2> QED
    BY <1>same, <2>7, Zenon DEF ServedAsConfigured
<1>2. CASE ~(\E r \in Requests : \E q \in Queries : ServeHTTP(r, q))
  BY <1>2, <1>got
  DEF Next, Run, Load, Build, VerifyFails, BuildWebhook, BuildBot, NewBuffer, FlagsUnknown,
      CheckPrivilegedIntents, OpenFails, Open, Ready, NotReady, NewResolver, Stop, ServeFails,
      ShutDown, CloseGateways, CloseBuffers, CloseListener, Drained, DrainTimeout, Signal,
      Listen, ListenerFails, Finish, Woken, Answer, requestVars, vars
<1> QED
  BY <1>1, <1>2
(* A request runs as the instance whose token it sends, on the server of   *)
(* its capability; a config token is never refused; nobody else gets in    *)
(* unless direct authentication is on, and then reaches no instance.       *)
THEOREM ServedRight == Spec => []ServedAsConfigured
<1>1. Init => EntryInv /\ EventsInv /\ ServedAsConfigured
  <2> SUFFICES ASSUME Init PROVE EntryInv /\ EventsInv /\ ServedAsConfigured
    OBVIOUS
  <2>1. EntryInv /\ EventsInv
    BY InitType, FileType DEF Init, EntryInv, EventsInv, TypeOK, Building
  <2>2. \A r \in Requests : got[r].query = {}
    BY DEF Init, Unasked
  <2> QED
    BY <2>1, <2>2 DEF ServedAsConfigured
<1>2. IInv /\ EntryInv /\ EventsInv /\ ServedAsConfigured /\ [Next]_vars
        => EntryInv' /\ EventsInv' /\ ServedAsConfigured'
  BY EntryStep, EventsStep, ServedStep DEF IInv
<1> QED
  BY <1>1, <1>2, Inductive, PTL DEF Spec
==============================================================================
