--------------------------- MODULE GatewayProofs ---------------------------
(***************************************************************************)
(* Theorems about Gateway, for any guilds, any number of calls at once and *)
(* any number of dispatches: what holds however the calls of handle        *)
(* overlap, then what Gateway leaves out of the buffer and where it puts   *)
(* its markers, in every behaviour and as long as no calls have            *)
(* overlapped.                                                             *)
(***************************************************************************)
EXTENDS Gateway, FiniteSetTheorems, TLAPS

(* The READYs that were read, and what the calls under way stand at.       *)
Readys     == {i \in DOMAIN received : received[i].type = "READY"}
Unread     == {c \in calls : c.pc = "handle" /\ c.d.type = "READY"}
Announcing == {c \in calls : c.pc = "announce"}
Marking    == {c \in calls : c.pc = "mark"}

Finite == IsFiniteSet(calls) /\ IsFiniteSet(dropped) /\ IsFiniteSet(Entries)

(* A dispatch has its place in the stream, and no two calls are for one.   *)
CallInv ==
    /\ \A i \in DOMAIN received : received[i].n = i
    /\ \A c \in calls :
        /\ c.d.n \in DOMAIN received /\ c.d = received[c.d.n]
        /\ c.pc \in {"announce", "mark"} => c.d.type = "READY"
        /\ c.pc = "append" => c.d.type = "GUILD_CREATE"
    /\ \A b, c \in calls : b.d = c.d => b = c

(* readyCount is the READYs that were read, less those handle has not yet  *)
(* taken the lock for.                                                     *)
CountInv ==
    /\ Len(received) <= MaxDispatch
    /\ readyCount + Cardinality(Unread) = Cardinality(Readys)

Basic == TypeOK /\ Finite /\ CallInv /\ CountInv

-----------------------------------------------------------------------------
(* Sets of positions and of calls are finite. *)
LEMMA SetsFinite ==
    ASSUME TypeOK, Finite
    PROVE  /\ IsFiniteSet(Readys) /\ Cardinality(Readys) \in Nat
           /\ Cardinality(Readys) <= Len(received)
           /\ IsFiniteSet(Unread) /\ Cardinality(Unread) \in Nat
           /\ IsFiniteSet(Announcing) /\ Cardinality(Announcing) \in Nat
           /\ IsFiniteSet(Marking) /\ Cardinality(Marking) \in Nat
           /\ IsFiniteSet(Markers) /\ Cardinality(Markers) \in Nat
           /\ Cardinality(Entries) \in Nat /\ Cardinality(dropped) \in Nat
<1>1. Len(received) \in Nat /\ Len(stored) \in Nat
  BY DEF TypeOK
<1>2. IsFiniteSet(1 .. Len(received)) /\ Cardinality(1 .. Len(received)) = Len(received)
  <2>1. 1 \in Int /\ Len(received) \in Int
    BY <1>1
  <2>2. /\ IsFiniteSet(1 .. Len(received))
        /\ Cardinality(1 .. Len(received))
               = IF 1 > Len(received) THEN 0 ELSE Len(received) - 1 + 1
    BY <2>1, FS_Interval, Zenon
  <2> QED  BY <1>1, <2>2
<1>3. Readys \in SUBSET (1 .. Len(received))
  BY DEF TypeOK, Readys
<1>4. IsFiniteSet(Readys) /\ Cardinality(Readys) <= Len(received)
  BY <1>2, <1>3, FS_Subset
<1>5. IsFiniteSet(1 .. Len(stored))
  BY <1>1, FS_Interval
<1>6. Markers \in SUBSET (1 .. Len(stored))
  BY DEF TypeOK, Markers
<1>7. IsFiniteSet(Markers)
  BY <1>5, <1>6, FS_Subset
<1>8. Unread \in SUBSET calls /\ Announcing \in SUBSET calls /\ Marking \in SUBSET calls
  BY DEF Unread, Announcing, Marking
<1>9. IsFiniteSet(Unread) /\ IsFiniteSet(Announcing) /\ IsFiniteSet(Marking)
  BY <1>8, FS_Subset DEF Finite
<1> QED  BY <1>4, <1>7, <1>9, FS_CardinalityType DEF Finite

(* Session counts the READYs. *)
LEMMA SessionCounts == Session = Cardinality(Readys)
  BY DEF Session, Readys

-----------------------------------------------------------------------------
(* What discordgo's reading of dispatch d does to the Gateway. *)
Arrives(d) ==
    /\ d \in Dispatch /\ d.n = Len(received) + 1
    /\ d.session = IF d.type = "READY" THEN Session + 1 ELSE Session
    /\ d.burst => d.type = "GUILD_CREATE"
    /\ Len(received) < MaxDispatch
    /\ received' = Append(received, d)
    /\ calls' = calls \cup {[d |-> d, pc |-> "handle"]}
    /\ inOrder' = (inOrder /\ calls = {})
    /\ UNCHANGED <<open, starting, gateVars, bufferVars, dropped>>

(* How Discord's view of its guilds goes with it. *)
Follows(d) ==
    \/ d.type = "READY" /\ d.guilds = member /\ pending' = member /\ member' = member
    \/ /\ d.type = "GUILD_CREATE" /\ d.burst
       /\ \E g \in pending : d.guilds = {g} /\ pending' = pending \ {g}
       /\ member' = member
    \/ /\ d.type = "GUILD_CREATE" /\ ~d.burst
       /\ \E g \in Guilds \ member : d.guilds = {g} /\ member' = member \cup {g}
       /\ pending' = pending
    \/ /\ d.type \notin {"READY", "GUILD_CREATE"} /\ ~d.burst
       /\ member' \in SUBSET member /\ pending' \in SUBSET (pending \cap member')

Environment ==
    Identify \/ Resume \/ Message \/ \E g \in Guilds : FillIn(g) \/ Leave(g) \/ Join(g)

(* Every step of Discord is the reading of one dispatch. *)
LEMMA Arrival ==
    ASSUME TypeOK, Finite, Environment
    PROVE  \E d \in Dispatch : Arrives(d) /\ Follows(d)
<1>1. Session \in Nat
  BY SetsFinite, SessionCounts
<1>2. ASSUME NEW type \in Types, NEW guilds \in SUBSET Guilds, NEW burst \in BOOLEAN,
             NEW session \in Nat,
             session = IF type = "READY" THEN Session + 1 ELSE Session,
             burst => type = "GUILD_CREATE",
             Receive(type, guilds, session, burst)
      PROVE  LET d == [n |-> Len(received) + 1, type |-> type, guilds |-> guilds,
                       session |-> session, burst |-> burst]
             IN  d \in Dispatch /\ Arrives(d)
  <2> DEFINE d == [n |-> Len(received) + 1, type |-> type, guilds |-> guilds,
                   session |-> session, burst |-> burst]
  <2>1. Len(received) \in Nat /\ Len(received) < MaxDispatch
    BY <1>2 DEF TypeOK, Receive
  <2>2. Len(received) + 1 \in 1 .. MaxDispatch
    BY <2>1, DispatchAssumption
  <2>3. d \in Dispatch
    BY <2>2 DEF Dispatch
  <2>4. /\ d.n = Len(received) + 1 /\ d.burst = burst /\ d.type = type
        /\ d.session = session
    OBVIOUS
  <2>5. /\ received' = Append(received, d)
        /\ calls' = calls \cup {[d |-> d, pc |-> "handle"]}
        /\ inOrder' = (inOrder /\ calls = {})
        /\ UNCHANGED <<open, starting, gateVars, bufferVars, dropped>>
    BY <1>2 DEF Receive
  <2> HIDE DEF d
  <2>6. Arrives(d)
    BY <2>1, <2>3, <2>4, <2>5, <1>2 DEF Arrives
  <2> QED  BY <2>3, <2>6 DEF d
<1>3. CASE Identify
  <2> DEFINE d == [n |-> Len(received) + 1, type |-> "READY", guilds |-> member,
                   session |-> Session + 1, burst |-> FALSE]
  <2>1. Arrives(d) /\ d \in Dispatch
    <3>1. Receive("READY", member, Session + 1, FALSE)
      BY <1>3 DEF Identify
    <3>2. "READY" \in Types /\ member \in SUBSET Guilds /\ Session + 1 \in Nat
      BY <1>1 DEF Types, Lifecycle, TypeOK
    <3> QED  BY <1>2, <3>1, <3>2
  <2>2. Follows(d)
    BY <1>3 DEF Identify, Follows
  <2> QED  BY <2>1, <2>2
<1>4. CASE Resume
  <2> DEFINE d == [n |-> Len(received) + 1, type |-> "RESUMED", guilds |-> {},
                   session |-> Session, burst |-> FALSE]
  <2>1. Arrives(d) /\ d \in Dispatch
    <3>1. Receive("RESUMED", {}, Session, FALSE)
      BY <1>4 DEF Resume
    <3>2. "RESUMED" \in Types /\ {} \in SUBSET Guilds /\ Session \in Nat
      BY <1>1 DEF Types, Lifecycle, TypeOK
    <3> QED  BY <1>2, <3>1, <3>2
  <2>2. Follows(d)
    BY <1>4 DEF Resume, Follows, TypeOK
  <2> QED  BY <2>1, <2>2
<1>5. CASE Message
  <2> DEFINE d == [n |-> Len(received) + 1, type |-> "MESSAGE_CREATE", guilds |-> {},
                   session |-> Session, burst |-> FALSE]
  <2>1. Arrives(d) /\ d \in Dispatch
    <3>1. Receive("MESSAGE_CREATE", {}, Session, FALSE)
      BY <1>5 DEF Message
    <3>2. "MESSAGE_CREATE" \in Types /\ {} \in SUBSET Guilds /\ Session \in Nat
      BY <1>1 DEF Types, Lifecycle, TypeOK
    <3> QED  BY <1>2, <3>1, <3>2
  <2>2. Follows(d)
    BY <1>5 DEF Message, Follows, TypeOK
  <2> QED  BY <2>1, <2>2
<1>6. ASSUME NEW g \in Guilds, FillIn(g)
      PROVE  \E d \in Dispatch : Arrives(d) /\ Follows(d)
  <2> DEFINE d == [n |-> Len(received) + 1, type |-> "GUILD_CREATE", guilds |-> {g},
                   session |-> Session, burst |-> TRUE]
  <2>1. Arrives(d) /\ d \in Dispatch
    <3>1. Receive("GUILD_CREATE", {g}, Session, TRUE)
      BY <1>6 DEF FillIn
    <3>2. "GUILD_CREATE" \in Types /\ {g} \in SUBSET Guilds /\ Session \in Nat
      BY <1>1 DEF Types, Lifecycle, TypeOK
    <3> QED  BY <1>2, <3>1, <3>2
  <2>2. Follows(d)
    BY <1>6 DEF FillIn, Follows
  <2> QED  BY <2>1, <2>2
<1>7. ASSUME NEW g \in Guilds, Leave(g)
      PROVE  \E d \in Dispatch : Arrives(d) /\ Follows(d)
  <2> DEFINE d == [n |-> Len(received) + 1, type |-> "GUILD_DELETE", guilds |-> {g},
                   session |-> Session, burst |-> FALSE]
  <2>1. Arrives(d) /\ d \in Dispatch
    <3>1. Receive("GUILD_DELETE", {g}, Session, FALSE)
      BY <1>7 DEF Leave
    <3>2. "GUILD_DELETE" \in Types /\ {g} \in SUBSET Guilds /\ Session \in Nat
      BY <1>1 DEF Types, Lifecycle, TypeOK
    <3> QED  BY <1>2, <3>1, <3>2
  <2>2. Follows(d)
    BY <1>7 DEF Leave, Follows, TypeOK
  <2> QED  BY <2>1, <2>2
<1>8. ASSUME NEW g \in Guilds, Join(g)
      PROVE  \E d \in Dispatch : Arrives(d) /\ Follows(d)
  <2> DEFINE d == [n |-> Len(received) + 1, type |-> "GUILD_CREATE", guilds |-> {g},
                   session |-> Session, burst |-> FALSE]
  <2>1. Arrives(d) /\ d \in Dispatch
    <3>1. Receive("GUILD_CREATE", {g}, Session, FALSE)
      BY <1>8 DEF Join
    <3>2. "GUILD_CREATE" \in Types /\ {g} \in SUBSET Guilds /\ Session \in Nat
      BY <1>1 DEF Types, Lifecycle, TypeOK
    <3> QED  BY <1>2, <3>1, <3>2
  <2>2. Follows(d)
    BY <1>8 DEF Join, Follows
  <2> QED  BY <2>1, <2>2
<1> QED  BY <1>3, <1>4, <1>5, <1>6, <1>7, <1>8 DEF Environment

-----------------------------------------------------------------------------
(* The call [d, handle] is a new one, and a READY is one more.             *)
LEMMA ArrivalSets ==
    ASSUME Basic, NEW d \in Dispatch, Arrives(d)
    PROVE  LET c == [d |-> d, pc |-> "handle"]
           IN  /\ c \notin calls /\ \A b \in calls : b.d # d
               /\ Readys' = IF d.type = "READY" THEN Readys \cup {d.n} ELSE Readys
               /\ d.n \notin Readys
               /\ Unread' = IF d.type = "READY" THEN Unread \cup {c} ELSE Unread
               /\ Announcing' = Announcing /\ Marking' = Marking
               /\ Entries' = Entries /\ Markers' = Markers
<1> DEFINE c == [d |-> d, pc |-> "handle"]
<1> USE DEF Basic
<1>1. Len(received) \in Nat /\ DOMAIN received = 1 .. Len(received)
  BY DEF TypeOK
<1>2. /\ DOMAIN received' = 1 .. Len(received) + 1
      /\ \A i \in 1 .. Len(received) : received'[i] = received[i]
      /\ received'[Len(received) + 1] = d
  BY <1>1 DEF TypeOK, Arrives
<1>3. \A b \in calls : b.d # d
  BY <1>1 DEF CallInv, Arrives
<1>4. c.d = d /\ c.pc = "handle"
  OBVIOUS
<1>5. calls' = calls \cup {c}
  BY DEF Arrives
<1> HIDE DEF c
<1>6. c \notin calls
  BY <1>3, <1>4
<1>7. d.n \notin Readys
  BY <1>1 DEF Arrives, Readys
<1>8. Readys' = IF d.type = "READY" THEN Readys \cup {d.n} ELSE Readys
  BY <1>1, <1>2 DEF Arrives, Readys
<1>9. Unread' = IF d.type = "READY" THEN Unread \cup {c} ELSE Unread
  BY <1>4, <1>5 DEF Unread
<1>10. Announcing' = Announcing /\ Marking' = Marking
  BY <1>4, <1>5 DEF Announcing, Marking
<1>11. Entries' = Entries /\ Markers' = Markers
  BY DEF Arrives, bufferVars, Entries, Markers
<1> QED  BY <1>3, <1>6, <1>7, <1>8, <1>9, <1>10, <1>11 DEF c

(* A call that ends is in no set of calls any more. *)
LEMMA DoneSets ==
    ASSUME NEW c \in calls, Done(c)
    PROVE  /\ Unread' = Unread \ {c} /\ Announcing' = Announcing \ {c}
           /\ Marking' = Marking \ {c}
  BY DEF Done, Unread, Announcing, Marking

(* One that takes the lock for a READY goes on to announce it or to mark it. *)
LEMMA ReadySets ==
    ASSUME Basic, NEW c \in calls, HandleReady(c)
    PROVE  LET b == [c EXCEPT !.pc = AfterReady]
           IN  /\ c \in Unread /\ c \notin Announcing /\ c \notin Marking
               /\ b.d = c.d /\ b.pc = AfterReady /\ b \notin calls
               /\ calls' = (calls \ {c}) \cup {b}
               /\ Unread' = Unread \ {c}
               /\ Announcing' = IF readyCount' = 1 THEN Announcing \cup {b} ELSE Announcing
               /\ Marking' = IF readyCount' = 1 THEN Marking ELSE Marking \cup {b}
<1> DEFINE b == [c EXCEPT !.pc = AfterReady]
<1> USE DEF Basic
<1>1. c \in [d: Dispatch, pc: {"handle", "announce", "mark", "append"}]
  BY DEF TypeOK
<1>2. b.d = c.d /\ b.pc = AfterReady
  BY <1>1
<1>3. c.pc = "handle" /\ c.d.type = "READY"
  BY DEF HandleReady, At
<1>4. AfterReady = IF readyCount' = 1 THEN "announce" ELSE "mark"
  BY DEF AfterReady
<1>5. calls' = (calls \ {c}) \cup {b}
  BY DEF HandleReady, MoveTo
<1> HIDE DEF b
<1>6. b \notin calls
  BY <1>2, <1>3, <1>4 DEF CallInv
<1>7. c \in Unread /\ c \notin Announcing /\ c \notin Marking
  BY <1>3 DEF Unread, Announcing, Marking
<1>8. Unread' = Unread \ {c}
  BY <1>2, <1>4, <1>5 DEF Unread
<1>9. /\ Announcing' = IF readyCount' = 1 THEN Announcing \cup {b} ELSE Announcing
      /\ Marking' = IF readyCount' = 1 THEN Marking ELSE Marking \cup {b}
  BY <1>2, <1>3, <1>4, <1>5 DEF Announcing, Marking
<1> QED  BY <1>2, <1>5, <1>6, <1>7, <1>8, <1>9 DEF b

(* A GUILD_CREATE that handle keeps goes on to the buffer. *)
LEMMA KeepSets ==
    ASSUME Basic, NEW c \in calls, At(c, "handle", {"GUILD_CREATE"}), MoveTo(c, "append")
    PROVE  LET b == [c EXCEPT !.pc = "append"]
           IN  /\ b.d = c.d /\ b.pc = "append"
               /\ calls' = (calls \ {c}) \cup {b}
               /\ UNCHANGED <<Unread, Announcing, Marking>>
<1> DEFINE b == [c EXCEPT !.pc = "append"]
<1>1. c \in [d: Dispatch, pc: {"handle", "announce", "mark", "append"}]
  BY DEF Basic, TypeOK
<1>2. b.d = c.d /\ b.pc = "append"
  BY <1>1
<1>3. calls' = (calls \ {c}) \cup {b}
  BY DEF MoveTo
<1>4. c.pc = "handle" /\ c.d.type = "GUILD_CREATE"
  BY DEF At
<1> HIDE DEF b
<1>5. UNCHANGED <<Unread, Announcing, Marking>>
  BY <1>2, <1>3, <1>4 DEF Unread, Announcing, Marking
<1> QED  BY <1>2, <1>3, <1>5 DEF b

(* What one append adds to the buffer. *)
LEMMA AppendSets ==
    ASSUME TypeOK, NEW m \in BOOLEAN, NEW d \in Dispatch,
           BufAppend([marker |-> m, d |-> d]), ~bufClosed
    PROVE  /\ Len(stored') = Len(stored) + 1
           /\ \A i \in DOMAIN stored : stored'[i] = stored[i]
           /\ stored'[Len(stored')] = [marker |-> m, d |-> d]
           /\ Entries' = IF m THEN Entries ELSE Entries \cup {d}
           /\ Markers' = IF m THEN Markers \cup {Len(stored')} ELSE Markers
           /\ Len(stored') \notin Markers
<1> DEFINE e == [marker |-> m, d |-> d]
<1>1. e.marker = m /\ e.d = d
  OBVIOUS
<1>2. stored' = Append(stored, e) /\ stored \in Seq([marker: BOOLEAN, d: Dispatch])
  BY DEF BufAppend, TypeOK
<1>3. e \in [marker: BOOLEAN, d: Dispatch]
  OBVIOUS
<1> HIDE DEF e
<1>4. /\ Len(stored) \in Nat /\ Len(stored') = Len(stored) + 1
      /\ DOMAIN stored = 1 .. Len(stored)
      /\ DOMAIN stored' = 1 .. Len(stored) + 1
      /\ \A i \in DOMAIN stored : stored'[i] = stored[i]
      /\ stored'[Len(stored')] = e
  BY <1>2, <1>3
<1>5. Markers' = IF m THEN Markers \cup {Len(stored')} ELSE Markers
  BY <1>1, <1>4 DEF Markers
<1>6. Len(stored') \notin Markers
  BY <1>4 DEF Markers
<1>7. Entries' = IF m THEN Entries ELSE Entries \cup {d}
  <2> DEFINE T == {i \in DOMAIN stored : ~stored[i].marker}
  <2>1. T' = IF m THEN T ELSE T \cup {Len(stored')}
    BY <1>1, <1>4
  <2>2. \A i \in T : stored'[i].d = stored[i].d
    BY <1>4
  <2>3. Entries = {stored[i].d : i \in T} /\ Entries' = {stored'[i].d : i \in T'}
    BY DEF Entries
  <2>4. stored'[Len(stored')].d = d
    BY <1>1, <1>4
  <2> HIDE DEF T
  <2> QED  BY <2>1, <2>2, <2>3, <2>4
<1> QED  BY <1>4, <1>5, <1>6, <1>7 DEF e

(* A closed buffer keeps nothing. *)
LEMMA ClosedSets ==
    ASSUME NEW e, BufAppend(e), bufClosed
    PROVE  stored' = stored /\ Entries' = Entries /\ Markers' = Markers
  BY DEF BufAppend, Entries, Markers

-----------------------------------------------------------------------------
(* What Start and Close do leaves the calls and the dispatches alone. *)
Outside == StartReady \/ StartTimeout \/ CloseGateway \/ CloseBuffer

LEMMA OutsideQuiet ==
    ASSUME Outside
    PROVE  /\ UNCHANGED <<member, pending, received, calls, gateVars, stored, auxVars>>
           /\ UNCHANGED <<Readys, Unread, Announcing, Marking, Entries, Markers>>
           /\ bufClosed => bufClosed'
<1>1. /\ UNCHANGED <<member, pending, received, calls, gateVars, stored, auxVars>>
      /\ bufClosed => bufClosed'
  BY DEF Outside, StartReady, StartTimeout, CloseGateway, CloseBuffer, discordVars,
         bufferVars
<1>2. UNCHANGED <<Readys, Unread, Announcing, Marking, Entries, Markers>>
  BY <1>1 DEF Readys, Unread, Announcing, Marking, Entries, Markers
<1> QED  BY <1>1, <1>2

(* Nothing has been read or stored yet. *)
LEMMA InitBasic == Init => Basic
<1> SUFFICES ASSUME Init PROVE Basic
  OBVIOUS
<1>1. TypeOK
  <2>1. /\ received \in Seq(Dispatch) /\ stored \in Seq([marker: BOOLEAN, d: Dispatch])
        /\ readyCount \in 0 .. MaxDispatch
    BY DispatchAssumption DEF Init
  <2>2. /\ member \subseteq Guilds /\ pending \subseteq member /\ startupGuilds \subseteq Guilds
        /\ calls \subseteq [d: Dispatch, pc: {"handle", "announce", "mark", "append"}]
        /\ dropped \subseteq Dispatch
    BY DEF Init
  <2> QED  BY <2>1, <2>2 DEF Init, TypeOK
<1>2. Readys = {} /\ Unread = {} /\ Entries = {}
  BY DEF Init, Readys, Unread, Entries
<1>3. Finite /\ CountInv
  BY <1>2, FS_EmptySet, DispatchAssumption DEF Init, Finite, CountInv
<1>4. CallInv
  BY DEF Init, CallInv
<1> QED  BY <1>1, <1>3, <1>4 DEF Basic

(* A dispatch that arrives. *)
LEMMA ArrivalBasic == ASSUME Basic, Environment PROVE Basic'
<1> USE DEF Basic
<1>1. PICK d \in Dispatch : Arrives(d) /\ Follows(d)
  BY Arrival
<1> DEFINE c == [d |-> d, pc |-> "handle"]
<1>2. /\ c \notin calls /\ \A b \in calls : b.d # d
      /\ Readys' = IF d.type = "READY" THEN Readys \cup {d.n} ELSE Readys
      /\ d.n \notin Readys
      /\ Unread' = IF d.type = "READY" THEN Unread \cup {c} ELSE Unread
      /\ Entries' = Entries
  BY <1>1, ArrivalSets
<1>3. c.d = d /\ c.pc = "handle"
  OBVIOUS
<1>4. c \in [d: Dispatch, pc: {"handle", "announce", "mark", "append"}]
  OBVIOUS
<1>5. calls' = calls \cup {c}
  BY <1>1 DEF Arrives
<1> HIDE DEF c
<1>6. /\ Len(received) \in Nat /\ Len(received') = Len(received) + 1
      /\ DOMAIN received = 1 .. Len(received)
      /\ DOMAIN received' = 1 .. Len(received) + 1
      /\ \A i \in 1 .. Len(received) : received'[i] = received[i]
      /\ received'[Len(received) + 1] = d
      /\ received' \in Seq(Dispatch)
  BY <1>1 DEF TypeOK, Arrives
<1>7. member' \subseteq Guilds /\ pending' \subseteq member'
  BY <1>1 DEF TypeOK, Follows
<1>8. TypeOK'
  BY <1>1, <1>4, <1>5, <1>6, <1>7 DEF Arrives, TypeOK, gateVars, bufferVars
<1>9. Finite'
  BY <1>1, <1>2, <1>5, FS_AddElement DEF Finite, Arrives
<1>10. CallInv'
  <2>1. \A i \in DOMAIN received' : received'[i].n = i
    BY <1>1, <1>6 DEF CallInv, Arrives
  <2>2. ASSUME NEW b \in calls'
        PROVE  /\ b.d.n \in DOMAIN received' /\ b.d = received'[b.d.n]
               /\ b.pc \in {"announce", "mark"} => b.d.type = "READY"
               /\ b.pc = "append" => b.d.type = "GUILD_CREATE"
    <3>1. CASE b = c
      BY <1>1, <1>3, <1>6, <3>1 DEF Arrives
    <3>2. CASE b \in calls
      BY <1>6, <3>2 DEF CallInv
    <3> QED  BY <1>5, <3>1, <3>2
  <2>3. \A a, b \in calls' : a.d = b.d => a = b
    BY <1>2, <1>3, <1>5 DEF CallInv
  <2> QED  BY <2>1, <2>2, <2>3 DEF CallInv
<1>11. CountInv'
  <2>1. c \notin Unread
    BY <1>2 DEF Unread
  <2>2. /\ Cardinality(Readys \cup {d.n}) = Cardinality(Readys) + 1
        /\ Cardinality(Unread \cup {c}) = Cardinality(Unread) + 1
    BY <1>2, <2>1, SetsFinite, FS_AddElement
  <2>3. Len(received') <= MaxDispatch /\ readyCount' = readyCount
    BY <1>1, <1>6, DispatchAssumption DEF Arrives, gateVars
  <2>4. /\ Cardinality(Readys) \in Nat /\ Cardinality(Unread) \in Nat
        /\ readyCount \in Nat
    BY SetsFinite DEF TypeOK
  <2> QED  BY <1>2, <2>2, <2>3, <2>4 DEF CountInv
<1> QED  BY <1>8, <1>9, <1>10, <1>11

(* A call that ends leaves fewer calls, and one that goes on is still for  *)
(* the same dispatch.                                                      *)
LEMMA DoneCalls ==
    ASSUME Basic, NEW c \in calls, Done(c), received' = received
    PROVE  IsFiniteSet(calls') /\ CallInv'
<1>1. calls' = calls \ {c}
  BY DEF Done
<1>2. IsFiniteSet(calls')
  BY <1>1, FS_RemoveElement DEF Basic, Finite
<1> QED  BY <1>1, <1>2 DEF Basic, CallInv

LEMMA MoveCalls ==
    ASSUME Basic, NEW c \in calls, NEW b, b.d = c.d, received' = received,
           calls' = (calls \ {c}) \cup {b},
           b.pc \in {"announce", "mark"} => c.d.type = "READY",
           b.pc = "append" => c.d.type = "GUILD_CREATE"
    PROVE  IsFiniteSet(calls') /\ CallInv'
<1>1. IsFiniteSet(calls')
  BY FS_RemoveElement, FS_AddElement DEF Basic, Finite
<1>2. \A a \in calls' : \E x \in calls : a.d = x.d
  OBVIOUS
<1>3. /\ \A i \in DOMAIN received' : received'[i].n = i
      /\ \A a \in calls' :
            /\ a.d.n \in DOMAIN received' /\ a.d = received'[a.d.n]
            /\ a.pc \in {"announce", "mark"} => a.d.type = "READY"
            /\ a.pc = "append" => a.d.type = "GUILD_CREATE"
  BY DEF Basic, CallInv
<1>4. \A x, y \in calls' : x.d = y.d => x = y
  BY DEF Basic, CallInv
<1> QED  BY <1>1, <1>3, <1>4 DEF CallInv

(* The lock taken for a READY. *)
LEMMA ReadyBasic == ASSUME Basic, NEW c \in calls, HandleReady(c) PROVE Basic'
<1> DEFINE b == [c EXCEPT !.pc = AfterReady]
<1> USE DEF Basic
<1>1. /\ c \in Unread /\ c \notin Announcing /\ c \notin Marking
      /\ b.d = c.d /\ b.pc = AfterReady
      /\ calls' = (calls \ {c}) \cup {b}
      /\ Unread' = Unread \ {c}
  BY ReadySets
<1> HIDE DEF b
<1>2. AfterReady \in {"announce", "mark"}
  BY DEF AfterReady
<1>3. /\ readyCount' = readyCount + 1 /\ startupGuilds' = c.d.guilds
      /\ UNCHANGED <<discordVars, ready, bufferVars, auxVars>>
      /\ c.d.type = "READY"
  BY DEF HandleReady, At
<1>4. IsFiniteSet(calls') /\ CallInv'
  BY <1>1, <1>2, <1>3, MoveCalls DEF discordVars
<1>5. Entries' = Entries /\ dropped' = dropped /\ Readys' = Readys
  BY <1>3 DEF Entries, bufferVars, auxVars, Readys, discordVars
<1>6. /\ readyCount' + Cardinality(Unread') = Cardinality(Readys')
      /\ readyCount' <= Len(received)
  <2>1. /\ Cardinality(Unread') = Cardinality(Unread) - 1 /\ Cardinality(Unread') \in Nat
    BY <1>1, SetsFinite, FS_RemoveElement, FS_CardinalityType
  <2>2. /\ readyCount + Cardinality(Unread) = Cardinality(Readys)
        /\ Cardinality(Readys) <= Len(received) /\ Cardinality(Unread) \in Nat
        /\ Cardinality(Readys) \in Nat /\ readyCount \in Nat /\ Len(received) \in Nat
    BY SetsFinite DEF CountInv, TypeOK
  <2> QED  BY <1>3, <1>5, <2>1, <2>2
<1>7. TypeOK'
  <2>1. c.d \in Dispatch /\ b \in [d: Dispatch, pc: {"handle", "announce", "mark", "append"}]
    BY <1>2 DEF TypeOK, b
  <2>2. c.d.guilds \subseteq Guilds
    BY <2>1 DEF Dispatch
  <2>3. readyCount' \in 0 .. MaxDispatch
    BY <1>3, <1>6, DispatchAssumption DEF TypeOK, CountInv
  <2>4. calls' \subseteq [d: Dispatch, pc: {"handle", "announce", "mark", "append"}]
    BY <1>1, <2>1 DEF TypeOK
  <2> QED
    BY <1>3, <2>2, <2>3, <2>4 DEF TypeOK, discordVars, bufferVars, auxVars
<1> QED
  BY <1>3, <1>4, <1>5, <1>6, <1>7 DEF Finite, CountInv, discordVars

(* The end of a call, with what it may have left in the buffer. *)
LEMMA EndBasic ==
    ASSUME Basic, NEW c \in calls,
           Announce(c) \/ Mark(c) \/ HandleResumed(c) \/ Buffer(c)
    PROVE  Basic'
<1> USE DEF Basic
<1>1. /\ Done(c) /\ UNCHANGED <<discordVars, readyCount, startupGuilds, auxVars>>
      /\ ready' \in BOOLEAN
      /\ \/ UNCHANGED bufferVars
         \/ \E m \in BOOLEAN : BufAppend([marker |-> m, d |-> c.d])
      /\ c \notin Unread
  BY DEF Announce, Mark, HandleResumed, Buffer, Buffered, At, gateVars, TypeOK, Unread
<1>2. IsFiniteSet(calls') /\ CallInv' /\ calls' \subseteq calls
  BY <1>1, DoneCalls DEF discordVars, Done
<1>3. Unread' = Unread /\ Readys' = Readys
  BY <1>1, DoneSets DEF Readys, discordVars
<1>4. c.d \in Dispatch
  BY DEF TypeOK
<1>5. /\ bufClosed' = bufClosed /\ IsFiniteSet(Entries')
      /\ stored' \in Seq([marker: BOOLEAN, d: Dispatch])
  <2>1. CASE UNCHANGED bufferVars
    BY <2>1 DEF bufferVars, TypeOK, Finite, Entries
  <2>2. ASSUME NEW m \in BOOLEAN, BufAppend([marker |-> m, d |-> c.d])
        PROVE  /\ bufClosed' = bufClosed /\ IsFiniteSet(Entries')
               /\ stored' \in Seq([marker: BOOLEAN, d: Dispatch])
    <3>1. bufClosed' = bufClosed
      BY <2>2 DEF BufAppend
    <3>2. [marker |-> m, d |-> c.d] \in [marker: BOOLEAN, d: Dispatch]
      BY <1>4
    <3>3. stored' \in Seq([marker: BOOLEAN, d: Dispatch])
      <4>1. stored \in Seq([marker: BOOLEAN, d: Dispatch])
        BY DEF TypeOK
      <4>2. CASE bufClosed
        BY <2>2, <4>1, <4>2 DEF BufAppend
      <4>3. CASE ~bufClosed
        <5>1. stored' = Append(stored, [marker |-> m, d |-> c.d])
          BY <2>2, <4>3 DEF BufAppend
        <5> QED  BY <3>2, <4>1, <5>1
      <4> QED  BY <4>2, <4>3
    <3>4. IsFiniteSet(Entries')
      <4>1. CASE bufClosed
        BY <2>2, <4>1, ClosedSets DEF Finite
      <4>2. CASE ~bufClosed
        <5>1. Entries' = IF m THEN Entries ELSE Entries \cup {c.d}
          BY <1>4, <2>2, <4>2, AppendSets
        <5> QED  BY <5>1, FS_AddElement DEF Finite
      <4> QED  BY <4>1, <4>2
    <3> QED  BY <3>1, <3>3, <3>4
  <2> QED  BY <1>1, <2>1, <2>2
<1>6. TypeOK'
  BY <1>1, <1>2, <1>5 DEF TypeOK, discordVars, auxVars
<1>7. Finite'
  BY <1>1, <1>2, <1>5 DEF Finite, auxVars
<1>8. CountInv'
  BY <1>1, <1>3 DEF CountInv, discordVars
<1> QED  BY <1>2, <1>6, <1>7, <1>8

(* A GUILD_CREATE that is dropped or kept. *)
LEMMA GuildBasic == ASSUME Basic, NEW c \in calls, HandleGuildCreate(c) PROVE Basic'
<1> USE DEF Basic
<1>1. /\ At(c, "handle", {"GUILD_CREATE"})
      /\ UNCHANGED <<discordVars, readyCount, ready, bufferVars, inOrder>>
      /\ startupGuilds' \subseteq startupGuilds
      /\ \/ dropped' = dropped \cup {c.d} /\ Done(c)
         \/ dropped' = dropped /\ MoveTo(c, "append")
  BY DEF HandleGuildCreate
<1>2. c.d \in Dispatch /\ c.d.type = "GUILD_CREATE" /\ c \notin Unread
  BY <1>1 DEF TypeOK, At, Unread
<1>3. IsFiniteSet(dropped') /\ dropped' \subseteq Dispatch
  <2>1. IsFiniteSet(dropped) /\ IsFiniteSet(dropped \cup {c.d})
    BY FS_AddElement DEF Finite
  <2>2. dropped \subseteq Dispatch
    BY DEF TypeOK
  <2> QED  BY <1>1, <1>2, <2>1, <2>2
<1>4. /\ IsFiniteSet(calls') /\ CallInv' /\ Unread' = Unread
      /\ calls' \subseteq [d: Dispatch, pc: {"handle", "announce", "mark", "append"}]
  <2>1. CASE Done(c)
    <3>1. IsFiniteSet(calls') /\ CallInv'
      BY <1>1, <2>1, DoneCalls DEF discordVars
    <3>2. Unread' = Unread
      BY <1>2, <2>1, DoneSets
    <3>3. calls' \subseteq [d: Dispatch, pc: {"handle", "announce", "mark", "append"}]
      BY <2>1 DEF Done, TypeOK
    <3> QED  BY <3>1, <3>2, <3>3
  <2>2. CASE MoveTo(c, "append")
    <3> DEFINE b == [c EXCEPT !.pc = "append"]
    <3>1. /\ b.d = c.d /\ b.pc = "append" /\ Unread' = Unread
          /\ calls' = (calls \ {c}) \cup {b}
      BY <1>1, <2>2, KeepSets
    <3>2. b \in [d: Dispatch, pc: {"handle", "announce", "mark", "append"}]
      BY DEF TypeOK
    <3> HIDE DEF b
    <3>3. IsFiniteSet(calls') /\ CallInv'
      BY <1>1, <1>2, <3>1, MoveCalls DEF discordVars
    <3> QED  BY <3>1, <3>2, <3>3 DEF TypeOK
  <2> QED  BY <1>1, <2>1, <2>2
<1>5. Entries' = Entries /\ Readys' = Readys
  BY <1>1 DEF Entries, Readys, bufferVars, discordVars
<1>6. TypeOK'
  BY <1>1, <1>3, <1>4 DEF TypeOK, discordVars, bufferVars
<1>7. Finite' /\ CountInv'
  BY <1>1, <1>3, <1>4, <1>5 DEF Finite, CountInv, discordVars
<1> QED  BY <1>4, <1>6, <1>7

(* The steps of Start and Close. *)
LEMMA OutsideBasic == ASSUME Basic, Outside PROVE Basic'
<1> USE DEF Basic
<1>1. /\ UNCHANGED <<member, pending, received, calls, gateVars, stored, auxVars>>
      /\ UNCHANGED <<Readys, Unread, Entries>>
  BY OutsideQuiet
<1>2. bufClosed' \in BOOLEAN /\ open' \in BOOLEAN
      /\ starting' \in {"waiting", "started", "failed"}
  BY DEF Outside, StartReady, StartTimeout, CloseGateway, CloseBuffer, discordVars,
         bufferVars, TypeOK
<1>3. TypeOK'
  BY <1>1, <1>2 DEF TypeOK, gateVars, auxVars
<1>4. Finite' /\ CallInv' /\ CountInv'
  BY <1>1 DEF Finite, CallInv, CountInv, gateVars, auxVars
<1> QED  BY <1>3, <1>4

(* The disjuncts of Next, as the lemmas take them. *)
LEMMA Steps ==
    ASSUME [Next]_vars
    PROVE  \/ Environment
           \/ \E c \in calls : HandleReady(c)
           \/ \E c \in calls : Announce(c) \/ Mark(c) \/ HandleResumed(c) \/ Buffer(c)
           \/ \E c \in calls : HandleGuildCreate(c)
           \/ Outside
           \/ UNCHANGED vars
  BY DEF Next, Environment, Handle, Outside

LEMMA BasicStep == Basic /\ [Next]_vars => Basic'
<1> SUFFICES ASSUME Basic, [Next]_vars PROVE Basic'
  OBVIOUS
<1>1. CASE UNCHANGED vars
  <2>1. UNCHANGED <<discordVars, calls, gateVars, bufferVars, auxVars>>
    BY <1>1 DEF vars
  <2> QED
    BY <2>1 DEF Basic, TypeOK, Finite, CallInv, CountInv, discordVars, gateVars, bufferVars,
                auxVars, Readys, Unread, Entries
<1> QED
  BY <1>1, Steps, ArrivalBasic, ReadyBasic, EndBasic, GuildBasic, OutsideBasic

(* Every variable keeps its type; no more READYs are counted than came.    *)
THEOREM TypeCorrect == Spec => []TypeOK
<1>1. Init => Basic
  BY InitBasic
<1>2. Basic /\ [Next]_vars => Basic'
  BY BasicStep
<1>3. Basic => TypeOK
  BY DEF Basic
<1> QED  BY <1>1, <1>2, <1>3, PTL DEF Spec

-----------------------------------------------------------------------------
(* A dispatch that is no READY and no RESUMED leaves the hands of handle   *)
(* with the call for it.                                                   *)
LEMMA HandEnds ==
    ASSUME Basic, NEW c \in calls, Done(c)
    PROVE  InHand' = IF c.d.type \in Lifecycle THEN InHand ELSE InHand \ {c.d}
<1>1. calls' = calls \ {c} /\ \A b \in calls : b.d = c.d => b = c
  BY DEF Done, Basic, CallInv
<1> QED  BY <1>1 DEF InHand

LEMMA HandStays ==
    ASSUME NEW c \in calls, NEW b, b.d = c.d, calls' = (calls \ {c}) \cup {b}
    PROVE  InHand' = InHand
  BY DEF InHand

(* What is in hand or in Regular was read. *)
LEMMA RegularRead ==
    ASSUME TypeOK, CallInv
    PROVE  /\ \A d \in Regular : d.n <= Len(received) /\ d.type \notin Lifecycle
           /\ \A c \in calls : c.d.type \notin Lifecycle => c.d \in InHand
           /\ Len(received) \in Nat
  BY DEF TypeOK, CallInv, Regular, InHand

(* EachDispatchOnce, one dispatch that arrives. *)
LEMMA ArrivalOnce == ASSUME Basic, EachDispatchOnce, Environment PROVE EachDispatchOnce'
<1> SUFFICES ASSUME ~bufClosed' PROVE EachDispatchOnce'
  BY DEF EachDispatchOnce
<1> USE DEF Basic
<1>1. PICK d \in Dispatch : Arrives(d)
  BY Arrival
<1> DEFINE c == [d |-> d, pc |-> "handle"]
<1>2. calls' = calls \cup {c} /\ c.d = d
  BY <1>1 DEF Arrives
<1> HIDE DEF c
<1>3. Entries' = Entries /\ Markers' = Markers
  BY <1>1, ArrivalSets
<1>4. bufClosed' = bufClosed /\ stored' = stored /\ dropped' = dropped
  BY <1>1 DEF Arrives, bufferVars
<1>5. InHand' = IF d.type \in Lifecycle THEN InHand ELSE InHand \cup {d}
  BY <1>2 DEF InHand
<1>6. Regular' = IF d.type \in Lifecycle THEN Regular ELSE Regular \cup {d}
  BY <1>1, SMTT(30) DEF Arrives, TypeOK, Regular
<1>7. d \notin Regular
  BY <1>1, RegularRead DEF Arrives
<1> QED  BY <1>3, <1>4, <1>5, <1>6, <1>7 DEF EachDispatchOnce

(* A call that ends without the buffer. *)
LEMMA QuietOnce ==
    ASSUME Basic, EachDispatchOnce, NEW c \in calls,
           HandleReady(c) \/ Announce(c) \/ HandleResumed(c)
    PROVE  EachDispatchOnce'
<1>1. UNCHANGED <<received, bufferVars, dropped>> /\ c.d.type \in Lifecycle
  BY DEF HandleReady, Announce, HandleResumed, At, discordVars, auxVars, Lifecycle
<1>2. InHand' = InHand
  <2>1. CASE HandleReady(c)
    <3> DEFINE b == [c EXCEPT !.pc = AfterReady]
    <3>1. b.d = c.d /\ calls' = (calls \ {c}) \cup {b}
      BY <2>1, ReadySets
    <3> HIDE DEF b
    <3> QED  BY <3>1, HandStays
  <2>2. CASE Announce(c) \/ HandleResumed(c)
    BY <1>1, <2>2, HandEnds DEF Announce, HandleResumed
  <2> QED  BY <2>1, <2>2
<1>3. Regular' = Regular /\ Entries' = Entries /\ Markers' = Markers
  BY <1>1 DEF Regular, Entries, Markers, bufferVars
<1> QED  BY <1>1, <1>2, <1>3 DEF EachDispatchOnce, bufferVars

(* A marker takes no dispatch's place, and a dispatch goes from hand to    *)
(* buffer.                                                                 *)
LEMMA StoreOnce ==
    ASSUME Basic, EachDispatchOnce, NEW c \in calls, Mark(c) \/ Buffer(c)
    PROVE  EachDispatchOnce'
<1> SUFFICES ASSUME ~bufClosed' PROVE EachDispatchOnce'
  BY DEF EachDispatchOnce
<1> USE DEF Basic
<1>1. Regular' = Regular /\ dropped' = dropped
  BY DEF Mark, Buffer, Regular, discordVars, auxVars
<1>2. c.d \in Dispatch /\ Len(stored) \in Nat
  BY DEF TypeOK
<1>3. ~bufClosed
  BY DEF Mark, Buffer, BufAppend
<1>4. /\ Regular = Entries \cup dropped \cup InHand
      /\ Entries \cap dropped = {} /\ (Entries \cup dropped) \cap InHand = {}
      /\ Cardinality(Entries) + Cardinality(Markers) = Len(stored)
  BY <1>3 DEF EachDispatchOnce
<1>5. CASE Mark(c)
  <2>1. InHand' = InHand
    BY <1>5, HandEnds DEF Mark, At, Lifecycle
  <2>2. /\ Len(stored') = Len(stored) + 1 /\ Entries' = Entries
        /\ Markers' = Markers \cup {Len(stored')} /\ Len(stored') \notin Markers
    BY <1>2, <1>3, <1>5, AppendSets DEF Mark
  <2>3. Cardinality(Markers') = Cardinality(Markers) + 1
    BY <2>2, SetsFinite, FS_AddElement
  <2> QED  BY <1>1, <1>2, <1>4, <2>1, <2>2, <2>3, SetsFinite DEF EachDispatchOnce
<1>6. CASE Buffer(c)
  <2>1. c.d.type \notin Lifecycle
    BY <1>6 DEF Buffer, Buffered, At, Lifecycle
  <2>2. InHand' = InHand \ {c.d} /\ c.d \in InHand
    BY <1>6, <2>1, HandEnds, RegularRead DEF Buffer
  <2>3. /\ Len(stored') = Len(stored) + 1 /\ Entries' = Entries \cup {c.d}
        /\ Markers' = Markers
    BY <1>2, <1>3, <1>6, AppendSets DEF Buffer
  <2>4. Cardinality(Entries') = Cardinality(Entries) + 1
    BY <1>4, <2>2, <2>3, FS_AddElement DEF Finite
  <2> QED  BY <1>1, <1>2, <1>4, <2>2, <2>3, <2>4, SetsFinite DEF EachDispatchOnce
<1> QED  BY <1>5, <1>6

(* A GUILD_CREATE goes from hand to dropped, or stays in hand. *)
LEMMA GuildOnce ==
    ASSUME Basic, EachDispatchOnce, NEW c \in calls, HandleGuildCreate(c)
    PROVE  EachDispatchOnce'
<1> USE DEF Basic
<1>1. /\ At(c, "handle", {"GUILD_CREATE"})
      /\ UNCHANGED <<received, bufferVars>>
      /\ \/ dropped' = dropped \cup {c.d} /\ Done(c)
         \/ dropped' = dropped /\ MoveTo(c, "append")
  BY DEF HandleGuildCreate, discordVars
<1>2. c.d.type \notin Lifecycle
  BY <1>1 DEF At, Lifecycle
<1>3. Regular' = Regular /\ Entries' = Entries /\ Markers' = Markers
  BY <1>1 DEF Regular, Entries, Markers, bufferVars
<1>4. CASE dropped' = dropped \cup {c.d} /\ Done(c)
  <2>1. InHand' = InHand \ {c.d} /\ c.d \in InHand
    BY <1>2, <1>4, HandEnds, RegularRead
  <2> QED  BY <1>1, <1>3, <1>4, <2>1 DEF EachDispatchOnce, bufferVars
<1>5. CASE dropped' = dropped /\ MoveTo(c, "append")
  <2> DEFINE b == [c EXCEPT !.pc = "append"]
  <2>1. b.d = c.d /\ calls' = (calls \ {c}) \cup {b}
    BY <1>1, <1>5, KeepSets
  <2> HIDE DEF b
  <2>2. InHand' = InHand
    BY <2>1, HandStays
  <2> QED  BY <1>1, <1>3, <1>5, <2>2 DEF EachDispatchOnce, bufferVars
<1> QED  BY <1>1, <1>4, <1>5

(* handle loses nothing and stores nothing twice, however its calls        *)
(* overlap: until the buffer is closed, what was read is stored, dropped   *)
(* or in hand, and in one place only.                                      *)
THEOREM DispatchesOnce == Spec => []EachDispatchOnce
<1>1. Init => EachDispatchOnce
  <2> SUFFICES ASSUME Init PROVE EachDispatchOnce
    OBVIOUS
  <2>1. Regular = {} /\ Entries = {} /\ InHand = {} /\ Markers = {} /\ dropped = {}
    BY DEF Init, Regular, Entries, InHand, Markers
  <2> QED  BY <2>1, FS_EmptySet DEF Init, EachDispatchOnce
<1>2. Basic /\ EachDispatchOnce /\ [Next]_vars => EachDispatchOnce'
  <2> SUFFICES ASSUME Basic, EachDispatchOnce, [Next]_vars PROVE EachDispatchOnce'
    OBVIOUS
  <2>1. CASE Outside
    <3>1. Regular' = Regular /\ InHand' = InHand
      BY <2>1, OutsideQuiet DEF Regular, InHand
    <3> QED  BY <2>1, <3>1, OutsideQuiet DEF EachDispatchOnce, auxVars
  <2>2. CASE UNCHANGED vars
    <3>1. UNCHANGED <<received, calls, stored, bufClosed, dropped>>
      BY <2>2 DEF vars, discordVars, bufferVars, auxVars
    <3>2. UNCHANGED <<Regular, Entries, InHand, Markers>>
      BY <3>1 DEF Regular, Entries, InHand, Markers
    <3> QED  BY <3>1, <3>2 DEF EachDispatchOnce
  <2> QED
    BY <2>1, <2>2, Steps, ArrivalOnce, QuietOnce, StoreOnce, GuildOnce
<1> QED  BY <1>1, <1>2, InitBasic, BasicStep, PTL DEF Spec

-----------------------------------------------------------------------------
(* Nobody but a READY's call touches what Start waits for.                 *)
LEMMA OthersQuiet ==
    ASSUME Basic,
           \/ Environment \/ Outside \/ UNCHANGED vars
           \/ \E c \in calls : HandleResumed(c) \/ HandleGuildCreate(c) \/ Buffer(c)
    PROVE  /\ UNCHANGED <<readyCount, ready, Announcing, Marking>>
           /\ Markers' = Markers /\ (bufClosed => bufClosed')
<1> USE DEF Basic
<1>1. CASE Environment
  <2>1. PICK d \in Dispatch : Arrives(d)
    BY <1>1, Arrival
  <2> QED  BY <2>1, ArrivalSets DEF Arrives, gateVars, bufferVars
<1>2. CASE Outside
  BY <1>2, OutsideQuiet DEF gateVars
<1>3. CASE UNCHANGED vars
  <2>1. UNCHANGED <<readyCount, ready, calls, stored, bufClosed>>
    BY <1>3 DEF vars, gateVars, bufferVars
  <2> QED  BY <2>1 DEF Announcing, Marking, Markers
<1>4. ASSUME NEW c \in calls, HandleResumed(c) \/ Buffer(c)
      PROVE  /\ UNCHANGED <<readyCount, ready, Announcing, Marking>>
             /\ Markers' = Markers /\ (bufClosed => bufClosed')
  <2>1. Done(c) /\ c \notin Announcing /\ c \notin Marking /\ c.d \in Dispatch
    BY <1>4 DEF HandleResumed, Buffer, Buffered, At, Announcing, Marking, TypeOK
  <2>2. Announcing' = Announcing /\ Marking' = Marking
    BY <2>1, DoneSets
  <2>3. UNCHANGED <<readyCount, ready, bufClosed>>
    BY <1>4 DEF HandleResumed, Buffer, BufAppend, gateVars, bufferVars
  <2>4. CASE HandleResumed(c)
    BY <2>2, <2>3, <2>4 DEF HandleResumed, bufferVars, Markers
  <2>5. CASE Buffer(c)
    <3>1. BufAppend([marker |-> FALSE, d |-> c.d])
      BY <2>5 DEF Buffer
    <3>2. Markers' = Markers
      BY <2>1, <3>1, AppendSets, ClosedSets
    <3> QED  BY <2>2, <2>3, <3>2
  <2> QED  BY <1>4, <2>4, <2>5
<1>5. ASSUME NEW c \in calls, HandleGuildCreate(c)
      PROVE  /\ UNCHANGED <<readyCount, ready, Announcing, Marking>>
             /\ Markers' = Markers /\ (bufClosed => bufClosed')
  <2>1. /\ At(c, "handle", {"GUILD_CREATE"}) /\ UNCHANGED <<readyCount, ready, bufferVars>>
        /\ Done(c) \/ MoveTo(c, "append")
    BY <1>5 DEF HandleGuildCreate
  <2>2. c \notin Announcing /\ c \notin Marking
    BY <2>1 DEF At, Announcing, Marking
  <2>3. Announcing' = Announcing /\ Marking' = Marking
    BY <2>1, <2>2, DoneSets, KeepSets
  <2> QED  BY <2>1, <2>3 DEF bufferVars, Markers
<1> QED  BY <1>1, <1>2, <1>3, <1>4, <1>5

(* ReadyClosedOnce with the names of this module. *)
LEMMA ClosedOnceSays ==
    ReadyClosedOnce <=> Cardinality(Announcing) + (IF ready THEN 1 ELSE 0)
                            = (IF readyCount > 0 THEN 1 ELSE 0)
  BY DEF ReadyClosedOnce, Announcing

LEMMA MarkerSays ==
    MarkerPerReconnect <=>
        (~bufClosed => Cardinality(Markers) + Cardinality(Marking)
                           = IF readyCount > 0 THEN readyCount - 1 ELSE 0)
  BY DEF MarkerPerReconnect, Marking

(* The first READY, and it alone, is on its way to close g.ready. *)
LEMMA ReadyClosed ==
    ASSUME Basic, ReadyClosedOnce, NEW c \in calls,
           HandleReady(c) \/ Announce(c) \/ Mark(c)
    PROVE  ReadyClosedOnce'
<1> USE DEF Basic
<1>1. /\ readyCount \in Nat /\ ready \in BOOLEAN /\ Cardinality(Announcing) \in Nat
      /\ IsFiniteSet(Announcing)
  BY SetsFinite DEF TypeOK
<1>2. Cardinality(Announcing) + (IF ready THEN 1 ELSE 0) = (IF readyCount > 0 THEN 1 ELSE 0)
  BY ClosedOnceSays
<1>3. Cardinality(Announcing)' + (IF ready THEN 1 ELSE 0)'
          = (IF readyCount > 0 THEN 1 ELSE 0)'
  <2>1. CASE HandleReady(c)
    <3> DEFINE b == [c EXCEPT !.pc = AfterReady]
    <3>1. /\ Announcing' = IF readyCount' = 1 THEN Announcing \cup {b} ELSE Announcing
          /\ b \notin calls
      BY <2>1, ReadySets
    <3>2. readyCount' = readyCount + 1 /\ ready' = ready
      BY <2>1 DEF HandleReady
    <3>3. b \notin Announcing
      BY <3>1 DEF Announcing
    <3> HIDE DEF b
    <3>4. Cardinality(Announcing \cup {b}) = Cardinality(Announcing) + 1
      BY <1>1, <3>3, FS_AddElement
    <3> QED  BY <1>1, <1>2, <3>1, <3>2, <3>4
  <2>2. CASE Announce(c)
    <3>1. /\ c \in Announcing /\ Announcing' = Announcing \ {c} /\ ready' = TRUE
          /\ readyCount' = readyCount
      BY <2>2, DoneSets DEF Announce, At, Announcing
    <3>2. Cardinality(Announcing') = Cardinality(Announcing) - 1
      BY <1>1, <3>1, FS_RemoveElement
    <3>3. Cardinality(Announcing') \in Nat
      BY <1>1, <3>1, FS_RemoveElement, FS_CardinalityType
    <3> QED  BY <1>1, <1>2, <3>1, <3>2, <3>3
  <2>3. CASE Mark(c)
    <3>1. Announcing' = Announcing \ {c} /\ c \notin Announcing
      BY <2>3, DoneSets DEF Mark, At, Announcing
    <3>2. UNCHANGED <<readyCount, ready>>
      BY <2>3 DEF Mark, gateVars
    <3>3. Announcing' = Announcing
      BY <3>1
    <3> QED  BY <1>2, <3>2, <3>3
  <2> QED  BY <2>1, <2>2, <2>3
<1> QED  BY <1>3 DEF ReadyClosedOnce, Announcing

(* Two READYs handled at once never both close g.ready, and never both     *)
(* leave it to the other.                                                  *)
THEOREM ReadyClosesOnce == Spec => []ReadyClosedOnce
<1>1. Init => ReadyClosedOnce
  <2> SUFFICES ASSUME Init PROVE ReadyClosedOnce
    OBVIOUS
  <2>1. Announcing = {} /\ ready = FALSE /\ readyCount = 0
    BY DEF Init, Announcing
  <2> QED  BY <2>1, FS_EmptySet, ClosedOnceSays
<1>2. Basic /\ ReadyClosedOnce /\ [Next]_vars => ReadyClosedOnce'
  <2> SUFFICES ASSUME Basic, ReadyClosedOnce, [Next]_vars PROVE ReadyClosedOnce'
    OBVIOUS
  <2>1. CASE \E c \in calls : HandleReady(c) \/ Announce(c) \/ Mark(c)
    BY <2>1, ReadyClosed
  <2>2. CASE \/ Environment \/ Outside \/ UNCHANGED vars
             \/ \E c \in calls : HandleResumed(c) \/ HandleGuildCreate(c) \/ Buffer(c)
    <3>1. UNCHANGED <<readyCount, ready, Announcing>>
      BY <2>2, OthersQuiet
    <3> QED  BY <3>1 DEF ReadyClosedOnce, Announcing
  <2> QED  BY <2>1, <2>2, Steps
<1> QED  BY <1>1, <1>2, InitBasic, BasicStep, PTL DEF Spec

(* MarkerPerReconnect, a READY that is counted and a marker that is stored. *)
LEMMA ReadyMarked ==
    ASSUME Basic, MarkerPerReconnect, NEW c \in calls,
           HandleReady(c) \/ Announce(c) \/ Mark(c), ~bufClosed'
    PROVE  Cardinality(Markers)' + Cardinality(Marking)'
               = (IF readyCount > 0 THEN readyCount - 1 ELSE 0)'
<1> USE DEF Basic
<1>1. /\ readyCount \in Nat /\ Cardinality(Marking) \in Nat /\ IsFiniteSet(Marking)
      /\ Cardinality(Markers) \in Nat /\ IsFiniteSet(Markers)
  BY SetsFinite DEF TypeOK
<1>2. ~bufClosed
  BY DEF HandleReady, Announce, Mark, BufAppend, bufferVars
<1>3. Cardinality(Markers) + Cardinality(Marking) = IF readyCount > 0 THEN readyCount - 1 ELSE 0
  BY <1>2, MarkerSays
<1>4. CASE HandleReady(c)
  <2> DEFINE b == [c EXCEPT !.pc = AfterReady]
  <2>1. /\ Marking' = IF readyCount' = 1 THEN Marking ELSE Marking \cup {b}
        /\ b \notin calls
    BY <1>4, ReadySets
  <2>2. readyCount' = readyCount + 1 /\ Markers' = Markers
    BY <1>4 DEF HandleReady, bufferVars, Markers
  <2>3. b \notin Marking
    BY <2>1 DEF Marking
  <2> HIDE DEF b
  <2>4. Cardinality(Marking \cup {b}) = Cardinality(Marking) + 1
    BY <1>1, <2>3, FS_AddElement
  <2> QED  BY <1>1, <1>3, <2>1, <2>2, <2>4
<1>5. CASE Announce(c)
  <2>1. Marking' = Marking \ {c} /\ c \notin Marking
    BY <1>5, DoneSets DEF Announce, At, Marking
  <2>2. readyCount' = readyCount /\ Markers' = Markers /\ Marking' = Marking
    BY <1>5, <2>1 DEF Announce, bufferVars, Markers
  <2> QED  BY <1>3, <2>2
<1>6. CASE Mark(c)
  <2>1. c \in Marking /\ Marking' = Marking \ {c} /\ c.d \in Dispatch
    BY <1>6, DoneSets DEF Mark, At, Marking, TypeOK
  <2>2. Markers' = Markers \cup {Len(stored')} /\ Len(stored') \notin Markers
    BY <1>2, <1>6, <2>1, AppendSets DEF Mark
  <2>3. /\ Cardinality(Marking') = Cardinality(Marking) - 1
        /\ Cardinality(Markers') = Cardinality(Markers) + 1
    BY <1>1, <2>1, <2>2, FS_AddElement, FS_RemoveElement
  <2>4. readyCount' = readyCount
    BY <1>6 DEF Mark, gateVars
  <2> QED  BY <1>1, <1>3, <2>3, <2>4
<1> QED  BY <1>4, <1>5, <1>6

(* Each session after the first is marked once, whatever overlaps.         *)
THEOREM MarkedOnce == Spec => []MarkerPerReconnect
<1>1. Init => MarkerPerReconnect
  <2> SUFFICES ASSUME Init PROVE MarkerPerReconnect
    OBVIOUS
  <2>1. Marking = {} /\ Markers = {} /\ readyCount = 0
    BY DEF Init, Marking, Markers
  <2> QED  BY <2>1, FS_EmptySet, MarkerSays
<1>2. Basic /\ MarkerPerReconnect /\ [Next]_vars => MarkerPerReconnect'
  <2> SUFFICES ASSUME Basic, MarkerPerReconnect, [Next]_vars, ~bufClosed'
               PROVE  MarkerPerReconnect'
    BY DEF MarkerPerReconnect
  <2>1. CASE \E c \in calls : HandleReady(c) \/ Announce(c) \/ Mark(c)
    BY <2>1, ReadyMarked DEF MarkerPerReconnect, Marking
  <2>2. CASE \/ Environment \/ Outside \/ UNCHANGED vars
             \/ \E c \in calls : HandleResumed(c) \/ HandleGuildCreate(c) \/ Buffer(c)
    <3>1. UNCHANGED <<readyCount, Marking, Markers>> /\ ~bufClosed
      BY <2>2, OthersQuiet
    <3> QED  BY <3>1 DEF MarkerPerReconnect, Marking
  <2> QED  BY <2>1, <2>2, Steps
<1> QED  BY <1>1, <1>2, InitBasic, BasicStep, PTL DEF Spec

-----------------------------------------------------------------------------
(* What is left out of the buffer, and where the markers stand.            *)

(* The GUILD_CREATEs of guild g that were dropped, the READYs that listed  *)
(* it, and those of them whose call has not yet taken the lock.            *)
Drops(g)    == {d \in dropped : d.guilds = {g}}
Lists(g)    == {i \in Readys : g \in received[i].guilds}
UnreadOf(g) == {c \in Unread : g \in c.d.guilds}
Hides(g)    == IF g \in startupGuilds THEN 1 ELSE 0

(* Every drop, every guild still listed and every READY not yet taken up   *)
(* has a listing of its own.                                               *)
DropInv ==
    \A g \in Guilds :
        Cardinality(Drops(g)) + Hides(g) + Cardinality(UnreadOf(g)) <= Cardinality(Lists(g))

LEMMA DropSetsFinite ==
    ASSUME TypeOK, Finite, NEW g \in Guilds
    PROVE  /\ IsFiniteSet(Drops(g)) /\ Cardinality(Drops(g)) \in Nat
           /\ IsFiniteSet(Lists(g)) /\ Cardinality(Lists(g)) \in Nat
           /\ IsFiniteSet(UnreadOf(g)) /\ Cardinality(UnreadOf(g)) \in Nat
<1>1. /\ Drops(g) \in SUBSET dropped /\ Lists(g) \in SUBSET Readys
      /\ UnreadOf(g) \in SUBSET Unread
  BY DEF Drops, Lists, UnreadOf
<1>2. IsFiniteSet(Drops(g)) /\ IsFiniteSet(Lists(g)) /\ IsFiniteSet(UnreadOf(g))
  BY <1>1, SetsFinite, FS_Subset DEF Finite
<1> QED  BY <1>2, FS_CardinalityType

(* A READY that arrives is one listing and one call more for its guilds.   *)
LEMMA ArrivalDrops == ASSUME Basic, DropInv, Environment PROVE DropInv'
<1> USE DEF Basic
<1> SUFFICES ASSUME NEW g \in Guilds
             PROVE  Cardinality(Drops(g))' + Hides(g)' + Cardinality(UnreadOf(g))'
                        <= Cardinality(Lists(g))'
  BY DEF DropInv
<1>1. PICK d \in Dispatch : Arrives(d)
  BY Arrival
<1> DEFINE c == [d |-> d, pc |-> "handle"]
<1>2. /\ c \notin calls /\ d.n \notin Readys
      /\ Readys' = IF d.type = "READY" THEN Readys \cup {d.n} ELSE Readys
      /\ Unread' = IF d.type = "READY" THEN Unread \cup {c} ELSE Unread
  BY <1>1, ArrivalSets
<1>3. c.d = d
  OBVIOUS
<1> HIDE DEF c
<1>4. Drops(g)' = Drops(g) /\ Hides(g)' = Hides(g)
  BY <1>1 DEF Arrives, gateVars, Drops, Hides
<1>5. /\ \A i \in Readys : received'[i] = received[i]
      /\ d.type = "READY" => received'[d.n] = d
  BY <1>1 DEF Arrives, TypeOK, Readys
<1>6. CASE d.type = "READY" /\ g \in d.guilds
  <2>1. Lists(g)' = Lists(g) \cup {d.n} /\ d.n \notin Lists(g)
    BY <1>2, <1>5, <1>6 DEF Lists
  <2>2. UnreadOf(g)' = UnreadOf(g) \cup {c} /\ c \notin UnreadOf(g)
    BY <1>2, <1>3, <1>6 DEF UnreadOf, Unread
  <2>3. /\ Cardinality(Lists(g))' = Cardinality(Lists(g)) + 1
        /\ Cardinality(UnreadOf(g))' = Cardinality(UnreadOf(g)) + 1
    BY <2>1, <2>2, DropSetsFinite, FS_AddElement
  <2> QED  BY <1>4, <2>3, DropSetsFinite DEF DropInv, Hides
<1>7. CASE ~(d.type = "READY" /\ g \in d.guilds)
  <2>1. Lists(g)' = Lists(g) /\ UnreadOf(g)' = UnreadOf(g)
    BY <1>2, <1>3, <1>5, <1>7 DEF Lists, UnreadOf
  <2> QED  BY <1>4, <2>1 DEF DropInv
<1> QED  BY <1>6, <1>7

(* The lock taken for a READY turns its call into its listing. *)
LEMMA ReadyDrops == ASSUME Basic, DropInv, NEW c \in calls, HandleReady(c) PROVE DropInv'
<1> USE DEF Basic
<1> SUFFICES ASSUME NEW g \in Guilds
             PROVE  Cardinality(Drops(g))' + Hides(g)' + Cardinality(UnreadOf(g))'
                        <= Cardinality(Lists(g))'
  BY DEF DropInv
<1>1. c \in Unread /\ Unread' = Unread \ {c}
  BY ReadySets
<1>2. startupGuilds' = c.d.guilds /\ received' = received /\ dropped' = dropped
  BY DEF HandleReady, discordVars, auxVars
<1>3. Drops(g)' = Drops(g) /\ Lists(g)' = Lists(g)
  BY <1>2 DEF Drops, Lists, Readys
<1>4. /\ Cardinality(Drops(g)) + Hides(g) + Cardinality(UnreadOf(g)) <= Cardinality(Lists(g))
      /\ Hides(g) \in Nat
  BY DEF DropInv, Hides
<1>5. CASE g \in c.d.guilds
  <2>1. UnreadOf(g)' = UnreadOf(g) \ {c} /\ c \in UnreadOf(g)
    BY <1>1, <1>5 DEF UnreadOf
  <2>2. Cardinality(UnreadOf(g))' = Cardinality(UnreadOf(g)) - 1
    BY <2>1, DropSetsFinite, FS_RemoveElement
  <2>3. Hides(g)' = 1
    BY <1>2, <1>5 DEF Hides
  <2> QED  BY <1>3, <1>4, <2>2, <2>3, DropSetsFinite
<1>6. CASE g \notin c.d.guilds
  <2>1. UnreadOf(g)' = UnreadOf(g)
    BY <1>1, <1>6 DEF UnreadOf
  <2>2. Hides(g)' = 0
    BY <1>2, <1>6 DEF Hides
  <2> QED  BY <1>3, <1>4, <2>1, <2>2, DropSetsFinite
<1> QED  BY <1>5, <1>6

(* A drop uses its listing up. *)
LEMMA GuildDrops ==
    ASSUME Basic, DropInv, NEW c \in calls, HandleGuildCreate(c) PROVE DropInv'
<1> USE DEF Basic
<1> SUFFICES ASSUME NEW g \in Guilds
             PROVE  Cardinality(Drops(g))' + Hides(g)' + Cardinality(UnreadOf(g))'
                        <= Cardinality(Lists(g))'
  BY DEF DropInv
<1>1. /\ At(c, "handle", {"GUILD_CREATE"}) /\ received' = received
      /\ startupGuilds' = startupGuilds \ c.d.guilds
      /\ \/ /\ c.d.guilds \subseteq startupGuilds
            /\ dropped' = dropped \cup {c.d} /\ Done(c)
         \/ dropped' = dropped /\ MoveTo(c, "append")
  BY DEF HandleGuildCreate, discordVars
<1>2. Unread' = Unread
  <2>1. c \notin Unread
    BY <1>1 DEF At, Unread
  <2> QED  BY <1>1, <2>1, DoneSets, KeepSets
<1>3. UnreadOf(g)' = UnreadOf(g) /\ Lists(g)' = Lists(g)
  BY <1>1, <1>2 DEF UnreadOf, Lists, Readys
<1>4. /\ Cardinality(Drops(g)) + Hides(g) + Cardinality(UnreadOf(g)) <= Cardinality(Lists(g))
      /\ Hides(g) \in Nat /\ Hides(g)' \in Nat /\ Hides(g)' <= Hides(g)
  BY <1>1 DEF DropInv, Hides
<1>5. CASE dropped' = dropped
  <2>1. Drops(g)' = Drops(g)
    BY <1>5 DEF Drops
  <2> QED  BY <1>3, <1>4, <2>1, DropSetsFinite
<1>6. CASE c.d.guilds \subseteq startupGuilds /\ dropped' = dropped \cup {c.d}
  <2>1. CASE c.d.guilds = {g}
    <3>1. Drops(g)' = Drops(g) \cup {c.d}
      BY <1>6, <2>1 DEF Drops
    <3>2. Cardinality(Drops(g))' \in Nat /\ Cardinality(Drops(g))' <= Cardinality(Drops(g)) + 1
      <4>1. Cardinality(Drops(g) \cup {c.d}) =
                IF c.d \in Drops(g) THEN Cardinality(Drops(g)) ELSE Cardinality(Drops(g)) + 1
        BY DropSetsFinite, FS_AddElement
      <4>2. Cardinality(Drops(g)) \in Nat
        BY DropSetsFinite
      <4> QED  BY <3>1, <4>1, <4>2
    <3>3. Hides(g) = 1 /\ Hides(g)' = 0
      BY <1>1, <1>6, <2>1 DEF Hides
    <3> QED  BY <1>3, <1>4, <3>2, <3>3, DropSetsFinite
  <2>2. CASE c.d.guilds # {g}
    <3>1. Drops(g)' = Drops(g)
      BY <1>6, <2>2 DEF Drops
    <3> QED  BY <1>3, <1>4, <3>1, DropSetsFinite
  <2> QED  BY <2>1, <2>2
<1> QED  BY <1>1, <1>5, <1>6

(* Nothing else touches listings and drops. *)
LEMMA OtherDrops ==
    ASSUME Basic, DropInv,
           \/ Outside \/ UNCHANGED vars
           \/ \E c \in calls : Announce(c) \/ Mark(c) \/ HandleResumed(c) \/ Buffer(c)
    PROVE  DropInv'
<1>1. UNCHANGED <<received, startupGuilds, dropped, Unread>>
  <2>1. CASE Outside
    BY <2>1, OutsideQuiet DEF gateVars, auxVars
  <2>2. CASE UNCHANGED vars
    BY <2>2 DEF vars, discordVars, gateVars, auxVars, Unread
  <2>3. ASSUME NEW c \in calls, Announce(c) \/ Mark(c) \/ HandleResumed(c) \/ Buffer(c)
        PROVE  UNCHANGED <<received, startupGuilds, dropped, Unread>>
    <3>1. Done(c) /\ c \notin Unread
      BY <2>3 DEF Announce, Mark, HandleResumed, Buffer, Buffered, At, Unread
    <3>2. UNCHANGED <<received, startupGuilds, dropped>>
      BY <2>3 DEF Announce, Mark, HandleResumed, Buffer, discordVars, gateVars, auxVars
    <3> QED  BY <3>1, <3>2, DoneSets
  <2> QED  BY <2>1, <2>2, <2>3
<1>2. Readys' = Readys
  BY <1>1 DEF Readys
<1> QED  BY <1>1, <1>2 DEF DropInv, Drops, Hides, UnreadOf, Lists

(* A listing hides one GUILD_CREATE of its guild, however calls overlap.   *)
LEMMA DropsImply == Basic /\ DropInv => OneDropPerListing
<1> SUFFICES ASSUME Basic, DropInv, NEW g \in Guilds
             PROVE  Cardinality({d \in dropped : d.guilds = {g}}) <=
                        Cardinality({i \in DOMAIN received :
                            received[i].type = "READY" /\ g \in received[i].guilds})
  BY DEF OneDropPerListing
<1>1. /\ {d \in dropped : d.guilds = {g}} = Drops(g)
      /\ {i \in DOMAIN received :
            received[i].type = "READY" /\ g \in received[i].guilds} = Lists(g)
  BY DEF Drops, Lists, Readys
<1>2. /\ Cardinality(Drops(g)) + Hides(g) + Cardinality(UnreadOf(g)) <= Cardinality(Lists(g))
      /\ Hides(g) \in Nat
  BY DEF DropInv, Hides
<1>3. /\ Cardinality(Drops(g)) \in Nat /\ Cardinality(UnreadOf(g)) \in Nat
      /\ Cardinality(Lists(g)) \in Nat
  BY DropSetsFinite DEF Basic
<1>4. Cardinality(Drops(g)) <= Cardinality(Lists(g))
  BY <1>2, <1>3
<1> QED  BY <1>1, <1>4

LEMMA DropsHold ==
    /\ Init => DropInv
    /\ Basic /\ DropInv /\ [Next]_vars => DropInv'
<1>1. ASSUME Init PROVE DropInv
  <2>1. ASSUME NEW g \in Guilds
        PROVE  Drops(g) = {} /\ Lists(g) = {} /\ UnreadOf(g) = {} /\ Hides(g) = 0
    BY <1>1 DEF Init, Drops, Lists, Readys, UnreadOf, Unread, Hides
  <2> QED  BY <2>1, FS_EmptySet DEF DropInv
<1>2. ASSUME Basic, DropInv, [Next]_vars PROVE DropInv'
  BY <1>2, Steps, ArrivalDrops, ReadyDrops, GuildDrops, OtherDrops
<1> QED  BY <1>1, <1>2

-----------------------------------------------------------------------------
(* As long as no call has overlapped another, one is under way at most, and *)
(* it is for the newest session.  Only a GUILD_CREATE is of the burst.     *)
AloneInv ==
    /\ \A b, c \in calls : b = c
    /\ \A c \in calls : c.d.session = Session
    /\ \A c \in calls : c.d.burst => c.d.type = "GUILD_CREATE"

(* The guilds still to be filled in are listed, and a call of the burst    *)
(* finds its guild there; any other finds a guild that is not.             *)
Finds(c) ==
    \/ c.pc = "handle" /\ c.d.type = "READY" /\ pending \subseteq c.d.guilds
    \/ /\ c.pc = "handle" /\ c.d.type = "GUILD_CREATE"
       /\ pending \subseteq startupGuilds \ c.d.guilds
       /\ c.d.burst => c.d.guilds \subseteq startupGuilds
    \/ /\ ~(c.pc = "handle" /\ c.d.type \in {"READY", "GUILD_CREATE"})
       /\ pending \subseteq startupGuilds /\ ~c.d.burst

BurstInv ==
    /\ calls = {} => pending \subseteq startupGuilds
    /\ \A c \in calls : Finds(c)
    /\ BurstNotStored

(* The buffer holds the sessions in their order, a marker before the rest  *)
(* of its own, and nothing of a session whose READY is under way.          *)
InSessionOrder ==
    /\ \A i \in DOMAIN stored : stored[i].d.session <= Session
    /\ \A i, j \in DOMAIN stored : i < j => stored[i].d.session <= stored[j].d.session
    /\ \A i \in Markers, j \in DOMAIN stored :
           j < i => stored[j].d.session < stored[i].d.session
    /\ \A c \in calls : c.d.type = "READY" =>
           \A i \in DOMAIN stored : stored[i].d.session < c.d.session

OrderInv == inOrder => AloneInv /\ BurstInv /\ InSessionOrder

(* What is stored has the number of a session. *)
LEMMA StoredTyped ==
    ASSUME TypeOK
    PROVE  /\ Len(stored) \in Nat /\ DOMAIN stored = 1 .. Len(stored)
           /\ \A i \in DOMAIN stored : stored[i].d.session \in Nat
<1>1. /\ Len(stored) \in Nat /\ DOMAIN stored = 1 .. Len(stored)
      /\ \A i \in DOMAIN stored : stored[i] \in [marker: BOOLEAN, d: Dispatch]
  <2> DEFINE S == [marker: BOOLEAN, d: Dispatch]
  <2>1. stored \in Seq(S)
    BY DEF TypeOK
  <2> HIDE DEF S
  <2>2. /\ Len(stored) \in Nat /\ DOMAIN stored = 1 .. Len(stored)
        /\ \A i \in DOMAIN stored : stored[i] \in S
    BY <2>1
  <2> QED  BY <2>2 DEF S
<1>2. \A e \in [marker: BOOLEAN, d: Dispatch] : e.d \in Dispatch
  OBVIOUS
<1>3. \A d \in Dispatch : d.session \in Nat
  BY DEF Dispatch
<1> QED  BY <1>1, <1>2, <1>3

(* A READY that arrives starts a session. *)
LEMMA SessionSteps ==
    ASSUME Basic, NEW d \in Dispatch, Arrives(d)
    PROVE  Session \in Nat /\ Session' = d.session /\ d.session >= Session
<1>1. Session \in Nat /\ Session = Cardinality(Readys)
  BY SessionCounts, SetsFinite DEF Basic
<1>2. /\ Readys' = IF d.type = "READY" THEN Readys \cup {d.n} ELSE Readys
      /\ d.n \notin Readys
  BY ArrivalSets
<1>3. Cardinality(Readys \cup {d.n}) = Cardinality(Readys) + 1
  BY <1>2, SetsFinite, FS_AddElement DEF Basic
<1>4. Session' = Cardinality(Readys')
  BY DEF Session, Readys
<1> QED  BY <1>1, <1>2, <1>3, <1>4 DEF Arrives

(* While no other call is under way, an arrival finds everything in place. *)
LEMMA ArrivalOrder == ASSUME Basic, OrderInv, Environment PROVE OrderInv'
<1> USE DEF Basic
<1>1. PICK d \in Dispatch : Arrives(d) /\ Follows(d)
  BY Arrival
<1> SUFFICES ASSUME inOrder' PROVE (AloneInv /\ BurstInv /\ InSessionOrder)'
  BY DEF OrderInv
<1>2. inOrder /\ calls = {}
  BY <1>1 DEF Arrives
<1> DEFINE c == [d |-> d, pc |-> "handle"]
<1>3. calls' = {c} /\ c.d = d /\ c.pc = "handle"
  BY <1>1, <1>2 DEF Arrives
<1> HIDE DEF c
<1>4. /\ UNCHANGED <<stored, startupGuilds, Entries, Markers>>
      /\ Session \in Nat /\ Session' = d.session /\ d.session >= Session
      /\ d.session \in Nat
  BY <1>1, SessionSteps, ArrivalSets DEF Arrives, bufferVars, gateVars, Dispatch
<1>5. AloneInv'
  BY <1>1, <1>3, <1>4 DEF AloneInv, Arrives
<1>6. BurstInv'
  <2>1. pending \subseteq startupGuilds /\ pending \subseteq member /\ BurstNotStored
    BY <1>2 DEF OrderInv, BurstInv, TypeOK
  <2>2. d.burst \in BOOLEAN
    BY DEF Dispatch
  <2>3. Finds(c)'
    <3>1. CASE d.type = "READY"
      BY <1>1, <1>3, <3>1 DEF Follows, Finds
    <3>2. CASE d.type = "GUILD_CREATE" /\ d.burst
      <4>1. PICK g \in pending : d.guilds = {g} /\ pending' = pending \ {g}
        BY <1>1, <3>2 DEF Follows
      <4> QED  BY <1>3, <1>4, <2>1, <3>2, <4>1 DEF Finds
    <3>3. CASE d.type = "GUILD_CREATE" /\ ~d.burst
      <4>1. PICK g \in Guilds \ member : d.guilds = {g} /\ pending' = pending
        BY <1>1, <3>3 DEF Follows
      <4> QED  BY <1>3, <1>4, <2>1, <3>3, <4>1 DEF Finds
    <3>4. CASE d.type \notin {"READY", "GUILD_CREATE"}
      <4>1. pending' \subseteq pending /\ ~d.burst
        BY <1>1, <3>4 DEF Follows
      <4> QED  BY <1>3, <1>4, <2>1, <3>4, <4>1 DEF Finds
    <3> QED  BY <2>2, <3>1, <3>2, <3>3, <3>4
  <2> QED  BY <1>3, <1>4, <2>1, <2>3 DEF BurstInv, BurstNotStored
<1>7. InSessionOrder'
  <2>1. InSessionOrder /\ \A i \in DOMAIN stored : stored[i].d.session \in Nat
    BY <1>2, StoredTyped DEF OrderInv
  <2>2. d.type = "READY" => d.session > Session
    BY <1>1, <1>4 DEF Arrives
  <2> QED  BY <1>3, <1>4, <2>1, <2>2 DEF InSessionOrder
<1> QED  BY <1>5, <1>6, <1>7

(* A step of the only call that leaves Discord alone. *)
LEMMA CallOrder ==
    ASSUME Basic, OrderInv, NEW c \in calls, NEW b,
           UNCHANGED <<discordVars, bufferVars, inOrder>>,
           \/ Done(c) /\ pending \subseteq startupGuilds'
           \/ calls' = (calls \ {c}) \cup {b} /\ b.d = c.d /\ Finds(b)'
    PROVE  OrderInv'
<1> USE DEF Basic
<1> SUFFICES ASSUME inOrder PROVE (AloneInv /\ BurstInv /\ InSessionOrder)'
  BY DEF OrderInv
<1>1. AloneInv /\ BurstInv /\ InSessionOrder
  BY DEF OrderInv
<1>2. UNCHANGED <<pending, received, stored, Entries, Markers, Session>>
  BY DEF discordVars, bufferVars, Entries, Markers, Session
<1>3. calls = {c}
  BY <1>1 DEF AloneInv
<1>4. \A a \in calls' : a.d = c.d /\ Finds(a)'
  BY <1>3 DEF Done
<1>5. AloneInv'
  BY <1>1, <1>2, <1>3, <1>4 DEF AloneInv, Done
<1>6. calls' = {} => pending' \subseteq startupGuilds'
  BY <1>2
<1>7. BurstInv'
  BY <1>1, <1>2, <1>4, <1>6 DEF BurstInv, BurstNotStored
<1>8. InSessionOrder'
  BY <1>1, <1>2, <1>4 DEF InSessionOrder
<1> QED  BY <1>5, <1>7, <1>8

(* What the only call stores comes after everything of its session. *)
LEMMA StoreOrder ==
    ASSUME Basic, OrderInv, NEW c \in calls, Mark(c) \/ Buffer(c)
    PROVE  OrderInv'
<1> USE DEF Basic
<1>1. PICK m \in BOOLEAN :
        /\ BufAppend([marker |-> m, d |-> c.d]) /\ Done(c)
        /\ m => c.d.type = "READY"
        /\ ~m => ~(c.pc = "handle" /\ c.d.type \in {"READY", "GUILD_CREATE"})
        /\ ~(c.pc = "handle" /\ c.d.type \in {"READY", "GUILD_CREATE"})
  BY DEF Mark, Buffer, Buffered, At
<1>2. UNCHANGED <<discordVars, gateVars, auxVars>>
  BY DEF Mark, Buffer
<1> SUFFICES ASSUME inOrder PROVE (AloneInv /\ BurstInv /\ InSessionOrder)'
  BY <1>2 DEF OrderInv, auxVars
<1>3. AloneInv /\ BurstInv /\ InSessionOrder
  BY DEF OrderInv
<1>4. calls = {c} /\ calls' = {} /\ c.d \in Dispatch
  BY <1>1, <1>3 DEF AloneInv, Done, TypeOK
<1>5. UNCHANGED <<pending, startupGuilds, Session>>
  BY <1>2 DEF discordVars, gateVars, Session
<1>6. Finds(c) /\ c.d.session = Session
  BY <1>3 DEF BurstInv, AloneInv
<1>7. pending \subseteq startupGuilds /\ ~c.d.burst
  BY <1>1, <1>6 DEF Finds
<1>8. AloneInv'
  BY <1>4 DEF AloneInv
<1>9. CASE bufClosed
  <2>1. UNCHANGED <<stored, Entries, Markers>>
    BY <1>1, <1>9, ClosedSets
  <2>2. BurstInv'
    BY <1>3, <1>4, <1>5, <1>7, <2>1 DEF BurstInv, BurstNotStored
  <2>3. InSessionOrder'
    BY <1>3, <1>4, <1>5, <2>1 DEF InSessionOrder
  <2> QED  BY <1>8, <2>2, <2>3
<1>10. CASE ~bufClosed
  <2>1. /\ Len(stored') = Len(stored) + 1
        /\ \A i \in DOMAIN stored : stored'[i] = stored[i]
        /\ stored'[Len(stored')] = [marker |-> m, d |-> c.d]
        /\ Entries' = IF m THEN Entries ELSE Entries \cup {c.d}
        /\ Markers' = IF m THEN Markers \cup {Len(stored')} ELSE Markers
    BY <1>1, <1>4, <1>10, AppendSets
  <2>2. BurstInv'
    BY <1>3, <1>4, <1>5, <1>7, <2>1 DEF BurstInv, BurstNotStored
  <2>3. /\ Len(stored) \in Nat /\ DOMAIN stored = 1 .. Len(stored)
        /\ \A i \in DOMAIN stored : stored[i].d.session \in Nat
        /\ c.d.session \in Nat
    BY <1>4, StoredTyped DEF Dispatch
  <2>4. DOMAIN stored' = 1 .. Len(stored) + 1
    <3>1. stored' = Append(stored, [marker |-> m, d |-> c.d])
      BY <1>1, <1>10 DEF BufAppend
    <3>2. stored \in Seq([marker: BOOLEAN, d: Dispatch])
      BY DEF TypeOK
    <3>3. [marker |-> m, d |-> c.d] \in [marker: BOOLEAN, d: Dispatch]
      BY <1>4
    <3> QED  BY <3>1, <3>2, <3>3
  <2>5. /\ \A i \in DOMAIN stored : stored'[i].d.session = stored[i].d.session
        /\ stored'[Len(stored) + 1].d.session = c.d.session
    BY <2>1
  <2>6. \A i \in DOMAIN stored : stored[i].d.session <= c.d.session
    BY <1>3, <1>6 DEF InSessionOrder
  <2>7. m => \A i \in DOMAIN stored : stored[i].d.session < c.d.session
    BY <1>1, <1>3 DEF InSessionOrder
  <2>8. \A i \in DOMAIN stored' : stored'[i].d.session <= Session'
    BY <1>5, <1>6, <2>3, <2>4, <2>5, <2>6
  <2>9. \A i, j \in DOMAIN stored' :
            i < j => stored'[i].d.session <= stored'[j].d.session
    BY <1>3, <2>3, <2>4, <2>5, <2>6 DEF InSessionOrder
  <2>10. \A i \in Markers', j \in DOMAIN stored' :
            j < i => stored'[j].d.session < stored'[i].d.session
    <3>1. Markers \subseteq DOMAIN stored
      BY DEF Markers
    <3> QED  BY <1>3, <2>1, <2>3, <2>4, <2>5, <2>7, <3>1 DEF InSessionOrder
  <2> QED  BY <1>4, <1>8, <2>2, <2>8, <2>9, <2>10 DEF InSessionOrder
<1> QED  BY <1>9, <1>10

(* The other steps of the only call. *)
LEMMA HandleOrder ==
    ASSUME Basic, OrderInv, NEW c \in calls,
           HandleReady(c) \/ Announce(c) \/ HandleResumed(c) \/ HandleGuildCreate(c)
    PROVE  OrderInv'
<1> USE DEF Basic
<1>1. UNCHANGED <<discordVars, bufferVars, inOrder>>
  BY DEF HandleReady, Announce, HandleResumed, HandleGuildCreate, auxVars
<1> SUFFICES ASSUME inOrder PROVE OrderInv'
  BY <1>1 DEF OrderInv
<1>2. Finds(c) /\ (c.d.burst => c.d.type = "GUILD_CREATE")
  BY DEF OrderInv, AloneInv, BurstInv
<1>3. pending' = pending
  BY <1>1 DEF discordVars
<1>4. CASE HandleReady(c)
  <2>1. \E b : b.d = c.d /\ b.pc = AfterReady /\ calls' = (calls \ {c}) \cup {b}
    BY <1>4, ReadySets
  <2>2. AfterReady # "handle"
    BY DEF AfterReady
  <2>3. PICK b : b.d = c.d /\ b.pc # "handle" /\ calls' = (calls \ {c}) \cup {b}
    BY <2>1, <2>2
  <2>4. c.pc = "handle" /\ c.d.type = "READY" /\ startupGuilds' = c.d.guilds
    BY <1>4 DEF HandleReady, At
  <2>5. pending \subseteq c.d.guilds /\ ~c.d.burst
    BY <1>2, <2>4 DEF Finds
  <2>6. Finds(b)'
    BY <1>3, <2>3, <2>4, <2>5 DEF Finds
  <2> QED  BY <1>1, <2>3, <2>6, CallOrder
<1>5. CASE Announce(c) \/ HandleResumed(c)
  <2>1. /\ Done(c) /\ startupGuilds' = startupGuilds
        /\ ~(c.pc = "handle" /\ c.d.type \in {"READY", "GUILD_CREATE"})
    BY <1>5 DEF Announce, HandleResumed, At, gateVars
  <2>2. pending \subseteq startupGuilds'
    BY <1>2, <2>1 DEF Finds
  <2> QED  BY <1>1, <2>1, <2>2, CallOrder
<1>6. CASE HandleGuildCreate(c)
  <2>1. /\ At(c, "handle", {"GUILD_CREATE"})
        /\ startupGuilds' = startupGuilds \ c.d.guilds
        /\ \/ Done(c)
           \/ ~(c.d.guilds \subseteq startupGuilds) /\ MoveTo(c, "append")
    BY <1>6 DEF HandleGuildCreate
  <2>2. /\ pending \subseteq startupGuilds'
        /\ c.d.burst => c.d.guilds \subseteq startupGuilds
    BY <1>2, <2>1 DEF Finds, At
  <2>3. CASE Done(c)
    BY <1>1, <2>2, <2>3, CallOrder
  <2>4. CASE ~(c.d.guilds \subseteq startupGuilds) /\ MoveTo(c, "append")
    <3> DEFINE b == [c EXCEPT !.pc = "append"]
    <3>1. b.d = c.d /\ b.pc = "append" /\ calls' = (calls \ {c}) \cup {b}
      BY <2>1, <2>4, KeepSets
    <3> HIDE DEF b
    <3>2. Finds(b)'
      BY <1>3, <2>2, <2>4, <3>1 DEF Finds
    <3> QED  BY <1>1, <3>1, <3>2, CallOrder
  <2> QED  BY <2>1, <2>3, <2>4
<1> QED  BY <1>4, <1>5, <1>6

(* OrderInv is inductive. *)
LEMMA OrderHolds ==
    /\ Init => OrderInv
    /\ Basic /\ OrderInv /\ [Next]_vars => OrderInv'
<1>1. ASSUME Init PROVE OrderInv
  <2>1. Entries = {} /\ Markers = {} /\ stored = <<>> /\ calls = {} /\ pending = {}
    BY <1>1 DEF Init, Entries, Markers
  <2> QED  BY <2>1 DEF OrderInv, AloneInv, BurstInv, BurstNotStored, InSessionOrder
<1>2. ASSUME Basic, OrderInv, [Next]_vars PROVE OrderInv'
  <2>1. CASE Outside \/ UNCHANGED vars
    <3>1. UNCHANGED <<pending, received, calls, startupGuilds, stored, inOrder>>
      <4>1. CASE Outside
        BY <4>1, OutsideQuiet DEF gateVars, auxVars
      <4>2. CASE UNCHANGED vars
        BY <4>2 DEF vars, discordVars, gateVars, bufferVars, auxVars
      <4> QED  BY <2>1, <4>1, <4>2
    <3>2. UNCHANGED <<Entries, Markers, Session>>
      BY <3>1 DEF Entries, Markers, Session
    <3> QED
      BY <1>2, <3>1, <3>2 DEF OrderInv, AloneInv, BurstInv, Finds, BurstNotStored,
                              InSessionOrder
  <2> QED
    BY <1>2, <2>1, Steps, ArrivalOrder, StoreOrder, HandleOrder
<1> QED  BY <1>1, <1>2

(* A listing of a guild hides one GUILD_CREATE of it at most, however the  *)
(* calls of handle overlap, and as long as they do not overlap the whole   *)
(* of the startup burst is hidden.                                         *)
THEOREM StartupBurst == Spec => []BurstHidden
<1> DEFINE I == Basic /\ DropInv /\ OrderInv
<1>1. Init => I
  BY InitBasic, DropsHold, OrderHolds
<1>2. I /\ [Next]_vars => I'
  BY BasicStep, DropsHold, OrderHolds
<1>3. I => BurstHidden
  BY DropsImply DEF BurstHidden, BurstNotStoredInOrder, OrderInv, BurstInv
<1> HIDE DEF I
<1> QED  BY <1>1, <1>2, <1>3, PTL DEF Spec

(* A new session puts one marker in the buffer, however the calls overlap, *)
(* and as long as they do not overlap the marker stands between what came  *)
(* before the session and what comes in it.                                *)
THEOREM MarkersInPlace == Spec => []SessionsMarked
<1> DEFINE I == Basic /\ OrderInv
<1>1. Init => I
  BY InitBasic, OrderHolds
<1>2. I /\ [Next]_vars => I'
  BY BasicStep, OrderHolds
<1>3. I => MarkerSeparatesSessions
  <2> SUFFICES ASSUME I, inOrder, NEW i \in Markers, NEW j \in DOMAIN stored
               PROVE  /\ j < i => stored[j].d.session < stored[i].d.session
                      /\ j > i => stored[j].d.session >= stored[i].d.session
    BY DEF MarkerSeparatesSessions
  <2>1. InSessionOrder /\ i \in DOMAIN stored
    BY DEF OrderInv, Markers
  <2>2. /\ i \in Nat /\ j \in Nat
        /\ stored[i].d.session \in Nat /\ stored[j].d.session \in Nat
    BY <2>1, StoredTyped DEF Basic
  <2> QED  BY <2>1, <2>2 DEF InSessionOrder
<1>4. I /\ MarkerPerReconnect => SessionsMarked
  BY <1>3 DEF SessionsMarked
<1> HIDE DEF I
<1> QED  BY <1>1, <1>2, <1>4, MarkedOnce, PTL DEF Spec
=============================================================================
