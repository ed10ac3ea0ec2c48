--------------------------- MODULE ConnectionProofs ---------------------------
(***************************************************************************)
(* Proofs about Connection, for any sessions and any bounds: what the      *)
(* request loop waits for is remembered, the table has what the client was *)
(* told of and names nothing a session has let go of, and a session in the *)
(* registry keeps its root and is never left by its routes.                *)
(*                                                                         *)
(* The table is no function of the sessions' handles: a session may have   *)
(* dropped a handle whose route the request loop is about to take out, or  *)
(* have made one whose route the forwarder is about to put in.  The        *)
(* invariant says which is which: a route that resolves to nothing is      *)
(* Doomed by the reply in hand, and an id that is not routed yet stands in *)
(* one event in flight (Unsent) and nobody has heard of it (Untold).       *)
(***************************************************************************)
EXTENDS Connection, TLAPS, FiniteSetTheorems

(* The request loop waits for one command at a time, and the command, the  *)
(* reply and the acknowledgement a session owes are one another's turn.    *)
OneCommand ==
    /\ current # None <=> request \in {"wait", "wait_release"}
    /\ current # None => (current.kind = "drop" <=> request = "wait_release")
    /\ reply # None => current # None
    /\ \A s \in Sessions : cmd[s] # None =>
         cmd[s] = current /\ current.id[1] = s /\ reply = None
    /\ \A s \in Sessions : phase[s] = "acking" =>
         /\ cmd[s] = None /\ reply = None
         /\ current # None /\ current.id[1] = s /\ current.kind \in {"release", "drop"}

(* session.rs, shutdown_reply: the request loop never waits for a session  *)
(* that has forgotten it.                                                  *)
AnswerOwed ==
    current # None =>
        \/ reply # None
        \/ cmd[current.id[1]] = current /\ phase[current.id[1]] \in {"live", "ending"}
        \/ phase[current.id[1]] = "acking"

Issued(id) == id[2] < minted[id[1]]

(* Ids come from one counter per session. *)
FromCounter ==
    /\ \A s \in Sessions :
         /\ phase[s] = "none" <=> minted[s] = 0
         /\ \A n \in handles[s] : n < minted[s]
         /\ \A e \in 0 .. MaxId - 1 : \A n \in eventArgs[s][e] :
              0 < n /\ n < minted[s] /\ e < minted[s]
    /\ \A id \in routes \cup known : Issued(id)
    /\ \A i \in DOMAIN out : \A id \in out[i] : Issued(id)
    /\ current # None => Issued(current.id)
    /\ reply # None => \A id \in reply.ids : Issued(id)

(* An object is the argument of one event at most. *)
OneEvent ==
    \A s \in Sessions : \A d, e \in 0 .. MaxId - 1 :
        d # e => eventArgs[s][d] \cap eventArgs[s][e] = {}

Live(s) == phase[s] = "live"
Serving == request \in {"read", "wait"}
Names(e) == {e.seq} \cup e.ids

(* Nobody but the session and the forwarder can have heard of the id. *)
Untold(id) ==
    /\ id \notin known
    /\ \A i \in DOMAIN out : id \notin out[i]
    /\ request = "wait" => current.id # id
    /\ reply # None /\ reply.kind = "minted" => id \notin reply.ids

(* The arguments of an event not yet sent are the session's record of it;  *)
(* its own number is no handle.                                            *)
Carries(e) ==
    /\ \A id \in Names(e) : Issued(id) /\ id[1] = e.seq[1] /\ id[2] # 0
    /\ e.seq[2] \notin handles[e.seq[1]]
    /\ Live(e.seq[1]) /\ Serving =>
         \A id \in e.ids : id[2] \in handles[id[1]] /\ id[2] \in eventArgs[id[1]][e.seq[2]]

InFlight(e) == Carries(e) /\ \A id \in Names(e) : Untold(id)
Forwarding == forwarder.pc \in {"insert", "send"}

Unsent ==
    /\ \A i \in DOMAIN events : InFlight(events[i])
    /\ \A i, j \in DOMAIN events : i # j => Names(events[i]) \cap Names(events[j]) = {}
    /\ Forwarding =>
         /\ forwarder.seq \in Ids /\ InFlight(forwarder)
         /\ \A i \in DOMAIN events : Names(events[i]) \cap Names(forwarder) = {}
    /\ forwarder.route = IF forwarder.pc = "insert" THEN forwarder.seq[1] ELSE None

(* What a reply says of its session. *)
Replies ==
    reply # None =>
        /\ reply.kind = "minted" =>
             /\ current.kind = "invoke"
             /\ reply.ids = {} \/ \E id \in Ids : reply.ids = {id}
             /\ \A id \in reply.ids :
                  id[1] = current.id[1] /\ (Live(id[1]) => id[2] \in handles[id[1]])
        /\ reply.kind = "released" =>
             \A id \in reply.ids : Live(id[1]) => id[2] # 0 /\ id[2] \notin handles[id[1]]
        /\ reply.kind \in {"done", "dropped"} /\ current.kind \in {"release", "drop"} =>
             (Live(current.id[1]) =>
                /\ current.id[2] \notin handles[current.id[1]]
                /\ current.id[1] \in Plain \/ current.id[2] # 0)
        /\ current.kind \in {"release", "drop"} =>
             reply.kind \in {"done", "pending", "dropped"}
        /\ reply.kind = "pending" => current.kind = "release"

(* The request loop is about to take the route out. *)
Doomed(id) ==
    /\ reply # None
    /\ \/ reply.kind = "released" /\ id \in reply.ids
       \/ reply.kind = "done" /\ current.kind = "release" /\ id = current.id

Resolving == Serving => \A id \in routes : Live(id[1]) => id[2] \in handles[id[1]] \/ Doomed(id)

(* The client has been told, or will be by a frame that is on its way. *)
Told(id) ==
    \/ id \in known
    \/ \E i \in DOMAIN out : id \in out[i]
    \/ forwarder.pc = "send" /\ id \in forwarder.ids

(* A session whose last route goes while an event of it is being routed    *)
(* is reachable again after.                                               *)
Reachable(s) == RoutesOf(s) # {} \/ forwarder.route = s

Telling ==
    Serving => \A id \in Ids :
        Told(id) /\ Live(id[1]) /\ id[2] \in handles[id[1]] /\ Reachable(id[1])
            => id \in routes

(* A command in wait was routed when it was sent, and its route stays. *)
InvokedIsRouted ==
    request = "wait" /\ current.kind = "invoke" => current.id \in routes

Rooted ==
    \A s \in Sessions \ Plain : Live(s) =>
        Root(s) \in routes \/ (request = "wait_release" /\ current.id = Root(s))

(* release_all visits the root of every session the connection created.    *)
RootsVisited ==
    /\ \A s \in Sessions : phase[s] # "none" => \E i \in DOMAIN owned : owned[i] = Root(s)
    /\ request \in {"release_all", "wait_release"} =>
         \A i \in DOMAIN owned : i > left /\ owned[i][2] = 0 => owned[i] \notin routes

Purged ==
    request \in {"join_forwarder", "join_writer", "closed"} => late \/ routes = {}

IInv ==
    /\ TypeOK
    /\ OneCommand /\ AnswerOwed /\ FromCounter /\ OneEvent
    /\ Unsent /\ Replies /\ InvokedIsRouted
    /\ Resolving /\ Telling /\ Rooted /\ RootsVisited /\ Purged

-----------------------------------------------------------------------------
(* Ids, and what is no id.                                                 *)

USE PlainAssumption, MaxIdAssumption

LEMMA IdPairs ==
    ASSUME NEW id \in Ids
    PROVE  id[1] \in Sessions /\ id[2] \in 0 .. MaxId - 1 /\ id = <<id[1], id[2]>>
BY DEF Ids

LEMMA PairsOf ==
    ASSUME NEW s, NEW N
    PROVE  /\ \A id \in {s} \X N : id[1] = s /\ id[2] \in N /\ id = <<s, id[2]>>
           /\ {s} \X {} = {}
           /\ \A n : {s} \X {n} = {<<s, n>>}
OBVIOUS

LEMMA RootIsId == ASSUME NEW s \in Sessions
                  PROVE Root(s) \in Ids /\ Root(s)[1] = s /\ Root(s)[2] = 0
BY DEF Ids, Root

LEMMA CommandIsSome ==
    ASSUME NEW k \in Kind, NEW id \in Ids
    PROVE  /\ [kind |-> k, id |-> id] \in Command
           /\ [kind |-> k, id |-> id] # None
BY NoneAssumption DEF Command

LEMMA ReplyIsSome ==
    ASSUME NEW ids \in SUBSET Ids
    PROVE  /\ Minted(ids) \in Reply /\ Minted(ids) # None
           /\ Released(ids) \in Reply /\ Released(ids) # None
           /\ Done \in Reply /\ Done # None
           /\ Pending \in Reply /\ Pending # None
           /\ Dropped \in Reply /\ Dropped # None
BY NoneAssumption DEF Reply, Minted, Released, Done, Pending, Dropped

-----------------------------------------------------------------------------
(* Queues.                                                                 *)

LEMMA AppendPlaces ==
    ASSUME NEW S, NEW q \in Seq(S), NEW x \in S
    PROVE  /\ Append(q, x) \in Seq(S)
           /\ Len(Append(q, x)) = Len(q) + 1
           /\ \A i \in DOMAIN Append(q, x) :
                \/ i \in DOMAIN q /\ Append(q, x)[i] = q[i]
                \/ i = Len(q) + 1 /\ Append(q, x)[i] = x
           /\ \A i \in DOMAIN q : i \in DOMAIN Append(q, x) /\ Append(q, x)[i] = q[i]
           /\ Len(q) + 1 \in DOMAIN Append(q, x) /\ Append(q, x)[Len(q) + 1] = x
OBVIOUS

LEMMA TailPlaces ==
    ASSUME NEW S, NEW q \in Seq(S), q # <<>>
    PROVE  /\ Head(q) \in S /\ 1 \in DOMAIN q /\ Head(q) = q[1]
           /\ Tail(q) \in Seq(S)
           /\ \A i \in DOMAIN Tail(q) :
                i \in Nat /\ i + 1 \in DOMAIN q /\ i + 1 # 1 /\ Tail(q)[i] = q[i + 1]
OBVIOUS

LEMMA EmptyPlaces == ASSUME NEW S PROVE <<>> \in Seq(S) /\ DOMAIN <<>> = {} /\ Len(<<>>) = 0
OBVIOUS

LEMMA JoinPlaces ==
    ASSUME NEW S, NEW q \in Seq(S)
    PROVE  /\ q \o <<>> = q
           /\ \A x \in S : /\ q \o <<x>> \in Seq(S) /\ Len(q \o <<x>>) = Len(q) + 1
                           /\ \A i \in DOMAIN q :
                                i \in DOMAIN (q \o <<x>>) /\ (q \o <<x>>)[i] = q[i]
OBVIOUS

LEMMA QueuedPlaces ==
    ASSUME out \in Seq(SUBSET Ids), NEW ids \in SUBSET Ids
    PROVE  /\ Queued(ids) \in Seq(SUBSET Ids)
           /\ \A i \in DOMAIN Queued(ids) :
                \/ i \in DOMAIN out /\ Queued(ids)[i] = out[i]
                \/ Queued(ids)[i] = ids
           /\ \A i \in DOMAIN out : i \in DOMAIN Queued(ids) /\ Queued(ids)[i] = out[i]
<1>1. CASE writing /\ ids # {}
  BY <1>1, AppendPlaces DEF Queued
<1>2. CASE ~(writing /\ ids # {})
  BY <1>2 DEF Queued
<1> QED BY <1>1, <1>2

LEMMA PushedPlaces ==
    ASSUME events \in Seq(Event), NEW e \in Event
    PROVE  /\ Pushed(e) \in Seq(Event)
           /\ \A i \in DOMAIN Pushed(e) :
                \/ i \in DOMAIN events /\ Pushed(e)[i] = events[i]
                \/ i = Len(events) + 1 /\ Pushed(e)[i] = e
<1>1. CASE forwarder.pc = "done"
  BY <1>1 DEF Pushed
<1>2. CASE forwarder.pc # "done"
  BY <1>2, AppendPlaces DEF Pushed
<1> QED BY <1>1, <1>2

(* The ids of one answer, as the connection's list of them takes them in.  *)
LEMMA SetToSeqOfOne ==
    /\ SetToSeq({}) = <<>>
    /\ \A x : SetToSeq({x}) = <<x>>
<1>1. SetToSeq({}) = <<>>
  <2>1. Cardinality({}) = 0  BY FS_EmptySet
  <2>2. \A f \in [1 .. 0 -> {}] : f = <<>>
    OBVIOUS
  <2>3. <<>> \in {f \in [1 .. 0 -> {}] : IsInjective(f)}
    BY DEF IsInjective
  <2> QED BY <2>1, <2>2, <2>3 DEF SetToSeq
<1>2. ASSUME NEW x PROVE SetToSeq({x}) = <<x>>
  <2>1. Cardinality({x}) = 1  BY FS_Singleton
  <2>2. \A f \in [1 .. 1 -> {x}] : f = <<x>>
    OBVIOUS
  <2>3. <<x>> \in {f \in [1 .. 1 -> {x}] : IsInjective(f)}
    BY DEF IsInjective
  <2> QED BY <2>1, <2>2, <2>3 DEF SetToSeq
<1> QED BY <1>1, <1>2

-----------------------------------------------------------------------------
(* Types.                                                                  *)

LEMMA TypeInit == Init => TypeOK
<1> SUFFICES ASSUME Init PROVE TypeOK
  OBVIOUS
<1>1. <<>> \in Seq(Ids) /\ <<>> \in Seq(Event) /\ <<>> \in Seq(SUBSET Ids) /\ Len(<<>>) = 0
  BY EmptyPlaces
<1>2. NoArgs \in [0 .. MaxId - 1 -> SUBSET (0 .. MaxId - 1)]
  BY DEF NoArgs
<1>3. Idle \in [pc : {"take", "insert", "send", "done"}, ids : SUBSET Ids,
                seq : Ids \cup {None}, route : Sessions \cup {None}]
  BY DEF Idle
<1>4. eventArgs \in [Sessions -> [0 .. MaxId - 1 -> SUBSET (0 .. MaxId - 1)]]
  BY <1>2 DEF Init
<1>5. /\ phase \in [Sessions -> Phase]
      /\ handles \in [Sessions -> SUBSET (0 .. MaxId - 1)]
      /\ subs \in [Sessions -> SUBSET (0 .. MaxId - 1)]
  BY DEF Init, Phase
<1>6. /\ minted \in [Sessions -> 0 .. MaxId]
      /\ asked \in [Sessions -> 0 .. MaxId]
      /\ cmd \in [Sessions -> Command \cup {None}]
  BY DEF Init, NotAsked
<1>7. owned \in Seq(Ids) /\ left \in 0 .. Len(owned)
  BY <1>1 DEF Init
<1> QED
  BY <1>1, <1>3, <1>4, <1>5, <1>6, <1>7 DEF Init, TypeOK

LEMMA TypeOfAsk ==
    ASSUME TypeOK, NEW kind \in Kind, NEW id \in Ids, Ask(kind, id)
    PROVE  TypeOK'
BY CommandIsSome, IdPairs DEF TypeOK, Ask, sessionVars, forwarderVars, socketVars

LEMMA TypeOfCreate ==
    ASSUME TypeOK, NEW s \in Sessions, Create(s)
    PROVE  TypeOK'
<1>1. {Root(s)} \in SUBSET Ids /\ Root(s) \in Ids
  BY RootIsId
<1>2. owned' \in Seq(Ids) /\ Len(owned') = Len(owned) + 1
  BY <1>1, AppendPlaces DEF TypeOK, Create
<1>3. out' \in Seq(SUBSET Ids)
  BY <1>1, QueuedPlaces DEF TypeOK, Create
<1>4. /\ phase' \in [Sessions -> Phase] /\ minted' \in [Sessions -> 0 .. MaxId]
      /\ handles' \in [Sessions -> SUBSET (0 .. MaxId - 1)] /\ routes' \in SUBSET Ids
  <2>1. 0 \in 0 .. MaxId - 1 /\ 1 \in 0 .. MaxId /\ "live" \in Phase
    BY DEF Phase
  <2> QED BY <1>1, <2>1 DEF TypeOK, Create
<1>5. UNCHANGED <<subs, eventArgs, asked, cmd, reply, request, current, left, events, forwarder,
                  late, writing, known, connected>>
  BY DEF Create, forwarderVars
<1>6. left' \in 0 .. Len(owned')
  BY <1>2, <1>5 DEF TypeOK
<1> QED
  BY ONLY TypeOK, <1>2, <1>3, <1>4, <1>5, <1>6 DEF TypeOK

LEMMA TypeOfAnswer ==
    ASSUME TypeOK, Replies, Answer
    PROVE  TypeOK'
<1>1. NewIds \in SUBSET Ids /\ (NewIds = {} \/ \E id \in Ids : NewIds = {id})
  BY DEF NewIds, Replies, Answer, TypeOK, Reply
<1>2. owned' \in Seq(Ids) /\ Len(owned') \in Nat
  <2>1. CASE NewIds = {}
    <3>1. owned' = owned \o <<>>
      BY <2>1, SetToSeqOfOne DEF Answer
    <3> QED BY <3>1, JoinPlaces DEF TypeOK
  <2>2. ASSUME NEW id \in Ids, NewIds = {id} PROVE owned' \in Seq(Ids) /\ Len(owned') \in Nat
    <3>1. owned' = owned \o <<id>>
      BY <2>2, SetToSeqOfOne DEF Answer
    <3> QED BY <3>1, JoinPlaces DEF TypeOK
  <2> QED BY <1>1, <2>1, <2>2
<1>3. out' \in Seq(SUBSET Ids)
  BY <1>1, QueuedPlaces DEF TypeOK, Answer
<1>4. routes' \subseteq Ids
  BY DEF Answer, RoutesAfter, TypeOK, Reply
<1>5. /\ request' \in {"read", "release_all"} /\ left' \in 0 .. Len(owned')
      /\ current' = None /\ reply' = None
  BY <1>2 DEF Answer
<1>6. UNCHANGED <<phase, handles, minted, subs, eventArgs, asked, cmd, events, forwarder, late,
                  writing, known, connected>>
  BY DEF Answer, sessionVars, forwarderVars
<1> QED
  BY ONLY TypeOK, <1>2, <1>3, <1>4, <1>5, <1>6 DEF TypeOK

LEMMA TypeOfReleaseNext ==
    ASSUME TypeOK, ReleaseNext
    PROVE  TypeOK'
<1> DEFINE id == owned[left]
           c == [kind |-> "drop", id |-> id]
<1>1. id \in Ids /\ id[1] \in Sessions /\ "drop" \in Kind
  BY DEF ReleaseNext, TypeOK, Ids, Kind
<1>2. c \in Command
  BY <1>1, CommandIsSome
<1> HIDE DEF c, id
<1>3. cmd' \in [Sessions -> Command \cup {None}] /\ current' \in Command \cup {None}
  BY <1>1, <1>2 DEF ReleaseNext, TypeOK, c, id
<1>4. /\ request' \in {"wait_release", "release_all"} /\ routes' \subseteq routes
      /\ left' \in 0 .. Len(owned)
  BY DEF ReleaseNext, TypeOK
<1>5. UNCHANGED <<phase, handles, minted, subs, eventArgs, asked, reply, owned, events, forwarder,
                  late, out, writing, known, connected>>
  BY DEF ReleaseNext, sessionVars, forwarderVars, socketVars
<1> QED
  BY ONLY TypeOK, <1>3, <1>4, <1>5 DEF TypeOK

LEMMA TypeOfRequests ==
    ASSUME TypeOK,
           \/ \E id \in Ids : ReleaseOfDead(id)
           \/ ReadFails \/ EndOfRequests \/ Released1 \/ Purge \/ JoinForwarder \/ JoinWriter
    PROVE  TypeOK'
<1>1. /\ request' \in {"read", "wait", "release_all", "wait_release", "join_forwarder",
                       "join_writer", "closed"}
      /\ left' \in 0 .. Len(owned) /\ routes' \subseteq routes
      /\ reply' \in {reply, None} /\ current' \in {current, None}
  BY DEF TypeOK, ReleaseOfDead, ReadFails, EndOfRequests, Released1, Purge, JoinForwarder,
         JoinWriter, requestVars
<1>2. UNCHANGED <<phase, handles, minted, subs, eventArgs, asked, cmd, owned, events, forwarder,
                  late, out, writing, known, connected>>
  BY DEF ReleaseOfDead, ReadFails, EndOfRequests, Released1, Purge, JoinForwarder,
         JoinWriter, sessionVars, requestVars, forwarderVars, socketVars
<1> QED BY ONLY TypeOK, <1>1, <1>2 DEF TypeOK

LEMMA TypeOfServe ==
    ASSUME TypeOK, NEW s \in Sessions,
           \/ Subscribe(s) \/ Other(s) \/ ReleaseHandle(s) \/ LastRelease(s) \/ Disconnected(s)
    PROVE  TypeOK'
<1>1. Done \in Reply
  BY ReplyIsSome
<1>2. cmd[s] # None => cmd[s].id[2] \in 0 .. MaxId - 1
  BY IdPairs DEF TypeOK, Command
<1>3. CASE Subscribe(s)
  <2>1. subs' \in [Sessions -> SUBSET (0 .. MaxId - 1)]
    BY <1>2, <1>3 DEF TypeOK, Subscribe, Take
  <2>2. cmd' \in [Sessions -> Command \cup {None}] /\ reply' = Done
    BY <1>3 DEF TypeOK, Subscribe, Take
  <2>3. UNCHANGED <<phase, handles, minted, eventArgs, asked, routes, events,
                    requestVars, forwarderVars, socketVars>>
    BY <1>3 DEF Subscribe, Take
  <2>4. UNCHANGED <<phase, handles, minted, eventArgs, asked, routes, events, request, current,
                    owned, left, forwarder, late, out, writing, known, connected>>
    BY <2>3 DEF requestVars, forwarderVars, socketVars
  <2> QED
    BY ONLY TypeOK, <1>1, <2>1, <2>2, <2>4 DEF TypeOK
<1>4. CASE Other(s)
  <2>1. subs' \in [Sessions -> SUBSET (0 .. MaxId - 1)]
    BY <1>4 DEF TypeOK, Other, Take
  <2>2. cmd' \in [Sessions -> Command \cup {None}] /\ reply' = Done
    BY <1>4 DEF TypeOK, Other, Take
  <2>3. UNCHANGED <<phase, handles, minted, eventArgs, asked, routes, events, request, current,
                    owned, left, forwarder, late, out, writing, known, connected>>
    BY <1>4 DEF Other, Take, requestVars, forwarderVars, socketVars
  <2> QED
    BY ONLY TypeOK, <1>1, <2>1, <2>2, <2>3 DEF TypeOK
<1>5. CASE ReleaseHandle(s)
  <2>1. /\ subs' \in [Sessions -> SUBSET (0 .. MaxId - 1)]
        /\ handles' \in [Sessions -> SUBSET (0 .. MaxId - 1)]
    BY <1>5 DEF TypeOK, ReleaseHandle, Take
  <2>2. cmd' \in [Sessions -> Command \cup {None}] /\ reply' = Done
    BY <1>5 DEF TypeOK, ReleaseHandle, Take
  <2>3. UNCHANGED <<phase, minted, eventArgs, asked, routes, events,
                    requestVars, forwarderVars, socketVars>>
    BY <1>5 DEF ReleaseHandle, Take
  <2>4. UNCHANGED <<phase, minted, eventArgs, asked, routes, events, request, current, owned,
                    left, forwarder, late, out, writing, known, connected>>
    BY <2>3 DEF requestVars, forwarderVars, socketVars
  <2> QED
    BY ONLY TypeOK, <1>1, <2>1, <2>2, <2>4 DEF TypeOK
<1>6. CASE LastRelease(s)
  <2>1. phase' \in [Sessions -> Phase] /\ cmd' \in [Sessions -> Command \cup {None}]
    BY <1>6 DEF TypeOK, Phase, LastRelease, Take
  <2>2. UNCHANGED <<handles, minted, subs, eventArgs, asked, reply, routes, events, request,
                    current, owned, left, forwarder, late, out, writing, known, connected>>
    BY <1>6 DEF LastRelease, Take, requestVars, forwarderVars, socketVars
  <2> QED BY ONLY TypeOK, <2>1, <2>2 DEF TypeOK
<1>7. CASE Disconnected(s)
  <2>1. phase' \in [Sessions -> Phase]
    BY <1>7 DEF TypeOK, Phase, Disconnected
  <2>2. UNCHANGED <<handles, minted, subs, eventArgs, asked, cmd, reply, routes, events, request,
                    current, owned, left, forwarder, late, out, writing, known, connected>>
    BY <1>7 DEF Disconnected, requestVars, forwarderVars, socketVars
  <2> QED BY ONLY TypeOK, <2>1, <2>2 DEF TypeOK
<1> QED BY <1>3, <1>4, <1>5, <1>6, <1>7

LEMMA TypeOfInvoke ==
    ASSUME TypeOK, NEW s \in Sessions, Invoke(s)
    PROVE  TypeOK'
<1> PICK k \in 0 .. 1 : 
        LET new == minted[s] .. minted[s] + k - 1
         IN /\ k = 1 => cmd[s].id[2] \in handles[s] /\ minted[s] < Quota(s)
            /\ handles' = [handles EXCEPT ![s] = @ \cup new]
            /\ minted' = [minted EXCEPT ![s] = @ + k]
            /\ reply' = Minted({s} \X new)
  BY DEF Invoke
<1> DEFINE new == minted[s] .. minted[s] + k - 1
<1>1. Quota(s) \in Nat /\ Quota(s) <= MaxId
  BY DEF Quota
<1>2. new \in SUBSET (0 .. MaxId - 1) /\ minted[s] + k \in 0 .. MaxId
  <2>1. minted[s] \in 0 .. MaxId
    BY DEF TypeOK
  <2>2. k = 0 \/ minted[s] < MaxId
    BY <1>1, <2>1
  <2>3. \A x \in new : x \in 0 .. MaxId - 1
    BY <2>1, <2>2
  <2> QED BY <2>1, <2>2, <2>3
<1>3. {s} \X new \in SUBSET Ids
  BY <1>2 DEF Ids
<1> HIDE DEF new
<1>4. reply' \in Reply
  BY <1>3, ReplyIsSome DEF new
<1>5. /\ handles' \in [Sessions -> SUBSET (0 .. MaxId - 1)]
      /\ minted' \in [Sessions -> 0 .. MaxId]
  BY <1>2 DEF TypeOK, new
<1>6. cmd' \in [Sessions -> Command \cup {None}]
  BY DEF TypeOK, Invoke, Take
<1>7. UNCHANGED <<phase, subs, eventArgs, asked, routes, events, request, current, owned, left,
                  forwarder, late, out, writing, known, connected>>
  BY DEF Invoke, Take, requestVars, forwarderVars, socketVars
<1> QED
  BY ONLY TypeOK, <1>4, <1>5, <1>6, <1>7 DEF TypeOK

LEMMA TypeOfAskClosure ==
    ASSUME TypeOK, NEW s \in Sessions, AskClosure(s)
    PROVE  TypeOK'
<1> DEFINE e == [seq |-> <<s, minted[s]>>, ids |-> {}]
<1>1. minted[s] \in 0 .. MaxId - 1
  BY DEF AskClosure, Quota, TypeOK
<1>2. e \in Event
  BY <1>1 DEF Event, Ids
<1> HIDE DEF e
<1>3. events' \in Seq(Event)
  BY <1>2, PushedPlaces DEF AskClosure, TypeOK, e
<1>4. asked' \in [Sessions -> 0 .. MaxId] /\ minted' \in [Sessions -> 0 .. MaxId]
  BY <1>1 DEF AskClosure, TypeOK
<1>5. reply' \in Reply
  BY ReplyIsSome DEF AskClosure
<1>6. cmd' \in [Sessions -> Command \cup {None}]
  BY DEF TypeOK, AskClosure, Take
<1>7. UNCHANGED <<phase, handles, subs, eventArgs, routes, requestVars, forwarderVars, socketVars>>
  BY DEF AskClosure, Take
<1>8. /\ UNCHANGED <<phase, handles, subs, eventArgs, routes, request, current, owned, left>>
      /\ UNCHANGED <<forwarder, late, out, writing, known, connected>>
  BY <1>7 DEF requestVars, forwarderVars, socketVars
<1> QED
  BY ONLY TypeOK, <1>3, <1>4, <1>5, <1>6, <1>8 DEF TypeOK

LEMMA TypeOfReleaseEvent ==
    ASSUME TypeOK, NEW s \in Sessions, ReleaseEvent(s) \/ ClosureAnswered(s)
    PROVE  TypeOK'
<1>1. CASE ReleaseEvent(s)
  <2> DEFINE n == cmd[s].id[2]
  <2>1. n \in 0 .. MaxId - 1
    BY <1>1, IdPairs DEF ReleaseEvent, Take, TypeOK, Command
  <2>2. {s} \X eventArgs[s][n] \in SUBSET Ids
    BY <2>1 DEF TypeOK, Ids
  <2> HIDE DEF n
  <2>3. reply' \in Reply
    BY <1>1, <2>2, ReplyIsSome DEF ReleaseEvent, n
  <2>4. /\ handles' \in [Sessions -> SUBSET (0 .. MaxId - 1)]
        /\ eventArgs' \in [Sessions -> [0 .. MaxId - 1 -> SUBSET (0 .. MaxId - 1)]]
    BY <1>1, <2>1 DEF TypeOK, ReleaseEvent, n
  <2>5. cmd' \in [Sessions -> Command \cup {None}]
    BY <1>1 DEF TypeOK, ReleaseEvent, Take
  <2>6. UNCHANGED <<phase, minted, subs, asked, routes, events, requestVars, forwarderVars,
                    socketVars>>
    BY <1>1 DEF ReleaseEvent, Take
  <2> QED
    BY <2>3, <2>4, <2>5, <2>6 DEF TypeOK, requestVars, forwarderVars, socketVars
<1>2. CASE ClosureAnswered(s)
  <2>1. reply' \in Reply
    BY <1>2, RootIsId, ReplyIsSome DEF ClosureAnswered
  <2> QED
    BY <1>2, <2>1
    DEF TypeOK, Phase, ClosureAnswered, Take, requestVars, forwarderVars, socketVars
<1> QED BY <1>1, <1>2

(* What an event of session s with k arguments changes in its thread. *)
Fires(s, k) ==
    LET n == minted[s]
        args == n + 1 .. n + k
    IN /\ n + k < Quota(s)
       /\ minted' = [minted EXCEPT ![s] = n + k + 1]
       /\ handles' = [handles EXCEPT ![s] = @ \cup args]
       /\ eventArgs' = [eventArgs EXCEPT ![s][n] = args]
       /\ events' = Pushed([seq |-> <<s, n>>, ids |-> {s} \X args])

LEMMA TypeOfFire ==
    ASSUME TypeOK, NEW s \in Sessions, Fire(s)
    PROVE  TypeOK'
<1> PICK k \in 0 .. 1 : Fires(s, k)
  BY DEF Fire, Fires
<1> DEFINE n == minted[s]
           args == n + 1 .. n + k
           e == [seq |-> <<s, n>>, ids |-> {s} \X args]
<1>0. Quota(s) \in Nat /\ Quota(s) <= MaxId /\ n \in Nat /\ n + k < Quota(s)
  BY DEF TypeOK, Fires, Quota
<1>1. n \in 0 .. MaxId - 1 /\ n + k + 1 \in 0 .. MaxId /\ args \in SUBSET (0 .. MaxId - 1)
  BY <1>0
<1>2. e \in Event
  BY <1>1 DEF Event, Ids
<1> HIDE DEF e, args, n
<1>3. events' \in Seq(Event)
  BY <1>2, PushedPlaces DEF Fires, TypeOK, e, args, n
<1>4. /\ minted' \in [Sessions -> 0 .. MaxId]
      /\ handles' \in [Sessions -> SUBSET (0 .. MaxId - 1)]
      /\ eventArgs' \in [Sessions -> [0 .. MaxId - 1 -> SUBSET (0 .. MaxId - 1)]]
  BY <1>1 DEF TypeOK, Fires, args, n
<1>5. UNCHANGED <<phase, subs, asked, cmd, reply, routes, request, current, owned, left,
                  forwarder, late, out, writing, known, connected>>
  BY DEF Fire, requestVars, forwarderVars, socketVars
<1> QED
  BY <1>3, <1>4, <1>5 DEF TypeOK

LEMMA TypeOfEndThread ==
    ASSUME TypeOK, NEW s \in Sessions, EndThread(s)
    PROVE  TypeOK'
<1>1. NoArgs \in [0 .. MaxId - 1 -> SUBSET (0 .. MaxId - 1)]
  BY DEF NoArgs
<1>2. Done \in Reply /\ Dropped \in Reply
  BY ReplyIsSome
<1> QED
  BY <1>1, <1>2 DEF TypeOK, EndThread, Phase, NotAsked, requestVars, forwarderVars, socketVars

LEMMA TypeOfForwarder ==
    ASSUME TypeOK, Unsent, Forwarder
    PROVE  TypeOK'
<1>1. CASE TakeEvent
  <2>1. Head(events) \in Event /\ Tail(events) \in Seq(Event)
    BY <1>1, TailPlaces DEF TakeEvent, TypeOK
  <2>2. Head(events).seq \in Ids /\ Head(events).seq[1] \in Sessions
        /\ Head(events).ids \in SUBSET Ids
    BY <2>1, IdPairs DEF Event
  <2> QED
    BY <1>1, <2>1, <2>2 DEF TypeOK, TakeEvent, sessionVars, requestVars, socketVars
<1>2. CASE InsertRoutes
  BY <1>2 DEF TypeOK, InsertRoutes, sessionVars, requestVars, socketVars
<1>3. CASE SendFrame
  <2>1. {forwarder.seq} \cup forwarder.ids \in SUBSET Ids
    BY <1>3 DEF SendFrame, Unsent, Forwarding, TypeOK
  <2>2. out' \in Seq(SUBSET Ids)
    BY <1>3, <2>1, QueuedPlaces DEF TypeOK, SendFrame
  <2>3. events' \in Seq(Event) /\ late' \in BOOLEAN
    BY <1>3, EmptyPlaces DEF TypeOK, SendFrame
  <2> QED
    BY <1>3, <2>2, <2>3 DEF TypeOK, SendFrame, Idle, sessionVars, requestVars, forwarderVars
<1>4. CASE ForwarderEnds
  BY <1>4 DEF TypeOK, ForwarderEnds, Idle, sessionVars, requestVars, socketVars
<1> QED BY <1>1, <1>2, <1>3, <1>4 DEF Forwarder

LEMMA TypeOfWriter ==
    ASSUME TypeOK, Writer \/ HangUp
    PROVE  TypeOK'
<1>1. out # <<>> => Head(out) \in SUBSET Ids /\ Tail(out) \in Seq(SUBSET Ids)
  BY TailPlaces DEF TypeOK
<1>2. <<>> \in Seq(SUBSET Ids)
  BY EmptyPlaces
<1> QED
  BY <1>1, <1>2 DEF TypeOK, Writer, WriteFrame, WriteFails, WriterEnds, HangUp,
     sessionVars, requestVars, forwarderVars

-----------------------------------------------------------------------------
(* The request loop.                                                       *)

(* Events and forwarder as they are: what was in flight must stay so.      *)
LEMMA UnsentStays ==
    ASSUME TypeOK, Unsent, UNCHANGED <<events, forwarder>>,
           \A e : Names(e) \subseteq Ids /\ InFlight(e) => InFlight(e)'
    PROVE  Unsent'
<1>1. ASSUME NEW i \in DOMAIN events PROVE InFlight(events[i])'
  <2>1. PICK e : e = events[i]
    OBVIOUS
  <2>2. Names(e) \subseteq Ids
    <3>1. e \in Event
      BY <2>1 DEF TypeOK
    <3> QED BY <3>1 DEF Event, Names
  <2>3. InFlight(e)'
    BY <2>1, <2>2 DEF Unsent
  <2> QED
    BY <2>1, <2>3 DEF InFlight, Carries, Untold, Names, Issued, Live, Serving
<1>2. Forwarding => InFlight(forwarder)'
  <2>1. PICK e : e = forwarder
    OBVIOUS
  <2>2. Forwarding => Names(e) \subseteq Ids
    BY <2>1 DEF TypeOK, Names, Unsent
  <2>3. Forwarding => InFlight(e)'
    BY <2>1, <2>2 DEF Unsent
  <2> QED
    BY <2>1, <2>3 DEF InFlight, Carries, Untold, Names, Issued, Live, Serving
<1> QED
  BY <1>1, <1>2 DEF Unsent, Forwarding, Names

(* The same when the session's thread has sent an event of new ids.        *)
LEMMA UnsentGrows ==
    ASSUME TypeOK, Unsent, UNCHANGED forwarder, NEW ev, InFlight(ev)',
           \A i \in DOMAIN events' :
             \/ i \in DOMAIN events /\ events'[i] = events[i]
             \/ i = Len(events) + 1 /\ events'[i] = ev,
           \A e : Names(e) \subseteq Ids /\ InFlight(e) =>
             InFlight(e)' /\ Names(e) \cap Names(ev) = {}
    PROVE  Unsent'
<1>1. ASSUME NEW i \in DOMAIN events
      PROVE  /\ events'[i] = events[i] => InFlight(events[i])'
             /\ Names(events[i]) \cap Names(ev) = {}
  <2>1. PICK e : e = events[i]
    OBVIOUS
  <2>2. Names(e) \subseteq Ids
    <3>1. e \in Event
      BY <2>1 DEF TypeOK
    <3> QED BY <3>1 DEF Event, Names
  <2>3. InFlight(e)' /\ Names(e) \cap Names(ev) = {}
    BY <2>1, <2>2 DEF Unsent
  <2>4. events'[i] = e => InFlight(events[i])'
    BY <2>3 DEF InFlight, Carries, Untold, Names, Issued, Live, Serving
  <2> QED BY <2>1, <2>3, <2>4
<1>2. Forwarding => InFlight(forwarder)' /\ Names(forwarder) \cap Names(ev) = {}
  <2>1. PICK e : e = forwarder
    OBVIOUS
  <2>2. Forwarding => Names(e) \subseteq Ids
    BY <2>1 DEF TypeOK, Names, Unsent
  <2>3. Forwarding => InFlight(e)' /\ Names(e) \cap Names(ev) = {}
    BY <2>1, <2>2 DEF Unsent
  <2> QED
    BY <2>1, <2>3 DEF InFlight, Carries, Untold, Names, Issued, Live, Serving
<1>3. \A i \in DOMAIN events' : InFlight(events[i])'
  <2> SUFFICES ASSUME NEW i \in DOMAIN events' PROVE InFlight(events[i])'
    OBVIOUS
  <2>1. CASE i \in DOMAIN events /\ events'[i] = events[i]
    BY <1>1, <2>1
  <2>2. CASE events'[i] = ev
    BY <2>2 DEF InFlight, Carries, Untold, Names, Issued, Live, Serving
  <2> QED BY <2>1, <2>2
<1>4. \A i, j \in DOMAIN events' : i # j => Names(events'[i]) \cap Names(events'[j]) = {}
  <2>1. \A i, j \in DOMAIN events : i # j => Names(events[i]) \cap Names(events[j]) = {}
    BY DEF Unsent
  <2> QED BY <1>1, <2>1
<1>5. Forwarding => \A i \in DOMAIN events' : Names(events'[i]) \cap Names(forwarder) = {}
  BY <1>1, <1>2 DEF Unsent
<1> QED
  BY <1>2, <1>3, <1>4, <1>5 DEF Unsent, Forwarding, Names

(* What the counters say of event arguments, when they do not go down.     *)
ArgsBelow ==
    \A t \in Sessions : \A e \in 0 .. MaxId - 1 : \A n \in eventArgs[t][e] :
        0 < n /\ n < minted[t] /\ e < minted[t]

LEMMA ArgsStayBelow ==
    ASSUME IInv, UNCHANGED eventArgs,
           \A t \in Sessions :
              minted[t] \in Nat /\ minted'[t] \in Nat /\ minted[t] <= minted'[t]
    PROVE  ArgsBelow'
<1>1. ASSUME NEW t \in Sessions, NEW e \in 0 .. MaxId - 1, NEW n \in eventArgs'[t][e]
      PROVE  0 < n /\ n < minted'[t] /\ e < minted'[t]
  <2>1. n \in eventArgs[t][e] /\ n \in Int
    BY DEF IInv, TypeOK
  <2>2. 0 < n /\ n < minted[t] /\ e < minted[t]
    BY <2>1 DEF IInv, FromCounter
  <2> QED BY <2>1, <2>2
<1> QED BY <1>1 DEF ArgsBelow

LEMMA ToldIsIssued ==
    ASSUME IInv, NEW id \in Ids, Told(id)
    PROVE  Issued(id)
BY DEF IInv, FromCounter, Unsent, Forwarding, InFlight, Carries, Names, Told

(* Steps of the request loop that take no request and touch no route.      *)
LEMMA QuietRequestStep ==
    ASSUME IInv, ReadFails \/ EndOfRequests \/ JoinForwarder \/ JoinWriter
    PROVE  IInv'
<1> USE DEF ReadFails, EndOfRequests, JoinForwarder, JoinWriter, sessionVars, requestVars,
            forwarderVars, socketVars
<1>1. TypeOK'
  BY TypeOfRequests DEF IInv
<1>2. OneCommand' /\ AnswerOwed' /\ FromCounter' /\ OneEvent' /\ Replies'
  BY DEF IInv, OneCommand, AnswerOwed, FromCounter, Issued, OneEvent, Replies, Live
<1>3. Unsent'
  <2>1. \A e : Names(e) \subseteq Ids /\ InFlight(e) => InFlight(e)'
    BY DEF InFlight, Carries, Untold, Names, Issued, Live, Serving
  <2> QED BY <2>1, UnsentStays DEF IInv
<1>4. InvokedIsRouted' /\ Resolving' /\ Telling'
  BY DEF IInv, InvokedIsRouted, Resolving, Telling, Serving
<1>5. Rooted' /\ RootsVisited' /\ Purged'
  BY DEF IInv, Rooted, RootsVisited, Purged, OneCommand, TypeOK, Live
<1> QED BY <1>1, <1>2, <1>3, <1>4, <1>5 DEF IInv

LEMMA ReleaseOfDeadKeeps ==
    ASSUME IInv, NEW d \in Ids, ReleaseOfDead(d)
    PROVE  IInv'
<1> USE DEF ReleaseOfDead, sessionVars, requestVars, forwarderVars, socketVars
<1>1. TypeOK'
  BY TypeOfRequests DEF IInv
<1>2. OneCommand' /\ AnswerOwed' /\ FromCounter' /\ OneEvent' /\ Replies' /\ InvokedIsRouted'
  BY DEF IInv, OneCommand, AnswerOwed, FromCounter, Issued, OneEvent, Replies,
         InvokedIsRouted, Live
<1>3. Unsent'
  <2>1. \A e : Names(e) \subseteq Ids /\ InFlight(e) => InFlight(e)'
    BY DEF InFlight, Carries, Untold, Names, Issued, Live, Serving
  <2> QED BY <2>1, UnsentStays DEF IInv
<1>4. Resolving' /\ Telling'
  BY DEF IInv, Resolving, Doomed, Telling, Told, Reachable, RoutesOf, Serving, Live
<1>5. Rooted' /\ RootsVisited' /\ Purged'
  BY RootIsId DEF IInv, Rooted, RootsVisited, Purged, Live
<1> QED BY <1>1, <1>2, <1>3, <1>4, <1>5 DEF IInv

LEMMA CreateKeeps ==
    ASSUME IInv, NEW s \in Sessions, Create(s)
    PROVE  IInv'
<1> USE DEF Create, forwarderVars
<1>a. /\ Root(s) \in Ids /\ Root(s)[1] = s /\ Root(s)[2] = 0
      /\ current = None /\ reply = None /\ request = "read" /\ request' = "read"
      /\ minted[s] = 0 /\ TypeOK
  BY RootIsId DEF IInv, OneCommand, FromCounter, TypeOK
<1>b. \A i \in DOMAIN out' : (i \in DOMAIN out /\ out'[i] = out[i]) \/ out'[i] = {Root(s)}
  <2>1. {Root(s)} \in SUBSET Ids
    BY <1>a
  <2> QED BY <1>a, <2>1, QueuedPlaces DEF TypeOK
<1>c. \A id \in Ids : Issued(id) => id[1] # s /\ id # Root(s) /\ Issued(id)'
  <2> SUFFICES ASSUME NEW id \in Ids, Issued(id)
               PROVE  id[1] # s /\ id # Root(s) /\ Issued(id)'
    OBVIOUS
  <2>1. id[1] \in Sessions /\ id[2] \in Nat /\ id[2] < minted[id[1]]
    BY IdPairs DEF Issued
  <2>2. id[1] # s
    BY <1>a, <2>1
  <2>3. minted'[id[1]] = minted[id[1]]
    BY <1>a, <2>1, <2>2 DEF TypeOK
  <2> QED BY <1>a, <2>1, <2>2, <2>3 DEF Issued
<1>d. Issued(Root(s))' /\ \A i \in DOMAIN out : out[i] \subseteq Ids
  BY <1>a DEF Issued, TypeOK
<1>1. TypeOK'
  BY TypeOfCreate DEF IInv
<1>2. OneCommand' /\ AnswerOwed' /\ OneEvent' /\ Replies' /\ InvokedIsRouted' /\ Purged'
  BY <1>a DEF IInv, OneCommand, AnswerOwed, OneEvent, Replies, InvokedIsRouted, Purged
<1>3. FromCounter'
  <2>1. \A i \in DOMAIN out' : \A id \in out'[i] : Issued(id)'
    BY <1>a, <1>b, <1>c, <1>d DEF IInv, FromCounter
  <2>2. \A id \in (routes \cup known)' : Issued(id)'
    BY <1>a, <1>c DEF IInv, FromCounter, Issued, TypeOK
  <2>3. \A t \in Sessions : /\ phase'[t] = "none" <=> minted'[t] = 0
                            /\ \A n \in handles'[t] : n < minted'[t]
    BY <1>a DEF IInv, FromCounter, TypeOK
  <2>4. \A t \in Sessions : minted[t] \in Nat /\ minted'[t] \in Nat /\ minted[t] <= minted'[t]
    <3>1. minted \in [Sessions -> 0 .. MaxId] /\ minted' = [minted EXCEPT ![s] = 1]
      BY <1>a DEF TypeOK
    <3> QED BY <1>a, <3>1
  <2>5. ArgsBelow'
    BY <2>4, ArgsStayBelow
  <2> QED BY <1>a, <2>1, <2>2, <2>3, <2>5 DEF FromCounter, ArgsBelow
<1>4. Unsent'
  <2>1. \A e : Names(e) \subseteq Ids /\ InFlight(e) => InFlight(e)'
    <3> SUFFICES ASSUME NEW e, Names(e) \subseteq Ids, InFlight(e) PROVE InFlight(e)'
      OBVIOUS
    <3>1. ASSUME NEW id \in Names(e)
          PROVE  Untold(id)' /\ Issued(id)'
      <4>1. Untold(id) /\ Issued(id) /\ id \in Ids
        BY DEF InFlight, Carries
      <4>2. id # Root(s) /\ Issued(id)'
        BY <1>c, <4>1
      <4>3. \A i \in DOMAIN out' : id \notin out'[i]
        BY <1>b, <4>1, <4>2 DEF Untold
      <4> QED BY <1>a, <4>1, <4>2, <4>3 DEF Untold
    <3>2. e.seq[1] # s /\ \A id \in e.ids : id[1] # s
      BY <1>c DEF InFlight, Carries, Names
    <3>3. Carries(e)'
      BY <1>a, <3>1, <3>2 DEF InFlight, Carries, Names, Issued, Live, Serving, TypeOK
    <3> QED BY <3>1, <3>3 DEF InFlight, Names
  <2> QED BY <2>1, UnsentStays DEF IInv
<1>5. Resolving' /\ Telling'
  <2>1. /\ \A id \in routes : id \in Ids /\ id[1] # s
        /\ \A id \in Ids : Told(id) => id[1] # s
    BY <1>a, <1>c, ToldIsIssued DEF IInv, FromCounter, TypeOK
  <2>2. Resolving'
    BY <1>a, <2>1 DEF IInv, Resolving, Serving, Live, Doomed, TypeOK
  <2>3. \A id \in Ids : Told(id)' => Told(id) \/ id = Root(s)
    BY <1>a, <1>b DEF Told
  <2>4. \A t \in Sessions : t # s /\ Reachable(t)' => Reachable(t)
    BY <1>a DEF Reachable, RoutesOf
  <2>5. Telling'
    BY <1>a, <2>1, <2>3, <2>4, IdPairs DEF IInv, Telling, Serving, Live, TypeOK
  <2> QED BY <2>2, <2>5
<1>6. Rooted'
  BY <1>a DEF IInv, Rooted, Live, TypeOK
<1>7. RootsVisited'
  <2>1. owned' = Append(owned, Root(s)) /\ owned \in Seq(Ids)
    BY <1>a DEF TypeOK
  <2>2. /\ \A i \in DOMAIN owned : i \in DOMAIN owned' /\ owned'[i] = owned[i]
        /\ \E i \in DOMAIN owned' : owned'[i] = Root(s)
    BY <1>a, <2>1, AppendPlaces
  <2> QED BY <1>a, <2>2 DEF IInv, RootsVisited, TypeOK
<1> QED BY <1>1, <1>2, <1>3, <1>4, <1>5, <1>6, <1>7 DEF IInv

LEMMA AskKeeps ==
    ASSUME IInv, NEW kind \in Kind \ {"drop"}, NEW d \in Ids, Ask(kind, d)
    PROVE  IInv'
<1> USE DEF Ask, sessionVars, forwarderVars, socketVars
<1>a. /\ current' = [kind |-> kind, id |-> d] /\ current' # None
      /\ current = None /\ reply = None /\ request = "read" /\ request' = "wait"
      /\ d[1] \in Sessions /\ d \in known /\ TypeOK
      /\ cmd' = [cmd EXCEPT ![d[1]] = current'] /\ \A s \in Sessions : cmd[s] = None
  BY CommandIsSome, IdPairs DEF IInv, OneCommand
<1>b. current'.kind = kind /\ current'.id = d /\ kind # "drop"
  BY <1>a
<1>1. TypeOK'
  BY TypeOfAsk DEF IInv
<1>2. OneCommand'
  BY <1>a, <1>b DEF IInv, OneCommand, TypeOK
<1>o. AnswerOwed'
  <2>1. phase[d[1]] \in {"live", "ending"}
    <3>1. d[2] \in Nat /\ Issued(d) /\ minted[d[1]] \in Nat
      BY <1>a, IdPairs DEF IInv, FromCounter, TypeOK
    <3>2. phase[d[1]] # "none"
      BY <1>a, <3>1 DEF Issued, IInv, FromCounter
    <3>3. phase[d[1]] # "acking" /\ phase[d[1]] \in Phase
      BY <1>a DEF IInv, OneCommand, TypeOK
    <3> QED BY <3>2, <3>3 DEF Phase
  <2>2. cmd'[d[1]] = current'
    BY <1>a DEF TypeOK
  <2> QED BY <1>b, <2>1, <2>2 DEF AnswerOwed
<1>3. FromCounter' /\ OneEvent'
  BY <1>a, <1>b DEF IInv, FromCounter, Issued, OneEvent
<1>4. Unsent'
  <2>1. \A e : Names(e) \subseteq Ids /\ InFlight(e) => InFlight(e)'
    BY <1>a, <1>b DEF InFlight, Carries, Untold, Names, Issued, Live, Serving
  <2> QED BY <2>1, UnsentStays DEF IInv
<1>5. Replies'
  BY <1>a DEF Replies
<1>6. InvokedIsRouted'
  BY <1>a, <1>b DEF InvokedIsRouted, Routed
<1>7. Resolving' /\ Telling'
  BY <1>a, <1>b DEF IInv, Resolving, Doomed, Telling, Told, Reachable, RoutesOf, Serving, Live
<1>8. Rooted' /\ RootsVisited' /\ Purged'
  BY <1>a DEF IInv, Rooted, RootsVisited, Purged, Live
<1> QED BY <1>1, <1>2, <1>o, <1>3, <1>4, <1>5, <1>6, <1>7, <1>8 DEF IInv

(* What an answer takes out of the table names nothing a live session      *)
(* holds, and no root of one in the registry.                              *)
LEMMA RoutesAfterAnswer ==
    ASSUME IInv, Answer
    PROVE  /\ routes' \subseteq routes \cup NewIds
           /\ \A id \in routes : Doomed(id) => id \notin routes'
           /\ \A id \in routes \ routes' : Live(id[1]) =>
                /\ id[2] \notin handles[id[1]]
                /\ id[1] \in Plain \/ id[2] # 0
           /\ NewIds \subseteq routes'
<1>1. /\ reply # None /\ current # None
      /\ reply.kind \in {"minted", "released", "done", "pending", "dropped"}
  BY DEF IInv, OneCommand, Answer, TypeOK, Reply
<1>2. CASE reply.kind = "minted"
  BY <1>1, <1>2 DEF Answer, RoutesAfter, NewIds, IInv, Replies, Doomed
<1>3. CASE reply.kind = "released"
  BY <1>1, <1>3 DEF Answer, RoutesAfter, NewIds, IInv, Replies, Doomed
<1>4. CASE reply.kind \in {"done", "pending", "dropped"}
  BY <1>1, <1>4 DEF Answer, RoutesAfter, NewIds, IInv, Replies, Doomed
<1> QED BY <1>1, <1>2, <1>3, <1>4

LEMMA AnswerKeeps ==
    ASSUME IInv, Answer
    PROVE  IInv'
<1> USE DEF Answer, sessionVars, forwarderVars
<1>a. /\ reply # None /\ current # None /\ request = "wait"
      /\ \A s \in Sessions : cmd[s] = None /\ phase[s] # "acking"
      /\ current' = None /\ reply' = None /\ request' \in {"read", "release_all"}
      /\ TypeOK /\ NewIds \in SUBSET Ids
  BY DEF IInv, OneCommand, TypeOK, NewIds, Reply
<1>b. \A i \in DOMAIN out' : (i \in DOMAIN out /\ out'[i] = out[i]) \/ out'[i] = NewIds
  BY <1>a, QueuedPlaces DEF TypeOK
<1>c. \A id \in NewIds : Issued(id)
  BY <1>a DEF IInv, FromCounter, NewIds
<1>d. /\ routes' \subseteq routes \cup NewIds
      /\ \A id \in routes : Doomed(id) => id \notin routes'
      /\ \A id \in routes \ routes' : Live(id[1]) =>
           /\ id[2] \notin handles[id[1]]
           /\ id[1] \in Plain \/ id[2] # 0
      /\ NewIds \subseteq routes'
  BY RoutesAfterAnswer
<1>1. TypeOK'
  BY TypeOfAnswer DEF IInv
<1>2. OneCommand' /\ AnswerOwed' /\ OneEvent' /\ Replies' /\ InvokedIsRouted' /\ Purged'
  BY <1>a DEF IInv, OneCommand, AnswerOwed, OneEvent, Replies, InvokedIsRouted, Purged
<1>3. FromCounter'
  BY <1>a, <1>b, <1>c, <1>d DEF IInv, FromCounter, Issued
<1>4. Unsent'
  <2>1. \A e : Names(e) \subseteq Ids /\ InFlight(e) => InFlight(e)'
    <3> SUFFICES ASSUME NEW e, Names(e) \subseteq Ids, InFlight(e) PROVE InFlight(e)'
      OBVIOUS
    <3>1. \A id \in Names(e) : Untold(id)'
      BY <1>a, <1>b DEF InFlight, Untold, NewIds
    <3>2. Carries(e)'
      BY <1>a DEF InFlight, Carries, Names, Issued, Live, Serving
    <3> QED BY <3>1, <3>2 DEF InFlight, Names
  <2> QED BY <2>1, UnsentStays DEF IInv
<1>5. Resolving'
  BY <1>a, <1>d DEF IInv, Resolving, Serving, Live, Replies, NewIds
<1>6. Telling'
  <2>1. \A id \in Ids : Told(id)' => Told(id) \/ id \in NewIds
    BY <1>a, <1>b DEF Told
  <2>2. \A t \in Sessions : Reachable(t)' => Reachable(t)
    BY <1>a, <1>d DEF Reachable, RoutesOf, NewIds, IInv, Replies, InvokedIsRouted
  <2> QED
    BY <1>a, <1>d, <2>1, <2>2, IdPairs DEF IInv, Telling, Serving, Live
<1>7. Rooted'
  BY <1>a, <1>d, RootIsId DEF IInv, Rooted, Live
<1>8. RootsVisited'
  <2>1. \A i \in DOMAIN owned : i \in DOMAIN owned' /\ owned'[i] = owned[i]
    <3>1. owned \in Seq(Ids)
      BY <1>a DEF TypeOK
    <3>2. CASE NewIds = {}
      <4>1. owned' = owned \o <<>>
        BY <3>2, SetToSeqOfOne
      <4> QED BY <3>1, <4>1, JoinPlaces
    <3>3. ASSUME NEW id \in Ids, NewIds = {id}
          PROVE  \A i \in DOMAIN owned : i \in DOMAIN owned' /\ owned'[i] = owned[i]
      <4>1. owned' = owned \o <<id>>
        BY <3>3, SetToSeqOfOne
      <4> QED BY <3>1, <4>1, JoinPlaces
    <3> QED BY <1>a, <3>2, <3>3 DEF NewIds, IInv, Replies
  <2>2. request' = "release_all" => left' = Len(owned')
    OBVIOUS
  <2>3. \A i \in DOMAIN owned' : i \in Nat /\ i <= Len(owned')
    BY <1>1 DEF TypeOK
  <2> QED BY <1>a, <2>1, <2>2, <2>3 DEF IInv, RootsVisited
<1> QED BY <1>1, <1>2, <1>3, <1>4, <1>5, <1>6, <1>7, <1>8 DEF IInv

LEMMA ReleaseNextKeeps ==
    ASSUME IInv, ReleaseNext
    PROVE  IInv'
<1> DEFINE d == owned[left]
           c == [kind |-> "drop", id |-> d]
<1>a. /\ left \in DOMAIN owned /\ left \in Nat /\ left' = left - 1
      /\ current = None /\ reply = None /\ request = "release_all" /\ TypeOK
      /\ \A s \in Sessions : cmd[s] = None /\ phase[s] # "acking"
  BY DEF IInv, OneCommand, ReleaseNext, TypeOK
<1>e. d \in Ids /\ d[1] \in Sessions /\ d = owned[left]
  BY <1>a, IdPairs DEF TypeOK
<1>f. c # None /\ c.kind = "drop" /\ c.id = d
  BY <1>e, CommandIsSome DEF Kind
<1>b. routes' = routes \ {d}
  BY DEF ReleaseNext
<1>c. \/ /\ cmd' = [cmd EXCEPT ![d[1]] = c] /\ current' = c /\ request' = "wait_release"
         /\ d \in routes /\ phase[d[1]] # "over"
      \/ /\ cmd' = cmd /\ current' = None /\ request' = "release_all"
         /\ d \notin routes \/ phase[d[1]] = "over"
  BY DEF ReleaseNext
<1>d. UNCHANGED <<sessionVars, reply, owned, events, forwarderVars, socketVars>>
  BY DEF ReleaseNext
<1> USE DEF sessionVars, forwarderVars, socketVars
<1> HIDE DEF c, d
<1>1. TypeOK'
  BY TypeOfReleaseNext DEF IInv
<1>2. OneCommand'
  BY <1>a, <1>c, <1>d, <1>e, <1>f DEF IInv, OneCommand, TypeOK
<1>o. AnswerOwed'
  <2>1. d \in routes /\ phase[d[1]] # "over" => phase[d[1]] \in {"live", "ending"}
    <3> SUFFICES ASSUME d \in routes, phase[d[1]] # "over"
                 PROVE  phase[d[1]] \in {"live", "ending"}
      OBVIOUS
    <3>1. d[2] \in Nat /\ Issued(d) /\ minted[d[1]] \in Nat
      BY <1>a, <1>e, IdPairs DEF IInv, FromCounter, TypeOK
    <3>2. phase[d[1]] # "none"
      BY <1>e, <3>1 DEF Issued, IInv, FromCounter
    <3>3. phase[d[1]] # "acking" /\ phase[d[1]] \in Phase
      BY <1>a, <1>e DEF TypeOK
    <3> QED BY <3>2, <3>3 DEF Phase
  <2>2. current' = c => cmd'[d[1]] = c /\ phase[d[1]] # "over" /\ d \in routes
    BY <1>a, <1>c, <1>e, <1>f DEF TypeOK
  <2> QED BY <1>c, <1>d, <1>f, <2>1, <2>2 DEF AnswerOwed
<1>3. FromCounter' /\ OneEvent' /\ Replies' /\ InvokedIsRouted' /\ Resolving' /\ Telling' /\ Purged'
  BY <1>a, <1>b, <1>c, <1>d, <1>e, <1>f
     DEF IInv, FromCounter, Issued, OneEvent, Replies, InvokedIsRouted, Resolving,
     Telling, Purged, Serving
<1>4. Unsent'
  <2>1. \A e : Names(e) \subseteq Ids /\ InFlight(e) => InFlight(e)'
    BY <1>a, <1>c, <1>d, <1>e, <1>f DEF InFlight, Carries, Untold, Names, Issued, Live, Serving
  <2> QED BY <1>d, <2>1, UnsentStays DEF IInv
<1>5. Rooted'
  BY <1>a, <1>b, <1>c, <1>d, <1>e, <1>f, RootIsId DEF IInv, Rooted, Live
<1>6. RootsVisited'
  BY <1>a, <1>b, <1>c, <1>d, <1>e, <1>f DEF IInv, RootsVisited, TypeOK
<1> QED BY <1>1, <1>2, <1>o, <1>3, <1>4, <1>5, <1>6 DEF IInv

LEMMA Released1Keeps ==
    ASSUME IInv, Released1
    PROVE  IInv'
<1> USE DEF Released1, sessionVars, forwarderVars, socketVars
<1>1. TypeOK'
  BY TypeOfRequests DEF IInv
<1>2. OneCommand' /\ AnswerOwed' /\ FromCounter' /\ OneEvent' /\ Replies' /\ InvokedIsRouted'
  BY DEF IInv, OneCommand, AnswerOwed, FromCounter, Issued, OneEvent, Replies,
         InvokedIsRouted, Live
<1>3. Unsent'
  <2>1. \A e : Names(e) \subseteq Ids /\ InFlight(e) => InFlight(e)'
    BY DEF InFlight, Carries, Untold, Names, Issued, Live, Serving
  <2> QED BY <2>1, UnsentStays DEF IInv
<1>4. Resolving' /\ Telling' /\ RootsVisited' /\ Purged'
  BY DEF IInv, Resolving, Telling, RootsVisited, Purged, Serving
<1>5. Rooted'
  BY RootIsId DEF IInv, OneCommand, Replies, Rooted, Live
<1> QED BY <1>1, <1>2, <1>3, <1>4, <1>5 DEF IInv

(* release_all has visited every root: no session in the registry is left  *)
(* running, and every route is of a session the connection created.        *)
LEMMA PurgeKeeps ==
    ASSUME IInv, Purge
    PROVE  IInv'
<1> USE DEF Purge, sessionVars, forwarderVars, socketVars
<1>a. \A s \in Sessions : phase[s] # "none" => /\ Root(s) \notin routes
                                               /\ \E i \in DOMAIN owned : owned[i][1] = s
  <2> SUFFICES ASSUME NEW s \in Sessions, phase[s] # "none"
               PROVE  Root(s) \notin routes /\ \E i \in DOMAIN owned : owned[i][1] = s
    OBVIOUS
  <2>1. PICK i \in DOMAIN owned : owned[i] = Root(s)
    BY DEF IInv, RootsVisited
  <2>2. i > left
    BY DEF IInv, TypeOK
  <2> QED BY <2>1, <2>2, RootIsId DEF IInv, RootsVisited
<1>1. TypeOK'
  BY TypeOfRequests DEF IInv
<1>2. OneCommand' /\ AnswerOwed' /\ FromCounter' /\ OneEvent' /\ Replies' /\ InvokedIsRouted'
  BY DEF IInv, OneCommand, AnswerOwed, FromCounter, Issued, OneEvent, Replies,
         InvokedIsRouted, Live
<1>3. Unsent'
  <2>1. \A e : Names(e) \subseteq Ids /\ InFlight(e) => InFlight(e)'
    BY DEF InFlight, Carries, Untold, Names, Issued, Live, Serving
  <2> QED BY <2>1, UnsentStays DEF IInv
<1>4. Resolving' /\ Telling' /\ RootsVisited'
  BY DEF IInv, Resolving, Telling, RootsVisited, Serving
<1>5. Rooted'
  BY <1>a, RootIsId DEF IInv, Rooted, Live
<1>6. Purged'
  <2>1. \A id \in routes : phase[id[1]] # "none" /\ id[1] \in Sessions
    BY IdPairs DEF IInv, FromCounter, Issued, TypeOK
  <2> QED BY <1>a, <2>1 DEF Purged
<1> QED BY <1>1, <1>2, <1>3, <1>4, <1>5, <1>6 DEF IInv

-----------------------------------------------------------------------------
(* The sessions' threads.                                                  *)

(* While a command is in its session's channel it is the only one.         *)
LEMMA CommandInHand ==
    ASSUME IInv, NEW s \in Sessions, cmd[s] # None
    PROVE  /\ cmd[s] = current /\ current # None /\ reply = None
           /\ current \in Command /\ current.kind \in Kind
           /\ current.id \in Ids /\ current.id[1] = s /\ current.id[2] \in 0 .. MaxId - 1
           /\ current.id = <<s, current.id[2]>>
           /\ request \in {"wait", "wait_release"}
           /\ request = "wait_release" <=> current.kind = "drop"
           /\ \A t \in Sessions : (t # s => cmd[t] = None) /\ phase[t] # "acking"
           /\ Issued(current.id)
<1>1. cmd[s] = current /\ current.id[1] = s /\ current # None /\ reply = None
  BY DEF IInv, OneCommand
<1>2. current \in Command
  BY <1>1 DEF IInv, TypeOK
<1>3. current.id \in Ids /\ current.kind \in Kind
  BY <1>2 DEF Command
<1> QED
  BY <1>1, <1>2, <1>3, IdPairs DEF IInv, OneCommand, TypeOK, FromCounter

(* A command that only changes subscriptions.                              *)
LEMMA SubscribeKeeps ==
    ASSUME IInv, NEW s \in Sessions, Subscribe(s) \/ Other(s)
    PROVE  IInv'
<1> USE DEF requestVars, forwarderVars, socketVars
<1>a. /\ cmd[s] # None /\ cmd[s].kind \in {"subscribe", "other"}
      /\ cmd' = [cmd EXCEPT ![s] = None] /\ reply' = Done
      /\ UNCHANGED <<phase, handles, minted, eventArgs, asked, routes, requestVars, events,
                     forwarderVars, socketVars>>
  BY DEF Subscribe, Other, Take
<1>b. /\ cmd[s] = current /\ current # None /\ reply = None
      /\ request = "wait"
      /\ \A t \in Sessions : (t # s => cmd[t] = None) /\ phase[t] # "acking"
  BY <1>a, CommandInHand
<1>c. reply'.kind = "done" /\ reply'.ids = {}
  BY <1>a DEF Done
<1>1. TypeOK'
  BY TypeOfServe DEF IInv
<1>2. OneCommand'
  BY <1>a, <1>b DEF IInv, OneCommand, TypeOK
<1>o. AnswerOwed'
  BY <1>a, ReplyIsSome DEF AnswerOwed
<1>3. FromCounter' /\ OneEvent' /\ InvokedIsRouted' /\ Purged' /\ Rooted' /\ RootsVisited'
  BY <1>a, <1>c
     DEF IInv, FromCounter, Issued, OneEvent, InvokedIsRouted, Purged, Rooted,
         RootsVisited, Live
<1>4. Unsent'
  <2>1. \A e : Names(e) \subseteq Ids /\ InFlight(e) => InFlight(e)'
    BY <1>a, <1>c DEF InFlight, Carries, Untold, Names, Issued, Live, Serving
  <2> QED BY <1>a, <2>1, UnsentStays DEF IInv
<1>5. Replies' /\ Resolving' /\ Telling'
  BY <1>a, <1>b, <1>c
     DEF IInv, Replies, Resolving, Doomed, Telling, Told, Reachable, RoutesOf, Serving,
         Live
<1> QED BY <1>1, <1>2, <1>o, <1>3, <1>4, <1>5 DEF IInv

LEMMA ReleaseHandleKeeps ==
    ASSUME IInv, NEW s \in Sessions, ReleaseHandle(s)
    PROVE  IInv'
<1> USE DEF requestVars, forwarderVars, socketVars
<1>a. /\ cmd[s] # None /\ cmd[s].kind \in {"release", "drop"} /\ ~EndsSession(s, cmd[s].id[2])
      /\ cmd' = [cmd EXCEPT ![s] = None] /\ reply' = Done
      /\ handles' = [handles EXCEPT ![s] = @ \ {cmd[s].id[2]}]
      /\ UNCHANGED <<phase, minted, eventArgs, asked, routes, requestVars, events,
                     forwarderVars, socketVars>>
  BY DEF ReleaseHandle, Take
<1>b. /\ cmd[s] = current /\ current # None /\ reply = None
      /\ current.id[1] = s /\ current.id = <<s, current.id[2]>>
      /\ request = "wait_release" <=> current.kind = "drop"
      /\ request \in {"wait", "wait_release"}
      /\ \A t \in Sessions : (t # s => cmd[t] = None) /\ phase[t] # "acking"
  BY <1>a, CommandInHand
<1>c. reply'.kind = "done" /\ reply'.ids = {} /\ reply' # None
  BY <1>a, ReplyIsSome DEF Done
<1>d. /\ \A t \in Sessions : handles'[t] \subseteq handles[t]
      /\ \A id \in Ids : id[2] \in handles[id[1]] /\ id # current.id => id[2] \in handles'[id[1]]
      /\ current.id[2] \notin handles'[s]
  BY <1>a, <1>b, IdPairs DEF IInv, TypeOK
<1>1. TypeOK'
  BY TypeOfServe DEF IInv
<1>2. OneCommand'
  BY <1>a, <1>b DEF IInv, OneCommand, TypeOK
<1>o. AnswerOwed'
  BY <1>a, ReplyIsSome DEF AnswerOwed
<1>3. FromCounter' /\ OneEvent' /\ InvokedIsRouted' /\ Purged' /\ Rooted' /\ RootsVisited'
  BY <1>a, <1>c, <1>d
     DEF IInv, FromCounter, Issued, OneEvent, InvokedIsRouted, Purged, Rooted,
         RootsVisited, Live
<1>4. Unsent'
  <2>1. \A e : Names(e) \subseteq Ids /\ InFlight(e) => InFlight(e)'
    BY <1>a, <1>b, <1>c, <1>d DEF InFlight, Carries, Untold, Names, Issued, Live, Serving
  <2> QED BY <1>a, <2>1, UnsentStays DEF IInv
<1>5. Replies'
  BY <1>a, <1>b, <1>c, <1>d DEF IInv, Replies, EndsSession, Live
<1>6. Resolving' 
  BY <1>a, <1>b, <1>c, <1>d DEF IInv, Resolving, Doomed, Serving, Live, TypeOK
<1>7. Telling'
  BY <1>a, <1>d, IdPairs DEF IInv, Telling, Told, Reachable, RoutesOf, Serving, Live
<1> QED BY <1>1, <1>2, <1>o, <1>3, <1>4, <1>5, <1>6, <1>7 DEF IInv

LEMMA InvokeKeeps ==
    ASSUME IInv, NEW s \in Sessions, Invoke(s)
    PROVE  IInv'
<1> USE DEF requestVars, forwarderVars, socketVars
<1> PICK k \in 0 .. 1 :
        LET new == minted[s] .. minted[s] + k - 1
         IN /\ k = 1 => cmd[s].id[2] \in handles[s] /\ minted[s] < Quota(s)
            /\ handles' = [handles EXCEPT ![s] = @ \cup new]
            /\ minted' = [minted EXCEPT ![s] = @ + k]
            /\ reply' = Minted({s} \X new)
  BY DEF Invoke
<1> DEFINE new == minted[s] .. minted[s] + k - 1
<1>a. /\ cmd[s] # None /\ cmd[s].kind = "invoke" /\ phase[s] = "live"
      /\ cmd' = [cmd EXCEPT ![s] = None] 
      /\ UNCHANGED <<phase, eventArgs, asked, routes, requestVars, events,
                     forwarderVars, socketVars>>
  BY DEF Invoke, Take
<1>b. /\ cmd[s] = current /\ current # None /\ reply = None
      /\ current.id[1] = s /\ request = "wait"
      /\ \A t \in Sessions : (t # s => cmd[t] = None) /\ phase[t] # "acking"
  BY <1>a, CommandInHand
<1>c. reply'.kind = "minted" /\ reply'.ids = {s} \X new
  BY DEF Minted
<1>d. /\ minted[s] \in Nat /\ minted' = [minted EXCEPT ![s] = @ + k]
      /\ handles' = [handles EXCEPT ![s] = @ \cup new]
      /\ \A n \in new : n = minted[s] /\ n < minted'[s]
      /\ minted[s] <= minted'[s]
  BY DEF IInv, TypeOK
<1>e. new = {} \/ new = {minted[s]}
  <2>1. CASE k = 0
    BY <1>d, <2>1
  <2>2. CASE k = 1
    BY <1>d, <2>2
  <2> QED BY <2>1, <2>2
<1> HIDE DEF new
<1>f. \A id \in reply'.ids : id[1] = s /\ id[2] \in new /\ id[2] = minted[s]
  <2>1. \A id \in {s} \X new : id[1] = s /\ id[2] \in new
    BY PairsOf
  <2> QED BY <1>c, <1>d, <2>1
<1>g. \A id \in Ids : Issued(id) => Issued(id)' /\ id \notin reply'.ids
  <2>1. minted \in [Sessions -> 0 .. MaxId]
    BY DEF IInv, TypeOK
  <2>2. \A t \in Sessions : minted[t] \in Nat /\ minted'[t] \in Nat /\ minted[t] <= minted'[t]
    BY <1>d, <2>1
  <2>3. \A id \in Ids : Issued(id) => Issued(id)'
    BY <2>2, IdPairs DEF Issued
  <2>4. \A id \in reply'.ids : ~Issued(id)
    <3>1. minted[s] \in Nat /\ ~(minted[s] < minted[s])
      BY <2>2
    <3> QED BY <1>f, <3>1 DEF Issued
  <2> QED BY <2>3, <2>4
<1>1. TypeOK'
  BY TypeOfInvoke DEF IInv
<1>2. OneCommand'
  BY <1>a, <1>b DEF IInv, OneCommand, TypeOK
<1>o. AnswerOwed'
  <2>1. new \subseteq 0 .. MaxId - 1
    BY <1>1, <1>d DEF TypeOK
  <2>2. {s} \X new \in SUBSET Ids
    BY <2>1 DEF Ids
  <2>3. reply' = Minted({s} \X new)
    BY DEF new
  <2> QED BY <2>2, <2>3, ReplyIsSome DEF AnswerOwed
<1>3. FromCounter'
  <2>1. \A t \in Sessions : minted[t] <= minted'[t] /\ minted[t] \in Nat /\ minted'[t] \in Nat
    <3>1. minted \in [Sessions -> 0 .. MaxId]
      BY DEF IInv, TypeOK
    <3> QED BY <1>d, <3>1
  <2>2. ASSUME NEW t \in Sessions
        PROVE  /\ phase'[t] = "none" <=> minted'[t] = 0
               /\ \A n \in handles'[t] : n < minted'[t]
    <3>1. /\ handles[t] \subseteq Nat /\ minted[t] \in Nat /\ minted'[t] \in Nat
          /\ minted[t] <= minted'[t]
      BY <2>1 DEF IInv, TypeOK
    <3>2. /\ phase[t] = "none" <=> minted[t] = 0
          /\ \A n \in handles[t] : n < minted[t]
      BY DEF IInv, FromCounter
    <3>3. CASE t = s
      <4>1. handles'[s] = handles[s] \cup new
        BY <1>d DEF IInv, TypeOK
      <4>2. \A n \in handles'[s] : n < minted'[s]
        BY <1>d, <3>1, <3>2, <3>3, <4>1
      <4> QED BY <1>a, <3>1, <3>2, <3>3, <4>2
    <3>4. CASE t # s
      <4>1. handles'[t] = handles[t] /\ minted'[t] = minted[t]
        BY <1>d, <3>4 DEF IInv, TypeOK
      <4> QED BY <1>a, <3>2, <4>1
    <3> QED BY <3>3, <3>4
  <2>3. ArgsBelow'
    BY <1>a, <2>1, ArgsStayBelow
  <2>4. \A id \in reply'.ids : Issued(id)'
    BY <1>d, <1>f DEF Issued
  <2>5. \A id \in routes \cup known : Issued(id)'
    BY <1>g DEF IInv, FromCounter, TypeOK
  <2>6. \A i \in DOMAIN out : \A id \in out[i] : Issued(id)'
    BY <1>g DEF IInv, FromCounter, TypeOK
  <2>7. Issued(current.id)'
    BY <1>a, <1>g, CommandInHand
  <2> QED
    BY <1>a, <2>2, <2>3, <2>4, <2>5, <2>6, <2>7 DEF FromCounter, ArgsBelow, Issued
<1>4. OneEvent' /\ InvokedIsRouted' /\ Purged' /\ Rooted' /\ RootsVisited'
  BY <1>a DEF IInv, OneEvent, InvokedIsRouted, Purged, Rooted, RootsVisited, Live
<1>5. Unsent'
  <2>1. \A e : Names(e) \subseteq Ids /\ InFlight(e) => InFlight(e)'
    <3> SUFFICES ASSUME NEW e, Names(e) \subseteq Ids, InFlight(e) PROVE InFlight(e)'
      OBVIOUS
    <3>1. \A id \in Names(e) : Untold(id)' /\ Issued(id)'
      BY <1>a, <1>g DEF InFlight, Carries, Untold
    <3>2. e.seq \in Ids /\ e.seq[2] \notin handles'[e.seq[1]]
      <4>1. e.seq \in Ids /\ Issued(e.seq) /\ e.seq[2] \notin handles[e.seq[1]]
        BY DEF InFlight, Carries, Names
      <4>2. e.seq[1] \in Sessions /\ e.seq[2] \in Nat /\ e.seq[2] < minted[e.seq[1]]
        BY <4>1, IdPairs DEF Issued
      <4>3. e.seq[1] # s => handles'[e.seq[1]] = handles[e.seq[1]]
        BY <1>d, <4>2 DEF IInv, TypeOK
      <4>4. handles'[s] = handles[s] \cup new /\ \A x \in new : ~(x < minted[s])
        BY <1>d DEF IInv, TypeOK
      <4> QED BY ONLY <4>1, <4>2, <4>3, <4>4
    <3>3. Carries(e)'
      BY <1>a, <1>d, <3>1, <3>2 DEF InFlight, Carries, Names, Live, Serving, IInv, TypeOK
    <3> QED BY <3>1, <3>3 DEF InFlight, Names
  <2> QED BY <1>a, <2>1, UnsentStays DEF IInv
<1>6. Replies'
  <2>1. reply'.ids = {} \/ \E id \in Ids : reply'.ids = {id}
    <3>1. CASE new = {}
      BY <1>c, <3>1, PairsOf
    <3>2. CASE new = {minted[s]}
      <4>1. reply'.ids = {<<s, minted[s]>>}
        BY <1>c, <3>2, PairsOf
      <4>2. minted[s] \in 0 .. MaxId - 1
        BY <1>1, <1>d, <3>2 DEF TypeOK
      <4>3. <<s, minted[s]>> \in Ids
        BY <4>2 DEF Ids
      <4> QED BY <4>1, <4>3
    <3> QED BY <1>e, <3>1, <3>2
  <2>2. new \subseteq handles'[s]
    BY <1>d DEF IInv, TypeOK
  <2> QED
    BY <1>a, <1>b, <1>c, <1>f, <2>1, <2>2 DEF Replies
<1>7. Resolving' /\ Telling'
  <2>1. \A t \in Sessions : handles[t] \subseteq handles'[t]
    BY <1>d DEF IInv, TypeOK
  <2>2. \A id \in Ids : Issued(id) /\ id[2] \in handles'[id[1]] => id[2] \in handles[id[1]]
    BY <1>d, IdPairs DEF IInv, TypeOK, Issued
  <2>3. Resolving'
    BY <1>a, <1>b, <2>1, IdPairs DEF IInv, Resolving, Doomed, Serving, Live, TypeOK
  <2>4. \A id \in Ids : Told(id)' => Told(id) /\ Issued(id)
    BY <1>a, ToldIsIssued DEF Told
  <2>5. Telling'
    BY <1>a, <2>2, <2>4 DEF IInv, Telling, Reachable, RoutesOf, Serving, Live
  <2> QED BY <2>3, <2>5
<1> QED BY <1>1, <1>2, <1>o, <1>3, <1>4, <1>5, <1>6, <1>7 DEF IInv

LEMMA AskClosureKeeps ==
    ASSUME IInv, NEW s \in Sessions, AskClosure(s)
    PROVE  IInv'
<1> USE DEF requestVars, forwarderVars, socketVars
<1> PICK m : m = <<s, minted[s]>>
  OBVIOUS
<1> PICK ev : ev = [seq |-> m, ids |-> {}]
  OBVIOUS
<1>a. /\ cmd[s] # None /\ cmd[s].kind = "release" /\ phase[s] = "live"
      /\ cmd' = [cmd EXCEPT ![s] = None] /\ reply' = Pending
      /\ minted' = [minted EXCEPT ![s] = @ + 1] /\ minted[s] < Quota(s)
      /\ UNCHANGED <<phase, handles, eventArgs, routes, requestVars, forwarderVars, socketVars>>
  BY DEF AskClosure, Take
<1>b. /\ cmd[s] = current /\ current # None /\ reply = None
      /\ request = "wait" /\ current.id \in Ids /\ Issued(current.id)
      /\ \A t \in Sessions : (t # s => cmd[t] = None) /\ phase[t] # "acking"
  BY <1>a, CommandInHand
<1>c. reply'.kind = "pending" /\ reply'.ids = {}
  BY <1>a DEF Pending
<1>d. /\ m \in Ids /\ m[1] = s /\ m[2] = minted[s] /\ minted[s] # 0 /\ minted[s] \in Nat
  <2>1. minted[s] \in 0 .. MaxId - 1 /\ minted[s] # 0
    BY <1>a DEF Quota, IInv, TypeOK, FromCounter
  <2> QED BY <2>1 DEF Ids
<1>e. /\ \A id \in Ids : Issued(id) => Issued(id)' /\ id # m
      /\ Issued(m)' /\ ~Issued(m)
      /\ \A t \in Sessions : minted[t] \in Nat /\ minted'[t] \in Nat /\ minted[t] <= minted'[t]
  <2>1. minted \in [Sessions -> 0 .. MaxId]
    BY DEF IInv, TypeOK
  <2>2. \A t \in Sessions : minted[t] \in Nat /\ minted'[t] \in Nat /\ minted[t] <= minted'[t]
    BY <1>a, <2>1
  <2>3. minted'[s] = minted[s] + 1
    BY <1>a, <2>1
  <2>4. \A id \in Ids : Issued(id) => Issued(id)'
    BY <2>2, IdPairs DEF Issued
  <2>5. Issued(m)' /\ ~Issued(m)
    BY <1>d, <2>3 DEF Issued
  <2> QED BY <2>2, <2>4, <2>5
<1>f. ev.seq = m /\ ev.ids = {} /\ ev \in Event
  BY <1>d DEF Event
<1>g. /\ events \in Seq(Event)
      /\ \A i \in DOMAIN events' :
           \/ i \in DOMAIN events /\ events'[i] = events[i]
           \/ i = Len(events) + 1 /\ events'[i] = ev
  <2>1. events' = Pushed(ev) /\ events \in Seq(Event)
    BY DEF AskClosure, IInv, TypeOK
  <2> QED BY <1>f, <2>1, PushedPlaces
<1>1. TypeOK'
  BY TypeOfAskClosure DEF IInv
<1>2. OneCommand'
  BY <1>a, <1>b DEF IInv, OneCommand, TypeOK
<1>o. AnswerOwed'
  BY <1>a, ReplyIsSome DEF AnswerOwed
<1>3. FromCounter'
  <2>1. \A t \in Sessions : /\ phase'[t] = "none" <=> minted'[t] = 0
                            /\ \A n \in handles'[t] : n < minted'[t]
    BY <1>a, <1>d, <1>e DEF IInv, FromCounter, TypeOK
  <2>2. ArgsBelow'
    BY <1>a, <1>e, ArgsStayBelow
  <2>3. \A id \in routes \cup known : Issued(id)'
    BY <1>e DEF IInv, FromCounter, TypeOK
  <2>4. \A i \in DOMAIN out : \A id \in out[i] : Issued(id)'
    BY <1>e DEF IInv, FromCounter, TypeOK
  <2>5. Issued(current.id)'
    BY <1>a, <1>b, <1>e
  <2> QED
    BY <1>a, <1>c, <2>1, <2>2, <2>3, <2>4, <2>5 DEF FromCounter, ArgsBelow, Issued
<1>4. OneEvent' /\ InvokedIsRouted' /\ Purged' /\ Rooted' /\ RootsVisited'
  BY <1>a DEF IInv, OneEvent, InvokedIsRouted, Purged, Rooted, RootsVisited, Live
<1>5. Unsent'
  <2>1. \A e : Names(e) \subseteq Ids /\ InFlight(e) => InFlight(e)' /\ m \notin Names(e)
    BY <1>a, <1>c, <1>e DEF InFlight, Carries, Untold, Names, Live, Serving, Issued
  <2>2. m \notin known /\ (\A i \in DOMAIN out : m \notin out[i]) /\ current.id # m
    BY <1>b, <1>e DEF IInv, FromCounter
  <2>5. m[2] \notin handles[s]
    BY <1>d DEF IInv, FromCounter, TypeOK
  <2>3. InFlight(ev)'
    BY <1>a, <1>c, <1>d, <1>e, <1>f, <2>2, <2>5 DEF InFlight, Carries, Untold, Names
  <2>4. \A e : Names(e) \subseteq Ids /\ InFlight(e) =>
          InFlight(e)' /\ Names(e) \cap Names(ev) = {}
    <3>1. Names(ev) = {m}
      BY <1>f DEF Names
    <3> QED BY <2>1, <3>1
  <2> QED BY <1>a, <1>g, <2>3, <2>4, UnsentGrows DEF IInv
<1>6. Replies' /\ Resolving' /\ Telling'
  BY <1>a, <1>b, <1>c
     DEF IInv, Replies, Resolving, Doomed, Telling, Told, Reachable, RoutesOf, Serving,
         Live
<1> QED BY <1>1, <1>2, <1>o, <1>3, <1>4, <1>5, <1>6 DEF IInv

(* The release the session ends with: it owes the acknowledgement now.     *)
LEMMA LastReleaseKeeps ==
    ASSUME IInv, NEW s \in Sessions, LastRelease(s)
    PROVE  IInv'
<1> USE DEF requestVars, forwarderVars, socketVars
<1>a. /\ cmd[s] # None /\ cmd[s].kind \in {"release", "drop"} /\ phase[s] = "live"
      /\ cmd' = [cmd EXCEPT ![s] = None] /\ phase' = [phase EXCEPT ![s] = "acking"]
      /\ UNCHANGED <<handles, minted, subs, eventArgs, asked, reply, routes, requestVars,
                     events, forwarderVars, socketVars>>
  BY DEF LastRelease, Take
<1>b. /\ cmd[s] = current /\ current # None /\ reply = None /\ current.id[1] = s
      /\ \A t \in Sessions : (t # s => cmd[t] = None) /\ phase[t] # "acking"
  BY <1>a, CommandInHand
<1>c. \A t \in Sessions : Live(t)' => Live(t) /\ t # s
  BY <1>a DEF Live, IInv, TypeOK
<1>1. TypeOK'
  BY TypeOfServe DEF IInv
<1>2. OneCommand' /\ AnswerOwed'
  BY <1>a, <1>b DEF IInv, OneCommand, AnswerOwed, TypeOK
<1>3. FromCounter' /\ OneEvent' /\ Replies'
  BY <1>a, <1>b DEF IInv, FromCounter, Issued, OneEvent, Replies, TypeOK
<1>4. Unsent'
  <2>1. \A e : Names(e) \subseteq Ids /\ InFlight(e) => InFlight(e)'
    BY <1>a, <1>c, IdPairs DEF InFlight, Carries, Untold, Names, Issued, Serving
  <2> QED BY <1>a, <2>1, UnsentStays DEF IInv
<1>5. InvokedIsRouted' /\ Purged' /\ RootsVisited'
  BY <1>a DEF IInv, InvokedIsRouted, Purged, RootsVisited, TypeOK
<1>6. Resolving' /\ Telling' /\ Rooted'
  BY <1>a, <1>b, <1>c, IdPairs DEF IInv, TypeOK, Resolving, Doomed, Telling, Told, Reachable,
     RoutesOf, Serving, Rooted
<1> QED BY <1>1, <1>2, <1>3, <1>4, <1>5, <1>6 DEF IInv

LEMMA DisconnectedKeeps ==
    ASSUME IInv, NEW s \in Sessions, Disconnected(s)
    PROVE  IInv'
<1> USE DEF requestVars, forwarderVars, socketVars
<1>a. /\ phase[s] = "live" /\ phase' = [phase EXCEPT ![s] = "ending"]
      /\ UNCHANGED <<handles, minted, subs, eventArgs, asked, cmd, reply, routes, requestVars,
                     events, forwarderVars, socketVars>>
  BY DEF Disconnected
<1>c. \A t \in Sessions : Live(t)' => Live(t) /\ t # s
  BY <1>a DEF Live, IInv, TypeOK
<1>1. TypeOK'
  BY TypeOfServe DEF IInv
<1>2. OneCommand' /\ AnswerOwed'
  BY <1>a DEF IInv, OneCommand, AnswerOwed, TypeOK
<1>3. FromCounter' /\ OneEvent'
  BY <1>a DEF IInv, FromCounter, Issued, OneEvent, TypeOK
<1>4. Unsent'
  <2>1. \A e : Names(e) \subseteq Ids /\ InFlight(e) => InFlight(e)'
    BY <1>a, <1>c, IdPairs DEF InFlight, Carries, Untold, Names, Issued, Serving
  <2> QED BY <1>a, <2>1, UnsentStays DEF IInv
<1>5. InvokedIsRouted' /\ Purged' /\ RootsVisited'
  BY <1>a DEF IInv, InvokedIsRouted, Purged, RootsVisited, TypeOK
<1>6. Replies'
  <2>1. current # None => current.id[1] \in Sessions
    BY IdPairs DEF IInv, TypeOK, Command
  <2>2. reply # None => reply.ids \subseteq Ids /\ current # None
    BY DEF IInv, TypeOK, Reply, OneCommand
  <2> QED BY <1>a, <1>c, <2>1, <2>2, IdPairs DEF IInv, Replies
<1>7. Resolving' /\ Telling' /\ Rooted'
  BY <1>a, <1>c, IdPairs DEF IInv, TypeOK, Resolving, Doomed, Telling, Told, Reachable,
     RoutesOf, Serving, Rooted
<1> QED BY <1>1, <1>2, <1>3, <1>4, <1>5, <1>6, <1>7 DEF IInv

(* The $cleanup's answer names the root, of a session live no more.        *)
LEMMA ClosureAnsweredKeeps ==
    ASSUME IInv, NEW s \in Sessions, ClosureAnswered(s)
    PROVE  IInv'
<1> USE DEF requestVars, forwarderVars, socketVars
<1>a. /\ cmd[s] # None /\ cmd[s].kind = "release_event" /\ phase[s] = "live"
      /\ cmd' = [cmd EXCEPT ![s] = None] /\ phase' = [phase EXCEPT ![s] = "ending"]
      /\ reply' = Released({Root(s)})
      /\ UNCHANGED <<handles, minted, subs, eventArgs, asked, routes, requestVars,
                     events, forwarderVars, socketVars>>
  BY DEF ClosureAnswered, Take
<1>b. /\ cmd[s] = current /\ current # None /\ reply = None /\ current.id[1] = s
      /\ current.id \in Ids
      /\ \A t \in Sessions : (t # s => cmd[t] = None) /\ phase[t] # "acking"
  BY <1>a, CommandInHand
<1>c. \A t \in Sessions : Live(t)' => Live(t) /\ t # s
  BY <1>a DEF Live, IInv, TypeOK
<1>d. reply'.kind = "released" /\ reply'.ids = {Root(s)} /\ Root(s)[1] = s
  BY <1>a, RootIsId DEF Released
<1>e. minted[s] \in Nat /\ minted[s] # 0
  BY <1>a DEF IInv, TypeOK, FromCounter
<1>1. TypeOK'
  BY TypeOfReleaseEvent DEF IInv
<1>2. OneCommand'
  BY <1>a, <1>b DEF IInv, OneCommand, TypeOK
<1>o. AnswerOwed'
  <2>1. {Root(s)} \in SUBSET Ids
    BY RootIsId
  <2> QED BY <1>a, <2>1, ReplyIsSome DEF AnswerOwed
<1>3. FromCounter' /\ OneEvent'
  <2>1. \A id \in reply'.ids : Issued(id)'
    <3>1. 0 < minted[s] /\ minted' = minted /\ Root(s)[2] = 0
      BY <1>a, <1>e, RootIsId
    <3> QED BY <1>d, <3>1 DEF Issued
  <2> QED
    BY <1>a, <1>b, <2>1 DEF IInv, FromCounter, Issued, OneEvent, TypeOK
<1>4. Unsent'
  <2>1. \A e : Names(e) \subseteq Ids /\ InFlight(e) => InFlight(e)'
    BY <1>a, <1>c, <1>d, IdPairs DEF InFlight, Carries, Untold, Names, Issued, Serving
  <2> QED BY <1>a, <2>1, UnsentStays DEF IInv
<1>5. InvokedIsRouted' /\ Purged' /\ RootsVisited'
  BY <1>a DEF IInv, InvokedIsRouted, Purged, RootsVisited, TypeOK
<1>6. Replies'
  BY <1>a, <1>b, <1>c, <1>d DEF Replies
<1>7. Resolving' /\ Telling' /\ Rooted'
  BY <1>a, <1>b, <1>c, IdPairs DEF IInv, TypeOK, Resolving, Doomed, Telling, Told, Reachable,
     RoutesOf, Serving, Rooted
<1> QED BY <1>1, <1>2, <1>o, <1>3, <1>4, <1>5, <1>6, <1>7 DEF IInv

LEMMA EndThreadKeeps ==
    ASSUME IInv, NEW s \in Sessions, EndThread(s)
    PROVE  IInv'
<1> USE DEF requestVars, forwarderVars, socketVars
<1>a. /\ phase[s] \in {"ending", "acking"} /\ phase' = [phase EXCEPT ![s] = "over"]
      /\ handles' = [handles EXCEPT ![s] = {}]
      /\ eventArgs' = [eventArgs EXCEPT ![s] = NoArgs]
      /\ cmd' = [cmd EXCEPT ![s] = None]
      /\ UNCHANGED <<minted, routes, requestVars, events, forwarderVars, socketVars>>
  BY DEF EndThread
<1>b. /\ \A t \in Sessions : Live(t)' => Live(t) /\ t # s
      /\ \A t \in Sessions : t # s => handles'[t] = handles[t] /\ eventArgs'[t] = eventArgs[t]
      /\ handles'[s] = {} /\ \A n \in 0 .. MaxId - 1 : eventArgs'[s][n] = {}
  BY <1>a DEF Live, IInv, TypeOK, NoArgs
<1>c. \/ /\ reply' = reply
      \/ /\ reply = None /\ current # None /\ current.id[1] = s
         /\ reply'.ids = {} /\ reply'.kind \in {"done", "dropped"}
         /\ reply'.kind = "done" => current.kind \in {"release", "drop"}
  BY CommandInHand DEF EndThread, Done, Dropped, IInv, OneCommand
<1>1. TypeOK'
  BY TypeOfEndThread DEF IInv
<1>2. OneCommand'
  BY <1>a, <1>c DEF IInv, OneCommand, TypeOK, EndThread
<1>o. AnswerOwed'
  <2>1. Done # None /\ Dropped # None
    BY ReplyIsSome
  <2>2. \A t \in Sessions : t # s => phase'[t] = phase[t] /\ cmd'[t] = cmd[t]
    BY <1>a DEF IInv, TypeOK
  <2>3. reply # None => reply' # None
    BY <1>c DEF IInv, OneCommand
  <2>4. current # None => current.id[1] \in Sessions
    BY IdPairs DEF IInv, TypeOK, Command
  <2>5. current # None /\ current.id[1] = s /\ reply = None => reply' # None
    BY <2>1 DEF EndThread, IInv, AnswerOwed
  <2> QED BY <1>a, <2>2, <2>3, <2>4, <2>5 DEF AnswerOwed, IInv
<1>3. FromCounter' /\ OneEvent'
  BY <1>a, <1>b, <1>c DEF IInv, FromCounter, Issued, OneEvent, TypeOK
<1>4. Unsent'
  <2>1. \A e : Names(e) \subseteq Ids /\ InFlight(e) => InFlight(e)'
    BY <1>a, <1>b, <1>c, IdPairs DEF InFlight, Carries, Untold, Names, Issued, Serving
  <2> QED BY <1>a, <2>1, UnsentStays DEF IInv
<1>5. InvokedIsRouted' /\ Purged' /\ RootsVisited'
  BY <1>a DEF IInv, InvokedIsRouted, Purged, RootsVisited, TypeOK
<1>6. Replies'
  <2>1. current # None => current.id[1] \in Sessions
    BY IdPairs DEF IInv, TypeOK, Command
  <2>2. reply # None => reply.ids \subseteq Ids /\ current # None
    BY DEF IInv, TypeOK, Reply, OneCommand
  <2> QED BY <1>a, <1>b, <1>c, <2>1, <2>2, IdPairs DEF IInv, Replies
<1>7. Resolving'
  <2> SUFFICES ASSUME Serving', NEW id \in routes', Live(id[1])'
               PROVE  id[2] \in handles'[id[1]] \/ Doomed(id)'
    BY DEF Resolving
  <2>1. id \in routes /\ id[1] \in Sessions /\ id[1] # s /\ Live(id[1]) /\ Serving
    BY <1>a, <1>b, IdPairs DEF IInv, TypeOK, Serving
  <2>2. id[2] \in handles[id[1]] \/ Doomed(id)
    BY <2>1 DEF IInv, Resolving
  <2> QED BY <1>a, <1>b, <1>c, <2>1, <2>2 DEF Doomed
<1>8. Telling'
  BY <1>a, <1>b, IdPairs DEF IInv, Telling, Told, Reachable, RoutesOf, Serving
<1>9. Rooted'
  BY <1>a, <1>b DEF IInv, Rooted
<1> QED BY <1>1, <1>2, <1>o, <1>3, <1>4, <1>5, <1>6, <1>7, <1>8, <1>9 DEF IInv

(* The arguments of one event go, and nothing else a live session holds.   *)
LEMMA ReleaseEventKeeps ==
    ASSUME IInv, NEW s \in Sessions, ReleaseEvent(s)
    PROVE  IInv'
<1> USE DEF requestVars, forwarderVars, socketVars
<1> PICK n : n = cmd[s].id[2]
  OBVIOUS
<1> PICK args : args = eventArgs[s][n]
  OBVIOUS
<1>a. /\ cmd[s] # None /\ cmd[s].kind = "release_event" /\ phase[s] = "live"
      /\ cmd' = [cmd EXCEPT ![s] = None] /\ reply' = Released({s} \X args)
      /\ handles' = [handles EXCEPT ![s] = @ \ args]
      /\ eventArgs' = [eventArgs EXCEPT ![s][n] = {}]
      /\ UNCHANGED <<phase, minted, routes, requestVars, events, forwarderVars, socketVars>>
  BY DEF ReleaseEvent, Take
<1>b. /\ cmd[s] = current /\ current # None /\ reply = None /\ request = "wait"
      /\ current.id \in Ids /\ current.id = <<s, n>> /\ n \in 0 .. MaxId - 1
      /\ \A t \in Sessions : (t # s => cmd[t] = None) /\ phase[t] # "acking"
  BY <1>a, CommandInHand
<1>c. /\ reply'.kind = "released" /\ reply'.ids = {s} \X args /\ reply' # None
  <2>1. {s} \X args \in SUBSET Ids
    BY <1>b DEF IInv, TypeOK, Ids
  <2> QED BY <1>a, <2>1, ReplyIsSome DEF Released
<1>d. \A id \in reply'.ids : id[1] = s /\ id[2] \in args
  <2>1. \A id \in {s} \X args : id[1] = s /\ id[2] \in args
    BY PairsOf
  <2> QED BY <1>c, <2>1
<1>e. \A m \in args : 0 < m /\ m < minted[s]
  BY <1>b DEF IInv, FromCounter
<1>f. /\ handles'[s] = handles[s] \ args
      /\ \A t \in Sessions : t # s => handles'[t] = handles[t] /\ eventArgs'[t] = eventArgs[t]
      /\ eventArgs'[s][n] = {}
      /\ \A m \in 0 .. MaxId - 1 : m # n => eventArgs'[s][m] = eventArgs[s][m]
  BY <1>a, <1>b DEF IInv, TypeOK
<1>1. TypeOK'
  BY TypeOfReleaseEvent DEF IInv
<1>2. OneCommand'
  BY <1>a, <1>b DEF IInv, OneCommand, TypeOK
<1>o. AnswerOwed'
  BY <1>c DEF AnswerOwed
<1>3. FromCounter'
  <2>1. \A t \in Sessions : /\ phase'[t] = "none" <=> minted'[t] = 0
                            /\ \A m \in handles'[t] : m < minted'[t]
    BY <1>a, <1>f DEF IInv, FromCounter
  <2>2. \A t \in Sessions : \A e \in 0 .. MaxId - 1 : \A m \in eventArgs'[t][e] :
          0 < m /\ m < minted'[t] /\ e < minted'[t]
    BY <1>a, <1>f DEF IInv, FromCounter
  <2>3. \A id \in reply'.ids : Issued(id)'
    BY <1>a, <1>d, <1>e DEF Issued
  <2> QED
    BY <1>a, <1>b, <2>1, <2>2, <2>3 DEF IInv, FromCounter, Issued
<1>4. OneEvent'
  BY <1>f DEF IInv, OneEvent
<1>5. Unsent'
  <2>1. \A e : Names(e) \subseteq Ids /\ InFlight(e) => InFlight(e)'
    <3> SUFFICES ASSUME NEW e, Names(e) \subseteq Ids, InFlight(e) PROVE InFlight(e)'
      OBVIOUS
    <3>1. \A id \in Names(e) : Untold(id)' /\ Issued(id)'
      BY <1>a, <1>c DEF InFlight, Carries, Untold, Issued
    <3>2. e.seq \in Ids /\ e.seq # <<s, n>>
      BY <1>b DEF InFlight, Untold, Names
    <3>3. e.seq[1] = s => e.seq[2] # n /\ e.seq[2] \in 0 .. MaxId - 1
      BY <3>2, IdPairs
    <3>4. e.seq[1] = s /\ Live(s) => \A id \in e.ids :
            id[1] = s /\ id[2] \in handles[s] /\ id[2] \in eventArgs[s][e.seq[2]]
      BY <1>b DEF InFlight, Carries, Names, Serving
    <3>5. e.seq[1] = s /\ Live(s) => \A id \in e.ids : id[2] \notin args
      BY <1>b, <3>3, <3>4 DEF IInv, OneEvent
    <3>6. Carries(e)'
      <4>1. \A id \in Names(e) : Issued(id)' /\ id[1] = e.seq[1] /\ id[2] # 0
        BY <3>1 DEF InFlight, Carries
      <4>2. e.seq[1] \in Sessions /\ e.seq[2] \in 0 .. MaxId - 1
            /\ e.seq[2] \notin handles[e.seq[1]]
        BY <3>2, IdPairs DEF InFlight, Carries
      <4>3. e.seq[2] \notin handles'[e.seq[1]]
        BY ONLY <1>f, <4>2
      <4>4. ASSUME Live(e.seq[1])', Serving', NEW id \in e.ids
            PROVE  id[2] \in handles'[id[1]] /\ id[2] \in eventArgs'[id[1]][e.seq[2]]
        <5>1. Live(e.seq[1]) /\ Serving
          BY <1>a, <4>4 DEF Live, Serving
        <5>2. /\ id[1] = e.seq[1]
              /\ id[2] \in handles[id[1]] /\ id[2] \in eventArgs[id[1]][e.seq[2]]
          BY <4>4, <5>1 DEF InFlight, Carries, Names
        <5>3. CASE e.seq[1] = s
          BY <1>f, <3>3, <3>5, <4>4, <5>1, <5>2, <5>3
        <5>4. CASE e.seq[1] # s
          BY ONLY <1>f, <4>2, <5>2, <5>4
        <5> QED BY <5>3, <5>4
      <4> QED BY <4>1, <4>3, <4>4 DEF Carries
    <3> QED BY <3>1, <3>6 DEF InFlight, Names
  <2> QED BY <1>a, <2>1, UnsentStays DEF IInv
<1>6. InvokedIsRouted' /\ Purged' /\ RootsVisited' /\ Rooted'
  BY <1>a DEF IInv, InvokedIsRouted, Purged, RootsVisited, Rooted, Live
<1>7. Replies'
  <2>1. \A id \in reply'.ids : id[1] = s /\ id[2] # 0 /\ id[2] \notin handles'[s]
    BY <1>d, <1>e, <1>f
  <2> QED BY <1>a, <1>b, <1>c, <2>1 DEF Replies
<1>8. Resolving'
  <2>1. \A id \in Ids : id[1] = s /\ id[2] \in args => id \in reply'.ids
    BY <1>c, IdPairs
  <2>2. ASSUME Serving', NEW id \in routes', Live(id[1])'
        PROVE  id[2] \in handles'[id[1]] \/ Doomed(id)'
    <3>1. id \in Ids /\ id \in routes /\ Serving /\ Live(id[1]) /\ id[1] \in Sessions
      BY <1>a, <2>2, IdPairs DEF IInv, TypeOK, Serving, Live
    <3>2. id[2] \in handles[id[1]]
      BY <1>b, <3>1 DEF IInv, Resolving, Doomed
    <3>3. CASE id[1] = s /\ id[2] \in args
      BY <1>c, <2>1, <3>1, <3>3 DEF Doomed
    <3>4. CASE ~(id[1] = s /\ id[2] \in args)
      BY <1>f, <3>1, <3>2, <3>4
    <3> QED BY <3>3, <3>4
  <2> QED BY <2>2 DEF Resolving
<1>9. Telling'
  BY <1>a, <1>f, IdPairs DEF IInv, Telling, Told, Reachable, RoutesOf, Serving, Live
<1> QED BY <1>1, <1>2, <1>o, <1>3, <1>4, <1>5, <1>6, <1>7, <1>8, <1>9 DEF IInv

LEMMA FireKeeps ==
    ASSUME IInv, NEW s \in Sessions, Fire(s)
    PROVE  IInv'
<1> USE DEF requestVars, forwarderVars, socketVars
<1>k. PICK k \in 0 .. 1 : Fires(s, k)
  BY DEF Fire, Fires
<1> PICK n : n = minted[s]
  OBVIOUS
<1> PICK args : args = n + 1 .. n + k
  OBVIOUS
<1> PICK m : m = <<s, n>>
  OBVIOUS
<1> PICK ev : ev = [seq |-> m, ids |-> {s} \X args]
  OBVIOUS
<1>a. /\ phase[s] = "live"
      /\ minted' = [minted EXCEPT ![s] = n + k + 1]
      /\ handles' = [handles EXCEPT ![s] = @ \cup args]
      /\ eventArgs' = [eventArgs EXCEPT ![s][n] = args]
      /\ n + k < Quota(s)
      /\ UNCHANGED <<phase, cmd, reply, routes, requestVars, forwarderVars, socketVars>>
  BY <1>k DEF Fire, Fires
<1>b. /\ n \in 0 .. MaxId - 1 /\ n # 0 /\ n + k + 1 \in Nat
      /\ \A x \in args : n < x /\ x < n + k + 1 /\ x \in 0 .. MaxId - 1
  <2>1. n \in 0 .. MaxId /\ n # 0
    BY <1>a DEF IInv, TypeOK, FromCounter
  <2>2. Quota(s) \in Nat /\ Quota(s) <= MaxId
    BY DEF Quota
  <2>3. n + k < MaxId /\ n + k + 1 \in Nat
    BY <1>a, <2>1, <2>2
  <2>4. \A x \in args : x \in Int /\ n < x /\ x < n + k + 1
    BY <2>1
  <2> QED BY <2>1, <2>3, <2>4
<1>c. /\ m \in Ids /\ m[1] = s /\ m[2] = n
      /\ ev.seq = m /\ ev.ids = {s} \X args
      /\ \A id \in ev.ids : id[1] = s /\ id[2] \in args /\ id \in Ids
  <2>1. \A id \in {s} \X args : id[1] = s /\ id[2] \in args
    BY PairsOf
  <2>2. {s} \X args \subseteq Ids
    BY <1>b DEF Ids
  <2> QED BY <1>b, <2>1, <2>2 DEF Ids
<1>d. /\ minted'[s] = n + k + 1
      /\ \A t \in Sessions : t # s =>
           minted'[t] = minted[t] /\ handles'[t] = handles[t] /\ eventArgs'[t] = eventArgs[t]
      /\ handles'[s] = handles[s] \cup args
      /\ eventArgs'[s][n] = args
      /\ \A e \in 0 .. MaxId - 1 : e # n => eventArgs'[s][e] = eventArgs[s][e]
      /\ \A t \in Sessions : minted[t] \in Nat /\ minted'[t] \in Nat /\ minted[t] <= minted'[t]
  <2>1. /\ minted \in [Sessions -> 0 .. MaxId]
        /\ handles \in [Sessions -> SUBSET (0 .. MaxId - 1)]
        /\ eventArgs \in [Sessions -> [0 .. MaxId - 1 -> SUBSET (0 .. MaxId - 1)]]
    BY DEF IInv, TypeOK
  <2>2. /\ minted'[s] = n + k + 1
        /\ \A t \in Sessions : t # s => minted'[t] = minted[t]
    BY <1>a, <2>1
  <2>3. \A t \in Sessions : minted[t] \in Nat /\ minted'[t] \in Nat /\ minted[t] <= minted'[t]
    BY <1>b, <2>1, <2>2
  <2> QED BY <1>a, <1>b, <2>1, <2>2, <2>3
<1>e. /\ \A id \in Ids : Issued(id) => Issued(id)' /\ id \notin Names(ev)
      /\ \A id \in Names(ev) : Issued(id)' /\ ~Issued(id)
  <2>1. \A id \in Ids : Issued(id) => Issued(id)'
    BY <1>d, IdPairs DEF Issued
  <2>2. \A id \in Names(ev) : id[1] = s /\ id[2] \in Nat /\ n <= id[2] /\ id[2] < n + k + 1
    BY <1>b, <1>c DEF Names
  <2>3. \A id \in Names(ev) : Issued(id)' /\ ~Issued(id)
    BY <1>b, <1>d, <2>2 DEF Issued
  <2> QED BY <2>1, <2>3
<1>f. \A i \in DOMAIN events' :
        \/ i \in DOMAIN events /\ events'[i] = events[i]
        \/ i = Len(events) + 1 /\ events'[i] = ev
  <2>1. events' = Pushed(ev) /\ events \in Seq(Event)
    BY <1>k DEF Fires, IInv, TypeOK
  <2>2. ev \in Event
    BY <1>c DEF Event
  <2> QED BY <2>1, <2>2, PushedPlaces
<1>1. TypeOK'
  BY TypeOfFire DEF IInv
<1>2. OneCommand' /\ AnswerOwed'
  BY <1>a DEF IInv, OneCommand, AnswerOwed
<1>3. FromCounter'
  <2>0. ASSUME NEW t \in Sessions
        PROVE  /\ phase[t] = "none" <=> minted[t] = 0
               /\ \A x \in handles[t] : x \in Int /\ x < minted[t]
               /\ \A e \in 0 .. MaxId - 1 : \A x \in eventArgs[t][e] :
                     x \in Int /\ 0 < x /\ x < minted[t] /\ e < minted[t]
    <3>1. /\ handles[t] \subseteq Int
          /\ \A e \in 0 .. MaxId - 1 : eventArgs[t][e] \subseteq Int
      <4>1. /\ handles[t] \in SUBSET (0 .. MaxId - 1)
            /\ eventArgs[t] \in [0 .. MaxId - 1 -> SUBSET (0 .. MaxId - 1)]
        BY DEF IInv, TypeOK
      <4> QED BY ONLY <4>1, MaxIdAssumption
    <3>2. /\ phase[t] = "none" <=> minted[t] = 0
          /\ \A x \in handles[t] : x < minted[t]
          /\ \A e \in 0 .. MaxId - 1 : \A x \in eventArgs[t][e] :
                0 < x /\ x < minted[t] /\ e < minted[t]
      BY DEF IInv, FromCounter
    <3> QED BY <3>1, <3>2
  <2>1. ASSUME NEW t \in Sessions
        PROVE  /\ phase'[t] = "none" <=> minted'[t] = 0
               /\ \A x \in handles'[t] : x < minted'[t]
    <3>1. CASE t = s
      BY <1>a, <1>b, <1>d, <2>0, <3>1
    <3>2. CASE t # s
      BY <1>a, <1>d, <2>0, <3>2
    <3> QED BY <3>1, <3>2
  <2>2. ASSUME NEW t \in Sessions, NEW e \in 0 .. MaxId - 1, NEW x \in eventArgs'[t][e]
        PROVE  0 < x /\ x < minted'[t] /\ e < minted'[t]
    <3>1. CASE t = s /\ e = n
      <4>1. x \in args /\ minted'[t] = n + k + 1
        BY <1>d, <3>1
      <4> QED BY <1>b, <3>1, <4>1
    <3>2. CASE ~(t = s /\ e = n)
      <4>1. x \in eventArgs[t][e]
        BY <1>d, <3>2
      <4>2. /\ x \in Int /\ 0 < x /\ x < minted[t] /\ e < minted[t]
            /\ minted[t] \in Nat /\ minted'[t] \in Nat /\ minted[t] <= minted'[t]
        BY <1>d, <2>0, <4>1
      <4> QED BY <4>2
    <3> QED BY <3>1, <3>2
  <2>3. \A id \in routes \cup known : Issued(id)'
    BY <1>e DEF IInv, FromCounter, TypeOK
  <2>4. \A i \in DOMAIN out : \A id \in out[i] : Issued(id)'
    BY <1>e DEF IInv, FromCounter, TypeOK
  <2>5. current # None => Issued(current.id)'
    <3>1. current # None => current.id \in Ids
      BY DEF IInv, TypeOK, Command
    <3> QED BY <1>a, <1>e, <3>1 DEF IInv, FromCounter
  <2>6. reply # None => \A id \in reply.ids : Issued(id)'
    BY <1>e DEF IInv, FromCounter, TypeOK, Reply
  <2> QED
    BY <1>a, <2>1, <2>2, <2>3, <2>4, <2>5, <2>6 DEF FromCounter, Issued
<1>4. OneEvent'
  <2>1. ASSUME NEW e \in 0 .. MaxId - 1
        PROVE  eventArgs[s][e] \cap args = {}
    <3>1. \A x \in eventArgs[s][e] : x \in Int /\ x < n
      BY DEF IInv, FromCounter, TypeOK
    <3> QED BY <1>b, <3>1
  <2>2. ASSUME NEW t \in Sessions, NEW d \in 0 .. MaxId - 1, NEW e \in 0 .. MaxId - 1, d # e
        PROVE  eventArgs'[t][d] \cap eventArgs'[t][e] = {}
    <3>1. CASE t # s
      BY <1>d, <2>2, <3>1 DEF IInv, OneEvent
    <3>2. CASE t = s
      <4>1. eventArgs[s][d] \cap eventArgs[s][e] = {}
        BY <2>2 DEF IInv, OneEvent
      <4>2. /\ eventArgs'[s][d] = IF d = n THEN args ELSE eventArgs[s][d]
            /\ eventArgs'[s][e] = IF e = n THEN args ELSE eventArgs[s][e]
        BY <1>d
      <4> QED BY <2>1, <2>2, <3>2, <4>1, <4>2
    <3> QED BY <3>1, <3>2
  <2> QED BY <2>2 DEF OneEvent
<1>5. Unsent'
  <2>1. \A e : Names(e) \subseteq Ids /\ InFlight(e) =>
          InFlight(e)' /\ Names(e) \cap Names(ev) = {}
    <3> SUFFICES ASSUME NEW e, Names(e) \subseteq Ids, InFlight(e)
                 PROVE InFlight(e)' /\ Names(e) \cap Names(ev) = {}
      OBVIOUS
    <3>1. \A id \in Names(e) : Untold(id)' /\ Issued(id)' /\ Issued(id) /\ id \notin Names(ev)
      BY <1>a, <1>e DEF InFlight, Carries, Untold
    <3>2. e.seq \in Ids /\ e.seq # m /\ (e.seq[1] = s => e.seq[2] # n)
      BY <1>c, <3>1, IdPairs DEF Names
    <3>3. Carries(e)'
      BY <1>a, <1>d, <3>1, <3>2, IdPairs DEF InFlight, Carries, Names, Live, Serving
    <3> QED BY <3>1, <3>3 DEF InFlight, Names
  <2>2. \A id \in Names(ev) : /\ id \in Ids /\ id \notin known
                              /\ \A i \in DOMAIN out : id \notin out[i]
                              /\ current # None => current.id # id
                              /\ reply # None => id \notin reply.ids
    BY <1>c, <1>e DEF IInv, FromCounter, Names
  <2>3. InFlight(ev)'
    <3>1. \A id \in Names(ev) : Untold(id)'
      BY <1>a, <2>2 DEF Untold, IInv, OneCommand
    <3>2. n \notin handles'[s]
      BY <1>b, <1>d DEF IInv, FromCounter, TypeOK
    <3>3. Carries(ev)'
      BY <1>a, <1>b, <1>c, <1>d, <1>e, <3>2 DEF Carries, Names
    <3> QED BY <3>1, <3>3 DEF InFlight, Names
  <2> QED BY <1>a, <1>f, <2>1, <2>3, UnsentGrows DEF IInv
<1>6. InvokedIsRouted' /\ Purged' /\ RootsVisited' /\ Rooted'
  BY <1>a DEF IInv, InvokedIsRouted, Purged, RootsVisited, Rooted, Live
<1>7. Replies'
  <2>1. \A id \in Ids : Issued(id) /\ id[2] \in handles'[id[1]] => id[2] \in handles[id[1]]
    BY <1>b, <1>d, IdPairs DEF Issued
  <2>2. \A t \in Sessions : handles[t] \subseteq handles'[t]
    BY <1>d
  <2>3. reply # None => /\ \A id \in reply.ids : id \in Ids /\ Issued(id)
                        /\ current.id \in Ids /\ Issued(current.id)
    BY DEF IInv, TypeOK, Reply, Command, FromCounter, OneCommand
  <2> QED BY <1>a, <2>1, <2>2, <2>3, IdPairs DEF IInv, Replies, Live
<1>8. Resolving'
  BY <1>a, <1>d, IdPairs DEF IInv, Resolving, Doomed, Serving, Live, TypeOK
<1>9. Telling'
  <2>1. \A id \in Ids : Issued(id) /\ id[2] \in handles'[id[1]] => id[2] \in handles[id[1]]
    BY <1>b, <1>d, IdPairs DEF Issued
  <2>2. \A id \in Ids : Told(id)' => Told(id) /\ Issued(id)
    BY <1>a, ToldIsIssued DEF Told
  <2> QED BY <1>a, <2>1, <2>2 DEF IInv, Telling, Reachable, RoutesOf, Serving, Live
<1> QED BY <1>1, <1>2, <1>3, <1>4, <1>5, <1>6, <1>7, <1>8, <1>9 DEF IInv

-----------------------------------------------------------------------------
(* The forwarder.                                                          *)

LEMMA TakeEventKeeps ==
    ASSUME IInv, TakeEvent
    PROVE  IInv'
<1> USE DEF sessionVars, requestVars, socketVars
<1> PICK e : e = Head(events)
  OBVIOUS
<1>a. /\ events \in Seq(Event) /\ events # <<>> /\ e = events[1] /\ 1 \in DOMAIN events
      /\ e \in Event /\ e.seq \in Ids /\ e.ids \subseteq Ids /\ e.seq[1] \in Sessions
      /\ \A i \in DOMAIN events' :
            i \in Nat /\ i + 1 \in DOMAIN events /\ i + 1 # 1 /\ events'[i] = events[i + 1]
  <2>1. events \in Seq(Event) /\ events # <<>> /\ events' = Tail(events)
    BY DEF TakeEvent, IInv, TypeOK
  <2>2. e \in Event
    BY <2>1, TailPlaces
  <2> QED BY <2>1, <2>2, TailPlaces, IdPairs DEF Event
<1>b. /\ forwarder'.pc \in {"insert", "send"}
      /\ forwarder'.ids = e.ids /\ forwarder'.seq = e.seq
      /\ forwarder'.route = IF forwarder'.pc = "insert" THEN e.seq[1] ELSE None
      /\ forwarder'.pc = "insert" <=> e.ids # {} /\ RoutesOf(e.seq[1]) # {}
  BY DEF TakeEvent
<1>c. /\ forwarder.pc = "take" /\ forwarder.route = None
      /\ UNCHANGED <<sessionVars, cmd, reply, routes, requestVars, late, socketVars>>
  BY DEF TakeEvent, IInv, Unsent
<1>d. InFlight(e)
  BY <1>a DEF IInv, Unsent
<1>1. TypeOK'
  BY TypeOfForwarder DEF IInv, Forwarder
<1>2. OneCommand' /\ AnswerOwed' /\ FromCounter' /\ OneEvent' /\ Replies' /\ InvokedIsRouted'
  BY <1>c
     DEF IInv, OneCommand, AnswerOwed, FromCounter, Issued, OneEvent, Replies,
         InvokedIsRouted, Live
<1>3. Unsent'
  <2>1. \A f : Names(f) \subseteq Ids /\ InFlight(f) => InFlight(f)'
    BY <1>c DEF InFlight, Carries, Untold, Names, Issued, Live, Serving
  <2>2. InFlight(forwarder)'
    <3>1. InFlight(e)'
      BY <1>a, <1>d, <2>1 DEF Names
    <3> QED BY <1>b, <3>1 DEF InFlight, Carries, Untold, Names, Issued, Live, Serving
  <2>3. ASSUME NEW i \in DOMAIN events'
        PROVE  InFlight(events[i])' /\ Names(events'[i]) \cap Names(e) = {}
    <3> PICK f : f = events'[i]
      OBVIOUS
    <3>1. f \in Event /\ InFlight(f) /\ Names(f) \cap Names(e) = {}
      BY <1>a, <2>3 DEF IInv, Unsent
    <3>2. InFlight(f)'
      BY <2>1, <3>1 DEF Event, Names
    <3> QED BY <3>1, <3>2 DEF InFlight, Carries, Untold, Names, Issued, Live, Serving
  <2>4. \A i, j \in DOMAIN events : i # j => Names(events[i]) \cap Names(events[j]) = {}
    BY DEF IInv, Unsent
  <2>5. \A i, j \in DOMAIN events' : i # j => Names(events'[i]) \cap Names(events'[j]) = {}
    <3> SUFFICES ASSUME NEW i \in DOMAIN events', NEW j \in DOMAIN events', i # j
                 PROVE  Names(events'[i]) \cap Names(events'[j]) = {}
      OBVIOUS
    <3>1. i + 1 # j + 1
      BY <1>a
    <3> QED BY <1>a, <2>4, <3>1
  <2> QED BY <1>a, <1>b, <2>2, <2>3, <2>5 DEF Unsent, Names
<1>4. Resolving' /\ Rooted' /\ RootsVisited' /\ Purged'
  BY <1>c DEF IInv, Resolving, Doomed, Rooted, RootsVisited, Purged, Serving, Live
<1>5. Telling'
  <2>1. \A t \in Sessions : Reachable(t)' => Reachable(t)
    BY <1>a, <1>b, <1>c, NoneAssumption DEF Reachable, RoutesOf
  <2>2. \A id \in Ids : Told(id)' => Told(id) \/ (forwarder'.pc = "send" /\ id \in e.ids)
    BY <1>b, <1>c DEF Told
  <2>3. forwarder'.pc = "send" => \A id \in e.ids : ~Reachable(id[1])'
    BY <1>a, <1>b, <1>c, <1>d, NoneAssumption DEF Reachable, RoutesOf, InFlight, Carries, Names
  <2> QED BY <1>c, <2>1, <2>2, <2>3, IdPairs DEF IInv, Telling, Serving, Live
<1> QED BY <1>1, <1>2, <1>3, <1>4, <1>5 DEF IInv

LEMMA InsertRoutesKeeps ==
    ASSUME IInv, InsertRoutes
    PROVE  IInv'
<1> USE DEF sessionVars, requestVars, socketVars
<1>a. /\ forwarder.pc = "insert" /\ forwarder.route = forwarder.seq[1]
      /\ forwarder.seq \in Ids /\ forwarder.seq[1] \in Sessions /\ forwarder.ids \subseteq Ids
      /\ forwarder' = [forwarder EXCEPT !.pc = "send", !.route = None]
      /\ routes' = routes \cup forwarder.ids
      /\ InFlight(forwarder) /\ Forwarding
      /\ UNCHANGED <<sessionVars, cmd, reply, requestVars, events, socketVars>>
  BY IdPairs DEF InsertRoutes, IInv, Unsent, Forwarding, TypeOK
<1>b. /\ forwarder'.pc = "send" /\ forwarder'.route = None
      /\ forwarder'.seq = forwarder.seq /\ forwarder'.ids = forwarder.ids
  BY <1>a DEF IInv, TypeOK
<1>c. \A id \in forwarder.ids : /\ Issued(id) /\ id[1] = forwarder.seq[1] /\ id[2] # 0
                                /\ Live(id[1]) /\ Serving => id[2] \in handles[id[1]]
  BY <1>a DEF InFlight, Carries, Names
<1>1. TypeOK'
  BY TypeOfForwarder DEF IInv, Forwarder
<1>2. OneCommand' /\ AnswerOwed' /\ OneEvent' /\ Replies' /\ InvokedIsRouted'
  BY <1>a DEF IInv, OneCommand, AnswerOwed, OneEvent, Replies, InvokedIsRouted, Live
<1>3. FromCounter'
  BY <1>a, <1>c DEF IInv, FromCounter, Issued
<1>4. Unsent'
  <2>1. \A f : Names(f) \subseteq Ids /\ InFlight(f) => InFlight(f)'
    BY <1>a DEF InFlight, Carries, Untold, Names, Issued, Live, Serving
  <2>2. InFlight(forwarder)'
    <3> PICK f : f = forwarder
      OBVIOUS
    <3>1. InFlight(f)'
      BY <1>a, <2>1 DEF Names
    <3> QED BY <1>b, <3>1 DEF InFlight, Carries, Untold, Names, Issued, Live, Serving
  <2>3. ASSUME NEW i \in DOMAIN events'
        PROVE  InFlight(events[i])' /\ Names(events[i]) \cap Names(forwarder) = {}
    <3> PICK f : f = events[i]
      OBVIOUS
    <3>1. f \in Event /\ InFlight(f)
      BY <1>a, <2>3 DEF IInv, Unsent, TypeOK
    <3>2. InFlight(f)'
      BY <2>1, <3>1 DEF Event, Names
    <3>3. Names(events[i]) \cap Names(forwarder) = {}
      BY <1>a, <2>3 DEF IInv, Unsent
    <3> QED BY <1>a, <3>1, <3>2, <3>3 DEF InFlight, Carries, Untold, Names, Issued, Live, Serving
  <2>4. \A i, j \in DOMAIN events' : i # j => Names(events'[i]) \cap Names(events'[j]) = {}
    BY <1>a DEF IInv, Unsent
  <2> QED BY <1>a, <1>b, <2>2, <2>3, <2>4 DEF IInv, Unsent, Forwarding, Names
<1>5. Resolving'
  BY <1>a, <1>c DEF IInv, Resolving, Doomed, Serving, Live
<1>6. Telling'
  <2>1. \A t \in Sessions : Reachable(t)' => Reachable(t)
    BY <1>a, <1>b, <1>c, NoneAssumption DEF Reachable, RoutesOf
  <2>2. \A id \in Ids : Told(id)' => Told(id) \/ id \in forwarder.ids
    BY <1>a, <1>b DEF Told
  <2> QED BY <1>a, <2>1, <2>2, IdPairs DEF IInv, Telling, Serving, Live
<1>7. Rooted' /\ RootsVisited' /\ Purged'
  BY <1>a, <1>c DEF InsertRoutes, IInv, Rooted, RootsVisited, Purged, Live
<1> QED BY <1>1, <1>2, <1>3, <1>4, <1>5, <1>6, <1>7 DEF IInv

LEMMA SendFrameKeeps ==
    ASSUME IInv, SendFrame
    PROVE  IInv'
<1> USE DEF sessionVars, requestVars
<1>a. /\ forwarder.pc = "send" /\ Forwarding /\ forwarder.route = None
      /\ forwarder.seq \in Ids /\ forwarder.ids \subseteq Ids
      /\ InFlight(forwarder) /\ Names(forwarder) \subseteq Ids
      /\ out' = Queued(Names(forwarder))
      /\ forwarder'.pc \in {"take", "done"} /\ forwarder'.route = None
      /\ events' = events \/ events' = <<>>
      /\ UNCHANGED <<sessionVars, cmd, reply, routes, requestVars, late, writing, known, connected>>
  BY DEF SendFrame, IInv, Unsent, Forwarding, TypeOK, Names, Idle
<1>b. \A i \in DOMAIN out' : \/ i \in DOMAIN out /\ out'[i] = out[i]
                             \/ out'[i] = Names(forwarder)
  BY <1>a, QueuedPlaces DEF IInv, TypeOK
<1>c. /\ \A id \in Names(forwarder) : Issued(id)
      /\ \A i \in DOMAIN events : Names(events[i]) \cap Names(forwarder) = {}
  BY <1>a DEF IInv, Unsent, InFlight, Carries
<1>1. TypeOK'
  BY TypeOfForwarder DEF IInv, Forwarder
<1>2. OneCommand' /\ AnswerOwed' /\ OneEvent' /\ Replies' /\ InvokedIsRouted'
  BY <1>a DEF IInv, OneCommand, AnswerOwed, OneEvent, Replies, InvokedIsRouted, Live
<1>3. FromCounter'
  BY <1>a, <1>b, <1>c DEF IInv, FromCounter, Issued
<1>4. Unsent'
  <2>1. \A i \in DOMAIN events : events' = events => InFlight(events[i])'
    <3> SUFFICES ASSUME NEW i \in DOMAIN events, events' = events PROVE InFlight(events[i])'
      OBVIOUS
    <3>1. InFlight(events[i]) /\ Names(events[i]) \cap Names(forwarder) = {}
      BY <1>c DEF IInv, Unsent
    <3>2. \A id \in Names(events[i]) : Untold(id)'
      BY <1>a, <1>b, <3>1 DEF InFlight, Untold
    <3> QED
      BY <1>a, <3>1, <3>2 DEF InFlight, Carries, Names, Issued, Live, Serving
  <2>2. CASE events' = events
    BY <1>a, <2>1, <2>2 DEF IInv, Unsent, Forwarding
  <2>3. CASE events' = <<>>
    BY <1>a, <2>3, EmptyPlaces DEF Unsent, Forwarding
  <2> QED BY <1>a, <2>2, <2>3
<1>5. Resolving' /\ Rooted' /\ RootsVisited' /\ Purged'
  BY <1>a DEF IInv, Resolving, Doomed, Rooted, RootsVisited, Purged, Serving, Live
<1>6. Telling'
  <2>1. \A t \in Sessions : Reachable(t)' => Reachable(t)
    BY <1>a, NoneAssumption DEF Reachable, RoutesOf
  <2>2. \A id \in Ids : Told(id)' => Told(id) \/ id = forwarder.seq
    BY <1>a, <1>b DEF Told, Names
  <2>3. forwarder.seq[2] \notin handles[forwarder.seq[1]]
    BY <1>a DEF InFlight, Carries
  <2> QED BY <1>a, <2>1, <2>2, <2>3, IdPairs DEF IInv, Telling, Serving, Live
<1> QED BY <1>1, <1>2, <1>3, <1>4, <1>5, <1>6 DEF IInv

LEMMA ForwarderEndsKeeps ==
    ASSUME IInv, ForwarderEnds
    PROVE  IInv'
<1> USE DEF ForwarderEnds, sessionVars, requestVars, socketVars
<1>a. /\ forwarder'.pc = "done" /\ forwarder'.route = None
      /\ forwarder.route = None /\ forwarder.pc = "take"
  BY DEF Idle, IInv, Unsent
<1>1. TypeOK'
  BY TypeOfForwarder DEF IInv, Forwarder
<1>2. OneCommand' /\ AnswerOwed' /\ FromCounter' /\ OneEvent' /\ Replies' /\ InvokedIsRouted'
  BY DEF IInv, OneCommand, AnswerOwed, FromCounter, Issued, OneEvent, Replies,
         InvokedIsRouted, Live
<1>3. Unsent'
  BY <1>a, EmptyPlaces DEF Unsent, Forwarding
<1>4. Resolving' /\ Rooted' /\ RootsVisited' /\ Purged'
  BY DEF IInv, Resolving, Doomed, Rooted, RootsVisited, Purged, Serving, Live
<1>5. Telling'
  BY <1>a, NoneAssumption DEF IInv, Telling, Told, Reachable, RoutesOf, Serving, Live
<1> QED BY <1>1, <1>2, <1>3, <1>4, <1>5 DEF IInv

-----------------------------------------------------------------------------
(* The writer and the client.                                              *)

LEMMA WriterKeeps ==
    ASSUME IInv, Writer \/ HangUp
    PROVE  IInv'
<1> USE DEF sessionVars, requestVars, forwarderVars
<1>a. /\ UNCHANGED <<sessionVars, cmd, reply, routes, requestVars, events, forwarderVars>>
      /\ \A id \in known' : id \in known \/ \E i \in DOMAIN out : id \in out[i]
      /\ \A i \in DOMAIN out' : \E j \in DOMAIN out : out'[i] = out[j]
  <2>1. out # <<>> => /\ 1 \in DOMAIN out /\ Head(out) = out[1]
                      /\ \A i \in DOMAIN Tail(out) :
                            i + 1 \in DOMAIN out /\ Tail(out)[i] = out[i + 1]
    BY TailPlaces DEF IInv, TypeOK
  <2> QED
    BY <2>1, EmptyPlaces DEF Writer, WriteFrame, WriteFails, WriterEnds, HangUp
<1>1. TypeOK'
  BY TypeOfWriter DEF IInv
<1>2. OneCommand' /\ AnswerOwed' /\ OneEvent' /\ Replies' /\ InvokedIsRouted'
  BY <1>a DEF IInv, OneCommand, AnswerOwed, OneEvent, Replies, InvokedIsRouted, Live
<1>3. FromCounter'
  BY <1>a DEF IInv, FromCounter, Issued
<1>4. Unsent'
  <2>1. \A e : Names(e) \subseteq Ids /\ InFlight(e) => InFlight(e)'
    <3> SUFFICES ASSUME NEW e, Names(e) \subseteq Ids, InFlight(e) PROVE InFlight(e)'
      OBVIOUS
    <3>1. \A id \in Names(e) : Untold(id)'
      BY <1>a DEF InFlight, Untold
    <3> QED
      BY <1>a, <3>1 DEF InFlight, Carries, Names, Issued, Live, Serving
  <2> QED BY <1>a, <2>1, UnsentStays DEF IInv
<1>5. Resolving' /\ Rooted' /\ RootsVisited' /\ Purged'
  BY <1>a DEF IInv, Resolving, Doomed, Rooted, RootsVisited, Purged, Serving, Live
<1>6. Telling'
  <2>1. \A id \in Ids : Told(id)' => Told(id)
    BY <1>a DEF Told
  <2> QED BY <1>a, <2>1 DEF IInv, Telling, Reachable, RoutesOf, Serving, Live
<1> QED BY <1>1, <1>2, <1>3, <1>4, <1>5, <1>6 DEF IInv

-----------------------------------------------------------------------------
(* The invariant, and what follows from it.                                *)

LEMMA InitIInv == Init => IInv
<1> SUFFICES ASSUME Init PROVE IInv
  OBVIOUS
<1>1. TypeOK
  BY TypeInit
<1>2. /\ OneCommand /\ AnswerOwed /\ Replies /\ InvokedIsRouted
      /\ Resolving /\ Rooted /\ RootsVisited /\ Purged
  BY DEF Init, OneCommand, AnswerOwed, Replies, InvokedIsRouted, Resolving, Rooted,
         RootsVisited, Purged, Live
<1>3. FromCounter /\ OneEvent /\ Telling
  <2>1. \A s \in Sessions : /\ phase[s] = "none" /\ minted[s] = 0 /\ handles[s] = {}
                           /\ \A e \in 0 .. MaxId - 1 : eventArgs[s][e] = {}
    BY DEF Init, NoArgs
  <2>2. DOMAIN out = {} /\ routes = {} /\ known = {} /\ current = None /\ reply = None
    BY EmptyPlaces DEF Init
  <2> QED BY <2>1, <2>2, IdPairs DEF FromCounter, OneEvent, Telling, Live
<1>4. Unsent
  BY EmptyPlaces DEF Init, Idle, Unsent, Forwarding
<1> QED BY <1>1, <1>2, <1>3, <1>4 DEF IInv

LEMMA NextIInv == IInv /\ [Next]_vars => IInv'
<1> SUFFICES ASSUME IInv, [Next]_vars PROVE IInv'
  OBVIOUS
<1>1. CASE ClientRequest
  BY <1>1, CreateKeeps, AskKeeps, ReleaseOfDeadKeeps, QuietRequestStep DEF ClientRequest
<1>2. CASE RequestLoop
  BY <1>2, AnswerKeeps, QuietRequestStep, ReleaseNextKeeps, Released1Keeps, PurgeKeeps
  DEF RequestLoop
<1>3. ASSUME NEW s \in Sessions, SessionThread(s) \/ Fire(s) PROVE IInv'
  BY <1>3, InvokeKeeps, SubscribeKeeps, ReleaseHandleKeeps, AskClosureKeeps, LastReleaseKeeps,
     ReleaseEventKeeps, ClosureAnsweredKeeps, DisconnectedKeeps, EndThreadKeeps, FireKeeps
  DEF SessionThread, Serve
<1>4. CASE Forwarder
  BY <1>4, TakeEventKeeps, InsertRoutesKeeps, SendFrameKeeps, ForwarderEndsKeeps DEF Forwarder
<1>5. CASE Writer \/ HangUp
  BY <1>5, WriterKeeps
<1>6. CASE UNCHANGED vars
  <2> USE DEF vars, sessionVars, requestVars, forwarderVars, socketVars
  <2>1. TypeOK'
    BY <1>6 DEF IInv, TypeOK
  <2>2. OneCommand' /\ AnswerOwed' /\ FromCounter' /\ OneEvent' /\ Replies' /\ InvokedIsRouted'
    BY <1>6
       DEF IInv, OneCommand, AnswerOwed, FromCounter, Issued, OneEvent, Replies,
           InvokedIsRouted, Live
  <2>3. Unsent'
    <3>1. \A e : Names(e) \subseteq Ids /\ InFlight(e) => InFlight(e)'
      BY <1>6 DEF InFlight, Carries, Untold, Names, Issued, Live, Serving
    <3> QED BY <1>6, <3>1, UnsentStays DEF IInv
  <2>4. Resolving' /\ Telling' /\ Rooted' /\ RootsVisited' /\ Purged'
    BY <1>6
       DEF IInv, Resolving, Doomed, Telling, Told, Reachable, RoutesOf, Rooted,
           RootsVisited,
       Purged, Serving, Live
  <2> QED BY <2>1, <2>2, <2>3, <2>4 DEF IInv
<1> QED BY <1>1, <1>2, <1>3, <1>4, <1>5, <1>6 DEF Next

(* Everything below rests on this: the conversation of request loop and    *)
(* session, the ids in flight and the table keep to the invariant.         *)
THEOREM Invariance == Spec => []IInv
<1>1. Init => IInv
  BY InitIInv
<1>2. IInv /\ [Next]_vars => IInv'
  BY NextIInv
<1> QED BY <1>1, <1>2, PTL DEF Spec

(* The variables have their types; a frame names ids and nothing else.     *)
THEOREM TypeCorrect == Spec => []TypeOK
<1>1. IInv => TypeOK
  BY DEF IInv
<1> QED BY <1>1, Invariance, PTL

(* Whatever the loop waits for is in the session's channel, with a thread  *)
(* that will look, or answered, or the thread owes the acknowledgement.    *)
THEOREM NobodyForgotten == Spec => []AnswerOwed
<1>1. IInv => AnswerOwed
  BY DEF IInv
<1> QED BY <1>1, Invariance, PTL

(* receive_event: what the client has been told of and the session still   *)
(* holds is routed, whatever releases, events and replies came between.    *)
THEOREM TellsWhatIsRouted == Spec => []ToldIsRouted
<1>1. IInv => ToldIsRouted
  <2> SUFFICES ASSUME IInv, NEW id \in known, request = "read", phase[id[1]] = "live",
                      id[2] \in handles[id[1]], RoutesOf(id[1]) # {}
               PROVE  id \in routes
    BY DEF ToldIsRouted
  <2> QED BY DEF IInv, TypeOK, Telling, Told, Reachable, Serving, Live
<1> QED BY <1>1, Invariance, PTL

(* handle_release_event, handle_release: between two requests no route of  *)
(* a running session names an object the session has let go of.            *)
THEOREM EveryRouteResolves == Spec => []RoutesResolve
<1>1. IInv => RoutesResolve
  <2> SUFFICES ASSUME IInv, request = "read", NEW id \in routes, phase[id[1]] = "live"
               PROVE  id[2] \in handles[id[1]]
    BY DEF RoutesResolve
  <2>1. reply = None
    BY DEF IInv, OneCommand
  <2> QED BY <2>1 DEF IInv, Resolving, Doomed, Serving, Live
<1> QED BY <1>1, Invariance, PTL

(* A session in the registry never loses its last route: its thread ends   *)
(* by the release of its root, which tells the registry.                   *)
THEOREM RootStaysRouted == Spec => []ParticipantKeepsRoot
<1>1. IInv => ParticipantKeepsRoot
  BY DEF IInv, Rooted, ParticipantKeepsRoot, OneCommand, Live
<1> QED BY <1>1, Invariance, PTL

(* A participant's session leaves its loop through a release of its root   *)
(* or the client's answer to its $cleanup; never as TryRecvError::         *)
(* Disconnected, which tells the registry nothing.                         *)
THEOREM NeverDisconnected ==
    Spec => [][\A s \in Sessions \ Plain : ~Disconnected(s)]_vars
<1>1. IInv => \A s \in Sessions \ Plain : ~Disconnected(s)
  <2> SUFFICES ASSUME IInv, NEW s \in Sessions \ Plain, Disconnected(s) PROVE FALSE
    OBVIOUS
  <2>1. Root(s) \in routes \/ (current # None /\ current.id = Root(s))
    BY DEF IInv, Rooted, OneCommand, Disconnected, Live
  <2> QED BY <2>1, RootIsId DEF Disconnected, HasSender, RoutesOf
<1> QED BY <1>1, Invariance, PTL

(* release_all: the purge empties the table, and only an event whose       *)
(* session was looked up before it can route anything again.               *)
THEOREM PurgeEmptiesTable == Spec => []Purged
<1>1. IInv => Purged
  BY DEF IInv
<1> QED BY <1>1, Invariance, PTL

-----------------------------------------------------------------------------
(* What each thread of the connection waits for when it cannot go on.      *)

LoopWaits ==
    \/ request = "read" /\ connected /\ writing
    \/ request \in {"wait", "wait_release"} /\ reply = None
    \/ request = "join_forwarder" /\ forwarder.pc # "done"
    \/ request = "join_writer" /\ writing
    \/ request = "closed"

ThreadWaits(s) ==
    \/ phase[s] \in {"none", "over"}
    \/ phase[s] = "live" /\ cmd[s] = None /\ HasSender(s)

ForwarderWaits ==
    \/ forwarder.pc = "done"
    \/ /\ forwarder.pc = "take" /\ events = <<>>
       /\ request # "join_forwarder" \/ \E s \in Sessions : phase[s] \notin {"none", "over"}

WriterWaits == writing => out = <<>> /\ request # "join_writer"

AllWait ==
    LoopWaits /\ (\A s \in Sessions : ThreadWaits(s)) /\ ForwarderWaits /\ WriterWaits

(* Where they may all wait: for the client's next request, with everything *)
(* written that a session has said; at the end; or for the session whose   *)
(* route came back after the purge.                                        *)
AtRest ==
    \/ request = "read" /\ connected /\ writing /\ events = <<>> /\ out = <<>>
    \/ request = "closed"
    \/ request = "join_forwarder" /\ late

(* The forwarder ends for want of a writer, or after the request loop. *)
ForwarderOutlives ==
    forwarder.pc = "done" => ~writing \/ request \in {"join_forwarder", "join_writer", "closed"}

(* Past release_all, which waits for the answer of each, no session of the *)
(* registry is in its loop.                                                *)
ParticipantsLeft ==
    request \in {"join_forwarder", "join_writer", "closed"} =>
        \A s \in Sessions \ Plain : ~Live(s)

LEMMA OutlivesStep ==
    ASSUME IInv, ForwarderOutlives, [Next]_vars
    PROVE  ForwarderOutlives'
<1> USE DEF ForwarderOutlives
<1>1. CASE ClientRequest
  BY <1>1 DEF ClientRequest, Create, Ask, ReleaseOfDead, ReadFails, forwarderVars, socketVars
<1>2. CASE RequestLoop
  <2>1. UNCHANGED <<forwarder, writing>>
    BY <1>2 DEF RequestLoop, Answer, EndOfRequests, ReleaseNext, Released1, Purge,
        JoinForwarder, JoinWriter, forwarderVars, socketVars
  <2>2. request \in {"join_forwarder", "join_writer", "closed"} =>
          request' \in {"join_forwarder", "join_writer", "closed"}
    BY <1>2 DEF RequestLoop, Answer, EndOfRequests, ReleaseNext, Released1, Purge,
        JoinForwarder, JoinWriter
  <2> QED BY <2>1, <2>2
<1>3. ASSUME NEW s \in Sessions, SessionThread(s) \/ Fire(s)
      PROVE  ForwarderOutlives'
  <2>1. UNCHANGED <<forwarder, writing, request>>
    BY <1>3 DEF SessionThread, Serve, Invoke, Subscribe, Other, ReleaseHandle, AskClosure,
        LastRelease, ReleaseEvent, ClosureAnswered, Disconnected, EndThread, Fire, Take,
        requestVars, forwarderVars, socketVars
  <2> QED BY <2>1
<1>4. CASE Forwarder
  <2>1. forwarder'.pc = "done" =>
          \/ ~writing'
          \/ request' = "join_forwarder"
    <3>1. /\ forwarder \in [pc : {"take", "insert", "send", "done"}, ids : SUBSET Ids,
                            seq : Ids \cup {None}, route : Sessions \cup {None}]
          /\ writing \in BOOLEAN
      BY DEF IInv, TypeOK
    <3>2. CASE TakeEvent \/ InsertRoutes
      <4>1. CASE TakeEvent
        BY <4>1 DEF TakeEvent
      <4>2. CASE InsertRoutes
        BY <3>1, <4>2 DEF InsertRoutes
      <4> QED BY <3>2, <4>1, <4>2
    <3>3. CASE SendFrame
      <4>1. forwarder' = [Idle EXCEPT !.pc = IF writing THEN "take" ELSE "done"]
            /\ writing' = writing
        BY <3>3 DEF SendFrame
      <4>2. writing => forwarder'.pc = "take"
        BY <4>1 DEF Idle
      <4> QED BY ONLY <4>1, <4>2
    <3>4. CASE ForwarderEnds
      BY <3>4 DEF ForwarderEnds, requestVars
    <3> QED BY <1>4, <3>2, <3>3, <3>4 DEF Forwarder
  <2> QED BY <2>1
<1>5. CASE Writer \/ HangUp
  <2>1. UNCHANGED <<forwarder, request>> /\ (~writing => ~writing')
    BY <1>5 DEF Writer, WriteFrame, WriteFails, WriterEnds, HangUp, requestVars, forwarderVars
  <2> QED BY <2>1
<1>6. CASE UNCHANGED vars
  BY <1>6 DEF vars, forwarderVars, requestVars, socketVars
<1> QED BY <1>1, <1>2, <1>3, <1>4, <1>5, <1>6 DEF Next

LEMMA LeftStep ==
    ASSUME IInv, ParticipantsLeft, [Next]_vars
    PROVE  ParticipantsLeft'
<1> USE DEF ParticipantsLeft, Live
<1>1. CASE ClientRequest
  BY <1>1 DEF ClientRequest, Create, Ask, ReleaseOfDead, ReadFails, requestVars
<1>2. CASE RequestLoop
  <2>1. phase' = phase
    BY <1>2 DEF RequestLoop, Answer, EndOfRequests, ReleaseNext, Released1, Purge,
        JoinForwarder, JoinWriter, sessionVars
  <2>2. CASE Purge
    <3>1. ASSUME NEW s \in Sessions \ Plain, Live(s)
          PROVE  FALSE
      <4>1. request = "release_all" /\ left = 0
        BY <2>2 DEF Purge
      <4>2. Root(s) \in routes
        BY <3>1, <4>1 DEF IInv, Rooted
      <4>3. PICK i \in DOMAIN owned : owned[i] = Root(s)
        BY <3>1 DEF IInv, RootsVisited
      <4>4. Root(s)[2] = 0 /\ i > left
        BY <4>1, <4>3 DEF Root, IInv, TypeOK
      <4> QED BY <4>1, <4>2, <4>3, <4>4 DEF IInv, RootsVisited
    <3> QED BY <2>1, <3>1
  <2>3. CASE ~Purge
    <3>1. request' \in {"join_forwarder", "join_writer", "closed"} =>
            request \in {"join_forwarder", "join_writer", "closed"}
      BY <1>2, <2>3 DEF RequestLoop, Answer, EndOfRequests, ReleaseNext, Released1,
          JoinForwarder, JoinWriter
    <3> QED BY <2>1, <3>1
  <2> QED BY <2>2, <2>3
<1>3. ASSUME NEW s \in Sessions, SessionThread(s) \/ Fire(s)
      PROVE  ParticipantsLeft'
  <2>1. request' = request
    BY <1>3 DEF SessionThread, Serve, Invoke, Subscribe, Other, ReleaseHandle, AskClosure,
        LastRelease, ReleaseEvent, ClosureAnswered, Disconnected, EndThread, Fire, Take,
        requestVars
  <2>2. \/ phase' = phase
        \/ \E p \in {"ending", "acking", "over"} : phase' = [phase EXCEPT ![s] = p]
    BY <1>3 DEF SessionThread, Serve, Invoke, Subscribe, Other, ReleaseHandle, AskClosure,
        LastRelease, ReleaseEvent, ClosureAnswered, Disconnected, EndThread, Fire
  <2>3. phase \in [Sessions -> Phase]
    BY DEF IInv, TypeOK
  <2>4. \A t \in Sessions : Live(t)' => Live(t)
    BY <2>2, <2>3
  <2> QED BY ONLY ParticipantsLeft, <2>1, <2>4 DEF ParticipantsLeft
<1>4. CASE Forwarder \/ Writer \/ HangUp
  <2>1. UNCHANGED <<phase, request>>
    BY <1>4 DEF Forwarder, TakeEvent, InsertRoutes, SendFrame, ForwarderEnds,
        Writer, WriteFrame, WriteFails, WriterEnds, HangUp, sessionVars, requestVars
  <2> QED BY <2>1
<1>5. CASE UNCHANGED vars
  BY <1>5 DEF vars, sessionVars, requestVars
<1> QED BY <1>1, <1>2, <1>3, <1>4, <1>5 DEF Next

(* release_all, then the joins: before the connection waits for its        *)
(* forwarder or its writer, each of its sessions that is in the registry   *)
(* has been told and has left its loop, whatever is still routed.          *)
THEOREM ParticipantsLeaveFirst == Spec => []ParticipantsLeft
<1>1. Init => ParticipantsLeft
  BY DEF Init, ParticipantsLeft
<1>2. IInv /\ ParticipantsLeft /\ [Next]_vars => ParticipantsLeft'
  BY LeftStep
<1> QED BY <1>1, <1>2, Invariance, PTL DEF Spec

(* Nobody waits for somebody who waits for him: when the request loop, the *)
(* sessions' threads, the forwarder and the writer all wait, it is for the *)
(* client, at the end, or for the one session the purge missed.            *)
THEOREM NeverStuck == Spec => [](AllWait => AtRest)
<1>1. IInv /\ ForwarderOutlives => (AllWait => AtRest)
  <2> SUFFICES ASSUME IInv, ForwarderOutlives, AllWait
               PROVE  AtRest
    OBVIOUS
  <2>1. CASE request = "read"
    <3>1. connected /\ writing
      BY <2>1 DEF AllWait, LoopWaits
    <3>2. out = <<>> /\ forwarder.pc # "done"
      BY <2>1, <3>1 DEF AllWait, WriterWaits, ForwarderOutlives
    <3> QED BY <2>1, <3>1, <3>2 DEF AllWait, ForwarderWaits, AtRest
  <2>2. CASE request \in {"wait", "wait_release"}
    <3>1. reply = None /\ current # None
      BY <2>2 DEF AllWait, LoopWaits, IInv, OneCommand
    <3>2. current.id \in Ids /\ current # None
      BY <3>1 DEF IInv, TypeOK, Command
    <3>3. PICK s \in Sessions : s = current.id[1]
      BY <3>2, IdPairs
    <3>4. (cmd[s] = current /\ phase[s] \in {"live", "ending"}) \/ phase[s] = "acking"
      BY <3>1, <3>3 DEF IInv, AnswerOwed
    <3>5. ThreadWaits(s)
      BY DEF AllWait
    <3> QED BY <3>1, <3>4, <3>5 DEF ThreadWaits
  <2>3. CASE request = "release_all"
    BY <2>3 DEF AllWait, LoopWaits
  <2>4. CASE request = "join_forwarder"
    <3> SUFFICES ASSUME ~late PROVE FALSE
      BY <2>4 DEF AtRest
    <3>1. routes = {} /\ current = None
      BY <2>4 DEF IInv, Purged, OneCommand
    <3>2. forwarder.pc = "take"
      BY <2>4 DEF AllWait, LoopWaits, ForwarderWaits
    <3>3. PICK s \in Sessions : phase[s] \notin {"none", "over"}
      BY <2>4, <3>2 DEF AllWait, ForwarderWaits
    <3>4. forwarder.route = None
      BY <3>2 DEF IInv, Unsent
    <3>5. ~HasSender(s)
      BY <3>1, <3>4, NoneAssumption DEF HasSender, RoutesOf
    <3> QED BY <3>3, <3>5 DEF AllWait, ThreadWaits
  <2>5. CASE request = "join_writer"
    BY <2>5 DEF AllWait, LoopWaits, WriterWaits
  <2>6. CASE request = "closed"
    BY <2>6 DEF AtRest
  <2> QED BY <2>1, <2>2, <2>3, <2>4, <2>5, <2>6 DEF IInv, TypeOK
<1>2. Init => ForwarderOutlives
  BY DEF Init, Idle, ForwarderOutlives
<1>3. IInv /\ ForwarderOutlives /\ [Next]_vars => ForwarderOutlives'
  BY OutlivesStep
<1> QED BY <1>1, <1>2, <1>3, Invariance, PTL DEF Spec
=============================================================================
