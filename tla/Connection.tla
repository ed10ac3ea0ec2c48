------------------------------ MODULE Connection ------------------------------
(***************************************************************************)
(* One client connection of wineole-bridge: the request loop and the       *)
(* event forwarder of main.rs, the routing table of server.rs they share,  *)
(* and the session threads of session.rs as far as they decide how long a  *)
(* route is needed.                                                        *)
(*                                                                         *)
(* Every id is a pair <<session, n>>: handles and event seqs come from the *)
(* session's one counter, the root being 0.  A SessionRoute is a clone of  *)
(* the session's command sender; the session ends when the last clone is   *)
(* dropped, so who holds one matters: the table, the request loop while it *)
(* waits for a reply, and the forwarder between the two lock sections of   *)
(* receive_event.                                                          *)
(***************************************************************************)
EXTENDS Naturals, Sequences, SequencesExt, FiniteSets

CONSTANTS
    Sessions,   \* sessions this connection may create
    Plain,      \* those whose request carried no cleanup
    MaxSessions,\* bound: how many of them it creates
    Busy, MaxId,\* bound: a busy session mints MaxId ids, another two
    None        \* no session, no command, no reply

ASSUME PlainAssumption == Plain \subseteq Sessions
ASSUME BusyAssumption == Busy \subseteq Sessions
ASSUME MaxSessionsAssumption == MaxSessions \in Nat
ASSUME MaxIdAssumption == MaxId \in Nat /\ MaxId >= 2

VARIABLES
    phase,      \* phase[s]: where the session's thread is
    handles,    \* handles[s]: com.handles, the n of each
    minted,     \* minted[s]: local_seq
    subs,       \* subs[s]: handles with a subscription
    eventArgs,  \* eventArgs[s][n]: event_handles, the arguments of event n
    asked,      \* asked[s]: pending_cleanup, the n of the $cleanup's seq
    cmd,        \* cmd[s]: the command in the session's channel
    reply,      \* the reply on the channel the request loop waits on
    routes,     \* the routing table's keys
    request,    \* the request loop: where it is
    current,    \* the command it waits for
    owned,      \* owned_handles
    left,       \* how many of them release_all has still to visit
    events,     \* the connection's event channel
    forwarder,  \* the event forwarder
    out,        \* frames on their way to the writer: sets of ids
    writing,    \* the writer thread runs
    known,      \* ids a connected client has been told
    connected,  \* the client's end of the socket is open
    late        \* history: a route was inserted after the purge

sessionVars == <<phase, handles, minted, subs, eventArgs, asked>>
requestVars == <<request, current, owned, left>>
forwarderVars == <<forwarder, late>>
socketVars  == <<out, writing, known, connected>>
vars == <<sessionVars, cmd, reply, routes, requestVars, events, forwarderVars, socketVars>>

Quota(s) == IF s \in Busy THEN MaxId ELSE 2
Ids == Sessions \X (0 .. MaxId - 1)
Kind == {"invoke", "release", "subscribe", "release_event",
         "other",  \* const_load, unsubscribe, leave_open
         "drop"}   \* Release with client_alive = false
Command == [kind : Kind, id : Ids]
Root(s) == <<s, 0>>

Phase == {"none", "live",
          "ending",     \* out of its loop, nobody to tell
          "acking",     \* out of its loop, shutdown_reply owed
          "over"}       \* receiver dropped, apartment torn down

(* Replies, by what the server does with them. *)
Minted(ids)   == [kind |-> "minted", ids |-> ids]
Released(ids) == [kind |-> "released", ids |-> ids]
Done          == [kind |-> "done", ids |-> {}]
Pending       == [kind |-> "pending", ids |-> {}]
Dropped       == [kind |-> "dropped", ids |-> {}]   \* reply sender dropped unused
Reply == [kind : {"minted", "released", "done", "pending", "dropped"}, ids : SUBSET Ids]
Event == [seq : Ids, ids : SUBSET Ids]

ASSUME NoneAssumption == None \notin Sessions /\ None \notin Command /\ None \notin Reply

TypeOK ==
    /\ phase \in [Sessions -> Phase]
    /\ handles \in [Sessions -> SUBSET (0 .. MaxId - 1)]
    /\ minted \in [Sessions -> 0 .. MaxId]
    /\ subs \in [Sessions -> SUBSET (0 .. MaxId - 1)]
    /\ eventArgs \in [Sessions -> [0 .. MaxId - 1 -> SUBSET (0 .. MaxId - 1)]]
    /\ asked \in [Sessions -> 0 .. MaxId]
    /\ cmd \in [Sessions -> Command \cup {None}]
    /\ reply \in Reply \cup {None}
    /\ routes \subseteq Ids
    /\ request \in {"read", "wait", "release_all", "wait_release",
                    "join_forwarder", "join_writer", "closed"}
    /\ current \in Command \cup {None}
    /\ owned \in Seq(Ids) /\ left \in 0 .. Len(owned)
    /\ events \in Seq(Event)
    /\ forwarder \in [pc : {"take", "insert", "send", "done"}, ids : SUBSET Ids,
                      seq : Ids \cup {None}, route : Sessions \cup {None}]
    /\ out \in Seq(SUBSET Ids)
    /\ known \subseteq Ids
    /\ writing \in BOOLEAN /\ connected \in BOOLEAN /\ late \in BOOLEAN

NoArgs == [n \in 0 .. MaxId - 1 |-> {}]
NotAsked == 0   \* the root's n is never a seq
Idle == [pc |-> "take", ids |-> {}, seq |-> None, route |-> None]

Init ==
    /\ phase = [s \in Sessions |-> "none"]
    /\ handles = [s \in Sessions |-> {}]
    /\ minted = [s \in Sessions |-> 0]
    /\ subs = [s \in Sessions |-> {}]
    /\ eventArgs = [s \in Sessions |-> NoArgs]
    /\ asked = [s \in Sessions |-> NotAsked]
    /\ cmd = [s \in Sessions |-> None]
    /\ reply = None
    /\ routes = {}
    /\ request = "read" /\ current = None /\ owned = <<>> /\ left = 0
    /\ events = <<>>
    /\ forwarder = Idle
    /\ out = <<>> /\ writing = TRUE /\ known = {} /\ connected = TRUE
    /\ late = FALSE

Created == {s \in Sessions : phase[s] # "none"}
RoutesOf(s) == {id \in routes : id[1] = s}

(* Somebody holds a sender of the session's command channel. *)
HasSender(s) ==
    \/ RoutesOf(s) # {}
    \/ current # None /\ current.id[1] = s
    \/ forwarder.route = s

(* A frame without ids changes nothing for the client. *)
Queued(ids) == IF writing /\ ids # {} THEN Append(out, ids) ELSE out

(* A send to a forwarder that has ended is ignored. *)
Pushed(event) == IF forwarder.pc = "done" THEN events ELSE Append(events, event)

-----------------------------------------------------------------------------
(* The request loop: handle_tracked.                                       *)

(* create, connect, connect_or_create.  No event of the session can be on  *)
(* its way before its root is routed, so spawning and routing are one step.*)
Create(s) ==
    /\ request = "read" /\ connected /\ writing
    /\ phase[s] = "none" /\ Cardinality(Created) < MaxSessions
    /\ phase' = [phase EXCEPT ![s] = "live"]
    /\ handles' = [handles EXCEPT ![s] = {0}]
    /\ minted' = [minted EXCEPT ![s] = 1]
    /\ routes' = routes \cup {Root(s)}
    /\ owned' = Append(owned, Root(s))
    /\ out' = Queued({Root(s)})
    /\ UNCHANGED <<subs, eventArgs, asked, cmd, reply, request, current, left, events, forwarderVars>>
    /\ UNCHANGED <<writing, known, connected>>

(* release_event names a seq and finds any route of its session; the other *)
(* requests name a routed handle.  Without a route they change nothing.    *)
Routed(kind, id) == IF kind = "release_event" THEN RoutesOf(id[1]) # {} ELSE id \in routes

Ask(kind, id) ==
    /\ request = "read" /\ connected /\ writing
    /\ id \in known /\ Routed(kind, id)
    /\ phase[id[1]] # "over"
    /\ cmd' = [cmd EXCEPT ![id[1]] = [kind |-> kind, id |-> id]]
    /\ current' = [kind |-> kind, id |-> id]
    /\ request' = "wait"
    /\ UNCHANGED <<sessionVars, reply, routes, owned, left, events, forwarderVars, socketVars>>

(* The session is gone: only a release does anything about its route. *)
ReleaseOfDead(id) ==
    /\ request = "read" /\ connected /\ writing
    /\ id \in known \cap routes
    /\ phase[id[1]] = "over"
    /\ routes' = routes \ {id}
    /\ UNCHANGED <<sessionVars, cmd, reply, requestVars, events, forwarderVars, socketVars>>

(* A slip: the routes of released event arguments stay. *)
RoutesAfterKeepingArgs ==
    CASE reply.kind = "minted" -> routes \cup reply.ids
      [] current.kind = "release" /\ reply.kind # "pending" -> routes \ {current.id}
      [] OTHER -> routes

(* A slip: a release that was not carried out unroutes the root. *)
RoutesAfterAnyRelease ==
    CASE reply.kind = "minted"   -> routes \cup reply.ids
      [] reply.kind = "released" -> routes \ reply.ids
      [] current.kind = "release" -> routes \ {current.id}
      [] OTHER -> routes

(* A reply has come, or its sender was dropped: what becomes of the table. *)
RoutesAfter ==
    CASE reply.kind = "minted"   -> routes \cup reply.ids
      [] reply.kind = "released" -> routes \ reply.ids
      [] current.kind = "release" /\ reply.kind # "pending" -> routes \ {current.id}
      [] OTHER -> routes

NewIds == IF reply.kind = "minted" THEN reply.ids ELSE {}

Answer ==
    /\ request = "wait" /\ reply # None
    /\ routes' = RoutesAfter
    /\ owned' = owned \o SetToSeq(NewIds)
    /\ out' = Queued(NewIds)
    /\ request' = IF writing THEN "read" ELSE "release_all"
    /\ left' = IF writing THEN 0 ELSE Len(owned')
    /\ current' = None /\ reply' = None
    /\ UNCHANGED <<sessionVars, cmd, events, forwarderVars, writing, known, connected>>

-----------------------------------------------------------------------------
(* The end of the connection: release_all and the joins.                   *)

EndOfRequests ==
    /\ request = "read" /\ (~connected \/ ~writing)
    /\ request' = "release_all" /\ left' = Len(owned)
    /\ UNCHANGED <<sessionVars, cmd, reply, routes, current, owned, events, forwarderVars, socketVars>>

(* A line that is no request ends the connection as its end would. *)
ReadFails ==
    /\ request = "read" /\ connected /\ writing
    /\ request' = "release_all" /\ left' = Len(owned)
    /\ UNCHANGED <<sessionVars, cmd, reply, routes, current, owned, events, forwarderVars, socketVars>>

(* release_one, newest handle first: its route goes, its session is told.  *)
ReleaseNext ==
    /\ request = "release_all" /\ left > 0
    /\ left' = left - 1
    /\ LET id == owned[left]
           tell == id \in routes /\ phase[id[1]] # "over"
           c == [kind |-> "drop", id |-> id]
       IN /\ routes' = routes \ {id}
          /\ cmd' = IF tell THEN [cmd EXCEPT ![id[1]] = c] ELSE cmd
          /\ current' = IF tell THEN c ELSE None
          /\ request' = IF tell THEN "wait_release" ELSE "release_all"
    /\ UNCHANGED <<sessionVars, reply, owned, events, forwarderVars, socketVars>>

Released1 ==
    /\ request = "wait_release" /\ reply # None
    /\ reply' = None /\ current' = None
    /\ request' = "release_all"
    /\ UNCHANGED <<sessionVars, cmd, routes, owned, left, events, forwarderVars, socketVars>>

(* A slip: only the handles the connection was told of are purged. *)
PurgeNothing ==
    /\ request = "release_all" /\ left = 0
    /\ request' = "join_forwarder"
    /\ UNCHANGED <<sessionVars, cmd, reply, routes, current, owned, left, events>>
    /\ UNCHANGED <<forwarderVars, socketVars>>

(* The rest of the table's entries for these sessions: event arguments.    *)
(* Then the connection's own event sender is dropped.                      *)
Purge ==
    /\ request = "release_all" /\ left = 0
    /\ routes' = {id \in routes : \A i \in DOMAIN owned : owned[i][1] # id[1]}
    /\ request' = "join_forwarder"
    /\ UNCHANGED <<sessionVars, cmd, reply, current, owned, left, events, forwarderVars, socketVars>>

JoinForwarder ==
    /\ request = "join_forwarder" /\ forwarder.pc = "done"
    /\ request' = "join_writer"
    /\ UNCHANGED <<sessionVars, cmd, reply, routes, current, owned, left, events>>
    /\ UNCHANGED <<forwarderVars, socketVars>>

JoinWriter ==
    /\ request = "join_writer" /\ ~writing
    /\ request' = "closed"
    /\ UNCHANGED <<sessionVars, cmd, reply, routes, current, owned, left, events>>
    /\ UNCHANGED <<forwarderVars, socketVars>>

-----------------------------------------------------------------------------
(* A session's thread.                                                     *)

Take(s, kinds) ==
    /\ phase[s] = "live"
    /\ cmd[s] # None /\ cmd[s].kind \in kinds
    /\ cmd' = [cmd EXCEPT ![s] = None]
    /\ UNCHANGED <<routes, requestVars, forwarderVars, socketVars>>

(* run_invoke: at most one object in the result, of an id not used before. *)
Invoke(s) ==
    /\ Take(s, {"invoke"})
    /\ \E k \in 0 .. 1 :
         LET new == minted[s] .. minted[s] + k - 1
         IN /\ k = 1 => cmd[s].id[2] \in handles[s] /\ minted[s] < Quota(s)
            /\ handles' = [handles EXCEPT ![s] = @ \cup new]
            /\ minted' = [minted EXCEPT ![s] = @ + k]
            /\ reply' = Minted({s} \X new)
    /\ UNCHANGED <<phase, subs, eventArgs, asked, events>>

IsEventArg(s, n) == \E e \in 0 .. MaxId - 1 : n \in eventArgs[s][e]

(* subscribe: refused for a handle not held and for an event argument. *)
Subscribe(s) ==
    /\ Take(s, {"subscribe"})
    /\ LET n == cmd[s].id[2]
       IN subs' = [subs EXCEPT ![s] =
                      IF n \in handles[s] /\ ~IsEventArg(s, n) THEN @ \cup {n} ELSE @]
    /\ reply' = Done
    /\ UNCHANGED <<phase, handles, minted, eventArgs, asked, events>>

(* const_load, leave_open, unsubscribe of the last name or of another. *)
Other(s) ==
    /\ Take(s, {"other"})
    /\ \E gone \in {{}, {cmd[s].id[2]}} : subs' = [subs EXCEPT ![s] = @ \ gone]
    /\ reply' = Done
    /\ UNCHANGED <<phase, handles, minted, eventArgs, asked, events>>

(* A slip: every session waits until its table is empty. *)
EndsWithLastHandle(s, n) == handles[s] \subseteq {n}

EndsSession(s, n) ==
    IF s \in Plain THEN handles[s] \subseteq {n} ELSE n = 0

(* Release that does not end the session. *)
ReleaseHandle(s) ==
    /\ Take(s, {"release", "drop"})
    /\ ~EndsSession(s, cmd[s].id[2])
    /\ handles' = [handles EXCEPT ![s] = @ \ {cmd[s].id[2]}]
    /\ subs' = [subs EXCEPT ![s] = @ \ {cmd[s].id[2]}]
    /\ reply' = Done
    /\ UNCHANGED <<phase, minted, eventArgs, asked, events>>

(* Release(root), last user, client alive, closure wanted: the registry's  *)
(* answer is any; a session already asked is not a user any more.          *)
AskClosure(s) ==
    /\ Take(s, {"release"})
    /\ s \notin Plain /\ cmd[s].id[2] = 0
    /\ asked[s] = NotAsked /\ minted[s] < Quota(s)
    /\ asked' = [asked EXCEPT ![s] = minted[s]]
    /\ minted' = [minted EXCEPT ![s] = @ + 1]
    /\ events' = Pushed([seq |-> <<s, minted[s]>>, ids |-> {}])
    /\ reply' = Pending
    /\ UNCHANGED <<phase, handles, subs, eventArgs>>

(* The release the session ends with is acknowledged by EndThread. *)
LastRelease(s) ==
    /\ Take(s, {"release", "drop"})
    /\ EndsSession(s, cmd[s].id[2])
    /\ phase' = [phase EXCEPT ![s] = "acking"]
    /\ UNCHANGED <<handles, minted, subs, eventArgs, asked, reply, events>>

ReleaseEvent(s) ==
    /\ Take(s, {"release_event"})
    /\ asked[s] = NotAsked \/ asked[s] # cmd[s].id[2]
    /\ LET n == cmd[s].id[2]
       IN /\ handles' = [handles EXCEPT ![s] = @ \ eventArgs[s][n]]
          /\ eventArgs' = [eventArgs EXCEPT ![s][n] = {}]
          /\ reply' = Released({s} \X eventArgs[s][n])
    /\ UNCHANGED <<phase, minted, subs, asked, events>>

(* release_event with the $cleanup's seq: answered at once, then the end. *)
ClosureAnswered(s) ==
    /\ Take(s, {"release_event"})
    /\ asked[s] # NotAsked /\ asked[s] = cmd[s].id[2]
    /\ phase' = [phase EXCEPT ![s] = "ending"]
    /\ reply' = Released({Root(s)})
    /\ UNCHANGED <<handles, minted, subs, eventArgs, asked, events>>

(* An event of a subscribed object, with an object argument or without. *)
Fire(s) ==
    /\ phase[s] = "live" /\ subs[s] # {}
    /\ \E k \in 0 .. 1 :
         LET n == minted[s]
             args == n + 1 .. n + k
         IN /\ n + k < Quota(s)
            /\ minted' = [minted EXCEPT ![s] = n + k + 1]
            /\ handles' = [handles EXCEPT ![s] = @ \cup args]
            /\ eventArgs' = [eventArgs EXCEPT ![s][n] = args]
            /\ events' = Pushed([seq |-> <<s, n>>, ids |-> {s} \X args])
    /\ UNCHANGED <<phase, subs, asked, cmd, reply, routes, requestVars, forwarderVars, socketVars>>

(* TryRecvError::Disconnected. *)
Disconnected(s) ==
    /\ phase[s] = "live" /\ cmd[s] = None /\ ~HasSender(s)
    /\ phase' = [phase EXCEPT ![s] = "ending"]
    /\ UNCHANGED <<handles, minted, subs, eventArgs, asked, cmd, reply, routes, requestVars>>
    /\ UNCHANGED <<events, forwarderVars, socketVars>>

(* A slip: a command that was still queued is never answered. *)
EndThreadForgetting(s) ==
    /\ phase[s] \in {"ending", "acking"}
    /\ phase' = [phase EXCEPT ![s] = "over"]
    /\ handles' = [handles EXCEPT ![s] = {}]
    /\ subs' = [subs EXCEPT ![s] = {}]
    /\ eventArgs' = [eventArgs EXCEPT ![s] = NoArgs]
    /\ asked' = [asked EXCEPT ![s] = NotAsked]
    /\ reply' = IF phase[s] = "acking" THEN Done ELSE reply
    /\ UNCHANGED <<minted, cmd, routes, requestVars>>
    /\ UNCHANGED <<events, forwarderVars, socketVars>>

(* cmd_rx is dropped, with a command that arrived meanwhile and its reply  *)
(* sender; the apartment is torn down; the last release is acknowledged.   *)
EndThread(s) ==
    /\ phase[s] \in {"ending", "acking"}
    /\ phase' = [phase EXCEPT ![s] = "over"]
    /\ handles' = [handles EXCEPT ![s] = {}]
    /\ subs' = [subs EXCEPT ![s] = {}]
    /\ eventArgs' = [eventArgs EXCEPT ![s] = NoArgs]
    /\ asked' = [asked EXCEPT ![s] = NotAsked]
    /\ cmd' = [cmd EXCEPT ![s] = None]
    /\ reply' = IF phase[s] = "acking" THEN Done
                ELSE IF cmd[s] # None THEN Dropped ELSE reply
    /\ UNCHANGED <<minted, routes, requestVars, events, forwarderVars, socketVars>>

-----------------------------------------------------------------------------
(* The forwarder: receive_event and the frame it hands back.               *)

(* A slip: the frame goes out first, its arguments are routed afterwards. *)
TakeEventUnrouted ==
    /\ forwarder.pc = "take" /\ events # <<>>
    /\ events' = Tail(events)
    /\ forwarder' = [pc |-> "send", ids |-> Head(events).ids,
                     seq |-> Head(events).seq, route |-> None]
    /\ UNCHANGED <<sessionVars, cmd, reply, routes, requestVars, late, socketVars>>

(* An event with new handles: clone a route of its session, if there is    *)
(* one, and let go of the lock.                                            *)
TakeEvent ==
    /\ forwarder.pc = "take" /\ events # <<>>
    /\ events' = Tail(events)
    /\ LET e == Head(events)
           s == e.seq[1]
           insert == e.ids # {} /\ RoutesOf(s) # {}
       IN forwarder' = [pc |-> IF insert THEN "insert" ELSE "send",
                        ids |-> e.ids, seq |-> e.seq,
                        route |-> IF insert THEN s ELSE None]
    /\ UNCHANGED <<sessionVars, cmd, reply, routes, requestVars, late, socketVars>>

(* ... and under a second lock route its arguments like that. *)
InsertRoutes ==
    /\ forwarder.pc = "insert"
    /\ routes' = routes \cup forwarder.ids
    /\ forwarder' = [forwarder EXCEPT !.pc = "send", !.route = None]
    /\ late' = (late \/ request \in {"join_forwarder", "join_writer", "closed"})
    /\ UNCHANGED <<sessionVars, cmd, reply, requestVars, events, socketVars>>

(* The frame goes to the writer; without a writer the forwarder ends. *)
SendFrame ==
    /\ forwarder.pc = "send"
    /\ out' = Queued({forwarder.seq} \cup forwarder.ids)
    /\ forwarder' = [Idle EXCEPT !.pc = IF writing THEN "take" ELSE "done"]
    /\ events' = IF writing THEN events ELSE <<>>
    /\ UNCHANGED <<sessionVars, cmd, reply, routes, requestVars, late, writing, known, connected>>

(* Every sender of the event channel is gone: the connection's own and     *)
(* that of each session's thread.                                          *)
ForwarderEnds ==
    /\ forwarder.pc = "take" /\ events = <<>>
    /\ request = "join_forwarder"
    /\ \A s \in Sessions : phase[s] \in {"none", "over"}
    /\ forwarder' = [Idle EXCEPT !.pc = "done"]
    /\ UNCHANGED <<sessionVars, cmd, reply, routes, requestVars, events, late, socketVars>>

-----------------------------------------------------------------------------
(* The writer, and the client behind the socket.                           *)

WriteFrame ==
    /\ writing /\ out # <<>>
    /\ out' = Tail(out)
    /\ known' = IF connected THEN known \cup Head(out) ELSE known
    /\ UNCHANGED <<sessionVars, cmd, reply, routes, requestVars, events, forwarderVars>>
    /\ UNCHANGED <<writing, connected>>

WriteFails ==
    /\ writing /\ out # <<>> /\ ~connected
    /\ writing' = FALSE /\ out' = <<>>
    /\ UNCHANGED <<sessionVars, cmd, reply, routes, requestVars, events, forwarderVars>>
    /\ UNCHANGED <<known, connected>>

WriterEnds ==
    /\ writing /\ out = <<>>
    /\ request = "join_writer"
    /\ writing' = FALSE
    /\ UNCHANGED <<sessionVars, cmd, reply, routes, requestVars, events, forwarderVars>>
    /\ UNCHANGED <<out, known, connected>>

HangUp ==
    /\ connected
    /\ connected' = FALSE
    /\ known' = {}
    /\ UNCHANGED <<sessionVars, cmd, reply, routes, requestVars, events, forwarderVars>>
    /\ UNCHANGED <<out, writing>>

-----------------------------------------------------------------------------
ClientRequest ==
    \/ \E s \in Sessions : Create(s)
    \/ \E kind \in Kind \ {"drop"}, id \in Ids : Ask(kind, id)
    \/ \E id \in Ids : ReleaseOfDead(id)
    \/ ReadFails

RequestLoop ==
    \/ Answer \/ EndOfRequests
    \/ ReleaseNext \/ Released1 \/ Purge
    \/ JoinForwarder \/ JoinWriter

Serve(s) ==
    \/ Invoke(s) \/ Subscribe(s) \/ Other(s)
    \/ ReleaseHandle(s) \/ AskClosure(s) \/ LastRelease(s)
    \/ ReleaseEvent(s) \/ ClosureAnswered(s)

SessionThread(s) == Serve(s) \/ Disconnected(s) \/ EndThread(s)
Forwarder == TakeEvent \/ InsertRoutes \/ SendFrame \/ ForwarderEnds
Writer == WriteFrame \/ WriteFails \/ WriterEnds

Next ==
    \/ ClientRequest
    \/ RequestLoop
    \/ \E s \in Sessions : SessionThread(s) \/ Fire(s)
    \/ Forwarder
    \/ Writer
    \/ HangUp

Spec == Init /\ [][Next]_vars

(* The bridge's own threads run on.  The client need do nothing, Excel     *)
(* need fire nothing, and a connected client that stops reading may hold   *)
(* the writer up for ever.                                                 *)
Fairness ==
    /\ WF_vars(RequestLoop)
    /\ \A s \in Sessions : WF_vars(SessionThread(s))
    /\ WF_vars(Forwarder)
    /\ WF_vars(~connected /\ Writer)

FairSpec == Spec /\ Fairness

-----------------------------------------------------------------------------
(* Properties.                                                             *)

(* receive_event: "registering them here, BEFORE the frame goes out, is    *)
(* what makes that call arrive at the session that owns the object".  An   *)
(* id the client has been told, of an object its session still holds, is   *)
(* routed, unless the client has let go of the whole session.              *)
ToldIsRouted ==
    \A id \in known :
        /\ request = "read" /\ phase[id[1]] = "live"
        /\ id[2] \in handles[id[1]]
        /\ RoutesOf(id[1]) # {}
        => id \in routes

(* handle_release_event: routing entries must not outlive the objects,     *)
(* "each one holds a route that keeps the session thread alive".           *)
RoutesResolve ==
    request = "read" =>
        \A id \in routes : phase[id[1]] = "live" => id[2] \in handles[id[1]]

(* A session in the registry leaves it by the release of its root, never   *)
(* by a disconnected channel, which would not tell the registry: until     *)
(* then its root is routed or on its way to it.                            *)
ParticipantKeepsRoot ==
    \A s \in Sessions \ Plain : phase[s] = "live" =>
        Root(s) \in routes \/ (current # None /\ current.id = Root(s))

(* session.rs, shutdown_reply: whoever asks a session that is ending still *)
(* gets an answer, or the end of the reply channel.                        *)
EveryRequestAnswered == request = "wait" ~> request # "wait"

(* main.rs: after the client has gone the connection's threads are joined, *)
(* unless the forwarder, which cloned a session's route before the purge,  *)
(* inserted it after: nobody takes that route out again.                   *)
TeardownEnds == ~connected ~> (request = "closed" \/ late)

(* A session in the registry ends with its connection in any case: the     *)
(* release of its root ends it, whatever it still holds.                   *)
ParticipantsEnd ==
    \A s \in Sessions \ Plain : (~connected /\ phase[s] # "none") ~> phase[s] = "over"

(* main.rs, "`release_all` above ended every session this connection       *)
(* created": no exception.                                                 *)
ReleaseAllEndsSessions ==
    \A s \in Sessions : (~connected /\ phase[s] # "none") ~> phase[s] = "over"
=============================================================================
