---------------------------- MODULE Subscriptions ----------------------------
(***************************************************************************)
(* One session's event subscriptions and the COM objects behind them: the  *)
(* Subscribe, Unsubscribe, Release and ReleaseEvent arms, the conversion   *)
(* of raw callbacks and Apartment in wineole-bridge/src/session.rs, with   *)
(* EventSink, advise and Advised of sink.rs.                               *)
(*                                                                         *)
(* The session's thread is a single-threaded apartment.  While it is in an *)
(* outgoing COM call, or pumps its messages, an event source may call its  *)
(* sinks; the calls only queue what they carry.  Which interface is advised*)
(* is SourceChoice's subject, when the thread wakes SessionWake's, and who *)
(* shuts the instance down SessionLifetime's.                              *)
(***************************************************************************)
EXTENDS Naturals, Sequences, FiniteSets

CONSTANTS
    Objects,        \* what the automated process lends out
    RootObject,     \* the session's root
    EventSources,   \* the objects advise can find a source interface on
    Events,         \* names a callback may have
    ArgLists,       \* the objects among a callback's arguments, in order
    MaxId,          \* bound: ids minted
    MaxSinks,       \* bound: sinks that live at a time
    MaxQueued,      \* bound: callbacks not yet converted
    MaxExtra,       \* bound: references a source keeps besides its table's
    Nothing

ASSUME ObjectAssumption == RootObject \in Objects /\ EventSources \subseteq Objects
ASSUME NothingAssumption == Nothing \notin Objects \cup Nat
ASSUME ArgAssumption == ArgLists \subseteq Seq(Objects)
ASSUME EventAssumption == Events # {}
ASSUME BoundAssumption ==
    {MaxId, MaxSinks, MaxQueued, MaxExtra} \subseteq Nat

Ids == 0 .. MaxId
Sinks == 1 .. MaxSinks
RootId == 0
Wants == {"off", "bare", "args"}    \* not subscribed, or the args option
Off == [e \in Events |-> "off"]

VARIABLES
    phase,          \* where the session's thread is
    target,         \* what its COM call is about: handle, event, want, sink
    after,          \* where it goes on once an Unadvise has returned
    apartment,      \* COM is initialised on the thread
    participant,    \* the session is in the instance registry
    handles,        \* Apartment::handles: id to object, or Nothing
    advised,        \* Apartment::advised: id to sink, or Nothing
    subs,           \* id and event name to what was asked for
    eventHandles,   \* the ids minted for each seq, or <<>>
    nextId,         \* local_seq
    pendingCleanup, \* the $cleanup event's seq, or Nothing
    raw,            \* raw_rx: callbacks not yet converted
    rawOpen,        \* raw_rx is still there
    refs,           \* EventSink::refcount
    sinkHandle,     \* EventSink::handle, or Nothing: no such sink, or freed
    table,          \* the sinks in their source's connection table
    extra,          \* references a source has besides
    stuck,          \* sinks whose Unadvise failed
    shown,          \* seqs of the events sent and not given back
    owed            \* <<seq, id, object>> sent and not given back

threadVars == <<phase, target, after, apartment, participant>>
tableVars == <<handles, advised, subs>>
idVars == <<eventHandles, nextId, pendingCleanup>>
rawVars == <<raw, rawOpen>>
sinkVars == <<refs, sinkHandle, table, extra, stuck>>
clientVars == <<shown, owed>>
vars == <<threadVars, tableVars, idVars, rawVars, sinkVars, clientVars>>

Phases == {"entering", "attaching", "pumping", "draining", "invoking",
           "advising", "unadvising", "converting", "ending", "tearing", "dropping",
           "letting", "leaving", "over"}

(* The phases in which the thread is inside COM, or pumps for it. *)
InCom == phase \in {"attaching", "pumping", "invoking", "advising",
                    "unadvising", "ending", "letting"}

Callback == [handle: Ids, event: Events, args: ArgLists]
Target == [handle: Ids, event: Events, want: Wants, sink: Sinks]

ASSUME TargetAssumption == Nothing \notin Target

TypeOK ==
    /\ phase \in Phases
    /\ target \in Target \cup {Nothing}
    /\ after \in {"draining", "ending", "tearing"}
    /\ apartment \in BOOLEAN /\ participant \in BOOLEAN
    /\ handles \in [Ids -> Objects \cup {Nothing}]
    /\ advised \in [Ids -> Sinks \cup {Nothing}]
    /\ subs \in [Ids -> [Events -> Wants]]
    /\ eventHandles \in [Ids -> SUBSET Ids]
    /\ nextId \in 0 .. MaxId + 1
    /\ pendingCleanup \in Ids \cup {Nothing}
    /\ raw \in Seq(Callback) /\ rawOpen \in BOOLEAN
    /\ refs \in [Sinks -> Nat]
    /\ sinkHandle \in [Sinks -> Ids \cup {Nothing}]
    /\ table \subseteq Sinks /\ stuck \subseteq Sinks
    /\ extra \in [Sinks -> Nat]
    /\ shown \subseteq Ids /\ owed \subseteq Ids \X Ids \X Objects

Init ==
    /\ phase = "entering" /\ target = Nothing /\ after = "draining"
    /\ apartment = FALSE /\ participant = FALSE
    /\ handles = [h \in Ids |-> Nothing]
    /\ advised = [h \in Ids |-> Nothing]
    /\ subs = [h \in Ids |-> Off]
    /\ eventHandles = [s \in Ids |-> {}]
    /\ nextId = 0 /\ pendingCleanup = Nothing
    /\ raw = <<>> /\ rawOpen = TRUE
    /\ refs = [k \in Sinks |-> 0]
    /\ sinkHandle = [k \in Sinks |-> Nothing]
    /\ table = {} /\ stuck = {}
    /\ extra = [k \in Sinks |-> 0]
    /\ shown = {} /\ owed = {}

-----------------------------------------------------------------------------
(* The session's start.                                                    *)

EnterApartment ==
    /\ phase = "entering"
    /\ \/ phase' = "attaching" /\ apartment' = TRUE
       \/ phase' = "over" /\ apartment' = FALSE
    /\ UNCHANGED <<target, after, participant, tableVars, idVars, rawVars, sinkVars, clientVars>>

(* The session's next id, from one space for handles and for seqs. *)
MayMint(n) == nextId + n <= MaxId + 1

Attach ==
    /\ phase = "attaching" /\ MayMint(1)
    /\ handles' = [handles EXCEPT ![RootId] = RootObject]
    /\ nextId' = nextId + 1
    /\ participant' \in BOOLEAN
    /\ phase' \in {"pumping", "draining", "tearing"}    \* tearing: refused
    /\ UNCHANGED <<target, after, apartment, advised, subs, eventHandles, pendingCleanup>>
    /\ UNCHANGED <<rawVars, sinkVars, clientVars>>

AttachFails ==
    /\ phase = "attaching"
    /\ phase' = "tearing"
    /\ UNCHANGED <<target, after, apartment, participant, tableVars, idVars>>
    /\ UNCHANGED <<rawVars, sinkVars, clientVars>>

-----------------------------------------------------------------------------
(* The loop's own steps.                                                   *)

Moves(from, to) == phase = from /\ phase' = to

(* Wake::Messages leads to draining by way of the pump, Wake::Commands     *)
(* directly, Wake::Failed out of the loop.                                 *)
Loop ==
    /\ \/ Moves("pumping", "draining")
       \/ Moves("draining", "converting")   \* TryRecvError::Empty
       \/ /\ phase = "converting" /\ raw = <<>>
          /\ phase' \in {"pumping", "draining", "ending"}
    /\ UNCHANGED <<target, after, apartment, participant, tableVars, idVars>>
    /\ UNCHANGED <<rawVars, sinkVars, clientVars>>

(* TryRecvError::Disconnected: the client and its routes are gone.         *)
Disconnected ==
    /\ Moves("draining", "ending")
    /\ UNCHANGED <<target, after, apartment, participant, tableVars, idVars>>
    /\ UNCHANGED <<rawVars, sinkVars, clientVars>>

Takes == phase = "draining"

Invoke(h) ==
    /\ Takes /\ handles[h] # Nothing
    /\ phase' = "invoking"
    /\ UNCHANGED <<target, after, apartment, participant, tableVars, idVars>>
    /\ UNCHANGED <<rawVars, sinkVars, clientVars>>

(* run_invoke goes on with the call's result, an object or not. *)
InvokeReturns ==
    /\ Moves("invoking", "draining")
    /\ \/ UNCHANGED <<handles, nextId>>
       \/ /\ MayMint(1)
          /\ \E o \in Objects : handles' = [handles EXCEPT ![nextId] = o]
          /\ nextId' = nextId + 1
    /\ UNCHANGED <<target, after, apartment, participant, advised, subs, eventHandles>>
    /\ UNCHANGED <<pendingCleanup, rawVars, sinkVars, clientVars>>

-----------------------------------------------------------------------------
(* The sink's references.                                                  *)

(* EventSink::new: a sink for the handle, held by advise alone. *)
NewSink(k, h) ==
    /\ sinkHandle[k] = Nothing
    /\ sinkHandle' = [sinkHandle EXCEPT ![k] = h]
    /\ refs' = [refs EXCEPT ![k] = 1]

(* EventSink::query_interface: the three interfaces the sink answers for. *)
Answered == {"IUnknown", "IDispatch", "source_iid"}

(* A slip: the pointer is handed out and not counted. *)
QueryInterfaceUncounted(k, iid) ==
    /\ iid \in Answered
    /\ UNCHANGED refs

QueryInterface(k, iid) ==
    /\ iid \in Answered
    /\ refs' = [refs EXCEPT ![k] = @ + 1]

AddRef(k) == refs' = [refs EXCEPT ![k] = @ + 1]

(* EventSink::release, which frees the sink with its last reference. *)
ReleaseRef(k) ==
    /\ refs' = [refs EXCEPT ![k] = @ - 1]
    /\ sinkHandle' = IF refs[k] = 1 THEN [sinkHandle EXCEPT ![k] = Nothing] ELSE sinkHandle

(* What a source may use: the sink it is being handed, or one it has kept. *)
InHand(k) ==
    \/ k \in table
    \/ extra[k] > 0
    \/ phase = "advising" /\ target.sink = k

(* The source enters the sink in its connection table, under an interface  *)
(* it asked for; whether it settles for IDispatch is its own affair.       *)
SourceKeeps(k) ==
    /\ phase = "advising" /\ target.sink = k /\ k \notin table
    /\ \E iid \in {"IUnknown", "IDispatch", "source_iid", "IMarshal"} : QueryInterface(k, iid)
    /\ table' = table \cup {k}
    /\ UNCHANGED <<threadVars, tableVars, idVars, rawVars, sinkHandle, extra, stuck, clientVars>>

SourceCopies(k) ==
    /\ InCom /\ InHand(k) /\ extra[k] < MaxExtra
    /\ AddRef(k)
    /\ extra' = [extra EXCEPT ![k] = @ + 1]
    /\ UNCHANGED <<threadVars, tableVars, idVars, rawVars, sinkHandle, table, stuck, clientVars>>

SourceLets(k) ==
    /\ InCom /\ extra[k] > 0
    /\ ReleaseRef(k)
    /\ extra' = [extra EXCEPT ![k] = @ - 1]
    /\ UNCHANGED <<threadVars, tableVars, idVars, rawVars, table, stuck, clientVars>>

(* EventSink::invoke: the callback is queued, or its arguments dropped     *)
(* when there is no receiver any more.                                     *)
Call(k, e, args) ==
    /\ InCom /\ InHand(k) /\ Len(raw) < MaxQueued
    /\ raw' = IF rawOpen
              THEN Append(raw, [handle |-> sinkHandle[k], event |-> e, args |-> args])
              ELSE raw
    /\ UNCHANGED <<threadVars, tableVars, idVars, rawOpen, sinkVars, clientVars>>

-----------------------------------------------------------------------------
(* Advise and Unadvise.  An object is advised exactly while it has at      *)
(* least one subscription.                                                 *)

EventArgs == UNION {eventHandles[s] : s \in Ids}

(* A slip: the handles of events are taken for any others. *)
IsEventArgNever(h) == FALSE

IsEventArg(h) == h \in EventArgs

Subscribed(h) == \E e \in Events : subs[h][e] # "off"

(* Subscribe, on an object that is advised already. *)
SubscribeMore(h, e, want) ==
    /\ Takes /\ handles[h] # Nothing /\ ~IsEventArg(h)
    /\ advised[h] # Nothing
    /\ subs' = [subs EXCEPT ![h][e] = want]
    /\ UNCHANGED <<threadVars, handles, advised, idVars, rawVars, sinkVars, clientVars>>

(* Subscribe, the first for the object: a sink is made and handed over. *)
SubscribeFirst(h, e, want) ==
    /\ Takes /\ handles[h] \in EventSources /\ ~IsEventArg(h)
    /\ advised[h] = Nothing
    /\ \E k \in Sinks :
         /\ \A j \in 1 .. k - 1 : sinkHandle[j] # Nothing
         /\ NewSink(k, h)
         /\ target' = [handle |-> h, event |-> e, want |-> want, sink |-> k]
    /\ phase' = "advising"
    /\ UNCHANGED <<after, apartment, participant, tableVars, idVars, rawVars>>
    /\ UNCHANGED <<table, extra, stuck, clientVars>>

(* Advise has returned: advise lets its own reference go, and with it the  *)
(* sink if the source has refused it.                                      *)
AdviseReturns ==
    /\ Moves("advising", "draining")
    /\ LET k == target.sink  h == target.handle IN
       /\ ReleaseRef(k)
       /\ IF k \in table
          THEN /\ advised' = [advised EXCEPT ![h] = k]
               /\ subs' = [subs EXCEPT ![h][target.event] = target.want]
          ELSE UNCHANGED <<advised, subs>>
    /\ target' = Nothing
    /\ UNCHANGED <<after, apartment, participant, handles, idVars, rawVars>>
    /\ UNCHANGED <<table, extra, stuck, clientVars>>

(* A slip: the cookie is lost with the Advised. *)
DropAdvisedSilently(h, to) ==
    /\ advised' = [advised EXCEPT ![h] = Nothing]
    /\ phase' = to
    /\ UNCHANGED <<target, after>>

(* The Drop of an Advised: the thread is in Unadvise, and goes on to "to". *)
DropAdvised(h, to) ==
    /\ advised' = [advised EXCEPT ![h] = Nothing]
    /\ IF advised[h] = Nothing
       THEN phase' = to /\ UNCHANGED <<target, after>>
       ELSE /\ phase' = "unadvising" /\ after' = to
            /\ target' = [handle |-> h, event |-> CHOOSE e \in Events : TRUE,
                          want |-> "off", sink |-> advised[h]]

(* Unadvise takes the sink out of its source's table, or fails: then the   *)
(* source still holds it, and nobody will ask again.                       *)
UnadviseReturns ==
    /\ phase = "unadvising" /\ phase' = after
    /\ LET k == target.sink IN
       \/ /\ k \in table
          /\ table' = table \ {k} /\ ReleaseRef(k) /\ UNCHANGED stuck
       \/ stuck' = stuck \cup {k} /\ UNCHANGED <<table, refs, sinkHandle>>
    /\ target' = Nothing
    /\ UNCHANGED <<after, apartment, participant, tableVars, idVars, rawVars>>
    /\ UNCHANGED <<extra, clientVars>>

Unsubscribe(h, e) ==
    /\ Takes
    /\ subs' = [subs EXCEPT ![h][e] = "off"]
    /\ IF Subscribed(h) /\ \A f \in Events \ {e} : subs[h][f] = "off"
       THEN DropAdvised(h, "draining")
       ELSE UNCHANGED <<advised, phase, target, after>>
    /\ UNCHANGED <<apartment, participant, handles, idVars, rawVars, sinkVars, clientVars>>

-----------------------------------------------------------------------------
(* What the client gives back.                                             *)

(* A released object's subscriptions go with it. *)
Forget(h, to) ==
    /\ handles' = [handles EXCEPT ![h] = Nothing]
    /\ subs' = [subs EXCEPT ![h] = Off]
    /\ DropAdvised(h, to)

IsRootRelease(h) == participant /\ h = RootId

(* A slip: the $cleanup event's seq is not taken from the id space. *)
AskClosureUnminted ==
    /\ Takes /\ IsRootRelease(RootId)
    /\ pendingCleanup = Nothing /\ MayMint(1)
    /\ pendingCleanup' = nextId
    /\ UNCHANGED <<threadVars, tableVars, eventHandles, nextId, rawVars, sinkVars, clientVars>>

(* Release of the last user's root, with a closure to ask: the root stays  *)
(* until the $cleanup event's seq comes back.                              *)
AskClosure ==
    /\ Takes /\ IsRootRelease(RootId)
    /\ pendingCleanup = Nothing /\ MayMint(1)
    /\ pendingCleanup' = nextId
    /\ nextId' = nextId + 1
    /\ UNCHANGED <<threadVars, tableVars, eventHandles, rawVars, sinkVars, clientVars>>

Release(h) ==
    /\ Takes
    /\ LET last == \A i \in Ids \ {h} : handles[i] = Nothing IN
       Forget(h, IF IsRootRelease(h) \/ last THEN "ending" ELSE "draining")
    /\ owed' = {o \in owed : o[2] # h}
    /\ UNCHANGED <<apartment, participant, idVars, rawVars, sinkVars, shown>>

(* ReleaseEvent: the arguments of one event, together or not at all. *)
ReleaseEvent(s) ==
    /\ Takes /\ s \in shown /\ s # pendingCleanup
    /\ handles' = [h \in Ids |-> IF h \in eventHandles[s] THEN Nothing ELSE handles[h]]
    /\ eventHandles' = [eventHandles EXCEPT ![s] = {}]
    /\ shown' = shown \ {s} /\ owed' = {o \in owed : o[1] # s}
    /\ UNCHANGED <<threadVars, advised, subs, nextId, pendingCleanup, rawVars, sinkVars>>

(* ReleaseEvent, of the $cleanup event: the closure has answered. *)
ClosureAnswered ==
    /\ Takes /\ pendingCleanup # Nothing
    /\ Forget(RootId, "ending")
    /\ UNCHANGED <<apartment, participant, idVars, rawVars, sinkVars, clientVars>>

-----------------------------------------------------------------------------
(* The conversion of callbacks into events.                                *)

Wanted(c) == IF advised[c.handle] = Nothing THEN "off" ELSE subs[c.handle][c.event]

(* The event's seq comes first, then an id for each object, unless the     *)
(* subscription asked for none.                                            *)
Convert ==
    /\ phase = "converting" /\ raw # <<>>
    /\ raw' = Tail(raw)
    /\ LET c == Head(raw)
           want == Wanted(c)
           args == IF want = "args" THEN c.args ELSE <<>>
           ids == nextId + 1 .. nextId + Len(args)
       IN
       IF want = "off"
       THEN UNCHANGED <<handles, eventHandles, nextId, shown, owed>>
       ELSE /\ MayMint(1 + Len(args))
            /\ nextId' = nextId + 1 + Len(args)
            /\ handles' = [h \in Ids |-> IF h \in ids THEN args[h - nextId] ELSE handles[h]]
            /\ eventHandles' = [eventHandles EXCEPT ![nextId] = ids]
            /\ shown' = shown \cup {nextId}
            /\ owed' = owed \cup {<<nextId, h, args[h - nextId]>> : h \in ids}
    /\ UNCHANGED <<threadVars, advised, subs, pendingCleanup, rawOpen, sinkVars>>

(* At the bound on ids, callbacks are left where they are. *)
ConvertNoMore ==
    /\ phase = "converting" /\ raw # <<>>
    /\ phase' \in {"pumping", "draining", "ending"}
    /\ Wanted(Head(raw)) # "off" /\ ~MayMint(1 + Len(Head(raw).args))
    /\ UNCHANGED <<target, after, apartment, participant, tableVars, idVars>>
    /\ UNCHANGED <<rawVars, sinkVars, clientVars>>

-----------------------------------------------------------------------------
(* The end: the steps still owed, then Apartment's Drop.                   *)

(* The thread leaves the scope of its loop: its locals go, and what the    *)
(* client holds means nothing any more.                                    *)
EndLoop ==
    /\ Moves("ending", "tearing")
    /\ subs' = [h \in Ids |-> Off]
    /\ eventHandles' = [s \in Ids |-> {}]
    /\ nextId' = 0 /\ pendingCleanup' = Nothing
    /\ shown' = {} /\ owed' = {}
    /\ UNCHANGED <<target, after, apartment, participant, handles, advised>>
    /\ UNCHANGED <<rawVars, sinkVars>>

(* advised.clear(), one Unadvise after the other. *)
ClearAdvised ==
    /\ phase = "tearing"
    /\ IF \E h \in Ids : advised[h] # Nothing
       THEN \E h \in Ids : advised[h] # Nothing /\ DropAdvised(h, "tearing")
       ELSE phase' = "dropping" /\ UNCHANGED <<advised, target, after>>
    /\ UNCHANGED <<apartment, participant, handles, subs, idVars, rawVars, sinkVars, clientVars>>

(* A slip: the receiver is left for the fields' own drop, after the body. *)
DropRawLate ==
    /\ Moves("dropping", "letting")
    /\ UNCHANGED <<target, after, apartment, participant, tableVars, idVars>>
    /\ UNCHANGED <<rawVars, sinkVars, clientVars>>

(* raw_rx = None: what arrived since the last conversion goes with it. *)
DropRaw ==
    /\ Moves("dropping", "letting")
    /\ rawOpen' = FALSE /\ raw' = <<>>
    /\ UNCHANGED <<target, after, apartment, participant, tableVars, idVars>>
    /\ UNCHANGED <<sinkVars, clientVars>>

ClearHandles ==
    /\ Moves("letting", "leaving")
    /\ handles' = [h \in Ids |-> Nothing]
    /\ UNCHANGED <<target, after, apartment, participant, advised, subs, idVars>>
    /\ UNCHANGED <<rawVars, sinkVars, clientVars>>

LeaveApartment ==
    /\ Moves("leaving", "over")
    /\ apartment' = FALSE
    /\ UNCHANGED <<target, after, participant, tableVars, idVars, rawVars, sinkVars, clientVars>>

-----------------------------------------------------------------------------
Start == EnterApartment \/ Attach \/ AttachFails

Commands ==
    \/ \E h \in Ids : Invoke(h) \/ Release(h)
    \/ \E h \in Ids, e \in Events :
         \/ Unsubscribe(h, e)
         \/ \E want \in {"bare", "args"} :
              SubscribeMore(h, e, want) \/ SubscribeFirst(h, e, want)
    \/ \E s \in Ids : ReleaseEvent(s)
    \/ AskClosure \/ ClosureAnswered

Returns == InvokeReturns \/ AdviseReturns \/ UnadviseReturns

Conversion == Convert \/ ConvertNoMore

TearDown == EndLoop \/ ClearAdvised \/ DropRaw \/ ClearHandles \/ LeaveApartment

Source ==
    \E k \in Sinks :
        \/ SourceKeeps(k) \/ SourceCopies(k) \/ SourceLets(k)
        \/ \E e \in Events, args \in ArgLists : Call(k, e, args)

Next == Start \/ Loop \/ Disconnected \/ Commands \/ Returns \/ Conversion \/ TearDown \/ Source

Spec == Init /\ [][Next]_vars

(* The thread runs, and what it calls returns.  Clients and sources owe    *)
(* nothing.                                                                *)
FairSpec ==
    /\ Spec
    /\ WF_vars(Start) /\ WF_vars(Loop)
    /\ WF_vars(Returns) /\ WF_vars(Conversion) /\ WF_vars(TearDown)

-----------------------------------------------------------------------------
(* Properties                                                              *)

Running == phase \notin {"tearing", "dropping", "letting", "leaving", "over"}
           /\ ~(phase = "unadvising" /\ after = "tearing")

(* Apartment, "an object is advised exactly while it has at least one      *)
(* subscription", and the refusal in Subscribe: what is advised is an      *)
(* object the session holds, and never an event's argument, whose handle   *)
(* its event takes away.                                                   *)
AdvisedWhileSubscribed ==
    \A h \in Ids :
        /\ Running => (advised[h] # Nothing <=> Subscribed(h))
        /\ advised[h] # Nothing => handles[h] # Nothing /\ ~IsEventArg(h)

(* Advised, "the guarantee that it is torn down": a source has a sink in   *)
(* its table exactly while the session counts the object as advised or is  *)
(* in the call that changes it, unless an Unadvise failed; and a sink      *)
(* lives exactly as long as somebody holds a reference.                    *)
Handing(k) == target # Nothing /\ target.sink = k
SinkHeldWhileAdvised ==
    \A k \in Sinks :
        /\ (\E h \in Ids : advised[h] = k) => k \in table
        /\ k \in table => k \in stuck \/ Handing(k) \/ \E h \in Ids : advised[h] = k
        /\ refs[k] = extra[k] + (IF k \in table THEN 1 ELSE 0)
                     + (IF phase = "advising" /\ Handing(k) THEN 1 ELSE 0)

(* Apartment, steps 1 to 4: nothing COM owns is left when the apartment    *)
(* goes, whatever sources still call during the teardown.                  *)
TornDownInApartment ==
    phase = "over" =>
        /\ ~apartment
        /\ raw = <<>>
        /\ \A h \in Ids : handles[h] = Nothing /\ advised[h] = Nothing

(* The comment on event_handles, "released together or not at all": until  *)
(* the client gives an event back its ids name the objects it was sent,    *)
(* the session keeps nothing for events the client was not told of, and    *)
(* the $cleanup event's seq is no other event's.                           *)
EventArgsResolve ==
    Running =>
        /\ \A o \in owed : handles[o[2]] = o[3] /\ o[2] \in eventHandles[o[1]]
        /\ \A s \in Ids : \A h \in eventHandles[s] :
             handles[h] # Nothing => <<s, h, handles[h]>> \in owed
        /\ pendingCleanup \notin shown

(* Apartment's Drop: a session that leaves its loop ends, and no source is *)
(* left with a sink of it but one whose Unadvise failed.                   *)
EndedIsUnadvised == phase = "ending" ~> (phase = "over" /\ table \subseteq stuck)
=============================================================================
