-------------------------------- MODULE Mailbox --------------------------------
(***************************************************************************)
(* The client's end of a connection: bindings/python/wineole/mailbox.py.   *)
(* Calling threads register a waiter and write their request under one     *)
(* lock; the reader thread routes answers to waiters and, when the stream  *)
(* ends, sweeps the waiters and tells the event sinks; close may be called *)
(* by any other thread at any moment.                                      *)
(*                                                                         *)
(* A lock section that cannot block is one step.  The one that can, a      *)
(* request's sendall to a peer that has stopped reading, holds `lock`.     *)
(* One caller, Consumer, is the reader thread itself: a sink that breaks   *)
(* its contract and makes a call of its own.                               *)
(***************************************************************************)
EXTENDS Naturals

CONSTANTS
    Callers,    \* calls, each made once
    Consumer,   \* the call a sink makes on the reader thread
    Sinks,      \* event sinks, each registered once
    None

ASSUME ConsumerAssumption == Consumer \in Callers
ASSUME NoneAssumption == None \notin Callers \cup {"answer", "CLOSED", "error"}

VARIABLES
    pc,         \* pc[c]: where call c is
    result,     \* result[c]: what it returned
    slot,       \* slot[c]: the waiter's value
    waiters,    \* calls in the waiter table
    lock,       \* the call inside sendall, holding the lock
    closed,     \* _closed
    shut,       \* the socket has been shut down from this side
    bridge,     \* the bridge holds its end of the socket
    unanswered, \* requests the bridge has
    wire,       \* answers on their way
    reader,     \* the reader thread
    frame,      \* the call whose answer it has in hand
    sweep,      \* sweep[t]: waiters thread t has taken to fill with CLOSED
    closer,     \* the thread in close
    sinks,      \* sinks[k]: "new", "registered" in _sinks, or "removed"
    told        \* told[k]: end-of-stream markers sink k was given

callVars == <<pc, result, slot, waiters, lock>>
peerVars == <<bridge, unanswered, wire>>
sinkVars == <<sinks, told>>
vars == <<callVars, closed, shut, peerVars, reader, frame, sweep, closer, sinkVars>>

Sweepers == {"reader", "closer"}

TypeOK ==
    /\ pc \in [Callers -> {"idle", "writing", "waiting", "leaving", "done"}]
    /\ result \in [Callers -> {None, "answer", "CLOSED", "error"}]
    /\ slot \in [Callers -> {None, "answer", "CLOSED"}]
    /\ waiters \subseteq {c \in Callers : pc[c] \notin {"idle", "done"}}
    /\ lock \in Callers \cup {None}
    /\ closed \in BOOLEAN /\ shut \in BOOLEAN /\ bridge \in BOOLEAN
    /\ unanswered \subseteq Callers /\ wire \subseteq Callers
    /\ reader \in {"reading", "looking", "filling", "consuming",
                   "ending", "sweeping", "telling", "ended"}
    /\ frame \in Callers \cup {None}
    /\ sweep \in [Sweepers -> SUBSET Callers]
    /\ closer \in {"idle", "called", "shut", "sweeping", "joining", "closed"}
    /\ sinks \in [Sinks -> {"new", "registered", "removed"}]
    /\ told \in [Sinks -> Nat]

Init ==
    /\ pc = [c \in Callers |-> "idle"]
    /\ result = [c \in Callers |-> None]
    /\ slot = [c \in Callers |-> None]
    /\ waiters = {} /\ lock = None
    /\ closed = FALSE /\ shut = FALSE
    /\ bridge = TRUE /\ unanswered = {} /\ wire = {}
    /\ reader = "reading" /\ frame = None
    /\ sweep = [t \in Sweepers |-> {}]
    /\ closer = "idle"
    /\ sinks = [k \in Sinks |-> "new"] /\ told = [k \in Sinks |-> 0]

Registered == {k \in Sinks : sinks[k] = "registered"}

Goto(c, from, to) == pc[c] = from /\ pc' = [pc EXCEPT ![c] = to]

-----------------------------------------------------------------------------
(* request.                                                                *)

(* The reader thread calls only from inside a sink. *)
MayCall(c) == c # Consumer \/ reader = "consuming"

(* A slip: the dead connection is not noticed. *)
RegisterAnyway(c) ==
    /\ MayCall(c) /\ lock = None
    /\ Goto(c, "idle", "writing")
    /\ waiters' = waiters \cup {c}
    /\ lock' = c
    /\ UNCHANGED <<result, slot, closed, shut, peerVars, reader, frame, sweep, closer, sinkVars>>

Register(c) ==
    /\ MayCall(c) /\ lock = None /\ ~closed
    /\ Goto(c, "idle", "writing")
    /\ waiters' = waiters \cup {c}
    /\ lock' = c
    /\ UNCHANGED <<result, slot, closed, shut, peerVars, reader, frame, sweep, closer, sinkVars>>

(* A request on a dead connection is not sent at all. *)
CallOnClosed(c) ==
    /\ MayCall(c) /\ lock = None /\ closed
    /\ Goto(c, "idle", "done")
    /\ result' = [result EXCEPT ![c] = "CLOSED"]
    /\ UNCHANGED <<slot, waiters, lock, closed, shut, peerVars, reader, frame, sweep>>
    /\ UNCHANGED <<closer, sinkVars>>

(* sendall returns; a bridge that has gone may still have its socket's     *)
(* buffer filled, and the request lost with it.                            *)
Written(c) ==
    /\ Goto(c, "writing", "waiting")
    /\ ~shut
    /\ lock' = None
    /\ unanswered' = IF bridge THEN unanswered \cup {c} ELSE unanswered
    /\ UNCHANGED <<result, slot, waiters, closed, shut, bridge, wire, reader, frame, sweep>>
    /\ UNCHANGED <<closer, sinkVars>>

(* ... or raises, and call reports a ProtocolError. *)
WriteFails(c) ==
    /\ Goto(c, "writing", "leaving")
    /\ shut \/ ~bridge
    /\ lock' = None
    /\ result' = [result EXCEPT ![c] = "error"]
    /\ UNCHANGED <<slot, waiters, closed, shut, peerVars, reader, frame, sweep, closer, sinkVars>>

TakeSlot(c) ==
    /\ Goto(c, "waiting", "leaving")
    /\ slot[c] # None
    /\ result' = [result EXCEPT ![c] = slot[c]]
    /\ UNCHANGED <<slot, waiters, lock, closed, shut, peerVars, reader, frame, sweep>>
    /\ UNCHANGED <<closer, sinkVars>>

LeaveTable(c) ==
    /\ Goto(c, "leaving", "done")
    /\ lock = None
    /\ waiters' = waiters \ {c}
    /\ UNCHANGED <<result, slot, lock, closed, shut, peerVars, reader, frame, sweep>>
    /\ UNCHANGED <<closer, sinkVars>>

-----------------------------------------------------------------------------
(* The bridge, as the client sees it.                                      *)

BridgeAnswers(c) ==
    /\ bridge /\ c \in unanswered
    /\ unanswered' = unanswered \ {c}
    /\ wire' = wire \cup {c}
    /\ UNCHANGED <<callVars, closed, shut, bridge, reader, frame, sweep, closer, sinkVars>>

BridgeGoes ==
    /\ bridge
    /\ bridge' = FALSE /\ unanswered' = {}
    /\ UNCHANGED <<callVars, closed, shut, wire, reader, frame, sweep, closer, sinkVars>>

-----------------------------------------------------------------------------
(* Waiters.                                                                *)

(* _Waiter.fill: the first write wins. *)
Fill(c, value) == slot' = [slot EXCEPT ![c] = IF @ = None THEN value ELSE @]

(* _fail_waiters, its lock section: no waiter is registered after it. *)
TakeWaiters(t) ==
    /\ lock = None
    /\ closed' = TRUE
    /\ sweep' = [sweep EXCEPT ![t] = waiters]
    /\ waiters' = {}

(* ... and outside the lock each waiter is told, one by one. *)
FailOne(t) ==
    \E c \in sweep[t] :
        /\ Fill(c, "CLOSED")
        /\ sweep' = [sweep EXCEPT ![t] = @ \ {c}]
        /\ UNCHANGED <<pc, result, waiters, lock, closed, shut, peerVars, reader, frame>>
        /\ UNCHANGED <<closer, sinkVars>>

-----------------------------------------------------------------------------
(* The reader thread: _read_loop.                                          *)

ReadAnswer ==
    /\ reader = "reading"
    /\ \E c \in wire : frame' = c /\ wire' = wire \ {c}
    /\ reader' = "looking"
    /\ UNCHANGED <<callVars, closed, shut, bridge, unanswered, sweep, closer, sinkVars>>

(* The waiter is looked up under the lock and filled without it. *)
LookUp ==
    /\ reader = "looking" /\ lock = None
    /\ reader' = IF frame \in waiters THEN "filling" ELSE "reading"
    /\ frame' = IF frame \in waiters THEN frame ELSE None
    /\ UNCHANGED <<callVars, closed, shut, peerVars, sweep, closer, sinkVars>>

FillAnswer ==
    /\ reader = "filling"
    /\ Fill(frame, "answer")
    /\ reader' = "reading" /\ frame' = None
    /\ UNCHANGED <<pc, result, waiters, lock, closed, shut, peerVars, sweep, closer, sinkVars>>

(* An event reaches a sink that makes a call: the reader is parked in it.  *)
EventConsumed ==
    /\ reader = "reading" /\ Registered # {} /\ pc[Consumer] = "idle"
    /\ reader' = "consuming"
    /\ UNCHANGED <<callVars, closed, shut, peerVars, frame, sweep, closer, sinkVars>>

ConsumerReturns ==
    /\ reader = "consuming" /\ pc[Consumer] = "done"
    /\ reader' = "reading"
    /\ UNCHANGED <<callVars, closed, shut, peerVars, frame, sweep, closer, sinkVars>>

(* End of file, or an error.  What is still on the wire may be lost. *)
StreamEnds ==
    /\ reader = "reading"
    /\ shut \/ ~bridge
    /\ reader' = "ending"
    /\ UNCHANGED <<callVars, closed, shut, peerVars, frame, sweep, closer, sinkVars>>

ReaderSweeps ==
    /\ reader = "ending"
    /\ TakeWaiters("reader")
    /\ reader' = "sweeping"
    /\ UNCHANGED <<pc, result, slot, lock, shut, peerVars, frame, closer, sinkVars>>

ReaderSwept ==
    /\ reader = "sweeping" /\ sweep["reader"] = {}
    /\ reader' = "telling"
    /\ UNCHANGED <<callVars, closed, shut, peerVars, frame, sweep, closer, sinkVars>>

(* _dispatch(None) to the sinks registered at that moment. *)
TellSinks ==
    /\ reader = "telling" /\ lock = None
    /\ told' = [k \in Sinks |-> IF k \in Registered THEN told[k] + 1 ELSE told[k]]
    /\ reader' = "ended"
    /\ UNCHANGED <<callVars, closed, shut, peerVars, frame, sweep, closer, sinks>>

-----------------------------------------------------------------------------
(* close, on a thread other than the reader's.                             *)

CallClose ==
    /\ closer = "idle"
    /\ closer' = "called"
    /\ UNCHANGED <<callVars, closed, shut, peerVars, reader, frame, sweep, sinkVars>>

(* A slip: the shutdown waits for the lock. *)
ShutDownLocked ==
    /\ closer = "called" /\ lock = None
    /\ shut' = TRUE
    /\ closer' = "shut"
    /\ UNCHANGED <<callVars, closed, peerVars, reader, frame, sweep, sinkVars>>

(* The shutdown takes no lock: it must end a sendall that holds it. *)
ShutDown ==
    /\ closer = "called"
    /\ shut' = TRUE
    /\ closer' = "shut"
    /\ UNCHANGED <<callVars, closed, peerVars, reader, frame, sweep, sinkVars>>

CloserSweeps ==
    /\ closer = "shut"
    /\ TakeWaiters("closer")
    /\ closer' = "sweeping"
    /\ UNCHANGED <<pc, result, slot, lock, shut, peerVars, reader, frame, sinkVars>>

CloserSwept ==
    /\ closer = "sweeping" /\ sweep["closer"] = {}
    /\ closer' = "joining"
    /\ UNCHANGED <<callVars, closed, shut, peerVars, reader, frame, sweep, sinkVars>>

(* join(2) gives up on a reader that does not end. *)
Joined ==
    /\ closer = "joining"
    /\ closer' = "closed"
    /\ UNCHANGED <<callVars, closed, shut, peerVars, reader, frame, sweep, sinkVars>>

-----------------------------------------------------------------------------
(* add_sink and remove_sink.                                               *)

(* A slip: who comes late is told and registered as well. *)
AddSinkAndTell(k) ==
    /\ sinks[k] = "new" /\ lock = None
    /\ sinks' = [sinks EXCEPT ![k] = "registered"]
    /\ told' = IF closed THEN [told EXCEPT ![k] = @ + 1] ELSE told
    /\ UNCHANGED <<callVars, closed, shut, peerVars, reader, frame, sweep, closer>>

(* A sink that comes after the end is told at once and not registered. *)
AddSink(k) ==
    /\ sinks[k] = "new" /\ lock = None
    /\ sinks' = [sinks EXCEPT ![k] = IF closed THEN "removed" ELSE "registered"]
    /\ told' = IF closed THEN [told EXCEPT ![k] = @ + 1] ELSE told
    /\ UNCHANGED <<callVars, closed, shut, peerVars, reader, frame, sweep, closer>>

RemoveSink(k) ==
    /\ sinks[k] = "registered" /\ lock = None
    /\ sinks' = [sinks EXCEPT ![k] = "removed"]
    /\ UNCHANGED <<callVars, closed, shut, peerVars, reader, frame, sweep, closer, told>>

-----------------------------------------------------------------------------
(* A call in progress, but for the write: whether that returns is up to    *)
(* the bridge until the socket is shut down.                               *)
CallRuns(c) == TakeSlot(c) \/ LeaveTable(c) \/ WriteFails(c)

Call(c) == Register(c) \/ CallOnClosed(c) \/ Written(c) \/ CallRuns(c)

Reader ==
    \/ ReadAnswer \/ LookUp \/ FillAnswer
    \/ ConsumerReturns
    \/ StreamEnds \/ ReaderSweeps \/ ReaderSwept \/ TellSinks
    \/ FailOne("reader")

Closer == ShutDown \/ CloserSweeps \/ CloserSwept \/ Joined \/ FailOne("closer")

Next ==
    \/ \E c \in Callers : Call(c) \/ BridgeAnswers(c)
    \/ BridgeGoes
    \/ Reader \/ EventConsumed
    \/ CallClose \/ Closer
    \/ \E k \in Sinks : AddSink(k) \/ RemoveSink(k)

Spec == Init /\ [][Next]_vars

(* Threads run on and the lock is passed on, and a sink that calls makes   *)
(* its call; the bridge owes nothing, a write may be stuck until the       *)
(* socket is shut down, nobody need close.                                 *)
Fairness ==
    /\ \A c \in Callers : SF_vars(CallRuns(c))
    /\ SF_vars(Register(Consumer) \/ CallOnClosed(Consumer))
    /\ SF_vars(Reader)
    /\ SF_vars(Closer)

FairSpec == Spec /\ Fairness

-----------------------------------------------------------------------------
(* Properties.                                                             *)

Waits(c) == pc[c] \in {"writing", "waiting"} /\ slot[c] = None

(* _fail_waiters: "a waiter that is never woken waits forever".  Every     *)
(* call that waits is in the table, which the end of the stream has then   *)
(* still to sweep, or in the hands of a thread about to fill it.           *)
NobodyForgotten ==
    /\ \A c \in Callers : Waits(c) =>
         \/ c \in waiters /\ ~closed
         \/ \E t \in Sweepers : c \in sweep[t]
         \/ reader = "filling" /\ frame = c

(* close, "woken HERE": it ends every call in progress, also one stuck in  *)
(* its write and one made on the reader thread.                            *)
CloseEndsCalls ==
    \A c \in Callers : (closer # "idle" /\ pc[c] # "idle") ~> pc[c] = "done"

(* add_sink, "would never be told, and its dispatcher thread would park on *)
(* an empty queue": once close has returned, or the reader has ended,      *)
(* every sink still registered is told the end of the stream, and never    *)
(* twice, however its registration falls between the close and the end.    *)
SinkToldOnce ==
    \A k \in Sinks :
        /\ [](told[k] <= 1)
        /\ (sinks[k] = "registered" /\ (closer = "closed" \/ reader = "ended"))
             ~> (told[k] = 1 \/ sinks[k] = "removed")
=============================================================================
