----------------------------- MODULE SessionWake -----------------------------
(***************************************************************************)
(* How a session's thread sleeps and is woken: SessionRoute (send, Drop)   *)
(* in wineole-bridge/src/session.rs, the head of its loop there, and       *)
(* Waker, wait and drain_messages in pump.rs.                              *)
(*                                                                         *)
(* The thread sleeps in MsgWaitForMultipleObjects on an auto-reset event   *)
(* and on its message queue; neither a command pushed on its channel nor   *)
(* the end of the channel wakes it.  Every route does two things one after *)
(* the other, changing the channel and setting the event, and the threads  *)
(* that hold routes interleave with each other and with the session's.     *)
(***************************************************************************)
EXTENDS Naturals

CONSTANTS
    Routes,     \* SessionRoute values, clones included
    First,      \* the one SessionHandle holds
    MaxSends,   \* bound: commands sent in a run
    MaxCalls    \* bound: callbacks Excel makes in a run

ASSUME FirstAssumption == First \in Routes
ASSUME BoundAssumption == MaxSends \in Nat /\ MaxCalls \in Nat

VARIABLES
    route,      \* route[r]: where its owner is
    queue,      \* commands in the channel
    sent,       \* commands sent so far, for the bound
    signal,     \* the auto-reset event is set
    posted,     \* callbacks in the thread's message queue
    calls,      \* callbacks made so far, for the bound
    raw,        \* callbacks the sink has pushed, not yet converted
    pc          \* the session's thread

channelVars == <<route, queue, sent>>
messageVars == <<posted, calls, raw>>
vars == <<channelVars, signal, messageVars, pc>>

RouteState == {"unborn", "held",
               "pushed",    \* send: command queued, event not yet set
               "letting",   \* drop: sender gone, event not yet set
               "gone"}

TypeOK ==
    /\ route \in [Routes -> RouteState]
    /\ queue \in Nat /\ sent \in Nat
    /\ signal \in BOOLEAN
    /\ posted \in Nat /\ calls \in Nat /\ raw \in Nat
    /\ pc \in {"waiting", "draining", "converting", "ended"}

Init ==
    /\ route = [r \in Routes |-> IF r = First THEN "held" ELSE "unborn"]
    /\ queue = 0 /\ sent = 0
    /\ signal = FALSE
    /\ posted = 0 /\ calls = 0 /\ raw = 0
    /\ pc = "waiting"

(* The routes whose sender still exists. *)
Senders == {r \in Routes : route[r] \in {"held", "pushed"}}

Moves(r, from, to) == route[r] = from /\ route' = [route EXCEPT ![r] = to]

-----------------------------------------------------------------------------
(* The threads that hold routes.                                           *)

Clone(r, c) ==
    /\ route[r] = "held"
    /\ Moves(c, "unborn", "held")
    /\ UNCHANGED <<queue, sent, signal, messageVars, pc>>

(* send, first half: the receiver lives until the thread has ended. *)
Push(r) ==
    /\ Moves(r, "held", "pushed")
    /\ pc # "ended" /\ sent < MaxSends
    /\ queue' = queue + 1 /\ sent' = sent + 1
    /\ UNCHANGED <<signal, messageVars, pc>>

(* A slip: nobody is woken. *)
WakeNobody(r) ==
    /\ Moves(r, "pushed", "held")
    /\ UNCHANGED <<queue, sent, signal, messageVars, pc>>

(* send, second half. *)
WakeAfterPush(r) ==
    /\ Moves(r, "pushed", "held")
    /\ signal' = TRUE
    /\ UNCHANGED <<queue, sent, messageVars, pc>>

(* Drop: the sender goes first, then the event is set. *)
LetGo(r) ==
    /\ Moves(r, "held", "letting")
    /\ UNCHANGED <<queue, sent, signal, messageVars, pc>>

(* A slip: a dropped route wakes nobody. *)
DropSilently(r) ==
    /\ Moves(r, "letting", "gone")
    /\ UNCHANGED <<queue, sent, signal, messageVars, pc>>

WakeAfterDrop(r) ==
    /\ Moves(r, "letting", "gone")
    /\ signal' = TRUE
    /\ UNCHANGED <<queue, sent, messageVars, pc>>

(* Excel calls the sink: COM posts a message to the apartment's thread. *)
Callback ==
    /\ pc # "ended" /\ calls < MaxCalls
    /\ posted' = posted + 1 /\ calls' = calls + 1
    /\ UNCHANGED <<channelVars, signal, raw, pc>>

-----------------------------------------------------------------------------
(* The session's thread.                                                   *)

(* drain_messages: every callback runs the sink, which pushes it on. *)
MessagesDrained == posted' = 0 /\ raw' = raw + posted

(* Wake::Commands; the wait consumes the event. *)
WokenByEvent ==
    /\ pc = "waiting" /\ signal
    /\ signal' = FALSE
    /\ pc' = "draining"
    /\ UNCHANGED <<channelVars, messageVars>>

(* Wake::Messages: the event is reported first when both are ready. *)
WokenByMessage ==
    /\ pc = "waiting" /\ ~signal /\ posted > 0
    /\ MessagesDrained
    /\ pc' = "draining"
    /\ UNCHANGED <<channelVars, signal, calls>>

(* Wake::Failed. *)
WaitFails ==
    /\ pc = "waiting"
    /\ pc' = "ended"
    /\ UNCHANGED <<channelVars, signal, messageVars>>

(* try_recv: a command.  One that calls into COM runs a modal loop, which  *)
(* delivers callbacks too; the last release ends the loop.                 *)
TakeCommand ==
    /\ pc = "draining" /\ queue > 0
    /\ queue' = queue - 1
    /\ \/ MessagesDrained /\ pc' = "draining"
       \/ UNCHANGED <<posted, raw>> /\ pc' \in {"draining", "ended"}
    /\ UNCHANGED <<route, sent, signal, calls>>

(* TryRecvError::Empty. *)
NothingQueued ==
    /\ pc = "draining" /\ queue = 0 /\ Senders # {}
    /\ pc' = "converting"
    /\ UNCHANGED <<channelVars, signal, messageVars>>

(* TryRecvError::Disconnected. *)
Disconnected ==
    /\ pc = "draining" /\ queue = 0 /\ Senders = {}
    /\ pc' = "ended"
    /\ UNCHANGED <<channelVars, signal, messageVars>>

(* A slip: callbacks are only converted after a wake for messages. *)
ConvertNothing ==
    /\ pc = "converting"
    /\ pc' = "waiting"
    /\ UNCHANGED <<channelVars, signal, messageVars>>

(* Every callback the sink pushed is converted, then back to sleep. *)
Convert ==
    /\ pc = "converting"
    /\ raw' = 0
    /\ pc' = "waiting"
    /\ UNCHANGED <<channelVars, signal, posted, calls>>

-----------------------------------------------------------------------------
Owner(r) ==
    \/ \E c \in Routes : Clone(r, c)
    \/ Push(r) \/ WakeAfterPush(r)
    \/ LetGo(r) \/ WakeAfterDrop(r)

(* The rest of a send or of a drop, once begun. *)
Finish(r) == WakeAfterPush(r) \/ WakeAfterDrop(r)

Thread ==
    \/ WokenByEvent \/ WokenByMessage
    \/ TakeCommand \/ NothingQueued \/ Disconnected
    \/ Convert

Next ==
    \/ \E r \in Routes : Owner(r)
    \/ Callback
    \/ Thread
    \/ WaitFails

Spec == Init /\ [][Next]_vars

(* The threads of the bridge run on.  Nobody is obliged to send, to drop a *)
(* route or to call back.                                                  *)
FairSpec ==
    /\ Spec
    /\ WF_vars(Thread)
    /\ \A r \in Routes : WF_vars(Finish(r))

-----------------------------------------------------------------------------
(* Properties.                                                             *)

(* session.rs, SessionRoute::send and Drop ("the order is load-bearing"):  *)
(* a thread asleep over a queued command, or over a channel that has lost  *)
(* its last sender, has its event set or about to be set.                  *)
NoLostWakeup ==
    pc = "waiting" /\ (queue > 0 \/ Senders = {}) =>
        signal \/ \E r \in Routes : route[r] \in {"pushed", "letting"}

(* session.rs, Drop for SessionRoute: "dropping the last route is how a    *)
(* session learns that its connection went away".                          *)
LastRouteEndsSession == Senders = {} ~> pc = "ended"

(* A callback delivered inside a COM call of the thread's own is converted *)
(* before the thread sleeps again, whichever way it had been woken.        *)
NoCallbackLeftBehind == pc = "waiting" => raw = 0
=============================================================================
