--------------------------- MODULE SessionWakeProofs ---------------------------
(***************************************************************************)
(* However many routes a session has and however their owners and its      *)
(* thread interleave, no wake is lost and no callback is slept over.       *)
(*                                                                         *)
(* The thread decides to sleep when it finds the channel empty but open,   *)
(* and converts callbacks before it does sleep.  NoLostWakeup does not see *)
(* a command pushed in between, so it is proved for the converting thread  *)
(* as well.                                                                *)
(***************************************************************************)
EXTENDS SessionWake, TLAPS

(* A route between changing the channel and setting the event. *)
AboutToWake == \E r \in Routes : route[r] \in {"pushed", "letting"}

WakeInv ==
    pc \in {"waiting", "converting"} /\ (queue > 0 \/ Senders = {}) =>
        signal \/ AboutToWake

IInv == TypeOK /\ WakeInv /\ NoCallbackLeftBehind

USE FirstAssumption, BoundAssumption

LEMMA InitIInv == Init => IInv
<1> SUFFICES ASSUME Init PROVE IInv
  OBVIOUS
<1>1. TypeOK /\ NoCallbackLeftBehind
  BY DEF Init, TypeOK, RouteState, NoCallbackLeftBehind
<1>2. First \in Senders
  BY DEF Init, Senders
<1> QED BY <1>1, <1>2 DEF Init, WakeInv, IInv

(* What the owner of a route does to the channel and to the event. *)
LEMMA OwnerStep ==
    ASSUME IInv, NEW r \in Routes, Owner(r)
    PROVE  IInv'
<1> USE DEF IInv, TypeOK, RouteState, WakeInv, NoCallbackLeftBehind, Moves,
            messageVars
<1>1. CASE \E c \in Routes : Clone(r, c)
  <2>1. PICK c \in Routes : Clone(r, c)
    BY <1>1
  <2>2. TypeOK' /\ NoCallbackLeftBehind'
    BY <2>1 DEF Clone
  <2>3. r \in Senders'
    BY <2>1 DEF Clone, Senders
  <2>4. AboutToWake => AboutToWake'
    BY <2>1 DEF Clone, AboutToWake
  <2>5. WakeInv'
    BY <2>1, <2>3, <2>4 DEF Clone
  <2> QED BY <2>2, <2>5
<1>2. CASE Push(r)
  <2>1. AboutToWake'
    BY <1>2 DEF Push, AboutToWake
  <2> QED BY <1>2, <2>1 DEF Push
<1>3. CASE WakeAfterPush(r)
  BY <1>3 DEF WakeAfterPush
<1>4. CASE LetGo(r)
  <2>1. AboutToWake'
    BY <1>4 DEF LetGo, AboutToWake
  <2> QED BY <1>4, <2>1 DEF LetGo
<1>5. CASE WakeAfterDrop(r)
  BY <1>5 DEF WakeAfterDrop
<1> QED BY <1>1, <1>2, <1>3, <1>4, <1>5 DEF Owner

(* What the session's thread does: it leaves the routes alone. *)
LEMMA ThreadStep ==
    ASSUME IInv, Thread \/ WaitFails
    PROVE  IInv'
<1> USE DEF IInv, TypeOK, WakeInv, NoCallbackLeftBehind, channelVars, messageVars,
            MessagesDrained
<1>1. route' = route
  BY DEF Thread, WokenByEvent, WokenByMessage, TakeCommand, NothingQueued,
         Disconnected, Convert, WaitFails
<1>2. (Senders = {}) = (Senders = {})' /\ AboutToWake' = AboutToWake
  BY <1>1 DEF Senders, AboutToWake
<1>3. CASE WokenByEvent
  BY <1>3 DEF WokenByEvent
<1>4. CASE WokenByMessage
  BY <1>4 DEF WokenByMessage
<1>5. CASE TakeCommand
  BY <1>1, <1>5 DEF TakeCommand
<1>6. CASE NothingQueued
  <2>1. TypeOK' /\ NoCallbackLeftBehind'
    BY <1>6 DEF NothingQueued
  <2>2. queue' = 0 /\ ~(Senders = {})'
    BY <1>2, <1>6 DEF NothingQueued
  <2> QED BY <2>1, <2>2
<1>7. CASE Disconnected
  BY <1>7 DEF Disconnected
<1>8. CASE Convert
  <2>1. TypeOK' /\ NoCallbackLeftBehind'
    BY <1>8 DEF Convert
  <2>2. queue' = queue /\ signal' = signal /\ pc = "converting"
    BY <1>8 DEF Convert
  <2>3. WakeInv'
    BY <1>2, <2>2
  <2> QED BY <2>1, <2>3
<1>9. CASE WaitFails
  BY <1>9 DEF WaitFails
<1> QED BY <1>3, <1>4, <1>5, <1>6, <1>7, <1>8, <1>9 DEF Thread

LEMMA NextIInv == IInv /\ [Next]_vars => IInv'
<1> SUFFICES ASSUME IInv, [Next]_vars PROVE IInv'
  OBVIOUS
<1>1. CASE \E r \in Routes : Owner(r)
  BY <1>1, OwnerStep
<1>2. CASE Callback
  BY <1>2 DEF Callback, channelVars, IInv, TypeOK, WakeInv, NoCallbackLeftBehind,
              Senders, AboutToWake
<1>3. CASE Thread \/ WaitFails
  BY <1>3, ThreadStep
<1>4. CASE UNCHANGED vars
  BY <1>4 DEF vars, channelVars, messageVars, IInv, TypeOK, WakeInv,
              NoCallbackLeftBehind, Senders, AboutToWake
<1> QED BY <1>1, <1>2, <1>3, <1>4 DEF Next

LEMMA Invariance == Spec => []IInv
<1> QED BY InitIInv, NextIInv, PTL DEF Spec

(* session.rs, SessionRoute: a thread asleep over a command or over a      *)
(* closed channel is woken or about to be, for any number of routes.       *)
THEOREM NoWakeupLost == Spec => []NoLostWakeup
<1>1. IInv => NoLostWakeup
  BY DEF IInv, WakeInv, NoLostWakeup, AboutToWake
<1> QED BY <1>1, Invariance, PTL

(* session.rs, the conversion after the command drain: no callback waits   *)
(* for the next wake, however many there are.                              *)
THEOREM CallbacksConverted == Spec => []NoCallbackLeftBehind
<1>1. IInv => NoCallbackLeftBehind
  BY DEF IInv
<1> QED BY <1>1, Invariance, PTL

(* The types of the wake protocol. *)
THEOREM WakeTypeCorrect == Spec => []TypeOK
<1>1. IInv => TypeOK
  BY DEF IInv
<1> QED BY <1>1, Invariance, PTL
=============================================================================
