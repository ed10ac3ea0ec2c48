----------------------------- MODULE MailboxProofs -----------------------------
(* Proofs about Mailbox, for any number of callers and sinks.              *)
EXTENDS Mailbox, TLAPS

-----------------------------------------------------------------------------
(* The inductive invariant.                                                *)

(* The lock outside a step is a write's. *)
LockInv == \A c \in Callers : pc[c] = "writing" <=> lock = c

(* Each thread sweeps once: it has nothing in hand before or after. *)
SweepInv ==
    /\ sweep["reader"] # {} => reader = "sweeping"
    /\ sweep["closer"] # {} => closer = "sweeping"

(* What tells a sink: the reader at its end, all that are registered then, *)
(* or add_sink, which registers none any more.                             *)
ToldInv ==
    /\ reader \in {"sweeping", "telling", "ended"} => closed
    /\ \A k \in Sinks :
         /\ sinks[k] = "new" => told[k] = 0
         /\ sinks[k] = "registered" => told[k] = IF reader = "ended" THEN 1 ELSE 0
         /\ told[k] <= 1

IInv == TypeOK /\ LockInv /\ SweepInv /\ NobodyForgotten /\ ToldInv

USE ConsumerAssumption, NoneAssumption

LEMMA InitIInv == Init => IInv
<1> SUFFICES ASSUME Init PROVE IInv
  OBVIOUS
<1>1. TypeOK
  BY DEF Init, TypeOK, Sweepers
<1>2. LockInv /\ SweepInv
  BY DEF Init, LockInv, SweepInv, Sweepers
<1>3. NobodyForgotten /\ ToldInv
  BY DEF Init, NobodyForgotten, Waits, ToldInv
<1> QED BY <1>1, <1>2, <1>3 DEF IInv

-----------------------------------------------------------------------------
(* request.                                                                *)

LEMMA RegisterStep == ASSUME IInv, NEW c \in Callers, Register(c) PROVE IInv'
<1> USE DEF Register, Goto, peerVars, sinkVars
<1>1. TypeOK'
  BY DEF IInv, TypeOK
<1>2. LockInv'
  BY DEF IInv, TypeOK, LockInv
<1>3. SweepInv' /\ ToldInv'
  BY DEF IInv, SweepInv, ToldInv
<1>4. NobodyForgotten'
  BY DEF IInv, TypeOK, NobodyForgotten, Waits
<1> QED BY <1>1, <1>2, <1>3, <1>4 DEF IInv

(* A call that is not, or no longer, waiting moves on. *)
LEMMA CallStep ==
    ASSUME IInv, NEW c \in Callers,
           CallOnClosed(c) \/ Written(c) \/ WriteFails(c) \/ TakeSlot(c) \/ LeaveTable(c)
    PROVE  IInv'
<1> USE DEF Goto, peerVars, sinkVars
<1>1. TypeOK'
  <2>1. CASE CallOnClosed(c)
    BY <2>1 DEF CallOnClosed, IInv, TypeOK
  <2>2. CASE Written(c)
    BY <2>2 DEF Written, IInv, TypeOK
  <2>3. CASE WriteFails(c)
    BY <2>3 DEF WriteFails, IInv, TypeOK
  <2>4. CASE TakeSlot(c)
    BY <2>4 DEF TakeSlot, IInv, TypeOK
  <2>5. CASE LeaveTable(c)
    BY <2>5 DEF LeaveTable, IInv, TypeOK
  <2> QED BY <2>1, <2>2, <2>3, <2>4, <2>5
<1>2. LockInv'
  BY DEF CallOnClosed, Written, WriteFails, TakeSlot, LeaveTable, IInv, TypeOK, LockInv
<1>3. SweepInv' /\ ToldInv'
  BY DEF CallOnClosed, Written, WriteFails, TakeSlot, LeaveTable, IInv, SweepInv, ToldInv
<1>4. NobodyForgotten'
  BY DEF CallOnClosed, Written, WriteFails, TakeSlot, LeaveTable,
         IInv, TypeOK, NobodyForgotten, Waits
<1> QED BY <1>1, <1>2, <1>3, <1>4 DEF IInv

-----------------------------------------------------------------------------
(* The bridge, and what leaves the calls alone.                            *)

LEMMA QuietStep ==
    ASSUME IInv,
           \/ \E c \in Callers : BridgeAnswers(c)
           \/ BridgeGoes \/ ReadAnswer \/ EventConsumed \/ ConsumerReturns \/ StreamEnds
           \/ ReaderSwept \/ CallClose \/ ShutDown \/ CloserSwept \/ Joined
    PROVE  IInv'
<1>1. TypeOK'
  <2>1. CASE \E c \in Callers : BridgeAnswers(c)
    BY ONLY IInv, <2>1 DEF IInv, TypeOK, BridgeAnswers, callVars, sinkVars
  <2>2. CASE BridgeGoes
    BY ONLY IInv, <2>2 DEF IInv, TypeOK, BridgeGoes, callVars, sinkVars
  <2>3. CASE ReadAnswer
    BY ONLY IInv, <2>3 DEF IInv, TypeOK, ReadAnswer, callVars, sinkVars
  <2>4. CASE EventConsumed \/ ConsumerReturns \/ StreamEnds \/ ReaderSwept
    BY ONLY IInv, <2>4
       DEF IInv, TypeOK, EventConsumed, ConsumerReturns, StreamEnds, ReaderSwept, callVars,
           peerVars, sinkVars
  <2>5. CASE CallClose \/ ShutDown \/ CloserSwept \/ Joined
    BY ONLY IInv, <2>5
       DEF IInv, TypeOK, CallClose, ShutDown, CloserSwept, Joined, callVars, peerVars, sinkVars
  <2> QED BY <2>1, <2>2, <2>3, <2>4, <2>5
<1> USE DEF BridgeAnswers, BridgeGoes, ReadAnswer, EventConsumed, ConsumerReturns, StreamEnds,
            ReaderSwept, CallClose, ShutDown, CloserSwept, Joined, callVars, peerVars, sinkVars
<1>2. LockInv' /\ SweepInv'
  BY DEF IInv, LockInv, SweepInv
<1>3. NobodyForgotten'
  BY DEF IInv, NobodyForgotten, Waits
<1>4. ToldInv'
  BY DEF IInv, ToldInv
<1> QED BY <1>1, <1>2, <1>3, <1>4 DEF IInv

-----------------------------------------------------------------------------
(* Answers.                                                                *)

LEMMA AnswerStep == ASSUME IInv, LookUp \/ FillAnswer PROVE IInv'
<1> USE DEF LookUp, FillAnswer, Fill, callVars, peerVars, sinkVars
<1>1. TypeOK'
  BY DEF IInv, TypeOK
<1>2. LockInv' /\ SweepInv'
  BY DEF IInv, LockInv, SweepInv
<1>3. NobodyForgotten'
  <2>1. CASE LookUp
    BY <2>1 DEF IInv, NobodyForgotten, Waits
  <2>2. CASE FillAnswer
    <3> SUFFICES ASSUME NEW c \in Callers, Waits(c)'
                 PROVE  (c \in waiters /\ ~closed) \/ (\E t \in Sweepers : c \in sweep[t])
      BY <2>2 DEF NobodyForgotten
    <3>1. Waits(c) /\ c # frame
      BY <2>2 DEF Waits, IInv, TypeOK
    <3> QED BY <3>1 DEF IInv, NobodyForgotten
  <2> QED BY <2>1, <2>2
<1>4. ToldInv'
  BY DEF IInv, ToldInv
<1> QED BY <1>1, <1>2, <1>3, <1>4 DEF IInv

-----------------------------------------------------------------------------
(* The end of the stream.                                                  *)

LEMMA SweepStep == ASSUME IInv, ReaderSweeps \/ CloserSweeps PROVE IInv'
<1> USE DEF ReaderSweeps, CloserSweeps, TakeWaiters, peerVars, sinkVars, Sweepers
<1>1. TypeOK'
  <2>1. waiters \subseteq Callers /\ sweep \in [{"reader", "closer"} -> SUBSET Callers]
    BY DEF IInv, TypeOK
  <2>2. CASE ReaderSweeps
    BY <2>1, <2>2 DEF IInv, TypeOK
  <2>3. CASE CloserSweeps
    BY <2>1, <2>3 DEF IInv, TypeOK
  <2> QED BY <2>2, <2>3
<1>2. LockInv'
  BY DEF IInv, LockInv
<1>3. SweepInv'
  BY DEF IInv, TypeOK, SweepInv
<1>4. NobodyForgotten'
  <2> SUFFICES ASSUME NEW c \in Callers, Waits(c)'
               PROVE  \/ \E t \in Sweepers : c \in sweep'[t]
                      \/ reader' = "filling" /\ frame' = c
    BY DEF NobodyForgotten
  <2>1. Waits(c)
    BY DEF Waits
  <2>2. CASE c \in waiters
    BY <2>2 DEF IInv, TypeOK
  <2>3. ASSUME NEW t \in Sweepers, c \in sweep[t]
        PROVE  c \in sweep'[t]
    BY <2>3 DEF IInv, TypeOK, SweepInv
  <2>4. CASE reader = "filling" /\ frame = c
    BY <2>4
  <2> QED BY <2>1, <2>2, <2>3, <2>4 DEF IInv, NobodyForgotten
<1>5. ToldInv'
  BY DEF IInv, ToldInv
<1> QED BY <1>1, <1>2, <1>3, <1>4, <1>5 DEF IInv

LEMMA FailStep == ASSUME IInv, NEW t \in Sweepers, FailOne(t) PROVE IInv'
<1> PICK c \in sweep[t] :
        /\ Fill(c, "CLOSED")
        /\ sweep' = [sweep EXCEPT ![t] = @ \ {c}]
        /\ UNCHANGED <<pc, result, waiters, lock, closed, shut, peerVars, reader, frame>>
        /\ UNCHANGED <<closer, sinkVars>>
  BY DEF FailOne
<1> USE DEF Fill, peerVars, sinkVars
<1>0. c \in Callers
  BY DEF IInv, TypeOK
<1>1. TypeOK'
  BY DEF IInv, TypeOK
<1>2. LockInv'
  BY DEF IInv, LockInv
<1>3. SweepInv'
  BY DEF IInv, TypeOK, SweepInv, Sweepers
<1>4. NobodyForgotten'
  <2> SUFFICES ASSUME NEW d \in Callers, Waits(d)'
               PROVE  \/ d \in waiters /\ ~closed
                      \/ \E u \in Sweepers : d \in sweep'[u]
                      \/ reader = "filling" /\ frame = d
    BY DEF NobodyForgotten
  <2>1. Waits(d) /\ d # c
    BY <1>0 DEF Waits, IInv, TypeOK
  <2>2. ASSUME NEW u \in Sweepers, d \in sweep[u]
        PROVE  d \in sweep'[u]
    BY <2>1, <2>2 DEF IInv, TypeOK
  <2> QED BY <2>1, <2>2 DEF IInv, NobodyForgotten
<1>5. ToldInv'
  BY DEF IInv, ToldInv
<1> QED BY <1>1, <1>2, <1>3, <1>4, <1>5 DEF IInv

LEMMA TellStep == ASSUME IInv, TellSinks PROVE IInv'
<1> USE DEF TellSinks, callVars, peerVars, Registered
<1>1. TypeOK'
  BY DEF IInv, TypeOK
<1>2. LockInv' /\ SweepInv'
  BY DEF IInv, LockInv, SweepInv
<1>3. NobodyForgotten'
  BY DEF IInv, NobodyForgotten, Waits
<1>4. ToldInv'
  BY DEF IInv, TypeOK, ToldInv
<1> QED BY <1>1, <1>2, <1>3, <1>4 DEF IInv

LEMMA SinkStep == ASSUME IInv, NEW k \in Sinks, AddSink(k) \/ RemoveSink(k) PROVE IInv'
<1> USE DEF AddSink, RemoveSink, callVars, peerVars
<1>1. TypeOK'
  BY DEF IInv, TypeOK
<1>2. LockInv' /\ SweepInv'
  BY DEF IInv, LockInv, SweepInv
<1>3. NobodyForgotten'
  BY DEF IInv, NobodyForgotten, Waits
<1>4. ToldInv'
  BY DEF IInv, TypeOK, ToldInv
<1> QED BY <1>1, <1>2, <1>3, <1>4 DEF IInv

-----------------------------------------------------------------------------
LEMMA NextIInv == IInv /\ [Next]_vars => IInv'
<1> SUFFICES ASSUME IInv, [Next]_vars PROVE IInv'
  OBVIOUS
<1>1. CASE UNCHANGED vars
  BY <1>1 DEF vars, callVars, peerVars, sinkVars, IInv, TypeOK, LockInv, SweepInv,
              NobodyForgotten, Waits, ToldInv
<1>2. ASSUME NEW c \in Callers, Call(c) PROVE IInv'
  BY <1>2, RegisterStep, CallStep DEF Call, CallRuns
<1>3. CASE (\E c \in Callers : BridgeAnswers(c)) \/ BridgeGoes \/ EventConsumed \/ CallClose
  BY <1>3, QuietStep
<1>4. CASE Reader
  BY <1>4, AnswerStep, QuietStep, SweepStep, TellStep, FailStep DEF Reader, Sweepers
<1>5. CASE Closer
  BY <1>5, QuietStep, SweepStep, FailStep DEF Closer, Sweepers
<1>6. ASSUME NEW k \in Sinks, AddSink(k) \/ RemoveSink(k) PROVE IInv'
  BY <1>6, SinkStep
<1> QED BY <1>1, <1>2, <1>3, <1>4, <1>5, <1>6 DEF Next

(* The invariant holds in every reachable state. *)
THEOREM Invariance == Spec => []IInv
BY InitIInv, NextIInv, PTL DEF Spec

(* The variables keep their types. *)
THEOREM TypeCorrect == Spec => []TypeOK
<1>1. IInv => TypeOK
  BY DEF IInv
<1> QED BY <1>1, Invariance, PTL

(* _fail_waiters and the reader's lookup: a call that waits is in the      *)
(* table or in the hands of a thread that is about to wake it.             *)
THEOREM EverybodyRemembered == Spec => []NobodyForgotten
<1>1. IInv => NobodyForgotten
  BY DEF IInv
<1> QED BY <1>1, Invariance, PTL

(* add_sink against _dispatch(None): once the reader has ended every sink  *)
(* still registered has been told so, and none is ever told twice.         *)
THEOREM SinksAreTold ==
    Spec => [](\A k \in Sinks :
                  /\ told[k] <= 1
                  /\ sinks[k] = "registered" /\ reader = "ended" => told[k] = 1)
<1>1. IInv => \A k \in Sinks :
                  /\ told[k] <= 1
                  /\ sinks[k] = "registered" /\ reader = "ended" => told[k] = 1
  BY DEF IInv, ToldInv
<1> QED BY <1>1, Invariance, PTL

-----------------------------------------------------------------------------
(* What each thread waits for when it cannot go on by itself: a write is   *)
(* the bridge's to end until the socket is shut down.                      *)

CallWaits(c) ==
    \/ pc[c] = "done"
    \/ pc[c] = "idle" /\ (c = Consumer /\ reader = "consuming" => lock # None)
    \/ pc[c] = "writing" /\ ~shut /\ bridge
    \/ pc[c] = "waiting" /\ slot[c] = None
    \/ pc[c] = "leaving" /\ lock # None

ReaderWaits ==
    \/ reader = "reading" /\ wire = {} /\ ~shut /\ bridge
    \/ reader \in {"looking", "ending", "telling"} /\ lock # None
    \/ reader = "consuming" /\ pc[Consumer] # "done"
    \/ reader = "ended"

CloserWaits == closer \in {"idle", "closed"} \/ (closer = "shut" /\ lock # None)

AllWait == (\A c \in Callers : CallWaits(c)) /\ ReaderWaits /\ CloserWaits

(* The bridge may owe something: an answer, or the end of a write. *)
OnTheBridge ==
    /\ bridge /\ ~shut /\ closer = "idle"
    /\ \/ reader = "reading" /\ wire = {}
       \/ \E c \in Callers : pc[c] = "writing"

(* The reader thread waits in a sink for an answer only it could read. *)
OnItself ==
    reader = "consuming" /\ pc[Consumer] = "waiting" /\ closer = "idle"

AllOver ==
    /\ reader = "ended" /\ closer \in {"idle", "closed"}
    /\ \A c \in Callers : pc[c] \in {"idle", "done"}

(* How far a thread has come tells what it has done. *)
DoneInv ==
    /\ closer \notin {"idle", "called"} => shut
    /\ closer \in {"sweeping", "joining", "closed"} => closed
    /\ reader \in {"ending", "sweeping", "telling", "ended"} => shut \/ ~bridge

LEMMA DoneStep ==
    ASSUME IInv, DoneInv, [Next]_vars
    PROVE  DoneInv'
<1> USE DEF DoneInv
<1>1. CASE UNCHANGED vars
  BY <1>1 DEF vars, peerVars
<1>2. ASSUME NEW c \in Callers, Call(c) \/ BridgeAnswers(c)
      PROVE  DoneInv'
  <2>1. UNCHANGED <<closer, shut, closed, reader, bridge>>
    BY <1>2 DEF Call, CallRuns, Register, CallOnClosed, Written, WriteFails, TakeSlot, LeaveTable,
        BridgeAnswers, peerVars
  <2> QED BY <2>1
<1>3. CASE BridgeGoes
  BY <1>3 DEF BridgeGoes
<1>4. CASE Reader \/ EventConsumed
  <2>1. UNCHANGED <<closer, shut, bridge>> /\ (closed => closed')
    BY <1>4 DEF Reader, ReadAnswer, LookUp, FillAnswer, EventConsumed, ConsumerReturns, StreamEnds,
        ReaderSweeps, TakeWaiters, ReaderSwept, TellSinks, FailOne, peerVars
  <2>2. reader' \in {"ending", "sweeping", "telling", "ended"} => shut \/ ~bridge
    BY <1>4 DEF Reader, ReadAnswer, LookUp, FillAnswer, EventConsumed, ConsumerReturns, StreamEnds,
        ReaderSweeps, ReaderSwept, TellSinks, FailOne
  <2> QED BY <2>1, <2>2
<1>5. CASE CallClose \/ Closer
  BY <1>5 DEF CallClose, Closer, ShutDown, CloserSweeps, TakeWaiters, CloserSwept, Joined, FailOne,
      peerVars
<1>6. ASSUME NEW k \in Sinks, AddSink(k) \/ RemoveSink(k)
      PROVE  DoneInv'
  BY <1>6 DEF AddSink, RemoveSink, peerVars
<1> QED BY <1>1, <1>2, <1>3, <1>4, <1>5, <1>6 DEF Next

(* A waiter the table has lost is in the hands of a thread that moves. *)
LEMMA SweptMove ==
    ASSUME IInv, AllWait, closed, NEW c \in Callers
    PROVE  pc[c] # "waiting"
<1> SUFFICES ASSUME pc[c] = "waiting" PROVE FALSE
  OBVIOUS
<1>1. Waits(c)
  BY DEF AllWait, CallWaits, Waits
<1>2. reader # "sweeping" /\ closer # "sweeping" /\ reader # "filling"
  BY DEF AllWait, ReaderWaits, CloserWaits
<1>3. sweep["reader"] = {} /\ sweep["closer"] = {}
  BY <1>2 DEF IInv, SweepInv
<1> QED BY <1>1, <1>2, <1>3 DEF IInv, NobodyForgotten, Sweepers

(* request, _read_loop, close: callers, reader and closer never wait for   *)
(* one another, but for one case.  When all of them wait it is for the     *)
(* bridge, of a socket nobody has shut down; or everything is over; or the *)
(* reader waits in a sink for its own answer, which close alone can end.   *)
THEOREM NeverStuck == Spec => [](AllWait => OnTheBridge \/ OnItself \/ AllOver)
<1>1. IInv /\ DoneInv => (AllWait => OnTheBridge \/ OnItself \/ AllOver)
  <2> SUFFICES ASSUME IInv, DoneInv, AllWait, ~OnTheBridge
               PROVE  OnItself \/ AllOver
    OBVIOUS
  <2>1. closer \in {"idle", "closed"} \/ (closer = "shut" /\ lock # None)
    BY DEF AllWait, CloserWaits
  <2>2. CASE \E c \in Callers : pc[c] = "writing"
    <3>1. ~shut /\ bridge
      BY <2>2 DEF AllWait, CallWaits
    <3> QED BY <2>1, <2>2, <3>1 DEF DoneInv, OnTheBridge
  <2>3. CASE \A c \in Callers : pc[c] # "writing"
    <3>1. lock = None
      BY <2>3 DEF IInv, TypeOK, LockInv
    <3>2. closer \in {"idle", "closed"}
      BY <2>1, <3>1
    <3>3. reader \in {"reading", "consuming", "ended"}
      BY <3>1 DEF AllWait, ReaderWaits
    <3>4. reader # "reading"
      BY <3>2 DEF AllWait, ReaderWaits, DoneInv, OnTheBridge
    <3>5. \A c \in Callers : pc[c] \in {"idle", "waiting", "done"}
      BY <3>1, <2>3 DEF AllWait, CallWaits
    <3>6. CASE reader = "consuming"
      <4>1. pc[Consumer] = "waiting"
        BY <3>1, <3>5, <3>6 DEF AllWait, ReaderWaits, CallWaits
      <4>2. ~closed
        BY <4>1, SweptMove
      <4> QED BY <3>2, <3>6, <4>1, <4>2 DEF DoneInv, OnItself
    <3>7. CASE reader = "ended"
      <4>1. closed
        BY <3>7 DEF IInv, ToldInv
      <4> QED BY <3>2, <3>5, <3>7, <4>1, SweptMove DEF AllOver
    <3> QED BY <3>3, <3>4, <3>6, <3>7
  <2> QED BY <2>2, <2>3
<1>2. Init => DoneInv
  BY DEF Init, DoneInv
<1>3. IInv /\ DoneInv /\ [Next]_vars => DoneInv'
  BY DoneStep
<1> QED BY <1>1, <1>2, <1>3, Invariance, PTL DEF Spec
==============================================================================
