--------------------------- MODULE DispatcherProofs ---------------------------
(***************************************************************************)
(* What a dispatcher does, for any sets of objects, closures and threads   *)
(* and any bounds: one thread at a time calls back (ThreadInv), frames are *)
(* given back in the order they came (OrderInv), and those of a fenced era *)
(* reach no callback while the stream is open (FenceInv).                  *)
(*                                                                         *)
(* ThreadInv is inductive once both its halves are taken together: a       *)
(* second thread would be started by somebody who finds the slot empty,    *)
(* and the slot is empty only over an empty queue with no sink up, so      *)
(* nobody relies on a thread that is not there.  The order and the eras    *)
(* rest on it, since a second thread would overtake the first, and on what *)
(* the queue and the hands of the threads hold (DataInv, HandInv).         *)
(***************************************************************************)
EXTENDS Dispatcher, TLAPS

-----------------------------------------------------------------------------
(* One thread.                                                             *)

ThreadInv ==
    /\ threads = [t \in Threads |-> threads[t]]
    /\ slot \in Threads \cup {None}
    /\ OneThread
    /\ NothingStranded

LEMMA InitThreadInv == Init => ThreadInv
  BY DEF Init, ThreadInv, OneThread, NothingStranded, At, Gone

(* Whoever ensures a thread leaves one thread, in the slot. *)
LEMMA EnsureOne ==
    ASSUME ThreadInv, EnsureThread
    PROVE  /\ threads' = [t \in Threads |-> threads'[t]]
           /\ slot' \in Threads
           /\ OneThread'
<1>1. CASE slot # None
  BY <1>1 DEF ThreadInv, EnsureThread, OneThread, At
<1>2. CASE slot = None
  <2>1. PICK t \in Threads : /\ threads[t].pc = "gone"
                             /\ slot' = t
                             /\ threads' = [threads EXCEPT ![t] = Started]
    BY <1>2 DEF EnsureThread
  <2>2. \A u \in Threads : u # t => threads'[u] = threads[u]
    BY <2>1 DEF ThreadInv
  <2>3. \A u \in Threads : threads[u].pc = "gone"
    BY <1>2, NoneAssumption DEF ThreadInv, OneThread, At
  <2> QED
    BY <2>1, <2>2, <2>3 DEF ThreadInv, OneThread, At
<1> QED
  BY <1>1, <1>2

(* A step that ensures a thread may put up a sink and fill the queue. *)
LEMMA EnsurePreserves ==
    ASSUME ThreadInv, EnsureThread
    PROVE  ThreadInv'
  BY EnsureOne, NoneAssumption DEF ThreadInv, NothingStranded

(* A step of a running thread t that leaves the slot alone. *)
LEMMA RunningPreserves ==
    ASSUME ThreadInv, NEW t \in Threads, ~At(t, "gone"), slot' = slot,
           NEW r, threads' = [threads EXCEPT ![t] = r]
    PROVE  ThreadInv'
<1>1. slot = t
  BY DEF ThreadInv, OneThread
<1>2. \A u \in Threads : u # t => threads'[u] = threads[u]
  BY DEF ThreadInv
<1> QED
  BY <1>1, <1>2, NoneAssumption DEF ThreadInv, OneThread, NothingStranded, At

(* The end of a thread: the slot is cleared over an empty queue. *)
LEMMA LeavePreserves ==
    ASSUME ThreadInv, NEW t \in Threads, Leave(t)
    PROVE  ThreadInv'
<1>1. slot = t
  BY DEF ThreadInv, OneThread, Leave, At
<1>2. /\ \A u \in Threads : u # t => threads'[u] = threads[u]
      /\ threads'[t] = Gone
      /\ threads' = [u \in Threads |-> threads'[u]]
  BY DEF ThreadInv, Leave
<1>3. OneThread'
  BY <1>1, <1>2 DEF ThreadInv, OneThread, At, Gone
<1> QED
  BY <1>2, <1>3 DEF ThreadInv, NothingStranded, Leave

(* Taking the sink down leaves an item behind, but only a sink that is up  *)
(* is taken down, and then there is a thread to find it.                   *)
LEMMA DetachPreserves ==
    ASSUME ThreadInv, NEW h \in Handles, Detach(h)
    PROVE  ThreadInv'
<1>1. UNCHANGED <<slot, threads>>
  BY DEF Detach
<1>2. slot = None => UNCHANGED <<sink, queue>>
  BY DEF Detach, ReleaseSinkIfIdle, ThreadInv, NothingStranded, sinkVars
<1> QED
  BY <1>1, <1>2 DEF ThreadInv, OneThread, NothingStranded, At

LEMMA ThreadStepPreserves ==
    ASSUME ThreadInv, NEW t \in Threads, ThreadStep(t)
    PROVE  ThreadInv'
<1>1. CASE Leave(t)
  BY <1>1, LeavePreserves
<1>2. CASE ~Leave(t)
  <2>1. ~At(t, "gone") /\ slot' = slot
    BY <1>2 DEF ThreadStep, TakeMarker, TakeFrame, LookUp, Deliver, Release, RunClosure,
        Ack, Unregister, BackToLive, TakeBatch, HandleLeftover, BatchDone, Fence, At
  <2>2. \E r : threads' = [threads EXCEPT ![t] = r]
    BY <1>2 DEF ThreadStep, TakeMarker, TakeFrame, LookUp, Deliver, Release, RunClosure,
        Ack, Unregister, BackToLive, TakeBatch, HandleLeftover, BatchDone, Fence, Now
  <2> QED
    BY <2>1, <2>2, RunningPreserves
<1> QED
  BY <1>1, <1>2

(* Steps that leave thread, queue and sink alone. *)
LEMMA ElsewherePreserves ==
    ASSUME ThreadInv, UNCHANGED <<threads, slot, queue, sink>>
    PROVE  ThreadInv'
  BY DEF ThreadInv, OneThread, NothingStranded, At

LEMMA NextPreserves == ThreadInv /\ [Next]_vars => ThreadInv'
<1> SUFFICES ASSUME ThreadInv, [Next]_vars
             PROVE  ThreadInv'
  OBVIOUS
<1>1. ASSUME NEW h \in Handles, Attach(h)
      PROVE  ThreadInv'
  BY <1>1, EnsurePreserves DEF Attach, Arm
<1>2. ASSUME NEW h \in Handles, Detach(h)
      PROVE  ThreadInv'
  BY <1>2, DetachPreserves
<1>3. ASSUME NEW h \in Handles, SendEvent(h)
      PROVE  ThreadInv'
  BY <1>3, ElsewherePreserves DEF SendEvent, sinkVars
<1>4. ASSUME NEW c \in Closures, RegisterCleanup(c)
      PROVE  ThreadInv'
  BY <1>4, EnsurePreserves DEF RegisterCleanup, Arm
<1>5. ASSUME NEW c \in Closures, AskCleanup(c)
      PROVE  ThreadInv'
  BY <1>5, ElsewherePreserves DEF AskCleanup, sinkVars
<1>6. CASE Read \/ Close \/ ReadEnd
  BY <1>6, ElsewherePreserves DEF Read, Close, ReadEnd, sinkVars
<1>7. ASSUME NEW item, Enqueue(item), UNCHANGED sinkVars
      PROVE  ThreadInv'
  <2>1. CASE EnsureThread
    BY <2>1, EnsurePreserves
  <2>2. CASE ~EnsureThread
    BY <1>7, <2>2, ElsewherePreserves DEF Enqueue, sinkVars
  <2> QED
    BY <2>1, <2>2
<1>8. CASE CallSink
  BY <1>8, <1>7 DEF CallSink
<1>9. CASE TellClosed
  BY <1>9, <1>7 DEF TellClosed
<1>10. ASSUME NEW t \in Threads, ThreadStep(t)
       PROVE  ThreadInv'
  BY <1>10, ThreadStepPreserves
<1>11. CASE UNCHANGED vars
  BY <1>11, ElsewherePreserves DEF vars, sinkVars
<1> QED
  BY <1>1, <1>2, <1>3, <1>4, <1>5, <1>6, <1>8, <1>9, <1>10, <1>11 DEF Next

THEOREM Threading == Spec => []ThreadInv
  BY InitThreadInv, NextPreserves, PTL DEF Spec

(* "There is never a second thread started while the first is still        *)
(* dispatching" (dispatcher.py): callbacks of a connection never overlap.  *)
THEOREM OneThreadAlways == Spec => []OneThread
<1>1. ThreadInv => OneThread
  BY DEF ThreadInv
<1> QED
  BY <1>1, Threading, PTL

(* "_thread is cleared under _lock ONLY when the queue is empty at that    *)
(* same moment" (dispatcher.py): no frame and no sink without a thread.    *)
THEOREM NothingStrandedAlways == Spec => []NothingStranded
<1>1. ThreadInv => NothingStranded
  BY DEF ThreadInv
<1> QED
  BY <1>1, Threading, PTL

-----------------------------------------------------------------------------
(* What the queue and the hands of the threads hold.                       *)

Frames == [kind : {"event", "$cleanup"}, handle : Handles \cup Closures,
           number : Nat, era : Nat]
Markers == {IDLE, EndOfStream} \cup [kind : {"RESUME"}, era : Nat]
Items == Frames \cup Markers

ThreadStates ==
    [pc : {"gone", "live", "routing", "calling", "releasing", "closure", "acking",
           "unregistering", "emptying", "batch", "fence"},
     way : {"live", "drain", "fence", "end"}, hand : Seq(Items), until : Nat]

DataInv ==
    /\ threads \in [Threads -> ThreadStates]
    /\ queue \in Seq(Items) /\ wire \in Seq(Frames)
    /\ carried = None \/ carried \in Frames \cup {EndOfStream}
    /\ released \in Seq(Nat)
    /\ sink \in BOOLEAN /\ closed \in BOOLEAN
    /\ era \in Nat /\ minted \in Nat
    /\ sink => era > 0
    /\ cleanups \subseteq Closures

(* What a thread has in hand at each of its places. *)
Busy(r) ==
    /\ r.hand # <<>> /\ IsFrame(Head(r.hand))
    /\ r.way \in {"live", "fence"} => Tail(r.hand) = <<>>

Fits(r) ==
    /\ r.pc = "gone" => r = Gone
    /\ r.pc = "live" => r.way = "live" /\ r.hand = <<>>
    /\ r.pc \in {"routing", "calling"} => r.way = "live"
    /\ r.pc = "fence" => r.way = "fence" /\ r.hand = <<>>
    /\ r.pc = "emptying" => r.way \in {"drain", "end"} /\ r.hand = <<>>
    /\ r.pc = "batch" => r.way \in {"drain", "end"}
    /\ r.pc \in {"routing", "calling", "releasing", "closure", "acking", "unregistering"}
         => Busy(r)

HandInv == \A t \in Threads : Fits(threads[t])

-----------------------------------------------------------------------------
(* The order of the frames between the wire and their release.             *)

Numbers(s) == {s[i].number : i \in {j \in DOMAIN s : IsFrame(s[j])}}
Sorted(s) ==
    \A i, j \in DOMAIN s :
        i < j /\ IsFrame(s[i]) /\ IsFrame(s[j]) => s[i].number < s[j].number
Below(A, B) == \A m \in A, n \in B : m < n

(* What thread t has yet to give back. *)
Owed(t) == Numbers(IF At(t, "unregistering") THEN Tail(threads[t].hand) ELSE threads[t].hand)
Given == {released[i] : i \in DOMAIN released}
Carried == IF carried = None THEN {} ELSE Numbers(<<carried>>)

(* Numbers that are behind the reader, behind the sink, and on the queue. *)
ToCome == {n \in Nat : n > minted}
BehindReader == Numbers(wire) \cup ToCome
BehindSink == Carried \cup BehindReader
BehindThread == Numbers(queue) \cup BehindSink

OrderInv ==
    /\ InOrder
    /\ Sorted(wire) /\ Sorted(queue) /\ \A t \in Threads : Sorted(threads[t].hand)
    /\ Below(Numbers(wire), ToCome)
    /\ Below(Carried, BehindReader)
    /\ Below(Numbers(queue), BehindSink)
    /\ \A t \in Threads : Below(Owed(t), BehindThread)
    /\ \A t \in Threads : Below(Given, Owed(t))
    /\ Below(Given, BehindThread)

-----------------------------------------------------------------------------
(* Markers and eras while the stream is open.                              *)

(* No retirement is noted between places i and j of a queue. *)
NoIdle(s, i, j) == \A k \in DOMAIN s : i < k /\ k < j => s[k] # IDLE
Resumes(e) == \E j \in DOMAIN queue : queue[j] = Resume(e)

(* No end of the stream is anywhere. *)
NoEndIn(s) == \A i \in DOMAIN s : s[i] # EndOfStream
NoEnd ==
    /\ carried = None \/ carried # EndOfStream
    /\ NoEndIn(queue)
    /\ \A t \in Threads : threads[t].way # "end" /\ NoEndIn(threads[t].hand)

(* The queue, whoever reads it. *)
QueueInv ==
    /\ \A j \in DOMAIN queue : queue[j].kind = "RESUME" =>
         /\ queue[j].era \in 1 .. era
         /\ NoIdle(queue, j, Len(queue) + 1) => sink
         /\ \A i \in DOMAIN queue :
              j < i /\ IsFrame(queue[i]) /\ NoIdle(queue, j, i) => queue[i].era >= queue[j].era
    /\ sink => \A i \in DOMAIN queue : queue[i] = IDLE =>
         \E j \in DOMAIN queue : i < j /\ queue[j] = Resume(era)

(* What a live thread finds before the next retirement may be delivered by *)
(* one that has resumed into era e, and a retirement will be noticed.      *)
Clean(e) ==
    \A i \in DOMAIN queue : IsFrame(queue[i]) /\ NoIdle(queue, 0, i) =>
        queue[i].era > 0 /\ queue[i].era >= e
Noticed == NoIdle(queue, 0, Len(queue) + 1) => sink

(* The other ways lead to the RESUME of the era resumed into.              *)
ReadsOn(r) ==
    /\ r.way = "live" => Clean(r.until) /\ Noticed
    /\ r.way = "drain" /\ sink => Resumes(era)
    /\ r.way = "fence" => Resumes(r.until)

EraInv ==
    \A t \in Threads : ~At(t, "gone") =>
        /\ threads[t].until <= era
        /\ ReadsOn(threads[t])
        /\ threads[t].pc \in {"routing", "calling"} =>
             Item(t).era > 0 /\ Item(t).era >= threads[t].until

OpenInv == NoEnd /\ QueueInv /\ EraInv
FenceInv == closed \/ OpenInv
-----------------------------------------------------------------------------
(* Sequences of items, by their places.                                    *)

LEMMA ItemKinds ==
    \A x \in Items :
        /\ IsFrame(x) <=> x \in Frames
        /\ IsFrame(x) => x # IDLE /\ x # EndOfStream /\ x.number \in Nat /\ x.era \in Nat
        /\ x.kind = "IDLE" <=> x = IDLE
        /\ x.kind = "END" <=> x = EndOfStream
        /\ x.kind = "RESUME" <=> x \in [kind : {"RESUME"}, era : Nat]
        /\ x.kind \in {"event", "$cleanup", "IDLE", "END", "RESUME"}
  BY DEF Items, Frames, Markers, IsFrame, IDLE, EndOfStream

LEMMA MarkersAreItems ==
    /\ IDLE \in Items /\ EndOfStream \in Items
    /\ \A e \in Nat : Resume(e) \in Items /\ ~IsFrame(Resume(e)) /\ Resume(e) # IDLE
                      /\ Resume(e) # EndOfStream
    /\ ~IsFrame(IDLE) /\ ~IsFrame(EndOfStream) /\ IDLE # EndOfStream
    /\ IDLE.kind = "IDLE" /\ EndOfStream.kind = "END"
  BY DEF Items, Markers, Resume, IDLE, EndOfStream, IsFrame

LEMMA AppendPlaces ==
    ASSUME NEW S, NEW s \in Seq(S), NEW x \in S
    PROVE  /\ Append(s, x) \in Seq(S)
           /\ Len(Append(s, x)) = Len(s) + 1
           /\ DOMAIN Append(s, x) = 1 .. Len(s) + 1
           /\ DOMAIN s = 1 .. Len(s)
           /\ \A i \in DOMAIN s : Append(s, x)[i] = s[i]
           /\ Append(s, x)[Len(s) + 1] = x
  OBVIOUS

LEMMA TailPlaces ==
    ASSUME NEW S, NEW s \in Seq(S), s # <<>>
    PROVE  /\ Tail(s) \in Seq(S)
           /\ Len(Tail(s)) = Len(s) - 1
           /\ DOMAIN Tail(s) = 1 .. Len(s) - 1
           /\ DOMAIN s = 1 .. Len(s) /\ 1 \in DOMAIN s
           /\ Head(s) = s[1] /\ Head(s) \in S
           /\ \A i \in DOMAIN Tail(s) : i + 1 \in DOMAIN s /\ Tail(s)[i] = s[i + 1]
           /\ \A i \in DOMAIN s : i > 1 => i - 1 \in DOMAIN Tail(s) /\ Tail(s)[i - 1] = s[i]
  OBVIOUS

LEMMA EmptyPlaces ==
    /\ DOMAIN <<>> = {} /\ Len(<<>>) = 0
    /\ Numbers(<<>>) = {} /\ Sorted(<<>>)
  BY DEF Numbers, Sorted

LEMMA SinglePlaces ==
    ASSUME NEW x
    PROVE  /\ DOMAIN <<x>> = {1} /\ <<x>>[1] = x /\ Len(<<x>>) = 1
           /\ Head(<<x>>) = x /\ Tail(<<x>>) = <<>> /\ <<x>> # <<>>
           /\ Numbers(<<x>>) = IF IsFrame(x) THEN {x.number} ELSE {}
           /\ Sorted(<<x>>)
<1>1. DOMAIN <<x>> = {1} /\ <<x>>[1] = x /\ Len(<<x>>) = 1
  OBVIOUS
<1>2. Head(<<x>>) = x /\ Tail(<<x>>) = <<>> /\ <<x>> # <<>>
  OBVIOUS
<1>3. Sorted(<<x>>)
  BY <1>1 DEF Sorted
<1>4. Numbers(<<x>>) = IF IsFrame(x) THEN {x.number} ELSE {}
  BY <1>1 DEF Numbers
<1> QED BY <1>1, <1>2, <1>3, <1>4

(* Joining to an empty sequence, or one item to the end. *)
LEMMA JoinOne ==
    ASSUME NEW S, NEW s \in Seq(S), NEW x \in S
    PROVE  /\ s \o <<>> = s
           /\ s \o <<x>> = Append(s, x)
           /\ (s \o <<>>) \o <<x>> = Append(s, x)
           /\ (s \o <<x>>) \o <<>> = Append(s, x)
<1>1. s \o <<>> = s
  OBVIOUS
<1>2. s \o <<x>> = Append(s, x)
  OBVIOUS
<1>3. Append(s, x) \o <<>> = Append(s, x)
  BY AppendPlaces
<1> QED BY <1>1, <1>2, <1>3

LEMMA NumbersAppend ==
    ASSUME NEW S, NEW s \in Seq(S), NEW x \in S
    PROVE  Numbers(Append(s, x)) = Numbers(s) \cup IF IsFrame(x) THEN {x.number} ELSE {}
<1> DEFINE a == Append(s, x)
<1>1. ASSUME NEW n \in Numbers(a) PROVE n \in Numbers(s) \cup IF IsFrame(x) THEN {x.number} ELSE {}
  <2>1. PICK i \in DOMAIN a : IsFrame(a[i]) /\ n = a[i].number
    BY DEF Numbers
  <2>2. CASE i = Len(s) + 1
    BY <2>1, <2>2, AppendPlaces
  <2>3. CASE i \in DOMAIN s
    BY <2>1, <2>3, AppendPlaces DEF Numbers
  <2> QED BY <2>2, <2>3, AppendPlaces
<1>2. ASSUME NEW n \in Numbers(s) PROVE n \in Numbers(a)
  <2>1. PICK i \in DOMAIN s : IsFrame(s[i]) /\ n = s[i].number
    BY DEF Numbers
  <2>2. i \in DOMAIN a /\ a[i] = s[i]
    BY AppendPlaces
  <2> QED BY <2>1, <2>2 DEF Numbers
<1>3. IsFrame(x) => x.number \in Numbers(a)
  <2>1. Len(s) + 1 \in DOMAIN a /\ a[Len(s) + 1] = x
    BY AppendPlaces
  <2> QED BY <2>1 DEF Numbers
<1> QED BY <1>1, <1>2, <1>3

LEMMA NumbersTail ==
    ASSUME NEW S, NEW s \in Seq(S), s # <<>>
    PROVE  /\ Numbers(Tail(s)) \subseteq Numbers(s)
           /\ IsFrame(Head(s)) => Head(s).number \in Numbers(s)
           /\ Sorted(s) => Sorted(Tail(s))
           /\ Sorted(s) /\ IsFrame(Head(s)) => Below({Head(s).number}, Numbers(Tail(s)))
<1>1. ASSUME NEW n \in Numbers(Tail(s))
      PROVE \E i \in DOMAIN s : i > 1 /\ IsFrame(s[i]) /\ n = s[i].number
  <2>1. PICK i \in DOMAIN Tail(s) : IsFrame(Tail(s)[i]) /\ n = Tail(s)[i].number
    BY DEF Numbers
  <2>2. i + 1 \in DOMAIN s /\ Tail(s)[i] = s[i + 1] /\ i + 1 > 1
    BY TailPlaces
  <2> QED BY <2>1, <2>2
<1>2. Numbers(Tail(s)) \subseteq Numbers(s)
  BY <1>1 DEF Numbers
<1>3. IsFrame(Head(s)) => Head(s).number \in Numbers(s)
  <2>1. 1 \in DOMAIN s /\ Head(s) = s[1]
    BY TailPlaces
  <2> QED BY <2>1 DEF Numbers
<1>4. Sorted(s) => Sorted(Tail(s))
  <2> SUFFICES ASSUME Sorted(s), NEW i \in DOMAIN Tail(s), NEW j \in DOMAIN Tail(s), i < j,
                      IsFrame(Tail(s)[i]), IsFrame(Tail(s)[j])
               PROVE  Tail(s)[i].number < Tail(s)[j].number
    BY DEF Sorted
  <2>1. i + 1 \in DOMAIN s /\ j + 1 \in DOMAIN s /\ i + 1 < j + 1
        /\ Tail(s)[i] = s[i + 1] /\ Tail(s)[j] = s[j + 1]
    BY TailPlaces
  <2> QED BY <2>1 DEF Sorted
<1>5. ASSUME Sorted(s), IsFrame(Head(s)), NEW n \in Numbers(Tail(s)) PROVE Head(s).number < n
  <2>1. PICK i \in DOMAIN s : i > 1 /\ IsFrame(s[i]) /\ n = s[i].number
    BY <1>1
  <2>2. 1 \in DOMAIN s /\ Head(s) = s[1]
    BY TailPlaces
  <2> QED BY <1>5, <2>1, <2>2 DEF Sorted
<1> QED BY <1>2, <1>3, <1>4, <1>5 DEF Below

LEMMA SortedAppend ==
    ASSUME NEW S, NEW s \in Seq(S), NEW x \in S, Sorted(s),
           IsFrame(x) => Below(Numbers(s), {x.number})
    PROVE  Sorted(Append(s, x))
<1> DEFINE a == Append(s, x)
<1> SUFFICES ASSUME NEW i \in DOMAIN a, NEW j \in DOMAIN a, i < j, IsFrame(a[i]), IsFrame(a[j])
             PROVE  a[i].number < a[j].number
  BY DEF Sorted
<1>1. i \in DOMAIN s /\ a[i] = s[i] /\ s[i].number \in Numbers(s)
  <2>1. i \in DOMAIN s /\ a[i] = s[i]
    BY AppendPlaces
  <2> QED BY <2>1 DEF Numbers
<1>2. CASE j \in DOMAIN s
  BY <1>1, <1>2, AppendPlaces DEF Sorted
<1>3. CASE j = Len(s) + 1
  BY <1>1, <1>3, AppendPlaces DEF Below
<1> QED BY <1>2, <1>3, AppendPlaces
-----------------------------------------------------------------------------
(* Every step keeps DataInv and HandInv.                                   *)

LEMMA NothingIsItems ==
    <<>> \in Seq(Items) /\ <<>> \in Seq(Frames) /\ <<>> \in Seq(Nat)
  OBVIOUS

LEMMA StartedFits ==
    /\ Started \in ThreadStates /\ Gone \in ThreadStates
    /\ Fits(Started) /\ Fits(Gone)
    /\ Started.way = "live" /\ Started.until = 0 /\ Started.hand = <<>> /\ Started.pc = "live"
    /\ Gone.hand = <<>> /\ Gone.pc = "gone" /\ Gone.way = "live"
  BY NothingIsItems DEF Started, Gone, ThreadStates, Fits

LEMMA InitData == Init => DataInv /\ HandInv
<1> SUFFICES ASSUME Init PROVE DataInv /\ HandInv
  OBVIOUS
<1>1. threads \in [Threads -> ThreadStates] /\ HandInv
  BY StartedFits DEF Init, HandInv
<1> QED BY <1>1, NothingIsItems DEF Init, DataInv

(* Thread t turns into r, the others stay. *)
Turns(t, r) == r \in ThreadStates /\ Fits(r) /\ threads' = [threads EXCEPT ![t] = r]

LEMMA TurnData ==
    ASSUME DataInv, HandInv, NEW t \in Threads, NEW r, Turns(t, r)
    PROVE  /\ threads' \in [Threads -> ThreadStates] /\ HandInv'
           /\ threads'[t] = r /\ \A u \in Threads \ {t} : threads'[u] = threads[u]
  BY DEF DataInv, HandInv, Turns

LEMMA EnsureTurns ==
    ASSUME DataInv, HandInv, ThreadInv, EnsureThread
    PROVE  \/ slot # None /\ UNCHANGED <<slot, threads>>
           \/ /\ slot = None /\ \A u \in Threads : threads[u] = Gone
              /\ \E t \in Threads : slot' = t /\ Turns(t, Started)
<1>1. slot = None => \A u \in Threads : threads[u] = Gone
  BY NoneAssumption DEF ThreadInv, OneThread, At, HandInv, Fits
<1> QED BY <1>1, StartedFits DEF EnsureThread, Turns

LEMMA EnsureData ==
    ASSUME DataInv, HandInv, ThreadInv, EnsureThread
    PROVE  threads' \in [Threads -> ThreadStates] /\ HandInv'
<1>1. CASE UNCHANGED <<slot, threads>>
  BY <1>1 DEF DataInv, HandInv
<1>2. CASE \E t \in Threads : Turns(t, Started)
  BY <1>2, TurnData
<1> QED BY <1>1, <1>2, EnsureTurns

LEMMA StampedItem ==
    ASSUME DataInv, NEW item \in Frames \cup {EndOfStream}
    PROVE  /\ Stamped(item) \in Items
           /\ IsFrame(Stamped(item)) <=> IsFrame(item)
           /\ IsFrame(item) => Stamped(item).number = item.number
           /\ IsFrame(item) => Stamped(item).era = IF sink THEN era ELSE 0
           /\ ~IsFrame(item) => Stamped(item) = item
<1>1. CASE item \in Frames
  BY <1>1 DEF Stamped, IsFrame, Items, Frames, DataInv
<1>2. CASE item = EndOfStream
  BY <1>2, MarkersAreItems DEF Stamped
<1> QED BY <1>1, <1>2

(* What the two ways of queueing do: a queue grows by one or two items. *)
LEMMA EnqueueGrows ==
    ASSUME DataInv, ThreadInv, NEW item \in Frames \cup {EndOfStream}, Enqueue(item)
    PROVE  \/ UNCHANGED <<queue, slot, threads>>
           \/ EnsureThread /\ ~(~sink /\ slot = None) /\ queue' = Append(queue, Stamped(item))
           \/ /\ EnsureThread /\ ~sink /\ slot = None
              /\ queue = <<>> /\ queue' = Append(Append(queue, IDLE), Stamped(item))
<1>1. Stamped(item) \in Items /\ IDLE \in Items /\ queue \in Seq(Items)
  BY StampedItem, MarkersAreItems DEF DataInv
<1>2. CASE ~sink /\ item = EndOfStream
  BY <1>2 DEF Enqueue
<1>3. CASE ~(~sink /\ item = EndOfStream)
  <2>1. CASE ~sink /\ slot = None
    <3>1. queue \o <<IDLE>> = Append(queue, IDLE) /\ Append(queue, IDLE) \in Seq(Items)
      BY <1>1, JoinOne, AppendPlaces
    <3>2. queue' = Append(Append(queue, IDLE), Stamped(item))
      BY <1>1, <1>3, <2>1, <3>1, JoinOne DEF Enqueue
    <3> QED BY <1>3, <2>1, <3>2 DEF Enqueue, ThreadInv, NothingStranded
  <2>2. CASE ~(~sink /\ slot = None)
    BY <1>1, <1>3, <2>2, JoinOne DEF Enqueue
  <2> QED BY <2>1, <2>2
<1> QED BY <1>2, <1>3

LEMMA EnqueueData ==
    ASSUME DataInv, HandInv, ThreadInv, NEW item \in Frames \cup {EndOfStream}, Enqueue(item)
    PROVE  threads' \in [Threads -> ThreadStates] /\ HandInv' /\ queue' \in Seq(Items)
<1>1. Stamped(item) \in Items /\ IDLE \in Items /\ queue \in Seq(Items)
  BY StampedItem, MarkersAreItems DEF DataInv
<1>2. queue' \in Seq(Items)
  BY <1>1, EnqueueGrows, AppendPlaces
<1>3. threads' \in [Threads -> ThreadStates] /\ HandInv'
  BY EnqueueGrows, EnsureData DEF DataInv, HandInv
<1> QED BY <1>2, <1>3

LEMMA ArmGrows ==
    ASSUME DataInv, Arm
    PROVE  \/ sink /\ UNCHANGED <<sink, listed, era, queue>>
           \/ /\ ~sink /\ sink' = TRUE /\ era' = era + 1
              /\ \/ queue' = Append(queue, Resume(era + 1))
                 \/ closed /\ queue' = Append(Append(queue, Resume(era + 1)), EndOfStream)
<1>1. Resume(era + 1) \in Items /\ queue \in Seq(Items) /\ EndOfStream \in Items
  BY MarkersAreItems DEF DataInv
<1>2. Append(queue, Resume(era + 1)) \in Seq(Items)
  BY <1>1, AppendPlaces
<1> QED BY <1>1, <1>2, JoinOne DEF Arm, sinkVars

LEMMA ArmData ==
    ASSUME DataInv, HandInv, ThreadInv, Arm
    PROVE  /\ threads' \in [Threads -> ThreadStates] /\ HandInv' /\ queue' \in Seq(Items)
           /\ sink' /\ sink' \in BOOLEAN /\ era' \in Nat /\ era' > 0
<1>1. Resume(era + 1) \in Items /\ queue \in Seq(Items) /\ EndOfStream \in Items
  BY MarkersAreItems DEF DataInv
<1>2. CASE sink /\ UNCHANGED <<sink, listed, era, queue>>
  <2>1. queue' \in Seq(Items) /\ sink' /\ sink' \in BOOLEAN /\ era' \in Nat /\ era' > 0
    BY <1>2 DEF DataInv
  <2> QED BY <2>1, EnsureData DEF Arm
<1>3. CASE ~(sink /\ UNCHANGED <<sink, listed, era, queue>>)
  <2>1. Append(queue, Resume(era + 1)) \in Seq(Items)
    BY <1>1, AppendPlaces
  <2>2. Append(Append(queue, Resume(era + 1)), EndOfStream) \in Seq(Items)
    BY <1>1, <2>1, AppendPlaces
  <2>3. queue' \in Seq(Items)
    BY <1>3, <2>1, <2>2, ArmGrows
  <2>4. sink' = TRUE /\ era' = era + 1
    BY <1>3, ArmGrows
  <2>5. sink' /\ sink' \in BOOLEAN /\ era' \in Nat /\ era' > 0
    BY <2>4 DEF DataInv
  <2> QED BY <2>3, <2>5, EnsureData DEF Arm
<1> QED BY <1>2, <1>3

LEMMA HandTail ==
    ASSUME DataInv, NEW t \in Threads, threads[t].hand # <<>>
    PROVE  Tail(threads[t].hand) \in Seq(Items) /\ Item(t) \in Items
<1>1. threads[t].hand \in Seq(Items)
  BY DEF DataInv, ThreadStates
<1> QED BY <1>1, TailPlaces DEF Item

LEMMA BackFits ==
    ASSUME DataInv, HandInv, NEW t \in Threads, threads[t].hand # <<>>,
           At(t, "releasing") \/ At(t, "unregistering") \/ At(t, "batch")
    PROVE  /\ Back(t) \in ThreadStates /\ Fits(Back(t))
           /\ Back(t).way = threads[t].way /\ Back(t).until = threads[t].until
           /\ Back(t).hand = Tail(threads[t].hand)
           /\ Back(t).pc \in {"live", "fence", "batch"}
           /\ At(t, "batch") => Back(t).way \in {"drain", "end"} /\ Back(t).pc = "batch"
<1>1. threads[t] \in ThreadStates /\ Fits(threads[t])
  BY DEF DataInv, HandInv
<1>2. Tail(threads[t].hand) \in Seq(Items)
  BY HandTail
<1>3. CASE threads[t].way = "live"
  <2>1. Back(t) = [threads[t] EXCEPT !.hand = Tail(@), !.pc = "live"]
    BY <1>3 DEF Back
  <2> QED BY <1>1, <1>2, <1>3, <2>1 DEF ThreadStates, Fits, Busy, At
<1>4. CASE threads[t].way = "fence"
  <2>1. Back(t) = [threads[t] EXCEPT !.hand = Tail(@), !.pc = "fence"]
    BY <1>4 DEF Back
  <2> QED BY <1>1, <1>2, <1>4, <2>1 DEF ThreadStates, Fits, Busy, At
<1>5. CASE threads[t].way \in {"drain", "end"}
  <2>1. Back(t) = [threads[t] EXCEPT !.hand = Tail(@), !.pc = "batch"]
    BY <1>5 DEF Back
  <2> QED BY <1>1, <1>2, <1>5, <2>1 DEF ThreadStates, Fits, Busy, At
<1> QED BY <1>1, <1>3, <1>4, <1>5 DEF ThreadStates

LEMMA PlaceTurns ==
    ASSUME DataInv, NEW t \in Threads, NEW r,
           r \in ThreadStates, Fits(r), threads' = [threads EXCEPT ![t] = r]
    PROVE  Turns(t, threads'[t])
  BY DEF Turns, DataInv

(* The state thread t is in after its step. *)
LEMMA StepTurns ==
    ASSUME DataInv, HandInv, NEW t \in Threads, ThreadStep(t)
    PROVE  Turns(t, threads'[t])
<1> DEFINE h == threads[t]
<1>1. h \in ThreadStates /\ Fits(h) /\ threads \in [Threads -> ThreadStates]
  BY DEF DataInv, HandInv
<1>2. queue # <<>> => Head(queue) \in Items /\ queue \in Seq(Items)
  BY TailPlaces DEF DataInv
<1>3. CASE TakeMarker(t)
  <2>1. CASE Head(queue) = IDLE
    <3> DEFINE r == [h EXCEPT !.pc = "emptying", !.way = "drain"]
    <3>1. threads' = [threads EXCEPT ![t] = r]
      BY <1>3, <2>1, MarkersAreItems DEF TakeMarker
    <3>2. r \in ThreadStates /\ Fits(r)
      BY <1>1, <1>3 DEF TakeMarker, ThreadStates, Fits, At
    <3> QED BY <3>1, <3>2, PlaceTurns
  <2>2. CASE Head(queue) = EndOfStream
    <3> DEFINE r == [h EXCEPT !.pc = "emptying", !.way = "end"]
    <3>1. threads' = [threads EXCEPT ![t] = r]
      BY <1>3, <2>2, MarkersAreItems DEF TakeMarker
    <3>2. r \in ThreadStates /\ Fits(r)
      BY <1>1, <1>3 DEF TakeMarker, ThreadStates, Fits, At
    <3> QED BY <3>1, <3>2, PlaceTurns
  <2>3. CASE Head(queue) # IDLE /\ Head(queue) # EndOfStream
    BY <1>1, <1>3, <2>3 DEF TakeMarker, Turns
  <2> QED BY <2>1, <2>2, <2>3
<1>4. CASE TakeFrame(t)
  <2>1. <<Head(queue)>> \in Seq(Items) /\ IsFrame(Head(queue))
    BY <1>2, <1>4 DEF TakeFrame
  <2>2. Head(<<Head(queue)>>) = Head(queue) /\ Tail(<<Head(queue)>>) = <<>>
        /\ <<Head(queue)>> # <<>>
    BY SinglePlaces
  <2> QED BY <1>1, <1>4, <2>1, <2>2 DEF TakeFrame, Turns, ThreadStates, Fits, Busy, At
<1>5. CASE LookUp(t) \/ Deliver(t) \/ RunClosure(t) \/ Ack(t)
  <2>1. CASE LookUp(t)
    BY <1>1, <2>1 DEF LookUp, Now, Turns, ThreadStates, Fits, Busy, At
  <2>2. CASE Deliver(t)
    BY <1>1, <2>2 DEF Deliver, Now, Turns, ThreadStates, Fits, Busy, At
  <2>3. CASE RunClosure(t)
    BY <1>1, <2>3 DEF RunClosure, Now, Turns, ThreadStates, Fits, Busy, At
  <2>4. CASE Ack(t)
    BY <1>1, <2>4 DEF Ack, Now, Turns, ThreadStates, Fits, Busy, At
  <2> QED BY <1>5, <2>1, <2>2, <2>3, <2>4
<1>6. CASE Release(t) \/ Unregister(t)
  <2>1. h.hand # <<>>
    BY <1>1, <1>6 DEF Release, Unregister, Fits, Busy, At
  <2>2. threads' = [threads EXCEPT ![t] = Back(t)]
    BY <1>6 DEF Release, Unregister
  <2> QED BY <1>1, <1>6, <2>1, <2>2, BackFits DEF Release, Unregister, Turns
<1>7. CASE BackToLive(t)
  BY <1>1, <1>7 DEF BackToLive, Turns, ThreadStates, Fits, At, DataInv
<1>8. CASE TakeBatch(t)
  BY <1>1, <1>2, <1>8 DEF TakeBatch, Turns, ThreadStates, Fits, At
<1>9. CASE Leave(t)
  BY <1>1, <1>9, StartedFits DEF Leave, Turns
<1>10. CASE HandleLeftover(t)
  <2>1. /\ Back(t) \in ThreadStates /\ Fits(Back(t))
        /\ Back(t).pc = "batch" /\ Back(t).hand \in Seq(Items)
    BY <1>10, BackFits DEF HandleLeftover, ThreadStates
  <2>2. [Back(t) EXCEPT !.way = "end"] \in ThreadStates /\ Fits([Back(t) EXCEPT !.way = "end"])
    BY <2>1 DEF ThreadStates, Fits
  <2>3. ASSUME IsFrame(Item(t)), NEW pc \in {"releasing", "closure"}
        PROVE  [h EXCEPT !.pc = pc] \in ThreadStates /\ Fits([h EXCEPT !.pc = pc])
    BY <1>1, <1>10, <2>3 DEF HandleLeftover, ThreadStates, Fits, Busy, At, Item
  <2>4. threads'[t] \in ThreadStates /\ Fits(threads'[t])
        /\ threads' = [threads EXCEPT ![t] = threads'[t]]
    BY <1>1, <1>10, <2>1, <2>2, <2>3 DEF HandleLeftover, IsFrame
  <2> QED BY <2>4 DEF Turns
<1>11. CASE BatchDone(t)
  BY <1>1, <1>11 DEF BatchDone, Now, Turns, ThreadStates, Fits, At
<1>12. CASE Fence(t)
  <2> DEFINE item == Head(queue)
  <2>1. <<item>> \in Seq(Items)
    BY <1>2, <1>12 DEF Fence
  <2>2. Head(<<item>>) = item /\ Tail(<<item>>) = <<>> /\ <<item>> # <<>>
    BY SinglePlaces
  <2>3. CASE IsFence(t, item) \/ item = EndOfStream
    <3>1. item.kind \notin {"event", "$cleanup"}
      BY <2>3 DEF IsFence, EndOfStream
    <3> DEFINE r == [h EXCEPT !.pc = "live", !.way = "live"]
    <3>2. threads' = [threads EXCEPT ![t] = r]
      BY <1>12, <2>3, <3>1 DEF Fence
    <3>3. r \in ThreadStates /\ Fits(r)
      BY <1>1, <1>12 DEF Fence, ThreadStates, Fits, At
    <3> QED BY <3>2, <3>3, PlaceTurns
  <2>4. CASE ~(IsFence(t, item) \/ item = EndOfStream) /\ IsFrame(item)
    BY <1>1, <1>12, <2>1, <2>2, <2>4 DEF Fence, Turns, ThreadStates, Fits, Busy, At, IsFrame
  <2>5. CASE ~(IsFence(t, item) \/ item = EndOfStream) /\ ~IsFrame(item)
    BY <1>1, <1>12, <2>5 DEF Fence, Turns, IsFrame
  <2> QED BY <2>3, <2>4, <2>5
<1> QED
  BY <1>3, <1>4, <1>5, <1>6, <1>7, <1>8, <1>9, <1>10, <1>11, <1>12 DEF ThreadStep

LEMMA ReleaseSinkGrows ==
    ASSUME DataInv, ReleaseSinkIfIdle
    PROVE  /\ \/ UNCHANGED <<sink, era, queue>>
              \/ sink /\ sink' = FALSE /\ era' = era /\ queue' = Append(queue, IDLE)
           /\ queue' \in Seq(Items) /\ sink' \in BOOLEAN /\ era' \in Nat /\ (sink' => era' > 0)
<1>1. Append(queue, IDLE) \in Seq(Items)
  BY AppendPlaces, MarkersAreItems DEF DataInv
<1> QED BY <1>1 DEF ReleaseSinkIfIdle, sinkVars, DataInv

(* What a thread's step does to the rest. *)
LEMMA StepData ==
    ASSUME DataInv, HandInv, NEW t \in Threads, ThreadStep(t)
    PROVE  DataInv' /\ HandInv'
<1>1. threads' \in [Threads -> ThreadStates] /\ HandInv'
  BY StepTurns, TurnData
<1>2. threads[t] \in ThreadStates /\ Fits(threads[t])
  BY DEF DataInv, HandInv
<1>3. queue # <<>> => Tail(queue) \in Seq(Items)
  BY TailPlaces DEF DataInv
<1>4. CASE TakeMarker(t) \/ TakeFrame(t) \/ LookUp(t) \/ Deliver(t) \/ RunClosure(t)
           \/ BackToLive(t) \/ TakeBatch(t) \/ HandleLeftover(t) \/ BatchDone(t)
  <2>1. queue' \in Seq(Items)
    BY <1>3, <1>4, NothingIsItems DEF TakeMarker, TakeFrame, LookUp, Deliver, RunClosure,
        BackToLive, TakeBatch, HandleLeftover, BatchDone, DataInv
  <2>2. UNCHANGED <<QuietVars, released>>
    BY <1>4 DEF TakeMarker, TakeFrame, LookUp, Deliver, RunClosure,
        BackToLive, TakeBatch, HandleLeftover, BatchDone
  <2> QED BY <1>1, <2>1, <2>2 DEF DataInv, QuietVars, tableVars, sinkVars, readerVars, endVars
<1>5. CASE Release(t) \/ Ack(t)
  <2>1. Item(t) \in Items /\ IsFrame(Item(t))
    BY <1>2, <1>5, HandTail DEF Release, Ack, Fits, Busy, At, Item
  <2>2. Item(t).number \in Nat /\ released \in Seq(Nat)
    <3>1. Item(t).number \in Nat
      BY <2>1, ItemKinds
    <3> QED BY <3>1 DEF DataInv
  <2>3. released' \in Seq(Nat)
    <3>1. released' = Append(released, Item(t).number)
      BY <1>5 DEF Release, Ack
    <3>2. Append(released, Item(t).number) \in Seq(Nat)
      BY ONLY <2>2, AppendPlaces
    <3> QED BY <3>1, <3>2
  <2>4. UNCHANGED <<queue, wire, carried, sink, closed, era, minted, cleanups>>
    BY <1>5 DEF Release, Ack, QuietVars, tableVars, sinkVars, readerVars, endVars
  <2>5. /\ queue' \in Seq(Items) /\ wire' \in Seq(Frames)
        /\ carried' = None \/ carried' \in Frames \cup {EndOfStream}
        /\ cleanups' \subseteq Closures
    BY ONLY DataInv, <2>4 DEF DataInv
  <2>6. /\ sink' \in BOOLEAN /\ closed' \in BOOLEAN
        /\ era' \in Nat /\ minted' \in Nat
        /\ sink' => era' > 0
    BY ONLY DataInv, <2>4 DEF DataInv
  <2> QED BY ONLY <1>1, <2>3, <2>5, <2>6 DEF DataInv
<1>6. CASE Unregister(t)
  BY <1>1, <1>6, ReleaseSinkGrows DEF Unregister, DataInv, readerVars, endVars
<1>7. CASE Leave(t)
  BY <1>1, <1>7 DEF Leave, DataInv, tableVars, readerVars, endVars
<1>8. CASE Fence(t)
  <2>1. queue' \in Seq(Items)
    BY <1>3, <1>8, AppendPlaces, MarkersAreItems DEF Fence
  <2> QED
    BY <1>1, <1>8, <2>1 DEF DataInv, Fence, QuietVars, tableVars, sinkVars, readerVars, endVars
<1> QED BY <1>4, <1>5, <1>6, <1>7, <1>8 DEF ThreadStep

LEMMA NextData == DataInv /\ HandInv /\ ThreadInv /\ [Next]_vars => DataInv' /\ HandInv'
<1> SUFFICES ASSUME DataInv, HandInv, ThreadInv, [Next]_vars
             PROVE  DataInv' /\ HandInv'
  OBVIOUS
<1> USE DEF tableVars, sinkVars, readerVars, endVars
<1>1. ASSUME NEW h \in Handles, Attach(h) PROVE DataInv' /\ HandInv'
  BY <1>1, ArmData DEF Attach, DataInv
<1>2. ASSUME NEW h \in Handles, Detach(h) PROVE DataInv' /\ HandInv'
  BY <1>2, ReleaseSinkGrows DEF Detach, DataInv, HandInv
<1>3. ASSUME NEW c \in Closures, RegisterCleanup(c) PROVE DataInv' /\ HandInv'
  BY <1>3, ArmData DEF RegisterCleanup, DataInv
<1>4. ASSUME NEW h \in Handles \cup Closures, NEW kind \in {"event", "$cleanup"}
      PROVE  NewFrame(h, kind) \in Frames
  BY DEF NewFrame, Frames, DataInv
<1>5. ASSUME NEW h \in Handles, SendEvent(h) PROVE DataInv' /\ HandInv'
  BY <1>4, <1>5, AppendPlaces DEF SendEvent, DataInv, HandInv
<1>6. ASSUME NEW c \in Closures, AskCleanup(c) PROVE DataInv' /\ HandInv'
  BY <1>4, <1>6, AppendPlaces DEF AskCleanup, DataInv, HandInv
<1>7. CASE Read
  <2>1. Tail(wire) \in Seq(Frames) /\ Head(wire) \in Frames
    BY <1>7, TailPlaces DEF Read, DataInv
  <2> QED BY <1>7, <2>1 DEF Read, DataInv, HandInv
<1>8. CASE Close
  BY <1>8 DEF Close, DataInv, HandInv
<1>9. CASE ReadEnd
  BY <1>9, NothingIsItems DEF ReadEnd, DataInv, HandInv
<1>10. ASSUME NEW item \in Frames \cup {EndOfStream}, Enqueue(item),
              UNCHANGED <<tableVars, sinkVars, wire, minted, closed, released>>,
              carried' = carried \/ carried' = None
       PROVE  DataInv' /\ HandInv'
  BY <1>10, EnqueueData DEF DataInv
<1>11. CASE CallSink
  BY <1>10, <1>11 DEF CallSink, DataInv
<1>12. CASE TellClosed
  BY <1>10, <1>12 DEF TellClosed, DataInv
<1>13. ASSUME NEW t \in Threads, ThreadStep(t) PROVE DataInv' /\ HandInv'
  BY <1>13, StepData
<1>14. CASE UNCHANGED vars
  BY <1>14 DEF vars, DataInv, HandInv
<1> QED
  BY <1>1, <1>2, <1>3, <1>5, <1>6, <1>7, <1>8, <1>9, <1>11, <1>12, <1>13, <1>14 DEF Next
-----------------------------------------------------------------------------
(* Every step keeps OrderInv.                                              *)

LEMMA InitOrder == Init => OrderInv
<1> SUFFICES ASSUME Init PROVE OrderInv
  OBVIOUS
<1>1. /\ Numbers(wire) = {} /\ Numbers(queue) = {} /\ Carried = {} /\ Given = {}
      /\ Sorted(wire) /\ Sorted(queue) /\ InOrder
  BY EmptyPlaces DEF Init, Carried, Given, InOrder
<1>2. \A t \in Threads : Sorted(threads[t].hand) /\ Owed(t) = {}
  BY EmptyPlaces, StartedFits DEF Init, Owed, At
<1> QED BY <1>1, <1>2 DEF OrderInv, Below

(* A step after which no frame is where none was before. *)
LEMMA NoFrameMoves ==
    ASSUME OrderInv, UNCHANGED <<released, minted>>,
           Sorted(wire)', Sorted(queue)', \A t \in Threads : Sorted(threads[t].hand)',
           Numbers(wire)' \subseteq Numbers(wire), Numbers(queue)' \subseteq Numbers(queue),
           Carried' \subseteq Carried, \A t \in Threads : Owed(t)' \subseteq Owed(t)
    PROVE  OrderInv'
<1>1. InOrder' /\ Given' = Given
  BY DEF OrderInv, InOrder, Given
<1>2. /\ ToCome' = ToCome
      /\ BehindReader' \subseteq BehindReader
      /\ BehindSink' \subseteq BehindSink
      /\ BehindThread' \subseteq BehindThread
  BY DEF ToCome, BehindReader, BehindSink, BehindThread
<1> QED BY <1>1, <1>2 DEF OrderInv, Below

LEMMA MarkerAppend ==
    ASSUME NEW s \in Seq(Items), NEW x \in Items, ~IsFrame(x), Sorted(s)
    PROVE  Sorted(Append(s, x)) /\ Numbers(Append(s, x)) = Numbers(s)
           /\ Append(s, x) \in Seq(Items)
  BY NumbersAppend, SortedAppend, AppendPlaces

(* What every thread owes, when one takes its place in the slot or none. *)
LEMMA EnsureOwed ==
    ASSUME DataInv, HandInv, ThreadInv, OrderInv, EnsureThread
    PROVE  \A t \in Threads : Sorted(threads[t].hand)' /\ Owed(t)' \subseteq Owed(t)
<1>1. CASE UNCHANGED <<slot, threads>>
  BY <1>1 DEF OrderInv, Owed, At
<1>2. ASSUME NEW t \in Threads, Turns(t, Started)
      PROVE  \A u \in Threads : Sorted(threads[u].hand)' /\ Owed(u)' \subseteq Owed(u)
  <2>1. threads'[t] = Started /\ \A u \in Threads \ {t} : threads'[u] = threads[u]
    BY <1>2, TurnData
  <2> QED BY <2>1, StartedFits, EmptyPlaces DEF OrderInv, Owed, At
<1> QED BY <1>1, <1>2, EnsureTurns

LEMMA ArmOrder ==
    ASSUME DataInv, HandInv, ThreadInv, OrderInv, Arm
    PROVE  Sorted(queue)' /\ Numbers(queue)' = Numbers(queue)
<1>1. CASE UNCHANGED queue
  BY <1>1 DEF OrderInv
<1>2. CASE ~UNCHANGED queue
  <2> DEFINE s == Append(queue, Resume(era + 1))
  <2>1. Resume(era + 1) \in Items /\ ~IsFrame(Resume(era + 1)) /\ queue \in Seq(Items)
        /\ EndOfStream \in Items /\ ~IsFrame(EndOfStream) /\ Sorted(queue)
    BY MarkersAreItems DEF DataInv, OrderInv
  <2>2. Sorted(s) /\ Numbers(s) = Numbers(queue) /\ s \in Seq(Items)
    BY <2>1, MarkerAppend
  <2>3. Sorted(Append(s, EndOfStream)) /\ Numbers(Append(s, EndOfStream)) = Numbers(s)
    BY <2>1, <2>2, MarkerAppend
  <2>4. queue' = s \/ queue' = Append(s, EndOfStream)
    BY <1>2, ArmGrows
  <2> QED BY <2>2, <2>3, <2>4
<1> QED BY <1>1, <1>2

LEMMA ReleaseSinkOrder ==
    ASSUME DataInv, OrderInv, ReleaseSinkIfIdle
    PROVE  Sorted(queue)' /\ Numbers(queue)' = Numbers(queue)
<1>1. IDLE \in Items /\ ~IsFrame(IDLE) /\ queue \in Seq(Items) /\ Sorted(queue)
  BY MarkersAreItems DEF DataInv, OrderInv
<1>2. queue' = queue \/ queue' = Append(queue, IDLE)
  BY ReleaseSinkGrows
<1> QED BY <1>1, <1>2, MarkerAppend

LEMMA EnqueueOrder ==
    ASSUME DataInv, HandInv, ThreadInv, OrderInv,
           NEW item \in Frames \cup {EndOfStream}, Enqueue(item),
           IsFrame(item) => Below(Numbers(queue), {item.number})
    PROVE  /\ Sorted(queue)'
           /\ Numbers(queue)' \subseteq Numbers(queue)
                 \cup IF IsFrame(item) THEN {item.number} ELSE {}
           /\ \A t \in Threads : Sorted(threads[t].hand)' /\ Owed(t)' \subseteq Owed(t)
<1> DEFINE x == Stamped(item)
<1>1. /\ queue \in Seq(Items) /\ Sorted(queue) /\ x \in Items
      /\ IsFrame(x) <=> IsFrame(item)
      /\ IsFrame(item) => x.number = item.number
  BY StampedItem DEF DataInv, OrderInv
<1>2. CASE UNCHANGED <<queue, slot, threads>>
  BY <1>2 DEF OrderInv, Owed, At
<1>3. CASE EnsureThread /\ queue' = Append(queue, x)
  <2>1. Sorted(queue') /\ Numbers(queue')
           = Numbers(queue) \cup IF IsFrame(x) THEN {x.number} ELSE {}
    BY <1>1, <1>3, SortedAppend, NumbersAppend
  <2> QED BY <1>1, <1>3, <2>1, EnsureOwed
<1>4. CASE EnsureThread /\ queue' = Append(Append(queue, IDLE), x)
  <2>1. Sorted(Append(queue, IDLE)) /\ Numbers(Append(queue, IDLE)) = Numbers(queue)
        /\ Append(queue, IDLE) \in Seq(Items)
    BY <1>1, MarkersAreItems, MarkerAppend
  <2>2. Sorted(queue') /\ Numbers(queue')
           = Numbers(queue) \cup IF IsFrame(x) THEN {x.number} ELSE {}
    <3>1. IsFrame(x) => Below(Numbers(Append(queue, IDLE)), {x.number})
      BY <1>1, <2>1
    <3>2. Sorted(Append(Append(queue, IDLE), x))
      BY <1>1, <2>1, <3>1, SortedAppend
    <3>3. Numbers(Append(Append(queue, IDLE), x))
             = Numbers(Append(queue, IDLE)) \cup IF IsFrame(x) THEN {x.number} ELSE {}
      BY <1>1, <2>1, NumbersAppend
    <3> QED BY <1>4, <2>1, <3>2, <3>3
  <2> QED BY <1>1, <1>4, <2>2, EnsureOwed
<1> QED BY <1>2, <1>3, <1>4, EnqueueGrows

LEMMA CallSinkOrder ==
    ASSUME DataInv, HandInv, ThreadInv, OrderInv, CallSink
    PROVE  OrderInv'
<1> DEFINE N == IF IsFrame(carried) THEN {carried.number} ELSE {}
<1>1. carried \in Frames \cup {EndOfStream} /\ carried # None
  BY DEF CallSink, DataInv
<1>2. Carried = N
  BY <1>1, SinglePlaces DEF Carried
<1>3. Below(Numbers(queue), N)
  BY <1>2 DEF OrderInv, Below, BehindSink
<1>4. /\ Sorted(queue)' /\ Numbers(queue)' \subseteq Numbers(queue) \cup N
      /\ \A t \in Threads : Sorted(threads[t].hand)' /\ Owed(t)' \subseteq Owed(t)
  <2>1. Enqueue(carried)
    BY DEF CallSink
  <2>2. IsFrame(carried) => Below(Numbers(queue), {carried.number})
    BY <1>3 DEF Below
  <2> QED BY <1>1, <2>1, <2>2, EnqueueOrder
<1>5. UNCHANGED <<wire, minted, released>> /\ Carried' = {}
  BY DEF CallSink, Carried
<1>6. InOrder' /\ Given' = Given /\ Sorted(wire)' /\ Numbers(wire)' = Numbers(wire)
      /\ ToCome' = ToCome
  BY <1>5 DEF OrderInv, InOrder, Given, ToCome
<1>7. /\ BehindReader' = BehindReader /\ BehindSink' \subseteq BehindReader
      /\ BehindThread' \subseteq BehindThread /\ BehindReader \subseteq BehindSink
  BY <1>2, <1>4, <1>5, <1>6 DEF BehindReader, BehindSink, BehindThread
<1>8. Below(Numbers(queue)', BehindSink')
  BY <1>2, <1>4, <1>7 DEF OrderInv, Below
<1> QED BY <1>4, <1>5, <1>6, <1>7, <1>8 DEF OrderInv, Below

(* The bridge sends one more. *)
LEMMA SendOrder ==
    ASSUME DataInv, OrderInv, NEW f \in Frames, f.number = minted + 1,
           wire' = Append(wire, f), minted' = minted + 1,
           UNCHANGED <<queue, threads, carried, released>>
    PROVE  OrderInv'
<1>1. wire \in Seq(Frames) /\ Sorted(wire) /\ IsFrame(f) /\ minted \in Nat
  BY DEF DataInv, OrderInv, Frames, IsFrame
<1>2. f.number \in ToCome /\ ToCome = ToCome' \cup {f.number}
      /\ Below({f.number}, ToCome')
  BY <1>1 DEF ToCome, Below
<1>3. Sorted(wire') /\ Numbers(wire') = Numbers(wire) \cup {f.number}
  BY <1>1, <1>2, SortedAppend, NumbersAppend DEF OrderInv, Below
<1>4. /\ BehindReader' = BehindReader
      /\ InOrder' /\ Given' = Given /\ Carried' = Carried
      /\ \A t \in Threads : Owed(t)' = Owed(t)
  BY <1>2, <1>3 DEF BehindReader, Carried, Given, InOrder, OrderInv, Owed, At
<1>5. BehindSink' = BehindSink /\ BehindThread' = BehindThread
  BY <1>4 DEF BehindSink, BehindThread
<1>6. Below(Numbers(wire'), ToCome')
  BY <1>2, <1>3 DEF OrderInv, Below
<1> QED BY <1>3, <1>4, <1>5, <1>6 DEF OrderInv, Below

(* The reader takes one off the wire; with no sink listed it is dropped. *)
LEMMA ReadOrder ==
    ASSUME DataInv, OrderInv, Read
    PROVE  OrderInv'
<1> DEFINE f == Head(wire)
<1>1. wire \in Seq(Frames) /\ wire # <<>> /\ f \in Frames /\ IsFrame(f) /\ Carried = {}
  <2>1. wire \in Seq(Frames) /\ wire # <<>> /\ carried = None
    BY DEF Read, DataInv
  <2>2. f \in Frames
    BY <2>1, TailPlaces
  <2> QED BY <2>1, <2>2 DEF Frames, IsFrame, Carried
<1>2. /\ Sorted(wire') /\ Numbers(wire') \subseteq Numbers(wire)
      /\ f.number \in Numbers(wire) /\ Below({f.number}, Numbers(wire'))
  BY <1>1, NumbersTail DEF Read, OrderInv
<1>3. Carried' \subseteq {f.number}
  BY SinglePlaces DEF Read, Carried
<1>4. /\ ToCome' = ToCome /\ InOrder' /\ Given' = Given /\ Numbers(queue)' = Numbers(queue)
      /\ Sorted(queue)'
      /\ \A t \in Threads : Owed(t)' = Owed(t) /\ Sorted(threads[t].hand)'
  BY DEF Read, sinkVars, ToCome, InOrder, Given, OrderInv, Owed, At
<1>5. BehindReader' \subseteq BehindReader /\ BehindSink' \subseteq BehindSink
      /\ BehindThread' \subseteq BehindThread
  BY <1>1, <1>2, <1>3, <1>4 DEF BehindReader, BehindSink, BehindThread
<1>6. Below(Carried', BehindReader')
  BY <1>2, <1>3, <1>4 DEF OrderInv, Below, BehindReader
<1> QED BY <1>2, <1>4, <1>5, <1>6 DEF OrderInv, Below

(* The thread takes an item off the queue. *)
LEMMA TakeOrder ==
    ASSUME DataInv, HandInv, OrderInv, NEW t \in Threads, NEW r, Turns(t, r), queue # <<>>,
           \/ queue' = Tail(queue)
           \/ Head(queue) = EndOfStream /\ queue' = Append(Tail(queue), EndOfStream),
           \/ r.hand = <<>>
           \/ r.hand = <<Head(queue)>> /\ IsFrame(Head(queue)),
           UNCHANGED <<wire, carried, minted, released>>,
           Owed(t) = {}, r.pc # "unregistering"
    PROVE  OrderInv'
<1> DEFINE n == Head(queue).number
           N == IF r.hand = <<>> THEN {} ELSE {n}
<1>1. threads'[t] = r /\ \A u \in Threads \ {t} : threads'[u] = threads[u]
  BY TurnData
<1>2. queue \in Seq(Items) /\ Sorted(queue)
  BY DEF DataInv, OrderInv
<1>3. /\ Tail(queue) \in Seq(Items) /\ Sorted(Tail(queue))
      /\ Numbers(Tail(queue)) \subseteq Numbers(queue)
      /\ IsFrame(Head(queue)) => n \in Numbers(queue) /\ Below({n}, Numbers(Tail(queue)))
  BY <1>2, NumbersTail, TailPlaces
<1>4. Sorted(queue') /\ Numbers(queue') = Numbers(Tail(queue))
  BY <1>3, MarkerAppend, MarkersAreItems
<1>5. /\ Sorted(r.hand) /\ Owed(t)' = N
      /\ N \subseteq Numbers(queue) /\ Below(N, Numbers(queue)')
  <2>1. Owed(t)' = Numbers(r.hand)
    BY <1>1 DEF Owed, At
  <2>2. Sorted(r.hand) /\ Numbers(r.hand) = N
    BY EmptyPlaces, SinglePlaces
  <2> QED BY <1>3, <1>4, <2>1, <2>2 DEF Below
<1>6. \A u \in Threads \ {t} : Owed(u)' = Owed(u) /\ Sorted(threads[u].hand)'
  BY <1>1 DEF Owed, At, OrderInv
<1>7. /\ ToCome' = ToCome /\ BehindReader' = BehindReader /\ BehindSink' = BehindSink
      /\ BehindThread' \subseteq BehindThread /\ InOrder' /\ Given' = Given /\ Carried' = Carried
      /\ Numbers(wire)' = Numbers(wire) /\ Sorted(wire)'
  BY <1>3, <1>4 DEF ToCome, BehindReader, BehindSink, BehindThread, Carried, InOrder, Given, OrderInv
<1>8. BehindThread = Numbers(queue) \cup BehindSink
      /\ BehindThread' = Numbers(queue)' \cup BehindSink
  BY <1>7 DEF BehindThread
<1>9. Below(N, BehindThread') /\ Below(Given, N)
  BY <1>5, <1>8 DEF OrderInv, Below
<1> QED BY <1>1, <1>3, <1>4, <1>5, <1>6, <1>7, <1>9 DEF OrderInv, Below

(* The thread takes the whole queue. *)
LEMMA TakeBatchOrder ==
    ASSUME DataInv, HandInv, OrderInv, NEW t \in Threads, TakeBatch(t)
    PROVE  OrderInv'
<1>1. /\ threads'[t].hand = queue /\ threads'[t].pc = "batch"
      /\ \A u \in Threads \ {t} : threads'[u] = threads[u]
  BY DEF TakeBatch, DataInv, ThreadStates
<1>2. /\ UNCHANGED <<wire, carried, minted, released>> /\ queue' = <<>>
  BY DEF TakeBatch, QuietVars, readerVars
<1>3. /\ Owed(t)' = Numbers(queue) /\ Sorted(threads[t].hand)'
      /\ Numbers(queue)' = {} /\ Sorted(queue)'
  BY <1>1, <1>2, EmptyPlaces DEF Owed, At, OrderInv
<1>4. \A u \in Threads \ {t} : Owed(u)' = Owed(u) /\ Sorted(threads[u].hand)'
  BY <1>1 DEF Owed, At, OrderInv
<1>5. /\ ToCome' = ToCome /\ BehindReader' = BehindReader /\ BehindSink' = BehindSink
      /\ InOrder' /\ Given' = Given /\ Carried' = Carried
      /\ Numbers(wire)' = Numbers(wire) /\ Sorted(wire)'
  BY <1>2 DEF ToCome, BehindReader, BehindSink, Carried, InOrder, Given, OrderInv
<1>6. BehindThread = Numbers(queue) \cup BehindSink /\ BehindThread' = BehindSink
  BY <1>3, <1>5 DEF BehindThread
<1> QED BY <1>3, <1>4, <1>5, <1>6 DEF OrderInv, Below

(* The thread gives back what it has in hand: nobody else has anything. *)
LEMMA GiveBackOrder ==
    ASSUME DataInv, HandInv, ThreadInv, OrderInv, NEW t \in Threads, Release(t) \/ Ack(t)
    PROVE  OrderInv'
<1> DEFINE s == threads[t].hand
           n == Item(t).number
<1>1. /\ s \in Seq(Items) /\ s # <<>> /\ IsFrame(Head(s)) /\ n = Head(s).number
      /\ n \in Nat /\ released \in Seq(Nat) /\ Sorted(s)
  <2>1. s \in Seq(Items) /\ s # <<>> /\ IsFrame(Head(s)) /\ n = Head(s).number
    BY DEF DataInv, ThreadStates, HandInv, Fits, Busy, Release, Ack, At, Item
  <2>2. n \in Nat
    BY <2>1, TailPlaces, ItemKinds
  <2> QED BY <2>1, <2>2 DEF DataInv, OrderInv
<1>2. /\ Numbers(Tail(s)) \subseteq Numbers(s) /\ n \in Numbers(s)
      /\ Below({n}, Numbers(Tail(s))) /\ Sorted(Tail(s))
  BY <1>1, NumbersTail
<1>3. Owed(t) = Numbers(s)
  BY DEF Owed, Release, Ack, At
<1>4. Owed(t)' = Numbers(Tail(s)) /\ Sorted(threads[t].hand)'
  <2>1. CASE Release(t)
    <3>1. threads'[t] = Back(t) /\ Back(t).hand = Tail(s) /\ Back(t).pc # "unregistering"
      BY <1>1, <2>1, BackFits DEF Release, DataInv
    <3> QED BY <1>2, <3>1 DEF Owed, At
  <2>2. CASE Ack(t)
    <3>1. threads'[t].pc = "unregistering" /\ threads'[t].hand = s
      BY <2>2 DEF Ack, Now, DataInv, ThreadStates
    <3> QED BY <1>1, <3>1 DEF Owed, At
  <2> QED BY <2>1, <2>2
<1>5. ASSUME NEW u \in Threads \ {t} PROVE Owed(u)' = {} /\ Sorted(threads[u].hand)'
  <2>1. threads'[u] = threads[u]
    BY DEF Release, Ack, Now, DataInv
  <2>2. threads[u] = Gone
    <3>1. slot = t
      BY DEF ThreadInv, OneThread, Release, Ack, At
    <3> QED BY <3>1 DEF ThreadInv, OneThread, At, HandInv, Fits
  <2> QED BY <2>1, <2>2, StartedFits, EmptyPlaces DEF Owed, At
<1>6. /\ UNCHANGED <<wire, carried, minted, queue>> /\ released' = Append(released, n)
  BY DEF Release, Ack, QuietVars, readerVars
<1>7. Given' = Given \cup {n} /\ InOrder'
  <2>1. /\ DOMAIN released' = 1 .. Len(released) + 1 /\ DOMAIN released = 1 .. Len(released)
        /\ released'[Len(released) + 1] = n /\ Len(released) \in Nat
        /\ \A i \in DOMAIN released : released'[i] = released[i]
    BY <1>1, <1>6, AppendPlaces
  <2>2. \A m \in Given : m < n
    BY <1>2, <1>3 DEF OrderInv, Below
  <2>3. Given' = Given \cup {n}
    BY <2>1 DEF Given
  <2>4. \A i \in DOMAIN released : released[i] < n
    BY <2>2 DEF Given
  <2>5. ASSUME NEW i \in DOMAIN released', NEW j \in DOMAIN released', i < j
        PROVE  released'[i] < released'[j]
    <3>1. i \in DOMAIN released /\ (j \in DOMAIN released \/ j = Len(released) + 1)
      BY <2>1, <2>5
    <3>2. CASE j \in DOMAIN released
      BY <2>1, <2>5, <3>1, <3>2 DEF OrderInv, InOrder
    <3>3. CASE j = Len(released) + 1
      BY <2>1, <2>4, <3>1, <3>3
    <3> QED BY <3>1, <3>2, <3>3
  <2> QED BY <2>3, <2>5 DEF InOrder
<1>8. /\ ToCome' = ToCome /\ BehindReader' = BehindReader /\ BehindSink' = BehindSink
      /\ BehindThread' = BehindThread /\ Carried' = Carried
      /\ Numbers(wire)' = Numbers(wire) /\ Sorted(wire)'
      /\ Numbers(queue)' = Numbers(queue) /\ Sorted(queue)'
  BY <1>6 DEF ToCome, BehindReader, BehindSink, BehindThread, Carried, OrderInv
<1>9. Below(Given', Owed(t)') /\ Below(Given', BehindThread')
      /\ Below(Owed(t)', BehindThread')
  BY <1>2, <1>3, <1>4, <1>7, <1>8 DEF OrderInv, Below
<1> QED BY <1>4, <1>5, <1>7, <1>8, <1>9 DEF OrderInv, Below

(* A thread that changes its place and gives up at most the head of its hand. *)
LEMMA PlaceOrder ==
    ASSUME DataInv, HandInv, OrderInv, NEW t \in Threads, NEW r, Turns(t, r),
           r.pc # "unregistering",
           \/ r.hand = threads[t].hand /\ ~At(t, "unregistering")
           \/ r.hand = <<>>
           \/ r.hand = Tail(threads[t].hand) /\ threads[t].hand # <<>>
    PROVE  \A u \in Threads : Sorted(threads[u].hand)' /\ Owed(u)' \subseteq Owed(u)
<1> DEFINE s == threads[t].hand
<1>1. threads'[t] = r /\ \A u \in Threads \ {t} : threads'[u] = threads[u]
  BY TurnData
<1>2. \A u \in Threads \ {t} : Sorted(threads[u].hand)' /\ Owed(u)' = Owed(u)
  BY <1>1 DEF OrderInv, Owed, At
<1>3. Owed(t)' = Numbers(r.hand)
  BY <1>1 DEF Owed, At
<1>4. s \in Seq(Items) /\ Sorted(s)
  BY DEF DataInv, ThreadStates, OrderInv
<1>5. CASE r.hand = s /\ ~At(t, "unregistering")
  BY <1>1, <1>2, <1>3, <1>4, <1>5 DEF Owed
<1>6. CASE r.hand = <<>>
  BY <1>1, <1>2, <1>3, <1>6, EmptyPlaces
<1>7. CASE r.hand = Tail(s) /\ s # <<>>
  <2>1. Numbers(Tail(s)) \subseteq Numbers(s) /\ Sorted(Tail(s))
    BY <1>4, <1>7, NumbersTail
  <2> QED BY <1>1, <1>2, <1>3, <1>7, <2>1 DEF Owed
<1> QED BY <1>5, <1>6, <1>7

LEMMA StepOrder ==
    ASSUME DataInv, HandInv, ThreadInv, OrderInv, NEW t \in Threads, ThreadStep(t)
    PROVE  OrderInv'
<1> DEFINE r == threads'[t]
           h == threads[t]
<1>1. Turns(t, r)
  BY StepTurns
<1>2. h \in ThreadStates /\ Fits(h)
  BY DEF DataInv, HandInv
<1>3. ASSUME UNCHANGED <<wire, carried, minted, released>>, Sorted(queue)',
             Numbers(queue)' \subseteq Numbers(queue), r.pc # "unregistering",
             \/ r.hand = h.hand /\ ~At(t, "unregistering")
             \/ r.hand = <<>>
             \/ r.hand = Tail(h.hand) /\ h.hand # <<>>
      PROVE  OrderInv'
  <2>1. \A u \in Threads : Sorted(threads[u].hand)' /\ Owed(u)' \subseteq Owed(u)
    BY <1>1, <1>3, PlaceOrder
  <2>2. Sorted(wire)' /\ Numbers(wire)' = Numbers(wire) /\ Carried' = Carried
    BY <1>3 DEF OrderInv, Carried
  <2> QED BY <1>3, <2>1, <2>2, NoFrameMoves
<1>4. Sorted(queue)
  BY DEF OrderInv
<1>5. ASSUME At(t, "live") \/ At(t, "fence")
      PROVE  h.hand = <<>> /\ Owed(t) = {}
  BY <1>2, <1>5, EmptyPlaces DEF Fits, Owed, At
<1>6. CASE TakeMarker(t)
  <2>1. r.hand = h.hand /\ r.pc # "unregistering"
    BY <1>2, <1>6, MarkersAreItems DEF TakeMarker, DataInv, ThreadStates, At
  <2> QED
    BY <1>1, <1>5, <1>6, <2>1, TakeOrder DEF TakeMarker, QuietVars, readerVars
<1>7. CASE TakeFrame(t)
  <2>1. r.hand = <<Head(queue)>> /\ r.pc # "unregistering"
    BY <1>7 DEF TakeFrame, DataInv, ThreadStates
  <2> QED
    BY <1>1, <1>5, <1>7, <2>1, TakeOrder DEF TakeFrame, QuietVars, readerVars
<1>8. CASE LookUp(t) \/ Deliver(t) \/ RunClosure(t) \/ BackToLive(t) \/ BatchDone(t)
  <2>1. r.hand = h.hand /\ r.pc # "unregistering" /\ ~At(t, "unregistering")
    BY <1>8 DEF LookUp, Deliver, RunClosure, BackToLive, BatchDone, Now, At, DataInv, ThreadStates
  <2>2. UNCHANGED <<wire, carried, minted, released, queue>>
    BY <1>8 DEF LookUp, Deliver, RunClosure, BackToLive, BatchDone, QuietVars, readerVars
  <2> QED BY <1>3, <1>4, <2>1, <2>2
<1>9. CASE Release(t) \/ Ack(t)
  BY <1>9, GiveBackOrder
<1>10. CASE Unregister(t)
  <2>1. h.hand # <<>>
    BY <1>2, <1>10 DEF Unregister, Fits, Busy, At
  <2>2. r = Back(t) /\ r.hand = Tail(h.hand) /\ r.pc # "unregistering"
    BY <1>10, <2>1, BackFits DEF Unregister, DataInv
  <2>3. Sorted(queue)' /\ Numbers(queue)' = Numbers(queue)
    BY <1>10, ReleaseSinkOrder DEF Unregister
  <2> QED BY <1>3, <1>10, <2>1, <2>2, <2>3 DEF Unregister, readerVars
<1>11. CASE TakeBatch(t)
  BY <1>11, TakeBatchOrder
<1>12. CASE Leave(t)
  <2>1. r.hand = <<>> /\ r.pc # "unregistering"
    BY <1>12, StartedFits DEF Leave, DataInv
  <2> QED BY <1>3, <1>4, <1>12, <2>1 DEF Leave, readerVars
<1>13. CASE HandleLeftover(t)
  <2>1. Back(t).hand = Tail(h.hand) /\ Back(t).pc = "batch" /\ Back(t) \in ThreadStates
    BY <1>13, BackFits DEF HandleLeftover
  <2>2. ~At(t, "unregistering") /\ h.hand # <<>>
        /\ UNCHANGED <<wire, carried, minted, released, queue>>
    BY <1>13 DEF HandleLeftover, At, QuietVars, readerVars
  <2>3. r.pc # "unregistering" /\ (r.hand = h.hand \/ r.hand = Tail(h.hand))
    BY <1>2, <1>13, <2>1 DEF HandleLeftover, DataInv, ThreadStates
  <2> QED BY <1>3, <1>4, <2>2, <2>3
<1>14. CASE Fence(t)
  <2> DEFINE item == Head(queue)
  <2>1. /\ r.pc # "unregistering"
        /\ r.hand = <<>> \/ (r.hand = <<item>> /\ IsFrame(item))
    <3>1. h.hand = <<>> /\ threads \in [Threads -> ThreadStates] /\ h.pc = "fence"
      BY <1>5, <1>14 DEF Fence, DataInv, At
    <3>2. CASE IsFence(t, item) \/ item = EndOfStream
      <4>1. item.kind \notin {"event", "$cleanup"}
        BY <3>2 DEF IsFence, EndOfStream
      <4>2. r = [h EXCEPT !.pc = "live", !.way = "live"]
        BY <1>14, <3>1, <3>2, <4>1 DEF Fence
      <4>3. r.pc = "live" /\ r.hand = h.hand
        BY <1>2, <4>2 DEF ThreadStates
      <4> QED BY <3>1, <4>3
    <3>3. CASE ~(IsFence(t, item) \/ item = EndOfStream) /\ IsFrame(item)
      BY <1>2, <1>14, <3>1, <3>3 DEF Fence, ThreadStates, IsFrame
    <3>4. CASE ~(IsFence(t, item) \/ item = EndOfStream) /\ ~IsFrame(item)
      <4>1. r = h
        BY <1>14, <3>1, <3>4 DEF Fence, IsFrame
      <4> QED BY <3>1, <4>1
    <3> QED BY <3>2, <3>3, <3>4
  <2>2. \/ queue' = Tail(queue)
        \/ item = EndOfStream /\ queue' = Append(Tail(queue), EndOfStream)
    BY <1>14 DEF Fence
  <2> QED
    BY <1>1, <1>5, <1>14, <2>1, <2>2, TakeOrder DEF Fence, QuietVars, readerVars
<1> QED
  BY <1>6, <1>7, <1>8, <1>9, <1>10, <1>11, <1>12, <1>13, <1>14 DEF ThreadStep

LEMMA NextOrder ==
    DataInv /\ HandInv /\ ThreadInv /\ OrderInv /\ [Next]_vars => OrderInv'
<1> SUFFICES ASSUME DataInv, HandInv, ThreadInv, OrderInv, [Next]_vars
             PROVE  OrderInv'
  OBVIOUS
<1> USE DEF readerVars
<1>1. ASSUME UNCHANGED <<released, minted, wire, carried>>, Sorted(queue)',
             Numbers(queue)' \subseteq Numbers(queue),
             \A t \in Threads : Sorted(threads[t].hand)' /\ Owed(t)' \subseteq Owed(t)
      PROVE  OrderInv'
  <2>1. Sorted(wire)' /\ Numbers(wire)' = Numbers(wire) /\ Carried' = Carried
    BY <1>1 DEF OrderInv, Carried
  <2> QED BY <1>1, <2>1, NoFrameMoves
<1>2. ASSUME UNCHANGED threads
      PROVE  \A t \in Threads : Sorted(threads[t].hand)' /\ Owed(t)' \subseteq Owed(t)
  BY <1>2 DEF OrderInv, Owed, At
<1>3. ASSUME Arm, UNCHANGED <<readerVars, released>> PROVE OrderInv'
  <2>1. \A t \in Threads : Sorted(threads[t].hand)' /\ Owed(t)' \subseteq Owed(t)
    BY <1>3, EnsureOwed DEF Arm
  <2> QED BY <1>1, <1>3, <2>1, ArmOrder
<1>4. ASSUME NEW h \in Handles, Detach(h) PROVE OrderInv'
  BY <1>1, <1>2, <1>4, ReleaseSinkOrder DEF Detach
<1>5. ASSUME NEW h \in Handles, SendEvent(h) PROVE OrderInv'
  <2>1. NewFrame(h, "event") \in Frames /\ NewFrame(h, "event").number = minted + 1
    BY DEF NewFrame, Frames, DataInv
  <2> QED BY <1>5, <2>1, SendOrder DEF SendEvent
<1>6. ASSUME NEW c \in Closures, AskCleanup(c) PROVE OrderInv'
  <2>1. NewFrame(c, "$cleanup") \in Frames /\ NewFrame(c, "$cleanup").number = minted + 1
    BY DEF NewFrame, Frames, DataInv
  <2> QED BY <1>6, <2>1, SendOrder DEF AskCleanup
<1>7. CASE Close
  BY <1>1, <1>2, <1>7 DEF Close, OrderInv
<1>8. CASE ReadEnd
  <2>1. UNCHANGED <<released, minted, queue, threads>> /\ wire' = <<>> /\ carried = None
        /\ (carried' = None \/ carried' = EndOfStream)
    BY <1>8 DEF ReadEnd
  <2>2. Carried' = {}
    BY <2>1, SinglePlaces, MarkersAreItems DEF Carried
  <2>3. Sorted(wire)' /\ Numbers(wire)' = {} /\ Sorted(queue)' /\ Numbers(queue)' = Numbers(queue)
    BY <2>1, EmptyPlaces DEF OrderInv
  <2> QED BY <1>2, <2>1, <2>2, <2>3, NoFrameMoves
<1>9. CASE TellClosed
  <2>1. /\ Sorted(queue)' /\ Numbers(queue)' \subseteq Numbers(queue)
        /\ \A t \in Threads : Sorted(threads[t].hand)' /\ Owed(t)' \subseteq Owed(t)
    BY <1>9, EnqueueOrder, MarkersAreItems DEF TellClosed
  <2> QED BY <1>1, <1>9, <2>1 DEF TellClosed
<1>10. CASE UNCHANGED vars
  BY <1>1, <1>2, <1>10 DEF vars, OrderInv
<1>11. ASSUME NEW h \in Handles, Attach(h) PROVE OrderInv'
  BY <1>3, <1>11 DEF Attach
<1>12. ASSUME NEW c \in Closures, RegisterCleanup(c) PROVE OrderInv'
  BY <1>3, <1>12 DEF RegisterCleanup
<1> QED
  BY <1>4, <1>5, <1>6, <1>7, <1>8, <1>9, <1>10, <1>11, <1>12,
     ReadOrder, CallSinkOrder, StepOrder DEF Next
-----------------------------------------------------------------------------
(* Every step keeps FenceInv.                                              *)

LEMMA GrowPlaces ==
    ASSUME queue \in Seq(Items), NEW x \in Items, queue' = Append(queue, x)
    PROVE  /\ DOMAIN queue = 1 .. Len(queue) /\ DOMAIN queue' = 1 .. Len(queue) + 1
           /\ Len(queue') = Len(queue) + 1 /\ Len(queue) \in Nat
           /\ \A i \in DOMAIN queue : queue'[i] = queue[i] /\ queue[i] \in Items
           /\ queue'[Len(queue) + 1] = x
           /\ \A i, j \in Nat : j <= Len(queue) + 1 => (NoIdle(queue', i, j) <=> NoIdle(queue, i, j))
           /\ \A i \in 0 .. Len(queue) :
                NoIdle(queue', i, Len(queue) + 2) <=> NoIdle(queue, i, Len(queue) + 1) /\ x # IDLE
<1>1. /\ DOMAIN queue = 1 .. Len(queue) /\ DOMAIN queue' = 1 .. Len(queue) + 1
      /\ Len(queue') = Len(queue) + 1 /\ Len(queue) \in Nat
      /\ \A i \in DOMAIN queue : queue'[i] = queue[i] /\ queue[i] \in Items
      /\ queue'[Len(queue) + 1] = x
  BY AppendPlaces
<1>2. \A i, j \in Nat : j <= Len(queue) + 1 => (NoIdle(queue', i, j) <=> NoIdle(queue, i, j))
  BY <1>1 DEF NoIdle
<1>3. \A i \in 0 .. Len(queue) :
         NoIdle(queue', i, Len(queue) + 2) <=> NoIdle(queue, i, Len(queue) + 1) /\ x # IDLE
  <2> SUFFICES ASSUME NEW i \in 0 .. Len(queue)
               PROVE  NoIdle(queue', i, Len(queue) + 2) <=> NoIdle(queue, i, Len(queue) + 1) /\ x # IDLE
    OBVIOUS
  <2>1. NoIdle(queue', i, Len(queue) + 2) => NoIdle(queue, i, Len(queue) + 1)
    BY <1>1 DEF NoIdle
  <2>2. NoIdle(queue', i, Len(queue) + 2) => x # IDLE
    BY <1>1 DEF NoIdle
  <2>3. NoIdle(queue, i, Len(queue) + 1) /\ x # IDLE => NoIdle(queue', i, Len(queue) + 2)
    BY <1>1 DEF NoIdle
  <2> QED BY <2>1, <2>2, <2>3
<1> QED BY <1>1, <1>2, <1>3

LEMMA TailNoIdle ==
    ASSUME queue \in Seq(Items), queue # <<>>, queue' = Tail(queue)
    PROVE  /\ \A i, j \in Nat : NoIdle(queue', i, j) <=> NoIdle(queue, i + 1, j + 1)
           /\ Head(queue) # IDLE => \A j \in Nat : NoIdle(queue, 1, j) => NoIdle(queue, 0, j)
           /\ Len(queue') = Len(queue) - 1 /\ Len(queue) \in Nat
<1>1. /\ DOMAIN Tail(queue) = 1 .. Len(queue) - 1 /\ DOMAIN queue = 1 .. Len(queue)
      /\ Len(queue') = Len(queue) - 1 /\ Len(queue) \in Nat
      /\ Head(queue) = queue[1]
      /\ \A i \in DOMAIN Tail(queue) : i + 1 \in DOMAIN queue /\ Tail(queue)[i] = queue[i + 1]
      /\ \A i \in DOMAIN queue : i > 1 => i - 1 \in DOMAIN Tail(queue) /\ Tail(queue)[i - 1] = queue[i]
  BY TailPlaces
<1>2. ASSUME NEW i \in Nat, NEW j \in Nat, NoIdle(queue', i, j), NEW k \in DOMAIN queue, i + 1 < k, k < j + 1
      PROVE  queue[k] # IDLE
  <2>1. k - 1 \in DOMAIN queue' /\ queue'[k - 1] = queue[k] /\ i < k - 1 /\ k - 1 < j
    BY <1>1, <1>2
  <2> QED BY <1>2, <2>1 DEF NoIdle
<1>3. ASSUME NEW i \in Nat, NEW j \in Nat, NoIdle(queue, i + 1, j + 1), NEW k \in DOMAIN queue', i < k, k < j
      PROVE  queue'[k] # IDLE
  <2>1. k + 1 \in DOMAIN queue /\ queue'[k] = queue[k + 1] /\ i + 1 < k + 1 /\ k + 1 < j + 1
    BY <1>1, <1>3
  <2> QED BY <1>3, <2>1 DEF NoIdle
<1>4. ASSUME Head(queue) # IDLE, NEW j \in Nat, NoIdle(queue, 1, j), NEW k \in DOMAIN queue, k < j
      PROVE  queue[k] # IDLE
  BY <1>1, <1>4 DEF NoIdle
<1> QED BY <1>1, <1>2, <1>3, <1>4 DEF NoIdle

(* A frame is queued, in the era of the sink that is up.                   *)
LEMMA FrameQueued ==
    ASSUME DataInv, QueueInv, NEW x \in Frames, queue' = Append(queue, x),
           x.era = IF sink THEN era ELSE 0, UNCHANGED <<sink, era>>
    PROVE  /\ QueueInv'
           /\ Noticed => Noticed'
           /\ \A e \in Nat : e <= era /\ Clean(e) /\ Noticed => Clean(e)'
           /\ \A e : Resumes(e) => Resumes(e)'
<1> DEFINE n == Len(queue)
<1>1. x \in Items /\ IsFrame(x) /\ x # IDLE /\ x.kind # "RESUME" /\ queue \in Seq(Items)
      /\ (\A e \in Nat : x # Resume(e)) /\ x.era \in Nat /\ era \in Nat /\ (sink => era > 0)
  BY DEF Items, Frames, IsFrame, IDLE, Resume, DataInv
<1>2. /\ DOMAIN queue = 1 .. n /\ DOMAIN queue' = 1 .. n + 1
      /\ Len(queue') = n + 1 /\ n \in Nat
      /\ \A i \in DOMAIN queue : queue'[i] = queue[i] /\ queue[i] \in Items
      /\ queue'[n + 1] = x
      /\ \A i, j \in Nat : j <= n + 1 => (NoIdle(queue', i, j) <=> NoIdle(queue, i, j))
      /\ \A i \in 0 .. n : NoIdle(queue', i, n + 2) <=> NoIdle(queue, i, n + 1)
  BY <1>1, GrowPlaces
<1>3. Noticed' <=> Noticed
  BY <1>2 DEF Noticed
<1>4. ASSUME NEW e \in Nat, e <= era, Clean(e), Noticed PROVE Clean(e)'
  <2> SUFFICES ASSUME NEW i \in 1 .. n + 1, IsFrame(queue'[i]), NoIdle(queue', 0, i)
               PROVE  queue'[i].era > 0 /\ queue'[i].era >= e
    BY <1>2 DEF Clean
  <2>1. NoIdle(queue, 0, i)
    BY <1>2
  <2>2. CASE i \in 1 .. n
    BY <1>2, <1>4, <2>1, <2>2 DEF Clean
  <2>3. CASE i = n + 1
    BY <1>1, <1>2, <1>4, <2>1, <2>3 DEF Noticed
  <2> QED BY <2>2, <2>3
<1>5. QueueInv'
  <2>1. ASSUME NEW j \in 1 .. n + 1, queue'[j].kind = "RESUME"
        PROVE  /\ queue'[j].era \in 1 .. era
               /\ NoIdle(queue', j, n + 2) => sink
               /\ \A i \in 1 .. n + 1 : j < i /\ IsFrame(queue'[i]) /\ NoIdle(queue', j, i)
                    => queue'[i].era >= queue'[j].era
    <3>1. j \in DOMAIN queue /\ queue[j].kind = "RESUME" /\ queue'[j] = queue[j]
      BY <1>1, <1>2, <2>1
    <3>2. queue'[j].era \in 1 .. era /\ (NoIdle(queue, j, n + 1) => sink)
      BY <3>1 DEF QueueInv
    <3>3. ASSUME NEW i \in 1 .. n + 1, j < i, IsFrame(queue'[i]), NoIdle(queue', j, i)
          PROVE  queue'[i].era >= queue'[j].era
      <4>1. NoIdle(queue, j, i)
        BY <1>2, <3>3
      <4>2. CASE i \in 1 .. n
        BY <1>2, <3>1, <3>3, <4>1, <4>2 DEF QueueInv
      <4>3. CASE i = n + 1
        BY <1>1, <1>2, <3>1, <3>2, <4>1, <4>3
      <4> QED BY <4>2, <4>3
    <3> QED BY <1>2, <3>1, <3>2, <3>3
  <2>2. ASSUME sink, NEW i \in 1 .. n + 1, queue'[i] = IDLE
        PROVE  \E j \in 1 .. n + 1 : i < j /\ queue'[j] = Resume(era)
    <3>1. i \in DOMAIN queue /\ queue[i] = IDLE
      BY <1>1, <1>2, <2>2
    <3>2. PICK j \in DOMAIN queue : i < j /\ queue[j] = Resume(era)
      BY <2>2, <3>1 DEF QueueInv
    <3> QED BY <1>2, <3>2
  <2> QED BY <1>2, <2>1, <2>2 DEF QueueInv
<1>6. \A e : Resumes(e) => Resumes(e)'
  BY <1>2 DEF Resumes
<1> QED BY <1>3, <1>4, <1>5, <1>6

(* The connection is retired.                                              *)
LEMMA IdleQueued ==
    ASSUME DataInv, QueueInv, queue' = Append(queue, IDLE), sink' = FALSE, era' = era
    PROVE  /\ QueueInv' /\ Noticed'
           /\ \A e : Clean(e) => Clean(e)'
           /\ \A e : Resumes(e) => Resumes(e)'
<1> DEFINE n == Len(queue)
<1>1. IDLE \in Items /\ ~IsFrame(IDLE) /\ IDLE.kind # "RESUME" /\ queue \in Seq(Items)
  BY MarkersAreItems DEF DataInv
<1>2. /\ DOMAIN queue = 1 .. n /\ DOMAIN queue' = 1 .. n + 1
      /\ Len(queue') = n + 1 /\ n \in Nat
      /\ \A i \in DOMAIN queue : queue'[i] = queue[i] /\ queue[i] \in Items
      /\ queue'[n + 1] = IDLE
      /\ \A i, j \in Nat : j <= n + 1 => (NoIdle(queue', i, j) <=> NoIdle(queue, i, j))
      /\ \A i \in 0 .. n : ~NoIdle(queue', i, n + 2)
  BY <1>1, GrowPlaces
<1>3. Noticed'
  BY <1>2 DEF Noticed
<1>4. ASSUME NEW e, Clean(e) PROVE Clean(e)'
  BY <1>1, <1>2, <1>4 DEF Clean
<1>5. QueueInv'
  <2>1. ASSUME NEW j \in 1 .. n + 1, queue'[j].kind = "RESUME"
        PROVE  /\ queue'[j].era \in 1 .. era
               /\ ~NoIdle(queue', j, n + 2)
               /\ \A i \in 1 .. n + 1 : j < i /\ IsFrame(queue'[i]) /\ NoIdle(queue', j, i)
                    => queue'[i].era >= queue'[j].era
    <3>1. j \in DOMAIN queue /\ queue[j].kind = "RESUME" /\ queue'[j] = queue[j]
      BY <1>1, <1>2, <2>1
    <3>2. ASSUME NEW i \in 1 .. n + 1, j < i, IsFrame(queue'[i]), NoIdle(queue', j, i)
          PROVE  queue'[i].era >= queue'[j].era
      <4>1. i \in 1 .. n /\ NoIdle(queue, j, i)
        BY <1>1, <1>2, <3>2
      <4> QED BY <1>2, <3>1, <3>2, <4>1 DEF QueueInv
    <3> QED BY <1>2, <3>1, <3>2 DEF QueueInv
  <2> QED BY <1>2, <2>1 DEF QueueInv
<1>6. \A e : Resumes(e) => Resumes(e)'
  BY <1>2 DEF Resumes
<1> QED BY <1>3, <1>4, <1>5, <1>6

(* It is armed again.                                                      *)
LEMMA ResumeQueued ==
    ASSUME DataInv, QueueInv, ~sink, queue' = Append(queue, Resume(era + 1)),
           sink' = TRUE, era' = era + 1
    PROVE  /\ QueueInv' /\ Noticed' /\ Resumes(era)'
           /\ \A e : Clean(e) => Clean(e)'
           /\ \A e : Resumes(e) => Resumes(e)'
<1> DEFINE n == Len(queue)
           x == Resume(era + 1)
<1>1. /\ x \in Items /\ ~IsFrame(x) /\ x # IDLE /\ queue \in Seq(Items) /\ era \in Nat
      /\ x.era = era + 1 /\ x.kind = "RESUME"
  BY MarkersAreItems DEF DataInv, Resume
<1>2. /\ DOMAIN queue = 1 .. n /\ DOMAIN queue' = 1 .. n + 1
      /\ Len(queue') = n + 1 /\ n \in Nat
      /\ \A i \in DOMAIN queue : queue'[i] = queue[i] /\ queue[i] \in Items
      /\ queue'[n + 1] = x
      /\ \A i, j \in Nat : j <= n + 1 => (NoIdle(queue', i, j) <=> NoIdle(queue, i, j))
  BY <1>1, GrowPlaces
<1>3. Noticed' /\ Resumes(era)'
  BY <1>2 DEF Noticed, Resumes
<1>4. ASSUME NEW e, Clean(e) PROVE Clean(e)'
  BY <1>1, <1>2, <1>4 DEF Clean
<1>5. QueueInv'
  <2>1. ASSUME NEW j \in 1 .. n + 1, queue'[j].kind = "RESUME"
        PROVE  /\ queue'[j].era \in 1 .. era + 1
               /\ \A i \in 1 .. n + 1 : j < i /\ IsFrame(queue'[i]) /\ NoIdle(queue', j, i)
                    => queue'[i].era >= queue'[j].era
    <3>1. CASE j = n + 1
      BY <1>1, <1>2, <3>1
    <3>2. CASE j \in 1 .. n
      <4>1. queue[j].kind = "RESUME" /\ queue'[j] = queue[j] /\ queue[j].era \in 1 .. era
        BY <1>2, <2>1, <3>2 DEF QueueInv
      <4>2. ASSUME NEW i \in 1 .. n + 1, j < i, IsFrame(queue'[i]), NoIdle(queue', j, i)
            PROVE  queue'[i].era >= queue'[j].era
        <5>1. i \in 1 .. n /\ NoIdle(queue, j, i)
          BY <1>1, <1>2, <4>2
        <5> QED BY <1>2, <3>2, <4>1, <4>2, <5>1 DEF QueueInv
      <4> QED BY <1>1, <4>1, <4>2
    <3> QED BY <3>1, <3>2
  <2>2. ASSUME NEW i \in 1 .. n + 1, queue'[i] = IDLE
        PROVE  \E j \in 1 .. n + 1 : i < j /\ queue'[j] = Resume(era + 1)
    BY <1>1, <1>2, <2>2
  <2> QED BY <1>2, <2>1, <2>2 DEF QueueInv
<1>6. \A e : Resumes(e) => Resumes(e)'
  BY <1>2 DEF Resumes
<1> QED BY <1>3, <1>4, <1>5, <1>6

(* The head of the queue is taken. *)
LEMMA HeadTaken ==
    ASSUME DataInv, QueueInv, queue # <<>>, queue' = Tail(queue), UNCHANGED <<sink, era>>
    PROVE  /\ QueueInv'
           /\ Head(queue) # IDLE /\ Noticed => Noticed'
           /\ \A e : Head(queue) # IDLE /\ Clean(e) => Clean(e)'
           /\ \A e : Resumes(e) /\ Head(queue) # Resume(e) => Resumes(e)'
           /\ Head(queue) = IDLE /\ sink => Resumes(era)'
           /\ \A e \in Nat : Head(queue) = Resume(e) => Clean(e)' /\ Noticed'
<1> DEFINE n == Len(queue)
<1>1. /\ DOMAIN queue' = 1 .. n - 1 /\ DOMAIN queue = 1 .. n /\ 1 \in DOMAIN queue
      /\ Len(queue') = n - 1 /\ n \in Nat /\ n >= 1
      /\ Head(queue) = queue[1]
      /\ \A i \in 1 .. n - 1 : i + 1 \in 1 .. n /\ queue'[i] = queue[i + 1]
      /\ \A i \in 1 .. n : i > 1 => i - 1 \in 1 .. n - 1 /\ queue'[i - 1] = queue[i]
  BY TailPlaces DEF DataInv
<1>2. /\ \A i, j \in Nat : NoIdle(queue', i, j) <=> NoIdle(queue, i + 1, j + 1)
      /\ Head(queue) # IDLE => \A j \in Nat : NoIdle(queue, 1, j) => NoIdle(queue, 0, j)
  BY TailNoIdle DEF DataInv
<1>3. ASSUME Head(queue) # IDLE, Noticed PROVE Noticed'
  BY <1>1, <1>2, <1>3 DEF Noticed
<1>4. ASSUME NEW e, Head(queue) # IDLE, Clean(e) PROVE Clean(e)'
  <2> SUFFICES ASSUME NEW i \in 1 .. n - 1, IsFrame(queue'[i]), NoIdle(queue', 0, i)
               PROVE  queue'[i].era > 0 /\ queue'[i].era >= e
    BY <1>1 DEF Clean
  <2>1. NoIdle(queue, 0, i + 1)
    BY <1>1, <1>2, <1>4
  <2> QED BY <1>1, <1>4, <2>1 DEF Clean
<1>5. ASSUME NEW e, Resumes(e), Head(queue) # Resume(e) PROVE Resumes(e)'
  <2>1. PICK j \in 1 .. n : queue[j] = Resume(e)
    BY <1>1, <1>5 DEF Resumes
  <2>2. j > 1
    BY <1>1, <1>5, <2>1
  <2>3. j - 1 \in 1 .. n - 1 /\ queue'[j - 1] = Resume(e)
    BY <1>1, <2>1, <2>2
  <2> QED BY <1>1, <2>3 DEF Resumes
<1>6. ASSUME Head(queue) = IDLE, sink PROVE Resumes(era)'
  <2>1. PICK j \in 1 .. n : 1 < j /\ queue[j] = Resume(era)
    BY <1>1, <1>6 DEF QueueInv
  <2>2. j - 1 \in 1 .. n - 1 /\ queue'[j - 1] = Resume(era)
    BY <1>1, <2>1
  <2> QED BY <1>1, <2>2 DEF Resumes
<1>7. ASSUME NEW e \in Nat, Head(queue) = Resume(e) PROVE Clean(e)' /\ Noticed'
  <2>1. /\ queue[1].kind = "RESUME" /\ queue[1].era = e /\ era \in Nat
    BY <1>1, <1>7 DEF Resume, DataInv
  <2>2. /\ e \in 1 .. era
        /\ NoIdle(queue, 1, n + 1) => sink
        /\ \A i \in 1 .. n : 1 < i /\ IsFrame(queue[i]) /\ NoIdle(queue, 1, i)
             => queue[i].era >= e
    BY <1>1, <2>1 DEF QueueInv
  <2>3. Noticed'
    BY <1>1, <1>2, <2>2 DEF Noticed
  <2>4. ASSUME NEW i \in 1 .. n - 1, IsFrame(queue'[i]), NoIdle(queue', 0, i)
        PROVE  queue'[i].era > 0 /\ queue'[i].era >= e
    <3>1. NoIdle(queue, 1, i + 1) /\ i + 1 \in 1 .. n /\ queue'[i] = queue[i + 1]
      BY <1>1, <1>2, <2>4
    <3>2. queue[i + 1].era \in Nat /\ queue[i + 1].era >= e
      <4>1. queue[i + 1] \in Items
        BY <1>1, <3>1 DEF DataInv
      <4> QED BY <2>2, <2>4, <3>1, <4>1, ItemKinds
    <3> QED BY <2>2, <3>1, <3>2
  <2> QED BY <1>1, <2>3, <2>4 DEF Clean
<1>8. QueueInv'
  <2>1. ASSUME NEW j \in 1 .. n - 1, queue'[j].kind = "RESUME"
        PROVE  /\ queue'[j].era \in 1 .. era
               /\ NoIdle(queue', j, n) => sink
               /\ \A i \in 1 .. n - 1 : j < i /\ IsFrame(queue'[i]) /\ NoIdle(queue', j, i)
                    => queue'[i].era >= queue'[j].era
    <3>1. j + 1 \in 1 .. n /\ queue'[j] = queue[j + 1] /\ queue[j + 1].kind = "RESUME"
      BY <1>1, <2>1
    <3>2. queue'[j].era \in 1 .. era /\ (NoIdle(queue, j + 1, n + 1) => sink)
      BY <1>1, <3>1 DEF QueueInv
    <3>3. ASSUME NEW i \in 1 .. n - 1, j < i, IsFrame(queue'[i]), NoIdle(queue', j, i)
          PROVE  queue'[i].era >= queue'[j].era
      <4>1. /\ i + 1 \in 1 .. n /\ queue'[i] = queue[i + 1] /\ j + 1 < i + 1
            /\ NoIdle(queue, j + 1, i + 1)
        BY <1>1, <1>2, <3>3
      <4> QED BY <1>1, <3>1, <3>3, <4>1 DEF QueueInv
    <3> QED BY <1>1, <1>2, <3>2, <3>3
  <2>2. ASSUME sink, NEW i \in 1 .. n - 1, queue'[i] = IDLE
        PROVE  \E j \in 1 .. n - 1 : i < j /\ queue'[j] = Resume(era)
    <3>1. i + 1 \in 1 .. n /\ queue[i + 1] = IDLE
      BY <1>1, <2>2
    <3>2. PICK j \in 1 .. n : i + 1 < j /\ queue[j] = Resume(era)
      BY <1>1, <2>2, <3>1 DEF QueueInv
    <3>3. j - 1 \in 1 .. n - 1 /\ i < j - 1 /\ queue'[j - 1] = Resume(era)
      BY <1>1, <3>2
    <3> QED BY <3>3
  <2>3. Len(queue') + 1 = n
    BY <1>1
  <2> QED BY <1>1, <2>1, <2>2, <2>3 DEF QueueInv
<1> QED BY <1>3, <1>4, <1>5, <1>6, <1>7, <1>8

LEMMA QueueEmptied == ASSUME queue' = <<>>, ~sink' PROVE QueueInv'
  BY EmptyPlaces DEF QueueInv

(* The frame that starts a thread on a retired connection. *)
LEMMA StrayQueued ==
    ASSUME DataInv, queue = <<>>, ~sink, UNCHANGED <<sink, era>>,
           NEW x \in Frames, queue' = Append(Append(queue, IDLE), x)
    PROVE  QueueInv' /\ Clean(0)' /\ Noticed'
<1>1. /\ DOMAIN queue' = 1 .. 2 /\ Len(queue') = 2
      /\ queue'[1] = IDLE /\ queue'[2] = x
  <2>1. Append(queue, IDLE) \in Seq(Items) /\ x \in Items
    BY MarkersAreItems, AppendPlaces DEF DataInv, Items
  <2>2. Len(queue) = 0 /\ Len(Append(queue, IDLE)) = 1 /\ Append(queue, IDLE)[1] = IDLE
        /\ DOMAIN Append(queue, IDLE) = 1 .. 1
    BY MarkersAreItems, AppendPlaces DEF DataInv
  <2>3. /\ Len(queue') = 2 /\ DOMAIN queue' = 1 .. 2 /\ queue'[2] = x
        /\ queue'[1] = Append(queue, IDLE)[1]
    BY <2>1, <2>2, AppendPlaces
  <2> QED BY <2>2, <2>3
<1>2. x.kind # "RESUME" /\ IDLE.kind # "RESUME" /\ ~IsFrame(IDLE)
  BY MarkersAreItems DEF Frames
<1>3. ~NoIdle(queue', 0, 2) /\ ~NoIdle(queue', 0, 3)
  BY <1>1 DEF NoIdle
<1>4. \A i \in 1 .. 2 : i = 1 \/ i = 2
  OBVIOUS
<1>5. Clean(0)'
  BY <1>1, <1>2, <1>3, <1>4 DEF Clean
<1>6. Noticed'
  BY <1>1, <1>3 DEF Noticed
<1>7. QueueInv'
  BY <1>1, <1>2, <1>4 DEF QueueInv
<1> QED BY <1>5, <1>6, <1>7

LEMMA NoEndPlaces ==
    /\ NoEndIn(<<>>)
    /\ \A x : x # EndOfStream => NoEndIn(<<x>>)
    /\ \A s \in Seq(Items), x \in Items :
         NoEndIn(s) /\ x # EndOfStream => NoEndIn(Append(s, x))
    /\ \A s \in Seq(Items) : s # <<>> /\ NoEndIn(s) => NoEndIn(Tail(s)) /\ Head(s) # EndOfStream
<1>1. NoEndIn(<<>>) /\ \A x : x # EndOfStream => NoEndIn(<<x>>)
  BY EmptyPlaces, SinglePlaces DEF NoEndIn
<1>2. ASSUME NEW s \in Seq(Items), NEW x \in Items, NoEndIn(s), x # EndOfStream
      PROVE  NoEndIn(Append(s, x))
  BY <1>2, AppendPlaces DEF NoEndIn
<1>3. ASSUME NEW s \in Seq(Items), s # <<>>, NoEndIn(s)
      PROVE  NoEndIn(Tail(s)) /\ Head(s) # EndOfStream
  BY <1>3, TailPlaces DEF NoEndIn
<1> QED BY <1>1, <1>2, <1>3

LEMMA InitFence == Init => FenceInv
<1> SUFFICES ASSUME Init PROVE OpenInv
  BY DEF FenceInv
<1>1. NoEnd
  BY StartedFits, NoEndPlaces DEF Init, NoEnd
<1>2. QueueInv /\ EraInv
  BY EmptyPlaces, StartedFits DEF Init, QueueInv, EraInv, At
<1> QED BY <1>1, <1>2 DEF OpenInv

(* A change of the queue by which every reader goes on as it would. *)
ReadsStay == \A r \in ThreadStates : r.until <= era /\ ReadsOn(r) => ReadsOn(r)'

(* Nobody's place changes. *)
LEMMA PlacesStay ==
    ASSUME DataInv, EraInv, UNCHANGED threads, era' \in Nat, era <= era', ReadsStay
    PROVE  EraInv'
<1> SUFFICES ASSUME NEW t \in Threads, ~At(t, "gone")'
             PROVE  /\ threads'[t].until <= era'
                    /\ ReadsOn(threads[t])'
                    /\ threads'[t].pc \in {"routing", "calling"} =>
                         Item(t)'.era > 0 /\ Item(t)'.era >= threads'[t].until
  BY DEF EraInv
<1>1. /\ threads'[t] = threads[t] /\ threads[t] \in ThreadStates /\ ~At(t, "gone")
      /\ Item(t)' = Item(t) /\ threads[t].until \in Nat /\ era \in Nat
  BY DEF DataInv, ThreadStates, At, Item
<1>2. /\ threads[t].until <= era /\ ReadsOn(threads[t])
      /\ threads[t].pc \in {"routing", "calling"} =>
                         Item(t).era > 0 /\ Item(t).era >= threads[t].until
  BY <1>1 DEF EraInv
<1>3. ReadsOn(threads[t])'
  BY <1>1, <1>2 DEF ReadsStay
<1> QED BY <1>1, <1>2, <1>3

(* One thread turns into r: the others are gone. *)
LEMMA OneTurn ==
    ASSUME DataInv, HandInv, ThreadInv, NEW t \in Threads, NEW r, Turns(t, r),
           slot \in {t, None},
           r.pc # "gone" =>
              /\ r.until <= era'
              /\ ReadsOn(r)'
              /\ r.pc \in {"routing", "calling"} =>
                   Head(r.hand).era > 0 /\ Head(r.hand).era >= r.until
    PROVE  EraInv'
<1>1. threads'[t] = r /\ \A u \in Threads \ {t} : threads'[u] = threads[u]
  BY TurnData
<1>2. \A u \in Threads \ {t} : At(u, "gone")'
  BY <1>1, NoneAssumption DEF ThreadInv, OneThread, At
<1>3. CASE r.pc = "gone"
  BY <1>1, <1>2, <1>3 DEF EraInv, At
<1>4. CASE r.pc # "gone"
  <2>1. ReadsOn(threads[t])'
    BY <1>1, <1>4
  <2> QED BY <1>1, <1>2, <1>4, <2>1 DEF EraInv, At, Item
<1> QED BY <1>3, <1>4

(* The step of the running thread. *)
LEMMA RunnerTurn ==
    ASSUME DataInv, HandInv, ThreadInv, EraInv, NEW t \in Threads, ~At(t, "gone")
    PROVE  /\ slot = t
           /\ threads[t].until <= era /\ ReadsOn(threads[t])
           /\ threads[t].pc \in {"routing", "calling"} =>
                Item(t).era > 0 /\ Item(t).era >= threads[t].until
  BY DEF ThreadInv, OneThread, EraInv

LEMMA NoEndTurn ==
    ASSUME DataInv, HandInv, NoEnd, NEW t \in Threads, NEW r, Turns(t, r),
           carried' = None \/ carried' # EndOfStream, NoEndIn(queue'), r.way # "end", NoEndIn(r.hand)
    PROVE  NoEnd'
<1>1. threads'[t] = r /\ \A u \in Threads \ {t} : threads'[u] = threads[u]
  BY TurnData
<1> QED BY <1>1 DEF NoEnd

LEMMA ArmOpen ==
    ASSUME DataInv, HandInv, ThreadInv, OpenInv, ~closed, Arm, UNCHANGED carried
    PROVE  OpenInv'
<1>1. /\ Resume(era + 1) \in Items /\ Resume(era + 1) # EndOfStream
      /\ queue \in Seq(Items) /\ era \in Nat
  BY MarkersAreItems DEF DataInv
<1>2. NoEnd /\ QueueInv /\ EraInv
  BY DEF OpenInv
<1>3. CASE sink
  <2>1. UNCHANGED <<sink, era, queue>>
    BY <1>3, ArmGrows
  <2>2. UNCHANGED <<slot, threads>>
    BY <1>3, EnsureTurns DEF Arm, ThreadInv, NothingStranded
  <2>3. QueueInv'
    BY <1>2, <2>1 DEF QueueInv
  <2>4. ReadsStay
    BY <2>1 DEF ReadsStay, ReadsOn, Clean, Noticed, Resumes
  <2>5. NoEnd' /\ EraInv'
    BY <1>1, <1>2, <2>1, <2>2, <2>4, PlacesStay DEF NoEnd
  <2> QED BY <2>3, <2>5 DEF OpenInv
<1>4. CASE ~sink
  <2>1. sink' = TRUE /\ era' = era + 1 /\ queue' = Append(queue, Resume(era + 1))
    BY <1>4, ArmGrows
  <2>2. /\ QueueInv' /\ Noticed' /\ Resumes(era)'
        /\ \A e : Clean(e) => Clean(e)'
        /\ \A e : Resumes(e) => Resumes(e)'
    BY <1>2, <1>4, <2>1, ResumeQueued
  <2>3. NoEndIn(queue')
    BY <1>1, <1>2, <2>1, NoEndPlaces DEF NoEnd
  <2>4. CASE UNCHANGED threads
    <3>1. ReadsStay
      BY <2>2 DEF ReadsStay, ReadsOn
    <3>2. EraInv'
      BY <1>1, <1>2, <2>1, <2>4, <3>1, PlacesStay
    <3>3. NoEnd'
      BY <1>2, <2>3, <2>4 DEF NoEnd
    <3> QED BY <2>2, <3>2, <3>3 DEF OpenInv
  <2>5. ASSUME slot = None, NEW t \in Threads, Turns(t, Started)
        PROVE  OpenInv'
    <3>1. Clean(0)
      BY <2>5, EmptyPlaces DEF ThreadInv, NothingStranded, Clean
    <3>2. ReadsOn(Started)'
      BY <2>2, <3>1, StartedFits DEF ReadsOn
    <3>3. EraInv'
      BY <1>1, <2>1, <2>5, <3>2, OneTurn, StartedFits
    <3>4. NoEnd'
      BY <1>2, <2>3, <2>5, StartedFits, NoEndPlaces, NoEndTurn DEF NoEnd
    <3> QED BY <2>2, <3>3, <3>4 DEF OpenInv
  <2> QED BY <2>4, <2>5, EnsureTurns DEF Arm
<1> QED BY <1>3, <1>4

(* A thread in its place while the sink may go: detach, unregister_cleanup. *)
LEMMA ReleaseSinkReads ==
    ASSUME DataInv, QueueInv, NoEndIn(queue), ReleaseSinkIfIdle
    PROVE  /\ QueueInv' /\ era' = era /\ NoEndIn(queue')
           /\ ReadsStay
<1>1. CASE UNCHANGED <<sink, era, queue>>
  BY <1>1 DEF QueueInv, NoEndIn, ReadsStay, ReadsOn, Clean, Noticed, Resumes
<1>2. CASE sink /\ sink' = FALSE /\ era' = era /\ queue' = Append(queue, IDLE)
  <2>1. /\ QueueInv' /\ Noticed'
        /\ \A e : Clean(e) => Clean(e)'
        /\ \A e : Resumes(e) => Resumes(e)'
    BY <1>2, IdleQueued
  <2>2. NoEndIn(queue')
    BY <1>2, MarkersAreItems, NoEndPlaces DEF DataInv
  <2>3. ReadsStay
    BY <1>2, <2>1 DEF ReadsStay, ReadsOn
  <2> QED BY <1>2, <2>1, <2>2, <2>3
<1> QED BY <1>1, <1>2, ReleaseSinkGrows

LEMMA DetachOpen ==
    ASSUME DataInv, HandInv, ThreadInv, OpenInv, NEW h \in Handles, Detach(h)
    PROVE  OpenInv'
<1>1. NoEnd /\ QueueInv /\ EraInv /\ NoEndIn(queue)
  BY DEF OpenInv, NoEnd
<1>2. QueueInv' /\ era' = era /\ NoEndIn(queue') /\ ReadsStay
  BY <1>1, ReleaseSinkReads DEF Detach
<1>3. UNCHANGED <<threads, carried>> /\ era \in Nat
  BY DEF Detach, readerVars, DataInv
<1>4. EraInv'
  BY <1>1, <1>2, <1>3, PlacesStay
<1>5. NoEnd'
  BY <1>1, <1>2, <1>3 DEF NoEnd
<1> QED BY <1>2, <1>4, <1>5 DEF OpenInv

LEMMA CallSinkOpen ==
    ASSUME DataInv, HandInv, ThreadInv, OpenInv, CallSink
    PROVE  OpenInv'
<1> DEFINE x == Stamped(carried)
<1>1. NoEnd /\ QueueInv /\ EraInv /\ NoEndIn(queue) /\ queue \in Seq(Items) /\ era \in Nat
  BY DEF OpenInv, NoEnd, DataInv
<1>2. carried \in Frames /\ carried' = None /\ UNCHANGED <<sink, era>> /\ Enqueue(carried)
  BY <1>1 DEF CallSink, DataInv, NoEnd, sinkVars
<1>3. x \in Frames /\ x \in Items /\ x.era = (IF sink THEN era ELSE 0) /\ x # EndOfStream
  <2>1. IsFrame(carried)
    BY <1>2 DEF Frames, IsFrame
  <2> QED BY <1>2, <2>1, StampedItem, ItemKinds
<1>4. NoEndIn(queue')
  <2>1. NoEndIn(Append(queue, x)) /\ NoEndIn(Append(Append(queue, IDLE), x))
    BY <1>1, <1>3, MarkersAreItems, NoEndPlaces, AppendPlaces
  <2> QED BY <1>1, <1>2, <2>1, EnqueueGrows
<1>5. CASE slot # None
  <2>1. UNCHANGED <<slot, threads>>
    BY <1>2, <1>5, EnqueueGrows, EnsureTurns
  <2>2. CASE UNCHANGED queue
    <3>1. QueueInv' /\ ReadsStay
      BY <1>1, <1>2, <2>2 DEF QueueInv, ReadsStay, ReadsOn, Clean, Noticed, Resumes
    <3>2. EraInv' /\ NoEnd'
      BY <1>1, <1>2, <1>4, <2>1, <3>1, PlacesStay DEF NoEnd
    <3> QED BY <3>1, <3>2 DEF OpenInv
  <2>3. CASE queue' = Append(queue, x)
    <3>1. /\ QueueInv'
          /\ Noticed => Noticed'
          /\ \A e \in Nat : e <= era /\ Clean(e) /\ Noticed => Clean(e)'
          /\ \A e : Resumes(e) => Resumes(e)'
      BY <1>1, <1>2, <1>3, <2>3, FrameQueued
    <3>2. ReadsStay
      BY <1>2, <3>1 DEF ReadsStay, ReadsOn, ThreadStates
    <3>3. EraInv' /\ NoEnd'
      BY <1>1, <1>2, <1>4, <2>1, <3>2, PlacesStay DEF NoEnd
    <3> QED BY <3>1, <3>3 DEF OpenInv
  <2> QED BY <1>2, <1>5, <2>2, <2>3, EnqueueGrows
<1>6. CASE slot = None
  <2>1. queue = <<>> /\ ~sink
    BY <1>6 DEF ThreadInv, NothingStranded
  <2>2. EnsureThread /\ queue' = Append(Append(queue, IDLE), x)
    <3>1. carried # EndOfStream
      BY <1>2, MarkersAreItems, ItemKinds DEF Items
    <3>2. EnsureThread
      BY <1>2, <3>1 DEF Enqueue
    <3>3. slot' # None
      BY <1>6, <3>2, EnsureTurns, NoneAssumption
    <3> QED BY <1>2, <1>6, <2>1, <3>2, <3>3, EnqueueGrows
  <2>3. PICK t \in Threads : Turns(t, Started)
    BY <1>6, <2>2, EnsureTurns
  <2>4. QueueInv' /\ Clean(0)' /\ Noticed'
    BY <1>2, <1>3, <2>1, <2>2, StrayQueued
  <2>5. ReadsOn(Started)'
    BY <2>4, StartedFits DEF ReadsOn
  <2>6. EraInv' /\ NoEnd'
    BY <1>1, <1>2, <1>4, <1>6, <2>3, <2>5, OneTurn, NoEndTurn, StartedFits, NoEndPlaces
  <2> QED BY <2>4, <2>6 DEF OpenInv
<1> QED BY <1>5, <1>6

(* The thread's step, when the queue is left alone. *)
LEMMA StillOpen ==
    ASSUME DataInv, HandInv, ThreadInv, OpenInv, NEW t \in Threads, ~At(t, "gone"),
           NEW r, Turns(t, r), UNCHANGED <<queue, sink, era, carried>>,
           r.way # "end", NoEndIn(r.hand), r.until <= era, ReadsOn(r),
           r.pc \in {"routing", "calling"} =>
              Head(r.hand).era > 0 /\ Head(r.hand).era >= r.until
    PROVE  OpenInv'
<1>1. NoEnd /\ QueueInv /\ EraInv /\ slot = t
  BY RunnerTurn DEF OpenInv
<1>2. QueueInv'
  BY <1>1 DEF QueueInv
<1>3. ReadsOn(r)'
  BY DEF ReadsOn, Clean, Noticed, Resumes
<1>4. EraInv' /\ NoEnd'
  BY <1>1, <1>3, OneTurn, NoEndTurn DEF NoEnd
<1> QED BY <1>2, <1>4 DEF OpenInv

(* The thread's step, when it takes the head of the queue. *)
LEMMA TakeOpen ==
    ASSUME DataInv, HandInv, ThreadInv, OpenInv, NEW t \in Threads, ~At(t, "gone"),
           queue # <<>>, queue' = Tail(queue), UNCHANGED <<sink, era, carried>>,
           NEW r, Turns(t, r), r.way # "end", NoEndIn(r.hand), r.until <= era, ReadsOn(r)',
           r.pc \in {"routing", "calling"} =>
              Head(r.hand).era > 0 /\ Head(r.hand).era >= r.until
    PROVE  OpenInv'
<1>1. NoEnd /\ QueueInv /\ EraInv /\ slot = t
  BY RunnerTurn DEF OpenInv
<1>2. QueueInv'
  BY <1>1, HeadTaken
<1>3. NoEndIn(queue')
  BY <1>1, NoEndPlaces DEF NoEnd, DataInv
<1>4. EraInv' /\ NoEnd'
  BY <1>1, <1>3, OneTurn, NoEndTurn DEF NoEnd
<1> QED BY <1>2, <1>4 DEF OpenInv

LEMMA StepOpen ==
    ASSUME DataInv, HandInv, ThreadInv, OpenInv, NEW t \in Threads, ThreadStep(t)
    PROVE  OpenInv'
<1> DEFINE h == threads[t]
           item == Head(queue)
<1>1. /\ h \in ThreadStates /\ Fits(h) /\ threads \in [Threads -> ThreadStates]
      /\ NoEnd /\ QueueInv /\ EraInv /\ h.way # "end" /\ NoEndIn(h.hand) /\ NoEndIn(queue)
      /\ queue \in Seq(Items) /\ era \in Nat /\ h.until \in Nat /\ h.hand \in Seq(Items)
  BY DEF DataInv, HandInv, OpenInv, NoEnd, ThreadStates
<1>2. ~At(t, "gone")
  BY DEF ThreadStep, TakeMarker, TakeFrame, LookUp, Deliver, Release, RunClosure,
      Ack, Unregister, BackToLive, TakeBatch, Leave, HandleLeftover, BatchDone, Fence, At
<1>3. /\ slot = t /\ h.until <= era /\ ReadsOn(h)
      /\ h.pc \in {"routing", "calling"} => Head(h.hand).era > 0 /\ Head(h.hand).era >= h.until
  BY <1>1, <1>2, RunnerTurn DEF Item
<1>4. PICK r : r = threads'[t] /\ Turns(t, r)
  BY StepTurns
<1>5. /\ queue # <<>> => item \in Items /\ item # EndOfStream
      /\ h.hand # <<>> => NoEndIn(Tail(h.hand)) /\ Item(t) # EndOfStream
  BY <1>1, NoEndPlaces, TailPlaces DEF Item
<1>6. CASE TakeMarker(t)
  <2>1. /\ queue # <<>> /\ queue' = Tail(queue) /\ UNCHANGED <<sink, era, carried>>
        /\ h.way = "live" /\ h.pc = "live" /\ h.hand = <<>>
    BY <1>1, <1>6 DEF TakeMarker, QuietVars, sinkVars, readerVars, Fits, At
  <2>2. CASE item = IDLE
    <3>1. r = [h EXCEPT !.pc = "emptying", !.way = "drain"]
      BY <1>1, <1>4, <1>6, <2>2, MarkersAreItems DEF TakeMarker
    <3>2. r.way = "drain" /\ r.pc = "emptying" /\ r.hand = <<>> /\ r.until = h.until
      BY <1>1, <2>1, <3>1 DEF ThreadStates
    <3>3. sink => Resumes(era)'
      BY <1>1, <2>1, <2>2, HeadTaken
    <3>4. ReadsOn(r)'
      BY <2>1, <3>2, <3>3 DEF ReadsOn
    <3> QED BY <1>1, <1>2, <1>3, <1>4, <2>1, <3>2, <3>4, TakeOpen
  <2>3. CASE item # IDLE
    <3>1. r = h
      BY <1>1, <1>4, <1>5, <1>6, <2>1, <2>3 DEF TakeMarker
    <3>2. Clean(r.until)' /\ Noticed'
      BY <1>1, <1>3, <2>1, <2>3, <3>1, HeadTaken DEF ReadsOn
    <3>3. ReadsOn(r)'
      BY <2>1, <3>1, <3>2 DEF ReadsOn
    <3> QED BY <1>1, <1>2, <1>3, <1>4, <2>1, <3>1, <3>3, TakeOpen
  <2> QED BY <2>2, <2>3
<1>7. CASE TakeFrame(t)
  <2>1. /\ queue # <<>> /\ queue' = Tail(queue) /\ UNCHANGED <<sink, era, carried>>
        /\ h.way = "live" /\ h.pc = "live" /\ IsFrame(item)
    BY <1>1, <1>7 DEF TakeFrame, QuietVars, sinkVars, readerVars, Fits, At
  <2>2. /\ r.hand = <<item>> /\ r.way = "live" /\ r.until = h.until
    BY <1>1, <1>4, <1>7, <2>1 DEF TakeFrame, ThreadStates
  <2>3. item # IDLE
    BY <2>1, MarkersAreItems
  <2>4. Clean(r.until)' /\ Noticed'
    BY <1>1, <1>3, <2>1, <2>2, <2>3, HeadTaken DEF ReadsOn
  <2>5. ReadsOn(r)'
    BY <2>2, <2>4 DEF ReadsOn
  <2>6. item.era > 0 /\ item.era >= h.until
    <3>1. 1 \in DOMAIN queue /\ item = queue[1] /\ NoIdle(queue, 0, 1)
      BY <1>1, <2>1, TailPlaces DEF NoIdle
    <3> QED BY <1>3, <2>1, <3>1 DEF ReadsOn, Clean
  <2>7. Head(r.hand) = item /\ NoEndIn(r.hand)
    BY <1>5, <2>1, <2>2, SinglePlaces, NoEndPlaces
  <2> QED BY <1>1, <1>2, <1>3, <1>4, <2>1, <2>2, <2>5, <2>6, <2>7, TakeOpen
<1>8. CASE LookUp(t) \/ Deliver(t) \/ RunClosure(t) \/ Ack(t) \/ BatchDone(t)
  <2>1. /\ r.hand = h.hand /\ r.way = h.way /\ r.until = h.until
        /\ r.pc \in {"routing", "calling"} => h.pc \in {"routing", "calling"}
    BY <1>1, <1>4, <1>8 DEF LookUp, Deliver, RunClosure, Ack, BatchDone, Now, At, ThreadStates
  <2>2. UNCHANGED <<queue, sink, era, carried>>
    BY <1>8 DEF LookUp, Deliver, RunClosure, Ack, BatchDone, QuietVars, sinkVars, readerVars
  <2>3. ReadsOn(r)
    BY <1>3, <2>1 DEF ReadsOn
  <2> QED BY <1>1, <1>2, <1>3, <1>4, <2>1, <2>2, <2>3, StillOpen
<1>9. ASSUME h.hand # <<>>, r = Back(t), At(t, "releasing") \/ At(t, "unregistering") \/ At(t, "batch")
      PROVE  /\ r.way = h.way /\ r.until = h.until /\ NoEndIn(r.hand)
             /\ r.pc \notin {"routing", "calling"}
  BY <1>5, <1>9, BackFits
<1>10. CASE Release(t)
  <2>1. h.hand # <<>> /\ r = Back(t) /\ At(t, "releasing")
        /\ UNCHANGED <<queue, sink, era, carried>>
    BY <1>1, <1>4, <1>10 DEF Release, QuietVars, sinkVars, readerVars, Fits, Busy, At
  <2>2. ReadsOn(r)
    BY <1>3, <1>9, <2>1 DEF ReadsOn
  <2> QED BY <1>1, <1>2, <1>3, <1>4, <1>9, <2>1, <2>2, StillOpen
<1>11. CASE Unregister(t)
  <2>1. h.hand # <<>> /\ r = Back(t) /\ At(t, "unregistering") /\ carried' = carried
    BY <1>1, <1>4, <1>11 DEF Unregister, readerVars, Fits, Busy, At
  <2>2. QueueInv' /\ era' = era /\ NoEndIn(queue') /\ ReadsStay
    BY <1>1, <1>11, ReleaseSinkReads DEF Unregister
  <2>3. ReadsOn(r)'
    <3>1. ReadsOn(r) /\ r \in ThreadStates /\ r.until <= era
      BY <1>3, <1>4, <1>9, <2>1 DEF ReadsOn, Turns
    <3> QED BY <2>2, <3>1 DEF ReadsStay
  <2>4. EraInv' /\ NoEnd'
    BY <1>1, <1>3, <1>4, <1>9, <2>1, <2>2, <2>3, OneTurn, NoEndTurn DEF NoEnd
  <2> QED BY <2>2, <2>4 DEF OpenInv
<1>12. CASE BackToLive(t)
  <2>1. /\ r = [h EXCEPT !.pc = "fence", !.way = "fence", !.until = era]
        /\ h.way = "drain" /\ UNCHANGED <<queue, sink, era, carried>>
    BY <1>1, <1>4, <1>12 DEF BackToLive, QuietVars, sinkVars, readerVars
  <2>2. r.pc = "fence" /\ r.way = "fence" /\ r.until = era /\ r.hand = h.hand
    BY <1>1, <2>1 DEF ThreadStates
  <2>3. ReadsOn(r) /\ r.until <= era
    BY <1>1, <1>3, <1>12, <2>1, <2>2 DEF ReadsOn, BackToLive
  <2> QED BY <1>1, <1>2, <1>4, <2>1, <2>2, <2>3, StillOpen
<1>13. CASE TakeBatch(t)
  <2>1. /\ r.pc = "batch" /\ r.hand = queue /\ r.way = h.way /\ r.until = h.until
        /\ h.way \in {"drain", "end"} /\ ~sink /\ queue' = <<>>
        /\ UNCHANGED <<sink, era, carried>>
    BY <1>1, <1>4, <1>13 DEF TakeBatch, QuietVars, sinkVars, readerVars, ThreadStates, Fits, At
  <2>2. ReadsOn(r)'
    BY <1>1, <2>1 DEF ReadsOn
  <2>3. QueueInv' /\ NoEndIn(queue')
    BY <2>1, QueueEmptied, NoEndPlaces
  <2>4. EraInv' /\ NoEnd'
    BY <1>1, <1>3, <1>4, <2>1, <2>2, <2>3, OneTurn, NoEndTurn DEF NoEnd
  <2> QED BY <2>3, <2>4 DEF OpenInv
<1>14. CASE Leave(t)
  <2>1. r = Gone /\ queue' = <<>> /\ ~sink' /\ carried' = carried
    BY <1>1, <1>4, <1>14 DEF Leave, readerVars
  <2>2. QueueInv' /\ NoEndIn(queue')
    BY <2>1, QueueEmptied, NoEndPlaces
  <2>3. EraInv' /\ NoEnd'
    BY <1>1, <1>3, <1>4, <2>1, <2>2, StartedFits, NoEndPlaces, OneTurn, NoEndTurn DEF NoEnd
  <2> QED BY <2>2, <2>3 DEF OpenInv
<1>15. CASE HandleLeftover(t)
  <2>1. h.hand # <<>> /\ At(t, "batch") /\ UNCHANGED <<queue, sink, era, carried>>
        /\ h.way = "drain"
    BY <1>1, <1>15 DEF HandleLeftover, QuietVars, sinkVars, readerVars, Fits, At
  <2>2. Item(t).kind # "END"
    BY <1>1, <1>5, <2>1, HandTail, ItemKinds
  <2>3. \/ r = Back(t)
        \/ r = [h EXCEPT !.pc = "releasing"] \/ r = [h EXCEPT !.pc = "closure"]
    BY <1>1, <1>4, <1>15, <2>2 DEF HandleLeftover
  <2>4. /\ r.way = h.way /\ r.until = h.until /\ NoEndIn(r.hand)
        /\ r.pc \notin {"routing", "calling"}
    BY <1>1, <1>9, <2>1, <2>3 DEF ThreadStates
  <2>5. ReadsOn(r)
    BY <1>3, <2>4 DEF ReadsOn
  <2> QED BY <1>1, <1>2, <1>3, <1>4, <2>1, <2>4, <2>5, StillOpen
<1>16. CASE Fence(t)
  <2>1. /\ queue # <<>> /\ item # EndOfStream /\ queue' = Tail(queue)
        /\ UNCHANGED <<sink, era, carried>> /\ h.way = "fence" /\ h.pc = "fence" /\ h.hand = <<>>
        /\ Resumes(h.until)
    BY <1>1, <1>3, <1>5, <1>16 DEF Fence, QuietVars, sinkVars, readerVars, Fits, At, ReadsOn
  <2>2. CASE IsFence(t, item)
    <3>1. item.kind = "RESUME" /\ item.era = h.until
      BY <2>2 DEF IsFence
    <3>2. r = [h EXCEPT !.pc = "live", !.way = "live"]
      BY <1>1, <1>4, <1>16, <2>2, <3>1 DEF Fence
    <3>3. r.pc = "live" /\ r.way = "live" /\ r.until = h.until /\ r.hand = <<>>
      BY <1>1, <2>1, <3>2 DEF ThreadStates
    <3>4. item = Resume(h.until)
      BY <1>5, <2>1, <3>1, ItemKinds DEF Resume
    <3>5. ReadsOn(r)'
      BY <1>1, <2>1, <3>3, <3>4, HeadTaken DEF ReadsOn
    <3> QED BY <1>1, <1>2, <1>3, <1>4, <2>1, <3>3, <3>5, NoEndPlaces, TakeOpen
  <2>3. CASE ~IsFence(t, item)
    <3>1. item # Resume(h.until)
      BY <2>3 DEF IsFence, Resume
    <3>2. \/ r = h
          \/ r = [h EXCEPT !.hand = <<item>>, !.pc = "releasing"]
          \/ r = [h EXCEPT !.hand = <<item>>, !.pc = "closure"]
      BY <1>1, <1>4, <1>16, <2>1, <2>3 DEF Fence
    <3>3. /\ r.way = "fence" /\ r.until = h.until /\ r.pc \notin {"routing", "calling"}
          /\ r.hand = <<>> \/ r.hand = <<item>>
      BY <1>1, <2>1, <3>2 DEF ThreadStates
    <3>4. ReadsOn(r)'
      BY <1>1, <2>1, <3>1, <3>3, HeadTaken DEF ReadsOn
    <3> QED BY <1>1, <1>2, <1>3, <1>4, <2>1, <3>3, <3>4, NoEndPlaces, TakeOpen
  <2> QED BY <2>2, <2>3
<1> QED
  BY <1>6, <1>7, <1>8, <1>10, <1>11, <1>12, <1>13, <1>14, <1>15, <1>16 DEF ThreadStep

(* An end is for good. *)
LEMMA StaysClosed == ASSUME [Next]_vars PROVE closed => closed'
<1>1. ASSUME NEW t \in Threads, ThreadStep(t) PROVE closed' = closed
  BY <1>1 DEF ThreadStep, TakeMarker, TakeFrame, LookUp, Deliver, Release, RunClosure, Ack,
      Unregister, BackToLive, TakeBatch, Leave, HandleLeftover, BatchDone, Fence,
      QuietVars, endVars
<1>2. ASSUME NEW h \in Handles, Attach(h) \/ Detach(h) \/ SendEvent(h) PROVE closed' = closed
  BY <1>2 DEF Attach, Detach, SendEvent, endVars
<1>3. ASSUME NEW c \in Closures, RegisterCleanup(c) \/ AskCleanup(c) PROVE closed' = closed
  BY <1>3 DEF RegisterCleanup, AskCleanup, endVars
<1>4. ASSUME Read \/ ReadEnd \/ CallSink \/ TellClosed \/ UNCHANGED vars
      PROVE  closed' = closed
  BY <1>4 DEF Read, ReadEnd, CallSink, TellClosed, endVars, vars
<1>5. ASSUME Close PROVE closed' = TRUE
  BY <1>5 DEF Close
<1>6. closed' = closed \/ closed' = TRUE
  BY <1>1, <1>2, <1>3, <1>4, <1>5 DEF Next
<1> QED BY <1>6

LEMMA NextFence ==
    DataInv /\ HandInv /\ ThreadInv /\ FenceInv /\ [Next]_vars => FenceInv'
<1> SUFFICES ASSUME DataInv, HandInv, ThreadInv, OpenInv, ~closed, ~closed', [Next]_vars
             PROVE  OpenInv'
  <2>1. [Next]_vars => (closed => closed')
    BY StaysClosed
  <2> QED BY <2>1 DEF FenceInv
<1>1. ASSUME UNCHANGED <<queue, sink, era, threads>>, carried' = None \/ carried' # EndOfStream
      PROVE  OpenInv'
  <2>1. NoEnd /\ QueueInv /\ EraInv /\ era \in Nat
    BY DEF OpenInv, DataInv
  <2>2. QueueInv' /\ NoEnd' /\ ReadsStay
    BY <1>1, <2>1 DEF QueueInv, NoEnd, ReadsStay, ReadsOn, Clean, Noticed, Resumes
  <2> QED BY <1>1, <2>1, <2>2, PlacesStay DEF OpenInv
<1>2. carried = None \/ carried # EndOfStream
  BY DEF OpenInv, NoEnd
<1>3. ASSUME NEW h \in Handles, Attach(h) PROVE OpenInv'
  BY <1>3, ArmOpen DEF Attach, readerVars
<1>4. ASSUME NEW c \in Closures, RegisterCleanup(c) PROVE OpenInv'
  BY <1>4, ArmOpen DEF RegisterCleanup, readerVars
<1>5. ASSUME NEW h \in Handles, SendEvent(h) PROVE OpenInv'
  BY <1>1, <1>2, <1>5 DEF SendEvent, sinkVars
<1>6. ASSUME NEW c \in Closures, AskCleanup(c) PROVE OpenInv'
  BY <1>1, <1>2, <1>6 DEF AskCleanup, sinkVars
<1>7. CASE Read
  <2>1. Head(wire) # EndOfStream
    <3>1. Head(wire) \in Frames
      BY <1>7, TailPlaces DEF Read, DataInv
    <3> QED BY <3>1 DEF Frames, EndOfStream
  <2> QED BY <1>1, <1>7, <2>1 DEF Read, sinkVars
<1>8. CASE UNCHANGED vars
  BY <1>1, <1>2, <1>8 DEF vars, sinkVars, readerVars
<1>9. ~Close /\ ~ReadEnd /\ ~TellClosed
  BY DEF Close, ReadEnd, TellClosed
<1> QED
  BY <1>3, <1>4, <1>5, <1>6, <1>7, <1>8, <1>9, DetachOpen, CallSinkOpen, StepOpen DEF Next

-----------------------------------------------------------------------------
(* The theorems.                                                           *)

IInv == ThreadInv /\ DataInv /\ HandInv /\ OrderInv /\ FenceInv

(* The inductive invariant of the dispatcher: threads, data, order, eras.  *)
THEOREM Invariance == Spec => []IInv
<1>1. Init => IInv
  BY InitThreadInv, InitData, InitOrder, InitFence DEF IInv
<1>2. IInv /\ [Next]_vars => IInv'
  BY NextPreserves, NextData, NextOrder, NextFence DEF IInv
<1> QED BY <1>1, <1>2, PTL DEF Spec

(* _release, release_event: frames are given back in the order in which    *)
(* the bridge sent them and none twice, over retirements, leftovers and    *)
(* restarts of the thread.                                                 *)
THEOREM GivenBackInOrder == Spec => []InOrder
<1>1. IInv => InOrder
  BY DEF IInv, OrderInv
<1> QED BY <1>1, Invariance, PTL

(* _fence_to_resume, "none of it may be delivered": while the stream is    *)
(* open no event minted while the connection was retired, or in an era     *)
(* before the one resumed into, reaches a callback.                        *)
THEOREM FencedAlways == Spec => []FencedWhileOpen
<1>1. IInv => FencedWhileOpen
  BY DEF IInv, FenceInv, OpenInv, EraInv, FencedWhileOpen, FencedErasStayOut, At
<1> QED BY <1>1, Invariance, PTL
=============================================================================
