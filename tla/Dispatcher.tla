------------------------------ MODULE Dispatcher ------------------------------
(***************************************************************************)
(* The callback thread of a client's connection:                           *)
(* bindings/python/wineole/dispatcher.py.  The reader thread puts frames   *)
(* on one queue; the dispatcher thread takes them off, calls back, and     *)
(* gives their handles back to the bridge.  Thread and sink exist only     *)
(* while something is attached: going idle and being armed again leave   *)
(* markers on the queue, and the thread decides by them what it may still  *)
(* deliver.                                                                *)
(*                                                                         *)
(* A section under the dispatcher's lock is one step, and so is taking one *)
(* item off the queue, which needs no lock.  Attaching and detaching may   *)
(* be done by any thread at any moment, a callback included.               *)
(***************************************************************************)
EXTENDS Naturals, Sequences, FiniteSets

CONSTANTS
    Handles,    \* objects with events, each with its one Events
    Closures,   \* root handles with an on_cleanup closure
    Threads,    \* names for dispatcher threads, reused
    JoinMayTimeOut, \* Client.close may give the reader up
    MaxFrames, MaxEra, MaxAttached,    \* bounds
    None        \* no thread, nothing in the reader's hands

ASSUME BoundAssumption == {MaxFrames, MaxEra, MaxAttached} \subseteq Nat
ASSUME JoinAssumption == JoinMayTimeOut \in BOOLEAN
ASSUME NoneAssumption == None \notin Threads

VARIABLES
    targets,    \* handles whose Events is attached
    cleanups,   \* closures registered
    sink,       \* the dispatcher has a sink
    listed,     \* the mailbox has it too
    era,        \* sinks put up so far
    queue,      \* the work queue
    slot,       \* the dispatcher's _thread
    threads,    \* threads[t]: what dispatcher thread t is doing
    wire,       \* frames the bridge has sent and the reader has not read
    carried,    \* what the reader is about to hand to the sink
    reading,    \* the reader is in its loop
    closed,     \* the mailbox is closed
    told,       \* Client.close has told the dispatcher itself
    attached,   \* bound: attachments so far
    asked,      \* closures the bridge has asked for
    minted,     \* frames sent so far
    released    \* history: numbers of the frames given back, in that order

tableVars == <<targets, cleanups, attached>>
sinkVars  == <<sink, listed, era>>
readerVars == <<wire, carried, reading, asked, minted>>
endVars   == <<closed, told>>
vars == <<tableVars, sinkVars, queue, slot, threads, readerVars, endVars, released>>

(* Items of the queue.  A frame carries its number and, once queued, the   *)
(* era it was queued in, 0 when the connection was retired: the code keeps *)
(* neither.                                                                *)
IDLE == [kind |-> "IDLE"]
Resume(e) == [kind |-> "RESUME", era |-> e]
EndOfStream == [kind |-> "END"]
NewFrame(h, kind) == [kind |-> kind, handle |-> h, number |-> minted + 1, era |-> 0]
IsFrame(item) == item.kind \in {"event", "$cleanup"}

Gone == [pc |-> "gone", way |-> "live", hand |-> <<>>, until |-> 0]
Started == [Gone EXCEPT !.pc = "live"]

TypeOK ==
    /\ targets \subseteq Handles
    /\ cleanups \subseteq Closures /\ asked \subseteq Closures
    /\ sink \in BOOLEAN /\ listed \in BOOLEAN /\ reading \in BOOLEAN
    /\ closed \in BOOLEAN /\ told \in BOOLEAN
    /\ era \in 0 .. MaxEra /\ (sink => era > 0) /\ (listed => sink)
    /\ slot \in Threads \cup {None}
    /\ DOMAIN threads = Threads
    /\ \A t \in Threads :
        /\ threads[t].pc \in {"gone", "live", "routing", "calling", "releasing",
                              "closure", "acking", "unregistering",
                              "emptying", "batch", "fence"}
        /\ threads[t].way \in {"live", "drain", "fence", "end"}
        /\ threads[t].until \in 0 .. MaxEra
    /\ \A i \in DOMAIN queue : queue[i].kind = "RESUME" => queue[i].era \in 1 .. era
    /\ minted \in 0 .. MaxFrames /\ attached \in 0 .. MaxAttached

Init ==
    /\ targets = {} /\ cleanups = {} /\ attached = 0
    /\ sink = FALSE /\ listed = FALSE /\ era = 0
    /\ queue = <<>> /\ slot = None
    /\ threads = [t \in Threads |-> Gone]
    /\ wire = <<>> /\ carried = None /\ reading = TRUE /\ asked = {} /\ minted = 0
    /\ closed = FALSE /\ told = FALSE
    /\ released = <<>>

-----------------------------------------------------------------------------
(* Parts of the sections under the lock.                                   *)

(* A slip: arming always starts a thread. *)
StartThread ==
    \E t \in Threads :
        /\ threads[t].pc = "gone"
        /\ slot' = t
        /\ threads' = [threads EXCEPT ![t] = Started]

(* _start_thread when the slot is empty.                                   *)
EnsureThread ==
    IF slot # None
    THEN UNCHANGED <<slot, threads>>
    ELSE \E t \in Threads :
            /\ threads[t].pc = "gone"
            /\ slot' = t
            /\ threads' = [threads EXCEPT ![t] = Started]

(* _arm.  A mailbox already closed takes no sink and hands it the end of   *)
(* the stream at once, on this thread and under this lock.                 *)
Arm ==
    /\ EnsureThread
    /\ IF sink
       THEN UNCHANGED <<sinkVars, queue>>
       ELSE /\ sink' = TRUE /\ listed' = ~closed
            /\ era < MaxEra /\ era' = era + 1
            /\ queue' = queue \o <<Resume(era + 1)>>
                              \o (IF closed THEN <<EndOfStream>> ELSE <<>>)

(* A slip: the thread gets no notice. *)
ReleaseSinkSilently ==
    IF sink /\ cleanups' = {} /\ targets' = {}
    THEN /\ sink' = FALSE /\ listed' = FALSE
         /\ UNCHANGED <<queue, era>>
    ELSE UNCHANGED <<sinkVars, queue>>

(* _release_sink_if_idle; very often on the dispatcher's own thread.       *)
ReleaseSinkIfIdle ==
    IF sink /\ cleanups' = {} /\ targets' = {}
    THEN /\ sink' = FALSE /\ listed' = FALSE
         /\ queue' = Append(queue, IDLE)
         /\ UNCHANGED era
    ELSE UNCHANGED <<sinkVars, queue>>

(* _enqueue.                                                               *)
Stamped(item) == IF IsFrame(item) THEN [item EXCEPT !.era = IF sink THEN era ELSE 0] ELSE item

(* A slip: the marker goes behind the frame. *)
EnqueueMarkerBehind(item) ==
    IF ~sink /\ item = EndOfStream
    THEN UNCHANGED <<queue, slot, threads>>
    ELSE /\ EnsureThread
         /\ queue' = queue \o <<Stamped(item)>>
                           \o (IF ~sink /\ slot = None THEN <<IDLE>> ELSE <<>>)

Enqueue(item) ==
    IF ~sink /\ item = EndOfStream
    THEN UNCHANGED <<queue, slot, threads>>
    ELSE /\ EnsureThread
         /\ queue' = queue \o (IF ~sink /\ slot = None THEN <<IDLE>> ELSE <<>>)
                           \o <<Stamped(item)>>

-----------------------------------------------------------------------------
(* Registrations.                                                          *)

(* attach: an Events is attached while it has a callback.                  *)
Attach(h) ==
    /\ h \notin targets /\ attached < MaxAttached
    /\ attached' = attached + 1
    /\ targets' = targets \cup {h}
    /\ Arm
    /\ UNCHANGED <<cleanups, readerVars, endVars, released>>

(* detach.                                                                 *)
Detach(h) ==
    /\ h \in targets
    /\ targets' = targets \ {h}
    /\ UNCHANGED <<cleanups, attached>>
    /\ ReleaseSinkIfIdle
    /\ UNCHANGED <<slot, threads, readerVars, endVars, released>>

(* register_cleanup, for a root just created and so once for each.         *)
RegisterCleanup(c) ==
    /\ c \notin cleanups \cup asked
    /\ cleanups' = cleanups \cup {c}
    /\ Arm
    /\ UNCHANGED <<targets, attached, readerVars, endVars, released>>

-----------------------------------------------------------------------------
(* The bridge, which sends events of an object while it is subscribed and  *)
(* asks for a closure once, and the reader.  Nothing orders an event with  *)
(* the answer to a later unsubscribe: they reach the bridge's writer by    *)
(* different threads.                                                      *)

SendEvent(h) ==
    /\ ~closed /\ h \in targets /\ minted < MaxFrames
    /\ wire' = Append(wire, NewFrame(h, "event"))
    /\ minted' = minted + 1
    /\ UNCHANGED <<tableVars, sinkVars, queue, slot, threads, carried, reading, asked>>
    /\ UNCHANGED <<endVars, released>>

AskCleanup(c) ==
    /\ ~closed /\ c \in cleanups \ asked /\ minted < MaxFrames
    /\ wire' = Append(wire, NewFrame(c, "$cleanup"))
    /\ minted' = minted + 1
    /\ asked' = asked \cup {c}
    /\ UNCHANGED <<tableVars, sinkVars, queue, slot, threads, carried, reading>>
    /\ UNCHANGED <<endVars, released>>

(* The reader looks the sinks up and then calls them without a lock.       *)
Read ==
    /\ reading /\ carried = None /\ wire # <<>>
    /\ wire' = Tail(wire)
    /\ carried' = IF listed THEN Head(wire) ELSE None
    /\ UNCHANGED <<tableVars, sinkVars, queue, slot, threads, reading, asked, minted>>
    /\ UNCHANGED <<endVars, released>>

(* The bridge has gone, or Client.close has been called.                   *)
Close ==
    /\ ~closed /\ closed' = TRUE
    /\ UNCHANGED <<tableVars, sinkVars, queue, slot, threads, readerVars, told, released>>

(* The reader leaves its loop; what it had not read is lost.               *)
ReadEnd ==
    /\ reading /\ carried = None /\ closed
    /\ reading' = FALSE
    /\ wire' = <<>>
    /\ carried' = IF listed THEN EndOfStream ELSE None
    /\ UNCHANGED <<tableVars, sinkVars, queue, slot, threads, asked, minted>>
    /\ UNCHANGED <<endVars, released>>

(* The sink the reader looked up, which may be off the connection by now.  *)
CallSink ==
    /\ carried # None
    /\ Enqueue(carried)
    /\ carried' = None
    /\ UNCHANGED <<tableVars, sinkVars, wire, reading, asked, minted, endVars, released>>

(* Client.close tells the dispatcher directly as well, after Mailbox.close *)
(* has waited for the reader, for two seconds at most.                     *)
TellClosed ==
    /\ closed /\ ~told /\ told' = TRUE
    /\ JoinMayTimeOut \/ (~reading /\ carried = None)
    /\ Enqueue(EndOfStream)
    /\ UNCHANGED <<tableVars, sinkVars, readerVars, closed, released>>

-----------------------------------------------------------------------------
(* The dispatcher thread's loop, _run.                                     *)

Now(t, pc) == threads' = [threads EXCEPT ![t].pc = pc]
At(t, pc) == threads[t].pc = pc
Item(t) == Head(threads[t].hand)

(* Where a thread goes on once it has dealt with an item. *)
Back(t) == [threads[t] EXCEPT !.hand = Tail(@),
                              !.pc = CASE threads[t].way = "live" -> "live"
                                       [] threads[t].way = "fence" -> "fence"
                                       [] OTHER -> "batch"]

QuietVars == <<tableVars, sinkVars, readerVars, endVars>>

(* get, by what it returns: a marker, and the RESUME of an arm that        *)
(* followed no retirement is ignored; or a frame.                          *)
TakeMarker(t) ==
    /\ At(t, "live") /\ queue # <<>> /\ ~IsFrame(Head(queue))
    /\ queue' = Tail(queue)
    /\ threads' = [threads EXCEPT ![t] =
            CASE Head(queue) = IDLE -> [@ EXCEPT !.pc = "emptying", !.way = "drain"]
              [] Head(queue) = EndOfStream -> [@ EXCEPT !.pc = "emptying", !.way = "end"]
              [] OTHER -> @]
    /\ UNCHANGED <<QuietVars, slot, released>>

TakeFrame(t) ==
    /\ At(t, "live") /\ queue # <<>> /\ IsFrame(Head(queue))
    /\ queue' = Tail(queue)
    /\ threads' = [threads EXCEPT ![t].hand = <<Head(queue)>>,
            ![t].pc = IF Head(queue).kind = "event" THEN "routing" ELSE "closure"]
    /\ UNCHANGED <<QuietVars, slot, released>>

(* _route looks the target up under the lock and delivers without it.      *)
LookUp(t) ==
    /\ At(t, "routing")
    /\ Now(t, IF Item(t).handle \in targets THEN "calling" ELSE "releasing")
    /\ UNCHANGED <<QuietVars, queue, slot, released>>

(* Events._deliver reaches whoever has a callback now, in the same Events. *)
Deliver(t) ==
    /\ At(t, "calling")
    /\ Now(t, "releasing")
    /\ UNCHANGED <<QuietVars, queue, slot, released>>

(* _release; when the connection is gone there is nothing left to release  *)
(* and the call raises, which is swallowed.                                *)
Release(t) ==
    /\ At(t, "releasing")
    /\ released' = Append(released, Item(t).number)
    /\ threads' = [threads EXCEPT ![t] = Back(t)]
    /\ UNCHANGED <<QuietVars, queue, slot>>

(* _run_cleanup: the closure, found or not, returning or raising; then     *)
(* _ack_cleanup's release_event and signal, and its unregister_cleanup.    *)
RunClosure(t) ==
    /\ At(t, "closure")
    /\ Now(t, "acking")
    /\ UNCHANGED <<QuietVars, queue, slot, released>>

Ack(t) ==
    /\ At(t, "acking")
    /\ released' = Append(released, Item(t).number)
    /\ Now(t, "unregistering")
    /\ UNCHANGED <<QuietVars, queue, slot>>

Unregister(t) ==
    /\ At(t, "unregistering")
    /\ cleanups' = cleanups \ {Item(t).handle}
    /\ UNCHANGED <<targets, attached>>
    /\ ReleaseSinkIfIdle
    /\ threads' = [threads EXCEPT ![t] = Back(t)]
    /\ UNCHANGED <<slot, readerVars, endVars, released>>

-----------------------------------------------------------------------------
(* _drain_batches, the way out by IDLE ("drain") and by the end of the     *)
(* stream ("end"); each of the three is one section under the lock.        *)

(* re_armed: a sink is back, and what is behind its RESUME is to be        *)
(* delivered.                                                              *)
BackToLive(t) ==
    /\ At(t, "emptying") /\ threads[t].way = "drain" /\ sink
    /\ threads' = [threads EXCEPT ![t].pc = "fence", ![t].way = "fence", ![t].until = era]
    /\ UNCHANGED <<QuietVars, queue, slot, released>>

(* A slip: the batch is copied, not taken. *)
CopyBatch(t) ==
    /\ At(t, "emptying") /\ (threads[t].way = "end" \/ ~sink)
    /\ queue # <<>>
    /\ threads' = [threads EXCEPT ![t].hand = queue, ![t].pc = "batch"]
    /\ UNCHANGED <<QuietVars, queue, slot, released>>

TakeBatch(t) ==
    /\ At(t, "emptying") /\ (threads[t].way = "end" \/ ~sink)
    /\ queue # <<>>
    /\ threads' = [threads EXCEPT ![t].hand = queue, ![t].pc = "batch"]
    /\ queue' = <<>>
    /\ UNCHANGED <<QuietVars, slot, released>>

(* A slip: the slot is cleared whatever is on the queue. *)
LeaveUnread(t) ==
    /\ At(t, "emptying") /\ (threads[t].way = "end" \/ ~sink)
    /\ sink' = FALSE /\ listed' = FALSE
    /\ slot' = None
    /\ threads' = [threads EXCEPT ![t] = Gone]
    /\ UNCHANGED <<tableVars, era, queue, readerVars, endVars, released>>

(* on_empty: retire, and close_down, which takes the sink off as well.     *)
Leave(t) ==
    /\ At(t, "emptying") /\ (threads[t].way = "end" \/ ~sink)
    /\ queue = <<>>
    /\ sink' = FALSE /\ listed' = FALSE
    /\ slot' = None
    /\ threads' = [threads EXCEPT ![t] = Gone]
    /\ UNCHANGED <<tableVars, era, queue, readerVars, endVars, released>>

(* A slip: nobody is attached, so an event is thrown away. *)
DropLeftover(t) ==
    /\ At(t, "batch") /\ threads[t].hand # <<>>
    /\ threads' = [threads EXCEPT ![t] =
            CASE Item(t).kind = "$cleanup" -> [@ EXCEPT !.pc = "closure"]
              [] Item(t).kind = "END" -> [Back(t) EXCEPT !.way = "end"]
              [] OTHER -> Back(t)]
    /\ UNCHANGED <<QuietVars, queue, slot, released>>

(* A leftover, _handle_leftover: a $cleanup is run, an event released, a   *)
(* marker ignored.  An end of the stream in a batch changes what the drain *)
(* is for once the batch is done: this is noted at once, since the way     *)
(* makes no difference before.                                             *)
HandleLeftover(t) ==
    /\ At(t, "batch") /\ threads[t].hand # <<>>
    /\ threads' = [threads EXCEPT ![t] =
            CASE Item(t).kind = "event" -> [@ EXCEPT !.pc = "releasing"]
              [] Item(t).kind = "$cleanup" -> [@ EXCEPT !.pc = "closure"]
              [] Item(t).kind = "END" -> [Back(t) EXCEPT !.way = "end"]
              [] OTHER -> Back(t)]
    /\ UNCHANGED <<QuietVars, queue, slot, released>>

BatchDone(t) ==
    /\ At(t, "batch") /\ threads[t].hand = <<>>
    /\ Now(t, "emptying")
    /\ UNCHANGED <<QuietVars, queue, slot, released>>

(* A slip: the first RESUME will do. *)
IsAnyResume(t, item) == item.kind = "RESUME"

(* _fence_to_resume: up to the RESUME of the era the thread resumes into.  *)
IsFence(t, item) == item.kind = "RESUME" /\ item.era = threads[t].until

Fence(t) ==
    /\ At(t, "fence") /\ queue # <<>>
    /\ LET item == Head(queue)
           rest == Tail(queue)
           live == [threads[t] EXCEPT !.pc = "live", !.way = "live"]
       IN  /\ queue' = IF item = EndOfStream THEN Append(rest, item) ELSE rest
           /\ threads' = [threads EXCEPT ![t] =
                CASE IsFence(t, item) \/ item = EndOfStream -> live
                  [] item.kind = "event" -> [@ EXCEPT !.hand = <<item>>, !.pc = "releasing"]
                  [] item.kind = "$cleanup" -> [@ EXCEPT !.hand = <<item>>, !.pc = "closure"]
                  [] OTHER -> @]
    /\ UNCHANGED <<QuietVars, slot, released>>

-----------------------------------------------------------------------------
ThreadStep(t) ==
    \/ TakeMarker(t) \/ TakeFrame(t) \/ LookUp(t) \/ Deliver(t) \/ Release(t)
    \/ RunClosure(t) \/ Ack(t) \/ Unregister(t)
    \/ BackToLive(t) \/ TakeBatch(t) \/ Leave(t)
    \/ HandleLeftover(t) \/ BatchDone(t) \/ Fence(t)

Next ==
    \/ \E h \in Handles : Attach(h) \/ Detach(h) \/ SendEvent(h)
    \/ \E c \in Closures : RegisterCleanup(c) \/ AskCleanup(c)
    \/ Read \/ Close \/ ReadEnd \/ CallSink \/ TellClosed
    \/ \E t \in Threads : ThreadStep(t)

(* The dispatcher's and the reader's threads run, callbacks return, and a  *)
(* call to the bridge is answered or fails.  Nothing obliges anybody to    *)
(* register, to send or to close.                                          *)
Fairness ==
    /\ \A t \in Threads : WF_vars(ThreadStep(t))
    /\ WF_vars(Read) /\ WF_vars(ReadEnd) /\ WF_vars(CallSink)

Spec == Init /\ [][Next]_vars
FairSpec == Spec /\ Fairness

-----------------------------------------------------------------------------
(* Properties.                                                             *)

(* "There is never a second thread started while the first is still        *)
(* dispatching": a thread that may yet take an item or run a callback is   *)
(* the one in the slot.                                                    *)
OneThread == \A t \in Threads : At(t, "gone") \/ slot = t

(* Nothing is left on a queue without a thread, and no sink is up without  *)
(* one: whoever queues an item may rely on the slot.                       *)
NothingStranded == slot = None => queue = <<>> /\ ~sink

(* Frames are given back in the order in which the bridge sent them, none  *)
(* of them twice.                                                          *)
InOrder ==
    \A i, j \in DOMAIN released : i < j => released[i] < released[j]

(* "Between them lies everything that was minted while the connection had  *)
(* no registrations at all, and none of it may be delivered", "every era   *)
(* but the one it is resuming into is drained": an event that came while   *)
(* the connection was retired, or in an era before the one the thread last *)
(* resumed into, reaches no callback.                                      *)
FencedErasStayOut ==
    \A t \in Threads :
        At(t, "calling") => Item(t).era # 0 /\ Item(t).era >= threads[t].until

(* The same for as long as the stream has not ended. *)
FencedWhileOpen == closed \/ FencedErasStayOut

(* Every frame handed to the dispatcher is given back in the end: its      *)
(* handles do not stay on the bridge, and a $cleanup is acknowledged.      *)
InCustody(n) ==
    \/ \E i \in DOMAIN queue : IsFrame(queue[i]) /\ queue[i].number = n
    \/ carried # None /\ IsFrame(carried) /\ carried.number = n
    \/ \E t \in Threads : \E i \in DOMAIN threads[t].hand :
            IsFrame(threads[t].hand[i]) /\ threads[t].hand[i].number = n
EveryFrameReleased ==
    \A n \in 1 .. MaxFrames :
        InCustody(n) ~> \E i \in DOMAIN released : released[i] = n

(* A connection with nothing attached ends up without a thread, and the    *)
(* end of the stream reaches the thread, parked or in a callback, and ends *)
(* it: no thread outlives the work it was started for.                     *)
ThreadLeaves ==
    /\ (~sink /\ slot # None) ~> (sink \/ slot = None)
    /\ closed ~> slot = None
=============================================================================
