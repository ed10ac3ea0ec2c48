# A verification project for wineole

wineole lets a Linux program drive COM automation servers (Microsoft Office
under Wine). A Windows process, **wineole-bridge** (Rust), holds the COM objects;
Python and Ruby **clients** talk to it over a socket, one JSON object a line.
This directory holds TLA+ models of the parts that run concurrently and of the
conversions between COM and JSON, the TLC configurations that check them on small
instances, and TLAPS proofs.

Contents: [1 the system](#1-the-system), [2 modules](#2-the-modules),
[3 correspondence](#3-state-actions-and-code), [4 runs](#4-the-runs),
[5 fairness](#5-fairness), [6 findings](#6-what-the-code-does-otherwise-than-it-says),
[7 proofs](#7-what-is-proved), [8 limits](#8-what-is-not-modelled),
[9 plan](#9-plan).

## 1 The system

### Parts, their state and their operations

| part | source | state | operations |
|---|---|---|---|
| instance registry | `registry.rs` | per Office process: users, shutdown permission (`auto_created`), `closing`, `callback` | `join`, `on_root_release`, `confirm_cleanup`, `finish_cleanup`, `leave_open` |
| session | `session.rs` | a thread with a COM apartment: handles, subscriptions, event arguments, pending `$cleanup` | spawn (create / connect / connect_or_create), commands, event conversion, teardown |
| session wake-up | `session.rs`, `pump.rs` | command channel, auto-reset event, message queue | `SessionRoute` send / clone / drop, wait, drain |
| server | `server.rs` | routing table: id -> `SessionRoute` | one handler per request, `receive_event`, `release_all` |
| connection | `main.rs` | request loop, event forwarder, writer | read / answer, forward, join in the end |
| event sink | `sink.rs` | reference count, its handle; a source's connection table | Advise, Unadvise, Invoke, QueryInterface; choice of the source |
| dispatch | `dispatch.rs` | none | names and DISPIDs, DISPPARAMS, EXCEPINFO, `const_load` |
| value | `value.rs` | none | VARIANT to JSON and back |
| identity, protocol | same names `.rs` | none | OBJREF to key, frames |
| process | `main.rs` | listening socket, number of connections, idle time | bind, accept, idle exit |
| mailbox | `mailbox.py` | waiters, sinks, `_closed` | `request`, reader loop, `close`, `add_sink`, `remove_sink` |
| dispatcher | `dispatcher.py` | queue, thread slot, sink, era | arm, enqueue, retire, fence, end of stream |
| registrations | `events.py` | callbacks per event | `on`, `off`, `close`, deliver |
| cleanup waiters | `cleanup_waiters.py` | done, conditions | `await_`, `signal` |
| client, default client | `client.py`, `__init__.py` | socket, lock file | `open` (spawn under flock), `call`, `close` |
| Ruby client | `client.rb`, ... | mirrors the Python one | |
| Office wrappers | `msoffice/` | none of their own | addressing, formatting, VBA |

### How they interact

A client's request is read by its connection's request loop, which looks a route
up, sends the session a command and waits for the reply: one request of a
connection is in flight at a time. Sessions of different connections meet only
in the registry, whose methods are short lock sections called from the sessions'
threads. Office calls a session's thread back through its message queue; the
session turns callbacks into events, which the connection's forwarder routes and
hands to the writer. In the client, a reader thread gives answers to waiting
callers and events to sinks; a dispatcher thread runs the user's callbacks, which
make calls of their own.

### What is hard, and what has to hold

* **Shared instances.** Who quits Excel? Sessions of several clients come and go,
  with a client-side closure in between, which can revoke the permission, and
  clients that vanish. Steps run once, only with permission, with nobody
  registered; the permission is not mislaid; a closing record has an owner.
* **Route lifetime.** A session's thread lives as long as somebody holds a route.
  Ids the client has been told must be routed; no route may outlive what it
  names, or Excel stays.
* **Sleeping threads.** A session sleeps on a Win32 event which no channel
  operation sets by itself.
* **The ends of streams.** Answers, the end of the stream, `close` and late
  registrations race in the client.
* **Reentrant COM.** A source queries, copies, keeps and calls the sink from inside
  the session's own calls, the teardown's included. A sink is freed once; ids
  handed to the client keep their meaning; nothing COM owns outlives the
  apartment.
* **Conversions.** Argument order is reversed, named arguments go elsewhere, dates
  count days from 1899 with a sign that is not the fraction's, integers are 32
  bits wide. What cannot be said must be refused and never become something else.
* **Processes.** Clients find no bridge and start one; bridges grow idle and exit;
  either may be killed anywhere.

Each hazard, at its line and with the properties that cover it, is listed in
`PROJECT.json`.

## 2 The modules

| module | kind | content |
|---|---|---|
| `InstanceRegistry` | component | `registry.rs`: one operator per method |
| `SessionLifetime` | composition | the registry and any number of session threads on any number of instances |
| `ShutdownPromise` | abstract | what the bridge promises about one instance: enter, grant, leave, revoke, commit, end |
| `LifetimeRefinement` | refinement | the mapping from `SessionLifetime` to `ShutdownPromise` |
| `LifetimeInvariant` | invariant | the inductive invariant of `SessionLifetime` |
| `SessionLifetimeProofs` | proofs | the properties of one instance's shutdown; nothing is mislaid, nobody refused; the refinement's safety |
| `SessionWake` | component | `SessionRoute`, `Waker`, and the loop that waits |
| `SessionWakeProofs` | proofs | |
| `Subscriptions` | component | one session's handles, subscriptions, sinks, event arguments and teardown, against its event sources |
| `SubscriptionsProofs` | proofs | |
| `Connection` | composition | request loop, routing table, sessions, forwarder and writer of one connection |
| `ConnectionProofs` | proofs | the table and the sessions' handles, registered sessions, the loop's replies |
| `OleDates`, `Variants` | algorithms | the conversions of `value.rs`, dates apart |
| `Invocation` | algorithms | `dispatch.rs` and the order of a callback's arguments (`sink.rs`) |
| `SourceChoice` | algorithms | which connection point an object is advised on (`sink.rs`) |
| `TypeLibrary` | algorithms | `const_load` |
| `Crossings` | composition | a call, a callback, a value read and written back, a library, a subscription, from end to end |
| `CrossingsProofs` | proofs | what is carried at each stage; the calendar, conversions, argument order, constants, sources |
| `BridgeProcess` | composition | `Client.open` of several processes, the bridges they spawn, the idle exit |
| `BridgeProcessProofs` | proofs | |
| `Mailbox` | component | `mailbox.py` with its callers, reader, closer and sinks |
| `MailboxProofs` | proofs | |
| `Dispatcher` | component | `dispatcher.py` with the reader, the bridge and the registrations around it |
| `DispatcherProofs` | proofs | the one thread; the order and the eras |
| `MC...` | instances | constants and symmetry for TLC |

A definition whose comment begins "A slip" is a plausible mistake in the operator
that follows it. Nothing uses it; substituted for that operator it breaks a
property, which shows that the property depends on the code (see `mutants` in
`PROJECT.json`).

## 3 State, actions and code

`PROJECT.json` maps every definition to its lines. What was abstracted:

**InstanceRegistry, SessionLifetime.** `records` is `InstanceRegistry::records`,
a key absent from the map being `Absent`. Each registry call and each COM call of
a session thread is an action, since that is where threads interleave: spawning
is `Attach` (COM hands out a root), then `JoinRegistry`, or `MeetClosing`,
`CreateFresh`, `JoinFresh` for the retry of `connect_or_create`. The `Release` of
the root is `AskClosure`, `ShutDownInline` or `LeaveInUse`, after what
`on_root_release` decides; `ClosureAnswered`, `CatchAll` and `FinishShutdown` are
the other registry calls, `Run...Steps` the steps themselves, and `Leave` the end
of the thread. Commands that do not touch the registry are not there. COM's
running object table may name any running instance or none, since Office
registers late. `instance_key` is the identity of the process, and with
`IdentityMayFail` a key of the session's own; an instance, once quit, is not
reused, and neither is its key, as a fresh process has a fresh OXID. `alive` is
whether the server still believes in the client (`client_alive`). `granted`,
`revoked` and `ran` are history variables.

**SessionWake.** A route is a value with an owner: pushing and waking, and
dropping the sender and waking, are separate actions. A command that calls COM
may run the message loop, and so deliver callbacks (`TakeCommand`, first
disjunct). `NoCallbackLeftBehind` is about callbacks the sink has been given;
those in the message queue wake the thread themselves.

**Subscriptions.** `phase` is where the session's thread is. Sources act only
while the thread is in COM or pumps messages for it (`InCom`), as a
single-threaded apartment has it: in Invoke, Advise, Unadvise, the wait, and the
teardown. `advised` and `subs` are the maps of the same names, `handles` the
session's table, `eventHandles` the arguments of each event, `raw` the queue of
callbacks. Of a sink there is `refs`, its own count, `table`, the sources'
references from Advise, and `extra`, what sources copied. An Unadvise may fail,
and leaves the sink `stuck` in the source's table. `shown` and `owed` are what
the client was told and has not given back. The end of the thread follows the
code's order: locals go (`EndLoop`), then subscriptions, callbacks and proxies,
then `CoUninitialize`. What a call or the root's release decides elsewhere (the
registry, routes) is a choice here.

**Variants, OleDates, Invocation, SourceChoice, TypeLibrary, Crossings.** A JSON
value or a VARIANT is a tuple of a tag and what the tag needs; texts, objects and
errors are model values; the width of an integer is scaled (`IntMax` for the edge
of an i32, `Exact` for 2^53), with real arithmetic round the edges. A date is a
sign, days and half seconds, so that the rounding is the code's. A matrix is a
function from pairs of indices. `Crossings` sends each enumerated value through:
every initial state is one crossing and each step one of the code's functions.
Objects are compared, not their reference counts. The reference definitions are
in `Crossings` below its actions: a calendar of its own, what a VARIANT says of a
JSON value, what COM cannot say. Its assumptions say what the inputs are: what
serde_json and the split of a date's text can yield (`CallsAssumption`), names of
members' parameters in a sequence (`MembersAssumption`), VARIANTs as COM has them,
with a cell for every index within an array's bounds and a lower bound at most one
above its upper (`ValuesAssumption`), members of a type library that are scalars
(`LibrariesAssumption`), DISPPARAMS with as many ids as named arguments or with
none (`CallbacksAssumption`), one default source in a coclass
(`EventSourcesAssumption`).

**BridgeProcess.** A client is in `open` at its first try, waiting for the lock,
at its second try, polling for what it spawned, or in the handshake. A connection
is in the backlog until the bridge accepts it, then served, greeted once its ping
is answered, and ending when its thread has left the request loop (`LeaveLoop`),
because the stream has ended (`ReleaseAll`) or because the bridge ends it under a
client that still lives (`EndConnection`). Only a greeted connection can have
sessions; it may be stranded instead of ending, when its thread never comes back
from `release_all` or from the joins after it. A bridge that has decided to exit listens until it does, so a
client can still connect. `elapsed` counts 30-second samples, up to
`IdleSamples`. Clients and bridges may be killed at any step; `gaveUp` records
who left the lock with a bridge still starting.

**Connection.** An id is a pair of session and number; handles and event seqs
share one counter, as in `(session_seq << 32) | local_seq`. The table is the set
of routed ids (the value follows from the id). A handler is `Ask` up to its
`recv`, then `Answer`: the two locks a handler takes are separate steps, and the
session's thread, its callbacks and the forwarder run in between.
`receive_event` is `TakeEvent` and `InsertRoutes`, its two lock sections. What
the registry answers to a release is any of its answers. A frame is the set of
ids it tells the client. `late` records that a route was inserted after the
purge.

**Mailbox.** A lock section that cannot block is one action. `sendall` may block
as long as the peer does not read, so the write is `Register` to `Written` with
the lock held. One caller is the reader thread itself, inside a sink that makes a
call. The bridge may answer, stay silent or go at any time; what is on the wire
when a stream ends may be lost. Each call is made once, each sink registered
once; `close` is called once, from a third thread. A sink that calls `close`
itself, and sinks dropped by the garbage collector, are not distinguished from
one that returns and one that is removed.

**Dispatcher.** A section under the dispatcher's lock is an action; so is each
`get`. `sink` is the dispatcher's own sink, `listed` whether the mailbox holds it
(a closed one does not). The reader looks the sinks up (`Read`) and calls them
later (`CallSink`), so a frame can arrive through a sink taken down meanwhile.
`threads[t].way` says why a thread handles items: live delivery, the drain after
`IDLE`, the fence up to its `RESUME`, the end of the stream. A frame carries a
number and the era it was queued in, which the code does not keep. Callbacks run
between `LookUp` and `Release`; what they do to the tables is what any other
thread may do. `Client.close` waits two seconds for the reader before it tells
the dispatcher: `JoinMayTimeOut` says whether that may be too short. Closures are
run once; the waiting in `await_cleanup` is not there, its signal is `Ack`.

## 4 The runs

| run | instance | question |
|---|---|---|
| `lifetime` | 3 sessions, 2 created instances, waits may fail, symmetry | the safety of shared ownership |
| `promise` | 2 sessions, 2 instances to create and a person's, waits may fail, fairness | refinement of `ShutdownPromise`, its liveness included; abandoned instances; permission, with a person's instance too; connect_or_create |
| `connection` | a session in the registry and one outside, one of them at a time; 4 ids; fairness | told ids are routed, routes resolve, registered sessions keep their root; answers, and the end of connections and sessions |
| `wake` | 3 routes, 4 sends, 2 callbacks, fairness | no wake-up is lost |
| `subscriptions` | 2 objects, 2 events, ids 0 to 3, 1 sink, 1 callback queued, 1 copied reference, fairness | sinks, event arguments, the apartment's end |
| `crossings` | see below | conversions and the choice of a source |
| `process` | 3 clients, 2 bridges, 2 idle samples, a lock that may time out, fairness | one bridge, no exit over a served connection, every open returns, unused bridges go but for stranded ones |
| `mailbox` | 1 call, 1 call on the reader thread, 1 sink, fairness | every way a stream can end |
| `dispatcher` | 1 object, 1 closure, 2 frames, 3 eras, fairness | one thread, nothing stranded, old eras fenced, everything given back |
| `find_...` | as above | see section 6 |

**Bounds, and why they are enough.** Three sessions give a leaving user, one
joining meanwhile, and a third whose registration the first must not disturb;
two created instances let a retrying `connect_or_create` make a fresh one next to
the one that is closing; a person's instance is in the run of two sessions. The
counters of `ran` need no bound: the steps that raise it are on no cycle. In
`Connection`, an id is used for the root, an event's seq, its argument and one
object more (`MaxId = 4`); `MaxSessions` bounds how many are created, and the two
kinds of session are explored by turns. In `SessionWake` three routes are the
table's, a clone in the hands of a request and one in those of the forwarder, and
up to four commands may stand behind one signal. In `Subscriptions` the ids are
the root, a result or a seq, and an argument or two; the sink of one object and a
subscription to another that has to wait for it are enough for each order of
calls, since sinks share nothing, and the inductive invariant was also checked
with two. In `Crossings` integers run round `IntMax` and `Exact` on both sides,
further out where the gaps between doubles are 4, 8 and up to 1024, with ties, and
at either end of an i64; arrays to two by two with every lower bound that matters and every mixture of
their cells' kinds, dates round 1899-12-30, leap days, midnight and the years
that four characters cannot name; calls have up to four positional and two named
arguments, callbacks up to four; a source's evidence is every combination of what
the object and its type information say. In `BridgeProcess` a third client comes
while one holds the lock and another has timed out; two bridges let one exit while
its successor starts. In `Mailbox` one call on the reader's thread and one
elsewhere suffice for every pair that contends for the lock or for a waiter; larger
instances (three calls) were checked for safety with the same result. In
`Dispatcher` three eras allow a thread to sleep through a whole cycle, two frames
to be out of turn; three frames, four eras and three attachments were checked for
safety with the same result. Thread names are reused, so threads are not bounded:
the second name is for the second thread that must not be.

Deadlock is checked for sessions (`AllEnded` is the proper end). It is not for
the others, which really stop: a closed connection, an ended thread, a torn-down
apartment, a crossing that has arrived, no client left, a closed mailbox, nothing
registered.

**What the properties mean.** Each is stated in words where it is defined.

* `SessionLifetime`: `ShutdownOnlyWhenPermitted`, `StepsRunOnce`,
  `UsersStayRegistered`, `InlineShutdownDisturbsNobody` are what a shutdown may
  not do; `ClosingHasOwner`, `PermissionIsKept` and `ConnectOrCreateNeverRefused`
  what must not get lost; `AbandonedIsShutDown` its liveness, `KeepsPromise` the
  refinement.
* `Connection`: `ToldIsRouted` and `RoutesResolve` are the two halves of "the table
  follows the handles", for the moments between requests; `ParticipantKeepsRoot`
  is why a registered session always leaves through the registry.
  `EveryRequestAnswered` and `TeardownEnds` except the late insertion of section
  6; `ParticipantsEnd` does not have to.
* `SessionWake`: `NoLostWakeup`, `NoCallbackLeftBehind`, and
  `LastRouteEndsSession` in the end.
* `Subscriptions`: `AdvisedWhileSubscribed`, `SinkHeldWhileAdvised` and
  `EventArgsResolve` relate the session's tables to the sources' and to what the
  client was told; `TornDownInApartment` and `EndedIsUnadvised` are about the end.
* `Crossings`: `ArgumentsArriveFaithfully` and `EventArgsInOrder` for the two
  directions of a call, `SurvivesReadModifyWrite` for values, dates and constants,
  `SourceIsTheDefault` for subscriptions.
* `BridgeProcess`: `NoSpareBridge`, `ExitDecidedIdle`, `EveryOpenReturns`;
  `UnusedBridgeExits` excepts a bridge that a stranded connection keeps
  (`KeptForGood`), see section 6.
* `Mailbox`: `NobodyForgotten` is the invariant behind `CloseEndsCalls`;
  `SinkToldOnce` says a sink learns of the end exactly once.
* `Dispatcher`: `OneThread` and `NothingStranded` are the two halves of the
  one-thread invariant, `InOrder` and `EveryFrameReleased` that a frame is given
  back once, in turn and in the end; `FencedWhileOpen` is what the markers on the
  queue are for, `ThreadLeaves` that the thread does not outstay its work.

## 5 Fairness

* Sessions: weak fairness on starting up and on ending, since a thread that may
  run does and COM calls return; weak fairness on the release of the root only
  once the connection is gone (`release_all` does it). No client has to release,
  answer or hang up.
* Wake-up: weak fairness on the session's thread and on the second half of a send
  or drop. Nobody has to send or to drop.
* Connection: weak fairness on the request loop, the sessions and the forwarder;
  on the writer only when the client is gone, because a client that stops reading
  may block a write for good. Clients and Office owe nothing.
* Subscriptions: weak fairness on the thread's own steps and on the return of its
  COM calls. No client has to command, no source to call or to let go.
* BridgeProcess: weak fairness on the steps of `open`, and on a bridge's bind,
  accept, samples and exit. A thread whose client is gone leaves its request loop, and
  one that is past its joins lowers the count; that it gets from the one to the
  other is not assumed, since the stranded outcome of `LeaveLoop` is open to every
  connection that had sessions. Nobody has to close or to crash, no bridge has to
  end a connection under a living client, and the wait for the lock may time out; weak fairness suffices for the lock since each
  client takes it once. `Crossings` has no liveness.
* Mailbox: strong fairness, because progress competes for a lock: Python's locks
  give no order, but each holder releases them, and the threads that compete are
  finitely many with finitely many sections each. A write that blocks is not
  fair, nor is the bridge, nor does anybody have to close. A sink that makes a
  call does make it.
* Dispatcher: weak fairness on the dispatcher's and the reader's threads; a
  callback and a closure return, a `release_event` is answered or fails. Nobody
  has to register, unregister, send or close.

## 6 What the code does otherwise than it says

Three runs expect a violation; each is a statement of the repository's own
documentation that the code does not keep.

| run | statement | what happens |
|---|---|---|
| `find_connect_during_steps` | a connect that meets a shutdown raises `InstanceClosingError` | after an answered closure (or the catch-all) `confirm_cleanup` removes the record before the steps run; a connect in between joins a new record on an instance about to quit |
| `find_stranded_session` | `release_all` ends every session of the connection | `receive_event` finds a route under one lock and inserts under another; the purge can fall in between |
| `find_fence_broken` | every era but the one resumed into is drained; no end of stream in front of a marker | an arm on a closed connection queues an end of stream, the next arm's marker comes behind it, and the fence gives up there: a frame of the older era reaches the newer registration |

The abstract promise allows the first, so that the refinement says what the code
does keep: no entry while a shutdown may still be called off, one shutdown,
decided by the last departure.

More was read off the models, without a run of its own:

* Between `create_instance` and `join` another session can connect and join first;
  then `auto_created` stays false and nobody shuts the instance down
  (registry.rs:86). The models have it: only a creator whose record is new grants
  the permission.
* The `callback` flag that `on_root_release` consults is that of the record's first
  registrant, so a last user's closure may not be asked at all, against
  README.md:236; and whose steps are run differs between the answered path and the
  inline one (session.rs:604).
* A session whose wait fails (`WaitMayFail`) ends without `on_root_release` and
  stays in its record's users, hence `Lost` in `AbandonedIsShutDown`.
* A stranded session (`find_stranded_session`) keeps its bridge: `forwarder.join`
  (main.rs:251) does not return, `active_connections` is not lowered (main.rs:99),
  and the idle exit never comes. A COM call that hangs under `release_all` does the
  same. `UnusedBridgeExits` therefore excepts the bridge of a stranded connection.
* A callback queued before an unsubscribe and a new subscription reaches the new
  one (session.rs:646).
* The dispatcher documents one way for a callback to get a frame older than its
  subscription, with other objects registered all along (dispatcher.py:145); a
  frame in front of the `IDLE` marker, or in the thread's hands before it looks the
  target up, is another, with none registered in between.
* "No guessing" between several sources (sink.rs:346): an implemented interface
  whose flags cannot be read is passed over (sink.rs:320), and what is left may
  look like the only one. `SourceIsTheDefault` speaks of legible type information.
* An exception without a text loses its scode (dispatch.rs:165). A double that is
  not finite becomes null (value.rs:149). A matrix without rows comes back as a
  vector without elements (value.rs:432). An array whose element type is not among
  those that can be read is refused on its way back, unless it has no elements:
  then it is an empty array like any other.
* A type library constant that holds an object panics its thread (session.rs:825),
  and with `panic = "abort"` (wineole-bridge/Cargo.toml:30) the process.
* Connections that come and go between two samples do not reset the idle time
  (main.rs:75), and a client that arrives after the deciding sample is cut off
  (main.rs:80).

## 7 What is proved

For every value of the constants, from the named assumptions on them alone: model
values are disjoint from marker values, `Human` is a set of instances, clients and
bridges are finite sets, bounds are natural numbers, and the inputs of
`Subscriptions`, `Invocation`, `Variants` and `Crossings` are of the form section 3
describes. TLC evaluates each of these assumptions in the runs.

* `SessionLifetimeProofs`: `TypeCorrect`, `RunOnce` (`StepsRunOnce`),
  `Permitted` (`ShutdownOnlyWhenPermitted`), `Registered`
  (`UsersStayRegistered`), `InlineUndisturbed`
  (`InlineShutdownDisturbsNobody`), all from `Invariance`; `ClosingIsOwned`
  (`ClosingHasOwner`), `PermissionKeptAlways` (`PermissionIsKept`), `NeverRefused`
  (`ConnectOrCreateNeverRefused`), from `OwnersInvariance`; and `PromiseIsKept`:
  when identities can be read, `Spec` implements the safety part of
  `ShutdownPromise`.
* `SessionWakeProofs`: `NoWakeupLost`, `CallbacksConverted`, `WakeTypeCorrect`.
* `SubscriptionsProofs`: `TypeCorrect`, `AdvisedAlways`
  (`AdvisedWhileSubscribed`), `SinksAccounted` (`SinkHeldWhileAdvised`),
  `ArgumentsResolve` (`EventArgsResolve`), `NothingOutlivesApartment`
  (`TornDownInApartment`), from `Invariance`.
* `ConnectionProofs`: `TypeCorrect`, `TellsWhatIsRouted` (`ToldIsRouted`),
  `EveryRouteResolves` (`RoutesResolve`), `RootStaysRouted`
  (`ParticipantKeepsRoot`), `NobodyForgotten` (whatever the request loop waits for
  is in a channel, answered, or owed by a thread that is ending),
  `NeverDisconnected` (a session in the registry is not ended by the loss of its
  last route), `PurgeEmptiesTable`, from `Invariance`; on top of it
  `ParticipantsLeaveFirst` (past `release_all` no session of the registry runs) and
  `NeverStuck`.
* `CrossingsProofs`: `ArgumentsAlwaysArrive` (`ArgumentsArriveFaithfully`), from
  `Calling`; `ValuesSurvive` (`SurvivesReadModifyWrite`), from `Reading`;
  `OrderedAlways` (`EventArgsInOrder`) and `DefaultSourceAlways`
  (`SourceIsTheDefault`), from `Invariance`.
* `BridgeProcessProofs`: `TypeCorrect`, `SpawnsAreSpared` (`NoSpareBridge`),
  `ExitsIdle` (`ExitDecidedIdle`), from `Invariance`; `OpensNeverStuck`.
* `DispatcherProofs`: `OneThreadAlways`, `NothingStrandedAlways`;
  `GivenBackInOrder` (`InOrder`), `FencedAlways` (`FencedWhileOpen`), from
  `Invariance`.
* `MailboxProofs`: `TypeCorrect`, `EverybodyRemembered` (`NobodyForgotten`),
  `SinksAreTold` (the safety half of `SinkToldOnce`), from `Invariance`;
  `NeverStuck`.

**The inductive invariant of SessionLifetime** (`LifetimeInvariant!IInv`). That
steps run once is not inductive: a record with its permission intact must not
belong to an instance whose steps have run. Hence: an instance has one creator
(`CreatorInv`), whose key is the instance's or its own (`KeyInv`); only a creator
that joins grants a permission (`GrantInv`); the last departure and the
confirmation of a closure use it up, so at most one session per key is past that
decision (`DecidedInv`, `PhaseInv`), it finds the steps not yet run, and
afterwards no record of the key carries the permission except for the moment
between the inline steps and `finish_cleanup` (`RanInv`). `UserInv` relates the
record's users to the sessions. The proof has one lemma for the effect of each
registry method, one for each kind of session step, and `NextIInv` over `Next`.

**Owners and the promise** (`LifetimeInvariant!OwnerInv`, on top of `IInv`). That a
closing record has an owner and a permission a bearer is inductive together with
two facts about sessions halfway: while a closure is being asked, the record is
still closing, or a `leave_open` has revoked the permission, or the steps have
been run (`AskedInv`), and who is about to call `finish_cleanup` has run them
(`FinishingInv`). For `connect_or_create`, a session that has created its root meets
no closing record, because only the creator could have brought one about
(`CreatorMeetsNone`, from `CreatorInv` and `GrantInv`). The refinement proof takes
each kind of step to an action of `ShutdownPromise` or to none: the last user's
release to `Leave` with the decision, another's to `Leave` without (here
`PermissionIsKept` is needed: were the leaver the last of a permitted instance,
the record would have said so), `leave_open` to `Revoke`, the confirmation to
`Commit`, the steps to `End`, a join to `Enter` or `Grant`. It needs
`~IdentityMayFail`, as a session that could not read the identity uses an instance
under a key of its own.

**SessionWake.** `NoLostWakeup` speaks of the sleeping thread; a command pushed
after the drain, while callbacks are converted, must be covered too, so the
invariant proved (`WakeInv`) includes the converting thread.

**Subscriptions.** The invariant adds to the three properties what their steps rest
on: where a call to Advise or Unadvise has got to and with which sink (`Targets`),
that no two objects are advised on one sink (`Distinct`), that a sink someone
refers to has not been freed (`Alive`), that ids not yet minted name nothing
(`NotMinted`), that an id is an argument of at most one event (`OneEvent`), and
what the teardown has emptied by each of its phases (`Emptied`), from which
`TornDownInApartment` follows.

**Connection.** The routing table and the sessions' handles are changed at
different moments by different threads, and neither of the two properties is
inductive. The invariant accounts for every difference. A route whose handle is
gone is `Doomed`: the reply that will take it out is in the request loop's hands.
A handle without a route is one of an event on its way: what is queued or with the
forwarder is disjoint, carries what its session recorded (`Unsent`, `Carries`), and
nobody else has heard of it (`Untold`), so no request can name it before its route
is in. An id that a frame on its way will tell the client is routed if its session
holds it and can still be reached (`Telling`); a session is `Reachable` by another
route or by the clone the forwarder has taken, and once it is not, it never is
again. Ids come from one counter (`FromCounter`) and belong to one event
(`OneEvent`), so an id is never used again for something else. A registered session
keeps the route of its root until its release (`Rooted`), which is why it never
leaves by `Disconnected`; `release_all` visits every root that is left
(`RootsVisited`), and the purge leaves nothing but what was inserted late
(`Purged`). `OneCommand`, `AnswerOwed` and `Replies` tie the request in hand to what
its session has done about it.

**Crossings.** The steps are few, and the invariants (`Underway`, `CallUnderway`,
`ReadUnderway`) say that what is carried at each stage follows from the job. The
work is in the operators, and their lemmas are stated for any argument:

* *Dates.* `value.rs` counts days in eras of 400 years that begin in March, the
  calendar of the properties in years that begin in January. Both are brought to
  the days before the first of March of a year (`MarchDays`): `days_from_civil`
  gives a date the calendar's number (`DaysAreNumbered`), `civil_from_days` yields a
  day of the calendar with the number asked for (`CivilIsDay`), and no two days have
  one number (`DaysAreUnique`). So a date is of the calendar exactly if it comes back
  from its number (`CivilIsInverse`), which is the strict reader's test
  (`AcceptedTexts`), and the text of a date names its second, carries included
  (`TextOfDate`, `DateOfText`).
* *Integers.* An i64 lies where doubles are a known gap apart (`GapsReach`), and
  becomes itself or a double less than one part in 2^53 away (`DoublesAreNear`).
* *Arguments.* Scalars become what says the same or are refused because nothing
  does (`ScalarsRepresent`, `RefusedScalars`), arrays cell by cell (`ArraysArrive`,
  `RefusedArrays`), and positions reversed behind the named ones reach the
  parameters counted from the first (`ArgumentsAreTaken`); a callee that takes the
  call has one value for each (`TakenOnce`).
* *Callbacks.* A set of slots has one enumeration from below, by the number of
  members beneath each (`RankOfMember`, `UpwardsExists`); what `ordered_args` puts
  into the free slots is read back in that order (`OrderIsUndone`).
* *Values.* Every scalar that JSON can say comes back the same (`ScalarReturns`),
  every array cell by cell whatever its lower bounds (`VectorReturns`,
  `MatrixReturns`).
* *Constants.* `FlattenSeq` keeps every element in order (`FlattenedIsPlaced`), so the
  list has the library's constants in the library's order (`LibraryIsListed`), and
  the last of a name in the one is the last in the other (`LastIsDeclaredLast`).
* *Sources.* Of a coclass with one default source the flagged entry is the one
  taken (`DefaultIsTaken`); every answer is a set of one at most (`SourceIsSole`).

`FlattenSeq` is a recursive function, and its lemma needs an induction. The
library's induction rules take an operator as a parameter, which the provers here
do not instantiate; `Induction` states the rule for a set of numbers instead, and
follows from the well-foundedness of the naturals (`LeastNatural`).

**BridgeProcess.** A bridge counts the connections a thread has in hand, stranded
ones included (`Counted`),
and reaches its last sample only by way of the decision to exit (`Young`); who may
spawn holds the lock (`Locked`), and every bridge that is starting has a client
polling for it or one that gave up (`Spared`). Counting is by the cardinality
facts of `FiniteSetTheorems`.

**Dispatcher.** `ThreadInv` is the conjunction of the two properties with the
type of the slot; neither is inductive alone, since a second thread is started by
whoever finds the slot empty, and a slot may be emptied only over an empty queue.

The order of frames (`OrderInv`) is a statement about five places a frame passes:
the wire, the reader, the queue, the hand of the thread and its release. Each is in
order and each is behind the next; the step from hand to release needs the one
thread. The eras (`FenceInv`, as long as the stream is open) need an invariant of
the queue and one of its reader. In the queue (`QueueInv`) frames behind a RESUME
and before the next retirement are of its era or a later one, a RESUME behind which
no retirement stands means that the sink is up, and behind an IDLE there is the
RESUME of the present era if there is a sink. Of the reader (`EraInv`): what a live
thread meets before the next IDLE it may deliver, and it will meet an IDLE unless the
sink is up; a draining thread that sees a sink finds that era's RESUME ahead, and
keeps it ahead while it fences. Once the stream has ended the statement is false,
which is what the run `find_fence_broken` shows.

**Mailbox.** A call that waits could be lost by a sweep that takes the table and
forgets a slot, or by an answer looked up and not delivered. The invariant adds
that a thread has slots in hand only while it sweeps (`SweepInv`), that the lock is
held between steps by a writing call alone (`LockInv`), and for the sinks that a
registered one has been told exactly if the reader has ended (`ToldInv`).

**Nobody waits in a circle.** Three theorems are the safety part of the liveness
properties that concern several waiting threads. Each module of proofs names the
states in which one participant waits, written out as guards because ENABLED is out
of the prover's reach, and `AllWait` is that all of them do. The timeouts and
failures that could end a wait are not counted as moves, nor are clients or callers
that could begin something new, unless it is the callback another thread waits for;
so what is proved is that the system gets on without them.

* *Connection.* The request loop, the sessions' threads, the forwarder and the
  writer all wait only for the client's next request, with the events forwarded and
  the frames written; at the end; or in `join_forwarder` for the session whose route
  came back behind the purge, which is the finding of section 6
  (`NeverStuck`). It needs that a forwarder ends only after the writer or the loop
  (`ForwarderOutlives`), that past `release_all` the registry's sessions have left
  (`ParticipantsLeft`), and from `IInv` that a route keeps its session's sender and
  that what the loop waits for is owed to it.
* *BridgeProcess.* While a client is in `open`, a client or an accept loop can move:
  the lock is held by a client inside the with-block (`Held`), and what waits in a
  backlog is with a bridge that listens (`Queued`).
* *Mailbox.* Callers, the reader and the closer all wait only for the bridge over a
  socket nobody has shut down, or when all is over, or where the reader waits in a
  sink for the answer to its own call (`OnItself`), which nobody else reads and
  which `close` alone ends.

Only model-checked: every liveness property, since fairness is beyond the prover.
These are `AbandonedIsShutDown`, the fairness of `ShutdownPromise` in
`KeepsPromise`, `EveryRequestAnswered`, `TeardownEnds`, `ParticipantsEnd`,
`LastRouteEndsSession`, `EndedIsUnadvised`, `EveryOpenReturns`,
`UnusedBridgeExits`, `CloseEndsCalls`, the second half of `SinkToldOnce`,
`EveryFrameReleased` and `ThreadLeaves`. Every safety property of a passing run is
a theorem.

## 8 What is not modelled

* COM itself and Office: what they may do to the bridge is nondeterminism.
* The layout of an OBJREF (`identity.rs`), the text of frames (`protocol.rs`),
  authentication, command-line arguments and the check of the bind address.
* The wrap of a session's 32-bit counter of ids, beyond any bound TLC can reach.
* Whose cleanup steps are run when several sessions brought some.
* What the Python client builds on its mailbox and dispatcher: registrations
  (`events.py`: one section under one lock each, and `Dispatcher` has what they do
  to the connection), the wait for a cleanup (`cleanup_waiters.py`: one condition
  variable over finished closures, signalled by `Dispatcher`'s `Ack`; a signal
  before the wait and the pruning of old entries are not there), the release of a
  proxy, which inside a callback must not wait for a frame behind that callback
  (client.py:138), the proxies' attribute access.
* The Ruby client, which mirrors the Python one but for its `close` (client.rb).
* The Office wrappers, which are sequential.

`PROJECT.json` lists every component with its status.

## 9 Plan

1. `CleanupWaiters`, composed with the dispatcher: a release inside a callback.
2. `EventRegistry`: `on`, `off` and the subscription they derive.
3. The Ruby mailbox as a variant of `Mailbox`.
