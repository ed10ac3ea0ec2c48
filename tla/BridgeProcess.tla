---------------------------- MODULE BridgeProcess ----------------------------
(***************************************************************************)
(* Bridge processes and the clients that look for one on a port:           *)
(* Client.open of bindings/python/wineole/client.py, and main of           *)
(* wineole-bridge/src/main.rs with its accept loop, its count of           *)
(* connections and its idle timer.  What goes on over a connection is      *)
(* Connection's.                                                           *)
(***************************************************************************)
EXTENDS Naturals, FiniteSets

CONSTANTS
    Clients,        \* each opens one connection
    Bridges,        \* the bridge processes there can be: bounds the spawns
    IdleSamples,    \* samples without a connection before the exit
    LockTimesOut,   \* whether the lock is msvcrt's, which gives up
    None

ASSUME IdleAssumption == IdleSamples \in Nat \ {0}
ASSUME FiniteAssumption == IsFiniteSet(Clients) /\ IsFiniteSet(Bridges)
ASSUME NoneAssumption == None \notin Clients \cup Bridges

VARIABLES
    pc,         \* where a client is in open
    lock,       \* who holds the lock file
    bridge,     \* a process: "none", "starting", "listening", "exiting", "gone"
    elapsed,    \* idle_elapsed_secs of a bridge, in samples
    active,     \* active_connections of a bridge
    on,         \* the bridge a client has connected to
    conn,       \* that connection at the bridge, see Handled
    gaveUp      \* clients that left the lock with a bridge still starting
vars == <<pc, lock, bridge, elapsed, active, on, conn, gaveUp>>

Opening == {"first try", "locking", "second try", "polling", "ping", "locked ping"}
Ended == {"failed", "closed", "killed"}

(* What a thread of the bridge has in hand: accepted, its ping answered,   *)
(* past the request loop, and kept there for good.                         *)
Handled == {"served", "greeted", "ending", "stranded"}

TypeOK ==
    /\ pc \in [Clients -> Opening \cup {"open"} \cup Ended]
    /\ lock \in Clients \cup {None}
    /\ bridge \in [Bridges -> {"none", "starting", "listening", "exiting", "gone"}]
    /\ elapsed \in [Bridges -> 0 .. IdleSamples]
    /\ active \in [Bridges -> Nat]
    /\ on \in [Clients -> Bridges \cup {None}]
    /\ conn \in [Clients -> {"none", "backlog"} \cup Handled]
    /\ gaveUp \subseteq Clients

Init ==
    /\ pc = [c \in Clients |-> "first try"]
    /\ lock = None
    /\ bridge = [b \in Bridges |-> "none"]
    /\ elapsed = [b \in Bridges |-> 0]
    /\ active = [b \in Bridges |-> 0]
    /\ on = [c \in Clients |-> None]
    /\ conn = [c \in Clients |-> "none"]
    /\ gaveUp = {}

Goes(c, to) == pc' = [pc EXCEPT ![c] = to]

(* A process that has decided to exit listens until it does. *)
Listens(b) == bridge[b] \in {"listening", "exiting"}
Refused == \A b \in Bridges : ~Listens(b)

HungUp(c) == pc[c] \in Ended

-----------------------------------------------------------------------------
(* Client.open.                                                            *)

Connect(c, to) ==
    \E b \in Bridges :
        /\ Listens(b)
        /\ on' = [on EXCEPT ![c] = b] /\ conn' = [conn EXCEPT ![c] = "backlog"]
        /\ Goes(c, to)
        /\ UNCHANGED <<lock, bridge, elapsed, active, gaveUp>>

FirstTry(c) ==
    /\ pc[c] = "first try"
    /\ \/ Connect(c, "ping")
       \/ /\ Refused /\ Goes(c, "locking")
          /\ UNCHANGED <<lock, bridge, elapsed, active, on, conn, gaveUp>>

Lock(c) ==
    /\ pc[c] = "locking" /\ lock = None
    /\ lock' = c /\ Goes(c, "second try")
    /\ UNCHANGED <<bridge, elapsed, active, on, conn, gaveUp>>

(* _lock_exclusive on Windows, past its deadline. *)
LockFails(c) ==
    /\ LockTimesOut /\ pc[c] = "locking" /\ lock # None
    /\ Goes(c, "failed")
    /\ UNCHANGED <<lock, bridge, elapsed, active, on, conn, gaveUp>>

SecondTry(c) == pc[c] = "second try" /\ Connect(c, "locked ping")

(* A slip: nobody looks again once the lock is had. *)
MaySpawnUnlooked(c) == pc[c] = "second try"

MaySpawn(c) == pc[c] = "second try" /\ Refused

Spawn(c) ==
    /\ MaySpawn(c) /\ Goes(c, "polling")
    /\ \E b \in Bridges : bridge[b] = "none" /\ bridge' = [bridge EXCEPT ![b] = "starting"]
    /\ UNCHANGED <<lock, elapsed, active, on, conn, gaveUp>>

(* The spawner raises: there is no wine, or no bridge for this machine. *)
SpawnFails(c) ==
    /\ MaySpawn(c) /\ Goes(c, "failed") /\ lock' = None
    /\ UNCHANGED <<bridge, elapsed, active, on, conn, gaveUp>>

Poll(c) == pc[c] = "polling" /\ Connect(c, "locked ping")

(* The deadline has passed; the bridge may still be starting. *)
StopPolling(c) ==
    /\ pc[c] = "polling" /\ Refused
    /\ Goes(c, "failed") /\ lock' = None /\ gaveUp' = gaveUp \cup {c}
    /\ UNCHANGED <<bridge, elapsed, active, on, conn>>

(* A slip: the lock is given up where open returns, not where it raises. *)
UnlockedOnSuccess(c) == lock' = IF lock = c /\ pc'[c] = "open" THEN None ELSE lock

(* The lock goes with the end of its with-block, or with its process. *)
Unlocked(c) == lock' = IF lock = c THEN None ELSE lock

(* The ping is answered, with an error where the token is wrong, or the    *)
(* bridge has closed the connection, by ending it or itself.               *)
Handshake(c) ==
    /\ pc[c] \in {"ping", "locked ping"}
    /\ \/ /\ conn[c] = "served" /\ Goes(c, "open")
          /\ conn' = [conn EXCEPT ![c] = "greeted"]
       \/ conn[c] # "backlog" /\ Goes(c, "failed") /\ UNCHANGED conn
    /\ Unlocked(c)
    /\ UNCHANGED <<bridge, elapsed, active, on, gaveUp>>

Close(c) ==
    /\ pc[c] = "open" /\ Goes(c, "closed")
    /\ UNCHANGED <<lock, bridge, elapsed, active, on, conn, gaveUp>>

(* The client's process is killed. *)
Die(c) ==
    /\ ~HungUp(c) /\ Goes(c, "killed") /\ Unlocked(c)
    /\ gaveUp' = IF pc[c] = "polling" THEN gaveUp \cup {c} ELSE gaveUp
    /\ UNCHANGED <<bridge, elapsed, active, on, conn>>

-----------------------------------------------------------------------------
(* main.                                                                   *)

(* TcpListener::bind: one process listens on a port, another panics. *)
Bind(b) ==
    /\ bridge[b] = "starting"
    /\ bridge' = [bridge EXCEPT ![b] = IF Refused THEN "listening" ELSE "gone"]
    /\ UNCHANGED <<pc, lock, elapsed, active, on, conn, gaveUp>>

(* A slip: the handler counts its connection itself, in its own time. *)
CountLater(b) == UNCHANGED active

Count(b) == active' = [active EXCEPT ![b] = @ + 1]

Accept(b, c) ==
    /\ Listens(b) /\ on[c] = b /\ conn[c] = "backlog"
    /\ conn' = [conn EXCEPT ![c] = "served"] /\ Count(b)
    /\ UNCHANGED <<pc, lock, bridge, elapsed, on, gaveUp>>

(* Past its loop handle_connection releases what the connection owned, and *)
(* joins the forwarder and the writer.  Where there were sessions it may   *)
(* stay there for good: for the session whose route came back behind the   *)
(* purge (Connection, TeardownEnds), or over a COM call that hangs.        *)
LeaveLoop(b, c) ==
    /\ Listens(b) /\ on[c] = b
    /\ \/ conn[c] \in {"served", "greeted"} /\ conn' = [conn EXCEPT ![c] = "ending"]
       \/ conn[c] = "greeted" /\ conn' = [conn EXCEPT ![c] = "stranded"]
    /\ UNCHANGED <<pc, lock, bridge, elapsed, active, on, gaveUp>>

(* The end of the stream. *)
ReleaseAll(b, c) == HungUp(c) /\ LeaveLoop(b, c)

(* The socket cannot be cloned, read or written, or a frame is malformed.  *)
EndConnection(b, c) == ~HungUp(c) /\ LeaveLoop(b, c)

(* A slip: the handler does not come back to its count. *)
UncountSkipped(b) == UNCHANGED active

Discount(b) == active' = [active EXCEPT ![b] = @ - 1]

(* Its sessions have ended and handle_connection has returned. *)
Uncount(b, c) ==
    /\ Listens(b) /\ on[c] = b /\ conn[c] = "ending"
    /\ conn' = [conn EXCEPT ![c] = "none"] /\ Discount(b)
    /\ UNCHANGED <<pc, lock, bridge, elapsed, on, gaveUp>>

(* The idle thread, every thirty seconds. *)
Sample(b) ==
    /\ bridge[b] = "listening"
    /\ elapsed' = [elapsed EXCEPT ![b] = IF active[b] = 0 THEN @ + 1 ELSE 0]
    /\ bridge' = [bridge EXCEPT ![b] = IF elapsed'[b] = IdleSamples THEN "exiting" ELSE @]
    /\ UNCHANGED <<pc, lock, active, on, conn, gaveUp>>

(* The process ends with all its threads, and its sockets with it. *)
Gone(b) ==
    /\ bridge' = [bridge EXCEPT ![b] = "gone"]
    /\ conn' = [c \in Clients |-> IF on[c] = b THEN "none" ELSE conn[c]]
    /\ elapsed' = [elapsed EXCEPT ![b] = 0] /\ active' = [active EXCEPT ![b] = 0]
    /\ UNCHANGED <<pc, lock, on, gaveUp>>

Exit(b) == bridge[b] = "exiting" /\ Gone(b)

(* It may also be killed at any time, or panic. *)
Crash(b) == bridge[b] \in {"starting", "listening"} /\ Gone(b)

-----------------------------------------------------------------------------
Open(c) ==
    \/ FirstTry(c) \/ Lock(c) \/ SecondTry(c) \/ Spawn(c) \/ SpawnFails(c)
    \/ Poll(c) \/ StopPolling(c) \/ Handshake(c)

Serve(b) ==
    \/ Bind(b) \/ Sample(b) \/ Exit(b)
    \/ \E c \in Clients : Accept(b, c) \/ ReleaseAll(b, c) \/ EndConnection(b, c) \/ Uncount(b, c)

Next ==
    \/ \E c \in Clients : Open(c) \/ LockFails(c) \/ Close(c) \/ Die(c)
    \/ \E b \in Bridges : Serve(b) \/ Crash(b)

Fairness ==
    /\ \A c \in Clients :
          WF_vars(FirstTry(c)) /\ WF_vars(Lock(c)) /\ WF_vars(SecondTry(c) \/ Spawn(c) \/ SpawnFails(c))
          /\ WF_vars(Poll(c) \/ StopPolling(c)) /\ WF_vars(Handshake(c))
    /\ \A b \in Bridges :
          /\ WF_vars(Bind(b)) /\ WF_vars(Sample(b)) /\ WF_vars(Exit(b))
          /\ \A c \in Clients : WF_vars(Accept(b, c)) /\ WF_vars(ReleaseAll(b, c)) /\ WF_vars(Uncount(b, c))

Spec == Init /\ [][Next]_vars /\ Fairness

-----------------------------------------------------------------------------
(* open, the lock and the second try: however many clients find no bridge  *)
(* at once, one more is started only for one that stopped waiting for its  *)
(* own, or was killed while it waited.                                     *)
NoSpareBridge ==
    Cardinality({b \in Bridges : bridge[b] \in {"starting", "listening"}}) <= 1 + Cardinality(gaveUp)

(* main, the idle timer: the decision to exit is never taken while a       *)
(* connection is served, or one's sessions are still ending or hang, which *)
(* would leave what they automate behind.                                  *)
ExitDecidedIdle ==
    [][\A b \in Bridges : bridge[b] = "listening" /\ bridge'[b] = "exiting" =>
          \A c \in Clients : on[c] = b => conn[c] \notin Handled]_vars

(* open returns or raises: nobody waits for ever for the lock of somebody  *)
(* who died or waits for a bridge that never comes, nor for the answer of  *)
(* a bridge that exits under the handshake.                                *)
EveryOpenReturns ==
    \A c \in Clients : pc[c] \in Opening ~> pc[c] \in {"open"} \cup Ended

(* A handler never returned, and the count never comes back to zero. *)
KeptForGood(b) == \E c \in Clients : on[c] = b /\ conn[c] = "stranded"

(* A bridge nobody uses any more is gone some day, however its clients and *)
(* its connections ended, and also one that was started in vain; all but   *)
(* the bridge that a handler which does not return keeps.                  *)
UnusedBridgeExits ==
    (\A c \in Clients : pc[c] \in Ended) ~>
        (\A b \in Bridges : bridge[b] \in {"none", "gone"} \/ KeptForGood(b))
==============================================================================
