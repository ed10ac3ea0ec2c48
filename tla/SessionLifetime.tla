--------------------------- MODULE SessionLifetime ---------------------------
(***************************************************************************)
(* The life of a session thread (wineole-bridge/src/session.rs, spawn) as  *)
(* far as it decides the life of an Office instance: how it obtains its    *)
(* root, joins the registry, answers commands on the root, runs the        *)
(* cleanup steps and ends.                                                 *)
(*                                                                         *)
(* Threads interleave between any two calls into the registry or into COM: *)
(* each such call is one action.  A session's connection sends it one      *)
(* command at a time, and answers no request while a command is handled,   *)
(* so a command can arrive exactly when the thread is in its loop          *)
(* (pc = "serving").                                                       *)
(***************************************************************************)
EXTENDS InstanceRegistry, Naturals

CONSTANTS
    Human,              \* instances a person started before the bridge
    IdentityMayFail,    \* may instance_key fail (synthetic_key is used then)?
    WaitMayFail,        \* may MsgWaitForMultipleObjects fail (Wake::Failed)?
    NoInstance, NoKey

ASSUME HumanAssumption == Human \subseteq Instances
ASSUME FlagAssumption == IdentityMayFail \in BOOLEAN /\ WaitMayFail \in BOOLEAN
ASSUME NoneAssumption == NoInstance \notin Instances /\ NoKey \notin Keys

VARIABLES
    instance,   \* instance[i]: the process: unborn, running or quit
    pc,         \* where the session's thread is
    mode,       \* SpawnMode
    root,       \* the instance whose root the session holds
    created,    \* ready_tx's second component: the session created its root
    key,        \* the key in participation; NoKey: not (yet) a participant
    wants,      \* cfg.callback: this session's client has an on_cleanup closure
    pending,    \* pending_cleanup is Some
    alive,      \* the server has not seen the client's connection end
    ran,        \* history: how often cleanup steps were run on each instance
    granted,    \* history: keys under which a shutdown was ever permitted
    revoked     \* history: keys whose permission a leave_open took away

sessionVars == <<mode, root, created, key, wants, alive>>
history     == <<ran, granted, revoked>>
vars == <<records, instance, pc, sessionVars, pending, history>>

Mode == {"create", "connect", "connect_or_create"}

PC == {"idle",        \* not started
       "attached",    \* holds a root, has not asked the registry
       "retry",       \* connect_or_create met a closing record
       "rejoining",   \* ... and created a fresh instance
       "serving",     \* in the loop
       "inline",      \* about to run the steps, record still closing
       "finishing",   \* has run them, finish_cleanup to come
       "catchall",    \* out of the loop with a $cleanup pending
       "answered",    \* release_event confirmed the shutdown, steps to run
       "confirmed",   \* the catch-all confirmed it, steps to run
       "leaving",     \* out of the loop: apartment torn down next
       "refused",     \* spawn failed with InstanceClosingError
       "gone"}        \* thread ended

TypeOK ==
    /\ RegistryTypeOK
    /\ instance \in [Instances -> {"unborn", "running", "quit"}]
    /\ pc \in [Sessions -> PC]
    /\ mode \in [Sessions -> Mode]
    /\ root \in [Sessions -> Instances \cup {NoInstance}]
    /\ created \in [Sessions -> BOOLEAN]
    /\ key \in [Sessions -> Keys \cup {NoKey}]
    /\ wants \in [Sessions -> BOOLEAN]
    /\ pending \in [Sessions -> BOOLEAN]
    /\ alive \in [Sessions -> BOOLEAN]
    /\ ran \in [Instances -> Nat]
    /\ granted \in SUBSET Keys
    /\ revoked \in SUBSET Keys

Init ==
    /\ RegistryInit
    /\ instance = [i \in Instances |-> IF i \in Human THEN "running" ELSE "unborn"]
    /\ pc = [s \in Sessions |-> "idle"]
    /\ mode = [s \in Sessions |-> "create"]
    /\ root = [s \in Sessions |-> NoInstance]
    /\ created = [s \in Sessions |-> FALSE]
    /\ key = [s \in Sessions |-> NoKey]
    /\ wants = [s \in Sessions |-> FALSE]
    /\ pending = [s \in Sessions |-> FALSE]
    /\ alive = [s \in Sessions |-> TRUE]
    /\ ran = [i \in Instances |-> 0]
    /\ granted = {}
    /\ revoked = {}

Goto(s, from, to) == pc[s] = from /\ pc' = [pc EXCEPT ![s] = to]

-----------------------------------------------------------------------------
(* Starting a session.                                                     *)

(* What create_instance, get_active_object and connect_or_create return:   *)
(* the running object table names any running instance, or none although   *)
(* one runs, so connect_or_create may do either.                           *)
Obtainable(m, i) ==
    \/ m # "connect" /\ instance[i] = "unborn"
    \/ m # "create"  /\ instance[i] = "running"

Attach(s, m, i) ==
    /\ Goto(s, "idle", "attached")
    /\ Obtainable(m, i)
    /\ mode' = [mode EXCEPT ![s] = m]
    /\ root' = [root EXCEPT ![s] = i]
    /\ created' = [created EXCEPT ![s] = (instance[i] = "unborn")]
    /\ instance' = [instance EXCEPT ![i] = "running"]
    /\ UNCHANGED <<records, key, wants, pending, alive, history>>

(* COM refused to hand out a root: the thread reports the error and ends. *)
AttachFails(s) ==
    /\ Goto(s, "idle", "gone")
    /\ UNCHANGED <<records, instance, sessionVars, pending, history>>

(* A request without cleanup: the session never joins the registry. *)
StayOut(s) ==
    /\ Goto(s, "attached", "serving")
    /\ UNCHANGED <<records, instance, sessionVars, pending, history>>

(* The key instance_key or, failing that, synthetic_key yields. *)
PossibleKeys(s) == {root[s]} \cup (IF IdentityMayFail THEN {s} ELSE {})

JoinAs(s, k, callback, auto) ==
    /\ Join(k, s, auto, callback)
    /\ key' = [key EXCEPT ![s] = k]
    /\ wants' = [wants EXCEPT ![s] = callback]
    /\ granted' = IF auto /\ ~records[k].present THEN granted \cup {k} ELSE granted
    /\ UNCHANGED <<instance, mode, root, created, pending, alive, ran, revoked>>

JoinRegistry(s, k, callback) ==
    /\ Goto(s, "attached", "serving")
    /\ k \in PossibleKeys(s)
    /\ JoinAs(s, k, callback, created[s])

(* A slip: every mode gives up on a closing record. *)
MeetClosingGivesUp(s, k) ==
    /\ pc[s] \in {"attached", "rejoining"}
    /\ k \in PossibleKeys(s)
    /\ IsClosing(k)
    /\ pc' = [pc EXCEPT ![s] = "refused"]
    /\ UNCHANGED <<records, instance, sessionVars, pending, history>>

(* Closing: connect reports InstanceClosingError, connect_or_create drops  *)
(* the root and goes on to create an instance of its own.  A fresh         *)
(* instance that answers Closing is reported, not retried.                 *)
MeetClosing(s, k) ==
    /\ pc[s] \in {"attached", "rejoining"}
    /\ k \in PossibleKeys(s)
    /\ IsClosing(k)
    /\ pc' = [pc EXCEPT ![s] =
                 IF @ = "attached" /\ mode[s] = "connect_or_create"
                 THEN "retry" ELSE "refused"]
    /\ UNCHANGED <<records, instance, sessionVars, pending, history>>

CreateFresh(s, i) ==
    /\ Goto(s, "retry", "rejoining")
    /\ instance[i] = "unborn"
    /\ instance' = [instance EXCEPT ![i] = "running"]
    /\ root' = [root EXCEPT ![s] = i]
    /\ created' = [created EXCEPT ![s] = TRUE]
    /\ UNCHANGED <<records, mode, key, wants, pending, alive, history>>

CreateFreshFails(s) ==
    /\ Goto(s, "retry", "gone")
    /\ UNCHANGED <<records, instance, sessionVars, pending, history>>

JoinFresh(s, k, callback) ==
    /\ Goto(s, "rejoining", "serving")
    /\ k \in PossibleKeys(s)
    /\ JoinAs(s, k, callback, TRUE)

-----------------------------------------------------------------------------
(* Commands.                                                               *)

Participates(s) == key[s] # NoKey

(* A slip: no catch-all for a pending $cleanup. *)
AfterLoopWithoutCatchAll(s) == "leaving"

(* Where the thread goes when it breaks out of the loop. *)
AfterLoop(s) == IF pending[s] THEN "catchall" ELSE "leaving"

(* A session outside the registry lets go of its last handle, or loses its *)
(* connection.                                                             *)
ReleaseLastHandle(s) ==
    /\ ~Participates(s)
    /\ Goto(s, "serving", "leaving")
    /\ UNCHANGED <<records, instance, sessionVars, pending, history>>

(* The connection ended.  release_all then sends Release(client_alive =    *)
(* false) for the root, whose route is in the table while the session      *)
(* serves: handle_release removes it only when the session is done.        *)
Disconnect(s) ==
    /\ pc[s] # "idle"
    /\ alive[s]
    /\ alive' = [alive EXCEPT ![s] = FALSE]
    /\ UNCHANGED <<records, instance, pc, mode, root, created, key, wants, pending, history>>

MayAsk(s) == IsLastUser(key[s], s) /\ records[key[s]].callback /\ alive[s]

(* Release(root), last user of an instance whose record wants a callback,  *)
(* client alive: ask the client, stay in the loop.                         *)
AskClosure(s) ==
    /\ Participates(s)
    /\ Goto(s, "serving", "serving")
    /\ MayAsk(s)
    /\ OnRootRelease(key[s], s)
    /\ pending' = [pending EXCEPT ![s] = TRUE]
    /\ UNCHANGED <<instance, sessionVars, ran, granted, revoked>>

(* Release(root), last user otherwise: the steps run inline. *)
ShutDownInline(s) ==
    /\ Participates(s)
    /\ Goto(s, "serving", "inline")
    /\ IsLastUser(key[s], s) /\ ~MayAsk(s)
    /\ OnRootRelease(key[s], s)
    /\ UNCHANGED <<instance, sessionVars, pending, history>>

(* Release(root), not the last: leave the instance alone.  A second        *)
(* release while the closure is still being asked comes here too.          *)
LeaveInUse(s) ==
    /\ Participates(s)
    /\ Goto(s, "serving", AfterLoop(s))
    /\ ~IsLastUser(key[s], s)
    /\ OnRootRelease(key[s], s)
    /\ UNCHANGED <<instance, sessionVars, pending, history>>

LeaveOpen(s) ==
    /\ alive[s] /\ Participates(s)
    /\ Goto(s, "serving", "serving")
    /\ LeaveOpenRecord(key[s])
    /\ revoked' = IF records[key[s]].auto THEN revoked \cup {key[s]} ELSE revoked
    /\ UNCHANGED <<instance, sessionVars, pending, ran, granted>>

(* release_event with the pending seq: the closure has answered. *)
ClosureAnswered(s) ==
    /\ alive[s] /\ pending[s]
    /\ Goto(s, "serving", IF IsClosing(key[s]) THEN "answered" ELSE "catchall")
    /\ ConfirmCleanup(key[s])
    /\ UNCHANGED <<instance, sessionVars, pending, history>>

(* Wake::Failed: out of the loop without telling the registry. *)
WaitFails(s) ==
    /\ WaitMayFail
    /\ Goto(s, "serving", AfterLoop(s))
    /\ UNCHANGED <<records, instance, sessionVars, pending, history>>

-----------------------------------------------------------------------------
(* Shutting down and ending.                                               *)

(* run_cleanup_steps is best effort: the instance quits, or a step failed  *)
(* and it runs on.                                                         *)
RunSteps(s, from, to) ==
    /\ Goto(s, from, to)
    /\ ran' = [ran EXCEPT ![root[s]] = @ + 1]
    /\ \/ instance' = [instance EXCEPT ![root[s]] = "quit"]
       \/ UNCHANGED instance
    /\ UNCHANGED <<records, sessionVars, pending, granted, revoked>>

RunInlineSteps(s) == RunSteps(s, "inline", "finishing")

(* pending_cleanup stays Some after the answer, so the code meets the      *)
(* catch-all, and confirm_cleanup, a second time.                          *)
RunAnsweredSteps(s) == RunSteps(s, "answered", "catchall")

RunConfirmedSteps(s) == RunSteps(s, "confirmed", "leaving")

FinishShutdown(s) ==
    /\ Goto(s, "finishing", AfterLoop(s))
    /\ FinishCleanup(key[s])
    /\ UNCHANGED <<instance, sessionVars, pending, history>>

(* The check after the loop: a $cleanup was pending. *)
CatchAll(s) ==
    /\ Goto(s, "catchall", IF IsClosing(key[s]) THEN "confirmed" ELSE "leaving")
    /\ ConfirmCleanup(key[s])
    /\ UNCHANGED <<instance, sessionVars, pending, history>>

(* The apartment is torn down, then the last release is acknowledged. *)
Leave(s) ==
    /\ Goto(s, "leaving", "gone")
    /\ UNCHANGED <<records, instance, sessionVars, pending, history>>

(* Nothing is left to do: every session has ended. *)
AllEnded ==
    /\ \A s \in Sessions : pc[s] \in {"refused", "gone"}
    /\ UNCHANGED vars

-----------------------------------------------------------------------------
Start(s) ==
    \/ \E m \in Mode, i \in Instances : Attach(s, m, i)
    \/ AttachFails(s)

EnterRegistry(s) ==
    \/ StayOut(s)
    \/ \E k \in Keys : MeetClosing(s, k)
    \/ \E k \in Keys, c \in BOOLEAN : JoinRegistry(s, k, c) \/ JoinFresh(s, k, c)
    \/ \E i \in Instances : CreateFresh(s, i)
    \/ CreateFreshFails(s)

ReleaseRoot(s) ==
    \/ ReleaseLastHandle(s)
    \/ AskClosure(s)
    \/ ShutDownInline(s)
    \/ LeaveInUse(s)

EndSession(s) ==
    \/ RunInlineSteps(s)
    \/ RunAnsweredSteps(s)
    \/ RunConfirmedSteps(s)
    \/ FinishShutdown(s)
    \/ CatchAll(s)
    \/ Leave(s)

Next ==
    \/ \E s \in Sessions :
          \/ Start(s)
          \/ EnterRegistry(s)
          \/ ReleaseRoot(s)
          \/ LeaveOpen(s)
          \/ ClosureAnswered(s)
          \/ WaitFails(s)
          \/ EndSession(s)
          \/ Disconnect(s)
    \/ AllEnded

Spec == Init /\ [][Next]_vars

(* A started thread runs on, its COM calls return, and a connection that   *)
(* ended has its handles released.  Nothing obliges a client to release,   *)
(* to answer a $cleanup, or to go away.                                    *)
Fairness ==
    \A s \in Sessions :
        /\ WF_vars(EnterRegistry(s))
        /\ WF_vars(EndSession(s))
        /\ WF_vars(~alive[s] /\ ReleaseRoot(s))

FairSpec == Spec /\ Fairness

-----------------------------------------------------------------------------
(* Properties.                                                             *)

(* A session that counts as a user: its root not yet released. *)
InUse(s) == pc[s] = "serving" /\ Participates(s) /\ ~pending[s]

(* A session that has taken on a shutdown and not finished it. *)
OwesShutdown(s) ==
    \/ pc[s] \in {"inline", "finishing", "answered", "confirmed"}
    \/ pending[s] /\ pc[s] \in {"serving", "catchall"}

(* README "Instance ownership and cleanup": steps are run only for an      *)
(* instance the bridge created, never for a person's own, and not once a   *)
(* leave_open has taken the permission away, even from inside the closure  *)
(* (confirm_cleanup's `closing` test).                                     *)
ShutdownOnlyWhenPermitted ==
    /\ \A i \in Instances : ran[i] > 0 => i \notin Human
    /\ \A s \in Sessions :
         pc[s] \in {"inline", "finishing", "answered", "confirmed"}
            => key[s] \in granted \ revoked

(* The comment on the catch-all, "this never double-fires": however a      *)
(* release, a second release, the closure's answer and a lost connection   *)
(* follow each other, an instance gets the steps at most once.             *)
StepsRunOnce == \A i \in Instances : ran[i] <= 1

(* Nobody's registration is lost while they use the instance: neither by   *)
(* another's departure nor by the confirm_cleanup of a session that        *)
(* re-opened the record to joiners (registry.rs, confirm_cleanup).         *)
UsersStayRegistered ==
    \A s \in Sessions : InUse(s) => s \in records[key[s]].users

(* While steps run inline the record still says closing, so no session     *)
(* other than the one running them uses the instance or can join it.       *)
InlineShutdownDisturbsNobody ==
    \A s \in Sessions : pc[s] = "inline" =>
        /\ IsClosing(key[s])
        /\ \A t \in Sessions : key[t] = key[s] => ~InUse(t)

(* A closing record always has a live session that will clear it, so a     *)
(* connect cannot be refused for ever by a shutdown nobody carries out.    *)
ClosingHasOwner ==
    \A k \in Keys : IsClosing(k) =>
        \E s \in Sessions : key[s] = k /\ OwesShutdown(s)

(* README "InstanceClosingError": connect_or_create never raises it.       *)
ConnectOrCreateNeverRefused ==
    \A s \in Sessions : pc[s] = "refused" => mode[s] = "connect"

(* A permission to shut down is never mislaid: until the steps are run or  *)
(* leave_open revokes it, the record still carries it or a session has     *)
(* taken the shutdown on.                                                  *)
PermissionIsKept ==
    \A k \in granted \ revoked :
        \/ records[k].auto
        \/ \E s \in Sessions : key[s] = k /\ (OwesShutdown(s) \/ ran[root[s]] > 0)

Abandoned(k) ==
    /\ k \in granted
    /\ \A s \in Sessions : key[s] = k \/ root[s] = k => ~alive[s]

(* A session whose wait failed has left its thread and not the registry.   *)
Lost(k) == \E s \in Sessions : pc[s] = "gone" /\ s \in records[k].users

(* session.rs, the catch-all ("the bridge still owns the shutdown"): an    *)
(* auto-created instance all of whose clients are gone gets its steps,     *)
(* unless leave_open forbade it, somebody new attaches meanwhile, or a     *)
(* failed wait took a user's thread before it could leave.                 *)
AbandonedIsShutDown ==
    \A k \in Instances :
        Abandoned(k) ~>
            (ran[k] > 0 \/ k \in revoked \/ Lost(k) \/ ~Abandoned(k))

(* README "InstanceClosingError": who connects to an instance in the       *)
(* middle of its shutdown is refused.  So no steps run on an instance a    *)
(* session has joined.                                                     *)
ConnectRefusedDuringShutdown ==
    \A s, t \in Sessions :
        pc[s] \in {"inline", "answered", "confirmed"} /\ InUse(t) => key[s] # key[t]
=============================================================================
