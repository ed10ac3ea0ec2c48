-------------------------- MODULE InstanceRegistry --------------------------
(***************************************************************************)
(* wineole-bridge/src/registry.rs: who is using each Office instance, and  *)
(* who may shut it down.  A record grants permission (auto) and keeps the  *)
(* set of users whose last departure is the time to shut down.             *)
(*                                                                         *)
(* Every method of InstanceRegistry takes the mutex for its whole body, so *)
(* each one is a single step here: an operator that fixes records'.        *)
(* The results the methods return are the state predicates the sessions    *)
(* test: IsClosing (JoinResult, and the boolean of confirm_cleanup) and    *)
(* IsLastUser (LeaveDecision).                                             *)
(***************************************************************************)

CONSTANTS
    Sessions,   \* session threads, named by session_seq
    Instances   \* COM server processes, named by the (OXID, OID) of their root

(* The two kinds of key never collide (identity.rs: a real OID is small, a *)
(* synthetic key has u64::MAX in its place).                               *)
ASSUME KeysDistinct == Instances \cap Sessions = {}

(* The key of an instance is its identity, or, when reading the identity   *)
(* failed, a key private to the session.                                   *)
Keys == Instances \cup Sessions

VARIABLE records

Record == [present : BOOLEAN, auto : BOOLEAN, users : SUBSET Sessions,
           closing : BOOLEAN, callback : BOOLEAN]

(* A key the map does not hold. *)
Absent == [present |-> FALSE, auto |-> FALSE, users |-> {},
           closing |-> FALSE, callback |-> FALSE]

NewRecord(s, auto, callback) ==
    [present |-> TRUE, auto |-> auto, users |-> {s},
     closing |-> FALSE, callback |-> callback]

RegistryInit == records = [k \in Keys |-> Absent]

(* Types, and the shape every method keeps: what is not in the map is      *)
(* empty, and of an auto-created instance the record is closing exactly    *)
(* when it has no users.                                                   *)
RegistryTypeOK ==
    /\ records \in [Keys -> Record]
    /\ \A k \in Keys :
         /\ ~records[k].present => records[k] = Absent
         /\ records[k].closing => records[k].auto /\ records[k].users = {}
         /\ records[k].auto /\ records[k].users = {} => records[k].closing

-----------------------------------------------------------------------------
IsClosing(k) == records[k].closing

Joined(k, s, auto, callback) ==
    IF records[k].present
    THEN [records[k] EXCEPT !.users = records[k].users \cup {s}]
    ELSE NewRecord(s, auto, callback)

(* A slip: the closing test forgotten. *)
JoinWithoutClosingCheck(k, s, auto, callback) ==
    records' = [records EXCEPT ![k] = Joined(k, s, auto, callback)]

(* join, when it answers Joined: an existing record keeps its permission,  *)
(* its steps and its callback flag; a closing one is never joined.         *)
Join(k, s, auto, callback) ==
    /\ ~IsClosing(k)
    /\ records' = [records EXCEPT ![k] = Joined(k, s, auto, callback)]

UsersWithout(k, s) == records[k].users \ {s}

(* A slip: only records with a callback are ever shut down. *)
IsLastUserToAsk(k, s) ==
    /\ records[k].auto /\ records[k].callback
    /\ ~records[k].closing
    /\ UsersWithout(k, s) = {}

(* on_root_release answers RunCleanup. *)
IsLastUser(k, s) ==
    /\ records[k].present
    /\ records[k].auto
    /\ ~records[k].closing
    /\ UsersWithout(k, s) = {}

AfterRelease(k, s) ==
    IF IsLastUser(k, s)
    THEN [records[k] EXCEPT !.users = {}, !.closing = TRUE]
    ELSE IF UsersWithout(k, s) = {} /\ ~records[k].closing
         THEN Absent
         ELSE [records[k] EXCEPT !.users = UsersWithout(k, s)]

(* on_root_release: the user goes; the last one of an auto-created record  *)
(* marks it closing, the last one of any other open record removes it.     *)
OnRootRelease(k, s) == records' = [records EXCEPT ![k] = AfterRelease(k, s)]

(* Two slips: a late joiner's record dropped, a confirmed one kept. *)
ConfirmCleanupDropsAlways(k) == records' = [records EXCEPT ![k] = Absent]
ConfirmCleanupKeeps(k) ==
    records' = [records EXCEPT ![k] =
        IF ~records[k].closing /\ records[k].users = {} THEN Absent ELSE @]

(* confirm_cleanup: its answer is IsClosing(k) before the step.  A closing *)
(* record is removed; a re-opened one only if nobody has joined it.        *)
ConfirmCleanup(k) ==
    records' = [records EXCEPT ![k] =
        IF records[k].closing \/ records[k].users = {} THEN Absent ELSE @]

(* finish_cleanup: remove, whatever the record says. *)
FinishCleanup(k) == records' = [records EXCEPT ![k] = Absent]

(* A slip: the shutdown in progress is not called off. *)
LeaveOpenKeepsClosing(k) == records' = [records EXCEPT ![k].auto = FALSE]

(* leave_open: permission revoked, a shutdown in progress called off. *)
Reopened(k) ==
    IF records[k].present
    THEN [records[k] EXCEPT !.auto = FALSE, !.closing = FALSE]
    ELSE records[k]

LeaveOpenRecord(k) == records' = [records EXCEPT ![k] = Reopened(k)]
=============================================================================
