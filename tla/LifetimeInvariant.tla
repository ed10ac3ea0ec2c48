-------------------------- MODULE LifetimeInvariant --------------------------
(***************************************************************************)
(* The inductive invariant of SessionLifetime: why the steps are run at    *)
(* most once and only with permission.  The argument: an instance has one  *)
(* creator; only its creator can bring a record with permission, and does  *)
(* so once; taking a shutdown on uses that permission up.                  *)
(***************************************************************************)
EXTENDS SessionLifetime

(* A session past the decision to shut its instance down. *)
Decided(s) ==
    \/ pending[s]
    \/ pc[s] \in {"inline", "finishing", "answered", "confirmed", "catchall"}

RootInv ==
    /\ \A i \in Human : instance[i] # "unborn"
    /\ \A s \in Sessions :
         /\ \/ created[s]
            \/ key[s] # NoKey
            \/ pc[s] \in {"attached", "retry", "rejoining", "serving"}
            => root[s] \in Instances
         /\ root[s] \in Instances => instance[root[s]] # "unborn"
         /\ created[s] => root[s] \notin Human
         /\ pc[s] = "rejoining" => created[s]

(* An instance has one creator. *)
CreatorInv ==
    \A s, t \in Sessions :
        created[s] /\ created[t] /\ root[s] = root[t] => s = t

KeyInv ==
    \A s \in Sessions : key[s] # NoKey =>
        /\ key[s] \in {root[s], s}
        /\ pc[s] \notin {"idle", "attached", "retry", "rejoining", "refused"}

(* Permission comes from a creator that has joined. *)
GrantInv ==
    /\ revoked \subseteq granted
    /\ \A k \in granted : \E c \in Sessions : created[c] /\ key[c] = k
    /\ \A k \in Keys : records[k].auto => k \in granted \ revoked

DecidedInv ==
    /\ \A s \in Sessions : Decided(s) =>
         /\ key[s] \in granted
         /\ records[key[s]].auto => records[key[s]].closing
    /\ \A s, t \in Sessions :
         Decided(s) /\ Decided(t) /\ key[s] = key[t] => s = t

PhaseInv ==
    \A s \in Sessions :
        /\ pc[s] \in {"answered", "catchall"} => pending[s]
        /\ pc[s] \in {"inline", "finishing"} => records[key[s]].closing
        /\ pc[s] \in {"answered", "confirmed"} => ~records[key[s]].auto
        /\ pc[s] \in {"inline", "finishing", "answered", "confirmed"}
              => key[s] \notin revoked

UserInv ==
    /\ \A k \in Keys : \A s \in records[k].users :
         key[s] = k /\ ~pending[s] /\ pc[s] \in {"serving", "leaving", "gone"}
    /\ \A s \in Sessions : InUse(s) => s \in records[key[s]].users

(* Steps are run by a decided session, of an instance nothing has been run *)
(* on, and use up the record's permission.                                 *)
RanInv ==
    /\ \A i \in Instances : ran[i] > 0 =>
         ran[i] = 1 /\ \E c \in Sessions : created[c] /\ root[c] = i /\ key[c] \in granted
    /\ \A s \in Sessions :
         /\ pc[s] \in {"inline", "answered", "confirmed"} => ran[root[s]] = 0
         /\ key[s] # NoKey /\ records[key[s]].auto /\ ran[root[s]] > 0
              => \E t \in Sessions : key[t] = key[s] /\ pc[t] = "finishing"

IInv ==
    /\ TypeOK /\ RootInv /\ CreatorInv /\ KeyInv /\ GrantInv
    /\ DecidedInv /\ PhaseInv /\ UserInv /\ RanInv

(***************************************************************************)
(* What keeps a permission and a closing record from being mislaid.  While *)
(* a closure is being asked the record still says closing, unless a        *)
(* leave_open has called the shutdown off or the steps have been run.      *)
(***************************************************************************)
AskedInv ==
    \A s \in Sessions : pending[s] /\ pc[s] \in {"serving", "catchall"} =>
        records[key[s]].closing \/ key[s] \in revoked \/ ran[root[s]] > 0

FinishingInv == \A s \in Sessions : pc[s] = "finishing" => ran[root[s]] > 0

(* Who creates without connecting has created what it holds. *)
ModeInv == \A s \in Sessions : pc[s] = "attached" /\ mode[s] = "create" => created[s]

(* With every identity read, an instance's key is the instance. *)
IdentityInv == ~IdentityMayFail => \A s \in Sessions : key[s] \in {root[s], NoKey}

OwnerInv ==
    /\ AskedInv /\ FinishingInv /\ ModeInv /\ IdentityInv
    /\ ClosingHasOwner /\ PermissionIsKept /\ ConnectOrCreateNeverRefused
=============================================================================
