----------------------- MODULE SessionLifetimeProofs -----------------------
(***************************************************************************)
(* Proofs about SessionLifetime, for any number of sessions and instances: *)
(* what a shutdown may not do (IInv), that no permission and no closing    *)
(* record is mislaid and connect_or_create never refused (OwnerInv), and   *)
(* that the safety of ShutdownPromise is kept.                             *)
(***************************************************************************)
EXTENDS LifetimeRefinement, LifetimeInvariant, TLAPS

-----------------------------------------------------------------------------
(* What each method of the registry does to the record it is called for.   *)
(* Every other record stays as it is.                                      *)

OnlyChanges(k) == \A j \in Keys \ {k} : records'[j] = records[j]

LEMMA JoinEffect ==
    ASSUME RegistryTypeOK, NEW k \in Keys, NEW s \in Sessions,
           NEW auto \in BOOLEAN, NEW callback \in BOOLEAN,
           Join(k, s, auto, callback)
    PROVE  /\ RegistryTypeOK'
           /\ OnlyChanges(k)
           /\ ~records[k].closing /\ ~records'[k].closing
           /\ records'[k].users = records[k].users \cup {s}
           /\ records[k].present => (records'[k].auto <=> records[k].auto)
           /\ ~records[k].present => (records'[k].auto <=> auto)
<1> DEFINE new == Joined(k, s, auto, callback)
<1>1. /\ new \in Record
      /\ new.present /\ ~new.closing
      /\ new.users = records[k].users \cup {s}
      /\ records[k].present => (new.auto <=> records[k].auto)
      /\ ~records[k].present => (new.auto <=> auto)
      /\ ~records[k].closing
  <2>1. records[k] \in Record /\ ~records[k].closing
    BY DEF RegistryTypeOK, Join, IsClosing
  <2>2. CASE records[k].present
    BY <2>1, <2>2 DEF Record, Joined
  <2>3. CASE ~records[k].present
    BY <2>1, <2>3 DEF RegistryTypeOK, Record, Joined, NewRecord, Absent
  <2> QED BY <2>2, <2>3
<1>2. records' = [records EXCEPT ![k] = new] /\ s \in new.users
  BY <1>1 DEF Join
<1> HIDE DEF new
<1> QED BY <1>1, <1>2 DEF RegistryTypeOK, OnlyChanges

LEMMA OnRootReleaseEffect ==
    ASSUME RegistryTypeOK, NEW k \in Keys, NEW s \in Sessions, OnRootRelease(k, s)
    PROVE  /\ RegistryTypeOK'
           /\ OnlyChanges(k)
           /\ records'[k].users = records[k].users \ {s}
           /\ records'[k].auto <=> records[k].auto
           /\ records'[k].closing <=> (records[k].closing \/ IsLastUser(k, s))
<1> DEFINE new == AfterRelease(k, s)
<1>0. records[k] \in Record
  BY DEF RegistryTypeOK
<1>1. /\ new \in Record
      /\ ~new.present => new = Absent
      /\ new.users = records[k].users \ {s}
      /\ new.auto <=> records[k].auto
      /\ new.closing <=> (records[k].closing \/ IsLastUser(k, s))
      /\ new.closing => new.auto /\ new.users = {}
      /\ new.auto /\ new.users = {} => new.closing
  <2>1. CASE IsLastUser(k, s)
    BY <1>0, <2>1 DEF Record, IsLastUser, UsersWithout, AfterRelease
  <2>2. CASE ~IsLastUser(k, s) /\ UsersWithout(k, s) = {} /\ ~records[k].closing
    <3>1. ~records[k].auto
      BY <2>2 DEF RegistryTypeOK, Absent, IsLastUser
    <3> QED BY <1>0, <2>2, <3>1 DEF Record, Absent, UsersWithout, AfterRelease
  <2>3. CASE ~IsLastUser(k, s) /\ ~(UsersWithout(k, s) = {} /\ ~records[k].closing)
    <3>1. new = [records[k] EXCEPT !.users = UsersWithout(k, s)]
      BY <2>3 DEF AfterRelease
    <3>2. records[k].present
      BY <1>0, <2>3 DEF RegistryTypeOK, Absent, UsersWithout
    <3>3. records[k].closing => records[k].users = {} /\ records[k].auto
      BY DEF RegistryTypeOK
    <3> HIDE DEF new
    <3> QED BY <1>0, <2>3, <3>1, <3>2, <3>3 DEF Record, UsersWithout
  <2> QED BY <2>1, <2>2, <2>3
<1>2. records' = [records EXCEPT ![k] = new]
  BY DEF OnRootRelease
<1> HIDE DEF new
<1> QED BY <1>1, <1>2 DEF RegistryTypeOK, OnlyChanges

LEMMA ConfirmCleanupEffect ==
    ASSUME RegistryTypeOK, NEW k \in Keys, ConfirmCleanup(k)
    PROVE  /\ RegistryTypeOK'
           /\ OnlyChanges(k)
           /\ records'[k].users = records[k].users
           /\ ~records'[k].closing
           /\ records[k].closing => ~records'[k].auto
           /\ ~records[k].closing => (records'[k].auto <=> records[k].auto)
<1>1. records[k] \in Record
  BY DEF RegistryTypeOK
<1>2. CASE records[k].closing \/ records[k].users = {}
  BY <1>1, <1>2 DEF RegistryTypeOK, OnlyChanges, Record, Absent, ConfirmCleanup
<1>3. CASE ~(records[k].closing \/ records[k].users = {})
  BY <1>1, <1>3 DEF RegistryTypeOK, OnlyChanges, ConfirmCleanup
<1> QED BY <1>2, <1>3

LEMMA FinishCleanupEffect ==
    ASSUME RegistryTypeOK, NEW k \in Keys, FinishCleanup(k)
    PROVE  /\ RegistryTypeOK'
           /\ OnlyChanges(k)
           /\ records'[k] = Absent
BY DEF RegistryTypeOK, OnlyChanges, Record, Absent, FinishCleanup

LEMMA LeaveOpenEffect ==
    ASSUME RegistryTypeOK, NEW k \in Keys, LeaveOpenRecord(k)
    PROVE  /\ RegistryTypeOK'
           /\ OnlyChanges(k)
           /\ records'[k].users = records[k].users
           /\ ~records'[k].auto /\ ~records'[k].closing
<1> DEFINE new == Reopened(k)
<1>1. /\ new \in Record
      /\ ~new.present => new = Absent
      /\ new.users = records[k].users
      /\ ~new.auto /\ ~new.closing
  <2>1. records[k] \in Record
    BY DEF RegistryTypeOK
  <2>2. CASE records[k].present
    BY <2>1, <2>2 DEF Record, Reopened
  <2>3. CASE ~records[k].present
    BY <2>1, <2>3 DEF RegistryTypeOK, Record, Absent, Reopened
  <2> QED BY <2>2, <2>3
<1>2. records' = [records EXCEPT ![k] = new]
  BY DEF LeaveOpenRecord
<1> HIDE DEF new
<1> QED BY <1>1, <1>2 DEF RegistryTypeOK, OnlyChanges

-----------------------------------------------------------------------------
USE KeysDistinct, HumanAssumption, FlagAssumption, NoneAssumption

LEMMA InitIInv == Init => IInv
<1> SUFFICES ASSUME Init PROVE IInv
  OBVIOUS
<1>1. TypeOK
  BY DEF Init, TypeOK, RegistryInit, RegistryTypeOK, Record, Absent, PC, Mode
<1>2. RootInv /\ CreatorInv /\ KeyInv
  BY DEF Init, RootInv, CreatorInv, KeyInv
<1>3. GrantInv /\ DecidedInv /\ PhaseInv
  BY DEF Init, RegistryInit, GrantInv, DecidedInv, Decided, PhaseInv, Absent
<1>4. UserInv /\ RanInv
  BY DEF Init, RegistryInit, UserInv, InUse, RanInv, Absent
<1> QED BY <1>1, <1>2, <1>3, <1>4 DEF IInv

(* Steps that only move a thread on, before it joins or after it is out of *)
(* the loop, without touching the registry or an instance.                 *)
QuietMove(s) ==
    \/ AttachFails(s) \/ StayOut(s) \/ CreateFreshFails(s)
    \/ \E k \in Keys : MeetClosing(s, k)
    \/ ReleaseLastHandle(s) \/ WaitFails(s) \/ Leave(s)

LEMMA QuietStep ==
    ASSUME IInv, NEW s \in Sessions, QuietMove(s)
    PROVE  IInv'
<1>1. PICK to \in PC :
        /\ pc' = [pc EXCEPT ![s] = to]
        /\ \/ pc[s] = "idle" /\ to = "gone"
           \/ pc[s] = "attached" /\ to \in {"serving", "retry", "refused"}
           \/ pc[s] = "rejoining" /\ to = "refused"
           \/ pc[s] = "retry" /\ to = "gone"
           \/ pc[s] = "serving" /\ to = "leaving"
           \/ pc[s] = "serving" /\ to = "catchall" /\ pending[s]
           \/ pc[s] = "leaving" /\ to = "gone"
  BY DEF QuietMove, AttachFails, StayOut, CreateFreshFails, MeetClosing,
         ReleaseLastHandle, WaitFails, Leave, Goto, AfterLoop, PC, IInv, TypeOK
<1>2. UNCHANGED <<records, instance, sessionVars, pending, history>>
  BY DEF QuietMove, AttachFails, StayOut, CreateFreshFails, MeetClosing,
         ReleaseLastHandle, WaitFails, Leave
<1> USE <1>1, <1>2 DEF sessionVars, history
<1>3. TypeOK'
  BY DEF IInv, TypeOK, RegistryTypeOK
<1>4. RootInv' /\ CreatorInv' /\ KeyInv'
  BY DEF IInv, TypeOK, RootInv, CreatorInv, KeyInv
<1>5. GrantInv' /\ DecidedInv'
  BY DEF IInv, TypeOK, GrantInv, DecidedInv, Decided
<1>6. PhaseInv'
  BY DEF IInv, TypeOK, PhaseInv
<1>7. UserInv'
  BY DEF IInv, TypeOK, KeyInv, UserInv, InUse, Participates
<1>8. RanInv'
  BY DEF IInv, TypeOK, RanInv
<1> QED BY <1>3, <1>4, <1>5, <1>6, <1>7, <1>8 DEF IInv

LEMMA DisconnectStep ==
    ASSUME IInv, NEW s \in Sessions, Disconnect(s)
    PROVE  IInv'
<1> USE DEF Disconnect, history
<1>1. TypeOK'
  BY DEF IInv, TypeOK, RegistryTypeOK
<1>2. RootInv' /\ CreatorInv' /\ KeyInv' /\ GrantInv' /\ DecidedInv'
  BY DEF IInv, RootInv, CreatorInv, KeyInv, GrantInv, DecidedInv, Decided
<1>3. PhaseInv' /\ UserInv' /\ RanInv'
  BY DEF IInv, PhaseInv, UserInv, InUse, Participates, RanInv
<1> QED BY <1>1, <1>2, <1>3 DEF IInv

LEMMA AttachStep ==
    ASSUME IInv, NEW s \in Sessions, NEW m \in Mode, NEW i \in Instances,
           Attach(s, m, i)
    PROVE  IInv'
<1> USE DEF Attach, Goto, history
<1>1. TypeOK'
  BY DEF IInv, TypeOK, RegistryTypeOK, PC
<1>2. key[s] = NoKey /\ root[s] \in Instances \cup {NoInstance}
  BY DEF IInv, TypeOK, KeyInv
<1>3. \A t \in Sessions : root[t] \in Instances => instance[root[t]] # "unborn"
  BY DEF IInv, RootInv
<1>4. RootInv'
  BY <1>2, <1>3 DEF IInv, TypeOK, RootInv
<1>5. CreatorInv'
  BY <1>3 DEF IInv, TypeOK, RootInv, CreatorInv
<1>6. KeyInv'
  BY <1>2 DEF IInv, TypeOK, KeyInv
<1>7. GrantInv' /\ DecidedInv' /\ PhaseInv'
  BY <1>2 DEF IInv, TypeOK, GrantInv, DecidedInv, Decided, PhaseInv
<1>8. UserInv'
  BY <1>2 DEF IInv, TypeOK, UserInv, InUse, Participates
<1>9. RanInv'
  BY <1>2 DEF IInv, TypeOK, GrantInv, RanInv
<1> QED BY <1>1, <1>4, <1>5, <1>6, <1>7, <1>8, <1>9 DEF IInv

LEMMA CreateFreshStep ==
    ASSUME IInv, NEW s \in Sessions, NEW i \in Instances, CreateFresh(s, i)
    PROVE  IInv'
<1> USE DEF CreateFresh, Goto, history
<1>1. TypeOK'
  BY DEF IInv, TypeOK, RegistryTypeOK, PC
<1>2. key[s] = NoKey
  BY DEF IInv, TypeOK, KeyInv
<1>3. \A t \in Sessions : root[t] \in Instances => instance[root[t]] # "unborn"
  BY DEF IInv, RootInv
<1>4. RootInv'
  BY <1>2, <1>3 DEF IInv, TypeOK, RootInv
<1>5. CreatorInv'
  BY <1>3 DEF IInv, TypeOK, RootInv, CreatorInv
<1>6. KeyInv'
  BY <1>2 DEF IInv, TypeOK, KeyInv
<1>7. GrantInv' /\ DecidedInv' /\ PhaseInv'
  BY <1>2 DEF IInv, TypeOK, GrantInv, DecidedInv, Decided, PhaseInv
<1>8. UserInv'
  BY <1>2 DEF IInv, TypeOK, UserInv, InUse, Participates
<1>9. RanInv'
  BY <1>2 DEF IInv, TypeOK, GrantInv, RanInv
<1> QED BY <1>1, <1>4, <1>5, <1>6, <1>7, <1>8, <1>9 DEF IInv

-----------------------------------------------------------------------------
(* Consequences of the invariant the remaining steps use.                  *)

LEMMA KeyFacts ==
    ASSUME IInv, NEW s \in Sessions
    PROVE  /\ granted \subseteq Keys /\ NoKey \notin granted
           /\ key[s] # NoKey => key[s] \in Keys /\ root[s] \in Instances
           /\ Decided(s) => key[s] \in Keys
           /\ InUse(s) => key[s] \in Keys
BY DEF IInv, TypeOK, RootInv, DecidedInv, InUse, Participates

(* Who shares a granted key with its creator shares the creator's root. *)
LEMMA CreatorOf ==
    ASSUME IInv, NEW s \in Sessions, key[s] \in granted
    PROVE  \E c \in Sessions : created[c] /\ key[c] = key[s] /\ root[c] = root[s]
<1>1. PICK c \in Sessions : created[c] /\ key[c] = key[s]
  BY DEF IInv, GrantInv
<1>2. key[s] # NoKey
  BY KeyFacts
<1>3. /\ key[s] \in {root[s], s} /\ key[c] \in {root[c], c}
      /\ root[s] \in Instances /\ root[c] \in Instances
  BY <1>1, <1>2 DEF IInv, RootInv, KeyInv
<1>4. root[c] = root[s]
  BY <1>1, <1>3
<1> QED BY <1>1, <1>4

(* An instance is never shut down under two keys. *)
LEMMA OneKeyPerRoot ==
    ASSUME IInv, NEW s \in Sessions, NEW t \in Sessions,
           key[s] \in granted, key[t] \in granted, root[s] = root[t]
    PROVE  key[s] = key[t]
BY CreatorOf DEF IInv, CreatorInv

LEMMA JoinStep ==
    ASSUME IInv, NEW s \in Sessions, NEW k \in PossibleKeys(s), NEW callback \in BOOLEAN,
           pc[s] \in {"attached", "rejoining"}, pc' = [pc EXCEPT ![s] = "serving"],
           JoinAs(s, k, callback, created[s])
    PROVE  IInv'
<1> USE DEF JoinAs
<1>1. /\ key[s] = NoKey /\ root[s] \in Instances
      /\ k \in {root[s], s} /\ k \in Keys
      /\ created[s] \in BOOLEAN
  BY DEF IInv, TypeOK, RootInv, KeyInv, PossibleKeys, Keys
<1>2. ~Decided(s) /\ \A u \in Keys : s \notin records[u].users
  BY <1>1, KeyFacts DEF IInv, DecidedInv, UserInv
<1>3. /\ RegistryTypeOK' /\ OnlyChanges(k)
      /\ ~records[k].closing /\ ~records'[k].closing
      /\ records'[k].users = records[k].users \cup {s}
      /\ records[k].present => (records'[k].auto <=> records[k].auto)
      /\ ~records[k].present => (records'[k].auto <=> created[s])
  BY <1>1, JoinEffect DEF IInv, TypeOK
<1>4. ~records[k].present => ~records[k].auto
  BY <1>1 DEF IInv, TypeOK, RegistryTypeOK, Absent
<1>5. \A t \in Sessions : key[t] = k => root[t] = root[s]
  BY <1>1 DEF IInv, RootInv, KeyInv
<1>6. created[s] => k \notin granted
  <2> SUFFICES ASSUME created[s], k \in granted PROVE FALSE
    OBVIOUS
  <2>1. PICK c \in Sessions : created[c] /\ key[c] = k
    BY DEF IInv, GrantInv
  <2> QED BY <1>1, <1>5, <2>1 DEF IInv, CreatorInv
<1>7. created[s] => ran[root[s]] = 0
  <2> SUFFICES ASSUME created[s], ran[root[s]] > 0 PROVE FALSE
    BY <1>1 DEF IInv, TypeOK
  <2>1. PICK c \in Sessions : created[c] /\ root[c] = root[s] /\ key[c] \in granted
    BY <1>1 DEF IInv, RanInv
  <2>2. c = s
    BY <2>1 DEF IInv, CreatorInv
  <2> QED BY <1>1, <2>1, <2>2, KeyFacts
<1>8. TypeOK'
  BY <1>1, <1>3 DEF IInv, TypeOK, PC
<1>9. RootInv' /\ CreatorInv' /\ KeyInv'
  BY <1>1 DEF IInv, TypeOK, RootInv, CreatorInv, KeyInv
<1>10. GrantInv'
  <2>1. revoked' \subseteq granted'
    BY DEF IInv, GrantInv
  <2>2. \A g \in granted' : \E c \in Sessions : created'[c] /\ key'[c] = g
    <3> SUFFICES ASSUME NEW g \in granted' PROVE \E c \in Sessions : created[c] /\ key'[c] = g
      OBVIOUS
    <3>1. CASE g \in granted
      <4>1. PICK c \in Sessions : created[c] /\ key[c] = g
        BY <3>1 DEF IInv, GrantInv
      <4> QED BY <1>1, <3>1, <4>1, KeyFacts DEF IInv, TypeOK
    <3>2. CASE g \notin granted
      BY <3>2 DEF IInv, TypeOK
    <3> QED BY <3>1, <3>2
  <2>3. \A j \in Keys : records'[j].auto => j \in granted' \ revoked'
    BY <1>3, <1>4, <1>6 DEF IInv, GrantInv, OnlyChanges
  <2> QED BY <2>1, <2>2, <2>3 DEF GrantInv
<1>11. \A t \in Sessions : Decided(t)' <=> Decided(t)
  BY <1>2 DEF IInv, TypeOK, Decided
<1>12. DecidedInv'
  <2>1. ASSUME NEW t \in Sessions, Decided(t)
        PROVE  /\ key'[t] = key[t] /\ key[t] \in granted /\ key[t] \in Keys
               /\ records'[key[t]].auto => records'[key[t]].closing
    <3>1. t # s /\ key'[t] = key[t] /\ key[t] \in granted /\ key[t] \in Keys
      BY <1>2, <2>1, KeyFacts DEF IInv, TypeOK, DecidedInv
    <3>2. CASE key[t] = k
      BY <1>3, <1>4, <1>6, <2>1, <3>1, <3>2 DEF IInv, DecidedInv
    <3>3. CASE key[t] # k
      BY <1>3, <2>1, <3>1, <3>3 DEF IInv, DecidedInv, OnlyChanges
    <3> QED BY <3>1, <3>2, <3>3
  <2>2. granted \subseteq granted'
    OBVIOUS
  <2> QED BY <1>11, <2>1, <2>2 DEF IInv, DecidedInv
<1>13. PhaseInv'
  <2> SUFFICES ASSUME NEW t \in Sessions
               PROVE  /\ pc'[t] \in {"answered", "catchall"} => pending'[t]
                      /\ pc'[t] \in {"inline", "finishing"} => records'[key'[t]].closing
                      /\ pc'[t] \in {"answered", "confirmed"} => ~records'[key'[t]].auto
                      /\ pc'[t] \in {"inline", "finishing", "answered", "confirmed"}
                            => key'[t] \notin revoked'
    BY DEF PhaseInv
  <2>1. CASE t = s
    BY <2>1 DEF IInv, TypeOK
  <2>2. CASE t # s /\ Decided(t)
    <3>1. key'[t] = key[t] /\ key[t] \in granted /\ key[t] \in Keys
      BY <2>2, KeyFacts DEF IInv, TypeOK, DecidedInv
    <3>2. CASE key[t] = k
      BY <1>3, <1>4, <1>6, <2>2, <3>1, <3>2 DEF IInv, TypeOK, PhaseInv
    <3>3. CASE key[t] # k
      BY <1>3, <2>2, <3>1, <3>3 DEF IInv, TypeOK, PhaseInv, OnlyChanges
    <3> QED BY <3>2, <3>3
  <2>3. CASE t # s /\ ~Decided(t)
    BY <2>3 DEF IInv, TypeOK, Decided
  <2> QED BY <2>1, <2>2, <2>3
<1>14. UserInv'
  <2>1. \A j \in Keys : \A u \in records'[j].users :
          key'[u] = j /\ ~pending'[u] /\ pc'[u] \in {"serving", "leaving", "gone"}
    BY <1>1, <1>2, <1>3 DEF IInv, TypeOK, UserInv, OnlyChanges, Decided, RegistryTypeOK, Record
  <2>2. ASSUME NEW t \in Sessions, InUse(t)' PROVE t \in records'[key'[t]].users
    <3>1. CASE t = s
      BY <1>3, <3>1 DEF IInv, TypeOK
    <3>2. CASE t # s
      <4>1. InUse(t) /\ key'[t] = key[t] /\ key[t] \in Keys
        BY <2>2, <3>2, KeyFacts DEF IInv, TypeOK, InUse, Participates
      <4>2. t \in records[key[t]].users
        BY <4>1 DEF IInv, UserInv
      <4> QED BY <1>3, <4>1, <4>2 DEF OnlyChanges
    <3> QED BY <3>1, <3>2
  <2> QED BY <2>1, <2>2 DEF UserInv
<1>15. RanInv'
  <2>1. \A i \in Instances : ran'[i] > 0 =>
          ran'[i] = 1 /\ \E c \in Sessions : created'[c] /\ root'[c] = i /\ key'[c] \in granted'
    <3> SUFFICES ASSUME NEW i \in Instances, ran[i] > 0
                 PROVE  ran[i] = 1 /\ \E c \in Sessions : created[c] /\ root[c] = i /\ key'[c] \in granted'
      OBVIOUS
    <3>1. PICK c \in Sessions : created[c] /\ root[c] = i /\ key[c] \in granted
      BY DEF IInv, RanInv
    <3>2. c # s
      BY <1>1, <3>1, KeyFacts
    <3> QED BY <3>1, <3>2 DEF IInv, TypeOK, RanInv
  <2>2. ASSUME NEW t \in Sessions, pc'[t] \in {"inline", "answered", "confirmed"}
        PROVE  ran'[root'[t]] = 0
    BY <2>2 DEF IInv, TypeOK, RanInv
  <2>3. ASSUME NEW t \in Sessions, key'[t] # NoKey, records'[key'[t]].auto, ran'[root'[t]] > 0
        PROVE  \E u \in Sessions : key'[u] = key'[t] /\ pc'[u] = "finishing"
    <3>1. key'[t] \in Keys
      BY <2>3, <1>8 DEF TypeOK
    <3>2. CASE key'[t] # k
      BY <1>1, <1>3, <2>3, <3>1, <3>2 DEF IInv, TypeOK, RanInv, OnlyChanges
    <3>3. CASE key'[t] = k
      <4>1. root[t] = root[s]
        BY <1>5, <3>3 DEF IInv, TypeOK
      <4>2. records[k].auto
        BY <1>3, <1>4, <1>7, <2>3, <3>3, <4>1 DEF IInv, TypeOK
      <4>3. PICK c \in Sessions : created[c] /\ key[c] = k
        BY <1>1, <4>2 DEF IInv, GrantInv
      <4>4. root[c] = root[s]
        BY <1>5, <4>3
      <4>5. PICK u \in Sessions : key[u] = k /\ pc[u] = "finishing"
        BY <1>1, <2>3, <4>1, <4>2, <4>3, <4>4 DEF IInv, RanInv
      <4> QED BY <3>3, <4>5 DEF IInv, TypeOK
    <3> QED BY <3>2, <3>3
  <2> QED BY <2>1, <2>2, <2>3 DEF RanInv
<1> QED BY <1>8, <1>9, <1>10, <1>12, <1>13, <1>14, <1>15 DEF IInv

-----------------------------------------------------------------------------
(* Releasing the root.                                                     *)

(* The last user takes the shutdown on, asking the client or not. *)
LEMMA TakeOnStep ==
    ASSUME IInv, NEW s \in Sessions, AskClosure(s) \/ ShutDownInline(s)
    PROVE  IInv'
<1> DEFINE k == key[s]
<1>1. /\ k \in Keys /\ pc[s] = "serving" /\ IsLastUser(k, s) /\ OnRootRelease(k, s)
      /\ \/ pc' = [pc EXCEPT ![s] = "serving"] /\ pending' = [pending EXCEPT ![s] = TRUE]
         \/ pc' = [pc EXCEPT ![s] = "inline"] /\ pending' = pending
      /\ UNCHANGED <<instance, mode, root, created, key, wants, alive, ran, granted, revoked>>
  BY DEF AskClosure, ShutDownInline, MayAsk, Participates, Goto, IInv, TypeOK, sessionVars, history
<1>2. /\ RegistryTypeOK' /\ OnlyChanges(k)
      /\ records'[k].users = {} /\ records'[k].closing
      /\ ~records[k].closing /\ records[k].auto
  BY <1>1, OnRootReleaseEffect DEF IInv, TypeOK, IsLastUser, UsersWithout
<1>3. /\ k \in granted \ revoked
      /\ \A t \in Sessions : key[t] = k => ~Decided(t)
  BY <1>1, <1>2 DEF IInv, GrantInv, DecidedInv
<1>4. ran[root[s]] = 0
  <2>1. root[s] \in Instances
    BY <1>1 DEF IInv, RootInv
  <2>2. ran[root[s]] > 0 => \E t \in Sessions : key[t] = k /\ pc[t] = "finishing"
    BY <1>1, <1>2, NoneAssumption DEF IInv, RanInv
  <2> QED BY <1>3, <2>1, <2>2 DEF IInv, TypeOK, Decided
<1>5. \A t \in Sessions : Decided(t)' <=> t = s \/ Decided(t)
  BY <1>1 DEF IInv, TypeOK, Decided
<1> HIDE DEF k
<1>6. \A t \in Sessions \ {s} : pc'[t] = pc[t] /\ pending'[t] = pending[t]
  BY <1>1 DEF IInv, TypeOK
<1>7. pc'[s] \in {"serving", "inline"} /\ (pc'[s] = "serving" => pending'[s])
  BY <1>1 DEF IInv, TypeOK
<1>8. TypeOK'
  BY <1>1, <1>2 DEF IInv, TypeOK, PC
<1>9. RootInv' /\ CreatorInv' /\ KeyInv'
  BY <1>1, <1>6, <1>7 DEF IInv, RootInv, CreatorInv, KeyInv, k
<1>10. GrantInv'
  BY <1>1, <1>2, <1>3 DEF IInv, GrantInv, OnlyChanges
<1>11. DecidedInv'
  BY <1>1, <1>2, <1>3, <1>5, KeyFacts DEF IInv, DecidedInv, OnlyChanges, k
<1>12. PhaseInv'
  <2> SUFFICES ASSUME NEW t \in Sessions
               PROVE  /\ pc'[t] \in {"answered", "catchall"} => pending'[t]
                      /\ pc'[t] \in {"inline", "finishing"} => records'[key[t]].closing
                      /\ pc'[t] \in {"answered", "confirmed"} => ~records'[key[t]].auto
                      /\ pc'[t] \in {"inline", "finishing", "answered", "confirmed"}
                            => key[t] \notin revoked
    BY <1>1 DEF PhaseInv
  <2>1. CASE t = s
    BY <1>2, <1>3, <1>7, <2>1 DEF k
  <2>2. CASE t # s /\ ~Decided(t)
    BY <1>6, <2>2 DEF Decided
  <2>3. CASE t # s /\ Decided(t)
    <3>1. key[t] \in Keys /\ key[t] # k
      BY <1>3, <2>3, KeyFacts
    <3> QED BY <1>2, <1>6, <2>3, <3>1 DEF IInv, PhaseInv, OnlyChanges
  <2> QED BY <2>1, <2>2, <2>3
<1>13. UserInv'
  <2>1. \A j \in Keys : \A u \in records'[j].users : j # k /\ u \in records[j].users
    BY <1>2 DEF OnlyChanges
  <2>2. \A j \in Keys : \A u \in records'[j].users :
          u \in Sessions /\ u # s /\ key[u] = j /\ ~pending[u]
             /\ pc[u] \in {"serving", "leaving", "gone"}
    BY <2>1, <1>8 DEF IInv, UserInv, k, TypeOK, RegistryTypeOK, Record
  <2>3. ASSUME NEW t \in Sessions, InUse(t)' PROVE t \in records'[key[t]].users
    <3>1. t # s /\ InUse(t) /\ key[t] \in Keys
      BY <1>1, <1>6, <1>7, <2>3, KeyFacts DEF InUse, Participates
    <3>2. t \in records[key[t]].users
      BY <3>1 DEF IInv, UserInv
    <3>3. key[t] # k
      BY <1>1, <3>1, <3>2 DEF IsLastUser, UsersWithout
    <3> QED BY <1>2, <3>1, <3>2, <3>3 DEF OnlyChanges
  <2> QED BY <1>1, <1>6, <2>2, <2>3 DEF UserInv
<1>14. RanInv'
  <2>1. \A t \in Sessions : pc'[t] \in {"inline", "answered", "confirmed"} => ran[root[t]] = 0
    BY <1>4, <1>6 DEF IInv, RanInv
  <2>2. ASSUME NEW t \in Sessions, key[t] # NoKey, records'[key[t]].auto, ran[root[t]] > 0
        PROVE  \E u \in Sessions : key[u] = key[t] /\ pc'[u] = "finishing"
    <3>1. key[t] \in Keys /\ records[key[t]].auto
      BY <1>2, <2>2, KeyFacts DEF OnlyChanges
    <3>2. PICK u \in Sessions : key[u] = key[t] /\ pc[u] = "finishing"
      BY <2>2, <3>1 DEF IInv, RanInv
    <3> QED BY <1>1, <1>6, <3>2
  <2> QED BY <1>1, <2>1, <2>2 DEF IInv, RanInv
<1> QED BY <1>8, <1>9, <1>10, <1>11, <1>12, <1>13, <1>14 DEF IInv

LEMMA LeaveInUseStep ==
    ASSUME IInv, NEW s \in Sessions, LeaveInUse(s)
    PROVE  IInv'
<1> DEFINE k == key[s]
<1>1. /\ k \in Keys /\ pc[s] = "serving" /\ ~IsLastUser(k, s) /\ OnRootRelease(k, s)
      /\ \/ pc' = [pc EXCEPT ![s] = "leaving"] /\ ~pending[s]
         \/ pc' = [pc EXCEPT ![s] = "catchall"] /\ pending[s]
      /\ UNCHANGED <<instance, mode, root, created, key, wants, alive, pending,
                     ran, granted, revoked>>
  BY DEF LeaveInUse, AfterLoop, Participates, Goto, IInv, TypeOK, sessionVars, history
<1>2. /\ RegistryTypeOK' /\ OnlyChanges(k)
      /\ records'[k].users = records[k].users \ {s}
      /\ records'[k].auto <=> records[k].auto
      /\ records'[k].closing <=> records[k].closing
  BY <1>1, OnRootReleaseEffect DEF IInv, TypeOK
<1>3. /\ \A j \in Keys : /\ records'[j].auto <=> records[j].auto
                         /\ records'[j].closing <=> records[j].closing
                         /\ records'[j].users = records[j].users \ (IF j = k THEN {s} ELSE {})
      /\ \A t \in Sessions : Decided(t)' <=> Decided(t)
  BY <1>1, <1>2 DEF OnlyChanges, IInv, TypeOK, Decided
<1> HIDE DEF k
<1>4. /\ \A t \in Sessions \ {s} : pc'[t] = pc[t]
      /\ pc'[s] \in {"leaving", "catchall"} /\ (pc'[s] = "catchall" => pending[s])
  BY <1>1 DEF IInv, TypeOK
<1>5. TypeOK'
  BY <1>1, <1>2 DEF IInv, TypeOK, PC
<1>6. RootInv' /\ CreatorInv' /\ KeyInv'
  BY <1>1, <1>4 DEF IInv, RootInv, CreatorInv, KeyInv, k
<1>7. GrantInv' /\ DecidedInv'
  BY <1>1, <1>3, KeyFacts DEF IInv, GrantInv, DecidedInv
<1>8. PhaseInv'
  <2>1. \A t \in Sessions :
          pc'[t] \in {"inline", "finishing", "answered", "confirmed"} =>
             pc'[t] = pc[t] /\ key[t] \in Keys
    BY <1>4, KeyFacts DEF Decided
  <2> QED BY <1>1, <1>3, <1>4, <2>1 DEF IInv, PhaseInv
<1>9. UserInv'
  <2>1. \A j \in Keys : \A u \in records'[j].users :
          u \in Sessions /\ u \in records[j].users /\ (u = s => j # k)
    BY <1>3, <1>5 DEF TypeOK, RegistryTypeOK, Record
  <2>2. \A j \in Keys : \A u \in records'[j].users :
          key[u] = j /\ ~pending[u] /\ pc'[u] \in {"serving", "leaving", "gone"}
    BY <1>4, <2>1 DEF IInv, UserInv, k
  <2>3. \A t \in Sessions : InUse(t)' => t \in records'[key[t]].users
    BY <1>1, <1>3, <1>4, KeyFacts DEF IInv, UserInv, InUse, Participates
  <2> QED BY <1>1, <2>2, <2>3 DEF UserInv
<1>10. RanInv'
  <2>1. ASSUME NEW t \in Sessions, key[t] # NoKey, records'[key[t]].auto, ran[root[t]] > 0
        PROVE  \E u \in Sessions : key[u] = key[t] /\ pc'[u] = "finishing"
    <3>1. PICK u \in Sessions : key[u] = key[t] /\ pc[u] = "finishing"
      BY <1>3, <2>1, KeyFacts DEF IInv, RanInv
    <3> QED BY <1>1, <1>4, <3>1
  <2> QED BY <1>1, <1>4, <2>1 DEF IInv, RanInv
<1> QED BY <1>5, <1>6, <1>7, <1>8, <1>9, <1>10 DEF IInv

-----------------------------------------------------------------------------
(* leave_open and the end of a shutdown.                                   *)

LEMMA LeaveOpenStep ==
    ASSUME IInv, NEW s \in Sessions, LeaveOpen(s)
    PROVE  IInv'
<1> DEFINE k == key[s]
<1>1. /\ k \in Keys /\ pc[s] = "serving" /\ LeaveOpenRecord(k)
      /\ pc' = [pc EXCEPT ![s] = "serving"]
      /\ revoked' = IF records[k].auto THEN revoked \cup {k} ELSE revoked
      /\ UNCHANGED <<instance, mode, root, created, key, wants, alive, pending, ran, granted>>
  BY DEF LeaveOpen, Participates, Goto, IInv, TypeOK, sessionVars, history
<1>2. /\ RegistryTypeOK' /\ OnlyChanges(k)
      /\ records'[k].users = records[k].users
      /\ ~records'[k].auto /\ ~records'[k].closing
  BY <1>1, LeaveOpenEffect DEF IInv, TypeOK
<1>3. pc' = pc
  BY <1>1 DEF IInv, TypeOK
(* The session is a user, and a closing record has none; or it is the one  *)
(* session past the decision, and it is in its loop.                       *)
<1>4. \A t \in Sessions :
        pc[t] \in {"inline", "finishing", "answered", "confirmed"} /\ key[t] = k
          => ~records[k].auto
  <2> SUFFICES ASSUME NEW t \in Sessions, key[t] = k, records[k].auto,
                      pc[t] \in {"inline", "finishing", "answered", "confirmed"}
               PROVE  FALSE
    OBVIOUS
  <2>1. Decided(t) /\ records[k].closing /\ records[k].users = {}
    BY <1>1 DEF IInv, TypeOK, RegistryTypeOK, DecidedInv, Decided
  <2>2. CASE pending[s]
    BY <1>1, <2>1, <2>2 DEF IInv, DecidedInv, Decided
  <2>3. CASE ~pending[s]
    BY <1>1, <2>1, <2>3 DEF IInv, TypeOK, UserInv, InUse, Participates
  <2> QED BY <2>2, <2>3
<1> HIDE DEF k
<1>5. TypeOK'
  BY <1>1, <1>2, <1>3 DEF IInv, TypeOK
<1>6. RootInv' /\ CreatorInv' /\ KeyInv'
  BY <1>1, <1>3 DEF IInv, RootInv, CreatorInv, KeyInv
<1>7. GrantInv'
  <2>1. records[k].auto => k \in granted
    BY <1>1 DEF IInv, GrantInv
  <2> QED BY <1>1, <1>2, <2>1 DEF IInv, GrantInv, OnlyChanges
<1>8. DecidedInv'
  BY <1>1, <1>2, <1>3, KeyFacts DEF IInv, DecidedInv, Decided, OnlyChanges
<1>9. PhaseInv'
  <2> SUFFICES ASSUME NEW t \in Sessions,
                      pc[t] \in {"inline", "finishing", "answered", "confirmed"}
               PROVE  /\ pc[t] \in {"inline", "finishing"} => records'[key[t]].closing
                      /\ pc[t] \in {"answered", "confirmed"} => ~records'[key[t]].auto
                      /\ key[t] \notin revoked'
    BY <1>1, <1>3 DEF IInv, PhaseInv
  <2>1. key[t] \in Keys /\ Decided(t)
    BY KeyFacts DEF Decided
  <2>2. CASE key[t] = k
    BY <1>1, <1>2, <1>4, <2>1, <2>2 DEF IInv, PhaseInv, TypeOK, RegistryTypeOK
  <2>3. CASE key[t] # k
    BY <1>1, <1>2, <2>1, <2>3 DEF IInv, PhaseInv, OnlyChanges
  <2> QED BY <2>2, <2>3
<1>10. UserInv'
  <2>1. \A j \in Keys : records'[j].users = records[j].users
    BY <1>2 DEF OnlyChanges
  <2> QED BY <1>1, <1>3, <2>1, KeyFacts DEF IInv, UserInv, InUse, Participates
<1>11. RanInv'
  <2>1. \A j \in Keys : records'[j].auto => records[j].auto
    BY <1>2 DEF OnlyChanges
  <2> QED BY <1>1, <1>3, <2>1, KeyFacts DEF IInv, RanInv
<1> QED BY <1>5, <1>6, <1>7, <1>8, <1>9, <1>10, <1>11 DEF IInv

(* confirm_cleanup, from release_event or from the catch-all. *)
LEMMA ConfirmStep ==
    ASSUME IInv, NEW s \in Sessions, ClosureAnswered(s) \/ CatchAll(s)
    PROVE  IInv'
<1> DEFINE k == key[s]
<1>1. /\ pending[s] /\ ConfirmCleanup(k) /\ pc[s] \in {"serving", "catchall"}
      /\ \/ records[k].closing /\ pc' = [pc EXCEPT ![s] = "answered"]
         \/ records[k].closing /\ pc' = [pc EXCEPT ![s] = "confirmed"]
         \/ ~records[k].closing /\ pc' = [pc EXCEPT ![s] = "catchall"]
         \/ ~records[k].closing /\ pc' = [pc EXCEPT ![s] = "leaving"]
      /\ UNCHANGED <<instance, mode, root, created, key, wants, alive, pending,
                     ran, granted, revoked>>
  BY DEF ClosureAnswered, CatchAll, IsClosing, Goto, IInv, PhaseInv, sessionVars, history
<1>2. k \in Keys /\ Decided(s)
  BY <1>1, KeyFacts DEF Decided
<1>3. /\ RegistryTypeOK' /\ OnlyChanges(k)
      /\ records'[k].users = records[k].users
      /\ ~records'[k].closing
      /\ records[k].closing => ~records'[k].auto
      /\ ~records[k].closing => (records'[k].auto <=> records[k].auto)
  BY <1>1, <1>2, ConfirmCleanupEffect DEF IInv, TypeOK
(* This session is past the decision: an open record has no permission.    *)
<1>4. ~records'[k].auto
  BY <1>2, <1>3 DEF IInv, DecidedInv
<1>5. records[k].closing => k \notin revoked /\ ran[root[s]] = 0
  <2> SUFFICES ASSUME records[k].closing PROVE k \notin revoked /\ ran[root[s]] = 0
    OBVIOUS
  <2>1. records[k].auto /\ k \notin revoked
    BY <1>2 DEF IInv, GrantInv, TypeOK, RegistryTypeOK
  <2>2. root[s] \in Instances /\ k # NoKey
    BY <1>2, KeyFacts
  <2>3. ran[root[s]] > 0 => \E t \in Sessions : key[t] = k /\ pc[t] = "finishing"
    BY <2>1, <2>2 DEF IInv, RanInv
  <2>4. \A t \in Sessions : ~(key[t] = k /\ pc[t] = "finishing")
    BY <1>1, <1>2 DEF IInv, DecidedInv, Decided
  <2> QED BY <2>1, <2>2, <2>3, <2>4 DEF IInv, TypeOK
<1>6. \A t \in Sessions : key[t] = k /\ Decided(t) => t = s
  BY <1>2 DEF IInv, DecidedInv
<1> HIDE DEF k
<1>7. /\ \A t \in Sessions \ {s} : pc'[t] = pc[t]
      /\ pc'[s] \in {"answered", "confirmed", "catchall", "leaving"}
      /\ pc'[s] \in {"answered", "confirmed"} => records[k].closing
  BY <1>1 DEF IInv, TypeOK
<1>8. \A t \in Sessions : Decided(t)' => Decided(t)
  BY <1>1, <1>2, <1>7 DEF Decided
<1>9. TypeOK'
  BY <1>1, <1>3 DEF IInv, TypeOK, PC
<1>10. RootInv' /\ CreatorInv' /\ KeyInv'
  BY <1>1, <1>2, <1>7, NoneAssumption DEF IInv, RootInv, CreatorInv, KeyInv, k
<1>11. GrantInv'
  BY <1>1, <1>3, <1>4 DEF IInv, GrantInv, OnlyChanges
<1>12. DecidedInv'
  BY <1>1, <1>3, <1>4, <1>8, KeyFacts DEF IInv, DecidedInv, OnlyChanges
<1>13. PhaseInv'
  <2> SUFFICES ASSUME NEW t \in Sessions
               PROVE  /\ pc'[t] \in {"answered", "catchall"} => pending[t]
                      /\ pc'[t] \in {"inline", "finishing"} => records'[key[t]].closing
                      /\ pc'[t] \in {"answered", "confirmed"} => ~records'[key[t]].auto
                      /\ pc'[t] \in {"inline", "finishing", "answered", "confirmed"}
                            => key[t] \notin revoked
    BY <1>1 DEF PhaseInv
  <2>1. CASE t = s
    BY <1>1, <1>4, <1>5, <1>7, <2>1 DEF k
  <2>2. CASE t # s /\ ~Decided(t)
    BY <1>7, <2>2 DEF Decided
  <2>3. CASE t # s /\ Decided(t)
    <3>1. key[t] \in Keys /\ key[t] # k
      BY <1>6, <2>3, KeyFacts
    <3> QED BY <1>3, <1>7, <2>3, <3>1 DEF IInv, PhaseInv, OnlyChanges
  <2> QED BY <2>1, <2>2, <2>3
<1>14. UserInv'
  <2>1. \A j \in Keys : records'[j].users = records[j].users
    BY <1>3 DEF OnlyChanges
  <2>2. \A t \in Sessions : InUse(t)' => InUse(t) /\ key[t] \in Keys
    BY <1>1, <1>7, KeyFacts DEF InUse, Participates
  <2>3. \A j \in Keys : \A u \in records'[j].users :
          key[u] = j /\ ~pending[u] /\ pc'[u] \in {"serving", "leaving", "gone"}
    <3> SUFFICES ASSUME NEW j \in Keys, NEW u \in records[j].users
                 PROVE  key[u] = j /\ ~pending[u] /\ pc'[u] \in {"serving", "leaving", "gone"}
      BY <2>1
    <3>1. u \in Sessions
      BY DEF IInv, TypeOK, RegistryTypeOK, Record
    <3>2. key[u] = j /\ ~pending[u] /\ pc[u] \in {"serving", "leaving", "gone"}
      BY DEF IInv, UserInv
    <3> QED BY <1>1, <1>7, <3>1, <3>2
  <2> QED BY <1>1, <2>1, <2>2, <2>3 DEF IInv, UserInv
<1>15. RanInv'
  <2>1. \A j \in Keys : records'[j].auto => records[j].auto
    BY <1>3, <1>4 DEF OnlyChanges
  <2>2. ASSUME NEW t \in Sessions, key[t] # NoKey, records'[key[t]].auto, ran[root[t]] > 0
        PROVE  \E u \in Sessions : key[u] = key[t] /\ pc'[u] = "finishing"
    <3>1. PICK u \in Sessions : key[u] = key[t] /\ pc[u] = "finishing"
      BY <2>1, <2>2, KeyFacts DEF IInv, RanInv
    <3> QED BY <1>1, <1>7, <3>1
  <2>3. \A t \in Sessions : pc'[t] \in {"inline", "answered", "confirmed"} => ran[root[t]] = 0
    BY <1>5, <1>7 DEF IInv, RanInv
  <2> QED BY <1>1, <2>2, <2>3 DEF IInv, RanInv
<1> QED BY <1>9, <1>10, <1>11, <1>12, <1>13, <1>14, <1>15 DEF IInv

LEMMA FinishStep ==
    ASSUME IInv, NEW s \in Sessions, FinishShutdown(s)
    PROVE  IInv'
<1> DEFINE k == key[s]
<1>1. /\ pc[s] = "finishing" /\ FinishCleanup(k)
      /\ \/ pc' = [pc EXCEPT ![s] = "leaving"]
         \/ pc' = [pc EXCEPT ![s] = "catchall"] /\ pending[s]
      /\ UNCHANGED <<instance, mode, root, created, key, wants, alive, pending,
                     ran, granted, revoked>>
  BY DEF FinishShutdown, AfterLoop, Goto, sessionVars, history
<1>2. k \in Keys /\ Decided(s)
  BY <1>1, KeyFacts DEF Decided
<1>3. /\ RegistryTypeOK' /\ OnlyChanges(k) /\ records'[k] = Absent
      /\ records[k].users = {}
  BY <1>1, <1>2, FinishCleanupEffect DEF IInv, TypeOK, RegistryTypeOK, PhaseInv
<1>4. \A t \in Sessions : key[t] = k /\ Decided(t) => t = s
  BY <1>2 DEF IInv, DecidedInv
<1>5. /\ \A j \in Keys : records'[j].users = records[j].users
      /\ \A j \in Keys : records'[j].auto => j # k /\ records[j].auto
  <2>1. Absent.users = {} /\ ~Absent.auto
    BY DEF Absent
  <2> QED BY <1>3, <2>1 DEF OnlyChanges
<1> HIDE DEF k
<1>6. /\ \A t \in Sessions \ {s} : pc'[t] = pc[t]
      /\ pc'[s] \in {"catchall", "leaving"} /\ (pc'[s] = "catchall" => pending[s])
  BY <1>1 DEF IInv, TypeOK
<1>7. \A t \in Sessions : Decided(t)' => Decided(t)
  BY <1>1, <1>2, <1>6 DEF Decided
<1>8. TypeOK'
  BY <1>1, <1>3 DEF IInv, TypeOK, PC
<1>9. RootInv' /\ CreatorInv' /\ KeyInv'
  BY <1>1, <1>6 DEF IInv, RootInv, CreatorInv, KeyInv
<1>10. GrantInv'
  BY <1>1, <1>5 DEF IInv, GrantInv
<1>11. DecidedInv'
  BY <1>1, <1>3, <1>5, <1>7, KeyFacts DEF IInv, DecidedInv, OnlyChanges
<1>12. PhaseInv'
  <2>1. \A t \in Sessions : Decided(t) /\ t # s => key[t] \in Keys \ {k}
    BY <1>4, KeyFacts
  <2> QED BY <1>1, <1>3, <1>6, <2>1 DEF IInv, PhaseInv, OnlyChanges, Decided
<1>13. UserInv'
  <2>1. \A j \in Keys : \A u \in records[j].users :
          key[u] = j /\ ~pending[u] /\ pc'[u] \in {"serving", "leaving", "gone"}
    <3> SUFFICES ASSUME NEW j \in Keys, NEW u \in records[j].users
                 PROVE  key[u] = j /\ ~pending[u] /\ pc'[u] \in {"serving", "leaving", "gone"}
      OBVIOUS
    <3>1. u \in Sessions
      BY DEF IInv, TypeOK, RegistryTypeOK, Record
    <3>2. key[u] = j /\ ~pending[u] /\ pc[u] \in {"serving", "leaving", "gone"}
      BY DEF IInv, UserInv
    <3> QED BY <1>1, <1>6, <3>1, <3>2
  <2>2. \A t \in Sessions : InUse(t)' => InUse(t) /\ key[t] \in Keys
    BY <1>1, <1>6, KeyFacts DEF InUse, Participates
  <2> QED BY <1>1, <1>5, <2>1, <2>2 DEF IInv, UserInv
<1>14. RanInv'
  <2>1. ASSUME NEW t \in Sessions, key[t] # NoKey, records'[key[t]].auto, ran[root[t]] > 0
        PROVE  \E u \in Sessions : key[u] = key[t] /\ pc'[u] = "finishing"
    <3>1. key[t] # k /\ records[key[t]].auto
      BY <1>5, <2>1, KeyFacts
    <3>2. PICK u \in Sessions : key[u] = key[t] /\ pc[u] = "finishing"
      BY <2>1, <3>1 DEF IInv, RanInv
    <3> QED BY <1>6, <3>1, <3>2 DEF k
  <2>2. \A t \in Sessions : pc'[t] \in {"inline", "answered", "confirmed"} => ran[root[t]] = 0
    BY <1>6 DEF IInv, RanInv
  <2> QED BY <1>1, <2>1, <2>2 DEF IInv, RanInv
<1> QED BY <1>8, <1>9, <1>10, <1>11, <1>12, <1>13, <1>14 DEF IInv

LEMMA RunStepsStep ==
    ASSUME IInv, NEW s \in Sessions,
           RunInlineSteps(s) \/ RunAnsweredSteps(s) \/ RunConfirmedSteps(s)
    PROVE  IInv'
<1>1. PICK to \in {"finishing", "catchall", "leaving"} :
        /\ pc' = [pc EXCEPT ![s] = to]
        /\ pc[s] \in {"inline", "answered", "confirmed"}
        /\ to = "finishing" <=> pc[s] = "inline"
        /\ to = "catchall" => pc[s] = "answered"
  BY DEF RunInlineSteps, RunAnsweredSteps, RunConfirmedSteps, RunSteps, Goto
<1>2. /\ ran' = [ran EXCEPT ![root[s]] = @ + 1]
      /\ \/ instance' = [instance EXCEPT ![root[s]] = "quit"]
         \/ UNCHANGED instance
      /\ UNCHANGED <<records, mode, root, created, key, wants, alive, pending, granted, revoked>>
  BY DEF RunInlineSteps, RunAnsweredSteps, RunConfirmedSteps, RunSteps, sessionVars
<1>3. /\ key[s] \in granted \ revoked /\ Decided(s)
      /\ root[s] \in Instances /\ ran[root[s]] = 0
  BY <1>1, KeyFacts DEF IInv, DecidedInv, PhaseInv, RanInv, Decided
<1>4. /\ \A t \in Sessions \ {s} : pc'[t] = pc[t]
      /\ pc'[s] = to
  BY <1>1 DEF IInv, TypeOK
<1>5. /\ \A i \in Instances \ {root[s]} : ran'[i] = ran[i]
      /\ ran'[root[s]] = 1
  BY <1>2, <1>3 DEF IInv, TypeOK
<1>6. \A t \in Sessions : Decided(t)' => Decided(t)
  BY <1>2, <1>3, <1>4 DEF Decided
<1>7. TypeOK'
  BY <1>1, <1>2, <1>3 DEF IInv, TypeOK, RegistryTypeOK, PC
<1>8. RootInv' /\ CreatorInv' /\ KeyInv'
  <2>1. \A i \in Instances : instance[i] # "unborn" => instance'[i] # "unborn"
    BY <1>2 DEF IInv, TypeOK
  <2> QED BY <1>1, <1>2, <1>4, <2>1, HumanAssumption DEF IInv, RootInv, CreatorInv, KeyInv
<1>9. GrantInv' /\ DecidedInv'
  BY <1>2, <1>6 DEF IInv, GrantInv, DecidedInv
<1>10. PhaseInv'
  <2>1. pc[s] = "inline" => records[key[s]].closing
    BY DEF IInv, PhaseInv
  <2>2. pc[s] = "answered" => pending[s]
    BY DEF IInv, PhaseInv
  <2> QED BY <1>1, <1>2, <1>3, <1>4, <2>1, <2>2 DEF IInv, PhaseInv
<1>11. UserInv'
  <2>1. \A j \in Keys : \A u \in records[j].users :
          key[u] = j /\ ~pending[u] /\ pc'[u] \in {"serving", "leaving", "gone"}
    <3> SUFFICES ASSUME NEW j \in Keys, NEW u \in records[j].users
                 PROVE  key[u] = j /\ ~pending[u] /\ pc'[u] \in {"serving", "leaving", "gone"}
      OBVIOUS
    <3>1. u \in Sessions
      BY DEF IInv, TypeOK, RegistryTypeOK, Record
    <3>2. key[u] = j /\ ~pending[u] /\ pc[u] \in {"serving", "leaving", "gone"}
      BY DEF IInv, UserInv
    <3> QED BY <1>1, <1>4, <3>1, <3>2
  <2>2. \A t \in Sessions : InUse(t)' => InUse(t)
    BY <1>2, <1>4 DEF InUse, Participates
  <2> QED BY <1>2, <2>1, <2>2 DEF IInv, UserInv
<1>12. RanInv'
  <2>1. \A i \in Instances : ran'[i] > 0 =>
          ran'[i] = 1 /\ \E c \in Sessions : created[c] /\ root[c] = i /\ key[c] \in granted
    <3> SUFFICES ASSUME NEW i \in Instances, ran'[i] > 0
                 PROVE  ran'[i] = 1 /\ \E c \in Sessions : created[c] /\ root[c] = i /\ key[c] \in granted
      OBVIOUS
    <3>1. CASE i = root[s]
      BY <1>3, <1>5, <3>1, CreatorOf
    <3>2. CASE i # root[s]
      BY <1>5, <3>2 DEF IInv, RanInv
    <3> QED BY <3>1, <3>2
  <2>2. ASSUME NEW t \in Sessions, pc'[t] \in {"inline", "answered", "confirmed"}
        PROVE  ran'[root[t]] = 0
    <3>1. t # s /\ pc[t] = pc'[t] /\ Decided(t) /\ key[t] \in granted
      BY <1>4, <2>2 DEF IInv, DecidedInv, Decided
    <3>2. root[t] \in Instances /\ ran[root[t]] = 0
      BY <2>2, <3>1, KeyFacts DEF IInv, RanInv
    <3>3. root[t] # root[s]
      BY <1>3, <3>1, OneKeyPerRoot DEF IInv, DecidedInv
    <3> QED BY <1>5, <3>2, <3>3
  <2>3. ASSUME NEW t \in Sessions, key[t] # NoKey, records[key[t]].auto, ran'[root[t]] > 0
        PROVE  \E u \in Sessions : key[u] = key[t] /\ pc'[u] = "finishing"
    <3>1. key[t] \in granted /\ root[t] \in Instances
      BY <2>3, KeyFacts DEF IInv, GrantInv
    <3>2. CASE root[t] = root[s]
      <4>1. key[t] = key[s]
        BY <1>3, <3>1, <3>2, OneKeyPerRoot
      <4>2. pc[s] = "inline"
        BY <1>1, <2>3, <4>1 DEF IInv, PhaseInv
      <4> QED BY <1>1, <1>4, <4>1, <4>2
    <3>3. CASE root[t] # root[s]
      <4>1. PICK u \in Sessions : key[u] = key[t] /\ pc[u] = "finishing"
        BY <1>5, <2>3, <3>1, <3>3 DEF IInv, RanInv
      <4> QED BY <1>1, <1>4, <4>1
    <3> QED BY <3>2, <3>3
  <2> QED BY <1>2, <2>1, <2>2, <2>3 DEF RanInv
<1> QED BY <1>7, <1>8, <1>9, <1>10, <1>11, <1>12 DEF IInv

-----------------------------------------------------------------------------
LEMMA StutterStep == ASSUME IInv, UNCHANGED vars PROVE IInv'
<1> USE DEF vars, sessionVars, history
<1>1. TypeOK' /\ RootInv' /\ CreatorInv' /\ KeyInv' /\ GrantInv'
  BY DEF IInv, TypeOK, RegistryTypeOK, RootInv, CreatorInv, KeyInv, GrantInv
<1>2. DecidedInv' /\ PhaseInv' /\ UserInv' /\ RanInv'
  BY DEF IInv, DecidedInv, Decided, PhaseInv, UserInv, InUse, Participates, RanInv
<1> QED BY <1>1, <1>2 DEF IInv

LEMMA NextIInv == IInv /\ [Next]_vars => IInv'
<1> SUFFICES ASSUME IInv, [Next]_vars PROVE IInv'
  OBVIOUS
<1>1. CASE UNCHANGED vars \/ AllEnded
  BY <1>1, StutterStep DEF AllEnded
<1>2. ASSUME NEW s \in Sessions, Start(s) PROVE IInv'
  BY <1>2, AttachStep, QuietStep DEF Start, QuietMove
<1>3. ASSUME NEW s \in Sessions, EnterRegistry(s) PROVE IInv'
  <2>1. ASSUME NEW k \in Keys, MeetClosing(s, k) PROVE IInv'
    BY <2>1, QuietStep DEF QuietMove
  <2>2. CASE StayOut(s) \/ CreateFreshFails(s)
    BY <2>2, QuietStep DEF QuietMove
  <2>3. ASSUME NEW k \in Keys, NEW c \in BOOLEAN, JoinRegistry(s, k, c) PROVE IInv'
    BY <2>3, JoinStep DEF JoinRegistry, Goto
  <2>4. ASSUME NEW k \in Keys, NEW c \in BOOLEAN, JoinFresh(s, k, c) PROVE IInv'
    <3>1. pc[s] = "rejoining" /\ pc' = [pc EXCEPT ![s] = "serving"]
      BY <2>4 DEF JoinFresh, Goto
    <3>2. created[s] = TRUE
      BY <3>1 DEF IInv, TypeOK, RootInv
    <3> QED BY <2>4, <3>1, <3>2, JoinStep DEF JoinFresh
  <2>5. ASSUME NEW i \in Instances, CreateFresh(s, i) PROVE IInv'
    BY <2>5, CreateFreshStep
  <2> QED BY <1>3, <2>1, <2>2, <2>3, <2>4, <2>5 DEF EnterRegistry
<1>4. ASSUME NEW s \in Sessions, ReleaseRoot(s) PROVE IInv'
  BY <1>4, TakeOnStep, LeaveInUseStep, QuietStep DEF ReleaseRoot, QuietMove
<1>5. ASSUME NEW s \in Sessions, EndSession(s) PROVE IInv'
  BY <1>5, RunStepsStep, FinishStep, ConfirmStep, QuietStep DEF EndSession, QuietMove
<1>6. ASSUME NEW s \in Sessions,
             LeaveOpen(s) \/ ClosureAnswered(s) \/ WaitFails(s) \/ Disconnect(s)
      PROVE  IInv'
  BY <1>6, LeaveOpenStep, ConfirmStep, DisconnectStep, QuietStep DEF QuietMove
<1> QED BY <1>1, <1>2, <1>3, <1>4, <1>5, <1>6 DEF Next

(* The invariant holds in every reachable state, whatever the number of    *)
(* sessions and instances, and whether or not identities and waits fail.   *)
THEOREM Invariance == Spec => []IInv
BY InitIInv, NextIInv, PTL DEF Spec

(* The registry's records keep their shape: what is not in the map is      *)
(* empty, and an auto-created record is closing exactly when it has no     *)
(* users (registry.rs, on_root_release).                                   *)
THEOREM TypeCorrect == Spec => []TypeOK
<1>1. IInv => TypeOK
  BY DEF IInv
<1> QED BY <1>1, Invariance, PTL

(* However releases, answers and lost connections interleave, the cleanup  *)
(* steps are run at most once on an instance (session.rs, the catch-all).  *)
THEOREM RunOnce == Spec => []StepsRunOnce
<1>1. IInv => StepsRunOnce
  BY DEF IInv, TypeOK, RanInv, StepsRunOnce
<1> QED BY <1>1, Invariance, PTL

(* Steps are run only on an instance the bridge created and nobody has     *)
(* left open.                                                              *)
THEOREM Permitted == Spec => []ShutdownOnlyWhenPermitted
<1>1. IInv => ShutdownOnlyWhenPermitted
  <2> SUFFICES ASSUME IInv PROVE ShutdownOnlyWhenPermitted
    OBVIOUS
  <2>1. \A i \in Instances : ran[i] > 0 => i \notin Human
    BY DEF IInv, RanInv, RootInv
  <2>2. \A s \in Sessions :
          pc[s] \in {"inline", "finishing", "answered", "confirmed"}
             => key[s] \in granted \ revoked
    BY DEF IInv, DecidedInv, Decided, PhaseInv
  <2> QED BY <2>1, <2>2 DEF ShutdownOnlyWhenPermitted
<1> QED BY <1>1, Invariance, PTL

(* A session that uses an instance is in its record, whoever else leaves,  *)
(* answers a $cleanup or finishes a shutdown (registry.rs,                 *)
(* confirm_cleanup: "If someone joined, leave the record for them").       *)
THEOREM Registered == Spec => []UsersStayRegistered
<1>1. IInv => UsersStayRegistered
  BY DEF IInv, UserInv, UsersStayRegistered
<1> QED BY <1>1, Invariance, PTL

(* Inline shutdown happens behind a closing record, with no user left.     *)
THEOREM InlineUndisturbed == Spec => []InlineShutdownDisturbsNobody
<1>1. IInv => InlineShutdownDisturbsNobody
  <2> SUFFICES ASSUME IInv, NEW s \in Sessions, pc[s] = "inline"
               PROVE  /\ records[key[s]].closing
                      /\ \A t \in Sessions : key[t] = key[s] => ~InUse(t)
    BY DEF InlineShutdownDisturbsNobody, IsClosing
  <2>1. records[key[s]].closing /\ key[s] \in Keys
    BY KeyFacts DEF IInv, PhaseInv, Decided
  <2>2. records[key[s]].users = {}
    BY <2>1 DEF IInv, TypeOK, RegistryTypeOK
  <2> QED BY <2>1, <2>2 DEF IInv, UserInv
<1> QED BY <1>1, Invariance, PTL

-----------------------------------------------------------------------------
(* Nothing is mislaid and nobody refused; the promise.                     *)


LEMMA InitOwnerInv == Init => OwnerInv
BY DEF Init, RegistryInit, Absent, OwnerInv, AskedInv, FinishingInv, ModeInv, IdentityInv,
       ClosingHasOwner, IsClosing, PermissionIsKept, ConnectOrCreateNeverRefused

(* A session that has just created what it holds meets no closing record:  *)
(* only the creator of an instance could have made it one.                 *)
LEMMA CreatorMeetsNone ==
    ASSUME IInv, NEW s \in Sessions, NEW k \in PossibleKeys(s),
           created[s], key[s] = NoKey, root[s] \in Instances
    PROVE  k \in Keys /\ k \notin granted /\ ~records[k].closing
<1>1. k \in Keys /\ k \in {root[s], s}
  BY DEF PossibleKeys, Keys
<1>2. k \notin granted
  <2> SUFFICES ASSUME k \in granted PROVE FALSE
    OBVIOUS
  <2>1. PICK c \in Sessions : created[c] /\ key[c] = k
    BY DEF IInv, GrantInv
  <2>2. key[c] \in {root[c], c} /\ root[c] \in Instances /\ c # s
    BY <1>1, <2>1 DEF IInv, RootInv, KeyInv
  <2> QED BY <1>1, <2>1, <2>2 DEF IInv, CreatorInv
<1>3. ~records[k].closing
  BY <1>1, <1>2 DEF IInv, TypeOK, RegistryTypeOK, GrantInv
<1> QED BY <1>1, <1>2, <1>3

-----------------------------------------------------------------------------
(* Each kind of step.                                                      *)

LEMMA OwnerQuiet ==
    ASSUME IInv, OwnerInv, NEW s \in Sessions, QuietMove(s)
    PROVE  OwnerInv'
<1>1. PICK to \in PC :
        /\ pc' = [pc EXCEPT ![s] = to]
        /\ \/ pc[s] = "idle" /\ to = "gone"
           \/ pc[s] = "attached" /\ to \in {"serving", "retry"}
           \/ pc[s] \in {"attached", "rejoining"} /\ to = "refused"
              /\ (pc[s] = "rejoining" \/ mode[s] # "connect_or_create")
              /\ \E k \in PossibleKeys(s) : IsClosing(k)
           \/ pc[s] = "retry" /\ to = "gone"
           \/ pc[s] = "serving" /\ to = "leaving" /\ ~pending[s]
           \/ pc[s] = "serving" /\ to = "catchall" /\ pending[s]
           \/ pc[s] = "serving" /\ to = "leaving" /\ ~Participates(s)
           \/ pc[s] = "leaving" /\ to = "gone"
  BY DEF QuietMove, AttachFails, StayOut, CreateFreshFails, MeetClosing,
         ReleaseLastHandle, WaitFails, Leave, Goto, AfterLoop, PC, IInv, TypeOK
<1>2. UNCHANGED <<records, mode, root, created, key, pending, ran, granted, revoked>>
  BY DEF QuietMove, AttachFails, StayOut, CreateFreshFails, MeetClosing,
         ReleaseLastHandle, WaitFails, Leave, sessionVars, history
<1>3. pending[s] => Participates(s)
  BY KeyFacts DEF IInv, DecidedInv, Decided, Participates
<1>4. \A t \in Sessions : OwesShutdown(t)' <=> OwesShutdown(t)
  <2>1. /\ pc[s] \notin {"inline", "finishing", "answered", "confirmed"}
        /\ to \notin {"inline", "finishing", "answered", "confirmed"}
        /\ pending[s] => (pc[s] \in {"serving", "catchall"} <=> to \in {"serving", "catchall"})
    <3>1. pending[s] => pc[s] \notin {"idle", "attached", "retry", "rejoining", "refused"}
      BY <1>3 DEF Participates, IInv, KeyInv
    <3> QED BY <1>1, <1>3, <3>1
  <2> QED BY <1>1, <1>2, <2>1 DEF OwesShutdown, IInv, TypeOK
<1>5. AskedInv'
  <2> SUFFICES ASSUME NEW t \in Sessions, pending[t], pc'[t] \in {"serving", "catchall"}
               PROVE  records[key[t]].closing \/ key[t] \in revoked \/ ran[root[t]] > 0
    BY <1>2 DEF AskedInv
  <2>1. OwesShutdown(t)'
    BY <1>2 DEF OwesShutdown
  <2>2. pc[t] \in {"serving", "catchall"}
    BY <1>1, <1>3, <1>4, <2>1 DEF Participates, IInv, TypeOK, KeyInv
  <2> QED BY <2>2 DEF OwnerInv, AskedInv
<1>6. FinishingInv' /\ IdentityInv'
  BY <1>1, <1>2 DEF IInv, TypeOK, OwnerInv, FinishingInv, IdentityInv
<1>7. ModeInv'
  BY <1>1, <1>2 DEF IInv, TypeOK, OwnerInv, ModeInv
<1>8. ClosingHasOwner' /\ PermissionIsKept'
  BY <1>2, <1>4 DEF OwnerInv, ClosingHasOwner, IsClosing, PermissionIsKept
<1>9. ConnectOrCreateNeverRefused'
  <2>1. ASSUME to = "refused", mode[s] # "connect"
        PROVE  FALSE
    <3>1. created[s]
      BY <1>1, <2>1 DEF IInv, TypeOK, RootInv, OwnerInv, ModeInv, Mode
    <3>2. key[s] = NoKey /\ root[s] \in Instances
      BY <1>1, <2>1 DEF IInv, RootInv, KeyInv
    <3> QED BY <1>1, <2>1, <3>1, <3>2, CreatorMeetsNone DEF IsClosing
  <2> QED BY <1>1, <1>2, <2>1 DEF IInv, TypeOK, OwnerInv, ConnectOrCreateNeverRefused
<1> QED BY <1>5, <1>7, <1>8, <1>9, <1>6 DEF OwnerInv

LEMMA OwnerStutter ==
    ASSUME OwnerInv, UNCHANGED <<records, pc, mode, root, created, key, pending, history>>
    PROVE  OwnerInv'
BY DEF history, OwnerInv, AskedInv, FinishingInv, ModeInv, IdentityInv, ClosingHasOwner, IsClosing,
       OwesShutdown, PermissionIsKept, ConnectOrCreateNeverRefused

(* A root is had before the registry is asked. *)
LEMMA OwnerAttach ==
    ASSUME IInv, OwnerInv, NEW s \in Sessions, NEW i \in Instances,
           (\E m \in Mode : Attach(s, m, i)) \/ CreateFresh(s, i)
    PROVE  OwnerInv'
<1>1. /\ pc[s] \in {"idle", "retry"}
      /\ pc' = [pc EXCEPT ![s] = IF pc[s] = "idle" THEN "attached" ELSE "rejoining"]
      /\ root' = [root EXCEPT ![s] = i]
      /\ UNCHANGED <<records, key, pending, history>>
  BY DEF Attach, CreateFresh, Goto
<1>2. /\ \A t \in Sessions \ {s} : mode'[t] = mode[t] /\ created'[t] = created[t]
      /\ pc'[s] = "attached" /\ mode'[s] = "create" => created'[s]
  BY DEF Attach, CreateFresh, Goto, Obtainable, IInv, TypeOK
<1>3. key[s] = NoKey /\ ~OwesShutdown(s) /\ ~pending[s]
  BY <1>1, KeyFacts DEF IInv, KeyInv, DecidedInv, Decided, OwesShutdown
<1>4. \A t \in Sessions : OwesShutdown(t)' <=> OwesShutdown(t)
  BY <1>1, <1>3 DEF OwesShutdown, IInv, TypeOK
<1>5. \A t \in Sessions : key[t] \in Keys => t # s /\ root'[t] = root[t]
  BY <1>1, <1>3 DEF IInv, TypeOK
<1>6. AskedInv' /\ FinishingInv' /\ IdentityInv'
  BY <1>1, <1>3 DEF history, IInv, TypeOK, OwnerInv, AskedInv, FinishingInv, IdentityInv
<1>7. ModeInv' /\ ConnectOrCreateNeverRefused'
  BY <1>1, <1>2 DEF IInv, TypeOK, OwnerInv, ModeInv, ConnectOrCreateNeverRefused
<1>8. ClosingHasOwner'
  BY <1>1, <1>4 DEF OwnerInv, ClosingHasOwner, IsClosing
<1>9. PermissionIsKept'
  <2> SUFFICES ASSUME NEW k \in granted \ revoked, ~records[k].auto
               PROVE  \E t \in Sessions : key[t] = k /\ (OwesShutdown(t) \/ ran[root'[t]] > 0)
    BY <1>1, <1>4 DEF history, PermissionIsKept
  <2>1. PICK t \in Sessions : key[t] = k /\ (OwesShutdown(t) \/ ran[root[t]] > 0)
    BY DEF OwnerInv, PermissionIsKept
  <2> QED BY <1>5, <2>1 DEF IInv, TypeOK
<1> QED BY <1>6, <1>7, <1>8, <1>9 DEF OwnerInv

LEMMA OwnerJoin ==
    ASSUME IInv, OwnerInv, NEW s \in Sessions, NEW k \in PossibleKeys(s), NEW callback \in BOOLEAN,
           pc[s] \in {"attached", "rejoining"}, pc' = [pc EXCEPT ![s] = "serving"],
           JoinAs(s, k, callback, created[s])
    PROVE  OwnerInv'
<1> USE DEF JoinAs
<1>1. /\ key[s] = NoKey /\ root[s] \in Instances /\ k \in Keys
      /\ k \in {root[s]} \cup (IF IdentityMayFail THEN {s} ELSE {})
      /\ created[s] \in BOOLEAN
  BY DEF IInv, TypeOK, RootInv, KeyInv, PossibleKeys, Keys
<1>2. ~pending[s] /\ ~OwesShutdown(s)
  BY <1>1, KeyFacts DEF IInv, DecidedInv, Decided, OwesShutdown
<1>3. /\ OnlyChanges(k)
      /\ ~records[k].closing /\ ~records'[k].closing
      /\ records[k].present => (records'[k].auto <=> records[k].auto)
      /\ ~records[k].present => (records'[k].auto <=> created[s])
  BY <1>1, JoinEffect DEF IInv, TypeOK
<1>4. ~records[k].present => ~records[k].auto
  BY <1>1 DEF IInv, TypeOK, RegistryTypeOK, Absent
<1>5. \A t \in Sessions : OwesShutdown(t)' <=> OwesShutdown(t)
  BY <1>2 DEF OwesShutdown, IInv, TypeOK
<1>6. \A t \in Sessions : key[t] \in Keys => key'[t] = key[t]
  BY <1>1 DEF IInv, TypeOK
<1>7. AskedInv'
  <2> SUFFICES ASSUME NEW t \in Sessions, pending[t], pc'[t] \in {"serving", "catchall"}
               PROVE  records'[key'[t]].closing \/ key'[t] \in revoked \/ ran[root[t]] > 0
    BY DEF AskedInv
  <2>1. t # s /\ key'[t] = key[t] /\ key[t] \in Keys /\ pc'[t] = pc[t]
    BY <1>2, KeyFacts DEF IInv, TypeOK, Decided
  <2>2. records[key[t]].closing \/ key[t] \in revoked \/ ran[root[t]] > 0
    BY <2>1 DEF OwnerInv, AskedInv
  <2> QED BY <1>3, <2>1, <2>2 DEF OnlyChanges
<1>8. FinishingInv' /\ ModeInv' /\ IdentityInv' /\ ConnectOrCreateNeverRefused'
  BY <1>1 DEF IInv, TypeOK, OwnerInv, FinishingInv, ModeInv, IdentityInv,
              ConnectOrCreateNeverRefused
<1>9. ClosingHasOwner'
  <2> SUFFICES ASSUME NEW j \in Keys, records'[j].closing
               PROVE  \E t \in Sessions : key'[t] = j /\ OwesShutdown(t)
    BY <1>5 DEF ClosingHasOwner, IsClosing
  <2>1. records[j].closing
    BY <1>3 DEF OnlyChanges
  <2>2. PICK t \in Sessions : key[t] = j /\ OwesShutdown(t)
    BY <2>1 DEF OwnerInv, ClosingHasOwner, IsClosing
  <2> QED BY <1>6, <2>2
<1>10. PermissionIsKept'
  <2> SUFFICES ASSUME NEW j \in granted' \ revoked, ~records'[j].auto
               PROVE  \E t \in Sessions : key'[t] = j /\ (OwesShutdown(t) \/ ran[root[t]] > 0)
    BY <1>5 DEF PermissionIsKept
  <2>1. j \in granted /\ j \in Keys /\ ~records[j].auto
    BY <1>1, <1>3, <1>4 DEF IInv, TypeOK, OnlyChanges
  <2>2. PICK t \in Sessions : key[t] = j /\ (OwesShutdown(t) \/ ran[root[t]] > 0)
    BY <2>1 DEF OwnerInv, PermissionIsKept
  <2> QED BY <1>6, <2>1, <2>2
<1> QED BY <1>7, <1>8, <1>9, <1>10 DEF OwnerInv

(* Most steps of a session in the registry leave these alone. *)
LEMMA OwnerFrame ==
    ASSUME TypeOK, OwnerInv, NEW s \in Sessions, NEW to \in PC \ {"attached", "refused", "finishing"},
           pc' = [pc EXCEPT ![s] = to], UNCHANGED <<mode, root, created, key, ran>>
    PROVE  FinishingInv' /\ ModeInv' /\ IdentityInv' /\ ConnectOrCreateNeverRefused'
BY DEF TypeOK, OwnerInv, FinishingInv, ModeInv, IdentityInv, ConnectOrCreateNeverRefused

(* The last user takes the shutdown on, and its record is closing. *)
LEMMA OwnerTakeOn ==
    ASSUME IInv, OwnerInv, NEW s \in Sessions, AskClosure(s) \/ ShutDownInline(s)
    PROVE  OwnerInv'
<1> DEFINE k == key[s]
<1>1. /\ k \in Keys /\ pc[s] = "serving" /\ IsLastUser(k, s) /\ OnRootRelease(k, s)
      /\ \/ pc' = [pc EXCEPT ![s] = "serving"] /\ pending' = [pending EXCEPT ![s] = TRUE]
         \/ pc' = [pc EXCEPT ![s] = "inline"] /\ pending' = pending
      /\ UNCHANGED <<mode, root, created, key, ran, granted, revoked>>
  BY DEF AskClosure, ShutDownInline, MayAsk, Participates, Goto, IInv, TypeOK, sessionVars, history
<1>2. OnlyChanges(k) /\ records'[k].closing /\ (records'[k].auto <=> records[k].auto)
  BY <1>1, OnRootReleaseEffect DEF IInv, TypeOK
<1>3. /\ OwesShutdown(s)'
      /\ \A t \in Sessions : OwesShutdown(t) => OwesShutdown(t)'
  BY <1>1 DEF OwesShutdown, IInv, TypeOK
<1> HIDE DEF k
<1>4. AskedInv'
  <2> SUFFICES ASSUME NEW t \in Sessions, pending'[t], pc'[t] \in {"serving", "catchall"}
               PROVE  records'[key[t]].closing \/ key[t] \in revoked \/ ran[root[t]] > 0
    BY <1>1 DEF AskedInv
  <2>1. CASE key[t] = k
    BY <1>2, <2>1
  <2>2. CASE key[t] # k
    <3>1. t # s
      BY <2>2 DEF k
    <3>2. pending[t] /\ pc[t] \in {"serving", "catchall"}
      BY <1>1, <3>1 DEF IInv, TypeOK
    <3>3. key[t] \in Keys
      BY <3>2, KeyFacts DEF Decided
    <3> QED BY <1>2, <2>2, <3>2, <3>3 DEF OwnerInv, AskedInv, OnlyChanges
  <2> QED BY <2>1, <2>2
<1>5. FinishingInv' /\ ModeInv' /\ IdentityInv' /\ ConnectOrCreateNeverRefused'
  BY <1>1, OwnerFrame DEF IInv, PC
<1>6. ClosingHasOwner'
  BY <1>1, <1>2, <1>3 DEF OwnerInv, ClosingHasOwner, IsClosing, OnlyChanges, k
<1>7. PermissionIsKept'
  <2> SUFFICES ASSUME NEW j \in granted \ revoked, ~records'[j].auto
               PROVE  \E t \in Sessions : key[t] = j /\ (OwesShutdown(t)' \/ ran[root[t]] > 0)
    BY <1>1 DEF PermissionIsKept
  <2>1. j \in Keys /\ ~records[j].auto
    BY <1>2 DEF IInv, TypeOK, OnlyChanges
  <2> QED BY <1>3, <2>1 DEF OwnerInv, PermissionIsKept
<1> QED BY <1>4, <1>5, <1>6, <1>7 DEF OwnerInv

(* A departure that decides nothing, of a session whose closure is being   *)
(* asked or of one user among others.                                      *)
LEMMA OwnerLeaveInUse ==
    ASSUME IInv, OwnerInv, NEW s \in Sessions, LeaveInUse(s)
    PROVE  OwnerInv'
<1> DEFINE k == key[s]
<1>1. /\ k \in Keys /\ pc[s] = "serving" /\ ~IsLastUser(k, s) /\ OnRootRelease(k, s)
      /\ \/ pc' = [pc EXCEPT ![s] = "leaving"] /\ ~pending[s]
         \/ pc' = [pc EXCEPT ![s] = "catchall"] /\ pending[s]
      /\ UNCHANGED <<mode, root, created, key, pending, ran, granted, revoked>>
  BY DEF LeaveInUse, AfterLoop, Participates, Goto, IInv, TypeOK, sessionVars, history
<1>2. /\ \A j \in Keys : /\ records'[j].auto <=> records[j].auto
                         /\ records'[j].closing <=> records[j].closing
  BY <1>1, OnRootReleaseEffect DEF IInv, TypeOK, OnlyChanges
<1>3. \A t \in Sessions : OwesShutdown(t)' <=> OwesShutdown(t)
  BY <1>1 DEF OwesShutdown, IInv, TypeOK
<1> HIDE DEF k
<1>4. AskedInv'
  <2> SUFFICES ASSUME NEW t \in Sessions, pending[t], pc'[t] \in {"serving", "catchall"}
               PROVE  records'[key[t]].closing \/ key[t] \in revoked \/ ran[root[t]] > 0
    BY <1>1 DEF AskedInv
  <2>1. pc[t] \in {"serving", "catchall"} /\ key[t] \in Keys
    BY <1>1, KeyFacts DEF Decided, IInv, TypeOK
  <2> QED BY <1>2, <2>1 DEF OwnerInv, AskedInv
<1>5. FinishingInv' /\ ModeInv' /\ IdentityInv' /\ ConnectOrCreateNeverRefused'
  BY <1>1, OwnerFrame DEF IInv, PC
<1>6. ClosingHasOwner'
  BY <1>1, <1>2, <1>3 DEF OwnerInv, ClosingHasOwner, IsClosing
<1>7. PermissionIsKept'
  BY <1>1, <1>2, <1>3 DEF IInv, TypeOK, OwnerInv, PermissionIsKept
<1> QED BY <1>4, <1>5, <1>6, <1>7 DEF OwnerInv

(* A shutdown that is called off has its permission revoked. *)
LEMMA OwnerLeaveOpen ==
    ASSUME IInv, OwnerInv, NEW s \in Sessions, LeaveOpen(s)
    PROVE  OwnerInv'
<1> DEFINE k == key[s]
<1>1. /\ k \in Keys /\ LeaveOpenRecord(k)
      /\ pc[s] = "serving" /\ pc' = [pc EXCEPT ![s] = "serving"] /\ pc' = pc
      /\ revoked' = IF records[k].auto THEN revoked \cup {k} ELSE revoked
      /\ UNCHANGED <<mode, root, created, key, pending, ran, granted>>
  BY DEF LeaveOpen, Participates, Goto, IInv, TypeOK, sessionVars
<1>2. OnlyChanges(k) /\ ~records'[k].auto /\ ~records'[k].closing
  BY <1>1, LeaveOpenEffect DEF IInv, TypeOK
<1>3. records[k].closing => records[k].auto
  BY <1>1 DEF IInv, TypeOK, RegistryTypeOK
<1>4. \A t \in Sessions : OwesShutdown(t)' <=> OwesShutdown(t)
  BY <1>1 DEF OwesShutdown
<1> HIDE DEF k
<1>5. AskedInv'
  <2> SUFFICES ASSUME NEW t \in Sessions, pending[t], pc[t] \in {"serving", "catchall"}
               PROVE  records'[key[t]].closing \/ key[t] \in revoked' \/ ran[root[t]] > 0
    BY <1>1 DEF AskedInv
  <2>1. key[t] \in Keys /\ (records[key[t]].closing \/ key[t] \in revoked \/ ran[root[t]] > 0)
    BY KeyFacts DEF Decided, OwnerInv, AskedInv
  <2> QED BY <1>1, <1>2, <1>3, <2>1 DEF OnlyChanges
<1>6. FinishingInv' /\ ModeInv' /\ IdentityInv' /\ ConnectOrCreateNeverRefused'
  BY <1>1, OwnerFrame DEF IInv, PC
<1>7. ClosingHasOwner'
  BY <1>1, <1>2, <1>4 DEF OwnerInv, ClosingHasOwner, IsClosing, OnlyChanges
<1>8. PermissionIsKept'
  <2> SUFFICES ASSUME NEW j \in granted \ revoked', ~records'[j].auto
               PROVE  \E t \in Sessions : key[t] = j /\ (OwesShutdown(t) \/ ran[root[t]] > 0)
    BY <1>1, <1>4 DEF PermissionIsKept
  <2>1. j \in granted \ revoked /\ j \in Keys /\ ~records[j].auto
    BY <1>1, <1>2 DEF IInv, TypeOK, OnlyChanges
  <2> QED BY <2>1 DEF OwnerInv, PermissionIsKept
<1> QED BY <1>5, <1>6, <1>7, <1>8 DEF OwnerInv

(* What the answer, or its loss, finds closing it takes on; what it finds  *)
(* open was revoked or run before.                                         *)
LEMMA OwnerConfirm ==
    ASSUME IInv, OwnerInv, NEW s \in Sessions, ClosureAnswered(s) \/ CatchAll(s)
    PROVE  OwnerInv'
<1> DEFINE k == key[s]
<1>1. /\ pending[s] /\ ConfirmCleanup(k) /\ pc[s] \in {"serving", "catchall"}
      /\ \/ records[k].closing /\ pc' = [pc EXCEPT ![s] = "answered"]
         \/ records[k].closing /\ pc' = [pc EXCEPT ![s] = "confirmed"]
         \/ ~records[k].closing /\ pc' = [pc EXCEPT ![s] = "catchall"]
         \/ ~records[k].closing /\ pc' = [pc EXCEPT ![s] = "leaving"]
      /\ UNCHANGED <<mode, root, created, key, pending, ran, granted, revoked>>
  BY DEF ClosureAnswered, CatchAll, IsClosing, Goto, IInv, PhaseInv, sessionVars, history
<1>2. k \in Keys /\ Decided(s)
  BY <1>1, KeyFacts DEF Decided
<1>3. /\ OnlyChanges(k) /\ ~records'[k].closing
      /\ ~records[k].closing => (records'[k].auto <=> records[k].auto)
  BY <1>1, <1>2, ConfirmCleanupEffect DEF IInv, TypeOK
<1>4. \A t \in Sessions \ {s} : pc'[t] = pc[t] /\ (OwesShutdown(t)' <=> OwesShutdown(t))
  BY <1>1 DEF OwesShutdown, IInv, TypeOK
<1>5. ~records[k].closing => k \in revoked \/ ran[root[s]] > 0
  BY <1>1 DEF OwnerInv, AskedInv
<1>6. records[k].closing => OwesShutdown(s)'
  BY <1>1 DEF OwesShutdown, IInv, TypeOK
<1>7. \A t \in Sessions \ {s} : Decided(t) => key[t] # k
  BY <1>2 DEF IInv, DecidedInv
<1> HIDE DEF k
<1>8. AskedInv'
  <2> SUFFICES ASSUME NEW t \in Sessions, pending[t], pc'[t] \in {"serving", "catchall"}
               PROVE  records'[key[t]].closing \/ key[t] \in revoked \/ ran[root[t]] > 0
    BY <1>1 DEF AskedInv
  <2>1. CASE t = s
    BY <1>1, <1>5, <2>1 DEF k, IInv, TypeOK
  <2>2. CASE t # s
    BY <1>3, <1>4, <1>7, <2>2, KeyFacts DEF Decided, OwnerInv, AskedInv, OnlyChanges
  <2> QED BY <2>1, <2>2
<1>9. FinishingInv' /\ ModeInv' /\ IdentityInv' /\ ConnectOrCreateNeverRefused'
  BY <1>1, OwnerFrame DEF IInv, PC
<1>10. ClosingHasOwner'
  <2> SUFFICES ASSUME NEW j \in Keys, records'[j].closing
               PROVE  \E t \in Sessions : key[t] = j /\ OwesShutdown(t)'
    BY <1>1 DEF ClosingHasOwner, IsClosing
  <2>1. j # k /\ records[j].closing
    BY <1>3 DEF OnlyChanges
  <2>2. PICK t \in Sessions : key[t] = j /\ OwesShutdown(t)
    BY <2>1 DEF OwnerInv, ClosingHasOwner, IsClosing
  <2> QED BY <1>4, <2>1, <2>2 DEF k
<1>11. PermissionIsKept'
  <2> SUFFICES ASSUME NEW j \in granted \ revoked, ~records'[j].auto
               PROVE  \E t \in Sessions : key[t] = j /\ (OwesShutdown(t)' \/ ran[root[t]] > 0)
    BY <1>1 DEF PermissionIsKept
  <2>1. CASE j = k
    BY <1>5, <1>6, <2>1 DEF k
  <2>2. CASE j # k
    <3>1. j \in Keys /\ ~records[j].auto
      BY <1>3, <2>2 DEF IInv, TypeOK, OnlyChanges
    <3>2. PICK t \in Sessions : key[t] = j /\ (OwesShutdown(t) \/ ran[root[t]] > 0)
      BY <3>1 DEF OwnerInv, PermissionIsKept
    <3> QED BY <1>4, <2>2, <3>2 DEF k
  <2> QED BY <2>1, <2>2
<1> QED BY <1>8, <1>9, <1>10, <1>11 DEF OwnerInv

(* Steps that are run need no owner any more. *)
LEMMA OwnerRunSteps ==
    ASSUME IInv, OwnerInv, NEW s \in Sessions,
           RunInlineSteps(s) \/ RunAnsweredSteps(s) \/ RunConfirmedSteps(s)
    PROVE  OwnerInv'
<1>1. PICK to \in {"finishing", "catchall", "leaving"} :
        /\ pc' = [pc EXCEPT ![s] = to]
        /\ pc[s] \in {"inline", "answered", "confirmed"}
        /\ to = "finishing" <=> pc[s] = "inline"
        /\ to = "catchall" <=> pc[s] = "answered"
  BY DEF RunInlineSteps, RunAnsweredSteps, RunConfirmedSteps, RunSteps, Goto
<1>2. /\ ran' = [ran EXCEPT ![root[s]] = @ + 1]
      /\ UNCHANGED <<records, mode, root, created, key, pending, granted, revoked>>
  BY DEF RunInlineSteps, RunAnsweredSteps, RunConfirmedSteps, RunSteps, sessionVars
<1>3. key[s] \in Keys /\ root[s] \in Instances
  BY <1>1, KeyFacts DEF IInv, DecidedInv, Decided
<1>4. /\ ran'[root[s]] > 0
      /\ \A i \in Instances : ran[i] > 0 => ran'[i] > 0
  BY <1>2, <1>3 DEF IInv, TypeOK
<1>5. \A t \in Sessions \ {s} : pc'[t] = pc[t] /\ (OwesShutdown(t)' <=> OwesShutdown(t))
  BY <1>1, <1>2 DEF OwesShutdown, IInv, TypeOK
<1>6. \A t \in Sessions : key[t] \in Keys => root[t] \in Instances
  BY KeyFacts
<1>7. records[key[s]].closing => pc[s] = "inline"
  <2>1. records[key[s]].closing => records[key[s]].auto
    BY <1>3 DEF IInv, TypeOK, RegistryTypeOK
  <2>2. pc[s] \in {"answered", "confirmed"} => ~records[key[s]].auto
    BY DEF IInv, PhaseInv
  <2> QED BY <1>1, <2>1, <2>2
<1>8. AskedInv'
  <2> SUFFICES ASSUME NEW t \in Sessions, pending[t], pc'[t] \in {"serving", "catchall"}
               PROVE  records[key[t]].closing \/ key[t] \in revoked \/ ran'[root[t]] > 0
    BY <1>2 DEF AskedInv
  <2>1. CASE t = s
    BY <1>4, <2>1
  <2>2. CASE t # s
    <3>1. root[t] \in Instances
      BY <1>6, KeyFacts DEF Decided
    <3> QED BY <1>4, <1>5, <2>2, <3>1 DEF OwnerInv, AskedInv
  <2> QED BY <2>1, <2>2
<1>9. FinishingInv'
  <2> SUFFICES ASSUME NEW t \in Sessions, pc'[t] = "finishing" PROVE ran'[root[t]] > 0
    BY <1>2 DEF FinishingInv
  <2>1. CASE t # s
    <3>1. pc[t] = "finishing" /\ root[t] \in Instances
      BY <1>5, <1>6, <2>1, KeyFacts DEF Decided
    <3> QED BY <1>4, <3>1 DEF OwnerInv, FinishingInv
  <2> QED BY <1>4, <2>1
<1>10. ModeInv' /\ IdentityInv' /\ ConnectOrCreateNeverRefused'
  BY <1>1, <1>2 DEF IInv, TypeOK, OwnerInv, ModeInv, IdentityInv, ConnectOrCreateNeverRefused
<1>11. ClosingHasOwner'
  <2> SUFFICES ASSUME NEW j \in Keys, records[j].closing
               PROVE  \E t \in Sessions : key[t] = j /\ OwesShutdown(t)'
    BY <1>2 DEF ClosingHasOwner, IsClosing
  <2>1. PICK t \in Sessions : key[t] = j /\ OwesShutdown(t)
    BY DEF OwnerInv, ClosingHasOwner, IsClosing
  <2>2. CASE t = s
    <3>1. OwesShutdown(s)'
      BY <1>1, <1>2, <1>7, <2>1, <2>2 DEF OwesShutdown, IInv, TypeOK
    <3> QED BY <2>1, <2>2, <3>1
  <2> QED BY <1>5, <2>1, <2>2
<1>12. PermissionIsKept'
  <2> SUFFICES ASSUME NEW j \in granted \ revoked, ~records[j].auto
               PROVE  \E t \in Sessions : key[t] = j /\ (OwesShutdown(t)' \/ ran'[root[t]] > 0)
    BY <1>2 DEF PermissionIsKept
  <2>1. PICK t \in Sessions : key[t] = j /\ (OwesShutdown(t) \/ ran[root[t]] > 0)
    BY DEF OwnerInv, PermissionIsKept
  <2>2. root[t] \in Instances
    BY <1>6, <2>1 DEF IInv, TypeOK
  <2> QED BY <1>4, <1>5, <2>1, <2>2
<1> QED BY <1>8, <1>9, <1>10, <1>11, <1>12 DEF OwnerInv

LEMMA OwnerFinish ==
    ASSUME IInv, OwnerInv, NEW s \in Sessions, FinishShutdown(s)
    PROVE  OwnerInv'
<1> DEFINE k == key[s]
<1>1. /\ pc[s] = "finishing" /\ FinishCleanup(k)
      /\ pc' = [pc EXCEPT ![s] = "catchall"] \/ pc' = [pc EXCEPT ![s] = "leaving"]
      /\ UNCHANGED <<mode, root, created, key, pending, ran, granted, revoked>>
  BY DEF FinishShutdown, AfterLoop, Goto, sessionVars, history
<1>2. k \in Keys /\ Decided(s) /\ ran[root[s]] > 0
  BY <1>1, KeyFacts DEF Decided, OwnerInv, FinishingInv
<1>3. OnlyChanges(k) /\ ~records'[k].closing
  BY <1>1, <1>2, FinishCleanupEffect DEF IInv, TypeOK, Absent
<1>4. \A t \in Sessions \ {s} : pc'[t] = pc[t] /\ (OwesShutdown(t)' <=> OwesShutdown(t))
  BY <1>1 DEF OwesShutdown, IInv, TypeOK
<1>5. \A t \in Sessions \ {s} : Decided(t) => key[t] # k
  BY <1>2 DEF IInv, DecidedInv
<1> HIDE DEF k
<1>6. AskedInv'
  <2> SUFFICES ASSUME NEW t \in Sessions, pending[t], pc'[t] \in {"serving", "catchall"}
               PROVE  records'[key[t]].closing \/ key[t] \in revoked \/ ran[root[t]] > 0
    BY <1>1 DEF AskedInv
  <2>1. CASE t # s
    <3>1. key[t] \in Keys /\ key[t] # k
      BY <1>5, <2>1, KeyFacts DEF Decided
    <3>2. pc[t] \in {"serving", "catchall"}
      BY <1>4, <2>1
    <3> QED BY <1>3, <3>1, <3>2 DEF OwnerInv, AskedInv, OnlyChanges
  <2> QED BY <1>2, <2>1 DEF k
<1>7. FinishingInv' /\ ModeInv' /\ IdentityInv' /\ ConnectOrCreateNeverRefused'
  BY <1>1, OwnerFrame DEF IInv, PC
<1>8. ClosingHasOwner'
  <2> SUFFICES ASSUME NEW j \in Keys, records'[j].closing
               PROVE  \E t \in Sessions : key[t] = j /\ OwesShutdown(t)'
    BY <1>1 DEF ClosingHasOwner, IsClosing
  <2>1. j # k /\ records[j].closing
    BY <1>3 DEF OnlyChanges
  <2>2. PICK t \in Sessions : key[t] = j /\ OwesShutdown(t)
    BY <2>1 DEF OwnerInv, ClosingHasOwner, IsClosing
  <2> QED BY <1>4, <2>1, <2>2 DEF k
<1>9. PermissionIsKept'
  <2> SUFFICES ASSUME NEW j \in granted \ revoked, ~records'[j].auto
               PROVE  \E t \in Sessions : key[t] = j /\ (OwesShutdown(t)' \/ ran[root[t]] > 0)
    BY <1>1 DEF PermissionIsKept
  <2>1. CASE j = k
    BY <1>2, <2>1 DEF k
  <2>2. CASE j # k
    <3>1. j \in Keys /\ ~records[j].auto
      BY <1>3, <2>2 DEF IInv, TypeOK, OnlyChanges
    <3>2. PICK t \in Sessions : key[t] = j /\ (OwesShutdown(t) \/ ran[root[t]] > 0)
      BY <3>1 DEF OwnerInv, PermissionIsKept
    <3> QED BY <1>4, <2>2, <3>2 DEF k
  <2> QED BY <2>1, <2>2
<1> QED BY <1>6, <1>7, <1>8, <1>9 DEF OwnerInv

LEMMA NextOwnerInv == IInv /\ OwnerInv /\ [Next]_vars => OwnerInv'
<1> SUFFICES ASSUME IInv, OwnerInv, [Next]_vars PROVE OwnerInv'
  OBVIOUS
<1>1. CASE UNCHANGED vars \/ AllEnded
  BY <1>1, OwnerStutter DEF AllEnded, vars, sessionVars
<1>2. ASSUME NEW s \in Sessions, Start(s) PROVE OwnerInv'
  BY <1>2, OwnerAttach, OwnerQuiet DEF Start, QuietMove
<1>3. ASSUME NEW s \in Sessions, EnterRegistry(s) PROVE OwnerInv'
  <2>1. ASSUME NEW k \in Keys, MeetClosing(s, k) PROVE OwnerInv'
    BY <2>1, OwnerQuiet DEF QuietMove
  <2>2. CASE StayOut(s) \/ CreateFreshFails(s)
    BY <2>2, OwnerQuiet DEF QuietMove
  <2>3. ASSUME NEW k \in Keys, NEW c \in BOOLEAN, JoinRegistry(s, k, c) PROVE OwnerInv'
    BY <2>3, OwnerJoin DEF JoinRegistry, Goto
  <2>4. ASSUME NEW k \in Keys, NEW c \in BOOLEAN, JoinFresh(s, k, c) PROVE OwnerInv'
    <3>1. pc[s] = "rejoining" /\ pc' = [pc EXCEPT ![s] = "serving"]
      BY <2>4 DEF JoinFresh, Goto
    <3>2. created[s] = TRUE
      BY <3>1 DEF IInv, TypeOK, RootInv
    <3> QED BY <2>4, <3>1, <3>2, OwnerJoin DEF JoinFresh
  <2>5. ASSUME NEW i \in Instances, CreateFresh(s, i) PROVE OwnerInv'
    BY <2>5, OwnerAttach
  <2> QED BY <1>3, <2>1, <2>2, <2>3, <2>4, <2>5 DEF EnterRegistry
<1>4. ASSUME NEW s \in Sessions, ReleaseRoot(s) PROVE OwnerInv'
  BY <1>4, OwnerTakeOn, OwnerLeaveInUse, OwnerQuiet DEF ReleaseRoot, QuietMove
<1>5. ASSUME NEW s \in Sessions, EndSession(s) PROVE OwnerInv'
  BY <1>5, OwnerRunSteps, OwnerFinish, OwnerConfirm, OwnerQuiet DEF EndSession, QuietMove
<1>6. ASSUME NEW s \in Sessions, Disconnect(s) PROVE OwnerInv'
  BY <1>6, OwnerStutter DEF Disconnect
<1>7. ASSUME NEW s \in Sessions, LeaveOpen(s) \/ ClosureAnswered(s) \/ WaitFails(s)
      PROVE  OwnerInv'
  BY <1>7, OwnerLeaveOpen, OwnerConfirm, OwnerQuiet DEF QuietMove
<1> QED BY <1>1, <1>2, <1>3, <1>4, <1>5, <1>6, <1>7 DEF Next

(* Both invariants hold in every reachable state. *)
THEOREM OwnersInvariance == Spec => [](IInv /\ OwnerInv)
<1>1. Init => IInv /\ OwnerInv
  BY InitIInv, InitOwnerInv
<1>2. IInv /\ OwnerInv /\ [Next]_vars => (IInv /\ OwnerInv)'
  BY NextIInv, NextOwnerInv
<1> QED BY <1>1, <1>2, PTL DEF Spec

(* Whatever is lost or fails, a closing record has a session that will     *)
(* clear it, so no connect is refused for ever (registry.rs, join).        *)
THEOREM ClosingIsOwned == Spec => []ClosingHasOwner
<1>1. OwnerInv => ClosingHasOwner
  BY DEF OwnerInv
<1> QED BY <1>1, OwnersInvariance, PTL

(* A permission to shut down is carried by the record or a session until   *)
(* it is used or revoked (registry.rs, on_root_release, confirm_cleanup).  *)
THEOREM PermissionKeptAlways == Spec => []PermissionIsKept
<1>1. OwnerInv => PermissionIsKept
  BY DEF OwnerInv
<1> QED BY <1>1, OwnersInvariance, PTL

(* connect_or_create never answers that an instance is closing             *)
(* (session.rs, spawn: its second join is of an instance of its own).      *)
THEOREM NeverRefused == Spec => []ConnectOrCreateNeverRefused
<1>1. OwnerInv => ConnectOrCreateNeverRefused
  BY DEF OwnerInv
<1> QED BY <1>1, OwnersInvariance, PTL

-----------------------------------------------------------------------------
(* ShutdownPromise.                                                        *)

LEMMA InitPromise == Init => Promise!Init
<1> SUFFICES ASSUME Init PROVE Promise!Init
  OBVIOUS
<1>1. ASSUME NEW i \in Instances
      PROVE  records[i].users = {} /\ StageOf(i) = "open"
  BY DEF Init, RegistryInit, Absent, Keys, StageOf, Running, IsClosing
<1> QED BY <1>1 DEF Init, Promise!Init, AbstractUsers, AbstractStage

(* What a step leaves alone of an instance. *)
SameUsers(i) == records'[i].users = records[i].users
SameStage(i) == StageOf(i)' = StageOf(i)

Steps == {"inline", "answered", "confirmed"}

LEMMA NothingPromised ==
    ASSUME \A i \in Instances : SameUsers(i) /\ SameStage(i), UNCHANGED <<granted, revoked>>
    PROVE  UNCHANGED Promise!vars
BY DEF Promise!vars, AbstractUsers, AbstractStage, SameUsers, SameStage

(* A step of one instance: the others' users and stages stay. *)
LEMMA OthersStay ==
    ASSUME NEW i \in Instances, \A j \in Instances \ {i} : SameUsers(j) /\ SameStage(j)
    PROVE  /\ AbstractUsers' = [AbstractUsers EXCEPT ![i] = records'[i].users]
           /\ AbstractStage' = [AbstractStage EXCEPT ![i] = StageOf(i)']
BY DEF AbstractUsers, AbstractStage, SameUsers, SameStage

LEMMA Elsewhere ==
    ASSUME TypeOK, NEW s \in Sessions, NEW k \in Instances, key[s] = k,
           NEW to \in PC, pc' = [pc EXCEPT ![s] = to], UNCHANGED key,
           OnlyChanges(k), \A j \in Instances \ {k} : ran'[j] = ran[j]
    PROVE  \A j \in Instances \ {k} : SameUsers(j) /\ SameStage(j)
<1> SUFFICES ASSUME NEW j \in Instances \ {k} PROVE SameUsers(j) /\ SameStage(j)
  OBVIOUS
<1>1. records'[j] = records[j]
  BY DEF OnlyChanges, Keys
<1>2. Running(j)' <=> Running(j)
  BY DEF Running, TypeOK
<1> QED BY <1>1, <1>2 DEF SameUsers, SameStage, StageOf, IsClosing

(* A thread that neither starts nor ends running steps. *)
LEMMA RunningStays ==
    ASSUME TypeOK, NEW s \in Sessions, NEW to \in PC \ Steps, pc[s] \notin Steps,
           pc' = [pc EXCEPT ![s] = to], \A t \in Sessions \ {s} : key'[t] = key[t],
           NEW i \in Instances
    PROVE  Running(i)' <=> Running(i)
BY DEF TypeOK, Running, Steps

LEMMA PromiseQuiet ==
    ASSUME TypeOK, NEW s \in Sessions, NEW to \in PC \ Steps, pc[s] \notin Steps,
           pc' = [pc EXCEPT ![s] = to], UNCHANGED <<records, key, ran, granted, revoked>>
    PROVE  UNCHANGED Promise!vars
<1>1. ASSUME NEW i \in Instances PROVE SameUsers(i) /\ SameStage(i)
  <2>1. Running(i)' <=> Running(i)
    BY RunningStays
  <2> QED BY <2>1 DEF SameUsers, SameStage, StageOf, IsClosing
<1> QED BY <1>1, NothingPromised

LEMMA PromiseStutter ==
    ASSUME UNCHANGED <<records, pc, key, ran, granted, revoked>>
    PROVE  UNCHANGED Promise!vars
BY NothingPromised DEF SameUsers, SameStage, StageOf, Running, IsClosing

(* With every identity read, sessions meet at the instance itself. *)
LEMMA KeyIsRoot ==
    ASSUME IInv, OwnerInv, ~IdentityMayFail, NEW s \in Sessions, key[s] # NoKey
    PROVE  key[s] \in Instances /\ root[s] = key[s]
BY KeyFacts DEF OwnerInv, IdentityInv

(* Only its record or a decided session stands between an instance and     *)
(* being open.                                                             *)
LEMMA OpenWhen ==
    ASSUME IInv, OwnerInv, ~IdentityMayFail, NEW s \in Sessions, NEW k \in Instances,
           key[s] = k, records[k].auto, \A t \in Sessions : key[t] = k => pc[t] \notin Steps \cup {"finishing"}
    PROVE  StageOf(k) = IF records[k].closing THEN "closing" ELSE "open"
<1>1. root[s] = k /\ key[s] # NoKey
  BY KeyIsRoot, NoneAssumption DEF Keys
<1>2. ~(ran[k] > 0)
  BY <1>1 DEF IInv, RanInv
<1> QED BY <1>2 DEF StageOf, Running, Steps, IsClosing

LEMMA PromiseJoin ==
    ASSUME IInv, OwnerInv, ~IdentityMayFail,
           NEW s \in Sessions, NEW k \in PossibleKeys(s), NEW callback \in BOOLEAN,
           pc[s] \in {"attached", "rejoining"}, pc' = [pc EXCEPT ![s] = "serving"],
           JoinAs(s, k, callback, created[s])
    PROVE  Promise!Next
<1> USE DEF JoinAs
<1>1. /\ key[s] = NoKey /\ root[s] = k /\ k \in Instances /\ k \in Keys
      /\ created[s] \in BOOLEAN
  BY DEF IInv, TypeOK, RootInv, KeyInv, PossibleKeys, Keys
<1>2. /\ OnlyChanges(k) /\ ~records[k].closing /\ ~records'[k].closing
      /\ records'[k].users = records[k].users \cup {s}
  BY <1>1, JoinEffect DEF IInv, TypeOK
<1>3. ASSUME NEW i \in Instances PROVE Running(i)' <=> Running(i)
  BY <1>1, RunningStays DEF IInv, TypeOK, PC, Steps
<1>4. ASSUME NEW i \in Instances PROVE SameStage(i)
  BY <1>1, <1>2, <1>3 DEF SameStage, StageOf, IsClosing, OnlyChanges, Keys
<1>5. ASSUME NEW i \in Instances \ {k} PROVE SameUsers(i)
  BY <1>2 DEF SameUsers, OnlyChanges, Keys
<1>6. /\ AbstractUsers' = [AbstractUsers EXCEPT ![k] = records[k].users \cup {s}]
      /\ AbstractStage' = AbstractStage
  BY <1>1, <1>2, <1>4, <1>5 DEF AbstractUsers, AbstractStage, SameUsers, SameStage
<1>7. CASE created[s] /\ ~records[k].present
  <2>1. k \notin granted
    BY <1>1, <1>7, CreatorMeetsNone
  <2>2. ~(ran[k] > 0)
    BY <1>1, <1>7, KeyFacts DEF IInv, RanInv, CreatorInv
  <2>3. ~Running(k)
    BY <2>1 DEF Running, IInv, DecidedInv, Decided
  <2>4. StageOf(k) = "open" /\ records[k].users = {}
    BY <1>1, <1>2, <1>7, <2>2, <2>3 DEF StageOf, IsClosing, IInv, TypeOK, RegistryTypeOK, Absent
  <2>5. Promise!Grant(k, s)
    BY <1>1, <1>6, <1>7, <2>1, <2>4 DEF Promise!Grant, AbstractUsers, AbstractStage
  <2> QED BY <1>1, <2>5 DEF Promise!Next
<1>8. CASE ~(created[s] /\ ~records[k].present)
  <2>1. StageOf(k) # "closing"
    BY <1>2 DEF StageOf, IsClosing
  <2>2. Promise!Enter(k, s)
    BY <1>1, <1>6, <1>8, <2>1 DEF Promise!Enter, AbstractUsers, AbstractStage
  <2> QED BY <1>1, <2>2 DEF Promise!Next
<1> QED BY <1>7, <1>8

LEMMA PromiseTakeOn ==
    ASSUME IInv, OwnerInv, ~IdentityMayFail,
           NEW s \in Sessions, NEW k \in Instances, key[s] = k,
           AskClosure(s) \/ ShutDownInline(s)
    PROVE  Promise!Next
<1>1. /\ k \in Keys /\ pc[s] = "serving" /\ IsLastUser(k, s) /\ OnRootRelease(k, s)
      /\ \/ pc' = [pc EXCEPT ![s] = "serving"]
         \/ pc' = [pc EXCEPT ![s] = "inline"]
      /\ UNCHANGED <<key, ran, granted, revoked>>
  BY DEF AskClosure, ShutDownInline, MayAsk, Goto, sessionVars, history, Keys
<1>2. /\ OnlyChanges(k) /\ records'[k].closing /\ records'[k].users = {}
      /\ records[k].auto /\ ~records[k].closing /\ records[k].users \ {s} = {}
  BY <1>1, OnRootReleaseEffect DEF IInv, TypeOK, IsLastUser, UsersWithout
<1>3. \A t \in Sessions : key[t] = k => ~Decided(t)
  BY <1>2 DEF IInv, DecidedInv
<1>4. records[k].users = {s}
  <2>1. InUse(s)
    BY <1>1, <1>3, NoneAssumption DEF InUse, Participates, Decided
  <2> QED BY <1>2, <2>1 DEF IInv, UserInv
<1>5. StageOf(k) = "open" /\ k \in granted \ revoked
  BY <1>1, <1>2, <1>3, OpenWhen DEF Decided, Steps, IInv, GrantInv
<1>6. ~(ran[k] > 0)
  BY <1>5 DEF StageOf
<1>7. StageOf(k)' \in {"closing", "ending"}
  BY <1>1, <1>2, <1>6 DEF StageOf, IsClosing
<1>8. /\ AbstractUsers' = [AbstractUsers EXCEPT ![k] = {}]
      /\ AbstractStage' = [AbstractStage EXCEPT ![k] = StageOf(k)']
  <2>1. \A j \in Instances \ {k} : SameUsers(j) /\ SameStage(j)
    BY <1>1, <1>2, Elsewhere DEF IInv, PC
  <2> QED BY <1>2, <2>1, OthersStay
<1>9. Promise!Leave(k, s)
  <2>1. AbstractUsers[k] = {s} /\ AbstractStage[k] = "open"
    BY <1>4, <1>5 DEF AbstractUsers, AbstractStage
  <2>2. Promise!LastOut(k, s)
    BY <1>5, <2>1 DEF Promise!LastOut, Promise!Permitted
  <2> QED BY <1>1, <1>7, <1>8, <2>1, <2>2 DEF Promise!Leave
<1> QED BY <1>9 DEF Promise!Next

LEMMA PromiseLeaveInUse ==
    ASSUME IInv, OwnerInv, ~IdentityMayFail,
           NEW s \in Sessions, NEW k \in Instances, key[s] = k, LeaveInUse(s)
    PROVE  Promise!Next \/ UNCHANGED Promise!vars
<1>1. /\ k \in Keys /\ pc[s] = "serving" /\ ~IsLastUser(k, s) /\ OnRootRelease(k, s)
      /\ \/ pc' = [pc EXCEPT ![s] = "leaving"]
         \/ pc' = [pc EXCEPT ![s] = "catchall"]
      /\ UNCHANGED <<key, ran, granted, revoked>>
  BY DEF LeaveInUse, AfterLoop, Goto, sessionVars, history, Keys
<1>2. /\ OnlyChanges(k) /\ records'[k].users = records[k].users \ {s}
      /\ records'[k].closing <=> records[k].closing
  BY <1>1, OnRootReleaseEffect DEF IInv, TypeOK
<1>3. SameStage(k)
  <2>1. Running(k)' <=> Running(k)
    BY <1>1, RunningStays DEF IInv, PC, Steps
  <2> QED BY <1>1, <1>2, <2>1 DEF SameStage, StageOf, IsClosing
<1>4. \A j \in Instances \ {k} : SameUsers(j) /\ SameStage(j)
  BY <1>1, <1>2, Elsewhere DEF IInv, PC
<1>5. CASE s \notin records[k].users
  <2>1. SameUsers(k)
    <3>1. records'[k].users = records[k].users
      BY <1>2, <1>5
    <3> QED BY <3>1 DEF SameUsers
  <2>2. \A j \in Instances : SameUsers(j) /\ SameStage(j)
    BY <1>3, <1>4, <2>1
  <2> QED BY <1>1, <2>2, NothingPromised
<1>6. CASE s \in records[k].users
  <2>1. ASSUME StageOf(k) = "open", k \in granted \ revoked, records[k].users = {s}
        PROVE  FALSE
    <3>1. ~(ran[k] > 0) /\ ~Running(k) /\ ~records[k].closing
      BY <2>1 DEF StageOf, IsClosing
    <3>2. ~records[k].auto
      BY <1>1, <2>1, <3>1 DEF IsLastUser, UsersWithout, IInv, TypeOK, RegistryTypeOK, Absent
    <3>3. PICK t \in Sessions : key[t] = k /\ (OwesShutdown(t) \/ ran[root[t]] > 0)
      BY <2>1, <3>2 DEF OwnerInv, PermissionIsKept
    <3>4. root[t] = k
      BY <1>1, <3>3, KeyIsRoot, NoneAssumption
    <3>5. CASE pending[t] /\ pc[t] \in {"serving", "catchall"}
      BY <2>1, <3>1, <3>3, <3>4, <3>5 DEF OwnerInv, AskedInv
    <3>6. CASE pc[t] \in Steps \cup {"finishing"}
      BY <3>1, <3>3, <3>4, <3>6 DEF Running, Steps, OwnerInv, FinishingInv
    <3> QED BY <3>1, <3>3, <3>4, <3>5, <3>6 DEF OwesShutdown, Steps
  <2>2. ~Promise!LastOut(k, s)
    BY <2>1 DEF Promise!LastOut, Promise!Permitted, AbstractUsers, AbstractStage
  <2>3. AbstractUsers' = [AbstractUsers EXCEPT ![k] = records[k].users \ {s}]
    BY <1>2, <1>4, OthersStay
  <2>4. AbstractStage' = AbstractStage
    BY <1>3, <1>4 DEF AbstractStage, SameStage
  <2>5. Promise!Leave(k, s)
    BY <1>1, <1>6, <2>2, <2>3, <2>4 DEF Promise!Leave, AbstractUsers
  <2> QED BY <2>5 DEF Promise!Next
<1> QED BY <1>5, <1>6

LEMMA PromiseLeaveOpen ==
    ASSUME IInv, OwnerInv, ~IdentityMayFail,
           NEW s \in Sessions, NEW k \in Instances, key[s] = k, LeaveOpen(s)
    PROVE  Promise!Next \/ UNCHANGED Promise!vars
<1>1. /\ k \in Keys /\ LeaveOpenRecord(k)
      /\ pc[s] = "serving" /\ pc' = [pc EXCEPT ![s] = "serving"]
      /\ revoked' = IF records[k].auto THEN revoked \cup {k} ELSE revoked
      /\ UNCHANGED <<key, ran, granted>>
  BY DEF LeaveOpen, Goto, sessionVars, Keys
<1>2. /\ OnlyChanges(k) /\ records'[k].users = records[k].users /\ ~records'[k].closing
  BY <1>1, LeaveOpenEffect DEF IInv, TypeOK
<1>3. Running(k)' <=> Running(k)
  BY <1>1, RunningStays DEF IInv, PC, Steps
<1>4. \A j \in Instances \ {k} : SameUsers(j) /\ SameStage(j)
  BY <1>1, <1>2, Elsewhere DEF IInv, PC
<1>5. CASE ~records[k].auto
  <2>1. ~records[k].closing
    BY <1>1, <1>5 DEF IInv, TypeOK, RegistryTypeOK
  <2>2. SameUsers(k) /\ SameStage(k)
    BY <1>1, <1>2, <1>3, <2>1 DEF SameUsers, SameStage, StageOf, IsClosing
  <2> QED BY <1>1, <1>4, <1>5, <2>2, NothingPromised
<1>6. CASE records[k].auto
  <2>1. ASSUME NEW t \in Sessions, key[t] = k, pc[t] \in Steps \cup {"finishing"}
        PROVE  FALSE
    <3>1. Decided(t) /\ t # s
      BY <1>1, <2>1 DEF Decided, Steps
    <3>2. records[k].closing /\ records[k].users = {}
      BY <1>1, <1>6, <2>1, <3>1 DEF IInv, TypeOK, RegistryTypeOK, DecidedInv
    <3>3. ~InUse(s)
      BY <3>2 DEF IInv, UserInv
    <3>4. Decided(s)
      BY <1>1, <3>3, NoneAssumption DEF InUse, Participates, Decided
    <3> QED BY <2>1, <3>1, <3>4 DEF IInv, DecidedInv
  <2>2. StageOf(k) \in {"open", "closing"}
    BY <1>6, <2>1, OpenWhen
  <2>3. StageOf(k)' = "open"
    BY <1>1, <1>2, <1>3, <2>2 DEF StageOf, IsClosing
  <2>4. AbstractUsers' = AbstractUsers
    BY <1>2, <1>4 DEF AbstractUsers, SameUsers
  <2>5. AbstractStage' = [AbstractStage EXCEPT ![k] = "open"]
    BY <1>4, <2>3, OthersStay
  <2>6. Promise!Revoke(k)
    BY <1>1, <1>6, <2>2, <2>4, <2>5
    DEF Promise!Revoke, Promise!Permitted, AbstractStage, IInv, GrantInv
  <2> QED BY <2>6 DEF Promise!Next
<1> QED BY <1>5, <1>6

LEMMA PromiseConfirm ==
    ASSUME IInv, OwnerInv, ~IdentityMayFail,
           NEW s \in Sessions, NEW k \in Instances, key[s] = k,
           ClosureAnswered(s) \/ CatchAll(s)
    PROVE  Promise!Next \/ UNCHANGED Promise!vars
<1>1. /\ k \in Keys /\ pending[s] /\ ConfirmCleanup(k) /\ pc[s] \in {"serving", "catchall"}
      /\ UNCHANGED <<key, ran, granted, revoked>>
  BY DEF ClosureAnswered, CatchAll, Goto, IInv, PhaseInv, sessionVars, history, Keys
<1>2. PICK to \in {"answered", "confirmed", "catchall", "leaving"} :
        /\ pc' = [pc EXCEPT ![s] = to]
        /\ to \in {"answered", "confirmed"} <=> records[k].closing
  BY DEF ClosureAnswered, CatchAll, Goto, IsClosing
<1>3. OnlyChanges(k) /\ records'[k].users = records[k].users /\ ~records'[k].closing
  BY <1>1, ConfirmCleanupEffect DEF IInv, TypeOK
<1>4. \A j \in Instances \ {k} : SameUsers(j) /\ SameStage(j)
  BY <1>1, <1>2, <1>3, Elsewhere DEF IInv, PC
<1>5. CASE ~records[k].closing
  <2>1. Running(k)' <=> Running(k)
    BY <1>1, <1>2, <1>5, RunningStays DEF IInv, PC, Steps
  <2>2. SameUsers(k) /\ SameStage(k)
    BY <1>1, <1>3, <1>5, <2>1 DEF SameUsers, SameStage, StageOf, IsClosing
  <2> QED BY <1>1, <1>4, <2>2, NothingPromised
<1>6. CASE records[k].closing
  <2>1. \A t \in Sessions : key[t] = k => pc[t] \notin Steps \cup {"finishing"}
    BY <1>1 DEF IInv, DecidedInv, Decided, Steps
  <2>2. StageOf(k) = "closing"
    BY <1>1, <1>6, <2>1, OpenWhen DEF IInv, TypeOK, RegistryTypeOK
  <2>3. pc'[s] \in {"answered", "confirmed"} /\ key'[s] = k
    BY <1>1, <1>2, <1>6 DEF IInv, TypeOK
  <2>4. StageOf(k)' = "ending"
    BY <1>1, <2>2, <2>3 DEF StageOf, Running
  <2>5. AbstractUsers' = AbstractUsers
    BY <1>3, <1>4 DEF AbstractUsers, SameUsers
  <2>6. AbstractStage' = [AbstractStage EXCEPT ![k] = "ending"]
    BY <1>4, <2>4, OthersStay
  <2>7. Promise!Commit(k)
    BY <1>1, <2>2, <2>5, <2>6 DEF Promise!Commit, AbstractStage
  <2> QED BY <2>7 DEF Promise!Next
<1> QED BY <1>5, <1>6

LEMMA PromiseRunSteps ==
    ASSUME IInv, OwnerInv, ~IdentityMayFail,
           NEW s \in Sessions, NEW k \in Instances, key[s] = k,
           RunInlineSteps(s) \/ RunAnsweredSteps(s) \/ RunConfirmedSteps(s)
    PROVE  Promise!Next
<1>1. root[s] = k
  BY KeyIsRoot, NoneAssumption DEF Keys
<1>2. /\ pc[s] \in {"inline", "answered", "confirmed"}
      /\ \E to \in {"finishing", "catchall", "leaving"} : pc' = [pc EXCEPT ![s] = to]
      /\ ran' = [ran EXCEPT ![k] = @ + 1]
      /\ UNCHANGED <<records, key, granted, revoked>>
  BY <1>1 DEF RunInlineSteps, RunAnsweredSteps, RunConfirmedSteps, RunSteps, Goto, sessionVars
<1>3. ran[k] = 0 /\ Running(k)
  BY <1>1, <1>2 DEF IInv, RanInv, Running
<1>4. StageOf(k) = "ending"
  BY <1>3 DEF StageOf
<1>5. StageOf(k)' = "ended"
  BY <1>2, <1>3 DEF StageOf, IInv, TypeOK
<1>6. \A j \in Instances \ {k} : SameUsers(j) /\ SameStage(j)
  BY <1>2, Elsewhere DEF IInv, TypeOK, PC, OnlyChanges
<1>7. AbstractUsers' = AbstractUsers
  BY <1>2 DEF AbstractUsers
<1>8. AbstractStage' = [AbstractStage EXCEPT ![k] = "ended"]
  BY <1>5, <1>6, OthersStay
<1>9. Promise!End(k)
  BY <1>2, <1>4, <1>7, <1>8 DEF Promise!End, AbstractStage
<1> QED BY <1>9 DEF Promise!Next

LEMMA PromiseFinish ==
    ASSUME IInv, OwnerInv, ~IdentityMayFail,
           NEW s \in Sessions, NEW k \in Instances, key[s] = k, FinishShutdown(s)
    PROVE  UNCHANGED Promise!vars
<1>1. /\ k \in Keys /\ pc[s] = "finishing" /\ FinishCleanup(k)
      /\ pc' = [pc EXCEPT ![s] = "catchall"] \/ pc' = [pc EXCEPT ![s] = "leaving"]
      /\ UNCHANGED <<key, ran, granted, revoked>>
  BY DEF FinishShutdown, AfterLoop, Goto, sessionVars, history, Keys
<1>2. OnlyChanges(k) /\ records'[k].users = {}
  BY <1>1, FinishCleanupEffect DEF IInv, TypeOK, Absent
<1>3. records[k].users = {}
  BY <1>1 DEF IInv, TypeOK, RegistryTypeOK, PhaseInv
<1>4. ran[k] > 0
  <2>1. root[s] = k
    BY KeyIsRoot, NoneAssumption DEF Keys
  <2> QED BY <1>1, <2>1 DEF OwnerInv, FinishingInv
<1>5. SameUsers(k) /\ SameStage(k)
  BY <1>1, <1>2, <1>3, <1>4 DEF SameUsers, SameStage, StageOf
<1>6. \A j \in Instances \ {k} : SameUsers(j) /\ SameStage(j)
  BY <1>1, <1>2, Elsewhere DEF IInv, PC
<1> QED BY <1>1, <1>5, <1>6, NothingPromised

(* Every step of a session is a step of the promise, or none of it. *)
LEMMA NextPromise ==
    ASSUME IInv, OwnerInv, ~IdentityMayFail, [Next]_vars
    PROVE  [Promise!Next]_(Promise!vars)
<1> DEFINE Kept == Promise!Next \/ UNCHANGED Promise!vars
<1> SUFFICES Kept
  OBVIOUS
<1>0. ASSUME NEW s \in Sessions, Decided(s) \/ key[s] # NoKey PROVE key[s] \in Instances
  BY <1>0, KeyFacts, KeyIsRoot DEF IInv, DecidedInv
<1>1. CASE UNCHANGED vars \/ AllEnded
  BY <1>1, PromiseStutter DEF AllEnded, vars, sessionVars, history
<1>2. ASSUME NEW s \in Sessions, QuietMove(s) PROVE Kept
  <2>1. /\ pc[s] \notin Steps
        /\ \E to \in PC \ Steps : pc' = [pc EXCEPT ![s] = to]
        /\ UNCHANGED <<records, key, ran, granted, revoked>>
    BY <1>2 DEF QuietMove, AttachFails, StayOut, CreateFreshFails, MeetClosing, ReleaseLastHandle,
                WaitFails, Leave, Goto, AfterLoop, PC, Steps, sessionVars, history
  <2> QED BY <2>1, PromiseQuiet DEF IInv
<1>3. ASSUME NEW s \in Sessions, Start(s) PROVE Kept
  <2>1. ASSUME NEW m \in Mode, NEW i \in Instances, Attach(s, m, i) PROVE Kept
    <3>1. /\ pc[s] \notin Steps /\ pc' = [pc EXCEPT ![s] = "attached"]
          /\ UNCHANGED <<records, key, ran, granted, revoked>>
      BY <2>1 DEF Attach, Goto, Steps, history
    <3> QED BY <3>1, PromiseQuiet DEF IInv, PC, Steps
  <2> QED BY <1>2, <1>3, <2>1 DEF Start, QuietMove
<1>4. ASSUME NEW s \in Sessions, EnterRegistry(s) PROVE Kept
  <2>1. ASSUME NEW k \in Keys, NEW c \in BOOLEAN, JoinRegistry(s, k, c) PROVE Kept
    BY <2>1, PromiseJoin DEF JoinRegistry, Goto
  <2>2. ASSUME NEW k \in Keys, NEW c \in BOOLEAN, JoinFresh(s, k, c) PROVE Kept
    <3>1. pc[s] = "rejoining" /\ pc' = [pc EXCEPT ![s] = "serving"]
      BY <2>2 DEF JoinFresh, Goto
    <3>2. created[s] = TRUE
      BY <3>1 DEF IInv, TypeOK, RootInv
    <3> QED BY <2>2, <3>1, <3>2, PromiseJoin DEF JoinFresh
  <2>3. ASSUME NEW i \in Instances, CreateFresh(s, i) PROVE Kept
    <3>1. /\ pc[s] \notin Steps /\ pc' = [pc EXCEPT ![s] = "rejoining"]
          /\ UNCHANGED <<records, key, ran, granted, revoked>>
      BY <2>3 DEF CreateFresh, Goto, Steps, history
    <3> QED BY <3>1, PromiseQuiet DEF IInv, PC, Steps
  <2> QED BY <1>2, <1>4, <2>1, <2>2, <2>3 DEF EnterRegistry, QuietMove
<1>5. ASSUME NEW s \in Sessions, ReleaseRoot(s) PROVE Kept
  <2>1. CASE ReleaseLastHandle(s)
    BY <1>2, <2>1 DEF QuietMove
  <2>2. CASE AskClosure(s) \/ ShutDownInline(s)
    BY <1>0, <2>2, PromiseTakeOn DEF AskClosure, ShutDownInline, Participates
  <2>3. CASE LeaveInUse(s)
    BY <1>0, <2>3, PromiseLeaveInUse DEF LeaveInUse, Participates
  <2> QED BY <1>5, <2>1, <2>2, <2>3 DEF ReleaseRoot
<1>6. ASSUME NEW s \in Sessions, EndSession(s) PROVE Kept
  <2>1. CASE RunInlineSteps(s) \/ RunAnsweredSteps(s) \/ RunConfirmedSteps(s)
    <3>1. Decided(s)
      BY <2>1 DEF Decided, RunInlineSteps, RunAnsweredSteps, RunConfirmedSteps, RunSteps, Goto
    <3> QED BY <1>0, <2>1, <3>1, PromiseRunSteps
  <2>2. CASE FinishShutdown(s)
    <3>1. Decided(s)
      BY <2>2 DEF Decided, FinishShutdown, Goto
    <3> QED BY <1>0, <2>2, <3>1, PromiseFinish
  <2>3. CASE CatchAll(s)
    <3>1. Decided(s)
      BY <2>3 DEF Decided, CatchAll, Goto
    <3> QED BY <1>0, <2>3, <3>1, PromiseConfirm
  <2>4. CASE Leave(s)
    BY <1>2, <2>4 DEF QuietMove
  <2> QED BY <1>6, <2>1, <2>2, <2>3, <2>4 DEF EndSession
<1>7. ASSUME NEW s \in Sessions, LeaveOpen(s) PROVE Kept
  BY <1>0, <1>7, PromiseLeaveOpen DEF LeaveOpen, Participates
<1>8. ASSUME NEW s \in Sessions, ClosureAnswered(s) PROVE Kept
  BY <1>0, <1>8, PromiseConfirm DEF ClosureAnswered, Decided
<1>9. ASSUME NEW s \in Sessions, WaitFails(s) PROVE Kept
  BY <1>2, <1>9 DEF QuietMove
<1>10. ASSUME NEW s \in Sessions, Disconnect(s) PROVE Kept
  BY <1>10, PromiseStutter DEF Disconnect, history
<1> HIDE DEF Kept
<1> QED BY <1>1, <1>3, <1>4, <1>5, <1>6, <1>7, <1>8, <1>9, <1>10 DEF Next

(* While identities can be read, the bridge's sessions keep the safety of  *)
(* ShutdownPromise: a shutdown is permitted once, decided only by the last *)
(* user's departure, called off or carried out, once (README.md, "Instance *)
(* ownership and cleanup").                                                *)
THEOREM PromiseIsKept ==
    ASSUME ~IdentityMayFail
    PROVE  Spec => PromiseSafety
<1>1. Init => Promise!Init
  BY InitPromise
<1>2. IInv /\ OwnerInv /\ [Next]_vars => [Promise!Next]_(Promise!vars)
  BY NextPromise
<1> QED BY <1>1, <1>2, OwnersInvariance, PTL DEF Spec, PromiseSafety
==============================================================================
