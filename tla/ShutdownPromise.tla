--------------------------- MODULE ShutdownPromise ---------------------------
(***************************************************************************)
(* What the bridge promises about one Office instance and the programs     *)
(* that share it (README, "Instance ownership and cleanup"), without       *)
(* threads, records or commands:                                           *)
(*                                                                         *)
(*   - permission to shut it down is granted at most once, to whoever      *)
(*     created it, and withdrawn for good by leave_open;                   *)
(*   - the moment the last user of a permitted instance leaves, its        *)
(*     shutdown is decided; nobody enters while the decision can still be  *)
(*     called off;                                                         *)
(*   - a decided shutdown is called off or carried out, once.              *)
(*                                                                         *)
(* Entering an instance whose steps are running is allowed here, because   *)
(* the code allows it (see ConnectRefusedDuringShutdown).                  *)
(***************************************************************************)
CONSTANTS Sessions, Instances

VARIABLES users, granted, revoked, stage

vars == <<users, granted, revoked, stage>>

(* open: in use, or never used.  closing: decided, may be called off.      *)
(* ending: the steps are running.  ended: they have been run.              *)
Stage == {"open", "closing", "ending", "ended"}

Init ==
    /\ users = [i \in Instances |-> {}]
    /\ granted = {}
    /\ revoked = {}
    /\ stage = [i \in Instances |-> "open"]

Permitted(i) == i \in granted \ revoked

Enter(i, s) ==
    /\ stage[i] # "closing"
    /\ users' = [users EXCEPT ![i] = @ \cup {s}]
    /\ UNCHANGED <<granted, revoked, stage>>

(* The creator enters first and brings the permission. *)
Grant(i, s) ==
    /\ stage[i] = "open" /\ users[i] = {} /\ i \notin granted
    /\ users' = [users EXCEPT ![i] = {s}]
    /\ granted' = granted \cup {i}
    /\ UNCHANGED <<revoked, stage>>

LastOut(i, s) == stage[i] = "open" /\ Permitted(i) /\ users[i] = {s}

Leave(i, s) ==
    /\ s \in users[i]
    /\ users' = [users EXCEPT ![i] = @ \ {s}]
    /\ IF LastOut(i, s)
       THEN \E next \in {"closing", "ending"} : stage' = [stage EXCEPT ![i] = next]
       ELSE UNCHANGED stage
    /\ UNCHANGED <<granted, revoked>>

Revoke(i) ==
    /\ Permitted(i) /\ stage[i] \in {"open", "closing"}
    /\ revoked' = revoked \cup {i}
    /\ stage' = [stage EXCEPT ![i] = "open"]
    /\ UNCHANGED <<users, granted>>

Commit(i) ==
    /\ stage[i] = "closing"
    /\ stage' = [stage EXCEPT ![i] = "ending"]
    /\ UNCHANGED <<users, granted, revoked>>

End(i) ==
    /\ stage[i] = "ending"
    /\ stage' = [stage EXCEPT ![i] = "ended"]
    /\ UNCHANGED <<users, granted, revoked>>

Next == \E i \in Instances :
    \/ Revoke(i) \/ Commit(i) \/ End(i)
    \/ \E s \in Sessions : Enter(i, s) \/ Grant(i, s) \/ Leave(i, s)

Spec == Init /\ [][Next]_vars /\ \A i \in Instances : WF_vars(End(i))
=============================================================================
