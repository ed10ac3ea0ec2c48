------------------------- MODULE LifetimeRefinement -------------------------
(***************************************************************************)
(* SessionLifetime implements ShutdownPromise when identities can be read, *)
(* also when a session's wait fails and its thread goes without leaving.   *)
(***************************************************************************)
EXTENDS SessionLifetime

AbstractUsers == [i \in Instances |-> records[i].users]

Running(i) == \E s \in Sessions :
    key[s] = i /\ pc[s] \in {"inline", "answered", "confirmed"}

StageOf(i) ==
    IF ran[i] > 0 THEN "ended"
    ELSE IF Running(i) THEN "ending"
    ELSE IF IsClosing(i) THEN "closing" ELSE "open"

AbstractStage == [i \in Instances |-> StageOf(i)]

Promise == INSTANCE ShutdownPromise WITH
    users <- AbstractUsers, granted <- granted, revoked <- revoked,
    stage <- AbstractStage

(* README, "Instance ownership and cleanup": permission granted once and   *)
(* revocable, shutdown decided by the last user's departure and carried    *)
(* out at most once, whatever the sessions' threads interleave.            *)
KeepsPromise == Promise!Spec

(* The same without the fairness of its end. *)
PromiseSafety == Promise!Init /\ [][Promise!Next]_(Promise!vars)
=============================================================================
