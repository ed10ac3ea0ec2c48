------------------------ MODULE SubscriptionsProofs ------------------------
(* Proofs about Subscriptions, for any objects, events and argument lists  *)
(* and any bounds on ids, sinks and queued callbacks.                      *)
EXTENDS Subscriptions, TLAPS

-----------------------------------------------------------------------------
(* The inductive invariant.                                                *)

(* A call about a sink is under way in two phases only.  What Advise is    *)
(* for was looked at before it and is still so when it returns; Unadvise's *)
(* sink is nobody's any more.                                              *)
Targets ==
    /\ target # Nothing <=> phase \in {"advising", "unadvising"}
    /\ target # Nothing => \A h \in Ids : advised[h] # target.sink
    /\ phase = "advising" =>
         /\ target.want # "off"
         /\ handles[target.handle] # Nothing /\ ~IsEventArg(target.handle)
         /\ advised[target.handle] = Nothing
    /\ phase = "unadvising" => target.sink \in table

(* No two objects share a sink. *)
Distinct ==
    \A g, h \in Ids : advised[g] # Nothing /\ advised[g] = advised[h] => g = h

(* EventSink::release frees a sink with its last reference, never before.  *)
Alive == \A k \in Sinks : sinkHandle[k] = Nothing <=> refs[k] = 0

(* Ids come from one counter: what is not minted yet names nothing. *)
NotMinted ==
    /\ Running => \A h \in Ids : h >= nextId => handles[h] = Nothing
    /\ \A s \in Ids : s >= nextId => eventHandles[s] = {} /\ s \notin shown
    /\ \A s \in Ids : \A h \in eventHandles[s] : 0 < h /\ h < nextId
    /\ pendingCleanup # Nothing => pendingCleanup < nextId

(* An id is an argument of one event at most. *)
OneEvent ==
    \A s, r \in Ids : eventHandles[s] \cap eventHandles[r] # {} => s = r

(* How far the teardown has come. *)
Emptied ==
    /\ phase \in {"entering", "dropping", "letting", "leaving", "over"} =>
         \A h \in Ids : advised[h] = Nothing
    /\ phase \in {"entering", "leaving", "over"} =>
         raw = <<>> /\ \A h \in Ids : handles[h] = Nothing
    /\ phase = "letting" => raw = <<>>
    /\ phase \in {"letting", "leaving"} => ~rawOpen
    /\ phase \in {"entering", "over"} => ~apartment

IInv ==
    /\ TypeOK
    /\ AdvisedWhileSubscribed /\ SinkHeldWhileAdvised /\ EventArgsResolve
    /\ Targets /\ Distinct /\ Alive
    /\ NotMinted /\ OneEvent /\ Emptied

USE NothingAssumption, ObjectAssumption, ArgAssumption, EventAssumption, BoundAssumption,
    TargetAssumption

(* The handles of events, without the union. *)
LEMMA EventArgIsListed ==
    ASSUME NEW h
    PROVE  IsEventArg(h) <=> \E s \in Ids : h \in eventHandles[s]
BY DEF IsEventArg, EventArgs

LEMMA InitIInv == Init => IInv
<1> SUFFICES ASSUME Init PROVE IInv
  OBVIOUS
<1>1. TypeOK
  <2>1. /\ handles \in [Ids -> Objects \cup {Nothing}]
        /\ advised \in [Ids -> Sinks \cup {Nothing}]
        /\ subs \in [Ids -> [Events -> Wants]]
        /\ eventHandles \in [Ids -> SUBSET Ids]
    BY DEF Init, Wants, Off
  <2>2. /\ refs \in [Sinks -> Nat] /\ extra \in [Sinks -> Nat]
        /\ sinkHandle \in [Sinks -> Ids \cup {Nothing}]
    BY DEF Init
  <2>3. raw \in Seq(Callback)
    BY DEF Init
  <2>4. nextId \in 0 .. MaxId + 1
    BY DEF Init
  <2> QED BY <2>1, <2>2, <2>3, <2>4 DEF Init, TypeOK, Phases
<1>2. \A h \in Ids : ~IsEventArg(h) /\ ~Subscribed(h)
  BY EventArgIsListed DEF Init, Subscribed, Off
<1>3. AdvisedWhileSubscribed /\ SinkHeldWhileAdvised /\ EventArgsResolve
  BY <1>2 DEF Init, AdvisedWhileSubscribed, SinkHeldWhileAdvised, EventArgsResolve, Handing
<1>4. Targets /\ Distinct /\ Alive
  BY DEF Init, Targets, Distinct, Alive
<1>5. NotMinted /\ OneEvent /\ Emptied
  BY DEF Init, NotMinted, OneEvent, Emptied, Ids
<1> QED BY <1>1, <1>3, <1>4, <1>5 DEF IInv

-----------------------------------------------------------------------------
(* Steps that only move the thread on. *)

(* Between which phases, so that nothing an invariant says is lost. *)
Onward ==
    \/ phase \in {"attaching", "pumping", "draining", "invoking", "converting"}
       /\ phase' \in {"pumping", "draining", "invoking", "converting", "ending", "tearing"}
    \/ phase = "entering" /\ phase' = "attaching"
    \/ phase = "entering" /\ phase' = "over" /\ ~apartment'
    \/ phase = "leaving" /\ phase' = "over" /\ ~apartment'

LEMMA OnwardStep ==
    ASSUME IInv, Onward, apartment' \in BOOLEAN,
           UNCHANGED <<target, after, participant, tableVars, idVars>>,
           UNCHANGED <<rawVars, sinkVars, clientVars>>
    PROVE  IInv'
<1> USE DEF tableVars, idVars, rawVars, sinkVars, clientVars
<1>0. target = Nothing /\ target' = Nothing
  BY DEF IInv, Onward, Targets
<1>1. Running' => Running
  BY DEF Onward, Running
<1>2. phase' \in Phases /\ (phase' = "over" => ~apartment')
  BY DEF Onward, Phases
<1>3. TypeOK'
  BY <1>2 DEF IInv, TypeOK
<1>4. \A h \in Ids : /\ IsEventArg(h)' <=> IsEventArg(h)
                     /\ Subscribed(h)' <=> Subscribed(h)
  BY DEF IsEventArg, EventArgs, Subscribed
<1>5. AdvisedWhileSubscribed'
  BY <1>1, <1>4 DEF IInv, AdvisedWhileSubscribed
<1>6. SinkHeldWhileAdvised' /\ EventArgsResolve'
  BY <1>0, <1>1 DEF IInv, SinkHeldWhileAdvised, EventArgsResolve, Handing
<1>7. Targets' /\ Distinct' /\ Alive'
  BY <1>0 DEF IInv, Onward, Targets, Distinct, Alive
<1>8. NotMinted' /\ OneEvent'
  BY <1>1 DEF IInv, NotMinted, OneEvent
<1>9. Emptied'
  BY <1>2 DEF IInv, Onward, Emptied
<1> QED BY <1>3, <1>5, <1>6, <1>7, <1>8, <1>9 DEF IInv

-----------------------------------------------------------------------------
(* Steps of a source: references come and go, and the session's own state  *)
(* stays as it is, but for the callbacks queued.                           *)

LEMMA SourceFrame ==
    ASSUME IInv, UNCHANGED <<threadVars, tableVars, idVars, clientVars>>,
           TypeOK', SinkHeldWhileAdvised', Alive', table \subseteq table',
           raw' # raw => InCom /\ rawOpen /\ rawOpen',
           rawOpen' = rawOpen
    PROVE  IInv'
<1> USE DEF threadVars, tableVars, idVars, clientVars
<1>1. \A h \in Ids : /\ IsEventArg(h)' <=> IsEventArg(h)
                     /\ Subscribed(h)' <=> Subscribed(h)
  BY DEF IsEventArg, EventArgs, Subscribed
<1>2. Running' <=> Running
  BY DEF Running
<1>3. AdvisedWhileSubscribed' /\ EventArgsResolve'
  BY <1>1, <1>2 DEF IInv, AdvisedWhileSubscribed, EventArgsResolve
<1>4. Targets'
  <2>1. phase = "advising" => ~IsEventArg(target.handle)'
    BY DEF IInv, Targets, IsEventArg, EventArgs
  <2> QED BY <2>1 DEF IInv, Targets
<1>5. Distinct' /\ NotMinted' /\ OneEvent'
  BY <1>2 DEF IInv, Distinct, NotMinted, OneEvent
<1>6. Emptied'
  BY DEF IInv, Emptied, InCom
<1> QED BY <1>3, <1>4, <1>5, <1>6 DEF IInv

(* What the invariant says of a sink's references, and what it takes for   *)
(* it to be so again, whatever became of the counts. *)
Counted(k) ==
    /\ (\E h \in Ids : advised[h] = k) => k \in table
    /\ k \in table => k \in stuck \/ Handing(k) \/ \E h \in Ids : advised[h] = k
    /\ refs[k] = extra[k] + (IF k \in table THEN 1 ELSE 0)
                 + (IF phase = "advising" /\ Handing(k) THEN 1 ELSE 0)

LEMMA SourceCounts ==
    ASSUME IInv, UNCHANGED <<threadVars, tableVars, idVars, clientVars, raw, rawOpen, stuck>>,
           NEW k \in Sinks, refs[k] >= 1,
           NEW r \in Nat, NEW x \in Nat, NEW T \in SUBSET {k},
           refs' = [refs EXCEPT ![k] = r], extra' = [extra EXCEPT ![k] = x],
           table' = table \cup T,
           T # {} => k \notin table /\ Handing(k),
           r - refs[k] = (x - extra[k]) + (IF T # {} THEN 1 ELSE 0),
           \/ sinkHandle' = sinkHandle /\ r # 0
           \/ sinkHandle' = [sinkHandle EXCEPT ![k] = Nothing] /\ r = 0
    PROVE  IInv'
<1> USE DEF threadVars, tableVars, clientVars, idVars
<1>1. /\ refs \in [Sinks -> Nat] /\ extra \in [Sinks -> Nat] /\ table \subseteq Sinks
      /\ sinkHandle \in [Sinks -> Ids \cup {Nothing}]
  BY DEF IInv, TypeOK
<1>2. /\ refs' \in [Sinks -> Nat] /\ extra' \in [Sinks -> Nat] /\ table' \subseteq Sinks
      /\ sinkHandle' \in [Sinks -> Ids \cup {Nothing}]
  BY ONLY <1>1, r \in Nat, x \in Nat, k \in Sinks, T \in SUBSET {k}, table' = table \cup T,
      refs' = [refs EXCEPT ![k] = r], extra' = [extra EXCEPT ![k] = x],
      sinkHandle' = sinkHandle \/ sinkHandle' = [sinkHandle EXCEPT ![k] = Nothing]
<1>3. TypeOK'
  <2>1. TypeOK
    BY DEF IInv
  <2>2. UNCHANGED <<phase, target, after, apartment, participant, handles, advised, subs,
                    eventHandles, nextId, pendingCleanup, raw, rawOpen, stuck, shown, owed>>
    OBVIOUS
  <2> QED BY ONLY <1>2, <2>1, <2>2 DEF TypeOK
<1>4. SinkHeldWhileAdvised'
  <2>1. \A j \in Sinks : Counted(j) /\ refs[j] \in Nat /\ extra[j] \in Nat
    BY <1>1 DEF IInv, SinkHeldWhileAdvised, Counted
  <2>2. phase' = phase /\ target' = target /\ advised' = advised /\ stuck' = stuck
    OBVIOUS
  <2>3. \A j \in Sinks : Handing(j)' <=> Handing(j)
    BY <2>2 DEF Handing
  <2>4. \A j \in Sinks \ {k} : /\ refs'[j] = refs[j] /\ extra'[j] = extra[j]
                               /\ j \in table' <=> j \in table
    BY <1>1
  <2>5. refs'[k] = r /\ extra'[k] = x
    BY <1>1
  <2>6. k \in table' <=> k \in table \/ T # {}
    <3>1. k \in T <=> T # {}
      BY ONLY T \in SUBSET {k}
    <3> QED BY ONLY <3>1, table' = table \cup T
  <2>7. ASSUME NEW j \in Sinks \ {k}
        PROVE  Counted(j)'
    BY ONLY <2>1, <2>2, <2>3, <2>4, <2>7 DEF Counted
  <2>8. Counted(k)'
    <3>1. refs'[k] = extra'[k] + (IF k \in table' THEN 1 ELSE 0)
                     + (IF phase' = "advising" /\ Handing(k)' THEN 1 ELSE 0)
      <4>1. r = x + (IF k \in table THEN 1 ELSE 0) + (IF T # {} THEN 1 ELSE 0)
                + (IF phase = "advising" /\ Handing(k) THEN 1 ELSE 0)
        <5>1. refs[k] = extra[k] + (IF k \in table THEN 1 ELSE 0)
                         + (IF phase = "advising" /\ Handing(k) THEN 1 ELSE 0)
          BY <2>1 DEF Counted
        <5>2. r - refs[k] = (x - extra[k]) + (IF T # {} THEN 1 ELSE 0)
          OBVIOUS
        <5>3. refs[k] \in Nat /\ extra[k] \in Nat
          BY <2>1
        <5> QED BY ONLY <5>1, <5>2, <5>3, r \in Nat, x \in Nat
      <4>2. (IF k \in table' THEN 1 ELSE 0)
              = (IF k \in table THEN 1 ELSE 0) + (IF T # {} THEN 1 ELSE 0)
        <5>1. T # {} => k \notin table
          OBVIOUS
        <5> QED BY ONLY <2>6, <5>1
      <4>3. phase' = "advising" /\ Handing(k)' <=> phase = "advising" /\ Handing(k)
        BY <2>2, <2>3
      <4> QED BY ONLY <2>5, <4>1, <4>2, <4>3, x \in Nat
    <3>2. /\ (\E h \in Ids : advised[h] = k) => k \in table
          /\ k \in table => k \in stuck \/ Handing(k) \/ \E h \in Ids : advised[h] = k
      BY ONLY <2>1, k \in Sinks DEF Counted
    <3>3. /\ (\E h \in Ids : advised'[h] = k) => k \in table'
          /\ k \in table' => k \in stuck' \/ Handing(k)' \/ \E h \in Ids : advised'[h] = k
      BY <2>2, <2>3, <2>6, <3>2
    <3> QED BY ONLY <3>1, <3>3 DEF Counted
  <2> QED BY <2>7, <2>8 DEF SinkHeldWhileAdvised, Counted
<1>5. Alive'
  <2>1. ASSUME NEW j \in Sinks
        PROVE  sinkHandle'[j] = Nothing <=> refs'[j] = 0
    <3>1. sinkHandle[j] = Nothing <=> refs[j] = 0
      BY DEF IInv, Alive
    <3>2. CASE j # k
      BY <1>1, <3>1, <3>2
    <3>3. CASE j = k
      BY <1>1, <3>1, <3>3
    <3> QED BY <3>2, <3>3
  <2> QED BY <2>1 DEF Alive
<1>6. table \subseteq table'
  OBVIOUS
<1> QED BY <1>3, <1>4, <1>5, <1>6, SourceFrame

LEMMA SourceKeepsStep ==
    ASSUME IInv, NEW k \in Sinks, SourceKeeps(k)
    PROVE  IInv'
<1> USE DEF SourceKeeps, QueryInterface, sinkVars, rawVars, threadVars, tableVars, clientVars
<1>1. TypeOK /\ Handing(k) /\ refs[k] \in Nat /\ refs[k] >= 1
  BY DEF IInv, TypeOK, Targets, Handing, SinkHeldWhileAdvised
<1>2. refs' = [refs EXCEPT ![k] = refs[k] + 1] /\ extra[k] \in Nat
  BY <1>1 DEF TypeOK
<1>3. extra' = [extra EXCEPT ![k] = extra[k]]
  BY <1>1 DEF TypeOK
<1> DEFINE r == refs[k] + 1
           x == extra[k]
           T == {k}
<1>4. r - refs[k] = (x - extra[k]) + (IF T # {} THEN 1 ELSE 0) /\ r \in Nat /\ r # 0
  BY <1>1, <1>2
<1>5. UNCHANGED <<threadVars, tableVars, idVars, clientVars, raw, rawOpen, stuck, sinkHandle>>
  OBVIOUS
<1>6. table' = table \cup T /\ k \notin table /\ Handing(k) /\ T \in SUBSET {k}
  BY <1>1
<1>7. refs' = [refs EXCEPT ![k] = r] /\ extra' = [extra EXCEPT ![k] = x] /\ x \in Nat
  BY <1>2, <1>3
<1> HIDE DEF r, x, T
<1> QED BY <1>1, <1>4, <1>5, <1>6, <1>7, SourceCounts

LEMMA SourceCopiesStep ==
    ASSUME IInv, NEW k \in Sinks, SourceCopies(k)
    PROVE  IInv'
<1> USE DEF SourceCopies, AddRef, sinkVars, rawVars, threadVars, tableVars, clientVars
<1>1. TypeOK /\ refs[k] \in Nat /\ extra[k] \in Nat /\ refs[k] >= 1
  <2>1. TypeOK /\ refs[k] \in Nat /\ extra[k] \in Nat
    BY DEF IInv, TypeOK
  <2>2. phase = "advising" /\ target.sink = k => Handing(k)
    BY DEF IInv, Targets, Handing
  <2> QED BY <2>1, <2>2 DEF IInv, SinkHeldWhileAdvised, InHand
<1> DEFINE r == refs[k] + 1
           x == extra[k] + 1
<1>2. r - refs[k] = (x - extra[k]) + 0 /\ r \in Nat /\ r # 0 /\ x \in Nat
  BY <1>1
<1>3. refs' = [refs EXCEPT ![k] = r] /\ extra' = [extra EXCEPT ![k] = x]
  OBVIOUS
<1>4. UNCHANGED <<threadVars, tableVars, idVars, clientVars, raw, rawOpen, stuck, sinkHandle>>
  OBVIOUS
<1>5. table' = table \cup {}
  OBVIOUS
<1> HIDE DEF r, x
<1> QED BY <1>1, <1>2, <1>3, <1>4, <1>5, SourceCounts

LEMMA SourceLetsStep ==
    ASSUME IInv, NEW k \in Sinks, SourceLets(k)
    PROVE  IInv'
<1> USE DEF SourceLets, ReleaseRef, sinkVars, rawVars, threadVars, tableVars, clientVars
<1>1. TypeOK /\ refs[k] \in Nat /\ extra[k] \in Nat /\ refs[k] >= 1
  <2>1. TypeOK /\ refs[k] \in Nat /\ extra[k] \in Nat /\ extra[k] >= 1
    BY DEF IInv, TypeOK
  <2> QED BY <2>1 DEF IInv, SinkHeldWhileAdvised
<1> DEFINE r == refs[k] - 1
           x == extra[k] - 1
<1>2. r - refs[k] = (x - extra[k]) + 0 /\ r \in Nat /\ x \in Nat
  BY <1>1
<1>3. refs' = [refs EXCEPT ![k] = r] /\ extra' = [extra EXCEPT ![k] = x]
  OBVIOUS
<1>4. UNCHANGED <<threadVars, tableVars, idVars, clientVars, raw, rawOpen, stuck>>
  OBVIOUS
<1>5. table' = table \cup {}
  OBVIOUS
<1>6. \/ sinkHandle' = sinkHandle /\ r # 0
      \/ sinkHandle' = [sinkHandle EXCEPT ![k] = Nothing] /\ r = 0
  BY <1>1
<1> HIDE DEF r, x
<1> QED BY <1>1, <1>2, <1>3, <1>4, <1>5, <1>6, SourceCounts

LEMMA CallStep ==
    ASSUME IInv, NEW k \in Sinks, NEW e \in Events, NEW args \in ArgLists,
           Call(k, e, args)
    PROVE  IInv'
<1> USE DEF Call, sinkVars, threadVars, tableVars, clientVars
<1>1. TypeOK /\ sinkHandle[k] # Nothing
  <2>1. phase = "advising" /\ target.sink = k => Handing(k)
    BY DEF IInv, Targets, Handing
  <2>2. refs[k] # 0
    BY <2>1 DEF IInv, TypeOK, SinkHeldWhileAdvised, InHand
  <2> QED BY <2>2 DEF IInv, Alive
<1>2. raw' \in Seq(Callback)
  <2>1. [handle |-> sinkHandle[k], event |-> e, args |-> args] \in Callback
    BY <1>1 DEF TypeOK, Callback
  <2> QED BY <1>1, <2>1 DEF TypeOK
<1>3. TypeOK'
  BY <1>1, <1>2 DEF TypeOK, idVars
<1>4. SinkHeldWhileAdvised' /\ Alive'
  BY DEF IInv, SinkHeldWhileAdvised, Handing, Alive
<1> QED BY <1>3, <1>4, SourceFrame

-----------------------------------------------------------------------------
(* The session's own commands. *)

LEMMA AttachStep ==
    ASSUME IInv, Attach
    PROVE  IInv'
<1> USE DEF Attach, MayMint, rawVars, sinkVars, clientVars
<1>0. TypeOK /\ target = Nothing /\ Running /\ RootId \in Ids /\ nextId \in Ids
  BY DEF IInv, TypeOK, Targets, Running, Ids, RootId
<1>1. TypeOK'
  <2>1. handles' \in [Ids -> Objects \cup {Nothing}]
    BY <1>0 DEF TypeOK
  <2>2. nextId' \in 0 .. MaxId + 1
    BY <1>0 DEF TypeOK, Ids
  <2> QED BY <1>0, <2>1, <2>2 DEF TypeOK, Phases
<1>2. \A h \in Ids : /\ IsEventArg(h)' <=> IsEventArg(h)
                     /\ Subscribed(h)' <=> Subscribed(h)
                     /\ handles'[h] = IF h = RootId THEN RootObject ELSE handles[h]
  BY <1>0 DEF IsEventArg, EventArgs, Subscribed, TypeOK
<1>3. RootObject # Nothing
  OBVIOUS
<1>4. AdvisedWhileSubscribed'
  BY <1>0, <1>2, <1>3 DEF IInv, AdvisedWhileSubscribed
<1>5. SinkHeldWhileAdvised'
  BY DEF IInv, SinkHeldWhileAdvised, Handing
<1>6. \A s \in Ids : RootId \notin eventHandles[s]
  BY DEF IInv, NotMinted, RootId
<1>7. EventArgsResolve'
  <2>1. \A o \in owed : o[1] \in Ids /\ o[2] \in Ids
    BY <1>0 DEF TypeOK
  <2>2. \A s \in Ids : \A h \in eventHandles[s] : h \in Ids
    BY <1>0 DEF TypeOK
  <2> QED BY <1>0, <1>2, <1>6, <2>1, <2>2 DEF IInv, EventArgsResolve
<1>8. Targets' /\ Distinct' /\ Alive'
  BY <1>0 DEF IInv, Targets, Distinct, Alive
<1>9. NotMinted'
  <2>1. \A h \in Ids : h >= nextId' => h >= nextId /\ h # RootId
    BY <1>0 DEF TypeOK, Ids, RootId
  <2>2. \A s \in Ids : s >= nextId' => eventHandles[s] = {} /\ s \notin shown
    BY <2>1 DEF IInv, NotMinted
  <2>3. \A s \in Ids : \A h \in eventHandles[s] : h \in Ids
    BY <1>0 DEF TypeOK
  <2>4. \A s \in Ids : \A h \in eventHandles[s] : 0 < h /\ h < nextId'
    BY <1>0, <2>3 DEF IInv, NotMinted, TypeOK, Ids
  <2>5. pendingCleanup # Nothing => pendingCleanup < nextId'
    BY <1>0 DEF IInv, NotMinted, TypeOK, Ids
  <2>6. \A h \in Ids : h >= nextId' => handles'[h] = Nothing
    BY <1>0, <1>2, <2>1 DEF IInv, NotMinted
  <2> QED BY <2>2, <2>4, <2>5, <2>6 DEF NotMinted
<1>10. OneEvent' /\ Emptied'
  BY DEF IInv, OneEvent, Emptied
<1> QED BY <1>1, <1>4, <1>5, <1>7, <1>8, <1>9, <1>10 DEF IInv

LEMMA InvokeReturnsStep ==
    ASSUME IInv, InvokeReturns
    PROVE  IInv'
<1> USE DEF InvokeReturns, Moves, MayMint, rawVars, sinkVars, clientVars
<1>0. TypeOK /\ target = Nothing /\ Running
  BY DEF IInv, TypeOK, Targets, Running
<1>1. CASE UNCHANGED <<handles, nextId>>
  BY <1>1, OnwardStep DEF Onward, tableVars, idVars, TypeOK, IInv
<1>2. ASSUME MayMint(1), NEW o \in Objects, nextId' = nextId + 1,
             handles' = [handles EXCEPT ![nextId] = o]
      PROVE  IInv'
  <2> USE <1>2
  <2>0. nextId \in Ids
    BY <1>0 DEF TypeOK, Ids
  <2>1. TypeOK'
    <3>1. handles' \in [Ids -> Objects \cup {Nothing}]
      BY <1>0 DEF TypeOK
    <3>2. nextId' \in 0 .. MaxId + 1
      BY <2>0 DEF TypeOK, Ids
    <3> QED BY <1>0, <3>1, <3>2 DEF TypeOK, Phases
  <2>2. \A h \in Ids : /\ IsEventArg(h)' <=> IsEventArg(h)
                       /\ Subscribed(h)' <=> Subscribed(h)
                       /\ handles'[h] = IF h = nextId THEN o ELSE handles[h]
    BY <1>0 DEF IsEventArg, EventArgs, Subscribed, TypeOK
  <2>3. o # Nothing
    OBVIOUS
  <2>4. AdvisedWhileSubscribed'
    BY <1>0, <2>2, <2>3 DEF IInv, AdvisedWhileSubscribed, Running
  <2>5. SinkHeldWhileAdvised'
    BY DEF IInv, SinkHeldWhileAdvised, Handing
  <2>6. \A s \in Ids : nextId \notin eventHandles[s]
    BY <1>0 DEF IInv, NotMinted, TypeOK, Ids
  <2>7. EventArgsResolve'
    <3>1. \A x \in owed : x[1] \in Ids /\ x[2] \in Ids
      BY <1>0 DEF TypeOK
    <3>2. \A s \in Ids : \A h \in eventHandles[s] : h \in Ids
      BY <1>0 DEF TypeOK
    <3> QED BY <1>0, <2>2, <2>6, <3>1, <3>2 DEF IInv, EventArgsResolve
  <2>8. Targets' /\ Distinct' /\ Alive'
    BY <1>0 DEF IInv, Targets, Distinct, Alive
  <2>9. NotMinted'
    <3>1. \A h \in Ids : h >= nextId' => h >= nextId /\ h # nextId
      BY <1>0 DEF TypeOK, Ids
    <3>2. \A s \in Ids : s >= nextId' => eventHandles[s] = {} /\ s \notin shown
      BY <3>1 DEF IInv, NotMinted
    <3>3. \A s \in Ids : \A h \in eventHandles[s] : h \in Ids
      BY <1>0 DEF TypeOK
    <3>4. \A s \in Ids : \A h \in eventHandles[s] : 0 < h /\ h < nextId'
      BY <1>0, <3>3 DEF IInv, NotMinted, TypeOK, Ids
    <3>5. pendingCleanup # Nothing => pendingCleanup < nextId'
      BY <1>0 DEF IInv, NotMinted, TypeOK, Ids
    <3>6. \A h \in Ids : h >= nextId' => handles'[h] = Nothing
      BY <1>0, <2>2, <3>1 DEF IInv, NotMinted
    <3> QED BY <3>2, <3>4, <3>5, <3>6 DEF NotMinted
  <2>10. OneEvent' /\ Emptied'
    BY DEF IInv, OneEvent, Emptied
  <2> QED BY <2>1, <2>4, <2>5, <2>7, <2>8, <2>9, <2>10 DEF IInv
<1> QED BY <1>1, <1>2

LEMMA SubscribeMoreStep ==
    ASSUME IInv, NEW h \in Ids, NEW e \in Events, NEW want \in {"bare", "args"},
           SubscribeMore(h, e, want)
    PROVE  IInv'
<1> USE DEF SubscribeMore, Takes, threadVars, idVars, rawVars, sinkVars, clientVars
<1>0. TypeOK /\ target = Nothing /\ Running
  BY DEF IInv, TypeOK, Targets, Running
<1>1. TypeOK'
  BY <1>0 DEF TypeOK, Wants
<1>2. \A g \in Ids : /\ IsEventArg(g)' <=> IsEventArg(g)
                     /\ Subscribed(g)' <=> (g = h \/ Subscribed(g))
  BY <1>0 DEF IsEventArg, EventArgs, Subscribed, TypeOK
<1>3. AdvisedWhileSubscribed'
  BY <1>0, <1>2 DEF IInv, AdvisedWhileSubscribed
<1>4. SinkHeldWhileAdvised' /\ EventArgsResolve'
  BY DEF IInv, SinkHeldWhileAdvised, EventArgsResolve, Handing, Running
<1>5. Targets' /\ Distinct' /\ Alive'
  BY <1>0 DEF IInv, Targets, Distinct, Alive
<1>6. NotMinted' /\ OneEvent' /\ Emptied'
  BY DEF IInv, NotMinted, OneEvent, Emptied, Running
<1> QED BY <1>1, <1>3, <1>4, <1>5, <1>6 DEF IInv

LEMMA SubscribeFirstStep ==
    ASSUME IInv, NEW h \in Ids, NEW e \in Events, NEW want \in {"bare", "args"},
           SubscribeFirst(h, e, want)
    PROVE  IInv'
<1> USE DEF SubscribeFirst, NewSink, Takes, tableVars, idVars, rawVars, clientVars
<1>0. TypeOK /\ target = Nothing /\ Running /\ Running'
  BY DEF IInv, TypeOK, Targets, Running
<1>1. PICK k \in Sinks :
        /\ NewSink(k, h)
        /\ target' = [handle |-> h, event |-> e, want |-> want, sink |-> k]
  OBVIOUS
<1>2a. target' \in Target
  BY <1>1 DEF Wants, Target
<1>2. TypeOK'
  <2>2. refs' \in [Sinks -> Nat] /\ sinkHandle' \in [Sinks -> Ids \cup {Nothing}]
    BY <1>0, <1>1 DEF TypeOK
  <2> QED BY <1>0, <1>2a, <2>2 DEF TypeOK, Phases
<1>3. h # Nothing /\ refs[k] = 0 /\ extra[k] = 0 /\ k \notin table
  <2>1. h # Nothing
    BY DEF Ids
  <2>2. refs[k] = 0 /\ extra[k] \in Nat
    BY <1>0, <1>1 DEF IInv, Alive, TypeOK
  <2> QED BY <1>0, <2>1, <2>2 DEF IInv, SinkHeldWhileAdvised
<1>4. \A g \in Ids : advised[g] # k
  BY <1>3 DEF IInv, SinkHeldWhileAdvised
<1>5. \A g \in Ids : /\ IsEventArg(g)' <=> IsEventArg(g)
                     /\ Subscribed(g)' <=> Subscribed(g)
  BY DEF IsEventArg, EventArgs, Subscribed
<1>6. AdvisedWhileSubscribed' /\ EventArgsResolve'
  BY <1>0, <1>5 DEF IInv, AdvisedWhileSubscribed, EventArgsResolve
<1>7. SinkHeldWhileAdvised'
  <2>1. target' # Nothing /\ target'.sink = k
    BY <1>1, <1>2a
  <2>2. SUFFICES ASSUME NEW j \in Sinks
                 PROVE  /\ (\E g \in Ids : advised[g] = j) => j \in table
                        /\ j \in table => j \in stuck \/ \E g \in Ids : advised[g] = j
                        /\ refs'[j] = extra[j] + (IF j \in table THEN 1 ELSE 0)
                                      + (IF j = k THEN 1 ELSE 0)
    BY <2>1 DEF SinkHeldWhileAdvised, Handing
  <2>3. /\ (\E g \in Ids : advised[g] = j) => j \in table
        /\ j \in table => j \in stuck \/ \E g \in Ids : advised[g] = j
        /\ refs[j] = extra[j] + (IF j \in table THEN 1 ELSE 0)
        /\ extra[j] \in Nat
    BY <1>0 DEF IInv, TypeOK, SinkHeldWhileAdvised, Handing
  <2>4. refs'[j] = IF j = k THEN 1 ELSE refs[j]
    BY <1>0, <1>1 DEF TypeOK
  <2> QED BY <1>3, <2>3, <2>4
<1>8. Targets'
  <2>1. /\ target' # Nothing /\ target'.sink = k /\ target'.handle = h
        /\ target'.want # "off"
    BY <1>1, <1>2a
  <2> QED BY <1>0, <1>4, <1>5, <2>1 DEF Targets
<1>9. Distinct' /\ Alive'
  BY <1>0, <1>1, <1>3 DEF IInv, Distinct, Alive, TypeOK
<1>10. NotMinted' /\ OneEvent' /\ Emptied'
  BY <1>0 DEF IInv, NotMinted, OneEvent, Emptied
<1> QED BY <1>2, <1>6, <1>7, <1>8, <1>9, <1>10 DEF IInv

LEMMA AdviseReturnsStep ==
    ASSUME IInv, AdviseReturns
    PROVE  IInv'
<1> DEFINE k == target.sink
           h == target.handle
<1> USE DEF AdviseReturns, Moves, ReleaseRef, idVars, rawVars, clientVars
<1>0. TypeOK /\ target # Nothing /\ Running /\ Running' /\ k \in Sinks /\ h \in Ids
      /\ target.event \in Events /\ target.want \in Wants /\ k # Nothing
  <2>1. TypeOK /\ target # Nothing /\ Running /\ Running'
    BY DEF IInv, Targets, Running
  <2>2. target \in Target
    BY <2>1 DEF TypeOK
  <2> QED BY <2>1, <2>2 DEF Target, Sinks
<1>1. refs[k] \in Nat /\ refs[k] >= 1
  <2>1. refs[k] \in Nat /\ extra[k] \in Nat /\ Handing(k)
    BY <1>0 DEF TypeOK, Handing
  <2> QED BY <1>0, <2>1 DEF IInv, SinkHeldWhileAdvised
<1>2. TypeOK'
  <2>1. refs' \in [Sinks -> Nat] /\ sinkHandle' \in [Sinks -> Ids \cup {Nothing}]
    BY <1>0, <1>1 DEF TypeOK
  <2>2. advised' \in [Ids -> Sinks \cup {Nothing}] /\ subs' \in [Ids -> [Events -> Wants]]
    <3> HIDE DEF k, h
    <3>1. CASE k \in table
      <4>1. /\ advised' = [advised EXCEPT ![h] = k]
            /\ subs' = [subs EXCEPT ![h][target.event] = target.want]
        BY <3>1 DEF k, h
      <4> QED BY <1>0, <4>1 DEF TypeOK
    <3>2. CASE k \notin table
      BY <1>0, <3>2 DEF TypeOK, k
    <3> QED BY <3>1, <3>2
  <2> QED BY <1>0, <2>1, <2>2 DEF TypeOK, Phases
<1>3. \A g \in Ids : /\ IsEventArg(g)' <=> IsEventArg(g)
                     /\ Subscribed(g)' <=> (Subscribed(g) \/ (g = h /\ k \in table))
                     /\ advised'[g] = IF g = h /\ k \in table THEN k ELSE advised[g]
  BY <1>0 DEF IInv, Targets, IsEventArg, EventArgs, Subscribed, TypeOK
<1>4. AdvisedWhileSubscribed'
  BY <1>0, <1>1, <1>3 DEF IInv, AdvisedWhileSubscribed, Targets
<1>5. EventArgsResolve'
  BY <1>0 DEF IInv, EventArgsResolve
<1>6. SinkHeldWhileAdvised'
  <2> HIDE DEF k, h
  <2>1. target' = Nothing /\ Handing(k) /\ phase = "advising" /\ phase' # "advising"
    BY <1>0 DEF Handing, k
  <2>2. \A j \in Sinks : Handing(j) <=> j = k
    BY <1>0 DEF Handing, k
  <2>3. SUFFICES ASSUME NEW j \in Sinks
                 PROVE  /\ (\E g \in Ids : advised'[g] = j) => j \in table
                        /\ j \in table => j \in stuck \/ \E g \in Ids : advised'[g] = j
                        /\ refs'[j] = extra[j] + (IF j \in table THEN 1 ELSE 0)
    <3>1. UNCHANGED <<table, extra, stuck>>
      OBVIOUS
    <3>2. \A i \in Sinks : refs'[i] \in Nat /\ extra[i] \in Nat
      BY <1>0, <1>2 DEF TypeOK
    <3>3. \A i \in Sinks : ~Handing(i)'
      BY <2>1 DEF Handing
    <3> QED BY <2>1, <3>1, <3>2, <3>3 DEF SinkHeldWhileAdvised
  <2>4. /\ (\E g \in Ids : advised[g] = j) => j \in table
        /\ j \in table => j \in stuck \/ j = k \/ \E g \in Ids : advised[g] = j
        /\ refs[j] = extra[j] + (IF j \in table THEN 1 ELSE 0) + (IF j = k THEN 1 ELSE 0)
        /\ extra[j] \in Nat
    BY <1>0, <2>1, <2>2 DEF IInv, TypeOK, SinkHeldWhileAdvised
  <2>5. refs'[j] = IF j = k THEN refs[j] - 1 ELSE refs[j]
    BY <1>0 DEF TypeOK, k
  <2>6. advised[h] = Nothing
    BY <1>0, <2>1 DEF IInv, Targets, h
  <2>7. (\E g \in Ids : advised'[g] = j) <=>
            (j = k /\ k \in table) \/ \E g \in Ids : advised[g] = j
    <3>1. j # Nothing
      BY DEF Sinks
    <3> QED BY <1>0, <1>3, <2>6, <3>1
  <2> QED BY <2>4, <2>5, <2>7
<1>7. Targets' /\ Distinct'
  BY <1>0, <1>3 DEF IInv, Targets, Distinct
<1>8. Alive'
  BY <1>0, <1>1 DEF IInv, Alive, TypeOK
<1>9. NotMinted' /\ OneEvent' /\ Emptied'
  BY <1>0 DEF IInv, NotMinted, OneEvent, Emptied
<1> QED BY <1>2, <1>4, <1>5, <1>6, <1>7, <1>8, <1>9 DEF IInv

-----------------------------------------------------------------------------
(* The Drop of an Advised. *)

LEMMA DropAdvisedEffect ==
    ASSUME IInv, NEW h \in Ids, NEW to \in {"draining", "ending", "tearing"},
           target = Nothing, DropAdvised(h, to), UNCHANGED sinkVars
    PROVE  /\ advised' = [advised EXCEPT ![h] = Nothing]
           /\ advised' \in [Ids -> Sinks \cup {Nothing}]
           /\ target' \in Target \cup {Nothing}
           /\ after' \in {"draining", "ending", "tearing"}
           /\ \/ phase' = to
              \/ phase' = "unadvising" /\ after' = to /\ phase' # to
           /\ SinkHeldWhileAdvised' /\ Targets' /\ Distinct' /\ Alive'
<1> USE DEF DropAdvised, sinkVars
<1>0. TypeOK /\ phase # "advising" /\ phase # "unadvising"
  BY DEF IInv, Targets
<1>1. /\ advised' = [advised EXCEPT ![h] = Nothing]
      /\ advised' \in [Ids -> Sinks \cup {Nothing}]
      /\ \A g \in Ids : advised'[g] = IF g = h THEN Nothing ELSE advised[g]
  BY <1>0 DEF TypeOK
<1>2. Distinct' /\ Alive'
  BY <1>1 DEF IInv, Distinct, Alive
<1>3. CASE advised[h] = Nothing
  <2>1. target' = Nothing /\ after' = after /\ phase' = to
    BY <1>3
  <2>2. SinkHeldWhileAdvised' /\ Targets'
    BY <1>0, <1>1, <1>3, <2>1 DEF IInv, SinkHeldWhileAdvised, Targets, Handing
  <2> QED BY <1>0, <1>1, <1>2, <2>1, <2>2 DEF TypeOK
<1>4. CASE advised[h] # Nothing
  <2> DEFINE k == advised[h]
  <2>1. k \in Sinks /\ k \in table /\ k # Nothing
    BY <1>0, <1>4 DEF IInv, TypeOK, SinkHeldWhileAdvised
  <2>2. target' \in Target /\ target'.sink = k /\ target' # Nothing
    <3>1. (CHOOSE e \in Events : TRUE) \in Events
      OBVIOUS
    <3>2. target' \in Target
      BY <1>4, <2>1, <3>1 DEF Target, Wants
    <3> QED BY <1>4, <3>2
  <2>3. phase' = "unadvising" /\ after' = to
    BY <1>4
  <2>4. \A g \in Ids : advised'[g] # k
    BY <1>1, <1>4, <2>1 DEF IInv, Distinct
  <2>5. Targets'
    BY <2>1, <2>2, <2>3, <2>4 DEF Targets
  <2>6. SinkHeldWhileAdvised'
    <3>1. SUFFICES ASSUME NEW j \in Sinks
                   PROVE  /\ (\E g \in Ids : advised'[g] = j) => j \in table
                          /\ j \in table => \/ j \in stuck \/ j = k
                                            \/ \E g \in Ids : advised'[g] = j
                          /\ refs[j] = extra[j] + (IF j \in table THEN 1 ELSE 0)
      <4>1. \A j \in Sinks : refs[j] \in Nat /\ extra[j] \in Nat
        BY <1>0 DEF TypeOK
      <4>2. \A j \in Sinks : Handing(j)' <=> j = k
        BY <2>2 DEF Handing
      <4>3. phase' # "advising"
        BY <2>3
      <4> QED BY <4>1, <4>2, <4>3 DEF SinkHeldWhileAdvised
    <3>2. /\ (\E g \in Ids : advised[g] = j) => j \in table
          /\ j \in table => j \in stuck \/ \E g \in Ids : advised[g] = j
          /\ refs[j] = extra[j] + (IF j \in table THEN 1 ELSE 0)
      BY <1>0 DEF IInv, TypeOK, SinkHeldWhileAdvised, Handing
    <3>3. \A g \in Ids : advised'[g] = j => advised[g] = j
      <4>1. j # Nothing
        BY DEF Sinks
      <4> QED BY <1>1, <4>1
    <3>4. \A g \in Ids : advised[g] = j => advised'[g] = j \/ j = k
      BY <1>1
    <3> QED BY <3>2, <3>3, <3>4
  <2> QED BY <1>1, <1>2, <2>2, <2>3, <2>5, <2>6
<1> QED BY <1>3, <1>4

LEMMA UnadviseReturnsStep ==
    ASSUME IInv, UnadviseReturns
    PROVE  IInv'
<1> DEFINE k == target.sink
<1> USE DEF UnadviseReturns, ReleaseRef, tableVars, idVars, rawVars, clientVars
<1>0. /\ TypeOK /\ target # Nothing /\ (Running' <=> Running)
      /\ after \in {"draining", "ending", "tearing"} /\ target' = Nothing
      /\ phase' = after
  BY DEF IInv, TypeOK, Targets, Running
<1>1. k \in Sinks /\ k # Nothing /\ k \in table /\ \A g \in Ids : advised[g] # k
  <2>1. target \in Target
    BY <1>0 DEF TypeOK
  <2> QED BY <1>0, <2>1 DEF IInv, Targets, Target, Sinks
<1>2. refs[k] \in Nat /\ extra[k] \in Nat /\ refs[k] = extra[k] + 1
  BY <1>0, <1>1 DEF IInv, TypeOK, SinkHeldWhileAdvised
<1> HIDE DEF k
<1>3. \/ /\ table' = table \ {k} /\ stuck' = stuck
         /\ refs' = [refs EXCEPT ![k] = @ - 1]
         /\ sinkHandle' = IF refs[k] = 1 THEN [sinkHandle EXCEPT ![k] = Nothing]
                          ELSE sinkHandle
      \/ stuck' = stuck \cup {k} /\ UNCHANGED <<table, refs, sinkHandle>>
  BY DEF k
<1>4. TypeOK'
  <2>1. /\ refs' \in [Sinks -> Nat] /\ sinkHandle' \in [Sinks -> Ids \cup {Nothing}]
        /\ table' \subseteq Sinks /\ stuck' \subseteq Sinks
    <3>1. CASE stuck' = stuck \cup {k} /\ UNCHANGED <<table, refs, sinkHandle>>
      BY <1>0, <1>1, <3>1 DEF TypeOK
    <3>2. CASE /\ table' = table \ {k} /\ stuck' = stuck
               /\ refs' = [refs EXCEPT ![k] = @ - 1]
               /\ sinkHandle' = IF refs[k] = 1 THEN [sinkHandle EXCEPT ![k] = Nothing]
                                ELSE sinkHandle
      <4>1. refs[k] - 1 \in Nat
        BY <1>2
      <4>2. refs' \in [Sinks -> Nat] /\ table' \subseteq Sinks /\ stuck' \subseteq Sinks
        BY <1>0, <3>2, <4>1 DEF TypeOK
      <4>3. sinkHandle' \in [Sinks -> Ids \cup {Nothing}]
        BY <1>0, <3>2 DEF TypeOK
      <4> QED BY <4>2, <4>3
    <3> QED BY <1>3, <3>1, <3>2
  <2> QED BY <1>0, <2>1 DEF TypeOK, Phases
<1>5. \A g \in Ids : /\ IsEventArg(g)' <=> IsEventArg(g)
                     /\ Subscribed(g)' <=> Subscribed(g)
  BY DEF IsEventArg, EventArgs, Subscribed
<1>6. AdvisedWhileSubscribed' /\ EventArgsResolve'
  BY <1>0, <1>5 DEF IInv, AdvisedWhileSubscribed, EventArgsResolve
<1>7. SinkHeldWhileAdvised'
  <2>1. SUFFICES ASSUME NEW j \in Sinks
                 PROVE  /\ (\E g \in Ids : advised[g] = j) => j \in table'
                        /\ j \in table' => j \in stuck' \/ \E g \in Ids : advised[g] = j
                        /\ refs'[j] = extra[j] + (IF j \in table' THEN 1 ELSE 0)
    <3>1. \A i \in Sinks : refs'[i] \in Nat /\ extra'[i] \in Nat /\ extra' = extra
      BY <1>4 DEF TypeOK
    <3>2. \A i \in Sinks : ~Handing(i)'
      BY <1>0 DEF Handing
    <3> QED BY <3>1, <3>2 DEF SinkHeldWhileAdvised
  <2>2. /\ (\E g \in Ids : advised[g] = j) => j \in table
        /\ j \in table => j \in stuck \/ j = k \/ \E g \in Ids : advised[g] = j
        /\ refs[j] = extra[j] + (IF j \in table THEN 1 ELSE 0)
        /\ extra[j] \in Nat
    <3>1. Handing(j) => j = k
      BY DEF Handing, k
    <3>2. phase # "advising" /\ SinkHeldWhileAdvised /\ extra[j] \in Nat
      BY <1>0 DEF IInv, TypeOK
    <3> QED BY ONLY <3>1, <3>2, j \in Sinks DEF SinkHeldWhileAdvised
  <2> QED BY <1>0, <1>1, <1>2, <1>3, <2>2 DEF TypeOK
<1>8. Targets' /\ Distinct'
  BY <1>0 DEF IInv, Targets, Distinct
<1>9. Alive'
  BY <1>0, <1>1, <1>2, <1>3 DEF IInv, Alive, TypeOK
<1>10. NotMinted' /\ OneEvent' /\ Emptied'
  BY <1>0 DEF IInv, NotMinted, OneEvent, Emptied
<1> QED BY <1>4, <1>6, <1>7, <1>8, <1>9, <1>10 DEF IInv

LEMMA UnsubscribeStep ==
    ASSUME IInv, NEW h \in Ids, NEW e \in Events, Unsubscribe(h, e)
    PROVE  IInv'
<1> USE DEF Unsubscribe, Takes, idVars, rawVars, clientVars
<1>0. TypeOK /\ target = Nothing /\ Running
  BY DEF IInv, TypeOK, Targets, Running
<1>1. subs' \in [Ids -> [Events -> Wants]]
  BY <1>0 DEF TypeOK, Wants
<1>2. \A g \in Ids : /\ IsEventArg(g)' <=> IsEventArg(g)
                     /\ g # h => (Subscribed(g)' <=> Subscribed(g))
                     /\ Subscribed(h)' <=> \E f \in Events \ {e} : subs[h][f] # "off"
  BY <1>0 DEF IsEventArg, EventArgs, Subscribed, TypeOK
<1>3. CASE Subscribed(h) /\ \A f \in Events \ {e} : subs[h][f] = "off"
  <2>1. DropAdvised(h, "draining") /\ UNCHANGED sinkVars
    BY <1>3
  <2>2. /\ advised' = [advised EXCEPT ![h] = Nothing]
        /\ advised' \in [Ids -> Sinks \cup {Nothing}]
        /\ target' \in Target \cup {Nothing}
        /\ after' \in {"draining", "ending", "tearing"}
        /\ \/ phase' = "draining"
           \/ phase' = "unadvising" /\ after' = "draining"
        /\ SinkHeldWhileAdvised' /\ Targets' /\ Distinct' /\ Alive'
    BY <1>0, <2>1, DropAdvisedEffect
  <2>3. Running'
    BY <2>2 DEF Running
  <2>4. TypeOK'
    BY <1>0, <1>1, <2>2 DEF TypeOK, Phases, sinkVars
  <2>5. \A g \in Ids : advised'[g] = IF g = h THEN Nothing ELSE advised[g]
    BY <1>0, <2>2 DEF TypeOK
  <2>6. AdvisedWhileSubscribed' /\ EventArgsResolve'
    BY <1>0, <1>2, <1>3, <2>3, <2>5 DEF IInv, AdvisedWhileSubscribed, EventArgsResolve
  <2>7. NotMinted' /\ OneEvent' /\ Emptied'
    BY <1>0, <2>2, <2>3 DEF IInv, NotMinted, OneEvent, Emptied
  <2> QED BY <2>2, <2>4, <2>6, <2>7 DEF IInv
<1>4. CASE ~(Subscribed(h) /\ \A f \in Events \ {e} : subs[h][f] = "off")
  <2>1. UNCHANGED <<advised, phase, target, after, sinkVars>> /\ Running'
    BY <1>0, <1>4 DEF Running
  <2>2. TypeOK'
    BY <1>0, <1>1, <2>1 DEF TypeOK, sinkVars
  <2>3. Subscribed(h)' <=> Subscribed(h)
    BY <1>2, <1>4 DEF Subscribed
  <2>4. AdvisedWhileSubscribed' /\ EventArgsResolve'
    BY <1>0, <1>2, <2>1, <2>3 DEF IInv, AdvisedWhileSubscribed, EventArgsResolve
  <2>5. SinkHeldWhileAdvised' /\ Targets' /\ Distinct' /\ Alive'
    BY <1>0, <2>1 DEF IInv, SinkHeldWhileAdvised, Handing, Targets, Distinct, Alive, sinkVars
  <2>6. NotMinted' /\ OneEvent' /\ Emptied'
    BY <1>0, <2>1 DEF IInv, NotMinted, OneEvent, Emptied
  <2> QED BY <2>2, <2>4, <2>5, <2>6 DEF IInv
<1> QED BY <1>3, <1>4

(* Forget, by a Release or by the closure's answer: what the client holds  *)
(* of the object's id may go with it, and the root is nobody's argument.   *)
LEMMA ForgetStep ==
    ASSUME IInv, NEW h \in Ids, NEW to \in {"draining", "ending"},
           Takes, Forget(h, to),
           UNCHANGED <<apartment, participant, idVars, rawVars, sinkVars, shown>>,
           \/ owed' = {o \in owed : o[2] # h}
           \/ owed' = owed /\ h = RootId
    PROVE  IInv'
<1> USE DEF Takes, Forget, idVars, rawVars
<1>0. TypeOK /\ target = Nothing /\ Running
  BY DEF IInv, TypeOK, Targets, Running
<1>1. /\ advised' = [advised EXCEPT ![h] = Nothing]
      /\ advised' \in [Ids -> Sinks \cup {Nothing}]
      /\ target' \in Target \cup {Nothing}
      /\ after' \in {"draining", "ending", "tearing"}
      /\ \/ phase' = to
         \/ phase' = "unadvising" /\ after' = to
      /\ SinkHeldWhileAdvised' /\ Targets' /\ Distinct' /\ Alive'
  BY <1>0, DropAdvisedEffect
<1>2. Running'
  BY <1>1 DEF Running
<1>3. /\ handles' \in [Ids -> Objects \cup {Nothing}]
      /\ \A g \in Ids : handles'[g] = IF g = h THEN Nothing ELSE handles[g]
  BY <1>0 DEF TypeOK
<1>4. /\ subs' \in [Ids -> [Events -> Wants]]
      /\ \A g \in Ids : subs'[g] = IF g = h THEN Off ELSE subs[g]
  BY <1>0 DEF TypeOK, Off, Wants
<1>5. owed' \subseteq owed /\ \A o \in owed : o \in owed' \/ o[2] = h
  OBVIOUS
<1>6. TypeOK'
  BY <1>0, <1>1, <1>2, <1>3, <1>4, <1>5 DEF TypeOK, Phases, sinkVars
<1>7. \A g \in Ids : /\ IsEventArg(g)' <=> IsEventArg(g)
                     /\ Subscribed(g)' <=> (g # h /\ Subscribed(g))
                     /\ advised'[g] = IF g = h THEN Nothing ELSE advised[g]
  BY <1>0, <1>1, <1>4 DEF IsEventArg, EventArgs, Subscribed, Off, TypeOK
<1>8. AdvisedWhileSubscribed'
  BY <1>0, <1>2, <1>3, <1>7 DEF IInv, AdvisedWhileSubscribed
<1>9. EventArgsResolve'
  <2>1. \A o \in owed : o[1] \in Ids /\ o[2] \in Ids
    BY <1>0 DEF TypeOK
  <2>2. \A s \in Ids : \A g \in eventHandles[s] : g \in Ids /\ g # RootId
    BY <1>0 DEF IInv, TypeOK, NotMinted, RootId
  <2>3. \A o \in owed' : o[2] # h
    BY <1>0, <2>1, <2>2 DEF IInv, EventArgsResolve
  <2>4. \A o \in owed' : handles'[o[2]] = o[3] /\ o[2] \in eventHandles[o[1]]
    BY <1>0, <1>3, <1>5, <2>1, <2>3 DEF IInv, EventArgsResolve
  <2>5. ASSUME NEW s \in Ids, NEW g \in eventHandles[s], handles'[g] # Nothing
        PROVE  <<s, g, handles'[g]>> \in owed'
    <3>1. g # h /\ handles'[g] = handles[g]
      BY <1>3, <2>2, <2>5
    <3>2. <<s, g, handles[g]>> \in owed
      BY <1>0, <2>5, <3>1 DEF IInv, EventArgsResolve
    <3> QED BY <1>5, <3>1, <3>2
  <2> QED BY <1>0, <2>4, <2>5 DEF IInv, EventArgsResolve
<1>10. NotMinted'
  BY <1>0, <1>3 DEF IInv, NotMinted
<1>11. OneEvent' /\ Emptied'
  BY <1>1 DEF IInv, OneEvent, Emptied
<1> QED BY <1>1, <1>6, <1>8, <1>9, <1>10, <1>11 DEF IInv

LEMMA ReleaseStep ==
    ASSUME IInv, NEW h \in Ids, Release(h)
    PROVE  IInv'
<1>1. PICK to \in {"draining", "ending"} : Forget(h, to)
  BY DEF Release
<1> QED BY <1>1, ForgetStep DEF Release

LEMMA ClosureAnsweredStep ==
    ASSUME IInv, ClosureAnswered
    PROVE  IInv'
<1>1. RootId \in Ids
  BY DEF RootId, Ids
<1> QED BY <1>1, ForgetStep DEF ClosureAnswered, clientVars

LEMMA AskClosureStep ==
    ASSUME IInv, AskClosure
    PROVE  IInv'
<1> USE DEF AskClosure, Takes, MayMint, threadVars, tableVars, rawVars, sinkVars, clientVars
<1>0. TypeOK /\ target = Nothing /\ Running /\ Running' /\ nextId \in Ids
  <2>1. TypeOK /\ target = Nothing /\ Running /\ Running'
    BY DEF IInv, Targets, Running
  <2>2. nextId \in 0 .. MaxId
    BY <2>1 DEF TypeOK
  <2> QED BY <2>1, <2>2 DEF Ids
<1>1. TypeOK'
  <2>1. /\ phase' \in Phases /\ nextId' \in 0 .. MaxId + 1
        /\ pendingCleanup' \in Ids \cup {Nothing}
    BY ONLY <1>0, AskClosure, BoundAssumption DEF AskClosure, Takes, MayMint, TypeOK, Phases, Ids
  <2>2. UNCHANGED <<target, after, apartment, participant, handles, advised, subs, eventHandles,
                    raw, rawOpen, refs, sinkHandle, table, stuck, extra, shown, owed>>
    OBVIOUS
  <2> QED BY ONLY <1>0, <2>1, <2>2 DEF TypeOK
<1>2. \A h \in Ids : /\ IsEventArg(h)' <=> IsEventArg(h)
                     /\ Subscribed(h)' <=> Subscribed(h)
  BY DEF IsEventArg, EventArgs, Subscribed
<1>3. AdvisedWhileSubscribed'
  BY <1>0, <1>2 DEF IInv, AdvisedWhileSubscribed
<1>4. EventArgsResolve'
  <2>1. nextId \notin shown
    BY <1>0 DEF IInv, NotMinted, TypeOK, Ids
  <2> QED BY <1>0, <2>1 DEF IInv, EventArgsResolve
<1>5. SinkHeldWhileAdvised' /\ Targets' /\ Distinct' /\ Alive'
  BY <1>0 DEF IInv, SinkHeldWhileAdvised, Handing, Targets, Distinct, Alive
<1>6. NotMinted'
  <2>1. \A h \in Ids : h >= nextId' => h >= nextId
    BY <1>0 DEF Ids
  <2>2. \A s \in Ids : \A h \in eventHandles[s] : h \in Ids /\ 0 < h /\ h < nextId
    BY <1>0 DEF IInv, NotMinted, TypeOK
  <2>3. \A s \in Ids : \A h \in eventHandles[s] : 0 < h /\ h < nextId'
    BY <1>0, <2>2 DEF Ids
  <2>4. pendingCleanup' < nextId'
    BY <1>0 DEF Ids
  <2> QED BY <1>0, <2>1, <2>3, <2>4 DEF IInv, NotMinted
<1>7. OneEvent' /\ Emptied'
  BY <1>0 DEF IInv, OneEvent, Emptied
<1> QED BY <1>1, <1>3, <1>4, <1>5, <1>6, <1>7 DEF IInv

LEMMA ReleaseEventStep ==
    ASSUME IInv, NEW s \in Ids, ReleaseEvent(s)
    PROVE  IInv'
<1> USE DEF ReleaseEvent, Takes, threadVars, rawVars, sinkVars
<1>0. TypeOK /\ target = Nothing /\ Running /\ Running'
  BY DEF IInv, TypeOK, Targets, Running
<1>1. /\ handles' \in [Ids -> Objects \cup {Nothing}]
      /\ \A h \in Ids : handles'[h] = IF h \in eventHandles[s] THEN Nothing ELSE handles[h]
  BY <1>0 DEF TypeOK
<1>2. /\ eventHandles' \in [Ids -> SUBSET Ids]
      /\ \A r \in Ids : eventHandles'[r] = IF r = s THEN {} ELSE eventHandles[r]
  BY <1>0 DEF TypeOK
<1>3. TypeOK'
  BY <1>0, <1>1, <1>2 DEF TypeOK
<1>4. \A h \in Ids : IsEventArg(h)' => IsEventArg(h)
  BY <1>2, EventArgIsListed DEF IsEventArg, EventArgs
<1>5. \A h \in Ids : advised[h] # Nothing => h \notin eventHandles[s]
  BY EventArgIsListed DEF IInv, AdvisedWhileSubscribed
<1>6. AdvisedWhileSubscribed'
  <2>1. \A h \in Ids : Subscribed(h)' <=> Subscribed(h)
    BY DEF Subscribed
  <2> QED BY <1>0, <1>1, <1>4, <1>5, <2>1 DEF IInv, AdvisedWhileSubscribed
<1>7. EventArgsResolve'
  <2>1. \A o \in owed : o[1] \in Ids /\ o[2] \in Ids
    BY <1>0 DEF TypeOK
  <2>2. ASSUME NEW o \in owed'
        PROVE  handles'[o[2]] = o[3] /\ o[2] \in eventHandles'[o[1]]
    <3>1. o \in owed /\ o[1] # s /\ o[2] \in eventHandles[o[1]] /\ handles[o[2]] = o[3]
      BY <1>0, <2>2 DEF IInv, EventArgsResolve
    <3>2. o[2] \notin eventHandles[s]
      BY <2>1, <3>1 DEF IInv, OneEvent
    <3> QED BY <1>1, <1>2, <2>1, <3>1, <3>2
  <2>3. ASSUME NEW r \in Ids, NEW h \in eventHandles'[r], handles'[h] # Nothing
        PROVE  <<r, h, handles'[h]>> \in owed'
    <3>1. r # s /\ h \in eventHandles[r] /\ h \in Ids
      BY <1>0, <1>2, <2>3 DEF TypeOK
    <3>2. handles'[h] = handles[h]
      BY <1>1, <2>3, <3>1
    <3>3. <<r, h, handles[h]>> \in owed
      BY <1>0, <2>3, <3>1, <3>2 DEF IInv, EventArgsResolve
    <3> QED BY <3>1, <3>2, <3>3
  <2> QED BY <1>0, <2>2, <2>3 DEF IInv, EventArgsResolve
<1>8. SinkHeldWhileAdvised' /\ Targets' /\ Distinct' /\ Alive'
  BY <1>0 DEF IInv, SinkHeldWhileAdvised, Handing, Targets, Distinct, Alive
<1>9. NotMinted' /\ OneEvent' /\ Emptied'
  BY <1>0, <1>1, <1>2 DEF IInv, NotMinted, OneEvent, Emptied
<1> QED BY <1>3, <1>6, <1>7, <1>8, <1>9 DEF IInv

(* A callback nobody wants any more. *)
LEMMA PassedOverStep ==
    ASSUME IInv, phase = "converting", raw # <<>>, raw' = Tail(raw), rawOpen' = rawOpen,
           UNCHANGED <<threadVars, tableVars, idVars, sinkVars, clientVars>>
    PROVE  IInv'
<1> USE DEF threadVars, tableVars, idVars, sinkVars, clientVars
<1>0. TypeOK /\ target = Nothing /\ (Running' <=> Running)
  BY DEF IInv, TypeOK, Targets, Running
<1>1. raw' \in Seq(Callback)
  BY <1>0 DEF TypeOK
<1>2. TypeOK'
  BY <1>0, <1>1 DEF TypeOK
<1>3. \A h \in Ids : /\ IsEventArg(h)' <=> IsEventArg(h)
                     /\ Subscribed(h)' <=> Subscribed(h)
  BY DEF IsEventArg, EventArgs, Subscribed
<1>4. AdvisedWhileSubscribed' /\ EventArgsResolve'
  BY <1>0, <1>3 DEF IInv, AdvisedWhileSubscribed, EventArgsResolve
<1>5. SinkHeldWhileAdvised' /\ Targets' /\ Distinct' /\ Alive'
  BY <1>0 DEF IInv, SinkHeldWhileAdvised, Handing, Targets, Distinct, Alive
<1>6. NotMinted' /\ OneEvent' /\ Emptied'
  BY <1>0 DEF IInv, NotMinted, OneEvent, Emptied
<1> QED BY <1>2, <1>4, <1>5, <1>6 DEF IInv

LEMMA ConvertStep ==
    ASSUME IInv, Convert
    PROVE  IInv'
<1> DEFINE c == Head(raw)
           want == Wanted(c)
           args == IF want = "args" THEN c.args ELSE <<>>
           ids == nextId + 1 .. nextId + Len(args)
<1>0. TypeOK /\ target = Nothing /\ Running /\ phase = "converting" /\ raw # <<>>
  BY DEF IInv, TypeOK, Targets, Running, Convert
<1>1. CASE want = "off"
  BY <1>0, <1>1, PassedOverStep
     DEF Convert, threadVars, tableVars, idVars, sinkVars, clientVars
<1>2. CASE want # "off"
  <2>1. args \in Seq(Objects)
    <3>1. c \in Callback
      BY <1>0 DEF TypeOK
    <3>2. c.args \in Seq(Objects)
      BY <3>1 DEF Callback
    <3> HIDE DEF c
    <3> QED BY <3>2
  <2>2. /\ nextId' = nextId + 1 + Len(args) /\ MayMint(1 + Len(args))
        /\ handles' = [h \in Ids |-> IF h \in ids THEN args[h - nextId] ELSE handles[h]]
        /\ eventHandles' = [eventHandles EXCEPT ![nextId] = ids]
        /\ shown' = shown \cup {nextId}
        /\ owed' = owed \cup {<<nextId, h, args[h - nextId]>> : h \in ids}
        /\ raw' = Tail(raw)
        /\ UNCHANGED <<threadVars, advised, subs, pendingCleanup, rawOpen, sinkVars>>
    BY <1>2 DEF Convert
  <2> DEFINE n == Len(args)
  <2>3. n \in Nat
    BY <2>1
  <2> HIDE DEF c, want, args
  <2>4. /\ nextId \in Nat /\ nextId + n <= MaxId /\ nextId \in Ids /\ ids \subseteq Ids
        /\ \A h \in ids : h \in Nat /\ h > nextId /\ h < nextId' /\ h - nextId \in 1 .. n
        /\ nextId' \in 0 .. MaxId + 1
    <3>1. nextId \in 0 .. MaxId + 1 /\ MaxId \in Nat
      BY <1>0 DEF TypeOK
    <3>2. nextId + n <= MaxId /\ nextId' = nextId + 1 + n
      BY <2>2, <2>3, <3>1 DEF MayMint
    <3>3. ids = nextId + 1 .. nextId + n
      BY <2>2
    <3> QED BY ONLY <2>3, <3>1, <3>2, <3>3 DEF Ids
  <2>5. \A h \in ids : args[h - nextId] \in Objects /\ args[h - nextId] # Nothing
    BY <2>1, <2>4
  <2>6. /\ handles' \in [Ids -> Objects \cup {Nothing}]
        /\ \A h \in Ids : handles'[h] = IF h \in ids THEN args[h - nextId] ELSE handles[h]
    BY <1>0, <2>2, <2>5 DEF TypeOK
  <2>7. /\ eventHandles' \in [Ids -> SUBSET Ids]
        /\ \A s \in Ids : eventHandles'[s] = IF s = nextId THEN ids ELSE eventHandles[s]
    BY <1>0, <2>2, <2>4 DEF TypeOK
  <2>8. raw' \in Seq(Callback)
    BY <1>0, <2>2 DEF TypeOK
  <2>9. owed' \subseteq Ids \X Ids \X Objects
    <3> HIDE DEF ids
    <3>1. ASSUME NEW h \in ids
          PROVE  <<nextId, h, args[h - nextId]>> \in Ids \X Ids \X Objects
      BY <2>4, <2>5
    <3>2. owed \subseteq Ids \X Ids \X Objects
      BY <1>0 DEF TypeOK
    <3> QED BY <2>2, <3>1, <3>2
  <2>10. TypeOK'
    BY <1>0, <2>2, <2>4, <2>6, <2>7, <2>8, <2>9 DEF TypeOK, threadVars, sinkVars
  <2> HIDE DEF ids
  <2>11. Running' /\ phase' = phase /\ target' = Nothing
    BY <1>0, <2>2 DEF Running, threadVars
  <2>12. \A h \in Ids : Subscribed(h)' <=> Subscribed(h)
    BY <2>2 DEF Subscribed
  <2>13. \A h \in ids : h \in Ids /\ h >= nextId /\ handles[h] = Nothing /\ advised[h] = Nothing
    BY <1>0, <2>4 DEF IInv, NotMinted, AdvisedWhileSubscribed
  <2>14. \A h \in Ids : IsEventArg(h)' => IsEventArg(h) \/ h \in ids
    BY <2>7, EventArgIsListed DEF IsEventArg, EventArgs
  <2>15. AdvisedWhileSubscribed'
    BY <1>0, <2>2, <2>6, <2>11, <2>12, <2>13, <2>14 DEF IInv, AdvisedWhileSubscribed
  <2>16. eventHandles[nextId] = {} /\ nextId \notin shown
    BY <2>4 DEF IInv, NotMinted
  <2>17. \A s \in Ids : \A h \in eventHandles[s] : h \in Ids /\ h < nextId /\ h \notin ids
    BY <1>0, <2>4 DEF IInv, NotMinted, TypeOK, Ids
  <2> QED
    <3>1. EventArgsResolve'
      <4>1. ASSUME NEW o \in owed'
            PROVE  handles'[o[2]] = o[3] /\ o[2] \in eventHandles'[o[1]]
        <5>1. CASE o \in owed
          <6>1. o[1] \in Ids /\ o[2] \in eventHandles[o[1]] /\ handles[o[2]] = o[3]
            BY <1>0, <5>1 DEF IInv, EventArgsResolve, TypeOK
          <6>2. o[1] # nextId
            BY <2>16, <6>1
          <6> QED BY <2>6, <2>7, <2>17, <6>1, <6>2
        <5>2. CASE o \notin owed
          <6>1. PICK h \in ids : o = <<nextId, h, args[h - nextId]>>
            BY <2>2, <4>1, <5>2
          <6>2. handles'[h] = args[h - nextId] /\ h \in eventHandles'[nextId]
            BY <2>4, <2>6, <2>7
          <6> QED BY <6>1, <6>2
        <5> QED BY <5>1, <5>2
      <4>2. ASSUME NEW s \in Ids, NEW h \in eventHandles'[s], handles'[h] # Nothing
            PROVE  <<s, h, handles'[h]>> \in owed'
        <5>0. h \in eventHandles'[s] /\ handles'[h] # Nothing
          BY <4>2
        <5>1. CASE s = nextId
          <6>1. h \in ids
            BY ONLY <2>7, s \in Ids, <5>0, <5>1
          <6>2. handles'[h] = args[h - nextId]
            BY <2>4, <2>6, <6>1
          <6>3. owed' = owed \cup {<<nextId, i, args[i - nextId]>> : i \in ids}
            BY <2>2
          <6> QED BY ONLY <5>1, <6>1, <6>2, <6>3
        <5>2. CASE s # nextId
          <6>1. h \in eventHandles[s] /\ h \in Ids /\ h \notin ids
            BY ONLY <2>7, <2>17, s \in Ids, <5>0, <5>2
          <6>2. handles'[h] = handles[h]
            BY <2>6, <6>1
          <6>3. <<s, h, handles[h]>> \in owed
            <7>1. Running /\ EventArgsResolve
              BY <1>0 DEF IInv
            <7> QED BY ONLY <5>0, <6>1, <6>2, <7>1, s \in Ids DEF EventArgsResolve
          <6>4. owed \subseteq owed'
            BY <2>2
          <6> QED BY ONLY <6>2, <6>3, <6>4
        <5> QED BY <5>1, <5>2
      <4>3. pendingCleanup' \notin shown'
        <5>1. pendingCleanup # nextId
          BY <2>4 DEF IInv, NotMinted
        <5> QED BY <1>0, <2>2, <5>1 DEF IInv, EventArgsResolve
      <4> QED BY <4>1, <4>2, <4>3 DEF EventArgsResolve
    <3>2. SinkHeldWhileAdvised' /\ Targets' /\ Distinct' /\ Alive'
      BY <1>0, <2>2, <2>11 DEF IInv, SinkHeldWhileAdvised, Handing, Targets, Distinct, Alive,
                              threadVars, sinkVars
    <3>3. NotMinted'
      <4>1. \A h \in Ids : h >= nextId' => h >= nextId /\ h # nextId /\ h \notin ids
        BY <2>2, <2>3, <2>4 DEF Ids
      <4>2. \A h \in Ids : h >= nextId' => handles'[h] = Nothing
        BY <1>0, <2>6, <4>1 DEF IInv, NotMinted
      <4>3. \A s \in Ids : s >= nextId' => eventHandles'[s] = {} /\ s \notin shown'
        BY <2>2, <2>7, <4>1 DEF IInv, NotMinted
      <4>4. \A s \in Ids : \A h \in eventHandles'[s] : 0 < h /\ h < nextId'
        <5>1. ASSUME NEW s \in Ids, NEW h \in eventHandles[s]
              PROVE  0 < h /\ h < nextId'
          <6>1. h \in Nat /\ 0 < h /\ h < nextId
            BY <2>17 DEF IInv, NotMinted, Ids
          <6>2. nextId \in Nat /\ nextId' = nextId + 1 + n
            BY <2>2, <2>4
          <6> QED BY ONLY <2>3, <6>1, <6>2
        <5>2. ASSUME NEW h \in ids
              PROVE  0 < h /\ h < nextId'
          BY <2>4
        <5> QED BY <2>7, <5>1, <5>2
      <4>5. pendingCleanup' # Nothing => pendingCleanup' < nextId'
        <5>1. pendingCleanup # Nothing => pendingCleanup \in Nat /\ pendingCleanup < nextId
          BY <1>0 DEF IInv, NotMinted, TypeOK, Ids
        <5> QED BY <2>2, <2>3, <2>4, <5>1
      <4> QED BY <4>2, <4>3, <4>4, <4>5 DEF NotMinted
    <3>4. OneEvent'
      BY <2>7, <2>17 DEF IInv, OneEvent
    <3>5. Emptied'
      BY <1>0, <2>11 DEF Emptied
    <3> QED BY <2>10, <2>15, <3>1, <3>2, <3>3, <3>4, <3>5 DEF IInv
<1> QED BY <1>1, <1>2

-----------------------------------------------------------------------------
(* The teardown. *)

LEMMA EndLoopStep ==
    ASSUME IInv, EndLoop
    PROVE  IInv'
<1> USE DEF EndLoop, Moves, rawVars, sinkVars
<1>0. TypeOK /\ target = Nothing /\ ~Running'
  BY DEF IInv, TypeOK, Targets, Running
<1>1. subs' \in [Ids -> [Events -> Wants]] /\ eventHandles' \in [Ids -> SUBSET Ids]
  BY DEF Off, Wants
<1>2. nextId' \in 0 .. MaxId + 1
  OBVIOUS
<1>3. TypeOK'
  BY <1>0, <1>1, <1>2 DEF TypeOK, Phases
<1>4. \A h \in Ids : ~IsEventArg(h)'
  BY DEF IsEventArg, EventArgs
<1>5. AdvisedWhileSubscribed' /\ EventArgsResolve'
  BY <1>0, <1>4 DEF IInv, AdvisedWhileSubscribed, EventArgsResolve
<1>6. SinkHeldWhileAdvised' /\ Targets' /\ Distinct' /\ Alive'
  BY <1>0 DEF IInv, SinkHeldWhileAdvised, Handing, Targets, Distinct, Alive
<1>7. NotMinted' /\ OneEvent' /\ Emptied'
  BY <1>0 DEF IInv, NotMinted, OneEvent, Emptied
<1> QED BY <1>3, <1>5, <1>6, <1>7 DEF IInv

LEMMA ClearAdvisedStep ==
    ASSUME IInv, ClearAdvised
    PROVE  IInv'
<1> USE DEF ClearAdvised, idVars, rawVars, clientVars
<1>0. TypeOK /\ target = Nothing /\ phase = "tearing"
  BY DEF IInv, TypeOK, Targets
<1>1. \A h \in Ids : IsEventArg(h)' <=> IsEventArg(h)
  BY DEF IsEventArg, EventArgs
<1>2. CASE \E h \in Ids : advised[h] # Nothing
  <2>1. PICK h \in Ids : advised[h] # Nothing /\ DropAdvised(h, "tearing")
    BY <1>2
  <2>2. /\ advised' = [advised EXCEPT ![h] = Nothing]
        /\ advised' \in [Ids -> Sinks \cup {Nothing}]
        /\ target' \in Target \cup {Nothing}
        /\ after' \in {"draining", "ending", "tearing"}
        /\ \/ phase' = "tearing"
           \/ phase' = "unadvising" /\ after' = "tearing"
        /\ SinkHeldWhileAdvised' /\ Targets' /\ Distinct' /\ Alive'
    BY <1>0, <2>1, DropAdvisedEffect
  <2>3. ~Running' /\ phase' \in Phases
    BY <2>2 DEF Running, Phases
  <2>4. TypeOK'
    BY <1>0, <2>2, <2>3 DEF TypeOK, sinkVars
  <2>5. \A g \in Ids : advised'[g] = IF g = h THEN Nothing ELSE advised[g]
    BY <1>0, <2>2 DEF TypeOK
  <2>6. AdvisedWhileSubscribed' /\ EventArgsResolve'
    BY <1>0, <1>1, <2>3, <2>5 DEF IInv, AdvisedWhileSubscribed, EventArgsResolve
  <2>7. NotMinted' /\ OneEvent' /\ Emptied'
    BY <1>0, <2>2, <2>3 DEF IInv, NotMinted, OneEvent, Emptied
  <2> QED BY <2>2, <2>4, <2>6, <2>7 DEF IInv
<1>3. CASE ~\E h \in Ids : advised[h] # Nothing
  <2>1. phase' = "dropping" /\ UNCHANGED <<advised, target, after, sinkVars>>
    BY <1>3
  <2>2. ~Running' /\ phase' \in Phases
    BY <2>1 DEF Running, Phases
  <2>3. TypeOK'
    BY <1>0, <2>1, <2>2 DEF TypeOK, sinkVars
  <2>4. AdvisedWhileSubscribed' /\ EventArgsResolve'
    BY <1>0, <1>1, <2>1, <2>2 DEF IInv, AdvisedWhileSubscribed, EventArgsResolve
  <2>5. SinkHeldWhileAdvised' /\ Targets' /\ Distinct' /\ Alive'
    BY <1>0, <2>1 DEF IInv, SinkHeldWhileAdvised, Handing, Targets, Distinct, Alive, sinkVars
  <2>6. NotMinted' /\ OneEvent' /\ Emptied'
    BY <1>3, <2>1, <2>2 DEF IInv, NotMinted, OneEvent, Emptied
  <2> QED BY <2>3, <2>4, <2>5, <2>6 DEF IInv
<1> QED BY <1>2, <1>3

LEMMA DropRawStep ==
    ASSUME IInv, DropRaw
    PROVE  IInv'
<1> USE DEF DropRaw, Moves, tableVars, idVars, sinkVars, clientVars
<1>0. TypeOK /\ target = Nothing /\ ~Running'
  BY DEF IInv, TypeOK, Targets, Running
<1>1. raw' \in Seq(Callback)
  OBVIOUS
<1>2. TypeOK'
  BY <1>0, <1>1 DEF TypeOK, Phases
<1>3. \A h \in Ids : IsEventArg(h)' <=> IsEventArg(h)
  BY DEF IsEventArg, EventArgs
<1>4. AdvisedWhileSubscribed' /\ EventArgsResolve'
  BY <1>0, <1>3 DEF IInv, AdvisedWhileSubscribed, EventArgsResolve
<1>5. SinkHeldWhileAdvised' /\ Targets' /\ Distinct' /\ Alive'
  BY <1>0 DEF IInv, SinkHeldWhileAdvised, Handing, Targets, Distinct, Alive
<1>6. NotMinted' /\ OneEvent' /\ Emptied'
  BY <1>0 DEF IInv, NotMinted, OneEvent, Emptied
<1> QED BY <1>2, <1>4, <1>5, <1>6 DEF IInv

LEMMA ClearHandlesStep ==
    ASSUME IInv, ClearHandles
    PROVE  IInv'
<1> USE DEF ClearHandles, Moves, idVars, rawVars, sinkVars, clientVars
<1>0. TypeOK /\ target = Nothing /\ ~Running' /\ \A h \in Ids : advised[h] = Nothing
  BY DEF IInv, TypeOK, Targets, Running, Emptied
<1>1. TypeOK'
  BY <1>0 DEF TypeOK, Phases
<1>2. AdvisedWhileSubscribed' /\ EventArgsResolve'
  BY <1>0 DEF IInv, AdvisedWhileSubscribed, EventArgsResolve
<1>3. SinkHeldWhileAdvised' /\ Targets' /\ Distinct' /\ Alive'
  BY <1>0 DEF IInv, SinkHeldWhileAdvised, Handing, Targets, Distinct, Alive
<1>4. NotMinted' /\ OneEvent' /\ Emptied'
  BY <1>0 DEF IInv, NotMinted, OneEvent, Emptied
<1> QED BY <1>1, <1>2, <1>3, <1>4 DEF IInv

-----------------------------------------------------------------------------
LEMMA StutterStep ==
    ASSUME IInv, UNCHANGED vars
    PROVE  IInv'
<1> USE DEF vars, threadVars, tableVars, idVars, rawVars, sinkVars, clientVars
<1>1. \A h \in Ids : /\ IsEventArg(h)' <=> IsEventArg(h)
                     /\ Subscribed(h)' <=> Subscribed(h)
  BY DEF IsEventArg, EventArgs, Subscribed
<1>2. (Running' <=> Running) /\ TypeOK'
  BY DEF IInv, Running, TypeOK
<1>3. AdvisedWhileSubscribed' /\ EventArgsResolve'
  BY <1>1, <1>2 DEF IInv, AdvisedWhileSubscribed, EventArgsResolve
<1>4. Targets'
  <2>1. target # Nothing => target \in Target
    BY DEF IInv, TypeOK
  <2>2. phase = "advising" => ~IsEventArg(target.handle)'
    BY <2>1, <1>1 DEF IInv, Targets, Target
  <2> QED BY <2>2 DEF IInv, Targets
<1>5. SinkHeldWhileAdvised' /\ Distinct' /\ Alive'
  BY DEF IInv, SinkHeldWhileAdvised, Handing, Distinct, Alive
<1>6. NotMinted' /\ OneEvent' /\ Emptied'
  BY <1>2 DEF IInv, NotMinted, OneEvent, Emptied
<1> QED BY <1>2, <1>3, <1>4, <1>5, <1>6 DEF IInv

LEMMA NextIInv == IInv /\ [Next]_vars => IInv'
<1> SUFFICES ASSUME IInv, [Next]_vars PROVE IInv'
  OBVIOUS
<1>1. CASE Start
  <2>1. CASE EnterApartment
    BY <2>1, OnwardStep DEF EnterApartment, Onward
  <2>2. CASE AttachFails
    BY <2>2, OnwardStep DEF AttachFails, Onward, IInv, TypeOK
  <2> QED BY <1>1, <2>1, <2>2, AttachStep DEF Start
<1>2. CASE Loop \/ Disconnected
  BY <1>2, OnwardStep DEF Loop, Disconnected, Moves, Onward, IInv, TypeOK
<1>3. CASE Commands
  <2>1. ASSUME NEW h \in Ids, Invoke(h)
        PROVE  IInv'
    BY <2>1, OnwardStep DEF Invoke, Takes, Onward, IInv, TypeOK
  <2> QED BY <1>3, <2>1, ReleaseStep, UnsubscribeStep, SubscribeMoreStep, SubscribeFirstStep,
             ReleaseEventStep, AskClosureStep, ClosureAnsweredStep DEF Commands
<1>4. CASE Returns
  BY <1>4, InvokeReturnsStep, AdviseReturnsStep, UnadviseReturnsStep DEF Returns
<1>5. CASE Conversion
  <2>1. CASE ConvertNoMore
    BY <2>1, OnwardStep DEF ConvertNoMore, Onward, IInv, TypeOK
  <2> QED BY <1>5, <2>1, ConvertStep DEF Conversion
<1>6. CASE TearDown
  <2>1. CASE LeaveApartment
    BY <2>1, OnwardStep DEF LeaveApartment, Moves, Onward
  <2> QED BY <1>6, <2>1, EndLoopStep, ClearAdvisedStep, DropRawStep, ClearHandlesStep
          DEF TearDown
<1>7. CASE Source
  BY <1>7, SourceKeepsStep, SourceCopiesStep, SourceLetsStep, CallStep DEF Source
<1> QED BY <1>1, <1>2, <1>3, <1>4, <1>5, <1>6, <1>7, StutterStep DEF Next

(* What is advised, what sources hold and what ids name, in every          *)
(* reachable state.                                                        *)
THEOREM Invariance == Spec => []IInv
BY InitIInv, NextIInv, PTL DEF Spec

(* The variables keep their types. *)
THEOREM TypeCorrect == Spec => []TypeOK
<1>1. IInv => TypeOK
  BY DEF IInv
<1> QED BY Invariance, <1>1, PTL

(* The Subscribe, Unsubscribe and Release arms: an object is advised       *)
(* exactly while it has a subscription, and never an event's argument.     *)
THEOREM AdvisedAlways == Spec => []AdvisedWhileSubscribed
<1>1. IInv => AdvisedWhileSubscribed
  BY DEF IInv
<1> QED BY Invariance, <1>1, PTL

(* EventSink's reference count and Advised's Drop: no source holds a sink  *)
(* the session does not count, but one whose Unadvise failed.              *)
THEOREM SinksAccounted == Spec => []SinkHeldWhileAdvised
<1>1. IInv => SinkHeldWhileAdvised
  BY DEF IInv
<1> QED BY Invariance, <1>1, PTL

(* The conversion of callbacks, ReleaseEvent and Release: what an event    *)
(* lent is what its ids name until the client gives it back.               *)
THEOREM ArgumentsResolve == Spec => []EventArgsResolve
<1>1. IInv => EventArgsResolve
  BY DEF IInv
<1> QED BY Invariance, <1>1, PTL

(* Apartment's Drop: nothing COM owns outlives the apartment, whatever     *)
(* sources call during the teardown.                                       *)
THEOREM NothingOutlivesApartment == Spec => []TornDownInApartment
<1>1. IInv => TornDownInApartment
  BY DEF IInv, Emptied, TornDownInApartment
<1> QED BY Invariance, <1>1, PTL
=============================================================================
