------------------------ MODULE BridgeProcessProofs ------------------------
(* Proofs about BridgeProcess, for any number of clients and bridges.      *)
EXTENDS BridgeProcess, FiniteSetTheorems, TLAPS

-----------------------------------------------------------------------------
(* The inductive invariant.                                                *)

(* Whom a bridge's count stands for. *)
Using(b) == {c \in Clients : on[c] = b /\ conn[c] \in Handled}
Counted == \A b \in Bridges : active[b] = Cardinality(Using(b))

(* A client has no connection until a try succeeds, and then tries no more.*)
Fresh == \A c \in Clients : pc[c] \in Opening \ {"ping", "locked ping"} => conn[c] = "none"

Young == \A b \in Bridges : bridge[b] # "exiting" => elapsed[b] < IdleSamples

(* The lock file: whoever may spawn, or waits for what it spawned. *)
Locked == \A c \in Clients : pc[c] \in {"second try", "polling", "locked ping"} => lock = c

Starting == {b \in Bridges : bridge[b] = "starting"}
Alive == {b \in Bridges : bridge[b] \in {"starting", "listening", "exiting"}}
Polling == {c \in Clients : pc[c] = "polling"}

(* Every bridge that is starting has somebody who waits for it, or gave up *)
(* waiting; and one more than those can be there, which all are welcome to.*)
Spared ==
    /\ \A c \in gaveUp : pc[c] \in {"failed", "killed"}
    /\ Cardinality(Starting) <= Cardinality(gaveUp \cup Polling)
    /\ Cardinality(Alive) <= 1 + Cardinality(gaveUp)

IInv == TypeOK /\ Counted /\ Fresh /\ Young /\ Locked /\ Spared

USE IdleAssumption, FiniteAssumption, NoneAssumption

LEMMA SetsAreFinite ==
    ASSUME TypeOK
    PROVE  /\ \A b \in Bridges : IsFiniteSet(Using(b)) /\ Cardinality(Using(b)) \in Nat
           /\ IsFiniteSet(Starting) /\ Cardinality(Starting) \in Nat
           /\ IsFiniteSet(Alive) /\ Cardinality(Alive) \in Nat
           /\ IsFiniteSet(gaveUp) /\ Cardinality(gaveUp) \in Nat
           /\ IsFiniteSet(gaveUp \cup Polling) /\ Cardinality(gaveUp \cup Polling) \in Nat
<1>1. \A S \in SUBSET Clients : IsFiniteSet(S) /\ Cardinality(S) \in Nat
  BY FS_Subset, FS_CardinalityType
<1>2. \A S \in SUBSET Bridges : IsFiniteSet(S) /\ Cardinality(S) \in Nat
  BY FS_Subset, FS_CardinalityType
<1> QED BY <1>1, <1>2 DEF TypeOK, Using, Starting, Alive, Polling

LEMMA InitIInv == Init => IInv
<1> SUFFICES ASSUME Init PROVE IInv
  OBVIOUS
<1>0. 0 \in 0 .. IdleSamples /\ 0 < IdleSamples
  OBVIOUS
<1>1. TypeOK
  BY <1>0 DEF Init, TypeOK, Opening
<1>2. \A b \in Bridges : Using(b) = {}
  BY DEF Init, Using, Handled
<1>3. Starting = {} /\ Alive = {} /\ gaveUp = {} /\ Polling = {}
  BY DEF Init, Starting, Alive, Polling
<1>4. Counted
  BY <1>2, FS_EmptySet DEF Init, Counted
<1>5. Fresh /\ Young /\ Locked
  BY <1>0 DEF Init, Fresh, Young, Locked
<1>6. Spared
  BY <1>3, FS_EmptySet DEF Spared
<1> QED BY <1>1, <1>4, <1>5, <1>6 DEF IInv

-----------------------------------------------------------------------------
(* A client's steps touch no bridge but by spawning or connecting.         *)

(* Counts and connections that no connection entered or left. *)
LEMMA SameConnections ==
    ASSUME IInv, UNCHANGED <<active, elapsed, on>>,
           \A c \in Clients : conn'[c] = conn[c] \/ (conn[c] \in Handled /\ conn'[c] \in Handled),
           \A b \in Bridges : bridge'[b] # "exiting" => bridge[b] # "exiting",
           \A c \in Clients : pc'[c] \in Opening \ {"ping", "locked ping"} =>
                                  pc[c] \in Opening \ {"ping", "locked ping"}
    PROVE  Counted' /\ Fresh' /\ Young'
<1>1. \A b \in Bridges : Using(b)' = Using(b)
  BY DEF Using
<1>2. Counted'
  BY <1>1 DEF IInv, Counted
<1>3. Fresh' /\ Young'
  BY DEF IInv, Fresh, Young, Handled
<1> QED BY <1>2, <1>3

LEMMA ConnectStep ==
    ASSUME IInv, NEW c \in Clients, NEW to, to \in {"ping", "locked ping"},
           pc[c] \in {"first try", "second try", "polling"},
           to = "locked ping" => pc[c] # "first try",
           Connect(c, to)
    PROVE  IInv'
<1> USE DEF Connect, Goes
<1>0. TypeOK
  BY DEF IInv
<1>1. PICK b \in Bridges :
        /\ Listens(b)
        /\ on' = [on EXCEPT ![c] = b] /\ conn' = [conn EXCEPT ![c] = "backlog"]
        /\ pc' = [pc EXCEPT ![c] = to]
        /\ UNCHANGED <<lock, bridge, elapsed, active, gaveUp>>
  OBVIOUS
<1>2. TypeOK'
  BY <1>0, <1>1 DEF TypeOK, Opening
<1>3. conn[c] = "none"
  BY DEF IInv, Fresh, Opening
<1>4. \A a \in Bridges : Using(a)' = Using(a)
  BY <1>0, <1>1, <1>3 DEF TypeOK, Using, Handled
<1>5. Counted' /\ Young'
  BY <1>1, <1>4 DEF IInv, Counted, Young
<1>6. Fresh' /\ Locked'
  BY <1>0, <1>1 DEF IInv, TypeOK, Fresh, Locked, Opening
<1>7. Spared'
  <2>1. Starting' = Starting /\ Alive' = Alive
    BY <1>1 DEF Starting, Alive
  <2>2. c \notin gaveUp /\ \A d \in gaveUp : pc'[d] \in {"failed", "killed"}
    BY <1>0, <1>1 DEF IInv, TypeOK, Spared
  <2>3. CASE pc[c] = "first try"
    <3>1. Polling' = Polling
      BY <1>0, <1>1, <2>3 DEF TypeOK, Polling
    <3> QED BY <1>1, <2>1, <2>2, <3>1 DEF IInv, Spared
  <2>4. CASE pc[c] # "first try"
    <3>1. Polling' = {}
      BY <1>0, <1>1, <2>4 DEF IInv, TypeOK, Locked, Polling
    <3>2. Starting \subseteq Alive \ {b} /\ b \in Alive
      BY <1>1 DEF Listens, Starting, Alive
    <3>3. Cardinality(Starting) <= Cardinality(Alive) - 1
      <4>1. /\ IsFiniteSet(Alive \ {b})
            /\ Cardinality(Alive \ {b}) = Cardinality(Alive) - 1
        BY <1>0, <3>2, SetsAreFinite, FS_RemoveElement
      <4>2. Cardinality(Starting) <= Cardinality(Alive \ {b})
        BY <3>2, <4>1, FS_Subset
      <4> QED BY <4>1, <4>2
    <3>4. Cardinality(Starting) <= Cardinality(gaveUp)
      <4>1. Cardinality(Alive) <= 1 + Cardinality(gaveUp)
        BY DEF IInv, Spared
      <4>2. /\ Cardinality(Alive) \in Nat /\ Cardinality(gaveUp) \in Nat
            /\ Cardinality(Starting) \in Nat
        BY <1>0, SetsAreFinite
      <4> QED BY ONLY <3>3, <4>1, <4>2
    <3>5. gaveUp' \cup Polling' = gaveUp
      BY <1>1, <3>1
    <3> QED BY <1>1, <2>1, <2>2, <3>4, <3>5 DEF IInv, Spared
  <2> QED BY <2>3, <2>4
<1> QED BY <1>2, <1>5, <1>6, <1>7 DEF IInv

(* Steps of a client that leave bridges and connections alone.             *)
LEMMA ClientMoves ==
    ASSUME IInv, NEW c \in Clients, NEW to, to \in {"locking", "second try", "open"} \cup Ended,
           Goes(c, to), pc[c] \notin Ended,
           to = "locking" => pc[c] = "first try",
           to = "second try" => pc[c] = "locking" /\ lock = None /\ lock' = c,
           to # "second try" => lock' = lock \/ (lock = c /\ lock' = None),
           pc[c] \in {"second try", "polling", "locked ping"} => to \in Ended \cup {"open"},
           IF pc[c] = "polling" THEN gaveUp' = gaveUp \cup {c} /\ to \in {"failed", "killed"}
                                ELSE gaveUp' = gaveUp,
           \/ UNCHANGED conn
           \/ conn[c] = "served" /\ conn' = [conn EXCEPT ![c] = "greeted"],
           UNCHANGED <<bridge, elapsed, active, on>>
    PROVE  IInv'
<1> USE DEF Goes, Ended
<1>0. TypeOK
  BY DEF IInv
<1>1. TypeOK'
  <2>1. conn' \in [Clients -> {"none", "backlog"} \cup Handled]
    BY <1>0 DEF TypeOK, Handled
  <2>2. pc' \in [Clients -> Opening \cup {"open"} \cup Ended]
    BY <1>0 DEF TypeOK, Opening
  <2>3. lock' \in Clients \cup {None} /\ gaveUp' \subseteq Clients
    BY <1>0 DEF TypeOK
  <2> QED BY <1>0, <2>1, <2>2, <2>3 DEF TypeOK
<1>2. Counted' /\ Fresh' /\ Young'
  <2>1. \A d \in Clients : pc'[d] \in Opening \ {"ping", "locked ping"} =>
                               pc[d] \in Opening \ {"ping", "locked ping"}
    BY <1>0 DEF TypeOK, Opening
  <2>2. \A d \in Clients : conn'[d] = conn[d] \/ (conn[d] \in Handled /\ conn'[d] \in Handled)
    BY <1>0 DEF TypeOK, Handled
  <2> QED BY <2>1, <2>2, SameConnections
<1>3. Locked'
  <2>1. ASSUME NEW d \in Clients, pc'[d] \in {"second try", "polling", "locked ping"}
        PROVE  lock' = d
    <3>1. CASE d = c
      BY <1>0, <2>1, <3>1 DEF TypeOK
    <3>2. CASE d # c
      <4>1. pc'[d] = pc[d] /\ lock = d
        BY <1>0, <2>1, <3>2 DEF IInv, TypeOK, Locked
      <4> QED BY <3>2, <4>1
    <3> QED BY <3>1, <3>2
  <2> QED BY <2>1 DEF Locked
<1>4. Spared'
  <2>1. Starting' = Starting /\ Alive' = Alive
    BY DEF Starting, Alive
  <2>2. c \notin gaveUp
    BY DEF IInv, Spared
  <2>3. \A d \in gaveUp' : pc'[d] \in {"failed", "killed"}
    <3>1. \A d \in gaveUp : d \in Clients /\ d # c /\ pc'[d] = pc[d]
      BY <1>0, <2>2 DEF TypeOK
    <3>2. pc[c] = "polling" => pc'[c] \in {"failed", "killed"}
      BY <1>0 DEF TypeOK
    <3>3. \A d \in gaveUp : pc[d] \in {"failed", "killed"}
      BY DEF IInv, Spared
    <3>4. \A d \in gaveUp' : d \in gaveUp \/ (d = c /\ pc[c] = "polling")
      OBVIOUS
    <3> QED BY ONLY <3>1, <3>2, <3>3, <3>4
  <2>4. gaveUp' \cup Polling' = gaveUp \cup Polling
    BY <1>0 DEF TypeOK, Polling
  <2>5. /\ Cardinality(gaveUp) \in Nat /\ Cardinality(gaveUp') \in Nat
        /\ Cardinality(gaveUp) <= Cardinality(gaveUp')
    <3>1. IsFiniteSet(gaveUp) /\ Cardinality(gaveUp) \in Nat
      BY <1>0, SetsAreFinite
    <3>2. Cardinality(gaveUp \cup {c}) = Cardinality(gaveUp) + 1
      BY <2>2, <3>1, FS_AddElement
    <3>3. gaveUp' = gaveUp \/ gaveUp' = gaveUp \cup {c}
      OBVIOUS
    <3>4. CASE gaveUp' = gaveUp
      BY ONLY <3>1, <3>4
    <3>5. CASE gaveUp' = gaveUp \cup {c}
      BY ONLY <3>1, <3>2, <3>5
    <3> QED BY <3>3, <3>4, <3>5
  <2>6. Cardinality(Alive) \in Nat /\ Cardinality(Alive) <= 1 + Cardinality(gaveUp)
    BY <1>0, SetsAreFinite DEF IInv, Spared
  <2>7. Cardinality(Alive') <= 1 + Cardinality(gaveUp')
    BY ONLY <2>1, <2>5, <2>6
  <2>8. Cardinality(Starting') <= Cardinality(gaveUp' \cup Polling')
    BY <2>1, <2>4 DEF IInv, Spared
  <2> QED BY <2>3, <2>7, <2>8 DEF Spared
<1> QED BY <1>1, <1>2, <1>3, <1>4 DEF IInv

LEMMA SpawnStep ==
    ASSUME IInv, NEW c \in Clients, Spawn(c)
    PROVE  IInv'
<1> USE DEF Spawn, MaySpawn, Goes
<1>0. TypeOK
  BY DEF IInv
<1>1. PICK b \in Bridges : bridge[b] = "none" /\ bridge' = [bridge EXCEPT ![b] = "starting"]
  OBVIOUS
<1>2. TypeOK'
  BY <1>0, <1>1 DEF TypeOK, Opening
<1>3. Counted' /\ Fresh' /\ Young'
  <2>1. \A d \in Clients : pc'[d] \in Opening \ {"ping", "locked ping"} =>
                               pc[d] \in Opening \ {"ping", "locked ping"}
    BY <1>0 DEF TypeOK, Opening
  <2>2. \A a \in Bridges : bridge'[a] # "exiting" => bridge[a] # "exiting"
    BY <1>0, <1>1 DEF TypeOK
  <2> QED BY <2>1, <2>2, SameConnections
<1>4. Locked'
  BY <1>0 DEF IInv, TypeOK, Locked
<1>5. Spared'
  <2>1. Starting' = Starting \cup {b} /\ Alive' = Alive \cup {b} /\ Alive = Starting
        /\ b \notin Starting
    <3>1. bridge'[b] = "starting" /\ \A a \in Bridges : a # b => bridge'[a] = bridge[a]
      BY <1>0, <1>1 DEF TypeOK
    <3>2. Starting' = Starting \cup {b} /\ b \notin Starting
      BY <1>1, <3>1 DEF Starting
    <3>3. Alive' = Alive \cup {b}
      BY <1>1, <3>1 DEF Alive
    <3>4. Alive = Starting
      BY DEF Refused, Listens, Starting, Alive
    <3> QED BY <3>2, <3>3, <3>4
  <2>2. Polling = {} /\ Polling' = {c} /\ c \notin gaveUp
    <3>1. pc[c] = "second try" /\ pc' = [pc EXCEPT ![c] = "polling"]
      OBVIOUS
    <3>2. \A d \in Clients : pc[d] # "polling"
      BY <3>1 DEF IInv, Locked
    <3>3. pc'[c] = "polling" /\ \A d \in Clients : d # c => pc'[d] = pc[d]
      BY <1>0, <3>1 DEF TypeOK
    <3>4. c \notin gaveUp
      BY <3>1 DEF IInv, Spared
    <3> QED BY <3>2, <3>3, <3>4 DEF Polling
  <2>3. \A d \in gaveUp' : pc'[d] \in {"failed", "killed"}
    BY <1>0, <2>2 DEF IInv, TypeOK, Spared
  <2>4. Cardinality(Starting) <= Cardinality(gaveUp)
    <3>1. gaveUp \cup Polling = gaveUp
      BY <2>2
    <3> QED BY <3>1 DEF IInv, Spared
  <2>5. /\ Cardinality(Starting') = Cardinality(Starting) + 1
        /\ Cardinality(gaveUp \cup {c}) = Cardinality(gaveUp) + 1
    BY <1>0, <2>1, <2>2, SetsAreFinite, FS_AddElement
  <2>6. gaveUp' \cup Polling' = gaveUp \cup {c} /\ gaveUp' = gaveUp /\ Alive' = Starting'
    BY <2>1, <2>2
  <2>7. Cardinality(Starting) \in Nat /\ Cardinality(gaveUp) \in Nat
    BY <1>0, SetsAreFinite
  <2>8. Cardinality(Starting') <= Cardinality(gaveUp' \cup Polling')
    <3>1. /\ Cardinality(Starting') = Cardinality(Starting) + 1
          /\ Cardinality(gaveUp' \cup Polling') = Cardinality(gaveUp) + 1
      BY ONLY <2>5, <2>6
    <3> QED BY ONLY <2>4, <2>7, <3>1
  <2>9. Cardinality(Alive') <= 1 + Cardinality(gaveUp')
    <3>1. /\ Cardinality(Alive') = Cardinality(Starting) + 1
          /\ Cardinality(gaveUp') = Cardinality(gaveUp)
      BY ONLY <2>5, <2>6
    <3> QED BY ONLY <2>4, <2>7, <3>1
  <2> QED BY <2>3, <2>8, <2>9 DEF Spared
<1> QED BY <1>2, <1>3, <1>4, <1>5 DEF IInv

-----------------------------------------------------------------------------
(* The steps of a bridge. *)

LEMMA BridgeLeavesLock ==
    ASSUME IInv, TypeOK', UNCHANGED <<pc, lock, gaveUp>>,
           Starting' \subseteq Starting, Alive' \subseteq Alive
    PROVE  Locked' /\ Spared'
<1>0. TypeOK
  BY DEF IInv
<1>1. Locked'
  BY DEF IInv, Locked
<1>2. gaveUp' \cup Polling' = gaveUp \cup Polling
  BY DEF Polling
<1>3. /\ Cardinality(Starting') <= Cardinality(Starting)
      /\ Cardinality(Alive') <= Cardinality(Alive)
  BY <1>0, SetsAreFinite, FS_Subset
<1>4. /\ Cardinality(Starting) \in Nat /\ Cardinality(Starting') \in Nat
      /\ Cardinality(Alive) \in Nat /\ Cardinality(Alive') \in Nat
      /\ Cardinality(gaveUp) \in Nat /\ Cardinality(gaveUp \cup Polling) \in Nat
  <2>1. IsFiniteSet(Starting') /\ IsFiniteSet(Alive')
    BY <1>0, SetsAreFinite, FS_Subset
  <2> QED BY <1>0, <2>1, SetsAreFinite, FS_CardinalityType
<1>5. /\ Cardinality(Starting) <= Cardinality(gaveUp \cup Polling)
      /\ Cardinality(Alive) <= 1 + Cardinality(gaveUp)
  BY DEF IInv, Spared
<1>6. /\ Cardinality(Starting') <= Cardinality(gaveUp \cup Polling)
      /\ Cardinality(Alive') <= 1 + Cardinality(gaveUp)
  BY ONLY <1>3, <1>4, <1>5
<1>7. \A c \in gaveUp' : pc'[c] \in {"failed", "killed"}
  BY DEF IInv, Spared
<1> QED BY <1>1, <1>2, <1>6, <1>7 DEF Spared

LEMMA BindStep ==
    ASSUME IInv, NEW b \in Bridges, Bind(b)
    PROVE  IInv'
<1> USE DEF Bind
<1>0. TypeOK
  BY DEF IInv
<1>1. TypeOK'
  BY <1>0 DEF TypeOK
<1>2. Starting' \subseteq Starting /\ Alive' \subseteq Alive
  BY <1>0 DEF TypeOK, Starting, Alive
<1>3. \A a \in Bridges : bridge'[a] # "exiting" => bridge[a] # "exiting"
  BY <1>0 DEF TypeOK
<1>4. Counted' /\ Fresh' /\ Young'
  BY <1>3, SameConnections
<1> QED BY <1>1, <1>2, <1>4, BridgeLeavesLock DEF IInv

LEMMA AcceptStep ==
    ASSUME IInv, NEW b \in Bridges, NEW c \in Clients, Accept(b, c)
    PROVE  IInv'
<1> USE DEF Accept, Count, Handled
<1>0. TypeOK
  BY DEF IInv
<1>1. TypeOK'
  BY <1>0 DEF TypeOK
<1>2. Locked' /\ Spared'
  BY <1>1, BridgeLeavesLock DEF Starting, Alive
<1>3. Fresh' /\ Young'
  BY <1>0 DEF IInv, TypeOK, Fresh, Young
<1>4. Counted'
  <2>1. \A a \in Bridges \ {b} : Using(a)' = Using(a)
    BY <1>0 DEF TypeOK, Using
  <2>2. Using(b)' = Using(b) \cup {c} /\ c \notin Using(b)
    BY <1>0 DEF TypeOK, Using
  <2>3. Cardinality(Using(b)') = Cardinality(Using(b)) + 1
    BY <1>0, <2>2, SetsAreFinite, FS_AddElement
  <2>4. \A a \in Bridges : active'[a] = IF a = b THEN active[b] + 1 ELSE active[a]
    BY <1>0 DEF TypeOK
  <2> QED BY <2>1, <2>3, <2>4 DEF IInv, Counted
<1> QED BY <1>1, <1>2, <1>3, <1>4 DEF IInv

LEMMA LeaveLoopStep ==
    ASSUME IInv, NEW b \in Bridges, NEW c \in Clients, LeaveLoop(b, c)
    PROVE  IInv'
<1> USE DEF LeaveLoop
<1>0. TypeOK
  BY DEF IInv
<1>1. PICK to \in {"ending", "stranded"} : conn' = [conn EXCEPT ![c] = to]
  OBVIOUS
<1>2. conn[c] \in {"served", "greeted"}
  OBVIOUS
<1>3. TypeOK'
  BY <1>0, <1>1 DEF TypeOK, Handled
<1>4. Locked' /\ Spared'
  BY <1>3, BridgeLeavesLock DEF Starting, Alive
<1>5. \A d \in Clients : conn'[d] = conn[d] \/ (conn[d] \in Handled /\ conn'[d] \in Handled)
  BY <1>0, <1>1, <1>2 DEF TypeOK, Handled
<1>6. Counted' /\ Fresh' /\ Young'
  BY <1>5, SameConnections
<1> QED BY <1>3, <1>4, <1>6 DEF IInv

LEMMA UncountStep ==
    ASSUME IInv, NEW b \in Bridges, NEW c \in Clients, Uncount(b, c)
    PROVE  IInv'
<1> USE DEF Uncount, Discount, Handled
<1>0. TypeOK
  BY DEF IInv
<1>1. /\ Using(b)' = Using(b) \ {c} /\ c \in Using(b)
      /\ \A a \in Bridges \ {b} : Using(a)' = Using(a)
  BY <1>0 DEF TypeOK, Using
<1>2. /\ Cardinality(Using(b)') = Cardinality(Using(b)) - 1
      /\ Cardinality(Using(b)) \in Nat /\ Cardinality(Using(b)) # 0
  <2>1. IsFiniteSet(Using(b)) /\ Cardinality(Using(b)) \in Nat
    BY <1>0, SetsAreFinite
  <2>2. Cardinality(Using(b) \ {c}) = Cardinality(Using(b)) - 1
    BY <1>1, <2>1, FS_RemoveElement
  <2>3. Cardinality(Using(b)) # 0
    BY <1>1, <2>1, FS_EmptySet
  <2> QED BY <1>1, <2>1, <2>2, <2>3
<1>3. active[b] = Cardinality(Using(b))
  BY DEF IInv, Counted
<1>4. active[b] - 1 \in Nat
  BY ONLY <1>2, <1>3
<1>5. TypeOK'
  BY <1>0, <1>4 DEF TypeOK
<1>6. Locked' /\ Spared'
  BY <1>5, BridgeLeavesLock DEF Starting, Alive
<1>7. Fresh' /\ Young'
  BY <1>0 DEF IInv, TypeOK, Fresh, Young
<1>8. Counted'
  <2>1. \A a \in Bridges : active'[a] = IF a = b THEN active[b] - 1 ELSE active[a]
    BY <1>0 DEF TypeOK
  <2> QED BY <1>1, <1>2, <1>3, <2>1 DEF IInv, Counted
<1> QED BY <1>5, <1>6, <1>7, <1>8 DEF IInv

LEMMA SampleStep ==
    ASSUME IInv, NEW b \in Bridges, Sample(b)
    PROVE  IInv'
<1> USE DEF Sample
<1>0. TypeOK /\ elapsed[b] < IdleSamples
  BY DEF IInv, Young
<1>1. /\ elapsed'[b] \in 0 .. IdleSamples
      /\ elapsed'[b] # IdleSamples => elapsed'[b] < IdleSamples
      /\ \A a \in Bridges \ {b} : elapsed'[a] = elapsed[a] /\ bridge'[a] = bridge[a]
      /\ bridge'[b] = IF elapsed'[b] = IdleSamples THEN "exiting" ELSE bridge[b]
  <2>1. elapsed[b] \in 0 .. IdleSamples
    BY <1>0 DEF TypeOK
  <2> QED BY <1>0, <2>1 DEF TypeOK
<1>2. TypeOK'
  BY <1>0, <1>1 DEF TypeOK
<1>3. Locked' /\ Spared'
  <2>1. Starting' \subseteq Starting /\ Alive' \subseteq Alive
    BY <1>0, <1>1 DEF TypeOK, Starting, Alive
  <2> QED BY <1>2, <2>1, BridgeLeavesLock
<1>4. Young' /\ Fresh'
  BY <1>1 DEF IInv, Young, Fresh
<1>5. \A a \in Bridges : Using(a)' = Using(a)
  BY DEF Using
<1>6. Counted'
  BY <1>5 DEF IInv, Counted
<1> QED BY <1>2, <1>3, <1>4, <1>6 DEF IInv

LEMMA GoneStep ==
    ASSUME IInv, NEW b \in Bridges, Gone(b)
    PROVE  IInv'
<1> USE DEF Gone
<1>0. TypeOK
  BY DEF IInv
<1>1. TypeOK'
  BY <1>0 DEF TypeOK
<1>2. Locked' /\ Spared'
  <2>1. Starting' \subseteq Starting /\ Alive' \subseteq Alive
    BY <1>0 DEF TypeOK, Starting, Alive
  <2> QED BY <1>1, <2>1, BridgeLeavesLock
<1>3. Fresh'
  BY <1>0 DEF IInv, TypeOK, Fresh
<1>4. Young'
  <2>1. 0 < IdleSamples
    OBVIOUS
  <2> QED BY <1>0, <2>1 DEF IInv, TypeOK, Young
<1>5. Counted'
  <2>1. Using(b)' = {} /\ \A a \in Bridges \ {b} : Using(a)' = Using(a)
    BY <1>0 DEF TypeOK, Using, Handled
  <2> QED BY <1>0, <2>1, FS_EmptySet DEF IInv, TypeOK, Counted
<1> QED BY <1>1, <1>2, <1>3, <1>4, <1>5 DEF IInv

-----------------------------------------------------------------------------
LEMMA OpenStep ==
    ASSUME IInv, NEW c \in Clients, Open(c) \/ LockFails(c) \/ Close(c) \/ Die(c)
    PROVE  IInv'
<1>1. CASE FirstTry(c)
  <2>1. CASE Connect(c, "ping")
    BY <1>1, <2>1, ConnectStep DEF FirstTry
  <2>2. CASE ~Connect(c, "ping")
    BY <1>1, <2>2, ClientMoves DEF FirstTry, Goes, Ended
  <2> QED BY <2>1, <2>2
<1>2. CASE Lock(c)
  BY <1>2, ClientMoves DEF Lock, Goes, Ended
<1>3. CASE SecondTry(c) \/ Poll(c)
  BY <1>3, ConnectStep DEF SecondTry, Poll
<1>4. CASE SpawnFails(c)
  <2>1. lock = c
    BY <1>4 DEF SpawnFails, MaySpawn, IInv, Locked
  <2> QED BY <1>4, <2>1, ClientMoves DEF SpawnFails, MaySpawn, Goes, Ended
<1>5. CASE StopPolling(c)
  <2>1. lock = c
    BY <1>5 DEF StopPolling, IInv, Locked
  <2> QED BY <1>5, <2>1, ClientMoves DEF StopPolling, Goes, Ended
<1>6. CASE Handshake(c)
  BY <1>6, ClientMoves DEF Handshake, Unlocked, Goes, Ended
<1>7. CASE LockFails(c) \/ Close(c)
  BY <1>7, ClientMoves DEF LockFails, Close, Goes, Ended
<1>8. CASE Die(c)
  BY <1>8, ClientMoves DEF Die, HungUp, Unlocked, Goes, Ended
<1> QED BY <1>1, <1>2, <1>3, <1>4, <1>5, <1>6, <1>7, <1>8, SpawnStep DEF Open

LEMMA NextIInv == IInv /\ [Next]_vars => IInv'
<1> SUFFICES ASSUME IInv, [Next]_vars PROVE IInv'
  OBVIOUS
<1>1. ASSUME NEW b \in Bridges, Exit(b) \/ Crash(b)
      PROVE  IInv'
  BY <1>1, GoneStep DEF Exit, Crash
<1>2. CASE UNCHANGED vars
  <2> USE <1>2 DEF vars
  <2>1. \A b \in Bridges : Using(b)' = Using(b)
    BY DEF Using
  <2>2. Starting' = Starting /\ Alive' = Alive /\ Polling' = Polling
    BY DEF Starting, Alive, Polling
  <2>3. TypeOK' /\ Counted' /\ Fresh' /\ Young' /\ Locked'
    BY <2>1 DEF IInv, TypeOK, Counted, Fresh, Young, Locked
  <2>4. Spared'
    BY <2>2 DEF IInv, Spared
  <2> QED BY <2>3, <2>4 DEF IInv
<1>3. ASSUME NEW b \in Bridges, NEW c \in Clients, ReleaseAll(b, c) \/ EndConnection(b, c)
      PROVE  IInv'
  BY <1>3, LeaveLoopStep DEF ReleaseAll, EndConnection
<1> QED BY <1>1, <1>2, <1>3, OpenStep, BindStep, SampleStep, AcceptStep, UncountStep DEF Next, Serve

(* Who is counted, who holds the lock and what was started for whom, in    *)
(* every reachable state.                                                  *)
THEOREM Invariance == Spec => []IInv
BY InitIInv, NextIInv, PTL DEF Spec

(* The variables keep their types; the connection count above all, which   *)
(* would wrap below zero.                                                  *)
THEOREM TypeCorrect == Spec => []TypeOK
<1>1. IInv => TypeOK
  BY DEF IInv
<1> QED BY Invariance, <1>1, PTL

(* Client.open, its lock and its second try: no bridge is started beside   *)
(* another but for those that somebody gave up on.                         *)
THEOREM SpawnsAreSpared == Spec => []NoSpareBridge
<1>1. IInv => NoSpareBridge
  <2> SUFFICES ASSUME IInv PROVE NoSpareBridge
    OBVIOUS
  <2> DEFINE Up == {b \in Bridges : bridge[b] \in {"starting", "listening"}}
  <2>1. IsFiniteSet(Alive) /\ Cardinality(Alive) \in Nat /\ Cardinality(gaveUp) \in Nat
    BY SetsAreFinite DEF IInv
  <2>2. Up \subseteq Alive
    BY DEF Alive
  <2>3. Cardinality(Up) <= Cardinality(Alive) /\ Cardinality(Up) \in Nat
    BY <2>1, <2>2, FS_Subset, FS_CardinalityType
  <2>4. Cardinality(Alive) <= 1 + Cardinality(gaveUp)
    BY DEF IInv, Spared
  <2> HIDE DEF Up
  <2>5. Cardinality(Up) <= 1 + Cardinality(gaveUp)
    BY ONLY <2>1, <2>3, <2>4
  <2> QED BY <2>5 DEF NoSpareBridge, Up
<1> QED BY Invariance, <1>1, PTL

(* main, the idle timer: no bridge decides to exit over a connection that  *)
(* is served, or whose sessions are ending.                                *)
THEOREM ExitsIdle == Spec => ExitDecidedIdle
<1> DEFINE Idle == \A b \in Bridges : bridge[b] = "listening" /\ bridge'[b] = "exiting" =>
                     \A c \in Clients : on[c] = b => conn[c] \notin Handled
<1>1. IInv /\ [Next]_vars => [Idle]_vars
  <2> SUFFICES ASSUME IInv, Next, NEW b \in Bridges,
                      bridge[b] = "listening", bridge'[b] = "exiting"
               PROVE  \A c \in Clients : on[c] = b => conn[c] \notin Handled
    OBVIOUS
  <2>0. TypeOK
    BY DEF IInv
  <2>1. Sample(b)
    <3>1. ASSUME NEW c \in Clients, Open(c) \/ LockFails(c) \/ Close(c) \/ Die(c)
          PROVE  FALSE
      BY <2>0, <3>1 DEF TypeOK, Open, FirstTry, Lock, SecondTry, Spawn, SpawnFails, Poll,
                        StopPolling, Handshake, LockFails, Close, Die, Connect
    <3>2. ASSUME NEW a \in Bridges, Serve(a) \/ Crash(a), ~Sample(b)
          PROVE  FALSE
      BY <2>0, <3>2 DEF TypeOK, Serve, Bind, Sample, Exit, Crash, Gone, Accept, ReleaseAll,
                        EndConnection, LeaveLoop, Uncount
    <3> QED BY <3>1, <3>2 DEF Next
  <2>2. active[b] = 0
    BY <2>0, <2>1 DEF Sample, TypeOK
  <2>3. IsFiniteSet(Using(b)) /\ Cardinality(Using(b)) = 0
    BY <2>0, <2>2, SetsAreFinite DEF IInv, Counted
  <2>4. Using(b) = {}
    BY <2>3, FS_EmptySet
  <2> QED BY <2>4 DEF Using
<1> QED BY Invariance, <1>1, PTL DEF Spec, ExitDecidedIdle

-----------------------------------------------------------------------------
(* Who waits, in open and at the bridge's socket.                          *)

ClientWaits(c) ==
    \/ pc[c] \notin Opening
    \/ pc[c] = "locking" /\ lock # None
    \/ pc[c] \in {"ping", "locked ping"} /\ conn[c] = "backlog"

AcceptorWaits(b) == Listens(b) => \A c \in Clients : on[c] = b => conn[c] # "backlog"

AllWait == (\A c \in Clients : ClientWaits(c)) /\ (\A b \in Bridges : AcceptorWaits(b))

(* The lock is nobody's who has left open's with-block. *)
Held == lock # None => pc[lock] \in {"second try", "polling", "locked ping"}

(* What waits to be accepted is with a bridge that listens. *)
Queued == \A c \in Clients : conn[c] = "backlog" => on[c] \in Bridges /\ Listens(on[c])

LEMMA HeldStep ==
    ASSUME IInv, Held, [Next]_vars
    PROVE  Held'
<1> USE DEF Held
<1>0. pc \in [Clients -> Opening \cup {"open"} \cup Ended] /\ lock \in Clients \cup {None}
  BY DEF IInv, TypeOK
<1>1. CASE UNCHANGED vars
  BY <1>1 DEF vars
<1>2. ASSUME NEW c \in Clients, Open(c) \/ LockFails(c) \/ Close(c) \/ Die(c)
      PROVE  Held'
  <2>1. pc[c] \in {"second try", "polling", "locked ping"} => lock = c
    BY DEF IInv, Locked
  <2>2. PICK to : pc' = [pc EXCEPT ![c] = to]
    BY <1>2 DEF Open, FirstTry, Lock, SecondTry, Spawn, SpawnFails, Poll, StopPolling, Handshake,
        LockFails, Close, Die, Connect, Goes
  <2>3. pc'[c] = to /\ \A d \in Clients : d # c => pc'[d] = pc[d]
    BY <1>0, <2>2
  <2>4. \/ lock' = lock /\ (lock = c => to \in {"second try", "polling", "locked ping"})
        \/ lock' = None
        \/ lock' = c /\ to = "second try"
    <3>1. CASE FirstTry(c) \/ LockFails(c) \/ Close(c)
      <4>1. lock' = lock /\ pc[c] \notin {"second try", "polling", "locked ping"}
        BY <3>1 DEF FirstTry, LockFails, Close, Connect
      <4>2. lock # c
        BY <4>1, NoneAssumption
      <4> QED BY <4>1, <4>2
    <3>2. CASE Lock(c)
      BY <1>0, <2>3, <3>2 DEF Lock, Goes
    <3>3. CASE SecondTry(c) \/ Spawn(c) \/ Poll(c)
      BY <1>0, <2>3, <3>3 DEF SecondTry, Spawn, Poll, Connect, Goes
    <3>4. CASE SpawnFails(c) \/ StopPolling(c)
      BY <3>4 DEF SpawnFails, StopPolling
    <3>5. CASE Handshake(c) \/ Die(c)
      BY <3>5 DEF Handshake, Die, Unlocked
    <3> QED BY <1>2, <3>1, <3>2, <3>3, <3>4, <3>5 DEF Open
  <2> QED BY <1>0, <2>3, <2>4
<1>3. ASSUME NEW b \in Bridges, Serve(b) \/ Crash(b)
      PROVE  Held'
  <2>1. UNCHANGED <<pc, lock>>
    BY <1>3 DEF Serve, Bind, Sample, Exit, Crash, Gone, Accept, ReleaseAll, EndConnection,
                LeaveLoop, Uncount
  <2> QED BY <2>1
<1> QED BY <1>1, <1>2, <1>3 DEF Next

LEMMA QueuedStep ==
    ASSUME IInv, Queued, [Next]_vars
    PROVE  Queued'
<1> USE DEF Queued
<1>0. /\ on \in [Clients -> Bridges \cup {None}]
      /\ conn \in [Clients -> {"none", "backlog"} \cup Handled]
      /\ bridge \in [Bridges -> {"none", "starting", "listening", "exiting", "gone"}]
  BY DEF IInv, TypeOK
(* Steps that put nobody into a backlog and end no bridge.                 *)
<1>1. ASSUME UNCHANGED on,
             \A c \in Clients : conn'[c] = "backlog" => conn[c] = "backlog",
             \A b \in Bridges : Listens(b) => Listens(b)'
      PROVE  Queued'
  BY <1>1 DEF Listens
<1>2. CASE UNCHANGED vars
  BY <1>1, <1>2 DEF vars, Listens
<1>3. ASSUME NEW c \in Clients, FirstTry(c) \/ SecondTry(c) \/ Poll(c)
      PROVE  Queued'
  <2>1. CASE \E to \in {"ping", "locked ping"} : Connect(c, to)
    <3>1. PICK b \in Bridges : /\ Listens(b) /\ bridge' = bridge
                              /\ on' = [on EXCEPT ![c] = b] /\ conn' = [conn EXCEPT ![c] = "backlog"]
      BY <2>1 DEF Connect
    <3>2. on'[c] = b /\ \A d \in Clients : d # c => on'[d] = on[d] /\ conn'[d] = conn[d]
      BY <1>0, <3>1
    <3> QED BY <3>1, <3>2 DEF Listens
  <2>2. CASE UNCHANGED <<on, conn, bridge>>
    BY <1>1, <2>2 DEF Listens
  <2> QED BY <1>3, <2>1, <2>2 DEF FirstTry, SecondTry, Poll
<1>4. ASSUME NEW c \in Clients, \/ LockFails(c) \/ Close(c) \/ Die(c) \/ Lock(c) \/ SpawnFails(c)
                                \/ StopPolling(c) \/ Handshake(c) \/ Spawn(c)
      PROVE  Queued'
  <2>1. UNCHANGED on /\ (conn' = conn \/ conn' = [conn EXCEPT ![c] = "greeted"])
    BY <1>4 DEF LockFails, Close, Die, Lock, Spawn, SpawnFails, StopPolling, Handshake
  <2>2. \A d \in Clients : conn'[d] = "backlog" => conn[d] = "backlog"
    BY <1>0, <2>1
  <2>3. \/ bridge' = bridge
        \/ \E b \in Bridges : bridge[b] = "none" /\ bridge' = [bridge EXCEPT ![b] = "starting"]
    BY <1>4 DEF LockFails, Close, Die, Lock, Spawn, SpawnFails, StopPolling, Handshake
  <2>4. \A b \in Bridges : Listens(b) => Listens(b)'
    BY <1>0, <2>3 DEF Listens
  <2> QED BY <1>1, <2>1, <2>2, <2>4
<1>5. ASSUME NEW b \in Bridges, Bind(b) \/ Sample(b)
      PROVE  Queued'
  <2>1. UNCHANGED <<on, conn>>
    BY <1>5 DEF Bind, Sample
  <2>2. \A a \in Bridges : Listens(a) => Listens(a)'
    BY <1>0, <1>5 DEF Bind, Sample, Listens
  <2> QED BY <1>1, <2>1, <2>2
<1>6. ASSUME NEW b \in Bridges, Exit(b) \/ Crash(b)
      PROVE  Queued'
  <2>1. /\ UNCHANGED on /\ bridge' = [bridge EXCEPT ![b] = "gone"]
        /\ conn' = [c \in Clients |-> IF on[c] = b THEN "none" ELSE conn[c]]
    BY <1>6 DEF Exit, Crash, Gone
  <2>2. \A a \in Bridges : a # b => bridge'[a] = bridge[a]
    BY <1>0, <2>1
  <2>3. \A c \in Clients : conn'[c] = "backlog" => on[c] # b /\ conn[c] = "backlog"
    BY <2>1
  <2> QED BY <2>1, <2>2, <2>3 DEF Listens
<1>7. ASSUME NEW b \in Bridges, NEW c \in Clients,
             Accept(b, c) \/ ReleaseAll(b, c) \/ EndConnection(b, c) \/ Uncount(b, c)
      PROVE  Queued'
  <2>1. /\ UNCHANGED <<on, bridge>>
        /\ \E to \in {"served", "ending", "stranded", "none"} : conn' = [conn EXCEPT ![c] = to]
    BY <1>7 DEF Accept, ReleaseAll, EndConnection, LeaveLoop, Uncount
  <2>2. \A d \in Clients : conn'[d] = "backlog" => conn[d] = "backlog"
    BY <1>0, <2>1
  <2> QED BY <1>1, <2>1, <2>2 DEF Listens
<1> QED BY <1>2, <1>3, <1>4, <1>5, <1>6, <1>7 DEF Next, Open, Serve

(* open, its lock and its handshake, against a bridge that starts, exits   *)
(* or dies meanwhile: as long as anybody is still opening, somebody can    *)
(* move: the client that holds the lock, whoever waits for nothing, or the *)
(* bridge that has yet to accept a connection.                             *)
THEOREM OpensNeverStuck == Spec => [](AllWait => \A c \in Clients : pc[c] \notin Opening)
<1>1. IInv /\ Held /\ Queued => (AllWait => \A c \in Clients : pc[c] \notin Opening)
  <2> SUFFICES ASSUME IInv, Held, Queued, AllWait
               PROVE  \A c \in Clients : pc[c] \notin Opening
    OBVIOUS
  <2>1. ASSUME NEW c \in Clients PROVE pc[c] \notin {"ping", "locked ping"}
    <3> SUFFICES ASSUME pc[c] \in {"ping", "locked ping"} PROVE FALSE
      OBVIOUS
    <3>1. conn[c] = "backlog"
      BY DEF AllWait, ClientWaits, Opening
    <3>2. on[c] \in Bridges /\ Listens(on[c])
      BY <3>1 DEF Queued
    <3> QED BY <3>1, <3>2 DEF AllWait, AcceptorWaits
  <2>2. lock = None
    <3> SUFFICES ASSUME lock # None PROVE FALSE
      OBVIOUS
    <3>1. lock \in Clients /\ pc[lock] \in {"second try", "polling", "locked ping"}
      BY DEF IInv, TypeOK, Held
    <3>2. pc[lock] \in {"second try", "polling"}
      BY <2>1, <3>1
    <3> QED BY <3>1, <3>2 DEF AllWait, ClientWaits, Opening
  <2> QED BY <2>1, <2>2 DEF AllWait, ClientWaits
<1>2. Init => Held /\ Queued
  BY DEF Init, Held, Queued
<1>3. IInv /\ Held /\ Queued /\ [Next]_vars => (Held /\ Queued)'
  BY HeldStep, QueuedStep
<1> QED BY <1>1, <1>2, <1>3, Invariance, PTL DEF Spec
=============================================================================
