-------------------------- MODULE CrossingsProofs --------------------------
(***************************************************************************)
(* Proofs about Crossings, for any objects, members, calls, callbacks,     *)
(* values, type libraries and event sources that the assumptions admit: the *)
(* choice of an event source, the order of a callback's arguments, the     *)
(* calendar behind the dates, a call's arguments, values read and written  *)
(* back, and the constants of a type library.                              *)
(***************************************************************************)
EXTENDS Crossings, TLAPS, FiniteSetTheorems, FunctionTheorems, SequenceTheorems,
        WellFoundedInduction

(* What is on its way, as far as the two properties speak of it. *)
Underway ==
    /\ at = "callback" => job \in Callbacks
    /\ at = "queued" => job \in Callbacks /\ carried = OrderedArgs(job)
    /\ at = "asked" => job \in EventSources
    /\ at = "advised" => job \in EventSources /\ carried.on = Advise(job)

LEMMA InitUnderway == Init => Underway
BY DEF Init, Underway

LEMMA NextUnderway ==
    ASSUME Underway, [Next]_vars
    PROVE  Underway'
<1>1. CASE SinkInvoke
  BY <1>1 DEF SinkInvoke, Carry, Underway
<1>2. CASE Subscribe
  BY <1>2 DEF Subscribe, Carry, Underway
<1>3. CASE UNCHANGED vars
  BY <1>3 DEF vars, Underway
<1>4. CASE ConvertArguments \/ Invoke \/ CalleeTakes \/ Answer
  <2>1. at' \in {"refused", "converted", "invoked", "taken", "answered"}
    BY <1>4 DEF ConvertArguments, Invoke, CalleeTakes, Answer, Carry
  <2> QED BY <2>1 DEF Underway
<1>5. CASE ForwardEvent \/ Read \/ WriteBack \/ LoadConstants \/ HandBack
  <2>1. at' \in {"delivered", "read", "written", "loaded", "not loaded", "handed back"}
    BY <1>5 DEF ForwardEvent, Read, WriteBack, LoadConstants, HandBack, Carry
  <2> QED BY <2>1 DEF Underway
<1> QED
  BY <1>1, <1>2, <1>3, <1>4, <1>5 DEF Next

(* What is carried follows from the job, for callbacks and subscriptions.  *)
THEOREM Invariance == Spec => []Underway
BY InitUnderway, NextUnderway, PTL DEF Spec

-----------------------------------------------------------------------------
(* The choice of a source.                                                 *)

LEMMA SoleIsOne ==
    ASSUME NEW S, Sole(S)
    PROVE  IsFiniteSet(S) /\ Cardinality(S) <= 1
<1>1. CASE S = {}
  BY <1>1, FS_EmptySet
<1>2. CASE S # {}
  <2>1. PICK x \in S : TRUE
    BY <1>2
  <2>2. S = {x}
    BY <2>1 DEF Sole
  <2>3. IsFiniteSet({x}) /\ Cardinality({x}) = 1
    BY FS_Singleton
  <2> QED BY <2>2, <2>3
<1> QED BY <1>1, <1>2

(* The one entry flagged as default source is the one that is taken. *)
LEMMA DefaultIsTaken ==
    ASSUME NEW o \in EventSources, NEW i \in Defaults(o.coclass)
    PROVE  /\ Defaults(o.coclass) = {i}
           /\ CoclassDefaultSource(o.coclass) = o.coclass[i].iid
<1>1. Defaults(o.coclass) = {i}
  <2>1. Sole(Defaults(o.coclass))
    BY EventSourcesAssumption
  <2> QED BY <2>1 DEF Sole
<1>2. i \in Int
  <2>1. o.coclass \in Seq(Cells(o.coclass)) /\ i \in DOMAIN o.coclass
    BY EventSourcesAssumption DEF Defaults, Sources
  <2> QED BY <2>1
<1>3. (CHOOSE d \in Defaults(o.coclass) : \A k \in Defaults(o.coclass) : d <= k) = i
  BY <1>1, <1>2
<1> QED BY <1>1, <1>3 DEF CoclassDefaultSource

LEMMA SourceOfCoclass ==
    ASSUME NEW o \in EventSources, Defaults(o.coclass) = {}, NEW iid,
           iid \in CoclassDefaultSource(o.coclass)
    PROVE  \E i \in Sources(o.coclass) :
              Sources(o.coclass) = {i} /\ iid \in o.coclass[i].iid
BY DEF CoclassDefaultSource

LEMMA CoclassIsSole ==
    ASSUME NEW o \in EventSources
    PROVE  Sole(CoclassDefaultSource(o.coclass))
<1>1. CASE Defaults(o.coclass) # {}
  <2>1. PICK i \in Defaults(o.coclass) : TRUE
    BY <1>1
  <2>2. i \in DOMAIN o.coclass
    BY DEF Defaults, Sources
  <2> QED BY <2>1, <2>2, DefaultIsTaken, EventSourcesAssumption
<1>2. CASE Defaults(o.coclass) = {}
  <2> SUFFICES ASSUME NEW x \in CoclassDefaultSource(o.coclass),
                      NEW y \in CoclassDefaultSource(o.coclass)
               PROVE  x = y
    BY DEF Sole
  <2>1. PICK i \in Sources(o.coclass) :
            Sources(o.coclass) = {i} /\ x \in o.coclass[i].iid
    BY <1>2, SourceOfCoclass
  <2>2. PICK k \in Sources(o.coclass) :
            Sources(o.coclass) = {k} /\ y \in o.coclass[k].iid
    BY <1>2, SourceOfCoclass
  <2>3. i = k /\ i \in DOMAIN o.coclass
    BY <2>1, <2>2 DEF Sources
  <2> QED BY <2>1, <2>2, <2>3, EventSourcesAssumption DEF Sole
<1> QED BY <1>1, <1>2

(* What is enumerated, where there is one connection point. *)
Enumerated(o) == UNION {points[1] : points \in {p \in o.enum : Len(p) = 1}}

LEMMA EnumeratedIsSole ==
    ASSUME NEW o \in EventSources
    PROVE  Sole(Enumerated(o))
<1> SUFFICES ASSUME NEW x \in Enumerated(o), NEW y \in Enumerated(o)
             PROVE  x = y
  BY DEF Sole
<1>1. PICK p \in o.enum : Len(p) = 1 /\ x \in p[1]
  BY DEF Enumerated
<1>2. PICK q \in o.enum : Len(q) = 1 /\ y \in q[1]
  BY DEF Enumerated
<1>3. p = q
  BY EventSourcesAssumption DEF Sole
<1>4. p \in Seq(Cells(p))
  BY EventSourcesAssumption
<1>5. p[1] \in Cells(p)
  BY <1>1, <1>4 DEF Cells
<1> QED BY <1>1, <1>2, <1>3, <1>5, EventSourcesAssumption DEF Sole

LEMMA SourceIsSole ==
    ASSUME NEW o \in EventSources
    PROVE  Sole(SourceIid(o))
<1>1. Sole(o.guid) /\ Sole({})
  BY EventSourcesAssumption DEF Sole
<1> QED BY <1>1, CoclassIsSole, EnumeratedIsSole DEF SourceIid, Enumerated

(* What can be advised on. *)
LEMMA Advisable ==
    ASSUME NEW o \in EventSources, NEW iid
    PROVE  iid \in Advise(o) <=>
              /\ iid \in SourceIid(o)
              /\ iid \notin Unimplementable
              /\ iid \in DOMAIN o.kinds => o.kinds[iid] = "dispinterface"
              /\ o.container /\ iid \in o.offers
              /\ o.apartment \in {"STA", "MAINSTA"}
BY DEF Advise, RequireSta, RefuseUnimplementableSource, RefuseNonDispinterfaceTypekind

(* The word of an object or of its coclass. *)
Word(o) ==
    IF o.guid # {} THEN o.guid
    ELSE UNION {o.coclass[i].iid : i \in Defaults(o.coclass)}

LEMMA WordIsHeard ==
    ASSUME NEW o \in EventSources, NEW iid \in Word(o)
    PROVE  iid \in SourceIid(o)
<1>1. CASE o.guid # {}
  BY <1>1 DEF Word, SourceIid
<1>2. CASE o.guid = {}
  <2>1. PICK i \in Defaults(o.coclass) : iid \in o.coclass[i].iid
    BY <1>2 DEF Word
  <2>2. iid \in CoclassDefaultSource(o.coclass)
    BY <2>1, DefaultIsTaken
  <2> QED BY <1>2, <2>2 DEF SourceIid
<1> QED BY <1>1, <1>2

(* Without a word, and with everything legible, a source is the only one   *)
(* of the coclass or the only one on offer.                                *)
LEMMA WordlessChoice ==
    ASSUME NEW o \in EventSources, Legible(o), NEW iid \in SourceIid(o), iid \notin Word(o)
    PROVE  /\ Word(o) = {}
           /\ \/ \E i \in Sources(o.coclass) :
                    Sources(o.coclass) = {i} /\ iid \in o.coclass[i].iid
              \/ Cardinality(Sources(o.coclass)) # 1 /\ o.offers = {iid}
<1>1. o.guid = {}
  BY DEF Word, SourceIid
<1>2. Defaults(o.coclass) = {}
  <2> SUFFICES ASSUME NEW i \in Defaults(o.coclass) PROVE FALSE
    OBVIOUS
  <2>1. o.coclass[i].iid # {}
    BY DEF Legible, Defaults, Sources
  <2>2. CoclassDefaultSource(o.coclass) = o.coclass[i].iid
    BY DefaultIsTaken
  <2>3. iid \in o.coclass[i].iid
    BY <1>1, <2>1, <2>2 DEF SourceIid
  <2> QED BY <1>1, <2>3 DEF Word
<1>3. Word(o) = {}
  BY <1>1, <1>2 DEF Word
<1>4. CASE CoclassDefaultSource(o.coclass) # {}
  <2>1. iid \in CoclassDefaultSource(o.coclass)
    BY <1>1, <1>4 DEF SourceIid
  <2> QED BY <1>2, <1>3, <2>1, SourceOfCoclass
<1>5. CASE CoclassDefaultSource(o.coclass) = {}
  <2>1. PICK p \in o.enum : Len(p) = 1 /\ iid \in p[1]
    BY <1>1, <1>5 DEF SourceIid
  <2>2. p \in Seq(Cells(p)) /\ \A S \in Cells(p) : Sole(S)
    BY EventSourcesAssumption
  <2>3. Cells(p) = {p[1]}
    BY <2>1, <2>2 DEF Cells
  <2>4. o.offers = p[1] /\ Sole(p[1])
    <3>1. UNION Cells(p) = o.offers
      BY <2>1 DEF Legible
    <3>2. UNION {p[1]} = p[1]
      OBVIOUS
    <3> QED BY <2>2, <2>3, <3>1, <3>2
  <2>5. o.offers = {iid}
    BY <2>1, <2>4 DEF Sole
  <2>6. Cardinality(Sources(o.coclass)) # 1
    <3> SUFFICES ASSUME Cardinality(Sources(o.coclass)) = 1 PROVE FALSE
      OBVIOUS
    <3>1. IsFiniteSet(Sources(o.coclass))
      <4>1. o.coclass \in Seq(Cells(o.coclass))
        BY EventSourcesAssumption
      <4>2. IsFiniteSet(DOMAIN o.coclass)
        BY <4>1, FS_Interval
      <4>3. Sources(o.coclass) \in SUBSET (DOMAIN o.coclass)
        BY DEF Sources
      <4> QED BY <4>2, <4>3, FS_Subset
    <3>2. PICK k : Sources(o.coclass) = {k}
      BY <3>1, FS_Singleton
    <3>3. o.coclass[k].iid # {}
      BY <3>2 DEF Legible, Sources
    <3>4. CoclassDefaultSource(o.coclass) = o.coclass[k].iid
      <4>1. {i \in Sources(o.coclass) : Sources(o.coclass) = {i}} = {k}
        BY <3>2
      <4> QED BY <1>2, <4>1 DEF CoclassDefaultSource
    <3> QED BY <1>5, <3>3, <3>4
  <2> QED BY <1>3, <2>5, <2>6
<1> QED BY <1>4, <1>5

(* source_iid, advise (sink.rs): an object is subscribed to on the source  *)
(* it or its coclass names, else on the only one there is, else on none.   *)
THEOREM DefaultSourceAlways == Spec => []SourceIsTheDefault
<1>1. Underway => SourceIsTheDefault
  <2> SUFFICES ASSUME Underway, at = "advised" PROVE SourceIsTheDefault
    BY DEF SourceIsTheDefault
  <2>1. job \in EventSources /\ carried.on = Advise(job)
    BY DEF Underway
  <2>2. PICK o : o = job
    OBVIOUS
  <2>3. o \in EventSources /\ carried.on = Advise(o)
    BY <2>1, <2>2
  <2>4. Cardinality(Advise(o)) <= 1
    <3>1. Sole(SourceIid(o)) /\ Advise(o) \subseteq SourceIid(o)
      BY <2>3, SourceIsSole DEF Advise
    <3>2. Sole(Advise(o))
      BY <3>1 DEF Sole
    <3> QED BY <3>2, SoleIsOne
  <2>5. Sources(o.coclass) =
           {i \in DOMAIN o.coclass : \E f \in o.coclass[i].flags : "source" \in f}
    BY DEF Sources
  <2>6. Defaults(o.coclass) =
           {i \in Sources(o.coclass) : \E f \in o.coclass[i].flags : "default" \in f}
    BY DEF Defaults
  <2>7. Word(o) = IF o.guid # {} THEN o.guid
                  ELSE UNION {o.coclass[i].iid : i \in Defaults(o.coclass)}
    BY DEF Word
  <2>8. ASSUME NEW iid \in Advise(o)
        PROVE  /\ iid \notin Unimplementable
               /\ iid \in DOMAIN o.kinds => o.kinds[iid] = "dispinterface"
               /\ o.container /\ iid \in o.offers
               /\ o.apartment \in {"STA", "MAINSTA"}
               /\ Legible(o) =>
                     \/ iid \in Word(o)
                     \/ /\ Word(o) = {}
                        /\ \E i \in Sources(o.coclass) :
                              Sources(o.coclass) = {i} /\ iid \in o.coclass[i].iid
                     \/ /\ Word(o) = {} /\ Cardinality(Sources(o.coclass)) # 1
                        /\ o.offers = {iid}
    <3>1. iid \in SourceIid(o)
      BY <2>3, <2>8, Advisable
    <3>2. Legible(o) /\ iid \notin Word(o) =>
             /\ Word(o) = {}
             /\ \/ \E i \in Sources(o.coclass) :
                      Sources(o.coclass) = {i} /\ iid \in o.coclass[i].iid
                \/ Cardinality(Sources(o.coclass)) # 1 /\ o.offers = {iid}
      BY <2>3, <3>1, WordlessChoice
    <3> QED BY <2>3, <2>8, <3>2, Advisable
  <2>9. ASSUME Advise(o) = {}
        PROVE  ~ \E iid \in Word(o) :
                    /\ iid \in o.offers \ Unimplementable /\ o.container
                    /\ o.apartment \in {"STA", "MAINSTA"}
                    /\ iid \in DOMAIN o.kinds => o.kinds[iid] = "dispinterface"
    <3> SUFFICES ASSUME NEW iid \in Word(o),
                        iid \in o.offers \ Unimplementable, o.container,
                        o.apartment \in {"STA", "MAINSTA"},
                        iid \in DOMAIN o.kinds => o.kinds[iid] = "dispinterface"
                 PROVE  FALSE
      OBVIOUS
    <3>1. iid \in Advise(o)
      BY <2>3, WordIsHeard, Advisable
    <3> QED BY <2>9, <3>1
  <2> QED BY <2>2, <2>3, <2>4, <2>5, <2>6, <2>7, <2>8, <2>9 DEF SourceIsTheDefault
<1> QED BY <1>1, Invariance, PTL

-----------------------------------------------------------------------------
(* The positions in a set of numbers, counted from below.                  *)

Upwards(f) == \A i, k \in DOMAIN f : i < k => f[i] < f[k]

(* An enumeration of a set from below gives its k-th member rank k. *)
LEMMA RankOfMember ==
    ASSUME NEW n \in Nat, NEW S \in SUBSET (1 .. n),
           NEW f \in [1 .. Cardinality(S) -> S], Upwards(f)
    PROVE  /\ \A x \in S : \E k \in 1 .. Cardinality(S) : f[k] = x
           /\ \A k \in 1 .. Cardinality(S) : Cardinality({y \in S : y <= f[k]}) = k
<1>1. IsFiniteSet(S) /\ Cardinality(S) \in Nat
  <2>1. IsFiniteSet(1 .. n)
    BY FS_Interval
  <2> QED BY <2>1, FS_Subset, FS_CardinalityType
<1>2. PICK c \in Nat : c = Cardinality(S)
  BY <1>1
<1>3. \A i \in 1 .. c : f[i] \in 1 .. n /\ f[i] \in S
  BY <1>2
<1>4. \A i, k \in 1 .. c : i < k => f[i] < f[k]
  BY <1>2 DEF Upwards
<1>5. \A i, k \in 1 .. c : f[i] = f[k] => i = k
  <2> SUFFICES ASSUME NEW i \in 1 .. c, NEW k \in 1 .. c, f[i] = f[k], i # k
               PROVE  FALSE
    OBVIOUS
  <2>1. i < k \/ k < i
    OBVIOUS
  <2> QED BY <1>3, <1>4, <2>1
<1>6. f \in Surjection(1 .. c, S)
  <2>1. f \in Injection(1 .. c, S)
    BY <1>2, <1>5, Fun_IsInj
  <2>2. IsFiniteSet(1 .. c) /\ Cardinality(1 .. c) = c
    BY FS_Interval
  <2> QED BY <1>1, <1>2, <2>1, <2>2, FS_Injection
<1>7. \A x \in S : \E k \in 1 .. c : f[k] = x
  BY <1>6 DEF Surjection
<1>8. ASSUME NEW k \in 1 .. c
      PROVE  Cardinality({y \in S : y <= f[k]}) = k
  <2>1. PICK T : T = {y \in S : y <= f[k]}
    OBVIOUS
  <2>2. PICK g : g = [i \in 1 .. k |-> f[i]]
    OBVIOUS
  <2>3. \A i \in 1 .. k : i \in 1 .. c /\ g[i] = f[i]
    BY <2>2
  <2>4. g \in [1 .. k -> T]
    <3> SUFFICES ASSUME NEW i \in 1 .. k PROVE f[i] \in T
      BY <2>2
    <3>1. f[i] \in S /\ f[i] <= f[k]
      <4>1. i = k \/ i < k
        OBVIOUS
      <4> QED BY <1>3, <1>4, <2>3, <4>1
    <3> QED BY <2>1, <3>1
  <2>5. \A i, j \in 1 .. k : g[i] = g[j] => i = j
    BY <1>5, <2>3
  <2>6. \A y \in T : \E i \in 1 .. k : g[i] = y
    <3> SUFFICES ASSUME NEW y \in S, y <= f[k] PROVE \E i \in 1 .. k : g[i] = y
      BY <2>1
    <3>1. PICK i \in 1 .. c : f[i] = y
      BY <1>7
    <3>2. i <= k
      <4> SUFFICES ASSUME k < i PROVE FALSE
        OBVIOUS
      <4>1. f[k] < f[i]
        BY <1>4
      <4> QED BY <1>3, <3>1, <4>1
    <3> QED BY <2>2, <3>1, <3>2
  <2>7. g \in Bijection(1 .. k, T)
    BY <2>4, <2>5, <2>6, Fun_IsBij
  <2>8. IsFiniteSet(1 .. k) /\ Cardinality(1 .. k) = k
    BY FS_Interval
  <2>9. Cardinality(T) = k
    <3>1. ExistsBijection(1 .. k, T)
      BY <2>7 DEF ExistsBijection
    <3> QED BY <2>8, <3>1, FS_Bijection
  <2> QED BY <2>1, <2>9
<1> QED BY <1>2, <1>7, <1>8

(* Every set of numbers up to n has such an enumeration: by its ranks. *)
LEMMA UpwardsExists ==
    ASSUME NEW n \in Nat, NEW S \in SUBSET (1 .. n)
    PROVE  \E f \in [1 .. Cardinality(S) -> S] : Upwards(f)
<1>1. IsFiniteSet(S) /\ Cardinality(S) \in Nat
  <2>1. IsFiniteSet(1 .. n)
    BY FS_Interval
  <2> QED BY <2>1, FS_Subset, FS_CardinalityType
<1>2. PICK c \in Nat : c = Cardinality(S)
  BY <1>1
<1>3. PICK B : B = [x \in S |-> {y \in S : y <= x}]
  OBVIOUS
<1>4. \A x \in S : B[x] = {y \in S : y <= x}
  BY <1>3
<1>5. \A x \in S : x \in 1 .. n
  OBVIOUS
<1>6. \A x \in S : IsFiniteSet(B[x]) /\ Cardinality(B[x]) \in 1 .. c
  <2> SUFFICES ASSUME NEW x \in S
               PROVE  IsFiniteSet(B[x]) /\ Cardinality(B[x]) \in 1 .. c
    OBVIOUS
  <2>1. B[x] \in SUBSET S
    BY <1>4
  <2>2. IsFiniteSet(B[x]) /\ Cardinality(B[x]) <= c
    BY <1>1, <1>2, <2>1, FS_Subset
  <2>3. Cardinality(B[x]) \in Nat
    BY <2>2, FS_CardinalityType
  <2>4. x \in B[x]
    BY <1>4, <1>5
  <2>5. Cardinality(B[x]) # 0
    BY <2>2, <2>4, FS_EmptySet
  <2> QED BY <2>2, <2>3, <2>5
<1>7. \A x, y \in S : x < y => Cardinality(B[x]) < Cardinality(B[y])
  <2> SUFFICES ASSUME NEW x \in S, NEW y \in S, x < y
               PROVE  Cardinality(B[x]) < Cardinality(B[y])
    OBVIOUS
  <2>a. x \in 1 .. n /\ y \in 1 .. n /\ y <= y /\ ~(y <= x)
    BY <1>5
  <2>b. \A z \in S : z <= x => z <= y
    BY <1>5, <2>a
  <2>1. B[x] \in SUBSET B[y] /\ y \in B[y] /\ y \notin B[x]
    BY <1>4, <2>a, <2>b
  <2>2. Cardinality(B[x]) <= Cardinality(B[y]) /\ Cardinality(B[x]) # Cardinality(B[y])
    BY <1>6, <2>1, FS_Subset
  <2> QED BY <1>6, <2>2
<1>8. PICK r : r = [x \in S |-> Cardinality(B[x])]
  OBVIOUS
<1>9. r \in [S -> 1 .. c]
  BY <1>6, <1>8
<1>10. \A x, y \in S : r[x] = r[y] => x = y
  <2> SUFFICES ASSUME NEW x \in S, NEW y \in S, r[x] = r[y], x # y
               PROVE  FALSE
    OBVIOUS
  <2>1. x < y \/ y < x
    BY <1>5
  <2>2. Cardinality(B[x]) = Cardinality(B[y])
    BY <1>8
  <2> QED BY <1>6, <1>7, <2>1, <2>2
<1>11. \A k \in 1 .. c : \E x \in S : r[x] = k
  <2>1. r \in Injection(S, 1 .. c)
    BY <1>9, <1>10, Fun_IsInj
  <2>2. IsFiniteSet(1 .. c) /\ Cardinality(1 .. c) = c
    BY FS_Interval
  <2>3. r \in Surjection(S, 1 .. c)
    BY <1>2, <2>1, <2>2, FS_Injection
  <2> QED BY <2>3, Fun_SurjectionProperties
<1>12. PICK f : f = [k \in 1 .. c |-> CHOOSE x \in S : r[x] = k]
  OBVIOUS
<1>13. \A k \in 1 .. c : f[k] \in S /\ r[f[k]] = k
  BY <1>11, <1>12
<1>14. f \in [1 .. c -> S]
  BY <1>12, <1>13
<1>15. \A i, k \in 1 .. c : i < k => f[i] < f[k]
  <2> SUFFICES ASSUME NEW i \in 1 .. c, NEW k \in 1 .. c, i < k, ~(f[i] < f[k])
               PROVE  FALSE
    OBVIOUS
  <2>1. f[i] \in S /\ f[k] \in S /\ r[f[i]] = i /\ r[f[k]] = k
    BY <1>13
  <2>a. f[i] \in 1 .. n /\ f[k] \in 1 .. n
    BY <1>5, <2>1
  <2>2. f[i] = f[k] \/ f[k] < f[i]
    BY <2>a
  <2>3. f[k] < f[i]
    BY <2>1, <2>2
  <2>4. r[f[k]] < r[f[i]]
    BY <1>7, <1>8, <2>1, <2>3
  <2> QED BY <2>1, <2>4
<1> QED BY <1>2, <1>14, <1>15 DEF Upwards

-----------------------------------------------------------------------------
(* The order of a callback's arguments.                                    *)

Orderly(p) == NamedCount(p) = 0 \/ Positions(p)

FreeSlots(p) ==
    {s \in 1 .. Len(p.rgvarg) : ~\E i \in 1 .. NamedCount(p) : p.ids[i] = s - 1}

LEMMA CallbackTypes ==
    ASSUME NEW p \in Callbacks
    PROVE  /\ Len(p.rgvarg) \in Nat /\ DOMAIN p.rgvarg = 1 .. Len(p.rgvarg)
           /\ NamedCount(p) \in 0 .. Len(p.rgvarg)
           /\ p.rgvarg \in Seq(Cells(p.rgvarg))
           /\ p.ids # NoIds => \A i \in 1 .. NamedCount(p) : p.ids[i] \in Int
<1>1. /\ p.rgvarg \in Seq(Cells(p.rgvarg)) /\ p.named \in Nat
      /\ p.ids # NoIds => p.ids \in Seq(Int) /\ Len(p.ids) = p.named
  BY CallbacksAssumption
<1>2. Len(p.rgvarg) \in Nat /\ DOMAIN p.rgvarg = 1 .. Len(p.rgvarg)
  BY <1>1
<1>3. NamedCount(p) \in 0 .. Len(p.rgvarg) /\ NamedCount(p) <= p.named
  BY <1>1, <1>2 DEF NamedCount
<1>4. ASSUME p.ids # NoIds, NEW i \in 1 .. NamedCount(p)
      PROVE  p.ids[i] \in Int
  <2>1. p.ids \in Seq(Int) /\ i \in 1 .. Len(p.ids)
    BY <1>1, <1>3, <1>4
  <2> QED BY <2>1
<1> QED BY <1>1, <1>2, <1>3, <1>4

(* Each id of an orderly callback is a slot of its own. *)
LEMMA IdsAreSlots ==
    ASSUME NEW p \in Callbacks, Orderly(p)
    PROVE  /\ \A i \in 1 .. NamedCount(p) :
                 p.ids[i] \in Int /\ p.ids[i] + 1 \in 1 .. Len(p.rgvarg)
           /\ \A i, k \in 1 .. NamedCount(p) : p.ids[i] = p.ids[k] => i = k
<1>1. PICK n : n = NamedCount(p)
  OBVIOUS
<1>2. n \in Nat /\ Len(p.rgvarg) \in Nat
  BY <1>1, CallbackTypes
<1>3. CASE n = 0
  BY <1>1, <1>3
<1>4. CASE n # 0
  <2>1. Positions(p)
    BY <1>1, <1>4 DEF Orderly
  <2>2. \A i \in 1 .. n : p.ids[i] \in 0 .. Len(p.rgvarg) - 1
    BY <1>1, <2>1 DEF Positions
  <2>3. \A i \in 1 .. n : \A k \in 1 .. i - 1 : p.ids[k] # p.ids[i]
    BY <1>1, <2>1 DEF Positions
  <2>4. ASSUME NEW i \in 1 .. n, NEW k \in 1 .. n, p.ids[i] = p.ids[k], i # k
        PROVE  FALSE
    <3>a. i \in Int /\ k \in Int /\ 1 <= i /\ 1 <= k
      BY <1>2
    <3>1. i \in 1 .. k - 1 \/ k \in 1 .. i - 1
      BY <2>4, <3>a
    <3> QED BY <2>3, <2>4, <3>1
  <2> QED BY <1>1, <1>2, <2>2, <2>4
<1> QED BY <1>3, <1>4

LEMMA TailBackwards ==
    ASSUME NEW p \in Callbacks,
           NEW k \in 1 .. Len(p.rgvarg) - NamedCount(p)
    PROVE  PositionalTail(p)[k] = p.rgvarg[Len(p.rgvarg) - k + 1]
<1>1. PICK all : all = p.rgvarg
  OBVIOUS
<1>2. PICK n : n = NamedCount(p)
  OBVIOUS
<1>3. all \in Seq(Cells(all)) /\ Len(all) \in Nat /\ n \in 0 .. Len(all)
  BY <1>1, <1>2, CallbackTypes
<1>4. PICK m \in Nat : m = Len(all)
  BY <1>3
<1>5. PICK t : t = SubSeq(all, n + 1, m)
  OBVIOUS
<1>6. /\ t \in Seq(Cells(all)) /\ Len(t) = m - n
      /\ \A i \in 1 .. m - n : t[i] = all[n + i]
  <2>1. \A i \in (n + 1) .. m : all[i] \in Cells(all)
    BY <1>3, <1>4
  <2>2. n + 1 \in Int /\ m \in Int
    BY <1>3, <1>4
  <2>3. /\ SubSeq(all, n + 1, m) \in Seq(Cells(all))
        /\ Len(SubSeq(all, n + 1, m)) = IF n + 1 <= m THEN m - (n + 1) + 1 ELSE 0
        /\ \A i \in 1 .. m - (n + 1) + 1 : SubSeq(all, n + 1, m)[i] = all[(n + 1) + i - 1]
    BY <2>1, <2>2, SubSeqProperties
  <2>4. m - (n + 1) + 1 = m - n /\ (IF n + 1 <= m THEN m - n ELSE 0) = m - n
    BY <1>3, <1>4
  <2>5. \A i \in 1 .. m - n : (n + 1) + i - 1 = n + i
    BY <1>3, <1>4
  <2> QED BY <1>5, <2>3, <2>4, <2>5
<1>7. Reverse(t)[k] = t[(m - n) - k + 1]
  BY <1>1, <1>2, <1>3, <1>4, <1>6 DEF Reverse
<1>8. t[(m - n) - k + 1] = all[m - k + 1]
  <2>1. (m - n) - k + 1 \in 1 .. m - n /\ n + ((m - n) - k + 1) = m - k + 1
    BY <1>1, <1>2, <1>3, <1>4
  <2> QED BY <1>6, <2>1
<1> QED BY <1>1, <1>2, <1>4, <1>5, <1>7, <1>8 DEF PositionalTail

(* Where the named arguments and the others are put. *)
LEMMA Placement ==
    ASSUME NEW p \in Callbacks, Orderly(p)
    PROVE  /\ DOMAIN OrderedArgs(p) = 1 .. Len(p.rgvarg)
           /\ \A i \in 1 .. NamedCount(p) : OrderedArgs(p)[p.ids[i] + 1] = p.rgvarg[i]
           /\ \A s \in FreeSlots(p) :
                 OrderedArgs(p)[s] =
                     PositionalTail(p)[Cardinality({y \in FreeSlots(p) : y <= s})]
<1>1. PICK n : n = NamedCount(p)
  OBVIOUS
<1>2. PICK m : m = Len(p.rgvarg)
  OBVIOUS
<1>3. n \in Nat /\ m \in Nat /\ DOMAIN p.rgvarg = 1 .. m
  BY <1>1, <1>2, CallbackTypes
<1> DEFINE Named(slot) == {i \in 1 .. n : p.ids[i] = slot - 1}
           Rank(slot) == Cardinality({s \in 1 .. slot : Named(s) = {}})
<1>4. OrderedArgs(p) =
        [slot \in 1 .. m |->
            IF Named(slot) = {} THEN PositionalTail(p)[Rank(slot)]
            ELSE p.rgvarg[CHOOSE i \in Named(slot) : TRUE]]
  BY <1>1, <1>2, <1>3 DEF OrderedArgs, Orderly
<1>5. /\ \A i \in 1 .. n : p.ids[i] \in Int /\ p.ids[i] + 1 \in 1 .. m
      /\ \A i, k \in 1 .. n : p.ids[i] = p.ids[k] => i = k
  BY <1>1, <1>2, IdsAreSlots
<1>6. ASSUME NEW i \in 1 .. n
      PROVE  OrderedArgs(p)[p.ids[i] + 1] = p.rgvarg[i]
  <2>1. (p.ids[i] + 1) - 1 = p.ids[i]
    BY <1>5
  <2>2. Named(p.ids[i] + 1) = {i}
    BY <1>5, <2>1
  <2>3. (CHOOSE k \in Named(p.ids[i] + 1) : TRUE) = i
    BY <2>2
  <2>4. Named(p.ids[i] + 1) # {}
    BY <2>2
  <2> HIDE DEF Named, Rank
  <2> QED BY <1>4, <1>5, <2>3, <2>4
<1>7. ASSUME NEW s \in FreeSlots(p)
      PROVE  OrderedArgs(p)[s] =
                 PositionalTail(p)[Cardinality({y \in FreeSlots(p) : y <= s})]
  <2>1. s \in 1 .. m /\ Named(s) = {}
    BY <1>1, <1>2 DEF FreeSlots
  <2>2. {y \in 1 .. s : Named(y) = {}} = {y \in FreeSlots(p) : y <= s}
    <3>1. \A y \in 1 .. m : (Named(y) = {}) <=> y \in FreeSlots(p)
      BY <1>1, <1>2 DEF FreeSlots
    <3>2. \A y \in FreeSlots(p) : y \in 1 .. m
      BY <1>2 DEF FreeSlots
    <3>3. \A y : y \in 1 .. s <=> y \in 1 .. m /\ y <= s
      BY <1>3, <2>1
    <3> HIDE DEF Named
    <3> QED BY <3>1, <3>2, <3>3
  <2>3. Rank(s) = Cardinality({y \in FreeSlots(p) : y <= s})
    BY <2>2
  <2> HIDE DEF Named, Rank
  <2> QED BY <1>4, <2>1, <2>3
<1>8. DOMAIN OrderedArgs(p) = 1 .. m
  <2> HIDE DEF Named, Rank
  <2> QED BY <1>4
<1> QED BY <1>1, <1>2, <1>6, <1>7, <1>8

(* What is not named is free. *)
LEMMA FreeCount ==
    ASSUME NEW p \in Callbacks, Orderly(p)
    PROVE  /\ FreeSlots(p) \in SUBSET (1 .. Len(p.rgvarg))
           /\ Cardinality(FreeSlots(p)) = Len(p.rgvarg) - NamedCount(p)
<1>1. PICK n : n = NamedCount(p)
  OBVIOUS
<1>2. PICK m : m = Len(p.rgvarg)
  OBVIOUS
<1>3. n \in Nat /\ m \in Nat
  BY <1>1, <1>2, CallbackTypes
<1>4. /\ \A i \in 1 .. n : p.ids[i] \in Int /\ p.ids[i] + 1 \in 1 .. m
      /\ \A i, k \in 1 .. n : p.ids[i] = p.ids[k] => i = k
  BY <1>1, <1>2, IdsAreSlots
<1>5. PICK T : T = {p.ids[i] + 1 : i \in 1 .. n}
  OBVIOUS
<1>6. PICK g : g = [i \in 1 .. n |-> p.ids[i] + 1]
  OBVIOUS
<1>7. g \in Bijection(1 .. n, T)
  <2>1. g \in [1 .. n -> T]
    BY <1>5, <1>6
  <2>2. \A i, k \in 1 .. n : g[i] = g[k] => i = k
    BY <1>4, <1>6
  <2>3. \A t \in T : \E i \in 1 .. n : g[i] = t
    BY <1>5, <1>6
  <2> QED BY <2>1, <2>2, <2>3, Fun_IsBij
<1>8. IsFiniteSet(T) /\ Cardinality(T) = n
  <2>1. IsFiniteSet(1 .. n) /\ Cardinality(1 .. n) = n
    BY <1>3, FS_Interval
  <2>2. ExistsBijection(1 .. n, T)
    BY <1>7 DEF ExistsBijection
  <2> QED BY <2>1, <2>2, FS_Bijection
<1>9. PICK F : F = FreeSlots(p)
  OBVIOUS
<1>10. F \cup T = 1 .. m /\ F \cap T = {}
  <2>1. \A s \in 1 .. m : (s \in T) <=> \E i \in 1 .. n : p.ids[i] = s - 1
    BY <1>4, <1>5
  <2>2. \A s : s \in F <=> s \in 1 .. m /\ ~\E i \in 1 .. n : p.ids[i] = s - 1
    BY <1>1, <1>2, <1>9 DEF FreeSlots
  <2>3. T \subseteq 1 .. m
    BY <1>4, <1>5
  <2> QED BY <2>1, <2>2, <2>3
<1>11. IsFiniteSet(1 .. m) /\ Cardinality(1 .. m) = m
  BY <1>3, FS_Interval
<1>12. F \in SUBSET (1 .. m)
  BY <1>10
<1>13. IsFiniteSet(F) /\ Cardinality(F) \in Nat
  BY <1>11, <1>12, FS_Subset, FS_CardinalityType
<1>14. Cardinality(F \cap T) = 0
  BY <1>10, FS_EmptySet
<1>15. Cardinality(F \cup T) = Cardinality(F) + Cardinality(T) - Cardinality(F \cap T)
  BY <1>8, <1>13, FS_Union
<1>16. m = Cardinality(F) + n - 0
  BY <1>8, <1>10, <1>11, <1>14, <1>15
<1> QED BY <1>1, <1>2, <1>3, <1>9, <1>12, <1>13, <1>16

(* Sending on what was delivered gives back the DISPPARAMS. *)
LEMMA OrderIsUndone ==
    ASSUME NEW p \in Callbacks, Orderly(p),
           NEW f \in [1 .. Cardinality(FreeSlots(p)) -> FreeSlots(p)], Upwards(f)
    PROVE  [i \in 1 .. NamedCount(p) |-> OrderedArgs(p)[p.ids[i] + 1]]
               \o Reverse([k \in DOMAIN f |-> OrderedArgs(p)[f[k]]]) = p.rgvarg
<1>1. PICK n : n = NamedCount(p)
  OBVIOUS
<1>2. PICK m : m = Len(p.rgvarg)
  OBVIOUS
<1>3. /\ n \in Nat /\ m \in Nat /\ n <= m
      /\ p.rgvarg \in Seq(Cells(p.rgvarg)) /\ DOMAIN p.rgvarg = 1 .. m
  BY <1>1, <1>2, CallbackTypes
<1>4. FreeSlots(p) \in SUBSET (1 .. m) /\ Cardinality(FreeSlots(p)) = m - n
  BY <1>1, <1>2, FreeCount
<1>5. PICK c \in Nat : c = m - n
  BY <1>3
<1>6. /\ DOMAIN f = 1 .. c
      /\ \A k \in 1 .. c :
            /\ f[k] \in FreeSlots(p)
            /\ Cardinality({y \in FreeSlots(p) : y <= f[k]}) = k
  <2>1. \A k \in 1 .. Cardinality(FreeSlots(p)) :
           Cardinality({y \in FreeSlots(p) : y <= f[k]}) = k
    BY <1>3, <1>4, RankOfMember
  <2>2. Cardinality(FreeSlots(p)) = c
    BY <1>4, <1>5
  <2>3. DOMAIN f = 1 .. c /\ \A k \in 1 .. c : f[k] \in FreeSlots(p)
    BY <2>2
  <2> QED BY <2>1, <2>2, <2>3
<1>7. \A k \in 1 .. c : OrderedArgs(p)[f[k]] = p.rgvarg[m - k + 1]
  <2> SUFFICES ASSUME NEW k \in 1 .. c
               PROVE  OrderedArgs(p)[f[k]] = p.rgvarg[m - k + 1]
    OBVIOUS
  <2>1. f[k] \in FreeSlots(p) /\ Cardinality({y \in FreeSlots(p) : y <= f[k]}) = k
    BY <1>6
  <2>2. OrderedArgs(p)[f[k]] = PositionalTail(p)[k]
    BY <2>1, Placement
  <2>3. k \in 1 .. Len(p.rgvarg) - NamedCount(p)
    BY <1>1, <1>2, <1>5
  <2>4. PositionalTail(p)[k] = p.rgvarg[Len(p.rgvarg) - k + 1]
    BY <2>3, TailBackwards
  <2> QED BY <1>2, <2>2, <2>4
<1>8. \A i \in 1 .. n : OrderedArgs(p)[p.ids[i] + 1] = p.rgvarg[i]
  BY <1>1, Placement
<1>9. PICK front : front = [i \in 1 .. n |-> OrderedArgs(p)[p.ids[i] + 1]]
  OBVIOUS
<1>10. PICK given : given = [k \in DOMAIN f |-> OrderedArgs(p)[f[k]]]
  OBVIOUS
<1>11. PICK back : back = Reverse(given)
  OBVIOUS
<1>12. front \in Seq(Cells(p.rgvarg)) /\ Len(front) = n
  <2>1. \A i \in 1 .. n : front[i] = p.rgvarg[i] /\ p.rgvarg[i] \in Cells(p.rgvarg)
    BY <1>3, <1>8, <1>9
  <2> QED BY <1>3, <1>9, <2>1
<1>13. /\ given \in Seq(Cells(p.rgvarg)) /\ Len(given) = c
       /\ \A k \in 1 .. c : given[k] = p.rgvarg[m - k + 1]
  <2>1. \A k \in 1 .. c : given[k] = p.rgvarg[m - k + 1]
    BY <1>6, <1>7, <1>10
  <2>2. \A k \in 1 .. c : p.rgvarg[m - k + 1] \in Cells(p.rgvarg)
    BY <1>3, <1>5
  <2> QED BY <1>5, <1>6, <1>10, <2>1, <2>2
<1>14. /\ back \in Seq(Cells(p.rgvarg)) /\ Len(back) = c
       /\ \A k \in 1 .. c : back[k] = p.rgvarg[n + k]
  <2>1. back = [i \in 1 .. c |-> given[(c - i) + 1]]
    BY <1>11, <1>13 DEF Reverse
  <2>2. \A k \in 1 .. c : (c - k) + 1 \in 1 .. c /\ m - ((c - k) + 1) + 1 = n + k
    BY <1>3, <1>5
  <2>3. \A k \in 1 .. c : back[k] = p.rgvarg[n + k]
    BY <1>13, <2>1, <2>2
  <2>4. \A k \in 1 .. c : p.rgvarg[n + k] \in Cells(p.rgvarg)
    BY <1>3, <1>5
  <2> QED BY <2>1, <2>3, <2>4
<1>15. front \o back = p.rgvarg
  <2>a. /\ front \o back \in Seq(Cells(p.rgvarg))
        /\ Len(front \o back) = Len(front) + Len(back)
    BY <1>12, <1>14, ConcatProperties
  <2>b. n + c = m
    BY <1>3, <1>5
  <2>1. front \o back \in Seq(Cells(p.rgvarg)) /\ Len(front \o back) = m
    BY <1>12, <1>14, <2>a, <2>b
  <2>2. \A i \in 1 .. m : (front \o back)[i] = p.rgvarg[i]
    <3> SUFFICES ASSUME NEW i \in 1 .. m PROVE (front \o back)[i] = p.rgvarg[i]
      OBVIOUS
    <3>1. CASE i <= n
      <4>1. (front \o back)[i] = front[i] /\ i \in 1 .. n
        BY <1>3, <1>12, <1>14, <3>1
      <4> QED BY <1>8, <1>9, <4>1
    <3>2. CASE i > n
      <4>1. i - n \in 1 .. c /\ n + (i - n) = i
        BY <1>3, <1>5, <3>2
      <4>2. (front \o back)[i] = back[i - n]
        BY <1>3, <1>5, <1>12, <1>14, <3>2
      <4> QED BY <1>14, <4>1, <4>2
    <3>3. i <= n \/ i > n
      BY <1>3
    <3> QED BY <3>1, <3>2, <3>3
  <2> QED BY <1>2, <1>3, <2>1, <2>2, SeqEqual
<1> QED BY <1>1, <1>9, <1>10, <1>11, <1>15

(* Orderly is what the property says of DISPPARAMS. *)
LEMMA OrderlyMeans ==
    ASSUME NEW p \in Callbacks
    PROVE  Orderly(p) <=>
              \/ NamedCount(p) = 0
              \/ /\ p.ids # NoIds
                 /\ Cardinality({p.ids[i] : i \in 1 .. NamedCount(p)}) = NamedCount(p)
                 /\ \A i \in 1 .. NamedCount(p) : p.ids[i] \in 0 .. Len(p.rgvarg) - 1
<1>1. PICK n : n = NamedCount(p)
  OBVIOUS
<1>2. n \in Nat /\ Len(p.rgvarg) \in Nat
  BY <1>1, CallbackTypes
<1>3. PICK T : T = {p.ids[i] : i \in 1 .. n}
  OBVIOUS
<1>4. PICK g : g = [i \in 1 .. n |-> p.ids[i]]
  OBVIOUS
<1>5. g \in Surjection(1 .. n, T)
  <2>1. g \in [1 .. n -> T]
    BY <1>3, <1>4
  <2>2. \A t \in T : \E i \in 1 .. n : g[i] = t
    BY <1>3, <1>4
  <2> QED BY <2>1, <2>2, Fun_IsSurj
<1>6. IsFiniteSet(1 .. n) /\ Cardinality(1 .. n) = n
  BY <1>2, FS_Interval
<1>7. Cardinality(T) = n <=> \A i, k \in 1 .. n : p.ids[i] = p.ids[k] => i = k
  <2>1. Cardinality(T) = n <=> g \in Injection(1 .. n, T)
    BY <1>5, <1>6, FS_Surjection
  <2>2. g \in Injection(1 .. n, T) <=> \A i, k \in 1 .. n : g[i] = g[k] => i = k
    <3>1. g \in [1 .. n -> T]
      BY <1>3, <1>4
    <3>2. ASSUME g \in Injection(1 .. n, T)
          PROVE  \A i, k \in 1 .. n : g[i] = g[k] => i = k
      BY <3>2, Fun_InjectionProperties
    <3> QED BY <3>1, <3>2, Fun_IsInj
  <2> QED BY <1>4, <2>1, <2>2
<1>8. ASSUME n # 0, Orderly(p)
      PROVE  /\ p.ids # NoIds /\ Cardinality(T) = n
             /\ \A i \in 1 .. n : p.ids[i] \in 0 .. Len(p.rgvarg) - 1
  <2>1. Positions(p)
    BY <1>1, <1>8 DEF Orderly
  <2>2. \A i, k \in 1 .. n : p.ids[i] = p.ids[k] => i = k
    BY <1>1, <1>8, IdsAreSlots
  <2> QED BY <1>1, <1>7, <2>1, <2>2 DEF Positions
<1>9. ASSUME p.ids # NoIds, Cardinality(T) = n,
             \A i \in 1 .. n : p.ids[i] \in 0 .. Len(p.rgvarg) - 1
      PROVE  Orderly(p)
  <2>1. ASSUME NEW i \in 1 .. n, NEW k \in 1 .. i - 1
        PROVE  p.ids[k] # p.ids[i]
    <3>1. k \in 1 .. n /\ k # i
      BY <1>2
    <3> QED BY <1>7, <1>9, <3>1
  <2> QED BY <1>1, <1>9, <2>1 DEF Orderly, Positions
<1> QED BY <1>1, <1>3, <1>8, <1>9 DEF Orderly

LEMMA CarriedInOrder ==
    ASSUME at = "queued", job \in Callbacks, carried = OrderedArgs(job)
    PROVE  EventArgsInOrder
<1> DEFINE n == NamedCount(job)
           free == {s \in DOMAIN carried : ~\E i \in 1 .. n : job.ids[i] = s - 1}
           order == CHOOSE f \in [1 .. Cardinality(free) -> free] :
                       \A i, k \in DOMAIN f : i < k => f[i] < f[k]
           named == [i \in 1 .. n |-> carried[job.ids[i] + 1]]
           given == [i \in DOMAIN order |-> carried[order[i]]]
<1>1. ASSUME Orderly(job) PROVE named \o Reverse(given) = job.rgvarg
  <2>1. free = FreeSlots(job)
    BY <1>1, Placement DEF FreeSlots
  <2>2. \E f \in [1 .. Cardinality(free) -> free] : Upwards(f)
    <3> HIDE DEF free
    <3> QED BY <1>1, <2>1, FreeCount, CallbackTypes, UpwardsExists
  <2>3. order \in [1 .. Cardinality(free) -> free] /\ Upwards(order)
    <3> HIDE DEF free
    <3> QED BY <2>2 DEF Upwards
  <2> HIDE DEF free, order
  <2> QED BY <1>1, <2>1, <2>3, OrderIsUndone
<1>2. ASSUME ~Orderly(job) PROVE carried = job.rgvarg
  <2>1. NamedCount(job) \in Nat
    BY CallbackTypes
  <2>2. NamedCount(job) > 0 /\ ~Positions(job)
    BY <1>2, <2>1 DEF Orderly
  <2> QED BY <2>2 DEF OrderedArgs
<1>3. Params(0, "", given, job.ids, named)[2].rgvarg = named \o Reverse(given)
  <2> HIDE DEF given, named
  <2> QED BY DEF Params, Call
<1>4. Orderly(job) <=> \/ n = 0
                       \/ /\ job.ids # NoIds
                          /\ Cardinality({job.ids[i] : i \in 1 .. n}) = n
                          /\ \A i \in 1 .. n : job.ids[i] \in 0 .. Len(job.rgvarg) - 1
  BY OrderlyMeans
<1> QED
  BY <1>1, <1>2, <1>3, <1>4 DEF EventArgsInOrder

(* ordered_args (sink.rs): a callback's arguments are delivered in the     *)
(* order in which a call would take them, whatever the order of the ids.   *)
THEOREM OrderedAlways == Spec => []EventArgsInOrder
<1>1. Underway => EventArgsInOrder
  <2>1. CASE at = "queued"
    BY <2>1, CarriedInOrder DEF Underway
  <2>2. CASE at # "queued"
    BY <2>2 DEF EventArgsInOrder
  <2> QED BY <2>1, <2>2
<1> QED BY <1>1, Invariance, PTL

-----------------------------------------------------------------------------
(* The calendar of value.rs: years from March on, days counted in eras of 400 *)
(* years, against the calendar of the properties.                          *)

(* Division rounds towards minus infinity. *)
LEMMA Divided ==
    ASSUME NEW a \in Int,
           NEW b \in {2, 4, 5, 60, 100, 153, 365, 400, 1460, 3600, 36524, 86400, 146096, 146097}
    PROVE  /\ a \div b \in Int
           /\ b * (a \div b) <= a
           /\ a < b * (a \div b) + b
           /\ a % b = a - b * (a \div b)
BY SMTT(60)

LEMMA EraIsFloor ==
    ASSUME NEW z \in Int
    PROVE  Era(z) = z \div 146097
BY SMTT(60) DEF Era, Quotient

LEMMA EraOfYearIsFloor ==
    ASSUME NEW y \in Int
    PROVE  EraOfYear(y) = y \div 400
BY SMTT(60) DEF EraOfYear, Quotient

LEMMA YearInEra ==
    ASSUME NEW era \in Int, NEW yoe \in 0 .. 399, NEW y \in Int, y = 400 * era + yoe
    PROVE  /\ y \div 4 = 100 * era + yoe \div 4
           /\ y \div 100 = 4 * era + yoe \div 100
           /\ y \div 400 = era
BY SMTT(60)

(* The days before the first of March of year 1, and those of the years    *)
(* since, which end with February. *)
MarchDays(y) == 365 * y + y \div 4 - y \div 100 + y \div 400

LEMMA LeapStep ==
    ASSUME NEW y \in Int
    PROVE  /\ MarchDays(y) \in Int
           /\ MarchDays(y) = MarchDays(y - 1) + 365 + (IF Leap(y) THEN 1 ELSE 0)
BY SMTT(60) DEF MarchDays, Leap

(* The year and the month counted from March. *)
MarchYear(y, m) == IF m <= 2 THEN y - 1 ELSE y
MarchMonth(m) == IF m > 2 THEN m - 3 ELSE m + 9

LEMMA MarchBased ==
    ASSUME NEW y \in Int, NEW m \in 1 .. 12, NEW d \in Int
    PROVE  DayNumber(y, m, d) =
              MarchDays(MarchYear(y, m)) + (153 * MarchMonth(m) + 2) \div 5 + d - 306
<1> DEFINE A == MarchDays(y - 1)
           B == MarchDays(y)
<1>1. A \in Int /\ B \in Int /\ B = A + 365 + (IF Leap(y) THEN 1 ELSE 0)
  BY LeapStep, y - 1 \in Int
<1>2. DayNumber(y, m, d) = A + MonthStart[m] + (IF m > 2 /\ Leap(y) THEN 1 ELSE 0) + d
  BY DEF DayNumber, MarchDays
<1>3. MarchDays(MarchYear(y, m)) = IF m <= 2 THEN A ELSE B
  BY DEF MarchYear
<1>4. m \in {1,2,3,4,5,6,7,8,9,10,11,12}
  OBVIOUS
<1> HIDE DEF A, B
<1> QED BY <1>1, <1>2, <1>3, <1>4, SMTT(60) DEF MonthStart, MarchMonth

LEMMA ErasAreMarchDays ==
    ASSUME NEW y \in Int, NEW doy \in Int
    PROVE  DaysInEras(y, doy) = MarchDays(y) + doy - 719468
<1>1. PICK era \in Int : era = y \div 400
  BY Divided
<1>2. EraOfYear(y) = era
  BY <1>1, EraOfYearIsFloor
<1>3. PICK yoe \in Int : yoe = y - era * 400
  OBVIOUS
<1>4. yoe \in 0 .. 399 /\ y = 400 * era + yoe
  BY <1>1, <1>3, Divided
<1>5. MarchDays(y) = 365 * y + (100 * era + yoe \div 4) - (4 * era + yoe \div 100) + era
  <2>1. /\ y \div 4 = 100 * era + yoe \div 4
        /\ y \div 100 = 4 * era + yoe \div 100
        /\ y \div 400 = era
    BY <1>4, YearInEra
  <2>2. MarchDays(y) = 365 * y + y \div 4 - y \div 100 + y \div 400
    BY Zenon DEF MarchDays
  <2> QED BY ONLY <2>1, <2>2
<1>6. PICK f \in Int, h \in Int : f = yoe \div 4 /\ h = yoe \div 100
  BY <1>3, Divided
<1>7. DaysInEras(y, doy) = era * 146097 + (yoe * 365 + f - h + doy) - 719468
  BY <1>2, <1>3, <1>6 DEF DaysInEras
<1> QED BY <1>4, <1>5, <1>6, <1>7

(* days_from_civil numbers the days as the calendar does.                  *)
LEMMA DaysAreNumbered ==
    ASSUME NEW y \in Int, NEW m \in 1 .. 12, NEW d \in Int
    PROVE  DaysFromCivil(y, m, d) = DayNumber(y, m, d) - 719163
<1>1. PICK Y \in Int : Y = MarchYear(y, m)
  BY DEF MarchYear
<1>2. PICK mp \in Int : mp = MarchMonth(m)
  BY DEF MarchMonth
<1>3. PICK doy \in Int : doy = (153 * mp + 2) \div 5 + d - 1
  BY Divided
<1>4. DaysFromCivil(y, m, d) = DaysInEras(Y, doy)
  BY <1>1, <1>2, <1>3 DEF DaysFromCivil, MarchYear, MarchMonth
<1>5. DayNumber(y, m, d) = MarchDays(Y) + (153 * mp + 2) \div 5 + d - 306
  <2>1. DayNumber(y, m, d) =
           MarchDays(MarchYear(y, m)) + (153 * MarchMonth(m) + 2) \div 5 + d - 306
    BY MarchBased
  <2> QED BY <1>1, <1>2, <2>1, Zenon
<1>6. MarchDays(Y) \in Int /\ (153 * mp + 2) \div 5 \in Int
  BY LeapStep, Divided
<1>7. DaysInEras(Y, doy) = MarchDays(Y) + doy - 719468
  BY ErasAreMarchDays
<1> QED BY <1>3, <1>4, <1>5, <1>6, <1>7

LEMMA MonthOfDay ==
    ASSUME NEW doy \in 0 .. 365, NEW mp \in Int, mp = (5 * doy + 2) \div 153
    PROVE  /\ mp \in 0 .. 11
           /\ (153 * mp + 2) \div 5 <= doy
           /\ doy <= IF mp = 11 THEN 365 ELSE (153 * (mp + 1) + 2) \div 5 - 1
<1>1. 153 * mp <= 5 * doy + 2 /\ 5 * doy + 2 < 153 * mp + 153
  BY Divided
<1>2. mp \in 0 .. 11
  BY <1>1
<1>3. mp \in {0, 1, 2, 3, 4, 5, 6, 7, 8, 9, 10, 11}
  BY <1>2
<1> QED BY <1>1, <1>3, SMTT(60)

(* CivilInYear finds a day of the calendar, the right one.                 *)
FindsDay(y, doy) ==
    \E c \in Int, m \in 1 .. 12, d \in Int :
       /\ CivilInYear(y, doy) = <<c, m, d>>
       /\ IsDay(c, m, d)
       /\ DayNumber(c, m, d) = MarchDays(y) + doy - 305

LEMMA CivilInYearIsDay ==
    ASSUME NEW y \in Int, NEW doy \in 0 .. 365, doy = 365 => Leap(y + 1)
    PROVE  FindsDay(y, doy)
<1>1. PICK mp \in Int : mp = (5 * doy + 2) \div 153
  BY Divided
<1>2. PICK m \in Int : m = IF mp < 10 THEN mp + 3 ELSE mp - 9
  OBVIOUS
<1>3. PICK c \in Int : c = IF m <= 2 THEN y + 1 ELSE y
  OBVIOUS
<1>4. PICK d \in Int : d = doy - (153 * mp + 2) \div 5 + 1
  BY Divided
<1>5. CivilInYear(y, doy) = <<c, m, d>>
  BY <1>1, <1>2, <1>3, <1>4 DEF CivilInYear
<1>6. /\ mp \in {0, 1, 2, 3, 4, 5, 6, 7, 8, 9, 10, 11}
      /\ (153 * mp + 2) \div 5 <= doy
      /\ doy <= IF mp = 11 THEN 365 ELSE (153 * (mp + 1) + 2) \div 5 - 1
  BY <1>1, MonthOfDay
<1>7. m \in 1 .. 12 /\ mp = MarchMonth(m) /\ y = MarchYear(c, m)
  BY <1>2, <1>3, <1>6 DEF MarchMonth, MarchYear
<1>8. mp = 11 /\ d = 29 => Leap(c)
  BY <1>2, <1>3, <1>4, <1>6
<1>9. IsDay(c, m, d)
  BY <1>2, <1>4, <1>6, <1>7, <1>8, SMTT(60) DEF IsDay, MonthStart, MarchMonth
<1>10. DayNumber(c, m, d) = MarchDays(y) + doy - 305
  <2>1. DayNumber(c, m, d) = MarchDays(y) + (153 * mp + 2) \div 5 + d - 306
    <3>1. DayNumber(c, m, d) =
             MarchDays(MarchYear(c, m)) + (153 * MarchMonth(m) + 2) \div 5 + d - 306
      <4>1. m \in 1 .. 12
        BY <1>7
      <4> QED BY <4>1, MarchBased
    <3> QED BY <1>7, <3>1, Zenon
  <2>2. MarchDays(y) \in Int /\ (153 * mp + 2) \div 5 \in Int
    BY LeapStep, Divided
  <2> QED BY <2>1, <2>2, <1>4
<1> QED BY <1>5, <1>7, <1>9, <1>10 DEF FindsDay

LEMMA YearOfEra ==
    ASSUME NEW doe \in Int, 0 <= doe, doe <= 146096, NEW q \in Int, NEW c \in Int, NEW b \in Int,
           NEW yoe \in Int, NEW f \in Int, NEW h \in Int,
           1460 * q <= doe, doe < 1460 * q + 1460,
           36524 * c <= doe, doe < 36524 * c + 36524,
           146096 * b <= doe, doe < 146096 * b + 146096,
           365 * yoe <= doe - q + c - b, doe - q + c - b < 365 * yoe + 365,
           4 * f <= yoe, yoe < 4 * f + 4,
           100 * h <= yoe, yoe < 100 * h + 100
    PROVE  /\ 0 <= yoe /\ yoe <= 399
           /\ 0 <= doe - (365 * yoe + f - h) /\ doe - (365 * yoe + f - h) <= 365
           /\ doe - (365 * yoe + f - h) = 365 =>
                 yoe = 4 * f + 3 /\ (yoe # 100 * h + 99 \/ yoe = 399)
BY SMTT(120)

(* civil_from_days finds a day of the calendar, the right one. *)
LEMMA CivilIsDay ==
    ASSUME NEW n \in Int
    PROVE  \E y \in Int, m \in 1 .. 12, d \in Int :
              /\ CivilFromDays(n) = <<y, m, d>>
              /\ IsDay(y, m, d)
              /\ DayNumber(y, m, d) = n + 719163
<1>1. PICK z \in Int : z = n + 719468
  OBVIOUS
<1>2. PICK era \in Int : era = z \div 146097
  BY Divided
<1>3. PICK doe \in Int : doe = z - era * 146097
  OBVIOUS
<1>4. 0 <= doe /\ doe <= 146096
  <2>1. 146097 * era <= z /\ z < 146097 * era + 146097
    BY <1>2, Divided, SMT
  <2> QED BY <1>3, <2>1, SMT
<1>5. PICK q \in Int, c \in Int, b \in Int :
          q = doe \div 1460 /\ c = doe \div 36524 /\ b = doe \div 146096
  BY Divided
<1>6. PICK yoe \in Int : yoe = (doe - q + c - b) \div 365
  BY Divided
<1>7. PICK f \in Int, h \in Int : f = yoe \div 4 /\ h = yoe \div 100
  BY Divided
<1>8. PICK doy \in Int : doy = doe - (365 * yoe + f - h)
  OBVIOUS
<1>9. PICK y \in Int : y = yoe + era * 400
  OBVIOUS
<1>10. CivilFromDays(n) = CivilInYear(y, doy)
  <2>1. Era(z) = era
    BY <1>2, EraIsFloor
  <2> QED BY <1>1, <1>3, <1>5, <1>6, <1>7, <1>8, <1>9, <2>1 DEF CivilFromDays
<1>11. /\ yoe \in 0 .. 399 /\ doy \in 0 .. 365
       /\ doy = 365 => yoe = 4 * f + 3 /\ (yoe # 100 * h + 99 \/ yoe = 399)
  <2>1. /\ 1460 * q <= doe /\ doe < 1460 * q + 1460
        /\ 36524 * c <= doe /\ doe < 36524 * c + 36524
        /\ 146096 * b <= doe /\ doe < 146096 * b + 146096
    BY <1>5, Divided, SMT
  <2>2. 365 * yoe <= doe - q + c - b /\ doe - q + c - b < 365 * yoe + 365
    BY <1>6, Divided
  <2>3. /\ 4 * f <= yoe /\ yoe < 4 * f + 4
        /\ 100 * h <= yoe /\ yoe < 100 * h + 100
    BY <1>7, Divided
  <2>4. /\ 0 <= yoe /\ yoe <= 399
        /\ 0 <= doe - (365 * yoe + f - h) /\ doe - (365 * yoe + f - h) <= 365
        /\ doe - (365 * yoe + f - h) = 365 =>
                 yoe = 4 * f + 3 /\ (yoe # 100 * h + 99 \/ yoe = 399)
    BY <1>4, <2>1, <2>2, <2>3, YearOfEra, SMT
  <2> QED BY <1>8, <2>4, SMT
<1>12. doy = 365 => Leap(y + 1)
  <2> SUFFICES ASSUME doy = 365 PROVE Leap(y + 1)
    OBVIOUS
  <2>1. y + 1 = 4 * (100 * era + f + 1)
    BY <1>9, <1>11
  <2>2. yoe # 399 => (y + 1) % 100 # 0
    <3> SUFFICES ASSUME yoe # 399, (y + 1) % 100 = 0 PROVE FALSE
      OBVIOUS
    <3>1. PICK k \in Int : y + 1 = 100 * k
      BY Divided, y + 1 \in Int
    <3>2. 100 * h <= yoe /\ yoe < 100 * h + 100 /\ yoe # 100 * h + 99
      BY <1>7, <1>11, Divided
    <3> QED BY <1>9, <3>1, <3>2
  <2>3. yoe = 399 => (y + 1) % 400 = 0
    BY <1>9
  <2>4. (y + 1) % 4 = 0
    BY <2>1, <1>7
  <2> QED BY <2>2, <2>3, <2>4 DEF Leap
<1>13. n + 719163 = MarchDays(y) + doy - 305
  <2>1. /\ y \div 4 = 100 * era + yoe \div 4
        /\ y \div 100 = 4 * era + yoe \div 100
        /\ y \div 400 = era
    BY <1>9, <1>11, YearInEra
  <2>2. MarchDays(y) = 365 * y + y \div 4 - y \div 100 + y \div 400
    BY Zenon DEF MarchDays
  <2>3. MarchDays(y) = 365 * y + (100 * era + f) - (4 * era + h) + era
    BY ONLY <1>7, <2>1, <2>2
  <2> QED BY <1>1, <1>3, <1>8, <1>9, <2>3
<1>14. PICK c2 \in Int, m \in 1 .. 12, d \in Int :
           /\ CivilInYear(y, doy) = <<c2, m, d>>
           /\ IsDay(c2, m, d)
           /\ DayNumber(c2, m, d) = MarchDays(y) + doy - 305
  <2>1. doy \in 0 .. 365 /\ (doy = 365 => Leap(y + 1))
    BY <1>11, <1>12
  <2>2. FindsDay(y, doy)
    BY <2>1, CivilInYearIsDay
  <2> QED BY ONLY <2>2 DEF FindsDay
<1>15. CivilFromDays(n) = <<c2, m, d>> /\ DayNumber(c2, m, d) = n + 719163
  BY <1>10, <1>13, <1>14, SMT
<1> QED BY <1>14, <1>15, SMT

LEMMA MarchDaysAscend ==
    ASSUME NEW a \in Int, NEW b \in Int, a <= b
    PROVE  MarchDays(a) <= MarchDays(b)
<1>1. /\ 4 * (a \div 4) <= a /\ a < 4 * (a \div 4) + 4 /\ a \div 4 \in Int
      /\ 100 * (a \div 100) <= a /\ a < 100 * (a \div 100) + 100 /\ a \div 100 \in Int
      /\ 400 * (a \div 400) <= a /\ a < 400 * (a \div 400) + 400 /\ a \div 400 \in Int
  BY Divided
<1>2. /\ 4 * (b \div 4) <= b /\ b < 4 * (b \div 4) + 4 /\ b \div 4 \in Int
      /\ 100 * (b \div 100) <= b /\ b < 100 * (b \div 100) + 100 /\ b \div 100 \in Int
      /\ 400 * (b \div 400) <= b /\ b < 400 * (b \div 400) + 400 /\ b \div 400 \in Int
  BY Divided
<1> QED BY <1>1, <1>2, SMTT(60) DEF MarchDays

LEMMA DayInYear ==
    ASSUME NEW y \in Int, NEW m, NEW d \in Int, IsDay(y, m, d)
    PROVE  /\ m \in 1 .. 12 /\ d \in 1 .. 31
           /\ DayNumber(y, m, d) \in Int
           /\ MarchDays(y - 1) < DayNumber(y, m, d)
           /\ DayNumber(y, m, d) <= MarchDays(y)
<1> DEFINE A == MarchDays(y - 1)
           B == MarchDays(y)
<1>1. A \in Int /\ B \in Int /\ B = A + 365 + (IF Leap(y) THEN 1 ELSE 0)
  BY LeapStep, y - 1 \in Int
<1>2. DayNumber(y, m, d) = A + MonthStart[m] + (IF m > 2 /\ Leap(y) THEN 1 ELSE 0) + d
  BY DEF DayNumber, MarchDays
<1>3. m \in {1,2,3,4,5,6,7,8,9,10,11,12}
  BY DEF IsDay
<1> HIDE DEF A, B
<1>4. A < DayNumber(y, m, d) /\ DayNumber(y, m, d) <= B
  BY <1>1, <1>2, <1>3, SMTT(60) DEF MonthStart, IsDay
<1>5. d \in 1 .. 31 /\ DayNumber(y, m, d) \in Int
  BY <1>1, <1>2, <1>3, SMTT(60) DEF MonthStart, IsDay
<1> QED BY <1>3, <1>4, <1>5 DEF A, B, IsDay

(* No two days have one number, and they are numbered year by year. *)
LEMMA YearsAscend ==
    ASSUME NEW y1 \in Int, NEW m1, NEW d1 \in Int, IsDay(y1, m1, d1),
           NEW y2 \in Int, NEW m2, NEW d2 \in Int, IsDay(y2, m2, d2), y1 < y2
    PROVE  DayNumber(y1, m1, d1) < DayNumber(y2, m2, d2)
<1>1. DayNumber(y1, m1, d1) \in Int /\ DayNumber(y1, m1, d1) <= MarchDays(y1)
  BY DayInYear
<1>2. DayNumber(y2, m2, d2) \in Int /\ MarchDays(y2 - 1) < DayNumber(y2, m2, d2)
  BY DayInYear
<1>3. MarchDays(y1) <= MarchDays(y2 - 1)
  <2>1. y2 - 1 \in Int /\ y1 <= y2 - 1
    OBVIOUS
  <2> QED BY <2>1, MarchDaysAscend
<1>4. MarchDays(y1) \in Int /\ MarchDays(y2 - 1) \in Int
  BY LeapStep, y2 - 1 \in Int
<1> QED BY <1>1, <1>2, <1>3, <1>4

LEMMA DaysAreUnique ==
    ASSUME NEW y1 \in Int, NEW m1, NEW d1 \in Int, IsDay(y1, m1, d1),
           NEW y2 \in Int, NEW m2, NEW d2 \in Int, IsDay(y2, m2, d2),
           DayNumber(y1, m1, d1) = DayNumber(y2, m2, d2)
    PROVE  y1 = y2 /\ m1 = m2 /\ d1 = d2
<1>1. y1 = y2
  <2>1. ~(y1 < y2) /\ ~(y2 < y1)
    <3>1. DayNumber(y1, m1, d1) \in Int
      BY DayInYear
    <3> QED BY <3>1, YearsAscend
  <2> QED BY <2>1
<1>2. m1 \in {1,2,3,4,5,6,7,8,9,10,11,12} /\ m2 \in {1,2,3,4,5,6,7,8,9,10,11,12}
  BY DEF IsDay
<1>3. PICK A \in Int : A = MarchDays(y1 - 1)
  BY LeapStep, y1 - 1 \in Int
<1>4. PICK n1 \in Int : n1 = MonthStart[m1] + (IF m1 > 2 /\ Leap(y1) THEN 1 ELSE 0)
  BY <1>2 DEF MonthStart
<1>5. PICK n2 \in Int : n2 = MonthStart[m2] + (IF m2 > 2 /\ Leap(y1) THEN 1 ELSE 0)
  BY <1>2 DEF MonthStart
<1>6. n1 + d1 = n2 + d2
  <2>1. DayNumber(y1, m1, d1) = A + n1 + d1
    BY <1>2, <1>3, <1>4 DEF DayNumber, MarchDays, MonthStart
  <2>2. DayNumber(y2, m2, d2) = A + n2 + d2
    BY <1>1, <1>2, <1>3, <1>5 DEF DayNumber, MarchDays, MonthStart
  <2>3. A + n1 + d1 = A + n2 + d2
    BY <2>1, <2>2, Zenon
  <2> QED BY <2>3
<1>7. 0 < d1 /\ 0 < d2
  BY DEF IsDay
<1>8. PICK k1 \in Int : k1 = MonthStart[m1 + 1] + (IF m1 >= 2 /\ Leap(y1) THEN 1 ELSE 0)
  BY <1>2 DEF MonthStart
<1>9. PICK k2 \in Int : k2 = MonthStart[m2 + 1] + (IF m2 >= 2 /\ Leap(y1) THEN 1 ELSE 0)
  BY <1>2 DEF MonthStart
<1>10. n1 + d1 <= k1
  BY <1>2, <1>4, <1>8, SMTT(60) DEF MonthStart, IsDay
<1>11. n2 + d2 <= k2
  BY <1>1, <1>2, <1>5, <1>9, SMTT(60) DEF MonthStart, IsDay
<1>12. m1 < m2 => k1 <= n2
  BY <1>2, <1>5, <1>8, SMTT(60) DEF MonthStart
<1>13. m2 < m1 => k2 <= n1
  BY <1>2, <1>4, <1>9, SMTT(60) DEF MonthStart
<1>14. m1 = m2
  <2>1. m1 \in Int /\ m2 \in Int
    BY <1>2
  <2> QED BY <2>1, <1>6, <1>7, <1>10, <1>11, <1>12, <1>13
<1>15. n1 = n2
  BY <1>4, <1>5, <1>14
<1> QED BY <1>1, <1>6, <1>14, <1>15

LEMMA OleDayIsNumber ==
    ASSUME NEW y, NEW m, NEW d
    PROVE  OleDay(y, m, d) = DayNumber(y, m, d) - 693594
<1>1. DayNumber(1899, 12, 30) = 693594
  <2>1. Leap(1899) = FALSE
    BY SMT DEF Leap
  <2> QED BY <2>1, SMTT(60) DEF DayNumber, MonthStart
<1> QED BY <1>1, SMT DEF OleDay

LEMMA TwoCounted ==
    ASSUME NEW a, NEW b, a # b
    PROVE  IsFiniteSet({a, b}) /\ Cardinality({a, b}) = 2
<1>1. IsFiniteSet({a}) /\ Cardinality({a}) = 1
  BY FS_Singleton
<1>2. {a, b} = {a} \cup {b}
  OBVIOUS
<1> QED BY <1>1, <1>2, FS_AddElement

LEMMA ThreeCounted ==
    ASSUME NEW a, NEW b, NEW c, a # b, a # c, b # c
    PROVE  IsFiniteSet({a, b, c}) /\ Cardinality({a, b, c}) = 3
<1>1. IsFiniteSet({a, b}) /\ Cardinality({a, b}) = 2
  BY TwoCounted
<1>2. {a, b, c} = {a, b} \cup {c}
  OBVIOUS
<1> QED BY <1>1, <1>2, FS_AddElement

LEMMA FourCounted ==
    ASSUME NEW a, NEW b, NEW c, NEW d, a # b, a # c, a # d, b # c, b # d, c # d
    PROVE  Cardinality({a, b, c, d}) = 4
<1>1. IsFiniteSet({a, b, c}) /\ Cardinality({a, b, c}) = 3
  BY ThreeCounted
<1>2. {a, b, c, d} = {a, b, c} \cup {d}
  OBVIOUS
<1> QED BY <1>1, <1>2, FS_AddElement

(* {:04} makes four characters of the years that have no more. *)
LEMMA FourCharacters ==
    ASSUME NEW y \in Int
    PROVE  YearWidth(y) \in Int /\ (YearWidth(y) = 4 <=> -999 <= y /\ y <= 9999)
<1>1. PICK b \in Int : b = IF y < 0 THEN -y ELSE y
  OBVIOUS
<1>2. PICK p \in Int, q \in Int, r \in Int, s \in Int : p = 10 /\ q = 100 /\ r = 1000 /\ s = 10000
  OBVIOUS
<1>3. PICK k \in Int : /\ k = Cardinality({x \in {p, q, r, s} : b >= x}) /\ 0 <= k /\ k <= 4
                       /\ k = 4 <=> b >= s
                       /\ k >= 3 <=> b >= r
  <2>1. /\ Cardinality({}) = 0 /\ Cardinality({p}) = 1 /\ Cardinality({p, q}) = 2
        /\ Cardinality({p, q, r}) = 3 /\ Cardinality({p, q, r, s}) = 4
    <3>1. p # q /\ p # r /\ p # s /\ q # r /\ q # s /\ r # s
      BY <1>2, SMT
    <3>2. Cardinality({p, q}) = 2
      BY <3>1, TwoCounted
    <3>3. Cardinality({p, q, r}) = 3
      BY <3>1, ThreeCounted
    <3>4. Cardinality({p, q, r, s}) = 4
      BY <3>1, FourCounted
    <3> QED BY <3>2, <3>3, <3>4, FS_Singleton, FS_EmptySet
  <2>2. p < q /\ q < r /\ r < s
    BY <1>2, SMT
  <2> DEFINE P == {x \in {p, q, r, s} : b >= x}
  <2>3. CASE b >= s
    <3>1. P = {p, q, r, s}
      BY <2>2, <2>3, SMT
    <3> QED BY <2>1, <2>2, <2>3, <3>1, SMT
  <2>4. CASE b >= r /\ b < s
    <3>1. P = {p, q, r}
      BY <2>2, <2>4, SMTT(30)
    <3> QED BY <2>1, <2>2, <2>4, <3>1, SMT
  <2>5. CASE b >= q /\ b < r
    <3>1. P = {p, q}
      BY <2>2, <2>5, SMT
    <3> QED BY <2>1, <2>2, <2>5, <3>1, SMT
  <2>6. CASE b >= p /\ b < q
    <3>1. P = {p}
      BY <2>2, <2>6, SMT
    <3> QED BY <2>1, <2>2, <2>6, <3>1, SMT
  <2>7. CASE b < p
    <3>1. P = {}
      BY <2>2, <2>7, SMT
    <3> QED BY <2>1, <2>2, <2>7, <3>1, SMT
  <2> QED BY <2>3, <2>4, <2>5, <2>6, <2>7, SMT
<1>4. Cardinality({x \in {10, 100, 1000, 10000} : (IF y < 0 THEN -y ELSE y) >= x}) = k
  BY <1>1, <1>2, <1>3, SMT
<1>5. YearWidth(y) = LET needed == (IF y < 0 THEN 1 ELSE 0) + k + 1
                     IN IF needed < 4 THEN 4 ELSE needed
  BY <1>4, SMT DEF YearWidth
<1> QED BY <1>1, <1>2, <1>3, <1>5, SMT

LEMMA Seconds ==
    ASSUME NEW d, IsOleDate(d)
    PROVE  \E n \in Int, secs \in Int, carry \in Int :
              /\ 0 <= secs /\ secs < 86400
              /\ n = SignedDays(d) /\ carry = RoundedUp(d)
              /\ RoundedSeconds(d.half) - carry * SecondsPerDay = secs
              /\ Instant(d) = <<n + carry, secs>>
<1>1. PICK r \in Int : r = RoundedSeconds(d.half)
  <2>1. d.half + 1 \in Int
    BY SMT DEF IsOleDate
  <2> QED BY <2>1, Divided, SMT DEF RoundedSeconds
<1>2. 0 <= r /\ r <= 86400
  <2>1. PICK h \in Int : h = d.half /\ 0 <= h /\ h < 172800
    <3>1. d.half \in Nat /\ d.half < 172800
      BY SMT DEF IsOleDate, SecondsPerDay
    <3> QED BY <3>1
  <2>2. r = (h + 1) \div 2
    BY <1>1, <2>1, SMT DEF RoundedSeconds
  <2> QED BY <2>1, <2>2, SMT
<1>3. PICK carry \in Int : carry = RoundedUp(d)
  BY DEF RoundedUp
<1>4. carry = IF r >= 86400 THEN 1 ELSE 0
  BY <1>1, <1>3, SMT DEF RoundedUp, SecondsPerDay
<1>5. r \div 86400 = carry /\ r % 86400 = r - carry * 86400
  BY <1>2, <1>4, SMT
<1>6. PICK n \in Int : n = SignedDays(d)
  BY SMT DEF IsOleDate, SignedDays
<1>7. Instant(d) = <<n + carry, r - carry * 86400>>
  <2>1. Instant(d) = <<n + r \div 86400, r % 86400>>
    BY <1>1, <1>6, SMT DEF Instant, SignedDays, SecondsPerDay
  <2> QED BY <1>5, <2>1, SMT
<1>8. PICK secs \in Int : secs = r - carry * 86400
  BY SMT
<1>9. 0 <= secs /\ secs < 86400
  BY <1>2, <1>4, <1>8, SMT
<1>10. RoundedSeconds(d.half) - carry * SecondsPerDay = secs
  BY <1>1, <1>8, SMT DEF SecondsPerDay
<1> QED BY <1>3, <1>6, <1>7, <1>8, <1>9, <1>10, SMT

LEMMA NameableYears ==
    ASSUME NEW y \in Int, NEW m, NEW d \in Int, IsDay(y, m, d)
    PROVE  NameableDay(DayNumber(y, m, d) - 693594) <=> -999 <= y /\ y <= 9999
<1>1. PICK lo \in Int, hi \in Int : lo = MarchDays(-1000) /\ hi = MarchDays(9999)
  <2>1. -1000 \in Int /\ 9999 \in Int
    BY SMT
  <2>2. MarchDays(-1000) \in Int /\ MarchDays(9999) \in Int
    BY <2>1, LeapStep, SMT
  <2> QED BY <2>2, SMT
<1>2. PICK a \in Int, b \in Int, n \in Int :
          a = MarchDays(y - 1) /\ b = MarchDays(y) /\ n = DayNumber(y, m, d) /\ a < n /\ n <= b
  <2>1. MarchDays(y - 1) \in Int /\ MarchDays(y) \in Int
    BY LeapStep, y - 1 \in Int
  <2> QED BY <2>1, DayInYear
<1>3. DayNumber(-999, 1, 1) = lo + 1
  BY <1>1, SMTT(30) DEF DayNumber, MarchDays, MonthStart
<1>4. DayNumber(9999, 12, 31) = hi
  <2>1. ~Leap(9999)
    BY SMT DEF Leap
  <2> QED BY <1>1, <2>1, SMTT(30) DEF DayNumber, MarchDays, MonthStart
<1>5. NameableDay(n - 693594) <=> lo < n /\ n <= hi
  BY <1>3, <1>4, OleDayIsNumber, SMT DEF NameableDay
<1>6. -999 <= y => lo <= a
  BY <1>1, <1>2, MarchDaysAscend, y - 1 \in Int, SMT
<1>7. y < -999 => b <= lo
  BY <1>1, <1>2, MarchDaysAscend, SMT
<1>8. y <= 9999 => b <= hi
  BY <1>1, <1>2, MarchDaysAscend, SMT
<1>9. 9999 < y => hi <= a
  BY <1>1, <1>2, MarchDaysAscend, y - 1 \in Int, SMT
<1> QED BY <1>2, <1>5, <1>6, <1>7, <1>8, <1>9, SMT

Clock(secs, h, m, q) ==
    /\ h = secs \div 3600 /\ m = (secs % 3600) \div 60 /\ q = secs % 60
    /\ h * 3600 + m * 60 + q = secs
    /\ h \in 0 .. 23 /\ m \in 0 .. 59 /\ q \in 0 .. 59

LEMMA ClockReads ==
    ASSUME NEW secs \in Int, 0 <= secs, secs < 86400
    PROVE  \E h \in Int, m \in Int, q \in Int : Clock(secs, h, m, q)
<1>1. PICK h \in Int, r \in Int : h = secs \div 3600 /\ r = secs % 3600
  BY Divided
<1>2. secs = 3600 * h + r /\ 0 <= r /\ r < 3600
  BY <1>1, Divided, SMT
<1>3. PICK m \in Int, q \in Int : m = r \div 60 /\ q = r % 60
  BY Divided
<1>4. r = 60 * m + q /\ 0 <= q /\ q < 60
  BY <1>3, Divided, SMT
<1>5. secs % 60 = q
  BY <1>2, <1>4, SMTT(30)
<1>6. 0 <= h /\ h <= 23 /\ 0 <= m /\ m <= 59
  BY <1>2, <1>4, SMT
<1>7. (secs % 3600) \div 60 = m
  <2>1. secs % 3600 = r
    BY <1>1
  <2>2. r \div 60 = m
    BY <1>3
  <2> QED BY <2>1, <2>2
<1>8. h * 3600 + m * 60 + q = secs
  BY <1>2, <1>4, SMT
<1>9. h \in 0 .. 23 /\ m \in 0 .. 59 /\ q \in 0 .. 59
  BY <1>4, <1>6, SMT
<1>10. Clock(secs, h, m, q)
  BY <1>1, <1>5, <1>7, <1>8, <1>9 DEF Clock
<1> QED BY <1>10

(* The text of a date names its day and its second, in nineteen characters *)
(* if the year takes no more than four. *)
LEMMA TextOfDate ==
    ASSUME NEW d, IsOleDate(d)
    PROVE  LET t == OleDateToIso8601(d) IN
           /\ Names(t, d)
           /\ t.year \in Int /\ t.day \in Int
           /\ t.hour \in 0 .. 23 /\ t.minute \in 0 .. 59 /\ t.second \in 0 .. 59
           /\ t.digits
           /\ t.length \in Int /\ (t.length = 19 <=> NameableDay(Instant(d)[1]))
<1>1. PICK n \in Int, secs \in Int, carry \in Int :
              /\ 0 <= secs /\ secs < 86400
              /\ n = SignedDays(d) /\ carry = RoundedUp(d)
              /\ RoundedSeconds(d.half) - carry * SecondsPerDay = secs
              /\ Instant(d) = <<n + carry, secs>>
  BY Seconds
<1>3. PICK y \in Int, m \in 1 .. 12, day \in Int :
              /\ CivilFromDays(n + carry + OleEpochUnixDays) = <<y, m, day>>
              /\ IsDay(y, m, day)
              /\ DayNumber(y, m, day) = n + carry - 25569 + 719163
  <2>1. n + carry + OleEpochUnixDays \in Int /\ n + carry + OleEpochUnixDays = n + carry - 25569
    BY SMT DEF OleEpochUnixDays
  <2> QED BY <2>1, CivilIsDay, SMT
<1>2. PICK h \in Int, min \in Int, q \in Int : Clock(secs, h, min, q)
  <2>1. 0 <= secs /\ secs < 86400
    BY <1>1, SMT
  <2> QED BY <2>1, ClockReads, SMT
<1>4. LET t == OleDateToIso8601(d) IN
         /\ t.year = y /\ t.month = m /\ t.day = day
         /\ t.hour = h /\ t.minute = min /\ t.second = q
         /\ t.digits /\ t.length = 15 + YearWidth(y)
  <2>1. CivilFromDays(SignedDays(d) + RoundedUp(d) + OleEpochUnixDays) = <<y, m, day>>
    BY <1>1, <1>3, SMT
  <2>2. RoundedSeconds(d.half) - RoundedUp(d) * SecondsPerDay = secs
    BY <1>1, SMT
  <2>3. LET t == OleDateToIso8601(d) IN
          /\ t.year = <<y, m, day>>[1] /\ t.month = <<y, m, day>>[2] /\ t.day = <<y, m, day>>[3]
          /\ t.digits /\ t.length = 15 + YearWidth(<<y, m, day>>[1])
    BY <2>1, SMT DEF OleDateToIso8601
  <2>4. LET t == OleDateToIso8601(d) IN
          /\ t.hour = secs \div 3600 /\ t.minute = (secs % 3600) \div 60 /\ t.second = secs % 60
    BY <2>2, SMT DEF OleDateToIso8601
  <2> QED BY <1>2, <2>3, <2>4, SMT DEF Clock
<1>5. OleDay(y, m, day) = n + carry
  BY <1>3, OleDayIsNumber, SMT
<1>6. PICK t : t = OleDateToIso8601(d)
  OBVIOUS
<1>7. Names(t, d)
  <2>1. t.hour * 3600 + t.minute * 60 + t.second = secs
    BY <1>2, <1>4, <1>6, SMT DEF Clock
  <2>2. t.year = y /\ t.month = m /\ t.day = day
    BY <1>4, <1>6, SMT
  <2> QED BY <1>1, <1>3, <1>5, <2>1, <2>2, SMT DEF Names
<1>8. t.hour \in 0 .. 23 /\ t.minute \in 0 .. 59 /\ t.second \in 0 .. 59
  BY <1>2, <1>4, <1>6, SMT DEF Clock
<1>9. t.length = 19 <=> NameableDay(n + carry)
  <2>1. t.length = 19 <=> -999 <= y /\ y <= 9999
    BY <1>4, <1>6, FourCharacters, SMT
  <2>2. NameableDay(DayNumber(y, m, day) - 693594) <=> -999 <= y /\ y <= 9999
    BY <1>3, NameableYears, SMT
  <2>3. DayNumber(y, m, day) - 693594 = n + carry
    BY <1>3, SMT
  <2> QED BY <2>1, <2>2, <2>3, SMT
<1>10. t.year \in Int /\ t.day \in Int /\ t.digits /\ t.length \in Int
  BY <1>4, <1>6, FourCharacters, SMT
<1> QED BY <1>1, <1>6, <1>7, <1>8, <1>9, <1>10, SMT

(* A date is one of the calendar exactly when it comes back from its number. *)
LEMMA CivilIsInverse ==
    ASSUME NEW y \in Int, NEW m, NEW d \in Int
    PROVE  IsDay(y, m, d) <=>
              m \in 1 .. 12 /\ CivilFromDays(DaysFromCivil(y, m, d)) = <<y, m, d>>
<1>1. ASSUME m \in 1 .. 12
      PROVE  \E c \in Int, k \in 1 .. 12, e \in Int :
                /\ CivilFromDays(DaysFromCivil(y, m, d)) = <<c, k, e>>
                /\ IsDay(c, k, e)
                /\ DayNumber(c, k, e) = DayNumber(y, m, d)
  <2>1. DayNumber(y, m, d) \in Int
    <3>1. m \in {1,2,3,4,5,6,7,8,9,10,11,12}
      BY <1>1
    <3>2. MarchDays(y - 1) \in Int
      BY LeapStep, y - 1 \in Int
    <3>3. DayNumber(y, m, d) =
             MarchDays(y - 1) + MonthStart[m] + (IF m > 2 /\ Leap(y) THEN 1 ELSE 0) + d
      BY DEF DayNumber, MarchDays
    <3> QED BY <3>1, <3>2, <3>3 DEF MonthStart
  <2>2. PICK n \in Int : n = DaysFromCivil(y, m, d) /\ n + 719163 = DayNumber(y, m, d)
    BY <1>1, <2>1, DaysAreNumbered, SMT
  <2>3. \E c \in Int, k \in 1 .. 12, e \in Int :
           /\ CivilFromDays(n) = <<c, k, e>>
           /\ IsDay(c, k, e)
           /\ DayNumber(c, k, e) = n + 719163
    BY CivilIsDay, SMT
  <2> QED BY <2>2, <2>3, SMT
<1>2. ASSUME IsDay(y, m, d)
      PROVE  m \in 1 .. 12 /\ CivilFromDays(DaysFromCivil(y, m, d)) = <<y, m, d>>
  <2>1. m \in 1 .. 12
    BY <1>2 DEF IsDay
  <2>2. PICK c \in Int, k \in 1 .. 12, e \in Int :
           /\ CivilFromDays(DaysFromCivil(y, m, d)) = <<c, k, e>>
           /\ IsDay(c, k, e)
           /\ DayNumber(c, k, e) = DayNumber(y, m, d)
    BY <1>1, <2>1
  <2>3. c = y /\ k = m /\ e = d
    BY <1>2, <2>2, DaysAreUnique
  <2> QED BY <2>1, <2>2, <2>3
<1>3. ASSUME m \in 1 .. 12, CivilFromDays(DaysFromCivil(y, m, d)) = <<y, m, d>>
      PROVE  IsDay(y, m, d)
  <2>1. PICK c \in Int, k \in 1 .. 12, e \in Int :
           /\ CivilFromDays(DaysFromCivil(y, m, d)) = <<c, k, e>>
           /\ IsDay(c, k, e)
    BY <1>1, <1>3
  <2>2. c = y /\ k = m /\ e = d
    BY <1>3, <2>1
  <2> QED BY <2>1, <2>2
<1> QED BY <1>2, <1>3

(* The strict reader takes what names an instant of the calendar. *)
LEMMA AcceptedTexts ==
    ASSUME NEW t, IsText(t)
    PROVE  IsDateText(t) <=>
              /\ t.digits /\ t.length = 19 /\ IsDay(t.year, t.month, t.day)
              /\ t.hour < 24 /\ t.minute < 60 /\ t.second < 60
<1>1. IsDay(t.year, t.month, t.day) =>
         t.month \in 1 .. 12 /\ t.day \in 1 .. 31
  BY DayInYear DEF IsText
<1>2. IsDay(t.year, t.month, t.day) <=>
         /\ t.month \in 1 .. 12
         /\ CivilFromDays(DaysFromCivil(t.year, t.month, t.day)) = <<t.year, t.month, t.day>>
  BY CivilIsInverse DEF IsText
<1>3. /\ t.hour < 24 <=> t.hour \in 0 .. 23
      /\ t.minute < 60 <=> t.minute \in 0 .. 59
      /\ t.second < 60 <=> t.second \in 0 .. 59
  BY DEF IsText
<1> QED BY <1>1, <1>2, <1>3 DEF IsDateText

(* The strict reader finds the instant a text names.                       *)
LEMMA DateOfText ==
    ASSUME NEW t, IsText(t), IsDateText(t)
    PROVE  Names(t, OleDateFromIso8601(t))
<1>1. /\ IsDay(t.year, t.month, t.day)
      /\ t.hour \in 0 .. 23 /\ t.minute \in 0 .. 59 /\ t.second \in 0 .. 59
  BY AcceptedTexts DEF IsText
<1>9. /\ t.hour \in Int /\ 0 <= t.hour /\ t.hour <= 23
      /\ t.minute \in Int /\ 0 <= t.minute /\ t.minute <= 59
      /\ t.second \in Int /\ 0 <= t.second /\ t.second <= 59
  BY <1>1
<1>10. PICK secs \in Int : secs = t.hour * 3600 + t.minute * 60 + t.second
  BY <1>9, SMT
<1>2. 0 <= secs /\ secs < 86400
  BY <1>9, <1>10, SMT
<1>3. PICK n \in Int : /\ n = OleDay(t.year, t.month, t.day)
                       /\ n = DaysFromCivil(t.year, t.month, t.day) - OleEpochUnixDays
  <2>1. DayNumber(t.year, t.month, t.day) \in Int /\ t.month \in 1 .. 12
    BY <1>1, DayInYear DEF IsText
  <2>2. DaysFromCivil(t.year, t.month, t.day) = DayNumber(t.year, t.month, t.day) - 719163
    <3>1. t.year \in Int /\ t.day \in Int
      BY DEF IsText
    <3> QED BY <2>1, <3>1, DaysAreNumbered, SMT
  <2> QED BY <2>1, <2>2, OleDayIsNumber, SMT DEF OleEpochUnixDays
<1>4. PICK d : d = OleDateFromIso8601(t)
  OBVIOUS
<1>5. d = OleFromDays(n, 2 * secs)
  BY <1>3, <1>4, <1>10, SMT DEF OleDateFromIso8601
<1>6. SignedDays(d) = n /\ d.half = 2 * secs
  <2>1. d.neg = (n < 0) /\ d.half = 2 * secs
    BY <1>5, Zenon DEF OleFromDays, OleDate
  <2>2. d.days = IF n < 0 THEN -n ELSE n
    BY <1>5, SMT DEF OleFromDays, OleDate
  <2>3. SignedDays(d) = IF n < 0 THEN -d.days ELSE d.days
    BY <2>1, Zenon DEF SignedDays
  <2> QED BY <2>1, <2>2, <2>3
<1>7. RoundedSeconds(d.half) = secs
  <2>1. (2 * secs + 1) \div 2 = secs
    BY SMT
  <2> QED BY <1>6, <2>1, Zenon DEF RoundedSeconds
<1>8. Instant(d) = <<n, secs>>
  <2>1. secs \div 86400 = 0 /\ secs % 86400 = secs
    BY <1>2, SMT
  <2> QED BY <1>6, <1>7, <2>1, SMT DEF Instant, SignedDays, SecondsPerDay
<1> QED BY <1>1, <1>3, <1>4, <1>8, <1>10, SMT DEF Names

-----------------------------------------------------------------------------
(* The conversion of arguments (json_to_variant).                          *)

-----------------------------------------------------------------------------

(* Every i64 lies where doubles are some gap apart, and that gap is one,   *)
(* or twice another that does not reach so far.                            *)
LEMMA GapsReach ==
    ASSUME NEW i \in -(1024 * Exact) .. 1024 * Exact - 1
    PROVE  /\ GapAt(i) \in Gaps
           /\ GapAt(i) = 1 => i \in -Exact .. Exact
           /\ GapAt(i) # 1 => \E g \in Gaps : GapAt(i) = 2 * g /\ Exact * g < Magnitude(i)
<1> DEFINE Least(gap) == Spans(gap, i) /\ \A g \in Gaps : Spans(g, i) => gap <= g
<1>1. \A g \in Gaps : g \in Nat
  BY DEF Gaps
<1>2. \A g \in Gaps : Spans(g, i) <=> Magnitude(i) <= Exact * g
  BY <1>1, RangeAssumption, SMT DEF Spans, Magnitude
<1>3. \E gap \in Gaps : Least(gap)
  <2>1. Spans(1024, i)
    BY RangeAssumption, SMT DEF Spans
  <2>2. 1024 \in Gaps
    BY DEF Gaps
  <2>3. CASE Spans(1, i)
    BY <2>3, SMT DEF Gaps
  <2>4. CASE ~Spans(1, i) /\ Spans(2, i)
    BY <2>4, SMT DEF Gaps
  <2>5. CASE ~Spans(1, i) /\ ~Spans(2, i) /\ Spans(4, i)
    BY <2>5, SMT DEF Gaps
  <2>6. CASE ~Spans(1, i) /\ ~Spans(2, i) /\ ~Spans(4, i)
    BY <2>1, <2>6, SMT DEF Gaps
  <2> QED BY <2>3, <2>4, <2>5, <2>6
<1>4. GapAt(i) \in Gaps /\ Least(GapAt(i))
  BY <1>3 DEF GapAt
<1> DEFINE gap == GapAt(i)
<1>5. gap = 1 \/ \E g \in Gaps : gap = 2 * g
  BY <1>4, SMT DEF Gaps
<1>6. gap = 1 => i \in -Exact .. Exact
  BY <1>4, RangeAssumption, SMT DEF Spans
<1>7. ASSUME NEW g \in Gaps, gap = 2 * g
      PROVE  Exact * g < Magnitude(i)
  <2>1. g \in Nat /\ g > 0
    BY DEF Gaps
  <2>2. ~Spans(g, i)
    BY <1>4, <1>7, <2>1, SMT
  <2>3. ~(Magnitude(i) <= Exact * g)
    BY <1>2, <2>2
  <2>4. Magnitude(i) \in Int /\ Exact * g \in Int
    BY <2>1, RangeAssumption, SMT DEF Magnitude
  <2> QED BY ONLY <2>3, <2>4, SMT
<1> QED BY <1>4, <1>5, <1>6, <1>7

(* A double is nearer than a gap, by half.                                 *)
LEMMA DoublesAreNear ==
    ASSUME NEW i \in -(1024 * Exact) .. 1024 * Exact - 1
    PROVE  IF i \in -Exact .. Exact THEN ToDouble(i) = i
           ELSE Exact * Magnitude(ToDouble(i) - i) < Magnitude(i)
<1> DEFINE gap == GapAt(i)
           rest == i % gap
           v == ToDouble(i)
<1>0. i \in Int /\ Exact \in Nat /\ Exact > 0
  BY RangeAssumption, SMT
<1>1. gap \in Nat /\ gap > 0
  BY GapsReach DEF Gaps
<1>2. rest \in Nat /\ rest < gap
  BY <1>0, <1>1, SMT
<1>3. (v = i - rest /\ 2 * rest <= gap) \/ (v = i - rest + gap /\ 2 * rest >= gap)
  <2>1. v = IF 2 * rest < gap \/ (2 * rest = gap /\ (i \div gap) % 2 = 0)
            THEN i - rest ELSE (i - rest) + gap
    BY SMT DEF ToDouble
  <2> HIDE DEF v, rest, gap
  <2> QED BY ONLY <1>1, <1>2, <2>1, SMT
<1>4. v - i \in Int /\ 2 * Magnitude(v - i) <= gap
  <2> HIDE DEF v, rest, gap
  <2> QED BY ONLY <1>0, <1>1, <1>2, <1>3, SMT DEF Magnitude
<1>5. CASE gap = 1
  <2>1. rest = 0
    BY <1>2, <1>5, SMT
  <2>2. v = i
    BY <1>0, <1>3, <1>5, <2>1, SMT
  <2> QED BY <1>5, <2>2, GapsReach
<1>6. CASE gap # 1
  <2>1. PICK g \in Gaps : gap = 2 * g /\ Exact * g < Magnitude(i)
    BY <1>6, GapsReach
  <2>2. g \in Nat /\ g > 0
    BY DEF Gaps
  <2>3. Magnitude(v - i) \in Nat /\ Magnitude(v - i) <= g
    BY <1>4, <2>1, <2>2, SMT DEF Magnitude
  <2>4. Exact * Magnitude(v - i) <= Exact * g
    BY ONLY <1>0, <2>2, <2>3, SMT
  <2>5. Exact <= Exact * g
    BY ONLY <1>0, <2>2, SMT
  <2>6. Exact * g \in Nat /\ Magnitude(i) \in Nat /\ Exact * Magnitude(v - i) \in Nat
    BY <1>0, <2>2, <2>3, SMT DEF Magnitude
  <2>7. i \notin -Exact .. Exact
    BY <1>0, <2>1, <2>5, <2>6, SMT DEF Magnitude
  <2> QED BY <2>1, <2>4, <2>6, <2>7, SMT
<1> QED BY <1>5, <1>6

(* An integer becomes itself or a double as near as that.                  *)
LEMMA NumbersRepresent ==
    ASSUME NEW i \in -(1024 * Exact) .. 1024 * Exact - 1
    PROVE  LET v == NumberToVariant(i) IN
           /\ v[1] = "R8" \/ (v[1] = "I4" /\ v[2] \in IntMin .. IntMax)
           /\ IF i \in -Exact .. Exact THEN v[2] = i
              ELSE Exact * Magnitude(v[2] - i) < Magnitude(i)
<1>1. CASE i \in IntMin .. IntMax
  <2>1. NumberToVariant(i) = <<"I4", i>>
    BY <1>1 DEF NumberToVariant
  <2>2. i \in -Exact .. Exact
    BY <1>1, RangeAssumption, SMT DEF IntMin
  <2> QED BY <1>1, <2>1, <2>2
<1>2. CASE i \notin IntMin .. IntMax
  <2>1. NumberToVariant(i) = <<"R8", ToDouble(i)>>
    BY <1>2 DEF NumberToVariant
  <2> QED BY <2>1, DoublesAreNear
<1> QED BY <1>1, <1>2

(* What is not refused says the same.                                      *)
LEMMA ScalarsRepresent ==
    ASSUME NEW j, IsJsonScalar(j), ~IsRefused(ScalarToVariant(j))
    PROVE  Represents(ScalarToVariant(j), j)
<1> DEFINE v == ScalarToVariant(j)
<1>1. CASE j[1] = "null"
  BY <1>1 DEF ScalarToVariant, Represents
<1>2. CASE j[1] = "bool"
  BY <1>2 DEF ScalarToVariant, Represents, IsJsonScalar
<1>3. CASE j[1] = "int"
  <2>1. j[2] \in -(1024 * Exact) .. 1024 * Exact - 1 /\ v = NumberToVariant(j[2])
    BY <1>3 DEF ScalarToVariant, IsJsonScalar
  <2>2. Represents(v, j) <=>
          /\ v[1] = "R8" \/ (v[1] = "I4" /\ v[2] \in IntMin .. IntMax)
          /\ IF j[2] \in -Exact .. Exact THEN v[2] = j[2]
             ELSE Exact * Magnitude(v[2] - j[2]) < Magnitude(j[2])
    BY <1>3, Zenon DEF Represents
  <2> QED BY <2>1, <2>2, NumbersRepresent
<1>4. CASE j[1] = "float"
  BY <1>4 DEF ScalarToVariant, Represents
<1>5. CASE j[1] = "string"
  BY <1>5 DEF ScalarToVariant, Represents
<1>6. CASE j[1] = "time"
  <2>1. IsText(j[2]) /\ v = TimeToVariant(j[2])
    BY <1>6 DEF ScalarToVariant, IsJsonScalar
  <2>2. IsDateText(j[2])
    BY <2>1 DEF TimeToVariant, Refused, IsRefused
  <2>3. v = <<"DATE", OleDateFromIso8601(j[2])>>
    BY <2>1, <2>2 DEF TimeToVariant, VariantFromOleDate
  <2>4. Names(j[2], OleDateFromIso8601(j[2]))
    BY <2>1, <2>2, DateOfText
  <2> QED BY <1>6, <2>3, <2>4 DEF Represents
<1>7. CASE j[1] = "ref"
  BY <1>7 DEF ScalarToVariant, Represents, RefToVariant, Refused, IsRefused, VariantFromDispatch
<1>8. CASE j[1] \in {"object", "unsupported"}
  BY <1>8 DEF ScalarToVariant, Refused, IsRefused
<1> QED BY <1>1, <1>2, <1>3, <1>4, <1>5, <1>6, <1>7, <1>8 DEF IsJsonScalar

(* What is refused cannot be said.                                         *)
LEMMA RefusedScalars ==
    ASSUME NEW j, IsJsonScalar(j), IsRefused(ScalarToVariant(j))
    PROVE  Unsayable(j)
<1> DEFINE v == ScalarToVariant(j)
<1>1. CASE j[1] \in {"null", "bool", "float", "string"}
  BY <1>1 DEF ScalarToVariant, IsRefused
<1>2. CASE j[1] = "int"
  BY <1>2 DEF ScalarToVariant, IsRefused, NumberToVariant
<1>3. CASE j[1] = "time"
  <2>1. IsText(j[2]) /\ v = TimeToVariant(j[2])
    BY <1>3 DEF ScalarToVariant, IsJsonScalar
  <2>2. ~IsDateText(j[2])
    BY <2>1 DEF TimeToVariant, VariantFromOleDate, IsRefused
  <2> QED BY <1>3, <2>1, <2>2, AcceptedTexts DEF Unsayable
<1>4. CASE j[1] = "ref"
  BY <1>4 DEF ScalarToVariant, Unsayable, RefToVariant, IsRefused, VariantFromDispatch
<1>5. CASE j[1] \in {"object", "unsupported"}
  BY <1>5 DEF Unsayable
<1> QED BY <1>1, <1>2, <1>3, <1>4, <1>5 DEF IsJsonScalar

(* The cells of an array: which there are, and that each is one of its     *)
(* elements converted.                                                     *)
LEMMA CellsOfMatrix ==
    ASSUME NEW items, items \in Seq(Cells(items)), IsTwoD(items),
           NEW r \in DOMAIN items, NEW c \in 1 .. Len(items[1][2]), Len(items[1][2]) \in Nat
    PROVE  /\ <<r - 1, c - 1>> \in DOMAIN ArrayCells(items)
           /\ ArrayCells(items)[<<r - 1, c - 1>>] = ScalarToVariant(items[r][2][c])
<1>1. /\ r - 1 \in Upto(Len(items)) /\ c - 1 \in Upto(Len(items[1][2]))
      /\ r - 1 + 1 = r /\ c - 1 + 1 = c
  BY DEF Upto
<1>2. PICK x : x = <<r - 1, c - 1>>
  OBVIOUS
<1>3. x \in Upto(Len(items)) \X Upto(Len(items[1][2])) /\ x[1] + 1 = r /\ x[2] + 1 = c
  BY <1>1, <1>2
<1>4. x \in DOMAIN ArrayCells(items)
  BY <1>3, Zenon DEF ArrayCells
<1>5. ArrayCells(items)[x] = ScalarToVariant(items[x[1] + 1][2][x[2] + 1])
  BY <1>3, Zenon DEF ArrayCells
<1> QED BY <1>2, <1>3, <1>4, <1>5

LEMMA CellsOfVector ==
    ASSUME NEW items, items \in Seq(Cells(items)), ~IsTwoD(items), NEW i \in DOMAIN items
    PROVE  /\ <<i - 1>> \in DOMAIN ArrayCells(items)
           /\ ArrayCells(items)[<<i - 1>>] = ScalarToVariant(items[i])
<1>1. i - 1 \in Upto(Len(items)) /\ i - 1 + 1 = i
  BY DEF Upto
<1>2. PICK x : x = <<i - 1>>
  OBVIOUS
<1>3. x \in {<<k>> : k \in Upto(Len(items))} /\ x[1] + 1 = i
  BY <1>1, <1>2
<1>4. x \in DOMAIN ArrayCells(items)
  BY <1>3, Zenon DEF ArrayCells
<1>5. ArrayCells(items)[x] = ScalarToVariant(items[x[1] + 1])
  BY <1>3, Zenon DEF ArrayCells
<1> QED BY <1>2, <1>3, <1>4, <1>5

(* The same of an array, cell by cell.                                     *)
LEMMA ArraysArrive ==
    ASSUME NEW j, IsJson(j), IsArray(j), NEW fault, ~IsRefused(JsonArrayToVariant(j[2], fault))
    PROVE  ArgumentArrived(JsonArrayToVariant(j[2], fault), j)
<1> DEFINE items == j[2]
           v == JsonArrayToVariant(items, fault)
<1>1. items \in Seq(Cells(items))
  BY DEF IsJson, IsJsonScalar, IsArray
<1>2. WellShaped(items) /\ v = VariantFromSafearray(ArrayBounds(items), ArrayCells(items))
  <2> DEFINE cells == ArrayCells(items)
             errors == {e \in {cells[x] : x \in DOMAIN cells} : IsRefused(e)}
  <2>1. v = IF ~WellShaped(items) THEN Refused("E_INVALIDARG")
            ELSE IF fault = "create" THEN Refused("E_OUTOFMEMORY")
            ELSE IF errors # {} THEN CHOOSE e \in errors : TRUE
            ELSE IF fault = "put" /\ DOMAIN cells # {} THEN Refused("DISP_E_BADINDEX")
            ELSE VariantFromSafearray(ArrayBounds(items), cells)
    BY DEF JsonArrayToVariant
  <2>2. \A code : IsRefused(Refused(code))
    BY DEF Refused, IsRefused
  <2>3. errors # {} => IsRefused(CHOOSE e \in errors : TRUE)
    OBVIOUS
  <2>4. ~IsRefused(v)
    OBVIOUS
  <2> HIDE DEF cells, errors, items, v
  <2> QED BY <2>1, <2>2, <2>3, <2>4 DEF cells
<1>3. \A x \in DOMAIN ArrayCells(items) : ~IsRefused(ArrayCells(items)[x])
  <2> DEFINE cells == ArrayCells(items)
             errors == {e \in {cells[x] : x \in DOMAIN cells} : IsRefused(e)}
  <2>1. errors # {} => IsRefused(CHOOSE e \in errors : TRUE)
    OBVIOUS
  <2>2. errors = {}
    <3> SUFFICES ASSUME errors # {} PROVE FALSE
      OBVIOUS
    <3>1. v = IF fault = "create" THEN Refused("E_OUTOFMEMORY") ELSE CHOOSE e \in errors : TRUE
      BY <1>2 DEF JsonArrayToVariant
    <3>2. IsRefused(Refused("E_OUTOFMEMORY"))
      BY DEF Refused, IsRefused
    <3> HIDE DEF errors
    <3> QED BY <2>1, <3>1, <3>2
  <2> QED BY <2>2
<1>4. v[3] = ArrayBounds(items) /\ v[4] = ArrayCells(items)
  BY <1>2 DEF VariantFromSafearray
<1>5. CASE IsTwoD(items)
  <2>1. \A r \in DOMAIN items : \A c \in DOMAIN items[r][2] :
           Represents(v[4][<<r - 1, c - 1>>], items[r][2][c])
    <3> SUFFICES ASSUME NEW r \in DOMAIN items, NEW c \in DOMAIN items[r][2]
                 PROVE  Represents(v[4][<<r - 1, c - 1>>], items[r][2][c])
      OBVIOUS
    <3>1. items[r] \in Cells(items) /\ items[1] \in Cells(items)
      BY <1>1, <1>5 DEF Cells, IsTwoD
    <3>2. IsArray(items[r]) /\ IsArray(items[1]) /\ Len(items[r][2]) = Len(items[1][2])
      BY <1>2, <1>5, <3>1 DEF WellShaped
    <3>3. /\ items[r][2] \in Seq(Cells(items[r][2])) /\ items[1][2] \in Seq(Cells(items[1][2]))
          /\ \A e \in Cells(items[r][2]) : IsJsonScalar(e) \/ IsArray(e)
      BY <3>1, <3>2 DEF IsJson, IsJsonScalar, IsArray
    <3>4. c \in 1 .. Len(items[1][2]) /\ Len(items[1][2]) \in Nat
      BY <3>2, <3>3
    <3>5. items[r][2][c] \in Cells(items[r][2])
      BY DEF Cells
    <3>6. IsJsonScalar(items[r][2][c])
      BY <1>2, <1>5, <3>1, <3>3, <3>5 DEF WellShaped
    <3>7. /\ <<r - 1, c - 1>> \in DOMAIN ArrayCells(items)
          /\ ArrayCells(items)[<<r - 1, c - 1>>] = ScalarToVariant(items[r][2][c])
      BY <1>1, <1>5, <3>4, CellsOfMatrix
    <3>8. ~IsRefused(ScalarToVariant(items[r][2][c]))
      BY <1>3, <3>7
    <3> QED BY <1>4, <3>6, <3>7, <3>8, ScalarsRepresent
  <2>2. v[3] = << <<0, Len(items) - 1>>, <<0, Len(items[1][2]) - 1>> >>
    BY <1>4, <1>5 DEF ArrayBounds
  <2> QED BY <1>5, <2>1, <2>2 DEF ArgumentArrived, IsTwoD
<1>6. CASE ~IsTwoD(items)
  <2>1. \A i \in DOMAIN items : Represents(v[4][<<i - 1>>], items[i])
    <3> SUFFICES ASSUME NEW i \in DOMAIN items
                 PROVE  Represents(v[4][<<i - 1>>], items[i])
      OBVIOUS
    <3>1. items[i] \in Cells(items)
      BY DEF Cells
    <3>2. IsJsonScalar(items[i])
      BY <1>2, <1>6, <3>1 DEF WellShaped, IsJson, IsJsonScalar, IsArray
    <3>3. /\ <<i - 1>> \in DOMAIN ArrayCells(items)
          /\ ArrayCells(items)[<<i - 1>>] = ScalarToVariant(items[i])
      BY <1>1, <1>6, CellsOfVector
    <3>4. ~IsRefused(ScalarToVariant(items[i]))
      BY <1>3, <3>3
    <3> QED BY <1>4, <3>2, <3>3, <3>4, ScalarsRepresent
  <2>2. v[3] = << <<0, Len(items) - 1>> >>
    BY <1>4, <1>6 DEF ArrayBounds
  <2> QED BY <1>6, <2>1, <2>2 DEF ArgumentArrived, IsTwoD
<1> QED BY <1>5, <1>6

LEMMA ArgumentsArrive ==
    ASSUME NEW j, IsJson(j), NEW fault, ~IsRefused(JsonToVariant(j, fault))
    PROVE  ArgumentArrived(JsonToVariant(j, fault), j)
<1>1. CASE IsArray(j)
  BY <1>1, ArraysArrive DEF JsonToVariant
<1>2. CASE ~IsArray(j)
  <2>1. IsJsonScalar(j)
    BY <1>2 DEF IsJson
  <2> QED BY <1>2, <2>1, ScalarsRepresent DEF JsonToVariant, ArgumentArrived
<1> QED BY <1>1, <1>2

(* What has no shape, and what holds an element that cannot be said.       *)
LEMMA RefusedShapes ==
    ASSUME NEW items, items \in Seq(Cells(items)), ~WellShaped(items)
    PROVE  UnsayableArray(items)
<1>1. \A x \in Cells(items) : \E i \in DOMAIN items : items[i] = x
  BY DEF Cells
<1>2. \A e : IsArray(e) => Unsayable(e)
  BY DEF Unsayable
<1>3. CASE IsTwoD(items)
  <2>1. 1 \in DOMAIN items
    BY <1>3 DEF IsTwoD
  <2>2. PICK i \in DOMAIN items :
            \/ ~IsArray(items[i])
            \/ Len(items[i][2]) # Len(items[1][2])
            \/ \E e \in Cells(items[i][2]) : IsArray(e)
    BY <1>1, <1>3 DEF WellShaped
  <2>3. IsArray(items[1])
    BY <1>3 DEF IsTwoD
  <2>4. CASE ~IsArray(items[i])
    BY <2>1, <2>3, <2>4 DEF UnsayableArray
  <2>5. CASE IsArray(items[i]) /\ Len(items[i][2]) # Len(items[1][2])
    BY <2>1, <2>5 DEF UnsayableArray
  <2>6. CASE IsArray(items[i]) /\ \E e \in Cells(items[i][2]) : IsArray(e)
    BY <1>2, <2>6 DEF UnsayableArray
  <2> QED BY <2>2, <2>4, <2>5, <2>6
<1>4. CASE ~IsTwoD(items)
  <2>1. PICK i \in DOMAIN items : IsArray(items[i])
    BY <1>1, <1>4 DEF WellShaped
  <2>2. items # <<>> /\ 1 \in DOMAIN items
    OBVIOUS
  <2>3. ~IsArray(items[1])
    BY <1>4, <2>2 DEF IsTwoD
  <2> QED BY <2>1, <2>2, <2>3 DEF UnsayableArray
<1> QED BY <1>3, <1>4

LEMMA RefusedArrays ==
    ASSUME NEW j, IsJson(j), IsArray(j), IsRefused(JsonArrayToVariant(j[2], "none"))
    PROVE  UnsayableArray(j[2])
<1> DEFINE items == j[2]
           cells == ArrayCells(items)
<1>1. items \in Seq(Cells(items))
  BY DEF IsJson, IsJsonScalar, IsArray
<1>2. CASE ~WellShaped(items)
  BY <1>1, <1>2, RefusedShapes
<1>3. CASE WellShaped(items)
  <2>1. PICK x \in DOMAIN cells : IsRefused(cells[x])
    <3> DEFINE errors == {e \in {cells[x] : x \in DOMAIN cells} : IsRefused(e)}
    <3> SUFFICES ASSUME errors = {} PROVE FALSE
      OBVIOUS
    <3>1. JsonArrayToVariant(items, "none") = VariantFromSafearray(ArrayBounds(items), cells)
      BY <1>3 DEF JsonArrayToVariant
    <3> QED BY <3>1 DEF VariantFromSafearray, IsRefused
  <2>2. CASE IsTwoD(items)
    <3>1. /\ x \in Upto(Len(items)) \X Upto(Len(items[1][2]))
          /\ cells[x] = ScalarToVariant(items[x[1] + 1][2][x[2] + 1])
      BY <2>2 DEF ArrayCells
    <3>2. PICK r \in DOMAIN items : r = x[1] + 1
      BY <1>1, <3>1 DEF Upto
    <3>3. items[r] \in Cells(items) /\ items[1] \in Cells(items)
      BY <1>1, <2>2 DEF Cells, IsTwoD
    <3>4. IsArray(items[r]) /\ IsArray(items[1]) /\ Len(items[r][2]) = Len(items[1][2])
      BY <1>3, <2>2, <3>3 DEF WellShaped
    <3>5. /\ items[r][2] \in Seq(Cells(items[r][2])) /\ items[1][2] \in Seq(Cells(items[1][2]))
          /\ \A e \in Cells(items[r][2]) : IsJsonScalar(e) \/ IsArray(e)
      BY <3>3, <3>4 DEF IsJson, IsJsonScalar, IsArray
    <3>6. PICK c \in DOMAIN items[r][2] : c = x[2] + 1
      BY <3>1, <3>4, <3>5 DEF Upto
    <3>7. items[r][2][c] \in Cells(items[r][2])
      BY DEF Cells
    <3>8. IsRefused(ScalarToVariant(items[r][2][c]))
      BY <2>1, <3>1, <3>2, <3>6
    <3>9. IsJsonScalar(items[r][2][c])
      BY <1>3, <2>2, <3>3, <3>5, <3>7 DEF WellShaped
    <3>10. Unsayable(items[r][2][c])
      BY <3>8, <3>9, RefusedScalars
    <3> QED BY <3>4, <3>7, <3>10 DEF UnsayableArray
  <2>3. CASE ~IsTwoD(items)
    <3>1. PICK k \in Upto(Len(items)) : x = <<k>>
      BY <2>1, <2>3, Zenon DEF ArrayCells
    <3>2. cells[x] = ScalarToVariant(items[x[1] + 1])
      BY <2>1, <2>3, Zenon DEF ArrayCells
    <3>3. k + 1 \in DOMAIN items /\ x[1] = k
      BY <1>1, <3>1 DEF Upto
    <3>4. items[k + 1] \in Cells(items)
      BY <3>3 DEF Cells
    <3>5. IsJsonScalar(items[k + 1]) /\ ~IsArray(items[k + 1])
      BY <1>3, <2>3, <3>4 DEF WellShaped, IsJson, IsJsonScalar, IsArray
    <3>6. Unsayable(items[k + 1])
      BY <2>1, <3>2, <3>3, <3>5, RefusedScalars
    <3> QED BY <3>3, <3>5, <3>6 DEF UnsayableArray
  <2> QED BY <2>2, <2>3
<1> QED BY <1>2, <1>3

LEMMA RefusedArguments ==
    ASSUME NEW j, IsJson(j), IsRefused(JsonToVariant(j, "none"))
    PROVE  IF IsArray(j) THEN UnsayableArray(j[2]) ELSE Unsayable(j)
<1>1. CASE IsArray(j)
  BY <1>1, RefusedArrays DEF JsonToVariant
<1>2. CASE ~IsArray(j)
  <2>1. IsJsonScalar(j)
    BY <1>2 DEF IsJson
  <2> QED BY <1>2, <2>1, RefusedScalars DEF JsonToVariant
<1> QED BY <1>1, <1>2

-----------------------------------------------------------------------------
(* A call on its way.                                                      *)

(* What the call in hand is made of, stage by stage. *)
NamedValues == [i \in DOMAIN job.named |-> job.named[i][2]]

NamedPairs ==
    [i \in DOMAIN job.named |->
        <<job.named[i][1], JsonToVariant(job.named[i][2], job.fault)>>]

Spoken ==
    /\ \A i \in DOMAIN job.args : ~IsRefused(JsonToVariant(job.args[i], job.fault))
    /\ \A i \in DOMAIN job.named : ~IsRefused(JsonToVariant(job.named[i][2], job.fault))

Sent == InvokeMember(job.name, Converted(job.args), NamedPairs)

CallUnderway ==
    /\ at \in {"request", "converted", "invoked", "taken", "refused"} => job \in Calls
    /\ at = "converted" =>
         Spoken /\ carried.args = Converted(job.args) /\ carried.named = NamedPairs
    /\ at = "invoked" => Spoken /\ ~IsRefused(Sent) /\ carried = Sent[2]
    /\ at = "taken" =>
         /\ Spoken /\ ~IsRefused(Sent) /\ Takes(job.arity, Sent[2])
         /\ carried = [p \in {t[1] : t \in Taken(Sent[2])} |->
                          (CHOOSE t \in Taken(Sent[2]) : t[1] = p)[2]]
    /\ at = "refused" => ~Spoken \/ IsRefused(Sent)

(* The arguments are converted in one sequence, the named ones last.       *)
LEMMA ConvertedParts ==
    ASSUME job \in Calls, NEW all, all = Converted(job.args \o NamedValues)
    PROVE  /\ SubSeq(all, 1, Len(job.args)) = Converted(job.args)
           /\ \A i \in DOMAIN job.named :
                 all[Len(job.args) + i] = JsonToVariant(job.named[i][2], job.fault)
           /\ Failures(all) = {} <=> Spoken
<1>1. PICK n \in Nat, k \in Nat : n = Len(job.args) /\ k = Len(job.named)
  BY CallsAssumption
<1>2. DOMAIN job.args = 1 .. n /\ DOMAIN job.named = 1 .. k
  BY <1>1, CallsAssumption
<1>3. /\ NamedValues \in Seq(Cells(NamedValues)) /\ Len(NamedValues) = k
      /\ \A i \in 1 .. k : NamedValues[i] = job.named[i][2]
  BY <1>1, <1>2 DEF NamedValues, Cells
<1>4. PICK S : job.args \in Seq(S) /\ NamedValues \in Seq(S)
  <2>1. /\ job.args \in Seq(Cells(job.args) \cup Cells(NamedValues))
        /\ NamedValues \in Seq(Cells(job.args) \cup Cells(NamedValues))
    BY <1>3, CallsAssumption
  <2> QED BY <2>1
<1>5. PICK both : both = job.args \o NamedValues
  OBVIOUS
<1>6. /\ DOMAIN both = 1 .. n + k
      /\ \A i \in 1 .. n : both[i] = job.args[i]
      /\ \A i \in 1 .. k : both[n + i] = job.named[i][2]
  <2>1. /\ job.args \o NamedValues \in Seq(S)
        /\ Len(job.args \o NamedValues) = Len(job.args) + Len(NamedValues)
        /\ \A i \in 1 .. Len(job.args) + Len(NamedValues) : (job.args \o NamedValues)[i] =
              IF i <= Len(job.args) THEN job.args[i] ELSE NamedValues[i - Len(job.args)]
    BY <1>4, ConcatProperties, Zenon
  <2>2. /\ Len(both) = n + k /\ both \in Seq(S)
        /\ \A i \in 1 .. n + k : both[i] = IF i <= n THEN job.args[i] ELSE NamedValues[i - n]
    BY <2>1, <1>1, <1>3, <1>5, Zenon
  <2>3. \A i \in 1 .. k : both[n + i] = NamedValues[i]
    BY <2>2
  <2> QED BY <1>3, <2>2, <2>3
<1>7. /\ DOMAIN all = 1 .. n + k
      /\ \A i \in 1 .. n : all[i] = JsonToVariant(job.args[i], job.fault)
      /\ \A i \in 1 .. k : all[n + i] = JsonToVariant(job.named[i][2], job.fault)
  <2>1. all = [i \in 1 .. n + k |-> JsonToVariant(both[i], job.fault)]
    BY <1>5, <1>6 DEF Converted
  <2> QED BY <1>6, <2>1
<1>8. SubSeq(all, 1, n) = Converted(job.args)
  <2>1. SubSeq(all, 1, n) = [i \in 1 .. n |-> all[i]]
    OBVIOUS
  <2>2. Converted(job.args) = [i \in 1 .. n |-> JsonToVariant(job.args[i], job.fault)]
    BY <1>2 DEF Converted
  <2> QED BY <1>7, <2>1, <2>2
<1>9. Failures(all) = {} <=> Spoken
  <2>1. Failures(all) = {i \in 1 .. n + k : IsRefused(all[i])}
    BY <1>7 DEF Failures
  <2>2. \A i \in 1 .. n + k : i \in 1 .. n \/ \E m \in 1 .. k : i = n + m
    <3> SUFFICES ASSUME NEW i \in 1 .. n + k, i \notin 1 .. n
                 PROVE  \E m \in 1 .. k : i = n + m
      OBVIOUS
    <3>1. i - n \in 1 .. k /\ i = n + (i - n)
      OBVIOUS
    <3> QED BY <3>1
  <2>3. (\A i \in 1 .. n + k : ~IsRefused(all[i])) <=>
           /\ \A i \in 1 .. n : ~IsRefused(all[i])
           /\ \A m \in 1 .. k : ~IsRefused(all[n + m])
    <3>1. \A m \in 1 .. k : n + m \in 1 .. n + k
      OBVIOUS
    <3>2. \A i \in 1 .. n : i \in 1 .. n + k
      OBVIOUS
    <3> QED BY <2>2, <3>1, <3>2
  <2> QED BY <1>2, <1>7, <2>1, <2>3 DEF Spoken
<1> QED BY <1>1, <1>2, <1>7, <1>8, <1>9

LEMMA InitCall == Init => CallUnderway
BY DEF Init, CallUnderway

LEMMA SameCall ==
    ASSUME job' = job
    PROVE  (Spoken <=> Spoken') /\ Converted(job.args)' = Converted(job.args)
           /\ NamedPairs' = NamedPairs /\ Sent' = Sent /\ NamedValues' = NamedValues
<1>1. NamedPairs' = NamedPairs /\ NamedValues' = NamedValues
  BY DEF NamedPairs, NamedValues
<1>2. Converted(job.args)' = Converted(job.args)
  BY DEF Converted
<1>3. Sent' = Sent
  BY <1>1, <1>2 DEF Sent
<1>4. Spoken <=> Spoken'
  BY DEF Spoken
<1> QED BY <1>1, <1>2, <1>3, <1>4

LEMMA ConversionStep ==
    ASSUME CallUnderway, ConvertArguments
    PROVE  CallUnderway'
<1>1. job \in Calls /\ job' = job /\ at = "request"
  BY DEF CallUnderway, ConvertArguments, Carry
<1>2. PICK all : all = Converted(job.args \o NamedValues)
  OBVIOUS
<1>3. PICK n : n = Len(job.args)
  OBVIOUS
<1>4. IF Failures(all) # {} THEN at' = "refused"
      ELSE /\ at' = "converted"
           /\ carried' = [args |-> SubSeq(all, 1, n),
                          named |-> [i \in DOMAIN job.named |-> <<job.named[i][1], all[n + i]>>]]
  BY <1>2, <1>3 DEF ConvertArguments, Carry, NamedValues
<1>5. /\ SubSeq(all, 1, n) = Converted(job.args)
      /\ \A i \in DOMAIN job.named : all[n + i] = JsonToVariant(job.named[i][2], job.fault)
      /\ Failures(all) = {} <=> Spoken
  BY <1>1, <1>2, <1>3, ConvertedParts
<1>6. [i \in DOMAIN job.named |-> <<job.named[i][1], all[n + i]>>] = NamedPairs
  BY <1>5 DEF NamedPairs
<1>7. CASE Failures(all) # {}
  <2>1. at' = "refused" /\ ~Spoken'
    BY <1>1, <1>4, <1>5, <1>7, SameCall
  <2> QED BY <1>1, <2>1 DEF CallUnderway
<1>8. CASE Failures(all) = {}
  <2>1. at' = "converted" /\ Spoken'
    BY <1>1, <1>4, <1>5, <1>8, SameCall
  <2>2. carried' = [args |-> Converted(job.args), named |-> NamedPairs]
    BY <1>4, <1>5, <1>6, <1>8
  <2>3. carried'.args = Converted(job.args) /\ carried'.named = NamedPairs
    BY <2>2
  <2>4. carried'.args = Converted(job.args)' /\ carried'.named = NamedPairs'
    BY <1>1, <2>3, SameCall, Zenon
  <2> QED BY <1>1, <2>1, <2>4 DEF CallUnderway
<1> QED BY <1>7, <1>8

LEMMA InvocationStep ==
    ASSUME CallUnderway, Invoke
    PROVE  CallUnderway'
<1>1. /\ job \in Calls /\ job' = job /\ at = "converted" /\ Spoken
      /\ carried.args = Converted(job.args) /\ carried.named = NamedPairs
  BY DEF CallUnderway, Invoke, Carry
<1>2. IF IsRefused(Sent) THEN at' = "refused" ELSE at' = "invoked" /\ carried' = Sent[2]
  BY <1>1 DEF Invoke, Carry, Sent
<1>3. CASE IsRefused(Sent)
  BY <1>1, <1>2, <1>3, SameCall DEF CallUnderway
<1>4. CASE ~IsRefused(Sent)
  BY <1>1, <1>2, <1>4, SameCall DEF CallUnderway
<1> QED BY <1>3, <1>4

LEMMA TakingStep ==
    ASSUME CallUnderway, CalleeTakes
    PROVE  CallUnderway'
<1>1. /\ job \in Calls /\ job' = job /\ at = "invoked" /\ Spoken /\ ~IsRefused(Sent)
      /\ carried = Sent[2]
  BY DEF CallUnderway, CalleeTakes, Carry
<1>2. CASE ~Takes(job.arity, carried)
  <2>1. at' = "answered"
    BY <1>2 DEF CalleeTakes, Carry
  <2> QED BY <2>1 DEF CallUnderway
<1>3. CASE Takes(job.arity, carried)
  <2>1. at' = "taken" /\ carried' = [p \in {t[1] : t \in Taken(Sent[2])} |->
                          (CHOOSE t \in Taken(Sent[2]) : t[1] = p)[2]]
    BY <1>1, <1>3 DEF CalleeTakes, Carry
  <2>2. Takes(job.arity, Sent[2])
    BY <1>1, <1>3
  <2> QED BY <1>1, <2>1, <2>2, SameCall DEF CallUnderway
<1> QED BY <1>2, <1>3

LEMMA NextCall ==
    ASSUME CallUnderway, [Next]_vars
    PROVE  CallUnderway'
<1>1. CASE ConvertArguments
  BY <1>1, ConversionStep
<1>2. CASE Invoke
  BY <1>2, InvocationStep
<1>3. CASE CalleeTakes
  BY <1>3, TakingStep
<1>4. CASE Answer \/ SinkInvoke \/ ForwardEvent \/ Read \/ WriteBack \/ LoadConstants \/ HandBack
           \/ Subscribe
  <2>1. at' \notin {"request", "converted", "invoked", "taken", "refused"}
    BY <1>4 DEF Answer, SinkInvoke, ForwardEvent, Read, WriteBack, LoadConstants, HandBack,
                Subscribe, Carry
  <2> QED BY <2>1 DEF CallUnderway
<1>5. CASE UNCHANGED vars
  <2>1. job' = job /\ at' = at /\ carried' = carried
    BY <1>5 DEF vars
  <2> QED BY <2>1, SameCall DEF CallUnderway
<1> QED BY <1>1, <1>2, <1>3, <1>4, <1>5 DEF Next

(* run_invoke (session.rs): what a call carries at each stage follows from *)
(* the request it began as.                                                *)
THEOREM Calling == Spec => []CallUnderway
<1> QED BY InitCall, NextCall, PTL DEF Spec

(* A callee that takes a call has one value for each parameter.            *)
LEMMA TakenOnce ==
    ASSUME NEW c, NEW arity, Takes(arity, c), NEW t \in Taken(c), NEW f,
           f = [p \in {u[1] : u \in Taken(c)} |-> (CHOOSE u \in Taken(c) : u[1] = p)[2]]
    PROVE  t[1] \in DOMAIN f /\ f[t[1]] = t[2]
<1>1. \A u \in Taken(c) : u[1] = t[1] => u = t
  BY DEF Takes
<1>2. t[1] \in {u[1] : u \in Taken(c)}
  OBVIOUS
<1>3. (CHOOSE u \in Taken(c) : u[1] = t[1]) = t
  BY <1>1
<1> QED BY <1>2, <1>3

(* The positional arguments, sent in reverse behind the named, reach the   *)
(* parameters counted from the first.                                      *)
LEMMA ArgumentsAreTaken ==
    ASSUME NEW S, NEW named \in Seq(S), NEW pos \in Seq(S), NEW ids, Len(ids) = Len(named),
           NEW c, c.ids = ids, c.rgvarg = named \o Reverse(pos)
    PROVE  /\ Len(c.rgvarg) = Len(named) + Len(pos)
           /\ \A i \in DOMAIN pos : <<i - 1, pos[i]>> \in Taken(c)
           /\ \A i \in DOMAIN named : <<ids[i], named[i]>> \in Taken(c)
<1>1. PICK n \in Nat, k \in Nat : n = Len(pos) /\ k = Len(named)
  OBVIOUS
<1>2. /\ Reverse(pos) \in Seq(S) /\ Len(Reverse(pos)) = n
      /\ \A i \in 1 .. n : Reverse(pos)[i] = pos[n - i + 1]
  BY <1>1 DEF Reverse
<1>3. PICK back : back = Reverse(pos)
  OBVIOUS
<1>4. /\ named \o back \in Seq(S) /\ Len(named \o back) = Len(named) + Len(back)
      /\ \A i \in 1 .. Len(named) + Len(back) :
            (named \o back)[i] = IF i <= Len(named) THEN named[i] ELSE back[i - Len(named)]
  BY <1>2, <1>3, ConcatProperties
<1>5. PICK all : all = c.rgvarg
  OBVIOUS
<1>6. /\ Len(all) = k + n
      /\ \A i \in 1 .. k + n : all[i] = IF i <= k THEN named[i] ELSE back[i - k]
  BY <1>1, <1>2, <1>3, <1>4, <1>5, Zenon
<1>7. /\ \A i \in 1 .. k : <<ids[i], all[i]>> \in Taken(c)
      /\ \A i \in 0 .. k + n - k - 1 : <<i, all[k + n - i]>> \in Taken(c)
  <2>1. PICK N, K, I, R : N = Len(R) /\ K = Len(I) /\ I = c.ids /\ R = c.rgvarg
    OBVIOUS
  <2>2. Taken(c) = {<<I[i], R[i]>> : i \in 1 .. K} \cup {<<i, R[N - i]>> : i \in 0 .. N - K - 1}
    BY <2>1, Zenon DEF Taken
  <2>3. N = k + n /\ K = k /\ I = ids /\ R = all
    BY <1>1, <1>5, <1>6, <2>1
  <2>4. \A i \in 1 .. K : <<I[i], R[i]>> \in Taken(c)
    BY <2>2
  <2>5. \A i \in 0 .. N - K - 1 : <<i, R[N - i]>> \in Taken(c)
    BY <2>2
  <2>6. \A i \in 1 .. k : <<ids[i], all[i]>> \in Taken(c)
    BY <2>3, <2>4
  <2>7. ASSUME NEW i \in 0 .. k + n - k - 1
        PROVE  <<i, all[k + n - i]>> \in Taken(c)
    <3>1. i \in 0 .. N - K - 1
      BY <2>3
    <3>2. <<i, R[N - i]>> \in Taken(c)
      BY <2>5, <3>1
    <3> QED BY <2>3, <3>2
  <2> QED BY <2>6, <2>7
<1>8. \A i \in 1 .. n : <<i - 1, pos[i]>> \in Taken(c)
  <2> SUFFICES ASSUME NEW i \in 1 .. n
               PROVE  <<i - 1, pos[i]>> \in Taken(c)
    OBVIOUS
  <2>1. PICK j \in Int, m \in Int : j = i - 1 /\ m = k + n - j
    OBVIOUS
  <2>2. j \in 0 .. k + n - k - 1
    BY <2>1
  <2>3. m \in 1 .. k + n /\ ~(m <= k)
    BY <2>1
  <2>4. m - k = n - i + 1
    BY <2>1
  <2>5. n - i + 1 \in 1 .. n /\ n - (n - i + 1) + 1 = i
    OBVIOUS
  <2>6. all[m] = back[m - k]
    BY <1>6, <2>3
  <2>7. all[m] = back[n - i + 1]
    BY <2>4, <2>6
  <2>8. back[n - i + 1] = pos[i]
    BY <1>2, <1>3, <2>5
  <2>9. <<j, all[k + n - j]>> \in Taken(c)
    BY <1>7, <2>2
  <2> QED BY <2>1, <2>7, <2>8, <2>9
<1>9. \A i \in 1 .. k : <<ids[i], named[i]>> \in Taken(c)
  <2> SUFFICES ASSUME NEW i \in 1 .. k
               PROVE  <<ids[i], named[i]>> \in Taken(c)
    OBVIOUS
  <2>1. all[i] = named[i]
    BY <1>6
  <2> QED BY <1>7, <2>1
<1> QED BY <1>1, <1>5, <1>6, <1>8, <1>9

LEMMA ConvertedIsSeq ==
    ASSUME job \in Calls
    PROVE  /\ Converted(job.args) \in Seq(Cells(Converted(job.args)))
           /\ Len(Converted(job.args)) = Len(job.args)
           /\ DOMAIN Converted(job.args) = DOMAIN job.args
           /\ \A i \in DOMAIN job.args : Converted(job.args)[i] = JsonToVariant(job.args[i], job.fault)
<1>1. PICK n \in Nat : n = Len(job.args) /\ DOMAIN job.args = 1 .. n
  BY CallsAssumption
<1>2. PICK f : f = Converted(job.args)
  OBVIOUS
<1>3. f = [i \in 1 .. n |-> JsonToVariant(job.args[i], job.fault)]
  BY <1>1, <1>2 DEF Converted
<1>4. \A i \in 1 .. n : f[i] \in Cells(f)
  BY <1>3 DEF Cells
<1>5. f \in Seq(Cells(f)) /\ Len(f) = n
  BY <1>3, <1>4
<1> QED BY <1>1, <1>2, <1>3, <1>5

LEMMA PositionArrives ==
    ASSUME job \in Calls, Spoken, NEW i \in DOMAIN job.args
    PROVE  ArgumentArrived(Converted(job.args)[i], job.args[i])
<1>1. IsJson(job.args[i])
  BY CallsAssumption DEF Cells
<1>2. ~IsRefused(JsonToVariant(job.args[i], job.fault))
  BY DEF Spoken
<1> QED BY <1>1, <1>2, ArgumentsArrive, ConvertedIsSeq

LEMMA NameArrives ==
    ASSUME job \in Calls, Spoken, NEW i \in DOMAIN job.named
    PROVE  ArgumentArrived(NamedPairs[i][2], job.named[i][2])
<1>1. IsJson(job.named[i][2])
  BY CallsAssumption
<1>2. ~IsRefused(JsonToVariant(job.named[i][2], job.fault))
  BY DEF Spoken
<1>3. NamedPairs[i][2] = JsonToVariant(job.named[i][2], job.fault)
  BY DEF NamedPairs
<1> QED BY <1>1, <1>2, <1>3, ArgumentsArrive

LEMMA DefaultArrives ==
    ASSUME CallUnderway, at = "taken", job.name[1] = "default"
    PROVE  \A i \in DOMAIN job.args : ArgumentArrived(carried[i - 1], job.args[i])
<1>1. /\ job \in Calls /\ Spoken /\ Takes(job.arity, Sent[2])
      /\ carried = [p \in {t[1] : t \in Taken(Sent[2])} |->
                      (CHOOSE t \in Taken(Sent[2]) : t[1] = p)[2]]
  BY DEF CallUnderway
<1>2. PICK c, pos : c = Sent[2] /\ pos = Converted(job.args)
  OBVIOUS
<1>3. c.ids = <<>> /\ c.rgvarg = <<>> \o Reverse(pos)
  <2>1. PICK x : x = Params(DISPID_VALUE, "method or get", pos, <<>>, <<>>)
    OBVIOUS
  <2>2. Sent = x
    BY <1>2, <2>1 DEF Sent, InvokeMember
  <2>3. x[2].ids = <<>> /\ x[2].rgvarg = <<>> \o Reverse(pos)
    BY <2>1, Zenon DEF Params, Call
  <2> QED BY <1>2, <2>2, <2>3
<1>4. pos \in Seq(Cells(pos)) /\ DOMAIN pos = DOMAIN job.args
  BY <1>1, <1>2, ConvertedIsSeq
<1>5. \A i \in DOMAIN pos : <<i - 1, pos[i]>> \in Taken(c)
  <2>1. <<>> \in Seq(Cells(pos)) /\ Len(<<>>) = Len(<<>>)
    OBVIOUS
  <2> QED BY <1>3, <1>4, <2>1, ArgumentsAreTaken, Zenon
<1> SUFFICES ASSUME NEW i \in DOMAIN job.args
             PROVE  ArgumentArrived(carried[i - 1], job.args[i])
  OBVIOUS
<1>6. carried[i - 1] = pos[i]
  <2>1. PICK t : t = <<i - 1, pos[i]>>
    OBVIOUS
  <2>2. t \in Taken(c)
    BY <1>4, <1>5, <2>1
  <2>3. carried[t[1]] = t[2]
    BY <1>1, <1>2, <2>2, TakenOnce
  <2> QED BY <2>1, <2>3
<1> QED BY <1>1, <1>2, <1>6, PositionArrives

LEMMA PutArrives ==
    ASSUME CallUnderway, at = "taken", job.name[1] = "put"
    PROVE  /\ DOMAIN carried = {DISPID_PROPERTYPUT}
           /\ ArgumentArrived(carried[DISPID_PROPERTYPUT], job.args[1])
<1>1. /\ job \in Calls /\ Spoken /\ ~IsRefused(Sent) /\ Takes(job.arity, Sent[2])
      /\ carried = [p \in {t[1] : t \in Taken(Sent[2])} |->
                      (CHOOSE t \in Taken(Sent[2]) : t[1] = p)[2]]
  BY DEF CallUnderway
<1>2. PICK c, pos : c = Sent[2] /\ pos = Converted(job.args)
  OBVIOUS
<1>3. /\ pos # <<>>
      /\ Sent = Params(GetDispids(job.name[2], <<>>)[1], "put", <<>>,
                       <<DISPID_PROPERTYPUT>>, <<pos[1]>>)
  <2>1. Sent = IF ~HasNames(job.name[2], <<>>) THEN Refused("DISP_E_UNKNOWNNAME")
            ELSE IF pos = <<>> THEN Refused("E_INVALIDARG")
            ELSE Params(GetDispids(job.name[2], <<>>)[1], "put", <<>>,
                        <<DISPID_PROPERTYPUT>>, <<pos[1]>>)
    BY <1>2 DEF Sent, InvokeMember
  <2>2. \A code : IsRefused(Refused(code))
    BY DEF IsRefused, Refused
  <2> QED BY <1>1, <2>1, <2>2
<1>4. PICK x, id : x = pos[1] /\ id = DISPID_PROPERTYPUT
  OBVIOUS
<1>5. c.ids = <<id>> /\ c.rgvarg = <<x>>
  <2>1. c.ids = <<id>> /\ c.rgvarg = <<x>> \o Reverse(<<>>)
    BY <1>2, <1>3, <1>4 DEF Params, Call
  <2>2. Reverse(<<>>) = <<>> /\ <<x>> \o <<>> = <<x>>
    BY DEF Reverse
  <2> QED BY <2>1, <2>2
<1>6. Taken(c) = {<<id, x>>}
  <2>1. PICK one : one = c.rgvarg
    OBVIOUS
  <2>2. Len(one) = 1 /\ Len(c.ids) = 1 /\ one[1] = x /\ c.ids[1] = id
    BY <1>5, <2>1
  <2>3. Taken(c) = {<<c.ids[i], one[i]>> : i \in 1 .. 1}
                   \cup {<<i, one[1 - i]>> : i \in 0 .. 1 - 1 - 1}
    BY <2>1, <2>2, Zenon DEF Taken
  <2> QED BY <2>2, <2>3
<1>7. DOMAIN carried = {id}
  BY <1>1, <1>2, <1>6
<1>8. carried[id] = x
  <2>1. PICK t : t = <<id, x>>
    OBVIOUS
  <2>2. carried[t[1]] = t[2]
    BY <1>1, <1>2, <1>6, <2>1, TakenOnce
  <2> QED BY <2>1, <2>2
<1>9. 1 \in DOMAIN job.args
  <2>1. pos \in Seq(Cells(pos)) /\ DOMAIN pos = DOMAIN job.args
    BY <1>1, <1>2, ConvertedIsSeq
  <2>2. 1 \in DOMAIN pos
    BY <1>3, <2>1
  <2> QED BY <2>1, <2>2
<1>10. ArgumentArrived(x, job.args[1])
  BY <1>1, <1>2, <1>4, <1>9, PositionArrives
<1> QED BY <1>4, <1>7, <1>8, <1>10

GivenNames == [i \in DOMAIN NamedPairs |-> NamedPairs[i][1]]
GivenValues == [i \in DOMAIN NamedPairs |-> NamedPairs[i][2]]

LEMMA NamesAndValues ==
    ASSUME job \in Calls
    PROVE  /\ DOMAIN job.named = 1 .. Len(job.named)
           /\ GivenNames \in Seq(Cells(GivenNames)) /\ Len(GivenNames) = Len(job.named)
           /\ \A i \in DOMAIN job.named : GivenNames[i] = job.named[i][1]
           /\ GivenValues \in Seq(Cells(GivenValues)) /\ Len(GivenValues) = Len(job.named)
           /\ \A i \in DOMAIN job.named : GivenValues[i] = NamedPairs[i][2]
<1>1. PICK k \in Nat : k = Len(job.named) /\ DOMAIN job.named = 1 .. k
  BY CallsAssumption
<1>2. DOMAIN NamedPairs = 1 .. k /\ \A i \in 1 .. k : NamedPairs[i][1] = job.named[i][1]
  BY <1>1 DEF NamedPairs
<1>3. /\ GivenNames = [i \in 1 .. k |-> NamedPairs[i][1]]
      /\ GivenValues = [i \in 1 .. k |-> NamedPairs[i][2]]
  BY <1>2 DEF GivenNames, GivenValues
<1>4. PICK f, g : f = GivenNames /\ g = GivenValues
  OBVIOUS
<1>5. (\A i \in 1 .. k : f[i] \in Cells(f)) /\ (\A i \in 1 .. k : g[i] \in Cells(g))
  BY <1>3, <1>4 DEF Cells
<1>6. f \in Seq(Cells(f)) /\ Len(f) = k
  BY <1>3, <1>4, <1>5
<1>7. g \in Seq(Cells(g)) /\ Len(g) = k
  BY <1>3, <1>4, <1>5
<1> QED BY <1>1, <1>2, <1>3, <1>4, <1>6, <1>7

LEMMA MemberIsSent ==
    ASSUME job \in Calls, job.name[1] = "member", ~IsRefused(Sent)
    PROVE  /\ HasNames(job.name[2], GivenNames)
           /\ Sent[2].ids = Tail(GetDispids(job.name[2], GivenNames))
           /\ Sent[2].rgvarg = GivenValues \o Reverse(Converted(job.args))
<1>1. PICK x : x = Params(GetDispids(job.name[2], GivenNames)[1], "method or get", Converted(job.args),
                          Tail(GetDispids(job.name[2], GivenNames)), GivenValues)
  OBVIOUS
<1>2. Sent = IF ~HasNames(job.name[2], GivenNames) THEN Refused("DISP_E_UNKNOWNNAME") ELSE x
  BY <1>1 DEF Sent, InvokeMember, GivenNames, GivenValues
<1>3. HasNames(job.name[2], GivenNames) /\ Sent = x
  <2>1. IsRefused(Refused("DISP_E_UNKNOWNNAME"))
    BY DEF IsRefused, Refused
  <2> QED BY <1>2, <2>1
<1>4. /\ x[2].ids = Tail(GetDispids(job.name[2], GivenNames))
      /\ x[2].rgvarg = GivenValues \o Reverse(Converted(job.args))
  BY <1>1, Zenon DEF Params, Call
<1> QED BY <1>3, <1>4

LEMMA IdsOfNames ==
    ASSUME NEW member, NEW names, names \in Seq(Cells(names)), HasNames(member, names)
    PROVE  LET ids == Tail(GetDispids(member, names)) IN
           /\ Len(ids) = Len(names)
           /\ \A i \in DOMAIN names : \E p \in DOMAIN Members[member].params :
                 Members[member].params[p] = names[i] /\ ids[i] = p - 1
<1>1. PICK k \in Nat : k = Len(names) /\ DOMAIN names = 1 .. k
  OBVIOUS
<1>2. PICK params : params = Members[member].params
  OBVIOUS
<1>3. PICK f : f = [i \in 1 .. k |-> (CHOOSE p \in DOMAIN params : params[p] = names[i]) - 1]
  OBVIOUS
<1>4. PICK id, ids : id = Members[member].id /\ ids = Tail(GetDispids(member, names))
  OBVIOUS
<1>5. GetDispids(member, names) = <<id>> \o f
  BY <1>1, <1>2, <1>3, <1>4 DEF GetDispids
<1>6. PICK S : S = {id} \cup Cells(f)
  OBVIOUS
<1>7. <<id>> \in Seq(S) /\ f \in Seq(S) /\ Len(f) = k
  <2>1. \A i \in 1 .. k : f[i] \in S
    <3>1. DOMAIN f = 1 .. k
      BY <1>3
    <3>2. \A i \in 1 .. k : f[i] \in Cells(f)
      BY <3>1 DEF Cells
    <3> QED BY <3>2, <1>6
  <2>2. f \in [1 .. k -> S]
    BY <1>3, <2>1
  <2>3. id \in S
    BY <1>6
  <2>4. <<id>> \in Seq(S)
    BY <2>3
  <2>5. f \in Seq(S)
    BY <2>2
  <2>6. Len(f) = k
    <3>1. DOMAIN f = 1 .. k
      BY <2>2
    <3> QED BY <2>5, <3>1
  <2> QED BY <2>4, <2>5, <2>6
<1>8. PICK all : all = <<id>> \o f
  OBVIOUS
<1>9. all \in Seq(S) /\ Len(all) = 1 + k /\ \A i \in 1 .. k : all[i + 1] = f[i]
  <2>1. /\ <<id>> \o f \in Seq(S) /\ Len(<<id>> \o f) = Len(<<id>>) + Len(f)
        /\ \A i \in 1 .. Len(<<id>>) + Len(f) :
              (<<id>> \o f)[i] = IF i <= Len(<<id>>) THEN <<id>>[i] ELSE f[i - Len(<<id>>)]
    BY <1>7, ConcatProperties, Zenon
  <2>2. /\ all \in Seq(S) /\ Len(all) = 1 + k
        /\ \A i \in 1 .. 1 + k : all[i] = IF i <= 1 THEN <<id>>[i] ELSE f[i - 1]
    <3>1. Len(<<id>>) = 1
      OBVIOUS
    <3> QED BY <1>7, <1>8, <2>1, <3>1
  <2>3. ASSUME NEW i \in 1 .. k
        PROVE  all[i + 1] = f[i]
    <3>1. i + 1 \in 1 .. 1 + k /\ ~(i + 1 <= 1) /\ i + 1 - 1 = i
      OBVIOUS
    <3> QED BY <2>2, <3>1
  <2> QED BY <2>2, <2>3
<1>10. Len(ids) = k /\ \A i \in 1 .. k : ids[i] = f[i]
  <2>1. ids = Tail(all)
    BY <1>4, <1>5, <1>8
  <2>2. Len(ids) = k /\ \A i \in 1 .. k : ids[i] = all[i + 1]
    <3>1. all # <<>>
      BY <1>9
    <3>2. Len(Tail(all)) = Len(all) - 1 /\ \A i \in 1 .. Len(Tail(all)) : Tail(all)[i] = all[i + 1]
      BY <1>9, <3>1, HeadTailProperties
    <3>3. Len(Tail(all)) = k
      BY <1>9, <3>2
    <3> QED BY <2>1, <3>2, <3>3
  <2> QED BY <1>9, <2>2
<1>11. ASSUME NEW i \in 1 .. k
       PROVE  \E p \in DOMAIN params : params[p] = names[i] /\ ids[i] = p - 1
  <2>1. names[i] \in ToSet(names)
    BY <1>1 DEF ToSet
  <2>2. names[i] \in ToSet(params)
    BY <1>2, <2>1 DEF HasNames
  <2>3. \E p \in DOMAIN params : params[p] = names[i]
    BY <2>2 DEF ToSet
  <2>4. PICK p : p = CHOOSE q \in DOMAIN params : params[q] = names[i]
    OBVIOUS
  <2>5. p \in DOMAIN params /\ params[p] = names[i]
    BY <2>3, <2>4
  <2>6. f[i] = p - 1
    BY <1>3, <2>4
  <2> QED BY <1>10, <2>5, <2>6
<1> QED BY <1>1, <1>2, <1>4, <1>10, <1>11

LEMMA MemberArrives ==
    ASSUME CallUnderway, at = "taken", job.name[1] = "member"
    PROVE  /\ \A i \in DOMAIN job.args : ArgumentArrived(carried[i - 1], job.args[i])
           /\ Cardinality(DOMAIN carried) = Len(job.args) + Len(job.named)
           /\ \A n \in DOMAIN job.named : \E p \in DOMAIN Members[job.name[2]].params :
                 /\ Members[job.name[2]].params[p] = job.named[n][1]
                 /\ ArgumentArrived(carried[p - 1], job.named[n][2])
<1>1. /\ job \in Calls /\ Spoken /\ ~IsRefused(Sent) /\ Takes(job.arity, Sent[2])
      /\ carried = [p \in {t[1] : t \in Taken(Sent[2])} |->
                      (CHOOSE t \in Taken(Sent[2]) : t[1] = p)[2]]
  BY DEF CallUnderway
<1>2. PICK c, pos, named, names, params :
        /\ c = Sent[2] /\ pos = Converted(job.args)
        /\ named = GivenValues /\ names = GivenNames /\ params = Members[job.name[2]].params
  OBVIOUS
<1>3. /\ HasNames(job.name[2], names)
      /\ c.ids = Tail(GetDispids(job.name[2], names))
      /\ c.rgvarg = named \o Reverse(pos)
  BY <1>1, <1>2, MemberIsSent
<1>4. /\ pos \in Seq(Cells(pos)) /\ DOMAIN pos = DOMAIN job.args /\ Len(pos) = Len(job.args)
  BY <1>1, <1>2, ConvertedIsSeq
<1>5. /\ DOMAIN job.named = 1 .. Len(job.named)
      /\ names \in Seq(Cells(names)) /\ Len(names) = Len(job.named)
      /\ \A i \in DOMAIN job.named : names[i] = job.named[i][1]
      /\ named \in Seq(Cells(named)) /\ Len(named) = Len(job.named)
      /\ \A i \in DOMAIN job.named : named[i] = NamedPairs[i][2]
  BY <1>1, <1>2, NamesAndValues
<1>6. /\ Len(c.ids) = Len(names)
      /\ \A i \in DOMAIN names : \E p \in DOMAIN params :
            params[p] = names[i] /\ c.ids[i] = p - 1
  <2>1. PICK member, ids : member = job.name[2] /\ ids = c.ids
    OBVIOUS
  <2>2. HasNames(member, names) /\ ids = Tail(GetDispids(member, names))
    BY <1>3, <2>1
  <2>3. /\ Len(ids) = Len(names)
        /\ \A i \in DOMAIN names : \E p \in DOMAIN Members[member].params :
              Members[member].params[p] = names[i] /\ ids[i] = p - 1
    BY <1>5, <2>2, IdsOfNames
  <2> QED BY <1>2, <2>1, <2>3
<1>7. PICK S : S = Cells(pos) \cup Cells(named)
  OBVIOUS
<1>8. pos \in Seq(S) /\ named \in Seq(S)
  BY <1>4, <1>5, <1>7
<1>9. /\ Len(c.rgvarg) = Len(named) + Len(pos)
      /\ \A i \in DOMAIN pos : <<i - 1, pos[i]>> \in Taken(c)
      /\ \A i \in DOMAIN named : <<c.ids[i], named[i]>> \in Taken(c)
  <2>1. Len(c.ids) = Len(named)
    BY <1>5, <1>6
  <2> QED BY <1>3, <1>8, <2>1, ArgumentsAreTaken, Zenon
<1>10. \A t \in Taken(c) : carried[t[1]] = t[2]
  BY <1>1, <1>2, TakenOnce
<1>11. ASSUME NEW i \in DOMAIN job.args
       PROVE  ArgumentArrived(carried[i - 1], job.args[i])
  <2>1. PICK t : t = <<i - 1, pos[i]>>
    OBVIOUS
  <2>2. t \in Taken(c)
    BY <1>4, <1>9, <2>1
  <2>3. carried[i - 1] = pos[i]
    BY <1>10, <2>1, <2>2
  <2> QED BY <1>1, <1>2, <2>3, PositionArrives
<1>12. Cardinality(DOMAIN carried) = Len(job.args) + Len(job.named)
  <2>1. DOMAIN carried = {t[1] : t \in Taken(c)}
    BY <1>1, <1>2
  <2>2. Cardinality({t[1] : t \in Taken(c)}) = Len(c.rgvarg)
    BY <1>1, <1>2, Zenon DEF Takes
  <2>3. Len(named) + Len(pos) = Len(pos) + Len(named)
    BY <1>8
  <2> QED BY <1>4, <1>5, <1>9, <2>1, <2>2, <2>3
<1>13. ASSUME NEW n \in DOMAIN job.named
       PROVE  \E p \in DOMAIN params :
                 params[p] = job.named[n][1] /\ ArgumentArrived(carried[p - 1], job.named[n][2])
  <2>1. n \in DOMAIN names /\ n \in DOMAIN named
    BY <1>5
  <2>2. PICK p \in DOMAIN params : params[p] = names[n] /\ c.ids[n] = p - 1
    BY <1>6, <2>1
  <2>3. PICK t : t = <<c.ids[n], named[n]>>
    OBVIOUS
  <2>4. t \in Taken(c)
    BY <1>9, <2>1, <2>3
  <2>5. carried[p - 1] = NamedPairs[n][2]
    BY <1>5, <1>10, <2>2, <2>3, <2>4
  <2>6. ArgumentArrived(carried[p - 1], job.named[n][2])
    BY <1>1, <2>5, NameArrives
  <2> QED BY <1>5, <2>2, <2>6
<1> QED BY <1>2, <1>11, <1>12, <1>13

(* A refusal has one of the causes the property admits.                    *)
LEMMA RefusedForCause ==
    ASSUME CallUnderway, at = "refused"
    PROVE  \/ job.fault # "none"
           \/ \E i \in DOMAIN job.args :
                 IF IsArray(job.args[i]) THEN UnsayableArray(job.args[i][2]) ELSE Unsayable(job.args[i])
           \/ \E i \in DOMAIN job.named : Unsayable(job.named[i][2])
           \/ job.name[1] # "default" /\ job.name[2] \notin DOMAIN Members
           \/ job.name[1] = "put" /\ job.args = <<>>
           \/ job.name[1] = "member" /\ \E i \in DOMAIN job.named :
                 job.named[i][1] \notin ToSet(Members[job.name[2]].params)
<1>1. job \in Calls /\ (~Spoken \/ IsRefused(Sent))
  BY DEF CallUnderway
<1>2. CASE ~Spoken
  <2>1. CASE \E i \in DOMAIN job.args : IsRefused(JsonToVariant(job.args[i], job.fault))
    <3>1. PICK i \in DOMAIN job.args : IsRefused(JsonToVariant(job.args[i], job.fault))
      BY <2>1
    <3>2. IsJson(job.args[i])
      BY <1>1, CallsAssumption DEF Cells
    <3>3. job.fault = "none" => IF IsArray(job.args[i]) THEN UnsayableArray(job.args[i][2])
                                ELSE Unsayable(job.args[i])
      BY <3>1, <3>2, RefusedArguments
    <3> QED BY <3>3
  <2>2. CASE \E i \in DOMAIN job.named : IsRefused(JsonToVariant(job.named[i][2], job.fault))
    <3>1. PICK i \in DOMAIN job.named : IsRefused(JsonToVariant(job.named[i][2], job.fault))
      BY <2>2
    <3>2. IsJson(job.named[i][2])
      BY <1>1, CallsAssumption
    <3>3. job.fault = "none" => Unsayable(job.named[i][2])
      <4>1. IsArray(job.named[i][2]) => Unsayable(job.named[i][2])
        BY DEF Unsayable
      <4> QED BY <3>1, <3>2, <4>1, RefusedArguments
    <3> QED BY <3>3
  <2> QED BY <1>2, <2>1, <2>2 DEF Spoken
<1>3. CASE IsRefused(Sent)
  <2>1. \A d, f, p, i, n : ~IsRefused(Params(d, f, p, i, n))
    BY DEF IsRefused, Params, Call
  <2>2. job.name[1] \in {"default", "put", "member"}
    BY <1>1, CallsAssumption
  <2>3. CASE job.name[1] = "default"
    <3>1. PICK x : x = Params(DISPID_VALUE, "method or get", Converted(job.args), <<>>, <<>>)
      OBVIOUS
    <3>2. Sent = x
      BY <2>3, <3>1 DEF Sent, InvokeMember
    <3> QED BY <1>3, <2>1, <3>1, <3>2, Zenon
  <2>4. CASE job.name[1] = "put"
    <3>1. PICK x, pos : /\ pos = Converted(job.args)
                        /\ x = Params(GetDispids(job.name[2], <<>>)[1], "put", <<>>,
                                      <<DISPID_PROPERTYPUT>>, <<pos[1]>>)
      OBVIOUS
    <3>2. Sent = IF ~HasNames(job.name[2], <<>>) THEN Refused("DISP_E_UNKNOWNNAME")
                 ELSE IF pos = <<>> THEN Refused("E_INVALIDARG") ELSE x
      BY <2>4, <3>1 DEF Sent, InvokeMember
    <3>3. ~IsRefused(x)
      BY <2>1, <3>1, Zenon
    <3>4. ~HasNames(job.name[2], <<>>) \/ pos = <<>>
      BY <1>3, <3>2, <3>3
    <3>5. HasNames(job.name[2], <<>>) <=> job.name[2] \in DOMAIN Members
      BY DEF HasNames, ToSet
    <3>6. pos = <<>> => job.args = <<>>
      BY <1>1, <3>1, ConvertedIsSeq, CallsAssumption
    <3> QED BY <2>4, <3>4, <3>5, <3>6
  <2>5. CASE job.name[1] = "member"
    <3>1. PICK x : x = Params(GetDispids(job.name[2], GivenNames)[1], "method or get",
                              Converted(job.args), Tail(GetDispids(job.name[2], GivenNames)),
                              GivenValues)
      OBVIOUS
    <3>2. Sent = IF ~HasNames(job.name[2], GivenNames) THEN Refused("DISP_E_UNKNOWNNAME") ELSE x
      BY <2>5, <3>1 DEF Sent, InvokeMember, GivenNames, GivenValues
    <3>3. ~IsRefused(x)
      BY <2>1, <3>1, Zenon
    <3>4. ~HasNames(job.name[2], GivenNames)
      BY <1>3, <3>2, <3>3
    <3>5. CASE job.name[2] \notin DOMAIN Members
      BY <2>5, <3>5
    <3>6. CASE ~(ToSet(GivenNames) \subseteq ToSet(Members[job.name[2]].params))
      <4>1. PICK n \in ToSet(GivenNames) : n \notin ToSet(Members[job.name[2]].params)
        BY <3>6
      <4>2. PICK i \in DOMAIN GivenNames : n = GivenNames[i]
        BY <4>1 DEF ToSet
      <4>3. i \in DOMAIN job.named /\ n = job.named[i][1]
        BY <1>1, <4>2, NamesAndValues
      <4> QED BY <2>5, <4>1, <4>3
    <3> QED BY <3>4, <3>5, <3>6 DEF HasNames
  <2> QED BY <2>2, <2>3, <2>4, <2>5
<1> QED BY <1>1, <1>2, <1>3

(* json_to_variant, invoke_member, raw_invoke (session.rs, dispatch.rs):   *)
(* every argument reaches the parameter it was given for as what the client *)
(* said, and a call is refused only for cause.                             *)
THEOREM ArgumentsAlwaysArrive == Spec => []ArgumentsArriveFaithfully
<1>1. CallUnderway => ArgumentsArriveFaithfully
  <2> SUFFICES ASSUME CallUnderway
               PROVE  ArgumentsArriveFaithfully
    OBVIOUS
  <2>1. at = "taken" /\ job.name[1] = "put" =>
          /\ DOMAIN carried = {DISPID_PROPERTYPUT}
          /\ ArgumentArrived(carried[DISPID_PROPERTYPUT], job.args[1])
    BY PutArrives
  <2>2. at = "taken" => job.name[1] \in {"default", "put", "member"}
    BY CallsAssumption DEF CallUnderway
  <2>3. at = "taken" /\ job.name[1] # "put" =>
          \A i \in DOMAIN job.args : ArgumentArrived(carried[i - 1], job.args[i])
    BY <2>2, DefaultArrives, MemberArrives
  <2>4. at = "taken" /\ job.name[1] = "member" =>
          /\ Cardinality(DOMAIN carried) = Len(job.args) + Len(job.named)
          /\ \A n \in DOMAIN job.named : \E p \in DOMAIN Members[job.name[2]].params :
                /\ Members[job.name[2]].params[p] = job.named[n][1]
                /\ ArgumentArrived(carried[p - 1], job.named[n][2])
    BY MemberArrives
  <2> QED BY <2>1, <2>3, <2>4, RefusedForCause, Zenon DEF ArgumentsArriveFaithfully
<1> QED BY <1>1, Calling, PTL

-----------------------------------------------------------------------------
(* Values read and written back (variant_to_json, then json_to_variant).   *)

(* A scalar read and written back. *)
Returned(v) == ScalarToVariant(ScalarToJson(v))

ReturnsFaithfully(v) == IF Sayable(v) THEN Same(v, Returned(v)) /\ ~IsRefused(Returned(v))
                        ELSE IsRefused(Returned(v))

(* A date goes out as its text and comes back at the same second.          *)
LEMMA DateReturns ==
    ASSUME NEW v, IsScalarVariant(v), v[1] = "DATE"
    PROVE  ReturnsFaithfully(v)
<1>1. IsOleDate(v[2])
  BY DEF IsScalarVariant
<1>2. PICK t : t = OleDateToIso8601(v[2])
  OBVIOUS
<1>3. /\ Names(t, v[2]) /\ t.year \in Int /\ t.day \in Int
      /\ t.hour \in 0 .. 23 /\ t.minute \in 0 .. 59 /\ t.second \in 0 .. 59
      /\ t.digits /\ t.length \in Int
      /\ t.length = 19 <=> NameableDay(Instant(v[2])[1])
  BY <1>1, <1>2, TextOfDate
<1>4. IsDay(t.year, t.month, t.day)
  BY <1>3 DEF Names
<1>5. IsText(t)
  <2>1. t.month \in Int
    BY <1>4 DEF IsDay
  <2>2. t.digits = TRUE
    BY <1>2, Zenon DEF OleDateToIso8601
  <2>3. t.hour \in Nat /\ t.minute \in Nat /\ t.second \in Nat
    BY <1>3
  <2> QED BY <1>3, <2>1, <2>2, <2>3 DEF IsText
<1>6. t.hour < 24 /\ t.minute < 60 /\ t.second < 60
  BY <1>3
<1>7. IsDateText(t) <=> t.length = 19
  BY <1>3, <1>4, <1>5, <1>6, AcceptedTexts
<1>8. Returned(v) = TimeToVariant(t)
  <2>1. ScalarToJson(v) = <<"time", t>>
    BY <1>2 DEF ScalarToJson
  <2>2. PICK j : j = <<"time", t>>
    OBVIOUS
  <2>3. j[1] = "time" /\ j[2] = t
    BY <2>2
  <2>4. ScalarToVariant(j) = TimeToVariant(t)
    BY <2>3 DEF ScalarToVariant
  <2> QED BY <2>1, <2>2, <2>4 DEF Returned
<1>9. Sayable(v) <=> t.length = 19
  BY <1>3 DEF Sayable, TypedElementAllowlist
<1>10. CASE t.length = 19
  <2>1. PICK d : d = OleDateFromIso8601(t)
    OBVIOUS
  <2>2. Names(t, d)
    BY <1>5, <1>7, <1>10, <2>1, DateOfText
  <2>3. Instant(d) = Instant(v[2])
    BY <1>3, <2>2 DEF Names
  <2>4. Returned(v) = <<"DATE", d>>
    BY <1>7, <1>8, <1>10, <2>1 DEF TimeToVariant, VariantFromOleDate
  <2>5. PICK w : w = Returned(v)
    OBVIOUS
  <2>6. w[1] = "DATE" /\ w[2] = d
    BY <2>4, <2>5
  <2>7. Same(v, w)
    BY <2>3, <2>6 DEF Same
  <2>8. ~IsRefused(w)
    BY <2>6 DEF IsRefused
  <2> QED BY <1>9, <1>10, <2>5, <2>7, <2>8 DEF ReturnsFaithfully
<1>11. CASE t.length # 19
  <2>1. Returned(v) = Refused("E_INVALIDARG")
    BY <1>7, <1>8, <1>11 DEF TimeToVariant
  <2>2. IsRefused(Returned(v))
    BY <2>1 DEF IsRefused, Refused
  <2> QED BY <1>9, <1>11, <2>2 DEF ReturnsFaithfully
<1> QED BY <1>10, <1>11

(* Every scalar comes back the same, or is refused if JSON cannot say it.  *)
LEMMA ScalarReturns ==
    ASSUME NEW v, IsScalarVariant(v)
    PROVE  ReturnsFaithfully(v)
<1>1. PICK j, w : j = ScalarToJson(v) /\ w = ScalarToVariant(j)
  OBVIOUS
<1>2. w = Returned(v)
  BY <1>1 DEF Returned
<1>3. SUFFICES IF Sayable(v) THEN Same(v, w) /\ ~IsRefused(w) ELSE IsRefused(w)
  BY <1>2, Zenon DEF ReturnsFaithfully
<1>null. j = <<"null">> => w = <<"EMPTY">>
  BY <1>1 DEF ScalarToVariant
<1>4. CASE v[1] \in {"EMPTY", "NULL"}
  <2>1. j = <<"null">>
    BY <1>1, <1>4 DEF ScalarToJson
  <2> QED BY <1>4, <1>null, <2>1 DEF Same, Sayable, TypedElementAllowlist, IsRefused
<1>5. CASE v[1] \in {"I2", "I4"}
  <2>1. j = <<"int", v[2]>> /\ v[2] \in IntMin .. IntMax
    BY <1>1, <1>5 DEF ScalarToJson, IsScalarVariant
  <2>2. j[1] = "int" /\ j[2] = v[2]
    BY <2>1
  <2>3. w = NumberToVariant(v[2])
    BY <1>1, <2>2 DEF ScalarToVariant
  <2>4. w = <<"I4", v[2]>>
    BY <2>1, <2>3 DEF NumberToVariant
  <2>5. Same(v, w)
    BY <1>5, <2>4 DEF Same
  <2> QED BY <1>5, <2>4, <2>5 DEF Sayable, TypedElementAllowlist, IsRefused
<1>6. CASE v[1] \in {"R4", "R8"}
  <2>1. CASE v[2] = NonFinite
    <3>1. j = <<"null">>
      BY <1>1, <1>6, <2>1 DEF ScalarToJson, DoubleToJson
    <3> QED BY <1>6, <1>null, <2>1, <3>1 DEF Same, Sayable, TypedElementAllowlist, IsRefused
  <2>2. CASE v[2] # NonFinite
    <3>1. j = <<"float", v[2]>>
      BY <1>1, <1>6, <2>2 DEF ScalarToJson, DoubleToJson
    <3>2. j[1] = "float" /\ j[2] = v[2]
      BY <3>1
    <3>3. w = <<"R8", v[2]>>
      BY <1>1, <3>2 DEF ScalarToVariant
    <3> QED BY <1>6, <2>2, <3>3 DEF Same, Sayable, TypedElementAllowlist, IsRefused
  <2> QED BY <2>1, <2>2
<1>7. CASE v[1] = "DATE"
  BY <1>2, <1>7, DateReturns, Zenon DEF ReturnsFaithfully
<1>8. CASE v[1] = "BOOL"
  <2>1. j = <<"bool", v[2] # 0>>
    BY <1>1, <1>8 DEF ScalarToJson
  <2>2. j[1] = "bool" /\ j[2] = (v[2] # 0)
    BY <2>1, Zenon
  <2>3. w = <<"BOOL", IF j[2] THEN -1 ELSE 0>>
    BY <1>1, <2>2 DEF ScalarToVariant
  <2>4. CASE v[2] # 0
    <3>1. j[2] = TRUE
      BY <2>2, <2>4, Zenon
    <3>2. w = <<"BOOL", -1>>
      BY <2>3, <3>1, Zenon
    <3> QED BY <1>8, <2>4, <3>2 DEF Same, Sayable, TypedElementAllowlist, IsRefused
  <2>5. CASE v[2] = 0
    <3>1. j[2] = FALSE
      BY <2>2, <2>5, Zenon
    <3>2. w = <<"BOOL", 0>>
      BY <2>3, <3>1, Zenon
    <3> QED BY <1>8, <2>5, <3>2 DEF Same, Sayable, TypedElementAllowlist, IsRefused
  <2> QED BY <2>4, <2>5
<1>9. CASE v[1] = "BSTR"
  <2>1. j = <<"string", ReadBstr(v[2])>>
    BY <1>1, <1>9 DEF ScalarToJson
  <2>2. j[1] = "string" /\ j[2] = ReadBstr(v[2])
    BY <2>1
  <2>3. w = <<"BSTR", ReadBstr(v[2])>>
    BY <1>1, <2>2 DEF ScalarToVariant
  <2> QED BY <1>9, <2>3 DEF Same, Sayable, TypedElementAllowlist, IsRefused, ReadBstr
<1>10. CASE v[1] = "DISPATCH"
  <2>1. CASE v[2] = Nothing
    <3>1. VariantToDispatch(v) = {}
      BY <2>1 DEF VariantToDispatch
    <3>2. j = <<"null">>
      BY <1>1, <1>10, <3>1 DEF ScalarToJson
    <3> QED BY <1>10, <1>null, <2>1, <3>2 DEF Same, Sayable, TypedElementAllowlist, IsRefused
  <2>2. CASE v[2] # Nothing
    <3>1. VariantToDispatch(v) # {}
      BY <1>10, <2>2 DEF VariantToDispatch
    <3>2. j = <<"ref", IdOf(v[2])>>
      BY <1>1, <1>10, <3>1 DEF ScalarToJson
    <3>3. v[2] \in Objects /\ v = <<"DISPATCH", v[2]>>
      BY <1>10, <2>2 DEF IsScalarVariant
    <3>4. IdOf(v[2]) \in DOMAIN Handle /\ Handle[IdOf(v[2])] = v[2]
      BY <3>3, HandleAssumption DEF IdOf
    <3>5. j[1] = "ref" /\ j[2] = IdOf(v[2])
      BY <3>2
    <3>6. w = <<"DISPATCH", v[2]>>
      BY <1>1, <3>4, <3>5 DEF ScalarToVariant, RefToVariant, VariantFromDispatch
    <3>7. ~IsRefused(w) /\ Sayable(v)
      BY <1>10, <3>6 DEF Sayable, TypedElementAllowlist, IsRefused
    <3>8. Same(v, w) <=> w = v
      BY <1>10, <2>2 DEF Same
    <3> QED BY <3>3, <3>6, <3>7, <3>8
  <2> QED BY <2>1, <2>2
<1>11. CASE v[1] \notin TypedElementAllowlist
  <2>1. j = <<"unsupported", v[1]>>
    BY <1>1, <1>11 DEF ScalarToJson, TypedElementAllowlist, Unsupported
  <2>2. j[1] = "unsupported"
    BY <2>1
  <2>3. w = Refused("E_INVALIDARG")
    BY <1>1, <2>2 DEF ScalarToVariant
  <2> QED BY <1>11, <2>3 DEF Sayable, IsRefused, Refused
<1> QED BY <1>4, <1>5, <1>6, <1>7, <1>8, <1>9, <1>10, <1>11 DEF TypedElementAllowlist

(* An array of elements that are well-shaped is refused for one of them,   *)
(* or it is a SAFEARRAY of what they become.                               *)
LEMMA ArrayOutcome ==
    ASSUME NEW items, WellShaped(items), NEW cells, cells = ArrayCells(items)
    PROVE  LET w == JsonArrayToVariant(items, "none") IN
           IF \E x \in DOMAIN cells : IsRefused(cells[x]) THEN IsRefused(w)
           ELSE w = <<"ARRAY", "VARIANT", ArrayBounds(items), cells>>
<1> DEFINE errors == {e \in {cells[x] : x \in DOMAIN cells} : IsRefused(e)}
<1>1. JsonArrayToVariant(items, "none") =
        IF errors # {} THEN CHOOSE e \in errors : TRUE
        ELSE <<"ARRAY", "VARIANT", ArrayBounds(items), cells>>
  BY DEF JsonArrayToVariant, VariantFromSafearray
<1>2. errors # {} => IsRefused(CHOOSE e \in errors : TRUE)
  OBVIOUS
<1>3. errors # {} <=> \E x \in DOMAIN cells : IsRefused(cells[x])
  OBVIOUS
<1> HIDE DEF errors
<1> QED BY <1>1, <1>2, <1>3

ArrayReturned(v) == JsonToVariant(SafeArrayToJson(v), "none")

ArrayReturnsFaithfully(v) ==
    IF SayableArray(v) THEN SameArray(v, ArrayReturned(v)) ELSE IsRefused(ArrayReturned(v))

Readable(vt) == vt = "VARIANT" \/ vt \in TypedElementAllowlist

ElementReturned(vt, cell) == ScalarToVariant(ElementToJson(vt, cell))

(* No element is read as an array.                                         *)
LEMMA NoScalarIsArray ==
    ASSUME NEW cell
    PROVE  ~IsArray(ScalarToJson(cell))
<1>1. \A x : ~IsArray(DoubleToJson(x))
  BY DEF IsArray, DoubleToJson
<1>2. \A x : ~IsArray(Unsupported(x))
  BY DEF IsArray, Unsupported
<1>3. CASE cell[1] \in {"EMPTY", "NULL"}
  BY <1>3 DEF ScalarToJson, IsArray
<1>4. CASE cell[1] \in {"I2", "I4"}
  BY <1>4 DEF ScalarToJson, IsArray
<1>5. CASE cell[1] \in {"R4", "R8"}
  BY <1>1, <1>5 DEF ScalarToJson
<1>6. CASE cell[1] \in {"DATE", "BSTR", "BOOL"}
  <2>1. ScalarToJson(cell)[1] \in {"time", "string", "bool"}
    BY <1>6 DEF ScalarToJson
  <2> QED BY <2>1 DEF IsArray
<1>7. CASE cell[1] = "DISPATCH"
  BY <1>7 DEF ScalarToJson, IsArray
<1>8. CASE cell[1] \notin TypedElementAllowlist
  BY <1>2, <1>8 DEF ScalarToJson, TypedElementAllowlist
<1> QED BY <1>3, <1>4, <1>5, <1>6, <1>7, <1>8 DEF TypedElementAllowlist

LEMMA NoArrayWithin ==
    ASSUME NEW vt, NEW cell
    PROVE  ~IsArray(ElementToJson(vt, cell))
<1>1. ~IsArray(ScalarToJson(cell))
  BY NoScalarIsArray
<1>2. \A x : ~IsArray(Unsupported(x))
  BY DEF IsArray, Unsupported
<1> QED BY <1>1, <1>2 DEF ElementToJson

LEMMA ElementReturns ==
    ASSUME NEW vt, NEW cell, IsScalarVariant(cell)
    PROVE  IF Readable(vt) /\ Sayable(cell)
           THEN Same(cell, ElementReturned(vt, cell)) /\ ~IsRefused(ElementReturned(vt, cell))
           ELSE IsRefused(ElementReturned(vt, cell))
<1>1. \A x : IsRefused(ScalarToVariant(Unsupported(x)))
  <2> SUFFICES ASSUME NEW x PROVE IsRefused(ScalarToVariant(Unsupported(x)))
    OBVIOUS
  <2>1. PICK j : j = Unsupported(x)
    OBVIOUS
  <2>2. j[1] = "unsupported"
    BY <2>1 DEF Unsupported
  <2>3. ScalarToVariant(j) = Refused("E_INVALIDARG")
    BY <2>2 DEF ScalarToVariant
  <2> QED BY <2>1, <2>3 DEF IsRefused, Refused
<1>2. CASE ~Readable(vt) \/ cell[1] = "unreadable"
  <2>1. ElementToJson(vt, cell) = Unsupported(vt)
    BY <1>2 DEF ElementToJson, Readable
  <2>2. ~(Readable(vt) /\ Sayable(cell))
    BY <1>2 DEF Sayable, TypedElementAllowlist
  <2> QED BY <1>1, <2>1, <2>2 DEF ElementReturned
<1>3. CASE Readable(vt) /\ cell[1] # "unreadable"
  <2>1. ElementToJson(vt, cell) = ScalarToJson(cell)
    BY <1>3 DEF ElementToJson, Readable
  <2>2. ElementReturned(vt, cell) = Returned(cell)
    BY <2>1 DEF ElementReturned, Returned
  <2> QED BY <1>3, <2>2, ScalarReturns DEF ReturnsFaithfully
<1> QED BY <1>2, <1>3

(* An array of one dimension comes back cell by cell, counted from 0.      *)
LEMMA VectorReturns ==
    ASSUME NEW v, IsVariant(v), v[1] = "ARRAY", v[2] # "unreadable", <<>> \notin Cells(v[3]),
           Len(v[3]) = 1
    PROVE  ArrayReturnsFaithfully(v)
<1>1. /\ v[3] \in Seq(Cells(v[3]))
      /\ \A b \in Cells(v[3]) : b # <<>> => b \in Int \X Int /\ b[2] >= b[1] - 1
      /\ DOMAIN v[4] = Indices(v[3])
      /\ \A x \in DOMAIN v[4] : IsScalarVariant(v[4][x])
  BY DEF IsVariant, IsScalarVariant
<1>2. PICK vt, cells : vt = v[2] /\ cells = v[4]
  OBVIOUS
<1>3. PICK lo \in Int, hi \in Int : v[3][1] = <<lo, hi>> /\ hi >= lo - 1
  <2>1. v[3][1] \in Cells(v[3]) /\ v[3][1] # <<>>
    BY <1>1 DEF Cells
  <2> QED BY <1>1, <2>1
<1>4. PICK n \in Nat : n = hi - lo + 1
  BY <1>3
<1>5. PICK items : items = [i \in 1 .. v[3][1][2] - v[3][1][1] + 1 |->
                                 ElementToJson(v[2], v[4][<<v[3][1][1] + i - 1>>])]
  OBVIOUS
<1>6. SafeArrayToJson(v) = <<"array", items>>
  <2>1. v[2] # "unreadable" /\ <<>> \notin Cells(v[3]) /\ Len(v[3]) = 1
    OBVIOUS
  <2>2. SafeArrayToJson(v) =
          <<"array", [i \in 1 .. v[3][1][2] - v[3][1][1] + 1 |->
                                 ElementToJson(v[2], v[4][<<v[3][1][1] + i - 1>>])]>>
    BY <2>1, Zenon DEF SafeArrayToJson, Row
  <2> QED BY <1>5, <2>2, Zenon
<1>7. /\ DOMAIN items = 1 .. n
      /\ \A i \in 1 .. n : items[i] = ElementToJson(vt, cells[<<lo + i - 1>>])
  <2>1. v[3][1][1] = lo /\ v[3][1][2] = hi /\ v[3][1][2] - v[3][1][1] + 1 = n
    BY <1>3, <1>4
  <2> QED BY <1>2, <1>5, <2>1
<1>8. items \in Seq(Cells(items)) /\ Len(items) = n
  <2>1. \A i \in 1 .. n : items[i] \in Cells(items)
    BY <1>7 DEF Cells
  <2>2. items \in [1 .. n -> Cells(items)]
    <3>1. items = [i \in DOMAIN items |-> items[i]]
      BY <1>5
    <3>2. DOMAIN items = 1 .. n
      BY <1>7
    <3> QED BY ONLY <2>1, <3>1, <3>2
  <2>3. items \in Seq(Cells(items))
    BY ONLY <2>2, n \in Nat
  <2> QED BY <1>7, <2>3
<1>9. ~IsTwoD(items) /\ WellShaped(items)
  <2>1. ASSUME NEW i \in 1 .. n
        PROVE  ~IsArray(items[i])
    <3>1. items[i] = ElementToJson(vt, cells[<<lo + i - 1>>])
      BY <1>7
    <3>2. ~IsArray(ElementToJson(vt, cells[<<lo + i - 1>>]))
      BY NoArrayWithin
    <3> QED BY ONLY <3>1, <3>2
  <2>2. ASSUME NEW j \in Cells(items)
        PROVE  ~IsArray(j)
    <3>1. PICK i \in 1 .. n : j = items[i]
      BY <1>7 DEF Cells
    <3> QED BY <2>1, <3>1
  <2>3. ~IsTwoD(items)
    BY <1>8, <2>1 DEF IsTwoD
  <2> QED BY <2>2, <2>3 DEF WellShaped
<1>10. PICK new : new = ArrayCells(items)
  OBVIOUS
<1>11. /\ \A i \in 1 .. n : /\ <<i - 1>> \in DOMAIN new
                            /\ new[<<i - 1>>] = ElementReturned(vt, cells[<<lo + i - 1>>])
       /\ \A x \in DOMAIN new : \E i \in 1 .. n : x = <<i - 1>>
  <2>1. ASSUME NEW i \in 1 .. n
        PROVE  <<i - 1>> \in DOMAIN new
               /\ new[<<i - 1>>] = ElementReturned(vt, cells[<<lo + i - 1>>])
    <3>1. /\ <<i - 1>> \in DOMAIN ArrayCells(items)
          /\ ArrayCells(items)[<<i - 1>>] = ScalarToVariant(items[i])
      BY <1>7, <1>8, <1>9, CellsOfVector
    <3> QED BY <1>7, <1>10, <3>1 DEF ElementReturned
  <2>2. DOMAIN new = {<<i>> : i \in 0 .. n - 1}
    BY <1>8, <1>9, <1>10 DEF ArrayCells, Upto
  <2>3. ASSUME NEW x \in DOMAIN new
        PROVE  \E i \in 1 .. n : x = <<i - 1>>
    <3>1. PICK i \in 0 .. n - 1 : x = <<i>>
      BY <2>2
    <3>2. i + 1 \in 1 .. n /\ i + 1 - 1 = i
      OBVIOUS
    <3> QED BY <3>1, <3>2
  <2> QED BY <2>1, <2>3
<1>12. /\ \A i \in 1 .. n : /\ <<lo + i - 1>> \in DOMAIN cells
                            /\ IsScalarVariant(cells[<<lo + i - 1>>])
       /\ \A x \in DOMAIN cells : \E i \in 1 .. n : x = <<lo + i - 1>>
  <2>1. DOMAIN cells = {<<i>> : i \in lo .. hi}
    BY <1>1, <1>2, <1>3 DEF Indices
  <2>2. \A i \in 1 .. n : lo + i - 1 \in lo .. hi
    BY <1>4
  <2>3. ASSUME NEW x \in DOMAIN cells
        PROVE  \E i \in 1 .. n : x = <<lo + i - 1>>
    <3>1. PICK k \in lo .. hi : x = <<k>>
      BY <2>1
    <3>2. k - lo + 1 \in 1 .. n /\ lo + (k - lo + 1) - 1 = k
      BY <1>4
    <3> QED BY <3>1, <3>2
  <2> QED BY <1>1, <1>2, <2>1, <2>2, <2>3
<1>13. \A i \in 1 .. n : LET cell == cells[<<lo + i - 1>>] IN
          IF Readable(vt) /\ Sayable(cell)
          THEN Same(cell, ElementReturned(vt, cell)) /\ ~IsRefused(ElementReturned(vt, cell))
          ELSE IsRefused(ElementReturned(vt, cell))
  BY <1>12, ElementReturns
<1>14. SayableArray(v) <=> \A i \in 1 .. n : Readable(vt) /\ Sayable(cells[<<lo + i - 1>>])
  <2>1. SayableArray(v) <=>
           (Readable(vt) \/ DOMAIN cells = {}) /\ \A x \in DOMAIN cells : Sayable(cells[x])
    BY <1>2 DEF SayableArray, Readable
  <2> QED BY <1>12, <2>1
<1>15. PICK w : w = ArrayReturned(v)
  OBVIOUS
<1>16. IF \E x \in DOMAIN new : IsRefused(new[x]) THEN IsRefused(w)
       ELSE w = <<"ARRAY", "VARIANT", << <<0, n - 1>> >>, new>>
  <2>1. ArrayBounds(items) = << <<0, n - 1>> >>
    BY <1>8, <1>9 DEF ArrayBounds
  <2>2. PICK j : j = <<"array", items>>
    OBVIOUS
  <2>3. j[1] = "array" /\ j[2] = items
    BY <2>2
  <2>4. w = JsonArrayToVariant(items, "none")
    BY <1>6, <1>15, <2>2, <2>3 DEF ArrayReturned, JsonToVariant, IsArray
  <2> QED BY <1>9, <1>10, <2>1, <2>4, ArrayOutcome
<1>17. CASE ~SayableArray(v)
  <2>1. PICK i \in 1 .. n : ~(Readable(vt) /\ Sayable(cells[<<lo + i - 1>>]))
    BY <1>14, <1>17
  <2>2. IsRefused(new[<<i - 1>>]) /\ <<i - 1>> \in DOMAIN new
    BY <1>11, <1>13, <2>1
  <2> QED BY <1>15, <1>16, <1>17, <2>2, Zenon DEF ArrayReturnsFaithfully
<1>18. CASE SayableArray(v)
  <2>1. \A i \in 1 .. n : LET cell == cells[<<lo + i - 1>>] IN
           Same(cell, new[<<i - 1>>]) /\ ~IsRefused(new[<<i - 1>>])
    BY <1>11, <1>13, <1>14, <1>18
  <2>2. \A x \in DOMAIN new : ~IsRefused(new[x])
    BY <1>11, <2>1
  <2>3. w = <<"ARRAY", "VARIANT", << <<0, n - 1>> >>, new>>
    BY <1>16, <2>2
  <2>4. PICK bounds : bounds = << <<0, n - 1>> >>
    OBVIOUS
  <2>5. w[1] = "ARRAY" /\ w[3] = bounds /\ w[4] = new
    BY <2>3, <2>4
  <2>6. Len(bounds) = 1 /\ DOMAIN bounds = {1} /\ bounds[1] = <<0, n - 1>>
    BY <2>4
  <2>7. Extent(v[3][1]) = n
    BY <1>3, <1>4 DEF Extent
  <2>8. ASSUME NEW x \in DOMAIN cells
        PROVE  Same(cells[x], new[[d \in DOMAIN x |-> x[d] - v[3][d][1]]])
    <3>1. PICK i \in 1 .. n : x = <<lo + i - 1>>
      BY <1>12
    <3>2. [d \in DOMAIN x |-> x[d] - v[3][d][1]] = <<i - 1>>
      <4>1. DOMAIN x = 1 .. 1 /\ x[1] = lo + i - 1 /\ v[3][1][1] = lo
        BY <1>3, <3>1
      <4>2. PICK f : f = [d \in DOMAIN x |-> x[d] - v[3][d][1]]
        OBVIOUS
      <4>3. f = [d \in 1 .. 1 |-> f[d]] /\ f[1] = i - 1
        BY <4>1, <4>2
      <4>4. f = <<i - 1>>
        BY <4>3
      <4> QED BY <4>2, <4>4
    <3> QED BY <2>1, <3>1, <3>2
  <2>9. SameArray(v, w)
    BY <1>2, <2>5, <2>6, <2>7, <2>8 DEF SameArray
  <2> QED BY <1>15, <1>18, <2>9, Zenon DEF ArrayReturnsFaithfully
<1> QED BY <1>17, <1>18

(* So does a matrix, unless it has no rows.                                *)
LEMMA MatrixReturns ==
    ASSUME NEW v, IsVariant(v), v[1] = "ARRAY", v[2] # "unreadable", <<>> \notin Cells(v[3]),
           Len(v[3]) = 2
    PROVE  ArrayReturnsFaithfully(v)
<1>1. /\ v[3] \in Seq(Cells(v[3]))
      /\ \A b \in Cells(v[3]) : b # <<>> => b \in Int \X Int /\ b[2] >= b[1] - 1
      /\ DOMAIN v[4] = Indices(v[3])
      /\ \A x \in DOMAIN v[4] : IsScalarVariant(v[4][x])
  BY DEF IsVariant, IsScalarVariant
<1>2. PICK vt, cells : vt = v[2] /\ cells = v[4]
  OBVIOUS
<1>3. PICK lo \in Int, hi \in Int, lc \in Int, hc \in Int :
        v[3][1] = <<lo, hi>> /\ hi >= lo - 1 /\ v[3][2] = <<lc, hc>> /\ hc >= lc - 1
  <2>1. v[3][1] \in Cells(v[3]) /\ v[3][1] # <<>> /\ v[3][2] \in Cells(v[3]) /\ v[3][2] # <<>>
    BY <1>1 DEF Cells
  <2>2. \E lo \in Int, hi \in Int : v[3][1] = <<lo, hi>> /\ hi >= lo - 1
    BY <1>1, <2>1
  <2>3. \E lo \in Int, hi \in Int : v[3][2] = <<lo, hi>> /\ hi >= lo - 1
    BY <1>1, <2>1
  <2> QED BY <2>2, <2>3
<1>4. PICK n \in Nat, m \in Nat : n = hi - lo + 1 /\ m = hc - lc + 1
  BY <1>3
<1>5. PICK items : items =
        [r \in 1 .. v[3][1][2] - v[3][1][1] + 1 |->
            <<"array", [c \in 1 .. v[3][2][2] - v[3][2][1] + 1 |->
                ElementToJson(v[2], v[4][<<v[3][1][1] + r - 1, v[3][2][1] + c - 1>>])]>>]
  OBVIOUS
<1>6. SafeArrayToJson(v) = <<"array", items>>
  <2>1. v[2] # "unreadable" /\ <<>> \notin Cells(v[3]) /\ Len(v[3]) = 2 /\ ~(Len(v[3]) = 1)
    OBVIOUS
  <2>2. SafeArrayToJson(v) = <<"array",
        [r \in 1 .. v[3][1][2] - v[3][1][1] + 1 |->
            <<"array", [c \in 1 .. v[3][2][2] - v[3][2][1] + 1 |->
                ElementToJson(v[2], v[4][<<v[3][1][1] + r - 1, v[3][2][1] + c - 1>>])]>>]>>
    BY <2>1, Zenon DEF SafeArrayToJson, Row
  <2> QED BY <1>5, <2>2, Zenon
<1>7. /\ DOMAIN items = 1 .. n
      /\ \A r \in 1 .. n : items[r] =
           <<"array", [c \in 1 .. m |-> ElementToJson(vt, cells[<<lo + r - 1, lc + c - 1>>])]>>
  <2>1. /\ v[3][1][1] = lo /\ v[3][1][2] - v[3][1][1] + 1 = n
        /\ v[3][2][1] = lc /\ v[3][2][2] - v[3][2][1] + 1 = m
    BY <1>3, <1>4
  <2> QED BY <1>2, <1>5, <2>1
<1>8. items \in Seq(Cells(items)) /\ Len(items) = n
  <2>1. \A i \in 1 .. n : items[i] \in Cells(items)
    BY <1>7 DEF Cells
  <2>2. items \in [1 .. n -> Cells(items)]
    <3>1. items = [i \in DOMAIN items |-> items[i]]
      BY <1>5
    <3> QED BY <1>7, <2>1, <3>1
  <2>3. items \in Seq(Cells(items))
    BY <2>2
  <2> QED BY <1>7, <2>3
<1>9. ASSUME NEW r \in 1 .. n
      PROVE  /\ IsArray(items[r]) /\ Len(items[r][2]) = m /\ DOMAIN items[r][2] = 1 .. m
             /\ \A c \in 1 .. m : /\ items[r][2][c] = ElementToJson(vt, cells[<<lo + r - 1, lc + c - 1>>])
                                  /\ ~IsArray(items[r][2][c])
  <2>1. PICK row : row = [c \in 1 .. m |-> ElementToJson(vt, cells[<<lo + r - 1, lc + c - 1>>])]
    OBVIOUS
  <2>2. PICK j : j = items[r]
    OBVIOUS
  <2>3. j = <<"array", row>>
    BY <1>7, <2>1, <2>2
  <2>4. IsArray(j) /\ j[2] = row
    BY <2>3 DEF IsArray
  <2>5. Len(row) = m /\ DOMAIN row = 1 .. m
    BY <2>1
  <2>6. \A c \in 1 .. m : /\ row[c] = ElementToJson(vt, cells[<<lo + r - 1, lc + c - 1>>])
                          /\ ~IsArray(row[c])
    BY <2>1, NoArrayWithin
  <2> QED BY <2>2, <2>4, <2>5, <2>6
<1>10. WellShaped(items) /\ (IsTwoD(items) <=> n # 0)
  <2>1. IsTwoD(items) <=> n # 0
    BY <1>8, <1>9 DEF IsTwoD
  <2>2. CASE n = 0
    <3>1. Cells(items) = {}
      BY <1>7, <2>2 DEF Cells
    <3> QED BY <2>1, <2>2, <3>1 DEF WellShaped
  <2>3. CASE n # 0
    <3>1. ASSUME NEW j \in Cells(items)
          PROVE  /\ IsArray(j) /\ Len(j[2]) = Len(items[1][2])
                 /\ \A e \in Cells(j[2]) : ~IsArray(e)
      <4>1. PICK r \in 1 .. n : j = items[r]
        BY <1>7 DEF Cells
      <4>2. 1 \in 1 .. n
        BY <2>3
      <4>3. IsArray(j) /\ Len(j[2]) = m /\ Len(items[1][2]) = m
        BY <1>9, <4>1, <4>2
      <4>4. \A e \in Cells(j[2]) : ~IsArray(e)
        <5>1. PICK row : row = j[2]
          OBVIOUS
        <5>2. DOMAIN row = 1 .. m /\ \A c \in 1 .. m : ~IsArray(row[c])
          BY <1>9, <4>1, <5>1
        <5>3. \A e \in Cells(row) : ~IsArray(e)
          BY <5>2 DEF Cells
        <5> QED BY <5>1, <5>3
      <4> QED BY <4>3, <4>4
    <3> QED BY <2>1, <2>3, <3>1 DEF WellShaped
  <2> QED BY <2>1, <2>2, <2>3
<1>11. PICK new : new = ArrayCells(items)
  OBVIOUS
<1>12. PICK w : w = ArrayReturned(v)
  OBVIOUS
<1>13. IF \E x \in DOMAIN new : IsRefused(new[x]) THEN IsRefused(w)
       ELSE w = <<"ARRAY", "VARIANT", ArrayBounds(items), new>>
  <2>1. PICK j : j = <<"array", items>>
    OBVIOUS
  <2>2. j[1] = "array" /\ j[2] = items
    BY <2>1
  <2>3. w = JsonArrayToVariant(items, "none")
    BY <1>6, <1>12, <2>1, <2>2 DEF ArrayReturned, JsonToVariant, IsArray
  <2> QED BY <1>10, <1>11, <2>3, ArrayOutcome
<1>14. /\ \A r \in 1 .. n, c \in 1 .. m :
             /\ <<lo + r - 1, lc + c - 1>> \in DOMAIN cells
             /\ IsScalarVariant(cells[<<lo + r - 1, lc + c - 1>>])
       /\ \A x \in DOMAIN cells : \E r \in 1 .. n, c \in 1 .. m : x = <<lo + r - 1, lc + c - 1>>
  <2>1. DOMAIN cells = (lo .. hi) \X (lc .. hc)
    BY <1>1, <1>2, <1>3 DEF Indices
  <2>2. (\A i \in 1 .. n : lo + i - 1 \in lo .. hi) /\ (\A i \in 1 .. m : lc + i - 1 \in lc .. hc)
    BY <1>4
  <2>3. ASSUME NEW x \in DOMAIN cells
        PROVE  \E r \in 1 .. n, c \in 1 .. m : x = <<lo + r - 1, lc + c - 1>>
    <3>1. PICK k \in lo .. hi, l \in lc .. hc : x = <<k, l>>
      BY <2>1
    <3>2. k - lo + 1 \in 1 .. n /\ lo + (k - lo + 1) - 1 = k
      BY <1>4
    <3>3. l - lc + 1 \in 1 .. m /\ lc + (l - lc + 1) - 1 = l
      BY <1>4
    <3> QED BY <3>1, <3>2, <3>3
  <2>4. \A r \in 1 .. n, c \in 1 .. m : <<lo + r - 1, lc + c - 1>> \in DOMAIN cells
    BY <2>1, <2>2
  <2> QED BY <1>1, <1>2, <2>3, <2>4
<1>15. CASE n = 0
  <2>1. DOMAIN cells = {}
    BY <1>14, <1>15
  <2>2. Len(items) = 0 /\ ~IsTwoD(items)
    BY <1>8, <1>10, <1>15
  <2>3. DOMAIN new = {} /\ ArrayBounds(items) = << <<0, -1>> >>
    BY <1>11, <2>2 DEF ArrayCells, ArrayBounds, Upto
  <2>4. w = <<"ARRAY", "VARIANT", << <<0, -1>> >>, new>>
    BY <1>13, <2>3
  <2>5. PICK bounds : bounds = << <<0, -1>> >>
    OBVIOUS
  <2>6. w[1] = "ARRAY" /\ w[3] = bounds /\ w[4] = new
    BY <2>4, <2>5
  <2>7. Len(bounds) = 1 /\ DOMAIN bounds = {1} /\ bounds[1] = <<0, -1>>
    BY <2>5
  <2>8. Extent(v[3][1]) = 0 /\ 0 - 1 = -1
    BY <1>3, <1>4, <1>15 DEF Extent
  <2>9. SameArray(v, w)
    BY <1>2, <2>1, <2>6, <2>7, <2>8 DEF SameArray
  <2>10. SayableArray(v)
    BY <1>2, <2>1 DEF SayableArray
  <2> QED BY <1>12, <2>9, <2>10, Zenon DEF ArrayReturnsFaithfully
<1>16. CASE n # 0
  <2>1. IsTwoD(items) /\ Len(items[1][2]) = m
    <3>1. 1 \in 1 .. n
      BY <1>16
    <3> QED BY <1>9, <1>10, <1>16, <3>1
  <2>2. /\ \A r \in 1 .. n, c \in 1 .. m :
              /\ <<r - 1, c - 1>> \in DOMAIN new
              /\ new[<<r - 1, c - 1>>] = ElementReturned(vt, cells[<<lo + r - 1, lc + c - 1>>])
        /\ \A x \in DOMAIN new : \E r \in 1 .. n, c \in 1 .. m : x = <<r - 1, c - 1>>
    <3>1. ASSUME NEW r \in 1 .. n, NEW c \in 1 .. m
          PROVE  /\ <<r - 1, c - 1>> \in DOMAIN new
                 /\ new[<<r - 1, c - 1>>] = ElementReturned(vt, cells[<<lo + r - 1, lc + c - 1>>])
      <4>1. /\ <<r - 1, c - 1>> \in DOMAIN ArrayCells(items)
            /\ ArrayCells(items)[<<r - 1, c - 1>>] = ScalarToVariant(items[r][2][c])
        <5>1. r \in DOMAIN items /\ c \in 1 .. Len(items[1][2]) /\ Len(items[1][2]) \in Nat
          BY <1>7, <2>1
        <5> QED BY <1>8, <2>1, <5>1, CellsOfMatrix
      <4>2. items[r][2][c] = ElementToJson(vt, cells[<<lo + r - 1, lc + c - 1>>])
        BY <1>9
      <4> QED BY <1>11, <4>1, <4>2 DEF ElementReturned
    <3>2. DOMAIN new = (0 .. n - 1) \X (0 .. m - 1)
      BY <1>8, <1>11, <2>1 DEF ArrayCells, Upto
    <3>3. ASSUME NEW x \in DOMAIN new
          PROVE  \E r \in 1 .. n, c \in 1 .. m : x = <<r - 1, c - 1>>
      <4>1. PICK k \in 0 .. n - 1, l \in 0 .. m - 1 : x = <<k, l>>
        BY <3>2
      <4>2. k + 1 \in 1 .. n /\ k + 1 - 1 = k /\ l + 1 \in 1 .. m /\ l + 1 - 1 = l
        OBVIOUS
      <4> QED BY <4>1, <4>2
    <3> QED BY <3>1, <3>3
  <2>3. \A r \in 1 .. n, c \in 1 .. m : LET cell == cells[<<lo + r - 1, lc + c - 1>>] IN
           IF Readable(vt) /\ Sayable(cell)
           THEN Same(cell, ElementReturned(vt, cell)) /\ ~IsRefused(ElementReturned(vt, cell))
           ELSE IsRefused(ElementReturned(vt, cell))
    BY <1>14, ElementReturns
  <2>4. SayableArray(v) <=>
           \A r \in 1 .. n, c \in 1 .. m : Readable(vt) /\ Sayable(cells[<<lo + r - 1, lc + c - 1>>])
    <3>1. SayableArray(v) <=> /\ Readable(vt) \/ DOMAIN cells = {}
                              /\ \A x \in DOMAIN cells : Sayable(cells[x])
      BY <1>2 DEF SayableArray, Readable
    <3> QED BY <1>14, <3>1
  <2>5. CASE ~SayableArray(v)
    <3>1. PICK r \in 1 .. n, c \in 1 .. m :
             ~(Readable(vt) /\ Sayable(cells[<<lo + r - 1, lc + c - 1>>]))
      BY <2>4, <2>5
    <3>2. IsRefused(new[<<r - 1, c - 1>>]) /\ <<r - 1, c - 1>> \in DOMAIN new
      BY <2>2, <2>3, <3>1
    <3> QED BY <1>12, <1>13, <2>5, <3>2, Zenon DEF ArrayReturnsFaithfully
  <2>6. CASE SayableArray(v)
    <3>1. ASSUME NEW r \in 1 .. n, NEW c \in 1 .. m
          PROVE  LET cell == cells[<<lo + r - 1, lc + c - 1>>] IN
             Same(cell, new[<<r - 1, c - 1>>]) /\ ~IsRefused(new[<<r - 1, c - 1>>])
      <4>1. PICK cell : cell = cells[<<lo + r - 1, lc + c - 1>>]
        OBVIOUS
      <4>2. Readable(vt) /\ Sayable(cell)
        BY <2>4, <2>6, <4>1
      <4>3. new[<<r - 1, c - 1>>] = ElementReturned(vt, cell)
        BY <2>2, <4>1
      <4>4. Same(cell, ElementReturned(vt, cell)) /\ ~IsRefused(ElementReturned(vt, cell))
        BY <2>3, <4>1, <4>2
      <4> QED BY <4>1, <4>3, <4>4
    <3>2. \A x \in DOMAIN new : ~IsRefused(new[x])
      BY <2>2, <3>1
    <3>3. ArrayBounds(items) = << <<0, n - 1>>, <<0, m - 1>> >>
      BY <1>8, <2>1 DEF ArrayBounds
    <3>4. PICK bounds : bounds = << <<0, n - 1>>, <<0, m - 1>> >>
      OBVIOUS
    <3>5. w[1] = "ARRAY" /\ w[3] = bounds /\ w[4] = new
      BY <1>13, <3>2, <3>3, <3>4
    <3>6. Len(bounds) = 2 /\ DOMAIN bounds = {1, 2} /\ bounds[1] = <<0, n - 1>> /\ bounds[2] = <<0, m - 1>>
      BY <3>4
    <3>7. Extent(v[3][1]) = n /\ Extent(v[3][2]) = m
      BY <1>3, <1>4 DEF Extent
    <3>8. ASSUME NEW x \in DOMAIN cells
          PROVE  Same(cells[x], new[[d \in DOMAIN x |-> x[d] - v[3][d][1]]])
      <4>1. PICK r \in 1 .. n, c \in 1 .. m : x = <<lo + r - 1, lc + c - 1>>
        BY <1>14
      <4>2. [d \in DOMAIN x |-> x[d] - v[3][d][1]] = <<r - 1, c - 1>>
        <5>1. DOMAIN x = 1 .. 2 /\ x[1] = lo + r - 1 /\ x[2] = lc + c - 1
              /\ v[3][1][1] = lo /\ v[3][2][1] = lc
          BY <1>3, <4>1
        <5>2. PICK f : f = [d \in DOMAIN x |-> x[d] - v[3][d][1]]
          OBVIOUS
        <5>3. f = [d \in 1 .. 2 |-> f[d]] /\ f[1] = r - 1 /\ f[2] = c - 1
          BY <5>1, <5>2
        <5>4. f = <<r - 1, c - 1>>
          BY <5>3
        <5> QED BY <5>2, <5>4
      <4> QED BY <3>1, <4>1, <4>2
    <3>9. SameArray(v, w)
      BY <1>2, <3>5, <3>6, <3>7, <3>8 DEF SameArray
    <3> QED BY <1>12, <2>6, <3>9, Zenon DEF ArrayReturnsFaithfully
  <2> QED BY <2>5, <2>6
<1> QED BY <1>15, <1>16

LEMMA ArrayReturns ==
    ASSUME NEW v, IsVariant(v), v[1] = "ARRAY"
    PROVE  ArrayReturnsFaithfully(v)
<1>1. CASE v[2] = "unreadable" \/ <<>> \in Cells(v[3]) \/ ~(Len(v[3]) \in {1, 2})
  <2>1. SafeArrayToJson(v) = Unsupported("ARRAY")
    BY <1>1, Zenon DEF SafeArrayToJson
  <2>2. PICK j : j = Unsupported("ARRAY")
    OBVIOUS
  <2>3. j[1] = "unsupported"
    BY <2>2 DEF Unsupported
  <2>4. JsonToVariant(j, "none") = Refused("E_INVALIDARG")
    BY <2>3 DEF JsonToVariant, IsArray, ScalarToVariant
  <2>5. IsRefused(ArrayReturned(v))
    BY <2>1, <2>2, <2>4 DEF ArrayReturned, IsRefused, Refused
  <2> QED BY <1>1, <2>5 DEF ArrayReturnsFaithfully, SayableArray
<1>2. CASE v[2] # "unreadable" /\ <<>> \notin Cells(v[3]) /\ Len(v[3]) \in {1, 2}
  BY <1>2, VectorReturns, MatrixReturns
<1> QED BY <1>1, <1>2

-----------------------------------------------------------------------------
(* What FlattenSeq puts where, by induction.                               *)

(* Every set of natural numbers that is not empty has a least member: the  *)
(* order of the naturals is well-founded.                                  *)
LEMMA LeastNatural ==
    ASSUME NEW T, T \subseteq Nat, T # {}
    PROVE  \E x \in T : \A y \in T : x <= y
<1>1. PICK R : R = {ss \in Nat \X Nat : ss[1] < ss[2]}
  OBVIOUS
<1>2. IsWellFoundedOn(R, Nat)
  BY <1>1, NatLessThanWellFounded DEF OpToRel
<1>3. PICK x \in T : \A y \in T : ~ (<<y, x>> \in R)
  BY <1>2, WFMin
<1>4. ASSUME NEW y \in T, ~(x <= y)
      PROVE  FALSE
  <2>1. y \in Nat /\ x \in Nat
    OBVIOUS
  <2>2. <<y, x>> \in Nat \X Nat /\ y < x
    BY <1>4, <2>1
  <2>3. <<y, x>> \in R
    BY <1>1, <2>2
  <2> QED BY <1>3, <1>4, <2>3
<1> QED BY <1>4

(* Hence induction over the naturals, for the numbers of a set.            *)
LEMMA Induction ==
    ASSUME NEW S, 0 \in S, \A n \in Nat : n \in S => n + 1 \in S
    PROVE  Nat \subseteq S
<1> SUFFICES ASSUME NEW m \in Nat, m \notin S
             PROVE  FALSE
  OBVIOUS
<1>1. PICK T : T = {n \in Nat : n \notin S}
  OBVIOUS
<1>2. PICK x \in T : \A y \in T : x <= y
  BY <1>1, LeastNatural
<1>3. x \in Nat /\ x # 0
  BY <1>1
<1>4. x - 1 \in Nat /\ ~(x <= x - 1) /\ x - 1 + 1 = x
  BY <1>3
<1>5. x - 1 \in S
  BY <1>1, <1>2, <1>4
<1> QED BY <1>1, <1>4, <1>5

(* f joins the first n sequences of ss, each to those before. *)
Joined(f, ss, n) == f = [i \in 1 .. n |-> IF i = 1 THEN ss[i] ELSE f[i - 1] \o ss[i]]

(* The recursive function FlattenSeq is made of exists.                    *)
LEMMA JoinedExists ==
    ASSUME NEW ss, NEW n \in Nat
    PROVE  \E f : Joined(f, ss, n)
<1>1. PICK S : S = {m \in Nat : \E f : Joined(f, ss, m)}
  OBVIOUS
<1>2. 0 \in S
  <2>1. PICK f : f = [i \in 1 .. 0 |-> IF i = 1 THEN ss[i] ELSE 0]
    OBVIOUS
  <2>2. 1 .. 0 = {}
    OBVIOUS
  <2>3. Joined(f, ss, 0)
    BY <2>1, <2>2 DEF Joined
  <2> QED BY <1>1, <2>3
<1>3. ASSUME NEW m \in Nat, m \in S
      PROVE  m + 1 \in S
  <2>1. PICK f : Joined(f, ss, m)
    BY <1>1, <1>3
  <2>2. PICK g : g = [i \in 1 .. m + 1 |-> IF i <= m THEN f[i]
                                          ELSE IF i = 1 THEN ss[i] ELSE f[i - 1] \o ss[i]]
    OBVIOUS
  <2>3. ASSUME NEW i \in 1 .. m + 1
        PROVE  g[i] = IF i = 1 THEN ss[i] ELSE g[i - 1] \o ss[i]
    <3>1. CASE i <= m
      <4>1. i \in 1 .. m /\ (i # 1 => i - 1 \in 1 .. m /\ i - 1 \in 1 .. m + 1 /\ i - 1 <= m)
        BY <3>1
      <4>2. f[i] = IF i = 1 THEN ss[i] ELSE f[i - 1] \o ss[i]
        BY <2>1, <4>1 DEF Joined
      <4>3. g[i] = f[i] /\ (i # 1 => g[i - 1] = f[i - 1])
        BY <2>2, <3>1, <4>1
      <4> QED BY <4>2, <4>3
    <3>2. CASE ~(i <= m)
      <4>1. g[i] = IF i = 1 THEN ss[i] ELSE f[i - 1] \o ss[i]
        BY <2>2, <3>2
      <4>2. i # 1 => i - 1 \in 1 .. m + 1 /\ i - 1 <= m
        OBVIOUS
      <4>3. i # 1 => g[i - 1] = f[i - 1]
        BY <2>2, <4>2
      <4> QED BY <4>1, <4>3
    <3> QED BY <3>1, <3>2
  <2>4. g = [i \in 1 .. m + 1 |-> g[i]]
    BY <2>2
  <2>5. Joined(g, ss, m + 1)
    BY <2>3, <2>4, Zenon DEF Joined
  <2> QED BY <1>1, <2>5
<1>4. Nat \subseteq S
  BY <1>2, <1>3, Induction
<1> QED BY <1>1, <1>4

(* What stands where in a sequence that joins the first n of ss: element x *)
(* is the Q[x]-th of sequence P[x].                                        *)
Placed(f, ss, n, P, Q) ==
    /\ \A x \in DOMAIN f : P[x] \in 1 .. n /\ Q[x] \in DOMAIN ss[P[x]] /\ f[x] = ss[P[x]][Q[x]]
    /\ \A x, y \in DOMAIN f : x < y => P[x] < P[y] \/ (P[x] = P[y] /\ Q[x] < Q[y])
    /\ \A i \in 1 .. n : \A k \in DOMAIN ss[i] : \E x \in DOMAIN f : P[x] = i /\ Q[x] = k

(* By induction over the number of sequences joined.                       *)
LEMMA JoinedIsPlaced ==
    ASSUME NEW T, NEW ss, NEW N \in Nat, \A i \in 1 .. N : ss[i] \in Seq(T), NEW F, Joined(F, ss, N),
           NEW n \in 1 .. N
    PROVE  F[n] \in Seq(T) /\ \E P, Q : Placed(F[n], ss, n, P, Q)
<1>1. PICK S : S = {m \in Nat : m + 1 \in 1 .. N =>
                       F[m + 1] \in Seq(T) /\ \E P, Q : Placed(F[m + 1], ss, m + 1, P, Q)}
  OBVIOUS
<1>2. 0 \in S
  <2> SUFFICES ASSUME 1 \in 1 .. N
               PROVE  F[1] \in Seq(T) /\ \E P, Q : Placed(F[1], ss, 1, P, Q)
    BY <1>1
  <2>1. F[1] = ss[1]
    BY DEF Joined
  <2>2. PICK s : s = ss[1]
    OBVIOUS
  <2>3. s \in Seq(T)
    BY <2>2
  <2>4. PICK P, Q : P = [x \in DOMAIN s |-> 1] /\ Q = [x \in DOMAIN s |-> x]
    OBVIOUS
  <2>5. Placed(s, ss, 1, P, Q)
    <3>1. \A x \in DOMAIN s : P[x] = 1 /\ Q[x] = x
      BY <2>4
    <3>2. \A i \in 1 .. 1 : i = 1
      OBVIOUS
    <3> QED BY <2>2, <2>3, <3>1, <3>2 DEF Placed
  <2> QED BY <2>1, <2>2, <2>3, <2>5
<1>3. ASSUME NEW m \in Nat, m \in S
      PROVE  m + 1 \in S
  <2> SUFFICES ASSUME m + 1 + 1 \in 1 .. N
               PROVE  /\ F[m + 1 + 1] \in Seq(T)
                      /\ \E P, Q : Placed(F[m + 1 + 1], ss, m + 1 + 1, P, Q)
    BY <1>1
  <2>1. PICK j \in Nat, k \in Nat : j = m + 1 /\ k = j + 1
    OBVIOUS
  <2>2. j \in 1 .. N /\ k \in 1 .. N /\ k # 1 /\ k - 1 = j /\ m + 1 + 1 = k
    BY <2>1
  <2>3. F[j] \in Seq(T) /\ \E P, Q : Placed(F[j], ss, j, P, Q)
    BY <1>1, <1>3, <2>1, <2>2
  <2>4. PICK f, s : f = F[j] /\ s = ss[k]
    OBVIOUS
  <2>5. PICK P, Q : Placed(f, ss, j, P, Q)
    BY <2>3, <2>4
  <2>6. f \in Seq(T) /\ s \in Seq(T)
    BY <2>2, <2>3, <2>4
  <2>7. F[k] = f \o s
    <3>1. F[k] = IF k = 1 THEN ss[k] ELSE F[k - 1] \o ss[k]
      BY <2>2 DEF Joined
    <3> QED BY <2>2, <2>4, <3>1
  <2>8. PICK a \in Nat, b \in Nat : a = Len(f) /\ b = Len(s) /\ DOMAIN f = 1 .. a /\ DOMAIN s = 1 .. b
    BY <2>6
  <2>9. PICK g : g = f \o s
    OBVIOUS
  <2>10. /\ g \in Seq(T) /\ DOMAIN g = 1 .. a + b
         /\ \A x \in 1 .. a + b : g[x] = IF x <= a THEN f[x] ELSE s[x - a]
    <3>1. /\ g \in Seq(T) /\ Len(g) = a + b
          /\ \A x \in 1 .. a + b : g[x] = IF x <= a THEN f[x] ELSE s[x - a]
      BY <2>6, <2>8, <2>9, ConcatProperties
    <3> QED BY <3>1
  <2>11. PICK P2, Q2 : /\ P2 = [x \in 1 .. a + b |-> IF x <= a THEN P[x] ELSE k]
                       /\ Q2 = [x \in 1 .. a + b |-> IF x <= a THEN Q[x] ELSE x - a]
    OBVIOUS
  <2>12. ASSUME NEW x \in 1 .. a + b
         PROVE  \/ x \in 1 .. a /\ P2[x] = P[x] /\ Q2[x] = Q[x] /\ g[x] = f[x]
                \/ x > a /\ x - a \in 1 .. b /\ P2[x] = k /\ Q2[x] = x - a /\ g[x] = s[x - a]
    <3>1. CASE x <= a
      <4>1. P2[x] = P[x] /\ Q2[x] = Q[x] /\ g[x] = f[x]
        BY <2>10, <2>11, <3>1
      <4> QED BY <3>1, <4>1
    <3>2. CASE ~(x <= a)
      <4>1. P2[x] = k /\ Q2[x] = x - a /\ g[x] = s[x - a]
        BY <2>10, <2>11, <3>2
      <4> QED BY <3>2, <4>1
    <3> QED BY <3>1, <3>2
  <2>13. \A x \in 1 .. a : P[x] \in 1 .. j /\ Q[x] \in DOMAIN ss[P[x]] /\ f[x] = ss[P[x]][Q[x]]
    BY <2>5, <2>8 DEF Placed
  <2>14. \A x \in 1 .. a + b : P2[x] \in 1 .. k /\ Q2[x] \in DOMAIN ss[P2[x]] /\ g[x] = ss[P2[x]][Q2[x]]
    <3> SUFFICES ASSUME NEW x \in 1 .. a + b
                 PROVE  P2[x] \in 1 .. k /\ Q2[x] \in DOMAIN ss[P2[x]] /\ g[x] = ss[P2[x]][Q2[x]]
      OBVIOUS
    <3>1. CASE x \in 1 .. a /\ P2[x] = P[x] /\ Q2[x] = Q[x] /\ g[x] = f[x]
      <4>1. P[x] \in 1 .. k
        BY <2>1, <2>13, <3>1
      <4> QED BY <2>13, <3>1, <4>1
    <3>2. CASE x > a /\ x - a \in 1 .. b /\ P2[x] = k /\ Q2[x] = x - a /\ g[x] = s[x - a]
      <4>1. k \in 1 .. k
        BY <2>1
      <4> QED BY <2>4, <2>8, <3>2, <4>1
    <3> QED BY <2>12, <3>1, <3>2
  <2>15. ASSUME NEW x \in 1 .. a + b, NEW y \in 1 .. a + b, x < y
         PROVE  P2[x] < P2[y] \/ (P2[x] = P2[y] /\ Q2[x] < Q2[y])
    <3>1. CASE y \in 1 .. a /\ P2[y] = P[y] /\ Q2[y] = Q[y]
      <4>1. x \in 1 .. a
        BY <2>15, <3>1
      <4>2. P2[x] = P[x] /\ Q2[x] = Q[x]
        BY <2>12, <4>1
      <4>3. P[x] < P[y] \/ (P[x] = P[y] /\ Q[x] < Q[y])
        BY <2>5, <2>8, <2>15, <3>1, <4>1 DEF Placed
      <4> QED BY <3>1, <4>2, <4>3
    <3>2. CASE y > a /\ y - a \in 1 .. b /\ P2[y] = k /\ Q2[y] = y - a
      <4>1. CASE x \in 1 .. a /\ P2[x] = P[x]
        <5>1. P[x] \in 1 .. j
          BY <2>13, <4>1
        <5>2. P[x] < k
          BY <2>1, <5>1
        <5> QED BY <3>2, <4>1, <5>2
      <4>2. CASE x > a /\ x - a \in 1 .. b /\ P2[x] = k /\ Q2[x] = x - a
        <5>1. x - a < y - a
          BY <2>15
        <5> QED BY <3>2, <4>2, <5>1
      <4> QED BY <2>12, <4>1, <4>2
    <3> QED BY <2>12, <3>1, <3>2
  <2>16. ASSUME NEW i \in 1 .. k, NEW q \in DOMAIN ss[i]
         PROVE  \E x \in 1 .. a + b : P2[x] = i /\ Q2[x] = q
    <3>1. CASE i = k
      <4>1. q \in 1 .. b
        BY <2>4, <2>8, <3>1
      <4>2. PICK x \in Nat : x = a + q
        BY <4>1
      <4>3. x \in 1 .. a + b /\ ~(x <= a) /\ x - a = q
        BY <4>1, <4>2
      <4>4. P2[x] = k /\ Q2[x] = q
        BY <2>11, <4>3
      <4> QED BY <3>1, <4>3, <4>4
    <3>2. CASE i # k
      <4>1. i \in 1 .. j
        BY <2>1, <3>2
      <4>2. PICK x \in 1 .. a : P[x] = i /\ Q[x] = q
        BY <2>5, <2>8, <4>1 DEF Placed
      <4>3. x \in 1 .. a + b
        OBVIOUS
      <4>4. P2[x] = P[x] /\ Q2[x] = Q[x]
        BY <2>12, <4>3
      <4> QED BY <4>2, <4>3, <4>4
    <3> QED BY <3>1, <3>2
  <2>17. Placed(g, ss, k, P2, Q2)
    <3>1. \A x \in DOMAIN g : P2[x] \in 1 .. k /\ Q2[x] \in DOMAIN ss[P2[x]] /\ g[x] = ss[P2[x]][Q2[x]]
      BY <2>10, <2>14
    <3>2. \A x, y \in DOMAIN g : x < y => P2[x] < P2[y] \/ (P2[x] = P2[y] /\ Q2[x] < Q2[y])
      BY <2>10, <2>15
    <3>3. \A i \in 1 .. k : \A q \in DOMAIN ss[i] : \E x \in DOMAIN g : P2[x] = i /\ Q2[x] = q
      BY <2>10, <2>16
    <3> QED BY <3>1, <3>2, <3>3, Zenon DEF Placed
  <2> QED BY <2>2, <2>7, <2>9, <2>10, <2>17
<1>4. n - 1 \in Nat /\ n - 1 + 1 = n
  OBVIOUS
<1>5. n - 1 \in S
  BY <1>2, <1>3, <1>4, Induction
<1> QED BY <1>1, <1>4, <1>5

(* FlattenSeq keeps every element, in order.                               *)
LEMMA FlattenedIsPlaced ==
    ASSUME NEW T, NEW ss, ss \in Seq(Seq(T))
    PROVE  FlattenSeq(ss) \in Seq(T) /\ \E P, Q : Placed(FlattenSeq(ss), ss, Len(ss), P, Q)
<1>1. CASE Len(ss) = 0
  <2>1. ss = <<>> /\ 1 .. 0 = {}
    BY <1>1
  <2>2. FlattenSeq(ss) = ss
    BY <1>1, Zenon DEF FlattenSeq
  <2>3. PICK e : e = FlattenSeq(ss)
    OBVIOUS
  <2>4. e = ss /\ DOMAIN e = {} /\ e \in Seq(T)
    BY <2>1, <2>2, <2>3
  <2>5. Placed(e, ss, Len(ss), e, e)
    BY <1>1, <2>1, <2>4 DEF Placed
  <2> QED BY <2>3, <2>4, <2>5, Zenon
<1>2. CASE Len(ss) # 0
  <2>1. PICK N \in Nat : N = Len(ss) /\ N \in 1 .. N /\ \A i \in 1 .. N : ss[i] \in Seq(T)
    BY <1>2
  <2>2. PICK F : F = CHOOSE f : f = [i \in 1 .. Len(ss) |-> IF i = 1 THEN ss[i] ELSE f[i - 1] \o ss[i]]
    OBVIOUS
  <2>3. \E f : f = [i \in 1 .. Len(ss) |-> IF i = 1 THEN ss[i] ELSE f[i - 1] \o ss[i]]
    BY <2>1, JoinedExists DEF Joined
  <2>4. F = [i \in 1 .. Len(ss) |-> IF i = 1 THEN ss[i] ELSE F[i - 1] \o ss[i]]
    BY <2>2, <2>3, Zenon
  <2>5. Joined(F, ss, N)
    BY <2>1, <2>4, Zenon DEF Joined
  <2>6. FlattenSeq(ss) = F[Len(ss)]
    BY <1>2, <2>2, Zenon DEF FlattenSeq
  <2>7. F[N] \in Seq(T) /\ \E P, Q : Placed(F[N], ss, N, P, Q)
    BY <2>1, <2>5, JoinedIsPlaced
  <2> QED BY <2>1, <2>6, <2>7
<1> QED BY <1>1, <1>2

-----------------------------------------------------------------------------
(* The constants of a type library (const_load, run_const_load).           *)

(* Which of its members the constants of an enum are. *)
Picked(f, members, K) ==
    /\ \A x \in DOMAIN f : /\ K[x] \in DOMAIN members /\ IsConstant(members[K[x]])
                           /\ f[x] = members[K[x]]
    /\ \A x, y \in DOMAIN f : x < y => K[x] < K[y]
    /\ \A k \in DOMAIN members : IsConstant(members[k]) => \E x \in DOMAIN f : K[x] = k

(* An enum yields its constants and nothing else.                          *)
LEMMA EnumIsPicked ==
    ASSUME NEW T, NEW members \in Seq(T)
    PROVE  EnumConstants(members) \in Seq(T) /\ \E K : Picked(EnumConstants(members), members, K)
<1>1. PICK n \in Nat : n = Len(members) /\ DOMAIN members = 1 .. n
  OBVIOUS
<1>2. PICK ss : ss = [k \in 1 .. n |-> IF IsConstant(members[k]) THEN <<members[k]>> ELSE <<>>]
  OBVIOUS
<1>3. ss \in Seq(Seq(T)) /\ Len(ss) = n
  <2>1. \A k \in 1 .. n : ss[k] \in Seq(T)
    <3> SUFFICES ASSUME NEW k \in 1 .. n PROVE ss[k] \in Seq(T)
      OBVIOUS
    <3>1. members[k] \in T
      BY <1>1
    <3> QED BY <1>2, <3>1
  <2>2. ss \in [1 .. n -> Seq(T)]
    BY <1>2, <2>1
  <2> QED BY <2>2
<1>4. PICK f : f = FlattenSeq(ss)
  OBVIOUS
<1>5. f = EnumConstants(members)
  BY <1>1, <1>2, <1>4 DEF EnumConstants
<1>6. PICK P, Q : f \in Seq(T) /\ Placed(f, ss, n, P, Q)
  BY <1>3, <1>4, FlattenedIsPlaced
<1>7. ASSUME NEW k \in 1 .. n
      PROVE  /\ IsConstant(members[k]) => DOMAIN ss[k] = {1} /\ ss[k][1] = members[k]
             /\ ~IsConstant(members[k]) => DOMAIN ss[k] = {}
  <2>1. IsConstant(members[k]) => ss[k] = <<members[k]>>
    BY <1>2
  <2>2. ~IsConstant(members[k]) => ss[k] = <<>>
    BY <1>2
  <2> QED BY <2>1, <2>2
<1>8. \A x \in DOMAIN f : /\ P[x] \in 1 .. n /\ IsConstant(members[P[x]]) /\ Q[x] = 1
                          /\ f[x] = members[P[x]]
  <2> SUFFICES ASSUME NEW x \in DOMAIN f
               PROVE  /\ P[x] \in 1 .. n /\ IsConstant(members[P[x]]) /\ Q[x] = 1
                      /\ f[x] = members[P[x]]
    OBVIOUS
  <2>1. P[x] \in 1 .. n /\ Q[x] \in DOMAIN ss[P[x]] /\ f[x] = ss[P[x]][Q[x]]
    BY <1>6, Zenon DEF Placed
  <2>2. IsConstant(members[P[x]])
    BY <1>7, <2>1
  <2>3. DOMAIN ss[P[x]] = {1} /\ ss[P[x]][1] = members[P[x]]
    BY <1>7, <2>1, <2>2
  <2> QED BY <2>1, <2>2, <2>3
<1>9. \A x, y \in DOMAIN f : x < y => P[x] < P[y]
  <2>1. \A x, y \in DOMAIN f : x < y => P[x] < P[y] \/ (P[x] = P[y] /\ Q[x] < Q[y])
    BY <1>6 DEF Placed
  <2>2. \A x, y \in DOMAIN f : ~(Q[x] < Q[y])
    BY <1>8
  <2> QED BY <2>1, <2>2, Zenon
<1>10. \A k \in 1 .. n : IsConstant(members[k]) => \E x \in DOMAIN f : P[x] = k
  <2> SUFFICES ASSUME NEW k \in 1 .. n, IsConstant(members[k])
               PROVE  \E x \in DOMAIN f : P[x] = k
    OBVIOUS
  <2>1. 1 \in DOMAIN ss[k]
    BY <1>7
  <2> QED BY <1>6, <2>1 DEF Placed
<1>11. Picked(f, members, P)
  BY <1>1, <1>8, <1>9, <1>10 DEF Picked
<1> QED BY <1>5, <1>6, <1>11

(* Which members of a library its constants are, in its order. *)
Listed(all, library, P, K) ==
    /\ \A x \in DOMAIN all :
          /\ P[x] \in DOMAIN library /\ library[P[x]].kind = "enum"
          /\ K[x] \in DOMAIN library[P[x]].members
          /\ IsConstant(library[P[x]].members[K[x]])
          /\ all[x] = library[P[x]].members[K[x]]
    /\ \A x, y \in DOMAIN all : x < y => P[x] < P[y] \/ (P[x] = P[y] /\ K[x] < K[y])
    /\ \A i \in DOMAIN library : \A k \in DOMAIN library[i].members :
          library[i].kind = "enum" /\ IsConstant(library[i].members[k]) =>
              \E x \in DOMAIN all : P[x] = i /\ K[x] = k

(* A library yields those of its enums.                                    *)
LEMMA LibraryIsListed ==
    ASSUME NEW T, NEW library \in Seq(T),
           \A i \in DOMAIN library : library[i].members \in Seq(Cells(library[i].members))
    PROVE  /\ ConstLoad(library) \in Seq(UNION {Cells(library[i].members) : i \in DOMAIN library})
           /\ \E P, K : Listed(ConstLoad(library), library, P, K)
<1>1. PICK n \in Nat : n = Len(library) /\ DOMAIN library = 1 .. n
  OBVIOUS
<1>2. PICK M : M = UNION {Cells(library[i].members) : i \in DOMAIN library}
  OBVIOUS
<1>3. \A i \in 1 .. n : library[i].members \in Seq(M)
  <2> SUFFICES ASSUME NEW i \in 1 .. n PROVE library[i].members \in Seq(M)
    OBVIOUS
  <2>1. PICK s, C : s = library[i].members /\ C = Cells(s)
    OBVIOUS
  <2>2. s \in Seq(C) /\ C \subseteq M
    BY <1>1, <1>2, <2>1
  <2>3. s \in Seq(M)
    BY <2>2
  <2> QED BY <2>1, <2>3
<1>4. PICK ss : ss = [i \in 1 .. n |-> IF library[i].kind = "enum"
                                      THEN EnumConstants(library[i].members) ELSE <<>>]
  OBVIOUS
<1>5. PICK KK : KK = [i \in 1 .. n |-> CHOOSE K : Picked(EnumConstants(library[i].members),
                                                        library[i].members, K)]
  OBVIOUS
<1>6. ASSUME NEW i \in 1 .. n
      PROVE  /\ EnumConstants(library[i].members) \in Seq(M)
             /\ Picked(EnumConstants(library[i].members), library[i].members, KK[i])
  <2>1. \E K : Picked(EnumConstants(library[i].members), library[i].members, K)
    BY <1>3, EnumIsPicked
  <2>2. KK[i] = CHOOSE K : Picked(EnumConstants(library[i].members), library[i].members, K)
    BY <1>5
  <2>3. Picked(EnumConstants(library[i].members), library[i].members, KK[i])
    BY <2>1, <2>2, Zenon
  <2> QED BY <1>3, <2>3, EnumIsPicked
<1>7. ss \in Seq(Seq(M)) /\ Len(ss) = n
  <2>1. \A k \in 1 .. n : ss[k] \in Seq(M)
    BY <1>4, <1>6
  <2>2. ss \in [1 .. n -> Seq(M)]
    BY <1>4, <2>1
  <2> QED BY <2>2
<1>8. PICK f : f = FlattenSeq(ss)
  OBVIOUS
<1>9. f = ConstLoad(library)
  BY <1>1, <1>4, <1>8 DEF ConstLoad
<1>10. PICK P, Q : f \in Seq(M) /\ Placed(f, ss, n, P, Q)
  BY <1>7, <1>8, FlattenedIsPlaced
<1>11. PICK K : K = [x \in DOMAIN f |-> KK[P[x]][Q[x]]]
  OBVIOUS
<1>12. ASSUME NEW i \in 1 .. n
       PROVE  /\ library[i].kind # "enum" => DOMAIN ss[i] = {}
              /\ library[i].kind = "enum" =>
                   /\ \A q \in DOMAIN ss[i] : /\ KK[i][q] \in DOMAIN library[i].members
                                              /\ IsConstant(library[i].members[KK[i][q]])
                                              /\ ss[i][q] = library[i].members[KK[i][q]]
                   /\ \A q, r \in DOMAIN ss[i] : q < r => KK[i][q] < KK[i][r]
                   /\ \A k \in DOMAIN library[i].members : IsConstant(library[i].members[k]) =>
                         \E q \in DOMAIN ss[i] : KK[i][q] = k
  <2>1. library[i].kind # "enum" => ss[i] = <<>>
    BY <1>4
  <2>2. library[i].kind = "enum" => ss[i] = EnumConstants(library[i].members)
    BY <1>4
  <2>3. library[i].kind = "enum" => Picked(ss[i], library[i].members, KK[i])
    BY <1>6, <2>2
  <2> QED BY <2>1, <2>3 DEF Picked
<1>13. ASSUME NEW x \in DOMAIN f
       PROVE  /\ P[x] \in 1 .. n /\ Q[x] \in DOMAIN ss[P[x]] /\ f[x] = ss[P[x]][Q[x]]
              /\ library[P[x]].kind = "enum" /\ K[x] = KK[P[x]][Q[x]]
  <2>1. P[x] \in 1 .. n /\ Q[x] \in DOMAIN ss[P[x]] /\ f[x] = ss[P[x]][Q[x]]
    BY <1>10 DEF Placed
  <2>2. library[P[x]].kind = "enum"
    BY <1>12, <2>1
  <2> QED BY <1>11, <2>1, <2>2
<1>14. ASSUME NEW x \in DOMAIN f
       PROVE  /\ P[x] \in DOMAIN library /\ library[P[x]].kind = "enum"
              /\ K[x] \in DOMAIN library[P[x]].members
              /\ IsConstant(library[P[x]].members[K[x]])
              /\ f[x] = library[P[x]].members[K[x]]
  <2>1. PICK p, q : p = P[x] /\ q = Q[x]
    OBVIOUS
  <2>2. /\ p \in 1 .. n /\ q \in DOMAIN ss[p] /\ f[x] = ss[p][q]
        /\ library[p].kind = "enum" /\ K[x] = KK[p][q]
    BY <1>13, <2>1
  <2>3. /\ KK[p][q] \in DOMAIN library[p].members
        /\ IsConstant(library[p].members[KK[p][q]])
        /\ ss[p][q] = library[p].members[KK[p][q]]
    BY <1>12, <2>2
  <2> QED BY <1>1, <2>1, <2>2, <2>3
<1>15. ASSUME NEW x \in DOMAIN f, NEW y \in DOMAIN f, x < y
       PROVE  P[x] < P[y] \/ (P[x] = P[y] /\ K[x] < K[y])
  <2>1. P[x] < P[y] \/ (P[x] = P[y] /\ Q[x] < Q[y])
    BY <1>10, <1>15 DEF Placed
  <2>2. CASE P[x] = P[y] /\ Q[x] < Q[y]
    <3>1. Q[x] \in DOMAIN ss[P[x]] /\ Q[y] \in DOMAIN ss[P[x]] /\ P[x] \in 1 .. n
          /\ library[P[x]].kind = "enum" /\ K[x] = KK[P[x]][Q[x]] /\ K[y] = KK[P[x]][Q[y]]
      BY <1>13, <2>2
    <3>2. KK[P[x]][Q[x]] < KK[P[x]][Q[y]]
      BY <1>12, <2>2, <3>1
    <3> QED BY <2>2, <3>1, <3>2
  <2> QED BY <2>1, <2>2
<1>16. ASSUME NEW i \in DOMAIN library, NEW k \in DOMAIN library[i].members,
              library[i].kind = "enum", IsConstant(library[i].members[k])
       PROVE  \E x \in DOMAIN f : P[x] = i /\ K[x] = k
  <2>1. i \in 1 .. n
    BY <1>1
  <2>2. PICK q \in DOMAIN ss[i] : KK[i][q] = k
    BY <1>12, <1>16, <2>1
  <2>3. PICK x \in DOMAIN f : P[x] = i /\ Q[x] = q
    BY <1>10, <2>1, <2>2 DEF Placed
  <2>4. K[x] = KK[P[x]][Q[x]]
    BY <1>13
  <2> QED BY <2>2, <2>3, <2>4
<1>17. Listed(f, library, P, K)
  <2>1. \A i \in DOMAIN library : \A k \in DOMAIN library[i].members :
          library[i].kind = "enum" /\ IsConstant(library[i].members[k]) =>
              \E x \in DOMAIN f : P[x] = i /\ K[x] = k
    BY <1>16
  <2>2. \A x, y \in DOMAIN f : x < y => P[x] < P[y] \/ (P[x] = P[y] /\ K[x] < K[y])
    BY <1>15
  <2> QED BY <1>14, <2>1, <2>2, Zenon DEF Listed
<1> QED BY <1>2, <1>9, <1>10, <1>17

LEMMA GreatestIndex ==
    ASSUME NEW n \in Nat, NEW T, T \subseteq 1 .. n, T # {}
    PROVE  \E x \in T : \A y \in T : y <= x
<1>1. PICK D : D = {n - x : x \in T}
  OBVIOUS
<1>2. D \subseteq Nat /\ D # {}
  <2>1. \A x \in T : n - x \in Nat
    OBVIOUS
  <2>2. D \subseteq Nat
    BY <1>1, <2>1
  <2>3. PICK x : x \in T
    OBVIOUS
  <2>4. n - x \in D
    BY <1>1, <2>3
  <2> QED BY <2>2, <2>4
<1>3. PICK d \in D : \A e \in D : d <= e
  BY <1>2, LeastNatural
<1>4. PICK x \in T : d = n - x
  BY <1>1
<1>5. ASSUME NEW y \in T
      PROVE  y <= x
  <2>1. n - y \in D
    BY <1>1
  <2>2. n - x <= n - y
    BY <1>3, <1>4, <2>1
  <2>3. x \in Int /\ y \in Int
    OBVIOUS
  <2> QED BY <2>2, <2>3
<1> QED BY <1>5

(* The last of a sequence's constants that has a name. *)
LastNamed(all, n) ==
    CHOOSE i \in DOMAIN all : all[i].name = n /\ \A k \in DOMAIN all : all[k].name = n => k <= i

LEMMA LastOfAName ==
    ASSUME NEW T, NEW all \in Seq(T), NEW x \in DOMAIN all
    PROVE  LET l == LastNamed(all, all[x].name) IN
           /\ l \in DOMAIN all /\ all[l].name = all[x].name
           /\ \A k \in DOMAIN all : all[k].name = all[x].name => k <= l
<1>1. PICK n, m : n \in Nat /\ n = Len(all) /\ DOMAIN all = 1 .. n /\ m = all[x].name
  OBVIOUS
<1>2. PICK S : S = {i \in 1 .. n : all[i].name = m}
  OBVIOUS
<1>3. S \subseteq 1 .. n /\ S # {}
  <2>1. x \in S
    BY <1>1, <1>2
  <2> QED BY <1>2, <2>1
<1>4. \E i \in S : \A k \in S : k <= i
  BY <1>1, <1>3, GreatestIndex
<1>5. \E i \in DOMAIN all : all[i].name = m /\ \A k \in DOMAIN all : all[k].name = m => k <= i
  BY <1>1, <1>2, <1>4
<1>6. PICK l : l = LastNamed(all, m)
  OBVIOUS
<1>7. /\ l \in DOMAIN all /\ all[l].name = m
      /\ \A k \in DOMAIN all : all[k].name = m => k <= l
  BY <1>5, <1>6, Zenon DEF LastNamed
<1> QED BY <1>1, <1>6, <1>7, Zenon

(* What a library's constants are read as, and what they are handed back as. *)
ConstantsRead(library) ==
    LET all == ConstLoad(library) IN
    [n \in {all[i].name : i \in DOMAIN all} |-> VariantToJson(all[LastNamed(all, n)].value)]

ConstantsBack(library) ==
    [n \in DOMAIN ConstantsRead(library) |-> JsonToVariant(ConstantsRead(library)[n], "none")]

LEMMA ScalarsCross ==
    ASSUME NEW v, IsScalarVariant(v)
    PROVE  JsonToVariant(VariantToJson(v), "none") = Returned(v)
<1>1. v[1] # "ARRAY" /\ v[1] # "NULL ARRAY"
  BY DEF IsScalarVariant
<1>2. VariantToJson(v) = ScalarToJson(v)
  BY <1>1 DEF VariantToJson
<1>3. ~IsArray(ScalarToJson(v))
  BY NoScalarIsArray
<1> QED BY <1>2, <1>3 DEF JsonToVariant, Returned

HoldsScalars(library) ==
    /\ library \in Seq(Cells(library))
    /\ \A i \in DOMAIN library :
          /\ library[i].members \in Seq(Cells(library[i].members))
          /\ \A k \in DOMAIN library[i].members : IsScalarVariant(library[i].members[k].value)

LEMMA ConstantsInTheLibrary ==
    ASSUME NEW library \in Libraries, library # None
    PROVE  \E all, P, K, T :
              /\ all = ConstLoad(library) /\ all \in Seq(T) /\ Listed(all, library, P, K)
              /\ HoldsScalars(library)
<1>1. library \in Seq(Cells(library))
  BY LibrariesAssumption
<1>2. \A i \in DOMAIN library :
         /\ library[i].members \in Seq(Cells(library[i].members))
         /\ \A m \in Cells(library[i].members) : IsScalarVariant(m.value)
  BY LibrariesAssumption, <1>1 DEF Cells
<1>3. \A i \in DOMAIN library : \A k \in DOMAIN library[i].members :
         IsScalarVariant(library[i].members[k].value)
  BY <1>2 DEF Cells
<1>4. /\ ConstLoad(library) \in Seq(UNION {Cells(library[i].members) : i \in DOMAIN library})
      /\ \E P, K : Listed(ConstLoad(library), library, P, K)
  BY <1>1, <1>2, LibraryIsListed
<1>5. HoldsScalars(library)
  BY <1>1, <1>2, <1>3, Zenon DEF HoldsScalars
<1>6. PICK T : T = UNION {Cells(library[i].members) : i \in DOMAIN library}
  OBVIOUS
<1>7. PICK P, K : Listed(ConstLoad(library), library, P, K)
  BY <1>4
<1>8. ConstLoad(library) \in Seq(T)
  BY <1>4, <1>6
<1> QED BY <1>5, <1>7, <1>8

(* A constant of the library in hand, and the last of its name. *)
DeclaredAs(n, i, k) ==
    /\ job[i].kind = "enum" /\ job[i].members[k].described
    /\ job[i].members[k].name = n
    /\ job[i].members[k].value # <<"no value">>

LastDeclared(n, i, k) ==
    /\ DeclaredAs(n, i, k)
    /\ \A j \in i .. Len(job) : \A l \in DOMAIN job[j].members :
          DeclaredAs(n, j, l) => j = i /\ l <= k

LEMMA DeclaresLast ==
    ASSUME NEW n, NEW v
    PROVE  Declares(n, v) <=>
              n # None /\ \E i \in DOMAIN job : \E k \in DOMAIN job[i].members :
                 LastDeclared(n, i, k) /\ job[i].members[k].value = v
BY Zenon DEF Declares, LastDeclared, DeclaredAs

(* What is listed is declared, and what is declared is listed.             *)
LEMMA ListedAsDeclared ==
    ASSUME NEW all, NEW P, NEW K, Listed(all, job, P, K), NEW T, all \in Seq(T),
           HoldsScalars(job)
    PROVE  /\ \A x \in DOMAIN all : /\ P[x] \in DOMAIN job /\ K[x] \in DOMAIN job[P[x]].members
                                    /\ DeclaredAs(all[x].name, P[x], K[x]) /\ all[x].name # None
                                    /\ all[x] = job[P[x]].members[K[x]]
           /\ \A i \in DOMAIN job : \A k \in DOMAIN job[i].members : \A n :
                 DeclaredAs(n, i, k) /\ n # None =>
                    \E x \in DOMAIN all : P[x] = i /\ K[x] = k /\ all[x].name = n
<1>1. ASSUME NEW x \in DOMAIN all
      PROVE  /\ P[x] \in DOMAIN job /\ K[x] \in DOMAIN job[P[x]].members
             /\ DeclaredAs(all[x].name, P[x], K[x]) /\ all[x].name # None
             /\ all[x] = job[P[x]].members[K[x]]
  <2>1. /\ P[x] \in DOMAIN job /\ job[P[x]].kind = "enum"
        /\ K[x] \in DOMAIN job[P[x]].members
        /\ IsConstant(job[P[x]].members[K[x]])
        /\ all[x] = job[P[x]].members[K[x]]
    BY Zenon DEF Listed
  <2>2. PICK m : m = job[P[x]].members[K[x]]
    OBVIOUS
  <2>3. m.described /\ m.name # None /\ m.value # <<"no value">> /\ all[x] = m
    BY <2>1, <2>2, Zenon DEF IsConstant
  <2>4. all[x].name = m.name
    BY <2>3
  <2> QED BY <2>1, <2>2, <2>3, <2>4, Zenon DEF DeclaredAs
<1>2. ASSUME NEW i \in DOMAIN job, NEW k \in DOMAIN job[i].members, NEW n,
             DeclaredAs(n, i, k), n # None
      PROVE  \E x \in DOMAIN all : P[x] = i /\ K[x] = k /\ all[x].name = n
  <2>1. job[i].kind = "enum" /\ IsConstant(job[i].members[k])
    BY <1>2, Zenon DEF DeclaredAs, IsConstant
  <2>2. PICK x \in DOMAIN all : P[x] = i /\ K[x] = k
    BY <2>1, Zenon DEF Listed
  <2>3. all[x] = job[i].members[k]
    BY <1>1, <2>2, Zenon
  <2> QED BY <1>2, <2>2, <2>3, Zenon DEF DeclaredAs
<1>3. \A x \in DOMAIN all :
         /\ P[x] \in DOMAIN job /\ K[x] \in DOMAIN job[P[x]].members
         /\ DeclaredAs(all[x].name, P[x], K[x]) /\ all[x].name # None
         /\ all[x] = job[P[x]].members[K[x]]
  BY <1>1
<1>4. \A i \in DOMAIN job : \A k \in DOMAIN job[i].members : \A n :
         DeclaredAs(n, i, k) /\ n # None =>
             \E x \in DOMAIN all : P[x] = i /\ K[x] = k /\ all[x].name = n
  BY <1>2
<1> QED BY <1>3, <1>4

LEMMA MembersAreNumbered ==
    ASSUME NEW library, HoldsScalars(library), NEW j \in DOMAIN library,
           NEW k \in DOMAIN library[j].members
    PROVE  k \in Int
<1>1. PICK s, C : s = library[j].members /\ C = Cells(s)
  OBVIOUS
<1>2. s \in Seq(C)
  BY <1>1, Zenon DEF HoldsScalars
<1> QED BY <1>1, <1>2

(* Of the constants of a name the last listed is the last declared. *)
LEMMA LastIsDeclaredLast ==
    ASSUME NEW all, NEW P, NEW K, Listed(all, job, P, K), NEW T, all \in Seq(T),
           HoldsScalars(job), NEW x \in DOMAIN all,
           \A y \in DOMAIN all : all[y].name = all[x].name => y <= x
    PROVE  LastDeclared(all[x].name, P[x], K[x])
<1>1. PICK n : n = all[x].name
  OBVIOUS
<1>2. /\ P[x] \in DOMAIN job /\ K[x] \in DOMAIN job[P[x]].members
      /\ DeclaredAs(n, P[x], K[x]) /\ n # None
  BY <1>1, ListedAsDeclared
<1>3. P[x] \in Nat /\ Len(job) \in Nat /\ DOMAIN job = 1 .. Len(job) /\ P[x] >= 1
  BY <1>2 DEF HoldsScalars
<1>5. \A j \in DOMAIN job : \A k \in DOMAIN job[j].members : k \in Int
  BY MembersAreNumbered
<1>4. ASSUME NEW j \in P[x] .. Len(job), NEW l \in DOMAIN job[j].members, DeclaredAs(n, j, l)
      PROVE  j = P[x] /\ l <= K[x]
  <2>1. j \in DOMAIN job /\ j >= P[x] /\ j \in Int
    BY <1>3
  <2>2. PICK y \in DOMAIN all : P[y] = j /\ K[y] = l /\ all[y].name = n
    BY <1>2, <1>4, <2>1, ListedAsDeclared
  <2>3. y <= x /\ y \in Int /\ x \in Int
    BY <1>1, <2>2
  <2>4. CASE y < x
    <3>1. P[y] < P[x] \/ (P[y] = P[x] /\ K[y] < K[x])
      BY <2>4 DEF Listed
    <3>2. l \in Int /\ K[x] \in Int
      BY <1>2, <1>5, <2>1
    <3> QED BY <1>3, <2>1, <2>2, <3>1, <3>2
  <2>5. CASE y = x
    <3>2. l \in Int
      BY <1>5, <2>1
    <3> QED BY <2>2, <2>5, <3>2
  <2> QED BY <2>3, <2>4, <2>5
<1> QED BY <1>1, <1>2, <1>4 DEF LastDeclared

(* The constants that are handed back are the last declared of each name.  *)
LEMMA ConstantsReturn ==
    ASSUME job \in Libraries, job # None, carried = ConstantsBack(job)
    PROVE  /\ \A i \in DOMAIN job : \A k \in DOMAIN job[i].members :
                 LET m == job[i].members[k] IN
                 Declares(m.name, m.value) =>
                     /\ m.name \in DOMAIN carried
                     /\ IF Sayable(m.value) THEN Same(m.value, carried[m.name])
                        ELSE IsRefused(carried[m.name])
           /\ \A n \in DOMAIN carried : \E i \in DOMAIN job : \E k \in DOMAIN job[i].members :
                 Declares(n, job[i].members[k].value)
<1>1. PICK all, P, K, T :
         all = ConstLoad(job) /\ all \in Seq(T) /\ Listed(all, job, P, K) /\ HoldsScalars(job)
  BY ConstantsInTheLibrary
<1>2. PICK names, read : /\ names = {all[i].name : i \in DOMAIN all}
                         /\ read = ConstantsRead(job)
  OBVIOUS
<1>3. read = [n \in names |-> VariantToJson(all[LastNamed(all, n)].value)]
  BY <1>1, <1>2, Zenon DEF ConstantsRead
<1>4. carried = [n \in DOMAIN read |-> JsonToVariant(read[n], "none")]
  BY <1>2, Zenon DEF ConstantsBack
<1>5. DOMAIN carried = names
  BY <1>3, <1>4
<1>6. ASSUME NEW x \in DOMAIN all
      PROVE  LET n == all[x].name
                 l == LastNamed(all, n)
             IN /\ n \in names /\ n # None /\ l \in DOMAIN all /\ all[l].name = n
                /\ LastDeclared(n, P[l], K[l])
                /\ P[l] \in DOMAIN job /\ K[l] \in DOMAIN job[P[l]].members
                /\ all[l] = job[P[l]].members[K[l]]
                /\ carried[n] = Returned(all[l].value) /\ ReturnsFaithfully(all[l].value)
  <2>1. PICK n, l : n = all[x].name /\ l = LastNamed(all, n)
    OBVIOUS
  <2>2. l \in DOMAIN all /\ all[l].name = n /\ \A k \in DOMAIN all : all[k].name = n => k <= l
    BY <1>1, <2>1, LastOfAName
  <2>3. LastDeclared(all[l].name, P[l], K[l])
    BY <1>1, <2>2, LastIsDeclaredLast
  <2>4. /\ P[l] \in DOMAIN job /\ K[l] \in DOMAIN job[P[l]].members
        /\ all[l] = job[P[l]].members[K[l]] /\ all[l].name # None
    BY <1>1, <2>2, ListedAsDeclared
  <2>5. PICK v : v = all[l].value
    OBVIOUS
  <2>6. IsScalarVariant(v)
    BY <1>1, <2>4, <2>5, Zenon DEF HoldsScalars
  <2>7. n \in names
    BY <1>2, <2>1
  <2>8. carried[n] = JsonToVariant(VariantToJson(v), "none")
    BY <1>3, <1>4, <2>1, <2>5, <2>7
  <2>9. carried[n] = Returned(v) /\ ReturnsFaithfully(v)
    BY <2>6, <2>8, ScalarsCross, ScalarReturns
  <2> QED BY <2>1, <2>2, <2>3, <2>4, <2>5, <2>7, <2>9
<1>7. ASSUME NEW i \in DOMAIN job, NEW k \in DOMAIN job[i].members, NEW n, NEW v,
             n = job[i].members[k].name, v = job[i].members[k].value, Declares(n, v)
      PROVE  /\ n \in DOMAIN carried
             /\ IF Sayable(v) THEN Same(v, carried[n]) ELSE IsRefused(carried[n])
  <2>0. PICK a \in DOMAIN job : \E b \in DOMAIN job[a].members :
           LastDeclared(n, a, b) /\ job[a].members[b].value = v
    BY <1>7, DeclaresLast
  <2>1. PICK b \in DOMAIN job[a].members :
           LastDeclared(n, a, b) /\ job[a].members[b].value = v
    BY <2>0
  <2>2. n # None /\ DeclaredAs(n, a, b)
    BY <1>7, <2>1, DeclaresLast DEF LastDeclared
  <2>3. PICK x \in DOMAIN all : P[x] = a /\ K[x] = b /\ all[x].name = n
    BY <1>1, <2>2, ListedAsDeclared
  <2>4. PICK l : l = LastNamed(all, n)
    OBVIOUS
  <2>5. /\ n \in names /\ l \in DOMAIN all /\ all[l].name = n
        /\ LastDeclared(n, P[l], K[l])
        /\ P[l] \in DOMAIN job /\ K[l] \in DOMAIN job[P[l]].members
        /\ all[l] = job[P[l]].members[K[l]]
        /\ carried[n] = Returned(all[l].value) /\ ReturnsFaithfully(all[l].value)
    BY <1>6, <2>3, <2>4
  <2>6. P[l] = a /\ K[l] = b
    <3>1. DeclaredAs(n, P[l], K[l])
      BY <2>5, Zenon DEF LastDeclared
    <3>2. DOMAIN job = 1 .. Len(job) /\ a \in Int /\ P[l] \in Int /\ Len(job) \in Nat
      BY <1>1, <2>5 DEF HoldsScalars
    <3>3. CASE a <= P[l]
      <4>1. P[l] \in a .. Len(job)
        BY <2>5, <3>2, <3>3
      <4>2. P[l] = a /\ K[l] <= b
        BY <2>1, <2>5, <3>1, <4>1, Zenon DEF LastDeclared
      <4>3. a \in P[l] .. Len(job)
        BY <3>2, <4>2
      <4>4. b <= K[l]
        BY <2>2, <2>5, <4>3, Zenon DEF LastDeclared
      <4>5. b \in Int /\ K[l] \in Int
        BY <1>1, <2>5, MembersAreNumbered
      <4> QED BY <4>2, <4>4, <4>5
    <3>4. CASE P[l] <= a
      <4>1. a \in P[l] .. Len(job)
        BY <3>2, <3>4
      <4>2. a = P[l] /\ b <= K[l]
        BY <2>2, <2>5, <4>1, Zenon DEF LastDeclared
      <4>3. P[l] \in a .. Len(job)
        BY <3>2, <4>2
      <4>4. K[l] <= b
        BY <2>1, <2>5, <3>1, <4>3, Zenon DEF LastDeclared
      <4>5. b \in Int /\ K[l] \in Int
        BY <1>1, <2>5, MembersAreNumbered
      <4> QED BY <4>2, <4>4, <4>5
    <3> QED BY <3>2, <3>3, <3>4
  <2>7. all[l].value = v
    BY <2>1, <2>5, <2>6
  <2> QED BY <1>5, <2>5, <2>7 DEF ReturnsFaithfully
<1>8. ASSUME NEW n \in DOMAIN carried
      PROVE  \E i \in DOMAIN job : \E k \in DOMAIN job[i].members :
                Declares(n, job[i].members[k].value)
  <2>1. PICK x \in DOMAIN all : all[x].name = n
    BY <1>2, <1>5
  <2>2. PICK l : l = LastNamed(all, n)
    OBVIOUS
  <2>3. /\ n # None /\ LastDeclared(n, P[l], K[l])
        /\ P[l] \in DOMAIN job /\ K[l] \in DOMAIN job[P[l]].members
    BY <1>6, <2>1, <2>2
  <2>4. Declares(n, job[P[l]].members[K[l]].value)
    BY <2>3, DeclaresLast, Zenon
  <2> QED BY <2>3, <2>4
<1>9. \A i \in DOMAIN job : \A k \in DOMAIN job[i].members :
                 LET m == job[i].members[k] IN
                 Declares(m.name, m.value) =>
                     /\ m.name \in DOMAIN carried
                     /\ IF Sayable(m.value) THEN Same(m.value, carried[m.name])
                        ELSE IsRefused(carried[m.name])
  BY <1>7, Zenon
<1>10. \A n \in DOMAIN carried : \E i \in DOMAIN job : \E k \in DOMAIN job[i].members :
          Declares(n, job[i].members[k].value)
  BY <1>8
<1> QED BY <1>9, <1>10

(* The way of a value, and of a library's constants. *)
ReadUnderway ==
    /\ at \in {"held", "read", "written"} => job \in Values
    /\ at = "read" => carried = VariantToJson(job)
    /\ at = "written" => carried = JsonToVariant(VariantToJson(job), "none")
    /\ at \in {"library", "loaded", "handed back"} => job \in Libraries
    /\ at = "loaded" => job # None /\ carried = ConstantsRead(job)
    /\ at = "handed back" => job # None /\ carried = ConstantsBack(job)

LEMMA LoadStep ==
    ASSUME ReadUnderway, LoadConstants
    PROVE  ReadUnderway'
<1>1. job' = job /\ job \in Libraries
  BY DEF ReadUnderway, LoadConstants, Carry
<1>2. PICK loaded : loaded = RunConstLoad(job)
  OBVIOUS
<1>3. IF loaded[1] = "object" THEN at' = "loaded" /\ carried' = loaded[2] ELSE at' = "not loaded"
  BY <1>2 DEF LoadConstants, Carry
<1>4. CASE loaded[1] = "object"
  <2>1. job # None
    <3>1. Refused("TYPE_E_ELEMENTNOTFOUND")[1] # "object"
      BY DEF Refused
    <3> QED BY <1>2, <1>4, <3>1, Zenon DEF RunConstLoad
  <2>2. PICK read : read = ConstantsRead(job)
    OBVIOUS
  <2>3. loaded \in {<<"panic">>, <<"object", read>>}
    <3>1. loaded = IF \E i \in DOMAIN ConstLoad(job) : VariantToDispatch(ConstLoad(job)[i].value) # {}
                   THEN <<"panic">> ELSE <<"object", ConstantsRead(job)>>
      BY <1>2, <2>1, Zenon DEF RunConstLoad, ConstantsRead, LastNamed
    <3> QED BY <2>2, <3>1
  <2>4. loaded[2] = read
    BY <1>4, <2>3
  <2>5. at' = "loaded" /\ carried' = read
    BY <1>3, <1>4, <2>4
  <2>6. ConstantsRead(job)' = ConstantsRead(job)
    BY <1>1
  <2> QED BY <1>1, <2>1, <2>2, <2>5, <2>6 DEF ReadUnderway
<1>5. CASE loaded[1] # "object"
  BY <1>1, <1>3, <1>5 DEF ReadUnderway
<1> QED BY <1>4, <1>5

LEMMA NextRead ==
    ASSUME ReadUnderway, [Next]_vars
    PROVE  ReadUnderway'
<1>1. CASE LoadConstants
  BY <1>1, LoadStep
<1>2. CASE HandBack
  <2>1. /\ at = "loaded" /\ at' = "handed back" /\ job' = job
        /\ carried' = [n \in DOMAIN carried |-> JsonToVariant(carried[n], "none")]
    BY <1>2 DEF HandBack, Carry
  <2>2. job \in Libraries /\ job # None /\ carried = ConstantsRead(job)
    BY <2>1 DEF ReadUnderway
  <2>3. carried' = ConstantsBack(job)
    BY <2>1, <2>2, Zenon DEF ConstantsBack
  <2> QED BY <2>1, <2>2, <2>3 DEF ReadUnderway
<1>3. CASE Read
  <2>1. /\ at = "held" /\ at' = "read" /\ job' = job /\ carried' = VariantToJson(job)
    BY <1>3 DEF Read, Carry
  <2> QED BY <2>1 DEF ReadUnderway
<1>4. CASE WriteBack
  <2>1. /\ at = "read" /\ at' = "written" /\ job' = job
        /\ carried' = JsonToVariant(carried, "none")
    BY <1>4 DEF WriteBack, Carry
  <2>2. job \in Values /\ carried = VariantToJson(job)
    BY <2>1 DEF ReadUnderway
  <2> QED BY <2>1, <2>2 DEF ReadUnderway
<1>5. CASE ConvertArguments \/ Invoke \/ CalleeTakes \/ Answer \/ SinkInvoke \/ ForwardEvent
           \/ Subscribe
  <2>1. at' \notin {"held", "read", "written", "library", "loaded", "handed back"}
    BY <1>5 DEF ConvertArguments, Invoke, CalleeTakes, Answer, SinkInvoke, ForwardEvent,
                Subscribe, Carry
  <2> QED BY <2>1 DEF ReadUnderway
<1>6. CASE UNCHANGED vars
  <2>1. job' = job /\ at' = at /\ carried' = carried
    BY <1>6 DEF vars
  <2> QED BY <2>1 DEF ReadUnderway
<1> QED BY <1>1, <1>2, <1>3, <1>4, <1>5, <1>6 DEF Next

(* A value read and written back, and constants loaded and handed back,    *)
(* carry what follows from the value or the library (run_const_load).      *)
THEOREM Reading == Spec => []ReadUnderway
<1>1. Init => ReadUnderway
  BY DEF Init, ReadUnderway
<1> QED BY <1>1, NextRead, PTL DEF Spec

LEMMA ValuesReturn ==
    ASSUME ReadUnderway
    PROVE  SurvivesReadModifyWrite
<1>1. ASSUME at = "written"
      PROVE  CASE job[1] = "NULL ARRAY" -> carried[1] = "EMPTY"
               [] job[1] = "ARRAY" -> IF SayableArray(job) THEN SameArray(job, carried)
                                      ELSE IsRefused(carried)
               [] OTHER -> IF Sayable(job) THEN Same(job, carried) ELSE IsRefused(carried)
  <2>1. IsVariant(job) /\ carried = JsonToVariant(VariantToJson(job), "none")
    BY <1>1, ValuesAssumption DEF ReadUnderway
  <2>2. CASE job[1] = "NULL ARRAY"
    <3>1. VariantToJson(job) = <<"null">>
      BY <2>2 DEF VariantToJson
    <3>2. PICK j : j = <<"null">>
      OBVIOUS
    <3>3. ScalarToVariant(j) = <<"EMPTY">> /\ ~IsArray(j)
      BY <3>2 DEF ScalarToVariant, IsArray
    <3>4. carried = <<"EMPTY">>
      BY <2>1, <3>1, <3>2, <3>3 DEF JsonToVariant
    <3> QED BY <2>2, <3>4
  <2>3. CASE job[1] = "ARRAY"
    <3>1. VariantToJson(job) = SafeArrayToJson(job)
      BY <2>3 DEF VariantToJson
    <3>2. carried = ArrayReturned(job)
      BY <2>1, <3>1 DEF ArrayReturned
    <3>3. ArrayReturnsFaithfully(job)
      BY <2>1, <2>3, ArrayReturns
    <3> QED BY <2>3, <3>2, <3>3 DEF ArrayReturnsFaithfully
  <2>4. CASE job[1] # "NULL ARRAY" /\ job[1] # "ARRAY"
    <3>1. IsScalarVariant(job)
      BY <2>1, <2>4 DEF IsVariant
    <3>2. carried = Returned(job) /\ ReturnsFaithfully(job)
      BY <2>1, <3>1, ScalarsCross, ScalarReturns
    <3> QED BY <2>4, <3>2 DEF ReturnsFaithfully
  <2> QED BY <2>2, <2>3, <2>4
<1>2. ASSUME at = "handed back"
      PROVE  /\ \A i \in DOMAIN job : \A k \in DOMAIN job[i].members :
                   LET m == job[i].members[k] IN
                   Declares(m.name, m.value) =>
                       /\ m.name \in DOMAIN carried
                       /\ IF Sayable(m.value) THEN Same(m.value, carried[m.name])
                          ELSE IsRefused(carried[m.name])
             /\ \A n \in DOMAIN carried : \E i \in DOMAIN job : \E k \in DOMAIN job[i].members :
                   Declares(n, job[i].members[k].value)
  <2>1. job \in Libraries /\ job # None /\ carried = ConstantsBack(job)
    BY <1>2 DEF ReadUnderway
  <2> QED BY <2>1, ConstantsReturn
<1>3. ASSUME at = "read", job[1] = "DATE"
      PROVE  Names(carried[2], job[2])
  <2>1. IsVariant(job) /\ carried = VariantToJson(job)
    BY <1>3, ValuesAssumption DEF ReadUnderway
  <2>2. IsOleDate(job[2])
    BY <1>3, <2>1 DEF IsVariant, IsScalarVariant
  <2>3. PICK t : t = OleDateToIso8601(job[2])
    OBVIOUS
  <2>4. carried = <<"time", t>>
    BY <1>3, <2>1, <2>3 DEF VariantToJson, ScalarToJson
  <2>5. Names(t, job[2])
    BY <2>2, <2>3, TextOfDate
  <2> QED BY <2>4, <2>5
<1> QED BY <1>1, <1>2, <1>3, Zenon DEF SurvivesReadModifyWrite

(* variant_to_json, json_to_variant (value.rs, session.rs), const_load     *)
(* (dispatch.rs): what is read from an object and written back to it       *)
(* unchanged arrives as it was, or is refused; of constants likewise.      *)
THEOREM ValuesSurvive == Spec => []SurvivesReadModifyWrite
<1> QED BY Reading, ValuesReturn, PTL
=============================================================================
