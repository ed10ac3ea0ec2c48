---------------------------- MODULE SourceChoice ----------------------------
(***************************************************************************)
(* Which interface an object's events are taken from, and what the sink    *)
(* refuses: source_iid, coclass_default_source, the two refusals, advise   *)
(* and dispid_names of wineole-bridge/src/sink.rs.                         *)
(*                                                                         *)
(* An object is a record of what it answers when asked:                    *)
(*   apartment   that of the thread: "STA", "MAINSTA", "MTA" or "none"     *)
(*   guid        IProvideClassInfo2's answer, a set of at most one IID     *)
(*   coclass     the entries [flags, iid] of its coclass, each part in a   *)
(*               set that is empty where it cannot be read; none at all    *)
(*               without IProvideClassInfo                                 *)
(*   container   whether it has an IConnectionPointContainer               *)
(*   enum        the points EnumConnectionPoints yields before it ends or  *)
(*               fails, each its IID in a set that is empty where it       *)
(*               cannot be had; no such sequence where the call fails      *)
(*   offers      the IIDs FindConnectionPoint finds                        *)
(*   kinds       IID |-> the typekind its library states, where it does    *)
(*   funcs       the functions of the library's source interface           *)
(***************************************************************************)
EXTENDS Integers, FiniteSets, Sequences, SequencesExt

CONSTANT Unimplementable    \* UNIMPLEMENTABLE_SOURCE_IIDS

Sources(coclass) ==
    {i \in DOMAIN coclass : \E f \in coclass[i].flags : "source" \in f}

Defaults(coclass) ==
    {i \in Sources(coclass) : \E f \in coclass[i].flags : "default" \in f}

(* A slip: of several sources the first is taken. *)
FirstOfSources(coclass) ==
    LET chosen == IF Defaults(coclass) # {} THEN Defaults(coclass) ELSE Sources(coclass) IN
    IF chosen = {} THEN {} ELSE coclass[CHOOSE i \in chosen : \A k \in chosen : i <= k].iid

(* The first flagged both ways, or the only source there is. *)
CoclassDefaultSource(coclass) ==
    IF Defaults(coclass) # {}
    THEN coclass[CHOOSE i \in Defaults(coclass) : \A k \in Defaults(coclass) : i <= k].iid
    ELSE UNION {coclass[i].iid : i \in {k \in Sources(coclass) : Sources(coclass) = {k}}}

(* At most one IID; none is E_NOINTERFACE, or what EnumConnectionPoints    *)
(* failed with.                                                            *)
SourceIid(o) ==
    IF o.guid # {} THEN o.guid
    ELSE IF CoclassDefaultSource(o.coclass) # {} THEN CoclassDefaultSource(o.coclass)
    ELSE IF o.container THEN UNION {points[1] : points \in {p \in o.enum : Len(p) = 1}}
    ELSE {}

RefuseUnimplementableSource(iid) == iid \in Unimplementable

(* Only what the library says is no dispinterface is refused. *)
RefuseNonDispinterfaceTypekind(o, iid) ==
    iid \in DOMAIN o.kinds /\ o.kinds[iid] # "dispinterface"

RequireSta(o) == o.apartment \in {"STA", "MAINSTA"}

(* The interfaces advised on: one, or none where the request is refused. *)
Advise(o) ==
    {iid \in SourceIid(o) :
        /\ RequireSta(o)
        /\ ~RefuseUnimplementableSource(iid)
        /\ ~RefuseNonDispinterfaceTypekind(o, iid)
        /\ o.container /\ iid \in o.offers}

(* The DISPIDs that have a name; the seven members oleaut32 puts in front  *)
(* of a dispinterface's own are restricted.  A description may be           *)
(* unreadable, and so may its name.                                        *)
DispidNames(o, iid) ==
    IF iid \notin DOMAIN o.kinds THEN {}
    ELSE {f.memid : f \in {g \in o.funcs : g.readable /\ ~g.restricted /\ g.named}}
=============================================================================
