----------------------------- MODULE Invocation -----------------------------
(***************************************************************************)
(* A member call on its way to COM and back, and a callback's arguments on *)
(* their way in: invoke_member, get_dispids and raw_invoke of              *)
(* wineole-bridge/src/dispatch.rs, ordered_args of sink.rs.                *)
(*                                                                         *)
(* DISPPARAMS is [rgvarg, ids]: all arguments, and the DISPIDs of those at *)
(* the front, which are named.  A parameter's DISPID is its position.      *)
(***************************************************************************)
EXTENDS Variants, SequencesExt

CONSTANTS
    Members,    \* name of a member |-> [id, params: the names in order]
    NoIds       \* a null rgdispidNamedArgs

ASSUME MembersAssumption ==
    \A m \in DOMAIN Members : Members[m].params \in Seq(Cells(Members[m].params))

DISPID_VALUE == 0
DISPID_PROPERTYPUT == -3

(* GetIDsOfNames: the ids of a member and of its parameters, or none. *)
HasNames(member, names) ==
    member \in DOMAIN Members /\ ToSet(names) \subseteq ToSet(Members[member].params)

GetDispids(member, names) ==
    <<Members[member].id>> \o
    [i \in DOMAIN names |->
        (CHOOSE p \in DOMAIN Members[member].params : Members[member].params[p] = names[i]) - 1]

Call(dispid, flags, ids, rgvarg) ==
    <<"call", [dispid |-> dispid, flags |-> flags, ids |-> ids, rgvarg |-> rgvarg]>>

(* A slip: the positional arguments are not turned round. *)
ParamsUnreversed(dispid, flags, positional, ids, named) ==
    Call(dispid, flags, ids, named \o positional)

(* Named arguments first, then the positional ones last-to-first. *)
Params(dispid, flags, positional, ids, named) ==
    Call(dispid, flags, ids, named \o Reverse(positional))

(* The default member takes no names, a property put one value and nothing *)
(* else.  "named" is a sequence of pairs <<name, VARIANT>>.                *)
InvokeMember(name, positional, named) ==
    LET names == [i \in DOMAIN named |-> named[i][1]] IN
    CASE name[1] = "default" ->
            Params(DISPID_VALUE, "method or get", positional, <<>>, <<>>)
      [] name[1] = "put" ->
            IF ~HasNames(name[2], <<>>) THEN Refused("DISP_E_UNKNOWNNAME")
            ELSE IF positional = <<>> THEN Refused("E_INVALIDARG")
            ELSE Params(GetDispids(name[2], <<>>)[1], "put", <<>>,
                        <<DISPID_PROPERTYPUT>>, <<positional[1]>>)
      [] name[1] = "member" ->
            IF ~HasNames(name[2], names) THEN Refused("DISP_E_UNKNOWNNAME")
            ELSE Params(GetDispids(name[2], names)[1], "method or get", positional,
                        Tail(GetDispids(name[2], names)), [i \in DOMAIN named |-> named[i][2]])

(* What an IDispatch does with DISPPARAMS: a named argument goes to the    *)
(* parameter its DISPID names, the i-th from the end to the i-th.          *)
Taken(c) ==
    LET n == Len(c.rgvarg)  k == Len(c.ids) IN
    {<<c.ids[i], c.rgvarg[i]>> : i \in 1 .. k} \cup {<<i, c.rgvarg[n - i]>> : i \in 0 .. n - k - 1}

(* It refuses a parameter given twice or one it has not. *)
Takes(arity, c) ==
    /\ \A t, u \in Taken(c) : t[1] = u[1] => t = u
    /\ Cardinality({t[1] : t \in Taken(c)}) = Len(c.rgvarg)
    /\ \A t \in Taken(c) : t[1] \in 0 .. arity - 1 \/ t[1] = DISPID_PROPERTYPUT

-----------------------------------------------------------------------------
(* How a call failed.  EXCEPINFO is [scode, wCode, description, source],   *)
(* 0 and "" for what the callee left empty.                                *)

NoExcepInfo == [scode |-> 0, wCode |-> 0, description |-> "", source |-> ""]

ComError(code, detail) == [code |-> code, detail |-> detail]

InnerCode(excep) ==
    IF excep.scode # 0 THEN excep.scode
    ELSE IF excep.wCode # 0 THEN excep.wCode ELSE "DISP_E_EXCEPTION"

(* The callee's description or source comes with its own code; without     *)
(* either the failure is the bare HRESULT of Invoke.                       *)
InvokeError(code, excep) ==
    LET detail == IF excep.description # "" THEN excep.description ELSE excep.source
    IN IF code = "DISP_E_EXCEPTION" /\ detail # "" THEN ComError(InnerCode(excep), detail)
       ELSE ComError(code, "")

-----------------------------------------------------------------------------
(* The arguments of a callback, in the order of declaration.               *)

NamedCount(p) == IF p.named < Len(p.rgvarg) THEN p.named ELSE Len(p.rgvarg)

(* The ids are parameter positions, no two the same. *)
Positions(p) ==
    /\ p.ids # NoIds
    /\ \A i \in 1 .. NamedCount(p) :
          /\ p.ids[i] \in 0 .. Len(p.rgvarg) - 1
          /\ \A k \in 1 .. i - 1 : p.ids[k] # p.ids[i]

(* A slip: the free slots are filled first parameter first. *)
TailForwards(p) == SubSeq(p.rgvarg, NamedCount(p) + 1, Len(p.rgvarg))

PositionalTail(p) == Reverse(SubSeq(p.rgvarg, NamedCount(p) + 1, Len(p.rgvarg)))

OrderedArgs(p) ==
    LET all == p.rgvarg
        Named(slot) == {i \in 1 .. NamedCount(p) : p.ids[i] = slot - 1}
        Free(slot) == Named(slot) = {}
        Rank(slot) == Cardinality({s \in 1 .. slot : Free(s)})
    IN IF NamedCount(p) > 0 /\ ~Positions(p) THEN all
       ELSE [slot \in DOMAIN all |->
                IF Free(slot) THEN PositionalTail(p)[Rank(slot)]
                ELSE all[CHOOSE i \in Named(slot) : TRUE]]
=============================================================================
