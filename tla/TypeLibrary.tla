----------------------------- MODULE TypeLibrary -----------------------------
(***************************************************************************)
(* The constants of a type library: const_load and read_enum_constant of   *)
(* wineole-bridge/src/dispatch.rs, run_const_load of session.rs.           *)
(*                                                                         *)
(* A library is the sequence of its type infos [kind, members], or None    *)
(* where an object has none.  The kind is "enum", "other", or "unreadable" *)
(* where GetTypeInfo or GetTypeAttr fails.  A member is [described, name,  *)
(* value]: whether GetVarDesc answers, its name or None, its VARIANT or    *)
(* <<"no value">>.                                                         *)
(***************************************************************************)
EXTENDS Variants, SequencesExt

CONSTANT None

(* read_enum_constant: a member that cannot be read hides no other. *)
IsConstant(m) == m.described /\ m.name # None /\ m.value # <<"no value">>

EnumConstants(members) ==
    FlattenSeq([k \in DOMAIN members |-> IF IsConstant(members[k]) THEN <<members[k]>> ELSE <<>>])

ConstLoad(library) ==
    FlattenSeq([i \in DOMAIN library |->
        IF library[i].kind = "enum" THEN EnumConstants(library[i].members) ELSE <<>>])

(* Of constants of one name the last stays; an object among them, for      *)
(* which a handle would have to be registered, panics.  The constants here *)
(* are no arrays.                                                          *)
RunConstLoad(library) ==
    IF library = None THEN Refused("TYPE_E_ELEMENTNOTFOUND")
    ELSE LET all == ConstLoad(library)
             LastOf(n) == CHOOSE i \in DOMAIN all :
                           all[i].name = n /\ \A k \in DOMAIN all : all[k].name = n => k <= i
         IN IF \E i \in DOMAIN all : VariantToDispatch(all[i].value) # {} THEN <<"panic">>
            ELSE <<"object", [n \in {all[i].name : i \in DOMAIN all} |->
                                 VariantToJson(all[LastOf(n)].value)]>>
==============================================================================
