------------------------------ MODULE Variants ------------------------------
(***************************************************************************)
(* Values between JSON and COM: json_to_variant and variant_to_json, with  *)
(* their arrays, in wineole-bridge/src/value.rs.                           *)
(*                                                                         *)
(* A value is a tuple of its kind and its payload.  JSON: "null", "bool",  *)
(* "int" (what as_i64 takes), "float", "string", "time" (a text),          *)
(* "ref" (an $ole_ref id), "unsupported", "object" (any other) and "array".*)
(* VARIANT: its type and payload; an array is <<"ARRAY", type of its       *)
(* elements, bounds, cells>>, cells a function on the tuples of indices.   *)
(***************************************************************************)
EXTENDS OleDates, Sequences

CONSTANTS
    Objects,    \* IDispatch pointers
    Handle,     \* the handle table: id to object
    Nothing,    \* a null IDispatch pointer
    NonFinite,  \* a double that is infinite or no number
    IllFormed,  \* a BSTR with a lone surrogate in it
    Replaced,   \* the same with U+FFFD in its place
    IntMax,     \* the largest i32, scaled down
    Exact       \* integers up to here are doubles exactly (2^53), scaled down

ASSUME RangeAssumption == IntMax \in Nat /\ Exact \in Nat /\ Exact % 2 = 0 /\ Exact > IntMax
ASSUME HandleAssumption == \A o \in Objects : \E h \in DOMAIN Handle : Handle[h] = o

IntMin == -IntMax - 1

(* A result that is no VARIANT: the request is refused with this code. *)
Refused(code) == <<"refused", code>>
IsRefused(v) == v[1] = "refused"

-----------------------------------------------------------------------------
(* From JSON.                                                              *)

(* How far doubles lie apart, out to the end of the i64 at 2^10 * Exact.   *)
Gaps == {1, 2, 4, 8, 16, 32, 64, 128, 256, 512, 1024}
Spans(gap, i) == i \in -(Exact * gap) .. Exact * gap
GapAt(i) == CHOOSE gap \in Gaps : Spans(gap, i) /\ \A g \in Gaps : Spans(g, i) => gap <= g

(* The double nearest an i64; of two the one whose last digit is even. *)
ToDouble(i) ==
    LET gap == GapAt(i)
        below == i - (i % gap)
    IN  IF 2 * (i % gap) < gap \/ (2 * (i % gap) = gap /\ (i \div gap) % 2 = 0)
        THEN below ELSE below + gap

(* A slip: whatever is an integer is cast to 32 bits. *)
NumberToVariantWrapped(i) ==
    <<"I4", ((i - IntMin) % (IntMax - IntMin + 1)) + IntMin>>

NumberToVariant(i) ==
    IF i \in IntMin .. IntMax THEN <<"I4", i>> ELSE <<"R8", ToDouble(i)>>

(* A VT_DATE: as a VT_R8 Excel would store a plain number. *)
VariantFromOleDate(d) == <<"DATE", d>>

TimeToVariant(t) ==
    IF IsDateText(t) THEN VariantFromOleDate(OleDateFromIso8601(t)) ELSE Refused("E_INVALIDARG")

VariantFromDispatch(o) == <<"DISPATCH", o>>

(* session.rs, resolve. *)
RefToVariant(id) ==
    IF id \in DOMAIN Handle THEN VariantFromDispatch(Handle[id]) ELSE Refused("E_INVALIDARG")

ScalarToVariant(j) ==
    CASE j[1] = "null"   -> <<"EMPTY">>
      [] j[1] = "bool"   -> <<"BOOL", IF j[2] THEN -1 ELSE 0>>
      [] j[1] = "int"    -> NumberToVariant(j[2])
      [] j[1] = "float"  -> <<"R8", j[2]>>
      [] j[1] = "string" -> <<"BSTR", j[2]>>
      [] j[1] = "time"   -> TimeToVariant(j[2])
      [] j[1] = "ref"    -> RefToVariant(j[2])
      [] j[1] \in {"object", "unsupported"} -> Refused("E_INVALIDARG")

IsArray(j) == j[1] = "array"
Cells(s) == {s[i] : i \in DOMAIN s}

(* Rows of one length without rows in them, or no rows at all. *)
IsTwoD(items) == items # <<>> /\ IsArray(items[1])
WellShaped(items) ==
    IF IsTwoD(items)
    THEN \A j \in Cells(items) :
            /\ IsArray(j) /\ Len(j[2]) = Len(items[1][2])
            /\ \A e \in Cells(j[2]) : ~IsArray(e)
    ELSE \A j \in Cells(items) : ~IsArray(j)

Upto(n) == 0 .. n - 1

ArrayCells(items) ==
    IF IsTwoD(items)
    THEN [x \in Upto(Len(items)) \X Upto(Len(items[1][2])) |->
             ScalarToVariant(items[x[1] + 1][2][x[2] + 1])]
    ELSE [x \in {<<i>> : i \in Upto(Len(items))} |-> ScalarToVariant(items[x[1] + 1])]

ArrayBounds(items) ==
    IF IsTwoD(items) THEN << <<0, Len(items) - 1>>, <<0, Len(items[1][2]) - 1>> >>
    ELSE << <<0, Len(items) - 1>> >>

VariantFromSafearray(bounds, cells) == <<"ARRAY", "VARIANT", bounds, cells>>

(* "fault" is the call on the SAFEARRAY that fails, if any; the array is   *)
(* destroyed with the refusal.                                             *)
JsonArrayToVariant(items, fault) ==
    LET cells == ArrayCells(items)
        errors == {v \in {cells[x] : x \in DOMAIN cells} : IsRefused(v)}
    IN IF ~WellShaped(items) THEN Refused("E_INVALIDARG")
       ELSE IF fault = "create" THEN Refused("E_OUTOFMEMORY")
       ELSE IF errors # {} THEN CHOOSE v \in errors : TRUE
       ELSE IF fault = "put" /\ DOMAIN cells # {} THEN Refused("DISP_E_BADINDEX")
       ELSE VariantFromSafearray(ArrayBounds(items), cells)

JsonToVariant(j, fault) ==
    IF IsArray(j) THEN JsonArrayToVariant(j[2], fault) ELSE ScalarToVariant(j)

-----------------------------------------------------------------------------
(* To JSON.                                                                *)

Unsupported(vt) == <<"unsupported", vt>>

(* register_ref: here an object has one id already. *)
IdOf(o) == CHOOSE h \in DOMAIN Handle : Handle[h] = o

(* serde_json has no number for a double that is not finite. *)
DoubleToJson(x) == IF x = NonFinite THEN <<"null">> ELSE <<"float", x>>

(* The text of a BSTR, of a null one the empty text. *)
ReadBstr(s) == IF s = IllFormed THEN Replaced ELSE s

(* The object in a VARIANT, if it holds one that is not Nothing. *)
VariantToDispatch(v) == IF v[1] = "DISPATCH" /\ v[2] # Nothing THEN {v[2]} ELSE {}

ScalarToJson(v) ==
    CASE v[1] \in {"EMPTY", "NULL"} -> <<"null">>
      [] v[1] \in {"I2", "I4"} -> <<"int", v[2]>>
      [] v[1] \in {"R4", "R8"} -> DoubleToJson(v[2])
      [] v[1] = "DATE" -> <<"time", OleDateToIso8601(v[2])>>
      [] v[1] = "BOOL" -> <<"bool", v[2] # 0>>
      [] v[1] = "BSTR" -> <<"string", ReadBstr(v[2])>>
      [] v[1] = "DISPATCH" -> IF VariantToDispatch(v) = {} THEN <<"null">> ELSE <<"ref", IdOf(v[2])>>
      [] OTHER -> Unsupported(v[1])

(* The types an element of a typed array may be read as. *)
TypedElementAllowlist ==
    {"EMPTY", "NULL", "I2", "I4", "R4", "R8", "DATE", "BSTR", "DISPATCH", "BOOL"}

(* A cell <<"unreadable">> is one SafeArrayGetElement fails on.  The cells *)
(* here hold no arrays.                                                    *)
ElementToJson(vt, cell) ==
    IF vt \notin TypedElementAllowlist \cup {"VARIANT"} \/ cell[1] = "unreadable"
    THEN Unsupported(vt)
    ELSE ScalarToJson(cell)

Row(bound, F(_)) == [i \in 1 .. bound[2] - bound[1] + 1 |-> F(bound[1] + i - 1)]

(* The type or a bound (then <<>>) may be unreadable. *)
SafeArrayToJson(v) ==
    LET vt == v[2]  bounds == v[3]  cells == v[4] IN
    IF vt = "unreadable" \/ <<>> \in Cells(bounds) THEN Unsupported("ARRAY")
    ELSE IF Len(bounds) = 1
    THEN LET Cell(i) == ElementToJson(vt, cells[<<i>>]) IN <<"array", Row(bounds[1], Cell)>>
    ELSE IF Len(bounds) = 2
    THEN LET Line(r) == LET Cell(c) == ElementToJson(vt, cells[<<r, c>>])
                        IN <<"array", Row(bounds[2], Cell)>>
         IN <<"array", Row(bounds[1], Line)>>
    ELSE Unsupported("ARRAY")

VariantToJson(v) ==
    CASE v[1] = "ARRAY" -> SafeArrayToJson(v)
      [] v[1] = "NULL ARRAY" -> <<"null">>
      [] OTHER -> ScalarToJson(v)
=============================================================================
