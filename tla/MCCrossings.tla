----------------------------- MODULE MCCrossings -----------------------------
EXTENDS Crossings

CONSTANTS app, sheet, text

MCObjects == {app, sheet}
MCHandle == <<app, sheet>>
MCMembers == ("Find" :> [id |-> 7, params |-> <<"what", "after", "where">>])
             @@ ("Visible" :> [id |-> 8, params |-> <<>>])

(* Dates round the corners of the calendar, by whole and by half seconds. *)
Days == UNION {{OleDay(y, 1, 1) + k : k \in {-1, 0, 57, 58, 59, 60}} :
                  y \in {-1000, -999, -1, 0, 1, 100, 1600, 1899, 1900, 1970, 2000, 2100, 9999, 10000}}
        \cup -2 .. 2
Halves == {0, 1, 2, 86400, 172797, 172799}
Dates == {OleDate(d < 0, IF d < 0 THEN -d ELSE d, h) : d \in Days, h \in Halves}

Time(y, m, d, h, digits, length) ==
    <<"time", [year |-> y, month |-> m, day |-> d, hour |-> h, minute |-> 59, second |-> 59,
               digits |-> digits, length |-> length]>>
Times == {Time(y, m, d, h, TRUE, 19) : y \in {-999, -4, 0, 1899, 1900, 2000, 2023, 9999},
                                      m \in {0, 1, 2, 4, 12, 13}, d \in {0, 1, 29, 30, 31, 32}, h \in {0, 23, 24}}
         \cup {Time(2000, 1, 1, 0, FALSE, 19), Time(2000, 1, 1, 0, TRUE, 20)}

Scalars == {<<"null">>, <<"bool", TRUE>>, <<"bool", FALSE>>, <<"string", text>>, <<"ref", 1>>,
            <<"ref", 3>>, <<"object">>, <<"unsupported", "CY">>, <<"float", 3>>}
           \cup {<<"int", i>> : i \in -30 .. 30 \cup 33 .. 36 \cup {-62, 62, 63, 66, -127, 127, 130}}
           \cup {<<"int", i>> : i \in {16 * 512 - 255, 16 * 512 + 512, 16 * 1024 - 1, -16 * 1024}}
Few == {<<"int", 9>>, <<"ref", 2>>, <<"ref", 3>>}
Vectors == {<<"array", s>> : s \in BoundedSeq(Few, 2)}
Matrices == {<<"array", s>> : s \in BoundedSeq(Vectors, 2)} \cup {<<"array", <<v, <<"null">>>>>> : v \in Vectors}

Request(name, args, named, fault, outcome) ==
    [name |-> name, args |-> args, named |-> named, fault |-> fault, arity |-> 3, outcome |-> outcome]
Find == <<"member", "Find">>
Ok == <<"ok", <<"EMPTY">>>>
Raised(scode, description) ==
    <<"DISP_E_EXCEPTION", [scode |-> scode, wCode |-> 1, description |-> description, source |-> "Excel"]>>

Ints(s) == [i \in DOMAIN s |-> <<"int", s[i]>>]
Named(s) == [i \in DOMAIN s |-> <<s[i], <<"int", 10 + i>>>>]

MCCalls ==
    {Request(Find, <<j>>, <<>>, f, Ok) : j \in Scalars \cup Times \cup Vectors \cup Matrices,
                                        f \in {"none", "create", "put"}}
    \cup {Request(n, Ints(a), Named(s), "none", o) :
            n \in {Find, <<"default">>, <<"put", "Visible">>, <<"put", "Nowhere">>, <<"member", "Nowhere">>},
            a \in {<<>>, <<1>>, <<1, 2>>, <<1, 2, 3>>, <<1, 2, 3, 4>>},
            s \in BoundedSeq({"what", "where", "no such"}, 2),
            o \in {Ok, Raised(0, "failed"), Raised(5, ""), <<"E_FAIL", NoExcepInfo>>}}

Fired == {<<<<"I4", 1>>, <<"DISPATCH", sheet>>, <<"BOOL", -1>>, <<"BSTR", text>>>>}
MCCallbacks ==
    UNION {{[rgvarg |-> SubSeq(a, 1, n), named |-> k, ids |-> s] :
              n \in 0 .. 4, s \in [1 .. k -> -3 .. 4] \cup (IF k = 0 THEN {} ELSE {NoIds})} :
            a \in Fired, k \in 0 .. 4}

Leaves == {<<"EMPTY">>, <<"NULL">>, <<"DISPATCH", Nothing>>, <<"DISPATCH", sheet>>, <<"BOOL", 1>>,
           <<"BOOL", 0>>, <<"BSTR", text>>, <<"BSTR", IllFormed>>, <<"R8", NonFinite>>, <<"R4", 2>>,
           <<"CY", 1>>, <<"DATE", OleDate(TRUE, 1, 86401)>>, <<"unreadable">>}
          \cup {<<"I4", i>> : i \in IntMin .. IntMax}
Arrays(b, types, cells) == {<<"ARRAY", vt, b, c>> : vt \in types, c \in [Indices(b) -> cells]}
MCValues ==
    Leaves \cup {<<"DATE", d>> : d \in Dates}
    \cup {<<"NULL ARRAY">>, <<"BYREF ARRAY">>, <<"ARRAY", "VARIANT", << <<0, 0>>, <<0, 0>>, <<0, 0>> >>, <<>>>>,
          <<"ARRAY", "VARIANT", << <<>> >>, <<>>>>, <<"ARRAY", "VARIANT", << <<1, 0>>, <<1, 2>> >>, <<>>>>}
    \cup UNION {Arrays(b, {"VARIANT"}, {<<"I4", 1>>, <<"BOOL", 1>>, <<"CY", 1>>, <<"unreadable">>}) :
                  b \in {<< <<1, 2>> >>, << <<0, -1>> >>, << <<1, 2>>, <<5, 6>> >>, << <<0, 1>>, <<0, -1>> >>}}
    \cup UNION {Arrays(b, {"R8", "RECORD", "unreadable"}, {<<"R8", 1>>, <<"R8", NonFinite>>}) :
                  b \in {<< <<-1, 0>> >>, << <<0, -1>> >>}}

Member(described, name, value) == [described |-> described, name |-> name, value |-> value]
EnumMembers ==
    {Member(d, n, v) : d \in BOOLEAN, n \in {"xlUp", "xlDown", None},
                       v \in {<<"I4", 1>>, <<"I4", 2>>, <<"CY", 1>>, <<"no value">>}}
    \cup {Member(TRUE, "xlUp", <<"DISPATCH", sheet>>), Member(TRUE, "xlUp", <<"DISPATCH", Nothing>>)}
MCLibraries ==
    {None} \cup
    {<<[kind |-> a, members |-> <<m, n>>], [kind |-> b, members |-> <<o>>]>> :
        a \in {"enum", "other"}, b \in {"enum", "unreadable"}, m \in EnumMembers, n \in EnumMembers,
        o \in {Member(TRUE, "xlUp", <<"I4", 3>>), Member(TRUE, "xlLeft", <<"BOOL", 1>>)}}

Flags == {{}, {{}}, {{"source"}}, {{"source", "default"}}}
Entries == [flags : Flags, iid : {{}, {"AppEvents"}}] \cup [flags : Flags, iid : {{"OLEObjectEvents"}, {"IPropertyNotifySink"}}]
Points == BoundedSeq({{}, {"AppEvents"}, {"IPropertyNotifySink"}}, 2)
MCEventSources ==
    [apartment : {"STA", "MTA"}, guid : {{}, {"AppEvents"}},
     coclass : {c \in BoundedSeq(Entries, 2) : \A i, k \in DOMAIN c : (i # k => c[i].iid # c[k].iid) /\
                  (i # k /\ {"source", "default"} \in c[i].flags => {"source", "default"} \notin c[k].flags)},
     container : BOOLEAN, enum : {{}} \cup {{p} : p \in Points},
     offers : {{}, {"AppEvents"}, {"AppEvents", "IPropertyNotifySink"}, {"OLEObjectEvents"}},
     kinds : {[i \in {} |-> "dispinterface"], [i \in {"AppEvents"} |-> "dispinterface"],
              [i \in {"AppEvents", "OLEObjectEvents"} |-> "interface"]},
     funcs : {{[memid |-> 1, readable |-> TRUE, restricted |-> FALSE, named |-> TRUE],
               [memid |-> 2, readable |-> TRUE, restricted |-> TRUE, named |-> TRUE]}}]
MCUnimplementable == {"IPropertyNotifySink"}
==============================================================================
