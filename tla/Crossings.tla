------------------------------ MODULE Crossings ------------------------------
(***************************************************************************)
(* What crosses the bridge, one crossing at a time: a call with its        *)
(* arguments (run_invoke of wineole-bridge/src/session.rs down to the      *)
(* callee), a callback with its own (the sink's Invoke up to the event     *)
(* frame), a value read and written back, the constants of a type library  *)
(* read and handed back, and the choice of an event source.  "job" is the  *)
(* crossing, "at" how far it came, "carried" what it carries there.        *)
(***************************************************************************)
EXTENDS Invocation, SourceChoice, TypeLibrary

CONSTANTS Calls, Callbacks, Values, Libraries, EventSources

(* What the parser makes of a request (serde_json; a text's fields are as  *)
(* the strict reader takes them apart).                                    *)
IsText(t) ==
    /\ {t.year, t.month, t.day, t.length} \subseteq Int
    /\ {t.hour, t.minute, t.second} \subseteq Nat
    /\ t.digits \in BOOLEAN

IsJsonScalar(j) ==
    /\ j[1] \in {"null", "bool", "int", "float", "string", "time", "ref", "object", "unsupported"}
    /\ j[1] = "bool" => j[2] \in BOOLEAN
    /\ j[1] = "int" => j[2] \in -(1024 * Exact) .. 1024 * Exact - 1
    /\ j[1] = "time" => IsText(j[2])

IsJson(j) ==
    \/ IsJsonScalar(j)
    \/ /\ IsArray(j) /\ j[2] \in Seq(Cells(j[2]))
       /\ \A e \in Cells(j[2]) :
             \/ IsJsonScalar(e)
             \/ /\ IsArray(e) /\ e[2] \in Seq(Cells(e[2]))
                /\ \A c \in Cells(e[2]) : IsJsonScalar(c) \/ IsArray(c)

ASSUME CallsAssumption ==
    \A c \in Calls :
        /\ c.name[1] \in {"default", "put", "member"}
        /\ c.args \in Seq(Cells(c.args)) /\ \A j \in Cells(c.args) : IsJson(j)
        /\ c.named \in Seq(Cells(c.named)) /\ \A i \in DOMAIN c.named : IsJson(c.named[i][2])

(* What an object hands out: an array has a cell for every tuple within    *)
(* its bounds, and no bound is below its lower one by more than one.       *)
IsOleDate(d) == d \in [neg : BOOLEAN, days : Nat, half : Nat] /\ d.half < 2 * SecondsPerDay

IsScalarVariant(v) ==
    /\ v[1] \notin {"ARRAY", "NULL ARRAY"}
    /\ v[1] \in {"I2", "I4"} => v[2] \in IntMin .. IntMax
    /\ v[1] = "DATE" => IsOleDate(v[2])
    /\ v[1] = "DISPATCH" => v \in {"DISPATCH"} \X (Objects \cup {Nothing})

Indices(bounds) ==
    IF Len(bounds) = 1 THEN {<<i>> : i \in bounds[1][1] .. bounds[1][2]}
    ELSE (bounds[1][1] .. bounds[1][2]) \X (bounds[2][1] .. bounds[2][2])

IsVariant(v) ==
    \/ IsScalarVariant(v) \/ v[1] = "NULL ARRAY"
    \/ /\ v[1] = "ARRAY" /\ v[3] \in Seq(Cells(v[3]))
       /\ \A b \in Cells(v[3]) : b # <<>> => b \in Int \X Int /\ b[2] >= b[1] - 1
       /\ Len(v[3]) \in {1, 2} /\ <<>> \notin Cells(v[3]) => DOMAIN v[4] = Indices(v[3])
       /\ \A x \in DOMAIN v[4] : IsScalarVariant(v[4][x])

ASSUME ValuesAssumption == \A v \in Values : IsVariant(v)

(* Constants are scalars. *)
ASSUME LibrariesAssumption ==
    \A library \in Libraries :
        library = None \/
        /\ library \in Seq(Cells(library))
        /\ \A info \in Cells(library) :
              /\ info.members \in Seq(Cells(info.members))
              /\ \A m \in Cells(info.members) : IsScalarVariant(m.value)

(* DISPPARAMS have as many ids as named arguments, or none of them. *)
ASSUME CallbacksAssumption ==
    \A p \in Callbacks :
        /\ p.rgvarg \in Seq(Cells(p.rgvarg)) /\ p.named \in Nat
        /\ p.ids # NoIds => p.ids \in Seq(Int) /\ Len(p.ids) = p.named

Sole(S) == \A x, y \in S : x = y

(* A coclass has one default source at most, as the interface definition   *)
(* language has it; what an answer may leave out is a set of one.          *)
ASSUME EventSourcesAssumption ==
    \A o \in EventSources :
        /\ Sole(o.guid) /\ Sole(o.enum)
        /\ \A points \in o.enum :
              points \in Seq(Cells(points)) /\ \A S \in Cells(points) : Sole(S)
        /\ o.coclass \in Seq(Cells(o.coclass)) /\ Sole(Defaults(o.coclass))
        /\ \A i \in DOMAIN o.coclass : Sole(o.coclass[i].iid)

VARIABLES job, at, carried
vars == <<job, at, carried>>

Init ==
    \/ job \in Calls        /\ at = "request"  /\ carried = <<>>
    \/ job \in Callbacks    /\ at = "callback" /\ carried = <<>>
    \/ job \in Values       /\ at = "held"     /\ carried = <<>>
    \/ job \in Libraries    /\ at = "library"  /\ carried = <<>>
    \/ job \in EventSources /\ at = "asked"    /\ carried = <<>>

Carry(what, to) == at' = to /\ carried' = what /\ UNCHANGED job

-----------------------------------------------------------------------------
(* A call: job is [name, args, named, fault, arity, outcome].              *)

Converted(args) == [i \in DOMAIN args |-> JsonToVariant(args[i], job.fault)]

Failures(variants) == {i \in DOMAIN variants : IsRefused(variants[i])}

(* The positional arguments, then the named; the first that fails ends it. *)
ConvertArguments ==
    /\ at = "request"
    /\ LET all == Converted(job.args \o [i \in DOMAIN job.named |-> job.named[i][2]])
           n == Len(job.args)
       IN IF Failures(all) # {}
          THEN Carry(all[CHOOSE i \in Failures(all) : \A k \in Failures(all) : i <= k], "refused")
          ELSE Carry([args |-> SubSeq(all, 1, n),
                      named |-> [i \in DOMAIN job.named |-> <<job.named[i][1], all[n + i]>>]],
                     "converted")

Invoke ==
    /\ at = "converted"
    /\ LET call == InvokeMember(job.name, carried.args, carried.named) IN
       IF IsRefused(call) THEN Carry(call, "refused") ELSE Carry(call[2], "invoked")

(* The callee, which is COM's. *)
CalleeTakes ==
    /\ at = "invoked"
    /\ IF Takes(job.arity, carried)
       THEN Carry([p \in {t[1] : t \in Taken(carried)} |->
                      (CHOOSE t \in Taken(carried) : t[1] = p)[2]], "taken")
       ELSE Carry(InvokeError("DISP_E_PARAMNOTFOUND", NoExcepInfo), "answered")

(* The outcome is <<"ok", VARIANT>> or <<HRESULT, EXCEPINFO>>. *)
Answer ==
    /\ at = "taken"
    /\ IF job.outcome[1] = "ok" THEN Carry(VariantToJson(job.outcome[2]), "answered")
       ELSE Carry(InvokeError(job.outcome[1], job.outcome[2]), "answered")

-----------------------------------------------------------------------------
(* A callback: job is its DISPPARAMS [rgvarg, named, ids].                 *)

SinkInvoke == at = "callback" /\ Carry(OrderedArgs(job), "queued")

ForwardEvent ==
    at = "queued" /\ Carry([i \in DOMAIN carried |-> VariantToJson(carried[i])], "delivered")

-----------------------------------------------------------------------------
(* A value read and written back: job is a VARIANT.                        *)

Read == at = "held" /\ Carry(VariantToJson(job), "read")

WriteBack == at = "read" /\ Carry(JsonToVariant(carried, "none"), "written")

-----------------------------------------------------------------------------
(* Constants: job is a type library.                                       *)

LoadConstants ==
    /\ at = "library"
    /\ LET loaded == RunConstLoad(job) IN
       IF loaded[1] = "object" THEN Carry(loaded[2], "loaded") ELSE Carry(loaded, "not loaded")

HandBack ==
    at = "loaded" /\ Carry([n \in DOMAIN carried |-> JsonToVariant(carried[n], "none")], "handed back")

-----------------------------------------------------------------------------
(* A subscription: job is an object, see SourceChoice.                     *)

Subscribe ==
    /\ at = "asked"
    /\ Carry([on |-> Advise(job), names |-> UNION {DispidNames(job, iid) : iid \in Advise(job)}],
             "advised")

-----------------------------------------------------------------------------
Next ==
    \/ ConvertArguments \/ Invoke \/ CalleeTakes \/ Answer
    \/ SinkInvoke \/ ForwardEvent \/ Read \/ WriteBack \/ LoadConstants \/ HandBack \/ Subscribe

Spec == Init /\ [][Next]_vars

-----------------------------------------------------------------------------
(* A calendar of its own to measure the dates against.                     *)

Leap(y) == y % 4 = 0 /\ (y % 100 # 0 \/ y % 400 = 0)

MonthStart == <<0, 31, 59, 90, 120, 151, 181, 212, 243, 273, 304, 334, 365>>

DayNumber(y, m, d) ==
    365 * (y - 1) + (y - 1) \div 4 - (y - 1) \div 100 + (y - 1) \div 400
    + MonthStart[m] + (IF m > 2 /\ Leap(y) THEN 1 ELSE 0) + d

IsDay(y, m, d) ==
    /\ m \in 1 .. 12 /\ d >= 1
    /\ d <= MonthStart[m + 1] - MonthStart[m] + (IF m = 2 /\ Leap(y) THEN 1 ELSE 0)

OleDay(y, m, d) == DayNumber(y, m, d) - DayNumber(1899, 12, 30)

(* An instant to the second: the day, and the seconds since midnight. *)
Instant(d) ==
    <<(IF d.neg THEN -d.days ELSE d.days) + RoundedSeconds(d.half) \div SecondsPerDay,
      RoundedSeconds(d.half) % SecondsPerDay>>

Names(t, d) ==
    /\ Instant(d) = <<OleDay(t.year, t.month, t.day), t.hour * 3600 + t.minute * 60 + t.second>>
    /\ IsDay(t.year, t.month, t.day)

(* The years a text of nineteen characters can name. *)
NameableDay(day) == day \in OleDay(-999, 1, 1) .. OleDay(9999, 12, 31)

-----------------------------------------------------------------------------
Magnitude(n) == IF n < 0 THEN -n ELSE n

(* A VARIANT says what a JSON value said, an integer too wide for a double *)
(* to less than one part in 2^53. *)
Represents(v, j) ==
    CASE j[1] = "null"   -> v[1] = "EMPTY"
      [] j[1] = "bool"   -> v[1] = "BOOL" /\ (v[2] # 0) = j[2]
      [] j[1] = "int"    -> /\ v[1] = "R8" \/ (v[1] = "I4" /\ v[2] \in IntMin .. IntMax)
                            /\ IF j[2] \in -Exact .. Exact THEN v[2] = j[2]
                               ELSE Exact * Magnitude(v[2] - j[2]) < Magnitude(j[2])
      [] j[1] = "float"  -> v = <<"R8", j[2]>>
      [] j[1] = "string" -> v = <<"BSTR", j[2]>>
      [] j[1] = "time"   -> v[1] = "DATE" /\ Names(j[2], v[2])
      [] j[1] = "ref"    -> v = <<"DISPATCH", Handle[j[2]]>>
      [] OTHER -> FALSE

(* An array says it cell by cell, a matrix row by row. *)
ArgumentArrived(v, j) ==
    IF ~IsArray(j) THEN Represents(v, j)
    ELSE IF j[2] # <<>> /\ IsArray(j[2][1])
    THEN /\ v[3] = << <<0, Len(j[2]) - 1>>, <<0, Len(j[2][1][2]) - 1>> >>
         /\ \A r \in DOMAIN j[2] : \A c \in DOMAIN j[2][r][2] :
               Represents(v[4][<<r - 1, c - 1>>], j[2][r][2][c])
    ELSE /\ v[3] = << <<0, Len(j[2]) - 1>> >>
         /\ \A i \in DOMAIN j[2] : Represents(v[4][<<i - 1>>], j[2][i])

(* Nothing in COM says it. *)
Unsayable(j) ==
    \/ j[1] \in {"object", "unsupported"}
    \/ j[1] = "ref" /\ j[2] \notin DOMAIN Handle
    \/ j[1] = "time" /\ ~(j[2].digits /\ j[2].length = 19 /\ IsDay(j[2].year, j[2].month, j[2].day)
                          /\ j[2].hour < 24 /\ j[2].minute < 60 /\ j[2].second < 60)
    \/ IsArray(j)

UnsayableArray(items) ==
    \/ \E i, k \in DOMAIN items :
          \/ IsArray(items[i]) # IsArray(items[k])
          \/ IsArray(items[i]) /\ Len(items[i][2]) # Len(items[k][2])
    \/ \E i \in DOMAIN items :
          IF IsArray(items[i]) THEN \E e \in Cells(items[i][2]) : Unsayable(e)
          ELSE Unsayable(items[i])

(* A call's every argument reaches the parameter it was given for as what  *)
(* the client said, integers that are too wide for COM as a double that    *)
(* near and never wrapped; and a call is refused only for an argument      *)
(* COM cannot say, a member or a name the object has not, or for want of   *)
(* memory (json_to_variant, invoke_member, raw_invoke).                    *)
ArgumentsArriveFaithfully ==
    /\ at = "taken" /\ job.name[1] = "put" =>
          /\ DOMAIN carried = {DISPID_PROPERTYPUT}
          /\ ArgumentArrived(carried[DISPID_PROPERTYPUT], job.args[1])
    /\ at = "taken" /\ job.name[1] # "put" =>
          \A i \in DOMAIN job.args : ArgumentArrived(carried[i - 1], job.args[i])
    /\ at = "taken" /\ job.name[1] = "member" =>
          LET params == Members[job.name[2]].params IN
          /\ Cardinality(DOMAIN carried) = Len(job.args) + Len(job.named)
          /\ \A n \in DOMAIN job.named : \E p \in DOMAIN params :
                params[p] = job.named[n][1] /\ ArgumentArrived(carried[p - 1], job.named[n][2])
    /\ at = "refused" =>
          \/ job.fault # "none"
          \/ \E i \in DOMAIN job.args :
                IF IsArray(job.args[i]) THEN UnsayableArray(job.args[i][2]) ELSE Unsayable(job.args[i])
          \/ \E i \in DOMAIN job.named : Unsayable(job.named[i][2])
          \/ job.name[1] # "default" /\ job.name[2] \notin DOMAIN Members
          \/ job.name[1] = "put" /\ job.args = <<>>
          \/ job.name[1] = "member" /\ \E i \in DOMAIN job.named :
                job.named[i][1] \notin ToSet(Members[job.name[2]].params)

(* A callback's arguments, read in the order they are delivered, are what  *)
(* a call with those arguments would be sent as: what ordered_args does is *)
(* undone by raw_invoke.  Where the DISPIDs are no positions they are      *)
(* delivered as they came, and none is ever lost.                          *)
EventArgsInOrder ==
    at = "queued" =>
        LET n == NamedCount(job)
            free == {s \in DOMAIN carried : ~\E i \in 1 .. n : job.ids[i] = s - 1}
            order == CHOOSE f \in [1 .. Cardinality(free) -> free] :
                        \A i, k \in DOMAIN f : i < k => f[i] < f[k]
            call == Params(0, "", [i \in DOMAIN order |-> carried[order[i]]], job.ids,
                           [i \in 1 .. n |-> carried[job.ids[i] + 1]])
        IN IF n = 0 \/ /\ job.ids # NoIds
                       /\ Cardinality({job.ids[i] : i \in 1 .. n}) = n
                       /\ \A i \in 1 .. n : job.ids[i] \in 0 .. Len(job.rgvarg) - 1
           THEN call[2].rgvarg = job.rgvarg
           ELSE carried = job.rgvarg

(* COM has it, JSON cannot say it: types the match leaves out (of an array *)
(* without elements the type goes unsaid), more than two dimensions, an    *)
(* array that cannot be read, a year that takes more than four characters. *)
Sayable(v) ==
    /\ v[1] \in TypedElementAllowlist
    /\ v[1] = "DATE" => NameableDay(Instant(v[2])[1])

SayableArray(v) ==
    /\ v[2] # "unreadable" /\ Len(v[3]) \in {1, 2} /\ <<>> \notin Cells(v[3])
    /\ v[2] = "VARIANT" \/ v[2] \in TypedElementAllowlist \/ DOMAIN v[4] = {}
    /\ \A x \in DOMAIN v[4] : Sayable(v[4][x])

(* The same but for its width, and for what JSON has no word for: Empty,   *)
(* Null and Nothing are one, a double must be finite, a text well-formed.  *)
Same(v, w) ==
    CASE v[1] \in {"EMPTY", "NULL"} -> w[1] = "EMPTY"
      [] v[1] \in {"I2", "I4"} -> w = <<"I4", v[2]>>
      [] v[1] \in {"R4", "R8"} -> IF v[2] = NonFinite THEN w[1] = "EMPTY" ELSE w = <<"R8", v[2]>>
      [] v[1] = "DATE" -> w[1] = "DATE" /\ Instant(w[2]) = Instant(v[2])
      [] v[1] = "BOOL" -> w[1] = "BOOL" /\ (w[2] # 0) = (v[2] # 0)
      [] v[1] = "BSTR" -> w = <<"BSTR", IF v[2] = IllFormed THEN Replaced ELSE v[2]>>
      [] v[1] = "DISPATCH" -> IF v[2] = Nothing THEN w[1] = "EMPTY" ELSE w = v
      [] OTHER -> FALSE

Extent(b) == b[2] - b[1] + 1

(* Cell by cell, whatever its lower bounds were; a matrix without rows     *)
(* loses its columns.                                                      *)
SameArray(v, w) ==
    /\ w[1] = "ARRAY"
    /\ \A d \in DOMAIN w[3] : w[3][d] = <<0, Extent(v[3][d]) - 1>>
    /\ Len(w[3]) = Len(v[3]) \/ (Len(w[3]) = 1 /\ Extent(v[3][1]) = 0)
    /\ \A x \in DOMAIN v[4] : Same(v[4][x], w[4][[d \in DOMAIN x |-> x[d] - v[3][d][1]]])

(* The constants a library declares, in its order. *)
Declares(n, v) ==
    LET Declared(i, k) == /\ job[i].kind = "enum" /\ job[i].members[k].described
                          /\ job[i].members[k].name = n
                          /\ job[i].members[k].value # <<"no value">>
    IN n # None /\ \E i \in DOMAIN job : \E k \in DOMAIN job[i].members :
          /\ Declared(i, k) /\ job[i].members[k].value = v
          /\ \A j \in i .. Len(job) : \A l \in DOMAIN job[j].members :
                Declared(j, l) => j = i /\ l <= k

(* What is read from an object and written back to it unchanged arrives as *)
(* it was; what JSON cannot say is refused on the way back and never       *)
(* written as something else.  The text of a date is the calendar's.       *)
(* Every constant a library declares, and no other, can be handed back in  *)
(* the same way, whatever else in the library cannot be read; of a name    *)
(* declared twice it is the last.                                          *)
SurvivesReadModifyWrite ==
    /\ at = "written" =>
          CASE job[1] = "NULL ARRAY" -> carried[1] = "EMPTY"
            [] job[1] = "ARRAY" -> IF SayableArray(job) THEN SameArray(job, carried) ELSE IsRefused(carried)
            [] OTHER -> IF Sayable(job) THEN Same(job, carried) ELSE IsRefused(carried)
    /\ at = "handed back" =>
          /\ \A i \in DOMAIN job : \A k \in DOMAIN job[i].members :
                LET m == job[i].members[k] IN
                Declares(m.name, m.value) =>
                    /\ m.name \in DOMAIN carried
                    /\ IF Sayable(m.value) THEN Same(m.value, carried[m.name])
                       ELSE IsRefused(carried[m.name])
          /\ \A n \in DOMAIN carried : \E i \in DOMAIN job : \E k \in DOMAIN job[i].members :
                Declares(n, job[i].members[k].value)
    /\ at = "read" /\ job[1] = "DATE" => Names(carried[2], job[2])

(* The truth the evidence below is drawn from: the entries of the coclass  *)
(* can all be read, as can every connection point, and IProvideClassInfo2  *)
(* says what the coclass does.                                             *)
Legible(o) ==
    /\ \A i \in DOMAIN o.coclass : o.coclass[i].flags # {} /\ o.coclass[i].iid # {}
    /\ \A points \in o.enum : {} \notin Cells(points) /\ UNION Cells(points) = o.offers

(* An object is subscribed to on its default source: the one that it or    *)
(* its coclass names, and without such a word the only one there is; where *)
(* there are several and no word, on none.  And whatever can be read of    *)
(* it, only on an interface the sink can implement as far as is known, one *)
(* the object offers, on a single-threaded apartment (source_iid, advise). *)
SourceIsTheDefault ==
    at = "advised" =>
        LET sources == {i \in DOMAIN job.coclass : \E f \in job.coclass[i].flags : "source" \in f}
            named == {i \in sources : \E f \in job.coclass[i].flags : "default" \in f}
            word == IF job.guid # {} THEN job.guid
                    ELSE UNION {job.coclass[i].iid : i \in named}
        IN /\ Cardinality(carried.on) <= 1
           /\ \A iid \in carried.on :
                /\ iid \notin Unimplementable
                /\ iid \in DOMAIN job.kinds => job.kinds[iid] = "dispinterface"
                /\ job.container /\ iid \in job.offers
                /\ job.apartment \in {"STA", "MAINSTA"}
                /\ Legible(job) =>
                      \/ iid \in word
                      \/ word = {} /\ \E i \in sources : sources = {i} /\ iid \in job.coclass[i].iid
                      \/ word = {} /\ Cardinality(sources) # 1 /\ job.offers = {iid}
           /\ carried.on = {} =>
                ~ \E iid \in word : /\ iid \in job.offers \ Unimplementable /\ job.container
                                    /\ job.apartment \in {"STA", "MAINSTA"}
                                    /\ iid \in DOMAIN job.kinds => job.kinds[iid] = "dispinterface"
=============================================================================
