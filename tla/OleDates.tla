------------------------------ MODULE OleDates ------------------------------
(***************************************************************************)
(* Dates as they cross the bridge: ole_date_to_iso8601, civil_from_days,   *)
(* days_from_civil and ole_date_from_iso8601 in wineole-bridge/src/value.rs*)
(*                                                                         *)
(* An OLE date is a number of days since 1899-12-30 whose fraction is      *)
(* always read forward from midnight.  Here it is a sign, whole days and   *)
(* half seconds, which is the f64 taken apart by trunc and fract; rounding *)
(* errors below half a second are left out.  A text is the record of its   *)
(* fields and of what decides its acceptance besides them: its length, and *)
(* whether its fields are digits.                                          *)
(***************************************************************************)
EXTENDS Integers, FiniteSets

OleEpochUnixDays == -25569
SecondsPerDay == 86400

OleDate(neg, days, half) == [neg |-> neg, days |-> days, half |-> half]

(* Rust's division, which rounds towards zero. *)
Quotient(a, b) == IF a >= 0 THEN a \div b ELSE -((-a) \div b)

Era(z) == Quotient(IF z >= 0 THEN z ELSE z - 146096, 146097)

(* The years begin in March here, so that the leap day is the last. *)
CivilInYear(y, doy) ==
    LET mp == (5 * doy + 2) \div 153
        month == IF mp < 10 THEN mp + 3 ELSE mp - 9
    IN <<IF month <= 2 THEN y + 1 ELSE y, month, doy - (153 * mp + 2) \div 5 + 1>>

CivilFromDays(unixDays) ==
    LET z == unixDays + 719468
        era == Era(z)
        doe == z - era * 146097
        yoe == (doe - doe \div 1460 + doe \div 36524 - doe \div 146096) \div 365
    IN CivilInYear(yoe + era * 400, doe - (365 * yoe + yoe \div 4 - yoe \div 100))

EraOfYear(y) == Quotient(IF y >= 0 THEN y ELSE y - 399, 400)

DaysInEras(y, doy) ==
    LET yoe == y - EraOfYear(y) * 400
        doe == yoe * 365 + yoe \div 4 - yoe \div 100 + doy
    IN EraOfYear(y) * 146097 + doe - 719468

DaysFromCivil(year, month, day) ==
    LET mp == IF month > 2 THEN month - 3 ELSE month + 9
    IN DaysInEras(IF month <= 2 THEN year - 1 ELSE year, (153 * mp + 2) \div 5 + day - 1)

(* {:04} pads a year to four characters, its sign among them. *)
YearWidth(y) ==
    LET needed == (IF y < 0 THEN 1 ELSE 0)
                  + Cardinality({p \in {10, 100, 1000, 10000} : (IF y < 0 THEN -y ELSE y) >= p}) + 1
    IN IF needed < 4 THEN 4 ELSE needed

(* Whole seconds of a day, rounded to the nearest, half of one upwards. *)
RoundedSeconds(half) == (half + 1) \div 2

SignedDays(d) == IF d.neg THEN -d.days ELSE d.days

(* An instant that rounds to the next midnight. *)
RoundedUp(d) == IF RoundedSeconds(d.half) >= SecondsPerDay THEN 1 ELSE 0

OleDateToIso8601(d) ==
    LET secs == RoundedSeconds(d.half) - RoundedUp(d) * SecondsPerDay
        civil == CivilFromDays(SignedDays(d) + RoundedUp(d) + OleEpochUnixDays)
    IN [year |-> civil[1], month |-> civil[2], day |-> civil[3],
        hour |-> secs \div 3600, minute |-> (secs % 3600) \div 60, second |-> secs % 60,
        digits |-> TRUE, length |-> 15 + YearWidth(civil[1])]

(* A slip: the fraction is added whatever the sign. *)
OleFromDaysForward(days, half) ==
    IF days < 0 /\ half > 0 THEN OleDate(TRUE, -days - 1, 2 * SecondsPerDay - half)
    ELSE OleDate(days < 0, IF days < 0 THEN -days ELSE days, half)

(* A negative date's fraction is subtracted, which reads it forward. *)
OleFromDays(days, half) ==
    OleDate(days < 0, IF days < 0 THEN -days ELSE days, half)

(* The strict reader of the one shape the writer emits: what it accepts,   *)
(* and what it reads.                                                      *)
IsDateText(t) ==
    /\ t.length = 19 /\ t.digits
    /\ t.month \in 1 .. 12 /\ t.day \in 1 .. 31
    /\ t.hour \in 0 .. 23 /\ t.minute \in 0 .. 59 /\ t.second \in 0 .. 59
    /\ CivilFromDays(DaysFromCivil(t.year, t.month, t.day)) = <<t.year, t.month, t.day>>

OleDateFromIso8601(t) ==
    OleFromDays(DaysFromCivil(t.year, t.month, t.day) - OleEpochUnixDays,
                2 * (t.hour * 3600 + t.minute * 60 + t.second))
=============================================================================
