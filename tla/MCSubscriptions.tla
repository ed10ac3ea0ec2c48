--------------------------- MODULE MCSubscriptions ---------------------------
EXTENDS Subscriptions

CONSTANTS app, sheet

(* Two source objects, and an event that carries both, as SheetChange does *)
(* a Worksheet and a Range.                                                *)
AppAndSheet == {app, sheet}
Arguments == {<<app, sheet>>}
=============================================================================
