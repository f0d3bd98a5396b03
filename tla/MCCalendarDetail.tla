-------------------------- MODULE MCCalendarDetail --------------------------
(***************************************************************************)
(* Instances of CalendarDetail for TLC.                                    *)
(***************************************************************************)
EXTENDS CalendarDetail, TLC

\* The cfg's model values.
CONSTANTS i1, i2, d1
=============================================================================
