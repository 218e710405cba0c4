----------------------------- MODULE MCCalendar -----------------------------
(***************************************************************************)
(* Instances of Calendar for TLC.                                          *)
(***************************************************************************)
EXTENDS Calendar

=============================================================================
