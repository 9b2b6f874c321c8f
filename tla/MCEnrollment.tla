---------------------------- MODULE MCEnrollment ----------------------------
(***************************************************************************)
(* Small instances of Enrollment.                                          *)
(***************************************************************************)
EXTENDS Enrollment

MCName    == <<100>>
MCSig     == <<48, 3, 48>>
MCCacerts == <<48, 2, 5, 0>>
\* Too long for the response buffer of its run.
MCLongCacerts == [i \in 1..160 |-> 48]

\* What PrintedWasIssued assumes holds of these constants.
ASSUME MCAssumption == FieldsHoldNoCertificate

=============================================================================
