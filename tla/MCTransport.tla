---------------------------- MODULE MCTransport ----------------------------
(***************************************************************************)
(* Small instances of Transport.                                           *)
(***************************************************************************)
EXTENDS Downlink

\* Data bytes of a session may be anything a header or a reply line holds; the
\* first values below are NUL and newline.
MCServerStream == [c \in Attempt |-> IF c % 2 = 1 THEN <<0, 10, 120>> ELSE <<120, 0>>]
\* The same in two bytes, for the run with the most faults.
MCShortStream == [c \in Attempt |-> IF c % 2 = 1 THEN <<10, 0>> ELSE <<120, 0>>]

\* ENROLLMENT_PROFILE_ADHOC and ENROLLMENT_PROFILE_LAMASSU of main.c.
MCAdhoc   == <<"CONNECT", "CONNECT">>
MCLamassu == <<"CERT", "CONNECT", "CONNECT">>

=============================================================================
