----------------------------- MODULE MCHostRun -----------------------------
(***************************************************************************)
(* A small instance of HostRun.                                            *)
(***************************************************************************)
EXTENDS HostRun

\* main in short: the text "S t" (of "Starting EST test..."), "CERT h 4" and
\* "CONNECT h 4"; then in the session the text "CONNECT c", which begins like a
\* command ("Sending CONNECT command over UART" has one inside), and two bytes that
\* look like the beginning of a frame and of a character.  The next CONNECT on the
\* line is that of the next boot.
MCScript == <<
    [kind |-> "log",  text |-> <<83, 32, 116, 10>>],
    [kind |-> "line", text |-> CERT \o <<104, 32, 52, 10>>],
    [kind |-> "line", text |-> CONNECT \o <<104, 32, 52, 10>>],
    [kind |-> "log",  text |-> CONNECT \o <<99, 10>>],
    [kind |-> "data", text |-> <<2, 255>>] >>

MCOptions == {
    [program |-> "adhoc-demo", switches |-> {"reset"}],
    [program |-> "lamassu-run", switches |-> {"stm_log"}],
    [program |-> "demo-runner", switches |-> {"skip_lamassu"}],
    [program |-> "demo-runner", switches |-> {"skip_proxy"}],
    [program |-> "demo-runner", switches |-> {"skip_proxy", "no_wait"}] }

\* What OwnBytesDelivered assumes holds of this script.
ASSUME MCAssumption == LinesAccepted

=============================================================================
