------------------------------- MODULE EstCli -------------------------------
(***************************************************************************)
(* The programs that run the demo: `est_cli.py adhoc-demo`, `est_cli.py    *)
(* lamassu-run`, and est_demo_runner.py.  Each starts the servers it needs *)
(* and the UART proxy, resets the board, watches its children, and stops   *)
(* them when one of them ends or the user presses Ctrl+C.  The children    *)
(* are started in sessions of their own, so that a Ctrl+C reaches only     *)
(* this program.                                                           *)
(***************************************************************************)
EXTENDS Naturals, Sequences

CONSTANTS
    Options     \* the programs that are run, with the switches they are given

\* The RA or Lamassu, the UART proxy, st-trace.
Child == {"server", "proxy", "log"}

\* est_cli.py with --reset and --stm-log, est_demo_runner.py with --skip-lamassu,
\* --skip-proxy and --no-wait.
Choice ==
    [program : {"adhoc-demo", "lamassu-run"}, switches : SUBSET {"reset", "stm_log"}]
    \union [program : {"demo-runner"},
             switches : SUBSET {"skip_lamassu", "skip_proxy", "no_wait"}]

ASSUME OptionsAssumption == Options \subseteq Choice

VARIABLES
    opts,           \* sys.argv
    pc,             \* where the program is, see PcValues
    proc,           \* each child as the system sees it
    handle,         \* the children whose variable is not None
    victim,         \* finally: which of StopOrder stop_process is at
    code,           \* exit status that has been decided, or NoCode
    interrupted     \* KeyboardInterrupt has been caught

cliVars == <<opts, pc, proc, handle, victim, code, interrupted>>

PcValues == {
    "start_server",             \* Popen
    "check_ra",                 \* sleep(0.5) and poll
    "await_lamassu",            \* wait_for_http
    "prepare",                  \* the set-up script, the flash command
    "pre_reset",                \* reset_board() before the port is opened
    "start_proxy", "settle",    \* Popen; sleep(0.5)
    "post_reset",               \* reset_board() with the proxy reading
    "watch",                    \* the loop of polls and sleep(1)
    "stop", "term",             \* finally: stop_process, and its wait(10)
    "exited" }

\* The try block: what is raised here ends in finally.
InTry == PcValues \ {"stop", "term", "exited"}

Status == {"none", "running", "ended"}

NoCode == 999

Has(switch)  == switch \in opts.switches
Runs(program) == opts.program = program

\* What comes first in the try block.
FirstStep ==
    IF Runs("lamassu-run") THEN (IF Has("reset") THEN "pre_reset" ELSE "start_proxy")
    ELSE IF Has("skip_lamassu") THEN "await_lamassu" ELSE "start_server"

CliInit ==
    /\ opts \in Options /\ pc = FirstStep
    /\ proc = [c \in Child |-> "none"] /\ handle = {}
    /\ victim = 1 /\ code = NoCode /\ interrupted = FALSE

\* finally stops the proxy, the log monitor and the server, in this order.
StopOrder == <<"proxy", "log", "server">>

CliTypeOK ==
    /\ opts \in Options /\ pc \in PcValues
    /\ proc \in [Child -> Status] /\ handle \subseteq Child
    /\ victim \in 1..(Len(StopOrder) + 1)
    /\ code \in {0, 1, 130, NoCode} /\ interrupted \in BOOLEAN

-----------------------------------------------------------------------------
Dead(c) == proc[c] = "ended"                \* poll() is not None

Goto(next) == pc' = next

\* start_process
Start(c) ==
    /\ proc' = [proc EXCEPT ![c] = "running"]
    /\ handle' = handle \union {c}

\* fail(): SystemExit with a code that is not 0, here 1, through finally.
Fail == Goto("stop") /\ code' = 1

StartServer ==
    /\ pc = "start_server" /\ Start("server")
    /\ Goto(IF Runs("demo-runner") THEN "await_lamassu" ELSE "check_ra")
    /\ UNCHANGED <<opts, victim, code, interrupted>>

CheckRa ==
    /\ pc = "check_ra"
    /\ IF Dead("server") THEN Fail
       ELSE /\ Goto(IF Has("reset") THEN "pre_reset" ELSE "start_proxy")
            /\ UNCHANGED code
    /\ UNCHANGED <<opts, proc, handle, victim, interrupted>>

\* wait_for_http: something answers at the address, though perhaps not the child.
LamassuAnswers ==
    /\ pc = "await_lamassu" /\ Goto("prepare")
    /\ UNCHANGED <<opts, proc, handle, victim, code, interrupted>>

\* 90 s without an answer, or run_checked: the set-up script or the flash command
\* fails.
PreparationFails ==
    /\ pc \in {"await_lamassu", "prepare"} /\ Fail
    /\ UNCHANGED <<opts, proc, handle, victim, interrupted>>

\* They succeed, or are not wanted.
Prepared ==
    /\ pc = "prepare"
    /\ Goto(IF Has("skip_proxy") THEN "watch" ELSE "start_proxy")
    /\ UNCHANGED <<opts, proc, handle, victim, code, interrupted>>

\* reset_board(), twice.
Resetting  == pc \in {"pre_reset", "post_reset"}
AfterReset == IF pc = "pre_reset" THEN "start_proxy" ELSE "watch"

\* The tool has done it, or there is none: then the user is told to do it.
ResetReturns ==
    /\ Resetting /\ Goto(AfterReset)
    /\ UNCHANGED <<opts, proc, handle, victim, code, interrupted>>

\* The tool fails: run() raises SystemExit with its exit code.
ResetFails ==
    /\ Resetting /\ Fail
    /\ UNCHANGED <<opts, proc, handle, victim, interrupted>>

StartProxy ==
    /\ pc = "start_proxy" /\ Start("proxy")
    /\ Goto(IF Runs("demo-runner") THEN "watch" ELSE "settle")
    /\ UNCHANGED <<opts, victim, code, interrupted>>

\* st-trace is started, and resets the board itself unless told not to.
StartLog ==
    /\ pc = "settle" /\ Has("stm_log")
    /\ Start("log") /\ Goto("watch")
    /\ UNCHANGED <<opts, victim, code, interrupted>>

\* No log monitor is wanted, or st-trace was not found.
NoLog ==
    /\ pc = "settle"
    /\ Goto(IF Has("reset") THEN "post_reset" ELSE "watch")
    /\ UNCHANGED <<opts, proc, handle, victim, code, interrupted>>

-----------------------------------------------------------------------------
\* return 0 with leave_processes_running: finally does nothing.
Leave ==
    /\ pc = "watch" /\ Has("no_wait") /\ Goto("exited") /\ code' = 0
    /\ UNCHANGED <<opts, proc, handle, victim, interrupted>>

Watching == pc = "watch" /\ ~Has("no_wait")

\* Mutant of FindDead: only the proxy is polled.
FindDead_proxy(c) ==
    /\ Watching /\ c = "proxy" /\ Dead(c)
    /\ Fail
    /\ UNCHANGED <<opts, proc, handle, victim, interrupted>>

\* Mutant of FindDead: the loop is left by a break.
FindDead_break(c) ==
    /\ Watching /\ c \in {"server", "proxy"} /\ Dead(c)
    /\ Goto("stop") /\ code' = 0
    /\ UNCHANGED <<opts, proc, handle, victim, interrupted>>

\* The loop of polls and sleeps: the end of the server or the proxy ends the run.
FindDead(c) ==
    /\ Watching /\ c \in {"server", "proxy"} /\ Dead(c)
    /\ Fail
    /\ UNCHANGED <<opts, proc, handle, victim, interrupted>>

\* The end of the log monitor does not.
DropLog ==
    /\ Watching /\ "log" \in handle /\ Dead("log")
    /\ handle' = handle \ {"log"}
    /\ UNCHANGED <<opts, pc, proc, victim, code, interrupted>>

\* Ctrl+C in the try block is caught: est_cli.py exits normally, the runner with
\* 130.
Interrupt ==
    /\ pc \in InTry /\ Goto("stop")
    /\ interrupted' = TRUE /\ code' = IF Runs("demo-runner") THEN 130 ELSE 0
    /\ UNCHANGED <<opts, proc, handle, victim>>

-----------------------------------------------------------------------------
\* stop_process for each child there is, unless it has ended.
Victim == StopOrder[victim]
MustStop == Victim \in handle /\ ~Dead(Victim)

SkipVictim ==
    /\ pc = "stop" /\ victim <= Len(StopOrder) /\ ~MustStop
    /\ victim' = victim + 1
    /\ UNCHANGED <<opts, pc, proc, handle, code, interrupted>>

\* os.killpg(proc.pid, SIGTERM)
Terminate ==
    /\ pc = "stop" /\ victim <= Len(StopOrder) /\ MustStop /\ Goto("term")
    /\ UNCHANGED <<opts, proc, handle, victim, code, interrupted>>

\* proc.wait(timeout=10) returns.
Reap ==
    /\ pc = "term" /\ Dead(Victim) /\ Goto("stop") /\ victim' = victim + 1
    /\ UNCHANGED <<opts, proc, handle, code, interrupted>>

\* Mutant of Kill: the timeout is caught, and that is all.
Kill_not ==
    /\ pc = "term" /\ ~Dead(Victim) /\ Goto("stop") /\ victim' = victim + 1
    /\ UNCHANGED <<opts, proc, handle, code, interrupted>>

\* It does not: SIGKILL, which no process survives.
Kill ==
    /\ pc = "term" /\ ~Dead(Victim)
    /\ proc' = [proc EXCEPT ![Victim] = "ended"]
    /\ Goto("stop") /\ victim' = victim + 1
    /\ UNCHANGED <<opts, handle, code, interrupted>>

Exit ==
    /\ pc = "stop" /\ victim > Len(StopOrder) /\ Goto("exited")
    /\ UNCHANGED <<opts, proc, handle, victim, code, interrupted>>

-----------------------------------------------------------------------------
\* A child ends, by itself (its port is taken, the adapter is unplugged) or on
\* SIGTERM; all of them do so with a returncode that is not 0.
ChildEnds(c) ==
    /\ proc[c] = "running"
    /\ proc' = [proc EXCEPT ![c] = "ended"]
    /\ UNCHANGED <<opts, pc, handle, victim, code, interrupted>>

\* A step of the program that neither resets the board nor ends the proxy.
Command ==
    \/ StartServer \/ CheckRa \/ LamassuAnswers \/ PreparationFails
    \/ ResetFails \/ StartProxy \/ NoLog
    \/ Leave \/ (\E c \in Child : FindDead(c)) \/ DropLog
    \/ SkipVictim \/ Terminate \/ Reap \/ Exit

=============================================================================
