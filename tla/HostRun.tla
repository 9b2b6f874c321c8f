------------------------------ MODULE HostRun ------------------------------
(***************************************************************************)
(* A demo run: the proxy is started while the board is running, and the    *)
(* board is reset while the proxy is reading what it sends.                *)
(***************************************************************************)
EXTENDS ProxyInput, EstCli

vars == <<byteVars, inputVars, cliVars>>

Init == BytesInit /\ InputInit /\ CliInit

\* The proxy's process is there until it ends; at the beginning it opens the
\* port, at some moment after Popen.
Opens == OpenPort /\ proc["proxy"] = "running" /\ UNCHANGED cliVars

BoardStep ==
    /\ Board \/ Transmit(mode # "closed")
    /\ UNCHANGED <<inputVars, cliVars>>

ProxyStep == ReadUart /\ UNCHANGED cliVars

PeerStep == RemoteCloses /\ UNCHANGED cliVars

CliStep == Command /\ UNCHANGED <<byteVars, inputVars>>

\* The reset tool and st-trace reset the board; without a tool, and without
\* --reset, nobody does.
ToolResets  == ResetReturns /\ ResetBoard /\ UNCHANGED inputVars
NoTool      == ResetReturns /\ UNCHANGED <<byteVars, inputVars>>
TraceStarts ==
    /\ StartLog
    /\ IF Has("reset") THEN ResetBoard ELSE UNCHANGED byteVars
    /\ UNCHANGED inputVars

\* Flashing ends with a reset; without a flash command nothing happens.
Prepares ==
    /\ Prepared
    /\ ResetBoard \/ UNCHANGED byteVars
    /\ UNCHANGED inputVars

\* The user presses Ctrl+C, or the board's button.
CtrlC         == Interrupt /\ UNCHANGED <<byteVars, inputVars>>
ButtonPressed == pc = "watch" /\ ResetBoard /\ UNCHANGED <<inputVars, cliVars>>

\* A child ends; with the proxy go its port and its connection.
ProxyGone == ClosePort /\ UNCHANGED <<boardVars, answer>>
ChildStep ==
    \E c \in Child :
        /\ ChildEnds(c)
        /\ IF c = "proxy" THEN ProxyGone ELSE UNCHANGED <<byteVars, inputVars>>

KillStep ==
    /\ Kill
    /\ IF Victim = "proxy" THEN ProxyGone ELSE UNCHANGED <<byteVars, inputVars>>

\* The command has exited and the board's program has come to its end.
Finished ==
    /\ pc = "exited" /\ step > Len(Script) /\ tx = <<>> /\ ~waiting /\ ~session
    /\ UNCHANGED vars

Next ==
    \/ BoardStep \/ Opens \/ ProxyStep \/ PeerStep \/ CliStep
    \/ ToolResets \/ NoTool \/ TraceStarts \/ Prepares \/ CtrlC \/ ButtonPressed
    \/ ChildStep \/ KillStep \/ Finished

Spec == Init /\ [][Next]_vars

-----------------------------------------------------------------------------
TypeOK == BytesTypeOK /\ InputTypeOK /\ CliTypeOK

\* What the proxy has not dealt with yet: the frame or line it is reading, what
\* waits to be read and what is being transmitted.
Unparsed == (IF mode = "serve" THEN <<>> ELSE held) \o pipe \o tx

\* It finds the boundaries of the items where they are.
InStep == mode # "closed" /\ Whole(Unparsed)

\* Once the proxy is in step it stays so, whatever it and the board do and
\* whoever closes a connection, until the board is reset in the middle of an
\* item or the proxy ends: no timeout, and no byte that looks like another
\* item's first, makes it lose its place.
OnlyCutsLoseStep ==
    [][InStep /\ ~InStep' => mode' = "closed" \/ (boot' # boot /\ tx # <<>>)]_vars

\* The command the proxy executes was sent by the board as one, in one run, from
\* its first byte; an end may be missing if the board was reset meanwhile.
\* Out of step this depends on the texts: those of the firmware are not taken for
\* one when read from their middle, and a line that was cut too early is not
\* completed by what the next boot prints.
CommandsAreReal ==
    mode = "serve" =>
        LET b == held[1] IN
        /\ Kind(b) = "line" /\ Len(held) <= Size(b)
        /\ held = SubSeq(Item[b.boot][b.item], 1, Len(held))
        /\ Len(held) < Size(b) => b.boot < boot

\* How many bytes the TLS client has sent in the session before item j.
DataBefore[j \in 1..(Len(Script) + 1)] ==
    IF j = 1 \/ Script[j - 1].kind = "line" THEN 0
    ELSE IF Script[j - 1].kind = "data" THEN DataBefore[j - 1] + Len(Script[j - 1].text)
    ELSE DataBefore[j - 1]

\* b is the n-th byte the TLS client sends in the session command c opened.
InSession(b, c, n) ==
    /\ Kind(b) = "data" /\ b.item > c
    /\ \A i \in (c + 1)..b.item : Script[i].kind # "line"
    /\ b.off > HeaderLen /\ n = DataBefore[b.item] + b.off - HeaderLen

\* As long as the board runs that opened it, a connection receives what the TLS
\* client sent in its session, from the first byte on: no text, no header, no
\* command, nothing of another session.  After a reset bytes of later runs may
\* follow (an interrupted frame is filled up with them), never of earlier ones.
OwnBytesFirst ==
    \A n \in DOMAIN delivered :
        LET b == delivered[n] IN
        b.boot > conn.boot \/ (b.boot = conn.boot /\ InSession(b, conn.item, n))

-----------------------------------------------------------------------------
\* The runner was asked to leave its processes running, and does.
Left == Has("no_wait") /\ code = 0

\* When the program has exited, none of the processes it started with Popen is
\* left, unless that was asked for.  est_demo_runner.py starts the server with
\* "go run": what that process has started is not known to it.
NoOrphans == pc = "exited" /\ ~Left => \A c \in Child : proc[c] # "running"

\* Exit status 0 means that the processes were left running as asked, or that the
\* user stopped est_cli.py; the runner then exits with 130.
FailureIsReported ==
    pc = "exited" =>
        /\ code = 0 /\ ~interrupted => Has("no_wait")
        /\ interrupted => code = IF Runs("demo-runner") THEN 130 ELSE 0

-----------------------------------------------------------------------------
\* Fairness: the UART transmits, the proxy's loop goes on, and so does the
\* command, unless it is asleep in a loop that finds nothing.  No step of the
\* user's, and no end of a child, has to happen.
Fairness ==
    /\ WF_vars(Transmit(mode # "closed") /\ UNCHANGED <<inputVars, cliVars>>)
    /\ WF_vars(ProxyStep)
    /\ WF_vars(CliStep \/ KillStep)

FairSpec == Spec /\ Fairness

\* The proxy leaves every frame, line and command it has begun: bytes that are
\* missing, or a length that was never sent as one, do not keep it for ever.
NeverStuck == []<>(mode \in {"loop", "closed"})

\* A program that watches or stops its children does not go on for ever after the
\* server or the proxy has ended: it exits.
DeadChildEndsRun ==
    []<>~(pc \in {"watch", "stop", "term"} /\ (Dead("server") \/ Dead("proxy")))

=============================================================================
