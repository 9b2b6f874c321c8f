------------------------------ MODULE UartLink ------------------------------
(***************************************************************************)
(* The serial line between the STM32 board and the host.                   *)
(*                                                                         *)
(*   up    what the board has transmitted and the host has not read.  The  *)
(*         host driver buffers it without loss, so it is kept as a         *)
(*         sequence of whole frames and command lines.                     *)
(*   down  the bytes the host has written and the board has not received.  *)
(*   rdr   the receive data register of USART1: one byte deep, no hardware *)
(*         FIFO and no flow control (vcp_uart.c), so a byte that arrives   *)
(*         while it is full is lost.                                       *)
(*                                                                         *)
(* Bytes of `down` keep their value, because a receiver that has lost its  *)
(* place reads a header or a reply line as something else.  The other      *)
(* fields of a byte record where it comes from; no action looks at them.   *)
(***************************************************************************)
EXTENDS Naturals, Sequences

CONSTANTS
    MaxAttempts,    \* bound: CERT and CONNECT commands the firmware issues
    Faults          \* which of FaultKinds may happen

FaultKinds == {
    "overrun",      \* bytes arrive while the board is busy in a TLS session
    "slow_reply",   \* the proxy answers a command after the board's timeout
    "split_line",   \* that timeout expires between two bytes of a line
    "send_fail",    \* sendall on the proxy's non-blocking socket raises
    "refused",      \* the TCP connection, or the certificate fetch, fails
    "peer_reset",   \* the TCP peer resets a connection, data still unread
    "early_close",  \* the TLS client gives up before the server is done
    "reboot",       \* the board is reset between two transmissions
    "proxy_restart" }   \* the proxy dies and is started again

ASSUME LinkAssumption == MaxAttempts \in Nat /\ Faults \subseteq FaultKinds

VARIABLES up, down, rdr

linkVars == <<up, down, rdr>>

-----------------------------------------------------------------------------
Attempt == 1..MaxAttempts
ByteValue == 0..255

\* An item of `up`.  A DATA frame carries the bytes from..upto of what the TLS
\* client sent in this attempt; LOG frames and commands carry none of them.
CommandName == {"CONNECT", "CERT"}
UpItem == [type : {"LOG", "DATA"} \union CommandName,
           attempt : 0..MaxAttempts, from : Nat, upto : Nat]

\* A byte of `down`: `kind` is "high" or "low" for the two of a frame's length,
\* `conn` the attempt whose connection or command it belongs to, `pos` the
\* position of a data byte in its stream, or of the one before its frame, and
\* `left` how many bytes of its frame or reply line follow it.
Byte == [val : ByteValue, kind : {"high", "low", "data", "reply"},
         conn : Attempt, pos : Nat, left : Nat]

\* ser.write(b"..."): one reply line, newline included, for attempt c.
ReplyLine(text, c) ==
    [i \in 1..Len(text) |->
        [val |-> text[i], kind |-> "reply", conn |-> c, pos |-> 0,
         left |-> Len(text) - i]]

\* n bytes of a stream of attempt c, those after the first `done` ones.
Payload(stream, c, done, n) ==
    [i \in 1..n |->
        [val |-> stream[done + i], kind |-> "data", conn |-> c,
         pos |-> done + i, left |-> n - i]]

\* Mutant of FrameHeader: little-endian.
FrameHeader_little(n, c, done) ==
    [i \in 1..2 |->
        [val |-> IF i = 2 THEN (n \div 256) % 256 ELSE n % 256,
         kind |-> IF i = 1 THEN "high" ELSE "low",
         conn |-> c, pos |-> done, left |-> n + 2 - i]]

\* len.to_bytes(2, "big"): the header of a frame that follows `done` bytes.
FrameHeader(n, c, done) ==
    [i \in 1..2 |->
        [val |-> IF i = 1 THEN (n \div 256) % 256 ELSE n % 256,
         kind |-> IF i = 1 THEN "high" ELSE "low",
         conn |-> c, pos |-> done, left |-> n + 2 - i]]

WellTagged(u) == u.from <= u.upto + 1 /\ (u.type # "LOG" => u.attempt \in Attempt)

LinkTypeOK ==
    /\ up \in Seq(UpItem) /\ down \in Seq(Byte)
    /\ rdr \in Seq(Byte) /\ Len(rdr) <= 1
    /\ \A i \in DOMAIN up : WellTagged(up[i])

-----------------------------------------------------------------------------
\* The line shifts the next byte into the empty receive register.
Receive ==
    /\ down # <<>>
    /\ rdr = <<>>
    /\ rdr' = <<Head(down)>>
    /\ down' = Tail(down)
    /\ UNCHANGED up

\* The register still holds the previous byte: the new one is lost.
LoseByte ==
    /\ down # <<>>
    /\ rdr # <<>>
    /\ down' = Tail(down)
    /\ UNCHANGED <<up, rdr>>

\* HAL_UART_Receive(&huart1, &ch, 1, ...) returned HAL_OK with byte ch.
ch == rdr[1]
TakeByte ==
    /\ rdr # <<>>
    /\ rdr' = <<>>
    /\ UNCHANGED <<up, down>>

\* No byte is waiting or on its way.
Silent == rdr = <<>> /\ down = <<>>

=============================================================================
