# TLA+ verification of the STM32 EST client

The repository is the firmware of an STM32WB55 board that enrolls for an ML-DSA-44
certificate over EST, together with the Python programs that run on the host beside it:
a proxy between the board's serial line and TCP, an ad-hoc registration authority, and the
programs that start and stop them for a demo.
This directory holds a model of that system in TLA+, the TLC configurations that check it
on small instances, and theorems that TLAPS checks for every instance.

```
  board (one thread, polls)                        host
  main.c ── est_client.c ── tls_port.c ══ UART ══ EST_networking.py ── TCP ── adhoc_est_ra.py
    │  csr_gen.c   mbedTLS     frames, lines            proxy            TLS   accept thread
    │  certificate scan                                                        + one thread per
    └─ cms_pqc.c, randombytes.c (step 4, all of PQC)                            connection

  resets ↑        est_cli.py, est_demo_runner.py: start, watch and stop both     ↑ ↑
```

## 1. Inventory

| Component | State it keeps | Operations | What is hard |
|---|---|---|---|
| UART link (`vcp_uart.c`) | a one-byte receive register, no FIFO, no flow control | receive, transmit, both polled | bytes that arrive while the firmware is busy are lost |
| `tls_port.c` | `connected`, one frame and an offset in it | CONNECT and CERT commands, `recv`, `send`, close | reply lines and frames share one byte stream; partial reads at timeouts; the close is not announced |
| `EST_networking.py` | the one active socket, the frame or line being read | relay both ways, serve CONNECT and CERT | a DATA frame names no session; a command blocks up to 5 s while the board waits 2 s; partial `sendall`; a close that is not announced; frames and lines cut by a reset or joined in their middle |
| `est_client.c` | response buffer, output buffers | two requests, each from connect to cleanup | an end of the connection anywhere counts as the end of the response; buffers outlive a request |
| `main.c` | profile, CSR and body buffers | certificate fetch, four steps | which failures stop, which are only printed; the scan for a certificate at every offset |
| `csr_gen.c` | none | backward DER writer | length fields at 128 and 256 |
| `adhoc_est_ra.py` | serial number, handler threads | handshake, GET cacerts, POST simpleenroll | the handshake runs in the accepting thread; the serial has no lock; exceptions outside the `try`; short bodies |
| `cms_pqc.c` | message buffer | two CMS messages written, searched, opened | lengths computed apart from the writing; searches without structure |
| `randombytes.c` | counter, buffer, position | seeding, requests of any length | the buffer is overwritten before it is encrypted, and the encryption may fail |
| demo programs (`tools/`) | child processes, exit status | start, reset the board, watch, stop | partial start-up; children that end or do not; the board is reset while the proxy reads |

They interact so: the firmware calls downwards only, and everything it learns from the
host comes in over one serial line on which answers to commands, data frames and the
empty frame that means EOF follow one another. The proxy serves one socket at a time and
drops it at every command. The RA meets the proxy's sockets as TCP connections. A reset of
the board leaves the proxy, the line and the RA's threads as they are.

`PROJECT.json` lists all components, the parts that are left out with reasons, and the
hazards at their lines with the properties that would catch them.

## 2. Modules

Transport:

| Module | Models | Notes |
|---|---|---|
| `UartLink` | the serial line | `up` (towards the host) as whole frames and lines, since nothing is lost there (a reset falls between two of them; `UartBytes` is about the others); `down` byte by byte with the real values, because a receiver that lost its place reads data as headers. Every byte carries its origin, which no action looks at |
| `TlsPort` | `tls_port.c` and the command sequence of `main.c` | `pc` names the polling loop the one thread is in; timeouts are actions, enabled in silence (or, with `split_line`, at any time) |
| `EstProxy` | `EST_networking.py` | one action per branch of the loop; `busy` is the blocking `create_connection`; `Restart` is the end of the process and a new one; the TCP peer is reduced to the stream it sends and the ways it ends |
| `Transport` | the three together | properties, the inductive invariant `UplinkInv`, the refinement mapping, fairness |
| `SessionStream` | abstract specification | one session at a time, two ordered byte streams in it |
| `Downlink` | no further part of the system: the inductive invariant `DownlinkInv` of the other direction, for a board and a host whose timing is as the code expects it | says what the firmware takes the next byte for, at every place it can be in; and `OriginInv`, which connection that byte is of when the timing is not |
| `SeqLemmas`, `Transport_proofs` | proofs | |

The same line byte by byte, and the demo around it:

| Module | Models |
|---|---|
| `UartBytes` | what the board transmits: frames and lines, any of which a reset cuts. A byte has its real value, in lines and texts the ASCII of "CONNECT ", "CERT ", hosts and numbers, and its origin, which only the properties look at |
| `ProxyInput` | how the proxy reads those bytes: frame headers with the 5 s deadline, `readline`, `decode(errors="ignore")`, `strip`, `split` and `int` on the line, the raw passthrough |
| `EstCli` | `adhoc-demo` and `lamassu-run` of `est_cli.py`, and `est_demo_runner.py`: the children they start, watch and stop |
| `HostRun` | the three together: the program resets the board, starts the proxy in the middle of what it sends, and ends it |
| `HostRun_proofs` | proofs |

The origin tags are what the properties speak about: byte `i` of what `recv` returned in
attempt `c` must have been sent as byte `i` of connection `c`. Frames of printed text
are modelled wherever `tls_port.c` prints, since they are what the proxy reads between two
commands.

Enrollment, on top of what `Transport` establishes (on a connection each side reads a
prefix of what the other sent):

| Module | Models |
|---|---|
| `EstMessage` | HTTP and base64 as symbols. A request line, a status line and the blank line are one symbol each; a body is a sequence of base64 groups of three bytes, so a cut can fall between any two groups, and of line breaks |
| `CsrGen` | `csr_gen.c`, byte by byte |
| `RaDer` | DER parser, certificate and PKCS#7 writer of the RA, byte by byte |
| `CertScan` | `asn1_get_object_total_len` to `find_first_der_certificate` of `main.c` |
| `EstClient` | `est_https_request` from connect to cleanup, and the steps of `main` |
| `AdhocRa` | accepting thread and handler threads of the RA; the read and the increment of the serial are two steps |
| `Enrollment` | both joined, with connections that break anywhere and resets of the board. `Enrollment_proofs` holds its theorems |
| `CertRoundTrip` | writer, RA and scan joined as functions, for every combination of field lengths. `CertRoundTrip_proofs` holds its theorems |
| `MessageLemmas` | no part of the system: what the base64 and DER definitions above do, for messages of all lengths, and what the scan makes of them |

Step 4 and randomness:

| Module | Models |
|---|---|
| `CmsPqc` | writers and searches of `cms_pqc.c` byte by byte; the searches keep the code's offsets and the order in which it tries them |
| `CmsSelfTest` | the two self-tests as a sequence of steps that each may end them |
| `CmsSelfTest_proofs` | proofs |
| `RandomBytes` | the counter-mode backend; a byte is known by counter block, index and whether it is encrypted. `RandomBytes_proofs` holds its theorems |

`RandomBytes` is what the Release build compiles; the Debug build defines
`RB_DIRECT_HAL_RNG` and has no buffer. `Enrollment` covers both profiles' APS names: the
ad-hoc RA answers the Lamassu one with 404. `MC*` modules give the constants their values.

Definitions named `X_something` with a comment "Mutant of X" are wrong versions of the
definition after them, used to confirm that the properties can fail.

## 3. What the runs check

| Run | Distinct states | Shows |
|---|---|---|
| `adhoc` | 954 929 | with late replies, lines split by the timeout, failed sends, refusals, peers that reset, a proxy that is restarted, and early ends: each TCP connection receives, and each session reads, an ordered prefix of the right stream (`UplinkInOrder`, `DownlinkInOrder`), and `Transport` implements `SessionStream` (`StreamSpec`) |
| `lamassu` | 214 091 | the certificate fetched by CERT is one the proxy fetched, whole (`CertIntact`), and the two sessions after it are clean |
| `reboot` | 727 182 | two boots, up to five attempts: boot 1 gives up or is reset in CERT, or in a session with data, a frame in part, or an EOF still on its way, and boot 2 has CERT and sessions after it. The certificate is still whole (`CertIntact`), each session reads one connection from its first byte on and nothing of another (`OneConnection`), and the inductive invariant `UplinkInv` holds. Which connection that is, see Faults |
| `overrun` | 2 518 317 | bytes lost inside a session: framing is lost, but no byte of another connection is read (`NoForeignBytes`) |
| `paced` | 58 533 | with replies in time: an accepted CONNECT is seen as accepted (`OkIsAccepted`), recv never finds a malformed frame (`FramesWellFormed`); here the inductive invariant `DownlinkInv` is also checked |
| `liveness` | 140 528 | commands end (`CommandEnds`), an EOF ends its session (`EofEndsSession`), no session outlives its connection (`LostConnectionEndsSession`) |
| `enrollment` | 455 152 | all connections cut after any number of symbols in both directions: a printed certificate is whole and issued for this CSR (`PrintedIsIssued`), a cut CSR gets none (`IssuedForWhole`), the board never reads a 400 (`NeverRefused`) |
| `enroll_reset` | 298 182 | two boots, three connections, both profiles, a response buffer that the enrollment fits exactly and the CA certificates do not: `EnrollOkIsIssued`, and no wait that nobody ends (`NobodyWaitsForEver`) |
| `der_round_trip` | 14 190 | what `csr_gen.c` writes, by either builder, the RA reads (`CsrIsRead`), what the RA writes `main.c` finds, if its buffer of 8192 bytes holds it (`CertIsFound`), and finds no more if the end is missing (`CutCertIsNotFound`); the program's own CSR fits its buffers, which the writers do not check (`CsrFits`) |
| `random_bytes` | 19 600 | the bytes handed out are the keystream from its beginning (`OutIsKeystream`) |
| `host_run` | 485 895 | joined anywhere, cut anywhere: the proxy executes only commands that were sent as such (`CommandsAreReal`), a connection receives the bytes of its own session first (`OwnBytesFirst`), once in step only a cut makes it lose its place (`OnlyCutsLoseStep`) and nothing keeps it for ever (`NeverStuck`); the programs leave no child behind (`NoOrphans`), tell failure from success (`FailureIsReported`), and exit after a dead child (`DeadChildEndsRun`) |
| `cms_self_test` | 12 147 | what is written is the DER of the structure (`CmsIsDer`); the self-tests fail only when a primitive fails or a message does not fit (`FailsForAReason`) |

### Bounds, and why they are enough

- Transport: two or three commands per run, because a stale item of one session can only
  meet the next (or, over an unanswered command, the one after it); five attempts in
  `reboot`, so that after a boot that was reset in its CERT or in a session the next one has
  a CERT and sessions of its own (with three, no session followed a cut one). The client sends up to
  two bytes in chunks of one, so that a frame can be lost, cut or delayed in the middle of
  a send; a frame from the network has up to two bytes and `recv` asks for up to two, so
  that take and available differ both ways. Streams have two or three bytes (two in `adhoc`,
  which has the most faults) and contain NUL and newline, which the drain and the line reader treat specially. `TLS_FRAME_MAX` is
  the real 2048, so that a misread "OK" (0x4F4B) is too long, as it is on the board.
- Enrollment: `KeyLen` 2, signatures of 1 or 4 bytes, names and times of one byte. In
  `enrollment` streams are cut between any two symbols (`CutGrain` 1); in `enroll_reset`
  all or nothing arrives (`CutGrain` 1000), for the sake of a second boot.
- `der_round_trip`: all names, keys and signatures whose lengths are next to a step of any
  enclosing length field, with the real object identifiers.
- `der_round_trip` fills the fields with headers of objects, among them lengths that wrap
  around in the 32 bits of `size_t`, so that a reader that lost its place would find some.
- `host_run`: the script has a printed line ("S t"), "CERT h 4", "CONNECT h 4", a printed
  line in the session that begins like a command when its header is missed ("CONNECT c"),
  and a frame of session data that looks like the beginning of a frame
  and of an UTF-8 character. All five are sent byte by byte, so a reset cuts words, the host,
  the number, headers and contents, and the next boot fills them up. Two boots: what is
  sent before the proxy opens the port is discarded, so a third adds nothing to meet.
  Sessions that follow one another in one boot are left to the theorems. Two received bytes
  wait at most, which is enough for the proxy to lag behind the board; the raw passthrough
  takes what there is, one byte or both. Five choices of program and switches: all three
  programs, with and without the proxy, the log monitor, a reset and `--no-wait`.
- `cms_self_test`: signature lengths, then ciphertext lengths, across every value at which
  some level of the nesting crosses 127/128 or 255/256, the real 2420 and 768, and buffers
  from too small to large enough around the sizes of both messages. The plaintext keeps its
  real 32 bytes and no signature has that length: the search takes the first OCTET STRING
  with the signature's length, so it would return the content. The program's constants
  exclude that; with other lengths, pairs such as a plaintext of 4 and a signature of 97
  would also hide a look-alike inside data.
- `random_bytes`: blocks of two bytes, three to a buffer, eight counter values, requests of
  up to 14 bytes: requests within, up to the end of, and across two buffers, and a counter
  that wraps.

Deadlock is checked in the transport and enrollment runs, where `Finished` stands for the
loop at the end of `main`. It is off in `der_round_trip` and `cms_self_test`, which are
computations that end, and in `random_bytes`, where `MaxHanded` is used up or `main` stops.

### Faults

`Faults` selects what may go wrong, so that a run says under which conditions its
properties hold: `overrun`, `slow_reply`, `split_line`, `send_fail`, `refused`,
`peer_reset`, `early_close`, `reboot`, `proxy_restart` (see `UartLink`). A proxy that stays
away for a while is one that is restarted once more before it reads anything. `host_run` has
its faults in its actions: resets at every byte, children that end, Ctrl+C in the `try`
block, refused and lost connections. What writing the model brought out:

- A reply line does not say which command it answers. A late "OK" is taken for the answer
  to the next command. With the two CONNECTs `main` makes this is harmless: the proxy's own
  "OK" then stands where a frame header is expected, and 0x4F4B is no legal length. With
  three of them in a row a session can run one connection behind, and so it can after a
  reset, which leaves the reply to an interrupted command on its way. On the Lamassu path TLC
  finds `DownlinkInOrder` and `NoForeignBytes` violated with two boots and four attempts:
  boot 1 is reset while it waits for the reply to its CERT; the CERT of boot 2 takes that
  reply for its own; its first CONNECT takes the reply to its CERT, finds PEM text where a
  frame header should be and fails; its second CONNECT takes the "OK" of the first and reads
  the data of that connection. `src/README.md` (lines 198-215) describes what such a run
  looks like (empty replies, invalid SSL records) and asks for a replug, so this contradicts
  no document. `OneConnection` is what remains: a session reads one connection, whole from
  its beginning. On the ad-hoc path `DownlinkInOrder` and `NoForeignBytes` do hold for all
  attempts two boots can make (4 454 745 states with `early_close`, not among the runs); with
  `slow_reply` beside `reboot` they do not. All this relies on a TLS server that does not
  speak first.
- The same with data instead of a late reply: when a session is given up before its stream
  was read (`early_close`), data the proxy relays between the drain and the next command is
  read as the reply line. Text that is not OK is an error, and the next attempt is clean. But
  data that contains the three characters "OK" and a newline, with what looks like a frame
  header behind it, would be taken for the reply: with a stream of 120, 79, 75, 10, 0, 1, 120
  TLC finds `DownlinkInOrder` violated. The streams of `adhoc`, `lamassu` and `overrun`
  contain no such stretch, so these runs show `DownlinkInOrder` and `NoForeignBytes` for
  streams without one; TLS records make it unlikely, not impossible, and TLS would then
  reject the bytes. That is why the theorem about all streams assumes `Paced` (section 4).
- When the timeout splits a line of the CERT reply, its newline becomes the first byte of
  what follows. Therefore `lamassu` is without `split_line`.
- When `sendall` fails, the proxy closes its socket and sends no EOF frame; `recv` turns
  silence into WANT_READ and `est_https_request` asks again for ever. So
  `LostConnectionEndsSession` needs `send_fail` to be absent. No document promises more.
- The RA ends every response by closing TCP without close_notify, and the client neither
  minds nor compares Content-Length: a response cut anywhere is a success for
  `est_https_request`. What protects the printed certificate is the DER scan, and that is
  what `PrintedIsIssued` and `CutCertIsNotFound` are about.

- The proxy finds its place again after a cut because lines end with a newline, frames carry
  their length, and the loop gives up a frame after 5 s. It may read up to 65 535 bytes of
  the next boot into a frame that was cut behind its length, or that began with a length
  byte of 1 or 2. It then drops the connection, or forwards those bytes to the old
  connection (hence "first" in `OwnBytesFirst`); a command among them is lost, and the board
  sees its timeout.
- A line that a reset cut behind its first digit is still a valid command, for a shorter port
  number: `CommandsAreReal` allows that a suffix is missing if, and only if, the board has
  been reset since. Its reply then meets the next boot.
- A cut line may also be completed by what the next boot sends: the proxy reads up to the
  next newline, drops header bytes that are not text, and splits what it has at white space.
  `CommandsAreReal` holds with the firmware's texts because none of them has a number where
  a command needs its port. It depends on that: had the first printed text been "x 5", TLC
  finds the proxy joining inside "Sending CONNECT command", the board being reset behind
  "CONNECT ", and the two together executed as a connection to a host of that name. The same
  goes for a text that, read from its middle, is a command by itself. So the theorem about all
  scripts, `RealCommands`, is about a proxy in step (section 4).
- `NoOrphans` is about the processes the programs start themselves. `est_demo_runner.py`
  starts the server with `go run` (line 157), and `stop_process` signals and awaits that
  process only: whether the program `go run` has compiled and started ends with it is up to
  `go`, and not modelled.

### Fairness

`host_run` assumes that the UART transmits, that the proxy's loop goes on, and that the
program does: it takes its next step as long as it has one, the end of a process it has sent
SIGKILL included (one condition of weak fairness, `CliStep \/ KillStep`). Children need not
end otherwise, nobody needs to press anything.
The 5 s deadline of a frame may strike whenever bytes are missing, except in a frame that the
board transmits whole (`Arriving`): at 115 200 baud the longest one takes 0.1 s. A frame that
was cut, or never was one, may be filled up before the deadline or not. For the same reason a line ends in
silence (0.1 s) only while the board is not transmitting.

`liveness` assumes (`Fairness` in `Transport`): the line moves bytes; the firmware
is one thread that never blocks, so each enabled step of its loops is taken, it calls
`recv` until that fails or the response is there, and cleans up after a failure; its timers
expire; the proxy's loop reads the UART whenever there is something to read and
`create_connection` returns. The peer owes nothing: it may never answer and never close.
All of it is weak fairness, of steps that stay enabled until taken. `proxy_restart` is not
among its faults: a proxy that is killed sends no EOF, and the board waits for ever.

## 4. What is proved

TLAPS proves these for all values of the constants that satisfy the modules' named
assumptions, for any number of sessions, sizes and contents, and under all faults.

- `Transport_proofs!TypeCorrect`: `Spec => []TypeOK`. `TypeOK` is inductive as it stands.
  It contains that the reads of `uart_read_exact` stay inside the objects they fill, that
  `frame_off` stays inside the frame, and that the proxy is not connected while it serves a
  command. One lemma per action or group of actions.
- `Transport_proofs!UplinkInvariant` and `UplinkCorrect`: `Spec => []UplinkInOrder`.
  `UplinkInOrder` alone is not inductive: it says nothing of what is still on the line.
  `UplinkInv` adds two halves. `BoardSide`: the items on the line form a chain in which each
  continues where the one before stops, the last ends at what was sent in the current
  attempt, and a command is later than everything the host has seen. `HostSide`: the chain
  begins where the open connection, or the one being opened, stands. A frame the proxy
  forwards then continues its stream, a frame it ignores is older than the next command,
  and a failed `sendall` closes the connection, so that its remainder concerns nobody.
- `Transport_proofs!DownlinkInvariant`, `DownlinkCorrect`, `CertCorrect`, `OkCorrect`,
  `FramesCorrect`: under `Paced`, `Spec` implies `DownlinkInOrder` and `CertIntact`,
  `OkIsAccepted`, and, unless the proxy is restarted, `FramesWellFormed`, for streams of any
  content and length. See below.
- `Transport_proofs!StreamRefined`: under `Paced`, `Spec => StreamSpec`: the transport
  implements `SessionStream`. See below.
- `Transport_proofs!ForeignBytesNeedForeignReply` and `RepliesInTime`: `NoForeignBytes` under
  every fault, in executions in which no CONNECT takes an OK left behind by an earlier
  command for its reply. See below.
- `RandomBytes_proofs!RandomTypeCorrect` and `StreamCorrect`: `TypeOK` and `OutIsKeystream`.
  The strengthening `StreamInv` says that whatever is left in `g_buf` is the continuation
  of the keystream after what was handed out, that `g_ctr` stands at the next block, and
  that during a refill the old contents are used up: this is why it does no harm that a
  failed encryption leaves plain counter values in the buffer. `NoByteTwice`, about whole
  executions: a byte of the cipher that `randombytes` has given to a caller (`GivenAt` a place
  of the output) is never given at another place less than a full round of the counter away,
  neither before nor after it, in any round, whatever encryptions fail in between.
- `HostRun_proofs!CommandCleansUp` and `FailureReported`: `NoOrphans` and `FailureIsReported`, for all programs and
  switches. `CliInv` says that a child that runs is known to the program, that
  `stop_process` has dealt with all children before the current one, and that the status is
  decided when the `try` block is left.
- `HostRun_proofs!HostTypeCorrect` and `StaysInStep`: `TypeOK` and `OnlyCutsLoseStep` of
  `HostRun`, for every script whose command lines end with their only newline, whatever the
  frames contain. Being in step means that the bytes the proxy has not dealt with yet (held,
  received, in transmission) are whole items. Four facts about such sequences carry the proof:
  what is sent as one item is whole, two of them joined stay whole (`WholeConcat`: the board
  only sends when its line is free), moving the border between two of the three parts changes
  nothing, and without its first item the rest is still whole (`WholeRest`). The first bytes
  of an item then tell the proxy what it is and how long (`FrameSize`, `LineSize`), so that a
  frame or a line ends where the item does, no raw data is read and no deadline is reached.
  `HeldOK`, part of `TypeOK`, is needed for it: what is held is the beginning of a frame, or
  of one line.
- `HostRun_proofs!RealCommands`: what the proxy begins to execute while it is in step is a
  command line of the board, whole, for every script. `OwnBytesDelivered`: `OwnBytesFirst` for
  every connection that one of the board's command lines opened, wherever the proxy joined
  and however often a reset cuts an item off. See below.
- `Enrollment_proofs!NobodyWaits`: `NobodyWaitsForEver`, for any number of connections and
  boots and all lengths. `LinksOK` says that the client's connection is the last one and all
  others are gone, which is what the proxy's `close_socket` before `create_connection` gives:
  a handshake the RA hangs in is then always one of a connection that was cut. `SentOK` says
  that as long as the thread of the connection has not read a request, what was sent is still
  there as a whole, with the body as long as `Content-Length` announces; the lemmas about
  `CsrGen` show that the CSR has a length in the first place.
- `Enrollment_proofs!EnrollmentTypes`, `OnlyWholeRequests`, `SuccessIsIssued`,
  `NothingRefused`: `TypeOK`, `IssuedForWhole`, `EnrollOkIsIssued` and `NeverRefused` of
  `Enrollment`, for any number of connections and boots, all lengths of names, keys and
  signatures, and connections that break anywhere. See below.
- `MessageLemmas!CsrAccepted`: every CSR `csr_gen.c` can write, for all contents and lengths,
  is accepted by the RA's parser, which finds the subject and the public key that were put in.
- `Enrollment_proofs!PrintedWasIssued`: `PrintedIsIssued`, for the same, of all constants
  with which no field of a certificate spells another one (`FieldsHoldNoCertificate`). See
  below.
- `CertRoundTrip_proofs!EveryCsrIsRead`, `ProgramCsrFits`, `ScanFindsCertificate`:
  `CsrIsRead`, `CsrFits` and `CertIsFound`. See below.
- `CertRoundTrip_proofs!CutCertificateIsNotFound`: `CutCertIsNotFound`, under the same
  condition on the fields, for cuts of at least three octets: the last two follow the
  certificate and belong to the PKCS#7 around it.
- `CmsSelfTest_proofs!CmsWritten`: `CmsIsDer`, for all lengths up to 2^24 octets. See below.
- `CmsSelfTest_proofs!SelfTestsSucceed`: `FailsForAReason`, for the same lengths, of messages in
  which no second place looks like what is searched for (`NothingLooksAlike`). See below.
- `SeqLemmas` holds the facts on sequences these rest on, and the two on least elements and
  recursive functions (`NatUpTo`, `NatRecursion`); every lemma is proved.

### Commands and sessions on a line that is cut

The proxy reads bytes, drops those that are no text, and splits the rest, so out of step a
script can make it execute what the board did not mean (section 3). `RealCommands` therefore
speaks of a proxy in step, as it is before anything is cut and again once it has found its
place, and needs no condition on the texts: when a line is complete, what is held is an item
from its first byte to its last (`HeldItem`), that item is a line since a frame begins with
1 or 2 (`LineSize`), and it begins with the C that the command begins with, so nothing is
stripped from its front (`ServedInStep`). Together with `StaysInStep` this says that only a
cut, and only until the proxy is in step again, lets it execute anything else.

`OwnBytesDelivered` does not need the proxy to be in step. It is about connections opened by
one of the board's lines, be it the whole line or what a reset left of it; what opens a
connection otherwise (a look-alike out of step) is not the board's session to begin with. It
assumes `LinesAccepted`: the lines are what `tls_port_connect` and
`tls_port_fetch_server_cert` write (lines 127 and 186), well-formed and in ASCII. Without it
the proxy would ignore the board's own line, go on with the old connection, and the run
would have no session that the data belongs to. TLC evaluates it for the script of `host_run`
(`MCAssumption`).

Three invariants carry it. `Sent`: what the proxy holds, has received or is being sent
follows in the order of the script; from one byte to the next the board goes on in its item,
or the item was complete and a later one begins, or the board was reset. `ServedLine`: a line
of the board that is being served was read to its end, or what comes next is of a later run:
the proxy stops reading at a newline, which a line has at its end only (`LineFollow`), or in
silence, when what was read last is the end of an item or of a run. `SessionInv` says what
the proxy's place has to do with the session. As long as bytes of the run that opened the
connection are to come, the proxy is in step, and they stand at the beginning of an item of
its session (`InSessionOf`): if it had lost its place, only bytes of later runs could be left.
What has been delivered is as much as the session's frames before that item held (`Counted`,
with `DataBefore` of the property), and no frame is left out before the next one (`NoGap`),
because the board stops sending data only for good. In step, a line in the session would end
it, because it is accepted (`LineAccepted`).

### Messages of all lengths

The definitions of `EstMessage`, `CsrGen`, `RaDer` and `CertScan` are recursive functions, and
`MessageLemmas` says what they compute for every input. The induction theorems of the library
cannot be used, since they take an operator as a parameter; what the proofs use instead is
that a set of numbers that is not empty has a least element (`NatMin`, `NatUpTo`), and the
defining equation of each function (`NatRecursion`, `ObjectsUnfold`). From these follow:

- Base64: what a cut text decodes to is a beginning of what the whole text stands for
  (`DecodedPart`), and the whole text decodes to what it was made of (`DecodedText`).
- DER: an object that was written is read with its contents and its end (`HeaderRead`,
  `ObjectRead`), a list of objects as that list (`ChildrenRead`), and an object that was cut
  is refused wherever the cut falls (`CutObject`). They hold up to 2^16 octets, the longest
  that `der_write_len` of `csr_gen.c` can write. `EstClient` and `CertRoundTrip` therefore
  assume that the fields of a CSR are below that (`LengthAssumption`): the program's 1312 and
  2420 are far below it.

### The enrollment

Types need `ClientShape` and `RaShape`: the response and the bodies taken from it stay within
`EST_HTTP_RESPONSE_MAX`, and the RA's serial number is one ahead of the number of threads that
have increased it (`Counted`). The other three rest on `EnrollInv`, which has four parts.
`ConnsOK` says of each connection that what is on its way to the RA is a part of a request
some boot made, that what its thread has decoded is a part of that boot's CSR, all of it as
long as the connection is there, and that a certificate was made for an accepted CSR only.
`BoardOK` says that the board works on the CSR of this boot. `ResponseOK` says that the
connection it reads belongs to this CSR, and that a response which is read or on its way is no
success as long as no certificate was made. `OpenOK` says that no thread is past reading a
request that was not sent completely.

Then a thread that made a certificate has parsed a part of a CSR; the parser refuses every
part but the whole (`CutObject`), so it is the whole (`OnlyWholeRequests`). A success of
`est_client_simpleenroll` begins with a 200, which stands for a certificate made on this
connection (`SuccessIsIssued`). And no 400 is written while the connection is there, because
then the CSR is whole, and a whole one is accepted (`CsrAccepted`, `NothingRefused`).

`PrintedWasIssued` goes from there to what the board prints, with `PrintInv`. `MadeOK` says that
the certificate of a thread was made of the CSR and the serial of that thread. `ReadingOK` says
that what the board has read, together with what is still on its way, is a part of the answer of
that thread. `BodyOK` says that what was taken for a success leaves a part of the body of that
answer, which may have been cut at any symbol, since the end of the connection counts as the
end of the response. When the board extracts the certificate, `Compact` undoes the line breaks,
a part of the base64 decodes to a part of the PKCS#7 (`BodyPart`), and in that the scan finds
the certificate or nothing.

### The scan

`find_first_der_certificate` takes the first offset at which a SEQUENCE looks like a
certificate. `Passed` is an offset it passes over, `Clean` a stretch of them, and `Leads` says
that a clean stretch leads up to the certificate. The scan stops only where a SEQUENCE begins
with a SEQUENCE (`CertNeeds`). In front of the certificate stand headers of the PKCS#7 and a
few short objects in which no octet has the value 48 of that tag (`NoTag`), and no SEQUENCE
among them begins with another (`CleanTag`). The length fields are the difficulty, since an
octet of a length can be 48 (`CleanLength`). In a response of at most 8192 octets the first of
two such octets is at most 32; a last one of 48 would be taken for a tag, the tag behind it
for a length, and the octet behind that would have to be 48. Only the length octet of what is
enclosed can have that value, and then what is enclosed has 50 octets and the length in front
of it is 50 (`Begins`). In a longer response the octets of a length can spell a look-alike;
`main.c` does not decode it, because `DER_DECODE_BUF_SIZE` is 8192. At the certificate the
scan's reading of each length agrees with the RA's writing (`ScanReads`), and the OID is found
in both places (`Holds`), so that it stops there and takes all of it.

In a response without its end the scan finds either that certificate or nothing: an object that
lies in the part is the same object in the whole, so if no second object of the whole looks like
a certificate (`OneCertificate`), none of the part does, and the certificate itself is no longer
there. A field may contain one, however, and then the scan prints it; `FieldsHoldNoCertificate`
excludes that, and the runs `der_round_trip`, `enrollment` and `enroll_reset` evaluate it for
their constants (`MCAssumption`). It also says that the response fits the buffer of 8192 octets,
as it does with the program's lengths.

### The CMS writer

`cms_pqc.c` writes every length before it writes what the length is of, from sums that it
computed beforehand; `SignedDer` and `EnvelopedDer` are built from the inside, where a length
is the length of what there is. `Adds(p, x, n, q)` connects the two: after the calls of
`der_put` in `p`, the calls up to `q` write `x`, and `x` has the length `n`. A header of that
length in front makes an object of `x`, of the length that `der_tlv_len` gives (`AddsTlv`), and
two neighbours add up (`AddsThen`). So `SignedPuts` and `EnvelopedPuts` go through the calls in
the order of the code, and close an object where its last part has been written: the sum in
the code is then, level by level, the length that has come out. `WrittenFact` adds that the
writer succeeds exactly if the whole message fits: a call that fails stops all the later ones,
shorter or not.

### The CMS searches

The searches of `cms_pqc.c` do not follow the structure they were given, so that the proof has
to say what they meet on their way. `ObjectReadBack` is the core: wherever an object was
written, whatever stands around it, `der_read_tlv` reads its tag, its content and its end there
(`Stands`); for the long form, `HeaderReadBack` adds up the octets of the length as the code's
loop does. `SignedHolds` and `EnvelopedHolds` follow the nesting down to the three places that
matter, and `HeldLies` gives each its offset. The walk of `cms_find_tlv_after_oid` is a
recursive function on offsets; `StopFact` shows that its equation has a solution, because each
step goes forward. From behind the OID of ML-KEM it stops at once, at the ciphertext
(`NextFound`); from behind the OID of AES-GCM it skips the parameters, whose tag is another one,
and stops at the encrypted content (`NextButOneFound`).

That nothing else stops a search first is the condition `NothingLooksAlike`: no second OCTET
STRING as long as the signature, and neither OID a second time, in a message of this build. It
is a condition on the bytes and lengths of a build: a signature or a ciphertext could spell an
OID, and if the signature were as long as the content the search would take the content. The run `cms_self_test` evaluates the condition for all
its lengths (`MCAssumption`). The invariant of the theorem, `Reasons`, then says at each
step what has been found by then (`Found`).

### Foreign bytes

`ForeignBytesNeedForeignReply` has no `Paced`: bytes are lost, replies come late or split, the
board is reset and the proxy restarted, frames are cut at the wrong place. Its hypothesis is
`[]ReplyIsOwn`: whenever the board completes an "OK" to its CONNECT, the "K" was written after
that command, and is no late reply, nor data of the session before. That is the one thing the
code leaves open, since the reply line does not say what it answers (section 3); the theorem
says that nothing else lets in a byte of another connection.
The invariant is `OriginInv` of `Downlink`. `CommandOrder` says that what comes is ordered by
the command it belongs to: a restart drops the end, an overrun drops a byte, nothing changes
places, and the answer to a command is later than all before it. So when the "K" is of the
last command, everything behind it is, too, the proxy has no older connection and no command
to serve (`OwnLine`), and this stays so for the session. `OwnBuffers` says the same of what
has been read. `OriginInv` was checked on the instances `adhoc`, `reboot`, `lamassu`,
`overrun` and `paced`, leaving out what follows a late "OK", before it was proved. The
hypothesis holds in all executions under `Paced` (`RepliesInTime`, from `DownlinkInv`), and
elsewhere in those in which no OK comes late. The run `overrun` shows more for its two
attempts: there a late OK does happen, and does no harm.

### Only model-checked

`NoForeignBytes` where such an OK is taken, and `DownlinkInOrder` and `CertIntact` under the
faults that `Paced` excludes: none of them holds for streams of any content, as section 3
says, and what they exclude depends on where bytes were lost. The liveness properties stay
with TLC, because the prover handles neither ENABLED nor fairness.

## 5. What is not modelled

- Cryptography and TLS. A primitive works on exactly what its counterpart made, and may
  fail. TLS is a byte stream that ends, with or without close_notify. mbedTLS's X.509 parser,
  which `main.c` also tries, is taken to accept nothing signed with ML-DSA, as the note that
  `main.c` prints says (line 504).
- What a reset in the middle of an item does to the two streams of `Transport`: there a
  reset falls between two items. `host_run` has cuts, without the way down to the board,
  whose replies it reduces to OK and ERR.
- Characters beyond ASCII in a command line: a byte above 127 is dropped, or is a blank, a
  digit or another character, and the model takes each of these as possible, byte by byte.
  That `int` refuses numbers of more than 4300 digits is left out.
- What a child process has started in turn (`go run` and the server it compiles).
- A second Ctrl+C while `finally` runs, or one between `Popen` and the assignment of its
  result: both leave children behind. An exception of the measurement log in `finally`
  would, too.
- The commands of `est_cli.py` that run one tool to its end (build, flash, doctor, ...).
- Vendored code (mbedTLS, the ML-DSA and ML-KEM implementations, HAL and CMSIS), generated
  board support, the unused TLS demo `tls_client.c`, the measurement helpers. These are
  nearly all of the repository's lines: of about 346 000, the program itself has some
  7 000. Modelling them would say nothing of this program.
- What the callers of `randombytes` do with its result: the vendored primitives ignore it.

## 6. Plan

Done first, because the rest stands on it: the transport, its abstract specification and
its inductive invariant; then the enrollment; then step 4 and randomness; then the line byte
by byte, the programs around it, and the restart of the proxy. Left, in order:

1. Proofs: that `ReplyIsOwn` holds, or a late OK does no harm, for two CONNECTs and streams no
   stretch of which reads as a reply.
2. Model: the RA's serials under concurrent threads with several clients; the Debug build's
   `randombytes` backend.
