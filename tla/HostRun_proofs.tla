--------------------------- MODULE HostRun_proofs ---------------------------
(***************************************************************************)
(* Proofs about HostRun, for every script of the board, any number of      *)
(* resets and all choices of switches: the commands clean up after         *)
(* themselves, the proxy stays in step with the board, whatever is reset,  *)
(* closed or killed, and whenever; in step it executes commands only, and  *)
(* a connection that a command opened receives what belongs to it, in step *)
(* or not.                                                                 *)
(***************************************************************************)
EXTENDS HostRun, SeqLemmas, Integers

(***************************************************************************)
(* The command leaves no process behind.                                   *)
(***************************************************************************)

\* A child that runs is one the command knows; stop_process has dealt with all
\* children before the current one; the exit status is decided when the try
\* block is left.
CliInv ==
    /\ CliTypeOK
    /\ \A c \in Child : proc[c] = "running" => c \in handle
    /\ \A i \in 1..3 : i < victim => proc[StopOrder[i]] # "running"
    /\ pc \in InTry => victim = 1 /\ ~interrupted
    /\ interrupted => code = IF Runs("demo-runner") THEN 130 ELSE 0
    /\ code = 0 /\ ~interrupted => pc = "exited" /\ Has("no_wait")
    /\ pc = "term" => victim <= 3
    /\ pc = "exited" /\ ~Left => victim = 4

\* The order in which stop_process is called reaches every child.
LEMMA StopOrderFact ==
    /\ Len(StopOrder) = 3
    /\ StopOrder[1] = "proxy" /\ StopOrder[2] = "log" /\ StopOrder[3] = "server"
    /\ \A i \in 1..3 : StopOrder[i] \in Child
BY SMTT(60) DEF StopOrder, Child

\* Each step of the command, and each end of a child, keeps CliInv.
LEMMA CliInvStep ==
    ASSUME CliInv, [Next]_vars
    PROVE  CliInv'
<1> USE StopOrderFact DEF CliInv, CliTypeOK, PcValues, InTry, Status, Goto, NoCode, Left, Has, Runs
<1>1. CASE UNCHANGED cliVars
  BY <1>1 DEF cliVars
<1>2. CASE StartServer
  BY <1>2 DEF StartServer, Start, Child
<1>3. CASE CheckRa
  BY <1>3 DEF CheckRa, Fail
<1>4. CASE ResetFails
  BY <1>4 DEF ResetFails, Resetting, Fail
<1>5. CASE ResetReturns
  BY <1>5 DEF ResetReturns, Resetting, AfterReset
<1>6. CASE StartProxy
  BY <1>6 DEF StartProxy, Start, Child
<1>7. CASE StartLog
  BY <1>7 DEF StartLog, Start, Child
<1>8. CASE NoLog
  BY <1>8 DEF NoLog
<1>9. CASE \E c \in Child : FindDead(c)
  BY <1>9 DEF FindDead, Watching, Fail
<1>10. CASE DropLog
  BY <1>10 DEF DropLog, Dead, Child
<1>11. CASE Interrupt
  BY <1>11 DEF Interrupt
<1>12. CASE SkipVictim
  BY <1>12 DEF SkipVictim, MustStop, Victim, Dead
<1>13. CASE Terminate
  BY <1>13 DEF Terminate
<1>14. CASE Reap
  BY <1>14 DEF Reap, Victim, Dead
<1>15. CASE Kill
  BY <1>15 DEF Kill, Victim, Dead
<1>16. CASE Exit
  BY <1>16 DEF Exit
<1>17. CASE \E c \in Child : ChildEnds(c)
  BY <1>17 DEF ChildEnds
<1>18. CASE LamassuAnswers
  BY <1>18 DEF LamassuAnswers
<1>19. CASE PreparationFails
  BY <1>19 DEF PreparationFails, Fail
<1>20. CASE Prepared
  BY <1>20 DEF Prepared
<1>21. CASE Leave
  BY <1>21 DEF Leave
<1> QED
  BY <1>1, <1>2, <1>3, <1>4, <1>5, <1>6, <1>7, <1>8, <1>9, <1>10, <1>11, <1>12,
     <1>13, <1>14, <1>15, <1>16, <1>17, <1>18, <1>19, <1>20, <1>21
  DEF Next, vars, BoardStep, Opens, ProxyStep, PeerStep, CliStep, Command, ToolResets,
      NoTool, TraceStarts, Prepares, CtrlC, ButtonPressed, ChildStep, KillStep, Finished

\* ... and it holds at the beginning.
LEMMA CliInvInit == Init => CliInv
<1> SUFFICES ASSUME CliInit PROVE CliInv
  BY DEF Init
<1>1. CliTypeOK
  <2>1. opts \in Options /\ pc \in PcValues /\ code \in {0, 1, 130, NoCode}
    BY DEF CliInit, FirstStep, PcValues
  <2>2. proc \in [Child -> Status] /\ handle \subseteq Child
    BY DEF CliInit, Status
  <2>3. victim \in 1..(Len(StopOrder) + 1)
    BY StopOrderFact DEF CliInit
  <2>4. interrupted \in BOOLEAN
    BY DEF CliInit
  <2> QED
    BY <2>1, <2>2, <2>3, <2>4 DEF CliTypeOK
<1>2. \A c \in Child : proc[c] = "none"
  BY DEF CliInit
<1>3. pc \notin {"stop", "term", "exited"} /\ code # 0
  BY DEF CliInit, FirstStep, NoCode
<1> QED
  BY <1>1, <1>2, <1>3 DEF CliInit, CliInv

\* With it go both properties.
LEMMA CliInvariant == Spec => []CliInv
<1>1. Init => CliInv
  BY CliInvInit
<1>2. CliInv /\ [Next]_vars => CliInv'
  BY CliInvStep
<1> QED
  BY <1>1, <1>2, PTL DEF Spec

\* est_cli.py and est_demo_runner.py exit only when every process they started has
\* ended, unless they were asked to leave them running: for all switches, all
\* orders in which children end, and whether or not they obey SIGTERM.
THEOREM CommandCleansUp == Spec => []NoOrphans
<1>1. CliInv => NoOrphans
  BY StopOrderFact DEF CliInv, NoOrphans, Child
<1> QED
  BY <1>1, CliInvariant, PTL

\* They exit with status 0 only when the processes were left running as asked or the
\* user stopped est_cli.py, whenever the Ctrl+C comes and whatever failed before it.
THEOREM FailureReported == Spec => []FailureIsReported
<1>1. CliInv => FailureIsReported
  BY StopOrderFact DEF CliInv, FailureIsReported, Child
<1> QED
  BY <1>1, CliInvariant, PTL


(***************************************************************************)
(* Items on the line.                                                      *)
(***************************************************************************)

\* A length in two bytes.
LEMMA TwoBytes ==
    ASSUME NEW n \in 1..1024
    PROVE  /\ n \div 256 \in ByteValue /\ n % 256 \in ByteValue
           /\ (n \div 256) * 256 + (n % 256) = n
<1>1. n \div 256 \in 0..4
  OBVIOUS
<1>2. n % 256 \in 0..255
  OBVIOUS
<1>3. (n \div 256) * 256 + (n % 256) = n
  BY SMTT(60)
<1> QED
  BY <1>1, <1>2, <1>3 DEF ByteValue

\* The types of frames are bytes.
LEMMA TypeBytes == UART_FRAME_LOG \in ByteValue /\ UART_FRAME_DATA \in ByteValue
BY SMTT(60) DEF UART_FRAME_LOG, UART_FRAME_DATA, ByteValue

\* The bytes of a frame: uart_write_frame's header in front of the contents.
LEMMA FrameFact ==
    ASSUME NEW type \in ByteValue, NEW text \in Seq(ByteValue)
    PROVE  Len(text) \in 1..1024 =>
           /\ Frame(type, text) \in Seq(ByteValue)
           /\ Len(Frame(type, text)) = 3 + Len(text) /\ Frame(type, text)[1] = type
           /\ Frame(type, text)[2] * 256 + Frame(type, text)[3] = Len(text)
<1> DEFINE n == Len(text)
           hi == n \div 256
           lo == n % 256
           f == Frame(type, text)
<1>1. n \in 1..1024 => hi \in ByteValue /\ lo \in ByteValue /\ hi * 256 + lo = n
  <2> HIDE DEF n
  <2> QED
    BY ZenonT(60), TwoBytes
<1>2. f = <<type, hi, lo>> \o text
  BY DEF Frame
<1> HIDE DEF f, hi, lo
<1>3. ASSUME hi \in ByteValue, lo \in ByteValue
      PROVE  f \in Seq(ByteValue) /\ Len(f) = 3 + Len(text)
             /\ f[1] = type /\ f[2] = hi /\ f[3] = lo
  BY <1>2, <1>3, SeqHeader
<1> HIDE DEF n
<1>4. n \in 1..1024 => f[2] * 256 + f[3] = n
  BY <1>1, <1>3
<1> QED
  BY ZenonT(60), <1>1, <1>3, <1>4 DEF f, n

\* What begins with a command begins with its first letter.
LEMMA StartsFact ==
    ASSUME NEW t \in Seq(ByteValue), StartsWith(t, CONNECT) \/ StartsWith(t, CERT)
    PROVE  Len(t) > 1 /\ IsC(t[1])
<1>1. ASSUME NEW w, NEW n \in Nat, n > 1, Len(w) = n, IsC(w[1]),
             StartsWith(t, w)
      PROVE  Len(t) > 1 /\ IsC(t[1])
  <2>1. n <= Len(t) /\ SubSeq(t, 1, n) = w
    BY <1>1 DEF StartsWith
  <2>2. Len(t) \in Nat
    BY SeqDomain
  <2>3. \A i \in 1..(n + 1 - 1) : SubSeq(t, 1, n)[i] = t[1 + i - 1]
    BY <1>1, <2>1, <2>2, SeqSegment
  <2>4. 1 \in 1..(n + 1 - 1) /\ 1 + 1 - 1 = 1 /\ Len(t) > 1
    BY <1>1, <2>1, <2>2
  <2>5. SubSeq(t, 1, n)[1] = t[1]
    BY <2>3, <2>4
  <2> QED
    BY <1>1, <2>1, <2>4, <2>5
<1>2. Len(CONNECT) = 8 /\ CONNECT[1] = 67
  <2>1. Len(<<67, 79, 78, 78, 69, 67, 84, 32>>) = 8
    OBVIOUS
  <2>2. <<67, 79, 78, 78, 69, 67, 84, 32>>[1] = 67
    OBVIOUS
  <2> QED
    BY <2>1, <2>2, Zenon DEF CONNECT
<1>3. Len(CERT) = 5 /\ CERT[1] = 67
  <2>1. Len(<<67, 69, 82, 84, 32>>) = 5
    OBVIOUS
  <2>2. <<67, 69, 82, 84, 32>>[1] = 67
    OBVIOUS
  <2> QED
    BY <2>1, <2>2, Zenon DEF CERT
<1>4. IsC(CONNECT[1]) /\ IsC(CERT[1])
  BY <1>2, <1>3 DEF IsC
<1>5. 8 \in Nat /\ 8 > 1 /\ 5 \in Nat /\ 5 > 1
  OBVIOUS
<1>6. StartsWith(t, CONNECT) => Len(t) > 1 /\ IsC(t[1])
  BY <1>1, <1>2, <1>4, <1>5, Zenon
<1>7. StartsWith(t, CERT) => Len(t) > 1 /\ IsC(t[1])
  BY <1>1, <1>3, <1>4, <1>5, Zenon
<1> QED
  BY <1>6, <1>7

\* The first bytes of an item tell its kind, and how long it is.
LEMMA EncodedFact ==
    ASSUME NEW i \in DOMAIN Script
    PROVE  /\ Encoded[i] \in Seq(ByteValue) /\ Len(Encoded[i]) \in Nat \ {0}
           /\ Script[i].kind = "line" =>
                 /\ Len(Encoded[i]) > 1 /\ IsC(Encoded[i][1])
                 /\ \A k \in 1..Len(Encoded[i]) :
                       Encoded[i][k] = LF <=> k = Len(Encoded[i])
           /\ Script[i].kind # "line" =>
                 /\ Len(Encoded[i]) >= 3 /\ IsFrame(Encoded[i][1])
                 /\ Len(Encoded[i]) = 3 + (Encoded[i][2] * 256 + Encoded[i][3])
<1> DEFINE text == Script[i].text
           kind == Script[i].kind
           e == Encoded[i]
<1>1. Script[i] \in Entry
  BY BytesAssumption
<1>2. text \in Seq(ByteValue) /\ kind \in {"log", "data", "line"}
  BY <1>1 DEF Entry
<1>3. Len(text) \in 1..1024
  BY ZenonT(60), TextAssumption DEF UART_TX_CHUNK_MAX
<1>4. kind = "line" =>
         /\ Len(text) > 1 /\ IsC(text[1])
         /\ \A k \in DOMAIN text : text[k] = LF <=> k = Len(text)
  BY <1>2, TextAssumption, StartsFact
<1>5. /\ kind = "log"  => e = Frame(UART_FRAME_LOG, text)
      /\ kind = "data" => e = Frame(UART_FRAME_DATA, text)
      /\ kind = "line" => e = text
  BY DEF Encoded
<1> HIDE DEF text, kind, e
<1>6. Len(text) \in Nat /\ DOMAIN text = 1..Len(text)
  BY <1>2, SeqDomain
<1>7. CASE kind = "line"
  <2>1. e = text
    BY <1>5, <1>7
  <2>2. e \in Seq(ByteValue)
    BY <1>2, <2>1
  <2>4. Len(e) \in Nat \ {0}
    <3> DEFINE n == Len(text)
    <3>1. n \in 1..1024 /\ Len(e) = n
      BY ZenonT(60), <1>3, <2>1
    <3> HIDE DEF n
    <3> QED
      BY <3>1
  <2>3. /\ Len(e) > 1 /\ IsC(e[1])
        /\ \A k \in 1..Len(e) : e[k] = LF <=> k = Len(e)
    BY <1>4, <1>6, <1>7, <2>1
  <2> QED
    BY <1>7, <2>2, <2>3, <2>4 DEF e, kind
<1>8. CASE kind # "line"
  <2>1. PICK type \in {UART_FRAME_LOG, UART_FRAME_DATA} : e = Frame(type, text)
    BY <1>2, <1>5, <1>8
  <2>2. type \in ByteValue /\ IsFrame(type)
    BY SMTT(60), TypeBytes DEF IsFrame
  <2>3. /\ e \in Seq(ByteValue) /\ Len(e) = 3 + Len(text)
        /\ e[1] = type /\ e[2] * 256 + e[3] = Len(text)
    BY ZenonT(60), <1>2, <1>3, <2>1, <2>2, FrameFact
  <2>4. Len(e) \in Nat \ {0} /\ Len(e) >= 3 /\ Len(e) = 3 + (e[2] * 256 + e[3])
    <3> DEFINE n == Len(text)
               m == Len(e)
               v == e[2] * 256 + e[3]
    <3>1. n \in 1..1024 /\ m = 3 + n /\ v = n
      BY ZenonT(60), <1>3, <2>3
    <3> HIDE DEF n, m, v
    <3>2. m \in Nat \ {0} /\ m >= 3 /\ m = 3 + v
      BY <3>1
    <3> QED
      BY <3>2 DEF m, v
  <2> QED
    BY <1>8, <2>2, <2>3, <2>4 DEF e, kind
<1> QED
  BY <1>7, <1>8

(***************************************************************************)
(* Sequences of bytes that are made of whole items.                        *)
(***************************************************************************)

\* The fields of a byte.
LEMMA ByteType ==
    ASSUME NEW b \in TaggedByte
    PROVE  /\ b.off \in Nat \ {0} /\ b.item \in DOMAIN Script /\ b.boot \in 1..MaxBoots
           /\ Size(b) \in Nat \ {0}
<1>1. b.off \in Nat \ {0} /\ b.item \in DOMAIN Script /\ b.boot \in 1..MaxBoots
  BY DEF TaggedByte
<1>2. Size(b) = Len(Encoded[b.item])
  BY DEF Size
<1> QED
  BY <1>1, <1>2, EncodedFact

\* Byte o of an item.
LEMMA ByteFact ==
    ASSUME NEW b, NEW i, NEW o
    PROVE  /\ ByteOf(b, i, o).boot = b /\ ByteOf(b, i, o).item = i
           /\ ByteOf(b, i, o).off = o /\ ByteOf(b, i, o).val = Encoded[i][o]
           /\ Size(ByteOf(b, i, o)) = Len(Encoded[i])
BY DEF ByteOf, Size

\* A whole item, byte by byte.
LEMMA ItemFact ==
    ASSUME NEW b \in 1..MaxBoots, NEW i \in DOMAIN Script
    PROVE  /\ Item[b][i] \in Seq(TaggedByte) /\ Len(Item[b][i]) = Len(Encoded[i])
           /\ \A o \in 1..Len(Encoded[i]) : Item[b][i][o] = ByteOf(b, i, o)
<1> DEFINE n == Len(Encoded[i])
           s == Item[b][i]
<1>1. n \in Nat \ {0} /\ Encoded[i] \in Seq(ByteValue)
  BY EncodedFact
<1>2. s = [o \in 1..n |-> ByteOf(b, i, o)]
  BY DEF Item
<1>3. ASSUME NEW o \in 1..n PROVE ByteOf(b, i, o) \in TaggedByte
  <2>1. Encoded[i][o] \in ByteValue
    BY <1>1, SeqElt
  <2>2. o \in Nat \ {0}
    BY <1>1
  <2> QED
    BY <2>1, <2>2 DEF ByteOf, TaggedByte
<1> HIDE DEF s, n
<1>4. s \in [1..n -> TaggedByte]
  BY <1>2, <1>3
<1>5. s \in Seq(TaggedByte) /\ Len(s) = n
  BY <1>1, <1>4, SeqMake
<1>6. \A o \in 1..n : s[o] = ByteOf(b, i, o)
  BY <1>2
<1> QED
  BY <1>5, <1>6 DEF s, n

\* What it means that an item is there from its first byte to its last.
LEMMA WholeAtFact ==
    ASSUME NEW s \in Seq(TaggedByte), NEW k \in 1..Len(s)
    PROVE  WholeAt(s, k) <=>
              /\ s[k].off <= k /\ s[k].off <= Size(s[k])
              /\ k - s[k].off + Size(s[k]) <= Len(s)
              /\ \A o \in 1..Size(s[k]) :
                    s[k - s[k].off + o] = ByteOf(s[k].boot, s[k].item, o)
<1> DEFINE b == s[k]
           f == b.off
           z == Size(b)
           g == k - f
           e == Item[b.boot][b.item]
           c == SubSeq(s, g + 1, g + z)
<1>1. b \in TaggedByte
  BY SeqElt
<1>2. f \in Nat \ {0} /\ z \in Nat \ {0} /\ b.boot \in 1..MaxBoots /\ b.item \in DOMAIN Script
  BY <1>1, ByteType
<1>3. z = Len(Encoded[b.item])
  BY DEF Size
<1>4. e \in Seq(TaggedByte) /\ Len(e) = z /\ \A o \in 1..z : e[o] = ByteOf(b.boot, b.item, o)
  BY <1>2, <1>3, ItemFact
<1>5. WholeAt(s, k) <=> f <= k /\ f <= z /\ g + z <= Len(s) /\ c = e
  BY DEF WholeAt
<1>6. Len(s) \in Nat /\ k \in Nat /\ k <= Len(s)
  BY SeqDomain
<1>7. ASSUME f <= k, g + z <= Len(s)
      PROVE  c = e <=> \A o \in 1..z : s[g + o] = ByteOf(b.boot, b.item, o)
  <2> HIDE DEF b, f, z, e
  <2>1. g \in Nat
    BY <1>2, <1>6, <1>7
  <2> HIDE DEF g
  <2>2. g + 1 \in Nat /\ g + z \in Nat /\ g + 1 >= 1 /\ g + 1 <= g + z + 1
        /\ g + z + 1 - (g + 1) = z
    BY <1>2, <2>1
  <2>3. /\ c \in Seq(TaggedByte) /\ Len(c) = z
        /\ \A i \in 1..z : c[i] = s[g + 1 + i - 1]
    BY SMTT(60), <1>7, <2>2, SeqSegment
  <2>4. \A i \in 1..z : c[i] = s[g + i]
    <3> SUFFICES ASSUME NEW i \in 1..z PROVE c[i] = s[g + i]
      OBVIOUS
    <3>1. g + 1 + i - 1 = g + i
      BY <1>2, <2>1
    <3> QED
      BY <2>3, <3>1
  <2> HIDE DEF c
  <2>5. ASSUME \A o \in 1..z : s[g + o] = ByteOf(b.boot, b.item, o) PROVE c = e
    <3>1. \A i \in 1..Len(c) : c[i] = e[i]
      BY <1>4, <2>3, <2>4, <2>5
    <3> QED
      BY <1>4, <2>3, <3>1, SeqSame
  <2>6. ASSUME c = e, NEW o \in 1..z PROVE s[g + o] = ByteOf(b.boot, b.item, o)
    BY <1>4, <2>4, <2>6
  <2> QED
    BY <2>5, <2>6
<1> QED
  BY <1>5, <1>7

\* What the k-th byte of a sequence of whole items says of the others.
LEMMA WholeElim ==
    ASSUME NEW s \in Seq(TaggedByte), Whole(s), NEW k \in 1..Len(s)
    PROVE  /\ s[k] \in TaggedByte
           /\ s[k].off <= k /\ s[k].off <= Size(s[k])
           /\ k - s[k].off + Size(s[k]) <= Len(s)
           /\ \A o \in 1..Size(s[k]) :
                 s[k - s[k].off + o] = ByteOf(s[k].boot, s[k].item, o)
<1>1. s[k] \in TaggedByte
  BY SeqElt
<1>2. k \in DOMAIN s
  BY SeqDomain
<1>3. WholeAt(s, k)
  BY <1>2 DEF Whole
<1> QED
  BY <1>1, <1>3, WholeAtFact

\* ... and the other way round.
LEMMA WholeIntro ==
    ASSUME NEW s \in Seq(TaggedByte), \A k \in 1..Len(s) : WholeAt(s, k)
    PROVE  Whole(s)
<1>1. DOMAIN s = 1..Len(s)
  BY SeqDomain
<1> QED
  BY <1>1 DEF Whole

\* The first item of such a sequence.
LEMMA WholeFirst ==
    ASSUME NEW s \in Seq(TaggedByte), Whole(s), Len(s) > 0
    PROVE  /\ s[1] \in TaggedByte /\ s[1].off = 1 /\ Size(s[1]) <= Len(s)
           /\ \A o \in 1..Size(s[1]) : s[o] = ByteOf(s[1].boot, s[1].item, o)
<1>1. 1 \in 1..Len(s)
  BY SeqDomain
<1>2. /\ s[1] \in TaggedByte
      /\ s[1].off <= 1 /\ 1 - s[1].off + Size(s[1]) <= Len(s)
      /\ \A o \in 1..Size(s[1]) : s[1 - s[1].off + o] = ByteOf(s[1].boot, s[1].item, o)
  BY <1>1, WholeElim
<1>3. s[1].off \in Nat \ {0} /\ Size(s[1]) \in Nat \ {0}
  BY <1>2, ByteType
<1>4. s[1].off = 1
  BY <1>2, <1>3
<1>5. Size(s[1]) <= Len(s)
  BY <1>2, <1>3, <1>4
<1>6. ASSUME NEW o \in 1..Size(s[1])
      PROVE  s[o] = ByteOf(s[1].boot, s[1].item, o)
  <2>1. 1 - s[1].off + o = o
    BY <1>3, <1>4
  <2> QED
    BY <1>2, <2>1
<1> QED
  BY <1>2, <1>4, <1>5, <1>6

\* Two of them make one.
LEMMA WholeConcat ==
    ASSUME NEW s \in Seq(TaggedByte), NEW t \in Seq(TaggedByte), Whole(s), Whole(t)
    PROVE  Whole(s \o t)
<1> DEFINE c == s \o t
           m == Len(s)
           n == Len(t)
<1>1. /\ c \in Seq(TaggedByte) /\ Len(c) = m + n /\ m \in Nat /\ n \in Nat
      /\ \A i \in 1..m : c[i] = s[i]
      /\ \A i \in 1..n : c[m + i] = t[i]
  BY SeqConcat, SeqDomain
<1>2. ASSUME NEW k \in 1..m PROVE WholeAt(c, k)
  <2> DEFINE b == s[k]
             f == b.off
             z == Size(b)
  <2>1. /\ b \in TaggedByte /\ f <= k /\ f <= z /\ k - f + z <= m
        /\ \A o \in 1..z : s[k - f + o] = ByteOf(b.boot, b.item, o)
    BY WholeElim
  <2>2. f \in Nat \ {0} /\ z \in Nat \ {0}
    BY <2>1, ByteType
  <2>3. c[k] = b
    BY <1>1
  <2>4. m \in Nat /\ n \in Nat /\ Len(c) = m + n
    BY <1>1
  <2>5. f <= k /\ f <= z /\ k - f + z <= m
    BY <2>1
  <2> HIDE DEF b, c, m, n, f, z
  <2>6. k - f + z <= Len(c)
    BY <2>2, <2>4, <2>5
  <2>7. ASSUME NEW o \in 1..z PROVE c[k - f + o] = ByteOf(b.boot, b.item, o)
    <3>1. k - f + o \in 1..m
      BY <2>2, <2>4, <2>5
    <3> QED
      BY <1>1, <2>1, <3>1
  <2>8. k \in 1..Len(c)
    BY <2>4
  <2> QED
    BY <1>1, <2>3, <2>5, <2>6, <2>7, <2>8, WholeAtFact DEF f, z
<1>3. ASSUME NEW j \in 1..n PROVE WholeAt(c, m + j)
  <2> DEFINE b == t[j]
             f == b.off
             z == Size(b)
  <2>1. /\ b \in TaggedByte /\ f <= j /\ f <= z /\ j - f + z <= n
        /\ \A o \in 1..z : t[j - f + o] = ByteOf(b.boot, b.item, o)
    BY WholeElim
  <2>2. f \in Nat \ {0} /\ z \in Nat \ {0}
    BY <2>1, ByteType
  <2>3. c[m + j] = b
    BY <1>1
  <2>4. m \in Nat /\ n \in Nat /\ Len(c) = m + n
    BY <1>1
  <2>5. f <= j /\ f <= z /\ j - f + z <= n
    BY <2>1
  <2> HIDE DEF b, c, m, n, f, z
  <2>6. f <= m + j /\ (m + j) - f + z <= Len(c)
    BY <2>2, <2>4, <2>5
  <2>7. ASSUME NEW o \in 1..z PROVE c[(m + j) - f + o] = ByteOf(b.boot, b.item, o)
    <3>1. j - f + o \in 1..n /\ (m + j) - f + o = m + (j - f + o)
      BY <2>2, <2>4, <2>5
    <3>2. c[m + (j - f + o)] = t[j - f + o]
      BY <1>1, <3>1
    <3> QED
      BY <2>1, <3>1, <3>2
  <2>8. m + j \in 1..Len(c)
    BY <2>4
  <2> QED
    BY <1>1, <2>3, <2>5, <2>6, <2>7, <2>8, WholeAtFact DEF f, z
<1> HIDE DEF c, m, n
<1>4. ASSUME NEW k \in 1..Len(c) PROVE WholeAt(c, k)
  <2>1. CASE k <= m
    BY <1>1, <1>2, <2>1
  <2>2. CASE k > m
    <3>1. k - m \in 1..n /\ k = m + (k - m)
      BY <1>1, <2>2
    <3> QED
      BY <1>3, <3>1
  <2> QED
    BY <1>1, <2>1, <2>2
<1>5. Whole(c)
  BY <1>1, <1>4, WholeIntro
<1> QED
  BY <1>5 DEF c

\* Without its first item it is still one: no other item begins inside the first.
LEMMA WholeRest ==
    ASSUME NEW s \in Seq(TaggedByte), Whole(s), Len(s) > 0
    PROVE  Whole(SubSeq(s, Size(s[1]) + 1, Len(s)))
<1> DEFINE n == Size(s[1])
           r == SubSeq(s, n + 1, Len(s))
<1>1. /\ s[1] \in TaggedByte /\ s[1].off = 1 /\ n <= Len(s)
      /\ \A o \in 1..n : s[o] = ByteOf(s[1].boot, s[1].item, o)
  BY WholeFirst
<1>2. n \in Nat \ {0} /\ Len(s) \in Nat
  BY <1>1, ByteType, SeqDomain
<1> HIDE DEF n
<1>3. /\ r \in Seq(TaggedByte) /\ Len(r) = Len(s) + 1 - (n + 1)
      /\ \A j \in 1..(Len(s) + 1 - (n + 1)) : r[j] = s[(n + 1) + j - 1]
  BY <1>1, <1>2, SeqSegment
<1> HIDE DEF r
<1>4. /\ Len(r) = Len(s) - n
      /\ \A j \in 1..(Len(s) - n) : r[j] = s[n + j]
  BY <1>2, <1>3
<1>5. ASSUME NEW j \in 1..Len(r) PROVE WholeAt(r, j)
  <2> DEFINE k == n + j
             b == s[k]
  <2>1. k \in 1..Len(s) /\ r[j] = b
    BY <1>2, <1>4
  <2> HIDE DEF k
  <2>2. /\ b \in TaggedByte /\ b.off <= k /\ b.off <= Size(b)
        /\ k - b.off + Size(b) <= Len(s)
        /\ \A o \in 1..Size(b) : s[k - b.off + o] = ByteOf(b.boot, b.item, o)
    BY <2>1, WholeElim
  <2>3. b.off \in Nat \ {0} /\ Size(b) \in Nat \ {0}
    BY <2>2, ByteType
  <2> HIDE DEF b
  <2>4. k - b.off >= n
    <3> SUFFICES ASSUME k - b.off < n PROVE FALSE
      BY <1>2, <2>1, <2>3
    <3>1. (k - b.off) + 1 \in 1..n /\ 1 \in 1..Size(b) /\ 1 \in 1..n
      BY SMTT(60), <1>2, <2>1, <2>2, <2>3
    <3>2. s[(k - b.off) + 1] = ByteOf(s[1].boot, s[1].item, (k - b.off) + 1)
      BY <1>1, <3>1
    <3>3. s[(k - b.off) + 1] = ByteOf(b.boot, b.item, 1)
      BY <2>2, <3>1
    <3>4. (k - b.off) + 1 = 1
      BY <3>2, <3>3, ByteFact
    <3>5. s[1] = ByteOf(b.boot, b.item, 1)
      BY <3>3, <3>4
    <3>6. n = Size(b)
      BY <3>5, ByteFact DEF n, Size
    <3>7. k = n + j
      BY DEF k
    <3> QED
      BY SMTT(60), <1>2, <2>1, <2>2, <2>3, <3>4, <3>6, <3>7
  <2>5. k = n + j
    BY DEF k
  <2>6. b.off <= j /\ j - b.off + Size(b) <= Len(r)
    BY <1>2, <1>4, <2>2, <2>3, <2>4, <2>5
  <2>7. ASSUME NEW o \in 1..Size(b)
        PROVE  r[j - b.off + o] = ByteOf(b.boot, b.item, o)
    <3>1. j - b.off + o \in 1..(Len(s) - n) /\ n + (j - b.off + o) = k - b.off + o
      BY SMTT(60), <1>2, <1>4, <2>2, <2>3, <2>5, <2>6
    <3>2. r[j - b.off + o] = s[n + (j - b.off + o)]
      BY <1>4, <3>1
    <3> QED
      BY <2>2, <3>1, <3>2
  <2> QED
    BY <1>3, <2>1, <2>2, <2>6, <2>7, WholeAtFact
<1>6. Whole(r)
  BY <1>3, <1>5, WholeIntro
<1> QED
  BY <1>6 DEF r, n

\* What the board sends as one is one.
LEMMA BytesFact ==
    ASSUME boot \in 1..MaxBoots, NEW i \in DOMAIN Script
    PROVE  Item[boot][i] \in Seq(TaggedByte) /\ Whole(Item[boot][i])
<1> DEFINE n == Len(Encoded[i])
           s == Item[boot][i]
<1>1. n \in Nat \ {0}
  BY EncodedFact
<1>4. s \in Seq(TaggedByte) /\ Len(s) = n /\ \A o \in 1..n : s[o] = ByteOf(boot, i, o)
  BY ItemFact
<1> HIDE DEF s
<1>5. ASSUME NEW k \in 1..n PROVE WholeAt(s, k)
  <2>1. s[k] = ByteOf(boot, i, k)
    BY <1>4
  <2>2. /\ s[k].boot = boot /\ s[k].item = i /\ s[k].off = k /\ Size(s[k]) = n
    BY <2>1, ByteFact
  <2> HIDE DEF n
  <2>3. k <= k /\ k <= n /\ k - k + n <= Len(s)
    BY <1>1, <1>4
  <2>4. ASSUME NEW o \in 1..n PROVE s[k - k + o] = ByteOf(boot, i, o)
    <3>1. k - k + o = o
      BY <1>1
    <3> QED
      BY <1>4, <3>1
  <2>5. k \in 1..Len(s)
    BY <1>4
  <2>6. /\ s[k].off <= k /\ s[k].off <= Size(s[k])
        /\ k - s[k].off + Size(s[k]) <= Len(s)
        /\ \A o \in 1..Size(s[k]) : s[k - s[k].off + o] = ByteOf(s[k].boot, s[k].item, o)
    BY <2>2, <2>3, <2>4
  <2> QED
    BY <1>4, <2>5, <2>6, WholeAtFact
<1>6. Whole(s)
  BY <1>4, <1>5, WholeIntro
<1> QED
  BY <1>4, <1>6 DEF s

(***************************************************************************)
(* Types.                                                                  *)
(***************************************************************************)

\* What a step of a demo run does to the UART and to the proxy's input.
HostStep ==
    \/ UNCHANGED <<byteVars, inputVars>>
    \/ (Board \/ Transmit(mode # "closed") \/ ResetBoard) /\ UNCHANGED inputVars
    \/ OpenPort \/ ReadUart \/ RemoteCloses \/ ProxyGone

\* Each step is one of these.
LEMMA StepFact == [Next]_vars => HostStep
BY DEF Next, vars, BoardStep, Opens, ProxyStep, PeerStep, CliStep, ToolResets,
    NoTool, TraceStarts, Prepares, CtrlC, ButtonPressed, ChildStep, KillStep, Finished,
    HostStep, byteVars, inputVars

\* The types of the two modules about the UART, without those of EstCli.
HostTypeOK == BytesTypeOK /\ InputTypeOK

\* The steps of the board and of the UART keep the types.
LEMMA BoardTypes ==
    ASSUME HostTypeOK,
           Board \/ Transmit(mode # "closed") \/ ResetBoard, UNCHANGED inputVars
    PROVE  HostTypeOK'
<1>1. InputTypeOK /\ BytesTypeOK
  BY DEF HostTypeOK
<1>2. /\ boot \in 1..MaxBoots /\ step \in 1..(Len(Script) + 1)
      /\ tx \in Seq(TaggedByte) /\ pipe \in Seq(TaggedByte)
      /\ waiting \in BOOLEAN /\ session \in BOOLEAN
      /\ answer \in {"none", "OK", "ERR"}
  BY <1>1 DEF BytesTypeOK
<1>3. UNCHANGED <<mode, held, conn, delivered>>
  BY DEF inputVars
<1>4. ASSUME pipe' \in Seq(TaggedByte), mode = "closed" => pipe' = <<>>
      PROVE  InputTypeOK'
  BY <1>1, <1>3, <1>4 DEF InputTypeOK, HeldOK, Connected
<1>5. ASSUME NEW kind, Free(kind)
      PROVE  step \in DOMAIN Script /\ step' \in 1..(Len(Script) + 1)
  <2>1. DOMAIN Script = 1..Len(Script) /\ Len(Script) \in Nat
    BY BytesAssumption, SeqDomain
  <2> DEFINE n == Len(Script)
  <2>2. step \in 1..(n + 1) /\ step <= n /\ step' = step + 1 /\ n \in Nat
    BY <1>2, <1>5, <2>1 DEF Free
  <2> HIDE DEF n
  <2>3. step \in 1..n /\ step' \in 1..(n + 1)
    BY <2>2
  <2> QED
    BY <2>1, <2>3 DEF n
<1>6. <<>> \in Seq(TaggedByte)
  BY SeqNone
<1>7. CASE PrintLog
  <2>1. tx' \in Seq(TaggedByte) /\ step' \in 1..(Len(Script) + 1)
    BY <1>2, <1>5, <1>7, BytesFact DEF PrintLog
  <2>2. UNCHANGED <<boot, waiting, session, pipe, answer>>
    BY <1>7 DEF PrintLog
  <2> QED
    BY <1>1, <1>2, <1>4, <2>1, <2>2 DEF HostTypeOK, BytesTypeOK, InputTypeOK
<1>8. CASE SendCommand
  <2>1. tx' \in Seq(TaggedByte) /\ step' \in 1..(Len(Script) + 1)
    BY <1>2, <1>5, <1>8, BytesFact DEF SendCommand
  <2>2. UNCHANGED <<boot, pipe>> /\ waiting' = TRUE /\ session' = FALSE /\ answer' = "none"
    BY <1>8 DEF SendCommand
  <2> QED
    BY <1>1, <1>2, <1>4, <2>1, <2>2 DEF HostTypeOK, BytesTypeOK, InputTypeOK
<1>9. CASE SendData
  <2>1. tx' \in Seq(TaggedByte) /\ step' \in 1..(Len(Script) + 1)
    BY <1>2, <1>5, <1>6, <1>9, BytesFact DEF SendData
  <2>2. UNCHANGED <<boot, waiting, session, pipe, answer>>
    BY <1>9 DEF SendData
  <2> QED
    BY <1>1, <1>2, <1>4, <2>1, <2>2 DEF HostTypeOK, BytesTypeOK, InputTypeOK
<1>10. CASE TakeAnswer \/ ReplyTimeout \/ EndSession
  <2>1. UNCHANGED <<boot, step, tx, pipe>>
    BY <1>10 DEF TakeAnswer, ReplyTimeout, EndSession
  <2>2. waiting' \in BOOLEAN /\ session' \in BOOLEAN /\ answer' \in {"none", "OK", "ERR"}
    BY <1>2, <1>10 DEF TakeAnswer, ReplyTimeout, EndSession
  <2> QED
    BY <1>1, <1>2, <1>4, <2>1, <2>2 DEF HostTypeOK, BytesTypeOK, InputTypeOK
<1>11. CASE Transmit(mode # "closed")
  <2>1. tx # <<>> /\ UNCHANGED <<boot, step, waiting, session, answer>> /\ tx' = Tail(tx)
        /\ pipe' = IF mode # "closed" THEN Append(pipe, Head(tx)) ELSE pipe
    BY <1>11 DEF Transmit
  <2>2. tx' \in Seq(TaggedByte) /\ Head(tx) \in TaggedByte
    BY <1>2, <2>1, SeqTail
  <2>3. pipe' \in Seq(TaggedByte)
    BY <1>2, <2>1, <2>2, SeqAppend
  <2>4. mode = "closed" => pipe' = <<>>
    BY <1>1, <2>1 DEF InputTypeOK
  <2> QED
    BY <1>1, <1>2, <1>4, <2>1, <2>2, <2>3, <2>4 DEF HostTypeOK, BytesTypeOK
<1>12. CASE ResetBoard
  <2>1. UNCHANGED pipe /\ boot < MaxBoots /\ boot' = boot + 1 /\ step' = 1 /\ tx' = <<>>
        /\ waiting' = FALSE /\ session' = FALSE /\ answer' = "none"
    BY <1>12 DEF ResetBoard
  <2>2. boot' \in 1..MaxBoots
    BY <1>2, <2>1, BytesAssumption
  <2>3. step' \in 1..(Len(Script) + 1)
    <3> DEFINE n == Len(Script)
    <3>1. n \in Nat
      BY BytesAssumption, SeqDomain
    <3> HIDE DEF n
    <3>2. step' \in 1..(n + 1)
      BY <2>1, <3>1
    <3> QED
      BY <3>2 DEF n
  <2> QED
    BY <1>1, <1>2, <1>4, <1>6, <2>1, <2>2, <2>3 DEF HostTypeOK, BytesTypeOK, InputTypeOK
<1> QED
  BY <1>7, <1>8, <1>9, <1>10, <1>11, <1>12 DEF Board

\* The length of a frame, from its header.
LEMMA NeedFact ==
    ASSUME NEW h \in Seq(TaggedByte)
    PROVE  Need(h) \in Nat
<1> DEFINE n == Len(h)
<1>1. n \in Nat
  BY SeqDomain
<1>2. CASE n < 3
  BY <1>2 DEF Need, HeaderLen
<1>3. CASE n >= 3
  <2>1. 2 \in 1..n /\ 3 \in 1..n
    <3> HIDE DEF n
    <3> QED
      BY <1>1, <1>3
  <2>2. h[2] \in TaggedByte /\ h[3] \in TaggedByte
    BY SMTT(60), <2>1, SeqElt
  <2>3. h[2].val \in 0..255 /\ h[3].val \in 0..255
    BY <2>2 DEF TaggedByte, ByteValue
  <2>4. Need(h) = 3 + h[2].val * 256 + h[3].val
    <3> HIDE DEF n
    <3>1. ~(n < 3)
      BY <1>1, <1>3
    <3> QED
      BY <3>1 DEF Need, HeaderLen, n
  <2> DEFINE a == h[2].val
             b == h[3].val
             v == Need(h)
  <2>5. a \in 0..255 /\ b \in 0..255 /\ v = 3 + a * 256 + b
    BY <2>3, <2>4
  <2> HIDE DEF a, b, v
  <2>6. v \in Nat
    BY <2>5
  <2> QED
    BY <2>6 DEF v
<1> QED
  BY <1>1, <1>2, <1>3

\* What is missing of a frame.
LEMMA MissingInt ==
    ASSUME held \in Seq(TaggedByte)
    PROVE  Missing = Need(held) - Len(held) /\ Missing \in Int
<1> DEFINE m == Need(held)
           n == Len(held)
<1>1. m \in Nat /\ n \in Nat /\ Missing = m - n
  BY NeedFact, SeqDomain DEF Missing
<1> HIDE DEF m, n
<1>2. Missing = m - n /\ m - n \in Int
  BY <1>1
<1> QED
  BY <1>2 DEF m, n

\* How much ReadFrame takes is not more than there is.
LEMMA CutFact ==
    ASSUME held \in Seq(TaggedByte), pipe \in Seq(TaggedByte), ReadFrame
    PROVE  (IF Missing < Len(pipe) THEN Missing ELSE Len(pipe)) \in 0..Len(pipe)
<1> DEFINE m == Len(pipe)
           n == Missing
<1>1. n > 0 /\ n \in Int /\ m \in Nat
  BY SeqDomain, MissingInt DEF ReadFrame
<1> HIDE DEF m, n
<1>2. (IF n < m THEN n ELSE m) \in 0..m
  BY <1>1
<1> QED
  BY <1>2 DEF m, n

\* Leaving a frame or line keeps them,
LEMMA LoopTypes ==
    ASSUME HostTypeOK, BackToLoop, UNCHANGED boardVars,
           pipe' \in Seq(TaggedByte), delivered' \in Seq(TaggedByte),
           conn' \in [boot : 0..MaxBoots, item : 0..Len(Script)],
           answer' \in {"none", "OK", "ERR"}
    PROVE  HostTypeOK'
<1>1. BytesTypeOK'
  BY DEF HostTypeOK, BytesTypeOK, boardVars
<1>2. mode' = "loop" /\ held' = <<>>
  BY DEF BackToLoop
<1>3. held' \in Seq(TaggedByte)
  BY <1>2, SeqNone
<1>4. HeldOK'
  BY <1>2 DEF HeldOK
<1>5. InputTypeOK'
  BY <1>2, <1>3, <1>4 DEF InputTypeOK, ModeValues
<1> QED
  BY <1>1, <1>5 DEF HostTypeOK

\* Of a line that is served, the proxy holds what begins with its first C.
LEMMA ServeFact ==
    ASSUME HostTypeOK, Serve
    PROVE  /\ mode = "line" /\ mode' = "serve" /\ UNCHANGED <<boardVars, answer, pipe>>
           /\ held' \in Seq(TaggedByte) /\ held' # <<>>
           /\ \E k \in 1..Len(held) :
                 /\ IsC(held[k].val) /\ \A j \in 1..(k - 1) : ~IsC(held[j].val)
                 /\ Len(held') = Len(held) + 1 - k
                 /\ \A i \in 1..Len(held') : held'[i] = held[k + i - 1]
<1>1. /\ mode = "line" /\ mode' = "serve" /\ UNCHANGED <<boardVars, answer, pipe>>
      /\ held \in Seq(TaggedByte)
  BY DEF Serve, LineComplete, HostTypeOK, InputTypeOK
<1>2. Len(held) \in Nat /\ DOMAIN held = 1..Len(held)
  BY <1>1, SeqDomain
<1>3. PICK k \in 1..Len(held) :
         /\ IsC(held[k].val) /\ \A j \in 1..(k - 1) : ~IsC(held[j].val)
         /\ held' = SubSeq(held, k, Len(held))
  BY <1>2 DEF Serve
<1> DEFINE n == Len(held)
<1>4. n \in Nat /\ k \in Nat /\ k >= 1 /\ k <= n + 1 /\ n <= Len(held) /\ n + 1 - k >= 1
  BY <1>2
<1>5. /\ held' \in Seq(TaggedByte) /\ Len(held') = n + 1 - k
      /\ \A i \in 1..(n + 1 - k) : held'[i] = held[k + i - 1]
  <2> HIDE DEF n
  <2>1. n = Len(held)
    BY DEF n
  <2> QED
    BY <1>1, <1>3, <1>4, <2>1, SeqSegment
<1>6. held' # <<>>
  <2>1. Len(held') # 0
    BY <1>4, <1>5
  <2> QED
    BY <1>5, <2>1, SeqEmpty
<1> QED
  BY <1>1, <1>3, <1>5, <1>6

\* and so do the other steps of the proxy.
LEMMA ProxyTypes ==
    ASSUME HostTypeOK, OpenPort \/ ReadUart \/ RemoteCloses \/ ProxyGone
    PROVE  HostTypeOK'
<1>1. /\ mode \in ModeValues
      /\ held \in Seq(TaggedByte) /\ delivered \in Seq(TaggedByte)
      /\ conn \in [boot : 0..MaxBoots, item : 0..Len(Script)]
      /\ mode \in {"closed", "serve"} => ~Connected
      /\ HeldOK
  BY DEF HostTypeOK, InputTypeOK
<1>2. pipe \in Seq(TaggedByte) /\ answer \in {"none", "OK", "ERR"} /\ BytesTypeOK
  BY DEF HostTypeOK, BytesTypeOK
<1>3. <<>> \in Seq(TaggedByte)
  BY SeqNone
<1>4. MaxBoots \in Nat /\ Len(Script) \in Nat /\ DOMAIN Script = 1..Len(Script)
  BY BytesAssumption, SeqDomain
<1>5. NoConn \in [boot : 0..MaxBoots, item : 0..Len(Script)]
  <2> DEFINE n == Len(Script)
  <2>1. 0 \in 0..n /\ 0 \in 0..MaxBoots
    <3>1. n \in Nat
      BY <1>4
    <3> HIDE DEF n
    <3> QED
      BY <1>4, <3>1
  <2> HIDE DEF n
  <2>2. NoConn \in [boot : 0..MaxBoots, item : 0..n]
    BY <2>1 DEF NoConn
  <2> QED
    BY <2>2 DEF n
<1>6. ASSUME UNCHANGED boardVars, pipe' \in Seq(TaggedByte),
             answer' \in {"none", "OK", "ERR"}
      PROVE  BytesTypeOK'
  BY <1>2, <1>6 DEF BytesTypeOK, boardVars
<1>7. CASE OpenPort \/ NothingClosed \/ IgnoreLine \/ RejectLine \/ Fetches \/ Fails
  <2>1. BackToLoop /\ UNCHANGED <<boardVars, conn, delivered>>
        /\ (pipe' = pipe \/ pipe' = <<>>) /\ answer' \in {answer, "OK", "ERR"}
    BY <1>7 DEF OpenPort, NothingClosed, IgnoreLine, RejectLine, Fetches, Fails, KeepSocket
  <2> QED
    BY <1>1, <1>2, <1>3, <2>1, LoopTypes
<1>8. CASE FrameTimeout \/ RemoteCloses
  <2>1. BackToLoop /\ CloseSocket /\ UNCHANGED <<boardVars, pipe, answer>>
    BY <1>8 DEF FrameTimeout, RemoteCloses
  <2> QED
    BY <1>2, <1>3, <1>5, <2>1, LoopTypes DEF CloseSocket
<1>9. CASE HandleFrame
  <2>1. BackToLoop /\ UNCHANGED <<boardVars, pipe, answer>> /\ Len(held) >= 3
    BY <1>9 DEF HandleFrame, HeaderLen
  <2>2. SubSeq(held, 4, Len(held)) \in Seq(TaggedByte)
    <3> DEFINE n == Len(held)
    <3>1. n \in Nat /\ n >= 3
      BY <1>1, <2>1, SeqDomain
    <3> HIDE DEF n
    <3>2. 4 \in Nat /\ 4 >= 1 /\ n <= n /\ 4 <= n + 1
      BY <3>1
    <3>3. n = Len(held)
      BY DEF n
    <3>4. n <= Len(held)
      BY <3>2, <3>3
    <3> QED
      BY <1>1, <3>1, <3>2, <3>4, SeqSegment DEF n
  <2>3. delivered \o SubSeq(held, 4, Len(held)) \in Seq(TaggedByte)
    <3> DEFINE r == SubSeq(held, 4, Len(held))
    <3> HIDE DEF r
    <3>1. r \in Seq(TaggedByte)
      BY <2>2 DEF r
    <3>2. delivered \o r \in Seq(TaggedByte)
      BY <1>1, <3>1, SeqConcat
    <3> QED
      BY <3>2 DEF r
  <2>4. \/ UNCHANGED <<conn, delivered>>
        \/ UNCHANGED conn /\ delivered' = delivered \o SubSeq(held, 4, Len(held))
        \/ conn' = NoConn /\ delivered' = <<>>
    <3>1. HeaderLen + 1 = 4
      BY DEF HeaderLen
    <3> QED
      BY <1>9, <3>1 DEF HandleFrame, KeepSocket, CloseSocket
  <2>5. delivered' \in Seq(TaggedByte) /\ conn' \in [boot : 0..MaxBoots, item : 0..Len(Script)]
    BY <1>1, <1>3, <1>5, <2>3, <2>4
  <2> QED
    BY <1>2, <2>1, <2>5, LoopTypes
<1>10. CASE Connects
  <2>1. /\ BackToLoop /\ UNCHANGED <<boardVars, pipe, delivered>> /\ answer' = "OK"
        /\ conn' = [boot |-> held[1].boot, item |-> held[1].item] /\ mode = "serve"
    BY <1>10 DEF Connects, Serves
  <2>2. held # <<>>
    BY <1>1, <2>1 DEF HeldOK
  <2>3. held[1] \in TaggedByte
    BY <1>1, <2>2, SeqTail
  <2>4. held[1].boot \in 1..MaxBoots /\ held[1].item \in DOMAIN Script
    BY <2>3, ByteType
  <2>5. held[1].boot \in 0..MaxBoots /\ held[1].item \in 0..Len(Script)
    <3> DEFINE n == Len(Script)
               i == held[1].item
               b == held[1].boot
    <3>1. n \in Nat /\ i \in 1..n /\ b \in 1..MaxBoots
      BY <1>4, <2>4
    <3> HIDE DEF n, i, b
    <3>2. i \in 0..n /\ b \in 0..MaxBoots
      BY <1>4, <3>1
    <3> QED
      BY <3>2 DEF n, i, b
  <2>6. conn' \in [boot : 0..MaxBoots, item : 0..Len(Script)]
    BY <2>1, <2>5
  <2> QED
    BY <1>1, <1>2, <2>1, <2>6, LoopTypes
<1>11. CASE ProxyGone
  <2>1. /\ mode' = "closed" /\ held' = <<>> /\ pipe' = <<>> /\ conn' = NoConn
        /\ delivered' = <<>> /\ UNCHANGED <<boardVars, answer>>
    BY <1>11 DEF ProxyGone, ClosePort, CloseSocket
  <2>2. HeldOK'
    BY <2>1 DEF HeldOK
  <2>3. InputTypeOK'
    BY <1>3, <1>5, <2>1, <2>2 DEF InputTypeOK, ModeValues, Connected
  <2> QED
    BY <1>2, <1>3, <1>6, <2>1, <2>3 DEF HostTypeOK
<1>12. CASE FrameStarts \/ LineStarts
  <2>1. /\ \/ mode' = "frame" /\ IsFrame(First.val)
           \/ mode' = "line" /\ ~IsFrame(First.val)
        /\ pipe # <<>> /\ held' = <<First>> /\ pipe' = Tail(pipe)
        /\ UNCHANGED <<boardVars, answer, conn, delivered>>
    <3>1. CASE FrameStarts
      BY <3>1 DEF FrameStarts, ReadFirst, KeepSocket
    <3>2. CASE LineStarts
      BY <3>2 DEF LineStarts, ReadFirst, KeepSocket
    <3> QED
      BY <1>12, <3>1, <3>2
  <2>2. First \in TaggedByte /\ pipe' \in Seq(TaggedByte)
    BY <1>2, <2>1, SeqTail DEF First
  <2>3. held' \in Seq(TaggedByte) /\ Len(held') = 1 /\ held'[1] = First /\ held' # <<>>
    BY <2>1, <2>2, SeqSmall, SeqEmpty
  <2>4. HeldOK'
    BY <2>1, <2>3 DEF HeldOK
  <2>5. InputTypeOK'
    BY <1>1, <2>1, <2>3, <2>4 DEF InputTypeOK, ModeValues, Connected
  <2> QED
    BY <1>2, <1>6, <2>1, <2>2, <2>5 DEF HostTypeOK
<1>13. ASSUME NEW n \in 1..Len(pipe), RawBytes(n) PROVE HostTypeOK'
  <2>1. /\ pipe' = SubSeq(pipe, n + 1, Len(pipe)) /\ mode = "loop"
        /\ \/ /\ delivered' = delivered \o SubSeq(pipe, 1, n) /\ mode' = "recv"
              /\ UNCHANGED <<conn, held>>
           \/ conn' = NoConn /\ delivered' = <<>> /\ UNCHANGED <<mode, held>>
        /\ UNCHANGED <<boardVars, answer>>
    BY <1>13 DEF RawBytes, CloseSocket
  <2> DEFINE a == SubSeq(pipe, 1, n)
             r == SubSeq(pipe, n + 1, Len(pipe))
  <2>2. a \in Seq(TaggedByte) /\ r \in Seq(TaggedByte)
    <3>1. n \in 0..Len(pipe)
      BY <1>13
    <3> QED
      BY <1>2, <3>1, SeqCut
  <2> HIDE DEF a, r
  <2>3. pipe' = r /\ (delivered' = delivered \o a \/ delivered' = <<>>)
    BY <2>1 DEF a, r
  <2>4. delivered' \in Seq(TaggedByte)
    BY <1>1, <1>3, <2>2, <2>3, SeqConcat
  <2>5. held = <<>> /\ held' = held /\ mode' \in {"loop", "recv"}
    BY <1>1, <2>1 DEF HeldOK
  <2>6. HeldOK'
    BY <2>5 DEF HeldOK
  <2>7. conn' \in [boot : 0..MaxBoots, item : 0..Len(Script)]
    BY <1>1, <1>5, <2>1
  <2>8. InputTypeOK'
    BY <1>1, <2>4, <2>5, <2>6, <2>7 DEF InputTypeOK, ModeValues
  <2> QED
    BY <1>2, <1>6, <2>1, <2>2, <2>3, <2>8 DEF HostTypeOK
<1>14. CASE ReadFrame
  <2> DEFINE n == IF Missing < Len(pipe) THEN Missing ELSE Len(pipe)
             a == SubSeq(pipe, 1, n)
             r == SubSeq(pipe, n + 1, Len(pipe))
  <2>1. /\ mode = "frame" /\ mode' = "frame" /\ held' = held \o a /\ pipe' = r
        /\ UNCHANGED <<boardVars, answer, conn, delivered>>
    BY <1>14 DEF ReadFrame, KeepSocket
  <2>2. n \in 0..Len(pipe)
    BY <1>1, <1>2, <1>14, CutFact
  <2>3. a \in Seq(TaggedByte) /\ r \in Seq(TaggedByte)
    <3> HIDE DEF n
    <3> QED
      BY <1>2, <2>2, SeqCut
  <2> HIDE DEF a, r, n
  <2>4. held # <<>> /\ IsFrame(held[1].val)
    BY <1>1, <2>1 DEF HeldOK
  <2>5. held' \in Seq(TaggedByte) /\ held'[1] = held[1] /\ held' # <<>>
    BY <1>1, <2>1, <2>3, <2>4, SeqLonger
  <2>6. HeldOK'
    BY <2>1, <2>4, <2>5 DEF HeldOK
  <2>7. InputTypeOK'
    BY <1>1, <2>1, <2>5, <2>6 DEF InputTypeOK, ModeValues
  <2> QED
    BY <1>2, <1>6, <2>1, <2>3, <2>7 DEF HostTypeOK
<1>15. CASE ReadLine
  <2> DEFINE n == Len(held)
             h == Append(held, First)
  <2>1. /\ mode = "line" /\ mode' = "line" /\ held' = h
        /\ pipe # <<>> /\ pipe' = Tail(pipe) /\ ~(n > 1 /\ held[n].val = LF)
        /\ UNCHANGED <<boardVars, answer, conn, delivered>>
    BY <1>15 DEF ReadLine, KeepSocket, LineEnded
  <2>2. First \in TaggedByte /\ pipe' \in Seq(TaggedByte)
    BY <1>2, <2>1, SeqTail DEF First
  <2>3. /\ h \in Seq(TaggedByte) /\ Len(h) = n + 1 /\ \A i \in 1..n : h[i] = held[i]
    BY <1>1, <2>2, SeqAppend
  <2>4. /\ held # <<>> /\ ~IsFrame(held[1].val)
        /\ \A k \in 2..(n - 1) : held[k].val # LF
    BY <1>1, <2>1 DEF HeldOK
  <2>5. n \in Nat \ {0}
    BY <1>1, <2>4, SeqTail
  <2> HIDE DEF n, h
  <2>6. h # <<>> /\ ~IsFrame(h[1].val)
    <3>1. Len(h) # 0
      BY <2>3, <2>5
    <3>2. h[1] = held[1]
      BY <2>3, <2>5
    <3> QED
      BY <2>3, <2>4, <3>1, <3>2, SeqEmpty
  <2>7. ASSUME NEW k \in 2..(Len(h) - 1) PROVE h[k].val # LF
    <3>1. k \in 2..n /\ k \in 1..n /\ h[k] = held[k]
      BY <2>3, <2>5
    <3>2. CASE k = n
      BY <2>1, <2>5, <3>1, <3>2
    <3>3. CASE k # n
      <4>1. k \in 2..(n - 1)
        BY <2>5, <3>1, <3>3
      <4> QED
        BY <2>4, <3>1, <4>1
    <3> QED
      BY <3>2, <3>3
  <2>8. HeldOK'
    BY <2>1, <2>6, <2>7 DEF HeldOK
  <2>9. InputTypeOK'
    BY <1>1, <2>1, <2>3, <2>8 DEF InputTypeOK, ModeValues
  <2> QED
    BY <1>2, <1>6, <2>1, <2>2, <2>9 DEF HostTypeOK
<1>16. CASE ServeLine
  <2>1. mode' = "serve" /\ conn' = NoConn /\ delivered' = <<>> /\ UNCHANGED <<boardVars, answer, pipe>>
    BY <1>16, ServeFact DEF ServeLine, CloseSocket
  <2>3. held' \in Seq(TaggedByte) /\ held' # <<>>
    BY <1>16, ServeFact DEF ServeLine
  <2>4. HeldOK'
    BY <2>1, <2>3 DEF HeldOK
  <2>5. InputTypeOK'
    BY <1>3, <1>5, <2>1, <2>3, <2>4 DEF InputTypeOK, ModeValues, Connected
  <2> QED
    BY <1>2, <1>6, <2>1, <2>5 DEF HostTypeOK
<1> QED
  BY <1>7, <1>8, <1>9, <1>10, <1>11, <1>12, <1>13, <1>14, <1>15, <1>16 DEF ReadUart

\* The types are kept by every step of a demo run.
LEMMA HostTypesStep ==
    ASSUME HostTypeOK, [Next]_vars
    PROVE  HostTypeOK'
<1>1. HostStep
  BY StepFact
<1>2. CASE UNCHANGED <<byteVars, inputVars>>
  BY <1>2 DEF byteVars, boardVars, inputVars, HostTypeOK, BytesTypeOK, InputTypeOK, HeldOK,
      Connected
<1> QED
  BY <1>1, <1>2, BoardTypes, ProxyTypes DEF HostStep

\* All variables of a demo run have their types, for every script, any bounds and
\* all choices of programs and switches; what is held of a frame or a line is the
\* beginning of one, and the proxy is connected only while its port is open.
THEOREM HostTypeCorrect == Spec => []TypeOK
<1>1. Init => HostTypeOK /\ CliInv
  <2>1. Init => CliInv
    BY CliInvInit
  <2>2. ASSUME BytesInit, InputInit PROVE HostTypeOK
    <3>1. <<>> \in Seq(TaggedByte)
      BY SeqNone
    <3>2. MaxBoots \in Nat \ {0} /\ Len(Script) \in Nat
      BY BytesAssumption, SeqDomain
    <3>3. 1 \in 1..(Len(Script) + 1) /\ 0 \in 0..Len(Script)
      <4> DEFINE n == Len(Script)
      <4>1. n \in Nat
        BY <3>2
      <4> HIDE DEF n
      <4>2. 1 \in 1..(n + 1) /\ 0 \in 0..n
        BY <4>1
      <4> QED
        BY <4>2 DEF n
    <3>4. 1 \in 1..MaxBoots /\ 0 \in 0..MaxBoots
      BY <3>2
    <3>5. BytesTypeOK
      BY <2>2, <3>1, <3>3, <3>4 DEF BytesInit, BytesTypeOK
    <3>6. HeldOK
      BY <2>2 DEF InputInit, HeldOK
    <3>7. conn \in [boot : 0..MaxBoots, item : 0..Len(Script)]
      BY <2>2, <3>3, <3>4 DEF InputInit, NoConn
    <3>8. InputTypeOK
      BY <2>2, <3>1, <3>6, <3>7 DEF BytesInit, InputInit, InputTypeOK, ModeValues, Connected
    <3> QED
      BY <3>5, <3>8 DEF HostTypeOK
  <2> QED
    BY <2>1, <2>2 DEF Init
<1>2. HostTypeOK /\ CliInv /\ [Next]_vars => (HostTypeOK /\ CliInv)'
  BY HostTypesStep, CliInvStep
<1>3. HostTypeOK /\ CliInv => TypeOK
  BY DEF HostTypeOK, CliInv, TypeOK
<1> QED
  BY <1>1, <1>2, <1>3, PTL DEF Spec

(***************************************************************************)
(* In step.                                                                *)
(***************************************************************************)

\* What the proxy has read of a frame or a line.
Held == IF mode = "serve" THEN <<>> ELSE held

\* What has not been dealt with is a sequence of bytes.
LEMMA UnparsedType ==
    ASSUME HostTypeOK
    PROVE  /\ Held \in Seq(TaggedByte) /\ pipe \in Seq(TaggedByte) /\ tx \in Seq(TaggedByte)
           /\ pipe \o tx \in Seq(TaggedByte)
           /\ Unparsed \in Seq(TaggedByte) /\ Unparsed = (Held \o pipe) \o tx
           /\ Unparsed = Held \o (pipe \o tx)
           /\ (<<>> \o pipe) \o tx = pipe \o tx
<1>1. held \in Seq(TaggedByte) /\ pipe \in Seq(TaggedByte) /\ tx \in Seq(TaggedByte)
  BY DEF HostTypeOK, BytesTypeOK, InputTypeOK
<1>2. Held \in Seq(TaggedByte)
  BY <1>1, SeqNone DEF Held
<1>3. Unparsed = (Held \o pipe) \o tx
  BY DEF Unparsed, Held
<1>4. Held \o pipe \in Seq(TaggedByte)
  BY <1>1, <1>2, SeqConcat
<1>5. (Held \o pipe) \o tx \in Seq(TaggedByte)
  BY <1>1, <1>4, SeqConcat
<1>6. pipe \o tx \in Seq(TaggedByte)
  BY <1>1, SeqConcat
<1>7. (Held \o pipe) \o tx = Held \o (pipe \o tx)
  BY SMTT(60), <1>1, <1>2, SeqAssoc
<1>8. <<>> \o pipe = pipe
  BY <1>1, SeqUnit
<1> QED
  BY <1>1, <1>2, <1>3, <1>5, <1>6, <1>7, <1>8

\* The beginning of the frame or line that is being read.
LEMMA HeldFirst ==
    ASSUME HostTypeOK, mode \in {"frame", "line"}
    PROVE  /\ Held = held /\ held \in Seq(TaggedByte) /\ Len(held) \in Nat \ {0}
           /\ Len(Unparsed) = Len(held) + (Len(pipe) + Len(tx))
           /\ \A i \in 1..Len(held) : Unparsed[i] = held[i]
<1> DEFINE y == pipe \o tx
           u == Unparsed
<1>1. Held = held /\ held \in Seq(TaggedByte) /\ held # <<>>
  BY DEF Held, HostTypeOK, InputTypeOK, HeldOK
<1>2. u = held \o y /\ y \in Seq(TaggedByte)
        /\ pipe \in Seq(TaggedByte) /\ tx \in Seq(TaggedByte)
  BY <1>1, UnparsedType
<1>3. Len(y) = Len(pipe) + Len(tx)
  BY <1>2, SeqConcat
<1>4. Len(held) \in Nat \ {0}
  BY <1>1, SeqTail
<1> HIDE DEF y, u
<1>5. Len(u) = Len(held) + Len(y) /\ \A i \in 1..Len(held) : u[i] = held[i]
  BY <1>1, <1>2, SeqConcat
<1> QED
  BY <1>1, <1>3, <1>4, <1>5 DEF u

\* In step, it is the beginning of an item, and the rest of the item is there.
LEMMA FirstItem ==
    ASSUME HostTypeOK, InStep, mode \in {"frame", "line"}
    PROVE  /\ held[1] = Unparsed[1] /\ held[1] \in TaggedByte
           /\ Size(held[1]) \in Nat \ {0}
           /\ Size(held[1]) <= Len(held) + (Len(pipe) + Len(tx))
           /\ \A o \in 1..Size(held[1]) :
                 o <= Len(held) => held[o].val = Encoded[held[1].item][o]
<1> DEFINE u == Unparsed
           n == Len(held)
           m == Len(u)
           b == held[1]
<1>1. /\ n \in Nat \ {0} /\ m = n + (Len(pipe) + Len(tx))
      /\ \A i \in 1..n : u[i] = held[i]
  BY HeldFirst
<1>2. u \in Seq(TaggedByte) /\ Whole(u)
  BY UnparsedType DEF InStep
<1>3. m \in Nat
  BY <1>2, SeqDomain
<1>4. Len(pipe) \in Nat /\ Len(tx) \in Nat
  BY UnparsedType, SeqDomain
<1>5. m > 0
  <2> DEFINE a == Len(pipe)
             c == Len(tx)
  <2>1. a \in Nat /\ c \in Nat /\ m = n + (a + c)
    BY <1>1, <1>4
  <2> HIDE DEF a, c, m, n
  <2> QED
    BY <1>1, <2>1
<1>6. u[1] = b
  <2> HIDE DEF n, u, b
  <2>1. 1 \in 1..n
    BY <1>1
  <2> QED
    BY <1>1, <2>1 DEF b
<1>7. /\ u[1] \in TaggedByte /\ Size(u[1]) <= m
      /\ \A o \in 1..Size(u[1]) : u[o] = ByteOf(u[1].boot, u[1].item, o)
  BY <1>2, <1>5, WholeFirst
<1> HIDE DEF u, b, n, m
<1>8. b \in TaggedByte /\ Size(b) <= m
      /\ \A o \in 1..Size(b) : u[o] = ByteOf(b.boot, b.item, o)
  BY <1>6, <1>7
<1>9. Size(b) \in Nat \ {0}
  BY <1>8, ByteType
<1>10. ASSUME NEW o \in 1..Size(b), o <= n PROVE held[o].val = Encoded[b.item][o]
  <2>1. o \in 1..n
    BY <1>1, <1>9, <1>10
  <2>2. held[o] = ByteOf(b.boot, b.item, o)
    BY <1>1, <1>8, <2>1
  <2> QED
    BY <2>2, ByteFact
<1> QED
  BY <1>1, <1>6, <1>8, <1>9, <1>10 DEF u, b, n, m

\* The bytes that begin a line do not begin a frame.
LEMMA FirstBytes == \A v : IsC(v) => ~IsFrame(v)
BY DEF IsC, IsFrame, UART_FRAME_LOG, UART_FRAME_DATA

\* In step, the length the proxy has read is the length of the item.
LEMMA FrameSize ==
    ASSUME HostTypeOK, InStep, mode = "frame"
    PROVE  /\ Len(held) >= 3 => Need(held) = Size(held[1])
           /\ Size(held[1]) >= 3
<1> DEFINE b == held[1]
           e == Encoded[b.item]
           n == Len(held)
<1>1. /\ b \in TaggedByte /\ Size(b) \in Nat \ {0}
      /\ \A o \in 1..Size(b) : o <= n => held[o].val = e[o]
  BY FirstItem
<1>2. n \in Nat \ {0}
  BY HeldFirst
<1>3. IsFrame(b.val)
  BY DEF HostTypeOK, InputTypeOK, HeldOK
<1>4. b.val = e[1]
  <2>1. 1 \in 1..Size(b) /\ 1 <= n
    <3> DEFINE z == Size(b)
    <3>1. z \in Nat \ {0}
      BY <1>1
    <3> HIDE DEF z, n
    <3>2. 1 \in 1..z /\ 1 <= n
      BY <1>2, <3>1
    <3> QED
      BY <3>2 DEF z
  <2> QED
    BY <1>1, <2>1
<1>5. b.item \in DOMAIN Script
  BY <1>1, ByteType
<1>6. Size(b) = Len(e)
  BY DEF Size
<1>7. Script[b.item].kind # "line"
  BY <1>3, <1>4, <1>5, EncodedFact, FirstBytes
<1>8. Len(e) >= 3 /\ Len(e) = 3 + (e[2] * 256 + e[3])
  BY <1>5, <1>7, EncodedFact
<1>9. e[2] \in 0..255 /\ e[3] \in 0..255
  <2>1. e \in Seq(ByteValue) /\ Len(e) \in Nat
    BY <1>5, EncodedFact
  <2> HIDE DEF e
  <2>2. 2 \in 1..Len(e) /\ 3 \in 1..Len(e)
    BY <1>8, <2>1
  <2>3. e[2] \in ByteValue /\ e[3] \in ByteValue
    BY <2>1, <2>2, SeqElt
  <2> QED
    BY <2>3 DEF ByteValue
<1>10. ASSUME n >= 3 PROVE Need(held) = Size(b)
  <2>1. 2 \in 1..Size(b) /\ 3 \in 1..Size(b) /\ 2 <= n /\ 3 <= n /\ ~(n < 3)
    <3> DEFINE z == Size(b)
    <3>1. z \in Nat \ {0} /\ z >= 3
      BY <1>1, <1>6, <1>8
    <3> HIDE DEF z, n
    <3>2. 2 \in 1..z /\ 3 \in 1..z /\ 2 <= n /\ 3 <= n /\ ~(n < 3)
      BY <1>2, <1>10, <3>1
    <3> QED
      BY <3>2 DEF z
  <2>2. held[2].val = e[2] /\ held[3].val = e[3]
    BY <1>1, <2>1
  <2>3. Need(held) = 3 + held[2].val * 256 + held[3].val
    BY SMTT(60), <2>1 DEF Need, HeaderLen, n
  <2> DEFINE x == e[2]
             y == e[3]
             z == Len(e)
             v == Need(held)
  <2>4. /\ v = 3 + x * 256 + y /\ z = 3 + (x * 256 + y) /\ x \in 0..255 /\ y \in 0..255
    BY ZenonT(60), <1>8, <1>9, <2>2, <2>3
  <2> HIDE DEF x, y, z, v
  <2>5. v = z
    BY <2>4
  <2> QED
    BY <1>6, <2>5 DEF z, v
<1> QED
  BY <1>6, <1>8, <1>10 DEF b, n

\* In step, a line that is complete is one that the board sent.
LEMMA LineSize ==
    ASSUME HostTypeOK, InStep, LineComplete
    PROVE  Size(held[1]) = Len(held) /\ Kind(held[1]) = "line"
<1> DEFINE b == held[1]
           e == Encoded[b.item]
           n == Len(held)
           z == Size(b)
           a == Len(pipe)
           c == Len(tx)
<1>0. mode = "line"
  BY DEF LineComplete
<1>1. /\ b \in TaggedByte /\ z \in Nat \ {0} /\ z <= n + (a + c)
      /\ \A o \in 1..z : o <= n => held[o].val = e[o]
  BY <1>0, FirstItem
<1>2. n \in Nat \ {0}
  BY <1>0, HeldFirst
<1>3. ~IsFrame(b.val) /\ \A k \in 2..(n - 1) : held[k].val # LF
  BY <1>0 DEF HostTypeOK, InputTypeOK, HeldOK
<1>5. b.val = e[1]
  <2>1. 1 \in 1..z /\ 1 <= n
    <3> HIDE DEF z, n
    <3> QED
      BY <1>1, <1>2
  <2> QED
    BY <1>1, <2>1
<1>6. b.item \in DOMAIN Script /\ z = Len(e)
  BY <1>1, ByteType DEF Size
<1>7. Script[b.item].kind = "line"
  BY <1>3, <1>5, <1>6, EncodedFact
<1>8. Len(e) > 1 /\ \A k \in 1..Len(e) : e[k] = LF <=> k = Len(e)
  BY <1>6, <1>7, EncodedFact
<1>9. Silence => a = 0 /\ c = 0
  BY SeqNone DEF Silence
<1>10. LineEnded => held[n].val = LF
  BY DEF LineEnded
<1>11. LineEnded \/ Silence
  BY DEF LineComplete
<1> HIDE DEF b, e, n, z, a, c
<1>12. z > 1 /\ \A k \in 1..z : e[k] = LF <=> k = z
  BY <1>6, <1>8
<1>13. CASE n < z
  <2>1. ~Silence
    BY <1>1, <1>2, <1>9, <1>13
  <2>2. n \in 1..z /\ n <= n
    BY <1>1, <1>2, <1>13
  <2>3. held[n].val = e[n] /\ held[n].val = LF
    BY <1>1, <1>10, <1>11, <2>1, <2>2
  <2>4. n = z
    BY <1>12, <2>2, <2>3
  <2> QED
    BY <1>7, <2>4 DEF b, n, z, Kind
<1>14. CASE z < n
  <2>1. z \in 1..z /\ z <= n /\ z \in 2..(n - 1)
    BY <1>1, <1>2, <1>12, <1>14
  <2>2. held[z].val = e[z] /\ e[z] = LF
    BY <1>1, <1>12, <2>1
  <2> QED
    BY <1>3, <2>1, <2>2
<1>15. CASE n = z
  BY <1>7, <1>15 DEF b, n, z, Kind
<1> QED
  BY <1>1, <1>2, <1>13, <1>14, <1>15

\* When the item that was read is gone, what is left is whole.
LEMMA DropHeld ==
    ASSUME HostTypeOK, InStep, mode \in {"frame", "line"}, Size(held[1]) = Len(held)
    PROVE  Whole(pipe \o tx)
<1> DEFINE u == Unparsed
           y == pipe \o tx
<1>1. u = held \o y /\ held \in Seq(TaggedByte) /\ y \in Seq(TaggedByte)
        /\ u \in Seq(TaggedByte) /\ Whole(u)
  BY UnparsedType, HeldFirst DEF InStep
<1>2. u[1] = held[1]
  BY FirstItem
<1>3. Len(u) > 0
  <2> DEFINE m == Len(u)
             n == Len(held)
             a == Len(pipe)
             c == Len(tx)
  <2>1. n \in Nat \ {0} /\ m = n + (a + c)
    BY HeldFirst
  <2>2. a \in Nat /\ c \in Nat
    BY UnparsedType, SeqDomain
  <2> HIDE DEF m, n, a, c
  <2>3. m > 0
    BY <2>1, <2>2
  <2> QED
    BY <2>3 DEF m
<1> HIDE DEF u, y
<1>4. Whole(SubSeq(u, Len(held) + 1, Len(u)))
  BY <1>1, <1>2, <1>3, WholeRest
<1>5. SubSeq(held \o y, Len(held) + 1, Len(held \o y)) = y
  BY <1>1, SeqWithout
<1>6. Whole(y)
  BY <1>1, <1>4, <1>5
<1> QED
  BY <1>6 DEF y

\* What the board and the UART do leaves the proxy in step, unless a reset cuts
\* off an item.
LEMMA BoardInStep ==
    ASSUME HostTypeOK, InStep, UNCHANGED inputVars,
           Board \/ Transmit(mode # "closed") \/ ResetBoard,
           ~(boot' # boot /\ tx # <<>>)
    PROVE  InStep'
<1>1. mode # "closed" /\ Whole(Unparsed)
  BY DEF InStep
<1>2. UNCHANGED <<mode, held>> /\ Held' = Held /\ mode' # "closed"
  BY <1>1 DEF inputVars, Held
<1>3. /\ Held \in Seq(TaggedByte) /\ pipe \in Seq(TaggedByte) /\ tx \in Seq(TaggedByte)
      /\ Unparsed \in Seq(TaggedByte) /\ Unparsed = (Held \o pipe) \o tx
      /\ Held \o pipe \in Seq(TaggedByte)
  BY UnparsedType, SeqConcat
<1>4. Unparsed' = (Held' \o pipe') \o tx'
  BY DEF Unparsed, Held
<1>5. ASSUME UNCHANGED <<pipe, tx>> PROVE InStep'
  BY <1>1, <1>2, <1>3, <1>4, <1>5 DEF InStep
<1>6. ASSUME tx = <<>>, tx' \in Seq(TaggedByte), Whole(tx'), pipe' = pipe PROVE InStep'
  <2> DEFINE a == Held \o pipe
  <2>1. a \o <<>> = a
    BY <1>3, SeqUnit
  <2>2. a \in Seq(TaggedByte) /\ Whole(a)
    BY <1>1, <1>3, <1>6, <2>1
  <2> HIDE DEF a
  <2>3. Whole(a \o tx')
    BY <1>6, <2>2, WholeConcat
  <2>4. Unparsed' = a \o tx'
    BY <1>2, <1>4, <1>6 DEF a
  <2> QED
    BY <1>2, <2>3, <2>4 DEF InStep
<1>7. ASSUME NEW kind, Free(kind) PROVE tx = <<>> /\ step \in DOMAIN Script
  <2>1. DOMAIN Script = 1..Len(Script) /\ Len(Script) \in Nat
    BY BytesAssumption, SeqDomain
  <2>2. step \in 1..(Len(Script) + 1)
    BY DEF HostTypeOK, BytesTypeOK
  <2> DEFINE n == Len(Script)
  <2>3. step \in 1..(n + 1) /\ step <= n /\ n \in Nat
    BY <1>7, <2>1, <2>2 DEF Free
  <2> HIDE DEF n
  <2>4. step \in 1..n
    BY <2>3
  <2> QED
    BY <1>7, <2>1, <2>4 DEF n, Free
<1>8. boot \in 1..MaxBoots
  BY DEF HostTypeOK, BytesTypeOK
<1>9. CASE PrintLog \/ SendCommand
  <2>1. tx = <<>> /\ step \in DOMAIN Script /\ tx' = Item[boot][step] /\ pipe' = pipe
    BY <1>7, <1>9 DEF PrintLog, SendCommand
  <2> QED
    BY <1>6, <1>8, <2>1, BytesFact
<1>10. CASE SendData
  <2>1. tx = <<>> /\ step \in DOMAIN Script /\ pipe' = pipe
        /\ tx' = IF session THEN Item[boot][step] ELSE <<>>
    BY <1>7, <1>10 DEF SendData
  <2>2. CASE session
    BY <1>6, <1>8, <2>1, <2>2, BytesFact
  <2>3. CASE ~session
    BY <1>5, <2>1, <2>3
  <2> QED
    BY <2>2, <2>3
<1>11. CASE TakeAnswer \/ ReplyTimeout \/ EndSession
  BY <1>5, <1>11 DEF TakeAnswer, ReplyTimeout, EndSession
<1>12. CASE Transmit(mode # "closed")
  <2>1. tx # <<>> /\ tx' = Tail(tx) /\ pipe' = Append(pipe, Head(tx))
    BY <1>1, <1>12 DEF Transmit
  <2>2. Joined(Held, Append(pipe, Head(tx)), Tail(tx)) = Joined(Held, pipe, tx)
    <3>1. Held \in Seq(TaggedByte) /\ pipe \in Seq(TaggedByte) /\ tx \in Seq(TaggedByte)
            /\ tx # <<>>
      BY <1>3, <2>1
    <3> QED
      BY <3>1, SeqPass
  <2>3. Unparsed' = Unparsed
    BY <1>2, <1>3, <1>4, <2>1, <2>2 DEF Joined
  <2> QED
    BY <1>1, <1>2, <2>3 DEF InStep
<1>13. CASE ResetBoard
  <2>1. boot' = boot + 1 /\ tx' = <<>> /\ pipe' = pipe
    BY <1>13 DEF ResetBoard
  <2>2. boot' # boot
    BY <1>8, <2>1, BytesAssumption
  <2> QED
    BY <1>5, <2>1, <2>2
<1> QED
  BY <1>9, <1>10, <1>11, <1>12, <1>13 DEF Board

\* Neither does the proxy lose its place by itself: it takes no raw data, no frame
\* is given up, and each frame and line is read to its end.
LEMMA ProxyInStep ==
    ASSUME HostTypeOK, InStep, ReadUart \/ RemoteCloses
    PROVE  InStep'
<1>1. mode # "closed" /\ Whole(Unparsed)
  BY DEF InStep
<1>2. /\ Held \in Seq(TaggedByte) /\ pipe \in Seq(TaggedByte) /\ tx \in Seq(TaggedByte)
      /\ Unparsed \in Seq(TaggedByte) /\ Unparsed = (Held \o pipe) \o tx
      /\ (<<>> \o pipe) \o tx = pipe \o tx
  BY UnparsedType
<1>3. Unparsed' = (Held' \o pipe') \o tx'
  BY DEF Unparsed, Held
<1>4. HeldOK /\ held \in Seq(TaggedByte)
  BY DEF HostTypeOK, InputTypeOK
<1>5. ASSUME mode' # "closed", Held' = <<>>, UNCHANGED <<pipe, tx>>, Whole(pipe \o tx)
      PROVE  InStep'
  BY <1>2, <1>3, <1>5 DEF InStep
<1>6. ASSUME Held = <<>> PROVE Whole(pipe \o tx)
  BY <1>1, <1>2, <1>6
<1>7. CASE NothingClosed \/ RemoteCloses \/ Connects \/ Fetches \/ Fails
  <2>1. mode' = "loop" /\ held' = <<>> /\ UNCHANGED <<pipe, tx>>
    BY <1>7 DEF NothingClosed, RemoteCloses, Connects, Fetches, Fails, BackToLoop, boardVars
  <2>2. mode \in {"loop", "recv", "serve"}
    BY <1>7 DEF NothingClosed, RemoteCloses, MayRecv, Connects, Fetches, Serves, Fails
  <2>3. Held = <<>> /\ Held' = <<>>
    BY <1>4, <2>1, <2>2 DEF Held, HeldOK
  <2> QED
    BY <1>5, <1>6, <2>1, <2>3
<1>8. CASE FrameStarts \/ LineStarts
  <2>1. /\ mode = "loop" /\ mode' \in {"frame", "line"} /\ pipe # <<>>
        /\ held' = <<First>> /\ pipe' = Tail(pipe) /\ tx' = tx
    <3>1. CASE FrameStarts
      BY <3>1 DEF FrameStarts, ReadFirst, boardVars
    <3>2. CASE LineStarts
      BY <3>2 DEF LineStarts, ReadFirst, boardVars
    <3> QED
      BY <1>8, <3>1, <3>2
  <2>2. Held = <<>> /\ Held' = <<Head(pipe)>>
    BY <1>4, <2>1 DEF Held, HeldOK, First
  <2>3. <<Head(pipe)>> \o Tail(pipe) = pipe /\ <<>> \o pipe = pipe
    BY <1>2, <2>1, SeqFirst, SeqUnit
  <2>4. Unparsed' = Unparsed
    BY <1>2, <1>3, <2>1, <2>2, <2>3
  <2>5. mode' # "closed"
    BY <2>1
  <2> QED
    BY <1>1, <2>4, <2>5 DEF InStep
<1>9. ASSUME NEW n \in 1..Len(pipe), RawBytes(n) PROVE FALSE
  <2> DEFINE v == pipe[1].val
             y == pipe \o tx
             b == y[1]
  <2>1. mode = "loop" /\ pipe # <<>> /\ ~IsFrame(v) /\ ~IsC(v)
    <3>1. pipe # <<>>
      BY <1>9 DEF RawBytes
    <3>2. Head(pipe) = pipe[1]
      BY <1>2, <3>1, SeqTail
    <3> QED
      BY <1>9, <3>2 DEF RawBytes, First
  <2>2. Held = <<>>
    BY <1>4, <2>1 DEF Held, HeldOK
  <2>3. y \in Seq(TaggedByte) /\ Whole(y) /\ y # <<>> /\ b = pipe[1]
    BY <1>2, <1>6, <2>1, <2>2, SeqLonger, SeqConcat
  <2>4. Len(y) > 0
    <3> HIDE DEF y
    <3>1. Len(y) \in Nat \ {0}
      BY <2>3, SeqTail
    <3> QED
      BY <3>1
  <2>5. /\ b \in TaggedByte
        /\ \A o \in 1..Size(b) : y[o] = ByteOf(b.boot, b.item, o)
    <3> HIDE DEF y
    <3> QED
      BY <2>3, <2>4, WholeFirst
  <2>6. Size(b) \in Nat \ {0} /\ b.item \in DOMAIN Script
    BY <2>5, ByteType
  <2>7. 1 \in 1..Size(b)
    <3> DEFINE z == Size(b)
    <3>1. z \in Nat \ {0}
      BY <2>6
    <3> HIDE DEF z
    <3>2. 1 \in 1..z
      BY <3>1
    <3> QED
      BY <3>2 DEF z
  <2>8. b = ByteOf(b.boot, b.item, 1)
    BY <2>5, <2>7
  <2>9. b.val = Encoded[b.item][1]
    BY <2>8, ByteFact
  <2>10. Script[b.item].kind = "line" => IsC(b.val)
    BY <2>6, <2>9, EncodedFact
  <2>11. Script[b.item].kind # "line" => IsFrame(b.val)
    BY <2>6, <2>9, EncodedFact
  <2> QED
    BY <2>1, <2>3, <2>10, <2>11
<1>10. CASE ReadFrame
  <2> DEFINE n == IF Missing < Len(pipe) THEN Missing ELSE Len(pipe)
  <2>1. /\ mode = "frame" /\ mode' = "frame" /\ held' = held \o SubSeq(pipe, 1, n)
        /\ pipe' = SubSeq(pipe, n + 1, Len(pipe)) /\ tx' = tx
    BY <1>10 DEF ReadFrame, boardVars
  <2>2. n \in 0..Len(pipe)
    BY <1>2, <1>4, <1>10, CutFact
  <2> HIDE DEF n
  <2>3. Joined(held \o SubSeq(pipe, 1, n), SubSeq(pipe, n + 1, Len(pipe)), tx)
           = Joined(held, pipe, tx)
    <3>1. held \in Seq(TaggedByte) /\ pipe \in Seq(TaggedByte) /\ tx \in Seq(TaggedByte)
      BY <1>2, <1>4
    <3> QED
      BY <2>2, <3>1, SeqPassPart
  <2>4. Held = held /\ Held' = held' /\ mode' # "closed"
    BY SMTT(60), <2>1 DEF Held
  <2>5. Unparsed' = Unparsed
    BY <1>2, <1>3, <2>1, <2>3, <2>4 DEF Joined
  <2> QED
    BY <1>1, <2>4, <2>5 DEF InStep
<1>11. CASE HandleFrame
  <2>1. /\ mode = "frame" /\ Missing = 0 /\ Len(held) >= 3
        /\ mode' = "loop" /\ held' = <<>> /\ UNCHANGED <<pipe, tx>>
    BY <1>11 DEF HandleFrame, BackToLoop, boardVars, HeaderLen
  <2>2. Need(held) = Len(held)
    <3> DEFINE m == Need(held)
               n == Len(held)
    <3>1. m \in Nat /\ n \in Nat /\ m - n = 0
      BY <1>4, <2>1, NeedFact, SeqDomain, MissingInt
    <3> HIDE DEF m, n
    <3>2. m = n
      BY <3>1
    <3> QED
      BY <3>2 DEF m, n
  <2>3. Size(held[1]) = Len(held)
    BY <2>1, <2>2, FrameSize
  <2>4. Whole(pipe \o tx)
    BY <2>1, <2>3, DropHeld
  <2>5. Held' = <<>> /\ mode' # "closed"
    BY <2>1 DEF Held
  <2> QED
    BY <1>5, <2>1, <2>4, <2>5
<1>12. CASE FrameTimeout
  <2> DEFINE n == Len(held)
             a == Len(pipe)
             c == Len(tx)
             z == Size(held[1])
             v == Need(held)
  <2>1. mode = "frame" /\ ~Arriving
    BY <1>12 DEF FrameTimeout
  <2>2. n \in Nat /\ a \in Nat /\ c \in Nat /\ Missing = v - n /\ v \in Nat
    BY <1>2, <1>4, SeqDomain, MissingInt, NeedFact
  <2>3. z \in Nat \ {0} /\ z <= n + (a + c)
    BY <2>1, FirstItem
  <2>4. (n >= 3 => v = z) /\ z >= 3
    BY <2>1, FrameSize
  <2>5. n < 3 => v = 3
    BY DEF Need, HeaderLen
  <2>6. Len(pipe \o tx) = a + c
    BY <1>2, SeqConcat
  <2>7. Missing <= Len(pipe \o tx)
    <3> HIDE DEF n, a, c, z, v
    <3> QED
      BY <2>2, <2>3, <2>4, <2>5, <2>6
  <2>8. Unparsed = (held \o pipe) \o tx
    BY <1>2, <2>1 DEF Held
  <2> DEFINE u == (held \o pipe) \o tx
  <2>9. u \in Seq(TaggedByte) /\ Whole(u) /\ Len(u) \in Nat /\ Len(u) > 0
    <3>1. u \in Seq(TaggedByte) /\ Whole(u) /\ Len(u) \in Nat
      BY <1>1, <1>2, <2>8, SeqDomain
    <3>2. Len(u) = n + (a + c) /\ n \in Nat \ {0}
      BY <2>1, <2>8, HeldFirst
    <3> HIDE DEF u, n, a, c
    <3>3. Len(u) > 0
      BY <2>2, <3>2
    <3> QED
      BY <3>1, <3>3
  <2> HIDE DEF u
  <2>10. u[1].off = 1
    BY <2>9, WholeFirst
  <2>11. 1 \in DOMAIN u
    <3> DEFINE m == Len(u)
    <3>1. m \in Nat /\ m > 0 /\ DOMAIN u = 1..m
      BY <2>9, SeqDomain
    <3> HIDE DEF m
    <3> QED
      BY <3>1
  <2>12. WholeAt(u, 1)
    BY <2>9, <2>11 DEF Whole
  <2>13. Arriving
    BY <2>7, <2>10, <2>12 DEF Arriving, u
  <2> QED
    BY <2>1, <2>13
<1>13. CASE ReadLine
  <2>1. /\ mode = "line" /\ mode' = "line" /\ held' = Append(held, Head(pipe))
        /\ pipe # <<>> /\ pipe' = Tail(pipe) /\ tx' = tx
    BY <1>13 DEF ReadLine, boardVars, First
  <2>2. Joined(Append(held, Head(pipe)), Tail(pipe), tx) = Joined(held, pipe, tx)
    <3>1. held \in Seq(TaggedByte) /\ pipe \in Seq(TaggedByte) /\ tx \in Seq(TaggedByte)
            /\ pipe # <<>>
      BY <1>2, <1>4, <2>1
    <3> QED
      BY <3>1, SeqPassFirst
  <2>3. Held = held /\ Held' = held' /\ mode' # "closed"
    BY <2>1 DEF Held
  <2>4. Unparsed' = Unparsed
    BY <1>2, <1>3, <2>1, <2>2, <2>3 DEF Joined
  <2> QED
    BY <1>1, <2>3, <2>4 DEF InStep
<1>14. CASE IgnoreLine \/ RejectLine \/ ServeLine
  <2>1. LineComplete /\ UNCHANGED <<pipe, tx>>
    BY <1>14 DEF IgnoreLine, RejectLine, ServeLine, Serve, boardVars
  <2>2. Held' = <<>> /\ mode' # "closed"
    BY <1>14 DEF IgnoreLine, RejectLine, ServeLine, Serve, BackToLoop, Held
  <2>3. mode = "line" /\ Size(held[1]) = Len(held)
    BY <2>1, LineSize DEF LineComplete
  <2>4. Whole(pipe \o tx)
    BY <2>3, DropHeld
  <2> QED
    BY <1>5, <2>1, <2>2, <2>4
<1> QED
  BY <1>7, <1>8, <1>9, <1>10, <1>11, <1>12, <1>13, <1>14 DEF ReadUart

\* Only what cuts an item off makes the proxy lose its place.  For every script
\* whose lines end with their only newline: whatever the lengths and contents of
\* the frames (a length byte may be a newline, a text may look like a command),
\* however many bytes have been received, and in every order of the steps of the
\* board, the UART, the proxy, the connection and the program that runs them.
THEOREM StaysInStep == Spec => OnlyCutsLoseStep
<1>1. ASSUME HostTypeOK, [Next]_vars, InStep, mode' # "closed",
             ~(boot' # boot /\ tx # <<>>)
      PROVE  InStep'
  <2>1. HostStep
    BY <1>1, StepFact
  <2>2. mode # "closed"
    BY SMTT(60), <1>1 DEF InStep
  <2>3. CASE UNCHANGED <<byteVars, inputVars>>
    BY ZenonT(60), <1>1, <2>3 DEF InStep, Unparsed, Whole, WholeAt, byteVars, boardVars, inputVars
  <2>4. CASE (Board \/ Transmit(mode # "closed") \/ ResetBoard) /\ UNCHANGED inputVars
    BY <1>1, <2>4, BoardInStep
  <2>5. CASE OpenPort
    BY <2>2, <2>5 DEF OpenPort
  <2>6. CASE ReadUart \/ RemoteCloses
    BY <1>1, <2>6, ProxyInStep
  <2>7. CASE ProxyGone
    BY <1>1, <2>7 DEF ProxyGone, ClosePort
  <2> QED
    BY <2>1, <2>3, <2>4, <2>5, <2>6, <2>7 DEF HostStep
<1>2. HostTypeOK /\ [Next]_vars
         => [InStep /\ ~InStep' => mode' = "closed" \/ (boot' # boot /\ tx # <<>>)]_vars
  BY <1>1
<1>3. TypeOK => HostTypeOK
  BY DEF TypeOK, HostTypeOK
<1> QED
  BY <1>2, <1>3, HostTypeCorrect, PTL DEF Spec, OnlyCutsLoseStep

\* In step, a complete line is byte by byte what the board sent.
LEMMA HeldItem ==
    ASSUME HostTypeOK, InStep, LineComplete
    PROVE  /\ held[1].boot \in 1..MaxBoots /\ held[1].item \in DOMAIN Script
           /\ held \in Seq(TaggedByte) /\ held = Item[held[1].boot][held[1].item]
           /\ IsC(held[1].val)
<1> DEFINE u == Unparsed
           n == Len(held)
           m == Len(u)
           b == held[1]
           e == Item[b.boot][b.item]
           z == Size(b)
<1>1. mode = "line" /\ z = n /\ Kind(b) = "line"
  BY LineSize DEF LineComplete
<1>2. /\ held \in Seq(TaggedByte) /\ n \in Nat \ {0}
      /\ m = n + (Len(pipe) + Len(tx)) /\ \A i \in 1..n : u[i] = held[i]
  BY <1>1, HeldFirst
<1>3. u \in Seq(TaggedByte) /\ Whole(u) /\ m \in Nat
  BY UnparsedType, SeqDomain DEF InStep
<1>4. b = u[1] /\ b \in TaggedByte
  BY <1>1, FirstItem
<1>5. Len(pipe) \in Nat /\ Len(tx) \in Nat
  BY UnparsedType, SeqDomain
<1>6. m > 0
  <2> DEFINE a == Len(pipe)
             c == Len(tx)
  <2>1. a \in Nat /\ c \in Nat /\ m = n + (a + c)
    BY <1>2, <1>5
  <2> HIDE DEF a, c, m, n
  <2> QED
    BY <1>2, <2>1
<1>7. \A o \in 1..z : u[o] = ByteOf(b.boot, b.item, o)
  BY <1>3, <1>4, <1>6, WholeFirst
<1>8. b.boot \in 1..MaxBoots /\ b.item \in DOMAIN Script /\ z = Len(Encoded[b.item])
  BY <1>4, ByteType DEF Size
<1>9. /\ e \in Seq(TaggedByte) /\ Len(e) = Len(Encoded[b.item])
      /\ \A o \in 1..Len(Encoded[b.item]) : e[o] = ByteOf(b.boot, b.item, o)
  BY <1>8, ItemFact
<1> HIDE DEF u, e, n, z
<1>10. Len(e) = n /\ \A o \in 1..n : held[o] = e[o]
  BY <1>1, <1>2, <1>7, <1>8, <1>9
<1>11. held = e
  BY <1>2, <1>9, <1>10, SeqSame DEF n
<1>12. IsC(b.val)
  <2>1. 1 \in 1..n
    BY <1>2
  <2>2. b = ByteOf(b.boot, b.item, 1)
    BY <1>1, <1>2, <1>4, <1>7, <2>1
  <2>3. b.val = Encoded[b.item][1]
    BY <2>2, ByteFact
  <2>4. Script[b.item].kind = "line"
    BY <1>1 DEF Kind
  <2> QED
    BY <1>8, <2>3, <2>4, EncodedFact
<1> QED
  BY <1>2, <1>8, <1>11, <1>12 DEF e

\* What is served is a whole line of the board.
ServesWhole == mode = "serve" => held = Item[held[1].boot][held[1].item]

\* In step, what the proxy begins to serve is that line, whole.
LEMMA ServedInStep ==
    ASSUME HostTypeOK, InStep, Serve
    PROVE  CommandsAreReal' /\ ServesWhole'
<1> DEFINE b == held[1]
           e == Item[b.boot][b.item]
           n == Len(held)
<1>1. LineComplete
  BY DEF Serve
<1>2. /\ b.boot \in 1..MaxBoots /\ b.item \in DOMAIN Script
      /\ held \in Seq(TaggedByte) /\ held = e /\ IsC(b.val)
  BY <1>1, HeldItem
<1>3. Size(b) = n /\ Kind(b) = "line"
  BY <1>1, LineSize
<1>4. held' \in Seq(TaggedByte)
  BY ServeFact
<1>5. PICK k \in 1..n :
         /\ \A j \in 1..(k - 1) : ~IsC(held[j].val)
         /\ Len(held') = n + 1 - k
         /\ \A i \in 1..Len(held') : held'[i] = held[k + i - 1]
  BY ServeFact
<1>6. n \in Nat
  BY <1>2, SeqDomain
<1>7. k = 1
  <2>1. 1 \notin 1..(k - 1)
    BY <1>2, <1>5
  <2> HIDE DEF n
  <2> QED
    BY <1>6, <2>1
<1>8. Len(held') = n
  <2> HIDE DEF n
  <2>1. n + 1 - 1 = n
    BY <1>6
  <2> QED
    BY <1>5, <1>7, <2>1
<1>9. ASSUME NEW i \in 1..n PROVE held'[i] = held[i]
  <2>1. 1 + i - 1 = i
    BY <1>6
  <2> QED
    BY <1>5, <1>7, <1>8, <2>1
<1>10. held' = held
  <2> DEFINE h == held'
  <2>1. h \in Seq(TaggedByte) /\ Len(h) = Len(held) /\ \A i \in 1..Len(h) : h[i] = held[i]
    BY <1>4, <1>8, <1>9
  <2> HIDE DEF h
  <2>2. h = held
    BY <1>2, <2>1, SeqSame
  <2> QED
    BY <2>2 DEF h
<1>11. SubSeq(held, 1, n) = held
  BY <1>2, SeqAll
<1>12. n <= n /\ ~(n < n)
  <2> HIDE DEF n
  <2> QED
    BY <1>6
<1>13. /\ Kind(b) = "line" /\ n <= Size(b) /\ held = SubSeq(e, 1, n)
       /\ ~(n < Size(b))
  BY <1>2, <1>3, <1>11, <1>12
<1>14. /\ Kind(held'[1]) = "line" /\ Len(held') <= Size(held'[1])
       /\ held' = SubSeq(Item[held'[1].boot][held'[1].item], 1, Len(held'))
       /\ ~(Len(held') < Size(held'[1]))
  BY <1>10, <1>13
<1>15. held' = Item[held'[1].boot][held'[1].item]
  BY <1>2, <1>10
<1> QED
  BY <1>14, <1>15 DEF CommandsAreReal, ServesWhole

\* In step, whatever the proxy begins to execute is a command, of one run of the
\* board, from its first byte to its last: for every script, texts and data that
\* contain commands among them.
THEOREM RealCommands ==
    Spec => [][InStep /\ mode # "serve" /\ mode' = "serve"
                 => CommandsAreReal' /\ ServesWhole']_vars
<1>1. ASSUME HostTypeOK, [Next]_vars, InStep, mode # "serve", mode' = "serve"
      PROVE  CommandsAreReal' /\ ServesWhole'
  <2>1. HostStep
    BY <1>1, StepFact
  <2>2. Serve
    BY SMTT(60), <1>1, <2>1 DEF HostStep, byteVars, inputVars,
       OpenPort, ReadUart, RemoteCloses, ProxyGone, ClosePort, BackToLoop, ServeLine,
       FrameStarts, LineStarts, ReadFirst, RawBytes, ReadFrame, HandleFrame, FrameTimeout,
       ReadLine, IgnoreLine, RejectLine, Connects, Fetches, Fails, NothingClosed
  <2> QED
    BY <1>1, <2>2, ServedInStep
<1>2. HostTypeOK /\ [Next]_vars
         => [InStep /\ mode # "serve" /\ mode' = "serve"
                => CommandsAreReal' /\ ServesWhole']_vars
  BY <1>1
<1>3. TypeOK => HostTypeOK
  BY DEF TypeOK, HostTypeOK
<1> QED
  BY <1>2, <1>3, HostTypeCorrect, PTL DEF Spec

(***************************************************************************)
(* The order in which bytes come.                                          *)
(***************************************************************************)

\* Everything sent and not parsed yet, a command that is being served included.
Stream == Joined(held, pipe, tx)

\* y comes d bytes after x: in the same item, in a later one of the same run, when
\* x's has ended, or in a later run, whose first byte is between them.
Follows(x, y, d) ==
    \/ x.boot < y.boot /\ y.off <= d
    \/ x.boot = y.boot /\ x.item = y.item /\ y.off = x.off + d
    \/ x.boot = y.boot /\ x.item < y.item /\ Size(x) + y.off <= x.off + d

\* Sent before item n of boot b.
Past(x, b, n) == x.boot < b \/ (x.boot = b /\ x.item < n)

\* A byte of the item it says it is of.
Genuine(x) == x.off <= Size(x) /\ x.val = Encoded[x.item][x.off]

\* s is the end of what has been sent when item n of boot b is next.
Sent(s, b, n) ==
    /\ \A k \in 1..Len(s) : Genuine(s[k]) /\ Past(s[k], b, n)
    /\ \A k \in 1..Len(s), l \in 1..Len(s) : k < l => Follows(s[k], s[l], l - k)
    /\ \A k \in 1..Len(s) : k = Len(s) => s[k].boot < b \/ s[k].off = Size(s[k])

\* t is the end of s that begins after d bytes.
EndOf(t, s, d) == d \in Nat /\ Len(s) = d + Len(t) /\ \A i \in 1..Len(t) : t[i] = s[d + i]

\* t is the beginning of s.
BeginOf(t, s) == Len(t) <= Len(s) /\ \A i \in 1..Len(t) : t[i] = s[i]

\* t is s with item n of boot b at its end.
Extends(t, s, b, n) ==
    /\ Len(t) = Len(s) + Len(Encoded[n])
    /\ \A i \in 1..Len(s) : t[i] = s[i]
    /\ \A i \in 1..Len(Encoded[n]) : t[Len(s) + i] = ByteOf(b, n, i)

\* The fields of a byte are numbers.
LEMMA ByteNat ==
    ASSUME NEW x \in TaggedByte
    PROVE  /\ x.boot \in Nat /\ x.item \in Nat /\ x.off \in Nat \ {0} /\ Size(x) \in Nat \ {0}
           /\ x.item \in DOMAIN Script
<1>1. x.off \in Nat \ {0} /\ x.item \in DOMAIN Script /\ x.boot \in 1..MaxBoots
      /\ Size(x) \in Nat \ {0}
  BY ByteType
<1>2. DOMAIN Script = 1..Len(Script) /\ Len(Script) \in Nat
  BY BytesAssumption, SeqDomain
<1>3. x.boot \in Nat
  BY <1>1, BytesAssumption
<1>4. x.item \in Nat
  BY <1>1, <1>2
<1> QED
  BY <1>1, <1>3, <1>4

\* The end of it is still the end of what has been sent.
LEMMA SentDrop ==
    ASSUME NEW s \in Seq(TaggedByte), NEW t \in Seq(TaggedByte), NEW b, NEW n, NEW d,
           Sent(s, b, n), EndOf(t, s, d)
    PROVE  Sent(t, b, n)
<1> DEFINE m == Len(t)
           p == Len(s)
<1>1. m \in Nat /\ d \in Nat /\ p = d + m
  BY SeqDomain DEF EndOf
<1>2. ASSUME NEW k \in 1..m
      PROVE  d + k \in 1..p /\ t[k] = s[d + k] /\ (k = m => d + k = p)
  <2>1. t[k] = s[d + k]
    BY DEF EndOf
  <2> HIDE DEF m, p
  <2> QED
    BY <1>1, <2>1
<1>3. ASSUME NEW k \in 1..m PROVE Genuine(t[k]) /\ Past(t[k], b, n)
  BY <1>2 DEF Sent
<1>4. ASSUME NEW k \in 1..m, NEW l \in 1..m, k < l PROVE Follows(t[k], t[l], l - k)
  <2>1. d + k < d + l /\ (d + l) - (d + k) = l - k
    BY <1>1, <1>4
  <2> QED
    BY <1>2, <2>1 DEF Sent
<1>5. ASSUME NEW k \in 1..m, k = m PROVE t[k].boot < b \/ t[k].off = Size(t[k])
  BY <1>2, <1>5 DEF Sent
<1> QED
  BY <1>3, <1>4, <1>5 DEF Sent

\* After a reset the bytes that were left are those of an earlier run.
LEMMA SentCut ==
    ASSUME NEW s \in Seq(TaggedByte), NEW t \in Seq(TaggedByte), NEW b \in Nat, NEW n, NEW m,
           Sent(s, b, n), BeginOf(t, s)
    PROVE  Sent(t, b + 1, m)
<1> DEFINE q == Len(t)
           p == Len(s)
<1>1. q \in Nat /\ p \in Nat /\ q <= p
  BY SeqDomain DEF BeginOf
<1>2. ASSUME NEW k \in 1..q
      PROVE  k \in 1..p /\ t[k] = s[k] /\ t[k] \in TaggedByte
  <2>1. t[k] = s[k] /\ t[k] \in TaggedByte
    BY SeqElt DEF BeginOf
  <2> HIDE DEF p, q
  <2> QED
    BY <1>1, <2>1
<1>3. ASSUME NEW k \in 1..q PROVE Genuine(t[k]) /\ t[k].boot < b + 1
  <2>1. Genuine(t[k]) /\ Past(t[k], b, n)
    BY <1>2 DEF Sent
  <2>2. t[k].boot \in Nat
    BY <1>2, ByteNat
  <2> QED
    BY <2>1, <2>2 DEF Past
<1>4. ASSUME NEW k \in 1..q, NEW l \in 1..q, k < l PROVE Follows(t[k], t[l], l - k)
  BY <1>2, <1>4 DEF Sent
<1> QED
  BY <1>3, <1>4 DEF Sent, Past

\* An item that is left out changes nothing.
LEMMA SentSkip ==
    ASSUME NEW s \in Seq(TaggedByte), NEW b, NEW n \in Nat, Sent(s, b, n)
    PROVE  Sent(s, b, n + 1)
<1>1. ASSUME NEW k \in 1..Len(s) PROVE Past(s[k], b, n + 1)
  <2>1. Past(s[k], b, n)
    BY DEF Sent
  <2>2. s[k].item \in Nat
    BY SeqElt, ByteNat
  <2> QED
    BY <2>1, <2>2 DEF Past
<1> QED
  BY <1>1 DEF Sent

\* The bytes of the next item follow all others.
LEMMA NextFollows ==
    ASSUME NEW s \in Seq(TaggedByte), NEW b \in Nat, NEW n \in Nat, Sent(s, b, n),
           NEW k \in 1..Len(s), NEW o \in Nat \ {0}
    PROVE  Follows(s[k], ByteOf(b, n, o), (Len(s) - k) + o)
<1> DEFINE x == s[k]
           y == ByteOf(b, n, o)
           p == Len(s)
           z == s[p]
<1>1. x \in TaggedByte /\ Past(x, b, n) /\ Genuine(x)
  BY SeqElt DEF Sent
<1>2. x.boot \in Nat /\ x.item \in Nat /\ x.off \in Nat \ {0} /\ Size(x) \in Nat \ {0}
  BY <1>1, ByteNat
<1>3. y.boot = b /\ y.item = n /\ y.off = o
  BY ByteFact
<1>4. p \in Nat /\ k \in 1..p /\ p \in 1..p
  <2>1. p \in Nat /\ k \in 1..p
    BY SeqDomain
  <2> HIDE DEF p
  <2> QED
    BY <2>1
<1>5. z \in TaggedByte /\ Past(z, b, n) /\ (z.boot < b \/ z.off = Size(z))
  <2>1. z \in TaggedByte
    BY <1>4, SeqElt
  <2> QED
    BY <1>4, <2>1 DEF Sent
<1>6. z.boot \in Nat /\ z.item \in Nat /\ z.off \in Nat \ {0} /\ Size(z) \in Nat \ {0}
  BY <1>5, ByteNat
<1>7. k < p => Follows(x, z, p - k)
  BY <1>4 DEF Sent
<1>8. k = p => x = z
  OBVIOUS
<1>9. x.item = z.item => Size(x) = Size(z)
  BY DEF Size
<1> HIDE DEF x, y, p, z
<1>10. ASSUME x.boot < b PROVE Follows(x, y, (p - k) + o)
  <2>1. o <= (p - k) + o
    BY <1>4
  <2> QED
    BY <1>3, <1>10, <2>1 DEF Follows
<1>11. ASSUME x.boot = b PROVE Follows(x, y, (p - k) + o)
  <2>1. x.item < n
    BY <1>1, <1>2, <1>11 DEF Past
  <2>2. Size(x) <= x.off + (p - k)
    <3>1. CASE k = p
      BY <1>2, <1>4, <1>5, <1>8, <1>11, <3>1
    <3>2. CASE k < p
      BY SMTT(60), <1>2, <1>4, <1>5, <1>6, <1>7, <1>9, <1>11, <3>2 DEF Follows, Past
    <3> QED
      BY <1>4, <3>1, <3>2
  <2>3. Size(x) + o <= x.off + ((p - k) + o)
    BY <1>2, <1>4, <2>2
  <2> QED
    BY <1>3, <1>11, <2>1, <2>3 DEF Follows
<1> QED
  BY <1>1, <1>10, <1>11 DEF Past, x, y, p

\* When the item has been sent, they are there.
LEMMA SentMore ==
    ASSUME NEW s \in Seq(TaggedByte), NEW t \in Seq(TaggedByte), NEW b \in Nat,
           NEW n \in DOMAIN Script, Sent(s, b, n), Extends(t, s, b, n)
    PROVE  Sent(t, b, n + 1)
<1> DEFINE z == Len(Encoded[n])
           p == Len(s)
           q == Len(t)
<1>1. z \in Nat \ {0} /\ p \in Nat /\ q = p + z /\ n \in Nat
  <2>1. z \in Nat \ {0} /\ p \in Nat /\ q = p + z
    BY EncodedFact, SeqDomain DEF Extends
  <2>2. n \in Nat
    BY BytesAssumption, SeqDomain
  <2> QED
    BY <2>1, <2>2
<1>2. ASSUME NEW k \in 1..q, k <= p
      PROVE  k \in 1..p /\ t[k] = s[k]
  <2>1. k \in 1..p
    <3> HIDE DEF p, q
    <3> QED
      BY <1>1, <1>2
  <2> QED
    BY <2>1 DEF Extends
<1>3. ASSUME NEW k \in 1..q, p < k
      PROVE  k - p \in 1..z /\ t[k] = ByteOf(b, n, k - p)
  <2>1. k - p \in 1..z /\ p + (k - p) = k
    <3> HIDE DEF p, q, z
    <3> QED
      BY <1>1, <1>3
  <2>2. t[p + (k - p)] = ByteOf(b, n, k - p)
    BY <2>1 DEF Extends
  <2> QED
    BY <2>1, <2>2
<1>4. Sent(s, b, n + 1)
  BY <1>1, SentSkip
<1>5. ASSUME NEW k \in 1..q PROVE Genuine(t[k]) /\ Past(t[k], b, n + 1)
  <2>1. CASE k <= p
    BY <1>2, <1>4, <2>1 DEF Sent
  <2>2. CASE p < k
    <3> DEFINE o == k - p
    <3>1. o \in 1..z /\ t[k] = ByteOf(b, n, o)
      BY <1>3, <2>2
    <3>2. /\ t[k].boot = b /\ t[k].item = n /\ t[k].off = o
          /\ t[k].val = Encoded[n][o] /\ Size(t[k]) = z
      BY SMTT(60), <3>1, ByteFact
    <3> HIDE DEF o, z
    <3>3. o <= z /\ n < n + 1
      BY <1>1, <3>1
    <3> QED
      BY <3>2, <3>3 DEF Genuine, Past
  <2> QED
    BY <1>1, <2>1, <2>2
<1>6. ASSUME NEW k \in 1..q, NEW l \in 1..q, k < l PROVE Follows(t[k], t[l], l - k)
  <2>1. CASE l <= p
    <3>1. k \in 1..p /\ l \in 1..p /\ t[k] = s[k] /\ t[l] = s[l]
      <4>1. k <= p
        <5> HIDE DEF p, q
        <5> QED
          BY <1>1, <1>6, <2>1
      <4> QED
        BY <1>2, <2>1, <4>1
    <3> QED
      BY <1>6, <3>1 DEF Sent
  <2>2. CASE k <= p /\ p < l
    <3> DEFINE o == l - p
    <3>1. k \in 1..p /\ t[k] = s[k] /\ o \in 1..z /\ t[l] = ByteOf(b, n, o)
      BY <1>2, <1>3, <2>2
    <3>2. o \in Nat \ {0} /\ (p - k) + o = l - k
      <4> HIDE DEF p, q, z
      <4> QED
        BY SMTT(60), <1>1, <3>1
    <3> HIDE DEF o
    <3>3. Follows(s[k], ByteOf(b, n, o), (p - k) + o)
      BY <1>1, <3>1, <3>2, NextFollows
    <3> QED
      BY <3>1, <3>2, <3>3
  <2>3. CASE p < k
    <3>1. /\ t[k] = ByteOf(b, n, k - p) /\ t[l] = ByteOf(b, n, l - p)
      <4>1. p < l
        <5> HIDE DEF p, q
        <5> QED
          BY <1>1, <1>6, <2>3
      <4> QED
        BY <1>3, <2>3, <4>1
    <3>2. /\ t[k].boot = b /\ t[k].item = n /\ t[k].off = k - p
          /\ t[l].boot = b /\ t[l].item = n /\ t[l].off = l - p
      BY <3>1, ByteFact
    <3>3. l - p = (k - p) + (l - k)
      <4> HIDE DEF p, q
      <4> QED
        BY <1>1
    <3> QED
      BY <3>2, <3>3 DEF Follows
  <2> QED
    <3> HIDE DEF p, q
    <3>1. l <= p \/ (k <= p /\ p < l) \/ p < k
      BY <1>1
    <3> QED
      BY <2>1, <2>2, <2>3, <3>1 DEF p
<1>7. ASSUME NEW k \in 1..q, k = q PROVE t[k].boot < b \/ t[k].off = Size(t[k])
  <2>1. p < k /\ k - p = z
    <3> HIDE DEF p, q, z
    <3> QED
      BY <1>1, <1>7
  <2>2. t[k] = ByteOf(b, n, z)
    BY <1>3, <2>1
  <2> QED
    BY <2>2, ByteFact
<1> QED
  BY <1>5, <1>6, <1>7 DEF Sent

\* The types of what the stream is made of.
LEMMA StreamType ==
    ASSUME HostTypeOK
    PROVE  /\ held \in Seq(TaggedByte) /\ pipe \in Seq(TaggedByte) /\ tx \in Seq(TaggedByte)
           /\ Stream \in Seq(TaggedByte) /\ Len(Stream) = Len(held) + (Len(pipe) + Len(tx))
           /\ mode \in {"closed", "loop", "recv"} <=> held = <<>>
           /\ mode = "closed" => held = <<>> /\ pipe = <<>>
           /\ boot \in Nat /\ boot \in 1..MaxBoots
           /\ step \in Nat /\ step \in 1..(Len(Script) + 1) /\ Len(Script) \in Nat
           /\ waiting \in BOOLEAN /\ session \in BOOLEAN
<1> DEFINE TB == Seq(TaggedByte)
<1>1. /\ held \in TB /\ pipe \in TB /\ tx \in TB /\ HeldOK
      /\ mode = "closed" => pipe = <<>>
      /\ boot \in 1..MaxBoots /\ step \in 1..(Len(Script) + 1)
      /\ waiting \in BOOLEAN /\ session \in BOOLEAN
  BY DEF HostTypeOK, InputTypeOK, BytesTypeOK
<1>2. mode \in {"closed", "loop", "recv"} <=> held = <<>>
  BY <1>1 DEF HeldOK
<1>3. boot \in Nat
  BY <1>1, BytesAssumption
<1>4. Len(Script) \in Nat
  BY BytesAssumption, SeqDomain
<1>5. step \in Nat
  BY <1>1, <1>4
<1>6. Stream \in TB /\ Len(Stream) = Len(held) + (Len(pipe) + Len(tx))
  <2> DEFINE a == Len(held)
             c == Len(pipe)
             e == Len(tx)
  <2>1. held \o pipe \in TB /\ Len(held \o pipe) = a + c
    BY <1>1, SeqConcat
  <2>2. (held \o pipe) \o tx \in TB /\ Len((held \o pipe) \o tx) = (a + c) + e
    BY <1>1, <2>1, SeqConcat
  <2>3. a \in Nat /\ c \in Nat /\ e \in Nat
    BY <1>1, SeqDomain
  <2> HIDE DEF a, c, e
  <2>4. (a + c) + e = a + (c + e)
    BY <2>3
  <2> QED
    BY <2>2, <2>4 DEF Stream, Joined, a, c, e
<1> QED
  BY <1>1, <1>2, <1>3, <1>4, <1>5, <1>6

\* What is held comes first.
LEMMA StreamSplit ==
    ASSUME HostTypeOK
    PROVE  /\ Stream = held \o (pipe \o tx) /\ pipe \o tx \in Seq(TaggedByte)
           /\ held \in Seq(TaggedByte) /\ pipe \in Seq(TaggedByte) /\ tx \in Seq(TaggedByte)
<1> DEFINE TB == Seq(TaggedByte)
<1>1. held \in TB /\ pipe \in TB /\ tx \in TB /\ pipe \o tx \in TB
  BY StreamType, SeqConcat
<1>2. (held \o pipe) \o tx = held \o (pipe \o tx)
  BY SMTT(60), <1>1, SeqAssoc
<1> QED
  BY <1>1, <1>2 DEF Stream, Joined

\* The first bytes of the stream are those that are held.
LEMMA StreamHeld ==
    ASSUME HostTypeOK
    PROVE  /\ Len(held) <= Len(Stream)
           /\ \A i \in 1..Len(held) : i \in 1..Len(Stream) /\ Stream[i] = held[i]
<1> DEFINE TB == Seq(TaggedByte)
           y == pipe \o tx
           m == Len(held)
           n == Len(y)
<1>1. held \in TB /\ y \in TB
  BY StreamSplit
<1>2. Stream = held \o y
  BY StreamSplit
<1> HIDE DEF y
<1>3. Len(Stream) = m + n /\ \A i \in 1..m : Stream[i] = held[i]
  BY <1>1, <1>2, SeqConcat
<1>4. m \in Nat /\ n \in Nat
  BY <1>1, SeqDomain
<1> HIDE DEF m, n
<1>5. m <= m + n /\ \A i \in 1..m : i \in 1..(m + n)
  BY <1>4
<1> QED
  BY <1>3, <1>5 DEF m

\* A sequence is its own end, and its own beginning.
LEMMA EndSame ==
    ASSUME NEW s \in Seq(TaggedByte)
    PROVE  EndOf(s, s, 0) /\ BeginOf(s, s)
<1>1. Len(s) \in Nat
  BY SeqDomain
<1>2. \A i \in 1..Len(s) : 0 + i = i
  BY <1>1
<1>3. Len(s) = 0 + Len(s) /\ Len(s) <= Len(s)
  BY <1>1
<1> QED
  BY <1>2, <1>3 DEF EndOf, BeginOf

\* The second of two sequences is the end, the first the beginning.
LEMMA EndConcat ==
    ASSUME NEW h \in Seq(TaggedByte), NEW y \in Seq(TaggedByte)
    PROVE  EndOf(y, h \o y, Len(h)) /\ BeginOf(h, h \o y)
<1> DEFINE m == Len(h)
           n == Len(y)
           c == h \o y
<1>1. /\ Len(c) = m + n /\ m \in Nat /\ n \in Nat
      /\ \A i \in 1..m : c[i] = h[i]
      /\ \A i \in 1..n : c[m + i] = y[i]
  BY SeqConcat, SeqDomain
<1> HIDE DEF c
<1>2. m <= Len(c)
  <2> HIDE DEF m, n
  <2> QED
    BY <1>1
<1> QED
  BY <1>1, <1>2 DEF EndOf, BeginOf, c

\* Without its first elements a sequence is its end.
LEMMA EndRest ==
    ASSUME NEW s \in Seq(TaggedByte), NEW n \in 0..Len(s)
    PROVE  EndOf(SubSeq(s, n + 1, Len(s)), s, n)
<1> DEFINE a == SubSeq(s, 1, n)
           r == SubSeq(s, n + 1, Len(s))
<1>1. a \in Seq(TaggedByte) /\ r \in Seq(TaggedByte) /\ a \o r = s
  BY SeqSplit, SeqCut
<1>2. Len(a) = n
  <2> DEFINE m == Len(s)
  <2>1. m \in Nat /\ n \in 0..m
    BY SeqDomain
  <2>2. n \in Nat /\ 1 \in Nat /\ 1 >= 1 /\ n <= m /\ 1 <= n + 1 /\ n + 1 - 1 = n
    <3> HIDE DEF m
    <3> QED
      BY <2>1
  <2>3. Len(a) = n + 1 - 1
    BY <2>2, SeqSegment
  <2> QED
    BY <2>2, <2>3
<1> HIDE DEF a, r
<1>3. EndOf(r, a \o r, Len(a))
  BY <1>1, EndConcat
<1> QED
  BY <1>1, <1>2, <1>3 DEF r

\* What is left when what was held has been dealt with.
LEMMA StreamDrop ==
    ASSUME HostTypeOK, held' = <<>>, UNCHANGED <<pipe, tx>>
    PROVE  EndOf(Stream', Stream, Len(held)) /\ Stream' = pipe \o tx
<1> DEFINE TB == Seq(TaggedByte)
           y == pipe \o tx
<1>1. held \in TB /\ pipe \in TB /\ y \in TB
  BY StreamSplit
<1>2. Stream = held \o y
  BY StreamSplit
<1>3. Stream' = y
  <2>1. <<>> \o pipe = pipe
    BY <1>1, SeqUnit
  <2> QED
    BY <2>1 DEF Stream, Joined
<1> HIDE DEF y
<1> QED
  BY <1>1, <1>2, <1>3, EndConcat DEF y

\* An item of the script is sent.
Sends(n) ==
    /\ n \in DOMAIN Script /\ step = n /\ step' = n + 1 /\ boot' = boot
    /\ Extends(Stream', Stream, boot, n)

\* e is item n of boot b.
IsItem(e, b, n) == Len(e) = Len(Encoded[n]) /\ \A i \in 1..Len(e) : e[i] = ByteOf(b, n, i)

\* An item at the end of a sequence.
LEMMA ExtendsConcat ==
    ASSUME NEW s \in Seq(TaggedByte), NEW e \in Seq(TaggedByte), NEW b, NEW n,
           IsItem(e, b, n)
    PROVE  Extends(s \o e, s, b, n)
<1> DEFINE c == s \o e
           z == Len(e)
<1>1. /\ Len(c) = Len(s) + z
      /\ \A i \in 1..Len(s) : c[i] = s[i]
      /\ \A i \in 1..z : c[Len(s) + i] = e[i]
  BY SeqConcat
<1> HIDE DEF c
<1>2. /\ Len(c) = Len(s) + Len(Encoded[n])
      /\ \A i \in 1..Len(s) : c[i] = s[i]
      /\ \A i \in 1..Len(Encoded[n]) : c[Len(s) + i] = ByteOf(b, n, i)
  BY <1>1 DEF IsItem
<1> QED
  BY <1>2 DEF Extends, c

\* What the board sends is added at the end.
LEMMA StreamSends ==
    ASSUME HostTypeOK, tx = <<>>, tx' = Item[boot][step], step' = step + 1,
           UNCHANGED <<boot, pipe, held>>, step <= Len(Script)
    PROVE  Sends(step)
<1> DEFINE TB == Seq(TaggedByte)
           s == held \o pipe
           z == Len(Encoded[step])
           e == Item[boot][step]
<1>1. held \in TB /\ pipe \in TB /\ s \in TB
  BY StreamType, SeqConcat
<1>2. step \in DOMAIN Script
  <2>1. DOMAIN Script = 1..Len(Script)
    BY BytesAssumption, SeqDomain
  <2>2. step \in 1..(Len(Script) + 1) /\ Len(Script) \in Nat
    BY StreamType
  <2> DEFINE n == Len(Script)
  <2> HIDE DEF n
  <2>3. step \in 1..(n + 1) /\ step <= n /\ n \in Nat => step \in 1..n
    OBVIOUS
  <2> QED
    BY <2>1, <2>2, <2>3 DEF n
<1>3. e \in TB /\ Len(e) = z /\ \A i \in 1..z : e[i] = ByteOf(boot, step, i)
  <2>1. boot \in 1..MaxBoots
    BY DEF HostTypeOK, BytesTypeOK
  <2> QED
    BY <1>2, <2>1, ItemFact
<1>4. Stream = s
  BY <1>1, SeqUnit DEF Stream, Joined
<1>5. Stream' = s \o e
  BY DEF Stream, Joined
<1> HIDE DEF s, e
<1>6. Extends(s \o e, s, boot, step)
  <2>1. IsItem(e, boot, step)
    BY <1>3 DEF IsItem
  <2> QED
    BY <1>1, <1>3, <2>1, ExtendsConcat
<1> QED
  BY <1>2, <1>4, <1>5, <1>6 DEF Sends

\* The board may still send data in its session.
Live == waiting \/ session

\* Its steps: an item is sent or left out, or nothing changes.
LEMMA BoardStream ==
    ASSUME HostTypeOK, Board, UNCHANGED inputVars
    PROVE  \/ /\ Sends(step) /\ step <= Len(Script)
              /\ Script[step].kind = "data" => Live
              /\ Live' => Live \/ Script[step].kind = "line"
           \/ Stream' = Stream /\ boot' = boot /\ step' = step /\ (Live' => Live)
           \/ /\ Stream' = Stream /\ boot' = boot /\ step' = step + 1
              /\ step <= Len(Script) /\ Script[step].kind = "data" /\ ~waiting /\ ~session
              /\ UNCHANGED <<waiting, session>>
<1>1. UNCHANGED <<held, pipe>>
  BY DEF Board, PrintLog, SendCommand, SendData, TakeAnswer, ReplyTimeout, EndSession, inputVars
<1>2. CASE PrintLog \/ SendCommand \/ (SendData /\ session)
  <2>1. Sends(step) /\ step <= Len(Script)
    BY <1>1, <1>2, StreamSends DEF PrintLog, SendCommand, SendData, Free
  <2> QED
    BY <1>2, <2>1 DEF PrintLog, SendCommand, SendData, Free, Live
<1>3. CASE SendData /\ ~session
  BY <1>1, <1>3 DEF SendData, Free, Stream, Joined
<1>4. CASE TakeAnswer \/ ReplyTimeout \/ EndSession
  BY <1>1, <1>4 DEF TakeAnswer, ReplyTimeout, EndSession, Stream, Joined, Live
<1> QED
  BY <1>2, <1>3, <1>4 DEF Board

\* A byte arrives, and is kept or lost.
LEMMA TransmitStream ==
    ASSUME HostTypeOK, Transmit(mode # "closed"), UNCHANGED inputVars
    PROVE  /\ UNCHANGED <<boot, step, waiting, session>>
           /\ \/ Stream' = Stream
              \/ mode = "closed" /\ EndOf(Stream', Stream, 1)
<1> DEFINE TB == Seq(TaggedByte)
<1>1. held \in TB /\ pipe \in TB /\ tx \in TB /\ (mode = "closed" => held = <<>> /\ pipe = <<>>)
  BY StreamType
<1>2. /\ tx # <<>> /\ tx' = Tail(tx) /\ UNCHANGED <<boot, step, waiting, session, held, mode>>
      /\ pipe' = IF mode # "closed" THEN Append(pipe, Head(tx)) ELSE pipe
  BY DEF Transmit, inputVars
<1>3. CASE mode # "closed"
  <2>1. Joined(held, Append(pipe, Head(tx)), Tail(tx)) = Joined(held, pipe, tx)
    BY <1>1, <1>2, SeqPass
  <2> QED
    BY <1>2, <1>3, <2>1 DEF Stream
<1>4. CASE mode = "closed"
  <2>1. <<>> \o <<>> = <<>> /\ <<>> \o tx = tx /\ Tail(tx) \in TB /\ <<>> \o Tail(tx) = Tail(tx)
    <3>1. <<>> \in TB /\ Tail(tx) \in TB
      BY <1>1, <1>2, SeqNone, SeqTail
    <3> QED
      BY <1>1, <3>1, SeqUnit
  <2>2. Stream = tx /\ Stream' = Tail(tx)
    BY <1>1, <1>2, <1>4, <2>1 DEF Stream, Joined
  <2>3. EndOf(Tail(tx), tx, 1)
    <3> DEFINE n == Len(tx)
    <3>1. /\ n \in Nat \ {0} /\ Len(Tail(tx)) = n - 1
          /\ \A i \in 1..(n - 1) : Tail(tx)[i] = tx[i + 1]
      BY <1>1, <1>2, SeqTail
    <3> HIDE DEF n
    <3>2. n = 1 + (n - 1) /\ \A i \in 1..(n - 1) : i + 1 = 1 + i
      BY <3>1
    <3> QED
      BY <3>1, <3>2 DEF EndOf, n
  <2> QED
    BY <1>2, <1>4, <2>2, <2>3
<1> QED
  BY <1>3, <1>4

\* A reset cuts the end off.
LEMMA ResetStream ==
    ASSUME HostTypeOK, ResetBoard, UNCHANGED inputVars
    PROVE  /\ boot' = boot + 1 /\ step' = 1 /\ ~waiting' /\ ~session'
           /\ BeginOf(Stream', Stream) /\ UNCHANGED <<mode, held, pipe>>
<1> DEFINE TB == Seq(TaggedByte)
           s == held \o pipe
<1>1. held \in TB /\ pipe \in TB /\ tx \in TB /\ s \in TB
  BY StreamType, SeqConcat
<1>2. /\ boot' = boot + 1 /\ step' = 1 /\ ~waiting' /\ ~session' /\ tx' = <<>>
      /\ UNCHANGED <<mode, held, pipe>>
  BY DEF ResetBoard, inputVars
<1>3. Stream = s \o tx
  BY DEF Stream, Joined
<1>4. Stream' = s
  BY <1>1, <1>2, SeqUnit DEF Stream, Joined
<1> HIDE DEF s
<1>5. BeginOf(s, s \o tx)
  BY <1>1, EndConcat
<1> QED
  BY <1>2, <1>3, <1>4, <1>5

\* The end of a sequence is followed by what comes after the sequence.
LEMMA EndLonger ==
    ASSUME NEW s \in Seq(TaggedByte), NEW t \in Seq(TaggedByte), NEW y \in Seq(TaggedByte),
           NEW d, EndOf(t, s, d)
    PROVE  EndOf(t \o y, s \o y, d)
<1> DEFINE p == Len(s)
           q == Len(t)
           n == Len(y)
           a == s \o y
           c == t \o y
<1>1. /\ Len(a) = p + n /\ (\A i \in 1..p : a[i] = s[i])
      /\ (\A i \in 1..n : a[p + i] = y[i])
  BY SeqConcat
<1>2. /\ Len(c) = q + n /\ (\A i \in 1..q : c[i] = t[i])
      /\ (\A i \in 1..n : c[q + i] = y[i])
  BY SeqConcat
<1>3. /\ p \in Nat /\ q \in Nat /\ n \in Nat /\ d \in Nat /\ p = d + q
      /\ \A i \in 1..q : t[i] = s[d + i]
  BY SeqDomain DEF EndOf
<1> HIDE DEF p, q, n, a, c
<1>4. ASSUME NEW i \in 1..(q + n) PROVE c[i] = a[d + i]
  <2>1. CASE i <= q
    <3>1. i \in 1..q /\ d + i \in 1..p
      BY <1>3, <2>1
    <3> QED
      BY <1>1, <1>2, <1>3, <3>1
  <2>2. CASE q < i
    <3>1. i - q \in 1..n /\ q + (i - q) = i /\ p + (i - q) = d + i
      BY <1>3, <2>2
    <3>2. c[q + (i - q)] = y[i - q] /\ a[p + (i - q)] = y[i - q]
      BY <1>1, <1>2, <3>1
    <3> QED
      BY <3>1, <3>2
  <2> QED
    BY <1>3, <2>1, <2>2
<1>5. Len(a) = d + Len(c)
  BY <1>1, <1>2, <1>3
<1> QED
  BY <1>2, <1>3, <1>4, <1>5 DEF EndOf, a, c

\* So is the tail.
LEMMA EndTail ==
    ASSUME NEW s \in Seq(TaggedByte), s # <<>>
    PROVE  Tail(s) \in Seq(TaggedByte) /\ EndOf(Tail(s), s, 1)
<1> DEFINE n == Len(s)
           r == Tail(s)
<1>1. /\ n \in Nat \ {0} /\ r \in Seq(TaggedByte) /\ Len(r) = n - 1
      /\ \A i \in 1..(n - 1) : r[i] = s[i + 1]
  BY SeqTail
<1> HIDE DEF n, r
<1>2. n = 1 + (n - 1) /\ \A i \in 1..(n - 1) : i + 1 = 1 + i
  BY <1>1
<1>3. Len(s) = 1 + Len(r) /\ \A i \in 1..Len(r) : r[i] = s[1 + i]
  BY <1>1, <1>2 DEF n
<1> QED
  BY <1>1, <1>3 DEF EndOf, r

\* The proxy takes what it reads from what has been received.
LEMMA KeepStream ==
    ASSUME HostTypeOK,
           \/ FrameStarts \/ LineStarts \/ ReadFrame \/ ReadLine
           \/ NothingClosed \/ OpenPort \/ RemoteCloses
    PROVE  Stream' = Stream /\ UNCHANGED boardVars
<1> DEFINE TB == Seq(TaggedByte)
<1>1. /\ held \in TB /\ pipe \in TB /\ tx \in TB
      /\ mode \in {"closed", "loop", "recv"} <=> held = <<>>
      /\ mode = "closed" => pipe = <<>>
  BY StreamType
<1>2. CASE FrameStarts \/ LineStarts
  <2>1. /\ mode = "loop" /\ pipe # <<>> /\ UNCHANGED boardVars
        /\ held' = <<Head(pipe)>> /\ pipe' = Tail(pipe) /\ tx' = tx
    BY <1>2 DEF FrameStarts, LineStarts, ReadFirst, First, boardVars
  <2>2. held = <<>>
    BY <1>1, <2>1
  <2>3. <<Head(pipe)>> \o Tail(pipe) = pipe /\ <<>> \o pipe = pipe
    BY <1>1, <2>1, SeqFirst, SeqUnit
  <2> QED
    BY <2>1, <2>2, <2>3 DEF Stream, Joined
<1>3. CASE ReadFrame
  <2> DEFINE n == IF Missing < Len(pipe) THEN Missing ELSE Len(pipe)
  <2>1. /\ n \in 0..Len(pipe) /\ UNCHANGED boardVars /\ tx' = tx
        /\ held' = held \o SubSeq(pipe, 1, n) /\ pipe' = SubSeq(pipe, n + 1, Len(pipe))
    BY <1>1, <1>3, CutFact DEF ReadFrame, boardVars
  <2> HIDE DEF n
  <2>2. Joined(held \o SubSeq(pipe, 1, n), SubSeq(pipe, n + 1, Len(pipe)), tx)
          = Joined(held, pipe, tx)
    <3>1. held \in TB /\ pipe \in TB /\ tx \in TB /\ n \in 0..Len(pipe)
      BY <1>1, <2>1
    <3> QED
      BY <3>1, SeqPassPart
  <2> QED
    BY <2>1, <2>2 DEF Stream
<1>4. CASE ReadLine
  <2>1. /\ pipe # <<>> /\ UNCHANGED boardVars /\ tx' = tx
        /\ held' = Append(held, Head(pipe)) /\ pipe' = Tail(pipe)
    BY <1>4 DEF ReadLine, First, boardVars
  <2>2. Joined(Append(held, Head(pipe)), Tail(pipe), tx) = Joined(held, pipe, tx)
    <3>1. held \in TB /\ pipe \in TB /\ tx \in TB /\ pipe # <<>>
      BY <1>1, <2>1
    <3> QED
      BY <3>1, SeqPassFirst
  <2> QED
    BY <2>1, <2>2 DEF Stream
<1>5. CASE NothingClosed \/ RemoteCloses
  <2>1. mode \in {"loop", "recv"} /\ held' = <<>> /\ UNCHANGED <<pipe, boardVars>>
    BY <1>5 DEF NothingClosed, RemoteCloses, MayRecv, BackToLoop
  <2> QED
    BY <1>1, <2>1 DEF Stream, boardVars
<1>6. CASE OpenPort
  <2>1. mode = "closed" /\ held' = <<>> /\ pipe' = <<>> /\ UNCHANGED boardVars
    BY <1>6 DEF OpenPort, BackToLoop
  <2> QED
    BY <1>1, <2>1 DEF Stream, boardVars
<1> QED
  BY <1>2, <1>3, <1>4, <1>5, <1>6

\* When it is done with a frame, a line or a command, it is done with all it held.
LEMMA LeaveStream ==
    ASSUME HostTypeOK,
           \/ HandleFrame \/ FrameTimeout \/ IgnoreLine \/ RejectLine
           \/ Connects \/ Fetches \/ Fails
    PROVE  /\ EndOf(Stream', Stream, Len(held)) /\ Stream' = pipe \o tx
           /\ UNCHANGED <<boardVars, pipe>> /\ mode' = "loop" /\ held' = <<>>
<1>1. held' = <<>> /\ mode' = "loop" /\ UNCHANGED <<boardVars, pipe>>
  BY DEF HandleFrame, FrameTimeout, IgnoreLine, RejectLine, Connects, Fetches, Fails, BackToLoop
<1>2. UNCHANGED <<pipe, tx>>
  BY <1>1 DEF boardVars
<1>3. EndOf(Stream', Stream, Len(held)) /\ Stream' = pipe \o tx
  BY <1>1, <1>2, StreamDrop
<1> QED
  BY <1>1, <1>3

\* Raw bytes are the first that have been received.
LEMMA RawStream ==
    ASSUME HostTypeOK, NEW n \in 1..Len(pipe), RawBytes(n)
    PROVE  /\ EndOf(Stream', Stream, n) /\ UNCHANGED boardVars
           /\ held = <<>> /\ mode = "loop" /\ mode' # "serve"
           /\ Stream = pipe \o tx
<1> DEFINE TB == Seq(TaggedByte)
           r == SubSeq(pipe, n + 1, Len(pipe))
<1>1. /\ held \in TB /\ pipe \in TB /\ tx \in TB
      /\ mode \in {"closed", "loop", "recv"} <=> held = <<>>
  BY StreamType
<1>2. /\ mode = "loop" /\ pipe' = r /\ UNCHANGED boardVars /\ held' = held /\ mode' # "serve"
  BY DEF RawBytes
<1>3. held = <<>>
  BY <1>1, <1>2
<1>4. n \in 0..Len(pipe)
  <2> DEFINE m == Len(pipe)
  <2>1. m \in Nat /\ n \in 1..m
    BY <1>1, SeqDomain
  <2> HIDE DEF m
  <2> QED
    BY <2>1 DEF m
<1>5. r \in TB /\ EndOf(r, pipe, n)
  BY <1>1, <1>4, EndRest, SeqCut
<1>6. Stream = pipe \o tx /\ Stream' = r \o tx
  <2>1. <<>> \o pipe = pipe /\ <<>> \o r = r
    BY <1>1, <1>5, SeqUnit
  <2> QED
    BY <1>2, <1>3, <2>1 DEF Stream, Joined, boardVars
<1> HIDE DEF r
<1>7. EndOf(r \o tx, pipe \o tx, n)
  BY <1>1, <1>5, EndLonger
<1> QED
  BY <1>2, <1>3, <1>6, <1>7

\* What is stripped in front of a command is not part of it.
LEMMA ServeStream ==
    ASSUME HostTypeOK, Serve
    PROVE  \E d \in Nat :
              /\ EndOf(Stream', Stream, d) /\ EndOf(held', held, d)
              /\ held' \in Seq(TaggedByte) /\ held' # <<>> /\ UNCHANGED <<boardVars, pipe>>
              /\ IsC(held'[1].val)
<1> DEFINE TB == Seq(TaggedByte)
           h == held'
           n == Len(held)
           q == Len(h)
           y == pipe \o tx
<1>1. held \in TB /\ y \in TB /\ pipe \in TB /\ tx \in TB /\ Stream = held \o y
  BY StreamSplit
<1>2. h \in TB /\ h # <<>> /\ UNCHANGED <<boardVars, pipe, tx>>
  BY ServeFact DEF boardVars
<1>3. PICK k \in 1..n :
         /\ IsC(held[k].val) /\ q = n + 1 - k /\ \A i \in 1..q : h[i] = held[k + i - 1]
  BY ServeFact
<1>4. n \in Nat /\ q \in Nat /\ q # 0
  BY <1>1, <1>2, SeqDomain, SeqEmpty
<1> DEFINE d == k - 1
<1>5. d \in Nat /\ n = d + q /\ 1 \in 1..q /\ k + 1 - 1 = k
      /\ \A i \in 1..q : k + i - 1 = d + i
  <2> HIDE DEF n, q
  <2> QED
    BY <1>3, <1>4 DEF n
<1> HIDE DEF d
<1>6. EndOf(h, held, d)
  BY <1>3, <1>5 DEF EndOf
<1>7. IsC(h[1].val)
  BY <1>3, <1>5
<1>8. Stream' = h \o y
  <2> DEFINE g == h
  <2>1. g \in TB /\ pipe \in TB /\ tx \in TB
    BY <1>1, <1>2
  <2> HIDE DEF g
  <2>2. (g \o pipe) \o tx = g \o (pipe \o tx)
    BY SMTT(60), <2>1, SeqAssoc
  <2> QED
    BY <1>2, <2>2 DEF Stream, Joined, g
<1> HIDE DEF y, h
<1>9. EndOf(h \o y, held \o y, d)
  BY <1>1, <1>2, <1>6, EndLonger
<1> QED
  BY <1>1, <1>2, <1>5, <1>6, <1>7, <1>8, <1>9 DEF h

\* With the process its input is gone.
LEMMA GoneStream ==
    ASSUME HostTypeOK, ProxyGone
    PROVE  /\ EndOf(Stream', Stream, Len(held \o pipe)) /\ UNCHANGED boardVars
           /\ mode' = "closed" /\ ~Connected' /\ delivered' = <<>>
<1> DEFINE TB == Seq(TaggedByte)
           h == held \o pipe
<1>1. held \in TB /\ pipe \in TB /\ tx \in TB /\ h \in TB
  BY StreamType, SeqConcat
<1>2. /\ held' = <<>> /\ pipe' = <<>> /\ UNCHANGED boardVars
      /\ mode' = "closed" /\ ~Connected' /\ delivered' = <<>>
  BY DEF ProxyGone, ClosePort, CloseSocket, Connected
<1>3. Stream' = tx
  <2>1. <<>> \o <<>> = <<>> /\ <<>> \o tx = tx
    BY <1>1, SeqNone, SeqUnit
  <2> QED
    BY <1>2, <2>1 DEF Stream, Joined, boardVars
<1>4. Stream = h \o tx
  BY DEF Stream, Joined
<1> HIDE DEF h
<1>5. EndOf(tx, h \o tx, Len(h))
  BY <1>1, EndConcat
<1> QED
  BY <1>2, <1>3, <1>4, <1>5 DEF h

\* What Sent says of two bytes.
LEMMA SentElim ==
    ASSUME NEW s \in Seq(TaggedByte), NEW b, NEW n, Sent(s, b, n), NEW k \in 1..Len(s)
    PROVE  /\ s[k] \in TaggedByte /\ Genuine(s[k]) /\ Past(s[k], b, n)
           /\ s[k].boot \in Nat /\ s[k].item \in Nat /\ s[k].off \in Nat \ {0}
           /\ s[k].item \in DOMAIN Script /\ Size(s[k]) \in Nat \ {0} /\ s[k].off <= Size(s[k])
           /\ \A l \in 1..Len(s) : k < l => Follows(s[k], s[l], l - k)
           /\ k = Len(s) => s[k].boot < b \/ s[k].off = Size(s[k])
<1>1. s[k] \in TaggedByte /\ Genuine(s[k]) /\ Past(s[k], b, n)
  BY SeqElt DEF Sent
<1>2. /\ s[k].boot \in Nat /\ s[k].item \in Nat /\ s[k].off \in Nat \ {0}
      /\ s[k].item \in DOMAIN Script /\ Size(s[k]) \in Nat \ {0}
  BY <1>1, ByteNat
<1>3. s[k].off <= Size(s[k])
  BY <1>1 DEF Genuine
<1>4. /\ \A l \in 1..Len(s) : k < l => Follows(s[k], s[l], l - k)
      /\ k = Len(s) => s[k].boot < b \/ s[k].off = Size(s[k])
  BY DEF Sent
<1> QED
  BY <1>1, <1>2, <1>3, <1>4

\* Bytes that no item begins between are of one item.
LEMMA OneItem ==
    ASSUME NEW s \in Seq(TaggedByte), NEW b, NEW n, Sent(s, b, n),
           NEW i \in 1..Len(s), NEW k \in 1..Len(s), i <= k,
           \A j \in 1..Len(s) : i < j /\ j <= k => s[j].off # 1
    PROVE  s[k].boot = s[i].boot /\ s[k].item = s[i].item /\ s[k].off = s[i].off + (k - i)
<1> DEFINE p == Len(s)
           x == s[i]
           y == s[k]
           bx == x.boot
           by == y.boot
           ox == x.off
           oy == y.off
           zx == Size(x)
<1>1. p \in Nat /\ i \in 1..p /\ k \in 1..p
  BY SeqDomain
<1>2. /\ bx \in Nat /\ ox \in Nat \ {0} /\ zx \in Nat \ {0} /\ ox <= zx
      /\ by \in Nat /\ oy \in Nat \ {0}
  BY SentElim
<1>3. i < k => Follows(x, y, k - i)
  BY SentElim
<1>4. i = k => x = y
  OBVIOUS
<1>5. ASSUME i < k PROVE ~(oy <= k - i)
  <2> SUFFICES ASSUME oy <= k - i PROVE FALSE
    OBVIOUS
  <2> DEFINE j == (k - oy) + 1
             v == s[j]
             ov == v.off
             zv == Size(v)
  <2>1. j \in 1..p /\ i < j /\ j <= k /\ (j < k => k - j = oy - 1) /\ (j = k => oy = 1)
    <3> HIDE DEF p, oy
    <3> QED
      BY <1>1, <1>2, <1>5
  <2> HIDE DEF j
  <2>2. ov # 1 /\ (j = k => v = y)
    BY <2>1
  <2>3. v.boot \in Nat /\ ov \in Nat \ {0} /\ zv \in Nat \ {0} /\ ov <= zv
    BY <2>1, SentElim
  <2>4. j < k => Follows(v, y, oy - 1)
    BY SMTT(60), <2>1, SentElim
  <2> HIDE DEF v, y
  <2>5. j < k => ov = 1
    BY SMTT(60), <1>2, <2>3, <2>4 DEF Follows
  <2>6. j = k => ov = 1
    BY <2>1, <2>2
  <2>7. j < k \/ j = k
    BY <1>1, <2>1
  <2> QED
    BY <2>2, <2>5, <2>6, <2>7
<1> HIDE DEF x, y
<1>6. CASE i < k
  BY <1>1, <1>2, <1>3, <1>5, <1>6 DEF Follows, x, y
<1>7. CASE i = k
  <2>1. k - i = 0 /\ ox + 0 = ox
    BY <1>1, <1>2, <1>7
  <2> QED
    BY <1>4, <2>1, <1>7 DEF x, y
<1> QED
  BY <1>1, <1>6, <1>7

\* The values an item may begin with.
LEMMA FirstValue ==
    ASSUME NEW x \in TaggedByte, Genuine(x), x.off = 1
    PROVE  IsC(x.val) \/ IsFrame(x.val)
<1>1. x.val = Encoded[x.item][1] /\ x.item \in DOMAIN Script
  BY ByteNat DEF Genuine
<1> QED
  BY <1>1, EncodedFact

\* Nothing has been sent at the beginning.
LEMMA SentInit == Init => Sent(Stream, boot, step)
<1> SUFFICES ASSUME Init PROVE Sent(Stream, boot, step)
  OBVIOUS
<1>1. held = <<>> /\ pipe = <<>> /\ tx = <<>>
  BY DEF Init, BytesInit, InputInit
<1>2. Stream = <<>>
  <2>1. <<>> \o <<>> = <<>>
    OBVIOUS
  <2> QED
    BY <1>1, <2>1 DEF Stream, Joined
<1> DEFINE s == <<>>
<1>3. 1..Len(s) = {}
  OBVIOUS
<1> HIDE DEF s
<1>4. Sent(s, boot, step)
  BY <1>3 DEF Sent
<1> QED
  BY <1>2, <1>4 DEF s

\* The stream after a step.
LEMMA StreamTypeNext ==
    ASSUME HostTypeOK'
    PROVE  Stream' \in Seq(TaggedByte) /\ held' \in Seq(TaggedByte)
<1> DEFINE TB == Seq(TaggedByte)
           h == held'
           p == pipe'
           x == tx'
<1>1. h \in TB /\ p \in TB /\ x \in TB
  BY DEF HostTypeOK, InputTypeOK, BytesTypeOK
<1>2. Stream' = (h \o p) \o x
  BY DEF Stream, Joined
<1> HIDE DEF h, p, x
<1>3. (h \o p) \o x \in TB
  BY <1>1, SeqConcat
<1> QED
  BY <1>1, <1>2, <1>3 DEF h

\* Each step keeps what Sent says of the stream.
LEMMA SentStep ==
    ASSUME HostTypeOK, Sent(Stream, boot, step), HostTypeOK', HostStep
    PROVE  Sent(Stream', boot', step')
<1>1. /\ Stream \in Seq(TaggedByte) /\ Stream' \in Seq(TaggedByte)
      /\ boot \in Nat /\ step \in Nat
  <2>1. Stream \in Seq(TaggedByte) /\ boot \in Nat /\ step \in Nat
    BY StreamType
  <2>2. Stream' \in Seq(TaggedByte)
    BY StreamTypeNext
  <2> QED
    BY <2>1, <2>2
<1>2. ASSUME NEW d, EndOf(Stream', Stream, d), UNCHANGED boardVars
      PROVE  Sent(Stream', boot', step')
  <2>1. boot' = boot /\ step' = step
    BY <1>2 DEF boardVars
  <2> QED
    BY <1>1, <1>2, <2>1, SentDrop
<1>3. CASE UNCHANGED <<byteVars, inputVars>>
  BY <1>3 DEF byteVars, boardVars, inputVars, Stream, Joined
<1>4. CASE Board /\ UNCHANGED inputVars
  <2>1. CASE Sends(step)
    BY <1>1, <2>1, SentMore DEF Sends
  <2>2. CASE Stream' = Stream /\ boot' = boot /\ step' = step
    BY <2>2
  <2>3. CASE Stream' = Stream /\ boot' = boot /\ step' = step + 1
    BY <1>1, <2>3, SentSkip
  <2> QED
    BY <1>4, <2>1, <2>2, <2>3, BoardStream
<1>5. CASE Transmit(mode # "closed") /\ UNCHANGED inputVars
  <2>1. CASE Stream' = Stream
    BY <1>5, <2>1, TransmitStream
  <2>2. CASE EndOf(Stream', Stream, 1)
    BY <1>1, <1>5, <2>2, TransmitStream, SentDrop
  <2> QED
    BY <1>5, <2>1, <2>2, TransmitStream
<1>6. CASE ResetBoard /\ UNCHANGED inputVars
  BY <1>1, <1>6, ResetStream, SentCut
<1>7. CASE \/ FrameStarts \/ LineStarts \/ ReadFrame \/ ReadLine
           \/ NothingClosed \/ OpenPort \/ RemoteCloses
  BY <1>7, KeepStream DEF boardVars
<1>8. CASE \/ HandleFrame \/ FrameTimeout \/ IgnoreLine \/ RejectLine
           \/ Connects \/ Fetches \/ Fails
  BY <1>2, <1>8, LeaveStream
<1>9. CASE \E n \in 1..Len(pipe) : RawBytes(n)
  BY <1>2, <1>9, RawStream
<1>10. CASE ServeLine
  BY <1>2, <1>10, ServeStream DEF ServeLine
<1>11. CASE ProxyGone
  BY <1>2, <1>11, GoneStream
<1> QED
  BY <1>3, <1>4, <1>5, <1>6, <1>7, <1>8, <1>9, <1>10, <1>11 DEF HostStep, ReadUart

\* A line that ends with its newline is there to its last byte.
LEMMA LineWhole ==
    ASSUME NEW x \in TaggedByte, Genuine(x), Kind(x) = "line", x.val = LF
    PROVE  x.off = Size(x)
<1>1. x.item \in DOMAIN Script /\ x.off \in Nat \ {0} /\ x.off <= Size(x)
      /\ Size(x) \in Nat \ {0} /\ x.val = Encoded[x.item][x.off]
  BY ByteNat DEF Genuine
<1>2. x.off \in 1..Len(Encoded[x.item])
  BY <1>1 DEF Size
<1> QED
  BY <1>1, <1>2, EncodedFact DEF Kind, Size

\* The stream after a step, from what is held on.
LEMMA StreamSplitNext ==
    ASSUME HostTypeOK'
    PROVE  Stream' = held' \o (pipe' \o tx') /\ pipe' \o tx' \in Seq(TaggedByte)
<1> DEFINE TB == Seq(TaggedByte)
           h == held'
           p == pipe'
           x == tx'
<1>1. h \in TB /\ p \in TB /\ x \in TB
  BY DEF HostTypeOK, InputTypeOK, BytesTypeOK
<1>2. Stream' = (h \o p) \o x
  BY DEF Stream, Joined
<1> HIDE DEF h, p, x
<1>3. (h \o p) \o x = h \o (p \o x) /\ p \o x \in TB
  BY SMTT(60), <1>1, SeqAssoc, SeqConcat
<1> QED
  BY <1>2, <1>3 DEF h, p, x

\* What item j adds to the number of bytes sent in the session.
CountNext(v, j) ==
    IF Script[j].kind = "line" THEN 0
    ELSE IF Script[j].kind = "data" THEN v + Len(Script[j].text)
    ELSE v

\* The kinds and lengths of the items.
LEMMA EntryFact ==
    ASSUME NEW j \in DOMAIN Script
    PROVE  /\ Script[j].kind \in {"log", "data", "line"} /\ Len(Script[j].text) \in Nat
           /\ Script[j].kind # "line" => Len(Encoded[j]) = 3 + Len(Script[j].text)
           /\ Script[j].kind = "line" => Encoded[j] = Script[j].text
           /\ Script[j].kind = "data" <=> Encoded[j][1] = UART_FRAME_DATA
           /\ Script[j].kind = "log" <=> Encoded[j][1] = UART_FRAME_LOG
<1> DEFINE e == Script[j]
           t == e.text
<1>1. e.kind \in {"log", "data", "line"} /\ t \in Seq(ByteValue) /\ Len(t) \in 1..1024
  <2>1. e \in Entry
    BY BytesAssumption
  <2>2. Len(t) \in 1..1024
    BY ZenonT(60), TextAssumption DEF UART_TX_CHUNK_MAX
  <2> QED
    BY ZenonT(60), <2>1, <2>2 DEF Entry
<1>2. e.kind = "log" => /\ Encoded[j] = Frame(UART_FRAME_LOG, t)
                        /\ Len(Encoded[j]) = 3 + Len(t) /\ Encoded[j][1] = UART_FRAME_LOG
  <2> HIDE DEF t
  <2>1. e.kind = "log" => Encoded[j] = Frame(UART_FRAME_LOG, t)
    BY DEF Encoded, t
  <2>2. Len(Frame(UART_FRAME_LOG, t)) = 3 + Len(t) /\ Frame(UART_FRAME_LOG, t)[1] = UART_FRAME_LOG
    BY ZenonT(60), <1>1, FrameFact, TypeBytes
  <2> HIDE DEF e
  <2> QED
    BY <2>1, <2>2
<1>3. e.kind = "data" => /\ Encoded[j] = Frame(UART_FRAME_DATA, t)
                         /\ Len(Encoded[j]) = 3 + Len(t) /\ Encoded[j][1] = UART_FRAME_DATA
  <2> HIDE DEF t
  <2>1. e.kind = "data" => Encoded[j] = Frame(UART_FRAME_DATA, t)
    BY DEF Encoded, t
  <2>2. Len(Frame(UART_FRAME_DATA, t)) = 3 + Len(t) /\ Frame(UART_FRAME_DATA, t)[1] = UART_FRAME_DATA
    BY ZenonT(60), <1>1, FrameFact, TypeBytes
  <2> HIDE DEF e
  <2> QED
    BY <2>1, <2>2
<1>4. e.kind = "line" => Encoded[j] = t
  BY DEF Encoded
<1>5. e.kind = "line" => IsC(Encoded[j][1])
  BY EncodedFact
<1>6. Len(t) \in Nat
  BY ZenonT(60), <1>1, SeqDomain
<1>7. UART_FRAME_LOG # UART_FRAME_DATA /\ ~IsC(UART_FRAME_LOG) /\ ~IsC(UART_FRAME_DATA)
  BY DEF UART_FRAME_LOG, UART_FRAME_DATA, IsC
<1> HIDE DEF t
<1> QED
  BY ZenonT(60), <1>1, <1>2, <1>3, <1>4, <1>5, <1>6, <1>7 DEF t

\* DataBefore counts item by item.
LEMMA DataBeforeNext ==
    ASSUME NEW j \in DOMAIN Script
    PROVE  /\ DataBefore[j] \in Nat
           /\ DataBefore[j + 1] = CountNext(DataBefore[j], j)
<1> DEFINE n == Len(Script)
           Body(f) == [i \in 1..(n + 1) |-> IF i = 1 \/ Script[i - 1].kind = "line" THEN 0
                          ELSE IF Script[i - 1].kind = "data"
                               THEN f[i - 1] + Len(Script[i - 1].text)
                          ELSE f[i - 1]]
           F == CHOOSE f : f = Body(f)
<1>1. n \in Nat /\ DOMAIN Script = 1..n
  BY BytesAssumption, SeqDomain
<1>2. DataBefore = F
  BY Zenon DEF DataBefore
<1>3. \A i \in 1..n, v \in Nat : CountNext(v, i) \in Nat
  <2> TAKE i \in 1..n, v \in Nat
  <2>1. Script[i].kind \in {"log", "data", "line"} /\ Len(Script[i].text) \in Nat
    BY <1>1, EntryFact
  <2> DEFINE k == Script[i].kind
             m == Len(Script[i].text)
  <2>2. CountNext(v, i) = IF k = "line" THEN 0 ELSE IF k = "data" THEN v + m ELSE v
    BY DEF CountNext
  <2> HIDE DEF k, m
  <2> QED
    BY <2>1, <2>2 DEF k, m
<1> HIDE DEF n
<1>4. PICK h : Computes(h, Nat, 0, n, [i \in 1..n |-> [v \in Nat |-> CountNext(v, i)]])
  <2> DEFINE St == [i \in 1..n |-> [v \in Nat |-> CountNext(v, i)]]
  <2>1. St \in [1..n -> [Nat -> Nat]] /\ 0 \in Nat
    BY <1>3
  <2> HIDE DEF St
  <2>2. \E h : Computes(h, Nat, 0, n, St)
    BY <1>1, <2>1, NatRecursion
  <2> QED
    BY <2>2 DEF St
<1>5. h \in [0..n -> Nat] /\ h[0] = 0 /\ \A i \in 1..n : h[i] = CountNext(h[i - 1], i)
  <2> DEFINE St == [i \in 1..n |-> [v \in Nat |-> CountNext(v, i)]]
  <2>1. \A i \in 1..n, v \in Nat : St[i][v] = CountNext(v, i)
    OBVIOUS
  <2> HIDE DEF St
  <2>2. h \in [0..n -> Nat] /\ h[0] = 0 /\ \A i \in 1..n : h[i] = St[i][h[i - 1]]
    BY <1>4 DEF Computes, St
  <2>3. \A i \in 1..n : h[i - 1] \in Nat
    BY SMTT(60), <1>1, <2>2
  <2> QED
    BY <2>1, <2>2, <2>3
<1> DEFINE f == [i \in 1..(n + 1) |-> h[i - 1]]
<1>6. f = Body(f)
  <2>1. ASSUME NEW i \in 1..(n + 1)
        PROVE  f[i] = IF i = 1 \/ Script[i - 1].kind = "line" THEN 0
                      ELSE IF Script[i - 1].kind = "data"
                           THEN f[i - 1] + Len(Script[i - 1].text)
                      ELSE f[i - 1]
    <3>1. CASE i = 1
      BY <1>1, <1>5, <3>1
    <3>2. CASE i # 1
      <4>1. i - 1 \in 1..n /\ i - 1 \in 1..(n + 1)
        BY <1>1, <3>2
      <4>2. f[i] = h[i - 1] /\ f[i - 1] = h[(i - 1) - 1]
        BY <4>1
      <4> HIDE DEF f
      <4>3. f[i] = CountNext(f[i - 1], i - 1)
        BY <1>5, <4>1, <4>2
      <4> QED
        BY <3>2, <4>3 DEF CountNext
    <3> QED
      BY <3>1, <3>2
  <2>2. f = [i \in 1..(n + 1) |-> f[i]]
    OBVIOUS
  <2> HIDE DEF f
  <2> QED
    BY <2>1, <2>2
<1>7. F = Body(F)
  <2> HIDE DEF f, Body
  <2> QED
    BY <1>6
<1> HIDE DEF F
<1>8. /\ F[1] = 0
      /\ \A i \in 1..n : F[i + 1] = CountNext(F[i], i)
  <2>1. 1 \in 1..(n + 1)
    BY <1>1
  <2>2. F[1] = 0
    BY <1>7, <2>1
  <2>3. ASSUME NEW i \in 1..n PROVE F[i + 1] = CountNext(F[i], i)
    <3>1. i + 1 \in 1..(n + 1) /\ i + 1 # 1 /\ (i + 1) - 1 = i
      BY <1>1
    <3> QED
      BY ZenonT(60), <1>7, <3>1 DEF CountNext
  <2> QED
    BY <2>2, <2>3
<1>9. \A i \in 1..n : F[i] \in Nat
  <2> DEFINE T == {i \in Nat : i + 1 \in 1..n => F[i + 1] \in Nat}
  <2>1. 0 \in T
    BY <1>8
  <2>2. ASSUME NEW i \in 0..n, i \in T, i < n PROVE i + 1 \in T
    <3> SUFFICES ASSUME (i + 1) + 1 \in 1..n PROVE F[(i + 1) + 1] \in Nat
      BY <2>2
    <3>1. i + 1 \in 1..n
      BY <1>1, <2>2
    <3>2. F[i + 1] \in Nat
      BY <2>2, <3>1
    <3>3. F[(i + 1) + 1] = CountNext(F[i + 1], i + 1)
      BY <1>8, <3>1
    <3> QED
      BY <1>3, <3>1, <3>2, <3>3
  <2>3. \A i \in 0..n : i \in T
    <3> HIDE DEF T
    <3> QED
      BY <1>1, <2>1, <2>2, NatUpTo
  <2>4. ASSUME NEW i \in 1..n PROVE F[i] \in Nat
    <3>1. i - 1 \in 0..n /\ (i - 1) + 1 = i
      BY <1>1
    <3> QED
      BY <2>3, <3>1
  <2> QED
    BY <2>4
<1> QED
  BY <1>1, <1>2, <1>8, <1>9

(***************************************************************************)
(* Sessions.                                                               *)
(***************************************************************************)

\* No command line begins after item a, up to item b.
Fresh(a, b) == \A i \in DOMAIN Script : a < i /\ i <= b => Script[i].kind # "line"

\* What comes after the k-th byte of s when item n of boot b is next.
After(s, k, b, n) == IF k < Len(s) THEN s[k + 1] ELSE [boot |-> b, item |-> n]

\* What the TLS client sends in the session of x's item is at l, or still to come.
Reaches(s, l, x, b, n, live) ==
    \/ l <= Len(s) /\ s[l].boot = x.boot /\ Kind(s[l]) = "data" /\ Fresh(x.item, s[l].item)
    \/ l = Len(s) + 1 /\ live /\ b = x.boot /\ Fresh(x.item, n - 1)

\* The board leaves out no line, and nothing before a chunk of data of the session.
NoGapAt(s, k, b, n, live) ==
    /\ After(s, k, b, n).boot = s[k].boot => Fresh(s[k].item, After(s, k, b, n).item - 1)
    /\ After(s, k, b, n).boot = s[k].boot
          /\ (\E l \in 1..(Len(s) + 1) : k < l /\ Reaches(s, l, s[k], b, n, live))
       => After(s, k, b, n).item <= s[k].item + 1

NoGap(s, b, n, live) == \A k \in 1..Len(s) : NoGapAt(s, k, b, n, live)

\* What comes first is of a later run, or the beginning of an item after command c
\* with no other command between.
InSessionOf(c, s, b, n) ==
    \/ c.boot < After(s, 0, b, n).boot
    \/ /\ c.boot = After(s, 0, b, n).boot /\ c.item < After(s, 0, b, n).item
       /\ Fresh(c.item, After(s, 0, b, n).item - 1)
       /\ \A k \in 1..Len(s) : k = 1 => s[k].off = 1

\* v bytes of the session are before what comes first, if more of it follow.
Counted(c, s, b, n, live, v) ==
    /\ After(s, 0, b, n).boot = c.boot
    /\ \E l \in 1..(Len(s) + 1) : Reaches(s, l, c, b, n, live)
    => v = DataBefore[After(s, 0, b, n).item]

\* What is known of the connection.
Follow(c, s, b, n, live, v) ==
    Past(c, b, n) /\ InSessionOf(c, s, b, n) /\ Counted(c, s, b, n, live, v)

\* Byte x may be the n-th that connection c receives, and d all of them.
OwnAt(c, x, n) == x.boot > c.boot \/ (x.boot = c.boot /\ InSession(x, c.item, n))
OwnBytes(c, d) == \A n \in 1..Len(d) : OwnAt(c, d[n], n)

\* A connection that one of the board's lines opened has a claim on its session.
Claims(c) == c # NoConn /\ Script[c.item].kind = "line"

\* What is known of s, and of connection c after v bytes.
InSequence(c, s, b, n, live, v) ==
    /\ NoGap(s, b, n, live)
    /\ Claims(c) => Follow(c, s, b, n, live, v)

\* The inductive invariant for OwnBytesFirst.
SessionInv ==
    /\ InSequence(conn, Stream, boot, step, Live, Len(delivered))
    /\ ~Connected => delivered = <<>>
    /\ Claims(conn) => OwnBytes(conn, delivered)

-----------------------------------------------------------------------------
\* Up to where no command begins.
LEMMA FreshLess ==
    ASSUME NEW a \in Nat, NEW b \in Int, NEW c \in Int, Fresh(a, b), c <= b
    PROVE  Fresh(a, c)
<1>1. \A i \in DOMAIN Script : i \in Nat
  BY BytesAssumption, SeqDomain
<1>2. ASSUME NEW i \in DOMAIN Script, a < i, i <= c PROVE i <= b
  BY <1>1, <1>2
<1> QED
  BY <1>2 DEF Fresh

\* One more item.
LEMMA FreshMore ==
    ASSUME NEW a \in Nat, NEW n \in DOMAIN Script, Fresh(a, n - 1), Script[n].kind # "line"
    PROVE  Fresh(a, n)
<1>1. n \in Nat /\ \A i \in DOMAIN Script : i \in Nat
  BY BytesAssumption, SeqDomain
<1>2. ASSUME NEW i \in DOMAIN Script, a < i, i <= n PROVE i <= n - 1 \/ i = n
  BY <1>1, <1>2
<1> QED
  BY <1>2 DEF Fresh

\* From a later item on.
LEMMA FreshFrom ==
    ASSUME NEW a \in Nat, NEW c \in Nat, NEW b \in Int, Fresh(a, b), a <= c
    PROVE  Fresh(c, b)
<1>1. \A i \in DOMAIN Script : i \in Nat
  BY BytesAssumption, SeqDomain
<1>2. ASSUME NEW i \in DOMAIN Script, c < i PROVE a < i
  BY <1>1, <1>2
<1> QED
  BY <1>2 DEF Fresh

\* Two pieces.
LEMMA FreshJoin ==
    ASSUME NEW a \in Nat, NEW c \in Nat, NEW b \in Int, Fresh(a, c), Fresh(c, b)
    PROVE  Fresh(a, b)
<1>1. \A i \in DOMAIN Script : i \in Nat
  BY BytesAssumption, SeqDomain
<1>2. ASSUME NEW i \in DOMAIN Script, a < i, i <= b PROVE (a < i /\ i <= c) \/ (c < i /\ i <= b)
  BY <1>1, <1>2
<1> QED
  BY <1>2 DEF Fresh

\* None.
LEMMA FreshNone ==
    ASSUME NEW a \in Nat, NEW b \in Int, b <= a
    PROVE  Fresh(a, b)
<1>1. \A i \in DOMAIN Script : i \in Nat
  BY BytesAssumption, SeqDomain
<1>2. ASSUME NEW i \in DOMAIN Script, a < i, i <= b PROVE FALSE
  BY <1>1, <1>2
<1> QED
  BY <1>2 DEF Fresh

\* What comes after a byte, when there is another one and when there is none.
LEMMA AfterFact ==
    ASSUME NEW s \in Seq(TaggedByte), NEW k \in 0..Len(s), NEW b, NEW n
    PROVE  /\ k < Len(s) => After(s, k, b, n) = s[k + 1] /\ k + 1 \in 1..Len(s)
           /\ k = Len(s) => After(s, k, b, n).boot = b /\ After(s, k, b, n).item = n
           /\ k < Len(s) \/ k = Len(s)
<1> DEFINE p == Len(s)
<1>1. p \in Nat /\ k \in 0..p
  BY SeqDomain
<1> HIDE DEF p
<1>2. (k < p => k + 1 \in 1..p) /\ (k = p => ~(k < p)) /\ (k < p \/ k = p)
  BY <1>1
<1> QED
  BY <1>2 DEF After, p

\* Dropping bytes.
LEMMA AfterDrop ==
    ASSUME NEW s \in Seq(TaggedByte), NEW t \in Seq(TaggedByte), NEW d, EndOf(t, s, d),
           NEW k \in 0..Len(t), NEW b, NEW n
    PROVE  After(t, k, b, n) = After(s, d + k, b, n) /\ d + k \in 0..Len(s)
<1> DEFINE p == Len(s)
           q == Len(t)
<1>1. p \in Nat /\ q \in Nat /\ d \in Nat /\ p = d + q /\ \A i \in 1..q : t[i] = s[d + i]
  BY SeqDomain DEF EndOf
<1>2. /\ d + k \in 0..p /\ (k < q <=> d + k < p) /\ (k < q => k + 1 \in 1..q)
      /\ d + (k + 1) = (d + k) + 1
  <2> HIDE DEF p, q
  <2>1. k \in 0..q
    BY DEF q
  <2> QED
    BY <1>1, <2>1
<1>3. k < q => t[k + 1] = s[(d + k) + 1]
  BY SMTT(60), <1>1, <1>2
<1> QED
  BY <1>2, <1>3 DEF After

\* What is reached after the first bytes is reached from the beginning.
LEMMA ReachesDrop ==
    ASSUME NEW s \in Seq(TaggedByte), NEW t \in Seq(TaggedByte), NEW d, EndOf(t, s, d),
           NEW l \in 1..(Len(t) + 1), NEW x, NEW b, NEW n, NEW live, Reaches(t, l, x, b, n, live)
    PROVE  Reaches(s, d + l, x, b, n, live) /\ d + l \in 1..(Len(s) + 1)
<1> DEFINE p == Len(s)
           q == Len(t)
<1>1. p \in Nat /\ q \in Nat /\ d \in Nat /\ p = d + q /\ \A i \in 1..q : t[i] = s[d + i]
  BY SeqDomain DEF EndOf
<1>2. /\ d + l \in 1..(p + 1) /\ (l <= q => d + l <= p /\ l \in 1..q)
      /\ (l = q + 1 => d + l = p + 1)
  <2> HIDE DEF p, q
  <2>1. l \in 1..(q + 1)
    BY DEF q
  <2> QED
    BY <1>1, <2>1
<1>3. l <= q => t[l] = s[d + l]
  BY <1>1, <1>2
<1> QED
  BY <1>2, <1>3 DEF Reaches

\* Dropping bytes makes no gap.
LEMMA NoGapDrop ==
    ASSUME NEW s \in Seq(TaggedByte), NEW t \in Seq(TaggedByte), NEW d, EndOf(t, s, d),
           NEW b, NEW n, NEW live, NoGap(s, b, n, live)
    PROVE  NoGap(t, b, n, live)
<1> DEFINE p == Len(s)
           q == Len(t)
<1>1. p \in Nat /\ q \in Nat /\ d \in Nat /\ p = d + q
  BY SeqDomain DEF EndOf
<1>2. ASSUME NEW k \in 1..q PROVE NoGapAt(t, k, b, n, live)
  <2>1. t[k] = s[d + k]
    BY DEF EndOf
  <2>2. d + k \in 1..p /\ k \in 0..q
    <3> HIDE DEF p, q
    <3> QED
      BY <1>1
  <2>3. After(t, k, b, n) = After(s, d + k, b, n)
    BY <2>2, AfterDrop
  <2>4. NoGapAt(s, d + k, b, n, live)
    BY <2>2 DEF NoGap
  <2>5. ASSUME NEW l \in 1..(q + 1), k < l, Reaches(t, l, t[k], b, n, live)
        PROVE  \E i \in 1..(p + 1) : d + k < i /\ Reaches(s, i, s[d + k], b, n, live)
    <3>1. Reaches(s, d + l, t[k], b, n, live) /\ d + l \in 1..(p + 1)
      BY <2>5, ReachesDrop
    <3>2. d + k < d + l
      <4> HIDE DEF q
      <4> QED
        BY <1>1, <2>5
    <3> HIDE DEF p
    <3> QED
      BY <2>1, <3>1, <3>2
  <2> QED
    BY <2>1, <2>3, <2>4, <2>5 DEF NoGapAt
<1> QED
  BY <1>2 DEF NoGap

\* Nothing has to be known when nothing can follow.
LEMMA ReachesLess ==
    ASSUME NEW s, NEW l, NEW x, NEW b, NEW n, NEW live, NEW less, less => live,
           Reaches(s, l, x, b, n, less)
    PROVE  Reaches(s, l, x, b, n, live)
BY DEF Reaches

\* The same of gaps ...
LEMMA NoGapLess ==
    ASSUME NEW s \in Seq(TaggedByte), NEW b, NEW n, NEW live, NEW less, less => live,
           NoGap(s, b, n, live)
    PROVE  NoGap(s, b, n, less)
<1>1. ASSUME NEW k \in 1..Len(s) PROVE NoGapAt(s, k, b, n, less)
  <2>1. NoGapAt(s, k, b, n, live)
    BY DEF NoGap
  <2>2. \A l \in 1..(Len(s) + 1) : Reaches(s, l, s[k], b, n, less) => Reaches(s, l, s[k], b, n, live)
    BY ReachesLess
  <2> QED
    BY <2>1, <2>2 DEF NoGapAt
<1> QED
  BY <1>1 DEF NoGap

\* ... and of a connection.
LEMMA FollowLess ==
    ASSUME NEW c, NEW s, NEW b, NEW n, NEW live, NEW less, NEW v, less => live,
           Follow(c, s, b, n, live, v)
    PROVE  Follow(c, s, b, n, less, v)
<1>1. \A l \in 1..(Len(s) + 1) : Reaches(s, l, c, b, n, less) => Reaches(s, l, c, b, n, live)
  BY ReachesLess
<1> QED
  BY <1>1 DEF Follow, Counted

\* Boots only grow.
LEMMA BootsGrow ==
    ASSUME NEW s \in Seq(TaggedByte), NEW b \in Nat, NEW n, Sent(s, b, n),
           NEW i \in 0..Len(s), NEW k \in 0..Len(s), i <= k
    PROVE  /\ After(s, i, b, n).boot \in Nat /\ After(s, k, b, n).boot \in Nat
           /\ After(s, i, b, n).boot <= After(s, k, b, n).boot
<1> DEFINE p == Len(s)
           x == After(s, i, b, n)
           y == After(s, k, b, n)
<1>1. p \in Nat /\ i \in 0..p /\ k \in 0..p
  BY SeqDomain
<1>2. /\ i < p => x = s[i + 1] /\ i + 1 \in 1..p
      /\ i = p => x.boot = b
      /\ i < p \/ i = p
  BY AfterFact
<1>3. /\ k < p => y = s[k + 1] /\ k + 1 \in 1..p
      /\ k = p => y.boot = b
      /\ k < p \/ k = p
  BY AfterFact
<1>4. i < p => x.boot \in Nat /\ x.boot <= b
  <2>1. i < p => x.boot \in Nat /\ Past(x, b, n)
    BY <1>2, SentElim
  <2> HIDE DEF x
  <2> QED
    BY <2>1 DEF Past
<1>5. k < p => y.boot \in Nat
  BY <1>3, SentElim
<1>6. i < k /\ k < p => Follows(x, y, (k + 1) - (i + 1))
  <2>1. i < k /\ k < p => i < p /\ i + 1 < k + 1
    <3> HIDE DEF p
    <3> QED
      BY <1>1
  <2> QED
    BY SMTT(60), <1>2, <1>3, <2>1, SentElim
<1>7. i = k => x = y
  OBVIOUS
<1> HIDE DEF p, x, y
<1>8. i < k /\ k < p => x.boot <= y.boot
  BY <1>1, <1>4, <1>5, <1>6 DEF Follows
<1>9. x.boot \in Nat /\ y.boot \in Nat
  BY <1>2, <1>3, <1>4, <1>5
<1>10. x.boot <= y.boot
  BY <1>1, <1>2, <1>3, <1>4, <1>7, <1>8, <1>9
<1> QED
  BY <1>9, <1>10 DEF x, y

\* What is of a later run is followed by later runs only.
LEMMA FollowLater ==
    ASSUME NEW c, c.boot \in Nat, NEW s \in Seq(TaggedByte), NEW t \in Seq(TaggedByte),
           NEW b \in Nat, NEW n, NEW live, NEW v,
           Sent(s, b, n), NEW d, EndOf(t, s, d), NEW i \in 0..Len(s), i <= d, Past(c, b, n),
           c.boot < After(s, i, b, n).boot
    PROVE  Follow(c, t, b, n, live, v)
<1> DEFINE p == Len(s)
           q == Len(t)
<1>1. p \in Nat /\ q \in Nat /\ d \in Nat /\ p = d + q
  BY SeqDomain DEF EndOf
<1>2. 0 \in 0..q /\ d \in 0..p /\ d + 0 = d
  <2> HIDE DEF p, q
  <2> QED
    BY <1>1
<1>3. After(t, 0, b, n) = After(s, d, b, n)
  BY <1>2, AfterDrop
<1> HIDE DEF p, q
<1>4. /\ After(s, i, b, n).boot \in Nat /\ After(s, d, b, n).boot \in Nat
      /\ After(s, i, b, n).boot <= After(s, d, b, n).boot
  BY <1>2, BootsGrow DEF p
<1> DEFINE x == After(s, i, b, n).boot
           y == After(t, 0, b, n).boot
<1>5. x \in Nat /\ y \in Nat /\ x <= y /\ c.boot < x
  BY <1>3, <1>4
<1> HIDE DEF x, y
<1>6. c.boot < y /\ y # c.boot
  BY <1>5
<1>7. InSessionOf(c, t, b, n) /\ Counted(c, t, b, n, live, v)
  BY <1>6 DEF InSessionOf, Counted, y
<1> QED
  BY <1>7 DEF Follow

\* What an item at the end changes.
LEMMA AfterMore ==
    ASSUME NEW s \in Seq(TaggedByte), NEW t \in Seq(TaggedByte), NEW b, NEW n \in DOMAIN Script,
           Extends(t, s, b, n), NEW k \in 0..Len(s), NEW m
    PROVE  /\ After(t, k, b, m).boot = After(s, k, b, n).boot
           /\ After(t, k, b, m).item = After(s, k, b, n).item
           /\ k \in 0..Len(t)
<1> DEFINE p == Len(s)
           q == Len(t)
           z == Len(Encoded[n])
<1>1. /\ p \in Nat /\ q \in Nat /\ z \in Nat \ {0} /\ q = p + z /\ k \in 0..p
      /\ (\A i \in 1..p : t[i] = s[i]) /\ (\A i \in 1..z : t[p + i] = ByteOf(b, n, i))
  BY SeqDomain, EncodedFact DEF Extends
<1>2. k \in 0..q /\ k < q /\ (k < p => k + 1 \in 1..p) /\ 1 \in 1..z /\ (k = p => k + 1 = p + 1)
      /\ (k < p \/ k = p) /\ (k = p => ~(k < p))
  <2> HIDE DEF p, q, z
  <2> QED
    BY <1>1
<1>3. After(t, k, b, m) = t[k + 1]
  BY <1>2 DEF After
<1>4. CASE k < p
  BY <1>1, <1>2, <1>3, <1>4 DEF After
<1>5. CASE k = p
  <2>1. t[k + 1] = ByteOf(b, n, 1)
    BY <1>1, <1>2, <1>5
  <2>2. After(s, k, b, n) = [boot |-> b, item |-> n]
    BY <1>2, <1>5 DEF After
  <2> QED
    BY <1>2, <1>3, <2>1, <2>2, ByteFact
<1> QED
  BY <1>2, <1>4, <1>5

\* When bytes of the session of x's item follow the longer sequence, they follow, or
\* may follow, the shorter one.
LEMMA ReachesMore ==
    ASSUME NEW s \in Seq(TaggedByte), NEW t \in Seq(TaggedByte), NEW b, NEW n \in DOMAIN Script,
           Extends(t, s, b, n), NEW x, x.item \in Nat, Past(x, b, n), b \in Nat,
           NEW live, NEW next,
           Script[n].kind = "data" => live, next => live \/ Script[n].kind = "line",
           NEW l \in 1..(Len(t) + 1), Reaches(t, l, x, b, n + 1, next)
    PROVE  \/ l \in 1..Len(s) /\ Reaches(s, l, x, b, n, live)
           \/ Len(s) + 1 <= l /\ Reaches(s, Len(s) + 1, x, b, n, live)
<1> DEFINE p == Len(s)
           q == Len(t)
           z == Len(Encoded[n])
<1>1. /\ p \in Nat /\ q \in Nat /\ z \in Nat \ {0} /\ q = p + z
      /\ (\A i \in 1..p : t[i] = s[i]) /\ (\A i \in 1..z : t[p + i] = ByteOf(b, n, i))
  BY SeqDomain, EncodedFact DEF Extends
<1>2. n \in Nat /\ n - 1 \in Int /\ n - 1 <= n /\ (n + 1) - 1 = n
  <2>1. n \in Nat
    BY BytesAssumption, SeqDomain
  <2> QED
    BY SMTT(60), <2>1
<1>3. \/ l \in 1..p /\ l <= q
      \/ p + 1 <= l /\ l - p \in 1..z /\ p + (l - p) = l /\ l # q + 1
      \/ p + 1 <= l /\ l = q + 1 /\ ~(l <= q)
  <2> HIDE DEF p, q, z
  <2>1. l \in 1..(q + 1)
    BY DEF q
  <2> QED
    BY <1>1, <2>1
<1>4. CASE l \in 1..p /\ l <= q
  <2>1. t[l] = s[l] /\ l <= p /\ l # q + 1
    <3>1. l <= p /\ l # q + 1
      <4> HIDE DEF p, q
      <4> QED
        BY <1>1, <1>4
    <3> QED
      BY <1>1, <1>4, <3>1
  <2> QED
    BY <1>4, <2>1 DEF Reaches
<1>5. CASE p + 1 <= l /\ l - p \in 1..z /\ p + (l - p) = l /\ l # q + 1
  <2>1. t[l] = ByteOf(b, n, l - p)
    BY <1>1, <1>5
  <2>2. t[l].boot = b /\ t[l].item = n
    BY <2>1, ByteFact
  <2>3. b = x.boot /\ Script[n].kind = "data" /\ Fresh(x.item, n)
    BY <1>5, <2>2 DEF Reaches, Kind
  <2>4. Fresh(x.item, n - 1)
    BY <1>2, <2>3, FreshLess
  <2> QED
    BY <1>5, <2>3, <2>4 DEF Reaches
<1>6. CASE p + 1 <= l /\ l = q + 1 /\ ~(l <= q)
  <2>1. next /\ b = x.boot /\ Fresh(x.item, n)
    BY <1>2, <1>6 DEF Reaches
  <2>2. x.item < n /\ n <= n
    BY <1>2, <2>1 DEF Past
  <2>3. Script[n].kind # "line"
    BY <2>1, <2>2 DEF Fresh
  <2>4. Fresh(x.item, n - 1)
    BY <1>2, <2>1, FreshLess
  <2> QED
    BY <1>6, <2>1, <2>3, <2>4 DEF Reaches
<1> QED
  BY <1>3, <1>4, <1>5, <1>6

\* The item that is sent comes after what was sent before, without a gap.
LEMMA NoGapMore ==
    ASSUME NEW s \in Seq(TaggedByte), NEW t \in Seq(TaggedByte), NEW b \in Nat,
           NEW n \in DOMAIN Script, Sent(s, b, n), Extends(t, s, b, n),
           NEW live, NEW next,
           Script[n].kind = "data" => live, next => live \/ Script[n].kind = "line",
           NoGap(s, b, n, live)
    PROVE  NoGap(t, b, n + 1, next)
<1> DEFINE p == Len(s)
           q == Len(t)
           z == Len(Encoded[n])
<1>1. /\ p \in Nat /\ q \in Nat /\ z \in Nat \ {0} /\ q = p + z
      /\ (\A i \in 1..p : t[i] = s[i]) /\ (\A i \in 1..z : t[p + i] = ByteOf(b, n, i))
  BY SeqDomain, EncodedFact DEF Extends
<1>2. n \in Nat /\ n - 1 \in Int /\ n - 1 <= n /\ (n + 1) - 1 = n /\ n \in Int /\ n <= n
      /\ n <= n + 1
  <2>1. n \in Nat
    BY BytesAssumption, SeqDomain
  <2> QED
    BY SMTT(60), <2>1
<1>3. ASSUME NEW k \in 1..p PROVE NoGapAt(t, k, b, n + 1, next)
  <2>1. k \in 0..p /\ t[k] = s[k]
    <3>1. k \in 0..p
      <4> HIDE DEF p
      <4> QED
        BY <1>1
    <3> QED
      BY <1>1, <3>1
  <2>2. /\ After(t, k, b, n + 1).boot = After(s, k, b, n).boot
        /\ After(t, k, b, n + 1).item = After(s, k, b, n).item
    BY <2>1, AfterMore
  <2>3. NoGapAt(s, k, b, n, live)
    BY DEF NoGap
  <2>4. s[k].item \in Nat /\ Past(s[k], b, n)
    BY SentElim
  <2>5. ASSUME NEW l \in 1..(q + 1), k < l, Reaches(t, l, s[k], b, n + 1, next)
        PROVE  \E i \in 1..(p + 1) : k < i /\ Reaches(s, i, s[k], b, n, live)
    <3>1. \/ l \in 1..p /\ Reaches(s, l, s[k], b, n, live)
          \/ p + 1 <= l /\ Reaches(s, p + 1, s[k], b, n, live)
      BY <2>4, <2>5, ReachesMore
    <3>2. k < p + 1 /\ p + 1 \in 1..(p + 1) /\ (l \in 1..p => l \in 1..(p + 1))
      <4> HIDE DEF p
      <4> QED
        BY SMTT(60), <1>1
    <3> HIDE DEF p
    <3> QED
      BY <2>5, <3>1, <3>2
  <2> QED
    BY <2>1, <2>2, <2>3, <2>5 DEF NoGapAt
<1>4. ASSUME NEW k \in 1..q, p < k PROVE NoGapAt(t, k, b, n + 1, next)
  <2>1. k - p \in 1..z /\ p + (k - p) = k /\ k \in 0..q
    <3> HIDE DEF p, q, z
    <3> QED
      BY <1>1, <1>4
  <2>2. t[k].item = n
    <3>1. t[p + (k - p)] = ByteOf(b, n, k - p)
      BY <1>1, <2>1
    <3> QED
      BY <2>1, <3>1, ByteFact
  <2>3. After(t, k, b, n + 1).item \in {n, n + 1}
    <3>1. CASE k < q
      <4>1. After(t, k, b, n + 1) = t[k + 1]
        BY <3>1 DEF After
      <4>2. (k + 1) - p \in 1..z /\ p + ((k + 1) - p) = k + 1
        <5> HIDE DEF p, q, z
        <5> QED
          BY <1>1, <1>4, <3>1
      <4>3. t[p + ((k + 1) - p)] = ByteOf(b, n, (k + 1) - p)
        BY <1>1, <4>2
      <4>4. t[k + 1].item = n
        BY <4>2, <4>3, ByteFact
      <4> QED
        BY <4>1, <4>4
    <3>2. CASE k = q
      BY <2>1, <3>2, AfterFact
    <3> QED
      BY <2>1, <3>1, <3>2, AfterFact
  <2>4. Fresh(n, n - 1) /\ Fresh(n, (n + 1) - 1)
    BY <1>2, FreshNone
  <2>5. After(t, k, b, n + 1).item <= n + 1
    BY <1>2, <2>3
  <2>6. Fresh(n, After(t, k, b, n + 1).item - 1)
    BY <2>3, <2>4
  <2> QED
    BY <2>2, <2>5, <2>6 DEF NoGapAt
<1>5. ASSUME NEW k \in 1..q PROVE k \in 1..p \/ p < k
  <2> HIDE DEF p, q
  <2> QED
    BY <1>1
<1> QED
  BY <1>3, <1>4, <1>5 DEF NoGap

\* A connection follows what it followed before.
LEMMA FollowMore ==
    ASSUME NEW s \in Seq(TaggedByte), NEW t \in Seq(TaggedByte), NEW b \in Nat,
           NEW n \in DOMAIN Script, Extends(t, s, b, n),
           NEW live, NEW next,
           Script[n].kind = "data" => live, next => live \/ Script[n].kind = "line",
           NEW c, c.item \in Nat, NEW v, Follow(c, s, b, n, live, v)
    PROVE  Follow(c, t, b, n + 1, next, v)
<1> DEFINE p == Len(s)
           q == Len(t)
           z == Len(Encoded[n])
<1>1. /\ p \in Nat /\ q \in Nat /\ z \in Nat \ {0} /\ q = p + z
      /\ (\A i \in 1..p : t[i] = s[i]) /\ (\A i \in 1..z : t[p + i] = ByteOf(b, n, i))
  BY SeqDomain, EncodedFact DEF Extends
<1>2. n \in Nat
  BY BytesAssumption, SeqDomain
<1>3. Past(c, b, n) /\ InSessionOf(c, s, b, n) /\ Counted(c, s, b, n, live, v)
  BY DEF Follow
<1>4. Past(c, b, n + 1)
  BY <1>2, <1>3 DEF Past
<1>5. 0 \in 0..p
  <2> HIDE DEF p
  <2> QED
    BY <1>1
<1>6. /\ After(t, 0, b, n + 1).boot = After(s, 0, b, n).boot
      /\ After(t, 0, b, n + 1).item = After(s, 0, b, n).item
  BY <1>5, AfterMore
<1>7. ASSUME \A k \in 1..p : k = 1 => s[k].off = 1
      PROVE  \A k \in 1..q : k = 1 => t[k].off = 1
  <2>1. 1 \in 1..p \/ (p = 0 /\ 1 \in 1..z /\ p + 1 = 1)
    <3> HIDE DEF p, z
    <3> QED
      BY <1>1
  <2>2. CASE 1 \in 1..p
    BY <1>1, <1>7, <2>2
  <2>3. CASE p = 0 /\ 1 \in 1..z /\ p + 1 = 1
    <3>1. t[p + 1] = ByteOf(b, n, 1)
      BY <1>1, <2>3
    <3>2. t[1].off = 1
      BY <2>3, <3>1, ByteFact
    <3> QED
      BY <3>2
  <2> QED
    BY <2>1, <2>2, <2>3
<1>8. InSessionOf(c, t, b, n + 1)
  BY <1>3, <1>6, <1>7 DEF InSessionOf
<1>9. ASSUME NEW l \in 1..(q + 1), Reaches(t, l, c, b, n + 1, next)
      PROVE  \E i \in 1..(p + 1) : Reaches(s, i, c, b, n, live)
  <2>1. \/ l \in 1..p /\ Reaches(s, l, c, b, n, live)
        \/ p + 1 <= l /\ Reaches(s, p + 1, c, b, n, live)
    BY <1>3, <1>9, ReachesMore
  <2>2. p + 1 \in 1..(p + 1) /\ (l \in 1..p => l \in 1..(p + 1))
    <3> HIDE DEF p
    <3> QED
      BY <1>1
  <2> HIDE DEF p
  <2> QED
    BY <2>1, <2>2
<1>10. Counted(c, t, b, n + 1, next, v)
  BY <1>3, <1>6, <1>9 DEF Counted
<1> QED
  BY <1>4, <1>8, <1>10 DEF Follow

\* Outside a session a chunk of data is left out.
LEMMA NoGapSkip ==
    ASSUME NEW s \in Seq(TaggedByte), NEW b \in Nat, NEW n \in DOMAIN Script, Sent(s, b, n),
           Script[n].kind = "data", NoGap(s, b, n, FALSE)
    PROVE  NoGap(s, b, n + 1, FALSE)
<1> DEFINE p == Len(s)
<1>1. p \in Nat /\ n \in Nat /\ (n + 1) - 1 = n
  <2>1. p \in Nat /\ n \in Nat
    BY BytesAssumption, SeqDomain
  <2> QED
    BY <2>1
<1>2. ASSUME NEW k \in 1..p PROVE NoGapAt(s, k, b, n + 1, FALSE)
  <2>1. NoGapAt(s, k, b, n, FALSE)
    BY DEF NoGap
  <2>2. s[k].item \in Nat
    BY SentElim
  <2>3. k \in 0..p
    <3> HIDE DEF p
    <3> QED
      BY <1>1
  <2>4. ASSUME NEW l, Reaches(s, l, s[k], b, n + 1, FALSE)
        PROVE  Reaches(s, l, s[k], b, n, FALSE) /\ l <= p
    BY <2>4 DEF Reaches
  <2>5. CASE k < p
    <3>1. After(s, k, b, n + 1) = After(s, k, b, n)
      BY <2>5 DEF After
    <3> QED
      BY <2>1, <2>4, <3>1 DEF NoGapAt
  <2>6. CASE k = p
    <3>1. /\ After(s, k, b, n).boot = b /\ After(s, k, b, n).item = n
          /\ After(s, k, b, n + 1).boot = b /\ After(s, k, b, n + 1).item = n + 1
      BY <2>3, <2>6, AfterFact
    <3>2. ASSUME Fresh(s[k].item, n - 1) PROVE Fresh(s[k].item, (n + 1) - 1)
      <4>1. Fresh(s[k].item, n)
        BY <2>2, <3>2, FreshMore
      <4> QED
        BY <1>1, <4>1
    <3>3. ASSUME NEW l \in 1..(p + 1), k < l, Reaches(s, l, s[k], b, n + 1, FALSE) PROVE FALSE
      <4>1. l <= p
        BY <2>4, <3>3
      <4> HIDE DEF p
      <4> QED
        BY <1>1, <2>6, <3>3, <4>1
    <3> QED
      BY <2>1, <3>1, <3>2, <3>3 DEF NoGapAt
  <2> QED
    BY <2>3, <2>5, <2>6, AfterFact
<1> QED
  BY <1>2 DEF NoGap

\* ... and the connection does not miss it.
LEMMA FollowSkip ==
    ASSUME NEW s \in Seq(TaggedByte), NEW b \in Nat, NEW n \in DOMAIN Script,
           Script[n].kind = "data", NEW c, c.item \in Nat, NEW v, Follow(c, s, b, n, FALSE, v)
    PROVE  Follow(c, s, b, n + 1, FALSE, v)
<1> DEFINE p == Len(s)
<1>1. p \in Nat /\ n \in Nat /\ (n + 1) - 1 = n /\ n < n + 1
  <2>1. p \in Nat /\ n \in Nat
    BY BytesAssumption, SeqDomain
  <2> QED
    BY <2>1
<1>2. Past(c, b, n) /\ InSessionOf(c, s, b, n) /\ Counted(c, s, b, n, FALSE, v)
  BY DEF Follow
<1>3. Past(c, b, n + 1)
  BY <1>1, <1>2 DEF Past
<1>4. 0 \in 0..p
  <2> HIDE DEF p
  <2> QED
    BY <1>1
<1>5. ASSUME NEW l, Reaches(s, l, c, b, n + 1, FALSE)
      PROVE  Reaches(s, l, c, b, n, FALSE) /\ l <= p
  BY <1>5 DEF Reaches
<1>6. CASE 0 < p
  <2>1. After(s, 0, b, n + 1) = After(s, 0, b, n)
    BY <1>6 DEF After
  <2>2. InSessionOf(c, s, b, n + 1)
    BY <1>2, <2>1 DEF InSessionOf
  <2>3. Counted(c, s, b, n + 1, FALSE, v)
    BY <1>2, <1>5, <2>1 DEF Counted
  <2> QED
    BY <1>3, <2>2, <2>3 DEF Follow
<1>7. CASE 0 = p
  <2>1. /\ After(s, 0, b, n).boot = b /\ After(s, 0, b, n).item = n
        /\ After(s, 0, b, n + 1).boot = b /\ After(s, 0, b, n + 1).item = n + 1
    <3>1. ~(0 < p)
      <4> HIDE DEF p
      <4> QED
        BY <1>1, <1>7
    <3> QED
      BY <3>1 DEF After
  <2>2. ASSUME Fresh(c.item, n - 1) PROVE Fresh(c.item, (n + 1) - 1)
    <3>1. Fresh(c.item, n)
      BY <2>2, FreshMore
    <3> QED
      BY <1>1, <3>1
  <2>3. c.item < n => c.item < n + 1
    BY <1>1
  <2>4. ASSUME NEW l \in 1..(p + 1), Reaches(s, l, c, b, n + 1, FALSE) PROVE FALSE
    <3>1. l <= p
      BY <1>5, <2>4
    <3> HIDE DEF p
    <3> QED
      BY <1>1, <1>7, <3>1
  <2>5. InSessionOf(c, s, b, n + 1)
    BY <1>2, <2>1, <2>2, <2>3 DEF InSessionOf
  <2>6. Counted(c, s, b, n + 1, FALSE, v)
    BY <2>4 DEF Counted
  <2> QED
    BY <1>3, <2>5, <2>6 DEF Follow
<1> QED
  BY <1>4, <1>6, <1>7, AfterFact

\* After a reset.
LEMMA NoGapCut ==
    ASSUME NEW s \in Seq(TaggedByte), NEW t \in Seq(TaggedByte), NEW b \in Nat, NEW n, NEW live,
           Sent(s, b, n), BeginOf(t, s), NoGap(s, b, n, live)
    PROVE  NoGap(t, b + 1, 1, FALSE)
<1> DEFINE p == Len(s)
           q == Len(t)
<1>1. p \in Nat /\ q \in Nat /\ q <= p /\ \A i \in 1..q : t[i] = s[i]
  BY SeqDomain DEF BeginOf
<1>2. ASSUME NEW k \in 1..q PROVE NoGapAt(t, k, b + 1, 1, FALSE)
  <2>1. k \in 1..p /\ k \in 0..q /\ k \in 0..p /\ (k < q => k < p /\ k + 1 \in 1..q)
    <3> HIDE DEF p, q
    <3> QED
      BY <1>1
  <2>2. t[k] = s[k]
    BY <1>1
  <2>3. NoGapAt(s, k, b, n, live)
    BY <2>1 DEF NoGap
  <2>4. s[k].boot \in Nat /\ Past(s[k], b, n)
    BY <2>1, SentElim
  <2>5. ASSUME NEW l \in 1..(q + 1), Reaches(t, l, s[k], b + 1, 1, FALSE)
        PROVE  Reaches(s, l, s[k], b, n, live) /\ l <= q /\ l \in 1..(p + 1)
    <3>1. l <= q
      BY <2>5 DEF Reaches
    <3>2. l \in 1..q /\ l <= p /\ l \in 1..(p + 1)
      <4> HIDE DEF p, q
      <4> QED
        BY <1>1, <3>1
    <3> QED
      BY <1>1, <2>5, <3>1, <3>2 DEF Reaches
  <2>6. CASE k < q
    <3>1. After(t, k, b + 1, 1) = After(s, k, b, n)
      BY <1>1, <2>1, <2>6 DEF After
    <3> QED
      BY <2>2, <2>3, <2>5, <3>1 DEF NoGapAt
  <2>7. CASE k = q
    <3>1. After(t, k, b + 1, 1).boot = b + 1
      BY <2>1, <2>7, AfterFact
    <3>2. s[k].boot # b + 1
      BY <2>4 DEF Past
    <3> QED
      BY <2>2, <3>1, <3>2 DEF NoGapAt
  <2> QED
    BY <2>1, <2>6, <2>7, AfterFact
<1> QED
  BY <1>2 DEF NoGap

\* The connection has lost what the reset cut off, and nothing of its run will follow.
LEMMA FollowCut ==
    ASSUME NEW s \in Seq(TaggedByte), NEW t \in Seq(TaggedByte), NEW b \in Nat, NEW n, NEW live,
           BeginOf(t, s), NEW c, c.boot \in Nat, NEW v, Follow(c, s, b, n, live, v)
    PROVE  Follow(c, t, b + 1, 1, FALSE, v)
<1> DEFINE p == Len(s)
           q == Len(t)
<1>1. p \in Nat /\ q \in Nat /\ q <= p /\ \A i \in 1..q : t[i] = s[i]
  BY SeqDomain DEF BeginOf
<1>2. Past(c, b, n) /\ InSessionOf(c, s, b, n) /\ Counted(c, s, b, n, live, v)
  BY DEF Follow
<1>3. c.boot < b + 1
  BY <1>2 DEF Past
<1>4. 0 \in 0..q /\ (0 < q => 0 < p /\ 0 + 1 \in 1..q)
      /\ \A l \in 1..(q + 1) : l <= q => l \in 1..q /\ l <= p /\ l \in 1..(p + 1)
  <2> HIDE DEF p, q
  <2> QED
    BY <1>1
<1>5. CASE 0 < q
  <2>1. After(t, 0, b + 1, 1) = After(s, 0, b, n)
    BY <1>1, <1>4, <1>5 DEF After
  <2>2. ASSUME NEW l \in 1..(q + 1), Reaches(t, l, c, b + 1, 1, FALSE)
        PROVE  Reaches(s, l, c, b, n, live) /\ l \in 1..(p + 1)
    <3>1. l <= q
      BY <2>2 DEF Reaches
    <3>2. l \in 1..q /\ l <= p /\ l \in 1..(p + 1)
      BY <1>4, <3>1
    <3> QED
      BY <1>1, <2>2, <3>1, <3>2 DEF Reaches
  <2>3. ASSUME \A k \in 1..p : k = 1 => s[k].off = 1
        PROVE  \A k \in 1..q : k = 1 => t[k].off = 1
    <3>1. 1 \in 1..q => 1 \in 1..p
      <4> HIDE DEF p, q
      <4> QED
        BY <1>1
    <3> QED
      BY <1>1, <2>3, <3>1
  <2>4. InSessionOf(c, t, b + 1, 1)
    BY <1>2, <2>1, <2>3 DEF InSessionOf
  <2>5. Counted(c, t, b + 1, 1, FALSE, v)
    BY <1>2, <2>1, <2>2 DEF Counted
  <2> QED
    BY <1>3, <2>4, <2>5 DEF Follow, Past
<1>6. CASE 0 = q
  <2>1. After(t, 0, b + 1, 1).boot = b + 1
    <3>1. ~(0 < q)
      <4> HIDE DEF q
      <4> QED
        BY <1>1, <1>6
    <3> QED
      BY <3>1 DEF After
  <2>2. c.boot # b + 1
    BY <1>3
  <2>3. InSessionOf(c, t, b + 1, 1)
    BY <1>3, <2>1 DEF InSessionOf
  <2>4. Counted(c, t, b + 1, 1, FALSE, v)
    BY <2>1, <2>2 DEF Counted
  <2> QED
    BY <1>3, <2>3, <2>4 DEF Follow, Past
<1> QED
  BY <1>4, <1>5, <1>6, AfterFact

\* The types of the connection.
LEMMA ConnType ==
    ASSUME HostTypeOK
    PROVE  /\ conn.boot \in Nat /\ conn.item \in Nat
           /\ delivered \in Seq(TaggedByte) /\ Len(delivered) \in Nat
           /\ mode \in {"closed", "serve"} => ~Connected
<1>1. conn \in [boot : 0..MaxBoots, item : 0..Len(Script)] /\ delivered \in Seq(TaggedByte)
      /\ (mode \in {"closed", "serve"} => ~Connected)
  BY DEF HostTypeOK, InputTypeOK
<1>2. conn.boot \in 0..MaxBoots /\ conn.item \in 0..Len(Script)
  BY <1>1
<1>3. \A i \in 0..MaxBoots : i \in Nat
  BY BytesAssumption
<1>4. \A i \in 0..Len(Script) : i \in Nat
  BY BytesAssumption, SeqDomain
<1> QED
  BY <1>1, <1>2, <1>3, <1>4, SeqDomain

\* Steps that leave the connection alone.
LEMMA SessionKept ==
    ASSUME SessionInv, UNCHANGED <<conn, delivered>>,
           InSequence(conn, Stream', boot', step', Live', Len(delivered))
    PROVE  SessionInv'
BY DEF SessionInv, Connected

\* What is known of the sequence, and of the connection: when an item is sent,
LEMMA SequenceMore ==
    ASSUME NEW s \in Seq(TaggedByte), NEW t \in Seq(TaggedByte), NEW b \in Nat,
           NEW n \in DOMAIN Script, Sent(s, b, n), Extends(t, s, b, n),
           NEW live, NEW next,
           Script[n].kind = "data" => live, next => live \/ Script[n].kind = "line",
           NEW c, c.item \in Nat, NEW v, InSequence(c, s, b, n, live, v)
    PROVE  InSequence(c, t, b, n + 1, next, v)
<1>1. NoGap(s, b, n, live) /\ (Claims(c) => Follow(c, s, b, n, live, v))
  BY DEF InSequence
<1>2. NoGap(t, b, n + 1, next)
  BY <1>1, NoGapMore
<1>3. Claims(c) => Follow(c, t, b, n + 1, next, v)
  BY <1>1, FollowMore
<1> QED
  BY <1>2, <1>3 DEF InSequence

\* ... when a chunk of data is left out,
LEMMA SequenceSkip ==
    ASSUME NEW s \in Seq(TaggedByte), NEW b \in Nat, NEW n \in DOMAIN Script, Sent(s, b, n),
           Script[n].kind = "data", NEW c, c.item \in Nat, NEW v,
           NEW live, NEW next, ~live, ~next, InSequence(c, s, b, n, live, v)
    PROVE  InSequence(c, s, b, n + 1, next, v)
<1>1. NoGap(s, b, n, live) /\ (Claims(c) => Follow(c, s, b, n, live, v))
  BY DEF InSequence
<1>2. NoGap(s, b, n, FALSE) /\ (Claims(c) => Follow(c, s, b, n, FALSE, v))
  BY <1>1, NoGapLess, FollowLess
<1>3. NoGap(s, b, n + 1, FALSE) /\ (Claims(c) => Follow(c, s, b, n + 1, FALSE, v))
  BY <1>2, NoGapSkip, FollowSkip
<1>4. NoGap(s, b, n + 1, next) /\ (Claims(c) => Follow(c, s, b, n + 1, next, v))
  BY <1>3, NoGapLess, FollowLess
<1> QED
  BY <1>4 DEF InSequence

\* ... when the board gives up its session,
LEMMA SequenceLess ==
    ASSUME NEW c, NEW s \in Seq(TaggedByte), NEW b, NEW n, NEW live, NEW less, NEW v,
           less => live, InSequence(c, s, b, n, live, v)
    PROVE  InSequence(c, s, b, n, less, v)
BY NoGapLess, FollowLess DEF InSequence

\* ... after a reset,
LEMMA SequenceCut ==
    ASSUME NEW s \in Seq(TaggedByte), NEW t \in Seq(TaggedByte), NEW b \in Nat, NEW n, NEW live,
           Sent(s, b, n), BeginOf(t, s), NEW c, c.boot \in Nat, NEW v, NEW next, ~next,
           InSequence(c, s, b, n, live, v)
    PROVE  InSequence(c, t, b + 1, 1, next, v)
<1>1. NoGap(t, b + 1, 1, FALSE)
  BY NoGapCut DEF InSequence
<1>2. Claims(c) => Follow(c, t, b + 1, 1, FALSE, v)
  BY FollowCut DEF InSequence
<1> QED
  BY <1>1, <1>2, NoGapLess, FollowLess DEF InSequence

\* ... and when the proxy has dealt with the first bytes.
LEMMA SequenceDrop ==
    ASSUME NEW s \in Seq(TaggedByte), NEW t \in Seq(TaggedByte), NEW d, EndOf(t, s, d),
           NEW c, NEW b, NEW n, NEW live, NEW v, NEW w, NEW a, InSequence(c, s, b, n, live, v),
           Claims(a) => Follow(a, t, b, n, live, w)
    PROVE  InSequence(a, t, b, n, live, w)
BY NoGapDrop DEF InSequence

\* The steps of the board and of the UART keep it.
LEMMA BoardSession ==
    ASSUME HostTypeOK, HostTypeOK', Sent(Stream, boot, step), SessionInv,
           Board \/ Transmit(mode # "closed") \/ ResetBoard, UNCHANGED inputVars
    PROVE  SessionInv'
<1> DEFINE v == Len(delivered)
           s == Stream
           t == Stream'
           l == Live
           m == Live'
           b == boot
           n == step
<1>1. s \in Seq(TaggedByte) /\ t \in Seq(TaggedByte) /\ b \in Nat
  BY StreamType, StreamTypeNext
<1>2. conn.boot \in Nat /\ conn.item \in Nat /\ (mode = "closed" => ~Connected)
  BY ConnType
<1>3. UNCHANGED <<conn, delivered>> /\ InSequence(conn, s, b, n, l, v) /\ Sent(s, b, n)
  BY DEF inputVars, SessionInv
<1>4. \/ /\ Sends(step) /\ step <= Len(Script)
         /\ Script[step].kind = "data" => l
         /\ m => l \/ Script[step].kind = "line"
      \/ t = s /\ boot' = boot /\ step' = step /\ (m => l)
      \/ /\ t = s /\ boot' = boot /\ step' = step + 1 /\ step \in DOMAIN Script
         /\ Script[step].kind = "data" /\ ~l /\ ~m
      \/ boot' = boot /\ step' = step /\ m = l /\ mode = "closed" /\ EndOf(t, s, 1)
      \/ boot' = boot + 1 /\ step' = 1 /\ ~m /\ BeginOf(t, s)
  <2>1. CASE Board
    <3>1. step <= Len(Script) => step \in DOMAIN Script
      <4>1. step \in Nat /\ step \in 1..(Len(Script) + 1) /\ Len(Script) \in Nat /\ DOMAIN Script = 1..Len(Script)
        BY StreamType, BytesAssumption, SeqDomain
      <4> DEFINE z == Len(Script)
      <4> HIDE DEF z
      <4>2. step \in 1..(z + 1) /\ z \in Nat /\ step <= z => step \in 1..z
        OBVIOUS
      <4> QED
        BY <4>1, <4>2 DEF z
    <3>2. \/ /\ Sends(step) /\ step <= Len(Script)
             /\ Script[step].kind = "data" => l
             /\ m => l \/ Script[step].kind = "line"
          \/ t = s /\ boot' = boot /\ step' = step /\ (m => l)
          \/ /\ t = s /\ boot' = boot /\ step' = step + 1
             /\ step <= Len(Script) /\ Script[step].kind = "data" /\ ~waiting /\ ~session
             /\ UNCHANGED <<waiting, session>>
      BY <2>1, BoardStream
    <3>3. ~waiting /\ ~session /\ UNCHANGED <<waiting, session>> => ~l /\ ~m
      BY DEF Live
    <3> QED
      BY <3>1, <3>2, <3>3
  <2>2. CASE Transmit(mode # "closed")
    <3>1. /\ UNCHANGED <<boot, step, waiting, session>>
          /\ t = s \/ (mode = "closed" /\ EndOf(t, s, 1))
      BY <2>2, TransmitStream
    <3>2. m = l
      BY <3>1 DEF Live
    <3> QED
      BY <3>1, <3>2
  <2>3. CASE ResetBoard
    <3>1. /\ boot' = boot + 1 /\ step' = 1 /\ ~waiting' /\ ~session'
          /\ BeginOf(t, s)
      BY <2>3, ResetStream
    <3> QED
      BY <3>1 DEF Live
  <2> QED
    BY <2>1, <2>2, <2>3
<1> HIDE DEF s, t, l, m, v
<1>5. CASE Sends(step) /\ (Script[step].kind = "data" => l) /\ (m => l \/ Script[step].kind = "line")
  <2>1. step \in DOMAIN Script /\ step' = step + 1 /\ boot' = boot /\ Extends(t, s, b, n)
    BY <1>5 DEF Sends, s, t
  <2>2. InSequence(conn, t, b, n + 1, m, v)
    BY <1>1, <1>2, <1>3, <1>5, <2>1, SequenceMore
  <2> QED
    BY <1>3, <2>1, <2>2, SessionKept DEF t, m, v
<1>6. CASE t = s /\ boot' = boot /\ step' = step /\ (m => l)
  <2>1. InSequence(conn, s, b, n, m, v)
    BY <1>1, <1>3, <1>6, SequenceLess
  <2> QED
    BY <1>3, <1>6, <2>1, SessionKept DEF t, m, v
<1>7. CASE /\ t = s /\ boot' = boot /\ step' = step + 1 /\ step \in DOMAIN Script
           /\ Script[step].kind = "data" /\ ~l /\ ~m
  <2>1. InSequence(conn, s, b, n + 1, m, v)
    BY <1>1, <1>2, <1>3, <1>7, SequenceSkip
  <2> QED
    BY <1>3, <1>7, <2>1, SessionKept DEF t, m, v
<1>8. CASE boot' = boot /\ step' = step /\ m = l /\ mode = "closed" /\ EndOf(t, s, 1)
  <2>1. ~Claims(conn)
    BY <1>2, <1>8 DEF Connected, Claims
  <2>2. InSequence(conn, t, b, n, l, v)
    BY <1>1, <1>3, <1>8, <2>1, SequenceDrop
  <2> QED
    BY <1>3, <1>8, <2>2, SessionKept DEF t, m, v
<1>9. CASE boot' = boot + 1 /\ step' = 1 /\ ~m /\ BeginOf(t, s)
  <2>1. InSequence(conn, t, b + 1, 1, m, v)
    BY <1>1, <1>2, <1>3, <1>9, SequenceCut
  <2> QED
    BY <1>3, <1>9, <2>1, SessionKept DEF t, m, v
<1> QED
  BY <1>4, <1>5, <1>6, <1>7, <1>8, <1>9

\* A step that leaves no connection.
LEMMA SessionClosed ==
    ASSUME HostTypeOK, HostTypeOK', SessionInv, UNCHANGED boardVars,
           ~Connected', delivered' = <<>>, NEW d, EndOf(Stream', Stream, d)
    PROVE  SessionInv'
<1> DEFINE v == Len(delivered)
           w == Len(delivered')
           s == Stream
           t == Stream'
           l == Live
           a == conn'
<1>1. s \in Seq(TaggedByte) /\ t \in Seq(TaggedByte)
  BY StreamType, StreamTypeNext
<1>2. InSequence(conn, s, boot, step, l, v) /\ ~Claims(a)
  BY DEF SessionInv, Connected, Claims
<1>3. boot' = boot /\ step' = step /\ Live' = l
  BY DEF boardVars, Live
<1> HIDE DEF s, t, l, v, w, a
<1>4. InSequence(a, t, boot, step, l, w)
  BY <1>1, <1>2, SequenceDrop DEF s, t
<1> QED
  BY <1>2, <1>3, <1>4 DEF SessionInv, t, a, w

\* The steps that only read, and those that close the connection.
LEMMA ReadSession ==
    ASSUME HostTypeOK, HostTypeOK', SessionInv,
           \/ UNCHANGED <<byteVars, inputVars>>
           \/ FrameStarts \/ LineStarts \/ ReadFrame \/ ReadLine \/ NothingClosed \/ OpenPort
           \/ RemoteCloses \/ FrameTimeout \/ ServeLine \/ ProxyGone \/ Fetches \/ Fails
    PROVE  SessionInv'
<1>1. ASSUME Stream' = Stream, UNCHANGED boardVars, UNCHANGED <<conn, delivered>>
      PROVE  SessionInv'
  BY <1>1, SessionKept DEF SessionInv, boardVars, Live
<1>2. CASE UNCHANGED <<byteVars, inputVars>>
  BY <1>1, <1>2 DEF byteVars, boardVars, inputVars, Stream, Joined
<1>3. CASE FrameStarts \/ LineStarts \/ ReadFrame \/ ReadLine \/ NothingClosed \/ OpenPort
  <2>1. Stream' = Stream /\ UNCHANGED boardVars
    BY <1>3, KeepStream
  <2>2. UNCHANGED <<conn, delivered>>
    BY <1>3 DEF FrameStarts, LineStarts, ReadFirst, ReadFrame, ReadLine, NothingClosed,
       OpenPort, KeepSocket
  <2> QED
    BY <1>1, <2>1, <2>2
<1>4. CASE RemoteCloses
  <2>1. Stream' = Stream /\ UNCHANGED boardVars
    BY <1>4, KeepStream
  <2>2. EndOf(Stream', Stream, 0)
    BY <2>1, StreamType, EndSame
  <2>3. ~Connected' /\ delivered' = <<>>
    BY <1>4 DEF RemoteCloses, CloseSocket, Connected
  <2> QED
    BY <2>1, <2>2, <2>3, SessionClosed
<1>5. CASE ServeLine
  <2>1. ~Connected' /\ delivered' = <<>>
    BY <1>5 DEF ServeLine, CloseSocket, Connected
  <2>2. PICK d \in Nat : EndOf(Stream', Stream, d) /\ UNCHANGED boardVars
    BY <1>5, ServeStream DEF ServeLine
  <2> QED
    BY <2>1, <2>2, SessionClosed
<1>6. CASE ProxyGone
  <2>1. EndOf(Stream', Stream, Len(held \o pipe)) /\ UNCHANGED boardVars
        /\ ~Connected' /\ delivered' = <<>>
    BY <1>6, GoneStream
  <2> QED
    BY <2>1, SessionClosed
<1>7. CASE FrameTimeout \/ Fetches \/ Fails
  <2>1. EndOf(Stream', Stream, Len(held)) /\ UNCHANGED boardVars
    BY <1>7, LeaveStream
  <2>2. mode = "serve" => conn = NoConn /\ delivered = <<>>
    BY ConnType DEF SessionInv, Connected
  <2>3. FrameTimeout => conn' = NoConn /\ delivered' = <<>>
    BY DEF FrameTimeout, CloseSocket
  <2>4. ASSUME Fetches \/ Fails PROVE conn' = NoConn /\ delivered' = <<>>
    <3>1. mode = "serve" /\ UNCHANGED <<conn, delivered>>
      BY <2>4 DEF Fetches, Fails, Serves
    <3> QED
      BY <2>2, <3>1
  <2>5. conn' = NoConn /\ delivered' = <<>>
    BY <1>7, <2>3, <2>4
  <2>6. ~Connected'
    BY <2>5 DEF Connected
  <2> QED
    BY <2>1, <2>5, <2>6, SessionClosed
<1> QED
  BY <1>2, <1>3, <1>4, <1>5, <1>6, <1>7

\* A step that drops bytes nobody has a claim on: either there is no claim, or what
\* follows fits.
LEMMA SessionGoesOn ==
    ASSUME HostTypeOK, HostTypeOK', SessionInv, UNCHANGED boardVars,
           NEW d, EndOf(Stream', Stream, d), UNCHANGED conn,
           Claims(conn) => /\ Follow(conn, Stream', boot, step, Live, Len(delivered'))
                           /\ OwnBytes(conn, delivered'),
           ~Connected => delivered' = delivered
    PROVE  SessionInv'
<1> DEFINE v == Len(delivered)
           w == Len(delivered')
           s == Stream
           t == Stream'
           l == Live
<1>1. s \in Seq(TaggedByte) /\ t \in Seq(TaggedByte)
  BY StreamType, StreamTypeNext
<1>2. /\ InSequence(conn, s, boot, step, l, v)
      /\ Claims(conn) => Follow(conn, t, boot, step, l, w)
  BY DEF SessionInv
<1>3. boot' = boot /\ step' = step /\ Live' = l
  BY DEF boardVars, Live
<1>4. ~Connected => delivered' = <<>>
  BY DEF SessionInv
<1> HIDE DEF s, t, l, v, w
<1>5. InSequence(conn, t, boot, step, l, w)
  BY <1>1, <1>2, SequenceDrop DEF s, t
<1> QED
  BY <1>3, <1>4, <1>5 DEF SessionInv, Connected, t, w

\* More bytes for a connection.
LEMMA OwnMore ==
    ASSUME NEW c, NEW d \in Seq(TaggedByte), NEW e \in Seq(TaggedByte), OwnBytes(c, d),
           \A n \in 1..Len(e) : OwnAt(c, e[n], Len(d) + n)
    PROVE  OwnBytes(c, d \o e)
<1> DEFINE p == Len(d)
           q == Len(e)
           f == d \o e
<1>1. /\ p \in Nat /\ q \in Nat /\ Len(f) = p + q
      /\ (\A i \in 1..p : f[i] = d[i]) /\ (\A i \in 1..q : f[p + i] = e[i])
  BY SeqDomain, SeqConcat
<1> HIDE DEF f
<1>2. ASSUME NEW n \in 1..(p + q) PROVE OwnAt(c, f[n], n)
  <2>1. n \in 1..p \/ (n - p \in 1..q /\ p + (n - p) = n)
    <3> HIDE DEF p, q
    <3> QED
      BY <1>1
  <2>2. CASE n \in 1..p
    BY <1>1, <2>2 DEF OwnBytes
  <2>3. CASE n - p \in 1..q /\ p + (n - p) = n
    <3>1. f[p + (n - p)] = e[n - p] /\ OwnAt(c, e[n - p], p + (n - p))
      BY <1>1, <2>3
    <3> QED
      BY <2>3, <3>1
  <2> QED
    BY <2>1, <2>2, <2>3
<1>3. OwnBytes(c, f)
  BY <1>1, <1>2 DEF OwnBytes
<1> QED
  BY <1>3 DEF f

\* After a byte of a later run only later runs come.
LEMMA LaterBoots ==
    ASSUME NEW c, c.boot \in Nat, NEW s \in Seq(TaggedByte), NEW b \in Nat, NEW n,
           Sent(s, b, n), NEW i \in 0..Len(s), c.boot < After(s, i, b, n).boot,
           NEW k \in 1..Len(s), i < k
    PROVE  s[k].boot > c.boot
<1> DEFINE p == Len(s)
           x == After(s, i, b, n).boot
           y == After(s, k - 1, b, n).boot
<1>1. p \in Nat
  BY SeqDomain
<1>2. k - 1 \in 0..p /\ i <= k - 1 /\ k - 1 < p /\ (k - 1) + 1 = k
  <2> HIDE DEF p
  <2>1. k \in 1..p /\ i \in 0..p
    BY DEF p
  <2> QED
    BY <1>1, <2>1
<1>3. x \in Nat /\ y \in Nat /\ x <= y
  BY <1>2, BootsGrow
<1>4. y = s[k].boot
  BY <1>2 DEF After
<1>5. c.boot < x
  OBVIOUS
<1> HIDE DEF x, y
<1>6. y > c.boot
  BY <1>3, <1>5
<1> QED
  BY <1>4, <1>6

\* Bytes that are sent to the socket as they are: the proxy is out of step, and they
\* are of a later run.
LEMMA RawSession ==
    ASSUME HostTypeOK, HostTypeOK', Sent(Stream, boot, step), SessionInv,
           NEW n \in 1..Len(pipe), RawBytes(n)
    PROVE  SessionInv'
<1> DEFINE s == Stream
           t == Stream'
           l == Live
           w == Len(delivered')
           e == SubSeq(pipe, 1, n)
<1>1. /\ EndOf(t, s, n) /\ UNCHANGED boardVars /\ s = pipe \o tx
      /\ s \in Seq(TaggedByte) /\ t \in Seq(TaggedByte) /\ boot \in Nat
      /\ pipe \in Seq(TaggedByte) /\ tx \in Seq(TaggedByte)
  BY RawStream, StreamType, StreamTypeNext
<1>2. /\ Connected /\ ~IsFrame(First.val) /\ ~IsC(First.val)
      /\ \/ delivered' = delivered \o e /\ UNCHANGED conn
         \/ ~Connected' /\ delivered' = <<>>
  BY DEF RawBytes, CloseSocket, Connected
<1>3. CASE ~Connected' /\ delivered' = <<>>
  BY <1>1, <1>3, SessionClosed
<1>4. CASE ~Claims(conn) /\ UNCHANGED conn
  BY <1>1, <1>2, <1>4, SessionGoesOn
<1>5. CASE Claims(conn) /\ delivered' = delivered \o e /\ UNCHANGED conn
  <2>1. Follow(conn, s, boot, step, l, Len(delivered)) /\ OwnBytes(conn, delivered)
        /\ conn.boot \in Nat /\ delivered \in Seq(TaggedByte)
    BY <1>5, ConnType DEF SessionInv, InSequence
  <2>2. /\ n \in Nat \ {0} /\ n <= Len(s) /\ 0 \in 0..Len(s) /\ 1 \in 1..Len(s)
        /\ s[1] = pipe[1] /\ \A i \in 1..n : i \in 1..Len(pipe) /\ i \in 1..Len(s) /\ s[i] = pipe[i]
    <3> DEFINE p == Len(pipe)
               q == Len(tx)
               z == Len(s)
    <3>1. p \in Nat /\ q \in Nat /\ z = p + q /\ \A i \in 1..p : s[i] = pipe[i]
      BY <1>1, SeqDomain, SeqConcat
    <3>2. /\ n \in Nat \ {0} /\ n <= z /\ 0 \in 0..z /\ 1 \in 1..z /\ 1 \in 1..p
          /\ \A i \in 1..n : i \in 1..p /\ i \in 1..z
      <4> HIDE DEF p, q, z
      <4>1. n \in 1..p
        BY DEF p
      <4> QED
        BY <3>1, <4>1
    <3> HIDE DEF s
    <3> QED
      BY <3>1, <3>2
  <2>3. First = s[1]
    BY <2>2 DEF First
  <2>4. s[1].off # 1
    <3> HIDE DEF s
    <3>1. s[1] \in TaggedByte /\ Genuine(s[1])
      BY <1>1, <2>2, SentElim DEF s
    <3> QED
      BY <1>2, <2>3, <3>1, FirstValue
  <2>5. conn.boot < After(s, 0, boot, step).boot /\ Past(conn, boot, step)
    BY <2>1, <2>2, <2>4 DEF Follow, InSessionOf
  <2>6. Follow(conn, t, boot, step, l, w)
    <3> HIDE DEF s, t, l, w
    <3>1. 0 <= n
      BY <2>2
    <3> QED
      BY <1>1, <2>1, <2>2, <2>5, <3>1, FollowLater DEF s
  <2>7. e \in Seq(TaggedByte) /\ Len(e) = n /\ \A i \in 1..n : e[i] = pipe[i]
    BY <1>1, SeqCut, SeqSplit
  <2>8. \A i \in 1..Len(e) : OwnAt(conn, e[i], Len(delivered) + i)
    <3> SUFFICES ASSUME NEW i \in 1..n PROVE e[i].boot > conn.boot
      BY <2>7 DEF OwnAt
    <3>1. e[i] = s[i] /\ i \in 1..Len(s) /\ 0 < i
      BY <2>2, <2>7
    <3> HIDE DEF s, e
    <3>2. s[i].boot > conn.boot
      BY <1>1, <2>1, <2>2, <2>5, <3>1, LaterBoots DEF s
    <3> QED
      BY <3>1, <3>2
  <2>9. OwnBytes(conn, delivered')
    <3> HIDE DEF e
    <3> QED
      BY <1>5, <2>1, <2>7, <2>8, OwnMore
  <2> QED
    BY <1>1, <1>2, <1>5, <2>6, <2>9, SessionGoesOn
<1> QED
  BY <1>2, <1>3, <1>4, <1>5

\* What comes after the last byte of an item, in the same run.
LEMMA NextItem ==
    ASSUME NEW s \in Seq(TaggedByte), NEW b \in Nat, NEW n \in Nat, Sent(s, b, n),
           NEW m \in 1..Len(s), s[m].off = Size(s[m]), After(s, m, b, n).boot = s[m].boot
    PROVE  /\ s[m].item < After(s, m, b, n).item /\ After(s, m, b, n).item \in Nat
           /\ m < Len(s) => s[m + 1].off = 1
<1> DEFINE p == Len(s)
           x == s[m]
           y == After(s, m, b, n)
<1>1. p \in Nat
  BY SeqDomain
<1>2. /\ m \in 0..p /\ (m < p => m + 1 \in 1..p /\ m < m + 1 /\ (m + 1) - m = 1)
      /\ (m < p \/ m = p)
  <2> HIDE DEF p
  <2>1. m \in 1..p
    BY DEF p
  <2> QED
    BY <1>1, <2>1
<1>3. /\ Past(x, b, n) /\ x.item \in Nat /\ x.off \in Nat \ {0} /\ Size(x) \in Nat \ {0}
      /\ x.boot \in Nat
  BY SentElim
<1>4. CASE m < p
  <2>1. y = s[m + 1]
    BY <1>4 DEF After
  <2>2. Follows(x, s[m + 1], (m + 1) - m)
    BY <1>2, <1>4, SentElim
  <2> DEFINE r == s[m + 1]
  <2>3. Follows(x, r, 1)
    BY <1>2, <1>4, <2>2
  <2>4. r.off \in Nat \ {0} /\ r.item \in Nat /\ r.boot = x.boot /\ r.off <= Size(r)
    BY <1>2, <1>4, <2>1, SentElim
  <2>5. r.item = x.item => Size(r) = Size(x)
    BY DEF Size
  <2> HIDE DEF r, x
  <2>6. x.item < r.item /\ r.off = 1
    BY SMTT(60), <1>3, <2>3, <2>4, <2>5 DEF Follows, x
  <2> QED
    BY <1>4, <2>1, <2>4, <2>6 DEF x, r
<1>5. CASE m = p
  <2>1. y.boot = b /\ y.item = n
    BY <1>2, <1>5, AfterFact
  <2>2. ~(m < p)
    <3> HIDE DEF p
    <3> QED
      BY <1>1, <1>5
  <2> HIDE DEF x, y
  <2>3. x.item < n
    BY <1>3, <2>1 DEF Past, x, y
  <2> QED
    BY <2>1, <2>2, <2>3 DEF x, y
<1> QED
  BY <1>2, <1>4, <1>5

\* A whole item has been dealt with, and what follows it is what comes next.
LEMMA WholeItem ==
    ASSUME NEW s \in Seq(TaggedByte), NEW t \in Seq(TaggedByte), NEW b \in Nat, NEW n \in Nat,
           NEW live, Sent(s, b, n), NoGap(s, b, n, live),
           NEW m \in 1..Len(s), s[m].off = Size(s[m]), EndOf(t, s, m),
           NEW c, c.boot = s[m].boot, c.item \in Nat, c.item <= s[m].item,
           Fresh(c.item, s[m].item), Past(c, b, n), NEW w,
           (\E l \in 1..(Len(s) + 1) : Reaches(s, l, c, b, n, live))
              => w = CountNext(DataBefore[s[m].item], s[m].item)
    PROVE  Follow(c, t, b, n, live, w)
<1> DEFINE p == Len(s)
           q == Len(t)
           x == s[m]
           j == x.item
           y == After(s, m, b, n)
<1>1. p \in Nat /\ q \in Nat /\ p = m + q /\ m \in 0..p /\ m \in Nat
  <2>1. p \in Nat /\ q \in Nat /\ p = m + q /\ m \in Nat
    BY SeqDomain DEF EndOf
  <2>2. m \in 0..p
    <3> HIDE DEF p
    <3>1. m \in 1..p
      BY DEF p
    <3> QED
      BY <2>1, <3>1
  <2> QED
    BY <2>1, <2>2
<1>2. x.boot \in Nat /\ j \in Nat /\ j \in DOMAIN Script
  BY SentElim
<1>3. 0 \in 0..q /\ m + 0 = m /\ m <= m /\ m - 1 \in 0..p /\ m - 1 <= m /\ (m - 1) + 1 = m /\ m - 1 < p
  <2> HIDE DEF p, q
  <2>1. m \in 1..p
    BY DEF p
  <2> QED
    BY SMTT(60), <1>1, <2>1
<1>4. After(t, 0, b, n) = y
  BY <1>3, AfterDrop
<1>5. x.boot <= y.boot /\ y.boot \in Nat
  <2>1. After(s, m - 1, b, n) = x
    BY <1>3 DEF After
  <2>2. After(s, m - 1, b, n).boot <= After(s, m, b, n).boot /\ y.boot \in Nat
    BY <1>1, <1>3, BootsGrow
  <2> QED
    BY <2>1, <2>2
<1>6. CASE x.boot < y.boot
  BY <1>1, <1>2, <1>3, <1>6, FollowLater
<1>7. CASE y.boot = x.boot
  <2>1. j < y.item /\ y.item \in Nat /\ (m < p => s[m + 1].off = 1)
    BY <1>7, NextItem
  <2>2. NoGapAt(s, m, b, n, live)
    BY DEF NoGap
  <2>3. Fresh(j, y.item - 1)
    BY <1>7, <2>2 DEF NoGapAt
  <2>4. y.item - 1 \in Int
    BY <2>1
  <2>5. Fresh(c.item, y.item - 1)
    BY <1>2, <2>3, <2>4, FreshJoin
  <2>6. c.item < y.item
    <3> HIDE DEF j, y
    <3> QED
      BY SMTT(60), <1>2, <2>1 DEF j
  <2>7. ASSUME NEW k \in 1..q, k = 1 PROVE t[k].off = 1
    <3>1. t[k] = s[m + k] /\ m < p /\ m + k = m + 1
      <4>1. t[k] = s[m + k]
        BY DEF EndOf
      <4>2. m < p /\ m + k = m + 1
        <5> HIDE DEF p, q
        <5> QED
          BY <1>1, <2>7
      <4> QED
        BY <4>1, <4>2
    <3> QED
      BY <2>1, <3>1
  <2>8. InSessionOf(c, t, b, n)
    BY <1>4, <1>7, <2>5, <2>6, <2>7 DEF InSessionOf
  <2>9. ASSUME NEW l \in 1..(q + 1), Reaches(t, l, c, b, n, live)
        PROVE  w = DataBefore[y.item]
    <3>1. Reaches(s, m + l, c, b, n, live) /\ m + l \in 1..(p + 1)
      BY <2>9, ReachesDrop
    <3>2. w = CountNext(DataBefore[j], j)
      BY <3>1
    <3>3. m < m + l
      <4> HIDE DEF q
      <4> QED
        BY SMTT(60), <1>1, <2>9
    <3>4. Reaches(s, m + l, x, b, n, live)
      <4>1. CASE m + l <= p /\ s[m + l].boot = c.boot /\ Kind(s[m + l]) = "data" /\ Fresh(c.item, s[m + l].item)
        <5>1. s[m + l].item \in Int
          <6>1. m + l \in 1..p
            <7> HIDE DEF p, q
            <7> QED
              BY <1>1, <2>9, <4>1
          <6>2. s[m + l].item \in Nat
            BY <6>1, SentElim
          <6> QED
            BY <6>2
        <5>2. Fresh(j, s[m + l].item)
          BY <1>2, <4>1, <5>1, FreshFrom
        <5> QED
          BY <4>1, <5>2 DEF Reaches
      <4>2. CASE m + l = p + 1 /\ live /\ b = c.boot /\ Fresh(c.item, n - 1)
        <5>1. n - 1 \in Int
          OBVIOUS
        <5>2. Fresh(j, n - 1)
          BY <1>2, <4>2, <5>1, FreshFrom
        <5> QED
          BY <4>2, <5>2 DEF Reaches
      <4> QED
        BY <3>1, <4>1, <4>2 DEF Reaches
    <3>5. y.item <= j + 1
      BY <1>7, <2>2, <3>1, <3>3, <3>4 DEF NoGapAt
    <3>6. y.item = j + 1
      <4> HIDE DEF j, y
      <4> QED
        BY <1>2, <2>1, <3>5
    <3>7. DataBefore[j + 1] = CountNext(DataBefore[j], j)
      BY <1>2, DataBeforeNext
    <3> QED
      BY <3>2, <3>6, <3>7
  <2>10. Counted(c, t, b, n, live, w)
    BY <1>4, <2>9 DEF Counted
  <2> QED
    BY <2>8, <2>10 DEF Follow
<1> QED
  <2> HIDE DEF x, y
  <2> QED
    BY <1>2, <1>5, <1>6, <1>7

\* The k-th byte of s is the k-th of the item that s begins with.
OfFirst(s, k) == s[k].boot = s[1].boot /\ s[k].item = s[1].item /\ s[k].off = k

\* From the first byte of an item on: bytes of the item, of a later run, or what
\* comes after the item's last byte.
LEMMA FromFirst ==
    ASSUME NEW s \in Seq(TaggedByte), NEW b, NEW n, Sent(s, b, n), 1 \in 1..Len(s), s[1].off = 1,
           NEW k \in 1..Len(s)
    PROVE  s[1].boot < s[k].boot \/ OfFirst(s, k) \/ (s[k].boot = s[1].boot /\ Size(s[1]) < k)
<1> DEFINE p == Len(s)
           x == s[1]
           r == s[k]
<1>1. p \in Nat
  BY SeqDomain
<1>2. k \in Nat /\ (k = 1 \/ 1 < k)
  <2> HIDE DEF p
  <2>1. k \in 1..p
    BY DEF p
  <2> QED
    BY <1>1, <2>1
<1>3. 1 < k => Follows(x, r, k - 1)
  BY SentElim
<1>4. Size(x) \in Nat \ {0} /\ r.off \in Nat \ {0} /\ x.off = 1
  BY SentElim
<1>5. CASE k = 1
  BY <1>4, <1>5 DEF OfFirst
<1>6. CASE 1 < k
  <2>1. Follows(x, r, k - 1)
    BY <1>3, <1>6
  <2> HIDE DEF x, r
  <2>2. x.boot < r.boot \/ (r.boot = x.boot /\ r.item = x.item /\ r.off = k)
        \/ (r.boot = x.boot /\ Size(x) < k)
    BY <1>2, <1>4, <2>1 DEF Follows
  <2> QED
    BY <2>2 DEF x, r, OfFirst
<1> QED
  BY <1>2, <1>5, <1>6

\* All bytes before one of the same run are of it, and of the item if it is long enough.
LEMMA ItemBefore ==
    ASSUME NEW s \in Seq(TaggedByte), NEW b \in Nat, NEW n, Sent(s, b, n), 1 \in 1..Len(s),
           s[1].off = 1, NEW l \in 1..Len(s), s[l].boot = s[1].boot,
           NEW k \in 1..l, k <= Size(s[1])
    PROVE  OfFirst(s, k) /\ s[k].val = Encoded[s[1].item][k] /\ k \in 1..Len(s)
<1> DEFINE p == Len(s)
           z == Size(s[1])
<1>1. p \in Nat /\ z \in Nat
  BY SeqDomain, SentElim
<1>2. /\ k \in 1..p /\ k - 1 \in 0..p /\ l - 1 \in 0..p /\ k - 1 <= l - 1 /\ k - 1 < p /\ l - 1 < p
      /\ (k - 1) + 1 = k /\ (l - 1) + 1 = l /\ ~(z < k)
  <2> HIDE DEF p, z
  <2>1. l \in 1..p /\ k \in 1..l /\ k <= z
    BY DEF p, z
  <2> QED
    BY <1>1, <2>1
<1>3. After(s, k - 1, b, n) = s[k] /\ After(s, l - 1, b, n) = s[l]
  BY <1>2 DEF After
<1>4. s[k].boot <= s[l].boot /\ s[k].boot \in Nat /\ s[l].boot \in Nat
  BY <1>2, <1>3, BootsGrow
<1>5. ~(s[1].boot < s[k].boot)
  <2> DEFINE x == s[k].boot
             y == s[l].boot
  <2>1. x \in Nat /\ y \in Nat /\ x <= y /\ s[1].boot = y
    BY <1>4
  <2> HIDE DEF x, y
  <2>2. ~(y < x)
    BY <2>1
  <2> QED
    BY <2>1, <2>2 DEF x
<1>6. OfFirst(s, k)
  BY <1>2, <1>5, FromFirst
<1>7. s[k].val = Encoded[s[k].item][s[k].off]
  BY <1>2, SentElim DEF Genuine
<1> QED
  BY <1>2, <1>6, <1>7 DEF OfFirst

\* What has been read of a frame is of one item, or of a later run; it is the whole item
\* when its last byte is of the same run.
LEMMA HeldFrame ==
    ASSUME NEW s \in Seq(TaggedByte), NEW b \in Nat, NEW n, Sent(s, b, n),
           NEW m \in 1..Len(s), 3 <= m, m = 3 + (s[2].val * 256 + s[3].val), s[1].off = 1,
           IsFrame(s[1].val)
    PROVE  /\ \A k \in 1..m : s[1].boot < s[k].boot \/ OfFirst(s, k)
           /\ Kind(s[1]) # "line"
           /\ s[m].boot = s[1].boot => m = Size(s[1])
<1> DEFINE p == Len(s)
           z == Size(s[1])
           j == s[1].item
           e == Encoded[j]
<1>1. p \in Nat
  BY SeqDomain
<1>2. m \in Nat /\ 1 \in 1..p /\ 2 \in 1..m /\ 3 \in 1..m /\ \A k \in 1..m : k \in 1..p /\ k <= m /\ k \in Nat
  <2> HIDE DEF p
  <2>1. m \in 1..p /\ 3 <= m
    BY DEF p
  <2> QED
    BY <1>1, <2>1
<1>3. /\ j \in DOMAIN Script /\ z \in Nat
      /\ s[1].val = e[1]
  <2>1. Genuine(s[1]) /\ j \in DOMAIN Script /\ z \in Nat
    BY <1>2, SentElim
  <2> QED
    BY <2>1 DEF Genuine
<1>4. z = Len(e)
  BY DEF Size
<1>5. Script[j].kind # "line"
  <2>1. ~IsC(s[1].val)
    BY DEF IsFrame, IsC, UART_FRAME_LOG, UART_FRAME_DATA
  <2> QED
    BY <1>3, <2>1, EncodedFact
<1>6. 3 <= z /\ z = 3 + (e[2] * 256 + e[3])
  <2>1. Len(e) >= 3 /\ Len(e) = 3 + (e[2] * 256 + e[3])
    BY SMTT(60), <1>3, <1>5, EncodedFact
  <2>2. z >= 3 => 3 <= z
    <3> HIDE DEF z
    <3> QED
      BY <1>3
  <2> QED
    BY <1>4, <2>1, <2>2
<1>7. ASSUME NEW l \in 1..p, 3 <= l, s[l].boot = s[1].boot PROVE m = z
  <2>1. 2 \in 1..l /\ 3 \in 1..l /\ 2 <= z /\ 3 <= z
    <3> HIDE DEF p, z
    <3> QED
      BY <1>1, <1>3, <1>6, <1>7
  <2>2. s[2].val = e[2] /\ s[3].val = e[3]
    BY <1>2, <1>7, <2>1, ItemBefore
  <2> HIDE DEF e, z
  <2> QED
    BY <1>6, <2>2
<1>8. ASSUME NEW k \in 1..m PROVE s[1].boot < s[k].boot \/ OfFirst(s, k)
  <2>1. s[1].boot < s[k].boot \/ OfFirst(s, k) \/ (s[k].boot = s[1].boot /\ z < k)
    BY <1>2, FromFirst
  <2>2. s[k].boot = s[1].boot /\ z < k => FALSE
    <3>1. z < k => 3 <= k /\ m # z
      <4> HIDE DEF z
      <4> QED
        BY <1>2, <1>3, <1>6
    <3> QED
      BY <1>2, <1>7, <3>1
  <2> QED
    BY <2>1, <2>2
<1>9. s[m].boot = s[1].boot => m = z
  BY <1>2, <1>7
<1> QED
  BY <1>5, <1>8, <1>9 DEF Kind

\* What has been read of a line is of one line, or of a later run.
LEMMA HeldLine ==
    ASSUME NEW s \in Seq(TaggedByte), NEW b \in Nat, NEW n, Sent(s, b, n),
           NEW m \in 1..Len(s), s[1].off = 1, ~IsFrame(s[1].val),
           \A k \in 2..(m - 1) : s[k].val # LF
    PROVE  /\ \A k \in 1..m : s[1].boot < s[k].boot \/ OfFirst(s, k)
           /\ Kind(s[1]) = "line"
<1> DEFINE p == Len(s)
           z == Size(s[1])
           j == s[1].item
           e == Encoded[j]
<1>1. p \in Nat
  BY SeqDomain
<1>2. m \in Nat /\ 1 \in 1..p /\ \A k \in 1..m : k \in 1..p /\ k <= m /\ k \in Nat
  <2> HIDE DEF p
  <2>1. m \in 1..p
    BY DEF p
  <2> QED
    BY <1>1, <2>1
<1>3. /\ j \in DOMAIN Script /\ z \in Nat
      /\ s[1].val = e[1]
  <2>1. Genuine(s[1]) /\ j \in DOMAIN Script /\ z \in Nat
    BY <1>2, SentElim
  <2> QED
    BY <2>1 DEF Genuine
<1>4. z = Len(e)
  BY DEF Size
<1>5. Script[j].kind = "line"
  BY <1>3, EncodedFact
<1>6. 1 < z /\ e[z] = LF /\ z \in 1..z
  <2>1. Len(e) > 1 /\ \A k \in 1..Len(e) : e[k] = LF <=> k = Len(e)
    BY <1>3, <1>5, EncodedFact
  <2>2. z > 1 => 1 < z /\ z \in 1..z
    <3> HIDE DEF z
    <3> QED
      BY <1>3
  <2> QED
    BY <1>4, <2>1, <2>2
<1>7. ASSUME NEW k \in 1..m, s[k].boot = s[1].boot, z < k PROVE FALSE
  <2>1. z \in 1..k /\ z \in 2..(m - 1) /\ z <= z
    <3> HIDE DEF z
    <3> QED
      BY <1>2, <1>3, <1>6, <1>7
  <2>2. s[z].val = e[z]
    BY <1>2, <1>7, <2>1, ItemBefore
  <2> QED
    BY <1>6, <2>1, <2>2
<1>8. ASSUME NEW k \in 1..m PROVE s[1].boot < s[k].boot \/ OfFirst(s, k)
  BY <1>2, <1>7, FromFirst
<1> QED
  BY <1>5, <1>8 DEF Kind

\* The first byte is of a later run, or the first of an item of the session.
LEMMA FollowFirst ==
    ASSUME NEW c, NEW s \in Seq(TaggedByte), NEW b, NEW n, NEW live, NEW v,
           Follow(c, s, b, n, live, v), 1 \in 1..Len(s)
    PROVE  /\ After(s, 0, b, n) = s[1] /\ 0 \in 0..Len(s)
           /\ \/ c.boot < s[1].boot
              \/ /\ c.boot = s[1].boot /\ c.item < s[1].item /\ s[1].off = 1
                 /\ Fresh(c.item, s[1].item - 1)
<1> DEFINE p == Len(s)
<1>1. p \in Nat
  BY SeqDomain
<1>2. 0 < p /\ 0 \in 0..p /\ 0 + 1 = 1
  <2> HIDE DEF p
  <2>1. 1 \in 1..p
    BY DEF p
  <2> QED
    BY <1>1, <2>1
<1>3. After(s, 0, b, n) = s[1]
  BY <1>2 DEF After
<1> QED
  BY <1>2, <1>3 DEF Follow, InSessionOf

\* The kind of an item from its first byte.
LEMMA FrameKind ==
    ASSUME NEW x \in TaggedByte, Genuine(x), x.off = 1
    PROVE  x.val = UART_FRAME_DATA <=> Kind(x) = "data"
<1>1. x.item \in DOMAIN Script /\ x.val = Encoded[x.item][1]
  BY ByteNat DEF Genuine
<1> QED
  BY <1>1, EntryFact DEF Kind

\* An item after the command, with no other command before it.
LEMMA FreshItem ==
    ASSUME NEW a \in Nat, NEW j \in DOMAIN Script, Fresh(a, j - 1), Script[j].kind # "line"
    PROVE  Fresh(a, j) /\ j \in Nat
<1>1. j \in Nat
  BY BytesAssumption, SeqDomain
<1> QED
  BY <1>1, FreshMore

\* What the proxy takes for a frame is the first m bytes of s.
FrameOf(s, m) == 3 <= m /\ m = 3 + (s[2].val * 256 + s[3].val) /\ IsFrame(s[1].val)

\* w bytes have been delivered when the frame has been handled.
Adds(s, m, v, w) ==
    /\ s[1].val = UART_FRAME_DATA => w = v + (m - 3)
    /\ s[1].val # UART_FRAME_DATA => w = v

\* A frame has been read: what follows it is what comes next.
LEMMA FrameFollow ==
    ASSUME NEW s \in Seq(TaggedByte), NEW t \in Seq(TaggedByte), NEW b \in Nat, NEW n \in Nat,
           NEW live, Sent(s, b, n), NoGap(s, b, n, live),
           NEW m \in 1..Len(s), FrameOf(s, m), EndOf(t, s, m),
           NEW c, c.boot \in Nat, c.item \in Nat, NEW v, Follow(c, s, b, n, live, v),
           NEW w, Adds(s, m, v, w)
    PROVE  Follow(c, t, b, n, live, w)
<1> DEFINE p == Len(s)
           x == s[1]
           j == x.item
<1>1. p \in Nat
  BY SeqDomain
<1>2. m \in Nat /\ m \in 0..p /\ 1 \in 1..p /\ m <= m /\ 0 <= m /\ 1 \in 1..m /\ m \in 1..m
  <2> HIDE DEF p
  <2>1. m \in 1..p /\ 3 <= m
    BY DEF p, FrameOf
  <2> QED
    BY <1>1, <2>1
<1>3. Past(c, b, n) /\ Counted(c, s, b, n, live, v)
  BY DEF Follow
<1>4. /\ After(s, 0, b, n) = x /\ 0 \in 0..p
      /\ \/ c.boot < x.boot
         \/ c.boot = x.boot /\ c.item < j /\ x.off = 1 /\ Fresh(c.item, j - 1)
  BY <1>2, FollowFirst
<1>5. CASE c.boot < x.boot
  BY SMTT(60), <1>2, <1>3, <1>4, <1>5, FollowLater
<1>6. CASE c.boot = x.boot /\ c.item < j /\ x.off = 1 /\ Fresh(c.item, j - 1)
  <2>1. /\ \A k \in 1..m : x.boot < s[k].boot \/ OfFirst(s, k)
        /\ Kind(x) # "line"
        /\ s[m].boot = x.boot => m = Size(x)
    <3>1. 3 <= m /\ m = 3 + (s[2].val * 256 + s[3].val) /\ IsFrame(x.val)
      BY DEF FrameOf
    <3> QED
      BY <1>6, <3>1, HeldFrame
  <2>2. CASE x.boot < s[m].boot
    <3>1. m - 1 \in 0..p /\ m - 1 <= m /\ (m - 1) + 1 = m /\ m - 1 < p
      <4> HIDE DEF p
      <4>1. m \in 1..p
        BY DEF p
      <4> QED
        BY <1>1, <4>1
    <3>2. After(s, m - 1, b, n) = s[m]
      BY <3>1 DEF After
    <3>3. c.boot < After(s, m - 1, b, n).boot
      BY <1>6, <2>2, <3>2
    <3> QED
      BY <1>3, <3>1, <3>3, FollowLater
  <2>3. CASE OfFirst(s, m)
    <3>1. s[m].boot = x.boot /\ s[m].item = j /\ s[m].off = m
      BY <2>3 DEF OfFirst
    <3>2. m = Size(x) /\ s[m].off = Size(s[m])
      BY <2>1, <3>1 DEF Size
    <3>3. j \in DOMAIN Script /\ x \in TaggedByte /\ Genuine(x)
      BY <1>2, SentElim
    <3>4. Script[j].kind # "line"
      BY <2>1 DEF Kind
    <3>5. Fresh(c.item, j) /\ j \in Nat
      BY <1>6, <3>3, <3>4, FreshItem
    <3>6. c.item <= j
      <4> HIDE DEF j
      <4> QED
        BY <1>6, <3>5
    <3>7. ASSUME \E l \in 1..(p + 1) : Reaches(s, l, c, b, n, live)
          PROVE  w = CountNext(DataBefore[j], j)
      <4>1. v = DataBefore[j]
        BY <1>3, <1>4, <1>6, <3>7 DEF Counted
      <4>2. CASE x.val = UART_FRAME_DATA
        <5>1. Script[j].kind = "data"
          BY <1>6, <3>3, <4>2, FrameKind DEF Kind
        <5>2. Len(Encoded[j]) = 3 + Len(Script[j].text) /\ Len(Script[j].text) \in Nat
          BY <3>3, <5>1, EntryFact
        <5>3. m = 3 + Len(Script[j].text)
          BY <3>2, <5>2 DEF Size
        <5>4. m - 3 = Len(Script[j].text)
          <6> DEFINE z == Len(Script[j].text)
          <6>1. m = 3 + z /\ z \in Nat
            BY <5>2, <5>3
          <6> HIDE DEF z
          <6> QED
            BY <6>1 DEF z
        <5>5. w = v + (m - 3)
          BY <4>2 DEF Adds
        <5> QED
          BY <4>1, <5>1, <5>4, <5>5 DEF CountNext
      <4>3. CASE x.val # UART_FRAME_DATA
        <5>1. Script[j].kind # "data"
          BY <1>6, <3>3, <4>3, FrameKind DEF Kind
        <5>2. w = v
          BY <4>3 DEF Adds
        <5> QED
          BY <3>4, <4>1, <5>1, <5>2 DEF CountNext
      <4> QED
        BY <4>2, <4>3
    <3>8. c.boot = s[m].boot /\ c.item <= s[m].item /\ Fresh(c.item, s[m].item)
          /\ ((\E l \in 1..(p + 1) : Reaches(s, l, c, b, n, live))
                 => w = CountNext(DataBefore[s[m].item], s[m].item))
      BY <1>6, <3>1, <3>5, <3>6, <3>7
    <3> QED
      BY <1>3, <3>2, <3>8, WholeItem
  <2> QED
    BY <1>2, <2>1, <2>2, <2>3
<1> QED
  BY <1>4, <1>5, <1>6

\* When a byte is one of the session's.
LEMMA SessionByte ==
    ASSUME NEW x, NEW c, NEW n, Kind(x) = "data", x.item > c,
           \A i \in (c + 1)..x.item : Script[i].kind # "line",
           x.off > HeaderLen, n = DataBefore[x.item] + x.off - HeaderLen
    PROVE  InSession(x, c, n)
BY DEF InSession

\* ... and if it is a data frame, its contents may be sent to the connection.
LEMMA FrameOwn ==
    ASSUME NEW s \in Seq(TaggedByte), NEW b \in Nat, NEW n \in Nat,
           NEW live, Sent(s, b, n),
           NEW m \in 1..Len(s), FrameOf(s, m), s[1].val = UART_FRAME_DATA,
           NEW c, c.boot \in Nat, c.item \in Nat, NEW v, Follow(c, s, b, n, live, v),
           NEW k \in 4..m
    PROVE  OwnAt(c, s[k], v + (k - 3))
<1> DEFINE p == Len(s)
           x == s[1]
           j == x.item
<1>1. p \in Nat
  BY SeqDomain
<1>2. k \in 1..p /\ 0 < k /\ 1 \in 1..p /\ k \in 1..m /\ k \in Nat /\ 3 < k
  <2> HIDE DEF p
  <2>1. m \in 1..p /\ k \in 4..m
    BY DEF p
  <2> QED
    BY <1>1, <2>1
<1>3. Past(c, b, n) /\ Counted(c, s, b, n, live, v)
  BY DEF Follow
<1>4. /\ After(s, 0, b, n) = x /\ 0 \in 0..p
      /\ \/ c.boot < x.boot
         \/ c.boot = x.boot /\ c.item < j /\ x.off = 1 /\ Fresh(c.item, j - 1)
  BY <1>2, FollowFirst
<1>5. CASE c.boot < x.boot
  <2>1. s[k].boot > c.boot
    BY <1>2, <1>4, <1>5, LaterBoots
  <2> QED
    BY <2>1 DEF OwnAt
<1>6. CASE c.boot = x.boot /\ c.item < j /\ x.off = 1 /\ Fresh(c.item, j - 1)
  <2>1. x.boot < s[k].boot \/ OfFirst(s, k)
    <3>1. 3 <= m /\ m = 3 + (s[2].val * 256 + s[3].val) /\ IsFrame(x.val)
      BY DEF FrameOf
    <3> QED
      BY ZenonT(60), <1>2, <1>6, <3>1, HeldFrame
  <2>2. CASE x.boot < s[k].boot
    <3>1. s[k].boot \in Nat
      BY <1>2, SentElim
    <3>2. s[k].boot > c.boot
      BY <1>6, <2>2, <3>1
    <3> QED
      BY <3>2 DEF OwnAt
  <2>3. CASE OfFirst(s, k)
    <3>1. s[k].boot = x.boot /\ s[k].item = j /\ s[k].off = k
      BY <2>3 DEF OfFirst
    <3>2. j \in DOMAIN Script /\ x \in TaggedByte /\ Genuine(x)
      BY <1>2, SentElim
    <3>3. Script[j].kind = "data"
      BY <1>6, <3>2, FrameKind DEF Kind
    <3>4. Fresh(c.item, j) /\ j \in Nat
      BY <1>6, <3>2, <3>3, FreshItem
    <3>5. Reaches(s, 1, c, b, n, live)
      <4>1. 1 <= p
        <5> HIDE DEF p
        <5> QED
          BY <1>1, <1>2
      <4> QED
        BY <1>6, <3>3, <3>4, <4>1 DEF Reaches, Kind
    <3>6. v = DataBefore[j]
      <4>1. 1 \in 1..(p + 1)
        <5> HIDE DEF p
        <5> QED
          BY <1>1
      <4> HIDE DEF p
      <4> QED
        BY <1>3, <1>4, <1>6, <3>5, <4>1 DEF Counted, p
    <3>7. DataBefore[j] \in Nat
      BY <3>2, DataBeforeNext
    <3>8. v + (k - 3) = (DataBefore[j] + k) - 3
      <4> DEFINE d == DataBefore[j]
      <4>1. d \in Nat /\ v = d
        BY <3>6, <3>7
      <4> HIDE DEF d
      <4>2. v + (k - 3) = (d + k) - 3
        BY <1>2, <4>1
      <4> QED
        BY <4>2 DEF d
    <3>9. j > c.item
      <4> HIDE DEF j
      <4> QED
        BY <1>6, <3>4
    <3>10. ASSUME NEW i \in (c.item + 1)..j PROVE Script[i].kind # "line"
      <4>1. DOMAIN Script = 1..Len(Script) /\ Len(Script) \in Nat
        BY BytesAssumption, SeqDomain
      <4>2. i \in DOMAIN Script /\ c.item < i /\ i <= j
        <5> DEFINE z == Len(Script)
        <5> HIDE DEF z, j
        <5>1. z \in Nat /\ j \in 1..z /\ i \in (c.item + 1)..j
          BY <3>2, <3>10, <4>1 DEF z, j
        <5>2. i \in 1..z /\ c.item < i /\ i <= j
          BY <5>1
        <5> QED
          BY <4>1, <5>2 DEF z
      <4> QED
        BY <3>4, <4>2 DEF Fresh
    <3>11. k > 3
      BY <1>2
    <3> DEFINE u == v + (k - 3)
    <3>12. u = (DataBefore[j] + k) - 3
      BY <3>8
    <3> HIDE DEF u, j
    <3>13. HeaderLen = 3
      BY DEF HeaderLen
    <3> DEFINE y == s[k]
    <3>14. Kind(y) = "data"
      BY <3>1, <3>3 DEF Kind
    <3>15. y.item > c.item /\ y.off > HeaderLen
      BY <3>1, <3>9, <3>11, <3>13
    <3>16. \A i \in (c.item + 1)..y.item : Script[i].kind # "line"
      BY <3>1, <3>10
    <3>17. u = DataBefore[y.item] + y.off - HeaderLen
      <4> DEFINE d == DataBefore[j]
      <4>1. d \in Nat /\ u = (d + k) - 3 /\ DataBefore[y.item] = d /\ y.off = k
        BY <3>1, <3>7, <3>12
      <4> HIDE DEF d, y
      <4>2. u = d + k - HeaderLen
        BY <1>2, <3>13, <4>1
      <4> QED
        BY <4>1, <4>2
    <3> HIDE DEF y
    <3>18. InSession(y, c.item, u)
      BY <3>14, <3>15, <3>16, <3>17, SessionByte
    <3> QED
      BY <1>6, <3>1, <3>18 DEF OwnAt, u, y
  <2> QED
    BY <2>1, <2>2, <2>3
<1> QED
  BY <1>4, <1>5, <1>6

\* What the proxy has read of a frame when it handles it.
LEMMA FrameRead ==
    ASSUME HostTypeOK, HandleFrame
    PROVE  /\ Len(held) \in 1..Len(Stream) /\ 3 <= Len(held) /\ held \in Seq(TaggedByte)
           /\ Len(held) = 3 + (held[2].val * 256 + held[3].val)
           /\ IsFrame(held[1].val)
           /\ \A i \in 1..Len(held) : i \in 1..Len(Stream) /\ Stream[i] = held[i]
<1> DEFINE m == Len(held)
           p == Len(Stream)
           a == held[2].val
           c == held[3].val
<1>1. mode = "frame" /\ Need(held) - m = 0 /\ m >= 3
  BY DEF HandleFrame, Missing, HeaderLen
<1>2. IsFrame(held[1].val)
  BY <1>1 DEF HostTypeOK, InputTypeOK, HeldOK
<1>3. held \in Seq(TaggedByte) /\ m \in Nat /\ p \in Nat /\ m <= p
      /\ \A i \in 1..m : i \in 1..p /\ Stream[i] = held[i]
  BY StreamType, StreamHeld, SeqDomain
<1>4. 2 \in 1..m /\ 3 \in 1..m /\ m \in 1..p /\ 3 <= m
  <2> HIDE DEF m, p
  <2> QED
    BY <1>1, <1>3
<1>5. a \in Nat /\ c \in Nat
  <2>1. held[2] \in TaggedByte /\ held[3] \in TaggedByte
    BY <1>3, <1>4, SeqElt
  <2>2. a \in ByteValue /\ c \in ByteValue
    BY <2>1 DEF TaggedByte
  <2> QED
    BY SMTT(60), <2>2 DEF ByteValue
<1>6. Need(held) = 3 + a * 256 + c
  <2>1. ~(m < 3)
    <3> HIDE DEF m
    <3> QED
      BY <1>3, <1>4
  <2> QED
    BY <2>1 DEF Need, HeaderLen
<1>7. m = 3 + (a * 256 + c)
  <2> DEFINE z == a * 256
  <2>1. z \in Nat
    BY <1>5
  <2>2. (3 + z + c) - m = 0
    BY <1>1, <1>6
  <2> HIDE DEF m, a, c, z
  <2>3. m = 3 + (z + c)
    BY <1>3, <1>5, <2>1, <2>2
  <2> QED
    BY <2>3 DEF z
<1> QED
  BY <1>2, <1>3, <1>4, <1>7

\* A frame is handled.
LEMMA FrameSession ==
    ASSUME HostTypeOK, HostTypeOK', Sent(Stream, boot, step), SessionInv, HandleFrame
    PROVE  SessionInv'
<1> DEFINE s == Stream
           t == Stream'
           l == Live
           v == Len(delivered)
           w == Len(delivered')
           m == Len(held)
           e == SubSeq(held, 4, m)
<1>1. /\ EndOf(t, s, m) /\ UNCHANGED boardVars
      /\ s \in Seq(TaggedByte) /\ t \in Seq(TaggedByte) /\ boot \in Nat /\ step \in Nat
  BY LeaveStream, StreamType, StreamTypeNext
<1>2. /\ m \in 1..Len(s) /\ 3 <= m /\ m = 3 + (held[2].val * 256 + held[3].val)
      /\ IsFrame(held[1].val) /\ \A i \in 1..m : i \in 1..Len(s) /\ s[i] = held[i]
      /\ held \in Seq(TaggedByte)
  BY FrameRead
<1>3. /\ m \in Nat /\ 1 \in 1..m /\ 2 \in 1..m /\ 3 \in 1..m /\ 3 \in 0..m /\ m - 3 \in Nat
      /\ 3 + 1 = 4
  <2>1. m \in Nat
    BY <1>2, SeqDomain
  <2> HIDE DEF m
  <2> QED
    BY <1>2, <2>1
<1>4. FrameOf(s, m) /\ s[1] = held[1]
  <2>1. s[1] = held[1] /\ s[2] = held[2] /\ s[3] = held[3]
    BY <1>2, <1>3
  <2> HIDE DEF s, m
  <2> QED
    BY <1>2, <2>1 DEF FrameOf
<1>5. \/ s[1].val # UART_FRAME_DATA /\ UNCHANGED <<conn, delivered>>
      \/ ~Connected /\ UNCHANGED <<conn, delivered>>
      \/ s[1].val = UART_FRAME_DATA /\ Connected /\ delivered' = delivered \o e /\ UNCHANGED conn
      \/ ~Connected' /\ delivered' = <<>>
  <2>1. held[1].val = UART_FRAME_LOG \/ held[1].val = UART_FRAME_DATA
    BY <1>2 DEF IsFrame
  <2>2. UART_FRAME_LOG # UART_FRAME_DATA
    BY DEF UART_FRAME_LOG, UART_FRAME_DATA
  <2>3. SubSeq(held, HeaderLen + 1, Len(held)) = e
    BY DEF HeaderLen
  <2> HIDE DEF e, s
  <2> QED
    BY <1>4, <2>1, <2>2, <2>3 DEF HandleFrame, KeepSocket, CloseSocket, Connected
<1>6. CASE ~Connected' /\ delivered' = <<>>
  BY <1>1, <1>6, SessionClosed
<1>7. CASE ~Connected /\ UNCHANGED <<conn, delivered>>
  <2>1. ~Claims(conn)
    BY <1>7 DEF Claims, Connected
  <2> QED
    BY <1>1, <1>7, <2>1, SessionGoesOn
<1>8. Claims(conn) => /\ Follow(conn, s, boot, step, l, v) /\ OwnBytes(conn, delivered)
                      /\ NoGap(s, boot, step, l)
  BY DEF SessionInv, InSequence
<1>12. CASE Connected /\ ~Claims(conn) /\ UNCHANGED conn
  BY <1>1, <1>12, SessionGoesOn
<1>9. conn.boot \in Nat /\ conn.item \in Nat /\ delivered \in Seq(TaggedByte) /\ v \in Nat
  BY ConnType
<1>10. CASE Claims(conn) /\ s[1].val # UART_FRAME_DATA /\ UNCHANGED <<conn, delivered>>
  <2>1. Adds(s, m, v, w)
    BY <1>10 DEF Adds
  <2> HIDE DEF s, t, l, v, w, m
  <2>2. Follow(conn, t, boot, step, l, w)
    BY <1>1, <1>2, <1>4, <1>8, <1>9, <1>10, <2>1, FrameFollow DEF s
  <2> QED
    BY <1>1, <1>8, <1>10, <2>2, SessionGoesOn DEF s, t, l, v, w
<1>11. CASE s[1].val = UART_FRAME_DATA /\ Claims(conn) /\ delivered' = delivered \o e /\ UNCHANGED conn
  <2>1. e \in Seq(TaggedByte) /\ Len(e) = m - 3 /\ \A i \in 1..(m - 3) : e[i] = held[3 + i]
    <3>1. /\ SubSeq(held, 3 + 1, m) \in Seq(TaggedByte)
          /\ EndOf(SubSeq(held, 3 + 1, m), held, 3)
      BY <1>2, <1>3, SeqCut, EndRest
    <3>2. e \in Seq(TaggedByte) /\ EndOf(e, held, 3)
      BY <1>3, <3>1
    <3>3. m = 3 + Len(e) /\ \A i \in 1..Len(e) : e[i] = held[3 + i]
      BY <3>2 DEF EndOf
    <3>4. Len(e) = m - 3
      <4> DEFINE q == Len(e)
      <4>1. m = 3 + q /\ q \in Nat
        BY <3>2, <3>3, SeqDomain
      <4> HIDE DEF q, m
      <4>2. q = m - 3
        BY <4>1
      <4> QED
        BY <4>2 DEF q
    <3> QED
      BY <3>2, <3>3, <3>4
  <2>2. w = v + (m - 3)
    BY <1>9, <1>11, <2>1, SeqConcat
  <2>3. Follow(conn, t, boot, step, l, w)
    <3>1. Adds(s, m, v, w)
      BY <1>11, <2>2 DEF Adds
    <3>2. Follow(conn, s, boot, step, l, v) /\ NoGap(s, boot, step, l)
      BY <1>8, <1>11
    <3> HIDE DEF s, t, l, v, w, m
    <3> QED
      BY <1>1, <1>2, <1>4, <1>9, <3>1, <3>2, FrameFollow DEF s
  <2>4. \A i \in 1..Len(e) : OwnAt(conn, e[i], v + i)
    <3> SUFFICES ASSUME NEW i \in 1..(m - 3) PROVE OwnAt(conn, e[i], v + i)
      BY <2>1
    <3>1. 3 + i \in 4..m /\ (3 + i) - 3 = i /\ 3 + i \in 1..m
      <4> HIDE DEF m
      <4> QED
        BY <1>3
    <3>2. e[i] = s[3 + i]
      BY <1>2, <2>1, <3>1
    <3>3. OwnAt(conn, s[3 + i], v + ((3 + i) - 3))
      <4> HIDE DEF s, l, v, m
      <4> QED
        BY ZenonT(60), <1>1, <1>2, <1>4, <1>8, <1>9, <1>11, <3>1, FrameOwn DEF s
    <3> QED
      BY <3>1, <3>2, <3>3
  <2>5. OwnBytes(conn, delivered')
    <3> HIDE DEF e
    <3> QED
      BY <1>8, <1>9, <1>11, <2>1, <2>4, OwnMore
  <2> QED
    BY <1>1, <1>11, <2>3, <2>5, SessionGoesOn DEF Claims, Connected
<1> QED
  BY <1>5, <1>6, <1>7, <1>10, <1>11, <1>12

\* A byte is ASCII or not.
LEMMA AsciiFact == \A u \in 0..255 : u < 128 => ~(u > 127)
OBVIOUS

\* A whole line is accepted.
LEMMA LineAccepted ==
    ASSUME LinesAccepted, HostTypeOK, NEW j \in DOMAIN Script, Script[j].kind = "line",
           Len(held) = Len(Encoded[j]), \A k \in 1..Len(held) : held[k].val = Encoded[j][k]
    PROVE  \A t \in Texts(held) : WellFormed(t) /\ IsCommand(t)
<1> DEFINE m == Len(held)
           e == Encoded[j]
           values == [k \in DOMAIN held |-> held[k].val]
<1>1. m \in Nat /\ m = Len(e) /\ e = Script[j].text /\ DOMAIN held = 1..m
  BY StreamType, SeqDomain, EntryFact
<1>2. e \in Seq(ByteValue) /\ DOMAIN e = 1..m
  BY <1>1, EncodedFact, SeqDomain
<1>3. WellFormed(e) /\ \A k \in 1..m : e[k] < 128
  BY <1>1, <1>2 DEF LinesAccepted
<1>4. values = e
  <2>1. e = [k \in 1..m |-> e[k]]
    BY <1>2
  <2>2. \A k \in 1..m : held[k].val = e[k]
    OBVIOUS
  <2> HIDE DEF e
  <2>3. [k \in 1..m |-> held[k].val] = [k \in 1..m |-> e[k]]
    BY <2>2
  <2> QED
    BY <1>1, <2>1, <2>3
<1>5. {k \in DOMAIN held : held[k].val > 127} = {}
  <2> SUFFICES ASSUME NEW k \in 1..m PROVE ~(held[k].val > 127)
    BY <1>1
  <2>1. \A u \in 0..255 : u < 128 => ~(u > 127)
    BY AsciiFact
  <2>2. e[k] \in 0..255 /\ e[k] < 128
    BY ZenonT(60), <1>1, <1>2, <1>3, SeqElt DEF ByteValue
  <2>3. held[k].val = e[k]
    OBVIOUS
  <2> HIDE DEF e
  <2> QED
    BY <2>1, <2>2, <2>3
<1>6. Texts(held) = {values}
  BY <1>5 DEF Texts
<1>7. IsCommand(e)
  BY <1>3 DEF WellFormed
<1> HIDE DEF values, e
<1> QED
  BY <1>3, <1>4, <1>6, <1>7

\* A line that is not taken for a command is not one the session continues after.
LEMMA LineSession ==
    ASSUME LinesAccepted, HostTypeOK, HostTypeOK', Sent(Stream, boot, step), SessionInv,
           IgnoreLine \/ RejectLine
    PROVE  SessionInv'
<1> DEFINE s == Stream
           t == Stream'
           l == Live
           v == Len(delivered)
           m == Len(held)
           p == Len(s)
           x == s[1]
           j == x.item
<1>1. /\ EndOf(t, s, m) /\ UNCHANGED boardVars
      /\ s \in Seq(TaggedByte) /\ t \in Seq(TaggedByte) /\ boot \in Nat /\ step \in Nat
      /\ Sent(s, boot, step)
  BY LeaveStream, StreamType, StreamTypeNext
<1>2. /\ LineComplete /\ mode = "line" /\ UNCHANGED <<conn, delivered>>
      /\ ~\A r \in Texts(held) : WellFormed(r) /\ IsCommand(r)
  BY DEF IgnoreLine, RejectLine, LineComplete, KeepSocket
<1>3. /\ held \in Seq(TaggedByte) /\ m \in Nat /\ p \in Nat /\ m <= p /\ held # <<>>
      /\ ~IsFrame(held[1].val) /\ (\A k \in 2..(m - 1) : held[k].val # LF)
      /\ \A i \in 1..m : i \in 1..p /\ s[i] = held[i]
  <2>1. held \in Seq(TaggedByte) /\ m \in Nat /\ p \in Nat /\ m <= p
        /\ (mode \in {"closed", "loop", "recv"} <=> held = <<>>)
        /\ \A i \in 1..m : i \in 1..p /\ s[i] = held[i]
    BY StreamType, StreamHeld, SeqDomain
  <2>2. ~IsFrame(held[1].val) /\ \A k \in 2..(m - 1) : held[k].val # LF
    BY <1>2 DEF HostTypeOK, InputTypeOK, HeldOK
  <2> QED
    BY <1>2, <2>1, <2>2
<1>4. /\ m \in 1..p /\ 1 \in 1..p /\ 1 \in 1..m /\ m \in 1..m /\ m \in 0..p /\ m <= m /\ 0 <= m
      /\ (\A k \in 2..(m - 1) : k \in 1..m)
      /\ m - 1 \in 0..p /\ m - 1 <= m /\ (m - 1) + 1 = m /\ m - 1 < p
  <2>1. m # 0
    BY <1>3, SeqEmpty
  <2> HIDE DEF m, p
  <2> QED
    BY <1>3, <2>1
<1>5. CASE ~Claims(conn)
  BY <1>1, <1>2, <1>5, SessionGoesOn
<1>6. CASE Claims(conn)
  <2>1. Follow(conn, s, boot, step, l, v) /\ OwnBytes(conn, delivered)
        /\ conn.boot \in Nat /\ conn.item \in Nat /\ Past(conn, boot, step)
    BY <1>6, ConnType DEF SessionInv, InSequence, Follow
  <2>2. /\ After(s, 0, boot, step) = x /\ 0 \in 0..p
        /\ \/ conn.boot < x.boot
           \/ conn.boot = x.boot /\ conn.item < j /\ x.off = 1 /\ Fresh(conn.item, j - 1)
    BY <1>1, <1>4, <2>1, FollowFirst
  <2>3. CASE conn.boot < x.boot
    <3>1. conn.boot < After(s, 0, boot, step).boot
      BY <2>2, <2>3
    <3> HIDE DEF s, t, l, v, m
    <3>2. Follow(conn, t, boot, step, l, v)
      BY <1>1, <1>4, <2>1, <2>2, <3>1, FollowLater DEF p
    <3> QED
      BY <1>1, <1>2, <2>1, <3>2, SessionGoesOn DEF s, t, l, v
  <2>4. CASE conn.boot = x.boot /\ x.off = 1
    <3>1. ~IsFrame(s[1].val) /\ \A k \in 2..(m - 1) : s[k].val # LF
      BY <1>3, <1>4
    <3>2. /\ \A k \in 1..m : x.boot < s[k].boot \/ OfFirst(s, k)
          /\ Kind(x) = "line"
      <4> HIDE DEF s, m
      <4> QED
        BY <1>1, <1>4, <2>4, <3>1, HeldLine DEF p
    <3>3. /\ s[m] \in TaggedByte /\ Genuine(s[m]) /\ s[m].boot \in Nat
          /\ (m = p => s[m].boot < boot \/ s[m].off = Size(s[m]))
          /\ j \in DOMAIN Script /\ Size(x) \in Nat /\ s[m].off <= Size(s[m])
      <4> HIDE DEF s, m
      <4> QED
        BY <1>1, <1>4, SentElim DEF p
    <3>4. CASE conn.boot < After(s, m, boot, step).boot
      <4> HIDE DEF s, t, l, v, m
      <4>1. Follow(conn, t, boot, step, l, v)
        BY <1>1, <1>4, <2>1, <3>4, FollowLater DEF p
      <4> QED
        BY <1>1, <1>2, <2>1, <4>1, SessionGoesOn DEF s, t, l, v
    <3>5. CASE OfFirst(s, m) /\ s[m].off = Size(s[m])
      <4>1. m = Size(x)
        BY <3>5 DEF OfFirst, Size
      <4>2. ASSUME NEW k \in 1..m PROVE held[k].val = Encoded[j][k]
        <5>1. s[m].boot = s[1].boot /\ m \in 1..p /\ k <= Size(s[1])
          <6>1. s[m].boot = s[1].boot
            BY <3>5 DEF OfFirst
          <6>2. k <= m
            <7> HIDE DEF m
            <7> QED
              BY <1>3
          <6> QED
            BY <1>4, <4>1, <6>1, <6>2
        <5>2. s[k].val = Encoded[j][k]
          <6> HIDE DEF s, m
          <6> QED
            BY <1>1, <1>4, <2>4, <5>1, ItemBefore DEF p
        <5> QED
          BY <1>3, <5>2
      <4>3. Script[j].kind = "line" /\ m = Len(Encoded[j])
        BY <3>2, <4>1 DEF Kind, Size
      <4>4. \A r \in Texts(held) : WellFormed(r) /\ IsCommand(r)
        <5> HIDE DEF j
        <5> QED
          BY <3>3, <4>2, <4>3, LineAccepted DEF j
      <4> QED
        BY <1>2, <4>4
    <3>6. conn.boot < After(s, m, boot, step).boot \/ OfFirst(s, m)
      <4>1. After(s, m - 1, boot, step) = s[m]
        BY <1>4 DEF After
      <4>2. s[m].boot <= After(s, m, boot, step).boot /\ After(s, m, boot, step).boot \in Nat
        <5> HIDE DEF s, m
        <5>1. After(s, m - 1, boot, step).boot <= After(s, m, boot, step).boot
              /\ After(s, m, boot, step).boot \in Nat
          BY <1>1, <1>4, BootsGrow DEF p
        <5> QED
          BY <4>1, <5>1
      <4>3. x.boot < s[m].boot \/ OfFirst(s, m)
        BY <1>4, <3>2
      <4> DEFINE y == After(s, m, boot, step).boot
                 z == s[m].boot
      <4>4. z \in Nat /\ y \in Nat /\ z <= y /\ (x.boot < z \/ OfFirst(s, m)) /\ conn.boot = x.boot
        BY <2>4, <3>3, <4>2, <4>3
      <4> HIDE DEF y, z, s
      <4>5. conn.boot < y \/ OfFirst(s, m)
        BY <2>1, <4>4
      <4> QED
        BY <4>5 DEF y
    <3>7. OfFirst(s, m) => conn.boot < After(s, m, boot, step).boot \/ s[m].off = Size(s[m])
      <4> SUFFICES ASSUME OfFirst(s, m)
                   PROVE  conn.boot < After(s, m, boot, step).boot \/ s[m].off = Size(s[m])
        OBVIOUS
      <4>1. CASE LineEnded
        <5>1. s[m].val = LF
          BY <1>3, <1>4, <4>1 DEF LineEnded
        <5>2. Kind(s[m]) = "line"
          BY <3>2 DEF OfFirst, Kind
        <5> QED
          BY <3>3, <5>1, <5>2, LineWhole
      <4>2. CASE Silence
        <5>1. s = held
          <6>1. pipe = <<>> /\ tx = <<>>
            BY <4>2 DEF Silence
          <6>2. held \o <<>> = held
            BY <1>3, SeqUnit
          <6> QED
            BY <6>1, <6>2 DEF Stream, Joined
        <5>2. m = p
          BY <5>1
        <5>3. After(s, m, boot, step).boot = boot
          <6> HIDE DEF s, m
          <6> QED
            BY SMTT(60), <1>1, <1>4, <5>2, AfterFact DEF p
        <5>4. s[m].boot = conn.boot
          BY <2>4 DEF OfFirst
        <5> QED
          BY <3>3, <5>2, <5>3, <5>4
      <4> QED
        BY <1>2, <4>1, <4>2 DEF LineComplete
    <3> QED
      BY <3>4, <3>5, <3>6, <3>7
  <2> QED
    BY <2>2, <2>3, <2>4
<1> QED
  BY <1>5, <1>6

\* Nothing has been delivered.
LEMMA OwnNone ==
    ASSUME NEW c, NEW d, d = <<>>
    PROVE  OwnBytes(c, d) /\ Len(d) = 0
<1>1. Len(d) = 0
  BY SeqNone
<1>2. \A n \in 1..Len(d) : FALSE
  BY <1>1
<1> QED
  BY <1>1, <1>2 DEF OwnBytes

\* From a byte of a line on, up to the next newline: bytes of the line, or of a later run.
LEMMA LineFollow ==
    ASSUME NEW s \in Seq(TaggedByte), NEW b, NEW n, Sent(s, b, n), NEW m \in 1..Len(s),
           Kind(s[1]) = "line", s[1].val # LF, \A k \in 2..(m - 1) : s[k].val # LF
    PROVE  s[1].boot < s[m].boot \/ (s[m].boot = s[1].boot /\ s[m].item = s[1].item)
<1> DEFINE p == Len(s)
           x == s[1]
           y == s[m]
           z == Size(x)
           o == x.off
           q == 1 + z - o
           v == s[q]
<1>1. p \in Nat /\ m \in Nat /\ 1 \in 1..p /\ (m = 1 \/ 1 < m)
  <2>1. p \in Nat
    BY SeqDomain
  <2> HIDE DEF p
  <2>2. m \in 1..p
    BY DEF p
  <2> QED
    BY <2>1, <2>2
<1>2. /\ x \in TaggedByte /\ Genuine(x) /\ o \in Nat \ {0} /\ z \in Nat \ {0} /\ o <= z
      /\ x.item \in DOMAIN Script /\ y.boot \in Nat /\ y.off \in Nat \ {0} /\ x.boot \in Nat
  BY <1>1, SentElim
<1>3. 1 < m => Follows(x, y, m - 1)
  BY <1>1, SentElim
<1>4. CASE m = 1
  BY <1>4
<1>5. CASE 1 < m /\ x.boot = y.boot /\ x.item < y.item /\ z + y.off <= o + (m - 1)
  <2>1. x.val = Encoded[x.item][o] /\ z = Len(Encoded[x.item]) /\ Script[x.item].kind = "line"
    BY <1>2 DEF Genuine, Size, Kind
  <2>2. \A k \in 1..z : Encoded[x.item][k] = LF <=> k = z
    BY <1>2, <2>1, EncodedFact
  <2>3. o # z
    <3>1. o \in 1..z
      <4> HIDE DEF o, z
      <4> QED
        BY <1>2
    <3> QED
      BY <2>1, <2>2, <3>1
  <2>4. /\ q \in 1..p /\ 1 < q /\ q < m /\ q \in 2..(m - 1) /\ q - 1 = z - o /\ q \in Nat
        /\ m - q \in Nat
    <3> DEFINE u == y.off
    <3>1. u \in Nat \ {0} /\ z + u <= o + (m - 1) /\ m \in 1..p
      BY <1>2, <1>5
    <3> HIDE DEF u, o, z, p
    <3> QED
      BY <1>1, <1>2, <2>3, <3>1
  <2> HIDE DEF q
  <2>5. v \in TaggedByte /\ Genuine(v) /\ v.boot \in Nat /\ v.off \in Nat \ {0}
    BY <2>4, SentElim
  <2>6. Follows(x, v, z - o) /\ Follows(v, y, m - q)
    <3>1. Follows(x, v, q - 1)
      BY <1>1, <2>4, SentElim
    <3>2. Follows(v, y, m - q)
      BY <2>4, SentElim
    <3> QED
      BY <2>4, <3>1, <3>2
  <2> HIDE DEF v
  <2>7. v.boot <= y.boot
    <3> HIDE DEF x, y
    <3> QED
      BY <1>2, <2>5, <2>6 DEF Follows
  <2>8. v.boot = x.boot /\ v.item = x.item /\ v.off = z
    <3> HIDE DEF x, y
    <3>1. ~(x.boot < v.boot)
      BY <1>2, <1>5, <2>5, <2>7
    <3>2. ~(z + v.off <= o + (z - o))
      <4> HIDE DEF o, z
      <4> QED
        BY <1>2, <2>5
    <3>3. o + (z - o) = z
      <4> HIDE DEF o, z
      <4> QED
        BY <1>2
    <3> QED
      BY <2>6, <3>1, <3>2, <3>3 DEF Follows
  <2>9. v.val = LF
    <3>1. v.val = Encoded[x.item][z]
      BY <2>5, <2>8 DEF Genuine
    <3>2. z \in 1..z
      <4> HIDE DEF z
      <4> QED
        BY <1>2
    <3> QED
      BY <2>2, <3>1, <3>2
  <2> QED
    BY <2>4, <2>9 DEF v
<1>6. CASE 1 < m /\ ~(x.boot = y.boot /\ x.item < y.item /\ z + y.off <= o + (m - 1))
  <2>1. Follows(x, y, m - 1)
    BY <1>3, <1>6
  <2> QED
    BY <1>6, <2>1 DEF Follows
<1> QED
  BY <1>1, <1>4, <1>5, <1>6

\* A line of the board that is served has been read to its end, or what comes next is of
\* a later run.
ServedLine ==
    mode = "serve" /\ Kind(held[1]) = "line" =>
        \/ held[1].boot < After(Stream, Len(held), boot, step).boot
        \/ /\ held[Len(held)].boot = held[1].boot /\ held[Len(held)].item = held[1].item
           /\ held[Len(held)].off = Size(held[1])

\* What is held is there, and something is.
LEMMA ServedHeld ==
    ASSUME HostTypeOK, mode = "serve"
    PROVE  /\ held \in Seq(TaggedByte) /\ Len(held) \in Nat /\ Len(Stream) \in Nat
           /\ Len(held) \in 1..Len(Stream) /\ Len(held) \in 0..Len(Stream)
           /\ 1 \in 1..Len(held) /\ 1 \in 1..Len(Stream) /\ Len(held) \in 1..Len(held)
           /\ \A i \in 1..Len(held) : i \in 1..Len(Stream) /\ Stream[i] = held[i]
<1> DEFINE m == Len(held)
           p == Len(Stream)
<1>1. /\ held \in Seq(TaggedByte) /\ m \in Nat /\ p \in Nat /\ m <= p
      /\ (mode \in {"closed", "loop", "recv"} <=> held = <<>>)
      /\ \A i \in 1..m : i \in 1..p /\ Stream[i] = held[i]
  BY StreamType, StreamHeld, SeqDomain
<1>2. held # <<>>
  BY <1>1
<1>3. m # 0
  BY <1>1, <1>2, SeqEmpty
<1> HIDE DEF m, p
<1>4. m \in 1..p /\ m \in 0..p /\ 1 \in 1..m /\ 1 \in 1..p /\ m \in 1..m
  BY <1>1, <1>3
<1> QED
  BY <1>1, <1>4 DEF m, p

\* The board does not change that.
LEMMA ServedOn ==
    ASSUME HostTypeOK, HostTypeOK', Sent(Stream, boot, step), ServedLine,
           mode = "serve", held' = held,
           \/ Stream' = Stream /\ boot' = boot
           \/ Sends(step)
           \/ BeginOf(Stream', Stream) /\ boot' = boot + 1
    PROVE  ServedLine'
<1> DEFINE s == Stream
           t == Stream'
           m == Len(held)
           p == Len(s)
           q == Len(t)
           x == held[1]
<1>1. /\ s \in Seq(TaggedByte) /\ t \in Seq(TaggedByte) /\ boot \in Nat
      /\ m \in 0..p /\ 1 \in 1..p /\ s[1] = x /\ m \in Nat /\ p \in Nat /\ q \in Nat
  <2>1. s \in Seq(TaggedByte) /\ t \in Seq(TaggedByte) /\ boot \in Nat
    BY StreamType, StreamTypeNext
  <2>2. m \in 0..p /\ 1 \in 1..p /\ s[1] = x /\ m \in Nat /\ p \in Nat
    BY ServedHeld
  <2> QED
    BY <2>1, <2>2, SeqDomain
<1>2. x.boot \in Nat /\ Past(x, boot, step)
  <2> HIDE DEF s, x
  <2> QED
    BY <1>1, SentElim DEF s
<1>3. After(s, m, boot, step).boot \in Nat
  <2>1. 0 \in 0..p /\ 0 <= m
    <3> HIDE DEF p, m
    <3> QED
      BY <1>1
  <2> HIDE DEF s, m
  <2> QED
    BY <1>1, <2>1, BootsGrow DEF s, p
<1>4. ASSUME x.boot < After(s, m, boot, step).boot
      PROVE  x.boot < After(t, m, boot', step').boot
  <2>1. CASE t = s /\ boot' = boot
    <3>1. After(s, m, boot, step').boot = After(s, m, boot, step).boot
      BY DEF After
    <3> QED
      BY <1>4, <2>1, <3>1
  <2>2. CASE Sends(step)
    <3>1. step \in DOMAIN Script /\ Extends(t, s, boot, step) /\ boot' = boot
      BY <2>2 DEF Sends
    <3>2. \A r : After(t, m, boot, r).boot = After(s, m, boot, step).boot
      <4> HIDE DEF s, t, m
      <4> QED
        BY <1>1, <3>1, AfterMore DEF p
    <3> QED
      BY <1>4, <3>1, <3>2
  <2>3. CASE BeginOf(t, s) /\ boot' = boot + 1
    <3>1. q <= p /\ \A i \in 1..q : t[i] = s[i]
      BY <2>3 DEF BeginOf
    <3>2. CASE m < q
      <4>1. m < p /\ m + 1 \in 1..q
        <5> HIDE DEF m, p, q
        <5> QED
          BY <1>1, <3>1, <3>2
      <4>2. After(t, m, boot', step') = t[m + 1] /\ After(s, m, boot, step) = s[m + 1]
        BY <3>2, <4>1 DEF After
      <4> QED
        BY <1>4, <3>1, <4>1, <4>2
    <3>3. CASE ~(m < q)
      <4>1. After(t, m, boot', step').boot = boot + 1
        BY <2>3, <3>3 DEF After
      <4>2. x.boot < boot + 1
        <5> DEFINE c == x.boot
        <5>1. c \in Nat /\ (c < boot \/ c = boot)
          BY <1>2 DEF Past
        <5> HIDE DEF c
        <5>2. c < boot + 1
          BY <1>1, <5>1
        <5> QED
          BY <5>2 DEF c
      <4> QED
        BY <4>1, <4>2
    <3> QED
      BY <3>2, <3>3
  <2> QED
    BY <2>1, <2>2, <2>3
<1> QED
  BY <1>4 DEF ServedLine

\* A command is served when its line is at an end, or when nothing more comes.
LEMMA ServedReal ==
    ASSUME HostTypeOK, HostTypeOK', Sent(Stream, boot, step), Serve
    PROVE  ServedLine'
<1> DEFINE s == Stream'
           h == held'
           m == Len(h)
           n == Len(held)
           p == Len(s)
           x == s[1]
           y == s[m]
           z == After(s, m, boot, step)
<1>1. PICK d \in Nat :
         /\ EndOf(s, Stream, d) /\ EndOf(h, held, d)
         /\ h \in Seq(TaggedByte) /\ h # <<>> /\ UNCHANGED <<boardVars, pipe>>
         /\ IsC(h[1].val)
  BY ServeStream
<1>2. s \in Seq(TaggedByte) /\ Stream \in Seq(TaggedByte) /\ boot \in Nat
      /\ boot' = boot /\ step' = step
  BY <1>1, StreamType, StreamTypeNext DEF boardVars
<1>3. Sent(s, boot, step)
  <2> HIDE DEF s
  <2> QED
    BY <1>1, <1>2, SentDrop
<1>4. /\ LineComplete /\ mode = "line" /\ held \in Seq(TaggedByte)
      /\ \A k \in 2..(n - 1) : held[k].val # LF
  <2>1. LineComplete /\ mode = "line"
    BY DEF Serve, LineComplete
  <2> QED
    BY <2>1 DEF HostTypeOK, InputTypeOK, HeldOK
<1>5. m \in Nat /\ n \in Nat /\ n = d + m /\ m # 0 /\ \A i \in 1..m : h[i] = held[d + i]
  BY <1>1, <1>4, SeqDomain, SeqEmpty DEF EndOf
<1>6. s = h \o (pipe \o tx) /\ pipe \o tx \in Seq(TaggedByte)
      /\ pipe \in Seq(TaggedByte) /\ tx \in Seq(TaggedByte)
  BY <1>1, StreamSplitNext, StreamSplit DEF boardVars
<1>7. p \in Nat /\ m <= p /\ \A i \in 1..m : s[i] = h[i]
  <2> DEFINE g == h
             e == pipe \o tx
  <2>1. g \in Seq(TaggedByte) /\ e \in Seq(TaggedByte) /\ s = g \o e
    BY <1>1, <1>6
  <2> HIDE DEF g, e, s
  <2>2. Len(g \o e) = Len(g) + Len(e) /\ \A i \in 1..Len(g) : (g \o e)[i] = g[i]
    BY <2>1, SeqConcat
  <2>3. Len(g) \in Nat /\ Len(e) \in Nat
    BY <2>1, SeqDomain
  <2> QED
    BY <2>1, <2>2, <2>3 DEF g
<1>8. /\ m \in 1..p /\ 1 \in 1..p /\ 1 \in 1..m /\ m \in 1..m /\ m \in 0..p /\ m - 1 \in 0..p
      /\ m - 1 <= m /\ (m - 1) + 1 = m /\ m - 1 < p /\ d + m = n
      /\ \A k \in 2..(m - 1) : k \in 1..m /\ d + k \in 2..(n - 1)
  <2> HIDE DEF m, n, p
  <2> QED
    BY <1>5, <1>7
<1>9. x = h[1] /\ y = h[m] /\ h[m] = held[n] /\ x.val # LF
      /\ \A k \in 2..(m - 1) : s[k].val # LF
  <2>1. x = h[1] /\ y = h[m] /\ h[m] = held[n]
    BY <1>5, <1>7, <1>8
  <2>2. x.val # LF
    BY <1>1, <2>1 DEF IsC, LF
  <2>3. ASSUME NEW k \in 2..(m - 1) PROVE s[k].val # LF
    <3>1. s[k] = held[d + k] /\ d + k \in 2..(n - 1)
      BY <1>5, <1>7, <1>8
    <3> QED
      BY <1>4, <3>1
  <2> QED
    BY <2>1, <2>2, <2>3
<1>10. /\ y \in TaggedByte /\ Genuine(y) /\ y.boot \in Nat /\ x.boot \in Nat
       /\ (m = p => y.boot < boot \/ y.off = Size(y))
  <2> HIDE DEF s, m
  <2> QED
    BY <1>3, <1>2, <1>8, SentElim DEF p
<1>11. z.boot \in Nat /\ y.boot <= z.boot
  <2>1. After(s, m - 1, boot, step) = y
    BY <1>8 DEF After
  <2> HIDE DEF s, m
  <2>2. /\ After(s, m - 1, boot, step).boot <= After(s, m, boot, step).boot
        /\ After(s, m, boot, step).boot \in Nat
    BY <1>2, <1>3, <1>8, BootsGrow DEF p
  <2> QED
    BY <2>1, <2>2
<1>12. ASSUME Kind(x) = "line"
       PROVE  x.boot < z.boot \/ (y.boot = x.boot /\ y.item = x.item /\ y.off = Size(x))
  <2>1. x.boot < y.boot \/ (y.boot = x.boot /\ y.item = x.item)
    <3> HIDE DEF s, m
    <3> QED
      BY <1>2, <1>3, <1>8, <1>9, <1>12, LineFollow DEF p
  <2>2. CASE x.boot < y.boot
    <3> DEFINE a == x.boot
               b == y.boot
               c == z.boot
    <3>1. a \in Nat /\ b \in Nat /\ c \in Nat /\ a < b /\ b <= c
      BY <1>10, <1>11, <2>2
    <3> HIDE DEF a, b, c
    <3>2. a < c
      BY <3>1
    <3> QED
      BY <3>2 DEF a, c
  <2>3. CASE y.boot = x.boot /\ y.item = x.item
    <3>1. Size(y) = Size(x) /\ Kind(y) = "line"
      BY <1>12, <2>3 DEF Size, Kind
    <3>2. CASE LineEnded
      <4>1. y.val = LF
        BY <1>9, <3>2 DEF LineEnded
      <4>2. y.off = Size(y)
        <5> HIDE DEF y
        <5> QED
          BY <1>10, <3>1, <4>1, LineWhole
      <4> QED
        BY <2>3, <3>1, <4>2
    <3>3. CASE Silence
      <4>1. s = h
        <5>1. pipe = <<>> /\ tx = <<>>
          BY <3>3 DEF Silence
        <5>2. <<>> \o <<>> = <<>>
          OBVIOUS
        <5> DEFINE g == h
        <5>3. g \in Seq(TaggedByte)
          BY <1>1
        <5> HIDE DEF g
        <5>4. g \o <<>> = g
          BY <5>3, SeqUnit
        <5> QED
          BY <1>6, <5>1, <5>2, <5>4 DEF g
      <4>2. m = p
        BY <4>1
      <4>3. z.boot = boot
        <5> HIDE DEF s, m
        <5> QED
          BY SMTT(60), <1>2, <1>8, <4>2, AfterFact DEF p
      <4> QED
        BY <1>10, <2>3, <3>1, <4>2, <4>3
    <3> QED
      BY <1>4, <3>2, <3>3 DEF LineComplete
  <2> QED
    BY <2>1, <2>2, <2>3
<1> QED
  BY <1>2, <1>9, <1>12 DEF ServedLine

\* No other step changes a line that is served.
LEMMA ServedStep ==
    ASSUME HostTypeOK, HostTypeOK', Sent(Stream, boot, step), ServedLine, HostStep
    PROVE  ServedLine'
<1>1. CASE mode' # "serve"
  BY <1>1 DEF ServedLine
<1>2. CASE mode' = "serve" /\ UNCHANGED <<byteVars, inputVars>>
  <2>1. mode' = mode /\ held' = held /\ Stream' = Stream /\ boot' = boot
    BY <1>2 DEF byteVars, boardVars, inputVars, Stream, Joined
  <2> QED
    BY <1>2, <2>1, ServedOn
<1>3. CASE /\ mode' = "serve" /\ UNCHANGED inputVars
           /\ Board \/ Transmit(mode # "closed") \/ ResetBoard
  <2>1. mode' = mode /\ held' = held
    BY <1>3 DEF inputVars
  <2>2. CASE Board
    BY <1>3, <2>1, <2>2, BoardStream, ServedOn
  <2>3. CASE Transmit(mode # "closed")
    BY <1>3, <2>1, <2>3, TransmitStream, ServedOn
  <2>4. CASE ResetBoard
    BY <1>3, <2>1, <2>4, ResetStream, ServedOn
  <2> QED
    BY <1>3, <2>2, <2>3, <2>4
<1>4. CASE mode' = "serve" /\ (OpenPort \/ ReadUart \/ RemoteCloses \/ ProxyGone)
  <2>1. CASE Serve
    BY <2>1, ServedReal
  <2>2. CASE ~Serve
    <3>1. mode' # "serve"
      BY <1>4, <2>2 DEF OpenPort, ReadUart, RemoteCloses, ProxyGone, ClosePort, BackToLoop,
        FrameStarts, LineStarts, ReadFirst, RawBytes, ReadFrame, HandleFrame, FrameTimeout,
        ReadLine, LineComplete, IgnoreLine, RejectLine, ServeLine, Connects, Fetches, Fails,
        NothingClosed
    <3> QED
      BY <1>4, <3>1
  <2> QED
    BY <2>1, <2>2
<1> QED
  BY <1>1, <1>2, <1>3, <1>4 DEF HostStep

\* A connection is opened: what follows the command is its session.
LEMMA ConnectSession ==
    ASSUME HostTypeOK, HostTypeOK', Sent(Stream, boot, step), ServedLine, SessionInv, Connects
    PROVE  SessionInv'
<1> DEFINE s == Stream
           t == Stream'
           l == Live
           w == Len(delivered')
           m == Len(held)
           p == Len(s)
           x == s[1]
           j == x.item
           c == conn'
<1>1. /\ EndOf(t, s, m) /\ UNCHANGED boardVars
      /\ s \in Seq(TaggedByte) /\ t \in Seq(TaggedByte) /\ boot \in Nat /\ step \in Nat
      /\ Sent(s, boot, step)
  BY LeaveStream, StreamType, StreamTypeNext
<1>2. /\ mode = "serve" /\ c = [boot |-> held[1].boot, item |-> held[1].item]
      /\ delivered' = delivered
  BY DEF Connects, Serves
<1>3. delivered' = <<>> /\ w = 0 /\ OwnBytes(c, delivered')
  <2>1. delivered' = <<>>
    BY <1>2, ConnType DEF SessionInv
  <2> HIDE DEF c
  <2> QED
    BY <2>1, OwnNone
<1>4. InSequence(conn, s, boot, step, l, Len(delivered)) /\ NoGap(s, boot, step, l)
  BY DEF SessionInv, InSequence
<1>5. /\ m \in 1..p /\ 1 \in 1..p /\ m \in 0..p /\ m \in Nat /\ p \in Nat /\ m <= m
      /\ s[1] = held[1] /\ s[m] = held[m]
  <2>1. m <= m
    BY ServedHeld
  <2> QED
    BY <1>2, <2>1, ServedHeld
<1>6. c.boot = x.boot /\ c.item = j
  BY <1>2, <1>5
<1>7. x.boot \in Nat /\ j \in Nat /\ Past(x, boot, step)
  <2> HIDE DEF s, m
  <2> QED
    BY <1>1, <1>5, SentElim DEF p
<1>8. Past(c, boot, step) /\ c.boot \in Nat /\ c.item \in Nat
  BY <1>6, <1>7 DEF Past
<1>9. ASSUME Script[j].kind = "line" PROVE Follow(c, t, boot, step, l, w)
  <2>1. \/ x.boot < After(s, m, boot, step).boot
        \/ s[m].boot = x.boot /\ s[m].item = j /\ s[m].off = Size(x)
    BY <1>2, <1>5, <1>9 DEF ServedLine, Kind
  <2>2. CASE x.boot < After(s, m, boot, step).boot
    <3>1. c.boot < After(s, m, boot, step).boot
      BY <1>6, <2>2
    <3> HIDE DEF s, t, l, w, m, c
    <3> QED
      BY <1>1, <1>5, <1>8, <3>1, FollowLater DEF p
  <2>3. CASE s[m].boot = x.boot /\ s[m].item = j /\ s[m].off = Size(x)
    <3>1. Fresh(j, j) /\ j <= j
      BY <1>7, FreshNone
    <3>2. w = CountNext(DataBefore[j], j)
      BY <1>3, <1>9 DEF CountNext
    <3>3. /\ s[m].off = Size(s[m]) /\ c.boot = s[m].boot /\ c.item <= s[m].item
          /\ Fresh(c.item, s[m].item) /\ w = CountNext(DataBefore[s[m].item], s[m].item)
      BY <1>6, <2>3, <3>1, <3>2 DEF Size
    <3> HIDE DEF s, t, l, w, m, c
    <3> QED
      BY <1>1, <1>4, <1>5, <1>8, <3>3, WholeItem DEF p
  <2> QED
    BY <2>1, <2>2, <2>3
<1>10. Claims(c) => Follow(c, t, boot, step, l, w)
  BY <1>6, <1>9 DEF Claims
<1>11. boot' = boot /\ step' = step /\ Live' = l
  BY <1>1 DEF boardVars, Live
<1> HIDE DEF s, t, l, w, m, c
<1>12. InSequence(c, t, boot, step, l, w)
  BY <1>1, <1>4, <1>10, SequenceDrop
<1> QED
  BY <1>3, <1>11, <1>12 DEF SessionInv, Connected, t, w, c

\* Each step keeps what is known of the sessions.
LEMMA SessionStep ==
    ASSUME LinesAccepted, HostTypeOK, HostTypeOK', Sent(Stream, boot, step), ServedLine,
           SessionInv, HostStep
    PROVE  SessionInv'
<1>1. CASE (Board \/ Transmit(mode # "closed") \/ ResetBoard) /\ UNCHANGED inputVars
  BY <1>1, BoardSession
<1>2. CASE UNCHANGED <<byteVars, inputVars>>
  BY <1>2, ReadSession
<1>3. CASE OpenPort \/ RemoteCloses \/ ProxyGone
  BY <1>3, ReadSession
<1>4. CASE ReadUart
  <2>1. CASE \/ FrameStarts \/ LineStarts \/ ReadFrame \/ ReadLine \/ NothingClosed
             \/ FrameTimeout \/ ServeLine \/ Fetches \/ Fails
    BY <2>1, ReadSession
  <2>2. CASE \E n \in 1..Len(pipe) : RawBytes(n)
    BY <2>2, RawSession
  <2>3. CASE HandleFrame
    BY <2>3, FrameSession
  <2>4. CASE IgnoreLine \/ RejectLine
    BY <2>4, LineSession
  <2>5. CASE Connects
    BY <2>5, ConnectSession
  <2> QED
    BY <1>4, <2>1, <2>2, <2>3, <2>4, <2>5 DEF ReadUart
<1> QED
  BY <1>1, <1>2, <1>3, <1>4 DEF HostStep

\* Both hold at the beginning.
LEMMA SessionInit == Init => SessionInv
<1> SUFFICES ASSUME Init PROVE SessionInv
  OBVIOUS
<1>1. held = <<>> /\ pipe = <<>> /\ tx = <<>> /\ conn = NoConn /\ delivered = <<>>
  BY DEF Init, BytesInit, InputInit
<1>2. Stream = <<>>
  <2>1. <<>> \o <<>> = <<>>
    OBVIOUS
  <2> QED
    BY <1>1, <2>1 DEF Stream, Joined
<1>3. NoGap(Stream, boot, step, Live)
  <2> DEFINE s == Stream
             l == Live
  <2>1. 1..Len(s) = {}
    BY <1>2
  <2> HIDE DEF s, l
  <2>2. NoGap(s, boot, step, l)
    BY <2>1 DEF NoGap
  <2> QED
    BY <2>2 DEF s, l
<1>4. OwnBytes(conn, delivered)
  BY <1>1, OwnNone
<1> QED
  BY <1>1, <1>3, <1>4 DEF SessionInv, InSequence, Claims

\* A connection that one of the board's lines opened receives what the TLS client sent
\* in its session, from the first byte on and without a gap, as long as the board runs
\* that opened it, and afterwards only bytes of later runs: whoever resets the board or
\* closes the connection, whenever, and wherever in an item the proxy began to read.
THEOREM OwnBytesDelivered ==
    ASSUME LinesAccepted
    PROVE  Spec => [](Connected /\ Script[conn.item].kind = "line" => OwnBytesFirst)
<1> DEFINE I == Sent(Stream, boot, step) /\ ServedLine /\ SessionInv
<1>1. Init => I
  <2>1. Init => ServedLine
    BY DEF Init, InputInit, ServedLine
  <2> QED
    BY <2>1, SentInit, SessionInit
<1>2. HostTypeOK /\ HostTypeOK' /\ I /\ [Next]_vars => I'
  BY StepFact, SentStep, ServedStep, SessionStep
<1>3. HostTypeOK /\ I => (Connected /\ Script[conn.item].kind = "line" => OwnBytesFirst)
  <2> SUFFICES ASSUME HostTypeOK, SessionInv, Connected, Script[conn.item].kind = "line"
               PROVE  OwnBytesFirst
    OBVIOUS
  <2>1. DOMAIN delivered = 1..Len(delivered)
    BY ConnType, SeqDomain
  <2>2. OwnBytes(conn, delivered)
    BY DEF SessionInv, Claims, Connected
  <2> QED
    BY <2>1, <2>2 DEF OwnBytesFirst, OwnBytes, OwnAt
<1>4. TypeOK => HostTypeOK
  BY DEF TypeOK, HostTypeOK
<1> QED
  BY <1>1, <1>2, <1>3, <1>4, HostTypeCorrect, PTL DEF Spec

=============================================================================
