------------------------- MODULE Enrollment_proofs -------------------------
(***************************************************************************)
(* Theorems about Enrollment, for any number of connections and boots, all *)
(* lengths of names, keys and signatures, and connections that break       *)
(* anywhere: the board and the RA never wait for each other, certificates  *)
(* are issued for whole requests only, what the client takes for a success *)
(* is one, no request of the board is refused, and what main prints is a   *)
(* certificate the RA issued for this CSR.                                 *)
(***************************************************************************)
EXTENDS Enrollment, MessageLemmas, FiniteSetTheorems

(***************************************************************************)
(* The CSR, and the request that carries it.                               *)
(***************************************************************************)

\* The RA's parser accepts it.
LEMMA CsrOfFact ==
    ASSUME NEW b \in Nat
    PROVE  /\ CsrOf(b) \in Seq(Nat) /\ DerObject(CsrOf(b)) /\ IsCsr(CsrOf(b))
           /\ SubjectOf(CsrOf(b)) \in Seq(Nat) /\ SpkiOf(CsrOf(b)) \in Seq(Nat)
<1> DEFINE k == [i \in 1..KeyLen |-> b]
           s == [i \in 1..SignatureLen |-> b]
           cri == csr_build_certification_request_info(CommonName, k)
<1>1. CommonName \in Seq(Nat)
  <2>1. CommonName \in Seq(0..255) /\ 0..255 \subseteq Nat
    BY ClientAssumption
  <2> QED
    BY <2>1, SeqWider
<1>2. k \in Seq(Nat) /\ Len(k) = KeyLen /\ KeyLen \in Nat
  <2>1. k \in [1..KeyLen -> Nat] /\ KeyLen \in Nat
    BY ClientAssumption
  <2> HIDE DEF k
  <2> QED
    BY <2>1, SeqMake
<1>3. s \in Seq(Nat) /\ Len(s) = SignatureLen /\ SignatureLen \in Nat
  <2>1. s \in [1..SignatureLen -> Nat] /\ SignatureLen \in Nat
    BY ClientAssumption
  <2> HIDE DEF s
  <2> QED
    BY <2>1, SeqMake
<1>4. CsrOf(b) = csr_assemble(cri, s)
  BY DEF CsrOf
<1> DEFINE n == Len(CommonName)
<1>5. n \in Nat /\ n + KeyLen + SignatureLen + 128 < 256 * 256
  BY <1>1, SeqDomain, LengthAssumption
<1> HIDE DEF k, s, n
<1>6. Fits(n + KeyLen + SignatureLen + 84) /\ Fits(n + KeyLen + 58)
      /\ Fits(n + 19) /\ Fits(KeyLen + 22)
  BY <1>2, <1>3, <1>5 DEF Fits
<1>7. /\ Fits(Len(CommonName) + Len(k) + Len(s) + 84) /\ Fits(Len(CommonName) + Len(k) + 58)
      /\ Fits(Len(CommonName) + 19) /\ Fits(Len(k) + 22)
  BY <1>2, <1>3, <1>6 DEF n
<1>8. Within(csr_assemble(cri, s), Len(CommonName) + Len(k) + Len(s) + 88)
      /\ DerObject(csr_assemble(cri, s))
  BY <1>1, <1>2, <1>3, <1>7, CsrRead
<1>9. /\ IsCsr(csr_assemble(cri, s))
      /\ SubjectOf(csr_assemble(cri, s)) = der_write_subject(CommonName)
      /\ SpkiOf(csr_assemble(cri, s)) = der_write_subject_public_key_info(k)
  BY <1>1, <1>2, <1>3, <1>7, CsrAccepted
<1>10. der_write_subject(CommonName) \in Seq(Nat)
  BY <1>1, <1>7, SubjectRead DEF Within
<1>11. der_write_subject_public_key_info(k) \in Seq(Nat)
  BY <1>2, <1>7, SpkiRead DEF Within
<1>12. csr_assemble(cri, s) \in Seq(Nat)
  BY <1>8 DEF Within
<1> HIDE DEF cri
<1> QED
  BY <1>4, <1>8, <1>9, <1>10, <1>11, <1>12

\* What BuildCsr stores.
LEMMA BuildCsrSeq ==
    ASSUME boots \in Nat, BuildCsr
    PROVE  csr' = CsrOf(boots) /\ csr' \in Seq(Nat)
<1>1. csr' = CsrOf(boots)
  BY DEF BuildCsr, CsrOf, Key, Signature
<1>2. CsrOf(boots) \in Seq(Nat)
  BY CsrOfFact
<1> QED
  BY <1>1, <1>2

\* The request that carries a CSR is one symbol longer than Content-Length says.
LEMMA TextFact ==
    ASSUME csr \in Seq(Nat), NEW h
    PROVE  /\ Len(CsrText) \in Nat
           /\ <<h>> \o CsrText # <<>> /\ Head(<<h>> \o CsrText) = h
           /\ Len(<<h>> \o CsrText) = 1 + Len(CsrText)
<1> DEFINE n == 4 * ((Len(csr) + 2) \div 3)
           t == CsrText
           S == {t[i] : i \in 1..n} \union {h}
<1>1. n \in Nat
  <2> DEFINE m == Len(csr)
  <2>1. m \in Nat
    BY SeqDomain
  <2> HIDE DEF m
  <2>2. 4 * ((m + 2) \div 3) \in Nat
    BY <2>1
  <2> QED
    BY <2>2 DEF m
<1>2. t = [i \in 1..n |-> Symbol("digit", (i - 1) % 4, GroupBytes(csr, (i - 1) \div 4))]
  BY DEF CsrText, Base64
<1> HIDE DEF n
<1>3. t = [i \in 1..n |-> t[i]]
  BY <1>2
<1> HIDE DEF t
<1>4. t \in [1..n -> S] /\ h \in S
  BY <1>3
<1> HIDE DEF S
<1>5. t \in Seq(S) /\ Len(t) = n
  BY <1>1, <1>4, SeqMake
<1>6. <<h>> \in Seq(S) /\ Len(<<h>>) = 1 /\ <<h>>[1] = h /\ <<h>> # <<>>
  BY <1>4
<1> DEFINE o == <<h>>
           c == o \o t
<1>7. c \in Seq(S) /\ c # <<>> /\ c[1] = h /\ Len(c) = 1 + Len(t)
  <2>1. o \in Seq(S) /\ Len(o) = 1 /\ o[1] = h /\ o # <<>>
    BY <1>6
  <2> HIDE DEF o
  <2>2. c \in Seq(S) /\ c # <<>> /\ c[1] = o[1]
    BY <1>5, <2>1, SeqLonger
  <2>3. Len(c) = Len(o) + Len(t)
    BY <1>5, <2>1, SeqConcat
  <2> QED
    BY <2>1, <2>2, <2>3
<1> HIDE DEF o, c
<1>8. Head(c) = h
  BY <1>7, SeqTail
<1>9. Len(t) \in Nat
  BY <1>1, <1>5
<1> QED
  BY <1>7, <1>8, <1>9 DEF c, o, t

(***************************************************************************)
(* Who waits for whom.                                                     *)
(***************************************************************************)

\* Phases in which the request has a connection.
OnLine == {"handshake", "headers", "body", "read"}

\* The client uses the last connection that was opened, all others are gone or
\* still to come; nothing is under way, and no thread runs, before a handshake.
LinksOK ==
    /\ conn \in 0..MaxConns /\ accepting \in 0..MaxConns
    /\ DOMAIN link = Conn /\ DOMAIN th = Conn /\ DOMAIN c2s = Conn
    /\ accepting # 0 => link[accepting] # "none"
    /\ \A c \in Conn :
          /\ c # conn => link[c] \in {"none", "cut"}
          /\ c > conn => link[c] = "none"
          /\ link[c] \in {"none", "tcp"} => th[c] = "none" /\ c2s[c] = <<>>

\* A request uses a connection, and only main's STEP 1 and 3 make one; the length
\* of the CSR is a number.
RequestOK ==
    /\ boots \in Nat /\ csr \in Seq(Nat)
    /\ phase # "idle" => step \in {"cacerts", "enroll"}
    /\ phase = "body" => step = "enroll"
    /\ phase \in OnLine => conn \in Conn
    /\ phase = "handshake" => link[conn] \in {"tcp", "cut"}
    /\ phase \in {"headers", "body", "read"} => link[conn] \in {"tls", "cut"}

\* The connection is open, and its thread has not read a request yet.
Awaited == link[conn] # "cut" /\ conn \notin shut /\ th[conn] = "request"

\* As long as it has not, what was sent is on its way, whole: nothing, then the
\* headers, and in the end as much as Content-Length says.
SentOK ==
    /\ phase = "headers" /\ Awaited => c2s[conn] = <<>>
    /\ phase = "body" /\ Awaited => c2s[conn] = <<Headers>>
    /\ phase = "read" /\ Awaited =>
          c2s[conn] # <<>> /\ Len(c2s[conn]) > Head(c2s[conn]).val

WaitInv == LinksOK /\ RequestOK /\ SentOK

\* The CSR that is announced is the one that is sent, unless a step rewrites it.
LEMMA HeadersSame ==
    ASSUME UNCHANGED <<aps, step, csr>>
    PROVE  Headers' = Headers
BY DEF Headers, CsrText

\* Outside of a request nothing is claimed of a connection.
LEMMA OffLine ==
    ASSUME WaitInv, phase' \in {"idle", "connect", "parse", "cleanup"},
           boots' \in Nat, csr' \in Seq(Nat), LinksOK',
           phase' # "idle" => step' \in {"cacerts", "enroll"}
    PROVE  WaitInv'
<1>1. phase' \notin OnLine /\ phase' \notin {"headers", "body", "read", "handshake"}
  BY DEF OnLine
<1>2. RequestOK'
  BY <1>1 DEF RequestOK
<1>3. SentOK'
  BY <1>1 DEF SentOK
<1> QED
  BY <1>2, <1>3 DEF WaitInv

\* The steps of the client that leave the connections alone.
LEMMA AloneWaits ==
    ASSUME WaitInv, UNCHANGED <<connVars, raVars>>,
           \/ StartRequest \/ ParseResponse \/ Cleanup \/ MainStep
           \/ RequestFails \/ CsrFails \/ ReadEnd \/ Reset
    PROVE  WaitInv'
<1>1. boots \in Nat /\ csr \in Seq(Nat) /\ (phase # "idle" => step \in {"cacerts", "enroll"})
  BY DEF WaitInv, RequestOK
<1>2. conn' = conn
  BY DEF StartRequest, ParseResponse, Return, Cleanup, MainStep, BuildCsr, Extract, SelfTest,
      RequestFails, CsrFails, ReadEnd, Reset
<1>3. LinksOK'
  BY <1>2 DEF WaitInv, LinksOK, connVars, raVars
<1>4. CASE StartRequest \/ ParseResponse \/ RequestFails \/ ReadEnd
  <2>1. phase' \in {"connect", "parse", "cleanup"} /\ UNCHANGED <<boots, csr, step>>
        /\ step \in {"cacerts", "enroll"}
    BY <1>1, <1>4 DEF StartRequest, ParseResponse, Return, RequestFails, ReadEnd, Enter
  <2> QED
    BY <1>1, <1>3, <2>1, OffLine
<1>5. CASE Cleanup \/ Reset
  <2>1. phase' = "idle" /\ boots' \in Nat /\ csr' \in Seq(Nat)
    <3>1. CASE Cleanup
      BY <1>1, <3>1 DEF Cleanup, Enter
    <3>2. CASE Reset
      <4>1. phase' = "idle" /\ boots' = boots + 1 /\ csr' = <<>>
        BY <3>2 DEF Reset
      <4>2. <<>> \in Seq(Nat)
        BY SeqNone
      <4> QED
        BY <1>1, <4>1, <4>2
    <3> QED
      BY <1>5, <3>1, <3>2
  <2> QED
    BY <1>1, <1>3, <2>1, OffLine
<1>6. CASE MainStep \/ CsrFails
  <2>1. phase = "idle" /\ phase' = "idle" /\ boots' = boots
    BY <1>1, <1>6 DEF MainStep, BuildCsr, Extract, SelfTest, CsrFails
  <2>2. csr' \in Seq(Nat)
    BY <1>1, <1>6, BuildCsrSeq DEF MainStep, Extract, SelfTest, CsrFails
  <2> QED
    BY <1>1, <1>3, <2>1, <2>2, OffLine
<1> QED
  BY <1>4, <1>5, <1>6

\* The proxy closes the old connection, whether or not it opens a new one.
LEMMA ConnectWaits ==
    ASSUME WaitInv, Connect \/ Refused
    PROVE  WaitInv'
<1>1. /\ conn \in 0..MaxConns /\ accepting \in 0..MaxConns
      /\ DOMAIN link = Conn /\ DOMAIN th = Conn /\ DOMAIN c2s = Conn
      /\ accepting # 0 => link[accepting] # "none"
      /\ \A c \in Conn :
            /\ c # conn => link[c] \in {"none", "cut"}
            /\ c > conn => link[c] = "none"
            /\ link[c] \in {"none", "tcp"} => th[c] = "none" /\ c2s[c] = <<>>
      /\ boots \in Nat /\ csr \in Seq(Nat) /\ (phase # "idle" => step \in {"cacerts", "enroll"})
  BY DEF WaitInv, LinksOK, RequestOK
<1>2. MaxConns \in Nat
  BY RaAssumption
<1>3. accepting # 0 => accepting \in Conn
  BY <1>1, <1>2 DEF Conn
<1>4. /\ DOMAIN DropOld(link) = Conn
      /\ \A c \in Conn : DropOld(link)[c] = IF link[c] = "none" THEN "none" ELSE "cut"
  BY DEF DropOld
<1>5. CASE Connect
  <2> DEFINE d == DropOld(link)
  <2>1. /\ conn < MaxConns /\ conn' = conn + 1 /\ phase = "connect" /\ phase' = "handshake"
        /\ link' = [d EXCEPT ![conn + 1] = "tcp"]
        /\ UNCHANGED <<c2s, s2c, shut, boots, csr, step>> /\ UNCHANGED raVars
    BY <1>5 DEF Connect, Connected, Enter
  <2>2. conn + 1 \in Conn /\ conn' \in Conn /\ conn' \in 0..MaxConns /\ conn' = conn + 1
    BY <1>1, <1>2, <2>1 DEF Conn
  <2> HIDE DEF d
  <2>3. /\ DOMAIN link' = Conn /\ link'[conn + 1] = "tcp"
        /\ \A c \in Conn : c # conn + 1 => link'[c] = IF link[c] = "none" THEN "none" ELSE "cut"
    BY <1>4, <2>1, <2>2 DEF d
  <2>4. link[conn + 1] = "none"
    BY <1>1, <2>2
  <2>5. UNCHANGED <<th, c2s, accepting>>
    BY <2>1 DEF raVars
  <2>6. ASSUME NEW c \in Conn
        PROVE  /\ c # conn' => link'[c] \in {"none", "cut"}
               /\ c > conn' => link'[c] = "none"
               /\ link'[c] \in {"none", "tcp"} => th'[c] = "none" /\ c2s'[c] = <<>>
    <3>1. CASE c = conn + 1
      BY <1>1, <2>2, <2>3, <2>4, <2>5, <3>1 DEF Conn
    <3>2. CASE c # conn + 1
      <4>1. link'[c] = IF link[c] = "none" THEN "none" ELSE "cut"
        BY <2>3, <3>2
      <4>2. c > conn' => c > conn
        BY <1>1, <1>2, <2>2 DEF Conn
      <4> QED
        BY <1>1, <2>2, <2>5, <4>1, <4>2
    <3> QED
      BY <3>1, <3>2
  <2>7. accepting' # 0 => link'[accepting'] # "none"
    BY <1>1, <1>3, <2>3, <2>4, <2>5
  <2>8. LinksOK'
    BY <1>1, <2>2, <2>3, <2>5, <2>6, <2>7 DEF LinksOK
  <2>9. RequestOK'
    BY <1>1, <2>1, <2>2, <2>3 DEF RequestOK
  <2>10. SentOK'
    BY <2>1 DEF SentOK
  <2> QED
    BY <2>8, <2>9, <2>10 DEF WaitInv
<1>6. CASE Refused
  <2>1. /\ phase' = "cleanup" /\ link' = DropOld(link) /\ phase = "connect"
        /\ UNCHANGED <<conn, boots, csr, step, c2s>> /\ UNCHANGED raVars
    BY <1>6 DEF Refused, RequestFails, Return, Enter
  <2>2. UNCHANGED <<th, c2s, accepting>>
    BY <2>1 DEF raVars
  <2>3. ASSUME NEW c \in Conn
        PROVE  /\ c # conn' => link'[c] \in {"none", "cut"}
               /\ c > conn' => link'[c] = "none"
               /\ link'[c] \in {"none", "tcp"} => th'[c] = "none" /\ c2s'[c] = <<>>
    BY <1>1, <1>4, <2>1, <2>2
  <2>4. LinksOK'
    BY <1>1, <1>3, <1>4, <2>1, <2>2, <2>3 DEF LinksOK
  <2> QED
    BY <1>1, <2>1, <2>4, OffLine
<1> QED
  BY <1>5, <1>6

\* A handshake starts the thread of the connection.
LEMMA HandshakeWaits ==
    ASSUME WaitInv, Handshake
    PROVE  WaitInv'
<1>1. /\ phase = "handshake" /\ phase' = "headers" /\ accepting = conn /\ link[conn] = "tcp"
      /\ accepting' = 0 /\ link' = [link EXCEPT ![conn] = "tls"]
      /\ th' = [th EXCEPT ![conn] = "request"]
      /\ UNCHANGED <<conn, boots, csr, step, c2s, shut>>
  BY DEF Handshake, HandshakeDone, Accepted, Enter
<1>2. /\ conn \in Conn /\ conn \in 0..MaxConns
      /\ DOMAIN link = Conn /\ DOMAIN th = Conn /\ DOMAIN c2s = Conn
      /\ \A c \in Conn :
            /\ c # conn => link[c] \in {"none", "cut"}
            /\ c > conn => link[c] = "none"
            /\ link[c] \in {"none", "tcp"} => th[c] = "none" /\ c2s[c] = <<>>
      /\ boots \in Nat /\ csr \in Seq(Nat) /\ step \in {"cacerts", "enroll"}
  BY <1>1 DEF WaitInv, LinksOK, RequestOK, OnLine
<1>3. DOMAIN link' = Conn /\ DOMAIN th' = Conn /\ link'[conn] = "tls"
      /\ \A c \in Conn : c # conn => link'[c] = link[c] /\ th'[c] = th[c]
  BY <1>1, <1>2
<1>4. ASSUME NEW c \in Conn
      PROVE  /\ c # conn' => link'[c] \in {"none", "cut"}
             /\ c > conn' => link'[c] = "none"
             /\ link'[c] \in {"none", "tcp"} => th'[c] = "none" /\ c2s'[c] = <<>>
  <2>1. CASE c = conn
    <3>1. ~(conn > conn)
      BY <1>2, RaAssumption DEF Conn
    <3> QED
      BY <1>1, <1>3, <2>1, <3>1
  <2>2. CASE c # conn
    BY <1>1, <1>2, <1>3, <2>2
  <2> QED
    BY <2>1, <2>2
<1>5. 0 \in 0..MaxConns
  BY RaAssumption
<1>6. LinksOK'
  BY <1>1, <1>2, <1>3, <1>4, <1>5 DEF LinksOK
<1>7. RequestOK'
  BY <1>1, <1>2, <1>3 DEF RequestOK
<1>8. c2s'[conn'] = <<>>
  BY <1>1, <1>2
<1>9. SentOK'
  BY <1>1, <1>8 DEF SentOK
<1> QED
  BY <1>6, <1>7, <1>9 DEF WaitInv

\* The headers and the CSR reach the connection whole, or the connection is gone.
LEMMA SendWaits ==
    ASSUME WaitInv, Send
    PROVE  WaitInv'
<1>1. /\ conn \in 0..MaxConns /\ accepting \in 0..MaxConns
      /\ DOMAIN link = Conn /\ DOMAIN th = Conn /\ DOMAIN c2s = Conn
      /\ accepting # 0 => link[accepting] # "none"
      /\ \A c \in Conn :
            /\ c # conn => link[c] \in {"none", "cut"}
            /\ c > conn => link[c] = "none"
            /\ link[c] \in {"none", "tcp"} => th[c] = "none" /\ c2s[c] = <<>>
      /\ boots \in Nat /\ csr \in Seq(Nat) /\ (phase # "idle" => step \in {"cacerts", "enroll"})
  BY DEF WaitInv, LinksOK, RequestOK
<1>2. /\ UNCHANGED <<link, shut, conn, boots, csr, step, aps>> /\ UNCHANGED raVars
      /\ phase \in {"headers", "body"} /\ phase' \in {"body", "read"}
      /\ phase' = "body" => phase = "headers" /\ step # "cacerts"
  BY DEF Send, SendHeaders, SendBody, Transmit, Enter
<1>3. UNCHANGED <<th, accepting>>
  BY <1>2 DEF raVars
<1>4. conn \in Conn /\ link[conn] \in {"tls", "cut"}
  BY <1>2 DEF WaitInv, RequestOK, OnLine
<1>5. /\ DOMAIN c2s' = Conn
      /\ link[conn] \notin {"none", "tcp"}
      /\ \A c \in Conn : c # conn => c2s'[c] = c2s[c]
  BY <1>1, <1>4 DEF Send, Transmit
<1>6. ASSUME NEW c \in Conn, link'[c] \in {"none", "tcp"}
      PROVE  th'[c] = "none" /\ c2s'[c] = <<>>
  BY <1>1, <1>2, <1>3, <1>5, <1>6
<1>7. LinksOK'
  BY <1>1, <1>2, <1>3, <1>5, <1>6 DEF LinksOK
<1>8. RequestOK'
  BY <1>1, <1>2, <1>4 DEF RequestOK
<1>9. Headers' = Headers /\ CsrText' = CsrText
  BY <1>2, HeadersSame DEF CsrText
<1>10. ASSUME Awaited', SendHeaders, Transmit(<<Headers>>)
       PROVE  c2s'[conn'] = <<Headers>>
  <2>1. Awaited /\ link[conn] = "tls" /\ conn \notin shut
    BY <1>2, <1>3, <1>4, <1>10 DEF Awaited
  <2>2. phase = "headers"
    BY <1>10 DEF SendHeaders
  <2>3. c2s[conn] = <<>>
    BY <2>1, <2>2 DEF WaitInv, SentOK
  <2>4. c2s' = [c2s EXCEPT ![conn] = c2s[conn] \o <<Headers>>]
    BY <1>10, <2>1 DEF Transmit
  <2>5. <<>> \o <<Headers>> = <<Headers>>
    <3> DEFINE S == {Headers}
               h == <<Headers>>
    <3>1. h \in Seq(S)
      OBVIOUS
    <3> HIDE DEF S, h
    <3>2. <<>> \o h = h
      BY <3>1, SeqUnit
    <3> QED
      BY <3>2 DEF h
  <2>6. c2s'[conn] = c2s[conn] \o <<Headers>>
    BY <1>1, <1>4, <2>4
  <2> QED
    BY <1>2, <2>3, <2>5, <2>6
<1>11. CASE SendHeaders /\ Transmit(<<Headers>>)
  <2>1. phase' = IF step = "cacerts" THEN "read" ELSE "body"
    BY <1>11 DEF SendHeaders, Enter
  <2>2. CASE phase' = "body"
    <3>1. SentOK'
      BY <1>9, <1>10, <1>11, <2>2 DEF SentOK
    <3> QED
      BY <1>7, <1>8, <3>1 DEF WaitInv
  <2>3. CASE phase' = "read"
    <3>1. step = "cacerts"
      BY <2>1, <2>3
    <3>2. Headers.val = 0
      BY <3>1 DEF Headers, Request, Symbol
    <3>3. <<Headers>> # <<>> /\ Len(<<Headers>>) = 1 /\ Head(<<Headers>>) = Headers
      OBVIOUS
    <3>4. Awaited' => c2s'[conn'] # <<>> /\ Len(c2s'[conn']) > Head(c2s'[conn']).val
      <4> DEFINE h == <<Headers>>
      <4>1. h # <<>> /\ Len(h) > Head(h).val
        BY <3>2, <3>3
      <4> HIDE DEF h
      <4>2. Awaited' => c2s'[conn'] = h
        BY <1>10, <1>11 DEF h
      <4> QED
        BY <4>1, <4>2
    <3>5. SentOK'
      BY <2>3, <3>4 DEF SentOK
    <3> QED
      BY <1>7, <1>8, <3>5 DEF WaitInv
  <2> QED
    BY <1>2, <2>2, <2>3
<1>12. CASE SendBody /\ Transmit(CsrText)
  <2>1. phase = "body" /\ phase' = "read"
    BY <1>12 DEF SendBody, Enter
  <2>2. step = "enroll"
    BY <2>1 DEF WaitInv, RequestOK
  <2>3. Headers.val = Len(CsrText)
    BY <2>2 DEF Headers, Request, Symbol
  <2> DEFINE s == <<Headers>> \o CsrText
  <2>4. s # <<>> /\ Len(s) > Head(s).val
    <3> DEFINE m == Len(CsrText)
    <3>1. m \in Nat /\ s # <<>> /\ Head(s) = Headers /\ Len(s) = 1 + m
      BY <1>1, TextFact
    <3>2. Head(s).val = m
      BY <2>3, <3>1
    <3> HIDE DEF m, s
    <3>3. Len(s) > m
      BY <3>1
    <3> QED
      BY <3>1, <3>2, <3>3
  <2>5. ASSUME Awaited' PROVE c2s'[conn'] = s
    <3>1. Awaited /\ link[conn] = "tls" /\ conn \notin shut
      BY <1>2, <1>3, <1>4, <2>5 DEF Awaited
    <3>2. c2s[conn] = <<Headers>>
      BY <2>1, <3>1 DEF WaitInv, SentOK
    <3>3. c2s' = [c2s EXCEPT ![conn] = c2s[conn] \o CsrText]
      BY <1>12, <3>1 DEF Transmit
    <3>4. c2s'[conn] = c2s[conn] \o CsrText
      BY <1>1, <1>4, <3>3
    <3> QED
      BY <1>2, <3>2, <3>4
  <2> HIDE DEF s
  <2>6. SentOK'
    BY <2>1, <2>4, <2>5 DEF SentOK
  <2> QED
    BY <1>7, <1>8, <2>6 DEF WaitInv
<1> QED
  BY <1>11, <1>12 DEF Send

\* Reading a chunk ends the request or changes nothing of this.
LEMMA ReadWaits ==
    ASSUME WaitInv, Read
    PROVE  WaitInv'
<1>1. /\ phase = "read" /\ UNCHANGED <<link, c2s, shut, raVars, conn, boots, csr, step, aps>>
      /\ phase' \in {"read", "cleanup"}
  BY DEF Read, ReadChunk, Return, Enter
<1>2. UNCHANGED <<th, accepting>>
  BY <1>1 DEF raVars
<1>3. LinksOK'
  BY <1>1, <1>2 DEF WaitInv, LinksOK
<1>4. RequestOK'
  BY <1>1 DEF WaitInv, RequestOK, OnLine
<1>5. SentOK'
  BY <1>1, <1>2 DEF WaitInv, SentOK, Awaited
<1> QED
  BY <1>3, <1>4, <1>5 DEF WaitInv

\* A thread that has begun to answer never reads a request again.
LEMMA ThreadFact ==
    ASSUME NEW c \in Conn, DOMAIN th = Conn, DOMAIN c2s = Conn, ThreadStep(c)
    PROVE  /\ UNCHANGED <<link, accepting>> /\ shut \subseteq shut'
           /\ th[c] # "none" /\ th'[c] # "request"
           /\ DOMAIN th' = Conn /\ DOMAIN c2s' = Conn
           /\ \A d \in Conn : d # c => th'[d] = th[d] /\ c2s'[d] = c2s[d]
<1> USE DEF Finish, Continue
<1>1. CASE RequestLost(c)
  BY <1>1 DEF RequestLost
<1>2. CASE NotFound(c)
  BY <1>2 DEF NotFound
<1>3. CASE do_GET(c)
  BY <1>3 DEF do_GET
<1>4. CASE DecodeRaises(c)
  BY <1>4 DEF DecodeRaises, BodyRead
<1>5. CASE Decode(c)
  BY <1>5 DEF Decode, BodyRead
<1>6. CASE NextSerial(c)
  BY <1>6 DEF NextSerial, connVars
<1>7. CASE Increment(c)
  BY <1>7 DEF Increment, connVars
<1>8. CASE Refuse(c)
  BY <1>8 DEF Refuse
<1>9. CASE Issue(c)
  BY <1>9 DEF Issue
<1>10. CASE WriteBody(c)
  BY <1>10 DEF WriteBody
<1> QED
  BY <1>1, <1>2, <1>3, <1>4, <1>5, <1>6, <1>7, <1>8, <1>9, <1>10 DEF ThreadStep

\* What the RA does: whatever it reads, its thread is then no longer awaited.
LEMMA RaWaits ==
    ASSUME WaitInv, RaStep, UNCHANGED clientVars
    PROVE  WaitInv'
<1>1. /\ conn \in 0..MaxConns /\ accepting \in 0..MaxConns
      /\ DOMAIN link = Conn /\ DOMAIN th = Conn /\ DOMAIN c2s = Conn
      /\ accepting # 0 => link[accepting] # "none"
      /\ \A c \in Conn :
            /\ c # conn => link[c] \in {"none", "cut"}
            /\ c > conn => link[c] = "none"
            /\ link[c] \in {"none", "tcp"} => th[c] = "none" /\ c2s[c] = <<>>
      /\ RequestOK /\ SentOK
  BY DEF WaitInv, LinksOK
<1>2. UNCHANGED <<aps, boots, step, phase, conn, csr>>
  BY DEF clientVars
<1>3. Headers' = Headers
  BY <1>2, HeadersSame
<1>4. ASSUME UNCHANGED <<link, th, c2s>>, shut \subseteq shut', LinksOK' PROVE WaitInv'
  <2>1. RequestOK'
    BY <1>1, <1>2, <1>4 DEF RequestOK
  <2>2. Awaited' => Awaited
    BY <1>2, <1>4 DEF Awaited
  <2>3. SentOK'
    BY <1>1, <1>2, <1>3, <1>4, <2>2 DEF SentOK
  <2> QED
    BY <1>4, <2>1, <2>3 DEF WaitInv
<1>5. CASE AcceptFails
  <2>1. UNCHANGED <<link, th, c2s>> /\ accepting' = 0 /\ shut \subseteq shut'
    BY <1>5 DEF AcceptFails
  <2>2. 0 \in 0..MaxConns
    BY RaAssumption
  <2>3. LinksOK'
    BY <1>1, <1>2, <2>1, <2>2 DEF LinksOK
  <2> QED
    BY <1>4, <2>1, <2>3
<1>6. ASSUME NEW c \in Conn, Accept(c) PROVE WaitInv'
  <2>1. UNCHANGED <<link, th, c2s, shut>> /\ accepting' = c /\ link[c] # "none"
    BY <1>6 DEF Accept, connVars
  <2>2. c \in 0..MaxConns
    BY RaAssumption DEF Conn
  <2>3. LinksOK'
    BY <1>1, <1>2, <2>1, <2>2 DEF LinksOK
  <2> QED
    BY <1>4, <2>1, <2>3
<1>7. ASSUME NEW c \in Conn, ThreadStep(c) PROVE WaitInv'
  <2>1. /\ UNCHANGED <<link, accepting>> /\ shut \subseteq shut'
        /\ th[c] # "none" /\ th'[c] # "request"
        /\ DOMAIN th' = Conn /\ DOMAIN c2s' = Conn
        /\ \A d \in Conn : d # c => th'[d] = th[d] /\ c2s'[d] = c2s[d]
    BY <1>1, <1>7, ThreadFact
  <2>2. link[c] \notin {"none", "tcp"}
    BY <1>1, <2>1
  <2>3. LinksOK'
    BY <1>1, <1>2, <2>1, <2>2 DEF LinksOK
  <2>4. RequestOK'
    BY <1>1, <1>2, <2>1 DEF RequestOK
  <2>5. phase \in {"headers", "body", "read"} => conn \in Conn
    BY <1>1 DEF RequestOK, OnLine
  <2>6. ASSUME Awaited', conn \in Conn PROVE Awaited /\ c2s'[conn'] = c2s[conn]
    <3>1. c # conn
      BY <1>2, <2>1, <2>6 DEF Awaited
    <3> QED
      BY <1>2, <2>1, <2>6, <3>1 DEF Awaited
  <2>7. SentOK'
    BY <1>1, <1>2, <1>3, <2>5, <2>6 DEF SentOK
  <2> QED
    BY <2>3, <2>4, <2>7 DEF WaitInv
<1> QED
  BY <1>5, <1>6, <1>7 DEF RaStep

\* A connection that breaks is not awaited.
LEMMA CutWaits ==
    ASSUME WaitInv, NEW c \in Conn, Cut(c)
    PROVE  WaitInv'
<1>1. /\ conn \in 0..MaxConns /\ accepting \in 0..MaxConns
      /\ DOMAIN link = Conn /\ DOMAIN th = Conn /\ DOMAIN c2s = Conn
      /\ accepting # 0 => link[accepting] # "none"
      /\ \A d \in Conn :
            /\ d # conn => link[d] \in {"none", "cut"}
            /\ d > conn => link[d] = "none"
            /\ link[d] \in {"none", "tcp"} => th[d] = "none" /\ c2s[d] = <<>>
      /\ RequestOK /\ SentOK
  BY DEF WaitInv, LinksOK
<1>2. UNCHANGED <<aps, boots, step, phase, conn, csr>> /\ UNCHANGED <<th, accepting, shut>>
  BY DEF Cut, clientVars, raVars
<1>3. /\ link[c] \in {"tcp", "tls"} /\ link' = [link EXCEPT ![c] = "cut"]
      /\ \E n \in 0..Len(c2s[c]) : c2s' = [c2s EXCEPT ![c] = SubSeq(@, 1, n)]
  BY DEF Cut
<1>4. /\ DOMAIN link' = Conn /\ DOMAIN c2s' = Conn /\ link'[c] = "cut"
      /\ \A d \in Conn : d # c => link'[d] = link[d] /\ c2s'[d] = c2s[d]
  BY <1>1, <1>3
<1>5. ASSUME NEW d \in Conn
      PROVE  /\ d # conn' => link'[d] \in {"none", "cut"}
             /\ d > conn' => link'[d] = "none"
             /\ link'[d] \in {"none", "tcp"} => th'[d] = "none" /\ c2s'[d] = <<>>
  BY <1>1, <1>2, <1>3, <1>4
<1>6. accepting' # 0 => link'[accepting'] # "none"
  <2>1. accepting # 0 => accepting \in Conn
    BY <1>1, RaAssumption DEF Conn
  <2> QED
    BY <1>1, <1>2, <1>4, <2>1
<1>7. LinksOK'
  BY <1>1, <1>2, <1>4, <1>5, <1>6 DEF LinksOK
<1>8. RequestOK'
  BY <1>1, <1>2, <1>4 DEF RequestOK, OnLine
<1>9. phase \in {"headers", "body", "read"} => conn \in Conn
  BY <1>1 DEF RequestOK, OnLine
<1>10. ASSUME Awaited', conn \in Conn PROVE Awaited /\ c2s'[conn'] = c2s[conn]
  <2>1. c # conn
    BY <1>2, <1>4, <1>10 DEF Awaited
  <2> QED
    BY <1>2, <1>4, <1>10, <2>1 DEF Awaited
<1>11. Headers' = Headers
  BY <1>2, HeadersSame
<1>12. SentOK'
  BY <1>1, <1>2, <1>9, <1>10, <1>11 DEF SentOK
<1> QED
  BY <1>7, <1>8, <1>12 DEF WaitInv

\* The invariant.
LEMMA WaitInvariant == Spec => []WaitInv
<1>1. Init => WaitInv
  <2> SUFFICES ASSUME Init PROVE WaitInv
    OBVIOUS
  <2>1. /\ boots = 1 /\ step = "cacerts" /\ phase = "idle" /\ conn = 0 /\ csr = <<>>
        /\ link = [c \in Conn |-> "none"] /\ c2s = [c \in Conn |-> <<>>]
        /\ accepting = 0 /\ th = [c \in Conn |-> "none"]
    BY DEF Init, ClientInit, RaInit
  <2>2. 0 \in 0..MaxConns
    BY RaAssumption
  <2>3. LinksOK
    BY <2>1, <2>2 DEF LinksOK
  <2>4. <<>> \in Seq(Nat)
    BY SeqNone
  <2>5. RequestOK
    BY <2>1, <2>4 DEF RequestOK, OnLine
  <2>6. SentOK
    BY <2>1 DEF SentOK
  <2> QED
    BY <2>3, <2>5, <2>6 DEF WaitInv
<1>2. WaitInv /\ [Next]_vars => WaitInv'
  <2> SUFFICES ASSUME WaitInv, [Next]_vars PROVE WaitInv'
    OBVIOUS
  <2>1. CASE UNCHANGED vars
    BY <2>1 DEF vars, clientVars, connVars, raVars, WaitInv, LinksOK, RequestOK, SentOK,
        Awaited, Headers, CsrText
  <2>2. CASE Connect \/ Refused
    BY <2>2, ConnectWaits
  <2>3. CASE Handshake
    BY <2>3, HandshakeWaits
  <2>4. CASE Send
    BY <2>4, SendWaits
  <2>5. CASE Read
    BY <2>5, ReadWaits
  <2>6. CASE HandshakeEnds \/ ReadEof \/ ClientFails
    BY <2>6, AloneWaits DEF HandshakeEnds, ReadEof, ClientFails
  <2>7. CASE (StartRequest \/ ParseResponse \/ Cleanup \/ MainStep \/ Reset)
             /\ UNCHANGED <<connVars, raVars>>
    BY <2>7, AloneWaits
  <2>8. CASE RaStep /\ UNCHANGED clientVars
    BY <2>8, RaWaits
  <2>9. CASE \E c \in Conn : Cut(c)
    BY <2>9, CutWaits
  <2> QED
    BY <2>1, <2>2, <2>3, <2>4, <2>5, <2>6, <2>7, <2>8, <2>9 DEF Next, ClientStep, Finished
<1> QED
  BY <1>1, <1>2, PTL DEF Spec

\* The board never waits for an RA that waits for the board, or for somebody who
\* will not come: the handshake of its connection is never behind one that hangs,
\* and a thread that waits for a request can read as much as it wants.
THEOREM NobodyWaits == Spec => []NobodyWaitsForEver
<1>1. WaitInv => NobodyWaitsForEver
  <2> SUFFICES ASSUME WaitInv PROVE NobodyWaitsForEver
    OBVIOUS
  <2>1. ASSUME phase = "handshake", accepting \notin {0, conn}
        PROVE  link[accepting] = "cut"
    <3>1. accepting \in 0..MaxConns
      BY DEF WaitInv, LinksOK
    <3>2. accepting \in Conn
      BY <2>1, <3>1, RaAssumption DEF Conn
    <3> QED
      BY <2>1, <3>2 DEF WaitInv, LinksOK
  <2>2. ASSUME phase = "read", link[conn] # "cut", conn \notin shut, th[conn] = "request"
        PROVE  c2s[conn] # <<>> /\ Len(c2s[conn]) > Head(c2s[conn]).val
    BY <2>2 DEF WaitInv, SentOK, Awaited
  <2> QED
    BY <2>1, <2>2 DEF NobodyWaitsForEver
<1> QED
  BY <1>1, WaitInvariant, PTL

(***************************************************************************)
(* What is sent, and what the RA makes of it.                              *)
(***************************************************************************)

\* Of a CSR that was cut, the RA's parser accepts nothing.
LEMMA WholeCsr ==
    ASSUME NEW b \in Nat, NEW cd, IsPart(cd, CsrOf(b)), IsCsr(cd)
    PROVE  cd = CsrOf(b)
<1> DEFINE w == CsrOf(b)
<1>1. w \in Seq(Nat) /\ DerObject(w)
  BY CsrOfFact
<1>2. PICK n \in 0..Len(w) : cd = SubSeq(w, 1, n)
  BY DEF IsPart
<1>3. PICK tag \in Nat, content \in Seq(Nat) : Fits(Len(content)) /\ w = der_wrap(tag, content)
  BY <1>1 DEF DerObject
<1> HIDE DEF w
<1>4. Len(w) \in Nat
  BY <1>1, SeqDomain
<1>5. CASE n < Len(w)
  <2>1. ~IsCsr(SubSeq(der_wrap(tag, content), 1, n))
    BY <1>3, <1>4, <1>5, CutObject
  <2> QED
    BY <1>2, <1>3, <2>1
<1>6. CASE n = Len(w)
  BY <1>1, <1>2, <1>6, SeqAll DEF w
<1> QED
  BY <1>4, <1>5, <1>6

\* A part of a sequence that starts with h.
LEMMA PartTail ==
    ASSUME NEW S, NEW h \in S, NEW t \in Seq(S), NEW u, IsPart(u, <<h>> \o t), u # <<>>
    PROVE  /\ u \in Seq(S) /\ Head(u) = h /\ IsPart(Tail(u), t)
           /\ Len(u) - 1 >= Len(t) => Tail(u) = t
<1> DEFINE o == <<h>>
           c == o \o t
<1>1. o \in Seq(S) /\ Len(o) = 1 /\ o[1] = h
  OBVIOUS
<1>2. IsPart(u, c) /\ t \in Seq(S) /\ Len(t) \in Nat
  BY SeqDomain
<1> HIDE DEF o
<1>3. c \in Seq(S) /\ Len(c) = 1 + Len(t) /\ c[1] = h /\ \A i \in 1..Len(t) : c[1 + i] = t[i]
  BY <1>1, <1>2, SeqOneBefore
<1> HIDE DEF c
<1>4. PICK n \in 0..Len(c) : u = SubSeq(c, 1, n)
  BY <1>2 DEF IsPart
<1>5. u \in Seq(S) /\ Len(u) = n /\ \A i \in 1..n : u[i] = c[i]
  BY <1>3, <1>4
<1>6. n \in 1..Len(c)
  BY <1>5, SeqEmpty
<1> DEFINE r == Tail(u)
           v == SubSeq(t, 1, n - 1)
<1>7. r \in Seq(S) /\ Len(r) = n - 1 /\ Head(u) = u[1] /\ \A i \in 1..(n - 1) : r[i] = u[i + 1]
  BY <1>5, SeqTail
<1>8. n - 1 \in 0..Len(t)
  BY <1>2, <1>3, <1>6
<1>9. v \in Seq(S) /\ Len(v) = n - 1 /\ \A i \in 1..(n - 1) : v[i] = t[i]
  BY <1>2, <1>8
<1> HIDE DEF r, v
<1>10. r = v
  <2>1. \A i \in 1..Len(r) : r[i] = v[i]
    <3> TAKE i \in 1..Len(r)
    <3>1. i \in 1..(n - 1) /\ i + 1 \in 1..n /\ i \in 1..Len(t) /\ i + 1 = 1 + i
      BY <1>2, <1>3, <1>6, <1>7
    <3>2. r[i] = c[i + 1]
      BY <1>5, <1>7, <3>1
    <3>3. c[1 + i] = t[i]
      BY <1>3, <3>1
    <3> QED
      BY <1>9, <3>1, <3>2, <3>3
  <2> QED
    BY <1>7, <1>9, <2>1, SeqSame
<1>11. IsPart(r, t)
  BY <1>8, <1>10 DEF IsPart, v
<1>12. Len(u) - 1 >= Len(t) => r = t
  <2> SUFFICES ASSUME Len(u) - 1 >= Len(t) PROVE r = t
    OBVIOUS
  <2>1. n - 1 = Len(t)
    BY <1>2, <1>5, <1>8
  <2>2. v = SubSeq(t, 1, Len(t))
    BY <2>1 DEF v
  <2> QED
    BY <1>2, <1>10, <2>2, SeqAll
<1>13. Head(u) = h
  BY <1>3, <1>5, <1>6, <1>7
<1> QED
  BY <1>5, <1>11, <1>12, <1>13 DEF r

\* The requests of main.
Aps == {EST_RA, DMS}
TextOf(b) == Base64(CsrOf(b))
GetTo(a) == Request("GET", a, 0)
PostTo(a, b) == Request("POST", a, Len(TextOf(b)))
Post(a, b) == <<PostTo(a, b)>> \o TextOf(b)

LEMMA ApsSeq ==
    ASSUME NEW a \in Aps
    PROVE  a \in Seq(Nat)
<1>1. EST_RA \in Seq(Nat)
  BY DEF EST_RA
<1>2. DMS \in Seq(Nat)
  BY DEF DMS
<1>3. a = EST_RA \/ a = DMS
  BY DEF Aps
<1> QED
  BY <1>1, <1>2, <1>3

LEMMA RequestFact ==
    ASSUME NEW a \in Aps, NEW b \in Nat
    PROVE  /\ TextOf(b) \in Seq(Symbols) /\ Len(TextOf(b)) \in Nat \ {0}
           /\ GetTo(a) \in Symbols /\ GetTo(a).kind = "GET"
           /\ PostTo(a, b) \in Symbols /\ PostTo(a, b).kind = "POST" /\ PostTo(a, b).val = Len(TextOf(b))
           /\ PostTo(a, b).bytes = a
<1> DEFINE n == Len(TextOf(b))
           m == Len(CsrOf(b))
<1>1. CsrOf(b) \in Seq(Nat) /\ DerObject(CsrOf(b))
  BY CsrOfFact
<1>2. m \in Nat /\ m # 0
  <2>1. CsrOf(b) # <<>>
    BY <1>1, ObjectSeq
  <2> QED
    BY <1>1, <2>1, SeqEmpty, SeqDomain
<1>3. TextOf(b) \in Seq(Symbols) /\ n = 4 * ((m + 2) \div 3)
  BY <1>1, TextType DEF TextOf
<1> HIDE DEF n, m
<1>4. n \in Nat \ {0}
  BY <1>2, <1>3
<1>5. a \in Seq(Nat)
  BY ApsSeq
<1>6. "GET" \in Kinds /\ "POST" \in Kinds
  BY DEF Kinds
<1>7. GetTo(a) \in Symbols /\ GetTo(a).kind = "GET"
  BY <1>5, <1>6, SymbolType DEF GetTo, Request
<1>8. /\ PostTo(a, b) \in Symbols /\ PostTo(a, b).kind = "POST" /\ PostTo(a, b).val = n
      /\ PostTo(a, b).bytes = a
  BY <1>4, <1>5, <1>6, SymbolType DEF PostTo, Request, n
<1> QED
  BY <1>3, <1>4, <1>7, <1>8 DEF n

\* What do_POST decodes is a part of the CSR that was sent, and all of it when
\* all that Content-Length announces was there.
LEMMA PostRead ==
    ASSUME NEW a \in Aps, NEW b \in Nat, NEW up, IsPart(up, Post(a, b)), up # <<>>
    PROVE  /\ Head(up) = PostTo(a, b)
           /\ Decodes(Compact(Tail(up))) => IsPart(Decoded(Compact(Tail(up))), CsrOf(b))
           /\ Len(up) - 1 >= Head(up).val =>
                 Decodes(Compact(Tail(up))) /\ Decoded(Compact(Tail(up))) = CsrOf(b)
<1> DEFINE t == TextOf(b)
           r == Tail(up)
<1>1. /\ t \in Seq(Symbols) /\ PostTo(a, b) \in Symbols /\ PostTo(a, b).val = Len(t)
      /\ CsrOf(b) \in Seq(Nat)
  BY RequestFact, CsrOfFact
<1>2. IsPart(up, <<PostTo(a, b)>> \o t)
  BY DEF Post
<1> HIDE DEF t
<1>3. Head(up) = PostTo(a, b) /\ IsPart(r, t) /\ (Len(up) - 1 >= Len(t) => r = t)
  BY <1>1, <1>2, PartTail
<1> HIDE DEF r
<1>4. Decodes(Compact(r)) => IsPart(Decoded(Compact(r)), CsrOf(b))
  BY <1>1, <1>3, DecodedPart DEF t, TextOf
<1>5. Decodes(Compact(t)) /\ Decoded(Compact(t)) = CsrOf(b)
  BY <1>1, DecodedText DEF t, TextOf
<1>6. Len(up) - 1 >= Head(up).val => Decodes(Compact(r)) /\ Decoded(Compact(r)) = CsrOf(b)
  BY <1>1, <1>3, <1>5
<1> QED
  BY <1>3, <1>4, <1>6 DEF r

\* A GET is one symbol.
LEMMA GetRead ==
    ASSUME NEW a \in Aps, NEW up, IsPart(up, <<GetTo(a)>>), up # <<>>
    PROVE  Head(up) = GetTo(a) /\ Head(up).kind = "GET"
<1>1. GetTo(a) \in Symbols /\ GetTo(a).kind = "GET"
  <2>1. 0 \in Nat
    OBVIOUS
  <2> QED
    BY <2>1, RequestFact
<1>2. <<>> \in Seq(Symbols) /\ <<GetTo(a)>> \in Seq(Symbols)
  BY <1>1, SeqNone, SeqSmall
<1>3. <<GetTo(a)>> \o <<>> = <<GetTo(a)>>
  BY <1>2, SeqUnit
<1>4. IsPart(up, <<GetTo(a)>> \o <<>>)
  BY <1>3
<1>5. Head(up) = GetTo(a)
  BY <1>1, <1>2, <1>4, PartTail
<1> QED
  BY <1>1, <1>5

(***************************************************************************)
(* What the RA answers.                                                    *)
(***************************************************************************)

\* All that a board may read.
Good == Symbols \ {Status(400)}

LEMMA GoodSymbols ==
    /\ Status(200) \in Good /\ Status(404) \in Good
    /\ Split \in Good /\ Html \in Good /\ Space \in Good
<1>1. "status" \in Kinds /\ "split" \in Kinds /\ "html" \in Kinds /\ "space" \in Kinds
  BY DEF Kinds
<1>2. <<>> \in Seq(Nat)
  BY SeqNone
<1>3. /\ Status(200) \in Symbols /\ Status(404) \in Symbols /\ Split \in Symbols
      /\ Html \in Symbols /\ Space \in Symbols
  <2>1. \A k \in Kinds, n \in Nat : Symbol(k, n, <<>>) \in Symbols
    BY <1>2, SymbolType
  <2>2. 200 \in Nat /\ 404 \in Nat /\ 0 \in Nat
    OBVIOUS
  <2>3. Status(200) \in Symbols /\ Status(404) \in Symbols
    BY <1>1, <2>1, <2>2, Zenon DEF Status
  <2>4. Split \in Symbols /\ Html \in Symbols /\ Space \in Symbols
    BY <1>1, <2>1, <2>2, Zenon DEF Split, Html, Space
  <2> QED
    BY <2>3, <2>4
<1>4. Status(200).val # Status(400).val /\ Status(404).val # Status(400).val
  <2>1. \A n \in Nat : Symbol("status", n, <<>>).val = n
    BY DEF Symbol
  <2>2. \A n \in Nat : Status(n).val = n
    BY <2>1, Zenon DEF Status
  <2>3. 200 \in Nat /\ 400 \in Nat /\ 404 \in Nat
    OBVIOUS
  <2>4. Status(200).val = 200 /\ Status(400).val = 400 /\ Status(404).val = 404
    BY <2>2, <2>3, ZenonT(60)
  <2> QED
    BY <2>4
<1>5. /\ Split.kind # Status(400).kind /\ Html.kind # Status(400).kind
      /\ Space.kind # Status(400).kind
  BY DEF Status, Symbol, Split, Html, Space
<1> QED
  BY <1>3, <1>4, <1>5 DEF Good

\* Nothing that stands for a byte of base64 is one,
LEMMA TextGood ==
    ASSUME NEW der \in Seq(Nat)
    PROVE  Base64(der) \in Seq(Good)
<1> DEFINE t == Base64(der)
<1>1. /\ t \in Seq(Symbols)
      /\ \A i \in 1..Len(t) : t[i] = Symbol("digit", (i - 1) % 4, GroupBytes(der, (i - 1) \div 4))
  BY TextType
<1> HIDE DEF t
<1>2. \A i \in 1..Len(t) : t[i] \in Good
  <2> TAKE i \in 1..Len(t)
  <2>1. t[i].kind = "digit"
    <3>1. \A v, b : Symbol("digit", v, b).kind = "digit"
      BY DEF Symbol
    <3>2. \E v, b : t[i] = Symbol("digit", v, b)
      BY <1>1, Zenon
    <3> QED
      BY <3>1, <3>2
  <2>2. Status(400).kind = "status"
    BY DEF Status, Symbol
  <2>3. t[i] \in Symbols
    BY <1>1, SeqElt
  <2> QED
    BY <2>1, <2>2, <2>3 DEF Good
<1>3. Len(t) \in Nat /\ t \in [1..Len(t) -> Good]
  <2>1. Len(t) \in Nat /\ t \in [1..Len(t) -> Symbols]
    BY <1>1
  <2> QED
    BY <1>2, <2>1
<1>4. t \in Seq(Good)
  BY <1>3, SeqMake
<1> QED
  BY <1>4 DEF t

\* A segment is a sequence, also when it is empty.
LEMMA SegmentType ==
    ASSUME NEW S, NEW s \in Seq(S), NEW a \in Nat \ {0}, NEW b \in 0..Len(s)
    PROVE  SubSeq(s, a, b) \in Seq(S)
OBVIOUS

\* nor is a line of it.
LEMMA LinesGood ==
    ASSUME NEW text \in Seq(Good)
    PROVE  LineBreaks(text) \in Seq(Good)
<1> DEFINE n == (Len(text) + LineLen - 1) \div LineLen
           line(l) == SubSeq(text, (l - 1) * LineLen + 1,
                             IF l * LineLen < Len(text) THEN l * LineLen ELSE Len(text))
                         \o <<Space, Space>>
           f == [l \in 1..n |-> line(l)]
<1>1. LineLen \in Nat \ {0} /\ Len(text) \in Nat
  BY LineAssumption, SeqDomain
<1>2. n \in Nat
  <2> DEFINE m == Len(text) + LineLen - 1
  <2>1. m \in Nat
    BY <1>1
  <2> HIDE DEF m
  <2>2. m \div LineLen \in Nat
    BY <1>1, <2>1
  <2> QED
    BY <2>2 DEF m
<1>3. \A l \in 1..n : line(l) \in Seq(Good)
  <2> TAKE l \in 1..n
  <2> DEFINE a == (l - 1) * LineLen + 1
             b == IF l * LineLen < Len(text) THEN l * LineLen ELSE Len(text)
  <2>1. a \in Nat \ {0}
    <3>1. l - 1 \in Nat
      BY <1>2
    <3>2. (l - 1) * LineLen \in Nat
      BY <1>1, <3>1
    <3> QED
      BY <3>2
  <2>2. b \in 0..Len(text)
    <3>1. l * LineLen \in Nat
      BY <1>1, <1>2
    <3> QED
      BY <1>1, <3>1
  <2> HIDE DEF a, b
  <2>3. SubSeq(text, a, b) \in Seq(Good)
    BY <2>1, <2>2, SegmentType
  <2>4. <<Space, Space>> \in Seq(Good)
    BY GoodSymbols, SeqSmall
  <2>5. SubSeq(text, a, b) \o <<Space, Space>> \in Seq(Good)
    BY <2>3, <2>4, SeqConcat
  <2> QED
    BY <2>5 DEF a, b
<1> HIDE DEF line, n
<1>4. f \in Seq(Seq(Good))
  <2>1. f \in [1..n -> Seq(Good)]
    BY <1>3
  <2> HIDE DEF f
  <2> QED
    BY <1>2, <2>1, SeqMake
<1>5. FlattenSeq(f) \in Seq(Good)
  <2>1. <<>> \in Seq(Good)
    BY SeqNone
  <2> HIDE DEF f
  <2> QED
    BY <1>4, <2>1, FlatAppend
<1> QED
  BY <1>5, Zenon DEF LineBreaks, line, n

\* What WriteBody sends.
LEMMA BodyGood ==
    ASSUME NEW cert \in Seq(Nat)
    PROVE  LineBreaks(Base64(IF cert = <<>> THEN CacertsDer ELSE cert_der_to_pkcs7(cert)))
              \in Seq(Good)
<1> DEFINE p == IF cert = <<>> THEN CacertsDer ELSE cert_der_to_pkcs7(cert)
<1>1. CacertsDer \in Seq(Nat)
  <2>1. CacertsDer \in Seq(0..255) /\ 0..255 \subseteq Nat
    BY RaAssumption
  <2> QED
    BY <2>1, SeqWider
<1>2. p \in Seq(Nat)
  BY <1>1, Pkcs7Fact
<1> HIDE DEF p
<1>3. LineBreaks(Base64(p)) \in Seq(Good)
  BY <1>2, TextGood, LinesGood
<1> QED
  BY <1>3 DEF p

(***************************************************************************)
(* A connection, its thread and what is under way.                         *)
(***************************************************************************)

\* A thread that has read a request and not answered it.
Doing == {"serial", "increment", "build"}

\* A response that is no success, whatever follows it.
Silent(r) == r = <<>> \/ r[1] = Status(404)

\* Of a connection in state l, whose thread is at t, with up and dn under way in
\* the two directions, and cd and ct in the variables of do_POST, to an RA with
\* APS a in the n-th boot of the board: what was sent to the RA is a part of a
\* request, and what it has decoded one of a CSR, a whole one as long as the
\* connection is there; a certificate was made for an accepted CSR only.
ConnFact(a, n, l, t, up, dn, cd, ct) ==
    /\ dn \in Seq(Good) /\ ct \in Seq(Nat)
    /\ IsPart(up, <<GetTo(a)>>) \/ \E b \in 1..n : IsPart(up, Post(a, b))
    /\ \E b \in 1..n : IsPart(cd, CsrOf(b))
    /\ ct # <<>> => IsCsr(cd) /\ t \in {"write", "done"}
    /\ t \in {"none", "request"} => cd = <<>>
    /\ t \in Doing /\ l = "tls" => \E b \in 1..n : cd = CsrOf(b)
    /\ l \in {"none", "tcp"} => dn = <<>>

\* The connection carries the CSR of boot b, and r, which the board has read or
\* will read, is no success as long as the RA has made no certificate.
Current(a, b, t, up, cd, ct, r) ==
    /\ IsPart(up, Post(a, b)) /\ IsPart(cd, CsrOf(b))
    /\ ct = <<>> => t # "write" /\ Silent(r)

\* A step of the thread keeps both, and leaves a certificate that was made.
Moves(a, n, l, t, up, dn, cd, ct, t2, up2, dn2, cd2, ct2) ==
    /\ ConnFact(a, n, l, t2, up2, dn2, cd2, ct2)
    /\ \A b \in 1..n, r \in Seq(Good) :
          Current(a, b, t, up, cd, ct, r \o dn) => Current(a, b, t2, up2, cd2, ct2, r \o dn2)
    /\ ct # <<>> => ct2 = ct /\ cd2 = cd

\* A response that is no success stays so when more is appended after it,
LEMMA SilentMore ==
    ASSUME NEW r \in Seq(Good), NEW dn \in Seq(Good), NEW more \in Seq(Good), Silent(r \o dn),
           more # <<>>, more[1] = Status(404)
    PROVE  Silent(r \o (dn \o more))
<1> DEFINE c == r \o dn
<1>1. c \in Seq(Good)
  BY SeqConcat
<1>2. r \o (dn \o more) = c \o more
  BY SMTT(60), SeqAssoc
<1> HIDE DEF c
<1>3. CASE c = <<>>
  <2>1. <<>> \o more = more
    BY SeqUnit
  <2>2. c \o more = more
    BY <1>3, <2>1
  <2> QED
    BY <1>2, <2>2 DEF Silent
<1>4. CASE c # <<>>
  <2>1. (c \o more)[1] = c[1]
    BY <1>1, <1>4, SeqLonger
  <2>2. c[1] = Status(404)
    BY <1>4 DEF Silent, c
  <2> QED
    BY <1>2, <2>1, <2>2 DEF Silent
<1> QED
  BY <1>3, <1>4

\* and when it is cut.
LEMMA SilentCut ==
    ASSUME NEW r \in Seq(Good), NEW dn \in Seq(Good), Silent(r \o dn), NEW m \in 0..Len(dn)
    PROVE  Silent(r \o SubSeq(dn, 1, m))
<1> DEFINE p == SubSeq(dn, 1, m)
           q == SubSeq(dn, m + 1, Len(dn))
           c == r \o p
<1>1. p \in Seq(Good) /\ q \in Seq(Good)
  BY SeqCut
<1>2. p \o q = dn
  BY SeqSplit
<1> HIDE DEF p, q
<1>3. c \in Seq(Good) /\ c \o q = r \o dn
  <2>1. r \o p \in Seq(Good)
    BY <1>1, SeqConcat
  <2>2. (r \o p) \o q = r \o (p \o q)
    BY SMTT(60), <1>1, SeqAssoc
  <2> QED
    BY <1>2, <2>1, <2>2
<1> HIDE DEF c
<1>4. CASE c # <<>>
  <2>1. c \o q # <<>> /\ (c \o q)[1] = c[1]
    BY <1>1, <1>3, <1>4, SeqLonger
  <2> QED
    BY <1>3, <2>1 DEF Silent, c, p
<1>5. CASE c = <<>>
  BY <1>5 DEF Silent, c, p
<1> QED
  BY <1>4, <1>5

\* A connection may be closed and the board may be started again.
LEMMA ConnKeeps ==
    ASSUME NEW a, NEW n \in Nat, NEW m \in Nat, n <= m, NEW l, NEW l2, l2 = l \/ l2 = "cut",
           NEW t, NEW up, NEW dn, NEW cd, NEW ct, ConnFact(a, n, l, t, up, dn, cd, ct)
    PROVE  ConnFact(a, m, l2, t, up, dn, cd, ct)
<1>1. \A b \in 1..n : b \in 1..m
  OBVIOUS
<1>2. IsPart(up, <<GetTo(a)>>) \/ \E b \in 1..m : IsPart(up, Post(a, b))
  BY <1>1, Zenon DEF ConnFact
<1>3. \E b \in 1..m : IsPart(cd, CsrOf(b))
  BY <1>1, Zenon DEF ConnFact
<1>4. t \in Doing /\ l2 = "tls" => \E b \in 1..m : cd = CsrOf(b)
  <2>1. l2 = "tls" => l = "tls"
    OBVIOUS
  <2> QED
    BY <1>1, <2>1, Zenon DEF ConnFact
<1>5. l2 \in {"none", "tcp"} => l \in {"none", "tcp"}
  OBVIOUS
<1> QED
  BY <1>2, <1>3, <1>4, <1>5, Zenon DEF ConnFact

\* RequestLost, DecodeRaises, and Refuse on a connection that is gone.
LEMMA MoveEnd ==
    ASSUME NEW a, NEW n, NEW l, NEW t, NEW up, NEW dn, NEW cd, NEW ct,
           ConnFact(a, n, l, t, up, dn, cd, ct)
    PROVE  Moves(a, n, l, t, up, dn, cd, ct, "done", up, dn, cd, ct)
<1>1. ConnFact(a, n, l, "done", up, dn, cd, ct)
  BY Zenon DEF ConnFact, Doing
<1>2. ASSUME NEW b, NEW r, Current(a, b, t, up, cd, ct, r)
      PROVE  Current(a, b, "done", up, cd, ct, r)
  BY <1>2 DEF Current
<1> QED
  BY <1>1, <1>2, Zenon DEF Moves

\* A part that is not empty of the one request is not one of the other.
LEMMA KindOfPart ==
    ASSUME NEW a \in Aps, NEW b \in Nat, NEW up, up # <<>>
    PROVE  /\ IsPart(up, <<GetTo(a)>>) => Head(up).kind = "GET"
           /\ IsPart(up, Post(a, b)) => Head(up).kind = "POST"
<1>1. PostTo(a, b).kind = "POST"
  BY RequestFact
<1> QED
  BY <1>1, GetRead, PostRead

\* Nothing, of everything.
LEMMA NonePart ==
    ASSUME NEW S, NEW s \in Seq(S)
    PROVE  IsPart(<<>>, s)
<1>1. 0 \in 0..Len(s) /\ <<>> = SubSeq(s, 1, 0)
  OBVIOUS
<1> QED
  BY <1>1 DEF IsPart

\* What a thread sends is on its way, or lost with the connection.
LEMMA NotFoundSent ==
    LET page == <<Status(404), Split, Html>>
    IN  page \in Seq(Good) /\ page # <<>> /\ page[1] = Status(404)
<1>1. \A S : \A x \in S, y \in S, z \in S :
         <<x, y, z>> \in Seq(S) /\ <<x, y, z>> # <<>> /\ <<x, y, z>>[1] = x
  OBVIOUS
<1> QED
  BY <1>1, GoodSymbols, ZenonT(60)

LEMMA OkSent == <<Status(200), Split>> \in Seq(Good)
BY GoodSymbols, SeqSmall

LEMMA MoveNotFound ==
    ASSUME NEW a, NEW n, NEW l, NEW up, NEW dn, NEW cd, NEW ct, l \notin {"none", "tcp"},
           ConnFact(a, n, l, "request", up, dn, cd, ct),
           NEW dn2, dn2 = dn \/ dn2 = dn \o <<Status(404), Split, Html>>
    PROVE  Moves(a, n, l, "request", up, dn, cd, ct, "done", up, dn2, cd, ct)
<1> DEFINE page == <<Status(404), Split, Html>>
<1>1. page \in Seq(Good) /\ page # <<>> /\ page[1] = Status(404)
  BY NotFoundSent
<1>2. dn2 = dn \/ dn2 = dn \o page
  OBVIOUS
<1> HIDE DEF page
<1>3. dn \in Seq(Good)
  BY DEF ConnFact
<1>4. dn2 \in Seq(Good)
  <2>1. page \in Seq(Good)
    BY <1>1
  <2>2. dn \o page \in Seq(Good)
    BY <1>3, <2>1, SeqConcat
  <2> QED
    BY <1>2, <1>3, <2>2
<1>5. ConnFact(a, n, l, "done", up, dn2, cd, ct)
  BY <1>4, Zenon DEF ConnFact, Doing
<1>6. ASSUME NEW b \in 1..n, NEW r \in Seq(Good), Current(a, b, "request", up, cd, ct, r \o dn)
      PROVE  Current(a, b, "done", up, cd, ct, r \o dn2)
  <2>1. Silent(r \o dn) => Silent(r \o dn2)
    <3>1. Silent(r \o dn) => Silent(r \o (dn \o page))
      BY <1>1, <1>3, SilentMore
    <3> QED
      BY <1>2, <3>1
  <2> QED
    BY <1>6, <2>1 DEF Current
<1> QED
  BY <1>5, <1>6, Zenon DEF Moves

LEMMA MoveGet ==
    ASSUME NEW a \in Aps, NEW n \in Nat, NEW l, NEW up, NEW dn, NEW cd, NEW ct, l \notin {"none", "tcp"},
           up # <<>>, Head(up).kind = "GET",
           ConnFact(a, n, l, "request", up, dn, cd, ct),
           NEW dn2, dn2 = dn \/ dn2 = dn \o <<Status(200), Split>>
    PROVE  Moves(a, n, l, "request", up, dn, cd, ct, "write", up, dn2, cd, ct)
<1> DEFINE page == <<Status(200), Split>>
<1>1. page \in Seq(Good)
  BY OkSent
<1>2. dn2 = dn \/ dn2 = dn \o page
  OBVIOUS
<1> HIDE DEF page
<1>3. dn \in Seq(Good)
  BY DEF ConnFact
<1>4. dn2 \in Seq(Good)
  BY <1>1, <1>2, <1>3, SeqConcat
<1>5. ConnFact(a, n, l, "write", up, dn2, cd, ct)
  BY <1>4 DEF ConnFact, Doing
<1>6. ASSUME NEW b \in 1..n, NEW r, Current(a, b, "request", up, cd, ct, r)
      PROVE  FALSE
  <2>1. b \in Nat
    OBVIOUS
  <2>2. Head(up).kind = "POST"
    BY <1>6, <2>1, KindOfPart DEF Current
  <2> QED
    BY <2>2
<1>7. ct # <<>> => ct = ct /\ cd = cd
  OBVIOUS
<1> QED
  BY <1>5, <1>6, <1>7, Zenon DEF Moves

LEMMA MoveDecode ==
    ASSUME NEW a \in Aps, NEW n \in Nat \ {0}, NEW l, NEW up, NEW dn, NEW cd, NEW ct,
           up # <<>>, Head(up).kind = "POST", Decodes(Compact(Tail(up))),
           Len(up) - 1 >= Head(up).val \/ l = "cut",
           ConnFact(a, n, l, "request", up, dn, cd, ct)
    PROVE  Moves(a, n, l, "request", up, dn, cd, ct,
                 "serial", <<>>, dn, Decoded(Compact(Tail(up))), ct)
<1> DEFINE d == Decoded(Compact(Tail(up)))
<1>1. 1 \in 1..n
  OBVIOUS
<1>2. ASSUME NEW b \in 1..n, IsPart(up, Post(a, b))
      PROVE  IsPart(d, CsrOf(b)) /\ (l = "tls" => d = CsrOf(b))
  <2>1. b \in Nat
    OBVIOUS
  <2> QED
    BY <1>2, <2>1, PostRead
<1>3. ~IsPart(up, <<GetTo(a)>>)
  <2>1. 1 \in Nat
    OBVIOUS
  <2>2. Head(up).kind # "GET"
    OBVIOUS
  <2> QED
    BY <2>1, <2>2, KindOfPart
<1>4. PICK b \in 1..n : IsPart(up, Post(a, b))
  BY <1>3 DEF ConnFact
<1>5. \A e \in 1..n : IsPart(<<>>, Post(a, e))
  <2> TAKE e \in 1..n
  <2>1. e \in Nat
    OBVIOUS
  <2>2. TextOf(e) \in Seq(Symbols) /\ PostTo(a, e) \in Symbols
    BY <2>1, RequestFact
  <2> DEFINE h == <<PostTo(a, e)>>
  <2>3. h \in Seq(Symbols)
    BY <2>2
  <2> HIDE DEF h
  <2>4. h \o TextOf(e) \in Seq(Symbols)
    BY <2>2, <2>3, SeqConcat
  <2>5. IsPart(<<>>, h \o TextOf(e))
    BY <2>4, NonePart
  <2> QED
    BY <2>5 DEF Post, h
<1>6. ct = <<>>
  BY DEF ConnFact
<1> HIDE DEF d
<1>7. ConnFact(a, n, l, "serial", <<>>, dn, d, ct)
  <2>1. IsPart(<<>>, <<GetTo(a)>>) \/ \E e \in 1..n : IsPart(<<>>, Post(a, e))
    BY <1>1, <1>5, Zenon
  <2>2. \E e \in 1..n : IsPart(d, CsrOf(e))
    BY <1>2, <1>4
  <2>3. l = "tls" => \E e \in 1..n : d = CsrOf(e)
    BY <1>2, <1>4
  <2>4. dn \in Seq(Good) /\ ct \in Seq(Nat) /\ (l \in {"none", "tcp"} => dn = <<>>)
    BY DEF ConnFact
  <2>5. "serial" \notin {"none", "request"}
    OBVIOUS
  <2> QED
    BY <1>6, <2>1, <2>2, <2>3, <2>4, <2>5, Zenon DEF ConnFact
<1>8. ASSUME NEW e \in 1..n, NEW r, Current(a, e, "request", up, cd, ct, r)
      PROVE  Current(a, e, "serial", <<>>, d, ct, r)
  <2>1. IsPart(d, CsrOf(e))
    BY <1>2, <1>8 DEF Current
  <2>2. IsPart(<<>>, Post(a, e))
    BY <1>5
  <2>3. ct = <<>> => Silent(r)
    BY <1>8 DEF Current
  <2>4. "serial" # "write"
    OBVIOUS
  <2> QED
    BY <2>1, <2>2, <2>3, <2>4, Zenon DEF Current
<1>9. Moves(a, n, l, "request", up, dn, cd, ct, "serial", <<>>, dn, d, ct)
  BY <1>6, <1>7, <1>8, Zenon DEF Moves
<1> QED
  BY <1>9 DEF d

LEMMA MoveSerial ==
    ASSUME NEW a, NEW n, NEW l, NEW t \in {"serial", "increment"}, NEW t2 \in {"increment", "build"},
           NEW up, NEW dn, NEW cd, NEW ct, ConnFact(a, n, l, t, up, dn, cd, ct)
    PROVE  Moves(a, n, l, t, up, dn, cd, ct, t2, up, dn, cd, ct)
<1>1. ConnFact(a, n, l, t2, up, dn, cd, ct)
  <2>1. t \in Doing /\ t2 \in Doing /\ t \notin {"write", "done"} /\ t2 \notin {"none", "request"}
    BY DEF Doing
  <2> QED
    BY <2>1, Zenon DEF ConnFact
<1>2. ASSUME NEW b, NEW r, Current(a, b, t, up, cd, ct, r)
      PROVE  Current(a, b, t2, up, cd, ct, r)
  <2>1. t2 # "write"
    OBVIOUS
  <2> QED
    BY <1>2, <2>1, Zenon DEF Current
<1> QED
  BY <1>1, <1>2, Zenon DEF Moves

\* The RA refuses what it cannot parse only when the connection is gone.
LEMMA RefusedGone ==
    ASSUME NEW a, NEW n \in Nat, NEW l, NEW up, NEW dn, NEW cd, NEW ct, ~IsCsr(cd),
           ConnFact(a, n, l, "build", up, dn, cd, ct)
    PROVE  l # "tls"
<1> SUFFICES ASSUME l = "tls" PROVE FALSE
  OBVIOUS
<1>1. PICK b \in 1..n : cd = CsrOf(b)
  BY DEF ConnFact, Doing
<1>2. b \in Nat
  OBVIOUS
<1>3. IsCsr(CsrOf(b))
  BY <1>2, CsrOfFact
<1> QED
  BY <1>1, <1>3

LEMMA MoveIssue ==
    ASSUME NEW a, NEW n \in Nat, NEW l, NEW up, NEW dn, NEW cd, NEW ct, l \notin {"none", "tcp"},
           IsCsr(cd), NEW m \in Nat, NEW ct2, ct2 = build_mldsa44_certificate(cd, m),
           ConnFact(a, n, l, "build", up, dn, cd, ct),
           NEW dn2, dn2 = dn \/ dn2 = dn \o <<Status(200), Split>>
    PROVE  Moves(a, n, l, "build", up, dn, cd, ct, "write", up, dn2, cd, ct2)
<1> DEFINE page == <<Status(200), Split>>
<1>1. page \in Seq(Good)
  BY OkSent
<1>2. dn2 = dn \/ dn2 = dn \o page
  OBVIOUS
<1> HIDE DEF page
<1>3. dn \in Seq(Good) /\ ct = <<>>
  BY DEF ConnFact
<1>4. dn2 \in Seq(Good)
  <2>1. dn \in Seq(Good)
    BY <1>3
  <2>2. dn \o page \in Seq(Good)
    BY <1>1, <2>1, SeqConcat
  <2> QED
    BY <1>2, <2>1, <2>2
<1>5. PICK b \in 1..n : IsPart(cd, CsrOf(b))
  BY DEF ConnFact
<1>6. b \in Nat
  OBVIOUS
<1>7. cd = CsrOf(b)
  BY <1>5, <1>6, WholeCsr
<1>8. SubjectOf(cd) \in Seq(Nat) /\ SpkiOf(cd) \in Seq(Nat)
  BY <1>6, <1>7, CsrOfFact
<1>9. ct2 \in Seq(Nat) /\ ct2 # <<>>
  BY <1>8, CertificateFact
<1>10. ConnFact(a, n, l, "write", up, dn2, cd, ct2)
  BY <1>4, <1>9, Zenon DEF ConnFact, Doing
<1>11. ASSUME NEW e, NEW r, NEW r2, Current(a, e, "build", up, cd, ct, r)
       PROVE  Current(a, e, "write", up, cd, ct2, r2)
  BY <1>9, <1>11 DEF Current
<1> QED
  BY <1>3, <1>10, <1>11, Zenon DEF Moves

LEMMA MoveWrite ==
    ASSUME NEW a, NEW n, NEW l, NEW up, NEW dn, NEW cd, NEW ct, l \notin {"none", "tcp"},
           ConnFact(a, n, l, "write", up, dn, cd, ct),
           NEW page \in Seq(Good), NEW dn2, dn2 = dn \/ dn2 = dn \o page
    PROVE  Moves(a, n, l, "write", up, dn, cd, ct, "done", up, dn2, cd, ct)
<1>1. dn \in Seq(Good)
  BY DEF ConnFact
<1>2. dn2 \in Seq(Good)
  BY <1>1, SeqConcat
<1>3. ConnFact(a, n, l, "done", up, dn2, cd, ct)
  BY <1>2 DEF ConnFact, Doing
<1>4. ASSUME NEW e, NEW r, NEW r2, Current(a, e, "write", up, cd, ct, r)
      PROVE  Current(a, e, "done", up, cd, ct, r2)
  BY <1>4 DEF Current
<1>5. ct # <<>> => ct = ct /\ cd = cd
  OBVIOUS
<1> QED
  BY <1>3, <1>4, <1>5, Zenon DEF Moves

(***************************************************************************)
(* The invariant of the enrollment.                                        *)
(***************************************************************************)

ConnOK(c) == ConnFact(aps, boots, link[c], th[c], c2s[c], s2c[c], csr_der[c], cert_der[c])

\* What is read, or left to read, of a connection belongs to the enrollment of
\* this boot.
CurrentOK(c) == Current(aps, boots, th[c], c2s[c], csr_der[c], cert_der[c], resp \o s2c[c])

\* Phases of a request whose connection was opened and whose end is not known.
Under == {"handshake", "headers", "body", "read", "parse"}

ConnsOK ==
    /\ DOMAIN s2c = Conn /\ DOMAIN csr_der = Conn /\ DOMAIN cert_der = Conn /\ DOMAIN mine = Conn
    /\ serial \in Nat
    /\ \A c \in Conn : mine[c] \in Nat /\ ConnOK(c)

BoardOK ==
    /\ aps \in Aps /\ boots \in Nat \ {0} /\ resp \in Seq(Good)
    /\ step \in {"enroll", "extract"} => csr = CsrOf(boots)
    /\ phase = "connect" => resp = <<>>

\* The response that is being read is to this CSR, and one that was taken for a
\* success has a certificate for it behind it.
ResponseOK ==
    /\ step = "enroll" /\ phase \in Under => conn \in Conn /\ CurrentOK(conn)
    /\ (step = "enroll" /\ phase = "cleanup" /\ ret) \/ step = "extract" =>
          conn \in Conn /\ cert_der[conn] # <<>> /\ csr_der[conn] = csr

\* Before the whole request was sent no thread is past reading it.
OpenOK == phase \in {"headers", "body"} /\ link[conn] = "tls" /\ conn \notin shut => th[conn] = "request"

EnrollInv == ConnsOK /\ BoardOK /\ ResponseOK /\ OpenOK

\* A connection the step does not touch, or closes.
LEMMA ConnSame ==
    ASSUME NEW c \in Conn, ConnOK(c), boots \in Nat, boots' \in Nat, boots <= boots', aps' = aps,
           link'[c] = link[c] \/ link'[c] = "cut", th'[c] = th[c], c2s'[c] = c2s[c],
           s2c'[c] = s2c[c], csr_der'[c] = csr_der[c], cert_der'[c] = cert_der[c]
    PROVE  ConnOK(c)'
<1>1. ConnFact(aps, boots, link[c], th[c], c2s[c], s2c[c], csr_der[c], cert_der[c])
  BY DEF ConnOK
<1>2. ConnFact(aps, boots', link'[c], th[c], c2s[c], s2c[c], csr_der[c], cert_der[c])
  BY <1>1, ConnKeeps
<1> QED
  BY <1>2 DEF ConnOK

LEMMA ConnsSame ==
    ASSUME ConnsOK, boots \in Nat, boots' \in Nat, boots <= boots', aps' = aps,
           UNCHANGED <<th, c2s, s2c, csr_der, cert_der, mine, serial>>,
           \A c \in Conn : link'[c] = link[c] \/ link'[c] = "cut"
    PROVE  ConnsOK'
<1>1. ASSUME NEW c \in Conn PROVE ConnOK(c)'
  <2>1. ConnOK(c)
    BY DEF ConnsOK
  <2> QED
    BY <2>1, ConnSame
<1> QED
  BY <1>1 DEF ConnsOK

\* Steps of the board without the network.
LEMMA AloneEnroll ==
    ASSUME WaitInv, EnrollInv, UNCHANGED <<connVars, raVars>>,
           \/ StartRequest \/ ParseResponse \/ Cleanup \/ MainStep
           \/ RequestFails \/ CsrFails \/ ReadEnd \/ Reset
    PROVE  EnrollInv'
<1>1. UNCHANGED <<link, c2s, s2c, shut, accepting, serial, th, csr_der, mine, cert_der>>
  BY DEF connVars, raVars
<1>2. /\ aps \in Aps /\ boots \in Nat \ {0} /\ boots \in Nat /\ resp \in Seq(Good)
      /\ step \in {"enroll", "extract"} => csr = CsrOf(boots)
      /\ phase = "connect" => resp = <<>>
      /\ phase # "idle" => step \in {"cacerts", "enroll"}
      /\ ConnsOK
  BY DEF EnrollInv, BoardOK, WaitInv, RequestOK
<1>3. <<>> \in Seq(Good)
  BY SeqNone
<1>4. ASSUME UNCHANGED <<aps, boots>> PROVE ConnsOK'
  BY <1>1, <1>2, <1>4, ConnsSame
<1>5. CASE StartRequest
  <2>1. /\ UNCHANGED <<aps, boots, step, conn, ret, csr>> /\ phase' = "connect" /\ resp' = <<>>
        /\ step \in {"cacerts", "enroll"}
    BY <1>5 DEF StartRequest, Enter
  <2>2. BoardOK'
    BY <1>2, <1>3, <2>1 DEF BoardOK
  <2>3. ResponseOK' /\ OpenOK'
    BY <2>1 DEF ResponseOK, OpenOK, Under
  <2> QED
    BY <1>4, <2>1, <2>2, <2>3 DEF EnrollInv
<1>6. CASE ReadEnd
  <2>1. /\ UNCHANGED <<aps, boots, step, conn, ret, resp, csr>> /\ phase = "read" /\ phase' = "parse"
    BY <1>6 DEF ReadEnd, Enter
  <2>2. BoardOK'
    BY <1>2, <2>1 DEF BoardOK
  <2>3. ResponseOK
    BY DEF EnrollInv
  <2>4. CurrentOK(conn) => CurrentOK(conn)'
    BY <1>1, <2>1 DEF CurrentOK
  <2>5. step # "extract"
    BY <1>2, <2>1
  <2>6. ResponseOK'
    BY <1>1, <2>1, <2>3, <2>4, <2>5 DEF ResponseOK, Under
  <2>7. OpenOK'
    BY <2>1 DEF OpenOK
  <2> QED
    BY <1>4, <2>1, <2>2, <2>6, <2>7 DEF EnrollInv
<1>7. CASE RequestFails
  <2>1. /\ UNCHANGED <<aps, boots, step, conn, resp, csr>> /\ phase' = "cleanup" /\ ret' = FALSE
        /\ phase # "idle"
    BY <1>7 DEF RequestFails, Return, Enter
  <2>2. BoardOK'
    BY <1>2, <2>1 DEF BoardOK
  <2>3. ResponseOK' /\ OpenOK'
    BY <1>2, <2>1 DEF ResponseOK, OpenOK, Under
  <2> QED
    BY <1>4, <2>1, <2>2, <2>3 DEF EnrollInv
<1>8. CASE ParseResponse
  <2>1. /\ UNCHANGED <<aps, boots, step, conn, resp, csr>> /\ phase' = "cleanup" /\ phase = "parse"
        /\ ret' = IsSuccess(resp)
    BY <1>8 DEF ParseResponse, Return, Enter
  <2>2. BoardOK'
    BY <1>2, <2>1 DEF BoardOK
  <2>3. OpenOK'
    BY <2>1 DEF OpenOK
  <2>4. ASSUME step = "enroll", IsSuccess(resp)
        PROVE  conn \in Conn /\ cert_der[conn] # <<>> /\ csr_der[conn] = csr
    <3> DEFINE ct == cert_der[conn]
               cd == csr_der[conn]
               dn == s2c[conn]
    <3>1. conn \in Conn /\ CurrentOK(conn)
      BY <2>1, <2>4 DEF EnrollInv, ResponseOK, Under
    <3>2. ConnOK(conn)
      BY <1>2, <3>1 DEF ConnsOK
    <3>3. IsPart(cd, CsrOf(boots)) /\ (ct = <<>> => Silent(resp \o dn))
      BY <3>1 DEF CurrentOK, Current
    <3>4. dn \in Seq(Good) /\ (ct # <<>> => IsCsr(cd))
      BY <3>2 DEF ConnOK, ConnFact
    <3> HIDE DEF ct, cd, dn
    <3>5. ~Silent(resp \o dn)
      <4>1. resp # <<>> /\ resp[1].val \in 200..299
        BY <2>4 DEF IsSuccess, parse_http_status_code
      <4>2. resp \o dn # <<>> /\ (resp \o dn)[1] = resp[1]
        BY <1>2, <3>4, <4>1, SeqLonger
      <4>3. Status(404).val = 404
        BY DEF Status, Symbol
      <4>4. 404 \notin 200..299
        OBVIOUS
      <4>5. resp[1] # Status(404)
        BY <4>1, <4>3, <4>4, Zenon
      <4> QED
        BY <4>2, <4>5 DEF Silent
    <3>6. ct # <<>> /\ IsCsr(cd)
      BY <3>3, <3>4, <3>5
    <3>7. cd = CsrOf(boots)
      BY <1>2, <3>3, <3>6, WholeCsr
    <3> QED
      BY <1>2, <2>4, <3>1, <3>6, <3>7 DEF ct, cd
  <2>5. step # "extract"
    BY <1>2, <2>1
  <2>6. ResponseOK'
    BY <1>1, <2>1, <2>4, <2>5 DEF ResponseOK, Under
  <2> QED
    BY <1>4, <2>1, <2>2, <2>3, <2>6 DEF EnrollInv
<1>9. CASE Cleanup
  <2>1. /\ UNCHANGED <<aps, boots, conn, ret, resp, csr>> /\ phase = "cleanup" /\ phase' = "idle"
        /\ step' = IF step = "cacerts" THEN "csr" ELSE IF ret THEN "extract" ELSE "selftest"
    BY <1>9 DEF Cleanup, Enter
  <2>2. step \in {"cacerts", "enroll"}
    BY <1>2, <2>1
  <2>3. step' # "enroll" /\ (step' = "extract" => step = "enroll" /\ ret)
    BY <2>1, <2>2
  <2>4. BoardOK'
    BY <1>2, <2>1, <2>3 DEF BoardOK
  <2>5. ResponseOK'
    BY <1>1, <2>1, <2>3 DEF EnrollInv, ResponseOK, Under
  <2>6. OpenOK'
    BY <2>1 DEF OpenOK
  <2> QED
    BY <1>4, <2>1, <2>4, <2>5, <2>6 DEF EnrollInv
<1>10. CASE MainStep \/ CsrFails
  <2>1. /\ UNCHANGED <<aps, boots, conn, ret, resp, phase>> /\ step' # "extract" /\ phase = "idle"
        /\ step' = "enroll" => BuildCsr
    BY <1>2, <1>10 DEF MainStep, CsrFails, BuildCsr, Extract, SelfTest
  <2>2. BuildCsr => csr' = CsrOf(boots)
    BY <1>2, BuildCsrSeq
  <2>3. BoardOK'
    BY <1>2, <2>1, <2>2 DEF BoardOK
  <2>4. ResponseOK' /\ OpenOK'
    BY <2>1 DEF ResponseOK, OpenOK, Under
  <2> QED
    BY <1>4, <2>1, <2>3, <2>4 DEF EnrollInv
<1>11. CASE Reset
  <2>1. /\ aps' = aps /\ boots' = boots + 1 /\ step' = "cacerts" /\ phase' = "idle" /\ resp' = <<>>
    BY <1>11 DEF Reset
  <2>2. boots' \in Nat /\ boots <= boots' /\ boots' \in Nat \ {0}
    BY <1>2, <2>1
  <2>3. ConnsOK'
    BY <1>1, <1>2, <2>1, <2>2, ConnsSame
  <2>4. BoardOK'
    BY <1>2, <1>3, <2>1, <2>2 DEF BoardOK
  <2>5. ResponseOK' /\ OpenOK'
    BY <2>1 DEF ResponseOK, OpenOK, Under
  <2> QED
    BY <2>3, <2>4, <2>5 DEF EnrollInv
<1> QED
  BY <1>5, <1>6, <1>7, <1>8, <1>9, <1>10, <1>11

\* A connection that was just opened.
LEMMA FreshConn ==
    ASSUME NEW a \in Aps, NEW n \in Nat \ {0}, NEW l \in {"tcp", "tls"}, NEW t \in {"none", "request"}
    PROVE  /\ ConnFact(a, n, l, t, <<>>, <<>>, <<>>, <<>>)
           /\ Current(a, n, t, <<>>, <<>>, <<>>, <<>>)
<1>1. n \in 1..n /\ n \in Nat
  OBVIOUS
<1>2. IsPart(<<>>, CsrOf(n))
  BY <1>1, CsrOfFact, NonePart
<1>3. IsPart(<<>>, Post(a, n))
  <2>1. TextOf(n) \in Seq(Symbols) /\ PostTo(a, n) \in Symbols
    BY <1>1, RequestFact
  <2> DEFINE h == <<PostTo(a, n)>>
  <2>2. h \in Seq(Symbols)
    BY <2>1
  <2> HIDE DEF h
  <2>3. h \o TextOf(n) \in Seq(Symbols)
    BY <2>1, <2>2, SeqConcat
  <2>4. IsPart(<<>>, h \o TextOf(n))
    BY <2>3, NonePart
  <2> QED
    BY <2>4 DEF Post, h
<1>4. <<>> \in Seq(Good) /\ <<>> \in Seq(Nat)
  BY SeqNone
<1>5. t \notin Doing /\ t # "write"
  BY DEF Doing
<1> QED
  BY <1>1, <1>2, <1>3, <1>4, <1>5, Zenon DEF ConnFact, Current, Silent

\* A connection whose thread has not started: nothing was read or written.
LEMMA EarlyConn ==
    ASSUME WaitInv, EnrollInv, NEW c \in Conn, link[c] \in {"none", "tcp"}
    PROVE  /\ th[c] = "none" /\ c2s[c] = <<>> /\ s2c[c] = <<>>
           /\ csr_der[c] = <<>> /\ cert_der[c] = <<>>
<1>1. th[c] = "none" /\ c2s[c] = <<>>
  BY DEF WaitInv, LinksOK
<1>2. ConnFact(aps, boots, link[c], th[c], c2s[c], s2c[c], csr_der[c], cert_der[c])
  BY DEF EnrollInv, ConnsOK, ConnOK
<1> QED
  BY <1>1, <1>2 DEF ConnFact

\* The board opens a connection, or is refused one.
LEMMA ConnectEnroll ==
    ASSUME WaitInv, EnrollInv, Connect \/ Refused
    PROVE  EnrollInv'
<1>1. /\ conn \in 0..MaxConns /\ MaxConns \in Nat
      /\ DOMAIN link = Conn /\ DOMAIN th = Conn /\ DOMAIN c2s = Conn
      /\ \A c \in Conn : c > conn => link[c] = "none"
      /\ phase # "idle" => step \in {"cacerts", "enroll"}
  BY RaAssumption DEF WaitInv, LinksOK, RequestOK
<1>2. /\ aps \in Aps /\ boots \in Nat \ {0} /\ boots \in Nat /\ resp \in Seq(Good)
      /\ step \in {"enroll", "extract"} => csr = CsrOf(boots)
      /\ phase = "connect" => resp = <<>>
      /\ ConnsOK
  BY DEF EnrollInv, BoardOK
<1>3. /\ DOMAIN DropOld(link) = Conn
      /\ \A c \in Conn : DropOld(link)[c] = link[c] \/ DropOld(link)[c] = "cut"
  BY DEF DropOld
<1>4. CASE Refused
  <2>1. /\ UNCHANGED <<aps, boots, step, conn, resp, csr>> /\ phase' = "cleanup" /\ ret' = FALSE
        /\ phase = "connect" /\ link' = DropOld(link) /\ UNCHANGED <<c2s, s2c, shut>>
        /\ UNCHANGED raVars
    BY <1>4 DEF Refused, RequestFails, Return, Enter
  <2>2. UNCHANGED <<serial, th, csr_der, mine, cert_der>>
    BY <2>1 DEF raVars
  <2>3. ConnsOK'
    BY <1>2, <1>3, <2>1, <2>2, ConnsSame
  <2>4. BoardOK'
    BY <1>2, <2>1 DEF BoardOK
  <2>5. ResponseOK' /\ OpenOK'
    BY <1>1, <2>1 DEF ResponseOK, OpenOK, Under
  <2> QED
    BY <2>3, <2>4, <2>5 DEF EnrollInv
<1>5. CASE Connect
  <2> DEFINE k == conn + 1
  <2>1. /\ conn < MaxConns /\ conn' = k /\ phase = "connect" /\ phase' = "handshake"
        /\ link' = [DropOld(link) EXCEPT ![k] = "tcp"]
        /\ UNCHANGED <<c2s, s2c, shut, aps, boots, step, ret, resp, csr>> /\ UNCHANGED raVars
    BY <1>5 DEF Connect, Connected, Enter
  <2>2. k \in Conn /\ k > conn
    BY <1>1, <2>1 DEF Conn
  <2> HIDE DEF k
  <2>3. link[k] = "none"
    BY <1>1, <2>2
  <2>4. /\ th[k] = "none" /\ c2s[k] = <<>> /\ s2c[k] = <<>>
        /\ csr_der[k] = <<>> /\ cert_der[k] = <<>>
    BY <2>2, <2>3, EarlyConn
  <2>5. UNCHANGED <<serial, th, csr_der, mine, cert_der>>
    BY <2>1 DEF raVars
  <2>6. link'[k] = "tcp" /\ \A c \in Conn : c # k => link'[c] = link[c] \/ link'[c] = "cut"
    BY <1>3, <2>1, <2>2
  <2>7. /\ ConnFact(aps, boots, "tcp", "none", <<>>, <<>>, <<>>, <<>>)
        /\ Current(aps, boots, "none", <<>>, <<>>, <<>>, <<>>)
    BY <1>2, FreshConn
  <2>8. ASSUME NEW c \in Conn PROVE ConnOK(c)'
    <3>1. CASE c = k
      BY <2>1, <2>4, <2>5, <2>6, <2>7, <3>1 DEF ConnOK
    <3>2. CASE c # k
      <4>1. ConnOK(c)
        BY <1>2 DEF ConnsOK
      <4>2. boots <= boots
        BY <1>2
      <4> QED
        BY <1>2, <2>1, <2>5, <2>6, <3>2, <4>1, <4>2, ConnSame
    <3> QED
      BY <3>1, <3>2
  <2>9. ConnsOK'
    BY <1>2, <2>1, <2>5, <2>8 DEF ConnsOK
  <2>10. BoardOK'
    BY <1>2, <2>1 DEF BoardOK
  <2>11. CurrentOK(conn)'
    <3>1. <<>> \o <<>> = <<>>
      BY SeqNone, SeqUnit
    <3>2. resp' \o s2c'[conn'] = <<>>
      BY <1>2, <2>1, <2>4, <3>1
    <3> QED
      BY <2>1, <2>4, <2>5, <2>7, <3>2 DEF CurrentOK
  <2>12. step # "extract"
    BY <1>1, <2>1
  <2>13. ResponseOK'
    BY <2>1, <2>2, <2>11, <2>12 DEF ResponseOK
  <2>14. OpenOK'
    BY <2>1 DEF OpenOK
  <2> QED
    BY <2>9, <2>10, <2>13, <2>14 DEF EnrollInv
<1> QED
  BY <1>4, <1>5

\* The handshake of the connection the board waits on.
LEMMA HandshakeEnroll ==
    ASSUME WaitInv, EnrollInv, Handshake
    PROVE  EnrollInv'
<1>1. /\ phase = "handshake" /\ phase' = "headers" /\ link[conn] = "tcp"
      /\ link' = [link EXCEPT ![conn] = "tls"] /\ th' = [th EXCEPT ![conn] = "request"]
      /\ UNCHANGED <<aps, boots, step, conn, ret, resp, csr>>
      /\ UNCHANGED <<c2s, s2c, shut, serial, csr_der, mine, cert_der>>
  BY DEF Handshake, HandshakeDone, Accepted, Enter
<1>2. /\ conn \in Conn /\ DOMAIN link = Conn /\ DOMAIN th = Conn
      /\ step \in {"cacerts", "enroll"}
  BY <1>1 DEF WaitInv, LinksOK, RequestOK, OnLine
<1>3. /\ aps \in Aps /\ boots \in Nat \ {0} /\ boots \in Nat /\ resp \in Seq(Good)
      /\ step \in {"enroll", "extract"} => csr = CsrOf(boots)
      /\ ConnsOK /\ ResponseOK
  BY DEF EnrollInv, BoardOK
<1>4. /\ th[conn] = "none" /\ c2s[conn] = <<>> /\ s2c[conn] = <<>>
      /\ csr_der[conn] = <<>> /\ cert_der[conn] = <<>>
  BY <1>1, <1>2, EarlyConn
<1>5. link'[conn] = "tls" /\ th'[conn] = "request"
      /\ \A c \in Conn : c # conn => link'[c] = link[c] /\ th'[c] = th[c]
  BY <1>1, <1>2
<1>6. ConnFact(aps, boots, "tls", "request", <<>>, <<>>, <<>>, <<>>)
  BY <1>3, FreshConn
<1>7. ASSUME NEW c \in Conn PROVE ConnOK(c)'
  <2>1. CASE c = conn
    BY <1>1, <1>4, <1>5, <1>6, <2>1 DEF ConnOK
  <2>2. CASE c # conn
    <3>1. ConnOK(c)
      BY <1>3 DEF ConnsOK
    <3>2. boots <= boots
      BY <1>3
    <3> QED
      BY <1>1, <1>3, <1>5, <2>2, <3>1, <3>2, ConnSame
  <2> QED
    BY <2>1, <2>2
<1>8. ConnsOK'
  BY <1>1, <1>3, <1>7 DEF ConnsOK
<1>9. BoardOK'
  BY <1>1, <1>3 DEF BoardOK
<1>10. step = "enroll" => CurrentOK(conn)'
  <2> SUFFICES ASSUME step = "enroll" PROVE CurrentOK(conn)'
    OBVIOUS
  <2>1. Current(aps, boots, th[conn], c2s[conn], csr_der[conn], cert_der[conn], resp \o s2c[conn])
    BY <1>1, <1>3 DEF ResponseOK, Under, CurrentOK
  <2>2. Current(aps, boots, "request", c2s[conn], csr_der[conn], cert_der[conn], resp \o s2c[conn])
    BY <2>1 DEF Current
  <2> QED
    BY <1>1, <1>5, <2>2 DEF CurrentOK
<1>11. ResponseOK'
  BY <1>1, <1>2, <1>10 DEF ResponseOK
<1>12. OpenOK'
  BY SMTT(60), <1>1, <1>5 DEF OpenOK
<1> QED
  BY <1>8, <1>9, <1>11, <1>12 DEF EnrollInv

\* The whole, of itself, and the first element.
LEMMA WholePart ==
    ASSUME NEW S, NEW s \in Seq(S)
    PROVE  IsPart(s, s)
<1>1. Len(s) \in 0..Len(s) /\ SubSeq(s, 1, Len(s)) = s
  BY SeqAll, SeqDomain
<1> QED
  BY <1>1 DEF IsPart

LEMMA FirstPart ==
    ASSUME NEW S, NEW h \in S, NEW t \in Seq(S)
    PROVE  IsPart(<<h>>, <<h>> \o t)
<1> DEFINE o == <<h>>
           c == o \o t
           p == SubSeq(c, 1, 1)
<1>1. o \in Seq(S) /\ Len(o) = 1 /\ Len(t) \in Nat
  BY SeqDomain
<1> HIDE DEF o
<1>2. c \in Seq(S) /\ Len(c) = 1 + Len(t) /\ c[1] = o[1]
  BY <1>1, SeqOneBefore
<1> HIDE DEF c
<1>3. 1 \in 0..Len(c)
  BY <1>1, <1>2
<1>4. p \in Seq(S) /\ Len(p) = 1 /\ p[1] = c[1]
  BY <1>2, <1>3
<1> HIDE DEF p
<1>5. \A i \in 1..Len(p) : p[i] = o[i]
  BY <1>2, <1>4
<1>6. p = o
  BY <1>1, <1>4, <1>5, SeqSame
<1> QED
  BY <1>3, <1>6 DEF IsPart, p, o, c

\* What main sends in STEP 1 and STEP 3.
LEMMA SentPart ==
    ASSUME NEW a \in Aps, NEW b \in Nat
    PROVE  /\ IsPart(<<GetTo(a)>>, <<GetTo(a)>>)
           /\ IsPart(<<PostTo(a, b)>>, Post(a, b)) /\ IsPart(Post(a, b), Post(a, b))
<1>1. TextOf(b) \in Seq(Symbols) /\ GetTo(a) \in Symbols /\ PostTo(a, b) \in Symbols
  BY RequestFact
<1>2. <<GetTo(a)>> \in Seq(Symbols) /\ <<PostTo(a, b)>> \in Seq(Symbols)
  BY <1>1
<1>3. IsPart(<<GetTo(a)>>, <<GetTo(a)>>)
  BY <1>2, WholePart
<1>4. IsPart(<<PostTo(a, b)>>, <<PostTo(a, b)>> \o TextOf(b))
  BY <1>1, FirstPart
<1> DEFINE h == <<PostTo(a, b)>>
<1>5. h \in Seq(Symbols)
  BY <1>2
<1> HIDE DEF h
<1>6. h \o TextOf(b) \in Seq(Symbols)
  BY <1>1, <1>5, SeqConcat
<1>7. IsPart(h \o TextOf(b), h \o TextOf(b))
  BY <1>6, WholePart
<1> QED
  BY <1>3, <1>4, <1>7 DEF Post, h

LEMMA HeadersAre ==
    ASSUME EnrollInv, step \in {"cacerts", "enroll"}
    PROVE  /\ step = "cacerts" => Headers = GetTo(aps)
           /\ step = "enroll" => Headers = PostTo(aps, boots) /\ CsrText = TextOf(boots)
<1>1. step = "enroll" => csr = CsrOf(boots)
  BY DEF EnrollInv, BoardOK
<1>2. step = "cacerts" => Headers = GetTo(aps)
  BY DEF Headers, GetTo
<1>3. step = "enroll" => Headers = Request("POST", aps, Len(CsrText))
  BY DEF Headers
<1> QED
  BY <1>1, <1>2, <1>3 DEF PostTo, TextOf, CsrText

\* What is on the connection when the board has sent.
LEMMA SendResult ==
    ASSUME WaitInv, EnrollInv, Send
    PROVE  /\ conn \in Conn
           /\ \A c \in Conn : c # conn => c2s'[c] = c2s[c]
           /\ \/ c2s'[conn] = c2s[conn]
              \/ step = "cacerts" /\ IsPart(c2s'[conn], <<GetTo(aps)>>)
              \/ step = "enroll" /\ IsPart(c2s'[conn], Post(aps, boots))
<1>1. /\ conn \in Conn /\ DOMAIN c2s = Conn /\ phase \in {"headers", "body"}
      /\ step \in {"cacerts", "enroll"} /\ SentOK /\ OpenOK
      /\ phase = "body" => step = "enroll"
  BY DEF Send, SendHeaders, SendBody, WaitInv, LinksOK, RequestOK, OnLine, EnrollInv
<1>2. aps \in Aps /\ boots \in Nat
  BY DEF EnrollInv, BoardOK
<1>3. \A c \in Conn : c # conn => c2s'[c] = c2s[c]
  BY <1>1 DEF Send, Transmit
<1>4. CASE ~(link[conn] = "tls" /\ conn \notin shut)
  <2>1. c2s'[conn] = c2s[conn]
    BY <1>4 DEF Send, Transmit
  <2> QED
    BY <1>1, <1>3, <2>1, Zenon
<1>5. CASE link[conn] = "tls" /\ conn \notin shut
  <2>1. Awaited
    BY <1>1, <1>5 DEF OpenOK, Awaited
  <2>2. /\ IsPart(<<GetTo(aps)>>, <<GetTo(aps)>>)
        /\ IsPart(<<PostTo(aps, boots)>>, Post(aps, boots))
        /\ IsPart(Post(aps, boots), Post(aps, boots))
    BY <1>2, SentPart
  <2>3. CASE SendHeaders /\ Transmit(<<Headers>>)
    <3>1. phase = "headers"
      BY <2>3 DEF SendHeaders
    <3>2. c2s[conn] = <<>>
      BY <1>1, <2>1, <3>1 DEF SentOK
    <3>3. c2s' = [c2s EXCEPT ![conn] = c2s[conn] \o <<Headers>>]
      BY <1>5, <2>3 DEF Transmit
    <3>4. c2s'[conn] = c2s[conn] \o <<Headers>>
      BY <1>1, <3>3
    <3>5. <<>> \o <<Headers>> = <<Headers>>
      <4> DEFINE S == {Headers}
                 h == <<Headers>>
      <4>1. h \in Seq(S)
        OBVIOUS
      <4> HIDE DEF S, h
      <4>2. <<>> \o h = h
        BY <4>1, SeqUnit
      <4> QED
        BY <4>2 DEF h
    <3>6. c2s'[conn] = <<Headers>>
      BY <3>2, <3>4, <3>5
    <3>7. CASE step = "cacerts"
      <4>1. c2s'[conn] = <<GetTo(aps)>>
        BY <1>1, <3>6, <3>7, HeadersAre
      <4> QED
        BY <1>1, <1>3, <2>2, <3>7, <4>1, Zenon
    <3>8. CASE step = "enroll"
      <4>1. c2s'[conn] = <<PostTo(aps, boots)>>
        BY <1>1, <3>6, <3>8, HeadersAre
      <4> QED
        BY <1>1, <1>3, <2>2, <3>8, <4>1, Zenon
    <3> QED
      BY <1>1, <3>7, <3>8
  <2>4. CASE SendBody /\ Transmit(CsrText)
    <3>1. phase = "body" /\ step = "enroll"
      BY <1>1, <2>4 DEF SendBody
    <3>2. c2s[conn] = <<Headers>>
      BY <1>1, <2>1, <3>1 DEF SentOK
    <3>3. c2s' = [c2s EXCEPT ![conn] = c2s[conn] \o CsrText]
      BY <1>5, <2>4 DEF Transmit
    <3>4. c2s'[conn] = c2s[conn] \o CsrText
      BY <1>1, <3>3
    <3>5. c2s'[conn] = <<PostTo(aps, boots)>> \o TextOf(boots)
      BY <1>1, <3>1, <3>2, <3>4, HeadersAre
    <3>6. c2s'[conn] = Post(aps, boots)
      BY <3>5 DEF Post
    <3> QED
      BY <1>1, <1>3, <2>2, <3>1, <3>6, Zenon
  <2> QED
    BY <2>3, <2>4 DEF Send
<1> QED
  BY <1>4, <1>5

\* The board sends its request.
LEMMA SendEnroll ==
    ASSUME WaitInv, EnrollInv, Send
    PROVE  EnrollInv'
<1>1. /\ UNCHANGED <<aps, boots, step, conn, ret, resp, csr, link, s2c, shut>> /\ UNCHANGED raVars
      /\ phase \in {"headers", "body"} /\ phase' \in {"body", "read"}
  BY DEF Send, SendHeaders, SendBody, Transmit, Enter
<1>2. UNCHANGED <<serial, th, csr_der, mine, cert_der>>
  BY <1>1 DEF raVars
<1>3. /\ aps \in Aps /\ boots \in Nat \ {0} /\ boots \in Nat /\ resp \in Seq(Good)
      /\ step \in {"enroll", "extract"} => csr = CsrOf(boots)
      /\ ConnsOK /\ ResponseOK /\ OpenOK
  BY DEF EnrollInv, BoardOK
<1>4. /\ conn \in Conn
      /\ \A c \in Conn : c # conn => c2s'[c] = c2s[c]
      /\ \/ c2s'[conn] = c2s[conn]
         \/ step = "cacerts" /\ IsPart(c2s'[conn], <<GetTo(aps)>>)
         \/ step = "enroll" /\ IsPart(c2s'[conn], Post(aps, boots))
  BY SendResult
<1>5. ConnOK(conn)'
  <2>1. ConnFact(aps, boots, link[conn], th[conn], c2s[conn], s2c[conn], csr_der[conn], cert_der[conn])
    BY <1>3, <1>4 DEF ConnsOK, ConnOK
  <2>2. IsPart(c2s'[conn], <<GetTo(aps)>>) \/ \E b \in 1..boots : IsPart(c2s'[conn], Post(aps, b))
    <3>1. boots \in 1..boots
      BY <1>3
    <3> QED
      BY <1>4, <2>1, <3>1, Zenon DEF ConnFact
  <2>3. ConnFact(aps, boots, link[conn], th[conn], c2s'[conn], s2c[conn], csr_der[conn], cert_der[conn])
    BY <2>1, <2>2, Zenon DEF ConnFact
  <2> QED
    BY <1>1, <1>2, <2>3 DEF ConnOK
<1>6. ASSUME NEW c \in Conn PROVE ConnOK(c)'
  <2>1. CASE c = conn
    BY <1>1, <1>5, <2>1 DEF ConnOK
  <2>2. CASE c # conn
    <3>1. ConnOK(c)
      BY <1>3 DEF ConnsOK
    <3>2. boots <= boots
      BY <1>3
    <3> QED
      BY <1>1, <1>2, <1>3, <1>4, <2>2, <3>1, <3>2, ConnSame
  <2> QED
    BY <2>1, <2>2
<1>7. ConnsOK'
  BY <1>1, <1>2, <1>3, <1>6 DEF ConnsOK
<1>8. BoardOK'
  BY <1>1, <1>3 DEF BoardOK
<1>9. step = "enroll" => CurrentOK(conn)'
  <2> SUFFICES ASSUME step = "enroll" PROVE CurrentOK(conn)'
    OBVIOUS
  <2>1. Current(aps, boots, th[conn], c2s[conn], csr_der[conn], cert_der[conn], resp \o s2c[conn])
    BY <1>1, <1>3 DEF ResponseOK, Under, CurrentOK
  <2>2. IsPart(c2s'[conn], Post(aps, boots))
    BY <1>4, <2>1 DEF Current
  <2>3. Current(aps, boots, th[conn], c2s'[conn], csr_der[conn], cert_der[conn], resp \o s2c[conn])
    BY <2>1, <2>2 DEF Current
  <2> QED
    BY <1>1, <1>2, <2>3 DEF CurrentOK
<1>10. step # "extract"
  BY <1>1 DEF WaitInv, RequestOK
<1>11. ResponseOK'
  BY <1>1, <1>4, <1>9, <1>10 DEF ResponseOK
<1>12. OpenOK'
  BY <1>1, <1>2, <1>3 DEF OpenOK
<1> QED
  BY <1>7, <1>8, <1>11, <1>12 DEF EnrollInv

\* The board reads a chunk.
LEMMA ReadEnroll ==
    ASSUME WaitInv, EnrollInv, Read
    PROVE  EnrollInv'
<1> DEFINE dn == s2c[conn]
           n == IF Len(dn) < EST_RX_CHUNK_SIZE THEN Len(dn) ELSE EST_RX_CHUNK_SIZE
           p == SubSeq(dn, 1, n)
           q == SubSeq(dn, n + 1, Len(dn))
<1>1. /\ phase = "read" /\ ReadChunk(p) /\ s2c' = [s2c EXCEPT ![conn] = q]
      /\ UNCHANGED <<link, c2s, shut>> /\ UNCHANGED raVars
  BY DEF Read, From
<1>2. UNCHANGED <<serial, th, csr_der, mine, cert_der>>
  BY <1>1 DEF raVars
<1>3. /\ aps \in Aps /\ boots \in Nat \ {0} /\ boots \in Nat /\ resp \in Seq(Good)
      /\ step \in {"enroll", "extract"} => csr = CsrOf(boots)
      /\ ConnsOK /\ ResponseOK
  BY DEF EnrollInv, BoardOK
<1>4. conn \in Conn /\ step \in {"cacerts", "enroll"} /\ DOMAIN s2c = Conn
  BY <1>1, <1>3 DEF WaitInv, RequestOK, OnLine, ConnsOK
<1>5. ConnFact(aps, boots, link[conn], th[conn], c2s[conn], dn, csr_der[conn], cert_der[conn])
  BY <1>3, <1>4 DEF ConnsOK, ConnOK
<1>6. dn \in Seq(Good) /\ (link[conn] \in {"none", "tcp"} => dn = <<>>)
  BY <1>5 DEF ConnFact
<1>7. n \in 0..Len(dn)
  <2>1. Len(dn) \in Nat /\ EST_RX_CHUNK_SIZE \in Nat
    BY <1>6, ClientAssumption, SeqDomain
  <2> QED
    BY <2>1
<1>8. s2c'[conn] = q /\ \A c \in Conn : c # conn => s2c'[c] = s2c[c]
  BY <1>1, <1>4
<1>9. link[conn] \in {"tls", "cut"}
  BY <1>1 DEF WaitInv, RequestOK
<1> HIDE DEF dn, n
<1>10. p \in Seq(Good) /\ q \in Seq(Good)
  BY <1>6, <1>7, SeqCut
<1>11. p \o q = dn
  BY <1>6, <1>7, SeqSplit
<1> HIDE DEF p, q
<1>12. ConnFact(aps, boots, link[conn], th[conn], c2s[conn], q, csr_der[conn], cert_der[conn])
  BY <1>5, <1>9, <1>10, Zenon DEF ConnFact
<1>13. UNCHANGED <<aps, boots, step, conn, csr>>
  BY <1>1 DEF ReadChunk
<1>14. ASSUME NEW c \in Conn PROVE ConnOK(c)'
  <2>1. CASE c = conn
    BY <1>1, <1>2, <1>8, <1>12, <1>13, <2>1 DEF ConnOK
  <2>2. CASE c # conn
    <3>1. ConnOK(c)
      BY <1>3 DEF ConnsOK
    <3>2. boots <= boots
      BY <1>3
    <3> QED
      BY <1>1, <1>2, <1>3, <1>8, <1>13, <2>2, <3>1, <3>2, ConnSame
  <2> QED
    BY <2>1, <2>2
<1>15. ConnsOK'
  BY <1>1, <1>2, <1>3, <1>4, <1>14 DEF ConnsOK
<1>16. CASE phase' = "cleanup" /\ ret' = FALSE /\ resp' = resp
  <2>1. BoardOK'
    BY <1>3, <1>13, <1>16 DEF BoardOK
  <2>2. ResponseOK' /\ OpenOK'
    BY <1>4, <1>13, <1>16 DEF ResponseOK, OpenOK, Under
  <2> QED
    BY <1>15, <2>1, <2>2 DEF EnrollInv
<1>17. CASE resp' = resp \o p /\ phase' = phase /\ ret' = ret
  <2>1. resp' \in Seq(Good)
    BY <1>3, <1>10, <1>17, SeqConcat
  <2>2. BoardOK'
    BY <1>1, <1>3, <1>13, <1>17, <2>1 DEF BoardOK
  <2>3. resp' \o q = resp \o dn
    <3>1. (resp \o p) \o q = resp \o (p \o q)
      BY <1>3, <1>10, SeqAssoc
    <3> QED
      BY <1>11, <1>17, <3>1
  <2>4. step = "enroll" => CurrentOK(conn)'
    <3> SUFFICES ASSUME step = "enroll" PROVE CurrentOK(conn)'
      OBVIOUS
    <3>1. Current(aps, boots, th[conn], c2s[conn], csr_der[conn], cert_der[conn], resp \o dn)
      BY <1>1, <1>3 DEF ResponseOK, Under, CurrentOK, dn
    <3> QED
      BY <1>1, <1>2, <1>8, <1>13, <2>3, <3>1 DEF CurrentOK
  <2>5. ResponseOK' /\ OpenOK'
    BY <1>1, <1>4, <1>13, <1>17, <2>4 DEF ResponseOK, OpenOK
  <2> QED
    BY <1>15, <2>2, <2>5 DEF EnrollInv
<1> QED
  BY <1>1, <1>16, <1>17 DEF ReadChunk, Return, Enter

\* A connection that breaks.
LEMMA CutConn ==
    ASSUME NEW a \in Aps, NEW n \in Nat, NEW l, NEW t, NEW up, NEW dn, NEW cd, NEW ct,
           ConnFact(a, n, l, t, up, dn, cd, ct), NEW i \in 0..Len(up), NEW j \in 0..Len(dn)
    PROVE  /\ ConnFact(a, n, "cut", t, SubSeq(up, 1, i), SubSeq(dn, 1, j), cd, ct)
           /\ \A b \in 1..n, r \in Seq(Good) :
                 Current(a, b, t, up, cd, ct, r \o dn)
                 => Current(a, b, t, SubSeq(up, 1, i), cd, ct, r \o SubSeq(dn, 1, j))
<1> DEFINE up2 == SubSeq(up, 1, i)
           dn2 == SubSeq(dn, 1, j)
<1>1. \A b \in 1..n : <<GetTo(a)>> \in Seq(Symbols) /\ Post(a, b) \in Seq(Symbols)
  <2> TAKE b \in 1..n
  <2>1. b \in Nat
    OBVIOUS
  <2>2. TextOf(b) \in Seq(Symbols) /\ GetTo(a) \in Symbols /\ PostTo(a, b) \in Symbols
    BY <2>1, RequestFact
  <2> DEFINE h == <<PostTo(a, b)>>
  <2>3. h \in Seq(Symbols) /\ <<GetTo(a)>> \in Seq(Symbols)
    BY <2>2
  <2> HIDE DEF h
  <2>4. h \o TextOf(b) \in Seq(Symbols)
    BY <2>2, <2>3, SeqConcat
  <2> QED
    BY <2>3, <2>4 DEF Post, h
<1>2. dn \in Seq(Good)
  BY DEF ConnFact
<1>3. dn2 \in Seq(Good)
  BY <1>2, SeqCut
<1>4. \A b \in 1..n : /\ IsPart(up, <<GetTo(a)>>) => IsPart(up2, <<GetTo(a)>>)
                      /\ IsPart(up, Post(a, b)) => IsPart(up2, Post(a, b))
  <2> TAKE b \in 1..n
  <2>1. IsPart(up, <<GetTo(a)>>) => IsPart(up2, <<GetTo(a)>>)
    BY <1>1, PartOfPart
  <2>2. IsPart(up, Post(a, b)) => IsPart(up2, Post(a, b))
    BY <1>1, PartOfPart
  <2> QED
    BY <2>1, <2>2
<1>5. \A r \in Seq(Good) : Silent(r \o dn) => Silent(r \o dn2)
  BY <1>2, SilentCut
<1> HIDE DEF up2, dn2
<1>6. ConnFact(a, n, "cut", t, up2, dn2, cd, ct)
  <2>1. IsPart(up2, <<GetTo(a)>>) \/ \E b \in 1..n : IsPart(up2, Post(a, b))
    <3>1. \E b \in 1..n : IsPart(cd, CsrOf(b))
      BY DEF ConnFact
    <3>2. IsPart(up, <<GetTo(a)>>) \/ \E b \in 1..n : IsPart(up, Post(a, b))
      BY DEF ConnFact
    <3> QED
      BY <1>4, <3>1, <3>2, Zenon
  <2>2. "cut" # "tls" /\ "cut" \notin {"none", "tcp"}
    OBVIOUS
  <2> QED
    BY <1>3, <2>1, <2>2, Zenon DEF ConnFact
<1>7. ASSUME NEW b \in 1..n, NEW r \in Seq(Good), Current(a, b, t, up, cd, ct, r \o dn)
      PROVE  Current(a, b, t, up2, cd, ct, r \o dn2)
  BY <1>4, <1>5, <1>7, Zenon DEF Current
<1> QED
  BY <1>6, <1>7 DEF up2, dn2

LEMMA CutEnroll ==
    ASSUME WaitInv, EnrollInv, NEW c \in Conn, Cut(c)
    PROVE  EnrollInv'
<1>1. /\ UNCHANGED <<aps, boots, step, phase, conn, ret, resp, csr>>
      /\ UNCHANGED <<shut, serial, th, csr_der, mine, cert_der>>
  BY DEF Cut, clientVars, raVars
<1>2. /\ aps \in Aps /\ boots \in Nat \ {0} /\ boots \in Nat /\ resp \in Seq(Good)
      /\ ConnsOK /\ ResponseOK /\ OpenOK
  BY DEF EnrollInv, BoardOK
<1>3. DOMAIN link = Conn /\ DOMAIN c2s = Conn /\ DOMAIN s2c = Conn
  BY <1>2 DEF WaitInv, LinksOK, ConnsOK
<1>4. link' = [link EXCEPT ![c] = "cut"]
  BY DEF Cut
<1>5. PICK i \in 0..Len(c2s[c]), j \in 0..Len(s2c[c]) :
         /\ c2s' = [c2s EXCEPT ![c] = SubSeq(c2s[c], 1, i)]
         /\ s2c' = [s2c EXCEPT ![c] = SubSeq(s2c[c], 1, j)]
  BY DEF Cut
<1>6. /\ link'[c] = "cut" /\ c2s'[c] = SubSeq(c2s[c], 1, i) /\ s2c'[c] = SubSeq(s2c[c], 1, j)
      /\ DOMAIN s2c' = Conn
      /\ \A d \in Conn : d # c => link'[d] = link[d] /\ c2s'[d] = c2s[d] /\ s2c'[d] = s2c[d]
  BY <1>3, <1>4, <1>5
<1>7. ConnFact(aps, boots, link[c], th[c], c2s[c], s2c[c], csr_der[c], cert_der[c])
  BY <1>2 DEF ConnsOK, ConnOK
<1>8. /\ ConnFact(aps, boots, "cut", th[c], c2s'[c], s2c'[c], csr_der[c], cert_der[c])
      /\ \A b \in 1..boots, r \in Seq(Good) :
            Current(aps, b, th[c], c2s[c], csr_der[c], cert_der[c], r \o s2c[c])
            => Current(aps, b, th[c], c2s'[c], csr_der[c], cert_der[c], r \o s2c'[c])
  <2> DEFINE up2 == SubSeq(c2s[c], 1, i)
             dn2 == SubSeq(s2c[c], 1, j)
  <2>1. /\ ConnFact(aps, boots, "cut", th[c], up2, dn2, csr_der[c], cert_der[c])
        /\ \A b \in 1..boots, r \in Seq(Good) :
              Current(aps, b, th[c], c2s[c], csr_der[c], cert_der[c], r \o s2c[c])
              => Current(aps, b, th[c], up2, csr_der[c], cert_der[c], r \o dn2)
    BY <1>2, <1>7, CutConn
  <2>2. c2s'[c] = up2 /\ s2c'[c] = dn2
    BY <1>6
  <2> HIDE DEF up2, dn2
  <2> QED
    BY <2>1, <2>2, Zenon
<1>9. ASSUME NEW d \in Conn PROVE ConnOK(d)'
  <2>1. CASE d = c
    BY <1>1, <1>6, <1>8, <2>1 DEF ConnOK
  <2>2. CASE d # c
    <3>1. ConnOK(d)
      BY <1>2 DEF ConnsOK
    <3>2. boots <= boots
      BY <1>2
    <3> QED
      BY <1>1, <1>2, <1>6, <2>2, <3>1, <3>2, ConnSame
  <2> QED
    BY <2>1, <2>2
<1>10. ConnsOK'
  BY <1>1, <1>2, <1>6, <1>9 DEF ConnsOK
<1>11. BoardOK'
  BY <1>1 DEF EnrollInv, BoardOK
<1>12. ASSUME conn \in Conn, CurrentOK(conn) PROVE CurrentOK(conn)'
  <2>1. CASE conn = c
    <3>1. boots \in 1..boots
      BY <1>2
    <3>2. Current(aps, boots, th[c], c2s'[c], csr_der[c], cert_der[c], resp \o s2c'[c])
      BY <1>2, <1>8, <1>12, <2>1, <3>1 DEF CurrentOK
    <3> QED
      BY <1>1, <2>1, <3>2 DEF CurrentOK
  <2>2. CASE conn # c
    BY <1>1, <1>6, <1>12, <2>2 DEF CurrentOK
  <2> QED
    BY <2>1, <2>2
<1>13. ResponseOK'
  BY <1>1, <1>2, <1>12 DEF ResponseOK
<1>14. phase \in {"headers", "body"} => conn \in Conn
  BY DEF WaitInv, RequestOK, OnLine
<1>15. OpenOK'
  BY <1>1, <1>2, <1>6, <1>14 DEF OpenOK
<1> QED
  BY <1>10, <1>11, <1>13, <1>15 DEF EnrollInv

\* What a step of thread c leaves alone.
ThreadFrame(c) ==
    /\ DOMAIN s2c' = Conn /\ DOMAIN csr_der' = Conn /\ DOMAIN cert_der' = Conn
    /\ DOMAIN mine' = Conn
    /\ serial' \in Nat /\ \A d \in Conn : mine'[d] \in Nat
    /\ \A d \in Conn : d # c =>
          s2c'[d] = s2c[d] /\ csr_der'[d] = csr_der[d] /\ cert_der'[d] = cert_der[d]

LEMMA ThreadFrames ==
    ASSUME NEW c \in Conn, ConnsOK, ThreadStep(c)
    PROVE  ThreadFrame(c)
<1>1. /\ DOMAIN s2c = Conn /\ DOMAIN csr_der = Conn /\ DOMAIN cert_der = Conn /\ DOMAIN mine = Conn
      /\ serial \in Nat /\ \A d \in Conn : mine[d] \in Nat
  BY DEF ConnsOK
<1>2. \A x : Respond(c, x) => DOMAIN s2c' = Conn /\ \A d \in Conn : d # c => s2c'[d] = s2c[d]
  BY <1>1 DEF Respond
<1>3. CASE UNCHANGED <<csr_der, cert_der, mine, serial>> /\ (s2c' = s2c \/ \E x : Respond(c, x))
  BY <1>1, <1>2, <1>3 DEF ThreadFrame
<1>4. CASE RequestLost(c) \/ NotFound(c) \/ do_GET(c) \/ DecodeRaises(c) \/ Refuse(c) \/ WriteBody(c)
  <2>1. UNCHANGED <<csr_der, cert_der, mine, serial>>
    BY <1>4 DEF RequestLost, NotFound, do_GET, DecodeRaises, Refuse, WriteBody
  <2>2. s2c' = s2c \/ \E x : Respond(c, x)
    BY <1>4, Zenon DEF RequestLost, NotFound, do_GET, DecodeRaises, Refuse, WriteBody
  <2> QED
    BY <1>3, <2>1, <2>2
<1>5. CASE Decode(c)
  BY <1>1, <1>5 DEF Decode, ThreadFrame
<1>6. CASE NextSerial(c)
  BY <1>1, <1>6 DEF NextSerial, connVars, ThreadFrame
<1>7. CASE Increment(c)
  BY <1>1, <1>7 DEF Increment, connVars, ThreadFrame
<1>8. CASE Issue(c)
  <2>1. UNCHANGED <<csr_der, mine, serial>> /\ \E x : Respond(c, x)
    BY <1>8, Zenon DEF Issue
  <2>2. \E x : cert_der' = [cert_der EXCEPT ![c] = x]
    BY <1>8, Zenon DEF Issue
  <2> QED
    BY <1>1, <1>2, <2>1, <2>2 DEF ThreadFrame
<1> QED
  BY <1>4, <1>5, <1>6, <1>7, <1>8 DEF ThreadStep

\* What it does to its own connection.
ThreadMoves(c) ==
    Moves(aps, boots, link[c], th[c], c2s[c], s2c[c], csr_der[c], cert_der[c],
          th'[c], c2s'[c], s2c'[c], csr_der'[c], cert_der'[c])

LEMMA ThreadMove ==
    ASSUME WaitInv, EnrollInv, NEW c \in Conn, ThreadStep(c)
    PROVE  ThreadMoves(c)
<1> DEFINE a == aps
           n == boots
           l == link[c]
           up == c2s[c]
           dn == s2c[c]
           cd == csr_der[c]
           ct == cert_der[c]
<1>1. a \in Aps /\ n \in Nat \ {0} /\ n \in Nat /\ ConnFact(a, n, l, th[c], up, dn, cd, ct)
  BY DEF EnrollInv, BoardOK, ConnsOK, ConnOK
<1>2. /\ DOMAIN th = Conn /\ DOMAIN c2s = Conn /\ DOMAIN s2c = Conn
      /\ DOMAIN csr_der = Conn /\ DOMAIN cert_der = Conn /\ mine[c] \in Nat
  BY DEF WaitInv, LinksOK, EnrollInv, ConnsOK
<1>3. l \notin {"none", "tcp"}
  <2>1. th[c] # "none"
    BY <1>2, ThreadFact
  <2> QED
    BY <2>1 DEF WaitInv, LinksOK
<1>4. \A x : Respond(c, x) => s2c'[c] = dn \/ s2c'[c] = dn \o x
  BY <1>2 DEF Respond
<1>5. \A t : th' = [th EXCEPT ![c] = t] => th'[c] = t
  BY <1>2
<1> DEFINE up2 == c2s'[c]
           dn2 == s2c'[c]
           cd2 == csr_der'[c]
           ct2 == cert_der'[c]
<1>6. CASE RequestLost(c) \/ DecodeRaises(c)
  <2>1. th' = [th EXCEPT ![c] = "done"] /\ UNCHANGED <<c2s, s2c, csr_der, cert_der>>
    BY <1>6 DEF RequestLost, DecodeRaises, Finish, Continue
  <2>2. th'[c] = "done"
    BY <1>5, <2>1
  <2>3. Moves(a, n, l, th[c], up, dn, cd, ct, "done", up, dn, cd, ct)
    BY <1>1, MoveEnd
  <2> QED
    BY <2>1, <2>2, <2>3 DEF ThreadMoves
<1>7. CASE NotFound(c)
  <2>1. /\ th[c] = "request" /\ th' = [th EXCEPT ![c] = "done"]
        /\ Respond(c, <<Status(404), Split, Html>>) /\ UNCHANGED <<c2s, csr_der, cert_der>>
    BY <1>7 DEF NotFound, Finish, Continue
  <2>2. th'[c] = "done" /\ (dn2 = dn \/ dn2 = dn \o <<Status(404), Split, Html>>)
    BY <1>4, <1>5, <2>1, Zenon
  <2>3. ConnFact(a, n, l, "request", up, dn, cd, ct)
    BY <1>1, <2>1
  <2> HIDE DEF dn2
  <2>4. Moves(a, n, l, "request", up, dn, cd, ct, "done", up, dn2, cd, ct)
    BY <1>3, <2>2, <2>3, MoveNotFound
  <2> QED
    BY <2>1, <2>2, <2>4 DEF ThreadMoves, dn2
<1>8. CASE do_GET(c)
  <2>1. /\ th[c] = "request" /\ th' = [th EXCEPT ![c] = "write"] /\ up # <<>>
        /\ Head(up) = Request("GET", EST_RA, 0)
        /\ Respond(c, <<Status(200), Split>>) /\ UNCHANGED <<c2s, csr_der, cert_der>>
    BY <1>8 DEF do_GET, Continue
  <2>2. th'[c] = "write" /\ (dn2 = dn \/ dn2 = dn \o <<Status(200), Split>>)
    BY <1>4, <1>5, <2>1, Zenon
  <2>3. ConnFact(a, n, l, "request", up, dn, cd, ct)
    BY <1>1, <2>1
  <2>4. Head(up).kind = "GET"
    BY <2>1 DEF Request, Symbol
  <2> HIDE DEF dn2
  <2>5. Moves(a, n, l, "request", up, dn, cd, ct, "write", up, dn2, cd, ct)
    BY <1>1, <1>3, <2>1, <2>2, <2>3, <2>4, MoveGet
  <2> QED
    BY <2>1, <2>2, <2>5 DEF ThreadMoves, dn2
<1>9. CASE Decode(c)
  <2> DEFINE d == Decoded(Compact(Tail(up)))
  <2>1. /\ th[c] = "request" /\ th' = [th EXCEPT ![c] = "serial"] /\ up # <<>>
        /\ Head(up).kind = "POST" /\ (Len(up) - 1 >= Head(up).val \/ l = "cut")
        /\ Decodes(Compact(Tail(up)))
        /\ csr_der' = [csr_der EXCEPT ![c] = d] /\ c2s' = [c2s EXCEPT ![c] = <<>>]
        /\ UNCHANGED <<s2c, cert_der>>
    BY <1>9 DEF Decode, BodyRead, Continue, Ended
  <2>2. th'[c] = "serial" /\ cd2 = d /\ up2 = <<>>
    BY <1>2, <1>5, <2>1
  <2>3. ConnFact(a, n, l, "request", up, dn, cd, ct)
    BY <1>1, <2>1
  <2>4. Moves(a, n, l, "request", up, dn, cd, ct, "serial", <<>>, dn, d, ct)
    BY <1>1, <2>1, <2>3, MoveDecode
  <2> HIDE DEF d
  <2> QED
    BY <2>1, <2>2, <2>4 DEF ThreadMoves
<1>10. CASE NextSerial(c) \/ Increment(c)
  <2>1. PICK t2 \in {"increment", "build"} :
           /\ th[c] \in {"serial", "increment"} /\ th' = [th EXCEPT ![c] = t2]
           /\ UNCHANGED <<c2s, s2c, csr_der, cert_der>>
    BY <1>10 DEF NextSerial, Increment, Continue, connVars
  <2>2. th'[c] = t2
    BY <1>5, <2>1
  <2>3. Moves(a, n, l, th[c], up, dn, cd, ct, t2, up, dn, cd, ct)
    BY <1>1, <2>1, MoveSerial
  <2> QED
    BY <2>1, <2>2, <2>3 DEF ThreadMoves
<1>11. CASE Refuse(c)
  <2>1. /\ th[c] = "build" /\ ~IsCsr(cd) /\ th' = [th EXCEPT ![c] = "done"]
        /\ Respond(c, <<Status(400), Split, Html>>) /\ UNCHANGED <<c2s, csr_der, cert_der>>
    BY <1>11 DEF Refuse, Finish, Continue
  <2>2. ConnFact(a, n, l, "build", up, dn, cd, ct)
    BY <1>1, <2>1
  <2>3. l # "tls"
    BY <1>1, <2>1, <2>2, RefusedGone
  <2>4. s2c' = s2c
    BY <2>1, <2>3 DEF Respond
  <2>5. th'[c] = "done"
    BY <1>5, <2>1
  <2>6. Moves(a, n, l, th[c], up, dn, cd, ct, "done", up, dn, cd, ct)
    BY <1>1, MoveEnd
  <2> QED
    BY <2>1, <2>4, <2>5, <2>6 DEF ThreadMoves
<1>12. CASE Issue(c)
  <2> DEFINE x == build_mldsa44_certificate(cd, mine[c])
  <2>1. /\ th[c] = "build" /\ IsCsr(cd) /\ th' = [th EXCEPT ![c] = "write"]
        /\ cert_der' = [cert_der EXCEPT ![c] = x]
        /\ Respond(c, <<Status(200), Split>>) /\ UNCHANGED <<c2s, csr_der>>
    BY <1>12 DEF Issue, Continue
  <2>2. th'[c] = "write" /\ (dn2 = dn \/ dn2 = dn \o <<Status(200), Split>>)
    BY <1>4, <1>5, <2>1, Zenon
  <2>3. ct2 = x
    BY <1>2, <2>1
  <2>4. ConnFact(a, n, l, "build", up, dn, cd, ct)
    BY <1>1, <2>1
  <2> HIDE DEF dn2, ct2
  <2>5. Moves(a, n, l, "build", up, dn, cd, ct, "write", up, dn2, cd, ct2)
    BY <1>1, <1>2, <1>3, <2>1, <2>2, <2>3, <2>4, MoveIssue
  <2> QED
    BY <2>1, <2>2, <2>5 DEF ThreadMoves, dn2, ct2
<1>13. CASE WriteBody(c)
  <2> DEFINE page == LineBreaks(Base64(IF ct = <<>> THEN CacertsDer ELSE cert_der_to_pkcs7(ct)))
  <2>1. /\ th[c] = "write" /\ th' = [th EXCEPT ![c] = "done"]
        /\ Respond(c, page) /\ UNCHANGED <<c2s, csr_der, cert_der>>
    BY <1>13 DEF WriteBody, Finish, Continue
  <2>2. ct \in Seq(Nat)
    BY <1>1 DEF ConnFact
  <2>3. page \in Seq(Good)
    BY <2>2, BodyGood
  <2> HIDE DEF page
  <2>4. th'[c] = "done" /\ (dn2 = dn \/ dn2 = dn \o page)
    BY <1>4, <1>5, <2>1, Zenon
  <2>5. ConnFact(a, n, l, "write", up, dn, cd, ct)
    BY <1>1, <2>1
  <2> HIDE DEF dn2
  <2>6. Moves(a, n, l, "write", up, dn, cd, ct, "done", up, dn2, cd, ct)
    BY <1>3, <2>3, <2>4, <2>5, MoveWrite
  <2> QED
    BY <2>1, <2>4, <2>6 DEF ThreadMoves, dn2
<1> QED
  BY <1>6, <1>7, <1>8, <1>9, <1>10, <1>11, <1>12, <1>13 DEF ThreadStep

\* A request of which only the headers were sent is not read to its end.
LEMMA NotYet ==
    ASSUME WaitInv, EnrollInv, ThreadStep(conn), Awaited, link[conn] = "tls",
           phase \in {"headers", "body"}
    PROVE  conn \in shut'
<1>1. th[conn] = "request" /\ ~Ended(conn)
  BY DEF Awaited, Ended
<1>2. /\ phase = "headers" => c2s[conn] = <<>>
      /\ phase = "body" => c2s[conn] = <<Headers>> /\ step = "enroll"
  BY DEF WaitInv, SentOK, RequestOK
<1>3. aps \in Aps /\ boots \in Nat
  BY DEF EnrollInv, BoardOK
<1>4. CASE c2s[conn] = <<>>
  BY <1>1, <1>4 DEF ThreadStep, RequestLost, NotFound, do_GET, DecodeRaises, Decode, BodyRead,
      NextSerial, Increment, Refuse, Issue, WriteBody
<1>5. CASE c2s[conn] = <<Headers>> /\ step = "enroll"
  <2> DEFINE h == PostTo(aps, boots)
             up == c2s[conn]
  <2>1. Headers = h
    BY <1>5, HeadersAre
  <2>2. h.kind = "POST" /\ h.val \in Nat \ {0}
    BY ZenonT(60), <1>3, RequestFact
  <2> HIDE DEF h
  <2>3. \A x : Len(<<x>>) = 1 /\ Head(<<x>>) = x /\ <<x>> # <<>>
    OBVIOUS
  <2>4. Len(up) = 1 /\ Head(up) = h /\ up # <<>>
    BY <1>5, <2>1, <2>3, Zenon
  <2> HIDE DEF up
  <2>5. ~(Len(up) - 1 >= Head(up).val)
    BY <2>2, <2>4
  <2>6. ~BodyRead(conn)
    BY <1>1, <2>5 DEF BodyRead, up
  <2>7. Head(up) # Request("GET", EST_RA, 0)
    BY <2>2, <2>4 DEF Request, Symbol
  <2>8. NotFound(conn)
    BY <1>1, <2>4, <2>6, <2>7 DEF ThreadStep, RequestLost, do_GET, DecodeRaises, Decode,
        NextSerial, Increment, Refuse, Issue, WriteBody, up
  <2> QED
    BY <2>8 DEF NotFound, Finish
<1> QED
  BY <1>2, <1>4, <1>5

\* The steps of the RA.
LEMMA RaEnroll ==
    ASSUME WaitInv, EnrollInv, RaStep, UNCHANGED clientVars
    PROVE  EnrollInv'
<1>1. UNCHANGED <<aps, boots, step, phase, conn, ret, resp, csr>>
  BY DEF clientVars
<1>2. /\ aps \in Aps /\ boots \in Nat \ {0} /\ boots \in Nat /\ boots <= boots /\ resp \in Seq(Good)
      /\ ConnsOK /\ ResponseOK /\ OpenOK /\ BoardOK
  BY DEF EnrollInv, BoardOK
<1>3. BoardOK'
  BY <1>1, <1>2 DEF BoardOK
<1>4. ASSUME UNCHANGED <<link, c2s, s2c, th, csr_der, cert_der, mine, serial>>, shut \subseteq shut'
      PROVE  EnrollInv'
  <2>1. ConnsOK'
    BY <1>1, <1>2, <1>4, ConnsSame
  <2>2. CurrentOK(conn) => CurrentOK(conn)'
    BY <1>1, <1>4 DEF CurrentOK
  <2>3. ResponseOK'
    BY <1>1, <1>2, <1>4, <2>2 DEF ResponseOK
  <2>4. OpenOK'
    BY <1>1, <1>2, <1>4 DEF OpenOK
  <2> QED
    BY <1>3, <2>1, <2>3, <2>4 DEF EnrollInv
<1>5. CASE AcceptFails
  BY <1>4, <1>5 DEF AcceptFails
<1>6. ASSUME NEW c \in Conn, Accept(c) PROVE EnrollInv'
  BY <1>4, <1>6 DEF Accept, connVars
<1>7. ASSUME NEW c \in Conn, ThreadStep(c) PROVE EnrollInv'
  <2>1. ThreadFrame(c)
    BY <1>2, <1>7, ThreadFrames
  <2>2. ThreadMoves(c)
    BY <1>7, ThreadMove
  <2>3. /\ UNCHANGED link /\ shut \subseteq shut'
        /\ \A d \in Conn : d # c => th'[d] = th[d] /\ c2s'[d] = c2s[d]
    <3>1. DOMAIN th = Conn /\ DOMAIN c2s = Conn
      BY DEF WaitInv, LinksOK
    <3> QED
      BY <1>7, <3>1, ThreadFact
  <2>4. ASSUME NEW d \in Conn PROVE ConnOK(d)'
    <3>1. CASE d = c
      <4>1. ConnFact(aps, boots, link[c], th'[c], c2s'[c], s2c'[c], csr_der'[c], cert_der'[c])
        BY <2>2 DEF ThreadMoves, Moves
      <4> QED
        BY <1>1, <2>3, <3>1, <4>1 DEF ConnOK
    <3>2. CASE d # c
      <4>1. ConnOK(d)
        BY <1>2 DEF ConnsOK
      <4>2. s2c'[d] = s2c[d] /\ csr_der'[d] = csr_der[d] /\ cert_der'[d] = cert_der[d]
        BY <2>1, <3>2 DEF ThreadFrame
      <4> QED
        BY <1>1, <1>2, <2>3, <3>2, <4>1, <4>2, ConnSame
    <3> QED
      BY <3>1, <3>2
  <2>5. ConnsOK'
    BY <2>1, <2>4 DEF ConnsOK, ThreadFrame
  <2>6. ASSUME conn \in Conn, CurrentOK(conn) PROVE CurrentOK(conn)'
    <3>1. CASE conn = c
      <4>1. boots \in 1..boots
        BY <1>2
      <4>2. Current(aps, boots, th'[c], c2s'[c], csr_der'[c], cert_der'[c], resp \o s2c'[c])
        BY <1>2, <2>2, <2>6, <3>1, <4>1, Zenon DEF ThreadMoves, Moves, CurrentOK
      <4> QED
        BY <1>1, <3>1, <4>2 DEF CurrentOK
    <3>2. CASE conn # c
      BY <1>1, <2>1, <2>3, <2>6, <3>2 DEF CurrentOK, ThreadFrame
    <3> QED
      BY <3>1, <3>2
  <2>7. ASSUME conn \in Conn, cert_der[conn] # <<>>
        PROVE  cert_der'[conn] = cert_der[conn] /\ csr_der'[conn] = csr_der[conn]
    <3>1. CASE conn = c
      BY <2>2, <2>7, <3>1 DEF ThreadMoves, Moves
    <3>2. CASE conn # c
      BY <2>1, <2>7, <3>2 DEF ThreadFrame
    <3> QED
      BY <3>1, <3>2
  <2>8. ResponseOK'
    BY <1>1, <1>2, <2>6, <2>7 DEF ResponseOK
  <2>9. OpenOK'
    <3> SUFFICES ASSUME phase \in {"headers", "body"}, link[conn] = "tls", conn \notin shut'
                 PROVE  th'[conn] = "request"
      BY <1>1, <2>3 DEF OpenOK
    <3>1. conn \in Conn
      BY DEF WaitInv, RequestOK, OnLine
    <3>2. conn \notin shut /\ th[conn] = "request"
      BY <1>2, <2>3 DEF OpenOK
    <3>3. CASE conn = c
      <4>1. Awaited
        BY <3>2 DEF Awaited
      <4> QED
        BY <1>7, <3>3, <4>1, NotYet
    <3>4. CASE conn # c
      BY <2>3, <3>1, <3>2, <3>4
    <3> QED
      BY <3>3, <3>4
  <2> QED
    BY <1>3, <2>5, <2>8, <2>9 DEF EnrollInv
<1> QED
  BY <1>5, <1>6, <1>7 DEF RaStep

\* The invariant.
LEMMA EnrollInvariant == Spec => [](WaitInv /\ EnrollInv)
<1>1. Init => EnrollInv
  <2> SUFFICES ASSUME Init PROVE EnrollInv
    OBVIOUS
  <2>1. /\ aps \in {EST_RA, DMS} /\ boots = 1 /\ step = "cacerts" /\ phase = "idle" /\ resp = <<>>
        /\ link = [c \in Conn |-> "none"] /\ c2s = [c \in Conn |-> <<>>]
        /\ s2c = [c \in Conn |-> <<>>] /\ serial = 1 /\ th = [c \in Conn |-> "none"]
        /\ mine = [c \in Conn |-> 0]
        /\ csr_der = [c \in Conn |-> <<>>] /\ cert_der = [c \in Conn |-> <<>>]
    BY DEF Init, ClientInit, RaInit
  <2>2. aps \in Aps /\ boots \in Nat \ {0} /\ <<>> \in Seq(Good)
    BY <2>1, SeqNone DEF Aps
  <2>3. ConnFact(aps, boots, "none", "none", <<>>, <<>>, <<>>, <<>>)
    <3>1. ConnFact(aps, boots, "tcp", "none", <<>>, <<>>, <<>>, <<>>)
      BY <2>2, FreshConn
    <3> QED
      BY <3>1 DEF ConnFact
  <2>4. ConnsOK
    BY <2>1, <2>3 DEF ConnsOK, ConnOK
  <2>5. BoardOK
    BY <2>1, <2>2 DEF BoardOK
  <2>6. ResponseOK /\ OpenOK
    BY <2>1 DEF ResponseOK, OpenOK, Under
  <2> QED
    BY <2>4, <2>5, <2>6 DEF EnrollInv
<1>2. WaitInv /\ EnrollInv /\ [Next]_vars => EnrollInv'
  <2> SUFFICES ASSUME WaitInv, EnrollInv, [Next]_vars PROVE EnrollInv'
    OBVIOUS
  <2>1. CASE UNCHANGED vars
    BY <2>1 DEF vars, clientVars, connVars, raVars, EnrollInv, ConnsOK, BoardOK, ResponseOK, OpenOK,
        ConnOK, CurrentOK
  <2>2. CASE Connect \/ Refused
    BY <2>2, ConnectEnroll
  <2>3. CASE Handshake
    BY <2>3, HandshakeEnroll
  <2>4. CASE Send
    BY <2>4, SendEnroll
  <2>5. CASE Read
    BY <2>5, ReadEnroll
  <2>6. CASE HandshakeEnds \/ ReadEof \/ ClientFails
    BY <2>6, AloneEnroll DEF HandshakeEnds, ReadEof, ClientFails
  <2>7. CASE (StartRequest \/ ParseResponse \/ Cleanup \/ MainStep \/ Reset)
             /\ UNCHANGED <<connVars, raVars>>
    BY <2>7, AloneEnroll
  <2>8. CASE RaStep /\ UNCHANGED clientVars
    BY <2>8, RaEnroll
  <2>9. CASE \E c \in Conn : Cut(c)
    BY <2>9, CutEnroll
  <2> QED
    BY <2>1, <2>2, <2>3, <2>4, <2>5, <2>6, <2>7, <2>8, <2>9 DEF Next, ClientStep, Finished
<1> QED
  BY <1>1, <1>2, WaitInvariant, PTL DEF Spec

\* The blank line, when there is one, is in the response.
LEMMA SplitFact ==
    ASSUME NEW S, NEW buf \in Seq(S)
    PROVE  find_header_body_split(buf) \in 0..Len(buf)
<1> DEFINE I == {i \in 1..Len(buf) : buf[i] = Split}
<1>1. Len(buf) \in Nat
  BY SeqDomain
<1>2. find_header_body_split(buf) = IF I # {} THEN Min(I) ELSE 0
  BY Zenon DEF find_header_body_split, SelectInSeq
<1>3. CASE I = {}
  <2>1. find_header_body_split(buf) = 0
    BY <1>2, <1>3
  <2> QED
    BY <1>1, <2>1
<1>4. CASE I # {}
  <2>1. I \in SUBSET Nat
    OBVIOUS
  <2>2. I \subseteq 0..Len(buf)
    OBVIOUS
  <2> HIDE DEF I
  <2>3. \E x \in I : \A y \in I : x <= y
    BY <1>4, <2>1, NatMin
  <2>4. Min(I) \in I
    BY <2>3, Zenon DEF Min
  <2> QED
    BY <1>2, <1>4, <2>2, <2>4
<1> QED
  BY <1>3, <1>4

\* Serials: the threads that have increased the counter.
Counted == {c \in Conn : mine[c] # 0 /\ th[c] # "increment"}

LEMMA CountedFact ==
    ASSUME MaxConns \in Nat
    PROVE  /\ IsFiniteSet(Counted) /\ Cardinality(Counted) \in 0..MaxConns
           /\ \A c \in Conn : c \notin Counted => Cardinality(Counted) < MaxConns
<1>1. IsFiniteSet(Conn) /\ Cardinality(Conn) = MaxConns
  <2>1. 1 \in Int /\ MaxConns \in Int
    OBVIOUS
  <2>2. IsFiniteSet(1..MaxConns) /\ Cardinality(1..MaxConns) = IF 1 > MaxConns THEN 0 ELSE MaxConns - 1 + 1
    BY <2>1, FS_Interval
  <2> QED
    BY <2>2 DEF Conn
<1>2. Counted \in SUBSET Conn
  BY DEF Counted
<1>3. /\ IsFiniteSet(Counted) /\ Cardinality(Counted) <= Cardinality(Conn)
      /\ Cardinality(Conn) = Cardinality(Counted) => Conn = Counted
  BY <1>1, <1>2, FS_Subset
<1>4. Cardinality(Counted) \in Nat
  BY <1>3, FS_CardinalityType
<1>5. \A c \in Conn : c \notin Counted => Cardinality(Counted) # MaxConns
  BY <1>1, <1>3
<1>6. Cardinality(Counted) <= MaxConns
  BY <1>1, <1>3
<1> QED
  BY <1>3, <1>4, <1>5, <1>6

\* The client's variables.
ClientShape ==
    /\ boots \in 1..MaxBoots /\ ret \in BOOLEAN /\ step \in Step /\ phase \in Phase
    /\ Len(resp) <= EST_HTTP_RESPONSE_MAX
    /\ DOMAIN body = {"cacerts", "enroll"}
    /\ \A s \in {"cacerts", "enroll"} : Len(body[s]) <= EST_HTTP_RESPONSE_MAX
    /\ printed # <<>> => step \in {"selftest", "finished"}

LEMMA BodyFits ==
    ASSUME NEW S, NEW r \in Seq(S), Len(r) <= EST_HTTP_RESPONSE_MAX
    PROVE  Len(From(r, find_header_body_split(r) + 1)) <= EST_HTTP_RESPONSE_MAX
<1> DEFINE k == find_header_body_split(r)
           n == Len(r)
           t == SubSeq(r, k + 1, n)
<1>1. k \in 0..n /\ n \in Nat /\ EST_HTTP_RESPONSE_MAX \in Nat /\ n <= EST_HTTP_RESPONSE_MAX
  BY SplitFact, SeqDomain, ClientAssumption
<1> HIDE DEF k
<1>2. k + 1 \in Nat /\ k + 1 >= 1 /\ n <= Len(r) /\ k + 1 <= n + 1
  BY <1>1
<1>3. Len(t) = n + 1 - (k + 1)
  BY <1>1, <1>2, SeqSegment
<1> HIDE DEF n, t
<1>4. Len(t) <= EST_HTTP_RESPONSE_MAX
  BY <1>1, <1>3
<1> QED
  BY <1>4 DEF From, k, n, t

LEMMA ClientTypes ==
    ASSUME ClientShape, WaitInv, EnrollInv, ClientStep \/ ClientFails \/ Reset
    PROVE  ClientShape'
<1> USE DEF ClientShape, Step, Phase
<1>1. /\ resp \in Seq(Good) /\ <<>> \in Seq(Good) /\ Len(<<>>) = 0
      /\ (phase # "idle" => step \in {"cacerts", "enroll"}) /\ EST_HTTP_RESPONSE_MAX \in Nat
  BY SeqNone, ClientAssumption DEF EnrollInv, BoardOK, WaitInv, RequestOK
<1>2. CASE StartRequest
  <2>1. /\ body' = [body EXCEPT ![step] = <<>>] /\ resp' = <<>> /\ phase' = "connect"
        /\ UNCHANGED <<boots, step, ret, printed>>
    BY <1>2 DEF StartRequest, Enter
  <2>2. 0 <= EST_HTTP_RESPONSE_MAX
    BY <1>1
  <2>3. Len(resp') <= EST_HTTP_RESPONSE_MAX
    BY <1>1, <2>1, <2>2
  <2>4. \A s \in {"cacerts", "enroll"} : Len(body'[s]) <= EST_HTTP_RESPONSE_MAX
    <3> TAKE s \in {"cacerts", "enroll"}
    <3>1. body'[s] = body[s] \/ body'[s] = <<>>
      BY <2>1
    <3> QED
      BY <1>1, <2>2, <3>1
  <2> QED
    BY <2>1, <2>3, <2>4
<1>3. CASE RequestFails \/ Connect \/ Refused \/ Handshake \/ HandshakeEnds \/ Send \/ ReadEof \/ Cleanup
  <2>1. UNCHANGED <<boots, resp, body, printed>>
    BY <1>3 DEF RequestFails, Connect, Connected, Refused, Handshake, HandshakeDone, HandshakeEnds,
        Send, SendHeaders, SendBody, ReadEof, ReadEnd, Cleanup
  <2>2. phase' \in Phase /\ ret' \in BOOLEAN /\ phase # "idle"
    BY <1>3 DEF RequestFails, Connect, Connected, Refused, Handshake, HandshakeDone, HandshakeEnds,
        Send, SendHeaders, SendBody, ReadEof, ReadEnd, Cleanup, Enter, Return
  <2>3. step' \in Step
    BY <1>3 DEF RequestFails, Connect, Connected, Refused, Handshake, HandshakeDone, HandshakeEnds,
        Send, SendHeaders, SendBody, ReadEof, ReadEnd, Cleanup
  <2>4. printed = <<>>
    BY <1>1, <2>2
  <2> QED
    BY <2>1, <2>2, <2>3, <2>4
<1>4. CASE Read
  <2> DEFINE p == SubSeq(s2c[conn], 1, IF Len(s2c[conn]) < EST_RX_CHUNK_SIZE
                                       THEN Len(s2c[conn]) ELSE EST_RX_CHUNK_SIZE)
  <2>1. ReadChunk(p)
    BY <1>4 DEF Read
  <2>2. p \in Seq(Good)
    <3>1. conn \in Conn
      BY <1>4 DEF Read, WaitInv, RequestOK, OnLine
    <3>2. s2c[conn] \in Seq(Good)
      BY <3>1 DEF EnrollInv, ConnsOK, ConnOK, ConnFact
    <3>3. EST_RX_CHUNK_SIZE \in Nat /\ Len(s2c[conn]) \in Nat
      BY <3>2, ClientAssumption, SeqDomain
    <3> QED
      BY <3>2, <3>3
  <2> HIDE DEF p
  <2>3. /\ UNCHANGED <<boots, step, body, printed>> /\ phase' \in {phase, "cleanup"}
        /\ ret' \in {ret, FALSE}
        /\ resp' = resp \/ (resp' = resp \o p /\ ~(Len(resp) + Len(p) > EST_HTTP_RESPONSE_MAX))
    BY <2>1 DEF ReadChunk, Return, Enter
  <2>4. Len(resp \o p) = Len(resp) + Len(p) /\ Len(resp) \in Nat /\ Len(p) \in Nat
    BY <1>1, <2>2, SeqConcat, SeqDomain
  <2>5. Len(resp') <= EST_HTTP_RESPONSE_MAX
    <3>1. CASE resp' = resp
      BY <3>1
    <3>2. CASE resp' = resp \o p /\ ~(Len(resp) + Len(p) > EST_HTTP_RESPONSE_MAX)
      <4>1. Len(resp) + Len(p) <= EST_HTTP_RESPONSE_MAX
        BY <1>1, <2>4, <3>2
      <4> QED
        BY <2>4, <3>2, <4>1
    <3> QED
      BY <2>3, <3>1, <3>2
  <2> QED
    BY <2>3, <2>5
<1>5. CASE ParseResponse
  <2>1. /\ UNCHANGED <<boots, step, resp, printed>> /\ phase' = "cleanup" /\ phase = "parse"
        /\ ret' = IsSuccess(resp)
        /\ body' = body \/ body' = [body EXCEPT ![step] = From(resp, find_header_body_split(resp) + 1)]
    BY <1>5 DEF ParseResponse, Return, Enter
  <2>2. ret' \in BOOLEAN
    BY <2>1 DEF IsSuccess
  <2>3. Len(From(resp, find_header_body_split(resp) + 1)) <= EST_HTTP_RESPONSE_MAX
    BY <1>1, BodyFits
  <2>4. \A s \in {"cacerts", "enroll"} : Len(body'[s]) <= EST_HTTP_RESPONSE_MAX
    <3> TAKE s \in {"cacerts", "enroll"}
    <3>1. body'[s] = body[s] \/ body'[s] = From(resp, find_header_body_split(resp) + 1)
      BY <2>1
    <3> QED
      BY <2>3, <3>1
  <2> QED
    BY <2>1, <2>2, <2>4
<1>6. CASE MainStep \/ CsrFails
  <2>1. /\ UNCHANGED <<boots, phase, ret, resp, body>> /\ step' \in Step
        /\ UNCHANGED printed \/ step' = "selftest"
        /\ step \in {"csr", "extract", "selftest"}
        /\ step = "selftest" => step' = "finished"
    BY <1>6 DEF MainStep, BuildCsr, Extract, SelfTest, CsrFails
  <2> QED
    BY <2>1
<1>7. CASE Reset
  <2>1. /\ boots' = boots + 1 /\ boots < MaxBoots /\ step' = "cacerts" /\ phase' = "idle" /\ ret' = FALSE
        /\ resp' = <<>> /\ printed' = <<>> /\ body' = [s \in {"cacerts", "enroll"} |-> <<>>]
    BY <1>7 DEF Reset
  <2>2. 0 <= EST_HTTP_RESPONSE_MAX
    BY <1>1
  <2>3. boots' \in 1..MaxBoots
    BY <2>1, ClientAssumption
  <2> QED
    BY <1>1, <2>1, <2>2, <2>3
<1> QED
  BY <1>2, <1>3, <1>4, <1>5, <1>6, <1>7 DEF ClientStep, ClientFails

\* The RA's variables: the counter is one ahead of the threads that increased it.
RaShape ==
    /\ link \in [Conn -> LinkState] /\ shut \subseteq Conn
    /\ th \in [Conn -> ThreadPc] /\ mine \in [Conn -> 0..MaxConns]
    /\ serial = 1 + Cardinality(Counted)
    /\ \A c \in Conn : /\ th[c] \in {"none", "request", "serial"} => mine[c] = 0
                       /\ th[c] \in {"increment", "build"} => mine[c] # 0
                       /\ cert_der[c] # <<>> => mine[c] # 0

\* A step that takes no serial.
LEMMA SameSerials ==
    ASSUME RaShape, UNCHANGED <<mine, serial, cert_der>>,
           link' \in [Conn -> LinkState], shut' \subseteq Conn,
           th' \in [Conn -> ThreadPc],
           \A c \in Conn : \/ th'[c] = th[c]
                           \/ th[c] = "none" /\ th'[c] = "request"
                           \/ th[c] = "request" /\ th'[c] \in {"serial", "write", "done"}
                           \/ th[c] \in {"build", "write"} /\ th'[c] \in {"write", "done"}
    PROVE  RaShape'
<1>1. Counted' = Counted
  <2>1. \A c \in Conn : th'[c] = "increment" <=> th[c] = "increment"
    OBVIOUS
  <2> QED
    BY <2>1 DEF Counted
<1>2. \A c \in Conn : /\ th'[c] \in {"none", "request", "serial"} =>
                            th[c] \in {"none", "request", "serial"}
                      /\ th'[c] \in {"increment", "build"} => th[c] \in {"increment", "build"}
  OBVIOUS
<1> QED
  BY <1>1, <1>2 DEF RaShape

\* The steps that take one.
LEMMA SerialTypes ==
    ASSUME RaShape, NEW c \in Conn, NextSerial(c) \/ Increment(c)
    PROVE  RaShape'
<1>1. /\ link \in [Conn -> LinkState] /\ shut \subseteq Conn
      /\ th \in [Conn -> ThreadPc] /\ mine \in [Conn -> 0..MaxConns]
      /\ serial = 1 + Cardinality(Counted) /\ MaxConns \in Nat
  BY RaAssumption DEF RaShape
<1>2. UNCHANGED <<link, shut, cert_der>>
  BY DEF NextSerial, Increment, connVars
<1>3. IsFiniteSet(Counted) /\ Cardinality(Counted) \in 0..MaxConns
      /\ (c \notin Counted => Cardinality(Counted) < MaxConns)
  BY <1>1, CountedFact
<1>4. CASE NextSerial(c)
  <2>1. /\ th[c] = "serial" /\ th' = [th EXCEPT ![c] = "increment"]
        /\ mine' = [mine EXCEPT ![c] = serial] /\ serial' = serial
    BY <1>4 DEF NextSerial, Continue
  <2>2. mine[c] = 0
    BY <2>1 DEF RaShape
  <2>3. c \notin Counted
    BY <2>2 DEF Counted
  <2>4. serial \in 1..MaxConns
    <3> DEFINE k == Cardinality(Counted)
    <3>1. k \in Nat /\ k < MaxConns /\ serial = 1 + k
      BY <1>1, <1>3, <2>3
    <3> HIDE DEF k
    <3> QED
      BY <1>1, <3>1
  <2>5. th' \in [Conn -> ThreadPc] /\ th'[c] = "increment" /\ \A d \in Conn : d # c => th'[d] = th[d]
    BY <1>1, <2>1 DEF ThreadPc
  <2>6. mine' \in [Conn -> 0..MaxConns] /\ mine'[c] = serial /\ \A d \in Conn : d # c => mine'[d] = mine[d]
    BY <1>1, <2>1, <2>4
  <2>7. Counted' = Counted
    BY <2>3, <2>5, <2>6 DEF Counted
  <2>8. serial # 0
    BY <2>4
  <2>9. ASSUME NEW d \in Conn
        PROVE  /\ th'[d] \in {"none", "request", "serial"} => mine'[d] = 0
               /\ th'[d] \in {"increment", "build"} => mine'[d] # 0
               /\ cert_der'[d] # <<>> => mine'[d] # 0
    BY <1>2, <2>5, <2>6, <2>8 DEF RaShape
  <2> QED
    BY <1>1, <1>2, <2>1, <2>5, <2>6, <2>7, <2>9 DEF RaShape
<1>5. CASE Increment(c)
  <2>1. /\ th[c] = "increment" /\ th' = [th EXCEPT ![c] = "build"]
        /\ mine' = mine /\ serial' = serial + 1
    BY <1>5 DEF Increment, Continue
  <2>2. mine[c] # 0
    BY <2>1 DEF RaShape
  <2>3. c \notin Counted
    BY <2>1 DEF Counted
  <2>4. th' \in [Conn -> ThreadPc] /\ th'[c] = "build" /\ \A d \in Conn : d # c => th'[d] = th[d]
    BY <1>1, <2>1 DEF ThreadPc
  <2>5. Counted' = Counted \union {c}
    BY <2>1, <2>2, <2>4 DEF Counted
  <2>6. Cardinality(Counted \union {c}) = Cardinality(Counted) + 1
    BY <1>3, <2>3, FS_AddElement
  <2>7. serial' = 1 + Cardinality(Counted')
    <3> DEFINE k == Cardinality(Counted)
    <3>1. k \in Nat /\ serial = 1 + k /\ Cardinality(Counted') = k + 1
      BY <1>1, <1>3, <2>5, <2>6
    <3> HIDE DEF k
    <3> QED
      BY <2>1, <3>1
  <2>8. ASSUME NEW d \in Conn
        PROVE  /\ th'[d] \in {"none", "request", "serial"} => mine'[d] = 0
               /\ th'[d] \in {"increment", "build"} => mine'[d] # 0
               /\ cert_der'[d] # <<>> => mine'[d] # 0
    BY <1>2, <2>1, <2>2, <2>4 DEF RaShape
  <2> QED
    BY <1>1, <1>2, <2>1, <2>4, <2>7, <2>8 DEF RaShape
<1> QED
  BY <1>4, <1>5

LEMMA RaTypes ==
    ASSUME RaShape, WaitInv, EnrollInv, [Next]_vars
    PROVE  RaShape'
<1>1. /\ link \in [Conn -> LinkState] /\ shut \subseteq Conn /\ th \in [Conn -> ThreadPc]
      /\ conn \in 0..MaxConns /\ accepting \in 0..MaxConns /\ MaxConns \in Nat
  BY RaAssumption DEF RaShape, WaitInv, LinksOK
<1>2. CASE UNCHANGED <<connVars, raVars>>
  <2>1. UNCHANGED <<link, shut, th, mine, serial, cert_der>>
    BY <1>2 DEF connVars, raVars
  <2> QED
    BY <1>1, <2>1, SameSerials
<1>3. CASE UNCHANGED raVars /\ UNCHANGED shut /\ link' \in [Conn -> LinkState]
  <2>1. UNCHANGED <<shut, th, mine, serial, cert_der>>
    BY <1>3 DEF raVars
  <2> QED
    BY <1>1, <1>3, <2>1, SameSerials
<1>4. CASE Connect \/ Refused
  <2>1. UNCHANGED raVars /\ UNCHANGED shut
    BY <1>4 DEF Connect, Refused
  <2>2. DropOld(link) \in [Conn -> LinkState]
    BY DEF DropOld, LinkState
  <2>3. link' = DropOld(link) \/ \E k : link' = [DropOld(link) EXCEPT ![k] = "tcp"]
    BY <1>4, Zenon DEF Connect, Refused
  <2>4. link' \in [Conn -> LinkState]
    BY <2>2, <2>3 DEF LinkState
  <2> QED
    BY <1>3, <2>1, <2>4
<1>5. CASE Handshake
  <2>1. /\ link[conn] = "tcp" /\ conn \in Conn
        /\ link' = [link EXCEPT ![conn] = "tls"] /\ th' = [th EXCEPT ![conn] = "request"]
        /\ UNCHANGED <<shut, serial, mine, cert_der>>
    BY <1>5 DEF Handshake, HandshakeDone, Accepted, WaitInv, RequestOK, OnLine
  <2>2. th[conn] = "none"
    BY <2>1 DEF WaitInv, LinksOK
  <2>3. link' \in [Conn -> LinkState] /\ th' \in [Conn -> ThreadPc]
    BY <1>1, <2>1 DEF LinkState, ThreadPc
  <2>4. \A c \in Conn : th'[c] = th[c] \/ (th[c] = "none" /\ th'[c] = "request")
    BY <1>1, <2>1, <2>2
  <2> QED
    BY <1>1, <2>1, <2>3, <2>4, SameSerials
<1>6. CASE Send \/ Read
  <2>1. UNCHANGED raVars /\ UNCHANGED <<shut, link>>
    BY <1>6 DEF Send, Transmit, Read
  <2> QED
    BY <1>1, <1>3, <2>1
<1>7. ASSUME NEW c \in Conn, Cut(c) PROVE RaShape'
  <2>1. UNCHANGED raVars /\ UNCHANGED shut /\ link' = [link EXCEPT ![c] = "cut"]
    BY <1>7 DEF Cut
  <2>2. link' \in [Conn -> LinkState]
    BY <1>1, <2>1 DEF LinkState
  <2> QED
    BY <1>3, <2>1, <2>2
<1>8. CASE AcceptFails
  <2>1. /\ accepting # 0 /\ shut' = shut \union {accepting}
        /\ UNCHANGED <<link, th, serial, mine, cert_der>>
    BY <1>8 DEF AcceptFails
  <2>2. shut' \subseteq Conn
    BY <1>1, <2>1 DEF Conn
  <2> QED
    BY <1>1, <2>1, <2>2, SameSerials
<1>9. ASSUME NEW c \in Conn, Accept(c) PROVE RaShape'
  <2>1. UNCHANGED <<link, shut, th, serial, mine, cert_der>>
    BY <1>9 DEF Accept, connVars
  <2> QED
    BY <1>1, <2>1, SameSerials
<1>10. ASSUME NEW c \in Conn, ThreadStep(c) PROVE RaShape'
  <2>1. CASE NextSerial(c) \/ Increment(c)
    BY <2>1, SerialTypes
  <2>2. CASE RequestLost(c) \/ NotFound(c) \/ do_GET(c) \/ DecodeRaises(c) \/ Decode(c)
             \/ Refuse(c) \/ WriteBody(c)
    <3>1. UNCHANGED <<link, mine, serial, cert_der>> /\ shut' \subseteq Conn
      BY <1>1, <2>2 DEF RequestLost, NotFound, do_GET, DecodeRaises, Decode, Refuse, WriteBody, Finish
    <3>2. PICK t \in {"serial", "write", "done"} :
             /\ th' = [th EXCEPT ![c] = t] /\ th[c] \in {"request", "build", "write"}
             /\ t = "serial" => th[c] = "request"
      BY <2>2 DEF RequestLost, NotFound, do_GET, DecodeRaises, Decode, BodyRead, Refuse, WriteBody,
          Finish, Continue
    <3>3. th' \in [Conn -> ThreadPc] /\ th'[c] = t /\ \A d \in Conn : d # c => th'[d] = th[d]
      BY <1>1, <3>2 DEF ThreadPc
    <3>4. \A d \in Conn : \/ th'[d] = th[d]
                          \/ th[d] = "request" /\ th'[d] \in {"serial", "write", "done"}
                          \/ th[d] \in {"build", "write"} /\ th'[d] \in {"write", "done"}
      BY <3>2, <3>3
    <3> QED
      BY <1>1, <3>1, <3>3, <3>4, SameSerials
  <2>3. CASE Issue(c)
    <3>1. /\ UNCHANGED <<link, shut, mine, serial>> /\ th[c] = "build"
          /\ th' = [th EXCEPT ![c] = "write"]
          /\ \A d \in Conn : d # c => cert_der'[d] = cert_der[d]
      <4>1. /\ UNCHANGED <<link, shut, mine, serial>> /\ th[c] = "build"
            /\ th' = [th EXCEPT ![c] = "write"]
        BY <2>3 DEF Issue, Continue
      <4>2. DOMAIN cert_der = Conn
        BY DEF EnrollInv, ConnsOK
      <4>3. \E x : cert_der' = [cert_der EXCEPT ![c] = x]
        BY <2>3, Zenon DEF Issue
      <4> QED
        BY <4>1, <4>2, <4>3
    <3>2. th' \in [Conn -> ThreadPc] /\ th'[c] = "write" /\ \A d \in Conn : d # c => th'[d] = th[d]
      BY <1>1, <3>1 DEF ThreadPc
    <3>3. Counted' = Counted
      BY <3>1, <3>2 DEF Counted
    <3>4. mine[c] # 0
      BY <3>1 DEF RaShape
    <3>5. ASSUME NEW d \in Conn
          PROVE  /\ th'[d] \in {"none", "request", "serial"} => mine'[d] = 0
                 /\ th'[d] \in {"increment", "build"} => mine'[d] # 0
                 /\ cert_der'[d] # <<>> => mine'[d] # 0
      BY <3>1, <3>2, <3>4 DEF RaShape
    <3> QED
      BY <3>1, <3>2, <3>3, <3>5 DEF RaShape
  <2> QED
    BY <1>10, <2>1, <2>2, <2>3 DEF ThreadStep
<1>11. CASE HandshakeEnds \/ ReadEof \/ ClientFails
  BY <1>2, <1>11 DEF HandshakeEnds, ReadEof, ClientFails
<1>12. CASE (StartRequest \/ ParseResponse \/ Cleanup \/ MainStep \/ Reset)
            /\ UNCHANGED <<connVars, raVars>>
  BY <1>2, <1>12
<1>13. CASE UNCHANGED vars
  BY <1>2, <1>13 DEF vars, connVars, raVars
<1> QED
  BY <1>4, <1>5, <1>6, <1>7, <1>8, <1>9, <1>10, <1>11, <1>12, <1>13
     DEF Next, ClientStep, Finished, RaStep

\* The types, without what follows from the other invariants.
LEMMA ShapeInvariant == Spec => [](ClientShape /\ RaShape)
<1>1. Init => ClientShape /\ RaShape
  <2> SUFFICES ASSUME Init PROVE ClientShape /\ RaShape
    OBVIOUS
  <2>1. /\ boots = 1 /\ step = "cacerts" /\ phase = "idle" /\ ret = FALSE /\ resp = <<>> /\ printed = <<>>
        /\ body = [s \in {"cacerts", "enroll"} |-> <<>>]
        /\ link = [c \in Conn |-> "none"] /\ shut = {} /\ serial = 1
        /\ th = [c \in Conn |-> "none"] /\ mine = [c \in Conn |-> 0]
        /\ cert_der = [c \in Conn |-> <<>>]
    BY DEF Init, ClientInit, RaInit
  <2>2. MaxBoots \in 1..255 /\ EST_HTTP_RESPONSE_MAX \in Nat /\ Len(<<>>) = 0
    BY ClientAssumption
  <2>3. 1 \in 1..MaxBoots /\ 0 <= EST_HTTP_RESPONSE_MAX
    BY <2>2
  <2>4. ClientShape
    BY <2>1, <2>2, <2>3 DEF ClientShape, Step, Phase
  <2>5. Counted = {}
    BY <2>1 DEF Counted
  <2>6. serial = 1 + Cardinality(Counted)
    BY <2>1, <2>5, FS_EmptySet
  <2>7. 0 \in 0..MaxConns
    BY RaAssumption
  <2>8. RaShape
    BY <2>1, <2>6, <2>7 DEF RaShape, LinkState, ThreadPc
  <2> QED
    BY <2>4, <2>8
<1>2. ClientShape /\ RaShape /\ WaitInv /\ EnrollInv /\ [Next]_vars => (ClientShape /\ RaShape)'
  <2> SUFFICES ASSUME ClientShape, RaShape, WaitInv, EnrollInv, [Next]_vars
               PROVE  ClientShape' /\ RaShape'
    OBVIOUS
  <2>1. RaShape'
    BY RaTypes
  <2>2. CASE UNCHANGED clientVars
    BY <2>1, <2>2 DEF clientVars, ClientShape
  <2>3. CASE ClientStep \/ ClientFails \/ Reset
    BY <2>1, <2>3, ClientTypes
  <2> QED
    BY <2>2, <2>3 DEF Next, Cut, Finished, vars
<1> QED
  BY <1>1, <1>2, EnrollInvariant, PTL DEF Spec

(***************************************************************************)
(* White space in a text.                                                  *)
(***************************************************************************)

\* Compact of nothing, and of one character more.
LEMMA CompactNone == Compact(<<>>) = <<>>
<1> DEFINE f == [i \in 1..Len(<<>>) |-> IF <<>>[i] = Space THEN <<>> ELSE <<<<>>[i]>>]
<1>1. f = <<>>
  OBVIOUS
<1> HIDE DEF f
<1>2. FlattenSeq(f) = <<>>
  BY <1>1, FlatNone
<1> QED
  BY <1>2 DEF Compact, f

Kept(x) == IF x = Space THEN <<>> ELSE <<x>>

LEMMA KeptType ==
    ASSUME NEW S, NEW x \in S
    PROVE  Kept(x) \in Seq(S)
<1>1. <<x>> \in Seq(S) /\ <<>> \in Seq(S)
  BY SeqSmall, SeqNone
<1> QED
  BY <1>1 DEF Kept

LEMMA CompactMore ==
    ASSUME NEW S, NEW s \in Seq(S), NEW x \in S
    PROVE  /\ Compact(s) \in Seq(S) /\ Append(s, x) \in Seq(S)
           /\ Compact(Append(s, x)) = Compact(s) \o Kept(x)
<1> DEFINE n == Len(s)
           a == Append(s, x)
           f == [i \in 1..n |-> Kept(s[i])]
           g == [i \in 1..(n + 1) |-> Kept(a[i])]
<1>1. n \in Nat
  BY SeqDomain
<1>2. a \in Seq(S) /\ Len(a) = n + 1 /\ a[n + 1] = x /\ \A i \in 1..n : a[i] = s[i]
  BY SeqAppend
<1>3. Compact(s) = FlattenSeq(f)
  BY Zenon DEF Compact, Kept
<1>4. Compact(a) = FlattenSeq(g)
  <2>1. Len(a) = n + 1
    BY <1>2
  <2> HIDE DEF n, a
  <2> QED
    BY <2>1, Zenon DEF Compact, Kept
<1> HIDE DEF n, a
<1>5. \A i \in 1..n : s[i] \in S
  BY SeqElt DEF n
<1>6. f \in [1..n -> Seq(S)] /\ f \in Seq(Seq(S)) /\ Len(f) = n
  <2>1. f \in [1..n -> Seq(S)]
    BY <1>5, KeptType
  <2> HIDE DEF f
  <2> QED
    BY <1>1, <2>1, SeqMake
<1>7. Kept(x) \in Seq(S)
  BY KeptType
<1>8. Append(f, Kept(x)) = g
  <2> DEFINE h == Append(f, Kept(x))
             k == Kept(x)
  <2>1. \A i \in 1..n : f[i] = Kept(s[i])
    OBVIOUS
  <2> HIDE DEF f, k
  <2>2. /\ h \in Seq(Seq(S)) /\ Len(h) = n + 1 /\ h[n + 1] = Kept(x)
        /\ \A i \in 1..n : h[i] = f[i]
    <3>1. k \in Seq(S) /\ f \in Seq(Seq(S)) /\ Len(f) = n /\ h = Append(f, k) /\ k = Kept(x)
      BY <1>6, <1>7 DEF k
    <3> HIDE DEF h
    <3>2. /\ Append(f, k) \in Seq(Seq(S)) /\ Len(Append(f, k)) = Len(f) + 1
          /\ Append(f, k)[Len(f) + 1] = k
          /\ \A i \in 1..Len(f) : Append(f, k)[i] = f[i]
      BY <3>1, SeqAppend
    <3> QED
      BY <3>1, <3>2
  <2>3. \A i \in 1..(n + 1) : a[i] \in S
    BY <1>2, SeqElt
  <2>4. g \in [1..(n + 1) -> Seq(S)] /\ \A i \in 1..(n + 1) : g[i] = Kept(a[i])
    BY <2>3, KeptType
  <2> HIDE DEF g, h
  <2>5. g \in Seq(Seq(S)) /\ Len(g) = n + 1
    <3>1. n + 1 \in Nat
      BY <1>1
    <3> QED
      BY <2>4, <3>1, SeqMake
  <2>6. \A i \in 1..(n + 1) : h[i] = g[i]
    <3> TAKE i \in 1..(n + 1)
    <3>1. i \in 1..n \/ i = n + 1
      BY <1>1
    <3>2. CASE i \in 1..n
      BY <1>2, <2>1, <2>2, <2>4, <3>2
    <3>3. CASE i = n + 1
      BY <1>2, <2>2, <2>4, <3>3
    <3> QED
      BY <3>1, <3>2, <3>3
  <2>7. h = g
    BY <2>2, <2>5, <2>6, SeqSame
  <2> QED
    BY <2>7 DEF h
<1> HIDE DEF f, g
<1>9. FlattenSeq(f) \in Seq(S) /\ FlattenSeq(Append(f, Kept(x))) = FlattenSeq(f) \o Kept(x)
  BY <1>6, <1>7, FlatAppend
<1> QED
  BY <1>2, <1>3, <1>4, <1>8, <1>9 DEF a

\* What it makes is a sequence.
LEMMA CompactType ==
    ASSUME NEW S, NEW r \in Seq(S)
    PROVE  Compact(r) \in Seq(S)
<1>1. CASE r = <<>>
  <2>1. Compact(r) = <<>> /\ <<>> \in Seq(S)
    BY <1>1, CompactNone, SeqNone
  <2> QED
    BY <2>1
<1>2. CASE r # <<>>
  <2>1. PICK x \in S : TRUE
    BY <1>2, SeqTail
  <2> QED
    BY <2>1, CompactMore
<1> QED
  BY <1>1, <1>2

\* Compact takes the white space out of each part by itself,
LEMMA CompactJoin ==
    ASSUME NEW S, NEW s \in Seq(S), NEW t \in Seq(S)
    PROVE  Compact(s \o t) = Compact(s) \o Compact(t)
<1> DEFINE n == Len(t)
           T == {k \in Nat : k <= n => Compact(s \o SubSeq(t, 1, k)) = Compact(s) \o Compact(SubSeq(t, 1, k))}
<1>1. n \in Nat
  BY SeqDomain
<1>2. \A r \in Seq(S) : Compact(r) \in Seq(S)
  BY CompactType
<1>3. 0 \in T
  <2>1. SubSeq(t, 1, 0) = <<>>
    OBVIOUS
  <2>2. s \o <<>> = s /\ Compact(s) \o <<>> = Compact(s)
    BY <1>2, SeqUnit
  <2>3. Compact(s \o SubSeq(t, 1, 0)) = Compact(s) \o Compact(SubSeq(t, 1, 0))
    BY <2>1, <2>2, CompactNone
  <2> QED
    BY <2>3
<1>4. ASSUME NEW k \in 0..n, k \in T, k < n PROVE k + 1 \in T
  <2> DEFINE p == SubSeq(t, 1, k)
             x == t[k + 1]
             q == SubSeq(t, 1, k + 1)
  <2>1. k \in Nat /\ k + 1 \in 1..n /\ k \in 0..n
    BY <1>1, <1>4
  <2>2. Compact(s \o p) = Compact(s) \o Compact(p)
    BY <1>1, <1>4
  <2>3. p \in Seq(S) /\ x \in S
    BY <2>1, SeqCut, SeqElt
  <2>4. q = Append(p, x)
    BY <1>4, <2>1, SeqNext
  <2> HIDE DEF p, x, q, T
  <2>5. s \o p \in Seq(S) /\ s \o Append(p, x) = Append(s \o p, x)
    <3>1. Append(p, x) = p \o <<x>> /\ <<x>> \in Seq(S) /\ s \o p \in Seq(S)
      BY <2>3, SeqAppendConcat, SeqSmall, SeqConcat
    <3>2. Append(s \o p, x) = (s \o p) \o <<x>>
      BY <2>3, <3>1, SeqAppendConcat
    <3>3. (s \o p) \o <<x>> = s \o (p \o <<x>>)
      BY SMTT(60), <2>3, <3>1, SeqAssoc
    <3> QED
      BY <3>1, <3>2, <3>3
  <2>6. Compact(Append(s \o p, x)) = Compact(s \o p) \o Kept(x)
    BY <2>3, <2>5, CompactMore
  <2>7. Compact(Append(p, x)) = Compact(p) \o Kept(x)
    BY <2>3, CompactMore
  <2>8. (Compact(s) \o Compact(p)) \o Kept(x) = Compact(s) \o (Compact(p) \o Kept(x))
    <3>1. Compact(s) \in Seq(S) /\ Compact(p) \in Seq(S) /\ Kept(x) \in Seq(S)
      BY <1>2, <2>3, KeptType
    <3> QED
      BY SMTT(60), <3>1, SeqAssoc
  <2>9. Compact(s \o q) = Compact(s) \o Compact(q)
    BY <2>2, <2>4, <2>5, <2>6, <2>7, <2>8
  <2> QED
    BY <2>1, <2>9 DEF T, q
<1>5. \A k \in 0..n : k \in T
  <2> HIDE DEF T
  <2> QED
    BY <1>1, <1>3, <1>4, NatUpTo
<1>6. Compact(s \o SubSeq(t, 1, n)) = Compact(s) \o Compact(SubSeq(t, 1, n))
  BY <1>1, <1>5
<1>7. SubSeq(t, 1, n) = t
  BY SeqAll
<1> QED
  BY <1>6, <1>7

\* The beginning of what is joined.
LEMMA PartBefore ==
    ASSUME NEW S, NEW s \in Seq(S), NEW t \in Seq(S)
    PROVE  IsPart(s, s \o t)
<1> DEFINE c == s \o t
           n == Len(s)
<1>1. n \in Nat /\ Len(t) \in Nat
  BY SeqDomain
<1>2. c \in Seq(S) /\ Len(c) = n + Len(t) /\ \A i \in 1..n : c[i] = s[i]
  BY SeqConcat
<1> HIDE DEF c, n
<1>3. n \in 0..Len(c)
  BY <1>1, <1>2
<1> DEFINE b == SubSeq(c, 1, n)
<1>4. b \in Seq(S) /\ Len(b) = n /\ \A i \in 1..n : b[i] = c[i]
  BY <1>1, <1>2, <1>3
<1> HIDE DEF b
<1>5. s = b
  BY <1>2, <1>4, SeqSame DEF n
<1> QED
  BY <1>3, <1>5 DEF IsPart, b, c

\* and so of the beginning of a text it makes a beginning.
LEMMA CompactPart ==
    ASSUME NEW S, NEW t \in Seq(S), NEW s, IsPart(s, t)
    PROVE  IsPart(Compact(s), Compact(t))
<1>1. PICK n \in 0..Len(t) : s = SubSeq(t, 1, n)
  BY DEF IsPart
<1> DEFINE r == SubSeq(t, n + 1, Len(t))
<1>2. s \in Seq(S) /\ r \in Seq(S) /\ s \o r = t
  BY <1>1, SeqCut, SeqSplit
<1> HIDE DEF r
<1>3. Compact(t) = Compact(s) \o Compact(r) /\ Compact(s) \in Seq(S) /\ Compact(r) \in Seq(S)
  BY <1>2, CompactJoin, CompactType
<1> QED
  BY <1>3, PartBefore

\* How many lines a text has.
LEMMA LineCount ==
    ASSUME NEW k \in Nat, NEW n, n = (k + LineLen - 1) \div LineLen
    PROVE  n \in Nat /\ n * LineLen >= k /\ \A l \in 1..n : l * LineLen < k + LineLen
<1> DEFINE m == k + LineLen - 1
<1>1. LineLen \in Nat \ {0} /\ m \in Nat /\ n = m \div LineLen
  BY LineAssumption
<1>2. m = k + LineLen - 1
  OBVIOUS
<1> HIDE DEF m
<1>3. n \in Nat /\ n * LineLen <= m /\ m < n * LineLen + LineLen
  BY <1>1
<1>4. n * LineLen \in Nat
  BY <1>1, <1>3
<1> DEFINE z == n * LineLen
<1>5. z >= k
  BY <1>1, <1>2, <1>3, <1>4
<1>6. ASSUME NEW l \in 1..n PROVE l * LineLen < k + LineLen
  <2>1. \A a \in Nat, b \in Nat, c \in Nat : a <= b => a * c <= b * c
    OBVIOUS
  <2>2. l \in Nat /\ l <= n
    BY <1>3
  <2>3. l * LineLen <= n * LineLen /\ l * LineLen \in Nat
    BY <1>1, <1>3, <2>1, <2>2
  <2> DEFINE y == l * LineLen
  <2> HIDE DEF y, z
  <2>4. y <= z /\ y \in Nat /\ z \in Nat /\ z <= m
    BY <1>3, <1>4, <2>3 DEF y, z
  <2>5. y < k + LineLen
    BY <1>1, <1>2, <2>4
  <2> QED
    BY <2>5 DEF y
<1> QED
  BY <1>3, <1>5, <1>6

\* The text up to the end of line l.
LineEnd(text, l) == IF l * LineLen < Len(text) THEN l * LineLen ELSE Len(text)

LEMMA LineEnds ==
    ASSUME NEW text \in Seq(Symbols), NEW n, n = (Len(text) + LineLen - 1) \div LineLen
    PROVE  /\ n \in Nat /\ LineEnd(text, 0) = 0 /\ LineEnd(text, n) = Len(text)
           /\ \A l \in 1..n : /\ LineEnd(text, l - 1) = (l - 1) * LineLen
                              /\ LineEnd(text, l - 1) \in 0..Len(text)
                              /\ LineEnd(text, l) \in LineEnd(text, l - 1)..Len(text)
<1> DEFINE k == Len(text)
<1>1. k \in Nat /\ LineLen \in Nat \ {0}
  BY SeqDomain, LineAssumption
<1> HIDE DEF k
<1>2. n \in Nat /\ n * LineLen >= k /\ \A l \in 1..n : l * LineLen < k + LineLen
  BY <1>1, LineCount DEF k
<1>3. LineEnd(text, 0) = 0
  BY <1>1 DEF LineEnd, k
<1>4. LineEnd(text, n) = k
  <2>1. n * LineLen \in Nat
    BY <1>1, <1>2
  <2> QED
    BY <1>1, <1>2, <2>1 DEF LineEnd, k
<1>5. ASSUME NEW l \in 1..n
      PROVE  /\ LineEnd(text, l - 1) = (l - 1) * LineLen
             /\ LineEnd(text, l - 1) \in 0..k
             /\ LineEnd(text, l) \in LineEnd(text, l - 1)..k
  <2> DEFINE y == l * LineLen
             z == (l - 1) * LineLen
  <2>1. y \in Nat /\ z \in Nat /\ y = z + LineLen /\ y < k + LineLen
    <3>1. l \in Nat /\ l - 1 \in Nat
      BY <1>2
    <3> QED
      BY <1>1, <1>2, <3>1
  <2> HIDE DEF y, z
  <2>2. z < k
    BY <1>1, <2>1
  <2>3. LineEnd(text, l - 1) = z
    BY <2>2 DEF LineEnd, k, z
  <2>4. LineEnd(text, l) = IF y < k THEN y ELSE k
    BY DEF LineEnd, k, y
  <2>5. LineEnd(text, l) \in z..k
    BY <1>1, <2>1, <2>2, <2>4
  <2> QED
    BY <1>1, <2>1, <2>2, <2>3, <2>5 DEF z
<1> QED
  BY <1>2, <1>3, <1>4, <1>5 DEF k

\* Without the line breaks it is the text.
LEMMA LinesCompact ==
    ASSUME NEW text \in Seq(Symbols), \A i \in 1..Len(text) : text[i] # Space
    PROVE  LineBreaks(text) \in Seq(Symbols) /\ Compact(LineBreaks(text)) = text
<1> DEFINE n == (Len(text) + LineLen - 1) \div LineLen
           two == <<Space, Space>>
           seg(l) == SubSeq(text, (l - 1) * LineLen + 1, LineEnd(text, l))
           f == [l \in 1..n |-> seg(l) \o two]
           T == {k \in Nat : k <= n => Compact(FlattenSeq(SubSeq(f, 1, k)))
                                        = SubSeq(text, 1, LineEnd(text, k))}
<1>1. /\ n \in Nat /\ LineEnd(text, 0) = 0 /\ LineEnd(text, n) = Len(text)
      /\ \A l \in 1..n : /\ LineEnd(text, l - 1) = (l - 1) * LineLen
                         /\ LineEnd(text, l - 1) \in 0..Len(text)
                         /\ LineEnd(text, l) \in LineEnd(text, l - 1)..Len(text)
  BY LineEnds
<1>2. LineBreaks(text) = FlattenSeq(f)
  BY Zenon DEF LineBreaks, LineEnd
<1> HIDE DEF n
<1>3. two \in Seq(Symbols) /\ Compact(two) = <<>>
  <2>1. Space \in Symbols
    BY SymbolType, SeqNone DEF Space, Kinds
  <2>2. two \in Seq(Symbols)
    BY <2>1, SeqSmall
  <2> DEFINE one == <<Space>>
  <2>3. one \in Seq(Symbols) /\ <<>> \in Seq(Symbols) /\ one = Append(<<>>, Space)
        /\ two = Append(one, Space)
    BY <2>1, SeqSmall, SeqNone
  <2>4. Kept(Space) = <<>>
    BY DEF Kept
  <2> HIDE DEF one, two
  <2>5. \A s \in Seq(Symbols) : Compact(Append(s, Space)) = Compact(s)
    <3> TAKE s \in Seq(Symbols)
    <3>1. Compact(Append(s, Space)) = Compact(s) \o Kept(Space) /\ Compact(s) \in Seq(Symbols)
      BY <2>1, CompactMore
    <3>2. Compact(s) \o <<>> = Compact(s)
      BY <3>1, SeqUnit
    <3> QED
      BY <2>4, <3>1, <3>2
  <2>6. Compact(two) = Compact(one) /\ Compact(one) = Compact(<<>>)
    BY <2>3, <2>5
  <2> QED
    BY <2>2, <2>6, CompactNone
<1> HIDE DEF two
<1>4. ASSUME NEW l \in 1..n
      PROVE  /\ seg(l) \in Seq(Symbols) /\ Compact(seg(l)) = seg(l)
             /\ SubSeq(text, 1, LineEnd(text, l - 1)) \in Seq(Symbols)
             /\ SubSeq(text, 1, LineEnd(text, l - 1)) \o seg(l) = SubSeq(text, 1, LineEnd(text, l))
  <2> DEFINE a == LineEnd(text, l - 1)
             b == LineEnd(text, l)
             s == SubSeq(text, a + 1, b)
  <2>1. a = (l - 1) * LineLen /\ a \in 0..Len(text) /\ b \in a..Len(text) /\ Len(text) \in Nat
    BY <1>1, SeqDomain
  <2>2. seg(l) = s
    BY <2>1
  <2> HIDE DEF a, b, seg
  <2>3. a + 1 \in Nat /\ a + 1 >= 1 /\ b \in Nat /\ b <= Len(text) /\ a + 1 <= b + 1 /\ a \in Nat
    BY <2>1
  <2>4. /\ s \in Seq(Symbols) /\ Len(s) = b + 1 - (a + 1)
        /\ \A i \in 1..(b + 1 - (a + 1)) : s[i] = text[(a + 1) + i - 1]
    BY <2>3, SeqSegment
  <2>5. \A i \in 1..(b + 1 - (a + 1)) : (a + 1) + i - 1 \in 1..Len(text)
    BY SMTT(60), <2>1, <2>3
  <2> HIDE DEF s
  <2>6. Compact(s) = s
    <3>1. \A i \in 1..Len(s) : s[i] # Space
      BY <2>4, <2>5
    <3> QED
      BY <2>4, <3>1, CompactSame
  <2>7. SubSeq(text, 1, a) \o s = SubSeq(text, 1, b) /\ SubSeq(text, 1, a) \in Seq(Symbols)
    BY <2>1, SegmentsJoin, SeqCut DEF s
  <2> QED
    BY <2>2, <2>4, <2>6, <2>7 DEF a, b
<1> HIDE DEF seg
<1>5. f \in Seq(Seq(Symbols)) /\ Len(f) = n /\ \A l \in 1..n : f[l] = seg(l) \o two
  <2>1. f \in [1..n -> Seq(Symbols)] /\ \A l \in 1..n : f[l] = seg(l) \o two
    BY <1>3, <1>4, SeqConcat
  <2> HIDE DEF f
  <2> QED
    BY <1>1, <2>1, SeqMake
<1> HIDE DEF f
<1>6. \A g \in Seq(Seq(Symbols)) : FlattenSeq(g) \in Seq(Symbols)
  <2>1. <<>> \in Seq(Symbols)
    BY SeqNone
  <2> QED
    BY <2>1, FlatAppend
<1>7. 0 \in T
  <2>1. SubSeq(f, 1, 0) = <<>> /\ SubSeq(text, 1, 0) = <<>>
    BY <1>5
  <2>2. Compact(FlattenSeq(SubSeq(f, 1, 0))) = SubSeq(text, 1, LineEnd(text, 0))
    BY <1>1, <2>1, FlatNone, CompactNone
  <2> QED
    BY <2>2
<1>8. ASSUME NEW k \in 0..n, k \in T, k < n PROVE k + 1 \in T
  <2> DEFINE g == SubSeq(f, 1, k)
             s == seg(k + 1)
             line == s \o two
             e == SubSeq(text, 1, LineEnd(text, k))
  <2>1. k \in Nat /\ k + 1 \in 1..n /\ k \in 0..Len(f) /\ (k + 1) - 1 = k /\ k < Len(f)
    BY <1>1, <1>5, <1>8
  <2>2. Compact(FlattenSeq(g)) = e
    BY <1>1, <1>8
  <2>3. Append(g, f[k + 1]) = SubSeq(f, 1, k + 1)
    BY <1>5, <2>1, SeqNext
  <2>4. f[k + 1] = line
    BY <1>5, <2>1
  <2>5. /\ s \in Seq(Symbols) /\ Compact(s) = s /\ e \in Seq(Symbols)
        /\ e \o s = SubSeq(text, 1, LineEnd(text, k + 1))
    BY <1>4, <2>1
  <2>6. g \in Seq(Seq(Symbols))
    BY <1>5, <2>1, SeqCut
  <2> HIDE DEF T, g, s, e
  <2>7. line \in Seq(Symbols)
    BY <1>3, <2>5, SeqConcat
  <2>8. Compact(line) = s
    <3>1. Compact(line) = Compact(s) \o Compact(two)
      BY <1>3, <2>5, CompactJoin
    <3>2. s \o <<>> = s
      BY <2>5, SeqUnit
    <3> QED
      BY <1>3, <2>5, <3>1, <3>2
  <2> HIDE DEF line
  <2>9. FlattenSeq(g) \in Seq(Symbols) /\ FlattenSeq(Append(g, line)) = FlattenSeq(g) \o line
    BY <2>6, <2>7, FlatAppend
  <2>10. Compact(FlattenSeq(g) \o line) = e \o s
    BY <2>2, <2>7, <2>8, <2>9, CompactJoin
  <2>11. Compact(FlattenSeq(SubSeq(f, 1, k + 1))) = SubSeq(text, 1, LineEnd(text, k + 1))
    BY <2>3, <2>4, <2>5, <2>9, <2>10
  <2> QED
    BY <2>1, <2>11 DEF T
<1>9. \A k \in 0..n : k \in T
  <2> HIDE DEF T
  <2> QED
    BY <1>1, <1>7, <1>8, NatUpTo
<1>10. Compact(FlattenSeq(SubSeq(f, 1, n))) = SubSeq(text, 1, LineEnd(text, n))
  BY <1>1, <1>9
<1>11. SubSeq(f, 1, n) = f /\ SubSeq(text, 1, Len(text)) = text
  BY <1>5, SeqAll
<1>12. Compact(FlattenSeq(f)) = text
  BY <1>1, <1>10, <1>11
<1> QED
  BY <1>2, <1>5, <1>6, <1>12

\* What main makes of a body that was cut: a beginning of the bytes.
LEMMA BodyPart ==
    ASSUME NEW der \in Seq(Nat), NEW s, IsPart(s, LineBreaks(Base64(der))), Decodes(Compact(s))
    PROVE  IsPart(Decoded(Compact(s)), der)
<1> DEFINE B == Base64(der)
           c == Compact(s)
<1>1. /\ B \in Seq(Symbols) /\ Len(B) \in Nat
      /\ \A i \in 1..Len(B) : B[i] = Symbol("digit", (i - 1) % 4, GroupBytes(der, (i - 1) \div 4))
  BY TextType
<1> HIDE DEF B
<1>2. \A i \in 1..Len(B) : B[i] # Space
  <2>1. \A v, b : Symbol("digit", v, b) # Space
    BY DEF Symbol, Space
  <2> QED
    BY <1>1, <2>1
<1>3. LineBreaks(B) \in Seq(Symbols) /\ Compact(LineBreaks(B)) = B
  BY <1>1, <1>2, LinesCompact
<1>4. IsPart(c, B)
  <2>1. IsPart(s, LineBreaks(B))
    BY DEF B
  <2>2. IsPart(Compact(s), Compact(LineBreaks(B)))
    BY <1>3, <2>1, CompactPart
  <2> QED
    BY <1>3, <2>2
<1>5. Compact(c) = c
  <2>1. PICK n \in 0..Len(B) : c = SubSeq(B, 1, n)
    BY <1>4 DEF IsPart
  <2> HIDE DEF c
  <2>2. n \in Nat /\ c \in Seq(Symbols) /\ Len(c) = n /\ \A i \in 1..n : c[i] = B[i]
    BY <1>1, <2>1
  <2>3. \A i \in 1..Len(c) : c[i] # Space
    BY <1>1, <1>2, <2>1, <2>2
  <2> QED
    BY <2>2, <2>3, CompactSame
<1> HIDE DEF c
<1>6. Decodes(Compact(c))
  BY <1>5 DEF c
<1>7. IsPart(Decoded(Compact(c)), der)
  BY <1>4, <1>6, DecodedPart DEF B
<1> QED
  BY <1>5, <1>7 DEF c

(***************************************************************************)
(* What is printed.                                                        *)
(***************************************************************************)

\* What the RA answers to a request for which it has made the certificate ct, and
\* the part of it that main decodes.
Page       == <<Status(200), Split>>
BodyOf(ct) == LineBreaks(Base64(cert_der_to_pkcs7(ct)))
Answer(ct) == Page \o BodyOf(ct)

\* Of a connection in state l, whose thread is at t and has made the certificate ct,
\* the board has read, and may read without a further step of the thread, w: nothing,
\* or a part of the answer, of which the headers are whole as long as they can be.
Reading(l, t, ct, w) ==
    /\ t \notin {"write", "done"} => w = <<>>
    /\ ct # <<>> /\ t = "write" => IsPart(w, Page) /\ (l = "tls" => w = Page)
    /\ ct # <<>> /\ t = "done" => IsPart(w, Answer(ct))

\* A certificate is made for the request, with the serial, of its thread.
MadeOK ==
    \A c \in Conn : cert_der[c] # <<>> =>
        cert_der[c] = build_mldsa44_certificate(csr_der[c], mine[c])

ReadingOK ==
    step = "enroll" /\ phase \in Under =>
        Reading(link[conn], th[conn], cert_der[conn], resp \o s2c[conn])

\* What was taken for a success leaves a part of the body in g_enroll_buf.
BodyOK ==
    (step = "enroll" /\ phase = "cleanup" /\ ret) \/ step = "extract" =>
        IsPart(body["enroll"], BodyOf(cert_der[conn]))

PrintInv == MadeOK /\ ReadingOK /\ BodyOK /\ PrintedIsIssued

LEMMA GoodAssoc ==
    \A r \in Seq(Good), s \in Seq(Good), t \in Seq(Good) : r \o (s \o t) = (r \o s) \o t
<1> TAKE r \in Seq(Good), s \in Seq(Good), t \in Seq(Good)
<1> QED
  BY SeqAssoc

LEMMA AnswerType ==
    ASSUME NEW ct \in Seq(Nat), ct # <<>>
    PROVE  Page \in Seq(Good) /\ BodyOf(ct) \in Seq(Good) /\ Answer(ct) \in Seq(Good)
<1>1. Page \in Seq(Good)
  BY OkSent DEF Page
<1>2. BodyOf(ct) \in Seq(Good)
  <2> DEFINE p == IF ct = <<>> THEN CacertsDer ELSE cert_der_to_pkcs7(ct)
  <2>1. LineBreaks(Base64(p)) \in Seq(Good)
    BY BodyGood
  <2>2. p = cert_der_to_pkcs7(ct)
    OBVIOUS
  <2> HIDE DEF p
  <2> QED
    BY <2>1, <2>2 DEF BodyOf
<1>3. Page \o BodyOf(ct) \in Seq(Good)
  BY <1>1, <1>2, SeqConcat
<1> QED
  BY <1>1, <1>2, <1>3 DEF Answer

\* A part of the headers is a part of the answer, and an answer of which nothing
\* is there yet is a part of it, too.
LEMMA PagePart ==
    ASSUME NEW ct \in Seq(Nat), ct # <<>>, NEW w, IsPart(w, Page)
    PROVE  IsPart(w, Answer(ct))
<1>1. Page \in Seq(Good) /\ BodyOf(ct) \in Seq(Good) /\ Answer(ct) \in Seq(Good)
      /\ Answer(ct) = Page \o BodyOf(ct)
  BY AnswerType DEF Answer
<1>2. IsPart(Page, Answer(ct))
  BY <1>1, PartBefore
<1>3. PICK n \in 0..Len(Page) : w = SubSeq(Page, 1, n)
  BY DEF IsPart
<1>4. IsPart(SubSeq(Page, 1, n), Answer(ct))
  BY <1>1, <1>2, PartOfPart
<1> QED
  BY <1>3, <1>4

\* A connection that breaks leaves a part.
LEMMA ReadingCut ==
    ASSUME NEW l, NEW t, NEW ct \in Seq(Nat), NEW w \in Seq(Good), Reading(l, t, ct, w),
           NEW n \in 0..Len(w)
    PROVE  Reading("cut", t, ct, SubSeq(w, 1, n))
<1>1. t \notin {"write", "done"} => SubSeq(w, 1, n) = <<>>
  <2> SUFFICES ASSUME t \notin {"write", "done"} PROVE SubSeq(w, 1, n) = <<>>
    OBVIOUS
  <2>1. w = <<>> /\ Len(<<>>) = 0
    BY DEF Reading
  <2>2. n = 0
    BY <2>1
  <2> QED
    BY <2>1, <2>2
<1>2. ct # <<>> /\ t = "write" => IsPart(SubSeq(w, 1, n), Page)
  <2> SUFFICES ASSUME ct # <<>>, t = "write" PROVE IsPart(SubSeq(w, 1, n), Page)
    OBVIOUS
  <2>1. IsPart(w, Page) /\ Page \in Seq(Good)
    BY AnswerType DEF Reading
  <2> QED
    BY <2>1, PartOfPart
<1>3. ct # <<>> /\ t = "done" => IsPart(SubSeq(w, 1, n), Answer(ct))
  <2> SUFFICES ASSUME ct # <<>>, t = "done" PROVE IsPart(SubSeq(w, 1, n), Answer(ct))
    OBVIOUS
  <2>1. IsPart(w, Answer(ct)) /\ Answer(ct) \in Seq(Good)
    BY AnswerType DEF Reading
  <2> QED
    BY <2>1, PartOfPart
<1> QED
  BY <1>1, <1>2, <1>3 DEF Reading

\* The headers of the answer are sent, or are lost,
LEMMA ReadingIssue ==
    ASSUME NEW l, NEW ct2 \in Seq(Nat), ct2 # <<>>, NEW r \in Seq(Good), NEW dn \in Seq(Good),
           r \o dn = <<>>, NEW dn2, dn2 = IF l = "tls" THEN dn \o Page ELSE dn
    PROVE  Reading(l, "write", ct2, r \o dn2)
<1>1. Page \in Seq(Good)
  BY AnswerType
<1>2. IsPart(<<>>, Page) /\ IsPart(Page, Page)
  <2>1. IsPart(<<>>, Page)
    BY <1>1, NonePart
  <2>2. IsPart(Page, Page)
    BY <1>1, WholePart
  <2> QED
    BY <2>1, <2>2
<1>3. l = "tls" => r \o dn2 = Page
  <2> SUFFICES ASSUME l = "tls" PROVE r \o dn2 = Page
    OBVIOUS
  <2>1. r \o (dn \o Page) = (r \o dn) \o Page
    BY <1>1, GoodAssoc, Zenon
  <2>2. <<>> \o Page = Page
    BY <1>1, SeqUnit
  <2> QED
    BY <2>1, <2>2
<1>4. l # "tls" => r \o dn2 = <<>>
  OBVIOUS
<1> QED
  BY <1>2, <1>3, <1>4, Zenon DEF Reading

\* and so is the body.
LEMMA ReadingWrite ==
    ASSUME NEW l, NEW ct \in Seq(Nat), ct # <<>>, NEW r \in Seq(Good), NEW dn \in Seq(Good),
           Reading(l, "write", ct, r \o dn),
           NEW dn2, dn2 = IF l = "tls" THEN dn \o BodyOf(ct) ELSE dn
    PROVE  Reading(l, "done", ct, r \o dn2)
<1>1. /\ Page \in Seq(Good) /\ BodyOf(ct) \in Seq(Good) /\ Answer(ct) \in Seq(Good)
      /\ Answer(ct) = Page \o BodyOf(ct)
  BY AnswerType DEF Answer
<1>2. IsPart(r \o dn, Page) /\ (l = "tls" => r \o dn = Page)
  BY DEF Reading
<1> DEFINE b == BodyOf(ct)
           e == Answer(ct)
<1>3. b \in Seq(Good) /\ Page \in Seq(Good) /\ e \in Seq(Good) /\ e = Page \o b
      /\ dn2 = IF l = "tls" THEN dn \o b ELSE dn
  BY <1>1
<1>4. IsPart(r \o dn, e)
  BY <1>2, PagePart
<1> HIDE DEF b, e
<1>5. IsPart(r \o dn2, e)
  <2>1. CASE l = "tls"
    <3>1. r \o (dn \o b) = (r \o dn) \o b
      BY <1>3, GoodAssoc, ZenonT(60)
    <3>2. dn2 = dn \o b /\ r \o dn = Page
      BY <1>2, <1>3, <2>1
    <3>3. r \o dn2 = e
      BY <1>3, <3>1, <3>2
    <3>4. IsPart(e, e)
      BY <1>3, WholePart
    <3> QED
      BY <3>3, <3>4
  <2>2. CASE l # "tls"
    BY <1>3, <1>4, <2>2
  <2> QED
    BY <2>1, <2>2
<1> QED
  BY <1>5, Zenon DEF Reading, e

\* What ParseResponse stores is a part of the body.
LEMMA ParsedPart ==
    ASSUME NEW ct \in Seq(Nat), ct # <<>>, NEW buf, IsPart(buf, Answer(ct)), IsSuccess(buf)
    PROVE  IsPart(From(buf, find_header_body_split(buf) + 1), BodyOf(ct))
<1> DEFINE A == Answer(ct)
           B == BodyOf(ct)
           P == Page
           k == find_header_body_split(buf)
           I == {i \in 1..Len(buf) : buf[i] = Split}
<1>1. P \in Seq(Good) /\ B \in Seq(Good) /\ A \in Seq(Good) /\ A = P \o B
  BY AnswerType DEF Answer
<1>2. Len(P) = 2 /\ P[1] = Status(200) /\ P[2] = Split
  BY DEF Page
<1>3. Status(200) # Split
  BY DEF Status, Split, Symbol
<1>4. IsPart(buf, A) /\ IsSuccess(buf)
  OBVIOUS
<1> HIDE DEF A, B, P
<1>5. Len(A) = 2 + Len(B) /\ A[1] = P[1] /\ A[2] = P[2] /\ Len(B) \in Nat
      /\ \A i \in 1..Len(B) : A[2 + i] = B[i]
  <2>1. Len(B) \in Nat /\ 1 \in 1..Len(P) /\ 2 \in 1..Len(P)
    BY <1>1, <1>2, SeqDomain
  <2>2. Len(A) = Len(P) + Len(B) /\ (\A i \in 1..Len(P) : A[i] = P[i])
        /\ \A i \in 1..Len(B) : A[Len(P) + i] = B[i]
    <3>1. /\ Len(P \o B) = Len(P) + Len(B) /\ (\A i \in 1..Len(P) : (P \o B)[i] = P[i])
          /\ \A i \in 1..Len(B) : (P \o B)[Len(P) + i] = B[i]
      BY <1>1, SeqConcat
    <3> QED
      BY <1>1, <3>1
  <2> QED
    BY <1>2, <2>1, <2>2
<1>6. PICK n \in 0..Len(A) : buf = SubSeq(A, 1, n)
  BY <1>4 DEF IsPart
<1>7. n \in Nat /\ n <= 2 + Len(B) /\ buf \in Seq(Good) /\ Len(buf) = n
      /\ \A i \in 1..n : buf[i] = A[i]
  BY <1>1, <1>5, <1>6
<1>8. k = IF I # {} THEN Min(I) ELSE 0
  BY Zenon DEF find_header_body_split, SelectInSeq
<1>9. k # 0
  BY <1>4 DEF IsSuccess
<1> HIDE DEF k
<1>10. PICK i \in 1..n : buf[i] = Split
  BY <1>7, <1>8, <1>9
<1>11. i # 1 /\ n >= 2
  <2>1. i = 1 => buf[i] = Status(200)
    BY <1>2, <1>5, <1>7
  <2>2. i # 1
    BY <1>3, <1>10, <2>1
  <2> QED
    BY <1>7, <2>2
<1>12. 2 \in I /\ \A j \in I : 2 <= j
  <2>1. 1 \in 1..n /\ 2 \in 1..n
    BY <1>7, <1>11
  <2>2. buf[1] = Status(200) /\ buf[2] = Split
    BY <1>2, <1>5, <1>7, <2>1
  <2>3. 2 \in I
    BY <1>7, <2>1, <2>2
  <2>4. ASSUME NEW j \in I PROVE 2 <= j
    <3>1. j \in 1..n /\ buf[j] = Split
      BY <1>7
    <3>2. j # 1
      BY <1>3, <2>2, <3>1
    <3> QED
      BY <1>7, <3>1, <3>2
  <2> QED
    BY <2>3, <2>4
<1>13. I \subseteq Nat
  OBVIOUS
<1> HIDE DEF I
<1>14. k = 2
  <2> DEFINE m == Min(I)
  <2>1. m \in I /\ \A j \in I : m <= j
    <3>1. \E x \in I : \A y \in I : x <= y
      BY <1>12
    <3> QED
      BY <3>1, Zenon DEF Min
  <2> HIDE DEF m
  <2>2. m <= 2 /\ 2 <= m /\ m \in Nat
    BY <1>12, <1>13, <2>1
  <2>3. m = 2
    BY <2>2
  <2> QED
    BY <1>8, <1>12, <2>3 DEF m
<1> DEFINE f == SubSeq(buf, 3, n)
           b == SubSeq(B, 1, n - 2)
<1>15. f \in Seq(Good) /\ Len(f) = n - 2 /\ \A j \in 1..(n - 2) : f[j] = buf[2 + j]
  <2>1. 3 \in Nat /\ 3 >= 1 /\ 3 <= n + 1 /\ n <= Len(buf) /\ n + 1 - 3 = n - 2
        /\ \A j \in 1..(n - 2) : 3 + j - 1 = 2 + j
    BY <1>7, <1>11
  <2> HIDE DEF f
  <2>2. /\ f \in Seq(Good) /\ Len(f) = n + 1 - 3
        /\ \A j \in 1..(n + 1 - 3) : f[j] = buf[3 + j - 1]
    BY <1>7, <2>1, SeqSegment DEF f
  <2> QED
    BY <2>1, <2>2
<1>16. n - 2 \in 0..Len(B) /\ b \in Seq(Good) /\ Len(b) = n - 2
       /\ \A j \in 1..(n - 2) : b[j] = B[j]
  <2> DEFINE q == n - 2
  <2>1. q \in Nat /\ q \in 0..Len(B) /\ q <= Len(B)
    BY <1>5, <1>7, <1>11
  <2> HIDE DEF q
  <2>2. /\ SubSeq(B, 1, q) \in Seq(Good) /\ Len(SubSeq(B, 1, q)) = q
        /\ \A j \in 1..q : SubSeq(B, 1, q)[j] = B[j]
    BY SMTT(60), <1>1, <1>5, <2>1
  <2> QED
    BY <2>1, <2>2 DEF q
<1> HIDE DEF f, b
<1>17. f = b
  <2>1. \A j \in 1..(n - 2) : f[j] = b[j]
    <3> TAKE j \in 1..(n - 2)
    <3>1. j \in 1..Len(B) /\ 2 + j \in 1..n
      BY <1>5, <1>7, <1>11
    <3> QED
      BY <1>5, <1>7, <1>15, <1>16, <3>1
  <2> QED
    BY <1>15, <1>16, <2>1, SeqSame
<1>18. From(buf, k + 1) = f
  BY <1>7, <1>14 DEF From, f
<1> QED
  BY <1>16, <1>17, <1>18 DEF IsPart, b, B, k

\* A success is a part of the answer.
LEMMA SuccessPart ==
    ASSUME NEW l, NEW t, NEW ct \in Seq(Nat), ct # <<>>, NEW r \in Seq(Good), NEW dn \in Seq(Good),
           Reading(l, t, ct, r \o dn), r # <<>>
    PROVE  IsPart(r, Answer(ct))
<1> DEFINE w == r \o dn
           n == Len(r)
<1>1. w \in Seq(Good) /\ w # <<>> /\ n \in 0..Len(w)
  <2>1. n \in Nat /\ Len(dn) \in Nat /\ w \in Seq(Good) /\ Len(w) = n + Len(dn)
    BY SeqDomain, SeqConcat
  <2>2. w # <<>>
    BY SeqLonger
  <2> HIDE DEF w, n
  <2> QED
    BY <2>1, <2>2
<1>2. r = SubSeq(w, 1, n)
  <2>1. IsPart(r, w) /\ \A i \in 1..n : w[i] = r[i]
    BY PartBefore, SeqConcat
  <2> HIDE DEF w
  <2> DEFINE u == SubSeq(w, 1, n)
  <2>2. u \in Seq(Good) /\ Len(u) = n /\ \A i \in 1..n : u[i] = w[i]
    BY <1>1
  <2> HIDE DEF u
  <2>3. r = u
    BY <2>1, <2>2, SeqSame
  <2> QED
    BY <2>3 DEF u
<1> HIDE DEF w, n
<1>3. IsPart(w, Answer(ct))
  <2>1. t \in {"write", "done"} /\ Reading(l, t, ct, w)
    BY <1>1 DEF Reading, w
  <2>2. CASE t = "write"
    BY <2>1, <2>2, PagePart DEF Reading
  <2>3. CASE t = "done"
    BY <2>1, <2>3 DEF Reading
  <2> QED
    BY <2>1, <2>2, <2>3
<1>4. IsPart(SubSeq(w, 1, n), Answer(ct))
  <2>1. Answer(ct) \in Seq(Good)
    BY AnswerType
  <2> QED
    BY <1>1, <1>3, <2>1, PartOfPart
<1> QED
  BY <1>2, <1>4

\* What the other invariants say of the connection the board uses.
LEMMA ConnHere ==
    ASSUME EnrollInv, NEW c \in Conn
    PROVE  /\ s2c[c] \in Seq(Good) /\ cert_der[c] \in Seq(Nat) /\ resp \in Seq(Good)
           /\ resp \o s2c[c] \in Seq(Good)
           /\ cert_der[c] # <<>> => th[c] \in {"write", "done"}
<1>1. ConnFact(aps, boots, link[c], th[c], c2s[c], s2c[c], csr_der[c], cert_der[c])
      /\ resp \in Seq(Good)
  BY DEF EnrollInv, ConnsOK, ConnOK, BoardOK
<1>2. s2c[c] \in Seq(Good) /\ cert_der[c] \in Seq(Nat) /\ resp \in Seq(Good)
      /\ (cert_der[c] # <<>> => th[c] \in {"write", "done"})
  BY <1>1 DEF ConnFact
<1>3. resp \o s2c[c] \in Seq(Good)
  BY <1>2, SeqConcat
<1> QED
  BY <1>2, <1>3

\* ParseResponse leaves a part of the body.
LEMMA ParsePrint ==
    ASSUME ClientShape, WaitInv, EnrollInv, EnrollInv', PrintInv, ParseResponse,
           UNCHANGED <<connVars, raVars>>, step = "enroll", ret'
    PROVE  IsPart(body'["enroll"], BodyOf(cert_der[conn]))
<1>1. /\ phase = "parse" /\ phase' = "cleanup" /\ ret' = IsSuccess(resp)
      /\ body' = IF IsSuccess(resp)
                 THEN [body EXCEPT ![step] = From(resp, find_header_body_split(resp) + 1)]
                 ELSE body
      /\ UNCHANGED <<step, conn>>
  BY DEF ParseResponse, Return, Enter
<1>2. IsSuccess(resp) /\ cert_der' = cert_der
  BY <1>1 DEF raVars
<1>3. conn \in Conn /\ cert_der[conn] # <<>>
  BY <1>1, <1>2 DEF EnrollInv, ResponseOK
<1>4. Reading(link[conn], th[conn], cert_der[conn], resp \o s2c[conn])
  BY <1>1 DEF PrintInv, ReadingOK, Under
<1>5. cert_der[conn] \in Seq(Nat) /\ resp \in Seq(Good) /\ s2c[conn] \in Seq(Good) /\ resp # <<>>
  BY <1>2, <1>3, ConnHere DEF IsSuccess
<1>6. IsPart(resp, Answer(cert_der[conn]))
  BY <1>3, <1>4, <1>5, SuccessPart
<1>7. IsPart(From(resp, find_header_body_split(resp) + 1), BodyOf(cert_der[conn]))
  BY <1>2, <1>3, <1>5, <1>6, ParsedPart
<1>8. body'["enroll"] = From(resp, find_header_body_split(resp) + 1)
  <2>1. DOMAIN body = {"cacerts", "enroll"}
    BY DEF ClientShape
  <2> QED
    BY <1>1, <1>2, <2>1
<1> QED
  BY <1>7, <1>8

\* The steps of the board without the network, except Extract.
LEMMA AlonePrint ==
    ASSUME ClientShape, WaitInv, EnrollInv, EnrollInv', PrintInv, UNCHANGED <<connVars, raVars>>,
           \/ StartRequest \/ ParseResponse \/ Cleanup \/ BuildCsr \/ SelfTest
           \/ RequestFails \/ CsrFails \/ ReadEnd \/ Reset
    PROVE  PrintInv'
<1>1. UNCHANGED <<link, s2c, th, csr_der, mine, cert_der>>
  BY DEF connVars, raVars
<1>2. conn' = conn
  BY DEF StartRequest, ParseResponse, Cleanup, BuildCsr, SelfTest, RequestFails, CsrFails, ReadEnd, Reset
<1>3. /\ phase # "idle" => step \in {"cacerts", "enroll"}
      /\ printed # <<>> => step \in {"selftest", "finished"}
  BY DEF ClientShape, WaitInv, RequestOK
<1>4. MadeOK'
  BY <1>1 DEF PrintInv, MadeOK
<1>5. PrintedIsIssued'
  <2>1. printed' # <<>> => printed' = printed /\ csr' = csr
    BY <1>3 DEF StartRequest, ParseResponse, Cleanup, BuildCsr, SelfTest, RequestFails, CsrFails,
        ReadEnd, Reset
  <2> QED
    BY <1>1, <2>1 DEF PrintInv, PrintedIsIssued
<1>6. ReadingOK'
  <2>1. step' = "enroll" /\ phase' \in Under =>
           phase = "read" /\ step = "enroll" /\ resp' = resp
    BY <1>3 DEF StartRequest, ParseResponse, Return, Cleanup, BuildCsr, SelfTest, RequestFails,
        CsrFails, ReadEnd, Reset, Enter, Under
  <2> QED
    BY <1>1, <1>2, <2>1 DEF PrintInv, ReadingOK, Under
<1>7. BodyOK'
  <2> SUFFICES ASSUME (step' = "enroll" /\ phase' = "cleanup" /\ ret') \/ step' = "extract"
               PROVE  IsPart(body'["enroll"], BodyOf(cert_der[conn]))
    BY <1>1, <1>2 DEF BodyOK
  <2>1. CASE ParseResponse
    <3>1. step' = step /\ phase = "parse"
      BY <2>1 DEF ParseResponse
    <3>2. step = "enroll" /\ ret'
      BY <1>3, <3>1
    <3> QED
      BY <2>1, <3>2, ParsePrint
  <2>2. CASE Cleanup
    <3>1. /\ phase = "cleanup" /\ phase' = "idle" /\ body' = body
          /\ step' = IF step = "cacerts" THEN "csr" ELSE IF ret THEN "extract" ELSE "selftest"
      BY <2>2 DEF Cleanup, Enter
    <3>2. step = "enroll" /\ ret
      BY <1>3, <3>1
    <3> QED
      BY <3>1, <3>2 DEF PrintInv, BodyOK
  <2>3. CASE StartRequest \/ BuildCsr \/ SelfTest \/ RequestFails \/ CsrFails \/ ReadEnd \/ Reset
    BY <1>3, <2>3 DEF StartRequest, BuildCsr, SelfTest, RequestFails, Return, CsrFails, ReadEnd,
        Reset, Enter
  <2> QED
    BY <2>1, <2>2, <2>3
<1> QED
  BY <1>4, <1>5, <1>6, <1>7 DEF PrintInv

\* Steps after which nothing else has been made or printed.
LEMMA OthersPrint ==
    ASSUME PrintInv, UNCHANGED <<csr_der, mine, cert_der>>, UNCHANGED <<csr, printed>>
    PROVE  MadeOK' /\ PrintedIsIssued'
BY DEF PrintInv, MadeOK, PrintedIsIssued

\* The board opens a connection, or is refused one.
LEMMA ConnectPrint ==
    ASSUME ClientShape, WaitInv, EnrollInv, PrintInv, Connect \/ Refused
    PROVE  PrintInv'
<1>1. UNCHANGED <<s2c, th, csr_der, mine, cert_der>> /\ UNCHANGED <<resp, csr, printed, step>>
      /\ phase = "connect"
  BY DEF Connect, Refused, Connected, RequestFails, raVars
<1>2. MadeOK' /\ PrintedIsIssued'
  BY <1>1, OthersPrint
<1>3. step \in {"cacerts", "enroll"}
  BY <1>1 DEF WaitInv, RequestOK
<1>4. CASE Connect
  <2>1. phase' = "handshake" /\ conn' = conn + 1 /\ conn < MaxConns
    BY <1>4 DEF Connect, Connected, Enter
  <2>2. conn' \in Conn /\ conn' > conn
    <3>1. conn \in 0..MaxConns /\ MaxConns \in Nat
      BY RaAssumption DEF WaitInv, LinksOK
    <3> QED
      BY <2>1, <3>1 DEF Conn
  <2>3. link[conn'] = "none"
    BY <2>2 DEF WaitInv, LinksOK
  <2>4. th[conn'] = "none" /\ s2c[conn'] = <<>> /\ cert_der[conn'] = <<>>
    BY <2>2, <2>3, EarlyConn
  <2>5. resp = <<>>
    BY <1>1 DEF EnrollInv, BoardOK
  <2>6. <<>> \o <<>> = <<>>
    OBVIOUS
  <2>7. \A l : Reading(l, "none", <<>>, <<>>)
    BY DEF Reading
  <2>8. Reading(link'[conn'], th'[conn'], cert_der'[conn'], resp' \o s2c'[conn'])
    BY <1>1, <2>4, <2>5, <2>6, <2>7
  <2>9. ReadingOK' /\ BodyOK'
    BY <1>1, <1>3, <2>1, <2>8 DEF ReadingOK, BodyOK
  <2> QED
    BY <1>2, <2>9 DEF PrintInv
<1>5. CASE Refused
  <2>1. phase' = "cleanup" /\ ret' = FALSE
    BY <1>5 DEF Refused, RequestFails, Return, Enter
  <2>2. ReadingOK' /\ BodyOK'
    BY <1>1, <1>3, <2>1 DEF ReadingOK, BodyOK, Under
  <2> QED
    BY <1>2, <2>2 DEF PrintInv
<1> QED
  BY <1>4, <1>5

\* The handshake, the request and the chunks of the response.
LEMMA LinePrint ==
    ASSUME ClientShape, WaitInv, EnrollInv, PrintInv, Handshake \/ Send \/ Read
    PROVE  PrintInv'
<1>1. /\ UNCHANGED <<csr_der, mine, cert_der>> /\ UNCHANGED <<csr, printed, step, conn>>
      /\ phase \in {"handshake", "headers", "body", "read"}
  BY DEF Handshake, HandshakeDone, Accepted, Send, SendHeaders, SendBody, Transmit, Read, ReadChunk, raVars
<1>2. MadeOK' /\ PrintedIsIssued'
  BY <1>1, OthersPrint
<1>3. step \in {"cacerts", "enroll"} /\ conn \in Conn
  BY <1>1 DEF WaitInv, RequestOK, OnLine
<1>4. step = "enroll" => Reading(link[conn], th[conn], cert_der[conn], resp \o s2c[conn])
  BY <1>1 DEF PrintInv, ReadingOK, Under
<1>5. CASE Handshake
  <2>1. /\ phase' = "headers" /\ UNCHANGED <<resp, s2c>> /\ link[conn] = "tcp"
        /\ th' = [th EXCEPT ![conn] = "request"]
    BY <1>5 DEF Handshake, HandshakeDone, Accepted, Enter
  <2>2. th[conn] = "none" /\ s2c[conn] = <<>> /\ cert_der[conn] = <<>> /\ th'[conn] = "request"
    <3>1. DOMAIN th = Conn
      BY DEF WaitInv, LinksOK
    <3> QED
      BY <1>3, <2>1, <3>1, EarlyConn
  <2>3. step = "enroll" => resp \o s2c[conn] = <<>>
    BY <1>4, <2>2 DEF Reading
  <2>4. \A l : Reading(l, "request", <<>>, <<>>)
    BY DEF Reading
  <2>5. step = "enroll" => Reading(link'[conn'], th'[conn'], cert_der'[conn'], resp' \o s2c'[conn'])
    BY <1>1, <2>1, <2>2, <2>3, <2>4
  <2>6. ReadingOK' /\ BodyOK'
    BY <1>1, <1>3, <2>1, <2>5 DEF ReadingOK, BodyOK
  <2> QED
    BY <1>2, <2>6 DEF PrintInv
<1>6. CASE Send
  <2>1. phase' \in {"body", "read"} /\ UNCHANGED <<resp, s2c, link, th>>
    BY <1>6 DEF Send, SendHeaders, SendBody, Transmit, Enter, raVars
  <2>2. ReadingOK' /\ BodyOK'
    BY <1>1, <1>3, <1>4, <2>1 DEF ReadingOK, BodyOK
  <2> QED
    BY <1>2, <2>2 DEF PrintInv
<1>7. CASE Read
  <2> DEFINE dn == s2c[conn]
             n == IF Len(dn) < EST_RX_CHUNK_SIZE THEN Len(dn) ELSE EST_RX_CHUNK_SIZE
             p == SubSeq(dn, 1, n)
             q == SubSeq(dn, n + 1, Len(dn))
  <2>1. /\ phase = "read" /\ ReadChunk(p) /\ s2c' = [s2c EXCEPT ![conn] = q]
        /\ UNCHANGED link /\ UNCHANGED th
    BY <1>7 DEF Read, From, raVars
  <2>2. dn \in Seq(Good) /\ resp \in Seq(Good)
    BY <1>3, ConnHere
  <2>3. n \in 0..Len(dn)
    <3>1. Len(dn) \in Nat /\ EST_RX_CHUNK_SIZE \in Nat
      BY <2>2, ClientAssumption, SeqDomain
    <3> QED
      BY <3>1
  <2>4. s2c'[conn] = q
    <3>1. DOMAIN s2c = Conn
      BY DEF EnrollInv, ConnsOK
    <3> QED
      BY <1>3, <2>1, <3>1
  <2> HIDE DEF n
  <2>5. p \in Seq(Good) /\ q \in Seq(Good) /\ p \o q = dn
    BY <2>2, <2>3, SeqCut, SeqSplit
  <2> HIDE DEF dn, p, q
  <2>6. CASE phase' = "cleanup" /\ ret' = FALSE
    <3>1. ReadingOK' /\ BodyOK'
      BY <1>1, <1>3, <2>6 DEF ReadingOK, BodyOK, Under
    <3> QED
      BY <1>2, <3>1 DEF PrintInv
  <2>7. CASE resp' = resp \o p /\ phase' = phase
    <3>1. resp' \o q = resp \o dn
      <4>1. resp \o (p \o q) = (resp \o p) \o q
        BY <2>2, <2>5, GoodAssoc, Zenon
      <4> QED
        BY <2>5, <2>7, <4>1
    <3>2. resp' \o s2c'[conn'] = resp \o s2c[conn]
      BY <1>1, <2>4, <3>1 DEF dn
    <3>3. ReadingOK' /\ BodyOK'
      BY <1>1, <1>3, <1>4, <2>1, <2>7, <3>2 DEF ReadingOK, BodyOK
    <3> QED
      BY <1>2, <3>3 DEF PrintInv
  <2> QED
    BY <2>1, <2>6, <2>7 DEF ReadChunk, Return, Enter
<1> QED
  BY <1>5, <1>6, <1>7

\* A connection that breaks.
LEMMA CutPrint ==
    ASSUME ClientShape, WaitInv, EnrollInv, PrintInv, NEW c \in Conn, Cut(c)
    PROVE  PrintInv'
<1>1. /\ UNCHANGED <<csr_der, mine, cert_der, th>>
      /\ UNCHANGED <<csr, printed, step, phase, conn, ret, resp, body>>
  BY DEF Cut, clientVars, raVars
<1>2. MadeOK' /\ PrintedIsIssued'
  BY <1>1, OthersPrint
<1>3. BodyOK'
  BY <1>1 DEF PrintInv, BodyOK
<1>4. DOMAIN link = Conn /\ DOMAIN s2c = Conn
  BY DEF WaitInv, LinksOK, EnrollInv, ConnsOK
<1>5. PICK j \in 0..Len(s2c[c]) : s2c' = [s2c EXCEPT ![c] = SubSeq(s2c[c], 1, j)]
  BY DEF Cut
<1>6. link' = [link EXCEPT ![c] = "cut"]
  BY DEF Cut
<1>7. ASSUME step = "enroll", phase \in Under
      PROVE  Reading(link'[conn], th[conn], cert_der[conn], resp \o s2c'[conn])
  <2>1. Reading(link[conn], th[conn], cert_der[conn], resp \o s2c[conn]) /\ conn \in Conn
    BY <1>7 DEF PrintInv, ReadingOK, EnrollInv, ResponseOK
  <2>2. CASE conn # c
    BY <1>4, <1>5, <1>6, <2>1, <2>2
  <2>3. CASE conn = c
    <3> DEFINE r == resp
               dn == s2c[c]
               w == r \o dn
               m == Len(r) + j
               u == SubSeq(dn, 1, j)
    <3>1. s2c'[c] = u /\ link'[c] = "cut"
      BY <1>4, <1>5, <1>6
    <3>2. r \in Seq(Good) /\ dn \in Seq(Good) /\ w \in Seq(Good) /\ cert_der[c] \in Seq(Nat)
      BY ConnHere
    <3>3. j \in 0..Len(dn)
      OBVIOUS
    <3> HIDE DEF r, dn
    <3>4. Len(r) \in Nat /\ Len(dn) \in Nat /\ Len(w) = Len(r) + Len(dn)
      BY <3>2, SeqDomain, SeqConcat
    <3>5. m \in 0..Len(w)
      BY <3>3, <3>4
    <3>6. r \o u = SubSeq(w, 1, m)
      <4> DEFINE x == r \o u
                 y == SubSeq(w, 1, m)
      <4>1. u \in Seq(Good) /\ Len(u) = j /\ \A i \in 1..j : u[i] = dn[i]
        BY <3>2, <3>3, <3>4
      <4>2. y \in Seq(Good) /\ Len(y) = m /\ \A i \in 1..m : y[i] = w[i]
        BY <3>2, <3>5
      <4> HIDE DEF u, y
      <4>3. x \in Seq(Good) /\ Len(x) = Len(r) + j /\ (\A i \in 1..Len(r) : x[i] = r[i])
            /\ \A i \in 1..(Len(r) + j) : i > Len(r) => x[i] = u[i - Len(r)]
        BY <3>2, <4>1, SeqConcat
      <4>4. (\A i \in 1..Len(r) : w[i] = r[i])
            /\ \A i \in 1..(Len(r) + Len(dn)) : i > Len(r) => w[i] = dn[i - Len(r)]
        BY <3>2, SeqConcat
      <4> HIDE DEF x, w
      <4>5. \A i \in 1..m : x[i] = y[i]
        <5> TAKE i \in 1..m
        <5>1. CASE i <= Len(r)
          <6>1. i \in 1..Len(r)
            BY <3>4, <5>1
          <6> QED
            BY <4>2, <4>3, <4>4, <6>1
        <5>2. CASE i > Len(r)
          <6>1. i \in 1..(Len(r) + Len(dn)) /\ i - Len(r) \in 1..j /\ i \in 1..(Len(r) + j)
            BY <3>3, <3>4, <5>2
          <6> QED
            BY <4>1, <4>2, <4>3, <4>4, <5>2, <6>1
        <5>3. i <= Len(r) \/ i > Len(r)
          BY <3>4
        <5> QED
          BY <5>1, <5>2, <5>3
      <4>6. x = y
        BY <4>2, <4>3, <4>5, SeqSame
      <4> QED
        BY <4>6 DEF x, y
    <3>7. Reading(link[c], th[c], cert_der[c], w)
      BY <2>1, <2>3 DEF w, r, dn
    <3> HIDE DEF w, m, u
    <3>8. Reading("cut", th[c], cert_der[c], SubSeq(w, 1, m))
      BY <3>2, <3>5, <3>7, ReadingCut
    <3>9. Reading("cut", th[c], cert_der[c], r \o u)
      BY <3>6, <3>8
    <3> QED
      BY <2>3, <3>1, <3>9 DEF r
  <2> QED
    BY <2>2, <2>3
<1>8. ReadingOK'
  BY <1>1, <1>7 DEF ReadingOK
<1> QED
  BY <1>2, <1>3, <1>8 DEF PrintInv

\* A step of a thread: what it does to its certificate,
ThreadMade(c) ==
    /\ cert_der[c] # <<>> => cert_der'[c] = cert_der[c] /\ csr_der'[c] = csr_der[c] /\ mine'[c] = mine[c]
    /\ cert_der[c] = <<>> /\ cert_der'[c] # <<>> =>
          cert_der'[c] = build_mldsa44_certificate(csr_der'[c], mine'[c])
    /\ \A d \in Conn : d # c =>
          cert_der'[d] = cert_der[d] /\ csr_der'[d] = csr_der[d] /\ mine'[d] = mine[d]
          /\ s2c'[d] = s2c[d] /\ th'[d] = th[d]
    /\ link' = link

LEMMA ThreadMadeIt ==
    ASSUME WaitInv, EnrollInv, NEW c \in Conn, ThreadStep(c)
    PROVE  ThreadMade(c)
<1>1. /\ DOMAIN th = Conn /\ DOMAIN c2s = Conn /\ ConnsOK
      /\ DOMAIN csr_der = Conn /\ DOMAIN cert_der = Conn /\ DOMAIN mine = Conn
  BY DEF WaitInv, LinksOK, EnrollInv, ConnsOK
<1>2. ThreadFrame(c)
  BY <1>1, ThreadFrames
<1>3. link' = link /\ \A d \in Conn : d # c => th'[d] = th[d]
  BY <1>1, ThreadFact
<1>4. cert_der[c] # <<>> => cert_der'[c] = cert_der[c] /\ csr_der'[c] = csr_der[c]
  BY ThreadMove DEF ThreadMoves, Moves
<1>5. mine' = mine \/ (th[c] = "serial" /\ mine' = [mine EXCEPT ![c] = serial])
  BY DEF ThreadStep, RequestLost, NotFound, do_GET, DecodeRaises, Decode, NextSerial, Increment,
      Refuse, Issue, WriteBody
<1>6. cert_der[c] # <<>> => th[c] \in {"write", "done"}
  BY ConnHere
<1>7. /\ \A d \in Conn : d # c => mine'[d] = mine[d]
      /\ cert_der[c] # <<>> => mine'[c] = mine[c]
  BY <1>1, <1>5, <1>6
<1>8. ASSUME cert_der[c] = <<>>, cert_der'[c] # <<>>
      PROVE  cert_der'[c] = build_mldsa44_certificate(csr_der'[c], mine'[c])
  <2>1. Issue(c)
    BY <1>8 DEF ThreadStep, RequestLost, NotFound, do_GET, DecodeRaises, Decode, NextSerial,
        Increment, Refuse, WriteBody
  <2>2. /\ cert_der' = [cert_der EXCEPT ![c] = build_mldsa44_certificate(csr_der[c], mine[c])]
        /\ csr_der' = csr_der /\ mine' = mine
    BY <2>1 DEF Issue
  <2> DEFINE x == build_mldsa44_certificate(csr_der[c], mine[c])
  <2>3. cert_der' = [cert_der EXCEPT ![c] = x]
    BY <2>2
  <2> HIDE DEF x
  <2>4. cert_der'[c] = x
    BY <1>1, <2>3
  <2> QED
    BY <2>2, <2>4 DEF x
<1> QED
  BY <1>2, <1>3, <1>4, <1>7, <1>8 DEF ThreadMade, ThreadFrame

\* and to what the board reads.
LEMMA ThreadReads ==
    ASSUME WaitInv, EnrollInv, PrintInv, conn \in Conn, ThreadStep(conn), step = "enroll",
           phase \in Under
    PROVE  Reading(link[conn], th'[conn], cert_der'[conn], resp \o s2c'[conn])
<1> DEFINE l == link[conn]
           ct == cert_der[conn]
           ct2 == cert_der'[conn]
           r == resp
           dn == s2c[conn]
           dn2 == s2c'[conn]
<1>1. Reading(l, th[conn], ct, r \o dn)
  BY DEF PrintInv, ReadingOK
<1>2. /\ ct \in Seq(Nat) /\ r \in Seq(Good) /\ dn \in Seq(Good)
      /\ ct # <<>> => th[conn] \in {"write", "done"}
  BY ConnHere
<1>3. th[conn] = "write" => ct # <<>>
  BY DEF EnrollInv, ResponseOK, CurrentOK, Current
<1>4. /\ DOMAIN th = Conn /\ DOMAIN s2c = Conn /\ DOMAIN cert_der = Conn
  BY DEF WaitInv, LinksOK, EnrollInv, ConnsOK
<1>5. \A t : th' = [th EXCEPT ![conn] = t] => th'[conn] = t
  BY <1>4
<1>6. \A x : Respond(conn, x) => dn2 = IF l = "tls" THEN dn \o x ELSE dn
  BY <1>4 DEF Respond
<1>7. CASE RequestLost(conn) \/ NotFound(conn) \/ do_GET(conn) \/ DecodeRaises(conn) \/ Refuse(conn)
  <2>1. th[conn] \in {"request", "build"} /\ ct2 = ct
        /\ (th' = [th EXCEPT ![conn] = "done"] \/ th' = [th EXCEPT ![conn] = "write"])
    BY <1>7 DEF RequestLost, NotFound, do_GET, DecodeRaises, BodyRead, Refuse, Finish, Continue
  <2>2. ct2 = <<>> /\ th'[conn] \in {"write", "done"}
    BY <1>2, <1>5, <2>1
  <2> HIDE DEF ct2
  <2>3. \A w : \A t \in {"write", "done"} : Reading(l, t, <<>>, w)
    BY DEF Reading
  <2> QED
    BY <2>2, <2>3 DEF ct2
<1>8. CASE Decode(conn) \/ NextSerial(conn) \/ Increment(conn)
  <2>1. /\ th[conn] \in {"request", "serial", "increment"} /\ ct2 = ct /\ dn2 = dn
        /\ \/ th' = [th EXCEPT ![conn] = "serial"]
           \/ th' = [th EXCEPT ![conn] = "increment"]
           \/ th' = [th EXCEPT ![conn] = "build"]
    BY <1>8 DEF Decode, BodyRead, NextSerial, Increment, Continue, connVars
  <2>2. th'[conn] \notin {"write", "done"}
    BY <1>5, <2>1
  <2>3. r \o dn2 = <<>>
    BY <1>1, <2>1 DEF Reading
  <2> HIDE DEF ct2, dn2, r
  <2>4. Reading(l, th'[conn], ct2, r \o dn2)
    BY <2>2, <2>3 DEF Reading
  <2> QED
    BY <2>4 DEF ct2, dn2, r
<1>9. CASE Issue(conn)
  <2>1. th[conn] = "build" /\ th' = [th EXCEPT ![conn] = "write"] /\ Respond(conn, Page)
        /\ IsCsr(csr_der[conn])
    BY <1>9 DEF Issue, Continue, Page
  <2>2. th'[conn] = "write" /\ dn2 = IF l = "tls" THEN dn \o Page ELSE dn
    BY <1>5, <1>6, <2>1, Zenon
  <2>3. r \o dn = <<>>
    BY <1>1, <2>1 DEF Reading
  <2>4. ct2 \in Seq(Nat) /\ ct2 # <<>>
    <3>1. ConnFact(aps, boots, l, "build", c2s[conn], dn, csr_der[conn], ct)
      BY <2>1 DEF EnrollInv, ConnsOK, ConnOK
    <3>2. PICK b \in 1..boots : IsPart(csr_der[conn], CsrOf(b))
      BY <3>1 DEF ConnFact
    <3>3. b \in Nat /\ csr_der[conn] = CsrOf(b)
      <4>1. b \in Nat
        BY DEF EnrollInv, BoardOK
      <4> QED
        BY <2>1, <3>2, <4>1, WholeCsr
    <3>4. SubjectOf(csr_der[conn]) \in Seq(Nat) /\ SpkiOf(csr_der[conn]) \in Seq(Nat)
      BY <3>3, CsrOfFact
    <3> DEFINE x == build_mldsa44_certificate(csr_der[conn], mine[conn])
    <3>5. x \in Seq(Nat) /\ x # <<>>
      <4>1. mine[conn] \in Nat
        BY DEF EnrollInv, ConnsOK
      <4> QED
        BY <3>4, <4>1, CertificateFact
    <3>6. cert_der' = [cert_der EXCEPT ![conn] = x]
      BY <1>9 DEF Issue
    <3> HIDE DEF x
    <3>7. ct2 = x
      BY <1>4, <3>6
    <3> QED
      BY <3>5, <3>7
  <2> HIDE DEF l, ct2, r, dn, dn2
  <2>5. Reading(l, "write", ct2, r \o dn2)
    BY <1>2, <2>2, <2>3, <2>4, ReadingIssue
  <2> QED
    BY <2>2, <2>5 DEF l, ct2, r, dn2
<1>10. CASE WriteBody(conn)
  <2> DEFINE p == IF ct = <<>> THEN CacertsDer ELSE cert_der_to_pkcs7(ct)
  <2>1. /\ th[conn] = "write" /\ th' = [th EXCEPT ![conn] = "done"] /\ ct2 = ct
        /\ Respond(conn, LineBreaks(Base64(p)))
    BY <1>10 DEF WriteBody, Finish, Continue
  <2>2. ct # <<>> /\ Reading(l, "write", ct, r \o dn)
    BY <1>1, <1>3, <2>1
  <2>3. LineBreaks(Base64(p)) = BodyOf(ct)
    BY <2>2 DEF BodyOf
  <2> HIDE DEF p
  <2>4. Respond(conn, BodyOf(ct))
    BY <2>1, <2>3
  <2>5. th'[conn] = "done" /\ dn2 = IF l = "tls" THEN dn \o BodyOf(ct) ELSE dn
    BY <1>5, <1>6, <2>1, <2>4, Zenon
  <2> HIDE DEF l, ct, ct2, r, dn, dn2
  <2>6. Reading(l, "done", ct, r \o dn2)
    BY <1>2, <2>2, <2>5, ReadingWrite
  <2> QED
    BY <2>1, <2>5, <2>6 DEF l, ct, ct2, r, dn2
<1> QED
  BY <1>7, <1>8, <1>9, <1>10 DEF ThreadStep

\* A step of a thread, and of the thread that accepts.
LEMMA ThreadPrint ==
    ASSUME ClientShape, WaitInv, EnrollInv, PrintInv, NEW c \in Conn, ThreadStep(c),
           UNCHANGED clientVars
    PROVE  PrintInv'
<1>1. UNCHANGED <<csr, printed, step, phase, conn, ret, resp, body>>
  BY DEF clientVars
<1>2. ThreadMade(c)
  BY ThreadMadeIt
<1>3. \A d \in Conn : cert_der[d] # <<>> =>
          cert_der'[d] = cert_der[d] /\ csr_der'[d] = csr_der[d] /\ mine'[d] = mine[d]
  BY <1>2 DEF ThreadMade
<1>4. MadeOK'
  <2> SUFFICES ASSUME NEW d \in Conn, cert_der'[d] # <<>>
               PROVE  cert_der'[d] = build_mldsa44_certificate(csr_der'[d], mine'[d])
    BY DEF MadeOK
  <2>1. CASE cert_der[d] # <<>>
    <3>1. cert_der[d] = build_mldsa44_certificate(csr_der[d], mine[d])
      BY <2>1 DEF PrintInv, MadeOK
    <3> QED
      BY <1>3, <2>1, <3>1
  <2>2. CASE cert_der[d] = <<>>
    <3>1. d = c
      BY <1>2, <2>2 DEF ThreadMade
    <3> QED
      BY <1>2, <2>2, <3>1 DEF ThreadMade
  <2> QED
    BY <2>1, <2>2
<1>5. PrintedIsIssued'
  <2> SUFFICES ASSUME printed # <<>>
               PROVE  \E d \in Conn : printed = cert_der'[d] /\ csr_der'[d] = csr
    BY <1>1 DEF PrintedIsIssued
  <2>1. PICK d \in Conn : printed = cert_der[d] /\ csr_der[d] = csr
    BY DEF PrintInv, PrintedIsIssued
  <2> QED
    BY <1>3, <2>1
<1>6. BodyOK'
  <2> SUFFICES ASSUME (step = "enroll" /\ phase = "cleanup" /\ ret) \/ step = "extract"
               PROVE  IsPart(body["enroll"], BodyOf(cert_der'[conn]))
    BY <1>1 DEF BodyOK
  <2>1. conn \in Conn /\ cert_der[conn] # <<>>
    BY DEF EnrollInv, ResponseOK
  <2>2. IsPart(body["enroll"], BodyOf(cert_der[conn]))
    BY DEF PrintInv, BodyOK
  <2> QED
    BY <1>3, <2>1, <2>2
<1>7. ReadingOK'
  <2> SUFFICES ASSUME step = "enroll", phase \in Under
               PROVE  Reading(link'[conn], th'[conn], cert_der'[conn], resp \o s2c'[conn])
    BY <1>1 DEF ReadingOK
  <2>1. conn \in Conn
    BY DEF EnrollInv, ResponseOK
  <2>2. link' = link
    BY <1>2 DEF ThreadMade
  <2>3. CASE conn = c
    <3>1. Reading(link[conn], th'[conn], cert_der'[conn], resp \o s2c'[conn])
      BY <2>1, <2>3, ThreadReads
    <3> QED
      BY <2>2, <3>1
  <2>4. CASE conn # c
    <3>1. cert_der'[conn] = cert_der[conn] /\ s2c'[conn] = s2c[conn] /\ th'[conn] = th[conn]
      BY <1>2, <2>1, <2>4 DEF ThreadMade
    <3>2. Reading(link[conn], th[conn], cert_der[conn], resp \o s2c[conn])
      BY DEF PrintInv, ReadingOK
    <3> QED
      BY <2>2, <3>1, <3>2
  <2> QED
    BY <2>3, <2>4
<1> QED
  BY <1>4, <1>5, <1>6, <1>7 DEF PrintInv

LEMMA RaPrint ==
    ASSUME ClientShape, WaitInv, EnrollInv, PrintInv, RaStep, UNCHANGED clientVars
    PROVE  PrintInv'
<1>1. CASE AcceptFails \/ \E c \in Conn : Accept(c)
  <2>1. UNCHANGED <<link, s2c, th, csr_der, mine, cert_der>>
    BY <1>1 DEF AcceptFails, Accept, connVars
  <2>2. UNCHANGED <<csr, printed, step, phase, conn, ret, resp, body>>
    BY DEF clientVars
  <2> QED
    BY <2>1, <2>2 DEF PrintInv, MadeOK, ReadingOK, BodyOK, PrintedIsIssued
<1>2. CASE \E c \in Conn : ThreadStep(c)
  BY <1>2, ThreadPrint
<1> QED
  BY <1>1, <1>2 DEF RaStep

\* What Extract prints is the certificate itself: of a response of which the end is
\* missing it scans a part of what the RA sent, which holds no other certificate.
LEMMA ScannedIsWhole ==
    ASSUME FieldsHoldNoCertificate, NEW b \in 1..MaxBoots, NEW n \in 1..MaxConns, NEW crt,
           crt = build_mldsa44_certificate(CsrOf(b), n), NEW text,
           IsPart(text, BodyOf(crt)), Decodes(Compact(text)),
           find_first_der_certificate(Decoded(Compact(text))) # <<>>
    PROVE  find_first_der_certificate(Decoded(Compact(text))) = crt
<1> DEFINE der == cert_der_to_pkcs7(crt)
           got == Decoded(Compact(text))
<1>1. b \in Nat /\ n \in Nat
  BY RaAssumption, ClientAssumption
<1>2. /\ IsCsr(CsrOf(b)) /\ SubjectOf(CsrOf(b)) \in Seq(Nat) /\ SpkiOf(CsrOf(b)) \in Seq(Nat)
  BY <1>1, CsrOfFact
<1>3. crt \in Seq(Nat) /\ IsCertificate(crt)
  BY <1>1, <1>2, CertificateParts
<1>4. Len(der) <= DER_DECODE_BUF_SIZE /\ OneCertificate(der)
  BY <1>2 DEF FieldsHoldNoCertificate
<1>5. der \in Seq(Nat) /\ Len(der) \in Nat
  BY <1>3, Pkcs7Fact, SeqDomain
<1>6. Small(der)
  BY <1>4, <1>5 DEF Small, DER_DECODE_BUF_SIZE
<1>7. IsPart(text, LineBreaks(Base64(der)))
  BY DEF BodyOf
<1> HIDE DEF der
<1>8. IsPart(got, der)
  BY <1>5, <1>7, BodyPart
<1>9. PICK k \in 0..Len(der) : got = SubSeq(der, 1, k)
  BY <1>8 DEF IsPart
<1>10. OneCertificate(der)
  BY <1>4
<1> HIDE DEF got
<1>11. find_first_der_certificate(SubSeq(der, 1, k)) # <<>>
  BY <1>9 DEF got
<1>12. find_first_der_certificate(SubSeq(der, 1, k)) = crt
  BY <1>3, <1>6, <1>10, <1>11, CutScanned DEF der
<1> QED
  BY <1>9, <1>12 DEF got

LEMMA ExtractPrint ==
    ASSUME FieldsHoldNoCertificate, ClientShape, RaShape, WaitInv, EnrollInv, PrintInv, Extract,
           UNCHANGED <<connVars, raVars>>
    PROVE  PrintInv'
<1>1. UNCHANGED <<link, s2c, th, csr_der, mine, cert_der>>
  BY DEF connVars, raVars
<1>2. step = "extract" /\ step' = "selftest" /\ UNCHANGED <<phase, conn, ret, resp, body, csr>>
  BY DEF Extract
<1>3. MadeOK' /\ ReadingOK' /\ BodyOK'
  BY <1>1, <1>2 DEF PrintInv, MadeOK, ReadingOK, BodyOK
<1>4. PrintedIsIssued'
  <2> DEFINE text == body["enroll"]
             crt == cert_der[conn]
  <2> SUFFICES ASSUME printed' # <<>>
               PROVE  \E c \in Conn : printed' = cert_der[c] /\ csr_der[c] = csr
    BY <1>1, <1>2 DEF PrintedIsIssued
  <2>1. Decodes(Compact(text)) /\ printed' = find_first_der_certificate(Decoded(Compact(text)))
    BY DEF Extract
  <2>2. conn \in Conn /\ crt # <<>> /\ csr_der[conn] = csr /\ csr = CsrOf(boots)
    BY <1>2 DEF EnrollInv, ResponseOK, BoardOK
  <2>3. boots \in 1..MaxBoots /\ mine[conn] \in 1..MaxConns
    <3>1. mine[conn] \in 0..MaxConns /\ mine[conn] # 0 /\ boots \in 1..MaxBoots
      BY <2>2 DEF RaShape, ClientShape
    <3>2. MaxConns \in Nat
      BY RaAssumption
    <3> QED
      BY <3>1, <3>2
  <2>4. crt = build_mldsa44_certificate(CsrOf(boots), mine[conn])
    BY <2>2 DEF PrintInv, MadeOK
  <2>5. IsPart(text, BodyOf(crt))
    BY <1>2 DEF PrintInv, BodyOK
  <2> HIDE DEF text, crt
  <2>6. printed' = crt
    BY <2>1, <2>3, <2>4, <2>5, ScannedIsWhole
  <2> QED
    BY <2>2, <2>6 DEF crt
<1> QED
  BY <1>3, <1>4 DEF PrintInv

LEMMA PrintInvariant ==
    ASSUME FieldsHoldNoCertificate
    PROVE  Spec => []PrintInv
<1>1. Init => PrintInv
  BY DEF Init, ClientInit, RaInit, PrintInv, MadeOK, ReadingOK, BodyOK, PrintedIsIssued
<1>2. ClientShape /\ RaShape /\ WaitInv /\ EnrollInv /\ EnrollInv' /\ PrintInv /\ [Next]_vars => PrintInv'
  <2> SUFFICES ASSUME ClientShape, RaShape, WaitInv, EnrollInv, EnrollInv', PrintInv, [Next]_vars
               PROVE  PrintInv'
    OBVIOUS
  <2>1. CASE Connect \/ Refused
    BY <2>1, ConnectPrint
  <2>2. CASE Handshake \/ Send \/ Read
    BY <2>2, LinePrint
  <2>3. CASE HandshakeEnds \/ ReadEof
    <3>1. (RequestFails \/ ReadEnd) /\ UNCHANGED <<connVars, raVars>>
      BY <2>3 DEF HandshakeEnds, ReadEof
    <3> QED
      BY <3>1, AlonePrint
  <2>4. CASE (StartRequest \/ ParseResponse \/ Cleanup \/ BuildCsr \/ SelfTest)
             /\ UNCHANGED <<connVars, raVars>>
    BY <2>4, AlonePrint
  <2>5. CASE Extract /\ UNCHANGED <<connVars, raVars>>
    BY <2>5, ExtractPrint
  <2>6. CASE ClientFails
    BY <2>6, AlonePrint DEF ClientFails
  <2>7. CASE Reset /\ UNCHANGED <<connVars, raVars>>
    BY <2>7, AlonePrint
  <2>8. CASE RaStep /\ UNCHANGED clientVars
    BY <2>8, RaPrint
  <2>9. CASE \E c \in Conn : Cut(c)
    BY <2>9, CutPrint
  <2>10. CASE UNCHANGED vars
    BY <2>10 DEF vars, clientVars, connVars, raVars, PrintInv, MadeOK, ReadingOK, BodyOK,
        PrintedIsIssued
  <2> QED
    BY <2>1, <2>2, <2>3, <2>4, <2>5, <2>6, <2>7, <2>8, <2>9, <2>10
    DEF Next, ClientStep, MainStep, Finished
<1> QED
  BY <1>1, <1>2, ShapeInvariant, EnrollInvariant, PTL DEF Spec

(***************************************************************************)
(* The theorems.                                                           *)
(***************************************************************************)

\* Nothing parses as a request.
LEMMA NoneIsNoCsr == ~IsCsr(<<>>)
<1>1. der_children(<<>>, 48) = <<>>
  BY DEF der_children
<1>2. Len(<<>>) # 3
  OBVIOUS
<1> QED
  BY <1>1, <1>2 DEF IsCsr

\* The RA issues certificates only for what a board has signed, whole: of no CSR
\* that was cut does its parser accept the part that arrived.
THEOREM OnlyWholeRequests == Spec => []IssuedForWhole
<1>1. EnrollInv => IssuedForWhole
  <2> SUFFICES ASSUME EnrollInv, NEW c \in Conn, cert_der[c] # <<>>
               PROVE  \E b \in 1..boots : csr_der[c] = CsrOf(b)
    BY DEF IssuedForWhole
  <2>1. ConnFact(aps, boots, link[c], th[c], c2s[c], s2c[c], csr_der[c], cert_der[c])
    BY DEF EnrollInv, ConnsOK, ConnOK
  <2>2. PICK b \in 1..boots : IsPart(csr_der[c], CsrOf(b))
    BY <2>1 DEF ConnFact
  <2>3. IsCsr(csr_der[c])
    BY <2>1 DEF ConnFact
  <2>4. b \in Nat
    BY DEF EnrollInv, BoardOK
  <2> QED
    BY <2>2, <2>3, <2>4, WholeCsr
<1> QED
  BY <1>1, EnrollInvariant, PTL

\* When est_client_simpleenroll returns 0, the RA has issued a certificate for
\* this very CSR on this connection: a response of 200 stands for it, whatever
\* else was under way on other connections, in other boots, or before a cut.
THEOREM SuccessIsIssued == Spec => []EnrollOkIsIssued
<1>1. EnrollInv => EnrollOkIsIssued
  BY DEF EnrollInv, ResponseOK, EnrollOkIsIssued
<1> QED
  BY <1>1, EnrollInvariant, PTL

\* The board never reads a 400: what csr_gen.c writes the RA's parser accepts,
\* whatever the lengths, and of what was cut no answer is read.
THEOREM NothingRefused == Spec => []NeverRefused
<1>1. EnrollInv => NeverRefused
  <2> SUFFICES ASSUME EnrollInv, NEW i \in DOMAIN resp PROVE resp[i] # Status(400)
    BY DEF NeverRefused
  <2>1. resp \in Seq(Good)
    BY DEF EnrollInv, BoardOK
  <2>2. i \in 1..Len(resp)
    BY <2>1, SeqDomain
  <2>3. resp[i] \in Good
    BY <2>1, <2>2, SeqElt
  <2> QED
    BY <2>3 DEF Good
<1> QED
  BY <1>1, EnrollInvariant, PTL

\* Every variable has its type: no response outgrows its buffer, and the serials
\* the threads have taken account for the RA's counter.
THEOREM EnrollmentTypes == Spec => []TypeOK
<1>1. ClientShape /\ RaShape /\ WaitInv /\ EnrollInv => TypeOK
  <2> SUFFICES ASSUME ClientShape, RaShape, WaitInv, EnrollInv PROVE TypeOK
    OBVIOUS
  <2>1. aps \in {EST_RA, DMS} /\ (phase # "idle" => step \in {"cacerts", "enroll"})
        /\ conn \in 0..MaxConns /\ accepting \in 0..MaxConns /\ MaxConns \in Nat
    BY RaAssumption DEF EnrollInv, BoardOK, WaitInv, RequestOK, LinksOK, Aps
  <2>2. ClientTypeOK
    BY <2>1 DEF ClientShape, ClientTypeOK
  <2>3. \A c \in Conn : link[c] = "none" => c2s[c] = <<>> /\ s2c[c] = <<>> /\ th[c] = "none"
    BY EarlyConn
  <2>4. serial \in 1..(MaxConns + 1)
    <3> DEFINE k == Cardinality(Counted)
    <3>1. k \in 0..MaxConns /\ serial = 1 + k
      BY <2>1, CountedFact DEF RaShape
    <3> HIDE DEF k
    <3> QED
      BY <2>1, <3>1
  <2>5. ASSUME NEW c \in Conn, cert_der[c] # <<>> PROVE csr_der[c] # <<>> /\ mine[c] > 0
    <3>1. ConnFact(aps, boots, link[c], th[c], c2s[c], s2c[c], csr_der[c], cert_der[c])
      BY DEF EnrollInv, ConnsOK, ConnOK
    <3>2. IsCsr(csr_der[c])
      BY <2>5, <3>1 DEF ConnFact
    <3>3. csr_der[c] # <<>>
      BY <3>2, NoneIsNoCsr
    <3>4. mine[c] # 0 /\ mine[c] \in Nat
      BY <2>5 DEF RaShape, EnrollInv, ConnsOK
    <3> QED
      BY <3>3, <3>4
  <2>6. RaTypeOK
    BY <2>1, <2>3, <2>4, <2>5 DEF RaTypeOK, RaShape
  <2> QED
    BY <2>1, <2>2, <2>6 DEF TypeOK
<1> QED
  BY <1>1, ShapeInvariant, EnrollInvariant, PTL

\* A certificate that is printed is one the RA issued, whole, for the CSR of this
\* boot: est_https_request takes any end of the connection for the end of the
\* response, and ignores Content-Length, so only the DER scan stands between a
\* response that was cut anywhere and a certificate that is not one.
THEOREM PrintedWasIssued ==
    ASSUME FieldsHoldNoCertificate
    PROVE  Spec => []PrintedIsIssued
<1>1. PrintInv => PrintedIsIssued
  BY DEF PrintInv
<1> QED
  BY <1>1, PrintInvariant, PTL

=============================================================================
