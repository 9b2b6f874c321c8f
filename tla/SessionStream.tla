--------------------------- MODULE SessionStream ---------------------------
(***************************************************************************)
(* What the TLS client may rely on: one session at a time, and in it two   *)
(* byte streams, of which each end sees a prefix.  Byte i of session c is  *)
(* named <<c, i>>.                                                         *)
(***************************************************************************)
EXTENDS Naturals, Sequences

CONSTANTS
    MaxAttempts,    \* bound: sessions
    MaxBytes        \* bound: bytes in one step

VARIABLES
    session,    \* the session the client is in, 0 when in none
    put,        \* bytes the client has sent in each session
    arrived,    \* the bytes that have reached each session's peer
    offered,    \* bytes each session's peer has sent
    taken       \* the bytes the client has received in each session

vars == <<session, put, arrived, offered, taken>>

Sessions == 1..MaxAttempts

Init ==
    /\ session = 0
    /\ put = [c \in Sessions |-> 0] /\ arrived = [c \in Sessions |-> <<>>]
    /\ offered = [c \in Sessions |-> 0] /\ taken = [c \in Sessions |-> <<>>]

\* The n bytes of session c that follow those already in s.
NextBytes(s, c, n) == s \o [i \in 1..n |-> <<c, Len(s) + i>>]

\* A new session, later than any in which a byte was exchanged.
Open(c) ==
    /\ session = 0 /\ session' = c
    /\ \A d \in Sessions : d >= c => put[d] = 0 /\ taken[d] = <<>>
    /\ UNCHANGED <<put, arrived, offered, taken>>

End ==
    /\ session # 0 /\ session' = 0
    /\ UNCHANGED <<put, arrived, offered, taken>>

Put(n) ==
    /\ session # 0 /\ put' = [put EXCEPT ![session] = @ + n]
    /\ UNCHANGED <<session, arrived, offered, taken>>

\* Late bytes of an ended session may still arrive, before those of the next.
Arrive(c, n) ==
    /\ Len(arrived[c]) + n <= put[c]
    /\ \A d \in Sessions : d > c => arrived[d] = <<>>
    /\ arrived' = [arrived EXCEPT ![c] = NextBytes(@, c, n)]
    /\ UNCHANGED <<session, put, offered, taken>>

\* The peer answers, so it speaks only in a session whose client has spoken.
Offer(c, n) ==
    /\ arrived[c] # <<>>
    /\ offered' = [offered EXCEPT ![c] = @ + n]
    /\ UNCHANGED <<session, put, arrived, taken>>

Take(n) ==
    /\ session # 0 /\ Len(taken[session]) + n <= offered[session]
    /\ taken' = [taken EXCEPT ![session] = NextBytes(@, session, n)]
    /\ UNCHANGED <<session, put, arrived, offered>>

Next ==
    \/ End
    \/ \E c \in Sessions : Open(c)
    \/ \E n \in 0..MaxBytes : Put(n) \/ Take(n) \/ \E c \in Sessions : Arrive(c, n) \/ Offer(c, n)

Spec == Init /\ [][Next]_vars

=============================================================================
