----------------------------- MODULE EstMessage -----------------------------
(***************************************************************************)
(* The HTTP messages of the two EST requests inside TLS, as sequences of   *)
(* symbols: the request line and headers are one symbol, the status line   *)
(* and the blank line after the response headers one each, and a body is   *)
(* base64, one symbol per character.  A cut stream is a prefix of these.   *)
(***************************************************************************)
EXTENDS Naturals, Sequences, FiniteSets, SequencesExt

CONSTANT LineLen    \* base64 characters in a line of base64.encodebytes

ASSUME LineAssumption == LineLen \in Nat \ {0}

Symbol(kind, val, bytes) == [kind |-> kind, val |-> val, bytes |-> bytes]

\* The request line and headers: method, the APS of the path, Content-Length.
Request(method, aps, n) == Symbol(method, n, aps)
EST_RA == <<114>>       \* .../est/est-ra/...
DMS    == <<109>>       \* .../est/mldsa44-est-dms/...
Status(n) == Symbol("status", n, <<>>)
Split == Symbol("split", 0, <<>>)     \* "\r\n\r\n"
Space == Symbol("space", 0, <<>>)     \* CR, LF, blank or tab
Html  == Symbol("html", 0, <<>>)      \* the page of send_error

-----------------------------------------------------------------------------
\* mbedtls_base64_encode, base64.b64encode: character i of the text carries the
\* three (at the end perhaps fewer) bytes its group of four stands for.
GroupBytes(der, g) ==
    SubSeq(der, 3 * g + 1, IF 3 * g + 3 < Len(der) THEN 3 * g + 3 ELSE Len(der))

Base64(der) ==
    [i \in 1..(4 * ((Len(der) + 2) \div 3)) |->
        Symbol("digit", (i - 1) % 4, GroupBytes(der, (i - 1) \div 4))]

\* mbedtls_base64_decode, base64.b64decode(validate=True): only whole groups, so
\* that what was cut between two of them decodes to a prefix.
Decodes(text) == Len(text) % 4 = 0 /\ \A i \in DOMAIN text : text[i].kind = "digit"
Decoded(text) == FlattenSeq([g \in 1..(Len(text) \div 4) |-> text[4 * g].bytes])

\* base64.encodebytes(...).replace(b"\n", b"\r\n"): lines ended by CR LF.
LineBreaks(text) ==
    FlattenSeq([l \in 1..((Len(text) + LineLen - 1) \div LineLen) |->
        SubSeq(text, (l - 1) * LineLen + 1,
               IF l * LineLen < Len(text) THEN l * LineLen ELSE Len(text))
            \o <<Space, Space>>])

\* compact_base64 of the RA, compact_base64_body of the firmware.
Compact(text) ==
    FlattenSeq([i \in 1..Len(text) |-> IF text[i] = Space THEN <<>> ELSE <<text[i]>>])

=============================================================================
