---------------------------- MODULE RandomBytes ----------------------------
(***************************************************************************)
(* Core/Middlewares/PQC/common/randombytes.c, the backend of the Release   *)
(* build: AES-ECB of a counter, produced a buffer at a time by the CRYP    *)
(* peripheral and handed out to ML-DSA and ML-KEM in requests of any       *)
(* length.  A byte is known by where it comes from: which counter block,   *)
(* which byte of it, and whether it has been encrypted yet.                *)
(***************************************************************************)
EXTENDS Integers, Sequences

CONSTANTS
    BLK_BYTES,      \* bytes of an AES block, 16 in the code
    RB_BLOCKS,      \* blocks of g_buf, 16 in the code
    CtrMod,         \* counter values, 2^128 in the code
    MaxRequest,     \* bound: length of a request
    MaxHanded       \* bound: bytes handed out

ASSUME RandomAssumption ==
    /\ BLK_BYTES \in Nat \ {0} /\ RB_BLOCKS \in Nat \ {0} /\ CtrMod \in Nat \ {0}
    /\ MaxRequest \in Nat /\ MaxHanded \in Nat

RB_REFILL_BYTES == RB_BLOCKS * BLK_BYTES
Block == 0..(CtrMod - 1)
Byte  == [kind : {"zero", "ctr", "aes"}, block : Block, index : 0..(BLK_BYTES - 1)]

VARIABLES
    g_ready, g_ctr, g_buf, g_buf_used,
    pc,         \* where randombytes is: "loop", "encrypt"; "idle" outside
    asked,      \* outlen of the call
    out,        \* what the call has copied out
    ret,        \* what the last call returned
    seed,       \* g_ctr as it was seeded
    handed      \* bytes handed out since, over all calls

vars == <<g_ready, g_ctr, g_buf, g_buf_used, pc, asked, out, ret, seed, handed>>

Init ==
    /\ g_ready = FALSE /\ g_ctr = 0 /\ g_buf_used = RB_REFILL_BYTES
    /\ g_buf = [i \in 0..(RB_REFILL_BYTES - 1) |-> [kind |-> "zero", block |-> 0, index |-> 0]]
    /\ pc = "idle" /\ asked = 0 /\ out = <<>> /\ ret = 0
    /\ seed = 0 /\ handed = 0

-----------------------------------------------------------------------------
\* randombytes_stm32_init with a working RNG.
randombytes_stm32_init(c) ==
    /\ ~g_ready /\ pc = "idle"
    /\ g_ready' = TRUE /\ g_ctr' = c /\ seed' = c
    /\ g_buf_used' = RB_REFILL_BYTES
    /\ UNCHANGED <<g_buf, pc, asked, out, ret, handed>>

\* The RNG or the CRYP fails, and main stops for good.
InitFails ==
    /\ ~g_ready /\ pc = "idle" /\ pc' = "halted"
    /\ UNCHANGED <<g_ready, g_ctr, g_buf, g_buf_used, asked, out, ret, seed, handed>>

\* A call before the seeding fails at once.
Call(n) ==
    /\ pc = "idle" /\ handed + n <= MaxHanded
    /\ asked' = n /\ out' = <<>>
    /\ IF g_ready THEN pc' = "loop" /\ UNCHANGED ret ELSE ret' = -1 /\ UNCHANGED pc
    /\ UNCHANGED <<g_ready, g_ctr, g_buf, g_buf_used, seed, handed>>

\* The counter values: ctr_inc is the increment of a big-endian number.
ctr_inc(c, n) == (c + n) % CtrMod

Blocks(kind) ==
    [i \in 0..(RB_REFILL_BYTES - 1) |->
        [kind |-> kind, block |-> ctr_inc(g_ctr, i \div BLK_BYTES), index |-> i % BLK_BYTES]]

Waiting == pc = "loop" /\ Len(out) < asked

\* Mutant of Refill: g_buf_used is reset before the encryption.
Refill_early ==
    /\ Waiting /\ g_buf_used >= RB_REFILL_BYTES
    /\ g_buf' = Blocks("ctr") /\ g_buf_used' = 0 /\ pc' = "encrypt"
    /\ UNCHANGED <<g_ready, g_ctr, asked, out, ret, seed, handed>>

\* rb_refill_locked: the counter values are put into g_buf, in place of what it
\* held, before they are encrypted there.
Refill ==
    /\ Waiting /\ g_buf_used >= RB_REFILL_BYTES
    /\ g_buf' = Blocks("ctr") /\ pc' = "encrypt"
    /\ UNCHANGED <<g_ready, g_ctr, g_buf_used, asked, out, ret, seed, handed>>

Encrypted ==
    /\ pc = "encrypt" /\ pc' = "loop"
    /\ g_buf' = Blocks("aes") /\ g_buf_used' = 0
    /\ g_ctr' = ctr_inc(g_ctr, RB_BLOCKS)
    /\ UNCHANGED <<g_ready, asked, out, ret, seed, handed>>

\* HAL_CRYP_Encrypt fails or times out: the call gives up in its middle.
EncryptFails ==
    /\ pc = "encrypt" /\ pc' = "idle" /\ ret' = -1
    /\ UNCHANGED <<g_ready, g_ctr, g_buf, g_buf_used, asked, out, seed, handed>>

\* Mutant of Take: all the buffer holds, whatever was asked for.
Take_avail == RB_REFILL_BYTES - g_buf_used

Take ==
    IF asked - Len(out) < RB_REFILL_BYTES - g_buf_used
    THEN asked - Len(out) ELSE RB_REFILL_BYTES - g_buf_used

CopyOut ==
    /\ Waiting /\ g_buf_used < RB_REFILL_BYTES
    /\ out' = out \o [i \in 1..Take |-> g_buf[g_buf_used + i - 1]]
    /\ g_buf_used' = g_buf_used + Take /\ handed' = handed + Take
    /\ UNCHANGED <<g_ready, g_ctr, g_buf, pc, asked, ret, seed>>

Return ==
    /\ pc = "loop" /\ Len(out) >= asked
    /\ pc' = "idle" /\ ret' = 0
    /\ UNCHANGED <<g_ready, g_ctr, g_buf, g_buf_used, asked, out, seed, handed>>

Next ==
    \/ \E c \in Block : randombytes_stm32_init(c)
    \/ \E n \in 0..MaxRequest : Call(n)
    \/ InitFails \/ Refill \/ Encrypted \/ EncryptFails \/ CopyOut \/ Return

Spec == Init /\ [][Next]_vars

-----------------------------------------------------------------------------
\* Every variable has its type, and no call writes past the caller's buffer.
TypeOK ==
    /\ g_ready \in BOOLEAN /\ g_ctr \in Block /\ seed \in Block
    /\ g_buf \in [0..(RB_REFILL_BYTES - 1) -> Byte] /\ g_buf_used \in 0..RB_REFILL_BYTES
    /\ pc \in {"idle", "halted", "loop", "encrypt"} /\ ret \in {0, -1}
    /\ asked \in Nat /\ out \in Seq(Byte) /\ handed \in Nat
    /\ Len(out) <= asked

\* Byte n of the keystream that begins at the seed.
Keystream(n) ==
    [kind |-> "aes", block |-> ctr_inc(seed, n \div BLK_BYTES), index |-> n % BLK_BYTES]

\* Over all calls, and across encryptions that failed in their middle, the bytes
\* handed out are the keystream from its beginning, none left out, none given
\* twice, and never a counter value that has not been encrypted.
OutIsKeystream ==
    \A k \in 1..Len(out) : out[k] = Keystream(handed - Len(out) + k - 1)

=============================================================================
