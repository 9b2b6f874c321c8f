------------------------- MODULE RandomBytes_proofs -------------------------
(***************************************************************************)
(* OutIsKeystream for every block size, buffer size and counter width.     *)
(* What is handed out ends where what is left in g_buf begins, and g_buf   *)
(* ends at a block boundary, the one g_ctr stands for.                     *)
(***************************************************************************)
EXTENDS RandomBytes, SequenceTheorems, TLAPS

-----------------------------------------------------------------------------
(* Division by the size of a block, and the counter modulo its width.      *)

\* Quotient and remainder are what they are said to be.
LEMMA DivMod ==
    ASSUME NEW M \in Nat \ {0}, NEW a \in Int
    PROVE  a = M * (a \div M) + (a % M) /\ a % M \in 0..(M - 1) /\ a \div M \in Int
OBVIOUS

\* They are the only ones.
LEMMA DivModUnique ==
    ASSUME NEW M \in Nat \ {0}, NEW q \in Int, NEW r \in 0..(M - 1)
    PROVE  (M * q + r) % M = r /\ (M * q + r) \div M = q
OBVIOUS

\* The quotient of a natural number is one.
LEMMA DivNat ==
    ASSUME NEW M \in Nat \ {0}, NEW a \in Nat
    PROVE  a \div M \in Nat
OBVIOUS

\* Position a of a buffer that begins at block n.
LEMMA BlockShift ==
    ASSUME NEW M \in Nat \ {0}, NEW n \in Nat, NEW a \in Nat
    PROVE  (n * M + a) \div M = n + (a \div M) /\ (n * M + a) % M = a % M
<1> DEFINE q == n + (a \div M)
<1>1. a = M * (a \div M) + (a % M) /\ a % M \in 0..(M - 1) /\ a \div M \in Int
  BY DivMod
<1>2. q \in Int
  BY <1>1
<1>3. n * M + a = M * q + (a % M)
  BY <1>1
<1> HIDE DEF q
<1>4. (M * q + (a % M)) % M = a % M /\ (M * q + (a % M)) \div M = q
  BY <1>1, <1>2, DivModUnique
<1> QED
  BY <1>3, <1>4 DEF q

\* Counting on from a counter that has come round.
LEMMA ModAdd ==
    ASSUME NEW M \in Nat \ {0}, NEW a \in Nat, NEW b \in Nat
    PROVE  ((a % M) + b) % M = (a + b) % M
<1> DEFINE c == (a % M) + b
<1>1. a = M * (a \div M) + (a % M) /\ a % M \in 0..(M - 1) /\ a \div M \in Nat
  <2>1. a = M * (a \div M) + (a % M) /\ a % M \in 0..(M - 1)
    BY DivMod
  <2> QED
    BY <2>1, DivNat
<1>2. c \in Nat
  BY <1>1
<1>3. a + b = (a \div M) * M + c
  BY <1>1
<1> HIDE DEF c
<1>4. ((a \div M) * M + c) % M = c % M
  BY <1>1, <1>2, BlockShift
<1> QED
  BY <1>3, <1>4 DEF c

-----------------------------------------------------------------------------
\* The buffer has a size, and a whole number of blocks.
LEMMA BufferSize == RB_REFILL_BYTES \in Nat \ {0}
BY RandomAssumption DEF RB_REFILL_BYTES

\* A counter stays in its range.
LEMMA CounterType ==
    ASSUME NEW c \in Nat, NEW n \in Nat
    PROVE  ctr_inc(c, n) \in Block
BY RandomAssumption, DivMod DEF ctr_inc, Block

\* A buffer full of blocks is a buffer of bytes.
LEMMA BlocksType ==
    ASSUME TypeOK, NEW kind \in {"ctr", "aes"}
    PROVE  Blocks(kind) \in [0..(RB_REFILL_BYTES - 1) -> Byte]
<1> SUFFICES ASSUME NEW i \in 0..(RB_REFILL_BYTES - 1)
             PROVE  [kind |-> kind, block |-> ctr_inc(g_ctr, i \div BLK_BYTES),
                     index |-> i % BLK_BYTES] \in Byte
  BY DEF Blocks
<1>1. i \in Nat /\ BLK_BYTES \in Nat \ {0} /\ g_ctr \in Nat
  BY BufferSize, RandomAssumption DEF TypeOK, Block
<1>2. i \div BLK_BYTES \in Nat /\ i % BLK_BYTES \in 0..(BLK_BYTES - 1)
  <2>1. i % BLK_BYTES \in 0..(BLK_BYTES - 1)
    BY <1>1, DivMod
  <2> QED
    BY <2>1, <1>1, DivNat
<1>3. ctr_inc(g_ctr, i \div BLK_BYTES) \in Block
  BY <1>1, <1>2, CounterType
<1> QED
  BY <1>2, <1>3 DEF Byte

\* What CopyOut takes is there, and fits.
LEMMA TakeType ==
    ASSUME TypeOK, Waiting, g_buf_used < RB_REFILL_BYTES
    PROVE  /\ Take \in Nat \ {0} /\ Take <= asked - Len(out)
           /\ g_buf_used + Take \in 0..RB_REFILL_BYTES
BY BufferSize DEF TypeOK, Waiting, Take

-----------------------------------------------------------------------------
(* Type correctness.                                                       *)

\* TypeOK holds when the program starts.
LEMMA TypeInit == Init => TypeOK
<1> SUFFICES ASSUME Init PROVE TypeOK
  OBVIOUS
<1>1. 0 \in Block /\ 0 \in 0..(BLK_BYTES - 1)
  BY RandomAssumption DEF Block
<1>2. g_buf \in [0..(RB_REFILL_BYTES - 1) -> Byte]
  BY <1>1 DEF Init, Byte
<1>3. out \in Seq(Byte) /\ Len(out) = 0
  BY DEF Init
<1>4. RB_REFILL_BYTES \in 0..RB_REFILL_BYTES
  BY BufferSize
<1>5. g_ctr \in Block /\ seed \in Block /\ g_buf_used \in 0..RB_REFILL_BYTES
  BY <1>1, <1>4 DEF Init
<1>6. asked \in Nat /\ handed \in Nat /\ Len(out) <= asked /\ ret \in {0, -1}
  BY <1>3 DEF Init
<1>7. g_ready \in BOOLEAN /\ pc \in {"idle", "halted", "loop", "encrypt"}
  BY DEF Init
<1> QED
  BY <1>2, <1>3, <1>5, <1>6, <1>7 DEF TypeOK

\* CopyOut appends bytes of the buffer.
LEMMA CopyType == ASSUME TypeOK, CopyOut PROVE TypeOK'
<1>1. Take \in Nat \ {0} /\ Take <= asked - Len(out) /\ g_buf_used + Take \in 0..RB_REFILL_BYTES
  BY TakeType DEF CopyOut
<1> DEFINE piece == [i \in 1..Take |-> g_buf[g_buf_used + i - 1]]
<1>2. piece \in Seq(Byte) /\ Len(piece) = Take
  <2>1. \A i \in 1..Take : g_buf_used + i - 1 \in 0..(RB_REFILL_BYTES - 1)
    BY <1>1, BufferSize DEF TypeOK
  <2>2. \A i \in 1..Take : g_buf[g_buf_used + i - 1] \in Byte
    BY <2>1 DEF TypeOK
  <2> QED
    BY <1>1, <2>2
<1> HIDE DEF piece
<1>3. out' = out \o piece
  BY DEF CopyOut, piece
<1>4. out' \in Seq(Byte) /\ Len(out') = Len(out) + Take
  <2>1. out \in Seq(Byte)
    BY DEF TypeOK
  <2> QED
    BY <1>2, <1>3, <2>1, ConcatProperties
<1> QED
  BY <1>1, <1>4 DEF TypeOK, CopyOut, Waiting

\* Every step keeps the types.
LEMMA TypeStep == TypeOK /\ [Next]_vars => TypeOK'
<1> SUFFICES ASSUME TypeOK, [Next]_vars
             PROVE  TypeOK'
  OBVIOUS
<1>1. CASE \E c \in Block : randombytes_stm32_init(c)
  BY <1>1, BufferSize DEF TypeOK, randombytes_stm32_init
<1>2. CASE InitFails
  BY <1>2 DEF TypeOK, InitFails
<1>3. CASE \E n \in 0..MaxRequest : Call(n)
  BY <1>3, RandomAssumption DEF TypeOK, Call
<1>4. CASE Refill
  BY <1>4, BlocksType DEF TypeOK, Refill
<1>5. CASE Encrypted
  <2>1. Blocks("aes") \in [0..(RB_REFILL_BYTES - 1) -> Byte]
    BY BlocksType
  <2>2. g_ctr \in Nat /\ RB_BLOCKS \in Nat
    BY RandomAssumption DEF TypeOK, Block
  <2>3. ctr_inc(g_ctr, RB_BLOCKS) \in Block
    BY <2>2, CounterType
  <2> QED
    BY <1>5, <2>1, <2>3, BufferSize DEF TypeOK, Encrypted
<1>6. CASE EncryptFails
  BY <1>6 DEF TypeOK, EncryptFails
<1>7. CASE CopyOut
  BY <1>7, CopyType
<1>8. CASE Return
  BY <1>8 DEF TypeOK, Return
<1>9. CASE UNCHANGED vars
  BY <1>9 DEF TypeOK, vars
<1> QED
  BY <1>1, <1>2, <1>3, <1>4, <1>5, <1>6, <1>7, <1>8, <1>9 DEF Next

-----------------------------------------------------------------------------
(* The keystream.                                                          *)

\* filled blocks have been encrypted since the seeding, g_ctr counts them, and
\* what is left of g_buf is the end of the last of them.
At(filled) ==
    /\ handed + (RB_REFILL_BYTES - g_buf_used) = filled * BLK_BYTES
    /\ g_ctr = ctr_inc(seed, filled)
    /\ \A i \in g_buf_used..(RB_REFILL_BYTES - 1) :
          g_buf[i] = Keystream(handed + (i - g_buf_used))

\* The inductive invariant.  Before the seeding nothing is handed out; during a
\* refill the buffer is used up.
StreamInv ==
    /\ TypeOK /\ OutIsKeystream
    /\ pc = "encrypt" => g_buf_used = RB_REFILL_BYTES
    /\ ~g_ready => handed = 0 /\ out = <<>> /\ pc \in {"idle", "halted"}
    /\ Len(out) <= handed
    /\ g_ready => \E filled \in Nat : At(filled)

\* The state of the stream depends on these variables only.
LEMMA AtSame ==
    ASSUME NEW filled \in Nat, At(filled),
           UNCHANGED <<g_ctr, g_buf, g_buf_used, seed, handed>>
    PROVE  At(filled)'
BY DEF At, Keystream, ctr_inc

\* Right after the seeding nothing is left and nothing has been filled.
LEMMA AtSeeding ==
    ASSUME NEW c \in Block, TypeOK, handed = 0, randombytes_stm32_init(c)
    PROVE  At(0)'
<1>1. g_buf_used' = RB_REFILL_BYTES /\ handed' = 0 /\ g_ctr' = c /\ seed' = c
  BY DEF randombytes_stm32_init
<1>2. c \in 0..(CtrMod - 1) /\ CtrMod \in Nat \ {0}
  BY RandomAssumption DEF Block
<1>3. c = CtrMod * 0 + c /\ (CtrMod * 0 + c) % CtrMod = c
  BY <1>2, DivModUnique
<1>4. (c + 0) % CtrMod = c
  BY <1>2, <1>3
<1> QED
  BY <1>1, <1>4, BufferSize, RandomAssumption DEF At, ctr_inc

\* A refill overwrites what has been handed out.
LEMMA AtRefill ==
    ASSUME NEW filled \in Nat, At(filled), TypeOK, Refill
    PROVE  At(filled)' /\ g_buf_used' = RB_REFILL_BYTES
<1>1. g_buf_used = RB_REFILL_BYTES
  BY BufferSize DEF TypeOK, Refill
<1>2. UNCHANGED <<g_ctr, g_buf_used, seed, handed>>
  BY DEF Refill
<1> QED
  BY <1>1, <1>2, BufferSize DEF At, ctr_inc

\* An encryption appends RB_BLOCKS blocks of the keystream.
LEMMA AtEncrypted ==
    ASSUME NEW filled \in Nat, At(filled), TypeOK, g_buf_used = RB_REFILL_BYTES, Encrypted
    PROVE  At(filled + RB_BLOCKS)'
<1>1. /\ BLK_BYTES \in Nat \ {0} /\ RB_BLOCKS \in Nat \ {0} /\ CtrMod \in Nat \ {0}
      /\ seed \in Nat /\ handed \in Nat /\ RB_REFILL_BYTES \in Nat
  BY RandomAssumption, BufferSize DEF TypeOK, Block
<1>2. g_buf' = Blocks("aes") /\ g_buf_used' = 0 /\ g_ctr' = ctr_inc(g_ctr, RB_BLOCKS)
      /\ seed' = seed /\ handed' = handed
  BY DEF Encrypted
<1>3. handed = filled * BLK_BYTES /\ g_ctr = ctr_inc(seed, filled)
  BY <1>1 DEF At
<1>4. ASSUME NEW n \in Nat
      PROVE  ctr_inc(g_ctr, n) = ctr_inc(seed, filled + n)
  <2>1. seed + filled \in Nat
    BY <1>1
  <2>2. (((seed + filled) % CtrMod) + n) % CtrMod = ((seed + filled) + n) % CtrMod
    BY <1>1, <2>1, ModAdd
  <2>3. (seed + filled) + n = seed + (filled + n)
    BY <1>1
  <2> QED
    BY <2>2, <2>3, <1>3 DEF ctr_inc
<1>5. g_ctr' = ctr_inc(seed', filled + RB_BLOCKS)
  BY <1>1, <1>2, <1>4
<1>6. handed' + (RB_REFILL_BYTES - g_buf_used') = (filled + RB_BLOCKS) * BLK_BYTES
  BY <1>1, <1>2, <1>3 DEF RB_REFILL_BYTES
<1>7. ASSUME NEW i \in 0..(RB_REFILL_BYTES - 1)
      PROVE  g_buf'[i] = Keystream(handed + i)
  <2>1. i \in Nat /\ i \div BLK_BYTES \in Nat
    BY <1>1, DivNat
  <2>2. (handed + i) \div BLK_BYTES = filled + (i \div BLK_BYTES)
        /\ (handed + i) % BLK_BYTES = i % BLK_BYTES
    BY <2>1, <1>1, <1>3, BlockShift
  <2>3. ctr_inc(g_ctr, i \div BLK_BYTES) = ctr_inc(seed, filled + (i \div BLK_BYTES))
    BY <2>1, <1>4
  <2> QED
    BY <1>2, <2>2, <2>3 DEF Blocks, Keystream
<1>8. \A i \in g_buf_used'..(RB_REFILL_BYTES - 1) :
         g_buf'[i] = Keystream(handed' + (i - g_buf_used'))
  BY <1>1, <1>2, <1>7
<1> QED
  BY <1>2, <1>5, <1>6, <1>8 DEF At, Keystream, ctr_inc

\* Copying moves bytes from the front of what is left to the end of what is
\* handed out.
LEMMA AtCopy ==
    ASSUME NEW filled \in Nat, At(filled), TypeOK, OutIsKeystream, Len(out) <= handed, CopyOut
    PROVE  At(filled)' /\ OutIsKeystream' /\ (Len(out) <= handed)'
<1>1. Take \in Nat \ {0} /\ Take <= asked - Len(out) /\ g_buf_used + Take \in 0..RB_REFILL_BYTES
  BY TakeType DEF CopyOut
<1> DEFINE piece == [i \in 1..Take |-> g_buf[g_buf_used + i - 1]]
<1>2. UNCHANGED <<g_ctr, g_buf, seed>> /\ g_buf_used' = g_buf_used + Take
      /\ handed' = handed + Take /\ out' = out \o piece
  BY DEF CopyOut
<1>3. handed \in Nat /\ g_buf_used \in Nat /\ RB_REFILL_BYTES \in Nat /\ out \in Seq(Byte)
  BY BufferSize DEF TypeOK
<1>5. ASSUME NEW i \in 1..Take
      PROVE  piece[i] = Keystream(handed + i - 1)
  <2>1. g_buf_used + i - 1 \in g_buf_used..(RB_REFILL_BYTES - 1)
    BY <1>1, <1>3
  <2>2. g_buf[g_buf_used + i - 1] = Keystream(handed + ((g_buf_used + i - 1) - g_buf_used))
    BY <2>1 DEF At
  <2>3. handed + ((g_buf_used + i - 1) - g_buf_used) = handed + i - 1
    BY <1>1, <1>3
  <2> QED
    BY <2>2, <2>3
<1>6. piece \in Seq(Byte) /\ Len(piece) = Take
  <2>1. \A i \in 1..Take : g_buf[g_buf_used + i - 1] \in Byte
    BY <1>1, <1>3 DEF TypeOK
  <2> QED
    BY <1>1, <2>1
<1> HIDE DEF piece
<1>10. /\ Len(out') = Len(out) + Take
       /\ \A k \in 1..Len(out') :
             out'[k] = IF k <= Len(out) THEN out[k] ELSE piece[k - Len(out)]
  <2>1. /\ Len(out \o piece) = Len(out) + Len(piece)
        /\ \A k \in 1..(Len(out) + Len(piece)) :
              (out \o piece)[k] = IF k <= Len(out) THEN out[k] ELSE piece[k - Len(out)]
    BY <1>3, <1>6, ConcatProperties
  <2>2. out' = out \o piece /\ Len(piece) = Take
    BY <1>2, <1>6
  <2> QED
    BY <2>1, <2>2
<1>7. OutIsKeystream'
  <2> SUFFICES ASSUME NEW k \in 1..Len(out')
               PROVE  out'[k] = Keystream(handed' - Len(out') + k - 1)
    BY <1>2 DEF OutIsKeystream, Keystream, ctr_inc
  <2>1. Len(out') = Len(out) + Take
    BY <1>10
  <2>2. handed' - Len(out') = handed - Len(out)
    BY <2>1, <1>1, <1>2, <1>3
  <2>3. CASE k <= Len(out)
    <3>1. out'[k] = out[k]
      BY <2>3, <1>10
    <3> QED
      BY <2>3, <3>1, <2>2, <1>3 DEF OutIsKeystream
  <2>4. CASE k > Len(out)
    <3>1. k - Len(out) \in 1..Take /\ out'[k] = piece[k - Len(out)]
      BY <2>4, <2>1, <1>1, <1>3, <1>10
    <3>2. out'[k] = Keystream(handed + (k - Len(out)) - 1)
      BY <3>1, <1>5
    <3>3. handed + (k - Len(out)) - 1 = handed' - Len(out') + k - 1
      BY <2>2, <1>3, <2>1
    <3> QED
      BY <3>2, <3>3
  <2> QED
    BY <2>3, <2>4, <1>3, <2>1, <1>1
<1>8. At(filled)'
  <2>1. \A i \in (g_buf_used + Take)..(RB_REFILL_BYTES - 1) :
           /\ i \in g_buf_used..(RB_REFILL_BYTES - 1)
           /\ handed + (i - g_buf_used) = (handed + Take) + (i - (g_buf_used + Take))
    BY <1>1, <1>3
  <2>2. \A i \in g_buf_used'..(RB_REFILL_BYTES - 1) :
           g_buf'[i] = Keystream(handed' + (i - g_buf_used'))
    <3> SUFFICES ASSUME NEW i \in (g_buf_used + Take)..(RB_REFILL_BYTES - 1)
                 PROVE  g_buf[i] = Keystream((handed + Take) + (i - (g_buf_used + Take)))
      BY <1>2
    <3>1. g_buf[i] = Keystream(handed + (i - g_buf_used))
      BY <2>1 DEF At
    <3> QED
      BY <3>1, <2>1
  <2>3. handed' + (RB_REFILL_BYTES - g_buf_used') = filled * BLK_BYTES
    BY <1>1, <1>2, <1>3 DEF At
  <2>4. g_ctr' = ctr_inc(seed', filled)
    BY <1>2 DEF At
  <2> QED
    BY <2>2, <2>3, <2>4, <1>2 DEF At, Keystream, ctr_inc
<1>9. (Len(out) <= handed)'
  BY <1>1, <1>2, <1>3, <1>10
<1> QED
  BY <1>7, <1>8, <1>9

\* StreamInv holds when the program starts.
LEMMA StreamInit == Init => StreamInv
<1> SUFFICES ASSUME Init PROVE StreamInv
  OBVIOUS
<1>1. TypeOK
  BY TypeInit
<1> QED
  BY <1>1 DEF Init, StreamInv, OutIsKeystream

\* OutIsKeystream, as far as it depends on them.
LEMMA OutSame ==
    ASSUME OutIsKeystream, UNCHANGED <<out, seed, handed>>
    PROVE  OutIsKeystream'
BY DEF OutIsKeystream, Keystream, ctr_inc

\* An empty output is a piece of any keystream.
LEMMA OutEmpty == ASSUME out' = <<>> PROVE OutIsKeystream'
BY DEF OutIsKeystream

\* Every step keeps StreamInv.
LEMMA StreamStep == StreamInv /\ [Next]_vars => StreamInv'
<1> SUFFICES ASSUME StreamInv, [Next]_vars
             PROVE  StreamInv'
  OBVIOUS
<1> USE DEF StreamInv
<1>0. TypeOK'
  BY TypeStep
<1>1. ASSUME NEW c \in Block, randombytes_stm32_init(c)
      PROVE  StreamInv'
  <2>1. g_ready' = TRUE /\ pc' = pc /\ pc = "idle" /\ out' = out /\ out = <<>>
        /\ handed' = handed /\ handed = 0
    BY <1>1 DEF randombytes_stm32_init
  <2>2. At(0)'
    BY <1>1, <2>1, AtSeeding
  <2>3. OutIsKeystream'
    BY <2>1, OutEmpty
  <2> QED
    BY <1>0, <2>1, <2>2, <2>3
<1>2. CASE InitFails
  <2>1. UNCHANGED <<g_ready, g_ctr, g_buf, g_buf_used, out, seed, handed>> /\ ~g_ready
        /\ pc' = "halted"
    BY <1>2 DEF InitFails
  <2>2. OutIsKeystream'
    BY <2>1, OutSame
  <2> QED
    BY <1>0, <2>1, <2>2
<1>3. ASSUME NEW n \in 0..MaxRequest, Call(n)
      PROVE  StreamInv'
  <2>1. UNCHANGED <<g_ready, g_ctr, g_buf, g_buf_used, seed, handed>> /\ out' = <<>>
        /\ pc' \in {"idle", "loop"} /\ (~g_ready => pc' = "idle")
    BY <1>3 DEF Call
  <2>2. OutIsKeystream'
    BY <2>1, OutEmpty
  <2>3. (Len(out) <= handed)'
    BY <2>1 DEF TypeOK
  <2>4. g_ready' => \E filled \in Nat : At(filled)'
    BY <2>1, AtSame
  <2> QED
    BY <1>0, <2>1, <2>2, <2>3, <2>4
<1>4. CASE Refill
  <2>1. UNCHANGED <<g_ready, out, seed, handed>> /\ g_ready /\ pc' = "encrypt"
    BY <1>4 DEF Refill, Waiting
  <2>2. PICK filled \in Nat : At(filled)
    BY <2>1
  <2>3. At(filled)' /\ g_buf_used' = RB_REFILL_BYTES
    BY <1>4, <2>2, AtRefill
  <2>4. OutIsKeystream'
    BY <2>1, OutSame
  <2> QED
    BY <1>0, <2>1, <2>3, <2>4
<1>5. CASE Encrypted
  <2>1. UNCHANGED <<g_ready, out, seed, handed>> /\ g_ready /\ pc' = "loop"
        /\ g_buf_used = RB_REFILL_BYTES
    BY <1>5 DEF Encrypted
  <2>2. PICK filled \in Nat : At(filled)
    BY <2>1
  <2>3. At(filled + RB_BLOCKS)' /\ filled + RB_BLOCKS \in Nat
    BY <1>5, <2>1, <2>2, AtEncrypted, RandomAssumption
  <2>4. OutIsKeystream'
    BY <2>1, OutSame
  <2> QED
    BY <1>0, <2>1, <2>3, <2>4
<1>6. CASE EncryptFails \/ Return \/ UNCHANGED vars
  <2>1. UNCHANGED <<g_ready, g_ctr, g_buf, g_buf_used, out, seed, handed>>
        /\ (pc' = "idle" \/ pc' = pc)
    BY <1>6 DEF EncryptFails, Return, vars
  <2>2. OutIsKeystream'
    BY <2>1, OutSame
  <2>3. g_ready' => \E filled \in Nat : At(filled)'
    BY <2>1, AtSame
  <2> QED
    BY <1>0, <2>1, <2>2, <2>3
<1>7. CASE CopyOut
  <2>1. UNCHANGED g_ready /\ g_ready /\ pc' = pc /\ pc = "loop"
    BY <1>7 DEF CopyOut, Waiting
  <2>2. PICK filled \in Nat : At(filled)
    BY <2>1
  <2>3. At(filled)' /\ OutIsKeystream' /\ (Len(out) <= handed)'
    BY <1>7, <2>2, AtCopy
  <2> QED
    BY <1>0, <2>1, <2>3
<1> QED
  BY <1>1, <1>2, <1>3, <1>4, <1>5, <1>6, <1>7 DEF Next

\* Types are kept, whatever the sizes are, and no call of randombytes writes
\* past the caller's buffer.
THEOREM RandomTypeCorrect == Spec => []TypeOK
<1> QED
  BY TypeInit, TypeStep, PTL DEF Spec

\* Whatever the lengths of the calls, and whenever an encryption fails,
\* randombytes hands out the keystream in its order, once.
THEOREM StreamCorrect == Spec => []OutIsKeystream
<1>1. StreamInv => OutIsKeystream
  BY DEF StreamInv
<1> QED
  BY <1>1, StreamInit, StreamStep, PTL DEF Spec

-----------------------------------------------------------------------------
\* Positions of the keystream less than a full round of the counter apart, in
\* whatever round they are: two bytes of a block, or bytes of different blocks.
LEMMA KeystreamApart ==
    ASSUME TypeOK, NEW m \in Nat, NEW n \in Nat,
           m - n < CtrMod * BLK_BYTES, n - m < CtrMod * BLK_BYTES,
           Keystream(m) = Keystream(n)
    PROVE  m = n
<1> DEFINE p == m \div BLK_BYTES  q == n \div BLK_BYTES
<1>1. BLK_BYTES \in Nat \ {0} /\ CtrMod \in Nat \ {0} /\ seed \in 0..(CtrMod - 1)
  BY RandomAssumption DEF TypeOK, Block
<1>2. /\ m = BLK_BYTES * p + (m % BLK_BYTES) /\ n = BLK_BYTES * q + (n % BLK_BYTES)
      /\ p \in Nat /\ q \in Nat
      /\ m % BLK_BYTES \in 0..(BLK_BYTES - 1) /\ n % BLK_BYTES \in 0..(BLK_BYTES - 1)
  <2>1. m = BLK_BYTES * p + (m % BLK_BYTES) /\ m % BLK_BYTES \in 0..(BLK_BYTES - 1)
    BY <1>1, DivMod
  <2>2. n = BLK_BYTES * q + (n % BLK_BYTES) /\ n % BLK_BYTES \in 0..(BLK_BYTES - 1)
    BY <1>1, DivMod
  <2>3. p \in Nat /\ q \in Nat
    BY <1>1, DivNat
  <2> QED
    BY <2>1, <2>2, <2>3
<1>3. m % BLK_BYTES = n % BLK_BYTES /\ (seed + p) % CtrMod = (seed + q) % CtrMod
  BY DEF Keystream, ctr_inc
<1> HIDE DEF p, q
<1>4. -CtrMod < p - q /\ p - q < CtrMod
  <2>1. m - n = BLK_BYTES * (p - q)
    BY <1>1, <1>2, <1>3
  <2>2. CASE p - q >= CtrMod
    <3>1. BLK_BYTES * (p - q) >= BLK_BYTES * CtrMod
      BY <2>2, <1>1, <1>2
    <3> QED
      BY <3>1, <2>1, <1>1, <1>2
  <2>3. CASE p - q <= -CtrMod
    <3>1. BLK_BYTES * (q - p) >= BLK_BYTES * CtrMod
      BY <2>3, <1>1, <1>2
    <3>2. n - m = BLK_BYTES * (q - p)
      BY <2>1, <1>1, <1>2
    <3> QED
      BY <3>1, <3>2, <1>1, <1>2
  <2> QED
    BY <2>2, <2>3, <1>1, <1>2
<1>5. p = q
  <2> DEFINE x == (seed + p) \div CtrMod  y == (seed + q) \div CtrMod
  <2>1. seed + p = CtrMod * x + ((seed + p) % CtrMod) /\ x \in Int
    BY <1>1, <1>2, DivMod
  <2>2. seed + q = CtrMod * y + ((seed + q) % CtrMod) /\ y \in Int
    BY <1>1, <1>2, DivMod
  <2> HIDE DEF x, y
  <2>3. p - q = CtrMod * (x - y)
    BY <2>1, <2>2, <1>1, <1>2, <1>3, DivMod
  <2>4. -CtrMod < p - q /\ p - q < CtrMod
    BY <1>4
  <2>5. x - y = 0
    <3>1. CASE x - y >= 1
      <4>1. CtrMod * (x - y) >= CtrMod
        BY <3>1, <1>1, <2>1, <2>2
      <4> QED
        BY <4>1, <2>3, <2>4, <1>1, <1>2
    <3>2. CASE x - y <= -1
      <4>1. CtrMod * (x - y) <= -CtrMod
        BY <3>2, <1>1, <2>1, <2>2
      <4> QED
        BY <4>1, <2>3, <2>4, <1>1, <1>2
    <3> QED
      BY <3>1, <3>2, <2>1, <2>2
  <2> QED
    BY <2>3, <2>5, <1>1, <1>2
<1> QED
  BY <1>2, <1>3, <1>5

\* The call that is running, or the last one, has put byte b of the cipher at
\* place n of all that was ever handed out.
GivenAt(n, b) == \E k \in 1..Len(out) : handed - Len(out) + k - 1 = n /\ out[k] = b

\* The seed of this run puts byte b at place n.
Placed(n, b) == g_ready /\ b = Keystream(n)

\* What is handed out is placed by the seed, and the seed stays.
LEMMA GivenIsPlaced ==
    ASSUME StreamInv, NEW n, NEW b, GivenAt(n, b)
    PROVE  Placed(n, b)
<1>1. PICK k \in 1..Len(out) : handed - Len(out) + k - 1 = n /\ out[k] = b
  BY DEF GivenAt
<1>2. g_ready
  BY <1>1 DEF StreamInv, TypeOK
<1> QED
  BY <1>1, <1>2 DEF Placed, StreamInv, OutIsKeystream

LEMMA PlacedStays ==
    ASSUME [Next]_vars, NEW n, NEW b, Placed(n, b)
    PROVE  Placed(n, b)'
<1>1. g_ready' = g_ready /\ seed' = seed
  BY DEF Placed, Next, vars, randombytes_stm32_init, InitFails, Call, Refill, Encrypted,
         EncryptFails, CopyOut, Return
<1> QED
  BY <1>1 DEF Placed, Keystream, ctr_inc

\* A byte of the cipher (this block, this index) that randombytes has given to any
\* caller is never given to one again, until the counter has gone once round: not
\* by a later call, not after an encryption that failed in the middle of a refill,
\* and in no round of the counter.
THEOREM NoByteTwice ==
    ASSUME NEW n \in Nat, NEW m \in Nat, NEW b, n # m,
           n - m < CtrMod * BLK_BYTES, m - n < CtrMod * BLK_BYTES
    PROVE  Spec => [](GivenAt(n, b) => []~GivenAt(m, b))
<1>1. StreamInv /\ GivenAt(n, b) => Placed(n, b)
  BY GivenIsPlaced
<1>2. StreamInv /\ GivenAt(m, b) => Placed(m, b)
  BY GivenIsPlaced
<1>3. Placed(n, b) /\ [Next]_vars => Placed(n, b)'
  BY PlacedStays
<1>4. StreamInv => ~(Placed(n, b) /\ Placed(m, b))
  BY KeystreamApart DEF Placed, StreamInv
<1> QED
  BY <1>1, <1>2, <1>3, <1>4, StreamInit, StreamStep, PTL DEF Spec

=============================================================================
