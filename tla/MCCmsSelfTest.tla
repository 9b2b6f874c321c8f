--------------------------- MODULE MCCmsSelfTest ---------------------------
(***************************************************************************)
(* Lengths of the signature, then of the ciphertext, at which some level   *)
(* of the nesting comes to 127, 128, 255 or 256 bytes; the real ones, 2420 *)
(* and 768; and buffers too small for one message, for both, for neither.  *)
(***************************************************************************)
EXTENDS CmsSelfTest

Build4(sigs, cts, sizes) == [sig : sigs, ct : cts, plain : {32}, size : sizes]

MCBuilds ==
    Build4({1} \union 12..31 \union 33..75 \union 110..130 \union 138..170 \union 190..258,
           {1}, {4096})
        \union Build4({2420}, {0, 1, 768} \union 10..75 \union 80..135 \union 190..258, {4096})
        \union Build4({1, 60, 61, 62, 63}, {1}, 180..260)
MCFilling == <<4, 48, 129, 6, 9, 128>>

\* What SelfTestsSucceed assumes holds of these lengths and bytes.
ASSUME MCAssumption == NothingLooksAlike

=============================================================================
