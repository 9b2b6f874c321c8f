-------------------------- MODULE MCCertRoundTrip --------------------------
(***************************************************************************)
(* Lengths on both sides of every step of the DER length field.            *)
(***************************************************************************)
EXTENDS CertRoundTrip

MCSig       == [i \in 1..40 |-> IF i % 3 = 0 THEN 48 ELSE 130]
MCNames     == {0, 1, 9}
MCKeys      == {1, 2} \union 95..128 \union {236, 237, 238, 239, 240, 254, 255, 256, 300}
MCSigs      == {1, 126, 127, 128, 254, 255, 256}
\* "device-01", CRYPTO_PUBLICKEYBYTES, CRYPTO_BYTES
MCProgram   == {<<9, 1312, 2420>>}
MCSerials   == {1, 127, 128, 255, 256}
MCCutWindow == {3, 4, 5, 10, 41, 44, 60, 100}

\* What CutCertificateIsNotFound assumes holds of these lengths.
ASSUME MCAssumption == FieldsHoldNoCertificate

=============================================================================
