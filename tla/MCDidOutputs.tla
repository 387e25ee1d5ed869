---------------------------- MODULE MCDidOutputs ----------------------------
(* Doubles of 10 bits and 10 satoshis to the bitcoin. All the money is 2^53   *)
(* satoshis times .233 (21 million bitcoins), here 2^10 times .233. Fees are  *)
(* 0 to 40 satoshis and 150 to 170 in quarters, negative, and beyond int64_t, *)
(* here 12 bits.                                                              *)
EXTENDS DidOutputs

MCValues == 0..238
MCFees == -8..160 \cup 600..680 \cup {4 * 2047, 4 * 2048, 4 * 3000, -4 * 2048, -4 * 2100}
MCBytes == {10, 65, 127, 128, 255}
MCDdoRefs == UNION {[1..n -> MCBytes] : n \in 0..3}
               \cup UNION {[1..n -> {15, 127, 200}] : n \in 4..6}
=============================================================================
