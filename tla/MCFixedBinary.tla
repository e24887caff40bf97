---------------------------- MODULE MCFixedBinary ----------------------------
(* Two words of two bytes: SIZE_IN_BYTES = 4, inputs of 3 to 6 bytes.    *)
(* Bytes 0, 1 and 2 make words whose order as numbers differs from the   *)
(* order of their bytes, and whose and, or and xor differ.               *)
EXTENDS FixedBinary

MCWordVals == {0, 1, 256, 513}
====
