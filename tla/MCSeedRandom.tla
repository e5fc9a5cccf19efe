---------------------------- MODULE MCSeedRandom ----------------------------
(* SeedRandom with 32-bit RSA digits (DNET_KEYLEN = 256).  The pass sizes  *)
(* cover every rejected form (negative, zero, too small, not a power of   *)
(* two) and every accepted size that fits the wrappers' buffers; the      *)
(* overflow sizes are the smallest accepted sizes that do not fit.        *)
EXTENDS SeedRandom, Bitwise

(* The size check of dnet_generate_random_array, size < 4 || size &        *)
(* (size - 1), rejects exactly the sizes Rejected names.                   *)
ASSUME RejectedIsBitTest ==
  \A s \in -16..1100 : Rejected(s) = (s < 4 \/ (s & (s - 1)) # 0)

MCArraySizes == {-65536, -4, -1, 0, 1, 2, 3, 4, 6, 8, 12, 16, 24, 31, 32}
MCBytesSizes == {-8, 0, 2, 3, 4, 6, 8}
MCArrayOverflow == {64}
MCBytesOverflow == {16, 512}
=============================================================================
