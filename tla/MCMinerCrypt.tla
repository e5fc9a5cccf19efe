---------------------------- MODULE MCMinerCrypt ----------------------------
(* MinerCrypt with two plaintext arrays of up to 2 blocks at two sector   *)
(* numbers, so that blocks of one array, arrays at neighbouring sector    *)
(* numbers and prefixes can be confused, and of 17 blocks, one more than   *)
(* buf[512] holds; malloc may fail.                                        *)
EXTENDS MinerCrypt

CONSTANTS pa, pb

MCPlains == {pa, pb}
MCOverflowNFileds == {16, 17}
=============================================================================
