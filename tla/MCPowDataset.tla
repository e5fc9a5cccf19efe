---------------------------- MODULE MCPowDataset ----------------------------
(* PowDataset on a dataset of 7 items, so that 7 \div jminers leaves a     *)
(* remainder for 2 and 5 workers, and 8 workers get an empty share each.   *)
EXTENDS PowDataset

MCItemCount == 7
MCMiners == {0, 1, 2, 5, 8}
=============================================================================
