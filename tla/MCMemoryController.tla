------------------------- MODULE MCMemoryController -------------------------
(* Two ranks of three banks and two rows, with delays scaled down from the *)
(* device files but in the same order.                                     *)
EXTENDS MemoryController

MCT == [CL |-> 2, AL |-> 0, BL |-> 4, tRAS |-> 6, tRCD |-> 3, tRRD |-> 2, tRC |-> 8,
        tRP |-> 2, tCCD |-> 2, tRTP |-> 2, tWTR |-> 1, tWR |-> 2, tRTRS |-> 1,
        tRFC |-> 4, tFAW |-> 6, tCKE |-> 2, tXP |-> 2, tCMD |-> 1]

MCWidth == [rank |-> 1, bank |-> 2, col |-> 0, row |-> 1]

(* Two rows of one bank, and the last bank of the other rank.              *)
MCTransactions == [addr : {0}, write : BOOLEAN] \cup [addr : {8}, write : {FALSE}]
                    \cup [addr : {5}, write : {TRUE}]

(* Every structure and page policy, with each scheduling policy and with   *)
(* and without low power.                                                  *)
MCConfigs ==
  {[structure |-> s, page |-> p, policy |-> x[1], lowPower |-> x[2]] :
     s \in {"PerRank", "PerRankPerBank"}, p \in {"Open", "Close"},
     x \in {<<"RankThenBank", TRUE>>, <<"BankThenRank", FALSE>>}}
=============================================================================
