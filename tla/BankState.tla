----------------------------- MODULE BankState -----------------------------
(***************************************************************************)
(* The state of a DRAM bank as the memory controller and the rank each     *)
(* keep it (src/DRAMSim2/BankState.cpp), and the delays of                 *)
(* src/DRAMSim2/SystemConfiguration.h.  A time nextX of the code is        *)
(* modelled by how far it lies ahead, max(nextX - currentClockCycle, 0):   *)
(* "currentClockCycle >= nextX" is nextX = 0, and "max(currentClockCycle + *)
(* d, nextX)" is the larger of d and nextX.                                *)
(***************************************************************************)
EXTENDS Integers, Sequences, SequencesExt

CONSTANTS NumRanks, NumBanks,
          T             \* the timing parameters of the device ini file, in cycles

Ranks == 0 .. (NumRanks - 1)
Banks == 0 .. (NumBanks - 1)

Later(x, y) == IF x >= y THEN x ELSE y
Down(x) == IF x > 0 THEN x - 1 ELSE 0

RL == T.CL + T.AL
WL == RL - 1
Burst == T.BL \div 2
ReadToPre == T.AL + Burst + Later(T.tRTP, 2) - 2
WriteToPre == WL + Burst + T.tWR
ReadToWrite == RL + Burst + T.tRTRS - WL
ReadAutopre == T.AL + T.tRTP + T.tRP
WriteAutopre == WL + Burst + T.tWR + T.tRP
WriteToReadB == WL + Burst + T.tWTR
WriteToReadR == WL + Burst + T.tRTRS - RL

(* What the data bus and the command bus need of the parameters, as the    *)
(* ini files have them: a burst takes a cycle or more, write data follow   *)
(* their command, and a column access to a rank that was idle follows an   *)
(* activate.                                                               *)
ASSUME TimingAssumption ==
  /\ NumRanks \in Nat \ {0} /\ NumBanks \in Nat \ {0}
  /\ T \in [{"CL", "AL", "BL", "tRAS", "tRCD", "tRRD", "tRC", "tRP", "tCCD", "tRTP",
             "tWTR", "tWR", "tRTRS", "tRFC", "tFAW", "tCKE", "tXP", "tCMD"} -> Nat]
  /\ T.tCMD = 1 /\ T.tRTRS >= 1 /\ T.BL >= 2 /\ RL >= 2
  /\ T.tRCD - T.AL > Burst

(* BankState::BankState: every bank starts precharged.  The rank does not  *)
(* use lastCommand and stateChangeCountdown.                               *)
NewBank == [state |-> "Idle", row |-> 0, nextRead |-> 0, nextWrite |-> 0,
            nextActivate |-> 0, nextPrecharge |-> 0, nextPowerUp |-> 0,
            last |-> "READ", countdown |-> 0]

(* One cycle passes. *)
Older(b) == [b EXCEPT !.nextRead = Down(@), !.nextWrite = Down(@),
                      !.nextActivate = Down(@), !.nextPrecharge = Down(@),
                      !.nextPowerUp = Down(@)]

(* Packets on the command and the data bus (BusPacket). *)
NoPacket == [type |-> "none"]

Packet(type, a, r, b, row) ==
  [type |-> type, addr |-> a, rank |-> r, bank |-> b, row |-> row]

IsRead(p) == p.type \in {"READ", "READ_P"}
IsWrite(p) == p.type \in {"WRITE", "WRITE_P"}

=============================================================================
