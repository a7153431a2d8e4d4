-------------------------------- MODULE Rank --------------------------------
(***************************************************************************)
(* A rank of DRAM devices (src/DRAMSim2/Rank.cpp).  It keeps its own bank  *)
(* states, checks every command that reaches it and holds the data of a    *)
(* read until it goes on the data bus.                                     *)
(***************************************************************************)
EXTENDS BankState

NewRank == [bank |-> [b \in Banks |-> NewBank], down |-> FALSE,
            refreshWaiting |-> FALSE, returning |-> <<>>,
            out |-> NoPacket, left |-> 0]

(* The conditions under which receiveFromBus exits with an error. *)
Rejects(k, p) ==
  LET b == k.bank[p.bank]
  IN  CASE IsRead(p) -> b.state # "RowActive" \/ b.nextRead > 0 \/ b.row # p.row
        [] IsWrite(p) -> b.state # "RowActive" \/ b.nextWrite > 0 \/ b.row # p.row
        [] p.type = "ACTIVATE" -> b.state # "Idle" \/ b.nextActivate > 0
        [] p.type = "PRECHARGE" -> b.state # "RowActive" \/ b.nextPrecharge > 0
        [] p.type = "REFRESH" -> \E x \in Banks : k.bank[x].state # "Idle"
        [] OTHER -> FALSE

(* The read data waits for RL cycles (Bank::read; storage is not modelled). *)
Returning(k, p) ==
  Append(k.returning, [p |-> [p EXCEPT !.type = "DATA"], in |-> RL])

Column(bank, rd, wr) ==
  [b \in Banks |-> [bank[b] EXCEPT !.nextRead = Later(@, rd), !.nextWrite = Later(@, wr)]]

(* Rank::receiveFromBus, once the command is accepted. *)
Receive(k, p) ==
  CASE p.type = "READ" ->
         [k EXCEPT !.bank = [Column(@, Later(T.tCCD, Burst), ReadToWrite) EXCEPT
                     ![p.bank].nextPrecharge = Later(@, ReadToPre)],
                   !.returning = Returning(k, p)]
    [] p.type = "READ_P" ->
         [k EXCEPT !.bank = [Column(@, Later(T.tCCD, Burst), ReadToWrite) EXCEPT
                     ![p.bank].state = "Idle",
                     ![p.bank].nextActivate = Later(@, ReadAutopre)],
                   !.returning = Returning(k, p)]
    [] p.type = "WRITE" ->
         [k EXCEPT !.bank = [Column(@, WriteToReadB, Later(T.tCCD, Burst)) EXCEPT
                     ![p.bank].nextPrecharge = Later(@, WriteToPre)]]
    [] p.type = "WRITE_P" ->
         [k EXCEPT !.bank[p.bank].state = "Idle",
                   !.bank[p.bank].nextActivate = Later(@, WriteToPre),
                   !.bank[p.bank].nextWrite = Later(@, Later(T.tCCD, Burst)),
                   !.bank[p.bank].nextRead = Later(@, WriteToReadB)]
    [] p.type = "ACTIVATE" ->
         [k EXCEPT !.bank = [b \in Banks |->
            IF b = p.bank
            THEN [@[b] EXCEPT !.state = "RowActive", !.row = p.row, !.nextActivate = T.tRC,
                              !.nextRead = T.tRCD - T.AL, !.nextWrite = T.tRCD - T.AL,
                              !.nextPrecharge = T.tRAS]
            ELSE [@[b] EXCEPT !.nextActivate = Later(k.bank[b].nextActivate, T.tRRD)]]]
    [] p.type = "PRECHARGE" ->
         [k EXCEPT !.bank[p.bank].state = "Idle",
                   !.bank[p.bank].nextActivate = Later(@, T.tRP)]
    [] p.type = "REFRESH" ->
         [k EXCEPT !.refreshWaiting = FALSE,
                   !.bank = [b \in Banks |-> [@[b] EXCEPT !.nextActivate = T.tRFC]]]
    [] OTHER -> k   \* DATA: the end of the line for the write packet

(* Rank::update.  Arrived(k) is the packet that leaves the data bus now;   *)
(* the next one goes on the bus without a look at who is there.            *)
Arrived(k) == IF k.out # NoPacket /\ k.left = 1 THEN k.out ELSE NoPacket

RankUpdate(k) ==
  LET waited == [i \in DOMAIN k.returning |-> [k.returning[i] EXCEPT !.in = @ - 1]]
      sent == [k EXCEPT !.out = IF k.left = 1 THEN NoPacket ELSE @, !.left = Down(@),
                        !.returning = waited]
  IN  IF waited # <<>> /\ Head(waited).in = 0
      THEN [sent EXCEPT !.out = Head(waited).p, !.left = Burst, !.returning = Tail(waited)]
      ELSE sent

(* One cycle passes. *)
Aged(k) == [k EXCEPT !.bank = [b \in Banks |-> Older(@[b])]]

(* Rank::powerDown and powerUp, with the checks that exit. *)
MayPowerDown(k) == \A b \in Banks : k.bank[b].state = "Idle"

PowerDown(k) ==
  [k EXCEPT !.down = TRUE,
            !.bank = [b \in Banks |-> [@[b] EXCEPT !.state = "PowerDown", !.nextPowerUp = T.tCKE]]]

MayPowerUp(k) == k.down /\ \A b \in Banks : k.bank[b].nextPowerUp = 0

PowerUp(k) ==
  [k EXCEPT !.down = FALSE,
            !.bank = [b \in Banks |-> [@[b] EXCEPT !.state = "Idle", !.nextActivate = T.tXP]]]

=============================================================================
