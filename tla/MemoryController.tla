-------------------------- MODULE MemoryController --------------------------
(***************************************************************************)
(* DRAMSim2 (src/DRAMSim2): MemorySystem::update runs every rank and then  *)
(* the memory controller for one clock cycle; addTransaction hands it a    *)
(* read or a write between two cycles.  Energy and statistics are left     *)
(* out, and so are the stored data (DRAMSim2 returns addresses only).      *)
(*                                                                         *)
(* The memory system m is a record: the fields of CommandQueue and         *)
(*   ranks       rank -> state of Rank                                     *)
(*   cmd, data   the packets on the two buses with their cycles left       *)
(*   writes      writeDataToSend with writeDataCountdown                   *)
(*   countdown   refreshCountdown, turn  refreshRank of the controller     *)
(*   down        powerDown                                                 *)
(*   trans       transactionQueue, extra  MemorySystem::pendingTransactions*)
(*   reads       pendingReadTransactions, returns  returnTransaction       *)
(*   error       an error exit was reached                                 *)
(*   done        read and write callbacks made                             *)
(***************************************************************************)
EXTENDS CommandQueue, Rank

CONSTANTS Configs,          \* settings of system.ini: structure, page, policy, lowPower
          Width,            \* bits of an address: bank, col, row, rank
          Scheme,           \* ADDRESS_MAPPING_SCHEME
          Transactions,     \* the transactions made: address and whether a write
          TransQueueDepth,  \* TRANS_QUEUE_DEPTH
          RefreshPeriod,    \* REFRESH_PERIOD / tCK
          MaxTransactions,  \* bound on the transactions of a behaviour
          Stride            \* bound: transactions come every Stride cycles only

ASSUME ControllerAssumption ==
  /\ CmdQueueDepth \in Nat /\ CmdQueueDepth >= 2
  /\ TransQueueDepth \in Nat \ {0} /\ TotalRowAccesses \in Nat \ {0}
  /\ RefreshPeriod \in Nat /\ RefreshPeriod >= NumRanks
  /\ MaxTransactions \in Nat /\ Stride \in Nat \ {0}
  /\ \A c \in Configs : /\ c.structure \in {"PerRank", "PerRankPerBank"}
                        /\ c.page \in {"Open", "Close"}

VARIABLES m, sent
vars == <<m, sent>>

Init ==
  /\ sent = 0
  /\ \E c \in Configs :
       m = [config |-> c,
            queue |-> [r \in Ranks |-> [b \in Banks |-> <<>>]],
            bank |-> [r \in Ranks |-> [b \in Banks |-> NewBank]],
            rowAccess |-> [r \in Ranks |-> [b \in Banks |-> 0]],
            faw |-> [r \in Ranks |-> <<>>],
            at |-> <<0, 0>>, pre |-> <<0, 0>>, sendAct |-> TRUE, refresh |-> NoRank,
            ranks |-> [r \in Ranks |-> NewRank],
            cmd |-> [p |-> NoPacket, left |-> 0], data |-> [p |-> NoPacket, left |-> 0],
            writes |-> <<>>,
            countdown |-> [r \in Ranks |-> (RefreshPeriod \div NumRanks) * (r + 1)],
            turn |-> 0, down |-> [r \in Ranks |-> FALSE],
            trans |-> <<>>, extra |-> <<>>, reads |-> <<>>, returns |-> <<>>,
            error |-> FALSE, done |-> 0]

-----------------------------------------------------------------------------
(* MemoryController::addressMapping: the fields from the lowest bits up.   *)
FieldOrder ==
  CASE Scheme = 1 -> <<"bank", "col", "row", "rank">>
    [] Scheme = 2 -> <<"rank", "bank", "col", "row">>
    [] Scheme = 3 -> <<"row", "col", "bank", "rank">>
    [] Scheme = 4 -> <<"col", "row", "bank", "rank">>
    [] Scheme = 5 -> <<"bank", "rank", "col", "row">>
    [] Scheme = 6 -> <<"col", "rank", "bank", "row">>

Field(a, name) ==
  LET below[i \in 1 .. 5] == IF i = 1 THEN 1 ELSE below[i - 1] * 2 ^ Width[FieldOrder[i - 1]]
      i == CHOOSE j \in 1 .. 4 : FieldOrder[j] = name
  IN  (a \div below[i]) % 2 ^ Width[name]

To(type, a) == Packet(type, a, Field(a, "rank"), Field(a, "bank"), Field(a, "row"))

(* The addresses are those of the memory there is. *)
ASSUME AddressAssumption ==
  \A t \in Transactions : /\ Field(t.addr, "rank") \in Ranks /\ Field(t.addr, "bank") \in Banks
                          /\ t.write \in BOOLEAN

-----------------------------------------------------------------------------
(* The steps of MemorySystem::update and MemoryController::update.         *)

(* Every rank's update, which may hand a read's data to the controller. *)
UpdateRanks(s) ==
  LET arrived == SelectSeq([i \in 1 .. NumRanks |-> Arrived(s.ranks[i - 1])],
                           LAMBDA p : p # NoPacket)
  IN  [s EXCEPT !.ranks = [r \in Ranks |-> RankUpdate(@[r])],
                !.returns = @ \o [i \in DOMAIN arrived |-> arrived[i].addr]]

(* Mutant: a transaction that found the controller full is forgotten. *)
AdmitNone(s) == s

(* One transaction that found the controller full. *)
AdmitExtra(s) ==
  IF s.extra # <<>> /\ Len(s.trans) < TransQueueDepth
  THEN [s EXCEPT !.trans = Append(@, Head(s.extra)), !.extra = Tail(@)]
  ELSE s

(* The state changes that a command only announced. *)
UpdateBank(b) ==
  CASE b.countdown # 1 -> [b EXCEPT !.countdown = Down(@)]
    [] b.countdown = 1 /\ b.last \in {"WRITE_P", "READ_P"} ->
         [b EXCEPT !.state = "Precharging", !.last = "PRECHARGE", !.countdown = T.tRP]
    [] b.countdown = 1 /\ b.last \in {"REFRESH", "PRECHARGE"} ->
         [b EXCEPT !.state = "Idle", !.countdown = 0]
    [] OTHER -> [b EXCEPT !.countdown = 0]

UpdateBanks(s) ==
  [s EXCEPT !.bank = [r \in Ranks |-> [b \in Banks |-> UpdateBank(@[r][b])]]]

(* A packet at the end of the command bus. *)
DeliverCommand(s) ==
  LET p == s.cmd.p
  IN  IF p = NoPacket \/ s.cmd.left > 1 THEN [s EXCEPT !.cmd.left = Down(@)]
      ELSE [s EXCEPT !.cmd = [p |-> NoPacket, left |-> 0],
                     !.error = @ \/ Rejects(s.ranks[p.rank], p),
                     !.ranks[p.rank] = Receive(@, p)]

(* Write data at the end of the data bus: the write is done. *)
DeliverData(s) ==
  LET p == s.data.p
  IN  IF p = NoPacket \/ s.data.left > 1 THEN [s EXCEPT !.data.left = Down(@)]
      ELSE [s EXCEPT !.data = [p |-> NoPacket, left |-> 0], !.done = @ + 1,
                     !.ranks[p.rank] = Receive(@, p)]

(* Write data whose time has come goes on the data bus. *)
SendWriteData(s) ==
  LET waited == [i \in DOMAIN s.writes |-> [s.writes[i] EXCEPT !.in = @ - 1]]
  IN  IF waited = <<>> \/ Head(waited).in # 0 THEN [s EXCEPT !.writes = waited]
      ELSE [s EXCEPT !.writes = Tail(waited),
                     !.error = @ \/ s.data.p # NoPacket,
                     !.data = [p |-> Head(waited).p, left |-> Burst]]

(* Mutant: the rank is marked after refreshRank was advanced. *)
RefreshDueAdvanced(s) ==
  LET r == s.turn
  IN  IF s.countdown[r] # 0 THEN s
      ELSE [s EXCEPT !.refresh = r, !.ranks[(r + 1) % NumRanks].refreshWaiting = TRUE,
                     !.countdown[r] = RefreshPeriod, !.turn = (r + 1) % NumRanks]

(* A refresh is due; a rank that is powered down is woken in time.         *)
RefreshDue(s) ==
  LET r == s.turn
  IN  CASE s.countdown[r] = 0 ->
             [s EXCEPT !.refresh = r, !.ranks[r].refreshWaiting = TRUE,
                       !.countdown[r] = RefreshPeriod, !.turn = (r + 1) % NumRanks]
        [] s.countdown[r] # 0 /\ s.down[r] /\ s.countdown[r] <= T.tXP ->
             [s EXCEPT !.ranks[r].refreshWaiting = TRUE]
        [] OTHER -> s

(* Mutant: the other ranks are forgotten. *)
AfterColumnSameRank(s, p) ==
  LET rd == IF IsRead(p) THEN Later(T.tCCD, Burst) ELSE WriteToReadB
      wr == IF IsRead(p) THEN ReadToWrite ELSE Later(T.tCCD, Burst)
  IN  [s EXCEPT !.bank[p.rank] = [b \in Banks |->
         [@[b] EXCEPT !.nextRead = Later(@, rd), !.nextWrite = Later(@, wr)]]]

(* What a column access does to the times of all banks: those of other     *)
(* ranks only where a row is open.                                         *)
AfterColumn(s, p) ==
  LET same == IF IsRead(p) THEN [rd |-> Later(T.tCCD, Burst), wr |-> ReadToWrite]
              ELSE [rd |-> WriteToReadB, wr |-> Later(T.tCCD, Burst)]
      other == IF IsRead(p) THEN [rd |-> Burst + T.tRTRS, wr |-> ReadToWrite]
               ELSE [rd |-> WriteToReadR, wr |-> Burst + T.tRTRS]
      wait(bank, d) == [bank EXCEPT !.nextRead = Later(@, d.rd), !.nextWrite = Later(@, d.wr)]
  IN  [s EXCEPT !.bank = [r \in Ranks |-> [b \in Banks |->
         CASE r = p.rank -> wait(@[r][b], same)
           [] r # p.rank /\ @[r][b].state = "RowActive" -> wait(@[r][b], other)
           [] OTHER -> @[r][b]]]]

(* A column access with auto-precharge: nothing more before the activate. *)
AfterAuto(s, p, active, pre) ==
  LET next == Later(active, s.bank[p.rank][p.bank].nextActivate)
      after(b) == [b EXCEPT !.nextActivate = next, !.nextRead = next, !.nextWrite = next,
                            !.last = p.type, !.countdown = pre]
  IN  [AfterColumn(s, p) EXCEPT !.bank[p.rank][p.bank] = after(@)]

AfterRow(s, p, pre) ==
  LET after(b) == [b EXCEPT !.nextPrecharge = Later(@, pre), !.last = p.type]
  IN  [AfterColumn(s, p) EXCEPT !.bank[p.rank][p.bank] = after(@)]

(* Mutant: the activate does not keep its row open for tRAS. *)
AfterActivateNoRas(s, p) ==
  [s EXCEPT !.bank[p.rank][p.bank] =
     [@ EXCEPT !.state = "RowActive", !.last = "ACTIVATE", !.row = p.row,
               !.nextActivate = Later(@, T.tRC), !.nextPrecharge = 0,
               !.nextRead = Later(@, T.tRCD - T.AL), !.nextWrite = Later(@, T.tRCD - T.AL)]]

AfterActivate(s, p) ==
  LET opened(b) == [b EXCEPT !.state = "RowActive", !.last = "ACTIVATE", !.row = p.row,
                             !.nextActivate = Later(@, T.tRC), !.nextPrecharge = Later(@, T.tRAS),
                             !.nextRead = Later(@, T.tRCD - T.AL),
                             !.nextWrite = Later(@, T.tRCD - T.AL)]
      other(b) == [b EXCEPT !.nextActivate = Later(@, T.tRRD)]
  IN  [s EXCEPT !.bank[p.rank] = [b \in Banks |-> IF b = p.bank THEN opened(@[b])
                                                                ELSE other(@[b])]]

AfterPrecharge(s, p) ==
  LET closed(b) == [b EXCEPT !.state = "Precharging", !.last = "PRECHARGE",
                             !.countdown = T.tRP, !.nextActivate = Later(@, T.tRP)]
  IN  [s EXCEPT !.bank[p.rank][p.bank] = closed(@)]

(* The controller's bank states after a command was popped. *)
Issued(s, p) ==
  CASE p.type = "READ" -> AfterRow(s, p, ReadToPre)
    [] p.type = "WRITE" -> AfterRow(s, p, WriteToPre)
    [] p.type = "READ_P" -> AfterAuto(s, p, ReadAutopre, ReadToPre)
    [] p.type = "WRITE_P" -> AfterAuto(s, p, WriteAutopre, WriteToPre)
    [] p.type = "ACTIVATE" -> AfterActivate(s, p)
    [] p.type = "PRECHARGE" -> AfterPrecharge(s, p)
    [] p.type = "REFRESH" ->
         [s EXCEPT !.bank[p.rank] = [b \in Banks |->
            [@[b] EXCEPT !.state = "Refreshing", !.last = "REFRESH",
                         !.countdown = T.tRFC, !.nextActivate = T.tRFC]]]

(* Pop a command, note its write data, put it on the command bus. *)
IssueCommand(s) ==
  LET res == Pop(s)
      p == res.packet
      noted == IF IsWrite(p)
               THEN [res.m EXCEPT !.writes = Append(@, [p |-> [p EXCEPT !.type = "DATA"],
                                                        in |-> WL])]
               ELSE res.m
  IN  IF p = NoPacket THEN res.m
      ELSE [Issued(noted, p) EXCEPT !.error = @ \/ s.cmd.p # NoPacket,
                                    !.cmd = [p |-> p, left |-> T.tCMD]]

(* A transaction becomes an activate and a column access. *)
Split(s, t) ==
  LET type == CASE t.write /\ s.config.page = "Open" -> "WRITE"
                [] t.write /\ s.config.page = "Close" -> "WRITE_P"
                [] ~t.write /\ s.config.page = "Open" -> "READ"
                [] ~t.write /\ s.config.page = "Close" -> "READ_P"
  IN  [Enqueue(Enqueue(s, To("ACTIVATE", t.addr)), To(type, t.addr)) EXCEPT
         !.reads = IF t.write THEN @ ELSE Append(@, t.addr)]

(* The loop over the transaction queue.  It erases element i and still     *)
(* increments i, so the transaction behind an accepted one is passed over  *)
(* until the next cycle.                                                   *)
SplitAt(s, i) ==
  LET t == s.trans[i]
  IN  IF i <= Len(s.trans) /\ HasRoomFor(s, 2, Field(t.addr, "rank"), Field(t.addr, "bank"))
      THEN [Split(s, t) EXCEPT !.trans = RemoveAt(@, i)]
      ELSE s

SplitTransactions(s) ==
  LET walk[i \in 0 .. Len(s.trans)] == IF i = 0 THEN s ELSE SplitAt(walk[i - 1], i)
  IN  walk[Len(s.trans)]

(* Power down each rank with nothing to do, power it up when there is.     *)
Rests(s, r) == IsEmpty(s, r) /\ ~s.ranks[r].refreshWaiting
GoesDown(s, r) == Rests(s, r) /\ \A b \in Banks : s.bank[r][b].state = "Idle"
ComesUp(s, r) == ~Rests(s, r) /\ s.bank[r][0].nextPowerUp = 0 /\ s.down[r]
PowerFails(s, r) == \/ GoesDown(s, r) /\ ~MayPowerDown(s.ranks[r])
                    \/ ComesUp(s, r) /\ ~MayPowerUp(s.ranks[r])

PowerRanks(s) ==
  IF ~s.config.lowPower THEN s
  ELSE [s EXCEPT
         !.down = [r \in Ranks |-> GoesDown(s, r) \/ (@[r] /\ ~ComesUp(s, r))],
         !.error = @ \/ (\E r \in Ranks : PowerFails(s, r)),
         !.ranks = [r \in Ranks |-> CASE GoesDown(s, r) -> PowerDown(@[r])
                                      [] ComesUp(s, r) -> PowerUp(@[r])
                                      [] OTHER -> @[r]],
         !.bank = [r \in Ranks |-> [b \in Banks |->
           CASE GoesDown(s, r) -> [@[r][b] EXCEPT !.state = "PowerDown", !.nextPowerUp = T.tCKE]
             [] ComesUp(s, r) -> [@[r][b] EXCEPT !.state = "Idle", !.nextActivate = T.tXP]
             [] OTHER -> @[r][b]]]]

(* Read data goes to the CPU: the first pending read of its address.       *)
ReturnRead(s) ==
  LET i == First({j \in DOMAIN s.reads : s.reads[j] = Head(s.returns)})
  IN  IF s.returns = <<>> THEN s
      ELSE [s EXCEPT !.returns = Tail(@),
                     !.reads = IF i = 0 THEN @ ELSE RemoveAt(@, i),
                     !.done = IF i = 0 THEN @ ELSE @ + 1]

(* The refresh counters and the clocks. *)
Tick(s) ==
  [s EXCEPT !.countdown = [r \in Ranks |-> @[r] - 1],
            !.bank = [r \in Ranks |-> [b \in Banks |-> Older(@[r][b])]],
            !.ranks = [r \in Ranks |-> Aged(@[r])]]

-----------------------------------------------------------------------------
(* MemorySystem::update *)
Cycle ==
  LET begun == UpdateBanks(AdmitExtra(UpdateRanks(m)))
      buses == SendWriteData(DeliverData(DeliverCommand(begun)))
      issued == IssueCommand(RefreshDue(buses))
  IN  /\ m' = Tick(ReturnRead(PowerRanks(SplitTransactions(issued))))
      /\ UNCHANGED sent

(* MemorySystem::addTransaction.  Bounded: one burst of transactions, in   *)
(* some of the cycles.                                                     *)
AddTransaction(t) ==
  /\ sent < MaxTransactions
  /\ m.countdown[0] % Stride = 0
  /\ sent > 0 => m.done < sent
  /\ sent' = sent + 1
  /\ m' = IF Len(m.trans) < TransQueueDepth THEN [m EXCEPT !.trans = Append(@, t)]
          ELSE [m EXCEPT !.extra = Append(@, t)]

Next == Cycle \/ \E t \in Transactions : AddTransaction(t)

(* The clock keeps running: every cycle changes the refresh counters. *)
Spec == Init /\ [][Next]_vars
FairSpec == Spec /\ []<><<m'.countdown # m.countdown>>_vars

-----------------------------------------------------------------------------
(* Properties.                                                             *)

(* Type invariant: the queues keep to their depths, a counter never passes *)
(* below zero, and the pointers name banks that exist.                     *)
TypeOK ==
  /\ m.config \in Configs
  /\ m.at \in Ranks \X Banks /\ m.pre \in Ranks \X Banks
  /\ m.refresh \in Ranks \cup {NoRank} /\ m.turn \in Ranks
  /\ \A r \in Ranks, b \in Banks :
       /\ Len(m.queue[r][b]) <= CmdQueueDepth
       /\ m.rowAccess[r][b] \in 0 .. TotalRowAccesses
  /\ \A r \in Ranks : m.countdown[r] \in 0 .. RefreshPeriod /\ Len(m.faw[r]) <= 4
  /\ Len(m.trans) <= TransQueueDepth

(* No error exit of DRAMSim2 is reached: the rank accepts every command    *)
(* the controller sends a cycle earlier (Rank::receiveFromBus), no two     *)
(* commands or bursts collide, and a rank is powered up and down only when *)
(* it may be.                                                              *)
NoError == ~m.error

(* One burst at a time is on the data bus that the controller and all      *)
(* ranks share; the code itself only detects two writes.                   *)
DataBusIsExclusive ==
  LET senders == {r \in Ranks : m.ranks[r].out # NoPacket}
  IN  Cardinality(senders) + (IF m.data.p # NoPacket THEN 1 ELSE 0) <= 1

(* A column access in the command queue will get its row: its own activate *)
(* is right in front of it, or its row is open.  Nothing else would ever   *)
(* open the row for it.                                                    *)
ColumnHasRow ==
  \A r \in Ranks, b \in Banks : \A i \in DOMAIN m.queue[r][b] :
    LET q == m.queue[r][b]
        bank == m.bank[r][q[i].bank]
    IN  q[i].type = "ACTIVATE" \/
          \/ i > 1 /\ q[i - 1].type = "ACTIVATE" /\ q[i - 1].addr = q[i].addr
          \/ bank.state = "RowActive" /\ bank.row = q[i].row

(* A rank that was told to wait for a refresh is the one the command queue *)
(* refreshes next, or its refresh is on the bus, or it is its turn and it  *)
(* is being woken: needRefresh never overwrites another rank's request.    *)
RefreshIsComing ==
  \A r \in Ranks : m.ranks[r].refreshWaiting =>
    \/ m.refresh = r
    \/ m.cmd.p # NoPacket /\ m.cmd.p.type = "REFRESH" /\ m.cmd.p.rank = r
    \/ m.turn = r /\ m.countdown[r] <= T.tXP

(* Every transaction completes, although the queue loop passes over some   *)
(* and rows are closed only when nothing else can be done.                 *)
TransactionsComplete == <>[](m.done = sent)

=============================================================================
