----------------------- MODULE MemoryController_proofs -----------------------
(* DRAMSim2's controller for any number of ranks and banks, any delays,     *)
(* queue depths and settings: types, every column access in the command     *)
(* queue finds its row, and one burst at a time is on the data bus.  The    *)
(* first two do not depend on the delays: they only say when a command may  *)
(* leave, and Inv holds whenever it does.  The third does: BusInv relates   *)
(* the times the banks wait for to the bursts that are still to come.       *)
EXTENDS MemoryController, FiniteSetTheorems, SequenceTheorems, WellFoundedInduction,
        TLAPS

(* The commands of the queues: those of the transactions there are. *)
Commands == {To(type, t.addr) : type \in {"ACTIVATE", "READ", "READ_P", "WRITE", "WRITE_P"},
                                t \in Transactions}

Fields == {"config", "queue", "bank", "rowAccess", "faw", "at", "pre", "sendAct", "refresh",
           "ranks", "cmd", "data", "writes", "countdown", "turn", "down", "trans", "extra",
           "reads", "returns", "error", "done"}
BankFields == {"state", "row", "nextRead", "nextWrite", "nextActivate", "nextPrecharge",
               "nextPowerUp", "last", "countdown"}

(* The types of the fields the controller decides by. *)
QueueShape(s) ==
  /\ s.queue \in [Ranks -> [Banks -> Seq(Commands)]]
  /\ s.rowAccess \in [Ranks -> [Banks -> 0 .. TotalRowAccesses]]
  /\ s.faw \in [Ranks -> Seq(Int)] /\ \A r \in Ranks : Len(s.faw[r]) <= 4
  /\ s.at \in Ranks \X Banks /\ s.pre \in Ranks \X Banks

BankShape(s) ==
  /\ DOMAIN s.bank = Ranks
  /\ \A r \in Ranks : /\ DOMAIN s.bank[r] = Banks
                      /\ \A b \in Banks : DOMAIN s.bank[r][b] = BankFields

RankShape(s) ==
  /\ s.refresh \in Ranks \cup {NoRank} /\ s.turn \in Ranks
  /\ s.countdown \in [Ranks -> 0 .. RefreshPeriod]
  /\ s.down \in [Ranks -> BOOLEAN]

TransactionShape(s) ==
  /\ s.trans \in Seq(Transactions) /\ Len(s.trans) <= TransQueueDepth
  /\ s.extra \in Seq(Transactions)

Shape(s) ==
  /\ DOMAIN s = Fields /\ s.config \in Configs
  /\ QueueShape(s) /\ BankShape(s) /\ RankShape(s) /\ TransactionShape(s)

(* A queue holds pairs of an activate and its column access.  A column     *)
(* access whose activate has gone is an orphan.                            *)
IsActivate(p) == p.type = "ACTIVATE"
Paired(q, i) == i > 1 /\ IsActivate(q[i - 1]) /\ q[i - 1].addr = q[i].addr
Orphan(q, i) == i \in DOMAIN q /\ ~IsActivate(q[i]) /\ ~Paired(q, i)

Pairs(q) == \A i \in DOMAIN q : IsActivate(q[i]) =>
              i + 1 \in DOMAIN q /\ ~IsActivate(q[i + 1]) /\ q[i + 1].addr = q[i].addr

(* The bank of an orphan: its row is open, nothing will close it, and the  *)
(* row has not been used by a later access.                                *)
Opened(s, p) ==
  LET x == s.bank[p.rank][p.bank]
  IN  /\ x.state = "RowActive" /\ x.row = p.row /\ x.last \in {"ACTIVATE", "READ", "WRITE"}
      /\ s.rowAccess[p.rank][p.bank] = 0

(* An orphan is the only one of its bank, and with open pages it is the    *)
(* first access to its row.                                                *)
Alone(s, q, i) ==
  /\ \A j \in DOMAIN q : Orphan(q, j) /\ q[j].bank = q[i].bank => j = i
  /\ s.config.page = "Open" =>
       \A j \in 1 .. (i - 1) :
         IsActivate(q[j]) \/ q[j].bank # q[i].bank \/ q[j].row # q[i].row

ColumnTypes(s) == IF s.config.page = "Open" THEN {"READ", "WRITE"} ELSE {"READ_P", "WRITE_P"}

(* A queue is that of its rank and bank, and its orphans find their row.   *)
QueueOK(s, r, b) ==
  LET q == s.queue[r][b]
  IN  /\ Len(q) <= CmdQueueDepth /\ Pairs(q)
      /\ \A i \in DOMAIN q : /\ q[i].rank = r /\ QueueBank(s, q[i].bank) = b
                             /\ IsActivate(q[i]) \/ q[i].type \in ColumnTypes(s)
      /\ \A i \in DOMAIN q : Orphan(q, i) => Opened(s, q[i]) /\ Alone(s, q, i)

(* What a bank is about to do fits its state; only an open row has been    *)
(* accessed; a rank that is powered down has all its banks powered down.   *)
BankOK(s, r, b) ==
  LET x == s.bank[r][b]
  IN  /\ x.state \in {"Idle", "PowerDown"} => x.countdown = 0
      /\ x.state = "RowActive" => x.last \in {"ACTIVATE", "READ", "WRITE"} \cup ColumnTypes(s)
      /\ s.rowAccess[r][b] # 0 => s.config.page = "Open" /\ x.state = "RowActive"
      /\ s.down[r] => x.state = "PowerDown"

(* The refreshes come one after the other, beginning with turn.            *)
InTurn(c, turn) ==
  /\ \A r, x \in Ranks : r < x /\ (x < turn \/ turn <= r) => c[r] < c[x]
  /\ \A r, x \in Ranks : r < turn /\ turn <= x => c[x] < c[r]
  /\ c[turn] = 0 => \A r \in Ranks : c[r] < RefreshPeriod

(* The inductive invariant: it holds at the beginning and between any two  *)
(* of the operators a cycle is made of.                                    *)
Inv(s) ==
  /\ Shape(s)
  /\ \A r \in Ranks, b \in Banks : QueueOK(s, r, b) /\ BankOK(s, r, b)
  /\ InTurn(s.countdown, s.turn)
-----------------------------------------------------------------------------
(* Steps that leave what the controller decides by alone.                  *)

(* d is s but for the fields of F. *)
Frame(s, d, F) == DOMAIN d = Fields /\ \A f \in Fields \ F : d[f] = s[f]

(* The fields the invariant says nothing of. *)
Others == {"sendAct", "ranks", "cmd", "data", "writes", "reads", "returns", "error", "done"}

(* An assignment to fields of F. *)
LEMMA FrameTwice ==
  ASSUME NEW s, NEW d, NEW e, NEW F, Frame(s, d, F), Frame(d, e, F)
  PROVE  Frame(s, e, F)
  BY DEF Frame

(* The queues and banks do not depend on refresh counters and transactions. *)
LEMMA InvOfParts ==
  ASSUME NEW s, Inv(s), NEW d, DOMAIN d = Fields,
         d.config = s.config, d.queue = s.queue, d.bank = s.bank, d.rowAccess = s.rowAccess,
         d.faw = s.faw, d.at = s.at, d.pre = s.pre, d.down = s.down,
         RankShape(d), TransactionShape(d), InTurn(d.countdown, d.turn)
  PROVE  Inv(d)
<1>1. Shape(d)
  <2>1. Shape(s)
    BY DEF Inv
  <2>2. QueueShape(d)
    BY <2>1 DEF Shape, QueueShape
  <2>3. BankShape(d)
    BY <2>1 DEF Shape, BankShape
  <2> QED
    BY <2>1, <2>2, <2>3 DEF Shape
<1>2. ASSUME NEW r \in Ranks, NEW b \in Banks PROVE QueueOK(d, r, b)
  <2>1. QueueOK(s, r, b)
    BY DEF Inv
  <2>2. ColumnTypes(d) = ColumnTypes(s) /\ \A x : QueueBank(d, x) = QueueBank(s, x)
    BY DEF ColumnTypes, QueueBank
  <2>3. \A p : Opened(d, p) <=> Opened(s, p)
    BY DEF Opened
  <2>4. \A q, i : Alone(d, q, i) <=> Alone(s, q, i)
    BY DEF Alone
  <2> QED
    BY <2>1, <2>2, <2>3, <2>4 DEF QueueOK
<1>3. ASSUME NEW r \in Ranks, NEW b \in Banks PROVE BankOK(d, r, b)
  <2>1. BankOK(s, r, b)
    BY DEF Inv
  <2> QED
    BY <2>1 DEF BankOK, ColumnTypes
<1> QED
  BY <1>1, <1>2, <1>3 DEF Inv

(* The invariant does not depend on the other fields. *)
LEMMA InvOfSame ==
  ASSUME NEW s, Inv(s), NEW d, Frame(s, d, Others)
  PROVE  Inv(d) /\ d.countdown = s.countdown
<1>1. /\ DOMAIN d = Fields
      /\ d.config = s.config /\ d.queue = s.queue /\ d.bank = s.bank
      /\ d.rowAccess = s.rowAccess /\ d.faw = s.faw /\ d.at = s.at /\ d.pre = s.pre
      /\ d.refresh = s.refresh /\ d.countdown = s.countdown /\ d.turn = s.turn
      /\ d.down = s.down /\ d.trans = s.trans /\ d.extra = s.extra
  BY DEF Frame, Others, Fields
<1>2. Shape(s) /\ InTurn(s.countdown, s.turn)
  BY DEF Inv
<1>3. RankShape(d)
  BY <1>1, <1>2 DEF Shape, RankShape
<1>4. TransactionShape(d)
  BY <1>1, <1>2 DEF Shape, TransactionShape
<1> QED
  BY <1>1, <1>2, <1>3, <1>4, InvOfParts

(* Rank::update and the packets on the buses: DRAM devices only. *)
LEMMA RanksUpdated ==
  ASSUME NEW s, Inv(s)
  PROVE  Inv(UpdateRanks(s))
<1>1. DOMAIN s = Fields
  BY DEF Inv, Shape
<1>2. Frame(s, UpdateRanks(s), Others)
  BY <1>1 DEF Frame, UpdateRanks, Others, Fields
<1> QED
  BY <1>2, InvOfSame

(* ... the command bus. *)
LEMMA CommandDelivered ==
  ASSUME NEW s, Inv(s)
  PROVE  Inv(DeliverCommand(s))
<1>1. DOMAIN s = Fields
  BY DEF Inv, Shape
<1>2. Frame(s, DeliverCommand(s), Others)
  BY <1>1 DEF Frame, DeliverCommand, Others, Fields
<1> QED
  BY <1>2, InvOfSame

(* ... the data bus. *)
LEMMA DataDelivered ==
  ASSUME NEW s, Inv(s)
  PROVE  Inv(DeliverData(s))
<1>1. DOMAIN s = Fields
  BY DEF Inv, Shape
<1>2. Frame(s, DeliverData(s), Others)
  BY <1>1 DEF Frame, DeliverData, Others, Fields
<1> QED
  BY <1>2, InvOfSame

(* ... the data of writes. *)
LEMMA WriteDataSent ==
  ASSUME NEW s, Inv(s)
  PROVE  Inv(SendWriteData(s))
<1>1. DOMAIN s = Fields
  BY DEF Inv, Shape
<1>2. Frame(s, SendWriteData(s), Others)
  BY <1>1 DEF Frame, SendWriteData, Others, Fields
<1> QED
  BY <1>2, InvOfSame

(* ... the data of reads. *)
LEMMA ReadReturned ==
  ASSUME NEW s, Inv(s)
  PROVE  Inv(ReturnRead(s)) /\ ReturnRead(s).countdown = s.countdown
<1>1. DOMAIN s = Fields
  BY DEF Inv, Shape
<1>2. Frame(s, ReturnRead(s), Others)
  BY <1>1 DEF Frame, ReturnRead, Others, Fields
<1> QED
  BY <1>2, InvOfSame

-----------------------------------------------------------------------------
(* Steps of the banks, the refresh counters and the transaction queue.     *)

(* A queue keeps its order while its orphans keep their rows. *)
LEMMA QueueKept ==
  ASSUME NEW s, Shape(s), NEW d, NEW r \in Ranks, NEW b \in Banks, QueueOK(s, r, b),
         d.config = s.config, d.queue[r][b] = s.queue[r][b],
         \A i \in DOMAIN s.queue[r][b] :
            Orphan(s.queue[r][b], i) /\ Opened(s, s.queue[r][b][i]) => Opened(d, s.queue[r][b][i])
  PROVE  QueueOK(d, r, b)
<1> DEFINE q == s.queue[r][b]
<1>2. ColumnTypes(d) = ColumnTypes(s) /\ \A x : QueueBank(d, x) = QueueBank(s, x)
  BY DEF ColumnTypes, QueueBank
<1>3. \A i : Alone(s, q, i) => Alone(d, q, i)
  BY DEF Alone
<1>4. /\ Len(q) <= CmdQueueDepth /\ Pairs(q)
      /\ \A i \in DOMAIN q : /\ q[i].rank = r /\ QueueBank(s, q[i].bank) = b
                             /\ IsActivate(q[i]) \/ q[i].type \in ColumnTypes(s)
      /\ \A i \in DOMAIN q : Orphan(q, i) => Opened(s, q[i]) /\ Alone(s, q, i)
  BY DEF QueueOK
<1>5. \A i \in DOMAIN q : Orphan(q, i) => Opened(d, q[i]) /\ Alone(d, q, i)
  BY <1>3, <1>4
<1>6. q = d.queue[r][b]
  OBVIOUS
<1> HIDE DEF q
<1> QED
  BY <1>2, <1>4, <1>5, <1>6 DEF QueueOK

(* A command names its rank and bank. *)
LEMMA CommandsNameBanks ==
  ASSUME NEW p \in Commands
  PROVE  p.rank \in Ranks /\ p.bank \in Banks
  BY AddressAssumption DEF Commands, To, Packet

(* An open row stays open while its bank keeps state, row and last command. *)
LEMMA OpenedKept ==
  ASSUME NEW s, NEW d, NEW p \in Commands, Opened(s, p),
         d.rowAccess[p.rank][p.bank] = s.rowAccess[p.rank][p.bank],
         LET x == s.bank[p.rank][p.bank]
             y == d.bank[p.rank][p.bank]
         IN  x.state = "RowActive" /\ x.last \in {"ACTIVATE", "READ", "WRITE"} =>
               y.state = x.state /\ y.row = x.row /\ y.last = x.last
  PROVE  Opened(d, p)
  BY DEF Opened

(* A step that changes only banks and the ranks' marks. *)
BankStep(s, d) ==
  /\ Frame(s, d, {"bank", "down", "ranks", "error"})
  /\ BankShape(d) /\ d.down \in [Ranks -> BOOLEAN]
  /\ \A r \in Ranks, b \in Banks :
       /\ BankOK(d, r, b)
       /\ s.bank[r][b].state = "RowActive" /\ s.bank[r][b].last \in {"ACTIVATE", "READ", "WRITE"} =>
            /\ d.bank[r][b].state = "RowActive" /\ d.bank[r][b].row = s.bank[r][b].row
            /\ d.bank[r][b].last = s.bank[r][b].last

(* Such a step keeps the invariant. *)
LEMMA BanksStepped ==
  ASSUME NEW s, Inv(s), NEW d, BankStep(s, d)
  PROVE  Inv(d) /\ d.countdown = s.countdown
<1>1. /\ DOMAIN d = Fields
      /\ d.config = s.config /\ d.queue = s.queue
      /\ d.rowAccess = s.rowAccess /\ d.faw = s.faw /\ d.at = s.at /\ d.pre = s.pre
      /\ d.refresh = s.refresh /\ d.countdown = s.countdown /\ d.turn = s.turn
      /\ d.trans = s.trans /\ d.extra = s.extra
  BY DEF BankStep, Frame, Fields
<1>2. Shape(s)
  BY DEF Inv
<1>3. Shape(d)
  <2>1. QueueShape(d) /\ TransactionShape(d)
    BY <1>1, <1>2 DEF Shape, QueueShape, TransactionShape
  <2>2. RankShape(d)
    BY <1>1, <1>2 DEF Shape, RankShape, BankStep
  <2> QED
    BY <1>1, <1>2, <2>1, <2>2 DEF Shape, BankStep
<1>4. \A p \in Commands : Opened(s, p) => Opened(d, p)
  BY <1>1, CommandsNameBanks, OpenedKept DEF BankStep
<1>5. ASSUME NEW r \in Ranks, NEW b \in Banks PROVE QueueOK(d, r, b)
  <2>1. s.queue[r][b] \in Seq(Commands) /\ QueueOK(s, r, b)
    BY <1>2 DEF Inv, Shape, QueueShape
  <2>2. \A i \in DOMAIN s.queue[r][b] : s.queue[r][b][i] \in Commands
    BY <2>1
  <2> QED
    BY <1>1, <1>2, <1>4, <2>1, <2>2, QueueKept
<1> QED
  BY <1>1, <1>3, <1>5 DEF Inv, BankStep

(* The announced changes of bank states. *)
LEMMA BanksUpdated ==
  ASSUME NEW s, Inv(s)
  PROVE  Inv(UpdateBanks(s))
<1> DEFINE d == UpdateBanks(s)
<1>1. Shape(s)
  BY DEF Inv
<1>2. /\ DOMAIN d = Fields /\ \A f \in Fields \ {"bank"} : d[f] = s[f]
      /\ d.bank = [r \in Ranks |-> [b \in Banks |-> UpdateBank(s.bank[r][b])]]
  BY <1>1 DEF UpdateBanks, Shape, Fields
<1> HIDE DEF d
<1>3. ASSUME NEW x, DOMAIN x = BankFields
      PROVE  LET y == UpdateBank(x) IN
             /\ DOMAIN y = BankFields /\ y.row = x.row
             /\ x.countdown = 1 /\ x.last \in {"WRITE_P", "READ_P"} => y.state = "Precharging"
             /\ x.countdown = 1 /\ x.last \in {"REFRESH", "PRECHARGE"} =>
                  y.state = "Idle" /\ y.countdown = 0
             /\ ~(x.countdown = 1 /\ x.last \in {"WRITE_P", "READ_P", "REFRESH", "PRECHARGE"}) =>
                  y.state = x.state /\ y.last = x.last /\ (x.countdown = 0 => y.countdown = 0)
  BY <1>3 DEF UpdateBank, BankFields, Down
<1>4. BankShape(d)
  BY <1>1, <1>2, <1>3 DEF Shape, BankShape
<1>5. ASSUME NEW r \in Ranks, NEW b \in Banks
      PROVE  /\ BankOK(d, r, b)
             /\ s.bank[r][b].state = "RowActive" /\ s.bank[r][b].last \in {"ACTIVATE", "READ", "WRITE"} =>
                  /\ d.bank[r][b].state = "RowActive" /\ d.bank[r][b].row = s.bank[r][b].row
                  /\ d.bank[r][b].last = s.bank[r][b].last
  <2> DEFINE x == s.bank[r][b]
             y == d.bank[r][b]
  <2>1. DOMAIN x = BankFields /\ y = UpdateBank(x)
    BY <1>1, <1>2 DEF Shape, BankShape
  <2>2. BankOK(s, r, b)
    BY DEF Inv
  <2>3. /\ d.rowAccess = s.rowAccess /\ d.down = s.down /\ d.config = s.config
    BY <1>2 DEF Fields
  <2>4. /\ x.state \in {"Idle", "PowerDown"} => x.countdown = 0
        /\ x.state = "RowActive" => x.last \in {"ACTIVATE", "READ", "WRITE"} \cup ColumnTypes(s)
        /\ s.rowAccess[r][b] # 0 => s.config.page = "Open" /\ x.state = "RowActive"
        /\ s.down[r] => x.state = "PowerDown"
    BY <2>2 DEF BankOK
  <2> HIDE DEF x, y
  <2>5. /\ y.state \in {"Idle", "PowerDown"} => y.countdown = 0
        /\ y.state = "RowActive" => y.last \in {"ACTIVATE", "READ", "WRITE"} \cup ColumnTypes(s)
        /\ s.rowAccess[r][b] # 0 => s.config.page = "Open" /\ y.state = "RowActive"
        /\ s.down[r] => y.state = "PowerDown"
        /\ y.row = x.row
        /\ x.state = "RowActive" /\ x.last \in {"ACTIVATE", "READ", "WRITE"} =>
             y.state = "RowActive" /\ y.last = x.last
    BY <1>3, <2>1, <2>4 DEF ColumnTypes
  <2>6. ColumnTypes(d) = ColumnTypes(s)
    BY <2>3 DEF ColumnTypes
  <2> QED
    BY <2>3, <2>5, <2>6 DEF BankOK, x, y
<1>6. BankStep(s, d)
  <2>1. d.down \in [Ranks -> BOOLEAN]
    BY <1>1, <1>2 DEF Shape, RankShape, Fields
  <2>2. Frame(s, d, {"bank", "down", "ranks", "error"})
    BY <1>2 DEF Frame
  <2> QED
    BY <1>4, <1>5, <2>1, <2>2 DEF BankStep
<1> QED
  BY <1>6, BanksStepped DEF d

(* The clocks of the controller's banks are older by a cycle, and the      *)
(* refreshes are nearer by one: none is due, for RefreshDue came before.   *)
LEMMA Ticked ==
  ASSUME NEW s, Inv(s), \A r \in Ranks : s.countdown[r] >= 1
  PROVE  Inv(Tick(s))
<1> DEFINE d == Tick(s)
<1>1. Shape(s) /\ InTurn(s.countdown, s.turn)
  BY DEF Inv
<1>2. /\ DOMAIN d = Fields /\ \A f \in Fields \ {"bank", "countdown", "ranks"} : d[f] = s[f]
      /\ d.bank = [r \in Ranks |-> [b \in Banks |-> Older(s.bank[r][b])]]
      /\ d.countdown = [r \in Ranks |-> s.countdown[r] - 1]
  BY <1>1 DEF Tick, Shape, Fields
<1> DEFINE e == [s EXCEPT !.bank = d.bank]
<1>3. /\ DOMAIN e = Fields /\ \A f \in Fields \ {"bank"} : e[f] = s[f]
      /\ e.bank = d.bank
  BY <1>1 DEF Shape, Fields
<1> HIDE DEF d, e
<1>4. ASSUME NEW x, DOMAIN x = BankFields
      PROVE  /\ DOMAIN Older(x) = BankFields
             /\ Older(x).state = x.state /\ Older(x).row = x.row /\ Older(x).last = x.last
             /\ Older(x).countdown = x.countdown
  BY <1>4 DEF Older, BankFields
<1>5. BankStep(s, e)
  <2>1. BankShape(e)
    BY <1>1, <1>2, <1>3, <1>4 DEF Shape, BankShape
  <2>2. e.down = s.down /\ e.rowAccess = s.rowAccess /\ e.config = s.config
    BY <1>3 DEF Fields
  <2>3. ASSUME NEW r \in Ranks, NEW b \in Banks
        PROVE  /\ BankOK(e, r, b)
               /\ e.bank[r][b].state = s.bank[r][b].state /\ e.bank[r][b].row = s.bank[r][b].row
               /\ e.bank[r][b].last = s.bank[r][b].last
    <3>1. BankOK(s, r, b)
      BY DEF Inv
    <3>2. e.bank[r][b] = Older(s.bank[r][b]) /\ DOMAIN s.bank[r][b] = BankFields
      BY <1>1, <1>2, <1>3 DEF Shape, BankShape
    <3>3. /\ e.bank[r][b].state = s.bank[r][b].state /\ e.bank[r][b].row = s.bank[r][b].row
          /\ e.bank[r][b].last = s.bank[r][b].last
          /\ e.bank[r][b].countdown = s.bank[r][b].countdown
      BY <1>4, <3>2
    <3> QED
      BY <2>2, <3>1, <3>3 DEF BankOK, ColumnTypes
  <2>4. Frame(s, e, {"bank", "down", "ranks", "error"})
    BY <1>3 DEF Frame
  <2>5. e.down \in [Ranks -> BOOLEAN]
    BY <1>1, <2>2 DEF Shape, RankShape
  <2> QED
    BY <2>1, <2>3, <2>4, <2>5 DEF BankStep
<1>6. Inv(e)
  BY <1>5, BanksStepped
<1>7. /\ DOMAIN d = Fields
      /\ d.config = e.config /\ d.queue = e.queue /\ d.bank = e.bank
      /\ d.rowAccess = e.rowAccess /\ d.faw = e.faw /\ d.at = e.at /\ d.pre = e.pre
      /\ d.refresh = e.refresh /\ d.turn = e.turn
      /\ d.down = e.down /\ d.trans = e.trans /\ d.extra = e.extra
  BY <1>2, <1>3 DEF Fields
<1>8. d.countdown \in [Ranks -> 0 .. RefreshPeriod] /\ InTurn(d.countdown, d.turn)
  <2>1. s.countdown \in [Ranks -> 1 .. RefreshPeriod] /\ s.turn \in Ranks /\ d.turn = s.turn
    BY <1>1, <1>2 DEF Shape, RankShape, Fields
  <2>2. RefreshPeriod \in Nat
    BY ControllerAssumption
  <2>3. \A r \in Ranks : /\ d.countdown[r] = s.countdown[r] - 1
                         /\ s.countdown[r] \in Int /\ s.countdown[r] <= RefreshPeriod
                         /\ s.countdown[r] >= 1
    BY <1>2, <2>1
  <2>4. d.countdown \in [Ranks -> 0 .. RefreshPeriod]
    BY <1>2, <2>2, <2>3
  <2>5. InTurn(d.countdown, s.turn)
    <3>1. \A r, x \in Ranks : s.countdown[r] < s.countdown[x] => d.countdown[r] < d.countdown[x]
      BY <2>3
    <3>2. \A r \in Ranks : d.countdown[r] < RefreshPeriod
      BY <2>2, <2>3
    <3> QED
      BY <1>1, <2>1, <3>1, <3>2 DEF InTurn
  <2> QED
    BY <2>1, <2>4, <2>5
<1>9. RankShape(d) /\ TransactionShape(d)
  <2>1. Shape(e)
    BY <1>6 DEF Inv
  <2>2. RankShape(d)
    BY <1>7, <1>8, <2>1 DEF Shape, RankShape
  <2>3. TransactionShape(d)
    BY <1>7, <2>1 DEF Shape, TransactionShape
  <2> QED
    BY <2>2, <2>3
<1> QED
  BY <1>6, <1>7, <1>8, <1>9, InvOfParts DEF d

(* MemorySystem::update: one more transaction for the controller. *)
LEMMA ExtraAdmitted ==
  ASSUME NEW s, Inv(s)
  PROVE  Inv(AdmitExtra(s))
<1>1. CASE s.extra # <<>> /\ Len(s.trans) < TransQueueDepth
  <2> DEFINE d == AdmitExtra(s)
  <2>1. Shape(s) /\ InTurn(s.countdown, s.turn)
    BY DEF Inv
  <2>2. /\ s.trans \in Seq(Transactions) /\ s.extra \in Seq(Transactions)
    BY <2>1 DEF Shape, TransactionShape
  <2>3. /\ DOMAIN d = Fields /\ \A f \in Fields \ {"trans", "extra"} : d[f] = s[f]
        /\ d.trans = Append(s.trans, Head(s.extra)) /\ d.extra = Tail(s.extra)
    BY <1>1, <2>1 DEF AdmitExtra, Shape, Fields
  <2> HIDE DEF d
  <2>4. TransactionShape(d)
    <3>1. Head(s.extra) \in Transactions /\ Tail(s.extra) \in Seq(Transactions)
      BY <1>1, <2>2
    <3>2. Len(d.trans) = Len(s.trans) + 1 /\ d.trans \in Seq(Transactions) /\ Len(s.trans) \in Nat
      BY <2>2, <2>3, <3>1
    <3>3. TransQueueDepth \in Nat
      BY ControllerAssumption
    <3> QED
      BY <1>1, <2>3, <3>1, <3>2, <3>3 DEF TransactionShape
  <2>5. /\ d.config = s.config /\ d.queue = s.queue /\ d.bank = s.bank
        /\ d.rowAccess = s.rowAccess /\ d.faw = s.faw /\ d.at = s.at /\ d.pre = s.pre
        /\ d.refresh = s.refresh /\ d.countdown = s.countdown /\ d.turn = s.turn
        /\ d.down = s.down
    BY <2>3 DEF Fields
  <2>6. RankShape(d)
    BY <2>1, <2>5 DEF Shape, RankShape
  <2> QED
    BY <2>1, <2>3, <2>4, <2>5, <2>6, InvOfParts DEF d
<1>2. CASE ~(s.extra # <<>> /\ Len(s.trans) < TransQueueDepth)
  BY <1>2 DEF AdmitExtra
<1> QED
  BY <1>1, <1>2

(* The next of k, round robin. *)
LEMMA NextInTurn ==
  ASSUME NEW k \in Nat \ {0}, NEW i \in 0 .. (k - 1)
  PROVE  (i + 1) % k = IF i = k - 1 THEN 0 ELSE i + 1
<1>1. k % k = 0
  OBVIOUS
<1>2. \A j \in Nat : j < k => j % k = j
  OBVIOUS
<1>3. CASE i = k - 1
  <2>1. i + 1 = k
    BY <1>3
  <2> QED
    BY <1>1, <1>3, <2>1
<1>4. CASE i # k - 1
  <2>1. i + 1 < k /\ i + 1 \in Nat
    BY <1>4
  <2> QED
    BY <1>2, <1>4, <2>1
<1> QED
  BY <1>3, <1>4

(* The refresh of the rank in turn is due in time: no rank's counter       *)
(* passes below zero.                                                      *)
LEMMA RefreshCounted ==
  ASSUME NEW s, Inv(s)
  PROVE  /\ Inv(RefreshDue(s))
         /\ \A r \in Ranks : RefreshDue(s).countdown[r] >= 1
<1> DEFINE t == s.turn
           c == s.countdown
           n == (t + 1) % NumRanks
           d == RefreshDue(s)
<1>1. Shape(s) /\ InTurn(c, t)
  BY DEF Inv
<1>2. /\ t \in Ranks /\ c \in [Ranks -> 0 .. RefreshPeriod]
      /\ RefreshPeriod \in Nat /\ RefreshPeriod >= 1 /\ NumRanks \in Nat \ {0}
  BY <1>1, ControllerAssumption, TimingAssumption DEF Shape, RankShape
<1>3. \A r \in Ranks : r # t => c[t] < c[r]
  BY <1>1, <1>2 DEF InTurn, Ranks
<1>4. \A r \in Ranks : c[r] \in Int /\ 0 <= c[r] /\ c[r] <= RefreshPeriod
  BY <1>2
<1>5. CASE c[t] = 0
  <2>1. /\ DOMAIN d = Fields
        /\ \A f \in Fields \ {"refresh", "ranks", "countdown", "turn"} : d[f] = s[f]
        /\ d.refresh = t /\ d.turn = n /\ d.countdown = [c EXCEPT ![t] = RefreshPeriod]
    BY <1>1, <1>5 DEF RefreshDue, Shape, Fields
  <2>2. n = (IF t = NumRanks - 1 THEN 0 ELSE t + 1)
    BY <1>2, NextInTurn DEF Ranks
  <2> HIDE DEF d, n, t, c
  <2>3. n \in Ranks
    BY <1>2, <2>2 DEF Ranks
  <2>4. \A r \in Ranks : d.countdown[r] = IF r = t THEN RefreshPeriod ELSE c[r]
    BY <1>2, <2>1
  <2>5. \A r \in Ranks : d.countdown[r] >= 1
    BY <1>2, <1>3, <1>4, <1>5, <2>4
  <2>6. InTurn(d.countdown, n)
    <3>1. \A r \in Ranks : c[r] < RefreshPeriod
      BY <1>1, <1>5 DEF InTurn
    <3>2. ASSUME NEW r \in Ranks, NEW x \in Ranks, r < x, x < n \/ n <= r
          PROVE  d.countdown[r] < d.countdown[x]
      <4>1. CASE x = t
        BY <1>2, <2>4, <3>1, <3>2, <4>1 DEF Ranks
      <4>2. CASE x # t /\ r # t
        <5>1. x < t \/ t <= r
          BY <1>2, <2>2, <3>2, <4>2 DEF Ranks
        <5> QED
          BY <1>1, <2>4, <3>2, <4>2, <5>1 DEF InTurn
      <4>3. CASE r = t
        BY <1>2, <2>2, <3>2, <4>3 DEF Ranks
      <4> QED
        BY <4>1, <4>2, <4>3
    <3>3. ASSUME NEW r \in Ranks, NEW x \in Ranks, r < n, n <= x
          PROVE  d.countdown[x] < d.countdown[r]
      <4>1. x # t /\ t <= x
        BY <1>2, <2>2, <3>3 DEF Ranks
      <4>2. CASE r = t
        BY <2>4, <3>1, <4>1, <4>2
      <4>3. CASE r # t
        <5>1. r < t
          BY <1>2, <2>2, <3>3, <4>3 DEF Ranks
        <5> QED
          BY <1>1, <2>4, <4>1, <4>3, <5>1 DEF InTurn
      <4> QED
        BY <4>2, <4>3
    <3>4. d.countdown[n] # 0
      BY <1>2, <2>3, <2>4, <2>5, <1>4
    <3> QED
      BY <3>2, <3>3, <3>4 DEF InTurn
  <2>7. /\ d.config = s.config /\ d.queue = s.queue /\ d.bank = s.bank
        /\ d.rowAccess = s.rowAccess /\ d.faw = s.faw /\ d.at = s.at /\ d.pre = s.pre
        /\ d.down = s.down /\ d.trans = s.trans /\ d.extra = s.extra
    BY <2>1 DEF Fields
  <2>8. RankShape(d)
    <3>1. d.countdown \in [Ranks -> 0 .. RefreshPeriod]
      BY <1>2, <2>1
    <3>2. s.down \in [Ranks -> BOOLEAN]
      BY <1>1 DEF Shape, RankShape
    <3> QED
      BY <1>2, <2>1, <2>3, <2>7, <3>1, <3>2 DEF RankShape
  <2>9. TransactionShape(d)
    BY <1>1, <2>7 DEF Shape, TransactionShape
  <2>10. Inv(d)
    BY <2>1, <2>6, <2>7, <2>8, <2>9, InvOfParts
  <2> QED
    BY <2>5, <2>10 DEF d
<1>6. CASE c[t] # 0
  <2>1. Frame(s, d, Others)
    BY <1>1, <1>6 DEF RefreshDue, Shape, Fields, Frame, Others
  <2>2. \A r \in Ranks : c[r] >= 1
    BY <1>2, <1>3, <1>4, <1>6
  <2> QED
    BY <2>1, <2>2, InvOfSame
<1> QED
  BY <1>5, <1>6

(* Ranks are powered down when they are idle, and up again. *)
LEMMA RanksPowered ==
  ASSUME NEW s, Inv(s)
  PROVE  Inv(PowerRanks(s)) /\ PowerRanks(s).countdown = s.countdown
<1>1. CASE ~s.config.lowPower
  BY <1>1 DEF PowerRanks
<1>2. CASE s.config.lowPower
  <2> DEFINE d == PowerRanks(s)
             After(r, b) == CASE GoesDown(s, r) ->
                                   [s.bank[r][b] EXCEPT !.state = "PowerDown", !.nextPowerUp = T.tCKE]
                              [] ComesUp(s, r) ->
                                   [s.bank[r][b] EXCEPT !.state = "Idle", !.nextActivate = T.tXP]
                              [] OTHER -> s.bank[r][b]
  <2>1. Shape(s)
    BY DEF Inv
  <2>2. /\ DOMAIN d = Fields /\ \A f \in Fields \ {"bank", "down", "ranks", "error"} : d[f] = s[f]
        /\ d.bank = [r \in Ranks |-> [b \in Banks |-> After(r, b)]]
        /\ d.down = [r \in Ranks |-> GoesDown(s, r) \/ (s.down[r] /\ ~ComesUp(s, r))]
    BY <1>2, <2>1 DEF PowerRanks, Shape, Fields
  <2> HIDE DEF d
  <2>3. ASSUME NEW r \in Ranks, NEW b \in Banks
        PROVE  /\ DOMAIN After(r, b) = BankFields
               /\ GoesDown(s, r) => /\ After(r, b).state = "PowerDown"
                                    /\ After(r, b).countdown = s.bank[r][b].countdown
               /\ ComesUp(s, r) => /\ After(r, b).state = "Idle"
                                   /\ After(r, b).countdown = s.bank[r][b].countdown
               /\ ~GoesDown(s, r) /\ ~ComesUp(s, r) => After(r, b) = s.bank[r][b]
    <3>1. DOMAIN s.bank[r][b] = BankFields
      BY <2>1 DEF Shape, BankShape
    <3>2. ~(GoesDown(s, r) /\ ComesUp(s, r))
      BY DEF GoesDown, ComesUp
    <3> QED
      BY <3>1, <3>2 DEF BankFields
  <2> HIDE DEF After
  <2>4. BankShape(d)
    <3>1. DOMAIN d.bank = Ranks /\ \A r \in Ranks : DOMAIN d.bank[r] = Banks
      BY <2>2
    <3>2. ASSUME NEW r \in Ranks, NEW b \in Banks PROVE DOMAIN d.bank[r][b] = BankFields
      <4>1. d.bank[r][b] = After(r, b)
        BY <2>2
      <4> QED
        BY <2>3, <4>1
    <3> QED
      BY <3>1, <3>2 DEF BankShape
  <2>5. d.down \in [Ranks -> BOOLEAN]
    <3>1. \A r \in Ranks : (GoesDown(s, r) \/ (s.down[r] /\ ~ComesUp(s, r))) \in BOOLEAN
      OBVIOUS
    <3> QED
      BY <2>2, <3>1
  <2>6. ASSUME NEW r \in Ranks, NEW b \in Banks
        PROVE  /\ BankOK(d, r, b)
               /\ s.bank[r][b].state = "RowActive" => d.bank[r][b] = s.bank[r][b]
    <3> DEFINE x == s.bank[r][b]
               y == d.bank[r][b]
    <3>1. y = After(r, b) /\ DOMAIN x = BankFields
      BY <2>1, <2>2 DEF Shape, BankShape
    <3>2. /\ x.state \in {"Idle", "PowerDown"} => x.countdown = 0
          /\ x.state = "RowActive" => x.last \in {"ACTIVATE", "READ", "WRITE"} \cup ColumnTypes(s)
          /\ s.rowAccess[r][b] # 0 => s.config.page = "Open" /\ x.state = "RowActive"
          /\ s.down[r] => x.state = "PowerDown"
      <4>1. BankOK(s, r, b)
        BY DEF Inv
      <4> QED
        BY <4>1 DEF BankOK
    <3>3. d.config = s.config /\ d.rowAccess = s.rowAccess
      BY <2>2 DEF Fields
    <3>4. ColumnTypes(d) = ColumnTypes(s)
      BY <3>3 DEF ColumnTypes
    <3>5. d.down[r] <=> GoesDown(s, r) \/ (s.down[r] /\ ~ComesUp(s, r))
      BY <2>2
    <3>6. ~(GoesDown(s, r) /\ ComesUp(s, r))
      BY DEF GoesDown, ComesUp
    <3>7. CASE GoesDown(s, r)
      <4>1. x.state = "Idle"
        BY <3>7 DEF GoesDown
      <4>2. y.state = "PowerDown" /\ y.countdown = x.countdown
        BY <2>3, <3>1, <3>7
      <4> QED
        BY <3>2, <3>3, <4>1, <4>2 DEF BankOK
    <3>8. CASE ComesUp(s, r)
      <4>1. x.state = "PowerDown" /\ ~d.down[r]
        BY <3>2, <3>5, <3>6, <3>8 DEF ComesUp
      <4>2. y.state = "Idle" /\ y.countdown = x.countdown
        BY <2>3, <3>1, <3>8
      <4> QED
        BY <3>2, <3>3, <4>1, <4>2 DEF BankOK
    <3>9. CASE ~GoesDown(s, r) /\ ~ComesUp(s, r)
      <4>1. y = x /\ (d.down[r] <=> s.down[r])
        BY <2>3, <3>1, <3>5, <3>9
      <4> QED
        BY <3>2, <3>3, <3>4, <4>1 DEF BankOK
    <3> QED
      BY <3>7, <3>8, <3>9
  <2>7. Frame(s, d, {"bank", "down", "ranks", "error"})
    BY <2>2 DEF Frame
  <2>8. BankStep(s, d)
    BY <2>4, <2>5, <2>6, <2>7 DEF BankStep
  <2> QED
    BY <2>8, BanksStepped DEF d
<1> QED
  BY <1>1, <1>2

(* MemorySystem::addTransaction *)
LEMMA TransactionAdded ==
  ASSUME Inv(m), NEW t \in Transactions, AddTransaction(t)
  PROVE  Inv(m')
<1> DEFINE s == m
           d == m'
<1>1. Shape(s) /\ InTurn(s.countdown, s.turn)
  BY DEF Inv
<1>2. d = IF Len(s.trans) < TransQueueDepth THEN [s EXCEPT !.trans = Append(@, t)]
          ELSE [s EXCEPT !.extra = Append(@, t)]
  BY DEF AddTransaction
<1> HIDE DEF s, d
<1>3. /\ s.trans \in Seq(Transactions) /\ s.extra \in Seq(Transactions)
      /\ Len(s.trans) <= TransQueueDepth /\ TransQueueDepth \in Nat /\ Len(s.trans) \in Nat
  BY <1>1, ControllerAssumption DEF Shape, TransactionShape
<1>4. /\ DOMAIN d = Fields /\ \A f \in Fields \ {"trans", "extra"} : d[f] = s[f]
      /\ \/ Len(s.trans) < TransQueueDepth /\ d.trans = Append(s.trans, t) /\ d.extra = s.extra
         \/ d.trans = s.trans /\ d.extra = Append(s.extra, t)
  BY <1>1, <1>2 DEF Shape, Fields
<1>5. TransactionShape(d)
  <2>1. /\ Append(s.trans, t) \in Seq(Transactions) /\ Append(s.extra, t) \in Seq(Transactions)
        /\ Len(Append(s.trans, t)) = Len(s.trans) + 1
    BY <1>3
  <2>2. CASE Len(s.trans) < TransQueueDepth /\ d.trans = Append(s.trans, t) /\ d.extra = s.extra
    <3>1. Len(s.trans) + 1 <= TransQueueDepth
      BY <1>3, <2>2
    <3> QED
      BY <1>3, <2>1, <2>2, <3>1 DEF TransactionShape
  <2>3. CASE d.trans = s.trans /\ d.extra = Append(s.extra, t)
    BY <1>3, <2>1, <2>3 DEF TransactionShape
  <2> QED
    BY <1>4, <2>2, <2>3
<1>6. /\ d.config = s.config /\ d.queue = s.queue /\ d.bank = s.bank
      /\ d.rowAccess = s.rowAccess /\ d.faw = s.faw /\ d.at = s.at /\ d.pre = s.pre
      /\ d.refresh = s.refresh /\ d.countdown = s.countdown /\ d.turn = s.turn
      /\ d.down = s.down
  BY <1>4 DEF Fields
<1>7. RankShape(d)
  BY <1>1, <1>6 DEF Shape, RankShape
<1>8. Inv(s) => Inv(d)
  BY <1>1, <1>4, <1>5, <1>6, <1>7, InvOfParts
<1> QED
  BY <1>8 DEF s, d

-----------------------------------------------------------------------------
(* Sequences that lose an entry, and searches.                             *)

(* The least of some numbers. *)
LEMMA MinOfNats ==
  ASSUME NEW S, S \subseteq Nat, S # {}
  PROVE  Min(S) \in S /\ \A y \in S : Min(S) <= y
<1>1. PICK x \in S : \A y \in S : <<y, x>> \notin OpToRel(<, Nat)
  BY WFMin, NatLessThanWellFounded
<1>2. ASSUME NEW y \in S PROVE x <= y
  <2>1. ~(y < x)
    BY <1>1 DEF OpToRel
  <2> QED
    BY <2>1
<1> QED
  BY <1>2 DEF Min

(* A search finds the first place that fits. *)
LEMMA FirstIsFound ==
  ASSUME NEW hits, hits \subseteq Nat \ {0}
  PROVE  /\ First(hits) = 0 <=> hits = {}
         /\ First(hits) # 0 => First(hits) \in hits
         /\ \A y \in hits : First(hits) <= y
<1>1. CASE hits = {}
  BY <1>1 DEF First
<1>2. CASE hits # {}
  <2>1. Min(hits) \in hits /\ \A y \in hits : Min(hits) <= y
    BY <1>2, MinOfNats
  <2> QED
    BY <1>2, <2>1 DEF First
<1> QED
  BY <1>1, <1>2

(* An entry erased: those behind it move up. *)
LEMMA RemovedAt ==
  ASSUME NEW S, NEW q \in Seq(S), NEW i \in DOMAIN q
  PROVE  /\ RemoveAt(q, i) \in Seq(S) /\ Len(RemoveAt(q, i)) = Len(q) - 1
         /\ DOMAIN RemoveAt(q, i) = 1 .. (Len(q) - 1)
         /\ \A j \in 1 .. (Len(q) - 1) : RemoveAt(q, i)[j] = IF j < i THEN q[j] ELSE q[j + 1]
<1> DEFINE n == Len(q)
           u == SubSeq(q, 1, i - 1)
           v == SubSeq(q, i + 1, n)
<1>1. n \in Nat /\ i \in 1 .. n /\ DOMAIN q = 1 .. n
  OBVIOUS
<1>2. u \in Seq(S) /\ Len(u) = i - 1 /\ \A j \in 1 .. (i - 1) : u[j] = q[j]
  BY <1>1
<1>3. v \in Seq(S) /\ Len(v) = n - i /\ \A j \in 1 .. (n - i) : v[j] = q[i + j]
  BY <1>1
<1> HIDE DEF u, v, n
<1>4. /\ u \o v \in Seq(S) /\ Len(u \o v) = n - 1
      /\ \A j \in 1 .. (n - 1) : (u \o v)[j] = IF j <= i - 1 THEN u[j] ELSE v[j - (i - 1)]
  <2>1. (i - 1) + (n - i) = n - 1 /\ i - 1 \in Nat
    BY <1>1
  <2>2. /\ u \o v \in Seq(S) /\ Len(u \o v) = Len(u) + Len(v)
        /\ \A j \in 1 .. Len(u) + Len(v) : (u \o v)[j] =
              IF j <= Len(u) THEN u[j] ELSE v[j - Len(u)]
    BY <1>2, <1>3, ConcatProperties
  <2> QED
    BY <1>2, <1>3, <2>1, <2>2
<1>5. ASSUME NEW j \in 1 .. (n - 1)
      PROVE  (u \o v)[j] = IF j < i THEN q[j] ELSE q[j + 1]
  <2>1. CASE j < i
    BY <1>1, <1>2, <1>4, <2>1
  <2>2. CASE ~(j < i)
    <3>1. j - (i - 1) \in 1 .. (n - i) /\ i + (j - (i - 1)) = j + 1
      BY <1>1, <2>2
    <3>2. v[j - (i - 1)] = q[j + 1]
      BY <1>3, <3>1
    <3>3. ~(j <= i - 1) /\ ~(j < i)
      BY <1>1, <2>2
    <3> QED
      BY <1>4, <3>2, <3>3
  <2> QED
    BY <2>1, <2>2
<1>6. DOMAIN (u \o v) = 1 .. (n - 1)
  BY <1>1, <1>4
<1> QED
  BY <1>4, <1>5, <1>6 DEF RemoveAt, u, v, n

(* Two commands of one address have the same rank, bank and row. *)
LEMMA AddressTells ==
  ASSUME NEW p \in Commands, NEW x \in Commands, p.addr = x.addr
  PROVE  p.rank = x.rank /\ p.bank = x.bank /\ p.row = x.row
  BY DEF Commands, To, Packet

(* z is q without the entries that h passes over.                          *)
Thinned(q, z, h) ==
  /\ z \in Seq(Commands) /\ h \in [DOMAIN z -> DOMAIN q] /\ Len(z) <= Len(q)
  /\ \A j \in DOMAIN z : z[j] = q[h[j]]
  /\ \A i, j \in DOMAIN z : i < j => h[i] < h[j]
  /\ Pairs(z)

(* An orphan leaves, or an activate, whose column access is then an orphan. *)
LEMMA OneLeaves ==
  ASSUME NEW q \in Seq(Commands), Pairs(q), NEW i \in DOMAIN q,
         i > 1 => ~IsActivate(q[i - 1]),
         NEW z, z = RemoveAt(q, i)
  PROVE  \E h : /\ Thinned(q, z, h)
                /\ \A j \in DOMAIN z :
                     /\ h[j] # i
                     /\ Orphan(z, j) => Orphan(q, h[j]) \/ (IsActivate(q[i]) /\ h[j] = i + 1)
<1> DEFINE n == Len(q)
           h == [j \in 1 .. (n - 1) |-> IF j < i THEN j ELSE j + 1]
<1>1. /\ n \in Nat /\ i \in 1 .. n /\ DOMAIN q = 1 .. n
      /\ z \in Seq(Commands) /\ Len(z) = n - 1 /\ DOMAIN z = 1 .. (n - 1)
      /\ \A j \in 1 .. (n - 1) : z[j] = IF j < i THEN q[j] ELSE q[j + 1]
  <2>1. n \in Nat /\ DOMAIN q = 1 .. n
    OBVIOUS
  <2> QED
    BY <2>1, RemovedAt
<1>3. /\ h \in [DOMAIN z -> DOMAIN q]
      /\ \A j \in DOMAIN z : h[j] # i /\ h[j] = IF j < i THEN j ELSE j + 1
  BY <1>1
<1> HIDE DEF h, n
<1>4. \A j \in DOMAIN z : z[j] = q[h[j]]
  BY <1>1, <1>3
<1>5. \A k, j \in DOMAIN z : k < j => h[k] < h[j]
  BY <1>1, <1>3
<1>6. Pairs(z)
  <2> SUFFICES ASSUME NEW j \in DOMAIN z, IsActivate(z[j])
               PROVE  j + 1 \in DOMAIN z /\ ~IsActivate(z[j + 1]) /\ z[j + 1].addr = z[j].addr
    BY DEF Pairs
  <2>1. h[j] + 1 \in DOMAIN q /\ ~IsActivate(q[h[j] + 1]) /\ q[h[j] + 1].addr = q[h[j]].addr
    BY <1>3, <1>4 DEF Pairs
  <2>2. h[j] + 1 # i
    BY <1>1, <1>3, <1>4
  <2>3. j + 1 \in DOMAIN z /\ h[j + 1] = h[j] + 1
    <3>1. h[j] + 1 \in 1 .. n /\ j \in 1 .. (n - 1) /\ h[j] = IF j < i THEN j ELSE j + 1
      BY <1>1, <1>3, <2>1
    <3>2. j + 1 \in 1 .. (n - 1) /\ (j < i => j + 1 < i)
      BY <1>1, <2>2, <3>1
    <3> QED
      BY <1>1, <1>3, <3>1, <3>2
  <2> QED
    BY <1>4, <2>1, <2>3
<1>7. ASSUME NEW j \in DOMAIN z, Orphan(z, j), ~(IsActivate(q[i]) /\ h[j] = i + 1)
      PROVE  Orphan(q, h[j])
  <2>1. ~IsActivate(q[h[j]]) /\ h[j] \in DOMAIN q
    BY <1>3, <1>4, <1>7 DEF Orphan
  <2>2. ASSUME Paired(q, h[j]) PROVE FALSE
    <3>1. h[j] > 1 /\ IsActivate(q[h[j] - 1]) /\ q[h[j] - 1].addr = q[h[j]].addr
      BY <2>2 DEF Paired
    <3>2. h[j] - 1 # i
      BY <1>1, <1>3, <1>7, <3>1
    <3>3. j > 1 /\ j - 1 \in DOMAIN z /\ h[j - 1] = h[j] - 1
      <4>1. j \in 1 .. (n - 1) /\ h[j] = IF j < i THEN j ELSE j + 1
        BY <1>1, <1>3
      <4>2. j > 1 /\ j - 1 \in 1 .. (n - 1) /\ (j < i <=> j - 1 < i)
        BY <1>1, <3>1, <3>2, <4>1
      <4> QED
        BY <1>1, <1>3, <4>1, <4>2
    <3> QED
      BY <1>4, <1>7, <3>1, <3>3 DEF Orphan, Paired
  <2> QED
    BY <2>1, <2>2 DEF Orphan
<1>8. Thinned(q, z, h)
  BY <1>1, <1>3, <1>4, <1>5, <1>6 DEF Thinned, n
<1> QED
  BY <1>3, <1>7, <1>8

(* An activate and its column access leave together. *)
LEMMA PairLeaves ==
  ASSUME NEW q \in Seq(Commands), Pairs(q), NEW i \in DOMAIN q, ~IsActivate(q[i]),
         i > 1, IsActivate(q[i - 1]),
         NEW z, z = RemoveAt(RemoveAt(q, i), i - 1)
  PROVE  \E h : /\ Thinned(q, z, h)
                /\ \A j \in DOMAIN z : h[j] # i /\ (Orphan(z, j) => Orphan(q, h[j]))
<1> DEFINE n == Len(q)
           y == RemoveAt(q, i)
           h == [j \in 1 .. (n - 2) |-> IF j < i - 1 THEN j ELSE j + 2]
<1>1. n \in Nat /\ i \in 2 .. n /\ DOMAIN q = 1 .. n
  OBVIOUS
<1>2. /\ y \in Seq(Commands) /\ Len(y) = n - 1 /\ DOMAIN y = 1 .. (n - 1)
      /\ \A j \in 1 .. (n - 1) : y[j] = IF j < i THEN q[j] ELSE q[j + 1]
  BY <1>1, RemovedAt
<1>3. /\ z \in Seq(Commands) /\ Len(z) = n - 2 /\ DOMAIN z = 1 .. (n - 2)
      /\ \A j \in 1 .. (n - 2) : z[j] = IF j < i - 1 THEN y[j] ELSE y[j + 1]
  <2> HIDE DEF y, n
  <2>1. i - 1 \in DOMAIN y /\ (n - 1) - 1 = n - 2 /\ z = RemoveAt(y, i - 1)
    BY <1>1, <1>2 DEF y
  <2>2. /\ RemoveAt(y, i - 1) \in Seq(Commands) /\ Len(RemoveAt(y, i - 1)) = Len(y) - 1
        /\ DOMAIN RemoveAt(y, i - 1) = 1 .. (Len(y) - 1)
        /\ \A j \in 1 .. (Len(y) - 1) :
             RemoveAt(y, i - 1)[j] = IF j < i - 1 THEN y[j] ELSE y[j + 1]
    BY <1>2, <2>1, RemovedAt
  <2> QED
    BY <1>2, <2>1, <2>2
<1> HIDE DEF y
<1>4. /\ h \in [DOMAIN z -> DOMAIN q]
      /\ \A j \in DOMAIN z : h[j] # i /\ h[j] # i - 1 /\ h[j] = IF j < i - 1 THEN j ELSE j + 2
  BY <1>1, <1>3
<1> HIDE DEF h, n
<1>5. ASSUME NEW j \in DOMAIN z PROVE z[j] = q[h[j]]
  <2>1. j \in 1 .. (n - 2) /\ j \in 1 .. (n - 1) /\ j + 1 \in 1 .. (n - 1)
    BY <1>1, <1>3
  <2>2. CASE j < i - 1
    <3>1. z[j] = y[j] /\ j < i
      BY <1>1, <1>3, <2>1, <2>2
    <3> QED
      BY <1>2, <1>4, <2>1, <2>2, <3>1
  <2>3. CASE ~(j < i - 1)
    <3>1. z[j] = y[j + 1] /\ ~(j + 1 < i) /\ (j + 1) + 1 = j + 2
      BY <1>1, <1>3, <2>1, <2>3
    <3> QED
      BY <1>2, <1>4, <2>1, <2>3, <3>1
  <2> QED
    BY <2>2, <2>3
<1>6. \A k, j \in DOMAIN z : k < j => h[k] < h[j]
  BY <1>1, <1>3, <1>4, SMTT(30)
<1>7. Pairs(z)
  <2> SUFFICES ASSUME NEW j \in DOMAIN z, IsActivate(z[j])
               PROVE  j + 1 \in DOMAIN z /\ ~IsActivate(z[j + 1]) /\ z[j + 1].addr = z[j].addr
    BY DEF Pairs
  <2>1. h[j] + 1 \in DOMAIN q /\ ~IsActivate(q[h[j] + 1]) /\ q[h[j] + 1].addr = q[h[j]].addr
    BY <1>4, <1>5 DEF Pairs
  <2>2. h[j] + 1 # i - 1 /\ h[j] + 1 # i
    BY <1>1, <1>3, <1>4, <2>1
  <2>3. j + 1 \in DOMAIN z /\ h[j + 1] = h[j] + 1
    <3>1. h[j] + 1 \in 1 .. n /\ j \in 1 .. (n - 2) /\ h[j] = IF j < i - 1 THEN j ELSE j + 2
      BY <1>1, <1>3, <1>4, <2>1
    <3>2. j + 1 \in 1 .. (n - 2) /\ (j < i - 1 => j + 1 < i - 1)
      BY <1>1, <2>2, <3>1
    <3> QED
      BY <1>1, <1>3, <1>4, <3>1, <3>2, SMTT(30)
  <2> QED
    BY <1>5, <2>1, <2>3
<1>8. ASSUME NEW j \in DOMAIN z, Orphan(z, j) PROVE Orphan(q, h[j])
  <2>1. ~IsActivate(q[h[j]]) /\ h[j] \in DOMAIN q
    BY <1>4, <1>5, <1>8 DEF Orphan
  <2>2. ASSUME Paired(q, h[j]) PROVE FALSE
    <3>1. h[j] > 1 /\ IsActivate(q[h[j] - 1]) /\ q[h[j] - 1].addr = q[h[j]].addr
      BY <2>2 DEF Paired
    <3>2. h[j] - 1 # i /\ h[j] - 1 # i - 1
      BY <1>1, <1>3, <1>4, <3>1
    <3>3. j > 1 /\ j - 1 \in DOMAIN z /\ h[j - 1] = h[j] - 1
      <4>1. j \in 1 .. (n - 2) /\ h[j] = IF j < i - 1 THEN j ELSE j + 2
        BY <1>3, <1>4
      <4>2. j > 1 /\ j - 1 \in 1 .. (n - 2) /\ (j < i - 1 <=> j - 1 < i - 1)
        BY <1>1, <3>1, <3>2, <4>1
      <4> QED
        BY <1>1, <1>3, <1>4, <4>1, <4>2, SMTT(30)
    <3> QED
      BY <1>5, <1>8, <3>1, <3>3 DEF Orphan, Paired
  <2> QED
    BY <2>1, <2>2 DEF Orphan
<1>9. Thinned(q, z, h)
  BY <1>1, <1>3, <1>4, <1>5, <1>6, <1>7 DEF Thinned, n
<1> QED
  BY <1>4, <1>8, <1>9

(* The column access of an activate that leaves: no other of its bank has  *)
(* an open row.                                                            *)
Successor(s, q, x) ==
  /\ \A k \in DOMAIN q : Orphan(q, k) => q[k].bank # q[x].bank
  /\ s.config.page = "Open" =>
       \A k \in 1 .. (x - 1) :
         IsActivate(q[k]) \/ q[k].bank # q[x].bank \/ q[k].row # q[x].row

(* The orphans of z were orphans of q, or one is that column access.       *)
OrphansOf(s, d, q, z, h, x) ==
  \A j \in DOMAIN z : Orphan(z, j) =>
    Opened(d, z[j]) /\ (Orphan(q, h[j]) \/ (h[j] = x /\ Successor(s, q, x)))

(* A queue that loses entries. *)
LEMMA QueueThinned ==
  ASSUME NEW s, NEW d, NEW r \in Ranks, NEW b \in Banks, Shape(s), QueueOK(s, r, b),
         d.config = s.config, NEW z, z = d.queue[r][b], NEW h, NEW x,
         Thinned(s.queue[r][b], z, h),
         OrphansOf(s, d, s.queue[r][b], z, h, x)
  PROVE  QueueOK(d, r, b)
<1> DEFINE q == s.queue[r][b]
<1>1. /\ q \in Seq(Commands) /\ DOMAIN q = 1 .. Len(q) /\ Len(q) \in Nat
      /\ z \in Seq(Commands) /\ DOMAIN z = 1 .. Len(z) /\ Len(z) \in Nat
      /\ h \in [DOMAIN z -> DOMAIN q] /\ Len(z) <= Len(q) /\ Pairs(z)
      /\ \A j \in DOMAIN z : z[j] = q[h[j]]
      /\ \A i, j \in DOMAIN z : i < j => h[i] < h[j]
  <2>1. q \in Seq(Commands)
    BY DEF Shape, QueueShape
  <2> HIDE DEF q
  <2>2. Thinned(q, z, h)
    BY DEF q
  <2> QED
    BY <2>1, <2>2 DEF Thinned
<1>2. ColumnTypes(d) = ColumnTypes(s) /\ \A k : QueueBank(d, k) = QueueBank(s, k)
  BY DEF ColumnTypes, QueueBank
<1>3. /\ Len(q) <= CmdQueueDepth
      /\ \A i \in DOMAIN q : /\ q[i].rank = r /\ QueueBank(s, q[i].bank) = b
                             /\ IsActivate(q[i]) \/ q[i].type \in ColumnTypes(s)
      /\ \A i \in DOMAIN q : Orphan(q, i) => Alone(s, q, i)
  BY DEF QueueOK
<1>4. \A j \in DOMAIN z : Orphan(z, j) =>
            /\ Opened(d, z[j])
            /\ Orphan(q, h[j]) \/ (h[j] = x /\ Successor(s, q, x))
  BY DEF OrphansOf
<1> HIDE DEF q
<1>5. \A i, j \in DOMAIN z : h[i] = h[j] => i = j
  <2> SUFFICES ASSUME NEW i \in DOMAIN z, NEW j \in DOMAIN z, h[i] = h[j], i # j PROVE FALSE
    OBVIOUS
  <2>1. i \in Nat /\ j \in Nat /\ h[i] \in Nat /\ h[j] \in Nat
    BY <1>1
  <2>2. CASE i < j
    BY <1>1, <2>1, <2>2
  <2>3. CASE j < i
    BY <1>1, <2>1, <2>3
  <2> QED
    BY <2>1, <2>2, <2>3
<1>6. ASSUME NEW j \in DOMAIN z, Orphan(z, j) PROVE Alone(d, z, j)
  <2>1. ASSUME NEW k \in DOMAIN z, Orphan(z, k), z[k].bank = z[j].bank PROVE k = j
    <3>0. q[h[k]].bank = q[h[j]].bank /\ h[k] \in DOMAIN q /\ h[j] \in DOMAIN q
      BY <1>1, <2>1
    <3>1. CASE Orphan(q, h[j]) /\ Orphan(q, h[k])
      <4>1. h[k] = h[j]
        BY <1>3, <3>0, <3>1 DEF Alone
      <4> QED
        BY <1>5, <4>1
    <3>2. CASE Orphan(q, h[j]) /\ h[k] = x /\ Successor(s, q, x)
      BY <3>0, <3>2 DEF Successor
    <3>3. CASE h[j] = x /\ Successor(s, q, x) /\ Orphan(q, h[k])
      BY <3>0, <3>3 DEF Successor
    <3>4. CASE h[j] = x /\ h[k] = x
      BY <1>5, <3>4
    <3> QED
      BY <1>4, <1>6, <2>1, <3>1, <3>2, <3>3, <3>4
  <2>2. ASSUME d.config.page = "Open", NEW k \in 1 .. (j - 1)
        PROVE  IsActivate(z[k]) \/ z[k].bank # z[j].bank \/ z[k].row # z[j].row
    <3>0. k \in DOMAIN z /\ k < j
      BY <1>1
    <3>1. h[k] \in DOMAIN q /\ h[j] \in DOMAIN q /\ h[k] < h[j]
      BY <1>1, <3>0
    <3>1a. h[k] \in 1 .. (h[j] - 1) /\ z[k] = q[h[k]] /\ z[j] = q[h[j]]
      BY <1>1, <3>0, <3>1
    <3>2. CASE Orphan(q, h[j])
      <4>1. Alone(s, q, h[j])
        BY <1>3, <3>1, <3>2
      <4> QED
        BY <2>2, <3>1a, <4>1 DEF Alone
    <3>3. CASE h[j] = x /\ Successor(s, q, x)
      BY <2>2, <3>1a, <3>3 DEF Successor
    <3> QED
      BY <1>4, <1>6, <3>2, <3>3
  <2> QED
    BY <2>1, <2>2 DEF Alone
<1>7. CmdQueueDepth \in Nat
  BY ControllerAssumption
<1> QED
  BY <1>1, <1>2, <1>3, <1>4, <1>6, <1>7, SMTT(30) DEF QueueOK

-----------------------------------------------------------------------------
(* What a command that leaves does to queues and banks.                    *)

(* A command may change these fields. *)
CommandStep(s, e) ==
  /\ Frame(s, e, {"queue", "rowAccess", "faw", "at", "pre", "sendAct", "refresh", "bank",
                  "writes", "cmd", "error"})
  /\ QueueShape(e) /\ BankShape(e) /\ e.refresh \in Ranks \cup {NoRank}

(* A bank that is the same but for its times. *)
SameBank(y, x) ==
  y.state = x.state /\ y.row = x.row /\ y.last = x.last /\ y.countdown = x.countdown

(* Such a step leaves the settings, the refreshes and the transactions. *)
LEMMA CommandFrame ==
  ASSUME NEW s, NEW e, Inv(s), CommandStep(s, e)
  PROVE  /\ e.config = s.config /\ e.down = s.down /\ e.countdown = s.countdown
         /\ e.turn = s.turn /\ Shape(s) /\ Shape(e) /\ InTurn(e.countdown, e.turn)
<1>1. Shape(s) /\ InTurn(s.countdown, s.turn)
  BY DEF Inv
<1>2. /\ DOMAIN e = Fields /\ e.config = s.config /\ e.down = s.down
      /\ e.countdown = s.countdown /\ e.turn = s.turn /\ e.trans = s.trans /\ e.extra = s.extra
  BY DEF CommandStep, Frame, Fields
<1>3. RankShape(e)
  BY <1>1, <1>2 DEF Shape, RankShape, CommandStep
<1>4. TransactionShape(e)
  BY <1>1, <1>2 DEF Shape, TransactionShape
<1>5. Shape(e)
  BY <1>1, <1>2, <1>3, <1>4 DEF Shape, CommandStep
<1> QED
  BY <1>1, <1>2, <1>5

(* The other banks than c of rank r are as they were. *)
Elsewhere(s, e, r, c) ==
  \A x \in Ranks, y \in Banks : <<x, y>> # <<r, c>> =>
    SameBank(e.bank[x][y], s.bank[x][y]) /\ e.rowAccess[x][y] = s.rowAccess[x][y]

(* Bank c of rank r changes, and the queue its commands are in. *)
LEMMA OneBankChanges ==
  ASSUME NEW s, Inv(s), NEW e, CommandStep(s, e), NEW r \in Ranks, NEW c \in Banks,
         Elsewhere(s, e, r, c), BankOK(e, r, c),
         NEW b \in Banks, b = QueueBank(s, c), QueueOK(e, r, b),
         \A x \in Ranks, y \in Banks : <<x, y>> # <<r, b>> => e.queue[x][y] = s.queue[x][y]
  PROVE  Inv(e) /\ e.countdown = s.countdown
<1>1. /\ e.config = s.config /\ e.down = s.down /\ e.countdown = s.countdown
      /\ e.turn = s.turn /\ Shape(s) /\ Shape(e) /\ InTurn(e.countdown, e.turn)
  BY CommandFrame
<1>2. ASSUME NEW x \in Ranks, NEW y \in Banks PROVE BankOK(e, x, y)
  <2>1. CASE <<x, y>> = <<r, c>>
    BY <2>1
  <2>2. CASE <<x, y>> # <<r, c>>
    <3>1. BankOK(s, x, y)
      BY DEF Inv
    <3>2. SameBank(e.bank[x][y], s.bank[x][y]) /\ e.rowAccess[x][y] = s.rowAccess[x][y]
      BY <2>2 DEF Elsewhere
    <3> QED
      BY <1>1, <3>1, <3>2 DEF BankOK, ColumnTypes, SameBank
  <2> QED
    BY <2>1, <2>2
<1>3. ASSUME NEW x \in Ranks, NEW y \in Banks PROVE QueueOK(e, x, y)
  <2>1. CASE <<x, y>> = <<r, b>>
    BY <2>1
  <2>2. CASE <<x, y>> # <<r, b>>
    <3> DEFINE q == s.queue[x][y]
    <3>0. q \in Seq(Commands)
      <4>1. s.queue \in [Ranks -> [Banks -> Seq(Commands)]]
        BY <1>1 DEF Shape, QueueShape
      <4> QED
        BY <4>1
    <3>1. QueueOK(s, x, y) /\ e.queue[x][y] = q /\ q \in Seq(Commands)
      <4>1. QueueOK(s, x, y)
        BY DEF Inv
      <4> QED
        BY <2>2, <3>0, <4>1
    <3>2. ASSUME NEW i \in DOMAIN q, Opened(s, q[i]) PROVE Opened(e, q[i])
      <4>0. q[i] \in Commands
        <5> HIDE DEF q
        <5> QED
          BY <3>1
      <4>1. q[i].rank = x /\ QueueBank(s, q[i].bank) = y
        BY <3>1 DEF QueueOK
      <4>2. q[i].bank \in Banks
        BY <4>0, CommandsNameBanks
      <4>3. <<x, q[i].bank>> # <<r, c>>
        BY <2>2, <4>1
      <4>4. /\ SameBank(e.bank[x][q[i].bank], s.bank[x][q[i].bank])
            /\ e.rowAccess[x][q[i].bank] = s.rowAccess[x][q[i].bank]
        BY <4>2, <4>3 DEF Elsewhere
      <4> QED
        BY <3>2, <4>0, <4>1, <4>4 DEF Opened, SameBank
    <3> QED
      BY <1>1, <3>1, <3>2, QueueKept
  <2> QED
    BY <2>1, <2>2
<1> QED
  BY <1>1, <1>2, <1>3 DEF Inv


-----------------------------------------------------------------------------
(* The commands that leave.                                                *)

(* The queue a command is in; the queues when it is z. *)
Line(s, p) == s.queue[p.rank][QueueBank(s, p.bank)]
Lines(s, p, z) == [s.queue EXCEPT ![p.rank][QueueBank(s, p.bank)] = z]

Waits(s, p, i) == p \in Commands /\ i \in DOMAIN Line(s, p) /\ Line(s, p)[i] = p

(* With open pages, no column access to its row is in front of command i. *)
Foremost(s, q, i) ==
  s.config.page = "Open" =>
    \A j \in 1 .. (i - 1) : IsActivate(q[j]) \/ q[j].bank # q[i].bank \/ q[j].row # q[i].row

(* Command p at place i leaves, and d is s without it: an activate; a     *)
(* column access without its activate; or with it.                         *)
ActivateGoes(s, d, p, i) ==
  /\ Waits(s, p, i) /\ IsActivate(p) /\ Foremost(s, Line(s, p), i)
  /\ s.bank[p.rank][p.bank].state \in {"Idle", "Refreshing"} /\ Len(s.faw[p.rank]) < 4
  /\ s.bank[p.rank][p.bank].nextActivate = 0
  /\ d.queue = Lines(s, p, RemoveAt(Line(s, p), i)) /\ d.rowAccess = s.rowAccess

OrphanGoes(s, d, p, i) ==
  /\ Waits(s, p, i) /\ Orphan(Line(s, p), i) /\ IsIssuable(s, p)
  /\ d.queue = Lines(s, p, RemoveAt(Line(s, p), i)) /\ d.rowAccess = s.rowAccess

PairGoes(s, d, p, i) ==
  /\ Waits(s, p, i) /\ ~IsActivate(p) /\ Foremost(s, Line(s, p), i) /\ IsIssuable(s, p)
  /\ s.config.page = "Open" /\ i > 1 /\ IsActivate(Line(s, p)[i - 1])
  /\ s.bank[p.rank][p.bank].state = "RowActive" /\ s.bank[p.rank][p.bank].row = p.row
  /\ s.rowAccess[p.rank][p.bank] < TotalRowAccesses
  /\ d.queue = Lines(s, p, RemoveAt(RemoveAt(Line(s, p), i), i - 1))
  /\ d.rowAccess = [s.rowAccess EXCEPT ![p.rank][p.bank] = @ + 1]

(* A refresh of an idle rank, and the end of a row that no orphan needs.   *)
RefreshGoes(s, d, p) ==
  /\ p.rank \in Ranks /\ p = Packet("REFRESH", 0, p.rank, 0, 0)
  /\ \A b \in Banks : /\ s.bank[p.rank][b].state # "RowActive"
                      /\ ~(s.bank[p.rank][b].nextActivate > 0)
  /\ s.bank[p.rank][0].state # "PowerDown"
  /\ d.queue = s.queue /\ d.rowAccess = s.rowAccess

PrechargeGoes(s, d, p) ==
  /\ p.rank \in Ranks /\ p.bank \in Banks /\ p = Packet("PRECHARGE", 0, p.rank, p.bank, 0)
  /\ s.bank[p.rank][p.bank].state = "RowActive" /\ s.bank[p.rank][p.bank].nextPrecharge = 0
  /\ \A i \in DOMAIN Line(s, p) : Orphan(Line(s, p), i) => Line(s, p)[i].bank # p.bank
  /\ d.queue = s.queue /\ d.rowAccess = [s.rowAccess EXCEPT ![p.rank][p.bank] = 0]

(* What command p does to the banks. *)
Effect(s, e, p) ==
  /\ \A x \in Ranks, y \in Banks :
       x # p.rank \/ (p.type # "REFRESH" /\ y # p.bank) => SameBank(e.bank[x][y], s.bank[x][y])
  /\ LET x == s.bank[p.rank][p.bank]
         y == e.bank[p.rank][p.bank]
     IN  /\ p.type = "ACTIVATE" => y.state = "RowActive" /\ y.last = p.type /\ y.row = p.row
         /\ p.type \in {"READ", "READ_P", "WRITE", "WRITE_P"} =>
              y.state = x.state /\ y.row = x.row /\ y.last = p.type
         /\ p.type = "PRECHARGE" => y.state = "Precharging"
  /\ p.type = "REFRESH" => \A y \in Banks : e.bank[p.rank][y].state = "Refreshing"

(* The queue of a bank is one of the queues. *)
LEMMA QueueBankIs ==
  ASSUME NEW s, NEW c \in Banks
  PROVE  QueueBank(s, c) \in Banks
<1>1. 0 \in Banks
  BY TimingAssumption DEF Banks
<1> QED
  BY <1>1 DEF QueueBank

(* What is known of the queue a command waits in. *)
LEMMA LineIsOK ==
  ASSUME NEW s, Inv(s), NEW p, NEW i, Waits(s, p, i), NEW q, q = Line(s, p),
         NEW b, b = QueueBank(s, p.bank)
  PROVE  /\ p \in Commands /\ p.rank \in Ranks /\ p.bank \in Banks /\ b \in Banks
         /\ q = s.queue[p.rank][b] /\ q \in Seq(Commands) /\ i \in DOMAIN q /\ q[i] = p
         /\ DOMAIN q = 1 .. Len(q) /\ Len(q) \in Nat /\ \A k \in DOMAIN q : q[k] \in Commands
         /\ QueueOK(s, p.rank, b) /\ Pairs(q)
<1>1. p \in Commands /\ i \in DOMAIN q /\ q[i] = p /\ q = s.queue[p.rank][b]
  BY DEF Waits, Line
<1>2. p.rank \in Ranks /\ p.bank \in Banks /\ b \in Banks
  BY <1>1, CommandsNameBanks, QueueBankIs
<1>3. s.queue \in [Ranks -> [Banks -> Seq(Commands)]]
  BY DEF Inv, Shape, QueueShape
<1>4. q \in Seq(Commands)
  BY <1>1, <1>2, <1>3
<1>5. QueueOK(s, p.rank, b)
  BY <1>2 DEF Inv
<1>6. Pairs(q)
  BY <1>1, <1>5 DEF QueueOK
<1>7. DOMAIN q = 1 .. Len(q) /\ Len(q) \in Nat /\ \A k \in DOMAIN q : q[k] \in Commands
  BY <1>4
<1> QED
  BY <1>1, <1>2, <1>4, <1>5, <1>6, <1>7

(* One of the queues, or of the counters, is assigned. *)
Changed(f, g, r, b, z) ==
  /\ f[r][b] = z
  /\ \A x \in Ranks, y \in Banks : <<x, y>> # <<r, b>> => f[x][y] = g[x][y]

(* An assignment changes nothing else. *)
LEMMA OneChanged ==
  ASSUME NEW V, NEW g \in [Ranks -> [Banks -> V]], NEW r \in Ranks, NEW b \in Banks, NEW z,
         NEW f, f = [g EXCEPT ![r][b] = z]
  PROVE  Changed(f, g, r, b, z)
<1>1. f[r][b] = z
  OBVIOUS
<1>2. ASSUME NEW x \in Ranks, NEW y \in Banks, <<x, y>> # <<r, b>>
      PROVE  f[x][y] = g[x][y]
  <2>1. CASE x = r
    BY <1>2, <2>1
  <2>2. CASE x # r
    BY <2>2
  <2> QED
    BY <2>1, <2>2
<1> QED
  BY <1>1, <1>2 DEF Changed

Put(f, g, r, b, z) == f = [g EXCEPT ![r][b] = z]

(* An assignment keeps the values. *)
LEMMA OneAssigned ==
  ASSUME NEW V, NEW g \in [Ranks -> [Banks -> V]], NEW r \in Ranks, NEW b \in Banks,
         NEW z \in V, NEW f, Put(f, g, r, b, z)
  PROVE  f \in [Ranks -> [Banks -> V]]
  BY DEF Put

(* The shape of queues and counters. *)
LEMMA ShapeOfQueues ==
  ASSUME NEW s, Inv(s)
  PROVE  /\ s.queue \in [Ranks -> [Banks -> Seq(Commands)]]
         /\ s.rowAccess \in [Ranks -> [Banks -> 0 .. TotalRowAccesses]]
  BY DEF Inv, Shape, QueueShape

(* An orphan of a bank that the command does not concern. *)
LEMMA OrphanStays ==
  ASSUME NEW s, Inv(s), NEW e, NEW r \in Ranks, NEW c \in Banks, NEW b \in Banks,
         Elsewhere(s, e, r, c), NEW q, q = s.queue[r][b], NEW k \in DOMAIN q, q[k] \in Commands, Orphan(q, k),
         q[k].bank # c
  PROVE  Opened(e, q[k])
<1>1. QueueOK(s, r, b)
  BY DEF Inv
<1>2. q[k].rank = r /\ Opened(s, q[k])
  BY <1>1 DEF QueueOK
<1>3. q[k].bank \in Banks
  BY CommandsNameBanks
<1>4. /\ SameBank(e.bank[r][q[k].bank], s.bank[r][q[k].bank])
      /\ e.rowAccess[r][q[k].bank] = s.rowAccess[r][q[k].bank]
  BY <1>3 DEF Elsewhere
<1>5. ASSUME NEW p, p.rank = r, Opened(s, p), SameBank(e.bank[r][p.bank], s.bank[r][p.bank]),
             e.rowAccess[r][p.bank] = s.rowAccess[r][p.bank]
      PROVE  Opened(e, p)
  BY ONLY <1>5 DEF Opened, SameBank
<1> QED
  BY <1>2, <1>4, <1>5

(* No activate stands in front of an orphan, nor in front of an activate.  *)
LEMMA BehindNoActivate ==
  ASSUME NEW q \in Seq(Commands), Pairs(q), NEW i \in DOMAIN q,
         Orphan(q, i) \/ IsActivate(q[i]), i > 1
  PROVE  ~IsActivate(q[i - 1])
<1>1. i - 1 \in DOMAIN q /\ (i - 1) + 1 = i
  OBVIOUS
<1>2. IsActivate(q[i - 1]) => ~IsActivate(q[i]) /\ q[i].addr = q[i - 1].addr
  BY <1>1 DEF Pairs
<1> QED
  BY <1>2 DEF Orphan, Paired

(* A column access leaves whose activate has gone before. *)
LEMMA OrphanGone ==
  ASSUME NEW s, Inv(s), NEW e, CommandStep(s, e), NEW p, NEW i, OrphanGoes(s, e, p, i),
         Effect(s, e, p)
  PROVE  Inv(e) /\ e.countdown = s.countdown
<1> DEFINE r == p.rank
           c == p.bank
           b == QueueBank(s, c)
           q == Line(s, p)
           z == RemoveAt(q, i)
<1>0. /\ Waits(s, p, i) /\ Orphan(q, i)
      /\ e.queue = [s.queue EXCEPT ![r][b] = z] /\ e.rowAccess = s.rowAccess
  BY DEF OrphanGoes, Lines
<1>1. /\ p \in Commands /\ r \in Ranks /\ c \in Banks /\ b \in Banks
      /\ q = s.queue[r][b] /\ q \in Seq(Commands) /\ i \in DOMAIN q /\ q[i] = p
      /\ DOMAIN q = 1 .. Len(q) /\ Len(q) \in Nat /\ \A k \in DOMAIN q : q[k] \in Commands
      /\ QueueOK(s, r, b) /\ Pairs(q)
  BY <1>0, LineIsOK
<1> HIDE DEF r, c, b, q, z
<1>2. Opened(s, p) /\ Alone(s, q, i) /\ p.type \in ColumnTypes(s)
  <2>1. /\ Opened(s, q[i]) /\ Alone(s, q, i)
        /\ IsActivate(q[i]) \/ q[i].type \in ColumnTypes(s)
    BY <1>0, <1>1 DEF QueueOK
  <2> QED
    BY <1>0, <1>1, <2>1 DEF Orphan
<1>3. p.type \in {"READ", "READ_P", "WRITE", "WRITE_P"}
  BY <1>2 DEF ColumnTypes
<1>4. /\ e.queue[r][b] = z
      /\ \A x \in Ranks, y \in Banks : <<x, y>> # <<r, b>> => e.queue[x][y] = s.queue[x][y]
  <2>1. Changed(e.queue, s.queue, r, b, z)
    BY <1>0, <1>1, ShapeOfQueues, OneChanged
  <2> QED
    BY <2>1 DEF Changed
<1>5. Elsewhere(s, e, r, c)
  BY <1>0, <1>3 DEF Effect, Elsewhere, r, c
<1>6. e.config = s.config /\ e.down = s.down /\ Shape(s)
  BY CommandFrame
<1>7. BankOK(e, r, c)
  <2>1. /\ e.bank[r][c].state = "RowActive" /\ e.bank[r][c].last = p.type
        /\ s.bank[r][c].state = "RowActive" /\ e.rowAccess[r][c] = 0
    BY <1>0, <1>2, <1>3 DEF Effect, Opened, r, c
  <2>2. ~s.down[r]
    <3>1. BankOK(s, r, c)
      BY <1>1 DEF Inv
    <3> QED
      BY <2>1, <3>1 DEF BankOK
  <2>3. ColumnTypes(e) = ColumnTypes(s)
    BY <1>6 DEF ColumnTypes
  <2> QED
    BY <1>2, <1>6, <2>1, <2>2, <2>3 DEF BankOK
<1>8. QueueOK(e, r, b)
  <2>1. i > 1 => ~IsActivate(q[i - 1])
    BY <1>0, <1>1, BehindNoActivate
  <2>2. PICK h : /\ Thinned(q, z, h)
                 /\ \A j \in DOMAIN z :
                      /\ h[j] # i
                      /\ Orphan(z, j) => Orphan(q, h[j]) \/ (IsActivate(q[i]) /\ h[j] = i + 1)
    BY <1>1, <2>1, OneLeaves DEF z
  <2>3. ~IsActivate(q[i])
    BY <1>0 DEF Orphan
  <2>4. ASSUME NEW j \in DOMAIN z, Orphan(z, j) PROVE Opened(e, z[j]) /\ Orphan(q, h[j])
    <3>1. Orphan(q, h[j]) /\ h[j] # i /\ h[j] \in DOMAIN q /\ z[j] = q[h[j]]
      BY <2>2, <2>3, <2>4 DEF Thinned
    <3>2. q[h[j]].bank # c
      BY <1>1, <1>2, <3>1 DEF Alone, c
    <3>3. Opened(e, q[h[j]])
      <4> DEFINE k == h[j]
      <4>1. /\ r \in Ranks /\ c \in Banks /\ b \in Banks /\ q = s.queue[r][b]
            /\ k \in DOMAIN q /\ q[k] \in Commands /\ Orphan(q, k) /\ q[k].bank # c
        BY <1>1, <3>1, <3>2
      <4> HIDE DEF k
      <4>2. Opened(e, q[k])
        BY <1>5, <4>1, OrphanStays
      <4> QED
        BY <4>2 DEF k
    <3> QED
      BY <3>1, <3>3
  <2> QED
    <3>1. OrphansOf(s, e, q, z, h, i)
      BY <2>4 DEF OrphansOf
    <3> QED
      BY <1>1, <1>4, <1>6, <2>2, <3>1, QueueThinned
<1> QED
  BY <1>1, <1>4, <1>5, <1>7, <1>8, OneBankChanges DEF b

(* An activate leaves; its column access becomes an orphan. *)
LEMMA ActivateGone ==
  ASSUME NEW s, Inv(s), NEW e, CommandStep(s, e), NEW p, NEW i, ActivateGoes(s, e, p, i),
         Effect(s, e, p)
  PROVE  Inv(e) /\ e.countdown = s.countdown
<1> DEFINE r == p.rank
           c == p.bank
           b == QueueBank(s, c)
           q == Line(s, p)
           z == RemoveAt(q, i)
<1>0. /\ Waits(s, p, i) /\ IsActivate(p) /\ Foremost(s, q, i)
      /\ s.bank[r][c].state \in {"Idle", "Refreshing"}
      /\ e.queue = [s.queue EXCEPT ![r][b] = z] /\ e.rowAccess = s.rowAccess
  BY DEF ActivateGoes, Lines
<1>1. /\ p \in Commands /\ r \in Ranks /\ c \in Banks /\ b \in Banks
      /\ q = s.queue[r][b] /\ q \in Seq(Commands) /\ i \in DOMAIN q /\ q[i] = p
      /\ DOMAIN q = 1 .. Len(q) /\ Len(q) \in Nat /\ \A k \in DOMAIN q : q[k] \in Commands
      /\ QueueOK(s, r, b) /\ Pairs(q)
  BY <1>0, LineIsOK
<1> HIDE DEF r, c, b, q, z
<1>3. p.type = "ACTIVATE"
  BY <1>0 DEF IsActivate
<1>4. /\ e.queue[r][b] = z
      /\ \A x \in Ranks, y \in Banks : <<x, y>> # <<r, b>> => e.queue[x][y] = s.queue[x][y]
  <2>1. Changed(e.queue, s.queue, r, b, z)
    BY <1>0, <1>1, ShapeOfQueues, OneChanged
  <2> QED
    BY <2>1 DEF Changed
<1>5. Elsewhere(s, e, r, c)
  BY <1>0, <1>3 DEF Effect, Elsewhere, r, c
<1>6. e.config = s.config /\ e.down = s.down /\ Shape(s)
  BY CommandFrame
<1>7. /\ e.bank[r][c].state = "RowActive" /\ e.bank[r][c].last = "ACTIVATE"
      /\ e.bank[r][c].row = p.row /\ e.rowAccess[r][c] = 0 /\ ~s.down[r]
  <2>1. /\ e.bank[r][c].state = "RowActive" /\ e.bank[r][c].last = "ACTIVATE"
        /\ e.bank[r][c].row = p.row
    BY <1>3 DEF Effect, r, c
  <2>2. BankOK(s, r, c)
    BY <1>1 DEF Inv
  <2> QED
    BY <1>0, <2>1, <2>2 DEF BankOK
<1>8. BankOK(e, r, c)
  BY <1>6, <1>7 DEF BankOK
<1>9. \A k \in DOMAIN q : Orphan(q, k) => q[k].bank # c
  <2> SUFFICES ASSUME NEW k \in DOMAIN q, Orphan(q, k), q[k].bank = c PROVE FALSE
    OBVIOUS
  <2>1. Opened(s, q[k]) /\ q[k].rank = r
    BY <1>1 DEF QueueOK
  <2> QED
    BY <1>0, <2>1 DEF Opened
<1>10. QueueOK(e, r, b)
  <2>1. i > 1 => ~IsActivate(q[i - 1])
    BY <1>0, <1>1, BehindNoActivate
  <2>2. PICK h : /\ Thinned(q, z, h)
                 /\ \A j \in DOMAIN z :
                      /\ h[j] # i
                      /\ Orphan(z, j) => Orphan(q, h[j]) \/ (IsActivate(q[i]) /\ h[j] = i + 1)
    BY <1>1, <2>1, OneLeaves DEF z
  <2>3. i + 1 \in DOMAIN q /\ q[i + 1].addr = q[i].addr
    BY <1>0, <1>1 DEF Pairs
  <2>4. q[i + 1].rank = r /\ q[i + 1].bank = c /\ q[i + 1].row = p.row
    BY <1>1, <2>3, AddressTells DEF r, c
  <2>5. Successor(s, q, i + 1)
    <3>1. ASSUME s.config.page = "Open", NEW k \in 1 .. ((i + 1) - 1)
          PROVE  IsActivate(q[k]) \/ q[k].bank # q[i + 1].bank \/ q[k].row # q[i + 1].row
      <4>1. CASE k = i
        BY <1>0, <1>1, <4>1
      <4>2. CASE k # i
        <5>1. k \in 1 .. (i - 1)
          BY <1>1, <4>2
        <5>2. q[i].bank = c /\ q[i].row = p.row
          BY <1>1 DEF c
        <5> QED
          BY <1>0, <2>4, <3>1, <5>1, <5>2 DEF Foremost
      <4> QED
        BY <4>1, <4>2
    <3> QED
      BY <1>9, <2>4, <3>1 DEF Successor
  <2>6. ASSUME NEW j \in DOMAIN z, Orphan(z, j)
        PROVE  Opened(e, z[j]) /\ (Orphan(q, h[j]) \/ h[j] = i + 1)
    <3>1. h[j] \in DOMAIN q /\ z[j] = q[h[j]] /\ (Orphan(q, h[j]) \/ h[j] = i + 1)
      BY <2>2, <2>6 DEF Thinned
    <3>2. CASE Orphan(q, h[j])
      <4>1. q[h[j]].bank # c
        BY <1>9, <3>1, <3>2
      <4>2. Opened(e, q[h[j]])
        BY <1>1, <1>5, <3>1, <3>2, <4>1, OrphanStays
      <4> QED
        BY <3>1, <3>2, <4>2
    <3>3. CASE h[j] = i + 1
      BY <1>7, <2>4, <3>1, <3>3 DEF Opened
    <3> QED
      BY <3>1, <3>2, <3>3
  <2>7. OrphansOf(s, e, q, z, h, i + 1)
    BY <2>5, <2>6 DEF OrphansOf
  <2> QED
    BY <1>1, <1>4, <1>6, <2>2, <2>7, QueueThinned
<1> QED
  BY <1>1, <1>4, <1>5, <1>8, <1>10, OneBankChanges DEF b

(* With open pages, a column access leaves with its activate. *)
LEMMA PairGone ==
  ASSUME NEW s, Inv(s), NEW e, CommandStep(s, e), NEW p, NEW i, PairGoes(s, e, p, i),
         Effect(s, e, p)
  PROVE  Inv(e) /\ e.countdown = s.countdown
<1> DEFINE r == p.rank
           c == p.bank
           b == QueueBank(s, c)
           q == Line(s, p)
           z == RemoveAt(RemoveAt(q, i), i - 1)
<1>0. /\ Waits(s, p, i) /\ ~IsActivate(p) /\ Foremost(s, q, i) /\ s.config.page = "Open"
      /\ i > 1 /\ IsActivate(q[i - 1])
      /\ s.bank[r][c].state = "RowActive" /\ s.bank[r][c].row = p.row
      /\ e.queue = [s.queue EXCEPT ![r][b] = z]
      /\ e.rowAccess = [s.rowAccess EXCEPT ![r][c] = @ + 1]
  BY DEF PairGoes, Lines
<1>1. /\ p \in Commands /\ r \in Ranks /\ c \in Banks /\ b \in Banks
      /\ q = s.queue[r][b] /\ q \in Seq(Commands) /\ i \in DOMAIN q /\ q[i] = p
      /\ DOMAIN q = 1 .. Len(q) /\ Len(q) \in Nat /\ \A k \in DOMAIN q : q[k] \in Commands
      /\ QueueOK(s, r, b) /\ Pairs(q)
  BY <1>0, LineIsOK
<1> HIDE DEF r, c, b, q, z
<1>2. p.type \in ColumnTypes(s)
  <2>1. IsActivate(q[i]) \/ q[i].type \in ColumnTypes(s)
    BY <1>1 DEF QueueOK
  <2> QED
    BY <1>0, <1>1, <2>1
<1>3. p.type \in {"READ", "READ_P", "WRITE", "WRITE_P"}
  BY <1>2 DEF ColumnTypes
<1>4. /\ e.queue[r][b] = z
      /\ \A x \in Ranks, y \in Banks : <<x, y>> # <<r, b>> => e.queue[x][y] = s.queue[x][y]
  <2>1. Changed(e.queue, s.queue, r, b, z)
    BY <1>0, <1>1, ShapeOfQueues, OneChanged
  <2> QED
    BY <2>1 DEF Changed
<1>5. Elsewhere(s, e, r, c)
  <2>1. Changed(e.rowAccess, s.rowAccess, r, c, s.rowAccess[r][c] + 1)
    BY <1>0, <1>1, ShapeOfQueues, OneChanged
  <2> QED
    BY <1>3, <2>1 DEF Effect, Elsewhere, Changed, r, c
<1>6. e.config = s.config /\ e.down = s.down /\ Shape(s)
  BY CommandFrame
<1>7. BankOK(e, r, c)
  <2>1. e.bank[r][c].state = "RowActive" /\ e.bank[r][c].last = p.type
    BY <1>0, <1>3 DEF Effect, r, c
  <2>2. ~s.down[r]
    <3>1. BankOK(s, r, c)
      BY <1>1 DEF Inv
    <3> QED
      BY <1>0, <3>1 DEF BankOK
  <2>3. ColumnTypes(e) = ColumnTypes(s)
    BY <1>6 DEF ColumnTypes
  <2> QED
    BY <1>0, <1>2, <1>6, <2>1, <2>2, <2>3 DEF BankOK
<1>8. \A k \in DOMAIN q : Orphan(q, k) => q[k].bank # c
  <2> SUFFICES ASSUME NEW k \in DOMAIN q, Orphan(q, k), q[k].bank = c PROVE FALSE
    OBVIOUS
  <2>1. Opened(s, q[k]) /\ q[k].rank = r /\ Alone(s, q, k) /\ ~IsActivate(q[k])
    BY <1>1 DEF QueueOK, Orphan
  <2>2. q[k].row = q[i].row /\ q[i].bank = c
    BY <1>0, <1>1, <2>1 DEF Opened, c
  <2>3. CASE k = i
    <3>1. ~IsActivate(q[i - 1])
      BY <1>0, <1>1, <2>3, BehindNoActivate
    <3> QED
      BY <1>0, <3>1
  <2>4. CASE k < i
    <3>1. k \in 1 .. (i - 1)
      BY <1>1, <2>4
    <3> QED
      BY <1>0, <2>1, <2>2, <3>1 DEF Foremost
  <2>5. CASE i < k
    <3>1. i \in 1 .. (k - 1)
      BY <1>1, <2>5
    <3> QED
      BY <1>0, <1>1, <2>1, <2>2, <3>1 DEF Alone
  <2> QED
    BY <1>1, <2>3, <2>4, <2>5
<1>9. QueueOK(e, r, b)
  <2>1. PICK h : /\ Thinned(q, z, h)
                 /\ \A j \in DOMAIN z : h[j] # i /\ (Orphan(z, j) => Orphan(q, h[j]))
    BY <1>0, <1>1, PairLeaves DEF z
  <2>2. ASSUME NEW j \in DOMAIN z, Orphan(z, j) PROVE Opened(e, z[j]) /\ Orphan(q, h[j])
    <3>1. Orphan(q, h[j]) /\ h[j] \in DOMAIN q /\ z[j] = q[h[j]]
      BY <2>1, <2>2 DEF Thinned
    <3>2. q[h[j]].bank # c
      BY <1>8, <3>1
    <3>3. Opened(e, q[h[j]])
      <4> DEFINE k == h[j]
      <4>1. /\ r \in Ranks /\ c \in Banks /\ b \in Banks /\ q = s.queue[r][b]
            /\ k \in DOMAIN q /\ q[k] \in Commands /\ Orphan(q, k) /\ q[k].bank # c
        BY <1>1, <3>1, <3>2
      <4> HIDE DEF k
      <4>2. Opened(e, q[k])
        BY <1>5, <4>1, OrphanStays
      <4> QED
        BY <4>2 DEF k
    <3> QED
      BY <3>1, <3>3
  <2> QED
    <3>1. OrphansOf(s, e, q, z, h, i)
      BY <2>2 DEF OrphansOf
    <3> QED
      BY <1>1, <1>4, <1>6, <2>1, <3>1, QueueThinned
<1> QED
  BY <1>1, <1>4, <1>5, <1>7, <1>9, OneBankChanges DEF b

(* A row is closed that no orphan needs. *)
LEMMA PrechargeGone ==
  ASSUME NEW s, Inv(s), NEW e, CommandStep(s, e), NEW p, PrechargeGoes(s, e, p),
         Effect(s, e, p)
  PROVE  Inv(e) /\ e.countdown = s.countdown
<1> DEFINE r == p.rank
           c == p.bank
           b == QueueBank(s, c)
           q == Line(s, p)
<1>0. /\ r \in Ranks /\ c \in Banks /\ p.type = "PRECHARGE" /\ q = s.queue[r][b]
      /\ s.bank[r][c].state = "RowActive"
      /\ \A i \in DOMAIN q : Orphan(q, i) => q[i].bank # c
      /\ e.queue = s.queue /\ e.rowAccess = [s.rowAccess EXCEPT ![r][c] = 0]
  BY DEF PrechargeGoes, Packet, Line
<1>1. b \in Banks
  BY <1>0, QueueBankIs
<1> HIDE DEF r, c, b, q
<1>2. QueueOK(s, r, b) /\ q \in Seq(Commands)
  BY <1>0, <1>1, ShapeOfQueues DEF Inv
<1>3. Changed(e.rowAccess, s.rowAccess, r, c, 0)
  BY <1>0, ShapeOfQueues, OneChanged
<1>4. Elsewhere(s, e, r, c)
  BY <1>0, <1>3 DEF Effect, Elsewhere, Changed, r, c
<1>5. e.config = s.config /\ e.down = s.down /\ Shape(s)
  BY CommandFrame
<1>6. BankOK(e, r, c)
  <2>1. e.bank[r][c].state = "Precharging" /\ e.rowAccess[r][c] = 0
    BY <1>0, <1>3 DEF Effect, Changed, r, c
  <2>2. ~s.down[r]
    <3>1. BankOK(s, r, c)
      BY <1>0 DEF Inv
    <3> QED
      BY <1>0, <3>1 DEF BankOK
  <2> QED
    BY <1>5, <2>1, <2>2 DEF BankOK
<1>7. QueueOK(e, r, b)
  <2>1. ASSUME NEW i \in DOMAIN q, Orphan(q, i) PROVE Opened(e, q[i])
    <3>1. q[i] \in Commands /\ q[i].bank # c
      BY <1>0, <1>2, <2>1
    <3>2. /\ r \in Ranks /\ c \in Banks /\ b \in Banks /\ q = s.queue[r][b]
          /\ i \in DOMAIN q /\ Orphan(q, i)
      BY <1>0, <1>1, <2>1
    <3> QED
      BY <1>4, <3>1, <3>2, OrphanStays
  <2> QED
    BY <1>0, <1>1, <1>2, <1>5, <2>1, QueueKept
<1>8. \A x \in Ranks, y \in Banks : <<x, y>> # <<r, b>> => e.queue[x][y] = s.queue[x][y]
  BY <1>0
<1> QED
  BY <1>0, <1>1, <1>4, <1>6, <1>7, <1>8, OneBankChanges DEF b

(* The queues and banks of a step that takes nothing out of the queues.    *)
LEMMA QueuesKept ==
  ASSUME NEW s, Inv(s), NEW e, CommandStep(s, e), e.queue = s.queue, e.rowAccess = s.rowAccess,
         \A x \in Ranks, y \in Banks :
           /\ BankOK(e, x, y)
           /\ s.bank[x][y].state = "RowActive" => SameBank(e.bank[x][y], s.bank[x][y])
  PROVE  Inv(e) /\ e.countdown = s.countdown
<1>1. /\ e.config = s.config /\ e.countdown = s.countdown /\ e.turn = s.turn
      /\ Shape(s) /\ Shape(e) /\ InTurn(e.countdown, e.turn)
  BY CommandFrame
<1>2. \A p \in Commands : Opened(s, p) => Opened(e, p)
  <2> SUFFICES ASSUME NEW p \in Commands, Opened(s, p) PROVE Opened(e, p)
    OBVIOUS
  <2>1. p.rank \in Ranks /\ p.bank \in Banks
    BY CommandsNameBanks
  <2>2. s.bank[p.rank][p.bank].state = "RowActive"
    BY DEF Opened
  <2>3. SameBank(e.bank[p.rank][p.bank], s.bank[p.rank][p.bank])
    BY <2>1, <2>2
  <2> QED
    BY <2>3 DEF Opened, SameBank
<1>3. ASSUME NEW r \in Ranks, NEW b \in Banks PROVE QueueOK(e, r, b)
  <2>1. s.queue[r][b] \in Seq(Commands) /\ QueueOK(s, r, b)
    BY ShapeOfQueues DEF Inv
  <2>2. \A i \in DOMAIN s.queue[r][b] : s.queue[r][b][i] \in Commands
    BY <2>1
  <2> QED
    BY <1>1, <1>2, <2>1, <2>2, QueueKept
<1> QED
  BY <1>1, <1>3 DEF Inv

(* A rank is refreshed: it has no row open, so no orphan. *)
LEMMA RefreshGone ==
  ASSUME NEW s, Inv(s), NEW e, CommandStep(s, e), NEW p, RefreshGoes(s, e, p),
         Effect(s, e, p)
  PROVE  Inv(e) /\ e.countdown = s.countdown
<1> DEFINE r == p.rank
<1>0. /\ r \in Ranks /\ p.type = "REFRESH" /\ \A b \in Banks : s.bank[r][b].state # "RowActive"
      /\ s.bank[r][0].state # "PowerDown" /\ e.queue = s.queue /\ e.rowAccess = s.rowAccess
  BY DEF RefreshGoes, Packet
<1>1. /\ \A y \in Banks : e.bank[r][y].state = "Refreshing"
      /\ \A x \in Ranks, y \in Banks : x # r => SameBank(e.bank[x][y], s.bank[x][y])
  BY <1>0 DEF Effect
<1> HIDE DEF r
<1>2. e.config = s.config /\ e.down = s.down
  BY CommandFrame
<1>3. ~s.down[r]
  <2>1. 0 \in Banks
    BY TimingAssumption DEF Banks
  <2>2. BankOK(s, r, 0)
    BY <1>0, <2>1 DEF Inv
  <2> QED
    BY <1>0, <2>2 DEF BankOK
<1>4. ASSUME NEW x \in Ranks, NEW y \in Banks
      PROVE  /\ BankOK(e, x, y)
             /\ s.bank[x][y].state = "RowActive" => SameBank(e.bank[x][y], s.bank[x][y])
  <2>1. BankOK(s, x, y)
    BY DEF Inv
  <2>2. CASE x = r
    <3>1. s.rowAccess[r][y] = 0
      BY <1>0, <2>1, <2>2 DEF BankOK
    <3>2. e.bank[r][y].state = "Refreshing"
      BY <1>1
    <3> QED
      BY <1>0, <1>2, <1>3, <2>2, <3>1, <3>2 DEF BankOK
  <2>3. CASE x # r
    <3>1. SameBank(e.bank[x][y], s.bank[x][y])
      BY <1>1, <2>3
    <3> QED
      BY <1>0, <1>2, <2>1, <3>1 DEF BankOK, SameBank, ColumnTypes
  <2> QED
    BY <2>2, <2>3
<1> QED
  BY <1>0, <1>4, QueuesKept

(* No command leaves. *)
LEMMA NothingGone ==
  ASSUME NEW s, Inv(s), NEW e, CommandStep(s, e), e.queue = s.queue, e.rowAccess = s.rowAccess,
         e.bank = s.bank
  PROVE  Inv(e) /\ e.countdown = s.countdown
<1>1. e.config = s.config /\ e.down = s.down
  BY CommandFrame
<1>2. ASSUME NEW x \in Ranks, NEW y \in Banks
      PROVE  BankOK(e, x, y) /\ SameBank(e.bank[x][y], s.bank[x][y])
  <2>1. BankOK(s, x, y)
    BY DEF Inv
  <2> QED
    BY <1>1, <2>1 DEF BankOK, ColumnTypes, SameBank
<1> QED
  BY <1>2, QueuesKept

-----------------------------------------------------------------------------
(* The banks after a command.                                              *)

(* A step of the banks that, for the bank of p, is E. *)
BankChange(s, e) == Frame(s, e, {"bank"}) /\ BankShape(e)

(* A column access gives all banks other times. *)
LEMMA ColumnTimes ==
  ASSUME NEW s, DOMAIN s = Fields, BankShape(s), NEW p
  PROVE  /\ BankChange(s, AfterColumn(s, p))
         /\ \A r \in Ranks, b \in Banks : SameBank(AfterColumn(s, p).bank[r][b], s.bank[r][b])
<1> DEFINE e == AfterColumn(s, p)
           same == IF IsRead(p) THEN [rd |-> Later(T.tCCD, Burst), wr |-> ReadToWrite]
                   ELSE [rd |-> WriteToReadB, wr |-> Later(T.tCCD, Burst)]
           other == IF IsRead(p) THEN [rd |-> Burst + T.tRTRS, wr |-> ReadToWrite]
                    ELSE [rd |-> WriteToReadR, wr |-> Burst + T.tRTRS]
           wait(bank, d) == [bank EXCEPT !.nextRead = Later(@, d.rd), !.nextWrite = Later(@, d.wr)]
<1>1. e = [s EXCEPT !.bank = [r \in Ranks |-> [b \in Banks |->
               CASE r = p.rank -> wait(@[r][b], same)
                 [] r # p.rank /\ @[r][b].state = "RowActive" -> wait(@[r][b], other)
                 [] OTHER -> @[r][b]]]]
  BY DEF AfterColumn
<1> HIDE DEF e, same, other
<1>2. /\ DOMAIN e = Fields /\ \A f \in Fields \ {"bank"} : e[f] = s[f]
      /\ e.bank = [r \in Ranks |-> [b \in Banks |->
               CASE r = p.rank -> wait(s.bank[r][b], same)
                 [] r # p.rank /\ s.bank[r][b].state = "RowActive" -> wait(s.bank[r][b], other)
                 [] OTHER -> s.bank[r][b]]]
  BY <1>1 DEF Fields
<1>3. ASSUME NEW x, DOMAIN x = BankFields, NEW d
      PROVE  DOMAIN wait(x, d) = BankFields /\ SameBank(wait(x, d), x)
  BY <1>3 DEF BankFields, SameBank
<1>4. \A x : SameBank(x, x)
  BY DEF SameBank
<1> HIDE DEF wait
<1>5. ASSUME NEW r \in Ranks, NEW b \in Banks
      PROVE  DOMAIN e.bank[r][b] = BankFields /\ SameBank(e.bank[r][b], s.bank[r][b])
  <2>1. DOMAIN s.bank[r][b] = BankFields
    BY DEF BankShape
  <2>2. e.bank[r][b] \in {s.bank[r][b], wait(s.bank[r][b], same), wait(s.bank[r][b], other)}
    BY <1>2
  <2> QED
    BY <1>3, <1>4, <2>1, <2>2
<1>6. BankShape(e)
  BY <1>2, <1>5 DEF BankShape
<1>7. Frame(s, e, {"bank"})
  BY <1>2 DEF Frame
<1> QED
  BY <1>5, <1>6, <1>7 DEF BankChange, e

(* One bank is assigned. *)
Assigned(e, a, r, c, y) == e = [a EXCEPT !.bank[r][c] = y]

(* The bank of p becomes y after a step that changed times only. *)
LEMMA BankAssigned ==
  ASSUME NEW s, DOMAIN s = Fields, NEW a, BankChange(s, a),
         \A r \in Ranks, b \in Banks : SameBank(a.bank[r][b], s.bank[r][b]),
         NEW r \in Ranks, NEW c \in Banks, NEW y, DOMAIN y = BankFields,
         NEW e, Assigned(e, a, r, c, y)
  PROVE  /\ BankChange(s, e) /\ e.bank[r][c] = y
         /\ \A x \in Ranks, z \in Banks : <<x, z>> # <<r, c>> =>
               SameBank(e.bank[x][z], s.bank[x][z])
<1>1. /\ DOMAIN a = Fields /\ \A f \in Fields \ {"bank"} : a[f] = s[f]
      /\ DOMAIN a.bank = Ranks
      /\ \A x \in Ranks : DOMAIN a.bank[x] = Banks
      /\ \A x \in Ranks, z \in Banks : DOMAIN a.bank[x][z] = BankFields
  BY DEF BankChange, Frame, BankShape
<1>2. /\ DOMAIN e = Fields /\ \A f \in Fields \ {"bank"} : e[f] = s[f]
      /\ e.bank = [a.bank EXCEPT ![r][c] = y]
  BY <1>1 DEF Fields, Assigned
<1>3. DOMAIN e.bank = Ranks /\ e.bank[r] = [a.bank[r] EXCEPT ![c] = y]
      /\ \A x \in Ranks : x # r => e.bank[x] = a.bank[x]
  BY <1>1, <1>2
<1>4. e.bank[r][c] = y /\ DOMAIN e.bank[r] = Banks
      /\ \A z \in Banks : z # c => e.bank[r][z] = a.bank[r][z]
  BY <1>1, <1>3
<1>5. ASSUME NEW x \in Ranks, NEW z \in Banks, <<x, z>> # <<r, c>>
      PROVE  e.bank[x][z] = a.bank[x][z]
  <2>1. CASE x = r
    BY <1>4, <1>5, <2>1
  <2>2. CASE x # r
    BY <1>3, <2>2
  <2> QED
    BY <2>1, <2>2
<1>6. ASSUME NEW x \in Ranks PROVE DOMAIN e.bank[x] = Banks
  BY <1>1, <1>3, <1>4
<1>7. ASSUME NEW x \in Ranks, NEW z \in Banks PROVE DOMAIN e.bank[x][z] = BankFields
  BY <1>1, <1>4, <1>5
<1>8. BankShape(e)
  BY <1>3, <1>6, <1>7 DEF BankShape
<1>9. Frame(s, e, {"bank"})
  BY <1>2 DEF Frame
<1> QED
  BY <1>4, <1>5, <1>8, <1>9 DEF BankChange

(* The types of commands. *)
Kinds == {"ACTIVATE", "READ", "READ_P", "WRITE", "WRITE_P", "PRECHARGE", "REFRESH"}

(* A command changes its own bank, a refresh its rank; the others get      *)
(* other times only.                                                       *)
LEMMA CommandTakesEffect ==
  ASSUME NEW s, DOMAIN s = Fields, BankShape(s), NEW p, p.rank \in Ranks, p.bank \in Banks,
         p.type \in Kinds
  PROVE  BankChange(s, Issued(s, p)) /\ Effect(s, Issued(s, p), p)
<1> DEFINE r == p.rank
           c == p.bank
           x == s.bank[r][c]
           a == AfterColumn(s, p)
           e == Issued(s, p)
<1>1. /\ BankChange(s, a)
      /\ \A u \in Ranks, b \in Banks : SameBank(a.bank[u][b], s.bank[u][b])
  BY ColumnTimes
<1>2. /\ BankChange(s, s)
      /\ \A u \in Ranks, b \in Banks : SameBank(s.bank[u][b], s.bank[u][b])
  BY DEF BankChange, Frame, SameBank
<1>3. DOMAIN s.bank[r][c] = BankFields /\ DOMAIN a.bank[r][c] = BankFields
  BY <1>1 DEF BankShape, BankChange
<1>4. SameBank(a.bank[r][c], x)
  BY <1>1
<1>5. CASE p.type \in {"READ", "WRITE"}
  <2>1. PICK pre : e = AfterRow(s, p, pre)
    <3>1. CASE p.type = "READ"
      BY <3>1 DEF Issued
    <3>2. CASE p.type = "WRITE"
      BY <3>2 DEF Issued
    <3> QED
      BY <1>5, <3>1, <3>2
  <2> DEFINE after(b) == [b EXCEPT !.nextPrecharge = Later(@, pre), !.last = p.type]
             y == after(a.bank[r][c])
  <2>2. Assigned(e, a, r, c, y)
    BY <2>1 DEF AfterRow, Assigned
  <2>3. DOMAIN y = BankFields /\ y.state = x.state /\ y.row = x.row /\ y.last = p.type
    BY <1>3, <1>4 DEF BankFields, SameBank
  <2> HIDE DEF y, e, a
  <2>4. /\ BankChange(s, e) /\ e.bank[r][c] = y
        /\ \A u \in Ranks, b \in Banks : <<u, b>> # <<r, c>> =>
               SameBank(e.bank[u][b], s.bank[u][b])
    BY <1>1, <2>2, <2>3, BankAssigned
  <2> QED
    BY <1>5, <2>3, <2>4 DEF Effect, e
<1>6. CASE p.type \in {"READ_P", "WRITE_P"}
  <2>1. PICK pre, active : e = AfterAuto(s, p, active, pre)
    <3>1. CASE p.type = "READ_P"
      BY <3>1 DEF Issued
    <3>2. CASE p.type = "WRITE_P"
      BY <3>2 DEF Issued
    <3> QED
      BY <1>6, <3>1, <3>2
  <2> DEFINE next == Later(active, s.bank[r][c].nextActivate)
             after(b) == [b EXCEPT !.nextActivate = next, !.nextRead = next,
                                   !.nextWrite = next, !.last = p.type, !.countdown = pre]
             y == after(a.bank[r][c])
  <2>2. Assigned(e, a, r, c, y)
    BY <2>1 DEF AfterAuto, Assigned
  <2>3. DOMAIN y = BankFields /\ y.state = x.state /\ y.row = x.row /\ y.last = p.type
    BY <1>3, <1>4 DEF BankFields, SameBank
  <2> HIDE DEF y, e, a
  <2>4. /\ BankChange(s, e) /\ e.bank[r][c] = y
        /\ \A u \in Ranks, b \in Banks : <<u, b>> # <<r, c>> =>
               SameBank(e.bank[u][b], s.bank[u][b])
    BY <1>1, <2>2, <2>3, BankAssigned
  <2> QED
    BY <1>6, <2>3, <2>4 DEF Effect, e
<1>7. CASE p.type = "PRECHARGE"
  <2> DEFINE closed(b) == [b EXCEPT !.state = "Precharging", !.last = "PRECHARGE",
                                    !.countdown = T.tRP, !.nextActivate = Later(@, T.tRP)]
             y == closed(x)
  <2>1. Assigned(e, s, r, c, y)
    BY <1>7 DEF Issued, AfterPrecharge, Assigned
  <2>2. DOMAIN y = BankFields /\ y.state = "Precharging"
    BY <1>3 DEF BankFields
  <2> HIDE DEF y, e
  <2>3. /\ BankChange(s, e) /\ e.bank[r][c] = y
        /\ \A u \in Ranks, b \in Banks : <<u, b>> # <<r, c>> =>
               SameBank(e.bank[u][b], s.bank[u][b])
    BY <1>2, <2>1, <2>2, BankAssigned
  <2> QED
    BY <1>7, <2>2, <2>3 DEF Effect, e
<1>8. CASE p.type \in {"ACTIVATE", "REFRESH"}
  <2> DEFINE opened(b) == [b EXCEPT !.state = "RowActive", !.last = "ACTIVATE", !.row = p.row,
                                    !.nextActivate = Later(@, T.tRC),
                                    !.nextPrecharge = Later(@, T.tRAS),
                                    !.nextRead = Later(@, T.tRCD - T.AL),
                                    !.nextWrite = Later(@, T.tRCD - T.AL)]
             other(b) == [b EXCEPT !.nextActivate = Later(@, T.tRRD)]
             y(b) == IF p.type = "REFRESH"
                     THEN [s.bank[r][b] EXCEPT !.state = "Refreshing", !.last = "REFRESH",
                                               !.countdown = T.tRFC, !.nextActivate = T.tRFC]
                     ELSE IF b = c THEN opened(s.bank[r][b]) ELSE other(s.bank[r][b])
  <2>1. e = [s EXCEPT !.bank[r] = [b \in Banks |-> y(b)]]
    <3>1. CASE p.type = "ACTIVATE"
      BY <3>1 DEF Issued, AfterActivate
    <3>2. CASE p.type = "REFRESH"
      BY <3>2 DEF Issued
    <3> QED
      BY <1>8, <3>1, <3>2
  <2>2. /\ DOMAIN e = Fields /\ \A f \in Fields \ {"bank"} : e[f] = s[f]
        /\ e.bank = [s.bank EXCEPT ![r] = [b \in Banks |-> y(b)]]
    BY <2>1 DEF Fields
  <2>3. /\ DOMAIN e.bank = Ranks /\ e.bank[r] = [b \in Banks |-> y(b)]
        /\ \A u \in Ranks : u # r => e.bank[u] = s.bank[u]
    BY <2>2 DEF BankShape
  <2>4. ASSUME NEW b \in Banks
        PROVE  /\ DOMAIN y(b) = BankFields
               /\ p.type = "REFRESH" => y(b).state = "Refreshing"
               /\ p.type = "ACTIVATE" /\ b # c => SameBank(y(b), s.bank[r][b])
               /\ p.type = "ACTIVATE" /\ b = c =>
                    y(b).state = "RowActive" /\ y(b).last = p.type /\ y(b).row = p.row
    <3>1. DOMAIN s.bank[r][b] = BankFields
      BY DEF BankShape
    <3>2. CASE p.type = "REFRESH"
      BY <3>1, <3>2 DEF BankFields
    <3>3. CASE p.type = "ACTIVATE" /\ b = c
      BY <3>1, <3>3 DEF BankFields
    <3>4. CASE p.type = "ACTIVATE" /\ b # c
      BY <3>1, <3>4 DEF BankFields, SameBank
    <3> QED
      BY <1>8, <3>2, <3>3, <3>4
  <2> HIDE DEF y, e
  <2>5. BankShape(e)
    BY <2>3, <2>4 DEF BankShape
  <2>6. Frame(s, e, {"bank"})
    BY <2>2 DEF Frame
  <2>7. \A b \in Banks : e.bank[r][b] = y(b)
    BY <2>3
  <2>8. \A u \in Ranks, b \in Banks : u # r => SameBank(e.bank[u][b], s.bank[u][b])
    BY <2>3 DEF SameBank
  <2> QED
    BY <1>8, <2>4, <2>5, <2>6, <2>7, <2>8 DEF Effect, BankChange, e
<1> QED
  BY <1>5, <1>6, <1>7, <1>8 DEF Kinds

-----------------------------------------------------------------------------
(* CommandQueue::pop and the step of the controller around it.             *)

(* What pop may change. *)
PopStep(s, d) ==
  /\ Frame(s, d, {"queue", "rowAccess", "faw", "at", "pre", "sendAct", "refresh"})
  /\ QueueShape(d) /\ d.refresh \in Ranks \cup {NoRank}

(* Packet p is the one that pop returns, and d the queues afterwards. *)
Chosen(s, d, p) ==
  \/ p = NoPacket /\ d.queue = s.queue /\ d.rowAccess = s.rowAccess
  \/ \E i : ActivateGoes(s, d, p, i) \/ OrphanGoes(s, d, p, i) \/ PairGoes(s, d, p, i)
  \/ RefreshGoes(s, d, p)
  \/ PrechargeGoes(s, d, p)

(* The choice is one of queues and counters. *)
LEMMA ChosenOfSame ==
  ASSUME NEW s, NEW d, NEW p, Chosen(s, d, p), NEW e, e.queue = d.queue,
         e.rowAccess = d.rowAccess
  PROVE  Chosen(s, e, p)
  BY DEF Chosen, ActivateGoes, OrphanGoes, PairGoes, RefreshGoes, PrechargeGoes

(* What a packet names. *)
LEMMA PacketNamesBank ==
  ASSUME NEW s, NEW d, NEW p, Chosen(s, d, p), p # NoPacket
  PROVE  p.rank \in Ranks /\ p.bank \in Banks /\ p.type \in Kinds
<1>1. ASSUME p \in Commands PROVE p.rank \in Ranks /\ p.bank \in Banks /\ p.type \in Kinds
  <2>1. p.type \in Kinds
    BY <1>1 DEF Commands, To, Packet, Kinds
  <2> QED
    BY <1>1, <2>1, CommandsNameBanks
<1>2. CASE \E i : ActivateGoes(s, d, p, i) \/ OrphanGoes(s, d, p, i) \/ PairGoes(s, d, p, i)
  BY <1>1, <1>2 DEF ActivateGoes, OrphanGoes, PairGoes, Waits
<1>3. CASE RefreshGoes(s, d, p)
  <2>1. 0 \in Banks
    BY TimingAssumption DEF Banks
  <2> QED
    BY <1>3, <2>1 DEF RefreshGoes, Packet, Kinds
<1>4. CASE PrechargeGoes(s, d, p)
  BY <1>4 DEF PrechargeGoes, Packet, Kinds
<1> QED
  BY <1>2, <1>3, <1>4 DEF Chosen

(* A command that was chosen takes effect. *)
LEMMA CommandGone ==
  ASSUME NEW s, Inv(s), NEW e, CommandStep(s, e), NEW p, p # NoPacket, Chosen(s, e, p),
         Effect(s, e, p)
  PROVE  Inv(e) /\ e.countdown = s.countdown
<1>1. CASE \E i : ActivateGoes(s, e, p, i) \/ OrphanGoes(s, e, p, i) \/ PairGoes(s, e, p, i)
  BY <1>1, ActivateGone, OrphanGone, PairGone
<1>2. CASE RefreshGoes(s, e, p)
  BY <1>2, RefreshGone
<1>3. CASE PrechargeGoes(s, e, p)
  BY <1>3, PrechargeGone
<1> QED
  BY <1>1, <1>2, <1>3 DEF Chosen

(* The controller issues what pop returns, or nothing; t is s with the     *)
(* four-activate windows a cycle older.                                    *)
LEMMA CommandIssued ==
  ASSUME NEW s, NEW t, Inv(t), PopStep(t, Pop(s).m), Chosen(t, Pop(s).m, Pop(s).packet)
  PROVE  Inv(IssueCommand(s)) /\ IssueCommand(s).countdown = t.countdown
<1> DEFINE d == Pop(s).m
           p == Pop(s).packet
           n == IF IsWrite(p)
                THEN [d EXCEPT !.writes = Append(@, [p |-> [p EXCEPT !.type = "DATA"],
                                                     in |-> WL])]
                ELSE d
           u == Issued(n, p)
           e == IssueCommand(s)
<1>0. Shape(t) /\ PopStep(t, d) /\ Chosen(t, d, p)
  BY DEF Inv
<1>1. e = IF p = NoPacket THEN d
          ELSE [u EXCEPT !.error = @ \/ s.cmd.p # NoPacket, !.cmd = [p |-> p, left |-> T.tCMD]]
  BY DEF IssueCommand
<1> HIDE DEF d, p, e
<1>2. DOMAIN d = Fields /\ d.bank = t.bank
  BY <1>0 DEF PopStep, Frame, Fields
<1>3. CASE p = NoPacket
  <2>1. e = d
    BY <1>1, <1>3
  <2>2. CommandStep(t, d)
    <3>1. BankShape(d)
      BY <1>0, <1>2 DEF Shape, BankShape
    <3>2. Frame(t, d, {"queue", "rowAccess", "faw", "at", "pre", "sendAct", "refresh", "bank",
                       "writes", "cmd", "error"})
      BY <1>0 DEF PopStep, Frame
    <3> QED
      BY <1>0, <3>1, <3>2 DEF PopStep, CommandStep
  <2>3. d.queue = t.queue /\ d.rowAccess = t.rowAccess
    <3>1. \A i : ~(ActivateGoes(t, d, p, i) \/ OrphanGoes(t, d, p, i) \/ PairGoes(t, d, p, i))
      <4>1. p \notin Commands
        <5>1. ASSUME p \in Commands
              PROVE  p.type \in {"ACTIVATE", "READ", "READ_P", "WRITE", "WRITE_P"}
          BY <5>1 DEF Commands, To, Packet
        <5>2. p.type = "none"
          BY <1>3 DEF NoPacket
        <5> QED
          BY <5>1, <5>2
      <4> QED
        BY <4>1 DEF ActivateGoes, OrphanGoes, PairGoes, Waits
    <3>2. ~RefreshGoes(t, d, p) /\ ~PrechargeGoes(t, d, p)
      BY <1>3 DEF RefreshGoes, PrechargeGoes, NoPacket, Packet
    <3> QED
      BY <1>0, <3>1, <3>2 DEF Chosen
  <2>4. Inv(d) /\ d.countdown = t.countdown
    BY <1>2, <2>2, <2>3, NothingGone
  <2> QED
    BY <2>1, <2>4 DEF e
<1>4. CASE p # NoPacket
  <2>1. /\ DOMAIN n = Fields /\ \A f \in Fields \ {"writes"} : n[f] = d[f]
        /\ n.bank = t.bank
    BY <1>2 DEF Fields
  <2> HIDE DEF n
  <2>2. BankShape(n)
    BY <1>0, <2>1 DEF Shape, BankShape
  <2>3. p.rank \in Ranks /\ p.bank \in Banks /\ p.type \in Kinds
    BY <1>0, <1>4, PacketNamesBank
  <2>4. BankChange(n, u) /\ Effect(n, u, p)
    BY <2>1, <2>2, <2>3, CommandTakesEffect
  <2>5. DOMAIN u = Fields /\ (\A f \in Fields \ {"bank"} : u[f] = n[f]) /\ BankShape(u)
    BY <2>4 DEF BankChange, Frame
  <2> HIDE DEF u
  <2>6. /\ DOMAIN e = Fields /\ \A f \in Fields \ {"error", "cmd"} : e[f] = u[f]
        /\ e.bank = u.bank
    BY <1>1, <1>4, <2>5 DEF Fields
  <2>7. \A f \in Fields \ {"error", "cmd", "bank", "writes"} : e[f] = d[f]
    BY <2>1, <2>5, <2>6
  <2>8. /\ e.queue = d.queue /\ e.rowAccess = d.rowAccess /\ e.faw = d.faw /\ e.at = d.at
        /\ e.pre = d.pre /\ e.refresh = d.refresh
    BY <2>7 DEF Fields
  <2>9. CommandStep(t, e)
    <3>1. Frame(t, e, {"queue", "rowAccess", "faw", "at", "pre", "sendAct", "refresh", "bank",
                       "writes", "cmd", "error"})
      BY <1>0, <2>6, <2>7 DEF PopStep, Frame
    <3>2. QueueShape(e)
      BY <1>0, <2>8 DEF PopStep, QueueShape
    <3>3. BankShape(e)
      BY <2>5, <2>6 DEF BankShape
    <3> QED
      BY <1>0, <2>8, <3>1, <3>2, <3>3 DEF PopStep, CommandStep
  <2>10. Effect(t, e, p)
    BY <2>1, <2>4, <2>6 DEF Effect
  <2>11. Chosen(t, e, p)
    BY <1>0, <2>8, ChosenOfSame
  <2> QED
    BY <1>4, <2>9, <2>10, <2>11, CommandGone DEF e
<1> QED
  BY <1>3, <1>4

-----------------------------------------------------------------------------
(* What pop chooses.                                                       *)

(* The windows of four activates. *)
LEMMA WindowsTicked ==
  ASSUME NEW s, Inv(s)
  PROVE  Inv(FawTick(s)) /\ FawTick(s).countdown = s.countdown
<1> DEFINE less(f) == [i \in DOMAIN f |-> f[i] - 1]
           after(f) == IF less(f) # <<>> /\ Head(less(f)) = 0 THEN Tail(less(f)) ELSE less(f)
           t == FawTick(s)
<1>1. Shape(s)
  BY DEF Inv
<1>2. /\ DOMAIN t = Fields /\ \A f \in Fields \ {"faw"} : t[f] = s[f]
      /\ t.faw = [r \in Ranks |-> after(s.faw[r])]
  BY <1>1 DEF FawTick, Shape, Fields
<1>3. ASSUME NEW f \in Seq(Int), Len(f) <= 4
      PROVE  after(f) \in Seq(Int) /\ Len(after(f)) <= 4
  <2>1. less(f) \in Seq(Int) /\ Len(less(f)) = Len(f) /\ Len(f) \in Nat
    BY SMTT(30)
  <2>2. CASE less(f) # <<>> /\ Head(less(f)) = 0
    <3>1. Tail(less(f)) \in Seq(Int) /\ Len(Tail(less(f))) = Len(less(f)) - 1
      BY <2>1, <2>2
    <3> HIDE DEF less
    <3> QED
      BY <1>3, <2>1, <2>2, <3>1
  <2>3. CASE ~(less(f) # <<>> /\ Head(less(f)) = 0)
    <3> HIDE DEF less
    <3> QED
      BY <1>3, <2>1, <2>3
  <2> QED
    BY <2>2, <2>3
<1> HIDE DEF t, after
<1>4. /\ t.queue = s.queue /\ t.rowAccess = s.rowAccess /\ t.bank = s.bank /\ t.at = s.at
      /\ t.pre = s.pre /\ t.refresh = s.refresh
  BY <1>2 DEF Fields
<1>5. t.faw \in [Ranks -> Seq(Int)] /\ \A r \in Ranks : Len(t.faw[r]) <= 4
  <2>1. \A r \in Ranks : s.faw[r] \in Seq(Int) /\ Len(s.faw[r]) <= 4
    BY <1>1 DEF Shape, QueueShape
  <2> QED
    BY <1>2, <1>3, <2>1
<1>6. QueueShape(t)
  BY <1>1, <1>4, <1>5 DEF Shape, QueueShape
<1>7. BankShape(t) /\ t.refresh \in Ranks \cup {NoRank}
  BY <1>1, <1>4 DEF Shape, BankShape, RankShape
<1>8. Frame(s, t, {"queue", "rowAccess", "faw", "at", "pre", "sendAct", "refresh", "bank",
                   "writes", "cmd", "error"})
  BY <1>2 DEF Frame
<1>9. CommandStep(s, t)
  BY <1>6, <1>7, <1>8 DEF CommandStep
<1> QED
  BY <1>4, <1>9, NothingGone DEF t

(* What a search of the queues may change. *)
Search(s, d) ==
  /\ Frame(s, d, {"queue", "rowAccess", "at", "pre", "refresh"})
  /\ d.queue \in [Ranks -> [Banks -> Seq(Commands)]]
  /\ d.rowAccess \in [Ranks -> [Banks -> 0 .. TotalRowAccesses]]
  /\ d.at \in Ranks \X Banks /\ d.pre \in Ranks \X Banks
  /\ d.refresh \in Ranks \cup {NoRank}

(* The search that finds nothing. *)
LEMMA NothingFound ==
  ASSUME NEW s, Inv(s)
  PROVE  Search(s, s) /\ Chosen(s, s, NoPacket)
<1>1. Shape(s)
  BY DEF Inv
<1> QED
  BY <1>1 DEF Shape, QueueShape, RankShape, Search, Chosen, Frame

(* Queues that lose entries of one queue. *)
LEMMA LinesShape ==
  ASSUME NEW s, Inv(s), NEW p, NEW i, Waits(s, p, i), NEW z \in Seq(Commands)
  PROVE  Lines(s, p, z) \in [Ranks -> [Banks -> Seq(Commands)]]
<1>1. p.rank \in Ranks /\ QueueBank(s, p.bank) \in Banks
  <2>1. p \in Commands
    BY DEF Waits
  <2> QED
    BY <2>1, CommandsNameBanks, QueueBankIs
<1>2. s.queue \in [Ranks -> [Banks -> Seq(Commands)]]
  BY ShapeOfQueues
<1> QED
  BY <1>1, <1>2 DEF Lines

(* An entry of a queue, and its rank and bank. *)
LEMMA EntryWaits ==
  ASSUME NEW s, Inv(s), NEW r \in Ranks, NEW b \in Banks, NEW q, q = s.queue[r][b],
         NEW i \in DOMAIN q
  PROVE  /\ q[i] \in Commands /\ q[i].rank = r /\ QueueBank(s, q[i].bank) = b
         /\ q[i].bank \in Banks /\ Line(s, q[i]) = q /\ Waits(s, q[i], i)
         /\ q \in Seq(Commands) /\ QueueOK(s, r, b) /\ Pairs(q)
<1>1. q \in Seq(Commands)
  BY ShapeOfQueues
<1>2. q[i] \in Commands
  BY <1>1
<1>3. QueueOK(s, r, b)
  BY DEF Inv
<1>4. q[i].rank = r /\ QueueBank(s, q[i].bank) = b /\ Pairs(q)
  BY <1>3 DEF QueueOK
<1>5. Line(s, q[i]) = q
  BY <1>4 DEF Line
<1>6. q[i].bank \in Banks
  BY <1>2, CommandsNameBanks
<1> QED
  BY <1>1, <1>2, <1>3, <1>4, <1>5, <1>6 DEF Waits

(* Nothing in front of entry j belongs to bank b and its open row, so it    *)
(* is no activate's column access.                                          *)
LEMMA FirstIsOrphan ==
  ASSUME NEW s, Inv(s), NEW r \in Ranks, NEW b \in Banks, NEW q, q = s.queue[r][b],
         NEW j \in DOMAIN q, ~IsActivate(q[j]),
         \A i \in DOMAIN q : i < j => q[i].bank # q[j].bank \/ q[i].row # q[j].row
  PROVE  Orphan(q, j)
<1>1. q \in Seq(Commands) /\ q[j] \in Commands
  BY EntryWaits
<1>2. ASSUME Paired(q, j) PROVE FALSE
  <2>1. j > 1 /\ q[j - 1].addr = q[j].addr
    BY <1>2 DEF Paired
  <2>2. j - 1 \in DOMAIN q /\ j - 1 < j
    BY <1>1, <2>1
  <2>3. q[j - 1] \in Commands
    BY <1>1, <2>2
  <2>4. q[j - 1].bank = q[j].bank /\ q[j - 1].row = q[j].row
    BY <1>1, <2>1, <2>3, AddressTells
  <2> QED
    BY <2>2, <2>4
<1> QED
  BY <1>2 DEF Orphan

(* A row is closed that no orphan needs. *)
LEMMA CloseChosen ==
  ASSUME NEW s, Inv(s), NEW r \in Ranks, NEW b \in Banks, s.bank[r][b].state = "RowActive",
         s.bank[r][b].nextPrecharge = 0, NEW q, q = QueueOf(s, r, b), \A i \in DOMAIN q : Orphan(q, i) => q[i].bank # b,
         NEW a, Frame(s, a, {"pre"}), a.pre \in Ranks \X Banks
  PROVE  Search(s, Close(a, r, b).m) /\ Chosen(s, Close(a, r, b).m, Close(a, r, b).packet)
<1> DEFINE d == Close(a, r, b).m
           p == Packet("PRECHARGE", 0, r, b, 0)
<1>1. /\ DOMAIN a = Fields /\ \A f \in Fields \ {"pre"} : a[f] = s[f]
      /\ d = [a EXCEPT !.rowAccess[r][b] = 0] /\ Close(a, r, b).packet = p
  BY DEF Close, Result, Frame
<1>2. Shape(s)
  BY DEF Inv
<1> HIDE DEF d
<1>3. /\ DOMAIN d = Fields /\ \A f \in Fields \ {"rowAccess"} : d[f] = a[f]
      /\ a.rowAccess = s.rowAccess /\ d.rowAccess = [s.rowAccess EXCEPT ![r][b] = 0]
  BY <1>1 DEF Fields
<1>4. p.rank = r /\ p.bank = b /\ p = Packet("PRECHARGE", 0, p.rank, p.bank, 0)
  BY DEF Packet
<1> HIDE DEF p
<1>5. /\ d.queue = s.queue /\ d.at = s.at /\ d.pre = a.pre /\ d.refresh = s.refresh
      /\ Frame(s, d, {"queue", "rowAccess", "at", "pre", "refresh"})
  BY <1>1, <1>3 DEF Fields, Frame
<1>6. d.rowAccess \in [Ranks -> [Banks -> 0 .. TotalRowAccesses]]
  <2>1. 0 \in 0 .. TotalRowAccesses
    BY ControllerAssumption
  <2> QED
    BY <1>3, <2>1, ShapeOfQueues
<1>7. Search(s, d)
  BY <1>2, <1>5, <1>6 DEF Search, Shape, QueueShape, RankShape
<1>8. Line(s, p) = q
  BY <1>4 DEF Line, QueueOf
<1>9. PrechargeGoes(s, d, p)
  BY <1>3, <1>4, <1>5, <1>8 DEF PrechargeGoes
<1>10. Chosen(s, d, p)
  BY <1>9 DEF Chosen
<1> QED
  BY <1>1, <1>7, <1>10 DEF d

(* The rank that waits for its refresh. *)
LEMMA RefreshPopped ==
  ASSUME NEW s, Inv(s)
  PROVE  /\ Search(s, PopRefresh(s).m)
         /\ Chosen(s, PopRefresh(s).m, PopRefresh(s).packet)
<1> DEFINE r == s.refresh
           busy == {x \in Banks : s.bank[r][x].state = "RowActive" \/ s.bank[r][x].nextActivate > 0}
           b == Min(busy)
           q == QueueOf(s, r, b)
           hits == {i \in DOMAIN q : q[i].bank = b /\ q[i].row = s.bank[r][b].row}
           j == First(hits)
           column == j # 0 /\ q[j].type # "ACTIVATE"
           res == PopRefresh(s)
<1>0. Shape(s) /\ r \in Ranks \cup {NoRank} /\ NoRank \notin Ranks
  BY DEF Inv, Shape, RankShape, NoRank, Ranks
<1>1. res = CASE r = NoRank -> Result(s, NoPacket)
        [] r # NoRank /\ busy = {} ->
             IF s.bank[r][0].state = "PowerDown" THEN Result(s, NoPacket)
             ELSE Result([s EXCEPT !.refresh = NoRank], Packet("REFRESH", 0, r, 0, 0))
        [] r # NoRank /\ busy # {} /\ s.bank[r][b].state # "RowActive" -> Result(s, NoPacket)
        [] r # NoRank /\ busy # {} /\ s.bank[r][b].state = "RowActive" ->
             IF column /\ IsIssuable(s, q[j])
             THEN Result([s EXCEPT !.queue[r][QueueBank(s, b)] = RemoveAt(@, j)], q[j])
             ELSE IF s.config.page = "Open" /\ ~column /\ s.bank[r][b].nextPrecharge = 0
                  THEN Close(s, r, b)
                  ELSE Result(s, NoPacket)
  BY DEF PopRefresh
<1> SUFFICES Search(s, res.m) /\ Chosen(s, res.m, res.packet)
  OBVIOUS
<1> HIDE DEF res, j, hits, column, q, b, busy, r
<1>2. ASSUME res = Result(s, NoPacket) PROVE Search(s, res.m) /\ Chosen(s, res.m, res.packet)
  BY <1>2, NothingFound DEF Result
<1>3. CASE r # NoRank /\ busy = {} /\ s.bank[r][0].state # "PowerDown"
  <2> DEFINE d == [s EXCEPT !.refresh = NoRank]
             p == Packet("REFRESH", 0, r, 0, 0)
  <2>1. res.m = d /\ res.packet = p
    BY <1>1, <1>3 DEF Result
  <2>2. /\ DOMAIN d = Fields /\ \A f \in Fields \ {"refresh"} : d[f] = s[f]
        /\ d.refresh = NoRank
    BY <1>0 DEF Shape, Fields
  <2>3. p.rank = r /\ r \in Ranks /\ p = Packet("REFRESH", 0, p.rank, 0, 0)
    BY <1>0, <1>3 DEF Packet
  <2> HIDE DEF d, p
  <2>4. d.queue = s.queue /\ d.rowAccess = s.rowAccess /\ d.at = s.at /\ d.pre = s.pre
    BY <2>2 DEF Fields
  <2>5. Search(s, d)
    BY <1>0, <2>2, <2>4 DEF Search, Frame, Shape, QueueShape
  <2>6. \A x \in Banks : s.bank[r][x].state # "RowActive" /\ ~(s.bank[r][x].nextActivate > 0)
    BY <1>3 DEF busy
  <2>7. RefreshGoes(s, d, p)
    BY <1>3, <2>3, <2>4, <2>6 DEF RefreshGoes
  <2>8. Chosen(s, d, p)
    BY <2>7 DEF Chosen
  <2> QED
    BY <2>1, <2>5, <2>8
<1>4. CASE r # NoRank /\ busy # {} /\ s.bank[r][b].state = "RowActive"
  <2> DEFINE y == QueueBank(s, b)
  <2>1. r \in Ranks /\ b \in Banks
    <3>1. busy \subseteq Nat
      BY DEF busy, Banks
    <3>2. b \in busy
      BY <1>4, <3>1, MinOfNats DEF b
    <3> QED
      BY <1>0, <1>4, <3>2 DEF busy
  <2>2. y \in Banks /\ q = s.queue[r][y]
    BY <2>1, QueueBankIs DEF QueueOf, q
  <2>3. QueueOK(s, r, y) /\ q \in Seq(Commands) /\ Pairs(q)
    <3>1. s.queue \in [Ranks -> [Banks -> Seq(Commands)]]
      BY ShapeOfQueues
    <3>2. QueueOK(s, r, y)
      BY <2>1, <2>2 DEF Inv
    <3> QED
      BY <2>1, <2>2, <3>1, <3>2 DEF QueueOK
  <2>4. /\ hits \subseteq DOMAIN q
        /\ j = 0 <=> hits = {}
        /\ j # 0 => j \in hits
        /\ \A i \in hits : j <= i
    <3>1. hits \subseteq Nat \ {0} /\ hits \subseteq DOMAIN q
      BY <2>3 DEF hits
    <3> QED
      BY <3>1, FirstIsFound DEF j
  <2> HIDE DEF y
  <2>5. CASE column /\ IsIssuable(s, q[j])
    <3> DEFINE d == [s EXCEPT !.queue[r][y] = RemoveAt(@, j)]
               p == q[j]
    <3>1. res.m = d /\ res.packet = p
      BY <1>1, <1>4, <2>5 DEF Result, y
    <3>2. j \in hits /\ j \in DOMAIN q /\ ~IsActivate(q[j])
      BY <2>4, <2>5 DEF column, IsActivate
    <3>3. q[j].bank = b /\ q[j].row = s.bank[r][b].row
      BY <3>2 DEF hits
    <3>4. /\ q[j] \in Commands /\ q[j].rank = r /\ Line(s, q[j]) = q /\ Waits(s, q[j], j)
      BY <2>1, <2>2, <3>2, EntryWaits
    <3>5. Orphan(q, j)
      <4>1. \A i \in DOMAIN q : i < j => q[i].bank # q[j].bank \/ q[i].row # q[j].row
        <5> SUFFICES ASSUME NEW i \in DOMAIN q, i < j, q[i].bank = b, q[i].row = s.bank[r][b].row
                     PROVE  FALSE
          BY <3>3
        <5>1. i \in hits
          BY DEF hits
        <5>2. j <= i /\ i \in Nat /\ j \in Nat
          BY <2>3, <2>4, <3>2, <5>1
        <5> QED
          BY <5>2
      <4> QED
        BY <2>1, <2>2, <3>2, <4>1, FirstIsOrphan
    <3>6. /\ DOMAIN d = Fields /\ \A f \in Fields \ {"queue"} : d[f] = s[f]
          /\ d.queue = [s.queue EXCEPT ![r][y] = RemoveAt(q, j)]
      BY <1>0, <2>2 DEF Shape, Fields
    <3> HIDE DEF d, p
    <3>7. d.queue = Lines(s, p, RemoveAt(q, j))
      BY <3>3, <3>4, <3>6 DEF Lines, p, y
    <3>8. RemoveAt(q, j) \in Seq(Commands)
      BY <2>3, <3>2, RemovedAt
    <3>9. d.queue \in [Ranks -> [Banks -> Seq(Commands)]]
      BY <3>4, <3>7, <3>8, LinesShape DEF p
    <3>10. /\ d.rowAccess = s.rowAccess /\ d.at = s.at /\ d.pre = s.pre /\ d.refresh = s.refresh
      BY <3>6 DEF Fields
    <3>11. Search(s, d)
      BY <1>0, <3>6, <3>9, <3>10 DEF Search, Frame, Shape, QueueShape, RankShape
    <3>12. OrphanGoes(s, d, p, j)
      BY <2>5, <3>4, <3>5, <3>7, <3>10 DEF OrphanGoes, p
    <3>13. Chosen(s, d, p)
      BY <3>12 DEF Chosen
    <3> QED
      BY <3>1, <3>11, <3>13
  <2>6. CASE ~(column /\ IsIssuable(s, q[j])) /\ s.config.page = "Open" /\ ~column
             /\ s.bank[r][b].nextPrecharge = 0
    <3>1. res = Close(s, r, b)
      BY <1>1, <1>4, <2>6
    <3>2. ASSUME NEW i \in DOMAIN q, Orphan(q, i), q[i].bank = b PROVE FALSE
      <4>1. Opened(s, q[i]) /\ Alone(s, q, i) /\ q[i].rank = r /\ ~IsActivate(q[i])
        BY <2>2, <2>3, <3>2 DEF QueueOK, Orphan
      <4>2. q[i].row = s.bank[r][b].row
        BY <3>2, <4>1 DEF Opened
      <4>3. i \in hits
        BY <3>2, <4>2 DEF hits
      <4>4. j \in hits /\ j <= i /\ IsActivate(q[j]) /\ j \in DOMAIN q
        BY <2>4, <2>6, <4>3 DEF column, IsActivate
      <4>5. j + 1 \in DOMAIN q /\ ~IsActivate(q[j + 1]) /\ q[j + 1].addr = q[j].addr
        BY <2>3, <4>4 DEF Pairs
      <4>6. q[j + 1].bank = b /\ q[j + 1].row = s.bank[r][b].row
        <5>1. q[j].bank = b /\ q[j].row = s.bank[r][b].row
          BY <4>4 DEF hits
        <5>2. q[j + 1] \in Commands /\ q[j] \in Commands
          BY <2>3, <4>4, <4>5
        <5> QED
          BY <4>5, <5>1, <5>2, AddressTells
      <4>7. j + 1 # i
        <5>1. Paired(q, j + 1)
          <6>1. j + 1 > 1 /\ (j + 1) - 1 = j
            BY <2>3, <4>4
          <6> QED
            BY <4>4, <4>5, <6>1 DEF Paired
        <5> QED
          BY <3>2, <5>1 DEF Orphan
      <4>8. j + 1 \in 1 .. (i - 1)
        <5>1. j # i
          BY <4>1, <4>4
        <5> QED
          BY <2>3, <4>4, <4>5, <4>7, <5>1
      <4> QED
        BY <2>6, <3>2, <4>1, <4>2, <4>5, <4>6, <4>8 DEF Alone
    <3> QED
      <4>1. Frame(s, s, {"pre"}) /\ s.pre \in Ranks \X Banks
        BY <1>0 DEF Frame, Shape, QueueShape
      <4>2. q = QueueOf(s, r, b)
        BY DEF q
      <4> QED
        BY <1>4, <2>1, <2>6, <3>1, <3>2, <4>1, <4>2, CloseChosen
  <2>7. CASE /\ ~(column /\ IsIssuable(s, q[j]))
             /\ ~(s.config.page = "Open" /\ ~column /\ s.bank[r][b].nextPrecharge = 0)
    <3>1. res = Result(s, NoPacket)
      BY <1>1, <1>4, <2>7
    <3> QED
      BY <1>2, <3>1
  <2> QED
    BY <2>5, <2>6, <2>7
<1>5. CASE r = NoRank
  BY <1>1, <1>2, <1>5
<1>6. CASE r # NoRank /\ busy = {} /\ s.bank[r][0].state = "PowerDown"
  BY <1>1, <1>2, <1>6
<1>7. CASE r # NoRank /\ busy # {} /\ s.bank[r][b].state # "RowActive"
  BY <1>1, <1>2, <1>7
<1> QED
  BY <1>3, <1>4, <1>5, <1>6, <1>7

-----------------------------------------------------------------------------
(* Loops.                                                                  *)

(* Induction on the natural numbers, for a set instead of a predicate. *)
LEMMA InductionOverSet ==
  ASSUME NEW S, 0 \in S, \A i \in Nat : i \in S => i + 1 \in S
  PROVE  Nat \subseteq S
<1> SUFFICES ASSUME Nat \ S # {} PROVE FALSE
  OBVIOUS
<1>1. Nat \ S \subseteq Nat
  OBVIOUS
<1>2. Min(Nat \ S) \in Nat \ S /\ \A y \in Nat \ S : Min(Nat \ S) <= y
  BY <1>1, MinOfNats
<1> DEFINE x == Min(Nat \ S)
<1> HIDE DEF x
<1>3. x \in Nat /\ x \notin S /\ \A y \in Nat \ S : x <= y
  BY <1>2 DEF x
<1>4. x - 1 \in Nat /\ x - 1 \in S /\ (x - 1) + 1 = x
  BY <1>3
<1> QED
  BY <1>3, <1>4

(* The steps of a loop from "from" with "next". *)
Steps(w, next, from, n) ==
  w = [i \in 0 .. n |-> IF i = 0 THEN from ELSE next[w[i - 1]]]

(* The recursive function of Loop exists. *)
LEMMA StepsExist ==
  ASSUME NEW next, NEW from, NEW n \in Nat
  PROVE  \E w : Steps(w, next, from, n)
<1> DEFINE Fold(k, w) == w = [i \in 0 .. k |-> IF i = 0 THEN from ELSE next[w[i - 1]]]
           S == {k \in Nat : \E w : Fold(k, w)}
<1>1. 0 \in S
  <2>1. Fold(0, [i \in 0 .. 0 |-> from])
    OBVIOUS
  <2> QED
    BY <2>1
<1>2. ASSUME NEW k \in Nat, k \in S PROVE k + 1 \in S
  <2>1. PICK w : Fold(k, w)
    BY <1>2
  <2> DEFINE x == [i \in 0 .. k + 1 |-> IF i <= k THEN w[i] ELSE next[w[k]]]
  <2>2. \A i \in 0 .. k + 1 : x[i] = IF i = 0 THEN from ELSE next[x[i - 1]]
    <3> SUFFICES ASSUME NEW i \in 0 .. k + 1
                 PROVE  x[i] = IF i = 0 THEN from ELSE next[x[i - 1]]
      OBVIOUS
    <3>1. CASE i <= k
      <4>1. x[i] = IF i = 0 THEN from ELSE next[w[i - 1]]
        BY <2>1, <3>1
      <4>2. i # 0 => x[i - 1] = w[i - 1]
        BY <3>1
      <4> QED
        BY <4>1, <4>2
    <3>2. CASE i = k + 1
      <4>1. x[i] = next[w[k]] /\ x[i - 1] = w[k] /\ i # 0
        BY <3>2
      <4> QED
        BY <4>1
    <3> QED
      BY <3>1, <3>2
  <2>3. Fold(k + 1, x)
    BY <2>2
  <2> HIDE DEF x, Fold
  <2> QED
    BY <2>3
<1> HIDE DEF S
<1>3. n \in S
  BY <1>1, <1>2, InductionOverSet
<1> QED
  BY <1>3 DEF S, Steps

(* The positions of a loop are ranks and banks. *)
LEMMA LoopInRange ==
  ASSUME NEW next \in [Ranks \X Banks -> Ranks \X Banks], NEW from \in Ranks \X Banks,
         NEW stop
  PROVE  /\ DOMAIN Loop(next, from, stop) \subseteq Nat \ {0}
         /\ \A i \in DOMAIN Loop(next, from, stop) : Loop(next, from, stop)[i] \in Ranks \X Banks
<1> DEFINE n == NumRanks * NumBanks
           k == n - 1
           w == CHOOSE w : w = [i \in 0 .. (n - 1) |-> IF i = 0 THEN from ELSE next[w[i - 1]]]
           back == {i \in 1 .. (n - 1) : w[i] = stop}
           pos == Loop(next, from, stop)
<1>1. n \in Nat /\ k \in Nat
  <2>1. \A x, y \in Nat \ {0} : x * y \in Nat \ {0}
    OBVIOUS
  <2>2. n \in Nat \ {0}
    BY <2>1, TimingAssumption
  <2> HIDE DEF n
  <2> QED
    BY <2>2
<1>2. pos = [i \in 1 .. (IF back = {} THEN n ELSE Min(back)) |-> w[i - 1]]
  BY DEF Loop
<1> HIDE DEF pos
<1>3. w = [i \in 0 .. k |-> IF i = 0 THEN from ELSE next[w[i - 1]]]
  <2> HIDE DEF k
  <2>1. \E x : Steps(x, next, from, k)
    BY <1>1, StepsExist
  <2>2. w = CHOOSE x : Steps(x, next, from, k)
    BY DEF Steps, k
  <2>3. Steps(w, next, from, k)
    <3> HIDE DEF w
    <3> QED
      BY <2>1, <2>2
  <2> HIDE DEF w
  <2> QED
    BY <2>3 DEF Steps
<1> HIDE DEF w
<1> DEFINE S == {i \in Nat : i <= k => w[i] \in Ranks \X Banks}
<1>4. 0 \in S
  BY <1>1, <1>3
<1>5. ASSUME NEW i \in Nat, i \in S PROVE i + 1 \in S
  <2> SUFFICES ASSUME i + 1 <= k PROVE w[i + 1] \in Ranks \X Banks
    OBVIOUS
  <2>1. w[i] \in Ranks \X Banks
    BY <1>1, <1>5
  <2>2. w[i + 1] = next[w[i]]
    BY <1>1, <1>3
  <2> QED
    BY <2>1, <2>2
<1>6. Nat \subseteq S
  <2> HIDE DEF S
  <2> QED
    BY <1>4, <1>5, InductionOverSet
<1>7. \A i \in 0 .. k : w[i] \in Ranks \X Banks
  BY <1>1, <1>6
<1> DEFINE last == IF back = {} THEN n ELSE Min(back)
<1>8. last \in Nat /\ last <= n
  <2>1. CASE back # {}
    <3>1. back \subseteq Nat
      BY <1>1
    <3>2. Min(back) \in back
      BY <2>1, <3>1, MinOfNats
    <3> QED
      BY <1>1, <2>1, <3>2
  <2>2. CASE back = {}
    BY <1>1, <2>2
  <2> QED
    BY <2>1, <2>2
<1>9. pos = [i \in 1 .. last |-> w[i - 1]]
  BY <1>2
<1> HIDE DEF last, back, S
<1>10. DOMAIN pos = 1 .. last
  BY <1>9
<1>11. ASSUME NEW i \in 1 .. last PROVE pos[i] \in Ranks \X Banks
  <2>1. pos[i] = w[i - 1]
    BY <1>9
  <2>2. i - 1 \in 0 .. k
    <3> HIDE DEF n
    <3> QED
      BY <1>1, <1>8
  <2> QED
    BY <1>7, <2>1, <2>2
<1> QED
  BY <1>8, <1>10, <1>11 DEF pos

(* Round robin stays among the ranks and banks. *)
LEMMA FollowingInRange ==
  ASSUME NEW s, NEW pos \in Ranks \X Banks
  PROVE  Following(s, pos) \in Ranks \X Banks /\ NextQueue(s, pos) \in Ranks \X Banks
<1>1. pos[1] \in Ranks /\ pos[2] \in Banks
  OBVIOUS
<1>2. (pos[1] + 1) % NumRanks \in Ranks
  <2>1. NumRanks \in Nat \ {0} /\ pos[1] \in 0 .. (NumRanks - 1)
    BY <1>1, TimingAssumption DEF Ranks
  <2>2. (pos[1] + 1) % NumRanks = IF pos[1] = NumRanks - 1 THEN 0 ELSE pos[1] + 1
    BY <2>1, NextInTurn
  <2> QED
    BY <2>1, <2>2 DEF Ranks
<1>3. (pos[2] + 1) % NumBanks \in Banks
  <2>1. NumBanks \in Nat \ {0} /\ pos[2] \in 0 .. (NumBanks - 1)
    BY <1>1, TimingAssumption DEF Banks
  <2>2. (pos[2] + 1) % NumBanks = IF pos[2] = NumBanks - 1 THEN 0 ELSE pos[2] + 1
    BY <2>1, NextInTurn
  <2> QED
    BY <2>1, <2>2 DEF Banks
<1>4. Following(s, pos) \in Ranks \X Banks
  BY <1>1, <1>2, <1>3 DEF Following
<1> QED
  BY <1>1, <1>2, <1>4 DEF NextQueue

(* An open row is accessed, by a column access alone or with its activate, *)
(* or a row is opened.                                                     *)
LEMMA TakeChosen ==
  ASSUME NEW s, Inv(s), NEW r \in Ranks, NEW b \in Banks, NEW at \in Ranks \X Banks,
         NEW q, q = QueueOf(s, r, b), NEW i \in DOMAIN q, Choosable(s, q, i),
         NEW a, a = [s EXCEPT !.at = at]
  PROVE  Search(s, Take(a, r, b, i).m) /\ Chosen(s, Take(a, r, b, i).m, Take(a, r, b, i).packet)
<1> DEFINE p == q[i]
           y == QueueBank(s, b)
           paired == s.config.page = "Open" /\ i > 1 /\ q[i - 1].type = "ACTIVATE"
           z == IF paired THEN RemoveAt(RemoveAt(q, i), i - 1) ELSE RemoveAt(q, i)
           d == Take(a, r, b, i).m
<1>1. Shape(s) /\ s.config \in Configs /\ s.config.page \in {"Open", "Close"}
      /\ s.config.structure \in {"PerRank", "PerRankPerBank"}
  BY ControllerAssumption DEF Inv, Shape
<1>2. /\ DOMAIN a = Fields /\ \A f \in Fields \ {"at"} : a[f] = s[f]
      /\ a.at = at
  BY <1>1 DEF Shape, Fields
<1>3. /\ a.config = s.config /\ a.queue = s.queue /\ a.rowAccess = s.rowAccess
      /\ a.pre = s.pre /\ a.refresh = s.refresh
  BY <1>2 DEF Fields
<1>4. y \in Banks /\ q = s.queue[r][y] /\ QueueBank(a, b) = y /\ QueueOf(a, r, b) = q
  BY <1>3, QueueBankIs DEF QueueOf, QueueBank
<1>5. /\ p \in Commands /\ p.rank = r /\ QueueBank(s, p.bank) = y
      /\ p.bank \in Banks /\ Line(s, p) = q /\ Waits(s, p, i)
      /\ q \in Seq(Commands) /\ QueueOK(s, r, y) /\ Pairs(q)
  BY <1>4, EntryWaits
<1>6. /\ DOMAIN d = Fields /\ \A f \in Fields \ {"queue", "rowAccess"} : d[f] = a[f]
      /\ d.queue = [s.queue EXCEPT ![r][y] = z]
      /\ d.rowAccess = [s.rowAccess EXCEPT ![r][p.bank] = IF paired THEN @ + 1 ELSE @]
      /\ Take(a, r, b, i).packet = p
  BY <1>2, <1>3, <1>4 DEF Take, Result, Fields
<1> HIDE DEF d, y
<1>7. d.queue = Lines(s, p, z)
  BY <1>5, <1>6 DEF Lines
<1>8. /\ d.at = at /\ d.pre = s.pre /\ d.refresh = s.refresh
      /\ Frame(s, d, {"queue", "rowAccess", "at", "pre", "refresh"})
  BY <1>2, <1>3, <1>6 DEF Fields, Frame
<1>9. ASSUME d.queue \in [Ranks -> [Banks -> Seq(Commands)]],
             d.rowAccess \in [Ranks -> [Banks -> 0 .. TotalRowAccesses]]
      PROVE  Search(s, d)
  BY <1>1, <1>8, <1>9 DEF Search, Shape, QueueShape, RankShape
<1>10. IsIssuable(s, p) /\ DOMAIN q = 1 .. Len(q) /\ Len(q) \in Nat
  BY <1>5 DEF Choosable
<1>11. Foremost(s, q, i)
  BY <1>1 DEF Choosable, Foremost, IsActivate
<1>12. CASE ~paired
  <2>1. z = RemoveAt(q, i)
    BY <1>12
  <2>2. d.rowAccess = s.rowAccess
    <3> DEFINE g == s.rowAccess
               f == d.rowAccess
               c == p.bank
               u == [g[r] EXCEPT ![c] = g[r][c]]
    <3>1. f = [g EXCEPT ![r] = u]
      BY <1>6, <1>12
    <3>2. c \in Banks /\ g \in [Ranks -> [Banks -> 0 .. TotalRowAccesses]]
      BY <1>5, ShapeOfQueues
    <3> HIDE DEF c, g, f
    <3>3. u = g[r]
      <4>1. \A x \in Banks : u[x] = g[r][x]
        BY <3>2
      <4> QED
        BY <3>2, <4>1
    <3> HIDE DEF u
    <3>4. f = g
      BY <3>1, <3>2, <3>3
    <3> QED
      BY <3>4 DEF f, g
  <2>3. z \in Seq(Commands)
    BY <1>5, <2>1, RemovedAt
  <2>4. Search(s, d)
    <3>1. d.queue \in [Ranks -> [Banks -> Seq(Commands)]]
      <4> HIDE DEF z, p
      <4> QED
        BY <1>5, <1>7, <2>3, LinesShape
    <3>2. d.rowAccess \in [Ranks -> [Banks -> 0 .. TotalRowAccesses]]
      BY <2>2, ShapeOfQueues
    <3> QED
      BY <1>9, <3>1, <3>2
  <2> HIDE DEF z, p
  <2>5. CASE IsActivate(p)
    <3>1. /\ s.bank[p.rank][p.bank].state \in {"Idle", "Refreshing"} /\ Len(s.faw[p.rank]) < 4
          /\ s.bank[p.rank][p.bank].nextActivate = 0
      BY <1>10, <2>5 DEF IsIssuable, IsActivate, IsRead, IsWrite
    <3>2. ActivateGoes(s, d, p, i)
      BY <1>5, <1>7, <1>11, <2>1, <2>2, <2>5, <3>1 DEF ActivateGoes
    <3>3. Chosen(s, d, p)
      BY <3>2 DEF Chosen
    <3> QED
      BY <1>6, <2>4, <3>3 DEF d
  <2>6. CASE ~IsActivate(p)
    <3>1. Orphan(q, i)
      <4>1. ASSUME Paired(q, i) PROVE FALSE
        <5>1. i > 1 /\ q[i - 1].type = "ACTIVATE" /\ q[i - 1].addr = q[i].addr
          BY <4>1 DEF Paired, IsActivate
        <5>2. CASE s.config.page = "Open"
          BY <1>12, <5>1, <5>2
        <5>3. CASE s.config.page = "Close"
          <6>1. i = 1 \/ ~(i > 1 /\ q[i - 1].type = "ACTIVATE" /\ q[i - 1].addr = q[i].addr)
            BY <1>1, <5>3 DEF Choosable
          <6> QED
            BY <5>1, <6>1
        <5> QED
          BY <1>1, <5>2, <5>3
      <4> QED
        BY <2>6, <4>1 DEF Orphan, p
    <3>2. OrphanGoes(s, d, p, i)
      BY <1>5, <1>7, <1>10, <2>1, <2>2, <3>1 DEF OrphanGoes
    <3>3. Chosen(s, d, p)
      BY <3>2 DEF Chosen
    <3> QED
      BY <1>6, <2>4, <3>3 DEF d
  <2> QED
    BY <2>5, <2>6
<1>13. CASE paired
  <2>1. z = RemoveAt(RemoveAt(q, i), i - 1)
    BY <1>13
  <2>2. IsActivate(q[i - 1]) /\ i > 1 /\ s.config.page = "Open"
    BY <1>13 DEF IsActivate
  <2>3. ~IsActivate(p)
    BY <1>5, <2>2, BehindNoActivate
  <2>4. d.rowAccess = [s.rowAccess EXCEPT ![r][p.bank] = @ + 1]
    BY <1>6, <1>13
  <2>5. z \in Seq(Commands)
    <3>1. RemoveAt(q, i) \in Seq(Commands) /\ DOMAIN RemoveAt(q, i) = 1 .. (Len(q) - 1)
      BY <1>5, RemovedAt
    <3>2. i - 1 \in DOMAIN RemoveAt(q, i)
      BY <1>10, <2>2, <3>1
    <3> QED
      BY <2>1, <3>1, <3>2, RemovedAt
  <2> HIDE DEF z, p
  <2>6. p.type \in {"READ", "READ_P", "WRITE", "WRITE_P"}
    <3>1. p.type \in {"ACTIVATE", "READ", "READ_P", "WRITE", "WRITE_P"}
      BY <1>5 DEF Commands, To, Packet
    <3> QED
      BY <2>3, <3>1 DEF IsActivate
  <2>7. /\ s.bank[p.rank][p.bank].state = "RowActive" /\ s.bank[p.rank][p.bank].row = p.row
        /\ s.rowAccess[p.rank][p.bank] < TotalRowAccesses
    BY <1>10, <2>6 DEF IsIssuable, IsRead, IsWrite
  <2>8. d.rowAccess \in [Ranks -> [Banks -> 0 .. TotalRowAccesses]]
    <3>1. s.rowAccess[r][p.bank] \in 0 .. TotalRowAccesses
      BY <1>5, ShapeOfQueues
    <3>2. s.rowAccess[r][p.bank] + 1 \in 0 .. TotalRowAccesses
      <4>1. s.rowAccess[r][p.bank] < TotalRowAccesses
        BY <1>5, <2>7
      <4>2. TotalRowAccesses \in Nat
        BY ControllerAssumption
      <4> QED
        BY ONLY <3>1, <4>1, <4>2
    <3> QED
      <4> DEFINE c == p.bank
                 v == s.rowAccess[r][c] + 1
      <4>1. Put(d.rowAccess, s.rowAccess, r, c, v)
        BY <2>4 DEF Put
      <4>2. c \in Banks /\ s.rowAccess \in [Ranks -> [Banks -> 0 .. TotalRowAccesses]]
        BY <1>5, ShapeOfQueues
      <4>3. v \in 0 .. TotalRowAccesses
        BY <3>2
      <4> HIDE DEF c, v
      <4> QED
        BY ONLY r \in Ranks, <4>1, <4>2, <4>3, OneAssigned
  <2>9. Search(s, d)
    <3>1. d.queue \in [Ranks -> [Banks -> Seq(Commands)]]
      BY <1>5, <1>7, <2>5, LinesShape
    <3> QED
      BY <1>9, <2>8, <3>1
  <2>10. PairGoes(s, d, p, i)
    BY <1>5, <1>7, <1>10, <1>11, <2>1, <2>2, <2>3, <2>4, <2>7 DEF PairGoes
  <2>11. Chosen(s, d, p)
    BY <2>10 DEF Chosen
  <2> QED
    BY <1>6, <2>9, <2>11 DEF d
<1> QED
  BY <1>12, <1>13

(* The search of the queues. *)
LEMMA CommandPopped ==
  ASSUME NEW s, Inv(s)
  PROVE  /\ Search(s, PopCommand(s).m)
         /\ Chosen(s, PopCommand(s).m, PopCommand(s).packet)
<1> DEFINE next == [p \in Ranks \X Banks |-> NextQueue(s, p)]
           pos == Loop(next, s.at, s.at)
           hits(p) == {i \in DOMAIN QueueOf(s, p[1], p[2]) : Choosable(s, QueueOf(s, p[1], p[2]), i)}
           found == {i \in DOMAIN pos : pos[i][1] # s.refresh /\ First(hits(pos[i])) # 0}
           k == First(found)
           r == pos[k][1]
           b == pos[k][2]
           i == First(hits(pos[k]))
           a == [s EXCEPT !.at = pos[k]]
           res == PopCommand(s)
<1>1. res = IF k = 0 THEN Result(s, NoPacket) ELSE Take(a, r, b, i)
  BY DEF PopCommand
<1> SUFFICES Search(s, res.m) /\ Chosen(s, res.m, res.packet)
  OBVIOUS
<1>2. /\ DOMAIN pos \subseteq Nat \ {0}
      /\ \A x \in DOMAIN pos : pos[x] \in Ranks \X Banks
  <2>1. s.at \in Ranks \X Banks
    BY DEF Inv, Shape, QueueShape
  <2>2. next \in [Ranks \X Banks -> Ranks \X Banks]
    BY FollowingInRange
  <2> HIDE DEF next
  <2> QED
    BY <2>1, <2>2, LoopInRange
<1> HIDE DEF res, pos, hits
<1>3. k # 0 => k \in found
  <2>1. found \subseteq Nat \ {0}
    BY <1>2
  <2> HIDE DEF found
  <2> QED
    BY <2>1, FirstIsFound
<1>4. CASE k = 0
  <2>1. res = Result(s, NoPacket)
    BY <1>1, <1>4
  <2> QED
    BY <2>1, NothingFound DEF Result
<1>5. CASE k # 0
  <2>1. pos[k] \in Ranks \X Banks /\ i # 0
    BY <1>2, <1>3, <1>5
  <2>2. r \in Ranks /\ b \in Banks
    BY <2>1
  <2> HIDE DEF k
  <2> DEFINE q == QueueOf(s, r, b)
  <2>3. q \in Seq(Commands)
    <3>1. s.queue \in [Ranks -> [Banks -> Seq(Commands)]] /\ QueueBank(s, b) \in Banks
      BY <2>2, ShapeOfQueues, QueueBankIs
    <3> QED
      BY <2>2, <3>1 DEF QueueOf
  <2>4. hits(pos[k]) = {x \in DOMAIN q : Choosable(s, q, x)}
    BY DEF hits
  <2>5. i \in hits(pos[k])
    <3>1. hits(pos[k]) \subseteq Nat \ {0}
      BY <2>3, <2>4
    <3> QED
      BY <2>1, <3>1, FirstIsFound
  <2>6. i \in DOMAIN q /\ Choosable(s, q, i)
    BY <2>4, <2>5
  <2> DEFINE at == pos[k]
             y == First(hits(at))
  <2>7. res = Take([s EXCEPT !.at = at], r, b, i)
    BY <1>1, <1>5 DEF k
  <2>8. at \in Ranks \X Banks
    BY <2>1
  <2> HIDE DEF q, at, y, a, i, r, b
  <2>9. q = QueueOf(s, r, b)
    BY DEF q
  <2> DEFINE c == [s EXCEPT !.at = at]
  <2>10. c = [s EXCEPT !.at = at]
    OBVIOUS
  <2>11. res = Take(c, r, b, i)
    BY <2>7
  <2> HIDE DEF c
  <2>12. Search(s, Take(c, r, b, i).m) /\ Chosen(s, Take(c, r, b, i).m, Take(c, r, b, i).packet)
    BY <2>2, <2>6, <2>8, <2>9, <2>10, TakeChosen
  <2> QED
    BY <2>11, <2>12
<1> QED
  BY <1>4, <1>5

(* The search for a row to close. *)
LEMMA PrechargePopped ==
  ASSUME NEW s, Inv(s)
  PROVE  /\ Search(s, PopPrecharge(s).m)
         /\ Chosen(s, PopPrecharge(s).m, PopPrecharge(s).packet)
<1> DEFINE bool(x) == IF x = 0 THEN 0 ELSE 1
           stop == IF s.config.structure = "PerRank" THEN s.pre
                   ELSE <<bool(s.pre[1]), bool(s.pre[2])>>
           next == [p \in Ranks \X Banks |-> Following(s, p)]
           pos == Loop(next, s.pre, stop)
           closable(u, v) ==
             /\ s.bank[u][v].state = "RowActive"
             /\ \/ s.rowAccess[u][v] = TotalRowAccesses
                \/ \A i \in DOMAIN QueueOf(s, u, v) :
                     QueueOf(s, u, v)[i].bank # v \/ QueueOf(s, u, v)[i].row # s.bank[u][v].row
             /\ s.bank[u][v].nextPrecharge = 0
           found == {i \in DOMAIN pos : closable(pos[i][1], pos[i][2])}
           k == First(found)
           r == pos[k][1]
           b == pos[k][2]
           res == PopPrecharge(s)
<1>0. Shape(s) /\ s.pre \in Ranks \X Banks
  BY DEF Inv, Shape, QueueShape
<1>1. res = IF s.config.page = "Close" THEN Result(s, NoPacket)
            ELSE IF k = 0 THEN Result([s EXCEPT !.pre = stop], NoPacket)
                 ELSE Close([s EXCEPT !.pre = pos[k]], r, b)
  BY DEF PopPrecharge
<1> SUFFICES Search(s, res.m) /\ Chosen(s, res.m, res.packet)
  OBVIOUS
<1>2. /\ DOMAIN pos \subseteq Nat \ {0}
      /\ \A x \in DOMAIN pos : pos[x] \in Ranks \X Banks
  <2>1. next \in [Ranks \X Banks -> Ranks \X Banks]
    BY FollowingInRange
  <2> HIDE DEF next, stop
  <2> QED
    BY <1>0, <2>1, LoopInRange
<1>3. stop \in Ranks \X Banks
  <2>1. s.pre[1] \in 0 .. (NumRanks - 1) /\ s.pre[2] \in 0 .. (NumBanks - 1)
        /\ NumRanks \in Nat \ {0} /\ NumBanks \in Nat \ {0}
    BY <1>0, TimingAssumption DEF Ranks, Banks
  <2>2. bool(s.pre[1]) \in Ranks /\ bool(s.pre[2]) \in Banks
    BY <2>1 DEF Ranks, Banks
  <2> QED
    BY <1>0, <2>2
<1> HIDE DEF res, pos, stop
<1>4. k # 0 => k \in found
  <2>1. found \subseteq Nat \ {0}
    BY <1>2
  <2> HIDE DEF found
  <2> QED
    BY <2>1, FirstIsFound
<1>5. ASSUME NEW x \in Ranks \X Banks
      PROVE  Search(s, [s EXCEPT !.pre = x]) /\ Frame(s, [s EXCEPT !.pre = x], {"pre"})
             /\ [s EXCEPT !.pre = x].pre = x
             /\ Chosen(s, [s EXCEPT !.pre = x], NoPacket)
  <2> DEFINE d == [s EXCEPT !.pre = x]
  <2>1. DOMAIN d = Fields /\ (\A f \in Fields \ {"pre"} : d[f] = s[f]) /\ d.pre = x
    BY <1>0 DEF Shape, Fields
  <2> HIDE DEF d
  <2>2. /\ d.queue = s.queue /\ d.rowAccess = s.rowAccess /\ d.at = s.at
        /\ d.refresh = s.refresh
    BY <2>1 DEF Fields
  <2>3. Search(s, d)
    BY <1>0, <1>5, <2>1, <2>2 DEF Search, Frame, Shape, QueueShape, RankShape
  <2>4. Frame(s, d, {"pre"})
    BY <2>1 DEF Frame
  <2>5. Chosen(s, d, NoPacket)
    BY <2>2 DEF Chosen
  <2> QED
    BY <2>1, <2>3, <2>4, <2>5 DEF d
<1>6. CASE s.config.page = "Close"
  BY <1>1, <1>6, NothingFound DEF Result
<1>7. CASE s.config.page # "Close" /\ k = 0
  <2>1. res.m = [s EXCEPT !.pre = stop] /\ res.packet = NoPacket
    BY <1>1, <1>7 DEF Result
  <2> QED
    BY <1>3, <1>5, <2>1
<1>8. CASE s.config.page # "Close" /\ k # 0
  <2>1. pos[k] \in Ranks \X Banks /\ closable(r, b)
    BY <1>2, <1>4, <1>8
  <2>2. r \in Ranks /\ b \in Banks
    BY <2>1
  <2> DEFINE x == pos[k]
             a == [s EXCEPT !.pre = x]
             q == QueueOf(s, r, b)
  <2>3. res = Close(a, r, b)
    BY <1>1, <1>8
  <2>4. Frame(s, a, {"pre"}) /\ a.pre \in Ranks \X Banks
    <3> HIDE DEF x
    <3>1. x \in Ranks \X Banks
      BY <2>1 DEF x
    <3> QED
      BY <1>5, <3>1
  <2>5. QueueOK(s, r, QueueBank(s, b)) /\ q = s.queue[r][QueueBank(s, b)]
    <3>1. QueueBank(s, b) \in Banks
      BY <2>2, QueueBankIs
    <3> QED
      BY <2>2, <3>1 DEF Inv, QueueOf
  <2>6. /\ s.bank[r][b].state = "RowActive" /\ s.bank[r][b].nextPrecharge = 0
        /\ \/ s.rowAccess[r][b] = TotalRowAccesses
           \/ \A i \in DOMAIN q : q[i].bank # b \/ q[i].row # s.bank[r][b].row
    BY <2>1
  <2> HIDE DEF a, x, q, k, r, b
  <2>7. ASSUME NEW i \in DOMAIN q, Orphan(q, i), q[i].bank = b PROVE FALSE
    <3>1. Opened(s, q[i]) /\ q[i].rank = r
      BY <2>5, <2>7 DEF QueueOK
    <3>2. s.rowAccess[r][b] = 0 /\ q[i].row = s.bank[r][b].row
      BY <2>7, <3>1 DEF Opened
    <3> QED
      BY <2>6, <2>7, <3>2, ControllerAssumption
  <2>8. q = QueueOf(s, r, b)
    BY DEF q
  <2>9. Search(s, Close(a, r, b).m) /\ Chosen(s, Close(a, r, b).m, Close(a, r, b).packet)
    BY <2>2, <2>4, <2>6, <2>7, <2>8, CloseChosen
  <2> QED
    BY <2>3, <2>9
<1> QED
  BY <1>6, <1>7, <1>8

(* What follows a search: the next queue's turn, and the window of an       *)
(* activate, which had room for it.                                        *)
LEMMA PopFinished ==
  ASSUME NEW s, Inv(s), NEW res, Search(s, res.m), Chosen(s, res.m, res.packet),
         res.packet # NoPacket
  PROVE  PopStep(s, Popped(res).m) /\ Chosen(s, Popped(res).m, Popped(res).packet)
<1> DEFINE c == res.m
           p == res.packet
           hold == T.AL > 0 /\ c.sendAct
           turned == [c EXCEPT !.sendAct = ~hold, !.at = IF hold THEN @ ELSE Following(c, @)]
           d == Popped(res).m
<1>0. Shape(s)
  BY DEF Inv
<1>1. /\ Popped(res).packet = p
      /\ d = IF p.type = "ACTIVATE" THEN [turned EXCEPT !.faw[p.rank] = Append(@, T.tFAW)]
             ELSE turned
  BY DEF Popped, Result
<1> HIDE DEF d, p, c
<1>2. Search(s, c) /\ Chosen(s, c, p) /\ p # NoPacket
  BY DEF c, p
<1>3. /\ DOMAIN c = Fields /\ c.faw = s.faw
      /\ \A f \in Fields \ {"queue", "rowAccess", "at", "pre", "refresh"} : c[f] = s[f]
  BY <1>2 DEF Search, Frame, Fields
<1>4. /\ DOMAIN turned = Fields /\ \A f \in Fields \ {"sendAct", "at"} : turned[f] = c[f]
      /\ turned.at = IF hold THEN c.at ELSE Following(c, c.at)
  BY <1>3 DEF Fields
<1>5. turned.at \in Ranks \X Banks
  <2>1. c.at \in Ranks \X Banks
    BY <1>2 DEF Search
  <2> QED
    BY <1>4, <2>1, FollowingInRange
<1> HIDE DEF turned
<1>6. turned.faw = s.faw
  BY <1>3, <1>4 DEF Fields
<1>7. /\ DOMAIN d = Fields /\ \A f \in Fields \ {"faw"} : d[f] = turned[f]
      /\ d.faw = IF p.type = "ACTIVATE" THEN [s.faw EXCEPT ![p.rank] = Append(@, T.tFAW)]
                 ELSE s.faw
  BY <1>1, <1>4, <1>6 DEF Fields
<1> HIDE DEF hold
<1>8. /\ d.queue = c.queue /\ d.rowAccess = c.rowAccess /\ d.at = turned.at
      /\ d.pre = c.pre /\ d.refresh = c.refresh
  BY <1>4, <1>7 DEF Fields
<1>9. Chosen(s, d, p)
  BY <1>2, <1>8, ChosenOfSame
<1>10. /\ s.faw \in [Ranks -> Seq(Int)]
       /\ \A r \in Ranks : Len(s.faw[r]) <= 4
  BY <1>0 DEF Shape, QueueShape
<1>11. d.faw \in [Ranks -> Seq(Int)] /\ \A r \in Ranks : Len(d.faw[r]) <= 4
  <2>1. CASE p.type # "ACTIVATE"
    BY <1>7, <1>10, <2>1
  <2>2. CASE p.type = "ACTIVATE"
    <3>1. p.rank \in Ranks
      BY <1>2, PacketNamesBank
    <3>2. Len(s.faw[p.rank]) < 4
      <4>1. PICK i : ActivateGoes(s, c, p, i) \/ OrphanGoes(s, c, p, i) \/ PairGoes(s, c, p, i)
        <5>1. ~RefreshGoes(s, c, p) /\ ~PrechargeGoes(s, c, p)
          BY <2>2 DEF RefreshGoes, PrechargeGoes, Packet
        <5> QED
          BY <1>2, <5>1 DEF Chosen
      <4>2. ~OrphanGoes(s, c, p, i)
        BY <2>2 DEF OrphanGoes, Waits, Orphan, IsActivate
      <4>3. ~PairGoes(s, c, p, i)
        BY <2>2 DEF PairGoes, IsActivate
      <4> QED
        BY <4>1, <4>2, <4>3 DEF ActivateGoes
    <3>3. d.faw = [s.faw EXCEPT ![p.rank] = Append(s.faw[p.rank], T.tFAW)]
      BY <1>7, <2>2
    <3>4. T.tFAW \in Int
      BY TimingAssumption
    <3>5. /\ Append(s.faw[p.rank], T.tFAW) \in Seq(Int)
          /\ Len(Append(s.faw[p.rank], T.tFAW)) <= 4
      <4>1. s.faw[p.rank] \in Seq(Int)
        BY <1>10, <3>1
      <4>2. Len(Append(s.faw[p.rank], T.tFAW)) = Len(s.faw[p.rank]) + 1
        BY <4>1
      <4>3. Len(s.faw[p.rank]) \in Nat
        BY <4>1
      <4> QED
        BY <3>2, <3>4, <4>1, <4>2, <4>3
    <3> QED
      BY <1>10, <3>1, <3>3, <3>5
  <2> QED
    BY <2>1, <2>2
<1>12. PopStep(s, d)
  <2>1. QueueShape(d)
    BY <1>2, <1>5, <1>8, <1>11 DEF Search, QueueShape
  <2>2. Frame(s, d, {"queue", "rowAccess", "faw", "at", "pre", "sendAct", "refresh"})
    BY <1>3, <1>4, <1>7 DEF Frame
  <2> QED
    BY <1>2, <1>8, <2>1, <2>2 DEF PopStep, Search
<1> QED
  BY <1>1, <1>9, <1>12 DEF d

(* A search that finds nothing is a pop that returns nothing. *)
LEMMA PopFailed ==
  ASSUME NEW s, Inv(s), NEW d, Search(s, d)
  PROVE  PopStep(s, d)
<1>1. Shape(s)
  BY DEF Inv
<1>2. Frame(s, d, {"queue", "rowAccess", "faw", "at", "pre", "sendAct", "refresh"})
  BY DEF Search, Frame
<1>3. d.faw = s.faw
  BY DEF Search, Frame, Fields
<1>4. QueueShape(d)
  BY <1>1, <1>3 DEF Search, QueueShape, Shape
<1> QED
  BY <1>2, <1>4 DEF PopStep, Search

(* CommandQueue::pop *)
LEMMA PopChosen ==
  ASSUME NEW s, Inv(s)
  PROVE  /\ Inv(FawTick(s)) /\ FawTick(s).countdown = s.countdown
         /\ PopStep(FawTick(s), Pop(s).m) /\ Chosen(FawTick(s), Pop(s).m, Pop(s).packet)
<1> DEFINE t == FawTick(s)
           ref == PopRefresh(t)
           cmd == PopCommand(t)
           pre == PopPrecharge(t)
           res == Pop(s)
<1>1. res = CASE ref.packet # NoPacket -> Popped(ref)
        [] ref.packet = NoPacket /\ cmd.packet # NoPacket -> Popped(cmd)
        [] ref.packet = NoPacket /\ cmd.packet = NoPacket ->
             IF pre.packet # NoPacket THEN Popped(pre) ELSE pre
  BY DEF Pop
<1>2. Inv(t) /\ t.countdown = s.countdown
  BY WindowsTicked
<1> HIDE DEF t
<1>3. /\ Search(t, ref.m) /\ Chosen(t, ref.m, ref.packet)
      /\ Search(t, cmd.m) /\ Chosen(t, cmd.m, cmd.packet)
      /\ Search(t, pre.m) /\ Chosen(t, pre.m, pre.packet)
  BY <1>2, RefreshPopped, CommandPopped, PrechargePopped
<1> HIDE DEF ref, cmd, pre, res
<1>4. PopStep(t, res.m) /\ Chosen(t, res.m, res.packet)
  <2>1. CASE ref.packet # NoPacket
    BY <1>1, <1>2, <1>3, <2>1, PopFinished
  <2>2. CASE ref.packet = NoPacket /\ cmd.packet # NoPacket
    BY <1>1, <1>2, <1>3, <2>2, PopFinished
  <2>3. CASE ref.packet = NoPacket /\ cmd.packet = NoPacket /\ pre.packet # NoPacket
    BY <1>1, <1>2, <1>3, <2>3, PopFinished
  <2>4. CASE ref.packet = NoPacket /\ cmd.packet = NoPacket /\ pre.packet = NoPacket
    BY <1>1, <1>2, <1>3, <2>4, PopFailed
  <2> QED
    BY <2>1, <2>2, <2>3, <2>4
<1> QED
  BY <1>2, <1>4 DEF t, res

(* MemoryController::update pops a command and issues it. *)
LEMMA CommandsIssued ==
  ASSUME NEW s, Inv(s)
  PROVE  Inv(IssueCommand(s)) /\ IssueCommand(s).countdown = s.countdown
<1>1. /\ Inv(FawTick(s)) /\ FawTick(s).countdown = s.countdown
      /\ PopStep(FawTick(s), Pop(s).m) /\ Chosen(FawTick(s), Pop(s).m, Pop(s).packet)
  BY PopChosen
<1> QED
  BY <1>1, CommandIssued
-----------------------------------------------------------------------------
(* Transactions become commands.                                           *)

(* The commands of a transaction. *)
LEMMA CommandOf ==
  ASSUME NEW t \in Transactions, NEW k \in {"ACTIVATE", "READ", "READ_P", "WRITE", "WRITE_P"}
  PROVE  /\ To(k, t.addr) \in Commands
         /\ To(k, t.addr).type = k /\ To(k, t.addr).addr = t.addr
         /\ To(k, t.addr).rank = Field(t.addr, "rank") /\ To(k, t.addr).rank \in Ranks
         /\ To(k, t.addr).bank = Field(t.addr, "bank") /\ To(k, t.addr).bank \in Banks
<1>1. /\ To(k, t.addr).type = k /\ To(k, t.addr).addr = t.addr
      /\ To(k, t.addr).rank = Field(t.addr, "rank") /\ To(k, t.addr).bank = Field(t.addr, "bank")
  BY DEF To, Packet
<1>2. To(k, t.addr) \in Commands
  BY DEF Commands
<1> QED
  BY <1>1, <1>2, AddressAssumption

Added(s, d, r, b, p) ==
  /\ DOMAIN d = Fields /\ \A f \in Fields \ {"queue"} : d[f] = s[f]
  /\ d.queue \in [Ranks -> [Banks -> Seq(Commands)]]
  /\ Changed(d.queue, s.queue, r, b, Append(s.queue[r][b], p))

(* CommandQueue::enqueue *)
LEMMA Enqueued ==
  ASSUME NEW s, DOMAIN s = Fields, s.queue \in [Ranks -> [Banks -> Seq(Commands)]],
         NEW p \in Commands, p.rank \in Ranks, NEW b \in Banks, b = QueueBank(s, p.bank),
         NEW d, d = Enqueue(s, p)
  PROVE  Added(s, d, p.rank, b, p)
<1> DEFINE z == Append(s.queue[p.rank][b], p)
<1>1. /\ DOMAIN d = Fields /\ \A f \in Fields \ {"queue"} : d[f] = s[f]
      /\ d.queue = [s.queue EXCEPT ![p.rank][b] = z]
  BY DEF Enqueue, Fields
<1>2. z \in Seq(Commands)
  OBVIOUS
<1> HIDE DEF z
<1>3. Put(d.queue, s.queue, p.rank, b, z)
  BY <1>1 DEF Put
<1>4. d.queue \in [Ranks -> [Banks -> Seq(Commands)]]
  BY <1>2, <1>3, OneAssigned
<1>5. Changed(d.queue, s.queue, p.rank, b, z)
  BY <1>1, OneChanged
<1> QED
  BY <1>1, <1>4, <1>5 DEF z, Added

Joined(z, q, a, c) == z = Append(Append(q, a), c)

(* An activate and its column access join the end of a queue. *)
LEMMA PairJoins ==
  ASSUME NEW q \in Seq(Commands), Pairs(q), NEW a \in Commands, NEW c \in Commands,
         IsActivate(a), ~IsActivate(c), a.addr = c.addr,
         NEW z, Joined(z, q, a, c)
  PROVE  /\ z \in Seq(Commands) /\ Len(z) = Len(q) + 2
         /\ Pairs(z) /\ z[Len(q) + 1] = a /\ z[Len(q) + 2] = c
         /\ \A i \in DOMAIN q : z[i] = q[i]
         /\ \A i \in DOMAIN z : /\ i \in DOMAIN q \/ i = Len(q) + 1 \/ i = Len(q) + 2
                                /\ Orphan(z, i) => i \in DOMAIN q /\ Orphan(q, i)
<1> DEFINE n == Len(q)
<1>1. n \in Nat /\ DOMAIN q = 1 .. n
  OBVIOUS
<1>2. /\ z \in Seq(Commands) /\ Len(z) = n + 2 /\ DOMAIN z = 1 .. n + 2
      /\ z[n + 1] = a /\ z[n + 2] = c /\ \A i \in 1 .. n : z[i] = q[i]
  BY DEF Joined
<1> HIDE DEF n
<1>3. ASSUME NEW i \in DOMAIN z, IsActivate(z[i])
      PROVE  i + 1 \in DOMAIN z /\ ~IsActivate(z[i + 1]) /\ z[i + 1].addr = z[i].addr
  <2>1. CASE i \in 1 .. n
    <3>1. IsActivate(q[i])
      BY <1>2, <1>3, <2>1
    <3>2. i + 1 \in 1 .. n /\ ~IsActivate(q[i + 1]) /\ q[i + 1].addr = q[i].addr
      BY <1>1, <2>1, <3>1 DEF Pairs
    <3> QED
      BY <1>1, <1>2, <2>1, <3>2
  <2>2. CASE i = n + 1
    <3>1. i + 1 = n + 2 /\ i + 1 \in DOMAIN z
      BY <1>1, <1>2, <2>2
    <3> QED
      BY <1>2, <2>2, <3>1
  <2>3. i # n + 2
    BY <1>2, <1>3
  <2> QED
    BY <1>1, <1>2, <2>1, <2>2, <2>3
<1>4. ASSUME NEW i \in DOMAIN z, Orphan(z, i) PROVE i \in DOMAIN q /\ Orphan(q, i)
  <2>1. ~IsActivate(z[i]) /\ ~Paired(z, i)
    BY <1>4 DEF Orphan
  <2>2. i # n + 1
    BY <1>2, <2>1
  <2>3. i # n + 2
    <3>1. SUFFICES ASSUME i = n + 2 PROVE FALSE
      OBVIOUS
    <3>2. i > 1 /\ i - 1 = n + 1
      BY <1>1, <3>1
    <3> QED
      BY <1>2, <2>1, <3>1, <3>2 DEF Paired
  <2>4. i \in 1 .. n
    BY <1>1, <1>2, <2>2, <2>3
  <2>5. ~IsActivate(q[i])
    BY <1>2, <2>1, <2>4
  <2>6. ~Paired(q, i)
    <3>1. SUFFICES ASSUME Paired(q, i) PROVE FALSE
      OBVIOUS
    <3>2. i > 1 /\ IsActivate(q[i - 1]) /\ q[i - 1].addr = q[i].addr
      BY <3>1 DEF Paired
    <3>3. i - 1 \in 1 .. n
      BY <1>1, <2>4, <3>2
    <3>4. z[i - 1] = q[i - 1] /\ z[i] = q[i]
      BY <1>2, <2>4, <3>3
    <3> QED
      BY <2>1, <3>2, <3>4 DEF Paired
  <2> QED
    BY <1>1, <2>4, <2>5, <2>6 DEF Orphan
<1>5. \A i \in DOMAIN z : i \in DOMAIN q \/ i = n + 1 \/ i = n + 2
  BY <1>1, <1>2
<1>6. Pairs(z)
  BY <1>3 DEF Pairs
<1> QED
  BY <1>1, <1>2, <1>4, <1>5, <1>6 DEF n

(* ... which keeps the queue's part of the invariant. *)
LEMMA QueueOfPair ==
  ASSUME NEW s, NEW d, NEW r \in Ranks, NEW b \in Banks, QueueOK(s, r, b),
         NEW q \in Seq(Commands), q = s.queue[r][b], Len(q) + 2 <= CmdQueueDepth,
         NEW a \in Commands, NEW c \in Commands,
         IsActivate(a), ~IsActivate(c), a.addr = c.addr,
         a.rank = r, c.rank = r, QueueBank(s, a.bank) = b, QueueBank(s, c.bank) = b,
         c.type \in ColumnTypes(s),
         d.config = s.config, d.bank = s.bank, d.rowAccess = s.rowAccess,
         Joined(d.queue[r][b], q, a, c)
  PROVE  QueueOK(d, r, b)
<1> DEFINE z == d.queue[r][b]
<1>1. /\ Pairs(q)
      /\ \A i \in DOMAIN q : /\ q[i].rank = r /\ QueueBank(s, q[i].bank) = b
                             /\ IsActivate(q[i]) \/ q[i].type \in ColumnTypes(s)
      /\ \A i \in DOMAIN q : Orphan(q, i) => Opened(s, q[i]) /\ Alone(s, q, i)
  BY DEF QueueOK
<1>2. Joined(z, q, a, c)
  OBVIOUS
<1> HIDE DEF z
<1>3. /\ z \in Seq(Commands) /\ Len(z) = Len(q) + 2
      /\ Pairs(z) /\ z[Len(q) + 1] = a /\ z[Len(q) + 2] = c
      /\ \A i \in DOMAIN q : z[i] = q[i]
      /\ \A i \in DOMAIN z : /\ i \in DOMAIN q \/ i = Len(q) + 1 \/ i = Len(q) + 2
                             /\ Orphan(z, i) => i \in DOMAIN q /\ Orphan(q, i)
  BY <1>1, <1>2, PairJoins
<1>4. ColumnTypes(d) = ColumnTypes(s) /\ \A x : QueueBank(d, x) = QueueBank(s, x)
  BY DEF ColumnTypes, QueueBank
<1>5. ASSUME NEW i \in DOMAIN z
      PROVE  /\ z[i].rank = r /\ QueueBank(d, z[i].bank) = b
             /\ IsActivate(z[i]) \/ z[i].type \in ColumnTypes(d)
  <2>1. CASE i \in DOMAIN q
    BY <1>1, <1>3, <1>4, <2>1
  <2>2. CASE i = Len(q) + 1
    BY <1>3, <1>4, <2>2
  <2>3. CASE i = Len(q) + 2
    BY <1>3, <1>4, <2>3
  <2> QED
    BY <1>3, <2>1, <2>2, <2>3
<1>6. ASSUME NEW i \in DOMAIN z, Orphan(z, i) PROVE Opened(d, z[i]) /\ Alone(d, z, i)
  <2>1. i \in DOMAIN q /\ Orphan(q, i) /\ z[i] = q[i]
    BY <1>3, <1>6
  <2>2. Opened(s, q[i]) /\ Alone(s, q, i)
    BY <1>1, <2>1
  <2>3. Opened(d, z[i])
    BY <2>1, <2>2 DEF Opened
  <2>4. ASSUME NEW j \in DOMAIN z, Orphan(z, j), z[j].bank = z[i].bank PROVE j = i
    <3>1. j \in DOMAIN q /\ Orphan(q, j) /\ z[j] = q[j]
      BY <1>3, <2>4
    <3> QED
      BY <2>1, <2>2, <2>4, <3>1 DEF Alone
  <2>5. ASSUME d.config.page = "Open", NEW j \in 1 .. (i - 1)
        PROVE  IsActivate(z[j]) \/ z[j].bank # z[i].bank \/ z[j].row # z[i].row
    <3>1. j \in DOMAIN q
      <4>1. DOMAIN q = 1 .. Len(q) /\ Len(q) \in Nat
        OBVIOUS
      <4> QED
        BY <2>1, <4>1
    <3>2. IsActivate(q[j]) \/ q[j].bank # q[i].bank \/ q[j].row # q[i].row
      BY <2>2, <2>5 DEF Alone
    <3> QED
      BY <1>3, <2>1, <3>1, <3>2
  <2> QED
    BY <2>3, <2>4, <2>5 DEF Alone
<1>7. Len(z) <= CmdQueueDepth
  BY <1>3
<1> QED
  BY <1>3, <1>5, <1>6, <1>7 DEF QueueOK, z

(* A transaction's commands are enqueued. *)
LEMMA TransactionSplit ==
  ASSUME NEW s, Inv(s), NEW i \in Nat \ {0}
  PROVE  Inv(SplitAt(s, i)) /\ SplitAt(s, i).countdown = s.countdown
<1> DEFINE t == s.trans[i]
           r == Field(t.addr, "rank")
           c == Field(t.addr, "bank")
           b == QueueBank(s, c)
           q == s.queue[r][b]
           d == SplitAt(s, i)
<1>1. CASE ~(i <= Len(s.trans) /\ HasRoomFor(s, 2, r, c))
  BY <1>1 DEF SplitAt
<1>2. CASE i <= Len(s.trans) /\ HasRoomFor(s, 2, r, c)
  <2> DEFINE k == CASE t.write /\ s.config.page = "Open" -> "WRITE"
                    [] t.write /\ s.config.page = "Close" -> "WRITE_P"
                    [] ~t.write /\ s.config.page = "Open" -> "READ"
                    [] ~t.write /\ s.config.page = "Close" -> "READ_P"
             act == To("ACTIVATE", t.addr)
             col == To(k, t.addr)
             e == Enqueue(s, act)
             f == Enqueue(e, col)
  <2>1. /\ Shape(s) /\ InTurn(s.countdown, s.turn)
        /\ DOMAIN s = Fields /\ s.queue \in [Ranks -> [Banks -> Seq(Commands)]]
        /\ s.trans \in Seq(Transactions) /\ Len(s.trans) <= TransQueueDepth
        /\ s.extra \in Seq(Transactions)
        /\ s.config.page \in {"Open", "Close"}
    BY ControllerAssumption DEF Inv, Shape, QueueShape, TransactionShape
  <2>2. i \in DOMAIN s.trans /\ t \in Transactions /\ t.write \in BOOLEAN
    <3>1. i \in DOMAIN s.trans
      BY <1>2, <2>1
    <3>2. t \in Transactions
      BY <2>1, <3>1
    <3> QED
      BY <3>1, <3>2, AddressAssumption
  <2>3. d = [[f EXCEPT !.reads = IF t.write THEN @ ELSE Append(@, t.addr)]
               EXCEPT !.trans = RemoveAt(@, i)]
    BY <1>2 DEF SplitAt, Split
  <2>4. CmdQueueDepth - Len(q) >= 2
    BY <1>2 DEF HasRoomFor, QueueOf
  <2>5. /\ k \in {"READ", "READ_P", "WRITE", "WRITE_P"} /\ k \in ColumnTypes(s)
    BY <2>1, <2>2 DEF ColumnTypes
  <2> HIDE DEF k
  <2>6. /\ r \in Ranks /\ c \in Banks
        /\ act \in Commands /\ act.type = "ACTIVATE" /\ act.addr = t.addr
        /\ act.rank = r /\ act.bank = c
        /\ col \in Commands /\ col.type = k /\ col.addr = t.addr
        /\ col.rank = r /\ col.bank = c
    BY <2>2, <2>5, CommandOf
  <2> HIDE DEF act, col, t, d
  <2>7. b \in Banks /\ q \in Seq(Commands)
    BY <2>1, <2>6, QueueBankIs
  <2>8. /\ DOMAIN e = Fields /\ \A x \in Fields \ {"queue"} : e[x] = s[x]
        /\ e.queue \in [Ranks -> [Banks -> Seq(Commands)]]
        /\ Changed(e.queue, s.queue, r, b, Append(q, act))
    <3> HIDE DEF e, r, c
    <3>1. b = QueueBank(s, act.bank)
      BY <2>6
    <3>2. e = Enqueue(s, act)
      BY DEF e
    <3> HIDE DEF b
    <3>3. Added(s, e, act.rank, b, act)
      BY <2>1, <2>6, <2>7, <3>1, <3>2, Enqueued
    <3> QED
      BY <2>6, <3>3 DEF Added
  <2> HIDE DEF e, r, c
  <2>9. /\ DOMAIN f = Fields /\ \A x \in Fields \ {"queue"} : f[x] = e[x]
        /\ f.queue \in [Ranks -> [Banks -> Seq(Commands)]]
        /\ Changed(f.queue, e.queue, r, b, Append(e.queue[r][b], col))
    <3>1. e.config = s.config
      BY <2>8 DEF Fields
    <3>2. b = QueueBank(e, col.bank)
      BY <2>6, <3>1 DEF QueueBank
    <3> HIDE DEF f, b
    <3>3. f = Enqueue(e, col)
      BY DEF f
    <3>4. Added(e, f, col.rank, b, col)
      BY <2>6, <2>7, <2>8, <3>2, <3>3, Enqueued
    <3> QED
      BY <2>6, <3>4 DEF Added
  <2> HIDE DEF f, b, q
  <2>10. /\ DOMAIN d = Fields /\ \A x \in Fields \ {"queue", "reads", "trans"} : d[x] = s[x]
         /\ d.queue = f.queue /\ d.trans = RemoveAt(f.trans, i)
    BY <2>3, <2>8, <2>9 DEF Fields
  <2>11. d.trans = RemoveAt(s.trans, i)
    BY <2>8, <2>9, <2>10 DEF Fields
  <2>12. TransactionShape(d)
    <3>1. RemoveAt(s.trans, i) \in Seq(Transactions) /\ Len(RemoveAt(s.trans, i)) = Len(s.trans) - 1
      BY <2>1, <2>2, RemovedAt
    <3>2. Len(s.trans) \in Nat /\ TransQueueDepth \in Nat
      BY <2>1, ControllerAssumption
    <3>3. d.extra = s.extra
      BY <2>10 DEF Fields
    <3> QED
      BY <2>1, <2>11, <3>1, <3>2, <3>3 DEF TransactionShape
  <2>13. /\ d.config = s.config /\ d.bank = s.bank /\ d.rowAccess = s.rowAccess
         /\ d.faw = s.faw /\ d.at = s.at /\ d.pre = s.pre /\ d.refresh = s.refresh
         /\ d.countdown = s.countdown /\ d.turn = s.turn /\ d.down = s.down
    BY <2>10 DEF Fields
  <2>14. Shape(d)
    <3>1. RankShape(d)
      BY <2>1, <2>13 DEF Shape, RankShape
    <3>2. BankShape(d)
      BY <2>1, <2>13 DEF Shape, BankShape
    <3>3. QueueShape(d)
      BY <2>1, <2>9, <2>10, <2>13 DEF Shape, QueueShape
    <3> QED
      BY <2>1, <2>10, <2>12, <2>13, <3>1, <3>2, <3>3 DEF Shape
  <2>15. /\ d.queue[r][b] = Append(Append(q, act), col)
         /\ \A x \in Ranks, y \in Banks : <<x, y>> # <<r, b>> => d.queue[x][y] = s.queue[x][y]
    BY <2>8, <2>9, <2>10 DEF Changed
  <2>16. ASSUME NEW x \in Ranks, NEW y \in Banks PROVE QueueOK(d, x, y) /\ BankOK(d, x, y)
    <3>1. QueueOK(s, x, y) /\ BankOK(s, x, y)
      BY DEF Inv
    <3>2. BankOK(d, x, y)
      BY <2>13, <3>1 DEF BankOK, ColumnTypes
    <3>3. CASE <<x, y>> = <<r, b>>
      <4>1. QueueOK(s, r, b) /\ q = s.queue[r][b]
        BY <3>1, <3>3 DEF q
      <4>2. Len(q) + 2 <= CmdQueueDepth
        BY <2>4, <2>7, ControllerAssumption
      <4>3. /\ QueueBank(s, act.bank) = b /\ QueueBank(s, col.bank) = b
        BY <2>6 DEF b
      <4>4. IsActivate(act) /\ ~IsActivate(col) /\ act.addr = col.addr
        BY <2>5, <2>6 DEF IsActivate
      <4>5. col.type \in ColumnTypes(s) /\ r \in Ranks /\ act.rank = r /\ col.rank = r
        BY <2>5, <2>6
      <4>6. Joined(d.queue[r][b], q, act, col)
        BY <2>15 DEF Joined
      <4>7. QueueOK(d, r, b)
        BY <2>6, <2>7, <2>13, <4>1, <4>2, <4>3, <4>4, <4>5, <4>6, QueueOfPair
      <4> QED
        BY <3>2, <3>3, <4>7
    <3>4. CASE <<x, y>> # <<r, b>>
      <4>1. d.queue[x][y] = s.queue[x][y]
        BY <2>15, <3>4
      <4>2. \A p : Opened(s, p) => Opened(d, p)
        BY <2>13 DEF Opened
      <4>3. QueueOK(d, x, y)
        BY <2>1, <2>13, <3>1, <4>1, <4>2, QueueKept
      <4> QED
        BY <3>2, <4>3
    <3> QED
      BY <3>3, <3>4
  <2> QED
    BY <2>1, <2>13, <2>14, <2>16 DEF Inv, d
<1> QED
  BY <1>1, <1>2

(* The states of the loop over the transaction queue. *)
Walk(w, s, n) == w = [i \in 0 .. n |-> IF i = 0 THEN s ELSE SplitAt(w[i - 1], i)]

(* The recursive function of SplitTransactions exists. *)
LEMMA WalkExists ==
  ASSUME NEW s, NEW n \in Nat
  PROVE  \E w : Walk(w, s, n)
<1> DEFINE Fold(k, w) == w = [i \in 0 .. k |-> IF i = 0 THEN s ELSE SplitAt(w[i - 1], i)]
           S == {k \in Nat : \E w : Fold(k, w)}
<1>1. 0 \in S
  <2>1. Fold(0, [i \in 0 .. 0 |-> s])
    OBVIOUS
  <2> QED
    BY <2>1
<1>2. ASSUME NEW k \in Nat, k \in S PROVE k + 1 \in S
  <2>1. PICK w : Fold(k, w)
    BY <1>2
  <2> DEFINE x == [i \in 0 .. k + 1 |-> IF i <= k THEN w[i] ELSE SplitAt(w[k], k + 1)]
  <2>2. \A i \in 0 .. k + 1 : x[i] = IF i = 0 THEN s ELSE SplitAt(x[i - 1], i)
    <3> SUFFICES ASSUME NEW i \in 0 .. k + 1
                 PROVE  x[i] = IF i = 0 THEN s ELSE SplitAt(x[i - 1], i)
      OBVIOUS
    <3>1. CASE i <= k
      <4>1. x[i] = IF i = 0 THEN s ELSE SplitAt(w[i - 1], i)
        BY <2>1, <3>1
      <4>2. i # 0 => x[i - 1] = w[i - 1]
        BY <3>1
      <4> QED
        BY <4>1, <4>2
    <3>2. CASE i = k + 1
      <4>1. x[i] = SplitAt(w[k], i) /\ x[i - 1] = w[k] /\ i # 0
        BY <3>2
      <4> QED
        BY <4>1
    <3> QED
      BY <3>1, <3>2
  <2>3. Fold(k + 1, x)
    BY <2>2
  <2> HIDE DEF x, Fold
  <2> QED
    BY <2>3
<1> HIDE DEF S
<1>3. n \in S
  BY <1>1, <1>2, InductionOverSet
<1> QED
  BY <1>3 DEF S, Walk

(* Nothing but queues and transactions changes when one is split. *)
BusKept(s, d) ==
  /\ d.ranks = s.ranks /\ d.bank = s.bank
  /\ d.cmd = s.cmd /\ d.data = s.data /\ d.writes = s.writes

(* One transaction becomes two commands. *)
LEMMA SplitKeepsBus ==
  ASSUME NEW s, DOMAIN s = Fields, NEW i
  PROVE  BusKept(s, SplitAt(s, i))
<1> DEFINE t == s.trans[i]
<1>1. CASE ~(i <= Len(s.trans) /\ HasRoomFor(s, 2, Field(t.addr, "rank"), Field(t.addr, "bank")))
  BY <1>1 DEF SplitAt, BusKept
<1>2. CASE i <= Len(s.trans) /\ HasRoomFor(s, 2, Field(t.addr, "rank"), Field(t.addr, "bank"))
  <2>1. ASSUME NEW u, DOMAIN u = Fields, NEW p
        PROVE  DOMAIN Enqueue(u, p) = Fields /\ BusKept(u, Enqueue(u, p))
    BY <2>1 DEF Enqueue, BusKept, Fields
  <2>2. \A x, y : LET f == Enqueue(Enqueue(s, x), y)
                 IN  DOMAIN f = Fields /\ BusKept(s, f)
    BY <2>1 DEF BusKept
  <2>3. PICK f, g, h : /\ DOMAIN f = Fields /\ BusKept(s, f)
                       /\ SplitAt(s, i) = [[f EXCEPT !.reads = g] EXCEPT !.trans = h]
    <3>1. SplitAt(s, i) = [Split(s, t) EXCEPT !.trans = RemoveAt(@, i)]
      BY <1>2 DEF SplitAt
    <3>2. PICK x, y, g : Split(s, t) = [Enqueue(Enqueue(s, x), y) EXCEPT !.reads = g]
      BY Zenon DEF Split
    <3> QED
      BY <2>2, <3>1, <3>2, Zenon
  <2> QED
    BY <2>3 DEF BusKept, Fields
<1> QED
  BY <1>1, <1>2

(* The loop over the transaction queue. *)
LEMMA TransactionsSplit ==
  ASSUME NEW s, Inv(s)
  PROVE  LET d == SplitTransactions(s)
         IN  Inv(d) /\ d.countdown = s.countdown /\ BusKept(s, d)
<1> DEFINE n == Len(s.trans)
           w == CHOOSE w : w = [i \in 0 .. n |-> IF i = 0 THEN s ELSE SplitAt(w[i - 1], i)]
<1>1. n \in Nat
  <2>1. s.trans \in Seq(Transactions)
    BY DEF Inv, Shape, TransactionShape
  <2> QED
    BY <2>1
<1>2. SplitTransactions(s) = w[n]
  BY DEF SplitTransactions
<1>3. w = [i \in 0 .. n |-> IF i = 0 THEN s ELSE SplitAt(w[i - 1], i)]
  <2> HIDE DEF n
  <2>1. \E x : Walk(x, s, n)
    BY <1>1, WalkExists
  <2>2. w = CHOOSE x : Walk(x, s, n)
    BY DEF Walk
  <2>3. Walk(w, s, n)
    <3> HIDE DEF w
    <3> QED
      BY <2>1, <2>2
  <2> HIDE DEF w
  <2> QED
    BY <2>3 DEF Walk
<1> HIDE DEF w, n
<1> DEFINE S == {i \in Nat : i <= n => /\ Inv(w[i]) /\ w[i].countdown = s.countdown
                                     /\ BusKept(s, w[i])}
<1>4. 0 \in S
  BY <1>1, <1>3 DEF BusKept
<1>5. ASSUME NEW i \in Nat, i \in S PROVE i + 1 \in S
  <2> SUFFICES ASSUME i + 1 <= n
               PROVE  /\ Inv(w[i + 1]) /\ w[i + 1].countdown = s.countdown
                      /\ BusKept(s, w[i + 1])
    OBVIOUS
  <2>1. Inv(w[i]) /\ w[i].countdown = s.countdown /\ BusKept(s, w[i])
    BY <1>1, <1>5
  <2>2. w[i + 1] = SplitAt(w[i], i + 1)
    BY <1>1, <1>3
  <2>3. i + 1 \in Nat \ {0}
    OBVIOUS
  <2>4. BusKept(w[i], w[i + 1])
    <3>1. DOMAIN w[i] = Fields
      BY <2>1 DEF Inv, Shape
    <3> QED
      BY <2>2, <3>1, SplitKeepsBus
  <2>5. BusKept(s, w[i + 1])
    BY <2>1, <2>4 DEF BusKept
  <2> QED
    BY <2>1, <2>2, <2>3, <2>5, TransactionSplit
<1>6. Nat \subseteq S
  <2> HIDE DEF S
  <2> QED
    BY <1>4, <1>5, InductionOverSet
<1> QED
  BY <1>1, <1>2, <1>6

-----------------------------------------------------------------------------
(* The behaviours.                                                         *)

(* The refresh times of the ranks at the beginning. *)
LEMMA FirstRefreshes ==
  ASSUME NEW d, d = RefreshPeriod \div NumRanks
  PROVE  /\ d \in Nat \ {0}
         /\ \A r \in Ranks : d * (r + 1) \in 1 .. RefreshPeriod
         /\ \A r, x \in Ranks : r < x => d * (r + 1) < d * (x + 1)
<1>1. /\ RefreshPeriod \in Nat /\ NumRanks \in Nat /\ NumRanks >= 1 /\ RefreshPeriod >= NumRanks
  BY ControllerAssumption, TimingAssumption
<1>2. \A p \in Nat, n \in Nat : n >= 1 /\ p >= n =>
        p \div n \in Nat /\ p \div n >= 1 /\ (p \div n) * n <= p
  OBVIOUS
<1>3. d \in Nat /\ d >= 1 /\ d * NumRanks <= RefreshPeriod
  BY <1>1, <1>2
<1>4. \A x \in Nat, i \in Nat, j \in Nat : x >= 1 /\ i < j => x * i < x * j
  <2> SUFFICES ASSUME NEW x \in Nat, NEW i \in Nat, NEW j \in Nat, x >= 1, i < j
               PROVE  x * i < x * j
    OBVIOUS
  <2>1. PICK k \in Nat : j = i + k /\ k >= 1
    <3>1. j - i \in Nat /\ j = i + (j - i) /\ j - i >= 1
      OBVIOUS
    <3> QED
      BY <3>1
  <2>2. x * j = x * i + x * k /\ x * k >= 1 /\ x * i \in Nat /\ x * k \in Nat
    BY <2>1
  <2> QED
    BY <2>2
<1>5. ASSUME NEW r \in Ranks PROVE r \in Nat /\ r + 1 \in Nat /\ r + 1 >= 1 /\ r + 1 <= NumRanks
  BY <1>1 DEF Ranks
<1>6. ASSUME NEW r \in Ranks PROVE d * (r + 1) \in 1 .. RefreshPeriod
  <2>1. d * (r + 1) <= d * NumRanks
    <3>1. CASE r + 1 = NumRanks
      BY <1>1, <1>3, <3>1
    <3>2. CASE r + 1 # NumRanks
      <4>1. r + 1 < NumRanks
        BY <1>1, <1>5, <3>2
      <4>2. d * (r + 1) < d * NumRanks
        BY <1>1, <1>3, <1>4, <1>5, <4>1
      <4>3. d * (r + 1) \in Nat /\ d * NumRanks \in Nat
        BY <1>1, <1>3, <1>5
      <4> QED
        BY <4>2, <4>3
    <3> QED
      BY <3>1, <3>2
  <2>2. d * (r + 1) \in Nat /\ d * NumRanks \in Nat
    BY <1>1, <1>3, <1>5
  <2>3. d * 0 < d * (r + 1) /\ d * 0 = 0
    <3>1. 0 < r + 1
      BY <1>5
    <3> QED
      BY <1>3, <1>4, <1>5, <3>1
  <2> HIDE DEF Ranks
  <2> QED
    BY <1>1, <1>3, <2>1, <2>2, <2>3
<1>7. ASSUME NEW r \in Ranks, NEW x \in Ranks, r < x PROVE d * (r + 1) < d * (x + 1)
  <2>1. r + 1 < x + 1
    BY <1>5, <1>7
  <2> QED
    BY <1>3, <1>4, <1>5, <2>1
<1> QED
  BY <1>3, <1>6, <1>7

(* The constructor establishes the invariant. *)
LEMMA InvBegins ==
  ASSUME Init
  PROVE  Inv(m)
<1> DEFINE D == RefreshPeriod \div NumRanks
           c == [r \in Ranks |-> D * (r + 1)]
<1>1. /\ DOMAIN m = Fields /\ m.config \in Configs
      /\ m.queue = [r \in Ranks |-> [b \in Banks |-> <<>>]]
      /\ m.bank = [r \in Ranks |-> [b \in Banks |-> NewBank]]
      /\ m.rowAccess = [r \in Ranks |-> [b \in Banks |-> 0]]
      /\ m.faw = [r \in Ranks |-> <<>>]
      /\ m.at = <<0, 0>> /\ m.pre = <<0, 0>> /\ m.refresh = NoRank
      /\ m.countdown = c /\ m.turn = 0 /\ m.down = [r \in Ranks |-> FALSE]
      /\ m.trans = <<>> /\ m.extra = <<>>
  BY DEF Init, Fields
<1>2. /\ 0 \in Ranks /\ 0 \in Banks /\ \A r \in Ranks : r \in Nat
  BY TimingAssumption DEF Ranks, Banks
<1>3. /\ CmdQueueDepth \in Nat /\ TransQueueDepth \in Nat /\ TotalRowAccesses \in Nat
      /\ RefreshPeriod \in Nat
  BY ControllerAssumption
<1>4. /\ \A r \in Ranks : D * (r + 1) \in 1 .. RefreshPeriod
      /\ \A r, x \in Ranks : r < x => D * (r + 1) < D * (x + 1)
  BY FirstRefreshes
<1> HIDE DEF D
<1>5. QueueShape(m)
  <2>1. m.queue \in [Ranks -> [Banks -> Seq(Commands)]]
    BY <1>1
  <2>2. m.rowAccess \in [Ranks -> [Banks -> 0 .. TotalRowAccesses]]
    BY <1>1, <1>3
  <2>3. m.faw \in [Ranks -> Seq(Int)] /\ \A r \in Ranks : Len(m.faw[r]) <= 4
    BY <1>1
  <2> QED
    BY <1>1, <1>2, <2>1, <2>2, <2>3 DEF QueueShape
<1>6. BankShape(m)
  BY <1>1 DEF BankShape, NewBank, BankFields
<1>7. RankShape(m)
  <2>1. c \in [Ranks -> 0 .. RefreshPeriod]
    <3>1. \A r \in Ranks : D * (r + 1) \in 0 .. RefreshPeriod
      BY <1>3, <1>4
    <3> QED
      BY <3>1
  <2> HIDE DEF c
  <2> QED
    BY <1>1, <1>2, <2>1 DEF RankShape
<1>8. TransactionShape(m)
  BY <1>1, <1>3 DEF TransactionShape
<1>9. Shape(m)
  BY <1>1, <1>5, <1>6, <1>7, <1>8 DEF Shape
<1>10. ASSUME NEW r \in Ranks, NEW b \in Banks PROVE QueueOK(m, r, b) /\ BankOK(m, r, b)
  <2>1. m.queue[r][b] = <<>> /\ m.rowAccess[r][b] = 0 /\ m.bank[r][b] = NewBank /\ ~m.down[r]
    BY <1>1
  <2>2. QueueOK(m, r, b)
    <3>1. DOMAIN m.queue[r][b] = {} /\ Len(m.queue[r][b]) = 0
      BY <2>1
    <3>2. Pairs(m.queue[r][b])
      BY <3>1 DEF Pairs
    <3> QED
      BY <1>3, <3>1, <3>2 DEF QueueOK
  <2>3. BankOK(m, r, b)
    <3>1. m.bank[r][b].state = "Idle" /\ m.bank[r][b].countdown = 0
      BY <2>1 DEF NewBank
    <3> QED
      BY <2>1, <3>1 DEF BankOK
  <2> QED
    BY <2>2, <2>3
<1>11. InTurn(m.countdown, m.turn)
  <2>1. \A r \in Ranks : c[r] = D * (r + 1)
    OBVIOUS
  <2> HIDE DEF c
  <2>2. \A r, x \in Ranks : r < x => c[r] < c[x]
    BY <1>4, <2>1
  <2>3. c[0] # 0
    <3>1. D * (0 + 1) \in 1 .. RefreshPeriod /\ c[0] = D * (0 + 1)
      BY <1>2, <1>4, <2>1
    <3>2. \A x \in 1 .. RefreshPeriod : x # 0
      BY <1>3
    <3> QED
      BY <3>1, <3>2
  <2>4. \A r \in Ranks : ~(r < 0)
    BY <1>2
  <2> QED
    BY <1>1, <2>2, <2>3, <2>4 DEF InTurn
<1> QED
  BY <1>9, <1>10, <1>11 DEF Inv

(* MemorySystem::update *)
LEMMA CycleKeeps ==
  ASSUME Inv(m), Cycle
  PROVE  Inv(m')
<1> DEFINE a == UpdateBanks(AdmitExtra(UpdateRanks(m)))
           b == SendWriteData(DeliverData(DeliverCommand(a)))
           c == RefreshDue(b)
           d == IssueCommand(c)
           e == SplitTransactions(d)
           f == PowerRanks(e)
           g == ReturnRead(f)
<1>1. m' = Tick(g)
  BY DEF Cycle
<1>2. Inv(a)
  <2>1. Inv(UpdateRanks(m))
    BY RanksUpdated
  <2>2. Inv(AdmitExtra(UpdateRanks(m)))
    BY <2>1, ExtraAdmitted
  <2> QED
    BY <2>2, BanksUpdated
<1> HIDE DEF a
<1>3. Inv(b)
  <2>1. Inv(DeliverCommand(a))
    BY <1>2, CommandDelivered
  <2>2. Inv(DeliverData(DeliverCommand(a)))
    BY <2>1, DataDelivered
  <2> QED
    BY <2>2, WriteDataSent
<1> HIDE DEF b
<1>4. Inv(c) /\ \A r \in Ranks : c.countdown[r] >= 1
  BY <1>3, RefreshCounted
<1> HIDE DEF c
<1>5. Inv(d) /\ d.countdown = c.countdown
  BY <1>4, CommandsIssued
<1> HIDE DEF d
<1>6. Inv(e) /\ e.countdown = d.countdown
  BY <1>5, TransactionsSplit
<1> HIDE DEF e
<1>7. Inv(f) /\ f.countdown = e.countdown
  BY <1>6, RanksPowered
<1> HIDE DEF f
<1>8. Inv(g) /\ g.countdown = f.countdown
  BY <1>7, ReadReturned
<1> HIDE DEF g
<1>9. \A r \in Ranks : g.countdown[r] >= 1
  BY <1>4, <1>5, <1>6, <1>7, <1>8
<1> QED
  BY <1>1, <1>8, <1>9, Ticked

(* The invariant is inductive. *)
LEMMA InvHolds == Spec => []Inv(m)
<1>1. Init => Inv(m)
  BY InvBegins
<1>2. ASSUME Inv(m), [Next]_vars PROVE Inv(m)'
  <2>1. CASE Cycle
    BY <1>2, <2>1, CycleKeeps
  <2>2. CASE \E t \in Transactions : AddTransaction(t)
    BY <1>2, <2>2, TransactionAdded
  <2>3. CASE UNCHANGED vars
    BY <1>2, <2>3 DEF vars
  <2> QED
    BY <1>2, <2>1, <2>2, <2>3 DEF Next
<1> QED
  BY <1>1, <1>2, PTL DEF Spec

-----------------------------------------------------------------------------
(* Theorems.                                                               *)

(* The queues keep to their depths, the refresh counters run between zero  *)
(* and the period, and every pointer names a bank that exists, whatever    *)
(* the number of ranks and banks, the delays and the settings              *)
(* (MemoryController::update, CommandQueue::pop).                          *)
THEOREM TypesAreCorrect == Spec => []TypeOK
<1>1. ASSUME Inv(m) PROVE TypeOK
  <2>1. Shape(m)
    BY <1>1 DEF Inv
  <2>2. /\ m.config \in Configs /\ m.at \in Ranks \X Banks /\ m.pre \in Ranks \X Banks
        /\ m.refresh \in Ranks \cup {NoRank} /\ m.turn \in Ranks
        /\ Len(m.trans) <= TransQueueDepth
    BY <2>1 DEF Shape, QueueShape, RankShape, TransactionShape
  <2>3. ASSUME NEW r \in Ranks, NEW b \in Banks
        PROVE  /\ Len(m.queue[r][b]) <= CmdQueueDepth
               /\ m.rowAccess[r][b] \in 0 .. TotalRowAccesses
    <3>1. QueueOK(m, r, b)
      BY <1>1 DEF Inv
    <3>2. m.rowAccess \in [Ranks -> [Banks -> 0 .. TotalRowAccesses]]
      BY <2>1 DEF Shape, QueueShape
    <3> QED
      BY <3>1, <3>2 DEF QueueOK
  <2>4. \A r \in Ranks : m.countdown[r] \in 0 .. RefreshPeriod /\ Len(m.faw[r]) <= 4
    BY <2>1 DEF Shape, QueueShape, RankShape
  <2> QED
    BY <2>2, <2>3, <2>4 DEF TypeOK
<1> QED
  BY <1>1, InvHolds, PTL

(* A column access in a command queue has its activate right in front of   *)
(* it, or its row is open: no refresh, no precharge, no power down and no  *)
(* other access comes between the two commands of a transaction            *)
(* (CommandQueue::pop, MemoryController::update).                          *)
THEOREM ColumnsHaveRows == Spec => []ColumnHasRow
<1>1. ASSUME Inv(m) PROVE ColumnHasRow
  <2> SUFFICES ASSUME NEW r \in Ranks, NEW b \in Banks, NEW i \in DOMAIN m.queue[r][b]
               PROVE  LET q == m.queue[r][b]
                          bank == m.bank[r][q[i].bank]
                      IN  q[i].type = "ACTIVATE" \/
                            \/ i > 1 /\ q[i - 1].type = "ACTIVATE" /\ q[i - 1].addr = q[i].addr
                            \/ bank.state = "RowActive" /\ bank.row = q[i].row
    BY DEF ColumnHasRow
  <2> DEFINE q == m.queue[r][b]
  <2>1. QueueOK(m, r, b)
    BY <1>1 DEF Inv
  <2>2. q[i].rank = r /\ (Orphan(q, i) => Opened(m, q[i]))
    BY <2>1 DEF QueueOK
  <2>3. q[i].type = "ACTIVATE" \/ Paired(q, i) \/ Orphan(q, i)
    BY DEF Orphan, IsActivate
  <2>4. CASE Paired(q, i)
    BY <2>4 DEF Paired, IsActivate
  <2>5. CASE Orphan(q, i)
    BY <2>2, <2>5 DEF Opened
  <2> QED
    BY <2>3, <2>4, <2>5
<1> QED
  BY <1>1, InvHolds, PTL

-----------------------------------------------------------------------------
(* The data bus.                                                           *)

(* The bursts of each rank and of the controller (NoRank): in how many     *)
(* cycles those to come begin, and how long the one on the bus still       *)
(* lasts.  A read on the command bus reaches its rank in the next cycle.   *)
Lanes == Ranks \cup {NoRank}

Ins(w) == [i \in 1 .. Len(w) |-> w[i].in]

Lane(s, l) ==
  IF l = NoRank THEN [q |-> Ins(s.writes), left |-> s.data.left]
  ELSE [q |-> IF IsRead(s.cmd.p) /\ s.cmd.p.rank = l
              THEN Append(Ins(s.ranks[l].returning), RL + 1) ELSE Ins(s.ranks[l].returning),
        left |-> s.ranks[l].left]

Schedule(s) == [l \in Lanes |-> Lane(s, l)]

(* No two bursts overlap. *)
Apart(x, y) == x + Burst <= y \/ y + Burst <= x

Bursts(B, l) == Len(B[l].q)
Start(B, l, i) == B[l].q[i]
Left(B, l) == B[l].left

LaneTypes(B) ==
  \A l \in Lanes : /\ Bursts(B, l) \in Nat /\ Left(B, l) \in Nat
                   /\ \A i \in 1 .. Bursts(B, l) : Start(B, l, i) \in Int

Timetable(B) ==
  /\ \A l \in Lanes : \A i \in 1 .. Bursts(B, l) : Start(B, l, i) >= 1
  /\ \A l \in Lanes : \A i, j \in 1 .. Bursts(B, l) :
       i < j => Start(B, l, i) + Burst <= Start(B, l, j)
  /\ \A k, l \in Lanes : k # l => \A i \in 1 .. Bursts(B, k), j \in 1 .. Bursts(B, l) :
                                    Apart(Start(B, k, i), Start(B, l, j))
  /\ \A k, l \in Lanes : \A i \in 1 .. Bursts(B, l) : Left(B, k) <= Start(B, l, i)
  /\ \A k, l \in Lanes : k # l => Left(B, k) = 0 \/ Left(B, l) = 0

(* All bursts are over in e cycles. *)
Over(B, e) ==
  \A l \in Lanes : /\ Left(B, l) <= e
                   /\ \A i \in 1 .. Bursts(B, l) : Start(B, l, i) + Burst <= e

(* A bank that column accesses may go to. *)
Usable(x) == x.state = "RowActive" /\ x.last \in {"ACTIVATE", "READ", "WRITE"}

(* A column access that a bank allows begins its burst after all others    *)
(* are over; x is that of the current cycle, and the next one follows d    *)
(* cycles later.                                                           *)
Clear(s, d) ==
  \A r \in Ranks, b \in Banks :
    LET x == s.bank[r][b]
    IN  Usable(x) => /\ Over(Schedule(s), x.nextRead + RL + 1 + d)
                     /\ Over(Schedule(s), x.nextWrite + RL - 1 + d)

TimeTypes(s) ==
  \A r \in Ranks, b \in Banks :
    /\ s.bank[r][b].nextRead \in Nat /\ s.bank[r][b].nextWrite \in Nat
    /\ s.bank[r][b].nextActivate \in Nat

(* The packets on the data bus, and those that wait for it. *)
DataPackets == {[p EXCEPT !.type = "DATA"] : p \in Commands}
Waiting == [p : DataPackets, in : Int]
RankFields == {"bank", "down", "refreshWaiting", "returning", "out", "left"}

RankTypes(k) ==
  /\ DOMAIN k = RankFields /\ k.returning \in Seq(Waiting) /\ k.left \in Nat
  /\ k.out = NoPacket <=> k.left = 0

WriteTypes(s) ==
  /\ s.writes \in Seq(Waiting)
  /\ DOMAIN s.data = {"p", "left"} /\ s.data.left \in Nat
  /\ s.data.p = NoPacket <=> s.data.left = 0
  /\ s.data.p # NoPacket => s.data.p.type = "DATA"

CommandTypes(s) ==
  /\ DOMAIN s.cmd = {"p", "left"}
  /\ s.cmd.p # NoPacket => s.cmd.left = 1
  /\ IsRead(s.cmd.p) => s.cmd.p \in Commands

BusTypes(s) ==
  /\ DOMAIN s.ranks = Ranks /\ \A r \in Ranks : RankTypes(s.ranks[r])
  /\ WriteTypes(s) /\ CommandTypes(s)

BusOK(s, d) ==
  /\ BusTypes(s) /\ TimeTypes(s)
  /\ LaneTypes(Schedule(s)) /\ Timetable(Schedule(s)) /\ Clear(s, d)

(* The invariant of the data bus between two cycles. *)
BusInv(s) == BusOK(s, 1) /\ Over(Schedule(s), RL + Burst + 1)

(* What the proofs use of the delays. *)
LEMMA Delays ==
  /\ Burst \in Nat /\ Burst >= 1 /\ RL \in Nat /\ RL >= 2 /\ WL = RL - 1
  /\ T.tRTRS \in Nat /\ T.tRTRS >= 1 /\ T.tCCD \in Nat /\ T.tWTR \in Nat
  /\ T.tRCD - T.AL \in Nat /\ T.tRCD - T.AL >= Burst + 1
<1>1. /\ T.BL \in Nat /\ T.BL >= 2 /\ T.CL \in Nat /\ T.AL \in Nat /\ T.tRTRS \in Nat
      /\ T.tCCD \in Nat /\ T.tWTR \in Nat /\ T.tRCD \in Nat
  BY TimingAssumption
<1>2. Burst \in Nat /\ Burst >= 1
  BY <1>1 DEF Burst
<1>3. RL \in Nat /\ RL >= 2 /\ WL = RL - 1
  BY <1>1, TimingAssumption DEF RL, WL
<1> QED
  BY <1>1, <1>2, <1>3, TimingAssumption

(* A burst takes a cycle or more. *)
LEMMA BurstIsLong == Burst \in Nat /\ Burst >= 1
BY Delays

(* A cycle passes on a lane: the burst whose time has come goes on the bus. *)
Begins(B, l) == IF Bursts(B, l) >= 1 /\ Start(B, l, 1) = 1 THEN 1 ELSE 0

LaneStep(B, C, l) ==
  /\ Bursts(C, l) = Bursts(B, l) - Begins(B, l)
  /\ \A i \in 1 .. Bursts(C, l) : Start(C, l, i) = Start(B, l, i + Begins(B, l)) - 1
  /\ Left(C, l) = IF Begins(B, l) = 1 THEN Burst ELSE Down(Left(B, l))

(* Bursts that do not overlap do not overlap a cycle later. *)
LEMMA TimePasses ==
  ASSUME NEW B, NEW C, LaneTypes(B), Timetable(B), \A l \in Lanes : LaneStep(B, C, l)
  PROVE  /\ LaneTypes(C) /\ Timetable(C)
         /\ \A e \in Nat : Over(B, e + 1) => Over(C, e)
<1> USE BurstIsLong
<1>1. \A l \in Lanes :
        /\ Bursts(B, l) \in Nat /\ Left(B, l) \in Nat
        /\ Begins(B, l) = 0 \/ Begins(B, l) = 1
        /\ Bursts(C, l) = Bursts(B, l) - Begins(B, l) /\ Bursts(C, l) \in Nat
        /\ Begins(B, l) = 1 => 1 \in 1 .. Bursts(B, l) /\ Start(B, l, 1) = 1
        /\ Left(C, l) = IF Begins(B, l) = 1 THEN Burst ELSE Down(Left(B, l))
  BY DEF LaneTypes, LaneStep, Begins
<1>2. \A l \in Lanes : \A i \in 1 .. Bursts(C, l) :
        /\ i + Begins(B, l) \in 1 .. Bursts(B, l)
        /\ Start(C, l, i) = Start(B, l, i + Begins(B, l)) - 1
        /\ Start(B, l, i + Begins(B, l)) \in Int
  BY <1>1 DEF LaneTypes, LaneStep
<1>3. \A l \in Lanes :
         /\ Left(C, l) \in Nat
         /\ Begins(B, l) = 1 => Left(C, l) = Burst
         /\ Begins(B, l) = 0 => Left(C, l) = 0 \/ Left(C, l) = Left(B, l) - 1
  BY <1>1 DEF Down
<1>4. \A l \in Lanes : Begins(B, l) = 0 => \A i \in 1 .. Bursts(B, l) : Start(B, l, i) > 1
  <2> SUFFICES ASSUME NEW l \in Lanes, Begins(B, l) = 0, NEW i \in 1 .. Bursts(B, l)
               PROVE  Start(B, l, i) > 1
    OBVIOUS
  <2>1. 1 \in 1 .. Bursts(B, l) /\ Start(B, l, 1) # 1 
    BY <1>1 DEF Begins
  <2>2. Start(B, l, 1) \in Int /\ Start(B, l, i) \in Int
    BY <2>1 DEF LaneTypes
  <2>3. Start(B, l, 1) >= 1 /\ (1 < i => Start(B, l, 1) + Burst <= Start(B, l, i))
    BY <2>1 DEF Timetable
  <2> QED
    BY <1>1, <2>1, <2>2, <2>3
<1>5. \A l \in Lanes : Begins(B, l) = 1 =>
        \A i \in 1 .. Bursts(C, l) : Start(C, l, i) >= Burst
  <2> SUFFICES ASSUME NEW l \in Lanes, Begins(B, l) = 1, NEW i \in 1 .. Bursts(C, l)
               PROVE  Start(C, l, i) >= Burst
    OBVIOUS
  <2>1. /\ 1 \in 1 .. Bursts(B, l) /\ Start(B, l, 1) = 1 /\ i + 1 \in 1 .. Bursts(B, l)
        /\ Start(C, l, i) = Start(B, l, i + 1) - 1 /\ Start(B, l, i + 1) \in Int
    BY <1>1, <1>2
  <2>2. Start(B, l, 1) + Burst <= Start(B, l, i + 1)
    BY <2>1 DEF Timetable
  <2> QED
    BY <2>1, <2>2
<1>6. \A k, l \in Lanes : k # l /\ Begins(B, k) = 1 =>
        /\ \A j \in 1 .. Bursts(B, l) : Start(B, l, j) > Burst
        /\ Begins(B, l) = 0 /\ Left(B, l) <= 1
  <2> SUFFICES ASSUME NEW k \in Lanes, NEW l \in Lanes, k # l, Begins(B, k) = 1
               PROVE  /\ \A j \in 1 .. Bursts(B, l) : Start(B, l, j) > Burst
                      /\ Begins(B, l) = 0 /\ Left(B, l) <= 1
    OBVIOUS
  <2>1. 1 \in 1 .. Bursts(B, k) /\ Start(B, k, 1) = 1
    BY <1>1
  <2>2. ASSUME NEW j \in 1 .. Bursts(B, l) PROVE Start(B, l, j) > Burst
    <3>1. Start(B, l, j) >= 1 /\ Apart(Start(B, k, 1), Start(B, l, j))
      BY <2>1 DEF Timetable
    <3>2. Start(B, l, j) \in Int
      BY DEF LaneTypes
    <3> QED
      BY <2>1, <3>1, <3>2 DEF Apart
  <2>3. Left(B, l) <= 1
    BY <2>1 DEF Timetable
  <2> QED
    BY <1>1, <2>2, <2>3
<1>7. LaneTypes(C)
  BY <1>1, <1>2, <1>3 DEF LaneTypes
<1>8. \A l \in Lanes : \A i \in 1 .. Bursts(C, l) : Start(C, l, i) >= 1
  <2> SUFFICES ASSUME NEW l \in Lanes, NEW i \in 1 .. Bursts(C, l)
               PROVE  Start(C, l, i) >= 1
    OBVIOUS
  <2>1. CASE Begins(B, l) = 1
    BY <1>2, <1>5, <2>1
  <2>2. CASE Begins(B, l) = 0
    BY <1>2, <1>4, <2>2
  <2> QED
    BY <1>1, <2>1, <2>2
<1>9. \A l \in Lanes : \A i, j \in 1 .. Bursts(C, l) :
        i < j => Start(C, l, i) + Burst <= Start(C, l, j)
  <2> SUFFICES ASSUME NEW l \in Lanes, NEW i \in 1 .. Bursts(C, l),
                      NEW j \in 1 .. Bursts(C, l), i < j
               PROVE  Start(C, l, i) + Burst <= Start(C, l, j)
    OBVIOUS
  <2> DEFINE h == Begins(B, l)
  <2>1. i + h \in 1 .. Bursts(B, l) /\ j + h \in 1 .. Bursts(B, l) /\ i + h < j + h
    BY <1>1, <1>2
  <2>2. Start(B, l, i + h) + Burst <= Start(B, l, j + h)
    BY <2>1 DEF Timetable
  <2> QED
    BY <1>2, <2>2
<1>10. \A k, l \in Lanes : k # l => \A i \in 1 .. Bursts(C, k), j \in 1 .. Bursts(C, l) :
                                     Apart(Start(C, k, i), Start(C, l, j))
  <2> SUFFICES ASSUME NEW k \in Lanes, NEW l \in Lanes, k # l, NEW i \in 1 .. Bursts(C, k),
                      NEW j \in 1 .. Bursts(C, l)
               PROVE  Apart(Start(C, k, i), Start(C, l, j))
    OBVIOUS
  <2> DEFINE x == Start(B, k, i + Begins(B, k))
             y == Start(B, l, j + Begins(B, l))
  <2>1. Apart(x, y)
    BY <1>2 DEF Timetable
  <2>2. x \in Int /\ y \in Int /\ Start(C, k, i) = x - 1 /\ Start(C, l, j) = y - 1
    BY <1>2
  <2> HIDE DEF x, y
  <2> QED
    BY <2>1, <2>2 DEF Apart
<1>11. \A k, l \in Lanes : \A i \in 1 .. Bursts(C, l) : Left(C, k) <= Start(C, l, i)
  <2> SUFFICES ASSUME NEW k \in Lanes, NEW l \in Lanes, NEW i \in 1 .. Bursts(C, l)
               PROVE  Left(C, k) <= Start(C, l, i)
    OBVIOUS
  <2>1. CASE Begins(B, k) = 1 /\ k = l
    BY <1>2, <1>3, <1>5, <2>1
  <2>2. CASE Begins(B, k) = 1 /\ k # l
    BY <1>2, <1>3, <1>6, <2>2
  <2>3. CASE Begins(B, k) = 0
    <3>1. Left(B, k) <= Start(B, l, i + Begins(B, l))
      BY <1>2 DEF Timetable
    <3>2. Start(C, l, i) >= 1
      BY <1>8
    <3> QED
      BY <1>1, <1>2, <1>3, <2>3, <3>1, <3>2
  <2> QED
    BY <1>1, <2>1, <2>2, <2>3
<1>12. \A k, l \in Lanes : k # l => Left(C, k) = 0 \/ Left(C, l) = 0
  <2> SUFFICES ASSUME NEW k \in Lanes, NEW l \in Lanes, k # l
               PROVE  Left(C, k) = 0 \/ Left(C, l) = 0
    OBVIOUS
  <2>1. Left(B, k) = 0 \/ Left(B, l) = 0
    BY DEF Timetable
  <2> QED
    BY <1>1, <1>3, <1>6, <2>1
<1>13. Timetable(C)
  BY <1>8, <1>9, <1>10, <1>11, <1>12 DEF Timetable
<1>14. ASSUME NEW e \in Nat, Over(B, e + 1) PROVE Over(C, e)
  <2>1. ASSUME NEW l \in Lanes PROVE Left(C, l) <= e
    <3>1. Left(B, l) <= e + 1
      BY <1>14 DEF Over
    <3>2. CASE Begins(B, l) = 0
      BY <1>1, <1>3, <3>1, <3>2
    <3>3. CASE Begins(B, l) = 1
      <4>1. Start(B, l, 1) + Burst <= e + 1 /\ Start(B, l, 1) = 1
        BY <1>1, <1>14, <3>3 DEF Over
      <4> QED
        BY <1>3, <3>3, <4>1
    <3> QED
      BY <1>1, <3>2, <3>3
  <2>2. ASSUME NEW l \in Lanes, NEW i \in 1 .. Bursts(C, l) PROVE Start(C, l, i) + Burst <= e
    <3>1. Start(B, l, i + Begins(B, l)) + Burst <= e + 1
      BY <1>2, <1>14 DEF Over
    <3> QED
      BY <1>2, <3>1
  <2> QED
    BY <2>1, <2>2 DEF Over
<1> QED
  BY <1>7, <1>13, <1>14

Joins(B, C, k, v) ==
  /\ \A l \in Lanes : l # k => Bursts(C, l) = Bursts(B, l)
  /\ Bursts(C, k) = Bursts(B, k) + 1 /\ Start(C, k, Bursts(B, k) + 1) = v
  /\ \A l \in Lanes : /\ Left(C, l) = Left(B, l)
                      /\ \A i \in 1 .. Bursts(B, l) : Start(C, l, i) = Start(B, l, i)

(* A burst that begins when all others are over joins them. *)
LEMMA BurstJoins ==
  ASSUME NEW B, NEW C, NEW k \in Lanes, NEW v \in Nat \ {0}, LaneTypes(B), Timetable(B),
         Over(B, v), Joins(B, C, k, v)
  PROVE  /\ LaneTypes(C) /\ Timetable(C)
         /\ \A e \in Nat : v + Burst <= e => Over(C, e)
<1> USE BurstIsLong
<1>1. \A l \in Lanes : /\ Bursts(B, l) \in Nat /\ Left(C, l) = Left(B, l)
                       /\ Left(C, l) \in Nat /\ Left(C, l) <= v
                       /\ \A i \in 1 .. Bursts(B, l) :
                            Start(B, l, i) \in Int /\ Start(B, l, i) + Burst <= v
  BY DEF LaneTypes, Joins, Over
<1>2. \A l \in Lanes :
        /\ Bursts(C, l) \in Nat
        /\ \A i \in 1 .. Bursts(C, l) :
             \/ i \in 1 .. Bursts(B, l) /\ Start(C, l, i) = Start(B, l, i)
             \/ l = k /\ i = Bursts(B, k) + 1 /\ Start(C, l, i) = v
  BY <1>1 DEF Joins
<1>3. LaneTypes(C)
  BY <1>1, <1>2 DEF LaneTypes
<1>4. \A l \in Lanes : \A i \in 1 .. Bursts(C, l) : Start(C, l, i) >= 1
  BY <1>2 DEF Timetable
<1>5. \A l \in Lanes : \A i, j \in 1 .. Bursts(C, l) :
        i < j => Start(C, l, i) + Burst <= Start(C, l, j)
  <2> SUFFICES ASSUME NEW l \in Lanes, NEW i \in 1 .. Bursts(C, l),
                      NEW j \in 1 .. Bursts(C, l), i < j
               PROVE  Start(C, l, i) + Burst <= Start(C, l, j)
    OBVIOUS
  <2>1. i \in 1 .. Bursts(B, l) /\ Start(C, l, i) = Start(B, l, i)
    BY <1>1, <1>2
  <2>2. CASE j \in 1 .. Bursts(B, l) /\ Start(C, l, j) = Start(B, l, j)
    BY <2>1, <2>2 DEF Timetable
  <2>3. CASE Start(C, l, j) = v
    BY <1>1, <2>1, <2>3
  <2> QED
    BY <1>2, <2>2, <2>3
<1>6. \A a, l \in Lanes : a # l => \A i \in 1 .. Bursts(C, a), j \in 1 .. Bursts(C, l) :
                                     Apart(Start(C, a, i), Start(C, l, j))
  <2> SUFFICES ASSUME NEW a \in Lanes, NEW l \in Lanes, a # l, NEW i \in 1 .. Bursts(C, a),
                      NEW j \in 1 .. Bursts(C, l)
               PROVE  Apart(Start(C, a, i), Start(C, l, j))
    OBVIOUS
  <2>1. CASE /\ i \in 1 .. Bursts(B, a) /\ Start(C, a, i) = Start(B, a, i)
             /\ j \in 1 .. Bursts(B, l) /\ Start(C, l, j) = Start(B, l, j)
    BY <2>1 DEF Timetable
  <2>2. CASE /\ i \in 1 .. Bursts(B, a) /\ Start(C, a, i) = Start(B, a, i)
             /\ Start(C, l, j) = v
    BY <1>1, <2>2 DEF Apart
  <2>3. CASE /\ j \in 1 .. Bursts(B, l) /\ Start(C, l, j) = Start(B, l, j)
             /\ Start(C, a, i) = v
    BY <1>1, <2>3 DEF Apart
  <2> QED
    BY <1>2, <2>1, <2>2, <2>3
<1>7. \A a, l \in Lanes : \A i \in 1 .. Bursts(C, l) : Left(C, a) <= Start(C, l, i)
  <2> SUFFICES ASSUME NEW a \in Lanes, NEW l \in Lanes, NEW i \in 1 .. Bursts(C, l)
               PROVE  Left(C, a) <= Start(C, l, i)
    OBVIOUS
  <2>1. CASE i \in 1 .. Bursts(B, l) /\ Start(C, l, i) = Start(B, l, i)
    BY <1>1, <2>1 DEF Timetable
  <2> QED
    BY <1>1, <1>2, <2>1
<1>8. \A a, l \in Lanes : a # l => Left(C, a) = 0 \/ Left(C, l) = 0
  BY <1>1 DEF Timetable
<1>9. ASSUME NEW e \in Nat, v + Burst <= e PROVE Over(C, e)
  <2>1. \A l \in Lanes : Left(C, l) <= e
    BY <1>1, <1>9
  <2>2. \A l \in Lanes : \A i \in 1 .. Bursts(C, l) : Start(C, l, i) + Burst <= e
    <3> SUFFICES ASSUME NEW l \in Lanes, NEW i \in 1 .. Bursts(C, l)
                 PROVE  Start(C, l, i) + Burst <= e
      OBVIOUS
    <3>1. CASE i \in 1 .. Bursts(B, l) /\ Start(C, l, i) = Start(B, l, i)
      BY <1>1, <1>9, <3>1
    <3>2. CASE Start(C, l, i) = v
      BY <1>9, <3>2
    <3> QED
      BY <1>2, <3>1, <3>2
  <2> QED
    BY <2>1, <2>2 DEF Over
<1>10. Timetable(C)
  BY <1>4, <1>5, <1>6, <1>7, <1>8 DEF Timetable
<1> QED
  BY <1>3, <1>9, <1>10

(* A later time is no earlier. *)
LEMMA OverLater ==
  ASSUME NEW B, LaneTypes(B), NEW e \in Int, NEW f \in Int, e <= f, Over(B, e)
  PROVE  Over(B, f)
BY BurstIsLong DEF LaneTypes, Over

(* What waits comes a cycle nearer, and the first goes when it is due. *)
Due(v) == IF Len(v) >= 1 /\ v[1].in = 1 THEN 1 ELSE 0
Nearer(v) == [i \in DOMAIN v |-> [v[i] EXCEPT !.in = @ - 1]]

Moved(v, w) ==
  /\ w \in Seq(Waiting) /\ Len(w) = Len(v) - Due(v)
  /\ \A i \in 1 .. Len(w) : w[i].in = v[i + Due(v)].in - 1

(* A cycle passes for the bursts that wait. *)
LEMMA WaitingMoves ==
  ASSUME NEW v \in Seq(Waiting)
  PROVE  LET w == Nearer(v)
         IN  /\ (w # <<>> /\ Head(w).in = 0) <=> Due(v) = 1
             /\ Due(v) = 0 => Moved(v, w)
             /\ Due(v) = 1 => /\ Moved(v, Tail(w))
                              /\ Head(w).p # NoPacket /\ Head(w).p.type = "DATA"
<1> DEFINE w == Nearer(v)
           n == Len(v)
<1>1. /\ n \in Nat /\ DOMAIN v = 1 .. n
      /\ \A i \in 1 .. n : /\ v[i] \in Waiting /\ v[i].in \in Int /\ v[i].p \in DataPackets
                           /\ w[i] = [v[i] EXCEPT !.in = @ - 1]
  <2>1. n \in Nat /\ DOMAIN v = 1 .. n /\ \A i \in 1 .. n : v[i] \in Waiting
    OBVIOUS
  <2> QED
    BY <2>1 DEF Waiting, Nearer
<1>2. \A i \in 1 .. n : /\ w[i] \in Waiting /\ w[i].in = v[i].in - 1 /\ w[i].p = v[i].p
  <2> SUFFICES ASSUME NEW i \in 1 .. n
               PROVE  w[i] \in Waiting /\ w[i].in = v[i].in - 1 /\ w[i].p = v[i].p
    OBVIOUS
  <2>1. v[i] = [p |-> v[i].p, in |-> v[i].in] /\ v[i].in \in Int /\ v[i].p \in DataPackets
    BY <1>1 DEF Waiting
  <2>2. w[i] = [p |-> v[i].p, in |-> v[i].in - 1]
    BY <1>1, <2>1
  <2> QED
    BY <2>1, <2>2 DEF Waiting
<1>3. w \in Seq(Waiting) /\ Len(w) = n
  <2>1. w = [i \in 1 .. n |-> w[i]]
    BY <1>1 DEF Nearer
  <2> HIDE DEF w
  <2> QED
    BY <1>1, <1>2, <2>1
<1> HIDE DEF w, n
<1>4. (w # <<>> /\ Head(w).in = 0) <=> (n >= 1 /\ v[1].in = 1)
  BY <1>1, <1>2, <1>3
<1>5. \A p \in DataPackets : p.type = "DATA" /\ p # NoPacket
  BY DEF DataPackets, Commands, To, Packet, NoPacket
<1>6. Due(v) = IF n >= 1 /\ v[1].in = 1 THEN 1 ELSE 0
  BY DEF Due, n
<1>7. ASSUME Due(v) = 0 PROVE Moved(v, w)
  BY <1>1, <1>2, <1>3, <1>7 DEF Moved, n
<1>8. ASSUME Due(v) = 1
      PROVE  Moved(v, Tail(w)) /\ Head(w).p # NoPacket /\ Head(w).p.type = "DATA"
  <2>1. n >= 1 /\ w # <<>>
    BY <1>3, <1>6, <1>8
  <2>2. /\ Tail(w) \in Seq(Waiting) /\ Len(Tail(w)) = n - 1
        /\ \A i \in 1 .. (n - 1) : Tail(w)[i] = w[i + 1]
    BY <1>1, <1>3, <2>1
  <2>3. Moved(v, Tail(w))
    BY <1>1, <1>2, <1>8, <2>2 DEF Moved, n
  <2>4. Head(w) = w[1] /\ w[1].p \in DataPackets
    BY <1>1, <1>2, <1>3, <2>1
  <2> QED
    BY <1>5, <2>3, <2>4
<1> QED
  BY <1>4, <1>6, <1>7, <1>8 DEF w

(* Rank::update *)
LEMMA RankMoves ==
  ASSUME NEW k, RankTypes(k)
  PROVE  /\ RankTypes(RankUpdate(k)) /\ Moved(k.returning, RankUpdate(k).returning)
         /\ RankUpdate(k).left = IF Due(k.returning) = 1 THEN Burst ELSE Down(k.left)
<1> USE BurstIsLong
<1> DEFINE v == k.returning
           w == Nearer(v)
           kept == [k EXCEPT !.out = IF k.left = 1 THEN NoPacket ELSE @, !.left = Down(@),
                             !.returning = w]
           n == RankUpdate(k)
<1>1. n = IF w # <<>> /\ Head(w).in = 0
          THEN [kept EXCEPT !.out = Head(w).p, !.left = Burst, !.returning = Tail(w)]
          ELSE kept
  BY DEF RankUpdate, Nearer
<1>2. /\ DOMAIN k = RankFields /\ v \in Seq(Waiting) /\ k.left \in Nat
      /\ k.out = NoPacket <=> k.left = 0
  BY DEF RankTypes
<1>3. /\ (w # <<>> /\ Head(w).in = 0) <=> Due(v) = 1
      /\ Due(v) = 0 => Moved(v, w)
      /\ Due(v) = 1 => /\ Moved(v, Tail(w))
                       /\ Head(w).p # NoPacket /\ Head(w).p.type = "DATA"
  BY <1>2, WaitingMoves
<1>4. /\ DOMAIN kept = RankFields /\ kept.returning = w /\ kept.left = Down(k.left)
      /\ kept.out = IF k.left = 1 THEN NoPacket ELSE k.out
  BY <1>2 DEF RankFields
<1> HIDE DEF w, kept, n
<1>5. Due(v) = 0 \/ Due(v) = 1
  BY DEF Due
<1>6. CASE Due(v) = 1
  <2>1. /\ DOMAIN n = RankFields /\ n.returning = Tail(w) /\ n.left = Burst
        /\ n.out = Head(w).p
    BY <1>1, <1>3, <1>4, <1>6 DEF RankFields
  <2>2. Tail(w) \in Seq(Waiting)
    BY <1>3, <1>6 DEF Moved
  <2> QED
    BY <1>3, <1>6, <2>1, <2>2 DEF RankTypes, n
<1>7. CASE Due(v) = 0
  <2>1. n = kept
    BY <1>1, <1>3, <1>7
  <2>2. w \in Seq(Waiting)
    BY <1>3, <1>7 DEF Moved
  <2>3. kept.left \in Nat /\ (kept.out = NoPacket <=> kept.left = 0)
    BY <1>2, <1>4 DEF Down
  <2>4. RankTypes(n)
    BY <1>4, <2>1, <2>2, <2>3 DEF RankTypes
  <2> QED
    BY <1>3, <1>4, <1>7, <2>1, <2>4 DEF n
<1> QED
  BY <1>5, <1>6, <1>7

(* Rank::receiveFromBus: a read will have its burst. *)
LEMMA RankReceives ==
  ASSUME NEW k, RankTypes(k), NEW p
  PROVE  LET n == Receive(k, p)
         IN  /\ DOMAIN n = RankFields /\ n.out = k.out /\ n.left = k.left
             /\ ~IsRead(p) => n.returning = k.returning /\ RankTypes(n)
             /\ IsRead(p) /\ p \in Commands =>
                  /\ RankTypes(n) /\ Len(n.returning) = Len(k.returning) + 1
                  /\ n.returning[Len(k.returning) + 1].in = RL
                  /\ \A i \in 1 .. Len(k.returning) : n.returning[i] = k.returning[i]
<1> DEFINE n == Receive(k, p)
<1>1. DOMAIN k = RankFields
  BY DEF RankTypes
<1>2. /\ DOMAIN n = RankFields /\ n.out = k.out /\ n.left = k.left
      /\ n.returning = IF IsRead(p) THEN Returning(k, p) ELSE k.returning
  <2>1. CASE p.type = "READ"
    BY <1>1, <2>1 DEF Receive, IsRead, RankFields
  <2>2. CASE p.type = "READ_P"
    BY <1>1, <2>2 DEF Receive, IsRead, RankFields
  <2>3. CASE p.type = "WRITE"
    BY <1>1, <2>3 DEF Receive, IsRead, RankFields
  <2>4. CASE p.type = "WRITE_P"
    BY <1>1, <2>4 DEF Receive, IsRead, RankFields
  <2>5. CASE p.type = "ACTIVATE"
    BY <1>1, <2>5 DEF Receive, IsRead, RankFields
  <2>6. CASE p.type = "PRECHARGE"
    BY <1>1, <2>6 DEF Receive, IsRead, RankFields
  <2>7. CASE p.type = "REFRESH"
    BY <1>1, <2>7 DEF Receive, IsRead, RankFields
  <2>8. CASE p.type \notin {"READ", "READ_P", "WRITE", "WRITE_P", "ACTIVATE", "PRECHARGE",
                            "REFRESH"}
    BY <1>1, <2>8 DEF Receive, IsRead, RankFields
  <2> QED
    BY <2>1, <2>2, <2>3, <2>4, <2>5, <2>6, <2>7, <2>8
<1> HIDE DEF n
<1>3. ASSUME ~IsRead(p) PROVE n.returning = k.returning /\ RankTypes(n)
  BY <1>2, <1>3 DEF RankTypes
<1>4. ASSUME IsRead(p), p \in Commands
      PROVE  /\ RankTypes(n) /\ Len(n.returning) = Len(k.returning) + 1
             /\ n.returning[Len(k.returning) + 1].in = RL
             /\ \A i \in 1 .. Len(k.returning) : n.returning[i] = k.returning[i]
  <2> DEFINE w == [p |-> [p EXCEPT !.type = "DATA"], in |-> RL]
  <2>1. w \in Waiting /\ w.in = RL
    BY <1>4, Delays DEF Waiting, DataPackets
  <2>2. k.returning \in Seq(Waiting)
    BY DEF RankTypes
  <2>3. n.returning = Append(k.returning, w)
    BY <1>2, <1>4 DEF Returning
  <2> HIDE DEF w
  <2>4. n.returning \in Seq(Waiting)
    BY <2>1, <2>2, <2>3
  <2>5. /\ Len(n.returning) = Len(k.returning) + 1
        /\ n.returning[Len(k.returning) + 1] = w
        /\ \A i \in 1 .. Len(k.returning) : n.returning[i] = k.returning[i]
    BY <2>1, <2>2, <2>3
  <2> QED
    BY <1>2, <2>1, <2>4, <2>5 DEF RankTypes
<1> QED
  BY <1>2, <1>3, <1>4 DEF n

(* The lanes, read off the queues. *)
Asked(s, r) == IsRead(s.cmd.p) /\ s.cmd.p.rank = r

RankLane(s, B, r) ==
  LET v == s.ranks[r].returning
  IN  /\ Left(B, r) = s.ranks[r].left
      /\ \A i \in 1 .. Len(v) : Start(B, r, i) = v[i].in
      /\ Asked(s, r) => Bursts(B, r) = Len(v) + 1 /\ Start(B, r, Len(v) + 1) = RL + 1
      /\ ~Asked(s, r) => Bursts(B, r) = Len(v)

WriteLane(s, B) ==
  /\ Left(B, NoRank) = s.data.left /\ Bursts(B, NoRank) = Len(s.writes)
  /\ \A i \in 1 .. Len(s.writes) : Start(B, NoRank, i) = s.writes[i].in

(* The controller is not a rank. *)
LEMMA NoRankIsNone == NoRank \notin Ranks /\ NoRank \in Lanes /\ Ranks \subseteq Lanes
BY TimingAssumption DEF NoRank, Ranks, Lanes

(* The cycles in which bursts begin. *)
LEMMA InsAre ==
  ASSUME NEW v \in Seq(Waiting)
  PROVE  /\ Ins(v) \in Seq(Int) /\ Len(Ins(v)) = Len(v) /\ Len(v) \in Nat
         /\ \A i \in 1 .. Len(v) : Ins(v)[i] = v[i].in /\ v[i].in \in Int
<1>1. Len(v) \in Nat /\ \A i \in 1 .. Len(v) : v[i] \in Waiting
  OBVIOUS
<1>2. \A i \in 1 .. Len(v) : v[i].in \in Int
  BY <1>1 DEF Waiting
<1> QED
  BY <1>1, <1>2 DEF Ins

(* What the lanes are made of. *)
LEMMA LanesAre ==
  ASSUME NEW s, BusTypes(s)
  PROVE  /\ WriteLane(s, Schedule(s)) /\ \A r \in Ranks : RankLane(s, Schedule(s), r)
         /\ LaneTypes(Schedule(s))
<1> DEFINE B == Schedule(s)
<1>1. ASSUME NEW r \in Ranks
      PROVE  /\ RankLane(s, B, r)
             /\ Bursts(B, r) \in Nat /\ Left(B, r) \in Nat
             /\ \A i \in 1 .. Bursts(B, r) : Start(B, r, i) \in Int
  <2> DEFINE v == s.ranks[r].returning
  <2>1. v \in Seq(Waiting) /\ s.ranks[r].left \in Nat
    BY DEF BusTypes, RankTypes
  <2>2. /\ B[r].q = IF Asked(s, r) THEN Append(Ins(v), RL + 1) ELSE Ins(v)
        /\ B[r].left = s.ranks[r].left
    BY NoRankIsNone DEF Schedule, Lane, Asked
  <2> HIDE DEF B, v
  <2>3. /\ Ins(v) \in Seq(Int) /\ Len(Ins(v)) = Len(v) /\ Len(v) \in Nat
        /\ \A i \in 1 .. Len(v) : Ins(v)[i] = v[i].in /\ v[i].in \in Int
    BY <2>1, InsAre
  <2>4. RL + 1 \in Int
    BY Delays
  <2>5. CASE Asked(s, r)
    <3> DEFINE w == Append(Ins(v), RL + 1)
    <3>1. /\ Len(w) = Len(v) + 1 /\ w[Len(v) + 1] = RL + 1
          /\ \A i \in 1 .. Len(v) : w[i] = Ins(v)[i]
      BY <2>3, <2>4
    <3>2. B[r].q = w
      BY <2>2, <2>5
    <3> HIDE DEF w
    <3>3. RankLane(s, B, r)
      BY <2>2, <2>3, <2>5, <3>1, <3>2 DEF RankLane, Left, Start, Bursts, v
    <3>4. /\ Bursts(B, r) \in Nat /\ Left(B, r) \in Nat
          /\ \A i \in 1 .. Bursts(B, r) : Start(B, r, i) \in Int
      BY <2>1, <2>2, <2>3, <2>4, <3>1, <3>2 DEF Left, Start, Bursts
    <3> QED
      BY <3>3, <3>4
  <2>6. CASE ~Asked(s, r)
    <3>1. RankLane(s, B, r)
      BY <2>2, <2>3, <2>6 DEF RankLane, Left, Start, Bursts, v
    <3>2. /\ Bursts(B, r) \in Nat /\ Left(B, r) \in Nat
          /\ \A i \in 1 .. Bursts(B, r) : Start(B, r, i) \in Int
      BY <2>1, <2>2, <2>3, <2>6 DEF Left, Start, Bursts
    <3> QED
      BY <3>1, <3>2
  <2> QED
    BY <2>5, <2>6
<1>2. /\ WriteLane(s, B)
      /\ Bursts(B, NoRank) \in Nat /\ Left(B, NoRank) \in Nat
      /\ \A i \in 1 .. Bursts(B, NoRank) : Start(B, NoRank, i) \in Int
  <2>1. s.writes \in Seq(Waiting) /\ s.data.left \in Nat
    BY DEF BusTypes, WriteTypes
  <2>2. B[NoRank].q = Ins(s.writes) /\ B[NoRank].left = s.data.left
    BY NoRankIsNone DEF Schedule, Lane
  <2> HIDE DEF B
  <2>3. /\ Ins(s.writes) \in Seq(Int) /\ Len(Ins(s.writes)) = Len(s.writes)
        /\ Len(s.writes) \in Nat
        /\ \A i \in 1 .. Len(s.writes) : /\ Ins(s.writes)[i] = s.writes[i].in
                                         /\ s.writes[i].in \in Int
    BY <2>1, InsAre
  <2> QED
    BY <2>1, <2>2, <2>3 DEF WriteLane, Left, Start, Bursts
<1> QED
  BY <1>1, <1>2 DEF LaneTypes, Lanes

(* The buses of a cycle, step by step. *)
BusFields == {"ranks", "cmd", "data", "writes"}

(* A packet reaches its rank; the data bus holds the data of writes only. *)
LEMMA CommandArrives ==
  ASSUME NEW s, DOMAIN s = Fields, BusTypes(s), NEW d, d = DeliverCommand(s)
  PROVE  /\ BusTypes(d) /\ d.cmd.p = NoPacket /\ d.data = s.data /\ d.writes = s.writes
         /\ DOMAIN d = Fields /\ d.bank = s.bank
         /\ \A r \in Ranks :
              LET v == s.ranks[r].returning
                  w == d.ranks[r].returning
              IN  /\ d.ranks[r].left = s.ranks[r].left
                  /\ \A i \in 1 .. Len(v) : w[i] = v[i]
                  /\ Asked(s, r) => Len(w) = Len(v) + 1 /\ w[Len(v) + 1].in = RL
                  /\ ~Asked(s, r) => Len(w) = Len(v)
<1> DEFINE p == s.cmd.p
<1>1. /\ DOMAIN s.ranks = Ranks /\ \A r \in Ranks : RankTypes(s.ranks[r])
      /\ WriteTypes(s) /\ CommandTypes(s)
  BY DEF BusTypes
<1>2. /\ DOMAIN d = Fields /\ d.data = s.data /\ d.writes = s.writes /\ d.bank = s.bank
  BY DEF DeliverCommand, Fields
<1>3. WriteTypes(d)
  BY <1>1, <1>2 DEF WriteTypes
<1>4. ~IsRead(NoPacket)
  BY DEF IsRead, NoPacket
<1>5. CASE p = NoPacket
  <2>1. d.ranks = s.ranks /\ d.cmd = [s.cmd EXCEPT !.left = Down(@)]
    BY <1>5 DEF DeliverCommand, Fields
  <2>2. DOMAIN d.cmd = {"p", "left"} /\ d.cmd.p = NoPacket
    BY <1>1, <1>5, <2>1 DEF CommandTypes
  <2>3. BusTypes(d)
    BY <1>1, <1>3, <1>4, <2>1, <2>2 DEF BusTypes, CommandTypes
  <2>4. \A r \in Ranks : ~Asked(s, r)
    BY <1>4, <1>5 DEF Asked
  <2> QED
    BY <1>2, <2>1, <2>2, <2>3, <2>4
<1>6. CASE p # NoPacket
  <2>1. ~(s.cmd.left > 1)
    BY <1>1, <1>6 DEF CommandTypes
  <2>2. /\ d.cmd = [p |-> NoPacket, left |-> 0]
        /\ d.ranks = [s.ranks EXCEPT ![p.rank] = Receive(@, p)]
    BY <1>6, <2>1 DEF DeliverCommand, Fields
  <2>3. /\ DOMAIN d.ranks = Ranks
        /\ \A r \in Ranks : d.ranks[r] = IF r = p.rank THEN Receive(s.ranks[r], p)
                                         ELSE s.ranks[r]
    BY <1>1, <2>2
  <2>4. CommandTypes(d) /\ d.cmd.p = NoPacket
    BY <1>4, <2>2 DEF CommandTypes
  <2>5. IsRead(p) => p \in Commands
    BY <1>1 DEF CommandTypes
  <2> HIDE DEF p
  <2>6. ASSUME NEW r \in Ranks
        PROVE  LET v == s.ranks[r].returning
                   w == d.ranks[r].returning
               IN  /\ RankTypes(d.ranks[r])
                   /\ d.ranks[r].left = s.ranks[r].left
                   /\ \A i \in 1 .. Len(v) : w[i] = v[i]
                   /\ Asked(s, r) => Len(w) = Len(v) + 1 /\ w[Len(v) + 1].in = RL
                   /\ ~Asked(s, r) => Len(w) = Len(v)
    <3>1. RankTypes(s.ranks[r])
      BY <1>1
    <3>2. Asked(s, r) <=> IsRead(p) /\ r = p.rank
      BY DEF Asked, p
    <3>3. CASE r # p.rank
      BY <2>3, <3>1, <3>2, <3>3
    <3>4. CASE r = p.rank
      <4>1. d.ranks[r] = Receive(s.ranks[r], p)
        BY <2>3, <3>4
      <4>2. LET n == Receive(s.ranks[r], p)
                k == s.ranks[r]
            IN  /\ DOMAIN n = RankFields /\ n.out = k.out /\ n.left = k.left
                /\ ~IsRead(p) => n.returning = k.returning /\ RankTypes(n)
                /\ IsRead(p) /\ p \in Commands =>
                     /\ RankTypes(n) /\ Len(n.returning) = Len(k.returning) + 1
                     /\ n.returning[Len(k.returning) + 1].in = RL
                     /\ \A i \in 1 .. Len(k.returning) : n.returning[i] = k.returning[i]
        BY <3>1, RankReceives
      <4>3. CASE IsRead(p)
        BY <2>5, <3>2, <3>4, <4>1, <4>2, <4>3
      <4>4. CASE ~IsRead(p)
        BY <3>2, <3>4, <4>1, <4>2, <4>4
      <4> QED
        BY <4>3, <4>4
    <3> QED
      BY <3>3, <3>4
  <2> QED
    BY <1>2, <1>3, <2>3, <2>4, <2>6 DEF BusTypes
<1> QED
  BY <1>5, <1>6

(* The end of a burst of the controller, and the beginning of its next.  *)
LEMMA DataArrive ==
  ASSUME NEW s, DOMAIN s = Fields, BusTypes(s), NEW d, d = DeliverData(s)
  PROVE  /\ DOMAIN d = Fields /\ d.bank = s.bank /\ d.cmd = s.cmd /\ d.writes = s.writes
         /\ d.data.left = Down(s.data.left) /\ BusTypes(d)
         /\ \A r \in Ranks : d.ranks[r] = s.ranks[r]
<1> DEFINE p == s.data.p
<1>1. /\ DOMAIN s.ranks = Ranks /\ \A r \in Ranks : RankTypes(s.ranks[r])
      /\ WriteTypes(s) /\ CommandTypes(s)
  BY DEF BusTypes
<1>2. DOMAIN d = Fields /\ d.cmd = s.cmd /\ d.writes = s.writes /\ d.bank = s.bank
  BY DEF DeliverData, Fields
<1>3. CASE p = NoPacket \/ s.data.left > 1
  <2>1. d.ranks = s.ranks /\ d.data = [s.data EXCEPT !.left = Down(@)]
    BY <1>3 DEF DeliverData, Fields
  <2>2. /\ DOMAIN d.data = {"p", "left"} /\ d.data.p = p /\ d.data.left = Down(s.data.left)
    BY <1>1, <2>1 DEF WriteTypes
  <2>3. s.data.left \in Nat /\ (p = NoPacket <=> s.data.left = 0)
    BY <1>1 DEF WriteTypes
  <2>4. d.data.left \in Nat /\ (d.data.p = NoPacket <=> d.data.left = 0)
    BY <1>3, <2>2, <2>3 DEF Down
  <2>5. WriteTypes(d)
    BY <1>1, <1>2, <2>2, <2>4 DEF WriteTypes
  <2>6. CommandTypes(d)
    BY <1>1, <1>2 DEF CommandTypes
  <2> QED
    BY <1>1, <1>2, <2>1, <2>2, <2>5, <2>6 DEF BusTypes
<1>4. CASE ~(p = NoPacket \/ s.data.left > 1)
  <2>1. /\ d.data = [p |-> NoPacket, left |-> 0]
        /\ d.ranks = [s.ranks EXCEPT ![p.rank] = Receive(@, p)]
    BY <1>4 DEF DeliverData, Fields
  <2>2. p.type = "DATA" /\ s.data.left \in Nat /\ ~(s.data.left > 1)
    BY <1>1, <1>4 DEF WriteTypes
  <2>3. \A k : Receive(k, p) = k
    BY <2>2 DEF Receive
  <2>4. DOMAIN d.ranks = Ranks /\ \A r \in Ranks : d.ranks[r] = s.ranks[r]
    BY <1>1, <2>1, <2>3
  <2>5. WriteTypes(d)
    BY <1>1, <1>2, <2>1 DEF WriteTypes
  <2>6. CommandTypes(d)
    BY <1>1, <1>2 DEF CommandTypes
  <2>7. d.data.left = Down(s.data.left)
    BY <2>1, <2>2 DEF Down
  <2> QED
    BY <1>1, <1>2, <2>4, <2>5, <2>6, <2>7 DEF BusTypes
<1> QED
  BY <1>3, <1>4

(* The write burst whose time has come goes on the bus. *)
LEMMA WriteBegins ==
  ASSUME NEW s, DOMAIN s = Fields, BusTypes(s), NEW d, d = SendWriteData(s)
  PROVE  /\ DOMAIN d = Fields /\ d.bank = s.bank /\ d.cmd = s.cmd /\ d.ranks = s.ranks
         /\ Moved(s.writes, d.writes) /\ BusTypes(d)
         /\ d.data.left = IF Due(s.writes) = 1 THEN Burst ELSE s.data.left
<1> USE BurstIsLong
<1> DEFINE v == s.writes
           w == Nearer(v)
<1>1. /\ DOMAIN s.ranks = Ranks /\ \A r \in Ranks : RankTypes(s.ranks[r])
      /\ WriteTypes(s) /\ CommandTypes(s)
  BY DEF BusTypes
<1>2. v \in Seq(Waiting)
  BY <1>1 DEF WriteTypes
<1>3. /\ (w # <<>> /\ Head(w).in = 0) <=> Due(v) = 1
      /\ Due(v) = 0 => Moved(v, w)
      /\ Due(v) = 1 => /\ Moved(v, Tail(w))
                       /\ Head(w).p # NoPacket /\ Head(w).p.type = "DATA"
  BY <1>2, WaitingMoves
<1>4. d = IF w = <<>> \/ Head(w).in # 0 THEN [s EXCEPT !.writes = w]
          ELSE [s EXCEPT !.writes = Tail(w), !.error = @ \/ s.data.p # NoPacket,
                         !.data = [p |-> Head(w).p, left |-> Burst]]
  BY DEF SendWriteData, Nearer
<1> HIDE DEF w
<1>5. DOMAIN d = Fields /\ d.cmd = s.cmd /\ d.ranks = s.ranks /\ d.bank = s.bank
  BY <1>4 DEF Fields
<1>6. CommandTypes(d)
  BY <1>1, <1>5 DEF CommandTypes
<1>7. Due(v) = 0 \/ Due(v) = 1
  BY DEF Due
<1>8. CASE Due(v) = 1
  <2>1. d.writes = Tail(w) /\ d.data = [p |-> Head(w).p, left |-> Burst]
    BY <1>3, <1>4, <1>8 DEF Fields
  <2>2. d.writes \in Seq(Waiting)
    BY <1>3, <1>8, <2>1 DEF Moved
  <2>3. WriteTypes(d)
    BY <1>3, <1>8, <2>1, <2>2 DEF WriteTypes
  <2> QED
    BY <1>1, <1>3, <1>5, <1>6, <1>8, <2>1, <2>3 DEF BusTypes
<1>9. CASE Due(v) = 0
  <2>1. d.writes = w /\ d.data = s.data
    BY <1>3, <1>4, <1>9 DEF Fields
  <2>2. d.writes \in Seq(Waiting)
    BY <1>3, <1>9, <2>1 DEF Moved
  <2>3. WriteTypes(d)
    BY <1>1, <2>1, <2>2 DEF WriteTypes
  <2> QED
    BY <1>1, <1>3, <1>5, <1>6, <1>9, <2>1, <2>3 DEF BusTypes
<1> QED
  BY <1>7, <1>8, <1>9

(* The buses do not change. *)
SameBuses(s, d) ==
  /\ d.cmd = s.cmd /\ d.data = s.data /\ d.writes = s.writes
  /\ DOMAIN d.ranks = Ranks
  /\ \A r \in Ranks : /\ DOMAIN d.ranks[r] = RankFields
                      /\ d.ranks[r].returning = s.ranks[r].returning
                      /\ d.ranks[r].out = s.ranks[r].out /\ d.ranks[r].left = s.ranks[r].left

(* Buses that are the same have the same schedule. *)
LEMMA BusesOfSame ==
  ASSUME NEW s, BusTypes(s), NEW d, SameBuses(s, d)
  PROVE  BusTypes(d) /\ Schedule(d) = Schedule(s)
<1>1. \A l \in Lanes : Lane(d, l) = Lane(s, l)
  BY DEF SameBuses, Lane, Lanes
<1>2. \A r \in Ranks : RankTypes(d.ranks[r])
  BY DEF SameBuses, BusTypes, RankTypes
<1>3. WriteTypes(d) /\ CommandTypes(d)
  BY DEF SameBuses, BusTypes, WriteTypes, CommandTypes
<1> QED
  BY <1>1, <1>2, <1>3 DEF BusTypes, SameBuses, Schedule

(* The ranks move, the rest of the buses does not. *)
LEMMA RanksMove ==
  ASSUME NEW s, DOMAIN s = Fields, BusTypes(s), NEW d,
         d = UpdateBanks(AdmitExtra(UpdateRanks(s)))
  PROVE  /\ DOMAIN d = Fields /\ BusTypes(d)
         /\ d.cmd = s.cmd /\ d.data = s.data /\ d.writes = s.writes
         /\ d.bank = [r \in Ranks |-> [b \in Banks |-> UpdateBank(s.bank[r][b])]]
         /\ \A r \in Ranks : d.ranks[r] = RankUpdate(s.ranks[r])
<1> DEFINE a == UpdateRanks(s)
           c == AdmitExtra(a)
<1>1. /\ DOMAIN a = Fields /\ a.cmd = s.cmd /\ a.data = s.data /\ a.writes = s.writes
      /\ a.bank = s.bank /\ a.ranks = [r \in Ranks |-> RankUpdate(s.ranks[r])]
  BY DEF UpdateRanks, Fields
<1> HIDE DEF a
<1>2. /\ DOMAIN c = Fields /\ c.cmd = s.cmd /\ c.data = s.data /\ c.writes = s.writes
      /\ c.bank = s.bank /\ c.ranks = [r \in Ranks |-> RankUpdate(s.ranks[r])]
  BY <1>1 DEF AdmitExtra, Fields
<1>3. d = UpdateBanks(c)
  BY DEF a
<1> HIDE DEF c
<1>4. /\ DOMAIN d = Fields /\ d.cmd = s.cmd /\ d.data = s.data /\ d.writes = s.writes
      /\ d.bank = [r \in Ranks |-> [b \in Banks |-> UpdateBank(s.bank[r][b])]]
      /\ d.ranks = [r \in Ranks |-> RankUpdate(s.ranks[r])]
  BY <1>2, <1>3 DEF UpdateBanks, Fields
<1>5. \A r \in Ranks : RankTypes(s.ranks[r])
  BY DEF BusTypes
<1>6. \A r \in Ranks : RankTypes(d.ranks[r])
  BY <1>4, <1>5, RankMoves
<1>7. WriteTypes(d) /\ CommandTypes(d)
  BY <1>4 DEF BusTypes, WriteTypes, CommandTypes
<1> QED
  BY <1>4, <1>6, <1>7 DEF BusTypes

Buses(s) == SendWriteData(DeliverData(DeliverCommand(UpdateBanks(AdmitExtra(UpdateRanks(s))))))

(* On every lane a cycle passes. *)
LEMMA BusesMove ==
  ASSUME NEW s, DOMAIN s = Fields, BusTypes(s), NEW d, d = Buses(s)
  PROVE  /\ DOMAIN d = Fields /\ BusTypes(d) /\ d.cmd.p = NoPacket
         /\ d.bank = [r \in Ranks |-> [b \in Banks |-> UpdateBank(s.bank[r][b])]]
         /\ \A l \in Lanes : LaneStep(Schedule(s), Schedule(d), l)
<1> DEFINE a == UpdateBanks(AdmitExtra(UpdateRanks(s)))
           b == DeliverCommand(a)
           c == DeliverData(b)
           B == Schedule(s)
           C == Schedule(d)
<1>1. /\ DOMAIN a = Fields /\ BusTypes(a)
      /\ a.cmd = s.cmd /\ a.data = s.data /\ a.writes = s.writes
      /\ a.bank = [r \in Ranks |-> [x \in Banks |-> UpdateBank(s.bank[r][x])]]
      /\ \A r \in Ranks : a.ranks[r] = RankUpdate(s.ranks[r])
  BY RanksMove
<1> HIDE DEF a
<1>2. /\ BusTypes(b) /\ b.cmd.p = NoPacket /\ b.data = a.data /\ b.writes = a.writes
      /\ DOMAIN b = Fields /\ b.bank = a.bank
      /\ \A r \in Ranks :
           LET v == a.ranks[r].returning
               w == b.ranks[r].returning
           IN  /\ b.ranks[r].left = a.ranks[r].left
               /\ \A i \in 1 .. Len(v) : w[i] = v[i]
               /\ Asked(a, r) => Len(w) = Len(v) + 1 /\ w[Len(v) + 1].in = RL
               /\ ~Asked(a, r) => Len(w) = Len(v)
  BY <1>1, CommandArrives, SMTT(30)
<1> HIDE DEF b
<1>3. /\ DOMAIN c = Fields /\ c.bank = b.bank /\ c.cmd = b.cmd /\ c.writes = b.writes
      /\ c.data.left = Down(b.data.left) /\ BusTypes(c)
      /\ \A r \in Ranks : c.ranks[r] = b.ranks[r]
  BY <1>2, DataArrive
<1>4. d = SendWriteData(c)
  BY DEF a, b, c, Buses
<1> HIDE DEF c
<1>5. /\ DOMAIN d = Fields /\ d.bank = c.bank /\ d.cmd = c.cmd /\ d.ranks = c.ranks
      /\ Moved(c.writes, d.writes) /\ BusTypes(d)
      /\ d.data.left = IF Due(c.writes) = 1 THEN Burst ELSE c.data.left
  BY <1>3, <1>4, WriteBegins
<1>6. /\ WriteLane(s, B) /\ (\A r \in Ranks : RankLane(s, B, r)) /\ LaneTypes(B)
      /\ WriteLane(d, C) /\ (\A r \in Ranks : RankLane(d, C, r)) /\ LaneTypes(C)
  BY <1>5, LanesAre
<1> HIDE DEF B, C
<1>7. LaneStep(B, C, NoRank)
  <2> DEFINE v == s.writes
             w == d.writes
  <2>1. /\ Moved(v, w) /\ d.data.left = IF Due(v) = 1 THEN Burst ELSE Down(s.data.left)
    BY <1>1, <1>2, <1>3, <1>5
  <2>2. /\ Left(B, NoRank) = s.data.left /\ Bursts(B, NoRank) = Len(v)
        /\ \A i \in 1 .. Len(v) : Start(B, NoRank, i) = v[i].in
        /\ Left(C, NoRank) = d.data.left /\ Bursts(C, NoRank) = Len(w)
        /\ \A i \in 1 .. Len(w) : Start(C, NoRank, i) = w[i].in
    BY <1>6 DEF WriteLane
  <2>3. Len(v) \in Nat /\ Len(w) \in Nat
    <3>1. v \in Seq(Waiting) /\ w \in Seq(Waiting)
      BY <2>1 DEF BusTypes, WriteTypes, Moved
    <3>2. \A x \in Seq(Waiting) : Len(x) \in Nat
      OBVIOUS
    <3> HIDE DEF v, w
    <3> QED
      BY <3>1, <3>2
  <2> HIDE DEF v, w
  <2>4. Begins(B, NoRank) = Due(v)
    BY <2>2, <2>3 DEF Begins, Due
  <2>5. Due(v) \in {0, 1} /\ Len(w) = Len(v) - Due(v)
    BY <2>1 DEF Due, Moved
  <2>6. \A i \in 1 .. Len(w) : /\ i + Due(v) \in 1 .. Len(v)
                               /\ w[i].in = v[i + Due(v)].in - 1
    BY <2>1, <2>3, <2>5 DEF Moved
  <2> QED
    BY <2>1, <2>2, <2>4, <2>5, <2>6 DEF LaneStep
<1>8. ASSUME NEW r \in Ranks PROVE LaneStep(B, C, r)
  <2> DEFINE v == s.ranks[r].returning
             u == a.ranks[r].returning
             w == d.ranks[r].returning
  <2>1. RankTypes(s.ranks[r]) /\ RankTypes(a.ranks[r]) /\ RankTypes(d.ranks[r])
    BY <1>1, <1>5 DEF BusTypes
  <2>2. Moved(v, u) /\ a.ranks[r].left = IF Due(v) = 1 THEN Burst ELSE Down(s.ranks[r].left)
    BY <1>1, <2>1, RankMoves
  <2>3. d.ranks[r] = b.ranks[r]
    BY <1>3, <1>5
  <2>4. Asked(a, r) <=> Asked(s, r)
    BY <1>1 DEF Asked
  <2>5. /\ d.ranks[r].left = a.ranks[r].left
        /\ \A i \in 1 .. Len(u) : w[i] = u[i]
        /\ Asked(s, r) => Len(w) = Len(u) + 1 /\ w[Len(u) + 1].in = RL
        /\ ~Asked(s, r) => Len(w) = Len(u)
    BY <1>2, <2>3, <2>4
  <2>6. ~Asked(d, r)
    BY <1>2, <1>3, <1>5 DEF Asked, IsRead, NoPacket
  <2>7. /\ Left(B, r) = s.ranks[r].left
        /\ \A i \in 1 .. Len(v) : Start(B, r, i) = v[i].in
        /\ Asked(s, r) => Bursts(B, r) = Len(v) + 1 /\ Start(B, r, Len(v) + 1) = RL + 1
        /\ ~Asked(s, r) => Bursts(B, r) = Len(v)
        /\ Left(C, r) = d.ranks[r].left /\ Bursts(C, r) = Len(w)
        /\ \A i \in 1 .. Len(w) : Start(C, r, i) = w[i].in
    BY <1>6, <2>6 DEF RankLane
  <2>8. Len(v) \in Nat /\ Len(u) \in Nat /\ Len(w) \in Nat
    <3>1. v \in Seq(Waiting) /\ u \in Seq(Waiting) /\ w \in Seq(Waiting)
      BY <2>1 DEF RankTypes
    <3>2. \A x \in Seq(Waiting) : Len(x) \in Nat
      OBVIOUS
    <3> HIDE DEF v, u, w
    <3> QED
      BY <3>1, <3>2
  <2> HIDE DEF v, u, w
  <2>9. Begins(B, r) = Due(v)
    BY <2>7, <2>8, Delays DEF Begins, Due
  <2>10. Due(v) \in {0, 1} /\ Len(u) = Len(v) - Due(v)
    BY <2>2 DEF Due, Moved
  <2>11. \A i \in 1 .. Len(u) : /\ i + Due(v) \in 1 .. Len(v)
                                /\ u[i].in = v[i + Due(v)].in - 1
    BY <2>2, <2>8, <2>10 DEF Moved
  <2>12. Left(C, r) = IF Begins(B, r) = 1 THEN Burst ELSE Down(Left(B, r))
    BY <2>2, <2>5, <2>7, <2>9
  <2>13. \A i \in 1 .. Len(u) : Start(C, r, i) = Start(B, r, i + Due(v)) - 1
    <3> SUFFICES ASSUME NEW i \in 1 .. Len(u)
                 PROVE  Start(C, r, i) = Start(B, r, i + Due(v)) - 1
      OBVIOUS
    <3>1. i \in 1 .. Len(w) /\ w[i] = u[i]
      BY <2>5, <2>8
    <3>2. Start(C, r, i) = u[i].in
      BY <2>7, <3>1
    <3>3. /\ Start(B, r, i + Due(v)) = v[i + Due(v)].in
          /\ u[i].in = v[i + Due(v)].in - 1
      BY <2>7, <2>11
    <3> QED
      BY <3>2, <3>3
  <2>14. CASE ~Asked(s, r)
    BY <2>5, <2>7, <2>9, <2>10, <2>12, <2>13, <2>14 DEF LaneStep
  <2>15. CASE Asked(s, r)
    <3>1. Bursts(C, r) = Bursts(B, r) - Begins(B, r)
      BY <2>5, <2>7, <2>8, <2>9, <2>10, <2>15
    <3>2. Start(C, r, Len(u) + 1) = Start(B, r, Len(u) + 1 + Due(v)) - 1
      <4>1. Len(u) + 1 + Due(v) = Len(v) + 1 /\ Len(u) + 1 \in 1 .. Len(w)
        BY <2>5, <2>8, <2>10, <2>15
      <4> QED
        BY <2>5, <2>7, <2>15, <4>1, Delays
    <3>3. \A i \in 1 .. Bursts(C, r) : i \in 1 .. Len(u) \/ i = Len(u) + 1
      BY <2>5, <2>7, <2>8, <2>15
    <3> QED
      BY <2>9, <2>12, <2>13, <3>1, <3>2, <3>3 DEF LaneStep
  <2> QED
    BY <2>14, <2>15
<1>9. \A l \in Lanes : LaneStep(B, C, l)
  BY <1>7, <1>8 DEF Lanes
<1> QED
  BY <1>1, <1>2, <1>3, <1>5, <1>9 DEF B, C

(* The invariant of the data bus within a cycle. *)
MidInv(s) == BusOK(s, 0) /\ Over(Schedule(s), RL + Burst) /\ s.cmd.p = NoPacket

(* The invariant in the middle of a cycle. *)
LEMMA BusesStep ==
  ASSUME NEW s, Inv(s), BusInv(s), NEW d, d = Buses(s)
  PROVE  MidInv(d)
<1> USE BurstIsLong
<1> DEFINE B == Schedule(s)
           C == Schedule(d)
<1>1. /\ BusTypes(s) /\ TimeTypes(s) /\ LaneTypes(B) /\ Timetable(B) /\ Clear(s, 1)
      /\ Over(B, RL + Burst + 1)
  BY DEF BusInv, BusOK
<1>2. DOMAIN s = Fields /\ \A r \in Ranks, b \in Banks : DOMAIN s.bank[r][b] = BankFields
  BY DEF Inv, Shape, BankShape
<1>3. /\ BusTypes(d) /\ d.cmd.p = NoPacket
      /\ d.bank = [r \in Ranks |-> [b \in Banks |-> UpdateBank(s.bank[r][b])]]
      /\ \A l \in Lanes : LaneStep(B, C, l)
  BY <1>1, <1>2, BusesMove
<1>4. /\ LaneTypes(C) /\ Timetable(C) /\ \A e \in Nat : Over(B, e + 1) => Over(C, e)
  BY <1>1, <1>3, TimePasses
<1>5. Over(C, RL + Burst)
  BY <1>1, <1>4, Delays
<1>6. ASSUME NEW r \in Ranks, NEW b \in Banks
      PROVE  LET x == s.bank[r][b]
                 y == d.bank[r][b]
             IN  /\ y.nextRead = x.nextRead /\ y.nextWrite = x.nextWrite
                 /\ y.nextActivate = x.nextActivate /\ (Usable(y) => Usable(x))
  <2> DEFINE x == s.bank[r][b]
  <2>1. d.bank[r][b] = UpdateBank(x) /\ DOMAIN x = BankFields
    BY <1>2, <1>3
  <2> HIDE DEF x
  <2> QED
    BY <2>1 DEF UpdateBank, Usable, BankFields, x
<1>7. TimeTypes(d)
  BY <1>1, <1>6 DEF TimeTypes
<1> HIDE DEF B, C
<1>8. Clear(d, 0)
  <2> SUFFICES ASSUME NEW r \in Ranks, NEW b \in Banks, Usable(d.bank[r][b])
               PROVE  /\ Over(C, d.bank[r][b].nextRead + RL + 1 + 0)
                      /\ Over(C, d.bank[r][b].nextWrite + RL - 1 + 0)
    BY DEF Clear, C
  <2> DEFINE x == s.bank[r][b]
             y == d.bank[r][b]
             e == y.nextRead + RL + 1
             f == y.nextWrite + RL - 1
  <2>1. Over(B, x.nextRead + RL + 1 + 1) /\ Over(B, x.nextWrite + RL - 1 + 1)
    BY <1>1, <1>6 DEF Clear, B
  <2>2. x.nextRead \in Nat /\ x.nextWrite \in Nat
    BY <1>1 DEF TimeTypes
  <2>3. y.nextRead = x.nextRead /\ y.nextWrite = x.nextWrite
    BY <1>6
  <2> HIDE DEF x, y
  <2>4. e \in Nat /\ f \in Nat /\ x.nextRead + RL + 1 + 1 = e + 1
        /\ x.nextWrite + RL - 1 + 1 = f + 1 /\ e = y.nextRead + RL + 1 + 0
        /\ f = y.nextWrite + RL - 1 + 0
    BY <2>2, <2>3, Delays
  <2>5. Over(C, e) /\ Over(C, f)
    BY <1>4, <2>1, <2>4
  <2> QED
    BY <2>4, <2>5 DEF y
<1> QED
  BY <1>3, <1>4, <1>5, <1>7, <1>8 DEF MidInv, BusOK, C

(* A step that leaves the buses alone and does not hasten any bank. *)
LEMMA BusOfSame ==
  ASSUME NEW s, NEW k, BusOK(s, k), NEW d, SameBuses(s, d), TimeTypes(d),
         \A r \in Ranks, b \in Banks : Usable(d.bank[r][b]) =>
           /\ Usable(s.bank[r][b])
           /\ d.bank[r][b].nextRead = s.bank[r][b].nextRead
           /\ d.bank[r][b].nextWrite = s.bank[r][b].nextWrite
  PROVE  BusOK(d, k) /\ Schedule(d) = Schedule(s)
<1>1. BusTypes(d) /\ Schedule(d) = Schedule(s)
  BY BusesOfSame DEF BusOK
<1>2. Clear(d, k)
  BY <1>1 DEF BusOK, Clear
<1> QED
  BY <1>1, <1>2 DEF BusOK

(* A refresh that is due does not concern the buses. *)
LEMMA RefreshMid ==
  ASSUME NEW s, DOMAIN s = Fields, MidInv(s), NEW d, d = RefreshDue(s)
  PROVE  MidInv(d)
<1>1. /\ BusOK(s, 0) /\ BusTypes(s) /\ TimeTypes(s)
  BY DEF MidInv, BusOK
<1>2. /\ DOMAIN s.ranks = Ranks /\ \A r \in Ranks : DOMAIN s.ranks[r] = RankFields
  BY <1>1 DEF BusTypes, RankTypes
<1>3. /\ d.cmd = s.cmd /\ d.data = s.data /\ d.writes = s.writes /\ d.bank = s.bank
      /\ \/ d.ranks = s.ranks
         \/ d.ranks = [s.ranks EXCEPT ![s.turn].refreshWaiting = TRUE]
  BY DEF RefreshDue, Fields
<1>4. SameBuses(s, d)
  BY <1>2, <1>3 DEF SameBuses, RankFields
<1>5. TimeTypes(d)
  BY <1>1, <1>3 DEF TimeTypes
<1>6. BusOK(d, 0) /\ Schedule(d) = Schedule(s)
  BY <1>1, <1>3, <1>4, <1>5, BusOfSame
<1> QED
  BY <1>3, <1>6 DEF MidInv

(* A column access leaves only when its bank allows it. *)
IsColumn(p) == IsRead(p) \/ IsWrite(p)

(* A column access that is popped goes to an open row and has waited.      *)
LEMMA ColumnIsReady ==
  ASSUME NEW s, Inv(s), NEW d, NEW p, Chosen(s, d, p), IsColumn(p)
  PROVE  /\ p \in Commands /\ p.rank \in Ranks /\ p.bank \in Banks
         /\ Usable(s.bank[p.rank][p.bank])
         /\ IsRead(p) => s.bank[p.rank][p.bank].nextRead = 0
         /\ IsWrite(p) => s.bank[p.rank][p.bank].nextWrite = 0
<1>1. p.type \in {"READ", "READ_P", "WRITE", "WRITE_P"}
  BY DEF IsColumn, IsRead, IsWrite
<1>2. PICK i : OrphanGoes(s, d, p, i) \/ PairGoes(s, d, p, i)
  BY <1>1, SMTT(30) DEF Chosen, NoPacket, ActivateGoes, IsActivate, RefreshGoes, PrechargeGoes, Packet
<1>3. Waits(s, p, i) /\ IsIssuable(s, p)
  BY <1>2 DEF OrphanGoes, PairGoes
<1>4. p \in Commands /\ p.rank \in Ranks /\ p.bank \in Banks /\ QueueBank(s, p.bank) \in Banks
  <2>1. p \in Commands
    BY <1>3 DEF Waits
  <2> QED
    BY <2>1, CommandsNameBanks, QueueBankIs
<1> DEFINE x == s.bank[p.rank][p.bank]
<1>5. /\ IsRead(p) => x.nextRead = 0
      /\ IsWrite(p) => x.nextWrite = 0
  BY <1>1, <1>3 DEF IsIssuable, IsRead, IsWrite
<1>6. CASE OrphanGoes(s, d, p, i)
  <2>1. QueueOK(s, p.rank, QueueBank(s, p.bank))
    BY <1>4 DEF Inv
  <2>2. Opened(s, p)
    BY <1>3, <1>6, <2>1 DEF OrphanGoes, Waits, Line, QueueOK
  <2> QED
    BY <1>4, <1>5, <2>2 DEF Opened, Usable
<1>7. CASE PairGoes(s, d, p, i)
  <2>1. x.state = "RowActive" /\ s.config.page = "Open"
    BY <1>7 DEF PairGoes
  <2>2. BankOK(s, p.rank, p.bank)
    BY <1>4 DEF Inv
  <2>3. x.last \in {"ACTIVATE", "READ", "WRITE"}
    BY <2>1, <2>2 DEF BankOK, ColumnTypes
  <2> QED
    BY <1>4, <1>5, <2>1, <2>3 DEF Usable
<1> QED
  BY <1>2, <1>6, <1>7

(* The delays between column accesses keep their bursts apart. *)
LEMMA ColumnDelays ==
  /\ ReadToWrite \in Nat /\ ReadToWrite >= Burst + 2
  /\ WriteToReadB \in Nat /\ WriteToReadB >= Burst
  /\ WriteToReadR \in Nat /\ WriteToReadR >= Burst
  /\ Later(T.tCCD, Burst) \in Nat /\ Later(T.tCCD, Burst) >= Burst
  /\ Burst + T.tRTRS \in Nat /\ Burst + T.tRTRS >= Burst
<1>1. ReadToWrite = Burst + T.tRTRS + 1
  BY Delays DEF ReadToWrite
<1>2. WriteToReadB = RL - 1 + Burst + T.tWTR
  BY Delays DEF WriteToReadB
<1>3. WriteToReadR = Burst + T.tRTRS - 1
  BY Delays DEF WriteToReadR
<1> QED
  BY <1>1, <1>2, <1>3, Delays DEF Later

(* The later of two times. *)
LEMMA LaterIs ==
  ASSUME NEW x \in Nat, NEW y \in Nat
  PROVE  Later(x, y) \in Nat /\ Later(x, y) >= x /\ Later(x, y) >= y
BY DEF Later

(* The times y of a bank that had the times x: the next column access      *)
(* follows the one of p at a distance.                                     *)
Postponed(x, y, p) ==
  /\ y.nextRead >= x.nextRead /\ y.nextWrite >= x.nextWrite
  /\ IsRead(p) => y.nextRead >= Burst /\ y.nextWrite >= Burst + 2
  /\ IsWrite(p) => y.nextRead >= Burst /\ y.nextWrite >= Burst

(* A column access postpones the next one to every open row. *)
LEMMA ColumnPostpones ==
  ASSUME NEW s, DOMAIN s = Fields, BankShape(s), TimeTypes(s), NEW p, IsColumn(p),
         NEW a, a = AfterColumn(s, p)
  PROVE  /\ TimeTypes(a)
         /\ \A r \in Ranks, b \in Banks :
              /\ a.bank[r][b].state = s.bank[r][b].state /\ a.bank[r][b].last = s.bank[r][b].last
              /\ s.bank[r][b].state = "RowActive" => Postponed(s.bank[r][b], a.bank[r][b], p)
<1> DEFINE same == IF IsRead(p) THEN [rd |-> Later(T.tCCD, Burst), wr |-> ReadToWrite]
                   ELSE [rd |-> WriteToReadB, wr |-> Later(T.tCCD, Burst)]
           other == IF IsRead(p) THEN [rd |-> Burst + T.tRTRS, wr |-> ReadToWrite]
                    ELSE [rd |-> WriteToReadR, wr |-> Burst + T.tRTRS]
           wait(bank, d) == [bank EXCEPT !.nextRead = Later(@, d.rd), !.nextWrite = Later(@, d.wr)]
           Enough(d) == /\ d.rd \in Nat /\ d.wr \in Nat /\ d.rd >= Burst /\ d.wr >= Burst
                        /\ IsRead(p) => d.wr >= Burst + 2
<1>1. a.bank = [r \in Ranks |-> [b \in Banks |->
               CASE r = p.rank -> wait(s.bank[r][b], same)
                 [] r # p.rank /\ s.bank[r][b].state = "RowActive" -> wait(s.bank[r][b], other)
                 [] OTHER -> s.bank[r][b]]]
  BY DEF AfterColumn, Fields
<1>2. Enough(same) /\ Enough(other)
  BY ColumnDelays, BurstIsLong
<1> HIDE DEF same, other
<1>3. ASSUME NEW x, DOMAIN x = BankFields, NEW d
      PROVE  LET y == wait(x, d)
             IN  /\ y.nextRead = Later(x.nextRead, d.rd) /\ y.nextWrite = Later(x.nextWrite, d.wr)
                 /\ y.nextActivate = x.nextActivate /\ y.state = x.state /\ y.last = x.last
  BY <1>3 DEF BankFields
<1>4. \A p1 : IsRead(p1) => ~IsWrite(p1)
  BY DEF IsRead, IsWrite
<1> HIDE DEF wait
<1>5. ASSUME NEW x, DOMAIN x = BankFields, x.nextRead \in Nat, x.nextWrite \in Nat, NEW d,
             Enough(d)
      PROVE  LET y == wait(x, d)
             IN  y.nextRead \in Nat /\ y.nextWrite \in Nat /\ Postponed(x, y, p)
  <2> DEFINE y == wait(x, d)
  <2>1. y.nextRead = Later(x.nextRead, d.rd) /\ y.nextWrite = Later(x.nextWrite, d.wr)
    BY <1>3, <1>5
  <2>2. /\ y.nextRead \in Nat /\ y.nextRead >= x.nextRead /\ y.nextRead >= d.rd
        /\ y.nextWrite \in Nat /\ y.nextWrite >= x.nextWrite /\ y.nextWrite >= d.wr
    BY <1>5, <2>1, LaterIs
  <2> HIDE DEF y
  <2> QED
    BY <1>5, <2>2, BurstIsLong DEF Postponed, y
<1> HIDE DEF Enough
<1>6. ASSUME NEW r \in Ranks, NEW b \in Banks
      PROVE  /\ a.bank[r][b].nextRead \in Nat /\ a.bank[r][b].nextWrite \in Nat
             /\ a.bank[r][b].nextActivate \in Nat
             /\ a.bank[r][b].state = s.bank[r][b].state /\ a.bank[r][b].last = s.bank[r][b].last
             /\ s.bank[r][b].state = "RowActive" => Postponed(s.bank[r][b], a.bank[r][b], p)
  <2> DEFINE x == s.bank[r][b]
             y == a.bank[r][b]
  <2>1. /\ DOMAIN x = BankFields /\ x.nextRead \in Nat /\ x.nextWrite \in Nat
        /\ x.nextActivate \in Nat
    BY DEF BankShape, TimeTypes
  <2>2. \/ y = wait(x, same)
        \/ y = wait(x, other)
        \/ y = x /\ x.state # "RowActive"
    BY <1>1
  <2> HIDE DEF x, y
  <2>3. ASSUME NEW d, Enough(d), y = wait(x, d)
        PROVE  /\ y.nextRead \in Nat /\ y.nextWrite \in Nat /\ y.nextActivate \in Nat
               /\ y.state = x.state /\ y.last = x.last /\ Postponed(x, y, p)
    BY <1>3, <1>5, <2>1, <2>3
  <2> QED
    BY <1>2, <2>1, <2>2, <2>3 DEF x, y
<1> QED
  BY <1>6 DEF TimeTypes

(* What a command leaves of a bank that column accesses may go to. *)
Follows(x, y, p) ==
  \/ Usable(x) /\ Postponed(x, y, p)
  \/ p.type = "ACTIVATE" /\ y.nextRead >= Burst + 1 /\ y.nextWrite >= Burst + 1

(* A command that is no column access need not postpone anything. *)
LEMMA SameFollows ==
  ASSUME NEW x, x.nextRead \in Nat, x.nextWrite \in Nat, NEW p, ~IsColumn(p), NEW y,
         y.nextRead = x.nextRead, y.nextWrite = x.nextWrite, Usable(x)
  PROVE  Follows(x, y, p)
BY DEF Follows, Postponed, IsColumn

(* The delays of the device are natural numbers. *)
LEMMA DelaysAreNat ==
  /\ \A f \in {"tRAS", "tRC", "tRP", "tRFC", "tRRD", "tXP", "tCKE", "tWR", "tRTP", "tFAW"} :
       T[f] \in Nat
  /\ ReadAutopre \in Nat /\ WriteAutopre \in Nat
<1>1. /\ T.AL \in Nat /\ T.tRTP \in Nat /\ T.tRP \in Nat /\ T.tWR \in Nat
      /\ \A f \in {"tRAS", "tRC", "tRP", "tRFC", "tRRD", "tXP", "tCKE", "tWR", "tRTP", "tFAW"} :
           T[f] \in Nat
  BY TimingAssumption
<1>2. WL \in Nat /\ Burst \in Nat
  BY Delays
<1> QED
  BY <1>1, <1>2 DEF ReadAutopre, WriteAutopre

(* Every command leaves the times of the banks as Follows says. *)
LEMMA IssuedTimes ==
  ASSUME NEW s, DOMAIN s = Fields, BankShape(s), TimeTypes(s), NEW p, p.rank \in Ranks,
         p.bank \in Banks, p.type \in Kinds,
         IsColumn(p) => Usable(s.bank[p.rank][p.bank]), NEW e, e = Issued(s, p)
  PROVE  /\ TimeTypes(e)
         /\ \A u \in Ranks, b \in Banks :
              Usable(e.bank[u][b]) => Follows(s.bank[u][b], e.bank[u][b], p)
<1> DEFINE r == p.rank
           c == p.bank
           a == AfterColumn(s, p)
<1>1. \A u \in Ranks, b \in Banks : DOMAIN s.bank[u][b] = BankFields
  BY DEF BankShape
<1>2. \A u \in Ranks, b \in Banks :
        /\ s.bank[u][b].nextRead \in Nat /\ s.bank[u][b].nextWrite \in Nat
        /\ s.bank[u][b].nextActivate \in Nat
  BY DEF TimeTypes
<1>3. CASE p.type \in {"READ", "WRITE", "READ_P", "WRITE_P"}
  <2>1. IsColumn(p)
    BY <1>3 DEF IsColumn, IsRead, IsWrite
  <2>2. /\ TimeTypes(a)
        /\ \A u \in Ranks, b \in Banks :
              /\ a.bank[u][b].state = s.bank[u][b].state /\ a.bank[u][b].last = s.bank[u][b].last
              /\ s.bank[u][b].state = "RowActive" => Postponed(s.bank[u][b], a.bank[u][b], p)
    BY <2>1, ColumnPostpones
  <2>3. /\ BankChange(s, a) /\ DOMAIN a = Fields
    <3>1. BankChange(s, a)
      BY ColumnTimes
    <3> QED
      BY <3>1 DEF BankChange, Frame
  <2>4. /\ \A u \in Ranks : DOMAIN a.bank[u] = Banks
        /\ \A u \in Ranks, b \in Banks : DOMAIN a.bank[u][b] = BankFields
        /\ DOMAIN a.bank = Ranks
    BY <2>3 DEF BankChange, BankShape
  <2> HIDE DEF a, r, c
  <2>5. r \in Ranks /\ c \in Banks
    BY DEF r, c
  <2> DEFINE x == a.bank[r][c]
             o == s.bank[r][c]
  <2>6. PICK y : /\ e.bank = [a.bank EXCEPT ![r][c] = y]
                 /\ y.nextRead \in Nat /\ y.nextWrite \in Nat /\ y.nextActivate \in Nat
                 /\ Usable(y) => y.nextRead = x.nextRead /\ y.nextWrite = x.nextWrite
                 /\ y.state = x.state
    <3>0. /\ DOMAIN x = BankFields /\ x.nextRead \in Nat /\ x.nextWrite \in Nat
          /\ x.nextActivate \in Nat /\ o.nextActivate \in Nat
      BY <1>2, <2>2, <2>4, <2>5 DEF TimeTypes
    <3>1. ASSUME NEW pre, e = AfterRow(s, p, pre)
          PROVE  \E y : /\ e.bank = [a.bank EXCEPT ![r][c] = y]
                        /\ y.nextRead \in Nat /\ y.nextWrite \in Nat /\ y.nextActivate \in Nat
                        /\ Usable(y) => y.nextRead = x.nextRead /\ y.nextWrite = x.nextWrite
                        /\ y.state = x.state
      <4> DEFINE z == [x EXCEPT !.nextPrecharge = Later(@, pre), !.last = p.type]
      <4>1. e.bank = [a.bank EXCEPT ![r][c] = z]
        BY <2>3, <3>1 DEF AfterRow, Fields, a, r, c
      <4>2. /\ z.nextRead = x.nextRead /\ z.nextWrite = x.nextWrite
            /\ z.nextActivate = x.nextActivate /\ z.state = x.state
        BY <3>0 DEF BankFields
      <4> HIDE DEF z, x
      <4> QED
        BY <3>0, <4>1, <4>2
    <3>2. ASSUME NEW active \in Nat, NEW pre, e = AfterAuto(s, p, active, pre),
                 p.type \in {"READ_P", "WRITE_P"}
          PROVE  \E y : /\ e.bank = [a.bank EXCEPT ![r][c] = y]
                        /\ y.nextRead \in Nat /\ y.nextWrite \in Nat /\ y.nextActivate \in Nat
                        /\ Usable(y) => y.nextRead = x.nextRead /\ y.nextWrite = x.nextWrite
                        /\ y.state = x.state
      <4> DEFINE n == Later(active, o.nextActivate)
                 z == [x EXCEPT !.nextActivate = n, !.nextRead = n, !.nextWrite = n,
                                !.last = p.type, !.countdown = pre]
      <4>1. e.bank = [a.bank EXCEPT ![r][c] = z]
        BY <2>3, <3>2 DEF AfterAuto, Fields, a, r, c
      <4>2. n \in Nat
        BY <3>0, LaterIs
      <4> HIDE DEF n
      <4>3. /\ z.nextRead = n /\ z.nextWrite = n /\ z.nextActivate = n /\ z.state = x.state
            /\ z.last = p.type
        BY <3>0 DEF BankFields
      <4> HIDE DEF z, x
      <4>4. ~Usable(z)
        BY <3>2, <4>3 DEF Usable
      <4> QED
        BY <4>1, <4>2, <4>3, <4>4
    <3> HIDE DEF x, o
    <3>3. CASE p.type = "READ"
      <4>1. e = AfterRow(s, p, ReadToPre)
        BY <3>3 DEF Issued
      <4> QED
        BY <3>1, <4>1
    <3>4. CASE p.type = "WRITE"
      <4>1. e = AfterRow(s, p, WriteToPre)
        BY <3>4 DEF Issued
      <4> QED
        BY <3>1, <4>1
    <3>5. CASE p.type = "READ_P"
      <4>1. e = AfterAuto(s, p, ReadAutopre, ReadToPre)
        BY <3>5 DEF Issued
      <4> QED
        BY <3>2, <3>5, <4>1, DelaysAreNat
    <3>6. CASE p.type = "WRITE_P"
      <4>1. e = AfterAuto(s, p, WriteAutopre, WriteToPre)
        BY <3>6 DEF Issued
      <4> QED
        BY <3>2, <3>6, <4>1, DelaysAreNat
    <3> QED
      BY <1>3, <3>3, <3>4, <3>5, <3>6
  <2>7. e.bank[r][c] = y /\ \A u \in Ranks, b \in Banks :
          (u # r \/ b # c) => e.bank[u][b] = a.bank[u][b]
    BY <2>4, <2>5, <2>6
  <2>8. TimeTypes(e)
    <3> SUFFICES ASSUME NEW u \in Ranks, NEW b \in Banks
                 PROVE  /\ e.bank[u][b].nextRead \in Nat /\ e.bank[u][b].nextWrite \in Nat
                        /\ e.bank[u][b].nextActivate \in Nat
      BY DEF TimeTypes
    <3>1. CASE u = r /\ b = c
      BY <2>6, <2>7, <3>1
    <3>2. CASE u # r \/ b # c
      BY <2>2, <2>7, <3>2 DEF TimeTypes
    <3> QED
      BY <3>1, <3>2
  <2>9. ASSUME NEW u \in Ranks, NEW b \in Banks, Usable(e.bank[u][b])
        PROVE  Follows(s.bank[u][b], e.bank[u][b], p)
    <3>1. CASE u = r /\ b = c
      <4>1. Usable(o) /\ Postponed(o, x, p)
        BY <2>1, <2>2, <2>5 DEF Usable, r, c
      <4>2. y.nextRead = x.nextRead /\ y.nextWrite = x.nextWrite /\ e.bank[u][b] = y
        BY <2>6, <2>7, <2>9, <3>1
      <4> QED
        BY <3>1, <4>1, <4>2 DEF Follows, Postponed
    <3>2. CASE u # r \/ b # c
      <4>1. e.bank[u][b] = a.bank[u][b]
        BY <2>7, <3>2
      <4> QED
        BY <2>2, <2>9, <4>1 DEF Follows, Usable
    <3> QED
      BY <3>1, <3>2
  <2> QED
    BY <2>8, <2>9
<1>4. CASE p.type \in {"ACTIVATE", "PRECHARGE", "REFRESH"}
  <2>0. ~IsColumn(p)
    BY <1>4 DEF IsColumn, IsRead, IsWrite
  <2>1. ASSUME NEW u \in Ranks, NEW b \in Banks
        PROVE  LET x == s.bank[u][b]
                   y == e.bank[u][b]
               IN  /\ y.nextRead \in Nat /\ y.nextWrite \in Nat /\ y.nextActivate \in Nat
                   /\ Usable(y) => Follows(x, y, p)
    <3> DEFINE x == s.bank[u][b]
               y == e.bank[u][b]
    <3>1. /\ DOMAIN x = BankFields /\ x.nextRead \in Nat /\ x.nextWrite \in Nat
          /\ x.nextActivate \in Nat
      BY <1>1, <1>2
    <3>2. ASSUME y.nextRead = x.nextRead, y.nextWrite = x.nextWrite, y.nextActivate \in Nat,
                 Usable(y) => Usable(x)
          PROVE  /\ y.nextRead \in Nat /\ y.nextWrite \in Nat /\ y.nextActivate \in Nat
                 /\ Usable(y) => Follows(x, y, p)
      BY <2>0, <3>1, <3>2, SameFollows
    <3>3. CASE y = x
      BY <3>1, <3>2, <3>3
    <3>4. CASE p.type = "PRECHARGE" /\ u = r /\ b = c
      <4> DEFINE z == [x EXCEPT !.state = "Precharging", !.last = "PRECHARGE",
                                !.countdown = T.tRP, !.nextActivate = Later(@, T.tRP)]
      <4>1. e = [s EXCEPT !.bank[r][c] = z]
        BY <3>4 DEF Issued, AfterPrecharge
      <4>2. e.bank = [s.bank EXCEPT ![r][c] = z]
        BY <4>1 DEF Fields
      <4> HIDE DEF z
      <4>3. y = z
        BY <3>4, <4>2 DEF BankShape
      <4>4. /\ z.nextRead = x.nextRead /\ z.nextWrite = x.nextWrite
            /\ z.nextActivate = Later(x.nextActivate, T.tRP) /\ z.state = "Precharging"
        BY <3>1 DEF BankFields, z
      <4>5. z.nextActivate \in Nat /\ ~Usable(z)
        BY <3>1, <4>4, LaterIs, DelaysAreNat DEF Usable
      <4> QED
        BY <3>2, <4>3, <4>4, <4>5
    <3>5. CASE p.type = "REFRESH" /\ u = r
      <4> DEFINE z(n) == [s.bank[r][n] EXCEPT !.state = "Refreshing", !.last = "REFRESH",
                                  !.countdown = T.tRFC, !.nextActivate = T.tRFC]
      <4>1. e = [s EXCEPT !.bank[r] = [n \in Banks |-> z(n)]]
        BY <3>5 DEF Issued
      <4>2. e.bank = [s.bank EXCEPT ![r] = [n \in Banks |-> z(n)]]
        BY <4>1 DEF Fields
      <4> HIDE DEF z
      <4>3. y = z(b)
        BY <3>5, <4>2 DEF BankShape
      <4>4. /\ z(b).nextRead = x.nextRead /\ z(b).nextWrite = x.nextWrite
            /\ z(b).nextActivate = T.tRFC /\ z(b).state = "Refreshing"
        BY <3>1, <3>5 DEF BankFields, z
      <4>5. z(b).nextActivate \in Nat /\ ~Usable(z(b))
        BY <4>4, DelaysAreNat DEF Usable
      <4> QED
        BY <3>2, <4>3, <4>4, <4>5
    <3>6. CASE p.type = "ACTIVATE" /\ u = r
      <4> DEFINE opened(w) == [w EXCEPT !.state = "RowActive", !.last = "ACTIVATE",
                                 !.row = p.row,
                                 !.nextActivate = Later(@, T.tRC),
                                 !.nextPrecharge = Later(@, T.tRAS),
                                 !.nextRead = Later(@, T.tRCD - T.AL),
                                 !.nextWrite = Later(@, T.tRCD - T.AL)]
                 other(w) == [w EXCEPT !.nextActivate = Later(@, T.tRRD)]
                 z(n) == IF n = c THEN opened(s.bank[r][n]) ELSE other(s.bank[r][n])
      <4>1. e = [s EXCEPT !.bank[r] = [n \in Banks |-> z(n)]]
        BY <3>6 DEF Issued, AfterActivate
      <4>2. e.bank = [s.bank EXCEPT ![r] = [n \in Banks |-> z(n)]]
        BY <4>1 DEF Fields
      <4>3. y = IF b = c THEN opened(x) ELSE other(x)
        <5> HIDE DEF z
        <5>1. y = z(b)
          BY <3>6, <4>2 DEF BankShape
        <5> QED
          BY <3>6, <5>1 DEF z
      <4>4. /\ opened(x).nextRead = Later(x.nextRead, T.tRCD - T.AL)
            /\ opened(x).nextWrite = Later(x.nextWrite, T.tRCD - T.AL)
            /\ opened(x).nextActivate = Later(x.nextActivate, T.tRC)
            /\ other(x).nextRead = x.nextRead /\ other(x).nextWrite = x.nextWrite
            /\ other(x).nextActivate = Later(x.nextActivate, T.tRRD)
            /\ other(x).state = x.state /\ other(x).last = x.last
        BY <3>1 DEF BankFields
      <4> HIDE DEF opened, other, x, y
      <4>5. CASE b # c
        <5>1. y.nextActivate \in Nat
          BY <3>1, <4>3, <4>4, <4>5, LaterIs, DelaysAreNat
        <5>2. Usable(y) => Usable(x)
          BY <4>3, <4>4, <4>5 DEF Usable
        <5> QED
          BY <3>2, <4>3, <4>4, <4>5, <5>1, <5>2 DEF x, y
      <4>6. CASE b = c
        <5> DEFINE k == T.tRCD - T.AL
        <5>1. k \in Nat /\ k >= Burst + 1
          BY Delays
        <5>2. y.nextRead = Later(x.nextRead, k) /\ y.nextWrite = Later(x.nextWrite, k)
          BY <4>3, <4>4, <4>6
        <5> HIDE DEF k
        <5>3. /\ y.nextRead \in Nat /\ y.nextRead >= k /\ y.nextWrite \in Nat
              /\ y.nextWrite >= k
          BY <3>1, <5>1, <5>2, LaterIs
        <5>4. y.nextActivate \in Nat
          BY <3>1, <4>3, <4>4, <4>6, LaterIs, DelaysAreNat
        <5>5. y.nextRead >= Burst + 1 /\ y.nextWrite >= Burst + 1
          BY <5>1, <5>3, BurstIsLong
        <5> QED
          BY <3>6, <5>3, <5>4, <5>5 DEF Follows, x, y
      <4> QED
        BY <4>5, <4>6 DEF x, y
    <3>7. CASE u # r \/ (p.type = "PRECHARGE" /\ b # c)
      <4>1. y = x
        <5>1. CASE p.type = "PRECHARGE"
          BY <3>7, <5>1 DEF Issued, AfterPrecharge, Fields, BankShape
        <5>2. CASE p.type = "REFRESH"
          BY <3>7, <5>2 DEF Issued, Fields, BankShape
        <5>3. CASE p.type = "ACTIVATE"
          BY <3>7, <5>3 DEF Issued, AfterActivate, Fields, BankShape
        <5> QED
          BY <1>4, <5>1, <5>2, <5>3
      <4> QED
        BY <3>3, <4>1
    <3> QED
      BY <1>4, <3>4, <3>5, <3>6, <3>7
  <2> QED
    BY <2>1 DEF TimeTypes
<1> QED
  BY <1>3, <1>4 DEF Kinds

(* A command goes on the command bus, and a write's data wait. *)
Sends(s, e, p) ==
  /\ e.ranks = s.ranks /\ e.data = s.data
  /\ e.writes = IF IsWrite(p)
                THEN Append(s.writes, [p |-> [p EXCEPT !.type = "DATA"], in |-> WL])
                ELSE s.writes
  /\ e.cmd = [p |-> p, left |-> T.tCMD]

(* The burst of a command joins the schedule, RL + 1 or WL cycles ahead.   *)
LEMMA BurstAnnounced ==
  ASSUME NEW s, MidInv(s), NEW p, IsColumn(p) => p \in Commands, p.rank \in Ranks,
         NEW e, Sends(s, e, p)
  PROVE  /\ BusTypes(e)
         /\ IsRead(p) => Joins(Schedule(s), Schedule(e), p.rank, RL + 1)
         /\ IsWrite(p) => Joins(Schedule(s), Schedule(e), NoRank, RL - 1)
         /\ ~IsColumn(p) => Schedule(e) = Schedule(s)
<1> DEFINE B == Schedule(s)
           C == Schedule(e)
<1>1. /\ BusTypes(s) /\ s.cmd.p = NoPacket
      /\ DOMAIN s.ranks = Ranks /\ \A r \in Ranks : RankTypes(s.ranks[r])
      /\ WriteTypes(s) /\ CommandTypes(s)
  BY DEF MidInv, BusOK, BusTypes
<1>2. /\ e.ranks = s.ranks /\ e.data = s.data /\ DOMAIN e.cmd = {"p", "left"}
      /\ e.cmd.p = p /\ e.cmd.left = 1
  BY TimingAssumption DEF Sends
<1>3. \A q : IsRead(q) => ~IsWrite(q)
  BY DEF IsRead, IsWrite
<1>4. CommandTypes(e)
  BY <1>2 DEF CommandTypes, IsColumn
<1>5. IsWrite(p) => /\ e.writes \in Seq(Waiting) /\ Len(e.writes) = Len(s.writes) + 1
                    /\ e.writes[Len(s.writes) + 1].in = RL - 1
                    /\ \A i \in 1 .. Len(s.writes) : e.writes[i] = s.writes[i]
  <2> SUFFICES ASSUME IsWrite(p)
               PROVE  /\ e.writes \in Seq(Waiting) /\ Len(e.writes) = Len(s.writes) + 1
                      /\ e.writes[Len(s.writes) + 1].in = RL - 1
                      /\ \A i \in 1 .. Len(s.writes) : e.writes[i] = s.writes[i]
    OBVIOUS
  <2> DEFINE w == [p |-> [p EXCEPT !.type = "DATA"], in |-> WL]
  <2>1. w \in Waiting /\ w.in = RL - 1
    BY Delays DEF Waiting, DataPackets, IsColumn
  <2>2. e.writes = Append(s.writes, w)
    BY DEF Sends
  <2>3. s.writes \in Seq(Waiting)
    BY <1>1 DEF WriteTypes
  <2> HIDE DEF w
  <2>4. /\ e.writes \in Seq(Waiting) /\ Len(e.writes) = Len(s.writes) + 1
        /\ e.writes[Len(s.writes) + 1] = w
        /\ \A i \in 1 .. Len(s.writes) : e.writes[i] = s.writes[i]
    BY <2>1, <2>2, <2>3
  <2> QED
    BY <2>1, <2>4
<1>6. ~IsWrite(p) => e.writes = s.writes
  BY DEF Sends
<1>7. e.writes \in Seq(Waiting)
  BY <1>1, <1>5, <1>6 DEF WriteTypes
<1>8. BusTypes(e)
  BY <1>1, <1>2, <1>4, <1>7 DEF BusTypes, WriteTypes
<1>9. /\ WriteLane(s, B) /\ (\A r \in Ranks : RankLane(s, B, r)) /\ LaneTypes(B)
      /\ WriteLane(e, C) /\ (\A r \in Ranks : RankLane(e, C, r)) /\ LaneTypes(C)
  BY <1>1, <1>8, LanesAre
<1>10. \A r \in Ranks : ~Asked(s, r) /\ (Asked(e, r) <=> IsRead(p) /\ p.rank = r)
  BY <1>1, <1>2 DEF Asked, IsRead, NoPacket
<1>11. \A l \in Lanes : Bursts(B, l) \in Nat
  BY <1>9 DEF LaneTypes
<1>12. ~IsColumn(p) => Schedule(e) = Schedule(s)
  <2> SUFFICES ASSUME ~IsColumn(p) PROVE Schedule(e) = Schedule(s)
    OBVIOUS
  <2>1. \A l \in Lanes : Lane(e, l) = Lane(s, l)
    BY <1>1, <1>2, <1>6 DEF Lane, IsColumn, IsRead, NoPacket
  <2> QED
    BY <2>1 DEF Schedule
<1> HIDE DEF B, C
<1>13. ASSUME NEW r \in Ranks
       PROVE  /\ Left(C, r) = Left(B, r)
              /\ \A i \in 1 .. Bursts(B, r) : Start(C, r, i) = Start(B, r, i)
              /\ IsRead(p) /\ p.rank = r =>
                   Bursts(C, r) = Bursts(B, r) + 1 /\ Start(C, r, Bursts(B, r) + 1) = RL + 1
              /\ ~(IsRead(p) /\ p.rank = r) => Bursts(C, r) = Bursts(B, r)
  BY <1>2, <1>9, <1>10 DEF RankLane
<1>14. /\ Left(C, NoRank) = Left(B, NoRank)
       /\ \A i \in 1 .. Bursts(B, NoRank) : Start(C, NoRank, i) = Start(B, NoRank, i)
       /\ IsWrite(p) => /\ Bursts(C, NoRank) = Bursts(B, NoRank) + 1
                        /\ Start(C, NoRank, Bursts(B, NoRank) + 1) = RL - 1
       /\ ~IsWrite(p) => Bursts(C, NoRank) = Bursts(B, NoRank)
  <2>1. /\ Left(B, NoRank) = s.data.left /\ Bursts(B, NoRank) = Len(s.writes)
        /\ \A i \in 1 .. Len(s.writes) : Start(B, NoRank, i) = s.writes[i].in
        /\ Left(C, NoRank) = s.data.left /\ Bursts(C, NoRank) = Len(e.writes)
        /\ \A i \in 1 .. Len(e.writes) : Start(C, NoRank, i) = e.writes[i].in
    BY <1>2, <1>9 DEF WriteLane
  <2>2. Len(s.writes) \in Nat
    BY <1>11, <2>1, NoRankIsNone
  <2>3. CASE IsWrite(p)
    <3>1. Bursts(C, NoRank) = Bursts(B, NoRank) + 1
      BY <1>5, <2>1, <2>3
    <3>2. Start(C, NoRank, Len(s.writes) + 1) = RL - 1
      BY <1>5, <2>1, <2>2, <2>3
    <3>3. \A i \in 1 .. Len(s.writes) : Start(C, NoRank, i) = Start(B, NoRank, i)
      BY <1>5, <2>1, <2>2, <2>3
    <3> QED
      BY <2>1, <2>3, <3>1, <3>2, <3>3
  <2>4. CASE ~IsWrite(p)
    BY <1>6, <2>1, <2>4
  <2> QED
    BY <2>3, <2>4
<1>15. IsRead(p) => Joins(B, C, p.rank, RL + 1)
  BY <1>3, <1>13, <1>14, NoRankIsNone DEF Joins, Lanes
<1>16. IsWrite(p) => Joins(B, C, NoRank, RL - 1)
  BY <1>3, <1>13, <1>14, NoRankIsNone DEF Joins, Lanes
<1> QED
  BY <1>8, <1>12, <1>15, <1>16 DEF B, C

(* The command that is issued has its burst after all others, and every    *)
(* bank waits long enough for the next one.                                *)
LEMMA BurstIssued ==
  ASSUME NEW s, MidInv(s), NEW p, p.rank \in Ranks, p.bank \in Banks, p.type \in Kinds,
         IsColumn(p) => p \in Commands,
         IsRead(p) => Over(Schedule(s), RL + 1), IsWrite(p) => Over(Schedule(s), RL - 1),
         NEW e, Sends(s, e, p), TimeTypes(e),
         \A u \in Ranks, b \in Banks :
           Usable(e.bank[u][b]) => Follows(s.bank[u][b], e.bank[u][b], p)
  PROVE  BusOK(e, 0) /\ Over(Schedule(e), RL + Burst + 1)
<1> USE BurstIsLong
<1> DEFINE B == Schedule(s)
           C == Schedule(e)
<1>1. /\ BusTypes(s) /\ TimeTypes(s) /\ LaneTypes(B) /\ Timetable(B) /\ Clear(s, 0)
      /\ Over(B, RL + Burst)
  BY DEF MidInv, BusOK
<1>2. /\ BusTypes(e)
      /\ IsRead(p) => Joins(B, C, p.rank, RL + 1)
      /\ IsWrite(p) => Joins(B, C, NoRank, RL - 1)
      /\ ~IsColumn(p) => C = B
  BY BurstAnnounced
<1>3. /\ RL + 1 \in Nat \ {0} /\ RL - 1 \in Nat \ {0} /\ RL \in Nat /\ RL >= 2
      /\ p.rank \in Lanes /\ NoRank \in Lanes
  BY Delays, NoRankIsNone
<1>4. \A u \in Ranks, b \in Banks :
        /\ s.bank[u][b].nextRead \in Nat /\ s.bank[u][b].nextWrite \in Nat
        /\ e.bank[u][b].nextRead \in Nat /\ e.bank[u][b].nextWrite \in Nat
  BY <1>1 DEF TimeTypes
<1> HIDE DEF B, C
<1>5. \A q : /\ IsRead(q) => ~IsWrite(q) /\ q.type # "ACTIVATE"
             /\ IsWrite(q) => q.type # "ACTIVATE"
  BY DEF IsRead, IsWrite
<1>6. ASSUME NEW k \in {RL + 1, RL - 1}, LaneTypes(C), Timetable(C),
             \A f \in Nat : k + Burst <= f => Over(C, f),
             \A u \in Ranks, b \in Banks : Usable(e.bank[u][b]) =>
               /\ k + Burst <= e.bank[u][b].nextRead + RL + 1
               /\ k + Burst <= e.bank[u][b].nextWrite + RL - 1
      PROVE  BusOK(e, 0) /\ Over(C, RL + Burst + 1)
  <2>1. Over(C, RL + Burst + 1)
    BY <1>3, <1>6
  <2>2. Clear(e, 0)
    <3> SUFFICES ASSUME NEW u \in Ranks, NEW b \in Banks, Usable(e.bank[u][b])
                 PROVE  /\ Over(C, e.bank[u][b].nextRead + RL + 1 + 0)
                        /\ Over(C, e.bank[u][b].nextWrite + RL - 1 + 0)
      BY DEF Clear, C
    <3> DEFINE f == e.bank[u][b].nextRead + RL + 1
               g == e.bank[u][b].nextWrite + RL - 1
    <3>1. /\ f \in Nat /\ g \in Nat /\ e.bank[u][b].nextRead + RL + 1 + 0 = f
          /\ e.bank[u][b].nextWrite + RL - 1 + 0 = g
      BY <1>3, <1>4
    <3>2. k + Burst <= f /\ k + Burst <= g
      BY <1>6
    <3> HIDE DEF f, g
    <3> QED
      BY <1>6, <3>1, <3>2
  <2> QED
    BY <1>2, <1>6, <2>1, <2>2 DEF BusOK, C
<1>7. CASE IsRead(p)
  <2>1. /\ LaneTypes(C) /\ Timetable(C) /\ \A f \in Nat : RL + 1 + Burst <= f => Over(C, f)
    <3> DEFINE v == RL + 1
    <3>1. v \in Nat \ {0} /\ Over(B, v) /\ Joins(B, C, p.rank, v)
      BY <1>2, <1>3, <1>7 DEF B
    <3> HIDE DEF v
    <3>2. /\ LaneTypes(C) /\ Timetable(C) /\ \A f \in Nat : v + Burst <= f => Over(C, f)
      BY <1>1, <1>3, <3>1, BurstJoins
    <3> QED
      BY <3>2 DEF v
  <2>2. \A u \in Ranks, b \in Banks : Usable(e.bank[u][b]) =>
               /\ RL + 1 + Burst <= e.bank[u][b].nextRead + RL + 1
               /\ RL + 1 + Burst <= e.bank[u][b].nextWrite + RL - 1
    <3> SUFFICES ASSUME NEW u \in Ranks, NEW b \in Banks, Usable(e.bank[u][b])
                 PROVE  /\ RL + 1 + Burst <= e.bank[u][b].nextRead + RL + 1
                        /\ RL + 1 + Burst <= e.bank[u][b].nextWrite + RL - 1
      OBVIOUS
    <3>1. e.bank[u][b].nextRead >= Burst /\ e.bank[u][b].nextWrite >= Burst + 2
      BY <1>5, <1>7 DEF Follows, Postponed
    <3> QED
      BY <1>3, <1>4, <3>1
  <2> QED
    BY <1>6, <2>1, <2>2 DEF C
<1>8. CASE IsWrite(p)
  <2>1. /\ LaneTypes(C) /\ Timetable(C) /\ \A f \in Nat : RL - 1 + Burst <= f => Over(C, f)
    <3> DEFINE v == RL - 1
    <3>1. v \in Nat \ {0} /\ Over(B, v) /\ Joins(B, C, NoRank, v)
      BY <1>2, <1>3, <1>8 DEF B
    <3> HIDE DEF v
    <3>2. /\ LaneTypes(C) /\ Timetable(C) /\ \A f \in Nat : v + Burst <= f => Over(C, f)
      BY <1>1, <1>3, <3>1, BurstJoins
    <3> QED
      BY <3>2 DEF v
  <2>2. \A u \in Ranks, b \in Banks : Usable(e.bank[u][b]) =>
               /\ RL - 1 + Burst <= e.bank[u][b].nextRead + RL + 1
               /\ RL - 1 + Burst <= e.bank[u][b].nextWrite + RL - 1
    <3> SUFFICES ASSUME NEW u \in Ranks, NEW b \in Banks, Usable(e.bank[u][b])
                 PROVE  /\ RL - 1 + Burst <= e.bank[u][b].nextRead + RL + 1
                        /\ RL - 1 + Burst <= e.bank[u][b].nextWrite + RL - 1
      OBVIOUS
    <3>1. e.bank[u][b].nextRead >= Burst /\ e.bank[u][b].nextWrite >= Burst
      BY <1>5, <1>8 DEF Follows, Postponed
    <3> QED
      BY <1>3, <1>4, <3>1
  <2> QED
    BY <1>6, <2>1, <2>2 DEF C
<1>9. CASE ~IsColumn(p)
  <2>1. C = B /\ LaneTypes(C) /\ Timetable(C)
    BY <1>1, <1>2, <1>9
  <2>2. Over(C, RL + Burst + 1)
    BY <1>1, <1>3, <2>1, OverLater
  <2>3. Clear(e, 0)
    <3> SUFFICES ASSUME NEW u \in Ranks, NEW b \in Banks, Usable(e.bank[u][b])
                 PROVE  /\ Over(C, e.bank[u][b].nextRead + RL + 1 + 0)
                        /\ Over(C, e.bank[u][b].nextWrite + RL - 1 + 0)
      BY DEF Clear, C
    <3> DEFINE x == s.bank[u][b]
               y == e.bank[u][b]
               f == y.nextRead + RL + 1 + 0
               g == y.nextWrite + RL - 1 + 0
    <3>1. x.nextRead \in Nat /\ x.nextWrite \in Nat /\ y.nextRead \in Nat /\ y.nextWrite \in Nat
      BY <1>4
    <3>2. CASE Usable(x) /\ Postponed(x, y, p)
      <4> DEFINE f1 == x.nextRead + RL + 1 + 0
                 g1 == x.nextWrite + RL - 1 + 0
      <4>1. Over(B, f1) /\ Over(B, g1)
        BY <1>1, <3>2 DEF Clear, B
      <4>2. y.nextRead >= x.nextRead /\ y.nextWrite >= x.nextWrite
        BY <3>2 DEF Postponed
      <4> HIDE DEF x, y
      <4>3. f1 \in Int /\ g1 \in Int /\ f \in Int /\ g \in Int /\ f1 <= f /\ g1 <= g
        BY <1>3, <3>1, <4>2
      <4> HIDE DEF f, g, f1, g1
      <4>4. Over(B, f) /\ Over(B, g)
        BY <1>1, <4>1, <4>3, OverLater
      <4> QED
        BY <2>1, <4>4 DEF f, g, y
    <3>3. CASE y.nextRead >= Burst + 1 /\ y.nextWrite >= Burst + 1
      <4> HIDE DEF x, y
      <4>1. /\ f \in Int /\ g \in Int /\ RL + Burst \in Int /\ RL + Burst <= f
            /\ RL + Burst <= g
        BY <1>3, <3>1, <3>3
      <4> HIDE DEF f, g
      <4>2. Over(B, f) /\ Over(B, g)
        BY <1>1, <4>1, OverLater
      <4> QED
        BY <2>1, <4>2 DEF f, g, y
    <3> QED
      BY <3>2, <3>3 DEF Follows
  <2> QED
    BY <1>2, <2>1, <2>2, <2>3 DEF BusOK, C
<1> QED
  BY <1>7, <1>8, <1>9 DEF IsColumn

(* MemoryController::update: the command that pop returns. *)
LEMMA BusIssued ==
  ASSUME NEW s, Inv(s), MidInv(s), NEW e, e = IssueCommand(s)
  PROVE  BusOK(e, 0) /\ Over(Schedule(e), RL + Burst + 1)
<1> USE BurstIsLong
<1> DEFINE t == FawTick(s)
           d == Pop(s).m
           p == Pop(s).packet
           n == IF IsWrite(p)
                THEN [d EXCEPT !.writes = Append(@, [p |-> [p EXCEPT !.type = "DATA"],
                                                     in |-> WL])]
                ELSE d
           u == Issued(n, p)
<1>1. Inv(t) /\ PopStep(t, d) /\ Chosen(t, d, p)
  BY PopChosen
<1>2. DOMAIN s = Fields /\ BankShape(s) /\ DOMAIN s.ranks = Ranks
  BY DEF Inv, Shape, MidInv, BusOK, BusTypes
<1>3. t.bank = s.bank /\ t.ranks = s.ranks /\ t.cmd = s.cmd /\ t.data = s.data
      /\ t.writes = s.writes
  BY <1>2 DEF FawTick, Fields
<1>4. e = IF p = NoPacket THEN d
          ELSE [u EXCEPT !.error = @ \/ s.cmd.p # NoPacket, !.cmd = [p |-> p, left |-> T.tCMD]]
  BY DEF IssueCommand
<1> HIDE DEF t, d, p
<1>5. /\ DOMAIN d = Fields /\ d.bank = s.bank /\ d.ranks = s.ranks /\ d.cmd = s.cmd
      /\ d.data = s.data /\ d.writes = s.writes
  BY <1>1, <1>3 DEF PopStep, Frame, Fields
<1>6. BusOK(s, 0) /\ TimeTypes(s) /\ BusTypes(s) /\ LaneTypes(Schedule(s))
      /\ Clear(s, 0) /\ Over(Schedule(s), RL + Burst)
  BY DEF MidInv, BusOK
<1>7. CASE p = NoPacket
  <2>1. e = d
    BY <1>4, <1>7
  <2>2. SameBuses(s, e)
    BY <1>5, <1>6, <2>1 DEF SameBuses, BusTypes, RankTypes
  <2>3. TimeTypes(e)
    BY <1>5, <1>6, <2>1 DEF TimeTypes
  <2>4. BusOK(e, 0) /\ Schedule(e) = Schedule(s)
    BY <1>5, <1>6, <2>1, <2>2, <2>3, BusOfSame
  <2>5. Over(Schedule(s), RL + Burst + 1)
    BY <1>6, OverLater, Delays
  <2> QED
    BY <2>4, <2>5
<1>8. CASE p # NoPacket
  <2>1. p.rank \in Ranks /\ p.bank \in Banks /\ p.type \in Kinds
    BY <1>1, <1>8, PacketNamesBank
  <2>2. /\ DOMAIN n = Fields /\ \A f \in Fields \ {"writes"} : n[f] = d[f]
        /\ n.writes = IF IsWrite(p)
                      THEN Append(s.writes, [p |-> [p EXCEPT !.type = "DATA"], in |-> WL])
                      ELSE s.writes
    BY <1>5 DEF Fields
  <2> HIDE DEF n
  <2>3. n.bank = s.bank /\ n.ranks = s.ranks /\ n.data = s.data
    BY <1>5, <2>2 DEF Fields
  <2>4. BankShape(n) /\ TimeTypes(n)
    BY <1>2, <1>6, <2>3 DEF BankShape, TimeTypes
  <2>5. IsColumn(p) =>
         /\ p \in Commands /\ Usable(s.bank[p.rank][p.bank])
         /\ IsRead(p) => s.bank[p.rank][p.bank].nextRead = 0
         /\ IsWrite(p) => s.bank[p.rank][p.bank].nextWrite = 0
    BY <1>1, <1>3, ColumnIsReady
  <2>6. /\ TimeTypes(u)
        /\ \A r \in Ranks, b \in Banks :
              Usable(u.bank[r][b]) => Follows(n.bank[r][b], u.bank[r][b], p)
    BY <2>1, <2>2, <2>3, <2>4, <2>5, IssuedTimes
  <2>7. BankChange(n, u)
    BY <2>1, <2>2, <2>4, CommandTakesEffect
  <2> HIDE DEF u
  <2>8. /\ DOMAIN u = Fields /\ u.ranks = s.ranks /\ u.data = s.data
        /\ u.writes = n.writes
    BY <2>3, <2>7 DEF BankChange, Frame, Fields
  <2>9. /\ e.ranks = u.ranks /\ e.data = u.data /\ e.writes = u.writes /\ e.bank = u.bank
        /\ e.cmd = [p |-> p, left |-> T.tCMD]
    BY <1>4, <1>8, <2>8 DEF Fields
  <2>10. Sends(s, e, p)
    BY <2>2, <2>8, <2>9 DEF Sends
  <2>11. TimeTypes(e)
    BY <2>6, <2>9 DEF TimeTypes
  <2>12. \A r \in Ranks, b \in Banks :
              Usable(e.bank[r][b]) => Follows(s.bank[r][b], e.bank[r][b], p)
    BY <2>3, <2>6, <2>9
  <2>13. IsRead(p) => Over(Schedule(s), RL + 1)
    <3> SUFFICES ASSUME IsRead(p) PROVE Over(Schedule(s), RL + 1)
      OBVIOUS
    <3>1. IsColumn(p)
      BY DEF IsColumn
    <3>2. Over(Schedule(s), s.bank[p.rank][p.bank].nextRead + RL + 1 + 0)
      BY <1>6, <2>1, <2>5, <3>1 DEF Clear
    <3>3. s.bank[p.rank][p.bank].nextRead + RL + 1 + 0 = RL + 1
      BY <2>5, <3>1, Delays
    <3> QED
      BY <3>2, <3>3
  <2>14. IsWrite(p) => Over(Schedule(s), RL - 1)
    <3> SUFFICES ASSUME IsWrite(p) PROVE Over(Schedule(s), RL - 1)
      OBVIOUS
    <3>1. IsColumn(p)
      BY DEF IsColumn
    <3>2. Over(Schedule(s), s.bank[p.rank][p.bank].nextWrite + RL - 1 + 0)
      BY <1>6, <2>1, <2>5, <3>1 DEF Clear
    <3>3. s.bank[p.rank][p.bank].nextWrite + RL - 1 + 0 = RL - 1
      BY <2>5, <3>1, Delays
    <3> QED
      BY <3>2, <3>3
  <2> QED
    BY <2>1, <2>5, <2>10, <2>11, <2>12, <2>13, <2>14, BurstIssued
<1> QED
  BY <1>7, <1>8

(* The rest of the cycle: what holds after a command was issued. *)
LateInv(s) == BusOK(s, 0) /\ Over(Schedule(s), RL + Burst + 1)

(* Where no burst and no time that matters has changed. *)
LEMMA LateOfSame ==
  ASSUME NEW s, LateInv(s), NEW d, d.cmd = s.cmd, d.data = s.data, d.writes = s.writes,
         d.ranks = s.ranks, d.bank = s.bank
  PROVE  LateInv(d)
<1>1. SameBuses(s, d)
  BY DEF SameBuses, LateInv, BusOK, BusTypes, RankTypes
<1>2. TimeTypes(d)
  BY DEF LateInv, BusOK, TimeTypes
<1>3. BusOK(d, 0) /\ Schedule(d) = Schedule(s)
  BY <1>1, <1>2, BusOfSame DEF LateInv
<1> QED
  BY <1>3 DEF LateInv

(* A bank of a rank that may be powered down or up. *)
Powered(s, r, x) ==
  CASE GoesDown(s, r) -> [x EXCEPT !.state = "PowerDown", !.nextPowerUp = T.tCKE]
    [] ComesUp(s, r) -> [x EXCEPT !.state = "Idle", !.nextActivate = T.tXP]
    [] OTHER -> x

(* A rank that is powered down or up has no open row. *)
LEMMA PowerKeepsBus ==
  ASSUME NEW s, Inv(s), LateInv(s), NEW d, d = PowerRanks(s)
  PROVE  LateInv(d)
<1>1. CASE ~s.config.lowPower
  BY <1>1 DEF PowerRanks
<1>2. CASE s.config.lowPower
  <2>1. /\ DOMAIN s = Fields /\ BankShape(s) /\ TimeTypes(s) /\ BusOK(s, 0)
        /\ DOMAIN s.ranks = Ranks /\ \A r \in Ranks : DOMAIN s.ranks[r] = RankFields
    BY DEF Inv, Shape, LateInv, BusOK, BusTypes, RankTypes
  <2>2. /\ d.cmd = s.cmd /\ d.data = s.data /\ d.writes = s.writes
        /\ d.ranks = [r \in Ranks |-> CASE GoesDown(s, r) -> PowerDown(s.ranks[r])
                                        [] ComesUp(s, r) -> PowerUp(s.ranks[r])
                                        [] OTHER -> s.ranks[r]]
        /\ d.bank = [r \in Ranks |-> [b \in Banks |-> Powered(s, r, s.bank[r][b])]]
    BY <1>2, <2>1 DEF PowerRanks, Powered, Fields
  <2>3. ASSUME NEW r \in Ranks
        PROVE  /\ DOMAIN d.ranks[r] = RankFields
               /\ d.ranks[r].returning = s.ranks[r].returning
               /\ d.ranks[r].out = s.ranks[r].out /\ d.ranks[r].left = s.ranks[r].left
    <3>1. d.ranks[r] \in {PowerDown(s.ranks[r]), PowerUp(s.ranks[r]), s.ranks[r]}
      BY <2>2
    <3> QED
      BY <2>1, <3>1 DEF PowerDown, PowerUp, RankFields
  <2>4. SameBuses(s, d)
    BY <2>2, <2>3 DEF SameBuses
  <2>5. ASSUME NEW r \in Ranks, NEW b \in Banks
        PROVE  LET x == s.bank[r][b]
                   y == d.bank[r][b]
               IN  /\ y.nextRead = x.nextRead /\ y.nextWrite = x.nextWrite
                   /\ y.nextActivate \in Nat /\ (Usable(y) => Usable(x))
    <3> DEFINE x == s.bank[r][b]
               y == d.bank[r][b]
    <3>1. DOMAIN x = BankFields /\ x.nextActivate \in Nat /\ T.tXP \in Nat
      BY <2>1, DelaysAreNat DEF BankShape, TimeTypes
    <3>2. y = Powered(s, r, x)
      BY <2>2
    <3> HIDE DEF x, y
    <3>3. /\ y.nextRead = x.nextRead /\ y.nextWrite = x.nextWrite
          /\ y.nextActivate \in Nat /\ (Usable(y) => Usable(x))
      BY <3>1, <3>2 DEF BankFields, Usable, Powered
    <3> QED
      BY <3>3 DEF x, y
  <2>6. TimeTypes(d)
    BY <2>1, <2>5 DEF TimeTypes
  <2>7. BusOK(d, 0) /\ Schedule(d) = Schedule(s)
    BY <2>1, <2>4, <2>5, <2>6, BusOfSame
  <2> QED
    BY <2>7 DEF LateInv
<1> QED
  BY <1>1, <1>2

(* The clock: what is clear now is clear for the next cycle. *)
LEMMA TickKeepsBus ==
  ASSUME NEW s, Inv(s), LateInv(s), NEW d, d = Tick(s)
  PROVE  BusInv(d)
<1>1. /\ DOMAIN s = Fields /\ BankShape(s) /\ TimeTypes(s) /\ BusTypes(s)
      /\ LaneTypes(Schedule(s)) /\ Timetable(Schedule(s)) /\ Clear(s, 0)
      /\ Over(Schedule(s), RL + Burst + 1)
      /\ DOMAIN s.ranks = Ranks /\ \A r \in Ranks : DOMAIN s.ranks[r] = RankFields
  <2>1. DOMAIN s = Fields /\ BankShape(s)
    BY DEF Inv, Shape
  <2>2. /\ TimeTypes(s) /\ BusTypes(s) /\ LaneTypes(Schedule(s)) /\ Timetable(Schedule(s))
        /\ Clear(s, 0) /\ Over(Schedule(s), RL + Burst + 1)
    BY DEF LateInv, BusOK
  <2>3. DOMAIN s.ranks = Ranks /\ \A r \in Ranks : DOMAIN s.ranks[r] = RankFields
    BY <2>2 DEF BusTypes, RankTypes
  <2> QED
    BY <2>1, <2>2, <2>3
<1>2. /\ d.cmd = s.cmd /\ d.data = s.data /\ d.writes = s.writes
      /\ d.ranks = [r \in Ranks |-> Aged(s.ranks[r])]
      /\ d.bank = [r \in Ranks |-> [b \in Banks |-> Older(s.bank[r][b])]]
  <2>1. d = [s EXCEPT !.countdown = [r \in Ranks |-> s.countdown[r] - 1],
                      !.bank = [r \in Ranks |-> [b \in Banks |-> Older(s.bank[r][b])]],
                      !.ranks = [r \in Ranks |-> Aged(s.ranks[r])]]
    BY DEF Tick
  <2> QED
    BY <1>1, <2>1 DEF Fields
<1>3. ASSUME NEW r \in Ranks
      PROVE  /\ DOMAIN d.ranks[r] = RankFields
             /\ d.ranks[r].returning = s.ranks[r].returning
             /\ d.ranks[r].out = s.ranks[r].out /\ d.ranks[r].left = s.ranks[r].left
  BY <1>1, <1>2 DEF RankFields, Aged
<1>4. SameBuses(s, d)
  BY <1>2, <1>3 DEF SameBuses
<1>5. BusTypes(d) /\ Schedule(d) = Schedule(s)
  BY <1>1, <1>4, BusesOfSame
<1>6. ASSUME NEW r \in Ranks, NEW b \in Banks
      PROVE  LET x == s.bank[r][b]
                 y == d.bank[r][b]
             IN  /\ y.nextRead = Down(x.nextRead) /\ y.nextWrite = Down(x.nextWrite)
                 /\ y.nextActivate = Down(x.nextActivate) /\ (Usable(y) => Usable(x))
  <2> DEFINE x == s.bank[r][b]
             y == d.bank[r][b]
  <2>1. DOMAIN x = BankFields /\ y = Older(x)
    BY <1>1, <1>2 DEF BankShape
  <2> HIDE DEF x, y
  <2>2. /\ y.nextRead = Down(x.nextRead) /\ y.nextWrite = Down(x.nextWrite)
        /\ y.nextActivate = Down(x.nextActivate) /\ (Usable(y) => Usable(x))
    BY <2>1 DEF BankFields, Usable, Older
  <2> QED
    BY <2>2 DEF x, y
<1>7. \A i \in Nat : Down(i) \in Nat /\ i <= Down(i) + 1
  BY DEF Down
<1>8. TimeTypes(d)
  BY <1>1, <1>6, <1>7 DEF TimeTypes
<1>9. Clear(d, 1)
  <2> DEFINE B == Schedule(s)
  <2> SUFFICES ASSUME NEW r \in Ranks, NEW b \in Banks, Usable(d.bank[r][b])
               PROVE  /\ Over(B, d.bank[r][b].nextRead + RL + 1 + 1)
                      /\ Over(B, d.bank[r][b].nextWrite + RL - 1 + 1)
    BY <1>5 DEF Clear
  <2> DEFINE x == s.bank[r][b]
             y == d.bank[r][b]
             e == x.nextRead + RL + 1 + 0
             f == x.nextWrite + RL - 1 + 0
             g == y.nextRead + RL + 1 + 1
             h == y.nextWrite + RL - 1 + 1
  <2>1. Over(B, e) /\ Over(B, f)
    BY <1>1, <1>6 DEF Clear
  <2>2. x.nextRead \in Nat /\ x.nextWrite \in Nat /\ y.nextRead \in Nat /\ y.nextWrite \in Nat
    BY <1>1, <1>8 DEF TimeTypes
  <2>3. x.nextRead <= y.nextRead + 1 /\ x.nextWrite <= y.nextWrite + 1
    BY <1>6, <1>7, <2>2
  <2> HIDE DEF x, y
  <2>4. e \in Int /\ f \in Int /\ g \in Int /\ h \in Int /\ e <= g /\ f <= h
    BY <2>2, <2>3, Delays
  <2> HIDE DEF e, f, g, h, B
  <2>5. Over(B, g) /\ Over(B, h)
    BY <1>1, <2>1, <2>4, OverLater DEF B
  <2> QED
    BY <2>5 DEF g, h, y
<1> QED
  BY <1>1, <1>5, <1>8, <1>9 DEF BusInv, BusOK

(* MemorySystem::update *)
LEMMA CycleKeepsBus ==
  ASSUME Inv(m), BusInv(m), Cycle
  PROVE  BusInv(m')
<1> DEFINE b == Buses(m)
           c == RefreshDue(b)
           d == IssueCommand(c)
           e == SplitTransactions(d)
           f == PowerRanks(e)
           g == ReturnRead(f)
<1>1. m' = Tick(g)
  BY DEF Cycle, Buses
<1>2. Inv(b)
  <2> DEFINE a == UpdateBanks(AdmitExtra(UpdateRanks(m)))
  <2>1. Inv(UpdateRanks(m))
    BY RanksUpdated
  <2>2. Inv(AdmitExtra(UpdateRanks(m)))
    BY <2>1, ExtraAdmitted
  <2>3. Inv(a)
    BY <2>2, BanksUpdated
  <2>4. b = SendWriteData(DeliverData(DeliverCommand(a)))
    BY DEF Buses
  <2> HIDE DEF a
  <2>5. Inv(DeliverCommand(a))
    BY <2>3, CommandDelivered
  <2>6. Inv(DeliverData(DeliverCommand(a)))
    BY <2>5, DataDelivered
  <2> QED
    BY <2>4, <2>6, WriteDataSent
<1>3. MidInv(b)
  BY BusesStep
<1> HIDE DEF b
<1>4. Inv(c) /\ MidInv(c)
  <2>1. DOMAIN b = Fields
    BY <1>2 DEF Inv, Shape
  <2> QED
    BY <1>2, <1>3, <2>1, RefreshCounted, RefreshMid
<1>5. \A r \in Ranks : c.countdown[r] >= 1
  BY <1>2, RefreshCounted
<1> HIDE DEF c
<1>6. Inv(d) /\ LateInv(d)
  BY <1>4, <1>5, CommandsIssued, BusIssued DEF LateInv
<1> HIDE DEF d
<1>7. Inv(e) /\ LateInv(e)
  <2>1. Inv(e) /\ BusKept(d, e)
    BY <1>6, TransactionsSplit
  <2> HIDE DEF e
  <2> QED
    BY <1>6, <2>1, LateOfSame DEF BusKept
<1> HIDE DEF e
<1>8. Inv(f) /\ LateInv(f)
  BY <1>7, RanksPowered, PowerKeepsBus
<1> HIDE DEF f
<1>9. Inv(g) /\ LateInv(g)
  <2>1. Inv(g)
    BY <1>8, ReadReturned
  <2>2. DOMAIN f = Fields
    BY <1>8 DEF Inv, Shape
  <2>3. /\ g.cmd = f.cmd /\ g.data = f.data /\ g.writes = f.writes
        /\ g.ranks = f.ranks /\ g.bank = f.bank
    BY <2>2 DEF ReturnRead, Fields
  <2> HIDE DEF g
  <2> QED
    BY <1>8, <2>1, <2>3, LateOfSame
<1> HIDE DEF g
<1> QED
  BY <1>1, <1>9, TickKeepsBus

(* At the beginning there is no burst. *)
LEMMA BusBegins ==
  ASSUME Init
  PROVE  BusInv(m)
<1> DEFINE B == Schedule(m)
<1>1. /\ m.ranks = [r \in Ranks |-> NewRank] /\ m.writes = <<>>
      /\ m.bank = [r \in Ranks |-> [b \in Banks |-> NewBank]]
      /\ m.cmd = [p |-> NoPacket, left |-> 0] /\ m.data = [p |-> NoPacket, left |-> 0]
  BY DEF Init
<1>2. RankTypes(NewRank)
  BY DEF RankTypes, NewRank, RankFields
<1>3. WriteTypes(m) /\ CommandTypes(m)
  BY <1>1 DEF WriteTypes, CommandTypes, IsRead, NoPacket
<1>4. BusTypes(m)
  BY <1>1, <1>2, <1>3 DEF BusTypes
<1>5. /\ WriteLane(m, B) /\ (\A r \in Ranks : RankLane(m, B, r)) /\ LaneTypes(B)
  BY <1>4, LanesAre
<1> HIDE DEF B
<1>6. ASSUME NEW l \in Lanes PROVE Bursts(B, l) = 0 /\ Left(B, l) = 0
  <2>1. CASE l = NoRank
    BY <1>1, <1>5, <2>1 DEF WriteLane
  <2>2. CASE l \in Ranks
    <3>1. ~Asked(m, l)
      BY <1>1 DEF Asked, IsRead, NoPacket
    <3>2. m.ranks[l].returning = <<>> /\ m.ranks[l].left = 0
      BY <1>1, <2>2 DEF NewRank
    <3> QED
      BY <1>5, <2>2, <3>1, <3>2 DEF RankLane
  <2> QED
    BY <2>1, <2>2 DEF Lanes
<1>7. Timetable(B)
  BY <1>6 DEF Timetable
<1>8. Over(B, RL + Burst + 1)
  BY <1>6, Delays DEF Over
<1>9. TimeTypes(m)
  BY <1>1 DEF TimeTypes, NewBank
<1>10. Clear(m, 1)
  BY <1>1 DEF Clear, Usable, NewBank
<1> QED
  BY <1>4, <1>5, <1>7, <1>8, <1>9, <1>10 DEF BusInv, BusOK, B

(* MemorySystem::addTransaction *)
LEMMA AddKeepsBus ==
  ASSUME Inv(m), BusInv(m), NEW t \in Transactions, AddTransaction(t)
  PROVE  BusInv(m')
<1>1. /\ DOMAIN m = Fields
      /\ \/ m' = [m EXCEPT !.trans = Append(@, t)]
         \/ m' = [m EXCEPT !.extra = Append(@, t)]
  BY DEF AddTransaction, Inv, Shape
<1>2. /\ m'.cmd = m.cmd /\ m'.data = m.data /\ m'.writes = m.writes
      /\ m'.ranks = m.ranks /\ m'.bank = m.bank
  BY <1>1 DEF Fields
<1>3. SameBuses(m, m')
  BY <1>2 DEF SameBuses, BusInv, BusOK, BusTypes, RankTypes
<1>4. TimeTypes(m')
  BY <1>2 DEF BusInv, BusOK, TimeTypes
<1>5. BusOK(m', 1) /\ Schedule(m') = Schedule(m)
  BY <1>2, <1>3, <1>4, BusOfSame DEF BusInv
<1> QED
  BY <1>5 DEF BusInv

(* The timetable is kept. *)
LEMMA BusHolds == Spec => [](Inv(m) /\ BusInv(m))
<1>1. Init => Inv(m) /\ BusInv(m)
  BY InvBegins, BusBegins
<1>2. ASSUME Inv(m) /\ BusInv(m), [Next]_vars PROVE (Inv(m) /\ BusInv(m))'
  <2>1. CASE Cycle
    BY <1>2, <2>1, CycleKeeps, CycleKeepsBus
  <2>2. CASE \E t \in Transactions : AddTransaction(t)
    BY <1>2, <2>2, TransactionAdded, AddKeepsBus
  <2>3. CASE UNCHANGED vars
    BY <1>2, <2>3 DEF vars
  <2> QED
    BY <1>2, <2>1, <2>2, <2>3 DEF Next
<1> QED
  BY <1>1, <1>2, PTL DEF Spec

(* At most one burst is on the data bus, whatever the delays, the number   *)
(* of ranks and the settings, although a rank and the controller put theirs*)
(* there without a look: the times a bank waits for (nextRead, nextWrite)  *)
(* keep every new burst behind all those that are promised                 *)
(* (MemoryController::update, Rank::update).                               *)
THEOREM OneBurstAtATime == Spec => []DataBusIsExclusive
<1>1. ASSUME BusInv(m) PROVE DataBusIsExclusive
  <2> DEFINE B == Schedule(m)
             senders == {r \in Ranks : m.ranks[r].out # NoPacket}
  <2>1. BusTypes(m) /\ Timetable(B)
    BY <1>1 DEF BusInv, BusOK
  <2>2. WriteLane(m, B) /\ \A r \in Ranks : RankLane(m, B, r)
    BY <2>1, LanesAre
  <2> HIDE DEF B
  <2>3. /\ \A r \in Ranks : r \in senders => Left(B, r) # 0
        /\ m.data.p # NoPacket => Left(B, NoRank) # 0
    BY <2>1, <2>2 DEF BusTypes, RankTypes, WriteTypes, RankLane, WriteLane
  <2>4. \A k, l \in Lanes : k # l => Left(B, k) = 0 \/ Left(B, l) = 0
    BY <2>1 DEF Timetable
  <2>5. \A r, x \in senders : r = x
    BY <2>3, <2>4, NoRankIsNone
  <2>6. m.data.p # NoPacket => senders = {}
    BY <2>3, <2>4, NoRankIsNone
  <2> HIDE DEF senders
  <2>7. CASE senders = {}
    <3>1. Cardinality(senders) = 0
      BY <2>7, FS_EmptySet
    <3> QED
      BY <3>1 DEF DataBusIsExclusive, senders
  <2>8. CASE senders # {}
    <3>1. PICK r : r \in senders
      BY <2>8
    <3>2. senders = {r}
      BY <2>5, <3>1
    <3>3. Cardinality(senders) = 1
      BY <3>2, FS_Singleton
    <3>4. m.data.p = NoPacket
      BY <2>6, <2>8
    <3> QED
      BY <3>3, <3>4 DEF DataBusIsExclusive, senders
  <2> QED
    BY <2>7, <2>8
<1> QED
  BY <1>1, BusHolds, PTL

=============================================================================
