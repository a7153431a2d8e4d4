---------------------------- MODULE CommandQueue ----------------------------
(***************************************************************************)
(* The command queue of the memory controller                              *)
(* (src/DRAMSim2/CommandQueue.cpp): which command leaves next.  The        *)
(* operators take the memory system m (see MemoryController); the queue    *)
(* uses                                                                    *)
(*   config     structure, page, policy: the parameters of system.ini      *)
(*   queue      rank -> bank -> sequence of packets (bank 0 only, for      *)
(*              PerRank)                                                   *)
(*   bank       bankStates                                                 *)
(*   rowAccess  rowAccessCounters                                          *)
(*   faw        tFAWCountdown                                              *)
(*   at, pre    <<rank, bank>>: nextRank/nextBank, nextRankPRE/nextBankPRE *)
(*   sendAct                                                               *)
(*   refresh    the rank waiting for a refresh (refreshRank), or NoRank    *)
(***************************************************************************)
EXTENDS BankState, FiniteSetsExt

CONSTANTS CmdQueueDepth,     \* CMD_QUEUE_DEPTH
          TotalRowAccesses   \* TOTAL_ROW_ACCESSES

NoRank == -1

QueueBank(m, b) == IF m.config.structure = "PerRank" THEN 0 ELSE b
QueueOf(m, r, b) == m.queue[r][QueueBank(m, b)]

(* CommandQueue::enqueue, hasRoomFor, isEmpty *)
Enqueue(m, p) == [m EXCEPT !.queue[p.rank][QueueBank(m, p.bank)] = Append(@, p)]
(* Mutant: off by one. *)
HasRoomForOneLess(m, n, r, b) == CmdQueueDepth - Len(QueueOf(m, r, b)) >= n - 1
HasRoomFor(m, n, r, b) == CmdQueueDepth - Len(QueueOf(m, r, b)) >= n
IsEmpty(m, r) == \A b \in Banks : m.queue[r][b] = <<>>

(* CommandQueue::isIssuable *)
IsIssuable(m, p) ==
  LET b == m.bank[p.rank][p.bank]
      column(next) == /\ b.state = "RowActive" /\ next = 0 /\ b.row = p.row
                      /\ m.rowAccess[p.rank][p.bank] < TotalRowAccesses
  IN  CASE p.type = "ACTIVATE" -> /\ b.state \in {"Idle", "Refreshing"}
                                  /\ b.nextActivate = 0
                                  /\ Len(m.faw[p.rank]) < 4
        [] IsWrite(p) -> column(b.nextWrite)
        [] IsRead(p) -> column(b.nextRead)

-----------------------------------------------------------------------------
(* Round robin.                                                            *)

(* The next position of the scheduling policy. *)
Following(m, pos) ==
  LET r == (pos[1] + 1) % NumRanks
      b == (pos[2] + 1) % NumBanks
  IN  IF m.config.policy = "RankThenBank"
      THEN <<r, IF r = 0 THEN b ELSE pos[2]>>
      ELSE <<IF b = 0 THEN r ELSE pos[1], b>>

(* PerRank looks at one rank after the other and leaves the bank alone. *)
NextQueue(m, pos) ==
  IF m.config.structure = "PerRank" THEN <<(pos[1] + 1) % NumRanks, pos[2]>>
                                    ELSE Following(m, pos)

(* The positions of a do-while loop that starts at "from" and steps with   *)
(* "next" until it is at "stop": all of them when it never is.             *)
Loop(next, from, stop) ==
  LET n == NumRanks * NumBanks
      walk[i \in 0 .. (n - 1)] == IF i = 0 THEN from ELSE next[walk[i - 1]]
      back == {i \in 1 .. (n - 1) : walk[i] = stop}
  IN  [i \in 1 .. (IF back = {} THEN n ELSE Min(back)) |-> walk[i - 1]]

(* The first of the places where a search succeeds, 0 when there is none.  *)
First(hits) == IF hits = {} THEN 0 ELSE Min(hits)

-----------------------------------------------------------------------------
(* pop returns the queue afterwards and the packet, NoPacket for false.    *)

Result(m, p) == [m |-> m, packet |-> p]

Close(m, r, b) ==
  Result([m EXCEPT !.rowAccess[r][b] = 0], Packet("PRECHARGE", 0, r, b, 0))

(* A rank waits for a refresh: let the commands go that have their row     *)
(* open, close the rows (open page), and send the refresh when every bank  *)
(* is idle and its time has come.                                          *)
PopRefresh(m) ==
  LET r == m.refresh
      busy == {b \in Banks : \/ m.bank[r][b].state = "RowActive"
                             \/ m.bank[r][b].nextActivate > 0}
      b == Min(busy)
      q == QueueOf(m, r, b)
      j == First({i \in DOMAIN q : q[i].bank = b /\ q[i].row = m.bank[r][b].row})
      column == j # 0 /\ q[j].type # "ACTIVATE"
  IN  CASE r = NoRank -> Result(m, NoPacket)
        [] r # NoRank /\ busy = {} ->
             IF m.bank[r][0].state = "PowerDown" THEN Result(m, NoPacket)
             ELSE Result([m EXCEPT !.refresh = NoRank], Packet("REFRESH", 0, r, 0, 0))
        [] r # NoRank /\ busy # {} /\ m.bank[r][b].state # "RowActive" -> Result(m, NoPacket)
        [] r # NoRank /\ busy # {} /\ m.bank[r][b].state = "RowActive" ->
             IF column /\ IsIssuable(m, q[j])
             THEN Result([m EXCEPT !.queue[r][QueueBank(m, b)] = RemoveAt(@, j)], q[j])
             ELSE IF m.config.page = "Open" /\ ~column /\ m.bank[r][b].nextPrecharge = 0
                  THEN Close(m, r, b)
                  ELSE Result(m, NoPacket)

(* Command i of queue q may be the next one. *)
Choosable(m, q, i) ==
  /\ IsIssuable(m, q[i])
  /\ CASE m.config.page = "Open" ->
            \A j \in 1 .. (i - 1) :
              q[j].type = "ACTIVATE" \/ q[j].bank # q[i].bank \/ q[j].row # q[i].row
       [] m.config.page = "Close" /\ m.config.structure = "PerRank" ->
            ~(i > 1 /\ q[i - 1].type = "ACTIVATE" /\ q[i - 1].addr = q[i].addr)
       [] m.config.page = "Close" /\ m.config.structure = "PerRankPerBank" -> i = 1

(* Open page: a column access to a row that is open takes its activate     *)
(* along, and counts.                                                      *)
Take(m, r, b, i) ==
  LET q == QueueOf(m, r, b)
      paired == m.config.page = "Open" /\ i > 1 /\ q[i - 1].type = "ACTIVATE"
  IN  Result([m EXCEPT
         !.queue[r][QueueBank(m, b)] = IF paired THEN RemoveAt(RemoveAt(@, i), i - 1)
                                                 ELSE RemoveAt(@, i),
         !.rowAccess[r][q[i].bank] = IF paired THEN @ + 1 ELSE @], q[i])

(* The search of the queues, round robin; a rank that waits for a refresh  *)
(* is passed over.                                                         *)
PopCommand(m) ==
  LET pos == Loop([p \in Ranks \X Banks |-> NextQueue(m, p)], m.at, m.at)
      first(p) == First({i \in DOMAIN QueueOf(m, p[1], p[2]) :
                           Choosable(m, QueueOf(m, p[1], p[2]), i)})
      k == First({i \in DOMAIN pos : pos[i][1] # m.refresh /\ first(pos[i]) # 0})
  IN  IF k = 0 THEN Result(m, NoPacket)
      ELSE Take([m EXCEPT !.at = pos[k]], pos[k][1], pos[k][2], first(pos[k]))

(* Mutant: a row is closed although commands wait for it. *)
PopPrechargeAny(m) ==
  LET open == {p \in Ranks \X Banks : /\ m.bank[p[1]][p[2]].state = "RowActive"
                                      /\ m.bank[p[1]][p[2]].nextPrecharge = 0}
      p == CHOOSE x \in open : TRUE
  IN  IF m.config.page = "Close" \/ open = {} THEN Result(m, NoPacket)
      ELSE Close(m, p[1], p[2])

(* Nothing can be issued: close a row nobody waits for, or that was        *)
(* accessed too often.  With one queue per bank the start of the loop is   *)
(* kept in variables of type bool.                                         *)
PopPrecharge(m) ==
  LET bool(x) == IF x = 0 THEN 0 ELSE 1
      stop == IF m.config.structure = "PerRank" THEN m.pre
              ELSE <<bool(m.pre[1]), bool(m.pre[2])>>
      pos == Loop([p \in Ranks \X Banks |-> Following(m, p)], m.pre, stop)
      closable(r, b) ==
        /\ m.bank[r][b].state = "RowActive"
        /\ \/ m.rowAccess[r][b] = TotalRowAccesses
           \/ \A i \in DOMAIN QueueOf(m, r, b) :
                QueueOf(m, r, b)[i].bank # b \/ QueueOf(m, r, b)[i].row # m.bank[r][b].row
        /\ m.bank[r][b].nextPrecharge = 0
      k == First({i \in DOMAIN pos : closable(pos[i][1], pos[i][2])})
  IN  IF m.config.page = "Close" THEN Result(m, NoPacket)
      ELSE IF k = 0 THEN Result([m EXCEPT !.pre = stop], NoPacket)
           ELSE Close([m EXCEPT !.pre = pos[k]], pos[k][1], pos[k][2])

(* The book-keeping of the four-activate window, each cycle. *)
FawTick(m) ==
  [m EXCEPT !.faw = [r \in Ranks |->
     LET less == [i \in DOMAIN @[r] |-> @[r][i] - 1]
     IN  IF less # <<>> /\ Head(less) = 0 THEN Tail(less) ELSE less]]

(* What pop does once it has a packet. *)
Popped(res) ==
  LET m == res.m
      hold == T.AL > 0 /\ m.sendAct
      turned == [m EXCEPT !.sendAct = ~hold,
                          !.at = IF hold THEN @ ELSE Following(m, @)]
  IN  IF res.packet.type = "ACTIVATE"
      THEN Result([turned EXCEPT !.faw[res.packet.rank] = Append(@, T.tFAW)], res.packet)
      ELSE Result(turned, res.packet)

(* CommandQueue::pop *)
Pop(m) ==
  LET ticked == FawTick(m)
      ref == PopRefresh(ticked)
      cmd == PopCommand(ticked)
      pre == PopPrecharge(ticked)
  IN  CASE ref.packet # NoPacket -> Popped(ref)
        [] ref.packet = NoPacket /\ cmd.packet # NoPacket -> Popped(cmd)
        [] ref.packet = NoPacket /\ cmd.packet = NoPacket ->
             IF pre.packet # NoPacket THEN Popped(pre) ELSE pre

=============================================================================
