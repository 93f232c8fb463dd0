---------------------------- MODULE LedgerProofs ----------------------------
(***************************************************************************)
(* Proofs about Ledger, for every set of writers, processes and entries:   *)
(* an event is recorded at most once, what was acknowledged is recorded,   *)
(* transactions of a process do not overlap, the ledger implements         *)
(* Account, and its balances are the sums of its rows.                     *)
(***************************************************************************)
EXTENDS Ledger, TLAPS

\* The lock of a row has one holder.
LockHeldOnce == \A v, w \in Updated : call[v].entry.ws = call[w].entry.ws => v = w

\* What a transaction has checked still holds until it ends: the balance covers
\* the entry, and after the INSERT the key is new.
CheckedHolds ==
    /\ \A w \in Updated : Affected(call[w].entry)
    /\ \A w \in Writers : call[w].pc = "commit" => ~Recorded(call[w].entry.key)

\* A call about to be answered has its key in the table.
AnswersAreRecorded == \A w \in Writers : call[w].pc = "answer" => Recorded(call[w].entry.key)

\* The transaction that is open is the head of its chain.
Chain(w) == queue[ProcessOf[w]][Slot(call[w].entry)]
HeadRuns == \A w \in Open : Chain(w) # << >> /\ Head(Chain(w)) = w

\* The inductive invariant.
LedgerInv ==
    /\ TypeOK
    /\ OncePerKey
    /\ AckedIsRecorded
    /\ LockHeldOnce
    /\ CheckedHolds
    /\ AnswersAreRecorded
    /\ HeadRuns

Pcs == {"lookup", "queued", "update", "insert", "commit", "lost", "answer"}

\* A call that is not idle carries its entry.
LEMMA BusyCall ==
  ASSUME TypeOK, NEW w \in Writers, call[w].pc # "idle"
  PROVE  call[w] \in [pc : Pcs, entry : Entries, own : BOOLEAN]
BY DEF TypeOK, Idle, Pcs

\* The slot of an entry is one of the queues.
LEMMA SlotType == \A e \in Entries : Slot(e) \in Slots /\ e.ws \in Workspaces /\ e.amount \in Int /\ e.key \in Keys
BY LedgerAssumption DEF Slot, Slots

\* The initial state satisfies the invariant.
LEMMA InitInv == Init => LedgerInv
<1> SUFFICES ASSUME Init PROVE LedgerInv
  OBVIOUS
<1>1. TypeOK
  BY LedgerAssumption DEF Init, TypeOK, Idle
<1>2. Open = {} /\ Updated = {}
  BY DEF Init, Idle, Open, Updated
<1> QED
  BY <1>1, <1>2 DEF Init, LedgerInv, OncePerKey, AckedIsRecorded, LockHeldOnce, CheckedHolds,
     AnswersAreRecorded, HeadRuns, Idle

\* A step that leaves the tables alone keeps what they say.
LEMMA TablesStay ==
  ASSUME LedgerInv, UNCHANGED <<rows, balance, acked>>
  PROVE  OncePerKey' /\ AckedIsRecorded'
BY DEF LedgerInv, OncePerKey, AckedIsRecorded, Recorded, Affected

\* A call that moves to a state in which it has no transaction open keeps the
\* invariant, if the other open transactions stay the heads of their chains.
LEMMA CallMoves ==
  ASSUME LedgerInv, NEW w \in Writers, NEW c,
         \/ c = Idle
         \/ c \in [pc : {"lookup", "queued", "lost"}, entry : Entries, own : BOOLEAN]
         \/ c \in [pc : {"answer"}, entry : Entries, own : BOOLEAN] /\ Recorded(c.entry.key),
         call' = [call EXCEPT ![w] = c],
         queue' \in [Processes -> [Slots -> Seq(Writers)]],
         \A v \in Open : v # w => Chain(v)' # << >> /\ Head(Chain(v)') = v,
         UNCHANGED <<rows, balance, acked>>, crashes' \in 0 .. MaxCrash
  PROVE  LedgerInv'
<1>1. TypeOK'
  BY DEF LedgerInv, TypeOK
<1>2. \A v \in Writers : v # w => call'[v] = call[v]
  BY DEF LedgerInv, TypeOK
<1>3. call'[w] = c /\ c.pc \in {"idle", "lookup", "queued", "lost", "answer"}
  BY DEF LedgerInv, TypeOK, Idle
<1>4. Open' \subseteq Open /\ Updated' \subseteq Updated /\ w \notin Open' /\ w \notin Updated'
  BY <1>2, <1>3 DEF Open, Updated
<1>5. HeadRuns'
  BY <1>4 DEF LedgerInv, HeadRuns
<1>6. LockHeldOnce'
  BY <1>2, <1>4 DEF LedgerInv, LockHeldOnce, Updated
<1>7. CheckedHolds'
  <2>1. (\A v \in Updated : Affected(call[v].entry))'
    BY <1>2, <1>4 DEF LedgerInv, CheckedHolds, Updated, Affected
  <2>2. (\A v \in Writers : call[v].pc = "commit" => ~Recorded(call[v].entry.key))'
    BY <1>2, <1>3 DEF LedgerInv, CheckedHolds, Recorded
  <2> QED
    BY <2>1, <2>2 DEF CheckedHolds
<1>8. AnswersAreRecorded'
  <2> SUFFICES ASSUME NEW v \in Writers, call'[v].pc = "answer" PROVE Recorded(call[v].entry.key)'
    BY DEF AnswersAreRecorded
  <2>1. CASE v = w
    <3>1. c.pc = "answer" /\ c # Idle
      BY <2>1, <1>3 DEF Idle
    <3>2. Recorded(c.entry.key)
      BY <3>1
    <3> QED
      BY <2>1, <1>3, <3>2 DEF Recorded
  <2>2. CASE v # w
    BY <2>2, <1>2 DEF LedgerInv, AnswersAreRecorded, Recorded
  <2> QED
    BY <2>1, <2>2
<1> QED
  BY <1>1, <1>5, <1>6, <1>7, <1>8, TablesStay DEF LedgerInv

\* Two open transactions of one chain are the same one.
LEMMA ChainsDisjoint ==
  ASSUME LedgerInv, NEW v \in Open, NEW w \in Open,
         ProcessOf[v] = ProcessOf[w], Slot(call[v].entry) = Slot(call[w].entry)
  PROVE  v = w
BY DEF LedgerInv, HeadRuns, Chain

\* Settling an open transaction leaves the other chains as they are.
LEMMA SettleKeeps ==
  ASSUME LedgerInv, NEW w \in Open, Settle(w),
         \A v \in Open : v # w => call'[v] = call[v]
  PROVE  /\ queue' \in [Processes -> [Slots -> Seq(Writers)]]
         /\ \A v \in Open : v # w => Chain(v)' # << >> /\ Head(Chain(v)') = v
<1> DEFINE p == ProcessOf[w]
           k == Slot(call[w].entry)
<1>1. w \in Writers /\ call[w].pc # "idle"
  BY DEF Open
<1>2. p \in Processes /\ k \in Slots
  BY <1>1, BusyCall, SlotType, LedgerAssumption DEF LedgerInv
<1>3. queue[p][k] \in Seq(Writers) /\ queue[p][k] # << >>
  BY <1>2 DEF LedgerInv, TypeOK, HeadRuns, Chain
<1>4. Tail(queue[p][k]) \in Seq(Writers)
  BY <1>3
<1>5. queue' \in [Processes -> [Slots -> Seq(Writers)]]
  BY <1>2, <1>4 DEF Settle, LedgerInv, TypeOK
<1>6. ASSUME NEW v \in Open, v # w PROVE Chain(v)' = Chain(v)
  <2>1. v \in Writers /\ call[v].pc # "idle"
    BY DEF Open
  <2>2. ProcessOf[v] \in Processes /\ Slot(call[v].entry) \in Slots
    BY <2>1, BusyCall, SlotType, LedgerAssumption DEF LedgerInv
  <2>3. ProcessOf[v] # p \/ Slot(call[v].entry) # k
    BY <1>6, ChainsDisjoint
  <2>4. queue'[ProcessOf[v]][Slot(call[v].entry)] = queue[ProcessOf[v]][Slot(call[v].entry)]
    BY <1>2, <2>2, <2>3 DEF Settle, LedgerInv, TypeOK
  <2>5. call'[v].entry = call[v].entry
    BY <1>6
  <2> QED
    BY <2>4, <2>5 DEF Chain, Slot
<1> QED
  BY <1>5, <1>6 DEF LedgerInv, HeadRuns

\* Joining a chain at its end leaves the heads as they are.
LEMMA EnqueueKeeps ==
  ASSUME LedgerInv, NEW w \in Writers, NEW e \in Entries, w \notin Open,
         queue' = [queue EXCEPT ![ProcessOf[w]][Slot(e)] = Append(@, w)],
         \A v \in Open : call'[v] = call[v]
  PROVE  /\ queue' \in [Processes -> [Slots -> Seq(Writers)]]
         /\ \A v \in Open : Chain(v)' # << >> /\ Head(Chain(v)') = v
<1> DEFINE p == ProcessOf[w]
           k == Slot(e)
<1>1. p \in Processes /\ k \in Slots
  BY SlotType, LedgerAssumption
<1>2. queue[p][k] \in Seq(Writers)
  BY <1>1 DEF LedgerInv, TypeOK
<1>3. Append(queue[p][k], w) \in Seq(Writers)
  BY <1>2
<1>4. queue' \in [Processes -> [Slots -> Seq(Writers)]]
  BY <1>1, <1>3 DEF LedgerInv, TypeOK
<1>5. ASSUME NEW v \in Open PROVE Chain(v)' # << >> /\ Head(Chain(v)') = v
  <2>1. v \in Writers /\ call[v].pc # "idle"
    BY DEF Open
  <2> DEFINE q == ProcessOf[v]
             l == Slot(call[v].entry)
  <2>2. q \in Processes /\ l \in Slots
    BY <2>1, BusyCall, SlotType, LedgerAssumption DEF LedgerInv
  <2>3. queue[q][l] \in Seq(Writers) /\ queue[q][l] # << >> /\ Head(queue[q][l]) = v
    BY <2>2 DEF LedgerInv, TypeOK, HeadRuns, Chain
  <2>4. queue'[q][l] = IF q = p /\ l = k THEN Append(queue[q][l], w) ELSE queue[q][l]
    BY <1>1, <2>2 DEF LedgerInv, TypeOK
  <2>5. queue'[q][l] # << >> /\ Head(queue'[q][l]) = v
    BY <2>3, <2>4
  <2>6. Chain(v)' = queue'[q][l]
    BY DEF Chain, Slot
  <2> QED
    BY <2>5, <2>6
<1> QED
  BY <1>4, <1>5

\* The steps of the code that only move a call.
LEMMA MovingSteps ==
  ASSUME LedgerInv, NEW w \in Writers,
         \/ \E e \in Entries : RecordBegin(w, e) \/ Transaction(w, e)
         \/ RecordLookup(w)
         \/ TransactionFails(w)
         \/ FindWinner(w)
  PROVE  LedgerInv'
<1> USE DEF LedgerInv
<1>1. call \in [Writers -> {Idle} \cup [pc : Pcs, entry : Entries, own : BOOLEAN]]
      /\ queue \in [Processes -> [Slots -> Seq(Writers)]] /\ crashes \in 0 .. MaxCrash
  BY DEF TypeOK, Pcs
<1>2. UNCHANGED queue => \A v \in Open : v # w /\ call'[v] = call[v] => Chain(v)' # << >> /\ Head(Chain(v)') = v
  BY DEF HeadRuns, Chain, Slot
<1>3. ASSUME NEW e \in Entries, RecordBegin(w, e) PROVE LedgerInv'
  <2> DEFINE c == [pc |-> "lookup", entry |-> e, own |-> TRUE]
  <2>1. c \in [pc : {"lookup", "queued", "lost"}, entry : Entries, own : BOOLEAN]
    OBVIOUS
  <2>2. call' = [call EXCEPT ![w] = c] /\ UNCHANGED <<rows, balance, queue, acked, crashes>>
    BY <1>3 DEF RecordBegin
  <2>3. \A v \in Open : v # w => call'[v] = call[v]
    BY <2>2, <1>1 DEF Open
  <2> QED
    BY <1>1, <1>2, <2>1, <2>2, <2>3, CallMoves
<1>4. ASSUME NEW e \in Entries, Transaction(w, e) PROVE LedgerInv'
  <2> DEFINE c == [pc |-> "queued", entry |-> e, own |-> FALSE]
  <2>1. c \in [pc : {"lookup", "queued", "lost"}, entry : Entries, own : BOOLEAN]
    OBVIOUS
  <2>2. call' = [call EXCEPT ![w] = c] /\ UNCHANGED <<rows, balance, acked, crashes>>
    BY <1>4 DEF Transaction
  <2>3. w \notin Open /\ \A v \in Open : call'[v] = call[v]
    BY <1>4, <2>2, <1>1 DEF Open, Transaction, Idle
  <2>4. queue' = [queue EXCEPT ![ProcessOf[w]][Slot(e)] = Append(@, w)]
    BY <1>4 DEF Transaction
  <2> QED
    BY <1>1, <2>1, <2>2, <2>3, <2>4, EnqueueKeeps, CallMoves
<1>5. CASE RecordLookup(w)
  <2>1. call[w] \in [pc : Pcs, entry : Entries, own : BOOLEAN] /\ call[w].pc = "lookup"
    BY <1>5, BusyCall DEF RecordLookup
  <2>2. w \notin Open
    BY <2>1 DEF Open
  <2>3. CASE Recorded(call[w].entry.key)
    <3> DEFINE c == [call[w] EXCEPT !.pc = "answer"]
    <3>1. c \in [pc : {"answer"}, entry : Entries, own : BOOLEAN] /\ c.entry = call[w].entry
      BY <2>1
    <3>2. call' = [call EXCEPT ![w] = c] /\ UNCHANGED <<rows, balance, queue, acked, crashes>>
      BY <1>5, <2>3 DEF RecordLookup, GoTo
    <3>3. \A v \in Open : v # w => call'[v] = call[v]
      BY <3>2, <1>1 DEF Open
    <3> QED
      BY <1>1, <1>2, <2>3, <3>1, <3>2, <3>3, CallMoves
  <2>4. CASE ~Recorded(call[w].entry.key)
    <3> DEFINE c == [call[w] EXCEPT !.pc = "queued"]
    <3>1. c \in [pc : {"lookup", "queued", "lost"}, entry : Entries, own : BOOLEAN]
      BY <2>1
    <3>2. call' = [call EXCEPT ![w] = c] /\ UNCHANGED <<rows, balance, acked, crashes>>
      BY <1>5, <2>4 DEF RecordLookup, GoTo
    <3>3. \A v \in Open : call'[v] = call[v]
      BY <3>2, <1>1, <2>2 DEF Open
    <3>4. queue' = [queue EXCEPT ![ProcessOf[w]][Slot(call[w].entry)] = Append(@, w)]
      BY <1>5, <2>4 DEF RecordLookup
    <3> QED
      BY <1>1, <2>1, <2>2, <3>1, <3>2, <3>3, <3>4, EnqueueKeeps, CallMoves
  <2> QED
    BY <2>3, <2>4
<1>6. CASE TransactionFails(w)
  <2>1. w \in Open /\ Settle(w) /\ call' = [call EXCEPT ![w] = Idle]
        /\ UNCHANGED <<rows, balance, acked, crashes>>
    BY <1>6 DEF TransactionFails, Fail
  <2>2. \A v \in Open : v # w => call'[v] = call[v]
    BY <2>1, <1>1 DEF Open
  <2> QED
    BY <1>1, <2>1, <2>2, SettleKeeps, CallMoves
<1>7. CASE FindWinner(w)
  <2>1. call[w] \in [pc : Pcs, entry : Entries, own : BOOLEAN]
    BY <1>7, BusyCall DEF FindWinner
  <2>2. UNCHANGED <<rows, balance, queue, acked, crashes>>
    BY <1>7 DEF FindWinner
  <2>3. CASE Recorded(call[w].entry.key)
    <3> DEFINE c == [call[w] EXCEPT !.pc = "answer"]
    <3>1. c \in [pc : {"answer"}, entry : Entries, own : BOOLEAN] /\ c.entry = call[w].entry
      BY <2>1
    <3>2. call' = [call EXCEPT ![w] = c]
      BY <1>7, <2>3 DEF FindWinner, GoTo
    <3>3. \A v \in Open : v # w => call'[v] = call[v]
      BY <3>2, <1>1 DEF Open
    <3> QED
      BY <1>1, <1>2, <2>2, <2>3, <3>1, <3>2, <3>3, CallMoves
  <2>4. CASE ~Recorded(call[w].entry.key)
    <3>1. call' = [call EXCEPT ![w] = Idle]
      BY <1>7, <2>4 DEF FindWinner, Fail
    <3>2. \A v \in Open : v # w => call'[v] = call[v]
      BY <3>1, <1>1 DEF Open
    <3> QED
      BY <1>1, <1>2, <2>2, <3>1, <3>2, CallMoves
  <2> QED
    BY <2>3, <2>4
<1> QED
  BY <1>3, <1>4, <1>5, <1>6, <1>7

\* Answering a call acknowledges a key that is in the table.
LEMMA AnswerStep ==
  ASSUME LedgerInv, NEW w \in Writers, Answer(w)
  PROVE  LedgerInv'
<1>1. call[w] \in [pc : Pcs, entry : Entries, own : BOOLEAN] /\ call[w].pc = "answer"
  BY BusyCall DEF LedgerInv, Answer
<1>2. Recorded(call[w].entry.key) /\ call[w].entry.key \in Keys
  BY <1>1, SlotType DEF LedgerInv, AnswersAreRecorded
<1>3. call' = [call EXCEPT ![w] = Idle] /\ UNCHANGED <<rows, balance, queue, crashes>>
      /\ acked' = acked \cup {call[w].entry.key}
  BY DEF Answer
<1>4. TypeOK'
  BY <1>2, <1>3 DEF LedgerInv, TypeOK
<1>5. \A v \in Writers : v # w => call'[v] = call[v]
  BY <1>3 DEF LedgerInv, TypeOK
<1>6. call'[w].pc = "idle"
  BY <1>3 DEF LedgerInv, TypeOK, Idle
<1>7. Open' = Open /\ Updated' = Updated /\ w \notin Open /\ w \notin Updated
  BY <1>1, <1>5, <1>6 DEF Open, Updated
<1>8. OncePerKey' /\ AckedIsRecorded'
  BY <1>2, <1>3 DEF LedgerInv, OncePerKey, AckedIsRecorded, Recorded
<1>9. LockHeldOnce'
  BY <1>5, <1>7 DEF LedgerInv, LockHeldOnce, Updated
<1>10. CheckedHolds' /\ AnswersAreRecorded'
  BY <1>3, <1>5, <1>6, <1>7 DEF LedgerInv, CheckedHolds, AnswersAreRecorded, Updated, Affected, Recorded
<1>11. HeadRuns'
  BY <1>3, <1>5, <1>7 DEF LedgerInv, HeadRuns, Chain, Slot, Open
<1> QED
  BY <1>4, <1>8, <1>9, <1>10, <1>11 DEF LedgerInv

\* A crash forgets calls and chains of one process, and nothing of the tables.
LEMMA CrashStep ==
  ASSUME LedgerInv, NEW p \in Processes, Crash(p)
  PROVE  LedgerInv'
<1>1. call' = [w \in Writers |-> IF ProcessOf[w] = p THEN Idle ELSE call[w]]
      /\ queue' = [queue EXCEPT ![p] = [k \in Slots |-> << >>]]
      /\ crashes' \in 0 .. MaxCrash /\ UNCHANGED <<rows, balance, acked>>
  BY LedgerAssumption DEF Crash, LedgerInv, TypeOK
<1>2. TypeOK'
  BY <1>1 DEF LedgerInv, TypeOK
<1>3. \A v \in Writers : call'[v] = call[v] \/ (call'[v] = Idle /\ call'[v].pc = "idle")
  BY <1>1 DEF Idle
<1>4. Open' \subseteq Open /\ Updated' \subseteq Updated
      /\ \A v \in Open' : call'[v] = call[v] /\ ProcessOf[v] # p
  BY <1>1, <1>3 DEF Open, Updated, Idle
<1>5. \A v \in Updated' : call'[v] = call[v] /\ v \in Updated
  BY <1>3, <1>4 DEF Updated
<1>6. LockHeldOnce'
  BY <1>5 DEF LedgerInv, LockHeldOnce
<1>7. CheckedHolds'
  <2>1. (\A v \in Updated : Affected(call[v].entry))'
    BY <1>1, <1>5 DEF LedgerInv, CheckedHolds, Affected
  <2>2. (\A v \in Writers : call[v].pc = "commit" => ~Recorded(call[v].entry.key))'
    BY <1>1, <1>3 DEF LedgerInv, CheckedHolds, Recorded
  <2> QED
    BY <2>1, <2>2 DEF CheckedHolds
<1>8. AnswersAreRecorded'
  BY <1>1, <1>3 DEF LedgerInv, AnswersAreRecorded, Recorded
<1>9. HeadRuns'
  <2> SUFFICES ASSUME NEW v \in Open' PROVE Chain(v)' = Chain(v) /\ v \in Open
    BY DEF LedgerInv, HeadRuns
  <2>1. v \in Writers /\ call'[v].entry = call[v].entry /\ ProcessOf[v] # p /\ v \in Open
    BY <1>4 DEF Open
  <2>2. queue'[ProcessOf[v]] = queue[ProcessOf[v]]
    BY <1>1, <2>1, LedgerAssumption DEF LedgerInv, TypeOK
  <2> QED
    BY <2>1, <2>2 DEF Chain, Slot
<1> QED
  BY <1>1, <1>2, <1>6, <1>7, <1>8, <1>9, TablesStay DEF LedgerInv

\* A call that moves on inside its own transaction: the tables and the chains
\* stay, and what it has checked on the way is what the invariant asks of it.
LEMMA TransactionMoves ==
  ASSUME LedgerInv, NEW w \in Writers, NEW pc \in {"update", "insert", "commit"},
         call[w].pc # "idle", GoTo(w, pc),
         Chain(w) # << >>, Head(Chain(w)) = w,
         pc # "update" => /\ \A v \in Updated : v # w => call[v].entry.ws # call[w].entry.ws
                          /\ Affected(call[w].entry),
         pc = "commit" => ~Recorded(call[w].entry.key),
         UNCHANGED <<rows, balance, queue, acked, crashes>>
  PROVE  LedgerInv'
<1>1. call[w] \in [pc : Pcs, entry : Entries, own : BOOLEAN]
  BY BusyCall DEF LedgerInv
<1>2. \A v \in Writers : v # w => call'[v] = call[v]
  BY DEF LedgerInv, TypeOK, GoTo
<1>3. call'[w] \in [pc : Pcs, entry : Entries, own : BOOLEAN]
      /\ call'[w].pc = pc /\ call'[w].entry = call[w].entry
  BY <1>1 DEF LedgerInv, TypeOK, GoTo, Pcs
<1>4. TypeOK'
  BY <1>3 DEF LedgerInv, TypeOK, GoTo, Pcs
<1>5. \A v \in Writers : call'[v].entry = call[v].entry
  BY <1>2, <1>3
<1>6. Updated' \subseteq Updated \cup {w} /\ Open' \subseteq Open \cup {w} /\ (pc = "update" => w \notin Updated')
  BY <1>2, <1>3 DEF Updated, Open
<1>7. LockHeldOnce'
  BY <1>5, <1>6 DEF LedgerInv, LockHeldOnce, Updated
<1>8. CheckedHolds'
  <2>1. (\A v \in Updated : Affected(call[v].entry))'
    <3> SUFFICES ASSUME NEW v \in Updated' PROVE Affected(call[v].entry)'
      OBVIOUS
    <3>1. v \in Writers /\ call'[v].entry = call[v].entry
      BY <1>5 DEF Updated
    <3>2. Affected(call[v].entry)
      BY <1>6 DEF LedgerInv, CheckedHolds
    <3> QED
      BY <3>1, <3>2 DEF Affected
  <2>2. (\A v \in Writers : call[v].pc = "commit" => ~Recorded(call[v].entry.key))'
    BY <1>2, <1>3 DEF LedgerInv, CheckedHolds, Recorded
  <2> QED
    BY <2>1, <2>2 DEF CheckedHolds
<1>9. AnswersAreRecorded'
  BY <1>2, <1>3 DEF LedgerInv, AnswersAreRecorded, Recorded
<1>10. HeadRuns'
  <2> SUFFICES ASSUME NEW v \in Open' PROVE (Chain(v) # << >> /\ Head(Chain(v)) = v)'
    BY DEF HeadRuns
  <2>1. Chain(v)' = Chain(v)
    BY <1>5 DEF Chain, Slot, Open
  <2>2. Chain(v) # << >> /\ Head(Chain(v)) = v
    BY <1>6 DEF LedgerInv, HeadRuns
  <2> QED
    BY <2>1, <2>2
<1> QED
  BY <1>4, <1>7, <1>8, <1>9, <1>10, TablesStay DEF LedgerInv

\* append, statement by statement.
LEMMA AppendSteps ==
  ASSUME LedgerInv, NEW w \in Writers,
         TransactionBegin(w) \/ AppendUpdate(w) \/ AppendInsert(w)
  PROVE  LedgerInv'
<1>1. call[w].pc # "idle"
  BY DEF TransactionBegin, AppendUpdate, AppendInsert
<1>2. call[w] \in [pc : Pcs, entry : Entries, own : BOOLEAN]
  BY <1>1, BusyCall DEF LedgerInv
<1>3. queue \in [Processes -> [Slots -> Seq(Writers)]] /\ crashes \in 0 .. MaxCrash
  BY DEF LedgerInv, TypeOK
<1>4. ASSUME NEW c, call' = [call EXCEPT ![w] = c] PROVE \A v \in Open : v # w => call'[v] = call[v]
  BY <1>4 DEF LedgerInv, TypeOK, Open
<1>5. CASE TransactionBegin(w)
  BY <1>1, <1>5, TransactionMoves DEF TransactionBegin, Chain
<1>6. CASE AppendUpdate(w)
  <2>1. w \in Open
    BY <1>6 DEF AppendUpdate, Open
  <2>2. CASE Affected(call[w].entry)
    <3>1. GoTo(w, "insert") /\ UNCHANGED <<rows, balance, queue, acked, crashes>>
      BY <1>6, <2>2 DEF AppendUpdate
    <3>2. \A v \in Updated : v # w => call[v].entry.ws # call[w].entry.ws
      BY <1>6 DEF AppendUpdate, RowFree
    <3>3. Chain(w) # << >> /\ Head(Chain(w)) = w
      BY <2>1 DEF LedgerInv, HeadRuns
    <3> QED
      BY <1>1, <2>2, <3>1, <3>2, <3>3, TransactionMoves
  <2>3. CASE ~Affected(call[w].entry)
    <3>1. call' = [call EXCEPT ![w] = Idle] /\ Settle(w) /\ UNCHANGED <<rows, balance, acked, crashes>>
      BY <1>6, <2>3 DEF AppendUpdate, Fail
    <3>2. \A v \in Open : v # w => call'[v] = call[v]
      BY <3>1, <1>4
    <3> QED
      BY <1>3, <2>1, <3>1, <3>2, SettleKeeps, CallMoves
  <2> QED
    BY <2>2, <2>3
<1>7. CASE AppendInsert(w)
  <2>1. w \in Open /\ w \in Updated
    BY <1>7 DEF AppendInsert, Open, Updated
  <2>2. CASE ~Recorded(call[w].entry.key)
    <3>1. GoTo(w, "commit") /\ UNCHANGED <<rows, balance, queue, acked, crashes>>
      BY <1>7, <2>2 DEF AppendInsert
    <3>2. \A v \in Updated : v # w => call[v].entry.ws # call[w].entry.ws
      BY <2>1 DEF LedgerInv, LockHeldOnce
    <3>3. Chain(w) # << >> /\ Head(Chain(w)) = w /\ Affected(call[w].entry)
      BY <2>1 DEF LedgerInv, HeadRuns, CheckedHolds
    <3> QED
      BY <1>1, <2>2, <3>1, <3>2, <3>3, TransactionMoves
  <2>3. CASE Recorded(call[w].entry.key)
    <3>1. Settle(w) /\ UNCHANGED <<rows, balance, acked, crashes>>
      BY <1>7, <2>3 DEF AppendInsert
    <3>2. CASE call[w].own
      <4> DEFINE c == [call[w] EXCEPT !.pc = "lost"]
      <4>1. c \in [pc : {"lookup", "queued", "lost"}, entry : Entries, own : BOOLEAN]
        BY <1>2
      <4>2. call' = [call EXCEPT ![w] = c]
        BY <1>7, <2>3, <3>2 DEF AppendInsert, GoTo
      <4>3. \A v \in Open : v # w => call'[v] = call[v]
        BY <4>2, <1>4
      <4> QED
        BY <1>3, <2>1, <3>1, <4>1, <4>2, <4>3, SettleKeeps, CallMoves
    <3>3. CASE ~call[w].own
      <4>1. call' = [call EXCEPT ![w] = Idle]
        BY <1>7, <2>3, <3>3 DEF AppendInsert, Fail
      <4>2. \A v \in Open : v # w => call'[v] = call[v]
        BY <4>1, <1>4
      <4> QED
        BY <1>3, <2>1, <3>1, <4>1, <4>2, SettleKeeps, CallMoves
    <3> QED
      BY <3>2, <3>3
  <2> QED
    BY <2>2, <2>3
<1> QED
  BY <1>5, <1>6, <1>7

\* What a commit does to the tables, in the terms of the account.
LEMMA CommitAppends ==
  ASSUME LedgerInv, NEW w \in Writers, Commit(w)
  PROVE  /\ call[w].entry \in Entries
         /\ Abstract!Append1(call[w].entry)
<1>1. call[w].entry \in Entries /\ w \in Updated /\ call[w].pc = "commit"
  BY BusyCall DEF LedgerInv, Commit, Updated
<1>2. ~Recorded(call[w].entry.key) /\ Affected(call[w].entry)
  BY <1>1 DEF LedgerInv, CheckedHolds
<1> QED
  BY <1>1, <1>2 DEF Commit, Recorded, Affected, Abstract!Append1, Abstract!Owes

\* A commit keeps the invariant: the lock of the row kept everybody else from
\* checking anything it changes.
LEMMA CommitStep ==
  ASSUME LedgerInv, NEW w \in Writers, Commit(w)
  PROVE  LedgerInv'
<1> DEFINE e == call[w].entry
<1>1. call[w] \in [pc : Pcs, entry : Entries, own : BOOLEAN] /\ call[w].pc = "commit"
  BY BusyCall DEF LedgerInv, Commit
<1>2. w \in Open /\ w \in Updated /\ ~Recorded(e.key)
  BY <1>1 DEF LedgerInv, CheckedHolds, Open, Updated
<1>3. e \in Entries /\ e.ws \in Workspaces /\ e.amount \in Int
  BY <1>1, SlotType
<1>4. /\ rows' = Append(rows, e) /\ balance' = [balance EXCEPT ![e.ws] = @ + e.amount]
      /\ GoTo(w, "answer") /\ Settle(w) /\ UNCHANGED <<acked, crashes>>
  BY DEF Commit
<1>5. rows \in Seq(Entries) /\ balance \in [Workspaces -> Int]
  BY DEF LedgerInv, TypeOK
<1>6. \A v \in Writers : v # w => call'[v] = call[v]
  BY <1>4 DEF LedgerInv, TypeOK, GoTo
<1>7. call'[w] \in [pc : Pcs, entry : Entries, own : BOOLEAN]
      /\ call'[w].pc = "answer" /\ call'[w].entry = e
  BY <1>1, <1>4 DEF LedgerInv, TypeOK, GoTo, Pcs
<1>8. queue' \in [Processes -> [Slots -> Seq(Writers)]]
      /\ \A v \in Open : v # w => Chain(v)' # << >> /\ Head(Chain(v)') = v
  BY <1>2, <1>4, <1>6, SettleKeeps DEF Open
<1>9. TypeOK'
  <2>1. rows' \in Seq(Entries) /\ balance' \in [Workspaces -> Int]
    BY <1>3, <1>4, <1>5
  <2>2. call' \in [Writers -> {Idle} \cup [pc : Pcs, entry : Entries, own : BOOLEAN]]
    BY <1>4, <1>7 DEF LedgerInv, TypeOK, GoTo, Pcs
  <2> QED
    BY <1>4, <1>8, <2>1, <2>2 DEF LedgerInv, TypeOK, Pcs
<1>10. Len(rows') = Len(rows) + 1 /\ rows'[Len(rows) + 1] = e /\ Len(rows) \in Nat
       /\ \A i \in 1 .. Len(rows) : rows'[i] = rows[i]
  BY <1>3, <1>4, <1>5
<1>11. ASSUME NEW k PROVE Recorded(k)' <=> Recorded(k) \/ k = e.key
  BY <1>10 DEF Recorded
<1>12. OncePerKey'
  <2> SUFFICES ASSUME NEW i \in 1 .. Len(rows) + 1, NEW j \in 1 .. Len(rows) + 1, rows'[i].key = rows'[j].key
               PROVE  i = j
    BY <1>10 DEF OncePerKey
  <2>1. CASE i \in 1 .. Len(rows) /\ j \in 1 .. Len(rows)
    BY <1>10, <2>1 DEF LedgerInv, OncePerKey
  <2>2. CASE i = Len(rows) + 1 /\ j \in 1 .. Len(rows)
    BY <1>2, <1>10, <2>2 DEF Recorded
  <2>3. CASE j = Len(rows) + 1 /\ i \in 1 .. Len(rows)
    BY <1>2, <1>10, <2>3 DEF Recorded
  <2> QED
    BY <1>10, <2>1, <2>2, <2>3
<1>13. AckedIsRecorded'
  BY <1>4, <1>10 DEF LedgerInv, AckedIsRecorded, Recorded
<1>14. Updated' = Updated \ {w} /\ Open' = Open \ {w}
  BY <1>6, <1>7 DEF Updated, Open
<1>15. LockHeldOnce'
  BY <1>6, <1>14 DEF LedgerInv, LockHeldOnce, Updated
<1>16. CheckedHolds'
  <2>1. (\A v \in Updated : Affected(call[v].entry))'
    <3> SUFFICES ASSUME NEW v \in Updated' PROVE Affected(call[v].entry)'
      OBVIOUS
    <3>1. v \in Updated /\ v # w /\ call'[v] = call[v] /\ v \in Writers
      BY <1>6, <1>14 DEF Updated
    <3>2. call[v].entry.ws # e.ws /\ Affected(call[v].entry)
      BY <1>2, <3>1 DEF LedgerInv, LockHeldOnce, CheckedHolds
    <3>3. call[v].entry \in Entries
      BY <3>1, BusyCall DEF Updated, LedgerInv
    <3>4. balance'[call[v].entry.ws] = balance[call[v].entry.ws]
      BY <1>4, <1>5, <3>2, <3>3, SlotType
    <3> QED
      BY <3>1, <3>2, <3>4 DEF Affected
  <2>2. ASSUME NEW v \in Writers, call'[v].pc = "commit" PROVE ~(Recorded(call[v].entry.key)')
    <3>1. v # w /\ call'[v] = call[v] /\ call[v].pc = "commit"
      BY <1>6, <1>7, <2>2
    <3>2. v \in Updated /\ call[v].entry \in Entries /\ ~Recorded(call[v].entry.key)
      BY <3>1, BusyCall DEF Updated, LedgerInv, CheckedHolds
    <3>3. call[v].entry.key # e.key
      BY <1>2, <1>3, <3>1, <3>2, LedgerAssumption DEF LedgerInv, LockHeldOnce
    <3> QED
      BY <1>10, <3>1, <3>2, <3>3 DEF Recorded
  <2> QED
    BY <2>1, <2>2 DEF CheckedHolds
<1>17. AnswersAreRecorded'
  <2> SUFFICES ASSUME NEW v \in Writers, call'[v].pc = "answer" PROVE Recorded(call[v].entry.key)'
    BY DEF AnswersAreRecorded
  <2>1. CASE v = w
    BY <1>7, <1>10, <2>1 DEF Recorded
  <2>2. CASE v # w
    BY <1>6, <1>10, <2>2 DEF LedgerInv, AnswersAreRecorded, Recorded
  <2> QED
    BY <2>1, <2>2
<1>18. HeadRuns'
  BY <1>8, <1>14 DEF HeadRuns
<1> QED
  BY <1>9, <1>12, <1>13, <1>15, <1>16, <1>17, <1>18 DEF LedgerInv

\* Every step keeps the invariant.
LEMMA StepInv == LedgerInv /\ [Next]_vars => LedgerInv'
<1> SUFFICES ASSUME LedgerInv, [Next]_vars PROVE LedgerInv'
  OBVIOUS
<1>1. CASE UNCHANGED vars
  BY <1>1 DEF vars, LedgerInv, TypeOK, OncePerKey, AckedIsRecorded, LockHeldOnce, CheckedHolds,
     AnswersAreRecorded, HeadRuns, Chain, Slot, Recorded, Affected, Open, Updated
<1>2. ASSUME NEW w \in Writers, NEW e \in Entries, RecordBegin(w, e) \/ Transaction(w, e) PROVE LedgerInv'
  BY <1>2, MovingSteps
<1>3. ASSUME NEW w \in Writers, Step(w) \/ TransactionFails(w) PROVE LedgerInv'
  BY <1>3, MovingSteps, AppendSteps, CommitStep, AnswerStep DEF Step
<1>4. ASSUME NEW p \in Processes, Crash(p) PROVE LedgerInv'
  BY <1>4, CrashStep
<1> QED
  BY <1>1, <1>2, <1>3, <1>4 DEF Next

\* The inductive invariant holds of every behaviour.
THEOREM LedgerInvariant == Spec => []LedgerInv
BY InitInv, StepInv, PTL DEF Spec

\* Type correctness of the ledger.
THEOREM LedgerTypeCorrect == Spec => []TypeOK
BY LedgerInvariant, PTL DEF LedgerInv

\* No two rows share an idempotency key: a repeated event, from however many
\* calls of however many processes, is recorded once (record, appendWithin).
THEOREM LedgerOncePerKey == Spec => []OncePerKey
BY LedgerInvariant, PTL DEF LedgerInv

\* A caller that was told its event is recorded was told the truth, also after
\* crashes (record, replay).
THEOREM LedgerAckedIsRecorded == Spec => []AckedIsRecorded
BY LedgerInvariant, PTL DEF LedgerInv

\* Two transactions of one process never overlap on a workspace or, on SQLite,
\* at all (serialize).
THEOREM LedgerSerialized == Spec => []Serialized
<1>1. LedgerInv => Serialized
  BY ChainsDisjoint DEF Serialized, Slot
<1> QED
  BY <1>1, LedgerInvariant, PTL

\* A step of the ledger is a step of the account or leaves it alone.
LEMMA StepRefines == LedgerInv /\ [Next]_vars => [Abstract!AccountNext]_(Abstract!accountVars)
<1> SUFFICES ASSUME LedgerInv, [Next]_vars, ~UNCHANGED <<rows, balance>>
             PROVE  Abstract!AccountNext
  BY DEF Abstract!accountVars
<1>1. PICK w \in Writers : Commit(w)
  BY DEF Next, vars, Step, RecordBegin, Transaction, RecordLookup, TransactionBegin, AppendUpdate,
     AppendInsert, FindWinner, Answer, TransactionFails, Crash
<1> QED
  BY <1>1, CommitAppends DEF Abstract!AccountNext

\* The ledger, with its queues, transactions, races and crashes, implements the
\* account: one atomic append per event (docs/contracts/data-model.md, invariant 3).
THEOREM LedgerRefinesAccount == Spec => RefinesAccount
<1>1. Init => Abstract!AccountInit
  BY DEF Init, Abstract!AccountInit
<1> QED
  BY <1>1, StepRefines, LedgerInvariant, PTL DEF Spec, RefinesAccount, Abstract!AccountSpec

\* Nothing but usage and refunds takes a balance below zero, whatever moved it
\* between a call's look-up and its commit (append, MAY_OVERDRAW).
THEOREM LedgerOverdraw == Spec => OnlyOwedOverdraws
<1> DEFINE Owed == \A ws \in Workspaces : balance'[ws] < balance[ws] /\ balance'[ws] < 0
                       => rows'[Len(rows')].kind \in {"usage", "refund"}
<1>1. LedgerInv /\ [Next]_vars => [Owed]_vars
  <2> SUFFICES ASSUME LedgerInv, [Next]_vars, NEW ws \in Workspaces,
                      balance'[ws] < balance[ws], balance'[ws] < 0
               PROVE  rows'[Len(rows')].kind \in {"usage", "refund"}
    OBVIOUS
  <2>1. rows \in Seq(Entries) /\ balance \in [Workspaces -> Int]
    BY DEF LedgerInv, TypeOK
  <2>2. balance' # balance
    BY <2>1
  <2>3. PICK e \in Entries : Abstract!Append1(e)
    BY <2>2, StepRefines DEF Abstract!AccountNext, Abstract!accountVars
  <2>4. rows' = Append(rows, e) /\ balance' = [balance EXCEPT ![e.ws] = @ + e.amount]
        /\ (e.amount < 0 => Abstract!Owes(e) \/ balance[e.ws] + e.amount >= 0)
    BY <2>3 DEF Abstract!Append1
  <2>5. e.ws \in Workspaces /\ e.amount \in Int
    BY SlotType
  <2>6. rows'[Len(rows')] = e
    BY <2>1, <2>4
  <2>7. ws = e.ws /\ balance'[ws] = balance[ws] + e.amount
    BY <2>1, <2>4, <2>5
  <2>8. e.amount < 0 /\ balance[ws] + e.amount < 0
    BY <2>1, <2>5, <2>7
  <2> QED
    BY <2>4, <2>6, <2>7, <2>8, <2>1, <2>5 DEF Abstract!Owes
<1> QED
  BY <1>1, LedgerInvariant, PTL DEF Spec, OnlyOwedOverdraws

-----------------------------------------------------------------------------
(***************************************************************************)
(* The balance is the sum of the rows.  Total is a recursive function: the *)
(* induction over the rows that it calls for is carried through the steps  *)
(* by SumsUp, which says that there are running totals and where they end. *)
(***************************************************************************)

\* What entry e adds to the balance of ws.
Share(e, ws) == IF e.ws = ws THEN e.amount ELSE 0

\* f are the running totals of workspace ws over the entries of s.
RunningTotals(f, s, ws) == f = [i \in 0 .. Len(s) |-> IF i = 0 THEN 0 ELSE f[i - 1] + Share(s[i], ws)]

\* The rows have running totals, and they end in the balance.
SumsUp ==
    \A ws \in Workspaces :
        /\ \E f : RunningTotals(f, rows, ws)
        /\ \A f : RunningTotals(f, rows, ws) => f[Len(rows)] = balance[ws]

\* Running totals of a longer log are those of the shorter one and one more.
LEMMA TotalsOfPrefix ==
  ASSUME NEW S, NEW s \in Seq(S), NEW e \in S, NEW ws, NEW f, RunningTotals(f, Append(s, e), ws)
  PROVE  /\ RunningTotals([i \in 0 .. Len(s) |-> f[i]], s, ws)
         /\ f[Len(s) + 1] = f[Len(s)] + Share(e, ws)
<1> DEFINE t == Append(s, e)
<1> DEFINE g == [i \in 0 .. Len(s) |-> f[i]]
<1>1. Len(s) \in Nat /\ Len(t) = Len(s) + 1 /\ t[Len(s) + 1] = e /\ \A i \in 1 .. Len(s) : t[i] = s[i]
  OBVIOUS
<1>2. \A i \in 0 .. Len(s) + 1 : f[i] = IF i = 0 THEN 0 ELSE f[i - 1] + Share(t[i], ws)
  <2> HIDE DEF t
  <2>1. f = [i \in 0 .. Len(t) |-> IF i = 0 THEN 0 ELSE f[i - 1] + Share(t[i], ws)]
    BY DEF RunningTotals, t
  <2> QED
    BY <1>1, <2>1
<1>3. g = [i \in 0 .. Len(s) |-> IF i = 0 THEN 0 ELSE g[i - 1] + Share(s[i], ws)]
  <2>1. ASSUME NEW i \in 0 .. Len(s) PROVE f[i] = IF i = 0 THEN 0 ELSE g[i - 1] + Share(s[i], ws)
    <3>1. CASE i = 0
      BY <1>1, <1>2, <3>1
    <3>2. CASE i # 0
      <4>1. i \in 1 .. Len(s) /\ i - 1 \in 0 .. Len(s) /\ i \in 0 .. Len(s) + 1
        BY <1>1, <3>2
      <4>2. t[i] = s[i] /\ g[i - 1] = f[i - 1]
        BY <1>1, <4>1
      <4>3. f[i] = f[i - 1] + Share(t[i], ws)
        BY <1>2, <4>1, <3>2
      <4> QED
        BY <4>2, <4>3, <3>2
    <3> QED
      BY <3>1, <3>2
  <2> QED
    BY <2>1
<1>4. f[Len(s) + 1] = f[Len(s)] + Share(e, ws)
  <2>1. Len(s) + 1 \in 0 .. Len(s) + 1 /\ Len(s) + 1 # 0 /\ (Len(s) + 1) - 1 = Len(s)
    BY <1>1
  <2> QED
    BY <1>1, <1>2, <2>1
<1> QED
  BY <1>3, <1>4 DEF RunningTotals

\* Running totals extend to a longer log.
LEMMA TotalsExtend ==
  ASSUME NEW S, NEW s \in Seq(S), NEW e \in S, NEW ws, NEW g, RunningTotals(g, s, ws)
  PROVE  \E f : RunningTotals(f, Append(s, e), ws)
<1> DEFINE t == Append(s, e)
<1> DEFINE f == [i \in 0 .. Len(s) + 1 |-> IF i = Len(s) + 1 THEN g[Len(s)] + Share(e, ws) ELSE g[i]]
<1>1. Len(s) \in Nat /\ Len(t) = Len(s) + 1 /\ t[Len(s) + 1] = e /\ \A i \in 1 .. Len(s) : t[i] = s[i]
  OBVIOUS
<1>2. \A i \in 0 .. Len(s) : g[i] = IF i = 0 THEN 0 ELSE g[i - 1] + Share(s[i], ws)
  <2>1. g = [i \in 0 .. Len(s) |-> IF i = 0 THEN 0 ELSE g[i - 1] + Share(s[i], ws)]
    BY DEF RunningTotals
  <2> QED
    BY <2>1
<1>3. \A i \in 0 .. Len(s) : f[i] = g[i]
  BY <1>1
<1>4. f[Len(s) + 1] = g[Len(s)] + Share(e, ws)
  BY <1>1
<1> HIDE DEF t
<1>5. ASSUME NEW i \in 0 .. Len(s) + 1 PROVE f[i] = IF i = 0 THEN 0 ELSE f[i - 1] + Share(t[i], ws)
  <2> HIDE DEF f
  <2>1. CASE i = 0
    BY <1>1, <1>2, <1>3, <2>1
  <2>2. CASE i # 0 /\ i # Len(s) + 1
    <3>1. i \in 1 .. Len(s) /\ i \in 0 .. Len(s) /\ i - 1 \in 0 .. Len(s)
      BY <1>1, <2>2
    <3> QED
      BY <1>1, <1>2, <1>3, <2>2, <3>1
  <2>3. CASE i = Len(s) + 1
    <3>1. i # 0 /\ i - 1 = Len(s) /\ Len(s) \in 0 .. Len(s)
      BY <1>1, <2>3
    <3> QED
      BY <1>1, <1>3, <1>4, <2>3, <3>1
  <2> QED
    BY <2>1, <2>2, <2>3
<1>6. f = [i \in 0 .. Len(t) |-> IF i = 0 THEN 0 ELSE f[i - 1] + Share(t[i], ws)]
  BY <1>1, <1>5
<1> QED
  BY <1>6 DEF RunningTotals, t

\* An append keeps the sums.
LEMMA StepSums == LedgerInv /\ SumsUp /\ [Next]_vars => SumsUp'
<1> SUFFICES ASSUME LedgerInv, SumsUp, [Next]_vars, NEW ws \in Workspaces
             PROVE  /\ \E f : RunningTotals(f, rows', ws)
                    /\ \A f : RunningTotals(f, rows', ws) => f[Len(rows')] = balance'[ws]
  BY DEF SumsUp
<1>1. CASE UNCHANGED <<rows, balance>>
  BY <1>1 DEF SumsUp
<1>2. CASE ~UNCHANGED <<rows, balance>>
  <2>1. PICK e \in Entries : Abstract!Append1(e)
    BY <1>2, StepRefines DEF Abstract!AccountNext, Abstract!accountVars
  <2>2. rows' = Append(rows, e) /\ balance' = [balance EXCEPT ![e.ws] = @ + e.amount]
    BY <2>1 DEF Abstract!Append1
  <2>3. rows \in Seq(Entries) /\ balance \in [Workspaces -> Int] /\ e.ws \in Workspaces /\ e.amount \in Int
    BY SlotType DEF LedgerInv, TypeOK
  <2>4. PICK g : RunningTotals(g, rows, ws)
    BY DEF SumsUp
  <2>5. ASSUME NEW f, RunningTotals(f, rows', ws) PROVE f[Len(rows')] = balance'[ws]
    <3> DEFINE h == [i \in 0 .. Len(rows) |-> f[i]]
    <3>1. RunningTotals(h, rows, ws) /\ f[Len(rows) + 1] = f[Len(rows)] + Share(e, ws)
      BY <2>2, <2>3, <2>5, TotalsOfPrefix
    <3>2. Len(rows) \in 0 .. Len(rows) /\ Len(rows') = Len(rows) + 1
      BY <2>2, <2>3
    <3>3. h[Len(rows)] = f[Len(rows)]
      BY <3>2
    <3>4. h[Len(rows)] = balance[ws]
      BY <3>1 DEF SumsUp
    <3>5. balance'[ws] = balance[ws] + Share(e, ws)
      BY <2>2, <2>3 DEF Share
    <3> QED
      BY <3>1, <3>2, <3>3, <3>4, <3>5
  <2>6. \E f : RunningTotals(f, rows', ws)
    BY <2>2, <2>3, <2>4, TotalsExtend
  <2> QED
    BY <2>5, <2>6
<1> QED
  BY <1>1, <1>2

\* "The cache never diverges from the ledger": the balance is the sum of the
\* rows after every step, crashes and rollbacks included (appendWithin).
THEOREM LedgerBalanceIsSum == Spec => []BalanceIsSum
<1>1. Init => SumsUp
  <2> SUFFICES ASSUME Init, NEW ws \in Workspaces
               PROVE  /\ \E f : RunningTotals(f, rows, ws)
                      /\ \A f : RunningTotals(f, rows, ws) => f[Len(rows)] = balance[ws]
    BY DEF SumsUp
  <2>1. rows = << >> /\ Len(rows) = 0 /\ balance[ws] = 0
    BY DEF Init
  <2> DEFINE z == [i \in 0 .. 0 |-> 0]
  <2>2. RunningTotals(z, rows, ws)
    BY <2>1 DEF RunningTotals
  <2>3. ASSUME NEW f, RunningTotals(f, rows, ws) PROVE f[Len(rows)] = balance[ws]
    <3>1. f = [i \in 0 .. 0 |-> IF i = 0 THEN 0 ELSE f[i - 1] + Share(rows[i], ws)]
      BY <2>1, <2>3 DEF RunningTotals
    <3>2. f[0] = 0
      BY <3>1
    <3> QED
      BY <2>1, <3>2
  <2> QED
    BY <2>2, <2>3
<1>2. TypeOK /\ SumsUp => BalanceIsSum
  <2> SUFFICES ASSUME SumsUp, NEW ws \in Workspaces PROVE balance[ws] = Total(ws)
    BY DEF BalanceIsSum
  <2> DEFINE sum == CHOOSE f : RunningTotals(f, rows, ws)
  <2>1. RunningTotals(sum, rows, ws)
    BY DEF SumsUp
  <2>2. Total(ws) = sum[Len(rows)]
    BY DEF Total, RunningTotals, Share
  <2> QED
    BY <2>1, <2>2 DEF SumsUp
<1> QED
  BY <1>1, <1>2, StepSums, LedgerInvariant, PTL DEF Spec, LedgerInv
=============================================================================
