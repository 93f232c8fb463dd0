------------------------------- MODULE Ledger --------------------------------
(***************************************************************************)
(* The credits ledger of router-api: the single writer of                  *)
(* credit_transactions and of workspaces.balanceMicros                     *)
(* (apps/router-api/src/app/billing/ledger.service.ts).                    *)
(*                                                                         *)
(* Writers are concurrent calls of record, or of transaction/appendWithin, *)
(* spread over processes.  Each await of the code is a step boundary: the  *)
(* look-up of the idempotency key, the wait in the per-process queue of    *)
(* serialize, and the statements of the transaction.  The database is      *)
(* modelled as the code relies on it: what a transaction wrote is visible  *)
(* to others at its commit only, an UPDATE locks the row of the workspace  *)
(* until then and sees the last committed balance, and the unique index    *)
(* refuses a key that has been committed.  With Sqlite there is one        *)
(* connection and one queue for everything.                                *)
(***************************************************************************)
EXTENDS Integers, Sequences, FiniteSets

CONSTANTS
    Workspaces,
    Entries,     \* the entries callers ask for: [key, ws, kind, amount]
    Writers,     \* concurrent calls
    Processes,   \* router-api processes
    ProcessOf,   \* ProcessOf[w]: the process that runs w
    Sqlite,      \* the driver is SQLite
    MaxCrash     \* bound: process crashes

Kinds == {"purchase", "auto_topup", "grant", "usage", "refund", "adjustment"}

Keys == {e.key : e \in Entries}

\* An idempotency key names one event, and an event belongs to one workspace.
ASSUME LedgerAssumption ==
    /\ Entries \subseteq [key : Keys, ws : Workspaces, kind : Kinds, amount : Int]
    /\ \A e, f \in Entries : e.key = f.key => e.ws = f.ws
    /\ ProcessOf \in [Writers -> Processes]
    /\ Sqlite \in BOOLEAN
    /\ MaxCrash \in Nat

VARIABLES
    rows,        \* the committed table credit_transactions
    balance,     \* the committed workspaces.balanceMicros
    call,        \* call[w]: where w is, the entry it records, and whether by record
    queue,       \* queue[p][k]: the chain of writes behind LedgerService.queue
    acked,       \* history: the keys some caller was told are recorded
    crashes

vars == <<rows, balance, call, queue, acked, crashes>>

-----------------------------------------------------------------------------
Idle == [pc |-> "idle"]

Slots == Workspaces \cup {"__sqlite__"}

\* serialize: on SQLite the writer is the database, not the row.
Slot(e) == IF Sqlite THEN "__sqlite__" ELSE e.ws

\* The calls whose transaction is open, and those that have updated a row in it.
Open == {w \in Writers : call[w].pc \in {"update", "insert", "commit"}}
Updated == {w \in Writers : call[w].pc \in {"insert", "commit"}}

Recorded(k) == \E i \in 1 .. Len(rows) : rows[i].key = k

\* REQUIRED_SIGN
RightSign(e) ==
    /\ e.amount # 0
    /\ e.kind \in {"purchase", "auto_topup", "grant"} => e.amount > 0
    /\ e.kind \in {"usage", "refund"} => e.amount < 0

\* The WHERE clause of the balance update, with MAY_OVERDRAW.
AffectedMutant(e) == TRUE
Affected(e) ==
    e.amount < 0 /\ e.kind \notin {"usage", "refund"} => balance[e.ws] + e.amount >= 0

TypeOK ==
    /\ rows \in Seq(Entries)
    /\ balance \in [Workspaces -> Int]
    /\ call \in [Writers -> {Idle} \cup
                    [pc : {"lookup", "queued", "update", "insert", "commit", "lost", "answer"},
                     entry : Entries, own : BOOLEAN]]
    /\ queue \in [Processes -> [Slots -> Seq(Writers)]]
    /\ acked \subseteq Keys
    /\ crashes \in 0 .. MaxCrash

Init ==
    /\ rows = << >>
    /\ balance = [ws \in Workspaces |-> 0]
    /\ call = [w \in Writers |-> Idle]
    /\ queue = [p \in Processes |-> [k \in Slots |-> << >>]]
    /\ acked = {}
    /\ crashes = 0

-----------------------------------------------------------------------------
GoTo(w, pc) == call' = [call EXCEPT ![w].pc = pc]

Fail(w) == call' = [call EXCEPT ![w] = Idle]

\* The transaction of w has settled: the next task of the chain may run.
SettleMutant(w) == queue' = queue
Settle(w) == queue' = [queue EXCEPT ![ProcessOf[w]][Slot(call[w].entry)] = Tail(@)]

\* record, up to the look-up of the key.
RecordBegin(w, e) ==
    /\ call[w] = Idle
    /\ RightSign(e)
    /\ call' = [call EXCEPT ![w] = [pc |-> "lookup", entry |-> e, own |-> TRUE]]
    /\ UNCHANGED <<rows, balance, queue, acked, crashes>>

\* A key already recorded is answered as a replay; otherwise the write joins
\* the chain.
RecordLookup(w) ==
    /\ call[w].pc = "lookup"
    /\ IF Recorded(call[w].entry.key)
       THEN GoTo(w, "answer") /\ UNCHANGED queue
       ELSE /\ GoTo(w, "queued")
            /\ queue' = [queue EXCEPT ![ProcessOf[w]][Slot(call[w].entry)] = Append(@, w)]
    /\ UNCHANGED <<rows, balance, acked, crashes>>

\* transaction and appendWithin: the caller's transaction, with no look-up.
Transaction(w, e) ==
    /\ call[w] = Idle
    /\ RightSign(e)
    /\ queue' = [queue EXCEPT ![ProcessOf[w]][Slot(e)] = Append(@, w)]
    /\ call' = [call EXCEPT ![w] = [pc |-> "queued", entry |-> e, own |-> FALSE]]
    /\ UNCHANGED <<rows, balance, acked, crashes>>

\* previous.then(task, task): the head of the chain runs, however the one
\* before it ended.
TransactionBegin(w) ==
    /\ call[w].pc = "queued"
    /\ queue[ProcessOf[w]][Slot(call[w].entry)] # << >>
    /\ Head(queue[ProcessOf[w]][Slot(call[w].entry)]) = w
    /\ GoTo(w, "update")
    /\ UNCHANGED <<rows, balance, queue, acked, crashes>>

\* append: the UPDATE waits for the lock of the row; if its WHERE clause
\* matches no row the transaction rolls back with InsufficientCreditsError.
RowFree(ws) == \A v \in Updated : call[v].entry.ws # ws

AppendUpdateMutant(w) ==
    /\ call[w].pc = "update"
    /\ IF Affected(call[w].entry)
       THEN GoTo(w, "insert") /\ UNCHANGED queue
       ELSE Fail(w) /\ Settle(w)
    /\ UNCHANGED <<rows, balance, acked, crashes>>

AppendUpdate(w) ==
    /\ call[w].pc = "update"
    /\ RowFree(call[w].entry.ws)
    /\ IF Affected(call[w].entry)
       THEN GoTo(w, "insert") /\ UNCHANGED queue
       ELSE Fail(w) /\ Settle(w)
    /\ UNCHANGED <<rows, balance, acked, crashes>>

\* append: the INSERT.  The unique index refuses a recorded key and the whole
\* transaction rolls back; record then looks for the winner, and a caller that
\* owns the transaction gets the error.
AppendInsertMutant(w) ==
    /\ call[w].pc = "insert"
    /\ GoTo(w, "commit")
    /\ UNCHANGED <<rows, balance, queue, acked, crashes>>

AppendInsertNoRollback(w) ==
    /\ call[w].pc = "insert"
    /\ IF Recorded(call[w].entry.key)
       THEN /\ IF call[w].own THEN GoTo(w, "lost") ELSE Fail(w)
            /\ balance' = [balance EXCEPT ![call[w].entry.ws] = @ + call[w].entry.amount]
            /\ Settle(w)
       ELSE GoTo(w, "commit") /\ UNCHANGED <<balance, queue>>
    /\ UNCHANGED <<rows, acked, crashes>>

AppendInsert(w) ==
    /\ call[w].pc = "insert"
    /\ IF Recorded(call[w].entry.key)
       THEN /\ IF call[w].own THEN GoTo(w, "lost") ELSE Fail(w)
            /\ Settle(w)
       ELSE GoTo(w, "commit") /\ UNCHANGED queue
    /\ UNCHANGED <<rows, balance, acked, crashes>>

Commit(w) ==
    /\ call[w].pc = "commit"
    /\ rows' = Append(rows, call[w].entry)
    /\ balance' = [balance EXCEPT ![call[w].entry.ws] = @ + call[w].entry.amount]
    /\ GoTo(w, "answer")
    /\ Settle(w)
    /\ UNCHANGED <<acked, crashes>>

\* A statement or the commit fails in the database: rolled back, and the
\* caller gets the error.
TransactionFailsMutant(w) ==
    /\ w \in Open
    /\ GoTo(w, "answer")
    /\ Settle(w)
    /\ UNCHANGED <<rows, balance, acked, crashes>>

TransactionFails(w) ==
    /\ w \in Open
    /\ Fail(w)
    /\ Settle(w)
    /\ UNCHANGED <<rows, balance, acked, crashes>>

\* The unique violation is answered with the row of the winner.
FindWinner(w) ==
    /\ call[w].pc = "lost"
    /\ IF Recorded(call[w].entry.key) THEN GoTo(w, "answer") ELSE Fail(w)
    /\ UNCHANGED <<rows, balance, queue, acked, crashes>>

Answer(w) ==
    /\ call[w].pc = "answer"
    /\ acked' = acked \cup {call[w].entry.key}
    /\ call' = [call EXCEPT ![w] = Idle]
    /\ UNCHANGED <<rows, balance, queue, crashes>>

\* A process dies: its calls and its queues are gone, its open transactions
\* roll back.
Crash(p) ==
    /\ crashes < MaxCrash
    /\ call' = [w \in Writers |-> IF ProcessOf[w] = p THEN Idle ELSE call[w]]
    /\ queue' = [queue EXCEPT ![p] = [k \in Slots |-> << >>]]
    /\ crashes' = crashes + 1
    /\ UNCHANGED <<rows, balance, acked>>

-----------------------------------------------------------------------------
Step(w) ==
    \/ RecordLookup(w)
    \/ TransactionBegin(w)
    \/ AppendUpdate(w)
    \/ AppendInsert(w)
    \/ Commit(w)
    \/ FindWinner(w)
    \/ Answer(w)

Next ==
    \/ \E w \in Writers, e \in Entries : RecordBegin(w, e) \/ Transaction(w, e)
    \/ \E w \in Writers : Step(w) \/ TransactionFails(w)
    \/ \E p \in Processes : Crash(p)

Spec == Init /\ [][Next]_vars

\* The event loop runs every promise that can run and the database answers;
\* waiters for the lock of a row get it in turn.
Fairness == \A w \in Writers : WF_vars(Step(w)) /\ SF_vars(AppendUpdate(w))

FairSpec == Spec /\ Fairness

-----------------------------------------------------------------------------
(* Properties *)

\* The balance a workspace's rows add up to.
Total(ws) ==
    LET sum[i \in 0 .. Len(rows)] ==
            IF i = 0 THEN 0
            ELSE sum[i - 1] + (IF rows[i].ws = ws THEN rows[i].amount ELSE 0)
    IN  sum[Len(rows)]

\* "The cache never diverges from the ledger" (LedgerService): the balance is
\* the sum of the rows after every step, crashes and rollbacks included.
BalanceIsSum == \A ws \in Workspaces : balance[ws] = Total(ws)

\* "A repeated event cannot charge twice" (LedgerService): no two rows share a
\* key, however many calls of however many processes record the event.
OncePerKey == \A i, j \in 1 .. Len(rows) : rows[i].key = rows[j].key => i = j

\* A caller that was told an event is recorded was told the truth, and no
\* crash takes it back (record, replay).
AckedIsRecorded == \A k \in acked : Recorded(k)

\* serialize never lets two transactions of one process overlap that write the
\* same workspace or, on SQLite with its one connection, that write at all.
Serialized ==
    \A v, w \in Open :
        ProcessOf[v] = ProcessOf[w] /\ (Sqlite \/ call[v].entry.ws = call[w].entry.ws) => v = w

\* Only usage and refunds take a balance below zero (MAY_OVERDRAW), also when
\* the balance moved between the look-up and the commit.
OnlyOwedOverdraws ==
    [][\A ws \in Workspaces : balance'[ws] < balance[ws] /\ balance'[ws] < 0
           => rows'[Len(rows')].kind \in {"usage", "refund"}]_vars

\* No call waits in the queue for ever: a chain whose head failed moves on.
CallsEnd == \A w \in Writers : call[w].pc # "idle" ~> call[w].pc = "idle"

\* The ledger implements the atomic account its callers rely on.
Abstract == INSTANCE Account
RefinesAccount == Abstract!AccountSpec
=============================================================================
