------------------------------- MODULE Account -------------------------------
(***************************************************************************)
(* What the credits ledger promises its callers                            *)
(* (docs/contracts/data-model.md invariant 3; LedgerService of             *)
(* apps/router-api/src/app/billing/ledger.service.ts implements it, see    *)
(* Ledger): a log of entries that only grows, one entry per idempotency    *)
(* key, and a balance per workspace that moves with the log in one step.   *)
(***************************************************************************)
EXTENDS Integers, Sequences

CONSTANTS
    Workspaces,
    Entries      \* the entries callers ask for: [key, ws, kind, amount]

VARIABLES
    rows,        \* the table credit_transactions, in the order of its commits
    balance      \* workspaces.balanceMicros

accountVars == <<rows, balance>>

AccountInit ==
    /\ rows = << >>
    /\ balance = [ws \in Workspaces |-> 0]

\* A generation already served and a refund already paid are recorded whatever
\* the balance; nothing else may remove more credit than there is.
Owes(e) == e.kind \in {"usage", "refund"}

Append1(e) ==
    /\ \A i \in 1 .. Len(rows) : rows[i].key # e.key
    /\ e.amount < 0 => Owes(e) \/ balance[e.ws] + e.amount >= 0
    /\ rows' = Append(rows, e)
    /\ balance' = [balance EXCEPT ![e.ws] = @ + e.amount]

AccountNext == \E e \in Entries : Append1(e)

AccountSpec == AccountInit /\ [][AccountNext]_accountVars
=============================================================================
