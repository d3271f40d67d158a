----------------------------- MODULE Assignments -----------------------------
(***************************************************************************)
(* The transactions that assign API keys to provider accounts (store): a   *)
(* new key, a key whose account failed, a key moved for its quota, and the *)
(* removal of an account.  They run at READ COMMITTED from many requests   *)
(* and replicas: every statement sees its own snapshot, assignments of one *)
(* pool exclude each other by an advisory lock, and an account may belong  *)
(* to two pools, where only the lock of its row and the count that follows *)
(* it keep the number of its keys within the limit.                        *)
(***************************************************************************)
EXTENDS Naturals, FiniteSets

CONSTANTS
    Keys, PoolAccounts, Pools, Txs,
    NoAccount, NoTx,
    Limit,       \* max_api_keys_per_account
    PoolOf,      \* the pool of a key
    Priority,    \* of an account in a pool, 0 for an account outside it
    RowOrder,    \* accounts by their id
    Faults       \* bound: statements that fail, accounts that go down

ASSUME AssignmentAssumption ==
    /\ IsFiniteSet(PoolAccounts) /\ IsFiniteSet(Keys) /\ Limit \in Nat \ {0}
    /\ PoolOf \in [Keys -> Pools] /\ Priority \in [Pools -> [PoolAccounts -> Nat]]
    /\ NoAccount \notin PoolAccounts /\ NoTx \notin Txs

VARIABLES
    binding,    \* api_key_account_bindings of the live keys
    present,    \* provider_accounts
    eligible,   \* accounts whose status and health allow routing
    poolLock,   \* pg_advisory_xact_lock of a pool
    rowLock,    \* SELECT ... FOR UPDATE on an account
    tx,
    faults

assignVars == <<binding, present, eligible, poolLock, rowLock, tx, faults>>
lockVars == <<poolLock, rowLock>>

\* Of the tables, the promise speaks only of the keys and of the accounts.
B == INSTANCE KeyBindings WITH
         Keys <- Keys, PoolAccounts <- PoolAccounts, NoAccount <- NoAccount, Limit <- Limit,
         binding <- binding, present <- present

NoWork == [kind |-> "none", key |-> NoAccount, at |-> "idle", cand |-> NoAccount, excl |-> {}]

Members(p) == {a \in present : Priority[p][a] > 0}
KeyCount(a) == Cardinality({k \in Keys : binding[k] = a})

AssignInit ==
    /\ B!BindInit
    /\ eligible = PoolAccounts
    /\ poolLock = [p \in Pools |-> NoTx]
    /\ rowLock = [a \in PoolAccounts |-> NoTx]
    /\ tx = [t \in Txs |-> NoWork]
    /\ faults = 0
-----------------------------------------------------------------------------
Goto(t, at) == tx' = [tx EXCEPT ![t].at = at]

\* COMMIT and ROLLBACK release every lock of the transaction.
Release(t) ==
    /\ tx' = [tx EXCEPT ![t] = NoWork]
    /\ poolLock' = [p \in Pools |-> IF poolLock[p] = t THEN NoTx ELSE poolLock[p]]
    /\ rowLock' = [a \in PoolAccounts |-> IF rowLock[a] = t THEN NoTx ELSE rowLock[a]]

\* A failed request excludes the accounts it has tried.
BeginTx(t, kind, k, excluded) ==
    /\ tx[t] = NoWork
    /\ \A u \in Txs : tx[u].key # k
    /\ (binding[k] = NoAccount) = (kind = "create")
    /\ excluded # {} => kind = "reassign"
    /\ tx' = [tx EXCEPT ![t] = [NoWork EXCEPT !.kind = kind, !.key = k, !.at = "pool", !.excl = excluded]]
    /\ UNCHANGED <<binding, present, eligible, poolLock, rowLock, faults>>

LockPoolAssignments(t) ==
    LET p == PoolOf[tx[t].key] IN
    /\ tx[t].at = "pool" /\ poolLock[p] = NoTx
    /\ poolLock' = [poolLock EXCEPT ![p] = t]
    /\ Goto(t, IF tx[t].kind = "quota" THEN "rows" ELSE "select")
    /\ UNCHANGED <<binding, present, eligible, rowLock, faults>>

\* SelectAccountForUpdate picks by the counts of its snapshot, and only then
\* waits for the row.
SelectAccountForUpdate(t) ==
    LET p == PoolOf[tx[t].key]
        open == {a \in Members(p) \ tx[t].excl : a \in eligible /\ B!HasRoom(binding, a)}
        Before(a, b) == \/ Priority[p][a] < Priority[p][b]
                        \/ Priority[p][a] = Priority[p][b] /\ KeyCount(a) <= KeyCount(b)
    IN
    /\ tx[t].at = "select"
    /\ IF open = {} THEN Release(t)
       ELSE /\ \E a \in open : /\ \A b \in open : Before(a, b)
                               /\ tx' = [tx EXCEPT ![t].at = "row", ![t].cand = a]
            /\ UNCHANGED lockVars
    /\ UNCHANGED <<binding, present, eligible, faults>>

\* The row may have changed while the statement waited for it; the counts are
\* not looked at again.
LockRow(t) ==
    LET a == tx[t].cand IN
    /\ tx[t].at = "row" /\ rowLock[a] \in {NoTx, t}
    /\ IF a \in present \cap eligible
       THEN rowLock' = [rowLock EXCEPT ![a] = t] /\ Goto(t, "recheck")
       ELSE UNCHANGED rowLock /\ Goto(t, "select")
    /\ UNCHANGED <<binding, present, eligible, poolLock, faults>>

\* Mutant: the count of the first statement is trusted.
Mut_NoRecheck(t) ==
    /\ tx[t].at = "recheck"
    /\ Goto(t, "write")
    /\ UNCHANGED <<binding, present, eligible, poolLock, rowLock, faults>>

\* ProviderAccountHasCapacity, under the lock of the row; without room the
\* next account is tried, and the row stays locked.
ProviderAccountHasCapacity(t) ==
    LET a == tx[t].cand IN
    /\ tx[t].at = "recheck"
    /\ IF B!HasRoom(binding, a) THEN Goto(t, "write")
       ELSE tx' = [tx EXCEPT ![t].at = "select", ![t].excl = @ \cup {a}]
    /\ UNCHANGED <<binding, present, eligible, poolLock, rowLock, faults>>

\* LockQuotaRoutingCandidates: the accounts of the pool that are not behind
\* the current one, in the order of their ids.
Candidates(t) ==
    LET k == tx[t].key  p == PoolOf[k]  current == binding[k]
    IN  IF current = NoAccount THEN {}
        ELSE {a \in Members(p) \cap eligible : Priority[p][a] <= Priority[p][current]}

LockCandidate(t) ==
    LET left == {a \in Candidates(t) : rowLock[a] # t} IN
    /\ tx[t].at = "rows"
    /\ IF left = {} THEN Goto(t, "choose") /\ UNCHANGED rowLock
       ELSE \E a \in left : /\ \A b \in left : RowOrder[a] <= RowOrder[b]
                            /\ rowLock[a] = NoTx
                            /\ rowLock' = [rowLock EXCEPT ![a] = t]
                            /\ UNCHANGED tx
    /\ UNCHANGED <<binding, present, eligible, poolLock, faults>>

\* PreferQuotaAccount stays, or moves to a locked candidate that has room;
\* which one the scores of the quota windows say.
PreferQuotaAccount(t) ==
    /\ tx[t].at = "choose"
    /\ \/ Release(t)
       \/ \E a \in Candidates(t) \ {binding[tx[t].key]} :
            /\ rowLock[a] = t /\ B!HasRoom(binding, a)
            /\ tx' = [tx EXCEPT ![t].at = "write", ![t].cand = a]
            /\ UNCHANGED lockVars
    /\ UNCHANGED <<binding, present, eligible, faults>>

\* The binding is written and committed.  That of a key revoked meanwhile is
\* no longer counted.
WriteRow(t) ==
    LET k == tx[t].key IN
    /\ tx[t].at = "write"
    /\ binding' = IF tx[t].kind # "create" /\ binding[k] = NoAccount THEN binding
                  ELSE [binding EXCEPT ![k] = tx[t].cand]
    /\ Release(t)
    /\ UNCHANGED <<present, eligible, faults>>

\* DeleteProviderAccount locks the row and then asks for live bindings.
BeginDelete(t, a) ==
    /\ tx[t] = NoWork /\ a \in present
    /\ tx' = [tx EXCEPT ![t] = [NoWork EXCEPT !.kind = "delete", !.at = "row", !.cand = a]]
    /\ UNCHANGED <<binding, present, eligible, poolLock, rowLock, faults>>

\* Mutant: the row is not locked first.
Mut_DeleteWithoutLock(t) ==
    /\ tx[t].kind = "delete" /\ tx[t].at = "row"
    /\ IF B!KeysOn(binding, tx[t].cand) = {} THEN Goto(t, "delete") ELSE Goto(t, "idle")
    /\ UNCHANGED <<binding, present, eligible, poolLock, rowLock, faults>>

LockProviderAccountForDeletion(t) ==
    LET a == tx[t].cand IN
    /\ tx[t].kind = "delete" /\ tx[t].at = "row" /\ rowLock[a] = NoTx
    /\ IF a \in present /\ B!KeysOn(binding, a) = {}
       THEN rowLock' = [rowLock EXCEPT ![a] = t] /\ Goto(t, "delete") /\ UNCHANGED poolLock
       ELSE Release(t)
    /\ UNCHANGED <<binding, present, eligible, faults>>

DeleteProviderAccount(t) ==
    LET a == tx[t].cand IN
    /\ tx[t].at = "delete" /\ rowLock[a] \in {NoTx, t}
    /\ present' = present \ {a}
    /\ Release(t)
    /\ UNCHANGED <<binding, eligible, faults>>
-----------------------------------------------------------------------------
RevokeAPIKey(k) ==
    /\ binding[k] # NoAccount
    /\ binding' = [binding EXCEPT ![k] = NoAccount]
    /\ UNCHANGED <<present, eligible, poolLock, rowLock, tx, faults>>

\* A statement fails or the client is gone: the transaction is rolled back.
Abort(t) ==
    /\ tx[t].at # "idle" /\ faults < Faults
    /\ faults' = faults + 1
    /\ Release(t)
    /\ UNCHANGED <<binding, present, eligible>>

StatusChanges(a) ==
    /\ faults < Faults /\ faults' = faults + 1
    /\ rowLock[a] = NoTx
    /\ eligible' = IF a \in eligible THEN eligible \ {a} ELSE eligible \cup {a}
    /\ UNCHANGED <<binding, present, poolLock, rowLock, tx>>

\* Two transactions of different pools may lock their rows in opposite orders;
\* the database ends one of them.
WaitsFor(t) ==
    LET left == {a \in Candidates(t) : rowLock[a] # t} IN
    CASE tx[t].at = "row" -> rowLock[tx[t].cand]
      [] tx[t].at = "rows" /\ left # {} ->
             rowLock[CHOOSE a \in left : \A b \in left : RowOrder[a] <= RowOrder[b]]
      [] tx[t].at = "pool" -> poolLock[PoolOf[tx[t].key]]
      [] OTHER -> NoTx

DeadlockDetected(t) ==
    /\ LET u == WaitsFor(t) IN
       /\ u \notin {NoTx, t}
       /\ LET v == WaitsFor(u) IN v = t \/ (v \notin {NoTx, u} /\ WaitsFor(v) = t)
    /\ Release(t)
    /\ UNCHANGED <<binding, present, eligible, faults>>

TxStep(t) ==
    \/ LockPoolAssignments(t)
    \/ SelectAccountForUpdate(t)
    \/ tx[t].kind # "delete" /\ LockRow(t)
    \/ ProviderAccountHasCapacity(t)
    \/ LockCandidate(t)
    \/ PreferQuotaAccount(t)
    \/ WriteRow(t)
    \/ LockProviderAccountForDeletion(t)
    \/ DeleteProviderAccount(t)
    \/ DeadlockDetected(t)

AssignNext ==
    \/ \E t \in Txs, k \in Keys, kind \in {"create", "reassign", "quota"} :
         \E excluded \in {{}, {binding[k]} \cap PoolAccounts} : BeginTx(t, kind, k, excluded)
    \/ \E t \in Txs, a \in PoolAccounts : BeginDelete(t, a)
    \/ \E t \in Txs : TxStep(t) \/ Abort(t)
    \/ \E k \in Keys : RevokeAPIKey(k)
    \/ \E a \in PoolAccounts : StatusChanges(a)

\* The database hands a lock to its waiters in the order they came: a
\* transaction whose lock is released again and again gets it in the end.
AssignFairness == \A t \in Txs : SF_assignVars(TxStep(t))

AssignSpec == AssignInit /\ [][AssignNext]_assignVars /\ AssignFairness
-----------------------------------------------------------------------------
(* Properties.                                                              *)

\* The transactions implement KeyBindings: whatever runs at the same time, a
\* key moves to an account that has room when the move is committed, and an
\* account with live keys is never removed.
ImplementsKeyBindings == B!BindSpec

\* No account serves more keys than the administrator allows, not even one
\* that two pools hand out at once.
AccountWithinLimit == B!WithinLimit

\* A live key is never left with an account that has been removed.
NoDanglingBinding == B!NoDanglingKey

\* Every transaction ends and gives its locks back, also when two of them
\* lock the same rows in opposite orders.
TransactionsEnd == \A t \in Txs : tx[t] # NoWork ~> tx[t] = NoWork

\* Counting before locking and deleting beside assigning are both safe: no
\* account has too many keys, no key an account that is gone.
AssignSafe == AccountWithinLimit /\ NoDanglingBinding
=============================================================================
