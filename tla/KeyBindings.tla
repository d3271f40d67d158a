----------------------------- MODULE KeyBindings -----------------------------
(***************************************************************************)
(* What the assignment of API keys to provider accounts promises: a key    *)
(* moves in one step, to an account that exists and has room, and an       *)
(* account that keys are bound to is not removed.                          *)
(***************************************************************************)
EXTENDS Naturals, FiniteSets

CONSTANTS Keys, PoolAccounts, NoAccount,
          Limit      \* max_api_keys_per_account

VARIABLES
    binding,   \* of the live keys; NoAccount for a key that is not live
    present    \* the accounts that exist

KeysOn(b, a) == {k \in Keys : b[k] = a}
HasRoom(b, a) == Cardinality(KeysOn(b, a)) < Limit

BindInit ==
    /\ present = PoolAccounts
    /\ binding \in [Keys -> PoolAccounts \cup {NoAccount}]
    /\ \A a \in PoolAccounts : Cardinality(KeysOn(binding, a)) <= Limit

Bind(k, a) ==
    /\ a \in present /\ HasRoom(binding, a)
    /\ binding' = [binding EXCEPT ![k] = a]
    /\ UNCHANGED present

Revoke(k) ==
    /\ binding' = [binding EXCEPT ![k] = NoAccount]
    /\ UNCHANGED present

Remove(a) ==
    /\ KeysOn(binding, a) = {}
    /\ present' = present \ {a}
    /\ UNCHANGED binding

BindNext ==
    \/ \E k \in Keys : Revoke(k) \/ \E a \in PoolAccounts : Bind(k, a)
    \/ \E a \in PoolAccounts : Remove(a)

BindSpec == BindInit /\ [][BindNext]_<<binding, present>>

\* No account serves more keys than the administrator allows.
WithinLimit == \A a \in PoolAccounts : Cardinality(KeysOn(binding, a)) <= Limit

\* Every live key is bound to an account that exists.
NoDanglingKey == \A k \in Keys : binding[k] \in present \cup {NoAccount}
=============================================================================
