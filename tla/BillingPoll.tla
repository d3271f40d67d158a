----------------------------- MODULE BillingPoll -----------------------------
(***************************************************************************)
(* The reading of an OpenAI account's balance (health/openai_refresh.go,   *)
(* health/openai_balance.go), for credentials with an admin key.           *)
(* Scheduled and manual checks of one process share a map entry that says  *)
(* whether a request is in flight and until when the provider wants to be  *)
(* left alone.  The entry belongs to the credentials it was made for; an   *)
(* administrator may replace them while requests with the old ones are     *)
(* under way.  Times are minutes from now.  Whether the stored balance is  *)
(* recent enough to do without a request is left open.                     *)
(***************************************************************************)
EXTENDS Integers, FiniteSetsExt

CONSTANTS
    Pollers,          \* checks of the account that may overlap
    BillingKeys,      \* credentials of the administrator
    NoKey,
    RefreshInterval,  \* openaibilling.RefreshInterval
    RetryAfter,       \* what a provider may ask for, 0 for nothing
    MaxMinutes        \* bound on time

ASSUME BillingAssumption ==
    /\ NoKey \notin BillingKeys
    /\ RefreshInterval \in Nat \ {0} /\ RetryAfter \subseteq Nat /\ 0 \in RetryAfter

VARIABLES
    billing,   \* the credentials stored in the account
    poll,      \* billingPolls of the account
    asking,    \* what each check is doing, and with which credentials
    replaced,  \* history: requests with two credentials have overlapped
    minutes

billingVars == <<billing, poll, asking, replaced, minutes>>

NewPoll(k) == [identity |-> k, wait |-> 0, failures |-> 0, inFlight |-> FALSE]
NoPolling == [at |-> "idle", key |-> NoKey]
InFlight == {p \in Pollers : asking[p].at = "asking"}

BillingInit ==
    /\ billing \in BillingKeys /\ poll = NewPoll(NoKey)
    /\ asking = [p \in Pollers |-> NoPolling]
    /\ replaced = FALSE /\ minutes = 0
-----------------------------------------------------------------------------
\* A check has read the account and decrypted its credentials.
ReadBilling(p) ==
    /\ asking[p] = NoPolling
    /\ asking' = [asking EXCEPT ![p] = [at |-> "claim", key |-> billing]]
    /\ UNCHANGED <<billing, poll, replaced, minutes>>

\* Mutant: the entry is not written before the answer has come.
Mut_MarkLate(p, mine) == poll' = mine

MarkInFlight(p, mine) == poll' = [mine EXCEPT !.inFlight = TRUE]

\* An entry of other credentials says nothing; it is replaced only when the
\* balance is asked for.  The balance may be recent.
claimBillingPoll(p) ==
    LET k == asking[p].key
        mine == IF poll.identity = k THEN poll ELSE NewPoll(k)
    IN
    /\ asking[p].at = "claim"
    /\ \/ /\ ~mine.inFlight /\ mine.wait = 0 /\ MarkInFlight(p, mine)
          /\ asking' = [asking EXCEPT ![p].at = "asking"]
          /\ replaced' = (replaced \/ \E q \in InFlight : asking[q].key # k)
       \/ asking' = [asking EXCEPT ![p] = NoPolling] /\ UNCHANGED <<poll, replaced>>
    /\ UNCHANGED <<billing, minutes>>

\* A minute, doubled with every refusal up to the interval, or longer if the
\* provider asks for it.
Backoff(failures, after) == Max({Min({2 ^ (failures - 1), RefreshInterval}), after})

\* finishBillingPoll, whatever the provider has answered: the entry may belong
\* to other credentials by now.  history ends with the last request.
finishBillingPoll(p) ==
    /\ asking[p].at = "asking"
    /\ \E limited \in BOOLEAN, after \in RetryAfter :
         poll' = IF poll.identity # asking[p].key THEN poll
                 ELSE IF ~limited THEN NewPoll(poll.identity)
                 ELSE [poll EXCEPT !.inFlight = FALSE, !.failures = @ + 1,
                                   !.wait = Backoff(poll.failures + 1, after)]
    /\ asking' = [asking EXCEPT ![p] = NoPolling]
    /\ replaced' = (replaced /\ InFlight # {p})
    /\ UNCHANGED <<billing, minutes>>

\* The administrator saves other credentials, perhaps earlier ones.
ReplaceBilling ==
    /\ \E k \in BillingKeys \ {billing} : billing' = k
    /\ UNCHANGED <<poll, asking, replaced, minutes>>

\* The map and the checks are of the process.
RestartChecker ==
    /\ poll' = NewPoll(NoKey) /\ asking' = [p \in Pollers |-> NoPolling] /\ replaced' = FALSE
    /\ UNCHANGED <<billing, minutes>>

BillingMinute ==
    /\ minutes < MaxMinutes /\ minutes' = minutes + 1
    /\ poll' = [poll EXCEPT !.wait = IF @ > 0 THEN @ - 1 ELSE 0]
    /\ UNCHANGED <<billing, asking, replaced>>

BillingNext ==
    \/ \E p \in Pollers : ReadBilling(p) \/ claimBillingPoll(p) \/ finishBillingPoll(p)
    \/ ReplaceBilling \/ RestartChecker \/ BillingMinute

BillingSpec == BillingInit /\ [][BillingNext]_billingVars
-----------------------------------------------------------------------------
(* Properties.                                                              *)

\* An entry that says a request is in flight is never left behind, whatever
\* became of the request and of the credentials: the balance can be read again.
PollIsUnderWay == poll.inFlight => \E p \in InFlight : asking[p].key = poll.identity

\* Overlapping checks share one request, as long as the credentials have not
\* been replaced while one was in flight.
OneBalanceRequest == ~replaced => \A p, q \in InFlight : p = q

\* Neither too many balance requests at once nor none for ever.
BillingSafe == PollIsUnderWay /\ OneBalanceRequest
=============================================================================
