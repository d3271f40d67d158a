---------------------------- MODULE QuotaRouting -----------------------------
(***************************************************************************)
(* The choice of an account by its quota (store/quota_routing.go), which   *)
(* runs inside the transaction of Assignments.  The loop over the locked   *)
(* candidates is a fold; a key asks again before each independent request. *)
(* Percentages are whole numbers.                                          *)
(***************************************************************************)
EXTENDS Integers, SequencesExt

CONSTANTS
    Candidates,     \* what a candidate may look like
    MaxCandidates,  \* bound: accounts of the pool
    Margin,         \* quotaRoutingMargin
    MaxAge          \* quotaRoutingMaxAge, in minutes

\* The weight is that of math.Max(1, weight).
ASSUME QuotaAssumption ==
    /\ Margin \in Nat /\ MaxAge \in Nat /\ MaxCandidates \in Nat
    /\ \A c \in Candidates : c.priority \in Int /\ c.keys \in Nat /\ c.weight \in Nat \ {0}

VARIABLES
    pool,       \* the candidates in the order of their ids
    choice,     \* the account the key is bound to, 0 if it is not a candidate
    rounds       \* how often the key has asked

quotaVars == <<pool, choice, rounds>>

Absent == [used |-> -1, reset |-> TRUE]

\* quotaRoutingScore: what is left in the tighter window, if the snapshot is
\* recent and every window it has is complete.
Invalid == [score |-> 0, plan |-> "", valid |-> FALSE]
QuotaRoutingScore(c) ==
    LET windows == {w \in {c.fiveHour, c.weekly} : w # Absent}
        left == {100} \cup {100 - w.used : w \in windows}
    IN IF \/ c.age < 0 \/ c.age > MaxAge \/ c.error \/ c.plan = "" \/ ~c.allowed
          \/ windows = {} \/ \E w \in windows : w.reset \/ w.used \notin 0..99
       THEN Invalid
       ELSE [score |-> CHOOSE l \in left : \A m \in left : l <= m, plan |-> c.plan, valid |-> TRUE]

\* The account the key is bound to, as the first loop finds it.
CurrentOf(p, current) ==
    IF current = 0 THEN [q |-> Invalid, priority |-> 0]
    ELSE [q |-> QuotaRoutingScore(p[current]), priority |-> p[current].priority]

\* A load of the bound keys per weight is compared without dividing.
Lighter(a, b) == a.keys * b.weight < b.keys * a.weight

\* Mutant: the margin is asked of the best candidate so far.
Mut_MarginOfBest(p, current, best, k) ==
    LET now == CurrentOf(p, current)
        q == QuotaRoutingScore(p[k])
    IN IF \/ k = current \/ ~q.valid \/ p[k].priority > best.priority
          \/ (p[k].priority = now.priority /\ (~now.q.valid \/ q.plan # now.q.plan \/ q.score <= best.score))
          \/ ~p[k].capacity
       THEN best
       ELSE [selected |-> k, score |-> q.score, priority |-> p[k].priority]

\* One turn of the second loop.
Consider(p, current, best, k) ==
    LET now == CurrentOf(p, current)
        q == QuotaRoutingScore(p[k])
    IN IF \/ k = current \/ ~q.valid \/ p[k].priority > best.priority
          \/ (p[k].priority = now.priority /\ (~now.q.valid \/ q.plan # now.q.plan \/ q.score <= now.q.score + Margin))
          \/ ~p[k].capacity
       THEN best
       ELSE IF \/ p[k].priority < best.priority \/ best.selected = current \/ q.score > best.score
               \/ (q.score = best.score /\ Lighter(p[k], p[best.selected]))
       THEN [selected |-> k, score |-> q.score, priority |-> p[k].priority]
       ELSE best

\* PreferQuotaAccount: the account the key is bound to afterwards.
Prefer(p, current) ==
    LET now == CurrentOf(p, current)
    IN FoldLeft(LAMBDA best, k : Consider(p, current, best, k),
                [selected |-> current, score |-> now.q.score, priority |-> now.priority],
                [k \in 1..Len(p) |-> k]).selected
-----------------------------------------------------------------------------
QuotaInit ==
    /\ \E n \in 1..MaxCandidates : pool \in [1..n -> Candidates]
    /\ choice \in 0..Len(pool) /\ rounds = 0

\* The key asks: once to be moved, once more with nothing changed.
AskQuota ==
    /\ rounds < 2 /\ rounds' = rounds + 1
    /\ choice' = Prefer(pool, choice)
    /\ UNCHANGED pool

QuotaNext == AskQuota
QuotaSpec == QuotaInit /\ [][QuotaNext]_quotaVars
-----------------------------------------------------------------------------
(* Properties.                                                              *)

\* The accounts a key may be moved to.
Acceptable(p, current) ==
    {k \in 1..Len(p) \ {current} :
        LET q == QuotaRoutingScore(p[k]) now == CurrentOf(p, current) IN
        /\ q.valid /\ p[k].capacity
        /\ \/ p[k].priority < now.priority
           \/ p[k].priority = now.priority /\ now.q.valid /\ q.plan = now.q.plan /\ q.score > now.q.score + Margin}

\* The order of the loop does not matter: a key is moved exactly when there is
\* an acceptable account, and then to one of the lowest priority number, of
\* the highest score among those and of the lightest load among those.
MovedToTheBest ==
    [][LET good == Acceptable(pool, choice) IN
       IF good = {} THEN choice' = choice
       ELSE /\ choice' \in good
            /\ \A k \in good :
                 LET mine == QuotaRoutingScore(pool[choice']).score yours == QuotaRoutingScore(pool[k]).score IN
                 \/ pool[choice'].priority < pool[k].priority
                 \/ /\ pool[choice'].priority = pool[k].priority
                    /\ mine > yours \/ (mine = yours /\ ~Lighter(pool[k], pool[choice']))]_quotaVars

\* A key that has been moved stays where it is while the quotas do not change:
\* requests do not push it to and fro.
NoOscillation == [][rounds = 1 => choice' = choice]_quotaVars

\* A key moves to the best account there is, and then stays.
QuotaMovesPay == MovedToTheBest /\ NoOscillation
=============================================================================
