---------------------------- MODULE ModelListing -----------------------------
(***************************************************************************)
(* The models of a pool (gateway/models.go, catalog/service.go).  A        *)
(* request that finds no list in the cache asks every account of the pool, *)
(* a few at a time, merges the lists in the order in which they arrive and *)
(* caches the result.  Requests do not exclude each other.                 *)
(***************************************************************************)
EXTENDS Naturals, FiniteSets, SequencesExt

CONSTANTS
    Listers,        \* requests for the models of the pool
    Sources,        \* the accounts of the pool
    OwnerOf,        \* the provider of an account
    ModelsOf,       \* the models an account lists
    Slots           \* modelDiscoveryWorker

ASSUME ListingAssumption == Slots \in Nat \ {0}

VARIABLES
    lister,      \* per request: progress, goroutines, results in their order, list
    listed,      \* the cached list and the accounts it was made from
    overdue      \* requests whose 20 seconds are over

listingVars == <<lister, listed, overdue>>

NoList == [models |-> <<>>, from |-> {}, fresh |-> FALSE]
NewLister == [at |-> "new", task |-> [s \in Sources |-> "none"], results |-> <<>>, answer |-> NoList]

ListingInit ==
    /\ lister = [h \in Listers |-> NewLister]
    /\ listed = NoList /\ overdue = {}

Now(h, f) == lister' = [lister EXCEPT ![h] = f]
-----------------------------------------------------------------------------
\* handleModels: the cache, or one goroutine for each account, unless the
\* accounts cannot be read or there is none.
HandleModels(h) ==
    /\ lister[h].at = "new"
    /\ \/ listed.fresh /\ Now(h, [NewLister EXCEPT !.at = "done", !.answer = listed])
       \/ ~listed.fresh /\ Now(h, [NewLister EXCEPT !.at = "discover", !.task = [s \in Sources |-> "queued"]])
       \/ ~listed.fresh /\ Now(h, [NewLister EXCEPT !.at = "done"])
    /\ UNCHANGED <<listed, overdue>>

\* A goroutine gets one of the slots, or the context ends its waiting.
AcquireSlot(h, s) ==
    /\ lister[h].at = "discover" /\ lister[h].task[s] = "queued"
    /\ \/ /\ Cardinality({t \in Sources : lister[h].task[t] = "listing"}) < Slots
          /\ Now(h, [lister[h] EXCEPT !.task[s] = "listing"])
       \/ /\ h \in overdue
          /\ Now(h, [lister[h] EXCEPT !.task[s] = "over"])
    /\ UNCHANGED <<listed, overdue>>

\* ListAccount returns: a list, or an error, at the latest that of the context.
ListAccount(h, s) ==
    /\ lister[h].at = "discover" /\ lister[h].task[s] = "listing"
    /\ \/ Now(h, [lister[h] EXCEPT !.task[s] = "over", !.results = Append(@, s)])
       \/ Now(h, [lister[h] EXCEPT !.task[s] = "over"])
    /\ UNCHANGED <<listed, overdue>>

\* Mutant: a model belongs to whoever listed it last.
Mut_LastOwner(byID, s) ==
    [m \in DOMAIN byID \cup ModelsOf[s] |-> IF m \in ModelsOf[s] THEN OwnerOf[s] ELSE byID[m]]

\* A list is added: a model listed by several providers belongs to none.
AddModels(byID, s) ==
    [m \in DOMAIN byID \cup ModelsOf[s] |->
        IF m \notin ModelsOf[s] THEN byID[m]
        ELSE IF m \in DOMAIN byID /\ byID[m] # OwnerOf[s] THEN "subpool" ELSE OwnerOf[s]]

\* The wait is over: without any list that is an error, otherwise the lists
\* are merged in the order of their arrival.
MergeModels(h) ==
    /\ lister[h].at = "discover" /\ \A s \in Sources : lister[h].task[s] = "over"
    /\ Now(h, IF lister[h].results = <<>> THEN [NewLister EXCEPT !.at = "done"]
              ELSE [NewLister EXCEPT !.at = "set",
                       !.answer = [models |-> FoldLeft(AddModels, <<>>, lister[h].results),
                                   from |-> ToSet(lister[h].results), fresh |-> TRUE]])
    /\ UNCHANGED <<listed, overdue>>

\* The cache takes the list, over whatever another request has put there.
SetModels(h) ==
    /\ lister[h].at = "set"
    /\ listed' = lister[h].answer
    /\ Now(h, [lister[h] EXCEPT !.at = "done"])
    /\ UNCHANGED overdue

\* The five minutes of the cached list, the 20 seconds of a request.
ListExpires == listed.fresh /\ listed' = NoList /\ UNCHANGED <<lister, overdue>>
ListerOverdue(h) ==
    /\ lister[h].at = "discover" /\ h \notin overdue
    /\ overdue' = overdue \cup {h} /\ UNCHANGED <<lister, listed>>

ListerStep(h) ==
    \/ MergeModels(h) \/ SetModels(h) \/ ListerOverdue(h)
    \/ \E s \in Sources : AcquireSlot(h, s)

ListingNext ==
    \/ \E h \in Listers : HandleModels(h) \/ ListerStep(h) \/ \E s \in Sources : ListAccount(h, s)
    \/ ListExpires

\* Every request makes progress; a listing returns when its context is over.
ListingFairness ==
    \A h \in Listers : /\ WF_listingVars(ListerStep(h))
                       /\ \A s \in Sources : WF_listingVars(h \in overdue /\ ListAccount(h, s))

ListingSpec == ListingInit /\ [][ListingNext]_listingVars /\ ListingFairness
-----------------------------------------------------------------------------
(* Properties.                                                              *)

\* Who owns a model when these accounts have listed theirs.
Owner(from, m) ==
    LET owners == {OwnerOf[s] : s \in {t \in from : m \in ModelsOf[t]}}
    IN IF Cardinality(owners) = 1 THEN CHOOSE o \in owners : TRUE ELSE "subpool"

\* The list that is cached or answered has every model of the accounts that
\* answered, with the owner that does not depend on the order of the answers.
OwnersIndependentOfOrder ==
    \A l \in {listed} \cup {lister[h].answer : h \in Listers} :
        l.fresh => /\ l.from # {}
                   /\ DOMAIN l.models = UNION {ModelsOf[s] : s \in l.from}
                   /\ \A m \in DOMAIN l.models : l.models[m] = Owner(l.from, m)

\* A request for the models is answered although accounts hang and the others
\* wait for their slots.
ListingAnswered == \A h \in Listers : lister[h].at = "discover" ~> lister[h].at = "done"
=============================================================================
