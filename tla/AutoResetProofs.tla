--------------------------- MODULE AutoResetProofs ---------------------------
(***************************************************************************)
(* Safety of the automatic resets for any number of workers, accounts,     *)
(* credits and batches, and for any lengths of lease and cycle of which    *)
(* the lease is the longer.                                                *)
(***************************************************************************)
EXTENDS AutoReset, TLAPS

Holding(w) == cycle[w].batch # None

\* A worker has a batch exactly in the second half of its cycle; its cycle
\* ends before the lease does, so that no other worker can claim the batch.
Late == {"jobs", "mail", "record", "retry"}

HoldInv ==
    /\ \A w \in Workers :
          /\ Holding(w) <=> cycle[w].at \in Late
          /\ Holding(w) => /\ batch[cycle[w].batch].made
                           /\ cycle[w].left < batch[cycle[w].batch].lease
    /\ \A b \in Batches : batch[b].made => batch[b].attempts > 0
    /\ BatchHeldOnce

\* A row that was never planned is empty; a batch takes rows that have no
\* outcome, and an intent is stored in a row that has been taken.
RowOK(c) ==
    /\ ~job[c].planned => job[c] = EmptyRow
    /\ job[c].batch # None => batch[job[c].batch].made /\ job[c].outcome # "retired"
    /\ job[c].attempted => job[c].batch # None

RowInv == \A c \in Credits : RowOK(c)

\* The holder of a batch alone runs its jobs, with a copy of the rows that
\* stays true as long as it matters.
Mine(w, c) == Holding(w) /\ job[c].batch = cycle[w].batch

CopyIsRow(w, c) == mem[w][c].outcome = job[c].outcome /\ mem[w][c].outcome \in Outcomes

StepOK(w, c) ==
    LET s == step[w][c]
        m == mem[w][c]
    IN /\ s # "none" => Mine(w, c)
       /\ s \in Running => cycle[w].at = "jobs"
       /\ s \in Running \cup {"todo"} => job[c].outcome = None
       /\ s \in {"todo", "attempt"} => m.attempted = job[c].attempted
       /\ s = "attempt" => ~m.attempted
       /\ s = "send" => requests[c] = 0 /\ job[c].attempted
       /\ s = "finish" => m.outcome \in Outcomes
       /\ s = "finish" /\ m.outcome \in NotSent \ {"disabled"} => requests[c] = 0
       /\ m.outcome = "succeeded" => credit[c] = "redeemed"
       /\ s = "done" => CopyIsRow(w, c)
       /\ s = "none" /\ Mine(w, c) /\ cycle[w].at = "jobs" => CopyIsRow(w, c)

StepInv == \A w \in Workers, c \in Credits : StepOK(w, c)

\* A request has its intent; a confirmed one has redeemed its credit; and what
\* the row says of it is so.
SentOK(c) ==
    /\ requests[c] <= 1
    /\ requests[c] > 0 => job[c].attempted
    /\ call[c] = "reset" => credit[c] = "redeemed"
    /\ job[c].outcome = "succeeded" => credit[c] = "redeemed"
    /\ job[c].outcome \in (NotSent \ {"disabled"}) \cup {"retired"} => requests[c] = 0

SentInv == \A c \in Credits : SentOK(c)

\* What a report says of its batch.
TrueReport(body, b) ==
    /\ body.results = {<<c, job[c].outcome>> : c \in JobsOf(b)}
    /\ \A c \in JobsOf(b) : job[c].outcome \in Outcomes

\* A report is frozen after the jobs and before the mail, is true, and is what
\* has been mailed.
ReportInv ==
    /\ \A w \in Workers :
          /\ cycle[w].at = "jobs" => batch[cycle[w].batch].payload = None
          /\ cycle[w].at \in {"mail", "record"} => batch[cycle[w].batch].payload # None
    /\ \A b \in Batches :
          batch[b].payload # None => batch[b].made /\ TrueReport(batch[b].payload, b)
    /\ \A m \in mails : m.batch \in Batches /\ m.body # None /\ m.body = batch[m.batch].payload

ResetInv == TypeOK /\ HoldInv /\ RowInv /\ StepInv /\ SentInv /\ ReportInv

-----------------------------------------------------------------------------
(* Types.                                                                   *)

\* Records of the model after one of their fields has been set.
LEMMA CycleClosed ==
    ASSUME NEW x \in CycleStates, NEW at \in Cycles
    PROVE  /\ [x EXCEPT !.at = at] \in CycleStates
           /\ \A a \in Accounts, l \in SUBSET Credits, f \in BOOLEAN :
                 [x EXCEPT !.at = at, !.account = a, !.avail = l, !.fresh = f] \in CycleStates
           /\ \A t \in SUBSET Accounts :
                 [x EXCEPT !.at = at, !.todo = t, !.account = None, !.avail = {}, !.fresh = FALSE] \in CycleStates
           /\ \A n \in BOOLEAN :
                 [x EXCEPT !.at = at, !.todo = {}, !.account = None, !.avail = {}, !.fresh = FALSE,
                           !.allowNew = n] \in CycleStates
           /\ \A b \in Batches : [x EXCEPT !.batch = b, !.at = at] \in CycleStates
           /\ \A n \in 0..CycleTimeout : [x EXCEPT !.left = n] \in CycleStates
  BY DEF CycleStates

\* A cycle that has not begun, and one that begins.
LEMMA IdleTyped == 
    /\ IdleCycle \in CycleStates
    /\ \A t \in SUBSET Accounts :
          [IdleCycle EXCEPT !.at = "discover", !.left = CycleTimeout, !.todo = t] \in CycleStates
<1>1. 0 \in 0..CycleTimeout /\ CycleTimeout \in 0..CycleTimeout
  BY ConstantsAssumption
<1>2. IdleCycle \in CycleStates
  BY <1>1 DEF IdleCycle, CycleStates, Cycles
<1>3. ASSUME NEW x \in CycleStates, NEW t \in SUBSET Accounts, NEW n \in 0..CycleTimeout
      PROVE [x EXCEPT !.at = "discover", !.left = n, !.todo = t] \in CycleStates
  BY DEF CycleStates, Cycles
<1> QED
  BY <1>1, <1>2, <1>3

\* What the statements write in a batch keeps its type.
LEMMA BatchClosed ==
    ASSUME NEW x \in BatchRows, NEW l \in 0..BatchLease, NEW n \in 0..MaxClaims
    PROVE  /\ [x EXCEPT !.lease = l] \in BatchRows
           /\ [x EXCEPT !.lease = l, !.attempts = n] \in BatchRows
           /\ [x EXCEPT !.made = TRUE, !.lease = l, !.attempts = n] \in BatchRows
           /\ [x EXCEPT !.mailed = TRUE] \in BatchRows
           /\ \A p \in {None} \cup Bodies : [x EXCEPT !.payload = p] \in BatchRows
  BY DEF BatchRows

\* What the statements write in a job keeps its type.
LEMMA RowClosed ==
    ASSUME NEW x \in JobRows
    PROVE  /\ [x EXCEPT !.due = TRUE] \in JobRows
           /\ [x EXCEPT !.attempted = TRUE] \in JobRows
           /\ [x EXCEPT !.planned = TRUE] \in JobRows
           /\ \A o \in RowOutcomes : [x EXCEPT !.outcome = o] \in JobRows
           /\ \A b \in Batches : [x EXCEPT !.batch = b] \in JobRows
  BY DEF JobRows

\* A job, a batch and a copy as they are made.
LEMMA EmptyTyped == EmptyRow \in JobRows /\ FreshBatch \in BatchRows /\ NoMem \in Copies
<1>1. 0 \in 0..BatchLease /\ 0 \in 0..MaxClaims
  BY ConstantsAssumption
<1>2. EmptyRow \in JobRows
  BY DEF EmptyRow, JobRows, RowOutcomes
<1>3. FreshBatch \in BatchRows
  BY <1>1 DEF FreshBatch, BatchRows
<1>4. NoMem \in Copies
  BY DEF NoMem, Copies, RowOutcomes
<1> QED
  BY <1>2, <1>3, <1>4

\* An outcome can be kept in memory.
LEMMA CopyClosed ==
    ASSUME NEW x \in Copies, NEW o \in RowOutcomes
    PROVE  [x EXCEPT !.outcome = o] \in Copies
  BY DEF Copies
-----------------------------------------------------------------------------
(* Most actions are one of two kinds, as far as the invariant can tell.    *)

\* What upstream has redeemed stays so, and it confirms nothing else.
RedeemedKept ==
    \A c \in Credits : /\ credit[c] = "redeemed" => credit'[c] = "redeemed"
                       /\ call'[c] = "reset" => credit'[c] = "redeemed"

\* A row is planned, falls due, is retired before any batch has it, or is left
\* alone.
RowKept(c) ==
    /\ job'[c].batch = job[c].batch
    /\ job'[c].attempted = job[c].attempted
    /\ \/ job'[c].outcome = job[c].outcome
       \/ job[c].batch = None /\ job[c].outcome = None /\ ~job[c].attempted /\ job'[c].outcome = "retired"
    /\ ~job'[c].planned => job'[c] = job[c]

\* Nothing happens to a batch or to a worker that has one.
Aside ==
    /\ UNCHANGED <<requests, batch, step, mem, mails>>
    /\ TypeOK' /\ RedeemedKept
    /\ \A c \in Credits : RowKept(c)
    /\ \A w \in Workers : \/ cycle'[w] = cycle[w]
                          \/ /\ cycle[w].at \notin Late /\ cycle'[w].at \notin Late
                             /\ cycle'[w].batch = None

\* Worker w does a step of its job c, and what it does there is in order.
JobMove(w, c) ==
    /\ Mine(w, c) /\ cycle[w].at = "jobs"
    /\ UNCHANGED <<batch, cycle, mails>>
    /\ TypeOK' /\ RedeemedKept
    /\ \A d \in Credits \ {c} : requests'[d] = requests[d] /\ job'[d] = job[d]
    /\ \A v \in Workers, d \in Credits :
          v # w \/ d # c => step'[v][d] = step[v][d] /\ mem'[v][d] = mem[v][d]
    /\ job'[c].batch = job[c].batch
    /\ job[c].attempted => job'[c].attempted
    /\ job[c].outcome # None => job'[c].outcome = job[c].outcome
    /\ RowOK(c)' /\ StepOK(w, c)' /\ SentOK(c)'

\* A step aside from batches and running jobs keeps the invariant.
LEMMA AsideKeeps == ResetInv /\ Aside => ResetInv'
<1> SUFFICES ASSUME ResetInv, Aside PROVE ResetInv'
  OBVIOUS
<1> USE DEF ResetInv
<1>1. /\ UNCHANGED <<requests, batch, step, mem, mails>>
      /\ \A c \in Credits : RowKept(c)
      /\ RedeemedKept /\ TypeOK'
  BY DEF Aside
<1>2. \A w \in Workers : \/ cycle'[w] = cycle[w]
                         \/ ~Holding(w) /\ ~Holding(w)' /\ cycle[w].at \notin Late /\ cycle'[w].at \notin Late
  BY DEF Aside, HoldInv, Holding
<1>3. HoldInv'
  BY <1>1, <1>2 DEF HoldInv, Holding, BatchHeldOnce
<1>4. RowInv'
  <2> SUFFICES ASSUME NEW c \in Credits PROVE RowOK(c)'
    BY DEF RowInv
  <2>1. RowOK(c) /\ RowKept(c) /\ batch' = batch
    BY <1>1 DEF RowInv
  <2> QED
    BY <2>1 DEF RowOK, RowKept, EmptyRow
<1>5. StepInv'
  <2> SUFFICES ASSUME NEW w \in Workers, NEW c \in Credits PROVE StepOK(w, c)'
    BY DEF StepInv
  <2>1. StepOK(w, c) /\ RowKept(c) /\ RowOK(c)
    BY <1>1 DEF StepInv, RowInv
  <2>2. Mine(w, c)' = Mine(w, c)
    BY <1>2, <2>1 DEF Mine, Holding, RowKept
  <2>3. Mine(w, c) => cycle'[w] = cycle[w] /\ job'[c].outcome = job[c].outcome
    BY <1>2, <2>1 DEF Mine, Holding, RowKept
  <2>4. job[c].outcome = None /\ Mine(w, c) => job'[c].outcome = None
    BY <2>3
  <2>5. /\ mem' = mem /\ step' = step /\ requests' = requests
        /\ job'[c].attempted = job[c].attempted
        /\ credit[c] = "redeemed" => credit'[c] = "redeemed"
    BY <1>1, <2>1 DEF RowKept, RedeemedKept
  <2>6. step[w][c] \in Running \cup {"todo", "attempt", "send", "finish", "done"} => Mine(w, c)
    BY <2>1 DEF StepOK, Running
  <2> QED
    BY <2>1, <2>2, <2>3, <2>5, <2>6 DEF StepOK, CopyIsRow
<1>6. SentInv'
  <2> SUFFICES ASSUME NEW c \in Credits PROVE SentOK(c)'
    BY DEF SentInv
  <2>1. SentOK(c) /\ RowKept(c) /\ RowOK(c)
    BY <1>1 DEF SentInv, RowInv
  <2>2. /\ requests' = requests /\ requests[c] \in Nat
        /\ credit[c] = "redeemed" => credit'[c] = "redeemed"
        /\ call'[c] = "reset" => credit'[c] = "redeemed"
    BY <1>1 DEF RedeemedKept, TypeOK, UpstreamOK
  <2> QED
    BY <2>1, <2>2 DEF SentOK, RowKept
<1>7. ReportInv'
  <2>1. \A w \in Workers : cycle'[w] = cycle[w] \/ cycle'[w].at \notin Late
    BY <1>2
  <2>2. \A b \in Batches : JobsOf(b)' = JobsOf(b)
    BY <1>1 DEF JobsOf, RowKept
  <2>3. \A b \in Batches, c \in Credits : c \in JobsOf(b) => job'[c].outcome = job[c].outcome
    BY <1>1, NoneIsNoValue DEF JobsOf, RowKept
  <2>4. \A b \in Batches, c \in Credits : c \in JobsOf(b) => c \in Credits
    OBVIOUS
  <2>5. ASSUME NEW b \in Batches, batch[b].payload # None
        PROVE  batch[b].made /\ TrueReport(batch[b].payload, b)'
    <3>1. TrueReport(batch[b].payload, b) /\ batch[b].made
      BY <2>5 DEF ReportInv
    <3>2. {<<c, job'[c].outcome>> : c \in JobsOf(b)} = {<<c, job[c].outcome>> : c \in JobsOf(b)}
      BY <2>3 DEF JobsOf
    <3>3. JobsOf(b)' = JobsOf(b) /\ \A c \in JobsOf(b) : job'[c].outcome = job[c].outcome
      BY <2>2, <2>3 DEF JobsOf
    <3> QED
      BY <1>1, <3>1, <3>2, <3>3 DEF TrueReport
  <2> QED
    BY <1>1, <2>1, <2>5 DEF ReportInv, Late
<1> QED
  BY <1>1, <1>3, <1>4, <1>5, <1>6, <1>7

\* So does a step that takes one job of a holder to its next place.
LEMMA JobMoveKeeps ==
    ASSUME NEW w \in Workers, NEW c \in Credits, ResetInv, JobMove(w, c)
    PROVE  ResetInv'
<1> USE DEF ResetInv
<1>1. /\ Mine(w, c) /\ cycle[w].at = "jobs"
      /\ UNCHANGED <<batch, cycle, mails>>
      /\ TypeOK' /\ RedeemedKept
      /\ RowOK(c)' /\ StepOK(w, c)' /\ SentOK(c)'
  BY DEF JobMove
<1>2. /\ \A d \in Credits \ {c} : requests'[d] = requests[d] /\ job'[d] = job[d]
      /\ \A v \in Workers, d \in Credits :
            v # w \/ d # c => step'[v][d] = step[v][d] /\ mem'[v][d] = mem[v][d]
      /\ job'[c].batch = job[c].batch
      /\ job[c].outcome # None => job'[c].outcome = job[c].outcome
  BY DEF JobMove
<1>3. HoldInv'
  BY <1>1 DEF HoldInv, Holding, BatchHeldOnce
<1>4. RowInv'
  <2> SUFFICES ASSUME NEW d \in Credits, d # c PROVE RowOK(d)'
    BY <1>1 DEF RowInv
  <2>1. RowOK(d) /\ job'[d] = job[d] /\ batch' = batch
    BY <1>1, <1>2 DEF RowInv
  <2> QED
    BY <2>1 DEF RowOK, EmptyRow
<1>5. StepInv'
  <2> SUFFICES ASSUME NEW v \in Workers, NEW d \in Credits, v # w \/ d # c
               PROVE  StepOK(v, d)'
    BY <1>1 DEF StepInv
  <2>1. /\ StepOK(v, d) /\ cycle' = cycle
        /\ step'[v][d] = step[v][d] /\ mem'[v][d] = mem[v][d]
        /\ credit[d] = "redeemed" => credit'[d] = "redeemed"
    BY <1>1, <1>2 DEF StepInv, RedeemedKept
  <2>2. CASE d # c
    <3>1. job'[d] = job[d] /\ requests'[d] = requests[d]
      BY <1>2, <2>2
    <3> QED
      BY <2>1, <3>1 DEF StepOK, CopyIsRow, Mine, Holding
  <2>3. CASE d = c
    <3>1. ~Mine(v, c) /\ ~Mine(v, c)'
      BY <1>1, <1>2, <2>3 DEF Mine, Holding, HoldInv, BatchHeldOnce
    <3>2. step[v][c] = "none"
      BY <2>1, <2>3, <3>1 DEF StepOK
    <3> QED
      BY <2>1, <2>3, <3>1, <3>2 DEF StepOK, Running
  <2> QED
    BY <2>2, <2>3
<1>6. SentInv'
  <2> SUFFICES ASSUME NEW d \in Credits, d # c PROVE SentOK(d)'
    BY <1>1 DEF SentInv
  <2>1. /\ SentOK(d) /\ job'[d] = job[d] /\ requests'[d] = requests[d]
        /\ credit[d] = "redeemed" => credit'[d] = "redeemed"
        /\ call'[d] = "reset" => credit'[d] = "redeemed"
    BY <1>1, <1>2 DEF SentInv, RedeemedKept
  <2> QED
    BY <2>1 DEF SentOK
<1>7. ReportInv'
  <2>1. ASSUME NEW b \in Batches, batch[b].payload # None
        PROVE  batch[b].made /\ TrueReport(batch[b].payload, b)'
    <3>1. TrueReport(batch[b].payload, b) /\ batch[b].made
      BY <2>1 DEF ReportInv
    <3>2. c \notin JobsOf(b)
      BY <1>1, <2>1 DEF ReportInv, JobsOf, Mine
    <3>3. JobsOf(b)' = JobsOf(b)
      BY <1>2 DEF JobsOf
    <3>4. \A d \in JobsOf(b) : job'[d] = job[d]
      BY <1>2, <3>2 DEF JobsOf
    <3>5. {<<d, job'[d].outcome>> : d \in JobsOf(b)} = {<<d, job[d].outcome>> : d \in JobsOf(b)}
      BY <3>4
    <3> QED
      BY <1>1, <3>1, <3>3, <3>4, <3>5 DEF TrueReport
  <2> QED
    BY <1>1, <2>1 DEF ReportInv
<1> QED
  BY <1>1, <1>3, <1>4, <1>5, <1>6, <1>7
-----------------------------------------------------------------------------
(* The world outside and the first half of a cycle.                        *)

\* What the actions of the administrator, upstream and the clock leave alone.
LEMMA OutsideIsAside ==
    ASSUME TypeOK, SentInv,
           UNCHANGED <<requests, job, batch, cycle, step, mem, mails>>,
           UpstreamOK', OutsideOK', RedeemedKept
    PROVE  Aside
<1>1. TypeOK'
  BY DEF TypeOK
<1>2. \A c \in Credits : RowKept(c)
  BY DEF RowKept
<1> QED
  BY <1>1, <1>2 DEF Aside

\* A stored list of credits has its type.
LEMMA StoredTyped ==
    ASSUME NEW a \in Accounts, NEW l \in SUBSET Credits, OutsideOK, SetProviderResetCredits(a, l)
    PROVE  cache' \in [Accounts -> [known : BOOLEAN, fresh : BOOLEAN, avail : SUBSET Credits]]
  BY DEF OutsideOK, SetProviderResetCredits

\* What comes from outside is counted and bounded.
LEMMA CountTyped == OutsideOK /\ FromOutside => events' \in 0..MaxEvents
  BY ConstantsAssumption DEF OutsideOK, FromOutside

\* Upstream, and what the console redeems, is aside.
LEMMA UpstreamActs ==
    ASSUME ResetInv, NEW c \in Credits, CreditChanges(c) \/ ConsoleConsumes(c) \/ ServeConsume(c)
    PROVE  Aside
<1>1. TypeOK /\ UpstreamOK /\ OutsideOK /\ SentInv
  BY DEF ResetInv, TypeOK
<1>2. \A d \in Credits : call[d] = "reset" => credit[d] = "redeemed"
  BY <1>1 DEF SentInv, SentOK
<1>3. CASE CreditChanges(c)
  <2>1. UNCHANGED <<call, requests, disabled, window, cache, console, job, batch, cycle, step, mem, mails>>
    BY <1>3 DEF CreditChanges, outsideVars, tableVars, workerVars
  <2>2. credit' \in [Credits -> CreditStates] /\ credit[c] # "redeemed"
        /\ \A d \in Credits \ {c} : credit'[d] = credit[d]
    BY <1>1, <1>3 DEF CreditChanges, UpstreamOK, CreditStates
  <2>3. UpstreamOK' /\ OutsideOK'
    BY <1>1, <1>3, <2>1, <2>2, CountTyped DEF UpstreamOK, OutsideOK, CreditChanges
  <2>4. RedeemedKept
    BY <1>2, <2>1, <2>2 DEF RedeemedKept
  <2> QED
    BY <1>1, <2>1, <2>3, <2>4, OutsideIsAside
<1>4. CASE ConsoleConsumes(c)
  <2>1. UNCHANGED <<call, requests, window, console, job, batch, cycle, step, mem, mails>>
    BY <1>4 DEF ConsoleConsumes, tableVars, workerVars
  <2>2. credit' \in [Credits -> CreditStates]
        /\ \A d \in Credits : credit'[d] = IF d = c THEN "redeemed" ELSE credit[d]
    BY <1>1, <1>4 DEF ConsoleConsumes, UpstreamOK, CreditStates
  <2>3. AccountOf[c] \in Accounts /\ Listed(AccountOf[c]) \ {c} \in SUBSET Credits
    BY ConstantsAssumption DEF Listed
  <2>4. cache' \in [Accounts -> [known : BOOLEAN, fresh : BOOLEAN, avail : SUBSET Credits]]
    <3>1. CASE UNCHANGED cache
      BY <1>1, <3>1 DEF OutsideOK
    <3>2. CASE SetProviderResetCredits(AccountOf[c], Listed(AccountOf[c]) \ {c})
      BY <1>1, <2>3, <3>2, StoredTyped
    <3> QED
      BY <1>4, <3>1, <3>2 DEF ConsoleConsumes
  <2>5. disabled' \subseteq Accounts /\ events' \in 0..MaxEvents
    BY <1>1, <1>4, CountTyped DEF ConsoleConsumes, StatusWritten, OutsideOK
  <2>6. UpstreamOK' /\ OutsideOK'
    BY <1>1, <2>1, <2>2, <2>4, <2>5 DEF UpstreamOK, OutsideOK
  <2>7. RedeemedKept
    BY <1>2, <2>1, <2>2 DEF RedeemedKept
  <2> QED
    BY <1>1, <2>1, <2>6, <2>7, OutsideIsAside
<1>5. CASE ServeConsume(c)
  <2>1. UNCHANGED <<requests, disabled, window, cache, console, events, job, batch, cycle, step, mem, mails>>
    BY <1>5 DEF ServeConsume, outsideVars, tableVars, workerVars
  <2>2. UpstreamOK' /\ OutsideOK'
    BY <1>1, <1>5, <2>1 DEF ServeConsume, UpstreamOK, OutsideOK, CreditStates, CallStates
  <2>3. RedeemedKept
    BY <1>1, <1>2, <1>5 DEF RedeemedKept, ServeConsume, UpstreamOK
  <2> QED
    BY <1>1, <2>1, <2>2, <2>3, OutsideIsAside
<1> QED
  BY <1>3, <1>4, <1>5

\* What the console reads, stores or switches is aside.
LEMMA ConsoleActs ==
    ASSUME ResetInv, NEW a \in Accounts,
           ToggleAccount(a) \/ CacheAges(a) \/ ConsoleReads(a) \/ ConsoleStores(a)
    PROVE  Aside
<1>1. TypeOK /\ UpstreamOK /\ OutsideOK /\ SentInv
  BY DEF ResetInv, TypeOK
<1>2. UNCHANGED <<credit, call, requests, window, job, batch, cycle, step, mem, mails>>
  BY DEF ToggleAccount, CacheAges, ConsoleReads, ConsoleStores, upstreamVars, tableVars, workerVars
<1>3. UpstreamOK' /\ RedeemedKept
  BY <1>1, <1>2 DEF UpstreamOK, RedeemedKept, SentInv, SentOK
<1>4. OutsideOK'
  <2>1. CASE ToggleAccount(a)
    BY <1>1, <2>1, CountTyped DEF ToggleAccount, OutsideOK
  <2>2. CASE CacheAges(a)
    BY <1>1, <2>2, CountTyped DEF CacheAges, OutsideOK
  <2>3. CASE ConsoleReads(a)
    BY <1>1, <2>3, CountTyped DEF ConsoleReads, OutsideOK, Listed
  <2>4. CASE ConsoleStores(a)
    <3>1. console[a] \in SUBSET Credits /\ SetProviderResetCredits(a, console[a])
      BY <1>1, <2>4 DEF ConsoleStores, OutsideOK
    <3>2. console' \in [Accounts -> {None} \cup SUBSET Credits]
      BY <1>1, <2>4 DEF ConsoleStores, OutsideOK
    <3> QED
      BY <1>1, <2>4, <3>1, <3>2, StoredTyped DEF ConsoleStores, OutsideOK
  <2> QED
    BY <2>1, <2>2, <2>3, <2>4
<1> QED
  BY <1>1, <1>2, <1>3, <1>4, OutsideIsAside

\* The daily window is aside.
LEMMA ClockActs ==
    ASSUME ResetInv, WindowOpens \/ WindowCloses
    PROVE  Aside
<1>1. TypeOK /\ UpstreamOK /\ OutsideOK /\ SentInv
  BY DEF ResetInv, TypeOK
<1>2. UNCHANGED <<credit, call, requests, disabled, cache, console, job, batch, cycle, step, mem, mails>>
  BY DEF WindowOpens, WindowCloses, upstreamVars, tableVars, workerVars
<1>3. UpstreamOK' /\ RedeemedKept
  BY <1>1, <1>2 DEF UpstreamOK, RedeemedKept, SentInv, SentOK
<1>4. OutsideOK'
  BY <1>1, <1>2, CountTyped DEF WindowOpens, WindowCloses, OutsideOK
<1> QED
  BY <1>1, <1>2, <1>3, <1>4, OutsideIsAside

\* What the first half of a cycle leaves alone, and what it may change.
LEMMA EarlyIsAside ==
    ASSUME ResetInv, NEW w \in Workers, NEW x \in CycleStates,
           cycle' = [cycle EXCEPT ![w] = x], x.at \notin Late, x.batch = None,
           cycle[w].at \notin Late,
           UNCHANGED <<upstreamVars, batch, step, mem, mails>>,
           OutsideOK', job' \in [Credits -> JobRows], \A c \in Credits : RowKept(c)
    PROVE  Aside
<1>1. TypeOK'
  BY DEF ResetInv, TypeOK, UpstreamOK, upstreamVars
<1>2. RedeemedKept
  BY DEF RedeemedKept, upstreamVars, ResetInv, SentInv, SentOK
<1>3. \A v \in Workers : cycle'[v] = IF v = w THEN x ELSE cycle[v]
  BY DEF ResetInv, TypeOK
<1> QED
  BY <1>1, <1>2, <1>3 DEF Aside, upstreamVars

\* A job becomes due without being touched otherwise.
LEMMA JobFallsDueIsAside ==
    ASSUME ResetInv, NEW c \in Credits, JobFallsDue(c)
    PROVE  Aside
<1>1. TypeOK /\ job[c] \in JobRows
  BY DEF ResetInv, TypeOK
<1>2. job' = [job EXCEPT ![c] = [job[c] EXCEPT !.due = TRUE]] /\ job[c].planned
      /\ UNCHANGED <<credit, call, requests, disabled, window, cache, console, batch, cycle, step, mem, mails, events>>
  BY DEF JobFallsDue, upstreamVars, outsideVars, workerVars
<1>3. job' \in [Credits -> JobRows]
  BY <1>1, <1>2, RowClosed DEF TypeOK
<1>4. TypeOK'
  BY <1>1, <1>2, <1>3 DEF TypeOK, UpstreamOK, OutsideOK
<1>5. \A d \in Credits : RowKept(d)
  BY <1>1, <1>2 DEF RowKept, TypeOK, JobRows
<1>6. RedeemedKept
  BY <1>2 DEF RedeemedKept, ResetInv, SentInv, SentOK
<1> QED
  BY <1>2, <1>4, <1>5, <1>6 DEF Aside

\* A worker without a batch begins a cycle.
LEMMA StartCycleIsAside ==
    ASSUME ResetInv, NEW w \in Workers, StartCycle(w)
    PROVE  Aside
<1> DEFINE x == [IdleCycle EXCEPT !.at = "discover", !.left = CycleTimeout, !.todo = Accounts \ disabled]
<1>1. /\ cycle' = [cycle EXCEPT ![w] = x] /\ cycle[w].at \notin Late
      /\ UNCHANGED <<upstreamVars, outsideVars, job, batch, step, mem, mails, events>>
  BY DEF StartCycle, At, Late, tableVars
<1>2. x \in CycleStates /\ x.at \notin Late /\ x.batch = None
  BY IdleTyped DEF IdleCycle, Late
<1>3. OutsideOK' /\ job' \in [Credits -> JobRows] /\ \A c \in Credits : RowKept(c)
  BY <1>1 DEF ResetInv, TypeOK, OutsideOK, outsideVars, RowKept
<1> HIDE DEF x
<1> QED
  BY <1>1, <1>2, <1>3, EarlyIsAside

\* Discovery looks at an account.
LEMMA DiscoverIsAside ==
    ASSUME ResetInv, NEW w \in Workers, discoverResets(w)
    PROVE  Aside
<1>1. cycle[w] \in CycleStates /\ cycle[w].batch = None /\ cycle[w].at \notin Late
  BY DEF ResetInv, TypeOK, discoverResets, At, Late, HoldInv, Holding
<1>2. UNCHANGED <<upstreamVars, outsideVars, job, batch, step, mem, mails, events>>
  BY DEF discoverResets, tableVars
<1>3. OutsideOK /\ OutsideOK' /\ job' \in [Credits -> JobRows] /\ \A c \in Credits : RowKept(c)
  BY <1>2 DEF ResetInv, TypeOK, OutsideOK, outsideVars, RowKept
<1>4. PICK at \in {"reconcile", "store"}, a \in Accounts, l \in SUBSET Credits, f \in BOOLEAN :
         cycle' = [cycle EXCEPT ![w] = [cycle[w] EXCEPT !.at = at, !.account = a, !.avail = l, !.fresh = f]]
  <2>1. PICK a \in cycle[w].todo :
           \/ cycle' = [cycle EXCEPT ![w] = [cycle[w] EXCEPT !.at = "reconcile",
                 !.account = a, !.avail = cache[a].avail, !.fresh = TRUE]]
           \/ cycle' = [cycle EXCEPT ![w] = [cycle[w] EXCEPT !.at = "store",
                 !.account = a, !.avail = Listed(a), !.fresh = TRUE]]
           \/ cycle' = [cycle EXCEPT ![w] = [cycle[w] EXCEPT !.at = "reconcile",
                 !.account = a, !.avail = cache[a].avail, !.fresh = FALSE]]
    BY DEF discoverResets
  <2>2. a \in Accounts
    BY <1>1, <2>1 DEF CycleStates
  <2>3. cache[a].avail \in SUBSET Credits /\ Listed(a) \in SUBSET Credits
    BY <1>3, <2>2 DEF OutsideOK, Listed
  <2> QED
    BY <2>1, <2>2, <2>3
<1> DEFINE x == [cycle[w] EXCEPT !.at = at, !.account = a, !.avail = l, !.fresh = f]
<1>5. at \in Cycles /\ at \notin Late
  BY <1>4 DEF Cycles, Late
<1>6. x \in CycleStates
  BY <1>1, <1>5, CycleClosed
<1>7. x.at = at /\ x.batch = None
  BY <1>1 DEF CycleStates
<1>8. cycle' = [cycle EXCEPT ![w] = x]
  BY <1>4
<1> HIDE DEF x
<1> QED
  BY <1>1, <1>2, <1>3, <1>5, <1>6, <1>7, <1>8, EarlyIsAside

\* Discovery asks for the credits and stores them.
LEMMA RefreshIsAside ==
    ASSUME ResetInv, NEW w \in Workers, refreshResetCredits(w)
    PROVE  Aside
<1>1. cycle[w] \in CycleStates /\ cycle[w].batch = None /\ cycle[w].at \notin Late
  BY DEF ResetInv, TypeOK, refreshResetCredits, At, Late, HoldInv, Holding
<1> DEFINE x == [cycle[w] EXCEPT !.at = "reconcile"]
<1>2. /\ UNCHANGED <<upstreamVars, disabled, window, console, job, batch, step, mem, mails, events>>
      /\ cycle' = [cycle EXCEPT ![w] = x]
  BY DEF refreshResetCredits, tableVars
<1>3. OutsideOK'
  <2>1. PICK a, l : a = cycle[w].account /\ l = cycle[w].avail /\ SetProviderResetCredits(a, l)
    BY DEF refreshResetCredits
  <2>2. OutsideOK /\ l \in SUBSET Credits
    BY <1>1, <2>1 DEF ResetInv, TypeOK, CycleStates
  <2>3. cache' \in [Accounts -> [known : BOOLEAN, fresh : BOOLEAN, avail : SUBSET Credits]]
    BY <2>1, <2>2 DEF SetProviderResetCredits, OutsideOK
  <2> QED
    BY <1>2, <2>2, <2>3 DEF OutsideOK
<1>4. job' \in [Credits -> JobRows] /\ \A c \in Credits : RowKept(c)
  BY <1>2 DEF ResetInv, TypeOK, RowKept
<1>5. x \in CycleStates
  BY <1>1, CycleClosed DEF Cycles
<1>6. x.at \notin Late /\ x.batch = None
  BY <1>1 DEF Late, CycleStates
<1> HIDE DEF x
<1> QED
  BY <1>1, <1>2, <1>3, <1>4, <1>5, <1>6, EarlyIsAside

\* A row whose credit is no longer listed is retired unless a batch holds it.
LEMMA ReconcileIsAside ==
    ASSUME ResetInv, NEW w \in Workers, ReconcilePendingResets(w)
    PROVE  Aside
<1>1. cycle[w] \in CycleStates /\ cycle[w].batch = None /\ cycle[w].at \notin Late
  BY DEF ResetInv, TypeOK, ReconcilePendingResets, At, Late, HoldInv, Holding
<1> DEFINE x == [cycle[w] EXCEPT !.at = "plan"]
           old == Obsolete(cycle[w].account, cycle[w].avail)
           retired(c) == [job[c] EXCEPT !.outcome = "retired"]
<1>2. /\ UNCHANGED <<upstreamVars, outsideVars, batch, step, mem, mails, events>>
      /\ cycle' = [cycle EXCEPT ![w] = x]
  BY DEF ReconcilePendingResets
<1>3. OutsideOK' /\ job \in [Credits -> JobRows]
  BY <1>2 DEF ResetInv, TypeOK, OutsideOK, outsideVars
<1>4. /\ \A c \in Credits : job'[c] = job[c] \/ (c \in old /\ job'[c] = retired(c))
      /\ job' \in [Credits -> JobRows]
  <2>1. job' = job \/ job' = [c \in Credits |-> IF c \in old THEN retired(c) ELSE job[c]]
    BY DEF ReconcilePendingResets
  <2>2. "retired" \in RowOutcomes
    BY DEF RowOutcomes
  <2>3. \A c \in Credits : retired(c) \in JobRows
    BY <1>3, <2>2, RowClosed
  <2> HIDE DEF old, retired
  <2> QED
    BY <1>3, <2>1, <2>3
<1>5. \A c \in Credits : RowKept(c)
  <2> SUFFICES ASSUME NEW c \in Credits PROVE RowKept(c)
    OBVIOUS
  <2>1. job[c] \in JobRows /\ (c \in old => job[c].planned /\ job[c].batch = None /\ ~job[c].attempted /\ job[c].outcome = None)
    BY <1>3 DEF Obsolete
  <2> HIDE DEF old
  <2> QED
    BY <1>4, <2>1 DEF RowKept, JobRows
<1>6. x \in CycleStates
  BY <1>1, CycleClosed DEF Cycles
<1>7. x.at \notin Late /\ x.batch = None
  BY <1>1 DEF Late, CycleStates
<1> HIDE DEF x
<1> QED
  BY <1>1, <1>2, <1>3, <1>4, <1>5, <1>6, <1>7, EarlyIsAside

\* The upsert of a plan leaves rows of a batch and settled rows alone.
LEMMA PlanIsAside ==
    ASSUME ResetInv, NEW w \in Workers, PlanReset(w)
    PROVE  Aside
<1>1. cycle[w] \in CycleStates /\ cycle[w].batch = None /\ cycle[w].at \notin Late
  BY DEF ResetInv, TypeOK, PlanReset, At, Late, HoldInv, Holding
<1> DEFINE x == [cycle[w] EXCEPT !.at = "discover", !.todo = cycle[w].todo \ {cycle[w].account},
                     !.account = None, !.avail = {}, !.fresh = FALSE]
           planned == [EmptyRow EXCEPT !.planned = TRUE]
<1>2. /\ UNCHANGED <<upstreamVars, outsideVars, batch, step, mem, mails, events>>
      /\ cycle' = [cycle EXCEPT ![w] = x]
  BY DEF PlanReset
<1>3. OutsideOK' /\ job \in [Credits -> JobRows]
  BY <1>2 DEF ResetInv, TypeOK, OutsideOK, outsideVars
<1>4. job' = job \/ \E c \in Credits : ~job[c].planned /\ job' = [job EXCEPT ![c] = planned]
  BY <1>1 DEF PlanReset, CycleStates
<1>5. planned \in JobRows
  BY EmptyTyped, RowClosed
<1>6. \A c \in Credits : RowKept(c)
  <2> SUFFICES ASSUME NEW c \in Credits PROVE RowKept(c)
    OBVIOUS
  <2>1. CASE job'[c] = job[c]
    BY <2>1 DEF RowKept
  <2>2. CASE ~job[c].planned /\ job'[c] = planned
    <3>1. job[c] = EmptyRow
      BY <2>2 DEF ResetInv, RowInv, RowOK
    <3> QED
      BY <2>2, <3>1 DEF RowKept, EmptyRow
  <2> HIDE DEF planned
  <2> QED
    BY <1>3, <1>4, <2>1, <2>2
<1> HIDE DEF planned
<1>7. job' \in [Credits -> JobRows]
  BY <1>3, <1>4, <1>5
<1>8. cycle[w].todo \ {cycle[w].account} \in SUBSET Accounts
  BY <1>1 DEF CycleStates
<1>9. x \in CycleStates
  BY <1>1, <1>8, CycleClosed DEF Cycles
<1>10. x.at \notin Late /\ x.batch = None
  BY <1>1 DEF Late, CycleStates
<1> HIDE DEF x
<1> QED
  BY <1>1, <1>2, <1>3, <1>6, <1>7, <1>9, <1>10, EarlyIsAside

\* Discovery ends with or without the window open.
LEMMA DiscoveryEndsIsAside ==
    ASSUME ResetInv, NEW w \in Workers, DiscoveryEnds(w)
    PROVE  Aside
<1>1. cycle[w] \in CycleStates /\ cycle[w].batch = None /\ cycle[w].at \notin Late
  BY DEF ResetInv, TypeOK, DiscoveryEnds, At, Late, HoldInv, Holding
<1> DEFINE x == [cycle[w] EXCEPT !.at = "claim", !.todo = {},
           !.account = None, !.avail = {}, !.fresh = FALSE, !.allowNew = window]
<1>2. /\ UNCHANGED <<upstreamVars, outsideVars, job, batch, step, mem, mails, events>>
      /\ cycle' = [cycle EXCEPT ![w] = x]
  BY DEF DiscoveryEnds, tableVars
<1>3. OutsideOK' /\ job' \in [Credits -> JobRows] /\ \A c \in Credits : RowKept(c)
  BY <1>2 DEF ResetInv, TypeOK, OutsideOK, outsideVars, RowKept
<1>4. window \in BOOLEAN
  BY DEF ResetInv, TypeOK, OutsideOK
<1>5. x \in CycleStates
  BY <1>1, <1>4, CycleClosed DEF Cycles
<1>6. x.at \notin Late /\ x.batch = None
  BY <1>1 DEF Late, CycleStates
<1> HIDE DEF x
<1> QED
  BY <1>1, <1>2, <1>3, <1>5, <1>6, EarlyIsAside

\* A worker that finds no batch ends its cycle.
LEMMA ClaimNothingIsAside ==
    ASSUME ResetInv, NEW w \in Workers, ClaimNothing(w)
    PROVE  Aside
<1>1. /\ UNCHANGED <<upstreamVars, outsideVars, job, batch, step, mem, mails, events>>
      /\ cycle' = [cycle EXCEPT ![w] = IdleCycle] /\ cycle[w].at \notin Late
  BY DEF ClaimNothing, tableVars, At, Late
<1>2. OutsideOK' /\ job' \in [Credits -> JobRows] /\ \A c \in Credits : RowKept(c)
  BY <1>1 DEF ResetInv, TypeOK, OutsideOK, outsideVars, RowKept
<1>3. IdleCycle \in CycleStates /\ IdleCycle.at \notin Late /\ IdleCycle.batch = None
  BY IdleTyped DEF IdleCycle, Late
<1> QED
  BY <1>1, <1>2, <1>3, EarlyIsAside
-----------------------------------------------------------------------------
(* The steps of a job.                                                     *)

\* The job that a worker is at belongs to its batch and is not settled.
LEMMA AtWork ==
    ASSUME ResetInv, NEW w \in Workers, NEW c \in Credits,
           step[w][c] \in Running \cup {"todo"}
    PROVE  /\ Mine(w, c) /\ job[c].outcome = None /\ job[c].planned
           /\ job[c].batch # None /\ RowOK(c) /\ SentOK(c) /\ StepOK(w, c)
           /\ step[w][c] \in Running => cycle[w].at = "jobs"
           /\ mem[w][c] \in Copies /\ job[c] \in JobRows
<1>1. RowOK(c) /\ SentOK(c) /\ StepOK(w, c) /\ mem[w][c] \in Copies /\ job[c] \in JobRows
  BY DEF ResetInv, RowInv, SentInv, StepInv, TypeOK
<1>2. Mine(w, c) /\ job[c].outcome = None /\ (step[w][c] \in Running => cycle[w].at = "jobs")
  BY <1>1 DEF StepOK, Running
<1>3. job[c].batch # None
  BY <1>2 DEF Mine, Holding
<1>4. job[c].planned
  BY <1>1, <1>3 DEF RowOK, EmptyRow
<1> QED
  BY <1>1, <1>2, <1>3, <1>4

\* A step that does to its own row and request what it may is a JobMove.
LEMMA StepIsJobMove ==
    ASSUME ResetInv, NEW w \in Workers, NEW c \in Credits, NEW s \in Steps,
           step[w][c] \in Running \cup {"todo"}, cycle[w].at = "jobs",
           step' = [step EXCEPT ![w][c] = s],
           mem' = mem \/ \E o \in RowOutcomes : mem' = [mem EXCEPT ![w][c].outcome = o],
           UNCHANGED <<credit, batch, cycle, mails>>,
           UpstreamOK', OutsideOK', job' \in [Credits -> JobRows],
           \A d \in Credits \ {c} : requests'[d] = requests[d] /\ job'[d] = job[d] /\ call'[d] = call[d],
           job'[c].batch = job[c].batch, job[c].attempted => job'[c].attempted,
           RowOK(c)', StepOK(w, c)', SentOK(c)'
    PROVE  JobMove(w, c)
<1>1. /\ step' \in [Workers -> [Credits -> Steps]]
      /\ \A v \in Workers, d \in Credits : v # w \/ d # c => step'[v][d] = step[v][d]
  BY DEF ResetInv, TypeOK
<1>2. /\ mem' \in [Workers -> [Credits -> Copies]]
      /\ \A v \in Workers, d \in Credits : v # w \/ d # c => mem'[v][d] = mem[v][d]
  <2>1. mem \in [Workers -> [Credits -> Copies]]
    BY DEF ResetInv, TypeOK
  <2>2. CASE mem' = mem
    BY <2>1, <2>2
  <2>3. ASSUME NEW o \in RowOutcomes, mem' = [mem EXCEPT ![w][c].outcome = o]
        PROVE  <1>2
    <3> DEFINE m == [mem[w][c] EXCEPT !.outcome = o]
    <3>1. m \in Copies /\ mem' = [mem EXCEPT ![w] = [mem[w] EXCEPT ![c] = m]]
      BY <2>1, <2>3, CopyClosed
    <3> HIDE DEF m
    <3> QED
      BY <2>1, <3>1
  <2> QED
    BY <2>2, <2>3
<1>3. TypeOK'
  BY <1>1, <1>2 DEF ResetInv, TypeOK
<1>4. RedeemedKept
  BY DEF RedeemedKept, SentOK, ResetInv, SentInv
<1>5. Mine(w, c) /\ job[c].outcome = None
  BY AtWork
<1> QED
  BY <1>1, <1>2, <1>3, <1>4, <1>5 DEF JobMove

\* A step that changes neither the row nor the request of its job.
LEMMA LocalIsJobMove ==
    ASSUME ResetInv, NEW w \in Workers, NEW c \in Credits, NEW s \in Steps,
           step[w][c] \in Running \cup {"todo"}, cycle[w].at = "jobs",
           step' = [step EXCEPT ![w][c] = s],
           mem' = mem \/ \E o \in RowOutcomes : mem' = [mem EXCEPT ![w][c].outcome = o],
           UNCHANGED <<upstreamVars, job, batch, cycle, mails>>,
           OutsideOK', StepOK(w, c)'
    PROVE  JobMove(w, c)
<1>1. UpstreamOK' /\ job' \in [Credits -> JobRows]
  BY DEF ResetInv, TypeOK, UpstreamOK, upstreamVars
<1>2. RowOK(c)' /\ SentOK(c)'
  BY AtWork DEF RowOK, SentOK, EmptyRow, upstreamVars
<1> QED
  BY <1>1, <1>2, StepIsJobMove DEF upstreamVars

\* A job settled without a request has an outcome that says so, and no request.
LEMMA SettledUnsentMoves ==
    ASSUME ResetInv, NEW w \in Workers, NEW c \in Credits, JobSettledUnsent(w, c)
    PROVE  JobMove(w, c)
<1>1. /\ step[w][c] = "todo" /\ cycle[w].at = "jobs"
      /\ UNCHANGED <<upstreamVars, outsideVars, job, batch, cycle, mails, events>>
  BY DEF JobSettledUnsent, MayStart, At, jobFrame, tableVars
<1>2. /\ Mine(w, c) /\ job[c].outcome = None /\ SentOK(c) /\ StepOK(w, c) /\ mem[w][c] \in Copies
      /\ job[c].batch # None
  BY <1>1, AtWork
<1>3. ~mem[w][c].attempted => requests[c] = 0
  BY <1>1, <1>2 DEF StepOK, SentOK, ResetInv, TypeOK, UpstreamOK
<1>4. PICK o \in Outcomes :
         /\ Settle(w, c, o)
         /\ o \in NotSent \ {"disabled"} => ~mem[w][c].attempted
         /\ o = "succeeded" => credit[c] = "redeemed"
  BY DEF JobSettledUnsent, Unverified, Outcomes, NotSent
<1>5. /\ step' = [step EXCEPT ![w][c] = "finish"]
      /\ mem' = [mem EXCEPT ![w][c].outcome = o] /\ o \in RowOutcomes
      /\ step'[w][c] = "finish" /\ mem'[w][c].outcome = o
  BY <1>2, <1>4 DEF Settle, GoTo, RowOutcomes, ResetInv, TypeOK, Copies
<1>6. OutsideOK'
  BY <1>1 DEF outsideVars, OutsideOK, ResetInv, TypeOK
<1>7. StepOK(w, c)'
  BY <1>1, <1>2, <1>3, <1>4, <1>5 DEF StepOK, Mine, Holding, upstreamVars, Running
<1>8. "finish" \in Steps
  BY DEF Steps
<1> QED
  BY <1>1, <1>5, <1>6, <1>7, <1>8, LocalIsJobMove

\* The steps that only move on to another point of runResetJob.
LEMMA GoingOnMoves ==
    ASSUME ResetInv, NEW w \in Workers, NEW c \in Credits,
           \/ JobVerified(w, c) \/ ConsumeUnanswered(w, c) \/ JobStoreFails(w, c)
           \/ GateTimesOut(w, c) \/ ConsumeUnclear(w, c)
    PROVE  JobMove(w, c)
<1>1. step[w][c] \in Running \cup {"todo"}
  BY DEF JobVerified, MayStart, ConsumeUnanswered, JobStoreFails, GateTimesOut, ConsumeUnclear, Running
<1>2. /\ Mine(w, c) /\ job[c].outcome = None /\ SentOK(c) /\ StepOK(w, c)
      /\ step[w][c] \in Running => cycle[w].at = "jobs"
  BY <1>1, AtWork
<1>3. /\ UNCHANGED <<upstreamVars, job, batch, cycle, mails, mem>>
      /\ cycle[w].at = "jobs"
  <2>1. CASE ConsumeUnclear(w, c)
    BY <1>2, <2>1 DEF ConsumeUnclear, ReplyStored, tableVars, Running
  <2>2. CASE JobVerified(w, c) \/ ConsumeUnanswered(w, c) \/ JobStoreFails(w, c) \/ GateTimesOut(w, c)
    BY <1>2, <2>2 DEF JobVerified, MayStart, At, ConsumeUnanswered, JobStoreFails, GateTimesOut,
                      jobFrame, tableVars, Running
  <2> QED
    BY <2>1, <2>2
<1>4. PICK s \in {"attempt", "check", "error"} :
         step' = [step EXCEPT ![w][c] = s] /\ (s = "attempt" => step[w][c] = "todo" /\ ~mem[w][c].attempted)
  BY DEF JobVerified, MayStart, ConsumeUnanswered, JobStoreFails, GateTimesOut, ConsumeUnclear, GoTo
<1>5. step'[w][c] = s /\ s \in Steps
  BY <1>4 DEF ResetInv, TypeOK, Steps
<1>6. OutsideOK'
  <2>1. OutsideOK
    BY DEF ResetInv, TypeOK
  <2>2. CASE ConsumeUnclear(w, c)
    <3>1. UNCHANGED <<disabled, window, console, events>>
      BY <2>2 DEF ConsumeUnclear, ReplyStored
    <3>2. AccountOf[c] \in Accounts /\ Listed(AccountOf[c]) \in SUBSET Credits
      BY ConstantsAssumption DEF Listed
    <3>3. cache' \in [Accounts -> [known : BOOLEAN, fresh : BOOLEAN, avail : SUBSET Credits]]
      <4>1. CASE UNCHANGED cache
        BY <2>1, <4>1 DEF OutsideOK
      <4>2. CASE SetProviderResetCredits(AccountOf[c], Listed(AccountOf[c]))
        BY <2>1, <3>2, <4>2, StoredTyped
      <4> QED
        BY <2>2, <4>1, <4>2 DEF ConsumeUnclear, ReplyStored
    <3> QED
      BY <2>1, <3>1, <3>3 DEF OutsideOK
  <2>3. CASE JobVerified(w, c) \/ ConsumeUnanswered(w, c) \/ JobStoreFails(w, c) \/ GateTimesOut(w, c)
    BY <2>1, <2>3 DEF JobVerified, ConsumeUnanswered, JobStoreFails, GateTimesOut, jobFrame, outsideVars, OutsideOK
  <2> QED
    BY <2>2, <2>3
<1>7. StepOK(w, c)'
  <2>1. step'[w][c] \in {"attempt", "check", "error"} /\ mem' = mem /\ job' = job /\ cycle' = cycle /\ credit' = credit
    BY <1>3, <1>4, <1>5 DEF upstreamVars
  <2> QED
    BY <1>2, <1>3, <1>4, <1>5, <2>1 DEF StepOK, Mine, Holding, Running
<1> QED
  BY <1>1, <1>3, <1>4, <1>5, <1>6, <1>7, LocalIsJobMove

\* The steps that settle a job whose request may have been sent.
LEMMA AnsweredMoves ==
    ASSUME ResetInv, NEW w \in Workers, NEW c \in Credits,
           ConsumeReplied(w, c) \/ JobChecked(w, c)
    PROVE  JobMove(w, c)
<1>1. step[w][c] \in Running \cup {"todo"} /\ step[w][c] \in Running
  BY DEF ConsumeReplied, JobChecked, Running
<1>2. /\ Mine(w, c) /\ job[c].outcome = None /\ SentOK(c) /\ StepOK(w, c) /\ mem[w][c] \in Copies
      /\ cycle[w].at = "jobs"
  BY <1>1, AtWork
<1>3. UNCHANGED <<upstreamVars, job, batch, cycle, mails>>
  BY DEF ConsumeReplied, ReplyStored, JobChecked, tableVars, upstreamVars
<1>4. PICK o \in {"succeeded", "not_applied", "unconfirmed"} :
         Settle(w, c, o) /\ (o = "succeeded" => credit[c] = "redeemed")
  BY <1>2 DEF ConsumeReplied, JobChecked, SentOK
<1>5. /\ step' = [step EXCEPT ![w][c] = "finish"]
      /\ mem' = [mem EXCEPT ![w][c].outcome = o] /\ o \in RowOutcomes /\ o \in Outcomes
      /\ step'[w][c] = "finish" /\ mem'[w][c].outcome = o /\ o \notin NotSent
  BY <1>2, <1>4 DEF Settle, GoTo, RowOutcomes, Outcomes, NotSent, ResetInv, TypeOK, Copies
<1>6. OutsideOK'
  <2>1. OutsideOK
    BY DEF ResetInv, TypeOK
  <2>2. UNCHANGED <<window, console, events>>
    BY DEF ConsumeReplied, ReplyStored, JobChecked
  <2>3. disabled' \subseteq Accounts
    BY <2>1 DEF ConsumeReplied, JobChecked, StatusWritten, OutsideOK
  <2>4. AccountOf[c] \in Accounts /\ Listed(AccountOf[c]) \in SUBSET Credits
    BY ConstantsAssumption DEF Listed
  <2>5. cache' \in [Accounts -> [known : BOOLEAN, fresh : BOOLEAN, avail : SUBSET Credits]]
    <3>1. CASE UNCHANGED cache
      BY <2>1, <3>1 DEF OutsideOK
    <3>2. CASE SetProviderResetCredits(AccountOf[c], Listed(AccountOf[c]))
      BY <2>1, <2>4, <3>2, StoredTyped
    <3> QED
      BY <3>1, <3>2 DEF ConsumeReplied, ReplyStored, JobChecked
  <2> QED
    BY <2>1, <2>2, <2>3, <2>5 DEF OutsideOK
<1>7. StepOK(w, c)'
  BY <1>2, <1>3, <1>4, <1>5 DEF StepOK, Mine, Holding, upstreamVars, Running
<1>8. "finish" \in Steps
  BY DEF Steps
<1> QED
  BY <1>1, <1>2, <1>3, <1>5, <1>6, <1>7, <1>8, LocalIsJobMove

\* An intent is stored before anything is sent, by the holder of the batch.
LEMMA AttemptMoves ==
    ASSUME ResetInv, NEW w \in Workers, NEW c \in Credits, StartResetAttempt(w, c)
    PROVE  JobMove(w, c)
<1>1. step[w][c] = "attempt" /\ step[w][c] \in Running \cup {"todo"} /\ step[w][c] \in Running
  BY DEF StartResetAttempt, Running
<1>2. /\ Mine(w, c) /\ job[c].outcome = None /\ RowOK(c) /\ SentOK(c) /\ StepOK(w, c) /\ job[c] \in JobRows
      /\ cycle[w].at = "jobs" /\ job[c].planned /\ job[c].batch # None
  BY <1>1, AtWork
<1> DEFINE x == [job[c] EXCEPT !.attempted = TRUE]
<1>3. /\ UNCHANGED <<upstreamVars, outsideVars, batch, cycle, mem, mails, events>>
      /\ job' = [job EXCEPT ![c] = x] /\ step' = [step EXCEPT ![w][c] = "send"]
  BY DEF StartResetAttempt, GoTo
<1>4. x \in JobRows
  BY <1>2, RowClosed
<1>5. x.attempted /\ x.outcome = None /\ x.batch = job[c].batch /\ x.planned
  BY <1>2 DEF JobRows
<1> HIDE DEF x
<1>6. UpstreamOK' /\ OutsideOK' /\ job' \in [Credits -> JobRows] /\ job'[c] = x
      /\ \A d \in Credits \ {c} : requests'[d] = requests[d] /\ job'[d] = job[d] /\ call'[d] = call[d]
  BY <1>3, <1>4 DEF ResetInv, TypeOK, UpstreamOK, OutsideOK, upstreamVars, outsideVars
<1>7. RowOK(c)'
  BY <1>2, <1>3, <1>5, <1>6 DEF RowOK
<1>8. requests[c] = 0
  BY <1>1, <1>2 DEF StepOK, SentOK, ResetInv, TypeOK, UpstreamOK
<1>9. SentOK(c)'
  BY <1>2, <1>3, <1>5, <1>6, <1>8, NoneIsNoValue DEF SentOK, upstreamVars
<1>10. step'[w][c] = "send" /\ "send" \in Steps
  BY <1>3 DEF ResetInv, TypeOK, Steps
<1>11. StepOK(w, c)'
  BY <1>2, <1>3, <1>5, <1>6, <1>8, <1>10 DEF StepOK, Mine, Holding, upstreamVars, Running
<1> QED
  BY <1>1, <1>2, <1>3, <1>5, <1>6, <1>7, <1>9, <1>10, <1>11, StepIsJobMove DEF upstreamVars

\* A request follows its intent, and no other request.
LEMMA SendMoves ==
    ASSUME ResetInv, NEW w \in Workers, NEW c \in Credits, SendConsume(w, c)
    PROVE  JobMove(w, c)
<1>1. step[w][c] = "send" /\ step[w][c] \in Running \cup {"todo"} /\ step[w][c] \in Running
  BY DEF SendConsume, Running
<1>2. /\ Mine(w, c) /\ job[c].outcome = None /\ RowOK(c) /\ SentOK(c) /\ StepOK(w, c)
      /\ cycle[w].at = "jobs" /\ job[c].batch # None /\ mem[w][c] \in Copies
  BY <1>1, AtWork
<1>3. /\ UNCHANGED <<credit, outsideVars, job, batch, cycle, mails, events>>
      /\ mem' = [mem EXCEPT ![w][c].outcome = "unconfirmed"] /\ "unconfirmed" \in RowOutcomes
  BY DEF SendConsume, tableVars, RowOutcomes, Outcomes
<1>4. requests[c] = 0 /\ job[c].attempted
  BY <1>1, <1>2 DEF StepOK
<1>5. PICK s \in {"await", "check"} : step' = [step EXCEPT ![w][c] = s]
  BY DEF SendConsume, GoTo
<1>6. /\ UpstreamOK' /\ requests'[c] \in {0, 1}
      /\ call'[c] = call[c] \/ call'[c] = "sent"
      /\ \A d \in Credits \ {c} : requests'[d] = requests[d] /\ call'[d] = call[d]
  <2>1. credit \in [Credits -> CreditStates] /\ call \in [Credits -> CallStates] /\ requests \in [Credits -> Nat]
    BY DEF ResetInv, TypeOK, UpstreamOK
  <2>2. CASE UNCHANGED <<requests, call>>
    BY <1>3, <1>4, <2>1, <2>2 DEF UpstreamOK
  <2>3. CASE requests' = [requests EXCEPT ![c] = requests[c] + 1] /\ call' = [call EXCEPT ![c] = "sent"]
    <3>1. requests' = [requests EXCEPT ![c] = 1] /\ "sent" \in CallStates
      BY <1>4, <2>3 DEF CallStates
    <3> QED
      BY <1>3, <2>1, <2>3, <3>1 DEF UpstreamOK
  <2> QED
    BY <2>2, <2>3 DEF SendConsume
<1>7. OutsideOK' /\ job' \in [Credits -> JobRows]
  BY <1>3 DEF ResetInv, TypeOK, OutsideOK, outsideVars
<1>8. RowOK(c)'
  BY <1>2, <1>3 DEF RowOK, EmptyRow
<1>9. SentOK(c)'
  BY <1>2, <1>3, <1>4, <1>6, NoneIsNoValue DEF SentOK, Outcomes
<1>10. step'[w][c] = s /\ s \in Steps /\ mem'[w][c].outcome = "unconfirmed"
  BY <1>2, <1>3, <1>5 DEF ResetInv, TypeOK, Steps, Copies
<1>11. StepOK(w, c)'
  BY <1>2, <1>3, <1>5, <1>10 DEF StepOK, Mine, Holding, Running
<1> QED
  BY <1>1, <1>2, <1>3, <1>5, <1>6, <1>7, <1>8, <1>9, <1>10, <1>11, StepIsJobMove

\* The outcome in memory is what is stored.
LEMMA FinishMoves ==
    ASSUME ResetInv, NEW w \in Workers, NEW c \in Credits, FinishResetJob(w, c)
    PROVE  JobMove(w, c)
<1>1. step[w][c] = "finish" /\ step[w][c] \in Running \cup {"todo"} /\ step[w][c] \in Running
  BY DEF FinishResetJob, Running
<1>2. /\ Mine(w, c) /\ job[c].outcome = None /\ RowOK(c) /\ SentOK(c) /\ StepOK(w, c) /\ job[c] \in JobRows
      /\ cycle[w].at = "jobs" /\ job[c].planned /\ job[c].batch # None
  BY <1>1, AtWork
<1> DEFINE o == mem[w][c].outcome
           x == [job[c] EXCEPT !.outcome = o]
<1>3. /\ UNCHANGED <<upstreamVars, outsideVars, batch, cycle, mem, mails, events>>
      /\ job' = [job EXCEPT ![c] = x] /\ step' = [step EXCEPT ![w][c] = "done"]
  BY <1>2 DEF FinishResetJob, GoTo
<1>4. /\ o \in Outcomes /\ (o \in NotSent \ {"disabled"} => requests[c] = 0)
      /\ o = "succeeded" => credit[c] = "redeemed"
  BY <1>1, <1>2 DEF StepOK
<1>5. o \in RowOutcomes /\ o # "retired"
  BY <1>4 DEF RowOutcomes, Outcomes, NotSent
<1>6. x \in JobRows
  BY <1>2, <1>5, RowClosed
<1>7. x.attempted = job[c].attempted /\ x.outcome = o /\ x.batch = job[c].batch /\ x.planned
  BY <1>2 DEF JobRows
<1> HIDE DEF x
<1>8. UpstreamOK' /\ OutsideOK' /\ job' \in [Credits -> JobRows] /\ job'[c] = x
      /\ \A d \in Credits \ {c} : requests'[d] = requests[d] /\ job'[d] = job[d] /\ call'[d] = call[d]
  BY <1>3, <1>6 DEF ResetInv, TypeOK, UpstreamOK, OutsideOK, upstreamVars, outsideVars
<1>9. RowOK(c)'
  BY <1>2, <1>3, <1>5, <1>7, <1>8 DEF RowOK
<1>10. SentOK(c)'
  BY <1>2, <1>3, <1>4, <1>5, <1>7, <1>8 DEF SentOK, upstreamVars
<1>11. step'[w][c] = "done" /\ "done" \in Steps
  BY <1>3 DEF ResetInv, TypeOK, Steps
<1>12. StepOK(w, c)'
  BY <1>2, <1>3, <1>4, <1>7, <1>8, <1>11 DEF StepOK, CopyIsRow, Mine, Holding, upstreamVars, Running
<1> QED
  BY <1>1, <1>2, <1>3, <1>7, <1>8, <1>9, <1>10, <1>11, <1>12, StepIsJobMove DEF upstreamVars

\* Every step of a job moves that job alone.
LEMMA JobStepMoves ==
    ASSUME ResetInv, NEW w \in Workers, NEW c \in Credits, JobStep(w, c)
    PROVE  JobMove(w, c)
  BY SettledUnsentMoves, GoingOnMoves, AnsweredMoves, AttemptMoves, SendMoves, FinishMoves DEF JobStep
-----------------------------------------------------------------------------
(* Time, the end of a cycle, and claiming a batch.                         *)

\* Rows stay sound while only batches and workers change.
LEMMA RowsStay ==
    ASSUME ResetInv, UNCHANGED <<upstreamVars, job>>,
           \A b \in Batches : batch[b].made => batch'[b].made
    PROVE  RowInv' /\ SentInv'
<1>1. \A c \in Credits : job[c].batch # None => job[c].batch \in Batches
  BY DEF ResetInv, TypeOK, JobRows
<1>2. RowInv'
  BY <1>1 DEF ResetInv, RowInv, RowOK, EmptyRow
<1> QED
  BY <1>2 DEF ResetInv, SentInv, SentOK, upstreamVars

\* The reports of batches that keep their payload stay true.
LEMMA ReportsStay ==
    ASSUME ResetInv, UNCHANGED job, NEW b \in Batches, batch[b].payload # None,
           batch'[b].payload = batch[b].payload
    PROVE  batch[b].made /\ TrueReport(batch[b].payload, b)'
<1>1. batch[b].made /\ TrueReport(batch[b].payload, b)
  BY DEF ResetInv, ReportInv
<1>2. JobsOf(b)' = JobsOf(b)
  BY DEF JobsOf
<1> QED
  BY <1>1, <1>2 DEF TrueReport

\* Cycles and leases run down together, so that a cycle ends before its lease.
LEMMA TickKeeps == ResetInv /\ Tick => ResetInv'
<1> SUFFICES ASSUME ResetInv, Tick PROVE ResetInv'
  OBVIOUS
<1>1. /\ UNCHANGED <<upstreamVars, outsideVars, job, step, mem, mails, events>>
      /\ \A w \in Workers : Active(w) => cycle[w].left > 0
  BY DEF Tick
<1>2. cycle \in [Workers -> CycleStates] /\ batch \in [Batches -> BatchRows]
  BY DEF ResetInv, TypeOK
<1>3. /\ cycle' \in [Workers -> CycleStates]
      /\ \A w \in Workers : /\ cycle'[w].at = cycle[w].at /\ cycle'[w].batch = cycle[w].batch
                            /\ Active(w) => cycle'[w].left = cycle[w].left - 1
  <2> DEFINE x(w) == [cycle[w] EXCEPT !.left = cycle[w].left - 1]
  <2>1. cycle' = [w \in Workers |-> IF Active(w) THEN x(w) ELSE cycle[w]]
    BY DEF Tick
  <2>2. ASSUME NEW w \in Workers, Active(w)
        PROVE  /\ x(w) \in CycleStates /\ x(w).at = cycle[w].at /\ x(w).batch = cycle[w].batch
               /\ x(w).left = cycle[w].left - 1
    <3>1. cycle[w] \in CycleStates /\ cycle[w].left \in 0..CycleTimeout /\ cycle[w].left > 0
      BY <1>1, <1>2, <2>2 DEF CycleStates
    <3>2. cycle[w].left - 1 \in 0..CycleTimeout
      BY <3>1, ConstantsAssumption
    <3>3. \A n \in 0..CycleTimeout : [cycle[w] EXCEPT !.left = n] \in CycleStates
      BY <3>1 DEF CycleStates
    <3> QED
      BY <3>1, <3>2, <3>3 DEF CycleStates
  <2> HIDE DEF x
  <2> QED
    BY <1>2, <2>1, <2>2
<1>4. /\ batch' \in [Batches -> BatchRows]
      /\ \A b \in Batches : /\ batch'[b].made = batch[b].made /\ batch'[b].attempts = batch[b].attempts
                            /\ batch'[b].payload = batch[b].payload
                            /\ batch[b].lease > 0 => batch'[b].lease = batch[b].lease - 1
  <2> DEFINE y(b) == [batch[b] EXCEPT !.lease = batch[b].lease - 1]
  <2>1. batch' = [b \in Batches |-> IF batch[b].lease > 0 THEN y(b) ELSE batch[b]]
    BY DEF Tick
  <2>2. ASSUME NEW b \in Batches, batch[b].lease > 0
        PROVE  /\ y(b) \in BatchRows /\ y(b).made = batch[b].made /\ y(b).attempts = batch[b].attempts
               /\ y(b).payload = batch[b].payload /\ y(b).lease = batch[b].lease - 1
    <3>1. batch[b] \in BatchRows /\ batch[b].lease \in 0..BatchLease
      BY <1>2 DEF BatchRows
    <3>2. batch[b].lease - 1 \in 0..BatchLease
      BY <2>2, <3>1, ConstantsAssumption
    <3>3. \A n \in 0..BatchLease : [batch[b] EXCEPT !.lease = n] \in BatchRows
      BY <3>1 DEF BatchRows
    <3> QED
      BY <3>1, <3>2, <3>3 DEF BatchRows
  <2> HIDE DEF y
  <2> QED
    BY <1>2, <2>1, <2>2
<1>5. TypeOK'
  BY <1>1, <1>3, <1>4 DEF ResetInv, TypeOK, UpstreamOK, OutsideOK, upstreamVars, outsideVars
<1>6. HoldInv'
  <2>1. ASSUME NEW w \in Workers, Holding(w)
        PROVE  /\ batch'[cycle[w].batch].made
               /\ cycle'[w].left < batch'[cycle[w].batch].lease
    <3>1. /\ cycle[w].at \in Late /\ batch[cycle[w].batch].made
          /\ cycle[w].left < batch[cycle[w].batch].lease
      BY <2>1 DEF ResetInv, HoldInv
    <3>2. cycle[w].batch \in Batches /\ cycle[w].left \in Nat
      BY <1>2, <2>1, ConstantsAssumption DEF CycleStates, Holding
    <3>3. Active(w) /\ batch[cycle[w].batch].lease \in Nat
      BY <1>2, <3>1, <3>2, ConstantsAssumption DEF Active, Late, BatchRows
    <3> QED
      BY <1>3, <1>4, <3>1, <3>2, <3>3
  <2>2. \A w \in Workers : Holding(w)' = Holding(w)
    BY <1>3 DEF Holding
  <2>3. BatchHeldOnce'
    BY <1>3 DEF ResetInv, HoldInv, BatchHeldOnce
  <2>4. \A b \in Batches : batch'[b].made => batch'[b].attempts > 0
    BY <1>4 DEF ResetInv, HoldInv
  <2> QED
    BY <1>3, <2>1, <2>2, <2>3, <2>4 DEF ResetInv, HoldInv
<1>7. RowInv' /\ SentInv'
  BY <1>1, <1>4, RowsStay
<1>8. StepInv'
  BY <1>1, <1>3 DEF ResetInv, StepInv, StepOK, Mine, Holding, CopyIsRow, upstreamVars
<1>9. ReportInv'
  <2>1. \A w \in Workers : cycle[w].at \in Late => cycle[w].batch \in Batches
    BY <1>2 DEF ResetInv, HoldInv, Holding, CycleStates
  <2>2. \A w \in Workers :
          /\ cycle'[w].at = "jobs" => batch'[cycle'[w].batch].payload = None
          /\ cycle'[w].at \in {"mail", "record"} => batch'[cycle'[w].batch].payload # None
    BY <1>3, <1>4, <2>1 DEF ResetInv, ReportInv, Late
  <2>3. \A b \in Batches :
          batch'[b].payload # None => batch'[b].made /\ TrueReport(batch[b].payload, b)'
    BY <1>1, <1>4, ReportsStay
  <2>4. \A m \in mails' : m.batch \in Batches /\ m.body # None /\ m.body = batch'[m.batch].payload
    BY <1>1, <1>4 DEF ResetInv, ReportInv
  <2> QED
    BY <2>2, <2>3, <2>4 DEF ReportInv
<1> QED
  BY <1>5, <1>6, <1>7, <1>8, <1>9 DEF ResetInv

\* What the steps from the jobs of a batch to its record have in common.
LEMMA ReportStepKeeps ==
    ASSUME ResetInv, NEW w \in Workers, NEW at \in {"mail", "record", "retry"},
           NEW b \in Batches, b = cycle[w].batch, cycle[w].at \in Late,
           cycle' = [cycle EXCEPT ![w] = [cycle[w] EXCEPT !.at = at]],
           NEW x \in BatchRows, batch' = [batch EXCEPT ![b] = x],
           UNCHANGED <<upstreamVars, outsideVars, job, step, mem, events>>,
           \A c \in Credits : step[w][c] \notin Running,
           x.made = batch[b].made, x.lease = batch[b].lease, x.attempts = batch[b].attempts,
           batch[b].payload # None => x.payload = batch[b].payload,
           at \in {"mail", "record"} => x.payload # None,
           x.payload # None => TrueReport(x.payload, b),
           \A m \in mails' : m \in mails \/ (m.batch = b /\ m.body # None /\ m.body = x.payload)
    PROVE  ResetInv'
<1>1. /\ cycle \in [Workers -> CycleStates] /\ cycle[w] \in CycleStates /\ batch \in [Batches -> BatchRows]
      /\ b # None /\ Holding(w) /\ batch[b].made
  BY NoneIsNoValue DEF ResetInv, TypeOK, Holding, HoldInv
<1>2. /\ cycle' \in [Workers -> CycleStates]
      /\ cycle'[w].at = at /\ cycle'[w].left = cycle[w].left /\ cycle'[w].batch = b
      /\ \A v \in Workers \ {w} : cycle'[v] = cycle[v]
  <2> DEFINE y == [cycle[w] EXCEPT !.at = at]
  <2>1. at \in Cycles
    BY DEF Cycles
  <2>2. y \in CycleStates
    BY <1>1, <2>1, CycleClosed
  <2>3. y.at = at /\ y.left = cycle[w].left /\ y.batch = b
    BY <1>1 DEF CycleStates
  <2>4. cycle' = [cycle EXCEPT ![w] = y]
    OBVIOUS
  <2> HIDE DEF y
  <2> QED
    BY <1>1, <2>2, <2>3, <2>4
<1>3. /\ batch' \in [Batches -> BatchRows] /\ batch'[b] = x
      /\ \A o \in Batches \ {b} : batch'[o] = batch[o]
  BY <1>1
<1>4. TypeOK'
  BY <1>2, <1>3 DEF ResetInv, TypeOK, UpstreamOK, OutsideOK, upstreamVars, outsideVars
<1>5. \A v \in Workers : cycle'[v].batch = cycle[v].batch /\ Holding(v)' = Holding(v)
                         /\ (Holding(v) => cycle[v].batch \in Batches)
  BY <1>1, <1>2 DEF Holding, CycleStates
<1>6. HoldInv'
  <2>1. \A o \in Batches : /\ batch'[o].made = batch[o].made /\ batch'[o].lease = batch[o].lease
                           /\ batch'[o].attempts = batch[o].attempts
    BY <1>3
  <2>2. \A v \in Workers : cycle'[v].left = cycle[v].left /\ (cycle'[v].at \in Late <=> cycle[v].at \in Late)
    BY <1>2 DEF Late
  <2>3. BatchHeldOnce'
    BY <1>5 DEF ResetInv, HoldInv, BatchHeldOnce
  <2> QED
    BY <1>5, <2>1, <2>2, <2>3 DEF ResetInv, HoldInv
<1>7. RowInv' /\ SentInv'
  BY <1>3, RowsStay
<1>8. StepInv'
  <2> SUFFICES ASSUME NEW v \in Workers, NEW c \in Credits PROVE StepOK(v, c)'
    BY DEF StepInv
  <2>1. StepOK(v, c) /\ Mine(v, c)' = Mine(v, c)
    BY <1>5 DEF ResetInv, StepInv, Mine, Holding
  <2>2. CASE v = w
    BY <1>2, <2>1, <2>2 DEF StepOK, CopyIsRow, upstreamVars, Running
  <2>3. CASE v # w
    BY <1>2, <2>1, <2>3 DEF StepOK, CopyIsRow, upstreamVars
  <2> QED
    BY <2>2, <2>3
<1>9. ReportInv'
  <2>1. \A v \in Workers \ {w} : cycle[v].at \in Late => cycle[v].batch \in Batches \ {b}
    BY <1>1, <1>5 DEF ResetInv, HoldInv, BatchHeldOnce
  <2>2. \A v \in Workers :
          /\ cycle'[v].at = "jobs" => batch'[cycle'[v].batch].payload = None
          /\ cycle'[v].at \in {"mail", "record"} => batch'[cycle'[v].batch].payload # None
    BY <1>2, <1>3, <2>1 DEF ResetInv, ReportInv, Late
  <2>3. \A o \in Batches \ {b} :
          batch'[o].payload # None => batch'[o].made /\ TrueReport(batch[o].payload, o)'
    BY <1>3, ReportsStay
  <2>4. x.payload # None => x.made /\ TrueReport(x.payload, b)'
    BY <1>1 DEF TrueReport, JobsOf
  <2>5. \A o \in Batches : batch[o].payload # None => batch'[o].payload = batch[o].payload
    BY <1>3
  <2>6. \A m \in mails' : m.batch \in Batches /\ m.body # None /\ m.body = batch'[m.batch].payload
    BY <1>3, <2>5 DEF ResetInv, ReportInv
  <2> QED
    BY <1>3, <2>2, <2>3, <2>4, <2>6 DEF ReportInv
<1> QED
  BY <1>4, <1>6, <1>7, <1>8, <1>9 DEF ResetInv

\* Every goroutine of a batch that is not failing has settled its job.
LEMMA ReturnedIsTrue ==
    ASSUME ResetInv, NEW w \in Workers, cycle[w].at = "jobs", JobsReturned(w),
           \A c \in Credits : step[w][c] # "error"
    PROVE  /\ \A c \in JobsOf(cycle[w].batch) :
                 mem[w][c].outcome = job[c].outcome /\ job[c].outcome \in Outcomes
           /\ Rendered(w) \in Bodies
           /\ TrueReport(Rendered(w), cycle[w].batch)
<1>1. Holding(w) /\ cycle[w].batch \in Batches /\ batch[cycle[w].batch].made
  BY DEF ResetInv, HoldInv, Late, TypeOK, CycleStates, Holding
<1>2. \A c \in JobsOf(cycle[w].batch) :
          mem[w][c].outcome = job[c].outcome /\ job[c].outcome \in Outcomes
  <2> SUFFICES ASSUME NEW c \in JobsOf(cycle[w].batch) PROVE CopyIsRow(w, c)
    BY DEF CopyIsRow
  <2>1. c \in Credits /\ Mine(w, c)
    BY <1>1 DEF JobsOf, Mine
  <2>2. step[w][c] \in {"none", "done"}
    BY <2>1 DEF JobsReturned, ResetInv, TypeOK, Steps, Running
  <2> QED
    BY <2>1, <2>2 DEF ResetInv, StepInv, StepOK
<1>3. batch[cycle[w].batch].attempts \in 1..MaxClaims
  BY <1>1, ConstantsAssumption DEF ResetInv, HoldInv, TypeOK, BatchRows
<1>4. {<<c, mem[w][c].outcome>> : c \in JobsOf(cycle[w].batch)} =
          {<<c, job[c].outcome>> : c \in JobsOf(cycle[w].batch)}
  BY <1>2
<1>5. {<<c, mem[w][c].outcome>> : c \in JobsOf(cycle[w].batch)} \in SUBSET (Credits \X Outcomes)
  BY <1>2 DEF JobsOf
<1>6. Rendered(w) \in Bodies
  BY <1>3, <1>5 DEF Rendered, Bodies
<1>7. TrueReport(Rendered(w), cycle[w].batch)
  BY <1>2, <1>4 DEF Rendered, TrueReport
<1> QED
  BY <1>2, <1>6, <1>7

\* Reports are frozen and sent by the holder of the batch.
LEMMA ReportStepsKeep ==
    ASSUME ResetInv, NEW w \in Workers,
           \/ JobsFailed(w) \/ FreezeResetReport(w) \/ SendMessage(w)
           \/ FinishResetReport(w) \/ ReportFails(w)
    PROVE  ResetInv'
<1> DEFINE b == cycle[w].batch
<1>1. /\ cycle[w].at \in Late \ {"retry"}
      /\ UNCHANGED <<upstreamVars, outsideVars, job, step, mem, events>>
      /\ cycle[w].at = "jobs" => JobsReturned(w)
  BY DEF JobsFailed, FreezeResetReport, SendMessage, FinishResetReport, ReportFails, At, Late, tableVars
<1>2. /\ cycle[w] \in CycleStates /\ Holding(w) /\ b \in Batches /\ batch[b] \in BatchRows
      /\ batch \in [Batches -> BatchRows] /\ batch[b].made
  BY <1>1 DEF ResetInv, TypeOK, HoldInv, Holding, CycleStates
<1>3. \A c \in Credits : step[w][c] \notin Running
  BY <1>1 DEF JobsReturned, ResetInv, StepInv, StepOK
<1>4. batch[b].payload # None => TrueReport(batch[b].payload, b)
  BY <1>2 DEF ResetInv, ReportInv
<1>5. batch' = batch => batch' = [batch EXCEPT ![b] = batch[b]]
  BY <1>2
<1>6. CASE JobsFailed(w) \/ ReportFails(w)
  <2>1. /\ cycle' = [cycle EXCEPT ![w] = [cycle[w] EXCEPT !.at = "retry"]]
        /\ batch' = [batch EXCEPT ![b] = batch[b]] /\ mails' = mails
    BY <1>5, <1>6 DEF JobsFailed, ReportFails, tableVars
  <2> HIDE DEF b
  <2> QED
    BY <1>1, <1>2, <1>3, <1>4, <2>1, ReportStepKeeps DEF b
<1>7. CASE SendMessage(w)
  <2>1. batch' = [batch EXCEPT ![b] = batch[b]] /\ cycle[w].at = "mail"
    BY <1>5, <1>7 DEF SendMessage, tableVars, At
  <2>2. PICK at \in {"record", "retry"} : cycle' = [cycle EXCEPT ![w] = [cycle[w] EXCEPT !.at = at]]
    BY <1>7 DEF SendMessage
  <2>3. batch[b].payload # None
    BY <2>1 DEF ResetInv, ReportInv
  <2>4. \A m \in mails' : m \in mails \/ (m.batch = b /\ m.body # None /\ m.body = batch[b].payload)
    BY <1>7, <2>3 DEF SendMessage
  <2>5. at \in {"mail", "record", "retry"}
    OBVIOUS
  <2>6. PICK x \in BatchRows : x = batch[b]
    BY <1>2
  <2>7. /\ \A m \in mails' : m \in mails \/ (m.batch = b /\ m.body # None /\ m.body = x.payload)
        /\ x.payload # None /\ TrueReport(x.payload, b)
        /\ batch' = [batch EXCEPT ![b] = x]
        /\ x.made = batch[b].made /\ x.lease = batch[b].lease /\ x.attempts = batch[b].attempts
        /\ batch[b].payload # None => x.payload = batch[b].payload
    BY <1>4, <2>1, <2>3, <2>4, <2>6
  <2>8. b = cycle[w].batch
    OBVIOUS
  <2> HIDE DEF b
  <2> QED
    BY <1>1, <1>2, <1>3, <2>2, <2>5, <2>7, <2>8, ReportStepKeeps
<1>8. CASE FinishResetReport(w)
  <2> DEFINE x == [batch[b] EXCEPT !.mailed = TRUE]
  <2>1. /\ cycle' = [cycle EXCEPT ![w] = [cycle[w] EXCEPT !.at = "retry"]]
        /\ batch' = [batch EXCEPT ![b] = x] /\ mails' = mails
    BY <1>8 DEF FinishResetReport
  <2>2. x \in BatchRows
    BY <1>2 DEF BatchRows
  <2>3. /\ x.made = batch[b].made /\ x.lease = batch[b].lease /\ x.attempts = batch[b].attempts
        /\ x.payload = batch[b].payload
    BY <1>2 DEF BatchRows
  <2> HIDE DEF b, x
  <2> QED
    BY <1>1, <1>2, <1>3, <1>4, <2>1, <2>2, <2>3, ReportStepKeeps DEF b
<1>9. CASE FreezeResetReport(w)
  <2> DEFINE x == [batch[b] EXCEPT !.payload = Rendered(w)]
  <2>1. /\ cycle[w].at = "jobs" /\ JobsReturned(w) /\ \A c \in Credits : step[w][c] # "error"
        /\ cycle' = [cycle EXCEPT ![w] = [cycle[w] EXCEPT !.at = "mail"]] /\ mails' = mails
    BY <1>9 DEF FreezeResetReport, At
  <2>2. batch[b].payload = None
    BY <2>1 DEF ResetInv, ReportInv
  <2>3. Rendered(w) \in Bodies /\ TrueReport(Rendered(w), b)
    BY <2>1, ReturnedIsTrue
  <2>4. batch' = [batch EXCEPT ![b] = x]
    BY <1>2, <1>9, <2>2 DEF FreezeResetReport
  <2>5. x \in BatchRows
    BY <1>2, <2>3 DEF BatchRows
  <2>6. /\ x.made = batch[b].made /\ x.lease = batch[b].lease /\ x.attempts = batch[b].attempts
        /\ x.payload = Rendered(w)
    BY <1>2 DEF BatchRows
  <2>7. Rendered(w) # None
    BY <2>3, NoneIsNoValue
  <2> HIDE DEF b, x
  <2> QED
    BY <1>1, <1>2, <1>3, <2>1, <2>2, <2>3, <2>4, <2>5, <2>6, <2>7, ReportStepKeeps DEF b
<1> QED
  BY <1>6, <1>7, <1>8, <1>9

\* The worker stops, by itself or not: nothing is left of its cycle.
LEMMA StopKeeps ==
    ASSUME ResetInv, NEW w \in Workers, RetryResetBatch(w) \/ Crash(w)
    PROVE  ResetInv'
<1>1. /\ UNCHANGED <<upstreamVars, outsideVars, job, mails>> /\ events' \in 0..MaxEvents
      /\ cycle' = [cycle EXCEPT ![w] = IdleCycle]
      /\ step' = [step EXCEPT ![w] = [c \in Credits |-> "none"]]
      /\ mem' = [mem EXCEPT ![w] = [c \in Credits |-> NoMem]]
  <2>1. OutsideOK
    BY DEF ResetInv, TypeOK
  <2> QED
    BY <2>1, CountTyped DEF RetryResetBatch, Crash, tableVars, OutsideOK
<1>2. /\ cycle \in [Workers -> CycleStates] /\ batch \in [Batches -> BatchRows]
      /\ step \in [Workers -> [Credits -> Steps]] /\ mem \in [Workers -> [Credits -> Copies]]
  BY DEF ResetInv, TypeOK
<1>3. batch' = batch \/ (/\ Holding(w) /\ cycle[w].batch \in Batches
                        /\ batch' = [batch EXCEPT ![cycle[w].batch] =
                              [batch[cycle[w].batch] EXCEPT !.lease = RetryLease]])
  <2>1. CASE RetryResetBatch(w)
    <3>1. Holding(w) /\ cycle[w].batch \in Batches
      BY <1>2, <2>1 DEF RetryResetBatch, At, ResetInv, HoldInv, Late, Holding, CycleStates
    <3> QED
      BY <2>1, <3>1 DEF RetryResetBatch
  <2>2. CASE Crash(w)
    BY <2>2 DEF Crash, tableVars
  <2> QED
    BY <2>1, <2>2
<1>4. /\ batch' \in [Batches -> BatchRows]
      /\ \A b \in Batches :
            /\ batch'[b].made = batch[b].made /\ batch'[b].attempts = batch[b].attempts
            /\ batch'[b].payload = batch[b].payload
            /\ batch'[b].lease = batch[b].lease \/ (Holding(w) /\ b = cycle[w].batch)
  <2>1. CASE batch' = batch
    BY <1>2, <2>1
  <2>2. ASSUME NEW b \in Batches, Holding(w), b = cycle[w].batch,
               batch' = [batch EXCEPT ![b] = [batch[b] EXCEPT !.lease = RetryLease]]
        PROVE  <1>4
    <3> DEFINE x == [batch[b] EXCEPT !.lease = RetryLease]
    <3>1. batch[b] \in BatchRows /\ RetryLease \in 0..BatchLease
      BY <1>2, ConstantsAssumption
    <3>2. x \in BatchRows
      BY <3>1 DEF BatchRows
    <3>3. x.made = batch[b].made /\ x.attempts = batch[b].attempts /\ x.payload = batch[b].payload
      BY <3>1 DEF BatchRows
    <3>4. batch' = [batch EXCEPT ![b] = x]
      BY <2>2
    <3> HIDE DEF x
    <3> QED
      BY <1>2, <2>2, <3>2, <3>3, <3>4
  <2> QED
    BY <1>3, <2>1, <2>2
<1>5. /\ cycle'[w] = IdleCycle /\ \A v \in Workers \ {w} : cycle'[v] = cycle[v]
      /\ cycle' \in [Workers -> CycleStates]
      /\ ~Holding(w)' /\ cycle'[w].at \notin Late
  BY <1>1, <1>2, IdleTyped DEF IdleCycle, Holding, Late
<1>6. /\ \A c \in Credits : step'[w][c] = "none" /\ mem'[w][c] = NoMem
      /\ \A v \in Workers \ {w} : step'[v] = step[v] /\ mem'[v] = mem[v]
      /\ step' \in [Workers -> [Credits -> Steps]] /\ mem' \in [Workers -> [Credits -> Copies]]
  BY <1>1, <1>2, EmptyTyped DEF Steps
<1>7. TypeOK'
  BY <1>1, <1>4, <1>5, <1>6 DEF ResetInv, TypeOK, UpstreamOK, OutsideOK, upstreamVars, outsideVars
<1>8. \A v \in Workers \ {w} :
          Holding(v) => /\ cycle[v].batch \in Batches
                        /\ batch'[cycle[v].batch].lease = batch[cycle[v].batch].lease
  BY <1>2, <1>4 DEF Holding, CycleStates, ResetInv, HoldInv, BatchHeldOnce
<1>9. HoldInv'
  <2>1. BatchHeldOnce'
    BY <1>5 DEF ResetInv, HoldInv, BatchHeldOnce, Holding
  <2>2. \A b \in Batches : batch'[b].made => batch'[b].attempts > 0
    BY <1>4 DEF ResetInv, HoldInv
  <2>3. \A v \in Workers :
          /\ Holding(v)' <=> cycle'[v].at \in Late
          /\ Holding(v)' => /\ batch'[cycle'[v].batch].made
                            /\ cycle'[v].left < batch'[cycle'[v].batch].lease
    BY <1>4, <1>5, <1>8 DEF ResetInv, HoldInv, Holding
  <2> QED
    BY <2>1, <2>2, <2>3 DEF HoldInv
<1>10. RowInv' /\ SentInv'
  BY <1>1, <1>4, RowsStay
<1>11. StepInv'
  <2> SUFFICES ASSUME NEW v \in Workers, NEW c \in Credits PROVE StepOK(v, c)'
    BY DEF StepInv
  <2>1. CASE v = w
    BY <1>5, <1>6, <2>1, NoneIsNoValue DEF StepOK, Mine, Running, NoMem, Outcomes
  <2>2. CASE v # w
    BY <1>1, <1>5, <1>6, <2>2 DEF ResetInv, StepInv, StepOK, Mine, Holding, CopyIsRow, upstreamVars
  <2> QED
    BY <2>1, <2>2
<1>12. ReportInv'
  <2>1. \A v \in Workers \ {w} : cycle[v].at \in Late => cycle[v].batch \in Batches
    BY <1>2 DEF ResetInv, HoldInv, Holding, CycleStates
  <2>2. \A v \in Workers :
          /\ cycle'[v].at = "jobs" => batch'[cycle'[v].batch].payload = None
          /\ cycle'[v].at \in {"mail", "record"} => batch'[cycle'[v].batch].payload # None
    BY <1>4, <1>5, <2>1 DEF ResetInv, ReportInv, Late
  <2>3. \A b \in Batches :
          batch'[b].payload # None => batch'[b].made /\ TrueReport(batch[b].payload, b)'
    BY <1>1, <1>4, ReportsStay
  <2>4. \A m \in mails' : m.batch \in Batches /\ m.body # None /\ m.body = batch'[m.batch].payload
    BY <1>1, <1>4 DEF ResetInv, ReportInv
  <2> QED
    BY <2>2, <2>3, <2>4 DEF ReportInv
<1> QED
  BY <1>7, <1>9, <1>10, <1>11, <1>12 DEF ResetInv

\* A row that is taken into a batch has no outcome yet.
Taken(c, b) ==
    /\ job[c].planned /\ job[c].batch = None /\ job[c].outcome = None
    /\ job'[c].batch = b /\ job'[c].planned
    /\ job'[c].attempted = job[c].attempted /\ job'[c].outcome = job[c].outcome

\* What claiming an old batch and making a new one have in common.
LEMMA ClaimKeeps ==
    ASSUME ResetInv, NEW w \in Workers, NEW b \in Batches, cycle[w].at = "claim",
           \A v \in Workers : cycle[v].batch # b,
           UNCHANGED <<upstreamVars, outsideVars, mails, events>>,
           job' \in [Credits -> JobRows],
           NEW x \in BatchRows, batch' = [batch EXCEPT ![b] = x],
           x.made, x.lease = BatchLease, x.attempts > 0,
           batch[b].made => x.payload = batch[b].payload /\ job' = job,
           ~batch[b].made => x.payload = None,
           \A c \in Credits : job'[c] = job[c] \/ Taken(c, b),
           TakeBatch(w, b)
    PROVE  ResetInv'
<1>1. /\ cycle \in [Workers -> CycleStates] /\ cycle[w] \in CycleStates /\ batch \in [Batches -> BatchRows]
      /\ step \in [Workers -> [Credits -> Steps]] /\ mem \in [Workers -> [Credits -> Copies]]
      /\ b # None /\ ~Holding(w) /\ job \in [Credits -> JobRows]
  BY NoneIsNoValue DEF ResetInv, TypeOK, HoldInv, Late
<1>2. /\ batch' \in [Batches -> BatchRows] /\ batch'[b] = x
      /\ \A o \in Batches \ {b} : batch'[o] = batch[o]
  BY <1>1
<1>3. /\ cycle' \in [Workers -> CycleStates]
      /\ cycle'[w].batch = b /\ cycle'[w].left = cycle[w].left
      /\ cycle'[w].at = IF x.payload = None THEN "jobs" ELSE "mail"
      /\ \A v \in Workers \ {w} : cycle'[v] = cycle[v]
  <2> DEFINE at == IF batch'[b].payload = None THEN "jobs" ELSE "mail"
             y == [cycle[w] EXCEPT !.batch = b, !.at = at]
  <2>1. cycle' = [cycle EXCEPT ![w] = y]
    BY DEF TakeBatch
  <2>2. at \in Cycles
    BY DEF Cycles
  <2>3. y \in CycleStates
    BY <1>1, <2>2, CycleClosed
  <2>4. y.batch = b /\ y.left = cycle[w].left /\ y.at = at
    BY <1>1 DEF CycleStates
  <2> HIDE DEF y
  <2> QED
    BY <1>1, <1>2, <2>1, <2>3, <2>4
<1>4. /\ mem' \in [Workers -> [Credits -> Copies]]
      /\ \A c \in Credits :
            mem'[w][c] = IF job'[c].batch = b
                         THEN [attempted |-> job'[c].attempted, outcome |-> job'[c].outcome]
                         ELSE NoMem
      /\ \A v \in Workers \ {w} : mem'[v] = mem[v]
  <2>1. \A c \in Credits : [attempted |-> job'[c].attempted, outcome |-> job'[c].outcome] \in Copies
    BY DEF JobRows, Copies
  <2> QED
    BY <1>1, <2>1, EmptyTyped DEF TakeBatch
<1>5. /\ step' \in [Workers -> [Credits -> Steps]]
      /\ \A c \in Credits :
            step'[w][c] = IF job'[c].batch = b /\ job'[c].outcome = None /\ x.payload = None
                          THEN "todo" ELSE "none"
      /\ \A v \in Workers \ {w} : step'[v] = step[v]
  BY <1>1, <1>2 DEF TakeBatch, Steps
<1>6. TypeOK'
  BY <1>2, <1>3, <1>4, <1>5 DEF ResetInv, TypeOK, UpstreamOK, OutsideOK, upstreamVars, outsideVars
<1>7. HoldInv'
  <2>1. \A v \in Workers \ {w} : Holding(v) => cycle[v].batch \in Batches \ {b}
    BY <1>1 DEF Holding, CycleStates
  <2>2. Holding(w)' /\ cycle'[w].at \in Late
    BY <1>1, <1>3 DEF Holding, Late
  <2>3. cycle'[w].left < batch'[b].lease
    BY <1>1, <1>2, <1>3, LeaseOutlivesCycle, ConstantsAssumption DEF CycleStates
  <2>4. BatchHeldOnce'
    BY <1>1, <1>3, <2>1 DEF ResetInv, HoldInv, BatchHeldOnce, Holding
  <2>5. \A o \in Batches : batch'[o].made => batch'[o].attempts > 0
    BY <1>2 DEF ResetInv, HoldInv
  <2>6. \A v \in Workers \ {w} :
          /\ Holding(v)' <=> cycle'[v].at \in Late
          /\ Holding(v)' => /\ batch'[cycle'[v].batch].made
                            /\ cycle'[v].left < batch'[cycle'[v].batch].lease
    BY <1>2, <1>3, <2>1 DEF ResetInv, HoldInv, Holding
  <2> QED
    BY <1>2, <1>3, <2>2, <2>3, <2>4, <2>5, <2>6 DEF HoldInv
<1>8. \A c \in Credits : RowOK(c) /\ RowOK(c)'
  <2> SUFFICES ASSUME NEW c \in Credits PROVE RowOK(c) /\ RowOK(c)'
    OBVIOUS
  <2>1. RowOK(c) /\ (job[c].batch # None => job[c].batch \in Batches)
    BY <1>1 DEF ResetInv, RowInv, JobRows
  <2>2. \A o \in Batches : batch[o].made => batch'[o].made
    BY <1>2
  <2>3. CASE job'[c] = job[c]
    BY <2>1, <2>2, <2>3 DEF RowOK, EmptyRow
  <2>4. CASE Taken(c, b)
    BY <1>1, <1>2, <2>1, <2>4, NoneIsNoValue DEF RowOK, Taken
  <2> QED
    BY <2>1, <2>3, <2>4
<1>9. \A c \in Credits : SentOK(c) /\ SentOK(c)'
  BY DEF ResetInv, SentInv, SentOK, Taken, upstreamVars
<1>10. StepInv'
  <2> SUFFICES ASSUME NEW v \in Workers, NEW c \in Credits PROVE StepOK(v, c)'
    BY DEF StepInv
  <2>1. StepOK(v, c) /\ UNCHANGED <<credit, requests>>
    BY DEF ResetInv, StepInv, upstreamVars
  <2>2. CASE v # w
    <3>1. CASE job'[c] = job[c]
      BY <1>3, <1>4, <1>5, <2>1, <2>2, <3>1 DEF StepOK, Mine, Holding, CopyIsRow
    <3>2. CASE Taken(c, b)
      <4>1. ~Mine(v, c) /\ ~Mine(v, c)'
        BY <1>1, <1>3, <2>2, <3>2 DEF Mine, Holding, Taken
      <4>2. step[v][c] = "none"
        BY <2>1, <4>1 DEF StepOK
      <4> QED
        BY <1>4, <1>5, <2>1, <2>2, <4>1, <4>2 DEF StepOK, Running
    <3> QED
      BY <3>1, <3>2
  <2>3. CASE v = w
    <3>1. Mine(w, c)' <=> job'[c].batch = b
      BY <1>1, <1>3 DEF Mine, Holding
    <3>2. CASE job'[c].batch = b
      <4>1. /\ mem'[w][c].attempted = job'[c].attempted
            /\ mem'[w][c].outcome = job'[c].outcome
        <5>1. mem'[w][c] = [attempted |-> job'[c].attempted, outcome |-> job'[c].outcome]
          BY <1>4, <3>2
        <5> QED
          BY <5>1
      <4>2. job'[c].outcome = None \/ job'[c].outcome \in Outcomes
        BY <1>1, <1>8, <3>2 DEF RowOK, JobRows, RowOutcomes
      <4>3. job'[c].outcome = "succeeded" => credit'[c] = "redeemed"
        BY <1>9 DEF SentOK
      <4>4. /\ step'[w][c] = "todo" => job'[c].outcome = None
            /\ step'[w][c] \in {"todo", "none"}
            /\ step'[w][c] = "none" /\ cycle'[w].at = "jobs" => job'[c].outcome \in Outcomes
        BY <1>3, <1>5, <3>2, <4>2
      <4> QED
        BY <2>3, <3>1, <3>2, <4>1, <4>3, <4>4 DEF StepOK, CopyIsRow, Running
    <3>3. CASE job'[c].batch # b
      <4>1. step'[w][c] = "none" /\ mem'[w][c] = NoMem
        BY <1>4, <1>5, <3>3
      <4> QED
        BY <2>3, <3>1, <3>3, <4>1, NoneIsNoValue DEF StepOK, NoMem, Running, Outcomes
    <3> QED
      BY <3>2, <3>3
  <2> QED
    BY <2>2, <2>3
<1>11. ReportInv'
  <2>1. \A v \in Workers \ {w} : cycle[v].at \in Late => cycle[v].batch \in Batches \ {b}
    BY <1>1 DEF ResetInv, HoldInv, Holding, CycleStates
  <2>2. \A v \in Workers \ {w} :
          /\ cycle'[v].at = "jobs" => batch'[cycle'[v].batch].payload = None
          /\ cycle'[v].at \in {"mail", "record"} => batch'[cycle'[v].batch].payload # None
    BY <1>2, <1>3, <2>1 DEF ResetInv, ReportInv, Late
  <2>3. /\ cycle'[w].at = "jobs" => batch'[cycle'[w].batch].payload = None
        /\ cycle'[w].at \in {"mail", "record"} => batch'[cycle'[w].batch].payload # None
    BY <1>2, <1>3
  <2>4. ASSUME NEW o \in Batches, batch'[o].payload # None
        PROVE  batch'[o].payload = batch[o].payload /\ batch'[o].made /\ TrueReport(batch[o].payload, o)'
    <3>1. CASE o = b
      <4>1. batch[b].made /\ job' = job /\ x.payload = batch[b].payload
        BY <1>2, <2>4, <3>1
      <4> QED
        BY <1>2, <2>4, <3>1, <4>1, ReportsStay
    <3>2. CASE o # b
      <4>1. batch'[o] = batch[o] /\ batch[o].made /\ TrueReport(batch[o].payload, o)
        BY <1>2, <2>4, <3>2 DEF ResetInv, ReportInv
      <4>2. \A c \in Credits : job[c].batch = o \/ job'[c].batch = o => job'[c] = job[c]
        BY <1>1, <3>2, NoneIsNoValue DEF Taken
      <4>3. JobsOf(o)' = JobsOf(o) /\ \A c \in JobsOf(o) : job'[c] = job[c]
        BY <4>2 DEF JobsOf
      <4>4. {<<c, job'[c].outcome>> : c \in JobsOf(o)} = {<<c, job[c].outcome>> : c \in JobsOf(o)}
        BY <4>3
      <4> QED
        BY <4>1, <4>3, <4>4 DEF TrueReport
    <3> QED
      BY <3>1, <3>2
  <2>5. \A m \in mails' : m.batch \in Batches /\ m.body # None /\ m.body = batch'[m.batch].payload
    <3> SUFFICES ASSUME NEW m \in mails PROVE m.batch \in Batches /\ m.body # None /\ m.body = batch'[m.batch].payload
      OBVIOUS
    <3>1. /\ m.batch \in Batches /\ m.body # None /\ m.body = batch[m.batch].payload
          /\ batch[m.batch].made
      BY DEF ResetInv, ReportInv
    <3> QED
      BY <1>2, <3>1
  <2> QED
    BY <2>2, <2>3, <2>4, <2>5 DEF ReportInv
<1> QED
  BY <1>6, <1>7, <1>8, <1>9, <1>10, <1>11 DEF ResetInv, RowInv, SentInv

\* No one is at a batch whose lease has run out, nor at one not made.
LEMMA ReclaimKeeps ==
    ASSUME ResetInv, NEW w \in Workers, NEW b \in Batches, ReclaimBatch(w, b)
    PROVE  ResetInv'
<1>1. /\ cycle[w].at = "claim" /\ TakeBatch(w, b) /\ job' = job
      /\ UNCHANGED <<upstreamVars, outsideVars, mails, events>>
      /\ batch[b].made /\ batch[b].lease = 0 /\ batch[b].attempts < MaxClaims
  BY DEF ReclaimBatch, At, Reclaimable
<1>2. batch[b] \in BatchRows /\ job' \in [Credits -> JobRows]
  BY <1>1 DEF ResetInv, TypeOK
<1>3. \A v \in Workers : cycle[v].batch # b
  <2> SUFFICES ASSUME NEW v \in Workers, cycle[v].batch = b PROVE FALSE
    OBVIOUS
  <2>1. Holding(v) /\ cycle[v].left \in Nat
    BY NoneIsNoValue, ConstantsAssumption DEF Holding, ResetInv, TypeOK, CycleStates
  <2>2. cycle[v].left < batch[b].lease
    BY <2>1 DEF ResetInv, HoldInv
  <2> QED
    BY <1>1, <2>1, <2>2
<1> DEFINE n == batch[b].attempts + 1
           x == [batch[b] EXCEPT !.lease = BatchLease, !.attempts = n]
<1>4. n \in 0..MaxClaims /\ n > 0 /\ BatchLease \in 0..BatchLease
  BY <1>1, <1>2, ConstantsAssumption DEF BatchRows
<1>5. batch' = [batch EXCEPT ![b] = x]
  BY DEF ReclaimBatch
<1> HIDE DEF n
<1>6. x \in BatchRows
  BY <1>2, <1>4, BatchClosed
<1>7. x.made /\ x.lease = BatchLease /\ x.attempts = n /\ x.payload = batch[b].payload
  BY <1>1, <1>2 DEF BatchRows
<1> HIDE DEF x
<1> QED
  BY <1>1, <1>2, <1>3, <1>4, <1>5, <1>6, <1>7, ClaimKeeps

\* A new batch takes rows that no batch has.
LEMMA NewBatchKeeps ==
    ASSUME ResetInv, NEW w \in Workers, NEW b \in Batches, ClaimNewBatch(w, b)
    PROVE  ResetInv'
<1>1. /\ cycle[w].at = "claim" /\ TakeBatch(w, b) /\ ~batch[b].made
      /\ UNCHANGED <<upstreamVars, outsideVars, mails, events>>
  BY DEF ClaimNewBatch, At
<1>2. \A v \in Workers : cycle[v].batch # b
  BY <1>1, NoneIsNoValue DEF ResetInv, HoldInv, Holding
<1> DEFINE x == [FreshBatch EXCEPT !.made = TRUE, !.lease = BatchLease, !.attempts = 1]
           r(c) == [job[c] EXCEPT !.batch = b]
<1>3. batch' = [batch EXCEPT ![b] = x]
  BY DEF ClaimNewBatch
<1>4. x \in BatchRows
  <2>1. 1 \in 0..MaxClaims /\ BatchLease \in 0..BatchLease /\ FreshBatch \in BatchRows
    BY ConstantsAssumption, EmptyTyped
  <2> QED
    BY <2>1, BatchClosed
<1>5. x.made /\ x.lease = BatchLease /\ x.attempts > 0 /\ x.payload = None
  BY DEF FreshBatch
<1>6. job \in [Credits -> JobRows]
  BY DEF ResetInv, TypeOK
<1>7. \A c \in Credits : /\ r(c) \in JobRows /\ r(c).batch = b /\ r(c).planned = job[c].planned
                         /\ r(c).attempted = job[c].attempted /\ r(c).outcome = job[c].outcome
  BY <1>6 DEF JobRows
<1>8. PICK jobs \in SUBSET DueJobs : job' = [c \in Credits |-> IF c \in jobs THEN r(c) ELSE job[c]]
  BY DEF ClaimNewBatch
<1> HIDE DEF x, r
<1>9. job' \in [Credits -> JobRows]
  BY <1>6, <1>7, <1>8
<1>10. \A c \in Credits : job'[c] = job[c] \/ Taken(c, b)
  <2> SUFFICES ASSUME NEW c \in Credits, c \in jobs PROVE Taken(c, b)
    BY <1>8
  <2>1. job[c].planned /\ job[c].batch = None /\ job[c].outcome = None /\ job'[c] = r(c)
    BY <1>8 DEF DueJobs
  <2> QED
    BY <1>7, <2>1 DEF Taken
<1> QED
  BY <1>1, <1>2, <1>3, <1>4, <1>5, <1>9, <1>10, ClaimKeeps

-----------------------------------------------------------------------------
(* The inductive invariant and what follows from it.                       *)

\* Empty tables and idle workers satisfy the invariant.
LEMMA InitReset == Init => ResetInv
<1> SUFFICES ASSUME Init PROVE ResetInv
  OBVIOUS
<1>1. TypeOK
  <2>1. UpstreamOK
    BY DEF Init, UpstreamOK, CreditStates, CallStates
  <2>2. OutsideOK
    BY ConstantsAssumption DEF Init, OutsideOK
  <2>3. job \in [Credits -> JobRows] /\ batch \in [Batches -> BatchRows]
    BY EmptyTyped DEF Init
  <2>4. cycle \in [Workers -> CycleStates]
    BY IdleTyped DEF Init
  <2>5. step \in [Workers -> [Credits -> Steps]]
    BY DEF Init, Steps
  <2>6. mem \in [Workers -> [Credits -> Copies]]
    BY EmptyTyped DEF Init
  <2> QED
    BY <2>1, <2>2, <2>3, <2>4, <2>5, <2>6 DEF TypeOK
<1>2. HoldInv
  BY DEF Init, HoldInv, Holding, IdleCycle, Late, FreshBatch, BatchHeldOnce
<1>3. RowInv
  BY DEF Init, RowInv, RowOK, EmptyRow
<1>4. StepInv
  BY NoneIsNoValue DEF Init, StepInv, StepOK, Mine, Holding, IdleCycle, NoMem, Running, Outcomes
<1>5. SentInv
  BY NoneIsNoValue DEF Init, SentInv, SentOK, EmptyRow, Outcomes
<1>6. ReportInv
  BY DEF Init, ReportInv, IdleCycle, FreshBatch
<1> QED
  BY <1>1, <1>2, <1>3, <1>4, <1>5, <1>6 DEF ResetInv

\* One case per action of the specification.
LEMMA NextReset == ResetInv /\ [Next]_vars => ResetInv'
<1> SUFFICES ASSUME ResetInv, [Next]_vars PROVE ResetInv'
  OBVIOUS
<1>1. CASE Environment
  <2>1. ASSUME NEW c \in Credits, CreditChanges(c) \/ ConsoleConsumes(c) \/ ServeConsume(c) \/ JobFallsDue(c)
        PROVE  Aside
    BY <2>1, UpstreamActs, JobFallsDueIsAside
  <2>2. ASSUME NEW a \in Accounts, ToggleAccount(a) \/ CacheAges(a) \/ ConsoleReads(a) \/ ConsoleStores(a)
        PROVE  Aside
    BY <2>2, ConsoleActs
  <2>3. ASSUME WindowOpens \/ WindowCloses
        PROVE  Aside
    BY <2>3, ClockActs
  <2> QED
    BY <1>1, <2>1, <2>2, <2>3, AsideKeeps DEF Environment
<1>2. CASE Tick
  BY <1>2, TickKeeps
<1>3. ASSUME NEW w \in Workers, StartCycle(w) \/ Crash(w)
      PROVE  ResetInv'
  BY <1>3, StartCycleIsAside, AsideKeeps, StopKeeps
<1>4. ASSUME NEW w \in Workers, WorkerStep(w)
      PROVE  ResetInv'
  <2>1. ASSUME \/ discoverResets(w) \/ refreshResetCredits(w) \/ ReconcilePendingResets(w)
               \/ PlanReset(w) \/ DiscoveryEnds(w) \/ ClaimNothing(w)
        PROVE  ResetInv'
    BY <2>1, DiscoverIsAside, RefreshIsAside, ReconcileIsAside, PlanIsAside,
       DiscoveryEndsIsAside, ClaimNothingIsAside, AsideKeeps
  <2>2. ASSUME NEW b \in Batches, ReclaimBatch(w, b) \/ ClaimNewBatch(w, b)
        PROVE  ResetInv'
    BY <2>2, ReclaimKeeps, NewBatchKeeps
  <2>3. ASSUME NEW c \in Credits, JobStep(w, c)
        PROVE  ResetInv'
    BY <2>3, JobStepMoves, JobMoveKeeps
  <2>4. ASSUME \/ JobsFailed(w) \/ FreezeResetReport(w) \/ SendMessage(w)
               \/ FinishResetReport(w) \/ ReportFails(w)
        PROVE  ResetInv'
    BY <2>4, ReportStepsKeep
  <2>5. ASSUME RetryResetBatch(w)
        PROVE  ResetInv'
    BY <2>5, StopKeeps
  <2> QED
    BY <1>4, <2>1, <2>2, <2>3, <2>4, <2>5 DEF WorkerStep
<1>5. CASE UNCHANGED vars
  <2>1. UNCHANGED <<credit, call, requests, disabled, window, cache, console, job, batch, cycle,
                    step, mem, mails, events>>
    BY <1>5 DEF vars, upstreamVars, outsideVars, tableVars, workerVars
  <2>2. TypeOK'
    BY <2>1 DEF ResetInv, TypeOK, UpstreamOK, OutsideOK
  <2>3. Aside
    BY <2>1, <2>2 DEF Aside, RedeemedKept, RowKept, ResetInv, SentInv, SentOK
  <2> QED
    BY <2>3, AsideKeeps
<1> QED
  BY <1>1, <1>2, <1>3, <1>4, <1>5 DEF Next

\* The invariant the results below follow from holds of every run of the service,
\* with any number of workers that may stop at any step.
THEOREM ResetInvariant == Spec => []ResetInv
<1>1. Init => ResetInv
  BY InitReset
<1>2. ResetInv /\ [Next]_vars => ResetInv'
  BY NextReset
<1> QED
  BY <1>1, <1>2, PTL DEF Spec

\* Whatever workers crash and whatever leases and cycles run out: a batch has
\* one holder (ClaimResetBatch, RetryResetBatch), and a credit is requested at
\* most once and only after StartResetAttempt has stored the intent.
THEOREM ResetsAreSafe == Spec => []ResetSafe
<1>1. ResetInv => ResetSafe
  <2> SUFFICES ASSUME ResetInv PROVE ResetSafe
    OBVIOUS
  <2>1. TypeOK /\ BatchHeldOnce
    BY DEF ResetInv, HoldInv
  <2>2. IntentBeforeRequest
    BY DEF ResetInv, RowInv, RowOK, SentInv, SentOK, IntentBeforeRequest
  <2>3. NeverResubmitted
    BY DEF ResetInv, SentInv, SentOK, NeverResubmitted
  <2> QED
    BY <2>1, <2>2, <2>3 DEF ResetSafe
<1> QED
  BY <1>1, ResetInvariant, PTL

\* What FinishResetJob and ReconcilePendingResets store of a job is so
\* upstream.
THEOREM OutcomesAgreeWithUpstream == Spec => []OutcomesAreTrue
<1>1. ResetInv => OutcomesAreTrue
  BY DEF ResetInv, SentInv, SentOK, OutcomesAreTrue
<1> QED
  BY <1>1, ResetInvariant, PTL

\* Every mail of a batch carries the body FreezeResetReport kept, and that body
\* is the table's account of the batch.
THEOREM ReportsAreTrue == Spec => []ReportIsTrue
<1>1. ResetInv => ReportIsTrue
  <2> SUFFICES ASSUME ResetInv PROVE ReportIsTrue
    OBVIOUS
  <2>1. \A m \in mails : m.batch \in Batches /\ TrueReport(m.body, m.batch)
    BY DEF ResetInv, ReportInv
  <2>2. OneBodyPerBatch
    BY DEF ResetInv, ReportInv, OneBodyPerBatch
  <2>3. ReportsMatchJobs
    BY <2>1 DEF ReportsMatchJobs, TrueReport
  <2> QED
    BY <2>2, <2>3 DEF ReportIsTrue
<1> QED
  BY <1>1, ResetInvariant, PTL

\* What the tables say of a job once it is settled, attempted or taken is never
\* taken back, by a late worker, by discovery or by recovery.
RowsFinal ==
    \A c \in Credits :
        /\ job[c].outcome # None => job'[c].outcome = job[c].outcome
        /\ job[c].attempted => job'[c].attempted
        /\ job[c].batch # None => job'[c].batch = job[c].batch

\* No step takes back an outcome, an intent or the batch of a row.
LEMMA RowsAreFinal == ResetInv /\ [Next]_vars => RowsFinal
<1> SUFFICES ASSUME ResetInv, [Next]_vars PROVE RowsFinal
  OBVIOUS
<1>1. ASSUME Aside
      PROVE  RowsFinal
  BY <1>1 DEF Aside, RowKept, RowsFinal
<1>2. ASSUME UNCHANGED job
      PROVE  RowsFinal
  BY <1>2 DEF RowsFinal
<1>3. CASE Environment
  BY <1>1, <1>3, UpstreamActs, JobFallsDueIsAside, ConsoleActs, ClockActs DEF Environment
<1>4. CASE Tick
  BY <1>2, <1>4 DEF Tick
<1>5. ASSUME NEW w \in Workers, StartCycle(w) \/ Crash(w)
      PROVE  RowsFinal
  BY <1>1, <1>2, <1>5, StartCycleIsAside DEF Crash, tableVars
<1>6. ASSUME NEW w \in Workers, WorkerStep(w)
      PROVE  RowsFinal
  <2>1. ASSUME \/ discoverResets(w) \/ refreshResetCredits(w) \/ ReconcilePendingResets(w)
               \/ PlanReset(w) \/ DiscoveryEnds(w) \/ ClaimNothing(w)
        PROVE  RowsFinal
    BY <1>1, <2>1, DiscoverIsAside, RefreshIsAside, ReconcileIsAside, PlanIsAside,
       DiscoveryEndsIsAside, ClaimNothingIsAside
  <2>2. ASSUME NEW b \in Batches, ReclaimBatch(w, b)
        PROVE  RowsFinal
    BY <1>2, <2>2 DEF ReclaimBatch
  <2>3. ASSUME NEW b \in Batches, ClaimNewBatch(w, b)
        PROVE  RowsFinal
    <3> DEFINE r(c) == [job[c] EXCEPT !.batch = b]
    <3>1. PICK jobs \in SUBSET DueJobs : job' = [c \in Credits |-> IF c \in jobs THEN r(c) ELSE job[c]]
      BY <2>3 DEF ClaimNewBatch
    <3>2. \A c \in Credits : r(c).attempted = job[c].attempted /\ r(c).outcome = job[c].outcome
      BY DEF ResetInv, TypeOK, JobRows
    <3>3. \A c \in jobs : job[c].batch = None
      BY DEF DueJobs
    <3> HIDE DEF r
    <3> QED
      BY <3>1, <3>2, <3>3 DEF RowsFinal
  <2>4. ASSUME NEW c \in Credits, JobStep(w, c)
        PROVE  RowsFinal
    BY <2>4, JobStepMoves DEF JobMove, RowsFinal
  <2>5. ASSUME \/ JobsFailed(w) \/ FreezeResetReport(w) \/ SendMessage(w)
               \/ FinishResetReport(w) \/ ReportFails(w) \/ RetryResetBatch(w)
        PROVE  RowsFinal
    BY <1>2, <2>5 DEF JobsFailed, FreezeResetReport, SendMessage, FinishResetReport, ReportFails,
                      RetryResetBatch, tableVars
  <2> QED
    BY <1>6, <2>1, <2>2, <2>3, <2>4, <2>5 DEF WorkerStep
<1>7. CASE UNCHANGED vars
  BY <1>2, <1>7 DEF vars, tableVars
<1> QED
  BY <1>3, <1>4, <1>5, <1>6, <1>7 DEF Next

\* FinishResetJob and ReconcilePendingResets store an outcome once: no step
\* replaces it, withdraws the intent of a job or moves it to another batch.
THEOREM SettledRowsStay == Spec => JobRowsAreFinal
<1>1. ResetInv /\ [Next]_vars => [RowsFinal]_vars
  BY RowsAreFinal
<1> QED
  BY <1>1, ResetInvariant, PTL DEF Spec, JobRowsAreFinal, RowsFinal
=============================================================================
