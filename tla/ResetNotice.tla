----------------------------- MODULE ResetNotice -----------------------------
(***************************************************************************)
(* The Slack notice of the day's quota resets (resetnotice/service.go,     *)
(* resetnotice/mcp.go, store/reset_notices.go).  The tool that posts it    *)
(* has no idempotency key, so the attempt is written first and an answer   *)
(* that does not come is never asked for again.                            *)
(***************************************************************************)
EXTENDS Naturals

CONSTANTS Notifiers     \* replicas

VARIABLES
    notice,      \* row of the day and channel: none, claimed, sent or unconfirmed
    notifier,    \* progress of a replica
    posted       \* messages in the channel

noticeVars == <<notice, notifier, posted>>

NoticeInit ==
    /\ notice = "none" /\ posted = 0
    /\ notifier = [n \in Notifiers |-> "idle"]

Notify(n, at) == notifier' = [notifier EXCEPT ![n] = at]

\* A cycle within the minute: weekday and hour are right and there are events.
NoticeDue(n) ==
    /\ notifier[n] = "idle"
    /\ Notify(n, "claim")
    /\ UNCHANGED <<notice, posted>>

\* Mutant: the attempt is not written before the message is sent.
Mut_ClaimNothing(n) ==
    /\ notifier[n] = "claim"
    /\ Notify(n, "send")
    /\ UNCHANGED <<notice, posted>>

\* ClaimResetNotice inserts the row or finds it; its answer may be lost.
ClaimResetNotice(n) ==
    /\ notifier[n] = "claim"
    /\ notice' = IF notice = "none" THEN "claimed" ELSE notice
    /\ Notify(n, IF notice = "none" THEN "send" ELSE "idle") \/ Notify(n, "idle")
    /\ UNCHANGED posted

\* MCP.Send: the session may fail, the tool may fail, or the message is
\* posted and the receipt is lost or missing.
SendNotice(n) ==
    /\ notifier[n] = "send"
    /\ \E p \in {0, 1}, result \in {"sent", "unconfirmed"} :
         /\ result = "sent" => p = 1
         /\ posted' = posted + p
         /\ Notify(n, result)
    /\ UNCHANGED notice

\* FinishResetNotice, in a context of its own; it may fail.
FinishResetNotice(n) ==
    /\ notifier[n] \in {"sent", "unconfirmed"}
    /\ notice' = notifier[n] \/ UNCHANGED notice
    /\ Notify(n, "idle")
    /\ UNCHANGED posted

NotifierStops(n) ==
    /\ notifier[n] # "idle"
    /\ Notify(n, "idle")
    /\ UNCHANGED <<notice, posted>>

NoticeNext == \E n \in Notifiers :
    NoticeDue(n) \/ ClaimResetNotice(n) \/ SendNotice(n) \/ FinishResetNotice(n) \/ NotifierStops(n)

NoticeSpec == NoticeInit /\ [][NoticeNext]_noticeVars
-----------------------------------------------------------------------------
\* The channel is told at most once, whatever replicas crash and whatever
\* answers are lost.
NoticePostedOnce == posted <= 1

\* A notice recorded as sent has been posted; only an unconfirmed one has to
\* be looked up in the channel.
SentMeansPosted == notice = "sent" => posted = 1

\* One message at most, and none recorded as sent that was not posted.
NoticeIsTrue == NoticePostedOnce /\ SentMeansPosted
=============================================================================
