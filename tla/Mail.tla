-------------------------------- MODULE Mail --------------------------------
(***************************************************************************)
(* Product notifications and e-mail for one user: notify() enqueues a      *)
(* task, the task drops, accumulates or sends the notice, a beat job mails *)
(* the accumulated digest, send_email talks to the provider, and the       *)
(* provider's delivery events come back through a webhook to keep the      *)
(* do-not-send list.  Tasks are redelivered when their worker dies.        *)
(***************************************************************************)
EXTENDS Naturals, Sequences, FiniteSets, SequencesExt

CONSTANTS
    Notices,      \* the dedup keys: records of id, kind, category and gated
    Tasks,        \* deliver_notification messages
    Mails,        \* send_email messages
    MaxItems,     \* NOTIFY_DIGEST_MAX_ITEMS
    MaxRetries,   \* EMAIL_SEND_MAX_RETRIES
    MaxMessages,  \* bound on messages the provider reports on (exploration only)
    MaxFaults,    \* bound on outages, refusals and deaths (exploration only)
    MaxChanges    \* bound on what the user changes (exploration only)

ASSUME MailAssumption ==
    /\ Notices # {} /\ \A n \in Notices : n.kind \in {"urgent", "digest"}
    /\ MaxItems \in Nat /\ MaxRetries \in Nat /\ MaxMessages \in Nat
    /\ MaxFaults \in Nat /\ MaxChanges \in Nat

VARIABLES
    account,            \* reachable mailbox, wanted categories, open lesson page
    redisUp,
    task, mail,         \* Celery messages and the progress of their workers
    marks, digest, pushed,      \* Redis: dedup keys, accumulator, its counter
    flush,              \* flush_notification_digests in flight
    messages,           \* messages the provider has accepted
    event, seen,        \* delivery events and their Redis marks
    suppression,        \* email_suppressions.reason of the address
    flag,               \* users.email_bounce_reason
    copies, excused, shaken,    \* history: sent, dropped by a rule or fault, raced
    applied, complained, crossing,  \* history of delivery events
    faults, changes

noticeVars == <<task, marks, digest, pushed, flush, excused>>
eventVars == <<event, seen, suppression, flag, applied, complained, crossing>>
mailVars == <<account, redisUp, noticeVars, mail, messages, eventVars, copies,
              shaken, faults, changes>>

Categories == {n.category : n \in Notices}
Events == (1..MaxMessages) \X {"delivered", "bounced", "complained"}
Reason == [bounced |-> "hard_bounce", complained |-> "complaint"]
NoTask == [pc |-> "none", about |-> CHOOSE n \in Notices : TRUE, tries |-> 0]
NoMail == [pc |-> "none", items |-> {}, tries |-> 0]
NoFlush == [pc |-> "idle", items |-> {}]
Outcomes == {"accepted", "rejected", "unreachable", "unanswered"}

Fault == faults < MaxFaults /\ faults' = faults + 1
Change == changes < MaxChanges /\ changes' = changes + 1

Counts(items) ==
    copies' = [n \in Notices |->
        IF n \in items /\ copies[n] < 2 THEN copies[n] + 1 ELSE copies[n]]

-----------------------------------------------------------------------------
(* notify(): a refusing broker is only logged.  Two calls for one key may  *)
(* overlap.                                                                *)
Notify(t, n) ==
    /\ task[t].pc = "none"
    /\ task' = [task EXCEPT ![t] = [NoTask EXCEPT !.pc = "queued", !.about = n]]
    /\ shaken' = IF \E u \in Tasks : task[u].about = n /\ task[u].pc \notin {"none", "done"}
                 THEN shaken \cup {n} ELSE shaken
    /\ UNCHANGED <<account, redisUp, marks, digest, pushed, flush, excused, mail, messages,
                   eventVars, copies, faults, changes>>

(* decide_and_deliver: the recipient and the preference.                   *)
LooksUp(t) ==
    LET n == task[t].about
        wanted == account.live /\ n.category \in account.wants
    IN  /\ task[t].pc = "queued"
        /\ task' = [task EXCEPT ![t].pc = IF wanted THEN "wanted" ELSE "done"]
        /\ excused' = IF wanted THEN excused ELSE excused \cup {n}
        /\ UNCHANGED <<account, redisUp, marks, digest, pushed, flush, mail, messages,
                       eventVars, copies, shaken, faults, changes>>

(* The presence gate and the dedup check; both fail open.                  *)
Gates(t) ==
    LET n == task[t].about
        watched == redisUp /\ n.gated /\ account.watching
        again == redisUp /\ n \in marks
    IN  /\ task[t].pc = "wanted"
        /\ task' = [task EXCEPT ![t].pc = IF watched \/ again THEN "done" ELSE n.kind]
        /\ excused' = IF watched THEN excused \cup {n} ELSE excused
        /\ shaken' = IF redisUp THEN shaken ELSE shaken \cup {n}
        /\ UNCHANGED <<account, redisUp, marks, digest, pushed, flush, mail, messages,
                       eventVars, copies, faults, changes>>

(* _push_digest: the list keeps its first MaxItems entries, the counter    *)
(* keeps growing.  Without Redis the notice is given up.                   *)
PushesDigest(t) ==
    LET n == task[t].about
        longer == Append(digest, n)
    IN  /\ task[t].pc = "digest"
        /\ task' = [task EXCEPT ![t].pc = IF redisUp THEN "marking" ELSE "done"]
        /\ IF redisUp
           THEN /\ digest' = SubSeq(longer, 1, IF Len(longer) < MaxItems
                                               THEN Len(longer) ELSE MaxItems)
                /\ pushed' = pushed + 1
                /\ excused' = IF Len(longer) > MaxItems THEN excused \cup {n} ELSE excused
           ELSE UNCHANGED <<digest, pushed>> /\ excused' = excused \cup {n}
        /\ UNCHANGED <<account, redisUp, marks, flush, mail, messages, eventVars, copies,
                       shaken, faults, changes>>

(* What a send comes to: the provider accepts or rejects the message, is   *)
(* not reached, or accepts it and the answer is lost; the last two are     *)
(* retried while retries remain.                                           *)
ProviderTakes(outcome, items) ==
    /\ outcome # "accepted" => Fault
    /\ outcome = "accepted" => UNCHANGED faults
    /\ IF outcome \in {"accepted", "unanswered"}
       THEN messages' = messages + 1 /\ Counts(items)
       ELSE UNCHANGED <<messages, copies>>
    /\ shaken' = IF outcome = "unanswered" THEN shaken \cup items ELSE shaken

GivesUp(outcome, tries) ==
    outcome = "rejected" \/ (outcome # "accepted" /\ tries = MaxRetries)

(* An urgent notice goes to the provider from the task itself, past the    *)
(* do-not-send list.                                                       *)
SendsNow_MarkedFirst(t, outcome) ==
    LET n == task[t].about
        failed == GivesUp(outcome, task[t].tries)
    IN  /\ task[t].pc = "urgent"
        /\ ProviderTakes(outcome, {n})
        /\ marks' = marks \cup {n}
        /\ task' = [task EXCEPT ![t].pc = IF outcome = "accepted" THEN "marking"
                                          ELSE IF failed THEN "done" ELSE "queued",
                                ![t].tries = IF outcome = "accepted" THEN @ ELSE @ + 1]
        /\ excused' = IF failed THEN excused \cup {n} ELSE excused
        /\ UNCHANGED <<account, redisUp, digest, pushed, flush, mail, eventVars, changes>>

SendsNow(t, outcome) ==
    LET n == task[t].about
        failed == GivesUp(outcome, task[t].tries)
    IN  /\ task[t].pc = "urgent"
        /\ ProviderTakes(outcome, {n})
        /\ task' = [task EXCEPT ![t].pc = IF outcome = "accepted" THEN "marking"
                                          ELSE IF failed THEN "done" ELSE "queued",
                                ![t].tries = IF outcome = "accepted" THEN @ ELSE @ + 1]
        /\ excused' = IF failed THEN excused \cup {n} ELSE excused
        /\ UNCHANGED <<account, redisUp, marks, digest, pushed, flush, mail, eventVars,
                       changes>>

MarksSent(t) ==
    LET n == task[t].about
    IN  /\ task[t].pc = "marking"
        /\ marks' = IF redisUp THEN marks \cup {n} ELSE marks
        /\ shaken' = IF redisUp THEN shaken ELSE shaken \cup {n}
        /\ task' = [task EXCEPT ![t].pc = "done"]
        /\ UNCHANGED <<account, redisUp, digest, pushed, flush, excused, mail, messages,
                       eventVars, copies, faults, changes>>

(* acks_late: the message of a dead worker is delivered again.             *)
TaskDies(t) ==
    /\ task[t].pc \in {"wanted", "urgent", "digest", "marking"} /\ Fault
    /\ shaken' = IF task[t].pc = "marking" THEN shaken \cup {task[t].about} ELSE shaken
    /\ task' = [task EXCEPT ![t].pc = "queued"]
    /\ UNCHANGED <<account, redisUp, marks, digest, pushed, flush, excused, mail, messages,
                   eventVars, copies, changes>>

-----------------------------------------------------------------------------
(* flush_notification_digests: the atomic pop, the user, one mail per      *)
(* wanted category.                                                        *)
FlushPops ==
    /\ flush.pc = "idle" /\ redisUp /\ digest # <<>>
    /\ flush' = [NoFlush EXCEPT !.pc = "popped", !.items = ToSet(digest)]
    /\ digest' = <<>> /\ pushed' = 0
    /\ UNCHANGED <<account, redisUp, task, marks, excused, mail, messages, eventVars,
                   copies, shaken, faults, changes>>

FlushLooksUp ==
    LET wants == IF account.live THEN account.wants ELSE {}
        kept == {n \in flush.items : n.category \in wants}
    IN  /\ flush.pc = "popped"
        /\ excused' = excused \cup (flush.items \ kept)
        /\ flush' = IF kept = {} THEN NoFlush
                    ELSE [flush EXCEPT !.pc = "mailing", !.items = kept]
        /\ UNCHANGED <<account, redisUp, task, marks, digest, pushed, mail, messages,
                       eventVars, copies, shaken, faults, changes>>

FlushMails ==
    LET category == CHOOSE c \in Categories : \E n \in flush.items : n.category = c
        grouped == {n \in flush.items : n.category = category}
        rest == flush.items \ grouped
    IN  /\ flush.pc = "mailing"
        /\ \E m \in Mails :
             /\ mail[m].pc = "none"
             /\ mail' = [mail EXCEPT ![m] = [NoMail EXCEPT !.pc = "queued", !.items = grouped]]
        /\ flush' = IF rest = {} THEN NoFlush ELSE [flush EXCEPT !.items = rest]
        /\ UNCHANGED <<account, redisUp, task, marks, digest, pushed, excused, messages,
                       eventVars, copies, shaken, faults, changes>>

(* A dead worker or a refusing broker: what was popped is gone.            *)
FlushFails ==
    /\ flush.pc # "idle" /\ Fault
    /\ excused' = excused \cup flush.items
    /\ flush' = NoFlush
    /\ UNCHANGED <<account, redisUp, task, marks, digest, pushed, mail, messages, eventVars,
                   copies, shaken, changes>>

(* Account mail (verification, password reset) enters send_email directly. *)
AccountMail(m) ==
    /\ mail[m].pc = "none"
    /\ mail' = [mail EXCEPT ![m] = [NoMail EXCEPT !.pc = "queued"]]
    /\ UNCHANGED <<account, redisUp, noticeVars, messages, eventVars, copies, shaken,
                   faults, changes>>

(* send_email: the do-not-send list, then the provider.                    *)
MailChecks(m) ==
    LET barred == suppression # "none"
    IN  /\ mail[m].pc = "queued"
        /\ mail' = [mail EXCEPT ![m].pc = IF barred THEN "done" ELSE "checked"]
        /\ excused' = IF barred THEN excused \cup mail[m].items ELSE excused
        /\ UNCHANGED <<account, redisUp, task, marks, digest, pushed, flush, messages,
                       eventVars, copies, shaken, faults, changes>>

MailSends(m, outcome) ==
    LET failed == GivesUp(outcome, mail[m].tries)
    IN  /\ mail[m].pc = "checked"
        /\ ProviderTakes(outcome, mail[m].items)
        /\ mail' = [mail EXCEPT ![m].pc = IF outcome = "accepted" \/ failed THEN "done"
                                          ELSE "queued",
                                ![m].tries = IF outcome = "accepted" THEN @ ELSE @ + 1]
        /\ excused' = IF failed THEN excused \cup mail[m].items ELSE excused
        /\ UNCHANGED <<account, redisUp, task, marks, digest, pushed, flush, eventVars,
                       changes>>

-----------------------------------------------------------------------------
(* The user, update_settings, the unsubscribe link, the open lesson page.  *)
UpdateSettings ==
    /\ Change
    /\ \E wants \in SUBSET Categories \ {account.wants} :
         account' = [account EXCEPT !.wants = wants]
    /\ UNCHANGED <<redisUp, noticeVars, mail, messages, eventVars, copies, shaken, faults>>

Unsubscribe(n) ==
    /\ copies[n] > 0 /\ n.category \in account.wants /\ Change
    /\ account' = [account EXCEPT !.wants = @ \ {n.category}]
    /\ UNCHANGED <<redisUp, noticeVars, mail, messages, eventVars, copies, shaken, faults>>

AccountChanges ==
    /\ Change
    /\ \/ account' = [account EXCEPT !.live = ~@]
       \/ account' = [account EXCEPT !.watching = ~@]
    /\ UNCHANGED <<redisUp, noticeVars, mail, messages, eventVars, copies, shaken, faults>>

RedisTurns ==
    /\ redisUp' = ~redisUp
    /\ IF redisUp THEN Fault ELSE UNCHANGED faults
    /\ UNCHANGED <<account, noticeVars, mail, messages, eventVars, copies, shaken, changes>>

-----------------------------------------------------------------------------
(* The provider's side: a message is delivered or bounces, a delivered one *)
(* may be complained about; events are posted until the webhook answers    *)
(* 200, in any order, and may be posted again afterwards.                  *)
ProviderReports(e) ==
    LET k == e[1] IN
    /\ k <= messages /\ event[e] = "none"
    /\ CASE e[2] = "delivered" -> event[<<k, "bounced">>] = "none"
         [] e[2] = "bounced" -> event[<<k, "delivered">>] = "none"
         [] OTHER -> event[<<k, "delivered">>] # "none"
    /\ event' = [event EXCEPT ![e] = "due"]
    /\ UNCHANGED <<account, redisUp, noticeVars, mail, messages, seen, suppression, flag,
                   applied, complained, crossing, copies, shaken, faults, changes>>

(* resend_webhook: 200 only once the broker took the task.                 *)
Webhook(e) ==
    /\ \/ event[e] = "due" /\ UNCHANGED faults
       \/ event[e] = "done" /\ Fault
    /\ event' = [event EXCEPT ![e] = "queued"]
    /\ UNCHANGED <<account, redisUp, noticeVars, mail, messages, seen, suppression, flag,
                   applied, complained, crossing, copies, shaken, changes>>

(* handle_email_delivery_event: SET NX first.  Without Redis the task      *)
(* fails and is not retried.                                               *)
EventMarks(e) ==
    /\ event[e] = "queued"
    /\ event' = [event EXCEPT ![e] = IF redisUp /\ e \notin seen THEN "marked" ELSE "done"]
    /\ seen' = IF redisUp THEN seen \cup {e} ELSE seen
    /\ UNCHANGED <<account, redisUp, noticeVars, mail, messages, suppression, flag, applied,
                   complained, crossing, copies, shaken, faults, changes>>

(* record_event: one upsert that takes the latest reason.                  *)
RecordEvent(e) ==
    /\ event[e] = "marked" /\ e[2] # "delivered"
    /\ suppression' = Reason[e[2]] /\ flag' = Reason[e[2]]
    /\ applied' = Append(applied, e)
    /\ complained' = (complained \/ e[2] = "complained")
    /\ crossing' = (crossing \/ \E d \in Events : event[d] = "clearing")
    /\ event' = [event EXCEPT ![e] = "done"]
    /\ UNCHANGED <<account, redisUp, noticeVars, mail, messages, seen, copies, shaken,
                   faults, changes>>

(* sync_clear_for_email: the row is read, then deleted by address, then    *)
(* the account's flag is cleared.                                          *)
ClearReads(e) ==
    /\ event[e] = "marked" /\ e[2] = "delivered"
    /\ event' = [event EXCEPT ![e] = CASE suppression = "complaint" -> "done"
                                       [] suppression = "hard_bounce" -> "clearing"
                                       [] OTHER -> "unflagging"]
    /\ UNCHANGED <<account, redisUp, noticeVars, mail, messages, seen, suppression, flag,
                   applied, complained, crossing, copies, shaken, faults, changes>>

ClearWrites(e) ==
    /\ event[e] \in {"clearing", "unflagging"}
    /\ suppression' = IF event[e] = "clearing" THEN "none" ELSE suppression
    /\ flag' = "none"
    /\ crossing' = (crossing \/ suppression' # "none")
    /\ event' = [event EXCEPT ![e] = "done"]
    /\ UNCHANGED <<account, redisUp, noticeVars, mail, messages, seen, applied, complained,
                   copies, shaken, faults, changes>>

(* The worker dies after the mark: the redelivery takes it for a repeat.   *)
EventDies(e) ==
    /\ event[e] \in {"marked", "clearing", "unflagging"} /\ Fault
    /\ event' = [event EXCEPT ![e] = "queued"]
    /\ UNCHANGED <<account, redisUp, noticeVars, mail, messages, seen, suppression, flag,
                   applied, complained, crossing, copies, shaken, changes>>

-----------------------------------------------------------------------------
MailInit ==
    /\ account = [live |-> TRUE, watching |-> FALSE, wants |-> Categories]
    /\ redisUp = TRUE
    /\ task = [t \in Tasks |-> NoTask] /\ mail = [m \in Mails |-> NoMail]
    /\ marks = {} /\ digest = <<>> /\ pushed = 0 /\ flush = NoFlush
    /\ messages = 0
    /\ event = [e \in Events |-> "none"] /\ seen = {}
    /\ suppression = "none" /\ flag = "none"
    /\ copies = [n \in Notices |-> 0] /\ excused = {} /\ shaken = {}
    /\ applied = <<>> /\ complained = FALSE /\ crossing = FALSE
    /\ faults = 0 /\ changes = 0

SendingNext ==
    \/ \E m \in Mails : \/ MailChecks(m)
                        \/ \E o \in Outcomes : MailSends(m, o)
    \/ RedisTurns

NoticeNext ==
    \/ \E t \in Tasks : \/ \E n \in Notices : Notify(t, n)
                        \/ LooksUp(t) \/ Gates(t) \/ PushesDigest(t)
                        \/ \E o \in Outcomes : SendsNow(t, o)
                        \/ MarksSent(t) \/ TaskDies(t)
    \/ FlushPops \/ FlushLooksUp \/ FlushMails \/ FlushFails
    \/ UpdateSettings \/ AccountChanges
    \/ \E n \in Notices : Unsubscribe(n)
    \/ SendingNext

FeedbackNext ==
    \/ \E m \in Mails : AccountMail(m)
    \/ \E e \in Events : \/ ProviderReports(e) \/ Webhook(e) \/ EventMarks(e)
                         \/ RecordEvent(e) \/ ClearReads(e) \/ ClearWrites(e)
                         \/ EventDies(e)
    \/ SendingNext

MailSpec == MailInit /\ [][NoticeNext \/ FeedbackNext]_mailVars

MailTypeOK ==
    /\ account \in [live : BOOLEAN, watching : BOOLEAN, wants : SUBSET Categories]
    /\ redisUp \in BOOLEAN
    /\ task \in [Tasks -> [pc : {"none", "queued", "wanted", "urgent", "digest", "marking",
                                 "done"}, about : Notices, tries : 0..MaxRetries + 1]]
    /\ mail \in [Mails -> [pc : {"none", "queued", "checked", "done"},
                           items : SUBSET Notices, tries : 0..MaxRetries + 1]]
    /\ marks \subseteq Notices /\ digest \in Seq(Notices) /\ Len(digest) <= MaxItems
    /\ pushed >= Len(digest)
    /\ flush \in [pc : {"idle", "popped", "mailing"}, items : SUBSET Notices]
    /\ messages \in Nat
    /\ event \in [Events -> {"none", "due", "queued", "marked", "clearing", "unflagging",
                             "done"}]
    /\ seen \subseteq Events
    /\ {suppression, flag} \subseteq {"none", "hard_bounce", "complaint"}
    /\ copies \in [Notices -> 0..2] /\ excused \subseteq Notices /\ shaken \subseteq Notices
    /\ applied \in Seq(Events) /\ complained \in BOOLEAN /\ crossing \in BOOLEAN
    /\ faults \in 0..MaxFaults /\ changes \in 0..MaxChanges

(* A notice someone still holds: a task, the accumulator, the flush, a mail. *)
Held(n) ==
    \/ \E t \in Tasks : task[t].about = n /\ task[t].pc \notin {"none", "done"}
    \/ n \in ToSet(digest) \/ n \in flush.items
    \/ \E m \in Mails : n \in mail[m].items /\ mail[m].pc # "done"

(* A notice the broker accepted is on its way, was mailed, or    *)
(* was dropped by a rule or a named fault, and it is mailed twice only     *)
(* after overlapping calls, a lost answer, a dead worker or a Redis        *)
(* outage: the mark follows the send, so a failed send stays retriable,    *)
(* and the digest's pop makes its flush unrepeatable.                      *)
NoticesAccountedFor ==
    \A n \in Notices :
        /\ (\E t \in Tasks : task[t].about = n /\ task[t].pc # "none")
             => Held(n) \/ copies[n] > 0 \/ n \in excused
        /\ copies[n] > 1 => n \in shaken

(* Every bounce or complaint is applied at most once however     *)
(* often the provider posts it, and the account's warning agrees with the  *)
(* do-not-send list unless a clear and a new bounce crossed.               *)
BouncesCountOnce ==
    /\ IsInjective(applied)
    /\ ~crossing => flag = suppression

(* Both directions: what goes out and what comes back.                     *)
MailAccountedFor == NoticesAccountedFor /\ BouncesCountOnce

(* What sync_clear_for_email's comment promises: a complaint is never      *)
(* lifted by a delivery.                                                   *)
ComplaintsStand == complained => suppression # "none"
=============================================================================
