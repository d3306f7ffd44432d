------------------------------- MODULE Reminders -------------------------------
(* The reminder command and the notices it mails about one agreement             *)
(* (send_scheme_reminders.py, reminders.py and the selectors they call).         *)
(*                                                                               *)
(* A run of the command reads the candidates of its processing date, keeps those *)
(* still pending, and then delivers them one by one.  Runs overlap.  A delivery  *)
(* is one transaction under the agreement's row lock: the event is judged again, *)
(* the reminder and its attempts are read, the message is handed to the mail     *)
(* server and the attempt is recorded.  The hand-over cannot be part of the      *)
(* transaction: the answer may be lost after the server took the message, and    *)
(* the process may die before the commit.                                        *)
(*                                                                               *)
(* The agreement's own events are what the rest of the system does to it under   *)
(* the same row lock; the other modules have their detail.  Two things do not    *)
(* wait for that lock: the recipients' logins, and the provider's reports of     *)
(* captured payments, each of which casts doubt on the agreement's evidence      *)
(* until it is decided.                                                          *)
EXTENDS Naturals, FiniteSets, Sequences

CONSTANTS
    Jobs,            \* runs of the command
    MaxDay,          \* the last day of the calendar
    Leads,           \* SCHEME_REMINDER_ELIGIBILITY_DAYS
    RetryLimit,      \* SCHEME_REMINDER_RETRY_LIMIT
    MaxSettlements,  \* bound on redemptions, or on INR settlement completions
    MaxChanges,      \* bound on changes of the agreement, its evidence and recipients
    MaxFaults        \* bound on lost answers, refusals and crashes

ASSUME RemindersAssumption ==
    /\ MaxDay \in Nat \ {0} /\ Leads \subseteq Nat \ {0}
    /\ RetryLimit \in Nat \ {0} /\ MaxSettlements \in Nat
    /\ MaxChanges \in Nat /\ MaxFaults \in Nat

VARIABLES
    family,      \* which contract the agreement has
    today,       \* the India-local date
    agreement,   \* its status, the day its eligibility is completed (0: no such
                 \* day stands), the day a captured payment last failed allocation
                 \* (0: none waits) and its redemptions or INR completions in order
    undecided,   \* a capture is reported for it that was not decided
    reachable,   \* the recipients whose login is active and whose address matches
    jobs,        \* per run: NoJob, or its processing date and pending candidates
    delivery,    \* the delivery whose transaction holds the row lock
    attempts,    \* SchemeReminderDeliveryAttempt: per reminder, its outcomes
    letters,     \* per reminder, the messages the mail server took
    lost,        \* per reminder, those it took while the answer was lost
    changes,     \* counts towards MaxChanges
    faults       \* counts towards MaxFaults

reminderVars == <<family, today, agreement, undecided, reachable, jobs, delivery, attempts, letters, lost, changes, faults>>

Families == {"LEGACY", "MONTHLY", "METAL", "INR"}
Audiences == {"CUSTOMER", "OWNER"}
Days == 1 .. MaxDay
Forecasts == 1 .. (MaxDay + 1)

\* SchemeReminderCandidate.idempotency_key: what makes two candidates the same
\* reminder.  "ref" is the redemption or the completion, "lead" the days of notice.
Key(kind, audience, ref, day, lead) ==
    [kind |-> kind, audience |-> audience, ref |-> ref, day |-> day, lead |-> lead]

NoJob == [asOf |-> 0, pending |-> {}]
NoDelivery == [job |-> "none"]

RemindersInit ==
    /\ family \in Families
    /\ today = 1
    /\ agreement \in [status: {"ACTIVE"}, completion: Forecasts, unallocated: {0}, settled: {<<>>}]
    /\ undecided = FALSE /\ reachable = Audiences
    /\ jobs = [j \in Jobs |-> NoJob]
    /\ delivery = NoDelivery
    /\ attempts = <<>> /\ letters = <<>> /\ lost = <<>>
    /\ changes = 0 /\ faults = 0

-----------------------------------------------------------------------------
(* What stands now.                                                            *)

EligibilityKind == IF family = "MONTHLY" THEN "UPCOMING_MONTHLY_COMPLETION" ELSE "UPCOMING_ELIGIBILITY"
SettlementKind == IF family = "INR" THEN "COMPLETED_INR_SETTLEMENT" ELSE "COMPLETED_REDEMPTION"

\* The date get_monthly_eligibility and get_independent_eligibility still wait for:
\* an event that was not decided makes them answer REVIEW, which has no date
Forecast(asOf) ==
    IF agreement.status = "ACTIVE" /\ ~undecided /\ agreement.completion > asOf
    THEN agreement.completion ELSE 0

\* independent_reminder_terms: schema 2 answers for the current date alone
IndependentTerms(asOf) == IF asOf = today THEN Forecast(asOf) ELSE 0

\* eligibility_reminder_terms: 0 stands for None
EligibilityTerms(asOf) ==
    CASE family \in {"METAL", "INR"} -> IndependentTerms(asOf)
      [] family = "MONTHLY" -> Forecast(asOf)
      [] family = "LEGACY" ->
            IF agreement.status = "ACTIVE" THEN agreement.completion ELSE 0

\* get_upcoming_eligibility_accounts and its two companions, with the lead days of
\* build_scheme_reminder_plan
EligibilityCandidates(asOf) ==
    { Key(EligibilityKind, a, 0, EligibilityTerms(asOf), l) :
        a \in reachable, l \in { n \in Leads : asOf + n = EligibilityTerms(asOf) } }

\* get_allocation_exception_contributions; the owner alone hears of them
ExceptionCandidates ==
    { Key("ALLOCATION_EXCEPTION", "OWNER", 1, agreement.unallocated, 0) :
        a \in { o \in reachable : o = "OWNER" /\ agreement.unallocated # 0 } }

\* validate_inr_history and validate_independent_inr_benefit: an INR completion is
\* read only while every event is decided and the rows it was agreed on are unchanged
Evidenced(n) == family = "INR" => ~undecided /\ agreement.settled[n].sound

\* get_completed_redemptions_for_date and completed_inr_events: the unreversed
\* ones completed on that day
SettledOn(day) ==
    { n \in DOMAIN agreement.settled :
        agreement.settled[n].day = day /\ agreement.settled[n].standing /\ Evidenced(n) }

SettlementCandidates(asOf) ==
    { Key(SettlementKind, a, n, asOf, 0) : a \in reachable, n \in SettledOn(asOf) }

\* build_scheme_reminder_plan
Candidates(asOf) ==
    EligibilityCandidates(asOf) \cup ExceptionCandidates \cup SettlementCandidates(asOf)

-----------------------------------------------------------------------------
(* The command.                                                                *)

Attempts(k) == IF k \in DOMAIN attempts THEN attempts[k] ELSE <<>>
Letters(k) == IF k \in DOMAIN letters THEN letters[k] ELSE 0
Lost(k) == IF k \in DOMAIN lost THEN lost[k] ELSE 0
Accepted(k) == { n \in DOMAIN Attempts(k) : Attempts(k)[n] = "ACCEPTED" }

\* f with k mapped to v, which adds k to the domain when it is not there
With(f, k, v) == [x \in DOMAIN f \cup {k} |-> IF x = k THEN v ELSE f[x]]

\* reminder_candidate_state
CandidateState(k) ==
    IF Accepted(k) # {} THEN "ALREADY_SENT"
    ELSE IF Len(Attempts(k)) >= RetryLimit THEN "RETRY_EXHAUSTED" ELSE "PENDING"

\* Command.handle up to its loop: the plan of one date and the candidates still
\* pending in it.  A confirmed override may name another day than today.
StartRun(j, asOf) ==
    /\ jobs[j] = NoJob
    /\ jobs' = [jobs EXCEPT ![j] =
           [asOf |-> asOf, pending |-> { k \in Candidates(asOf) : CandidateState(k) = "PENDING" }]]
    /\ jobs'[j].pending # {}
    /\ UNCHANGED <<family, today, agreement, undecided, reachable, delivery, attempts, letters, lost, changes, faults>>

\* the date an eligibility notice is judged at: only a legacy agreement's contract
\* date may be replayed for another day
ProcessingDate(asOf) == IF family = "LEGACY" THEN asOf ELSE today

\* deliver_scheme_reminder, the second look at the event and at the recipient
Allowed(k, asOf) ==
    /\ k.audience \in reachable
    /\ \/ /\ k.kind \in {"UPCOMING_ELIGIBILITY", "UPCOMING_MONTHLY_COMPLETION"}
          /\ k.lead \in Leads
          /\ ProcessingDate(asOf) + k.lead = k.day
          /\ k.kind = EligibilityKind
          /\ EligibilityTerms(ProcessingDate(asOf)) = k.day
       \/ /\ k.kind = "ALLOCATION_EXCEPTION"
          /\ agreement.unallocated # 0
          /\ agreement.unallocated = k.day
       \/ /\ k.kind \in {"COMPLETED_REDEMPTION", "COMPLETED_INR_SETTLEMENT"}
          /\ k.ref \in SettledOn(k.day)

Finish(j, k) == jobs' = [jobs EXCEPT ![j].pending = @ \ {k}]

\* A delivery that sends nothing: SKIPPED, ALREADY_SENT or RETRY_EXHAUSTED
PassOver(j, k) ==
    /\ delivery = NoDelivery
    /\ k \in jobs[j].pending
    /\ ~Allowed(k, jobs[j].asOf) \/ CandidateState(k) # "PENDING"
    /\ Finish(j, k)
    /\ UNCHANGED <<family, today, agreement, undecided, reachable, delivery, attempts, letters, lost, changes, faults>>

BeginDeliveryUnread(j, k) ==
    /\ delivery = NoDelivery
    /\ k \in jobs[j].pending
    /\ Allowed(k, jobs[j].asOf)
    /\ delivery' = [job |-> j, key |-> k]
    /\ Finish(j, k)
    /\ UNCHANGED <<family, today, agreement, undecided, reachable, attempts, letters, lost, changes, faults>>

BeginDeliveryUnjudged(j, k) ==
    /\ delivery = NoDelivery
    /\ k \in jobs[j].pending
    /\ k.audience \in reachable
    /\ CandidateState(k) = "PENDING"
    /\ delivery' = [job |-> j, key |-> k]
    /\ Finish(j, k)
    /\ UNCHANGED <<family, today, agreement, undecided, reachable, attempts, letters, lost, changes, faults>>

\* The row lock is taken, the event judged again and the attempts read; the
\* message is on its way to the mail server
BeginDelivery(j, k) ==
    /\ delivery = NoDelivery
    /\ k \in jobs[j].pending
    /\ Allowed(k, jobs[j].asOf)
    /\ CandidateState(k) = "PENDING"
    /\ delivery' = [job |-> j, key |-> k]
    /\ Finish(j, k)
    /\ UNCHANGED <<family, today, agreement, undecided, reachable, attempts, letters, lost, changes, faults>>

\* deliver_scheme_reminder records the attempt and commits
Record(outcome) ==
    /\ attempts' = With(attempts, delivery.key, Append(Attempts(delivery.key), outcome))
    /\ delivery' = NoDelivery

\* SENT
MailAccepted ==
    /\ delivery # NoDelivery
    /\ Record("ACCEPTED")
    /\ letters' = With(letters, delivery.key, Letters(delivery.key) + 1)
    /\ UNCHANGED <<family, today, agreement, undecided, reachable, jobs, lost, changes, faults>>

\* FAILED: the server refused the message, or it took it and its answer was lost
MailFails(taken) ==
    /\ delivery # NoDelivery /\ faults < MaxFaults
    /\ Record("FAILED")
    /\ letters' = IF taken THEN With(letters, delivery.key, Letters(delivery.key) + 1) ELSE letters
    /\ lost' = IF taken THEN With(lost, delivery.key, Lost(delivery.key) + 1) ELSE lost
    /\ faults' = faults + 1
    /\ UNCHANGED <<family, today, agreement, undecided, reachable, jobs, changes>>

\* The process dies while the message is out: reminder and attempt roll back
CrashInDelivery(taken) ==
    /\ delivery # NoDelivery /\ faults < MaxFaults
    /\ delivery' = NoDelivery
    /\ jobs' = [jobs EXCEPT ![delivery.job] = NoJob]
    /\ letters' = IF taken THEN With(letters, delivery.key, Letters(delivery.key) + 1) ELSE letters
    /\ lost' = IF taken THEN With(lost, delivery.key, Lost(delivery.key) + 1) ELSE lost
    /\ faults' = faults + 1
    /\ UNCHANGED <<family, today, agreement, undecided, reachable, attempts, changes>>

\* The loop ends: through its candidates, at --limit, or with the process
EndRun(j) ==
    /\ jobs[j] # NoJob
    /\ delivery.job # j
    /\ jobs' = [jobs EXCEPT ![j] = NoJob]
    /\ UNCHANGED <<family, today, agreement, undecided, reachable, delivery, attempts, letters, lost, changes, faults>>

-----------------------------------------------------------------------------
(* The agreement, under its row lock.                                          *)

AgreementChanges ==
    /\ delivery = NoDelivery
    /\ changes < MaxChanges
    /\ changes' = changes + 1
    /\ UNCHANGED <<family, today, undecided, reachable, jobs, delivery, attempts, letters, lost, faults>>

\* A qualifying payment, an outage, a hold or its release: the completion date of
\* a monthly or independent agreement moves, disappears or comes back.
\* A legacy agreement's date is its contract.
Reassess ==
    /\ AgreementChanges /\ family # "LEGACY" /\ agreement.status = "ACTIVE"
    /\ \E d \in {0} \cup { f \in Forecasts : f > today } :
         /\ d # agreement.completion
         /\ agreement' = [agreement EXCEPT !.completion = d]

\* mark_contribution_paid_unallocated: first, or after an owner's failed retry
AllocationFails ==
    /\ AgreementChanges /\ family # "INR"
    /\ agreement.unallocated # today
    /\ agreement' = [agreement EXCEPT !.unallocated = today]

AllocationSucceeds ==
    /\ AgreementChanges
    /\ agreement.unallocated # 0
    /\ agreement' = [agreement EXCEPT !.unallocated = 0]

\* complete_redemption, or the completion of a settlement, which every undecided
\* event prevents; only a legacy redemption may be partial and leave the agreement
\* open
Complete ==
    /\ AgreementChanges /\ ~undecided
    /\ agreement.status # "REDEEMED" /\ Len(agreement.settled) < MaxSettlements
    /\ \E s \in {"REDEEMED"} \cup (IF family = "LEGACY" THEN {agreement.status} ELSE {}) :
         agreement' = [agreement EXCEPT
             !.status = s, !.settled = Append(@, [day |-> today, standing |-> TRUE, sound |-> TRUE])]

\* reverse_redemption, or the correction of a settlement, whose closure is still
\* accepted
Reverse ==
    /\ AgreementChanges
    /\ \E n \in DOMAIN agreement.settled :
         /\ agreement.settled[n].standing /\ Evidenced(n)
         /\ agreement' = [agreement EXCEPT
                !.status = IF @ # "REDEEMED" THEN @
                           ELSE IF family = "LEGACY" THEN "ACTIVE" ELSE "CLOSURE_PENDING",
                !.settled[n].standing = FALSE]

\* A closure is accepted, or reopened for review
ReviewClosure ==
    /\ AgreementChanges
    /\ agreement.status # "REDEEMED"
    /\ agreement' = [agreement EXCEPT
           !.status = IF @ = "ACTIVE" THEN "CLOSURE_PENDING" ELSE "ACTIVE"]

\* process_razorpay_webhook writes and links the event of a capture without the
\* agreement's lock, and writes RECEIVED over a decided one when a slow delivery of
\* it fails.  A legacy agreement's notices do not read these events.
CaptureReported ==
    /\ changes < MaxChanges
    /\ changes' = changes + 1
    /\ family # "LEGACY" /\ ~undecided
    /\ undecided' = TRUE
    /\ UNCHANGED <<family, today, agreement, reachable, jobs, delivery, attempts, letters, lost, faults>>

\* The completions, agreed on other rows than there are now
Unsound == [n \in DOMAIN agreement.settled |-> [agreement.settled[n] EXCEPT !.sound = FALSE]]

\* The event is decided, by its own delivery or by an owner.  Only an optional
\* metal agreement's event is, without its lock.  The completion date may move with
\* the payment, and an INR completion was agreed on rows this event is not among,
\* unless it was decided then.
CaptureDecided ==
    /\ changes < MaxChanges
    /\ changes' = changes + 1
    /\ undecided
    /\ undecided' = FALSE
    /\ \/ family = "METAL" /\ UNCHANGED agreement
       \/ /\ delivery = NoDelivery
          /\ \E d \in {agreement.completion} \cup { f \in Forecasts : f > today },
                s \in {agreement.settled} \cup (IF family = "INR" THEN {Unsound} ELSE {}) :
               /\ agreement.status # "ACTIVE" => d = agreement.completion
               /\ agreement' = [agreement EXCEPT !.completion = d, !.settled = s]
    /\ UNCHANGED <<family, today, reachable, jobs, delivery, attempts, letters, lost, faults>>

\* _customer_recipient and get_owner_notification_emails: a login is shut or
\* opened, an address changed; not serialized with a delivery
ReachChanges ==
    /\ changes < MaxChanges
    /\ changes' = changes + 1
    /\ \E a \in Audiences :
         reachable' = IF a \in reachable THEN reachable \ {a} ELSE reachable \cup {a}
    /\ UNCHANGED <<family, today, agreement, undecided, jobs, delivery, attempts, letters, lost, faults>>

\* Midnight, which no lock waits for
NextDay ==
    /\ today < MaxDay
    /\ today' = today + 1
    /\ UNCHANGED <<family, agreement, undecided, reachable, jobs, delivery, attempts, letters, lost, changes, faults>>

RemindersNext ==
    \/ \E j \in Jobs, d \in Days : StartRun(j, d)
    \/ \E j \in Jobs : \E k \in jobs[j].pending : PassOver(j, k) \/ BeginDelivery(j, k)
    \/ MailAccepted
    \/ \E taken \in BOOLEAN : MailFails(taken) \/ CrashInDelivery(taken)
    \/ \E j \in Jobs : EndRun(j)
    \/ Reassess \/ AllocationFails \/ AllocationSucceeds
    \/ Complete \/ Reverse \/ ReviewClosure
    \/ CaptureReported \/ CaptureDecided
    \/ ReachChanges \/ NextDay

RemindersSpec == RemindersInit /\ [][RemindersNext]_reminderVars

-----------------------------------------------------------------------------
(* What the notices promise.                                                   *)

\* However runs overlap and fail, a reminder has at most one accepted attempt and
\* never more attempts than the limit, and the recipient gets a second letter of
\* it only for one whose answer was lost (send_scheme_reminders: "successful
\* deliveries remain recorded and will not be resent"; deliver_scheme_reminder:
\* "this does not promise exactly-once mail").
RemindedOnce ==
    \A k \in DOMAIN letters \cup DOMAIN attempts :
        /\ Cardinality(Accepted(k)) <= 1
        /\ Len(Attempts(k)) <= RetryLimit
        /\ Letters(k) = Cardinality(Accepted(k)) + Lost(k)

\* The event a reminder tells of, read from the agreement alone
Stands(k) ==
    CASE k.kind \in {"UPCOMING_ELIGIBILITY", "UPCOMING_MONTHLY_COMPLETION"} ->
            agreement.status = "ACTIVE" /\ agreement.completion = k.day
      [] k.kind = "ALLOCATION_EXCEPTION" -> agreement.unallocated = k.day
      [] OTHER -> /\ agreement.settled[k.ref].standing
                  /\ agreement.settled[k.ref].day = k.day
                  /\ (family # "LEGACY" => agreement.status = "REDEEMED")

\* No reported capture casts doubt on that event
Certain(k) ==
    CASE k.kind \in {"UPCOMING_ELIGIBILITY", "UPCOMING_MONTHLY_COMPLETION"} ->
            family = "LEGACY" \/ ~undecided
      [] k.kind = "ALLOCATION_EXCEPTION" -> TRUE
      [] OTHER -> Evidenced(k.ref)

\* A delivery takes the lock only for an event that stands and that nothing casts
\* doubt on, and its letter leaves only while the event stands, although its run
\* chose it from an older reading: no eligibility after a closure or a new
\* forecast, no redemption that was reversed, no exception that was resolved or
\* retried since (deliver_scheme_reminder: "Re-evaluate before any email/attempt
\* is created").
RemindsTheTruth ==
    [][/\ delivery' \notin {delivery, NoDelivery} => Stands(delivery'.key) /\ Certain(delivery'.key)
       /\ \A k \in DOMAIN letters' : letters'[k] # Letters(k) => Stands(k)]_reminderVars

=============================================================================
