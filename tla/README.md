# Bluecollar Job: a verification project

Bluecollar Job is a Go backend (PostgreSQL, Redis, an HTTP API and a WhatsApp bot) through which
workers register, verify their identity and apply for jobs, and employers shortlist them, schedule
interviews and notify them. This directory models the parts of it in which several actors change
shared state, and the way it is configured, migrated and deployed, checks the models with TLC on small
instances, and proves with TLAPS, for instances of every size, every safety property that the runs of
these models check: of the notification queue, hiring, verification and its cashback, registration, the
status OTP, the conversation of the bot, the rate limiter, the limit of active jobs and the deployment.

Paths below are relative to the repository; `service/`, `repository/`, `handler/` and `middleware/`
stand for `internal/service/` and so on.

## 1. Inventory

### How the system runs

One or more API processes (`cmd/api/main.go`) serve HTTP and, in the same process, start the
notification workers as goroutines that poll on a ticker. They share one PostgreSQL database and one
Redis. The WhatsApp provider calls the webhook, repeats a delivery that is not answered with success,
and is called to send messages. There is no queue other than the table `notification_events` and no
lock other than PostgreSQL's row locks and one in-process mutex in the rate limiter. Few calls use a
database transaction: direct interviews, offers of slots and the selection of a slot
(`repository/ats_postgres.go`). Everywhere else a service method is a chain of autonomous SQL
statements and Redis commands, and any other request can run between two of them, or the process can
end there.

### Components

| Component | State | Operations | What makes it correct |
|---|---|---|---|
| Notification queue and worker (`service/notification_worker.go`, `repository/notification_postgres.go`) | rows of `notification_events` (status, attempts), the batch in a worker's memory | create an event, claim a batch (`FOR UPDATE SKIP LOCKED`), send with retries, mark Sent or Failed, cancellation | two workers never hold the same event; a bounded number of messages for an event; Sent means delivered; the oldest first; every event is settled |
| Interview scheduling (`service/ats.go`, `repository/ats_postgres.go`) | `applications.status`, `interview_slots` | status update, direct interview, offer of three slots, selection | one winner for a slot, one interview for an offer, a settled slot stays, the answer to a request is true, no request waits for ever |
| Applications (`service/application.go`, `service/ats.go`) | `applications`, and the events queued for them | apply, change the status | one application for a worker and a job; each change is told once and in order |
| Referral and cashback (`service/referral.go`, `repository/referral_postgres.go`) | `referrals.converted_at`, `referral_transactions` | register, convert, create cashback, payout run | no transaction is paid twice; what is told is true; one cashback for a referral; nothing is lost |
| Identity verification (`service/identity_verification.go`) | `worker_identity_verifications`, `users.verification_tier` | start and verify an OTP, upload, skip | one active verification; the tier is that of the last outcome |
| Worker registration (`service/worker.go`, `startNewUserFlow` in `service/whatsapp_bot.go`) | `users`, `referrals` | `POST /workers`, first message to the bot | one row for a number; the referral is the one the code names; no circle |
| Status OTP (`service/status_otp.go`) | two Redis keys of a number, with expiry | generate, verify | rate and retry limits; an OTP is accepted once; the rate limit is lifted |
| Employer jobs (`service/employer.go`, `repository/job_postgres.go`) | `jobs.is_active`, subscriptions | create, activate, deactivate | at most seven active jobs on the Growth tier |
| WhatsApp bot and webhook (`handler/whatsapp.go`, `service/whatsapp_bot.go`, `service/whatsapp_dedupe.go`, `service/conversation_state.go`) | message ids and conversation state in Redis (both expire), the `users` row | receive, deduplicate, one transition for each state | a message has one effect; the conversation is never ahead of the profile; what the bot says is true |
| Rate limiter (`middleware/rate_limit.go`) | a map of windows in memory | allow or refuse, prune | no long burst, no undeserved refusal |
| Migration command (`cmd/migrate/main.go`) | `schema_migrations` and the schema | up, down, baseline | a version that is recorded is there |
| Deployment (`scripts/deploy-staging.sh`, `Dockerfile`, `docker-compose.prod.yml`) | the environment file, the containers | build, migrate, start or replace the services, wait, test | it migrates before it serves, stops at the first failure, and ends |
| Process start and shutdown (`cmd/api/main.go`) | the socket, the requests in progress, the contexts of the workers | load, connect, build, listen, drain, close | what Load accepts can be built; the shutdown ends; no worker is stopped in a way the queue cannot stand |
| Configuration (`internal/config/config.go`) | the environment of a process | load, validate | a value that is needed later is asked for |
| Database schema (`000001_init_schema.up.sql`) | constraints, unique indexes, enums | — | — |
| Authentication, admin, listings, media, Redis connection, middleware, web frontend | none that outlives a call | — | — |

### How they interact

* The bot and the API call the same services: a worker registers, verifies and applies through
  either, so two calls for one worker can overlap although each channel alone would be in turn.
* Identity verification calls `CompleteOnboarding` of the referral service after it wrote the tier.
* Applications, interview scheduling and referral payouts insert rows into `notification_events`
  after the change they tell of; the worker claims them. That insert is the only coupling, and it is
  not in the transaction of the change.
* Interview scheduling and status changes write the same column, `applications.status`.
* The deployment script runs the migration command in a container of the API's image, then replaces the
  API's container, which means a SIGTERM to the old process. The API itself looks at no table when it
  starts, and `/ready` only pings.
* The webhook acknowledges a message by its HTTP status; the deduplication key is set before the
  message is handled and is not removed when the handling fails.

### What is hard

*Interleaving*: two workers, two payout runs, two taps on different slots of one offer, the API and
the bot for one worker. *Read, then write*: `converted_at`, the number of active jobs, the latest
verification row, the users row of the bot. *A failure in the middle*: after the claim, after the
commit and before the event, between INCR and EXPIRE, between the SQL of a migration and its record.
*Expiry*: a Redis key goes away between two
commands. *Repetition*: retries of a send whose answer was lost, repeated deliveries to the webhook.
*Waiting*: two selections that each lock the slot the other wants to cancel. `PROJECT.json` lists
each of these under `hazards` with its line, the properties that cover it, and what they leave open.

## 2. The modules

| Component | Specification | Abstract specification | Model-checking module | Proofs |
|---|---|---|---|---|
| Notification queue and worker | `NotificationQueue` | `NotificationPromise` | `MCNotificationQueue` | `NotificationQueueProofs` |
| Interview scheduling | `InterviewScheduling` | `InterviewPromise` | | |
| Applications | `JobApplications` | | | |
| *both, on one application* | `Hiring` | `InterviewPromise`, `JobApplications` | `MCHiring` | `HiringProofs` |
| Referral and cashback | `ReferralCashback` | | | `WorkerVerificationProofs` |
| Identity verification | `IdentityVerification` | | | |
| *both, of one worker* | `WorkerVerification` | | `MCWorkerVerification` | `WorkerVerificationProofs` |
| Worker registration | `WorkerRegistration` | | `MCWorkerRegistration` | `WorkerRegistrationProofs` |
| Status OTP | `StatusOTP` | | `MCStatusOTP` | `StatusOTPProofs` |
| Employer jobs | `EmployerJobs` | | `MCEmployerJobs` | `LimitProofs` |
| WhatsApp bot and webhook | `WhatsAppOnboarding` | | `MCWhatsAppOnboarding` | `WhatsAppOnboardingProofs` |
| Rate limiter | `RateLimiter` | | `MCRateLimiter` | `LimitProofs` |
| Migration command | `Migration` | | | |
| Configuration | `Configuration` | | | |
| Process start and shutdown | `Backend` | | | |
| *the three, in a deployment* | `Deployment` | | `MCDeployment` | `DeploymentProofs` |

Conventions common to all of them:

* A *step* is one SQL statement, one Redis command, one call of a provider or one critical section.
  Statements in between that only compute are part of the step before or after. The name of an
  action is the Go method it models.
* `pc[x]` is where a request is; other variables indexed by a request are the local variables that
  live across two of its steps. A request that returned is idle again, with its locals reset.
* `MaxFaults` bounds the calls that return an error or die. A failing statement changes nothing and
  the handler takes its error path; a handler that dies stops where it is, with the same effect on
  the database. Where the two differ (a worker's loop, a transaction) they are different actions.
* Rows are numbered in the order of their insertion (`1..MaxRows`), so `created_at` is the number.
* Messages, names and payloads are left out; a decision that depends on them is a choice.
* Every specification with variables that change in steps of its own defines `TypeOK`. It says what the
  state is; the proofs start from it, and the run of the queue checks it. Elsewhere it is not listed as a
  check.

### NotificationQueue

`status`, `attempts` are the columns; `delivered` counts what the provider accepted (the messages on
the worker's phone); `pc`, `batch`, `current`, `attempt`, `ctxDone` are `ProcessOnce` and
`sendWithRetry` of each worker; `locked` are the rows the claim has locked.

| Action | Code |
|---|---|
| `CreateNotificationEvent` | the INSERT of any producer |
| `ClaimSelect`, `ClaimUpdate` | the CTE and the UPDATE of `ClaimPendingNotificationEvents`: one statement, in two steps since `SKIP LOCKED` makes the interleaving visible |
| `StartEvent`, `FinishBatch` | the loop of `ProcessOnce` |
| `SendAccepted`, `SendTemporaryError`, `SendRejected` | one attempt; a temporary error may have been delivered |
| `BackoffElapsed`, `BackoffCancelled` | the `select` between two attempts |
| `Mark` | `MarkNotificationEventSent`, `MarkNotificationEventFailed` |
| `ClaimFails`, `MarkFails`, `Cancel`, `Stop`, `Crash`, `Restart` | database errors, `stopRuntime`, the end of a process and the next one |

`NotificationPromise` is the queue without workers: enqueue, take a set, deliver at most
`MaxAttempts` times while taken, settle once. The refinement mapping is the identity on `status` and
`delivered`; the workers' variables are what the detailed module adds.

### InterviewScheduling

One application, since two share no row. The tables are the committed values; a transaction that has
all its locks writes and commits in one step, which loses nothing because no other transaction can
see or change its rows in between. A status update reads the row back after it has committed; when that
fails the request ends in an error with the change made (`ReadBack` where no event is due,
`NotificationFails` where one is lost with it). `appLock` and `slotLock` are row locks; `todo` is the set of rows
the cancelling UPDATE of a selection has yet to visit, taken when the statement began and examined
again after each wait, as READ COMMITTED does it. `WaitsFor` and `DeadlockAborted` are PostgreSQL's
deadlock detection. `answer` is the reply, `committed` and `notified` remember what a request did.

| Action | Code |
|---|---|
| `UpdateApplicationStatus` | `UpdateApplicationStatus` (`service/ats.go`) |
| `LockApplication`, `CreateDirectInterview`, `CreateInterviewSlots` | the two inserting transactions |
| `LockChosen`, `ConfirmChosen`, `CancelOther`, `SelectInterviewSlot` | the statements of `SelectInterviewSlot` |
| `CreateNotificationEvent`, `NotificationFails` | the insert after the commit |
| `Rollback`, `TransactionFails`, `DeadlockAborted` | the error paths |

`InterviewPromise` is each request in one step: create and confirm, create available ones, select one
and cancel at least the available ones of its own offer.

### ReferralCashback

`converted`, `status`, `referralOf` are columns, `payments` is what the gateway did, `told` what was
queued as news. `GetReferral`, `MarkReferralConverted`, `CreateReferralTransaction`, `NotifyPending`
are the four calls of `CompleteOnboarding`; `ClaimPending`, `StartPayout`, `Payout`, `Mark`,
`NotifyOutcome`, `FinishRun` are `ProcessPendingPayouts`; `OnboardingFails` and `PayoutRunFails` are an
error or a death at any of them. A claim is one step here: the statement has the form of the queue's, and
`NotificationQueue` models how two of them interleave.

### IdentityVerification

The verification rows of one worker and its tier. `StartAadhaarOTP`, `VerifyAadhaarOTP`,
`UploadDocument` and `Skip` read the latest row; `MarkVerified`, `MarkFailed`, `MarkDocumentUploaded`
and `MarkSkipped` write it by its id or insert; `UpdateUserVerificationTier` and `CompleteOnboarding`
follow. The unique index on active rows and the CHECK on skipped rows are guards (`OneActivePerUser`,
`SkippedCheck`); `WriteRefused` is the error when they do not hold.

### WorkerVerification

The verifications of one worker and what they earn its referrer. `CompleteOnboarding` of the identity
service is a call of the referral service on the same goroutine, so a caller of `IdentityVerification`
is also an onboarding call of `ReferralCashback`: it goes into the second when the first has written the
tier (`CompleteOnboarding`, or `NothingDue` when the referral service returns at once) and returns from
both together (`EndReward`, or `RewardFails` with the error of the inner call). `Register` is the end of
the request that creates the worker, so it comes before any verification; `Pay` are the payout runs.

### WhatsAppOnboarding

One worker, several handlers. `Receive` is the SETNX of the message id together with the answer when
it is a duplicate; a message whose payload has no id (`Message \ Identified`) is handled however often it
comes (`handler/whatsapp.go:57`); `GetUser`, `CreateUser`, `GetState` lead to the handler of the state, which writes
the users row (`HandleProfile`, `HandleVerification` ...), then `SetState` and `SendMessage`.
`HandlerFails` is an error at any of these calls: the handler answers with one, so the delivery is
repeated, and the repetition is a duplicate. `StateExpires` is the expiry of the conversation.
`HandleNotVerified` is the gateway's "no" without an error, `HandleHalfVerified` a failure inside the
identity service after its row was written.

### StatusOTP

The two Redis keys and their remaining life. `Incr`, `Expire`, `SetOTP` are `Generate`; `GetOTP`,
`Del`, `TTL`, `Put` are `Verify`. `Tick` lets time pass and keys expire between any two
commands. A call that dies between two commands is `CallFails`.

### JobApplications

`changes[a]` is the sequence of the statuses application `a` had, `events[a]` the events queued for
it. `CreateApplication` (with the unique constraint) and `UpdateApplicationStatus` change the row,
`CreateNotificationEvent` follows in a step of its own, `RequestFails` ends a request between them.

### Hiring

One application from the request that creates it to the last status it is given. `Hiring` extends
`InterviewScheduling` and adds what `JobApplications` has and it lacks: the sequence of committed
statuses (`changes`), the events (`events`) and what each request has yet to queue (`news`). `Apply` is
`CreateApplication`, the first time or again (then the unique constraint makes it an error); `Schedule`
is any step of the ATS service, and `Chronicle` says what that step means for the news: a request
whose status was committed in it has an event to queue, and one that has queued it has none. Nothing
can be scheduled before the row is there, so the first request is the applicant's. `TellsNews` says that
all of this implements `JobApplications`, by a mapping in which a request that is between its commit and
its event is at the application.

### WorkerRegistration

The codes of each users row and the referral rows. `CreateWorker` and `StartNewUserFlow` begin,
`CheckReferredBy` (the API only), `CreateUser` (with the unique phone and the foreign key on the
referrer's code), `GetReferrer`, `GetExisting` and `CreateReferral` are the statements they share.

### EmployerJobs

`is_active` of each job and the employer's tier. `Activate` and `CreateActiveJob` begin a request that
reads the tier (`GetActiveSubscriptionTier`), the number of active jobs (`CountActiveJobs`) and then
writes (`WriteActive`).

### RateLimiter

`buckets` is the map, `key` and `age` a request between the clock it read and the mutex it waits for,
`allowed[n]` how many requests of the watched key were allowed in the last `n` ticks: a history that no
guard reads and that a restart, which begins with an empty map, begins anew. The critical section is one
step (`AllowFirst`, `AllowNext`, `Refuse`) and prunes as the code does; `Restart` empties the map. Times
are ages, so time is unbounded and the state space is not.

### Configuration and Backend

`Configuration` has no variables: a configuration is a record of which values are there, `Accepted` is
`Load` with `Validate`, `Builds` is what `buildWhatsAppSender` and `buildObjectStore` need. `Backend` is
`main`: `phase` is where it is, `listening` whether the goroutine of `ListenAndServe` has its socket,
`open` the requests in progress, `exit` how the process ended.

| Action | Code |
|---|---|
| `Load`, `Connect`, `ConnectFails`, `Build` | `main` up to the handlers; each error is a `log.Fatalf` |
| `Listen`, `Notify` | the goroutine and `signal.Notify`, in either order |
| `Terminate` | SIGTERM: before `Notify` the process is gone, after it the drain begins |
| `Drained`, `DrainTimesOut`, `Close` | `server.Shutdown` with its ten seconds, the deferred calls |

### Migration

`schema` says which tables are there (`older` is the schema of an earlier text of the same version, which
`up` does not change), `recorded` is the row of `schema_migrations`. `IsApplied` is the query, and
`IsAppliedFails` its error, which the code takes for "not applied"; `Execute` is the SQL text in one
transaction, `Record` the INSERT or DELETE after it, `CheckTables` the tables that `baseline` asks for.
`Dies` ends a run between any two. `Checkout` are the runs that find the SQL files: those started in a
checkout of the repository, and not the ones in the image.

### Deployment

`deploy-staging.sh` over `Migration` and `Backend`: `BuildFails` (`git pull` or the build of the images;
that the environment file is missing ends the script in the same way) or `Deploy` (the environment file may
have changed),
`MigrationEnds`, then `docker compose up -d` as `StartServices`, `Recreate` or `LeaveAlone`, `Wait` for
`/ready`, `SmokeTest`; `set -e` is the way from each to `failed`. Operators run the command in a checkout
(`Operate`) and stop the API (`StopAPI`) whenever they like. No container is restarted: the compose file
states no restart policy.

## 3. Runs

Every run uses `CHECK_DEADLOCK FALSE`: with the bounds used up and all requests done a model has no
step left, which is not a deadlock of the program. That requests do not wait on each other for ever is
checked as liveness where they can wait at all (`EveryRequestEnds`).

| Run | Bounds | Shows |
|---|---|---|
| `NotificationQueue` | 2 workers, 3 events, batches of 2, 2 attempts, 1 fault | `ExclusiveClaim`: no event is in two hands. `BoundedDelivery`. `StrandedBounded`: a failure leaves at most a batch Processing in nobody's hands. `ClaimsOldestFirst`: a claim never passes over an older row that it could lock. `KeepsPromise`: refinement. `EveryEventIsTaken`, `EveryEventSettles`: liveness, the second unless there was a fault |
| `Hiring` | the application and 3 more requests of any kind, 6 slots (two offers of 3), statuses `Applied` and `Rejected` set by hand (`Given`: one without an event, one with), 1 fault | `OneWinnerPerSlot`, `OneConfirmedPerOffer`, `SettledSlotsStay`, `AnswerIsTrue` (an error means that nothing was committed, but for one request for each call that failed after a commit), `KeepsPromise` and `TellsNews`: two refinements; `EveryChangeIsToldOnce`, `NewsInOrderInTurn`; `EveryRequestEnds` through lock waits and deadlocks |
| `WorkerVerification` | 1 referred worker, 2 verification rows, 2 calls, 2 payout runs, 3 transactions, batches of 2, 1 fault | `PaidAtMostOnce`, `NoFalseNews`, `CashbackBounded` (at most one transaction for each racing call), `OutcomeIsRewarded` (an outcome without its cashback, or a batch of payouts that is never settled, is the price of one fault each) and `SkippedIsFinalForOTP` for all interleavings; `ActiveIsLatestInTurn`, `TierMatchesOutcomeInTurn`, `OneCashbackInTurn` for calls in turn |
| `WhatsAppOnboarding` | 1 message at a time, which has an id (it is used again once the provider forgot it), 2 handlers, 1 fault, a gateway that may refuse | `ConversationBehindProfile`, `TierAsToldUnlessRefused`, `EveryMessageIsAcknowledged` |
| `StatusOTP` | 2 calls, 2 OTPs, both lives 2 ticks, retry limit 2, rate limit 1, 1 fault | `RateLimitLifts`, `RetryLimitHoldsInTurn`, `AcceptedOnceInTurn` |
| `RateLimiter` | 2 keys, 2 requests, limit 2, window 3 ticks, delay up to 3 ticks | `BurstBounded`: less than two limits and the waiting requests in any window; `RefusalIsDeserved` |
| `WorkerRegistration` | 3 numbers, of which two generate the same code, 3 codes, 2 requests, 1 fault | `ReferralMatchesCode`, `NoReferralCircle` |
| `EmployerJobs` | 5 jobs, 3 requests, limit 2 | `OvershootBounded`: n requests at a time exceed the limit by less than n |
| `Deployment` | the script and one operator, 2 HTTP requests, 5 databases (fresh, with and without a record, of the current and an earlier schema), 5 configurations (complete, and with a value missing), 2 faults | `RecordIsTrue`: only a down together with a race or a failure leaves a record without a schema. `ServingMeansSchema`, `AcceptedConfigStarts`. `EveryDeploymentEnds`: liveness, with processes that crash, drain and are replaced |
| `CashbackTwice` | 1 referral, 2 calls, no fault | violated: two verifications that finish together create two cashbacks |
| `OnboardingMisled` | 1 message, 1 handler, no fault | violated: the bot tells of a Low tier after the gateway said no |
| `FreshDeployFails` | a fresh database, a complete configuration, no fault, nobody else | violated: the documented deployment fails at the migration |

Why the bounds are enough: two actors are what a race needs, and a third is added where the effect
could add up (`EmployerJobs`) or where two of one kind meet one of another (`Hiring`: after the
application two offers and a selection, an offer and two selections, a selection and two statuses).
`WorkerVerification` has one referral because two share no row but in a payout's batch, and the proof
covers any number of them. `NotificationQueue`
has one event more than a batch, so that a claim leaves something behind and order matters. Limits are
2 where the code has 3, 5, 7 or more, so that "below", "at" and "above" all occur; times are the
smallest for which a key can expire before, between and after two commands. The five configurations of
`Deployment` are the ones on which some check or builder differs; `base` values have no later use. One or two faults are
enough to separate any two consecutive statements, and two let a second failure hit the recovery from
the first. Symmetry is used where no liveness is checked and the actors are interchangeable
(`WorkerRegistration` permutes numbers only together with their codes).

Some properties are stated of calls *in turn*. They are false when calls for the same worker overlap,
and no document promises anything for that case, so what is worth knowing is that failures, expiry and
the order of calls alone cannot break them. The modules `MCStatusOTP`, `MCWorkerVerification` and `MCHiring`
add a history variable, `overlapped`, that remembers an overlap, and
`MCWhatsAppOnboarding` one, `refused`, for a gateway that said no. They are set by any step and read by
none, so they change no behaviour. `Migration` has two such variables, `lowered` and `overlapped`, for
`RecordIsTrue`.

### Fairness

* `NotificationQueue`: weak fairness of `Progress(w)`, the steps of a running worker. A worker is a
  goroutine that polls on a ticker; its SQL and HTTP calls return, with an error if not otherwise.
  Nothing is assumed of producers, faults, or the outcome of a send. `Restart` is part of `Progress`: a
  backend that ended is started again at some time. That is an assumption about its operators (the
  compose files state no restart policy); without it an event queued after the last backend died stays
  Pending, and no code could do anything about it.
* `Hiring`: weak fairness of the steps of a request that has been accepted; a lock wait
  ends when the lock is released, and PostgreSQL aborts one transaction of a deadlock.
* `WhatsAppOnboarding`: weak fairness of a handler, and strong fairness of the receipt of a message
  that is not acknowledged, because the provider repeats it until it is and requests are served.
* `StatusOTP`: weak fairness of the commands of a call and of the passing of time.
* `Deployment`: weak fairness of the script's steps, of the migration it started and of `main`: a shell
  script goes on, the command has a 30-second context, and `Shutdown` a deadline of ten seconds. Nothing
  is assumed of operators, HTTP requests or faults.

## 4. What is proved

### The notification queue

`NotificationQueueProofs` proves, for every number of workers and events, every batch size, number of
attempts and number of faults, from `QueueAssumption` alone (`MaxEvents` and `MaxFaults` natural,
`BatchSize` and `MaxAttempts` positive, `NoEvent` not an event):

| Theorem | Statement |
|---|---|
| `Invariance` | `Spec => []IInv`, the inductive invariant |
| `TypeCorrect` | `Spec => []TypeOK` |
| `Exclusive` | `Spec => []ExclusiveClaim` |
| `Bounded` | `Spec => []BoundedDelivery` |
| `Truthful` | `Spec => []SentMeansDelivered` |
| `NoSecondClaim` | `Spec => []ClaimedOnce` |
| `Refinement` | `Spec => KeepsPromise`, that is, the queue implements `NotificationPromise` |
| `OldestFirst` | `Spec => ClaimsOldestFirst` |
| `StrandedPaidFor` | `Spec => []StrandedBounded`, for finitely many workers |
| `StrandedForEver`, `SettledForEver` | `Spec => StrandedIsFinal`, `Spec => SettledIsFinal` |

`SentMeansDelivered` and `ClaimedOnce` follow from the refinement too, and are parts of what the other
properties need; no run lists them.

The argument. `ExclusiveClaim` is not inductive: it speaks of what workers hold in memory, and says
nothing of the rows a claim has locked but not yet marked, nor that the row of an event in hand is not
claimable. `IInv` adds:

* `LocksArePending`: a locked row is Pending, so the UPDATE of a claim finds what its CTE chose;
* `HandsAreProcessing`: an event in a worker's hand is in the state Processing, so no claim selects it;
* `OneHolder`: two workers never hold the same event, where holding means *locked or in hand*; this is
  what `SKIP LOCKED` buys;
* `DeliveredSoFar`: for each worker, how often the event it is at was delivered in terms of the
  attempt it is at, and that events not yet started were not delivered at all. The bound on deliveries
  and the truth of Sent both follow from it;
* `ClaimedOnce`: an event's `attempts` column is 1 from its claim on.

The lemma `Inductive` has one step for each action and one below it for each conjunct. `Refinement`
uses `IInv` in the step lemma `StepKeepsPromise`, which maps each action to a step of the promise or to
a stutter: a claim to `Take` of the batch, an accepted send to `Deliver`, a mark to `SettleSent` or
`SettleFailed`, and all else to a stutter.

`OldestFirst` is about one step, the claim, in every state of `IInv`. It rests on `OldestAreOldest`: what
is older than a member of `OldestOf(S)` and in `S` has fewer elders in `S` than that member has, so it is
in `OldestOf(S)` too. An older pending event that is not claimable is locked by another worker.

The last three theorems say what a fault costs, which no document does; they take over where the liveness
property `EveryEventSettles` ends, at the first fault. An event is *stranded* when its row is
Processing and no worker has it in hand. `StrandedForEver`: it stays so, and is not delivered either.
`StrandedPaidFor`: at most `BatchSize * faults` events are stranded, so none without a fault. This is not
inductive, because a cancelled worker is one fault and drops its batch later, in a call that fails without
another: `Costs` adds a batch for each worker that is cancelled and still at work (`Doomed`), and
bounds what a worker holds by a batch. For that `AtMostABatch` shows that `OldestOf` keeps to its LIMIT: how
many rows precede a row is a different number below `BatchSize` for every row it returns. Each step then
is one of the four in `BalanceKept`. `SettledForEver`: no late worker changes a row that is Sent or
Failed, nor sends its event again.

### Interview scheduling and the news of it

`HiringProofs`, for every set of requests (finite in the composition), any number of slots, offers of any
size, any set of statuses given by hand and every number of faults, from `SchedulingAssumption` and
`HiringAssumption`:

| Theorem | Statement |
|---|---|
| `SchedulingInvariance`, `SchedulingKeepsPromise` | `Spec => []IInv`, `Spec => KeepsPromise`, of the ATS transactions alone |
| `HiringInvariance` | `HiringSpec => []IInv` |
| `OneWinner`, `OneConfirmed`, `TrueAnswers` | `HiringSpec => []OneWinnerPerSlot`, `[]OneConfirmedPerOffer`, `[]AnswerIsTrue` |
| `SettledStay` | `HiringSpec => SettledSlotsStay` |
| `HiringKeepsPromise`, `HiringTellsNews` | `HiringSpec => KeepsPromise`, `HiringSpec => TellsNews` |
| `ChangesToldOnce` | `HiringSpec => []EveryChangeIsToldOnce` |
| `NewsInOrder` | `MCSpec => []NewsInOrderInTurn` |

None of the properties is inductive, because each of them speaks of what is committed, and it is decided
before, by what a transaction has read. `IInv` says what the row locks do for it:

* `LocksFit`: a lock has an owner, and the owner is in the transaction that took it;
* `SelectionsFit`: what a selection has read is still so when it commits. The slot it has chosen and those
  it will cancel are locked by it and Available; and each Available slot of the same offer is among those
  it will cancel or those its UPDATE has yet to visit. This is where the proof needs that an UPDATE
  examines a row again after it has waited for it;
* `OffersFit`: when a slot of an offer is Confirmed the others are Cancelled, and slots belong to a request
  that has committed, so no offer grows while it is selected from;
* `WinnersFit`: the slot of a committed selection stays Confirmed, so a second selection that reads it
  does not find it Available;
* `AnswersFit`: commit, event and answer come in this order in each request.

The two refinements are proved step by step. To `InterviewPromise` a commit is the step of that name and all
else a stutter. To `JobApplications` a step of the composition is a change of the row (`IsChanged`), an
event that is queued (`IsTold`), a request that ends in between (`IsLost`) or a stutter
(`StepsOfNews`), each under `NewsFit`: the length of `changes` is the number of committed requests, and a
request has news to queue exactly while it is between its commit and its event. `ChangesToldOnce` counts
positions: for each kind of event, those due are those queued and those that wait
(`AllTold`), as long as no commit has ended in an error. `NewsInOrder` has an increasing map from
the events to the changes, and the one event that waits is due later than all of them
(`OrderFits`); two that wait at a time would be an overlap.

### Worker registration

`WorkerRegistrationProofs`, for every set of numbers and codes, every assignment of generated codes to
numbers (`RegistrationAssumption` does not say that they differ), any number of requests and faults:

| Theorem | Statement |
|---|---|
| `RegistrationInvariance` | `Spec => []IInv` |
| `ReferralTrue` | `Spec => []ReferralMatchesCode` |
| `NoCircle` | `Spec => []NoReferralCircle` |

A request holds a number, a code and a referrer between its statements, while others insert workers. `IInv`
says that they are the ones in the row it has inserted (`RequestsFit`), that nobody else is about to register
that row's referral (`OneRegisters`: the number is unique), and that a code some row gives as its
referrer's has an owner (`CodesFit`: the foreign key). With that, `NoReferralCircle` is inductive in
the form in which it is stated: in every nonempty set of numbers there is one whose referrer is not in the
set. A new worker is in nobody's way, because nobody has given its code before; of a set with it, the
worker found for the rest of the set will do, and of the set of it alone, itself.

### Status OTP

`StatusOTPProofs`, for any number of calls, OTPs and faults, any lives of the keys and any limits, from
`OTPAssumption`:

| Theorem | Statement |
|---|---|
| `OTPInvariance` | `Spec => []IInv` |
| `RetryLimitInTurn` | `MCSpec => []RetryLimitHoldsInTurn` |
| `AcceptedInTurn` | `MCSpec => []AcceptedOnceInTurn` |

Two invariants. `IInv` holds of calls that overlap too: a call between its GET and its last command has an
OTP whose attempts were below the limit. `InTurn` holds while `overlapped` is false: one call is half-way at
most; the attempts of an OTP, in the key or in the hands of that call, are the answers that were refused;
and an OTP that was accepted is in neither. A key that expires between two commands takes an OTP away
or, if the call stores it again, leaves it with its count, so expiry does not disturb the invariant.

### Referral and cashback

The first part of `WorkerVerificationProofs`, about `ReferralCashback` alone, for every number of
referrals, calls, payout runs, transactions and faults and every batch size, from `CashbackAssumption` (the bounds natural, `BatchSize` positive, finitely many
calls at a time, `None` neither a referral nor a transaction):

| Theorem | Statement |
|---|---|
| `CashbackInvariance`, `CashbackTypes` | `Spec => []IInv`, `Spec => []TypeOK` |
| `PaidOnce` | `Spec => []PaidAtMostOnce` |
| `SettledTruly` | `Spec => []SettledIsTrue` |
| `TrueNews` | `Spec => []NoFalseNews` |
| `LossIsBounded` | `Spec => []LossBounded` |
| `RaceIsBounded` | `Spec => []CashbackBounded` |

`IInv` is the invariant of the queue in other words: a transaction in a run's hands is Processing
(`HandsAreProcessing`), has one holder (`OneHolder`), and what was paid of it follows from where its run
is (`PaidSoFar`). Two counting arguments are made on top of it. `Accounts` bounds what a run has in hand
by the batch size, so a failure strands a batch at most; each step either loses nothing
(`NothingLost`) or is a failure that pays for what it loses (`Priced`); `LossBounded` is what follows. `OneEach` counts, for each
referral, its transactions together with the calls that will insert one: before the conversion there is
no transaction and there are at most as many calls as can run at a time; afterwards no call begins, and
each that inserts is no longer about to.

### Worker verification

The second part of `WorkerVerificationProofs`, for any number of calls, verification rows, payout runs
and faults, from
`CashbackAssumption` and `VerificationAssumption`:

| Theorem | Statement |
|---|---|
| `WorkerInvariance` | `WorkerSpec => [](IInv /\ Accounts /\ OneEach)` |
| `WorkerPaidOnce`, `WorkerTrueNews` | `WorkerSpec => []PaidAtMostOnce`, `WorkerSpec => []NoFalseNews` |
| `WorkerRaceIsBounded` | `WorkerSpec => []CashbackBounded` |
| `SkippedStaysSkipped` | `WorkerSpec => SkippedIsFinalForOTP` |
| `WorkerOutcomeIsRewarded` | `WorkerSpec => []OutcomeIsRewarded` |
| `ActiveLatest`, `TierMatches`, `CashbackOnce` | `MCSpec => []ActiveIsLatestInTurn`, `[]TierMatchesOutcomeInTurn`, `[]OneCashbackInTurn` |

The invariants of the first part carry over along a projection (`StepsProject`): to the
referral service each step of the composition is a step of its own, a stutter, or a verification that
fails before its onboarding. Only the last is new. It leaves the referral service's tables and calls
alone and raises `faults`, so it keeps the invariants (`FailureKeeps`), the bound on the losses by the
lemma that prices a failure. `SkippedStaysSkipped` is about the rows: a row is skipped in both of its
columns or in none (`SkippedRows`), so the table's check refuses every write that would keep the method
and change the status, whichever row the call has read and however long ago (`PutKeeps`).

`WorkerOutcomeIsRewarded` strengthens `LossBounded`: it counts as lost also the referral of a worker whose
outcome was written by a call that failed before `CompleteOnboarding` (`Unreached`). Its invariant is
`LapseIsPaid`: when there is an outcome, no conversion and no call that is about to see to it, the failures
so far could have cost one cashback or batch more than they did (`Reserve`). A call that wrote an outcome
leaves only behind a converted referral or by a failure; that failure costs nothing else, so it is in reserve
(`Raised`), and every later step of the referral service keeps what is in reserve, because each failure pays
for its own loss (`AccountsKept`).

The three properties of calls in turn share `InTurn`: one call at a time (`OneCall`), rows inserted without
gaps (`RowsInOrder`), what a call has read still true (`ReadInTurn`), the tier as the last outcome says or
about to be (`TierInTurn`), a cashback only after the conversion (`CashbackInTurn`). The history variable
sees every step that another call could make in between, which `Alone` turns into "the others are idle".
That there is a last row, and a last row with an outcome, is shown from the well-foundedness of the
natural numbers, in the form of `WellFoundedInduction` that speaks of sets.

### The conversation of the bot

`WhatsAppOnboardingProofs`, for any number of handlers and faults and either kind of gateway, from
`ConversationAssumption`:

| Theorem | Statement |
|---|---|
| `DeliveredOnce` | `Spec => []HandledOnce`, for any number of messages |
| `AnswersStay` | `Spec => []AnswersCarried`, for any number of messages |
| `BehindProfile` | `MCSpec /\ OneAtATime => []ConversationBehindProfile` |
| `TierTold` | `MCSpec /\ OneAtATime => []TierAsToldUnlessRefused` |

`OneAtATime` says that there is at most one `Message` and it has an id, that is, the worker writes one message
at a time and waits for the bot, or that there is one handler; the provider may repeat it as often and deliver it to as many handlers as it
likes, and the next message may come as soon as the provider has forgotten the last one. It
is a hypothesis and not an assumption of the module because `DeliveredOnce` and `AnswersStay` do without it. With two
messages at a time the handler that read the users row first writes back old columns
(`service/whatsapp_bot.go:94`), and `ConversationBehindProfile` is false; so it is with a message without
an id that is delivered twice at a time. `AnswersCarried` is what is left of
it: behind every question there is a users row, and the state's data has the name or the target role that
the next write of the row takes from it, so an answer that an older request has overwritten is written again
with the next one. `HandledOnce` is what the SETNX buys: the
message of a busy handler, if it has an id, has its key and is in no other handler. The invariant adds that a handler
knows the users row as it is and that the state it will set asks for nothing the row has not got
(`HandlersFit`, `Behind`), and that the tier is the one told or about to be told (`TierFits`).

### The rate limiter

The first part of `LimitProofs`, for any keys, any finite number of requests at a time, every limit, window
and longest wait, from `LimiterAssumption` (the limit and the window are positive):

| Theorem | Statement |
|---|---|
| `LimiterInvariance` | `LimiterSpec => []LimiterInv` |
| `BurstsAreBounded` | `LimiterSpec => []BurstBounded` |
| `RefusalsAreDeserved` | `LimiterSpec => []RefusalIsDeserved` |

`BurstBounded` is about one span of time, and a window can begin anywhere in it, so the invariant speaks
of every span: `BurstsFit` bounds what was allowed in the last `n` ticks for each `n` up to a window. It
divides those requests by the clock they read. The *late* ones read it before the span; they were in the
critical section or waited for it when the span began, so those that were allowed and those that
still wait are together at most `Cardinality(Request)`. The *timely* ones read it in the span, and
`Timely(n)` counts what the map can have allowed of them: none if the window in the map was over
before; if it began before the span, all that it has counted but the first, which read the clock when it
began; if it began in the span, what it has counted and a full window before it, again without the
first of the older one. A third window does not fit. At `n = Window` that is less than two limits and the
requests at a time. `WindowFits` is the other half: what a window has counted was allowed since it
began, so a request that finds it full is refused for requests no older than a window and its
own wait (`RefusalsAreDeserved`). Each kind of step has a lemma that says what it does to the bounds:
the first request of a window (`FirstAllowed`), a further one (`NextAllowed`), none (`NothingAllowed`), and
a tick (`TimePasses`), which turns every span of `n` ticks into one of `n + 1`.

### Employer jobs

The second part of `LimitProofs` proves `Overshoot`, `Spec => []OvershootBounded`, for every number of jobs and
requests and every limit, from `JobsAssumption` (finitely many requests at a time, a positive limit). The
property counts the jobs that are being written together with the active ones, which makes it nearly
inductive: only a request that has just counted less than the limit adds to that union, and then each
of the requests adds at most one (`Additions`). `TypeOK` and `RequestsHaveJobs` complete it.

### Deployment

`DeploymentProofs`, for every set of migration runs, operators, HTTP requests, databases that satisfy
`MigrationAssumption` (a record has a schema to begin with) and configurations that satisfy
`DeploymentAssumption` (the script's run finds no SQL file), and every number of faults:

| Theorem | Statement |
|---|---|
| `DeploymentInvariance` | `DeploymentSpec => []IInv` |
| `MigrationTypes` | `DeploymentSpec => []TypeOK` |
| `RecordTrue` | `DeploymentSpec => []RecordIsTrue` |
| `ServesASchema` | `DeploymentSpec => []ServingMeansSchema` |
| `ConfigStarts` | `DeploymentSpec => []AcceptedConfigStarts` |
| `FreshNeverServes` | with `Checkout = {}` and no database but `<<"none", FALSE>>`: `DeploymentSpec =>` always no script is complete and no API is started or listens |

`IInv` has three parts. `MigrationInv` is about the command alone: a run that executes SQL was not asked
for a baseline (`SQLRuns`); unless somebody has run down, what is recorded or about to be is there
(`UpOnly`); without an overlap one run is under way at a time (`OneAtATime`); and if moreover none has
failed, a record without a schema is about to be deleted by the down that dropped it (`AboutToAgree`).
Without a down a schema that is there stays, which `SchemaStays` says of every step. `ScriptKnows` carries the truth from the migration to the services: in
the steps after a migration that succeeded, and whenever the API is past its start, the schema is there
or somebody ran down. It is needed because `ServingMeansSchema` speaks of a process that was started
long ago, by an earlier deployment. `Configured` does the same for the configuration: the process was
started with one that `Deploy` had accepted. The steps are proved for one component at a time
(`MigrationKept`, `ScriptKept`, `APIKept`, `RunKept` ...), each using that the other leaves its variables
alone.

`FreshNeverServes` has the hypotheses of the run `FreshDeployFails`, for every configuration, any number
of requests and faults, and any number of repetitions of the script. Its own invariant, `Fresh`, says that
the schema and its record are missing, that no run of the command gets past its first check
(`RunsInVain`), and that the script waits for a run that has not decided yet or has ended in an error, so
that `MigrationEnds` leads to `failed` only. That no API is past its start is then `ScriptKnows`: nobody
runs down, and there is no schema.

### Only model-checked

The liveness of every run (`EveryEventSettles`, `EveryEventIsTaken`, `EveryRequestEnds`,
`EveryMessageIsAcknowledged`, `RateLimitLifts`, `EveryDeploymentEnds`): fairness and ENABLED are beyond
the prover. Every invariant and every action property of a passing run is a theorem.

## 5. Where the code and its documents disagree

With a run that shows it:

* `CashbackTwice` (`service/referral.go:88`): `CompleteOnboarding` reads `converted_at` and sets it in
  another statement that does not fail when it was already set, so two calls that overlap create two
  cashbacks of one referral; `docs_api.md:654` speaks of one. `CashbackBounded` is what is left of it.
* `OnboardingMisled` (`service/whatsapp_bot.go:282`): `VerifyAadhaarOTP` returns no error when the
  gateway says no, and `handleAadhaarOTP` looks at the error only: the worker is told "Your risk tier is
  now Low" (`whatsapp_bot.go:446`) and is not. The mock gateway never says no; the interface allows it.
* `FreshDeployFails` (`scripts/deploy-staging.sh:20`): the image has the two programs and no SQL file
  (`Dockerfile:17-18`), and the command reads the file from its working directory
  (`cmd/migrate/main.go:155-167`), so the step of `docs_staging_vps.md:130` succeeds only on a database
  whose record is there already. `FreshNeverServes` proves that neither a repetition nor another
  configuration helps.

Met while modelling, visible in the models, without a run of their own:

* After a fault an event stays Processing for ever: no query selects such a row. `docs_api.md:387` says
  each claimed event is marked Sent or Failed. `EveryEventSettles` has "unless there was a fault";
  `StrandedPaidFor` and `StrandedForEver` say how many events that can be, and that nothing makes it good.
* A slot offered while a selection is under way stays Available, where `docs_api.md:339` has the other
  slots Cancelled: the cancelling UPDATE works on an older snapshot.
* A status change is committed before its event is inserted, so a failure between the two leaves a
  change nobody is told of (`docs_api.md:274`, `docs_api.md:787` for applications).
* A failure after `MarkReferralConverted` loses the cashback of `docs_api.md:654`: every later call
  returns early. One before it leaves the conversion to the next verification, if there is one. A payout run
  that dies leaves its transactions Processing. `OutcomeIsRewarded` counts all three.
* Two overlapping verifications can leave the tier of the earlier one, and an active row behind a
  skipped one, after which every upload runs into the unique index.
* A wrong answer whose OTP expired in the meantime stores it again for a full lifetime
  (`docs_production.md:157`).
* A call that dies between INCR and EXPIRE leaves a rate counter without expiry; once it is above the
  limit, the number is refused for ever (`docs_production.md:159`).
* Activations at the same time exceed the Growth limit (`README.md:288`), by how much `OvershootBounded`
  says.
* A message whose handling failed is acknowledged as a duplicate when it is repeated, and so is lost
  (`docs_whatsapp_meta.md:108`).
* The menu leads to a consent while a verification is active, which can only fail (`docs_api.md:629`).
* A worker whose referral insert failed has none and gets none later.
* `docs_production.md:51` speaks of `MIGRATIONS_DIR`, which no code reads, and `docs_production.md:53` of
  the required tables, of which `baseline` does not ask for `worker_identity_verifications`, nor for any
  column: it records an earlier text of the version as applied.
* A crash between the SQL of a migration and its record leaves a database on which `up` fails until
  somebody runs `baseline`; a `down` that dies or races can leave a record without a schema, and every
  later `up` answers "already applied".
* With uploads off, a configuration without keys for its object store is accepted
  (`internal/config/config.go:214`) and ends the API after the migration.
* A second application for a job is answered with 500: the error of the unique constraint is mapped to a
  conflict only where an employer registers (`repository/employer_postgres.go:57`).
* `PATCH /employer/jobs/:id` takes `is_active` and checks the limit for it, but `UpdateJob`
  (`repository/job_postgres.go:142-158`) does not write that column, and clears `published_at` and
  `expires_at`.
* The generated referral code is the last ten digits of the number; of two numbers that share them the
  second cannot register (`docs_api.md:24`).

## 6. Not modelled

* The `status` command (it only reads) and `rollback-staging.sh` (it starts an older image as a deployment
  does, without a migration and with one probe).
* The profile update of the API, employer accounts and job texts: one row, one statement.
* Authentication (a stateless check), the admin listings and all queries that only read.
* Media download and object storage: a download and an upload whose failure is a fault of the handler.
* The parsing of configuration values, the Redis connection (nobody asks for it at the start), the other
  middleware and the web frontend.
* A container that somebody starts by hand before the migration (`docs_production.md:58-59`), or
  `rollback-staging.sh` on a database that was never migrated: `ServingMeansSchema` is about deployments by
  the script.
* The parsing of a webhook payload: the handler takes the first message of a batch and acknowledges all.
* Indexes and tables that no modelled statement runs into. `MarkOTPVerificationPending` and
  `PostgresApplicationRepository.UpdateApplicationStatus` have no caller.

## 7. Plan

The order is that of the damage a mistake does: messages and interviews first, then money, then
identity, then the limits, then the way the system is put into service. The modules of section 2 are
that plan's first parts, the compositions `Hiring`, `WorkerVerification` and `Deployment` included. What
is left:

1. *Composition.* `JobApplications` with `NotificationQueue`: in which order do two events of one
   application reach the phone when two workers send them?
2. *WhatsApp.* Two messages of a worker at a time as a run, and for the tier, beyond `AnswersStay`, what is
   left of `TierAsToldUnlessRefused`.
