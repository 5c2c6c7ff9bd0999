# Formal models of the e-mail security gateway

This directory holds TLA+ models of the gateway in this repository, the TLC
configurations that check them on small instances, and proofs, checked by
TLAPS, of the theorems that hold for every value of the constants.
Paths below are relative to the repository's `src/`.

## 1. The system

A mail provider (SendGrid, Mailgun, SES, Postmark, Microsoft 365, Google) posts
each inbound message to a webhook of one FastAPI process. The process analyses
the message, decides to *forward* it, to *warn and strip* or to *quarantine*
it, acts on the decision, writes an audit record and answers 200. Anything but
a 200 makes the provider post again, for a day to several days
(`reliability/inbound_failure_policy.py`). Administrators release or reject
what is held. Everything inside the process is `asyncio`: coroutines interleave
where they await and nowhere else; file writes run in threads.

### Inventory

| Component | State it keeps | Operations | What is hard | What makes it correct |
|---|---|---|---|---|
| `webhook_receiver/app.py` pipeline | dedupe keys (in the key-value store), raw mail log | `process_message` behind six webhooks | retries that overlap a request; failure or crash between any two steps | one processing per message at a time; nothing acknowledged and forgotten; every 200 tells the truth |
| `webhook_receiver/app.py` quarantine administration | none of its own | list, get, release, reject, bulk-action | two administrators on one item, relay failing after the status is written | what is listed as pending was not sent; a release arrives |
| `delivery/pipeline.py` | none | `deliver` | errors of three collaborators, dry run, tag-only | the reported outcome happened |
| `delivery/quarantine.py` | two files per item, an asyncio lock | store, release, reject, get, list | torn files, crash between files, readers without a lock | a record always has its message; a decision is never undone |
| `delivery/relay.py` | none | `send` with retries | a connection lost after the message was taken | bounded attempts; failure is never reported as success |
| `resilience/` | the breaker's state, count and clock | `call`, `with_retry` | many calls in flight while the state changes | state agrees with outcomes; recovery |
| `content_analysis/reputation.py`, `caching.py`, `attachment_analysis/reputation.py` | cached verdicts | look up a URL, a domain's age, a hash | shared breaker and cache, outages | lookups end; verdicts degrade to unknown |
| `storage/` | keys with expiry | get, set, set_if_not_exists, incr, delete | Redis commands are separate steps and can be lost | atomic claim; counters that end |
| `security/rate_limit.py` | one counter per address | `check` | window boundaries, two limiters on one store | bound on calls admitted, no client locked out for good |
| `decision_engine/` | domain credit, campaign entries (in memory) | decide, feedback, clustering | long histories of feedback; precedence of lists, weights, VIPs | malware is not waved through; the record explains the action |
| `scalability/message_queue.py` | queue, `_pending`, dead letters, workers | enqueue, ack, nack, start, stop | workers waiting on their own queue, cancellation | a task is in one place and ends |
| `audit/logger.py` | the audit file, a lock | record, record_admin_action | a failing append | one record per decision before the 200 |
| `webhook_receiver/app.py` handlers, `webhook_receiver/parsers` | none | six posts become a message and a hash | checks, parts that get lost, notifications without a mail | what was sent is what is scanned and what goes on |
| `security/bounce_detector.py` | none | is_bounce_or_ndr | text patterns | (a constant of the models) |
| `delivery/smtp_receiver.py` | one SMTP session | commands, DATA | data in pieces, oversize in mid-message, tasks that outlive their envelope | an answer is about the mail it answers |
| `delivery/auto_zap.py`, `user_reports.py`, mailbox clients | delivered records, reports | register, zap, report | overlapping removals, answers lost after the deletion | removed means gone from every mailbox |
| `multi_tenancy/` | tenants, domain map, per-tenant stores and keys | provision, update, deprovision, purge, resolve | stale caches, a domain claimed twice | a domain resolves to a tenant that lists it; stored mail stays readable |
| `identity/` | accounts, revoked tokens, MFA secrets | login, refresh, revoke, create, delete | tokens that outlive accounts, refresh within a second, handlers that await their body | a session stems from a login; the rights of an administrator go back to the first account or to claims |
| `compliance/` | retention policy, legal holds | purge, hold, erase | a file rewritten against concurrent appends, crashes while it is empty | evidence and held mail are kept |
| `reliability/` | versions of a secret, backups | rotate, accept, back up, restore | grace periods, a crash while an archive is rewritten | a key is valid exactly as promised; backups restore |
| `scalability/queue.py` | another queue and its workers | enqueue, work, stop | items in the hands of a cancelled worker | each item is in one place |
| `auth_checker/` | the history of senders | one verdict per message | limits on lookups and nesting, alignment, a history a restart forgets | lookups are bounded; a spoofed sender costs points |
| `content_analysis/` | pairs of correspondents | one score per message | messages analysed at once; HTML that hides text | what is hidden, linked or new is in the score |
| `attachment_analysis/` | none | one score per message | archives, caps, locks, a scanner that fails | no points means looked at |
| `observability/`, `threat_intel/` | counters, quotas, indicator maps | observe, ingest, match | | (no message's path depends on them) |
| digest, DLP, rewriting, UI, configuration, deployment, tools | none | | text, HTML, infrastructure | not modelled |

`webhook_receiver/app.py` builds one instance of each of these at import and
passes them to `process_message` and the handlers; components meet only there.
Neither queue nor `smtp_receiver.py` is on the application's request path: the
queues are never given a message, the receiver is a component of its own. The
engine of removals is there, but no delivery is ever registered with it.

The file `PROJECT.json` lists the components with their status and every
hazard at its line.

## 2. Modules

```
Custody <--refines-- QuarantineStore --+
                                       +--EXTENDS-- Gateway --- MCGateway
                     SMTPRelay --------+
CircuitBreaker --EXTENDS-- ProviderLookup
RateLimiter        DecisionEngine --- MCDecisionEngine
TaskLedger <--refines-- MessageQueue, AsyncWorkerPool
Identity, Tenancy --EXTENDS-- AdminPlane --- MCAdminPlane
Intake, SPF, AuthChecks, Attachments, ContentChecks --- MCAnalysis
Removal, Compliance, KeyRotation, SMTPReceiver, AsyncWorkerPool --- MCSideSystems
```

MCAnalysis and MCSideSystems put modules side by side that share no variable:
each behaviour runs one of them (`part`), so one run of TLC checks them all
without multiplying their states.

The proofs are kept apart from the models, in eight modules, one of which holds
what the others share:

| Module | Proves about |
|---|---|
| `FoldLemmas` | folds, sums and recursive functions over naturals (used by WebhookProofs, AnalysisProofs and DecisionEngineProofs) |
| `GatewayProofs` | QuarantineStore, Custody, SMTPRelay, Gateway |
| `WebhookProofs` | RateLimiter, Intake |
| `TransportProofs` | MessageQueue, AsyncWorkerPool, TaskLedger, SMTPReceiver |
| `AnalysisProofs` | SPF, AuthChecks, Attachments, ContentChecks, CircuitBreaker, ProviderLookup |
| `DecisionEngineProofs` | DecisionEngine |
| `AdminPlaneProofs` | Identity, Tenancy, AdminPlane |
| `SideSystemsProofs` | Removal, Compliance, KeyRotation |

### QuarantineStore and Custody (`delivery/quarantine.py`)

`eml[i]` and `meta[i]` are the states of the two files of item `i`, `lock` the
asyncio lock, `op[t]` the call coroutine `t` is making. `store` is the actions
`StoreCall`, `StoreLocked`, `EmlWritten`, `MetaOpened`, `MetaWritten`; `_resolve`
is `ResolveCall`, `ResolveUnknown`, `ResolveUnreadable`, `ResolveKnown`,
`MetaWritten`. A write opens (and so truncates) the file in one step and
completes in another; `WriteFails` may end it in between and `ProcessDies` may
end everything. Encryption and the fields of the record other than its status
are left out.

`Custody` is what the module promises of one item: taken in once, decided by
administrators, never pending again, possibly lost for good by damage.
`ImplementsCustody` is the refinement: a rewrite in progress counts as done (its
caller holds the lock and nobody else can see the old status any more), a new
item's metadata in progress as not yet there.

### SMTPRelay (`delivery/relay.py`, `resilience/retry.py`)

`send[t]`, `tries[t]` and `copies[t]` of one call per task. `Breaks(t, 1)` is the
connection lost after the destination took the message: the caller retries
although a copy is delivered. `Rejected` becomes `RelayError` at once, `Raises` is
any exception that is neither retried nor turned into `RelayError`.

### Gateway (`webhook_receiver/app.py`, `delivery/pipeline.py`, `audit/logger.py`)

Extends the two above. `pc[r]` is the place of webhook request `r` in
`process_message`:

| `pc` | code | actions that leave it |
|---|---|---|
| `posted` | authentication, bounce test, claim (app.py 206-217, 311-332) | `Refuse` `SkipBounce` `SkipDuplicate` `Claim` `StoreUnavailable` |
| `claimed` | `_store_raw_message` (219, 300-307) | `LogRaw` `Abort` |
| `logged` | analysis, policy layers, `decide` (221-267) | `Judge` `Abort` |
| `judged` | `deliver` (pipeline.py) | `Hold` `Relay` `DryRun` `Abort` |
| `holding`, `relaying` | the store's or the relay's call | `Held` `Relayed` `RelayFailed` `DeliverRaises` |
| `disposed` | `AuditLogger.record` (282-286) | `Record` `RecordFails` |
| `replying` | the 200 | `Reply` |

Judging is a free choice among the three actions, so what is shown holds for
whatever the analysers say. Administrators' calls are `adm[a]`: resolve, then
(single release) feedback, audit, relay; the bulk action resolves only. A bulk
call on several ids is one `AdminCalls` per id. `Post` is the provider: it posts a
message it has no 200 for, also while an earlier post is underway. `Crash` keeps
the disk and, with Redis, the keys. `KeyExpires` is the day-long TTL of the dedupe
key, which no request outlives.

### CircuitBreaker and ProviderLookup

The breaker is its state, the count of consecutive failures (capped at the
threshold, above which it makes no difference) and the time left until it may
be tried. A lookup reads the cache, asks the breaker, makes attempts with
back-offs, and writes the cache; any number of lookups share both. `Malformed`
subjects raise something other than `httpx.RequestError`. The module follows the
URL providers; the domain-age provider has the same shape, the file-hash
provider the same without the cache.

### RateLimiter

One address's counter, on the `store` the deployment has. In memory `incr` is one
step; on Redis INCR and EXPIRE are two, and either's reply may be lost.
`AdminCallers` are the callers of the second limiter, which counts on the same key.

### DecisionEngine

`decide()` is the operator `Action` over a message record; the state is the two
memories that bend its sum, `trust` (feedback) and `entries` (campaigns). The
invariants quantify over all messages in every reachable memory. Weights are in
halves and every stage score is a sum of non-negative points, so `int()` is
`\div`. Which texts are alike is a constant relation, reflexive and not
transitive in the instance, as a Hamming distance is; there are finitely many
(`DecisionAssumption`), because a fingerprint has 64 bits. The application passes no
list result and always the tenant "default"; the model takes the engine at its
full interface.

Two properties compare decisions instead of looking at one. `EvidenceNeverHelps`
compares a message with each one that has more against it (`Worsened`: a higher
score of a stage, a look-alike of a VIP, an allowance withdrawn, a block) in the
same memories. `MilderOnlyOnceForgiven` compares the decisions on one message before
and after a step.

### MessageQueue and TaskLedger

`queue`, `pending` and `dlq` are the queue's fields, `at[w]` and `job[w]` a worker and
what it holds. A worker whose task failed puts it back itself: at once if there
is room (`PutsBack`), or after waiting (`WaitsForRoom`, `FindsRoom`). `Accept` sets
`pending` in the step of the `put` because nothing is awaited between a `put` that
found room and the assignment. `listed` is `_workers`: a `start()` of a running pool
forgets the workers it had, which a `stop()` then does not cancel (they end their
task and leave, `Leaves`, or go on if the pool is started again first). `wait_for` loses no item: the image is Python
3.12 (`Dockerfile`), where it cancels the getter without dropping its result.

`TaskLedger` is what either queue promises of one task, with no queue and no worker
in it: taken in once, its failures counted one by one while it is open, given up
with the last of them; done, dead and lost are final. `ImplementsLedger` maps a task
to its `Fate`: it is open while it is queued, handled or waiting for room, and lost
when `_pending` alone still knows of it.

### Identity, Tenancy and AdminPlane (`identity/`, `multi_tenancy/`, the endpoints of `app.py`)

`Identity` keeps what the process keeps: accounts (`users`), the revoked tokens,
the clock; and what clients keep: `issued`, the tokens ever handed out. A token is
its payload, so a refresh in the second of issue hands out the token it has just
revoked. `Tenancy` keeps the tenants' domains and keys, the domain map `owner`, the
cached stores with the key each was made with, and the mail on disk.
`AdminPlane` composes the two: a handler verifies the session, may await its
body (`awaiting`) and acts on whatever is true then. Passwords, signatures and
one-time codes are right or wrong. Claims of single sign-on are not: the callback
takes what any caller posts and makes a session of the role they name (`SsoLogin`),
so `AdminsGoBack` counts them as an origin of rights instead of a proof of them.

### Removal (`delivery/auto_zap.py`, `user_reports.py`, `mailbox_actions.py`, two clients)

`order` and `delivery` are the engine's records, `calls[c]` a removal with the
snapshot it took (`todo`, all records, of which it removes those that are `wanted`),
the recipient it is at and the answers so far; `inMailbox` is what recipients still
see. A provider that deletes but whose answer is lost is `Removed` with a failure
reported. Providers are `m365`, `google`, `simulated` (no client configured) and
`other` (raises).

### Compliance (`compliance/retention.py`, `gdpr.py`, `audit/logger.py`)

`holds`, `log` and `raw` are the holds, the audit log and the mail logs; `busy` is the
file being rewritten, empty in between, while a thread may append the line in
its hand and the process may die. A hold is an id and a target, so several may be
on one target; `anonymous` says of which subject a line no longer shows the address,
and then no hold on it matches any more. `erasing` is the subject of an erasure.

### KeyRotation (`reliability/key_rotation.py`, `backup.py`, `restore.py`)

`versions` is the list of the class, with the second a grace period ends; `sealed` is
the key a backup's file was sealed with and `keyId` the key its caller has on
record, for which `rotate_backup_key` returns a hash; they differ while `writing`.

### SMTPReceiver (`delivery/smtp_receiver.py`)

One session: `state`, the envelope and the collected data, the tasks
`_process_received_message` made for ended messages, and a client that sends
mails line by line and matches replies to commands in order. `eager` is a client
that does not wait for answers. `MaxMails` bounds the mails of one session.

### AsyncWorkerPool (`scalability/queue.py`)

The `asyncio.Queue`, the item in each worker's hands, its tries, the dead letters.
A handler that raises `CancelledError` ends its worker with the item (`Killed`).
An item exists nowhere else while a worker has it. `PoolImplementsLedger` maps an item
to `TaskLedger` with a limit of max_retries + 1 failures.

### SPF (`auth_checker/spf.py`)

`_evaluate` is walked term by term, on a `stack` of records because `include` and
`redirect` call it again; `used` is the shared budget, `queries` what was sent to the
name server. The zone is chosen once, arbitrarily, loops among the domains
included. Whether an address matches a term is part of the zone.

### AuthChecks (`auth_checker/pipeline.py` and the checks it calls)

`Points` is `run_auth_checks` as a sum over one message; the state is the history of
senders, which `RunAuthChecks` extends and `HistoryLost` (a restart) empties. DKIM is
its list of verifying signatures, ARC whether there is a seal and what
`dkim.arc_verify` makes of it ("invalid" passes, as any non-empty verdict does), DMARC the record found at the domain or its
organisational domain, with its alignment modes. BIMI, MTA-STS and DNSSEC are
computed there and never change the score: the policy that MTA-STS would be
checked against is not passed.

### Attachments (`attachment_analysis/`)

The handling of one message: `OpenNext` takes the files out of the next archive
(once; what is an archive inside an archive stays closed; of the entries of a zip
with one name the last is read for each, `ReadAs`), `CutList` limits the list, `AnalyseNext` adds up what name, start, marks, policy, hash lookup and virus
scanner say. A file is a record of what the detectors look for in it.

### ContentChecks (`content_analysis/`)

`work[s]` is one call of `analyze_content`: `Analyze` computes everything up to the
first await and writes the pair of correspondents, `LinkAnswered` adds the answers
about one link, `Finish` returns. `Parsed` is one callback of the parser of
`html_evasion.py`, with what makes it fail, and `Parse` its fold over the tags and
texts of a body; `Distance` is the table of `_levenshtein`, a row (`NextRow`) for
each letter. A text is the set of the words that some detector reacts to.

### Intake (`webhook_receiver/app.py`, `webhook_receiver/parsers/`, `security/`)

The six handlers: the order of secret, size, parser, signature and limiter in
each (`Arrive`, `LimiterAdmits`, `BodyArrives`), then the claim of the hash (`Claims`,
`FindsDuplicate`). `Rebuilt` is the message a parser makes when the provider sends no
MIME source. A post has its fields, its MIME source, both or neither (`fields`,
`raw`): what is analysed comes from the fields, what is relayed from the source if
there is one. A post about no mail has an empty envelope sender and is answered as
a bounce, except Gmail's. What follows the claim is `Gateway`.

## 3. Runs

All runs are in `PROJECT.json` with one sentence each. Those that pass:

| Run | Bounds | Shows |
|---|---|---|
| quarantine | 3 tasks, 2 items | `RecordHasContent`, `NoErrorFromConcurrentWrite`, `ImplementsCustody`, `CallsReturn` |
| gateway_redis | 2 posts of 1 message, 1 administrator's call, 1 item, 2 faults, 1 crash | `PendingUndelivered`, `AnswerTellsTheTruth`, `RequestsEnd` |
| gateway_memory | 3 posts, 2 messages (one a bounce), 1 administrator's call, 2 items, 1 crash, expiry, dry run | `OneProcessing`, `AcknowledgedIsAccountedFor` |
| lookup | 2 lookups, 2 subjects (one malformed), 2 attempts, threshold 2 | `LookupsEnd`, `CircuitRecovers` |
| limiter | either store, 3 callers (one of the admin API), limits 3 and 2, window of 3 ticks, 1 fault | `KeyLifetimes`, `BurstBound`, `WindowEnds` |
| decision_policy | 3 texts, 1 domain, 3 tenants, scores 0, 35, 100 | `MalwareIsNeverForwarded`, `RejectsUndoCredit`, `EvidenceNeverHelps`, `MilderOnlyOnceForgiven` |
| queue | 3 tasks, 2 workers, room for 1, 3 tries, stops and cancellations | `OnePlace`, `PendingIsTheTrace`, `ImplementsLedger`, `TasksEnd` |
| admin | 2 names, 2 tenants, 2 domains (one the other's parent), 2 keys, 3 seconds, 2 logins (claims of analysts and administrators), 6 calls, 1 restart | `SessionsComeFromLogins`, `AdminsGoBack`, `ResolvesToClaimant`, `OwnMailReadable` |
| side_systems | removals: 2 calls on 3 messages, 3 registrations; compliance: 2 lines, 2 files, 1 subject, 2 holds, 4 operations, 1 crash; keys: 2 keys, 1 backup, 4 ticks, 1 death; SMTP: 2 of 3 mails, one of the 3 too large; pool: 3 items, 2 workers, 2 retries, 2 starts | `RemovedMeansGone`, `NobodySkipped`, `EvidenceKept`, `HoldsProtect`, `GraceHolds`, `BackupRestores`, `AnswersAreOwn`, `ItemsAccountedFor` |
| analysis | SPF: 3 domains, 4 lookups, depth 2; attachments: 3 of 11 kinds of files, lists of 4; authentication: 3 domains, 6 answers of the name server, 1 restart; content: 2 messages at once, bodies of up to 4 tokens; intake: 3 posts, 2 handlers, 4 mails | `LookupsBounded`, `AnswerIsTheRecords`, `FreeMeansScanned`, `ChargesAreEarned`, `ContentIsAccounted`, `TakenAsSent` |

Five more properties are theorems without a place in a run, because a run checks a
stronger one or one of the same kind: `DeadLettersExhausted` (follows from
`ImplementsLedger`), `PoolImplementsLedger` (as the other queue's), `StateMatchesFailures`,
`ScoreExplainsAction`, `AllowlistNeverBypassesMalware`.

Each module also states a type invariant. It is a theorem where the module has
proofs; the runs spend their time on the properties above.

Those that TLC refutes, each a promise of the repository that the code does not
keep:

| Run | Promise | What happens |
|---|---|---|
| gateway_lost | `todo.md:208` no message is ever silently lost | the hash is claimed first; after a failure the retry is answered "duplicate" with a 200 |
| gateway_bulk | `docs/modules/delivery.md:116` a release relays the message | the bulk release only writes the status |

Other disagreements between the code and what is written about it, or choices
a reader may not expect, visible in the models and no run of their own.

Request path and its helpers:

* All calls made together pass a half-open circuit (`resilience/circuit_breaker.py:74`;
  its docstring speaks of one trial call).
* Webhook calls and admin calls of one address count on the same key
  (`webhook_receiver/app.py:95-96`), so the former can exhaust the latter's limit.
* Three releases of a domain's mail earn it credit that turns the quarantine of
  its malware into warn_and_strip (`decision_engine/scorer.py:64`;
  `docs/architecture.md:201` calls that quarantine unconditional).
* A crash or a failed write between the two files of an item, or in the middle
  of a rewrite, leaves mail that `list_pending` skips and that release and reject
  answer with 404 or an error for good (`StoreLocked` to `MetaWritten` in
  QuarantineStore); `delivery/quarantine.py:6` says an admin can list, release or
  reject it. `Custody` has the step `Lose` for it.
* `relay_failed` is answered with a 200 and nothing retries (`RelayFailed`, `Reply`
  in Gateway); `docs/runbooks/relay_down.md:11` speaks of a retry queue.
* A call begun before the circuit opened and answered afterwards closes it at
  once (`RecordSuccess`); `docs/modules/resilience.md:80` says it stays open for the
  timeout.
* A command lost between INCR and EXPIRE leaves a counter that never expires and
  refuses its address for good; `WindowEnds` has to except it.
  `docs/modules/storage.md:99` calls it a small race window.
* A stage weight below 1 hides a malware hit from the test that overrides the
  allowlist; the theorem and the run about it assume weights of at least 1.
  `docs/modules/decision_engine.md:70` makes no such exception.
* When the queue is full and every worker has a failed task to put back, all of
  them wait for room that only they could make: `Wedged` in MessageQueue, which
  `TasksEnd` has to except. `docs/modules/scalability.md:82-83` says that a failing
  task is retried and then dead-lettered.
* A comment (`decision_engine/feedback_loop.py:25`) gives the feedback step as 10
  where the code steps by 15, and the queue's docstring speaks of exponential
  backoff and Redis, which `message_queue.py` does not have.

Administration, tenants, compliance, keys (`AdminPlane`, `Tenancy`, `Compliance`,
`KeyRotation`):

* A refresh within the second of issue returns the token it has just revoked.
  Sessions outlive the deletion or change of role of their account, and a
  refresh prolongs them; ids are used again. A restart forgets all revocations
  (`identity/tokens.py:29`; `docs/modules/identity.md` speaks of Redis).
* The endpoints of tenants, quarantine, removals and digests ask for any valid
  session, no role. The session is checked before the body is awaited only.
* A tenant's new key does not reach its cached store; a domain taken over by a
  second tenant is not given back; after a purge the cached store's directory
  is gone, and storing fails.
* The retention reads `timestamp` as text where `AuditLogger` writes a number: it
  never removes the logger's own lines. A hold on a message id does not match
  the file's name. Erasure skips encrypted files and, for want of `list_all`, the
  quarantine, and reads no hold but one on the address. It keeps every audit line and
replaces the address only where it is written in lower case; a line whose operator
was replaced is no longer under a hold on the operator. `list_holds` has no `self`.
* An erasure removes mail files that are under a hold of their own, since it asks for
  none but the subject's; `compliance/PRIVACY_IMPACT_ASSESSMENT.md:35` says erasures
  are checked against active legal holds. `HoldsProtect` states the two rules apart.
* The callback of single sign-on takes the claims that are posted: any caller gets a
  session of the role they name (`webhook_receiver/app.py:859`, `identity/sso.py:38-61`).
  `identity/sso.py:39` speaks of validated claims, `docs/modules/identity.md:128` of a
  code that is exchanged and a state that is verified. `AdminsGoBack` therefore takes
  such claims for an origin of rights, not for a proof of them.
* A primary secret that is set over another without a rotation leaves the old
  one valid for good. Rotating a backup's key rewrites it in place.

Removals, SMTP, pool (`Removal`, `SMTPReceiver`, `AsyncWorkerPool`):

* After a removal that failed half-way a Microsoft 365 message can never be
  marked as removed: its deleted copies answer 404, which is a failure. A
  second, overlapping removal sets the mark of the first back. The token of the
  client is never renewed. Without clients, as the application makes it, the
  removal is simulated. Reports are not recorded in the audit log, which
  `docs/modules/delivery.md` says they are.
* The receiver accepts `MAIL FROM:<>` and refuses the RCPT after it with 503; from an
  oversized message on, its answers are out of step with the commands, and a client
  can take the answer to one mail for that to a later one (it takes four replies of
  lag, five mails). The mail of a client that pipelines may be processed under the
  envelope of another; neither its lines nor the envelope are mixed of two.

Analysers (`SPF`, `AuthChecks`, `Attachments`, `ContentChecks`):

* SPF: a failed query for a record is no error (`_find_spf_record` swallows it);
  an included domain without a record is passed over; when the exchanges of an
  `mx` use up the budget the evaluation goes on as if none had matched (`cut`).
* DKIM returns the first signature that verifies, also when only a later one is
  aligned. DMARC's `pct` and `sp` are parsed and unused. ARC that passes while SPF
  and DMARC fail scores less than a softfail without ARC (5 points), and it passes
  whether or not the chain verifies, so that `SpoofedIsCharged` promises no more than
  those 5 behind a seal (`auth_checker/arc.py:45` tests a verdict that is non-empty also
  when it is `b"fail"`; `auth_checker/pipeline.py:99` speaks of a valid chain, and
  `tests/test_arc.py:14-23` expects a pass of one that no key verifies); "cv=fail" in any set, and a verdict of the library that is
  empty, fail it.
* Archives in archives are never opened (`docs/modules/attachment_analysis.md:106-108`
  says recursively, to a depth of three), and the message may cost nothing. A zip's entries are read by name
  (`archives.py:63`): of two with one name the last is scanned twice and the first
  never, and `FreeMeansScanned` does not count the first as owed. A
  corrupted archive and the members beyond the cap cost no points. The URLs
  found in documents are never looked up. "MZ" anywhere in a file counts as a
  second format.
* An end tag pops whatever tag is on top, and `br` or `img` push one: text after a
  hidden element with a `br` in it counts as hidden. A style attribute without a
  value makes the parser raise, which is caught and switches the check off.
  Text positioned off the screen is not recognised, though the docstring says so.
* The display-name check never looks at the domain: the protected person's own
  mail is charged. Subdomains of a watched domain count as its typosquats; a domain
  that only swaps the TLD of a watched one does not, because equal labels are at
  distance 0 (`urls.py:105-106` says that TLD swaps are caught). Links without a
  host are dropped (`urls.py:71-72`), and the links of a message are the others. The
  dictionaries see words split by zero-width signs as other words. The HTML
  part is not scanned for keywords when there is a text part.
* The application passes no recipient, thread headers, file names or images to
  `analyze_content`, so these checks are idle in it; the model passes them.

Intake (`Intake`):

* Of a batch of Microsoft Graph notifications only the first is read. A Gmail
  notification becomes an empty message; all of them hash alike, so that later ones
  are answered as duplicates. An SNS confirmation, a Graph notification and any
  other post without a mail have no envelope sender and are answered as bounces
  (`security/bounce_detector.py:19`): they are never hashed.
* The hash covers no envelope: where a provider posts once per recipient, the
  second recipient's copy is a duplicate.
* What is scanned comes from the fields of a post only: a SendGrid, Mailgun or Gmail
  post with the MIME source alone (`tests/test_provider_contracts.py:46-57`) is relayed
  with no text scanned, an SES post always is, though `docs/getting_started.md:152` tells
  to enable the raw message and `process_message` is said to "run every analysis
  stage" (`webhook_receiver/app.py:199`); `SentIsScanned` speaks of posts whose
  fields are complete. SES's `proof` is no more than the host in a URL the post may
  leave out (`security/provider_auth.py:77-82`). Graph: one of the two bodies is
  scanned. Messages rebuilt without the MIME source lose their HTML. SES, Graph and Gmail posts carry the provider's address as
  the client's.

Every property of a passing run has a mutant in `PROJECT.json`: a definition
marked "A deliberate fault" that, put in the place of the one after it, makes
TLC find the property violated.

### Bounds

Three posts are the fewest with an original, a retry overlapping it, and a retry
after a failure; two messages and two items add the crossings between them.
gateway_redis has one post and one call fewer, so that a liveness property fits in
the same run; its safety invariants also pass on three posts and two administrators
(1.2 million states under symmetry), and are theorems for any number. Administrators
racing on one item are in the quarantine run. One crash is enough for each property
because what a crash leaves on disk is in turn a state every continuation is
explored from; two faults of the network allow one ambiguous delivery and one
further failure. `TagOnly` is FALSE in the runs: it only sends a quarantine verdict
to the relay (`Relay`, `DryRun`) instead of to `Hold`, and the theorems hold for
either value. A limit of 3 with a window of 3 ticks has calls at the limit, above it
and on both sides of a boundary. Scores of 0, 35 and 100 fall below, between and
above the thresholds, alone and in sums, for each of the three tenants (a stricter
one and one whose thresholds are equal), and every message with them is compared
with every worse one. In MessageQueue three tasks with room for one are the fewest
with which two workers both wait to put a failed task back.

admin: two logins, six calls and three seconds, with tokens that live one, are
enough for a refresh in the second of issue, one after it and one that comes too
late; two tenants and a domain with its parent give every way a claim can be
taken over or resolve through the parent; claims of an analyst and of an
administrator give both ways to a session that no account stands behind.
side_systems: two overlapping removals
on messages that share a URL, with a third registration that replaces a record
in use; two of three mails, of one, two and three lines against a limit of two, so
that two mails are completed in one session and an oversized one comes before
or after another; two holds on one target or on two; three items and two workers
with one stop and restart. analysis: three domains have
every loop of includes and redirects of length up to three, four lookups run out
in the middle of each; eleven files, one for each thing a detector looks for, in
every list of up to three; bodies of up to four tags and texts have every
nesting of a hidden and a shown element that the stack can confuse; every
provider posts with and without MIME source.

`CHECK_DEADLOCK FALSE` is set for Gateway, MessageQueue, AdminPlane,
MCSideSystems and MCAnalysis: their posts, calls and tasks are used once each, so
the model comes to rest when all have ended. Symmetry is used only where every
property is an invariant or an action property that names no member of the
permuted set.

### Fairness

* Gateway: weak fairness of each request's and each administrator's steps (the
  event loop runs every ready coroutine), strong fairness of the steps inside
  the store and the relay: `asyncio.Lock` is first in, first out, so a waiting call
  gets the lock though it is taken over and over. A disk answers or raises; an
  SMTP peer answers or meets the 15-second timeout. No fairness of `Post`,
  administrators' calls, `Crash`, `KeyExpires`.
* ProviderLookup: weak fairness of each lookup's steps (HTTP timeouts, sleeps)
  and of time. None of new lookups, of the provider's recovery or of expiry.
* RateLimiter: time passes, and a command sent is answered or lost.
* MessageQueue: handlers end; strong fairness of taking and putting, because
  `asyncio.Queue` wakes its waiters first in, first out. None of new tasks or stops.
* QuarantineStore: strong fairness of the steps under the lock, as above.
* The other modules have safety properties only and assume no fairness.

## 4. Theorems

Every theorem holds for all values of the constants that satisfy the named
assumptions of the modules, with the further assumptions its statement gives.

For each safety property the proof is the same in outline: a stronger formula that
the initial states satisfy and every action keeps, and that implies the
property. What follows says what had to be added, and why.

**FoldLemmas.** What the proofs about data rest on: induction over naturals from
the least counterexample (`UpFromZero`), that a function defined by a recursion over
naturals exists and obeys its equation (`FoldsExist`, `StepsExist`), and that a sum
over a finite set does not depend on the order in which the community modules take
its members (`AnyOrder`) and grows with its terms (`SumNotLess`).

**GatewayProofs, the store and the relay.** `QInv` strengthens the type invariant:
whoever is past the lock holds it; a task between the lock and its release knows the
state of its item's two files; torn metadata has a complete message. From it
`RecordHasContentHolds`, `WritesAreNeverSeen` (a call that meets torn metadata
cannot be racing its writer, who would hold the lock) and, step by step,
`CustodyRefined`. The lock clauses are what makes it inductive: without them two
writers could tear each other's files and the refinement mapping would not be a
function of one call.

**GatewayProofs, the gateway.** `GInv` joins `QInv` and the relay's invariant with what ties
requests to them: a request in the store's or the relay's hands is at the
matching `pc`; a request being processed has a live key of its own; messages
that are held or sent are in the raw log. `TypeCorrect`, `OneProcessingHolds` and
`RawCopyFirstHolds` follow at once. `AcknowledgedIsAccountedForHolds` and
`AnswersAreTrue` add a second invariant each, about requests that have ended,
and use that what it says lasts (files, copies and records are never taken
back). `PendingIsUndelivered` assumes Redis and no expiry: keys only grow, so a
message is processed by at most one request ever; hence at most one item
holds it, its holder has sent nothing, and a release sends only after the
status has left "pending" and can never return to it.
`GatewayKeepsCustody` carries the refinement of `Custody` to the composition.

**WebhookProofs.** `KeyLifetimesHold`: while a caller is about to send EXPIRE no
other one is, the key exists and has no expiry. `BurstIsBounded`: the calls
admitted in the last `Window` ticks fall on at most two keys, the one that counts
now and the one before it, each of which admitted at most the limit. `TwoKeys`
says this with the prefix sums `P` of the calls per tick and the age `a` of the
current key: the last `a` ticks are paid for by its count, all the others by the
limit, and a key that exists lives on for longer than `Window - a` ticks have
passed. `SumFunction`, by which the property counts, is a fold over an
arbitrary order of a finite set; `AnyOrder` shows that the order makes no
difference and `SumFromTheLeft` that the sum is the last prefix sum.
`TakenIsSent`: `IntakeInv` records which posts the pipeline took with which answer,
and that each kept hash is that of such a post. It says nothing of secrets, which
most providers' posts do not have, and nothing of posts whose fields lack what their
source carries.

**TransportProofs.** Queue: `MInv` adds to the three invariants that a worker has a
task exactly while it handles it or waits for room, and that whatever is queued or
in hand is pending: without it a task put back could already have ended. Two lemmas
say what appending and taking do to the members of a sequence without duplicates.
`QueueRefinesLedger` needs one fact more, `FateByPlace`: under `MInv` a task is open
exactly if it is queued or in some worker's hands, which turns each action into one
step of the ledger (a stop into `Forget` of what was held) and shows that nothing
leads from lost back to open. Pool: `PoolInv` takes the same two lemmas and says
that the places an item can be in are disjoint, that every item given is in one, and
how many tries each has had; `PoolRefinesLedger` follows step by step. Receiver:
`ReceiverInv` describes the whole conversation as a function of the mail `t`, the
`j` lines sent and the `d` lines handled (`Sent`): what is still to send, what is on
its way in, what the receiver has collected, and which answer the client waits for.
An exchange between two mails leaves nothing behind (`Between`), which is why no
mail can be given the answer or the envelope of another. `PipelineInv` is about the
client that does not wait: whatever the order in which its lines and the tasks are
handled, the sender and the recipients that meet in a processed message, and its
lines, are one mail's (`Unmixed`).

**AnalysisProofs.** SPF: `SPFTypeCorrect`, then `BudgetHolds` (the property
`LookupsBounded`) by `SPFInv`: typing, `Walks` (every call below the top waits at an
include or redirect, and the walk stands at a term, or an exchange of one, that
its domain's record has) and `Paid` (the counted lookups pay for queries and
calls; the query that opens a call is paid for when the call is made). Without
`Walks` a return could step past the terms; without `Paid` nothing ties queries
and depth to the counter. `DepthNeverDecides` is its corollary: the check
`depth > 10` of the code cannot be what ends an evaluation. `AnswerHolds` is about the
result. The reference `SaysWithin` is recursive in the calls that may still be nested;
`SaysByDepth` shows that it is defined (`FoldsExist`, `StepsExist`), and
`TermDecides`, `RedirectDecides`, `NothingDecides` what it says of a record by the place
where a walk may stand. `Faithful` then says of every call of the stack that the terms
before its place do not match, and that the call above it is for the domain its
term or its redirect names, so that what a call returns is what the reference says
with its depth, or permerror with all lookups spent.
`ChargesEarned` is
mostly arithmetic over the checks of one message, with one invariant about the
history of senders. `FreeIsScanned`: as long as the points are zero, what the
archives opened so far owe is on the list and what has been looked at has been
scanned; once a point is charged nothing takes it back. `PairsMeetOnceHolds`:
reading and recording a pair is one step. `ContentIsAccountedHolds` adds to it
`WorkInv`: links answered and links left are all the links, and the points are at
least what has been found so far is worth. What it needs about the data is proved
by induction over naturals (`UpFromZero`): the sums of the detectors, which the
community modules fold in an arbitrary order, are natural numbers; the codes of the
images flatten to one sequence; and the parser's fold is a run from the left
(`ParseRuns`). `Stacked` then ties the stack after k tokens to the body: its members
are the styles of exactly the elements that the place lies in, in order, and the x-th
from the top has x - 1 elements open inside it, so that an end tag pops the one it
ends (`TagStacks`, `EndTagStacks`). So a hiding style is on the stack just when
the text lies in a hiding element (`HiddenTextIsFound`). The words that detectors react
to and the links of a message are assumed to be finitely many (`ContentAssumption`),
as lists of patterns and what is found in a text are. `DistanceIsFewestEdits` says what
`_levenshtein` computes, for words of any length: some sequence of that many single
insertions, removals and replacements (`EditsApart`) leads from one word to the
other, and no shorter one. The first half builds such a sequence along the
table; the second shows that one edit of a word, wherever it is, moves the number by
at most one (`OneEdit`). `DistanceIsAMetric` follows from properties of
sequences of edits, and `TyposquatsAreWithinTwoEdits` states with them what
`find_typosquat_target` reports. `StateMatchesFailuresHolds`: the
breaker's state agrees with its count after every step of any lookup.

**DecisionEngineProofs.** Bounds of the credit (`DInvariance`) and of the sum:
non-negative scores, credit of at least -40 and a hit of 100 leave 60.
`EvidenceNeverHelpsHolds`: each kind of further evidence raises the sum, lowers the
threshold for a quarantine or moves the list result up, and `Action` is monotone
in all three, for any weights and thresholds. `MilderOnlyOnceForgivenHolds`: a step
that is none of `Forgives` leaves the domain's adjustment and the number of like
entries of the hour at least as they were (`SumNotLess`), so the sum does not fall.

**AdminPlaneProofs.** `TenantInv`: whatever the domain map says, its tenant is
registered and claims the domain, and the mail of this process is under the key of
the cached store. `AccountInv`: every token names an identity that has logged in,
and with a secret that is set and unknown an administrator's login, a handler that
was let in as one and accounts other than the first mean that one of the `Origins`
has logged in: the first account, or claims of the administrators' group. The
second clause is needed because the handler acts after its session was looked at,
the third because an account made again has an old number. `SessionInv` counts: as long as no restart
has forgotten the revocations, an identity has no more unrevoked tokens than logins,
because a refresh revokes one before it issues one; the lemmas say what `Issue` does
to the bag of logins and to the cardinality of the set of tokens.

**SideSystemsProofs.** Keys: every listed version below the first is pinned or in
a grace period it was given, and nothing else is; a backup's two keys differ
only while it is written. Compliance: an invariant of the log, and one of the
files and the holds; the action property needs the second. It says of retention that
no hold is overridden, of an erasure only what it asks for: that the subject is
under none. Removals: `RemovalInv`
follows one call through its loop (what it has asked for of the record it is at,
and what it found, looked through and left), so that a mark is set only
when every copy of the record has been asked for and each answer was good; a
provider that answers well has removed the copy for good.

### Only model-checked

* All liveness (`CallsReturn`, `RequestsEnd`, `LookupsEnd`, `CircuitRecovers`,
  `WindowEnds`, `TasksEnd`): it rests on ENABLED, which the prover does not know.
* The refuted promises are behaviours, which TLC exhibits.

## 5. Not modelled

* One process owns the quarantine directory and the in-memory stores; the three
  replicas of `k8s/deployment.yaml` have an `emptyDir` each.
* Recipients: a message has one destination. `aiosmtplib` returns the recipients
  it refused among several, and the return value is dropped.
* Text: regular expressions, file formats, MIME, redaction, encryption, wording.
  The models keep which detector reacts to a file, a word, a tag or a header and
  what follows from it.
* `soc_bcc` of `deliver`, which the application never passes. A `dkim` library
  without `arc_verify`, for which `check_arc` reads the header's own "cv=pass".
* Digest, DLP, URL and body rewriting: text transformations without state. The
  click-time check (`time_of_click/`) is left out with them; it reads a provider's
  answer, a pair, as an object, and falls back to allowing the click.
* `observability/` and `threat_intel/`: counters, reports and indicator maps that no
  request's path reads. The dashboards, metrics and health endpoints only read.
* The autoscaler, cache warmer, connection pool, batch DNS and database store of
  `scalability/`, the follower of redirects in `content_analysis/`, the residency
  table and the sandbox stub: nothing calls them or they return constants.
* The admin UI, `security_hardening/` and `scripts/` (tools beside the gateway),
  deployment files.

Every invariant, every action property and every refinement that a passing run
checks is also a theorem; what stays with TLC is the liveness.
