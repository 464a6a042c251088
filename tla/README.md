# TLA+ specifications of payrecover-agent

PayRecover takes failed Razorpay payments, diagnoses why they failed, lets a
fixed policy decide what to do next (send a payment link, remind, wait, hand
over to a human, stop), does it, and keeps an append-only trail of all of it.
It is a command-line program over one SQLite file: there is no server and no
queue, and what makes it hard is that the commands that write make many small
commits, may die between any two of them, may be started while another still
runs, and talk to a service whose answers get lost.

Sources are named below relative to `src/payrecover/` of the repository, documents
relative to its root.

## 1. Inventory

| Component | Source | State it keeps | Operations | What makes it correct |
|---|---|---|---|---|
| Domain records | `models.py` | none | constructors | enumerations agree across components |
| Policy | `policy.py` | none; caps | `decide` | first match wins; caps; a human above the amount |
| Diagnosis | `diagnosis.py` | none | `diagnose`, language-model call, sanitising | the model cannot make a case wait |
| Executor | `actions.py` | none | `execute` | one contact at most per counted contact; no write under KILL_SWITCH |
| Case store | `store.py` | rows, ground truth, batches | upsert, list, wipe | rows only advance |
| Audit trail | `audit.py` | audit rows | append, list, drop | every row of a case is explained by the trail |
| Razorpay client | `razorpay_client.py` | none | reads (retried), writes (never) | the caller sees one reply per call |
| Customer simulator | `simulator/customer.py` | none | `respond` | the profile's answer, opt-out once |
| Runner, `run` | `runner.py`, `cli.py` | a snapshot and the case in memory | `run_batch`, `process_case` | ends each case it selects; loops make progress |
| Detector, `detect` | `detector.py`, `cli.py` | the listing and one row in memory | ingest, `upsert_detected` | every payment listed becomes a case; rows in progress keep their state |
| Batch generator, `seed` | `simulator/batchgen.py`, `cli.py` | the batch half written | `seed_batch`, `wipe` | a batch on record is whole, and is completed after a death |
| Report | `metrics.py`, `cli.py` | three lists in memory | `build_report` | its lists cover the cases; paid by trail and by row agree |
| Settings; other commands | `config.py`, `cli.py` | none | parse, print | - |

How they interact. `run` opens the file, reads every row once (`list_cases`),
and passes the selected ones to `process_case`. There each turn of the loop is:
diagnose; append `diagnosis_completed`; decide; append `policy_verdict`; append
`action_attempted`; call Razorpay; save the row; append `action_result`; ask the
simulated customer; append `customer_response`; save the row; append
`case_terminal` if it is over. Every append and every save is a commit of its
own. Nothing is read again from the store inside a turn but the ground truth:
the case lives in memory and each save overwrites the whole row. `detect` lists
Razorpay's payments once, and for each failed one reads its row and, in a second
transaction, writes the row as read with the failure just listed. `seed` commits
a row and a ground truth per case and the record of the batch last; `--force`
first drops the trail, then deletes the rows, in two commits. `report` reads rows,
trail and ground truths in three queries and joins them in memory. All share the
file and nothing coordinates them.

The hard behaviours, line by line, are the `hazards` of PROJECT.json: a death
between two commits, an answer of Razorpay lost after the effect, a snapshot
another invocation has made stale, ids invented by a dry run, the empty link id,
a loop with a fixed budget, a diagnosis that may differ from turn to turn, a row
written back as it was read before another command changed it, a seed that died
half-way, a report whose queries see different moments, and two retry loops.

## 2. Modules

| Module | Models | Notes |
|---|---|---|
| `Models` | `models.py` | Record sets. A link id is None, `""`, a dry-run id or a Razorpay id, because policy tests `is None` where the executor and the customer test truth. An `error_reason` is one of the reasons the rules know, none, or any other, after `strip`. |
| `Policy` | `policy.py` | `Decide` with its stops, `Ladder` with the rungs below. |
| `Diagnosing` | `diagnosis.py` | `Diagnoses(failure)`: all diagnoses one call may return. |
| `Customer` | `simulator/customer.py` | `Respond`. |
| `Actions` | `actions.py` | `Dispatch(action, case, reply)`: the case to save and the result to report, given Razorpay's reply. `Calls` says which write is asked for. |
| `Store` | `store.py`, `audit.py` | `cases`, `truths`, `audit`; `Upsert` and `Append` are one commit each. |
| `Razorpay` | `razorpay_client.py` and the service | `CreatePaymentLink`, `NotifyPaymentLink`: served, applied with the answer lost, lost on the way, or refused. |
| `Runner` | `runner.py`, `run` of `cli.py`, `execute` of `actions.py` | The processes. |
| `RunnerProperties` | - | What must hold of `run`. |
| `CaseLifecycle` | README, `policy.py` in the abstract | What is promised about a case: a ladder of a wait, one link, its reminders, that ends once. |
| `RunnerInductive` | - | The two invariants that hold whatever overlaps: `IInv` (and `Held`, for when others write rows too) of the copies of a case, `TrailInv` of what the trail says of them. |
| `RunnerRefinement` | - | The refinement mapping from rows to rungs, and `SoloInv`, the invariant of a lone process. |
| `RunnerProofs`, `TrailProofs`, `SoloProofs`, `LedgerProofs` | - | The theorems about `Runner`. |
| `Detector` | `detector.py`, `detect` of `cli.py` | `ListPayments`, `ReadRow`, `WriteRow`; a foreign currency ends it. |
| `Seeder` | `simulator/batchgen.py`, the writes of `store.py`, `seed` of `cli.py` | One action per commit. |
| `Reporter` | `metrics.py`, `report` of `cli.py` | One action per query; `build_report` as operators over what was read. |
| `Commands` | `cli.py` | Runner, Detector, Seeder and Reporter on one database. |
| `CommandsProperties` | - | What must hold of the database. |
| `CommandsInductive` | - | The invariants behind them. |
| `CommandsProofs` | - | The theorems about `Commands` for any commands that overlap. |
| `OperatorProofs` | - | Those that depend on how the operator uses the commands. |
| `RazorpayCalls` | `_call`, `_map_error` of `razorpay_client.py` | The inside of one call: tries, sleeps, the error raised. |
| `LlmCalls` | `diagnose` and below in `diagnosis.py` | The inside of one diagnosis: questions, sleeps, what an answer is worth. |
| `ServiceCalls` | a turn of `runner.py` | The two, one at a time. |
| `RazorpayCallsProofs`, `ServiceCallsProofs` | - | The theorems about `RazorpayCalls`, and about `LlmCalls` beside it. |
| `MCRunner`, `MCCommands`, `MCCalls` | - | Small instances. |

`Runner` EXTENDS the others: `Policy`, `Diagnosing`, `Customer` and `Actions` are
pure operators, `Store` and `Razorpay` bring shared variables, and `Runner` adds
one program counter per process. The variables of a process are those of the
code: `snap` is what `list_cases` returned, `todo` the cases not yet processed,
`cur` the local `current`, `step` the loop index, `action` and `result` the
locals of those names. An audit row carries `by` (the invocation) and `step` (the
turn) where the code has `correlation_id`, a fresh uuid per turn; `step` 0 stands
for a row without one.

An action of `Runner` ends at a commit or at a call, since that is where another
process can look and where a death shows:

| pc | action | code |
|---|---|---|
| idle | `StartRun` | `cli.py` `run`, `run_batch` up to the loop |
| next | `SkipTerminal`, `OpenCase`, `Return` | `runner.py:84-102`, end of the batch |
| detect | `LogDetected` | `runner.py:103-117` |
| diagnose | `Diagnose` | `runner.py:118-136`: diagnosis, its audit row, the decision |
| verdict, attempt | `LogVerdict`, `LogAttempt` | `runner.py:137-155`, `actions.py:43-59` |
| dispatch | `RefuseKilled`, `ExecuteLocally`, `ExecuteInjected`, `ExecuteCreate`, `ExecuteNotify` | `actions.py:61-71`, `92-225` |
| save, result | `Save`, `LogResult` | `actions.py:73-88` |
| outcome | `StopKilled`, `ParkFailed`, `AskCustomer`, `NoCustomer` | `runner.py:166-185` |
| apply | `SaveAnswer` | `runner.py:186-191` |
| close | `CloseCase`, `NextTurn`, `ParkExpired` | `runner.py:192-203` |
| any | `Crash` | the process dies; what it committed stays |

`Commands` puts `Runner`, as it is, beside the other commands: its actions leave
their variables alone and theirs leave the runner's. The variables of `Detector`
are the locals of `ingest_failed_payments` (`listed`, what is left of the listing;
`merging`, the row read), beside what Razorpay says (`failed`, `payments`); those of
`Seeder` are the batch of the seed number, drawn once as the random generator
would each time, what is left of it to write, and the `batches` table; `seen` of
`Reporter` is what the three queries returned. With `Serial` an operator starts a
command only when no other runs.

Razorpay and the language model appear twice. For `Runner` a call is one step with a
set of outcomes (`CreatePaymentLink`, `Diagnoses`); `RazorpayCalls` and `LlmCalls`
look inside one and show that the loops come back, with an outcome of that set.

Definitions that carry the comment "Mutant" are faulty variants of the definition
below them. Nothing uses them: substituted for the real one they break the
property the run is about, which shows that the property can fail.

### What is left out, and why

- SQLite's locks. Every write is a single short transaction, so the only effect of
  a lock is to delay or, after five seconds, to raise; the latter is a death.
- Timestamps and `wait_until`. A `wait` is served in the instant it is issued and
  `wait_until` is read by nobody. The trail is listed by timestamp; the model orders it
  by invocation and turn, as a clock that never goes back does.
- How long the retry loops sleep.
- Sums of money and the split by profile in the report: they follow from its sets.
- Fields nobody branches on (currency, method, error texts), the texts of
  rationales beyond their kind, and the three classes of `RazorpayClientError`,
  which the executor treats alike.
- `ActionRefused`: the runner passes the executor the action policy has just made
  for the same case.
- KILL_SWITCH is read once per process, so it belongs to the invocation.
- `--live` demands `--case` or `--limit`. Both give selections the other modes have
  too, so the guard excludes no selection.

## 3. Properties

Of `run`, whatever processes overlap (first part of `RunnerProperties`):

- `SecondLinkUnreachable`: a row counts at most one link, and counts it exactly when
  it holds an id, although the cap is two (README, invariant 7).
- `ExhaustedMeansAllReminders`: no row is given up before its last reminder, counts
  one too many, or counts one without a usable link.
- `HighAmountNeverContacted`: above the amount Razorpay is asked for nothing.
- `OptOutIsAStop`: an opted-out row ends only as stopped.
- `WaitIsEarned`: only a failure that names a transient cause itself has waited.
- `StatusBackedByTrail`: a terminal row has the audit rows that justify it: a payment,
  or a verdict that ends a case so. A case is escalated for its amount exactly if that
  is above the threshold; at the threshold only a doubtful diagnosis is a reason.
- `RerunsNeverDuplicateLinks`: if the service refuses a repeated `reference_id`, it
  makes one link per case. It rests on that refusal alone: with `UniqueRefs = FALSE`
  one lost answer is enough for two links. The same refusal also means that a case
  whose creation was applied and whose answer was lost is refused in each later run.
- `TrailExplainsOutcome`: each `case_terminal` row has its reason under the same
  correlation id.
- `AttemptsAnswered`: an attempt lacks its result only in flight or after a death.
- `LoopMakesProgress`: a case that is still open at the end of a turn has moved exactly
  one rung in each turn since this invocation took it up; what earlier invocations
  climbed does not count.
- `BudgetSuffices`: so 8 turns are enough for a wait, a link and three reminders.

Of `run`, for invocations that follow one another:

- `ClimbsTheLadder`: `Runner` implements `CaseLifecycle`. `RungOf` reads a row as a rung
  (waited, no link, an unusable or a usable one, reminders, opted out, how it ended),
  and each write of a row is one move of the ladder or none: never two rungs at once,
  never a rung twice, from an opt-out nowhere but to a stop, out of an end nowhere.
- `RowsOnlyAdvance`: counters never fall and a terminal row never changes again.
- `ContactIsLicensed`: a link or a reminder leaves only for an open row, under a
  verdict of the same turn, without KILL_SWITCH.
- `ContactsAccounted`: what Razorpay did exceeds what the row counts by no more than
  the calls whose answer was lost and the invocations that died.
- `DetectedOnce`, `PaidIsRecovered`, `RunsReturn`, `SelectedCasesSettle`.

Of these, some really need the sequence. Two overlapping invocations each save
the whole row from their own snapshot, so the slower one walks it back
(`RowsOnlyAdvance`, `ClimbsTheLadder`), both write `case_detected` (`DetectedOnce`),
and a reminder may leave for a case the other one has closed (`ContactIsLicensed`).
The documents do promise otherwise, without saying a word of overlapping runs; section 5
quotes them.

Of the commands together (`CommandsProperties`):

- `RowsStayWellFormed`: what `detect` and `seed` write over a running batch may be
  stale, but has the shape of a row that `run` could have written.
- `RecordedBatchIsWhole`: a batch on record has every row and every customer.
- `EndsAreAudited`, `OnlySeedTakesBack` (one command at a time): an ended row keeps
  on the trail the payment or the verdict that ended it, also through a seed that drops
  the trail, unless one dies between the two commits of its wipe; and nothing but `seed`
  takes a row back.
- `SeedCompletes`, `ListedBecomeCases`: what was begun is finished, once nothing dies
  any more.
- `RecoveriesAgree`: the report's outcomes and its list of recovered cases agree,
  and its lists cover the cases, although a run commits between its queries; it is
  the order of the queries, rows before trail, that makes it so. The lists may overlap:
  a case whose payment is on the trail, but whose run died before it saved the row, is
  on the list of the recovered and may be worked on to another end.
- `EscalationsExplained`: cause and rationale of an escalation, looked up
  separately, are there and belong to one decision (see section 6 for when).
- `RecoveredAreCaptured`: the report's list of profiles that would pay, kept apart
  from the customer, misses none that did.
- `ContactsAreCounted`: the report's action counts miss no contact.

Of the calls: `WritesApplyOnce`, `LoopRaisesInside`, `CallsReturn` for Razorpay,
`DiagnosesAreAllowed`, `QuestionsEnd` for the language model.

## 4. Runs

The caps are those of the source (2 links, 3 reminders, 500000 paise) unless the
table says otherwise.

| Run | Instance | Shows |
|---|---|---|
| `restarts` | one case of any kind, one process, 3 invocations of 3 turns, dry, live and injected, KILL_SWITCH on or off, four kinds of reply of the language model, 1 death, 1 lost call, empty ids, references not refused | rows and trail stay in step, rows climb the ladder, runs return |
| `overlap` | one case, two processes, 2 invocations of 8 turns, dry and live, 1 death, KILL_SWITCH on or off | the properties that hold whatever overlaps; both inductive invariants |
| `overtaken` | a detected case, 2 listings, two processes with 2 live invocations, 1 death, 1 lost call; 1 reminder, 4 turns | stale rows written back keep their shape |
| `reseeding` | a seeded case, 2 seeds, `--force` or not, 2 live invocations beside them, 1 death, 1 lost call, references refused; 1 reminder | a batch on record is whole; no second link after a reset |
| `turns` | a seeded case, a payment, a payment in a foreign currency, 2 seeds (`--force` or not), 2 listings, 2 dry invocations, one command at a time, 1 death; 1 reminder | only seed takes back; seed, detect and run finish what they began |
| `reporting` | a seeded case, a report beside 2 live invocations, two doubtful replies, 1 death; 1 reminder | the report is consistent |
| `calls` | 5 tries per read, 3 calls, every exception; 2 diagnoses, every kind of answer | the retry loops |
| `lost_reminder` | violation | finding 1 below |
| `unclosed_stop` | violation | finding 2 |
| `dry_link` | violation | finding 3 |
| `redetect` | violation | finding 4 |
| `reseed` | violation | finding 5 |

Bounds. `MaxRuns`, `MaxCrashes`, `MaxFaults`, `MaxListings`, `MaxSeeds`, `MaxReports`,
`MaxCalls` and `MaxDiagnoses` bound how often something happens; each is in a guard.
Cases do not interact but through the order of a batch or a listing and through a
command that ends early, so one case is enough for everything except `turns`, where
a listing has a payment that ends it and a run goes through what two commands wrote.
A climb takes one wait, one link and three reminders: all inside one run of 8 turns in
`overlap`, cut into pieces by the 3 turns of `restarts`, where three invocations allow
a failure, a recovery from it and a run after that. Elsewhere the cap is one reminder,
which leaves a ladder of four rungs with each kind of rung on it. A second death or
lost call adds nothing to a case that the first did not: each is counted in
the bounds of `ContactsAccounted` and `PaidIsRecovered`, which name them. The
theorems of section 6 have none of these bounds. The instances of `AllIntake` hold
each profile of the seeder, each rung of the policy, and both sides of the
threshold. No run uses symmetry or a state constraint. The runs check deadlock:
a state without successor would be a result no branch of the code handles; `Done` and
`Rest` are the end of the bounded number of invocations, or an operator who leaves it
at that.

Fairness. `WF` of the steps of each process, of `detect`, of `seed` and of `report`: the
operating system goes on scheduling a command that was started. Nobody has to
start a command, no payment has to fail, none has to die and no call has to fail, and
each step is one of straight-line code, so no strong fairness is used. In
`ServiceCalls` it rests on the timeouts of the two clients, which make each try end.
`RunsReturn`, `SelectedCasesSettle`, `SeedCompletes`, `ListedBecomeCases`, `CallsReturn` and
`QuestionsEnd` use it, and so does the counterexample of `dry_link`. Those of them that a
death could refute say `crashes = MaxCrashes`: from when no more deaths come.

## 5. Findings

1. `lost_reminder`. A reminder whose answer is lost is sent and not counted, so the
   next run sends the whole cap again: four reminders where README invariant 3 says at
   most three.
2. `unclosed_stop`. The terminal row is saved several commits before `case_terminal`.
   After a death in between every later run stops at `already_terminal`, and
   `docs/decisions.md:93` calls a stop without `case_terminal` a bug.
3. `dry_link`. A dry run saves its invented link id in the real row. If it dies
   half-way, a live run reminds on that id, is refused, and parks the case for good,
   where README says that a detected case terminates `exhausted`.
4. `redetect`. `upsert_detected` reads a row, and writes all of it back in a second
   transaction. A run that commits in between is undone, a terminal status included;
   the comment at `detector.py:60` promises that re-detection keeps it.
5. `reseed`. A batch counts as seeded only once its last case is written, and each
   case is written as new. If seed dies early, the cases are worked, and seed is
   repeated without `--force`, an opted-out case starts over, where README invariant 3
   calls the opt-out permanent.

Seen while modelling, and not kept as runs:

- `runner.py:102`, `store.py:88`: two overlapping runs each save the whole row from their
  own snapshot. Both may append `case_detected`, where `docs/decisions.md:312` has it
  only for a case with no prior row, and the slower one may walk an opt-out back, where
  README invariant 3 calls it permanent. `DetectedOnce`, `RowsOnlyAdvance` and
  `ClimbsTheLadder` are stated of invocations that follow one another.
- `runner.py:186`: the opt-out is appended, then saved. After a death in between the next
  run asks again, where `customer.py:7` says that it is delivered at most once.
- `simulator/customer.py:16`: an `opts_out` customer opts out of a wait, before any
  contact; the table at `docs/decisions.md:149` has "n/a" there.
- `store.py:82`: `wipe` commits the drop of the trail before it deletes the rows; a death
  in between leaves ended rows without a trail. `EndsAreAudited` excludes that death.
- `detector.py:54`: a failed payment in a foreign currency is no `PaymentFailure`, and the
  `ValidationError` ends `detect` each time, before the payments listed after it.
  `ListedBecomeCases` excludes that listing.
- `diagnosis.py:92`: `float()` of a JSON integer beyond its range raises `OverflowError`,
  which is caught nowhere, so an unusable answer ends the run. It is the state `raised`
  of `LlmCalls`.

## 6. Proofs

For every value of the constants that satisfies the named assumptions (any
processes, cases, caps, budget, modes, replies of the language model, deaths and
lost calls):

| Theorem | Module | States |
|---|---|---|
| `Invariant` | `RunnerProofs` | `Spec => []IInv` |
| `TypeSafe` | | `Spec => []TypeOK` |
| `OneLinkPerRow` | | `Spec => []SecondLinkUnreachable` |
| `RemindersClimbed` | | `Spec => []ExhaustedMeansAllReminders` |
| `HumansDecideHighAmounts` | | `Spec => []HighAmountNeverContacted` |
| `LinksAreUnique` | | `Spec => []RerunsNeverDuplicateLinks` |
| `OptOutStops` | | `Spec => []OptOutIsAStop` |
| `WaitsAreEarned` | | `Spec => []WaitIsEarned` |
| `TurnsMakeProgress` | | `Spec => []LoopMakesProgress` |
| `TurnsSuffice` | | `Spec => []BudgetSuffices` |
| `TrailInvariant` | `TrailProofs` | `Spec => []TrailInv` |
| `TrailBacksStatus` | | `Spec => []StatusBackedByTrail` |
| `OutcomesAreExplained` | | `Spec => []TrailExplainsOutcome` |
| `SoloInvariant` | `SoloProofs` | one process: `Spec => []SoloInv` |
| `RowsAdvance` | | one process: `Spec => RowsOnlyAdvance` |
| `LifecycleImplemented` | | one process: `Spec => ClimbsTheLadder` |
| `ContactsAreLicensed` | | one process: `Spec => ContactIsLicensed` |
| `AttemptsAreAnswered` | `LedgerProofs` | `Spec => []AttemptsAnswered` |
| `CasesDetectedOnce` | | one process: `Spec => []DetectedOnce` |
| `PaymentsAreRecovered` | | one process: `Spec => []PaidIsRecovered` |
| `ContactsAreAccounted` | | one process: `Spec => []ContactsAccounted` |
| `CommandsInvariant` | `CommandsProofs` | `CommandsSpec => []CommandsInv` |
| `CommandsAreTyped` | | `CommandsSpec => []CommandsTypeOK` |
| `RowsAreWellFormed` | | `CommandsSpec => []RowsStayWellFormed` |
| `ReseededLinksAreUnique` | | `CommandsSpec => []RerunsNeverDuplicateLinks` |
| `RowsStaySafe` | | the same of `SecondLinkUnreachable`, `ExhaustedMeansAllReminders`, `HighAmountNeverContacted`, `OptOutIsAStop`, `WaitIsEarned` |
| `SeedInvariant` | | `CommandsSpec => []SeedInv` |
| `BatchIsWhole` | | `CommandsSpec => []RecordedBatchIsWhole` |
| `PayersInvariant` | | `CommandsSpec => []PayersInv` |
| `RecoveriesAreCaptured` | | `CommandsSpec => []RecoveredAreCaptured` |
| `UnforcedInvariant` | `OperatorProofs` | `Unforced`: `CommandsSpec => []UnforcedInv` |
| `StatusStaysBacked` | | `Unforced`: `CommandsSpec => []StatusBackedByTrail` |
| `ReportAgrees` | | `Unforced`: `CommandsSpec => []RecoveriesAgree` |
| `BooksBalance` | | `Unforced`: `CommandsSpec => [](AnswerInv /\ CountInv)` |
| `ContactsStayCounted` | | `Unforced`: `CommandsSpec => []ContactsAreCounted` |
| `AttemptsStayAnswered` | | `Unforced`: `CommandsSpec => []AttemptsAnswered` |
| `TurnsInvariant` | | `CommandsSpec /\ []OneAtATime => []TurnsInv` |
| `SeedAloneTakesBack` | | `CommandsSpec /\ []OneAtATime => OnlySeedTakesBack` |
| `EndsStayAudited` | | `CommandsSpec /\ []OneAtATime => []EndsAreAudited` |
| `SerialIsOrderly` | | `Serial`: `CommandsSpec => []Orderly`, which includes `[]OneAtATime` |
| `ReasonsInvariant` | | `Unforced`: `CommandsSpec /\ []Orderly => []ReasonsInv` |
| `EscalationsStayExplained` | | `Unforced`: `CommandsSpec /\ []Orderly => []EscalationsExplained` |
| `CallsTypeSafe` | `RazorpayCallsProofs` | `Spec => []TypeOK` |
| `WritesOnce` | | `Spec => []WritesApplyOnce` |
| `RaisedInside` | | `Spec => []LoopRaisesInside` |
| `CallsInvariant` | `ServiceCallsProofs` | `CallsSpec => [](LoopInv /\ DiagnosisInv)` |
| `CallsStaySafe` | | `CallsSpec => [](TypeOK /\ WritesApplyOnce /\ LoopRaisesInside)` |
| `DiagnosesStayAllowed` | | `CallsSpec => []DiagnosesAreAllowed` |

### `Runner`

The properties are not inductive. A row is copied to a snapshot, from there to the
memory of a process, and much later back over a row that may have changed; so
what protects a row must be true of each copy alone. `Held(F)` says it, where `F` is
the failure each case has, whoever writes its row:

- the types, and that only rows of the snapshot are selected;
- `RowsInv(F)`: each row there is, is of its case and failure and has its `Shape`
  (one link at most and exactly with an id, reminders only on a usable link,
  exhausted only at the cap, opted out never with a conflicting end, waited only
  when transient, no link above the amount);
- `ServiceInv(F)`: what Razorpay has done for a case; the first reference id is the
  only one ever used;
- for each process, `SnapOK(F)`: its snapshot has the shape and the failures of the
  rows; `CurOK(F)`: the same of the case in memory; `TurnOK`: until it runs, the action
  is the one policy decides on the case in memory, and after it has run, an open
  case has moved one rung for each turn (`Climbed`), counted from the copy in the
  snapshot, where this invocation found it (`Opened`).

`IInv` is `Held(RowFailures)` and no row missing, which is so where only runs write. The
lemmas are about `Held(F)` for any `F`, so that they serve `Commands` too, where rows
come, go and are written by others.

The argument: `DispatchFacts` shows that the executor, given policy's own decision
on an open case of the right shape, returns one of that shape, one rung up if it
reports success; `AnswerFacts` shows the same of the customer's answer;
`UpsertKeeps` that saving such a copy keeps the rows; `OthersKeep` that a step
of one process does not disturb another. One lemma per group of actions follows,
`NextKeeps` collects them, and the theorems are corollaries of `Invariant`.

`TrailInv` adds what is on the trail. `Backed` says of a copy of a case that the trail
holds what justifies its status; rows of the trail are never taken back, so a copy
once backed stays so wherever it is carried (`JustifiedGrows`), and a snapshot taken
of backed rows is backed. `VerdictOK` and `ResultOK` say what the turn has appended by
each `pc`: without them nothing would connect the status a turn saves with the verdict
it logged four commits before. `TrailExplainsOutcome` is part of the invariant: a new
`case_terminal` row is explained by its turn, and an old one stays explained.

`SoloInv` is for a process that works alone: exactly one process (`Solo`), started as
often as one likes, or while the others are idle (`Alone`, which `Commands` uses). Then
snapshot and memory are what the rows say (`InStep`), except while a rung is being
saved, where memory is one rung ahead; so what the process does to its copy is what
happens to the row. `DispatchRises` and `AnswerRises` show that the executor and the
customer move a case one rung (`Rises`, the moves of `CaseLifecycle` as a relation),
`SoloSaves` that the save carries it over, and the refinement follows step by step:
a save is a move, everything else a stutter. `WaitsFirst`, that a transient failure
has its link only after its wait, is needed because the ladder has no wait above the
link.

The theorems of `LedgerProofs` count, and each has an invariant that says which
step pays for what is missing:

- `AnswerInv`, for any processes: an invocation has its number to itself
  (`OwnRows`), the result of a turn is not on the trail while it is still `Due`, so
  an answer is never taken for that of another turn; the attempts without a result
  are at most the deaths and the processes in flight.
- `DetectInv`, for one process like the two below: the case in memory has no
  detection row before `detect` and one after it. With two processes both may pass
  the check before either writes.
- `PaidInv`: a case with a payment on the trail is recovered in its row or, at
  `apply`, in memory; a death there forgets that one case.
- `ContactInv`: what Razorpay has done for a case is counted by the copy in memory
  while it is being saved, and by the row otherwise, but for one contact for each
  lost call and each death. `DispatchCounts` shows that an answered call is counted
  at once, `RisesCounts` that a death forgets at most one.
- `CountInv`, for any processes: what Razorpay has done is at most the attempts on the
  trail that are no longer about to be executed (`Trying`). An attempt is a new row
  (`AttemptIsNew`), and one call follows it at most (`MadeOnce`).

### `Commands`

`detect` and `seed` write rows beside the runs, and `seed` deletes them, so the failure
of a case cannot be read off its row. `Failures` reads it off what will fail and what
the batch will hold, which never change. `CommandsInv` is `Held(Failures)`, the types,
`MergeOK`: the row `detect` has read is a copy of an open case, and `SeenOK`: each row
`report` has read is a copy of its case. `DetectingKeeps` and
`SeedingKeeps` show that both write only copies, so every lemma about runs applies
whatever they overlap, and the shape of rows, the uniqueness of links, the caps and
the opt-out hold with no hypothesis on the operator. Beside it stand `SeedInv` (behind
the seeder there are a row and a truth for each case, and nothing that runs beside it
deletes either) and `PayersInv` (a payment on the trail is of a profile that pays,
also on the copy of the trail that `report` holds).

Other properties are true only of some operators. The hypotheses are:

- `Unforced`: `--force` is never given (`TRUE \notin Forces`). A forced seed drops the
  trail before it deletes the rows, and what is read in between is backed by nothing;
  `AsideWrites` shows that otherwise only open rows are written beside the runs, so
  `TrailInv` stays. `ReportInv` says that what `report` has read of the rows is backed by
  the trail, first the one in the store, then the one it has read. Runs, `detect`, `seed`
  and `report` may overlap as they like.
- `OneAtATime`: of the commands that write, at most one is at work. `TurnsInv` then
  says of the process at work what `SoloInv` says, and that `detect` still finds in the
  row what it read, so that its write changes nothing. `AuditedInv` adds the two commits
  of a wipe: between them the trail is empty.
- `Orderly`: that, and no seed while a report is being read. `SerialIsOrderly` shows that
  the operator of the `turns` run, who starts a command when no other is at work, keeps
  both. `Orderly` leaves more: a report may be read beside a run or a detect.

`ReasonsInv` is behind `EscalationsExplained`. `report` finds the last diagnosis and the last
verdict for a human apart; `Told` says that both are of one turn and fit. The
invocation at work has the highest number (`TurnTold`), so what it finds comes last, and
of the cases it still has to take it has found nothing; `DiagnosisTold` and `VerdictTold`
follow one turn. Once a row is escalated no run diagnoses it again (`RowsTold`).
Neither half of `Orderly` can go, as TLC shows on an instance like `reporting`: with two
runs at once, the second one diagnoses a case the first has handed over; with a second
seed, after a first that died, between the first two queries of a report, the case is
made new and diagnosed again before the trail is read.

### The calls

`LoopInv` of `RazorpayCallsProofs` says that a write being tried has not been applied
and never sleeps, and that a read that sleeps has a try left. `DiagnosisInv` of
`ServiceCallsProofs` says that a question is asked only of a failure no rule knows, and
that the diagnosis last returned is one of `Diagnoses(failure)`, the set from which
`Runner` draws.

### Assumptions, and what is only model-checked

`CapsAssumption`, `LlmAssumption`, `StoreAssumption`, `RazorpayAssumption`,
`RunnerAssumption`, `DetectorAssumption`, `SeederAssumption`, `ReporterAssumption`,
`CommandsAssumption`, `LlmCallsAssumption`, `RetriesAssumption`. They are the types of the
constants, with `MAX_LINKS` and `MaxSteps` positive, one to five retries
(`config.py:25`), and no payment with the id of a case of the batch, and TLC evaluates
them in the runs. `Solo` is a hypothesis of the seven theorems that name one process; it
is false of overlapping runs, and so are they.

Every safety property and every action property of the passing runs is proved. Only
model-checked is liveness (`RunsReturn`, `SeedCompletes`, `ListedBecomeCases`,
`SelectedCasesSettle`, `CallsReturn`, `QuestionsEnd`), which, with `ENABLED`, is out of reach of
the provers used.

## 7. Not modelled, and what is left

- `config.py` parses the environment. What the program reads of it are constants here.
- `ping` and `audit` print what they read; so do the text export of the trail and the
  markdown of the report.
- Timestamps of the trail, hence a clock that goes back and ties broken by a random
  event id. Both could reorder the rows of a turn in the audit command; in the report
  they could pick an earlier verdict of an escalated case.
- Two seeds at once: the second `record_batch` fails on the primary key after its rows
  have overwritten those of the first. What that does to rows is what finding 5 shows.
- `list_payments` reads a hundred payments and no further page.
- Order creation, `fetch_*` and cancelling of links: no command calls them.

Worth doing next: a clock for the trail, so that a report could be asked what a clock
that goes back does to it; two seeds at once; and a theorem that `ContactIsLicensed` and
`ContactsAccounted` hold of commands that take turns.
