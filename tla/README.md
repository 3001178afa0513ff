# Verification of oktoberfest-monitor

TLA+ models of the monitor, TLC runs over small instances, and TLAPS proofs for
all instances. Paths below are relative to the repository root (`src/` here is
the Python package, `src/src/` in a checkout that holds the repository in
`src/`). Run everything from this directory:

    tlc -workers 2 -config OutboxEvent.cfg MCOutbox.tla
    tlc -workers 2 -config Monitor.cfg MCMonitor.tla
    for m in *_proofs.tla; do tlapm $m; done

`PROJECT.json` lists which module each run checks, which source lines every
definition stands for, the seeded faults each property was seen to detect, the
hazards, the findings and the theorems.

## 1. The system

A GitHub Actions job runs every five minutes. It checks out `main`, probes a
batch of beer-tent booking sites, writes what is news into an outbox inside
`state/state.json`, commits and pushes that file, and then sends one Pushover
message part at a time, with a commit and push after each. The state file on
`main` is the only durable memory; the disk of a runner dies with its job.

| Component | State it keeps | Operations | Modelled in |
|---|---|---|---|
| Observations, baseline, alerts (`src/events.py`, `src/notification_policy.py`, `src/state.py`) | per tent and date: verified status, shifts, evidence latch, `alert_sequence` | `apply_probe_result`, `_enqueue_availability`, `canonicalize_shifts` | `Availability`, promise in `AlertPolicy` |
| State file and migration (`src/state.py`) | the file | `load`, `_migrate`, the validators, `save` | `Migration`, as the initial states of `Availability` and `TentHealth` |
| Tent health and incidents (`src/main.py`, `src/events.py`) | per tent: three streak counters, open incident, its number and kind | `_record_tent_health`, `enqueue_monitor_error` | `TentHealth` |
| Outbox delivery (`src/outbox.py`) | per event: status, cursor, due time, attempts and deferrals per part; per channel: quota | `deliver_next`, validation and quarantine, `requeue_dead_letter`, `prune_delivered` | `Outbox`, promise in `EventLife` |
| Pushover client (`src/notify.py`) | none | `send_event_part`, `_quota_metadata`, `_retry_at` | the answers in `Outbox` |
| Checkpoint script (`scripts/checkpoint_state.sh`) | local commit, basis file, attempt | commit, fetch, push, retry, refuse | `Checkpoint`, promise in `StateStore` |
| Workflow (`.github/workflows/monitor.yml`) | where the job is, its clock | checkout, `--probe`, checkpoint, `--deliver-next` loop over exit codes, time budgets | `Monitor`, of `EventLife` too; budgets in `JobBudget` |
| Probe rotation (`src/main.py`, `src/config.py`) | `probe_rotation_cursor` | `_select_probe_batch` | `Rotation`, run by the jobs of `JobBudget` |
| Probe run (`src/main.py` `probe_run`, `_check_one`, `_run_bounded_http_adapter`) | browser session, HTTP threads and their queues | dispatch to fetchers, apply, save | `StructuredProbe`; its order in `Monitor` |
| Reservierungsmanager, Käfer, Flößerstadl fetchers | requests, deadlines, session token, page and waiters | `fetch`, parsers | `Feeds` (parsers), `KaeferPage`, `StructuredProbe` |
| Probe result (`src/probe.py`) | immutable | `__post_init__` | `Feeds` |
| Festzelt-OS fetcher (`src/fetchers/festzelt_os.py`) | one page, the update monitor, timers | `fetch`, `_probe_target` | `WizardProbe` |
| Legacy fetchers (`api`, `html`, `hash`, `headless`) | none, a content hash | `fetch` | not modelled |
| Configuration, target dates | none | load and validate YAML | order of tents only |

How they interact: fetchers return a `ProbeResult` per date; `probe_run` applies
each to the baseline (which may enqueue availability events), records the
health of the tent (which may enqueue an incident), moves the cursor and saves.
`deliver_next` reads the same file in a later process, calls the provider, and
saves. Nothing is shared but the file; the script moves it to and from `main`.
Within a probe, the threads of the HTTP adapters share one queue each with `main`.

### What is hard about it

* Processes die anywhere: between a provider's acceptance and `save()`, between
  `save()` and the push, in the middle of a push that the server still applies.
* A call that failed may have been accepted: a read timeout, an answer of a gateway and
  unreadable JSON are retried (`src/notify.py`), and the provider has no idempotency key.
* A push that timed out has an unknown outcome, and may be applied late, after
  the next fetch or by the time another job runs.
* A job has one budget for setup, probe, sends and pushes; whatever takes how long, the
  platform must not be the one that ends it once it sends.
* Times come from three clocks with two precisions: full seconds from
  `now_iso()` and the provider's epochs, fractions in acknowledgements.
* Budgets, quotas, due times and cursors are validated before each delivery; a
  legal sequence of steps that fails validation makes the program quarantine an
  event of its own making.
* Observations contradict each other, or are unreadable for many runs, and the file
  they are compared with may be of an older schema; still neither a missed nor a
  repeated alert is acceptable.
* A thread that a portal holds outlives the tent it was started for.
* A booking page re-renders, and an application goes on sending requests, while it is
  being read; answers to an earlier date arrive while a later one is being probed.

The `hazards` of `PROJECT.json` name each of these at the line where it bites.

### What makes each component correct

* Baseline: always savable; every shift that becomes the baseline was announced;
  nothing is announced twice without a loss of evidence in between; all of it also
  for a baseline that was migrated.
* Health: an incident after exactly `FAILURE_THRESHOLD` unhealthy runs, at most
  one alarm per kind and episode, none lost; for a tent of an older state file as far as
  that file records what was reported.
* Outbox: parts in order, one repeated only after a killed process or an answer that
  could not be read, and once for each of these; gaps kept; budgets bound every event;
  delays bounded; own events always valid; continuations first; channels apart.
* Checkpoint: no update lost; a reported commit is on `main` for good.
* Workflow: nothing is sent that `main` does not know; one fault repeats at most
  one part, where a call that merely fails costs none, and one that the provider accepted
  although its answer was lost or unreadable is a fault; nothing is skipped; everything visible is settled in the end; every job
  ends within its budget.
* Rotation: every enabled tent once per rotation, within a bound, and again and again.
* Structured portals: late threads are inert; an error is the portal's; no absence and
  no shift that the answer does not show; the batch ends.
* Wizard: a list is never attributed to another date; absence is real; a prompt
  answer is not missed.

## 2. Modules

**`AlertPolicy`** is the promise to someone who watches one tent on one date: what
is proved visible, whether that is in doubt, and that exactly the news is
announced. **`Availability`** is `apply_probe_result`: the actions `Unknown`,
`Failed` and `Reliable` are the three exits of the function, reached through
`Effective`, which holds the defensive downgrades in their order. `Enqueue` is
`_enqueue_availability` with its `setdefault`. The labels of a page are model
values and `ShiftKey` is what the canonicalising regular expressions yield, noise
included. `announced` and `unread` are history. It implements `AlertPolicy` by
mapping `shown` to the baseline and `doubt` to `unread`.

**`Migration`** is one date of a tent in a state file of schema 1, 2 or 3, `_migrate`
in its order (`Proven`, `EmptyRejected`, `Demoted`) and the validator of
`TentDateState` (`Loads`). `Availability` starts from a new tent or from any migrated
one. `RawV1` and `RawV2` are what the old programs wrote: a hand-edited schema-2 file
that calls itself available with healthy diagnostics but has no keys is refused on load
and not among them.

**`TentHealth`** is `_record_tent_health`: `Healthy` and `Unhealthy` are its two
branches, `Opens` and `Escalates` its two reasons to raise an incident. `Init`
takes any tent of an older snapshot (`inherited`, one of `OldTents`: any two counters
beside any open flag and incident number) through `_migrate`; a new tent is the one with
nothing in it. `history` holds the runs of this program only. What the older program
reported is not recorded anywhere, so the properties take the migrated file at its word:
an incident open in it counts as reported, in the kind `_migrate` gives it. That word can be
wrong. With failures 1, degraded 4 and an open incident the older alarm was about a degraded
tent, the migrated kind is "error", and the error is never escalated; with failures 0 and
degraded 1 after an error alarm the kind is "degraded", and the error alerts again.

**`Outbox`** has one step per process of `--deliver-next`. A process either
quarantines one poison event (`QuarantinePoison`) or selects an event, sleeps until
it is due, calls the provider and saves; the step is parameterised by the time the
call starts and ends, and its alternatives are the answers: `PartAccepted`,
`RateLimited`, `SendFailed`, `SenderRaised`, and `KilledMidCall` for a process that
dies before `save()`. `Enqueue`, `Requeue` and `Deploy` are the other writers. Time
is in ticks, `TicksPerSecond` of them to a second; `WholeSecond`, `NextSecond` and
`Iso` are the three roundings. `acked`, `last_ack`, `overtaken` and `call` are
history, and `acked` is the provider's: each part it accepted, whether or not the program
learned of it. A process killed in the call may leave an acceptance behind, and so may a
call that failed or raised (`MaybeAccepts`, counted in `unread`). Pruning (`Pruned`) is
part of the step, as in the code.

**`EventLife`** is what a state file promises about its events: each is enqueued once, its
cursor passes a part only when the provider has accepted it, it is delivered when all are
passed, and a settled one comes back only by a requeue. `Outbox` implements it with the
parts in `acked`; a quarantined event is a placeholder of what it was (`Told`), a pruned
one stays delivered.

**`StateStore`** is the promise of the remote branch: a log that only grows, each
commit computed from the one before it. **`Checkpoint`** is the script, one action per
outcome of each git command, for jobs that overlap freely. It implements `StateStore`
with the branch as the log.

**`Monitor`** composes: jobs of the workflow one after another, with one finding per
tent for the events of `Availability` and `TentHealth`, a queue entry for an event of
`Outbox` (no time, no quota, one budget), and for a checkpoint the outcomes
`Checkpoint` allows. That an event may be a queue entry here is `EventLife` again: the
events on `main`, over all jobs, live as those of one `Outbox` do (none is pruned here). A call that fails may have been accepted
(`SendFails`); that is a counted fault like a crash. Every `deliver_next` that changes anything and every probe change
the state file, so the script's early exit for an unchanged file does not occur here.

**`Rotation`** is `_select_probe_batch` while deployments enable and disable tents.
**`JobBudget`** extends it with the jobs that run it: the clock of `monitor.yml` from
"Start end-to-end runtime budget" on, a setup that may take longer than the platform
allows, the probe under `timeout` (`Terminated` saves
nothing and leaves the cursor), checkpoints that are accepted, fail, or are refused
because a deployment moved `main`, and the delivery loop with its exit codes, its
reserve and its cut of the wait (`WaitUpTo`). It implements `Rotation`.

**`Feeds`** holds the parsers of the three structured portals as functions from what an
answer holds to the result, and the two statements of what a reliable result needs:
`ProbeResultAccepts` (`ProbeResult.__post_init__`) and `StructuredReliable`
(`events._structured_reliable_error`). Parts of an answer carry exactly what a parser
tells apart: readable or not, of the tent or not, which date and time.

**`KaeferPage`** is `kaefer.fetch` next to the application in the page, which sends its
slot request perhaps twice and may try a write at any moment: the two waiters
(`HeadersArrive`, `Completes`), the read-only route (`EnforceReadOnly`) and the five
steps of the fetch.

**`StructuredProbe`** is one batch in `probe_run`. `_check_one` dispatches each tent to
the browser or to a thread under a wall clock. A thread sends its requests
(`LandingAnswers`, `Answers`, `Unauthorized` with the one refresh of the token),
each with its deadline, and `Puts` its item into its own queue; `main` `Takes` it or
`GivesUp`, after which the thread goes on beside the following tents. `Rotates` is the
site changing its token. `blame` is history: what the current portal did to its thread.

**`WizardProbe`** is `fetch` and `_probe_target`, next to the page. The prober's steps
are its separate readings: `Discover` (an iteration of `_wait_for_date_control`),
`ConfirmAbsence`, `ScanInitial`, `Arm`, `Select`, and per iteration of the update loop
`ScanDates`, `ScanShifts`, `Judge`; time passes in `Wait` only. `update` is
`_WizardUpdateMonitor`. The page appends dates, sends and answers requests, empties and
renders the shift control at any moment in between. A *glitch* is a reading that differs
from the page, or a page that blocks the prober.

The modules `MC*` give the constants of the runs their values, the modules `*_proofs`
hold the theorems. Definitions marked `Seeded fault` are never part of a specification:
each is a plausible bug, and replacing the definition after it by it violates the
property named in `PROJECT.json` under `mutants`.

## 3. Runs, bounds and what they show

| Run | Instance | Shows |
|---|---|---|
| `availability` | 4 labels of 2 shifts, one cosmetic variant, one noise; alert numbers up to 4; every raw state of the three schemas | the baseline's properties and refinement of `AlertPolicy` for every sequence of observations |
| `tent_health` | threshold 3 (the code's), 7 runs; counters of 0 to 4, either open flag, and 0 or 1 old incidents in an older snapshot | alarms exactly when due, for every history |
| `outbox_event` | one event of up to 3 parts, 2 attempts, 2 deferrals, 7 half seconds, late sleeps, slow calls, one kill, one unread answer, requeue, deployment; a delivered event is pruned at once | order and bounded repetition, cadence, bounded delay, progress, no self-made poison, refinement of `EventLife` |
| `outbox_shared` | three events on two channels, quota and Retry-After dates | continuations first, quota respected per channel, and channels apart |
| `outbox_live` | two events, prompt service, quota, kill, deployment | each event is settled |
| `checkpoint` | two overlapping jobs, two commits each, 3 attempts, two developer pushes, late landings | durability and refinement of `StateStore` |
| `checkpoint_comment` | one job, two attempts | finding 1 |
| `monitor` | 3 tents in batches of 2 (a short last batch), one burst, two faults of any kind, unread answers included | the end-to-end properties, liveness and refinement of `EventLife` included |
| `job_budget` | 3 tents, batches of 2, 2 deployments; budgets of a few units that satisfy the stated inequalities, the tightest with equality; setups longer than the limit | every job in time, fairness and progress of the rotation |
| `structured_probe` | one tent of each mode, every answer of up to 2 tickets, 3 fields or 3 rows from a catalogue of odd ones, two token changes, two slot requests | inert late threads, honest readings and errors, the batch ends |
| `wizard_probe` | 2 dates, 2 lists, one foreign request, one glitch, stability 2 polls, timeouts 3 and 5 polls | attribution, absence, prompt answers on a Livewire page |
| `wizard_foreign` | the same, no wire:model, no glitch, no foreign request | finding 2 |

Type invariants are proved rather than run.

Why the bounds suffice. `Availability` and `Rotation` keep no unbounded data but the
alert number and the history; two keys distinguish kept, new, lost and quiet shifts,
and the proofs remove the bounds. Seven runs hold two episodes of
three with a healthy run between them; counters up to 4 lie below, at and above the
threshold, and every combination of them with an open incident occurs. In `Outbox` a burst of three has a first, a middle and a last part, two
attempts a first and a last one; half seconds are the coarsest grain on which
truncation and rounding differ; a ceiling that is below `RetryAfters` and above the
gaps makes the cap bite. `outbox_shared` and `outbox_live` leave unread answers out
(`MaxUnread = 0`): an acceptance the program does not learn of changes nothing
but `acked`, which their properties do not read. `BurstCadence` is exact to the tick: the code
takes a sleep as over when it wakes up to 1 ms early (`src/outbox.py:471`), which is below
any tick and within what the property leaves open. Two jobs and three attempts let a push of one land between
the fetch and the push of the other and be found by the own next fetch. In `Monitor`
two faults let a late push meet a crash. In `WizardProbe` the stability window
exceeds one poll, the answer of the first date can outlive its probe, and the update
timeout leaves room for one restart of the window. One target date is configured at present;
what two dates on one page show is what the code allows for.

`JobBudget`: the code's values are 270 s for everything, 50 s reserve, waits up to 35 s,
5 s to the second signal and 300 s for the job. The environment's are bounded by
the code too: a checkpoint takes at most 37 s (two attempts of a fetch and a push of
8 s each, 1 s to kill each, and 1 s between them), a call 30 s (three phases of an
httpx timeout of 10 s). The comment on the reserve means one call and one checkpoint to
fit in it; 30 + 37 s do not, but what has to hold does: a call begins before 220 s, and
220 + 30 + 37 < 300. `JobAssumption` states these inequalities, and `JobInTime`
is proved from them. It is about a job from its probe on: nothing in the code
bounds the setup (checkout, Python, browser), which the platform may have to end, and then
nothing was sent (`MaxSetup` exceeds `Limit` in the run). A response that drips for ever is outside (httpx limits phases,
not calls); the job is then killed, which `Monitor` covers as a crash.

`StructuredProbe`: a tick is 10 s, which rounds the code's 20 s per request, 60 s per fetch
and 65 s of wall clock to 2, 6 and 7, and 20 s and 25 s of the Flößerstadl to 2 and 3; the
proof needs only the inequalities of `ProbeAssumption`. The batch puts both threads
before the browser, so that an abandoned one is still running in both kinds of waiting.
The token changes only while `main` waits for a thread that uses it; two changes are one
more than the refresh can stand. Two parts of an answer are enough for a contradiction
between them, the catalogue of `MCStructuredProbe` holds one part per reason to distrust it.

Deadlock is checked where a specification cannot stop (`monitor`, `job_budget`,
`wizard_*`). The others end when their bounded clock, counters, jobs or batch are used up,
and say `CHECK_DEADLOCK FALSE`.

### Fairness

* `outbox_live` (`PromptSpec`): within a job the workflow calls `--deliver-next` until
  it reports idle or deferred (`monitor.yml`, exit code 3), so time passes unused only
  when nothing is due within reach, and the delivery of something due is weakly fair.
  A kill is possible but bounded.
* `monitor` (`FairSpec`): the schedule dispatches jobs for ever and a job runs on
  (`WF(Workflow)`). Which event a process selects, and whether a job ends before its
  delivery, depends on due times and the reserve; due times are bounded
  (`DeferralBounded` in `Outbox`), so a delivery possible again and again is made some
  time (`SF(Deliver)`). Faults are bounded by `MaxFaults`.
* `job_budget` (`JobSpec`): jobs are dispatched and go on. That setups which leave a
  budget, probes that fit in it and checkpoints that are accepted occur again and again is
  an assumption on the environment (`SF`), and the weakest under which tents are
  visited: nothing says when, or that two of them are in the same job. A batch whose
  sites are slow for good violates it, and is then retried for good while the rest of the
  rotation waits: `README.md` of the repository says so ("an interrupted or uncheckpointed
  run retries the same group").
* `structured_probe` (`Spec`): time passes, `main` and a parser go on, and waits in the
  browser have deadlines. Of the portals nothing is assumed.

### Assumptions on the outside

* git: a push is accepted if and only if it is a fast-forward of the branch.
* The provider: any answer at any call; its clock agrees with the runner's.
* The page of the Käfer application sends its requests through the browser, so that the
  route sees each of them.
* A booking page answers its requests in the order sent, lists all its dates within
  `LoadTime` of navigation (less than the date timeout), and renders a completed answer
  within `StableFor` polls (500 ms with the defaults). The last is a limit of the code
  that the model made visible: with `ApplyTime = StableFor + 1` the list
  that stood there before, the earlier date's, is accepted for the later one, because
  the wait after the response and the stability window together are all the time the
  page is given.

## 4. Findings

1. `scripts/checkpoint_state.sh:47` says that after a push that timed out the following
   fetch checks whether the commit was accepted. After the last attempt there is no
   following fetch: the script reports failure although `main` holds the commit
   (`checkpoint_comment`). The job ends; `Monitor` shows that this costs at most
   one repeated part.
2. `src/fetchers/festzelt_os.py:5` says that target-specific update evidence is required
   before shift options are attributed. On a page without `wire:model` any mutation of
   the shift control after the selection counts, and so does the late answer to the
   date probed before (`wizard_foreign`). On Livewire pages the paired request closes
   the hole (`Attributed` in `wizard_probe`).

## 5. Proofs

Every theorem is about the specification of its module (the runs that add fairness imply
it) for all values of the constants that satisfy the named `ASSUME`s; TLC evaluates these
in the runs. Each module has one inductive invariant, with a lemma per action.

`Availability_proofs` (any labels, keys, burst policy and bound on the alert number; any
migrated start): `TypeCorrect`, `AlwaysSavable`, `AlwaysAnnounced`, `AlwaysDeliverable`,
`NeverRepeated` and `Refinement`. None of the invariants is inductive alone. `IInv` adds
that the announced shifts are exactly the baseline, that the evidence latch of the code
is set exactly when the shifts were unreadable since they were last proved (`unread <=>
availability_evidence_lost`, the heart of it: three code paths set or clear the
latch), and that no event carries a number above `alert_sequence`, so that `setdefault`
never meets an existing id. `ReliableAlert` shows what a reliable observation enqueues;
`NeverRepeated` and the step of `Refinement` follow from it.

`TentHealth_proofs` (any threshold and any older snapshot): `StreakInv` says that the
counter is the length of the unbroken run of unhealthy verdicts at the end of the history,
which goes back into the snapshot, to its longer counter, as long as no run was healthy.
`OpenInv` says when the open flag stands: the counter has reached the threshold, or the
snapshot's incident has not ended; `KindInv` that the recorded kind is the gravest alarm of it.
`NoEarlyAlarm`, `OneAlarmPerKind` and `AlarmNotMissed` are about all of the history, so they
are carried along and only their last entry is new. `NumbersInv` counts the incidents beside
the snapshot's: as many as alarms, numbered from the next number on, hence `AlarmsEnqueued`.

`Outbox_proofs` (any events, gaps, budgets, delays, headers, clock granularity and
counts of kills, unread answers, requeues and deployments):

* `TypeCorrect`, with lemmas on the roundings, the quota record and the retry time.
* `Agreement` ties the cursor, the accepted parts and the status of each event
  together: the parts go on in order, none is beyond the cursor, and there are at most as
  many as the cursor, the kills and the unread answers together. `OrderedParts` and `CompleteDelivery` follow from it; completeness alone
  is not inductive, since a cursor without its parts could be delivered.
* `LifeRefined`: each step is `About` one event at most, which it turns, starts, replaces or
  advances, and of which the provider then has at most the part at the cursor more; the
  others stay, or are pruned. `AboutLives` and `AboutAccepts` map that to a step of
  `EventLife`. `Plain` is needed for the placeholders: whatever is done to one, it stays
  an event of one part.
* `CallsProgress`: every answered call settles its event, advances its cursor or spends
  a budget of the unresolved part. It needs the validation of the counts at the cursor,
  which every call passes (`CallFacts`).
* `Cadence`: for every unfinished burst the gap before its next part is over, or its
  due time waits for it. A dead letter has no due time, so for it the gap must be over
  by the time it is requeued; `CadenceNext` needs that no time is rounded down
  where the gap is written (`Iso`), and that retries and quota gates only postpone.
  `CadenceKept` is then `BurstCadence`.

Its second half bounds what the delays and budgets can do:

* `OwnEventsValid`: `Sound` is a per-event invariant stronger than validity, for dead
  letters too, whose counts and times count again once they are requeued: the budgets
  are not spent at the cursor and untouched above it, and no time is before the
  (rounded) creation. The default delay and the rounding of a second
  must fit in the maximal delay (60 s against 35 days in the code).
* `ExhaustedNotCalled`: a quota is recorded with a reset at most `MaxDelay` ahead
  (`QuotaSoon`), so the validation that discards one further away never discards one
  that still binds. For the channels apart: an event of a channel that is not
  exhausted is due at its own time, so that when it is due, what is selected is due too.
* `DeferralsBounded`: every due time is within the delays of the present (`DueSoon`).
* `ContinuationsFirst`: an event that was overtaken while due stays a due continuation
  until it is selected or starts over, so a second overtaking would have selected it.

`Checkpoint_proofs` (any number of jobs, commits, attempts, foreign pushes, and late
landings): in the invariant each job's basis is on `main` and its own revision at most one
commit ahead of it (`Basis`), each push in flight is one commit on top of a revision that
`main` once was (`Flights`), and no commit is by a job that has not begun (`Makers`). From it `ReadyIsDurable`, `AckedIsDurable`,
`BasisIsOwn`, and each step of `ImplementsStore` (`StoreRefined`).

`Monitor_proofs` (any tents, parts, faults): all state files there are, on `main`, on the
runner and in flight, count no part that the provider has not accepted (`AllSound`), and
`InStep` says which of them know which events. `NothingSkipped` and `SentIsDurable` follow.

* `AlwaysRepeatsBounded`. `RepeatsBounded` alone is not inductive: what is repeated later
  depends on what a later job will start from. The *loss* of a state file is what was
  repeated plus the accepted parts the file does not count as sent, that is, what would be
  repeated if everything went on from it. An acceptance that is recorded leaves the loss of
  its file alone (`OnceRecorded`: the part was ahead of the cursor before, or is new), one
  that is not adds one (`OnceLoss`). `Losses` bounds by the faults the loss of each file a
  job may start from; while a checkpoint is due `main` may lose one part more, and each push
  in flight, and a `main` that moved under a job, has one part in reserve (`Slack`) for the
  part that job may still send. The parts are a set, so the count is a cardinality and no sum.
* `AlwaysMainMovesOn`: over all jobs, `main` takes the rotation from one batch to the next,
  forgets no event, reopens no delivered one and records the parts one at a time, never
  going back. Each file that may become `main`, those in flight included, is one such step
  ahead of it (`OneAhead`): a late push lands on the revision it was made from or not at all.
* `LifeRefined`: what `main` moves by is a step of `EventLife`, since the file that
  moves it is sound (`AllSound`) and one step ahead (`OneAhead`); the provider accepts at most
  one part per step, of an event that `main` knows.

`JobBudget_proofs` (any budgets that satisfy the inequalities, tents, batch size):
`AlwaysInTime` bounds the clock per step of the job once its setup is over (no bound is
put on that); `JobsRotate` maps each step to one of
`Rotation` or a stutter; `AlwaysExactlyOnce` follows from `RoundInv`: in a steady
rotation the visited tents are exactly those before the cursor. `AlwaysWaitBounded`
needs to know where a tent stands: one at or behind the cursor waits for the tents between, in
full batches; one before it for the rest of this rotation, whose last batch may be short,
and then for the tents before it in the next. `Placed` says that the runs past and these
to come are within the rounds allowed. A run moves each tent it passes over up by a full
batch (`PlacedMoves`); a deployment may move everything, and a round is room enough
for any place (`Roomy`). Products with the batch size are taken apart in `Times`.

`StructuredProbe_proofs` (any batch, deadlines that nest, answers, numbers of token changes
and of slot requests): `EventDaysSound`, `FormFieldsSound` and `SlotsSound` are about the
parsers alone, for any finite answer: each result is accepted by both contracts and true
of the answer. They give `ReadingsAreTrue` and `ResultsAccepted`. `ErrorsAreTheSites`
needs the arithmetic of the deadlines: as long as no request took longer than `Prompt`,
the k-th request of a fetch begins by (k - 1) `Prompt` (`Latest`), and a second attempt,
or a stale token, costs the site a change each (`CurrentOK`). `AbandonedAreInert` is the
part of the invariant about threads that are not current, `AlwaysSlotsReadOnly` the part
about the page.

`WizardProbe_proofs` (any dates, lists, clock bounds, glitches, foreign requests, and timeouts
that satisfy `WizardAssumption`; but for `ListsAreAttributed`, for pages with a bound
control and without). The lemmas `DateLoops`, `DateScans`, `ShiftScans`, `Judgements` and
`Verdicts` say once what an iteration of each loop does, and each invariant uses them.

* `TypeCorrect`; in it `InTurn` (the probe is at the first target without a result) and
  `Chosen` (a selected date is listed).
* `LoopsEndInTime`, from `Deadlines`: which clock readings each step of a loop can see.
* `AbsencesAreReal`: the loop cannot have run for longer than the page has been there
  without everything being listed (`AllListedInTime`), and the absence is confirmed at the
  end of the full window, which is longer than `LoadTime`.
* `ListsAreAttributed` takes the hypothesis `LivewireBound`; without it the statement is
  false: the list of the date before is taken over (finding 2). `Stages` says where the request of the selection is: not
  selected, not sent, sent, answered and to be applied, rendered, or lost; behind it in the
  queue and in the page there is only traffic of earlier dates. `Timely` says that a finished
  answer waits no longer than `ApplyTime`, `Tracking` what a candidate is, and `Evidence`
  that candidates exist only once the paired request has succeeded, and that one is younger
  than the answer as long as the answer is not rendered, so that its time of
  stability cannot end first. Only together do they exclude that the earlier date's list,
  which stands there until then, is stable for long enough.
* `PromptAnswersAreRead`: `Prompt` follows the loop from the rendering on. Without a glitch
  the first reading after it is true, it is the candidate after one more turn and accepted
  `StableFor` later; the response counts as completed by then, by the observer
  where there is one (`Observed`), by definition where the control is not bound.

Model-checked and not proved: the liveness properties (`EventuallySettled`,
`EverythingSettled`, `NotStarved`, `BatchEnds`), which are out of the prover's reach. All
invariants and action properties of the passing runs are proved. The two properties that a
run shows violated are findings and have no theorem. No module uses a RECURSIVE operator.

## 6. Not modelled, and why

* What pages, labels and payloads look like: `canonical_shift_key`, `canonical_date`,
  `_update_payload_matches`, the text and JSON layer of the parsers, and the validation of
  the widget script (`extract_widget_config`: a page passes it or not). They are
  functions from text to the values the models start from.
* Message texts, TTLs and request ids of the provider calls.
* The legacy fetchers, which no enabled tent uses, and the validation of YAML files.
* The quarantine of malformed outbox entries on load: no sequence of the program's own steps
  produces one (`OwnEventsValid`), and for foreign ones the code is the statement.
* The replacement of the file in `save()`: a crash in it leaves the old file, which is a
  crash before it.
* A requeue of a sanitized placeholder within the second of its quarantine
  (`outbox.py:637`): what it should do is stated nowhere; see the hazards.
* Browser start, beyond that it may fail; per-date counters that nothing reads; diagnostics
  text; the summary of monitor errors.

## 7. Plan

Done: the modules above with their runs, and the proofs of section 5. What is left, in
order of worth:

1. A batch that mixes Festzelt-OS tents with the structured ones: the wizard's pages are
   closed before the next tent, so that only the order of results would be new.
2. An abstract specification of the wizard's answer (a list that was rendered for the date,
   or no claim) that `WizardProbe` implements where the control is bound.
