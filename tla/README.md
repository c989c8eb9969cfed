# Formal models of the Codex Native Coding Harness

TLA+ modules, TLC instances and TLAPS proofs kept beside `src/orchestrator`. They
are written from the Python source; a document is quoted only where the code
contradicts it (see *Findings*). Names follow the code where TLA+ allows.

## 1. The system

The program is an operations ledger for a human-owned Codex task, the *brain*,
which creates and supervises native implementation tasks in several repositories.
The code never runs work itself: it records intents, hands out one-shot
permissions for native effects, takes in observations and decides what may happen
next. State is in SQLite files: one **registry** per platform, one shared
**admission kernel** per platform and one **ledger** per workspace. The ledger
and the kernel are different databases with no common transaction. Every
coordinator commits the shared fact first and its local receipt after it, and is
built to survive dying between the two.

### Components

| Component (files) | State | Operations | Hard parts | What makes it correct |
|---|---|---|---|---|
| Shared admission kernel (`admission.py`) | allocations, account, claims, resource keys | open, observe account and usage, reserve, begin, bind, block, runner acquire and release, settle, close | aliased repository keys, slots counted over five statuses, tokens settled before or after a usage observation, late identities | one owner per key; keys follow the claim; slots bounded; settled tokens charged once; creation boundary crossed once |
| Legacy adoption (`adoption.py`, `admission_legacy.py`) | fence files, imported claims | preview, apply, recover | the fence is published before the store is known to be empty | a fence freezes ownership without losing it |
| Dispatch bridge (`dispatch_admission.py`) | worker rows, retained intents | reserve, begin_creation, recover | two locked sections per call with a gap; crash between two commits | permission only under current authority; recovery never resends |
| Native lifecycle (`native_lifecycle.py`) | append-only journal per claim, its local receipt, continuation marker | observe, begin_continuation, delivery, recover | an older journal state must not clear a newer local marker | one journal entry per correction; recovery open after a crash |
| Runner coordination (`runner_coordination.py`) | runner state in the journal, shared runner key, local runner slot | acquire, begin, observe_process, release | three places say who owns the runner | one acceptance process per workspace |
| Settlement (`ownership_settlement.py`, `creation_recovery.py`) | settlement records | terminal and not-created settlement, recover | late effects of settled work | nothing is given back that is under way |
| Run authority (`run_authority.py`, `task_contracts.py`) | run generation, task approvals | authorize, approve, revoke, stop | authority withdrawn inside a gap | one generation at a time, released by its own checkpoint only |
| Brain control and pause (`brain_control.py`, `workspace_pause.py`) | control phase, pause evidence | stop, resume, receive, observe, park | evidence older than the rows it speaks of | a stop wins; parked means quiet |
| Workspace ledger, legacy dispatch (`core.py`) | meta, queue, workers, commands | submit, process, approve, reserve, begin, bind, transition, runner, pilot, complete | controller expiry, uncertain creation, queued commands | one worker per repository, no blind retry |
| Enrollment, registry, identity (`enrollment.py`, `workspaces.py`, `reconciliation*.py`, ...) | registry tables, fence files, journal | register, enroll, recover, reconcile | commits workspace by workspace | a fence outlives a lost commit |
| Standard cooperative runs (`standard*.py`, `successor_phase.py`, ...) | `standardRun` in meta: tasks, clocks, budget, merge journal; quarantine file | Play, Pause, Resume, claim, issue, bind, observe, finish, checkpoint, merge, quarantine | effects issued once; claims that read the other workspaces' ledgers; a merge inspected outside every lock; measured use that comes late | no repository in two hands, no task or merge twice, nothing at work in a resting run |
| Notification and owned wake (`notification.py`, `app_server_wake.py`) | notification record of a command; volatile senders, observers and one offered native request | claim, send, acknowledge, observe, offer, respond | timeouts that may have been accepted; three threads about one request; a dashboard that dies | one turn per command; the ledger's word about a request is true |
| Conversation, decisions and recoveries (`conversation.py`, `decisions.py`, `reply_recovery.py`, `pause_recovery.py`, ...) | commands, decision versions, recovery permits | submit, receive, reply, publish, answer, resolve, confirm a recovery | supersession racing a queued answer; a recovery racing a late reply | an answer belongs to the version it was given for; permits agree with commands |
| Handoffs (`*_handoff.py`, `native_creation.py`) | handoff documents, send boundaries, claim files | prepare, check, record outcome | boundary consumed, answer lost | one native effect per document |
| Result review (`result_review.py`, ...) | review receipts | review, reauthorise | review of a row that changed | a verdict binds the result it saw |
| Phase accounting, checkpoints, retention | usage journal, checkpoint, closeout and retention documents | record, close, review, preserve | late and reset counters; a closeout over two fences | cumulative charge per phase; one end per phase |
| Missions, roadmaps, model policy | reviewed documents | propose, review | - | only a reviewed version is used |
| One-shot recovery family (`canceled_*.py`, `turn_recovery.py`, `readiness_*.py`, `forward_continuation.py`, ...) | exclusive claim files and fences | prepare, backup, confirm, status, stop | crash after an attempt with unknown outcome; facts that change between check, claim and send | an attempt is never repeated; status tells the truth |
| Public native host (`public_*.py`, `host_*.py`, `post_reboot_*.py`, ...) | the same, and process epochs | launch, supervise, restart, inspect, transfer | a second review, a second supervisor, a process that became the host | one launch per fence |
| Native transport and evidence, observation, views | none or caches | read, validate, project | - | - |
| Assistant and inference | transient previews | advise, propose a typed control | - | no authority |
| Server, sessions, command line, web | session table | route, authenticate | session limit across two tables | - |

The components interact through direct calls under locks (`registry.tx`, then
`ledger.tx`, then `kernel.tx`), through rows another component reads later (the
worker row carries the digests of the claim and of the journal; a command carries
its notification), through files created with O_EXCL beside the databases, and
through native effects that happen outside every lock.

There are two workflows. The *strict* one is the admission kernel with its
coordinators: every native effect is a permit of the kernel. The *standard* one
keeps a cooperative run in the ledger of each workspace, wakes the brain about
its commands, and is surrounded by one-shot controls for whatever went wrong: a
canceled Play, a lost host, an unfinished turn. The models follow this: a system
`Dispatch` for the first, and `Standard`, `Mailbox` and `OneShot` for the second. `PROJECT.json` lists every file
under its component, and every hazard at the line where it bites.

## 2. Modules

```
ResourceLease                 abstract: what the kernel promises about keys
SumTheorems                   TLAPS: sums over finite sets
AdmissionStore                the kernel  ---- implements ResourceLease
  AdmissionStoreProofs        TLAPS
  MCAdmissionStore            TLC instances
  WorkerLedger                state shared by the coordinators; native platform
    RunAuthority              generations and approvals
      DispatchAdmission       reserve / begin / recover
        NativeLifecycle       observe / continue / delivery / recover
          RunnerCoordination  acquire / begin / observe process / release
            OwnershipSettlement
              WorkspacePause  stop, resume, pause evidence, park, commands
                Dispatch      the composition, DispatchSpec, its properties
                  DispatchProofs  TLAPS
                    DispatchLeaseProofs     ---- DispatchSpec implements ResourceLease
                    DispatchRecoveryProofs  what a crash left behind can be recovered
                  MCDispatch  TLC instances

StandardRun                   the cooperative runs of several workspaces
  StandardMerge               their merges, GitHub
    Standard                  the composition and its properties
      StandardProofs          TLAPS
      MCStandard              TLC instance

Commands                      the command table, permits, what its parts share
  NativeApproval              a native request, its offer, the owner's decision
    WakeRecovery              the four recoveries of a wake without an answer
      Notification            claim, send, observe, the dashboard's death
        Conversation          messages, decisions, receipts
          Mailbox             the run's controls, Spec with fairness, properties
            MailboxProofs     TLAPS
            MCMailbox         TLC instance

OneShotEffect                 abstract: what a one-shot control promises
OneShotSteps                  the steps plans are made of
  CanceledPlayFlows           plans, as data: after a canceled Play
    SuccessorFlows              after a refused planning
  PrePlayFlows                  before a Play, and its inspections
  HostFlows                     launch, supervision, restart and repair of hosts
  AdmissionFlows                admissions, dispositions, continuations
  PhaseEndFlows                 turn recovery and the records of a phase's end
  ReadinessFlows                readiness before Play, its delivery by the notifier
  IdentityFlows                 setup, devices, projects, transfer and export
  OneShotPlans                the table of plans, and what is assumed of it
  OneShot                     runs the plans  ---- implements OneShotEffect
    MCOneShot                 TLC instance: 60 controls, 21 encounters
    OneShotProofs             theorems, for any table and any number of processes
```

**ResourceLease** has five actions over who holds which keys: an attempt takes a
set of free keys at once, crosses its start boundary at most once, may borrow and
return further keys, and gives all back at the end for good.

**AdmissionStore** models every state-changing operation of `AdmissionStore`.
`claims`, `resources` and `allocations` are its tables, `account` its last
account observation, `quarantined` the presence of a fence. A claim record keeps
status, allocation, repositories, started flag, native identity and token
estimate or actual. Time is gone: an observation that ages is the step
`UsageLapses` or `AccountLapses`, which may happen whenever it is fresh. The six
token counters are one number, because the code compares them all with the same
sum. `Included` and `Unincorporated` are `budget_projection`: settled claims a
usage total covers, and the rest, charged beside it. The step of adoption that
matters to the kernel is `Quarantine`: the fence file is published before the
import refuses a store with claims, so it may rise over live claims.

**WorkerLedger** is the second database. `meta` is the ledger's meta row,
`workers` its worker rows, `approvals` the queue's run-bound approvals, `journal`
the last native record of each claim and `settlements` the settlement records
(both in the shared database). Digests are versions: `seen` and `attached` in a
worker row say which claim and which journal record it carries. `calls` holds the
coordinator calls that are between their two locked sections. `world` is the
truth on the native platform: task, process, the one-shot permits that were
handed out and not yet used, and counters of what was sent. Its actions are the
environment: sends, ends of tasks and processes, processes that die with a permit
(`LosePermit`) or between two sections (`Abandon`).

The coordinators are one action per locked section. Every section with a shared
commit has a parameter `attached`: TRUE when the local commit followed, FALSE
when the process died in between. Then the permit is not returned either, since
the call did not. A section of a refused call changes nothing and is no step.

* **RunAuthority**: `Authorize`, `ApproveTask`, `RevokeTask`, and `Fence` and
  `Checkpoint`, which the controls apply to the run.
* **DispatchAdmission**: `ReserveIntent` and `ReserveShared`, `BeginIntent` and
  `BeginShared`, `RecoverAdmission`.
* **NativeLifecycle**: `Observe`, `ContinueIntent`, `ContinueShared`, `Delivery`,
  `RecoverNative`. `AttachJournal` is `attach_in`: it refuses to clear an
  unmatched marker and refuses a diverged local runner slot.
* **RunnerCoordination**: `Acquire`, `LaunchIntent`, `LaunchShared`,
  `ObserveProcess`, `Release`.
* **OwnershipSettlement**: `SettleTerminal`, `SettleNotCreated`,
  `RecoverSettlement`.
* **WorkspacePause**: `BrainStop`, `BrainResume`, `RunStop`, `PauseDispatch`,
  `ResumeDispatch`, `Process`, `ObservePause`, `Park`. `DispatchBlocked` is
  `enrollment.projection`: the legacy resume is refused for good by a fence or
  by the first authorised run. Hence no command of the code opens dispatch to
  a run; `docs/DISPATCH-ADMISSION.md` speaks of "a future exact activation
  route" and the tests clear the pause in the ledger. `Activate` stands for it,
  is mapped as external, and is assumed to be as careful as the legacy resume:
  not under a stop and not under a fence.
* **Dispatch** composes all of them by interleaving, adds `Fenced`
  (`enrollment.stage_workspace`: the durable fence may outrun the ledger commit
  that refuses a queued resume), and states the properties.

**StandardRun** is `standard.py`. `run` is `meta.standardRun` of each ledger,
`mission`, `catalog` and `quarantine` what stands beside it. Every operation is a
transaction of its ledger; those that take the registry too are serialised by
`registry`. `ReadClaim` and `Claim` are the one operation that reads the other
ledgers one after the other before its commit: the registry lock and its own
ledger are held in between, the foreign ledgers are not. `thread` and
`permission` are external: the brain's one creation under an issued permission,
which is lost when its turn dies (`BrainCrash`). Time is `Expire` (a run's
window) and `Age` (an observation). `Quarantine` may die between file and commit.

**StandardMerge** is `standard_merge.py`: an inspection begins under both locks,
leaves them to read the repository and GitHub (`InspectMerge`), and commits only
if neither the ledger's nor the run's revision moved. `Touch`, part of every
commit, forgets the inspections that read the revision before: they would be
refused. `wire` and `sends` are the merge command on its way to GitHub, which
may arrive long after the brain was told that it is uncertain. `pull` tells a
pull request that was closed and reopened from one that never was closed; GitHub and the code
see both as open (`Seen`).

**Commands** to **Mailbox** are the mailbox of one standard workspace. A command
is a record with its notification in it. `send`, `watching`, `ask` and `owner`
are volatile: the sender of a wake, the observer of its turn, the offered native
request and the thread that confirms the owner's decision, all in the dashboard
process, which `Crash` kills. `native`, `req` and `frame` are Codex. The brain
holds the controller (`held`) or not, and receives in its own time.

**OneShotSteps** to **OneShot** are the one-shot controls. Each of them has the
same parts: an owner reviews exact facts, backs up what may be touched, and one
command claims the attempt by creating a directory or a file that must not be
there, re-reads the facts, claims each effect with a file of its own, performs it
and writes what it saw. A control is therefore a *plan*, the sequence of its
steps in the order of the code: `CheckOf(facts, absent, present)`, `Write`,
`Send`, `Exec`, `Commit`, `See`, `Lock`, `Unlock`, `Fork`, the backup's `Copy`,
`Manifest` and `Verify`; with the records its failure and its `finally` leave,
the records without which its status command never reports success, and the
effects whose review is read again after their claim (`fenced`). A record is a
pair of a place and a name; what two controls share, they share by naming the
same record. `OneShot` runs two processes over such a table: between any two
steps the facts change (`Drift`), the owner stops an attempt (`Stop`), a process
crashes or is started again, an answer is lost (`SendEffect`), and no step ever
removes a record.

What is left out everywhere, because it can only refuse: mission reviews, grant
and evidence expiry, heartbeats, checkpoint artifacts, model policy, packet
preflight, the checkpoint and archive commands. Leaving a refusal out adds
behaviours, so the safety results stand; it is why the existence of a step
(`LagIsRecoverable`) speaks of the modelled guards only. In `Dispatch` the account
and usage observations stay as initialised; their lapses are in the kernel runs,
where they only refuse `CheckBudget`. Evidence the code takes from its
caller (`caller_supplied_external_evidence_not_native_attestation`) is taken to
be true when it is committed: that is the trust boundary the code states. The
platform gives each claim its own task (`NativeOf`); `unique_identity` is
checked all the same. `quarantined` is the adoption fence of the kernel and the
enrollment fence of the workspace in one: each refuses every new effect.

## 3. Properties and runs

| Run | Instance | Shows |
|---|---|---|
| `AdmissionOwnership` | 3 claims, 2 phases of 2 workspaces, aliased repository keys, one runner key | `ClaimsCoherent`, `ExclusiveOwnership`, `OwnershipFollowsClaim`, `SlotsBounded`, `NativeBelongsOnce`, `ClosedPhaseIsIdle`, the refinement `LeaseSpec`, `QuarantineFreezes`, `RunnerOutlivesSettlement` |
| `AdmissionBudget` | 2 claims of one phase, tight budget, totals 0..2 | `SettledTokensCounted`, `ReserveProtected` |
| `DispatchLife` | 1 worker, 9 journal records, no stop | `NoEffectTwice`, `ReleasedAtRest`, `LocalReleaseFollowsShared` through creation, correction, runner, release and settlement |
| `DispatchPause` | 1 worker, 2 generations, 3 stops or resumes, 4 journal records | `ReservedMeansUnstarted`, `ParkedIsQuiet`, `StopWins`, `LagIsRecoverable`, `PermitsNeedCurrentRun`, `ResumeIsNotActivation` |
| `DispatchTwo` | 2 workers, 2 repositories, 2 runner keys, 3 journal records each, undisturbed run | `OneRunnerProcess` |
| `DispatchAlias` | 2 workers over aliased repositories, 1 journal record each | `RepositoryExclusive` |
| `StandardRuns` | 2 workspaces of one repository, one with isolated producers and merges; 2 tasks, 1 pull request, 2 overlapping merge requests | `OneOwner`, `MergeAlone`, `MergeOnce`, `RestsQuietly`, `OneThreadPerTask`, `QuarantineHolds`, `OverrunOnlyMeasured` |
| `Mailbox` | 3 commands, 2 versions of a decision, 1 native request, 1 death of the dashboard | `WokenOnce`, `AnswersCurrent`, `PermitsAgree`, `FrameAgrees`, `StopBeatsAccept`, and the liveness property `Settles` |
| `OneShot` | 2 processes, 60 controls each twice over and 21 pairs that look for each other, 2 starts, 1 changed fact | the refinement `EffectsOnce`, `StatusTruthful`, `RivalsApart` |
| `PauseReady` | as `DispatchPause`, smaller | violated: finding 1 |
| `ParkedRunner` | as `DispatchPause`, smaller | violated: finding 2 |
| `ReplyFence` | as `Mailbox`, 2 commands | violated: finding 3 |

### What the properties of the standard workflow say

* `OneOwner`: no repository is worked on from two workspaces (an unsettled task,
  or a merge that is not settled), although each workspace has its own ledger.
* `MergeAlone`: as long as a merge command may still take effect, however late,
  its repository has no task at work anywhere - unless the pull request was closed,
  its merge settled as not merged for that, and the pull request reopened afterwards. It is what the rule "open is not
  proof a delayed send cannot execute" (`standard_merge.py:479`) is for.
* `MergeOnce`: the merge of a pull request is sent at most once, whichever
  requests overlap.
* `RestsQuietly`: a run that is paused, completed or blocked left no thread at
  work, no second thread and no permission to create one.
* `OneThreadPerTask`, `QuarantineHolds`, and `OverrunOnlyMeasured`: only measured
  use takes a run past its budget, never a promise.
* `WokenOnce`: a command starts one turn at most; one reported as unavailable
  started none; and a Pause with its recoveries after a failed wake has one turn
  altogether. `AnswersCurrent`: a queued answer is the one its decision waits
  for. `PermitsAgree`: an open recovery permit agrees with its command, and with
  the Pause it is about. `FrameAgrees`: what the ledger says of a native request
  is true of the frames Codex was sent. `StopBeatsAccept`: an acceptance is
  written only while the run runs and its intent is open.
* `EffectsOnce`: each effect of each control is claimed before it is performed,
  performed at most once, and never performed when a reviewed fact, a rival or
  the owner's stop had spoken before it was claimed (for the effects whose review
  the code reads again after the claim). `StatusTruthful`: the status command
  says done only when every effect that had to be was performed once and
  answered, and not submitted, or failed, only when none was. `RivalsApart`: two
  controls that look for each other never both claim the attempt, and two that
  contend for one claim never both perform their effects.

### Fairness and liveness

All runs but `Mailbox` are safety runs: their operations are called by the brain
or the owner, who may stop at any time, so no fairness is justified. What would
be liveness in `Dispatch` is the existence of a recovery step in every state that
needs one (`LagIsRecoverable`). It is said by the guards `CanRecover...` of the three
recoveries, which only assignments follow: TLC found each guard equivalent to ENABLED of its
action in every state of `DispatchPause`, `DispatchTwo` and `DispatchLife`.

`Mailbox` assumes weak fairness of the threads of the dashboard process, which
the operating system schedules while it lives: a sender (`Sending`), the thread
that confirms a decision (`OwnerQueue`, `OwnerRecord`), the observer of an offered
request (`Look`, `EndWait`, `Respond`, `RecordWritten`, `Withdraw`); and of
`Expire`, as an offer has a deadline that its wait re-reads. Nothing is assumed of
the owner, the brain or Codex. `Settles == []<>AtRest`: sends, confirmations and
offers are all over again and again, whatever those three do. Each of the waits
has a partner that may never come, and the property fails when one of them has no
way out of its own (its mutant drops the deadline's way out). The
bound on commands makes their number finite; the property is checked on the
behaviours that stay within `Foreground`.

Deadlock is not checked: every bounded instance runs out of commands, starts,
generations or journal records, and so may the real system, which waits for people.

### Bounds

*Kernel and dispatch.* `MaxJournal` bounds the journal records of a claim (the code
allows 1000): 9 is what creation (1), its end (2), a correction with its delivery and end
(5) and a runner acquired, launched, exited and released (9) need; 4 reaches a
correction with its delivery, or an acquired runner, inside a
stop; 3 reaches an idle task with an acquired and launched runner. `MaxRuns = 2` is
the least with a superseded generation, `MaxCommands = 3` with stop, resume and stop
again. Three claims let one claim be settled while two others compete; two tokens per
estimate let a budget be missed by one.

*StandardRuns.* Two tasks give a producer and its integration, a second task after
a failed one, and two claims at once over the two workspaces; budgets of 5 and 3 with
allowance 1, reserve 1 and observed counts of 0 or 2 put the edge of the budget
within one claim, one observation or one measured brain; two requests overlap; one
pull request is enough since a merge entry names one. One mission version and one
run per workspace: a second phase begins from an empty run and
only `MayReplace` looks back.

*Mailbox.* Three commands are the longest families the code relates: a Pause, its
recovery and its replacement, or a message, its recovery and another command. Two
versions are what supersession needs. One crash is enough because it clears
everything volatile.

*OneShot.* Two starts: a claim is never removed, so a third start sees what the second saw.
One changed fact: a check refuses on any. `Telling` lets one fact
stand for all that the same checks read.

### Constraints

`SteadyObservations` (`AdmissionOwnership`) keeps the account and
usage observed as fit and fresh: lapses only refuse, and are explored in
`AdmissionBudget`. `RunnersOnly` (`DispatchTwo`) leaves out controls and
corrections, which `DispatchPause` and `DispatchLife` explore with one worker.

`Foreground` of `MCStandard`: missions are revoked only before they are played
(the end of a run's window blocks it afterwards in the same way); a brain is
measured in an empty run; the run of `wb` is neither closed nor measured, is paused beside a
run of `wa` without tasks unless it is quarantined, and its window ends only while it
is empty; the window of `wa`'s run ends only while `wb` has none; only `wb` is
quarantined. Each of these holds back one workspace while the other does what the
first may do too. A pull request is reopened only while a command for it is out: with none, one
that is reopened behaves as one that was open all the time. One reconciliation is in progress at a
time, since the first of two to commit forgets the other; prepares and checks overlap.

`Foreground` of `MCMailbox`: one send at a time, and one concern beside the
controls of the run: a native request, a decision, a capability request, or messages
and recoveries; three commands only in the families named above. A run of the
mailbox whose sends overlap has been left out, except that a send overlaps with
everything the brain, the owner and the observer do.

*Symmetry.* `Interchangeable` permutes claims, natives and matching names of the
kernel instance; `Swaps` exchanges the two workers with all that is theirs, and
the two runner keys; `Symmetry` the tasks and merge requests of a workspace, and
the two processes of `OneShot`, whose assignments are closed under the exchange. All
leave the constants as they are, and the symmetric runs with temporal properties check only
`[][...]_v` formulas and safety refinements, which name no single element. `Mailbox`, whose property
is liveness, uses none.

Each property has a mutant in `PROJECT.json`: a variant of one operation with a
plausible mistake, kept in the module next to the original and labelled *Faulty
variant*, under which TLC finds the property violated. `StandardTypeOK` and
`MailboxTypeOK` state the shape of those two systems.

## 4. Proofs

The proof modules, which `PROJECT.json` lists theorem by theorem, hold for every
value of the constants: no bound on identifiers, and none of the constraints that
keep TLC's search small. Each rests on an inductive invariant, which TLC
searched for counterexamples before it was proved.

### The kernel

`AdmissionStoreProofs` proves, for any set of claims, allocations, workspaces,
repositories and keys, any estimates and any slot limit:

* `TypeCorrect`, `Coherence`, `Exclusion`, `Ownership`, `Slots`,
  `NativeIdentity`, `ClosedPhase`: the seven invariants of `AdmissionOwnership`;
* `KernelImplementsLease`: `KernelSpec => LeaseSpec`, with the mapping the run uses;
* `QuarantineHolds` and `RunnerKept`: the two action properties;
* `SettledTokens` and `ReserveIsProtected`: the two properties of `AdmissionBudget`.

*Assumptions.* Those `AdmissionStore` states of its constants: `SpecAssumption`
(every allocation's content has the shape `open_allocation` accepts),
`NumberAssumption` (limits, estimates and totals are naturals), `FiniteAssumption`
(claims are finite) and `NoneAssumption` (`None` is no identifier, repository and
runner keys are disjoint, as their prefixes make them). TLC evaluates them on
every run.

*Argument.* None of the seven invariants is inductive on its own. Exclusive
ownership needs the ownership invariant: `reserve` and `acquire` test keys
against the table, and only because every row of the table belongs to a held
claim does the release of all rows of a claim leave no orphan. Ownership needs
coherence, to know the scope of a held claim and that a runner's owner has an
identity. Slots need coherence to know the phase of each claim. A closed phase
stays idle because `reserve` refuses it and `close` refuses held work. The
invariant `KernelInv` is their conjunction: `KernelInvariant` shows
`KernelInit => KernelInv` and `KernelInv /\ [KernelNext]_kernelVars => KernelInv'`,
one lemma per group of conjuncts, one step per action. The refinement maps
`phase` to "none", "held" or "done" by the claim's status, `holds` to the owned
keys and `begun` to the started claims; each kernel step is a lease step or
leaves all three as they are, and coherence supplies the non-empty key set of a
reservation.

The token properties are about sums over sets of claims. `SumTheorems` proves what they
need of the community module's `SumFunctionOnSet`: a sum is taken element by
element, is additive over a partition and grows with its set and its terms. The sum is
defined by recursion over the subsets of a finite set and the prover cannot do
induction; instead each lemma takes a minimal subset on which it would fail, which exists
because proper inclusion between finite sets is well founded (`WellFoundedInduction`), and
finds a smaller one. `SettledTokens` then follows with `UsageCovers`: what an
observation includes is settled, belongs to the phase and sums to no more than its total, so
that leaving it out of the unincorporated sum loses nothing. `ReserveIsProtected` adds
the new estimate to the sum of the held ones.

### The dispatch system

`DispatchProofs` proves, for any number of tasks, runners, generations, controls and
journal records, any estimates and aliases of repositories, and with every action
of `DispatchNext`: `DispatchTypeCorrect`, `EffectsOnce`, `ReleaseAtRest`,
`ReservedUnstarted`, `RepositoriesExclusive`, `OneRunnerAtATime`,
`SharedReleasesFirst`, `StopAlwaysWins` and `ParkedStaysQuiet`, and the action
properties `PermitsAreCurrent` and `ResumeNeverActivates`. These are all the
properties of the four dispatch runs; the last of them is `LagRecovers`, below.

*Assumptions.* Those of the kernel, and `DispatchAssumption` (the workspace's phase is
an allocation, every task has a repository, the platform gives each claim a native
task of its own, and limits and bounds are naturals) and `PhaseAssumption` (the phase's content is one the kernel accepts, and it starts
with nothing spent).

*Argument.* Nearly everything follows from one fact about a single task: how its
claim `k`, its journal `j`, its ledger row `w`, its native side `x` and the calls
`q` between their two sections go together. `Life(c, k, j, w, x, q)` is the conjunction of

* `ClaimOf`: the start boundary and the status agree, and the claim is of this
  phase and repository;
* `JournalOf`: a journal record is consistent in itself; what owns a runner has no
  turn in flight;
* `CreationOf`, `TurnsOf`, `LaunchOf`: every permit was preceded by its shared
  record. "create" is outstanding only while nothing was created and the
  claim is started; each turn has a sequence number of its own; a launch is recorded before its permit;
* `RowOf`: what the row may lag behind. It is behind a shared commit that a crash
  cut off, but not in what the controls rely on: a row that reads "reserved" or
  is absent hides no started claim, and one that reads "released" or "settled" no
  owned key. Who may still continue has a row that reads "starting", who may still
  launch one that reads "accepting": what keeps a pause from being parked over them;
* `CallsOf`: the first section of a call that still waits has left its mark in the row,
  and the shared store has not moved past it. This makes the second section's checks enough,
  though anything may happen in the gap.

`EffectsOnce`, `ReleaseAtRest` and `ReservedUnstarted` are read off a single life. What the
lives share is said by three more parts:

* `Holdings`: held claims own their repository's keys, a runner that the journal
  calls owned is one that owns a shared key, and a row that shows an owned runner
  sits in the local slot. Exclusion of the keys and of the slot gives
  `RepositoriesExclusive` and `OneRunnerAtATime`; the second rests on the row
  and not on the shared keys, of which a crash may leave two.
* `Controls`: a stop pauses dispatch and withdraws the queued resume; rows carry
  generations up to the present one, and under a stop none that is still authorised.
* `Inventory`: what a pause inventory says of a row that has not changed since. A row
  whose binding is the same and that is not starting or accepting has an idle
  task: the receipts a row attaches only move forward (`attached`), and no step sets
  a task to work without moving the row first. `ParkedIsQuiet` is a
  conjunct of its own, since after the parking it is the pause that keeps it.

A step is a move of one task, of the controls, or the fence. The lemmas named
`Life...` show what each change of a single task's records preserves, without any step; `...Moves` that each
action is such a change and leaves the other tasks alone; `...Keys` and `Attach...` what it does to the
keys and the slot; `...Sound` what each control does. `StepDispatchInv` puts them together.

`DispatchLeaseProofs` proves `DispatchImplementsLease`, `DispatchSpec => LeaseSpec`: the journal,
the settlements, the recoveries and the runner coordination write the shared tables by
themselves, and still no step of any of them starts a claim twice, takes a key that is
owned or keeps one that was given back. `Leased(c)` says how a claim shows as a lease: its phase by
its status, its start by `started`, and only a held one has keys; every move of a task is then
one step of the lease, or none.

`DispatchRecoveryProofs` proves `LagRecovers`: `LagIsRecoverable` in every reachable state. The
invariant `RecoveryInv` adds to `DispatchInv` how far a row can be from the shared store at all:
`ReceiptOf` (a held claim without journal is at most starting, a row that carries the latest
record is up to date, a settled claim whose row is not has in its settlement exactly that row)
and `SlotOf` (whoever sits in the local slot has a row that says so). Its one further
assumption is `RowAssumption`: a row is not `None`.

### The standard runs

`StandardProofs` proves, for any workspaces, tasks, repositories, pull requests and
requests, and without `Foreground`: `TypeCorrect`, `RepositoryHasOneOwner`,
`MergeIsAlone`, `MergeIsSentOnce`, `RunsRestQuietly`, `ThreadsAreSingle` and
`QuarantineIsRespected`, and `OverrunIsMeasured`: all properties of `StandardRuns`.

*Assumptions.* `None` is no workspace (`NoneAssumption`) and no pull request
(`PullAssumption`), and those the module states of its limits.

*Argument.* `IInv` says, beside the properties, what makes them inductive:

* `ClaimStands`: what a claim read of the other ledgers, one after the other, is
  still so when it commits, since nothing else takes the registry, or a repository, in
  between. `OneOwner` follows at the commit, and at no other step can it be lost.
* `TaskAgrees`: the journal of a task, the permission of its brain and its thread
  agree. A twin thread would need a permission beside a thread, which it excludes.
* `InspectionAgrees`: an inspection that no commit forgot read the merge entry that is
  still there, and of what it saw of the pull request remains: a merge is final, and
  one that was closed is at most reopened.
* `BoundApart` and `PullAgrees`: a pull request is retained by one workspace, and
  its permit is handed out before its one send. `MergeOnce` of two workspaces, or of a brain
  that crashed and a reconciliation, follows; so does `MergeAlone`, with `RunAgrees`: an unsettled merge
  begins with no task at work and none is claimed until it is settled.

`OverrunIsMeasured` needs one more invariant, `BudgetInv`: finitely many tasks are claimed, and a
claim that holds the registry still fits what remains of its run's budget, although it was
checked several steps before it commits. A step then leaves the cost of every run level
(`Level`), adds an allowance that had room, or is a measurement (`Measured`). The
sums are compared by the theorems of `SumTheorems`.

### The mailbox

`MailboxProofs` proves, for any number of commands, decision versions and crashes,
and with all concerns at once (the run keeps to one, and to one send at a time):
`BrainIsWokenOnce`, `QueuedAnswersAreCurrent`, `PermitsStayTrue`,
`LedgerTellsTheFrame` and the action property `NoAcceptAfterStop`.

*Assumptions.* `MailboxBounds`: the bounds are naturals.

*Argument.* `IInv` is the conjunction of

* `Delivered`: a turn is started only under a claim that its sender still holds, and a
  command whose delivery is "none" or "unavailable" has none. The crash that forgets
  the sender leaves the claim, and so the command is never sent again.
* `Family`: a recovery of a Pause exists only if the Pause's wake provably failed, and
  every recovery that no longer holds the permit failed too. It is what makes
  `WokenOnce` hold of a Pause *and* its recoveries, and it is inductive only because a
  failed delivery of a Pause is never claimed again (a capability request's is).
* `PermitsNamed` and `PermitsAgree`: the permits name commands of their kinds, so that no
  receipt or reply of one permit can touch the command of another.
* `AnswersKnown`: the versions of a decision name the answers they wait for.
* `AskShape` and `RequestAgrees`: offer, decision, intent and frame. The frame is empty
  until the observer, which looked once, writes the choice it saw; an intent that says
  "blocked" or "without response" is recorded only while no frame was sent, and no
  wait goes on after it.

The lemmas follow the code's commits: `QuietKeeps` serves the steps of the ledger that move no
permit, `LedgerKeeps` those that do, `DeliveryKeeps` the sender and `ObserverKeeps`
the observer.

### The one-shot controls

`OneShotProofs` proves, for any table of plans that meets the assumptions, any
number of processes, starts and changed facts: `EffectsArePerformedOnce`, which is the
refinement of `OneShotEffect`, `RivalsStayApart` and `StatusIsTruthful`.

*Assumptions.* All that the proofs use of the plans is stated in `OneShotPlans`, and TLC
evaluates it over the 60 controls at the start of the run:

* `EffectAssumption`: an effect is either claimed by the control that performs it, in
  a step that no branch leaves out, and its review read again in between where it
  is to be fenced; or it is committed with a row that the control has looked for
  under the same locks, and its claim found. Only the archive of the turn recovery is
  of the second kind: its claim may be left by a process that crashed.
* `PlanAssumption`: no control leaves the record of an effect when it ends, no plan starts or jumps
  inside its locked steps, an unlock follows a lock.
* `RivalAssumption`: rivals that meet claim their places behind one record that both create, or
  look for each other's records under the locks under which these are written;
  controls that contend perform their effects behind one claim. The three pairs that only
  the locks keep apart are `CanceledContinuation` with `ConnectionHandoff`, `MaintenanceLoad`
  with `SameProjectSuccessor` and `PrestartStartup` with `PrestartResolution`.
* `StatusAssumption`: the records of a control tell what became of its effects, in any
  encounter it takes part in. Where its status can say done, an effect is a commit,
  which is its own answer; or whoever leaves a record of its verdict, or reports success,
  has claimed what alone allows to perform the effect, performs it no more, and has come
  past it unless it is optional. Its place is claimed by its mark or behind it. A
  record that denies an effect is left by a failure only, after the claim, by a process
  that a successful effect would have replaced.
* `ActorAssumption`: each process runs a control of the table, and "nobody" is none.

*Argument.* A process that stands between two steps has come past every step
that no branch leaves out (`ComesPast`), and so relies on what was done there:
it holds the claims it has made, alone and unperformed (`ClaimsHeld`, `HeldAlone`);
the locks, inside its locked steps (`LocksHeld`); and what its checks under them
have read (`RowsKept`). If its claim came too late, a check that refuses for good is still
ahead of it, since changed facts and records never go away (`LateStops`). Every step
is a stride of one process or is around them all (`StepKinds`); the parts of the
invariant are shown to be kept by a stride, and not action by action. For rivals `RivalInv`
says the same of the record that grants a place. For the status command a stride is known by
what it reports as well (`AnswerKinds`), and `StatusInv` says what each kind of record
proves: only one process is past a claim (`TracksAlone`), and as long as it runs on, what
it performed was answered (`AnswersTracked`, `PassedAnswered`); a record of the verdict,
or a reported success, leaves no one ahead of an effect that is not answered
(`RecordsTell`, `OutcomesTell`); a claimed place has its mark (`PlacesMarked`); a denial
leaves its effect unperformed, and no one able to perform it (`DenialsTell`).

### Only model-checked

* `Settles`, a liveness property.
* That the guards `CanRecover...` are ENABLED of their actions: ENABLED is out of the
  prover's reach.
* `MailboxTypeOK`, which no run lists: the invariant of the mailbox types every field but
  what a recovery saw of the turns.
* `ReadyPauseParks`, `ParkedOwnsNoRunner` and `ReceiptStaysOpen` are false: findings 1 to 3.

## 5. Findings

1. **A pause that is ready cannot be parked** (`PauseReady`). After a not-created
   settlement, `workspace_pause.inspect` skips the worker (lines 122-125) and reports
   `readyToPark` without issues, while `brain_control.park` still asks for an idle
   observation of its task (lines 113-132), which does not exist and which
   `inspect` would refuse. `docs/CREATION-RECOVERY.md:27` promises the opposite.
2. **A parked workspace may own a runner** (`ParkedRunner`). When `acquire` dies
   between its shared and its local commit the local slot stays empty, and
   `park` and `inspect` look at nothing else. `docs/RUNNER-COORDINATION.md:151`
   calls owned runners blockers of the pause.
3. **A reply closes the receipt of its own recovery** (`ReplyFence`). A brain woken
   by a reply recovery that answers the message before it gives the recovery its
   receipt can never give it: `receive` asks for exactly one unanswered message,
   and a reply closes only a recovery that was received or never sent
   (`reply_recovery.py:191-200`). Play, Resume and the allowance then stay fenced.
   `docs/RECEIPT-ONLY-RECOVERY.md:71` says the receipt is still required.

The first two were reproduced by running the repository's functions on such a ledger.

### Observed while modelling, without a run

* A closed pull request settles its merge as not merged (`standard_merge.py:471`, replayed
  at `:388`) and frees the repository, although the permission or the command may still be
  out. Reopened, it can be merged by that command beside a task claimed meanwhile. The code knows
  the hazard for an open pull request (`:479`); for a closed one its docs promise nothing more than
  `not-merged` (`docs/STANDARD-MERGE.md:106-108`) and exclude a remote lock (`:164`).
  `MergeAlone` names exactly this exception, and without it TLC finds the behaviour.
* `standard.py:565` compares the phase of a Play with the run before it only;
  `docs/STANDARD-COOPERATIVE-RUNS.md:48-49` speaks of any completed phase.
* `_offer_approval` takes the decision under its lock, and `confirm_approval` may
  set one after that and before the offer is withdrawn: it is then recorded as
  queued for good, and never sent. The property `FrameAgrees` allows it: nothing
  false is recorded.
* An owner's message, or a second Pause, saved while a Pause recovery is open makes
  that recovery's receipt and checkpoint refuse; a Pause permit ends so.
* `core.process` expects a payload that a queued capability request
  (`standard_catalog_refresh`) does not have, and raises; the model refuses.
* The checkpoint of a standard run does not look at the run's present status, and
  `Ledger.recover` makes a completed run "stopping"; `RestsQuietly` holds of
  both, because neither touches a task.
* States left to an operator by design: an
  unmatched correction or launch marker (`no_unmatched_intent`) blocks its worker;
  a reservation of a fenced generation that was never attempted can be neither
  started nor settled; a diverged local runner slot (`native_lifecycle.py:217`)
  blocks recovery until the other worker lets go. `LagIsRecoverable` names them as
  its exceptions. A one-shot attempt whose answer was lost stays unknown for good.

## 6. Plan

Done: the kernel, its abstract specification and proofs; the dispatch system
with its pause; the standard runs with their merges; the mailbox with its wake,
decisions, recoveries and native request; the one-shot controls with their abstract
specification. Next, in this order:

1. `ArchiveHandoff` and the other document handoffs of the strict workflow
   (correction, result, terminal, runner) as plans of `OneShot`.
2. `LegacyLedger`: packet approval, reserve, begin, bind, transition, runner, pilot
   and completion of `core.py`, with `recovery.py`.
3. `PhaseUsage`: the usage journal, implementing the totals the kernel takes.
4. `Enrollment`: registry and fences over several workspaces with recovery;
   `Sessions`: the bounded session table of `browser_auth.py`.

Theorems to follow: that a settled row's record never changes again, and that
generations only grow.

## 7. Not modelled

Readers of the native service, validators of external evidence, read-only views,
the assistant and the web dashboard keep no state the properties depend on, or
only pass text. Documents, digests, artifact preservation, formatting and all
wording are abstracted to the equality the guards test. `PROJECT.json` gives the
reason for each component. Within the modelled components:

* *StandardRuns.* The platform's limit on tasks over all runs (16) is never reached and
  left out. A preview is a signed token the ledger does not keep; a confirmation
  rebuilds its context, so one that passes is a preview of the present state.
  At GitHub people merge, close and reopen pull requests; that a merge is final is assumed.
* *Mailbox.* The owner's Brain Stop is not asked for; the run has no tasks and there
  is one per behaviour; what a preview reads natively is taken when it is confirmed;
  the controller's key file is left out; a graceful close of the dashboard is covered by its death;
  the end of an observation is saved for a Pause only, since nothing else reads
  it; there is one native request, and cancelling is declining it; the errors a
  reader finds on the connection are one; whether the request may be accepted at all
  (`app_server_wake.py:517-606`) is a condition on its content; a send whose
  data went stale may refuse at any time.
* *OneShot: what the native service answers* is a choice (`See`), an answer may be lost
  (`Send`), and facts that changed stay changed. The failure record and the outcome of a
  command are saved in one step; a torn record counts as there; a nested planning
  that fails closes its own and its owner's journal.
* *OneShot: what is merged.* Version 1 of planning, which collects no usage, and the
  account check that version 5 adds are merged into the one plan; the three
  modes of device recovery share one review; the destination directory, the pending
  file and the link of an identity transfer are one exclusive record; the registry's
  commit of a setup transition is a record and its local commit the effect; a
  status file that is overwritten is a record per value; a repeated confirm that
  returns its receipt is a refusal; a claim written inside the locks is on disk at once.
* *OneShot: what is left out.* Commands that only read and append an observation
  (reconcile, and that of project assignment), the `observe_only` inspection, the
  attention record of a native request, the absent-credential variant of turn
  recovery, a second successor of a restart, and the holder's loop, which is one check.
  An authorization that another process writes is the plan's own wait. A Ctrl-C at `exec` is
  a crash: the `exec_outcome_unknown` the code writes then (`host_lifecycle.py:178`) is for its
  readers, like the `exec_boundary_issued` a crash leaves, an outcome that is not known. So is
  a lock that times out. A process verifies the backup it made.
  Controls without an effect (the evidence of a restart, an
  inspection, an observation, the records and closeout of a phase, the device recovery, the
  export) are there for their claims and their status.
* *OneShot: `fenced`.* The promise that a spoken fact prevents the effect is made for the effects whose review
  the code reads again between their claim and their send. Attaching a subscription,
  the load and turn of a pre-start startup and the load of a certificate runtime
  have no such check and are outside it. A canceled-Play disposition reads again its rows,
  sidecars and binding only (`canceled_play.py:243-270`), so the promise is about those.

## 8. Running

```
tlc -workers 2 -config AdmissionOwnership.cfg MCAdmissionStore   # 1-2 minutes
tlc -workers 2 -config AdmissionBudget.cfg    MCAdmissionStore
tlc -workers 2 -config DispatchLife.cfg       MCDispatch         # and DispatchPause, DispatchTwo,
                                                                 # DispatchAlias, PauseReady, ParkedRunner
tlc -workers 2 -config StandardRuns.cfg       MCStandard         # 2-3 minutes
tlc -workers 2 -config Mailbox.cfg            MCMailbox          # 2 minutes
tlc -workers 2 -config ReplyFence.cfg         MCMailbox
tlc -workers 2 -config OneShot.cfg            MCOneShot          # 2-3 minutes
tlapm AdmissionStoreProofs.tla                                   # each proof module: 1-2 minutes
tlapm StandardProofs.tla
tlapm MailboxProofs.tla
tlapm OneShotProofs.tla
tlapm SumTheorems.tla
tlapm DispatchProofs.tla                                         # 5 minutes
tlapm DispatchLeaseProofs.tla
tlapm DispatchRecoveryProofs.tla
```

`PauseReady`, `ParkedRunner` and `ReplyFence` end with the counterexample of their finding.
