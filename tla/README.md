# Data Director in TLA+

Models, model-checking configurations and machine-checked proofs about the
Data Director: the program that takes research data from a watched folder
through agents that call language models, past the people who decide about
them, to a published deposit on Zenodo. `P` below stands for
`src/packages/datadirector/src/datadirector`, `C` for
`src/packages/datadirector-contracts/src/datadirector_contracts`.

## 1. The system

Everything the program knows about a job is an append-only log of events in a
directory of its own. A component loads the log, folds it to a state, does its
work and appends what it did. There is no database and no queue: threads of the
web service and commands of the CLI meet in the files.

| Component | State it keeps | Operations | What makes it correct |
| --- | --- | --- | --- |
| Event store (`P/state/store.py`, `C/events.py`) | a directory per job, a file per event, each naming the digest of the one before; a `.lock` file | `append` under a non-blocking flock (temporary file, flush, rename, fsync of the directory), `load`, `verify_chain` | one chain, whoever writes and whatever dies; what was acknowledged survives |
| Projection (`P/state/projection.py`) | none: a fold over the log | `fold`, `fold_to`, `_apply`; rollback is a `step-compensated` event the fold replays | rollback is erasure; no machine relaxes a level |
| Workflow graph and engine (`P/workflow/*`, `P/pipeline.py`) | none beyond the log: which nodes are done comes from the kinds of event seen | `advance`, `run_until_blocked`, `run_step`, `compensate`; retries, halts | nothing runs before what it needs; a job is offered or stopped with a reason |
| Agents (`P/agents/*`) | none | ingestion, plan, declaration, classification, media, metadata, redaction, documentation, validation, repository: each reads the log, may ask a model, and returns events | their drafts are put in front of a person |
| Review gate (`P/gate/*`, `C/gate.py`, `P/job_handle.py`) | items and decisions in the log | raising an item for every model output, resolving, superseding, asking a model again, drafting again | what is published was read, and checked as it was read |
| Job service and web (`P/api/*`, `P/web/*`) | none | `deposit`, `gate`, `resolve`, `revise_metadata`, `revalidate_metadata`, ownership grants, audited reads | only owners act; a stranger is shown nothing |
| Publication (`P/agents/publication.py`, `P/workflow/effects.py`) | intents and outcomes in the log | `attempt`, `unfinished`, `settle`, `reconcile` | one attempt at a time, none forgotten |
| Zenodo driver (`P/repositories/zenodo.py`) | `depositions.json`, one file for all jobs | `deposit`: look up, create, record, describe, list, upload, publish | one published record per job, as reviewed |
| Retention sweeper (`P/retention/sweeper.py`) | a tombstone in each directory, intents and records in logs | survival check, candidates, mark, due, delete | nothing goes that may not; what is left in part is on record |
| Exposure ledger and inspection (`P/exposure/ledger.py`, `P/probing/executor.py`, `P/content/inspector.py`, `P/agents/media.py`) | a JSON-lines file per job | check of a budget, append of a release; probes, chunks, images | what was shown is recorded and within the budget |
| Policy (`P/policy/pep.py`) | the preference of the process | choice of a backend for a call | nothing is sent where level or depositor forbid it |
| Sessions, delegation (`P/identity/*`, `P/credentials/oauth.py`) | two JSON files rewritten whole; state parameters in memory | issue, resolve, revoke; authorise, exchange, keep | an answer given is kept, a state that is over stays over |
| The rest | nothing a property is about | unpacking, profiling, schemas, vocabularies, provenance, configuration, model backends, rendering | |

How they interact: by events. The engine runs an agent and appends what it
returns; the pipeline turns model output into gate items in the same log; the
gate screen appends decisions; the fold and `completed()` read the kinds of
event and decide what runs next; `JobService.deposit` loads the log four times
and hands a record to the publication agent, which writes an intent, calls the
driver and writes the outcome. The retention command reads the logs of all
jobs, writes intents to some, and removes their directories. The registry of
depositions, the tombstones, the session and delegation files and the exposure
ledger are the only state outside the logs.

What is hard in it:

* **interleaving**: requests run in threads, the CLI beside them, and nothing
  but an append is locked: a handler's reads and writes are separate steps;
* **crash and loss**: a process may die between any two appends, and an answer
  of Zenodo may be lost after the request was carried out;
* **the meaning of an event**: every component interprets the others' kinds, so
  an event written for one purpose (a display, a re-check, a rollback) acts on
  the fold, on the graph and on the gate at once;
* **order**: which draft is the newest, which item replaces which, and which
  findings are about which record are all read off positions in the log;
* **retries**: models that fail or repeat themselves, deposits tried again
  after a half-finished attempt;
* **time**: a mark is made on one day and carried out on another, and a session
  expires between two requests.

Every hazard, at its line, is in `PROJECT.json`.

## 2. The modules

| Module | Models | Run(s) |
| --- | --- | --- |
| `AppendLog` | the abstract promise: a log that only grows, keeps what it acknowledged, and loses at most an unacknowledged tail | as the `KeepsPromise` property of `log` |
| `EventStore` | `append` and `load` at the grain of file-system calls | `log` |
| `JobLog` | the fold and rollback | `fold` |
| `Workflow` | one job through the graph: which node runs, what a run appends, what holds it back, how it fails, what people do | `workflow`, `workflow_offered`, `workflow_planned` |
| `ReviewGate` | from a model's draft to the record published | `gate` |
| `Deposit` | intent, driver, registry, Zenodo, outcome | `deposit` |
| `Retention` | the sweep of working directories over days | `retention` |
| `Disclosure` | what is shown to which model, and the ledger of it | `disclosure` |
| `Callers` | who uses the service and in which requests: the constants the next two share | |
| `Sessions` | signing in and out and authorising, through two files | `sessions` |
| `Access` | who may see and who may act, and the order the routes ask in | `access`, `access_strangers` |
| `EventStoreProofs`, `JobLogProofs`, `ReviewGateProofs`, `DepositProofs`, `RetentionProofs`, `DisclosureProofs`, `SessionsProofs`, `WorkflowProofs` | the theorems of section 5; those of `Access` are in `SessionsProofs` | |
| `MC...` | the constants of the small instances | |

How they fit: `EventStore` implements `AppendLog`, and on its promise
(refinement `KeepsPromise`) the others take the log of a job to be one sequence
to which an append is one step. `JobLog` says what the sequence means.
`Workflow` follows one job from its submission to the offer to publish it, an
append at a time, and publishes in one step; what it knows of a draft is only
whether somebody is asked about it and has answered.
`ReviewGate` and `Deposit` are two ends of one request: `ReviewGate` takes the
four loads of `JobService.deposit` apart and publishes in one step; `Deposit`
reads the gate in one step and takes the publication apart. `Disclosure` takes
one step of `Workflow`, an agent that asks a model, apart into what it sends;
`Access` is what every route does before it does any of this, and `Sessions`
how a route knows who asks. `Retention` begins where `Deposit` ends.

In each module the actions carry the names of the functions where they have
one, every definition has its lines in `PROJECT.json`, and the operators headed
"A plausible bug" are mutants: never used by the specification, they are put in
place of a definition to see that a property notices.

### EventStore
`files` are the event files a listing matches; `tmp` the temporary file each
process last wrote; `synced` how much of the directory an fsync covered; `lock`
the flock. `append` is `Lock`, `LoadTail`, `WriteTmp`, `FlushTmp`, `Rename`,
`SyncDirectory`, `Return`; a held lock is `Refuse`. `load` is `ListFiles`,
`ReadFiles`, and takes no lock. `Crash` may come anywhere; `PowerLoss` drops
directory entries no fsync covered, latest first, as a file system that
journals its metadata in order does. Digests are opaque and do not collide.

### JobLog
`states[n]` is `fold_to(log, n)`. `Apply` is `_apply` with every field of
`JobState` the code branches on; the step names are those of `_STEP_FOR`, and
the event that clears a halt does not advance the step, as in the code.
`Compensate` is `WorkflowEngine.compensate` with the branch of `fold` that
replays it. `SeenKinds` comes from the whole log, as in the code.

### Workflow
`job` is the log of one job folded to what anything branches on, `After(job, e)`
the fold with one more entry; `call[c]` is a request or a command and what it
still has to append. Three operators are the graph's: `Walk`, the targets
`next_node` and `blocking_human_node` examine, in their order (of `Walks`, a
recursive function from where a walk is and what it has seen); `Ancestors`, for
the hold by unread drafts; `Completed`, from completion entries and from the
kinds seen. `Choose` is `next_step` with `runnable` and the guard of
`run_until_blocked`; `RunEngine` an agent's run, whose entries, items and
completion `AppendRun` then writes one by one; `ServiceFails` and `StepRaises`
the retry and the halt; `Die` a call that ends anywhere. `Ingest`,
`StageSubmission`, `IngestMaterial`, `ResolveDmp` are `Pipeline.ingest`;
`RecordStatement` with `ParseDeclaration`, `ConfirmDeclaration`, `Advance`,
`Validate`, `Resolve`, `RequestRerun`, `ShowGate`, `Publish` the requests of the
screens.

Two things the code does look odd in the model and are so in the code. A run
whose agent gives no decision record is appended in full and then ends the
call, since writing the decision fails (`P/workflow/engine.py:199`). And an
advance of a job with a plan and a record ends before it runs anything
(`Compares`; section 4), unless the plan cannot be read a second time.

### ReviewGate
A draft is who wrote its core (title, creators, ...) and its prose; an item is
named by what the model wrote, so writing it twice names the same item, as the
digest does. `MetadataRuns`, `DocumentationRuns`, `ValidationRuns` are the
nodes; `Validate` an approve or edited decision; `AskAgain` a request for
another attempt, and `MetadataAgain`, `DocumentationAgain`, `ModelFails` how it
ends; `DraftAgain` the redraft button; `Revise` the saved form with its
re-check; `OpenDeposit`, `TakeRecord`, `Publish` the loads of a deposit. Three
histories, which no guard reads, keep apart what the promises are about and what
gets past them: `read`, the texts a person approved or wrote; `slipped`, the
texts that came into the record past their item; `behind`, whether the record
was put in place past the check.

### Deposit
`log[j]` is what the log of job j says of its attempts; `registry` is
`depositions.json`; `tmp` its one temporary file; `zenodo` the depositions in
the order of their ids; `call[c]` a request with its place and what it holds.
`Receive` to `Start` are the service and the agent up to the intent; `LookUp`
to `Publish` the driver, a step per request and per file operation; `Fail`,
`Complete`, `RecordDeposit` the outcome. An `answered` of FALSE is a request
Zenodo carried out and whose answer was lost; `Unanswered` one it refused or
never got. `Crash` is a call that dies, or one whose next append meets a held
lock, which nobody catches. `Settle` is `effects.py`'s, in the course
`"settled"`: no route and no command calls it, so nothing is assumed of it.

### Retention
A directory has the name of its job, and is numbered in the order a sweep takes
them. `job`, `last` and `record` are what a sweep asks of a log and of the
repository; `mark[d]` is the tombstone in directory d; `started`, `concluded`
are the intents and outcomes of removals, by the log they are on and the
directory they are about, which is the code's idempotency key. A sweep is
`Candidates`, `CheckSurvival`, `Mark` and `Due` directory by directory, then for
each that is due `Delete` (the intent, or the refusal, which ends the command),
`RemoveSome` and `RemoveRest` of `rmtree`, or `RemoveFails`, `Conclude` and
`RecordDeletion`. `OrderMark`, `Unmark` and `OrderDeletion` are people. `Tick`
is a day; `Appends`, `Close`, `Publish`, `Withdraw` are the world meanwhile.
Grace and idle times are constants, so that a day of the model may stand for
weeks.

### Disclosure
`level` and `job` are what the log says; `preference` is the attribute of the
policy enforcement point that one process keeps for all its jobs; `ledger[j]`
is `exposures.jsonl`, as its sums and the list of who was shown what. A call
probes a table, inspects images or reads a document; for what it sends
`ResolveBackend` is `resolve` of the enforcement point (permitted by level,
capable, preferred, ordered), `Check` and `AppendExposure` are the ledger's, and
sending comes after them, as in the code. Words that are no material of the
dataset (a plan, an instruction, a draft) are sent in one step and not entered. Images that
cannot be shown count as sensitive; documents are read chunk by chunk. `Die`
ends a thread, `Restart` the process with its preference. A model's answer is
any answer. Two histories say what a property measures by: `least`, of a call,
the least level its job had since the call began, and `within`, of a job, the widest ceiling the process took since its depositor
asked. `Studied` bounds an instance: the other jobs are only submitted, which is
all that is needed of them to overwrite a preference.

### Sessions
`file[f]` and `tmp[f]` are a JSON file and the temporary beside it, which
opening truncates; `req[c]` is a thread on its way through read, change, write,
rename, or a visit that only reads. `state[s]` is a state parameter, in memory
and lost at a restart: `Login` and `AuthoriseRepository` issue one, `Callback`
looks it up and `Discard`s it in two steps, `RepositoryCallback` takes it out in
one, as the two modules of the code do. `overlap` is a history variable: it says
two requests met on one file. `Ways` are the ways to sign in: ORCID,
a local account, and the operator's command.

### Access
`log[j]` has only the entries ownership and audit are about. A route is `Ask`,
`Look` (is there a job?), `RequireVisible` or `RequireActor`, with an auditor's
reading entered first, then `Show` or `Act`, or the two steps of adding an
owner, and each reads the log for itself. `List` is the page of jobs, and
`Command` the command line, which names a person. A log may be damaged by other
hands.

There are two answers about a job that is not to be seen, and they differ. The
routes that look for the job first answer for one that does not exist with an
`HTTPException`, rendered as JSON (`P/web/views.py:788`, `P/api/app.py:118`):
`"no such job"`. One that exists and is not the caller's is answered by the
handler of `NotVisible`; `P/cli.py:595` and `:610` build the API and the pages on
one application, so that of `P/web/views.py:405`, an HTML page, replaces that of
`P/api/app.py:132`: `"hidden"`. `Absent(route)` is what the route answers where
there is no job, and `told` keeps it beside what was answered.

### Courses
The code offers more courses of events than its comments promise anything
about. `ReviewGate`, `Deposit`, `Retention`, `Disclosure` and `Workflow` name the
ones that break a promise and take the set of them an instance includes as the
constant `Courses`. The run `gate` includes all of them, `workflow` its one (a
death before the submission was staged) and `disclosure` a change of level under
a call; what is promised there is what holds with them. Where a run leaves a
course out, section 4 has a row with what TLC finds it breaks. Nothing else is
left out by it.

## 3. Runs

| Run | Shows | Bounds and why they are enough |
| --- | --- | --- |
| `log` | the log never forks, no reader meets a broken chain, no returned event is lost, the store implements `AppendLog`, no lock is held for ever | two processes (two writers, a writer and a reader), two events, crash and power loss anywhere: every pair of calls interleaves in every way; the theorems cover any number |
| `fold` | rollback, of rollbacks too, is erasure; no machine relaxes a level; a level covers each scan | every log of five events over one event of each effect on the fold: two rollbacks around a confirmation and two scans need five |
| `workflow` | a node starts only when none on an open path before it could, none behind prose somebody has yet to read; what is offered for publication is complete; a job nobody works on waits for something that can be named, unless its ingestion was completed over no material | one caller, a submission with images and one with a plan, two faults (an attempt that fails and one that halts, a failure and a death), deaths before the material is staged too, one thing done again, two attempts, no questions: every pair of failures at every step and append |
| `workflow_offered` | a job whose people do their part is offered for publication in the end, or stopped with its reason | one fault anywhere, one thing done again, an ambiguous plan, two kinds of question. With two faults it fails (section 4) |
| `gate` | what is published, or built on, was read, or came past its item in a way the history names; it was checked, or put in place past the check; an item once settled never asks again | every course at once (drafting again, repeated texts, edits, failing re-checks, drafts landing between two reads), three texts of the metadata agent, one invalid, two READMEs, three drafts: each course alone breaks the plain promise in this instance or, for two of them, with a fourth draft or another course (section 4) |
| `deposit` | one published record per job, exactly as reviewed; a job that says it was deposited names a published deposition of its own; Zenodo never holds more depositions of a job than its log has intents | two jobs, two files, one call at a time, two faults: the least with which one attempt fails and the next is cut short |
| `workflow_planned` | refuted: "Run what can be run, and say what is wanted when it cannot" | no fault at all |
| `retention` | a schedule removes only what was published, marked the days of grace ago and by a person or on the word of the repository; an attempt at what is left in part is on a log | two directories, one sweep, three days, grace of one day and two, one crash or failure: a mark of one run is carried out by a later one, and a crash falls between two directories or inside one |
| `disclosure` | what a model was shown of the material is in the ledger, under its name, within every limit; the model is permitted at a level the job had while the call held it, though levels change under calls; nothing goes further than the depositor asked, or than one asked whose preference took its place; an image that was not seen counts as sensitive, and no conclusion lowers a level | one call at a time over a job with a table and a photograph, a second job whose depositor states another preference, or none, meanwhile; three models (on the premises, near, far), three preferences, levels confirmed under the call, a budget of two releases and of one that costs bytes, one chunk past the first: each limit is met by some sequence, and each level rules out some model. Two calls on one job are below |
| `sessions` | as long as no two requests meet on one file: an answered sign-in lasts until it is ended or expires, an ended session stays ended. Whatever meets: a state that was used, and that no request which had found it still holds, is never used again | two people, two threads, two sessions, one state, deaths at every step and restarts: two writers meet at every step of a rewrite (which the proviso then sets aside, section 4), one writes after another died, and two requests bring one state at once |
| `access` | who acts owned the job already; an auditor reads only after the reading was entered; a stranger is shown nothing, and changes nothing | two people and an auditor, one job, two requests, logs of three entries: a job is created, its owners change and it is damaged between any two steps of a request |
| `access_strangers` | refuted: "A caller who does not own a job learns only that they have no job by that name" | one request at a time: no interleaving is needed |

With `Callers = {c1, c2}` and `Courses = {"together"}` in `MCDisclosure`, one job
and no preference stated, `BudgetKept` allows each limit to be passed by one
release and TLC confirms it (2.9 million states, 185 seconds: not one of the
runs); with one caller, as in the run, it allows nothing past a limit.

`CHECK_DEADLOCK FALSE` stands where a bounded log, a published record, a
closed job, the last day or the last identifier really ends the behaviour.
`log`, `workflow` and `workflow_offered` check for deadlock. Requests are
interchangeable in `access` and `sessions`, as are people and identifiers, and
READMEs are in `gate`; the runs use that, and none of them has a liveness
property.

Fairness. In `EventStore`, a call that has begun runs on unless its process is
killed: a thread is scheduled. Nothing is assumed of callers that have not
begun, or of a lock being free when one tries. In `Workflow`, a call that has
begun runs on unless it dies, again because a thread is scheduled. Of people it
is assumed that they submit, make a statement, confirm once, press "Continue"
and decide about what is put to them; the requests that need a moment at which
no call is under way are strongly fair, since such moments may come and go.
Nobody need ask for another draft, look at a gate or change their mind.
`Deposit` has a `FairSpec` for the refuted `PublicIsRecorded` alone: a call that
runs goes on running, and a person whose job is not published asks again. It
assumes nobody who settles an interrupted attempt, since nothing in production
calls `settle`. The other modules have safety properties only.

## 4. What the code does against its own words

The two refuted runs have their findings in `PROJECT.json`. Each row below is a property
of the same kind, defined in the module, which TLC finds violated. To repeat
one, take the configuration named, put the property in the place of those it
lists (as an `INVARIANT` if it speaks of one state, as a `PROPERTY` if it is a
formula `[][...]_vars` or temporal), change the constants as the row says, and
run TLC; "as it is" changes none.

| Configuration | Change | Property | What happens |
| --- | --- | --- | --- |
| `MCJobLog` | `MaxLog = 4` | `ReadsChangeNothing` | opening the gate screen of a halted job records what was displayed, and folding that entry takes the halt away (`P/api/app.py:18`, "Reads never change anything") |
| | `MaxLog = 4` | `RollbackForgetsWhatRan` | after a rollback the kinds seen still hold those rolled back, so the graph takes their nodes as done (`P/state/projection.py:150`, "the fold does the undoing") |
| | `MaxLog = 4` | `SensitiveDecisionCounts` | "treat the job as sensitive" leaves the level as it was (`C/gate.py:90`, "Every other decision here changes something") |
| `MCWorkflow` | `Plain`, no again, both questions, `Courses = {}`, `FairSpec` | `OfferedAtLast` | two calls die between a draft and its item, of each drafting agent: there is nothing to decide, the review node asks for a decision, and the job waits for it for ever (`P/pipeline.py:718`) |
| | `Plain`, one fault, both questions | `EveryDraftIsAsked` | one such death leaves a draft nobody is asked about, which is then built on (`P/gate/review.py:1`, "Every model output, put in front of a person") |
| | `Plain`, one fault, no again, both questions, `FairSpec` | `TryAgainWorks` | trying again after a failed service takes the halt away and then does nothing, since the node counts as done ("Trying again is worth doing if the cause was temporary") |
| | `Planned`, no fault | `EveryDraftIsAsked` | the plan read at ingestion is appended past the code that raises items (`P/pipeline.py:537`, `P/gate/review.py:1`) |
| | as it is | `AlwaysWaitsForSomething` | a call dies before it staged the submission, and the next advance completes the ingestion over nothing: no step can be taken and nobody is waited for. `NeverWaitsForNothing`, which the run checks, says that this is the only way (`P/pipeline.py:720`, "a status worse than wrong") |
| | `Plain`, `Callers = {c1, c2}`, no fault, no again | `NothingBehindUnread` | of two calls at once, one chooses a node while the other is still appending the draft before it (`P/gate/review.py`, "nothing downstream reads this until you validate it") |
| | `Plain`, `Callers = {c1, c2}`, `Courses = {}`, one fault, no again | `AlwaysWaitsForSomething` | a second call runs the ingest node while the first is still staging: the node is recorded as completed with nothing in it, the first dies, and the job waits for nobody (`P/pipeline.py:720`) |
| `MCReviewGate` | `Courses = {"redraft"}` | `PublishedWasRead` | "Draft again" replaces an approved draft by one no item asks about, and the deposit publishes it (`P/gate/review.py:1`) |
| | `{"recheck-fails"}` | `PublishedWasChecked` | a re-check that fails after a revision leaves clean findings about the record before it (`P/web/views.py:654`, "If the re-check cannot run, nothing publishes unchecked") |
| | `{"docs-again"}` | `PublishedWasRead` | a second README leaves the prose of the first in the record; settling the new item releases the old one (`C/gate.py:252`) |
| | `{"repeat"}`, `MaxDrafts = 4` | `PublishedWasRead` | a model writes A, B, A: the item of A stands before B and is superseded by it while A is the newest draft (`C/gate.py:252`) |
| | `{"edited"}` | `PublishedWasRead` | "I wrote my own version" settles a draft that stays the newest (`C/gate.py:114`) |
| | `{"meanwhile"}` | `PublishedWasRead` | a draft lands between the gate check and the read of the record (`P/api/service.py:291`) |
| | `{"rerun-revised"}`, `MaxDrafts = 4` | `PublishedWasChecked` | a revision re-checked before validation ran marks that node done; a later draft is published on its findings (`P/pipeline.py:445`) |
| | `{"eager"}` | `PublishedWasChecked` | a deposit requested before validation finds no findings, which blocks nothing (`P/workflow/definition.py:114`) |
| | `{"redraft"}`, `{"docs-again"}` or `{"edited"}` | `NothingBuiltOnUnread` | the texts of the rows above are built on and checked before they are published (`P/pipeline.py:479`, where "Draft again" raises no item) |
| | as it is | `SomethingIsOffered` | a model that fails when asked again leaves a draft that blocks and that the screen shows as decided (`C/gate.py:126`) |
| `MCDeposit` | `Callers = {c1, c2}`, `Courses = {"together"}`, one fault, `MaxRecord = 1` | `OneRecord` | two jobs overwrite each other's registry entry, and a retry publishes again (`P/repositories/zenodo.py:49`) |
| | `Jobs = {j1}`, `Callers = {c1, c2}`, `Courses = {"double"}`, no fault, `MaxRecord = 1` | `OneRecord` | of two calls on one job both look the registry up before either wrote it ("A retry ... must not create a second record") |
| | `Courses = {}`, one fault | `OneDeposition` | a lost answer to the creation is created again (`P/repositories/zenodo.py:226`) |
| | `Jobs = {j1}`, `Courses = {}`, `MaxRecord = 1` | `NoAttemptOverAnother` | after one attempt that failed and was recorded, an interrupted one is not seen and the next begins over it (`P/agents/publication.py:80`, "The attempt is settled first, or not at all") |
| | `Jobs = {j1}`, `{"exclude-late"}`, one fault, `MaxRecord = 1` | `ExcludedIsNotPublished` | a file a failed attempt uploaded is published after a person excluded it (`P/agents/publication.py:10`) |
| | the same | `ClosedIsNotPublic` | a job whose publication lost its answer is closed as not shared (`P/api/service.py:318`) |
| | `Jobs = {j1}`, `{"revise-late"}`, one fault | `DepositedAsReviewed` | a publication whose answer was lost is recorded as the deposit of a record revised since (`P/api/service.py:283`) |
| | `BaseName <- Alike`, `Courses = {}`, no fault | `DepositedAsReviewed` | of two files of one base name the second replaces the first (`P/gate/items.py:254`) |
| | `Jobs = {j1}`, `Courses = {}`, one fault, `MaxRecord = 1`, `FairSpec` | `PublicIsRecorded` | a process that dies after publishing leaves a job no request can complete, and nothing calls the function that would settle it (`P/workflow/effects.py:23`); with `{"settled"}` it fails as well, since nobody need settle |
| `MCRetention` | as it is | `RemovedOnEvidence` | a mark is carried out on the answer of the day it was made; the record was withdrawn since (`P/retention/sweeper.py`, "so the check is made rather than assumed") |
| | as it is | `GoesAfterGrace` | every run marks again, with its own day, what it finds safe, before it asks what is due: what goes on being safe never goes, and what is removed is what could no longer be checked (`P/cli.py`, "marked for deletion after the grace period") |
| | `Courses = {"late"}` | `CancelledIsKept` | a directory whose mark a person removed while a run was under way is removed ("remove this file and the deletion is cancelled") |
| | as it is | `OwnDirectoryOnly` | the removal of a directory whose job has no log is entered on the log of another, which then cannot be published while that removal is unfinished |
| | as it is | `GoneIsDescribed` | a process that dies after the removal and before the record of it leaves no description; a removal taken up again describes only what was left (`C/retention.py`, "a later question about what was deposited can still be answered") |
| | `MaxFaults = 2`, or `Sweeps = {s1, s2}` | `CutShortIsUnfinished` | all attempts at one directory share an idempotency key, so the failure of one makes another that a process died in look concluded (`P/workflow/effects.py:131`; `:94`, "the log holds an intent with no outcome") |
| `MCDisclosure` | `Preferences <- Various` | `SentIsRecorded` | between a probe entered for one model and the question about what it found, the preference of another depositor changes which model is asked (`C/exposure.py`, "Every release of class-1 material to a model is an exposure and is recorded") |
| | as it is | `SentIsPermitted` | a level confirmed while a call is under way does not reach it: it sends to the model chosen at the level before, which none from the new level up permits. `SentWasPermitted`, which the run checks, is what remains (`P/policy/pep.py:42`) |
| | `Callers = {c1, c2}`, `Courses = {"together"}` | `BudgetNeverExceeded` | two calls on one job each find room for their release, and both enter it; `BudgetKept` says by how much (`P/exposure/ledger.py:136`) |
| | as it is | `PreferenceRemembered` | the preference lives in the process and not on the log: after a restart it is forgotten, and that of a later depositor takes its place. `PreferenceHonoured`, which the run checks, says that it goes no further than one of those (`P/pipeline.py:374`) |
| | as it is | `WordsAreRecorded` | instructions, plans and statements are sent and not entered |
| | `Found = TRUE` or `FALSE` | `ImagesNeverHalt` | an image whose one permitted model is not on the premises needs an authority nobody gives, which the agent does not catch; and where the agent looks in the working root, as it is built to, it finds no image: either halts the job (`P/policy/pep.py`, "must be decided by a human at the approval gate") |
| | as it is | `AloneSettles` | a chunk the model called sensitive on its own counts for nothing where it came with no observation (`P/content/inspector.py`, "A chunk that was sensitive on its own settles the document") |
| `MCSessions` | as it is | `KeptWhateverElse` | two requests rewrite the file each from what it read: a session somebody was given is gone |
| | as it is | `EndedWhateverElse` | the same way round: a session somebody ended is back (`P/identity/session.py`, "End a session immediately") |
| | as it is | `UsedOnce` | two callbacks find one state before either takes it out, and both are signed in (`P/identity/orcid.py:78`, "A single-use CSRF state parameter") |
| | as it is | `SaysHow` | the operator's command issues a session labelled as ORCID's for an identifier nobody proved; without `"operator"` it holds ("no development mode that mints a session without an ORCID exchange") |
| `MCAccess` | as it is | `ListedIsAudited` | the list of jobs shows an auditor the state of each, and enters no reading (`P/api/ownership.py`, "Their reading is recorded") |
| | as it is | `JobsAreCreated` | an auditor's request for a mistyped name creates a log with that reading in it, as does a command (`P/api/app.py:18`) |
| | as it is | `ListsWork` | one job whose log does not verify, or has no entry, fails the whole list |
| | as it is | `AddedOnce` | two requests both find that a person is no owner yet, and add them |
| | as it is | `CommandedByOwner` | the gate and advance commands ask nothing of the person they are given |
| | as it is | `StrangersNeverLearn` | beside the two answers of the refuted run, which it refuses as well, the error of a damaged log: that is reported before ownership is asked (`P/api/app.py:136`) |

Other properties are stated, hold in the same instances, and are in no run
because they are close to the code's own lines: `TypeOK` of `JobLog`, `Workflow`,
`ReviewGate` and `Sessions`, `HaltedWhileLast` of `JobLog`, `ConfirmedFirst` of
`Workflow`, `DelegatedOnce` and `NeverADefaultUser` of `Sessions`, `ImagesStay` of
`Disclosure`. Those of `JobLog`, `Workflow` and `ReviewGate` and the first two of
`Sessions` are theorems of section 5.

## 5. Proofs

All are checked by TLAPS for every value of the constants that the named
assumptions allow; the bounds (`MaxEvents`, `MaxLog`, ...) are arbitrary
naturals there. The conditions a theorem states besides are named below; no
proof assumes anything else.

* `EventStoreProofs`: `TypeCorrect`, `LogNeverForks`, `LogNeverSeenBroken`,
  `ReturnedNeverLost`, `StoreImplementsLog`. That the files verify is not
  inductive: the invariant `IInv` adds who holds the lock (`HolderInv`), that
  the holder's listing is the directory (`TailInv`) and its temporary file the
  next event (`TmpInv`), that a listing is a prefix of the files or was lost
  with them (`ViewInv`), and that what was returned lies in the synced part
  (`DurableInv`). Three lemmas carry it: a chain of n events takes every
  position to n, a prefix of a chain is one, and a chain with a next event is
  one. The refinement maps a rename to an append, an fsync to an
  acknowledgement, a power loss to a loss of the tail, the rest to stuttering.
* `JobLogProofs`: `Types`, `DeclaredOnly`, `RelaxedByPeople`,
  `RollbackErases`, `ScansAreCovered`, `HaltsWhileLast`. `RelaxedByPeople` needs
  how one event changes a level (`LevelChange`), and that the fold of a prefix
  is the state recorded for it, for the compensations. The last three speak of
  the events in force, which are defined by recursion over the log. The prover
  has no induction over data, so the induction is over the steps of the job:
  `Erasure` says that functions satisfying the recursive equations exist at
  every length of the log (each append extends them by one place), and that
  whatever satisfies them reads, at every length, the state recorded there. A
  rollback takes the sequence and the state of an earlier length together.
* `ReviewGateProofs`: `TypeCorrect`, `SettledStaysSettled`, `UnreadOnlySlips`,
  `BuiltOnRead`, `UncheckedOnlySlips`, with no condition: every course of events
  is allowed. For
  `SettledStaysSettled` the invariant is that no item is raised twice; then the
  log of items only grows at its end (`LogGrows`) and a later item that settles
  an earlier one keeps standing after it. For reading (`ReadInv`), a text of the
  record is read, or came past its item (`slipped`), or is that of the newest
  item of its agent, which waits; and a waiting item is unresolved, so no agent
  behind it starts and no deposit passes. A newest item exists because a nonempty
  set of numbers has a least one (`LeastNatural`, from the library's facts about
  finite sets). For checking (`CheckInv`), from validation on the record is the
  one checked, unless it was put in place `behind` the check. That the histories
  excuse no more than they must is TLC's part: with `Courses = {}` the plain
  promises `PublishedWasRead` and `PublishedWasChecked` hold in the same instance,
  and section 4 has what each course breaks.
* `DepositProofs`: `TypeCorrect`, `DepositedIsSound`, `OneAtATime`,
  `WhatIsReviewedIsDeposited`, `NothingUnintended`. The
  invariant `IInv` says of every call past the creation that the deposition it
  holds exists and is its job's, of every registry (file, `.tmp`, or in a call's
  hands) that its entries are, and of a call with a receipt that its deposition
  is published; depositions never go away or change jobs (`Grows`). On it:
  `Covered`, that depositions and the calls about to create one are together no
  more than the intents, which a count of finite sets keeps (`NothingUnintended`,
  no condition); `OneInv`, for one call at a time (`Serial`), that the registry
  names every published deposition, and that a call creates one only for a job it
  names none for; `Listed`, that a call's files are those not excluded, and a
  deposition means an attempt was begun with one (no `exclude-late`); `Reviewed`,
  that what is at the repository fits those files and the record (`Settled`: no
  `exclude-late`, no `revise-late`; and `NamesDiffer`: no two files of one base
  name). All but `OneAtATime` hold for any number of calls at once.
* `RetentionProofs`: `TypeCorrect`, `NothingWithoutRights`,
  `NothingIsLeftUnrecorded`. `RemovedByRight` is
  inductive only with what is known of a mark: one for a published job was
  ordered by a person, or was made on or after the first day the repository
  answered for the record; and a removal under way carries a mark that was due
  when it began, which the days passing keep due. `HalfRemovedIsRecorded` adds
  that every removal under way is on a log; logs only grow, and a root without
  any job never gets one.
* `DisclosureProofs`: `TypeCorrect`, `BudgetIsKept`, `NothingUnpermitted`,
  `ShownIsOnRecord`, `CeilingsAgree`, `NoFurtherThanAsked`, `NoneIsSkipped`, for
  any number of calls on one job and any change of level under them; of the
  callers it is assumed that they are finitely many (`CallersAssumption`).
  `BudgetIsKept` counts (`Kept`): as long as some call is about to append a
  release it has checked, one of these finds room for its own but for what the
  calls that have appended since may have added, one release each; so the last of
  them takes a limit no further than one release of every other call. The same
  argument serves the three limits, each a sum over a ledger to which a release
  adds at most so much. `NothingUnpermitted`: a call goes on at a level its job
  had at or after the call began (`Good`), and what `ResolveBackend` returns is
  permitted there. `NoFurtherThanAsked`: the preference of the process is never
  wider than `within` of any job (`HonourInv`), and a release goes on carrying a
  model chosen under it.
  `ShownIsOnRecord` needs `Agreed`: no two preferences lead to two models at one
  level. Then the model a probe was entered for is the one that is asked
  (`RecordInv`); `CeilingsAgree` proves the condition of depositors who state
  ceilings and name no model, since the first of the nearest permitted models is
  the same under every ceiling that allows one. `NoneIsSkipped` needs nothing
  (`LookedInv`: an image is still to come, or was shown, or the worst is already
  known).
* `SessionsProofs`: `TypeCorrect`, `AnswersAreKept`, `EndsAreFinal`,
  `StatesAreOver`, `DelegationsAreUsedOnce`, with no condition on the
  constants; the proviso that no two requests meet on one file is part of the
  first two properties themselves. The invariant `FileInv` speaks of the copies
  requests hold: until two meet, one request at most is in its rewrite of a file,
  its copy is the file as it stands with its own change, and the temporary is torn while it
  writes and that copy when it replaces (`Undisturbed`); an identifier is added
  by one request, and before it is answered for (`Minted`, `Bearers`). The states
  have no proviso: `StatesAreOver` lets any number of requests bring one at once,
  and says that it is over as soon as it was used and none of those that found it
  is still on its way (`Over`); one that is bound to a person is taken out in the
  step that reads it, and so exchanged once (`OnceInv`).
  The theorems of `Access` stand at the end of the same module:
  `AccessTypeCorrect`, `OnlyOwnersAct`, `NoReadingUnaudited`,
  `NothingForStrangers`. Logs only grow and owners are never taken away
  (`LogsStay`), so a check made a step ago still holds at the act; the invariant
  says of each place in a route what its checks established, that a reading to
  be shown was entered, and that an answer to a stranger shows nothing. That
  the answers differ is the refuted run `access_strangers`.
* `WorkflowProofs`: `TypeCorrect`, `StepsInOrder`, `OfferedComplete`,
  `AlwaysNamesNext`, `SaidBeforeRead`, for any number of calls at once.
  The graph comes first, since what a walk examines, and what is upstream of a
  node, are recursive functions. A walk ends: each round takes a place it had not
  seen, and what it has still to see, with the length of its queue, is a measure
  (`Left`). By that measure there is a function that satisfies the recursive
  equation (`WalkIs`: functions that satisfy it where the measure is small extend
  by one), and an argument of least measure against which a claim would fail
  gives, for every walk, that a target is led to by one examined before it, and
  that what an examined node leads to is examined (`WellWalked`, `WalkOfJob`).
  From it, which nodes may stand before which (`Before`). The same, by the nodes
  not yet reached, for `Ancestors`, whose members stand before the node
  (`AncestorsBefore`).
  Then the steps: `StepIs` sorts every step into six kinds (a call takes a
  node, runs it, appends, ...), and what follows speaks of the kinds.
  `StepsInOrder` follows from the walk alone: a step in its order that did not
  count as done would have been chosen.
  `OfferedComplete` needs `Made`: that a node is completed is written after what
  the node makes, in the log and in what a call has still to append (`Makes`).
  With the walk: a job with no step left has every node on an open path done, and
  `Made` says what stands behind that.
  `AlwaysNamesNext` follows the same way, by contradiction: where there is neither
  a step nor a person, the walk goes from the material to the deposit, and every
  node on it is done. Where the ingest node is recorded as completed and there is
  no material the walk goes no further, and that is the exception it states.
  `SaidBeforeRead` needs that no call is at a node that reads before a level is
  confirmed (`ReadAfter`), since a level, once confirmed, is never taken back.

A condition above is one of two things: an operation or an overlap of calls
that the code offers and that is absent, or a property of the inputs that the
code does not ask for. There are four: `Serial`, `Settled` and `NamesDiffer` of
`Deposit`, and `Agreed` of `Disclosure`. Each is met by the
instance of the run that checks the property, and section 4 has, for each, what
TLC finds where it is not met (`Agreed`: `MCDisclosure` with `Various`).

Every safety property of a passing run but one is the subject of a theorem. Only
model-checked are `NothingBehindUnread`, of calls that come one after another,
since TLC refutes it for two at once (section 4); and `LockIsReleased` and
`OfferedAtLast`, since liveness is out of the prover's reach.

## 6. Not modelled

`PROJECT.json` gives the reason for every component. Those without a module are
functions without state (formats, statistics, vocabularies, the precedence of
choices), assembly at start-up, and requests to a model.

Beside those, inside modelled components: a partial write of the shared
temporary registry file and the empty registry that an unreadable one is taken
for; a README rewritten after a failed upload, which is not uploaded again; the
exclusion of a file at the root, which also excludes files of that name in
directories (the instance has none at the root); in `Workflow`, a model that
repeats its text (every draft is new; `ReviewGate` has the repeats), the two
tests for a medium, which differ over `.dcm` and `.bmp`, and the entries about
standards and backends, which change nothing there but the halt that any entry
takes away, and no halt can stand while they are written; in `Retention`, the
order of removals inside one directory and the digests themselves; in
`Sessions`, `revoke_all_for` and the reading side of the store of tokens, which
nothing calls, and the hashing of passwords; in `Disclosure`, what a model
answers beyond what is concluded from it; cost and time of models; the content
of records.

## 7. What is left

1. That the registry of depositions under one caller implements an atomic map,
   as `EventStore` implements `AppendLog`; the same of the session file.
2. One composition of `Retention` with `Deposit`: a removal under way and a
   deposit of the same job share the log and its rule about unfinished attempts.
