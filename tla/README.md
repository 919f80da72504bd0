# SEAL-IoT: a TLA+ model of the harness

SEAL-IoT watches the telemetry of an industrial site and *coordinates* the work an
anomaly or a human request asks for: a deterministic supervisor walks a task through a
playbook (observe, plan, analyze, adjudicate, act, verify, report), stops at gates a human
must approve, and writes work orders and reports through a tool port.  Older layers of the
program (perceive, diagnose, decide, act, verify) run one guarded control action at a time.

What has state and threads is modelled by state machines, at the grain at which the
program's threads can interleave and its process can be restarted.  What computes (parsing,
validation, detection, diagnosis, scoring) is modelled by operators, whose promises TLC
evaluates over every small input as named assumptions of the runs.

## 1. Inventory

| component | state it keeps | operations | interacts with | what makes it correct |
|---|---|---|---|---|
| **Task store** `orchestration/task_store.py` | SQLite table of task rows (state, priority, cursor, replan count, approval id, evidence), unique index on live (incident, playbook) pairs | mint, raise priority, transition by the table, column setters, TTL sweep at resume | called by the supervisor from every thread; one lock serialises calls | closed states, closed tasks stay closed, one live task per pair, priority only hardens |
| **Playbooks** `orchestration/playbooks.py` | none (data) | look-up, back-edge caps | read by the supervisor | stages from the menu, back-edges go strictly back |
| **Supervisor** `orchestration/supervisor.py` | drive lock; the locals of each driving thread | request, detector spawn, drive (rounds of `advance`), approval request, `handle_approval`, replan, clarification | store, port, bus, history, agents | gates, denials, completeness of reports, walk as declared, progress |
| **Tool port, simulated CMMS** `tools/` | key registry, artifact tables, approval status | validate, create or reuse by key, read back, update approval status, seed, list | called by the supervisor | no duplicate artifact on retry, "verified" means read back |
| **Dashboard** `ui/dashboard.py` | per-task card (state, pending approval), event ring, aliases of episode keys, series, bridge chip | fold bus events, publish requests and decisions | sole publisher of requests and decisions; HTTP threads | what it shows is what the store waits for, and what the observer sees |
| **Auto loop** `orchestration/auto_loop.py` | autopilot timers and denials | detector scan, autopilot poll | history, supervisor, dashboard | every outage raised, each card its grace period, each gate decided |
| **Bus** `bus/client.py`, `envelopes.py` | subscribers | synchronous publish on the publisher's thread (in-process), MQTT | everyone | order per publisher |
| **History** `history/buffer.py` | ring of samples, arrival times | write and trim, windows | detector, observer, verify | the newest samples are kept |
| **Track C bridge** `adapters/trackc*.py` | session, `connected` flag | connect, callbacks on paho's thread, heartbeat, parse, publish | bus, dashboard chip | chip follows the session, the stream comes back, bad parts of a frame are skipped |
| **Configuration** `config.py`, `mapping.yaml` | none after loading | load and validate registry, mapping and knobs; look-ups | everyone | what is accepted can be observed and acted on |
| **Agents** `orchestration/agents/` | none | answers of observer, maintenance, production, action | called by the supervisor | no silent device is called fresh |
| **Demo loop** `harness_loop.py` | round, process-wide counters | raise an episode, diagnose, decide, act, verify, learn, report, smoke | bus, files, guarded action | rounds end, the latest is shown whole |
| **LLM client** `llm/client.py` | call budget | chat with time-out, mock | diagnosis, agents | never waited for in vain |
| **HAI replay** `adapters/hai.py` | counters | slice, order, stream | bus, history, detector | time order, labels left out |
| **Perceive, diagnose** `perceive/`, `diagnose/` | detector windows | deviation detector, divergence, lagged correlation, ranking, debate | demo loop, replay | bounded and typed hypotheses |
| **Decide, verify, plant model** `decide/`, `verify/`, `plant_model/` | plant gain | candidates, score, winner, verdict | guarded action | winner within reach of the shield |
| **Incident FSM** `incident/fsm.py` | SQLite table of incidents | mint, transition, retry, TTL sweep, distil at resolve | guarded-action pipeline | bounded retries, resolved only when improved |
| **Guarded action** `act/` | current diagnosis | decide, shield, execute, verify | incident FSM, bus, history | nothing unsafe is published, no silent completion |
| **Learning** `knowledge/`, `learn/`, `score/` | runbook files, metric rows | match, record, save, load, score | guarded action, demo | one row per incident, entries come from successes and are found again |
| **Recorder, replay renderer** `bus/recorder.py`, `orchestration/replay.py` | the log file | append, read, timeline, counts | bus | what is counted was recorded |
| Vendored authoring scripts `.agents/`, `_bmad/` | | | nothing in the program | not modelled |

### Where it is hard

* `_drive` holds one lock for all tasks, but `handle_approval` runs on the decider's thread
  **without** it until it drives on; the bus is synchronous, so a published event runs its
  consumers before the publisher continues.
* `advance` reads the row once and works from locals; a decision writes the same columns.
* The row, the approval record, the artifacts and the dashboard are written one after the
  other; each step may fail, and the process may stop between any two.
* A no-progress guard, a 24-round bound, back-edge caps and a TTL together decide whether
  an accepted task ever ends.
* The autopilot lists records, looks at each later, and decides later still; records are
  pruned, gates are decided by people, and decisions fail in between.
* paho's callbacks run on its own thread while the harness is still bringing the bridge up;
  dashboard and observer judge the same readings by different clocks and memories.
* The runbook files and the log outlive the process that wrote half of them.

The hazards, each at its line and with the properties that cover it, are listed in
`PROJECT.json`.

## 2. Modules

State machines and their abstract specifications:

| module | models | role |
|---|---|---|
| `TaskTable` | states, transition table, priorities | shared vocabulary |
| `TaskLife` | (abstract) a task is opened, hardened, closed | what the store promises |
| `TaskStore` | `TaskStore`, any caller, any order | detailed store; `ImplementsLife` |
| `Playbooks` | the four seed playbooks | data |
| `PlaybookWalk` | (abstract) one stage at a time, granted gates, capped back-edges | what the supervisor promises |
| `Supervisor` | supervisor, dashboard card, port, autopilot, crashes | composes everything; `ImplementsWalk`, `UsesStore` |
| `ControlRoom` | dashboard records and their pruning, people, the autopilot's poll | the decision side of the supervisor |
| `IncidentTable`, `IncidentStore` | the incident FSM and its store, any caller, any order | vocabulary; what the incident store offers |
| `GuardedAction` | `GuardedActionPipeline.run`, shield, executor, verdict, hook, sweep | `UsesFsm` |
| `ToolPort` | one `create` from look-up to answer, cut off anywhere, tried again | the port alone |
| `Telemetry` | `HistoryBuffer` and `AutoLoopDetector.scan` | buffer and detector, interleaved |
| `Ingress` | bridge, network thread, dashboard series, history, restarts | from the broker to what is told; over `Agents` |
| `DemoLoop` | the demo's rounds with files, budget, dashboard and log | over `Runbooks` |

Operator modules:

| module | models | checked in |
|---|---|---|
| `Registry` | the device registry: validation, ownership, adjacency | `MCIngress` |
| `Frames` | building and parsing frames, `mqtt.env`, topics | `MCIngress` |
| `Agents` | the stage agents' verdicts, as far as freshness decides them | `Ingress` |
| `Mapping` | `mapping.yaml`, the knobs, what loading refuses | `MCGuardedAction` |
| `Scoring` | candidates, objective, plant model, verdict windows | `MCGuardedAction` |
| `Cmms` | intents, keys, tables, seeds and lists behind the port | `MCToolPort` |
| `Trail` | the log's lines, timeline and counts | `MCToolPort` |
| `Runbooks` | matching and resolutions | `DemoLoop` |
| `Evidence` | detector, divergence, correlation, ranking, symptoms | `EvidenceFacts` |
| `HaiReplay` | slicing, ordering and streaming of a dataset | `EvidenceFacts` |
| `Scoreboard` | metric rows and the scoreboard over labels | `EvidenceFacts` |

`TaskStoreProofs`, `SupervisorProofs`, `GuardedActionProofs`, `ToolPortProofs`,
`ControlRoomProofs`, `TelemetryProofs`, `IngressProofs` and `DemoLoopProofs` hold the
theorems, each about the module it is named after.
`MCTaskStore`, `MCSupervisor`, `MCGuardedAction`, `MCToolPort`, `MCIngress` and `MCDemoLoop`
(which extends `EvidenceFacts`) are the instances for TLC; the last four also state the
assumptions on operators.  Definitions named after a slip (a comment begins with "Slip:")
are wrong on purpose: they show that a property notices that slip.

### How `Supervisor` corresponds to the code

`thr[p]` is one Python thread: `pc` is where it stands, `task`, `pos` (the loop index),
`approved` and `obs` (the evidence `advance` loaded), `snap` and `round` (the no-progress
guard), `card` and `verdict` (the decision it applies).  A drive thread is spawned for a
task by `_spawn_drive` (`pending`), an autopilot or HTTP thread starts at `Decide`.
A step of a thread is one call that another thread, or a restart, can come before or
after: a store or port write together with the reads that decide it, or a published event
together with what the dashboard makes of it (the bus is synchronous).

| code | actions |
|---|---|
| `ingest_request`, `spawn_from_incident`, `_spawn_drive` | `Ingest`, `SpawnFromIncident`, `StartDrive` |
| `_drive` | `Acquire`, `Snap`, `Check`, `Release` |
| `advance` | `Enter`, `PlanDone`, `Execute`, `SetCursor`, `SaveEvidence`, `Finish` |
| `_apply_action`, `ToolPort.create` | `ApplyAction` / `Create` |
| `replan_or_partial` | `GiveUpOrRetry`, `GoBack`, `Replan` |
| `_request_approval` | `Park`, `CreateRequest`, `PublishRequest`, `FailRequest` |
| `handle_approval` | `Validate`, `UpdateStatus`, `ReadBack`, `ReadRow`, `SaveGrant`, `Approve`, `PublishGrant`, `Deny` |
| dashboard card | `dash`, written by the step that publishes; `Shown` |
| restart | `Crash`: `tasks`, `records`, `made` survive, the rest is gone |

Abstractions.  `stage_cursor` is a number (0 for the empty text).  `evidence` is reduced to
"something was observed" (`obs`) and the approved stages.  An approval id is the stage it
was raised for: the port's key contains task and stage, so there is one request per pair.
Artifacts are kinds; a second creation of a kind is found by its key and reused.  The
shipped agents never return "failed", so only the act stage can fail, through the port.
The budget counters bound the environment and occur in no code.

### How `ControlRoom` corresponds to the code

`board` and `record` are `Dashboard._tasks`; `Fold` is `_ingest_task`, `Prune` its pruning.
`desk` is the supervisor as the dashboard meets it: `Open`, `Work`, `Park`, `Close` publish
the events of a task, `Takes` and `Apply` are `handle_approval`, `HumanDecides` comes over
HTTP.  `timer`, `denied` and `poll` are the autopilot's `_first_seen`, `_denied` and locals;
`PollStart`, `Look`, `Cast` and `Book` are the parts of `poll` other threads can come
between, `PollFails` an exception out of a publish.  `DriveReturns` is the drive that an
approval runs on the autopilot's own thread.  Gates are numbered, a card is the number it
was made for.  `shown`, `younger` and `helped` are history variables for the properties.

### How `Ingress` and `Agents` correspond to the code

| code | actions |
|---|---|
| `harness_loop` bringing bus and bridge up | `BindBus`, `ConnectNowhere`, `Connect`, `ConnectReturns`, `ConnectRaises` |
| paho: `_on_connect`, `_on_disconnect`, the link | `SessionOpens`, `SessionRefused` (both through `OnConnect`), `LinkBreaks`, `LossNoticed` |
| `ingest_payload`, bus, dashboard, history | `Deliver` (`ToDashboard` and `ToHistory`, synchronous) |
| a restart | `Restart`: the history stays, arrivals and the dashboard go |

`Observe` is the observer's finding for a set of devices, `Verdict` one signal's, by age of
its event time and of its arrival; `SafetyVerdict` and `WorkKind` are what the safety and
the action agent make of it.  `Frames` takes over where `Deliver` picks a reading: the
assumption `TicksComeBack` ties the two.

### How `DemoLoop` and `Runbooks` correspond to the code

`pc` is where one round of `harness_loop.py` stands.  `Perceive` raises the episode (and
publishes), `Diagnose` consults the wiki or ranks, `Answer` and `NoAnswer` (the budget is
spent, or the backend answers nothing) are the debate's roles under the client's budget;
`TimesOut` leaves the loop waiting in the executor's `with` block, and `LateEnds` is the
hung call ending after all, which need not happen.  `heard` is what the answers named.
`Decide`, `Execute`, `Escalate`, `Resolve`, `Retry` the pipeline's published stages,
`Learn`, `OpenFile`, `WriteFile` the runbook's save (which truncates before it writes),
`Report` and `Smoke` the end of a round and the check of the log.  `Stop` and `Restart` may
come anywhere; `LoadFails` and `AnswerRaises` are the exceptions that kill the loop.  `ring`
and `alias` are the dashboard's event list and the incident it takes an episode key for.

### How `GuardedAction` corresponds to the code

`run` holds the locals of `GuardedActionPipeline.run` (`act/pipeline.py:112-194`); one
thread runs one diagnosis at a time.  Each step is one committed write or one publish:

| code | actions |
|---|---|
| `fsm.create`, `start_detected`, `diagnose`, plan | `Create`, `StartDetected`, `Diagnose`, `Decide`, `Plan` |
| `ActExecutor.execute` behind `SafetyShield.evaluate` | `Execute` (guard `Allows`), then `Act` or `Escalate` |
| `OutcomeClassifier.classify` and the `ops/verify` event | `Verify`, `Classify` |
| `verify_outcome` and the resolve hook | `VerifyOutcome`, `Distill`, `Record` |
| `resume_unfinished`, a stop or an exception | `Sweep`, `Stop` |

The numeric target is drawn from the values the candidate generator and the red team can
produce for the two commands of `mapping.yaml`, in tenths of the unit; scoring picks any of
them (`WinnersAreCandidates` checks that it does so in `Scoring`).  The verdict is any of
the three.

### How `Telemetry` corresponds to the code

`Insert` and `Trim` are the two halves of `HistoryBuffer.write`, which hold the buffer's
lock (`writing`).  `ScanClock` reads the clock and `ScanArrivals`, later and under that
lock, the arrivals, some of which may be younger than the scan's own time; `Assess`
reads the rows of one device from SQLite without it.  `written` is a history variable.
An event time is a small number; two signals may share one.

### How `ToolPort` and `Cmms` correspond to the code

`call` holds the locals of `ToolPort.create` (`tools/port.py:87-135`): `Begin` (validated
call), `LookupByKey`, `CreateBackend` or its failures, `ReadBack`, `RecordKey`, `Answer`.
Backend and key registry are two databases, so each is a step of its own, and `Stop` may
come between any two.  `CreateRaisesLate` is an exception after the insert: from the commit
(whose transaction stays open and is committed by the next write on the connection) or from
reading the row back; the port takes both for "nothing created".  `Supervisor` keeps the
port as one step that succeeds, fails without an artifact, or fails with one.  `Cmms` is
the content of these steps: `Validates` is what comes before `Begin`, `Call` a create that
nothing disturbs, and the rest what the tables are asked for.

### How the other operator modules correspond to the code

An operator stands for a function, a record for an object, a sequence for a list or a
table.  Floats are scaled whole numbers (tenths for amounts, thousandths for rates, 1/10000
for scores); roots are avoided by comparing squares; a logarithm or an ADWIN or Granger
test is a parameter.  An id is the sequence of its words and a topic of its levels, since
the code joins and splits them.

## 3. Runs

| run | instance | shows |
|---|---|---|
| `task_store` | 2 tasks, 1 incident, 2 playbooks, TTL 0, clock to 1 | closed states, `OneLivePair`, refinement of `TaskLife`, over every sequence of calls |
| `supervisor` | 1 task, 4 playbooks, both doors, 2 threads, 3 failures, 1 clarification | `GatesHold`, `ReportedIsDone`, `DenialIsFinal`, refinement of `PlaybookWalk` |
| `disturbed` | 2 tasks, 1 incident, severity low or high, 1 crash | the gates and the walk over a restart and a second task life; every write is a lawful store call (`UsesStore`) |
| `settles` | 2 tasks, 2 playbooks, 1 failure | `ConsoleAgrees`; every accepted task ends (`Settles`) |
| `control_room` | 2 tasks, room for 1 record, 2 gates, delay 2, 1 cut-off poll, 3 policies | `WaitingIsShown`, `GraceGiven`, `DenyFirstHolds`, `GatesAreDecided` |
| `guarded_action` | 2 incidents, 1 retry, TTL 0, 2 stops | `ResolvedWasImproved`, `ActedIsTracked`, `LearnedFromResolved`, `ClosedIsFinal`, every write offered by the FSM (`UsesFsm`) |
| `tool_port` | 2 keys, one of them readable, 4 calls, 2 failures, 2 restarts | `SuccessIsOneArtifact`, `DuplicatesExplained` |
| `telemetry` | 1 device with 2 signals, capacity 2, 4 writes, 1 restart or failure | `KeepsNewest`, `StaysBounded`, `SilenceIsRaised` |
| `ingress` | 2 adjacent devices, one metric of two words, event times 0, 1, 3, 2 statuses, 1 break, refusal or restart | `ViewsAgree`, `ChipFollowsLink`, `SilenceIsSeen`, `StreamResumes` |
| `demo` | 3 rounds, 4 episodes, budgets 2 and 3, 2 stops, 18 events | `LearnsFromSuccess`, `DebateIsHeard`, `LatestIsWhole` |
| `drive_stalls`, `double_decision` | least instance that shows it | the findings of section 7 |

The properties in words.  Every gate the walk has passed was granted by a decision on *its
own* card (`GatesHold`); a task in `REPORTED` has every artifact its playbook orders
(`ReportedIsDone`); nothing is created for a task after its denial (`DenialIsFinal`); a
task at rest shows in the console exactly the decision the store waits for
(`ConsoleAgrees`).  A parked task keeps its card until as many newer records as the table
holds were made (`WaitingIsShown`); the autopilot leaves a card on the screen for its delay,
but for tasks a person decided on or a poll was cut off at (`GraceGiven`); under a policy
that decides no gate on the screen stays closed for ever (`GatesAreDecided`).  The observer
judges some signal of a dashboard card at least as bad as the card is coloured, where
readings come in the order of their times (`ViewsAgree`), and a device that went silent is
degraded, assumed and cautioned about in every observation it is part of, whatever its last
event time says (`SilenceIsSeen`).  A closed incident is never written again, although the
retry asks no table (`ClosedIsFinal`).  What a resolved incident taught is found again by
its symptoms, unless the file is torn or all that was taught of the cause has outgrown them
(`LearnsFromSuccess`); a diagnosis that calls itself debated heard all three roles, and any
other names the cause its mode says (`DebateIsHeard`).
The exact statements and their comments stand in the modules.

### Assumptions on operators

| run | assumption: what it says of the code |
|---|---|
| `ingress` | `RelatedIsSymmetric`, `SignalsAreOwned`: an accepted registry answers for every signal; `CollisionsAreAccepted`: but may hold one id twice; `TicksComeBack`: parsing a simulated frame gives one reading per signal; `BadPartsAreSkipped`, `CapitalMetricsAreDeaf`, `SessionsAreSafe`, `PastedTopicsAreHeard` |
| `guarded_action` | `CommandsAreMapped`, `WinnersAreCandidates`, `FirstReductionWins`, `RedTeamMayWin`, `OnlyRisesImprove`, `VerdictLooksAfter`, `GainIsBounded` |
| `tool_port` | `ValidatedIsCreated`, `OnlyActingTasksWrite`, `RetriedActIsReused`, `OnlyWorkOrdersKnowTheirTask`, `KeysCrossKinds`, `StartsSeedOnce`, `OldestPendingIsHidden`, `DecisionsAreApart`; of the log `TimelineAgrees`, `TornOnceTornForEver` |
| `demo` | `DemoShowsNoDivergence`, `DivergenceIsTyped`, `FollowerIsBlamed`, `UnevenSeriesRaise`, `RankingIsBounded`, `DetectorSeesChange`, `RampNeverSettles`, `ReplayIsOrdered`, `UntimedLineReplaces`, `OtherTimesDoNotOrder`, `OutageLosesMessagesOnly`, `LabelsStayOut`, `ScoreboardAddsUp`, `IncidentsKeepOneRow`, `KeysAreShared` |

## 4. Bounds

One or two tasks suffice for the gate and table properties: tasks share only the drive
lock, the thread pool and the live-pair index, and two tasks exercise all three.  Two
threads are the least that race; a third only adds waiting for the same lock, as nothing in
the code counts threads.  Three backend failures pass every back-edge cap of the act stage
but that of `line_inspection_timeout` (cap 3), which is passed by none of the failures the
driver survives (see `drive_stalls`).  `MaxClicks = 1` is one decision per card; 2 is the
double decision of the finding.  `CHECK_DEADLOCK FALSE` is set where the system may stop:
a task that has ended or waits for a human, a port that was called often enough, a loop that
died.  The store's clock runs to 1 with a TTL of 0, so a wait can be as old as its TTL
(kept) and older (escalated).  `SYMMETRY` is used only for threads, in a run without
liveness.

`control_room`: one record of room for two tasks makes every second event prune; the code
compares the table's size with its cap and nothing else.  Two gates are the least at which a
timer or a denial of the first can matter to the second.  Ages stop at the delay, past which
the code tells nothing apart; a delay of 2 leaves one tick at which a card is seen and not
yet due.

`ingress`: two devices adjacent to each other give an observation with and without a
neighbour.  Event times 1 and 3 are two critical ages apart, 0 is a device with an unset
clock; any order of arrival occurs.  Ages of arrival stop at `Critical`, the oldest the
code tells apart.  One break, refusal or restart in all: the callbacks keep nothing of
earlier sessions but the flag, the chip and the subscription, which one of them sets either
way.

`demo`: three rounds are the least in which an entry is learned, used and changed, or is
outgrown (two episodes of four share a cause, for which the fourth is there), or in which a
third round meets two aliases.  Budgets of 2 and 3 let the debate end in its middle or at
its end (three roles).  Eighteen events are a little more than a round publishes, so that
older rounds fall out of the ring in the midst of the latest one.

`guarded_action`: the code relates two incidents only through the learned counters, so two
are enough to tell "counted once" from "counted per incident".  With one retry every failed
verdict is retried; the escalation past the bound is out of reach, here as in the program,
because nothing runs an incident a second time (with a bound of 0 it is the only branch; the
theorems hold for every bound).  Event times may lie before the wall clock, which is how
the TTL can sweep an incident the moment it is idle.  Two stops allow a stop in a run and
one in the next.

`tool_port`: keys share nothing but the order of calls, so two tell the kinds apart that a
read-back asks the backend for; four calls with two failures and two restarts let one key
be interrupted twice and still succeed twice.

`telemetry`: with two signals and two event times, four writes are the least that overfill
a buffer of two rows when nothing is trimmed (up to three rows may share the room, see
`StaysBounded`); event times arrive in any order and may repeat.  The detector's limit of
rows is one per signal, so that a busy signal can push its sibling out of what is read.  A
window of two ticks within a clock of two gives two windows.

The assumptions range over every input of a few elements: all registries of two entries,
all replays of three lines, all trails of three frames, all payloads over the code's fields.

## 5. Fairness

`Supervisor`: `Scheduling` is weak fairness of each thread's step (the interpreter runs
every runnable thread; the lock is released by every path, exceptions included) and of the
start of a spawned thread.  `Deciding` is weak fairness of a decision on a card that stays on the
screen: the approval autopilot polls in an endless loop (`auto_loop.py:144`) and, under the
default policy, decides on every card it sees.  No fairness is assumed of the doors,
clarification, crashes or tool failures.

`ControlRoom!FairSpec`: that loop itself, step by step, and the passing of time; and that a
task which is driven comes to rest, which is what `Settles` shows of `Supervisor`.  People
owe nothing.

`Ingress!FairSpec`: the harness goes on bringing the bridge up; paho's loop thread handles
what its socket tells it and connects again after a loss (`loop_start`,
`trackc.py:260`); and, for `StreamResumes`, a device whose session is up keeps sending.
Refusals, breaks and restarts have none and are bounded.

`DemoLoop` has no fairness, and no property that needs one.  Its loop may stand for ever in
`TimesOut`: the `with` block of `llm/client.py:112-117` joins the thread of a hung call,
where the docstring (lines 98-100) says that a hung backend never blocks the loop.

`Telemetry!FairSpec`: the detector's loop (`auto_loop.py:84-93`) catches every exception and
scans again, hence fairness of `Scan`.  It is strong, because a scan waits for the buffer's
lock, which is free between any two writes but not for ever; a Python lock does not starve
a waiter while its holder sleeps for the next message.  `Trim` is weakly fair: a write that
has inserted its row goes on.  Writes, ticks, failures and restarts have none.

## 6. What is proved

Every safety property and every safety refinement that a run checks is a theorem, for every
value of the constants the assumptions admit; the TLC run shows it on one instance.  The
inductive invariants named below were checked with TLC before they were proved; they live in
the proof modules, and no run lists them.

`TaskStoreProofs`, for any number of tasks, incidents and playbooks and any TTL, from the
assumptions `NoIncidentAssumption` (the NULL incident is no incident) and `TtlAssumption`
(TTL and clock bound are naturals):

* `TypeCorrect`: `Spec => []TypeOK`.  Rests on `Outcome` landing in the closed state set.
* `OneLivePairHolds`: `Spec => []OneLivePair`.  The inductive invariant is
  `TypeOK /\ OneLivePair`; every action but `Mint` keeps the set of live rows or shrinks
  it, because no transition leaves a terminal state (`TableLemma`), and `Mint` is
  guarded by the index.
* `StoreImplementsLife`: the store refines `TaskLife` step by step, the TTL sweep being one
  `Close` of a set of tasks.

`SupervisorProofs`, for any tasks, incidents, threads, failures and clarifications and any
subset of the four playbooks, from `NoneAssumption` (None is no id), `UsedAssumption`,
`InputsAssumption` (the detector raises severities of the table, people grant or deny) and
`BoundsAssumption`.  Three invariants, each resting on the one before:

* `Locked` needs no hypothesis: types; cursors within the playbook; and per program point
  what a thread's locals have to do with its task's row (`Bound`).  Whoever is at a point of
  `Holding` has the drive lock, so nobody else moves a cursor.  It gives `TypeCorrect`.
* `Once` holds with one decision per card (`MaxClicks <= 1`).  It ties rows to approval
  records (`Standing`, `Gated`, `Ruled`: a grant in a row is an approved record, a denial
  means parked there or `PARTIAL`) and a thread's locals to both (`Judged`: a verdict is
  carried for the very gate the task is parked on; `Apart`: two threads never carry one for
  the same card).  The heart is `FreeLemma`: a task somebody walks, or asks for, has no
  decision under way.  It gives `GatesAlwaysHold` and `DenialStaysFinal`.  The hypothesis is
  needed: with a second decision both fail (`double_decision`), and so does
  `ImplementsWalk`.  Restarts are not excluded.
* `Done` holds without restarts (`MaxCrashes = 0`) and says how far the act stage has come
  for each program point; it gives `ReportsAreTrue`.  With a restart the property fails
  (section 7).

And three theorems about how the supervisor meets its neighbours:

* `StoreIsUsed`: `Spec => UsesStore`.  Each step, projected to the rows as the store has
  them, is a transition of the table, a priority raised, a row minted while no live one of
  its pair exists, or nothing.  No hypothesis.
* `WalksItsPlaybook`: `Spec => ImplementsWalk`, with one decision per card and no restart:
  a stage is passed, a back-edge taken, a gate granted or a task ended, as `PlaybookWalk`
  allows it.  A restart between counting a re-plan and moving the cursor spends a retry
  without re-entering the stage, which the abstract walk has no step for.
* `ConsoleIsTrue`: `Spec => []ConsoleAgrees`, with one decision per card, no restart, and
  playbooks of at most one gate (`OneGate`).  Screen and store do disagree between the
  writes of one call; `Console` says who is in between whenever they do (a thread that asks
  will show its card, one that applies a verdict, or publishes its grant, will take it
  away), and a task at rest has nobody in between.  With two gates a grant published late
  takes away the next gate's card, and after a restart a parked task has no card, so these
  two hypotheses are needed; the first is what the argument uses (it rests on `Once`), and
  TLC finds no violation with two decisions per card and one gate.

`GuardedActionProofs`, for any incidents, retry bound, TTL, clock and number of stops:

* `TypeCorrect`: `Spec => []TypeOK`, from the stronger `Typed` (rows, locals and clock).
* `ClosedStaysClosed`: `Spec => ClosedIsFinal`.  `Open` says that a run's incident is open
  from its creation to its outcome, so that the retry, which asks no table, meets no closed
  row; it needs that no sweep comes between two calls of one run.
* `NoSilentCompletion`: `Spec => []ResolvedWasImproved`.  The property alone is not
  inductive: that a resolve follows an act and an improved verdict is carried by the
  program counter.  `IInv` says what the pipeline knows at each of its points (a command
  of the running incident has left from `act` on; the last verdict published for it is the
  one it is about to apply) and that the running incident is not yet resolved.
* `NothingIsForgotten`: `Spec => []ActedIsTracked`.  `Tracks` adds that the incident of a
  run that has not sent yet has no command at all, and stands in `PLANNING` when it sends,
  because no sweep comes between two calls of one run.
* `LessonsAreEarned`: `Spec => []LearnedFromResolved`.  `Learns` counts the lesson the hook
  is about to write: lessons written and due never exceed the resolved incidents.
* `FsmIsUsed`: `Spec => UsesFsm`, step by step.

`ToolPortProofs`, for any keys, any number of calls, failures and restarts, given that ids
are fresh:

* `TypeCorrect`: tables and registry are well formed and no key dangles.
* `RetryIsSafe`: `Spec => []SuccessIsOneArtifact`.  `IInv` adds that the key of a call that
  creates is not in the registry, that its artifact exists from the read-back on, and that
  every success ever answered is in the registry; `RecordKey` can then never rebind a key.
* `DuplicatesAreLost`: `Spec => []DuplicatesExplained`, by an account of each key: the
  artifacts that exist are the one the registry knows, the one of the call that runs, and
  those lost without an answer.

`ControlRoomProofs`, for any tasks, room for records, delay, number of gates and of polls cut
off, from `CapAssumption`, `DelayAssumption` and `BoundsAssumption` (naturals, room for one):

* `TypeCorrect`: `Spec => []TypeOK`.  `TInv` adds what a poll knows of the tasks it has left,
  that no record shows a gate its task has not reached, and that the table has no task
  twice: without it, pruning one entry would not bound the table.
* `FirstGateIsDenied`: `Spec => []DenyFirstHolds`.  The property alone is not inductive: the
  verdict is chosen in one step and takes effect in a later one, with other threads in
  between.  `DInv` adds `AtFirst` (a task left to the autopilot alone is at most at its
  first gate, and closed once it was denied) and `Carried` (the verdict a poll holds is the
  one the task's history asks for, and a denial it has delivered has closed the task).
* `WaitersAreShown`: `Spec => []WaitingIsShown`.  `WInv` adds that records stand in the order
  they were made in (`Seats`), so that the one pruned is the one most others are newer than,
  and that a record that has left saw as many newer ones as the table holds (`Gone`).
* `GraceIsGiven`: `Spec => []GraceGiven`.  `GInv` adds that a timer is never ahead of the
  time its card was on the screen (`Timed`), also while a decision is taken and not booked.

`TelemetryProofs`, for any finite sets of devices and metrics, any capacity, and any order
and number of writes:

* `TypeCorrect`: `Spec => []TypeOK`.  `Buffer` adds that a key has one row.
* `NewestAreKept`: `Spec => []KeepsNewest`.  A trim drops rows older than a full buffer of
  others, each of which was written; so a dropped sample has at least that many newer ones.
* `BufferIsRing`: `Spec => StaysBounded`.  A trim keeps the rows from the oldest stamp that
  must stay; those that share it are of different signals.

`IngressProofs`, for any registry, event times, statuses and thresholds, any number of broken
links and restarts, from `ThresholdsAssumption`, `RegistryAssumption`, `MappingAssumption`
(the registry is one the loader accepts, `mapping.yaml` too), `StatusAssumption` and
`TimesAssumption`:

* `TypeCorrect`: `Spec => []TypeOK`, in two parts, the session and the readings: a reading
  without a time leaves neither a row nor an arrival.
* `ChipIsTrue`: `Spec => []ChipFollowsLink`.  The inductive invariant adds that no session
  exists before connect is called, which is why binding the bus first is enough.
* `SilenceIsNoticed`, `ViewsAreConsistent`: `Spec => []SilenceIsSeen`, `Spec => []ViewsAgree`.
  `VInv` adds that only signals of the registry are heard of and that the dashboard's newest
  time is one the history has.  The rest are lemmas about `Agents`: adjacency is symmetric,
  a device's observation has each of its signals, and the order of staleness.

`DemoLoopProofs`, for any episodes, causes, wiki thresholds, budgets, rounds and stops:

* `TypeCorrect`: `Spec => []TypeOK`; `IInv` says what is in the files while a round saves.
* `SuccessIsLearned`: `Spec => []LearnsFromSuccess`.  `IInv` says that an entry's tokens are
  all that was ever taught of its cause; `Half`, that a torn file lets no round begin.  That
  a match exists whenever an entry is close enough needs a closest one: `FractionLemma`
  (comparing fractions is transitive) and a minimal element of a finite set
  (`ClosestLemma`).
* `DiagnosisIsHonest`: `Spec => []DebateIsHeard`.  `Asked` says how many answers were heard
  at each point of the debate, and fewer than three while a call is late.
* `CardsAreWhole`: `17 <= MaxEvents => (Spec => []LatestIsWhole)`.  `Trail` says which events
  of the current round are within the newest how many, at each point of the round.  A
  resolved round publishes 17 events, a retried one 16, an escalated one 12, and the
  dashboard keeps 200 (`dashboard.py:299`); with room for 16 TLC finds the property violated.

What the attempts to prove changed in the models.  `ViewsAgree` was false for a device of the
registry without signals, which the dashboard has no card for: it now speaks of cards.
`GraceGiven` excepted pruned records; the exception was unnecessary and is gone. `MaxEvents`
must not be 0, as Python's `[-0:]` keeps everything.  Typing a row's approvals, and saying
that None is no playbook, that severities and verdicts are those of the code, and that
devices and metrics are finite, made explicit what every instance had.

Out of reach for the prover, and checked by TLC only: liveness (`Settles`, `GatesAreDecided`,
`SilenceIsRaised`, `StreamResumes`), which rests on `ENABLED`; and the
assumptions on operators of section 3, most of which are statements about folds over
sequences, which would need induction over data.

## 7. Findings

Each is a property TLC finds violated by what the code does; the line quoted in
`PROJECT.json` says otherwise.

* `drive_stalls` (`supervisor.py:327`): a second failure in a row of an act stage returns to
  the state and cursor the round began with; the no-progress check takes it for a stall and
  leaves the task in `PLANNING` with retries unused.  The test that promises otherwise
  (`tests/test_trackc_orchestration.py:363-364`) drives by hand.
* `double_decision` (`supervisor.py:387`): a decision validated against one gate is applied
  to whatever gate the row has reached when it is re-read; `ARCHITECTURE-SPINE-TRACKC.md:98`
  ties a decision to the pending approval it cites.

Three more are seen by changing the constants of a run that passes:

* `ConsoleAgrees` and `Settles` fail where two gates meet two threads
  (`SupSettles.cfg` with `UsedPlaybooks = {"prepare_inspection"}`): a late
  `approval_granted` (`supervisor.py:394`) erases the card of the next gate
  (`dashboard.py:212-214`), and the autopilot acts only on cards.
* `ReportedIsDone` fails with a crash (`Supervisor.cfg` with `MaxCrashes = 1`): `advance`
  moves the cursor past the act stage (`supervisor.py:186`) before `_apply_action` creates
  anything; after a restart in between the task is driven on from verify and reported
  without its work order, against `supervisor.py:233-235` and AD-6.
  `ImplementsWalk` fails there too: a restart between counting a re-plan and moving the
  cursor back spends a retry without going back.  `disturbed` keeps it, as no tool fails there.
* `ToolPort!NeverDuplicated` fails with `ToolPort.cfg`'s constants: an exception after the insert
  (`tools/port.py:189`) reads as "nothing created" and leaves no key, so the retry creates a
  second artifact; so does a restart before the key is recorded.  `port.py:4` and AD-6
  promise a list by key before a retry, which no code performs.

### Where code and text part, or the code surprises

Met while modelling; those with a name in brackets are assumptions a run evaluates.

Coordination:
* `task_store.py:282`, `incident/fsm.py:120`: the TTL sweeps and the search for unfinished
  work have no caller in the program, against the docstring of `task_store.py` (lines 4-6).
* `tools/port.py:111` answers `verified: True` for a known key whether or not the read-back
  succeeds, and lines 199-216 verify three of the five kinds without asking the backend.
* The act stage tried again reuses its notification and incident record, which have no key
  of their own, so that the second round's words reach nobody [`RetriedActIsReused`].
* `cmms_sim.py:183-185`: the look-up by task finds work orders and no other artifact, as
  only their payload carries the task [`OnlyWorkOrdersKnowTheirTask`]; incident records are
  not looked at.  A key that another kind has used answers success [`KeysCrossKinds`].
  The newest 200 rows are listed, and the oldest pending request is not among them
  [`OldestPendingIsHidden`].
* A task id the store does not know passes the port's validation [`OnlyActingTasksWrite`].
* `auto_loop.py:126`: a gate reached between two polls after a person's decision inherits
  the waiting time of the gate before; `GraceGiven` leaves such tasks out.
* `dashboard.py:304-310`: an alias of an episode key moves to the next incident, and takes
  the perceive and diagnose stages of earlier incidents along.
* `tools/__init__.py:11`: the production seed is made nowhere, so that the production
  agent's context is empty.  `maintenance.py:22` calls a `find` the runbook store has not,
  and takes the exception for "no hit".
* `bus/recorder.py`: a log torn once can never be read again, and the next frame is lost as
  well [`TornOnceTornForEver`].

Ingress:
* `harness_loop.py:324-326` prepares for a broker that is not there, but `connect` raises
  where the broker refuses the socket, and the harness dies (`ConnectRaises`).
* `production.py:35`: the safety agent's list lacks `error` and `missing_ts`, for which it
  answers "proceed"; the observer degrades both.
* `history/buffer.py:49`: after a restart a device that had already stopped counts as fresh
  by its last event time; arrivals are gone.
* `trackc.py:71-72`: a frame of another team is promised to be skipped; `teamCode` is kept
  and never compared.
* A metric the registry writes with capitals is accepted and never heard
  [`CapitalMetricsAreDeaf`]; two devices may own one signal id [`CollisionsAreAccepted`];
  websockets are over TLS whatever `MQTT_TLS` says [`SessionsAreSafe`]; a pasted topic of
  an environment other than test or judge is kept whole, and not heard [`PastedTopicsAreHeard`].
* `history/buffer.py:110` orders a series ascending and then cuts it, which keeps the
  oldest samples; its docstring (lines 105-106) promises the most recent.

Detection to scoreboard:
* `llm/client.py:98-100` promises that a hung backend does not block; leaving the
  executor's `with` block waits for it all the same.
* `causal.py:21`: with a positive lag the later part of `a` meets the earlier of `b`, the
  reverse of its comment; the follower is named the driver [`FollowerIsBlamed`].  Two series
  of different length make it raise [`UnevenSeriesRaise`].
* `harness_loop.py:65,118`: the demo's "strong D/Z evidence" is paired by position with
  seeds that agree, and yields no divergence [`DemoShowsNoDivergence`].
* `detector.py`: `min_seed` is never asked for, and an innovation is compared with no mean,
  so that a ramp raises at every sample [`RampNeverSettles`].  The isolation forest is wired
  to nothing, and `PlantModel.calibrate` has no caller but a test.
* `action.py:83-85`: with the default weights the first reduction always wins, and no
  red-team candidate ever meets the shield [`FirstReductionWins`].
* `pipeline.py:171`: the expected effect is the predicted value, not its difference, and
  only rises count as improved [`OnlyRisesImprove`].
* `verify/__init__.py:64`: without samples after the action, samples from before it are
  used [`VerdictLooksAfter`].  `incident/fsm.py:182`: a retried incident returns to
  `DIAGNOSING` and is never run again.
* `runbooks.py:107`: an entry's second resolution lowers its reliability to 0.6667,
  where the comment says it rises.  A file torn by a stop makes every later start fail
  (`LoadFails`).  An entry that has taken on many symptoms is no longer found by those it
  was learned from (`LearnsFromSuccess` states the limit).
* The smoke check reads the first result of the log: one that was not executed makes it
  fail for ever.  A diagnosis is recorded twice in the log.
* `hai.py:24`: the set of quarantined names and the mapping's own `label_columns` are never
  asked [`LabelsStayOut`]; a row without a time is keyed by a count and replaces the row
  of that time [`UntimedLineReplaces`]; `synthetic_rows` depends on the hash of a string,
  which changes from process to process.
* `scoreboard.py:63-80`: false interventions are never counted, top-3 is top-1, unsafe
  actions count only where they improved matters [`ScoreboardAddsUp`].
* `config.py`: knobs are not validated and unknown keys are dropped in silence.

## 8. What is not modelled, and why

* The authoring scripts under `.agents/` and `_bmad/`, four of the repository's longest
  files: they were copied in from a framework and no part of the program uses them.
* HTTP handling, speech, static pages and console output: I/O without control state.  What a
  request or a click does is an action of `Supervisor` or `ControlRoom`.
* The MQTT transport of a local broker: its delivery is paho's, and the harness uses the
  in-process bus.  paho itself is modelled by the callbacks it makes.
* Prompts and the merging of a model's answers: content that control never reads.
* ADWIN, the Granger test and the isolation forest: library numerics, left open.
* Read-only look-ups, the events a tool call publishes, and the content a read-back
  compares: the models know artifacts by key.
* The moment between two statements in two places of `Supervisor`.  `SpawnFromIncident` looks
  the live pair up and mints or raises in one step: only the detector's thread calls it, so
  the look-up can go stale in one way, by the task it found ending; then the priority of a
  closed row is raised (`TaskStore!RaisePriority` asks no state) and a drive returns at once.
  `PublishRequest` saves the approval id and publishes it in one: no card cites the id
  before, and a stop in between leaves what one right after leaves, a wait without a card.
* Statements of one SQLite connection that interleave, and Python-level atomicity inside
  one call: taken from the interpreter and the database.

## 9. Plan

1. *(done)* `TaskStore`, `Supervisor` with its refinements, `GuardedAction`, `Telemetry`,
   `ToolPort`; theorems about `TaskStore`, `GuardedAction`, `ToolPort`.
2. *(done)* `ControlRoom`, `Ingress` with `Agents`, `DemoLoop` with `Runbooks`; the operator
   modules and their assumptions; theorems about `ControlRoom` and `Ingress`.
3. *(done)* `Supervisor`: types, gates, denials, reports, console, and the refinements of
   `TaskStore` and `PlaybookWalk`; the remaining safety properties of `GuardedAction`,
   `ToolPort`, `ControlRoom`, `Telemetry`, `Ingress` and `DemoLoop`.
4. `ConsoleIsTrue` for any number of decisions per card, by an invariant that does not rest
   on `Once`.  The parts of the walk and of the reports that survive a restart:
   `ImplementsWalk` with a step of the abstract walk for a retry spent in vain,
   `ReportedIsDone` for tasks no restart interrupted.
5. Lemmas about the operator modules that need no induction: what an accepted registry
   guarantees, the shield's reach over all candidates, the bounds of the plant gain.
6. `Supervisor` over `ToolPort`: replace the one-step `Create` by the port's interrupted one.
