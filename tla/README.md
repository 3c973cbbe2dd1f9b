# A TLA+ development of the JorchBot gateway

JorchBot runs Claude Code sessions on a computer and lets a phone drive them
over WhatsApp. It is a fork of OpenClaw. The repository holds two gateways:
JorchBot's own server (`src/src/gateway/jorchbot-start.ts`) with its own layer of
sessions, tool approvals, tunnels, background tasks and commands, and the
OpenClaw gateway (`src/src/gateway/server.impl.ts`). This directory models most of
the first, and of the second three parts: the two every message and every agent run
goes through, the queue of outbound deliveries and the command lanes, and the
scheduler of cron jobs. Paths below are
relative to `src/src/` unless they start with `extensions/`.

Each gateway is one Node.js process: a callback runs to its next `await` without
interruption. The hard behaviour is in what comes between the awaits, in timers,
in other processes (hooks, Claude Code, Tailscale), and in restarts, of which only
files and SQLite rows survive. An action of a module is therefore what runs between two awaits, a step
of a hook process, a timer, or something the user does.

## Inventory

| Component | State | Operations | What is hard | What makes it correct |
|---|---|---|---|---|
| Tool approvals: `sessions/jorchbot/approval-{manager,timer,modes}.ts`, `gateway/approval-api.ts`, `hooks/jorchbot/tool-approval.ts` | per session: pending, answered, feedback mode, feedback and reminder timers; per call a hook process | ask, poll, time out; yes, no, feedback tap, text; reminder; dispose | the hook and the gateway time out separately, buttons never expire, maps die with the process | no call runs ungranted; one answer per request; every hook gets a decision; feedback mode ends |
| Sessions and focus: `sessions/jorchbot/{manager,focus-model}.ts` | map by project, focus by phone, rows by id | create, destroy, switchFocus, restore | destroy awaits in its middle; three records of one fact; crashes between writes | the records agree; restarts restore a sound state; focus is the phone's own |
| Claude runner and context guard: `claude-runner.ts`, `context-guard.ts`, `context-tracker.ts` | one process slot, its timeout and reader, token counts | start, resume, stop, exit | old exit handlers act on new state; blocked sessions | a run that is alone is in every field; a stop ends; an ended session is quiet |
| Output: `output-buffer.ts`, `output-filter.ts`, `session-chunker.ts`, `question-detector.ts` | a buffer and a timer per session | append, flush, dispose | timer against dispose | every text is sent once and in order |
| Gateway wiring, router: `jorchbot-start.ts`, `commands/router.ts`, `commands/gui-command.ts`, `extensions/kapso` | the current sender, a pending GUI confirmation | message and button handlers | handlers interleave at awaits, events are delivered twice or in batches | a reply goes to whom it answers |
| Tunnels: `tunnels/` | tunnel map and rows, proxy routes and cache, pending confirmations, health counters | start, confirm, stop, restore, health check, delayed restart | partial failure, delayed restarts, last-one-out shutdown | an active tunnel is reachable; a stopped one has no path; the rows tell what to restore |
| Tasks: `jorchfile/` | the list of tasks, child processes, ports in use | start, stop, restart, duplicate check, port search | checks separated from use by awaits; exit events; children that outlive the gateway | the list is exact; no port twice, no unwanted duplicate; tasks end with their session |
| Document store, WebSocket: `gateway/document-api.ts`, `gateway/jorchbot-ws*.ts` | documents with expiry; clients | store, evict; handshake, broadcast | capacity, handshake timeout | fresh documents survive; only authenticated clients are served |
| Setup, access control, agent registration, hook configuration, shell runner | files, none in memory | one-shot | – | – |
| Outbound deliveries: `infra/outbound/{deliver,delivery-queue}.ts` | a file per message, live calls, the recovery of the current start | enqueue, send, ack, fail, recover, give up | crashes between any two steps; live call and recovery send one message; failing files | nothing recorded is lost, order is kept, copies have causes, the queue empties |
| Command lanes: `process/command-queue.ts`, `agents/pi-embedded-runner/run.ts`, `cli/gateway-cli/run-loop.ts` | per lane a queue, slots, a generation | enqueue, pump, complete, clear, reload, reset | nested commands, runs that wait for runs, commands of before a restart | slots are exact; no idle lane; a session's runs are serial; every run ends |
| Cron jobs: `cron/service/`, `cron/store.ts`, `cron/schedule.ts` | the jobs in memory and in a file, a timer, the tick's jobs, a lock | start, tick, add, update, remove, list, status, run | three parts of a tick with operations between them, reloads of the file, failing writes, markers | no job runs twice at a time, but where its marker was taken away; the timer is always set again; no step of a tick skips a due job |
| The rest of OpenClaw | – | – | agents, channels, memory, plugins, apps | – |

How they interact: Claude Code, started by a session's runner, starts a hook per
tool call; the hook calls the approval endpoints, which look the session up in
the manager's map; the manager's destroy disposes the session's approvals, tasks
and tunnels and moves the focus; the webhook handlers read the focus to decide
what a text means; restore rebuilds the map and the focus from the rows. In the
OpenClaw gateway, a channel's message becomes an agent run in the lanes of its
session, and the run's answers go out through the delivery queue, which the next
start of the gateway reads again. A cron job enqueues an event for a session or runs an
agent, through the same lanes.

`PROJECT.json` lists the components with their status, and the hazards with the
lines where they bite and the properties that cover them.

## Modules

`ToolGate` is what the approval path promises: each call is asked for once, its
grant is decided at most once, it is allowed only on a grant, and may be denied
until then; an answer may come too late.

`SessionView` is what approvals see of the sessions of one phone: which are active, which
has the focus, whether the gateway runs. It is where `Approval` and `Sessions` meet:
`Approval` does its actions on sessions with those of `SessionView`, and `Sessions`
implements them for every phone (theorem `SessionsImplementView`). So nothing that
`Approval` assumes of the session manager is more than the manager does, in a crash between
two writes too, as long as nobody stops a session that is being stopped.

`Approval` is the path itself, end to end. State and code:

- `hook`, one process per call: `idle`, `posting` (waits for the POST),
  `polling`, then `allowed` or `denied`. `inflight`: the gateway's side of the
  POST awaits the button message.
- `pending`, `resolved`, `since` (the map `awaitingFeedback`, as the order in
  which its keys were added), `handle` (the map `feedbackTimeouts`): the maps of
  `ApprovalManager`. Requests belong to one session each, so the managers are
  flattened over requests. `armed` holds the feedback timers that really run,
  which the map can lose sight of; `reminders` the reminder timers.
- `prompted`: the buttons that may be on the phone. A failed send may still have
  arrived, and buttons outlive everything.
- `born`, `live`, `focused`, `up`: the state of `SessionView`. A restart empties every map
  of the approvals; the sessions stay (rows), but for the one whose end the crash cut, and
  the focus may be lost if it cut a switch.
- `verdict` is a history variable: the answer given for each request.

Actions: `AskRefused`, `AskAutoResolved`, `AskUser` (POST), `SendSucceeds`,
`SendFails`, `PostFails`, `Poll`, `HookTimesOut`; `TapYesNo`, `TapFeedback`,
`WriteText`; `FeedbackTimeout`, `ReminderFires`; `Create`, `Destroy`, `SwitchFocus`,
`GatewayDown`, `GatewayUp`. A session's mode can be set between any two requests,
so each request reads any mode. The rows of the approvals table are left out: the
gateway writes them and never reads them. An unhandled rejection that ends the
process is `GatewayDown`.

`SessionRegistry` is what sessions promise: each project has at most one holder,
a bounded number is open, and a phone's focus is a session of its own or none.

`Sessions` is the session manager: the rows `status`, `project`, `owner`,
`focusedRow`; the map as `sid` and `slot` (a `Map` keeps a key's place, which
decides the next focus); `focus`; and `stops`, the calls of destroy that wait for
the runner. `Create`, `SwitchFocus` and `Restore` have no await and are one
action each; destroy is `DestroyBegin` and then `DestroyEnd` or `DestroyFails`.
The process ends between callbacks (`Crash`), after destroy's first write
(`CrashInDestroy`), or after switchFocus's first (`CrashInSwitch`). The other cut
points leave rows that one of these leaves too: a crash after create's insert is
`Create` then `Crash`. A create that throws deletes its row again. `/clear` and
the GUI's restart are a destroy followed by a create.

`ClaudeRunner` is the runner of one session and its callers. `process`,
`timeoutHandle`, `readline`, `status` and `tokens` are the fields of the class. The
code gives a run no name; its promise, its child process and its timer are
closures, so the model numbers the runs and keeps these per run (`promise`, `proc`,
`armed`, `reading`), and the fields point to runs. Nothing in the code keeps two
runs apart: prompts are handled as they come. `Prompt` (handlePrompt,
forwardToClaudeCode, answerQuestion, with the context guard as its guard) and
`CompactStarts` begin a run, `Exit`, `TimerFires`, `KillTimer` and `OutputEnds` are
the events, `Compact` and `Destroy` call stop() and await it. /compact looks for the session
and sends a reply first (`CompactAsked`), in which time the session may end. `stopper` says who
awaits the end of which process, `microtask` whose continuation runs next: between
the exit event and that continuation no other callback comes. `crowded` collects
the runs that shared the runner with another one, `late` those that a /compact
began after the session had ended.

`Tunnels` is TunnelManager with the proxy, the health monitor, the table and
Tailscale. A start is `Start`, `Checked`, then for a funnel `ProxyStarted`,
`FunnelStarted` and `Started`, with `ConfirmFunnel` or `CancelFunnel` between if the
user is asked; a stop is `StopTunnel`, `ProxyStopped`, `Stopped`. `server` is the
proxy's field, `bound` the server that really has the port. Tailscale's `funnelOn`
and the `row`s outlive the process; `Restore` reads both. The loop of stopByProject
at the end of a session is `SessionEnds` and `StopTunnel` by "session", one tunnel
after the other. `Start` asks for no session, as the code does not. `cache` is what the
proxy remembers of served addresses (pathRouteCache), as the tunnels they lead to: `Served`
is a request that reaches a tunnel by its path or by a remembered Referer, `Expires` the
end of the last address of a tunnel; only `StopProxy` forgets all. `late` records the
tunnels that were not active, or not begun, when their session ended. The code takes no lock, so a call that finds another one at work
is recorded in `mixed`, a proxy that may run without Funnel in `unfinished`, a
tunnel that failed a check in `sick`, and the properties say what holds without
these.

`Tasks` is the background half of JorchfileExecutor with the task manager and the
port search. A message or button is a request, `at` where it is between two
awaits; it starts at most one task, which has its name. `tasks` is the manager's map,
flattened over projects, `startedAt` the order of its lists; `proc`, `told` (SIGTERM was
sent) and `listener` are the operating system's side, which outlives the gateway.
`Command`, `TapRestart` and `TapDuplicate` begin a request (buttons outlive everything, so
those of any command may be on the phone), `SessionTold`, `TryPort`,
`PortFound` and `PortTold` continue it, `Exit` is the exit event. isPortFree listens on
the port it tries, so a port is `Occupied` by tasks and by other searches. It tries
127.0.0.1 (`port-manager.ts:34`): `listener` is who listens there, and a task that listens on
::1 alone, or not yet, is one of `Unbound`, which no step forces to `Listen`. `Start` in a
project of `Missing` is the spawn that fails and ends the gateway. `met` records which
requests and tasks were still on their way to a port when a search began, `late` the
requests that went on without a session or in a shutdown.

`DeliveryQueue` is deliverOutboundPayloads with its write-ahead queue, and the
recovery at a start. A message has some payloads; its live call and the recovery
are two actors that take the same steps (`step`, `piece`). The directory is
`queued`, `retries` and `failed`; a file appears, changes and goes in one rename or
unlink. failDelivery is two actions, `FailRead` and `FailWrite`, since it awaits in
between. The recovery is `ListFiles`, `ReadFile`, `AllRead`, then per entry `GiveUp`
or `Retry` and the steps of its call, until `StopRecovery`; `elapsed` counts
seconds against the budget. `Crash` may come between any two steps;
`StartGateway` also stands for a restart inside the process, which lets live calls
go on. A message is "strict" without bestEffort, "watched" with it and an onError
callback, "blind" with it and without one.

`SessionRuns` is what the lanes promise of the runs of a session: they begin in
order and, in one life of the gateway, one at a time. `CommandLanes` is
command-queue.ts and its use by runEmbeddedPiAgent. A lane has `queue`,
`activeTaskIds`, `maxConcurrent` and `generation` as in the code. A run is an outer
command in the lane of its session, which awaits an inner one in a global lane.
`pumps` is the stack of pump loops between two callbacks: `Pump` is one round of the
innermost. `Submit`, `RunEnds`, `OuterEnds`, `WaitEnds`, `Clear`, `SetConcurrency`
begin in a callback; `RequestRestart`, `DrainEnds`, `ResetAllLanes` are the restart
of run-loop.ts inside the process.

`Cron` is the scheduler. `disk` and `store` are the jobs in the file and in memory, `timer`,
`phase` and `exec` the tick: it waits for the lock, finds what is due and marks it
(`FindNothing`, `FindDue`, `FindFails`), runs it outside the lock (`RunDueJob`, `DueJobEnds`
or `DueJobTimesOut`), and takes the lock again for the results (`ApplyResults`, `LoseResults`); `TickEnds` is its
`finally`. A run whose time is up counts as failed for the tick and goes on, for nothing
cancels it: `overtime` are the jobs with such runs, `OvertimeEnds` is the end of the last one
of a job. locked() chains promises, so an operation that awaits only the file is one
action, whose write succeeds or fails (`Persist`); what keeps the lock longer is in the
state: the start (`Start`, `CatchUp`, `CaughtUp`, `StartEnds`) and a manual run (`Run`,
`RunEnds`). A job has a schedule that is over or not, a next run that is due or not, and a
marker that is fresh or two hours old: `Elapse` and `MarkAges` are the clock. Of a
job the file and memory age together. One question of times is a choice: an "every" job
asked for its next run at a multiple of its period gets that very moment (`edge`). `unguarded` is a
history variable: the jobs of a tick, or in overtime, whose marker was lifted by an update
that disables the job, after two hours, or with the result of a run whose time was up.

The modules `MC...` hold TLC's instances, the modules `...Proofs` the proofs.

Operators whose comment starts with "Mistake" are wrong forms of the definition
below them; no action uses them. `PROJECT.json` pairs each with a property that
TLC finds violated when the wrong form replaces the right one: evidence that the
property can see that kind of bug.

## What the runs check

| Run | Question | Result |
|---|---|---|
| `approvals` | Is a call ever allowed without a grant, an answer replaced, an answer hidden by a stale map key, a feedback mode left without its timer? Does the path implement `ToolGate`? Does every hook that asked get a decision, and does feedback mode end? | holds |
| `approval_late_feedback` | "Claude received: ..." (`jorchbot-start.ts:408`) | violated: the hook gave up before the text came |
| `sessions_safety` | Do map, focus and rows agree, also across crashes between writes? Is every state restorable? Does a phone keep a focus? Does the manager implement `SessionRegistry`? | holds if nobody stops a session being stopped |
| `delivery_safety` | Is a recorded message ever lost, a payload overtaken, a copy sent without a reason, a message given up too early? Does every entry leave the queue? | holds, with a budget longer than the backoff |
| `delivery_stuck` | "retry any pending entries ... moves entries that exceed MAX_RETRIES to failed/" (`delivery-queue.ts:211`), with the code's backoff and budget | violated: after two failures the backoff is 120 s, the budget 60 s |
| `lanes` | Are slots and queues exact, also across restarts? Does a command wait in a lane with room? Do the lanes implement `SessionRuns`? Does every run end? | holds |
| `runner` | Is a live run always in the fields, with its timer and its caller? Does a timer outlive its run, a process its session? Does every run settle, every stop end? | holds for runs that have the runner to themselves |
| `tunnels` | Is an active tunnel reachable, a stopped one not? Do the rows tell what to restore, and can they be? Do a session's tunnels end with it? | holds for calls that meet no other, and tunnels that failed no check; a stopped tunnel is still reached by a remembered Referer while another funnel tunnel keeps the proxy up; of a session's tunnels those end that were active when it ended |
| `tasks` | Does the list tell what runs? Can one command run twice, two tasks get one port, a task outlive its session, a request go on for ever? | holds; twice only on demand or if two requests overlapped, one port only if two searches did or a task listens where the search does not look, and what was about to start as its session ended is not stopped |
| `cron` | Can two runs of one job go on at once? Is the timer ever left unset though a job has a next run? Can a step of a tick, a list or status, an update or removal of another job, or the start of its manual run move a due job ahead? | the first only after an update that disables the job, two hours, or a time limit that the run outlasts; the second only after a failed write; the third never |
| `cron_skip` | "would silently skip those jobs" (`cron/service/timer.ts:353`), asked of all steps | violated: a job comes due, another is added, and the first is moved to its next slot |
| `sessions_overlap` | "mirrored to DB" (`focus-model.ts:11`) with two overlapping stops | violated: stop, stop, new; the second stop removes the new session from the map |

### Bounds

- Approvals: two calls of one session, beside another session that can have the focus;
  two feedback taps (one request twice, or two requests); one restart. Two calls in a
  session are needed for the oldest-first choice of a text, two sessions for focus, two
  taps for the overwritten timer. `MaxTaps` bounds `TapFeedback`, `MaxRestarts` bounds
  `GatewayDown`. Each session is created and destroyed at most once and each call asks once, so
  the system may stop. What the run shows of safety is proved for any number of calls. The
  violation has one call in each session.
- Sessions: four projects, two phones, a limit of three, four creations
  (`MaxIds`), two crashes (`MaxCrashes`). The limit can be hit, a project can be
  created again, a crash can follow recovery from a crash. `MaxStops = 1` is an
  assumption and not only a bound: no destroy of a session begins while one waits
  (`NoSecondStop`). The code does not enforce it. `sessions_overlap` sets it to 2 and shows what
  happens: `ClaudeRunner.stop` forgets its process before it waits, so that a
  second stop returns at once while the first waits up to five seconds.
- Delivery: two messages, of two payloads (strict or watched) and of one (blind),
  one live call at a time, one crash, one failing operation, one retry, a budget of
  four seconds with sends and backoffs of one. One crash gives every cut point; two
  starts, one of them inside the process, give the overlap of a live call and a
  recovery; the budget ends the loop with an entry left. `delivery_stuck` has the
  code's constants in seconds and needs neither crash nor fault.
- Lanes: three runs, two sessions, two global lanes, limits 0 and 2 of a reload, one
  reload, one restart. Three runs are needed for a run that waits for another one
  behind a third, and for a queue of a lane whose slot is held by a run of before the
  restart.
- Runner: three runs. Two overlap; the third is the one a leaked timer stops. The
  context limit of 2 with a result of 2 makes the guard refuse; a run that reports nothing
  leaves it open. One /compact at a time awaits its first reply.
- Tunnels: two tunnels of one project, the second one of each kind, on the first
  one's path or on another; two failed checks until a restart, one restart; a crash;
  a failing command, which in a restore stands for any number of them. Each call of start
  is made once, also after the session has ended. Three calls show one more case,
  which is why a late stop that turns Funnel off sets `unfinished`: the third tunnel
  joins a proxy whose Funnel an earlier stop has turned off.
- Tasks: two requests, for a project with a port, one without, and one without its
  directory; two ports, each free or taken by another program; one end of the gateway
  from outside and those by a spawn that fails. What can go wrong takes two requests;
  buttons of an earlier life of the gateway are on the phone from the start, so the
  second one may be a button.
- Cron: a one-shot job that is kept after its run and a periodic one that has a time limit
  (`Limited`), one job executed at a time, and one trouble (`MaxTroubles`): a crash, a failing
  write or a refused patch. A crash and a fault in one behaviour make the graph nearly
  twice as large; what they do together rests on the proofs, which know no bound. Kept,
  for a one-shot job that is deleted has one way less to go; one job at a time, so that one
  waits queued while another executes. A "cron" job differs from an "every" job only in that it never gets the very
  moment. `cron_skip` needs no trouble.
- `MaxRequests`, `MaxRuns`, `MaxLive`, `MaxReloads`, `MaxResets`, `MaxCrashes`, `MaxFaults`, `MaxTroubles`
  are the bounds. `failureCounts` stays below its threshold, where higher counts act alike.
  Where all calls were made the system may stop, so that these runs do not look for
  deadlock; the delivery queue can always be started again, and its runs do.

### Fairness

`approvals` assumes that a polling hook goes on polling or runs into its own
deadline, that a POST is answered or fails, and that timers fire while the gateway
runs: weak fairness of `Poll \/ HookTimesOut`, `SendStep \/ PostFails` and
`TimerStep` of each request. The loop in `tool-approval.ts` compares the clock on
every turn, an HTTP call ends, and Node runs due timers. Nothing is assumed of
the user, of session commands, or of anyone starting the gateway again.

`delivery_safety` and `delivery_stuck`: sends and file operations end, the recovery
goes on, and the gateway is started again and again (else an entry simply stays).
Nothing makes a caller send. `lanes`: the pump and a requested restart go on, agent
runs end (they have a timeout of their own), and agent.wait answers or times out.
`runner`: timers fire, continuations run, and a process that got SIGKILL ends; one
that got SIGTERM need not, and nothing makes Claude Code end by itself. `tunnels`:
the calls of a stop end, and the loop over a session's tunnels goes on; nobody has to
start, confirm or stop a tunnel. `tasks`: a reply is sent or fails, and a probe of a
port returns; nothing makes a process end. `sessions_safety`, `cron` and the violations of
approvals, sessions and cron assume no fairness.

That a due job is run in the end is not checked: the timer needs strong fairness against
operations that take the lock, and TLC's graph of the scheduler is too large for that.
`TimerIsSet` and `DueJobsAreKept` are the two ways in which it could fail for good.

## What is proved

`ApprovalProofs` proves, for any sets of sessions and calls and any bounds, type
correctness, `AllowedWasGranted`, `MapsAgree`, `FeedbackModeIsTimed`,
`VerdictIsFinal`, that a text answers one request at most (`TextAnswersOne`, which is only
proved), and that `Approval` implements `ToolGate`. Assumed: `ApprovalAssumption`. The
inductive invariant adds to the checked ones that a session that was never created has
asked for nothing (`UnbornIdle`), so that a new session has nothing in feedback mode, and
that no two requests came into feedback mode with one tap (`TapsDiffer`), so that the oldest
is one. `AllowedWasGranted` is not inductive alone: a poll allows on what
`resolved` says, so it needs that `resolved` repeats the answer given, which needs
that only a request without an answer is pending. `MapsAgree` says both. The
refinement needs `MapsAgree` as well: that an answer comes only to a call that
asked and has none yet.

`SessionsProofs` proves, from `SessionsAssumption`, of every behaviour in which nobody stops
a session that is being stopped (`[]NoSecondStop`), type correctness, `MapMirrorsRows`,
`RestorableRows`, `FocusIsMirrored`, `FocusIsOwn`, `FocusIsKept`, and that `Sessions`
implements `SessionRegistry` and, for every phone, `SessionView`. With `MaxStops = 1`, as in
the run, these are all behaviours (`OneStopAtATime`); without it the theorems still speak
of a gateway in which stops may overlap, up to the moment when two meet on one
session. The inductive invariant adds to the checked ones `StopsRunning` (what is being
stopped is an active row of a running gateway; this is where `NoSecondStop` enters, since
the end of one destroy must leave no other behind), `WellFormedRows` (a written row has a
project and an owner) and `MapPointwise`, the mirror of map and rows said of one
project or row at a time. Destroy clears the map by project name: right only
because the session being stopped is still the one under its name. The limit
passes from the map to the rows through a bijection and the library's facts on
cardinality. For `SessionView` a phone's focus is read from its rows: the focused one, of
which there is at most one while the gateway is down as well.

`DeliveryQueueProofs` proves, for any messages, payload counts, backoffs, budgets and
bounds and from `DeliveryAssumption`, type correctness, `NothingLost`, `InOrder`,
`CopiesHaveCauses` and `GivenUpWasTried`. None is inductive. The invariant says of
each message by itself: a call is at its first payload unless it sends, and then has
sent the payloads before (`FromTheStart`, `SentBefore`); what recovery has loaded
and the retry counts it holds, in memory and on disk, are backed by failures
(`RetriesFailed`); every copy beyond the first is paid for by a failure, a crash, a
fault or an overlap, with the calls that may still send counted in (`PaidFor`); and
while an entry is missing its payloads were sent or a call that has the entry to
remove has sent them (`NotLost`). A lemma says that a step that touches one message
keeps the others, so that each action is looked at for its own message only.

`CommandLanesProofs` proves, from `LanesAssumption`, type correctness,
`SlotsAreHeld`, `NoIdleLane`, that a waiting command is in the queue of its lane once
(`QueuedOnce`, which is only proved), and that `CommandLanes` implements
`SessionRuns`. What the code wants of the lanes is then a theorem about agent runs, which do
their work in inner commands of other lanes (`AgentRunsAreSerial`, only proved): those of a
session overlap only across a restart and never overtake each other, for `SessionRuns` keeps
it of the outer commands (`StatusInv`) and an inner one lives only inside its outer one
(`InnerInOuter`). `SlotsAreHeld` needs that what waits is in the queue of its lane once
(`OnceEach`, `AllQueued`) and that no command is of a later generation than its lane.
`NoIdleLane` speaks of the moments between callbacks; within one, `RoomIsUsed` says
that a lane with room and waiting commands has its loop on the stack or will be
drained. The refinement needs that a session's queue is sorted by submission
(`WaitInOrder`) and that its lane has one slot (`OneSlot`).

`ClaudeRunnerProofs` proves, for any number of runs, type correctness, `Watched`,
`TimersBelong` and `EndedSessionIsQuiet`. The invariant adds what the fields say
of other runs, since the exit or stop of any run clears them: a run outside `crowded`
is the only one at work (`AloneAtWork`), a process in the field that is not crowded
has no other beside it (`FieldAlone`), and the field is empty once such a run was
told to stop (`ToldLeavesField`). The theorem `StopsAndRunsMoveOn` is what the liveness
properties of the run rest on: a run whose caller waits and which had the runner to itself
has its timer set, a stop() that awaits it, or a process that was killed (`SomethingIsDue`),
and what was told to stop never works again (`StopsAreFinal`).

`TunnelsProofs` proves, for any number of tunnels and any inputs and limits, from
`TunnelsAssumption`, type correctness, `Reachable`, `NoStrayPath`, `RowsTellTunnels`
and `CanRestart`. `Reachable` speaks of tunnels that are not in `mixed`, so the
invariant says who is there: two calls at work have met (`WorkMixed`), a start
outside `mixed` made the server and, after listen(), has the port (`ProxyMine`), a
proxy that listens without Funnel has a start that is enabling it (`Enabling`), and a
path is its tunnel's from the moment it is taken (`HasRoute`). `NoStrayPath` needs more for
what the proxy remembers (`CacheInv`): a stop that takes the proxy down does so for the last
funnel tunnel, so that any other is in `mixed` (`StopAlone`), and what is served until the
proxy is gone has met that stop (`CacheMet`). `CanRestart` follows
from `RowsTellTunnels` and `HasRoute`: the two tunnels of one path would both have
it.

`TasksProofs` proves, for any projects, commands, ports and number of requests and
from `TasksAssumption`, type correctness, `ListIsExact`, `NoTwins`, `PortsApart` and
`QuietEnd`. The properties speak of tasks, the invariant also of the requests that
passed the check and have started nothing yet: such a request is late if its session
is gone (`QuietSearch`), and has met every other one (`SearchesMet`), every task that
does not listen yet (`UnboundMet`) and every task with the port it has found
(`FoundMet`). All steps of a request are one kind of step (`Step`), so that each part
of the invariant is looked at once and not once per action. `RequestsAlwaysAdvance` gives
each request a number of steps that are left (`StepsLeft`, at most one per port and three)
and proves that its own steps lower it and nobody's raise it: a request cannot go round.

`CronProofs` proves, for any jobs, schedules, limits and bounds and from `CronAssumption`,
type correctness, `NeverTwice`, `TimerIsSet` and `DueJobsAreKept`. Types come with what the
lock and the phases have to do with each other (`Structure`). `NeverTwice` is not inductive:
it needs that every job that a tick has in hand, also one that is still queued, or that is
in overtime, is in nobody else's hands and marked in memory and in the file, unless it was
removed, or is recorded as `unguarded` (`Guarded`). `TimerIsSet` needs that no enabled job waits for
its next run to be computed, but for one-shot jobs that are done (`Settled`, of file and
memory): a list or a status would compute it and set no timer. `DueJobsAreKept` follows from
the types, step by step. `NoMarkerStaysBehind` (only proved) is about the marker that keeps a
job from being started twice: once the gateway is up and until the first failed write, a
marker in memory belongs to a job that is being executed; one left behind would keep the
job from running for two hours. It needs the same of the file (`Honest`), which a tick
reads again at its end.

The types are proved and not checked by runs: `TypeOK` of each module is the theorem
`TypeCorrect` of its proof module.

Only model-checked: the liveness properties, since liveness under fairness is out of
the provers' reach, and the violations. What a liveness property needs beside fairness is a
safety property, and that part is proved: `RequestsAlwaysAdvance` for `EveryRequestEnds`,
`StopsAndRunsMoveOn` for `EveryRunSettles` and `StopEnds`, `FeedbackModeIsTimed` for
`FeedbackModeEnds`, `NoIdleLane` for `EveryRunEnds`.

## Where the code and its documents differ

The runs that expect a violation show four places. These are plain from a few actions and
have no run:

- After two taps on "Yes + feedback" one of the two timers is in no map
  (`setAwaitingFeedback`, `approval-manager.ts:130`, overwrites its handle), survives
  `Destroy` and sends the buttons of a session that is gone; `approval-manager.ts:201` says of
  dispose "Clear all timers. Call on session destroy." `armed` of `Approval` holds such timers.
- A tunnel that was stopped is still reached by requests whose Referer the proxy has served,
  while another funnel tunnel keeps the proxy up (`Served`): `removeRoute`,
  `tunnels/funnel-proxy.ts:147`, says "Remove a route by path" and leaves `pathRouteCache`, which
  `:242` reads and `:98` renews.
- A tunnel can be started for a session that has ended (`Start`, `tunnels/manager.ts:63`,
  `gateway/jorchbot-ws-handlers.ts:516`), and a confirmation outlives its session: nothing ends
  such a tunnel.
- A cron job's run goes on after its time limit (`DueJobTimesOut`, `cron/service/timer.ts:272`):
  the race cancels nothing, `:80` clears the marker, and the job may be executed a second time
  beside it; `:27` calls the limit the "Maximum wall-clock time for a single job execution".
- A one-shot cron job that was interrupted runs at once after the restart: `Start` clears its
  marker and leaves it out of the catch-up, but its time stays in the past, `StartEnds` sets the
  timer and `FindDue` finds it. `CHANGELOG.md:520` says "skip missed-job replay on startup for
  jobs interrupted mid-run (stale `runningAtMs` markers), preventing restart loops".
- `Run` and `CatchUp` execute a job under the lock and without the time limit that ticks have
  (`executeJob`, `cron/service/timer.ts:625`), so that one stuck job holds every operation and
  every tick; the comment at `timer.ts:27` says of the limit that it keeps "one stuck job
  from wedging the entire cron lane".
- A patch that `update` refuses stays half applied in memory (`EditRefused`,
  `cron/service/jobs.ts:436` asserts after the changes) and goes to the file with the next write.
- A one-shot job that is kept and was done never runs again, whatever new time an update
  gives it (`NextRun`, `cron/service/jobs.ts:124`).
- A text is captured as feedback only if the request's session has the focus
  (`WriteText`, `jorchbot-start.ts:403`); the comment at `approval-manager.ts:107` says
  "The next free-text message from the user will be captured as feedback."
- "Stop & restart" starts nothing while the stopped task lives (`TapRestart`,
  `jorchbot-start.ts:461`): SIGTERM is sent and the command is executed at once, finds the
  task still on the list and asks again; `specifications/phase-3-jorchfile/TODO.md:393`
  says "stop existing task, then re-execute the command".
- A command in a directory that does not exist ends the gateway (`Start`,
  `task-manager.ts:47`): start throws for want of a process id, and the child's error event,
  which nobody handles, becomes an uncaught exception (`cli/run-main.ts:89`);
  `loader.ts:33` says of missing directories "not fatal — user may create later".

## Not modelled, and why

- Times, but for the budget and the backoff of a recovery: only their order of
  expiry matters to the properties here, and every order is allowed. Whether the
  hook's five minutes can lose to Claude Code's own limit on hooks is a question of
  values; a module for it is planned.
- A database write that fails after the first one of destroy, and any that fails for
  a tunnel.
- `plan` mode's allow for read-only tools: hooks are registered for write tools.
- A row without an owner (never written by create).
- Message texts, truncation, previews, the chunks of one payload.
- Deliveries: a plugin that cancels a payload; a message that makes the process crash
  before its failure is counted, at every start; the promise made to a blind sender.
  `NothingLost` lets a message go whose call ended in an AbortError. The code takes
  every such error for the caller's wish. One comes also from a request of the Signal
  channel that timed out (`signal/client.ts`, `utils/fetch-timeout.ts`): that message
  is lost though nobody aborted it.
- Lanes: a restart that exits the process, which loses all queues, and lanes of any
  name: `agent` requests may name their lane (`gateway/protocol/schema/agent.ts`),
  and one that names its own session's lane would wait for itself. The inner lane is
  one of the global ones here. What a run does inside its command is one action.
- Runner: the lines of the output, and with them what is lost if the exit event comes
  before they are read (the handler of exit closes the reader). The block of the
  context guard never lifts, since the totals never decrease: plain from `Result`.
- Tunnels: the addresses themselves (of the proxy's cache only the tunnels they lead to are
  kept, and any may expire at any time), routes added or
  removed by hand over the GUI's socket, and stopAll at an orderly shutdown, which is
  a stop of each tunnel and then the end of the process.
- Tasks: foreground commands, the tunnels that a start opens, and the processes a
  shell leaves behind when it alone gets SIGTERM. The watcher's reload replaces the
  table of commands, which is constant here; in the code it never comes, for
  `jorchbot-start.ts:340` gives `watcher.start` no file and `watcher.ts:41` watches only
  a file it is given.
- Cron: a store that cannot be read; schedules that cannot be computed (three times disable
  a job) or have no next run; patches of a job's kind or of its state; the session reaper;
  `cronEnabled: false`, which is the same operations without a timer; what a job does. A
  reload of the configuration makes a second service over the same file
  (`gateway/server-reload-handlers.ts:71`) while the first may still execute; they share the
  lock and no memory. `NeverTwice` is said of one service.
- Components marked `not_modelled` in `PROJECT.json`. Most of the repository is the
  rest of OpenClaw: channel adapters, model providers, the command line, apps and the
  web UI, which call services and format texts and keep little state of their own.

## Plan

The modules above exist. Left, in this order:

1. `Replies`: the sender variable, `/clear`, GUI confirmation, duplicate and
   concurrent events. Property: a reply goes to the phone whose event it answers.
2. `ApprovalClock`: the four deadlines of one request with their values.
3. A composition of `ClaudeRunner` and `Sessions`, in which the stop that destroy awaits is
   the runner's, as `SessionView` composes `Approval` and `Sessions`.
4. Proofs: an abstract specification of what the delivery queue promises a sender, and
   that `DeliveryQueue` implements it; that the restore of tunnels brings up what the rows
   tell.
5. Smaller ones: output buffer, document store, handshake.
