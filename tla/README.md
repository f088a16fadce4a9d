# xmemory-temporal in TLA+

`xmemory-temporal` puts the xmemory service behind Temporal: a workflow calls a
facade, the facade schedules activities, the activities call an xmemory client,
and a plugin wires the client into the worker. These modules model the parts
whose correctness depends on the order of steps, on crashes, on timeouts and on
retries. TLC checks them on small instances, TLAPS proves what matters most for
every instance.

Paths below are relative to `src/xmemory_temporal/` of the repository.

## The system

| component | state it keeps | operations | talks to |
|---|---|---|---|
| workflow facade, `workflow_api.py` | none per handle; `write_durable` keeps `delay`, `deadline` and a write id in the workflow | `read`, `write`, `write_async_start`, `write_status`, `write_durable` | schedules activities, sets durable timers |
| activities, `activities.py` | the client bound to the worker (a ContextVar) | `read`, `write`, `write_start`, `write_status`; `bind`, `unbind` | awaits the client, reads its deadline from `activity.info()` |
| client budgets, `config.py` | none | `client_timeout_seconds` | used by the activities |
| error mapping, `errors.py` | none | `to_application_error` | used by the activities; its types are a public contract |
| auto-capture, `interceptor.py` | none; a start time per attempt | `execute_activity` around every activity of the worker | calls `write_start` inside the wrapped activity |
| plugin, `plugin.py`, `client_factory.py` | the binding token and the open client of each worker's run | enter and leave the worker's run context | resolves the API key; opens, binds, unbinds, closes the client |
| payload types, `dto.py` | none | the projections of client answers | used by the activities; recorded in the history |
| `protocol.py`, `__init__.py`, summaries | none | pure | |

Temporal itself keeps an activity's attempts, its retry and timeout timers and
the workflow's history, and has a worker that lost a workflow's locals run its
code again on that history. The xmemory server keeps the jobs of the writes. Both
are outside the repository, and are modelled as the code relies on them.

### What is hard here

* A write is not idempotent: xmemory extracts keys with a model, so a second
  POST can fork a record. A timed-out POST, a crash after a POST, a retry or a
  late answer must not send another.
* The client's timeout has to end before Temporal's, at every deadline, or
  Temporal abandons an attempt whose POST is under way.
* The poll loop acts on a status read some time ago, from an attempt that may
  have been repeated, on a worker that may since have been replaced.
* The loop has no exit of its own but a deadline compared *before* it sleeps.
* A capture spends the wrapped activity's deadline, next to attempts Temporal
  has already given up on.
* The loop's locals live in a worker's cache. They are rebuilt by running the loop
  again, which must issue the same commands at whatever time it runs.
* A cancellation reaches the loop at any await, with an activity queued, running or
  between two attempts.
* The workers of a process share one activities object, and find their clients
  through a ContextVar that is set, copied into tasks and reset. A client must not
  be closed under a handler, nor stay open after its worker.
* An answer of another release of the client lacks attributes; what is recorded in
  the history must still be readable, and an option that is false is not one that
  was left out.
* A failure's retryability is stated twice: in the verdict and in a public tuple.

### What makes each component correct

| component | properties |
|---|---|
| `write_durable` | at most one POST per attempt granted; an outcome that names a job's fate is its fate; it always ends; it never gives up on a job that finished while it slept; it gives up at most one interval early; nothing is sent for it once it ended or was cancelled; all of it as one refinement, and its pace as another |
| its replay | a worker that replays has the locals and issues the command of the worker that ran; one enqueue; no sleep past the deadline; a bounded number of polls; no replay gets stuck; what the caller sees is the loop as if no worker were ever lost |
| facade and activities | POSTs bounded by the write calls made; success means a job of one's own; the client ends first; every call returns |
| error mapping | listing and verdict agree; hints honoured and bounded; the code decides over the status; everything sanitized |
| auto-capture | a capture stays inside its attempt; no result is captured twice for being slow; the result always goes out |
| plugin | a handler calls its own worker's client, and never on a closed transport; a worker with the plugin is never without a client; a task's context is put back; a worker that stops closes what it opened |
| payloads | options reach the client as they were given, a scope as a mapping that says the same; whatever an answer lacks, the recorded one is whole; the recorded status decides as the client's |

## Modules

| module | models | extends |
|---|---|---|
| `Optional` | Python's `None`, which several modules share | |
| `XmemoryErrors` | `errors.py`: exception records, verdicts, retry hints | `Optional` |
| `ErrorMapping` | one call of `to_application_error` and its properties | `XmemoryErrors` |
| `XmemoryBudgets` | `client_timeout_seconds` | |
| `XmemoryActivities` | one activity at a time: Temporal's record of it, the handler, the client call, the server's jobs, crashes | `XmemoryErrors`, `XmemoryBudgets` |
| `MemoryWrite` | the abstract promise of `write_durable` | |
| `WriteLoop` | the abstract loop of `write_durable`: its locals and its timer, with no worker that could lose them | `PollRules` |
| `PollRules` | what `write_durable` computes between awaits: `_interpret_status`, the growth of the delay and its cap | |
| `DurableWrite` | `write_durable`, its cancellation, and its refinements of `MemoryWrite` and `WriteLoop` | `XmemoryActivities`, `PollRules` |
| `UnnamedWrite` | `write_durable` with a client whose answer names no write | `DurableWrite` |
| `DurableReplay` | the loop's locals as a worker's cache over the recorded history, and its refinement of `WriteLoop` | `PollRules` |
| `DirectCalls` | a workflow that awaits the other facade methods in turn | `XmemoryActivities` |
| `AutoCapture` | the interceptor around all attempts of one user activity | `XmemoryBudgets`, `Optional` |
| `WorkerBinding` | the plugin: run contexts, clients, bindings and handlers of several workers in one process | |
| `Payloads` | a request and its answer through facade, handler and projections | `PollRules`, `Optional` |
| `XmemoryLemmas` | facts about errors and budgets, with their proofs | `XmemoryErrors`, `XmemoryBudgets` |
| `BoundaryProofs` | proofs of what crosses the boundaries of an activity | `ErrorMapping`, `Payloads`, `XmemoryLemmas` |
| `XmemoryActivitiesProofs`, `DurableWriteProofs`, `DurableReplayProofs`, `DirectCallsProofs`, `AutoCaptureProofs`, `WorkerBindingProofs` | proofs | the module named, and the proofs of what it extends |
| `MC…` | constants for TLC | the module named |

### How state and actions correspond to the code

`XmemoryActivities`. `handle` holds the deadlines each operation is scheduled
with (`WorkflowXmemory.__init__`) and whether the worker bound a client. `act`
is Temporal's record of the one activity in progress: one suffices, because a
handle keeps no per-call state and each method awaits its activity. `call` is
the client call a handler awaits; it is lost with the worker. `posts` is the
list of write POSTs ever sent: `"sent"` until the server accepts one, then its
job's status. A position in it is a write id.

* `Scheduled` is `workflow.execute_activity`: deadline and retry policy of the
  operation.
* `Refuse` is what a handler raises before it calls the client: `instance`
  (not bound) and `_client_timeout` (no deadline). Both stand outside the `try`.
* `Begin(lag)` is a handler up to its `await`. It derives the client timeout
  and, for a write, sends the POST.
* `Receive` is the projection of the answer, `Raise` the `except` clause with
  the whole of `to_application_error`, `ClientTimesOut` the client's own end.
* `Settled`, `AttemptTimesOut`, `TotalTimesOut` are Temporal: attempts,
  backoff (a server's retry hint in place of the policy's interval),
  `start_to_close`, `schedule_to_close`.
* `Enqueue`, `Progress`, `Answer`, `ServerError` are the server. It may accept a
  POST whose caller is gone, and it never has to answer. An answer is computed
  at one time and received at another.
* `Crash` loses the worker with its call; `Restart` brings another.

`DurableWrite`. `wf.pc` is the await at which `write_durable` stands. `wf.left`
is `deadline - workflow.now()`, `wf.delay` the local `delay`, `wf.timer` what is
left of `workflow.sleep`. `Started` is everything between the two awaits;
`Terminal`, `WriteTimeout` and `Sleep` are the three ways on from a poll that
returned; `Wake` grows the delay and polls again. A workflow step needs the
worker up; while it is down, timers run on and fire late. `Cancel` raises at any
await. The awaited activity gets `Cancelled`: under TRY_CANCEL, the default, a
queued one ends, and a running one, which never heartbeats, goes on to the end of
its attempt and is not retried. `DurableWrite` lets `wf` survive a worker;
`DurableReplay` is why it may.

`WriteLoop` is what the two have in common: the awaits of `write_durable` one after
another, the delay, what is left of `max_wait`, how the call ended. `DurableWrite`
implements it with `wf` as it is, `DurableReplay` with the locals and the time of
the *last recorded task* (`Remembered`): what a worker holds in its cache, or computes
and loses, is no part of it. A replay, a crash and an eviction are stutters; a recorded
task is one step of the loop. So the loop whose activities, server and crashes
`DurableWrite` checks is the loop that survives its workers.

`UnnamedWrite`. `AnswerUnnamed` is `project_write_start` on an answer without
`write_id`; the empty id is 0, and `AnswerNothingFound` answers the poll of it.

`DurableReplay`. `history` holds one entry per completed workflow task: the event
that woke the call, the `workflow.now()` it saw, the command it issued. `local` is a
worker's cache. `Execute` runs the code to its next await on the task's event,
`Replay` on a recorded one, and only when the command is the recorded one, as the
SDK does; `Commit` makes it known. `Crash` loses a task under way, `Evict` the
cache between tasks. `Resume` is all of the loop's code. Activities return whatever
they like, after as long as they like.

`WorkerBinding`. `bound[t]` is `_bound_instance` in the context of task `t`,
`worker[w]` where a worker stands in `_run_context` with the token it holds, `open`
the transports still open. `Open` is `build_client` with `resolve_api_key`,
`FailToStart` the key that is missing, `BindSupplied` the path of a given
`instance`, `Stop` the end of `worker.run()` for any reason, then `Unbind` and
`Close` in the order of the `finally` and the `with`. `Begin` starts a handler in a
copy of the context; `Refuse`, `Call` and `Return` are the handler.

`Payloads`. One operation goes through `Schedule` (the facade's arguments and
defaults), `Send` (the handler's keyword arguments), `Answer` and `Project` (the
`project_…` function of its answer). A value is one of a few names, some falsy. `Takes`
are the signatures of the facade; `Models` the client's models, of which any attribute
may be missing. A value has no inside but where the code looks inside: a status, a time,
the sub-answers of a read, and its scope. A scope is a dataclass of dataclasses, marked by
the field `class`, and `PlainScope` makes the handler's plain mapping of it, object by
object and field by field. `RequestKept` compares the mapping with every field the
dataclasses have, so a field the conversion loses is seen.

`AutoCapture`. `act` as above, for the wrapped activity. `runs[n]` is the handler
of attempt `n`: it works on after Temporal gave up on it, next to its successor,
and Temporal drops what it reports. `room` is what `_capture_budget` would find
remaining, `timer` what is left of `wait_for`, which is also where the client's
own timeout would end the capture. `ReturnUncaptured` covers every way to skip,
a `project` that returns nothing or raises included.

`ErrorMapping`. An exception is a record of the attributes the mapping reads.
`Unparsable` stands for hints `int()` rejects with a `TypeError` or `ValueError`,
`Infinite` for the float that overflows it. A hint is its integer part.

## What the runs check

| run | module, constants | shows |
|---|---|---|
| `error_mapping` | 19 codes, `None` and an unknown one; 13 statuses; hints on both sides of 0 and of the clamp | `ListingMatchesVerdict`, `HonoursHint`, `CodeDecides` |
| `durable_write` | one crash, one tick of lag, two poll attempts, four wait settings, four server errors, a bound and an unbound worker, a cancellation anywhere | the five invariants, `QuietAfterEnd`, `CompletionNotMissed`, `Terminates`, and that `write_durable` implements `MemoryWrite` and `WriteLoop` |
| `durable_replay` | four wait settings, evictions anywhere between tasks, one crash in a task, late timers and tasks | `ReplayFaithful`, `EnqueuedOnce`, `SleepsWithinMaxWait`, `PollsBounded`, `Completes`, and that what is recorded implements `WriteLoop` |
| `worker_binding` | two workers with the plugin and one without, in tasks of their own or sharing one, two starts each, two handlers; given nothing, an `http_client` or an `instance`; with a key or without | `OwnClient`, `NoClosedClient`, `PluggedNeverRefuses`, `Restored`, `StopsClean` |
| `payloads` | every option given, left out, `None` or falsy; scopes of up to two objects in either order, with and without a key, with and without relations; every attribute of an answer present or missing, and `None` but for `write_id` and `sub_query` | `TypeOK`, `RequestKept`, `FateKept` |
| `direct_calls` | three calls in any order, one crash | `AtMostOncePerWrite`, `SuccessIsReal` |
| `direct_budgets` | one call, writes retried too, at deadlines of 0.6 to 1.5 s around a margin of 1 s, some with a `schedule_to_close`; a worker without the plugin; one tick of lag | `ClientGivesUpFirst` under a `start_to_close`, `AtMostOncePerWrite`, `EveryCallReturns` |
| `auto_capture` | three attempts, one crash or shutdown, a cancellation, every reason not to capture, deadlines under, at and over the margin | `CaptureWithinAttempt`, `CapturesBounded`, `ResultKept`, `ResultReported` |

Four runs end in a violation. Each checks one sentence of the repository that the
code does not keep (`findings` in `PROJECT.json` quotes both sides):

| run | the sentence | what the code does |
|---|---|---|
| `error_overflow` | every client error is sanitized (`activities.py:123`) | an infinite retry hint raises `OverflowError` inside the mapping; a final error becomes a retryable one |
| `schedule_to_close` | always a margin below the deadline assigned (`README.md:92`) | without a `start_to_close`, each attempt gets the budget of the whole `schedule_to_close` |
| `capture_schedule_to_close` | clamped to what is left of the deadline (`interceptor.py:11`) | only the time of this attempt is deducted from a `schedule_to_close` |
| `unnamed_write` | a `not_found` means the write is genuinely gone (`workflow_api.py:266`) | an answer without `write_id` is taken for the empty id, whose poll finds nothing: the accepted write is reported as gone |

Other sentences the code does not keep to the letter, with no run of their own:

* `TESTING.md:46` speaks of a grace window for `not_found`; the first `not_found` is
  terminal, as the docstring of `write_durable` says.
* `README.md:233` has `XmemoryWriteTimeout` mean that polling exceeded `max_wait`; the
  loop gives up when the *next* poll would be too late, up to one interval before.
  `TimeoutWithinOneInterval` states what holds.
* `config.py:22` promises a client timeout below every positive budget; its floor of
  0.1 s meets a budget of 0.1 s. `ClientBelowDeadline` needs a budget above that.
* `README.md:121` counts about 105 events for a long wait: three per poll. Each sleep
  between two polls adds the events of its timer.
* `config.py:82`, `include_content_in_summary`, is read by nobody: the facade has a
  parameter of the same name.

### Bounds

A tick is a tenth of a second in the runs of activities. Their timers count down
and stop at zero, so no counter grows. `DurableReplay` has a clock; it stops with the
call, whose polls are bounded. The named bounds are:

* `MaxCrashes` = 1. A crash loses exactly the worker's call, run or cache; a second one
  finds the same state with fewer attempts left. The theorems hold for any number.
  Evictions are not bounded.
* `Latency` = 0 or 1: by how much the worker's clock for an attempt may trail
  Temporal's. It is under the margin, as seconds of margin and an event loop
  make it; nothing in the code enforces that.
* `MaxCalls` = 3 or 1: with three calls a write's answer, a crash and a later call
  meet.
* `MaxStarts` = 2: a worker slot that starts again meets what its first start left.
* `Policy`: two attempts show a retry and the end of retries; one is the write
  default. The intervals are small, and the ratio of two and the cap remain.
* `Waits`: an interval of zero, one that grows into its cap, one above its cap, and
  a `max_wait` of zero. In `durable_replay` a delay grows into its cap and stays there,
  and the deadline falls on, before and after the end of a sleep.
* `Lasts`, `Lags` of `durable_replay`: an activity takes one or two ticks, a timer or
  a task is on time or two ticks late, more than the shortest interval.
* `Handles`, `Settings`: deadlines below, at and above the margin; ways to set a
  process up.
* `Requests`, `Responses`: each option and attribute in every one of its kinds, one
  sub-answer at most (they are projected one by one); two objects in a scope show an
  order that is lost.

`ClientTimeout` rounds four fifths of a budget down to a tick, where the code has a
float. The order against the deadline, which is what matters, is the same.

## Fairness and assumptions

Timers fire, a live worker takes its tasks and its workflow steps, and a lost
worker is replaced: these are Temporal's guarantees and the operator's. Nothing
is assumed of the server or of the wrapped activity: it may never answer, a job
may never end, and a cancellation need not come. So `Terminates` and
`EveryCallReturns` say that timeouts alone bring a call back. `WF(Tick)` says that
time goes on; without it a zero poll interval could poll for ever at one instant.
`DurableReplay` takes from `Terminates` and `EveryCallReturns` that an activity ends.
`WorkerBinding` assumes that a handler ends, by its client's timeout, and that a
worker that stops goes on stopping; no worker has to stop.

A due timeout of a running attempt fires before time goes on. A workflow timer or
a queued attempt may be late without bound. Deadlock is checked everywhere but in
`ErrorMapping`, which maps once and stops: elsewhere a call that ended stutters
through an explicit `Ended`. In `DurableReplay` a replay that issues another command
than the recorded one has no step left, and the run would show it.

Of code outside the repository the models assume:

* `worker.run()` of the Temporal SDK returns or raises only when its handlers have
  ended (`Drained`), and its handlers run in tasks created under it.
* The SDK fails a workflow task whose replay differs from the history.
* An activity is cancelled by TRY_CANCEL and hears of it only by a heartbeat.
* The server's `write_async` either accepts a POST as a job or not, final statuses do
  not change, and no write has the empty id.
* The `timeout` handed to a client call is one total deadline for that call, connecting
  and reading included. `ClientGivesUpFirst` and `CaptureWithinAttempt` rest on it.
* The client's `write_id` and `sub_query` are strings: a release may lack them, but they
  are not `None`. `dto.py` would record a `None` there as it is.
* What the projections pass on unread (`changes`, `result`, a `reader_result`) is plain
  data. `dto.py` types it `Any` and does not convert it.
* Temporal's data converter hands a handler the dataclasses the facade was given, those
  of a scope included.

## What is proved

For every value of the constants, from the assumptions the modules state: types of
the constants, distinct sentinels, a positive number of attempts, one retry policy for
both writes (`SharedWritePolicy`), and a deadline for every activity
(`DeadlineAssumption`; Temporal schedules none without). `Payloads` assumes of its
constants that `default_extraction_logic` is not `None` (it is a `str`), that an
operation is called with the options of its signature and its scope, if any, is a
`ReadScope`, and that an answer is one of the client's models with any attributes
missing. The theorems marked * have
one hypothesis more, about how late a worker starts an attempt:

* `StartsInTime`: where a `start_to_close` alone is set, `Latency` is under what the budget
  leaves of it: the margin, or a fifth of a deadline not above the margin, which
  must also leave the client its floor of 0.1 s. `DurableWriteProofs!ClientFirst`
  asks for a `start_to_close` alone everywhere.
* `CapturesTimely`: `Latency` is under the margin, and activities that may be captured
  have a `start_to_close` alone.

Nothing in the code enforces either; seconds of margin do. Under a `schedule_to_close`
alone the properties do not hold, as two of the runs above show. TLC evaluates both for the
constants of the passing runs.

| theorem | statement |
|---|---|
| `DurableWriteProofs!TypesCorrect` | `Spec => []TypeOK` |
| `DurableWriteProofs!WritesAtMostOnce` | `Spec => []AtMostOnce` |
| `DurableWriteProofs!OutcomesTrue` | `Spec => []TruthfulOutcome` |
| `DurableWriteProofs!EndedCallsQuiet` | `Spec => QuietAfterEnd` |
| `DurableWriteProofs!TimeoutsInTime` | `Spec => []TimeoutWithinOneInterval` |
| `DurableWriteProofs!ClientFirst` * | `Spec => []ClientGivesUpFirst` |
| `DurableWriteProofs!KeepsPromise` | `Spec => ImplementsMemoryWrite`, a refinement |
| `DurableWriteProofs!KeepsLoop` | `Spec => ImplementsWriteLoop`, a refinement |
| `DurableReplayProofs!TypesKept` | `Spec => []TypeOK` |
| `DurableReplayProofs!ReplaysFaithful` | `Spec => []ReplayFaithful` |
| `DurableReplayProofs!EnqueuesOnce` | `Spec => []EnqueuedOnce` |
| `DurableReplayProofs!SleepsInTime` | `Spec => []SleepsWithinMaxWait` |
| `DurableReplayProofs!PollsFew` | `Spec => []PollsBounded` |
| `DurableReplayProofs!ReplayImplementsLoop` | `Spec => ImplementsWriteLoop`, a refinement |
| `DirectCallsProofs!Typed` | `Spec => []TypeOK` |
| `DirectCallsProofs!PostsGranted` | `Spec => []AtMostOncePerWrite` |
| `DirectCallsProofs!SuccessesReal` | `Spec => []SuccessIsReal` |
| `DirectCallsProofs!ClientFirst` * | `Spec => []ClientGivesUpFirst` |
| `AutoCaptureProofs!TypesCorrect` | `Spec => []TypeOK` |
| `AutoCaptureProofs!CapturesInTime` * | `Spec => []CaptureWithinAttempt` |
| `AutoCaptureProofs!CapturesFew` * | `Spec => []CapturesBounded` |
| `AutoCaptureProofs!ResultsKept` * | `Spec => ResultKept` |
| `WorkerBindingProofs!TypeCorrect` | `Spec => []TypeOK` |
| `WorkerBindingProofs!HandlersUseOwnClient` | `Spec => []OwnClient` |
| `WorkerBindingProofs!ClientOutlivesHandlers` | `Spec => []NoClosedClient` |
| `WorkerBindingProofs!PluggedAlwaysBound` | `Spec => []PluggedNeverRefuses` |
| `WorkerBindingProofs!ContextRestored` | `Spec => []Restored` |
| `WorkerBindingProofs!LeavesNothingOpen` | `Spec => []NothingLeaked`: a worker that has ended has no transport open |
| `BoundaryProofs!ListingSound` | `MappingSpec => []ListingMatchesVerdict` |
| `BoundaryProofs!HintSound` | `MappingSpec => []HonoursHint` |
| `BoundaryProofs!CodesDecide` | `MappingSpec => []CodeDecides` |
| `BoundaryProofs!OutputsPlain` | `Spec => []TypeOK`, of `Payloads` |
| `BoundaryProofs!RequestsKept` | `Spec => []RequestKept`, for scopes of any length |
| `BoundaryProofs!FatesKept` | `Spec => []FateKept` |
| `XmemoryLemmas!ClientBelowDeadline` | the client's budget is in `1..(budget - 1)` for a budget above 0.1 s and a positive margin |

The inductive invariant of `write_durable` is
`IInv == ActivityInv /\ WfTyped /\ Located /\ Counted /\ Known /\ Reported`.

* `ActivityInv` (in `XmemoryActivitiesProofs`) types an activity and says what its
  answers are worth. The point is `AnswersTrue`: an id that was answered is of an
  accepted POST, and a *final* status that was answered is still the job's status.
  Statuses that are not final may be stale, which is why `Known` and `Reported`
  speak of final ones only. It survives every step because final statuses never
  change. `StepEffect` sums up what a step of the activity can do to a module that
  extends it.
* `Located` ties where the loop stands to the activity it awaits.
* `Counted` is why `AtMostOnce` needs strengthening: while `write_start` runs, the
  POSTs sent are at most the attempts begun, one less while the next is only
  queued; afterwards no activity of the loop sends one.
* `Known` and `Reported` carry a poll's answer through sleep to the outcome.
* `EndedCallsQuiet` rests on `Located` too: once the call ended, an activity that still
  runs is a cancelled one, and a cancelled attempt has no successor.

`DurableWriteProofs` shows that `Init` implies `IInv`, one lemma per action that
`IInv` is preserved, and reads the theorems off it. Four need more:

* `TimeoutsInTime` adds `PacedInv`: the delay never exceeds the longer of
  `poll_interval` and `max_poll_interval`, so the loop gives up when less than that is
  left.
* `ClientFirst` adds `AheadInv`: an open client call's timer is under the attempt's. Both
  count down together, and `StartsInTime` is what makes it true when an attempt begins.
* `KeepsPromise` adds `Undecided`: a call under way has no outcome, and knows an id only
  once its enqueue returned. Each action is then shown to be a step of `MemoryWrite` on
  the accepted posts, or none. `KeepsLoop` needs no more: each action is a step of
  `WriteLoop`, `Tick` its `TimePasses`, and all of activity, server and crashes none.

The inductive invariant of the replay is `IInv == TypeOK /\ Recording /\ Due /\
ReplayFaithful /\ Cache`. `Recording` says of the n-th recorded task that it ran the code
from the locals the task before it left, on an event they were waiting for, and left a
command and locals of the same await, whose deadline counts from the second task.
`Cache` says where a worker stands: at the locals of the last task it consumed, or, having
run the task it holds, at what the code makes of its event *at the time that will be
recorded*. `ReplayFaithful` is inductive only with both. `PollsFew` adds `PaceInv`: when a
poll is issued, a least delay has gone by for every poll before it.

`ReplayImplementsLoop` rests on both. Only `Commit` changes what is `Remembered`, and by
`Cache` what it records is what the code makes of the event, from the locals remembered, at
the time recorded; so each of the code's ways on (`PolledWays`) is one action of `WriteLoop`.
`Due` says that the event is one the loop stands at, `Clocked` (of `PaceInv`) that a timer
which fired is over. A worker that read its own clock would record a step the loop has not.

`DirectCallsProofs` has two layers. `CountInv` counts POSTs: those of the calls that
returned are at most their attempts, those of the call under way at most the attempts it
began, none if its handler refuses it. `SuccessInv` gives each success a POST of its own.
Until a write's answer is received its POST is nobody's work (`Mine`), so a job that
completes after its attempt was abandoned is never taken for a later one's.

`AutoCaptureProofs` rests on `RoomInv`: a run that has room to capture is one Temporal
still awaits, and its room ends before the attempt does; so a run Temporal gave up on has
none. `Sent` counts captures against lost workers: a capture that nothing interrupts ends
the activity, and with it every later one. `ResultsKept` reads off `RoomInv` what a step can
do to a capture under way.

The inductive invariant of the plugin is `IInv == TypeOK /\ Restored /\ WorkerOK /\
HandlerOK`. `WorkerOK` is about a run context under way: its task runs no other
(`UnderWay`), the task's context holds its client while it serves and the token it
will put back is what the task held before (`Owner`, `Holds`), and a client that may
be called has its transport open (`Reachable`). `HandlerOK` ties a handler to its
worker: a worker with handlers is serving or draining, and the context they copied is
the one it serves with. `OwnClient` alone is not inductive, as it does not say that
a worker which closes its client has no handler left. `LeavesNothingOpen` adds `Owned`: an
open transport is of the latest start of a worker under way.

`BoundaryProofs` needs no history of its own: `Crossed` says that the payload, the
keyword arguments and the output, each once it is there, are what the code computes of
what came before it, and the rest is about the operators. `TypeOK` of `Payloads` holds
because every projection reads each attribute with a default. `RequestKept` takes one
lemma for each conversion: `ScopeSaid` for a scope, of any number of objects, and
`ChosenIs` for the options of a write.

Only model-checked: liveness (`Terminates`, `EveryCallReturns`, `CompletionNotMissed`,
`ResultReported`, `StopsClean`, `Completes`), which rests on fairness and on what is
enabled, out of the prover's reach; of two of them the safety half is proved (`ResultsKept`,
`LeavesNothingOpen`). Every invariant, action property and refinement that a
passing run checks is a theorem as well.

No property speaks of three ends the code allows, which `hazards` lists with the reason:
a request-level `MAX_RETRIES_EXCEEDED` that has the type of a failed write, a poll that
fails for good while its job is queued, and a cancellation that costs a captured
activity its result. `CapturesBounded` likewise permits one capture more for each worker
lost. Attempts are always finite, so a `schedule_to_close` is never the only bound
on retries.

## What is not modelled

* Two activities of one workflow at the same time: a handle shares no state between
  calls, so they meet only at the server.
* Logging, messages, summaries and the continue-as-new warning: they decide no step.
* Configuration records and their defaults, but for the constants they become; the
  environment variable of the API key is the Boolean `key`.
* The server's in-progress statuses are one (`"queued"`), and those this release does
  not know are one (`"indexing"`): `_interpret_status` treats them alike.
* A `client_margin_seconds` of zero or less than `Latency`, which gives the client the
  whole deadline.
* A retry the user opts into may write twice whatever the margin; `AtMostOnce` and
  `AtMostOncePerWrite` count per attempt granted.
* crc32: that an activity id falls in the same bucket everywhere is the constant `low`.
* The protocol of the client (`protocol.py`) and the package's exports declare types
  only. Examples, tests, build and CI are used as evidence of intent, not modelled.

## Plan

Done: every component that keeps state or decides a step; the proofs of all its safety
properties; the refinements of `MemoryWrite` and `WriteLoop`. Left: an abstract
specification that captures are invisible to the wrapped activity, which `AutoCapture`
should implement under the hypotheses of `CapturesInTime`; and one of a direct call, which
`DirectCalls` should implement.
