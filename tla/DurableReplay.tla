--------------------------- MODULE DurableReplay ----------------------------
(***************************************************************************)
(* write_durable as Temporal runs it: the locals of the loop live in a     *)
(* worker's cache only, and a worker without them runs the code again from *)
(* the top, on the recorded history, before it goes on.  DurableWrite      *)
(* takes the call's state to survive a worker; this module is why it may.  *)
(*                                                                         *)
(* A clock runs forward with the tasks Temporal hands out; what an         *)
(* activity returns is left open.                                          *)
(***************************************************************************)
EXTENDS PollRules, Sequences, FiniteSets

CONSTANTS
  Waits,       (* the poll_interval, max_poll_interval, max_wait a caller passes *)
  Statuses,    (* what a poll may return                                         *)
  Lasts,       (* how long an activity takes, its retries included               *)
  Lags,        (* how late a timer or a task is taken up                         *)
  MaxCrashes   (* bound: workers lost in the middle of a workflow task           *)

WaitType == [poll_interval: Nat, max_poll_interval: Nat, max_wait: Nat]
ASSUME ReplayAssumption ==
  /\ Waits \subseteq WaitType /\ MaxCrashes \in Nat
  /\ Lasts \subseteq Nat \ {0} /\ Lags \subseteq Nat

VARIABLES
  args,      (* the arguments of this call                                      *)
  history,   (* the completed workflow tasks: the event that woke the call, the *)
             (* workflow.now() it saw, the command it issued; `locals` is what  *)
             (* its locals were then, kept to state the properties              *)
  clock,     (* Temporal's time                                                 *)
  task,      (* the workflow task that is due, and whether a worker took it     *)
  local,     (* a worker's cache: how much of the history it has consumed, the  *)
             (* locals, the last command                                        *)
  crashes

vars == <<args, history, clock, task, local, crashes>>

Event(kind, status) == [kind |-> kind, status |-> status]
Command(do, delay, type) == [do |-> do, delay |-> delay, type |-> type]
Issue(do) == Command(do, 0, "")
Awaited == {"write_start", "write_status", "sleep"}

NoTask == [due |-> FALSE, taken |-> FALSE, event |-> Event("none", "")]
NewLocals == [pc |-> "new", delay |-> 0, deadline |-> 0]
NoCache == [consumed |-> 0, locals |-> NewLocals, command |-> Issue("none")]

Init ==
  /\ args \in Waits
  /\ history = << >> /\ clock = 0 /\ crashes = 0
  /\ task = [NoTask EXCEPT !.due = TRUE, !.event = Event("called", "")]
  /\ local = NoCache

(***************************************************************************)
(* The code of write_durable from one await to the next.                   *)
(***************************************************************************)
Awaits(l, pc, command) == [locals |-> [l EXCEPT !.pc = pc], command |-> command]
Ends(l, do, type) == Awaits(l, "done", Command(do, 0, type))

\* Mutant: the deadline moves with every poll.
Woken_MovesDeadline(l, now) ==
  Awaits([l EXCEPT !.delay = Shorter(Grown(@), args.max_poll_interval),
                   !.deadline = now + args.max_wait], "polling", Issue("write_status"))

\* `delay = min(delay * 1.5, cap)` and the next poll.
Woken(l, now) ==
  Awaits([l EXCEPT !.delay = Shorter(Grown(@), args.max_poll_interval)],
         "polling", Issue("write_status"))

\* `delay`, `cap`, `deadline` and the first poll.
Enqueued(l, now) ==
  Awaits([l EXCEPT !.delay = args.poll_interval, !.deadline = now + args.max_wait],
         "polling", Issue("write_status"))

\* Mutant: the sleep may end at the deadline.
NoRoom_AtDeadline(l, now) == now + l.delay > l.deadline

NoRoom(l, now) == now + l.delay >= l.deadline

Polled(l, status, now) ==
  CASE Interpreted(status) = "completed" -> Ends(l, "return", "completed")
    [] Interpreted(status) \notin {"", "completed"} -> Ends(l, "raise", Interpreted(status))
    [] Interpreted(status) = "" /\ NoRoom(l, now) -> Ends(l, "raise", "XmemoryWriteTimeout")
    [] OTHER -> Awaits(l, "sleeping", Command("sleep", l.delay, ""))

\* Whichever await it stands at: an ActivityError and a cancellation go up.
Resume(l, event, now) ==
  CASE event.kind \in {"raised", "cancelled"} -> Ends(l, "raise", event.kind)
    [] event.kind = "called"   -> Awaits(l, "starting", Issue("write_start"))
    [] event.kind = "fired"    -> Woken(l, now)
    [] event.kind = "returned" ->
         IF l.pc = "starting" THEN Enqueued(l, now) ELSE Polled(l, event.status, now)

(***************************************************************************)
(* Workers.                                                                *)
(***************************************************************************)
Cached(result) ==
  [consumed |-> local.consumed + 1, locals |-> result.locals, command |-> result.command]

Recorded == history[local.consumed + 1]

\* Mutant: the code reads the clock of the machine.
Replayed_WallClock == Resume(local.locals, Recorded.event, clock)

\* Mutant: the comparison with the deadline does.
Replayed_WallClockCheck ==
  Resume(local.locals, Recorded.event, IF local.locals.pc = "polling" THEN clock ELSE Recorded.now)

\* workflow.now() is the time of the recorded task.
Replayed == Resume(local.locals, Recorded.event, Recorded.now)

\* The SDK fails the task when the code issues another command than recorded.
Replay ==
  /\ task.taken /\ local.consumed < Len(history)
  /\ Replayed.command = Recorded.command
  /\ local' = Cached(Replayed)
  /\ UNCHANGED <<args, history, clock, task, crashes>>

\* Mutant: a worker without the locals takes the task for a new call.
Execute_Unreplayed ==
  /\ task.taken /\ local.consumed <= Len(history)
  /\ local' = [Cached(Resume(local.locals, IF local.consumed = 0 THEN Event("called", "")
                                           ELSE task.event, clock))
                 EXCEPT !.consumed = Len(history) + 1]
  /\ UNCHANGED <<args, history, clock, task, crashes>>

Execute ==
  /\ task.taken /\ local.consumed = Len(history)
  /\ local' = Cached(Resume(local.locals, task.event, clock))
  /\ UNCHANGED <<args, history, clock, task, crashes>>

\* The task completes: only now does Temporal know the command.
Commit ==
  /\ task.taken /\ local.consumed = Len(history) + 1
  /\ history' = Append(history, [event |-> task.event, now |-> clock, command |-> local.command,
                                 locals |-> local.locals])
  /\ task' = NoTask
  /\ UNCHANGED <<args, clock, local, crashes>>

\* The worker dies in a task, which is handed out again; what it did is lost.
Crash ==
  /\ task.taken /\ crashes < MaxCrashes
  /\ crashes' = crashes + 1 /\ local' = NoCache /\ task' = [task EXCEPT !.taken = FALSE]
  /\ UNCHANGED <<args, history, clock>>

\* Between tasks a cache may go at any time: eviction, redeployment, max_cached_workflows=0.
Evict ==
  /\ ~task.taken /\ local # NoCache /\ local' = NoCache
  /\ UNCHANGED <<args, history, clock, task, crashes>>

(***************************************************************************)
(* Temporal.                                                               *)
(***************************************************************************)
Issued == history[Len(history)].command
Waiting == ~task.due /\ history # << >> /\ Issued.do \in Awaited

Wakes(event, after) ==
  /\ task' = [due |-> TRUE, taken |-> FALSE, event |-> event]
  /\ clock' = clock + after
  /\ UNCHANGED <<args, history, local, crashes>>

ActivityEnds ==
  /\ Waiting /\ Issued.do # "sleep"
  /\ \E last \in Lasts :
       \/ Wakes(Event("raised", ""), last)
       \/ \E status \in (IF Issued.do = "write_start" THEN {""} ELSE Statuses) :
            Wakes(Event("returned", status), last)

TimerFires ==
  /\ Waiting /\ Issued.do = "sleep"
  /\ \E lag \in Lags : Wakes(Event("fired", ""), Issued.delay + lag)

\* The caller's workflow, or the scope the call runs in, is cancelled.
CancelRequested == Waiting /\ Wakes(Event("cancelled", ""), 0)

Take ==
  /\ task.due /\ ~task.taken
  /\ task' = [task EXCEPT !.taken = TRUE]
  /\ \E lag \in Lags : clock' = clock + lag
  /\ UNCHANGED <<args, history, local, crashes>>

Done == ~task.due /\ ~Waiting
Ended == Done /\ UNCHANGED vars

Next == \/ Replay \/ Execute \/ Commit \/ Crash \/ Evict
        \/ ActivityEnds \/ TimerFires \/ CancelRequested \/ Take \/ Ended

\* Activities end (DurableWrite!Terminates), timers fire, tasks find a worker.
Fairness ==
  /\ WF_vars(ActivityEnds) /\ WF_vars(TimerFires) /\ WF_vars(Take)
  /\ WF_vars(Replay) /\ WF_vars(Execute) /\ WF_vars(Commit)

Spec == Init /\ [][Next]_vars /\ Fairness

(***************************************************************************)
(* Types of the history and of a worker's cache.                           *)
(***************************************************************************)
EventType ==
  [kind: {"none", "called", "returned", "raised", "fired", "cancelled"}, status: Statuses \cup {""}]
CommandType ==
  [do: {"none", "return", "raise"} \cup Awaited,
   delay: Nat,
   type: {"", "raised", "cancelled", "completed", "XmemoryWriteFailed", "XmemoryWriteNotFound",
          "XmemoryWriteTimeout"}]
LocalsType ==
  [pc: {"new", "starting", "polling", "sleeping", "done"}, delay: Nat, deadline: Nat]
TypeOK ==
  /\ args \in Waits /\ clock \in Nat /\ crashes \in 0..MaxCrashes
  /\ history \in Seq([event: EventType, now: Nat, command: CommandType, locals: LocalsType])
  /\ task \in [due: BOOLEAN, taken: BOOLEAN, event: EventType]
  /\ local \in [consumed: 0..Len(history) + 1, locals: LocalsType, command: CommandType]

(***************************************************************************)
(* Replay is exact: a worker that has consumed n recorded tasks has the    *)
(* locals of the worker that ran the n-th, its delay and its deadline      *)
(* included, and has issued the same command, whatever the time is now.    *)
(***************************************************************************)
ReplayFaithful ==
  local.consumed \in DOMAIN history =>
    /\ local.locals = history[local.consumed].locals
    /\ local.command = history[local.consumed].command

(***************************************************************************)
(* Replay never issues an operation again: over all crashes and evictions  *)
(* Temporal is told to enqueue the write once.                             *)
(***************************************************************************)
EnqueuedOnce ==
  Cardinality({n \in DOMAIN history : history[n].command.do = "write_start"}) <= 1

(***************************************************************************)
(* max_wait counts from the moment the enqueue was known, on whichever     *)
(* worker: no sleep is begun that would end at or after that deadline.     *)
(***************************************************************************)
SleepsWithinMaxWait ==
  \A n \in DOMAIN history : history[n].command.do = "sleep" =>
    history[n].now + history[n].command.delay < history[2].now + args.max_wait

(***************************************************************************)
(* The history the loop adds is bounded by its arguments, however often    *)
(* workers are lost: with no delay of zero there are at most               *)
(* max_wait / delay polls after the first.                                 *)
(***************************************************************************)
Polls == Cardinality({n \in DOMAIN history : history[n].command.do = "write_status"})
PollsBounded ==
  Polls > 1 => (Polls - 1) * Shorter(args.poll_interval, args.max_poll_interval) < args.max_wait

(***************************************************************************)
(* The call completes although its cache is evicted between any two tasks  *)
(* and workers die inside tasks: no replay gets stuck on another command.  *)
(***************************************************************************)
Completes == <>Done

(***************************************************************************)
(* write_durable, its worker lost in a task or its cache between two,      *)
(* implements WriteLoop, whose locals nothing can lose: they are those the *)
(* last completed task left, and their deadline and the timer count from   *)
(* the times of the tasks that set them.                                   *)
(***************************************************************************)
Until(time) == IF clock < time THEN time - clock ELSE 0
Remembered == IF history = << >> THEN NewLocals ELSE history[Len(history)].locals
LoopLeft == Until(Remembered.deadline)
LoopTimer ==
  IF Remembered.pc = "sleeping" THEN Until(history[Len(history)].now + Remembered.delay) ELSE 0
LoopOutcome == IF Remembered.pc = "done" THEN Issued.type ELSE ""

Loop == INSTANCE WriteLoop WITH
  pc      <- Remembered.pc,
  delay   <- Remembered.delay,
  left    <- LoopLeft,
  timer   <- LoopTimer,
  outcome <- LoopOutcome
ImplementsWriteLoop == Loop!Spec
============================================================================
