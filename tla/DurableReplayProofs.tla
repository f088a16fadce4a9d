------------------------ MODULE DurableReplayProofs ------------------------
(***************************************************************************)
(* The replay of write_durable, for all arguments, all statuses, activities*)
(* of any length, timers and tasks of any lateness, and any number of      *)
(* evictions and of workers lost in a task.                                *)
(***************************************************************************)
EXTENDS DurableReplay, FiniteSetTheorems, TLAPS

Record == [event: EventType, now: Nat, command: CommandType, locals: LocalsType]
ResultRecord == [locals: LocalsType, command: CommandType]
TaskRecord == [due: BOOLEAN, taken: BOOLEAN, event: EventType]

(***************************************************************************)
(* Types.                                                                  *)
(***************************************************************************)
LEMMA WaitTyped ==
  ASSUME args \in Waits
  PROVE  /\ args.poll_interval \in Nat /\ args.max_poll_interval \in Nat
         /\ args.max_wait \in Nat
BY ReplayAssumption DEF WaitType

LEMMA GrownTyped ==
  ASSUME NEW d \in Nat
  PROVE  Grown(d) \in Nat /\ Grown(d) >= d
BY DEF Grown

LEMMA ShorterTyped ==
  ASSUME NEW a \in Nat, NEW b \in Nat
  PROVE  /\ Shorter(a, b) \in Nat /\ Shorter(a, b) <= a /\ Shorter(a, b) <= b
         /\ Shorter(a, b) \in {a, b}
BY DEF Shorter

LEMMA CommandsTyped ==
  /\ Issue("none") \in CommandType /\ Issue("write_start") \in CommandType
  /\ Issue("write_status") \in CommandType
  /\ \A d \in Nat : Command("sleep", d, "") \in CommandType
  /\ \A do \in {"return", "raise"} : \A type \in
       {"raised", "cancelled", "completed", "XmemoryWriteFailed", "XmemoryWriteNotFound",
        "XmemoryWriteTimeout"} : Command(do, 0, type) \in CommandType
BY DEF Issue, Command, CommandType, Awaited

LEMMA CommandFields ==
  ASSUME NEW do, NEW delay, NEW type
  PROVE  /\ Command(do, delay, type).do = do /\ Command(do, delay, type).delay = delay
         /\ Issue(do).do = do
BY DEF Issue, Command

LEMMA InterpretedTyped ==
  ASSUME NEW status
  PROVE  Interpreted(status) \in {"completed", "XmemoryWriteFailed", "XmemoryWriteNotFound", ""}
BY DEF Interpreted

(***************************************************************************)
(* What the four ways on from an await look like.                          *)
(***************************************************************************)
LEMMA AwaitsIs ==
  ASSUME NEW l \in LocalsType, NEW command,
         NEW pc \in {"new", "starting", "polling", "sleeping", "done"}
  PROVE  /\ Awaits(l, pc, command).locals \in LocalsType
         /\ Awaits(l, pc, command).locals.pc = pc
         /\ Awaits(l, pc, command).locals.delay = l.delay
         /\ Awaits(l, pc, command).locals.deadline = l.deadline
         /\ Awaits(l, pc, command).command = command
<1> DEFINE m == [l EXCEPT !.pc = pc]
<1>1. m \in LocalsType /\ m.pc = pc /\ m.delay = l.delay /\ m.deadline = l.deadline
  BY DEF LocalsType
<1> HIDE DEF m
<1>2. Awaits(l, pc, command) = [locals |-> m, command |-> command]
  BY DEF Awaits, m
<1> QED
  BY <1>1, <1>2

LEMMA WokenIs ==
  ASSUME args \in Waits, NEW l \in LocalsType, NEW now \in Nat
  PROVE  /\ Woken(l, now).locals \in LocalsType
         /\ Woken(l, now).command = Issue("write_status")
         /\ Woken(l, now).locals.pc = "polling"
         /\ Woken(l, now).locals.deadline = l.deadline
         /\ Woken(l, now).locals.delay = Shorter(Grown(l.delay), args.max_poll_interval)
<1> DEFINE d == Shorter(Grown(l.delay), args.max_poll_interval)
           m == [l EXCEPT !.delay = d]
<1>1. l.delay \in Nat
  BY DEF LocalsType
<1>2. d \in Nat
  BY <1>1, WaitTyped, GrownTyped, ShorterTyped
<1>3. Woken(l, now) = Awaits(m, "polling", Issue("write_status"))
  BY DEF Woken
<1> HIDE DEF d
<1>4. m \in LocalsType /\ m.delay = d /\ m.deadline = l.deadline
  BY <1>2 DEF LocalsType
<1> HIDE DEF m
<1>5. /\ Woken(l, now).locals \in LocalsType
      /\ Woken(l, now).command = Issue("write_status")
      /\ Woken(l, now).locals.pc = "polling"
      /\ Woken(l, now).locals.deadline = l.deadline
      /\ Woken(l, now).locals.delay = d
  BY <1>3, <1>4, AwaitsIs
<1> QED
  BY <1>5 DEF d

LEMMA EnqueuedIs ==
  ASSUME args \in Waits, NEW l \in LocalsType, NEW now \in Nat
  PROVE  /\ Enqueued(l, now).locals \in LocalsType
         /\ Enqueued(l, now).command = Issue("write_status")
         /\ Enqueued(l, now).locals.pc = "polling"
         /\ Enqueued(l, now).locals.deadline = now + args.max_wait
         /\ Enqueued(l, now).locals.delay = args.poll_interval
<1> DEFINE d == args.poll_interval
           e == now + args.max_wait
           m == [l EXCEPT !.delay = d, !.deadline = e]
<1>1. d \in Nat /\ e \in Nat
  BY WaitTyped
<1>2. Enqueued(l, now) = Awaits(m, "polling", Issue("write_status"))
  BY DEF Enqueued
<1> HIDE DEF d, e
<1>3. m \in LocalsType /\ m.delay = d /\ m.deadline = e
  BY <1>1 DEF LocalsType
<1> HIDE DEF m
<1>4. /\ Enqueued(l, now).locals \in LocalsType
      /\ Enqueued(l, now).command = Issue("write_status")
      /\ Enqueued(l, now).locals.pc = "polling"
      /\ Enqueued(l, now).locals.deadline = e
      /\ Enqueued(l, now).locals.delay = d
  BY <1>2, <1>3, AwaitsIs
<1> QED
  BY <1>4 DEF d, e

Ending(r) ==
  /\ r.locals \in LocalsType /\ r.locals.pc = "done"
  /\ r.command \in CommandType /\ r.command.do \in {"return", "raise"}

LEMMA EndsIs ==
  ASSUME NEW l \in LocalsType, NEW do \in {"return", "raise"},
         NEW type \in {"raised", "cancelled", "completed", "XmemoryWriteFailed",
                       "XmemoryWriteNotFound", "XmemoryWriteTimeout"}
  PROVE  Ending(Ends(l, do, type))
<1>1. Command(do, 0, type) \in CommandType /\ Command(do, 0, type).do = do
  BY CommandsTyped DEF Command
<1> QED
  BY <1>1, AwaitsIs DEF Ends, Ending

Sleeping(r, l, now) ==
  /\ r.locals \in LocalsType /\ r.locals.pc = "sleeping"
  /\ r.locals.delay = l.delay /\ r.locals.deadline = l.deadline
  /\ r.command = Command("sleep", l.delay, "") /\ now + l.delay < l.deadline

LEMMA PolledIs ==
  ASSUME NEW l \in LocalsType, NEW status, NEW now \in Nat
  PROVE  Ending(Polled(l, status, now)) \/ Sleeping(Polled(l, status, now), l, now)
<1> DEFINE i == Interpreted(status)
<1>1. i \in {"completed", "XmemoryWriteFailed", "XmemoryWriteNotFound", ""}
  BY InterpretedTyped
<1>2. CASE i = "completed"
  BY <1>2, EndsIs DEF Polled
<1>3. CASE i \in {"XmemoryWriteFailed", "XmemoryWriteNotFound"}
  <2>1. Polled(l, status, now) = Ends(l, "raise", i)
    BY <1>3 DEF Polled
  <2> QED
    BY <1>3, <2>1, EndsIs
<1>4. CASE i = "" /\ NoRoom(l, now)
  <2>1. Polled(l, status, now) = Ends(l, "raise", "XmemoryWriteTimeout")
    BY <1>4, Zenon DEF Polled
  <2> QED
    BY <2>1, EndsIs
<1>5. CASE i = "" /\ ~NoRoom(l, now)
  <2>1. Polled(l, status, now) = Awaits(l, "sleeping", Command("sleep", l.delay, ""))
    BY <1>5, Zenon DEF Polled
  <2>2. l.delay \in Nat /\ l.deadline \in Nat
    BY DEF LocalsType
  <2>3. ~NoRoom(l, now)
    BY <1>5
  <2>4. now + l.delay < l.deadline
    BY <2>2, <2>3 DEF NoRoom
  <2> DEFINE c == Command("sleep", l.delay, "")
             r == Awaits(l, "sleeping", c)
  <2>5. Sleeping(r, l, now)
    <3>1. /\ r.locals \in LocalsType /\ r.locals.pc = "sleeping"
          /\ r.locals.delay = l.delay /\ r.locals.deadline = l.deadline
          /\ r.command = c
      <4> HIDE DEF c
      <4> QED
        BY AwaitsIs
    <3> QED
      BY <2>4, <3>1 DEF Sleeping
  <2> QED
    BY <2>1, <2>5
<1> QED
  BY <1>1, <1>2, <1>3, <1>4, <1>5

(***************************************************************************)
(* The inductive invariant.  The n-th completed task ran the code from the *)
(* locals the task before it left (Exact), on an event those locals were   *)
(* waiting for (Sensible), and left locals and a command of the same await *)
(* (Shape); the deadline in them counts from the second task.              *)
(***************************************************************************)
Before(n) == IF n = 1 THEN NewLocals ELSE history[n - 1].locals
Result(n, event, now) == Resume(Before(n), event, now)

Sensible(n, event) ==
  /\ event.kind # "none"
  /\ event.kind = "called" <=> n = 1
  /\ event.kind = "fired" => Before(n).pc = "sleeping"
  /\ event.kind \in {"returned", "raised"} => Before(n).pc \in {"starting", "polling"}
  /\ event.kind = "cancelled" => Before(n).pc \in {"starting", "polling", "sleeping"}

Least == Shorter(args.poll_interval, args.max_poll_interval)
FirstPoll(n, now) == IF n = 2 THEN now ELSE history[2].now

Tied(l, c) ==
  /\ l.pc # "new"
  /\ l.pc = "starting" <=> c.do = "write_start"
  /\ l.pc = "polling" <=> c.do = "write_status"
  /\ l.pc = "sleeping" <=> c.do = "sleep"

Shape(n, l, c, now) ==
  /\ Tied(l, c)
  /\ l.pc = "starting" <=> n = 1
  /\ l.pc \in {"polling", "sleeping"} =>
       l.delay >= Least /\ l.deadline = FirstPoll(n, now) + args.max_wait
  /\ l.pc = "sleeping" => n > 2 /\ c.delay = l.delay /\ now + l.delay < l.deadline

Told(n) ==
  LET h == history[n]
  IN  /\ Sensible(n, h.event) /\ Shape(n, h.locals, h.command, h.now)
      /\ h.locals = Result(n, h.event, h.now).locals
      /\ h.command = Result(n, h.event, h.now).command

Latest == Len(history)
Due ==
  /\ task.taken => task.due
  /\ task.due => Sensible(Latest + 1, task.event)
  /\ ~task.due => Latest > 0

Cache ==
  /\ local.consumed = 0 => local.locals = NewLocals
  /\ local.consumed = Latest + 1 =>
       /\ task.taken
       /\ local.locals = Result(Latest + 1, task.event, clock).locals
       /\ local.command = Result(Latest + 1, task.event, clock).command

Recording == \A n \in DOMAIN history : Told(n)
IInv == TypeOK /\ Recording /\ Due /\ ReplayFaithful /\ Cache

LEMMA StateTyped ==
  ASSUME TypeOK
  PROVE  /\ args \in Waits /\ clock \in Nat /\ history \in Seq(Record)
         /\ task \in TaskRecord /\ local.consumed \in 0..Latest + 1
         /\ local.locals \in LocalsType /\ local.command \in CommandType
         /\ Latest \in Nat /\ DOMAIN history = 1..Latest
         /\ \A n \in 1..Latest : history[n] \in Record
         /\ \A n \in 1..Latest : /\ history[n].event \in EventType /\ history[n].now \in Nat
                                 /\ history[n].command \in CommandType
                                 /\ history[n].locals \in LocalsType
<1>1. history \in Seq(Record) /\ task \in TaskRecord
  BY DEF TypeOK, Record, TaskRecord
<1>2. \A n \in 1..Len(history) : history[n] \in Record
  BY <1>1
<1> QED
  BY <1>1, <1>2 DEF TypeOK, Latest, Record

LEMMA BeforeTyped ==
  ASSUME TypeOK, NEW n \in 1..(Latest + 1)
  PROVE  Before(n) \in LocalsType
<1>1. NewLocals \in LocalsType
  BY DEF NewLocals, LocalsType
<1>2. CASE n = 1
  BY <1>1, <1>2 DEF Before
<1>3. CASE n # 1
  <2>1. n - 1 \in 1..Latest
    BY <1>3, StateTyped
  <2> QED
    BY <1>3, <2>1, StateTyped DEF Before
<1> QED
  BY <1>2, <1>3

(***************************************************************************)
(* One run of the code from an await to the next.                          *)
(***************************************************************************)
LEMMA EndingShaped ==
  ASSUME NEW n \in Nat, n # 1, NEW r, Ending(r), NEW now \in Nat
  PROVE  r.locals \in LocalsType /\ r.command \in CommandType
         /\ Shape(n, r.locals, r.command, now)
BY DEF Ending, Shape, Tied

LEMMA ResultShaped ==
  ASSUME TypeOK, Recording, NEW n \in 1..(Latest + 1), NEW event \in EventType,
         Sensible(n, event), NEW now \in Nat
  PROVE  /\ Result(n, event, now).locals \in LocalsType
         /\ Result(n, event, now).command \in CommandType
         /\ Shape(n, Result(n, event, now).locals, Result(n, event, now).command, now)
<1> DEFINE l == Before(n)
           r == Result(n, event, now)
<1>1. l \in LocalsType /\ args \in Waits /\ Latest \in Nat /\ l.delay \in Nat /\ l.deadline \in Nat
  BY BeforeTyped, StateTyped DEF LocalsType
<1>2. ASSUME n # 1
      PROVE  /\ n - 1 \in 1..Latest /\ l = history[n - 1].locals
             /\ Shape(n - 1, l, history[n - 1].command, history[n - 1].now)
  <2>1. n - 1 \in 1..Latest
    BY <1>1, <1>2
  <2>2. Told(n - 1)
    BY <2>1, StateTyped DEF Recording
  <2> QED
    BY <1>2, <2>1, <2>2 DEF Told, Before
<1>3. event.kind \in {"called", "returned", "raised", "fired", "cancelled"}
  BY DEF EventType, Sensible
<1>4. CASE event.kind \in {"raised", "cancelled"}
  <2>1. r = Ends(l, "raise", event.kind)
    BY <1>4 DEF Result, Resume
  <2>2. n # 1
    BY <1>4 DEF Sensible
  <2>3. Ending(r)
    BY <1>1, <1>4, <2>1, EndsIs
  <2> HIDE DEF r
  <2>4. r.locals \in LocalsType /\ r.command \in CommandType
        /\ Shape(n, r.locals, r.command, now)
    BY <2>2, <2>3, EndingShaped
  <2> QED
    BY <2>4 DEF r
<1>5. CASE event.kind = "called"
  <2>1. r = Awaits(l, "starting", Issue("write_start"))
    BY <1>5 DEF Result, Resume
  <2>2. n = 1
    BY <1>5 DEF Sensible
  <2>3. /\ r.locals \in LocalsType /\ r.locals.pc = "starting"
        /\ r.command = Issue("write_start")
    BY <1>1, <2>1, AwaitsIs
  <2>4. r.command \in CommandType /\ r.command.do = "write_start"
    BY <2>3, CommandsTyped, CommandFields
  <2> HIDE DEF r
  <2>5. Shape(n, r.locals, r.command, now)
    BY <2>2, <2>3, <2>4 DEF Shape, Tied
  <2> QED
    BY <2>3, <2>4, <2>5 DEF r
<1>6. CASE event.kind = "fired"
  <2>1. r = Woken(l, now)
    BY <1>6 DEF Result, Resume
  <2>2. n # 1 /\ l.pc = "sleeping"
    BY <1>6 DEF Sensible
  <2>3. /\ l.delay >= Least /\ l.deadline = FirstPoll(n - 1, history[n - 1].now) + args.max_wait
        /\ n > 3
    BY <1>2, <2>2 DEF Shape
  <2>4. /\ r.locals \in LocalsType /\ r.command = Issue("write_status")
        /\ r.locals.pc = "polling" /\ r.locals.deadline = l.deadline
        /\ r.locals.delay = Shorter(Grown(l.delay), args.max_poll_interval)
    BY <1>1, <2>1, WokenIs
  <2>5. r.command \in CommandType /\ r.command.do = "write_status"
    BY <2>4, CommandsTyped, CommandFields
  <2>6. r.locals.delay >= Least
    <3>1. Grown(l.delay) \in Nat /\ Grown(l.delay) >= l.delay
      BY <1>1, GrownTyped
    <3>2. /\ args.poll_interval \in Nat /\ args.max_poll_interval \in Nat
          /\ Least \in Nat /\ Least <= args.max_poll_interval
      BY <1>1, WaitTyped, ShorterTyped DEF Least
    <3>3. Grown(l.delay) >= Least
      BY <1>1, <2>3, <3>1, <3>2
    <3>4. r.locals.delay \in {Grown(l.delay), args.max_poll_interval}
      BY <2>4, <3>1, <3>2, ShorterTyped
    <3> HIDE DEF r, Least
    <3> QED
      BY <3>1, <3>2, <3>3, <3>4
  <2>7. r.locals.deadline = FirstPoll(n, now) + args.max_wait
    BY <2>3, <2>4 DEF FirstPoll
  <2> HIDE DEF r
  <2>8. Shape(n, r.locals, r.command, now)
    BY <2>2, <2>4, <2>5, <2>6, <2>7 DEF Shape, Tied
  <2> QED
    BY <2>4, <2>5, <2>8 DEF r
<1>7. CASE event.kind = "returned" /\ l.pc = "starting"
  <2>1. r = Enqueued(l, now)
    BY <1>7 DEF Result, Resume
  <2>2. n # 1
    BY <1>7 DEF Sensible
  <2>3. n = 2
    BY <1>2, <1>7, <2>2 DEF Shape
  <2>4. /\ r.locals \in LocalsType /\ r.command = Issue("write_status")
        /\ r.locals.pc = "polling" /\ r.locals.deadline = now + args.max_wait
        /\ r.locals.delay = args.poll_interval
    BY <1>1, <2>1, EnqueuedIs
  <2>5. r.command \in CommandType /\ r.command.do = "write_status"
    BY <2>4, CommandsTyped, CommandFields
  <2>6. r.locals.delay >= Least
    BY <1>1, <2>4, WaitTyped, ShorterTyped DEF Least
  <2> HIDE DEF r
  <2>7. Shape(n, r.locals, r.command, now)
    BY <2>3, <2>4, <2>5, <2>6 DEF Shape, Tied, FirstPoll
  <2> QED
    BY <2>4, <2>5, <2>7 DEF r
<1>8. CASE event.kind = "returned" /\ l.pc # "starting"
  <2>1. r = Polled(l, event.status, now)
    BY <1>8 DEF Result, Resume
  <2>2. n # 1 /\ l.pc = "polling"
    BY <1>8 DEF Sensible
  <2>3. /\ l.delay >= Least /\ l.deadline = FirstPoll(n - 1, history[n - 1].now) + args.max_wait
        /\ n > 2
    BY <1>2, <2>2 DEF Shape
  <2>4. Ending(r) \/ Sleeping(r, l, now)
    BY <1>1, <2>1, PolledIs
  <2>5. l.deadline = FirstPoll(n, now) + args.max_wait
    BY <2>3 DEF FirstPoll
  <2> HIDE DEF r
  <2>6. CASE Ending(r)
    BY <2>2, <2>6, EndingShaped DEF r
  <2>7. CASE Sleeping(r, l, now)
    <3>1. /\ r.locals \in LocalsType /\ r.locals.pc = "sleeping"
          /\ r.locals.delay = l.delay /\ r.locals.deadline = l.deadline
          /\ r.command = Command("sleep", l.delay, "") /\ now + l.delay < l.deadline
      BY <2>7 DEF Sleeping
    <3>2. r.command \in CommandType
      BY <1>1, <3>1, CommandsTyped
    <3>3. r.command.do = "sleep" /\ r.command.delay = l.delay
      <4> DEFINE c == Command("sleep", l.delay, "")
      <4>1. c.do = "sleep" /\ c.delay = l.delay
        BY DEF Command
      <4>2. r.command = c
        BY <3>1
      <4> HIDE DEF c
      <4> QED
        BY <4>1, <4>2
    <3>4. Shape(n, r.locals, r.command, now)
      BY <2>2, <2>3, <2>5, <3>1, <3>3 DEF Shape, Tied
    <3> QED
      BY <3>1, <3>2, <3>4 DEF r
  <2> QED
    BY <2>4, <2>6, <2>7
<1> QED
  BY <1>3, <1>4, <1>5, <1>6, <1>7, <1>8

(***************************************************************************)
(* What a later state says of the same task.                               *)
(***************************************************************************)
LEMMA ResultKept ==
  ASSUME args' = args, NEW n, Before(n)' = Before(n), NEW event, NEW now
  PROVE  Result(n, event, now)' = Result(n, event, now)
BY DEF Result, Resume, Woken, Enqueued, Polled, Ends, Awaits, NoRoom, Shorter

LEMMA SensibleKept ==
  ASSUME NEW n, Before(n)' = Before(n), NEW event, Sensible(n, event)
  PROVE  Sensible(n, event)'
BY DEF Sensible

LEMMA ToldKept ==
  ASSUME args' = args, NEW n \in Nat \ {0}, history'[n] = history[n],
         n > 1 => history'[n - 1] = history[n - 1], n > 2 => history'[2] = history[2], Told(n)
  PROVE  Told(n)'
<1>1. Before(n)' = Before(n)
  BY DEF Before
<1>2. /\ n # 1 => FirstPoll(n, history[n].now)' = FirstPoll(n, history[n].now)
      /\ Least' = Least
  BY DEF FirstPoll, Least
<1>3. Result(n, history[n].event, history[n].now)' = Result(n, history[n].event, history[n].now)
  BY <1>1 DEF Result, Resume, Woken, Enqueued, Polled, Ends, Awaits, NoRoom, Shorter
<1>4. Sensible(n, history[n].event)'
  BY <1>1 DEF Told, Sensible
<1>5. Shape(n, history[n].locals, history[n].command, history[n].now)'
  BY <1>2 DEF Told, Shape, Tied
<1> QED
  BY <1>3, <1>4, <1>5 DEF Told

LEMMA RecordingKept ==
  ASSUME TypeOK, Recording, args' = args, history' = history
  PROVE  /\ Recording'
         /\ \A n \in 1..(Latest + 1) : Before(n)' = Before(n)
<1>1. ASSUME NEW n \in DOMAIN history PROVE Told(n)'
  <2>1. n \in Nat \ {0} /\ Told(n)
    BY <1>1, StateTyped DEF Recording
  <2> QED
    BY <2>1, ToldKept
<1>2. \A n \in 1..(Latest + 1) : Before(n)' = Before(n)
  BY DEF Before
<1> QED
  BY <1>1, <1>2 DEF Recording

(***************************************************************************)
(* The invariant holds at the start and through every step.                *)
(***************************************************************************)
LEMMA InitInvariant == Init => IInv
<1> SUFFICES ASSUME Init PROVE IInv
  OBVIOUS
<1>1. /\ history = << >> /\ Latest = 0 /\ local = NoCache /\ task.due /\ ~task.taken
      /\ task \in TaskRecord
  BY DEF Init, NoTask, Latest, TaskRecord, EventType, Event
<1>2. TypeOK
  <2>1. Issue("none") \in CommandType /\ NewLocals \in LocalsType /\ MaxCrashes \in Nat
    BY CommandsTyped, ReplayAssumption DEF NewLocals, LocalsType
  <2>2. local.consumed = 0 /\ local \in [consumed: 0..Latest + 1, locals: LocalsType, command: CommandType]
    BY <1>1, <2>1 DEF NoCache
  <2> QED
    BY <1>1, <2>1, <2>2 DEF Init, TypeOK, TaskRecord, Latest
<1>3. Recording /\ ReplayFaithful
  BY <1>1 DEF Recording, ReplayFaithful
<1>4. Due
  <2>1. Event("called", "").kind = "called"
    BY DEF Event
  <2>2. task.event = Event("called", "")
    BY DEF Init, NoTask
  <2>3. task.event.kind = "called"
    BY <2>1, <2>2, Zenon
  <2> QED
    BY <1>1, <2>3 DEF Due, Sensible
<1>5. Cache
  BY <1>1 DEF Cache, NoCache
<1> QED
  BY <1>2, <1>3, <1>4, <1>5 DEF IInv

\* A worker that has consumed n tasks stands where the next one begins.
LEMMA ConsumedBefore ==
  ASSUME IInv, local.consumed <= Latest
  PROVE  local.locals = Before(local.consumed + 1)
<1>1. local.consumed \in Nat /\ Latest \in Nat /\ DOMAIN history = 1..Latest
  BY StateTyped DEF IInv
<1>2. CASE local.consumed = 0
  BY <1>2 DEF IInv, Cache, Before
<1>3. CASE local.consumed # 0
  <2>1. local.consumed \in DOMAIN history
    BY <1>1, <1>3
  <2>2. local.consumed + 1 # 1 /\ (local.consumed + 1) - 1 = local.consumed
    BY <1>1, <1>3
  <2> QED
    BY <2>1, <2>2 DEF IInv, ReplayFaithful, Before
<1> QED
  BY <1>2, <1>3

LEMMA ReplayKeepsIInv == IInv /\ Replay => IInv'
<1> SUFFICES ASSUME IInv, Replay PROVE IInv'
  OBVIOUS
<1> DEFINE n == local.consumed + 1
<1>1. /\ args' = args /\ history' = history /\ task' = task /\ clock' = clock
      /\ crashes' = crashes /\ local.consumed < Latest /\ local' = Cached(Replayed)
  BY DEF Replay, Latest
<1>2. n \in DOMAIN history /\ n <= Latest /\ n # 0 /\ Latest \in Nat
  BY <1>1, StateTyped DEF IInv
<1>3. Told(n)
  BY <1>2 DEF IInv, Recording
<1>4. Replayed = Result(n, history[n].event, history[n].now)
  BY <1>1, <1>2, ConsumedBefore, StateTyped DEF IInv, Replayed, Recorded, Result
<1>5. local' = [consumed |-> n, locals |-> history[n].locals, command |-> history[n].command]
  BY <1>1, <1>3, <1>4 DEF Cached, Told
<1>6. TypeOK'
  <2>1. history[n].locals \in LocalsType /\ history[n].command \in CommandType /\ n \in 0..Len(history) + 1
    BY <1>2, StateTyped DEF IInv, Latest
  <2> QED
    BY <1>1, <1>5, <2>1 DEF IInv, TypeOK
<1>7. Recording' /\ Before(Latest + 1)' = Before(Latest + 1) /\ Latest' = Latest
  BY <1>1, <1>2, RecordingKept DEF IInv, Latest
<1>8. Due'
  BY <1>1, <1>7 DEF IInv, Due, Sensible
<1>9. ReplayFaithful' /\ Cache'
  BY <1>1, <1>2, <1>5, <1>7 DEF ReplayFaithful, Cache
<1> QED
  BY <1>6, <1>7, <1>8, <1>9 DEF IInv

LEMMA ExecuteKeepsIInv == IInv /\ Execute => IInv'
<1> SUFFICES ASSUME IInv, Execute PROVE IInv'
  OBVIOUS
<1> DEFINE n == Latest + 1
           r == Result(n, task.event, clock)
<1>1. /\ args' = args /\ history' = history /\ task' = task /\ clock' = clock
      /\ crashes' = crashes /\ local.consumed = Latest /\ task.taken
      /\ local' = Cached(Resume(local.locals, task.event, clock))
  BY DEF Execute, Latest
<1>2. /\ Latest \in Nat /\ DOMAIN history = 1..Latest /\ n \in 1..(Latest + 1) /\ clock \in Nat
      /\ task.event \in EventType
  BY StateTyped DEF IInv, TaskRecord
<1>3. Sensible(n, task.event)
  BY <1>1 DEF IInv, Due
<1>4. Resume(local.locals, task.event, clock) = r
  BY <1>1, <1>2, ConsumedBefore DEF Result
<1>5. r.locals \in LocalsType /\ r.command \in CommandType
  BY <1>2, <1>3, ResultShaped DEF IInv
<1>6. local' = [consumed |-> n, locals |-> r.locals, command |-> r.command]
  BY <1>1, <1>4 DEF Cached
<1>7. /\ Recording' /\ Before(n)' = Before(n) /\ Latest' = Latest
  BY <1>1, <1>2, RecordingKept DEF IInv, Latest
<1>8. r' = r
  BY <1>1, <1>7 DEF Result, Resume, Woken, Enqueued, Polled, Ends, Awaits, NoRoom, Shorter
<1> HIDE DEF r
<1>9. TypeOK'
  BY <1>1, <1>2, <1>5, <1>6 DEF IInv, TypeOK, Latest
<1>10. Due'
  BY <1>1, <1>7 DEF IInv, Due, Sensible
<1>11. ReplayFaithful' /\ n # 0
  BY <1>1, <1>2, <1>6 DEF ReplayFaithful
<1>12. Cache'
  BY <1>1, <1>2, <1>6, <1>7, <1>8 DEF Cache, r
<1> QED
  BY <1>7, <1>9, <1>10, <1>11, <1>12 DEF IInv

LEMMA CommitKeepsIInv == IInv /\ Commit => IInv'
<1> SUFFICES ASSUME IInv, Commit PROVE IInv'
  OBVIOUS
<1>0. PICK n \in Nat : n = Latest + 1
  BY StateTyped DEF IInv
<1> DEFINE r == Result(n, task.event, clock)
           h == [event |-> task.event, now |-> clock, command |-> local.command,
                 locals |-> local.locals]
<1>1. /\ args' = args /\ task' = NoTask /\ clock' = clock /\ local' = local
      /\ crashes' = crashes /\ local.consumed = n /\ task.taken /\ history' = Append(history, h)
  BY <1>0 DEF Commit, Latest
<1>2. /\ Latest \in Nat /\ DOMAIN history = 1..Latest /\ n \in 1..(Latest + 1) /\ clock \in Nat
      /\ task.event \in EventType /\ history \in Seq(Record)
  BY <1>0, StateTyped DEF IInv, TaskRecord
<1>3. Sensible(n, task.event)
  BY <1>0, <1>1 DEF IInv, Due
<1>4. /\ r.locals \in LocalsType /\ r.command \in CommandType
      /\ Shape(n, r.locals, r.command, clock)
  BY <1>2, <1>3, ResultShaped DEF IInv
<1>5. local.locals = r.locals /\ local.command = r.command
  BY <1>0, <1>1 DEF IInv, Cache
<1> HIDE DEF r
<1>6. h \in Record
  BY <1>2, <1>4, <1>5 DEF Record
<1>7. /\ h.event = task.event /\ h.now = clock /\ h.command = local.command
      /\ h.locals = local.locals
  OBVIOUS
<1> HIDE DEF h
<1>8. /\ history' \in Seq(Record) /\ Latest' = n /\ DOMAIN history' = 1..n /\ history'[n] = h
      /\ \A m \in 1..Latest : history'[m] = history[m]
  BY <1>0, <1>1, <1>2, <1>6 DEF Latest
<1>9. ~task'.due /\ ~task'.taken /\ task' \in TaskRecord
  BY <1>1 DEF NoTask, TaskRecord, Event, EventType
<1>10. TypeOK'
  <2>1. local.consumed \in 0..n + 1
    BY <1>1, <1>2
  <2>2. local \in [consumed: 0..n + 1, locals: LocalsType, command: CommandType]
    BY <2>1, StateTyped DEF IInv, TypeOK
  <2>3. Len(history') = n
    BY <1>8 DEF Latest
  <2> QED
    BY <1>1, <1>8, <1>9, <2>2, <2>3 DEF IInv, TypeOK, Record, TaskRecord
<1>11. Before(n)' = Before(n)
  BY <1>0, <1>2, <1>8 DEF Before
<1>12. Told(n)'
  <2>1. Sensible(n, history[n].event)'
    BY <1>3, <1>7, <1>8, <1>11 DEF Sensible
  <2>2. Result(n, history[n].event, history[n].now)' = r
    BY <1>1, <1>7, <1>8, <1>11
       DEF Result, Resume, Woken, Enqueued, Polled, Ends, Awaits, NoRoom, Shorter, r
  <2>3. n > 2 => history'[2] = history[2]
    BY <1>0, <1>2, <1>8
  <2>4. /\ n > 2 => FirstPoll(n, history[n].now)' = FirstPoll(n, clock)
        /\ n = 2 => FirstPoll(n, history[n].now)' = FirstPoll(n, clock)
        /\ Least' = Least
    BY <1>1, <1>7, <1>8, <2>3 DEF FirstPoll, Least
  <2>5. Shape(n, history[n].locals, history[n].command, history[n].now)'
    <3>1. n = 1 \/ n = 2 \/ n > 2
      BY <1>0, <1>2
    <3> QED
      BY <1>1, <1>4, <1>5, <1>7, <1>8, <2>4, <3>1 DEF Shape, Tied
  <2> QED
    BY <1>5, <1>7, <1>8, <2>1, <2>2, <2>5 DEF Told
<1>13. Recording'
  <2> SUFFICES ASSUME NEW m \in 1..n PROVE Told(m)'
    BY <1>8 DEF Recording
  <2>1. CASE m = n
    BY <1>12, <2>1
  <2>2. CASE m # n
    <3>1. m \in 1..Latest /\ m \in Nat \ {0} /\ Told(m)
      BY <1>0, <1>2, <2>2 DEF IInv, Recording
    <3>2. history'[m] = history[m]
      BY <1>0, <1>2, <1>8, <3>1
    <3>3. m > 2 => history'[2] = history[2]
      BY <1>0, <1>2, <1>8, <3>1
    <3>4. m > 1 => history'[m - 1] = history[m - 1]
      BY <1>0, <1>2, <1>8, <3>1
    <3> QED
      BY <1>1, <3>1, <3>2, <3>3, <3>4, ToldKept
  <2> QED
    BY <2>1, <2>2
<1>14. Due' /\ ReplayFaithful' /\ Cache'
  BY <1>0, <1>1, <1>2, <1>7, <1>8, <1>9 DEF Due, ReplayFaithful, Cache
<1> QED
  BY <1>10, <1>13, <1>14 DEF IInv

LEMMA NoCacheKeepsIInv ==
  ASSUME IInv, Crash \/ Evict
  PROVE  IInv'
<1>1. /\ args' = args /\ history' = history /\ clock' = clock /\ local' = NoCache
      /\ task'.due = task.due /\ task'.event = task.event /\ ~task'.taken
      /\ task' \in TaskRecord /\ crashes' \in 0..MaxCrashes
  <2>1. task \in TaskRecord /\ crashes \in 0..MaxCrashes /\ MaxCrashes \in Nat
    BY StateTyped, ReplayAssumption DEF IInv, TypeOK
  <2>2. CASE Crash
    <3>1. /\ args' = args /\ history' = history /\ clock' = clock /\ local' = NoCache
          /\ task' = [task EXCEPT !.taken = FALSE] /\ crashes' = crashes + 1
          /\ crashes < MaxCrashes
      BY <2>2 DEF Crash
    <3>2. crashes' \in 0..MaxCrashes
      BY <2>1, <3>1
    <3>3. task' \in TaskRecord /\ task'.due = task.due /\ task'.event = task.event
      BY <2>1, <3>1 DEF TaskRecord
    <3>4. ~task'.taken
      BY <2>1, <3>1, Zenon DEF TaskRecord
    <3> QED
      BY <3>1, <3>2, <3>3, <3>4
  <2>3. CASE Evict
    BY <2>1, <2>3 DEF Evict
  <2> QED
    BY <2>2, <2>3
<1>2. Recording' /\ Latest' = Latest /\ Latest \in Nat /\ DOMAIN history = 1..Latest
      /\ Before(Latest + 1)' = Before(Latest + 1)
  BY <1>1, RecordingKept, StateTyped DEF IInv, Latest
<1>3. TypeOK'
  <2>1. Issue("none") \in CommandType /\ NewLocals \in LocalsType
    BY CommandsTyped DEF NewLocals, LocalsType
  <2>2. NoCache \in [consumed: 0..Latest + 1, locals: LocalsType, command: CommandType]
    BY <1>2, <2>1 DEF NoCache
  <2> QED
    BY <1>1, <2>2 DEF IInv, TypeOK, TaskRecord, Latest
<1>4. Due'
  BY <1>1, <1>2 DEF IInv, Due, Sensible
<1>5. NoCache.consumed = 0 /\ NoCache.locals = NewLocals
  BY DEF NoCache
<1>6. ReplayFaithful' /\ Cache'
  BY <1>1, <1>2, <1>5 DEF ReplayFaithful, Cache
<1> QED
  BY <1>2, <1>3, <1>4, <1>6 DEF IInv

LEMMA TakeKeepsIInv == IInv /\ Take => IInv'
<1> SUFFICES ASSUME IInv, Take PROVE IInv'
  OBVIOUS
<1>1. /\ args' = args /\ history' = history /\ local' = local /\ crashes' = crashes
      /\ ~task.taken /\ task.due /\ task' = [task EXCEPT !.taken = TRUE]
  BY DEF Take
<1>2. clock' \in Nat
  <2>1. PICK lag \in Lags : clock' = clock + lag
    BY DEF Take
  <2> QED
    BY <2>1, StateTyped, ReplayAssumption DEF IInv
<1>3. task' \in TaskRecord /\ task'.due /\ task'.event = task.event
  BY <1>1, StateTyped DEF IInv, TaskRecord
<1>4. Recording' /\ Latest' = Latest /\ Latest \in Nat
      /\ Before(Latest + 1)' = Before(Latest + 1)
  BY <1>1, RecordingKept, StateTyped DEF IInv, Latest
<1>5. TypeOK'
  BY <1>1, <1>2, <1>3 DEF IInv, TypeOK, TaskRecord
<1>6. Due'
  BY <1>1, <1>3, <1>4 DEF IInv, Due, Sensible
<1>7. ReplayFaithful' /\ Cache'
  BY <1>1, <1>4 DEF IInv, ReplayFaithful, Cache
<1> QED
  BY <1>4, <1>5, <1>6, <1>7 DEF IInv

\* What a call that waits waits for.
LEMMA WaitingFor ==
  ASSUME IInv, Waiting
  PROVE  /\ Latest \in Nat /\ Latest # 0 /\ ~task.due /\ ~task.taken
         /\ Before(Latest + 1) = history[Latest].locals
         /\ Tied(Before(Latest + 1), Issued)
         /\ Issued.do \in Awaited /\ Issued.delay \in Nat
<1>1. /\ Latest \in Nat /\ DOMAIN history = 1..Latest /\ ~task.due /\ Latest # 0
      /\ Issued = history[Latest].command /\ Issued.do \in Awaited
  BY StateTyped DEF IInv, Waiting, Due, Issued, Latest
<1>2. Told(Latest) /\ Latest + 1 # 1 /\ (Latest + 1) - 1 = Latest
  BY <1>1 DEF IInv, Recording
<1>3. Issued \in CommandType
  BY <1>1, StateTyped DEF IInv
<1> QED
  BY <1>1, <1>2, <1>3 DEF Told, Shape, Before, IInv, Due, CommandType

LEMMA WakesKeepIInv ==
  ASSUME IInv, Waiting, NEW event \in EventType, Sensible(Latest + 1, event),
         NEW after \in Nat, Wakes(event, after)
  PROVE  IInv'
<1>1. /\ args' = args /\ history' = history /\ local' = local /\ crashes' = crashes
      /\ task' = [due |-> TRUE, taken |-> FALSE, event |-> event] /\ clock' = clock + after
  BY DEF Wakes
<1>2. task' \in TaskRecord /\ task'.due /\ ~task'.taken /\ task'.event = event
  BY <1>1 DEF TaskRecord
<1>3. Recording' /\ Latest' = Latest /\ Latest \in Nat /\ Latest # 0 /\ ~task.taken
      /\ Before(Latest + 1)' = Before(Latest + 1)
  BY <1>1, RecordingKept, StateTyped, WaitingFor DEF IInv, Latest
<1>4. TypeOK'
  <2>1. clock' \in Nat
    BY <1>1, StateTyped DEF IInv
  <2> QED
    BY <1>1, <1>2, <2>1 DEF IInv, TypeOK, TaskRecord
<1>5. Due'
  BY <1>2, <1>3 DEF Due, Sensible
<1>6. ReplayFaithful' /\ Cache'
  BY <1>1, <1>3 DEF IInv, ReplayFaithful, Cache
<1> QED
  BY <1>3, <1>4, <1>5, <1>6 DEF IInv

LEMMA EventsTyped ==
  /\ \A kind \in {"raised", "fired", "cancelled"} :
       Event(kind, "") \in EventType /\ Event(kind, "").kind = kind
  /\ \A status \in Statuses \cup {""} :
       Event("returned", status) \in EventType /\ Event("returned", status).kind = "returned"
BY DEF Event, EventType

LEMMA TemporalKeepsIInv ==
  ASSUME IInv, ActivityEnds \/ TimerFires \/ CancelRequested
  PROVE  IInv'
<1> DEFINE l == Before(Latest + 1)
<1>1. Waiting
  BY DEF ActivityEnds, TimerFires, CancelRequested
<1>2. Latest \in Nat /\ Latest + 1 # 1 /\ Tied(l, Issued) /\ Issued.do \in Awaited
      /\ Issued.delay \in Nat
  BY <1>1, WaitingFor
<1>3. Sensible(Latest + 1, Event("cancelled", ""))
  BY <1>2, EventsTyped DEF Sensible, Tied, Awaited
<1>4. CASE CancelRequested
  BY <1>1, <1>3, <1>4, EventsTyped, WakesKeepIInv DEF CancelRequested
<1>5. CASE TimerFires
  <2>1. PICK lag \in Lags : Wakes(Event("fired", ""), Issued.delay + lag)
    BY <1>5 DEF TimerFires
  <2>2. Issued.do = "sleep"
    BY <1>5 DEF TimerFires
  <2>3. Sensible(Latest + 1, Event("fired", ""))
    BY <1>2, <2>2, EventsTyped DEF Sensible, Tied
  <2>4. Issued.delay + lag \in Nat
    <3>1. lag \in Nat
      BY ReplayAssumption
    <3> QED
      BY <1>2, <3>1
  <2> QED
    BY <1>1, <2>1, <2>3, <2>4, EventsTyped, WakesKeepIInv
<1>6. CASE ActivityEnds
  <2>1. PICK last \in Lags \cup Lasts :
          /\ last \in Nat
          /\ \/ Wakes(Event("raised", ""), last)
             \/ \E status \in Statuses \cup {""} : Wakes(Event("returned", status), last)
    BY <1>6, ReplayAssumption DEF ActivityEnds
  <2>2. CASE Wakes(Event("raised", ""), last)
    <3>1. Issued.do \in {"write_start", "write_status"}
      BY <1>2, <1>6 DEF ActivityEnds, Awaited
    <3>2. Sensible(Latest + 1, Event("raised", ""))
      BY <1>2, <3>1, EventsTyped DEF Sensible, Tied
    <3> QED
      BY <1>1, <2>1, <2>2, <3>2, EventsTyped, WakesKeepIInv
  <2>3. CASE \E status \in Statuses \cup {""} : Wakes(Event("returned", status), last)
    <3>1. PICK status \in Statuses \cup {""} : Wakes(Event("returned", status), last)
      BY <2>3
    <3>2. Issued.do \in {"write_start", "write_status"}
      BY <1>2, <1>6 DEF ActivityEnds, Awaited
    <3>3. Sensible(Latest + 1, Event("returned", status))
      BY <1>2, <3>2, EventsTyped DEF Sensible, Tied
    <3> QED
      BY <1>1, <2>1, <3>1, <3>3, EventsTyped, WakesKeepIInv
  <2> QED
    BY <2>1, <2>2, <2>3
<1> QED
  BY <1>4, <1>5, <1>6

LEMMA NextKeepsIInv == IInv /\ [Next]_vars => IInv'
<1> SUFFICES ASSUME IInv, [Next]_vars PROVE IInv'
  OBVIOUS
<1>1. CASE Replay \/ Execute \/ Commit
  BY <1>1, ReplayKeepsIInv, ExecuteKeepsIInv, CommitKeepsIInv
<1>2. CASE Crash \/ Evict
  BY <1>2, NoCacheKeepsIInv
<1>3. CASE Take
  BY <1>3, TakeKeepsIInv
<1>4. CASE ActivityEnds \/ TimerFires \/ CancelRequested
  BY <1>4, TemporalKeepsIInv
<1>5. CASE UNCHANGED vars
  <2>1. /\ args' = args /\ history' = history /\ clock' = clock /\ task' = task
        /\ local' = local /\ crashes' = crashes
    BY <1>5 DEF vars
  <2>2. Recording' /\ Latest' = Latest /\ Latest \in Nat
        /\ Before(Latest + 1)' = Before(Latest + 1)
    BY <2>1, RecordingKept, StateTyped DEF IInv, Latest
  <2>3. TypeOK'
    BY <2>1 DEF IInv, TypeOK
  <2>4. Due'
    BY <2>1, <2>2 DEF IInv, Due, Sensible
  <2>5. Result(Latest + 1, task.event, clock)' = Result(Latest + 1, task.event, clock)
    BY <2>1, <2>2
       DEF Result, Resume, Woken, Enqueued, Polled, Ends, Awaits, NoRoom, Shorter
  <2>6. ReplayFaithful' /\ Cache'
    BY <2>1, <2>2, <2>5 DEF IInv, ReplayFaithful, Cache
  <2> QED
    BY <2>2, <2>3, <2>4, <2>6 DEF IInv
<1> QED
  BY <1>1, <1>2, <1>3, <1>4, <1>5 DEF Next, Ended

LEMMA IInvInvariant == Spec => []IInv
BY InitInvariant, NextKeepsIInv, PTL DEF Spec

(***************************************************************************)
(* The history and every worker's cache keep their types.                  *)
(***************************************************************************)
THEOREM TypesKept == Spec => []TypeOK
<1>1. IInv => TypeOK
  BY DEF IInv
<1> QED
  BY IInvInvariant, <1>1, PTL

(***************************************************************************)
(* A worker that runs write_durable again on its history has, after every  *)
(* recorded task, the locals and the command of the worker that ran it,    *)
(* however late it does so.                                                *)
(***************************************************************************)
THEOREM ReplaysFaithful == Spec => []ReplayFaithful
<1>1. IInv => ReplayFaithful
  BY DEF IInv
<1> QED
  BY IInvInvariant, <1>1, PTL

(***************************************************************************)
(* Over any number of crashes and evictions, Temporal is told to enqueue   *)
(* the write once: by the task that started the call.                      *)
(***************************************************************************)
THEOREM EnqueuesOnce == Spec => []EnqueuedOnce
<1>1. IInv => EnqueuedOnce
  <2> SUFFICES ASSUME IInv PROVE EnqueuedOnce
    OBVIOUS
  <2> DEFINE S == {n \in DOMAIN history : history[n].command.do = "write_start"}
  <2>1. \A n \in DOMAIN history : history[n].command.do = "write_start" => n = 1
    BY DEF IInv, Recording, Told, Shape, Tied
  <2>2. S = {} \/ S = {1}
    BY <2>1
  <2> HIDE DEF S
  <2>3. Cardinality(S) \in {0, 1}
    BY <2>2, FS_EmptySet, FS_Singleton, Zenon
  <2>4. Cardinality(S) <= 1
    BY <2>3
  <2> QED
    BY <2>4 DEF EnqueuedOnce, S
<1> QED
  BY IInvInvariant, <1>1, PTL

(***************************************************************************)
(* On whichever worker, no sleep is begun that would end max_wait after    *)
(* the enqueue was known, or later.                                        *)
(***************************************************************************)
THEOREM SleepsInTime == Spec => []SleepsWithinMaxWait
<1>1. IInv => SleepsWithinMaxWait
  <2> SUFFICES ASSUME IInv, NEW n \in DOMAIN history, history[n].command.do = "sleep"
               PROVE  history[n].now + history[n].command.delay < history[2].now + args.max_wait
    BY DEF SleepsWithinMaxWait
  <2>1. Shape(n, history[n].locals, history[n].command, history[n].now)
    BY DEF IInv, Recording, Told
  <2>2. history[n].locals.pc = "sleeping" /\ n > 2 /\ n \in Nat
    BY <2>1, StateTyped DEF IInv, Shape, Tied
  <2> QED
    BY <2>1, <2>2 DEF Shape, FirstPoll
<1> QED
  BY IInvInvariant, <1>1, PTL

(***************************************************************************)
(* How many polls there are.  Time is what bounds them: when the n-th poll *)
(* is issued, at least n - 1 sleeps of at least the least delay have gone  *)
(* by since the first, and each of them ended before the deadline.         *)
(***************************************************************************)
PollTasks(h) == {n \in DOMAIN h : h[n].command.do = "write_status"}
Last == history[Latest]

\* Least * (Polls - 1), never below zero.
Slept(polls) == IF polls = 0 THEN 0 ELSE (polls - 1) * Least

Clocked ==
  Latest # 0 =>
    /\ clock >= Last.now
    /\ task.due /\ task.event.kind = "fired" => clock >= Last.now + Last.command.delay

Paced ==
  /\ Latest \in {0, 1} => Polls = 0
  /\ Polls > 1 => Slept(Polls) < args.max_wait
  /\ Latest # 0 /\ Last.locals.pc \in {"polling", "sleeping"} =>
       Polls >= 1 /\ Last.now >= history[2].now + Slept(Polls)

PaceInv == Clocked /\ Paced

LEMMA WaysOn ==
  ASSUME TypeOK, NEW n \in 1..(Latest + 1), NEW event \in EventType, Sensible(n, event),
         NEW now \in Nat
  PROVE  /\ Result(n, event, now).locals.pc = "polling" =>
              \/ event.kind = "returned" /\ Before(n).pc = "starting"
              \/ event.kind = "fired" /\ Before(n).pc = "sleeping"
         /\ Result(n, event, now).locals.pc = "sleeping" => Before(n).pc = "polling"
<1> DEFINE l == Before(n)
           r == Result(n, event, now)
<1>1. l \in LocalsType /\ args \in Waits
  BY BeforeTyped, StateTyped
<1>2. event.kind \in {"called", "returned", "raised", "fired", "cancelled"}
  BY DEF EventType, Sensible
<1>3. CASE event.kind \in {"raised", "cancelled"}
  <2>1. r = Ends(l, "raise", event.kind)
    BY <1>3 DEF Result, Resume
  <2>2. r.locals.pc = "done"
    BY <1>1, <1>3, <2>1, EndsIs DEF Ending
  <2> QED
    BY <2>2
<1>4. CASE event.kind = "called"
  <2>1. r = Awaits(l, "starting", Issue("write_start"))
    BY <1>4 DEF Result, Resume
  <2>2. r.locals.pc = "starting"
    BY <1>1, <2>1, AwaitsIs
  <2> QED
    BY <2>2
<1>5. CASE event.kind = "fired"
  <2>1. r = Woken(l, now) /\ l.pc = "sleeping"
    BY <1>5 DEF Result, Resume, Sensible
  <2>2. r.locals.pc = "polling"
    BY <1>1, <2>1, WokenIs
  <2> QED
    BY <1>5, <2>1, <2>2
<1>6. CASE event.kind = "returned" /\ l.pc = "starting"
  <2>1. r = Enqueued(l, now)
    BY <1>6 DEF Result, Resume
  <2>2. r.locals.pc = "polling"
    BY <1>1, <2>1, EnqueuedIs
  <2> QED
    BY <1>6, <2>2
<1>7. CASE event.kind = "returned" /\ l.pc # "starting"
  <2>1. r = Polled(l, event.status, now) /\ l.pc = "polling"
    BY <1>7 DEF Result, Resume, Sensible
  <2>2. r.locals.pc \in {"done", "sleeping"}
    <3>1. Ending(r) \/ Sleeping(r, l, now)
      BY <1>1, <2>1, PolledIs
    <3> HIDE DEF r
    <3> QED
      BY <3>1, Zenon DEF Ending, Sleeping
  <2> QED
    BY <2>1, <2>2
<1> QED
  BY <1>2, <1>3, <1>4, <1>5, <1>6, <1>7

LEMMA PollsTyped ==
  ASSUME TypeOK
  PROVE  /\ IsFiniteSet(PollTasks(history)) /\ Polls = Cardinality(PollTasks(history))
         /\ Polls \in Nat
         /\ Least \in Nat
         /\ Latest = 0 => Polls = 0
<1>1. DOMAIN history = 1..Latest /\ Latest \in Nat /\ args \in Waits
  BY StateTyped
<1>2. IsFiniteSet(DOMAIN history)
  BY <1>1, FS_Interval
<1>3. PollTasks(history) \subseteq DOMAIN history
  BY DEF PollTasks
<1>4. IsFiniteSet(PollTasks(history)) /\ Cardinality(PollTasks(history)) \in Nat
  BY <1>2, <1>3, FS_Subset, FS_CardinalityType
<1>5. Polls = Cardinality(PollTasks(history))
  BY DEF Polls, PollTasks
<1>6. Least \in Nat
  BY <1>1, WaitTyped, ShorterTyped DEF Least
<1>7. Latest = 0 => PollTasks(history) = {}
  BY <1>1, <1>3
<1> QED
  BY <1>4, <1>5, <1>6, <1>7, FS_EmptySet

LEMMA PollsAppended ==
  ASSUME TypeOK, NEW h \in Record, history' = Append(history, h)
  PROVE  Polls' = IF h.command.do = "write_status" THEN Polls + 1 ELSE Polls
<1>1. PICK n \in Nat : n = Latest + 1
  BY StateTyped
<1>2. /\ history \in Seq(Record) /\ DOMAIN history = 1..Latest /\ Latest \in Nat
      /\ n \notin DOMAIN history
  BY <1>1, StateTyped
<1>3. /\ DOMAIN history' = DOMAIN history \cup {n} /\ history'[n] = h
      /\ \A m \in DOMAIN history : history'[m] = history[m]
  BY <1>1, <1>2 DEF Latest
<1>4. PollTasks(history') =
        IF h.command.do = "write_status" THEN PollTasks(history) \cup {n} ELSE PollTasks(history)
  BY <1>2, <1>3 DEF PollTasks
<1>5. n \notin PollTasks(history)
  BY <1>2 DEF PollTasks
<1>6. Polls' = Cardinality(PollTasks(history'))
  BY DEF Polls, PollTasks
<1> QED
  BY <1>4, <1>5, <1>6, PollsTyped, FS_AddElement

LEMMA OneMoreSleep ==
  ASSUME NEW p \in Nat, NEW m \in Nat
  PROVE  p * m \in Nat /\ (p >= 1 => p * m = (p - 1) * m + m)
OBVIOUS

LEMMA CommitKeepsPace == IInv /\ PaceInv /\ Commit => PaceInv'
<1> SUFFICES ASSUME IInv, PaceInv, Commit PROVE PaceInv'
  OBVIOUS
<1>0. PICK n \in Nat : n = Latest + 1
  BY StateTyped DEF IInv
<1> DEFINE r == Result(n, task.event, clock)
           h == [event |-> task.event, now |-> clock, command |-> local.command,
                 locals |-> local.locals]
<1>1. /\ args' = args /\ task' = NoTask /\ clock' = clock /\ local.consumed = n
      /\ task.taken /\ task.due /\ history' = Append(history, h)
  BY <1>0 DEF Commit, Latest, IInv, Due
<1>2. /\ TypeOK /\ Latest \in Nat /\ DOMAIN history = 1..Latest /\ n \in 1..(Latest + 1)
      /\ clock \in Nat /\ task.event \in EventType /\ history \in Seq(Record)
      /\ args \in Waits /\ args.max_wait \in Nat
  BY <1>0, StateTyped, WaitTyped DEF IInv, TaskRecord
<1>3. Sensible(n, task.event)
  BY <1>0, <1>1 DEF IInv, Due
<1>4. local.locals = r.locals /\ local.command = r.command
  BY <1>0, <1>1 DEF IInv, Cache
<1>5. Shape(n, local.locals, local.command, clock)
  BY <1>2, <1>3, <1>4, ResultShaped DEF IInv
<1>6. /\ local.locals.pc = "polling" =>
           \/ Before(n).pc = "starting"
           \/ task.event.kind = "fired" /\ Before(n).pc = "sleeping"
      /\ local.locals.pc = "sleeping" => Before(n).pc = "polling"
  BY <1>2, <1>3, <1>4, WaysOn
<1>7. h \in Record
  BY <1>2, StateTyped DEF Record
<1>8. h.now = clock /\ h.command = local.command /\ h.locals = local.locals
  OBVIOUS
<1> HIDE DEF h, r
<1>9. /\ Latest' = n /\ history'[n] = h /\ \A m \in 1..Latest : history'[m] = history[m]
  BY <1>0, <1>1, <1>2, <1>7 DEF Latest
<1>10. Last' = h
  BY <1>9 DEF Last
<1>11. Clocked'
  <2>1. ~task'.due
    BY <1>1 DEF NoTask
  <2> QED
    BY <1>1, <1>2, <1>8, <1>10, <2>1 DEF Clocked
<1>12. /\ Polls' = IF local.locals.pc = "polling" THEN Polls + 1 ELSE Polls
       /\ Polls \in Nat /\ Least \in Nat
       /\ Latest = 0 => Polls = 0
  BY <1>1, <1>2, <1>5, <1>7, <1>8, PollsAppended, PollsTyped DEF Shape, Tied
<1>13. Least' = Least
  BY <1>1 DEF Least
<1>14. ASSUME n # 1
       PROVE  /\ Latest # 0 /\ Before(n) = Last.locals /\ Last.now \in Nat
              /\ Last.locals \in LocalsType /\ Last.locals.delay \in Nat
              /\ Shape(Latest, Last.locals, Last.command, Last.now)
  <2>1. Latest \in 1..Latest /\ n - 1 = Latest
    BY <1>0, <1>2, <1>14
  <2>2. Told(Latest)
    BY <1>2, <2>1 DEF IInv, Recording
  <2>3. history[Latest].now \in Nat /\ history[Latest].locals \in LocalsType
    BY <1>2, <2>1, StateTyped
  <2> QED
    BY <1>14, <2>1, <2>2, <2>3 DEF Told, Before, Last, LocalsType
<1>15. CASE local.locals.pc = "starting"
  <2>1. n = 1 /\ Polls = 0 /\ Polls' = 0
    BY <1>0, <1>2, <1>5, <1>12, <1>15 DEF Shape
  <2> QED
    BY <1>8, <1>9, <1>10, <1>11, <1>15, <2>1 DEF PaceInv, Paced
<1>16. CASE local.locals.pc = "polling" /\ Before(n).pc = "starting"
  <2>1. n # 1
    BY <1>5, <1>16 DEF Shape
  <2>2. Latest = 1 /\ n = 2
    BY <1>0, <1>2, <1>14, <1>16, <2>1 DEF Shape
  <2>3. Polls = 0 /\ Polls' = 1
    BY <1>12, <1>16, <2>2 DEF PaceInv, Paced
  <2>4. Slept(Polls)' = 0
    BY <1>12, <1>13, <2>3 DEF Slept
  <2>5. history'[2].now = clock
    BY <1>8, <1>9, <2>2
  <2> QED
    BY <1>2, <1>8, <1>9, <1>10, <1>11, <2>2, <2>3, <2>4, <2>5 DEF PaceInv, Paced
<1>17. CASE local.locals.pc = "polling" /\ Before(n).pc = "sleeping" /\ task.event.kind = "fired"
  <2>1. n # 1
    BY <1>5, <1>17 DEF Shape
  <2>2. /\ Latest > 2 /\ Last.command.delay = Last.locals.delay
        /\ Last.now + Last.locals.delay < Last.locals.deadline
        /\ Last.locals.delay >= Least
        /\ Last.locals.deadline = history[2].now + args.max_wait
        /\ Last.locals.pc = "sleeping"
    BY <1>2, <1>14, <1>17, <2>1 DEF Shape, FirstPoll
  <2>3. Polls >= 1 /\ Last.now >= history[2].now + Slept(Polls)
    BY <2>2 DEF PaceInv, Paced
  <2>4. clock >= Last.now + Last.locals.delay
    BY <1>1, <1>17, <2>2 DEF PaceInv, Clocked
  <2>5. Slept(Polls) \in Nat /\ Slept(Polls)' = Slept(Polls) + Least /\ Polls' = Polls + 1
    <3>1. Polls' = Polls + 1
      BY <1>12, <1>17
    <3>2. Polls - 1 \in Nat /\ Slept(Polls) = (Polls - 1) * Least
      BY <1>12, <2>3 DEF Slept
    <3>3. Slept(Polls)' = Polls * Least
      BY <1>12, <1>13, <3>1 DEF Slept
    <3> QED
      BY <1>12, <2>3, <3>1, <3>2, <3>3, OneMoreSleep
  <2>6. history[2].now \in Nat /\ history'[2] = history[2]
    BY <1>2, <1>9, <2>2, StateTyped
  <2>7. clock >= history[2].now + Slept(Polls)'
    <3>1. Last.now \in Nat /\ Last.locals.delay \in Nat /\ clock \in Nat /\ Least \in Nat
      BY <1>2, <1>12, <1>14, <2>1
    <3>2. Last.locals.delay >= Least /\ Slept(Polls) \in Nat
      BY <2>2, <2>5
    <3>3. clock >= history[2].now + (Slept(Polls) + Least)
      BY <2>3, <2>4, <2>6, <3>1, <3>2
    <3> QED
      BY <2>5, <3>3
  <2>8. Slept(Polls)' < args.max_wait
    BY <1>2, <1>12, <1>14, <2>1, <2>2, <2>3, <2>5, <2>6
  <2> QED
    BY <1>0, <1>1, <1>2, <1>8, <1>9, <1>10, <1>11, <1>12, <2>2, <2>3, <2>5, <2>6, <2>7, <2>8
       DEF PaceInv, Paced
<1>18. CASE local.locals.pc = "sleeping"
  <2>1. n # 1 /\ Polls' = Polls /\ n > 2
    BY <1>5, <1>12, <1>18 DEF Shape
  <2>2. Last.locals.pc = "polling" /\ Latest # 0
    BY <1>6, <1>14, <1>18, <2>1
  <2>3. /\ Polls >= 1 /\ Last.now >= history[2].now + Slept(Polls)
        /\ Polls > 1 => Slept(Polls) < args.max_wait
    BY <2>2 DEF PaceInv, Paced
  <2>4. clock >= Last.now
    BY <2>2 DEF PaceInv, Clocked
  <2>5. Slept(Polls)' = Slept(Polls) /\ Slept(Polls) \in Nat
    BY <1>12, <1>13, <2>1, OneMoreSleep DEF Slept
  <2>6. history[2].now \in Nat /\ history'[2] = history[2]
    BY <1>0, <1>2, <1>9, <2>1, StateTyped
  <2>7. clock >= history[2].now + Slept(Polls)
    BY <1>2, <1>14, <2>1, <2>3, <2>4, <2>5, <2>6
  <2> QED
    BY <1>1, <1>8, <1>9, <1>10, <1>11, <2>1, <2>3, <2>5, <2>6, <2>7 DEF PaceInv, Paced
<1>19. CASE local.locals.pc = "done"
  <2>1. n # 1 /\ Polls' = Polls
    BY <1>5, <1>12, <1>19 DEF Shape
  <2>2. Slept(Polls)' = Slept(Polls)
    BY <1>13, <2>1 DEF Slept
  <2>3. n = 2 => Polls = 0
    <3>1. n = 2 => Latest = 1
      BY <1>0, <1>2
    <3> QED
      BY <3>1 DEF PaceInv, Paced
  <2> QED
    BY <1>0, <1>1, <1>2, <1>8, <1>9, <1>10, <1>11, <1>19, <2>1, <2>2, <2>3 DEF PaceInv, Paced
<1>20. local.locals.pc \in {"starting", "polling", "sleeping", "done"}
  BY <1>2, <1>5, StateTyped DEF Shape, Tied, LocalsType
<1> QED
  BY <1>6, <1>15, <1>16, <1>17, <1>18, <1>19, <1>20

LEMMA LastTyped ==
  ASSUME TypeOK, Latest # 0
  PROVE  Last.now \in Nat /\ Last.command.delay \in Nat
<1>1. Latest \in 1..Latest
  BY StateTyped
<1>2. Last.now \in Nat /\ Last.command \in CommandType
  BY <1>1, StateTyped DEF Last
<1> QED
  BY <1>2 DEF CommandType

LEMMA OtherStepsKeepPace == IInv /\ PaceInv /\ [Next]_vars /\ ~Commit => PaceInv'
<1> SUFFICES ASSUME IInv, PaceInv, [Next]_vars, ~Commit PROVE PaceInv'
  OBVIOUS
<1>1. /\ args' = args /\ history' = history
  BY DEF Next, Replay, Execute, Crash, Evict, ActivityEnds, TimerFires, CancelRequested, Wakes,
         Take, Ended, vars
<1>2. TypeOK /\ Latest \in Nat /\ DOMAIN history = 1..Latest /\ clock \in Nat
  BY StateTyped DEF IInv
<1>3. Latest' = Latest /\ Last' = Last /\ Polls' = Polls /\ Least' = Least
  BY <1>1 DEF Latest, Last, Polls, Least
<1>4. Slept(Polls)' = Slept(Polls)
  BY <1>3 DEF Slept
<1>5. Paced'
  BY <1>1, <1>3, <1>4 DEF PaceInv, Paced
<1>6. Clocked'
  <2>1. CASE UNCHANGED <<clock, task>>
    BY <1>3, <2>1 DEF PaceInv, Clocked
  <2>2. CASE Crash
    <3>1. clock' = clock /\ task' = [task EXCEPT !.taken = FALSE] /\ task \in TaskRecord
      BY <2>2, StateTyped DEF Crash, IInv
    <3>2. task'.due = task.due /\ task'.event = task.event
      BY <3>1 DEF TaskRecord
    <3> QED
      BY <1>3, <3>1, <3>2 DEF PaceInv, Clocked
  <2>3. CASE Take
    <3>1. task' = [task EXCEPT !.taken = TRUE] /\ task \in TaskRecord
      BY <2>3, StateTyped DEF Take, IInv
    <3>2. task'.due = task.due /\ task'.event = task.event
      BY <3>1 DEF TaskRecord
    <3>3. clock' \in Nat /\ clock' >= clock
      <4>1. PICK lag \in Lags : clock' = clock + lag
        BY <2>3 DEF Take
      <4> QED
        BY <1>2, <4>1, ReplayAssumption
    <3>4. Latest # 0 => (Last.now \in Nat /\ Last.command.delay \in Nat)
      BY <1>2, LastTyped
    <3> QED
      BY <1>2, <1>3, <3>2, <3>3, <3>4 DEF PaceInv, Clocked
  <2>4. ASSUME NEW event, NEW after \in Nat, Waiting, Wakes(event, after),
               event.kind = "fired" => after >= Issued.delay
        PROVE  Clocked'
    <3>1. clock' = clock + after /\ task'.event = event /\ task'.due
      BY <2>4 DEF Wakes
    <3>2. /\ Latest # 0 /\ Issued = Last.command
      BY <2>4, WaitingFor DEF Issued, Last, Latest
    <3>3. Last.now \in Nat /\ Last.command.delay \in Nat
      BY <1>2, <3>2, LastTyped
    <3> QED
      BY <1>2, <1>3, <2>4, <3>1, <3>2, <3>3 DEF PaceInv, Clocked
  <2>5. CASE ActivityEnds
    <3>1. PICK last \in Lasts, event \in EventType :
            event.kind \in {"raised", "returned"} /\ Wakes(event, last)
      BY <2>5, EventsTyped DEF ActivityEnds
    <3>2. last \in Nat /\ Waiting
      BY <2>5, ReplayAssumption DEF ActivityEnds
    <3> QED
      BY <2>4, <3>1, <3>2
  <2>6. CASE TimerFires
    <3>1. PICK lag \in Lags : Wakes(Event("fired", ""), Issued.delay + lag)
      BY <2>6 DEF TimerFires
    <3>2. Waiting /\ lag \in Nat /\ Issued.delay \in Nat
      BY <2>6, ReplayAssumption, WaitingFor DEF TimerFires
    <3>3. Issued.delay + lag \in Nat /\ Issued.delay + lag >= Issued.delay
      BY <3>2
    <3>4. PICK event \in EventType : event = Event("fired", "")
      BY EventsTyped
    <3> QED
      BY <2>4, <3>1, <3>2, <3>3, <3>4
  <2>7. CASE CancelRequested
    <3>1. PICK event \in EventType : event.kind = "cancelled" /\ Wakes(event, 0)
      BY <2>7, EventsTyped DEF CancelRequested
    <3>2. Waiting
      BY <2>7 DEF CancelRequested
    <3> QED
      BY <2>4, <3>1, <3>2
  <2> QED
    BY <2>1, <2>2, <2>3, <2>5, <2>6, <2>7
       DEF Next, Replay, Execute, Evict, Ended, vars
<1> QED
  BY <1>5, <1>6 DEF PaceInv

LEMMA PaceInvariant == Spec => []PaceInv
<1>1. Init => PaceInv
  <2> SUFFICES ASSUME Init PROVE PaceInv
    OBVIOUS
  <2>1. Latest = 0 /\ TypeOK
    BY InitInvariant DEF Init, Latest, IInv
  <2>2. Polls = 0
    BY <2>1, PollsTyped
  <2> QED
    BY <2>1, <2>2 DEF PaceInv, Clocked, Paced
<1>2. IInv /\ PaceInv /\ [Next]_vars => PaceInv'
  BY CommitKeepsPace, OtherStepsKeepPace
<1> QED
  BY IInvInvariant, <1>1, <1>2, PTL DEF Spec

(***************************************************************************)
(* For every interval, cap and max_wait, over any number of crashes and    *)
(* evictions: the polls after the first, times the least delay, fit into   *)
(* max_wait.                                                               *)
(***************************************************************************)
THEOREM PollsFew == Spec => []PollsBounded
<1>1. IInv /\ PaceInv => PollsBounded
  <2> SUFFICES ASSUME IInv, PaceInv, Polls > 1 PROVE (Polls - 1) * Least < args.max_wait
    BY DEF PollsBounded, Least
  <2>1. Polls # 0
    BY PollsTyped DEF IInv
  <2> QED
    BY <2>1 DEF PaceInv, Paced, Slept
<1> QED
  BY IInvInvariant, PaceInvariant, <1>1, PTL

(***************************************************************************)
(* The refinement of WriteLoop.  First what a run of the code from one     *)
(* await to the next leaves of the locals it does not assign.              *)
(***************************************************************************)
EndsAs(r, l, type) ==
  /\ r.locals \in LocalsType /\ r.locals.pc = "done"
  /\ r.locals.delay = l.delay /\ r.locals.deadline = l.deadline
  /\ r.command.type = type

LEMMA EndsKeep ==
  ASSUME NEW l \in LocalsType, NEW do, NEW type
  PROVE  EndsAs(Ends(l, do, type), l, type)
<1>1. Command(do, 0, type).type = type
  BY DEF Command
<1> QED
  BY <1>1, AwaitsIs DEF Ends, EndsAs

LEMMA PolledWays ==
  ASSUME NEW l \in LocalsType, NEW status, NEW now \in Nat
  PROVE  \/ \E type \in {"completed", "XmemoryWriteFailed", "XmemoryWriteNotFound"} :
              EndsAs(Polled(l, status, now), l, type)
         \/ NoRoom(l, now) /\ EndsAs(Polled(l, status, now), l, "XmemoryWriteTimeout")
         \/ Sleeping(Polled(l, status, now), l, now)
<1> DEFINE i == Interpreted(status)
<1>1. i \in {"completed", "XmemoryWriteFailed", "XmemoryWriteNotFound", ""}
  BY InterpretedTyped
<1>2. CASE i = "completed"
  BY <1>2, EndsKeep DEF Polled
<1>3. CASE i \in {"XmemoryWriteFailed", "XmemoryWriteNotFound"}
  <2>1. Polled(l, status, now) = Ends(l, "raise", i)
    BY <1>3 DEF Polled
  <2> QED
    BY <1>3, <2>1, EndsKeep
<1>4. CASE i = "" /\ NoRoom(l, now)
  <2>1. Polled(l, status, now) = Ends(l, "raise", "XmemoryWriteTimeout")
    BY <1>4, Zenon DEF Polled
  <2>2. EndsAs(Polled(l, status, now), l, "XmemoryWriteTimeout")
    BY <2>1, EndsKeep
  <2>3. NoRoom(l, now)
    BY <1>4
  <2> QED
    BY <2>2, <2>3, Zenon
<1>5. CASE i = "" /\ ~NoRoom(l, now)
  <2>1. ~Ending(Polled(l, status, now))
    <3>1. Polled(l, status, now) = Awaits(l, "sleeping", Command("sleep", l.delay, ""))
      BY <1>5, Zenon DEF Polled
    <3> DEFINE c == Command("sleep", l.delay, "")
    <3> HIDE DEF c
    <3>2. Awaits(l, "sleeping", c).locals.pc = "sleeping"
      BY AwaitsIs
    <3>3. Polled(l, status, now).locals.pc = "sleeping"
      BY <3>1, <3>2, Zenon DEF c
    <3> QED
      BY <3>3, Zenon DEF Ending
  <2>2. Sleeping(Polled(l, status, now), l, now)
    BY <2>1, PolledIs
  <2> QED
    BY <2>2, Zenon
<1> QED
  BY <1>1, <1>2, <1>3, <1>4, <1>5

LEMMA UntilTyped ==
  ASSUME clock \in Nat, NEW time \in Nat
  PROVE  /\ Until(time) \in Nat
         /\ \A t \in Nat : Until(clock + t) = t
         /\ \A d \in Nat : d >= Until(time) <=> clock + d >= time
BY DEF Until

LEMMA RememberedIs ==
  ASSUME IInv
  PROVE  /\ Remembered \in LocalsType /\ Remembered = Before(Latest + 1)
         /\ Latest # 0 => history # << >>
         /\ LoopLeft \in Nat /\ LoopTimer \in Nat
<1>1. /\ Latest \in Nat /\ DOMAIN history = 1..Latest /\ history \in Seq(Record) /\ clock \in Nat
      /\ \A n \in 1..Latest : history[n].now \in Nat
  BY StateTyped DEF IInv
<1>2. Remembered = Before(Latest + 1)
  <2>1. history = << >> <=> Latest = 0
    BY <1>1 DEF Latest
  <2> QED
    BY <1>1, <2>1 DEF Remembered, Before, Latest
<1>3. Remembered \in LocalsType
  BY <1>1, <1>2, BeforeTyped DEF IInv
<1>4. Remembered.delay \in Nat /\ Remembered.deadline \in Nat
  BY <1>3 DEF LocalsType
<1>5. LoopLeft \in Nat
  BY <1>1, <1>4, UntilTyped DEF LoopLeft
<1>6. LoopTimer \in Nat
  <2>1. CASE Remembered.pc = "sleeping"
    <3>1. Latest # 0
      <4>1. NewLocals.pc # "sleeping"
        BY DEF NewLocals
      <4> QED
        BY <1>2, <2>1, <4>1 DEF Before
    <3>2. history[Len(history)].now \in Nat
      BY <1>1, <3>1 DEF Latest
    <3> QED
      <4>1. PICK time \in Nat : time = history[Len(history)].now + Remembered.delay
        BY <1>4, <3>2
      <4> QED
        BY <1>1, <2>1, <4>1, UntilTyped DEF LoopTimer
  <2>2. CASE Remembered.pc # "sleeping"
    BY <2>2 DEF LoopTimer
  <2> QED
    BY <2>1, <2>2
<1> QED
  BY <1>1, <1>2, <1>3, <1>5, <1>6 DEF Latest

(***************************************************************************)
(* Everything but a completed task leaves the locals alone; time may pass. *)
(***************************************************************************)
LEMMA OthersPass ==
  ASSUME IInv, args' = args, history' = history, NEW t \in Nat, clock' = clock + t
  PROVE  [Loop!Next]_(Loop!vars)
<1>1. Remembered' = Remembered /\ Remembered \in LocalsType /\ LoopLeft \in Nat /\ LoopTimer \in Nat
      /\ clock \in Nat
  BY RememberedIs, StateTyped DEF Remembered, IInv
<1>2. LoopOutcome' = LoopOutcome
  BY <1>1, Zenon DEF LoopOutcome, Issued
<1>3. \A time \in Nat : Until(time)' = IF t < Until(time) THEN Until(time) - t ELSE 0
  BY <1>1 DEF Until
<1>4. LoopLeft' = IF t < LoopLeft THEN LoopLeft - t ELSE 0
  <2>1. PICK time \in Nat : time = Remembered.deadline
    BY <1>1 DEF LocalsType
  <2>2. LoopLeft = Until(time) /\ LoopLeft' = Until(time)'
    BY <1>1, <2>1 DEF LoopLeft
  <2> QED
    BY <1>3, <2>2
<1>5. LoopTimer' = IF t < LoopTimer THEN LoopTimer - t ELSE 0
  <2>1. CASE Remembered.pc = "sleeping"
    <3>1. PICK time \in Nat : time = history[Len(history)].now + Remembered.delay
      <4>1. Latest # 0
        <5>1. NewLocals.pc # "sleeping"
          BY DEF NewLocals
        <5> QED
          BY <2>1, <5>1, RememberedIs, StateTyped DEF Before, IInv
      <4>2. history[Len(history)].now \in Nat
        BY <4>1, StateTyped DEF Latest, IInv
      <4>3. Remembered.delay \in Nat
        BY <1>1 DEF LocalsType
      <4> QED
        BY <4>2, <4>3
    <3>2. LoopTimer = Until(time) /\ LoopTimer' = Until(time)'
      BY <1>1, <2>1, <3>1 DEF LoopTimer
    <3> QED
      BY <1>3, <3>1, <3>2
  <2>2. CASE Remembered.pc # "sleeping"
    <3>1. LoopTimer = 0 /\ LoopTimer' = 0
      BY <1>1, <2>2 DEF LoopTimer
    <3> QED
      BY <3>1
  <2> QED
    BY <2>1, <2>2
<1>6. CASE LoopLeft' = LoopLeft /\ LoopTimer' = LoopTimer
  BY <1>1, <1>2, <1>6 DEF Loop!vars
<1>7. CASE LoopLeft' # LoopLeft \/ LoopTimer' # LoopTimer
  <2>1. PICK s \in 1..(LoopLeft + LoopTimer) :
          /\ LoopLeft' = IF s < LoopLeft THEN LoopLeft - s ELSE 0
          /\ LoopTimer' = IF s < LoopTimer THEN LoopTimer - s ELSE 0
    <3>1. CASE t <= LoopLeft + LoopTimer
      <4>1. t \in 1..(LoopLeft + LoopTimer)
        BY <1>1, <1>4, <1>5, <1>7, <3>1
      <4> QED
        BY <1>4, <1>5, <4>1
    <3>2. CASE t > LoopLeft + LoopTimer
      <4>1. LoopLeft' = 0 /\ LoopTimer' = 0 /\ LoopLeft + LoopTimer \in 1..(LoopLeft + LoopTimer)
        BY <1>1, <1>4, <1>5, <1>7, <3>2
      <4>2. ~(LoopLeft + LoopTimer < LoopLeft) /\ ~(LoopLeft + LoopTimer < LoopTimer)
        BY <1>1
      <4> QED
        BY <4>1, <4>2
    <3> QED
      BY <1>1, <3>1, <3>2
  <2> QED
    BY <1>1, <1>2, <2>1 DEF Loop!TimePasses, Loop!After, Loop!Next
<1> QED
  BY <1>6, <1>7

(***************************************************************************)
(* A completed task is a step of the loop: the code, from the locals of the*)
(* task before it, on the event that woke it, at the time of that task.    *)
(***************************************************************************)
LEMMA CommitSteps ==
  ASSUME IInv, Clocked, Commit
  PROVE  Loop!Next
<1>0. PICK n \in Nat : n = Latest + 1
  BY StateTyped DEF IInv
<1> DEFINE l == Before(n)
           e == task.event
           r == Result(n, e, clock)
           h == [event |-> task.event, now |-> clock, command |-> local.command,
                 locals |-> local.locals]
<1>1. /\ args' = args /\ clock' = clock /\ local.consumed = n /\ task.taken
      /\ history' = Append(history, h)
  BY <1>0 DEF Commit, Latest
<1>2. /\ Latest \in Nat /\ DOMAIN history = 1..Latest /\ n \in 1..(Latest + 1) /\ clock \in Nat
      /\ e \in EventType /\ history \in Seq(Record) /\ args \in Waits
  BY <1>0, StateTyped DEF IInv, TaskRecord
<1>3. Sensible(n, e) /\ task.due
  BY <1>0, <1>1 DEF IInv, Due
<1>4. local.locals = r.locals /\ local.command = r.command
  BY <1>0, <1>1 DEF IInv, Cache
<1>5. l = Remembered /\ l \in LocalsType /\ LoopLeft \in Nat /\ LoopTimer \in Nat
  BY <1>0, RememberedIs
<1>6. l.delay \in Nat /\ l.deadline \in Nat
  BY <1>5 DEF LocalsType
<1>7. h.now = clock /\ h.command = local.command /\ h.locals = local.locals
  OBVIOUS
<1>8. r.locals \in LocalsType
  BY <1>2, <1>3, ResultShaped DEF IInv
<1> HIDE DEF h, l, r, e
<1>9. history' # << >> /\ history'[Len(history')] = h
  BY <1>1, <1>2
<1>10. Remembered' = r.locals /\ Issued' = r.command
  BY <1>4, <1>7, <1>9 DEF Remembered, Issued
<1>11. \A time : Until(time)' = Until(time)
  BY <1>1 DEF Until
<1>12. LoopTimer' = IF r.locals.pc = "sleeping" THEN Until(clock + r.locals.delay) ELSE 0
  BY <1>1, <1>7, <1>9, <1>10 DEF LoopTimer, Until
<1>13. LoopLeft' = Until(r.locals.deadline) /\ LoopLeft = Until(l.deadline)
  BY <1>1, <1>5, <1>10 DEF LoopLeft, Until
<1>14. r.locals.pc = "done" => LoopOutcome' = r.command.type
  BY <1>10, Zenon DEF LoopOutcome
<1>15. r.locals.pc # "done" /\ l.pc # "done" => LoopOutcome' = LoopOutcome
  BY <1>5, <1>10, Zenon DEF LoopOutcome
<1>16. ASSUME NEW type, EndsAs(r, l, type) PROVE Loop!Ends(type)
  <2>1. /\ Remembered'.pc = "done" /\ Remembered'.delay = Remembered.delay
        /\ r.locals.deadline = l.deadline /\ r.command.type = type
    BY <1>5, <1>10, <1>16 DEF EndsAs
  <2>2. LoopOutcome' = type /\ LoopTimer' = 0 /\ LoopLeft' = LoopLeft
    BY <1>10, <1>12, <1>13, <1>14, <2>1
  <2> QED
    BY <1>1, <2>1, <2>2 DEF Loop!Ends
<1>17. e.kind \in {"called", "returned", "raised", "fired", "cancelled"}
  BY <1>2, <1>3 DEF EventType, Sensible
<1>18. CASE e.kind \in {"raised", "cancelled"}
  <2>1. r = Ends(l, "raise", e.kind)
    BY <1>18 DEF Result, Resume, r, l
  <2>2. EndsAs(r, l, e.kind)
    BY <1>5, <2>1, EndsKeep
  <2>3. /\ e.kind = "raised" => Remembered.pc \in {"starting", "polling"}
        /\ Remembered.pc \in {"starting", "polling", "sleeping"}
    BY <1>3, <1>5, <1>18 DEF Sensible, l
  <2>4. Loop!Ends(e.kind)
    BY <1>16, <2>2
  <2> QED
    BY <1>18, <2>3, <2>4 DEF Loop!Interrupted, Loop!Next
<1>19. CASE e.kind = "called"
  <2>1. r = Awaits(l, "starting", Issue("write_start"))
    BY <1>19 DEF Result, Resume, r, l
  <2>2. l = NewLocals
    BY <1>3, <1>19 DEF Sensible, Before, l
  <2>3. l.pc = "new" /\ l.delay = 0 /\ l.deadline = 0
    BY <2>2 DEF NewLocals
  <2>4. /\ r.locals.pc = "starting" /\ r.locals.delay = l.delay
        /\ r.locals.deadline = l.deadline
    BY <1>5, <2>1, AwaitsIs
  <2>5. LoopOutcome' = LoopOutcome
    BY <1>15, <2>3, <2>4
  <2>6. LoopTimer = 0 /\ LoopTimer' = 0 /\ LoopLeft' = LoopLeft
    <3>1. LoopTimer = 0
      BY <1>5, <2>3 DEF LoopTimer
    <3> QED
      BY <1>12, <1>13, <2>4, <3>1
  <2> QED
    BY <1>1, <1>5, <1>10, <2>3, <2>4, <2>5, <2>6 DEF Loop!Enqueue, Loop!Next
<1>20. CASE e.kind = "returned" /\ l.pc = "starting"
  <2>1. r = Enqueued(l, clock)
    BY <1>20 DEF Result, Resume, r, l, e
  <2>2. /\ r.locals.pc = "polling" /\ r.locals.deadline = clock + args.max_wait
        /\ r.locals.delay = args.poll_interval
    BY <1>2, <1>5, <2>1, EnqueuedIs
  <2>3. LoopOutcome' = LoopOutcome
    BY <1>15, <1>20, <2>2
  <2>4. LoopTimer = 0 /\ LoopTimer' = 0
    <3>1. LoopTimer = 0
      BY <1>5, <1>20 DEF LoopTimer
    <3> QED
      BY <1>12, <2>2, <3>1
  <2>5. LoopLeft' = args.max_wait
    <3>1. args.max_wait \in Nat
      BY <1>2, WaitTyped
    <3> QED
      BY <1>2, <1>13, <2>2, <3>1, UntilTyped
  <2> QED
    BY <1>1, <1>5, <1>10, <1>20, <2>2, <2>3, <2>4, <2>5 DEF Loop!Enqueued, Loop!Next
<1>21. CASE e.kind = "fired"
  <2>1. r = Woken(l, clock)
    BY <1>21 DEF Result, Resume, r, l, e
  <2>2. l.pc = "sleeping" /\ n # 1
    BY <1>3, <1>21 DEF Sensible, l
  <2>3. /\ r.locals.pc = "polling" /\ r.locals.deadline = l.deadline
        /\ r.locals.delay = Shorter(Grown(l.delay), args.max_poll_interval)
    BY <1>2, <1>5, <2>1, WokenIs
  <2>4. LoopOutcome' = LoopOutcome
    BY <1>15, <2>2, <2>3
  <2>5. LoopTimer = 0
    <3>1. Latest # 0 /\ l = Last.locals /\ Told(Latest)
      BY <1>0, <1>2, <2>2 DEF l, Before, Last, IInv, Recording
    <3>2. Last.command.delay = l.delay
      BY <2>2, <3>1 DEF Told, Shape, Last
    <3>3. clock >= Last.now + l.delay
      BY <1>3, <1>21, <3>1, <3>2 DEF Clocked, e
    <3>4. Last.now \in Nat
      BY <3>1, LastTyped DEF IInv
    <3>5. LoopTimer = Until(Last.now + l.delay)
      BY <1>5, <2>2 DEF LoopTimer, Last, Latest
    <3> QED
      BY <1>2, <1>6, <3>3, <3>4, <3>5 DEF Until
  <2>6. LoopTimer' = 0 /\ LoopLeft' = LoopLeft
    BY <1>12, <1>13, <2>3
  <2>7. Loop!Shorter(Loop!Grown(l.delay), args.max_poll_interval) =
          Shorter(Grown(l.delay), args.max_poll_interval)
    BY DEF Loop!Shorter, Loop!Grown, Shorter, Grown
  <2> QED
    BY <1>1, <1>5, <1>10, <2>2, <2>3, <2>4, <2>5, <2>6, <2>7 DEF Loop!Wake, Loop!Next
<1>22. CASE e.kind = "returned" /\ l.pc # "starting"
  <2>1. r = Polled(l, e.status, clock)
    BY <1>22 DEF Result, Resume, r, l, e
  <2>2. l.pc = "polling"
    BY <1>3, <1>22 DEF Sensible, l
  <2>3. CASE \E type \in {"completed", "XmemoryWriteFailed", "XmemoryWriteNotFound"} :
               EndsAs(r, l, type)
    BY <1>5, <1>16, <2>2, <2>3 DEF Loop!Report, Loop!Next
  <2>4. CASE NoRoom(l, clock) /\ EndsAs(r, l, "XmemoryWriteTimeout")
    <3>1. l.delay >= LoopLeft
      BY <1>2, <1>6, <1>13, <2>4, UntilTyped DEF NoRoom
    <3> QED
      BY <1>5, <1>16, <2>2, <2>4, <3>1 DEF Loop!GiveUp, Loop!Next
  <2>5. CASE Sleeping(r, l, clock)
    <3>1. /\ r.locals.pc = "sleeping" /\ r.locals.delay = l.delay
          /\ r.locals.deadline = l.deadline /\ clock + l.delay < l.deadline
      BY <2>5, Zenon DEF Sleeping
    <3>2. l.delay < LoopLeft
      BY <1>2, <1>6, <1>13, <3>1 DEF Until
    <3>3. LoopTimer' = l.delay /\ LoopLeft' = LoopLeft
      BY <1>2, <1>6, <1>12, <1>13, <3>1, UntilTyped
    <3>4. LoopOutcome' = LoopOutcome
      BY <1>15, <2>2, <3>1
    <3> QED
      BY <1>1, <1>5, <1>10, <2>2, <3>1, <3>2, <3>3, <3>4 DEF Loop!Sleep, Loop!Next
  <2> QED
    BY <1>2, <1>5, <2>1, <2>3, <2>4, <2>5, PolledWays
<1> QED
  BY <1>17, <1>18, <1>19, <1>20, <1>21, <1>22

LEMMA InitLoops == Init => Loop!Init
<1> SUFFICES ASSUME Init PROVE Loop!Init
  OBVIOUS
<1>1. args \in Waits /\ Remembered = NewLocals /\ clock = 0
  BY DEF Init, Remembered
<1>2. Remembered.pc = "new" /\ Remembered.delay = 0 /\ Remembered.deadline = 0
  BY <1>1 DEF NewLocals
<1>3. LoopLeft = 0 /\ LoopTimer = 0
  BY <1>1, <1>2 DEF LoopLeft, LoopTimer, Until
<1>4. LoopOutcome = ""
  BY <1>2, Zenon DEF LoopOutcome
<1> QED
  BY <1>1, <1>2, <1>3, <1>4, Zenon DEF Loop!Init

(***************************************************************************)
(* For every interval, cap and max_wait, over any number of crashes and    *)
(* evictions: write_durable on workers that lose its locals implements the *)
(* loop whose locals nothing can lose.                                     *)
(***************************************************************************)
THEOREM ReplayImplementsLoop == Spec => ImplementsWriteLoop
<1>1. IInv /\ PaceInv /\ [Next]_vars => [Loop!Next]_(Loop!vars)
  <2> SUFFICES ASSUME IInv, PaceInv, [Next]_vars PROVE [Loop!Next]_(Loop!vars)
    OBVIOUS
  <2>1. CASE Commit
    BY <2>1, CommitSteps DEF PaceInv
  <2>2. CASE ~Commit
    <3>1. args' = args /\ history' = history
      BY <2>2 DEF Next, Replay, Execute, Crash, Evict, ActivityEnds, TimerFires,
                  CancelRequested, Wakes, Take, Ended, vars
    <3>2. \E t \in Nat : clock' = clock + t
      <4>1. clock \in Nat
        BY StateTyped DEF IInv
      <4>2. CASE clock' = clock
        BY <4>1, <4>2
      <4>3. CASE Take
        BY <4>3, ReplayAssumption DEF Take
      <4>4. CASE ActivityEnds
        BY <4>4, ReplayAssumption DEF ActivityEnds, Wakes
      <4>5. CASE TimerFires
        <5>1. Waiting /\ \E lag \in Lags : clock' = clock + (Issued.delay + lag)
          BY <4>5 DEF TimerFires, Wakes
        <5>2. Issued.delay \in Nat
          BY <5>1, WaitingFor
        <5>3. PICK lag \in Lags : clock' = clock + (Issued.delay + lag)
          BY <5>1
        <5>4. Issued.delay + lag \in Nat
          BY <5>2, <5>3, ReplayAssumption
        <5> QED
          BY <5>3, <5>4
      <4>6. CASE CancelRequested
        BY <4>1, <4>6 DEF CancelRequested, Wakes
      <4> QED
        BY <2>2, <4>2, <4>3, <4>4, <4>5, <4>6
           DEF Next, Replay, Execute, Crash, Evict, Ended, vars
    <3> QED
      BY <3>1, <3>2, OthersPass
  <2> QED
    BY <2>1, <2>2
<1> QED
  BY IInvInvariant, PaceInvariant, InitLoops, <1>1, PTL DEF Spec, ImplementsWriteLoop, Loop!Spec
============================================================================
