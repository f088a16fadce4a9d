--------------------------- MODULE WorkerBinding ----------------------------
(***************************************************************************)
(* XmemoryPlugin in one process: one XmemoryActivities object serves all   *)
(* Workers built from a Client, and each Worker's run context opens a      *)
(* client, binds it to a ContextVar, and on the way out unbinds and closes *)
(* it.  Handlers are tasks: each carries the copy of the context it was    *)
(* created in, and finds its client there.                                 *)
(***************************************************************************)
EXTENDS Naturals, FiniteSets

CONSTANTS
  Workers,    (* Workers of the process                                      *)
  Tasks,      (* asyncio tasks that call worker.run()                        *)
  Handlers,   (* slots for activity handlers under way                       *)
  None,       (* the ContextVar's default                                    *)
  Outer,      (* a handle somebody bound by hand, outside the plugin         *)
  Lent,       (* the `instance` or `http_client` the caller supplied         *)
  Settings,   (* the ways the process may be set up                          *)
  MaxStarts   (* bound: how often one Worker slot is started                 *)

Opened == [worker: Workers, start: 1..MaxStarts]
Client == Opened \cup {Outer, Lent}

(* `supplied`: what XmemoryPlugin was given besides its config.  `key`: an   *)
(* API key can be resolved.  `plugged`: the Worker inherited the plugin; its *)
(* activities may also be registered without it.  `task`: where it runs.     *)
(* `outer`: what each task's context holds before any Worker runs in it.     *)
SettingType ==
  [supplied: {"nothing", "http_client", "instance"}, key: BOOLEAN,
   plugged: [Workers -> BOOLEAN], task: [Workers -> Tasks], outer: [Tasks -> {None, Outer}]]

ASSUME BindingAssumption ==
  /\ MaxStarts \in Nat
  /\ Settings \subseteq SettingType
  /\ None \notin Client /\ Outer \notin Opened /\ Lent \notin Opened

VARIABLES
  setting,   (* one of Settings                                               *)
  bound,     (* _bound_instance in the context of each task                   *)
  worker,    (* each Worker's run context: where it is, how often it started, *)
             (* and the token bind returned (the value it replaced)           *)
  open,      (* the transports a call can be made on                          *)
  handler    (* each handler under way: its Worker, its context, its client   *)

vars == <<setting, bound, worker, open, handler>>

NoHandler == [pc |-> "idle", worker |-> None, context |-> None, client |-> None]
HandlerType ==
  {NoHandler}
    \cup [pc: {"started"}, worker: Workers, context: Client \cup {None}, client: {None}]
    \cup [pc: {"calling"}, worker: Workers, context: Client, client: Client]

Init ==
  /\ setting \in Settings
  /\ bound = setting.outer
  /\ worker = [w \in Workers |-> [pc |-> "idle", starts |-> 0, token |-> None]]
  /\ open = {Lent, Outer}
  /\ handler = [h \in Handlers |-> NoHandler]

Task(w) == setting.task[w]
Latest(w) == [worker |-> w, start |-> worker[w].starts]

\* What _run_context binds: the handle it was given, or the client it opened.
Own(w) == IF setting.supplied = "instance" THEN Lent ELSE Latest(w)

\* A client on a caller's http_client has no transport of its own.
Transport(client) ==
  IF client \in Opened /\ setting.supplied = "http_client" THEN Lent ELSE client

\* worker.run() is awaited: its task does nothing else meanwhile.
MayRun(w) ==
  /\ worker[w].pc = "idle" /\ worker[w].starts < MaxStarts
  /\ \A v \in Workers : Task(v) = Task(w) => worker[v].pc = "idle"

Started(w, pc) == [worker EXCEPT ![w].pc = pc, ![w].starts = @ + 1]

(***************************************************************************)
(* The run context: _bound and _opened.                                    *)
(***************************************************************************)
\* Mutant: one attribute of the shared activities object, last bind wins.
Bound_Shared(w, client) == [t \in Tasks |-> client]

Bound(w, client) == [bound EXCEPT ![Task(w)] = client]

\* Without the plugin there is no run context at all.
RunUnplugged(w) ==
  /\ MayRun(w) /\ ~setting.plugged[w]
  /\ worker' = Started(w, "serving")
  /\ UNCHANGED <<setting, bound, open, handler>>

BindSupplied(w) ==
  /\ MayRun(w) /\ setting.plugged[w] /\ setting.supplied = "instance"
  /\ worker' = [Started(w, "serving") EXCEPT ![w].token = bound[Task(w)]]
  /\ bound' = Bound(w, Lent)
  /\ UNCHANGED <<setting, open, handler>>

\* Mutant: the key is only looked for when an activity needs the client.
FailToStart_Lazy(w) ==
  /\ MayRun(w) /\ setting.plugged[w] /\ setting.supplied # "instance" /\ ~setting.key
  /\ worker' = [Started(w, "serving") EXCEPT ![w].token = bound[Task(w)]]
  /\ UNCHANGED <<setting, bound, open, handler>>

\* resolve_api_key raises, so worker.run() does.
FailToStart(w) ==
  /\ MayRun(w) /\ setting.plugged[w] /\ setting.supplied # "instance" /\ ~setting.key
  /\ worker' = Started(w, "idle")
  /\ UNCHANGED <<setting, bound, open, handler>>

Open(w) ==
  /\ MayRun(w) /\ setting.plugged[w] /\ setting.supplied # "instance" /\ setting.key
  /\ worker' = Started(w, "opening")
  /\ open' = open \cup {Transport([worker |-> w, start |-> worker[w].starts + 1])}
  /\ UNCHANGED <<setting, bound, handler>>

BindOpened(w) ==
  /\ worker[w].pc = "opening"
  /\ worker' = [worker EXCEPT ![w].pc = "serving", ![w].token = bound[Task(w)]]
  /\ bound' = Bound(w, Latest(w))
  /\ UNCHANGED <<setting, open, handler>>

\* Shutdown was requested, worker.run() failed or was cancelled.
Stop(w) ==
  /\ worker[w].pc = "serving"
  /\ worker' = [worker EXCEPT ![w].pc = "draining"]
  /\ UNCHANGED <<setting, bound, open, handler>>

\* worker.run() returns or raises only when its handlers have ended.
Drained(w) == worker[w].pc = "draining" /\ \A h \in Handlers : handler[h].worker # w

\* Mutant: unbinding clears the variable instead of resetting it.
Unbind_Clears(w) ==
  /\ Drained(w) /\ setting.plugged[w]
  /\ worker' = [worker EXCEPT ![w].token = None,
                ![w].pc = IF setting.supplied = "instance" THEN "idle" ELSE "closing"]
  /\ bound' = [bound EXCEPT ![Task(w)] = None]
  /\ UNCHANGED <<setting, open, handler>>

\* A handle the caller supplied is left as it is.
Unbind(w) ==
  /\ Drained(w) /\ setting.plugged[w]
  /\ worker' = [worker EXCEPT ![w].token = None,
                ![w].pc = IF setting.supplied = "instance" THEN "idle" ELSE "closing"]
  /\ bound' = [bound EXCEPT ![Task(w)] = worker[w].token]
  /\ UNCHANGED <<setting, open, handler>>

EndUnplugged(w) ==
  /\ Drained(w) /\ ~setting.plugged[w]
  /\ worker' = [worker EXCEPT ![w].pc = "idle"]
  /\ UNCHANGED <<setting, bound, open, handler>>

\* Mutant: leaving the run context closes the transport whoever owns it.
Close_Lent(w) ==
  /\ worker[w].pc = "closing"
  /\ worker' = [worker EXCEPT ![w].pc = "idle"]
  /\ open' = open \ {Transport(Latest(w))}
  /\ UNCHANGED <<setting, bound, handler>>

\* Mutant: only a transport the caller lent is closed.
Close_Leaks(w) ==
  /\ worker[w].pc = "closing"
  /\ worker' = [worker EXCEPT ![w].pc = "idle"]
  /\ UNCHANGED <<setting, bound, open, handler>>

\* "Closes only a client-owned transport, so a caller's stays open."
Close(w) ==
  /\ worker[w].pc = "closing"
  /\ worker' = [worker EXCEPT ![w].pc = "idle"]
  /\ open' = open \ {Latest(w)}
  /\ UNCHANGED <<setting, bound, handler>>

(***************************************************************************)
(* Handlers.                                                               *)
(***************************************************************************)
\* The Worker creates a task, which copies the context worker.run() is in.
Begin(w, h) ==
  /\ worker[w].pc = "serving" /\ handler[h].pc = "idle"
  /\ handler' = [handler EXCEPT ![h] =
       [NoHandler EXCEPT !.pc = "started", !.worker = w, !.context = bound[Task(w)]]]
  /\ UNCHANGED <<setting, bound, worker, open>>

\* XmemoryActivities.instance: XmemoryNotBound ends the handler.
Refuse(h) ==
  /\ handler[h].pc = "started" /\ handler[h].context = None
  /\ handler' = [handler EXCEPT ![h] = NoHandler]
  /\ UNCHANGED <<setting, bound, worker, open>>

\* Mutant: the unbound default is taken for a client.
Call_Unchecked(h) ==
  /\ handler[h].pc = "started"
  /\ handler' = [handler EXCEPT ![h].pc = "calling", ![h].client = handler[h].context]
  /\ UNCHANGED <<setting, bound, worker, open>>

Call(h) ==
  /\ handler[h].pc = "started" /\ handler[h].context # None
  /\ handler' = [handler EXCEPT ![h].pc = "calling", ![h].client = handler[h].context]
  /\ UNCHANGED <<setting, bound, worker, open>>

\* The client returned, raised or timed out.
Return(h) ==
  /\ handler[h].pc = "calling"
  /\ handler' = [handler EXCEPT ![h] = NoHandler]
  /\ UNCHANGED <<setting, bound, worker, open>>

(***************************************************************************)
Leave(w) == Unbind(w) \/ EndUnplugged(w) \/ Close(w)
Work(h) == Refuse(h) \/ Call(h) \/ Return(h)

\* All Workers have ended for good.
Ended ==
  /\ \A w \in Workers : worker[w].pc = "idle" /\ worker[w].starts = MaxStarts
  /\ UNCHANGED vars

Next ==
  \/ \E w \in Workers :
       \/ RunUnplugged(w) \/ BindSupplied(w) \/ FailToStart(w) \/ Open(w) \/ BindOpened(w)
       \/ Stop(w) \/ Unbind(w) \/ EndUnplugged(w) \/ Close(w)
       \/ \E h \in Handlers : Begin(w, h)
  \/ \E h \in Handlers : Refuse(h) \/ Call(h) \/ Return(h)
  \/ Ended

\* A client call ends (its timeout sees to it) and a Worker that stops goes on.
Fairness ==
  /\ \A w \in Workers : WF_vars(BindOpened(w)) /\ WF_vars(Leave(w))
  /\ \A h \in Handlers : WF_vars(Work(h))

Spec == Init /\ [][Next]_vars /\ Fairness

(***************************************************************************)
(* Types of the bindings, the run contexts and the handlers.               *)
(***************************************************************************)
TypeOK ==
  /\ setting \in Settings
  /\ bound \in [Tasks -> Client \cup {None}]
  /\ worker \in [Workers -> [pc: {"idle", "opening", "serving", "draining", "closing"},
                             starts: 0..MaxStarts, token: Client \cup {None}]]
  /\ open \subseteq Client
  /\ handler \in [Handlers -> HandlerType]

(***************************************************************************)
(* A handler calls the client of its own Worker, the one this start opened *)
(* or the one the caller supplied, however the Workers of the process      *)
(* start, stop and share the activities object; without the plugin it gets *)
(* what was bound by hand around its Worker, never a sibling's client.     *)
(***************************************************************************)
OwnClient ==
  \A h \in Handlers : handler[h].pc = "calling" =>
    LET w == handler[h].worker
    IN handler[h].client = IF setting.plugged[w] THEN Own(w) ELSE setting.outer[Task(w)]

(***************************************************************************)
(* No call is under way on a closed transport: a Worker closes its client  *)
(* after its last handler, and a caller's transport, which siblings use,   *)
(* stays open when one Worker ends.                                        *)
(***************************************************************************)
NoClosedClient ==
  \A h \in Handlers : handler[h].pc = "calling" => Transport(handler[h].client) \in open

(***************************************************************************)
(* A Worker with the plugin never answers XmemoryNotBound: what keeps it   *)
(* from having a client, a missing API key, keeps it from starting.        *)
(***************************************************************************)
PluggedNeverRefuses ==
  \A h \in Handlers : handler[h].pc = "started" /\ setting.plugged[handler[h].worker]
                        => handler[h].context # None

(***************************************************************************)
(* When no Worker runs in a task, its context holds what it held before    *)
(* the first one did, however the Workers ended.                           *)
(***************************************************************************)
Restored ==
  \A t \in Tasks :
    (\A w \in Workers : Task(w) = t => worker[w].pc \in {"idle", "opening", "closing"})
      => bound[t] = setting.outer[t]

(***************************************************************************)
(* A Worker that stops comes to an end, and closes the transport its       *)
(* client opened: none is leaked over any number of restarts.              *)
(***************************************************************************)
StopsClean ==
  \A w \in Workers : worker[w].pc = "draining" ~>
    (worker[w].pc = "idle" /\ \A client \in Opened : client.worker = w => client \notin open)
============================================================================
