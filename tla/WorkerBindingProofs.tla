------------------------ MODULE WorkerBindingProofs ------------------------
(***************************************************************************)
(* The binding of clients to Workers, for every number of Workers, tasks,  *)
(* handlers and restarts, and every way to set the process up.             *)
(***************************************************************************)
EXTENDS WorkerBinding, TLAPS

(***************************************************************************)
(* The inductive invariant.  A Worker under way is alone in its task, so   *)
(* the task's context is that Worker's to set and to reset; its handlers   *)
(* live only while it serves or drains, and copied the context it set.     *)
(***************************************************************************)
Running(w) == worker[w].pc \in {"serving", "draining"}
Alone(w) == \A v \in Workers \ {w} : Task(v) = Task(w) => worker[v].pc = "idle"
Rightful(w) == IF setting.plugged[w] THEN Own(w) ELSE setting.outer[Task(w)]
Opens(w) == setting.plugged[w] /\ setting.supplied # "instance"

UnderWay(w) == worker[w].pc # "idle" => Alone(w) /\ worker[w].starts \in 1..MaxStarts
Owner(w) == worker[w].pc \in {"opening", "closing"} => Opens(w)
Holds(w) ==
  Running(w) => /\ bound[Task(w)] = Rightful(w)
                /\ setting.plugged[w] => worker[w].token = setting.outer[Task(w)]
Reachable(w) == worker[w].pc # "idle" /\ Opens(w) => Transport(Latest(w)) \in open
WorkerOK(w) == UnderWay(w) /\ Owner(w) /\ Holds(w) /\ Reachable(w)

HandlerOK(h) ==
  handler[h].pc # "idle" =>
    /\ Running(handler[h].worker)
    /\ handler[h].context = Rightful(handler[h].worker)
    /\ handler[h].pc = "calling" => handler[h].client = handler[h].context

IInv ==
  /\ TypeOK /\ Restored
  /\ \A w \in Workers : WorkerOK(w)
  /\ \A h \in Handlers : HandlerOK(h)
  /\ Lent \in open /\ Outer \in open

WorkerType == [pc: {"idle", "opening", "serving", "draining", "closing"},
               starts: 0..MaxStarts, token: Client \cup {None}]

LEMMA SettingTyped ==
  ASSUME IInv
  PROVE  /\ setting \in SettingType
         /\ \A w \in Workers : Task(w) \in Tasks /\ setting.plugged[w] \in BOOLEAN
         /\ \A t \in Tasks : setting.outer[t] \in {None, Outer}
BY BindingAssumption DEF IInv, TypeOK, SettingType, Task

LEMMA HandlersTyped ==
  ASSUME IInv, NEW h \in Handlers, handler[h].pc # "idle"
  PROVE  handler[h].worker \in Workers
BY DEF IInv, TypeOK, HandlerType, NoHandler

\* A Worker that starts or is under way is alone in its task.
LEMMA StepsAlone ==
  ASSUME IInv, NEW w \in Workers, MayRun(w) \/ worker[w].pc # "idle"
  PROVE  Alone(w)
BY DEF IInv, WorkerOK, UnderWay, MayRun, Alone

(***************************************************************************)
(* A step of one Worker: what is left to show is that the Worker itself is *)
(* as it should be, and that the transports others use stay open.          *)
(***************************************************************************)
LEMMA WorkerStep ==
  ASSUME IInv, NEW w \in Workers, Alone(w),
         NEW r \in WorkerType, worker' = [worker EXCEPT ![w] = r],
         NEW b \in Client \cup {None}, bound' = [bound EXCEPT ![Task(w)] = b],
         UNCHANGED <<setting, handler>>,
         open' \subseteq Client, Lent \in open', Outer \in open',
         \A v \in Workers \ {w} : Transport(Latest(v)) \in open => Transport(Latest(v)) \in open',
         \/ ~Running(w)
         \/ \A h \in Handlers : handler[h].worker # w
         \/ r.pc \in {"serving", "draining"} /\ r.starts = worker[w].starts,
         WorkerOK(w)',
         r.pc \in {"idle", "opening", "closing"} => b = setting.outer[Task(w)]
  PROVE  IInv'
<1>1. /\ worker \in [Workers -> WorkerType] /\ bound \in [Tasks -> Client \cup {None}]
      /\ Task(w) \in Tasks
  BY SettingTyped DEF IInv, TypeOK, WorkerType
<1>2. /\ worker'[w] = r /\ \A v \in Workers \ {w} : worker'[v] = worker[v]
      /\ bound'[Task(w)] = b /\ \A t \in Tasks \ {Task(w)} : bound'[t] = bound[t]
  BY <1>1
<1>3. TypeOK'
  BY <1>1 DEF IInv, TypeOK, WorkerType
<1>4. Restored'
  <2> SUFFICES ASSUME NEW t \in Tasks,
                      \A v \in Workers : Task(v)' = t => worker'[v].pc \in {"idle", "opening", "closing"}
               PROVE  bound'[t] = setting.outer[t]
    BY DEF Restored
  <2>1. CASE t = Task(w)
    BY <1>2, <2>1 DEF Task
  <2>2. CASE t # Task(w)
    BY <1>2, <2>2 DEF IInv, Restored, Task
  <2> QED
    BY <2>1, <2>2
<1>5. ASSUME NEW v \in Workers \ {w} PROVE WorkerOK(v)'
  <2>1. /\ worker'[v] = worker[v] /\ WorkerOK(v) /\ Task(v) \in Tasks
        /\ Task(v)' = Task(v) /\ Opens(v)' = Opens(v) /\ Rightful(v)' = Rightful(v)
        /\ Transport(Latest(v))' = Transport(Latest(v))
    BY <1>2, <1>5, SettingTyped DEF IInv, Task, Opens, Rightful, Own, Latest, Transport
  <2>2. worker[v].pc # "idle" => Task(v) # Task(w)
    BY <1>5 DEF Alone
  <2>3. worker[v].pc # "idle" => Alone(v)'
    <3>1. ASSUME worker[v].pc # "idle", NEW u \in Workers \ {v}, Task(u)' = Task(v)'
          PROVE  worker'[u].pc = "idle"
      <4>1. u # w /\ worker'[u] = worker[u]
        BY <1>2, <2>2, <3>1 DEF Task
      <4> QED
        BY <2>1, <3>1, <4>1 DEF WorkerOK, UnderWay, Alone, Task
    <3> QED
      BY <3>1 DEF Alone
  <2>4. Running(v)' <=> Running(v)
    BY <2>1 DEF Running
  <2>5. Running(v) => bound'[Task(v)] = bound[Task(v)]
    BY <1>2, <2>1, <2>2 DEF Running
  <2>6. worker[v].pc # "idle" /\ Opens(v) => Transport(Latest(v)) \in open'
    BY <1>5, <2>1 DEF WorkerOK, Reachable
  <2>7. Running(v) => /\ bound[Task(v)] = Rightful(v)
                      /\ setting.plugged[v] => worker[v].token = setting.outer[Task(v)]
    BY <2>1 DEF WorkerOK, Holds
  <2>8. Running(v)' => /\ bound'[Task(v)'] = Rightful(v)'
                       /\ setting'.plugged[v] => worker'[v].token = setting'.outer[Task(v)']
    BY <2>1, <2>4, <2>5, <2>7
  <2>9. worker[v].pc # "idle" => worker[v].starts \in 1..MaxStarts
    BY <2>1 DEF WorkerOK, UnderWay
  <2>10. worker[v].pc \in {"opening", "closing"} => Opens(v)
    BY <2>1 DEF WorkerOK, Owner
  <2>11. UnderWay(v)'
    BY <2>1, <2>3, <2>9 DEF UnderWay
  <2>12. Owner(v)'
    BY <2>1, <2>10 DEF Owner
  <2>13. Holds(v)'
    BY <2>8 DEF Holds
  <2>14. Reachable(v)'
    BY <2>1, <2>6 DEF Reachable
  <2> QED
    BY <2>11, <2>12, <2>13, <2>14 DEF WorkerOK
<1>6. ASSUME NEW h \in Handlers PROVE HandlerOK(h)'
  <2> SUFFICES ASSUME handler[h].pc # "idle"
               PROVE  /\ Running(handler[h].worker)'
                      /\ handler[h].context = Rightful(handler[h].worker)'
                      /\ handler[h].pc = "calling" => handler[h].client = handler[h].context
    BY DEF HandlerOK
  <2>1. PICK v \in Workers : v = handler[h].worker
    BY HandlersTyped
  <2>2. /\ Running(v) /\ handler[h].context = Rightful(v)
        /\ handler[h].pc = "calling" => handler[h].client = handler[h].context
    BY <1>6, <2>1 DEF IInv, HandlerOK
  <2>3. worker'[v].pc \in {"serving", "draining"} /\ worker'[v].starts = worker[v].starts
    BY <1>2, <1>6, <2>1, <2>2 DEF Running
  <2>4. Running(v)' /\ Rightful(v)' = Rightful(v)
    BY <2>3 DEF Running, Rightful, Own, Latest, Task
  <2> QED
    BY <2>1, <2>2, <2>4
<1> QED
  BY <1>3, <1>4, <1>5, <1>6 DEF IInv

(***************************************************************************)
(* The steps of a Worker.                                                  *)
(***************************************************************************)
LEMMA Typing ==
  ASSUME IInv
  PROVE  /\ worker \in [Workers -> WorkerType] /\ bound \in [Tasks -> Client \cup {None}]
         /\ open \subseteq Client /\ Lent \in open /\ Outer \in open
         /\ \A t \in Tasks : [bound EXCEPT ![t] = bound[t]] = bound
         /\ \A v \in Workers : Task(v) \in Tasks /\ worker[v] \in WorkerType
BY SettingTyped DEF IInv, TypeOK, WorkerType

\* Where no Worker runs the context is as it was found.
LEMMA StartsFresh ==
  ASSUME IInv, NEW w \in Workers, MayRun(w)
  PROVE  /\ bound[Task(w)] = setting.outer[Task(w)] /\ ~Running(w) /\ Alone(w)
         /\ worker[w].starts + 1 \in 1..MaxStarts /\ worker[w].starts + 1 \in 0..MaxStarts
         /\ worker[w] \in WorkerType
<1>1. worker[w] \in WorkerType /\ worker[w].starts \in 0..MaxStarts /\ Task(w) \in Tasks
  BY Typing DEF WorkerType
<1>2. bound[Task(w)] = setting.outer[Task(w)]
  BY <1>1 DEF IInv, Restored, MayRun
<1>3. worker[w].starts + 1 \in 1..MaxStarts /\ worker[w].starts + 1 \in 0..MaxStarts
  BY <1>1, BindingAssumption DEF MayRun
<1> QED
  BY <1>1, <1>2, <1>3, StepsAlone DEF MayRun, Running

LEMMA RunUnpluggedKeeps == ASSUME IInv, NEW w \in Workers, RunUnplugged(w) PROVE IInv'
<1> DEFINE r == [worker[w] EXCEPT !.pc = "serving", !.starts = @ + 1]
<1>1. /\ MayRun(w) /\ ~setting.plugged[w] /\ worker' = [worker EXCEPT ![w] = r]
      /\ UNCHANGED <<setting, bound, open, handler>>
  BY DEF RunUnplugged, Started
<1>2. r \in WorkerType /\ r.pc = "serving" /\ r.starts = worker[w].starts + 1
  BY <1>1, StartsFresh DEF WorkerType
<1> HIDE DEF r
<1>3. worker'[w] = r /\ bound' = [bound EXCEPT ![Task(w)] = bound[Task(w)]]
      /\ bound[Task(w)] \in Client \cup {None}
  BY <1>1, Typing
<1>4. Alone(w)'
  BY <1>1, StartsFresh, Typing DEF Alone, Task
<1>5. WorkerOK(w)'
  BY <1>1, <1>2, <1>3, <1>4, StartsFresh DEF WorkerOK, UnderWay, Owner, Holds, Reachable, Running, Rightful, Opens, Task
<1> QED
  BY <1>1, <1>2, <1>3, <1>5, StartsFresh, Typing, WorkerStep

LEMMA BindSuppliedKeeps == ASSUME IInv, NEW w \in Workers, BindSupplied(w) PROVE IInv'
<1> DEFINE r == [worker[w] EXCEPT !.pc = "serving", !.starts = @ + 1, !.token = bound[Task(w)]]
<1>1. /\ MayRun(w) /\ setting.plugged[w] /\ setting.supplied = "instance"
      /\ bound' = [bound EXCEPT ![Task(w)] = Lent]
      /\ UNCHANGED <<setting, open, handler>>
  BY DEF BindSupplied, Bound
<1>2. worker' = [worker EXCEPT ![w] = r]
  BY Typing DEF BindSupplied, Started
<1>3. bound[Task(w)] \in Client \cup {None} /\ Lent \in Client \cup {None}
  BY Typing DEF Client
<1>4. r \in WorkerType /\ r.pc = "serving" /\ r.starts = worker[w].starts + 1
      /\ r.token = bound[Task(w)]
  BY <1>1, <1>3, StartsFresh DEF WorkerType
<1> HIDE DEF r
<1>5. worker'[w] = r /\ bound'[Task(w)] = Lent
  BY <1>1, <1>2, Typing
<1>6. Alone(w)'
  BY <1>1, <1>2, StartsFresh, Typing DEF Alone, Task
<1>7. WorkerOK(w)'
  BY <1>1, <1>4, <1>5, <1>6, StartsFresh DEF WorkerOK, UnderWay, Owner, Holds, Reachable, Running, Rightful, Own, Opens, Task
<1> QED
  BY <1>1, <1>2, <1>3, <1>4, <1>7, StartsFresh, Typing, WorkerStep

LEMMA FailToStartKeeps == ASSUME IInv, NEW w \in Workers, FailToStart(w) PROVE IInv'
<1> DEFINE r == [worker[w] EXCEPT !.pc = "idle", !.starts = @ + 1]
<1>1. /\ MayRun(w) /\ worker' = [worker EXCEPT ![w] = r]
      /\ UNCHANGED <<setting, bound, open, handler>>
  BY DEF FailToStart, Started
<1>2. r \in WorkerType /\ r.pc = "idle"
  BY <1>1, StartsFresh DEF WorkerType
<1> HIDE DEF r
<1>3. worker'[w] = r /\ bound' = [bound EXCEPT ![Task(w)] = bound[Task(w)]]
      /\ bound[Task(w)] \in Client \cup {None}
  BY <1>1, Typing
<1>4. WorkerOK(w)'
  BY <1>2, <1>3 DEF WorkerOK, UnderWay, Owner, Holds, Reachable, Running
<1> QED
  BY <1>1, <1>2, <1>3, <1>4, StartsFresh, Typing, WorkerStep

LEMMA OpenKeeps == ASSUME IInv, NEW w \in Workers, Open(w) PROVE IInv'
<1> DEFINE n == worker[w].starts + 1
           c == [worker |-> w, start |-> n]
           r == [worker[w] EXCEPT !.pc = "opening", !.starts = @ + 1]
<1>1. /\ MayRun(w) /\ Opens(w) /\ worker' = [worker EXCEPT ![w] = r]
      /\ open' = open \cup {Transport(c)} /\ UNCHANGED <<setting, bound, handler>>
  BY DEF Open, Opens, Started
<1>2. r \in WorkerType /\ r.pc = "opening" /\ r.starts = n /\ n \in 1..MaxStarts
  BY <1>1, StartsFresh DEF WorkerType
<1>3. Transport(c) \in Client
  BY <1>2 DEF Transport, Client, Opened
<1> HIDE DEF r
<1>4. worker'[w] = r /\ bound' = [bound EXCEPT ![Task(w)] = bound[Task(w)]]
      /\ bound[Task(w)] \in Client \cup {None} /\ open' \subseteq Client
      /\ open \subseteq open' /\ Lent \in open' /\ Outer \in open'
  BY <1>1, <1>3, Typing
<1>5. Alone(w)'
  BY <1>1, StartsFresh, Typing DEF Alone, Task
<1>6. Transport(Latest(w))' = Transport(c) /\ Opens(w)'
  BY <1>1, <1>2, <1>4 DEF Transport, Latest, Opens
<1>7. Reachable(w)'
  BY <1>1, <1>6 DEF Reachable
<1>8. WorkerOK(w)'
  BY <1>2, <1>4, <1>5, <1>6, <1>7 DEF WorkerOK, UnderWay, Owner, Holds, Running
<1> QED
  BY <1>1, <1>2, <1>4, <1>8, StartsFresh, Typing, WorkerStep

\* A Worker that opens or closes its client has not touched the context.
LEMMA BetweenBindings ==
  ASSUME IInv, NEW w \in Workers, worker[w].pc \in {"opening", "closing"}
  PROVE  /\ bound[Task(w)] = setting.outer[Task(w)] /\ Opens(w) /\ ~Running(w)
         /\ Latest(w) \in Opened /\ Own(w) = Latest(w)
<1>1. Alone(w) /\ worker[w].starts \in 1..MaxStarts /\ Opens(w) /\ Task(w) \in Tasks
  BY Typing DEF IInv, WorkerOK, UnderWay, Owner
<1>2. bound[Task(w)] = setting.outer[Task(w)]
  BY <1>1 DEF IInv, Restored, Alone
<1> QED
  BY <1>1, <1>2 DEF Running, Latest, Opened, Own, Opens

LEMMA BindOpenedKeeps == ASSUME IInv, NEW w \in Workers, BindOpened(w) PROVE IInv'
<1> DEFINE r == [worker[w] EXCEPT !.pc = "serving", !.token = bound[Task(w)]]
<1>1. /\ worker[w].pc = "opening" /\ worker' = [worker EXCEPT ![w] = r]
      /\ bound' = [bound EXCEPT ![Task(w)] = Latest(w)]
      /\ UNCHANGED <<setting, open, handler>>
  BY DEF BindOpened, Bound
<1>2. /\ bound[Task(w)] = setting.outer[Task(w)] /\ Opens(w) /\ ~Running(w)
      /\ Latest(w) \in Client \cup {None} /\ Own(w) = Latest(w)
  BY <1>1, BetweenBindings DEF Client
<1>3. bound[Task(w)] \in Client \cup {None} /\ worker[w] \in WorkerType
  BY Typing
<1>4. /\ r \in WorkerType /\ r.pc = "serving" /\ r.starts = worker[w].starts
      /\ r.token = setting.outer[Task(w)]
  BY <1>2, <1>3 DEF WorkerType
<1> HIDE DEF r
<1>5. worker'[w] = r /\ bound'[Task(w)] = Latest(w)
  BY <1>1, Typing
<1>6. Alone(w) /\ Alone(w)'
  BY <1>1, StepsAlone, Typing DEF Alone, Task
<1>7. Latest(w)' = Latest(w) /\ Own(w)' = Own(w) /\ Opens(w)' = Opens(w)
      /\ Transport(Latest(w))' = Transport(Latest(w))
  BY <1>1, <1>4, <1>5 DEF Latest, Own, Opens, Transport
<1>8. Reachable(w)'
  BY <1>1, <1>7 DEF IInv, WorkerOK, Reachable
<1>9. Holds(w)'
  BY <1>1, <1>2, <1>4, <1>5, <1>7 DEF Holds, Rightful, Opens, Task
<1>10. worker[w].starts \in 1..MaxStarts
  BY <1>1 DEF IInv, WorkerOK, UnderWay
<1>11. WorkerOK(w)'
  BY <1>4, <1>5, <1>6, <1>8, <1>9, <1>10 DEF WorkerOK, UnderWay, Owner
<1> QED
  BY <1>1, <1>2, <1>4, <1>6, <1>11, Typing, WorkerStep

LEMMA StopKeeps == ASSUME IInv, NEW w \in Workers, Stop(w) PROVE IInv'
<1> DEFINE r == [worker[w] EXCEPT !.pc = "draining"]
<1>1. /\ worker[w].pc = "serving" /\ worker' = [worker EXCEPT ![w] = r]
      /\ UNCHANGED <<setting, bound, open, handler>>
  BY DEF Stop
<1>2. /\ worker[w] \in WorkerType
      /\ bound' = [bound EXCEPT ![Task(w)] = bound[Task(w)]]
      /\ bound[Task(w)] \in Client \cup {None}
  BY <1>1, Typing
<1>3. /\ r \in WorkerType /\ r.pc = "draining" /\ r.starts = worker[w].starts
      /\ r.token = worker[w].token
  BY <1>2 DEF WorkerType
<1> HIDE DEF r
<1>4. worker'[w] = r
  BY <1>1, Typing
<1>5. Alone(w) /\ Alone(w)'
  BY <1>1, StepsAlone, Typing DEF Alone, Task
<1>6. Latest(w)' = Latest(w) /\ Opens(w)' = Opens(w) /\ Rightful(w)' = Rightful(w)
      /\ Transport(Latest(w))' = Transport(Latest(w))
  BY <1>1, <1>3, <1>4 DEF Latest, Own, Opens, Transport, Rightful, Task
<1>7. Reachable(w)'
  BY <1>1, <1>6 DEF IInv, WorkerOK, Reachable
<1>8. Holds(w)'
  BY <1>1, <1>3, <1>4, <1>6 DEF IInv, WorkerOK, Holds, Running, Task
<1>9. worker[w].starts \in 1..MaxStarts
  BY <1>1 DEF IInv, WorkerOK, UnderWay
<1>10. WorkerOK(w)'
  BY <1>3, <1>4, <1>5, <1>7, <1>8, <1>9 DEF WorkerOK, UnderWay, Owner
<1> QED
  BY <1>1, <1>2, <1>3, <1>5, <1>10, Typing, WorkerStep

LEMMA UnbindKeeps == ASSUME IInv, NEW w \in Workers, Unbind(w) PROVE IInv'
<1> DEFINE pc == IF setting.supplied = "instance" THEN "idle" ELSE "closing"
           r == [worker[w] EXCEPT !.token = None, !.pc = pc]
<1>1. /\ worker[w].pc = "draining" /\ \A h \in Handlers : handler[h].worker # w
      /\ setting.plugged[w] /\ worker' = [worker EXCEPT ![w] = r]
      /\ bound' = [bound EXCEPT ![Task(w)] = worker[w].token]
      /\ UNCHANGED <<setting, open, handler>>
  BY DEF Unbind, Drained
<1>2. worker[w] \in WorkerType /\ worker[w].token \in Client \cup {None}
  BY Typing DEF WorkerType
<1>3. /\ r \in WorkerType /\ r.pc \in {"idle", "closing"} /\ r.starts = worker[w].starts
      /\ r.pc = "closing" => Opens(w)
  BY <1>1, <1>2 DEF WorkerType, Opens
<1> HIDE DEF r
<1>4. worker'[w] = r
  BY <1>1, Typing
<1>5. Alone(w) /\ Alone(w)'
  BY <1>1, StepsAlone, Typing DEF Alone, Task
<1>6. Latest(w)' = Latest(w) /\ Opens(w)' = Opens(w)
      /\ Transport(Latest(w))' = Transport(Latest(w))
  BY <1>1, <1>3, <1>4 DEF Latest, Opens, Transport
<1>7. Reachable(w)'
  BY <1>1, <1>6 DEF IInv, WorkerOK, Reachable
<1>8. worker[w].starts \in 1..MaxStarts /\ worker[w].token = setting.outer[Task(w)]
  BY <1>1 DEF IInv, WorkerOK, UnderWay, Holds, Running
<1>9. WorkerOK(w)'
  BY <1>3, <1>4, <1>5, <1>6, <1>7, <1>8 DEF WorkerOK, UnderWay, Owner, Holds, Running
<1> QED
  BY <1>1, <1>2, <1>3, <1>5, <1>8, <1>9, Typing, WorkerStep

LEMMA EndUnpluggedKeeps == ASSUME IInv, NEW w \in Workers, EndUnplugged(w) PROVE IInv'
<1> DEFINE r == [worker[w] EXCEPT !.pc = "idle"]
<1>1. /\ worker[w].pc = "draining" /\ \A h \in Handlers : handler[h].worker # w
      /\ ~setting.plugged[w] /\ worker' = [worker EXCEPT ![w] = r]
      /\ UNCHANGED <<setting, bound, open, handler>>
  BY DEF EndUnplugged, Drained
<1>2. /\ worker[w] \in WorkerType
      /\ bound' = [bound EXCEPT ![Task(w)] = bound[Task(w)]]
      /\ bound[Task(w)] \in Client \cup {None}
  BY <1>1, Typing
<1>3. r \in WorkerType /\ r.pc = "idle"
  BY <1>2 DEF WorkerType
<1> HIDE DEF r
<1>4. worker'[w] = r
  BY <1>1, Typing
<1>5. Alone(w) /\ bound[Task(w)] = setting.outer[Task(w)]
  BY <1>1, StepsAlone DEF IInv, WorkerOK, Holds, Running, Rightful
<1>6. WorkerOK(w)'
  BY <1>3, <1>4 DEF WorkerOK, UnderWay, Owner, Holds, Reachable, Running
<1> QED
  BY <1>1, <1>2, <1>3, <1>5, <1>6, Typing, WorkerStep

\* The transports of the other Workers are not the one that is closed.
LEMMA CloseKeeps == ASSUME IInv, NEW w \in Workers, Close(w) PROVE IInv'
<1> DEFINE r == [worker[w] EXCEPT !.pc = "idle"]
<1>1. /\ worker[w].pc = "closing" /\ worker' = [worker EXCEPT ![w] = r]
      /\ open' = open \ {Latest(w)} /\ UNCHANGED <<setting, bound, handler>>
  BY DEF Close
<1>2. /\ worker[w] \in WorkerType
      /\ bound' = [bound EXCEPT ![Task(w)] = bound[Task(w)]]
      /\ bound[Task(w)] \in Client \cup {None}
  BY <1>1, Typing
<1>3. r \in WorkerType /\ r.pc = "idle"
  BY <1>2 DEF WorkerType
<1> HIDE DEF r
<1>4. worker'[w] = r
  BY <1>1, Typing
<1>5. /\ Alone(w) /\ bound[Task(w)] = setting.outer[Task(w)] /\ ~Running(w)
      /\ Latest(w) # Lent /\ Latest(w) # Outer
  BY <1>1, StepsAlone, BetweenBindings, BindingAssumption
<1>6. open' \subseteq Client /\ Lent \in open' /\ Outer \in open'
  BY <1>1, <1>5, Typing
<1>7. ASSUME NEW v \in Workers \ {w}, Transport(Latest(v)) \in open
      PROVE  Transport(Latest(v)) \in open'
  <2>1. Latest(v) # Latest(w)
    BY <1>7 DEF Latest
  <2> QED
    BY <1>1, <1>5, <1>7, <2>1 DEF Transport
<1>8. WorkerOK(w)'
  BY <1>3, <1>4 DEF WorkerOK, UnderWay, Owner, Holds, Reachable, Running
<1> QED
  BY <1>1, <1>2, <1>3, <1>5, <1>6, <1>7, <1>8, Typing, WorkerStep

(***************************************************************************)
(* The steps of a handler.                                                 *)
(***************************************************************************)
HandlerAs(g) ==
  g.pc # "idle" => /\ Running(g.worker) /\ g.context = Rightful(g.worker)
                   /\ g.pc = "calling" => g.client = g.context

LEMMA HandlerStep ==
  ASSUME IInv, NEW h \in Handlers, NEW g \in HandlerType,
         handler' = [handler EXCEPT ![h] = g], HandlerAs(g),
         UNCHANGED <<setting, bound, worker, open>>
  PROVE  IInv'
<1>1. /\ handler'[h] = g /\ \A k \in Handlers \ {h} : handler'[k] = handler[k]
      /\ handler' \in [Handlers -> HandlerType]
  BY DEF IInv, TypeOK
<1>2. TypeOK' /\ Restored'
  BY <1>1 DEF IInv, TypeOK, Restored, Task
<1>3. ASSUME NEW w \in Workers PROVE WorkerOK(w)'
  BY <1>3 DEF IInv, WorkerOK, UnderWay, Owner, Holds, Reachable, Alone, Running, Rightful,
              Own, Opens, Latest, Transport, Task
<1>4. ASSUME NEW k \in Handlers PROVE HandlerOK(k)'
  <2> SUFFICES HandlerAs(handler'[k])
    BY DEF HandlerOK, HandlerAs, Running, Rightful, Own, Latest, Task
  <2> QED
    BY <1>1, <1>4 DEF IInv, HandlerOK, HandlerAs
<1> QED
  BY <1>2, <1>3, <1>4 DEF IInv

LEMMA BeginKeeps ==
  ASSUME IInv, NEW w \in Workers, NEW h \in Handlers, Begin(w, h) PROVE IInv'
<1> DEFINE g == [NoHandler EXCEPT !.pc = "started", !.worker = w, !.context = bound[Task(w)]]
<1>1. worker[w].pc = "serving" /\ bound[Task(w)] \in Client \cup {None}
      /\ bound[Task(w)] = Rightful(w)
  BY Typing DEF Begin, IInv, WorkerOK, Holds, Running
<1>2. g \in HandlerType /\ HandlerAs(g)
  BY <1>1 DEF HandlerType, NoHandler, HandlerAs, Running
<1> QED
  BY <1>2, HandlerStep DEF Begin

LEMMA IdleKeeps ==
  ASSUME IInv, NEW h \in Handlers, Refuse(h) \/ Return(h) PROVE IInv'
<1>1. NoHandler \in HandlerType /\ HandlerAs(NoHandler)
  BY DEF HandlerType, NoHandler, HandlerAs
<1> QED
  BY <1>1, HandlerStep DEF Refuse, Return

LEMMA CallKeeps == ASSUME IInv, NEW h \in Handlers, Call(h) PROVE IInv'
<1> DEFINE g == [handler[h] EXCEPT !.pc = "calling", !.client = handler[h].context]
<1>1. handler[h].pc = "started" /\ handler[h].context # None /\ handler[h] \in HandlerType
  BY DEF Call, IInv, TypeOK
<1>2. handler[h] \in [pc: {"started"}, worker: Workers, context: Client \cup {None},
                        client: {None}]
  BY <1>1 DEF HandlerType, NoHandler
<1>3. g \in [pc: {"calling"}, worker: Workers, context: Client, client: Client]
  BY <1>1, <1>2
<1>4. HandlerAs(g)
  BY <1>1, <1>2 DEF IInv, HandlerOK, HandlerAs
<1>5. handler' = [handler EXCEPT ![h] = g] /\ UNCHANGED <<setting, bound, worker, open>>
  BY DEF Call
<1> QED
  BY <1>3, <1>4, <1>5, HandlerStep DEF HandlerType

(***************************************************************************)
(* The invariant holds in every reachable state, and what it implies.      *)
(***************************************************************************)
LEMMA InitIInv == Init => IInv
<1> SUFFICES ASSUME Init PROVE IInv
  OBVIOUS
<1>1. TypeOK
  BY BindingAssumption DEF Init, TypeOK, SettingType, HandlerType, Client
<1>2. Restored
  BY DEF Init, Restored
<1>3. \A w \in Workers : WorkerOK(w)
  BY DEF Init, WorkerOK, UnderWay, Owner, Holds, Reachable, Running
<1>4. \A h \in Handlers : HandlerOK(h)
  BY DEF Init, HandlerOK, NoHandler
<1> QED
  BY <1>1, <1>2, <1>3, <1>4 DEF IInv, Init

LEMMA NextKeepsIInv == IInv /\ [Next]_vars => IInv'
<1> SUFFICES ASSUME IInv, [Next]_vars PROVE IInv'
  OBVIOUS
<1>1. CASE UNCHANGED vars
  BY <1>1 DEF vars, IInv, TypeOK, Restored, WorkerOK, UnderWay, Owner, Holds, Reachable,
              HandlerOK, Alone, Running, Rightful, Own, Opens, Latest, Transport, Task
<1>2. ASSUME NEW w \in Workers,
             \/ RunUnplugged(w) \/ BindSupplied(w) \/ FailToStart(w) \/ Open(w)
             \/ BindOpened(w) \/ Stop(w) \/ Unbind(w) \/ EndUnplugged(w) \/ Close(w)
             \/ \E h \in Handlers : Begin(w, h)
      PROVE  IInv'
  BY <1>2, RunUnpluggedKeeps, BindSuppliedKeeps, FailToStartKeeps, OpenKeeps, BindOpenedKeeps,
     StopKeeps, UnbindKeeps, EndUnpluggedKeeps, CloseKeeps, BeginKeeps
<1>3. ASSUME NEW h \in Handlers, Refuse(h) \/ Call(h) \/ Return(h) PROVE IInv'
  BY <1>3, IdleKeeps, CallKeeps
<1> QED
  BY <1>1, <1>2, <1>3 DEF Next, Ended

LEMMA AlwaysIInv == Spec => []IInv
BY InitIInv, NextKeepsIInv, PTL DEF Spec

(* TypeOK: plugin.py and activities.py only ever bind a client, or what was *)
(* bound before.                                                            *)
THEOREM TypeCorrect == Spec => []TypeOK
<1>1. IInv => TypeOK
  BY DEF IInv
<1> QED
  BY <1>1, AlwaysIInv, PTL

(* Restored: bind's token puts the context back (activities.py unbind), for *)
(* any nesting of contexts and any number of restarts.                      *)
THEOREM ContextRestored == Spec => []Restored
<1>1. IInv => Restored
  BY DEF IInv
<1> QED
  BY <1>1, AlwaysIInv, PTL

(* OwnClient: one activities object serves any number of Workers and tasks, *)
(* and a handler still finds its own Worker's client.                       *)
THEOREM HandlersUseOwnClient == Spec => []OwnClient
<1>1. IInv => OwnClient
  BY DEF IInv, HandlerOK, OwnClient, Rightful
<1> QED
  BY <1>1, AlwaysIInv, PTL

(* NoClosedClient: the run context closes the client after the last handler *)
(* that uses it, and closes nobody else's.                                  *)
THEOREM ClientOutlivesHandlers == Spec => []NoClosedClient
<1>1. ASSUME IInv, NEW h \in Handlers, handler[h].pc = "calling"
      PROVE  Transport(handler[h].client) \in open
  <2>1. PICK w \in Workers : w = handler[h].worker
    BY <1>1, HandlersTyped
  <2>2. /\ Running(w) /\ handler[h].client = Rightful(w) /\ WorkerOK(w)
        /\ Lent \in open /\ Outer \in open /\ handler[h].client \in Client
    BY <1>1, <2>1 DEF IInv, HandlerOK, TypeOK, HandlerType, NoHandler
  <2>3. CASE Opens(w)
    BY <2>2, <2>3 DEF Opens, Rightful, Own, WorkerOK, Reachable, Running
  <2>4. CASE ~Opens(w)
    <3>1. handler[h].client \in {Lent, Outer}
      BY <1>1, <2>2, <2>4, SettingTyped, BindingAssumption DEF Opens, Rightful, Own
    <3> QED
      BY <2>2, <3>1, BindingAssumption DEF Transport
  <2> QED
    BY <2>3, <2>4
<1>2. IInv => NoClosedClient
  BY <1>1 DEF NoClosedClient
<1> QED
  BY <1>2, AlwaysIInv, PTL

(* PluggedNeverRefuses: open_instance resolves the key before the Worker    *)
(* polls, so XmemoryNotBound never reaches a caller of a plugged Worker.    *)
THEOREM PluggedAlwaysBound == Spec => []PluggedNeverRefuses
<1>1. ASSUME IInv, NEW h \in Handlers, handler[h].pc = "started",
             setting.plugged[handler[h].worker]
      PROVE  handler[h].context # None
  <2>1. PICK w \in Workers : w = handler[h].worker
    BY <1>1, HandlersTyped
  <2>2. /\ handler[h].context = Own(w) /\ worker[w].starts \in 1..MaxStarts
    BY <1>1, <2>1 DEF IInv, HandlerOK, Rightful, WorkerOK, UnderWay, Running
  <2>3. Own(w) \in Client
    BY <2>2 DEF Own, Latest, Client, Opened
  <2> QED
    BY <2>2, <2>3, BindingAssumption
<1>2. IInv => PluggedNeverRefuses
  BY <1>1 DEF PluggedNeverRefuses
<1> QED
  BY <1>2, AlwaysIInv, PTL

(***************************************************************************)
(* Transports.  One that is open belongs to the latest start of a Worker   *)
(* under way, which opened it itself.                                      *)
(***************************************************************************)
Owned ==
  \A client \in Opened : client \in open =>
    /\ worker[client.worker].pc # "idle" /\ Opens(client.worker)
    /\ client = Latest(client.worker)

\* The steps that open nothing: the Worker that moves goes on, or has nothing open.
LEMMA OwnedKept ==
  ASSUME IInv, Owned, NEW w \in Workers, setting' = setting, open' \subseteq open,
         \A v \in Workers \ {w} : worker'[v] = worker[v],
         \/ worker[w].pc = "idle" \/ ~Opens(w)
         \/ worker'[w].pc # "idle" /\ worker'[w].starts = worker[w].starts
         \/ Latest(w) \notin open'
  PROVE  Owned'
<1> SUFFICES ASSUME NEW client \in Opened, client \in open'
             PROVE  /\ worker'[client.worker].pc # "idle" /\ Opens(client.worker)
                    /\ client = Latest(client.worker)'
  BY DEF Owned, Opens
<1>1. PICK v \in Workers : v = client.worker
  BY DEF Opened
<1>2. worker[v].pc # "idle" /\ Opens(v) /\ client = Latest(v)
  BY <1>1 DEF Owned
<1>3. CASE v = w
  BY <1>1, <1>2, <1>3 DEF Latest
<1>4. CASE v # w
  BY <1>1, <1>2, <1>4 DEF Latest
<1> QED
  BY <1>3, <1>4

LEMMA Moved ==
  ASSUME IInv, NEW w \in Workers, NEW r, worker' = [worker EXCEPT ![w] = r]
  PROVE  worker'[w] = r /\ \A v \in Workers \ {w} : worker'[v] = worker[v]
BY Typing

LEMMA OpenKeepsOwned ==
  ASSUME IInv, Owned, NEW w \in Workers, Open(w)
  PROVE  Owned'
<1> DEFINE c == [worker |-> w, start |-> worker[w].starts + 1]
           r == [worker[w] EXCEPT !.pc = "opening", !.starts = @ + 1]
<1>1. /\ MayRun(w) /\ Opens(w) /\ worker' = [worker EXCEPT ![w] = r]
      /\ open' = open \cup {Transport(c)} /\ setting' = setting
  BY DEF Open, Opens, Started
<1>2. r.pc = "opening" /\ r.starts = worker[w].starts + 1
  BY Typing DEF WorkerType
<1> HIDE DEF r
<1>3. worker'[w] = r /\ \A v \in Workers \ {w} : worker'[v] = worker[v]
  BY <1>1, Moved
<1> SUFFICES ASSUME NEW client \in Opened, client \in open'
             PROVE  /\ worker'[client.worker].pc # "idle" /\ Opens(client.worker)
                    /\ client = Latest(client.worker)'
  BY <1>1 DEF Owned, Opens
<1>4. PICK v \in Workers : v = client.worker
  BY DEF Opened
<1>5. CASE client \in open
  <2>1. worker[v].pc # "idle" /\ Opens(v) /\ client = Latest(v)
    BY <1>4, <1>5 DEF Owned
  <2>2. v # w
    BY <1>1, <2>1 DEF MayRun
  <2> QED
    BY <1>3, <1>4, <2>1, <2>2 DEF Latest
<1>6. CASE client = Transport(c)
  <2>1. client = c
    BY <1>6, BindingAssumption DEF Transport
  <2> QED
    BY <1>1, <1>2, <1>3, <2>1 DEF Latest
<1> QED
  BY <1>1, <1>5, <1>6

LEMMA WorkerKeepsOwned ==
  ASSUME IInv, Owned, NEW w \in Workers,
         \/ RunUnplugged(w) \/ BindSupplied(w) \/ FailToStart(w) \/ BindOpened(w)
         \/ Stop(w) \/ Unbind(w) \/ EndUnplugged(w) \/ Close(w)
  PROVE  Owned'
<1>1. worker[w] \in WorkerType
  BY Typing
<1>2. CASE RunUnplugged(w) \/ BindSupplied(w) \/ FailToStart(w)
  <2>1. worker[w].pc = "idle" /\ setting' = setting /\ open' = open
        /\ \A v \in Workers \ {w} : worker'[v] = worker[v]
    BY <1>2, Typing DEF RunUnplugged, BindSupplied, FailToStart, Started, MayRun
  <2> QED
    BY <2>1, OwnedKept
<1>3. CASE BindOpened(w) \/ Stop(w)
  <2>1. worker'[w].pc # "idle" /\ worker'[w].starts = worker[w].starts
        /\ setting' = setting /\ open' = open
        /\ \A v \in Workers \ {w} : worker'[v] = worker[v]
    BY <1>1, <1>3, Typing DEF BindOpened, Stop, WorkerType
  <2> QED
    BY <2>1, OwnedKept
<1>4. CASE Unbind(w)
  <2>1. /\ setting' = setting /\ open' = open
        /\ \A v \in Workers \ {w} : worker'[v] = worker[v]
        /\ worker'[w].starts = worker[w].starts
        /\ Opens(w) => worker'[w].pc # "idle"
    BY <1>1, <1>4, Typing DEF Unbind, Opens, WorkerType
  <2> QED
    BY <2>1, OwnedKept
<1>5. CASE EndUnplugged(w)
  <2>1. /\ setting' = setting /\ open' = open /\ ~Opens(w)
        /\ \A v \in Workers \ {w} : worker'[v] = worker[v]
    BY <1>5, Typing DEF EndUnplugged, Opens
  <2> QED
    BY <2>1, OwnedKept
<1>6. CASE Close(w)
  <2>1. /\ setting' = setting /\ open' = open \ {Latest(w)}
        /\ \A v \in Workers \ {w} : worker'[v] = worker[v]
    BY <1>6, Typing DEF Close
  <2> QED
    BY <2>1, OwnedKept
<1> QED
  BY <1>2, <1>3, <1>4, <1>5, <1>6

LEMMA NextKeepsOwned == IInv /\ Owned /\ [Next]_vars => Owned'
<1> SUFFICES ASSUME IInv, Owned, [Next]_vars PROVE Owned'
  OBVIOUS
<1>1. CASE UNCHANGED <<setting, worker, open>>
  BY <1>1 DEF Owned, Opens, Latest
<1>2. CASE UNCHANGED vars
  BY <1>1, <1>2 DEF vars
<1>3. ASSUME NEW w \in Workers, NEW h \in Handlers, Begin(w, h) PROVE Owned'
  BY <1>1, <1>3 DEF Begin
<1>4. ASSUME NEW h \in Handlers, Refuse(h) \/ Call(h) \/ Return(h) PROVE Owned'
  BY <1>1, <1>4 DEF Refuse, Call, Return
<1> QED
  BY <1>2, <1>3, <1>4, OpenKeepsOwned, WorkerKeepsOwned DEF Next, Ended

(* The safety half of StopsClean: a Worker that has ended, however often it *)
(* was started before, has left no transport of its own open.               *)
NothingLeaked ==
  \A w \in Workers : worker[w].pc = "idle" =>
    \A client \in Opened : client.worker = w => client \notin open

THEOREM LeavesNothingOpen == Spec => []NothingLeaked
<1>1. Init => Owned
  BY BindingAssumption DEF Init, Owned
<1>2. Owned => NothingLeaked
  BY DEF Owned, NothingLeaked
<1> QED
  BY AlwaysIInv, NextKeepsOwned, <1>1, <1>2, PTL DEF Spec
============================================================================
