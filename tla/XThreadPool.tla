----------------------------- MODULE XThreadPool -----------------------------
(***************************************************************************)
(* The thread pool of x_thread_pool/ and its one client, the main thread    *)
(* of main.cc: Init creates the worker threads, AddTask queues the tasks    *)
(* one after the other, the client waits for the value of every task's      *)
(* promise, and the destructor of the static pool calls Stop.               *)
(*                                                                         *)
(* mutex_ is not a variable.  Every critical section reads or writes one    *)
(* shared object besides x_tasks_ at most, so each is one action, except    *)
(* the window of GetTask between the test of x_tasks_ and the wait on cv_,  *)
(* in which a worker is at "towait" and holds mutex_ (MutexFree).  Stop and *)
(* the notifications of cv_ do not take mutex_ and may fall in that window. *)
(***************************************************************************)
EXTENDS Naturals, Sequences, FiniteSets

CONSTANTS Workers,   (* the thread_nums_ threads that Init creates            *)
          NumTasks   (* the number of tasks the client adds                   *)

ASSUME PoolAssumption ==
       /\ IsFiniteSet(Workers)
       /\ Workers # {}
       /\ NumTasks \in Nat \ {0}

VARIABLES isRunning,     (* is_running_                                        *)
          xTasks,        (* x_tasks_; a task is the number of its AddTask      *)
          taskRunCount,  (* task_run_count_                                    *)
          pc,            (* where each worker is in Run and GetTask            *)
          cur,           (* the task a worker has taken, 0 when it has none    *)
          main,          (* where the client is                                *)
          added,         (* how many tasks the client has added                *)
          returned       (* the tasks whose promise has its value              *)

vars == <<isRunning, xTasks, taskRunCount, pc, cur, main, added, returned>>
clientVars == <<isRunning, main, added>>
taskVars == <<taskRunCount, cur, returned>>

Tasks == 1 .. NumTasks
WorkerPc == {"unborn", "loop", "get", "towait", "waiting", "woken",
             "begin", "main", "end", "exited"}
ClientPc == {"init", "add", "notify", "wait", "stop", "notifyAll", "join", "stopped"}

Waiting == {w \in Workers : pc[w] = "waiting"}
MutexFree == \A w \in Workers : pc[w] # "towait"

Goto(w, label) == pc' = [pc EXCEPT ![w] = label]

Init ==
    /\ isRunning = FALSE
    /\ xTasks = <<>>
    /\ taskRunCount = 0
    /\ pc = [w \in Workers |-> "unborn"]
    /\ cur = [w \in Workers |-> 0]
    /\ main = "init"
    /\ added = 0
    /\ returned = {}

------------------------------------------------------------------------------
(* The client: FileCrypt::Start and Wait as seen from the pool, then ~XThreadPool. *)

(* Init: one thread is created and may run at once, is_running_ is still FALSE. *)
Spawn(w) ==
    /\ main = "init"
    /\ pc[w] = "unborn"
    /\ Goto(w, "loop")
    /\ UNCHANGED <<clientVars, taskVars, xTasks>>

(* Init, after the loop that creates the threads. *)
InitDone ==
    /\ main = "init"
    /\ \A w \in Workers : pc[w] # "unborn"
    /\ isRunning' = TRUE
    /\ main' = "add"
    /\ UNCHANGED <<taskVars, xTasks, pc, added>>

(* A mutated form: the task goes to the front of the queue. *)
AddTaskInFront ==
    /\ main = "add"
    /\ MutexFree
    /\ xTasks' = <<added + 1>> \o xTasks
    /\ added' = added + 1
    /\ main' = "notify"
    /\ UNCHANGED <<taskVars, isRunning, pc>>

(* AddTask, the block that holds mutex_. *)
AddTask ==
    /\ main = "add"
    /\ MutexFree
    /\ xTasks' = Append(xTasks, added + 1)
    /\ added' = added + 1
    /\ main' = "notify"
    /\ UNCHANGED <<taskVars, isRunning, pc>>

(* A mutated form: the notification is lost. *)
WakeNobody == UNCHANGED pc

(* notify_one: one waiting worker wakes, none if nobody waits. *)
WakeOne ==
    IF Waiting = {} THEN UNCHANGED pc ELSE \E w \in Waiting : Goto(w, "woken")

(* AddTask, after the block. *)
NotifyOne ==
    /\ main = "notify"
    /\ WakeOne
    /\ main' = IF added < NumTasks THEN "add" ELSE "wait"
    /\ UNCHANGED <<taskVars, isRunning, xTasks, added>>

(* The calls of get_return: the client goes on when every promise has its value. *)
WaitReturns ==
    /\ main = "wait"
    /\ returned = Tasks
    /\ main' = "stop"
    /\ UNCHANGED <<taskVars, isRunning, xTasks, pc, added>>

(* Stop, its first statement. *)
StopFlag ==
    /\ main = "stop"
    /\ isRunning' = FALSE
    /\ main' = "notifyAll"
    /\ UNCHANGED <<taskVars, xTasks, pc, added>>

(* A mutated form: Stop wakes one worker only. *)
NotifyOneAtStop ==
    /\ main = "notifyAll"
    /\ WakeOne
    /\ main' = "join"
    /\ UNCHANGED <<taskVars, isRunning, xTasks, added>>

(* Stop: notify_all. *)
NotifyAll ==
    /\ main = "notifyAll"
    /\ pc' = [w \in Workers |-> IF pc[w] = "waiting" THEN "woken" ELSE pc[w]]
    /\ main' = "join"
    /\ UNCHANGED <<taskVars, isRunning, xTasks, added>>

Joined == \A w \in Workers : pc[w] = "exited"

(* A mutated form: Stop does not wait for the threads. *)
Detach ==
    /\ main = "join"
    /\ main' = "stopped"
    /\ UNCHANGED <<taskVars, isRunning, xTasks, pc, added>>

(* Stop: every thread is joined, then threads_ is cleared. *)
Join ==
    /\ main = "join"
    /\ Joined
    /\ main' = "stopped"
    /\ UNCHANGED <<taskVars, isRunning, xTasks, pc, added>>

------------------------------------------------------------------------------
(* A worker: Run and GetTask. *)

(* The test of the loop in Run. *)
Loop(w) ==
    /\ pc[w] = "loop"
    /\ Goto(w, IF isRunning THEN "get" ELSE "exited")
    /\ UNCHANGED <<clientVars, taskVars, xTasks>>

(* GetTask finds x_tasks_ empty and will wait; it keeps mutex_. *)
GetEmpty(w) ==
    /\ pc[w] = "get"
    /\ MutexFree
    /\ xTasks = <<>>
    /\ Goto(w, "towait")
    /\ UNCHANGED <<clientVars, taskVars, xTasks>>

(* cv_.wait: mutex_ is released and the worker sleeps in one step. *)
BeginWait(w) ==
    /\ pc[w] = "towait"
    /\ Goto(w, "waiting")
    /\ UNCHANGED <<clientVars, taskVars, xTasks>>

(* cv_.wait may return without a notification. *)
SpuriousWake(w) ==
    /\ pc[w] = "waiting"
    /\ Goto(w, "woken")
    /\ UNCHANGED <<clientVars, taskVars, xTasks>>

(* GetTask past the wait: a worker that has slept does not know what it finds. *)
HasMutexToTake(w) ==
    /\ MutexFree
    /\ pc[w] = "woken" \/ (pc[w] = "get" /\ xTasks # <<>>)

GetNull(w) ==
    /\ HasMutexToTake(w)
    /\ ~isRunning \/ xTasks = <<>>
    /\ Goto(w, "loop")
    /\ UNCHANGED <<clientVars, taskVars, xTasks>>

GetTask(w) ==
    /\ HasMutexToTake(w)
    /\ isRunning
    /\ xTasks # <<>>
    /\ cur' = [cur EXCEPT ![w] = Head(xTasks)]
    /\ xTasks' = Tail(xTasks)
    /\ Goto(w, "begin")
    /\ UNCHANGED <<clientVars, taskRunCount, returned>>

(* A mutated form: the running task is not counted. *)
BeginUncounted(w) ==
    /\ pc[w] = "begin"
    /\ Goto(w, "main")
    /\ UNCHANGED <<clientVars, taskVars, xTasks>>

(* Run: ++task_run_count_ and the call of Main. *)
BeginTask(w) ==
    /\ pc[w] = "begin"
    /\ taskRunCount' = taskRunCount + 1
    /\ Goto(w, "main")
    /\ UNCHANGED <<clientVars, cur, returned, xTasks>>

(* The task's Main ends with set_return, or leaves by an exception before it. *)
SetReturn(w) ==
    /\ pc[w] = "main"
    /\ returned' = returned \cup {cur[w]}
    /\ Goto(w, "end")
    /\ UNCHANGED <<clientVars, taskRunCount, cur, xTasks>>

(* A mutated form: Run lets the exception end its thread. *)
ThrowEndsWorker(w) ==
    /\ pc[w] = "main"
    /\ Goto(w, "exited")
    /\ UNCHANGED <<clientVars, taskVars, xTasks>>

Throw(w) ==
    /\ pc[w] = "main"
    /\ Goto(w, "end")
    /\ UNCHANGED <<clientVars, taskVars, xTasks>>

(* Run, after the try block: --task_run_count_ and the next iteration. *)
EndTask(w) ==
    /\ pc[w] = "end"
    /\ taskRunCount' = taskRunCount - 1
    /\ cur' = [cur EXCEPT ![w] = 0]
    /\ Goto(w, "loop")
    /\ UNCHANGED <<clientVars, returned, xTasks>>

------------------------------------------------------------------------------
Client ==
    \/ \E w \in Workers : Spawn(w)
    \/ InitDone \/ AddTask \/ NotifyOne
    \/ WaitReturns \/ StopFlag \/ NotifyAll \/ Join

(* What a worker does on its own account; a task that throws is not its doing. *)
Run(w) ==
    \/ Loop(w) \/ GetEmpty(w) \/ BeginWait(w) \/ GetNull(w) \/ GetTask(w)
    \/ BeginTask(w) \/ SetReturn(w) \/ EndTask(w)

Next ==
    \/ Client
    \/ \E w \in Workers : Run(w) \/ SpuriousWake(w) \/ Throw(w)

(* Every thread that can take a step for ever takes one.  Nothing is assumed  *)
(* of a wake-up without a notification, nor of who gets mutex_ first.         *)
Fairness == WF_vars(Client) /\ \A w \in Workers : WF_vars(Run(w))

Spec == Init /\ [][Next]_vars /\ Fairness

------------------------------------------------------------------------------
TypeOK ==
    /\ isRunning \in BOOLEAN
    /\ xTasks \in Seq(Tasks)
    /\ taskRunCount \in Nat
    /\ pc \in [Workers -> WorkerPc]
    /\ cur \in [Workers -> 0 .. NumTasks]
    /\ main \in ClientPc
    /\ added \in 0 .. NumTasks
    /\ returned \in SUBSET Tasks

(* The tasks that have left the queue. *)
Taken == added - Len(xTasks)

(* Tasks leave the queue in the order of their AddTask, and each is with one *)
(* worker at most: FileCrypt relies on it, its readers must be out of the    *)
(* queue before the tasks that consume what they read.                       *)
OnceInOrder ==
    /\ \A i \in 1 .. Len(xTasks) : xTasks[i] = Taken + i
    /\ \A w \in Workers :
          /\ cur[w] <= Taken
          /\ pc[w] \in {"begin", "main"} => cur[w] \notin returned
          /\ \A v \in Workers \ {w} : cur[w] # 0 => cur[v] # cur[w]

(* The workers that will look at the queue again without being notified. *)
Heading == {w \in Workers : pc[w] \in {"loop", "get", "woken"}}
PendingNotify == IF main = "notify" THEN 1 ELSE 0

(* cv_ loses no task: while a worker sleeps in GetTask, every queued task has *)
(* a worker that is on its way to the queue or a notification still to come,  *)
(* although notify_one is called after mutex_ is released, a worker that has   *)
(* not slept may take the task a sleeper was woken for, and GetTask waits      *)
(* without a predicate.                                                       *)
NoTaskStranded ==
    isRunning /\ Waiting # {} => Len(xTasks) <= Cardinality(Heading) + PendingNotify

(* What Stop leaves behind: no worker, no task running, none in the queue. *)
StoppedClean ==
    main = "stopped" =>
        /\ Joined
        /\ xTasks = <<>>
        /\ taskRunCount = 0
        /\ returned = Tasks

(* A task that was added is taken, as long as one worker is left to take it:  *)
(* neither a task that throws nor one that another worker took from under a    *)
(* woken one costs the pool a worker.                                         *)
Survivor == \E w \in Workers : pc[w] \notin {"unborn", "exited"}
AddedIsTaken ==
    \A t \in Tasks : (isRunning /\ Survivor /\ added >= t) ~> (Taken >= t)

(* Stop ends when no worker is between the test of is_running_ in Run and the  *)
(* wait on cv_ at the moment is_running_ is reset.                             *)
StopEndsOutsideWindow ==
    (main = "notifyAll" /\ \A w \in Workers : pc[w] \notin {"get", "towait"})
        ~> (main = "stopped")

(* x_thread_pool.h:53: Init initializes and starts all threads; a worker is    *)
(* there to take tasks for as long as the pool runs.                           *)
InitStartsAll == isRunning => \A w \in Workers : pc[w] # "exited"

(* x_thread_pool.cc:72-75: Stop notifies all threads, waits for their end and  *)
(* returns.                                                                    *)
StopEnds == (main = "stop") ~> (main = "stopped")

==============================================================================
