------------------------------ MODULE XFileCrypt ------------------------------
(***************************************************************************)
(* The program: main.cc starts a FileCrypt for every file of the directory,   *)
(* one after the other, and then waits for them in the same order, while the   *)
(* threads of the pool run the tasks of all files in the order of AddTask.     *)
(*                                                                         *)
(* The pool is what XThreadPool shows it to be, a queue whose tasks are taken  *)
(* in order, each by a worker of its own; a chain of tasks is what FileCrypt    *)
(* is shown to implement, FileChain.  A task keeps its worker until it ends.    *)
(***************************************************************************)
EXTENDS Integers, Sequences, FiniteSets, FileChain

CONSTANTS
    NumFiles,     (* the files are the numbers up to this one                  *)
    Cores         (* what std::thread::hardware_concurrency may return         *)

ASSUME ProgramAssumption ==
    /\ NumFiles \in Nat \ {0}
    /\ Files = 1 .. NumFiles
    /\ Cores \subseteq Nat

VARIABLES
    threads,     (* the threads of the pool; some of those that its Init has     *)
                 (* created may have ended at once (XThreadPool), but not all    *)
    xTasks,      (* x_tasks_                                                    *)
    main,        (* what main does next, for which task of which file           *)
    total        (* read_bytes, crypt_bytes and write_bytes of main, in blocks   *)

vars == <<chainVars, threads, xTasks, main, total>>

(* thread_nums_ *)
ThreadNum(cores) == IF cores > 1 THEN cores + cores \div 2 ELSE 3

Init ==
    /\ ChainInit
    /\ \E cores \in Cores : threads \in 1 .. ThreadNum(cores)
    /\ xTasks = <<>>
    /\ main = <<"start", 1, "read">>
    /\ total = [t \in Tasks |-> 0]

(* A mutated form: the loop over the files goes on behind the last one. *)
AdvanceTooFar(op, f, t, nextOp) ==
    main' = IF t # "write" THEN <<op, f, Down[t]>>
            ELSE IF f <= NumFiles THEN <<op, f + 1, "read">>
            ELSE <<nextOp, 1, "read">>

(* From task to task of a file, and from file to file. *)
Advance(op, f, t, nextOp) ==
    main' = IF t # "write" THEN <<op, f, Down[t]>>
            ELSE IF f < NumFiles THEN <<op, f + 1, "read">>
            ELSE <<nextOp, 1, "read">>

(* A mutated form: the task goes to the front of the queue. *)
StartInFront(f, t) ==
    /\ main = <<"start", f, t>>
    /\ Queue(f, t)
    /\ xTasks' = <<<<f, t>>>> \o xTasks
    /\ Advance("start", f, t, "wait")
    /\ UNCHANGED <<threads, total>>

(* FileCrypt::Start of file f, up to AddTask of task t. *)
Start(f, t) ==
    /\ main = <<"start", f, t>>
    /\ Queue(f, t)
    /\ xTasks' = Append(xTasks, <<f, t>>)
    /\ Advance("start", f, t, "wait")
    /\ UNCHANGED <<threads, total>>

(* A mutated form: main does not wait for the write task. *)
WaitNotForWrite(f, t) ==
    /\ main = <<"wait", f, t>>
    /\ t = "write" \/ place[f][t] = "ended"
    /\ total' = [total EXCEPT ![t] = @ + passed[f][t]]
    /\ Advance("wait", f, t, "done")
    /\ UNCHANGED <<chainVars, threads, xTasks>>

(* A mutated form: the total is that of the last file. *)
WaitAssigns(f, t) ==
    /\ main = <<"wait", f, t>>
    /\ place[f][t] = "ended"
    /\ total' = [total EXCEPT ![t] = passed[f][t]]
    /\ Advance("wait", f, t, "done")
    /\ UNCHANGED <<chainVars, threads, xTasks>>

(* get_return in FileCrypt::Wait of file f, added to the total. *)
Wait(f, t) ==
    /\ main = <<"wait", f, t>>
    /\ place[f][t] = "ended"
    /\ total' = [total EXCEPT ![t] = @ + passed[f][t]]
    /\ Advance("wait", f, t, "done")
    /\ UNCHANGED <<chainVars, threads, xTasks>>

(* A mutated form: a worker takes one task and no other. *)
BusyForEver ==
    {x \in Files \X Tasks : place[x[1]][x[2]] \in {"taken", "running", "asleep", "ended"}}

Busy == {x \in Files \X Tasks : place[x[1]][x[2]] \in {"taken", "running", "asleep"}}

(* A mutated form: one worker is kept back. *)
TakeWithSpare ==
    /\ xTasks # <<>>
    /\ Cardinality(Busy) + 1 < threads
    /\ Begin(Head(xTasks)[1], Head(xTasks)[2])
    /\ xTasks' = Tail(xTasks)
    /\ UNCHANGED <<threads, main, total>>

(* GetTask of a worker that has no task: it leaves mutex_ with the next one, and   *)
(* the task before that one does not know yet (Announce).                        *)
Take ==
    /\ xTasks # <<>>
    /\ Cardinality(Busy) < threads
    /\ Begin(Head(xTasks)[1], Head(xTasks)[2])
    /\ xTasks' = Tail(xTasks)
    /\ UNCHANGED <<threads, main, total>>

Main == \E f \in Files, t \in Tasks : Start(f, t) \/ Wait(f, t)

Task(f, t) == (Announce(f, t) \/ Work(f, t)) /\ UNCHANGED <<threads, xTasks, main, total>>

Next == Main \/ Take \/ \E f \in Files, t \in Tasks : Task(f, t)

(* The main thread, the workers and the tasks that have one get their turns.   *)
(* That a sleeping task with work left is woken is SleepersWake of FileCrypt.   *)
Fairness ==
    /\ WF_vars(Main)
    /\ WF_vars(Take)
    /\ \A f \in Files, t \in Tasks : WF_vars(Progress(f, t) /\ UNCHANGED <<threads, xTasks, main, total>>)

Spec == Init /\ [][Next]_vars /\ Fairness

------------------------------------------------------------------------------
TypeOK ==
    /\ size \in Directories
    /\ place \in [Files -> [Tasks -> Places]]
    /\ passed \in [Files -> [Tasks -> Nat]]
    /\ threads \in Nat \ {0}
    /\ xTasks \in Seq(Files \X Tasks)
    /\ main \in {"start", "wait", "done"} \X Files \X Tasks
    /\ total \in [Tasks -> Nat]

(* A task that runs while the next one has not made itself known is not held      *)
(* back, and the list between them can grow with the file.  However many files    *)
(* are in the directory, this cannot happen to more of them at a time than half    *)
(* of the threads, rounded up: for one file at most the next task is still in the  *)
(* queue, every other one has cost the pool a second thread.                     *)
Unheld == {f \in Files : \E t \in {"read", "crypt"} :
               place[f][t] = "running" /\ ~Started(f, Down[t])}
FewFilesUnheld == 2 * Cardinality(Unheld) <= threads + 1

(* A task that sleeps with work left has a running task downstream, never one    *)
(* that is still in the queue, behind other tasks that sleep, or that has ended.  *)
Downstream == [read |-> {"crypt", "write"}, crypt |-> {"write"}]
SleeperIsServed ==
    \A f \in Files, t \in Tasks \ {"write"} :
        place[f][t] = "asleep" /\ passed[f][t] < size[f].blocks =>
            \E u \in Downstream[t] : place[f][u] = "running"

(* What main has waited for is written to its end, whatever the files after it    *)
(* are doing: the promise that is waited for last is that of the last task.      *)
WaitedFor(f) == main[1] = "done" \/ (main[1] = "wait" /\ f < main[2])
WaitedIsWritten == \A f \in Files : WaitedFor(f) => passed[f]["write"] = size[f].blocks

(* The totals that are printed are those of the files that main has waited for.  *)
BlocksUpTo[f \in 0 .. NumFiles] == IF f = 0 THEN 0 ELSE BlocksUpTo[f - 1] + size[f].blocks
TotalsAreSums ==
    /\ main[1] = "wait" => total["write"] = BlocksUpTo[main[2] - 1]
    /\ main[1] = "done" => \A t \in Tasks : total[t] = BlocksUpTo[NumFiles]

(* An empty file keeps two threads for ever, one that ends where a read ends may  *)
(* keep the thread of its reader.  As long as a thread is left, every other file  *)
(* is written, whatever becomes of main.                                        *)
Empty == {f \in Files : size[f].blocks = 0}
Aligned == {f \in Files \ Empty : size[f].aligned}
ThreadIsLeft == 2 * Cardinality(Empty) + Cardinality(Aligned) < threads
OthersAreWritten ==
    \A f \in Files : (ThreadIsLeft /\ f \notin Empty) ~> (place[f]["write"] = "ended")

(* Without such files one thread is enough for any number of files.            *)
OneThreadIsEnough == (Empty \cup Aligned = {}) ~> (main[1] = "done")

==============================================================================
