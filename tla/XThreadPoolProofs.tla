-------------------------- MODULE XThreadPoolProofs --------------------------
(***************************************************************************)
(* The safety of the thread pool, for every set of workers and every number *)
(* of tasks.  The four invariants that the runs check are not inductive one *)
(* by one; PoolInv is, and implies them.                                    *)
(***************************************************************************)
EXTENDS XThreadPool, FiniteSetTheorems, TLAPS

(* What is true of the client's place: who may be running, what was added, and *)
(* that cv_ is waited on only while the queue is empty.                        *)
Phases ==
    /\ main = "init" => ~isRunning /\ added = 0
    /\ main = "add" => added < NumTasks
    /\ isRunning => main \notin {"init", "notifyAll", "join", "stopped"}
    /\ main \in {"stop", "notifyAll", "join", "stopped"} => returned = Tasks
    /\ main = "stopped" => Joined
    /\ \A w \in Workers : pc[w] = "towait" => xTasks = <<>>

(* OnceInOrder, and what keeps it: a worker at work has a task, a task that has *)
(* returned has been taken.                                                    *)
Order ==
    /\ OnceInOrder
    /\ Len(xTasks) <= added
    /\ \A w \in Workers : pc[w] \in {"begin", "main", "end"} => cur[w] # 0
    /\ returned \subseteq 1 .. Taken

(* The workers that f puts in one of the places in P. *)
At(f, P) == {w \in Workers : f[w] \in P}

(* task_run_count_ is the number of workers between ++ and --. *)
Counted == taskRunCount = Cardinality(At(pc, {"main", "end"}))

PoolInv == TypeOK /\ Phases /\ Order /\ Counted /\ NoTaskStranded

------------------------------------------------------------------------------
(* The number of workers in a set of places P when worker w goes to l. *)
LEMMA PlacesMove ==
    ASSUME TypeOK, NEW w \in Workers, NEW l \in WorkerPc, Goto(w, l), NEW P
    PROVE  /\ Cardinality(At(pc, P)) \in Nat
           /\ Cardinality(At(pc', P)) \in Nat
           /\ (pc[w] \in P /\ l \in P) => Cardinality(At(pc', P)) = Cardinality(At(pc, P))
           /\ (pc[w] \notin P /\ l \notin P) => Cardinality(At(pc', P)) = Cardinality(At(pc, P))
           /\ (pc[w] \notin P /\ l \in P) => Cardinality(At(pc', P)) = Cardinality(At(pc, P)) + 1
           /\ (pc[w] \in P /\ l \notin P) => Cardinality(At(pc', P)) = Cardinality(At(pc, P)) - 1
  <1>1. IsFiniteSet(At(pc, P)) /\ IsFiniteSet(At(pc', P))
    BY PoolAssumption, FS_Subset DEF At
  <1>2. Cardinality(At(pc, P)) \in Nat /\ Cardinality(At(pc', P)) \in Nat
    BY <1>1, FS_CardinalityType
  <1>3. ((pc[w] \in P /\ l \in P) \/ (pc[w] \notin P /\ l \notin P))
            => At(pc', P) = At(pc, P)
    BY DEF At, TypeOK, Goto
  <1>4. ASSUME pc[w] \notin P, l \in P
        PROVE  Cardinality(At(pc', P)) = Cardinality(At(pc, P)) + 1
    <2>1. At(pc', P) = At(pc, P) \cup {w} /\ w \notin At(pc, P)
      BY <1>4 DEF At, TypeOK, Goto
    <2> QED BY <2>1, <1>1, FS_AddElement
  <1>5. ASSUME pc[w] \in P, l \notin P
        PROVE  Cardinality(At(pc', P)) = Cardinality(At(pc, P)) - 1
    <2>1. At(pc', P) = At(pc, P) \ {w} /\ w \in At(pc, P)
      BY <1>5 DEF At, TypeOK, Goto
    <2> QED BY <2>1, <1>1, FS_RemoveElement
  <1> QED BY <1>2, <1>3, <1>4, <1>5

LEMMA InitPoolInv == Init => PoolInv
  <1> SUFFICES ASSUME Init PROVE PoolInv
    OBVIOUS
  <1>1. TypeOK
    <2>1. pc \in [Workers -> WorkerPc]
      BY DEF Init, WorkerPc
    <2>2. 0 \in 0 .. NumTasks /\ cur \in [Workers -> 0 .. NumTasks]
      BY PoolAssumption DEF Init
    <2>3. xTasks \in Seq(Tasks) /\ main \in ClientPc /\ returned \in SUBSET Tasks
      BY DEF Init, ClientPc
    <2> QED BY <2>1, <2>2, <2>3 DEF Init, TypeOK
  <1>2. Phases
    BY DEF Init, Phases
  <1>3. Order
    BY DEF Init, Order, OnceInOrder, Taken
  <1>4. Counted
    <2>1. At(pc, {"main", "end"}) = {}
      BY DEF Init, At
    <2> QED BY <2>1, FS_EmptySet DEF Init, Counted
  <1>5. NoTaskStranded
    BY DEF Init, NoTaskStranded
  <1> QED BY <1>1, <1>2, <1>3, <1>4, <1>5 DEF PoolInv

(* Every step keeps the types; task_run_count_ does not fall below 0. *)
LEMMA TypeStep ==
    ASSUME PoolInv, [Next]_vars
    PROVE  TypeOK'
  <1> USE PoolAssumption DEF PoolInv, TypeOK, WorkerPc, ClientPc, Tasks
  <1>1. ASSUME NEW w \in Workers, Spawn(w) PROVE TypeOK'
    BY <1>1 DEF Spawn, Goto, clientVars, taskVars
  <1>2. CASE InitDone
    BY <1>2 DEF InitDone, taskVars
  <1>3. CASE AddTask
    BY <1>3 DEF AddTask, MutexFree, taskVars, Phases
  <1>4. CASE NotifyOne
    <2>1. CASE Waiting = {}
      BY <1>4, <2>1 DEF NotifyOne, WakeOne, taskVars
    <2>2. ASSUME NEW w \in Workers, Goto(w, "woken") PROVE TypeOK'
      BY <1>4, <2>2 DEF NotifyOne, Goto, taskVars
    <2> QED BY <1>4, <2>1, <2>2 DEF NotifyOne, WakeOne, Waiting
  <1>5. CASE WaitReturns
    BY <1>5 DEF WaitReturns, taskVars
  <1>6. CASE StopFlag
    BY <1>6 DEF StopFlag, taskVars
  <1>7. CASE NotifyAll
    BY <1>7 DEF NotifyAll, taskVars
  <1>8. CASE Join
    BY <1>8 DEF Join, Joined, taskVars
  <1>9. ASSUME NEW w \in Workers, Loop(w) PROVE TypeOK'
    BY <1>9 DEF Loop, Goto, clientVars, taskVars
  <1>10. ASSUME NEW w \in Workers, GetEmpty(w) PROVE TypeOK'
    BY <1>10 DEF GetEmpty, Goto, MutexFree, clientVars, taskVars
  <1>11. ASSUME NEW w \in Workers, BeginWait(w) PROVE TypeOK'
    BY <1>11 DEF BeginWait, Goto, clientVars, taskVars
  <1>12. ASSUME NEW w \in Workers, GetNull(w) PROVE TypeOK'
    BY <1>12 DEF GetNull, Goto, HasMutexToTake, MutexFree, clientVars, taskVars
  <1>13. ASSUME NEW w \in Workers, GetTask(w) PROVE TypeOK'
    BY <1>13 DEF GetTask, Goto, HasMutexToTake, MutexFree, clientVars
  <1>14. ASSUME NEW w \in Workers, BeginTask(w) PROVE TypeOK'
    BY <1>14 DEF BeginTask, Goto, clientVars
  <1>15. ASSUME NEW w \in Workers, SetReturn(w) PROVE TypeOK'
    <2>1. cur[w] \in Tasks
      BY <1>15 DEF SetReturn, Order
    <2> QED BY <1>15, <2>1 DEF SetReturn, Goto, clientVars
  <1>16. ASSUME NEW w \in Workers, EndTask(w) PROVE TypeOK'
    <2> DEFINE Running == At(pc, {"main", "end"})
    <2>1. w \in Running /\ IsFiniteSet(Running)
      BY <1>16, FS_Subset DEF EndTask, At
    <2>2. Cardinality(Running) \in Nat /\ Cardinality(Running) # 0
      BY <2>1, FS_CardinalityType, FS_EmptySet
    <2>3. taskRunCount - 1 \in Nat
      BY <2>2 DEF Counted
    <2> QED BY <1>16, <2>3 DEF EndTask, Goto, clientVars
  <1>17. ASSUME NEW w \in Workers, SpuriousWake(w) PROVE TypeOK'
    BY <1>17 DEF SpuriousWake, Goto, clientVars, taskVars
  <1>18. ASSUME NEW w \in Workers, Throw(w) PROVE TypeOK'
    BY <1>18 DEF Throw, Goto, clientVars, taskVars
  <1>19. CASE UNCHANGED vars
    BY <1>19 DEF vars
  <1> QED
    BY <1>1, <1>2, <1>3, <1>4, <1>5, <1>6, <1>7, <1>8, <1>9, <1>10,
       <1>11, <1>12, <1>13, <1>14, <1>15, <1>16, <1>17, <1>18, <1>19
    DEF Next, Client, Run

(* Every step keeps what the client's place implies. *)
LEMMA PhasesStep ==
    ASSUME PoolInv, [Next]_vars
    PROVE  Phases'
  <1> USE PoolAssumption DEF PoolInv, TypeOK, WorkerPc, ClientPc, Phases, Joined, Tasks
  <1>1. ASSUME NEW w \in Workers, Spawn(w) PROVE Phases'
    BY <1>1 DEF Spawn, Goto, clientVars, taskVars
  <1>2. CASE InitDone
    BY <1>2 DEF InitDone, taskVars
  <1>3. CASE AddTask
    BY <1>3 DEF AddTask, MutexFree, taskVars
  <1>4. CASE NotifyOne
    <2>1. CASE Waiting = {}
      BY <1>4, <2>1 DEF NotifyOne, WakeOne, taskVars
    <2>2. ASSUME NEW w \in Workers, Goto(w, "woken") PROVE Phases'
      BY <1>4, <2>2 DEF NotifyOne, Goto, taskVars
    <2> QED BY <1>4, <2>1, <2>2 DEF NotifyOne, WakeOne, Waiting
  <1>5. CASE WaitReturns
    BY <1>5 DEF WaitReturns, taskVars
  <1>6. CASE StopFlag
    BY <1>6 DEF StopFlag, taskVars
  <1>7. CASE NotifyAll
    BY <1>7 DEF NotifyAll, taskVars
  <1>8. CASE Join
    BY <1>8 DEF Join, Joined, taskVars
  <1>9. ASSUME NEW w \in Workers, Loop(w) PROVE Phases'
    BY <1>9 DEF Loop, Goto, clientVars, taskVars
  <1>10. ASSUME NEW w \in Workers, GetEmpty(w) PROVE Phases'
    BY <1>10 DEF GetEmpty, Goto, MutexFree, clientVars, taskVars
  <1>11. ASSUME NEW w \in Workers, BeginWait(w) PROVE Phases'
    BY <1>11 DEF BeginWait, Goto, clientVars, taskVars
  <1>12. ASSUME NEW w \in Workers, GetNull(w) PROVE Phases'
    BY <1>12 DEF GetNull, Goto, HasMutexToTake, MutexFree, clientVars, taskVars
  <1>13. ASSUME NEW w \in Workers, GetTask(w) PROVE Phases'
    BY <1>13 DEF GetTask, Goto, HasMutexToTake, MutexFree, clientVars
  <1>14. ASSUME NEW w \in Workers, BeginTask(w) PROVE Phases'
    BY <1>14 DEF BeginTask, Goto, clientVars
  <1>15. ASSUME NEW w \in Workers, SetReturn(w) PROVE Phases'
    <2>1. returned' = Tasks \/ returned # Tasks
      BY <1>15, TypeStep DEF SetReturn
    <2> QED BY <1>15, <2>1 DEF SetReturn, Goto, clientVars
  <1>16. ASSUME NEW w \in Workers, EndTask(w) PROVE Phases'
    BY <1>16 DEF EndTask, Goto, clientVars
  <1>17. ASSUME NEW w \in Workers, SpuriousWake(w) PROVE Phases'
    BY <1>17 DEF SpuriousWake, Goto, clientVars, taskVars
  <1>18. ASSUME NEW w \in Workers, Throw(w) PROVE Phases'
    BY <1>18 DEF Throw, Goto, clientVars, taskVars
  <1>19. CASE UNCHANGED vars
    BY <1>19 DEF vars
  <1> QED
    BY <1>1, <1>2, <1>3, <1>4, <1>5, <1>6, <1>7, <1>8, <1>9, <1>10,
       <1>11, <1>12, <1>13, <1>14, <1>15, <1>16, <1>17, <1>18, <1>19
    DEF Next, Client, Run

(* Every step keeps the order of the queue and of what has left it. *)
LEMMA OrderStep ==
    ASSUME PoolInv, [Next]_vars
    PROVE  Order'
  <1> USE PoolAssumption DEF PoolInv, TypeOK, WorkerPc, Order, OnceInOrder, Tasks
  <1>0. Taken = added - Len(xTasks) /\ Taken \in Nat
    BY DEF Taken
  <1>1. ASSUME NEW w \in Workers, Spawn(w) PROVE Order'
    BY <1>1 DEF Spawn, Goto, clientVars, taskVars, Taken
  <1>2. CASE InitDone
    BY <1>2 DEF InitDone, taskVars, Taken
  <1>3. CASE AddTask
    <2>1. added' = added + 1 /\ Len(xTasks') = Len(xTasks) + 1 /\ Taken' = Taken
      BY <1>3 DEF AddTask, Taken
    <2>2. \A i \in 1 .. Len(xTasks') : xTasks'[i] = Taken + i
      BY <1>3, <2>1 DEF AddTask, Taken
    <2> QED BY <1>3, <2>1, <2>2 DEF AddTask, taskVars
  <1>4. CASE NotifyOne
    <2>1. UNCHANGED <<xTasks, added, cur, returned>>
      BY <1>4 DEF NotifyOne, taskVars
    <2>2. \A v \in Workers : pc'[v] = pc[v] \/ pc'[v] = "woken"
      BY <1>4 DEF NotifyOne, WakeOne, Goto
    <2> QED BY <2>1, <2>2 DEF Taken
  <1>5. CASE WaitReturns
    BY <1>5 DEF WaitReturns, taskVars, Taken
  <1>6. CASE StopFlag
    BY <1>6 DEF StopFlag, taskVars, Taken
  <1>7. CASE NotifyAll
    BY <1>7 DEF NotifyAll, taskVars, Taken
  <1>8. CASE Join
    BY <1>8 DEF Join, Joined, taskVars, Taken
  <1>9. ASSUME NEW w \in Workers, Loop(w) PROVE Order'
    BY <1>9 DEF Loop, Goto, clientVars, taskVars, Taken
  <1>10. ASSUME NEW w \in Workers, GetEmpty(w) PROVE Order'
    BY <1>10 DEF GetEmpty, Goto, MutexFree, clientVars, taskVars, Taken
  <1>11. ASSUME NEW w \in Workers, BeginWait(w) PROVE Order'
    BY <1>11 DEF BeginWait, Goto, clientVars, taskVars, Taken
  <1>12. ASSUME NEW w \in Workers, GetNull(w) PROVE Order'
    BY <1>12 DEF GetNull, Goto, HasMutexToTake, MutexFree, clientVars, taskVars, Taken
  <1>13. ASSUME NEW w \in Workers, GetTask(w) PROVE Order'
    <2>1. /\ Head(xTasks) = xTasks[1] /\ xTasks[1] = Taken + 1 /\ Len(xTasks) >= 1
          /\ Len(xTasks') = Len(xTasks) - 1
          /\ \A i \in 1 .. Len(xTasks') : xTasks'[i] = xTasks[i + 1]
      BY <1>13 DEF GetTask
    <2>2. UNCHANGED <<added, returned>> /\ Taken' = Taken + 1 /\ Taken \in Nat
      BY <1>13, <2>1 DEF GetTask, Taken, clientVars
    <2>3. cur' = [cur EXCEPT ![w] = Taken + 1]
      BY <1>13, <2>1 DEF GetTask
    <2>4. \A i \in 1 .. Len(xTasks') : xTasks'[i] = Taken' + i
      BY <2>1, <2>2, SMTT(30)
    <2>5. \A v \in Workers :
             /\ cur'[v] <= Taken'
             /\ pc'[v] \in {"begin", "main"} => cur'[v] \notin returned'
             /\ pc'[v] \in {"begin", "main", "end"} => cur'[v] # 0
             /\ \A u \in Workers \ {v} : cur'[v] # 0 => cur'[u] # cur'[v]
      BY <1>13, <2>2, <2>3 DEF GetTask, Goto
    <2> QED BY <2>1, <2>2, <2>4, <2>5
  <1>14. ASSUME NEW w \in Workers, BeginTask(w) PROVE Order'
    BY <1>14 DEF BeginTask, Goto, clientVars, Taken
  <1>15. ASSUME NEW w \in Workers, SetReturn(w) PROVE Order'
    <2>1. UNCHANGED <<xTasks, added, cur>> /\ Taken' = Taken /\ Taken \in Nat
      BY <1>15 DEF SetReturn, Taken, clientVars
    <2>2. cur[w] \in 1 .. Taken
      BY <1>15, <2>1 DEF SetReturn
    <2> QED BY <1>15, <2>1, <2>2 DEF SetReturn, Goto
  <1>16. ASSUME NEW w \in Workers, EndTask(w) PROVE Order'
    BY <1>16 DEF EndTask, Goto, clientVars, Taken
  <1>17. ASSUME NEW w \in Workers, SpuriousWake(w) PROVE Order'
    BY <1>17 DEF SpuriousWake, Goto, clientVars, taskVars, Taken
  <1>18. ASSUME NEW w \in Workers, Throw(w) PROVE Order'
    BY <1>18 DEF Throw, Goto, clientVars, taskVars, Taken
  <1>19. CASE UNCHANGED vars
    BY <1>19 DEF vars, Taken
  <1> QED
    BY <1>1, <1>2, <1>3, <1>4, <1>5, <1>6, <1>7, <1>8, <1>9, <1>10,
       <1>11, <1>12, <1>13, <1>14, <1>15, <1>16, <1>17, <1>18, <1>19
    DEF Next, Client, Run

(* Every step keeps the count of the running tasks. *)
LEMMA CountedStep ==
    ASSUME PoolInv, [Next]_vars
    PROVE  Counted'
  <1> DEFINE Places == {"main", "end"}
  <1> USE DEF PoolInv, WorkerPc, Counted
  <1>1. ASSUME NEW w \in Workers, Spawn(w) PROVE Counted'
    <2>1. Cardinality(At(pc', Places)) = Cardinality(At(pc, Places))
      BY <1>1, PlacesMove DEF Spawn
    <2> QED BY <1>1, <2>1 DEF Spawn, taskVars
  <1>2. CASE InitDone
    BY <1>2 DEF InitDone, taskVars
  <1>3. CASE AddTask
    BY <1>3 DEF AddTask, MutexFree, taskVars
  <1>4. CASE NotifyOne
    <2>1. CASE Waiting = {}
      BY <1>4, <2>1 DEF NotifyOne, WakeOne, taskVars
    <2>2. ASSUME NEW w \in Waiting, Goto(w, "woken") PROVE Counted'
      <3>1. Cardinality(At(pc', Places)) = Cardinality(At(pc, Places))
        BY <2>2, PlacesMove DEF Waiting
      <3> QED BY <1>4, <3>1 DEF NotifyOne, taskVars
    <2> QED BY <1>4, <2>1, <2>2 DEF NotifyOne, WakeOne
  <1>5. CASE WaitReturns
    BY <1>5 DEF WaitReturns, taskVars
  <1>6. CASE StopFlag
    BY <1>6 DEF StopFlag, taskVars
  <1>7. CASE NotifyAll
    <2>1. At(pc', Places) = At(pc, Places)
      BY <1>7 DEF NotifyAll, At
    <2> QED BY <1>7, <2>1 DEF NotifyAll, taskVars
  <1>8. CASE Join
    BY <1>8 DEF Join, Joined, taskVars
  <1>9. ASSUME NEW w \in Workers, Loop(w) PROVE Counted'
    <2>1. Goto(w, "get") \/ Goto(w, "exited")
      BY <1>9 DEF Loop
    <2>2. Cardinality(At(pc', Places)) = Cardinality(At(pc, Places))
      BY <1>9, <2>1, PlacesMove DEF Loop
    <2> QED BY <1>9, <2>2 DEF Loop, taskVars
  <1>10. ASSUME NEW w \in Workers, GetEmpty(w) PROVE Counted'
    <2>1. Cardinality(At(pc', Places)) = Cardinality(At(pc, Places))
      BY <1>10, PlacesMove DEF GetEmpty
    <2> QED BY <1>10, <2>1 DEF GetEmpty, taskVars
  <1>11. ASSUME NEW w \in Workers, BeginWait(w) PROVE Counted'
    <2>1. Cardinality(At(pc', Places)) = Cardinality(At(pc, Places))
      BY <1>11, PlacesMove DEF BeginWait
    <2> QED BY <1>11, <2>1 DEF BeginWait, taskVars
  <1>12. ASSUME NEW w \in Workers, GetNull(w) PROVE Counted'
    <2>1. Cardinality(At(pc', Places)) = Cardinality(At(pc, Places))
      BY <1>12, PlacesMove DEF GetNull, HasMutexToTake
    <2> QED BY <1>12, <2>1 DEF GetNull, taskVars
  <1>13. ASSUME NEW w \in Workers, GetTask(w) PROVE Counted'
    <2>1. Cardinality(At(pc', Places)) = Cardinality(At(pc, Places))
      BY <1>13, PlacesMove DEF GetTask, HasMutexToTake
    <2> QED BY <1>13, <2>1 DEF GetTask
  <1>14. ASSUME NEW w \in Workers, BeginTask(w) PROVE Counted'
    <2>1. Cardinality(At(pc', Places)) = Cardinality(At(pc, Places)) + 1
      BY <1>14, PlacesMove DEF BeginTask
    <2> QED BY <1>14, <2>1 DEF BeginTask
  <1>15. ASSUME NEW w \in Workers, SetReturn(w) PROVE Counted'
    <2>1. Cardinality(At(pc', Places)) = Cardinality(At(pc, Places))
      BY <1>15, PlacesMove DEF SetReturn
    <2> QED BY <1>15, <2>1 DEF SetReturn
  <1>16. ASSUME NEW w \in Workers, EndTask(w) PROVE Counted'
    <2>1. Cardinality(At(pc', Places)) = Cardinality(At(pc, Places)) - 1
      BY <1>16, PlacesMove DEF EndTask
    <2> QED BY <1>16, <2>1 DEF EndTask
  <1>17. ASSUME NEW w \in Workers, SpuriousWake(w) PROVE Counted'
    <2>1. Cardinality(At(pc', Places)) = Cardinality(At(pc, Places))
      BY <1>17, PlacesMove DEF SpuriousWake
    <2> QED BY <1>17, <2>1 DEF SpuriousWake, taskVars
  <1>18. ASSUME NEW w \in Workers, Throw(w) PROVE Counted'
    <2>1. Cardinality(At(pc', Places)) = Cardinality(At(pc, Places))
      BY <1>18, PlacesMove DEF Throw
    <2> QED BY <1>18, <2>1 DEF Throw, taskVars
  <1>19. CASE UNCHANGED vars
    BY <1>19 DEF vars
  <1> QED
    BY <1>1, <1>2, <1>3, <1>4, <1>5, <1>6, <1>7, <1>8, <1>9, <1>10,
       <1>11, <1>12, <1>13, <1>14, <1>15, <1>16, <1>17, <1>18, <1>19
    DEF Next, Client, Run

(* Every step that takes a worker off its way to the queue takes a task with it. *)
LEMMA NoTaskStrandedStep ==
    ASSUME PoolInv, [Next]_vars
    PROVE  NoTaskStranded'
  <1> DEFINE Places == {"loop", "get", "woken"}
  <1> USE DEF PoolInv, WorkerPc, NoTaskStranded
  <1> Heading = At(pc, Places) /\ Heading' = At(pc', Places)
    BY DEF Heading, At
  <1> Cardinality(At(pc, Places)) \in Nat
    BY PoolAssumption, FS_Subset, FS_CardinalityType DEF At
  <1>1. ASSUME NEW w \in Workers, Spawn(w) PROVE NoTaskStranded'
    BY <1>1 DEF Spawn, Goto, clientVars, taskVars, Phases
  <1>2. CASE InitDone
    <2>1. Len(xTasks') = 0 /\ PendingNotify' = 0
      BY <1>2 DEF InitDone, Phases, Order, TypeOK, PendingNotify
    <2>2. Cardinality(At(pc', Places)) \in Nat
      BY <1>2 DEF InitDone
    <2> QED BY <2>1, <2>2
  <1>3. CASE AddTask
    <2>1. Len(xTasks') = Len(xTasks) + 1 /\ PendingNotify = 0 /\ PendingNotify' = 1
      BY <1>3 DEF AddTask, PendingNotify, TypeOK
    <2>2. UNCHANGED <<isRunning, pc>>
      BY <1>3 DEF AddTask
    <2>3. Waiting' = Waiting /\ At(pc', Places) = At(pc, Places)
      BY <2>2 DEF Waiting, At
    <2>4. Len(xTasks) \in Nat
      BY DEF TypeOK
    <2> QED BY <2>1, <2>2, <2>3, <2>4
  <1>4. CASE NotifyOne
    <2>1. UNCHANGED <<isRunning, xTasks>> /\ PendingNotify = 1 /\ PendingNotify' = 0
      BY <1>4 DEF NotifyOne, PendingNotify
    <2>2. CASE Waiting = {}
      BY <1>4, <2>2 DEF NotifyOne, WakeOne, Waiting
    <2>3. ASSUME NEW w \in Waiting, Goto(w, "woken") PROVE NoTaskStranded'
      <3>1. Cardinality(At(pc', Places)) = Cardinality(At(pc, Places)) + 1
        BY <2>3, PlacesMove DEF Waiting
      <3> QED BY <2>1, <2>3, <3>1
    <2> QED BY <1>4, <2>2, <2>3 DEF NotifyOne, WakeOne
  <1>5. CASE WaitReturns
    BY <1>5 DEF WaitReturns, taskVars, Waiting, PendingNotify
  <1>6. CASE StopFlag
    BY <1>6 DEF StopFlag, taskVars, Phases
  <1>7. CASE NotifyAll
    BY <1>7 DEF NotifyAll, taskVars, Phases
  <1>8. CASE Join
    BY <1>8 DEF Join, Joined, taskVars, Phases
  <1>9. ASSUME NEW w \in Workers, Loop(w) PROVE NoTaskStranded'
    <2>1. CASE isRunning
      <3>1. Cardinality(At(pc', Places)) = Cardinality(At(pc, Places))
        BY <1>9, <2>1, PlacesMove DEF Loop
      <3> QED BY <1>9, <2>1, <3>1 DEF Loop, Goto, Waiting, PendingNotify, clientVars
    <2> QED BY <1>9, <2>1 DEF Loop, clientVars
  <1>10. ASSUME NEW w \in Workers, GetEmpty(w) PROVE NoTaskStranded'
    <2>1. xTasks' = <<>> /\ Cardinality(At(pc', Places)) \in Nat
      BY <1>10, PlacesMove DEF GetEmpty
    <2> QED BY <2>1 DEF PendingNotify
  <1>11. ASSUME NEW w \in Workers, BeginWait(w) PROVE NoTaskStranded'
    <2>1. xTasks' = <<>> /\ Cardinality(At(pc', Places)) \in Nat
      BY <1>11, PlacesMove DEF BeginWait, Phases
    <2> QED BY <2>1 DEF PendingNotify
  <1>12. ASSUME NEW w \in Workers, GetNull(w) PROVE NoTaskStranded'
    <2>1. Cardinality(At(pc', Places)) = Cardinality(At(pc, Places))
      BY <1>12, PlacesMove DEF GetNull, HasMutexToTake
    <2>2. Waiting' \subseteq Waiting
      BY <1>12 DEF GetNull, HasMutexToTake, Goto, Waiting
    <2> QED BY <1>12, <2>1, <2>2 DEF GetNull, clientVars, PendingNotify
  <1>13. ASSUME NEW w \in Workers, GetTask(w) PROVE NoTaskStranded'
    <2>1. Cardinality(At(pc', Places)) = Cardinality(At(pc, Places)) - 1
      BY <1>13, PlacesMove DEF GetTask, HasMutexToTake
    <2>2. Waiting' \subseteq Waiting
      BY <1>13 DEF GetTask, HasMutexToTake, Goto, Waiting
    <2> QED BY <1>13, <2>1, <2>2 DEF GetTask, clientVars, PendingNotify
  <1>14. ASSUME NEW w \in Workers, BeginTask(w) PROVE NoTaskStranded'
    <2>1. Cardinality(At(pc', Places)) = Cardinality(At(pc, Places))
      BY <1>14, PlacesMove DEF BeginTask
    <2>2. Waiting' \subseteq Waiting
      BY <1>14 DEF BeginTask, Goto, Waiting
    <2> QED BY <1>14, <2>1, <2>2 DEF BeginTask, clientVars, PendingNotify
  <1>15. ASSUME NEW w \in Workers, SetReturn(w) PROVE NoTaskStranded'
    <2>1. Cardinality(At(pc', Places)) = Cardinality(At(pc, Places))
      BY <1>15, PlacesMove DEF SetReturn
    <2>2. Waiting' \subseteq Waiting
      BY <1>15 DEF SetReturn, Goto, Waiting
    <2> QED BY <1>15, <2>1, <2>2 DEF SetReturn, clientVars, PendingNotify
  <1>16. ASSUME NEW w \in Workers, EndTask(w) PROVE NoTaskStranded'
    <2>1. Cardinality(At(pc', Places)) = Cardinality(At(pc, Places)) + 1
      BY <1>16, PlacesMove DEF EndTask
    <2>2. Waiting' \subseteq Waiting
      BY <1>16 DEF EndTask, Goto, Waiting
    <2> QED BY <1>16, <2>1, <2>2 DEF EndTask, clientVars, PendingNotify
  <1>17. ASSUME NEW w \in Workers, SpuriousWake(w) PROVE NoTaskStranded'
    <2>1. Cardinality(At(pc', Places)) = Cardinality(At(pc, Places)) + 1
      BY <1>17, PlacesMove DEF SpuriousWake
    <2>2. Waiting' \subseteq Waiting
      BY <1>17 DEF SpuriousWake, Goto, Waiting
    <2> QED BY <1>17, <2>1, <2>2 DEF SpuriousWake, clientVars, PendingNotify
  <1>18. ASSUME NEW w \in Workers, Throw(w) PROVE NoTaskStranded'
    <2>1. Cardinality(At(pc', Places)) = Cardinality(At(pc, Places))
      BY <1>18, PlacesMove DEF Throw
    <2>2. Waiting' \subseteq Waiting
      BY <1>18 DEF Throw, Goto, Waiting
    <2> QED BY <1>18, <2>1, <2>2 DEF Throw, clientVars, PendingNotify
  <1>19. CASE UNCHANGED vars
    BY <1>19 DEF vars, Waiting, PendingNotify
  <1> QED
    BY <1>1, <1>2, <1>3, <1>4, <1>5, <1>6, <1>7, <1>8, <1>9, <1>10,
       <1>11, <1>12, <1>13, <1>14, <1>15, <1>16, <1>17, <1>18, <1>19
    DEF Next, Client, Run

------------------------------------------------------------------------------
(* PoolInv holds in every reachable state. *)
THEOREM Safety == Spec => []PoolInv
  <1>1. PoolInv /\ [Next]_vars => PoolInv'
    BY TypeStep, PhasesStep, OrderStep, CountedStep, NoTaskStrandedStep DEF PoolInv
  <1> QED BY InitPoolInv, <1>1, PTL DEF Spec

(* Type correctness; with it, task_run_count_ is never negative. *)
THEOREM Typing == Spec => []TypeOK
  <1>1. PoolInv => TypeOK
    BY DEF PoolInv
  <1> QED BY Safety, <1>1, PTL

(* However many workers compete for the tasks, GetTask hands them out in the    *)
(* order of AddTask and each to one worker.                                     *)
THEOREM TakenOnceInOrder == Spec => []OnceInOrder
  <1>1. PoolInv => OnceInOrder
    BY DEF PoolInv, Order
  <1> QED BY Safety, <1>1, PTL

(* No notification of cv_ is missed while a task is queued: for any number of   *)
(* workers and tasks, and although AddTask notifies after it releases mutex_.   *)
THEOREM NoLostWakeup == Spec => []NoTaskStranded
  <1>1. PoolInv => NoTaskStranded
    BY DEF PoolInv
  <1> QED BY Safety, <1>1, PTL

(* When Stop has returned no worker, no running task and no queued task is left. *)
THEOREM StopLeavesNothing == Spec => []StoppedClean
  <1>1. PoolInv => StoppedClean
    <2> SUFFICES ASSUME PoolInv, main = "stopped"
                 PROVE  Joined /\ xTasks = <<>> /\ taskRunCount = 0 /\ returned = Tasks
      BY DEF StoppedClean
    <2>1. Joined /\ returned = Tasks
      BY DEF PoolInv, Phases
    <2>2. At(pc, {"main", "end"}) = {}
      BY <2>1 DEF Joined, At
    <2>3. taskRunCount = 0
      BY <2>2, FS_EmptySet DEF PoolInv, Counted
    <2>4. NumTasks \in 1 .. Taken
      BY <2>1, PoolAssumption DEF PoolInv, Order, Tasks
    <2>5. xTasks = <<>>
      BY <2>4, PoolAssumption DEF PoolInv, TypeOK, Taken
    <2> QED BY <2>1, <2>3, <2>5
  <1> QED BY Safety, <1>1, PTL

==============================================================================
