--------------------------- MODULE XFileCryptProofs ---------------------------
(* Proofs about XFileCrypt: what holds for any number of files and of threads.   *)
EXTENDS XFileCrypt, DataInduction, TLAPS

(* The place of a task in the order in which main adds them. *)
Index == [read |-> 1, crypt |-> 2, write |-> 3]
Pos(f, t) == 3 * (f - 1) + Index[t]

(* How many tasks have been added, and how many of those have been taken. *)
Added == IF main[1] = "start" THEN Pos(main[2], main[3]) - 1 ELSE 3 * NumFiles
Taken == Added - Len(xTasks)

(* A worker has taken the task out of the queue, now or before. *)
LeftQueue(f, t) == place[f][t] \notin {"new", "queued"}

(* The queue is a stretch of the order; what is before it has been taken, what is *)
(* behind it has not been added.                                               *)
QueueInOrder ==
    /\ \A f \in Files, t \in Tasks : place[f][t] = "new" <=> Pos(f, t) > Added
    /\ \A f \in Files, t \in Tasks : LeftQueue(f, t) <=> Pos(f, t) <= Taken
    /\ \A k \in 1 .. Len(xTasks) : Pos(xTasks[k][1], xTasks[k][2]) = Taken + k

(* A task passes on what has reached it and nothing after it has ended; it       *)
(* sleeps only if the next one has started.                                     *)
PassedInOrder ==
    \A f \in Files :
        /\ passed[f]["write"] <= passed[f]["crypt"]
        /\ passed[f]["crypt"] <= passed[f]["read"]
        /\ passed[f]["read"] <= size[f].blocks
        /\ \A t \in Tasks : place[f][t] = "ended" => passed[f][t] = size[f].blocks
        /\ place[f]["read"] = "asleep" => Started(f, "crypt")
        /\ place[f]["crypt"] = "asleep" => Started(f, "write")
        /\ place[f]["write"] # "asleep"

(* What main has waited for has ended.                                          *)
Waited ==
    CASE main[1] = "start" -> 0
      [] main[1] = "wait" -> Pos(main[2], main[3]) - 1
      [] main[1] = "done" -> 3 * NumFiles
WaitedInOrder == \A f \in Files, t \in Tasks : Pos(f, t) <= Waited => place[f][t] = "ended"

(* A worker has one task at a time. *)
BusyWithinThreads == IsFiniteSet(Busy) /\ Cardinality(Busy) <= threads

ProgramInv ==
    TypeOK /\ QueueInOrder /\ PassedInOrder /\ WaitedInOrder /\ BusyWithinThreads

------------------------------------------------------------------------------
(* The order of the tasks. *)

(* A place in the order belongs to one task of one file. *)
LEMMA PosFacts ==
    ASSUME NEW f \in Files, NEW t \in Tasks
    PROVE  /\ Pos(f, t) \in 1 .. 3 * NumFiles
           /\ Index[t] \in 1 .. 3
           /\ \A g \in Files, u \in Tasks : Pos(f, t) = Pos(g, u) => f = g /\ t = u
  <1>1. \A u \in Tasks : Index[u] \in 1 .. 3
    BY DEF Tasks, Index
  <1>2. \A u, v \in Tasks : Index[u] = Index[v] => u = v
    BY DEF Tasks, Index
  <1>3. \A a, b \in Nat, i, j \in 1 .. 3 : 3 * (a - 1) + i = 3 * (b - 1) + j => a = b /\ i = j
    OBVIOUS
  <1>4. f \in Nat /\ f >= 1 /\ f <= NumFiles /\ NumFiles \in Nat
    BY ProgramAssumption
  <1>5. Pos(f, t) \in 1 .. 3 * NumFiles
    BY <1>1, <1>4 DEF Pos
  <1>6. ASSUME NEW g \in Files, NEW u \in Tasks, Pos(f, t) = Pos(g, u)
        PROVE  f = g /\ t = u
    <2>1. g \in Nat
      BY ProgramAssumption
    <2>2. f = g /\ Index[t] = Index[u]
      BY <1>1, <1>3, <1>4, <1>6, <2>1 DEF Pos
    <2> QED BY <1>2, <2>2
  <1> QED BY <1>1, <1>5, <1>6

(* The numbers of tasks are numbers. *)
LEMMA CountsAreInt ==
    ASSUME TypeOK
    PROVE  Added \in Int /\ Len(xTasks) \in Nat /\ Taken \in Int
  <1>1. main[2] \in Files /\ main[3] \in Tasks
    BY DEF TypeOK
  <1>2. Added \in Int
    BY <1>1, PosFacts, ProgramAssumption DEF Added
  <1> QED BY <1>2 DEF TypeOK, Taken

(* What a task does to the places: one of them changes. *)
LEMMA MoveFacts ==
    ASSUME TypeOK, NEW f \in Files, NEW t \in Tasks, NEW from \in Places, NEW to \in Places,
           Move(f, t, from, to)
    PROVE  /\ place' \in [Files -> [Tasks -> Places]]
           /\ place[f][t] = from
           /\ place'[f][t] = to
           /\ \A g \in Files, u \in Tasks : <<g, u>> # <<f, t>> => place'[g][u] = place[g][u]
  BY DEF TypeOK, Move

(* The task after the one that main has added is the next one in the order.    *)
LEMMA AdvanceFacts ==
    ASSUME NEW f \in Files, NEW t \in Tasks,
           NEW op, NEW nextOp,
           <<op, nextOp>> \in {<<"start", "wait">>, <<"wait", "done">>},
           main = <<op, f, t>>, Advance(op, f, t, nextOp)
    PROVE  /\ main' \in {"start", "wait", "done"} \X Files \X Tasks
           /\ op = "start" => Added = Pos(f, t) - 1 /\ Added' = Added + 1 /\ Waited' = 0
           /\ op = "wait" => Added' = Added /\ Waited = Pos(f, t) - 1 /\ Waited' = Waited + 1
  <1>1. f \in Nat /\ f >= 1 /\ f <= NumFiles /\ NumFiles \in Nat /\ 1 \in Files
    BY ProgramAssumption
  <1>2. CASE t # "write"
    <2>1. main' = <<op, f, Down[t]>> /\ Down[t] \in Tasks
      BY <1>2 DEF Advance, Down, Tasks
    <2>2. Pos(f, Down[t]) = Pos(f, t) + 1
      BY <1>1, <1>2 DEF Pos, Index, Down, Tasks
    <2>3. Pos(f, t) \in Int
      BY PosFacts
    <2> QED BY <2>1, <2>2, <2>3, <1>1 DEF Added, Waited
  <1>3. CASE t = "write" /\ f < NumFiles
    <2>1. main' = <<op, f + 1, "read">> /\ f + 1 \in Files /\ "read" \in Tasks
      BY <1>1, <1>3, ProgramAssumption DEF Advance, Tasks
    <2>2. Pos(f + 1, "read") = Pos(f, t) + 1
      BY <1>1, <1>3 DEF Pos, Index
    <2>3. Pos(f, t) \in Int
      BY PosFacts
    <2> QED BY <2>1, <2>2, <2>3, <1>1 DEF Added, Waited
  <1>4. CASE t = "write" /\ ~(f < NumFiles)
    <2>1. main' = <<nextOp, 1, "read">> /\ "read" \in Tasks
      BY <1>1, <1>4 DEF Advance, Tasks
    <2>2. Pos(f, t) = 3 * NumFiles /\ Pos(f, t) \in Int /\ Pos(1, "read") = 1
      BY <1>1, <1>4 DEF Pos, Index
    <2> QED BY <1>1, <2>1, <2>2 DEF Added, Waited
  <1> QED BY <1>2, <1>3, <1>4

------------------------------------------------------------------------------
(* What holds at the start. *)

LEMMA InitInv ==
    ASSUME Init
    PROVE  ProgramInv
  <1>1. TypeOK
    <2>1. ASSUME NEW cores \in Cores PROVE 1 .. ThreadNum(cores) \subseteq Nat \ {0}
      <3>1. cores \in Nat
        BY ProgramAssumption
      <3>2. ThreadNum(cores) \in Nat
        BY <3>1 DEF ThreadNum
      <3> QED BY <3>2
    <2>2. threads \in Nat \ {0}
      BY <2>1 DEF Init
    <2>3. 1 \in Files
      BY ProgramAssumption
    <2> QED BY <2>2, <2>3 DEF Init, ChainInit, TypeOK, Tasks, Places
  <1>2. QueueInOrder
    <2>1. Added = 0 /\ Taken = 0 /\ xTasks = <<>>
      BY DEF Init, Added, Taken, Pos, Index
    <2>2. \A f \in Files, t \in Tasks : Pos(f, t) > 0
      BY PosFacts
    <2>3. \A f \in Files, t \in Tasks : place[f][t] = "new" /\ ~LeftQueue(f, t)
      BY DEF Init, ChainInit, LeftQueue
    <2>4. \A f \in Files, t \in Tasks : ~(Pos(f, t) <= 0)
      BY PosFacts
    <2> QED BY <2>1, <2>2, <2>3, <2>4 DEF QueueInOrder
  <1>3. PassedInOrder
    <2>1. \A f \in Files : size[f].blocks \in Nat
      BY ChainAssumption DEF Init, ChainInit
    <2> QED BY <2>1 DEF Init, ChainInit, PassedInOrder, Tasks
  <1>4. WaitedInOrder
    <2>1. Waited = 0
      BY DEF Init, Waited
    <2>2. \A f \in Files, t \in Tasks : ~(Pos(f, t) <= 0)
      BY PosFacts
    <2> QED BY <2>1, <2>2 DEF WaitedInOrder
  <1>5. BusyWithinThreads
    <2>1. Busy = {}
      BY DEF Init, ChainInit, Busy
    <2> QED BY <1>1, <2>1, FS_EmptySet DEF BusyWithinThreads, TypeOK
  <1> QED BY <1>1, <1>2, <1>3, <1>4, <1>5 DEF ProgramInv

------------------------------------------------------------------------------
(* Every step keeps the types. *)

LEMMA WorkTyped ==
    ASSUME TypeOK, NEW f \in Files, NEW t \in Tasks, Announce(f, t) \/ Work(f, t)
    PROVE  /\ place' \in [Files -> [Tasks -> Places]]
           /\ passed' \in [Files -> [Tasks -> Nat]]
           /\ size' = size
  <1> USE DEF Places
  <1>1. CASE Pass(f, t)
    BY <1>1 DEF Pass, TypeOK
  <1>2. CASE Sleep(f, t)
    BY <1>2, MoveFacts DEF Sleep, TypeOK
  <1>3. CASE Wake(f, t)
    BY <1>3, MoveFacts DEF Wake, TypeOK
  <1>4. CASE End(f, t)
    BY <1>4, MoveFacts DEF End, TypeOK
  <1>5. CASE Announce(f, t)
    BY <1>5, MoveFacts DEF Announce, TypeOK
  <1> QED BY <1>1, <1>2, <1>3, <1>4, <1>5 DEF Work

(* What a worker takes off the queue and leaves in it. *)
LEMMA HeadAndTail ==
    ASSUME NEW s \in Seq(Files \X Tasks), s # <<>>
    PROVE  /\ Len(s) >= 1 /\ Head(s) = s[1] /\ s[1] \in Files \X Tasks
           /\ Tail(s) \in Seq(Files \X Tasks) /\ Len(Tail(s)) = Len(s) - 1
           /\ \A k \in 1 .. Len(Tail(s)) : Tail(s)[k] = s[k + 1]
  <1>1. Len(s) \in Nat /\ Len(s) >= 1
    OBVIOUS
  <1>2. Tail(s) \in Seq(Files \X Tasks) /\ Len(Tail(s)) = Len(s) - 1
    BY <1>1
  <1>3. ASSUME NEW k \in 1 .. Len(Tail(s)) PROVE Tail(s)[k] = s[k + 1]
    BY <1>1, <1>2
  <1> QED BY <1>1, <1>2, <1>3

LEMMA StepTyped ==
    ASSUME TypeOK, [Next]_vars
    PROVE  TypeOK'
  <1>1. ASSUME NEW f \in Files, NEW t \in Tasks, Start(f, t)
        PROVE  TypeOK'
    <2>1. main' \in {"start", "wait", "done"} \X Files \X Tasks
      BY <1>1, AdvanceFacts DEF Start
    <2>2. place' \in [Files -> [Tasks -> Places]]
      BY <1>1, MoveFacts DEF Start, Queue, Places
    <2> QED BY <1>1, <2>1, <2>2 DEF Start, Queue, TypeOK
  <1>2. ASSUME NEW f \in Files, NEW t \in Tasks, Wait(f, t)
        PROVE  TypeOK'
    <2>1. main' \in {"start", "wait", "done"} \X Files \X Tasks
      BY <1>2, AdvanceFacts DEF Wait
    <2>2. total' \in [Tasks -> Nat]
      BY <1>2 DEF Wait, TypeOK
    <2> QED BY <1>2, <2>1, <2>2 DEF Wait, chainVars, TypeOK
  <1>3. CASE Take
    <2>1. Head(xTasks) \in Files \X Tasks /\ xTasks' \in Seq(Files \X Tasks)
      BY <1>3, HeadAndTail DEF Take, TypeOK
    <2>2. place' \in [Files -> [Tasks -> Places]]
      BY <1>3, <2>1, MoveFacts DEF Take, Begin, Places
    <2> QED BY <1>3, <2>1, <2>2 DEF Take, Begin, TypeOK
  <1>4. ASSUME NEW f \in Files, NEW t \in Tasks, Task(f, t)
        PROVE  TypeOK'
    BY <1>4, WorkTyped DEF Task, TypeOK
  <1>5. CASE UNCHANGED vars
    BY <1>5 DEF vars, chainVars, TypeOK
  <1> QED BY <1>1, <1>2, <1>3, <1>4, <1>5 DEF Next, Main

------------------------------------------------------------------------------
(* Every step keeps the order of the queue. *)

LEMMA StepOrder ==
    ASSUME ProgramInv, [Next]_vars
    PROVE  QueueInOrder'
  <1>1. TypeOK /\ QueueInOrder
    BY DEF ProgramInv
  <1>2. Added \in Int /\ Len(xTasks) \in Nat /\ Taken \in Int
    BY <1>1, CountsAreInt
  <1>3. ASSUME NEW f \in Files, NEW t \in Tasks, Start(f, t)
        PROVE  QueueInOrder'
    <2>1. Added = Pos(f, t) - 1 /\ Added' = Added + 1
      BY <1>3, AdvanceFacts DEF Start
    <2>2. xTasks' = Append(xTasks, <<f, t>>) /\ Len(xTasks') = Len(xTasks) + 1
      BY <1>1, <1>3 DEF Start, TypeOK
    <2>3. Taken' = Taken
      BY <1>2, <2>1, <2>2 DEF Taken
    <2>4. /\ place[f][t] = "new" /\ place'[f][t] = "queued"
          /\ \A g \in Files, u \in Tasks : <<g, u>> # <<f, t>> => place'[g][u] = place[g][u]
      BY <1>1, <1>3, MoveFacts DEF Start, Queue, Places
    <2>5. ASSUME NEW g \in Files, NEW u \in Tasks
          PROVE  /\ place'[g][u] = "new" <=> Pos(g, u) > Added'
                 /\ LeftQueue(g, u)' <=> Pos(g, u) <= Taken'
      <3>1. CASE <<g, u>> = <<f, t>>
        <4>1. Pos(g, u) = Added' /\ g = f /\ u = t
          BY <1>2, <2>1, <3>1, PosFacts
        <4>2. ~LeftQueue(g, u) /\ ~LeftQueue(g, u)'
          BY <2>4, <4>1 DEF LeftQueue
        <4>3. ~(Pos(g, u) <= Taken)
          BY <1>1, <4>2 DEF QueueInOrder
        <4> QED BY <1>2, <2>1, <2>3, <2>4, <4>1, <4>2, <4>3
      <3>2. CASE <<g, u>> # <<f, t>>
        <4>1. Pos(g, u) # Pos(f, t) /\ Pos(g, u) \in Int /\ Pos(f, t) \in Int
          BY <3>2, PosFacts
        <4>2. place'[g][u] = place[g][u]
          BY <2>4, <3>2
        <4>3. LeftQueue(g, u)' <=> LeftQueue(g, u)
          BY <4>2 DEF LeftQueue
        <4>4. Pos(g, u) > Added <=> Pos(g, u) > Added'
          BY <1>2, <2>1, <4>1
        <4> QED BY <1>1, <2>3, <4>2, <4>3, <4>4 DEF QueueInOrder
      <3> QED BY <3>1, <3>2
    <2>6. ASSUME NEW k \in 1 .. Len(xTasks')
          PROVE  Pos(xTasks'[k][1], xTasks'[k][2]) = Taken' + k
      <3>1. CASE k \in 1 .. Len(xTasks)
        <4>1. xTasks'[k] = xTasks[k]
          BY <1>1, <2>2, <3>1 DEF TypeOK
        <4> QED BY <1>1, <2>3, <3>1, <4>1 DEF QueueInOrder
      <3>2. CASE k = Len(xTasks) + 1
        <4>1. xTasks'[k] = <<f, t>>
          BY <1>1, <2>2, <3>2 DEF TypeOK
        <4>2. Pos(f, t) = Taken + k
          <5>1. Pos(f, t) \in Int
            BY PosFacts
          <5> QED BY <1>2, <2>1, <3>2, <5>1 DEF Taken
        <4> QED BY <2>3, <4>1, <4>2
      <3> QED BY <1>2, <2>2, <3>1, <3>2
    <2> QED BY <2>5, <2>6 DEF QueueInOrder
  <1>4. ASSUME NEW f \in Files, NEW t \in Tasks, Wait(f, t)
        PROVE  QueueInOrder'
    <2>1. Added' = Added
      BY <1>4, AdvanceFacts DEF Wait
    <2>2. place' = place /\ xTasks' = xTasks
      BY <1>4 DEF Wait, chainVars
    <2>3. Taken' = Taken
      BY <2>1, <2>2 DEF Taken
    <2> QED BY <1>1, <2>1, <2>2, <2>3 DEF QueueInOrder, LeftQueue
  <1>5. CASE Take
    <2>1. PICK f \in Files, t \in Tasks : Head(xTasks) = <<f, t>>
      <3>1. Head(xTasks) \in Files \X Tasks
        BY <1>1, <1>5, HeadAndTail DEF Take, TypeOK
      <3> QED BY <3>1
    <2>2. /\ xTasks[1] = <<f, t>> /\ Len(xTasks) >= 1 /\ Len(xTasks') = Len(xTasks) - 1
          /\ \A k \in 1 .. Len(xTasks') : xTasks'[k] = xTasks[k + 1]
      BY <1>1, <1>5, <2>1, HeadAndTail DEF Take, TypeOK
    <2>3. Pos(f, t) = Taken + 1
      BY <1>1, <1>2, <2>2 DEF QueueInOrder
    <2>4. Added' = Added /\ Taken' = Taken + 1
      <3>1. Added' = Added
        BY <1>5 DEF Take, Added
      <3> QED BY <1>2, <2>2, <3>1 DEF Taken
    <2>5. /\ place[f][t] = "queued" /\ place'[f][t] = "taken"
          /\ \A g \in Files, u \in Tasks : <<g, u>> # <<f, t>> => place'[g][u] = place[g][u]
      <3>1. Move(f, t, "queued", "taken")
        BY <1>5, <2>1 DEF Take, Begin
      <3> QED BY <1>1, <3>1, MoveFacts DEF Places
    <2>6. ASSUME NEW g \in Files, NEW u \in Tasks
          PROVE  /\ place'[g][u] = "new" <=> Pos(g, u) > Added'
                 /\ LeftQueue(g, u)' <=> Pos(g, u) <= Taken'
      <3>1. CASE <<g, u>> = <<f, t>>
        <4>1. g = f /\ u = t
          BY <3>1
        <4>2. ~(place[g][u] = "new") /\ ~(place'[g][u] = "new") /\ LeftQueue(g, u)'
          BY <2>5, <4>1 DEF LeftQueue
        <4>3. ~(Pos(g, u) > Added)
          BY <1>1, <4>2 DEF QueueInOrder
        <4>4. Pos(g, u) <= Taken'
          BY <1>2, <2>3, <2>4, <4>1
        <4> QED BY <2>4, <4>2, <4>3, <4>4
      <3>2. CASE <<g, u>> # <<f, t>>
        <4>1. Pos(g, u) # Pos(f, t) /\ Pos(g, u) \in Int /\ Pos(f, t) \in Int
          BY <3>2, PosFacts
        <4>2. place'[g][u] = place[g][u]
          BY <2>5, <3>2
        <4>3. LeftQueue(g, u)' <=> LeftQueue(g, u)
          BY <4>2 DEF LeftQueue
        <4>4. Pos(g, u) <= Taken <=> Pos(g, u) <= Taken'
          BY <1>2, <2>3, <2>4, <4>1
        <4> QED BY <1>1, <2>4, <4>2, <4>3, <4>4 DEF QueueInOrder
      <3> QED BY <3>1, <3>2
    <2>7. ASSUME NEW k \in 1 .. Len(xTasks')
          PROVE  Pos(xTasks'[k][1], xTasks'[k][2]) = Taken' + k
      <3>1. k + 1 \in 1 .. Len(xTasks)
        BY <1>2, <2>2
      <3>2. Pos(xTasks[k + 1][1], xTasks[k + 1][2]) = Taken + (k + 1)
        BY <1>1, <3>1 DEF QueueInOrder
      <3>3. xTasks'[k] = xTasks[k + 1]
        BY <2>2
      <3>4. Taken + (k + 1) = Taken' + k
        BY <1>2, <2>2, <2>4
      <3> QED BY <3>2, <3>3, <3>4
    <2> QED BY <2>6, <2>7 DEF QueueInOrder
  <1>6. ASSUME NEW f \in Files, NEW t \in Tasks, Task(f, t)
        PROVE  QueueInOrder'
    <2>1. xTasks' = xTasks /\ main' = main
      BY <1>6 DEF Task
    <2>2. Added' = Added /\ Taken' = Taken
      BY <2>1 DEF Added, Taken
    <2>3. \A g \in Files, u \in Tasks :
             /\ place'[g][u] = "new" <=> place[g][u] = "new"
             /\ LeftQueue(g, u)' <=> LeftQueue(g, u)
      <3> USE DEF LeftQueue, Places
      <3>1. CASE Pass(f, t)
        BY <3>1 DEF Pass
      <3>2. CASE Sleep(f, t)
        BY <1>1, <3>2, MoveFacts DEF Sleep
      <3>3. CASE Wake(f, t)
        BY <1>1, <3>3, MoveFacts DEF Wake
      <3>4. CASE End(f, t)
        BY <1>1, <3>4, MoveFacts DEF End
      <3>5. CASE Announce(f, t)
        BY <1>1, <3>5, MoveFacts DEF Announce
      <3> QED BY <1>6, <3>1, <3>2, <3>3, <3>4, <3>5 DEF Task, Work
    <2> QED BY <1>1, <2>1, <2>2, <2>3 DEF QueueInOrder
  <1>7. CASE UNCHANGED vars
    <2>1. place' = place /\ xTasks' = xTasks /\ main' = main
      BY <1>7 DEF vars, chainVars
    <2>2. Added' = Added /\ Taken' = Taken
      BY <2>1 DEF Added, Taken
    <2> QED BY <1>1, <2>1, <2>2 DEF QueueInOrder, LeftQueue
  <1> QED BY <1>3, <1>4, <1>5, <1>6, <1>7 DEF Next, Main

------------------------------------------------------------------------------
(* Every step keeps what the tasks of a file know of each other. *)

(* The numbers of blocks are numbers. *)
LEMMA BlocksAreNat ==
    ASSUME TypeOK, NEW f \in Files
    PROVE  size[f].blocks \in Nat /\ \A t \in Tasks : passed[f][t] \in Nat
  <1>1. size \in [Files -> [blocks : Nat, aligned : BOOLEAN]]
    BY ChainAssumption DEF TypeOK
  <1>2. size[f] \in [blocks : Nat, aligned : BOOLEAN]
    BY <1>1
  <1>3. passed[f] \in [Tasks -> Nat]
    BY DEF TypeOK
  <1> QED BY <1>2, <1>3

(* A task that is only moved from place to place passes nothing on. *)
LEMMA MoveKeepsPassed ==
    ASSUME TypeOK, PassedInOrder, UNCHANGED <<size, passed>>,
           NEW f \in Files, NEW t \in Tasks, NEW from \in Places, NEW to \in Places,
           Move(f, t, from, to),
           to \in {"new", "queued", "taken"} => from \in {"new", "queued", "taken"},
           to = "ended" => passed[f][t] = size[f].blocks,
           to = "asleep" => t # "write" /\ Started(f, Down[t])
    PROVE  PassedInOrder'
  <1>1. /\ place[f][t] = from /\ place'[f][t] = to
        /\ \A g \in Files, u \in Tasks : <<g, u>> # <<f, t>> => place'[g][u] = place[g][u]
    BY MoveFacts
  <1>2. \A g \in Files, u \in Tasks : Started(g, u) => Started(g, u)'
    BY <1>1 DEF Started
  <1>3. ASSUME NEW g \in Files, NEW u \in Tasks
        PROVE  /\ place'[g][u] = "ended" => passed[g][u] = size[g].blocks
               /\ place'[g][u] = "asleep" => u # "write" /\ Started(g, Down[u])
    <2>1. CASE <<g, u>> = <<f, t>>
      BY <1>1, <2>1
    <2>2. CASE <<g, u>> # <<f, t>>
      BY <1>1, <2>2 DEF PassedInOrder, Tasks, Down
    <2> QED BY <2>1, <2>2
  <1>4. \A g \in Files : /\ place'[g]["read"] = "asleep" => Started(g, "crypt")'
                         /\ place'[g]["crypt"] = "asleep" => Started(g, "write")'
                         /\ place'[g]["write"] # "asleep"
    BY <1>2, <1>3 DEF Tasks, Down
  <1> QED BY <1>3, <1>4 DEF PassedInOrder

LEMMA PassKeepsPassed ==
    ASSUME TypeOK, PassedInOrder, NEW f \in Files, NEW t \in Tasks, Pass(f, t)
    PROVE  PassedInOrder'
  <1>1. /\ size' = size /\ place' = place /\ place[f][t] = "running"
        /\ passed[f][t] < Available(f, t)
        /\ passed'[f][t] = passed[f][t] + 1
        /\ \A g \in Files, u \in Tasks : <<g, u>> # <<f, t>> => passed'[g][u] = passed[g][u]
    BY DEF Pass, TypeOK
  <1>2. \A g \in Files : /\ size[g].blocks \in Nat
                         /\ \A u \in Tasks : passed[g][u] \in Nat
    BY BlocksAreNat
  <1>3. ASSUME NEW g \in Files
        PROVE  /\ passed'[g]["write"] <= passed'[g]["crypt"]
               /\ passed'[g]["crypt"] <= passed'[g]["read"]
               /\ passed'[g]["read"] <= size[g].blocks
    <2>1. /\ passed[g]["write"] <= passed[g]["crypt"]
          /\ passed[g]["crypt"] <= passed[g]["read"]
          /\ passed[g]["read"] <= size[g].blocks
      BY DEF PassedInOrder
    <2>2. \A u \in Tasks : passed[g][u] \in Nat
      BY <1>2
    <2>3. CASE g # f
      BY <1>1, <2>1, <2>3 DEF Tasks
    <2>4. CASE g = f /\ t = "read"
      BY <1>1, <1>2, <2>1, <2>2, <2>4 DEF Tasks, Available
    <2>5. CASE g = f /\ t = "crypt"
      BY <1>1, <1>2, <2>1, <2>2, <2>5 DEF Tasks, Available, Up
    <2>6. CASE g = f /\ t = "write"
      BY <1>1, <1>2, <2>1, <2>2, <2>6 DEF Tasks, Available, Up
    <2> QED BY <2>3, <2>4, <2>5, <2>6 DEF Tasks
  <1>4. ASSUME NEW g \in Files, NEW u \in Tasks, place'[g][u] = "ended"
        PROVE  passed'[g][u] = size[g].blocks
    BY <1>1, <1>4 DEF PassedInOrder
  <1> QED BY <1>1, <1>3, <1>4 DEF PassedInOrder, Started

LEMMA StepPassed ==
    ASSUME ProgramInv, [Next]_vars
    PROVE  PassedInOrder'
  <1> USE DEF ProgramInv, Places
  <1>1. ASSUME NEW f \in Files, NEW t \in Tasks, Start(f, t) PROVE PassedInOrder'
    BY <1>1, MoveKeepsPassed DEF Start, Queue
  <1>2. ASSUME NEW f \in Files, NEW t \in Tasks, Wait(f, t) PROVE PassedInOrder'
    BY <1>2 DEF Wait, chainVars, PassedInOrder, Started
  <1>3. CASE Take
    <2>1. PICK f \in Files, t \in Tasks : Begin(f, t)
      <3>1. Head(xTasks) \in Files \X Tasks
        BY <1>3, HeadAndTail DEF Take, TypeOK
      <3> QED BY <1>3, <3>1 DEF Take
    <2> QED BY <2>1, MoveKeepsPassed DEF Begin
  <1>4. ASSUME NEW f \in Files, NEW t \in Tasks, Task(f, t) PROVE PassedInOrder'
    <2>1. CASE Pass(f, t)
      BY <2>1, PassKeepsPassed
    <2>2. CASE Sleep(f, t)
      BY <2>2, MoveKeepsPassed DEF Sleep
    <2>3. CASE Wake(f, t)
      BY <2>3, MoveKeepsPassed DEF Wake
    <2>4. CASE End(f, t)
      BY <2>4, MoveKeepsPassed DEF End
    <2>5. CASE Announce(f, t)
      BY <2>5, MoveKeepsPassed DEF Announce
    <2> QED BY <1>4, <2>1, <2>2, <2>3, <2>4, <2>5 DEF Task, Work
  <1>5. CASE UNCHANGED vars
    BY <1>5 DEF vars, chainVars, PassedInOrder, Started
  <1> QED BY <1>1, <1>2, <1>3, <1>4, <1>5 DEF Next, Main

------------------------------------------------------------------------------
(* Every step keeps what main has waited for: what has ended stays so. *)

LEMMA StepWaited ==
    ASSUME ProgramInv, [Next]_vars
    PROVE  WaitedInOrder'
  <1> USE DEF ProgramInv, Places
  <1>1. ASSUME NEW f \in Files, NEW t \in Tasks, Start(f, t) PROVE WaitedInOrder'
    <2>1. Waited' = 0
      BY <1>1, AdvanceFacts DEF Start
    <2>2. \A g \in Files, u \in Tasks : ~(Pos(g, u) <= 0)
      BY PosFacts
    <2> QED BY <2>1, <2>2 DEF WaitedInOrder
  <1>2. ASSUME NEW f \in Files, NEW t \in Tasks, Wait(f, t) PROVE WaitedInOrder'
    <2>1. Waited = Pos(f, t) - 1 /\ Waited' = Waited + 1
      BY <1>2, AdvanceFacts DEF Wait
    <2>2. place' = place /\ place[f][t] = "ended"
      BY <1>2 DEF Wait, chainVars
    <2>3. ASSUME NEW g \in Files, NEW u \in Tasks, Pos(g, u) <= Waited'
          PROVE  place'[g][u] = "ended"
      <3>1. Pos(g, u) \in Int /\ Pos(f, t) \in Int
        BY PosFacts
      <3>2. CASE Pos(g, u) <= Waited
        BY <2>2, <3>2 DEF WaitedInOrder
      <3>3. CASE ~(Pos(g, u) <= Waited)
        <4>1. Pos(f, t) = Pos(g, u)
          BY <2>1, <2>3, <3>1, <3>3
        <4>2. f = g /\ t = u
          BY <4>1, PosFacts
        <4> QED BY <2>2, <4>2
      <3> QED BY <3>2, <3>3
    <2> QED BY <2>3 DEF WaitedInOrder
  <1>3. ASSUME main' = main,
               \A f \in Files, t \in Tasks : place[f][t] = "ended" => place'[f][t] = "ended"
        PROVE  WaitedInOrder'
    BY <1>3 DEF WaitedInOrder, Waited
  <1>4. CASE Take
    <2>1. PICK f \in Files, t \in Tasks : Begin(f, t)
      <3>1. Head(xTasks) \in Files \X Tasks
        BY <1>4, HeadAndTail DEF Take, TypeOK
      <3> QED BY <1>4, <3>1 DEF Take
    <2>2. \A g \in Files, u \in Tasks : place[g][u] = "ended" => place'[g][u] = "ended"
      BY <2>1, MoveFacts DEF Begin
    <2> QED BY <1>3, <1>4, <2>2 DEF Take
  <1>5. ASSUME NEW f \in Files, NEW t \in Tasks, Task(f, t) PROVE WaitedInOrder'
    <2>1. \A g \in Files, u \in Tasks : place[g][u] = "ended" => place'[g][u] = "ended"
      <3>1. CASE Pass(f, t)
        BY <3>1 DEF Pass
      <3>2. CASE Sleep(f, t)
        BY <3>2, MoveFacts DEF Sleep
      <3>3. CASE Wake(f, t)
        BY <3>3, MoveFacts DEF Wake
      <3>4. CASE End(f, t)
        BY <3>4, MoveFacts DEF End
      <3>5. CASE Announce(f, t)
        BY <3>5, MoveFacts DEF Announce
      <3> QED BY <1>5, <3>1, <3>2, <3>3, <3>4, <3>5 DEF Task, Work
    <2> QED BY <1>3, <1>5, <2>1 DEF Task
  <1>6. CASE UNCHANGED vars
    BY <1>3, <1>6 DEF vars, chainVars
  <1> QED BY <1>1, <1>2, <1>4, <1>5, <1>6 DEF Next, Main

------------------------------------------------------------------------------
(* Every step keeps to the number of threads: a task gets a worker in Take only.  *)

AtWork == {"taken", "running", "asleep"}

(* A move adds at most its own task to those that have a worker. *)
LEMMA MoveKeepsBusy ==
    ASSUME TypeOK, NEW f \in Files, NEW t \in Tasks, NEW from \in Places, NEW to \in Places,
           Move(f, t, from, to)
    PROVE  /\ Busy' \subseteq Busy \cup {<<f, t>>}
           /\ (to \in AtWork => from \in AtWork) => Busy' \subseteq Busy
  <1>1. /\ place[f][t] = from /\ place'[f][t] = to
        /\ \A g \in Files, u \in Tasks : <<g, u>> # <<f, t>> => place'[g][u] = place[g][u]
    BY MoveFacts
  <1>2. ASSUME NEW x \in Files \X Tasks, x # <<f, t>>
        PROVE  x \in Busy' <=> x \in Busy
    <2>1. PICK g \in Files, u \in Tasks : x = <<g, u>>
      OBVIOUS
    <2>2. place'[g][u] = place[g][u]
      BY <1>1, <1>2, <2>1
    <2> QED BY <2>1, <2>2 DEF Busy
  <1>3. <<f, t>> \in Busy <=> from \in AtWork
    BY <1>1 DEF Busy, AtWork
  <1>4. <<f, t>> \in Busy' <=> to \in AtWork
    BY <1>1 DEF Busy, AtWork
  <1>5. Busy' \subseteq Files \X Tasks
    BY DEF Busy
  <1> QED BY <1>2, <1>3, <1>4, <1>5

(* An element more makes a finite set larger by one at most. *)
LEMMA OneMore ==
    ASSUME NEW S, NEW x, IsFiniteSet(S)
    PROVE  /\ IsFiniteSet(S \cup {x})
           /\ Cardinality(S \cup {x}) <= Cardinality(S) + 1
  <1>1. Cardinality(S) \in Nat
    BY FS_CardinalityType
  <1>2. /\ IsFiniteSet(S \cup {x})
        /\ Cardinality(S \cup {x}) = Cardinality(S)
           \/ Cardinality(S \cup {x}) = Cardinality(S) + 1
    BY FS_AddElement, Zenon
  <1> QED BY <1>1, <1>2

LEMMA StepBusy ==
    ASSUME ProgramInv, [Next]_vars
    PROVE  BusyWithinThreads'
  <1>1. /\ TypeOK /\ IsFiniteSet(Busy) /\ Cardinality(Busy) <= threads
        /\ threads \in Nat /\ Cardinality(Busy) \in Nat
    BY FS_CardinalityType DEF ProgramInv, BusyWithinThreads, TypeOK
  <1>2. ASSUME Busy' \subseteq Busy, threads' = threads PROVE BusyWithinThreads'
    <2>1. IsFiniteSet(Busy') /\ Cardinality(Busy') <= Cardinality(Busy)
      BY <1>1, <1>2, FS_Subset
    <2>2. Cardinality(Busy') \in Nat
      BY <2>1, FS_CardinalityType
    <2> QED BY <1>1, <1>2, <2>1, <2>2 DEF BusyWithinThreads
  <1>3. ASSUME place' = place, threads' = threads PROVE BusyWithinThreads'
    <2>1. Busy' = Busy
      BY <1>3 DEF Busy
    <2> QED BY <1>2, <1>3, <2>1
  <1>4. ASSUME NEW f \in Files, NEW t \in Tasks, Start(f, t) PROVE BusyWithinThreads'
    <2>1. Busy' \subseteq Busy
      BY <1>1, <1>4, MoveKeepsBusy DEF Start, Queue, Places, AtWork
    <2> QED BY <1>2, <1>4, <2>1 DEF Start
  <1>5. ASSUME NEW f \in Files, NEW t \in Tasks, Wait(f, t) PROVE BusyWithinThreads'
    BY <1>3, <1>5 DEF Wait, chainVars
  <1>6. CASE Take
    <2>1. PICK f \in Files, t \in Tasks : Begin(f, t)
      <3>1. Head(xTasks) \in Files \X Tasks
        BY <1>1, <1>6, HeadAndTail DEF Take, TypeOK
      <3> QED BY <1>6, <3>1 DEF Take
    <2>2. Busy' \subseteq Busy \cup {<<f, t>>}
      BY <1>1, <2>1, MoveKeepsBusy DEF Begin, Places
    <2>3. /\ IsFiniteSet(Busy \cup {<<f, t>>})
          /\ Cardinality(Busy \cup {<<f, t>>}) <= Cardinality(Busy) + 1
      BY <1>1, OneMore
    <2>4. /\ IsFiniteSet(Busy')
          /\ Cardinality(Busy') <= Cardinality(Busy \cup {<<f, t>>})
      BY <2>2, <2>3, FS_Subset
    <2>5. Cardinality(Busy') \in Nat /\ Cardinality(Busy \cup {<<f, t>>}) \in Nat
      BY <2>3, <2>4, FS_CardinalityType
    <2>6. Cardinality(Busy) < threads /\ threads' = threads
      BY <1>6 DEF Take
    <2> QED BY <1>1, <2>3, <2>4, <2>5, <2>6 DEF BusyWithinThreads
  <1>7. ASSUME NEW f \in Files, NEW t \in Tasks, Task(f, t) PROVE BusyWithinThreads'
    <2>1. threads' = threads
      BY <1>7 DEF Task
    <2> USE DEF Places, AtWork
    <2>2. CASE Pass(f, t)
      BY <1>3, <2>1, <2>2 DEF Pass
    <2>3. CASE Sleep(f, t)
      BY <1>1, <1>2, <2>1, <2>3, MoveKeepsBusy DEF Sleep
    <2>4. CASE Wake(f, t)
      BY <1>1, <1>2, <2>1, <2>4, MoveKeepsBusy DEF Wake
    <2>5. CASE End(f, t)
      BY <1>1, <1>2, <2>1, <2>5, MoveKeepsBusy DEF End
    <2>6. CASE Announce(f, t)
      BY <1>1, <1>2, <2>1, <2>6, MoveKeepsBusy DEF Announce
    <2> QED BY <1>7, <2>2, <2>3, <2>4, <2>5, <2>6 DEF Task, Work
  <1>8. CASE UNCHANGED vars
    BY <1>3, <1>8 DEF vars, chainVars
  <1> QED BY <1>4, <1>5, <1>6, <1>7, <1>8 DEF Next, Main

------------------------------------------------------------------------------
(* The invariant, and what follows from it. *)

(* The invariant of the program: the queue is in the order of main's loop, a      *)
(* file's tasks are in the order of the chain, main is behind both, and no more    *)
(* tasks have a worker than there are threads.                                  *)
THEOREM ProgramSafety == Spec => []ProgramInv
  <1>1. Init => ProgramInv
    BY InitInv
  <1>2. ProgramInv /\ [Next]_vars => ProgramInv'
    BY StepTyped, StepOrder, StepPassed, StepWaited, StepBusy DEF ProgramInv
  <1> QED BY <1>1, <1>2, PTL DEF Spec

(* TypeOK: main never leaves the list of files (main.cc:84-105).                 *)
THEOREM ProgramTyping == Spec => []TypeOK
  <1>1. ProgramInv => TypeOK
    BY DEF ProgramInv
  <1> QED BY <1>1, ProgramSafety, PTL

(* A file of whose tasks some have been taken from the queue and some not.        *)
HalfTaken(f) == \E t, u \in Tasks : LeftQueue(f, t) /\ ~LeftQueue(f, u)

(* There is one such file at most: the queue begins within it.                   *)
LEMMA OneFileHalfTaken ==
    ASSUME ProgramInv, NEW f \in Files, NEW g \in Files, HalfTaken(f), HalfTaken(g)
    PROVE  f = g
  <1>1. Taken \in Int
    BY CountsAreInt DEF ProgramInv
  <1>2. ASSUME NEW h \in Files, HalfTaken(h)
        PROVE  3 * (h - 1) + 1 <= Taken /\ Taken < 3 * (h - 1) + 3
    <2>1. PICK t \in Tasks, u \in Tasks : LeftQueue(h, t) /\ ~LeftQueue(h, u)
      BY <1>2 DEF HalfTaken
    <2>2. Pos(h, t) <= Taken /\ ~(Pos(h, u) <= Taken)
      BY <2>1 DEF ProgramInv, QueueInOrder
    <2>3. Index[t] \in 1 .. 3 /\ Index[u] \in 1 .. 3 /\ h \in Int
      BY PosFacts, ProgramAssumption
    <2> QED BY <1>1, <2>2, <2>3 DEF Pos
  <1>3. f \in Int /\ g \in Int
    BY ProgramAssumption
  <1> QED BY <1>1, <1>2, <1>3

(* A file that is not held back has a task that runs, and the next task has a      *)
(* worker of its own unless it is in the queue.                                  *)
Runs == {x \in Busy : place[x[1]][x[2]] = "running"}
Taking == {x \in Busy : place[x[1]][x[2]] = "taken"}
WhollyTaken == {f \in Unheld : ~HalfTaken(f)}
Unannounced(f, t) ==
    <<f, t>> \in Runs /\ (f \in WhollyTaken => <<f, Down[t]>> \in Taking)

LEMMA UnheldHasThreads ==
    ASSUME ProgramInv, NEW f \in Unheld
    PROVE  \E t \in {"read", "crypt"} : Unannounced(f, t)
  <1>1. PICK t \in {"read", "crypt"} : place[f][t] = "running" /\ ~Started(f, Down[t])
    BY DEF Unheld
  <1>2. f \in Files /\ t \in Tasks /\ Down[t] \in Tasks
    BY DEF Unheld, Tasks, Down
  <1>3. LeftQueue(f, t)
    BY <1>1 DEF LeftQueue
  <1>4. <<f, t>> \in Runs
    BY <1>1, <1>2 DEF Busy, Runs
  <1>5. ASSUME f \in WhollyTaken PROVE <<f, Down[t]>> \in Taking
    <2>1. LeftQueue(f, Down[t])
      BY <1>2, <1>3, <1>5 DEF HalfTaken, WhollyTaken
    <2>2. place[f][Down[t]] = "taken"
      BY <1>1, <2>1 DEF LeftQueue, Started
    <2> QED BY <1>2, <2>2 DEF Busy, Taking
  <1> QED BY <1>4, <1>5 DEF Unannounced

LEMMA UnheldCount ==
    ASSUME ProgramInv
    PROVE  /\ IsFiniteSet(Unheld)
           /\ Cardinality(Unheld) + Cardinality(WhollyTaken) <= threads
  <1> DEFINE producer == [f \in Unheld |->
                            CHOOSE t \in {"read", "crypt"} : Unannounced(f, t)]
             run == [f \in Unheld |-> <<f, producer[f]>>]
             take == [f \in WhollyTaken |-> <<f, Down[producer[f]]>>]
  <1>1. \A f \in Unheld : Unannounced(f, producer[f])
    BY UnheldHasThreads
  <1> HIDE DEF producer
  <1>2. /\ IsFiniteSet(Busy) /\ Cardinality(Busy) <= threads
        /\ threads \in Nat /\ Cardinality(Busy) \in Nat
    BY FS_CardinalityType DEF ProgramInv, BusyWithinThreads, TypeOK
  <1>3. /\ Runs \subseteq Busy /\ Taking \subseteq Busy /\ Runs \cap Taking = {}
        /\ WhollyTaken \subseteq Unheld
    BY DEF Runs, Taking, WhollyTaken
  <1>4. IsFiniteSet(Runs) /\ IsFiniteSet(Taking)
    BY <1>2, <1>3, FS_Subset
  <1>5. run \in Injection(Unheld, Runs) /\ take \in Injection(WhollyTaken, Taking)
    BY <1>1, <1>3 DEF Unannounced, Injection, IsInjective
  <1>6. /\ IsFiniteSet(Unheld) /\ Cardinality(Unheld) <= Cardinality(Runs)
        /\ IsFiniteSet(WhollyTaken) /\ Cardinality(WhollyTaken) <= Cardinality(Taking)
    <2> HIDE DEF run, take
    <2> QED BY <1>4, <1>5, FS_Injection
  <1>7. /\ IsFiniteSet(Runs \cup Taking)
        /\ Cardinality(Runs \cup Taking) = Cardinality(Runs) + Cardinality(Taking) - 0
    BY <1>3, <1>4, FS_Union, FS_EmptySet
  <1>8. Cardinality(Runs \cup Taking) <= Cardinality(Busy)
    BY <1>2, <1>3, FS_Subset
  <1>9. /\ Cardinality(Unheld) \in Nat /\ Cardinality(WhollyTaken) \in Nat
        /\ Cardinality(Runs) \in Nat /\ Cardinality(Taking) \in Nat
    BY <1>4, <1>6, FS_CardinalityType
  <1> QED BY <1>2, <1>6, <1>7, <1>8, <1>9

LEMMA AllButOneWhollyTaken ==
    ASSUME ProgramInv
    PROVE  Cardinality(Unheld) <= Cardinality(WhollyTaken) + 1
  <1>1. IsFiniteSet(Unheld) /\ WhollyTaken \subseteq Unheld
    BY UnheldCount DEF WhollyTaken
  <1>2. IsFiniteSet(WhollyTaken)
    BY <1>1, FS_Subset
  <1>3. Cardinality(WhollyTaken) \in Nat /\ Cardinality(Unheld) \in Nat
    BY <1>1, <1>2, FS_CardinalityType
  <1>4. CASE WhollyTaken = Unheld
    BY <1>3, <1>4
  <1>5. ASSUME NEW h \in Unheld, HalfTaken(h)
        PROVE  Cardinality(Unheld) <= Cardinality(WhollyTaken) + 1
    <2>1. Unheld \subseteq Files
      BY DEF Unheld
    <2>2. \A g \in Unheld : HalfTaken(g) => g = h
      BY <1>5, <2>1, OneFileHalfTaken
    <2>3. Unheld \subseteq WhollyTaken \cup {h}
      BY <2>2 DEF WhollyTaken
    <2>4. /\ IsFiniteSet(WhollyTaken \cup {h})
          /\ Cardinality(WhollyTaken \cup {h}) <= Cardinality(WhollyTaken) + 1
      BY <1>2, OneMore
    <2>5. Cardinality(Unheld) <= Cardinality(WhollyTaken \cup {h})
      BY <2>3, <2>4, FS_Subset
    <2>6. Cardinality(WhollyTaken \cup {h}) \in Nat
      BY <2>4, FS_CardinalityType
    <2> QED BY <1>3, <2>4, <2>5, <2>6
  <1> QED BY <1>4, <1>5 DEF WhollyTaken

(* FewFilesUnheld: a list can grow with its file for half of the threads' number    *)
(* of files at most, rounded up, for any number of files and threads: each such     *)
(* file has one task that runs and a second one that is on its way to               *)
(* next_status_ = true, except for the one file within which the queue begins       *)
(* (read_task.cc:56, crypt_task.cc:41).                                           *)
THEOREM UnheldFilesAreFew == Spec => []FewFilesUnheld
  <1>1. ASSUME ProgramInv PROVE FewFilesUnheld
    <2>1. threads \in Nat
      BY <1>1 DEF ProgramInv, TypeOK
    <2>2. IsFiniteSet(Unheld) /\ IsFiniteSet(WhollyTaken)
      BY <1>1, UnheldCount, FS_Subset DEF WhollyTaken
    <2>3. Cardinality(Unheld) \in Nat /\ Cardinality(WhollyTaken) \in Nat
      BY <2>2, FS_CardinalityType
    <2> QED BY <1>1, <2>1, <2>3, UnheldCount, AllButOneWhollyTaken DEF FewFilesUnheld
  <1> QED BY <1>1, ProgramSafety, PTL

(* SleeperIsServed: a task that sleeps with work left has a running task behind  *)
(* it, so the pool is never full of sleepers only (crypt_task.cc:52).            *)
THEOREM SleepersAreServed == Spec => []SleeperIsServed
  <1>1. ASSUME ProgramInv PROVE SleeperIsServed
    <2>1. TypeOK /\ PassedInOrder
      BY <1>1 DEF ProgramInv
    <2>2. \A f \in Files : /\ size[f].blocks \in Nat
                           /\ passed[f]["read"] \in Nat /\ passed[f]["crypt"] \in Nat
                           /\ passed[f]["write"] \in Nat
      BY <2>1, BlocksAreNat DEF Tasks
    <2>3. \A f \in Files, t \in Tasks :
             Started(f, t) => place[f][t] \in {"running", "asleep", "ended"}
      BY <2>1 DEF TypeOK, Started, Places
    <2>4. ASSUME NEW f \in Files, place[f]["crypt"] = "asleep",
                 passed[f]["crypt"] < size[f].blocks
          PROVE  place[f]["write"] = "running"
      <3>1. Started(f, "write") /\ place[f]["write"] # "asleep"
        BY <2>1, <2>4 DEF PassedInOrder
      <3>2. place[f]["write"] # "ended"
        BY <2>1, <2>2, <2>4 DEF PassedInOrder, Tasks
      <3> QED BY <2>3, <3>1, <3>2 DEF Tasks
    <2>5. ASSUME NEW f \in Files, place[f]["read"] = "asleep",
                 passed[f]["read"] < size[f].blocks
          PROVE  place[f]["crypt"] = "running" \/ place[f]["write"] = "running"
      <3>1. Started(f, "crypt") /\ passed[f]["crypt"] < size[f].blocks
        BY <2>1, <2>2, <2>5 DEF PassedInOrder
      <3>2. place[f]["crypt"] # "ended"
        BY <2>1, <2>2, <3>1 DEF PassedInOrder, Tasks
      <3>3. place[f]["crypt"] = "running" \/ place[f]["crypt"] = "asleep"
        BY <2>3, <3>1, <3>2 DEF Tasks
      <3> QED BY <2>4, <3>1, <3>3
    <2> QED BY <2>4, <2>5 DEF SleeperIsServed, Downstream, Tasks
  <1> QED BY <1>1, ProgramSafety, PTL

(* WaitedIsWritten: when main goes on to the next file, the one before is in the  *)
(* output whole (main.cc:103-114).                                              *)
THEOREM WaitedFilesAreWritten == Spec => []WaitedIsWritten
  <1>1. ASSUME ProgramInv PROVE WaitedIsWritten
    <2>1. ASSUME NEW f \in Files, WaitedFor(f)
          PROVE  passed[f]["write"] = size[f].blocks
      <3>1. main[1] \in {"start", "wait", "done"} /\ main[2] \in Files /\ main[3] \in Tasks
        BY <1>1 DEF ProgramInv, TypeOK
      <3>2. Index[main[3]] \in 1 .. 3 /\ main[2] \in Int /\ f \in Int /\ f <= NumFiles
            /\ NumFiles \in Int
        BY <3>1, PosFacts, ProgramAssumption
      <3>3. Pos(f, "write") <= Waited
        BY <2>1, <3>2 DEF WaitedFor, Waited, Pos, Index
      <3>4. place[f]["write"] = "ended"
        BY <1>1, <3>3 DEF ProgramInv, WaitedInOrder, Tasks
      <3> QED BY <1>1, <3>4 DEF ProgramInv, PassedInOrder, Tasks
    <2> QED BY <2>1 DEF WaitedIsWritten
  <1> QED BY <1>1, ProgramSafety, PTL

------------------------------------------------------------------------------
(* The totals. *)

(* How many files main has waited for, as far as task t is concerned, and what    *)
(* it has added up by then.                                                     *)
FilesWaited(t) ==
    CASE main[1] = "start" -> 0
      [] main[1] = "wait" -> IF Index[t] < Index[main[3]] THEN main[2] ELSE main[2] - 1
      [] main[1] = "done" -> NumFiles
TotalsSoFar == \A t \in Tasks : total[t] = BlocksUpTo[FilesWaited(t)]

(* The sum over the files is what its definition says it is. *)
LEMMA BlocksUpToFacts ==
    ASSUME TypeOK
    PROVE  /\ BlocksUpTo[0] = 0
           /\ \A f \in Files : BlocksUpTo[f] = BlocksUpTo[f - 1] + size[f].blocks
           /\ \A n \in 0 .. NumFiles : BlocksUpTo[n] \in Nat
  <1> DEFINE w == [f \in Files |-> size[f].blocks]
  <1>1. NumFiles \in Nat /\ Files = 1 .. NumFiles
    BY ProgramAssumption
  <1>2. \A f \in Files : w[f] \in Nat
    BY BlocksAreNat
  <1>3. PICK g \in [0 .. NumFiles -> Nat] :
           g = [f \in 0 .. NumFiles |-> IF f = 0 THEN 0 ELSE g[f - 1] + w[f]]
    <2> HIDE DEF w
    <2> QED BY <1>1, <1>2, RunningSum
  <1>4. g = [f \in 0 .. NumFiles |-> IF f = 0 THEN 0 ELSE g[f - 1] + size[f].blocks]
    <2>1. \A f \in 0 .. NumFiles : f # 0 => w[f] = size[f].blocks
      BY <1>1
    <2> HIDE DEF w
    <2> QED BY <1>3, <2>1
  <1>5. BlocksUpTo =
           [f \in 0 .. NumFiles |-> IF f = 0 THEN 0 ELSE BlocksUpTo[f - 1] + size[f].blocks]
    BY <1>4 DEF BlocksUpTo
  <1>6. BlocksUpTo[0] = 0
    BY <1>1, <1>5
  <1>7. \A f \in Files : BlocksUpTo[f] = BlocksUpTo[f - 1] + size[f].blocks
    <2>1. ASSUME NEW f \in Files
          PROVE  f \in 0 .. NumFiles /\ f # 0
      BY <1>1
    <2> QED BY <1>5, <2>1
  <1>8. ASSUME NEW n \in 0 .. NumFiles PROVE BlocksUpTo[n] \in Nat
    <2> DEFINE S == {m \in 0 .. NumFiles : BlocksUpTo[m] \in Nat}
    <2>1. 0 \in S
      BY <1>1, <1>6
    <2>2. ASSUME NEW m \in 0 .. NumFiles - 1, m \in S PROVE m + 1 \in S
      <3>1. m + 1 \in Files /\ (m + 1) - 1 = m
        BY <1>1
      <3>2. BlocksUpTo[m + 1] = BlocksUpTo[m] + size[m + 1].blocks
        BY <1>7, <3>1
      <3>3. BlocksUpTo[m] \in Nat /\ size[m + 1].blocks \in Nat
        BY <2>2, <3>1, BlocksAreNat
      <3> QED BY <1>1, <3>1, <3>2, <3>3
    <2> HIDE DEF S
    <2>3. 0 .. NumFiles \subseteq S
      BY <1>1, <2>1, <2>2, UpToInduction
    <2> QED BY <2>3 DEF S
  <1> QED BY <1>6, <1>7, <1>8

(* One more file is waited for by each call of get_return.                       *)
LEMMA FilesWaitedFacts ==
    ASSUME NEW f \in Files, NEW t \in Tasks, main = <<"wait", f, t>>,
           Advance("wait", f, t, "done")
    PROVE  /\ FilesWaited(t) = f - 1
           /\ FilesWaited(t)' = f
           /\ \A u \in Tasks \ {t} : FilesWaited(u)' = FilesWaited(u)
  <1>1. f \in Nat /\ f >= 1 /\ f <= NumFiles /\ NumFiles \in Nat
    BY ProgramAssumption
  <1>2. \A u \in Tasks : FilesWaited(u) = IF Index[u] < Index[t] THEN f ELSE f - 1
    BY DEF FilesWaited
  <1>3. CASE t # "write"
    <2>1. main' = <<"wait", f, Down[t]>>
      BY <1>3 DEF Advance
    <2>2. \A u \in Tasks : FilesWaited(u)' = IF Index[u] < Index[Down[t]] THEN f ELSE f - 1
      BY <2>1 DEF FilesWaited
    <2> QED BY <1>1, <1>2, <1>3, <2>2 DEF Tasks, Index, Down
  <1>4. CASE t = "write" /\ f < NumFiles
    <2>1. main' = <<"wait", f + 1, "read">>
      BY <1>4 DEF Advance
    <2>2. \A u \in Tasks : FilesWaited(u)' = f
      BY <1>1, <2>1 DEF FilesWaited, Tasks, Index
    <2> QED BY <1>1, <1>2, <1>4, <2>2 DEF Tasks, Index
  <1>5. CASE t = "write" /\ ~(f < NumFiles)
    <2>1. main'[1] = "done"
      BY <1>5 DEF Advance
    <2>2. \A u \in Tasks : FilesWaited(u)' = NumFiles
      BY <2>1 DEF FilesWaited
    <2> QED BY <1>1, <1>2, <1>5, <2>2 DEF Tasks, Index
  <1> QED BY <1>3, <1>4, <1>5

(* Every step keeps the totals in line with what main has waited for.            *)
LEMMA StepTotals ==
    ASSUME ProgramInv, TotalsSoFar, [Next]_vars
    PROVE  TotalsSoFar'
  <1>1. TypeOK
    BY DEF ProgramInv
  <1>2. ASSUME size' = size, total' = total, \A u \in Tasks : FilesWaited(u)' = FilesWaited(u)
        PROVE  TotalsSoFar'
    <2>1. BlocksUpTo' = BlocksUpTo
      BY <1>2 DEF BlocksUpTo
    <2> QED BY <1>2, <2>1 DEF TotalsSoFar
  <1>3. ASSUME size' = size, total' = total, main' = main
        PROVE  TotalsSoFar'
    <2>1. \A u \in Tasks : FilesWaited(u)' = FilesWaited(u)
      BY <1>3 DEF FilesWaited
    <2> QED BY <1>2, <1>3, <2>1
  <1>4. ASSUME NEW f \in Files, NEW t \in Tasks, Start(f, t) PROVE TotalsSoFar'
    <2>1. main = <<"start", f, t>> /\ Advance("start", f, t, "wait")
      BY <1>4 DEF Start
    <2>2. main'[1] = "start" \/ main' = <<"wait", 1, "read">>
      BY <2>1 DEF Advance
    <2>3. \A u \in Tasks : FilesWaited(u) = 0 /\ FilesWaited(u)' = 0
      BY <2>1, <2>2 DEF FilesWaited, Tasks, Index
    <2>4. size' = size /\ total' = total
      BY <1>4 DEF Start, Queue
    <2> QED BY <1>2, <2>3, <2>4
  <1>5. ASSUME NEW f \in Files, NEW t \in Tasks, Wait(f, t) PROVE TotalsSoFar'
    <2>1. /\ main = <<"wait", f, t>> /\ Advance("wait", f, t, "done")
          /\ place[f][t] = "ended" /\ size' = size
          /\ total' = [total EXCEPT ![t] = @ + passed[f][t]]
      BY <1>5 DEF Wait, chainVars
    <2>2. /\ FilesWaited(t) = f - 1 /\ FilesWaited(t)' = f
          /\ \A u \in Tasks \ {t} : FilesWaited(u)' = FilesWaited(u)
      BY <2>1, FilesWaitedFacts
    <2>3. BlocksUpTo' = BlocksUpTo
      BY <2>1 DEF BlocksUpTo
    <2>4. passed[f][t] = size[f].blocks
      BY <2>1 DEF ProgramInv, PassedInOrder
    <2>5. BlocksUpTo[f] = BlocksUpTo[f - 1] + size[f].blocks
      BY <1>1, BlocksUpToFacts
    <2>6. /\ total'[t] = total[t] + size[f].blocks
          /\ \A u \in Tasks \ {t} : total'[u] = total[u]
      BY <1>1, <2>1, <2>4 DEF TypeOK
    <2>7. total'[t] = BlocksUpTo'[FilesWaited(t)']
      BY <2>2, <2>3, <2>5, <2>6 DEF TotalsSoFar
    <2>8. \A u \in Tasks \ {t} : total'[u] = BlocksUpTo'[FilesWaited(u)']
      BY <2>2, <2>3, <2>6 DEF TotalsSoFar
    <2> QED BY <2>7, <2>8 DEF TotalsSoFar
  <1>6. CASE Take
    <2>1. size' = size
      BY <1>6 DEF Take, Begin
    <2> QED BY <1>3, <1>6, <2>1 DEF Take
  <1>7. ASSUME NEW f \in Files, NEW t \in Tasks, Task(f, t) PROVE TotalsSoFar'
    <2>1. size' = size
      BY <1>1, <1>7, WorkTyped DEF Task
    <2> QED BY <1>3, <1>7, <2>1 DEF Task
  <1>8. CASE UNCHANGED vars
    BY <1>3, <1>8 DEF vars, chainVars
  <1> QED BY <1>4, <1>5, <1>6, <1>7, <1>8 DEF Next, Main

(* TotalsAreSums: main adds up the blocks of every file once, and prints the sum   *)
(* over all files (main.cc:103-121).                                             *)
THEOREM TotalsAreRight == Spec => []TotalsAreSums
  <1>1. Init => TotalsSoFar
    <2> SUFFICES ASSUME Init PROVE TotalsSoFar
      OBVIOUS
    <2>1. BlocksUpTo[0] = 0
      BY InitInv, BlocksUpToFacts DEF ProgramInv
    <2>2. \A t \in Tasks : total[t] = 0 /\ FilesWaited(t) = 0
      BY DEF Init, FilesWaited
    <2> QED BY <2>1, <2>2 DEF TotalsSoFar
  <1>2. ProgramInv /\ TotalsSoFar /\ [Next]_vars => TotalsSoFar'
    BY StepTotals
  <1>3. ASSUME ProgramInv, TotalsSoFar PROVE TotalsAreSums
    <2>1. main[1] \in {"start", "wait", "done"} /\ main[3] \in Tasks
      BY <1>3 DEF ProgramInv, TypeOK
    <2>2. main[1] = "wait" => FilesWaited("write") = main[2] - 1
      BY <2>1 DEF FilesWaited, Tasks, Index
    <2>3. main[1] = "done" => \A t \in Tasks : FilesWaited(t) = NumFiles
      BY DEF FilesWaited
    <2> QED BY <1>3, <2>2, <2>3 DEF TotalsSoFar, TotalsAreSums, Tasks
  <1> QED BY <1>1, <1>2, <1>3, ProgramSafety, PTL DEF Spec

==============================================================================
