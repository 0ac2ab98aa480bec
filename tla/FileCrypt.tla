------------------------------ MODULE FileCrypt ------------------------------
(***************************************************************************)
(* One FileCrypt: the chain read -> crypt -> write of task/, each of the    *)
(* three tasks in a thread of its own, and the main thread that starts them *)
(* and waits for what they return.                                          *)
(*                                                                         *)
(* An action is one access to what the threads share: a list datas_ (under  *)
(* its mutex_), a status flag, a condition variable, the promise, the file. *)
(* What a block holds is abstracted to its place in the file, its number of *)
(* bytes before and after the cipher and its end_ flag.                     *)
(***************************************************************************)
EXTENDS Sequences, SequencesExt, DataSizes

CONSTANTS
    ReadDataSize,    (* data_size of ReadTask::Main, KB(512)                  *)
    CryptDataSize,   (* data_size of CryptTask::Main and WriteTask::Main, KB(8) *)
    UpLimitSize,     (* up_data_limit_size, MB(5)                             *)
    DownLimitSize,   (* down_data_limit_size, MB(20)                          *)
    Lengths,         (* the lengths the input file may have                   *)
    FaultSets        (* what may go wrong in a run: one of these sets of      *)
                     (* "openIn", "openOut", "throw", "resize", "disk", "stop", *)
                     (* "noThread"                                            *)

(* The static_asserts of the three Main functions, and KB(512) % 16. *)
ASSUME SizeAssumption ==
    /\ {ReadDataSize, CryptDataSize, UpLimitSize, DownLimitSize} \subseteq Nat \ {0}
    /\ DownLimitSize > ReadDataSize
    /\ DownLimitSize > CryptDataSize
    /\ UpLimitSize > CryptDataSize
    /\ ReadDataSize % BlockSize = 0
ASSUME LengthAssumption == Lengths \subseteq Nat

Tasks == {"read", "crypt", "write"}
Down == [read |-> "crypt", crypt |-> "write"]   (* next_ *)
Up == [crypt |-> "read", write |-> "crypt"]     (* prev_ *)

VARIABLES
    faults,      (* what goes wrong in this run                               *)
    isEncrypt,   (* is_encrypt_                                               *)
    fileLen,     (* the length of the input file                              *)
    isRunning,   (* is_running_ of the pool                                   *)
    main,        (* the main thread in FileCrypt::Start and Wait              *)
    pc,          (* where each task is in its Main                            *)
    nextStatus,  (* next_status_ of each task                                 *)
    prevStatus,  (* prev_status_ of each task                                 *)
    datas,       (* datas_ of each task                                       *)
    hand,        (* the block a task has taken but not passed on, <<>> if none *)
    dataBytes,   (* data_bytes_ of the read task                              *)
    chunks,      (* how many blocks have been read from ifs_                  *)
    totalRead,   (* total_read_bytes                                          *)
    eof,         (* ifs_.eof()                                                *)
    bytes,       (* crypt_bytes and write_bytes, by task                      *)
    outFile,     (* the blocks in the output file                             *)
    ofsGood,     (* no write to ofs_ has failed                               *)
    value        (* the value of each task's promise, <<>> before set_return  *)

env == <<faults, isEncrypt, fileLen, isRunning>>
reader == <<dataBytes, chunks, totalRead, eof>>
output == <<bytes, outFile, ofsGood>>
flags == <<nextStatus, prevStatus>>
vars == <<env, main, pc, flags, datas, hand, reader, output, value>>

------------------------------------------------------------------------------
(* The bounds of the lists, in blocks. *)
DownLimit == [read |-> LimitNum(DownLimitSize, ReadDataSize),
              crypt |-> LimitNum(DownLimitSize, CryptDataSize)]
UpLimit == LimitNum(UpLimitSize, CryptDataSize)

------------------------------------------------------------------------------
Init ==
    /\ faults \in FaultSets
    /\ isEncrypt \in BOOLEAN
    /\ fileLen \in Lengths
    /\ isRunning = TRUE
    /\ main = <<"add", "read">>
    /\ pc = [t \in Tasks |-> "new"]
    /\ nextStatus = [t \in Tasks |-> FALSE]
    /\ prevStatus = [t \in Tasks |-> FALSE]
    /\ datas = [t \in Tasks |-> <<>>]
    /\ hand = [t \in Tasks |-> <<>>]
    /\ dataBytes = 0
    /\ chunks = 0
    /\ totalRead = 0
    /\ eof = FALSE
    /\ bytes = [t \in Tasks |-> 0]
    /\ outFile = <<>>
    /\ ofsGood = TRUE
    /\ value = [t \in Tasks |-> <<>>]

(* Task t moves from one place of its Main to another. *)
Step(t, from, to) ==
    /\ pc[t] = from
    /\ pc' = [pc EXCEPT ![t] = to]

(* set_return and the end of Main. *)
Return(t, n) == value' = [value EXCEPT ![t] = <<n>>]

(* A mutated form: the block goes to the front of the list. *)
PushFront(t, block) == datas' = [datas EXCEPT ![t] = <<block>> \o @]

PushBack(t, block) == datas' = [datas EXCEPT ![t] = Append(@, block)]

------------------------------------------------------------------------------
(* The main thread. *)

(* The main thread treats the tasks in the order of the chain. *)
Advance(op, t, nextOp) ==
    main' = IF t = "write" THEN <<nextOp, "read">> ELSE <<op, Down[t]>>

(* FileCrypt::Start: the three AddTask calls; a queued task may be run at once. *)
AddTask(t) ==
    /\ main = <<"add", t>>
    /\ Step(t, "new", "queued")
    /\ Advance("add", t, "wait")
    /\ UNCHANGED <<env, flags, datas, hand, reader, output, value>>

(* FileCrypt::Wait: the three get_return calls. *)
Wait(t) ==
    /\ main = <<"wait", t>>
    /\ value[t] # <<>>
    /\ Advance("wait", t, "done")
    /\ UNCHANGED <<env, pc, flags, datas, hand, reader, output, value>>

------------------------------------------------------------------------------
(* What the tasks share: back-pressure towards the downstream task. *)

(* Where a task goes when it need not wait, and when it need not notify. *)
AfterGate == [read |-> "fetch", crypt |-> "pop"]
AfterNotify == [crypt |-> "gate", write |-> "pop"]

(* A mutated form: the task does not ask whether the next one is there. *)
GateShut(t) ==
    /\ Step(t, "gate", "check")
    /\ UNCHANGED <<env, main, flags, datas, hand, reader, output, value>>

(* if (next_status_) *)
Gate(t) ==
    /\ Step(t, "gate", IF nextStatus[t] THEN "check" ELSE AfterGate[t])
    /\ UNCHANGED <<env, main, flags, datas, hand, reader, output, value>>

(* A mutated form: the task counts the blocks of its own list. *)
BuggyHasRoom(t) == Len(datas[t]) <= DownLimit[t]

HasRoom(t) == Len(datas[Down[t]]) <= DownLimit[t]

(* The predicate of cv_.wait, evaluated before the task sleeps. *)
Check(t) ==
    /\ Step(t, "check", IF HasRoom(t) THEN AfterGate[t] ELSE "park")
    /\ UNCHANGED <<env, main, flags, datas, hand, reader, output, value>>

(* The task falls asleep: a notification before this step is lost. *)
Park(t) ==
    /\ Step(t, "park", "asleep")
    /\ UNCHANGED <<env, main, flags, datas, hand, reader, output, value>>

SpuriousWake(t) ==
    /\ Step(t, "asleep", "check")
    /\ UNCHANGED <<env, main, flags, datas, hand, reader, output, value>>

(* A mutated form: the crypt task leaves its loop when the pool has stopped. *)
StopStatus(t) ==
    /\ Step(t, "status",
            IF t = "crypt" /\ ~isRunning THEN "close"
            ELSE IF prevStatus[t] THEN "count" ELSE AfterNotify[t])
    /\ UNCHANGED <<env, main, flags, datas, hand, reader, output, value>>

(* if (prev_status_ && DataListNum() <= LimitNum(...)), its two reads *)
Status(t) ==
    /\ Step(t, "status", IF prevStatus[t] THEN "count" ELSE AfterNotify[t])
    /\ UNCHANGED <<env, main, flags, datas, hand, reader, output, value>>

(* A mutated form: the test is the other way round. *)
CountAbove(t) ==
    /\ Step(t, "count", IF Len(datas[t]) > UpLimit THEN "notify" ELSE AfterNotify[t])
    /\ UNCHANGED <<env, main, flags, datas, hand, reader, output, value>>

Count(t) ==
    /\ Step(t, "count", IF Len(datas[t]) <= UpLimit THEN "notify" ELSE AfterNotify[t])
    /\ UNCHANGED <<env, main, flags, datas, hand, reader, output, value>>

(* A mutated form: the notification goes nowhere. *)
SilentNotify(t) ==
    /\ Step(t, "notify", AfterNotify[t])
    /\ UNCHANGED <<env, main, flags, datas, hand, reader, output, value>>

(* prev_->cv_.notify_one() *)
Notify(t) ==
    /\ pc[t] = "notify"
    /\ pc' = [pc EXCEPT ![t] = AfterNotify[t],
                        ![Up[t]] = IF @ = "asleep" THEN "check" ELSE @]
    /\ UNCHANGED <<env, main, flags, datas, hand, reader, output, value>>

(* PopFront returns nullptr: the task sleeps for 10 ms and tries again. *)
PopNothing(t) ==
    /\ datas[t] = <<>>
    /\ Step(t, "pop", "status")
    /\ UNCHANGED <<env, main, flags, datas, hand, reader, output, value>>

------------------------------------------------------------------------------
(* ReadTask::Main *)

ReadOpen ==
    /\ IF "openIn" \in faults
       THEN Step("read", "queued", "ended") /\ Return("read", 0) /\ UNCHANGED dataBytes
       ELSE Step("read", "queued", "flag") /\ dataBytes' = fileLen /\ UNCHANGED value
    /\ UNCHANGED <<env, main, flags, datas, hand, chunks, totalRead, eof, output>>

ReadFlag ==
    /\ Step("read", "flag", "loop")
    /\ prevStatus' = [prevStatus EXCEPT !["crypt"] = TRUE]
    /\ UNCHANGED <<env, main, nextStatus, datas, hand, reader, output, value>>

ReadLoop ==
    /\ Step("read", "loop", IF isRunning /\ ~eof THEN "gate" ELSE "close")
    /\ UNCHANGED <<env, main, flags, datas, hand, reader, output, value>>

(* Mutated forms: the end is never seen; it is seen one block early, or past it. *)
NeverAtEnd(total) == total > dataBytes
EndOneEarly(total) == total + ReadDataSize >= dataBytes
EarlyEnd(total) == total >= dataBytes

(* data->set_end when total_read_bytes is the length found by OpenFile *)
ReachedEnd(total) == total = dataBytes

(* New, ifs_.read, gcount: reads less than it asked for only at the end of the file. *)
Fetch ==
    LET left == IF fileLen > totalRead THEN fileLen - totalRead ELSE 0
        got == IF left < ReadDataSize THEN left ELSE ReadDataSize
    IN  /\ eof' = (got < ReadDataSize)
        /\ IF got = 0
           THEN /\ Step("read", "fetch", "close")
                /\ UNCHANGED <<hand, chunks, totalRead>>
           ELSE /\ Step("read", "fetch", "push")
                /\ chunks' = chunks + 1
                /\ totalRead' = totalRead + got
                /\ hand' = [hand EXCEPT !["read"] =
                       <<NewData(chunks + 1, got, ReachedEnd(totalRead + got))>>]
        /\ UNCHANGED <<env, main, flags, datas, dataBytes, output, value>>

ReadPush ==
    /\ Step("read", "push", "loop")
    /\ PushBack("crypt", Head(hand["read"]))
    /\ hand' = [hand EXCEPT !["read"] = <<>>]
    /\ UNCHANGED <<env, main, flags, reader, output, value>>

ReadClose ==
    /\ Step("read", "close", "return")
    /\ prevStatus' = [prevStatus EXCEPT !["crypt"] = FALSE]
    /\ UNCHANGED <<env, main, nextStatus, datas, hand, reader, output, value>>

ReadReturn ==
    /\ Step("read", "return", "ended")
    /\ Return("read", dataBytes)
    /\ UNCHANGED <<env, main, flags, datas, hand, reader, output>>

------------------------------------------------------------------------------
(* CryptTask::Main.  Its loop tests is_running, the std::function, which is   *)
(* set: the state of the pool is not read.                                    *)

CryptEnter ==
    /\ Step("crypt", "queued", "flag")
    /\ nextStatus' = [nextStatus EXCEPT !["read"] = TRUE]
    /\ UNCHANGED <<env, main, prevStatus, datas, hand, reader, output, value>>

(* A mutated form: the crypt task does not make itself known downstream. *)
SilentCryptFlag ==
    /\ Step("crypt", "flag", "status")
    /\ UNCHANGED <<env, main, flags, datas, hand, reader, output, value>>

CryptFlag ==
    /\ Step("crypt", "flag", "status")
    /\ prevStatus' = [prevStatus EXCEPT !["write"] = TRUE]
    /\ UNCHANGED <<env, main, nextStatus, datas, hand, reader, output, value>>

CryptPop ==
    /\ datas["crypt"] # <<>>
    /\ Step("crypt", "pop", "work")
    /\ hand' = [hand EXCEPT !["crypt"] = <<Head(datas["crypt"])>>]
    /\ datas' = [datas EXCEPT !["crypt"] = Tail(@)]
    /\ UNCHANGED <<env, main, flags, reader, output, value>>

(* New, Encrypt or Decrypt, set_size, set_end, PushBack, break at the end. *)
CryptWork ==
    LET block == Head(hand["crypt"])
    IN  /\ Step("crypt", "work", IF block.end THEN "close" ELSE "status")
        /\ \E size \in CryptSizes(isEncrypt, block.len, block.end) :
              /\ PushBack("write", [block EXCEPT !.size = size])
              /\ bytes' = [bytes EXCEPT !["crypt"] = @ + size]
        /\ hand' = [hand EXCEPT !["crypt"] = <<>>]
        /\ UNCHANGED <<env, main, flags, reader, outFile, ofsGood, value>>

CryptClose ==
    /\ Step("crypt", "close", "return")
    /\ prevStatus' = [prevStatus EXCEPT !["write"] = FALSE]
    /\ UNCHANGED <<env, main, nextStatus, datas, hand, reader, output, value>>

CryptReturn ==
    /\ Step("crypt", "return", "ended")
    /\ Return("crypt", bytes["crypt"])
    /\ UNCHANGED <<env, main, flags, datas, hand, reader, output>>

------------------------------------------------------------------------------
(* WriteTask::Main, whose loop tests is_running in the same way. *)

(* With "noThread" the tasks of other files keep all threads from this one. *)
WriteEnter ==
    /\ "noThread" \notin faults
    /\ Step("write", "queued", "open")
    /\ nextStatus' = [nextStatus EXCEPT !["crypt"] = TRUE]
    /\ UNCHANGED <<env, main, prevStatus, datas, hand, reader, output, value>>

WriteOpen ==
    /\ IF "openOut" \in faults
       THEN Step("write", "open", "ended") /\ Return("write", 0)
       ELSE Step("write", "open", "status") /\ UNCHANGED value
    /\ UNCHANGED <<env, main, flags, datas, hand, reader, output>>

(* A mutated form: the end mark is tested before the block is written. *)
WritePopEndFirst ==
    LET block == Head(datas["write"])
    IN  /\ datas["write"] # <<>>
        /\ Step("write", "pop", IF block.end THEN "return" ELSE "status")
        /\ datas' = [datas EXCEPT !["write"] = Tail(@)]
        /\ outFile' = IF block.end THEN outFile ELSE Append(outFile, block)
        /\ UNCHANGED <<env, main, flags, hand, reader, bytes, ofsGood, value>>

(* PopFront, ofs_.write, break at the end.  A failed write is not noticed. *)
WritePop ==
    LET block == Head(datas["write"])
    IN  /\ datas["write"] # <<>>
        /\ Step("write", "pop", IF block.end THEN "return" ELSE "status")
        /\ datas' = [datas EXCEPT !["write"] = Tail(@)]
        /\ bytes' = [bytes EXCEPT !["write"] = @ + block.size]
        /\ ofsGood' \in IF "disk" \in faults THEN {FALSE, ofsGood} ELSE {ofsGood}
        /\ outFile' = IF ofsGood' THEN Append(outFile, block) ELSE outFile
        /\ UNCHANGED <<env, main, flags, hand, reader, value>>

WriteReturn ==
    /\ Step("write", "return", "ended")
    /\ Return("write", bytes["write"])
    /\ UNCHANGED <<env, main, flags, datas, hand, reader, output>>

------------------------------------------------------------------------------
(* What comes from outside. *)

(* allocate throws: Run catches it, the promise keeps no value. *)
Throw(t) ==
    /\ "throw" \in faults
    /\ \/ t = "read" /\ Step(t, "fetch", "ended")
       \/ t = "crypt" /\ Step(t, "work", "ended")
    /\ UNCHANGED <<env, main, flags, datas, hand, reader, output, value>>

(* Another process changes the length of the input, once, while it is read. *)
Resize ==
    /\ "resize" \in faults
    /\ pc["read"] \notin {"new", "queued", "close", "return", "ended"}
    /\ fileLen' \in Lengths \ {fileLen}
    /\ faults' = (faults \ {"resize"}) \cup {"resized"}
    /\ UNCHANGED <<isEncrypt, isRunning, main, pc, flags, datas, hand, reader, output, value>>

(* XThreadPool::Stop, called while the three tasks run, resets is_running_. *)
StopPool ==
    /\ "stop" \in faults
    /\ \A t \in Tasks : pc[t] \notin {"new", "queued"}
    /\ isRunning
    /\ isRunning' = FALSE
    /\ UNCHANGED <<faults, isEncrypt, fileLen, main, pc, flags, datas, hand, reader, output, value>>

------------------------------------------------------------------------------
Main == \E t \in Tasks : AddTask(t) \/ Wait(t)

Read ==
    \/ ReadOpen \/ ReadFlag \/ ReadLoop \/ Gate("read") \/ Check("read")
    \/ Park("read") \/ Fetch \/ ReadPush \/ ReadClose \/ ReadReturn

Crypt ==
    \/ CryptEnter \/ CryptFlag
    \/ Status("crypt") \/ Count("crypt") \/ Notify("crypt")
    \/ Gate("crypt") \/ Check("crypt") \/ Park("crypt")
    \/ PopNothing("crypt") \/ CryptPop \/ CryptWork \/ CryptClose \/ CryptReturn

Write ==
    \/ WriteEnter \/ WriteOpen
    \/ Status("write") \/ Count("write") \/ Notify("write")
    \/ PopNothing("write") \/ WritePop \/ WriteReturn

Outside ==
    \/ \E t \in {"read", "crypt"} : SpuriousWake(t) \/ Throw(t)
    \/ Resize \/ StopPool

Next == Main \/ Read \/ Crypt \/ Write \/ Outside

(* The scheduler gives every thread that can go on a turn; nothing is assumed  *)
(* of the outside.                                                            *)
Fairness == WF_vars(Main) /\ WF_vars(Read) /\ WF_vars(Crypt) /\ WF_vars(Write)

Spec == Init /\ [][Next]_vars /\ Fairness

------------------------------------------------------------------------------
ReadPc == {"new", "queued", "flag", "loop", "gate", "check", "park", "asleep",
           "fetch", "push", "close", "return", "ended"}
CryptPc == {"new", "queued", "flag", "status", "count", "notify", "gate", "check",
            "park", "asleep", "pop", "work", "close", "return", "ended"}
WritePc == {"new", "queued", "open", "status", "count", "notify", "pop", "return", "ended"}

TypeOK ==
    /\ isEncrypt \in BOOLEAN /\ isRunning \in BOOLEAN
    /\ fileLen \in Nat
    /\ main \in {"add", "wait", "done"} \X Tasks
    /\ pc \in [Tasks -> ReadPc \cup CryptPc \cup WritePc]
    /\ pc["read"] \in ReadPc /\ pc["crypt"] \in CryptPc /\ pc["write"] \in WritePc
    /\ nextStatus \in [Tasks -> BOOLEAN] /\ prevStatus \in [Tasks -> BOOLEAN]
    /\ datas \in [Tasks -> Seq(Blocks)]
    /\ hand \in [Tasks -> Seq(Blocks)]
    /\ \A t \in Tasks : Len(hand[t]) <= 1
    /\ dataBytes \in Nat /\ chunks \in Nat /\ totalRead \in Nat /\ eof \in BOOLEAN
    /\ bytes \in [Tasks -> Nat]
    /\ outFile \in Seq(Blocks)
    /\ ofsGood \in BOOLEAN
    /\ value \in [Tasks -> Seq(Nat)]

(* How many blocks have passed each point of the chain. *)
Sent == chunks - Len(hand["read"])
Taken == Sent - Len(datas["crypt"])
Crypted == Taken - Len(hand["crypt"])
Written == Crypted - Len(datas["write"])

(* No block is lost, duplicated or overtaken between the input and the output, *)
(* whatever fails on the way.                                                  *)
InOrder ==
    /\ hand["read"] # <<>> => hand["read"][1].no = chunks
    /\ \A i \in 1 .. Len(datas["crypt"]) : datas["crypt"][i].no = Taken + i
    /\ hand["crypt"] # <<>> => hand["crypt"][1].no = Taken
    /\ \A i \in 1 .. Len(datas["write"]) : datas["write"][i].no = Written + i
    /\ \A i \in 1 .. Len(outFile) : outFile[i].no = i
    /\ IF ofsGood THEN Len(outFile) = Written ELSE Len(outFile) < Written

LenSum(blocks) == FoldSeq(LAMBDA block, sum : block.len + sum, 0, blocks)
SizeSum(blocks) == FoldSeq(LAMBDA block, sum : block.size + sum, 0, blocks)

(* The write task returns a number other than 0 only for an output that holds   *)
(* what the read task found the input to be long, up to the end mark and not    *)
(* beyond, also when the input is resized, a task throws or the pool stops; and  *)
(* then it is the number that the crypt task returns.  Disk errors are excluded: *)
(* WriteTask does not look at the state of ofs_.                                *)
WholeOnReturn ==
    value["write"] # <<>> /\ value["write"] # <<0>> /\ ofsGood =>
        /\ Last(outFile).end
        /\ \A i \in 1 .. Len(outFile) - 1 : ~outFile[i].end
        /\ LenSum(outFile) = dataBytes
        /\ value["write"] = <<SizeSum(outFile)>>
        /\ value["crypt"] \in {<<>>, value["write"]}

(* A task that sleeps on its condition variable, or is about to, has a           *)
(* downstream task that will notify it again: one that knows of it, is in its     *)
(* loop and has not seen the end mark.  The reader may also sleep when it has     *)
(* sent the end mark, see NonEmptyFileCompletes.                                 *)
Blocked(t) == pc[t] \in {"park", "asleep"}
SleeperHasNotifier ==
    /\ Blocked("read") /\ totalRead < dataBytes /\ "throw" \notin faults =>
           /\ prevStatus["crypt"]
           /\ pc["crypt"] \notin {"new", "queued", "close", "return", "ended"}
    /\ Blocked("crypt") /\ "openOut" \notin faults =>
           /\ prevStatus["write"]
           /\ pc["write"] \notin {"new", "queued", "return", "ended"}

(* When the three tasks have ended, every block has been released: a list keeps   *)
(* its blocks for ever, since the tasks of a file hold each other.  Excluded are   *)
(* the faults by which a task ends before its time, or an input that has grown.    *)
AllReleased ==
    /\ \A t \in Tasks : pc[t] = "ended"
    /\ faults \cap {"openOut", "throw", "resize", "resized"} = {}
    => \A t \in Tasks : datas[t] = <<>> /\ hand[t] = <<>>

(* Once a list is within its bound and its owner has registered with the task    *)
(* upstream, it stays within the bound and one block: the block that the upstream *)
(* task let through before it saw the registration is the only one.              *)
Backlog(t) == Len(datas[Down[t]])
BacklogStaysBounded ==
    \A t \in {"read", "crypt"} :
        [](nextStatus[t] /\ Backlog(t) <= DownLimit[t] => [](Backlog(t) <= DownLimit[t] + 1))

(* A file that is not empty and not a multiple of the read size is done in the    *)
(* end: Wait returns.                                                            *)
Completes ==
    (faults = {} /\ fileLen % ReadDataSize # 0) ~> (main[1] = "done")

(* A file that is not empty is written out to its end, whatever becomes of Wait.  *)
WriterCompletes == (faults = {} /\ fileLen > 0) ~> (value["write"] # <<>>)

(* Once the pool stops, a read task that has work left leaves its loop, although  *)
(* cv_.wait does not look at the pool and no task downstream knows of the stop.    *)
StopReachesRead ==
    (faults = {"stop"} /\ ~isRunning /\ totalRead < dataBytes) ~> (pc["read"] = "ended")

(* A task that sleeps with work left is woken, by tasks that have a thread: also   *)
(* when the write task never gets one.                                           *)
SleepersWake ==
    \A t \in {"read", "crypt"} :
        (faults \subseteq {"noThread"} /\ Blocked(t) /\ (t = "read" => totalRead < dataBytes))
            ~> ~Blocked(t)

(* What several files see of the chain is FileChain. *)
PlaceOf(t) ==
    CASE pc[t] \in {"new", "queued", "ended"} -> pc[t]
      [] Blocked(t) -> "asleep"
      [] OTHER -> "running"
SizeOf(len) ==
    [blocks |-> (len + ReadDataSize - 1) \div ReadDataSize, aligned |-> len % ReadDataSize = 0]
Chain == INSTANCE FileChain WITH
    Files <- {"file"},
    Directories <- {[file |-> SizeOf(len)] : len \in Lengths},
    Limit <- DownLimit,
    size <- [file |-> SizeOf(fileLen)],
    place <- [file |-> [t \in Tasks |-> PlaceOf(t)]],
    passed <- [file |-> [read |-> Sent, crypt |-> Crypted, write |-> Written]]
ImplementsChain == Chain!ChainSpec

(* The chain does what FileTransform promises. *)
Transform == INSTANCE FileTransform WITH reported <- (value["write"] # <<>>)
ImplementsTransform == Transform!Spec

(* file_crypt.h:48: Wait waits for the end of the work. *)
FileCompletes == (faults = {}) ~> (main[1] = "done")

(* crypt_task.cc:46 and write_task.cc:51: the upstream task is notified, its      *)
(* block is lifted and it reads on.                                              *)
NonEmptyFileCompletes == (faults = {} /\ fileLen > 0) ~> (main[1] = "done")

(* crypt_task.cc:51: the task blocks when the blocks downstream exceed 20 MB.     *)
CryptBlocksAboveLimit ==
    [][pc["crypt"] = "check" /\ pc'["crypt"] = "pop"
           => SizeSum(datas["write"]) <= DownLimitSize]_vars

(* x_task.h:16 and x_thread_pool.cc:75: is_running tells a task the state of the  *)
(* pool, and Stop waits for the tasks to end.                                    *)
StopEndsTasks == ~isRunning ~> (\A t \in Tasks : pc[t] = "ended")

==============================================================================
