------------------------------ MODULE FileChain ------------------------------
(* The chains read -> crypt -> write of several files, as far as they matter to *)
(* who runs them: how many blocks each task has passed on, whether a worker has *)
(* taken it, whether it has made itself known to the task before it, and whether  *)
(* it sleeps on its condition variable.  FileCrypt implements this for one file. *)
EXTENDS Naturals

CONSTANTS
    Files,         (* the files                                                *)
    Directories,   (* what the files may be: each has a number of blocks, and   *)
                   (* the last one may end where a read ends (aligned)          *)
    Limit          (* above how many blocks in the next list a task may sleep   *)

Tasks == {"read", "crypt", "write"}
Down == [read |-> "crypt", crypt |-> "write"]
Up == [crypt |-> "read", write |-> "crypt"]

ASSUME ChainAssumption ==
    /\ Directories \subseteq [Files -> [blocks : Nat, aligned : BOOLEAN]]
    /\ Limit \in [{"read", "crypt"} -> Nat]

VARIABLES
    size,     (* size[f], what the file is; it does not change                 *)
    place,    (* place[f][t], what has become of the task                       *)
    passed    (* passed[f][t], the blocks that the task has passed on           *)

chainVars == <<size, place, passed>>

(* A task is "taken" when a worker has popped it and has not set the            *)
(* next_status_ of the task before it yet.                                      *)
Places == {"new", "queued", "taken", "running", "asleep", "ended"}

ChainInit ==
    /\ size \in Directories
    /\ place = [f \in Files |-> [t \in Tasks |-> "new"]]
    /\ passed = [f \in Files |-> [t \in Tasks |-> 0]]

Move(f, t, from, to) ==
    /\ place[f][t] = from
    /\ place' = [place EXCEPT ![f][t] = to]

(* The task before has its next_status_ set: t has made itself known.          *)
Started(f, t) == place[f][t] \notin {"new", "queued", "taken"}

(* AddTask. *)
Queue(f, t) == Move(f, t, "new", "queued") /\ UNCHANGED <<size, passed>>

(* GetTask: a worker takes the task out of the queue.                           *)
Begin(f, t) == Move(f, t, "queued", "taken") /\ UNCHANGED <<size, passed>>

(* Main begins, with prev_->next_status_ = true if there is a task before.      *)
Announce(f, t) == Move(f, t, "taken", "running") /\ UNCHANGED <<size, passed>>

(* Both in one step, for who does not tell the moment between them.             *)
Enter(f, t) == Move(f, t, "queued", "running") /\ UNCHANGED <<size, passed>>

(* What has reached the task. *)
Available(f, t) == IF t = "read" THEN size[f].blocks ELSE passed[f][Up[t]]

Pass(f, t) ==
    /\ place[f][t] = "running"
    /\ passed[f][t] < Available(f, t)
    /\ passed' = [passed EXCEPT ![f][t] = @ + 1]
    /\ UNCHANGED <<size, place>>

(* A mutated form: the task does not ask whether the next one is there. *)
SleepUnasked(f, t) ==
    /\ t # "write"
    /\ passed[f][t] > passed[f][Down[t]] + Limit[t]
    /\ passed[f][t] < size[f].blocks \/ (t = "read" /\ size[f].aligned)
    /\ Move(f, t, "running", "asleep")
    /\ UNCHANGED <<size, passed>>

(* The task looks at the next list only if the owner of that has said that it   *)
(* is there.  The reader does so once more after the last block, if the end of   *)
(* the file is not known from a short read.                                     *)
Sleep(f, t) ==
    /\ t # "write"
    /\ Started(f, Down[t])
    /\ passed[f][t] > passed[f][Down[t]] + Limit[t]
    /\ passed[f][t] < size[f].blocks \/ (t = "read" /\ size[f].aligned)
    /\ Move(f, t, "running", "asleep")
    /\ UNCHANGED <<size, passed>>

(* A notification or none: a sleeper may always wake. *)
Wake(f, t) == Move(f, t, "asleep", "running") /\ UNCHANGED <<size, passed>>

(* The end mark is on the last block; an empty file has none. *)
End(f, t) ==
    /\ passed[f][t] = size[f].blocks
    /\ t = "read" \/ size[f].blocks > 0
    /\ Move(f, t, "running", "ended")
    /\ UNCHANGED <<size, passed>>

Work(f, t) == Pass(f, t) \/ Sleep(f, t) \/ Wake(f, t) \/ End(f, t)

ChainNext ==
    \E f \in Files, t \in Tasks :
        Queue(f, t) \/ Begin(f, t) \/ Announce(f, t) \/ Enter(f, t) \/ Work(f, t)

(* What a task must do for ever: a sleeper is woken as long as it has work left. *)
Progress(f, t) ==
    \/ Announce(f, t)
    \/ Pass(f, t)
    \/ End(f, t)
    \/ passed[f][t] < size[f].blocks /\ Wake(f, t)

ChainSpec == ChainInit /\ [][ChainNext]_chainVars

==============================================================================
