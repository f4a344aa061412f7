------------------------------ MODULE JobQueue ------------------------------
(***************************************************************************)
(* What the queue of downloads promises whoever enqueues a job, without    *)
(* banks, sessions or accounts: one job at a time, in the order they came, *)
(* reported once.  A job whose worker stopped is noticed later, when others *)
(* may have run: it is put back in front of those that wait, once, and     *)
(* fails the second time.                                                  *)
(***************************************************************************)
EXTENDS Sequences

CONSTANTS Jobs, NoJob

VARIABLES
  state,    \* state[j]: where the job is
  waiting,  \* jobs that wait, in order
  active,   \* the job of the worker
  retried   \* jobs that were put back

vars == <<state, waiting, active, retried>>

Init ==
  /\ state = [j \in Jobs |-> "new"]
  /\ waiting = <<>>
  /\ active = NoJob
  /\ retried = {}

Submit(j) ==
  /\ state[j] = "new"
  /\ state' = [state EXCEPT ![j] = "waiting"]
  /\ waiting' = Append(waiting, j)
  /\ UNCHANGED <<active, retried>>

Begin(j) ==
  /\ active = NoJob
  /\ waiting # <<>> /\ j = Head(waiting)
  /\ state[j] = "waiting"
  /\ state' = [state EXCEPT ![j] = "active"]
  /\ waiting' = Tail(waiting)
  /\ active' = j
  /\ UNCHANGED retried

Report(j) ==
  /\ active = j
  /\ state[j] = "active"
  /\ \E r \in {"completed", "failed"} : state' = [state EXCEPT ![j] = r]
  /\ active' = NoJob
  /\ UNCHANGED <<waiting, retried>>

\* The worker is gone; a new one is free.
Stop(j) ==
  /\ active = j
  /\ state[j] = "active"
  /\ state' = [state EXCEPT ![j] = "stalled"]
  /\ active' = NoJob
  /\ UNCHANGED <<waiting, retried>>

PutBack(j) ==
  /\ state[j] = "stalled" /\ j \notin retried
  /\ state' = [state EXCEPT ![j] = "waiting"]
  /\ waiting' = <<j>> \o waiting
  /\ retried' = retried \cup {j}
  /\ UNCHANGED active

GiveUp(j) ==
  /\ state[j] = "stalled" /\ j \in retried
  /\ state' = [state EXCEPT ![j] = "failed"]
  /\ UNCHANGED <<waiting, active, retried>>

Next ==
  \E j \in Jobs : Submit(j) \/ Begin(j) \/ Report(j) \/ Stop(j) \/ PutBack(j) \/ GiveUp(j)

Spec == Init /\ [][Next]_vars
=============================================================================
