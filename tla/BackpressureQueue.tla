------------------------- MODULE BackpressureQueue -------------------------
(***************************************************************************)
(* A backpressure queue: at most Concurrency jobs hold a slot, at most      *)
(* MaxPending wait, and a job holds its slot until its task settles or its  *)
(* timer fires.  A task is never interrupted: it outlives its timed-out     *)
(* job, and what it does then reaches neither the queue nor the caller.     *)
(*                                                                         *)
(* A timer is a macrotask: it cannot fire between a task's settlement and   *)
(* the continuation of the job that awaits it.                              *)
(***************************************************************************)
EXTENDS Integers, Sequences

CONSTANTS
  Jobs,
  Concurrency,  \* budget.concurrency, at least 1
  MaxPending    \* budget.maxPending

VARIABLES
  job,          \* where a job is
  task,         \* where the work of a job is
  running,      \* state.running
  pending       \* state.pending

Outcomes == {"resolved", "rejected", "timeout"}

Init ==
  /\ job = [j \in Jobs |-> "new"]
  /\ task = [j \in Jobs |-> "idle"]
  /\ running = 0
  /\ pending = <<>>

-----------------------------------------------------------------------------

Full == running >= Concurrency /\ Len(pending) >= MaxPending

Reject(j) ==
  /\ job[j] = "new"
  /\ Full
  /\ job' = [job EXCEPT ![j] = "refused"]
  /\ UNCHANGED <<task, running, pending>>

\* How many jobs the loop of runNext takes from the queue.
Startable(slots, queue) ==
  IF Len(queue) < Concurrency - slots THEN Len(queue) ELSE Concurrency - slots

\* runNext: called with the slots in use, the queue and where the jobs are.
RunNext(slots, queue, jobs) ==
  LET n == Startable(slots, queue)
      chosen == {queue[i] : i \in 1 .. n}
  IN
  /\ running' = slots + n
  /\ pending' = SubSeq(queue, n + 1, Len(queue))
  /\ job' = [q \in Jobs |-> IF q \in chosen THEN "running" ELSE jobs[q]]

Enqueue(j) ==
  /\ job[j] = "new"
  /\ ~Full
  /\ RunNext(running, Append(pending, j), [job EXCEPT ![j] = "pending"])
  /\ UNCHANGED task

\* Promise.resolve().then(job.task)
TaskStarts(j) ==
  /\ job[j] = "running"
  /\ task[j] = "idle"
  /\ task' = [task EXCEPT ![j] = "working"]
  /\ UNCHANGED <<job, running, pending>>

\* A task that awaits nothing settles as it starts.
TaskReturnsAtOnce(j, outcome) ==
  /\ job[j] = "running"
  /\ task[j] = "idle"
  /\ task' = [task EXCEPT ![j] = outcome]
  /\ UNCHANGED <<job, running, pending>>

\* The task of a job settles; the job may have timed out long ago.
TaskSettles(j) ==
  /\ task[j] = "working"
  /\ \E r \in {"resolved", "rejected"} : task' = [task EXCEPT ![j] = r]
  /\ UNCHANGED <<job, running, pending>>

SlotLeaked(j) == running
SlotFreed(j) == IF running > 0 THEN running - 1 ELSE 0

\* The job's promise is settled, its timer cleared and its slot given on.
Answer(j, outcome) ==
  /\ RunNext(SlotFreed(j), pending, [job EXCEPT ![j] = outcome])
  /\ UNCHANGED task

TaskWins(j) ==
  /\ job[j] = "running"
  /\ task[j] \in {"resolved", "rejected"}
  /\ Answer(j, task[j])

NoTimer(j) == FALSE

MayTimeOut(j) == task[j] = "working"

TimerWins(j) ==
  /\ job[j] = "running"
  /\ MayTimeOut(j)
  /\ Answer(j, "timeout")

=============================================================================
