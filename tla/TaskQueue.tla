----------------------------- MODULE TaskQueue ------------------------------
(***************************************************************************)
(* queue.ts of the zBAutomos worker: tasks run one at a time in the order  *)
(* of their enqueue, and a task that throws does not stop those behind it. *)
(***************************************************************************)
EXTENDS Naturals, Sequences, Functions

CONSTANTS
  Tasks,
  NoTask     \* no task is running

ASSUME TaskAssumption == NoTask \notin Tasks

VARIABLES
  queue,     \* this.queue
  active,    \* this.active
  running,   \* the task drain awaits
  asked,     \* history: the tasks enqueued, in order
  ended      \* history: the tasks that resolved or threw, in order

taskVars == <<queue, active, running, asked, ended>>

TaskInit ==
  queue = <<>> /\ active = FALSE /\ running = NoTask /\ asked = <<>> /\ ended = <<>>

(* The loop of drain: it takes the next task, or clears active and ends.   *)
Drain(waiting) ==
  IF waiting = <<>>
  THEN queue' = <<>> /\ running' = NoTask /\ active' = FALSE
  ELSE queue' = Tail(waiting) /\ running' = Head(waiting) /\ active' = TRUE

(* Mutant: the drain does not look at active.                              *)
EnqueueDrains(t) ==
  /\ t \notin Range(asked)
  /\ asked' = Append(asked, t)
  /\ Drain(Append(queue, t))
  /\ UNCHANGED ended

(* enqueue: the drain it starts returns at once when another is active.    *)
Enqueue(t) ==
  /\ t \notin Range(asked)
  /\ asked' = Append(asked, t)
  /\ IF active THEN queue' = Append(queue, t) /\ UNCHANGED <<active, running>>
     ELSE Drain(Append(queue, t))
  /\ UNCHANGED ended

Resolve ==
  /\ running # NoTask
  /\ ended' = Append(ended, running)
  /\ Drain(queue)
  /\ UNCHANGED asked

(* Mutant: finally only clears active.                                     *)
ThrowEnds ==
  /\ running # NoTask
  /\ ended' = Append(ended, running)
  /\ active' = FALSE /\ running' = NoTask
  /\ UNCHANGED <<queue, asked>>

(* The loop is left; finally clears active and, for those that wait,       *)
(* drains again.                                                           *)
Throw ==
  /\ running # NoTask
  /\ ended' = Append(ended, running)
  /\ Drain(queue)
  /\ UNCHANGED asked

TaskNext == (\E t \in Tasks : Enqueue(t)) \/ Resolve \/ Throw

(* Every task settles one way or the other.                                *)
TaskFairness == WF_taskVars(Resolve \/ Throw)

TaskSpec == TaskInit /\ [][TaskNext]_taskVars /\ TaskFairness

(***************************************************************************)
(* Properties                                                              *)
(***************************************************************************)
(***************************************************************************)
(* Whenever tasks are enqueued and however they end, one runs at a time,   *)
(* in the order of their enqueue, none is dropped or run twice, and none   *)
(* waits while the queue is inactive.                                      *)
(***************************************************************************)
TasksInOrder ==
  /\ active <=> running # NoTask
  /\ ~active => queue = <<>>
  /\ asked = ended \o (IF active THEN <<running>> ELSE <<>>) \o queue

(***************************************************************************)
(* Whatever was enqueued runs and ends, though tasks before it throw and   *)
(* no other task comes to start the queue again.                           *)
(***************************************************************************)
TasksRun == []<>(Range(asked) = Range(ended))
=============================================================================
