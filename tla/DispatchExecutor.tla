-------------------------- MODULE DispatchExecutor --------------------------
(***************************************************************************)
(* The executor of dispatch-executor: tasks polled in blocks of a Grand    *)
(* Central Dispatch queue, and values that other threads reach through     *)
(* Handle::lock, which runs a closure in a block of the same queue.        *)
(*                                                                         *)
(* The blocks that touch values which are not Send are barriers: lock and  *)
(* background submit theirs with barrier_sync, spawn_local with            *)
(* barrier_async; spawn, whose futures are Send, uses exec_async.  A task  *)
(* is a state word of async_task, whose flags keep their names.            *)
(***************************************************************************)
EXTENDS Naturals, Sequences

CONSTANTS
  Queues,      \* queues, each made by one call of Executor::background
  Concurrent,  \* those made with concurrent attributes
  Threads,     \* threads that call background and lock from outside any queue
  Tasks,       \* tasks, each spawned once
  Nesting,     \* <<q, r>>: code running on q may lock a handle of r
  NoQueue

Actors == Threads \union Tasks

ASSUME ExecutorAssumption ==
  /\ Concurrent \subseteq Queues
  /\ Nesting \subseteq Queues \X Queues
  /\ NoQueue \notin Queues
  /\ Threads \intersect Tasks = {}

VARIABLES
  made,     \* queues that exist
  waiting,  \* queue |-> blocks submitted and not started, oldest first
  running,  \* queue |-> blocks being executed
  within,   \* actor |-> queues in whose blocks its code is, innermost last
  wants,    \* actor |-> the queue of the barrier_sync it is blocked in, or NoQueue
  home,     \* task |-> the queue it was spawned on, or NoQueue
  local,    \* tasks made by spawn_local
  flags,    \* task |-> its flags: scheduled, running, completed, closed
  future,   \* task |-> "none", "live" or "dropped"
  handle    \* task |-> its Task: "none", "held", "awaited", "detached", "dropped"

blocks == <<waiting, running>>
actors == <<within, wants>>
tasks == <<home, local, flags, future, handle>>
vars == <<made, waiting, running, within, wants, home, local, flags, future, handle>>

Init ==
  /\ made = {}
  /\ waiting = [q \in Queues |-> <<>>]
  /\ running = [q \in Queues |-> {}]
  /\ within = [a \in Actors |-> <<>>]
  /\ wants = [a \in Actors |-> NoQueue]
  /\ home = [t \in Tasks |-> NoQueue]
  /\ local = {}
  /\ flags = [t \in Tasks |-> {}]
  /\ future = [t \in Tasks |-> "none"]
  /\ handle = [t \in Tasks |-> "none"]

-----------------------------------------------------------------------------
(* Blocks.                                                                 *)

(* Mutant of SyncBlock: exec_sync in place of barrier_sync. *)
SyncBlockPlain(a) == [by |-> a, kind |-> "sync", barrier |-> FALSE]

(* barrier_sync. *)
SyncBlock(a) == [by |-> a, kind |-> "sync", barrier |-> TRUE]

(* Mutant of PollBlock: spawn_local uses exec_async, as spawn does. *)
PollBlockPlain(t, isLocal) == [by |-> t, kind |-> "poll", barrier |-> FALSE]

(* Mutant of PollBlock: the task is passed where the flag belongs. *)
PollBlockSwapped(t, isLocal) == [by |-> t, kind |-> "poll", barrier |-> t]

(* A block that calls runnable.run(). *)
PollBlock(t, isLocal) == [by |-> t, kind |-> "poll", barrier |-> isLocal]

(* A block whose code may hold values that are not Send, an Executor among *)
(* them: the closure of a lock, the entry function, a poll of a local task. *)
TouchesValues(b) == b.kind = "sync" \/ b.by \in local

Submit(q, b) == waiting' = [waiting EXCEPT ![q] = Append(@, b)]

(* The block a queue may start next: blocks start in order, and a barrier  *)
(* runs alone; on a serial queue every block does.                         *)
MayStart(q, b) ==
  /\ waiting[q] # <<>>
  /\ b = Head(waiting[q])
  /\ \/ running[q] = {}
     \/ q \in Concurrent /\ ~b.barrier /\ \A r \in running[q] : ~r.barrier

(* The code of a runs: on a thread, or in a block of its innermost queue. *)
Executing(a) == wants[a] = NoQueue /\ (a \in Threads \/ within[a] # <<>>)

InnermostIs(a, q) == within[a] # <<>> /\ within[a][Len(within[a])] = q

-----------------------------------------------------------------------------
(* Threads, closures and handles.                                          *)

BarrierSync(a, q) ==
  /\ Submit(q, SyncBlock(a))
  /\ wants' = [wants EXCEPT ![a] = q]
  /\ UNCHANGED <<running, within, tasks>>

(* background: a new queue, and the entry function as its first block. *)
Background(a, q) ==
  /\ Executing(a)
  /\ within[a] = <<>>
  /\ q \notin made
  /\ made' = made \union {q}
  /\ BarrierSync(a, q)

(* Mutant of Lock: handles are locked from any queue, in any order. *)
LockUnordered(a, q) ==
  /\ Executing(a)
  /\ q \in made
  /\ BarrierSync(a, q)
  /\ UNCHANGED made

(* Handle::lock, also by way of == and hash().  Which handles code may lock *)
(* is up to the callers: lock itself looks at nothing.                      *)
Lock(a, q) ==
  /\ Executing(a)
  /\ q \in made
  /\ \A r \in Queues : InnermostIs(a, r) => <<r, q>> \in Nesting
  /\ BarrierSync(a, q)
  /\ UNCHANGED made

(* The closure starts. *)
StartSync(q) ==
  \E a \in Actors :
    LET b == SyncBlock(a)
    IN  /\ MayStart(q, b)
        /\ waiting' = [waiting EXCEPT ![q] = Tail(@)]
        /\ running' = [running EXCEPT ![q] = @ \union {b}]
        /\ within' = [within EXCEPT ![a] = Append(@, q)]
        /\ wants' = [wants EXCEPT ![a] = NoQueue]
        /\ UNCHANGED <<made, tasks>>

(* It returns, and so does barrier_sync. *)
Return(a, q) ==
  /\ Executing(a)
  /\ InnermostIs(a, q)
  /\ SyncBlock(a) \in running[q]
  /\ running' = [running EXCEPT ![q] = @ \ {SyncBlock(a)}]
  /\ within' = [within EXCEPT ![a] = SubSeq(@, 1, Len(@) - 1)]
  /\ UNCHANGED <<made, waiting, wants, tasks>>

-----------------------------------------------------------------------------
(* Tasks.                                                                  *)

(* Mutant of SpawnTask: the runnable is not scheduled. *)
SpawnTaskUnscheduled(t, isLocal) ==
  \E a \in Actors, q \in Queues :
    /\ home[t] = NoQueue
    /\ Executing(a)
    /\ InnermostIs(a, q)
    /\ \E b \in running[q] : b.by = a /\ TouchesValues(b)
    /\ home' = [home EXCEPT ![t] = q]
    /\ local' = IF isLocal THEN local \union {t} ELSE local
    /\ flags' = [flags EXCEPT ![t] = {"scheduled"}]
    /\ future' = [future EXCEPT ![t] = "live"]
    /\ handle' = [handle EXCEPT ![t] = "held"]
    /\ UNCHANGED <<made, blocks, actors>>

(* spawn and spawn_local, called where an Executor for q may be.           *)
SpawnTask(t, isLocal) ==
  \E a \in Actors, q \in Queues :
    /\ home[t] = NoQueue
    /\ Executing(a)
    /\ InnermostIs(a, q)
    /\ \E b \in running[q] : b.by = a /\ TouchesValues(b)
    /\ home' = [home EXCEPT ![t] = q]
    /\ local' = IF isLocal THEN local \union {t} ELSE local
    /\ flags' = [flags EXCEPT ![t] = {"scheduled"}]
    /\ future' = [future EXCEPT ![t] = "live"]
    /\ handle' = [handle EXCEPT ![t] = "held"]
    /\ Submit(q, PollBlock(t, isLocal))
    /\ UNCHANGED <<made, running, actors>>

Spawn(t) == SpawnTask(t, FALSE)
SpawnLocal(t) == SpawnTask(t, TRUE)

Schedule(t) == Submit(home[t], PollBlock(t, t \in local))

(* run() of a task not closed: its future is polled. *)
StartPoll(t) ==
  LET q == home[t]
      b == PollBlock(t, t \in local)
  IN  /\ q # NoQueue
      /\ MayStart(q, b)
      /\ "closed" \notin flags[t]
      /\ waiting' = [waiting EXCEPT ![q] = Tail(@)]
      /\ running' = [running EXCEPT ![q] = @ \union {b}]
      /\ within' = [within EXCEPT ![t] = <<q>>]
      /\ flags' = [flags EXCEPT ![t] = (@ \ {"scheduled"}) \union {"running"}]
      /\ UNCHANGED <<made, wants, home, local, future, handle>>

(* run() of a task closed: its future is dropped. *)
StartCanceled(t) ==
  LET q == home[t]
  IN  /\ q # NoQueue
      /\ MayStart(q, PollBlock(t, t \in local))
      /\ "closed" \in flags[t]
      /\ waiting' = [waiting EXCEPT ![q] = Tail(@)]
      /\ future' = [future EXCEPT ![t] = "dropped"]
      /\ flags' = [flags EXCEPT ![t] = @ \ {"scheduled"}]
      /\ UNCHANGED <<made, running, actors, home, local, handle>>

(* A poll ends, and its block with it. *)
EndPoll(t) ==
  /\ wants[t] = NoQueue
  /\ home[t] # NoQueue
  /\ within[t] = <<home[t]>>
  /\ within' = [within EXCEPT ![t] = <<>>]
  /\ running' = [running EXCEPT ![home[t]] = @ \ {PollBlock(t, t \in local)}]
  /\ UNCHANGED <<made, wants, home, local, handle>>

(* With Pending: a task closed meanwhile drops its future, one woken       *)
(* meanwhile is scheduled again.                                           *)
Suspend(t) ==
  /\ EndPoll(t)
  /\ IF "closed" \in flags[t]
       THEN /\ future' = [future EXCEPT ![t] = "dropped"]
            /\ flags' = [flags EXCEPT ![t] = @ \ {"running", "scheduled"}]
            /\ UNCHANGED waiting
       ELSE /\ flags' = [flags EXCEPT ![t] = @ \ {"running"}]
            /\ IF "scheduled" \in flags[t] THEN Schedule(t) ELSE UNCHANGED waiting
            /\ UNCHANGED future

(* With Ready. *)
Complete(t) ==
  /\ EndPoll(t)
  /\ future' = [future EXCEPT ![t] = "dropped"]
  /\ flags' = [flags EXCEPT ![t] = (@ \ {"running", "scheduled"}) \union {"completed"}]
  /\ UNCHANGED waiting

(* A task neither completed nor closed, that is not about to be polled. *)
Idle(t) == flags[t] = {}

(* A waker, which any thread may hold, is used. *)
Wake(t) ==
  /\ future[t] = "live"
  /\ flags[t] \intersect {"scheduled", "closed", "completed"} = {}
  /\ flags' = [flags EXCEPT ![t] = @ \union {"scheduled"}]
  /\ IF Idle(t) THEN Schedule(t) ELSE UNCHANGED waiting
  /\ UNCHANGED <<made, running, actors, home, local, future, handle>>

(* Mutant of DropTask: the Task is let go of as detach() does. *)
DropTaskDetaching(t) ==
  /\ handle[t] = "held"
  /\ handle' = [handle EXCEPT ![t] = "dropped"]
  /\ UNCHANGED <<made, blocks, actors, home, local, flags, future>>

(* Mutant of DropTask: a task at rest is not scheduled for its last time. *)
DropTaskUnscheduled(t) ==
  /\ handle[t] = "held"
  /\ handle' = [handle EXCEPT ![t] = "dropped"]
  /\ flags' = [flags EXCEPT ![t] = IF "completed" \in @ THEN @ ELSE @ \union {"closed"}]
  /\ UNCHANGED <<made, blocks, actors, home, local, future>>

(* The Task is dropped: a task at rest is scheduled a last time, for its   *)
(* future to be dropped on its queue.                                      *)
DropTask(t) ==
  /\ handle[t] = "held"
  /\ handle' = [handle EXCEPT ![t] = "dropped"]
  /\ flags' = [flags EXCEPT ![t] =
                 IF "completed" \in @ THEN @
                 ELSE @ \union {"closed"} \union (IF Idle(t) THEN {"scheduled"} ELSE {})]
  /\ IF Idle(t) THEN Schedule(t) ELSE UNCHANGED waiting
  /\ UNCHANGED <<made, running, actors, home, local, future>>

(* A task at rest loses its last reference: it is scheduled a last time,   *)
(* closed, for its future to be dropped on its queue.                      *)
Forsake(t) ==
  /\ Idle(t)
  /\ flags' = [flags EXCEPT ![t] = {"scheduled", "closed"}]
  /\ Schedule(t)

(* The Task is detached; there may be no waker of its task. *)
Detach(t) ==
  /\ handle[t] = "held"
  /\ handle' = [handle EXCEPT ![t] = "detached"]
  /\ Forsake(t) \/ UNCHANGED <<waiting, flags>>
  /\ UNCHANGED <<made, running, actors, home, local, future>>

(* The last waker of a task that was detached is dropped. *)
DropWakers(t) ==
  /\ handle[t] = "detached"
  /\ Forsake(t)
  /\ UNCHANGED <<made, running, actors, home, local, future, handle>>

(* The Task, a future itself, resolves. *)
TaskPoll(t) ==
  /\ handle[t] = "held"
  /\ "completed" \in flags[t]
  /\ handle' = [handle EXCEPT ![t] = "awaited"]
  /\ UNCHANGED <<made, blocks, actors, home, local, flags, future>>

-----------------------------------------------------------------------------
Next ==
  \/ \E a \in Threads, q \in Queues : Background(a, q)
  \/ \E a \in Actors, q \in Queues : Lock(a, q) \/ Return(a, q)
  \/ \E q \in Queues : StartSync(q)
  \/ \E t \in Tasks : Spawn(t) \/ SpawnLocal(t) \/ StartPoll(t) \/ StartCanceled(t)
  \/ \E t \in Tasks : Suspend(t) \/ Complete(t) \/ Wake(t)
  \/ \E t \in Tasks : DropTask(t) \/ Detach(t) \/ DropWakers(t) \/ TaskPoll(t)

Spec == Init /\ [][Next]_vars

(* A queue starts a block. *)
Start(q) ==
  StartSync(q) \/ \E t \in Tasks : home[t] = q /\ (StartPoll(t) \/ StartCanceled(t))

(* The outermost block in which the code of a runs ends. *)
End(a) ==
  \/ \E q \in Queues : Return(a, q) /\ Len(within[a]) = 1
  \/ a \in Tasks /\ (Suspend(a) \/ Complete(a))

EndNested(a) == \E q \in Queues : Return(a, q) /\ Len(within[a]) > 1

(* A queue starts its blocks, and the code of a block runs for a finite    *)
(* time, which calls of lock in it may break up.                           *)
Fairness ==
  /\ \A q \in Queues : WF_vars(Start(q))
  /\ \A a \in Actors : SF_vars(End(a)) /\ WF_vars(EndNested(a))

FairSpec == Spec /\ Fairness

-----------------------------------------------------------------------------
(* Properties.                                                             *)

Blocks == [by : Actors, kind : {"sync", "poll"}, barrier : BOOLEAN]

(* Every variable has its type. *)
TypeOK ==
  /\ made \subseteq Queues
  /\ waiting \in [Queues -> Seq(Blocks)]
  /\ running \in [Queues -> SUBSET Blocks]
  /\ within \in [Actors -> Seq(Queues)]
  /\ wants \in [Actors -> Queues \union {NoQueue}]
  /\ home \in [Tasks -> Queues \union {NoQueue}]
  /\ local \subseteq Tasks
  /\ flags \in [Tasks -> SUBSET {"scheduled", "running", "completed", "closed"}]
  /\ future \in [Tasks -> {"none", "live", "dropped"}]
  /\ handle \in [Tasks -> {"none", "held", "awaited", "detached", "dropped"}]

(* All accesses to the values a queue protects are synchronized on it,     *)
(* also when the queue is concurrent: nothing else runs beside one.        *)
AccessExclusive ==
  \A q \in Queues :
    (\E b \in running[q] : TouchesValues(b)) => \A b, c \in running[q] : b = c

(* A future is dropped, like it is polled, on its own queue; one that is   *)
(* not Send, with nothing else running there, also when it is cancelled.   *)
LocalDroppedAlone ==
  [][\A t \in local :
       future[t] = "live" /\ future'[t] = "dropped" =>
         \A b \in running[home[t]] : b.by = t /\ b.kind = "poll"]_vars

(* The places in its queue where a poll of t waits to start. *)
Runnables(t) ==
  {i \in DOMAIN waiting[home[t]] :
     waiting[home[t]][i].by = t /\ waiting[home[t]][i].kind = "poll"}

(* No wake-up is lost and none is counted twice: a task scheduled and not  *)
(* being polled has one block waiting; any other has none.                 *)
WakeKept ==
  \A t \in Tasks :
    home[t] # NoQueue =>
      IF "scheduled" \in flags[t] /\ "running" \notin flags[t]
        THEN \E i \in Runnables(t) : Runnables(t) = {i}
        ELSE Runnables(t) = {}

(* Dropping a Task cancels it: its future is not polled again. *)
DroppedNotPolled ==
  [][\A t \in Tasks :
       handle[t] = "dropped" /\ "running" \notin flags[t] => "running" \notin flags'[t]]_vars

(* The future of a Task that is dropped is dropped in its turn. *)
DroppedReclaimed ==
  \A t \in Tasks : handle[t] = "dropped" ~> future[t] = "dropped"

(* A call of lock, or of background, gets its turn: it blocks its thread   *)
(* until the function has run.                                             *)
LockReturns ==
  \A a \in Actors : wants[a] # NoQueue ~> wants[a] = NoQueue
=============================================================================
