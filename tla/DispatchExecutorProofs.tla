----------------------- MODULE DispatchExecutorProofs -----------------------
(***************************************************************************)
(* Exclusive access to the values of a queue, wake-ups that are kept, and  *)
(* tasks that are cancelled, for any queues, threads and tasks, and        *)
(* whatever handles code on a queue may lock.                              *)
(***************************************************************************)
EXTENDS DispatchExecutor, TLAPS

(* The blocks of a sequence, and that it has none twice. *)
Listed(s) == {s[i] : i \in DOMAIN s}
Unrepeated(s) == \A i, j \in DOMAIN s : s[i] = s[j] => i = j

WaitingOnce == \A q \in Queues : Unrepeated(waiting[q])

(* The caller of a waiting closure is blocked for it, a task in its poll.  *)
CallerBlocked(a, q) ==
  /\ wants[a] = q
  /\ a \in Tasks => within[a] # <<>>

(* A task with a poll waiting is scheduled on that queue. *)
PollDue(t, q) ==
  /\ home[t] = q
  /\ "scheduled" \in flags[t]
  /\ "running" \notin flags[t]

WaitingAsMeant ==
  \A q \in Queues : \A b \in Listed(waiting[q]) :
    \/ \E a \in Actors : b = SyncBlock(a) /\ CallerBlocked(a, q)
    \/ \E t \in Tasks : b = PollBlock(t, t \in local) /\ PollDue(t, q)

(* A block runs as it was submitted: the polls of local tasks, like the    *)
(* closures of lock, are barriers, and a poll runs on its task's queue.    *)
RunningAsMeant ==
  \A q \in Queues : \A b \in running[q] :
    \/ \E a \in Actors : b = SyncBlock(a)
    \/ \E t \in Tasks : b = PollBlock(t, t \in local) /\ home[t] = q

(* A barrier runs alone. *)
BarrierAlone ==
  \A q \in Queues : \A b, c \in running[q] : b.barrier => b = c

(* The code of a task is in the block of its poll, and in closures it      *)
(* entered from there.                                                     *)
PollEncloses ==
  \A t \in Tasks :
    within[t] # <<>> =>
      /\ home[t] # NoQueue
      /\ PollBlock(t, t \in local) \in running[home[t]]
      /\ "running" \in flags[t]

ScheduledWaits ==
  \A t \in Tasks :
    "scheduled" \in flags[t] /\ "running" \notin flags[t] =>
      PollBlock(t, t \in local) \in Listed(waiting[home[t]])

(* A task not spawned has no state; one that completed is not scheduled;   *)
(* one whose Task was dropped is closed, or completed before.              *)
FlagsAsMeant ==
  \A t \in Tasks :
    /\ home[t] = NoQueue =>
         /\ t \notin local
         /\ handle[t] = "none" /\ future[t] = "none" /\ flags[t] = {}
    /\ "completed" \in flags[t] => "scheduled" \notin flags[t]
    /\ handle[t] = "dropped" => "closed" \in flags[t] \/ "completed" \in flags[t]

IndInv ==
  /\ TypeOK
  /\ WaitingOnce
  /\ WaitingAsMeant
  /\ ScheduledWaits
  /\ RunningAsMeant
  /\ BarrierAlone
  /\ PollEncloses
  /\ FlagsAsMeant

-----------------------------------------------------------------------------
(* Blocks are told apart by who made them, and what for. *)
LEMMA SyncBlocks ==
  ASSUME NEW a \in Actors
  PROVE  /\ SyncBlock(a) \in Blocks
         /\ SyncBlock(a).barrier
         /\ SyncBlock(a).kind = "sync"
         /\ \A c \in Actors : SyncBlock(a) = SyncBlock(c) => a = c
BY DEF SyncBlock, Blocks

(* So are polls, which are barriers for local tasks only. *)
LEMMA PollBlocks ==
  ASSUME NEW t \in Tasks, NEW l \in BOOLEAN
  PROVE  /\ PollBlock(t, l) \in Blocks
         /\ PollBlock(t, l).barrier = l
         /\ PollBlock(t, l).by = t
         /\ PollBlock(t, l).kind = "poll"
         /\ \A u \in Tasks, m \in BOOLEAN : PollBlock(t, l) = PollBlock(u, m) => t = u
         /\ \A a \in Actors : PollBlock(t, l) # SyncBlock(a)
<1>1. PollBlock(t, l) \in Blocks
  BY DEF PollBlock, Blocks, Actors
<1>2. PollBlock(t, l).by = t /\ PollBlock(t, l).kind = "poll"
  BY DEF PollBlock
<1>3. PollBlock(t, l).barrier = l
  BY DEF PollBlock
<1>4. \A u \in Tasks, m \in BOOLEAN : PollBlock(t, l) = PollBlock(u, m) => t = u
  BY DEF PollBlock
<1>5. \A a \in Actors : PollBlock(t, l) # SyncBlock(a)
  BY DEF PollBlock, SyncBlock
<1> QED BY <1>1, <1>2, <1>3, <1>4, <1>5

(* The poll a task is scheduled for. *)
LEMMA PollsOfTasks ==
  ASSUME NEW t \in Tasks
  PROVE  /\ PollBlock(t, t \in local) \in Blocks
         /\ t \in local <=> PollBlock(t, t \in local).barrier
         /\ PollBlock(t, t \in local).by = t
         /\ PollBlock(t, t \in local).kind = "poll"
         /\ \A u \in Tasks : PollBlock(t, t \in local) = PollBlock(u, u \in local) => t = u
         /\ \A a \in Actors : PollBlock(t, t \in local) # SyncBlock(a)
<1>1. \A u : (u \in local) \in BOOLEAN
  OBVIOUS
<1>2. PICK l \in BOOLEAN : l = (t \in local)
  BY <1>1
<1>3. /\ PollBlock(t, l) \in Blocks
      /\ PollBlock(t, l).barrier = l
      /\ PollBlock(t, l).by = t
      /\ PollBlock(t, l).kind = "poll"
      /\ \A a \in Actors : PollBlock(t, l) # SyncBlock(a)
  BY PollBlocks
<1>4. \A u \in Tasks : PollBlock(t, t \in local) = PollBlock(u, u \in local) => t = u
  BY DEF PollBlock
<1> QED BY <1>2, <1>3, <1>4

(* A block submitted joins those waiting, and none is repeated if it was   *)
(* not among them.                                                         *)
LEMMA Submitted ==
  ASSUME TypeOK, NEW q \in Queues, NEW b \in Blocks, Submit(q, b)
  PROVE  /\ waiting' \in [Queues -> Seq(Blocks)]
         /\ \A r \in Queues :
              Listed(waiting'[r]) = IF r = q THEN Listed(waiting[r]) \union {b}
                                    ELSE Listed(waiting[r])
         /\ b \notin Listed(waiting[q]) /\ WaitingOnce => WaitingOnce'
<1>1. waiting[q] \in Seq(Blocks)
  BY DEF TypeOK
<1>2. waiting' = [waiting EXCEPT ![q] = Append(@, b)]
  BY DEF Submit
<1>3. waiting' \in [Queues -> Seq(Blocks)]
  BY <1>1, <1>2 DEF TypeOK
<1> DEFINE s == waiting[q]
           n == Append(s, b)
<1>4. /\ waiting'[q] = n
      /\ \A r \in Queues : r # q => waiting'[r] = waiting[r]
  BY <1>2 DEF TypeOK
<1>5. /\ DOMAIN s = 1..Len(s)
      /\ DOMAIN n = 1..(Len(s) + 1)
      /\ \A i \in 1..Len(s) : n[i] = s[i]
      /\ n[Len(s) + 1] = b
      /\ Len(s) \in Nat
  BY <1>1
<1>6. Listed(n) = Listed(s) \union {b}
  <2>1. Listed(n) \subseteq Listed(s) \union {b}
    <3>1. ASSUME NEW i \in 1..(Len(s) + 1)
          PROVE  n[i] = b \/ \E j \in 1..Len(s) : n[i] = s[j]
      <4>1. CASE i = Len(s) + 1
        BY <4>1, <1>5
      <4>2. CASE i # Len(s) + 1
        BY <4>2, <1>5
      <4> QED BY <4>1, <4>2
    <3> QED BY <3>1, <1>5 DEF Listed
  <2>2. Listed(s) \subseteq Listed(n)
    BY <1>5 DEF Listed
  <2>3. b \in Listed(n)
    BY <1>5 DEF Listed
  <2> QED BY <2>1, <2>2, <2>3
<1>7. b \notin Listed(s) /\ Unrepeated(s) => Unrepeated(n)
  BY <1>5 DEF Listed, Unrepeated
<1> QED BY <1>3, <1>4, <1>6, <1>7 DEF WaitingOnce

(* A block that starts leaves those waiting. *)
LEMMA Started ==
  ASSUME TypeOK, WaitingOnce, NEW q \in Queues, NEW b, MayStart(q, b),
         waiting' = [waiting EXCEPT ![q] = Tail(@)]
  PROVE  /\ waiting' \in [Queues -> Seq(Blocks)]
         /\ WaitingOnce'
         /\ b \in Listed(waiting[q])
         /\ \A r \in Queues :
              Listed(waiting'[r]) = IF r = q THEN Listed(waiting[r]) \ {b}
                                    ELSE Listed(waiting[r])
<1> DEFINE s == waiting[q]
           n == Tail(s)
<1>1. /\ s \in Seq(Blocks) /\ s # <<>>
      /\ b = Head(s)
  BY DEF TypeOK, MayStart
<1>2. /\ n \in Seq(Blocks)
      /\ Len(s) \in Nat \ {0}
      /\ DOMAIN s = 1..Len(s)
      /\ DOMAIN n = 1..(Len(s) - 1)
      /\ \A i \in 1..(Len(s) - 1) : n[i] = s[i + 1]
      /\ b = s[1]
  BY <1>1
<1>3. /\ waiting'[q] = n
      /\ \A r \in Queues : r # q => waiting'[r] = waiting[r]
      /\ waiting' \in [Queues -> Seq(Blocks)]
  BY <1>2 DEF TypeOK
<1>4. Unrepeated(s)
  BY DEF WaitingOnce
<1>5. Unrepeated(n)
  <2>1. ASSUME NEW i \in 1..(Len(s) - 1), NEW j \in 1..(Len(s) - 1), n[i] = n[j]
        PROVE  i = j
    <3>1. i + 1 \in 1..Len(s) /\ j + 1 \in 1..Len(s)
      BY <1>2
    <3>2. s[i + 1] = s[j + 1]
      BY <2>1, <1>2
    <3>3. i + 1 = j + 1
      BY <3>1, <3>2, <1>2, <1>4 DEF Unrepeated
    <3> QED BY <3>3
  <2> QED BY <2>1, <1>2 DEF Unrepeated
<1>6. Listed(n) = Listed(s) \ {b}
  <2>1. ASSUME NEW i \in 1..(Len(s) - 1)
        PROVE  n[i] \in Listed(s) /\ n[i] # b
    <3>1. i + 1 \in 1..Len(s) /\ 1 \in 1..Len(s) /\ i + 1 # 1
      BY <1>2
    <3> QED BY <3>1, <1>2, <1>4 DEF Listed, Unrepeated
  <2>2. ASSUME NEW i \in 1..Len(s), s[i] # b
        PROVE  s[i] \in Listed(n)
    <3>1. i - 1 \in 1..(Len(s) - 1) /\ (i - 1) + 1 = i
      BY <2>2, <1>2
    <3>2. n[i - 1] = s[i]
      BY <3>1, <1>2
    <3> QED BY <3>1, <3>2, <1>2 DEF Listed
  <2>3. Listed(n) \subseteq Listed(s) \ {b}
    BY <2>1, <1>2 DEF Listed
  <2>4. Listed(s) \ {b} \subseteq Listed(n)
    BY <2>2, <1>2 DEF Listed
  <2> QED BY <2>3, <2>4
<1>7. b \in Listed(s)
  BY <1>2 DEF Listed
<1> QED BY <1>3, <1>5, <1>6, <1>7 DEF WaitingOnce

-----------------------------------------------------------------------------
(* The invariant holds at first. *)
LEMMA InitInv == Init => IndInv
<1> SUFFICES ASSUME Init PROVE IndInv
  OBVIOUS
<1> USE DEF Init
<1>1. TypeOK
  BY DEF TypeOK
<1>2. \A q \in Queues : waiting[q] = <<>> /\ running[q] = {}
  OBVIOUS
<1>3. \A q \in Queues : Listed(waiting[q]) = {}
  <2>1. DOMAIN <<>> = {}
    OBVIOUS
  <2> QED BY <1>2, <2>1 DEF Listed
<1>4. WaitingOnce
  BY <1>2 DEF WaitingOnce, Unrepeated
<1>5. WaitingAsMeant
  BY <1>3 DEF WaitingAsMeant
<1>6. RunningAsMeant /\ BarrierAlone
  BY <1>2 DEF RunningAsMeant, BarrierAlone
<1>7. ScheduledWaits /\ PollEncloses /\ FlagsAsMeant
  BY DEF ScheduledWaits, PollEncloses, FlagsAsMeant, Actors
<1> QED BY <1>1, <1>4, <1>5, <1>6, <1>7 DEF IndInv

(* A call of barrier_sync preserves it: nobody who is not blocked has a    *)
(* closure waiting.                                                        *)
LEMMA BarrierSyncKeeps ==
  ASSUME IndInv, NEW a \in Actors, NEW q \in Queues, Executing(a), BarrierSync(a, q),
         made' \subseteq Queues
  PROVE  IndInv'
<1> DEFINE b == SyncBlock(a)
<1>1. /\ TypeOK /\ WaitingOnce
      /\ wants[a] = NoQueue
      /\ Submit(q, b)
      /\ wants' = [wants EXCEPT ![a] = q]
      /\ UNCHANGED <<running, within, home, local, flags, future, handle>>
  BY DEF IndInv, Executing, BarrierSync, tasks
<1>2. b \in Blocks
  BY SyncBlocks
<1>3. \A r \in Queues : b \notin Listed(waiting[r])
  <2> SUFFICES ASSUME NEW r \in Queues, b \in Listed(waiting[r]) PROVE FALSE
    OBVIOUS
  <2>1. CASE \E c \in Actors : b = SyncBlock(c) /\ CallerBlocked(c, r)
    BY <2>1, <1>1, SyncBlocks, ExecutorAssumption DEF CallerBlocked
  <2>2. CASE \E t \in Tasks : b = PollBlock(t, t \in local)
    BY <2>2, PollsOfTasks
  <2> QED BY <2>1, <2>2 DEF IndInv, WaitingAsMeant
<1>4. /\ waiting' \in [Queues -> Seq(Blocks)]
      /\ WaitingOnce'
      /\ \A r \in Queues :
           Listed(waiting'[r]) = IF r = q THEN Listed(waiting[r]) \union {b}
                                 ELSE Listed(waiting[r])
  BY <1>1, <1>2, <1>3, Submitted
<1>5. TypeOK'
  BY <1>1, <1>4 DEF TypeOK
<1>6. WaitingAsMeant'
  <2> SUFFICES ASSUME NEW r \in Queues, NEW c \in Listed(waiting'[r])
               PROVE  \/ \E d \in Actors : c = SyncBlock(d) /\ CallerBlocked(d, r)'
                      \/ \E t \in Tasks : c = PollBlock(t, t \in local') /\ PollDue(t, r)'
    BY DEF WaitingAsMeant
  <2>1. CASE c = b /\ r = q
    <3>1. wants'[a] = q
      BY <1>1 DEF TypeOK
    <3>2. a \in Tasks => within[a] # <<>>
      BY ExecutorAssumption DEF Executing
    <3> QED BY <2>1, <3>1, <3>2, <1>1 DEF CallerBlocked
  <2>2. CASE c \in Listed(waiting[r])
    <3>1. CASE \E d \in Actors : c = SyncBlock(d) /\ CallerBlocked(d, r)
      <4>1. PICK d \in Actors : c = SyncBlock(d) /\ CallerBlocked(d, r)
        BY <3>1
      <4>2. d # a
        BY <4>1, <1>1, ExecutorAssumption DEF CallerBlocked
      <4>3. wants'[d] = wants[d]
        BY <4>2, <1>1 DEF TypeOK
      <4> QED BY <4>1, <4>3, <1>1 DEF CallerBlocked
    <3>2. CASE \E t \in Tasks : c = PollBlock(t, t \in local) /\ PollDue(t, r)
      BY <3>2, <1>1 DEF PollDue
    <3> QED BY <2>2, <3>1, <3>2 DEF IndInv, WaitingAsMeant
  <2> QED BY <2>1, <2>2, <1>4
<1>7. ScheduledWaits'
  <2> SUFFICES ASSUME NEW t \in Tasks, "scheduled" \in flags[t], "running" \notin flags[t]
               PROVE  PollBlock(t, t \in local) \in Listed(waiting'[home[t]])
    BY <1>1 DEF ScheduledWaits
  <2>1. home[t] \in Queues
    BY <1>1 DEF TypeOK, IndInv, FlagsAsMeant
  <2> QED BY <2>1, <1>4 DEF IndInv, ScheduledWaits
<1>8. RunningAsMeant' /\ BarrierAlone' /\ PollEncloses' /\ FlagsAsMeant'
  BY <1>1 DEF IndInv, RunningAsMeant, BarrierAlone, PollEncloses, FlagsAsMeant
<1> QED BY <1>4, <1>5, <1>6, <1>7, <1>8 DEF IndInv

(* The start of a closure preserves it: a barrier starts when nothing runs. *)
LEMMA StartSyncKeeps ==
  ASSUME IndInv, NEW q \in Queues, StartSync(q)
  PROVE  IndInv'
<1>1. PICK a \in Actors :
        /\ MayStart(q, SyncBlock(a))
        /\ waiting' = [waiting EXCEPT ![q] = Tail(@)]
        /\ running' = [running EXCEPT ![q] = @ \union {SyncBlock(a)}]
        /\ within' = [within EXCEPT ![a] = Append(@, q)]
        /\ wants' = [wants EXCEPT ![a] = NoQueue]
        /\ UNCHANGED <<made, home, local, flags, future, handle>>
  BY DEF StartSync, tasks
<1> DEFINE b == SyncBlock(a)
<1>2. TypeOK /\ WaitingOnce
  BY DEF IndInv
<1>3. /\ b \in Blocks /\ b.barrier
      /\ \A c \in Actors : b = SyncBlock(c) => a = c
      /\ \A t \in Tasks : b # PollBlock(t, t \in local)
  BY SyncBlocks, PollsOfTasks
<1>4. /\ waiting' \in [Queues -> Seq(Blocks)]
      /\ WaitingOnce'
      /\ b \in Listed(waiting[q])
      /\ \A r \in Queues :
           Listed(waiting'[r]) = IF r = q THEN Listed(waiting[r]) \ {b}
                                 ELSE Listed(waiting[r])
  BY <1>1, <1>2, Started
<1>5. CallerBlocked(a, q)
  BY <1>3, <1>4 DEF IndInv, WaitingAsMeant
<1>6. /\ running[q] = {}
      /\ running'[q] = {b}
      /\ \A r \in Queues : r # q => running'[r] = running[r]
  BY <1>1, <1>2, <1>3 DEF MayStart, TypeOK
<1>7. TypeOK'
  <2>1. within' \in [Actors -> Seq(Queues)]
    BY <1>1, <1>2 DEF TypeOK
  <2>2. running' \in [Queues -> SUBSET Blocks]
    BY <1>1, <1>2, <1>3 DEF TypeOK
  <2>3. wants' \in [Actors -> Queues \union {NoQueue}]
    BY <1>1, <1>2 DEF TypeOK
  <2> QED BY <2>1, <2>2, <2>3, <1>1, <1>2, <1>4 DEF TypeOK
<1>8. \A c \in Actors : within[c] # <<>> \/ c = a => within'[c] # <<>>
  <2>1. within[a] \in Seq(Queues) /\ within'[a] = Append(within[a], q)
    BY <1>1, <1>2 DEF TypeOK
  <2>2. within'[a] # <<>>
    BY <2>1
  <2>3. \A c \in Actors : c # a => within'[c] = within[c]
    BY <1>1, <1>2 DEF TypeOK
  <2> QED BY <2>2, <2>3
<1>9. WaitingAsMeant'
  <2> SUFFICES ASSUME NEW r \in Queues, NEW c \in Listed(waiting'[r])
               PROVE  \/ \E d \in Actors : c = SyncBlock(d) /\ CallerBlocked(d, r)'
                      \/ \E t \in Tasks : c = PollBlock(t, t \in local') /\ PollDue(t, r)'
    BY DEF WaitingAsMeant
  <2>1. c \in Listed(waiting[r]) /\ (c = b => r # q)
    BY <1>4
  <2>2. CASE \E d \in Actors : c = SyncBlock(d) /\ CallerBlocked(d, r)
    <3>1. PICK d \in Actors : c = SyncBlock(d) /\ CallerBlocked(d, r)
      BY <2>2
    <3>2. d # a
      BY <2>1, <3>1, <1>5 DEF CallerBlocked
    <3>3. wants'[d] = wants[d]
      BY <3>2, <1>1, <1>2 DEF TypeOK
    <3> QED BY <3>1, <3>3, <1>8 DEF CallerBlocked
  <2>3. CASE \E t \in Tasks : c = PollBlock(t, t \in local) /\ PollDue(t, r)
    BY <2>3, <1>1 DEF PollDue
  <2> QED BY <2>1, <2>2, <2>3 DEF IndInv, WaitingAsMeant
<1>10. ScheduledWaits'
  <2> SUFFICES ASSUME NEW t \in Tasks, "scheduled" \in flags[t], "running" \notin flags[t]
               PROVE  PollBlock(t, t \in local) \in Listed(waiting'[home[t]])
    BY <1>1 DEF ScheduledWaits
  <2>1. home[t] \in Queues
    BY <1>2 DEF TypeOK, IndInv, FlagsAsMeant
  <2>2. PollBlock(t, t \in local) \in Listed(waiting[home[t]])
    BY DEF IndInv, ScheduledWaits
  <2> QED BY <2>1, <2>2, <1>3, <1>4
<1>11. RunningAsMeant'
  BY <1>1, <1>6 DEF IndInv, RunningAsMeant
<1>12. BarrierAlone'
  BY <1>6 DEF IndInv, BarrierAlone
<1>13. PollEncloses'
  <2> SUFFICES ASSUME NEW t \in Tasks, within'[t] # <<>>
               PROVE  /\ home[t] # NoQueue
                      /\ PollBlock(t, t \in local) \in running'[home[t]]
                      /\ "running" \in flags[t]
    BY <1>1 DEF PollEncloses
  <2>1. within[t] # <<>>
    <3>1. CASE t = a
      BY <3>1, <1>5 DEF CallerBlocked
    <3>2. CASE t # a
      BY <3>2, <1>1, <1>2 DEF TypeOK, Actors
    <3> QED BY <3>1, <3>2
  <2>2. /\ home[t] # NoQueue
        /\ PollBlock(t, t \in local) \in running[home[t]]
        /\ "running" \in flags[t]
    BY <2>1 DEF IndInv, PollEncloses
  <2>3. home[t] \in Queues
    BY <2>2, <1>2 DEF TypeOK
  <2> QED BY <2>2, <2>3, <1>6
<1>14. FlagsAsMeant'
  BY <1>1 DEF IndInv, FlagsAsMeant
<1> QED BY <1>4, <1>7, <1>9, <1>10, <1>11, <1>12, <1>13, <1>14 DEF IndInv

(* The return of a closure preserves it. *)
LEMMA ReturnKeeps ==
  ASSUME IndInv, NEW a \in Actors, NEW q \in Queues, Return(a, q)
  PROVE  IndInv'
<1>1. /\ TypeOK
      /\ wants[a] = NoQueue
      /\ within[a] # <<>>
      /\ running' = [running EXCEPT ![q] = @ \ {SyncBlock(a)}]
      /\ within' = [within EXCEPT ![a] = SubSeq(@, 1, Len(@) - 1)]
      /\ UNCHANGED <<made, waiting, wants, home, local, flags, future, handle>>
  BY DEF IndInv, Return, Executing, InnermostIs, tasks
<1>2. TypeOK'
  <2>1. within'[a] \in Seq(Queues)
    <3>1. within[a] \in Seq(Queues)
      BY <1>1 DEF TypeOK
    <3>2. SubSeq(within[a], 1, Len(within[a]) - 1) \in Seq(Queues)
      BY <3>1, <1>1
    <3> QED BY <3>2, <1>1 DEF TypeOK
  <2>2. within' \in [Actors -> Seq(Queues)]
    BY <2>1, <1>1 DEF TypeOK
  <2>3. running' \in [Queues -> SUBSET Blocks]
    BY <1>1 DEF TypeOK
  <2> QED BY <2>2, <2>3, <1>1 DEF TypeOK
<1>3. \A r \in Queues : running'[r] \subseteq running[r]
  BY <1>1 DEF TypeOK
<1>4. \A c \in Actors : c # a => within'[c] = within[c]
  BY <1>1 DEF TypeOK
<1>5. WaitingAsMeant'
  <2>1. \A c \in Actors, r \in Queues : CallerBlocked(c, r) => CallerBlocked(c, r)'
    BY <1>1, <1>4, ExecutorAssumption DEF CallerBlocked
  <2>2. \A t \in Tasks, r \in Queues : PollDue(t, r) => PollDue(t, r)'
    BY <1>1 DEF PollDue
  <2> QED BY <2>1, <2>2, <1>1 DEF IndInv, WaitingAsMeant
<1>6. RunningAsMeant' /\ BarrierAlone'
  BY <1>1, <1>3 DEF IndInv, RunningAsMeant, BarrierAlone
<1>7. PollEncloses'
  <2> SUFFICES ASSUME NEW t \in Tasks, within'[t] # <<>>
               PROVE  /\ home[t] # NoQueue
                      /\ PollBlock(t, t \in local) \in running'[home[t]]
                      /\ "running" \in flags[t]
    BY <1>1 DEF PollEncloses
  <2>1. within[t] # <<>>
    BY <1>1, <1>4 DEF Actors
  <2>2. /\ home[t] # NoQueue
        /\ PollBlock(t, t \in local) \in running[home[t]]
        /\ "running" \in flags[t]
    BY <2>1 DEF IndInv, PollEncloses
  <2>3. home[t] \in Queues
    BY <2>2, <1>1 DEF TypeOK
  <2>4. PollBlock(t, t \in local) # SyncBlock(a)
    BY PollsOfTasks
  <2> QED BY <2>2, <2>3, <2>4, <1>1 DEF TypeOK
<1>8. WaitingOnce' /\ ScheduledWaits' /\ FlagsAsMeant'
  BY <1>1 DEF IndInv, WaitingOnce, ScheduledWaits, FlagsAsMeant
<1> QED BY <1>2, <1>5, <1>6, <1>7, <1>8 DEF IndInv

-----------------------------------------------------------------------------
(* A task has a poll waiting, or ought to. *)
Due(t) == "scheduled" \in flags[t] /\ "running" \notin flags[t]

(* The task whose poll waits is due. *)
LEMMA WaitingIsDue ==
  ASSUME IndInv, NEW t \in Tasks, NEW q \in Queues,
         PollBlock(t, t \in local) \in Listed(waiting[q])
  PROVE  PollDue(t, q)
<1> DEFINE b == PollBlock(t, t \in local)
<1>1. \/ \E a \in Actors : b = SyncBlock(a)
      \/ \E u \in Tasks : b = PollBlock(u, u \in local) /\ PollDue(u, q)
  BY DEF IndInv, WaitingAsMeant
<1>2. PICK u \in Tasks : b = PollBlock(u, u \in local) /\ PollDue(u, q)
  BY <1>1, PollsOfTasks
<1>3. u = t
  BY <1>2, PollsOfTasks
<1> QED BY <1>2, <1>3

(* A block that is to run a task starts in its turn: the task is scheduled, *)
(* and is not being polled.                                                 *)
LEMMA RunIsDue ==
  ASSUME IndInv, NEW t \in Tasks, StartPoll(t) \/ StartCanceled(t)
  PROVE  home[t] \in Queues /\ PollDue(t, home[t])
<1>1. /\ home[t] \in Queues
      /\ MayStart(home[t], PollBlock(t, t \in local))
      /\ waiting' = [waiting EXCEPT ![home[t]] = Tail(@)]
  BY DEF StartPoll, StartCanceled, IndInv, TypeOK
<1>2. PollBlock(t, t \in local) \in Listed(waiting[home[t]])
  BY <1>1, Started DEF IndInv
<1> QED BY <1>1, <1>2, WaitingIsDue

(* What waits stays as meant when one task changes, if it is scheduled as  *)
(* it becomes due, and only then.                                          *)
LEMMA ScheduleKeeps ==
  ASSUME IndInv, NEW t \in Tasks, home[t] \in Queues,
         UNCHANGED <<wants, home, local>>,
         \A u \in Tasks : u # t => flags'[u] = flags[u],
         \A a \in Actors : within'[a] = within[a] \/ wants[a] = NoQueue,
         \/ waiting' = waiting /\ (Due(t) <=> Due(t)')
         \/ Schedule(t) /\ ~Due(t) /\ Due(t)'
  PROVE  /\ waiting' \in [Queues -> Seq(Blocks)]
         /\ WaitingOnce' /\ WaitingAsMeant' /\ ScheduledWaits'
<1> DEFINE b == PollBlock(t, t \in local)
<1>1. TypeOK /\ WaitingOnce
  BY DEF IndInv
<1>2. \A a \in Actors, r \in Queues : CallerBlocked(a, r) => CallerBlocked(a, r)'
  BY ExecutorAssumption DEF CallerBlocked
<1>3. \A u \in Tasks, r \in Queues : u # t /\ PollDue(u, r) => PollDue(u, r)'
  BY DEF PollDue
<1>4. \A u \in Tasks : u # t /\ Due(u)' => Due(u)
  BY DEF Due
<1>5. \A u \in Tasks : Due(u) => home[u] \in Queues /\ PollBlock(u, u \in local) \in Listed(waiting[home[u]])
  BY <1>1 DEF Due, IndInv, ScheduledWaits, FlagsAsMeant, TypeOK
<1>6. CASE waiting' = waiting /\ (Due(t) <=> Due(t)')
  <2>1. \A r \in Queues : PollDue(t, r) => PollDue(t, r)'
    BY <1>6 DEF PollDue, Due
  <2>2. WaitingAsMeant'
    <3>1. \A u \in Tasks, r \in Queues : PollDue(u, r) => PollDue(u, r)'
      BY <1>3, <2>1
    <3> QED BY <3>1, <1>2, <1>6 DEF IndInv, WaitingAsMeant
  <2>3. ScheduledWaits'
    <3>1. \A u \in Tasks : Due(u)' => Due(u)
      BY <1>4, <1>6
    <3> QED BY <3>1, <1>5, <1>6 DEF ScheduledWaits, Due
  <2> QED BY <2>2, <2>3, <1>6, <1>1 DEF TypeOK, WaitingOnce
<1>7. CASE Schedule(t) /\ ~Due(t) /\ Due(t)'
  <2>1. b \notin Listed(waiting[home[t]])
    BY <1>7, WaitingIsDue DEF PollDue, Due
  <2>2. b \in Blocks
    BY PollsOfTasks
  <2>3. /\ waiting' \in [Queues -> Seq(Blocks)]
        /\ WaitingOnce'
        /\ \A r \in Queues :
             Listed(waiting'[r]) = IF r = home[t] THEN Listed(waiting[r]) \union {b}
                                   ELSE Listed(waiting[r])
    BY <2>1, <2>2, <1>1, <1>7, Submitted DEF Schedule
  <2>4. WaitingAsMeant'
    <3> SUFFICES ASSUME NEW r \in Queues, NEW c \in Listed(waiting'[r])
                 PROVE  \/ \E d \in Actors : c = SyncBlock(d) /\ CallerBlocked(d, r)'
                        \/ \E u \in Tasks : c = PollBlock(u, u \in local) /\ PollDue(u, r)'
      BY DEF WaitingAsMeant
    <3>1. CASE c = b /\ r = home[t]
      BY <3>1, <1>7 DEF PollDue, Due
    <3>2. CASE c \in Listed(waiting[r])
      <4>1. CASE \E d \in Actors : c = SyncBlock(d) /\ CallerBlocked(d, r)
        BY <4>1, <1>2
      <4>2. CASE \E u \in Tasks : c = PollBlock(u, u \in local) /\ PollDue(u, r)
        <5>1. PICK u \in Tasks : c = PollBlock(u, u \in local) /\ PollDue(u, r)
          BY <4>2
        <5>2. u # t
          BY <5>1, <1>7 DEF PollDue, Due
        <5> QED BY <5>1, <5>2, <1>3
      <4> QED BY <3>2, <4>1, <4>2 DEF IndInv, WaitingAsMeant
    <3> QED BY <3>1, <3>2, <2>3
  <2>5. ScheduledWaits'
    <3> SUFFICES ASSUME NEW u \in Tasks, Due(u)'
                 PROVE  PollBlock(u, u \in local) \in Listed(waiting'[home[u]])
      BY DEF ScheduledWaits, Due
    <3>1. CASE u = t
      BY <3>1, <2>3
    <3>2. CASE u # t
      BY <3>2, <2>3, <1>4, <1>5
    <3> QED BY <3>1, <3>2
  <2> QED BY <2>3, <2>4, <2>5
<1> QED BY <1>6, <1>7

(* What waits stays as meant when the poll of a task that was due starts. *)
LEMMA PollTaken ==
  ASSUME IndInv, NEW t \in Tasks, home[t] \in Queues,
         MayStart(home[t], PollBlock(t, t \in local)),
         waiting' = [waiting EXCEPT ![home[t]] = Tail(@)],
         UNCHANGED <<wants, home, local>>,
         \A u \in Tasks : u # t => flags'[u] = flags[u],
         ~Due(t)',
         \A a \in Actors : within'[a] = within[a] \/ within'[a] # <<>>
  PROVE  /\ Due(t)
         /\ waiting' \in [Queues -> Seq(Blocks)]
         /\ WaitingOnce' /\ WaitingAsMeant' /\ ScheduledWaits'
<1> DEFINE b == PollBlock(t, t \in local)
<1>1. TypeOK /\ WaitingOnce
  BY DEF IndInv
<1>2. /\ waiting' \in [Queues -> Seq(Blocks)]
      /\ WaitingOnce'
      /\ b \in Listed(waiting[home[t]])
      /\ \A r \in Queues :
           Listed(waiting'[r]) = IF r = home[t] THEN Listed(waiting[r]) \ {b}
                                 ELSE Listed(waiting[r])
  BY <1>1, Started
<1>3. PollDue(t, home[t])
  BY <1>2, WaitingIsDue
<1>4. WaitingAsMeant'
  <2> SUFFICES ASSUME NEW r \in Queues, NEW c \in Listed(waiting'[r])
               PROVE  \/ \E d \in Actors : c = SyncBlock(d) /\ CallerBlocked(d, r)'
                      \/ \E u \in Tasks : c = PollBlock(u, u \in local) /\ PollDue(u, r)'
    BY DEF WaitingAsMeant
  <2>1. c \in Listed(waiting[r]) /\ (c = b => r # home[t])
    BY <1>2
  <2>2. CASE \E d \in Actors : c = SyncBlock(d) /\ CallerBlocked(d, r)
    BY <2>2 DEF CallerBlocked
  <2>3. CASE \E u \in Tasks : c = PollBlock(u, u \in local) /\ PollDue(u, r)
    <3>1. PICK u \in Tasks : c = PollBlock(u, u \in local) /\ PollDue(u, r)
      BY <2>3
    <3>2. u # t
      BY <3>1, <2>1 DEF PollDue
    <3> QED BY <3>1, <3>2 DEF PollDue
  <2> QED BY <2>1, <2>2, <2>3 DEF IndInv, WaitingAsMeant
<1>5. ScheduledWaits'
  <2> SUFFICES ASSUME NEW u \in Tasks, Due(u)'
               PROVE  PollBlock(u, u \in local) \in Listed(waiting'[home[u]])
    BY DEF ScheduledWaits, Due
  <2>1. u # t
    OBVIOUS
  <2>2. Due(u)
    BY <2>1 DEF Due
  <2>3. home[u] \in Queues /\ PollBlock(u, u \in local) \in Listed(waiting[home[u]])
    BY <2>2, <1>1 DEF Due, IndInv, ScheduledWaits, FlagsAsMeant, TypeOK
  <2>4. PollBlock(u, u \in local) # b
    BY <2>1, PollsOfTasks
  <2> QED BY <2>3, <2>4, <1>2
<1> QED BY <1>2, <1>3, <1>4, <1>5 DEF PollDue, Due

(* What runs stays as meant when a poll ends. *)
LEMMA EndPollKeeps ==
  ASSUME IndInv, NEW t \in Tasks, EndPoll(t),
         \A u \in Tasks : u # t => flags'[u] = flags[u]
  PROVE  /\ home[t] \in Queues /\ "running" \in flags[t]
         /\ running' \in [Queues -> SUBSET Blocks]
         /\ within' \in [Actors -> Seq(Queues)]
         /\ \A a \in Actors : within'[a] = within[a] \/ wants[a] = NoQueue
         /\ RunningAsMeant' /\ BarrierAlone' /\ PollEncloses'
<1> DEFINE b == PollBlock(t, t \in local)
<1>1. /\ TypeOK
      /\ t \in Actors
      /\ wants[t] = NoQueue
      /\ within[t] = <<home[t]>>
      /\ home[t] \in Queues
      /\ within' = [within EXCEPT ![t] = <<>>]
      /\ running' = [running EXCEPT ![home[t]] = @ \ {b}]
      /\ UNCHANGED <<wants, home, local>>
  BY DEF IndInv, TypeOK, EndPoll, Actors
<1>2. "running" \in flags[t]
  BY <1>1 DEF IndInv, PollEncloses
<1>3. \A r \in Queues : running'[r] = IF r = home[t] THEN running[r] \ {b} ELSE running[r]
  BY <1>1 DEF TypeOK
<1>4. running' \in [Queues -> SUBSET Blocks]
  BY <1>1 DEF TypeOK
<1>5. \A a \in Actors : within'[a] = IF a = t THEN <<>> ELSE within[a]
  BY <1>1 DEF TypeOK
<1>6. within' \in [Actors -> Seq(Queues)]
  BY <1>1 DEF TypeOK
<1>7. RunningAsMeant' /\ BarrierAlone'
  BY <1>1, <1>3 DEF IndInv, RunningAsMeant, BarrierAlone
<1>8. PollEncloses'
  <2> SUFFICES ASSUME NEW u \in Tasks, within'[u] # <<>>
               PROVE  /\ home[u] # NoQueue
                      /\ PollBlock(u, u \in local) \in running'[home[u]]
                      /\ "running" \in flags'[u]
    BY <1>1 DEF PollEncloses
  <2>1. u # t /\ within[u] # <<>>
    BY <1>5 DEF Actors
  <2>2. /\ home[u] # NoQueue
        /\ PollBlock(u, u \in local) \in running[home[u]]
        /\ "running" \in flags[u]
    BY <2>1 DEF IndInv, PollEncloses
  <2>3. home[u] \in Queues
    BY <2>2, <1>1 DEF TypeOK
  <2>4. PollBlock(u, u \in local) # b
    BY <2>1, PollsOfTasks
  <2> QED BY <2>1, <2>2, <2>3, <2>4, <1>3
<1> QED BY <1>1, <1>2, <1>4, <1>5, <1>6, <1>7, <1>8

-----------------------------------------------------------------------------
(* spawn and spawn_local preserve the invariant: the task had no blocks.   *)
LEMMA SpawnKeeps ==
  ASSUME IndInv, NEW t \in Tasks, NEW l \in BOOLEAN, SpawnTask(t, l)
  PROVE  IndInv'
<1>1. PICK a \in Actors, q \in Queues :
        /\ home[t] = NoQueue
        /\ home' = [home EXCEPT ![t] = q]
        /\ local' = IF l THEN local \union {t} ELSE local
        /\ flags' = [flags EXCEPT ![t] = {"scheduled"}]
        /\ future' = [future EXCEPT ![t] = "live"]
        /\ handle' = [handle EXCEPT ![t] = "held"]
        /\ Submit(q, PollBlock(t, l))
        /\ UNCHANGED <<made, running, within, wants>>
  BY DEF SpawnTask, actors
<1> DEFINE b == PollBlock(t, l)
<1>2. /\ TypeOK /\ WaitingOnce
      /\ flags[t] = {} /\ t \notin local
      /\ within[t] = <<>>
  BY <1>1 DEF IndInv, FlagsAsMeant, PollEncloses
<1>3. \A u \in Tasks : u # t =>
        /\ home'[u] = home[u] /\ flags'[u] = flags[u]
        /\ future'[u] = future[u] /\ handle'[u] = handle[u]
  BY <1>1, <1>2 DEF TypeOK
<1>4. \A u \in Tasks : u # t => PollBlock(u, u \in local') = PollBlock(u, u \in local)
  <2> SUFFICES ASSUME NEW u \in Tasks, u # t
               PROVE  PollBlock(u, u \in local') = PollBlock(u, u \in local)
    OBVIOUS
  <2>1. (u \in local') = (u \in local)
    BY <1>1
  <2> QED BY <2>1
<1>5. /\ home'[t] = q /\ flags'[t] = {"scheduled"}
      /\ future'[t] = "live" /\ handle'[t] = "held"
  BY <1>1, <1>2 DEF TypeOK
<1>6. PollBlock(t, t \in local') = b
  <2>1. (t \in local') = l
    BY <1>1, <1>2
  <2> QED BY <2>1
<1>7. \A r \in Queues : b \notin Listed(waiting[r])
  <2> SUFFICES ASSUME NEW r \in Queues, b \in Listed(waiting[r]) PROVE FALSE
    OBVIOUS
  <2>1. \A c \in Actors : b # SyncBlock(c)
    BY PollBlocks
  <2>2. PICK u \in Tasks : b = PollBlock(u, u \in local) /\ PollDue(u, r)
    BY <2>1 DEF IndInv, WaitingAsMeant
  <2>3. u = t
    BY <2>2 DEF PollBlock
  <2> QED BY <2>2, <2>3, <1>2 DEF PollDue
<1>8. /\ waiting' \in [Queues -> Seq(Blocks)]
      /\ WaitingOnce'
      /\ \A r \in Queues :
           Listed(waiting'[r]) = IF r = q THEN Listed(waiting[r]) \union {b}
                                 ELSE Listed(waiting[r])
  <2>1. b \in Blocks
    BY PollBlocks
  <2> QED BY <2>1, <1>1, <1>2, <1>7, Submitted
<1>9. TypeOK'
  <2>1. local' \subseteq Tasks
    BY <1>1, <1>2 DEF TypeOK
  <2> QED BY <2>1, <1>1, <1>2, <1>8 DEF TypeOK
<1>10. WaitingAsMeant'
  <2> SUFFICES ASSUME NEW r \in Queues, NEW c \in Listed(waiting'[r])
               PROVE  \/ \E d \in Actors : c = SyncBlock(d) /\ CallerBlocked(d, r)'
                      \/ \E u \in Tasks : c = PollBlock(u, u \in local') /\ PollDue(u, r)'
    BY DEF WaitingAsMeant
  <2>1. CASE c = b /\ r = q
    BY <2>1, <1>5, <1>6 DEF PollDue
  <2>2. CASE c \in Listed(waiting[r])
    <3>1. CASE \E d \in Actors : c = SyncBlock(d) /\ CallerBlocked(d, r)
      BY <3>1, <1>1 DEF CallerBlocked
    <3>2. CASE \E u \in Tasks : c = PollBlock(u, u \in local) /\ PollDue(u, r)
      <4>1. PICK u \in Tasks : c = PollBlock(u, u \in local) /\ PollDue(u, r)
        BY <3>2
      <4>2. u # t
        BY <4>1, <1>2 DEF PollDue
      <4> QED BY <4>1, <4>2, <1>3, <1>4 DEF PollDue
    <3> QED BY <2>2, <3>1, <3>2 DEF IndInv, WaitingAsMeant
  <2> QED BY <2>1, <2>2, <1>8
<1>11. ScheduledWaits'
  <2> SUFFICES ASSUME NEW u \in Tasks, "scheduled" \in flags'[u], "running" \notin flags'[u]
               PROVE  PollBlock(u, u \in local') \in Listed(waiting'[home'[u]])
    BY DEF ScheduledWaits
  <2>1. CASE u = t
    BY <2>1, <1>5, <1>6, <1>8
  <2>2. CASE u # t
    <3>1. home[u] \in Queues /\ PollBlock(u, u \in local) \in Listed(waiting[home[u]])
      BY <2>2, <1>2, <1>3 DEF IndInv, ScheduledWaits, FlagsAsMeant, TypeOK
    <3> QED BY <2>2, <3>1, <1>3, <1>4, <1>8
  <2> QED BY <2>1, <2>2
<1>12. RunningAsMeant'
  <2> SUFFICES ASSUME NEW r \in Queues, NEW c \in running[r]
               PROVE  \/ \E d \in Actors : c = SyncBlock(d)
                      \/ \E u \in Tasks : c = PollBlock(u, u \in local') /\ home'[u] = r
    BY <1>1 DEF RunningAsMeant
  <2>1. CASE \E d \in Actors : c = SyncBlock(d)
    BY <2>1
  <2>2. CASE \E u \in Tasks : c = PollBlock(u, u \in local) /\ home[u] = r
    <3>1. PICK u \in Tasks : c = PollBlock(u, u \in local) /\ home[u] = r
      BY <2>2
    <3>2. u # t
      BY <3>1, <1>1, ExecutorAssumption
    <3> QED BY <3>1, <3>2, <1>3, <1>4
  <2> QED BY <2>1, <2>2 DEF IndInv, RunningAsMeant
<1>13. BarrierAlone'
  BY <1>1 DEF IndInv, BarrierAlone
<1>14. PollEncloses'
  <2> SUFFICES ASSUME NEW u \in Tasks, within[u] # <<>>
               PROVE  /\ home'[u] # NoQueue
                      /\ PollBlock(u, u \in local') \in running[home'[u]]
                      /\ "running" \in flags'[u]
    BY <1>1 DEF PollEncloses
  <2>1. u # t
    BY <1>2
  <2> QED BY <2>1, <1>3, <1>4 DEF IndInv, PollEncloses
<1>15. FlagsAsMeant'
  <2> SUFFICES ASSUME NEW u \in Tasks
               PROVE  /\ home'[u] = NoQueue =>
                           /\ u \notin local'
                           /\ handle'[u] = "none" /\ future'[u] = "none" /\ flags'[u] = {}
                      /\ "completed" \in flags'[u] => "scheduled" \notin flags'[u]
                      /\ handle'[u] = "dropped" => "closed" \in flags'[u] \/ "completed" \in flags'[u]
    BY DEF FlagsAsMeant
  <2>1. CASE u = t
    BY <2>1, <1>5, ExecutorAssumption
  <2>2. CASE u # t
    <3>1. u \in local' => u \in local
      BY <2>2, <1>1
    <3> QED BY <2>2, <3>1, <1>3 DEF IndInv, FlagsAsMeant
  <2> QED BY <2>1, <2>2
<1> QED BY <1>8, <1>9, <1>10, <1>11, <1>12, <1>13, <1>14, <1>15 DEF IndInv

(* The start of a poll preserves it: a poll of a local task starts when    *)
(* nothing runs, and no poll starts beside a barrier.                      *)
LEMMA StartPollKeeps ==
  ASSUME IndInv, NEW t \in Tasks, StartPoll(t)
  PROVE  IndInv'
<1> DEFINE q == home[t]
           b == PollBlock(t, t \in local)
<1>1. /\ TypeOK
      /\ q \in Queues /\ t \in Actors
      /\ MayStart(q, b)
      /\ waiting' = [waiting EXCEPT ![q] = Tail(@)]
      /\ running' = [running EXCEPT ![q] = @ \union {b}]
      /\ within' = [within EXCEPT ![t] = <<q>>]
      /\ flags' = [flags EXCEPT ![t] = (@ \ {"scheduled"}) \union {"running"}]
      /\ UNCHANGED <<made, wants, home, local, future, handle>>
  BY DEF IndInv, StartPoll, TypeOK, Actors
<1>2. \A u \in Tasks : flags'[u] = IF u = t THEN (flags[t] \ {"scheduled"}) \union {"running"}
                                   ELSE flags[u]
  BY <1>1 DEF TypeOK
<1>3. \A a \in Actors : within'[a] = IF a = t THEN <<q>> ELSE within[a]
  BY <1>1 DEF TypeOK
<1>4. \A r \in Queues : running'[r] = IF r = q THEN running[r] \union {b} ELSE running[r]
  BY <1>1 DEF TypeOK
<1>5. \A a \in Actors : within'[a] = within[a] \/ within'[a] # <<>>
  <2>1. <<q>> # <<>>
    OBVIOUS
  <2> QED BY <2>1, <1>3
<1>6. ~Due(t)'
  BY <1>2 DEF Due
<1>7. \A u \in Tasks : u # t => flags'[u] = flags[u]
  BY <1>2
<1>8. /\ Due(t)
      /\ waiting' \in [Queues -> Seq(Blocks)]
      /\ WaitingOnce' /\ WaitingAsMeant' /\ ScheduledWaits'
  BY <1>1, <1>5, <1>6, <1>7, PollTaken
<1>9. TypeOK'
  <2>1. running' \in [Queues -> SUBSET Blocks]
    BY <1>1, PollsOfTasks DEF TypeOK
  <2>2. within' \in [Actors -> Seq(Queues)]
    <3>1. <<q>> \in Seq(Queues)
      BY <1>1
    <3> QED BY <3>1, <1>1 DEF TypeOK
  <2>3. flags' \in [Tasks -> SUBSET {"scheduled", "running", "completed", "closed"}]
    BY <1>1 DEF TypeOK
  <2> QED BY <2>1, <2>2, <2>3, <1>1, <1>8 DEF TypeOK
<1>10. RunningAsMeant'
  BY <1>1, <1>4 DEF IndInv, RunningAsMeant
<1>11. BarrierAlone'
  <2> SUFFICES ASSUME NEW r \in Queues, NEW c \in running'[r], NEW d \in running'[r], c.barrier
               PROVE  c = d
    BY DEF BarrierAlone
  <2>1. CASE r # q
    BY <2>1, <1>4 DEF IndInv, BarrierAlone
  <2>2. CASE r = q /\ running[q] = {}
    <3>1. running'[r] = {b}
      BY <2>2, <1>4
    <3> QED BY <3>1
  <2>3. CASE r = q /\ ~b.barrier /\ \A e \in running[q] : ~e.barrier
    BY <2>3, <1>4
  <2> QED BY <2>1, <2>2, <2>3, <1>1 DEF MayStart
<1>12. PollEncloses'
  <2> SUFFICES ASSUME NEW u \in Tasks, within'[u] # <<>>
               PROVE  /\ home[u] # NoQueue
                      /\ PollBlock(u, u \in local) \in running'[home[u]]
                      /\ "running" \in flags'[u]
    BY <1>1 DEF PollEncloses
  <2>1. CASE u = t
    <3>1. home[t] # NoQueue /\ "running" \in flags'[t]
      BY <1>1, <1>2, ExecutorAssumption
    <3>2. b \in running'[q]
      <4>1. running'[q] = running[q] \union {b}
        BY <1>1 DEF TypeOK
      <4> QED BY <4>1
    <3> QED BY <2>1, <3>1, <3>2
  <2>2. CASE u # t
    <3>1. /\ home[u] # NoQueue
          /\ PollBlock(u, u \in local) \in running[home[u]]
          /\ "running" \in flags[u]
      BY <2>2, <1>3 DEF IndInv, PollEncloses, Actors
    <3>2. home[u] \in Queues
      BY <3>1, <1>1 DEF TypeOK
    <3> QED BY <2>2, <3>1, <3>2, <1>2, <1>4
  <2> QED BY <2>1, <2>2
<1>13. FlagsAsMeant'
  BY <1>1, <1>2, ExecutorAssumption DEF IndInv, FlagsAsMeant
<1> QED BY <1>8, <1>9, <1>10, <1>11, <1>12, <1>13 DEF IndInv

(* The block that drops the future of a task cancelled preserves it. *)
LEMMA StartCanceledKeeps ==
  ASSUME IndInv, NEW t \in Tasks, StartCanceled(t)
  PROVE  IndInv'
<1> DEFINE q == home[t]
           b == PollBlock(t, t \in local)
<1>1. /\ TypeOK
      /\ q \in Queues
      /\ MayStart(q, b)
      /\ waiting' = [waiting EXCEPT ![q] = Tail(@)]
      /\ future' = [future EXCEPT ![t] = "dropped"]
      /\ flags' = [flags EXCEPT ![t] = @ \ {"scheduled"}]
      /\ UNCHANGED <<made, running, within, wants, home, local, handle>>
  BY DEF IndInv, StartCanceled, TypeOK, actors
<1>2. \A u \in Tasks : flags'[u] = IF u = t THEN flags[t] \ {"scheduled"} ELSE flags[u]
  BY <1>1 DEF TypeOK
<1>3. ~Due(t)' /\ \A u \in Tasks : u # t => flags'[u] = flags[u]
  BY <1>2 DEF Due
<1>4. /\ waiting' \in [Queues -> Seq(Blocks)]
      /\ WaitingOnce' /\ WaitingAsMeant' /\ ScheduledWaits'
  BY <1>1, <1>3, PollTaken
<1>5. TypeOK'
  BY <1>1, <1>4 DEF TypeOK
<1>6. RunningAsMeant' /\ BarrierAlone'
  BY <1>1 DEF IndInv, RunningAsMeant, BarrierAlone
<1>7. PollEncloses'
  BY <1>1, <1>2 DEF IndInv, PollEncloses
<1>8. FlagsAsMeant'
  <2>1. \A u \in Tasks : u # t => future'[u] = future[u]
    BY <1>1 DEF TypeOK
  <2> QED BY <2>1, <1>1, <1>2, ExecutorAssumption DEF IndInv, FlagsAsMeant
<1> QED BY <1>4, <1>5, <1>6, <1>7, <1>8 DEF IndInv

(* So does a poll that ends with Pending. *)
LEMMA SuspendKeeps ==
  ASSUME IndInv, NEW t \in Tasks, Suspend(t)
  PROVE  IndInv'
<1>1. /\ EndPoll(t) /\ TypeOK
      /\ flags' = [flags EXCEPT ![t] = IF "closed" \in @ THEN @ \ {"running", "scheduled"}
                                       ELSE @ \ {"running"}]
      /\ future' = [future EXCEPT ![t] = IF "closed" \in flags[t] THEN "dropped" ELSE @]
      /\ IF "closed" \notin flags[t] /\ "scheduled" \in flags[t]
           THEN Schedule(t) ELSE UNCHANGED waiting
      /\ UNCHANGED <<made, wants, home, local, handle>>
  BY DEF IndInv, Suspend, EndPoll, TypeOK
<1>2. \A u \in Tasks : u # t => flags'[u] = flags[u] /\ future'[u] = future[u]
  BY <1>1 DEF TypeOK
<1>3. flags'[t] = IF "closed" \in flags[t] THEN flags[t] \ {"running", "scheduled"}
                  ELSE flags[t] \ {"running"}
  BY <1>1 DEF TypeOK
<1>4. /\ home[t] \in Queues /\ "running" \in flags[t]
      /\ running' \in [Queues -> SUBSET Blocks]
      /\ within' \in [Actors -> Seq(Queues)]
      /\ \A a \in Actors : within'[a] = within[a] \/ wants[a] = NoQueue
      /\ RunningAsMeant' /\ BarrierAlone' /\ PollEncloses'
  BY <1>1, <1>2, EndPollKeeps
<1>5. \/ waiting' = waiting /\ (Due(t) <=> Due(t)')
      \/ Schedule(t) /\ ~Due(t) /\ Due(t)'
  BY <1>1, <1>3, <1>4 DEF Due
<1>6. /\ waiting' \in [Queues -> Seq(Blocks)]
      /\ WaitingOnce' /\ WaitingAsMeant' /\ ScheduledWaits'
  BY <1>1, <1>2, <1>4, <1>5, ScheduleKeeps
<1>7. TypeOK'
  <2>1. flags' \in [Tasks -> SUBSET {"scheduled", "running", "completed", "closed"}]
    BY <1>1 DEF TypeOK
  <2>2. future' \in [Tasks -> {"none", "live", "dropped"}]
    BY <1>1 DEF TypeOK
  <2> QED BY <2>1, <2>2, <1>1, <1>4, <1>6 DEF TypeOK
<1>8. FlagsAsMeant'
  BY <1>1, <1>2, <1>3, <1>4, ExecutorAssumption DEF IndInv, FlagsAsMeant
<1> QED BY <1>4, <1>6, <1>7, <1>8 DEF IndInv

(* And one that ends with Ready. *)
LEMMA CompleteKeeps ==
  ASSUME IndInv, NEW t \in Tasks, Complete(t)
  PROVE  IndInv'
<1>1. /\ EndPoll(t) /\ TypeOK
      /\ flags' = [flags EXCEPT ![t] = (@ \ {"running", "scheduled"}) \union {"completed"}]
      /\ future' = [future EXCEPT ![t] = "dropped"]
      /\ UNCHANGED <<made, waiting, wants, home, local, handle>>
  BY DEF IndInv, Complete, EndPoll
<1>2. \A u \in Tasks : u # t => flags'[u] = flags[u] /\ future'[u] = future[u]
  BY <1>1 DEF TypeOK
<1>3. flags'[t] = (flags[t] \ {"running", "scheduled"}) \union {"completed"}
  BY <1>1 DEF TypeOK
<1>4. /\ home[t] \in Queues /\ "running" \in flags[t]
      /\ running' \in [Queues -> SUBSET Blocks]
      /\ within' \in [Actors -> Seq(Queues)]
      /\ \A a \in Actors : within'[a] = within[a] \/ wants[a] = NoQueue
      /\ RunningAsMeant' /\ BarrierAlone' /\ PollEncloses'
  BY <1>1, <1>2, EndPollKeeps
<1>5. ~Due(t) /\ ~Due(t)'
  BY <1>3, <1>4 DEF Due
<1>6. /\ waiting' \in [Queues -> Seq(Blocks)]
      /\ WaitingOnce' /\ WaitingAsMeant' /\ ScheduledWaits'
  BY <1>1, <1>2, <1>4, <1>5, ScheduleKeeps
<1>7. TypeOK'
  BY <1>1, <1>4, <1>6 DEF TypeOK
<1>8. FlagsAsMeant'
  BY <1>1, <1>2, <1>3, <1>4, ExecutorAssumption DEF IndInv, FlagsAsMeant
<1> QED BY <1>4, <1>6, <1>7, <1>8 DEF IndInv

(* A wake-up preserves it, whenever it comes. *)
LEMMA WakeKeeps ==
  ASSUME IndInv, NEW t \in Tasks, Wake(t)
  PROVE  IndInv'
<1>1. /\ TypeOK
      /\ future[t] = "live"
      /\ flags[t] \intersect {"scheduled", "closed", "completed"} = {}
      /\ flags' = [flags EXCEPT ![t] = @ \union {"scheduled"}]
      /\ IF Idle(t) THEN Schedule(t) ELSE UNCHANGED waiting
      /\ UNCHANGED <<made, running, within, wants, home, local, future, handle>>
  BY DEF IndInv, Wake, actors
<1>2. \A u \in Tasks : flags'[u] = IF u = t THEN flags[u] \union {"scheduled"} ELSE flags[u]
  BY <1>1 DEF TypeOK
<1>3. home[t] \in Queues
  BY <1>1 DEF IndInv, FlagsAsMeant, TypeOK
<1>4. \/ waiting' = waiting /\ (Due(t) <=> Due(t)')
      \/ Schedule(t) /\ ~Due(t) /\ Due(t)'
  <2>1. CASE flags[t] = {}
    BY <2>1, <1>1, <1>2 DEF Due, Idle
  <2>2. CASE flags[t] # {}
    <3>1. "running" \in flags[t]
      BY <2>2, <1>1 DEF TypeOK
    <3> QED BY <2>2, <3>1, <1>1, <1>2 DEF Due, Idle
  <2> QED BY <2>1, <2>2
<1>5. \A u \in Tasks : u # t => flags'[u] = flags[u]
  BY <1>2
<1>6. /\ waiting' \in [Queues -> Seq(Blocks)]
      /\ WaitingOnce' /\ WaitingAsMeant' /\ ScheduledWaits'
  BY <1>1, <1>3, <1>4, <1>5, ScheduleKeeps
<1>7. TypeOK'
  BY <1>1, <1>6 DEF TypeOK
<1>8. RunningAsMeant' /\ BarrierAlone' /\ PollEncloses'
  BY <1>1, <1>2 DEF IndInv, RunningAsMeant, BarrierAlone, PollEncloses
<1>9. FlagsAsMeant'
  BY <1>1, <1>2, <1>3, ExecutorAssumption DEF IndInv, FlagsAsMeant
<1> QED BY <1>6, <1>7, <1>8, <1>9 DEF IndInv

(* The drop of a Task preserves it, whatever its task is doing. *)
LEMMA DropTaskKeeps ==
  ASSUME IndInv, NEW t \in Tasks, DropTask(t)
  PROVE  IndInv'
<1>1. /\ TypeOK
      /\ handle[t] = "held"
      /\ handle' = [handle EXCEPT ![t] = "dropped"]
      /\ flags' = [flags EXCEPT ![t] =
                     IF "completed" \in @ THEN @
                     ELSE @ \union {"closed"} \union (IF Idle(t) THEN {"scheduled"} ELSE {})]
      /\ IF Idle(t) THEN Schedule(t) ELSE UNCHANGED waiting
      /\ UNCHANGED <<made, running, within, wants, home, local, future>>
  BY DEF IndInv, DropTask, actors
<1>2. \A u \in Tasks : u # t => flags'[u] = flags[u] /\ handle'[u] = handle[u]
  BY <1>1 DEF TypeOK
<1>3. /\ Idle(t) => flags'[t] = {"closed", "scheduled"}
      /\ ~Idle(t) => flags'[t] = IF "completed" \in flags[t] THEN flags[t]
                                 ELSE flags[t] \union {"closed"}
  BY <1>1 DEF TypeOK, Idle
<1>4. home[t] \in Queues
  BY <1>1 DEF IndInv, FlagsAsMeant, TypeOK
<1>5. \/ waiting' = waiting /\ (Due(t) <=> Due(t)')
      \/ Schedule(t) /\ ~Due(t) /\ Due(t)'
  BY <1>1, <1>3 DEF Due, Idle
<1>6. \A u \in Tasks : u # t => flags'[u] = flags[u]
  BY <1>2
<1>7. /\ waiting' \in [Queues -> Seq(Blocks)]
      /\ WaitingOnce' /\ WaitingAsMeant' /\ ScheduledWaits'
  BY <1>1, <1>4, <1>5, <1>6, ScheduleKeeps
<1>8. TypeOK'
  <2>1. flags' \in [Tasks -> SUBSET {"scheduled", "running", "completed", "closed"}]
    BY <1>1 DEF TypeOK
  <2> QED BY <2>1, <1>1, <1>7 DEF TypeOK
<1>9. \A u \in Tasks : "running" \in flags[u] => "running" \in flags'[u]
  BY <1>2, <1>3 DEF Idle
<1>10. RunningAsMeant' /\ BarrierAlone' /\ PollEncloses'
  BY <1>1, <1>9 DEF IndInv, RunningAsMeant, BarrierAlone, PollEncloses
<1>11. FlagsAsMeant'
  BY <1>1, <1>2, <1>3, <1>4, ExecutorAssumption DEF IndInv, FlagsAsMeant, Idle
<1> QED BY <1>7, <1>8, <1>10, <1>11 DEF IndInv

(* To detach a Task, or to await its result, may change nothing else. *)
LEMMA LetGoKeeps ==
  ASSUME IndInv, NEW t \in Tasks, Detach(t) \/ TaskPoll(t), UNCHANGED <<waiting, flags>>
  PROVE  IndInv'
<1>1. /\ TypeOK
      /\ handle[t] = "held"
      /\ handle' = [handle EXCEPT ![t] = "detached"] \/ handle' = [handle EXCEPT ![t] = "awaited"]
      /\ UNCHANGED <<made, waiting, running, within, wants, home, local, flags, future>>
  BY DEF IndInv, Detach, TaskPoll, blocks, actors
<1>2. TypeOK'
  BY <1>1 DEF TypeOK
<1>3. FlagsAsMeant'
  <2>1. \A u \in Tasks : u # t => handle'[u] = handle[u]
    BY <1>1 DEF TypeOK
  <2>2. handle'[t] # "dropped" /\ home[t] # NoQueue
    BY <1>1 DEF TypeOK, IndInv, FlagsAsMeant
  <2> QED BY <2>1, <2>2, <1>1 DEF IndInv, FlagsAsMeant
<1>4. WaitingOnce' /\ WaitingAsMeant' /\ ScheduledWaits'
  BY <1>1 DEF IndInv, WaitingOnce, WaitingAsMeant, ScheduledWaits, CallerBlocked, PollDue
<1>5. RunningAsMeant' /\ BarrierAlone' /\ PollEncloses'
  BY <1>1 DEF IndInv, RunningAsMeant, BarrierAlone, PollEncloses
<1> QED BY <1>2, <1>3, <1>4, <1>5 DEF IndInv

(* A task that nobody can wake is due once more. *)
LEMMA ForsakeKeeps ==
  ASSUME IndInv, NEW t \in Tasks, Detach(t) \/ DropWakers(t), Forsake(t)
  PROVE  IndInv'
<1>1. /\ TypeOK
      /\ handle[t] \in {"held", "detached"}
      /\ handle' = [handle EXCEPT ![t] = "detached"]
      /\ flags[t] = {}
      /\ flags' = [flags EXCEPT ![t] = {"scheduled", "closed"}]
      /\ Schedule(t)
      /\ UNCHANGED <<made, running, within, wants, home, local, future>>
  BY DEF IndInv, TypeOK, Detach, DropWakers, Forsake, Idle, actors
<1>2. /\ \A u \in Tasks : u # t => flags'[u] = flags[u] /\ handle'[u] = handle[u]
      /\ flags'[t] = {"scheduled", "closed"}
      /\ handle'[t] = "detached"
  BY <1>1 DEF TypeOK
<1>3. home[t] \in Queues
  BY <1>1 DEF IndInv, FlagsAsMeant, TypeOK
<1>4. ~Due(t) /\ Due(t)'
  BY <1>1, <1>2 DEF Due
<1>5. \A u \in Tasks : u # t => flags'[u] = flags[u]
  BY <1>2
<1>6. /\ waiting' \in [Queues -> Seq(Blocks)]
      /\ WaitingOnce' /\ WaitingAsMeant' /\ ScheduledWaits'
  BY <1>1, <1>3, <1>4, <1>5, ScheduleKeeps
<1>7. TypeOK'
  BY <1>1, <1>6 DEF TypeOK
<1>8. RunningAsMeant' /\ BarrierAlone' /\ PollEncloses'
  BY <1>1, <1>2 DEF IndInv, RunningAsMeant, BarrierAlone, PollEncloses
<1>9. FlagsAsMeant'
  BY <1>1, <1>2, <1>3, ExecutorAssumption DEF IndInv, FlagsAsMeant
<1> QED BY <1>6, <1>7, <1>8, <1>9 DEF IndInv

-----------------------------------------------------------------------------
(* Every step of an executor keeps its blocks and its tasks as meant. *)
THEOREM Invariance == Spec => []IndInv
<1>1. Init => IndInv
  BY InitInv
<1>2. IndInv /\ [Next]_vars => IndInv'
  <2> SUFFICES ASSUME IndInv, [Next]_vars PROVE IndInv'
    OBVIOUS
  <2>1. ASSUME NEW a \in Threads, NEW q \in Queues, Background(a, q)
        PROVE  IndInv'
    <3>1. a \in Actors /\ made' \subseteq Queues
      BY <2>1 DEF Background, Actors, IndInv, TypeOK
    <3> QED BY <2>1, <3>1, BarrierSyncKeeps DEF Background
  <2>2. ASSUME NEW a \in Actors, NEW q \in Queues, Lock(a, q)
        PROVE  IndInv'
    <3>1. made' \subseteq Queues
      BY <2>2 DEF Lock, IndInv, TypeOK
    <3> QED BY <2>2, <3>1, BarrierSyncKeeps DEF Lock
  <2>3. ASSUME NEW a \in Actors, NEW q \in Queues, Return(a, q)
        PROVE  IndInv'
    BY <2>3, ReturnKeeps
  <2>4. ASSUME NEW q \in Queues, StartSync(q)
        PROVE  IndInv'
    BY <2>4, StartSyncKeeps
  <2>5. ASSUME NEW t \in Tasks, Spawn(t) \/ SpawnLocal(t)
        PROVE  IndInv'
    BY <2>5, SpawnKeeps DEF Spawn, SpawnLocal
  <2>6. ASSUME NEW t \in Tasks, StartPoll(t) \/ StartCanceled(t)
        PROVE  IndInv'
    BY <2>6, StartPollKeeps, StartCanceledKeeps
  <2>7. ASSUME NEW t \in Tasks, Suspend(t) \/ Complete(t) \/ Wake(t)
        PROVE  IndInv'
    BY <2>7, SuspendKeeps, CompleteKeeps, WakeKeeps
  <2>8. ASSUME NEW t \in Tasks, DropTask(t) \/ Detach(t) \/ DropWakers(t) \/ TaskPoll(t)
        PROVE  IndInv'
    <3>1. TaskPoll(t) => UNCHANGED <<waiting, flags>>
      BY DEF TaskPoll, blocks
    <3> QED BY <2>8, <3>1, DropTaskKeeps, LetGoKeeps, ForsakeKeeps DEF Detach, DropWakers
  <2>9. CASE UNCHANGED vars
    BY <2>9 DEF vars, IndInv, TypeOK, WaitingOnce, WaitingAsMeant, ScheduledWaits,
                RunningAsMeant, BarrierAlone, PollEncloses, FlagsAsMeant, CallerBlocked, PollDue
  <2> QED BY <2>1, <2>2, <2>3, <2>4, <2>5, <2>6, <2>7, <2>8, <2>9 DEF Next
<1> QED BY <1>1, <1>2, PTL DEF Spec

(* Every variable of an executor keeps its type. *)
THEOREM TypeCorrect == Spec => []TypeOK
<1>1. IndInv => TypeOK
  BY DEF IndInv
<1> QED BY <1>1, Invariance, PTL

(* No block runs beside one that touches values which are not Send, on a   *)
(* concurrent queue either: every such block is a barrier.                 *)
THEOREM AccessesExclusive == Spec => []AccessExclusive
<1>1. IndInv => AccessExclusive
  <2> SUFFICES ASSUME IndInv, NEW q \in Queues,
                      NEW b \in running[q], TouchesValues(b)
               PROVE  \A c, d \in running[q] : c = d
    BY DEF AccessExclusive
  <2>1. b.barrier
    <3>1. CASE \E a \in Actors : b = SyncBlock(a)
      BY <3>1, SyncBlocks
    <3>2. CASE \E t \in Tasks : b = PollBlock(t, t \in local)
      <4>1. PICK t \in Tasks : b = PollBlock(t, t \in local)
        BY <3>2
      <4>2. b.kind = "poll" /\ b.by = t /\ (t \in local <=> b.barrier)
        BY <4>1, PollsOfTasks
      <4> QED BY <4>2 DEF TouchesValues
    <3> QED BY <3>1, <3>2 DEF IndInv, RunningAsMeant
  <2> QED BY <2>1 DEF IndInv, BarrierAlone
<1> QED BY <1>1, Invariance, PTL

(* No wake-up is lost and none counted twice: a task that is scheduled and *)
(* not being polled has exactly one poll waiting, and any other has none.  *)
THEOREM WakesKept == Spec => []WakeKept
<1>1. IndInv => WakeKept
  <2> SUFFICES ASSUME IndInv, NEW t \in Tasks, home[t] # NoQueue
               PROVE  IF "scheduled" \in flags[t] /\ "running" \notin flags[t]
                        THEN \E i \in Runnables(t) : Runnables(t) = {i}
                        ELSE Runnables(t) = {}
    BY DEF WakeKept
  <2> DEFINE s == waiting[home[t]]
             b == PollBlock(t, t \in local)
  <2>1. home[t] \in Queues
    BY DEF IndInv, TypeOK
  <2>2. b.by = t /\ b.kind = "poll"
    BY PollsOfTasks
  <2>3. \A i \in DOMAIN s : s[i].by = t /\ s[i].kind = "poll" => s[i] = b
    <3> SUFFICES ASSUME NEW i \in DOMAIN s, s[i].by = t, s[i].kind = "poll"
                 PROVE  s[i] = b
      OBVIOUS
    <3>1. \/ \E a \in Actors : s[i] = SyncBlock(a)
          \/ \E u \in Tasks : s[i] = PollBlock(u, u \in local)
      BY <2>1 DEF IndInv, WaitingAsMeant, Listed
    <3>2. PICK u \in Tasks : s[i] = PollBlock(u, u \in local)
      BY <3>1, SyncBlocks
    <3>3. u = t
      BY <3>2, PollsOfTasks
    <3> QED BY <3>2, <3>3
  <2>4. Runnables(t) = {i \in DOMAIN s : s[i] = b}
    BY <2>2, <2>3 DEF Runnables
  <2>5. \A i, j \in Runnables(t) : i = j
    BY <2>1, <2>4 DEF IndInv, WaitingOnce, Unrepeated
  <2>6. Runnables(t) # {} => PollDue(t, home[t])
    BY <2>1, <2>4, WaitingIsDue DEF Listed
  <2>7. "scheduled" \in flags[t] /\ "running" \notin flags[t] => Runnables(t) # {}
    BY <2>4 DEF IndInv, ScheduledWaits, Listed
  <2> QED BY <2>5, <2>6, <2>7 DEF PollDue
<1> QED BY <1>1, Invariance, PTL

(* The future of a local task is dropped with nothing else running on its  *)
(* queue: when its poll ends, or in the block that follows its cancellation. *)
THEOREM LocalsDroppedAlone == Spec => LocalDroppedAlone
<1> DEFINE Alone(t) ==
             future[t] = "live" /\ future'[t] = "dropped" =>
               \A b \in running[home[t]] : b.by = t /\ b.kind = "poll"
<1>1. IndInv /\ [Next]_vars => [\A t \in local : Alone(t)]_vars
  <2> SUFFICES ASSUME IndInv, [Next]_vars, NEW t \in local,
                      future[t] = "live", future'[t] = "dropped"
               PROVE  \A b \in running[home[t]] : b.by = t /\ b.kind = "poll"
    OBVIOUS
  <2> DEFINE p == PollBlock(t, t \in local)
  <2>1. /\ t \in Tasks /\ future \in [Tasks -> {"none", "live", "dropped"}]
        /\ p.barrier /\ p.by = t /\ p.kind = "poll"
    BY PollsOfTasks DEF IndInv, TypeOK
  <2>2. StartCanceled(t) \/ EndPoll(t)
    <3>1. ASSUME NEW u \in Tasks, StartCanceled(u) \/ Suspend(u) \/ Complete(u)
          PROVE  StartCanceled(t) \/ EndPoll(t)
      <4>1. u = t
        BY <3>1, <2>1 DEF StartCanceled, Suspend, Complete
      <4> QED BY <3>1, <4>1 DEF Suspend, Complete
    <3>2. ASSUME NEW u \in Tasks, Spawn(u) \/ SpawnLocal(u)
          PROVE  FALSE
      <4>1. PICK q \in Queues : future' = [future EXCEPT ![u] = "live"]
        BY <3>2 DEF Spawn, SpawnLocal, SpawnTask
      <4> QED BY <4>1, <2>1
    <3>3. ASSUME NEW u \in Tasks, StartPoll(u) \/ Wake(u) \/ DropTask(u) \/ Detach(u)
                                     \/ DropWakers(u) \/ TaskPoll(u)
          PROVE  FALSE
      BY <3>3 DEF StartPoll, Wake, DropTask, Detach, DropWakers, TaskPoll
    <3>4. ASSUME NEW a \in Actors, NEW q \in Queues,
                 Background(a, q) \/ Lock(a, q) \/ Return(a, q) \/ StartSync(q)
          PROVE  FALSE
      BY <3>4 DEF Background, Lock, BarrierSync, Return, StartSync, tasks
    <3>5. CASE UNCHANGED vars
      BY <3>5 DEF vars
    <3>6. CASE \E a \in Threads, q \in Queues : Background(a, q)
      BY <3>6, <3>4 DEF Actors
    <3>7. CASE \E a \in Actors, q \in Queues : Lock(a, q) \/ Return(a, q)
      BY <3>7, <3>4
    <3>8. CASE \E q \in Queues : StartSync(q)
      BY <3>8, <3>4, <2>1 DEF Actors
    <3> QED BY <3>1, <3>2, <3>3, <3>5, <3>6, <3>7, <3>8 DEF Next
  <2>3. CASE StartCanceled(t)
    BY <2>3, <2>1 DEF StartCanceled, MayStart
  <2>4. CASE EndPoll(t)
    <3>1. within[t] # <<>> /\ home[t] \in Queues
      BY <2>4, <2>1 DEF EndPoll, IndInv, TypeOK
    <3>2. p \in running[home[t]]
      BY <3>1, <2>1 DEF IndInv, PollEncloses
    <3>3. \A b \in running[home[t]] : p = b
      BY <3>1, <3>2, <2>1 DEF IndInv, BarrierAlone
    <3> QED BY <3>3, <2>1
  <2> QED BY <2>2, <2>3, <2>4
<1> QED BY <1>1, Invariance, PTL DEF Spec, LocalDroppedAlone

(* A task whose Task was dropped is not polled again: a poll that starts   *)
(* is of a task scheduled, which is neither closed nor completed.          *)
THEOREM DroppedStopped == Spec => DroppedNotPolled
<1> DEFINE Stopped(t) ==
             handle[t] = "dropped" /\ "running" \notin flags[t] => "running" \notin flags'[t]
<1>1. IndInv /\ [Next]_vars => [\A t \in Tasks : Stopped(t)]_vars
  <2> SUFFICES ASSUME IndInv, [Next]_vars, NEW t \in Tasks,
                      handle[t] = "dropped", "running" \notin flags[t]
               PROVE  "running" \notin flags'[t]
    OBVIOUS
  <2>1. flags \in [Tasks -> SUBSET {"scheduled", "running", "completed", "closed"}]
    BY DEF IndInv, TypeOK
  <2>2. ASSUME NEW u \in Tasks, StartPoll(u)
        PROVE  "running" \notin flags'[t]
    <3>2. PollDue(u, home[u])
      BY <2>2, RunIsDue
    <3>3. u # t
      BY <2>2, <3>2 DEF StartPoll, PollDue, IndInv, FlagsAsMeant
    <3> QED BY <2>2, <3>3, <2>1 DEF StartPoll
  <2>3. ASSUME NEW u \in Tasks, Spawn(u) \/ SpawnLocal(u)
        PROVE  "running" \notin flags'[t]
    <3>1. flags' = [flags EXCEPT ![u] = {"scheduled"}]
      BY <2>3 DEF Spawn, SpawnLocal, SpawnTask
    <3> QED BY <3>1, <2>1
  <2>4. ASSUME NEW u \in Tasks,
               StartCanceled(u) \/ Suspend(u) \/ Complete(u) \/ Wake(u) \/ DropTask(u)
        PROVE  "running" \notin flags'[t]
    <3> DEFINE Others == flags[t] \union {"scheduled", "completed", "closed"}
    <3>1. CASE StartCanceled(u)
      <4>1. flags'[t] \subseteq Others
        BY <3>1, <2>1 DEF StartCanceled
      <4> QED BY <4>1
    <3>2. CASE Suspend(u)
      <4>1. flags'[t] \subseteq Others
        BY <3>2, <2>1 DEF Suspend
      <4> QED BY <4>1
    <3>3. CASE Complete(u)
      <4>1. flags'[t] \subseteq Others
        BY <3>3, <2>1 DEF Complete
      <4> QED BY <4>1
    <3>4. CASE Wake(u)
      <4>1. flags'[t] \subseteq Others
        BY <3>4, <2>1 DEF Wake
      <4> QED BY <4>1
    <3>5. CASE DropTask(u)
      <4>1. flags'[t] \subseteq Others
        BY <3>5, <2>1 DEF DropTask
      <4> QED BY <4>1
    <3> QED BY <2>4, <3>1, <3>2, <3>3, <3>4, <3>5
  <2>5. ASSUME NEW u \in Tasks, Detach(u) \/ DropWakers(u) \/ TaskPoll(u)
        PROVE  "running" \notin flags'[t]
    <3>1. flags' = flags \/ flags' = [flags EXCEPT ![u] = {"scheduled", "closed"}]
      BY <2>5 DEF Detach, DropWakers, Forsake, TaskPoll
    <3> QED BY <3>1, <2>1
  <2>6. CASE \E a \in Actors, q \in Queues :
               Background(a, q) \/ Lock(a, q) \/ Return(a, q) \/ StartSync(q)
    BY <2>6 DEF Background, Lock, BarrierSync, Return, StartSync, tasks
  <2>7. CASE UNCHANGED vars
    BY <2>7 DEF vars
  <2>8. CASE \E a \in Threads, q \in Queues : Background(a, q)
    BY <2>8, <2>6 DEF Actors
  <2>9. CASE \E a \in Actors, q \in Queues : Lock(a, q) \/ Return(a, q)
    BY <2>9, <2>6
  <2>10. CASE \E q \in Queues : StartSync(q)
    BY <2>10, <2>6 DEF Actors
  <2> QED BY <2>2, <2>3, <2>4, <2>5, <2>7, <2>8, <2>9, <2>10 DEF Next
<1> QED BY <1>1, Invariance, PTL DEF Spec, DroppedNotPolled

-----------------------------------------------------------------------------
(* What becomes of the futures.                                            *)

(* A future is dropped when its task completes or is closed, a task closed *)
(* before that is still to run once more, and only one whose future is     *)
(* alive is scheduled.  Nobody holds the Task of one that is closed.       *)
FutureOf(t) ==
  /\ handle[t] # "none" => future[t] # "none"
  /\ "scheduled" \in flags[t] \/ "running" \in flags[t] => future[t] = "live"
  /\ "completed" \in flags[t] => future[t] = "dropped"
  /\ "closed" \in flags[t] => handle[t] \in {"dropped", "detached"}
  /\ "closed" \in flags[t] /\ future[t] = "live" =>
       "scheduled" \in flags[t] \/ "running" \in flags[t]
  /\ future[t] = "dropped" => "completed" \in flags[t] \/ "closed" \in flags[t]

FuturesAsMeant == \A t \in Tasks : FutureOf(t)

(* A step of the task t. *)
LEMMA FutureStep ==
  ASSUME IndInv, NEW t \in Tasks, FutureOf(t),
         \/ Spawn(t) \/ SpawnLocal(t) \/ StartPoll(t) \/ StartCanceled(t)
         \/ Suspend(t) \/ Complete(t) \/ Wake(t)
         \/ DropTask(t) \/ Detach(t) \/ DropWakers(t) \/ TaskPoll(t)
  PROVE  FutureOf(t)'
<1>1. /\ flags \in [Tasks -> SUBSET {"scheduled", "running", "completed", "closed"}]
      /\ future \in [Tasks -> {"none", "live", "dropped"}]
      /\ handle \in [Tasks -> {"none", "held", "awaited", "detached", "dropped"}]
  BY DEF IndInv, TypeOK
<1>2. CASE Spawn(t) \/ SpawnLocal(t)
  <2>1. flags'[t] = {"scheduled"} /\ future'[t] = "live"
    BY <1>1, <1>2 DEF Spawn, SpawnLocal, SpawnTask
  <2> QED BY <2>1 DEF FutureOf
<1>3. CASE StartPoll(t)
  <2>1. /\ "closed" \notin flags[t]
        /\ flags'[t] = (flags[t] \ {"scheduled"}) \union {"running"}
        /\ UNCHANGED <<future, handle>>
    BY <1>1, <1>3 DEF StartPoll
  <2>2. "scheduled" \in flags[t]
    BY <1>3, RunIsDue DEF PollDue
  <2> QED BY <2>1, <2>2 DEF FutureOf
<1>4. CASE StartCanceled(t)
  <2>1. /\ "closed" \in flags[t] /\ flags'[t] = flags[t] \ {"scheduled"}
        /\ future'[t] = "dropped" /\ UNCHANGED handle
    BY <1>1, <1>4 DEF StartCanceled
  <2>2. "running" \notin flags[t]
    BY <1>4, RunIsDue DEF PollDue
  <2> QED BY <2>1, <2>2 DEF FutureOf
<1>5. CASE Suspend(t)
  <2>1. UNCHANGED handle
    BY <1>5 DEF Suspend, EndPoll
  <2>2. CASE "closed" \in flags[t]
    <3>1. flags'[t] = flags[t] \ {"running", "scheduled"} /\ future'[t] = "dropped"
      BY <1>1, <1>5, <2>2 DEF Suspend
    <3> QED BY <2>1, <2>2, <3>1 DEF FutureOf
  <2>3. CASE "closed" \notin flags[t]
    <3>1. flags'[t] = flags[t] \ {"running"} /\ UNCHANGED future
      BY <1>1, <1>5, <2>3 DEF Suspend
    <3> QED BY <2>1, <2>3, <3>1 DEF FutureOf
  <2> QED BY <2>2, <2>3
<1>6. CASE Complete(t)
  <2>1. /\ flags'[t] = (flags[t] \ {"running", "scheduled"}) \union {"completed"}
        /\ future'[t] = "dropped" /\ UNCHANGED handle
    BY <1>1, <1>6 DEF Complete, EndPoll
  <2> QED BY <2>1 DEF FutureOf
<1>7. CASE Wake(t)
  <2>1. /\ flags'[t] = flags[t] \union {"scheduled"}
        /\ future[t] = "live" /\ UNCHANGED <<future, handle>>
    BY <1>1, <1>7 DEF Wake
  <2> QED BY <2>1 DEF FutureOf
<1>8. CASE DropTask(t)
  <2>1. handle'[t] = "dropped" /\ UNCHANGED future
    BY <1>1, <1>8 DEF DropTask
  <2>2. CASE "completed" \in flags[t]
    <3>1. flags'[t] = flags[t]
      BY <1>1, <1>8, <2>2 DEF DropTask
    <3> QED BY <2>1, <2>2, <3>1 DEF FutureOf
  <2>3. CASE flags[t] = {}
    <3>1. flags'[t] = {"closed", "scheduled"}
      BY <1>1, <1>8, <2>3 DEF DropTask, Idle
    <3>2. future[t] = "live"
      BY <1>1, <1>8, <2>3 DEF DropTask, FutureOf
    <3> QED BY <2>1, <3>1, <3>2 DEF FutureOf
  <2>4. CASE "completed" \notin flags[t] /\ flags[t] # {}
    <3>1. handle[t] = "held" /\ flags'[t] = flags[t] \union {"closed"}
      BY <1>1, <1>8, <2>4 DEF DropTask, Idle
    <3>2. "scheduled" \in flags[t] \/ "running" \in flags[t]
      BY <1>1, <2>4, <3>1 DEF FutureOf
    <3> QED BY <2>1, <3>1, <3>2 DEF FutureOf
  <2> QED BY <2>2, <2>3, <2>4
<1>9. CASE (Detach(t) \/ TaskPoll(t)) /\ UNCHANGED flags
  <2>1. handle[t] = "held" /\ UNCHANGED future
    BY <1>9 DEF Detach, TaskPoll
  <2> QED BY <2>1, <1>9 DEF FutureOf
<1>10. CASE (Detach(t) \/ DropWakers(t)) /\ Forsake(t)
  <2>1. /\ handle[t] \in {"held", "detached"} /\ handle'[t] = "detached"
        /\ flags[t] = {} /\ flags'[t] = {"scheduled", "closed"}
        /\ UNCHANGED future
    BY <1>1, <1>10 DEF Detach, DropWakers, Forsake, Idle
  <2>2. future[t] = "live"
    BY <1>1, <2>1 DEF FutureOf
  <2> QED BY <2>1, <2>2 DEF FutureOf
<1>11. CASE Detach(t) \/ DropWakers(t) \/ TaskPoll(t)
  BY <1>9, <1>10, <1>11 DEF Detach, DropWakers, TaskPoll
<1> QED BY <1>2, <1>3, <1>4, <1>5, <1>6, <1>7, <1>8, <1>11

LEMMA FuturesStep ==
  ASSUME IndInv, FuturesAsMeant, [Next]_vars
  PROVE  FuturesAsMeant'
<1> SUFFICES ASSUME NEW t \in Tasks PROVE FutureOf(t)'
  BY DEF FuturesAsMeant
<1>1. FutureOf(t)
  BY DEF FuturesAsMeant
<1>2. ASSUME UNCHANGED <<flags, future, handle>>
      PROVE  FutureOf(t)'
  BY <1>1, <1>2 DEF FutureOf
<1>3. ASSUME NEW u \in Tasks,
             \/ Spawn(u) \/ SpawnLocal(u) \/ StartPoll(u) \/ StartCanceled(u)
             \/ Suspend(u) \/ Complete(u) \/ Wake(u)
             \/ DropTask(u) \/ Detach(u) \/ DropWakers(u) \/ TaskPoll(u)
      PROVE  FutureOf(t)'
  <2>1. CASE u = t
    BY <1>1, <1>3, <2>1, FutureStep
  <2>2. CASE u # t
    <3> DEFINE Kept == flags'[t] = flags[t] /\ future'[t] = future[t] /\ handle'[t] = handle[t]
    <3>1. TypeOK
      BY DEF IndInv
    <3>2. ASSUME Spawn(u) \/ SpawnLocal(u)
          PROVE  Kept
      <4>1. /\ flags' = [flags EXCEPT ![u] = {"scheduled"}]
            /\ future' = [future EXCEPT ![u] = "live"]
            /\ handle' = [handle EXCEPT ![u] = "held"]
        BY <3>2 DEF Spawn, SpawnLocal, SpawnTask
      <4> QED BY <4>1, <3>1, <2>2 DEF TypeOK
    <3>3. ASSUME StartPoll(u) \/ StartCanceled(u)
          PROVE  Kept
      BY <3>3, <3>1, <2>2 DEF StartPoll, StartCanceled, TypeOK
    <3>4. ASSUME Suspend(u)
          PROVE  Kept
      BY <3>4, <3>1, <2>2 DEF Suspend, EndPoll, TypeOK
    <3>5. ASSUME Complete(u)
          PROVE  Kept
      BY <3>5, <3>1, <2>2 DEF Complete, EndPoll, TypeOK
    <3>6. ASSUME Wake(u)
          PROVE  Kept
      BY <3>6, <3>1, <2>2 DEF Wake, TypeOK
    <3>7. ASSUME DropTask(u)
          PROVE  Kept
      BY <3>7, <3>1, <2>2 DEF DropTask, TypeOK
    <3>8. ASSUME Detach(u) \/ DropWakers(u) \/ TaskPoll(u)
          PROVE  Kept
      BY <3>8, <3>1, <2>2 DEF Detach, DropWakers, Forsake, TaskPoll, TypeOK
    <3>9. Kept
      BY <1>3, <3>2, <3>3, <3>4, <3>5, <3>6, <3>7, <3>8
    <3> QED BY <1>1, <3>9 DEF FutureOf
  <2> QED BY <2>1, <2>2
<1>4. ASSUME NEW a \in Actors, NEW q \in Queues, Background(a, q) \/ Lock(a, q) \/ Return(a, q)
      PROVE  UNCHANGED <<flags, future, handle>>
  BY <1>4 DEF Background, Lock, BarrierSync, Return, tasks
<1>5. ASSUME NEW q \in Queues, StartSync(q)
      PROVE  UNCHANGED <<flags, future, handle>>
  BY <1>5 DEF StartSync, tasks
<1>6. UNCHANGED vars => UNCHANGED <<flags, future, handle>>
  BY DEF vars
<1> QED BY <1>2, <1>3, <1>4, <1>5, <1>6 DEF Next, Actors

LEMMA FuturesHold == Spec => []FuturesAsMeant
<1>1. Init => FuturesAsMeant
  BY DEF Init, FuturesAsMeant, FutureOf
<1>2. IndInv /\ FuturesAsMeant /\ [Next]_vars => FuturesAsMeant'
  BY FuturesStep
<1> QED BY <1>1, <1>2, Invariance, PTL DEF Spec

(* Of a task that was closed, because its Task was dropped, or was         *)
(* detached and its wakers are gone, the future is dropped unless it is    *)
(* being polled or waits for its turn in its queue: none is forgotten.     *)
(* And a Task that is held keeps the future of its task, which only        *)
(* completing can take away.                                               *)
DroppedAttended ==
  \A t \in Tasks :
    /\ (handle[t] = "dropped" \/ "closed" \in flags[t]) /\ future[t] = "live" =>
         "running" \in flags[t] \/ Runnables(t) # {}
    /\ handle[t] = "held" /\ future[t] = "dropped" => "completed" \in flags[t]

THEOREM DroppedNotForgotten == Spec => []DroppedAttended
<1>1. IndInv /\ FuturesAsMeant => DroppedAttended
  <2> SUFFICES ASSUME IndInv, FuturesAsMeant, NEW t \in Tasks
               PROVE  /\ (handle[t] = "dropped" \/ "closed" \in flags[t]) /\ future[t] = "live" =>
                           "running" \in flags[t] \/ Runnables(t) # {}
                      /\ handle[t] = "held" /\ future[t] = "dropped" => "completed" \in flags[t]
    BY DEF DroppedAttended
  <2>1. FutureOf(t)
    BY DEF FuturesAsMeant
  <2>2. ASSUME handle[t] = "dropped" \/ "closed" \in flags[t],
               future[t] = "live", "running" \notin flags[t]
        PROVE  Runnables(t) # {}
    <3>1. "scheduled" \in flags[t]
      BY <2>1, <2>2 DEF FutureOf, IndInv, FlagsAsMeant
    <3>2. PollBlock(t, t \in local) \in Listed(waiting[home[t]])
      BY <2>2, <3>1 DEF IndInv, ScheduledWaits
    <3>3. PICK i \in DOMAIN waiting[home[t]] :
            waiting[home[t]][i] = PollBlock(t, t \in local)
      BY <3>2 DEF Listed
    <3> QED BY <3>3, PollsOfTasks DEF Runnables
  <2> QED BY <2>1, <2>2 DEF FutureOf
<1> QED BY <1>1, FuturesHold, Invariance, PTL

(* A future is polled, and is dropped, only while it is alive: it is never *)
(* polled after it was dropped, and never dropped twice, whatever wakers,  *)
(* cancellations and polls come to it in which order.                      *)
UsedAlive ==
  [][\A t \in Tasks : StartPoll(t) \/ StartCanceled(t) \/ EndPoll(t) => future[t] = "live"]_vars

THEOREM FuturesUsedAlive == Spec => UsedAlive
<1>1. ASSUME IndInv, FuturesAsMeant, NEW t \in Tasks, StartPoll(t) \/ StartCanceled(t) \/ EndPoll(t)
      PROVE  future[t] = "live"
  <2>1. "scheduled" \in flags[t] \/ "running" \in flags[t] => future[t] = "live"
    BY <1>1 DEF FuturesAsMeant, FutureOf
  <2>2. CASE StartPoll(t) \/ StartCanceled(t)
    <3>1. "scheduled" \in flags[t]
      BY <1>1, <2>2, RunIsDue DEF PollDue
    <3> QED BY <2>1, <3>1
  <2>3. CASE EndPoll(t)
    <3>1. within[t] # <<>>
      BY <1>1, <2>3 DEF EndPoll, IndInv, TypeOK
    <3>2. "running" \in flags[t]
      BY <1>1, <3>1 DEF IndInv, PollEncloses
    <3> QED BY <2>1, <3>2
  <2> QED BY <1>1, <2>2, <2>3
<1>2. IndInv /\ FuturesAsMeant =>
        [\A t \in Tasks : StartPoll(t) \/ StartCanceled(t) \/ EndPoll(t) => future[t] = "live"]_vars
  BY <1>1
<1> QED BY <1>2, FuturesHold, Invariance, PTL DEF UsedAlive

-----------------------------------------------------------------------------
(* Calls of lock that wait for one another.                                *)

(* Code enters a closure by a call of lock it may make, and so it is with  *)
(* the one it waits for.                                                   *)
NestedAsMeant ==
  \A a \in Actors :
    LET w == within[a]
    IN  /\ \A i \in 1..(Len(w) - 1) : <<w[i], w[i + 1]>> \in Nesting
        /\ wants[a] # NoQueue /\ w # <<>> => <<w[Len(w)], wants[a]>> \in Nesting

(* A block that runs is one that its code is in. *)
BlocksEnclose ==
  \A q \in Queues : \A b \in running[q] : q \in Listed(within[b.by])

(* A call of lock that waits has a block that waits. *)
WantsWait ==
  \A a \in Actors :
    wants[a] # NoQueue => SyncBlock(a) \in Listed(waiting[wants[a]])

LockInv ==
  /\ NestedAsMeant
  /\ BlocksEnclose
  /\ WantsWait

(* The code of an actor that enters a closure is in one more. *)
LEMMA Entered ==
  ASSUME NEW w \in Seq(Queues), NEW q \in Queues
  PROVE  /\ Append(w, q) \in Seq(Queues) /\ Append(w, q) # <<>>
         /\ Len(Append(w, q)) = Len(w) + 1
         /\ Append(w, q)[Len(w) + 1] = q
         /\ \A i \in 1..Len(w) : Append(w, q)[i] = w[i]
         /\ Listed(Append(w, q)) = Listed(w) \union {q}
<1> DEFINE n == Append(w, q)
<1>1. /\ n \in Seq(Queues) /\ n # <<>> /\ Len(n) = Len(w) + 1
      /\ n[Len(w) + 1] = q /\ \A i \in 1..Len(w) : n[i] = w[i]
      /\ DOMAIN w = 1..Len(w) /\ DOMAIN n = 1..(Len(w) + 1) /\ Len(w) \in Nat
  OBVIOUS
<1> HIDE DEF n
<1>2. \A i \in 1..(Len(w) + 1) : i \in 1..Len(w) \/ i = Len(w) + 1
  BY <1>1
<1>3. Len(w) + 1 \in DOMAIN n /\ \A i \in DOMAIN w : i \in DOMAIN n
  BY <1>1
<1>4. Listed(n) \subseteq Listed(w) \union {q}
  BY <1>1, <1>2 DEF Listed
<1>5. Listed(w) \union {q} \subseteq Listed(n)
  BY <1>1, <1>3 DEF Listed
<1> QED
  BY <1>1, <1>4, <1>5 DEF n

(* That of one that leaves it is in those it was in before. *)
LEMMA Left ==
  ASSUME NEW w \in Seq(Queues), w # <<>>
  PROVE  LET n == SubSeq(w, 1, Len(w) - 1)
         IN  /\ n \in Seq(Queues)
             /\ Len(n) = Len(w) - 1
             /\ \A i \in 1..Len(n) : i \in 1..Len(w) /\ n[i] = w[i]
             /\ Listed(w) \subseteq Listed(n) \union {w[Len(w)]}
<1> DEFINE n == SubSeq(w, 1, Len(w) - 1)
<1>1. /\ n \in Seq(Queues) /\ Len(w) \in Nat \ {0} /\ Len(n) = Len(w) - 1
      /\ \A i \in 1..(Len(w) - 1) : n[i] = w[i]
      /\ DOMAIN w = 1..Len(w) /\ DOMAIN n = 1..(Len(w) - 1)
  OBVIOUS
<1> HIDE DEF n
<1>2. \A i \in 1..Len(w) : i \in 1..(Len(w) - 1) \/ i = Len(w)
  BY <1>1
<1>3. \A i \in 1..(Len(w) - 1) : i \in 1..Len(w)
  BY <1>1
<1>4. Listed(w) \subseteq Listed(n) \union {w[Len(w)]}
  BY <1>1, <1>2 DEF Listed
<1> QED
  BY <1>1, <1>3, <1>4 DEF n

(* A task whose code waits for a closure is in a poll. *)
LEMMA WantsInPoll ==
  ASSUME IndInv, WantsWait, NEW t \in Tasks, wants[t] # NoQueue
  PROVE  within[t] # <<>>
<1> DEFINE r == wants[t]
           b == SyncBlock(t)
<1>1. t \in Actors /\ r \in Queues
  BY DEF Actors, IndInv, TypeOK
<1>2. b \in Listed(waiting[r])
  BY <1>1 DEF WantsWait
<1>3. PICK a \in Actors : b = SyncBlock(a) /\ CallerBlocked(a, r)
  BY <1>1, <1>2, PollsOfTasks DEF IndInv, WaitingAsMeant
<1>4. a = t
  BY <1>1, <1>3, SyncBlocks
<1> QED
  BY <1>3, <1>4 DEF CallerBlocked

(* A submission leaves what waits waiting. *)
LEMMA SubmitKeepsWaits ==
  ASSUME TypeOK, WantsWait, UNCHANGED wants, NEW q \in Queues, NEW b \in Blocks, Submit(q, b)
  PROVE  WantsWait'
BY Submitted DEF WantsWait, TypeOK

(* So does the start of a poll. *)
LEMMA StartKeepsWaits ==
  ASSUME TypeOK, WaitingOnce, WantsWait, UNCHANGED wants,
         NEW t \in Tasks, NEW q \in Queues, MayStart(q, PollBlock(t, t \in local)),
         waiting' = [waiting EXCEPT ![q] = Tail(@)]
  PROVE  WantsWait'
<1> DEFINE b == PollBlock(t, t \in local)
<1>1. \A r \in Queues :
        Listed(waiting'[r]) = IF r = q THEN Listed(waiting[r]) \ {b} ELSE Listed(waiting[r])
  BY Started
<1>2. \A a \in Actors : b # SyncBlock(a)
  BY PollsOfTasks
<1> HIDE DEF b
<1> QED
  BY <1>1, <1>2 DEF WantsWait, TypeOK

(* And a step of no queue. *)
LEMMA UnmovedKeeps ==
  ASSUME LockInv, UNCHANGED <<waiting, running, within, wants>>
  PROVE  LockInv'
BY DEF LockInv, NestedAsMeant, BlocksEnclose, WantsWait

(* A submission that nobody waits for changes no call of lock. *)
LEMMA SubmitKeepsLocks ==
  ASSUME IndInv, LockInv, UNCHANGED <<running, within, wants>>,
         NEW q \in Queues, NEW b \in Blocks, Submit(q, b)
  PROVE  LockInv'
<1>1. TypeOK
  BY DEF IndInv
<1>2. WantsWait'
  BY <1>1, SubmitKeepsWaits DEF LockInv
<1> QED
  BY <1>2 DEF LockInv, NestedAsMeant, BlocksEnclose

(* A call of background or lock waits as it may. *)
LEMMA BarrierSyncLocks ==
  ASSUME IndInv, LockInv, NEW a \in Actors, NEW q \in Queues, BarrierSync(a, q),
         wants[a] = NoQueue,
         within[a] # <<>> => <<within[a][Len(within[a])], q>> \in Nesting
  PROVE  LockInv'
<1>1. /\ TypeOK
      /\ Submit(q, SyncBlock(a))
      /\ wants' = [wants EXCEPT ![a] = q]
      /\ UNCHANGED <<running, within>>
  BY DEF IndInv, BarrierSync
<1>2. SyncBlock(a) \in Blocks
  BY SyncBlocks
<1>3. \A r \in Queues :
        Listed(waiting'[r]) = IF r = q THEN Listed(waiting[r]) \union {SyncBlock(a)}
                              ELSE Listed(waiting[r])
  BY <1>1, <1>2, Submitted
<1>4. wants'[a] = q /\ \A c \in Actors \ {a} : wants'[c] = wants[c]
  BY <1>1 DEF TypeOK
<1>5. NestedAsMeant'
  BY <1>1, <1>4 DEF LockInv, NestedAsMeant
<1>6. WantsWait'
  BY <1>1, <1>3, <1>4 DEF LockInv, WantsWait, TypeOK
<1> QED
  BY <1>1, <1>5, <1>6 DEF LockInv, BlocksEnclose

(* The closure that starts is one its caller waits for. *)
LEMMA StartSyncLocks ==
  ASSUME IndInv, LockInv, NEW q \in Queues, StartSync(q)
  PROVE  LockInv'
<1>1. PICK a \in Actors :
        /\ MayStart(q, SyncBlock(a))
        /\ waiting' = [waiting EXCEPT ![q] = Tail(@)]
        /\ running' = [running EXCEPT ![q] = @ \union {SyncBlock(a)}]
        /\ within' = [within EXCEPT ![a] = Append(@, q)]
        /\ wants' = [wants EXCEPT ![a] = NoQueue]
  BY DEF StartSync
<1> DEFINE b == SyncBlock(a)
<1>2. TypeOK /\ WaitingOnce
  BY DEF IndInv
<1>3. /\ b \in Listed(waiting[q])
      /\ \A r \in Queues :
           Listed(waiting'[r]) = IF r = q THEN Listed(waiting[r]) \ {b} ELSE Listed(waiting[r])
  BY <1>1, <1>2, Started
<1>4. wants[a] = q
  <2>1. PICK c \in Actors : b = SyncBlock(c) /\ CallerBlocked(c, q)
    BY <1>3, PollsOfTasks DEF IndInv, WaitingAsMeant
  <2>2. c = a
    BY <2>1, SyncBlocks
  <2> QED
    BY <2>1, <2>2 DEF CallerBlocked
<1>5. /\ within'[a] = Append(within[a], q) /\ within[a] \in Seq(Queues)
      /\ wants'[a] = NoQueue
      /\ \A c \in Actors \ {a} : within'[c] = within[c] /\ wants'[c] = wants[c]
  BY <1>1, <1>2 DEF TypeOK
<1>6. NestedAsMeant'
  <2> SUFFICES ASSUME NEW c \in Actors
               PROVE  /\ \A i \in 1..(Len(within'[c]) - 1) :
                           <<within'[c][i], within'[c][i + 1]>> \in Nesting
                      /\ wants'[c] # NoQueue /\ within'[c] # <<>> =>
                           <<within'[c][Len(within'[c])], wants'[c]>> \in Nesting
    BY DEF NestedAsMeant
  <2>1. CASE c # a
    BY <2>1, <1>5 DEF LockInv, NestedAsMeant
  <2>2. CASE c = a
    <3> DEFINE w == within[a]
               n == Append(w, q)
    <3>1. /\ Len(n) = Len(w) + 1 /\ n[Len(w) + 1] = q
          /\ \A i \in 1..Len(w) : n[i] = w[i]
          /\ Len(w) \in Nat
      BY <1>5, Entered
    <3>2. ASSUME NEW i \in 1..(Len(n) - 1)
          PROVE  <<n[i], n[i + 1]>> \in Nesting
      <4>1. CASE i = Len(w)
        <5>1. w # <<>> /\ q # NoQueue
          BY <4>1, <3>1, <3>2, ExecutorAssumption
        <5>2. <<w[Len(w)], q>> \in Nesting
          BY <5>1, <1>4 DEF LockInv, NestedAsMeant
        <5> QED
          BY <4>1, <5>2, <3>1, <3>2
      <4>2. CASE i # Len(w)
        <5>1. i \in 1..(Len(w) - 1) /\ i \in 1..Len(w) /\ i + 1 \in 1..Len(w)
          BY <4>2, <3>1, <3>2
        <5>2. <<w[i], w[i + 1]>> \in Nesting
          BY <5>1 DEF LockInv, NestedAsMeant
        <5> QED
          BY <5>1, <5>2, <3>1
      <4> QED
        BY <4>1, <4>2
    <3> QED
      BY <2>2, <3>2, <1>5
  <2> QED
    BY <2>1, <2>2
<1>7. BlocksEnclose'
  <2> SUFFICES ASSUME NEW r \in Queues, NEW c \in running'[r]
               PROVE  r \in Listed(within'[c.by])
    BY DEF BlocksEnclose
  <2>1. Listed(within[a]) \union {q} = Listed(within'[a])
    BY <1>5, Entered
  <2>2. CASE c \in running[r]
    <3>1. r \in Listed(within[c.by]) /\ c.by \in Actors
      BY <2>2, <1>2 DEF LockInv, BlocksEnclose, TypeOK, Blocks
    <3> QED
      BY <3>1, <2>1, <1>5
  <2>3. CASE c = b /\ r = q
    BY <2>1, <2>3 DEF SyncBlock
  <2> QED
    BY <2>2, <2>3, <1>1, <1>2 DEF TypeOK
<1>8. WantsWait'
  <2> SUFFICES ASSUME NEW c \in Actors, wants'[c] # NoQueue
               PROVE  SyncBlock(c) \in Listed(waiting'[wants'[c]])
    BY DEF WantsWait
  <2>1. c # a /\ wants'[c] = wants[c] /\ wants[c] \in Queues
    BY <1>5, <1>2 DEF TypeOK
  <2>2. SyncBlock(c) \in Listed(waiting[wants[c]]) /\ SyncBlock(c) # b
    BY <2>1, SyncBlocks DEF LockInv, WantsWait
  <2> QED
    BY <2>1, <2>2, <1>3
<1> QED
  BY <1>6, <1>7, <1>8 DEF LockInv

(* The closure that returns leaves its queue with no block: it is a        *)
(* barrier.                                                                *)
LEMMA ReturnLocks ==
  ASSUME IndInv, LockInv, NEW a \in Actors, NEW q \in Queues, Return(a, q)
  PROVE  LockInv'
<1> DEFINE w == within[a]
           n == SubSeq(w, 1, Len(w) - 1)
<1>1. /\ TypeOK
      /\ wants[a] = NoQueue
      /\ w # <<>> /\ w[Len(w)] = q
      /\ SyncBlock(a) \in running[q]
      /\ running' = [running EXCEPT ![q] = @ \ {SyncBlock(a)}]
      /\ within' = [within EXCEPT ![a] = n]
      /\ UNCHANGED <<waiting, wants>>
  BY DEF IndInv, Return, Executing, InnermostIs
<1>2. /\ w \in Seq(Queues) /\ Len(n) = Len(w) - 1 /\ Len(w) \in Nat
      /\ \A i \in 1..Len(n) : i \in 1..Len(w) /\ n[i] = w[i]
      /\ Listed(w) \subseteq Listed(n) \union {q}
  <2>1. w \in Seq(Queues) /\ Len(w) \in Nat
    BY <1>1 DEF TypeOK
  <2> HIDE DEF w
  <2> QED
    BY <1>1, <2>1, Left
<1>3. within'[a] = n /\ \A c \in Actors \ {a} : within'[c] = within[c]
  BY <1>1 DEF TypeOK
<1> HIDE DEF n
<1>4. NestedAsMeant'
  <2>1. ASSUME NEW i \in 1..(Len(n) - 1)
        PROVE  <<n[i], n[i + 1]>> \in Nesting
    <3>1. i \in 1..(Len(w) - 1) /\ i \in 1..Len(n) /\ i + 1 \in 1..Len(n)
      BY <1>2, <2>1
    <3>2. <<w[i], w[i + 1]>> \in Nesting
      BY <3>1 DEF LockInv, NestedAsMeant
    <3> QED
      BY <3>1, <3>2, <1>2
  <2> SUFFICES ASSUME NEW c \in Actors
               PROVE  /\ \A i \in 1..(Len(within'[c]) - 1) :
                           <<within'[c][i], within'[c][i + 1]>> \in Nesting
                      /\ wants'[c] # NoQueue /\ within'[c] # <<>> =>
                           <<within'[c][Len(within'[c])], wants'[c]>> \in Nesting
    BY DEF NestedAsMeant
  <2>2. CASE c = a
    BY <2>1, <2>2, <1>1, <1>3
  <2>3. CASE c # a
    BY <2>3, <1>1, <1>3 DEF LockInv, NestedAsMeant
  <2> QED
    BY <2>2, <2>3
<1>5. BlocksEnclose'
  <2> SUFFICES ASSUME NEW r \in Queues, NEW c \in running'[r]
               PROVE  r \in Listed(within'[c.by])
    BY DEF BlocksEnclose
  <2>1. c \in running[r] /\ (r = q => c # SyncBlock(a))
    BY <1>1 DEF TypeOK
  <2>2. r # q
    BY <2>1, <1>1, SyncBlocks DEF IndInv, BarrierAlone
  <2>3. r \in Listed(within[c.by]) /\ c.by \in Actors
    BY <2>1, <1>1 DEF LockInv, BlocksEnclose, TypeOK, Blocks
  <2> QED
    BY <2>2, <2>3, <1>2, <1>3
<1>6. WantsWait'
  BY <1>1 DEF LockInv, WantsWait
<1> QED
  BY <1>4, <1>5, <1>6 DEF LockInv

(* The poll that starts is that of a task whose code was in no block. *)
LEMMA StartPollLocks ==
  ASSUME IndInv, LockInv, NEW t \in Tasks, StartPoll(t)
  PROVE  LockInv'
<1> DEFINE q == home[t]
           b == PollBlock(t, t \in local)
<1>1. /\ TypeOK /\ WaitingOnce
      /\ t \in Actors /\ q \in Queues
      /\ MayStart(q, b)
      /\ waiting' = [waiting EXCEPT ![q] = Tail(@)]
      /\ running' = [running EXCEPT ![q] = @ \union {b}]
      /\ within' = [within EXCEPT ![t] = <<q>>]
      /\ wants' = wants
  BY DEF IndInv, TypeOK, StartPoll, Actors
<1>2. b \in Listed(waiting[q])
  BY <1>1, Started
<1>3. within[t] = <<>>
  BY <1>1, <1>2, WaitingIsDue DEF PollDue, IndInv, PollEncloses
<1>4. wants[t] = NoQueue
  BY <1>3, WantsInPoll DEF LockInv
<1>5. within'[t] = <<q>> /\ \A c \in Actors \ {t} : within'[c] = within[c]
  BY <1>1 DEF TypeOK
<1>6. NestedAsMeant'
  <2> SUFFICES ASSUME NEW c \in Actors
               PROVE  /\ \A i \in 1..(Len(within'[c]) - 1) :
                           <<within'[c][i], within'[c][i + 1]>> \in Nesting
                      /\ wants'[c] # NoQueue /\ within'[c] # <<>> =>
                           <<within'[c][Len(within'[c])], wants'[c]>> \in Nesting
    BY DEF NestedAsMeant
  <2>1. CASE c = t
    <3>1. Len(within'[c]) - 1 = 0
      BY <2>1, <1>5
    <3> QED
      BY <2>1, <3>1, <1>1, <1>4
  <2>2. CASE c # t
    BY <2>2, <1>1, <1>5 DEF LockInv, NestedAsMeant
  <2> QED
    BY <2>1, <2>2
<1>7. BlocksEnclose'
  <2> SUFFICES ASSUME NEW r \in Queues, NEW c \in running'[r]
               PROVE  r \in Listed(within'[c.by])
    BY DEF BlocksEnclose
  <2>1. CASE c \in running[r]
    <3>1. r \in Listed(within[c.by]) /\ c.by \in Actors
      BY <2>1, <1>1 DEF LockInv, BlocksEnclose, TypeOK, Blocks
    <3>2. c.by # t
      BY <3>1, <1>3 DEF Listed
    <3> QED
      BY <3>1, <3>2, <1>5
  <2>2. CASE c = b /\ r = q
    BY <2>2, <1>5, PollsOfTasks DEF Listed
  <2> QED
    BY <2>1, <2>2, <1>1 DEF TypeOK
<1>8. WantsWait'
  BY <1>1, StartKeepsWaits DEF LockInv
<1> QED
  BY <1>6, <1>7, <1>8 DEF LockInv

(* A future that is dropped instead enters nothing. *)
LEMMA StartCanceledLocks ==
  ASSUME IndInv, LockInv, NEW t \in Tasks, StartCanceled(t)
  PROVE  LockInv'
<1> DEFINE q == home[t]
           b == PollBlock(t, t \in local)
<1>1. /\ TypeOK /\ WaitingOnce
      /\ q \in Queues
      /\ MayStart(q, b)
      /\ waiting' = [waiting EXCEPT ![q] = Tail(@)]
      /\ UNCHANGED <<running, within, wants>>
  BY DEF IndInv, TypeOK, StartCanceled, actors
<1>2. WantsWait'
  BY <1>1, StartKeepsWaits DEF LockInv
<1> QED
  BY <1>1, <1>2 DEF LockInv, NestedAsMeant, BlocksEnclose

(* The end of a poll leaves no block of its task. *)
LEMMA EndPollLocks ==
  ASSUME IndInv, LockInv, NEW t \in Tasks, EndPoll(t),
         waiting' = waiting \/ Schedule(t)
  PROVE  LockInv'
<1> DEFINE q == home[t]
           b == PollBlock(t, t \in local)
<1>1. /\ TypeOK
      /\ t \in Actors /\ q \in Queues
      /\ wants[t] = NoQueue
      /\ within[t] = <<q>>
      /\ within' = [within EXCEPT ![t] = <<>>]
      /\ running' = [running EXCEPT ![q] = @ \ {b}]
      /\ UNCHANGED <<wants, home, local>>
  BY DEF IndInv, TypeOK, EndPoll, Actors
<1>2. within'[t] = <<>> /\ \A c \in Actors \ {t} : within'[c] = within[c]
  BY <1>1 DEF TypeOK
<1>3. b \in running[q] /\ b \in Blocks
  BY <1>1, PollsOfTasks DEF IndInv, PollEncloses
<1>4. NestedAsMeant'
  <2> SUFFICES ASSUME NEW c \in Actors
               PROVE  /\ \A i \in 1..(Len(within'[c]) - 1) :
                           <<within'[c][i], within'[c][i + 1]>> \in Nesting
                      /\ wants'[c] # NoQueue /\ within'[c] # <<>> =>
                           <<within'[c][Len(within'[c])], wants'[c]>> \in Nesting
    BY DEF NestedAsMeant
  <2>1. CASE c = t
    BY <2>1, <1>2
  <2>2. CASE c # t
    BY <2>2, <1>1, <1>2 DEF LockInv, NestedAsMeant
  <2> QED
    BY <2>1, <2>2
<1>5. BlocksEnclose'
  <2> SUFFICES ASSUME NEW r \in Queues, NEW c \in running'[r]
               PROVE  r \in Listed(within'[c.by])
    BY DEF BlocksEnclose
  <2>1. c \in running[r] /\ (r = q => c # b)
    BY <1>1 DEF TypeOK
  <2>2. r \in Listed(within[c.by]) /\ c.by \in Actors
    BY <2>1, <1>1 DEF LockInv, BlocksEnclose, TypeOK, Blocks
  <2>3. ASSUME c.by = t
        PROVE  FALSE
    <3>1. r = q
      BY <2>2, <2>3, <1>1 DEF Listed
    <3>2. CASE \E a \in Actors : c = SyncBlock(a)
      BY <3>1, <3>2, <2>1, <1>1, <1>3, SyncBlocks DEF IndInv, BarrierAlone
    <3>3. CASE \E u \in Tasks : c = PollBlock(u, u \in local)
      BY <3>1, <3>3, <2>1, <2>3, PollsOfTasks
    <3> QED
      BY <3>2, <3>3, <2>1 DEF IndInv, RunningAsMeant
  <2> QED
    BY <2>2, <2>3, <1>2
<1>6. WantsWait'
  <2>1. CASE waiting' = waiting
    BY <2>1, <1>1 DEF LockInv, WantsWait
  <2>2. CASE Schedule(t)
    BY <2>2, <1>1, <1>3, SubmitKeepsWaits DEF LockInv, Schedule
  <2> QED
    BY <2>1, <2>2
<1> QED
  BY <1>4, <1>5, <1>6 DEF LockInv

(* Every step keeps the calls of lock in order. *)
LEMMA LockInvStep ==
  ASSUME IndInv, LockInv, [Next]_vars
  PROVE  LockInv'
<1>1. TypeOK
  BY DEF IndInv
<1>2. ASSUME NEW a \in Threads, NEW q \in Queues, Background(a, q)
      PROVE  LockInv'
  BY <1>2, BarrierSyncLocks DEF Background, Executing, Actors
<1>3. ASSUME NEW a \in Actors, NEW q \in Queues, Lock(a, q)
      PROVE  LockInv'
  <2>1. BarrierSync(a, q) /\ wants[a] = NoQueue
    BY <1>3 DEF Lock, Executing
  <2>2. ASSUME within[a] # <<>>
        PROVE  <<within[a][Len(within[a])], q>> \in Nesting
    <3>1. within[a][Len(within[a])] \in Queues
      BY <2>2, <1>1 DEF TypeOK
    <3> QED
      BY <3>1, <2>2, <1>3 DEF Lock, InnermostIs
  <2> QED
    BY <2>1, <2>2, BarrierSyncLocks
<1>4. ASSUME NEW t \in Tasks, NEW l \in BOOLEAN, SpawnTask(t, l)
      PROVE  LockInv'
  <2>1. PICK q \in Queues : Submit(q, PollBlock(t, l)) /\ UNCHANGED <<running, within, wants>>
    BY <1>4 DEF SpawnTask, actors
  <2>2. PollBlock(t, l) \in Blocks
    BY PollBlocks
  <2> QED
    BY <2>1, <2>2, SubmitKeepsLocks
<1>5. ASSUME NEW t \in Tasks, Suspend(t) \/ Complete(t)
      PROVE  LockInv'
  <2>1. EndPoll(t) /\ (waiting' = waiting \/ Schedule(t))
    BY <1>5 DEF Suspend, Complete
  <2> QED
    BY <2>1, EndPollLocks
<1>6. ASSUME NEW t \in Tasks, Wake(t) \/ DropTask(t) \/ Detach(t) \/ DropWakers(t)
      PROVE  LockInv'
  <2>1. home[t] \in Queues
    BY <1>6, <1>1 DEF Wake, DropTask, Detach, DropWakers, IndInv, FlagsAsMeant, TypeOK
  <2>2. UNCHANGED <<running, within, wants>> /\ (waiting' = waiting \/ Schedule(t))
    BY <1>6 DEF Wake, DropTask, Detach, DropWakers, Forsake, actors
  <2>3. PollBlock(t, t \in local) \in Blocks
    BY PollsOfTasks
  <2> QED
    BY <2>1, <2>2, <2>3, SubmitKeepsLocks, UnmovedKeeps DEF Schedule
<1>7. ASSUME NEW t \in Tasks, TaskPoll(t)
      PROVE  LockInv'
  BY <1>7, UnmovedKeeps DEF TaskPoll, blocks, actors
<1>8. CASE UNCHANGED vars
  BY <1>8, UnmovedKeeps DEF vars
<1> QED
  BY <1>2, <1>3, <1>4, <1>5, <1>6, <1>7, <1>8, StartSyncLocks, ReturnLocks,
     StartPollLocks, StartCanceledLocks DEF Next, Spawn, SpawnLocal

(* So they are in order throughout. *)
LEMMA LocksInOrder == Spec => []LockInv
<1>1. Init => LockInv
  BY DEF Init, LockInv, NestedAsMeant, BlocksEnclose, WantsWait
<1> QED
  BY <1>1, LockInvStep, Invariance, PTL DEF Spec

(* The handles that code may lock are ordered: in any set of queues, there *)
(* is one whose code locks no handle of the set.                           *)
LocksOrdered ==
  \A Q \in SUBSET Queues : Q # {} => \E q \in Q : \A r \in Q : <<q, r>> \notin Nesting

(* A block of q cannot end before one of r has run. *)
WaitsFor(q, r) == \E b \in running[q] : wants[b.by] = r

(* Calls of lock do not wait for one another in a circle, also when tasks  *)
(* and closures nest them: in any set of queues there is one that could    *)
(* finish its blocks without the others.                                   *)
NoCircularWait ==
  \A Q \in SUBSET Queues : Q # {} => \E q \in Q : \A r \in Q : ~WaitsFor(q, r)

(* If handles are ordered, code that is in blocks of some queues and waits *)
(* for others cannot be what those wait for: follow a closure that waits   *)
(* through those it is nested in, and each was entered from a queue lower  *)
(* in the order.                                                           *)
LEMMA OrderedDoNotCircle ==
  ASSUME LocksOrdered, IndInv, LockInv
  PROVE  NoCircularWait
<1> SUFFICES ASSUME NEW Q \in SUBSET Queues, Q # {}
             PROVE  \E q \in Q : \A r \in Q : ~WaitsFor(q, r)
  BY DEF NoCircularWait
<1> DEFINE R == Q \union {q \in Queues :
                          \E a \in Actors : wants[a] \in Q /\ q \in Listed(within[a])}
<1>1. R \in SUBSET Queues /\ R # {}
  OBVIOUS
<1>2. PICK q \in R : \A r \in R : <<q, r>> \notin Nesting
  BY <1>1 DEF LocksOrdered
<1>3. ASSUME NEW a \in Actors, wants[a] \in Q, q \in Listed(within[a])
      PROVE  FALSE
  <2> DEFINE w == within[a]
  <2>1. w \in Seq(Queues) /\ wants[a] # NoQueue
    BY <1>3, ExecutorAssumption DEF IndInv, TypeOK
  <2>2. PICK i \in 1..Len(w) : w[i] = q
    BY <1>3, <2>1 DEF Listed
  <2>3. CASE i = Len(w)
    <3>1. <<q, wants[a]>> \in Nesting
      BY <2>1, <2>2, <2>3 DEF LockInv, NestedAsMeant
    <3> QED
      BY <3>1, <1>2, <1>3
  <2>4. CASE i # Len(w)
    <3>1. i \in 1..(Len(w) - 1) /\ i + 1 \in 1..Len(w)
      BY <2>1, <2>4
    <3>2. <<q, w[i + 1]>> \in Nesting
      BY <3>1, <2>2 DEF LockInv, NestedAsMeant
    <3>3. w[i + 1] \in R
      BY <3>1, <2>1, <1>3 DEF Listed
    <3> QED
      BY <3>2, <3>3, <1>2
  <2> QED
    BY <2>3, <2>4
<1>4. q \in Q
  BY <1>3
<1>5. ASSUME NEW r \in Q, WaitsFor(q, r)
      PROVE  FALSE
  <2>1. PICK b \in running[q] : wants[b.by] = r
    BY <1>5 DEF WaitsFor
  <2>2. b.by \in Actors /\ q \in Listed(within[b.by])
    BY <2>1, <1>1 DEF IndInv, TypeOK, Blocks, LockInv, BlocksEnclose
  <2> QED
    BY <2>1, <2>2, <1>3
<1> QED
  BY <1>4, <1>5

(* Calls of lock never wait for one another in a circle, for any number of *)
(* queues, threads and tasks, if the handles they lock are ordered.        *)
THEOREM LocksDoNotCircle ==
  ASSUME LocksOrdered
  PROVE  Spec => []NoCircularWait
BY OrderedDoNotCircle, LocksInOrder, Invariance, PTL

(* The queue q goes on: it may start a block, or code in one of its blocks *)
(* runs.                                                                   *)
GoesOn(q) ==
  \/ \E b \in Blocks : MayStart(q, b)
  \/ \E b \in running[q] : Executing(b.by)

(* While a block waits to start, a queue with one waiting goes on. *)
SomeQueueGoesOn ==
  (\E q \in Queues : waiting[q] # <<>>) =>
    \E q \in Queues : waiting[q] # <<>> /\ GoesOn(q)

(* No call of lock, and no task, waits when all that others could do is    *)
(* wait too: the executor does not deadlock.                               *)
THEOREM SomeoneGoesOn ==
  ASSUME LocksOrdered
  PROVE  Spec => []SomeQueueGoesOn
<1>1. IndInv /\ LockInv /\ NoCircularWait => SomeQueueGoesOn
  <2> SUFFICES ASSUME IndInv, LockInv, NoCircularWait,
                      \E q \in Queues : waiting[q] # <<>>,
                      \A q \in Queues : waiting[q] # <<>> => ~GoesOn(q)
               PROVE  FALSE
    BY DEF SomeQueueGoesOn
  <2> DEFINE Q == {q \in Queues : waiting[q] # <<>>}
  <2>1. PICK q \in Q : \A r \in Q : ~WaitsFor(q, r)
    BY DEF NoCircularWait
  <2>2. Head(waiting[q]) \in Blocks
    BY DEF IndInv, TypeOK
  <2>3. PICK b : b \in running[q]
    BY <2>1, <2>2 DEF GoesOn, MayStart
  <2>4. b.by \in Actors /\ within[b.by] # <<>>
    BY <2>3 DEF IndInv, TypeOK, Blocks, LockInv, BlocksEnclose, Listed
  <2>5. wants[b.by] \in Queues
    BY <2>1, <2>3, <2>4 DEF GoesOn, Executing, IndInv, TypeOK
  <2>6. SyncBlock(b.by) \in Listed(waiting[wants[b.by]])
    BY <2>4, <2>5, ExecutorAssumption DEF LockInv, WantsWait
  <2>7. wants[b.by] \in Q
    BY <2>5, <2>6 DEF Listed
  <2> QED
    BY <2>1, <2>3, <2>7 DEF WaitsFor
<1> QED
  BY <1>1, LocksDoNotCircle, LocksInOrder, Invariance, PTL
=============================================================================
