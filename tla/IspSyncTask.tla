---------------------------- MODULE IspSyncTask -----------------------------
(***************************************************************************)
(* The synchronous tasks of one ISP pipe (isp_st.c).  Other kernel modules *)
(* (sample_ist.c) link nodes with a callback into one of two lists.  Once  *)
(* a frame the interrupt handler walks the list hw, without any lock, and  *)
(* schedules a work item that walks the list wq under the semaphore.       *)
(* Registration looks for a node with its id before it takes the           *)
(* semaphore, and nothing keeps calls apart: what only holds while callers *)
(* do so by themselves is stated as such (crossed).                        *)
(***************************************************************************)
EXTENDS Integers, FiniteSets

CONSTANTS
  Task,        \* the nodes (ISP_SYNC_TASK_NODE_S)
  Caller,      \* threads that register and unregister them
  Worker,      \* the thread of the work queue
  Nobody,      \* none of them
  Poison,      \* OSAL_LIST_POISON1 and OSAL_LIST_POISON2
  Environment  \* the uses considered, one per behaviour

ASSUME SyncTaskAssumption ==
  /\ IsFiniteSet(Task)
  /\ Worker \notin Caller /\ Nobody \notin Caller \cup {Worker}
  /\ Poison \notin Task \cup {"hw", "wq"} /\ Task \cap {"hw", "wq"} = {}
  /\ Environment \subseteq
       [smp : BOOLEAN,         \* the handler runs beside another CPU's thread
        signals : BOOLEAN,     \* signals end waits for the semaphore
        apart : BOOLEAN,       \* the callers keep their calls apart
        hwirq : SUBSET Task,   \* nodes with ISP_SYNC_TSK_METHOD_HW_IRQ
        id : [Task -> Nat]]    \* pszId

List == {"hw", "wq"}
Node == Task \cup List         \* a list is known by its head

VARIABLES
  env,
  next, prev,  \* the links
  num,         \* u32Num
  sem,         \* who holds the semaphore
  irq,         \* the handler's walk of hw
  work,        \* the work item is pending
  wk,          \* its handler's walk of wq
  pc, op, task,\* where each caller is, in which call, for which node
  cur,         \* its walk in searchNode
  owner,       \* what the module that owns a node knows of it
  crossed      \* history: calls for one list met that nothing keeps apart

listVars == <<next, prev, num>>
callVars == <<pc, op, task, cur, owner, crossed>>
taskVars == <<env, listVars, sem, irq, work, wk, callVars>>

ListOf(t) == IF t \in env.hwirq THEN "hw" ELSE "wq"

\* A walk saves the next node while it is at pos, as osal_list_for_each_safe.
WalkFrom(n) ==
  [pos |-> n, nxt |-> IF n = Poison THEN Poison ELSE next[n]]
NoWalk(l) == [pos |-> l, nxt |-> l]
Walk == [pos : Node \cup {Poison}, nxt : Node \cup {Poison}]

TaskTypeOK ==
  /\ env \in Environment
  /\ {next, prev} \subseteq [Node -> Node \cup {Poison}]
  /\ num \in [List -> 0..Cardinality(Task)]
  /\ sem \in Caller \cup {Worker, Nobody}
  /\ irq \in [at : {"idle", "walk", "wq"}, w : Walk]
  /\ work \in BOOLEAN
  /\ wk \in [at : {"idle", "down", "walk"}, w : Walk]
  /\ pc \in [Caller -> {"idle", "search", "down", "change", "count", "up"}]
  /\ op \in [Caller -> {"register", "unregister"}]
  /\ task \in [Caller -> Task \cup {Poison}]
  /\ cur \in [Caller -> Walk]
  /\ owner \in [Task -> {"out", "in", "busy"}]
  /\ crossed \in BOOLEAN

\* SyncTaskInit: both lists are empty.
SyncTaskInit ==
  /\ env \in Environment
  /\ next = [n \in Node |-> IF n \in List THEN n ELSE Poison]
  /\ prev = next
  /\ num = [l \in List |-> 0]
  /\ sem = Nobody
  /\ irq = [at |-> "idle", w |-> NoWalk("hw")]
  /\ work = FALSE
  /\ wk = [at |-> "idle", w |-> NoWalk("wq")]
  /\ pc = [c \in Caller |-> "idle"]
  /\ op = [c \in Caller |-> "register"]
  /\ task = [c \in Caller |-> Poison]
  /\ cur = [c \in Caller |-> NoWalk("wq")]
  /\ owner = [t \in Task |-> "out"]
  /\ crossed = FALSE

\* On one CPU no thread runs while the handler does.
Runs == env.smp \/ irq.at = "idle"

-----------------------------------------------------------------------------
(* The lists.  __list_add and __list_del publish a change to a walk that   *)
(* goes forward with a single write, prev->next, so each is one step.      *)

ListAddTail(n, head) ==
  LET last == prev[head]
  IN /\ next' = [[next EXCEPT ![n] = head] EXCEPT ![last] = n]
     /\ prev' = [[prev EXCEPT ![head] = n] EXCEPT ![n] = last]

\* Mutant: the links of the node are left as they are.
ListDelUnlinked(n) ==
  /\ next' = [next EXCEPT ![n] = Poison]
  /\ prev' = [prev EXCEPT ![next[n]] = prev[n], ![n] = Poison]

ListDel(n) ==
  /\ next' = [next EXCEPT ![prev[n]] = next[n], ![n] = Poison]
  /\ prev' = [prev EXCEPT ![next[n]] = prev[n], ![n] = Poison]

\* The nodes a walk of the list meets: what every set has that holds the first
\* of them and, with a node, the next one.
Linked(l) ==
  {n \in Task : \A S \in SUBSET (Node \cup {Poison}) :
     next[l] \in S /\ (\A m \in S \cap Task : next[m] \in S) => n \in S}

\* searchNode, under the semaphore.
Found(t) == {n \in Linked(ListOf(t)) : env.id[n] = env.id[t]}

-----------------------------------------------------------------------------
(* The handler: IspSyncTaskProcess and ispSyncTskFIndAndExecute. *)

\* Once a frame, after the threads were woken.
TaskProcess ==
  /\ irq.at = "idle"
  /\ irq' = IF num["hw"] > 0 THEN [at |-> "walk", w |-> WalkFrom(next["hw"])]
                             ELSE [at |-> "wq", w |-> NoWalk("hw")]
  /\ UNCHANGED <<listVars, sem, work, wk, callVars>>

\* The callback of the node at pos returns, or the walk is at its end.
HwStep ==
  /\ irq.at = "walk"
  /\ irq.w.pos # Poison
  /\ irq' = IF irq.w.pos = "hw" THEN [at |-> "wq", w |-> NoWalk("hw")]
                                ELSE [irq EXCEPT !.w = WalkFrom(irq.w.nxt)]
  /\ UNCHANGED <<listVars, sem, work, wk, callVars>>

\* Mutant: the work is scheduled for hardware tasks.
ScheduleForHw ==
  /\ irq.at = "wq"
  /\ irq' = [irq EXCEPT !.at = "idle"]
  /\ work' = (work \/ num["hw"] > 0)
  /\ UNCHANGED <<listVars, sem, wk, callVars>>

\* osal_schedule_work does nothing if the item is pending already.
ScheduleWork ==
  /\ irq.at = "wq"
  /\ irq' = [irq EXCEPT !.at = "idle"]
  /\ work' = (work \/ num["wq"] > 0)
  /\ UNCHANGED <<listVars, sem, wk, callVars>>

-----------------------------------------------------------------------------
(* The work item: workQueueHandler. *)

\* The kernel clears the pending bit before it runs the handler.
WorkBegin ==
  /\ work /\ wk.at = "idle" /\ Runs
  /\ work' = FALSE
  /\ wk' = [wk EXCEPT !.at = "down"]
  /\ UNCHANGED <<listVars, sem, irq, callVars>>

WorkDown ==
  /\ wk.at = "down" /\ Runs
  /\ sem = Nobody
  /\ sem' = Worker
  /\ wk' = [at |-> "walk", w |-> WalkFrom(next["wq"])]
  /\ UNCHANGED <<listVars, irq, work, callVars>>

WorkStep ==
  /\ wk.at = "walk" /\ Runs
  /\ wk.w.pos \notin {"wq", Poison}
  /\ wk' = [wk EXCEPT !.w = WalkFrom(wk.w.nxt)]
  /\ UNCHANGED <<listVars, sem, irq, work, callVars>>

WorkUp ==
  /\ wk.at = "walk" /\ Runs
  /\ wk.w.pos = "wq"
  /\ wk' = [at |-> "idle", w |-> NoWalk("wq")]
  /\ sem' = Nobody
  /\ UNCHANGED <<listVars, irq, work, callVars>>

-----------------------------------------------------------------------------
(* hi_isp_sync_task_register and hi_isp_sync_task_unregister. *)

Goto(c, label) == pc' = [pc EXCEPT ![c] = label]

\* What the call was about is forgotten.
Return(c, known) ==
  /\ Goto(c, "idle")
  /\ op' = [op EXCEPT ![c] = "register"]
  /\ task' = [task EXCEPT ![c] = Poison]
  /\ cur' = [cur EXCEPT ![c] = NoWalk("wq")]
  /\ owner' = [owner EXCEPT ![task[c]] = known]

\* The calls for this list under way all register nodes with other ids, as
\* this one does.  Only the callers can see to it: neither the functions nor
\* the unlocked ioctl of sample_ist.c do.
Apart(c, t, o) ==
  \A d \in Caller \ {c} :
    pc[d] # "idle" /\ ListOf(task[d]) = ListOf(t) =>
      o = "register" /\ op[d] = "register" /\ env.id[task[d]] # env.id[t]

Begin(c, t, o) ==
  /\ pc[c] = "idle" /\ Runs
  /\ env.apart => Apart(c, t, o)
  /\ crossed' = (crossed \/ ~Apart(c, t, o))
  /\ op' = [op EXCEPT ![c] = o]
  /\ task' = [task EXCEPT ![c] = t]
  /\ owner' = [owner EXCEPT ![t] = "busy"]

\* The search begins without the semaphore.
Register(c) ==
  /\ \E t \in Task :
       /\ Begin(c, t, "register")
       /\ cur' = [cur EXCEPT ![c] = WalkFrom(next[ListOf(t)])]
  /\ Goto(c, "search")
  /\ UNCHANGED <<listVars, sem, irq, work, wk>>

Unregister(c) ==
  /\ \E t \in Task : Begin(c, t, "unregister")
  /\ Goto(c, "down")
  /\ UNCHANGED <<listVars, sem, irq, work, wk, cur>>

\* Mutant: the search ends before it has looked at the last node.
SearchShort(c) ==
  /\ pc[c] = "search" /\ Runs
  /\ LET pos == cur[c].pos
         l   == ListOf(task[c])
     IN \/ /\ pos \in List \/ (pos \in Task /\ cur[c].nxt = l)
           /\ Goto(c, "down")
           /\ cur' = [cur EXCEPT ![c] = NoWalk("wq")]
           /\ UNCHANGED <<op, task, owner>>
        \/ /\ pos \in Task /\ cur[c].nxt # l /\ env.id[pos] = env.id[task[c]]
           /\ Return(c, IF pos = task[c] THEN "in" ELSE "out")
        \/ /\ pos \in Task /\ cur[c].nxt # l /\ env.id[pos] # env.id[task[c]]
           /\ cur' = [cur EXCEPT ![c] = WalkFrom(cur[c].nxt)]
           /\ UNCHANGED <<pc, op, task, owner>>
  /\ UNCHANGED <<listVars, sem, irq, work, wk, crossed>>

\* A node with this id, perhaps this node, is linked: HI_FAILURE.
Search(c) ==
  /\ pc[c] = "search" /\ Runs
  /\ LET pos == cur[c].pos
     IN \/ /\ pos \in List
           /\ Goto(c, "down")
           /\ cur' = [cur EXCEPT ![c] = NoWalk("wq")]
           /\ UNCHANGED <<op, task, owner>>
        \/ /\ pos \in Task /\ env.id[pos] = env.id[task[c]]
           /\ Return(c, IF pos = task[c] THEN "in" ELSE "out")
        \/ /\ pos \in Task /\ env.id[pos] # env.id[task[c]]
           /\ cur' = [cur EXCEPT ![c] = WalkFrom(cur[c].nxt)]
           /\ UNCHANGED <<pc, op, task, owner>>
  /\ UNCHANGED <<listVars, sem, irq, work, wk, crossed>>

Down(c) ==
  /\ pc[c] = "down" /\ Runs
  /\ sem = Nobody
  /\ sem' = c
  /\ Goto(c, "change")
  /\ UNCHANGED <<listVars, irq, work, wk, op, task, cur, owner, crossed>>

\* -ERESTARTSYS; a module that exits ignores it.
DownSignal(c) ==
  /\ pc[c] = "down" /\ Runs
  /\ env.signals
  /\ Return(c, "out")
  /\ UNCHANGED <<listVars, sem, irq, work, wk, crossed>>

Change(c) ==
  /\ pc[c] = "change" /\ Runs
  /\ \/ /\ op[c] = "register"
        /\ ListAddTail(task[c], ListOf(task[c]))
        /\ Goto(c, "count")
     \/ /\ op[c] = "unregister"
        /\ \E n \in Found(task[c]) : ListDel(n)
        /\ Goto(c, "count")
     \/ /\ op[c] = "unregister"
        /\ Found(task[c]) = {}
        /\ UNCHANGED <<next, prev>>
        /\ Goto(c, "up")
  /\ UNCHANGED <<num, sem, irq, work, wk, op, task, cur, owner, crossed>>

\* Mutant: the count goes the wrong way.
CountSwapped(c) ==
  /\ pc[c] = "count" /\ Runs
  /\ num' = [num EXCEPT ![ListOf(task[c])] =
               IF op[c] = "register" THEN @ - 1 ELSE @ + 1]
  /\ Goto(c, "up")
  /\ UNCHANGED <<next, prev, sem, irq, work, wk, op, task, cur, owner, crossed>>

Count(c) ==
  /\ pc[c] = "count" /\ Runs
  /\ num' = [num EXCEPT ![ListOf(task[c])] =
               IF op[c] = "register" THEN @ + 1 ELSE @ - 1]
  /\ Goto(c, "up")
  /\ UNCHANGED <<next, prev, sem, irq, work, wk, op, task, cur, owner, crossed>>

Up(c) ==
  /\ pc[c] = "up" /\ Runs
  /\ sem' = Nobody
  /\ Return(c, IF op[c] = "register" THEN "in" ELSE "out")
  /\ UNCHANGED <<listVars, irq, work, wk, crossed>>

-----------------------------------------------------------------------------
TaskHandler == TaskProcess \/ HwStep \/ ScheduleWork
Work == WorkBegin \/ WorkDown \/ WorkStep \/ WorkUp
CallStep(c) == Search(c) \/ Down(c) \/ Change(c) \/ Count(c) \/ Up(c)

Step ==
  \/ TaskHandler \/ Work
  \/ \E c \in Caller :
       Register(c) \/ Unregister(c) \/ CallStep(c) \/ DownSignal(c)

\* A node that is linked is about to be linked once more: from here on the
\* links form no list, and the model says nothing of what follows.
LinkedTwice ==
  \E c \in Caller : /\ pc[c] = "change" /\ op[c] = "register"
                    /\ task[c] \in Linked(ListOf(task[c]))

Goes(A) == A /\ ~LinkedTwice /\ UNCHANGED env

TaskNext == Goes(Step) \/ (LinkedTwice /\ UNCHANGED taskVars)

TaskSpec == SyncTaskInit /\ [][TaskNext]_taskVars

\* Frames keep coming, threads that can run do, and the semaphore serves
\* those that wait for it in turn.
TaskFairSpec ==
  /\ TaskSpec
  /\ WF_taskVars(Goes(TaskHandler))
  /\ SF_taskVars(Goes(Work))
  /\ \A c \in Caller : SF_taskVars(Goes(CallStep(c)))

-----------------------------------------------------------------------------
\* No callback of a node runs once unregistration has told its owner that
\* the node is his again.  The semaphore gives this for the work queue; the
\* handler takes no lock, so for its list it takes one CPU.  Both take that
\* unregistration removed this node and not another one with its id.
NoStaleCallback ==
  ~env.signals /\ ~crossed =>
     /\ wk.at = "walk" /\ wk.w.pos \in Task => owner[wk.w.pos] # "out"
     /\ ~env.smp /\ irq.at = "walk" /\ irq.w.pos \in Task
           => owner[irq.w.pos] # "out"

\* No walk follows the links of a node that was taken from its list: not the
\* work item's, nor the handler's on one CPU, whatever calls meet; and a search,
\* which has no semaphore, does not as long as no removal meets it.
WalkSafe ==
  /\ wk.w.pos # Poison
  /\ ~env.smp => irq.w.pos # Poison
  /\ ~crossed => \A c \in Caller : cur[c].pos # Poison

\* Both walks only meet nodes that are registered.
WalksRegistered == NoStaleCallback /\ WalkSafe

\* The count and the list agree but between the change of one and of the
\* other, whatever calls meet.  No id is linked twice, and no node, until calls
\* meet that are not kept apart: the search is made before the semaphore is
\* taken, and the second of two searches may find nothing either.
ListMatchesCount ==
  /\ (\A c \in Caller : pc[c] # "count") =>
       \A l \in List : num[l] = Cardinality(Linked(l))
  /\ ~crossed =>
       /\ ~LinkedTwice
       /\ \A l \in List : \A m, n \in Linked(l) : env.id[m] = env.id[n] => m = n

\* While frames come, a node whose owner keeps it registered is called again
\* and again, the nodes of the work queue through the work item.
OwnIds ==
  \A m, n \in Task : ListOf(m) = ListOf(n) /\ env.id[m] = env.id[n] => m = n

EveryTaskRuns ==
  ~env.smp /\ OwnIds =>
    \A t \in Task :
      []<>(owner[t] # "in" \/ t = wk.w.pos \/ t = irq.w.pos \/ crossed)
=============================================================================
