---------------------------- MODULE CallbackDeque ----------------------------
(***************************************************************************)
(* callbackQueue, access by access.  The queue is a std::deque: blocks of  *)
(* NodeSize elements and a map, an array of pointers to the blocks in      *)
(* order.  `start' and `finish' are its iterators to the first element and *)
(* behind the last one: a slot of the map, the block it holds, and the     *)
(* element `cur'.  Threads push under callbackMutex (addCallbackJob); the  *)
(* loop thread calls empty, front and pop without it (runCallbacks and     *)
(* removeJob).  Each action makes one access that the other side can see,  *)
(* in the order of libstdc++'s code; the makefile does not optimize.       *)
(*                                                                         *)
(* While a push relocates the map and the loop thread leaves a block, both *)
(* write `start': the behaviour is undefined from there on and is not      *)
(* continued (Overlap).                                                    *)
(***************************************************************************)
EXTENDS Integers, Sequences, FiniteSets, Functions, SequencesExt

CONSTANTS
  Jobs,      \* the jobs that can exist at once
  NoJob,     \* the null job pointer, uninitialized memory, and a pointer
             \* in the map to no block or to one that was freed
  Nodes,     \* the blocks that the allocator can hand out
  NodeSize,  \* elements of a block (64 pointers in libstdc++)
  MapSize    \* slots of the first map (8 in libstdc++)

ASSUME SizeAssumption ==
  /\ NoJob \notin Jobs
  /\ Nodes # {}
  /\ NodeSize \in Nat \ {0}
  /\ MapSize \in Nat \ {0}

VARIABLES
  map,      \* _M_map: the block that each slot points to
  memory,   \* the elements of every block
  start,    \* _M_start: its slot, the block there (first) and the element,
            \* an index of a block (cur)
  finish,   \* _M_finish, likewise
  chain,    \* the blocks that are allocated, oldest first
  pushing,  \* the job whose push holds callbackMutex
  step,     \* where that push is
  live,     \* the jobs that exist
  pc,       \* where the loop thread is
  current   \* the job that runCallbacks runs

vars == <<map, memory, start, finish, chain, pushing, step, live, pc, current>>

Slots == DOMAIN map
Indices == 0 .. NodeSize - 1

Uninitialized == [i \in Indices |-> NoJob]
At(cur) == memory[cur.node][cur.index]
FirstOf(it) == [it EXCEPT !.cur = [node |-> it.first, index |-> 0]]
NextOf(it) == [it EXCEPT !.cur.index = @ + 1]
IsLast(it) == it.cur = [node |-> it.first, index |-> NodeSize - 1]

\* _M_set_node: the iterator moves to another slot, and cur stays.
SetNode(it, slot) == [it EXCEPT !.slot = slot, !.first = map[slot]]

-----------------------------------------------------------------------------
(* addCallbackJob: push_back with callbackMutex held.                      *)

EnterPush(j) ==
  /\ pushing = NoJob
  /\ j \notin live
  /\ live' = live \cup {j}
  /\ pushing' = j
  /\ step' = "enter"
  /\ UNCHANGED <<map, memory, start, finish, chain, current>>

\* A worker or watcher thread pushes.
PushFromThread(j) == EnterPush(j) /\ UNCHANGED pc

\* message::build pushes, on the loop thread.
PushFromLoop(j) == EnterPush(j) /\ pc = "away" /\ pc' = "build"

\* Mutant of ChoosePath: room in the map is made sure of in every push.
ChoosePathEager ==
  /\ step = "enter"
  /\ step' = CASE finish.slot + 1 \notin Slots -> "copy"
               [] IsLast(finish) /\ finish.slot + 1 \in Slots -> "link"
               [] OTHER -> "construct"
  /\ UNCHANGED <<map, memory, start, finish, chain, pushing, live, pc, current>>

\* push_back, and _M_reserve_map_at_back of _M_push_back_aux: a new block is
\* needed when this element is the last of its block, a new place for the
\* blocks when the map has no slot behind them.
ChoosePath ==
  /\ step = "enter"
  /\ step' = CASE ~IsLast(finish) -> "construct"
               [] IsLast(finish) /\ finish.slot + 1 \in Slots -> "link"
               [] OTHER -> "copy"
  /\ UNCHANGED <<map, memory, start, finish, chain, pushing, live, pc, current>>

\* _M_reallocate_map: the blocks move to the middle of the map or, if they
\* would fill half of it, to the middle of a larger one.
Used == finish.slot - start.slot + 1
NewSize ==
  LET size == Cardinality(Slots)
  IN  IF size > 2 * (Used + 1) THEN size ELSE 2 * size + 2
NewStart == (NewSize - (Used + 1)) \div 2

CopyMap ==
  /\ step = "copy"
  /\ map' = [s \in 0 .. NewSize - 1 |->
               IF s \in NewStart .. NewStart + Used - 1
               THEN map[start.slot + s - NewStart] ELSE NoJob]
  /\ start' = [start EXCEPT !.slot = NewStart]
  /\ finish' = [finish EXCEPT !.slot = NewStart + Used - 1]
  /\ step' = "link"
  /\ UNCHANGED <<memory, chain, pushing, live, pc, current>>

LinkBlock ==
  /\ step = "link"
  /\ \E n \in Nodes \ Range(chain) :
       /\ memory' = [memory EXCEPT ![n] = Uninitialized]
       /\ map' = [map EXCEPT ![finish.slot + 1] = n]
       /\ chain' = Append(chain, n)
  /\ step' = "construct"
  /\ UNCHANGED <<start, finish, pushing, live, pc, current>>

Construct ==
  /\ step = "construct"
  /\ memory' = [memory EXCEPT ![finish.cur.node][finish.cur.index] = pushing]
  /\ step' = IF IsLast(finish) THEN "turn" ELSE "advance"
  /\ UNCHANGED <<map, start, finish, chain, pushing, live, pc, current>>

PushTurns ==
  /\ step = "turn"
  /\ finish' = SetNode(finish, finish.slot + 1)
  /\ step' = "first"
  /\ UNCHANGED <<map, memory, start, chain, pushing, live, pc, current>>

\* Mutant of EndPush: the mutex is not released.
EndPushLocked ==
  /\ step' = "none"
  /\ pc' = IF pc = "build" THEN "away" ELSE pc
  /\ UNCHANGED <<map, memory, start, chain, pushing, live, current>>

\* The last access of a push moves the end, and the mutex is released.
EndPush ==
  /\ pushing' = NoJob
  /\ step' = "none"
  /\ pc' = IF pc = "build" THEN "away" ELSE pc
  /\ UNCHANGED <<map, memory, start, chain, live, current>>

PushAdvances == step = "advance" /\ finish' = NextOf(finish) /\ EndPush
PushEntersBlock == step = "first" /\ finish' = FirstOf(finish) /\ EndPush

PushStep ==
  \/ ChoosePath
  \/ CopyMap
  \/ LinkBlock
  \/ Construct
  \/ PushTurns
  \/ PushAdvances
  \/ PushEntersBlock

-----------------------------------------------------------------------------
(* runCallbacks and the pop of removeJob, on the loop thread.              *)

\* Mutant of Empty: the slots are compared as well.
EmptyBySlot == start.cur = finish.cur /\ start.slot = finish.slot

\* empty() compares the two pointers cur.
Empty == start.cur = finish.cur

LookIntoQueue ==
  /\ pc = "test"
  /\ pc' = IF Empty THEN "away" ELSE "front"
  /\ UNCHANGED <<map, memory, start, finish, chain, pushing, step, live, current>>

\* Run comes back to runCallbacks.
LookAgain ==
  /\ pc = "away"
  /\ pc' = "test"
  /\ UNCHANGED <<map, memory, start, finish, chain, pushing, step, live, current>>

TakeFront ==
  /\ pc = "front"
  /\ current' = At(start.cur)
  /\ pc' = "run"
  /\ UNCHANGED <<map, memory, start, finish, chain, pushing, step, live>>

\* The callback returns, and pop_front chooses its path.
FinishCallback ==
  /\ pc = "run"
  /\ pc' = IF IsLast(start) THEN "free" ELSE "advance"
  /\ UNCHANGED <<map, memory, start, finish, chain, pushing, step, live, current>>

FreeBlock ==
  /\ pc = "free"
  /\ memory' = [memory EXCEPT ![start.first] = Uninitialized]
  /\ \E i \in DOMAIN chain :
       chain[i] = start.first /\ chain' = RemoveAt(chain, i)
  /\ map' = [map EXCEPT ![start.slot] = NoJob]
  /\ pc' = "turn"
  /\ UNCHANGED <<start, finish, pushing, step, live, current>>

PopTurns ==
  /\ pc = "turn"
  /\ start' = SetNode(start, start.slot + 1)
  /\ pc' = "first"
  /\ UNCHANGED <<map, memory, finish, chain, pushing, step, live, current>>

\* The last access of a pop moves the start, and the job is deleted.
EndPop ==
  /\ live' = live \ {current}
  /\ current' = NoJob
  /\ pc' = "test"
  /\ UNCHANGED <<map, memory, finish, chain, pushing, step>>

PopAdvances == pc = "advance" /\ start' = NextOf(start) /\ EndPop
PopEntersBlock == pc = "first" /\ start' = FirstOf(start) /\ EndPop

LoopStep ==
  \/ LookIntoQueue
  \/ LookAgain
  \/ TakeFront
  \/ FinishCallback
  \/ FreeBlock
  \/ PopTurns
  \/ PopAdvances
  \/ PopEntersBlock

-----------------------------------------------------------------------------
\* The deque when EventLoop has constructed it: one block, in the middle of
\* the map.
Init ==
  \E n \in Nodes :
    LET middle == (MapSize - 1) \div 2
        begin == [slot |-> middle, first |-> n,
                  cur |-> [node |-> n, index |-> 0]]
    IN  /\ map = [s \in 0 .. MapSize - 1 |-> IF s = middle THEN n ELSE NoJob]
        /\ memory = [m \in Nodes |-> Uninitialized]
        /\ start = begin
        /\ finish = begin
        /\ chain = <<n>>
        /\ pushing = NoJob
        /\ step = "none"
        /\ live = {}
        /\ pc = "test"
        /\ current = NoJob

\* A push relocates the map while the loop thread goes from one block to the
\* next.
Overlap == step = "copy" /\ pc \in {"free", "turn"}

Next ==
  \/ ~Overlap /\ PushStep
  \/ ~Overlap /\ LoopStep
  \/ ~Overlap /\ \E j \in Jobs : PushFromThread(j) \/ PushFromLoop(j)
  \/ Overlap /\ UNCHANGED vars

Spec == Init /\ [][Next]_vars

\* Threads are scheduled, and the loop thread comes back to runCallbacks.
FairSpec ==
  /\ Spec
  /\ WF_vars(~Overlap /\ PushStep)
  /\ WF_vars(~Overlap /\ LoopStep)

-----------------------------------------------------------------------------
\* The jobs between start and finish, in order: elements are counted from the
\* beginning of the first block.
Contents ==
  LET from  == IF pc \in {"turn", "first"} THEN 0 ELSE start.cur.index
      block == CHOOSE b \in DOMAIN chain : chain[b] = finish.cur.node
      upto  == NodeSize * (block - 1) + finish.cur.index
      Element(k) == memory[chain[k \div NodeSize + 1]][k % NodeSize]
  IN  [i \in 1 .. upto - from |-> Element(from + i - 1)]

\* What the loop thread has found: nothing yet, no job, or the front.
Found ==
  CASE pc \in {"away", "build"} -> <<NoJob>>
    [] pc \in {"run", "advance", "free"} -> <<current>>
    [] OTHER -> <<>>

Queue == INSTANCE JobQueue WITH queue <- Contents, found <- Found

\* The deque is a queue to its users: pushes append, empty() and front() of
\* runCallbacks, made without the mutex at any moment of a push, see the
\* oldest job whose push has ended or none if there is none, and pop drops
\* that job (EventLoop.cpp 105-109, 132, 198-200).
ImplementsJobQueue == Queue!Spec

\* The accesses without the mutex do harm only under a backlog: relocating
\* the map cannot meet the loop thread between two blocks unless more jobs
\* than a block holds exist at the same time.
OverlapNeedsBacklog == Overlap => Cardinality(live) > NodeSize

\* A job that a thread has begun to push is run, unless an overlap happens.
PushedJobRuns ==
  \A j \in Jobs : pushing = j ~> (current = j \/ Overlap)
=============================================================================
