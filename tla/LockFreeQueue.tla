---------------------------- MODULE LockFreeQueue ----------------------------
(***************************************************************************)
(* The queue of lib/aae_malloc.c that holds the partial superblocks of a   *)
(* size class: QueueLazyInitialization, QueueEnqueue and QueueDequeue, one *)
(* access to shared memory a step.                                         *)
(*                                                                         *)
(* A node that has been dequeued is not reused here (what its reuse needs  *)
(* from the hazard records is the subject of HazardRecords); the records   *)
(* appear only through the refusals of acquire_hp.                         *)
(***************************************************************************)
EXTENDS Integers, Sequences

CONSTANTS
  Threads,       (* the threads using the queue                            *)
  Values,        (* what they enqueue                                      *)
  Nodes,         (* bound: the nodes there is memory for                    *)
  NULL

ASSUME NullAssumption == NULL \notin Nodes \union Values

VARIABLES
  head,          (* m_head                                                 *)
  tail,          (* m_tail                                                 *)
  next,          (* m_next of every node                                   *)
  data,          (* m_data of every node                                   *)
  fresh,         (* the nodes not allocated yet                            *)
  answer,        (* what the last dequeue of every thread found            *)
  pc,            (* where every thread stands                              *)
  reg            (* its local variables                                    *)

queueVars == <<head, tail, next, data, fresh>>
vars == <<queueVars, answer, pc, reg>>

(* m_data, m_node, t_node or h_node, t_next or h_next, and the tail read   *)
(* a last time: the locals of both operations.  What a round of their      *)
(* loops leaves in them is forgotten when the next one begins.             *)
NoReg == [op |-> "none", value |-> NULL, new |-> NULL, h |-> NULL, t |-> NULL,
          next |-> NULL, last |-> NULL]

Goto(t, label) == pc' = [pc EXCEPT ![t] = label]

Return(t) == Goto(t, "idle") /\ reg' = [reg EXCEPT ![t] = NoReg]

Init ==
  /\ head = NULL /\ tail = NULL
  /\ next = [n \in Nodes |-> NULL]
  /\ data = [n \in Nodes |-> NULL]
  /\ fresh = Nodes
  /\ answer = [t \in Threads |-> NULL]
  /\ pc = [t \in Threads |-> "idle"]
  /\ reg = [t \in Threads |-> NoReg]

(* The node an allocation returns.  No node is returned twice, so which of *)
(* the fresh ones it is makes no difference but to its name.               *)
NewNode == CHOOSE n \in fresh : TRUE

-----------------------------------------------------------------------------
Call(t) ==
  /\ pc[t] = "idle"
  /\ \/ \E v \in Values : reg' = [reg EXCEPT ![t].op = "enqueue", ![t].value = v]
     \/ reg' = [reg EXCEPT ![t].op = "dequeue"]
  /\ Goto(t, "init_head")
  /\ UNCHANGED <<queueVars, answer>>

(* QueueLazyInitialization.  The first loop: whoever finds no head makes   *)
(* one; who loses the swap discards its node.                              *)
InitHead(t) ==
  /\ pc[t] = "init_head"
  /\ \/ /\ head # NULL
        /\ Goto(t, "init_tail")
        /\ UNCHANGED <<head, fresh>>
     \/ /\ head = NULL /\ fresh # {}
        /\ head' = NewNode /\ fresh' = fresh \ {NewNode}
        /\ Goto(t, "init_tail")
     \/ /\ head = NULL
        /\ Goto(t, "ready")
        /\ UNCHANGED <<head, fresh>>
  /\ UNCHANGED <<tail, next, data, answer, reg>>

(* The second loop reads the head and swaps it into an empty tail.         *)
InitTailRead(t) ==
  /\ pc[t] = "init_tail"
  /\ \/ tail # NULL /\ Goto(t, "ready") /\ UNCHANGED reg
     \/ tail = NULL /\ Goto(t, "init_cas") /\ reg' = [reg EXCEPT ![t].h = head]
  /\ UNCHANGED <<queueVars, answer>>

(* Variant: the tail is stored, not swapped.                               *)
InitTailStore(t) ==
  /\ pc[t] = "init_cas"
  /\ tail' = reg[t].h
  /\ Goto(t, "ready")
  /\ UNCHANGED <<head, next, data, fresh, answer, reg>>

InitTailCas(t) ==
  /\ pc[t] = "init_cas"
  /\ tail' = IF tail = NULL THEN reg[t].h ELSE tail
  /\ Goto(t, "ready")
  /\ UNCHANGED <<head, next, data, fresh, answer, reg>>

(* An operation gives up when the queue could not be initialised, or when  *)
(* a node or a hazard record is refused; what it was to enqueue is lost.   *)
GiveUp(t) ==
  /\ pc[t] \in {"ready", "e_node"}
  /\ Return(t)
  /\ UNCHANGED <<queueVars, answer>>

Ready(t) ==
  /\ pc[t] = "ready" /\ head # NULL /\ tail # NULL
  /\ Goto(t, IF reg[t].op = "enqueue" THEN "e_node" ELSE "d_head")
  /\ reg' = [reg EXCEPT ![t].h = NULL]
  /\ UNCHANGED <<queueVars, answer>>

-----------------------------------------------------------------------------
(* QueueEnqueue.                                                           *)
EnqueueNode(t) ==
  /\ pc[t] = "e_node"
  /\ fresh # {}
  /\ fresh' = fresh \ {NewNode}
  /\ data' = [data EXCEPT ![NewNode] = reg[t].value]
  /\ reg' = [reg EXCEPT ![t].new = NewNode]
  /\ Goto(t, "e_tail")
  /\ UNCHANGED <<head, tail, next, answer>>

EnqueueTail(t) ==
  /\ pc[t] = "e_tail"
  /\ reg' = [reg EXCEPT ![t].t = tail, ![t].next = NULL, ![t].last = NULL]
  /\ Goto(t, "e_confirm")
  /\ UNCHANGED <<queueVars, answer>>

EnqueueConfirm(t) ==
  /\ pc[t] = "e_confirm"
  /\ Goto(t, IF tail = reg[t].t THEN "e_next" ELSE "e_tail")
  /\ UNCHANGED <<queueVars, answer, reg>>

EnqueueNext(t) ==
  /\ pc[t] = "e_next"
  /\ reg' = [reg EXCEPT ![t].next = next[reg[t].t]]
  /\ Goto(t, "e_check")
  /\ UNCHANGED <<queueVars, answer>>

EnqueueCheck(t) ==
  /\ pc[t] = "e_check"
  /\ Goto(t, IF tail # reg[t].t THEN "e_tail"
             ELSE IF reg[t].next # NULL THEN "e_help" ELSE "e_reload")
  /\ UNCHANGED <<queueVars, answer, reg>>

Help(t, from, to) ==
  /\ pc[t] = from
  /\ tail' = IF tail = reg[t].t THEN reg[t].next ELSE tail
  /\ Goto(t, to)
  /\ UNCHANGED <<head, next, data, fresh, answer, reg>>

EnqueueHelp(t) == Help(t, "e_help", "e_tail")

(* The link goes through m_tail once more, not through t_node.             *)
EnqueueReload(t) ==
  /\ pc[t] = "e_reload"
  /\ reg' = [reg EXCEPT ![t].last = tail]
  /\ Goto(t, "e_link")
  /\ UNCHANGED <<queueVars, answer>>

(* Variant: a failed swap is tried again in place.                         *)
EnqueueLinkAgain(t) ==
  LET r == reg[t]
  IN
  /\ pc[t] = "e_link"
  /\ next[r.last] = NULL
  /\ next' = [next EXCEPT ![r.last] = r.new]
  /\ Goto(t, "e_swing")
  /\ UNCHANGED <<head, tail, data, fresh, answer, reg>>

(* Variant: the link is stored, not swapped.                               *)
EnqueueLinkStore(t) ==
  /\ pc[t] = "e_link"
  /\ next' = [next EXCEPT ![reg[t].last] = reg[t].new]
  /\ Goto(t, "e_swing")
  /\ UNCHANGED <<head, tail, data, fresh, answer, reg>>

EnqueueLink(t) ==
  LET r == reg[t]
  IN
  /\ pc[t] = "e_link"
  /\ \/ /\ next[r.last] = NULL
        /\ next' = [next EXCEPT ![r.last] = r.new]
        /\ Goto(t, "e_swing")
     \/ /\ next[r.last] # NULL
        /\ Goto(t, "e_tail")
        /\ UNCHANGED next
  /\ UNCHANGED <<head, tail, data, fresh, answer, reg>>

EnqueueSwing(t) ==
  /\ pc[t] = "e_swing"
  /\ tail' = IF tail = reg[t].t THEN reg[t].new ELSE tail
  /\ Return(t)
  /\ UNCHANGED <<head, next, data, fresh, answer>>

-----------------------------------------------------------------------------
(* QueueDequeue.                                                           *)
DequeueHead(t) ==
  /\ pc[t] = "d_head"
  /\ reg' = [reg EXCEPT ![t].h = head, ![t].t = NULL, ![t].next = NULL, ![t].value = NULL]
  /\ Goto(t, "d_confirm")
  /\ UNCHANGED <<queueVars, answer>>

DequeueConfirm(t) ==
  /\ pc[t] = "d_confirm"
  /\ Goto(t, IF head = reg[t].h THEN "d_tail" ELSE "d_head")
  /\ UNCHANGED <<queueVars, answer, reg>>

DequeueTail(t) ==
  /\ pc[t] = "d_tail"
  /\ reg' = [reg EXCEPT ![t].t = tail]
  /\ Goto(t, "d_next")
  /\ UNCHANGED <<queueVars, answer>>

(* A missing successor is the instant an empty queue was seen.             *)
DequeueNext(t) ==
  LET n == next[reg[t].h]
  IN
  /\ pc[t] = "d_next"
  /\ reg' = [reg EXCEPT ![t].next = n]
  /\ answer' = IF n = NULL THEN [answer EXCEPT ![t] = NULL] ELSE answer
  /\ Goto(t, "d_check")
  /\ UNCHANGED queueVars

DequeueCheck(t) ==
  LET r == reg[t]
  IN
  /\ pc[t] = "d_check"
  /\ \/ head # r.h /\ Goto(t, "d_head") /\ UNCHANGED reg
     \/ head = r.h /\ r.next = NULL /\ Return(t)
     \/ head = r.h /\ r.next # NULL /\ UNCHANGED reg
        /\ Goto(t, IF r.h = r.t THEN "d_help" ELSE "d_data")
  /\ UNCHANGED <<queueVars, answer>>

DequeueHelp(t) == Help(t, "d_help", "d_head")

DequeueData(t) ==
  /\ pc[t] = "d_data"
  /\ reg' = [reg EXCEPT ![t].value = data[reg[t].next]]
  /\ Goto(t, "d_cas")
  /\ UNCHANGED <<queueVars, answer>>

DequeueCas(t) ==
  LET r == reg[t]
  IN
  /\ pc[t] = "d_cas"
  /\ \/ /\ head = r.h
        /\ head' = r.next
        /\ answer' = [answer EXCEPT ![t] = r.value]
        /\ Return(t)
     \/ /\ head # r.h
        /\ Goto(t, "d_head")
        /\ UNCHANGED <<head, answer, reg>>
  /\ UNCHANGED <<tail, next, data, fresh>>

-----------------------------------------------------------------------------
Step(t) ==
  \/ InitHead(t) \/ InitTailRead(t) \/ InitTailCas(t) \/ GiveUp(t) \/ Ready(t)
  \/ EnqueueNode(t) \/ EnqueueTail(t) \/ EnqueueConfirm(t) \/ EnqueueNext(t)
  \/ EnqueueCheck(t) \/ EnqueueHelp(t) \/ EnqueueReload(t) \/ EnqueueLink(t)
  \/ EnqueueSwing(t)
  \/ DequeueHead(t) \/ DequeueConfirm(t) \/ DequeueTail(t) \/ DequeueNext(t)
  \/ DequeueCheck(t) \/ DequeueHelp(t) \/ DequeueData(t) \/ DequeueCas(t)

Next == \E t \in Threads : Call(t) \/ Step(t)

Spec == Init /\ [][Next]_vars

(* A thread inside an operation is scheduled again and again; calls are    *)
(* made or not.                                                            *)
FairSpec == Spec /\ \A t \in Threads : WF_vars(Step(t))

-----------------------------------------------------------------------------
(* The nodes from n to the end, n first.                                   *)
ChainFrom(n) ==
  LET from[m \in Nodes \union {NULL}] == IF m = NULL THEN <<>> ELSE <<m>> \o from[next[m]]
  IN from[n]

(* Once there is a tail it is on the chain of the head, and lags at most   *)
(* one node behind its end: an enqueue links through a tail it loaded a    *)
(* second time, and its swing from the first one may fail.                 *)
TailNearEnd ==
  tail # NULL =>
    LET chain == ChainFrom(head)
    IN \E i \in 1 .. Len(chain) : chain[i] = tail /\ i >= Len(chain) - 1

(* The chain behind the head is a FIFO: enqueues append at the link,       *)
(* dequeues remove at the swap of the head and return what was oldest, and *)
(* a dequeue finds nothing only in an empty queue.                         *)
Waiting ==
  IF head = NULL THEN <<>>
  ELSE LET chain == ChainFrom(next[head])
       IN [i \in 1 .. Len(chain) |-> data[chain[i]]]

Fifo == INSTANCE AbstractFifo WITH items <- Waiting

ImplementsFifo == Fifo!Spec

(* Every enqueue and dequeue returns, whatever the other threads do to the *)
(* words it swaps.                                                         *)
EveryOperationReturns == \A t \in Threads : pc[t] # "idle" ~> pc[t] = "idle"
=============================================================================
