------------------------------ MODULE PktQueue ------------------------------
(***************************************************************************)
(* LockFreePktQueue, between the Python API and the simulator: a linked    *)
(* list whose head node holds no packet, appended to at the tail. Every    *)
(* atomic load and compare-exchange is a step of its own; they are         *)
(* sequentially consistent, as the code uses the default memory order.     *)
(*                                                                         *)
(* i_fifo is filled by Python and emptied by the simulator, o_fifo the     *)
(* other way round. In asynchronous mode the two are different threads.    *)
(***************************************************************************)
EXTENDS Integers, Sequences, FiniteSets

CONSTANTS
  Producer,   \* the thread that puts packets in
  Others,     \* more threads that do so if the queue is shared
  Consumer,   \* the thread that takes packets out
  Nodes,      \* addresses a Node may be allocated at
  Packets,
  Null, NoPkt

Producers == {Producer} \cup Others
Threads   == Producers \cup {Consumer}

ASSUME QueueAssumption ==
  /\ Consumer \notin Producers
  /\ Null \notin Nodes /\ NoPkt \notin Packets

VARIABLES
  shared,      \* there are several producers, and no node is deleted
  head, tail,  \* the queue's two pointers
  next, data,  \* the fields of the nodes
  live,        \* the nodes allocated and not deleted
  pc,          \* where each thread is
  old, nxt,    \* its old_head or old_tail, and its next
  mine,        \* the new_node of each producer
  call,        \* what the consumer called last
  got,         \* the packet it took last
  sure,        \* its is_empty() has returned false since
  chain        \* history: the nodes from head on

heapVars  == <<next, data, live>>
consVars  == <<call, got, sure>>
vars == <<shared, head, tail, heapVars, pc, old, nxt, mine, consVars, chain>>

Init ==
  /\ shared \in BOOLEAN
  /\ head \in Nodes /\ tail = head
  /\ next = [n \in Nodes |-> Null]
  /\ data = [n \in Nodes |-> NoPkt]
  /\ live = {head}
  /\ pc = [t \in Threads |-> "idle"]
  /\ old = [t \in Threads |-> Null] /\ nxt = [t \in Threads |-> Null]
  /\ mine = [p \in Producers |-> Null]
  /\ call = "none" /\ got = NoPkt /\ sure = FALSE
  /\ chain = <<head>>

Goto(t, from, to) == pc[t] = from /\ pc' = [pc EXCEPT ![t] = to]

(* Go on without a load; a call that returns forgets what it read. *)
Step(t, from, to) ==
  /\ Goto(t, from, to)
  /\ IF to = "idle" THEN /\ old' = [old EXCEPT ![t] = Null]
                         /\ nxt' = [nxt EXCEPT ![t] = Null]
                    ELSE UNCHANGED <<old, nxt>>

-----------------------------------------------------------------------------
(* enqueue, enqueue_pkt *)

(* FAULT: a retry goes on with the tail it read before. *)
RetryStale == "e_next"

Retry == "e_tail"

Enqueue(p) ==
  /\ Goto(p, "idle", "e_tail")
  /\ p # Producer => shared
  /\ \E n \in Nodes \ live, v \in Packets :
       /\ next' = [next EXCEPT ![n] = Null]
       /\ data' = [data EXCEPT ![n] = v]
       /\ live' = live \cup {n}
       /\ mine' = [mine EXCEPT ![p] = n]
  /\ UNCHANGED <<shared, head, tail, old, nxt, consVars, chain>>

LoadTail(p) ==
  /\ Goto(p, "e_tail", "e_next")
  /\ old' = [old EXCEPT ![p] = tail]
  /\ UNCHANGED <<shared, head, tail, heapVars, nxt, mine, consVars, chain>>

LoadTailNext(p) ==
  /\ Goto(p, "e_next", "e_check")
  /\ nxt' = [nxt EXCEPT ![p] = next[old[p]]]
  /\ UNCHANGED <<shared, head, tail, heapVars, old, mine, consVars, chain>>

CheckTail(p) ==
  /\ Step(p, "e_check", IF old[p] # tail THEN Retry
                        ELSE IF nxt[p] = Null THEN "e_link" ELSE "e_help")
  /\ UNCHANGED <<shared, head, tail, heapVars, mine, consVars, chain>>

(* FAULT: the new node is linked with a plain store. *)
LinksAlways(p) == TRUE

Links(p) == next[old[p]] = Null

LinkNode(p) ==
  /\ Step(p, "e_link", IF Links(p) THEN "e_swing" ELSE Retry)
  /\ IF Links(p)
     THEN /\ next' = [next EXCEPT ![old[p]] = mine[p]]
          /\ chain' = Append(chain, mine[p])
     ELSE UNCHANGED <<next, chain>>
  /\ UNCHANGED <<shared, head, tail, data, live, mine, consVars>>

(* FAULT: the tail is left to be moved by the next enqueue. *)
SwungTailLazily(p) == tail

SwungTail(p) == IF tail = old[p] THEN mine[p] ELSE tail

SwingTail(p) ==
  /\ Step(p, "e_swing", "idle")
  /\ tail' = SwungTail(p)
  /\ UNCHANGED <<shared, head, heapVars, mine, consVars, chain>>

HelpTail(p) ==
  /\ Step(p, "e_help", Retry)
  /\ tail' = IF tail = old[p] THEN nxt[p] ELSE tail
  /\ UNCHANGED <<shared, head, heapVars, mine, consVars, chain>>

-----------------------------------------------------------------------------
(* is_empty, dequeue and dequeue_pkt *)

SeesNone == next[old[Consumer]] = Null

IsEmpty ==
  /\ Goto(Consumer, "idle", "i_next")
  /\ old' = [old EXCEPT ![Consumer] = head]
  /\ UNCHANGED <<shared, head, tail, heapVars, nxt, mine, consVars, chain>>

IsEmptyNext ==
  /\ Step(Consumer, "i_next", "idle")
  /\ sure' = ~SeesNone
  /\ UNCHANGED <<shared, head, tail, heapVars, mine, call, got, chain>>

(* dequeue() deletes the node that held no packet, dequeue_pkt() does not. *)
Dequeue(f) ==
  /\ Goto(Consumer, "idle", "d_head")
  /\ f = "dequeue" => ~shared
  /\ call' = f
  /\ UNCHANGED <<shared, head, tail, heapVars, old, nxt, mine, got, sure, chain>>

LoadHead ==
  /\ Goto(Consumer, "d_head", "d_next")
  /\ old' = [old EXCEPT ![Consumer] = head]
  /\ UNCHANGED <<shared, head, tail, heapVars, nxt, mine, consVars, chain>>

LoadHeadNext ==
  /\ Goto(Consumer, "d_next", "d_check")
  /\ nxt' = [nxt EXCEPT ![Consumer] = next[old[Consumer]]]
  /\ UNCHANGED <<shared, head, tail, heapVars, old, mine, consVars, chain>>

NothingToTake == nxt[Consumer] = Null

CheckHead ==
  /\ Step(Consumer, "d_check", IF old[Consumer] # head THEN "d_head"
                        ELSE IF NothingToTake THEN "idle" ELSE "d_move")
  /\ UNCHANGED <<shared, head, tail, heapVars, mine, consVars, chain>>

MoveHead ==
  /\ Step(Consumer, "d_move", IF head = old[Consumer] THEN "d_read" ELSE "d_head")
  /\ IF head = old[Consumer]
     THEN head' = nxt[Consumer] /\ chain' = Tail(chain)
     ELSE UNCHANGED <<head, chain>>
  /\ UNCHANGED <<shared, tail, heapVars, mine, consVars>>

Reads == data[nxt[Consumer]]

ReadPacket ==
  /\ Step(Consumer, "d_read", IF call = "dequeue" THEN "d_delete" ELSE "idle")
  /\ got' = Reads
  /\ sure' = FALSE
  /\ UNCHANGED <<shared, head, tail, heapVars, mine, call, chain>>

DeleteHead ==
  /\ Step(Consumer, "d_delete", "idle")
  /\ live' = live \ {old[Consumer]}
  /\ UNCHANGED <<shared, head, tail, next, data, mine, consVars, chain>>

-----------------------------------------------------------------------------
Produce(p) ==
  \/ LoadTail(p) \/ LoadTailNext(p) \/ CheckTail(p)
  \/ LinkNode(p) \/ SwingTail(p) \/ HelpTail(p)

Consume ==
  \/ IsEmptyNext \/ LoadHead \/ LoadHeadNext
  \/ CheckHead \/ MoveHead \/ ReadPacket \/ DeleteHead

Next ==
  \/ \E p \in Producers : Enqueue(p) \/ Produce(p)
  \/ IsEmpty \/ Dequeue("dequeue") \/ Dequeue("dequeue_pkt") \/ Consume

Spec == Init /\ [][Next]_vars

(* A thread that has begun an operation keeps running. *)
FairSpec ==
  /\ Spec
  /\ \A p \in Producers : WF_vars(Produce(p))
  /\ WF_vars(Consume)

-----------------------------------------------------------------------------
(* Properties *)

Places == {"idle", "e_tail", "e_next", "e_check", "e_link", "e_swing", "e_help",
           "i_next", "d_head", "d_next", "d_check", "d_move", "d_read", "d_delete"}

(* The variables keep their types: the two pointers are never null.        *)
TypeOK ==
  /\ shared \in BOOLEAN
  /\ head \in Nodes /\ tail \in Nodes
  /\ next \in [Nodes -> Nodes \cup {Null}]
  /\ data \in [Nodes -> Packets \cup {NoPkt}]
  /\ live \subseteq Nodes
  /\ pc \in [Threads -> Places]
  /\ old \in [Threads -> Nodes \cup {Null}] /\ nxt \in [Threads -> Nodes \cup {Null}]
  /\ mine \in [Producers -> Nodes \cup {Null}]
  /\ call \in {"none", "dequeue", "dequeue_pkt"}
  /\ got \in Packets \cup {NoPkt}
  /\ sure \in BOOLEAN
  /\ chain \in Seq(Nodes)

(* No thread looks into a node that was deleted: what dequeue() frees may  *)
(* be the node tail still points to.                                       *)
NoUseAfterFree ==
  \A t \in Threads :
    /\ pc[t] \in {"e_next", "e_link", "i_next", "d_next"} => old[t] \in live
    /\ pc[t] = "d_read" => nxt[t] \in live
    /\ pc[t] = "d_delete" => old[t] \in live

(* After is_empty() returned false its caller gets a packet: _refill would *)
(* fail its assertions on the one dequeue_pkt() returns when there is none.*)
NonEmptyThenPacket ==
  [][sure /\ pc[Consumer] = "d_check" => pc'[Consumer] # "idle"]_vars

(* The packets come out in the order they went in, each of them once: the  *)
(* queue implements PktFIFO, put in as they are linked, taken as head moves*)
(* and is_empty() tells its consumer the truth.                            *)
Contents == [i \in 1 .. Len(chain) - 1 |-> data[chain[i + 1]]]
Taken    == IF pc[Consumer] = "d_read" THEN data[nxt[Consumer]] ELSE got
FIFO     == INSTANCE PktFIFO WITH queue <- Contents, got <- Taken
ImplementsFIFO == NonEmptyThenPacket /\ FIFO!Spec

(* Every call returns, however the other threads interfere.                *)
CallsReturn == \A t \in Threads : pc[t] # "idle" ~> pc[t] = "idle"

(* The pointers point to nodes, and no thread looks into a deleted one.    *)
PointersSound == TypeOK /\ NoUseAfterFree
=============================================================================
