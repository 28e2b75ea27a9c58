--------------------------- MODULE PktQueue_proofs ---------------------------
(***************************************************************************)
(* Proofs about PktQueue: the pointers stay sound and the queue implements *)
(* PktFIFO, for any number of threads, nodes and packets.                  *)
(*                                                                         *)
(* The two uses of the queue are safe for different reasons. When it is    *)
(* shared, no node is ever deleted, so a node that has been linked keeps a *)
(* next that is not null for ever: a producer that links behind a node     *)
(* whose next is null links behind the last one. When there is one         *)
(* producer, nobody else moves tail: it is the last node whenever the      *)
(* producer reads it, and the last node is never the one deleted.          *)
(***************************************************************************)
EXTENDS PktQueue, TLAPS, SequenceTheorems

Building  == {"e_tail", "e_next", "e_check", "e_link", "e_help"}
Dequeuing == {"i_next", "d_head", "d_next", "d_check", "d_move", "d_read", "d_delete"}

(* p has a node of its own that is not in the list yet. *)
Fresh(p) == pc[p] \in Building

(* n is in the list, or was and is not deleted. *)
Listed(n) == n \in live /\ \A p \in Producers : Fresh(p) => mine[p] # n

LastNode == chain[Len(chain)]

PlacesOK ==
  /\ \A p \in Producers : pc[p] \in Building \cup {"idle", "e_swing"}
  /\ pc[Consumer] \in Dequeuing \cup {"idle"}

(* The list from head on: linked without a cycle, and ended.               *)
ChainOK ==
  /\ Len(chain) >= 1
  /\ head = chain[1]
  /\ \A i \in 1 .. Len(chain) : Listed(chain[i])
  /\ \A i, j \in 1 .. Len(chain) : chain[i] = chain[j] => i = j
  /\ \A i \in 2 .. Len(chain) :
       next[chain[i - 1]] = chain[i] /\ data[chain[i]] \in Packets
  /\ next[LastNode] = Null

FreshOK ==
  \A p \in Producers : Fresh(p) =>
    /\ mine[p] \in live
    /\ next[mine[p]] = Null
    /\ data[mine[p]] \in Packets
    /\ \A q \in Producers : Fresh(q) /\ mine[q] = mine[p] => p = q

(* Several producers: tail may lag anywhere behind, on a node that is not  *)
(* deleted, and only the last node has no next.                            *)
SharedOK ==
  shared =>
    /\ call # "dequeue"
    /\ \A n \in Nodes : Listed(n) =>
         IF next[n] = Null THEN n = LastNode ELSE Listed(next[n])
    /\ Listed(tail)
    /\ \A p \in Producers :
         /\ pc[p] \in {"e_next", "e_check", "e_link", "e_help"} => Listed(old[p])
         /\ pc[p] = "e_check" /\ nxt[p] # Null => Listed(nxt[p])
         /\ pc[p] = "e_help" => Listed(nxt[p])
         /\ pc[p] = "e_swing" => Listed(mine[p])

(* One producer: tail is the last node but between its link and its swing. *)
AloneOK ==
  ~shared =>
    /\ \A p \in Producers : p # Producer => pc[p] = "idle"
    /\ pc[Producer] # "e_help"
    /\ pc[Producer] # "e_swing" => tail = LastNode
    /\ pc[Producer] \in {"e_next", "e_check", "e_link", "e_swing"} =>
         old[Producer] = tail
    /\ pc[Producer] = "e_check" => nxt[Producer] = Null
    /\ pc[Producer] = "e_swing" => mine[Producer] = LastNode

(* Only the consumer moves head: what it read of it is still so.           *)
ConsumerOK ==
  /\ pc[Consumer] \in {"i_next", "d_next", "d_check", "d_move"} => old[Consumer] = head
  /\ pc[Consumer] \in {"d_check", "d_move"} =>
       nxt[Consumer] = Null \/ (Len(chain) >= 2 /\ nxt[Consumer] = chain[2])
  /\ pc[Consumer] = "d_move" => nxt[Consumer] # Null
  /\ pc[Consumer] = "d_read" => nxt[Consumer] = head
  /\ pc[Consumer] \in {"d_read", "d_delete"} =>
       Listed(old[Consumer]) /\ \A i \in 1 .. Len(chain) : chain[i] # old[Consumer]
  /\ pc[Consumer] = "d_delete" => call = "dequeue"
  /\ sure /\ pc[Consumer] # "d_read" => Len(chain) >= 2
  /\ sure /\ pc[Consumer] = "d_check" => nxt[Consumer] # Null

IInv ==
  /\ TypeOK /\ PlacesOK /\ ChainOK /\ FreshOK
  /\ SharedOK /\ AloneOK /\ ConsumerOK

-----------------------------------------------------------------------------
THEOREM Initially == Init => IInv
<1> SUFFICES ASSUME Init PROVE IInv
  OBVIOUS
<1>1. /\ chain = <<head>> /\ Len(chain) = 1 /\ chain[1] = head
      /\ chain \in Seq(Nodes)
  BY DEF Init
<1>2. TypeOK
  BY <1>1, QueueAssumption DEF Init, TypeOK, Threads, Producers, Places, heapVars
<1>3. PlacesOK /\ FreshOK /\ (\A p \in Producers : ~Fresh(p))
  BY QueueAssumption DEF Init, PlacesOK, FreshOK, Fresh, Building, Dequeuing, Threads, Producers
<1>4. ChainOK
  BY <1>1, <1>3 DEF Init, ChainOK, Listed, LastNode
<1>5. SharedOK
  BY <1>1, <1>3 DEF Init, SharedOK, Listed, LastNode, Threads, Producers
<1>6. AloneOK
  BY <1>1, <1>3 DEF Init, AloneOK, LastNode, Threads, Producers
<1>7. ConsumerOK
  BY <1>1, <1>3 DEF Init, ConsumerOK, Threads, Producers
<1> QED
  BY <1>2, <1>3, <1>4, <1>5, <1>6, <1>7 DEF IInv

LEMMA ThreadIdentities ==
  /\ Consumer \in Threads
  /\ \A p \in Producers : p \in Threads /\ p # Consumer
  BY QueueAssumption DEF Threads

(* A step that leaves the nodes and the list alone keeps what is said of   *)
(* them.                                                                   *)
LEMMA ListKept ==
  ASSUME IInv,
         UNCHANGED <<shared, head, next, data, live, mine, chain>>,
         \A q \in Producers : Fresh(q)' <=> Fresh(q)
  PROVE  /\ \A n : Listed(n)' <=> Listed(n)
         /\ LastNode' = LastNode
         /\ ChainOK' /\ FreshOK'
<1>1. \A n : Listed(n)' <=> Listed(n)
  BY DEF Listed
<1>2. LastNode' = LastNode
  BY DEF LastNode
<1>3. ChainOK'
  BY <1>1, <1>2 DEF IInv, ChainOK
<1>4. FreshOK'
  BY DEF IInv, FreshOK
<1> QED
  BY <1>1, <1>2, <1>3, <1>4

(* A producer that only looks, or moves tail.                              *)
LEMMA ProducerLooks ==
  ASSUME IInv, NEW p \in Producers,
         UNCHANGED <<shared, head, next, data, live, mine, chain, call, got, sure>>,
         NEW to \in Building \cup {"idle", "e_swing"}, NEW o, NEW x,
         pc' = [pc EXCEPT ![p] = to],
         old' = [old EXCEPT ![p] = o], nxt' = [nxt EXCEPT ![p] = x],
         o \in Nodes \cup {Null}, x \in Nodes \cup {Null}, tail' \in Nodes,
         to \in Building <=> pc[p] \in Building,
         pc[p] # "idle",
         shared => Listed(tail')
                   /\ (to \in Building \ {"e_tail"} => Listed(o))
                   /\ (to = "e_check" => x = Null \/ Listed(x))
                   /\ (to = "e_help" => Listed(x))
                   /\ to # "e_swing",
         ~shared =>
                   /\ tail' = LastNode /\ to # "e_help" /\ to # "e_swing"
                   /\ (to \in {"e_next", "e_check", "e_link"} => o = tail')
                   /\ (to = "e_check" => x = Null)
  PROVE  IInv'
<1> USE ThreadIdentities DEF IInv
<1>1. \A q \in Threads :
        /\ pc'[q] = IF q = p THEN to ELSE pc[q]
        /\ old'[q] = IF q = p THEN o ELSE old[q]
        /\ nxt'[q] = IF q = p THEN x ELSE nxt[q]
  BY DEF TypeOK
<1>2. \A q \in Producers : Fresh(q)' <=> Fresh(q)
  BY <1>1 DEF Fresh
<1>3. TypeOK'
  BY DEF TypeOK, Places, Building
<1>4. PlacesOK'
  BY <1>1 DEF PlacesOK
<1>5. /\ \A n : Listed(n)' <=> Listed(n)
      /\ LastNode' = LastNode
      /\ ChainOK' /\ FreshOK'
  BY <1>2, ListKept
<1>6. SharedOK'
  BY <1>1, <1>5 DEF SharedOK, Building
<1>7. AloneOK'
  BY <1>1, <1>5 DEF AloneOK, Building, Producers
<1>8. ConsumerOK'
  BY <1>1, <1>5 DEF ConsumerOK
<1> QED
  BY <1>3, <1>4, <1>5, <1>6, <1>7, <1>8

LEMMA LoadTailKeeps ==
  ASSUME IInv, NEW p \in Producers, LoadTail(p)
  PROVE  IInv'
<1> USE ThreadIdentities DEF IInv
<1>1. /\ pc[p] = "e_tail" /\ pc' = [pc EXCEPT ![p] = "e_next"]
      /\ old' = [old EXCEPT ![p] = tail] /\ nxt' = [nxt EXCEPT ![p] = nxt[p]]
      /\ UNCHANGED <<shared, head, tail, next, data, live, mine, chain, call, got, sure>>
  BY DEF LoadTail, Goto, heapVars, consVars, TypeOK
<1>2. (shared => Listed(tail)) /\ (~shared => tail = LastNode)
  BY <1>1 DEF SharedOK, AloneOK, Producers
<1>3. tail \in Nodes /\ nxt[p] \in Nodes \cup {Null}
  BY DEF TypeOK
<1> QED
  BY <1>1, <1>2, <1>3, ProducerLooks DEF Building

LEMMA LoadTailNextKeeps ==
  ASSUME IInv, NEW p \in Producers, LoadTailNext(p)
  PROVE  IInv'
<1> USE ThreadIdentities DEF IInv
<1>1. /\ pc[p] = "e_next" /\ pc' = [pc EXCEPT ![p] = "e_check"]
      /\ old' = [old EXCEPT ![p] = old[p]] /\ nxt' = [nxt EXCEPT ![p] = next[old[p]]]
      /\ UNCHANGED <<shared, head, tail, next, data, live, mine, chain, call, got, sure>>
  BY DEF LoadTailNext, Goto, heapVars, consVars, TypeOK
<1>2. shared => /\ Listed(tail) /\ Listed(old[p])
                /\ next[old[p]] = Null \/ Listed(next[old[p]])
  BY <1>1 DEF SharedOK, TypeOK, Listed
<1>3. ~shared => old[p] = tail /\ tail = LastNode /\ next[old[p]] = Null
  BY <1>1 DEF AloneOK, ChainOK, Producers
<1>4. old[p] \in Nodes /\ next[old[p]] \in Nodes \cup {Null} /\ tail \in Nodes
  BY <1>2, <1>3 DEF TypeOK, Listed
<1> QED
  BY <1>1, <1>2, <1>3, <1>4, ProducerLooks DEF Building

LEMMA CheckTailKeeps ==
  ASSUME IInv, NEW p \in Producers, CheckTail(p)
  PROVE  IInv'
<1> USE ThreadIdentities DEF IInv
<1> DEFINE to == IF old[p] # tail THEN "e_tail"
                 ELSE IF nxt[p] = Null THEN "e_link" ELSE "e_help"
<1>1. /\ pc[p] = "e_check" /\ pc' = [pc EXCEPT ![p] = to]
      /\ old' = [old EXCEPT ![p] = old[p]] /\ nxt' = [nxt EXCEPT ![p] = nxt[p]]
      /\ UNCHANGED <<shared, head, tail, next, data, live, mine, chain, call, got, sure>>
  BY DEF CheckTail, Step, Goto, Retry, heapVars, consVars, TypeOK
<1>2. shared => Listed(tail) /\ Listed(old[p]) /\ (nxt[p] = Null \/ Listed(nxt[p]))
  BY <1>1 DEF SharedOK
<1>3. ~shared => old[p] = tail /\ tail = LastNode /\ nxt[p] = Null
  BY <1>1 DEF AloneOK, Producers
<1> QED
  BY <1>1, <1>2, <1>3, ProducerLooks DEF TypeOK, Building

LEMMA SwingTailKeeps ==
  ASSUME IInv, NEW p \in Producers, SwingTail(p)
  PROVE  IInv'
<1> USE ThreadIdentities DEF IInv
<1>1. /\ pc[p] = "e_swing" /\ pc' = [pc EXCEPT ![p] = "idle"]
      /\ old' = [old EXCEPT ![p] = Null] /\ nxt' = [nxt EXCEPT ![p] = Null]
      /\ tail' = IF tail = old[p] THEN mine[p] ELSE tail
      /\ UNCHANGED <<shared, head, next, data, live, mine, chain, call, got, sure>>
  BY DEF SwingTail, SwungTail, Step, Goto, heapVars, consVars
<1>2. shared => Listed(tail) /\ Listed(mine[p])
  BY <1>1 DEF SharedOK
<1>3. ~shared => old[p] = tail /\ mine[p] = LastNode /\ LastNode \in Nodes
  BY <1>1 DEF AloneOK, ChainOK, LastNode, TypeOK, Producers
<1>4. tail' \in Nodes
  BY <1>1, <1>2, <1>3 DEF TypeOK, Listed
<1> QED
  BY <1>1, <1>2, <1>3, <1>4, ProducerLooks DEF Building

LEMMA HelpTailKeeps ==
  ASSUME IInv, NEW p \in Producers, HelpTail(p)
  PROVE  IInv'
<1> USE ThreadIdentities DEF IInv
<1>1. /\ pc[p] = "e_help" /\ pc' = [pc EXCEPT ![p] = "e_tail"]
      /\ old' = [old EXCEPT ![p] = old[p]] /\ nxt' = [nxt EXCEPT ![p] = nxt[p]]
      /\ tail' = IF tail = old[p] THEN nxt[p] ELSE tail
      /\ UNCHANGED <<shared, head, next, data, live, mine, chain, call, got, sure>>
  BY DEF HelpTail, Step, Goto, Retry, heapVars, consVars, TypeOK
<1>2. shared /\ Listed(tail) /\ Listed(nxt[p])
  BY <1>1 DEF SharedOK, AloneOK, Producers
<1>3. tail' \in Nodes
  BY <1>1, <1>2 DEF TypeOK, Listed
<1> QED
  BY <1>1, <1>2, <1>3, ProducerLooks DEF TypeOK, Building

LEMMA EnqueueKeeps ==
  ASSUME IInv, NEW p \in Producers, Enqueue(p)
  PROVE  IInv'
<1> USE ThreadIdentities DEF IInv
<1>1. PICK n \in Nodes \ live, v \in Packets :
        /\ next' = [next EXCEPT ![n] = Null] /\ data' = [data EXCEPT ![n] = v]
        /\ live' = live \cup {n} /\ mine' = [mine EXCEPT ![p] = n]
  BY DEF Enqueue
<1>2. /\ pc[p] = "idle" /\ pc' = [pc EXCEPT ![p] = "e_tail"]
      /\ p # Producer => shared
      /\ UNCHANGED <<shared, head, tail, old, nxt, call, got, sure, chain>>
  BY DEF Enqueue, Goto, consVars
<1>3. /\ \A q \in Threads : pc'[q] = IF q = p THEN "e_tail" ELSE pc[q]
      /\ \A q \in Producers : mine'[q] = IF q = p THEN n ELSE mine[q]
      /\ \A m \in Nodes : m # n => next'[m] = next[m] /\ data'[m] = data[m]
      /\ next'[n] = Null /\ data'[n] = v
  BY <1>1, <1>2 DEF TypeOK
<1>4. /\ \A q \in Producers : Fresh(q)' <=> Fresh(q) \/ q = p
      /\ ~Fresh(p)
  BY <1>2, <1>3 DEF Fresh, Building
<1>5. \A m : Listed(m)' <=> Listed(m)
  BY <1>1, <1>3, <1>4 DEF Listed, FreshOK
<1>6. \A m : Listed(m) => m \in Nodes /\ m # n
  BY DEF Listed, TypeOK
<1>7. LastNode' = LastNode /\ LastNode \in Nodes /\ LastNode # n
  BY <1>2, <1>6 DEF LastNode, ChainOK, TypeOK
<1>8. TypeOK'
  BY <1>1, <1>2 DEF TypeOK, Places
<1>9. PlacesOK'
  BY <1>2, <1>3 DEF PlacesOK, Building
<1>10. ChainOK'
  <2>1. \A i \in 1 .. Len(chain) : chain[i] \in Nodes /\ chain[i] # n
    BY <1>6 DEF ChainOK
  <2>2. \A i \in 2 .. Len(chain) : i - 1 \in 1 .. Len(chain)
    BY DEF TypeOK
  <2> QED
    BY <1>2, <1>3, <1>5, <1>7, <2>1, <2>2 DEF ChainOK
<1>11. FreshOK'
  BY <1>1, <1>3, <1>4 DEF FreshOK, TypeOK
<1>12. SharedOK'
  BY <1>2, <1>3, <1>5, <1>6, <1>7 DEF SharedOK
<1>13. AloneOK'
  BY <1>2, <1>3, <1>7 DEF AloneOK, Producers
<1>14. ConsumerOK'
  BY <1>2, <1>3, <1>5 DEF ConsumerOK
<1> QED
  BY <1>8, <1>9, <1>10, <1>11, <1>12, <1>13, <1>14

(* A consumer that only looks.                                             *)
LEMMA ConsumerLooks ==
  ASSUME IInv,
         UNCHANGED <<shared, head, tail, next, data, live, mine, chain>>,
         NEW to \in Dequeuing \cup {"idle"}, NEW o, NEW x,
         pc' = [pc EXCEPT ![Consumer] = to],
         old' = [old EXCEPT ![Consumer] = o], nxt' = [nxt EXCEPT ![Consumer] = x],
         o \in Nodes \cup {Null}, x \in Nodes \cup {Null},
         call' \in {"none", "dequeue", "dequeue_pkt"},
         got' \in Packets \cup {NoPkt}, sure' \in BOOLEAN,
         shared => call' # "dequeue"
  PROVE  /\ pc'[Consumer] = to /\ old'[Consumer] = o /\ nxt'[Consumer] = x
         /\ ConsumerOK' => IInv'
         /\ \A n : Listed(n)' <=> Listed(n)
<1> USE ThreadIdentities DEF IInv
<1>1. \A q \in Threads :
        /\ pc'[q] = IF q = Consumer THEN to ELSE pc[q]
        /\ old'[q] = IF q = Consumer THEN o ELSE old[q]
        /\ nxt'[q] = IF q = Consumer THEN x ELSE nxt[q]
  BY DEF TypeOK
<1>2. \A q \in Producers : Fresh(q)' <=> Fresh(q)
  BY <1>1 DEF Fresh
<1>3. TypeOK'
  BY DEF TypeOK, Places, Dequeuing
<1>4. PlacesOK'
  BY <1>1 DEF PlacesOK
<1>5. /\ \A n : Listed(n)' <=> Listed(n)
      /\ LastNode' = LastNode
      /\ ChainOK' /\ FreshOK'
  BY <1>2, ListKept
<1>6. SharedOK'
  BY <1>1, <1>5 DEF SharedOK
<1>7. AloneOK'
  BY <1>1, <1>5 DEF AloneOK, Producers
<1> QED
  BY <1>1, <1>3, <1>4, <1>5, <1>6, <1>7

LEMMA IsEmptyKeeps ==
  ASSUME IInv, IsEmpty
  PROVE  IInv'
<1> USE ThreadIdentities DEF IInv
<1>1. /\ pc[Consumer] = "idle" /\ pc' = [pc EXCEPT ![Consumer] = "i_next"]
      /\ old' = [old EXCEPT ![Consumer] = head]
      /\ nxt' = [nxt EXCEPT ![Consumer] = nxt[Consumer]]
      /\ UNCHANGED <<shared, head, tail, next, data, live, mine, chain, call, got, sure>>
  BY DEF IsEmpty, Goto, heapVars, consVars, TypeOK
<1>2. pc'[Consumer] = "i_next" /\ old'[Consumer] = head /\ (ConsumerOK' => IInv')
  BY <1>1, ConsumerLooks DEF TypeOK, Dequeuing, SharedOK
<1>3. ConsumerOK'
  BY <1>1, <1>2 DEF ConsumerOK
<1> QED
  BY <1>2, <1>3

LEMMA IsEmptyNextKeeps ==
  ASSUME IInv, IsEmptyNext
  PROVE  IInv'
<1> USE ThreadIdentities DEF IInv
<1>1. /\ pc[Consumer] = "i_next" /\ pc' = [pc EXCEPT ![Consumer] = "idle"]
      /\ old' = [old EXCEPT ![Consumer] = Null]
      /\ nxt' = [nxt EXCEPT ![Consumer] = Null]
      /\ sure' = (next[old[Consumer]] # Null)
      /\ UNCHANGED <<shared, head, tail, next, data, live, mine, chain, call, got>>
  BY DEF IsEmptyNext, SeesNone, Step, Goto, heapVars
<1>2. pc'[Consumer] = "idle" /\ (ConsumerOK' => IInv')
  BY <1>1, ConsumerLooks DEF TypeOK, Dequeuing, SharedOK
<1>3. sure' => Len(chain) >= 2
  BY <1>1 DEF ConsumerOK, ChainOK, LastNode, TypeOK
<1>4. ConsumerOK'
  BY <1>1, <1>2, <1>3 DEF ConsumerOK
<1> QED
  BY <1>2, <1>4

LEMMA DequeueKeeps ==
  ASSUME IInv, NEW f \in {"dequeue", "dequeue_pkt"}, Dequeue(f)
  PROVE  IInv'
<1> USE ThreadIdentities DEF IInv
<1>1. /\ pc[Consumer] = "idle" /\ pc' = [pc EXCEPT ![Consumer] = "d_head"]
      /\ old' = [old EXCEPT ![Consumer] = old[Consumer]]
      /\ nxt' = [nxt EXCEPT ![Consumer] = nxt[Consumer]]
      /\ call' = f /\ (f = "dequeue" => ~shared)
      /\ UNCHANGED <<shared, head, tail, next, data, live, mine, chain, got, sure>>
  BY DEF Dequeue, Goto, heapVars, TypeOK
<1>2. pc'[Consumer] = "d_head" /\ (ConsumerOK' => IInv')
  BY <1>1, ConsumerLooks DEF TypeOK, Dequeuing
<1>3. ConsumerOK'
  BY <1>1, <1>2 DEF ConsumerOK
<1> QED
  BY <1>2, <1>3

LEMMA LoadHeadKeeps ==
  ASSUME IInv, LoadHead
  PROVE  IInv'
<1> USE ThreadIdentities DEF IInv
<1>1. /\ pc[Consumer] = "d_head" /\ pc' = [pc EXCEPT ![Consumer] = "d_next"]
      /\ old' = [old EXCEPT ![Consumer] = head]
      /\ nxt' = [nxt EXCEPT ![Consumer] = nxt[Consumer]]
      /\ UNCHANGED <<shared, head, tail, next, data, live, mine, chain, call, got, sure>>
  BY DEF LoadHead, Goto, heapVars, consVars, TypeOK
<1>2. pc'[Consumer] = "d_next" /\ old'[Consumer] = head /\ (ConsumerOK' => IInv')
  BY <1>1, ConsumerLooks DEF TypeOK, Dequeuing, SharedOK
<1>3. ConsumerOK'
  BY <1>1, <1>2 DEF ConsumerOK
<1> QED
  BY <1>2, <1>3

(* What follows the node head points to.                                   *)
LEMMA NextOfHead ==
  ASSUME IInv
  PROVE  /\ next[head] = Null => Len(chain) = 1
         /\ next[head] # Null => Len(chain) >= 2 /\ next[head] = chain[2]
         /\ head \in live /\ head \in Nodes
<1>1. CASE Len(chain) >= 2
  <2>1. chain[1] \in live /\ chain[2] \in live /\ next[chain[1]] = chain[2]
    BY <1>1 DEF IInv, ChainOK, TypeOK, Listed
  <2> QED
    BY <1>1, <2>1, QueueAssumption DEF IInv, ChainOK, TypeOK
<1>2. CASE Len(chain) = 1
  BY <1>2 DEF IInv, ChainOK, TypeOK, Listed, LastNode
<1>3. Len(chain) \in Nat /\ Len(chain) >= 1
  BY DEF IInv, ChainOK, TypeOK
<1> QED
  BY <1>1, <1>2, <1>3

LEMMA LoadHeadNextKeeps ==
  ASSUME IInv, LoadHeadNext
  PROVE  IInv'
<1> USE ThreadIdentities DEF IInv
<1>1. /\ pc[Consumer] = "d_next" /\ pc' = [pc EXCEPT ![Consumer] = "d_check"]
      /\ old' = [old EXCEPT ![Consumer] = head] /\ old[Consumer] = head
      /\ nxt' = [nxt EXCEPT ![Consumer] = next[head]]
      /\ UNCHANGED <<shared, head, tail, next, data, live, mine, chain, call, got, sure>>
  BY DEF LoadHeadNext, Goto, heapVars, consVars, TypeOK, ConsumerOK
<1>2. /\ pc'[Consumer] = "d_check" /\ old'[Consumer] = head
      /\ nxt'[Consumer] = next[head] /\ (ConsumerOK' => IInv')
  <2>1. head \in Nodes /\ next[head] \in Nodes \cup {Null}
    BY DEF TypeOK
  <2>2. /\ call \in {"none", "dequeue", "dequeue_pkt"} /\ sure \in BOOLEAN
        /\ got \in Packets \cup {NoPkt} /\ (shared => call # "dequeue")
    BY DEF TypeOK, SharedOK
  <2> QED
    BY <1>1, <2>1, <2>2, ConsumerLooks DEF Dequeuing
<1>3. ConsumerOK'
  BY <1>1, <1>2, NextOfHead DEF ConsumerOK
<1> QED
  BY <1>2, <1>3

LEMMA CheckHeadKeeps ==
  ASSUME IInv, CheckHead
  PROVE  IInv' /\ (sure => pc'[Consumer] = "d_move")
<1> USE ThreadIdentities DEF IInv
<1>1. CASE NothingToTake
  <2>1. /\ pc[Consumer] = "d_check" /\ pc' = [pc EXCEPT ![Consumer] = "idle"]
        /\ old' = [old EXCEPT ![Consumer] = Null]
        /\ nxt' = [nxt EXCEPT ![Consumer] = Null]
        /\ UNCHANGED <<shared, head, tail, next, data, live, mine, chain, call, got, sure>>
    BY <1>1 DEF CheckHead, Step, Goto, heapVars, consVars, ConsumerOK
  <2>2. pc'[Consumer] = "idle" /\ (ConsumerOK' => IInv')
    BY <2>1, ConsumerLooks DEF TypeOK, Dequeuing, SharedOK
  <2> QED
    BY <1>1, <2>1, <2>2 DEF ConsumerOK, NothingToTake
<1>2. CASE ~NothingToTake
  <2>1. /\ pc[Consumer] = "d_check" /\ pc' = [pc EXCEPT ![Consumer] = "d_move"]
        /\ old' = [old EXCEPT ![Consumer] = old[Consumer]]
        /\ nxt' = [nxt EXCEPT ![Consumer] = nxt[Consumer]]
        /\ UNCHANGED <<shared, head, tail, next, data, live, mine, chain, call, got, sure>>
    BY <1>2 DEF CheckHead, Step, Goto, heapVars, consVars, ConsumerOK, TypeOK
  <2>2. /\ pc'[Consumer] = "d_move" /\ old'[Consumer] = old[Consumer]
        /\ nxt'[Consumer] = nxt[Consumer] /\ (ConsumerOK' => IInv')
    BY <2>1, ConsumerLooks DEF TypeOK, Dequeuing, SharedOK
  <2> QED
    BY <1>2, <2>1, <2>2 DEF ConsumerOK, NothingToTake
<1> QED
  BY <1>1, <1>2

LEMMA ReadPacketKeeps ==
  ASSUME IInv, ReadPacket
  PROVE  IInv'
<1> USE ThreadIdentities DEF IInv
<1> DEFINE to == IF call = "dequeue" THEN "d_delete" ELSE "idle"
           o  == IF call = "dequeue" THEN old[Consumer] ELSE Null
           x  == IF call = "dequeue" THEN nxt[Consumer] ELSE Null
<1>1. /\ pc[Consumer] = "d_read" /\ pc' = [pc EXCEPT ![Consumer] = to]
      /\ old' = [old EXCEPT ![Consumer] = o]
      /\ nxt' = [nxt EXCEPT ![Consumer] = x]
      /\ got' = data[nxt[Consumer]] /\ sure' = FALSE
      /\ UNCHANGED <<shared, head, tail, next, data, live, mine, chain, call>>
  BY DEF ReadPacket, Reads, Step, Goto, heapVars, TypeOK
<1>2. got' \in Packets \cup {NoPkt}
  BY <1>1 DEF ConsumerOK, TypeOK
<1>3. /\ pc'[Consumer] = to /\ old'[Consumer] = o
      /\ (ConsumerOK' => IInv') /\ \A n : Listed(n)' <=> Listed(n)
  BY <1>1, <1>2, ConsumerLooks DEF TypeOK, Dequeuing, SharedOK
<1>4. ConsumerOK'
  BY <1>1, <1>3 DEF ConsumerOK
<1> QED
  BY <1>3, <1>4

LEMMA MoveHeadKeeps ==
  ASSUME IInv, MoveHead
  PROVE  /\ IInv'
         /\ Len(chain) >= 2 /\ chain' = Tail(chain)
         /\ nxt'[Consumer] = chain[2] /\ pc'[Consumer] = "d_read"
<1> USE ThreadIdentities DEF IInv
<1>1. /\ pc[Consumer] = "d_move" /\ pc' = [pc EXCEPT ![Consumer] = "d_read"]
      /\ old[Consumer] = head /\ nxt[Consumer] = chain[2] /\ Len(chain) >= 2
      /\ head' = chain[2] /\ chain' = Tail(chain)
      /\ UNCHANGED <<shared, tail, next, data, live, mine, old, nxt, call, got, sure>>
  BY DEF MoveHead, Step, Goto, heapVars, consVars, ConsumerOK
<1>2. /\ Len(chain') = Len(chain) - 1 /\ chain' \in Seq(Nodes) /\ Len(chain) \in Nat
      /\ \A i \in 1 .. Len(chain) - 1 : chain'[i] = chain[i + 1]
  BY <1>1, HeadTailProperties DEF TypeOK
<1>3. \A q \in Threads : pc'[q] = IF q = Consumer THEN "d_read" ELSE pc[q]
  BY <1>1 DEF TypeOK
<1>4. \A q \in Producers : Fresh(q)' <=> Fresh(q)
  BY <1>3 DEF Fresh
<1>5. \A n : Listed(n)' <=> Listed(n)
  BY <1>1, <1>4 DEF Listed
<1>6. LastNode' = LastNode
  BY <1>1, <1>2 DEF LastNode
<1>7. TypeOK'
  BY <1>1, <1>2 DEF TypeOK, Places
<1>8. PlacesOK' /\ FreshOK'
  BY <1>1, <1>3, <1>4 DEF PlacesOK, FreshOK, Dequeuing
<1>9. ChainOK'
  <2>1. \A i \in 1 .. Len(chain') : Listed(chain[i])'
    <3> SUFFICES ASSUME NEW i \in 1 .. Len(chain') PROVE Listed(chain[i + 1])
      BY <1>2, <1>5
    <3> QED
      BY <1>2 DEF ChainOK
  <2>2. \A i, j \in 1 .. Len(chain') : chain'[i] = chain'[j] => i = j
    <3> SUFFICES ASSUME NEW i \in 1 .. Len(chain'), NEW j \in 1 .. Len(chain'),
                        chain[i + 1] = chain[j + 1]
                 PROVE  i = j
      BY <1>2
    <3> QED
      BY <1>2 DEF ChainOK
  <2>3. \A i \in 2 .. Len(chain') :
          next'[chain'[i - 1]] = chain'[i] /\ data'[chain'[i]] \in Packets
    <3> SUFFICES ASSUME NEW i \in 2 .. Len(chain')
                 PROVE  next[chain[i]] = chain[i + 1] /\ data[chain[i + 1]] \in Packets
      BY <1>1, <1>2
    <3> QED
      BY <1>2 DEF ChainOK
  <2> QED
    BY <1>1, <1>2, <1>6, <2>1, <2>2, <2>3 DEF ChainOK
<1>10. SharedOK'
  BY <1>1, <1>3, <1>5, <1>6 DEF SharedOK
<1>11. AloneOK'
  BY <1>1, <1>3, <1>6 DEF AloneOK, Producers
<1>12. ConsumerOK'
  <2>1. Listed(chain[1]) /\ \A i \in 1 .. Len(chain') : chain[i + 1] # chain[1]
    BY <1>2 DEF ChainOK
  <2> QED
    BY <1>1, <1>2, <1>3, <1>5, <2>1 DEF ConsumerOK, ChainOK
<1> QED
  BY <1>1, <1>3, <1>7, <1>8, <1>9, <1>10, <1>11, <1>12

LEMMA DeleteHeadKeeps ==
  ASSUME IInv, DeleteHead
  PROVE  IInv'
<1> USE ThreadIdentities DEF IInv
<1>1. /\ pc[Consumer] = "d_delete" /\ pc' = [pc EXCEPT ![Consumer] = "idle"]
      /\ old' = [old EXCEPT ![Consumer] = Null]
      /\ nxt' = [nxt EXCEPT ![Consumer] = Null]
      /\ live' = live \ {old[Consumer]} /\ ~shared
      /\ UNCHANGED <<shared, head, tail, next, data, mine, chain, call, got, sure>>
  BY DEF DeleteHead, Step, Goto, consVars, ConsumerOK, SharedOK
<1>2. \A q \in Threads :
        /\ pc'[q] = IF q = Consumer THEN "idle" ELSE pc[q]
        /\ old'[q] = IF q = Consumer THEN Null ELSE old[q]
        /\ nxt'[q] = IF q = Consumer THEN Null ELSE nxt[q]
  BY <1>1 DEF TypeOK
<1>3. \A q \in Producers : Fresh(q)' <=> Fresh(q)
  BY <1>2 DEF Fresh
<1>4. \A n : Listed(n)' <=> Listed(n) /\ n # old[Consumer]
  BY <1>1, <1>3 DEF Listed
<1>5. LastNode' = LastNode
  BY <1>1 DEF LastNode
<1>6. TypeOK'
  BY <1>1 DEF TypeOK, Places
<1>7. PlacesOK'
  BY <1>2 DEF PlacesOK
<1>8. ChainOK'
  BY <1>1, <1>4, <1>5 DEF ChainOK, ConsumerOK
<1>9. FreshOK'
  BY <1>1, <1>3 DEF FreshOK, ConsumerOK, Listed
<1>10. SharedOK' /\ AloneOK'
  BY <1>1, <1>2, <1>5 DEF SharedOK, AloneOK, Producers
<1>11. ConsumerOK'
  BY <1>1, <1>2 DEF ConsumerOK
<1> QED
  BY <1>6, <1>7, <1>8, <1>9, <1>10, <1>11

LEMMA LinkKeeps ==
  ASSUME IInv, NEW p \in Producers, LinkNode(p)
  PROVE  IInv'
<1> USE ThreadIdentities DEF IInv
<1>1. CASE ~Links(p)
  <2>1. /\ pc[p] = "e_link" /\ pc' = [pc EXCEPT ![p] = "e_tail"]
        /\ old' = [old EXCEPT ![p] = old[p]] /\ nxt' = [nxt EXCEPT ![p] = nxt[p]]
        /\ UNCHANGED <<shared, head, tail, next, data, live, mine, chain, call, got, sure>>
    BY <1>1 DEF LinkNode, Step, Goto, Retry, heapVars, consVars, TypeOK
  <2>2. (shared => Listed(tail)) /\ (~shared => tail = LastNode)
    BY <2>1 DEF SharedOK, AloneOK, Producers
  <2> QED
    BY <2>1, <2>2, ProducerLooks DEF TypeOK, Building
<1>2. CASE Links(p)
  <2>1. /\ pc[p] = "e_link" /\ pc' = [pc EXCEPT ![p] = "e_swing"]
        /\ next[old[p]] = Null /\ next' = [next EXCEPT ![old[p]] = mine[p]]
        /\ chain' = Append(chain, mine[p])
        /\ UNCHANGED <<shared, head, tail, data, live, old, nxt, mine, call, got, sure>>
    BY <1>2 DEF LinkNode, Step, Goto, Retry, heapVars, consVars, Links
  <2>2. \A q \in Threads : pc'[q] = IF q = p THEN "e_swing" ELSE pc[q]
    BY <2>1 DEF TypeOK
  <2>3. /\ Fresh(p) /\ mine[p] \in Nodes
        /\ \A q \in Producers : Fresh(q)' <=> Fresh(q) /\ q # p
    BY <2>1, <2>2 DEF Fresh, Building, Threads, FreshOK, TypeOK
  <2>4. \A n : Listed(n)' <=> Listed(n) \/ n = mine[p]
    BY <2>1, <2>3 DEF Listed, FreshOK
  <2>5. old[p] = LastNode
    BY <2>1, <2>3 DEF SharedOK, AloneOK, TypeOK, Listed, Producers
  <2>6. /\ Len(chain') = Len(chain) + 1
        /\ \A i \in 1 .. Len(chain) : chain'[i] = chain[i]
        /\ chain'[Len(chain) + 1] = mine[p]
        /\ chain' \in Seq(Nodes)
        /\ Len(chain) \in Nat
    BY <2>1, <2>3 DEF TypeOK
  <2>7. TypeOK'
    BY <2>1, <2>6, <2>3 DEF TypeOK, Places
  <2>8. PlacesOK' 
    BY <2>1, <2>2, <2>3 DEF PlacesOK, Building, Threads
  <2>9. FreshOK'
    BY <2>1, <2>2, <2>3, <2>5 DEF FreshOK, Building, Threads, ChainOK, Listed, LastNode, TypeOK
  <2>10. ChainOK' 
    <3>1. LastNode' = mine[p] /\ next'[mine[p]] = Null /\ next'[LastNode] = mine[p] /\ ~Listed(mine[p])
      BY <2>1, <2>3, <2>5, <2>6 DEF LastNode, FreshOK, ChainOK, Listed, TypeOK
    <3>2. \A i \in 1 .. Len(chain) : chain[i] # mine[p] /\ chain[i] \in Nodes
      BY <3>1 DEF ChainOK, TypeOK
    <3>3. \A i \in 2 .. Len(chain) : next'[chain[i - 1]] = next[chain[i - 1]]
      BY <2>1, <3>2, <2>5 DEF ChainOK, LastNode, TypeOK
    <3>4. Len(chain') >= 1 /\ head' = chain'[1]
      BY <2>1, <2>6 DEF ChainOK
    <3>5. \A i \in 1 .. Len(chain') : Listed(chain[i])'
      BY <2>4, <2>6, <2>1 DEF ChainOK
    <3>6. \A i, j \in 1 .. Len(chain') : chain'[i] = chain'[j] => i = j
      BY <2>6, <3>2 DEF ChainOK
    <3>7. \A i \in 2 .. Len(chain') : next'[chain'[i - 1]] = chain'[i] /\ data'[chain'[i]] \in Packets
      BY <2>1, <2>3, <2>6, <3>1, <3>3 DEF ChainOK, FreshOK, LastNode
    <3> QED BY <3>1, <3>4, <3>5, <3>6, <3>7 DEF ChainOK
  <2>11. SharedOK'
    <3> SUFFICES ASSUME shared PROVE SharedOK'
      BY <2>1 DEF SharedOK
    <3>1. LastNode' = mine[p] /\ LastNode \in Nodes
      BY <2>6, <2>1 DEF LastNode, ChainOK, TypeOK
    <3>2. \A n \in Nodes : next'[n] = IF n = LastNode THEN mine[p] ELSE next[n]
      BY <2>1, <2>5 DEF TypeOK
    <3>3. \A n \in Nodes : Listed(n)' =>
            IF next'[n] = Null THEN n = mine[p] ELSE Listed(next[n])'
      <4> SUFFICES ASSUME NEW n \in Nodes, Listed(n) \/ n = mine[p]
                   PROVE  IF next'[n] = Null THEN n = mine[p]
                                             ELSE Listed(next'[n]) \/ next'[n] = mine[p]
        BY <2>4
      <4>1. CASE n = LastNode
        BY <4>1, <3>2, <2>3, QueueAssumption
      <4>2. CASE n = mine[p] /\ n # LastNode
        BY <4>2, <3>2, <2>3 DEF FreshOK
      <4>3. CASE Listed(n) /\ n # LastNode
        BY <4>3, <3>2 DEF SharedOK
      <4> QED
        BY <4>1, <4>2, <4>3
    <3> QED
      BY <2>1, <2>2, <2>4, <3>1, <3>3 DEF SharedOK
  <2>12. AloneOK'
    BY <2>1, <2>2, <2>3, <2>5, <2>6 DEF AloneOK, LastNode, Threads, Producers
  <2>13. ConsumerOK'
    BY <2>1, <2>2, <1>1, <2>3, <2>4, <2>6 DEF ConsumerOK, Listed, ChainOK
  <2> QED BY <2>7, <2>8, <2>9, <2>10, <2>11, <2>12, <2>13
<1> QED
  BY <1>1, <1>2

LEMMA InductiveStep == IInv /\ [Next]_vars => IInv'
<1> SUFFICES ASSUME IInv, [Next]_vars PROVE IInv'
  OBVIOUS
<1>1. ASSUME NEW p \in Producers, Enqueue(p) \/ Produce(p)
      PROVE  IInv'
  BY <1>1, EnqueueKeeps, LoadTailKeeps, LoadTailNextKeeps, CheckTailKeeps,
     LinkKeeps, SwingTailKeeps, HelpTailKeeps DEF Produce
<1>2. CASE IsEmpty \/ Dequeue("dequeue") \/ Dequeue("dequeue_pkt")
  BY <1>2, IsEmptyKeeps, DequeueKeeps
<1>3. CASE Consume
  BY <1>3, IsEmptyNextKeeps, LoadHeadKeeps, LoadHeadNextKeeps, CheckHeadKeeps,
     MoveHeadKeeps, ReadPacketKeeps, DeleteHeadKeeps DEF Consume
<1>4. CASE UNCHANGED vars
  <2>1. UNCHANGED <<shared, head, tail, next, data, live, pc, old, nxt, mine,
                    call, got, sure, chain>>
    BY <1>4 DEF vars, heapVars, consVars
  <2>2. \A q \in Producers : Fresh(q)' <=> Fresh(q)
    BY <2>1 DEF Fresh
  <2>3. /\ \A n : Listed(n)' <=> Listed(n)
        /\ LastNode' = LastNode
        /\ ChainOK' /\ FreshOK'
    BY <2>1, <2>2, ListKept
  <2>4. TypeOK' /\ PlacesOK'
    BY <2>1 DEF IInv, TypeOK, PlacesOK
  <2>5. SharedOK' /\ AloneOK'
    BY <2>1, <2>3 DEF IInv, SharedOK, AloneOK
  <2>6. ConsumerOK'
    BY <2>1, <2>3 DEF IInv, ConsumerOK
  <2> QED
    BY <2>3, <2>4, <2>5, <2>6 DEF IInv
<1> QED
  BY <1>1, <1>2, <1>3, <1>4 DEF Next

(* The invariant holds throughout.                                         *)
THEOREM InductiveInvariant == Spec => []IInv
<1>1. Init => IInv
  BY Initially
<1> QED
  BY <1>1, InductiveStep, PTL DEF Spec

-----------------------------------------------------------------------------
(* Pointers *)

(* The pointers point to nodes, and no thread looks into a node that       *)
(* dequeue() deleted.                                                      *)
THEOREM PointersStaySound == Spec => []PointersSound
<1>1. IInv => PointersSound
  <2> SUFFICES ASSUME IInv PROVE NoUseAfterFree
    BY DEF IInv, PointersSound
  <2>1. head \in live /\ LastNode \in live
    BY DEF IInv, ChainOK, Listed, LastNode, TypeOK
  <2>2. ASSUME NEW p \in Producers, pc[p] \in {"e_next", "e_link"}
        PROVE  old[p] \in live
    <3>1. CASE shared
      BY <2>2, <3>1 DEF IInv, SharedOK, Listed
    <3>2. CASE ~shared
      BY <2>2, <2>1, <3>2 DEF IInv, AloneOK
    <3> QED
      BY <3>1, <3>2
  <2>3. pc[Consumer] \in {"i_next", "d_next", "d_delete"} => old[Consumer] \in live
    BY <2>1 DEF IInv, ConsumerOK, Listed
  <2>4. pc[Consumer] = "d_read" => nxt[Consumer] \in live
    BY <2>1 DEF IInv, ConsumerOK
  <2>5. \A p \in Producers : pc[p] \in Building \cup {"idle", "e_swing"}
    BY DEF IInv, PlacesOK
  <2>6. pc[Consumer] \in Dequeuing \cup {"idle"}
    BY DEF IInv, PlacesOK
  <2> QED
    BY <2>2, <2>3, <2>4, <2>5, <2>6 DEF NoUseAfterFree, Threads, Building, Dequeuing
<1> QED
  BY <1>1, InductiveInvariant, PTL

(* After is_empty() returned false its caller gets a packet.               *)
THEOREM NonEmptyMeansPacket == Spec => NonEmptyThenPacket
<1>1. IInv /\ [Next]_vars =>
        [sure /\ pc[Consumer] = "d_check" => pc'[Consumer] # "idle"]_vars
  <2> SUFFICES ASSUME IInv, Next, sure, pc[Consumer] = "d_check"
               PROVE  pc'[Consumer] # "idle"
    OBVIOUS
  <2>1. CASE CheckHead
    BY <2>1, CheckHeadKeeps
  <2>2. ASSUME NEW p \in Producers, Enqueue(p) \/ Produce(p)
        PROVE  pc'[Consumer] # "idle"
    <3>1. pc'[Consumer] = pc[Consumer]
      BY <2>2, ThreadIdentities
         DEF IInv, TypeOK, Enqueue, Produce, LoadTail, LoadTailNext, CheckTail,
             LinkNode, SwingTail, HelpTail, Step, Goto
    <3> QED
      BY <3>1
  <2> QED
    BY <2>1, <2>2
       DEF Next, Consume, IsEmpty, Dequeue, IsEmptyNext, LoadHead, LoadHeadNext,
           MoveHead, ReadPacket, DeleteHead, Step, Goto
<1> QED
  BY <1>1, InductiveInvariant, PTL DEF Spec, NonEmptyThenPacket

-----------------------------------------------------------------------------
(* The refinement of PktFIFO *)

(* The packets of the nodes c[2], c[3], ... *)
PacketsOf(c, d) == [i \in 1 .. Len(c) - 1 |-> d[c[i + 1]]]

LEMMA PacketsOfType ==
  ASSUME NEW c \in Seq(Nodes), NEW d, Len(c) >= 1,
         \A i \in 2 .. Len(c) : d[c[i]] \in Packets
  PROVE  /\ PacketsOf(c, d) \in Seq(Packets)
         /\ Len(PacketsOf(c, d)) = Len(c) - 1
         /\ \A i \in 1 .. Len(c) - 1 : PacketsOf(c, d)[i] = d[c[i + 1]]
<1>1. Len(c) \in Nat /\ Len(c) - 1 \in Nat
  OBVIOUS
<1>2. \A i \in 1 .. Len(c) - 1 : d[c[i + 1]] \in Packets
  BY <1>1
<1>3. PacketsOf(c, d) \in [1 .. Len(c) - 1 -> Packets]
  BY <1>2 DEF PacketsOf
<1>4. PacketsOf(c, d) \in Seq(Packets)
  BY <1>1, <1>3, SeqDef
<1>5. DOMAIN PacketsOf(c, d) = 1 .. Len(PacketsOf(c, d))
  BY <1>4, LenProperties
<1>6. Len(PacketsOf(c, d)) = Len(c) - 1
  BY <1>1, <1>3, <1>4
<1> QED
  BY <1>4, <1>6 DEF PacketsOf

LEMMA ContentsType ==
  ASSUME IInv
  PROVE  /\ Contents \in Seq(Packets)
         /\ Len(Contents) = Len(chain) - 1
         /\ \A i \in 1 .. Len(chain) - 1 : Contents[i] = data[chain[i + 1]]
<1>1. Contents = PacketsOf(chain, data)
  BY DEF Contents, PacketsOf
<1>2. chain \in Seq(Nodes) /\ Len(chain) >= 1 /\ \A i \in 2 .. Len(chain) : data[chain[i]] \in Packets
  BY DEF IInv, ChainOK, TypeOK
<1> QED
  BY <1>1, <1>2, PacketsOfType

LEMMA ContentsTypeNext ==
  ASSUME IInv'
  PROVE  /\ Contents' \in Seq(Packets)
         /\ Len(Contents') = Len(chain') - 1
         /\ \A i \in 1 .. Len(chain') - 1 : Contents'[i] = data'[chain'[i + 1]]
<1>1. Contents' = PacketsOf(chain', data')
  BY DEF Contents, PacketsOf
<1>2. chain' \in Seq(Nodes) /\ Len(chain') >= 1
      /\ \A i \in 2 .. Len(chain') : data'[chain'[i]] \in Packets
  BY DEF IInv, ChainOK, TypeOK
<1> QED
  BY <1>1, <1>2, PacketsOfType

LEMMA ContentsKept ==
  ASSUME IInv, chain' = chain, \A n : Listed(n) => data'[n] = data[n]
  PROVE  Contents' = Contents
<1>1. \A i \in 1 .. Len(chain) - 1 : data'[chain[i + 1]] = data[chain[i + 1]]
  <2> SUFFICES ASSUME NEW i \in 1 .. Len(chain) - 1
               PROVE  Listed(chain[i + 1])
    OBVIOUS
  <2> QED
    BY DEF IInv, ChainOK, TypeOK
<1> QED
  BY <1>1 DEF Contents

(* A packet is put in by the compare-exchange that links its node.         *)
LEMMA LinkPuts ==
  ASSUME IInv, NEW p \in Producers, LinkNode(p)
  PROVE  \/ \E k \in Packets : Contents' = Append(Contents, k)
         \/ Contents' = Contents
<1>1. CASE ~Links(p)
  BY <1>1, ContentsKept DEF LinkNode
<1>2. CASE Links(p)
  <2>1. chain' = Append(chain, mine[p]) /\ data' = data /\ pc[p] = "e_link"
    BY <1>2 DEF LinkNode, Step, Goto
  <2>2. data[mine[p]] \in Packets /\ mine[p] \in Nodes
    BY <2>1 DEF IInv, FreshOK, Fresh, Building, TypeOK
  <2>3. /\ Len(chain') = Len(chain) + 1 /\ Len(chain) \in Nat
        /\ \A i \in 1 .. Len(chain) : chain'[i] = chain[i]
        /\ chain'[Len(chain) + 1] = mine[p]
    BY <2>1, <2>2 DEF IInv, TypeOK
  <2>4. /\ Contents' \in Seq(Packets)
        /\ Len(Contents') = Len(chain)
        /\ \A i \in 1 .. Len(chain) : Contents'[i] = data[chain'[i + 1]]
    BY <2>1, <2>3, LinkKeeps, ContentsTypeNext
  <2> DEFINE k == data[mine[p]]
  <2>5. /\ Append(Contents, k) \in Seq(Packets)
        /\ Len(Append(Contents, k)) = Len(chain)
        /\ \A i \in 1 .. Len(chain) - 1 : Append(Contents, k)[i] = Contents[i]
        /\ Append(Contents, k)[Len(chain)] = k
    BY <2>2, <2>3, ContentsType, AppendProperties
  <2>6. \A i \in 1 .. Len(chain) : Contents'[i] = Append(Contents, k)[i]
    <3> SUFFICES ASSUME NEW i \in 1 .. Len(chain)
                 PROVE  Contents'[i] = Append(Contents, k)[i]
      OBVIOUS
    <3>1. CASE i = Len(chain)
      <4>1. Contents'[i] = data[chain'[Len(chain) + 1]]
        BY <2>4, <3>1
      <4>2. Contents'[i] = k
        BY <4>1, <2>3
      <4> QED
        BY <4>2, <2>5, <3>1
    <3>2. CASE i \in 1 .. Len(chain) - 1
      <4>1. i + 1 \in 1 .. Len(chain)
        BY <2>3, <3>2
      <4>2. chain'[i + 1] = chain[i + 1]
        BY <4>1, <2>3
      <4>3. Contents'[i] = data[chain'[i + 1]]
        BY <2>4
      <4>4. Contents[i] = data[chain[i + 1]]
        BY <3>2, ContentsType
      <4>5. Append(Contents, k)[i] = Contents[i]
        BY <2>5, <3>2
      <4>6. Contents'[i] = Contents[i]
        BY <4>2, <4>3, <4>4
      <4> QED
        BY <4>5, <4>6
    <3>3. i = Len(chain) \/ i \in 1 .. Len(chain) - 1
      BY <2>3
    <3> QED
      BY <3>1, <3>2, <3>3
  <2>7. Contents' = Append(Contents, k)
    BY <2>4, <2>5, <2>6, SeqEqual
  <2> QED
    BY <2>2, <2>7
<1> QED
  BY <1>1, <1>2

(* A packet is taken by the compare-exchange that moves head.              *)
LEMMA MoveTakes ==
  ASSUME IInv, MoveHead
  PROVE  /\ Contents # <<>>
         /\ Contents' = Tail(Contents)
         /\ Taken' = Head(Contents)
<1>1. /\ Len(chain) >= 2 /\ chain' = Tail(chain) /\ data' = data
      /\ nxt'[Consumer] = chain[2] /\ pc'[Consumer] = "d_read"
      /\ IInv'
  BY MoveHeadKeeps DEF MoveHead, heapVars
<1>2. /\ Len(chain') = Len(chain) - 1 /\ Len(chain) \in Nat
      /\ \A i \in 1 .. Len(chain) - 1 : chain'[i] = chain[i + 1]
  BY <1>1, HeadTailProperties DEF IInv, TypeOK
<1>3. /\ Contents \in Seq(Packets) /\ Contents # <<>>
      /\ Len(Contents) = Len(chain) - 1
      /\ \A i \in 1 .. Len(chain) - 1 : Contents[i] = data[chain[i + 1]]
  BY <1>1, <1>2, ContentsType, EmptySeq
<1>4. /\ Contents' \in Seq(Packets)
      /\ Len(Contents') = Len(chain) - 2
      /\ \A i \in 1 .. Len(chain) - 2 : Contents'[i] = data[chain'[i + 1]]
  BY <1>1, <1>2, ContentsTypeNext
<1>5. /\ Tail(Contents) \in Seq(Packets)
      /\ Len(Tail(Contents)) = Len(chain) - 2
      /\ \A i \in 1 .. Len(chain) - 2 : Tail(Contents)[i] = Contents[i + 1]
  BY <1>2, <1>3, HeadTailProperties
<1>6. \A i \in 1 .. Len(chain) - 2 : Contents'[i] = Tail(Contents)[i]
  <2> SUFFICES ASSUME NEW i \in 1 .. Len(chain) - 2
               PROVE  Contents'[i] = Tail(Contents)[i]
    OBVIOUS
  <2>1. i + 1 \in 1 .. Len(chain) - 1
    BY <1>2
  <2>2. chain'[i + 1] = chain[i + 1 + 1]
    BY <2>1, <1>2
  <2>3. Contents'[i] = data[chain'[i + 1]]
    BY <1>4
  <2>4. Contents[i + 1] = data[chain[i + 1 + 1]]
    BY <2>1, <1>3
  <2>5. Tail(Contents)[i] = Contents[i + 1]
    BY <1>5
  <2> QED
    BY <2>2, <2>3, <2>4, <2>5
<1>7. Contents' = Tail(Contents)
  BY <1>4, <1>5, <1>6, SeqEqual
<1>8. Taken' = Head(Contents)
  <2>1. Head(Contents) = Contents[1] /\ Contents[1] = data[chain[2]]
    BY <1>1, <1>2, <1>3
  <2> QED
    BY <1>1, <2>1 DEF Taken
<1> QED
  BY <1>3, <1>7, <1>8

(* Whatever else a thread does, neither the contents nor what was taken    *)
(* changes: a node that is allocated is not one that is looked into.       *)
LEMMA OtherStepsStutter ==
  ASSUME IInv, Next, ~MoveHead, \A p \in Producers : ~LinkNode(p)
  PROVE  Contents' = Contents /\ Taken' = Taken
<1> USE ThreadIdentities
<1>1. chain' = chain /\ \A n : Listed(n) => data'[n] = data[n]
  <2>1. ASSUME NEW p \in Producers, Enqueue(p)
        PROVE  chain' = chain /\ \A n : Listed(n) => data'[n] = data[n]
    BY <2>1 DEF Enqueue, Listed, IInv, TypeOK
  <2>2. ASSUME NEW p \in Producers, Produce(p)
        PROVE  chain' = chain /\ data' = data
    BY <2>2 DEF Produce, LoadTail, LoadTailNext, CheckTail, SwingTail, HelpTail, heapVars
  <2>3. CASE IsEmpty \/ Dequeue("dequeue") \/ Dequeue("dequeue_pkt") \/ Consume
    BY <2>3 DEF IsEmpty, Dequeue, Consume, IsEmptyNext, LoadHead, LoadHeadNext,
                CheckHead, ReadPacket, DeleteHead, heapVars
  <2> QED
    BY <2>1, <2>2, <2>3 DEF Next
<1>2. Contents' = Contents
  BY <1>1, ContentsKept
<1>3. Taken' = Taken
  <2>1. pc[Consumer] = "d_read" => Listed(nxt[Consumer])
    BY DEF IInv, ConsumerOK, ChainOK, TypeOK
  <2>2. ASSUME NEW p \in Producers, Enqueue(p) \/ Produce(p)
        PROVE  UNCHANGED <<pc[Consumer], nxt[Consumer], got>>
    BY <2>2 DEF IInv, TypeOK, Enqueue, Produce, LoadTail, LoadTailNext, CheckTail,
                SwingTail, HelpTail, Step, Goto, consVars
  <2>3. CASE ReadPacket
    <3>1. pc[Consumer] = "d_read" /\ pc'[Consumer] # "d_read" /\ got' = data[nxt[Consumer]]
      BY <2>3 DEF ReadPacket, Reads, Step, Goto, IInv, TypeOK
    <3> QED
      BY <3>1 DEF Taken
  <2>4. CASE \/ IsEmpty \/ Dequeue("dequeue") \/ Dequeue("dequeue_pkt")
             \/ IsEmptyNext \/ LoadHead \/ LoadHeadNext \/ CheckHead \/ DeleteHead
    <3>1. pc[Consumer] # "d_read" /\ pc'[Consumer] # "d_read" /\ got' = got
      BY <2>4 DEF IsEmpty, Dequeue, IsEmptyNext, LoadHead, LoadHeadNext,
                  CheckHead, DeleteHead, Step, Goto, consVars, IInv, TypeOK
    <3> QED
      BY <3>1 DEF Taken
  <2> QED
    BY <1>1, <2>1, <2>2, <2>3, <2>4 DEF Next, Consume, Taken
<1> QED
  BY <1>2, <1>3

(* The queue implements PktFIFO, and is_empty() tells its consumer the     *)
(* truth.                                                                  *)
THEOREM QueueImplementsFIFO == Spec => ImplementsFIFO
<1>1. Init => FIFO!Init
  <2> SUFFICES ASSUME Init PROVE Contents = <<>> /\ Taken = NoPkt
    BY DEF FIFO!Init
  <2>1. IInv /\ Len(chain) = 1
    BY Initially DEF Init
  <2>2. Contents = <<>>
    BY <2>1, ContentsType, EmptySeq
  <2> QED
    BY <2>2, ThreadIdentities DEF Init, Taken
<1>2. IInv /\ [Next]_vars => [FIFO!Next]_<<Contents, Taken>>
  <2> SUFFICES ASSUME IInv, [Next]_vars
               PROVE  FIFO!Next \/ (Contents' = Contents /\ Taken' = Taken)
    OBVIOUS
  <2>1. ASSUME NEW p \in Producers, LinkNode(p)
        PROVE  FIFO!Next \/ (Contents' = Contents /\ Taken' = Taken)
    <3>1. UNCHANGED <<pc[Consumer], nxt[Consumer], got, data>>
      BY <2>1, ThreadIdentities DEF LinkNode, Step, Goto, consVars, IInv, TypeOK
    <3>2. Taken' = Taken
      BY <3>1 DEF Taken
    <3> QED
      BY <2>1, <3>2, LinkPuts DEF FIFO!Next, FIFO!Put
  <2>2. CASE MoveHead
    BY <2>2, MoveTakes DEF FIFO!Next, FIFO!Take
  <2>3. CASE Next /\ ~MoveHead /\ \A p \in Producers : ~LinkNode(p)
    BY <2>3, OtherStepsStutter
  <2>4. CASE UNCHANGED vars
    BY <2>4 DEF vars, heapVars, consVars, Contents, Taken
  <2> QED
    BY <2>1, <2>2, <2>3, <2>4
<1>3. Spec => FIFO!Spec
  BY <1>1, <1>2, InductiveInvariant, PTL DEF Spec, FIFO!Spec
<1> QED
  BY <1>3, NonEmptyMeansPacket DEF ImplementsFIFO
=============================================================================
