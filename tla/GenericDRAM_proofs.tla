-------------------------- MODULE GenericDRAM_proofs --------------------------
(***************************************************************************)
(* The timers of the node tree against the log of commands: whatever the   *)
(* device, the plugin and the trace, the controller gives the device no    *)
(* command before a line of its timing table allows it, and on devices     *)
(* that open a row with one command it opens and closes rows in turn.      *)
(***************************************************************************)
EXTENDS GenericDRAM, FiniteSetTheorems, SequenceTheorems, WellFoundedInduction, TLAPS

-----------------------------------------------------------------------------
(* Least and greatest elements: a CHOOSE of one chooses something.         *)

(* A set of naturals that is not empty has a least element. *)
LEMMA LeastNatural ==
  ASSUME NEW T \in SUBSET Nat, T # {}
  PROVE  \E x \in T : \A y \in T : x <= y
<1> DEFINE R == {ss \in Nat \X Nat : ss[1] < ss[2]}
<1>1. IsWellFoundedOn(R, Nat)
  BY NatLessThanWellFounded DEF OpToRel
<1>2. \A x, y \in Nat : x < y => <<x, y>> \in R
  OBVIOUS
<1>3. \E x \in T : \A y \in T : ~ (<<y, x>> \in R)
  <2> HIDE DEF R
  <2> QED BY <1>1, WFMin
<1> HIDE DEF R
<1>4. PICK x \in T : \A y \in T : ~ (<<y, x>> \in R)
  BY <1>3
<1>5. \A y \in T : x <= y
  <2> TAKE y \in T
  <2>1. x \in Nat /\ y \in Nat
    OBVIOUS
  <2>2. ~(y < x)
    BY <1>2, <1>4, <2>1
  <2> QED
    BY <2>1, <2>2
<1> QED
  BY <1>5

(* Integers no less than some bound have a least among them. *)
LEMMA LeastFrom ==
  ASSUME NEW b \in Int, NEW X \in SUBSET Int, X # {}, \A x \in X : x >= b
  PROVE  \E x \in X : \A y \in X : x <= y
<1> DEFINE T == {x - b : x \in X}
<1>1. T \in SUBSET Nat
  <2> SUFFICES ASSUME NEW x \in X
               PROVE  x - b \in Nat
    OBVIOUS
  <2>1. x \in Int /\ b \in Int /\ x >= b
    OBVIOUS
  <2> QED
    BY <2>1
<1>0. T # {}
  OBVIOUS
<1>2. PICK m \in T : \A y \in T : m <= y
  <2> HIDE DEF T
  <2> QED BY <1>1, <1>0, LeastNatural
<1>3. PICK x \in X : m = x - b
  BY <1>2
<1>4. \A y \in X : x <= y
  <2> TAKE y \in X
  <2>1. y - b \in T
    OBVIOUS
  <2>2. m <= y - b
    BY <1>2, <2>1
  <2> QED
    BY <1>3, <2>2
<1> QED
  BY <1>4

(* Min takes a least element. *)
LEMMA MinIsLeast ==
  ASSUME NEW b \in Int, NEW X \in SUBSET Int, X # {}, \A x \in X : x >= b
  PROVE  Min(X) \in X /\ \A y \in X : Min(X) <= y
  BY LeastFrom DEF Min

(* A finite set of integers that is not empty has a greatest element: one  *)
(* with the fewest elements above it.                                      *)
LEMMA GreatestOfFinite ==
  ASSUME NEW X \in SUBSET Int, IsFiniteSet(X), X # {}
  PROVE  \E x \in X : \A y \in X : y <= x
<1> DEFINE Above(x) == {y \in X : y > x}
           N == {Cardinality(Above(x)) : x \in X}
<1>1. ASSUME NEW x \in X
      PROVE  Above(x) \in SUBSET X /\ IsFiniteSet(Above(x)) /\ Cardinality(Above(x)) \in Nat
  <2>1. Above(x) \in SUBSET X
    OBVIOUS
  <2> HIDE DEF Above
  <2> QED BY <2>1, FS_Subset, FS_CardinalityType
<1>2. N \in SUBSET Nat /\ N # {}
  <2> HIDE DEF Above
  <2> QED BY <1>1
<1>3. PICK m \in N : \A y \in N : m <= y
  <2> HIDE DEF N
  <2> QED BY <1>2, LeastNatural
<1>4. PICK x \in X : m = Cardinality(Above(x))
  BY <1>3
<1>5. ASSUME NEW y \in X, ~(y <= x)
      PROVE  FALSE
  <2>1. y > x
    BY <1>5
  <2>2. Above(y) \in SUBSET Above(x) /\ y \in Above(x) /\ y \notin Above(y)
    <3>1. x \in Int /\ y \in Int
      OBVIOUS
    <3>2. y \in Above(x) /\ y \notin Above(y)
      BY <2>1, <3>1
    <3>3. ASSUME NEW z \in Above(y)
          PROVE  z \in Above(x)
      <4>1. z \in X /\ z \in Int /\ z > y
        BY <3>3
      <4>2. z > x
        BY <2>1, <3>1, <4>1
      <4> QED
        BY <4>1, <4>2
    <3> QED
      BY <3>2, <3>3
  <2>3. Cardinality(Above(y)) \in N
    OBVIOUS
  <2>4. m <= Cardinality(Above(y))
    BY <1>3, <2>3
  <2>5. IsFiniteSet(Above(x)) /\ Cardinality(Above(x)) \in Nat /\ Cardinality(Above(y)) \in Nat
    BY <1>1
  <2> HIDE DEF Above, N
  <2>6. Cardinality(Above(y)) <= Cardinality(Above(x))
        /\ (Cardinality(Above(x)) = Cardinality(Above(y)) => Above(x) = Above(y))
    BY <2>2, <2>5, FS_Subset
  <2> QED
    BY <1>4, <2>2, <2>4, <2>5, <2>6
<1> QED
  BY <1>5

(* Max takes a greatest element. *)
LEMMA MaxIsGreatest ==
  ASSUME NEW X \in SUBSET Int, IsFiniteSet(X), X # {}
  PROVE  Max(X) \in X /\ \A y \in X : Max(X) >= y
<1>1. PICK x \in X : \A y \in X : y <= x
  BY GreatestOfFinite
<1>2. \A y \in X : x >= y
  BY <1>1
<1> QED
  BY <1>2 DEF Max

-----------------------------------------------------------------------------
(* Paths in the node tree. *)

(* A node on the way of an address: its length and its ids. *)
LEMMA NodeOf ==
  ASSUME NEW addr \in Seq(Int), NEW l \in Nat, l <= Len(addr)
  PROVE  /\ Node(addr, l) \in Seq(Int)
         /\ Len(Node(addr, l)) = l
         /\ \A k \in 1..l : Node(addr, l)[k] = addr[k]
<1>1. Len(addr) \in Nat /\ \A i \in 1..l : addr[i] \in Int
  BY LenProperties, ElementOfSeq
<1>2. /\ SubSeq(addr, 1, l) \in Seq(Int)
      /\ Len(SubSeq(addr, 1, l)) = IF 1 <= l THEN l - 1 + 1 ELSE 0
      /\ \A i \in 1 .. l - 1 + 1 : SubSeq(addr, 1, l)[i] = addr[1 + i - 1]
  BY <1>1, SubSeqProperties
<1> QED
  BY <1>2 DEF Node

(* The ancestors of a node are on the way of every address it is on. *)
LEMMA NodeOfNode ==
  ASSUME NEW addr \in Seq(Int), NEW l \in Nat, l <= Len(addr), NEW k \in Nat, k <= l
  PROVE  Node(Node(addr, l), k) = Node(addr, k)
<1>1. /\ Node(addr, l) \in Seq(Int) /\ Len(Node(addr, l)) = l
      /\ \A i \in 1..l : Node(addr, l)[i] = addr[i]
  BY NodeOf
<1>2. k <= Len(addr) /\ Len(addr) \in Nat
  BY LenProperties
<1>3. /\ Node(addr, k) \in Seq(Int) /\ Len(Node(addr, k)) = k
      /\ \A i \in 1..k : Node(addr, k)[i] = addr[i]
  BY <1>2, NodeOf
<1> DEFINE n == Node(addr, l)
<1> HIDE DEF n
<1>4. n \in Seq(Int) /\ k <= Len(n)
  BY <1>1 DEF n
<1>5. /\ Node(n, k) \in Seq(Int) /\ Len(Node(n, k)) = k
      /\ \A i \in 1..k : Node(n, k)[i] = n[i]
  BY <1>4, NodeOf
<1>6. \A i \in 1..k : Node(n, k)[i] = Node(addr, k)[i]
  BY <1>1, <1>3, <1>5 DEF n
<1>7. Node(n, k) = Node(addr, k)
  BY <1>3, <1>5, <1>6, SeqEqual
<1> QED
  BY <1>7 DEF n

(* A node is a prefix of the addresses it is on the way of. *)
LEMMA PrefixIsNode ==
  ASSUME NEW n \in Seq(Int), NEW addr \in Seq(Int), Len(n) <= Len(addr)
  PROVE  IsPrefix(n, addr) <=> n = Node(addr, Len(n))
<1>1. SubSeq(n, 1, Len(n)) = n
  BY SubSeqFull
<1> QED
  BY <1>1 DEF IsPrefix, Node

(* The parent of a node is the node a level above. *)
LEMMA FrontIsNode ==
  ASSUME NEW n \in Seq(Int), Len(n) >= 1
  PROVE  /\ Front(n) = Node(n, Len(n) - 1)
         /\ Front(n) \in Seq(Int) /\ Len(Front(n)) = Len(n) - 1
<1>1. Len(n) \in Nat /\ Len(n) - 1 \in Nat /\ Len(n) - 1 <= Len(n)
  BY LenProperties
<1>2. Front(n) = Node(n, Len(n) - 1)
  BY DEF Front, Node
<1> QED
  BY <1>1, <1>2, NodeOf

(* The values of a function on a finite set are finitely many. *)
LEMMA ImageFinite ==
  ASSUME NEW K, IsFiniteSet(K), NEW f, DOMAIN f = K, f = [x \in K |-> f[x]]
  PROVE  IsFiniteSet({f[x] : x \in K})
<1> DEFINE V == {f[x] : x \in K}
<1>1. f \in Surjection(K, V)
  BY DEF Surjection
<1> HIDE DEF V
<1>2. IsFiniteSet(V)
  BY <1>1, FS_Surjection
<1> QED
  BY <1>2 DEF V

-----------------------------------------------------------------------------
(* What requests and logged commands are, and the type invariant.          *)

(* The requests of a device: each asks for what its type asks for, of a     *)
(* bank, or, if it is a refresh, of a rank.                                 *)
Requests(d) ==
  {r \in [id : Nat, type : Asked(d), addr : Seq(Int), arrive : Int,
          final : DOMAIN d.scope] :
     /\ r.final = d.requests[r.type] /\ Len(r.addr) = d.depth + 2
     /\ r.type = "refresh" => Node(r.addr, 2) \in d.ranks
     /\ r.type # "refresh" => Node(r.addr, d.depth) \in d.banks}

(* An address names nodes as far down as a command goes. *)
Names(d, cmd, addr) ==
  /\ addr \in Seq(Int) /\ Len(addr) = d.depth + 2
  /\ \A l \in 1..d.depth : l <= d.scopeLevel[cmd] => Node(addr, l) \in d.nodes

(* An entry of the log: a command of the device, with an address that names*)
(* the nodes down to its scope.                                            *)
Entries(d) ==
  {c \in [clk : Nat, cmd : Commands(d), addr : Seq(Int)] : Names(d, c.cmd, c.addr)}

(* Hydra's cache tells rows of banks, RRS's table pairs rows. *)
IsCache(p, d, cache) ==
  /\ DOMAIN cache = d.ranks \X (0..p.sets - 1)
  /\ \A s \in DOMAIN cache : \A x \in DOMAIN cache[s] : x \in d.banks \X Int
IsRit(rit) == \A x \in DOMAIN rit : x \in Int /\ rit[x] \in [dst : Int, lock : BOOLEAN]
TablesOK(p, d, tables) ==
  /\ p.name = "Hydra" => "cache" \in DOMAIN tables /\ IsCache(p, d, tables.cache)
  /\ p.name = "RRS" => /\ "rit" \in DOMAIN tables /\ DOMAIN tables.rit = d.banks
                       /\ \A b \in d.banks : IsRit(tables.rit[b])

(* Every node remembers the last four of each command a window of its level*)
(* counts.                                                                 *)
IsHistory(d, hs) ==
  \A n \in d.nodes :
    /\ DOMAIN hs[n] = d.windowed[Len(n)]
    /\ \A cmd \in DOMAIN hs[n] : hs[n][cmd] \in Seq(Int) /\ Len(hs[n][cmd]) = 4

(* Types: what the variables hold, as far as the proofs below need it.     *)
TypesOK ==
  /\ \E i \in DOMAIN Configs : sys = Configs[i]
  /\ clk \in Nat /\ nextRefresh \in Int /\ sent \in Nat
  /\ ready \in [Nodes -> [DOMAIN Dram.scope -> Int]]
  /\ IsHistory(Dram, history)
  /\ synced \in [Ranks -> Int]
  /\ buf \in [Queues -> Seq(Requests(Dram))]
  /\ pending \in Seq([id : Nat, depart : Int])
  /\ issued \in Seq(Entries(Dram))
  /\ TablesOK(Plugin, Dram, tracker)

(* The system simulated is one of the configurations, with what is assumed *)
(* of each.                                                                *)
LEMMA SystemIs ==
  ASSUME \E i \in DOMAIN Configs : sys = Configs[i]
  PROVE  /\ IsDevice(Dram) /\ IsPlugin(Plugin, Dram)
         /\ IsTrace(Trace, Dram) /\ Len(Trace) \in Nat /\ sys.leads \subseteq Int
  BY SystemAssumption DEF Dram, Plugin, Trace

(* The nodes of a device. *)
LEMMA Tree ==
  ASSUME NEW d, IsDevice(d)
  PROVE  /\ d.depth \in Nat /\ d.depth >= 2
         /\ \A n \in d.nodes : /\ n \in Seq(Int) /\ Len(n) \in 1..d.depth
                               /\ \A k \in 1..Len(n) : n[k] >= 0
         /\ \A n \in d.nodes, l \in 1..d.depth : l <= Len(n) => Node(n, l) \in d.nodes
         /\ \A b \in d.banks : b \in d.nodes /\ Len(b) = d.depth
         /\ \A r \in d.ranks : r \in d.nodes /\ Len(r) = 2
<1>1. d.depth \in Nat /\ d.depth >= 2
  BY DEF IsDevice, IsTree
<1>2. ASSUME NEW n \in d.nodes
      PROVE  n \in Seq(Int) /\ Len(n) \in 1..d.depth /\ \A k \in 1..Len(n) : n[k] >= 0
  <2>1. n \in Seq(0..3) /\ Len(n) \in 1..d.depth
    BY DEF IsDevice, IsTree
  <2>2. 0..3 \subseteq Int
    OBVIOUS
  <2>3. n \in Seq(Int)
    BY <2>1, <2>2, SeqMonotonic
  <2>4. \A k \in 1..Len(n) : n[k] \in 0..3
    BY <2>1, ElementOfSeq
  <2> QED
    BY <2>1, <2>3, <2>4
<1>3. \A n \in d.nodes, l \in 1..d.depth : l <= Len(n) => Node(n, l) \in d.nodes
  BY DEF IsDevice, IsTree, Node
<1>4. \A b \in d.banks : b \in d.nodes /\ Len(b) = d.depth
  BY DEF IsDevice, IsTree
<1>5. \A r \in d.ranks : r \in d.nodes /\ Len(r) = 2
  BY DEF IsDevice, IsTree
<1> QED
  BY <1>1, <1>2, <1>3, <1>4, <1>5

(* An address that names a node names its ancestors. *)
LEMMA NamesAbove ==
  ASSUME NEW d, IsDevice(d), NEW addr \in Seq(Int), Len(addr) = d.depth + 2,
         NEW k \in 1..d.depth, Node(addr, k) \in d.nodes, NEW l \in 1..k
  PROVE  Node(addr, l) \in d.nodes
<1>1. k \in Nat /\ l \in Nat /\ l <= k /\ k <= Len(addr) /\ l \in 1..d.depth
  BY Tree
<1>2. Node(Node(addr, k), l) = Node(addr, l)
  BY <1>1, NodeOfNode
<1>3. Len(Node(addr, k)) = k
  BY <1>1, NodeOf
<1>4. Node(Node(addr, k), l) \in d.nodes
  BY <1>1, <1>3, Tree
<1> QED
  BY <1>2, <1>4

(* What a request's prerequisite asks for is a command its address can take.*)
LEMMA RequestSteps ==
  ASSUME NEW d, IsDevice(d), NEW r \in Requests(d), NEW cmd \in Steps(d, r.final)
  PROVE  /\ cmd \in Commands(d) /\ cmd \in DOMAIN d.scope
         /\ d.scopeLevel[cmd] \in Nat \ {0}
         /\ Names(d, cmd, r.addr)
         /\ r.type = "refresh" => d.scopeLevel[cmd] <= 2
<1>1. r.type \in Asked(d) /\ r.final = d.requests[r.type]
      /\ r.addr \in Seq(Int) /\ Len(r.addr) = d.depth + 2
  BY DEF Requests
<1>2. cmd \in Commands(d)
  BY <1>1 DEF Commands
<1>3. cmd \in DOMAIN d.scope /\ d.scopeLevel[cmd] \in Nat \ {0}
  BY <1>2 DEF IsDevice
<1>4. r.type = "refresh" => d.scopeLevel[cmd] <= 2
  BY <1>1 DEF IsDevice
<1>5. d.depth \in Nat /\ d.depth >= 2
  BY Tree
<1>6. \E k \in 1..d.depth : /\ Node(r.addr, k) \in d.nodes
                            /\ (d.scopeLevel[cmd] <= k \/ k = d.depth)
  <2>1. CASE r.type = "refresh"
    <3>1. Node(r.addr, 2) \in d.ranks
      BY <2>1 DEF Requests
    <3> QED
      BY <1>4, <1>5, <2>1, <3>1, Tree
  <2>2. CASE r.type # "refresh"
    <3>1. Node(r.addr, d.depth) \in d.banks
      BY <2>2 DEF Requests
    <3> QED
      BY <1>5, <3>1, Tree
  <2> QED
    BY <2>1, <2>2
<1>7. PICK k \in 1..d.depth : /\ Node(r.addr, k) \in d.nodes
                              /\ (d.scopeLevel[cmd] <= k \/ k = d.depth)
  BY <1>6
<1>8. ASSUME NEW l \in 1..d.depth, l <= d.scopeLevel[cmd]
      PROVE  Node(r.addr, l) \in d.nodes
  <2>1. l \in 1..k
    BY <1>3, <1>5, <1>7, <1>8
  <2> QED
    BY <1>1, <1>7, <2>1, NamesAbove
<1> QED
  BY <1>1, <1>2, <1>3, <1>4, <1>8 DEF Names

(* The prerequisite of a request is one of its steps. *)
LEMMA PreqIsStep ==
  ASSUME NEW r, NEW t
  PROVE  Preq(r, t) \in Steps(Dram, r.final)
<1> DEFINE need == Dram.lambdas.preq[r.final].need
<1>1. CASE need = "RequireRowOpen"
  BY <1>1 DEF Preq, Steps, RequireRowOpen
<1>2. CASE need = "RequireBankClosed"
  BY <1>2 DEF Preq, Steps, RequireClosed
<1>3. CASE need = "RequireAllBanksClosed"
  BY <1>3 DEF Preq, Steps, RequireClosed
<1>4. CASE need \notin {"RequireRowOpen", "RequireBankClosed", "RequireAllBanksClosed"}
  BY <1>4 DEF Preq, Steps, RequireClockSynced
<1> QED
  BY <1>1, <1>2, <1>3, <1>4

-----------------------------------------------------------------------------
(* The timers against the log.                                             *)

(* A command the timers of a node have seen for a line of the table: it     *)
(* passed the node, or, for a sibling line, its parent only.                *)
Touches(line, n, c) ==
  /\ c.cmd = line.pre
  /\ IF line.sibling THEN IsPrefix(Front(n), c.addr) /\ ~IsPrefix(n, c.addr)
     ELSE IsPrefix(n, c.addr)
From(js, j) == {k \in js : k >= j}
Touching(line, n, log) == {k \in DOMAIN log : Touches(line, n, log[k])}

(* The timer of a node lets a command wait for the one a line counts from,  *)
(* wherever in the log that is.                                             *)
Ready(d, rd, log) ==
  \A n \in d.nodes, line \in d.cons :
    d.levels[Len(n)] = line.level =>
      \A j \in Touching(line, n, log) :
        Cardinality(From(Touching(line, n, log), j)) = line.window =>
          rd[n][line.post] >= log[j].clk + line.lat

(* The history of a node has the clocks of the last four of its commands.   *)
Passes(cmd, n, c) == c.cmd = cmd /\ IsPrefix(n, c.addr)
Passing(cmd, n, log) == {k \in DOMAIN log : Passes(cmd, n, log[k])}
Remembered(d, hs, log) ==
  \A n \in d.nodes : \A cmd \in d.windowed[Len(n)] :
    \A j \in Passing(cmd, n, log), i \in 1..4 :
      Cardinality(From(Passing(cmd, n, log), j)) = i => hs[n][cmd][i] = log[j].clk

(* The log is in the order of the clock.                                    *)
InOrder(log, now) ==
  \A i, j \in DOMAIN log : log[i].clk <= now /\ (i <= j => log[i].clk <= log[j].clk)

(* What is kept of the timers: with it the constraints hold of the next     *)
(* command whenever the controller finds it ready.                          *)
TimersKept == /\ Ready(Dram, ready, issued)
              /\ Remembered(Dram, history, issued)
              /\ InOrder(issued, clk)

(* A new element above all others counts once more from every other.        *)
LEMMA CountFrom ==
  ASSUME NEW N \in Nat, NEW js \in SUBSET (1..N), NEW j \in js
  PROVE  /\ Cardinality(From(js, j)) \in Nat /\ Cardinality(From(js, j)) >= 1
         /\ Cardinality(From(js \cup {N + 1}, j)) = Cardinality(From(js, j)) + 1
         /\ Cardinality(From(js \cup {N + 1}, N + 1)) = 1
<1> j \in 1..N
  OBVIOUS
<1> j \in Nat /\ j <= N
  OBVIOUS
<1>0. IsFiniteSet(1..N)
  BY FS_Interval
<1>1. IsFiniteSet(1..N) /\ From(js, j) \in SUBSET (1..N) /\ j \in From(js, j)
  <2>1. \A k \in From(js, j) : k \in js
    BY DEF From
  <2>2. j >= j
    OBVIOUS
  <2>3. j \in From(js, j)
    BY <2>2 DEF From
  <2> QED
    BY <1>0, <2>1, <2>3
<1>2. IsFiniteSet(From(js, j)) /\ Cardinality(From(js, j)) \in Nat
  BY <1>1, FS_Subset, FS_CardinalityType
<1>3. Cardinality(From(js, j)) # 0
  BY <1>1, <1>2, FS_EmptySet
<1>4. From(js \cup {N + 1}, j) = From(js, j) \cup {N + 1} /\ N + 1 \notin From(js, j)
  BY DEF From
<1>5. Cardinality(From(js, j) \cup {N + 1}) = Cardinality(From(js, j)) + 1
  BY <1>2, <1>4, FS_AddElement
<1>6. From(js \cup {N + 1}, N + 1) = {N + 1}
  <2>1. \A k \in js : k \in 1..N
    OBVIOUS
  <2>2. \A k \in js : ~(k >= N + 1)
    BY <2>1
  <2>3. N + 1 >= N + 1
    OBVIOUS
  <2> QED
    BY <2>2, <2>3 DEF From
<1>7. Cardinality({N + 1}) = 1
  BY FS_Singleton
<1>8. Cardinality(From(js, j)) >= 1
  BY <1>2, <1>3
<1> QED
  BY <1>2, <1>4, <1>5, <1>6, <1>7, <1>8

(* The log with a command more. *)
LEMMA Longer ==
  ASSUME NEW E, NEW log \in Seq(E), NEW c \in E
  PROVE  /\ Append(log, c) \in Seq(E)
         /\ Len(log) \in Nat /\ DOMAIN log = 1..Len(log)
         /\ DOMAIN Append(log, c) = 1..(Len(log) + 1) /\ Len(Append(log, c)) = Len(log) + 1
         /\ Append(log, c)[Len(log) + 1] = c
         /\ \A k \in 1..Len(log) : Append(log, c)[k] = log[k]
<1>1. Len(log) \in Nat /\ DOMAIN log = 1..Len(log)
  BY LenProperties
<1>2. /\ Append(log, c) \in Seq(E) /\ Len(Append(log, c)) = Len(log) + 1
      /\ \A i \in 1..Len(log) : Append(log, c)[i] = log[i]
      /\ Append(log, c)[Len(log) + 1] = c
  BY AppendProperties
<1>3. DOMAIN Append(log, c) = 1..(Len(log) + 1)
  BY <1>2, LenProperties
<1> QED
  BY <1>1, <1>2, <1>3

(* What has touched a node, with a command more. *)
LEMMA TouchingLonger ==
  ASSUME NEW E, NEW log \in Seq(E), NEW c \in E, NEW line, NEW n
  PROVE  /\ Touching(line, n, log) \in SUBSET (1..Len(log))
         /\ Touching(line, n, Append(log, c)) =
              IF Touches(line, n, c) THEN Touching(line, n, log) \cup {Len(log) + 1}
              ELSE Touching(line, n, log)
<1>1. /\ Len(log) \in Nat /\ DOMAIN log = 1..Len(log)
      /\ DOMAIN Append(log, c) = 1..(Len(log) + 1)
      /\ Append(log, c)[Len(log) + 1] = c
      /\ \A k \in 1..Len(log) : Append(log, c)[k] = log[k]
  BY Longer
<1>2. Touching(line, n, log) \in SUBSET (1..Len(log))
  BY <1>1 DEF Touching
<1>3. \A k \in 1..Len(log) : k \in Touching(line, n, Append(log, c)) <=> k \in Touching(line, n, log)
  BY <1>1 DEF Touching
<1>4. Len(log) + 1 \in Touching(line, n, Append(log, c)) <=> Touches(line, n, c)
  BY <1>1 DEF Touching
<1>5. Touching(line, n, Append(log, c)) \in SUBSET (1..(Len(log) + 1))
  BY <1>1 DEF Touching
<1>6. \A k \in 1..(Len(log) + 1) : k \in 1..Len(log) \/ k = Len(log) + 1
  BY <1>1
<1>9. Len(log) + 1 \notin 1..Len(log)
  BY <1>1
<1> DEFINE js == Touching(line, n, log)
           ks == Touching(line, n, Append(log, c))
           N == Len(log)
<1> HIDE DEF js, ks, N
<1>10. /\ js \in SUBSET (1..N) /\ ks \in SUBSET (1..(N + 1))
       /\ \A k \in 1..N : k \in ks <=> k \in js
       /\ (N + 1 \in ks <=> Touches(line, n, c)) /\ N + 1 \notin 1..N
       /\ \A k \in 1..(N + 1) : k \in 1..N \/ k = N + 1
  BY <1>2, <1>3, <1>4, <1>5, <1>6, <1>9 DEF js, ks, N
<1>11. ks = IF Touches(line, n, c) THEN js \cup {N + 1} ELSE js
  <2>1. \A k : k \in ks => k \in js \/ k = N + 1
    BY <1>10
  <2>2. \A k : k \in js => k \in ks
    BY <1>10
  <2>3. CASE Touches(line, n, c)
    <3>1. ks = js \cup {N + 1}
      BY <1>10, <2>1, <2>2, <2>3
    <3> QED
      BY <2>3, <3>1
  <2>4. CASE ~Touches(line, n, c)
    <3>1. ks = js
      BY <1>10, <2>1, <2>2, <2>4
    <3> QED
      BY <2>4, <3>1
  <2> QED
    BY <2>3, <2>4
<1> QED
  BY <1>2, <1>11 DEF js, ks, N

(* Appending a command to the log adds it to those that pass a node, if it *)
(* does.                                                                   *)
LEMMA PassingLonger ==
  ASSUME NEW E, NEW log \in Seq(E), NEW c \in E, NEW cmd, NEW n
  PROVE  /\ Passing(cmd, n, log) \in SUBSET (1..Len(log))
         /\ Passing(cmd, n, Append(log, c)) =
              IF Passes(cmd, n, c) THEN Passing(cmd, n, log) \cup {Len(log) + 1}
              ELSE Passing(cmd, n, log)
<1>1. /\ Len(log) \in Nat /\ DOMAIN log = 1..Len(log)
      /\ DOMAIN Append(log, c) = 1..(Len(log) + 1)
      /\ Append(log, c)[Len(log) + 1] = c
      /\ \A k \in 1..Len(log) : Append(log, c)[k] = log[k]
  BY Longer
<1>2. Passing(cmd, n, log) \in SUBSET (1..Len(log))
  BY <1>1 DEF Passing
<1>3. \A k \in 1..Len(log) : k \in Passing(cmd, n, Append(log, c)) <=> k \in Passing(cmd, n, log)
  BY <1>1 DEF Passing
<1>4. Len(log) + 1 \in Passing(cmd, n, Append(log, c)) <=> Passes(cmd, n, c)
  BY <1>1 DEF Passing
<1>5. Passing(cmd, n, Append(log, c)) \in SUBSET (1..(Len(log) + 1))
  BY <1>1 DEF Passing
<1>6. \A k \in 1..(Len(log) + 1) : k \in 1..Len(log) \/ k = Len(log) + 1
  BY <1>1
<1>9. Len(log) + 1 \notin 1..Len(log)
  BY <1>1
<1> DEFINE js == Passing(cmd, n, log)
           ks == Passing(cmd, n, Append(log, c))
           N == Len(log)
<1> HIDE DEF js, ks, N
<1>10. /\ js \in SUBSET (1..N) /\ ks \in SUBSET (1..(N + 1))
       /\ \A k \in 1..N : k \in ks <=> k \in js
       /\ (N + 1 \in ks <=> Passes(cmd, n, c)) /\ N + 1 \notin 1..N
       /\ \A k \in 1..(N + 1) : k \in 1..N \/ k = N + 1
  BY <1>2, <1>3, <1>4, <1>5, <1>6, <1>9 DEF js, ks, N
<1>11. ks = IF Passes(cmd, n, c) THEN js \cup {N + 1} ELSE js
  <2>1. \A k : k \in ks => k \in js \/ k = N + 1
    BY <1>10
  <2>2. \A k : k \in js => k \in ks
    BY <1>10
  <2>3. CASE Passes(cmd, n, c)
    <3>1. ks = js \cup {N + 1}
      BY <1>10, <2>1, <2>2, <2>3
    <3> QED
      BY <2>3, <3>1
  <2>4. CASE ~Passes(cmd, n, c)
    <3>1. ks = js
      BY <1>10, <2>1, <2>2, <2>4
    <3> QED
      BY <2>4, <3>1
  <2> QED
    BY <2>3, <2>4
<1> QED
  BY <1>2, <1>11 DEF js, ks, N

(* What update_timing does for a command c, as far as it is needed: no      *)
(* timer is lowered, those a line of the table names are raised, and the    *)
(* clock is put before those the history has.                               *)
Updated(d, rd, hs, rd2, hs2, c) ==
  /\ \A n \in d.nodes, f \in DOMAIN d.scope : rd2[n][f] >= rd[n][f]
  /\ \A n \in d.nodes, line \in d.cons :
       d.levels[Len(n)] = line.level /\ Touches(line, n, c) =>
         /\ line.window = 1 => rd2[n][line.post] >= c.clk + line.lat
         /\ line.window > 1 /\ hs[n][c.cmd][line.window - 1] >= 0 =>
              rd2[n][line.post] >= hs[n][c.cmd][line.window - 1] + line.lat
  /\ \A n \in d.nodes : \A cmd \in d.windowed[Len(n)] :
       /\ Passes(cmd, n, c) =>
            /\ hs2[n][cmd][1] = c.clk
            /\ \A i \in 2..4 : hs2[n][cmd][i] = hs[n][cmd][i - 1]
       /\ ~Passes(cmd, n, c) => hs2[n][cmd] = hs[n][cmd]

(* A timer for every command, at every node.                               *)
Timers(d) == [d.nodes -> [DOMAIN d.scope -> Int]]

(* A line with a window has its command in the histories of its level.      *)
LEMMA WindowedLine ==
  ASSUME NEW d, IsDevice(d), NEW n \in d.nodes, NEW line \in d.cons,
         d.levels[Len(n)] = line.level
  PROVE  /\ line \in d.table[Len(n)][line.pre]
         /\ line.window > 1 => line.pre \in d.windowed[Len(n)] /\ ~line.sibling
         /\ line.pre \in DOMAIN d.scope /\ line.post \in DOMAIN d.scope
         /\ line.lat \in Int /\ line.window \in 1..4 /\ line.sibling \in BOOLEAN
<1>1. Len(n) \in 1..d.depth
  BY Tree
<1>2. /\ line.pre \in DOMAIN d.scope /\ line.post \in DOMAIN d.scope
      /\ line.lat \in Int /\ line.window \in 1..4 /\ line.sibling \in BOOLEAN
      /\ line.sibling => line.window = 1
  BY DEF IsDevice, IsTable
<1>3. d.table[Len(n)][line.pre] = {x \in d.cons : d.levels[Len(n)] = x.level /\ x.pre = line.pre}
  BY <1>1, <1>2 DEF IsDevice, IsTable
<1>4. line \in d.table[Len(n)][line.pre]
  BY <1>3
<1>5. d.windowed[Len(n)] = {cmd \in DOMAIN d.scope : \E x \in d.table[Len(n)][cmd] : x.window > 1}
  BY <1>1 DEF IsDevice, IsTable
<1>6. line.window > 1 => line.pre \in d.windowed[Len(n)]
  BY <1>2, <1>4, <1>5
<1> QED
  BY <1>2, <1>4, <1>6

(* The timers are kept when a command is added to the log and they are      *)
(* updated for it.                                                          *)
LEMMA ReadyLonger ==
  ASSUME NEW d, IsDevice(d), NEW log \in Seq(Entries(d)), NEW c \in Entries(d),
         NEW rd \in Timers(d), NEW rd2 \in Timers(d), NEW hs, NEW hs2,
         Ready(d, rd, log), Remembered(d, hs, log), Updated(d, rd, hs, rd2, hs2, c)
  PROVE  Ready(d, rd2, Append(log, c))
<1> DEFINE N == Len(log)
<1>1. /\ Append(log, c) \in Seq(Entries(d)) /\ N \in Nat /\ DOMAIN log = 1..N
      /\ Append(log, c)[N + 1] = c
      /\ \A k \in 1..N : Append(log, c)[k] = log[k]
  BY Longer
<1>2. \A k \in 1..N : log[k] \in Entries(d)
  BY ElementOfSeq
<1>3. \A k \in 1..N : log[k].clk \in Nat
  BY <1>2 DEF Entries
<1>4. c.clk \in Nat
  BY DEF Entries
<1> HIDE DEF N
<1>5. ASSUME NEW n \in d.nodes, NEW line \in d.cons, d.levels[Len(n)] = line.level,
             NEW j \in Touching(line, n, Append(log, c)),
             Cardinality(From(Touching(line, n, Append(log, c)), j)) = line.window
      PROVE  rd2[n][line.post] >= Append(log, c)[j].clk + line.lat
  <2> DEFINE js == Touching(line, n, log)
  <2>1. /\ line.window > 1 => line.pre \in d.windowed[Len(n)] /\ ~line.sibling
        /\ line.post \in DOMAIN d.scope
        /\ line.lat \in Int /\ line.window \in 1..4 /\ line.sibling \in BOOLEAN
    BY <1>5, WindowedLine
  <2>2. rd[n][line.post] \in Int /\ rd2[n][line.post] \in Int
    BY <2>1 DEF Timers
  <2>3. rd2[n][line.post] >= rd[n][line.post]
    BY <2>1 DEF Updated
  <2>4. /\ js \in SUBSET (1..N)
        /\ Touching(line, n, Append(log, c)) =
             IF Touches(line, n, c) THEN js \cup {N + 1} ELSE js
    BY TouchingLonger DEF N
  <2>5. \A i \in js : Cardinality(From(js, i)) = line.window =>
            rd[n][line.post] >= log[i].clk + line.lat
    BY <1>5 DEF Ready
  <2>6. CASE ~Touches(line, n, c)
    <3>1. j \in js /\ Cardinality(From(js, j)) = line.window /\ j \in 1..N
      BY <1>5, <2>4, <2>6
    <3>2. rd[n][line.post] >= log[j].clk + line.lat
      BY <2>5, <3>1
    <3>3. log[j].clk \in Nat /\ Append(log, c)[j] = log[j]
      BY <1>1, <1>3, <3>1
    <3> QED
      BY <2>1, <2>2, <2>3, <3>2, <3>3
  <2>7. CASE Touches(line, n, c)
    <3>1. /\ line.window = 1 => rd2[n][line.post] >= c.clk + line.lat
          /\ line.window > 1 /\ hs[n][c.cmd][line.window - 1] >= 0 =>
               rd2[n][line.post] >= hs[n][c.cmd][line.window - 1] + line.lat
      BY <1>5, <2>7 DEF Updated
    <3>2. CASE j = N + 1
      <4>1. Cardinality(From(js \cup {N + 1}, N + 1)) = 1
        <5>1. From(js \cup {N + 1}, N + 1) = {N + 1}
          <6>1. \A k \in js : k \in 1..N
            BY <2>4
          <6>2. \A k \in js : ~(k >= N + 1)
            BY <1>1, <6>1
          <6>3. N + 1 >= N + 1
            BY <1>1
          <6> HIDE DEF js
          <6> QED
            BY <6>2, <6>3 DEF From
        <5> QED
          BY <5>1, FS_Singleton
      <4>2. line.window = 1
        BY <1>5, <2>4, <2>7, <3>2, <4>1
      <4> QED
        BY <1>1, <3>1, <3>2, <4>2
    <3>3. CASE j # N + 1
      <4>1. j \in js
        BY <2>4, <2>7, <3>3
      <4>2. /\ Cardinality(From(js, j)) \in Nat /\ Cardinality(From(js, j)) >= 1
            /\ Cardinality(From(js \cup {N + 1}, j)) = Cardinality(From(js, j)) + 1
        <5> HIDE DEF js
        <5> QED BY <1>1, <2>4, <4>1, CountFrom
      <4>3. line.window = Cardinality(From(js, j)) + 1
        BY <1>5, <2>4, <2>7, <4>2
      <4>4. /\ line.window > 1 /\ line.window - 1 \in 1..4
            /\ Cardinality(From(js, j)) = line.window - 1
        BY <2>1, <4>2, <4>3
      <4>5. line.pre \in d.windowed[Len(n)] /\ ~line.sibling
        BY <2>1, <4>4
      <4>6. js = Passing(line.pre, n, log)
        BY <4>5 DEF Passing, Touching, Passes, Touches
      <4>7. hs[n][line.pre][line.window - 1] = log[j].clk
        BY <4>1, <4>4, <4>5, <4>6 DEF Remembered
      <4>8. c.cmd = line.pre
        BY <2>7 DEF Touches
      <4>9. j \in 1..N
        BY <2>4, <4>1
      <4>10. log[j].clk >= 0 /\ Append(log, c)[j] = log[j]
        BY <1>1, <1>3, <4>9
      <4> QED
        BY <3>1, <4>4, <4>7, <4>8, <4>10
    <3> QED
      BY <3>2, <3>3
  <2> QED
    BY <2>6, <2>7
<1> QED
  BY <1>5 DEF Ready

(* The histories are kept likewise. *)
LEMMA RememberedLonger ==
  ASSUME NEW d, IsDevice(d), NEW log \in Seq(Entries(d)), NEW c \in Entries(d),
         NEW rd, NEW rd2, NEW hs, NEW hs2,
         Remembered(d, hs, log), Updated(d, rd, hs, rd2, hs2, c)
  PROVE  Remembered(d, hs2, Append(log, c))
<1> DEFINE N == Len(log)
<1>1. /\ N \in Nat /\ Append(log, c)[N + 1] = c
      /\ \A k \in 1..N : Append(log, c)[k] = log[k]
  BY Longer
<1> HIDE DEF N
<1>2. ASSUME NEW n \in d.nodes, NEW cmd \in d.windowed[Len(n)],
             NEW j \in Passing(cmd, n, Append(log, c)), NEW i \in 1..4,
             Cardinality(From(Passing(cmd, n, Append(log, c)), j)) = i
      PROVE  hs2[n][cmd][i] = Append(log, c)[j].clk
  <2> DEFINE js == Passing(cmd, n, log)
  <2>1. /\ js \in SUBSET (1..N)
        /\ Passing(cmd, n, Append(log, c)) =
             IF Passes(cmd, n, c) THEN js \cup {N + 1} ELSE js
    BY PassingLonger DEF N
  <2>2. \A k \in js, x \in 1..4 : Cardinality(From(js, k)) = x => hs[n][cmd][x] = log[k].clk
    BY DEF Remembered
  <2>3. /\ Passes(cmd, n, c) =>
             /\ hs2[n][cmd][1] = c.clk
             /\ \A x \in 2..4 : hs2[n][cmd][x] = hs[n][cmd][x - 1]
        /\ ~Passes(cmd, n, c) => hs2[n][cmd] = hs[n][cmd]
    BY DEF Updated
  <2> HIDE DEF js
  <2>4. CASE ~Passes(cmd, n, c)
    <3>1. j \in js /\ Cardinality(From(js, j)) = i /\ j \in 1..N
      BY <1>2, <2>1, <2>4
    <3> QED
      BY <1>1, <2>2, <2>3, <2>4, <3>1
  <2>5. CASE Passes(cmd, n, c) /\ j = N + 1
    <3>1. From(js \cup {N + 1}, N + 1) = {N + 1}
      <4>1. \A k \in js : k \in 1..N
        BY <2>1
      <4>2. \A k \in js : ~(k >= N + 1)
        BY <1>1, <4>1
      <4>3. N + 1 >= N + 1
        BY <1>1
      <4> QED
        BY <4>2, <4>3 DEF From
    <3>2. i = 1
      BY <1>2, <2>1, <2>5, <3>1, FS_Singleton
    <3> QED
      BY <1>1, <2>3, <2>5, <3>2
  <2>6. CASE Passes(cmd, n, c) /\ j # N + 1
    <3>1. j \in js
      BY <2>1, <2>6
    <3>2. /\ Cardinality(From(js, j)) \in Nat /\ Cardinality(From(js, j)) >= 1
          /\ Cardinality(From(js \cup {N + 1}, j)) = Cardinality(From(js, j)) + 1
      BY <1>1, <2>1, <3>1, CountFrom
    <3>3. i = Cardinality(From(js, j)) + 1
      BY <1>2, <2>1, <2>6, <3>2
    <3>4. i \in 2..4 /\ i - 1 \in 1..4 /\ Cardinality(From(js, j)) = i - 1
      BY <3>2, <3>3
    <3>5. hs[n][cmd][i - 1] = log[j].clk
      BY <2>2, <3>1, <3>4
    <3>6. Append(log, c)[j] = log[j]
      BY <1>1, <2>1, <3>1
    <3> QED
      BY <2>3, <2>6, <3>4, <3>5, <3>6
  <2> QED
    BY <2>4, <2>5, <2>6
<1> QED
  BY <1>2 DEF Remembered

(* A clock is put before the last three of a history.                       *)
LEMMA PushFour ==
  ASSUME NEW t \in Int, NEW h \in Seq(Int), Len(h) = 4
  PROVE  /\ SubSeq(<<t>> \o h, 1, 4) \in Seq(Int)
         /\ Len(SubSeq(<<t>> \o h, 1, 4)) = 4
         /\ SubSeq(<<t>> \o h, 1, 4)[1] = t
         /\ \A i \in 2..4 : SubSeq(<<t>> \o h, 1, 4)[i] = h[i - 1]
<1>1. <<t>> \in Seq(Int) /\ Len(<<t>>) = 1 /\ <<t>>[1] = t
  OBVIOUS
<1> DEFINE s == <<t>>
           p == s \o h
<1> HIDE DEF s
<1>2. s \in Seq(Int) /\ Len(s) = 1 /\ s[1] = t
  BY <1>1 DEF s
<1>0. /\ p \in Seq(Int) /\ Len(p) = Len(s) + Len(h)
      /\ \A i \in 1..Len(s) + Len(h) :
           p[i] = IF i <= Len(s) THEN s[i] ELSE h[i - Len(s)]
  BY <1>2, ConcatProperties
<1>3. /\ p \in Seq(Int) /\ Len(p) = 5
      /\ \A i \in 1..5 : p[i] = IF i <= 1 THEN s[i] ELSE h[i - 1]
  <2>1. Len(s) + Len(h) = 5
    BY <1>2
  <2> HIDE DEF p
  <2> QED
    BY <1>0, <1>2, <2>1
<1> HIDE DEF p
<1>4. \A i \in 1..4 : p[i] \in Int
  <2>1. \A i \in 1..5 : p[i] \in Int
    BY <1>3, ElementOfSeq
  <2> QED
    BY <2>1
<1>5. /\ SubSeq(p, 1, 4) \in Seq(Int)
      /\ Len(SubSeq(p, 1, 4)) = IF 1 <= 4 THEN 4 - 1 + 1 ELSE 0
      /\ \A i \in 1..(4 - 1 + 1) : SubSeq(p, 1, 4)[i] = p[1 + i - 1]
  BY <1>4, SubSeqProperties
<1>6. /\ SubSeq(p, 1, 4) \in Seq(Int) /\ Len(SubSeq(p, 1, 4)) = 4
      /\ \A i \in 1..4 : SubSeq(p, 1, 4)[i] = p[i]
  BY <1>5
<1>7. p[1] = t /\ \A i \in 2..4 : p[i] = h[i - 1]
  BY <1>2, <1>3
<1>8. SubSeq(p, 1, 4)[1] = t /\ \A i \in 2..4 : SubSeq(p, 1, 4)[i] = h[i - 1]
  BY <1>6, <1>7
<1> QED
  BY <1>6, <1>8 DEF p, s

(* The parent of a node on the way is on the way.                           *)
LEMMA ParentPrefix ==
  ASSUME NEW n \in Seq(Int), NEW addr \in Seq(Int), Len(n) >= 1, Len(n) <= Len(addr),
         IsPrefix(n, addr)
  PROVE  IsPrefix(Front(n), addr)
<1>1. Len(n) \in Nat /\ Len(addr) \in Nat /\ Len(n) - 1 \in Nat
  BY LenProperties
<1>2. n = Node(addr, Len(n))
  BY PrefixIsNode
<1>3. Front(n) = Node(n, Len(n) - 1) /\ Front(n) \in Seq(Int) /\ Len(Front(n)) = Len(n) - 1
  BY FrontIsNode
<1> DEFINE l == Len(n)
           k == Len(n) - 1
<1> HIDE DEF l, k
<1>4. l \in Nat /\ k \in Nat /\ k <= l /\ l <= Len(addr) /\ k <= Len(addr)
  BY <1>1 DEF l, k
<1>5. Node(Node(addr, l), k) = Node(addr, k)
  BY <1>4, NodeOfNode
<1>6. Front(n) = Node(addr, Len(Front(n))) /\ Len(Front(n)) <= Len(addr)
  BY <1>2, <1>3, <1>4, <1>5 DEF l, k
<1> QED
  BY <1>3, <1>6, PrefixIsNode

(* A timer at v for command f, when delays are due.                         *)
Latest(v, delays, f) == Max({v} \cup {e.at : e \in {x \in delays : x.cmd = f}})

(* The timer of one node for one command, from the delays due.              *)
LEMMA RaisedTimer ==
  ASSUME NEW K, IsFiniteSet(K), NEW at, DOMAIN at = K, at = [x \in K |-> at[x]],
         \A x \in K : at[x].at \in Int, NEW v \in Int, NEW f,
         NEW delays, delays = {at[x] : x \in K},
         NEW w, w = Latest(v, delays, f)
  PROVE  w \in Int /\ w >= v /\ \A x \in K : at[x].cmd = f => w >= at[x].at
<1> DEFINE due == {x \in delays : x.cmd = f}
           pick == [x \in due |-> x.at]
           V == {pick[x] : x \in due}
           Z == {v} \cup V
<1>1. IsFiniteSet(delays)
  BY ImageFinite
<1>2. due \in SUBSET delays
  OBVIOUS
<1>3. IsFiniteSet(due)
  <2> HIDE DEF due
  <2> QED BY <1>1, <1>2, FS_Subset
<1>4. DOMAIN pick = due /\ pick = [x \in due |-> pick[x]]
  OBVIOUS
<1>5. IsFiniteSet(V)
  <2> HIDE DEF due, pick
  <2> QED BY <1>3, <1>4, ImageFinite
<1>6. IsFiniteSet(Z)
  <2> HIDE DEF V
  <2> QED BY <1>5, FS_AddElement
<1>7. V \in SUBSET Int
  <2>1. \A x \in due : x.at \in Int
    OBVIOUS
  <2> HIDE DEF due
  <2> QED
    BY <2>1
<1>8. Z \in SUBSET Int /\ Z # {} /\ v \in Z
  BY <1>7
<1>9. \A x \in K : at[x].cmd = f => at[x].at \in V
  OBVIOUS
<1>10. V = {e.at : e \in due}
  OBVIOUS
<1> HIDE DEF V
<1>11. \A x \in K : at[x].cmd = f => at[x].at \in Z
  BY <1>9
<1> HIDE DEF Z
<1>12. Max(Z) \in Z /\ \A y \in Z : Max(Z) >= y
  BY <1>6, <1>8, MaxIsGreatest
<1>13. Max(Z) \in Int /\ Max(Z) >= v /\ \A x \in K : at[x].cmd = f => Max(Z) >= at[x].at
  BY <1>8, <1>11, <1>12
<1>14. Z = {v} \cup {e.at : e \in {x \in delays : x.cmd = f}}
  BY <1>10 DEF Z, due
<1> HIDE DEF due, pick
<1> QED
  BY <1>13, <1>14 DEF Latest

(* The timer of a node for f after a command at cycle t.                    *)
NewTimer(n, f, cmd, addr, t) ==
  Latest(ready[n][f], Delays(n, cmd, addr, t), f)

(* What delays a node has due, of a command at cycle t.                     *)
LEMMA DelaysDue ==
  ASSUME IsDevice(Dram), ready \in Timers(Dram), IsHistory(Dram, history),
         NEW cmd \in Commands(Dram), NEW addr, NEW t \in Nat, NEW n \in Nodes
  PROVE  \A f \in DOMAIN Dram.scope :
           LET w == NewTimer(n, f, cmd, addr, t)
           IN  /\ w \in Int /\ w >= ready[n][f]
               /\ \A line \in Dram.table[Len(n)][cmd] :
                    line.post = f /\ line.sibling # Target(n, addr) =>
                      /\ line.window = 1 => w >= t + line.lat
                      /\ line.window > 1 /\ history[n][cmd][line.window - 1] >= 0 =>
                           w >= history[n][cmd][line.window - 1] + line.lat
<1> USE DEF Nodes
<1> DEFINE past == IF Target(n, addr) THEN Pushed(n, cmd, t) ELSE <<t>>
           lines == Dram.table[Len(n)][cmd]
           K == {x \in lines : x.sibling # Target(n, addr) /\ past[x.window] >= 0}
           at == [r \in K |-> [cmd |-> r.post, at |-> past[r.window] + r.lat]]
<1>1. Len(n) \in 1..Dram.depth
  BY Tree
<1>2. cmd \in DOMAIN Dram.scope
  BY DEF IsDevice
<1>3. lines = {x \in Dram.cons : Dram.levels[Len(n)] = x.level /\ x.pre = cmd}
  BY <1>1, <1>2 DEF IsDevice, IsTable
<1>4. DOMAIN history[n] = Dram.windowed[Len(n)]
  BY DEF IsHistory
<1>5. IsFiniteSet(Dram.cons)
  BY DEF IsDevice, IsTable
<1>6. K \in SUBSET Dram.cons
  BY <1>3
<1>7. IsFiniteSet(K)
  <2> HIDE DEF K
  <2> QED BY <1>5, <1>6, FS_Subset
<1>8. ASSUME NEW x \in lines, x.sibling # Target(n, addr)
      PROVE  /\ past[x.window] \in Int /\ x.lat \in Int /\ x.window \in 1..4
             /\ x.window = 1 => past[x.window] = t
             /\ x.window > 1 => past[x.window] = history[n][cmd][x.window - 1]
  <2>1. x \in Dram.cons /\ Dram.levels[Len(n)] = x.level /\ x.pre = cmd
    BY <1>3
  <2>2. /\ x.window > 1 => cmd \in Dram.windowed[Len(n)] /\ ~x.sibling
        /\ x.lat \in Int /\ x.window \in 1..4 /\ x.sibling \in BOOLEAN
    BY <2>1, WindowedLine
  <2>3. CASE ~Target(n, addr) \/ cmd \notin DOMAIN history[n]
    <3>1. x.window = 1
      <4>1. ~Target(n, addr) => x.sibling
        <5>1. Target(n, addr) \in BOOLEAN
          BY DEF Target, IsPrefix
        <5> QED
          BY <1>8, <2>2, <5>1
      <4>2. x.window > 1 => FALSE
        BY <1>4, <2>2, <2>3, <4>1
      <4> QED
        BY <2>2, <4>2
    <3>2. past = <<t>>
      BY <2>3 DEF Pushed
    <3>3. past[1] = t
      BY <3>2
    <3> QED
      BY <2>2, <3>1, <3>3
  <2>4. CASE Target(n, addr) /\ cmd \in DOMAIN history[n]
    <3>1. past = SubSeq(<<t>> \o history[n][cmd], 1, 4)
      BY <2>4 DEF Pushed
    <3>2. history[n][cmd] \in Seq(Int) /\ Len(history[n][cmd]) = 4
      BY <2>4 DEF IsHistory
    <3> HIDE DEF past
    <3>3. /\ past \in Seq(Int) /\ Len(past) = 4
          /\ past[1] = t /\ \A i \in 2..4 : past[i] = history[n][cmd][i - 1]
      BY <3>1, <3>2, PushFour
    <3>4. past[x.window] \in Int
      BY <2>2, <3>3, ElementOfSeq
    <3>5. x.window > 1 => x.window \in 2..4
      BY <2>2
    <3> QED
      BY <2>2, <3>3, <3>4, <3>5
  <2> QED
    BY <2>3, <2>4
<1>9. ASSUME NEW f \in DOMAIN Dram.scope
      PROVE  LET w == NewTimer(n, f, cmd, addr, t)
             IN  /\ w \in Int /\ w >= ready[n][f]
                 /\ \A line \in lines :
                      line.post = f /\ line.sibling # Target(n, addr) =>
                        /\ line.window = 1 => w >= t + line.lat
                        /\ line.window > 1 /\ history[n][cmd][line.window - 1] >= 0 =>
                             w >= history[n][cmd][line.window - 1] + line.lat
  <2> DEFINE w == NewTimer(n, f, cmd, addr, t)
             due == Delays(n, cmd, addr, t)
             v == ready[n][f]
  <2>1. Delays(n, cmd, addr, t) = {at[x] : x \in K}
    BY DEF Delays
  <2>2. ready[n][f] \in Int
    BY DEF Timers
  <2>3. \A x \in K : at[x].at \in Int /\ at[x].at = past[x.window] + x.lat /\ at[x].cmd = x.post
    <3> TAKE x \in K
    <3>1. at[x] = [cmd |-> x.post, at |-> past[x.window] + x.lat]
      OBVIOUS
    <3>2. past[x.window] \in Int /\ x.lat \in Int
      BY <1>8
    <3> HIDE DEF past
    <3> QED
      BY <3>1, <3>2
  <2>4. DOMAIN at = K /\ at = [x \in K |-> at[x]]
    OBVIOUS
  <2>5. w \in Int /\ w >= ready[n][f] /\ \A x \in K : at[x].cmd = f => w >= at[x].at
    <3>1. w = Latest(v, due, f)
      BY DEF NewTimer
    <3>2. \A x \in K : at[x].at \in Int
      BY <2>3
    <3> HIDE DEF at, K, w, due, v
    <3>3. v \in Int /\ due = {at[x] : x \in K}
      BY <2>1, <2>2 DEF due, v
    <3>4. w \in Int /\ w >= v /\ \A x \in K : at[x].cmd = f => w >= at[x].at
      BY <1>7, <2>4, <3>1, <3>2, <3>3, RaisedTimer
    <3> QED
      BY <3>4 DEF v
  <2> HIDE DEF w, at, past
  <2>6. ASSUME NEW line \in lines, line.post = f, line.sibling # Target(n, addr)
        PROVE  /\ line.window = 1 => w >= t + line.lat
               /\ line.window > 1 /\ history[n][cmd][line.window - 1] >= 0 =>
                    w >= history[n][cmd][line.window - 1] + line.lat
    <3>1. past[line.window] >= 0 => line \in K
      BY <2>6
    <3>2. past[line.window] >= 0 => w >= past[line.window] + line.lat
      BY <2>3, <2>5, <2>6, <3>1
    <3> QED
      BY <1>8, <2>6, <3>2
  <2>7. /\ w \in Int /\ w >= ready[n][f]
        /\ \A line \in lines :
              line.post = f /\ line.sibling # Target(n, addr) =>
                /\ line.window = 1 => w >= t + line.lat
                /\ line.window > 1 /\ history[n][cmd][line.window - 1] >= 0 =>
                     w >= history[n][cmd][line.window - 1] + line.lat
    BY <2>5, <2>6
  <2> QED
    BY <2>7 DEF w
<1> QED
  BY <1>9

(* update_timing does what Updated says.                                    *)
LEMMA UpdateTimingDoes ==
  ASSUME IsDevice(Dram), ready \in Timers(Dram), IsHistory(Dram, history),
         NEW cmd \in Commands(Dram), NEW addr, Names(Dram, cmd, addr), NEW t \in Nat,
         UpdateTiming(cmd, addr, t)
  PROVE  /\ ready' \in Timers(Dram) /\ IsHistory(Dram, history')
         /\ Updated(Dram, ready, history, ready', history',
                    [clk |-> t, cmd |-> cmd, addr |-> addr])
<1> USE DEF Nodes
<1> DEFINE c == [clk |-> t, cmd |-> cmd, addr |-> addr]
           Raised(n, f) == NewTimer(n, f, cmd, addr, t)
<1>1. addr \in Seq(Int) /\ Len(addr) = Dram.depth + 2
  BY DEF Names
<1>2. /\ Dram.depth \in Nat
      /\ \A n \in Nodes : n \in Seq(Int) /\ Len(n) \in 1..Dram.depth
  BY Tree
<1>3. \A n \in Nodes : DOMAIN ready[n] = DOMAIN Dram.scope
                       /\ ready[n] \in [DOMAIN Dram.scope -> Int]
  BY DEF Timers
<1>4. /\ ready' = [n \in Nodes |->
                     IF ~Visited(n, addr) THEN ready[n]
                     ELSE [f \in DOMAIN ready[n] |-> Raised(n, f)]]
      /\ history' = [n \in Nodes |->
                     IF Target(n, addr) /\ cmd \in DOMAIN history[n]
                     THEN [history[n] EXCEPT ![cmd] = Pushed(n, cmd, t)] ELSE history[n]]
  BY DEF UpdateTiming, NewTimer, Latest
<1>5. \A n \in Nodes : \A f \in DOMAIN Dram.scope :
          /\ Raised(n, f) \in Int /\ Raised(n, f) >= ready[n][f]
          /\ \A line \in Dram.table[Len(n)][cmd] :
                line.post = f /\ line.sibling # Target(n, addr) =>
                  /\ line.window = 1 => Raised(n, f) >= t + line.lat
                  /\ line.window > 1 /\ history[n][cmd][line.window - 1] >= 0 =>
                       Raised(n, f) >= history[n][cmd][line.window - 1] + line.lat
  BY DelaysDue
<1> HIDE DEF Raised
<1>6. \A n \in Nodes : \A f \in DOMAIN Dram.scope :
          ready'[n][f] = IF Visited(n, addr) THEN Raised(n, f) ELSE ready[n][f]
  BY <1>3, <1>4
<1>7. ready' \in Timers(Dram)
  <2>1. ASSUME NEW n \in Nodes
        PROVE  ready'[n] \in [DOMAIN Dram.scope -> Int]
    <3>1. CASE Visited(n, addr)
      <4>1. ready'[n] = [f \in DOMAIN Dram.scope |-> Raised(n, f)]
        BY <1>3, <1>4, <3>1
      <4> QED
        BY <1>5, <4>1
    <3>2. CASE ~Visited(n, addr)
      BY <1>3, <1>4, <3>2
    <3> QED
      BY <3>1, <3>2
  <2>2. ready' = [n \in Nodes |-> ready'[n]]
    BY <1>4
  <2> QED
    BY <2>1, <2>2 DEF Timers
<1>8. ASSUME NEW n \in Nodes
      PROVE  /\ DOMAIN history'[n] = Dram.windowed[Len(n)]
             /\ \A f \in DOMAIN history'[n] :
                  /\ history'[n][f] \in Seq(Int) /\ Len(history'[n][f]) = 4
                  /\ Passes(f, n, c) =>
                       /\ history'[n][f][1] = t
                       /\ \A i \in 2..4 : history'[n][f][i] = history[n][f][i - 1]
                  /\ ~Passes(f, n, c) => history'[n][f] = history[n][f]
  <2>1. /\ DOMAIN history[n] = Dram.windowed[Len(n)]
        /\ \A f \in DOMAIN history[n] : history[n][f] \in Seq(Int) /\ Len(history[n][f]) = 4
    BY DEF IsHistory
  <2>2. CASE Target(n, addr) /\ cmd \in DOMAIN history[n]
    <3> DEFINE p == SubSeq(<<t>> \o history[n][cmd], 1, 4)
    <3>1. history'[n] = [history[n] EXCEPT ![cmd] = p]
      BY <1>4, <2>2 DEF Pushed
    <3>2. /\ p \in Seq(Int) /\ Len(p) = 4 /\ p[1] = t
          /\ \A i \in 2..4 : p[i] = history[n][cmd][i - 1]
      BY <2>1, <2>2, PushFour
    <3> HIDE DEF p
    <3>3. DOMAIN history'[n] = DOMAIN history[n] /\ history'[n][cmd] = p
          /\ \A f \in DOMAIN history[n] : f # cmd => history'[n][f] = history[n][f]
      BY <2>2, <3>1
    <3>4. \A f : Passes(f, n, c) <=> f = cmd
      BY <2>2 DEF Passes, Target
    <3>5. ASSUME NEW f \in DOMAIN history'[n], f = cmd
          PROVE  /\ history'[n][f] \in Seq(Int) /\ Len(history'[n][f]) = 4
                 /\ Passes(f, n, c)
                 /\ history'[n][f][1] = t
                 /\ \A i \in 2..4 : history'[n][f][i] = history[n][f][i - 1]
      BY <3>2, <3>3, <3>4, <3>5
    <3>6. ASSUME NEW f \in DOMAIN history'[n], f # cmd
          PROVE  /\ history'[n][f] \in Seq(Int) /\ Len(history'[n][f]) = 4
                 /\ ~Passes(f, n, c) /\ history'[n][f] = history[n][f]
      BY <2>1, <3>3, <3>4, <3>6
    <3> QED
      BY <2>1, <3>3, <3>5, <3>6
  <2>3. CASE ~(Target(n, addr) /\ cmd \in DOMAIN history[n])
    <3>1. history'[n] = history[n]
      BY <1>4, <2>3
    <3>2. \A f \in DOMAIN history[n] : ~Passes(f, n, c)
      BY <2>3 DEF Passes, Target
    <3> QED
      BY <2>1, <3>1, <3>2
  <2> QED
    BY <2>2, <2>3
<1>9. IsHistory(Dram, history')
  BY <1>8 DEF IsHistory
<1>10. \A n \in Dram.nodes, f \in DOMAIN Dram.scope : ready'[n][f] >= ready[n][f]
  <2> TAKE n \in Dram.nodes, f \in DOMAIN Dram.scope
  <2>1. ready[n][f] \in Int
    BY <1>3
  <2> QED
    BY <1>5, <1>6, <2>1
<1>11. ASSUME NEW n \in Dram.nodes, NEW line \in Dram.cons,
              Dram.levels[Len(n)] = line.level, Touches(line, n, c)
       PROVE  /\ line.window = 1 => ready'[n][line.post] >= c.clk + line.lat
              /\ line.window > 1 /\ history[n][c.cmd][line.window - 1] >= 0 =>
                   ready'[n][line.post] >= history[n][c.cmd][line.window - 1] + line.lat
  <2>1. line \in Dram.table[Len(n)][line.pre] /\ line.post \in DOMAIN Dram.scope
        /\ line.sibling \in BOOLEAN
    BY <1>11, WindowedLine
  <2>2. c.cmd = cmd /\ c.addr = addr /\ c.clk = t /\ line.pre = cmd
    BY <1>11 DEF Touches
  <2>3. line.sibling # Target(n, addr) /\ Visited(n, addr)
    <3>1. CASE line.sibling
      BY <1>11, <2>2, <3>1 DEF Touches, Target, Visited
    <3>2. CASE ~line.sibling
      <4>1. IsPrefix(n, addr)
        BY <1>11, <2>2, <3>2 DEF Touches
      <4>2. Len(n) >= 1 /\ Len(n) <= Len(addr) /\ n \in Seq(Int)
        BY <1>1, <1>2
      <4>3. IsPrefix(Front(n), addr)
        BY <1>1, <4>1, <4>2, ParentPrefix
      <4>4. Target(n, addr) = TRUE /\ line.sibling = FALSE
        BY <2>1, <3>2, <4>1 DEF Target
      <4> QED
        BY <4>3, <4>4 DEF Visited
    <3> QED
      BY <3>1, <3>2
  <2>4. ready'[n][line.post] = Raised(n, line.post)
    BY <1>6, <2>1, <2>3
  <2> QED
    BY <1>5, <2>1, <2>2, <2>3, <2>4
<1>12. \A n \in Dram.nodes : \A f \in Dram.windowed[Len(n)] :
          /\ Passes(f, n, c) =>
               /\ history'[n][f][1] = c.clk
               /\ \A i \in 2..4 : history'[n][f][i] = history[n][f][i - 1]
          /\ ~Passes(f, n, c) => history'[n][f] = history[n][f]
  BY <1>8
<1>13. Updated(Dram, ready, history, ready', history', c)
  BY <1>10, <1>11, <1>12 DEF Updated
<1> QED
  BY <1>7, <1>9, <1>13

(* Being bound by a line and having touched the node a command goes to are  *)
(* the same.                                                                *)
LEMMA BindsTouches ==
  ASSUME NEW d, IsDevice(d), NEW line \in d.cons, NEW l \in 1..d.depth,
         l = Level(d, line.level), NEW a \in Entries(d), a.cmd = line.pre,
         NEW addr \in Seq(Int), Len(addr) = d.depth + 2, Node(addr, l) \in d.nodes
  PROVE  Binds(d, line, a.addr, addr) <=> Touches(line, Node(addr, l), a)
<1> DEFINE n == Node(addr, l)
           m == Node(a.addr, l)
<1>1. a.addr \in Seq(Int) /\ Len(a.addr) = d.depth + 2
  BY DEF Entries, Names
<1>2. d.depth \in Nat /\ l \in Nat /\ l >= 1 /\ l <= d.depth + 2 /\ l - 1 \in Nat /\ l - 1 <= l
  BY Tree
<1>3. /\ n \in Seq(Int) /\ Len(n) = l
      /\ m \in Seq(Int) /\ Len(m) = l
  BY <1>1, <1>2, NodeOf
<1>4. \A k \in 1..Len(n) : n[k] >= 0
  BY Tree
<1>5. l \in 1..Len(n)
  BY <1>2, <1>3
<1>6. Last(n) >= 0
  BY <1>3, <1>4, <1>5 DEF Last
<1>7. Front(n) = Node(n, l - 1) /\ Front(n) \in Seq(Int) /\ Len(Front(n)) = l - 1
  BY <1>2, <1>3, FrontIsNode
<1>8. Front(m) = Node(m, l - 1)
  BY <1>2, <1>3, FrontIsNode
<1>9. Node(m, l - 1) = Node(a.addr, l - 1)
  BY <1>1, <1>2, NodeOfNode
<1> HIDE DEF n, m
<1>10. IsPrefix(n, a.addr) <=> n = m
  BY <1>1, <1>2, <1>3, PrefixIsNode DEF m
<1>11. IsPrefix(Front(n), a.addr) <=> Front(n) = Front(m)
  <2>1. IsPrefix(Front(n), a.addr) <=> Front(n) = Node(a.addr, Len(Front(n)))
    BY <1>1, <1>2, <1>7, PrefixIsNode
  <2> QED
    BY <1>7, <1>8, <1>9, <2>1
<1>12. Touches(line, n, a) <=>
         IF line.sibling THEN Front(n) = Front(m) /\ n # m ELSE n = m
  BY <1>10, <1>11 DEF Touches
<1>13. Binds(d, line, a.addr, addr) <=>
         IF line.sibling THEN m # n /\ Front(m) = Front(n) ELSE m = n /\ Last(m) >= 0
  BY DEF Binds, m, n
<1>14. Binds(d, line, a.addr, addr) <=> Touches(line, n, a)
  BY <1>6, <1>12, <1>13
<1> QED
  BY <1>14 DEF n

(* The commands before the last that a line binds it to, and the lines kept *)
(* for it.                                                                  *)
BoundBefore(d, line, log) ==
  {j \in 1..(Len(log) - 1) : log[j].cmd = line.pre /\ Binds(d, line, log[j].addr, Last(log).addr)}
Kept(d, log) ==
  log # <<>> =>
    \A line \in d.cons :
      line.post = Last(log).cmd =>
        \A j \in BoundBefore(d, line, log) :
          Cardinality(From(BoundBefore(d, line, log), j)) = line.window =>
            Last(log).clk >= log[j].clk + line.lat

(* A command all of whose timers have run out keeps every line.             *)
LEMMA NextKept ==
  ASSUME NEW d, IsDevice(d), NEW log \in Seq(Entries(d)), NEW c \in Entries(d),
         NEW rd \in Timers(d), Ready(d, rd, log),
         \A l \in 1..d.depth :
           l <= d.scopeLevel[c.cmd] => rd[Node(c.addr, l)][c.cmd] <= c.clk
  PROVE  Kept(d, Append(log, c))
<1> DEFINE N == Len(log)
           log2 == Append(log, c)
<1>1. /\ N \in Nat /\ Len(log2) = N + 1 /\ log2[N + 1] = c
      /\ \A k \in 1..N : log2[k] = log[k]
      /\ DOMAIN log = 1..N
  BY Longer
<1>2. \A k \in 1..N : log[k] \in Entries(d)
  BY ElementOfSeq
<1> HIDE DEF N, log2
<1>3. Last(log2) = c /\ Len(log2) - 1 = N
  BY <1>1 DEF Last
<1>4. c.cmd \in Commands(d) /\ c.addr \in Seq(Int) /\ Names(d, c.cmd, c.addr) /\ c.clk \in Nat
  BY DEF Entries
<1>5. ASSUME NEW line \in d.cons, line.post = c.cmd,
             NEW j \in BoundBefore(d, line, log2),
             Cardinality(From(BoundBefore(d, line, log2), j)) = line.window
      PROVE  c.clk >= log2[j].clk + line.lat
  <2> DEFINE l == Level(d, line.level)
             n == Node(c.addr, l)
  <2>1. /\ l \in 1..d.depth /\ d.levels[l] = line.level
        /\ line.post \in DOMAIN d.scope /\ line.lat \in Int
        /\ l <= d.scopeLevel[c.cmd]
    BY <1>4, <1>5 DEF IsDevice, IsTable
  <2> HIDE DEF l
  <2>2. n \in d.nodes /\ Len(c.addr) = d.depth + 2
    BY <1>4, <2>1 DEF Names
  <2>3. Len(n) = l
    <3>1. d.depth \in Nat /\ l \in Nat /\ l <= d.depth + 2
      BY <2>1, Tree
    <3> QED
      BY <1>4, <2>2, <3>1, NodeOf
  <2>4. BoundBefore(d, line, log2) = Touching(line, n, log)
    <3>1. ASSUME NEW k \in 1..N
          PROVE  k \in BoundBefore(d, line, log2) <=> k \in Touching(line, n, log)
      <4>1. k \in BoundBefore(d, line, log2) <=>
              log[k].cmd = line.pre /\ Binds(d, line, log[k].addr, c.addr)
        BY <1>1, <1>3 DEF BoundBefore
      <4>2. k \in Touching(line, n, log) <=> Touches(line, n, log[k])
        BY <1>1 DEF Touching
      <4>3. log[k].cmd = line.pre => (Binds(d, line, log[k].addr, c.addr) <=> Touches(line, n, log[k]))
        BY <1>2, <1>4, <2>1, <2>2, BindsTouches DEF l
      <4>4. Touches(line, n, log[k]) => log[k].cmd = line.pre
        BY DEF Touches
      <4> QED
        BY <4>1, <4>2, <4>3, <4>4
    <3>2. BoundBefore(d, line, log2) \subseteq 1..N
      BY <1>3 DEF BoundBefore
    <3>3. Touching(line, n, log) \subseteq 1..N
      BY <1>1 DEF Touching
    <3> QED
      BY <3>1, <3>2, <3>3
  <2>5. rd[n][line.post] >= log[j].clk + line.lat
    <3>1. d.levels[Len(n)] = line.level
      BY <2>1, <2>3
    <3> HIDE DEF n
    <3> QED
      BY <1>5, <2>2, <2>4, <3>1 DEF Ready
  <2>6. rd[n][c.cmd] <= c.clk
    BY <2>1
  <2>7. j \in 1..N
    BY <1>3 DEF BoundBefore
  <2>8. log[j].clk \in Nat /\ log2[j] = log[j]
    BY <1>1, <1>2, <2>7 DEF Entries
  <2>9. rd[n][c.cmd] \in Int
    BY <1>5, <2>1, <2>2 DEF Timers
  <2> HIDE DEF n
  <2> QED
    BY <1>4, <1>5, <2>1, <2>5, <2>6, <2>8, <2>9
<1>6. Kept(d, log2)
  BY <1>3, <1>5 DEF Kept
<1> QED
  BY <1>6 DEF log2

(* What is kept of the last command is what the property asks.              *)
LEMMA ConstraintsFollow ==
  ASSUME Kept(Dram, issued)
  PROVE  ConstraintsKept
<1> SUFFICES ASSUME issued # <<>>, NEW line \in Dram.cons, line.post = Last(issued).cmd
             PROVE  ConstraintKept(line, Last(issued))
  BY DEF ConstraintsKept
<1> DEFINE c == Last(issued)
           before == {j \in Earlier : issued[j].cmd = line.pre /\ Bound(line, issued[j], c)}
<1>1. before = BoundBefore(Dram, line, issued)
  BY DEF BoundBefore, Bound, Earlier
<1> HIDE DEF before
<1>2. \A j \in before : {k \in before : k >= j} = From(before, j)
  BY DEF From
<1>3. \A j \in before : Cardinality(From(before, j)) = line.window =>
                          c.clk >= issued[j].clk + line.lat
  BY <1>1 DEF Kept
<1>4. \A j \in {j \in before : Cardinality({k \in before : k >= j}) = line.window} :
         c.clk >= issued[j].clk + line.lat
  BY <1>2, <1>3
<1> QED
  BY <1>4 DEF ConstraintKept, before

(* A command found ready may be issued as far as its timers go.             *)
LEMMA ReadyTimers ==
  ASSUME IsDevice(Dram), ready \in Timers(Dram), NEW cmd \in Commands(Dram),
         NEW addr, Names(Dram, cmd, addr), NEW t \in Int
  PROVE  /\ ReadyAt(cmd, addr) \in Int
         /\ CheckReady(cmd, addr, t) =>
              \A l \in 1..Dram.depth :
                l <= Dram.scopeLevel[cmd] => ready[Node(addr, l)][cmd] <= t
<1> DEFINE ls == {k \in 1..Dram.depth : k <= Dram.scopeLevel[cmd] /\ addr[k] >= 0}
           at == [n \in Path(cmd, addr) |-> ready[n][cmd]]
           ts == {ready[n][cmd] : n \in Path(cmd, addr)}
           node == [l \in ls |-> Node(addr, l)]
<1>1. Dram.depth \in Nat /\ Dram.depth >= 2
  BY Tree
<1>2. cmd \in DOMAIN Dram.scope /\ Dram.scopeLevel[cmd] \in Nat \ {0}
  BY DEF IsDevice
<1>3. \A l \in 1..Dram.depth : l <= Dram.scopeLevel[cmd] =>
          Node(addr, l) \in Dram.nodes /\ addr[l] >= 0
  <2> SUFFICES ASSUME NEW l \in 1..Dram.depth, l <= Dram.scopeLevel[cmd]
               PROVE  Node(addr, l) \in Dram.nodes /\ addr[l] >= 0
    OBVIOUS
  <2>1. Node(addr, l) \in Dram.nodes /\ addr \in Seq(Int) /\ Len(addr) = Dram.depth + 2
    BY DEF Names
  <2>2. l \in Nat /\ l <= Len(addr) /\ l \in 1..l
    BY <1>1, <2>1
  <2>3. Len(Node(addr, l)) = l /\ Node(addr, l)[l] = addr[l]
    BY <2>1, <2>2, NodeOf
  <2>4. Node(addr, l)[l] >= 0
    BY <2>1, <2>2, <2>3, Tree
  <2> QED
    BY <2>1, <2>3, <2>4
<1>4. IsFiniteSet(1..Dram.depth) /\ ls \in SUBSET (1..Dram.depth)
  BY <1>1, FS_Interval
<1>5. IsFiniteSet(ls)
  <2> HIDE DEF ls
  <2> QED BY <1>4, FS_Subset
<1>6. Path(cmd, addr) = {node[l] : l \in ls}
  BY DEF Path
<1>7. IsFiniteSet(Path(cmd, addr))
  <2>1. DOMAIN node = ls /\ node = [l \in ls |-> node[l]]
    OBVIOUS
  <2> HIDE DEF ls, node
  <2> QED BY <1>5, <1>6, <2>1, ImageFinite
<1>8. IsFiniteSet(ts)
  <2>1. DOMAIN at = Path(cmd, addr) /\ at = [n \in Path(cmd, addr) |-> at[n]]
    OBVIOUS
  <2>2. ts = {at[n] : n \in Path(cmd, addr)}
    OBVIOUS
  <2> HIDE DEF at, ts
  <2> QED BY <1>7, <2>1, <2>2, ImageFinite
<1>9. \A l \in 1..Dram.depth : l <= Dram.scopeLevel[cmd] => Node(addr, l) \in Path(cmd, addr)
  BY <1>3 DEF Path
<1>10. \A n \in Path(cmd, addr) : n \in Dram.nodes
  BY <1>3 DEF Path
<1>11. ts \in SUBSET Int
  BY <1>2, <1>10 DEF Timers
<1>12. ts # {}
  <2>1. 1 \in 1..Dram.depth /\ 1 <= Dram.scopeLevel[cmd]
    BY <1>1, <1>2
  <2> QED
    BY <1>9, <2>1
<1>13. \A l \in 1..Dram.depth : l <= Dram.scopeLevel[cmd] => ready[Node(addr, l)][cmd] \in ts
  BY <1>9
<1>14. ReadyAt(cmd, addr) = Max(ts)
  BY DEF ReadyAt
<1> HIDE DEF ts
<1>15. Max(ts) \in ts /\ \A y \in ts : Max(ts) >= y
  BY <1>8, <1>11, <1>12, MaxIsGreatest
<1>16. ReadyAt(cmd, addr) \in Int
  BY <1>11, <1>14, <1>15
<1>17. ASSUME ReadyAt(cmd, addr) <= t, NEW l \in 1..Dram.depth, l <= Dram.scopeLevel[cmd]
       PROVE  ready[Node(addr, l)][cmd] <= t
  <2>1. Max(ts) >= ready[Node(addr, l)][cmd] /\ ready[Node(addr, l)][cmd] \in Int /\ Max(ts) \in Int
    BY <1>11, <1>13, <1>15, <1>17
  <2> QED
    BY <1>14, <1>17, <2>1
<1> QED
  BY <1>16, <1>17 DEF CheckReady

-----------------------------------------------------------------------------
(* The scheduler and the buffers.                                          *)

(* A finite set of integers has a least element. *)
LEMMA LeastOfFinite ==
  ASSUME NEW X \in SUBSET Int, IsFiniteSet(X), X # {}
  PROVE  \E x \in X : \A y \in X : x <= y
<1> DEFINE neg == [x \in X |-> -x]
           Y == {neg[x] : x \in X}
<1>1. neg = [x \in X |-> neg[x]] /\ DOMAIN neg = X
  OBVIOUS
<1>2. IsFiniteSet(Y)
  <2> HIDE DEF neg
  <2> QED BY <1>1, ImageFinite
<1>3. Y \in SUBSET Int /\ Y # {}
  OBVIOUS
<1>4. PICK y \in Y : \A z \in Y : z <= y
  <2> HIDE DEF Y
  <2> QED BY <1>2, <1>3, GreatestOfFinite
<1>5. PICK x \in X : y = -x
  BY <1>4
<1>6. \A z \in X : -z \in Y
  OBVIOUS
<1>7. ASSUME NEW z \in X
      PROVE  x <= z
  <2>1. -z <= -x
    BY <1>4, <1>5, <1>6
  <2>2. x \in Int /\ z \in Int
    OBVIOUS
  <2> QED
    BY <2>1, <2>2
<1> QED
  BY <1>7

(* The device part of the types. *)
DeviceTyped ==
  /\ IsDevice(Dram) /\ ready \in Timers(Dram)

(* A request is ready or not. *)
LEMMA ReadyOrNot ==
  ASSUME DeviceTyped, NEW r \in Requests(Dram), NEW t \in Int
  PROVE  IsReady(r, t) \in BOOLEAN
<1>1. Preq(r, t) \in Steps(Dram, r.final)
  BY PreqIsStep
<1>2. Preq(r, t) \in Commands(Dram) /\ Names(Dram, Preq(r, t), r.addr)
  BY <1>1, RequestSteps DEF DeviceTyped
<1>3. ReadyAt(Preq(r, t), r.addr) \in Int
  BY <1>2, ReadyTimers DEF DeviceTyped
<1> QED
  BY <1>3 DEF IsReady, CheckReady

(* The best request of a buffer that has a ready one is in it, and ready.   *)
LEMMA BestIs ==
  ASSUME DeviceTyped, NEW q \in Seq(Requests(Dram)), NEW t \in Int, BestReady(q, t)
  PROVE  Best(q, t) \in DOMAIN q /\ IsReady(q[Best(q, t)], t)
<1>1. DOMAIN q = 1..Len(q) /\ Len(q) \in Nat
  BY LenProperties
<1>2. \A i \in DOMAIN q : q[i] \in Requests(Dram)
  BY <1>1, ElementOfSeq
<1>3. \A i \in DOMAIN q : q[i].arrive \in Int
  BY <1>2 DEF Requests
<1>4. \A i \in DOMAIN q : IsReady(q[i], t) \in BOOLEAN
  BY <1>2, ReadyOrNot
<1> DEFINE X == {i \in DOMAIN q : IsReady(q[i], t)}
           arrives == [i \in X |-> q[i].arrive]
           Arr == {arrives[i] : i \in X}
<1>5. X # {}
  BY DEF BestReady
<1>6. X \in SUBSET (1..Len(q))
  BY <1>1
<1>7. IsFiniteSet(X)
  <2> HIDE DEF X
  <2>1. IsFiniteSet(1..Len(q))
    BY <1>1, FS_Interval
  <2> QED BY <1>6, <2>1, FS_Subset
<1>8. IsFiniteSet(Arr) /\ Arr # {}
  <2>1. arrives = [i \in X |-> arrives[i]] /\ DOMAIN arrives = X
    OBVIOUS
  <2> HIDE DEF arrives, X
  <2> QED BY <1>5, <1>7, <2>1, ImageFinite
<1>9. Arr \in SUBSET Int
  BY <1>3
<1>10. PICK a \in Arr : \A y \in Arr : a <= y
  <2> HIDE DEF Arr
  <2> QED BY <1>8, <1>9, LeastOfFinite
<1> DEFINE T == {i \in X : q[i].arrive = a}
<1>11. T # {} /\ T \in SUBSET Nat
  BY <1>6, <1>10
<1>12. PICK i \in T : \A y \in T : i <= y
  <2> HIDE DEF T
  <2> QED BY <1>11, LeastNatural
<1>13. ASSUME NEW j \in DOMAIN q \ {i}
       PROVE  Before(q, i, j, t)
  <2>1. i \in X /\ q[i].arrive = a /\ IsReady(q[i], t) = TRUE /\ i \in DOMAIN q
    BY <1>4
  <2>2. CASE IsReady(q[j], t)
    <3>1. j \in X /\ IsReady(q[j], t) = TRUE
      BY <1>4, <2>2
    <3>2. q[j].arrive \in Arr
      BY <3>1
    <3>3. a <= q[j].arrive
      BY <1>10, <3>2
    <3>4. q[j].arrive = a => i <= j
      BY <1>12, <3>1
    <3>5. i \in Nat /\ j \in Nat /\ i # j /\ a \in Int /\ q[j].arrive \in Int
      BY <1>1, <1>3, <1>9, <1>10, <2>1
    <3> HIDE DEF X, T, Arr, arrives
    <3>6. CASE q[j].arrive = a
      <4>1. i < j
        BY <3>4, <3>5, <3>6
      <4> QED
        BY <2>1, <3>1, <3>6, <4>1 DEF Before
    <3>7. CASE q[j].arrive # a
      <4>1. a < q[j].arrive
        BY <3>3, <3>5, <3>7
      <4> QED
        BY <2>1, <3>1, <3>7, <4>1 DEF Before
    <3> QED
      BY <3>6, <3>7
  <2>3. CASE ~IsReady(q[j], t)
    <3>1. IsReady(q[j], t) = FALSE
      BY <1>4, <2>3
    <3> HIDE DEF X, T, Arr, arrives
    <3> QED
      BY <2>1, <3>1 DEF Before
  <2> QED
    BY <2>2, <2>3
<1>14. i \in DOMAIN q
  OBVIOUS
<1> HIDE DEF X, T, Arr, arrives
<1> DEFINE b == Best(q, t)
<1>15. b \in DOMAIN q /\ \A j \in DOMAIN q \ {b} : Before(q, b, j, t)
  BY <1>13, <1>14 DEF Best
<1>16. PICK k \in DOMAIN q : IsReady(q[k], t)
  BY DEF BestReady
<1> HIDE DEF b
<1>17. IsReady(q[b], t)
  <2>1. CASE b = k
    BY <1>16, <2>1
  <2>2. CASE b # k
    <3>1. Before(q, b, k, t)
      BY <1>15, <2>2
    <3>2. IsReady(q[k], t) = TRUE /\ IsReady(q[b], t) \in BOOLEAN
      BY <1>4, <1>15, <1>16
    <3> QED
      BY <3>1, <3>2 DEF Before
  <2> QED
    BY <2>1, <2>2
<1> QED
  BY <1>15, <1>17 DEF b

(* What the scheduler chooses is a ready request of a buffer.               *)
LEMMA ChoiceSound ==
  ASSUME DeviceTyped, NEW q \in [Queues -> Seq(Requests(Dram))], NEW t \in Int,
         Chosen(q, t).name # None
  PROVE  LET ch == Chosen(q, t)
         IN  /\ ch.name \in Queues /\ ch.i \in DOMAIN q[ch.name]
             /\ IsReady(q[ch.name][ch.i], t)
             /\ ch.name # "active" => ~BestReady(q.active, t)
<1>1. /\ q.active \in Seq(Requests(Dram)) /\ q.priority \in Seq(Requests(Dram))
      /\ q.read \in Seq(Requests(Dram)) /\ q.write \in Seq(Requests(Dram))
  BY DEF Queues
<1>2. CASE BestReady(q.active, t)
  <2>1. Chosen(q, t) = Choice("active", Best(q.active, t), writeMode)
    BY <1>2 DEF Chosen
  <2>2. Best(q.active, t) \in DOMAIN q.active /\ IsReady(q.active[Best(q.active, t)], t)
    BY <1>1, <1>2, BestIs
  <2> QED
    BY <2>1, <2>2 DEF Choice, Queues
<1>3. CASE ~BestReady(q.active, t) /\ q.priority # <<>>
  <2>1. Chosen(q, t) = Choice(IF IsReady(q.priority[1], t) THEN "priority" ELSE None, 1, writeMode)
    BY <1>3 DEF Chosen
  <2>2. IsReady(q.priority[1], t)
    BY <2>1 DEF Choice
  <2>3. 1 \in DOMAIN q.priority
    BY <1>1, <1>3, LenProperties, EmptySeq
  <2> QED
    BY <1>3, <2>1, <2>2, <2>3 DEF Choice, Queues
<1>4. CASE ~BestReady(q.active, t) /\ q.priority = <<>>
  <2> DEFINE mode == NewWriteMode(q)
             name == IF mode THEN "write" ELSE "read"
  <2>1. Chosen(q, t) = IF BestReady(q[name], t) THEN Choice(name, Best(q[name], t), mode)
                       ELSE Choice(None, 1, mode)
    BY <1>4 DEF Chosen
  <2>2. BestReady(q[name], t) /\ Chosen(q, t) = Choice(name, Best(q[name], t), mode)
    <3> HIDE DEF mode, name
    <3> QED
      BY <2>1 DEF Choice
  <2>3. name \in Queues /\ name # "active" /\ q[name] \in Seq(Requests(Dram))
    BY DEF Queues
  <2> HIDE DEF mode, name
  <2>4. Best(q[name], t) \in DOMAIN q[name] /\ IsReady(q[name][Best(q[name], t)], t)
    BY <2>2, <2>3, BestIs
  <2> QED
    BY <1>4, <2>2, <2>3, <2>4 DEF Choice
<1> QED
  BY <1>2, <1>3, <1>4

(* A request of the device. *)
LEMMA RequestIs ==
  ASSUME IsDevice(Dram), NEW id \in Nat, NEW type \in Asked(Dram),
         NEW addr \in Seq(Int), Len(addr) = Dram.depth + 2, NEW arrive \in Int,
         type = "refresh" => Node(addr, 2) \in Dram.ranks,
         type # "refresh" => Node(addr, Dram.depth) \in Dram.banks
  PROVE  Request(id, type, addr, arrive) \in Requests(Dram)
<1> DEFINE f == Dram.requests[type]
           r == Request(id, type, addr, arrive)
<1>1. f \in Steps(Dram, f)
  BY DEF Steps
<1>2. f \in Commands(Dram)
  BY <1>1 DEF Commands
<1>3. f \in DOMAIN Dram.scope
  BY <1>2 DEF IsDevice
<1>4. r = [id |-> id, type |-> type, addr |-> addr, arrive |-> arrive, final |-> f]
  BY DEF Request
<1> HIDE DEF r, f
<1>5. r \in [id : Nat, type : Asked(Dram), addr : Seq(Int), arrive : Int, final : DOMAIN Dram.scope]
  BY <1>3, <1>4
<1>6. r.final = Dram.requests[r.type] /\ r.addr = addr /\ r.type = type
  BY <1>4 DEF f
<1> QED
  BY <1>5, <1>6 DEF Requests, r

(* A path with two numbers after it. *)
LEMMA TwoMore ==
  ASSUME NEW b \in Seq(Int), NEW x \in Int, NEW y \in Int
  PROVE  /\ b \o <<x, y>> \in Seq(Int) /\ Len(b \o <<x, y>>) = Len(b) + 2
         /\ Node(b \o <<x, y>>, Len(b)) = b
<1> DEFINE e == <<x, y>>
<1>1. e \in Seq(Int) /\ Len(e) = 2
  OBVIOUS
<1> HIDE DEF e
<1>2. Len(b) \in Nat
  BY LenProperties
<1>3. b \o e \in Seq(Int) /\ Len(b \o e) = Len(b) + Len(e)
      /\ \A i \in 1..Len(b) + Len(e) : (b \o e)[i] = IF i <= Len(b) THEN b[i] ELSE e[i - Len(b)]
  BY <1>1, ConcatProperties
<1> DEFINE p == b \o e
<1> HIDE DEF p
<1>4. p \in Seq(Int) /\ Len(p) = Len(b) + 2 /\ \A i \in 1..Len(b) : p[i] = b[i]
  BY <1>1, <1>2, <1>3 DEF p
<1>5. /\ Node(p, Len(b)) \in Seq(Int) /\ Len(Node(p, Len(b))) = Len(b)
      /\ \A i \in 1..Len(b) : Node(p, Len(b))[i] = p[i]
  <2>1. Len(b) <= Len(p)
    BY <1>2, <1>4
  <2> QED
    BY <1>2, <1>4, <2>1, NodeOf
<1>6. Node(p, Len(b)) = b
  BY <1>4, <1>5, SeqEqual
<1> QED
  BY <1>4, <1>6 DEF p, e

(* An access of a plugin's own. *)
LEMMA AccessIs ==
  ASSUME IsDevice(Dram), NEW type \in {"read", "write"}, NEW b \in Banks,
         NEW row \in Int, NEW column \in Int
  PROVE  Access(type, b, row, column) \in Requests(Dram)
<1> DEFINE addr == b \o <<row, column>>
<1>1. b \in Seq(Int) /\ Len(b) = Dram.depth
  BY Tree DEF Banks
<1>2. addr \in Seq(Int) /\ Len(addr) = Dram.depth + 2 /\ Node(addr, Dram.depth) = b
  BY <1>1, TwoMore
<1>3. type \in Asked(Dram) /\ type # "refresh"
  BY DEF Asked, IsDevice
<1>4. -1 \in Int /\ 0 \in Nat
  OBVIOUS
<1> HIDE DEF addr
<1>5. Node(addr, Dram.depth) \in Dram.banks
  BY <1>2 DEF Banks
<1>6. Request(0, type, addr, -1) \in Requests(Dram)
  BY <1>2, <1>3, <1>4, <1>5, RequestIs
<1> QED
  BY <1>6 DEF Access, addr

(* A command that opens a row names a bank, which a victim refresh may name. *)
LEMMA OpensBank ==
  ASSUME IsDevice(Dram), NEW cmd, NEW addr, Opens(cmd), Names(Dram, cmd, addr)
  PROVE  /\ BankOf(addr) \in Banks /\ RowOf(addr) \in Int
         /\ addr \in Seq(Int) /\ Len(addr) = Dram.depth + 2
<1>1. Dram.depth \in Nat /\ Dram.depth >= 2 /\ Dram.scopeLevel[cmd] = Dram.depth + 1
  BY Tree DEF Opens
<1>2. addr \in Seq(Int) /\ Len(addr) = Dram.depth + 2
  BY DEF Names
<1>3. Dram.depth \in 1..Dram.depth /\ Dram.depth <= Dram.scopeLevel[cmd]
  BY <1>1
<1>4. Node(addr, Dram.depth) \in Dram.nodes
  BY <1>3 DEF Names
<1>5. Len(Node(addr, Dram.depth)) = Dram.depth
  BY <1>1, <1>2, NodeOf
<1>6. Dram.banks = {n \in Dram.nodes : Len(n) = Dram.depth}
  BY DEF IsDevice, IsTree
<1>7. Node(addr, Dram.depth) \in Dram.banks
  BY <1>4, <1>5, <1>6
<1>8. Dram.depth + 1 \in 1..Len(addr)
  BY <1>1, <1>2
<1>9. RowOf(addr) \in Int
  BY <1>2, <1>8, ElementOfSeq DEF RowOf
<1> QED
  BY <1>2, <1>7, <1>9 DEF BankOf, Banks

(* The request a plugin makes for the victims of an activation is one of   *)
(* the device.                                                             *)
LEMMA VictimIs ==
  ASSUME IsDevice(Dram), "victim" \in DOMAIN Dram.requests, NEW needed,
         NEW addr, needed => /\ BankOf(addr) \in Banks
                             /\ addr \in Seq(Int) /\ Len(addr) = Dram.depth + 2
  PROVE  Victim(addr, needed) \in Seq(Requests(Dram))
<1>1. CASE needed
  <2>1. "victim" \in Asked(Dram)
    BY DEF Asked
  <2>2. -1 \in Int /\ 0 \in Nat
    OBVIOUS
  <2>3. Node(addr, Dram.depth) \in Dram.banks
    BY <1>1 DEF BankOf, Banks
  <2>4. Request(0, "victim", addr, -1) \in Requests(Dram)
    BY <1>1, <2>1, <2>2, <2>3, RequestIs
  <2> QED
    BY <1>1, <2>4 DEF Victim
<1>2. CASE ~needed
  BY <1>2 DEF Victim
<1> QED
  BY <1>1, <1>2

(* What the refresh manager sends. *)
LEMMA RefreshesAre ==
  ASSUME IsDevice(Dram)
  PROVE  Refreshes \in Seq(Requests(Dram))
<1> DEFINE N == Cardinality(Dram.ranks)
<1>1. IsFiniteSet(Dram.ranks) /\ \A i \in 1..N : <<0, i - 1>> \in Dram.ranks
  BY DEF IsDevice, IsTree
<1>2. N \in Nat
  BY <1>1, FS_CardinalityType
<1>3. ASSUME NEW i \in 1..N
      PROVE  Request(0, "refresh", RefreshAddr(<<0, i - 1>>), -1) \in Requests(Dram)
  <2> DEFINE r == <<0, i - 1>>
             k == Dram.depth
             tail == [j \in 1..k |-> -1]
  <2>1. r \in Dram.ranks /\ r \in Seq(Int) /\ Len(r) = 2
    BY <1>1, Tree
  <2> HIDE DEF r
  <2>2. k \in Nat
    BY Tree
  <2>3. tail \in Seq(Int) /\ Len(tail) = k
    BY <2>2
  <2>4. RefreshAddr(r) = r \o tail
    <3>1. k + 2 - Len(r) = k
      BY <2>1, <2>2
    <3> QED
      BY <3>1 DEF RefreshAddr
  <2> HIDE DEF tail
  <2> DEFINE a == r \o tail
  <2>5. a \in Seq(Int) /\ Len(a) = Len(r) + Len(tail)
        /\ \A x \in 1..Len(r) + Len(tail) : a[x] = IF x <= Len(r) THEN r[x] ELSE tail[x - Len(r)]
    BY <2>1, <2>3, ConcatProperties
  <2> HIDE DEF a
  <2>6. a \in Seq(Int) /\ Len(a) = k + 2 /\ \A x \in 1..2 : a[x] = r[x]
    <3>1. \A x \in 1..2 : x \in 1..Len(r) + Len(tail) /\ x <= Len(r)
      BY <2>1, <2>2, <2>3
    <3> QED
      BY <2>1, <2>2, <2>3, <2>5, <3>1
  <2>7. Node(a, 2) \in Seq(Int) /\ Len(Node(a, 2)) = 2 /\ \A x \in 1..2 : Node(a, 2)[x] = a[x]
    <3>1. 2 \in Nat /\ 2 <= Len(a)
      BY <2>2, <2>6
    <3> QED
      BY <2>6, <3>1, NodeOf
  <2>8. Node(a, 2) = r
    BY <2>1, <2>6, <2>7, SeqEqual
  <2>9. "refresh" \in Asked(Dram)
    BY <2>1 DEF Asked, IsDevice
  <2>10. -1 \in Int /\ 0 \in Nat
    OBVIOUS
  <2>11. Request(0, "refresh", a, -1) \in Requests(Dram)
    BY <2>1, <2>6, <2>8, <2>9, <2>10, RequestIs
  <2> QED
    BY <2>4, <2>11 DEF a, r
<1>4. Refreshes = [i \in 1..N |-> Request(0, "refresh", RefreshAddr(<<0, i - 1>>), -1)]
  BY DEF Refreshes, Ranks
<1> HIDE DEF N
<1> QED
  BY <1>2, <1>3, <1>4

-----------------------------------------------------------------------------
(* The plugins.                                                            *)

(* What a plugin leaves: requests of the device in the priority buffer,     *)
(* and its tables in order.                                                 *)
Fed(q) == \E s \in Seq(Requests(Dram)) : buf' = [q EXCEPT !.priority = @ \o s]
Watched(q) == Fed(q) /\ TablesOK(Plugin, Dram, tracker')

(* A plugin is told a command of the device, or that there is none.         *)
Told(cmd, addr) == Opens(cmd) => Names(Dram, cmd, addr)
PluginTyped ==
  IsDevice(Dram) /\ IsPlugin(Plugin, Dram) /\ TablesOK(Plugin, Dram, tracker)

(* Sending requests of the device to the priority buffer ...               *)
LEMMA SentIsFed ==
  ASSUME NEW q, NEW s \in Seq(Requests(Dram)), PrioritySend(q, s)
  PROVE  Fed(q)
  BY DEF PrioritySend, Fed

(* ... and sending none keeps it a buffer of such requests.                *)
LEMMA NothingSent ==
  ASSUME NEW q, PrioritySend(q, <<>>)
  PROVE  Fed(q)
<1>1. <<>> \in Seq(Requests(Dram))
  BY EmptySeq
<1> QED
  BY <1>1, SentIsFed

(* So does asking for the victims of a command that opened a row.          *)
LEMMA VictimSent ==
  ASSUME IsDevice(Dram), "victim" \in DOMAIN Dram.requests, NEW q, NEW cmd, NEW addr,
         NEW needed, needed => Opens(cmd), Told(cmd, addr),
         PrioritySend(q, Victim(addr, needed))
  PROVE  Fed(q)
<1>1. needed => /\ BankOf(addr) \in Banks
                /\ addr \in Seq(Int) /\ Len(addr) = Dram.depth + 2
  BY OpensBank DEF Told
<1>2. Victim(addr, needed) \in Seq(Requests(Dram))
  BY <1>1, VictimIs
<1> QED
  BY <1>2, SentIsFed

(* The plugins that only refresh victims. *)
LEMMA VictimPlugins ==
  ASSUME PluginTyped, NEW q, NEW cmd, NEW addr, NEW t, Told(cmd, addr),
         \/ Plugin.name = "PARA" /\ Para(q, cmd, addr)
         \/ Plugin.name = "OracleRH" /\ OracleRH(q, cmd, addr)
         \/ Plugin.name = "TWiCe" /\ TWiCe(q, cmd, addr)
         \/ Plugin.name = "Graphene" /\ Graphene(q, cmd, addr, t)
  PROVE  Watched(q)
<1>1. "victim" \in DOMAIN Dram.requests
  BY DEF PluginTyped, IsPlugin
<1>2. tracker' = tracker
  BY DEF Para, OracleRH, TWiCe, Graphene, pluginVars
<1>3. \E needed : (needed => Opens(cmd)) /\ PrioritySend(q, Victim(addr, needed))
  <2>1. CASE Plugin.name = "PARA"
    BY <2>1 DEF Para
  <2>2. CASE Plugin.name = "OracleRH"
    BY <2>2 DEF OracleRH
  <2>3. CASE Plugin.name = "TWiCe"
    BY <2>3 DEF TWiCe
  <2>4. CASE Plugin.name = "Graphene"
    BY <2>4 DEF Graphene
  <2> QED
    BY <2>1, <2>2, <2>3, <2>4
<1>4. Fed(q)
  BY <1>1, <1>3, VictimSent DEF PluginTyped
<1>5. TablesOK(Plugin, Dram, tracker')
  BY <1>2 DEF PluginTyped
<1> QED
  BY <1>4, <1>5 DEF Watched

(* Hydra's counters are stored in the rows of the bank. *)
LEMMA CounterIs ==
  ASSUME PluginTyped, Plugin.name = "Hydra", NEW type \in {"read", "write"},
         NEW b \in Banks, NEW row \in Int
  PROVE  Counter(type, b, row) \in Requests(Dram)
<1>1. RctPerLine \in Nat \ {0}
  BY DEF RctPerLine, CounterBits
<1>2. Plugin.lines \in Nat \ {0}
  BY DEF PluginTyped, IsPlugin
<1>3. RctPerRow \in Nat \ {0}
  <2> DEFINE x == Plugin.lines
             y == RctPerLine
  <2> HIDE DEF x, y
  <2>1. x \in Nat \ {0} /\ y \in Nat \ {0}
    BY <1>1, <1>2 DEF x, y
  <2>2. x * y \in Nat \ {0}
    BY <2>1
  <2> QED
    BY <2>2 DEF RctPerRow, x, y
<1>4. row \div RctPerRow \in Int /\ row % RctPerRow \in Int
  BY <1>3
<1>5. (row % RctPerRow) \div RctPerLine \in Int
  BY <1>1, <1>4
<1> DEFINE c == (row % RctPerRow) \div RctPerLine
<1> HIDE DEF c
<1>6. 8 * c \in Int
  BY <1>5 DEF c
<1>7. Access(type, b, row \div RctPerRow, 8 * c) \in Requests(Dram)
  BY <1>4, <1>6, AccessIs DEF PluginTyped
<1> QED
  BY <1>7 DEF Counter, c

(* A set of the cache with an entry put in for another, or none.            *)
LEMMA CacheWith ==
  ASSUME NEW p, NEW d, NEW cache, IsCache(p, d, cache), NEW key \in DOMAIN cache,
         NEW tag \in d.banks \X Int, NEW value, NEW left, DOMAIN left \subseteq DOMAIN cache[key]
  PROVE  IsCache(p, d, [cache EXCEPT ![key] = Put(left, tag, value)])
<1> DEFINE new == Put(left, tag, value)
           cache2 == [cache EXCEPT ![key] = new]
<1>1. DOMAIN new = {tag} \cup DOMAIN left
  BY DEF Put
<1>2. \A x \in DOMAIN cache[key] : x \in d.banks \X Int
  BY DEF IsCache
<1>3. \A x \in DOMAIN new : x \in d.banks \X Int
  BY <1>1, <1>2
<1> HIDE DEF new
<1>4. DOMAIN cache2 = DOMAIN cache /\ cache2[key] = new
      /\ \A s \in DOMAIN cache : s # key => cache2[s] = cache[s]
  OBVIOUS
<1>5. \A s \in DOMAIN cache2 : \A x \in DOMAIN cache2[s] : x \in d.banks \X Int
  BY <1>3, <1>4 DEF IsCache
<1>6. DOMAIN cache2 = d.ranks \X (0..p.sets - 1)
  BY <1>4 DEF IsCache
<1> QED
  BY <1>5, <1>6 DEF IsCache, new

(* A row of Hydra's that reaches the threshold of its group. *)
LEMMA HydraRowDoes ==
  ASSUME PluginTyped, Plugin.name = "Hydra", NEW q, NEW now, NEW table,
         "cache" \in DOMAIN now, IsCache(Plugin, Dram, now.cache),
         NEW b \in Banks, NEW row \in Int, NEW addr, BankOf(addr) \in Banks,
         addr \in Seq(Int), Len(addr) = Dram.depth + 2,
         HydraRow(q, now, table, b, row, addr)
  PROVE  Watched(q)
<1> DEFINE g     == row \div Plugin.groupSize
           first == ~now.group[b][g].initialized
           start == [x \in g * Plugin.groupSize .. (g + 1) * Plugin.groupSize - 1 |->
                       [act |-> Plugin.groupThreshold]]
           setup == IF first THEN start @@ table[b] ELSE table[b]
           size  == IF first THEN Plugin.groupSize \div RctPerLine ELSE 0
           init  == [i \in 1..size |->
                       Counter("write", b, g * Plugin.groupSize + (i - 1) * RctPerLine)]
           key   == <<Node(b, 2), row % Plugin.sets>>
           set   == now.cache[key]
           tag   == <<b, row>>
           n     == setup[row].act + 1
           full  == n >= Plugin.threshold
           value == IF full THEN 0 ELSE n
           Recorded(left, asks) ==
            /\ tracker' = [now EXCEPT !.group[b][g].initialized = TRUE,
                                      !.cache[key] = Put(left, tag, value)]
            /\ PrioritySend(q, init \o asks \o Victim(addr, full))
<1>1. /\ IsDevice(Dram) /\ "victim" \in DOMAIN Dram.requests
      /\ Plugin.groupSize \in Nat \ {0} /\ Plugin.sets \in Nat \ {0}
      /\ Node(b, 2) \in Dram.ranks
  BY DEF PluginTyped, IsPlugin, Banks
<1>2. row % Plugin.sets \in 0..Plugin.sets - 1
  BY <1>1
<1>3. key \in DOMAIN now.cache
  BY <1>1, <1>2 DEF IsCache
<1>4. RctPerLine \in Nat \ {0}
  BY DEF RctPerLine, CounterBits
<1>5. size \in Nat
  <2>1. Plugin.groupSize \div RctPerLine \in Nat
    BY <1>1, <1>4
  <2> QED
    BY <2>1
<1>6. g \in Int
  BY <1>1
<1>7. \A x \in DOMAIN set : x \in Dram.banks \X Int
  BY <1>3 DEF IsCache
<1>8. \/ tag \in DOMAIN set /\ Recorded(set, <<>>)
      \/ /\ tag \notin DOMAIN set /\ Evictable(set) = {}
         /\ Recorded(set, <<Counter("read", b, row)>>)
      \/ /\ tag \notin DOMAIN set
         /\ \E x \in Evictable(set) :
              Recorded(Without(set, x), <<Counter("write", x[1], x[2]),
                                          Counter("read", b, row)>>)
  BY DEF HydraRow
<1>9. Evictable(set) \subseteq DOMAIN set
  BY DEF Evictable
<1>10. init \in Seq(Requests(Dram))
  <2>1. ASSUME NEW i \in 1..size
        PROVE  Counter("write", b, g * Plugin.groupSize + (i - 1) * RctPerLine) \in Requests(Dram)
    <3> DEFINE u == Plugin.groupSize
               v == RctPerLine
    <3> HIDE DEF g, u, v, size
    <3>1. u \in Int /\ v \in Int /\ i \in Int /\ g \in Int
      BY <1>1, <1>4, <1>5, <1>6 DEF u, v
    <3>2. g * u + (i - 1) * v \in Int
      BY <3>1
    <3>3. Counter("write", b, g * u + (i - 1) * v) \in Requests(Dram)
      BY <3>2, CounterIs
    <3> QED
      BY <3>3 DEF u, v
  <2> HIDE DEF size
  <2> QED
    BY <1>5, <2>1
<1>11. Victim(addr, full) \in Seq(Requests(Dram))
  BY <1>1, VictimIs
<1>12. Counter("read", b, row) \in Requests(Dram)
  BY CounterIs
<1>13. tag \in Dram.banks \X Int
  BY DEF Banks
<1> HIDE DEF init, set, tag, key, full, value, setup, size
<1>14. \E left, asks : /\ DOMAIN left \subseteq DOMAIN set
                       /\ asks \in Seq(Requests(Dram)) /\ Recorded(left, asks)
  <2>1. CASE tag \in DOMAIN set /\ Recorded(set, <<>>)
    <3>1. <<>> \in Seq(Requests(Dram))
      BY EmptySeq
    <3> HIDE DEF Recorded
    <3> QED
      BY <2>1, <3>1
  <2>2. CASE Recorded(set, <<Counter("read", b, row)>>)
    <3>1. <<Counter("read", b, row)>> \in Seq(Requests(Dram))
      BY <1>12
    <3> HIDE DEF Recorded
    <3> QED
      BY <2>2, <3>1
  <2>3. ASSUME NEW x \in Evictable(set),
               Recorded(Without(set, x), <<Counter("write", x[1], x[2]), Counter("read", b, row)>>)
        PROVE  \E left, asks : /\ DOMAIN left \subseteq DOMAIN set
                               /\ asks \in Seq(Requests(Dram)) /\ Recorded(left, asks)
    <3>1. x[1] \in Banks /\ x[2] \in Int
      BY <1>7, <1>9 DEF Banks
    <3>2. Counter("write", x[1], x[2]) \in Requests(Dram)
      BY <3>1, CounterIs
    <3>3. <<Counter("write", x[1], x[2]), Counter("read", b, row)>> \in Seq(Requests(Dram))
      BY <1>12, <3>2
    <3>4. DOMAIN Without(set, x) \subseteq DOMAIN set
      BY DEF Without
    <3> HIDE DEF Recorded
    <3> QED
      BY <2>3, <3>3, <3>4
  <2> QED
    BY <1>8, <2>1, <2>2, <2>3
<1>15. PICK left, asks : /\ DOMAIN left \subseteq DOMAIN set
                         /\ asks \in Seq(Requests(Dram)) /\ Recorded(left, asks)
  BY <1>14
<1>16. init \o asks \o Victim(addr, full) \in Seq(Requests(Dram))
  BY <1>10, <1>11, <1>15, ConcatProperties
<1>17. Fed(q)
  BY <1>15, <1>16, SentIsFed
<1>18. tracker' = [now EXCEPT !.group[b][g].initialized = TRUE,
                              !.cache[key] = Put(left, tag, value)]
  BY <1>15
<1> DEFINE new == Put(left, tag, value)
<1> HIDE DEF new, g
<1>19. tracker'.cache = [now.cache EXCEPT ![key] = new] /\ "cache" \in DOMAIN tracker'
  BY <1>18 DEF new
<1>20. IsCache(Plugin, Dram, [now.cache EXCEPT ![key] = new])
  BY <1>3, <1>13, <1>15, CacheWith DEF new, set
<1>21. TablesOK(Plugin, Dram, tracker')
  BY <1>19, <1>20 DEF TablesOK
<1> QED
  BY <1>17, <1>21 DEF Watched

(* Hydra asks for counters and victims, and its cache stays indexed by     *)
(* banks and rows.                                                         *)
LEMMA HydraDoes ==
  ASSUME PluginTyped, Plugin.name = "Hydra", NEW q, NEW cmd, NEW addr, NEW t,
         Told(cmd, addr), Hydra(q, cmd, addr, t)
  PROVE  Watched(q)
<1> DEFINE now   == IF ResetDue(t) THEN HydraTables ELSE tracker
           table == IF ResetDue(t) THEN [x \in Banks |-> <<>>] ELSE counts
           b     == BankOf(addr)
           row   == RowOf(addr)
           g     == row \div Plugin.groupSize
           group == IF g \in DOMAIN now.group[b] THEN now.group[b][g]
                    ELSE [count |-> 0, initialized |-> FALSE]
<1>1. "cache" \in DOMAIN now /\ IsCache(Plugin, Dram, now.cache)
  <2>1. CASE ResetDue(t)
    <3>1. now = HydraTables
      BY <2>1
    <3>2. "cache" \in DOMAIN HydraTables
          /\ HydraTables.cache = [s \in Ranks \X (0..Plugin.sets - 1) |-> <<>>]
      BY DEF HydraTables
    <3>3. \A s \in Ranks \X (0..Plugin.sets - 1) : DOMAIN HydraTables.cache[s] = {}
      BY <3>2
    <3> QED
      BY <3>1, <3>2, <3>3 DEF IsCache, Ranks
  <2>2. CASE ~ResetDue(t)
    BY <2>2 DEF PluginTyped, TablesOK
  <2> QED
    BY <2>1, <2>2
<1>2. "victim" \in DOMAIN Dram.requests /\ IsDevice(Dram)
  BY DEF PluginTyped, IsPlugin
<1>3. Opens(cmd) => /\ b \in Banks /\ row \in Int
                    /\ addr \in Seq(Int) /\ Len(addr) = Dram.depth + 2
  BY <1>2, OpensBank DEF Told
<1>4. \/ /\ ~Opens(cmd)
         /\ tracker' = now /\ counts' = table /\ PrioritySend(q, <<>>)
      \/ /\ Opens(cmd) /\ row < RctRows
         /\ HydraOwn(q, now, b, row, addr) /\ counts' = table
      \/ /\ Opens(cmd) /\ row >= RctRows /\ group.count < Plugin.groupThreshold
         /\ tracker' = [now EXCEPT !.group[b] =
                           Put(@, g, [group EXCEPT !.count = @ + 1])]
         /\ counts' = table /\ PrioritySend(q, <<>>)
      \/ /\ Opens(cmd) /\ row >= RctRows /\ group.count >= Plugin.groupThreshold
         /\ HydraRow(q, [now EXCEPT !.group[b] = Put(@, g, group)],
                     table, b, row, addr)
  BY DEF Hydra
<1> HIDE DEF now, table, row, g, group
<1>5. CASE tracker' = now /\ PrioritySend(q, <<>>)
  BY <1>1, <1>5, NothingSent DEF Watched, TablesOK
<1>6. CASE Opens(cmd) /\ HydraOwn(q, now, b, row, addr)
  <2> DEFINE n    == 1 + (IF row \in DOMAIN now.own[b] THEN now.own[b][row] ELSE 0)
             full == n >= Plugin.threshold
             own2 == IF full THEN Without(now.own[b], row) ELSE Put(now.own[b], row, n)
  <2>1. tracker' = [now EXCEPT !.own[b] = IF full THEN Without(@, row) ELSE Put(@, row, n)]
        /\ PrioritySend(q, Victim(addr, full))
    BY <1>6 DEF HydraOwn
  <2>2. Fed(q)
    <3>1. Victim(addr, full) \in Seq(Requests(Dram))
      BY <1>2, <1>3, <1>6, VictimIs
    <3> HIDE DEF full
    <3> QED
      BY <2>1, <3>1, SentIsFed
  <2>3. tracker'.cache = now.cache /\ "cache" \in DOMAIN tracker'
    <3> HIDE DEF n, full
    <3> QED
      BY <1>1, <2>1
  <2> QED
    BY <1>1, <2>2, <2>3 DEF Watched, TablesOK
<1>7. CASE /\ tracker' = [now EXCEPT !.group[b] = Put(@, g, [group EXCEPT !.count = @ + 1])]
           /\ PrioritySend(q, <<>>)
  <2>1. tracker'.cache = now.cache /\ "cache" \in DOMAIN tracker'
    BY <1>1, <1>7
  <2> QED
    BY <1>1, <1>7, <2>1, NothingSent DEF Watched, TablesOK
<1>8. CASE Opens(cmd) /\ HydraRow(q, [now EXCEPT !.group[b] = Put(@, g, group)],
                                  table, b, row, addr)
  <2> DEFINE now2 == [now EXCEPT !.group[b] = Put(@, g, group)]
  <2>1. "cache" \in DOMAIN now2 /\ now2.cache = now.cache
    BY <1>1
  <2> HIDE DEF now2
  <2>2. HydraRow(q, now2, table, b, row, addr)
    BY <1>8 DEF now2
  <2> QED
    BY <1>1, <1>3, <1>8, <2>1, <2>2, HydraRowDoes
<1> QED
  BY <1>4, <1>5, <1>6, <1>7, <1>8

(* Two or three sequences put together. *)
LEMMA FlattenFew ==
  ASSUME NEW T, NEW N \in 1..3, NEW seqs, Len(seqs) = N, \A i \in 1..N : seqs[i] \in Seq(T)
  PROVE  FlattenSeq(seqs) \in Seq(T)
<1> DEFINE Step(f) == [i \in 1..Len(seqs) |-> IF i = 1 THEN seqs[i] ELSE f[i - 1] \o seqs[i]]
           two == seqs[1] \o seqs[2]
           three == two \o seqs[3]
           g == [i \in 1..Len(seqs) |-> IF i = 1 THEN seqs[1] ELSE IF i = 2 THEN two ELSE three]
           flat == CHOOSE f : f = Step(f)
<1>1. g = Step(g)
  <2>1. \A i \in 1..Len(seqs) : i \in {1, 2, 3}
    OBVIOUS
  <2>2. ASSUME NEW i \in 1..Len(seqs)
        PROVE  g[i] = IF i = 1 THEN seqs[i] ELSE g[i - 1] \o seqs[i]
    <3> HIDE DEF two, three
    <3>1. CASE i = 1
      BY <3>1
    <3>2. CASE i = 2
      <4>1. 1 \in 1..Len(seqs) /\ i - 1 = 1
        BY <3>2
      <4>2. g[1] = seqs[1] /\ g[i] = two
        BY <3>2, <4>1
      <4>3. g[i] = g[i - 1] \o seqs[i]
        <5> HIDE DEF g
        <5> QED
          BY <3>2, <4>1, <4>2 DEF two
      <4> QED
        BY <3>2, <4>3
    <3>3. CASE i = 3
      <4>1. 2 \in 1..Len(seqs) /\ i - 1 = 2
        BY <3>3
      <4>2. g[2] = two /\ g[i] = three
        BY <3>3, <4>1
      <4>3. g[i] = g[i - 1] \o seqs[i]
        <5> HIDE DEF g
        <5> QED
          BY <3>3, <4>1, <4>2 DEF three
      <4> QED
        BY <3>3, <4>3
    <3> QED
      BY <2>1, <3>1, <3>2, <3>3
  <2>3. g = [i \in 1..Len(seqs) |-> g[i]]
    OBVIOUS
  <2> HIDE DEF g
  <2> QED
    BY <2>2, <2>3
<1>2. flat = Step(flat)
  <2> HIDE DEF g, Step
  <2>1. \E f : f = Step(f)
    BY <1>1
  <2> QED
    BY <2>1
<1>3. FlattenSeq(seqs) = flat[Len(seqs)]
  BY DEF FlattenSeq
<1> HIDE DEF flat, g
<1>4. \A i \in 1..N : flat[i] = IF i = 1 THEN seqs[i] ELSE flat[i - 1] \o seqs[i]
  BY <1>2
<1>5. 1 \in 1..N /\ flat[1] \in Seq(T)
  <2>1. 1 \in 1..N
    OBVIOUS
  <2> QED
    BY <1>4, <2>1
<1>6. N >= 2 => flat[2] \in Seq(T)
  <2> SUFFICES ASSUME N >= 2
               PROVE  flat[2] \in Seq(T)
    OBVIOUS
  <2>1. 2 \in 1..N /\ 2 - 1 = 1
    OBVIOUS
  <2>2. flat[2] = flat[1] \o seqs[2]
    <3>1. flat[2] = IF 2 = 1 THEN seqs[2] ELSE flat[2 - 1] \o seqs[2]
      BY <1>4, <2>1
    <3>2. 2 # 1
      OBVIOUS
    <3> QED
      BY <2>1, <3>1, <3>2
  <2> QED
    BY <1>5, <2>1, <2>2, ConcatProperties
<1>7. N >= 3 => flat[3] \in Seq(T)
  <2> SUFFICES ASSUME N >= 3
               PROVE  flat[3] \in Seq(T)
    OBVIOUS
  <2>1. 3 \in 1..N /\ 3 - 1 = 2
    OBVIOUS
  <2>2. flat[3] = flat[2] \o seqs[3]
    <3>1. flat[3] = IF 3 = 1 THEN seqs[3] ELSE flat[3 - 1] \o seqs[3]
      BY <1>4, <2>1
    <3>2. 3 # 1
      OBVIOUS
    <3> QED
      BY <2>1, <3>1, <3>2
  <2> QED
    BY <1>6, <2>1, <2>2, ConcatProperties
<1>8. N = 1 \/ N = 2 \/ N = 3
  OBVIOUS
<1> QED
  BY <1>3, <1>5, <1>6, <1>7, <1>8

(* What RRS may do to its table, and the moves it is done with. *)
Pairs == Int \X Int
IsSwap(s) == IsRit(s.rit) /\ s.moves \in Seq(Pairs) /\ Len(s.moves) \in 1..3

(* Pairing two rows leaves a table of pairs, ...                           *)
LEMMA PairedIs ==
  ASSUME NEW rit, IsRit(rit), NEW x \in Int, NEW y \in Int
  PROVE  IsRit(Paired(rit, x, y))
<1> DEFINE r1 == Put(rit, y, [dst |-> x, lock |-> TRUE])
           r2 == Put(r1, x, [dst |-> y, lock |-> TRUE])
<1>1. \A z \in DOMAIN rit : z \in Int /\ rit[z] \in [dst : Int, lock : BOOLEAN]
  BY DEF IsRit
<1>2. [dst |-> x, lock |-> TRUE] \in [dst : Int, lock : BOOLEAN]
      /\ [dst |-> y, lock |-> TRUE] \in [dst : Int, lock : BOOLEAN]
  OBVIOUS
<1>3. \A z \in DOMAIN r1 : z \in Int /\ r1[z] \in [dst : Int, lock : BOOLEAN]
  BY <1>1, <1>2 DEF Put
<1> HIDE DEF r1
<1>4. \A z \in DOMAIN r2 : z \in Int /\ r2[z] \in [dst : Int, lock : BOOLEAN]
  BY <1>2, <1>3 DEF Put
<1> QED
  BY <1>4 DEF IsRit, Paired, r1

(* ... and so does taking a pair out.                                      *)
LEMMA UnpairedIs ==
  ASSUME NEW rit, IsRit(rit), NEW move
  PROVE  IsRit(Unpaired(rit, move))
<1> DEFINE r == Unpaired(rit, move)
<1>1. DOMAIN r = DOMAIN rit \ Range(move) /\ \A x \in DOMAIN r : r[x] = rit[x]
  BY DEF Unpaired
<1> HIDE DEF r
<1>2. \A z \in DOMAIN r : z \in Int /\ r[z] \in [dst : Int, lock : BOOLEAN]
  BY <1>1 DEF IsRit
<1> QED
  BY <1>2 DEF IsRit, r

(* What a full table gives back is a pair of its rows.                     *)
LEMMA UnswapsAre ==
  ASSUME NEW rit, IsRit(rit), NEW hot, NEW u \in Unswaps(rit, hot)
  PROVE  u = <<>> \/ u \in Pairs
<1>1. CASE Cardinality(DOMAIN rit) < Plugin.ritEntries
  BY <1>1 DEF Unswaps
<1>2. CASE ~(Cardinality(DOMAIN rit) < Plugin.ritEntries)
  <2>1. PICK x \in DOMAIN rit : u = <<x, rit[x].dst>>
    BY <1>2 DEF Unswaps
  <2>2. x \in Int /\ rit[x] \in [dst : Int, lock : BOOLEAN]
    BY DEF IsRit
  <2> QED
    BY <2>1, <2>2 DEF Pairs
<1> QED
  BY <1>1, <1>2

(* With it, a swap is done in one, two or three moves.                     *)
LEMMA MovesAre ==
  ASSUME NEW u, u = <<>> \/ u \in Pairs, NEW rest \in Seq(Pairs), Len(rest) \in 1..2
  PROVE  Moves(u, rest) \in Seq(Pairs) /\ Len(Moves(u, rest)) \in 1..3
<1>1. CASE u = <<>>
  BY <1>1 DEF Moves
<1>2. CASE u # <<>>
  <2>1. u \in Pairs
    BY <1>2
  <2>2. <<u>> \in Seq(Pairs) /\ Len(<<u>>) = 1
    BY <2>1
  <2>3. <<u>> \o rest \in Seq(Pairs) /\ Len(<<u>> \o rest) = Len(<<u>>) + Len(rest)
    BY <2>2, ConcatProperties
  <2>4. Len(<<u>> \o rest) \in 1..3
    BY <2>2, <2>3
  <2> QED
    BY <1>2, <2>3, <2>4 DEF Moves
<1> QED
  BY <1>1, <1>2

(* Whatever swap RRS chooses, it leaves a table of pairs and moves to make.*)
LEMMA SwapsAre ==
  ASSUME NEW rit, IsRit(rit), NEW hot, NEW row \in Int, Plugin.rows \in Nat,
         NEW s \in Swaps(rit, hot, row)
  PROVE  IsSwap(s)
<1>1. ASSUME NEW left
      PROVE  \A x \in RandRows(left, hot, row) : x \in Int
  BY DEF RandRows
<1>2. CASE row \notin DOMAIN rit
  <2>1. s \in FirstSwaps(rit, hot, row)
    BY <1>2 DEF Swaps, IsLocked
  <2>2. PICK u \in Unswaps(rit, hot), e \in Int :
          s = [rit |-> Paired(Unpaired(rit, u), row, e), moves |-> Moves(u, <<<<row, e>>>>)]
    BY <1>1, <2>1 DEF FirstSwaps
  <2>3. <<<<row, e>>>> \in Seq(Pairs) /\ Len(<<<<row, e>>>>) \in 1..2
    BY DEF Pairs
  <2>4. Moves(u, <<<<row, e>>>>) \in Seq(Pairs) /\ Len(Moves(u, <<<<row, e>>>>)) \in 1..3
    BY <2>3, UnswapsAre, MovesAre
  <2>5. IsRit(Paired(Unpaired(rit, u), row, e))
    BY PairedIs, UnpairedIs
  <2> QED
    BY <2>2, <2>4, <2>5 DEF IsSwap
<1>3. CASE row \in DOMAIN rit
  <2>1. rit[row].dst \in Int
    BY <1>3 DEF IsRit
  <2>2. CASE IsLocked(rit, row)
    <3> DEFINE prev == rit[row].dst
    <3>1. s \in Reswaps(rit, hot, row)
      BY <1>3, <2>2 DEF Swaps
    <3>2. PICK u \in Unswaps(rit, hot), x \in Int, y \in Int :
            s = [rit |-> Paired(Paired(Unpaired(Unpaired(rit, u), <<row, prev>>), row, y), prev, x),
                 moves |-> Moves(u, <<<<row, x>>, <<prev, y>>>>)]
      <4>1. PICK u \in Unswaps(rit, hot) :
              s \in {[rit |-> Paired(Paired(Unpaired(Unpaired(rit, u), <<row, prev>>), row, e[2]), prev, e[1]),
                      moves |-> Moves(u, <<<<row, e[1]>>, <<prev, e[2]>>>>)] :
                       e \in RandRows(Unpaired(rit, u), hot, row) \X RandRows(Unpaired(rit, u), hot, row)}
        BY <3>1 DEF Reswaps
      <4>2. PICK e \in RandRows(Unpaired(rit, u), hot, row) \X RandRows(Unpaired(rit, u), hot, row) :
              s = [rit |-> Paired(Paired(Unpaired(Unpaired(rit, u), <<row, prev>>), row, e[2]), prev, e[1]),
                   moves |-> Moves(u, <<<<row, e[1]>>, <<prev, e[2]>>>>)]
        BY <4>1
      <4>3. e[1] \in Int /\ e[2] \in Int
        BY <1>1
      <4> HIDE DEF prev
      <4> QED
        BY <4>2, <4>3
    <3> HIDE DEF prev
    <3>3. prev \in Int
      BY <2>1 DEF prev
    <3>4. <<<<row, x>>, <<prev, y>>>> \in Seq(Pairs) /\ Len(<<<<row, x>>, <<prev, y>>>>) \in 1..2
      BY <3>3 DEF Pairs
    <3>5. Moves(u, <<<<row, x>>, <<prev, y>>>>) \in Seq(Pairs)
          /\ Len(Moves(u, <<<<row, x>>, <<prev, y>>>>)) \in 1..3
      BY <3>4, UnswapsAre, MovesAre
    <3>6. IsRit(Unpaired(Unpaired(rit, u), <<row, prev>>))
      BY UnpairedIs
    <3>7. IsRit(Paired(Unpaired(Unpaired(rit, u), <<row, prev>>), row, y))
      BY <3>6, PairedIs
    <3>8. IsRit(Paired(Paired(Unpaired(Unpaired(rit, u), <<row, prev>>), row, y), prev, x))
      BY <3>3, <3>7, PairedIs
    <3> QED
      BY <3>2, <3>5, <3>8 DEF IsSwap
  <2>3. CASE ~IsLocked(rit, row)
    <3> DEFINE pair == <<row, rit[row].dst>>
    <3>1. s \in LaterSwaps(rit, hot, row)
      BY <1>3, <2>3 DEF Swaps
    <3>2. PICK e \in Int :
            s = [rit |-> Paired(Unpaired(rit, pair), row, e), moves |-> <<pair, <<row, e>>>>]
      BY <1>1, <3>1 DEF LaterSwaps
    <3>3. pair \in Pairs /\ <<row, e>> \in Pairs
      BY <2>1 DEF Pairs
    <3> HIDE DEF pair
    <3>4. <<pair, <<row, e>>>> \in Seq(Pairs) /\ Len(<<pair, <<row, e>>>>) \in 1..3
      BY <3>3
    <3>5. IsRit(Paired(Unpaired(rit, pair), row, e))
      BY PairedIs, UnpairedIs
    <3> QED
      BY <3>2, <3>4, <3>5 DEF IsSwap
  <2> QED
    BY <2>2, <2>3
<1> QED
  BY <1>2, <1>3

(* The requests of one move. *)
LEMMA SwapRequestsAre ==
  ASSUME IsDevice(Dram), Plugin.lines \in Nat, NEW b \in Banks, NEW move \in Pairs
  PROVE  SwapRequests(b, move) \in Seq(Requests(Dram))
<1> DEFINE Lines(type, row) == [i \in 1..Plugin.lines |-> Access(type, b, row, 8 * (i - 1))]
<1>1. ASSUME NEW type \in {"read", "write"}, NEW row \in Int
      PROVE  Lines(type, row) \in Seq(Requests(Dram))
  <2>1. \A i \in 1..Plugin.lines : 8 * (i - 1) \in Int
    OBVIOUS
  <2>2. \A i \in 1..Plugin.lines : Access(type, b, row, 8 * (i - 1)) \in Requests(Dram)
    BY <2>1, AccessIs
  <2> QED
    BY <2>2
<1>2. move[1] \in Int /\ move[2] \in Int
  BY DEF Pairs
<1> HIDE DEF Lines
<1>3. /\ Lines("read", move[1]) \in Seq(Requests(Dram))
      /\ Lines("read", move[2]) \in Seq(Requests(Dram))
      /\ Lines("write", move[2]) \in Seq(Requests(Dram))
      /\ Lines("write", move[1]) \in Seq(Requests(Dram))
  BY <1>1, <1>2
<1>4. Lines("read", move[1]) \o Lines("read", move[2])
        \o Lines("write", move[2]) \o Lines("write", move[1]) \in Seq(Requests(Dram))
  BY <1>3, ConcatProperties
<1> QED
  BY <1>4 DEF SwapRequests, Lines

(* RRS's tables: a pairing of the rows of each bank. *)
RitsOK(tables) ==
  /\ "rit" \in DOMAIN tables /\ DOMAIN tables.rit = Dram.banks
  /\ \A b \in Dram.banks : IsRit(tables.rit[b])

(* A count that reaches the threshold swaps its row; the requests read and  *)
(* write every line of the rows that move.                                  *)
LEMMA RRSCheckDoes ==
  ASSUME PluginTyped, Plugin.name = "RRS", NEW q, NEW now, RitsOK(now), NEW table,
         NEW b \in Banks, NEW row \in Int, RRSCheck(q, now, table, b, row)
  PROVE  Watched(q)
<1>1. Plugin.lines \in Nat /\ Plugin.rows \in Nat /\ IsDevice(Dram)
  BY DEF PluginTyped, IsPlugin
<1>2. CASE table[row].act % Plugin.threshold # 0
  <2>1. tracker' = now /\ PrioritySend(q, <<>>)
    BY <1>2 DEF RRSCheck
  <2> QED
    BY <2>1, NothingSent DEF Watched, TablesOK, RitsOK
<1>3. CASE ~(table[row].act % Plugin.threshold # 0)
  <2>1. PICK s \in Swaps(now.rit[b], DOMAIN table, row) :
          /\ tracker' = [now EXCEPT !.rit[b] = s.rit,
                                    !.holds[b] = FoldLeft(Swapped, @, s.moves),
                                    !.reswapped[b] = @ \/ IsLocked(now.rit[b], row)]
          /\ PrioritySend(q, FlattenSeq([i \in DOMAIN s.moves |-> SwapRequests(b, s.moves[i])]))
    BY <1>3 DEF RRSCheck
  <2>2. IsRit(now.rit[b])
    BY DEF RitsOK, Banks
  <2>3. IsSwap(s)
    BY <1>1, <2>2, SwapsAre
  <2>4. Fed(q)
    <3> DEFINE seqs == [i \in DOMAIN s.moves |-> SwapRequests(b, s.moves[i])]
    <3>1. DOMAIN s.moves = 1..Len(s.moves) /\ Len(s.moves) \in 1..3
          /\ \A i \in 1..Len(s.moves) : s.moves[i] \in Pairs
      BY <2>3, LenProperties, ElementOfSeq DEF IsSwap
    <3>2. \A i \in 1..Len(s.moves) : seqs[i] \in Seq(Requests(Dram))
      BY <1>1, <3>1, SwapRequestsAre
    <3>3. Len(seqs) = Len(s.moves)
      BY <3>1
    <3> HIDE DEF seqs
    <3>4. FlattenSeq(seqs) \in Seq(Requests(Dram))
      BY <3>1, <3>2, <3>3, FlattenFew
    <3>5. PrioritySend(q, FlattenSeq(seqs))
      BY <2>1 DEF seqs
    <3> QED
      BY <3>4, <3>5, SentIsFed
  <2>5. tracker'.rit = [now.rit EXCEPT ![b] = s.rit] /\ "rit" \in DOMAIN tracker'
    <3> DEFINE locked == IsLocked(now.rit[b], row)
               moves  == s.moves
               rit    == s.rit
               Fold(x) == FoldLeft(Swapped, x, moves)
    <3>1. tracker' = [now EXCEPT !.rit[b] = rit, !.holds[b] = Fold(@),
                                 !.reswapped[b] = @ \/ locked]
      BY <2>1
    <3> HIDE DEF locked, moves, rit, Fold
    <3>2. tracker'.rit = [now.rit EXCEPT ![b] = rit] /\ "rit" \in DOMAIN tracker'
      BY <3>1 DEF RitsOK
    <3> QED
      BY <3>2 DEF rit
  <2> DEFINE rit == s.rit
  <2> HIDE DEF rit
  <2>6. IsRit(rit) /\ tracker'.rit = [now.rit EXCEPT ![b] = rit]
    BY <2>3, <2>5 DEF IsSwap, rit
  <2>7. DOMAIN tracker'.rit = Dram.banks /\ \A x \in Dram.banks : IsRit(tracker'.rit[x])
    BY <2>6 DEF RitsOK
  <2> QED
    BY <2>4, <2>5, <2>7 DEF Watched, TablesOK
<1> QED
  BY <1>2, <1>3

(* Unlocking the entries at the end of a period changes no pair.           *)
LEMMA UnlockedOK ==
  ASSUME RitsOK(tracker)
  PROVE  RitsOK(Unlocked(tracker))
<1> DEFINE rit2 == [b \in Banks |-> [x \in DOMAIN tracker.rit[b] |->
                                       [tracker.rit[b][x] EXCEPT !.lock = FALSE]]]
<1>1. Unlocked(tracker).rit = rit2 /\ "rit" \in DOMAIN Unlocked(tracker)
  BY DEF Unlocked, RitsOK
<1>2. \A b \in Dram.banks : IsRit(rit2[b])
  <2> SUFFICES ASSUME NEW b \in Dram.banks
               PROVE  IsRit(rit2[b])
    OBVIOUS
  <2>1. rit2[b] = [x \in DOMAIN tracker.rit[b] |-> [tracker.rit[b][x] EXCEPT !.lock = FALSE]]
    BY DEF Banks
  <2>2. \A x \in DOMAIN tracker.rit[b] :
           x \in Int /\ tracker.rit[b][x] \in [dst : Int, lock : BOOLEAN]
    BY DEF RitsOK, IsRit
  <2>3. \A x \in DOMAIN tracker.rit[b] :
           [tracker.rit[b][x] EXCEPT !.lock = FALSE] \in [dst : Int, lock : BOOLEAN]
    BY <2>2
  <2> HIDE DEF rit2
  <2>4. \A x \in DOMAIN rit2[b] : x \in Int /\ rit2[b][x] \in [dst : Int, lock : BOOLEAN]
    BY <2>1, <2>2, <2>3
  <2> QED
    BY <2>4 DEF IsRit
<1>3. DOMAIN rit2 = Dram.banks
  BY DEF Banks
<1> HIDE DEF rit2
<1> QED
  BY <1>1, <1>2, <1>3 DEF RitsOK

(* RRS keeps its table one of pairs and sends only requests of the device. *)
LEMMA RRSDoes ==
  ASSUME PluginTyped, Plugin.name = "RRS", NEW q, NEW cmd, NEW addr, NEW t,
         Told(cmd, addr), RRS(q, cmd, addr, t)
  PROVE  Watched(q)
<1> DEFINE now == IF ResetDue(t) THEN Unlocked(tracker) ELSE tracker
           b   == BankOf(addr)
           row == RowOf(addr)
<1>1. RitsOK(tracker)
  BY DEF PluginTyped, TablesOK, RitsOK
<1>2. RitsOK(now)
  BY <1>1, UnlockedOK
<1>3. Opens(cmd) => b \in Banks /\ row \in Int
  BY OpensBank DEF Told, PluginTyped
<1>4. \/ tracker' = now /\ PrioritySend(q, <<>>)
      \/ Opens(cmd) /\ \E table : RRSCheck(q, now, table, b, row)
  BY DEF RRS
<1> HIDE DEF now, b, row
<1>5. CASE tracker' = now /\ PrioritySend(q, <<>>)
  BY <1>2, <1>5, NothingSent DEF Watched, TablesOK, RitsOK
<1>6. CASE Opens(cmd) /\ \E table : RRSCheck(q, now, table, b, row)
  BY <1>2, <1>3, <1>6, RRSCheckDoes
<1> QED
  BY <1>4, <1>5, <1>6

(* Whatever the plugin, it sends requests of the device and keeps its tables.*)
LEMMA WatchDoes ==
  ASSUME PluginTyped, NEW q, NEW cmd, NEW addr, NEW t, Told(cmd, addr), Watch(q, cmd, addr, t)
  PROVE  Watched(q)
<1>1. CASE Plugin.name \in {"PARA", "OracleRH", "TWiCe", "Graphene"}
  <2>1. \/ Plugin.name = "PARA" /\ Para(q, cmd, addr)
        \/ Plugin.name = "OracleRH" /\ OracleRH(q, cmd, addr)
        \/ Plugin.name = "TWiCe" /\ TWiCe(q, cmd, addr)
        \/ Plugin.name = "Graphene" /\ Graphene(q, cmd, addr, t)
    BY <1>1 DEF Watch
  <2> QED
    BY <2>1, VictimPlugins
<1>2. CASE Plugin.name = "Hydra"
  <2>1. Hydra(q, cmd, addr, t)
    BY <1>2 DEF Watch
  <2> QED
    BY <1>2, <2>1, HydraDoes
<1>3. CASE Plugin.name = "RRS"
  <2>1. RRS(q, cmd, addr, t)
    BY <1>3 DEF Watch
  <2> QED
    BY <1>3, <2>1, RRSDoes
<1>4. CASE Plugin.name \notin {"PARA", "OracleRH", "TWiCe", "Graphene", "Hydra", "RRS"}
  <2>1. PrioritySend(q, <<>>) /\ UNCHANGED pluginVars
    BY <1>4 DEF Watch
  <2>2. tracker' = tracker
    BY <2>1 DEF pluginVars
  <2> QED
    BY <2>1, <2>2, NothingSent DEF Watched, PluginTyped
<1> QED
  BY <1>1, <1>2, <1>3, <1>4

-----------------------------------------------------------------------------
(* The buffers.                                                            *)

(* A sequence with an element more, and with one less. *)
LEMMA EnqueueIs ==
  ASSUME NEW X, NEW q \in Seq(X), NEW r \in X
  PROVE  /\ Enqueue(q, r) \in Seq(X) /\ Len(q) <= Len(Enqueue(q, r))
         /\ Range(Enqueue(q, r)) \subseteq Range(q) \cup {r}
<1>1. CASE Len(q) <= MaxSize
  <2>1. Enqueue(q, r) = Append(q, r)
    BY <1>1 DEF Enqueue
  <2>2. /\ Append(q, r) \in Seq(X) /\ Len(q) \in Nat /\ DOMAIN q = 1..Len(q)
        /\ DOMAIN Append(q, r) = 1..(Len(q) + 1) /\ Len(Append(q, r)) = Len(q) + 1
        /\ Append(q, r)[Len(q) + 1] = r
        /\ \A k \in 1..Len(q) : Append(q, r)[k] = q[k]
    BY Longer
  <2>3. \A k \in DOMAIN Append(q, r) : Append(q, r)[k] \in Range(q) \cup {r}
    <3> TAKE k \in DOMAIN Append(q, r)
    <3>1. k \in 1..Len(q) \/ k = Len(q) + 1
      BY <2>2
    <3> QED
      BY <2>2, <3>1 DEF Range
  <2>4. Range(Append(q, r)) \subseteq Range(q) \cup {r}
    <3> DEFINE Y == Range(q) \cup {r}
    <3> HIDE DEF Y
    <3>1. \A k \in DOMAIN Append(q, r) : Append(q, r)[k] \in Y
      BY <2>3 DEF Y
    <3>2. Range(Append(q, r)) \subseteq Y
      BY <3>1 DEF Range
    <3> QED
      BY <3>2 DEF Y
  <2> QED
    BY <2>1, <2>2, <2>4
<1>2. CASE ~(Len(q) <= MaxSize)
  <2>1. Enqueue(q, r) = q /\ Len(q) \in Nat
    BY <1>2, LenProperties DEF Enqueue
  <2> QED
    BY <2>1
<1> QED
  BY <1>1, <1>2

(* Removing an element leaves a sequence of elements that were there.      *)
LEMMA RemoveAtIs ==
  ASSUME NEW X, NEW q \in Seq(X), NEW i \in 1..Len(q)
  PROVE  RemoveAt(q, i) \in Seq(X) /\ Range(RemoveAt(q, i)) \subseteq Range(q)
<1> DEFINE N == Len(q)
<1>1. N \in Nat /\ DOMAIN q = 1..N
  BY LenProperties
<1>2. \A k \in 1..N : q[k] \in X
  BY ElementOfSeq
<1> DEFINE front == SubSeq(q, 1, i - 1)
           back == SubSeq(q, i + 1, N)
<1>3. /\ front \in Seq(X) /\ Len(front) = i - 1 /\ \A k \in 1..(i - 1) : front[k] = q[k]
  <2>1. i - 1 \in Int /\ 1 \in Int /\ \A k \in 1..(i - 1) : q[k] \in X
    BY <1>1, <1>2
  <2>2. /\ SubSeq(q, 1, i - 1) \in Seq(X)
        /\ Len(SubSeq(q, 1, i - 1)) = IF 1 <= i - 1 THEN i - 1 - 1 + 1 ELSE 0
        /\ \A k \in 1..(i - 1 - 1 + 1) : SubSeq(q, 1, i - 1)[k] = q[1 + k - 1]
    BY <2>1, SubSeqProperties
  <2> HIDE DEF N
  <2> QED
    BY <1>1, <2>2
<1>4. /\ back \in Seq(X) /\ Len(back) = N - i /\ \A k \in 1..(N - i) : back[k] = q[i + k]
  <2>1. i + 1 \in Int /\ N \in Int /\ \A k \in i + 1..N : q[k] \in X
    BY <1>1, <1>2
  <2>2. /\ SubSeq(q, i + 1, N) \in Seq(X)
        /\ Len(SubSeq(q, i + 1, N)) = IF i + 1 <= N THEN N - (i + 1) + 1 ELSE 0
        /\ \A k \in 1..(N - (i + 1) + 1) : SubSeq(q, i + 1, N)[k] = q[i + 1 + k - 1]
    BY <2>1, SubSeqProperties
  <2>3. i \in Int /\ i <= N
    BY <1>1
  <2> HIDE DEF N
  <2>4. (IF i + 1 <= N THEN N - (i + 1) + 1 ELSE 0) = N - i
    BY <1>1, <2>3
  <2>5. N - (i + 1) + 1 = N - i /\ \A k \in 1..(N - i) : i + 1 + k - 1 = i + k
    BY <1>1, <2>3
  <2>6. \A k \in 1..(N - i) : back[k] = q[i + k]
    BY <2>2, <2>5
  <2> QED
    BY <2>2, <2>4, <2>6
<1> HIDE DEF front, back
<1> DEFINE p == front \o back
<1>5. /\ p \in Seq(X) /\ Len(p) = Len(front) + Len(back)
      /\ \A k \in 1..(Len(front) + Len(back)) :
           p[k] = IF k <= Len(front) THEN front[k] ELSE back[k - Len(front)]
  BY <1>3, <1>4, ConcatProperties
<1>6. DOMAIN p = 1..(N - 1)
  <2>1. Len(p) = N - 1
    BY <1>1, <1>3, <1>4, <1>5
  <2> HIDE DEF p
  <2> QED
    BY <1>5, <2>1, LenProperties
<1> HIDE DEF p
<1>7. ASSUME NEW k \in 1..(N - 1)
      PROVE  p[k] \in Range(q)
  <2>1. i \in Int /\ k \in Int /\ N \in Int
    BY <1>1
  <2>2. CASE k <= i - 1
    <3>1. k \in 1..(i - 1) /\ k \in 1..N /\ k \in 1..(Len(front) + Len(back))
      BY <1>1, <1>3, <1>4, <2>1, <2>2
    <3>2. p[k] = q[k]
      BY <1>3, <1>5, <2>2, <3>1
    <3> QED
      BY <1>1, <3>1, <3>2 DEF Range
  <2>3. CASE k > i - 1
    <3>1. k - (i - 1) \in 1..(N - i) /\ k + 1 \in 1..N
          /\ k \in 1..(Len(front) + Len(back)) /\ i + (k - (i - 1)) = k + 1
      BY <1>1, <1>3, <1>4, <2>1, <2>3
    <3>2. p[k] = back[k - Len(front)]
      BY <1>3, <1>5, <2>3, <3>1
    <3>3. p[k] = q[k + 1]
      BY <1>3, <1>4, <3>1, <3>2
    <3> QED
      BY <1>1, <3>1, <3>3 DEF Range
  <2> QED
    BY <2>1, <2>2, <2>3
<1>8. Range(p) \subseteq Range(q)
  <2> DEFINE Y == Range(q)
  <2> HIDE DEF Y
  <2>1. \A k \in DOMAIN p : p[k] \in Y
    BY <1>6, <1>7 DEF Y
  <2>2. Range(p) \subseteq Y
    BY <2>1 DEF Range
  <2> QED
    BY <2>2 DEF Y
<1>9. RemoveAt(q, i) = p
  BY DEF RemoveAt, p, front, back
<1> QED
  BY <1>5, <1>8, <1>9

(* The buffers of the controller hold requests of the device.              *)
Buffers(d) == [Queues -> Seq(Requests(d))]

(* What the refresh manager leaves in the buffers. *)
LEMMA QueuedIs ==
  ASSUME IsDevice(Dram), buf \in Buffers(Dram), NEW t
  PROVE  Queued(t) \in Buffers(Dram) /\ Queued(t).active = buf.active
<1>1. "priority" \in Queues /\ "active" \in Queues
  BY DEF Queues
<1>2. buf.priority \in Seq(Requests(Dram))
  BY <1>1 DEF Buffers
<1>3. buf.priority \o Refreshes \in Seq(Requests(Dram))
  BY <1>2, RefreshesAre, ConcatProperties
<1>4. CASE RefreshDue(t)
  <2>1. Queued(t) = [buf EXCEPT !.priority = buf.priority \o Refreshes]
    BY <1>4 DEF Queued
  <2> QED
    BY <1>1, <1>3, <2>1 DEF Buffers
<1>5. CASE ~RefreshDue(t)
  BY <1>5 DEF Queued
<1> QED
  BY <1>4, <1>5

(* What an issued command leaves in them: only a request whose row it opens *)
(* is new among the active ones.                                            *)
LEMMA AfterIssueIs ==
  ASSUME NEW d, NEW q \in Buffers(d), NEW ch, ch.name \in Queues, ch.i \in DOMAIN q[ch.name],
         NEW r, r = q[ch.name][ch.i], NEW cmd
  PROVE  /\ AfterIssue(q, ch, r, cmd) \in Buffers(d)
         /\ r \in Requests(d)
         /\ Range(AfterIssue(q, ch, r, cmd).active) \subseteq
              Range(q.active) \cup (IF cmd # r.final /\ cmd \in Dram.opening THEN {r} ELSE {})
<1> DEFINE X == Seq(Requests(d))
           name == ch.name
           left == AfterIssue(q, ch, r, cmd)
<1>1. \A x \in Queues : q[x] \in X
  BY DEF Buffers
<1>2. q[name] \in X /\ q.active \in X /\ "active" \in Queues
  BY <1>1 DEF Queues
<1>3. DOMAIN q[name] = 1..Len(q[name])
  BY <1>2, LenProperties
<1>4. r \in Requests(d)
  BY <1>2, <1>3, ElementOfSeq
<1>5. RemoveAt(q[name], ch.i) \in X /\ Range(RemoveAt(q[name], ch.i)) \subseteq Range(q[name])
  BY <1>2, <1>3, RemoveAtIs
<1>6. /\ Enqueue(q.active, r) \in X /\ Len(q.active) <= Len(Enqueue(q.active, r))
      /\ Range(Enqueue(q.active, r)) \subseteq Range(q.active) \cup {r}
  <2> DEFINE A == q.active
             E == Requests(d)
  <2>1. A \in Seq(E) /\ r \in E
    BY <1>2, <1>4
  <2> HIDE DEF A, E
  <2>2. /\ Enqueue(A, r) \in Seq(E) /\ Len(A) <= Len(Enqueue(A, r))
        /\ Range(Enqueue(A, r)) \subseteq Range(A) \cup {r}
    BY <2>1, EnqueueIs
  <2> QED
    BY <2>2 DEF A, E
<1>7. DOMAIN q = Queues
  BY DEF Buffers
<1>8. CASE cmd = r.final
  <2>1. left = [q EXCEPT ![name] = RemoveAt(q[name], ch.i)]
    BY <1>8 DEF AfterIssue, Removed
  <2>2. left \in Buffers(d)
    BY <1>5, <2>1 DEF Buffers
  <2>3. Range(left.active) \subseteq Range(q.active)
    <3>1. CASE name = "active"
      BY <1>2, <1>5, <1>7, <2>1, <3>1
    <3>2. CASE name # "active"
      BY <1>2, <1>7, <2>1, <3>2
    <3> QED
      BY <3>1, <3>2
  <2> QED
    BY <1>4, <2>2, <2>3
<1>9. CASE cmd # r.final /\ cmd \in Dram.opening /\ name = "active"
  <2> DEFINE e == Enqueue(q.active, r)
  <2>1. left = [q EXCEPT !.active = RemoveAt(e, ch.i)]
    BY <1>9 DEF AfterIssue
  <2> HIDE DEF e
  <2>2. e \in X /\ Len(q.active) <= Len(e) /\ Range(e) \subseteq Range(q.active) \cup {r}
    BY <1>6 DEF e
  <2>3. ch.i \in 1..Len(e)
    <3>1. Len(q.active) \in Nat /\ Len(e) \in Nat
      BY <1>2, <2>2, LenProperties
    <3> QED
      BY <1>3, <1>9, <2>2, <3>1
  <2>4. RemoveAt(e, ch.i) \in X /\ Range(RemoveAt(e, ch.i)) \subseteq Range(e)
    BY <2>2, <2>3, RemoveAtIs
  <2>5. left \in Buffers(d) /\ left.active = RemoveAt(e, ch.i)
    BY <1>2, <1>7, <2>1, <2>4 DEF Buffers
  <2>6. Range(left.active) \subseteq Range(q.active) \cup {r}
    BY <2>2, <2>4, <2>5
  <2> QED
    BY <1>4, <1>9, <2>5, <2>6
<1>10. CASE cmd # r.final /\ cmd \in Dram.opening /\ name # "active"
  <2> DEFINE e == Enqueue(q.active, r)
             q2 == [q EXCEPT !.active = e]
  <2>1. left = [q2 EXCEPT ![name] = RemoveAt(q2[name], ch.i)]
    BY <1>10 DEF AfterIssue, Removed
  <2> HIDE DEF e
  <2>2. q2[name] = q[name] /\ q2.active = e /\ DOMAIN q2 = Queues
    BY <1>2, <1>7, <1>10
  <2>3. q2 \in Buffers(d)
    BY <1>6 DEF Buffers, e
  <2> HIDE DEF q2
  <2>4. left \in Buffers(d) /\ left.active = e
    BY <1>2, <1>5, <1>10, <2>1, <2>2, <2>3 DEF Buffers
  <2> QED
    BY <1>4, <1>6, <1>10, <2>4 DEF e
<1>11. CASE cmd # r.final /\ ~(cmd \in Dram.opening)
  <2>1. left = q
    BY <1>11 DEF AfterIssue
  <2> QED
    BY <1>4, <1>11, <2>1
<1> QED
  BY <1>8, <1>9, <1>10, <1>11

(* The first of these facts, by itself. *)
LEMMA AfterIssueTyped ==
  ASSUME NEW d, NEW q \in Buffers(d), NEW ch, ch.name \in Queues, ch.i \in DOMAIN q[ch.name],
         NEW cmd
  PROVE  AfterIssue(q, ch, q[ch.name][ch.i], cmd) \in Buffers(d)
<1> DEFINE r == q[ch.name][ch.i]
<1> HIDE DEF r
<1>1. r = q[ch.name][ch.i]
  BY DEF r
<1>2. AfterIssue(q, ch, r, cmd) \in Buffers(d)
  BY <1>1, AfterIssueIs
<1> QED
  BY <1>2 DEF r

(* The last, by itself. *)
LEMMA AfterIssueActive ==
  ASSUME NEW d, NEW q \in Buffers(d), NEW ch, ch.name \in Queues, ch.i \in DOMAIN q[ch.name],
         NEW cmd, NEW s \in Range(AfterIssue(q, ch, q[ch.name][ch.i], cmd).active)
  PROVE  \/ s \in Range(q.active)
         \/ s = q[ch.name][ch.i] /\ cmd # s.final /\ cmd \in Dram.opening
<1> DEFINE r == q[ch.name][ch.i]
           new == IF cmd # r.final /\ cmd \in Dram.opening THEN {r} ELSE {}
<1> HIDE DEF r
<1>1. r = q[ch.name][ch.i] /\ s \in Range(AfterIssue(q, ch, r, cmd).active)
  BY DEF r
<1>2. Range(AfterIssue(q, ch, r, cmd).active) \subseteq Range(q.active) \cup new
  BY <1>1, AfterIssueIs
<1> HIDE DEF new
<1>3. s \in Range(q.active) \/ s \in new
  BY <1>1, <1>2
<1>4. s \in new => s = r /\ cmd # s.final /\ cmd \in Dram.opening
  BY DEF new
<1> QED
  BY <1>1, <1>3, <1>4

(* What a plugin leaves in them. *)
LEMMA FedIs ==
  ASSUME NEW q \in Buffers(Dram), Fed(q)
  PROVE  buf' \in Buffers(Dram) /\ buf'.active = q.active
<1>1. PICK s \in Seq(Requests(Dram)) : buf' = [q EXCEPT !.priority = q.priority \o s]
  BY DEF Fed
<1>2. "priority" \in Queues /\ "active" \in Queues
  BY DEF Queues
<1>3. q.priority \in Seq(Requests(Dram))
  BY <1>2 DEF Buffers
<1>4. q.priority \o s \in Seq(Requests(Dram))
  BY <1>3, ConcatProperties
<1> QED
  BY <1>1, <1>2, <1>4 DEF Buffers

-----------------------------------------------------------------------------
(* The steps of the system keep the types and the timers.                  *)

(* The types hold of every part, in the words of the lemmas above. *)
LEMMA PartsTyped ==
  ASSUME TypesOK
  PROVE  /\ IsDevice(Dram) /\ DeviceTyped /\ PluginTyped
         /\ buf \in Buffers(Dram)
  BY SystemIs DEF TypesOK, DeviceTyped, PluginTyped, Timers, Nodes, Buffers

(* The next cycle on which something may change is a later one.            *)
LEMMA NextEvent ==
  ASSUME TypesOK, Events # {}
  PROVE  Min(Events) \in Nat /\ Min(Events) > clk
<1>1. /\ IsDevice(Dram) /\ sys.leads \subseteq Int /\ clk \in Nat /\ nextRefresh \in Int
      /\ ready \in Timers(Dram) /\ synced \in [Ranks -> Int]
      /\ pending \in Seq([id : Nat, depart : Int])
      /\ buf \in [Queues -> Seq(Requests(Dram))]
  BY SystemIs DEF TypesOK, Timers, Nodes
<1>2. ASSUME NEW r \in Waiting
      PROVE  ReadyAt(Preq(r, clk), r.addr) \in Int
  <2>1. PICK name \in Queues : r \in Range(buf[name])
    BY <1>2 DEF Waiting
  <2>2. buf[name] \in Seq(Requests(Dram))
    BY <1>1
  <2>3. PICK i \in DOMAIN buf[name] : r = buf[name][i]
    BY <2>1 DEF Range
  <2>4. r \in Requests(Dram)
    BY <2>2, <2>3, ElementOfSeq, LenProperties
  <2>5. Preq(r, clk) \in Steps(Dram, r.final)
    BY PreqIsStep
  <2>6. Preq(r, clk) \in Commands(Dram) /\ Names(Dram, Preq(r, clk), r.addr)
    BY <1>1, <2>4, <2>5, RequestSteps
  <2>7. clk \in Int
    BY <1>1
  <2> QED
    BY <1>1, <2>6, <2>7, ReadyTimers
<1>3. ASSUME NEW i \in DOMAIN pending \cap {1}
      PROVE  pending[i].depart \in Int
  <2>1. pending[i] \in [id : Nat, depart : Int]
    BY <1>1, ElementOfSeq, LenProperties
  <2> QED
    BY <2>1
<1>4. \A r \in Ranks : synced[r] + 1 \in Int
  BY <1>1
<1>5. \A x \in sys.leads : nextRefresh - x \in Int
  BY <1>1
<1> DEFINE a == {ReadyAt(Preq(r, clk), r.addr) : r \in Waiting}
           b == {pending[i].depart : i \in DOMAIN pending \cap {1}}
           c == {synced[r] + 1 : r \in Ranks}
           e == IF RefreshesSoFar > sys.refreshes THEN {}
                ELSE {nextRefresh} \cup
                     (IF sent = Len(Trace) THEN {} ELSE {nextRefresh - x : x \in sys.leads})
<1>6. a \subseteq Int /\ b \subseteq Int /\ c \subseteq Int /\ e \subseteq Int
  BY <1>1, <1>2, <1>3, <1>4, <1>5
<1>7. Events = {t \in a \cup b \cup c \cup e : t > clk}
  BY DEF Events
<1> HIDE DEF a, b, c, e
<1> DEFINE all == a \cup b \cup c \cup e
<1>8. all \subseteq Int
  BY <1>6
<1> HIDE DEF all
<1>9. \A t \in Events : t \in Int /\ t > clk
  BY <1>7, <1>8 DEF all
<1>10. Events \in SUBSET Int /\ \A t \in Events : t >= clk
  BY <1>1, <1>9
<1>11. Min(Events) \in Events
  <2> HIDE DEF Events
  <2>1. clk \in Int
    BY <1>1
  <2> QED
    BY <1>10, <2>1, MinIsLeast
<1> QED
  BY <1>1, <1>9, <1>11

(* A data clock of LPDDR5 runs for some cycles. *)
LEMMA SyncedIs == \A cmd \in DOMAIN LPDDR5Synced : LPDDR5Synced[cmd] \in Int
  BY DEF LPDDR5Synced

(* The data clocks after a command. *)
LEMMA UpdateStatesSynced ==
  ASSUME synced \in [Ranks -> Int], NEW cmd, NEW addr, NEW t \in Nat,
         UpdateStates(cmd, addr, t)
  PROVE  synced' \in [Ranks -> Int]
  BY SyncedIs DEF UpdateStates

(* The reads under way after one has been served, and one more. *)
LEMMA PendingIs ==
  ASSUME pending \in Seq([id : Nat, depart : Int]), NEW t
  PROVE  /\ AfterServe(t) \in Seq([id : Nat, depart : Int])
         /\ \A id \in Nat, at \in Int :
              Append(AfterServe(t), [id |-> id, depart |-> at]) \in Seq([id : Nat, depart : Int])
<1> DEFINE P == [id : Nat, depart : Int]
<1>1. pending \in Seq(P) /\ \A id \in Nat, at \in Int : [id |-> id, depart |-> at] \in P
  OBVIOUS
<1> HIDE DEF P
<1>2. AfterServe(t) \in Seq(P)
  BY <1>1, HeadTailProperties DEF AfterServe, ServeDue
<1>3. \A x \in P : Append(AfterServe(t), x) \in Seq(P)
  BY <1>2, AppendProperties
<1> QED
  BY <1>1, <1>2, <1>3 DEF P

(* The log stays in the order of the clock. *)
LEMMA InOrderLonger ==
  ASSUME NEW d, NEW log \in Seq(Entries(d)), NEW c \in Entries(d), NEW now \in Int,
         InOrder(log, now), c.clk >= now
  PROVE  InOrder(Append(log, c), c.clk)
<1> DEFINE N == Len(log)
           more == Append(log, c)
<1>1. /\ N \in Nat /\ DOMAIN log = 1..N /\ DOMAIN more = 1..(N + 1)
      /\ more[N + 1] = c /\ \A k \in 1..N : more[k] = log[k]
  BY Longer
<1>2. \A k \in 1..N : log[k].clk \in Nat
  BY <1>1, ElementOfSeq DEF Entries
<1>3. c.clk \in Nat
  BY DEF Entries
<1> HIDE DEF N, more
<1>4. \A i \in 1..N : log[i].clk <= c.clk
  BY <1>1, <1>2, <1>3 DEF InOrder
<1>5. ASSUME NEW i \in 1..(N + 1), NEW j \in 1..(N + 1)
      PROVE  more[i].clk <= c.clk /\ (i <= j => more[i].clk <= more[j].clk)
  <2>1. i \in 1..N \/ i = N + 1
    BY <1>1
  <2>2. j \in 1..N \/ j = N + 1
    BY <1>1
  <2>3. more[i].clk <= c.clk
    BY <1>1, <1>3, <1>4, <2>1
  <2>4. ASSUME i <= j
        PROVE  more[i].clk <= more[j].clk
    <3>1. CASE j = N + 1
      BY <1>1, <2>3, <3>1
    <3>2. CASE j \in 1..N
      <4>1. i \in 1..N
        BY <1>1, <2>1, <2>4, <3>2
      <4> QED
        BY <1>1, <2>4, <3>2, <4>1 DEF InOrder
    <3> QED
      BY <2>2, <3>1, <3>2
  <2> QED
    BY <2>3, <2>4
<1> QED
  BY <1>1, <1>5 DEF InOrder, more

(* A log whose commands came before a cycle came before every later one.   *)
LEMMA InOrderLater ==
  ASSUME NEW d, NEW log \in Seq(Entries(d)), NEW now \in Int, NEW later \in Int,
         InOrder(log, now), later >= now
  PROVE  InOrder(log, later)
<1>1. \A k \in DOMAIN log : log[k].clk \in Nat
  BY ElementOfSeq, LenProperties DEF Entries
<1> QED
  BY <1>1 DEF InOrder

(* What issuing a command leaves: a command of the device, all of whose     *)
(* timers had run out, in the log, and every part typed.                    *)
LEMMA IssueDoes ==
  ASSUME TypesOK, NEW t \in Nat, NEW q, q = Queued(t), NEW ch, ch = Chosen(q, t),
         ch.name # None, Issue(q, ch, t),
         NEW r, r = q[ch.name][ch.i], NEW cmd, cmd = Preq(r, t),
         NEW c, c = [clk |-> t, cmd |-> cmd, addr |-> r.addr]
  PROVE  /\ q \in Buffers(Dram) /\ q.active = buf.active
         /\ r \in Requests(Dram) /\ cmd \in Commands(Dram) /\ c \in Entries(Dram)
         /\ issued' = Append(issued, c)
         /\ ready' \in Timers(Dram) /\ IsHistory(Dram, history')
         /\ Updated(Dram, ready, history, ready', history', c)
         /\ synced' \in [Ranks -> Int]
         /\ pending' \in Seq([id : Nat, depart : Int])
         /\ buf' \in Buffers(Dram) /\ buf'.active = AfterIssue(q, ch, r, cmd).active
         /\ TablesOK(Plugin, Dram, tracker')
         /\ IsReady(r, t)
         /\ \A l \in 1..Dram.depth :
              l <= Dram.scopeLevel[cmd] => ready[Node(r.addr, l)][cmd] <= t
<1>1. /\ IsDevice(Dram) /\ DeviceTyped /\ PluginTyped /\ buf \in Buffers(Dram)
  BY PartsTyped
<1>2. q \in Buffers(Dram) /\ q.active = buf.active
  BY <1>1, QueuedIs
<1>3. /\ ch.name \in Queues /\ ch.i \in DOMAIN q[ch.name] /\ IsReady(q[ch.name][ch.i], t)
  <2>1. q \in [Queues -> Seq(Requests(Dram))] /\ t \in Int
    BY <1>2 DEF Buffers
  <2> QED
    BY <1>1, <2>1, ChoiceSound
<1>4. r \in Requests(Dram)
  BY <1>2, <1>3, AfterIssueIs
<1>5. cmd \in Steps(Dram, r.final)
  BY PreqIsStep
<1>6. cmd \in Commands(Dram) /\ Names(Dram, cmd, r.addr)
  BY <1>1, <1>4, <1>5, RequestSteps
<1>7. c \in Entries(Dram)
  <2>1. r.addr \in Seq(Int)
    BY <1>6 DEF Names
  <2> QED
    BY <1>6, <2>1 DEF Entries
<1>8. /\ ready \in Timers(Dram) /\ IsHistory(Dram, history) /\ synced \in [Ranks -> Int]
      /\ pending \in Seq([id : Nat, depart : Int])
  BY DEF TypesOK, Timers, Nodes
<1> DEFINE left == AfterIssue(q, ch, r, cmd)
<1>9. left \in Buffers(Dram)
  <2>1. AfterIssue(q, ch, q[ch.name][ch.i], cmd) \in Buffers(Dram)
    BY <1>2, <1>3, AfterIssueTyped
  <2> QED
    BY <2>1
<1>10. /\ UpdateTiming(cmd, r.addr, t) /\ UpdateStates(cmd, r.addr, t)
       /\ Watch(left, cmd, r.addr, t)
       /\ pending' = IF cmd = r.final /\ r.type = "read"
                     THEN Append(AfterServe(t), [id |-> r.id, depart |-> t + Dram.read_latency])
                     ELSE AfterServe(t)
       /\ issued' = Append(issued, c)
  BY DEF Issue
<1> HIDE DEF left
<1>11. /\ ready' \in Timers(Dram) /\ IsHistory(Dram, history')
       /\ Updated(Dram, ready, history, ready', history', c)
  BY <1>1, <1>6, <1>8, <1>10, UpdateTimingDoes
<1>12. synced' \in [Ranks -> Int]
  BY <1>8, <1>10, UpdateStatesSynced
<1>13. pending' \in Seq([id : Nat, depart : Int])
  <2>1. r.id \in Nat
    BY <1>4 DEF Requests
  <2>2. t + Dram.read_latency \in Int
    BY <1>1 DEF IsDevice
  <2> DEFINE at == t + Dram.read_latency
  <2> HIDE DEF at
  <2>3. /\ AfterServe(t) \in Seq([id : Nat, depart : Int])
        /\ at \in Int =>
             Append(AfterServe(t), [id |-> r.id, depart |-> at]) \in Seq([id : Nat, depart : Int])
    BY <1>8, <2>1, PendingIs
  <2>4. Append(AfterServe(t), [id |-> r.id, depart |-> t + Dram.read_latency])
          \in Seq([id : Nat, depart : Int])
    BY <2>2, <2>3 DEF at
  <2> QED
    BY <1>10, <2>3, <2>4
<1>14. Told(cmd, r.addr)
  BY <1>6 DEF Told
<1>15. Watched(left)
  BY <1>1, <1>10, <1>14, WatchDoes
<1>16. buf' \in Buffers(Dram) /\ buf'.active = left.active /\ TablesOK(Plugin, Dram, tracker')
  BY <1>9, <1>15, FedIs DEF Watched
<1>17. CheckReady(cmd, r.addr, t)
  BY <1>3 DEF IsReady
<1>18. \A l \in 1..Dram.depth :
         l <= Dram.scopeLevel[cmd] => ready[Node(r.addr, l)][cmd] <= t
  <2>1. t \in Int
    OBVIOUS
  <2> QED
    BY <1>1, <1>6, <1>8, <1>17, <2>1, ReadyTimers
<1> QED
  BY <1>2, <1>3, <1>4, <1>6, <1>7, <1>10, <1>11, <1>12, <1>13, <1>16, <1>18 DEF left

(* What a cycle without a command leaves. *)
LEMMA NoIssueDoes ==
  ASSUME TypesOK, NEW t \in Nat, NEW q, q = Queued(t), NEW ch, NoIssue(q, ch, t)
  PROVE  /\ buf' \in Buffers(Dram) /\ buf'.active = buf.active
         /\ pending' \in Seq([id : Nat, depart : Int])
         /\ TablesOK(Plugin, Dram, tracker')
         /\ UNCHANGED <<deviceVars, issued>>
<1>1. /\ IsDevice(Dram) /\ DeviceTyped /\ PluginTyped /\ buf \in Buffers(Dram)
  BY PartsTyped
<1>2. q \in Buffers(Dram) /\ q.active = buf.active
  BY <1>1, QueuedIs
<1>3. /\ Watch(q, None, <<>>, t) /\ pending' = AfterServe(t) /\ UNCHANGED <<deviceVars, issued>>
  BY DEF NoIssue
<1>4. Told(None, <<>>)
  BY <1>1 DEF IsDevice, Told, Opens
<1>5. Watched(q)
  BY <1>1, <1>3, <1>4, WatchDoes
<1>6. buf' \in Buffers(Dram) /\ buf'.active = q.active
  BY <1>2, <1>5, FedIs DEF Watched
<1>7. AfterServe(t) \in Seq([id : Nat, depart : Int])
  BY PendingIs DEF TypesOK
<1> QED
  BY <1>2, <1>3, <1>5, <1>6, <1>7 DEF Watched

(* An address the front end names is mapped to another row of its bank.     *)
LEMMA MappedIs ==
  ASSUME PluginTyped, NEW addr \in Seq(Int), Len(addr) = Dram.depth + 2,
         BankOf(addr) \in Banks
  PROVE  /\ Mapped(addr) \in Seq(Int) /\ Len(Mapped(addr)) = Dram.depth + 2
         /\ Node(Mapped(addr), Dram.depth) = Node(addr, Dram.depth)
<1> DEFINE rit == tracker.rit[BankOf(addr)]
           k == Dram.depth + 1
           x == rit[addr[k]].dst
           more == [addr EXCEPT ![k] = x]
<1>1. Dram.depth \in Nat /\ Len(addr) \in Nat /\ DOMAIN addr = 1..Len(addr)
  BY Tree, LenProperties DEF PluginTyped
<1>2. CASE ~(Plugin.name = "RRS" /\ RowOf(addr) \in DOMAIN rit)
  BY <1>2 DEF Mapped
<1>3. CASE Plugin.name = "RRS" /\ RowOf(addr) \in DOMAIN rit
  <2>1. IsRit(rit)
    BY <1>3 DEF PluginTyped, TablesOK, Banks
  <2>2. x \in Int
    <3>1. RowOf(addr) = addr[k]
      BY DEF RowOf
    <3> QED
      BY <1>3, <2>1, <3>1 DEF IsRit
  <2>3. Mapped(addr) = more
    BY <1>3 DEF Mapped
  <2> HIDE DEF x
  <2>4. more \in Seq(Int) /\ Len(more) = Len(addr)
        /\ \A i \in 1..Dram.depth : more[i] = addr[i]
    <3>1. more \in [1..Len(addr) -> Int]
      <4>1. addr \in [1..Len(addr) -> Int]
        BY LenProperties
      <4> QED
        BY <2>2, <4>1
    <3>2. more \in Seq(Int)
      BY <1>1, <3>1, IsASeq
    <3>3. DOMAIN more = 1..Len(addr) /\ DOMAIN more = 1..Len(more) /\ Len(more) \in Nat
      BY <3>1, <3>2, LenProperties
    <3>4. Len(more) = Len(addr)
      <4> HIDE DEF more
      <4> QED
        BY <1>1, <3>3
    <3>5. \A i \in 1..Dram.depth : more[i] = addr[i]
      BY <1>1
    <3> QED
      BY <3>2, <3>4, <3>5
  <2> HIDE DEF more
  <2>5. Node(more, Dram.depth) = Node(addr, Dram.depth)
    <3>1. Dram.depth <= Len(more) /\ Dram.depth <= Len(addr)
      BY <1>1, <2>4
    <3>2. /\ Node(more, Dram.depth) \in Seq(Int) /\ Len(Node(more, Dram.depth)) = Dram.depth
          /\ \A i \in 1..Dram.depth : Node(more, Dram.depth)[i] = more[i]
      BY <1>1, <2>4, <3>1, NodeOf
    <3>3. /\ Node(addr, Dram.depth) \in Seq(Int) /\ Len(Node(addr, Dram.depth)) = Dram.depth
          /\ \A i \in 1..Dram.depth : Node(addr, Dram.depth)[i] = addr[i]
      BY <1>1, <3>1, NodeOf
    <3>4. \A i \in 1..Dram.depth : Node(more, Dram.depth)[i] = Node(addr, Dram.depth)[i]
      BY <2>4, <3>2, <3>3
    <3> DEFINE m == Node(more, Dram.depth)
               n == Node(addr, Dram.depth)
    <3> HIDE DEF m, n
    <3>5. m \in Seq(Int) /\ n \in Seq(Int) /\ Len(m) = Len(n)
          /\ \A i \in 1..Len(m) : m[i] = n[i]
      BY <3>2, <3>3, <3>4 DEF m, n
    <3>6. m = n
      BY <3>5, SeqEqual
    <3> QED
      BY <3>6 DEF m, n
  <2> QED
    BY <2>3, <2>4, <2>5
<1> QED
  BY <1>2, <1>3

(* What a request of the front end leaves. *)
LEMMA SendDoes ==
  ASSUME TypesOK, Send
  PROVE  /\ buf' \in Buffers(Dram) /\ buf'.active = buf.active
         /\ pending' \in Seq([id : Nat, depart : Int])
         /\ sent' \in Nat
         /\ UNCHANGED <<sys, clk, deviceVars, nextRefresh, pluginVars, issued>>
<1> DEFINE todo == Trace[sent + 1]
           addr == Mapped(todo.addr)
           r == Request(sent + 1, todo.type, addr, clk)
<1>1. /\ IsDevice(Dram) /\ PluginTyped /\ buf \in Buffers(Dram)
      /\ IsTrace(Trace, Dram) /\ Len(Trace) \in Nat /\ sent \in Nat /\ clk \in Nat
      /\ pending \in Seq([id : Nat, depart : Int])
  BY PartsTyped, SystemIs DEF TypesOK
<1>2. sent + 1 \in 1..Len(Trace) /\ sent + 1 \in Nat
  BY <1>1 DEF Send, MaySend
<1>3. /\ todo.type \in {"read", "write"} /\ todo.addr \in Seq(Int)
      /\ Len(todo.addr) = Dram.depth + 2 /\ Node(todo.addr, Dram.depth) \in Dram.banks
  BY <1>1, <1>2 DEF IsTrace
<1>4. /\ addr \in Seq(Int) /\ Len(addr) = Dram.depth + 2
      /\ Node(addr, Dram.depth) \in Dram.banks
  BY <1>1, <1>3, MappedIs DEF BankOf, Banks
<1>5. todo.type \in Asked(Dram) /\ todo.type # "refresh"
  BY <1>1, <1>3 DEF IsDevice, Asked
<1>6. r \in Requests(Dram)
  <2> HIDE DEF addr, todo
  <2>1. clk \in Int
    BY <1>1
  <2> QED
    BY <1>1, <1>2, <1>4, <1>5, <2>1, RequestIs
<1>7. /\ sent' = sent + 1
      /\ UNCHANGED <<sys, clk, deviceVars, nextRefresh, pluginVars, issued>>
  BY DEF Send
<1>8. \/ /\ pending' = Append(pending, [id |-> r.id, depart |-> clk + 1])
         /\ buf' = buf
      \/ /\ buf' = [buf EXCEPT ![todo.type] = Enqueue(buf[todo.type], r)]
         /\ pending' = pending
  BY DEF Send
<1>9. r.id \in Nat
  BY <1>6 DEF Requests
<1> HIDE DEF r, todo
<1>10. CASE /\ pending' = Append(pending, [id |-> r.id, depart |-> clk + 1])
            /\ buf' = buf
  <2> DEFINE P == [id : Nat, depart : Int]
             p == [id |-> r.id, depart |-> clk + 1]
  <2>1. p \in P /\ pending \in Seq(P)
    BY <1>1, <1>9
  <2> HIDE DEF P, p
  <2>2. Append(pending, p) \in Seq(P)
    BY <2>1, AppendProperties
  <2> QED
    BY <1>1, <1>2, <1>7, <1>10, <2>2 DEF P, p
<1>11. CASE /\ buf' = [buf EXCEPT ![todo.type] = Enqueue(buf[todo.type], r)]
            /\ pending' = pending
  <2>1. todo.type \in Queues /\ todo.type # "active" /\ "active" \in Queues
    BY <1>3 DEF Queues
  <2> DEFINE X == Requests(Dram)
             b == buf[todo.type]
  <2>2. b \in Seq(X) /\ r \in X
    BY <1>1, <1>6, <2>1 DEF Buffers
  <2> HIDE DEF X, b
  <2>3. Enqueue(b, r) \in Seq(X)
    BY <2>2, EnqueueIs
  <2>4. buf' = [buf EXCEPT ![todo.type] = Enqueue(b, r)]
    BY <1>11 DEF b
  <2>5. buf' \in Buffers(Dram) /\ buf'.active = buf.active
    BY <1>1, <2>1, <2>3, <2>4 DEF Buffers, X
  <2> QED
    BY <1>1, <1>2, <1>7, <1>11, <2>5
<1> QED
  BY <1>8, <1>10, <1>11

-----------------------------------------------------------------------------
(* The data buses.                                                         *)

(* The data of the last command comes after that of every earlier one on   *)
(* its bus.                                                                 *)
SpacedLast(d, log) ==
  log # <<>> /\ Last(log).cmd \in AnyColumn =>
    \A j \in 1..(Len(log) - 1) :
      log[j].cmd \in AnyColumn /\ SameBus(d, log[j].addr, Last(log).addr) =>
        log[j].clk + ToData(d, log[j].cmd) + d.t.nBL
          <= Last(log).clk + ToData(d, Last(log).cmd)

(* A column command names a bank. *)
LEMMA ColumnBank ==
  ASSUME NEW d, IsDevice(d), IsSpaced(d), NEW c \in Entries(d), c.cmd \in AnyColumn
  PROVE  /\ Node(c.addr, d.depth) \in d.banks
         /\ c.cmd \in AnyColumn \cap Commands(d) /\ c.clk \in Nat
         /\ \A l \in 1..d.depth :
              /\ l <= d.scopeLevel[c.cmd] /\ Node(c.addr, l) \in d.nodes
              /\ Node(Node(c.addr, d.depth), l) = Node(c.addr, l)
              /\ Len(Node(c.addr, l)) = l
<1>1. /\ c.cmd \in Commands(d) /\ c.clk \in Nat /\ Names(d, c.cmd, c.addr)
  BY DEF Entries
<1>2. /\ c.addr \in Seq(Int) /\ Len(c.addr) = d.depth + 2
      /\ \A l \in 1..d.depth : l <= d.scopeLevel[c.cmd] => Node(c.addr, l) \in d.nodes
  BY <1>1 DEF Names
<1>3. d.depth \in Nat /\ d.depth >= 2 /\ d.depth <= Len(c.addr)
  BY <1>2, Tree
<1>4. d.scopeLevel[c.cmd] \in Nat /\ d.scopeLevel[c.cmd] >= d.depth
  BY <1>1 DEF IsDevice, IsSpaced
<1>5. ASSUME NEW l \in 1..d.depth
      PROVE  /\ l <= d.scopeLevel[c.cmd] /\ Node(c.addr, l) \in d.nodes
             /\ Node(Node(c.addr, d.depth), l) = Node(c.addr, l)
             /\ Len(Node(c.addr, l)) = l
  <2>1. l \in Nat /\ l <= d.depth /\ l <= Len(c.addr) /\ d.depth \in Nat
    BY <1>2, <1>3
  <2>2. l <= d.scopeLevel[c.cmd] /\ Node(c.addr, l) \in d.nodes
    BY <1>2, <1>4, <2>1
  <2>3. Len(Node(c.addr, l)) = l
    BY <1>2, <2>1, NodeOf
  <2>4. Node(Node(c.addr, d.depth), l) = Node(c.addr, l)
    BY <1>2, <1>3, <2>1, NodeOfNode
  <2> QED
    BY <2>2, <2>3, <2>4
<1>6. Node(c.addr, d.depth) \in d.nodes /\ Len(Node(c.addr, d.depth)) = d.depth
  BY <1>3, <1>5
<1>7. Node(c.addr, d.depth) \in d.banks
  BY <1>6 DEF IsDevice, IsTree
<1> QED
  BY <1>1, <1>5, <1>7

(* The last that touched the timer of a line with no window holds back all  *)
(* that did.                                                                *)
LEMMA LastTouching ==
  ASSUME NEW d, IsDevice(d), NEW log \in Seq(Entries(d)), NEW rd \in Timers(d),
         Ready(d, rd, log), NEW now, InOrder(log, now),
         NEW n \in d.nodes, NEW line \in d.cons, line.window = 1,
         d.levels[Len(n)] = line.level, NEW j \in Touching(line, n, log)
  PROVE  rd[n][line.post] >= log[j].clk + line.lat
<1> DEFINE js == Touching(line, n, log)
           N == Len(log)
<1>1. N \in Nat /\ DOMAIN log = 1..N
  BY LenProperties
<1>2. js \in SUBSET (1..N) /\ j \in js
  BY <1>1 DEF Touching
<1>3. js \in SUBSET Int /\ IsFiniteSet(js) /\ js # {}
  <2>1. IsFiniteSet(1..N)
    BY <1>1, FS_Interval
  <2> HIDE DEF js, N
  <2>2. IsFiniteSet(js)
    BY <1>2, <2>1, FS_Subset
  <2> QED
    BY <1>1, <1>2, <2>2
<1> HIDE DEF js
<1>4. PICK g \in js : \A k \in js : k <= g
  BY <1>3, GreatestOfFinite
<1>5. From(js, g) = {g}
  <2>1. \A k \in js : k >= g => k = g
    BY <1>3, <1>4
  <2>2. g >= g
    BY <1>3
  <2> QED
    BY <2>1, <2>2 DEF From
<1>6. Cardinality(From(js, g)) = 1
  BY <1>5, FS_Singleton
<1>7. rd[n][line.post] >= log[g].clk + line.lat
  BY <1>6 DEF Ready, js
<1>8. log[j].clk <= log[g].clk
  BY <1>1, <1>2, <1>4 DEF InOrder
<1>9. log[j].clk \in Nat /\ log[g].clk \in Nat
  BY <1>1, <1>2, ElementOfSeq DEF Entries
<1>10. line.lat \in Int /\ rd[n][line.post] \in Int
  BY WindowedLine DEF Timers
<1> QED
  BY <1>7, <1>8, <1>9, <1>10

(* A command all of whose timers have run out has the bus for itself.       *)
LEMMA NextSpaced ==
  ASSUME NEW d, IsDevice(d), IsSpaced(d), NEW log \in Seq(Entries(d)), NEW c \in Entries(d),
         NEW rd \in Timers(d), Ready(d, rd, log), NEW now, InOrder(log, now),
         \A l \in 1..d.depth :
           l <= d.scopeLevel[c.cmd] => rd[Node(c.addr, l)][c.cmd] <= c.clk
  PROVE  SpacedLast(d, Append(log, c))
<1> DEFINE N == Len(log)
           more == Append(log, c)
<1>1. /\ N \in Nat /\ DOMAIN log = 1..N /\ Len(more) = N + 1 /\ more \in Seq(Entries(d))
      /\ more[N + 1] = c /\ \A k \in 1..N : more[k] = log[k]
  BY Longer
<1> HIDE DEF N, more
<1>2. Last(more) = c
  BY <1>1 DEF Last
<1>3. SUFFICES ASSUME c.cmd \in AnyColumn, NEW j \in 1..N, NEW a, a = log[j],
                      a.cmd \in AnyColumn, SameBus(d, a.addr, c.addr)
               PROVE  a.clk + ToData(d, a.cmd) + d.t.nBL <= c.clk + ToData(d, c.cmd)
  <2>1. Len(more) - 1 = N
    BY <1>1
  <2>2. SpacedLast(d, more)
    BY <1>1, <1>2, <1>3, <2>1 DEF SpacedLast
  <2> QED
    BY <2>2 DEF more
<1>4. a \in Entries(d)
  BY <1>1, <1>3, ElementOfSeq DEF N
<1> DEFINE x == Node(a.addr, d.depth)
           y == Node(c.addr, d.depth)
<1>5. /\ x \in d.banks /\ a.cmd \in AnyColumn \cap Commands(d) /\ a.clk \in Nat
      /\ \A l \in 1..d.depth : Node(x, l) = Node(a.addr, l)
  BY <1>3, <1>4, ColumnBank
<1>6. /\ y \in d.banks /\ c.cmd \in AnyColumn \cap Commands(d) /\ c.clk \in Nat
      /\ \A l \in 1..d.depth : /\ l <= d.scopeLevel[c.cmd] /\ Node(c.addr, l) \in d.nodes
                               /\ Node(y, l) = Node(c.addr, l) /\ Len(Node(c.addr, l)) = l
  BY <1>3, ColumnBank
<1> HIDE DEF x, y
<1>7. Level(d, d.bus) \in 1..d.depth
  BY DEF IsSpaced
<1>8. SameBus(d, x, y)
  BY <1>3, <1>5, <1>6, <1>7 DEF SameBus
<1>9. PICK line \in d.cons :
        /\ line.pre = a.cmd /\ line.post = c.cmd /\ line.window = 1 /\ Binds(d, line, x, y)
        /\ line.lat + ToData(d, c.cmd) >= ToData(d, a.cmd) + d.t.nBL
  BY <1>5, <1>6, <1>8 DEF IsSpaced
<1> DEFINE l == Level(d, line.level)
           n == Node(c.addr, l)
<1>10. l \in 1..d.depth /\ d.levels[l] = line.level
  BY DEF IsDevice, IsTable
<1> HIDE DEF l
<1>11. n \in d.nodes /\ Len(n) = l /\ l <= d.scopeLevel[c.cmd]
  BY <1>6, <1>10
<1>12. Binds(d, line, a.addr, c.addr)
  BY <1>5, <1>6, <1>9, <1>10 DEF Binds, l
<1>13. c.addr \in Seq(Int) /\ Len(c.addr) = d.depth + 2
  BY DEF Entries, Names
<1>14. Touches(line, n, a)
  <2> DEFINE addr == c.addr
  <2> HIDE DEF addr
  <2>1. addr \in Seq(Int) /\ Len(addr) = d.depth + 2 /\ Node(addr, l) \in d.nodes
    BY <1>11, <1>13 DEF addr
  <2>2. Binds(d, line, a.addr, addr) <=> Touches(line, Node(addr, l), a)
    BY <1>4, <1>9, <1>10, <2>1, BindsTouches DEF l
  <2> QED
    BY <1>12, <2>2 DEF addr
<1>15. j \in Touching(line, n, log)
  BY <1>1, <1>3, <1>14 DEF Touching
<1>16. rd[n][line.post] >= a.clk + line.lat
  <2> HIDE DEF n
  <2>1. d.levels[Len(n)] = line.level
    BY <1>10, <1>11
  <2>2. rd[n][line.post] >= log[j].clk + line.lat
    BY <1>9, <1>11, <1>15, <2>1, LastTouching
  <2> QED
    BY <1>3, <2>2
<1>17. rd[n][c.cmd] <= c.clk
  BY <1>10, <1>11
<1>18. /\ rd[n][c.cmd] \in Int /\ line.lat \in Int
       /\ ToData(d, a.cmd) \in Int /\ ToData(d, c.cmd) \in Int /\ d.t.nBL \in Int
  <2>1. line.lat \in Int /\ line.post \in DOMAIN d.scope
    BY <1>10, <1>11, WindowedLine
  <2>2. rd[n][c.cmd] \in Int
    BY <1>9, <1>11, <2>1 DEF Timers
  <2> QED
    BY <2>1, <2>2 DEF IsSpaced, ToData
<1> DEFINE u == ToData(d, a.cmd)
           v == ToData(d, c.cmd)
           w == rd[n][c.cmd]
<1>19. /\ u \in Int /\ v \in Int /\ w \in Int /\ w >= a.clk + line.lat /\ w <= c.clk
       /\ line.lat + v >= u + d.t.nBL
  BY <1>9, <1>16, <1>17, <1>18
<1> HIDE DEF u, v, w
<1> DEFINE e == d.t.nBL
           s == a.clk
           t == c.clk
           lat == line.lat
<1>20. /\ e \in Int /\ s \in Int /\ t \in Int /\ lat \in Int /\ u \in Int /\ v \in Int
       /\ w \in Int /\ w >= s + lat /\ w <= t /\ lat + v >= u + e
  BY <1>5, <1>6, <1>18, <1>19
<1> HIDE DEF e, s, t, lat
<1>21. s + u + e <= t + v
  BY <1>20
<1> QED
  BY <1>21 DEF u, v, e, s, t

(* So the data of two column commands is never on one bus together.         *)
LEMMA BusesFollow ==
  ASSUME IsSpaced(Dram), issued \in Seq(Entries(Dram)), SpacedLast(Dram, issued)
  PROVE  BusesKept
<1> DEFINE N == Len(issued)
<1>1. SUFFICES ASSUME issued # <<>>, Last(issued).cmd \in AnyColumn, NEW j \in Earlier,
                      issued[j].cmd \in AnyColumn,
                      SameBus(Dram, issued[j].addr, Last(issued).addr)
               PROVE  OnBus(issued[j]) \cap OnBus(Last(issued)) = {}
  BY DEF BusesKept
<1>2. N \in Nat /\ DOMAIN issued = 1..N /\ N >= 1
  BY <1>1, LenProperties, EmptySeq
<1>3. j \in 1..N /\ N \in 1..N /\ Last(issued) = issued[N]
  BY <1>1, <1>2 DEF Earlier, Last
<1>4. issued[j].clk \in Nat /\ Last(issued).clk \in Nat
  BY <1>3, ElementOfSeq DEF Entries
<1> DEFINE a == issued[j].clk + ToData(Dram, issued[j].cmd)
           c == Last(issued).clk + ToData(Dram, Last(issued).cmd)
           n == Dram.t.nBL
<1>5. a \in Int /\ c \in Int /\ n \in Int
  BY <1>4 DEF IsSpaced, ToData
<1>6. a + n <= c
  BY <1>1 DEF SpacedLast, Earlier
<1>7. OnBus(issued[j]) = a..(a + n - 1) /\ OnBus(Last(issued)) = c..(c + n - 1)
  BY DEF OnBus
<1> HIDE DEF a, c, n
<1>8. \A x \in OnBus(issued[j]) : x \notin OnBus(Last(issued))
  BY <1>5, <1>6, <1>7
<1> QED
  BY <1>8

-----------------------------------------------------------------------------
(* The types, the timers, the constraints and the buses.                   *)

TimeInv ==
  /\ TypesOK /\ TimersKept
  /\ Kept(Dram, issued)
  /\ IsSpaced(Dram) => SpacedLast(Dram, issued)

(* Nothing is issued at first. *)
LEMMA InitTimed ==
  ASSUME Init
  PROVE  TimeInv
<1>1. \E i \in DOMAIN Configs : sys = Configs[i]
  BY DEF Init
<1>2. IsDevice(Dram)
  BY <1>1, SystemIs
<1>3. /\ clk = 0 /\ sent = 0 /\ pending = <<>> /\ issued = <<>>
      /\ nextRefresh = Dram.t.nREFI /\ buf = [name \in Queues |-> <<>>]
      /\ ready = [n \in Nodes |-> [f \in DOMAIN Dram.scope |-> -1]]
      /\ history = [n \in Nodes |-> [f \in Dram.windowed[Len(n)] |-> <<-1, -1, -1, -1>>]]
      /\ synced = [r \in Ranks |-> -1]
      /\ tracker = CASE Plugin.name = "Hydra" -> HydraTables
                     [] Plugin.name = "RRS"   -> RRSTables
                     [] OTHER                 -> <<>>
  BY DEF Init, DeviceInit, PluginInit
<1>4. clk \in Nat /\ sent \in Nat /\ nextRefresh \in Int
  BY <1>2, <1>3 DEF IsDevice
<1>5. ready \in Timers(Dram) /\ ready \in [Nodes -> [DOMAIN Dram.scope -> Int]]
  BY <1>3 DEF Timers, Nodes
<1>6. IsHistory(Dram, history)
  <2> DEFINE four == <<-1, -1, -1, -1>>
  <2>1. four \in Seq(Int) /\ Len(four) = 4
    OBVIOUS
  <2> HIDE DEF four
  <2>2. history = [n \in Nodes |-> [f \in Dram.windowed[Len(n)] |-> four]]
    BY <1>3 DEF four
  <2> QED
    BY <2>1, <2>2 DEF IsHistory, Nodes
<1>7. synced \in [Ranks -> Int]
  BY <1>3
<1>8. buf \in [Queues -> Seq(Requests(Dram))]
  BY <1>3
<1>9. pending \in Seq([id : Nat, depart : Int]) /\ issued \in Seq(Entries(Dram))
  BY <1>3
<1>10. TablesOK(Plugin, Dram, tracker)
  <2>1. ASSUME Plugin.name = "Hydra"
        PROVE  "cache" \in DOMAIN tracker /\ IsCache(Plugin, Dram, tracker.cache)
    <3>1. tracker = HydraTables
      BY <1>3, <2>1
    <3>2. /\ "cache" \in DOMAIN tracker
          /\ tracker.cache = [s \in Ranks \X (0..Plugin.sets - 1) |-> <<>>]
      BY <3>1 DEF HydraTables
    <3> QED
      BY <3>2 DEF IsCache, Ranks
  <2>2. ASSUME Plugin.name = "RRS"
        PROVE  /\ "rit" \in DOMAIN tracker /\ DOMAIN tracker.rit = Dram.banks
               /\ \A b \in Dram.banks : IsRit(tracker.rit[b])
    <3>1. tracker = RRSTables
      BY <1>3, <2>2
    <3>2. /\ "rit" \in DOMAIN tracker
          /\ tracker.rit = [b \in Banks |-> <<>>]
      BY <3>1 DEF RRSTables
    <3> QED
      BY <3>2 DEF IsRit, Banks
  <2> QED
    BY <2>1, <2>2 DEF TablesOK
<1>11. TypesOK
  BY <1>1, <1>4, <1>5, <1>6, <1>7, <1>8, <1>9, <1>10 DEF TypesOK
<1>12. DOMAIN issued = {}
  BY <1>3
<1>13. TimersKept
  BY <1>12 DEF TimersKept, Ready, Remembered, InOrder, Touching, Passing
<1>14. Kept(Dram, issued) /\ SpacedLast(Dram, issued)
  BY <1>3 DEF Kept, SpacedLast
<1> QED
  BY <1>11, <1>13, <1>14 DEF TimeInv

(* A cycle that issues a command. *)
LEMMA IssueTimed ==
  ASSUME TimeInv, NEW t \in Nat, t > clk, NEW q, q = Queued(t),
         NEW ch, ch = Chosen(q, t), ch.name # None, Issue(q, ch, t),
         sys' = sys, clk' = t, sent' = sent, nextRefresh' \in Int
  PROVE  TimeInv'
<1> DEFINE r == q[ch.name][ch.i]
           cmd == Preq(r, t)
           c == [clk |-> t, cmd |-> cmd, addr |-> r.addr]
<1>1. /\ r \in Requests(Dram) /\ cmd \in Commands(Dram) /\ c \in Entries(Dram)
      /\ issued' = Append(issued, c)
      /\ ready' \in Timers(Dram) /\ IsHistory(Dram, history')
      /\ Updated(Dram, ready, history, ready', history', c)
      /\ synced' \in [Ranks -> Int]
      /\ pending' \in Seq([id : Nat, depart : Int])
      /\ buf' \in Buffers(Dram)
      /\ TablesOK(Plugin, Dram, tracker')
      /\ \A l \in 1..Dram.depth :
           l <= Dram.scopeLevel[cmd] => ready[Node(r.addr, l)][cmd] <= t
  BY IssueDoes DEF TimeInv
<1>2. c.clk = t /\ c.cmd = cmd /\ c.addr = r.addr
  OBVIOUS
<1> HIDE DEF c, cmd, r
<1>3. Dram' = Dram /\ Plugin' = Plugin /\ Ranks' = Ranks /\ Nodes' = Nodes
  BY DEF Dram, Plugin, Ranks, Nodes
<1>4. /\ IsDevice(Dram) /\ issued \in Seq(Entries(Dram)) /\ ready \in Timers(Dram)
      /\ Ready(Dram, ready, issued) /\ Remembered(Dram, history, issued)
      /\ InOrder(issued, clk) /\ clk \in Int
      /\ \E i \in DOMAIN Configs : sys = Configs[i]
  BY SystemIs DEF TimeInv, TypesOK, TimersKept, Timers, Nodes
<1>5. issued' \in Seq(Entries(Dram))
  BY <1>1, <1>4, AppendProperties
<1>6. TypesOK'
  BY <1>1, <1>3, <1>4, <1>5 DEF TimeInv, TypesOK, Timers, Nodes, Buffers
<1>7. /\ Ready(Dram, ready', Append(issued, c))
      /\ Remembered(Dram, history', Append(issued, c))
  BY <1>1, <1>4, ReadyLonger, RememberedLonger
<1>8. InOrder(Append(issued, c), t)
  <2>1. c.clk >= clk
    BY <1>2, <1>4
  <2>2. InOrder(Append(issued, c), c.clk)
    BY <1>1, <1>4, <2>1, InOrderLonger
  <2> QED
    BY <1>2, <2>2
<1>9. TimersKept'
  BY <1>1, <1>3, <1>7, <1>8 DEF TimersKept
<1>10. \A l \in 1..Dram.depth :
         l <= Dram.scopeLevel[c.cmd] => ready[Node(c.addr, l)][c.cmd] <= c.clk
  BY <1>1, <1>2
<1>11. Kept(Dram, Append(issued, c))
  BY <1>1, <1>4, <1>10, NextKept
<1>12. IsSpaced(Dram) => SpacedLast(Dram, Append(issued, c))
  BY <1>1, <1>4, <1>10, NextSpaced
<1> QED
  BY <1>1, <1>3, <1>6, <1>9, <1>11, <1>12 DEF TimeInv

(* A step that issues nothing. *)
LEMMA QuietTimed ==
  ASSUME TimeInv, sys' = sys, UNCHANGED <<deviceVars, issued>>,
         clk' \in Nat, clk' >= clk, sent' \in Nat, nextRefresh' \in Int,
         buf' \in Buffers(Dram), pending' \in Seq([id : Nat, depart : Int]),
         TablesOK(Plugin, Dram, tracker')
  PROVE  TimeInv'
<1>1. Dram' = Dram /\ Plugin' = Plugin /\ Ranks' = Ranks /\ Nodes' = Nodes
  BY DEF Dram, Plugin, Ranks, Nodes
<1>2. issued' = issued /\ ready' = ready /\ history' = history /\ synced' = synced
  BY DEF deviceVars
<1>3. TypesOK'
  BY <1>1, <1>2 DEF TimeInv, TypesOK, Buffers
<1>4. InOrder(issued, clk')
  <2>1. issued \in Seq(Entries(Dram)) /\ clk \in Int /\ clk' \in Int /\ InOrder(issued, clk)
    BY DEF TimeInv, TypesOK, TimersKept
  <2> QED
    BY <2>1, InOrderLater
<1>5. TimersKept'
  BY <1>1, <1>2, <1>4 DEF TimeInv, TimersKept
<1> QED
  BY <1>1, <1>2, <1>3, <1>5 DEF TimeInv

(* A tick goes to a later cycle, with or without a command. *)
LEMMA TickIs ==
  ASSUME TypesOK, Tick
  PROVE  \E t \in Nat : \E q, ch :
           /\ t > clk /\ q = Queued(t) /\ ch = Chosen(q, t)
           /\ sys' = sys /\ clk' = t /\ sent' = sent /\ nextRefresh' \in Int
           /\ (ch.name # None /\ Issue(q, ch, t)) \/ NoIssue(q, ch, t)
<1> DEFINE t == IF quiet THEN Min(Events) ELSE clk + 1
<1>1. Cycle(t) /\ (quiet => Events # {})
  BY DEF Tick, CanTick
<1>2. clk \in Nat /\ nextRefresh \in Int /\ Dram.t.nREFI \in Int
  BY PartsTyped DEF TypesOK, IsDevice
<1>3. t \in Nat /\ t > clk
  BY <1>1, <1>2, NextEvent
<1> HIDE DEF t
<1> DEFINE q == Queued(t)
           ch == Chosen(q, t)
<1>4. /\ clk' = t /\ sys' = sys /\ sent' = sent
      /\ nextRefresh' = IF RefreshDue(t) THEN nextRefresh + Dram.t.nREFI ELSE nextRefresh
      /\ (ch.name # None /\ Issue(q, ch, t)) \/ NoIssue(q, ch, t)
  BY <1>1 DEF Cycle
<1>5. nextRefresh' \in Int
  BY <1>2, <1>4
<1> QED
  BY <1>3, <1>4, <1>5

(* Every step keeps the inductive invariant: a send leaves the device      *)
(* alone, a tick issues at most one command, and one that is ready.        *)
LEMMA NextTimed ==
  ASSUME TimeInv, [Next]_vars
  PROVE  TimeInv'
<1>1. CASE Send
  <2>1. /\ buf' \in Buffers(Dram) /\ pending' \in Seq([id : Nat, depart : Int])
        /\ sent' \in Nat
        /\ UNCHANGED <<sys, clk, deviceVars, nextRefresh, pluginVars, issued>>
    BY <1>1, SendDoes DEF TimeInv
  <2>2. clk \in Nat /\ nextRefresh \in Int /\ TablesOK(Plugin, Dram, tracker)
    BY DEF TimeInv, TypesOK
  <2>3. sys' = sys /\ clk' = clk /\ nextRefresh' = nextRefresh /\ tracker' = tracker
    BY <2>1 DEF pluginVars
  <2>4. UNCHANGED <<deviceVars, issued>>
    BY <2>1
  <2>5. clk' \in Nat /\ clk' >= clk /\ nextRefresh' \in Int
        /\ TablesOK(Plugin, Dram, tracker')
    BY <2>2, <2>3
  <2> QED
    BY <2>1, <2>3, <2>4, <2>5, QuietTimed
<1>2. CASE Tick
  <2>1. PICK t \in Nat : \E q, ch :
           /\ t > clk /\ q = Queued(t) /\ ch = Chosen(q, t)
           /\ sys' = sys /\ clk' = t /\ sent' = sent /\ nextRefresh' \in Int
           /\ (ch.name # None /\ Issue(q, ch, t)) \/ NoIssue(q, ch, t)
    BY <1>2, TickIs DEF TimeInv
  <2>2. PICK q, ch :
           /\ t > clk /\ q = Queued(t) /\ ch = Chosen(q, t)
           /\ sys' = sys /\ clk' = t /\ sent' = sent /\ nextRefresh' \in Int
           /\ (ch.name # None /\ Issue(q, ch, t)) \/ NoIssue(q, ch, t)
    BY <2>1
  <2>3. CASE ch.name # None /\ Issue(q, ch, t)
    BY <2>2, <2>3, IssueTimed
  <2>4. CASE NoIssue(q, ch, t)
    <3>1. /\ buf' \in Buffers(Dram) /\ pending' \in Seq([id : Nat, depart : Int])
          /\ TablesOK(Plugin, Dram, tracker') /\ UNCHANGED <<deviceVars, issued>>
      BY <2>2, <2>4, NoIssueDoes DEF TimeInv
    <3>2. clk \in Nat /\ sent \in Nat
      BY DEF TimeInv, TypesOK
    <3>3. clk' \in Nat /\ clk' >= clk /\ sent' \in Nat
      BY <2>2, <3>2
    <3> QED
      BY <2>2, <3>1, <3>3, QuietTimed
  <2> QED
    BY <2>2, <2>3, <2>4
<1>3. CASE UNCHANGED vars
  <2>1. /\ sys' = sys /\ clk' = clk /\ sent' = sent /\ nextRefresh' = nextRefresh
        /\ buf' = buf /\ pending' = pending /\ tracker' = tracker
        /\ UNCHANGED <<deviceVars, issued>>
    BY <1>3 DEF vars, pluginVars
  <2>2. /\ clk \in Nat /\ sent \in Nat /\ nextRefresh \in Int /\ buf \in Buffers(Dram)
        /\ pending \in Seq([id : Nat, depart : Int]) /\ TablesOK(Plugin, Dram, tracker)
    BY DEF TimeInv, TypesOK, Buffers
  <2>3. clk' \in Nat /\ clk' >= clk
    BY <2>1, <2>2
  <2> QED
    BY <2>1, <2>2, <2>3, QuietTimed
<1> QED
  BY <1>1, <1>2, <1>3 DEF Next, Idle

(* The invariant of the timers holds on every behaviour. *)
THEOREM TimedAlways == Spec => []TimeInv
<1>1. Init => TimeInv
  BY InitTimed
<1>2. TimeInv /\ [Next]_vars => TimeInv'
  BY NextTimed
<1> QED
  BY <1>1, <1>2, PTL DEF Spec

(* The requests in the buffers, the plugins' own ones among them, are       *)
(* requests of the device, and the log has commands of it, each with an     *)
(* address that names a node at every level the command passes.             *)
THEOREM TypeCorrect == Spec => []TypesOK
<1>1. TimeInv => TypesOK
  BY DEF TimeInv
<1> QED
  BY <1>1, TimedAlways, PTL

(* Whatever the device, its table, the plugin and the trace: no command is  *)
(* issued before every line of the table allows it, counted in the log of   *)
(* commands and not in the timers the controller looks at.                  *)
THEOREM ConstraintsHold == Spec => []ConstraintsKept
<1>1. TimeInv => ConstraintsKept
  BY ConstraintsFollow DEF TimeInv
<1> QED
  BY <1>1, TimedAlways, PTL

(* On a device whose table spaces the data, nothing else is needed to keep  *)
(* the data of two column commands apart on every bus.                      *)
THEOREM TimingHolds == Spec => [](IsSpaced(Dram) => TimingKept)
<1>1. TimeInv => (IsSpaced(Dram) => TimingKept)
  BY ConstraintsFollow, BusesFollow DEF TimeInv, TypesOK, TimingKept
<1> QED
  BY <1>1, TimedAlways, PTL

-----------------------------------------------------------------------------
(* Rows.  What the log shows of a bank after its first N commands: the row  *)
(* of the last activation since it was precharged, if there is one.         *)
Opener(d, c, b) == c.cmd \in {"ACT", "ACT-2"} /\ Node(c.addr, d.depth) = b
Closer(d, c, b) == \/ c.cmd = "PRE" /\ Node(c.addr, d.depth) = b
                   \/ c.cmd = "PREA" /\ Node(c.addr, 2) = Node(b, 2)
Turning(d, c, b) == Opener(d, c, b) \/ Closer(d, c, b)
Turns(d, N, log, b) == {j \in 1..N : Turning(d, log[j], b)}
RowAt(d, c, b) == IF Closer(d, c, b) THEN None ELSE c.addr[d.depth + 1]
Shows(d, N, log, b, x) ==
  \/ Turns(d, N, log, b) = {} /\ x = None
  \/ \E j \in Turns(d, N, log, b) :
       (\A k \in Turns(d, N, log, b) : k <= j) /\ x = RowAt(d, log[j], b)

(* The state of every bank is what the log shows of it.                     *)
Shown(d, log, bk, rw, b) ==
  \/ bk[b] = "Closed" /\ rw[b] = {} /\ Shows(d, Len(log), log, b, None)
  \/ bk[b] = "Opened" /\ \E row : rw[b] = {row} /\ Shows(d, Len(log), log, b, row)
RowState(d, log, bk, rw) == \A b \in d.banks : Shown(d, log, bk, rw, b)

(* The last command finds the rows it needs.                                *)
RowsLegal(d, log) ==
  log # <<>> =>
    LET c == Last(log)
        b == Node(c.addr, d.depth)
        N == Len(log) - 1
    IN  /\ c.cmd \in {"ACT", "ACT-1", "VRR"} => Shows(d, N, log, b, None)
        /\ c.cmd \in AnyColumn => Shows(d, N, log, b, c.addr[d.depth + 1])
        /\ c.cmd = "REFab" =>
             \A x \in d.banks : Node(x, 2) = Node(c.addr, 2) => Shows(d, N, log, x, None)

(* A command of a device that opens rows in one step, between two states of *)
(* the banks.                                                               *)
Same(d, bk, rw, bk2, rw2, b) == bk2[b] = bk[b] /\ rw2[b] = rw[b]
Stepped(d, c, bk, rw, bk2, rw2) ==
  LET b == Node(c.addr, d.depth)
      row == c.addr[d.depth + 1]
  IN  \/ /\ c.cmd = "ACT" /\ b \in d.banks
         /\ bk[b] = "Closed" /\ bk2[b] = "Opened" /\ rw2[b] = rw[b] \cup {row}
         /\ \A x \in d.banks : x # b => Same(d, bk, rw, bk2, rw2, x)
      \/ /\ c.cmd \in {"RD", "WR"} /\ b \in d.banks
         /\ bk[b] # "Closed" /\ row \in rw[b]
         /\ \A x \in d.banks : Same(d, bk, rw, bk2, rw2, x)
      \/ /\ c.cmd = "VRR" /\ b \in d.banks /\ bk[b] = "Closed"
         /\ \A x \in d.banks : Same(d, bk, rw, bk2, rw2, x)
      \/ /\ c.cmd = "PRE" /\ b \in d.banks /\ bk2[b] = "Closed" /\ rw2[b] = {}
         /\ \A x \in d.banks : x # b => Same(d, bk, rw, bk2, rw2, x)
      \/ /\ c.cmd = "REFab"
         /\ \A x \in d.banks : Node(x, 2) = Node(c.addr, 2) => bk[x] = "Closed"
         /\ \A x \in d.banks : Same(d, bk, rw, bk2, rw2, x)
      \/ /\ c.cmd = "PREA"
         /\ \A x \in d.banks :
              IF Node(x, 2) = Node(c.addr, 2) THEN bk2[x] = "Closed" /\ rw2[x] = {}
              ELSE Same(d, bk, rw, bk2, rw2, x)

(* The next command and what the log shows.                                 *)
LEMMA ShowsLonger ==
  ASSUME NEW d, NEW log \in Seq(Entries(d)), NEW c \in Entries(d), NEW b, NEW x
  PROVE  LET N == Len(log)
             more == Append(log, c)
         IN  /\ Shows(d, N, log, b, x) => Shows(d, N, more, b, x)
             /\ Shows(d, N, log, b, x) /\ ~Turning(d, c, b) => Shows(d, N + 1, more, b, x)
             /\ Turning(d, c, b) => Shows(d, N + 1, more, b, RowAt(d, c, b))
<1> DEFINE N == Len(log)
           more == Append(log, c)
           js == Turns(d, N, log, b)
<1>1. /\ N \in Nat /\ more[N + 1] = c /\ \A k \in 1..N : more[k] = log[k]
  BY Longer
<1> HIDE DEF N, more
<1>2. js \in SUBSET (1..N)
  BY DEF Turns
<1>3. Turns(d, N, more, b) = js
  BY <1>1 DEF Turns
<1>4. Turns(d, N + 1, more, b) = IF Turning(d, c, b) THEN js \cup {N + 1} ELSE js
  <2>1. \A k \in 1..(N + 1) : k \in 1..N \/ k = N + 1
    BY <1>1
  <2>2. \A k \in 1..N : k \in 1..(N + 1)
    BY <1>1
  <2>3. N + 1 \in 1..(N + 1) /\ N + 1 \notin 1..N
    BY <1>1
  <2>4. CASE Turning(d, c, b)
    <3>1. \A k \in Turns(d, N + 1, more, b) : k \in js \cup {N + 1}
      BY <1>1, <2>1 DEF Turns
    <3>2. \A k \in js \cup {N + 1} : k \in Turns(d, N + 1, more, b)
      BY <1>1, <2>2, <2>3, <2>4 DEF Turns
    <3> QED
      BY <2>4, <3>1, <3>2
  <2>5. CASE ~Turning(d, c, b)
    <3>1. \A k \in Turns(d, N + 1, more, b) : k \in js
      BY <1>1, <2>1, <2>5 DEF Turns
    <3>2. \A k \in js : k \in Turns(d, N + 1, more, b)
      BY <1>1, <2>2 DEF Turns
    <3> QED
      BY <2>5, <3>1, <3>2
  <2> QED
    BY <2>4, <2>5
<1> HIDE DEF js
<1>5. ASSUME Shows(d, N, log, b, x)
      PROVE  /\ Shows(d, N, more, b, x)
             /\ ~Turning(d, c, b) => Shows(d, N + 1, more, b, x)
  <2>1. \/ js = {} /\ x = None
        \/ \E j \in js : (\A k \in js : k <= j) /\ x = RowAt(d, log[j], b)
    BY <1>5 DEF Shows, js
  <2>2. CASE js = {} /\ x = None
    BY <1>3, <1>4, <2>2 DEF Shows
  <2>3. CASE \E j \in js : (\A k \in js : k <= j) /\ x = RowAt(d, log[j], b)
    <3>1. PICK j \in js : (\A k \in js : k <= j) /\ x = RowAt(d, log[j], b)
      BY <2>3
    <3>2. more[j] = log[j]
      BY <1>1, <1>2
    <3> QED
      BY <1>3, <1>4, <3>1, <3>2 DEF Shows
  <2> QED
    BY <2>1, <2>2, <2>3
<1>6. ASSUME Turning(d, c, b)
      PROVE  Shows(d, N + 1, more, b, RowAt(d, c, b))
  <2>1. Turns(d, N + 1, more, b) = js \cup {N + 1}
    BY <1>4, <1>6
  <2>2. \A k \in js \cup {N + 1} : k <= N + 1
    BY <1>1, <1>2
  <2> QED
    BY <1>1, <2>1, <2>2 DEF Shows
<1> QED
  BY <1>5, <1>6 DEF N, more

(* The banks a command leaves alone, closes and opens. *)
LEMMA ShownLonger ==
  ASSUME NEW d, NEW log \in Seq(Entries(d)), NEW c \in Entries(d), NEW b,
         NEW bk, NEW rw, NEW bk2, NEW rw2
  PROVE  /\ Shown(d, log, bk, rw, b) /\ Same(d, bk, rw, bk2, rw2, b) /\ ~Turning(d, c, b) =>
              Shown(d, Append(log, c), bk2, rw2, b)
         /\ bk2[b] = "Closed" /\ rw2[b] = {} /\ Closer(d, c, b) =>
              Shown(d, Append(log, c), bk2, rw2, b)
         /\ Shown(d, log, bk, rw, b) /\ bk[b] = "Closed" /\ Opener(d, c, b) /\ ~Closer(d, c, b)
            /\ bk2[b] = "Opened" /\ rw2[b] = rw[b] \cup {c.addr[d.depth + 1]} =>
              Shown(d, Append(log, c), bk2, rw2, b)
<1> DEFINE N == Len(log)
           more == Append(log, c)
<1>1. Len(more) = N + 1
  BY Longer
<1>2. \A x : /\ Shows(d, N, log, b, x) /\ ~Turning(d, c, b) => Shows(d, N + 1, more, b, x)
             /\ Turning(d, c, b) => Shows(d, N + 1, more, b, RowAt(d, c, b))
  BY ShowsLonger
<1> DEFINE row == c.addr[d.depth + 1]
<1> HIDE DEF N, more, row
<1>3. ASSUME Shown(d, log, bk, rw, b), Same(d, bk, rw, bk2, rw2, b), ~Turning(d, c, b)
      PROVE  Shown(d, more, bk2, rw2, b)
  BY <1>1, <1>2, <1>3 DEF Shown, Same, N
<1>4. ASSUME bk2[b] = "Closed", rw2[b] = {}, Closer(d, c, b)
      PROVE  Shown(d, more, bk2, rw2, b)
  <2>1. Shows(d, N + 1, more, b, None)
    BY <1>2, <1>4 DEF Turning, RowAt
  <2> QED
    BY <1>1, <1>4, <2>1 DEF Shown
<1>5. ASSUME Shown(d, log, bk, rw, b), bk[b] = "Closed",
             bk2[b] = "Opened", rw2[b] = rw[b] \cup {row},
             Opener(d, c, b), ~Closer(d, c, b)
      PROVE  Shown(d, more, bk2, rw2, b)
  <2>1. Shows(d, N + 1, more, b, row)
    BY <1>2, <1>5 DEF Turning, RowAt, row
  <2>2. rw[b] = {}
    BY <1>5 DEF Shown
  <2>3. rw2[b] = {row}
    BY <1>5, <2>2
  <2> QED
    BY <1>1, <1>5, <2>1, <2>3 DEF Shown
<1>6. Shown(d, log, bk, rw, b) /\ Same(d, bk, rw, bk2, rw2, b) /\ ~Turning(d, c, b) =>
            Shown(d, more, bk2, rw2, b)
  BY <1>3
<1>7. bk2[b] = "Closed" /\ rw2[b] = {} /\ Closer(d, c, b) =>
            Shown(d, more, bk2, rw2, b)
  BY <1>4
<1>8. Shown(d, log, bk, rw, b) /\ bk[b] = "Closed" /\ Opener(d, c, b) /\ ~Closer(d, c, b)
            /\ bk2[b] = "Opened" /\ rw2[b] = rw[b] \cup {row} =>
            Shown(d, more, bk2, rw2, b)
  BY <1>5, Zenon
<1> QED
  BY <1>6, <1>7, <1>8, Zenon DEF more, row

(* A command finds the rows it needs, and the log shows what it does.       *)
LEMMA RowsStep ==
  ASSUME NEW d, NEW log \in Seq(Entries(d)), NEW c \in Entries(d),
         NEW bk, NEW rw, NEW bk2, NEW rw2,
         RowState(d, log, bk, rw), Stepped(d, c, bk, rw, bk2, rw2)
  PROVE  RowState(d, Append(log, c), bk2, rw2) /\ RowsLegal(d, Append(log, c))
<1> DEFINE N == Len(log)
           more == Append(log, c)
           b == Node(c.addr, d.depth)
           row == c.addr[d.depth + 1]
<1>1. N \in Nat /\ Len(more) = N + 1 /\ more[N + 1] = c /\ more \in Seq(Entries(d))
  BY Longer
<1>2. \A x, y : Shows(d, N, log, x, y) => Shows(d, N, more, x, y)
  BY ShowsLonger
<1>3. ASSUME NEW x
      PROVE  /\ Shown(d, log, bk, rw, x) /\ Same(d, bk, rw, bk2, rw2, x) /\ ~Turning(d, c, x) =>
                  Shown(d, more, bk2, rw2, x)
             /\ bk2[x] = "Closed" /\ rw2[x] = {} /\ Closer(d, c, x) =>
                  Shown(d, more, bk2, rw2, x)
             /\ Shown(d, log, bk, rw, x) /\ bk[x] = "Closed" /\ Opener(d, c, x) /\ ~Closer(d, c, x)
                /\ bk2[x] = "Opened" /\ rw2[x] = rw[x] \cup {row} =>
                  Shown(d, more, bk2, rw2, x)
  BY ShownLonger
<1>4. Last(more) = c /\ Len(more) - 1 = N
  BY <1>1 DEF Last
<1> HIDE DEF N, more, row
<1>5. \A x \in d.banks : Shown(d, log, bk, rw, x)
  BY DEF RowState
<1>6. ASSUME NEW x \in d.banks, bk[x] = "Closed"
      PROVE  Shows(d, N, more, x, None)
  BY <1>2, <1>5, <1>6 DEF Shown, N
<1>7. ASSUME NEW x \in d.banks, bk[x] # "Closed", NEW y \in rw[x]
      PROVE  Shows(d, N, more, x, y)
  BY <1>2, <1>5, <1>7 DEF Shown, N
<1>8. SUFFICES /\ \A x \in d.banks : Shown(d, more, bk2, rw2, x)
               /\ c.cmd \in {"ACT", "ACT-1", "VRR"} => Shows(d, N, more, b, None)
               /\ c.cmd \in AnyColumn => Shows(d, N, more, b, row)
               /\ c.cmd = "REFab" =>
                    \A x \in d.banks : Node(x, 2) = Node(c.addr, 2) => Shows(d, N, more, x, None)
  BY <1>4, <1>8 DEF RowState, RowsLegal, more, row
<1>9. /\ c.cmd \in {"RD", "WR"} => c.cmd \in AnyColumn
      /\ c.cmd \in {"ACT", "VRR", "PRE", "PREA", "REFab"} => c.cmd \notin AnyColumn
  BY DEF AnyColumn, Columns, Columns16, Reads, Writes, Reads16, Writes16
<1> HIDE DEF b
<1>10. CASE /\ c.cmd = "ACT" /\ b \in d.banks
            /\ bk[b] = "Closed" /\ bk2[b] = "Opened" /\ rw2[b] = rw[b] \cup {row}
            /\ \A x \in d.banks : x # b => Same(d, bk, rw, bk2, rw2, x)
  <2>1. \A x : ~Closer(d, c, x) /\ (Opener(d, c, x) <=> x = b)
    BY <1>10 DEF Closer, Opener, b
  <2>2. \A x \in d.banks : Shown(d, more, bk2, rw2, x)
    <3> TAKE x \in d.banks
    <3>1. CASE x = b
      BY <1>3, <1>5, <1>10, <2>1, <3>1
    <3>2. CASE x # b
      BY <1>3, <1>5, <1>10, <2>1, <3>2 DEF Turning
    <3> QED
      BY <3>1, <3>2
  <2>3. Shows(d, N, more, b, None)
    BY <1>6, <1>10
  <2> QED
    BY <1>9, <1>10, <2>2, <2>3
<1>11. CASE /\ c.cmd \in {"RD", "WR"} /\ b \in d.banks
            /\ bk[b] # "Closed" /\ row \in rw[b]
            /\ \A x \in d.banks : Same(d, bk, rw, bk2, rw2, x)
  <2>1. \A x : ~Turning(d, c, x)
    BY <1>11 DEF Closer, Opener, Turning
  <2>2. \A x \in d.banks : Shown(d, more, bk2, rw2, x)
    BY <1>3, <1>5, <1>11, <2>1
  <2>3. Shows(d, N, more, b, row)
    BY <1>7, <1>11
  <2> QED
    BY <1>9, <1>11, <2>2, <2>3
<1>12. CASE /\ c.cmd = "VRR" /\ b \in d.banks /\ bk[b] = "Closed"
            /\ \A x \in d.banks : Same(d, bk, rw, bk2, rw2, x)
  <2>1. \A x : ~Turning(d, c, x)
    BY <1>12 DEF Closer, Opener, Turning
  <2>2. \A x \in d.banks : Shown(d, more, bk2, rw2, x)
    BY <1>3, <1>5, <1>12, <2>1
  <2>3. Shows(d, N, more, b, None)
    BY <1>6, <1>12
  <2> QED
    BY <1>9, <1>12, <2>2, <2>3
<1>13. CASE /\ c.cmd = "PRE" /\ b \in d.banks /\ bk2[b] = "Closed" /\ rw2[b] = {}
            /\ \A x \in d.banks : x # b => Same(d, bk, rw, bk2, rw2, x)
  <2>1. \A x : ~Opener(d, c, x) /\ (Closer(d, c, x) <=> x = b)
    BY <1>13 DEF Closer, Opener, b
  <2>2. \A x \in d.banks : Shown(d, more, bk2, rw2, x)
    <3> TAKE x \in d.banks
    <3>1. CASE x = b
      BY <1>3, <1>13, <2>1, <3>1
    <3>2. CASE x # b
      BY <1>3, <1>5, <1>13, <2>1, <3>2 DEF Turning
    <3> QED
      BY <3>1, <3>2
  <2> QED
    BY <1>9, <1>13, <2>2
<1>14. CASE /\ c.cmd = "REFab"
            /\ \A x \in d.banks : Node(x, 2) = Node(c.addr, 2) => bk[x] = "Closed"
            /\ \A x \in d.banks : Same(d, bk, rw, bk2, rw2, x)
  <2>1. \A x : ~Turning(d, c, x)
    BY <1>14 DEF Closer, Opener, Turning
  <2>2. \A x \in d.banks : Shown(d, more, bk2, rw2, x)
    BY <1>3, <1>5, <1>14, <2>1
  <2>3. \A x \in d.banks : Node(x, 2) = Node(c.addr, 2) => Shows(d, N, more, x, None)
    BY <1>6, <1>14
  <2> QED
    BY <1>9, <1>14, <2>2, <2>3
<1>15. CASE /\ c.cmd = "PREA"
            /\ \A x \in d.banks :
                 IF Node(x, 2) = Node(c.addr, 2) THEN bk2[x] = "Closed" /\ rw2[x] = {}
                 ELSE Same(d, bk, rw, bk2, rw2, x)
  <2>1. \A x : ~Opener(d, c, x) /\ (Closer(d, c, x) <=> Node(x, 2) = Node(c.addr, 2))
    BY <1>15 DEF Closer, Opener
  <2>2. \A x \in d.banks : Shown(d, more, bk2, rw2, x)
    <3> TAKE x \in d.banks
    <3>1. CASE Node(x, 2) = Node(c.addr, 2)
      BY <1>3, <1>15, <2>1, <3>1
    <3>2. CASE Node(x, 2) # Node(c.addr, 2)
      BY <1>3, <1>5, <1>15, <2>1, <3>2 DEF Turning
    <3> QED
      BY <3>1, <3>2
  <2> QED
    BY <1>9, <1>15, <2>2
<1> QED
  BY <1>10, <1>11, <1>12, <1>13, <1>14, <1>15 DEF Stepped, b, row

(* The banks below a node, and a bank below itself. *)
LEMMA BanksOf ==
  ASSUME IsDevice(Dram), NEW addr \in Seq(Int), Len(addr) = Dram.depth + 2
  PROVE  /\ \A x \in Banks : x \in BanksBelow(Node(addr, 2)) <=> Node(x, 2) = Node(addr, 2)
         /\ \A x \in Banks : x \in BanksBelow(BankOf(addr)) <=> x = BankOf(addr)
<1>1. Dram.depth \in Nat /\ Dram.depth >= 2 /\ 2 \in Nat
      /\ 2 <= Len(addr) /\ Dram.depth <= Len(addr)
  BY Tree
<1>2. /\ Node(addr, 2) \in Seq(Int) /\ Len(Node(addr, 2)) = 2
      /\ BankOf(addr) \in Seq(Int) /\ Len(BankOf(addr)) = Dram.depth
  BY <1>1, NodeOf DEF BankOf
<1>3. ASSUME NEW x \in Banks
      PROVE  /\ x \in BanksBelow(Node(addr, 2)) <=> Node(x, 2) = Node(addr, 2)
             /\ x \in BanksBelow(BankOf(addr)) <=> x = BankOf(addr)
  <2>1. x \in Seq(Int) /\ Len(x) = Dram.depth
    BY Tree DEF Banks
  <2>2. IsPrefix(Node(addr, 2), x) <=> Node(addr, 2) = Node(x, 2)
    BY <1>1, <1>2, <2>1, PrefixIsNode
  <2>3. IsPrefix(BankOf(addr), x) <=> BankOf(addr) = Node(x, Dram.depth)
    BY <1>1, <1>2, <2>1, PrefixIsNode
  <2>4. Node(x, Dram.depth) = x
    BY <2>1, SubSeqFull DEF Node
  <2> QED
    BY <2>2, <2>3, <2>4 DEF BanksBelow
<1> QED
  BY <1>3

(* What requests ask for on a device that opens rows in one step. *)
LEMMA OneStepAsks ==
  ASSUME IsDevice(Dram), OneStep(Dram), NEW r \in Requests(Dram), NEW t
  PROVE  \/ /\ r.type \in {"read", "write"} /\ r.final \in {"RD", "WR"}
            /\ BankOf(r.addr) \in Banks
            /\ Preq(r, t) = RequireRowOpen(r.final, r.addr)
         \/ /\ r.type = "refresh" /\ r.final = "REFab"
            /\ Preq(r, t) = RequireClosed("REFab", Node(r.addr, 2), "PREA")
         \/ /\ r.type = "victim" /\ r.final = "VRR" /\ BankOf(r.addr) \in Banks
            /\ Preq(r, t) = RequireClosed("VRR", BankOf(r.addr), "PRE")
<1> DEFINE p == Dram.lambdas.preq
<1>1. PICK l \in {"channel", "rank"} :
        /\ \A f \in {"RD", "WR", "REFab"} : p[f] = RowBuffer(l).preq[f]
        /\ DOMAIN Dram.requests \subseteq {"read", "write", "refresh", "victim"}
        /\ \A type \in {"read", "write", "refresh"} :
             Dram.requests[type] = ReadWriteRefresh[type]
        /\ "victim" \in DOMAIN Dram.requests =>
             /\ Dram.requests.victim = "VRR"
             /\ p["VRR"] = [level |-> "bank", need |-> "RequireBankClosed"]
        /\ Level(Dram, "bank") = Dram.depth
        /\ Dram.ranks # {} => Level(Dram, l) = 2
  BY DEF OneStep
<1>2. /\ p["RD"].need = "RequireRowOpen" /\ p["WR"].need = "RequireRowOpen"
      /\ p["REFab"] = [level |-> l, need |-> "RequireAllBanksClosed"]
  BY <1>1 DEF RowBuffer
<1>3. /\ r.type \in DOMAIN Dram.requests /\ r.final = Dram.requests[r.type]
      /\ r.type = "refresh" => Dram.ranks # {}
      /\ r.type # "refresh" => BankOf(r.addr) \in Banks
  BY DEF Requests, Asked, BankOf, Banks
<1>4. CASE r.type \in {"read", "write"}
  <2>1. r.final \in {"RD", "WR"}
    BY <1>1, <1>3, <1>4 DEF ReadWriteRefresh
  <2>2. Preq(r, t) = RequireRowOpen(r.final, r.addr)
    BY <1>2, <2>1 DEF Preq
  <2> QED
    BY <1>3, <1>4, <2>1, <2>2
<1>5. CASE r.type = "refresh"
  <2>1. r.final = "REFab" /\ LevelOf(l) = 2
    BY <1>1, <1>3, <1>5 DEF ReadWriteRefresh, LevelOf
  <2>2. Preq(r, t) = RequireClosed("REFab", Node(r.addr, 2), "PREA")
    BY <1>2, <2>1 DEF Preq
  <2> QED
    BY <1>5, <2>1, <2>2
<1>6. CASE r.type = "victim"
  <2>1. r.final = "VRR" /\ LevelOf("bank") = Dram.depth
    BY <1>1, <1>3, <1>6 DEF LevelOf
  <2>2. p["VRR"] = [level |-> "bank", need |-> "RequireBankClosed"]
    BY <1>1, <1>3, <1>6
  <2>3. Preq(r, t) = RequireClosed("VRR", BankOf(r.addr), "PRE")
    BY <2>1, <2>2 DEF Preq, BankOf
  <2> QED
    BY <1>3, <1>6, <2>1, <2>3
<1> QED
  BY <1>1, <1>3, <1>4, <1>5, <1>6

(* What the commands of such a device do to the banks. *)
LEMMA OneStepActs ==
  ASSUME IsDevice(Dram), OneStep(Dram), NEW cmd, NEW addr \in Seq(Int),
         Len(addr) = Dram.depth + 2, NEW t, UpdateStates(cmd, addr, t)
  PROVE  /\ cmd = "ACT" =>
              /\ BankOf(addr) \in Banks =>
                   /\ bank'[BankOf(addr)] = "Opened"
                   /\ rows'[BankOf(addr)] = rows[BankOf(addr)] \cup {RowOf(addr)}
              /\ \A x \in Banks : x # BankOf(addr) => Same(Dram, bank, rows, bank', rows', x)
         /\ cmd = "PRE" =>
              \A x \in Banks : IF x = BankOf(addr) THEN bank'[x] = "Closed" /\ rows'[x] = {}
                               ELSE Same(Dram, bank, rows, bank', rows', x)
         /\ cmd = "PREA" /\ Ranks # {} =>
              \A x \in Banks :
                IF Node(x, 2) = Node(addr, 2) THEN bank'[x] = "Closed" /\ rows'[x] = {}
                ELSE Same(Dram, bank, rows, bank', rows', x)
         /\ cmd \in {"RD", "WR", "REFab", "VRR"} =>
              \A x \in Banks : Same(Dram, bank, rows, bank', rows', x)
<1>1. PICK l \in {"channel", "rank"} :
        /\ Dram.lambdas.action = RowBuffer(l).action
        /\ Level(Dram, "bank") = Dram.depth
        /\ Dram.ranks # {} => Level(Dram, l) = 2
  BY DEF OneStep
<1>2. Dram.lambdas.action =
        [ACT |-> [level |-> "bank", do |-> "Open"], PRE |-> [level |-> "bank", do |-> "Close"],
         RDA |-> [level |-> "bank", do |-> "Close"], WRA |-> [level |-> "bank", do |-> "Close"],
         PREA |-> [level |-> l, do |-> "CloseAll"]]
  BY <1>1 DEF RowBuffer
<1>3. /\ \A x \in Banks :
           bank'[x] = CASE x \in Closes(cmd, addr) -> "Closed"
                        [] (Acts(cmd, "Open") \/ Acts(cmd, "PreOpen")) /\ x = BankOf(addr) ->
                             IF Acts(cmd, "Open") THEN "Opened" ELSE "Pre-Opened"
                        [] OTHER -> bank[x]
      /\ \A x \in Banks :
           rows'[x] = CASE x \in Closes(cmd, addr) -> {}
                        [] (Acts(cmd, "Open") \/ Acts(cmd, "PreOpen")) /\ x = BankOf(addr) ->
                             rows[x] \cup {RowOf(addr)}
                        [] OTHER -> rows[x]
  BY DEF UpdateStates
<1>4. /\ \A x \in Banks : x \in BanksBelow(Node(addr, 2)) <=> Node(x, 2) = Node(addr, 2)
      /\ \A x \in Banks : x \in BanksBelow(BankOf(addr)) <=> x = BankOf(addr)
  BY BanksOf
<1>5. ASSUME cmd = "ACT"
      PROVE  /\ Acts(cmd, "Open") /\ Closes(cmd, addr) = {}
  BY <1>2, <1>5 DEF Acts, Action, Closes
<1>6. ASSUME cmd = "PRE"
      PROVE  /\ ~Acts(cmd, "Open") /\ ~Acts(cmd, "PreOpen")
             /\ Closes(cmd, addr) = BanksBelow(BankOf(addr))
  BY <1>1, <1>2, <1>6 DEF Acts, Action, Closes, LevelOf, BankOf
<1>7. ASSUME cmd = "PREA", Ranks # {}
      PROVE  /\ ~Acts(cmd, "Open") /\ ~Acts(cmd, "PreOpen")
             /\ Closes(cmd, addr) = BanksBelow(Node(addr, 2))
  BY <1>1, <1>2, <1>7 DEF Acts, Action, Closes, LevelOf, Ranks
<1>8. ASSUME cmd \in {"RD", "WR", "REFab", "VRR"}
      PROVE  /\ ~Acts(cmd, "Open") /\ ~Acts(cmd, "PreOpen") /\ Closes(cmd, addr) = {}
  BY <1>2, <1>8 DEF Acts, Action, Closes
<1>9. cmd = "ACT" =>
        /\ BankOf(addr) \in Banks =>
             /\ bank'[BankOf(addr)] = "Opened"
             /\ rows'[BankOf(addr)] = rows[BankOf(addr)] \cup {RowOf(addr)}
        /\ \A x \in Banks : x # BankOf(addr) => Same(Dram, bank, rows, bank', rows', x)
  BY <1>3, <1>5 DEF Same
<1>10. cmd = "PRE" =>
         \A x \in Banks : IF x = BankOf(addr) THEN bank'[x] = "Closed" /\ rows'[x] = {}
                          ELSE Same(Dram, bank, rows, bank', rows', x)
  BY <1>3, <1>4, <1>6 DEF Same
<1>11. cmd = "PREA" /\ Ranks # {} =>
         \A x \in Banks :
           IF Node(x, 2) = Node(addr, 2) THEN bank'[x] = "Closed" /\ rows'[x] = {}
           ELSE Same(Dram, bank, rows, bank', rows', x)
  BY <1>3, <1>4, <1>7 DEF Same
<1>12. cmd \in {"RD", "WR", "REFab", "VRR"} =>
         \A x \in Banks : Same(Dram, bank, rows, bank', rows', x)
  BY <1>3, <1>8 DEF Same
<1> QED
  BY <1>9, <1>10, <1>11, <1>12

(* What issuing a request's prerequisite does to the banks. *)
LEMMA StepOfRows ==
  ASSUME IsDevice(Dram), OneStep(Dram), NEW r \in Requests(Dram), NEW t,
         NEW cmd, cmd = Preq(r, t), UpdateStates(cmd, r.addr, t),
         NEW c, c.cmd = cmd, c.addr = r.addr
  PROVE  /\ Stepped(Dram, c, bank, rows, bank', rows')
         /\ cmd = "ACT" => r.type \in {"read", "write"} /\ cmd # r.final
<1> DEFINE b == BankOf(r.addr)
           row == RowOf(r.addr)
<1>1. r.addr \in Seq(Int) /\ Len(r.addr) = Dram.depth + 2
  BY DEF Requests
<1>2. b = Node(c.addr, Dram.depth) /\ row = c.addr[Dram.depth + 1] /\ Dram.banks = Banks
  BY DEF BankOf, RowOf, Banks
<1>3. /\ cmd = "ACT" =>
           /\ b \in Banks =>
                bank'[b] = "Opened" /\ rows'[b] = rows[b] \cup {row}
           /\ \A x \in Banks : x # b => Same(Dram, bank, rows, bank', rows', x)
      /\ cmd = "PRE" =>
           \A x \in Banks : IF x = b THEN bank'[x] = "Closed" /\ rows'[x] = {}
                            ELSE Same(Dram, bank, rows, bank', rows', x)
      /\ cmd = "PREA" /\ Ranks # {} =>
           \A x \in Banks :
             IF Node(x, 2) = Node(r.addr, 2) THEN bank'[x] = "Closed" /\ rows'[x] = {}
             ELSE Same(Dram, bank, rows, bank', rows', x)
      /\ cmd \in {"RD", "WR", "REFab", "VRR"} =>
           \A x \in Banks : Same(Dram, bank, rows, bank', rows', x)
  <2> DEFINE addr == r.addr
  <2> HIDE DEF addr
  <2>1. addr \in Seq(Int) /\ Len(addr) = Dram.depth + 2 /\ UpdateStates(cmd, addr, t)
    BY <1>1 DEF addr
  <2>2. /\ cmd = "ACT" =>
             /\ BankOf(addr) \in Banks =>
                  /\ bank'[BankOf(addr)] = "Opened"
                  /\ rows'[BankOf(addr)] = rows[BankOf(addr)] \cup {RowOf(addr)}
             /\ \A x \in Banks : x # BankOf(addr) => Same(Dram, bank, rows, bank', rows', x)
        /\ cmd = "PRE" =>
             \A x \in Banks : IF x = BankOf(addr) THEN bank'[x] = "Closed" /\ rows'[x] = {}
                              ELSE Same(Dram, bank, rows, bank', rows', x)
        /\ cmd = "PREA" /\ Ranks # {} =>
             \A x \in Banks :
               IF Node(x, 2) = Node(addr, 2) THEN bank'[x] = "Closed" /\ rows'[x] = {}
               ELSE Same(Dram, bank, rows, bank', rows', x)
        /\ cmd \in {"RD", "WR", "REFab", "VRR"} =>
             \A x \in Banks : Same(Dram, bank, rows, bank', rows', x)
    BY <2>1, OneStepActs
  <2> QED
    BY <2>2, Zenon DEF addr
<1>4. \/ /\ r.type \in {"read", "write"} /\ r.final \in {"RD", "WR"} /\ b \in Banks
         /\ cmd = RequireRowOpen(r.final, r.addr)
      \/ /\ r.type = "refresh" /\ r.final = "REFab"
         /\ cmd = RequireClosed("REFab", Node(r.addr, 2), "PREA")
      \/ /\ r.type = "victim" /\ r.final = "VRR" /\ b \in Banks
         /\ cmd = RequireClosed("VRR", b, "PRE")
  BY OneStepAsks
<1>5. /\ \A x \in Banks : x \in BanksBelow(Node(c.addr, 2)) <=> Node(x, 2) = Node(c.addr, 2)
      /\ \A x \in Banks : x \in BanksBelow(b) <=> x = b
  BY <1>1, BanksOf
<1>6. cmd = RequireRowOpen(r.final, r.addr) =>
        \/ cmd = "ACT" /\ bank[b] = "Closed"
        \/ cmd = r.final /\ bank[b] # "Closed" /\ row \in rows[b]
        \/ cmd = "PRE"
  <2>1. CASE bank[b] = "Closed"
    <3>1. RequireRowOpen(r.final, r.addr) = "ACT"
      BY <2>1 DEF RequireRowOpen
    <3> QED
      BY <2>1, <3>1
  <2>2. CASE bank[b] = "Opened" /\ row \in rows[b]
    <3>1. RequireRowOpen(r.final, r.addr) = r.final
      BY <2>2 DEF RequireRowOpen
    <3> QED
      BY <2>2, <3>1
  <2>3. CASE bank[b] # "Closed" /\ ~(bank[b] = "Opened" /\ row \in rows[b])
    <3>1. RequireRowOpen(r.final, r.addr) = "PRE"
      BY <2>3 DEF RequireRowOpen
    <3> QED
      BY <3>1
  <2> QED
    BY <2>1, <2>2, <2>3
<1> HIDE DEF b, row
<1>7. CASE /\ r.type \in {"read", "write"} /\ r.final \in {"RD", "WR"} /\ b \in Banks
           /\ cmd = RequireRowOpen(r.final, r.addr)
  <2>1. CASE cmd = "ACT" /\ bank[b] = "Closed"
    <3>1. /\ c.cmd = "ACT" /\ b \in Dram.banks
          /\ bank[b] = "Closed" /\ bank'[b] = "Opened" /\ rows'[b] = rows[b] \cup {row}
          /\ \A x \in Dram.banks : x # b => Same(Dram, bank, rows, bank', rows', x)
      BY <1>2, <1>3, <1>7, <2>1
    <3> QED
      BY <1>2, <1>7, <2>1, <3>1 DEF Stepped
  <2>2. CASE cmd = r.final /\ bank[b] # "Closed" /\ row \in rows[b]
    <3>1. /\ c.cmd \in {"RD", "WR"} /\ b \in Dram.banks
          /\ bank[b] # "Closed" /\ row \in rows[b]
          /\ \A x \in Dram.banks : Same(Dram, bank, rows, bank', rows', x)
      BY <1>2, <1>3, <1>7, <2>2
    <3> QED
      BY <1>2, <1>7, <2>2, <3>1 DEF Stepped
  <2>3. CASE cmd = "PRE"
    <3>1. /\ c.cmd = "PRE" /\ b \in Dram.banks /\ bank'[b] = "Closed" /\ rows'[b] = {}
          /\ \A x \in Dram.banks : x # b => Same(Dram, bank, rows, bank', rows', x)
      BY <1>2, <1>3, <1>7, <2>3
    <3> QED
      BY <1>2, <2>3, <3>1 DEF Stepped
  <2> QED
    BY <1>6, <1>7, <2>1, <2>2, <2>3
<1>8. CASE /\ r.type = "refresh" /\ r.final = "REFab"
           /\ cmd = RequireClosed("REFab", Node(r.addr, 2), "PREA")
  <2>1. Ranks # {}
    BY <1>8 DEF Requests, Asked, Ranks
  <2>2. CASE \A x \in BanksBelow(Node(c.addr, 2)) : bank[x] = "Closed"
    <3>1. cmd = "REFab"
      BY <1>8, <2>2 DEF RequireClosed
    <3>2. \A x \in Dram.banks : Node(x, 2) = Node(c.addr, 2) => bank[x] = "Closed"
      BY <1>2, <1>5, <2>2
    <3>3. \A x \in Dram.banks : Same(Dram, bank, rows, bank', rows', x)
      BY <1>2, <1>3, <3>1
    <3> QED
      BY <3>1, <3>2, <3>3 DEF Stepped
  <2>3. CASE ~(\A x \in BanksBelow(Node(c.addr, 2)) : bank[x] = "Closed")
    <3>1. cmd = "PREA"
      BY <1>8, <2>3 DEF RequireClosed
    <3>2. \A x \in Dram.banks :
             IF Node(x, 2) = Node(c.addr, 2) THEN bank'[x] = "Closed" /\ rows'[x] = {}
             ELSE Same(Dram, bank, rows, bank', rows', x)
      BY <1>2, <1>3, <2>1, <3>1
    <3> QED
      BY <3>1, <3>2 DEF Stepped
  <2> QED
    BY <2>2, <2>3
<1>9. CASE /\ r.type = "victim" /\ r.final = "VRR" /\ b \in Banks
           /\ cmd = RequireClosed("VRR", b, "PRE")
  <2>1. CASE \A x \in BanksBelow(b) : bank[x] = "Closed"
    <3>1. cmd = "VRR"
      BY <1>9, <2>1 DEF RequireClosed
    <3>2. /\ c.cmd = "VRR" /\ b \in Dram.banks /\ bank[b] = "Closed"
          /\ \A x \in Dram.banks : Same(Dram, bank, rows, bank', rows', x)
      BY <1>2, <1>3, <1>5, <1>9, <2>1, <3>1
    <3> QED
      BY <1>2, <3>1, <3>2 DEF Stepped
  <2>2. CASE ~(\A x \in BanksBelow(b) : bank[x] = "Closed")
    <3>1. cmd = "PRE"
      BY <1>9, <2>2 DEF RequireClosed
    <3>2. /\ c.cmd = "PRE" /\ b \in Dram.banks /\ bank'[b] = "Closed" /\ rows'[b] = {}
          /\ \A x \in Dram.banks : x # b => Same(Dram, bank, rows, bank', rows', x)
      BY <1>2, <1>3, <1>9, <3>1
    <3> QED
      BY <1>2, <3>1, <3>2 DEF Stepped
  <2> QED
    BY <2>1, <2>2
<1> QED
  BY <1>4, <1>7, <1>8, <1>9

(* The active requests have found their rows: those of an open bank are for *)
(* its row, and those of one bank for one row.                              *)
PlaceOf(d, r) == Node(r.addr, d.depth)
RowIn(d, r) == r.addr[d.depth + 1]
Agreed(d, active, bk, rw) ==
  \A r \in active :
    /\ r.type \in {"read", "write"} /\ PlaceOf(d, r) \in d.banks
    /\ bk[PlaceOf(d, r)] # "Closed" => rw[PlaceOf(d, r)] = {RowIn(d, r)}
    /\ \A s \in active : PlaceOf(d, s) = PlaceOf(d, r) => RowIn(d, s) = RowIn(d, r)

(* A command keeps the active requests so, if the one it makes active is    *)
(* for the row of those of its bank.                                        *)
LEMMA AgreedStep ==
  ASSUME NEW d, NEW log, NEW c, NEW bk, NEW rw, NEW bk2, NEW rw2,
         RowState(d, log, bk, rw), Stepped(d, c, bk, rw, bk2, rw2),
         NEW active, Agreed(d, active, bk, rw), NEW r, c.addr = r.addr,
         c.cmd = "ACT" =>
           /\ r.type \in {"read", "write"}
           /\ \A s \in active : PlaceOf(d, s) = PlaceOf(d, r) => RowIn(d, s) = RowIn(d, r),
         NEW active2, \A s \in active2 : s \in active \/ (c.cmd = "ACT" /\ s = r)
  PROVE  Agreed(d, active2, bk2, rw2)
<1> DEFINE b == PlaceOf(d, r)
           row == RowIn(d, r)
<1>1. b = Node(c.addr, d.depth) /\ row = c.addr[d.depth + 1]
  BY DEF PlaceOf, RowIn
<1>2. ASSUME c.cmd = "ACT"
      PROVE  /\ b \in d.banks /\ rw2[b] = {row}
             /\ \A x \in d.banks : x # b => Same(d, bk, rw, bk2, rw2, x)
  <2>1. /\ b \in d.banks /\ bk[b] = "Closed" /\ rw2[b] = rw[b] \cup {row}
        /\ \A x \in d.banks : x # b => Same(d, bk, rw, bk2, rw2, x)
    BY <1>1, <1>2 DEF Stepped
  <2>2. rw[b] = {}
    BY <2>1 DEF RowState, Shown
  <2> QED
    BY <2>1, <2>2
<1>3. ASSUME c.cmd # "ACT", NEW x \in d.banks
      PROVE  bk2[x] = "Closed" \/ Same(d, bk, rw, bk2, rw2, x)
  BY <1>3 DEF Stepped
<1> HIDE DEF b, row
<1>4. ASSUME NEW s \in active2
      PROVE  /\ s.type \in {"read", "write"} /\ PlaceOf(d, s) \in d.banks
             /\ bk2[PlaceOf(d, s)] # "Closed" => rw2[PlaceOf(d, s)] = {RowIn(d, s)}
             /\ \A u \in active2 : PlaceOf(d, u) = PlaceOf(d, s) => RowIn(d, u) = RowIn(d, s)
  <2> DEFINE p == PlaceOf(d, s)
             w == RowIn(d, s)
  <2>1. /\ s.type \in {"read", "write"} /\ p \in d.banks
    BY <1>2, <1>4 DEF Agreed, b
  <2>2. bk2[p] # "Closed" => rw2[p] = {w}
    <3>1. CASE c.cmd = "ACT"
      <4>1. CASE s = r
        BY <1>2, <3>1, <4>1 DEF b, row
      <4>2. CASE s # r /\ p = b
        <5>1. s \in active
          BY <1>4, <4>2
        <5>2. w = row
          BY <3>1, <4>2, <5>1 DEF b, row
        <5> QED
          BY <1>2, <3>1, <4>2, <5>2
      <4>3. CASE s # r /\ p # b
        <5>1. s \in active
          BY <1>4, <4>3
        <5>2. Same(d, bk, rw, bk2, rw2, p) /\ (bk[p] # "Closed" => rw[p] = {w})
          BY <1>2, <2>1, <3>1, <4>3, <5>1 DEF Agreed
        <5> QED
          BY <5>2 DEF Same
      <4> QED
        BY <4>1, <4>2, <4>3
    <3>2. CASE c.cmd # "ACT"
      <4>1. s \in active
        BY <1>4, <3>2
      <4>2. bk[p] # "Closed" => rw[p] = {w}
        BY <4>1 DEF Agreed
      <4> QED
        BY <1>3, <2>1, <3>2, <4>2 DEF Same
    <3> QED
      BY <3>1, <3>2
  <2>3. ASSUME NEW u \in active2, PlaceOf(d, u) = p
        PROVE  RowIn(d, u) = w
    <3>1. CASE u \in active /\ s \in active
      BY <2>3, <3>1 DEF Agreed
    <3>2. CASE c.cmd = "ACT" /\ s = r /\ u \in active
      BY <2>3, <3>2
    <3>3. CASE c.cmd = "ACT" /\ u = r /\ s \in active
      BY <2>3, <3>3
    <3>4. CASE u = r /\ s = r
      BY <3>4
    <3> QED
      BY <1>4, <2>3, <3>1, <3>2, <3>3, <3>4
  <2> QED
    BY <2>1, <2>2, <2>3
<1> QED
  BY <1>4 DEF Agreed

(* Two requests of one closed bank are ready together. *)
LEMMA ReadyTogether ==
  ASSUME IsDevice(Dram), OneStep(Dram), NEW r \in Requests(Dram), NEW s \in Requests(Dram),
         NEW t, s.type \in {"read", "write"}, PlaceOf(Dram, s) = PlaceOf(Dram, r),
         Preq(r, t) = "ACT", IsReady(r, t)
  PROVE  IsReady(s, t)
<1> DEFINE b == BankOf(r.addr)
<1>1. BankOf(s.addr) = b
  BY DEF PlaceOf, BankOf
<1>2. /\ r.addr \in Seq(Int) /\ Len(r.addr) = Dram.depth + 2
      /\ s.addr \in Seq(Int) /\ Len(s.addr) = Dram.depth + 2
      /\ Dram.depth \in Nat
  BY Tree DEF Requests
<1>3. bank[b] = "Closed"
  <2>1. Preq(r, t) \in {"REFab", "PREA", "VRR", "PRE"} \/ Preq(r, t) = RequireRowOpen(r.final, r.addr)
    BY OneStepAsks DEF RequireClosed
  <2>2. r.final \in {"RD", "WR"} \/ r.final = "REFab" \/ r.final = "VRR"
    BY OneStepAsks
  <2>3. CASE bank[b] # "Closed"
    <3>1. RequireRowOpen(r.final, r.addr) \in {r.final, "PRE"}
      BY <2>3 DEF RequireRowOpen
    <3> QED
      BY <2>1, <2>2, <3>1
  <2> QED
    BY <2>3
<1>4. Preq(s, t) = "ACT"
  <2>1. Preq(s, t) = RequireRowOpen(s.final, s.addr)
    BY OneStepAsks
  <2>2. RequireRowOpen(s.final, s.addr) = "ACT"
    BY <1>1, <1>3 DEF RequireRowOpen
  <2> QED
    BY <2>1, <2>2
<1>5. ASSUME NEW l \in 1..Dram.depth
      PROVE  Node(s.addr, l) = Node(r.addr, l) /\ s.addr[l] = r.addr[l]
  <2>1. l \in Nat /\ l <= Dram.depth /\ Dram.depth <= Len(r.addr) /\ Dram.depth <= Len(s.addr)
    BY <1>2
  <2>2. Node(Node(r.addr, Dram.depth), l) = Node(r.addr, l)
    BY <1>2, <2>1, NodeOfNode
  <2>3. Node(Node(s.addr, Dram.depth), l) = Node(s.addr, l)
    BY <1>2, <2>1, NodeOfNode
  <2>4. Node(r.addr, Dram.depth)[l] = r.addr[l]
    BY <1>2, <2>1, NodeOf
  <2>5. Node(s.addr, Dram.depth)[l] = s.addr[l]
    BY <1>2, <2>1, NodeOf
  <2> QED
    BY <1>1, <2>2, <2>3, <2>4, <2>5 DEF BankOf
<1>6. Path("ACT", s.addr) = Path("ACT", r.addr)
  BY <1>5 DEF Path
<1>7. ReadyAt("ACT", s.addr) = ReadyAt("ACT", r.addr)
  BY <1>6 DEF ReadyAt
<1> QED
  BY <1>4, <1>7 DEF IsReady, CheckReady

(* The rows, the log and the active requests of a device that opens rows in *)
(* one step.                                                                *)
RowInv ==
  OneStep(Dram) =>
    /\ RowState(Dram, issued, bank, rows)
    /\ RowsLegal(Dram, issued)
    /\ Agreed(Dram, Range(buf.active), bank, rows)

(* At first every bank is closed, no command has turned it and no request  *)
(* is active.                                                              *)
LEMMA InitRows ==
  ASSUME Init
  PROVE  RowInv
<1>1. /\ issued = <<>> /\ buf = [name \in Queues |-> <<>>]
      /\ bank = [b \in Banks |-> "Closed"] /\ rows = [b \in Banks |-> {}]
  BY DEF Init, DeviceInit
<1>2. \A b : Shows(Dram, Len(issued), issued, b, None)
  <2>1. Len(issued) = 0
    BY <1>1
  <2>2. \A b : Turns(Dram, 0, issued, b) = {}
    BY DEF Turns
  <2> QED
    BY <2>1, <2>2 DEF Shows
<1>3. RowState(Dram, issued, bank, rows)
  BY <1>1, <1>2 DEF RowState, Shown, Banks
<1>4. RowsLegal(Dram, issued)
  BY <1>1 DEF RowsLegal
<1>5. buf.active = <<>>
  BY <1>1 DEF Queues
<1>6. Range(buf.active) = {}
  BY <1>5 DEF Range
<1>7. Agreed(Dram, Range(buf.active), bank, rows)
  BY <1>6 DEF Agreed
<1> QED
  BY <1>3, <1>4, <1>7 DEF RowInv

(* A cycle that issues a command. *)
LEMMA IssueRows ==
  ASSUME TypesOK, RowInv, NEW t \in Nat, NEW q, q = Queued(t),
         NEW ch, ch = Chosen(q, t), ch.name # None, Issue(q, ch, t), sys' = sys
  PROVE  RowInv'
<1> DEFINE r == q[ch.name][ch.i]
           cmd == Preq(r, t)
           c == [clk |-> t, cmd |-> cmd, addr |-> r.addr]
           left == AfterIssue(q, ch, r, cmd).active
<1>1. /\ q \in Buffers(Dram) /\ q.active = buf.active
      /\ r \in Requests(Dram) /\ c \in Entries(Dram) /\ issued' = Append(issued, c)
      /\ buf'.active = left /\ IsReady(r, t)
  BY IssueDoes
<1>2. Dram' = Dram /\ IsDevice(Dram) /\ DeviceTyped /\ issued \in Seq(Entries(Dram))
  BY PartsTyped DEF Dram, TypesOK
<1>3. SUFFICES ASSUME OneStep(Dram)
               PROVE  /\ RowState(Dram, issued', bank', rows')
                      /\ RowsLegal(Dram, issued')
                      /\ Agreed(Dram, Range(buf'.active), bank', rows')
  BY <1>2 DEF RowInv
<1>4. RowState(Dram, issued, bank, rows) /\ Agreed(Dram, Range(buf.active), bank, rows)
  BY <1>3 DEF RowInv
<1>5. ch.name \in Queues /\ ch.i \in DOMAIN q[ch.name]
      /\ (ch.name # "active" => ~BestReady(q.active, t))
  <2>1. q \in [Queues -> Seq(Requests(Dram))] /\ t \in Int
    BY <1>1 DEF Buffers
  <2> QED
    BY <1>2, <2>1, ChoiceSound
<1>6. UpdateStates(cmd, r.addr, t)
  BY DEF Issue
<1>7. \A s \in Range(left) : s \in Range(q.active) \/ (s = r /\ cmd \in Dram.opening)
  <2> DEFINE k == cmd
  <2> HIDE DEF k
  <2>1. \A s \in Range(AfterIssue(q, ch, q[ch.name][ch.i], k).active) :
          s \in Range(q.active) \/ (s = q[ch.name][ch.i] /\ k \in Dram.opening)
    BY <1>1, <1>5, AfterIssueActive
  <2> QED
    BY <2>1 DEF k
<1>8. c.clk = t /\ c.cmd = cmd /\ c.addr = r.addr
  OBVIOUS
<1>9. cmd = Preq(r, t)
  OBVIOUS
<1>10. r = q[ch.name][ch.i]
  OBVIOUS
<1> HIDE DEF r, cmd, c, left
<1>11. /\ Stepped(Dram, c, bank, rows, bank', rows')
       /\ cmd = "ACT" => r.type \in {"read", "write"}
  BY <1>1, <1>2, <1>3, <1>6, <1>8, <1>9, StepOfRows
<1>12. RowState(Dram, issued', bank', rows') /\ RowsLegal(Dram, issued')
  BY <1>1, <1>2, <1>4, <1>11, RowsStep
<1>13. ASSUME cmd = "ACT", NEW s \in Range(q.active), PlaceOf(Dram, s) = PlaceOf(Dram, r)
       PROVE  RowIn(Dram, s) = RowIn(Dram, r)
  <2>1. PICK i \in DOMAIN q.active : s = q.active[i]
    BY <1>13 DEF Range
  <2>2. "active" \in Queues /\ q.active \in Seq(Requests(Dram))
    BY <1>1 DEF Buffers, Queues
  <2>3. s \in Requests(Dram)
    BY <2>1, <2>2, ElementOfSeq, LenProperties
  <2>4. CASE ch.name = "active"
    <3>1. r \in Range(q.active)
      BY <1>5, <1>10, <2>4 DEF Range
    <3> QED
      BY <1>1, <1>4, <1>13, <3>1 DEF Agreed
  <2>5. CASE ch.name # "active"
    <3>1. s.type \in {"read", "write"}
      BY <1>1, <1>4, <1>13 DEF Agreed
    <3>2. IsReady(s, t)
      <4>1. /\ IsDevice(Dram) /\ OneStep(Dram) /\ r \in Requests(Dram) /\ IsReady(r, t)
            /\ PlaceOf(Dram, s) = PlaceOf(Dram, r) /\ Preq(r, t) = "ACT"
        BY <1>1, <1>2, <1>3, <1>9, <1>13
      <4> QED
        BY <2>3, <3>1, <4>1, ReadyTogether
    <3>3. q.active # <<>>
      BY <2>1
    <3>4. BestReady(q.active, t)
      BY <2>1, <3>2, <3>3 DEF BestReady
    <3> QED
      BY <1>5, <2>5, <3>4
  <2> QED
    BY <2>4, <2>5
<1>14. \A s \in Range(left) : s \in Range(q.active) \/ (c.cmd = "ACT" /\ s = r)
  <2>1. Dram.opening = {"ACT"}
    BY <1>3 DEF OneStep
  <2> QED
    BY <1>7, <1>8, <2>1
<1>15. Agreed(Dram, Range(left), bank', rows')
  <2> DEFINE active == Range(q.active)
             active2 == Range(left)
  <2>1. Agreed(Dram, active, bank, rows)
    BY <1>1, <1>4
  <2>2. c.cmd = "ACT" =>
          /\ r.type \in {"read", "write"}
          /\ \A s \in active : PlaceOf(Dram, s) = PlaceOf(Dram, r) => RowIn(Dram, s) = RowIn(Dram, r)
    BY <1>8, <1>11, <1>13
  <2>3. \A s \in active2 : s \in active \/ (c.cmd = "ACT" /\ s = r)
    BY <1>14
  <2> HIDE DEF active, active2
  <2>4. Agreed(Dram, active2, bank', rows')
    BY <1>4, <1>8, <1>11, <2>1, <2>2, <2>3, AgreedStep
  <2> QED
    BY <2>4 DEF active2
<1> QED
  BY <1>1, <1>12, <1>15

(* A step that issues nothing. *)
LEMMA QuietRows ==
  ASSUME RowInv, sys' = sys, UNCHANGED <<deviceVars, issued>>, buf'.active = buf.active
  PROVE  RowInv'
<1>1. Dram' = Dram /\ issued' = issued /\ bank' = bank /\ rows' = rows
  BY DEF Dram, deviceVars
<1> QED
  BY <1>1 DEF RowInv

(* Every step keeps the banks what the log shows of them, and the active   *)
(* requests agreed.                                                        *)
LEMMA NextRows ==
  ASSUME TypesOK, RowInv, [Next]_vars
  PROVE  RowInv'
<1>1. CASE Send
  <2>1. buf'.active = buf.active /\ UNCHANGED <<sys, clk, deviceVars, nextRefresh, pluginVars, issued>>
    BY <1>1, SendDoes
  <2> QED
    BY <2>1, QuietRows
<1>2. CASE Tick
  <2>1. PICK t \in Nat : \E q, ch :
           /\ t > clk /\ q = Queued(t) /\ ch = Chosen(q, t)
           /\ sys' = sys /\ clk' = t /\ sent' = sent /\ nextRefresh' \in Int
           /\ (ch.name # None /\ Issue(q, ch, t)) \/ NoIssue(q, ch, t)
    BY <1>2, TickIs
  <2>2. PICK q, ch :
           /\ t > clk /\ q = Queued(t) /\ ch = Chosen(q, t)
           /\ sys' = sys /\ clk' = t /\ sent' = sent /\ nextRefresh' \in Int
           /\ (ch.name # None /\ Issue(q, ch, t)) \/ NoIssue(q, ch, t)
    BY <2>1
  <2>3. CASE ch.name # None /\ Issue(q, ch, t)
    BY <2>2, <2>3, IssueRows
  <2>4. CASE NoIssue(q, ch, t)
    <3>1. buf'.active = buf.active /\ UNCHANGED <<deviceVars, issued>>
      BY <2>2, <2>4, NoIssueDoes
    <3> QED
      BY <2>2, <3>1, QuietRows
  <2> QED
    BY <2>2, <2>3, <2>4
<1>3. CASE UNCHANGED vars
  <2>1. sys' = sys /\ buf' = buf /\ UNCHANGED <<deviceVars, issued>>
    BY <1>3 DEF vars
  <2> QED
    BY <2>1, QuietRows
<1> QED
  BY <1>1, <1>2, <1>3 DEF Next, Idle

(* The row the log shows is the one OpenRow takes from it. *)
LEMMA OpenRowIs ==
  ASSUME NEW b, NEW x, issued \in Seq(Entries(Dram)), issued # <<>>,
         Shows(Dram, Len(issued) - 1, issued, b, x)
  PROVE  OpenRow(b) = x
<1> DEFINE N == Len(issued) - 1
           js == Turns(Dram, N, issued, b)
<1>1. N \in Nat
  BY LenProperties, EmptySeq
<1>2. \A c : (Activates(c, b) <=> Opener(Dram, c, b)) /\ (Precharges(c, b) <=> Closer(Dram, c, b))
  BY DEF Activates, Precharges, Opener, Closer, BankOf
<1>3. {j \in Earlier : Activates(issued[j], b) \/ Precharges(issued[j], b)} = js
  BY <1>2 DEF Earlier, Turns, Turning
<1>4. js \in SUBSET Int /\ IsFiniteSet(js)
  <2>1. IsFiniteSet(1..N) /\ js \in SUBSET (1..N)
    BY <1>1, FS_Interval DEF Turns
  <2> HIDE DEF js, N
  <2>2. IsFiniteSet(js)
    BY <2>1, FS_Subset
  <2> QED
    BY <1>1, <2>1, <2>2
<1>5. OpenRow(b) = IF js = {} \/ Precharges(issued[Max(js)], b) THEN None
                   ELSE RowOf(issued[Max(js)].addr)
  BY <1>3 DEF OpenRow
<1>6. \/ js = {} /\ x = None
      \/ \E j \in js : (\A k \in js : k <= j) /\ x = RowAt(Dram, issued[j], b)
  BY DEF Shows
<1> HIDE DEF js, N
<1>7. CASE js = {} /\ x = None
  BY <1>5, <1>7
<1>8. CASE \E j \in js : (\A k \in js : k <= j) /\ x = RowAt(Dram, issued[j], b)
  <2>1. PICK j \in js : (\A k \in js : k <= j) /\ x = RowAt(Dram, issued[j], b)
    BY <1>8
  <2>2. Max(js) \in js /\ \A k \in js : Max(js) >= k
    BY <1>4, <2>1, MaxIsGreatest
  <2>3. Max(js) = j
    <3>1. Max(js) \in Int /\ j \in Int /\ Max(js) <= j /\ Max(js) >= j
      BY <1>4, <2>1, <2>2
    <3> QED
      BY <3>1
  <2>4. x = IF Precharges(issued[j], b) THEN None ELSE RowOf(issued[j].addr)
    BY <1>2, <2>1 DEF RowAt, RowOf
  <2> QED
    BY <1>5, <2>1, <2>3, <2>4
<1> QED
  BY <1>6, <1>7, <1>8

(* So the rows are respected. *)
LEMMA RowsFollow ==
  ASSUME TypesOK, RowInv, OneStep(Dram)
  PROVE  RowsRespected
<1>1. /\ IsDevice(Dram) /\ issued \in Seq(Entries(Dram))
      /\ RowsLegal(Dram, issued) /\ Agreed(Dram, Range(buf.active), bank, rows)
  BY PartsTyped DEF TypesOK, RowInv
<1>2. \A b, x : issued # <<>> /\ Shows(Dram, Len(issued) - 1, issued, b, x) => OpenRow(b) = x
  BY <1>1, OpenRowIs
<1>3. ASSUME issued # <<>>, NEW c, c = Last(issued)
      PROVE  /\ c.cmd \in {"ACT", "ACT-1", "VRR"} => OpenRow(BankOf(c.addr)) = None
             /\ c.cmd \in Columns \cup Columns16 => OpenRow(BankOf(c.addr)) = RowOf(c.addr)
             /\ c.cmd = "REFab" => \A b \in BanksBelow(Node(c.addr, 2)) : OpenRow(b) = None
  <2> DEFINE b == BankOf(c.addr)
             N == Len(issued) - 1
  <2>1. /\ c.cmd \in {"ACT", "ACT-1", "VRR"} => Shows(Dram, N, issued, b, None)
        /\ c.cmd \in AnyColumn => Shows(Dram, N, issued, b, RowOf(c.addr))
        /\ c.cmd = "REFab" =>
             \A x \in Dram.banks : Node(x, 2) = Node(c.addr, 2) => Shows(Dram, N, issued, x, None)
    BY <1>1, <1>3 DEF RowsLegal, BankOf, RowOf
  <2>2. c.addr \in Seq(Int) /\ Len(c.addr) = Dram.depth + 2
    <3>1. Len(issued) \in 1..Len(issued) /\ c = issued[Len(issued)]
      BY <1>1, <1>3, LenProperties, EmptySeq DEF Last
    <3>2. c \in Entries(Dram)
      BY <1>1, <3>1, ElementOfSeq
    <3> QED
      BY <3>2 DEF Entries, Names
  <2>3. \A x \in BanksBelow(Node(c.addr, 2)) : x \in Dram.banks /\ Node(x, 2) = Node(c.addr, 2)
    <3>1. \A x \in Banks : x \in BanksBelow(Node(c.addr, 2)) <=> Node(x, 2) = Node(c.addr, 2)
      BY <1>1, <2>2, BanksOf
    <3> QED
      BY <3>1 DEF BanksBelow, Banks
  <2> HIDE DEF N, b
  <2>4. \A y, x : Shows(Dram, N, issued, y, x) => OpenRow(y) = x
    BY <1>2, <1>3 DEF N
  <2> QED
    BY <2>1, <2>3, <2>4 DEF AnyColumn, b
<1>4. \A i \in DOMAIN buf.active :
        LET r == buf.active[i]
        IN  bank[BankOf(r.addr)] # "Closed" => rows[BankOf(r.addr)] = {RowOf(r.addr)}
  <2> TAKE i \in DOMAIN buf.active
  <2>1. buf.active[i] \in Range(buf.active)
    BY DEF Range
  <2> QED
    BY <1>1, <2>1 DEF Agreed, PlaceOf, RowIn, BankOf, RowOf
<1> QED
  BY <1>3, <1>4 DEF RowsRespected

(* On a device that opens a row with one command (every standard but        *)
(* LPDDR5), whatever its table and the plugin: a bank is activated or its   *)
(* victims refreshed only while the log shows it closed, a column is        *)
(* accessed only in the row last activated, a rank is refreshed only with   *)
(* its banks closed, and no active request finds another row in its bank.   *)
THEOREM RowsHold == Spec => [](OneStep(Dram) => RowsRespected)
<1>1. Init => RowInv
  BY InitRows
<1>2. TypesOK /\ RowInv /\ [Next]_vars => RowInv'
  BY NextRows
<1>3. TypesOK /\ RowInv => (OneStep(Dram) => RowsRespected)
  BY RowsFollow
<1> QED
  BY <1>1, <1>2, <1>3, TypeCorrect, PTL DEF Spec

(* The two together, for the devices that open rows in one step and whose   *)
(* table spaces the data: every device of the run but LPDDR5.               *)
THEOREM CommandsAreLegal == Spec => [](IsSpaced(Dram) /\ OneStep(Dram) => CommandsLegal)
<1>1. (IsSpaced(Dram) => TimingKept) /\ (OneStep(Dram) => RowsRespected)
        => (IsSpaced(Dram) /\ OneStep(Dram) => CommandsLegal)
  BY DEF CommandsLegal
<1> QED
  BY <1>1, TimingHolds, RowsHold, PTL

=============================================================================
