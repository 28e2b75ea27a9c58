--------------------------- MODULE TrafficPatterns ---------------------------
(***************************************************************************)
(* BookSim2's synthetic traffic (traffic.cpp, injection.cpp): where the    *)
(* packets of a source may go and when a source makes one. A pattern p is  *)
(* a record with its name and parameters, nodes among them; random draws   *)
(* are sets of outcomes. Nodes count from 0.                               *)
(***************************************************************************)
EXTENDS Integers, Sequences, FiniteSetsExt, Functions

LOCAL INSTANCE SequencesExt

NodesOf(p) == 0 .. p.nodes - 1

-----------------------------------------------------------------------------
(* Patterns over the bits of the node's number, of which there is a power  *)
(* of two.                                                                 *)

Log2(n) == CHOOSE b \in 0 .. n : 2 ^ b = n

Bit(x, i) == (x \div (2 ^ i)) % 2

FromBits(bits) == MapThenSumSet(LAMBDA i : bits[i] * (2 ^ i), DOMAIN bits)

BitComp(p, s) == p.nodes - 1 - s

Transpose(p, s) ==
  LET half == 2 ^ (Log2(p.nodes) \div 2)
  IN  (s \div half) + ((s % half) * half)

BitRev(p, s) ==
  LET last == Log2(p.nodes) - 1
  IN  FromBits([i \in 0 .. last |-> Bit(s, last - i)])

Shuffle(p, s) ==
  LET doubled == 2 * s
  IN  (doubled % p.nodes) + ((doubled \div p.nodes) % 2)

-----------------------------------------------------------------------------
(* Patterns over the digits of the node's number: n digits of base xr * k. *)

Base(p) == p.xr * p.k

EachDigit(p, s, Move(_)) ==
  MapThenSumSet(LAMBDA i : (Base(p) ^ i) * (Move((s \div (Base(p) ^ i)) % Base(p)) % Base(p)),
                0 .. p.n - 1)

Tornado(p, s)  == EachDigit(p, s, LAMBDA d : d + ((Base(p) + 1) \div 2) - 1)
Neighbor(p, s) == EachDigit(p, s, LAMBDA d : d + 1)

-----------------------------------------------------------------------------
(* A random permutation: node i becomes the destination of the draws[i]-th *)
(* source that has none yet.                                               *)
Permuted(p) ==
  FoldLeft(LAMBDA got, i :
             LET free == {s \in NodesOf(p) : got[s] = -1}
                 s == CHOOSE x \in free : Cardinality({y \in free : y < x}) = p.draws[i]
             IN  [got EXCEPT ![s] = i - 1],
           [s \in NodesOf(p) |-> -1], [i \in 1 .. p.nodes |-> i])

(* The members of a list that a draw weighted by rates may choose: nothing *)
(* is drawn from a list of one.                                            *)
Weighted(list, rates) ==
  {list[i] : i \in {j \in DOMAIN list : Len(list) = 1 \/ rates[j] > 0}}

OneToOne == {"bitcomp", "transpose", "bitrev", "shuffle", "tornado",
             "neighbor", "randperm"}

Dests(p, s) ==
  CASE p.name = "bitcomp"    -> {BitComp(p, s)}
    [] p.name = "transpose"  -> {Transpose(p, s)}
    [] p.name = "bitrev"     -> {BitRev(p, s)}
    [] p.name = "shuffle"    -> {Shuffle(p, s)}
    [] p.name = "tornado"    -> {Tornado(p, s)}
    [] p.name = "neighbor"   -> {Neighbor(p, s)}
    [] p.name = "randperm"   -> {Permuted(p)[s]}
    [] p.name = "uniform"    -> NodesOf(p)
    [] p.name = "background" -> NodesOf(p) \ p.excluded
    [] p.name = "diagonal"   -> {(s + 1) % p.nodes, s}
    [] p.name = "asymmetric" -> LET half == p.nodes \div 2
                                IN  {s % half, (s % half) + half}
    [] p.name = "hotspot"    -> Weighted(p.hotspots, p.rates)
    [] p.name = "bad_dragon" -> LET group == 2 * p.k * p.k
                                IN  {(r + (((s \div group) + 1) * group)) % p.nodes :
                                       r \in 0 .. group - 1}
    [] p.name = "badperm_yarc" -> {(r * Base(p)) + (s \div Base(p)) : r \in 0 .. Base(p) - 1}

-----------------------------------------------------------------------------
(* Injection processes: the outcomes of one test, as the state of an       *)
(* on-off source after it and whether a packet is made. A probability is   *)
(* "never", "maybe" or "always".                                           *)

Happens(chance) == CASE chance = "never"  -> {FALSE}
                     [] chance = "maybe"  -> BOOLEAN
                     [] chance = "always" -> {TRUE}

Test(p, on) ==
  IF p.name = "bernoulli" THEN {[on |-> on, hit |-> hit] : hit \in Happens(p.rate)}
  ELSE LET next == IF on THEN {~off : off \in Happens(p.beta)} ELSE Happens(p.alpha)
       IN  UNION {{[on |-> o, hit |-> o /\ hit] : hit \in Happens(p.r1)} : o \in next}

=============================================================================
