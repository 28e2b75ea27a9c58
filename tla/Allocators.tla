----------------------------- MODULE Allocators -----------------------------
(***************************************************************************)
(* BookSim2's allocators and the arbiters they are made of: which VC or    *)
(* switch input of a router gets which output. Every cycle a router clears *)
(* the allocator, adds the requests of its VCs and calls Allocate(); a     *)
(* pass of Allocate's loop is a step here. Requests come and go as they    *)
(* like, with what priorities they like, but for one: watched, once        *)
(* refused, stays until it is granted. How long that takes is what         *)
(* fairness is.                                                            *)
(***************************************************************************)
EXTENDS Integers, FiniteSets, Sequences

(***************************************************************************)
(* Arbiters: which one of n inputs wins, and what the arbiter remembers of *)
(* it. Requests are a function from the inputs that request to their       *)
(* priorities. A round-robin arbiter's state is its pointer, a matrix      *)
(* arbiter's the set of pairs <<i, j>> where i beats j, a tree's the       *)
(* states of one round-robin arbiter per group and of one between groups.  *)
(* Arbitration and UpdateState are separate, as in the code: a winner that *)
(* is refused later leaves no trace.                                       *)
(***************************************************************************)

None == -1

Indices(n) == 0 .. n - 1

(* The first element of S from p on, going round n. *)
FirstFrom(S, p, n) == CHOOSE i \in S : \A j \in S : (i - p) % n <= (j - p) % n

Foremost(r) == {i \in DOMAIN r : \A j \in DOMAIN r : r[j] <= r[i]}

RoundRobinWinner(ptr, n, r) ==
  IF Foremost(r) = {} THEN None ELSE FirstFrom(Foremost(r), ptr, n)

RoundRobinUpdate(ptr, n, w) == (w + 1) % n

(* A lone request wins unseen; else the request none beats, if there is one*)
MatrixWinner(beats, n, r) ==
  LET unbeaten == {i \in Foremost(r) : \A j \in Foremost(r) : <<j, i>> \notin beats}
  IN  IF Cardinality(DOMAIN r) = 1 THEN CHOOSE i \in DOMAIN r : TRUE
      ELSE IF unbeaten = {} THEN None
      ELSE CHOOSE i \in unbeaten : \A j \in unbeaten : i <= j

(* The winner loses to all others from now on. *)
MatrixUpdate(beats, n, w) ==
  {b \in beats : b[1] # w} \cup {<<i, w>> : i \in Indices(n) \ {w}}

MatrixInit(n) == {b \in Indices(n) \X Indices(n) : b[2] < b[1]}

TreeGroups == 2

GroupSize(n) == n \div TreeGroups

(* The requests of group g, numbered from 0. *)
GroupRequests(n, g, r) ==
  LET members == {i \in Indices(GroupSize(n)) : g * GroupSize(n) + i \in DOMAIN r}
  IN  [i \in members |-> r[g * GroupSize(n) + i]]

GroupWinner(tree, n, g, r) ==
  RoundRobinWinner(tree.groups[g], GroupSize(n), GroupRequests(n, g, r))

(* A group asks with the priority of its winner. *)
GlobalWinner(tree, n, r) ==
  LET asking == {g \in Indices(TreeGroups) : GroupWinner(tree, n, g, r) # None}
  IN  RoundRobinWinner(tree.global, TreeGroups,
        [g \in asking |-> r[g * GroupSize(n) + GroupWinner(tree, n, g, r)]])

TreeWinner(tree, n, r) ==
  LET g == GlobalWinner(tree, n, r)
  IN  IF g = None THEN None ELSE g * GroupSize(n) + GroupWinner(tree, n, g, r)

(* Only the arbiter of the winner's group and the global one move on. *)
TreeUpdate(tree, n, w) ==
  LET g == w \div GroupSize(n)
  IN  [groups |-> [tree.groups EXCEPT ![g] = RoundRobinUpdate(@, GroupSize(n), w % GroupSize(n))],
       global |-> RoundRobinUpdate(tree.global, TreeGroups, g)]

TreeInit(n) == [groups |-> [g \in Indices(TreeGroups) |-> 0], global |-> 0]

-----------------------------------------------------------------------------
(* NewArbiter's choice. *)
ArbiterInit(arb, n) ==
  CASE arb = "round_robin" -> 0
    [] arb = "matrix"      -> MatrixInit(n)
    [] arb = "tree"        -> TreeInit(n)

Arbitrate(arb, st, n, r) ==
  IF DOMAIN r = {} THEN None
  ELSE CASE arb = "round_robin" -> RoundRobinWinner(st, n, r)
         [] arb = "matrix"      -> MatrixWinner(st, n, r)
         [] arb = "tree"        -> TreeWinner(st, n, r)

UpdateState(arb, st, n, w) ==
  CASE arb = "round_robin" -> RoundRobinUpdate(st, n, w)
    [] arb = "matrix"      -> MatrixUpdate(st, n, w)
    [] arb = "tree"        -> TreeUpdate(st, n, w)
-----------------------------------------------------------------------------

CONSTANT Configs  \* the allocators checked

Kinds == {"islip", "pim", "select", "loa", "wavefront", "rr_wavefront", "max_size",
          "separable_input_first", "separable_output_first"}

(* load bounds the requests of a cycle and pris are their priorities; stay *)
(* says whether only the watched request stays when refused, or all do.    *)
ASSUME ConfigAssumption ==
  \A c \in Configs :
    /\ c.alloc \in Kinds /\ c.arb \in {"round_robin", "matrix", "tree"}
    /\ c.ins \in Nat \ {0} /\ c.outs \in Nat \ {0} /\ c.iters \in Nat \ {0}
    /\ c.load \in Nat /\ c.stay \in {"one", "all"}
    /\ c.pris \subseteq Int /\ IsFiniteSet(c.pris)
    /\ c.arb = "tree" => c.ins % TreeGroups = 0 /\ c.outs % TreeGroups = 0

VARIABLES
  cfg,       \* the allocator: its kind, arbiters, iterations and size
  phase,     \* "idle" (cleared), "allocate" or "done"
  req,       \* the two priorities of the requests <<input, output>>
  inmatch,   \* the output of each input, or None
  outmatch,  \* the input of each output, or None
  pass,      \* passes of Allocate's loop made
  grants,    \* the input each output granted: select keeps the last pass's
  ptr,       \* round-robin pointers or arbiters of the inputs and outputs
  diag,      \* _pri of a wavefront, _prio of max_size
  watched,   \* the request that stays
  waited     \* the allocations it has been refused in

vars == <<cfg, phase, req, inmatch, outmatch, pass, grants, ptr, diag, watched, waited>>

Ins  == Indices(cfg.ins)
Outs == Indices(cfg.outs)

FreeIn(i)  == inmatch[i] = None
FreeOut(o) == outmatch[o] = None

Requesters(o) == {i \in Ins : <<i, o>> \in DOMAIN req}

Separable == {"separable_input_first", "separable_output_first"}
Wavefronts == {"wavefront", "rr_wavefront"}

(* The allocators that keep no request waiting for ever, if there is only  *)
(* one priority; but for wavefronts, only if all requests stay. waited is  *)
(* counted for these.                                                      *)
IsFair ==
  /\ Cardinality(cfg.pris) = 1
  /\ \/ cfg.alloc \in Wavefronts
     \/ cfg.alloc \in Separable \cup {"islip", "select"} /\ cfg.stay = "all"

Memory(n) == IF cfg.alloc \in Separable THEN ArbiterInit(cfg.arb, n) ELSE 0

Init ==
  /\ cfg \in Configs
  /\ phase = "idle"
  /\ req = <<>>
  /\ inmatch = [i \in Ins |-> None] /\ outmatch = [o \in Outs |-> None]
  /\ pass = 0
  /\ grants = [o \in Outs |-> None]
  /\ ptr = [in |-> [i \in Ins |-> Memory(cfg.outs)], out |-> [o \in Outs |-> Memory(cfg.ins)]]
  /\ diag = 0
  /\ watched \in {<<0, 0>>, <<cfg.ins - 1, cfg.outs - 1>>}
  /\ waited = 0

(* The requests that will be made again: every one refused, or watched.    *)
Refused == {p \in DOMAIN req : inmatch[p[1]] # p[2]}
Staying == IF cfg.stay = "all" THEN Refused ELSE Refused \cap {watched}

Clear ==
  /\ phase = "done"
  /\ phase' = "idle"
  /\ req' = [p \in Staying |-> req[p]]
  /\ inmatch' = [i \in Ins |-> None] /\ outmatch' = [o \in Outs |-> None]
  /\ pass' = 0
  /\ grants' = [o \in Outs |-> None]
  /\ UNCHANGED <<cfg, ptr, diag, watched, waited>>

(* A request is ranked among those of its input by in_pri and among those  *)
(* of its output by out_pri. The VC allocator's requests have the routing  *)
(* function's priority (less than any other for a VC in use, if empty ones *)
(* are preferred) and their packet's, the switch allocator's the packet's  *)
(* twice; both may differ from cycle to cycle.                             *)
Priorities == [in_pri : cfg.pris, out_pri : cfg.pris]

AddRequests ==
  /\ phase = "idle"
  /\ \E pairs \in SUBSET (Ins \X Outs) :
       /\ Cardinality(pairs) <= cfg.load
       /\ DOMAIN req \subseteq pairs
       /\ req' \in [pairs -> Priorities]
  /\ phase' = "allocate"
  /\ UNCHANGED <<cfg, inmatch, outmatch, pass, grants, ptr, diag, watched, waited>>

-----------------------------------------------------------------------------
(* What a pass matches: an output, or None, for each input.                *)
Granted(accept, o) == {i \in Ins : accept[i] = o}

Match(accept) ==
  /\ inmatch' = [i \in Ins |-> IF accept[i] # None THEN accept[i] ELSE inmatch[i]]
  /\ outmatch' = [o \in Outs |-> IF Granted(accept, o) # {}
                                 THEN CHOOSE i \in Ins : accept[i] = o ELSE outmatch[o]]

(* The pass is over, and Allocate with it if it is the last.               *)
EndPass(last) ==
  /\ pass' = pass + 1
  /\ phase' = IF last THEN "done" ELSE phase
  /\ waited' = IF ~last \/ ~IsFair \/ watched \notin DOMAIN req THEN waited
               ELSE IF inmatch'[watched[1]] = watched[2] THEN 0 ELSE waited + 1
  /\ UNCHANGED <<cfg, req, watched>>

-----------------------------------------------------------------------------
(* islip: a free output grants to the first free input that requests it,   *)
(* from its pointer on, and an input accepts the first such grant.         *)

FreeRequesters(o) == {i \in Requesters(o) : FreeIn(i)}

IslipGrant(o) ==
  IF FreeOut(o) /\ FreeRequesters(o) # {}
  THEN FirstFrom(FreeRequesters(o), ptr.out[o], cfg.ins) ELSE None

Offers(g, i) == {o \in Outs : g[o] = i}

IslipAccept(g, i) ==
  IF Offers(g, i) = {} THEN None ELSE FirstFrom(Offers(g, i), ptr.in[i], cfg.outs)

(* The pointers follow the matches of the first pass.                      *)
MovePointers(accept) ==
  ptr' = IF pass > 0 THEN ptr ELSE
         [in |-> [i \in Ins |-> IF accept[i] = None THEN ptr.in[i] ELSE (accept[i] + 1) % cfg.outs],
          out |-> [o \in Outs |-> IF Granted(accept, o) = {} THEN ptr.out[o]
                                  ELSE ((CHOOSE i \in Ins : accept[i] = o) + 1) % cfg.ins]]

IslipPass ==
  LET g      == [o \in Outs |-> IslipGrant(o)]
      accept == [i \in Ins |-> IslipAccept(g, i)]
  IN  /\ cfg.alloc = "islip"
      /\ Match(accept) /\ MovePointers(accept)
      /\ EndPass(pass + 1 = cfg.iters)
      /\ UNCHANGED <<grants, diag>>

(* pim: the same at random. *)
PimPass ==
  /\ cfg.alloc = "pim"
  /\ \E g \in [Outs -> Ins \cup {None}], accept \in [Ins -> Outs \cup {None}] :
       /\ \A o \in Outs : IF FreeOut(o) /\ FreeRequesters(o) # {}
                          THEN g[o] \in FreeRequesters(o) ELSE g[o] = None
       /\ \A i \in Ins : IF Offers(g, i) = {} THEN accept[i] = None ELSE accept[i] \in Offers(g, i)
       /\ Match(accept)
  /\ EndPass(pass + 1 = cfg.iters)
  /\ UNCHANGED <<grants, ptr, diag>>

(* select: islip that looks at priorities first. An output with nothing to *)
(* grant keeps its grant of the pass before, and inputs that are matched   *)
(* still accept.                                                           *)
SelectGrant(o) ==
  LET r == [i \in FreeRequesters(o) |-> req[<<i, o>>].out_pri]
  IN  IF FreeOut(o) /\ FreeRequesters(o) # {}
      THEN RoundRobinWinner(ptr.out[o], cfg.ins, r) ELSE grants[o]

SelectAccept(g, i) ==
  RoundRobinWinner(ptr.in[i], cfg.outs, [o \in Offers(g, i) |-> req[<<i, o>>].in_pri])

SelectPass ==
  LET g      == [o \in Outs |-> SelectGrant(o)]
      accept == [i \in Ins |-> SelectAccept(g, i)]
  IN  /\ cfg.alloc = "select"
      /\ Match(accept) /\ MovePointers(accept)
      /\ grants' = g
      /\ EndPass(pass + 1 = cfg.iters)
      /\ UNCHANGED diag

(* loa: an input asks the output least asked for, and the pointers of the  *)
(* two move on by one if it is granted.                                    *)
Lonely(i) ==
  LET asked == {o \in Outs : <<i, o>> \in DOMAIN req}
      least == {o \in asked : \A p \in asked :
                  Cardinality(Requesters(o)) <= Cardinality(Requesters(p))}
  IN  IF least = {} THEN None ELSE FirstFrom(least, ptr.in[i], cfg.outs)

LoaGrant(lonely, o) ==
  LET asking == {i \in Ins : lonely[i] = o}
  IN  IF asking = {} THEN None ELSE FirstFrom(asking, ptr.out[o], cfg.ins)

LoaPass ==
  LET lonely == [i \in Ins |-> Lonely(i)]
      accept == [i \in Ins |-> IF lonely[i] # None /\ LoaGrant(lonely, lonely[i]) = i
                               THEN lonely[i] ELSE None]
  IN  /\ cfg.alloc = "loa"
      /\ Match(accept)
      /\ ptr' = [in |-> [i \in Ins |-> IF accept[i] = None THEN ptr.in[i]
                                       ELSE (ptr.in[i] + 1) % cfg.outs],
                 out |-> [o \in Outs |-> IF Granted(accept, o) = {} THEN ptr.out[o]
                                         ELSE (ptr.out[o] + 1) % cfg.ins]]
      /\ EndPass(TRUE)
      /\ UNCHANGED <<grants, diag>>

-----------------------------------------------------------------------------
(* separable: one side's arbiters choose a request each, then the other    *)
(* side's arbiters choose among these, each side by priorities of its own. *)
(* Arbiters learn of matches only.                                         *)
InputChoice(i) ==
  LET asked == {o \in Outs : <<i, o>> \in DOMAIN req}
  IN  Arbitrate(cfg.arb, ptr.in[i], cfg.outs, [o \in asked |-> req[<<i, o>>].in_pri])

(* FAULT: the outputs' arbiters get the priorities meant for the inputs'.  *)
OutputWinnerByInput(choice, o) ==
  LET asking == {i \in Ins : choice[i] = o}
  IN  Arbitrate(cfg.arb, ptr.out[o], cfg.ins, [i \in asking |-> req[<<i, o>>].in_pri])

OutputWinner(choice, o) ==
  LET asking == {i \in Ins : choice[i] = o}
  IN  Arbitrate(cfg.arb, ptr.out[o], cfg.ins, [i \in asking |-> req[<<i, o>>].out_pri])

OutputChoice(o) ==
  Arbitrate(cfg.arb, ptr.out[o], cfg.ins, [i \in Requesters(o) |-> req[<<i, o>>].out_pri])

InputWinner(choice, i) ==
  LET granting == {o \in Outs : choice[o] = i}
  IN  Arbitrate(cfg.arb, ptr.in[i], cfg.outs, [o \in granting |-> req[<<i, o>>].in_pri])

(* FAULT: the outputs' arbiters are never told. *)
UpdateInputs(accept) ==
  ptr' = [ptr EXCEPT !.in = [i \in Ins |-> IF accept[i] = None THEN @[i]
                              ELSE UpdateState(cfg.arb, @[i], cfg.outs, accept[i])]]

UpdateMatched(accept) ==
  ptr' = [in |-> [i \in Ins |-> IF accept[i] = None THEN ptr.in[i]
                                ELSE UpdateState(cfg.arb, ptr.in[i], cfg.outs, accept[i])],
          out |-> [o \in Outs |-> IF Granted(accept, o) = {} THEN ptr.out[o]
                                  ELSE UpdateState(cfg.arb, ptr.out[o], cfg.ins,
                                                   CHOOSE i \in Ins : accept[i] = o)]]

InputFirstPass ==
  LET choice == [i \in Ins |-> InputChoice(i)]
      winner == [o \in Outs |-> OutputWinner(choice, o)]
      accept == [i \in Ins |-> IF choice[i] # None /\ winner[choice[i]] = i
                               THEN choice[i] ELSE None]
  IN  /\ cfg.alloc = "separable_input_first"
      /\ Match(accept) /\ UpdateMatched(accept)
      /\ EndPass(TRUE)
      /\ UNCHANGED <<grants, diag>>

OutputFirstPass ==
  LET choice == [o \in Outs |-> OutputChoice(o)]
      accept == [i \in Ins |-> InputWinner(choice, i)]
  IN  /\ cfg.alloc = "separable_output_first"
      /\ Match(accept) /\ UpdateMatched(accept)
      /\ EndPass(TRUE)
      /\ UNCHANGED <<grants, diag>>

-----------------------------------------------------------------------------
(* wavefront: level by level of the pairs of priorities, out_pri before    *)
(* in_pri, and diagonal by diagonal of the matrix of requests, from _pri   *)
(* on. On a diagonal no two requests are in conflict.                      *)
Square == IF cfg.ins > cfg.outs THEN cfg.ins ELSE cfg.outs

Levels == {req[p] : p \in DOMAIN req}

Exceeds(u, v) == u.out_pri > v.out_pri \/ (u.out_pri = v.out_pri /\ u.in_pri > v.in_pri)

Level == CHOOSE v \in Levels : Cardinality({u \in Levels : Exceeds(u, v)}) = pass \div Square

Wave(d) == {p \in DOMAIN req : (p[1] + p[2]) % Square = d % Square}

(* FAULT: the front of the wave runs over outputs that are matched already.*)
FrontOverMatched ==
  IF Cardinality(DOMAIN req) = 1 THEN DOMAIN req
  ELSE {p \in Wave(diag + pass) : req[p] = Level /\ FreeIn(p[1])}

(* The requests of the diagonal of this pass that are granted.             *)
Front ==
  IF Cardinality(DOMAIN req) = 1 THEN DOMAIN req
  ELSE {p \in Wave(diag + pass) : req[p] = Level /\ FreeIn(p[1]) /\ FreeOut(p[2])}

(* The first diagonal with a grant is the first with a topmost request.    *)
Topmost == {p \in DOMAIN req : \A q \in DOMAIN req : ~Exceeds(req[q], req[p])}

FirstDiagonal ==
  diag + CHOOSE d \in 0 .. Square - 1 :
           /\ Wave(diag + d) \cap Topmost # {}
           /\ \A e \in 0 .. d - 1 : Wave(diag + e) \cap Topmost = {}

NextDiagonal(d) == (d + 1) % Square

WavefrontPass ==
  LET accept == [i \in Ins |-> IF \E o \in Outs : <<i, o>> \in Front
                               THEN CHOOSE o \in Outs : <<i, o>> \in Front ELSE None]
      last == \/ Cardinality(DOMAIN req) <= 1
              \/ pass + 1 = Square * Cardinality(Levels)
  IN  /\ cfg.alloc \in Wavefronts
      /\ Match(accept)
      /\ EndPass(last)
      /\ diag' = IF ~last \/ DOMAIN req = {} THEN diag
                 ELSE NextDiagonal(IF cfg.alloc = "rr_wavefront" THEN FirstDiagonal ELSE diag)
      /\ UNCHANGED <<grants, ptr>>

-----------------------------------------------------------------------------
(* max_size: augment along a shortest path until there is none. Layers are *)
(* searched from the free inputs, _prio first; from[o] is the input o was  *)
(* reached from. from is cleared for as many outputs as there are inputs:  *)
(* outputs past these count as reached, from input 0, and never are.       *)

Edge(i, o) == <<i, o>> \in DOMAIN req /\ inmatch[i] # o

InitialStack ==
  LET free == {i \in Ins : FreeIn(i)}
      before(j, i) == (j - diag) % cfg.ins < (i - diag) % cfg.ins
  IN  [n \in 1 .. Cardinality(free) |->
        CHOOSE i \in free : Cardinality({j \in free : before(j, i)}) = n - 1]

Unreached == [o \in Outs |-> IF o < cfg.ins THEN None ELSE 0]

(* A layer: what its stack reaches, in the order it does; a free output    *)
(* among these ends the path.                                              *)
NextLayer(l) ==
  LET reach == {o \in Outs : l.from[o] = None /\ \E n \in DOMAIN l.stack : Edge(l.stack[n], o)}
      by == [o \in reach |-> CHOOSE n \in DOMAIN l.stack :
               Edge(l.stack[n], o) /\ \A m \in 1 .. n - 1 : ~Edge(l.stack[m], o)]
      before(p, o) == by[p] < by[o] \/ (by[p] = by[o] /\ p < o)
      free == {o \in reach : FreeOut(o)}
  IN  [from  |-> [o \in Outs |-> IF o \in reach THEN l.stack[by[o]] ELSE l.from[o]],
       stack |-> [n \in 1 .. Cardinality(reach) |->
                    outmatch[CHOOSE o \in reach : Cardinality({p \in reach : before(p, o)}) = n - 1]],
       end   |-> IF free = {} THEN None
                 ELSE CHOOSE o \in free : \A p \in free : ~before(p, o)]

Search ==
  LET layer[n \in 0 .. cfg.ins] ==
        IF n = 0 THEN [from |-> Unreached, stack |-> InitialStack, end |-> None]
        ELSE LET l == layer[n - 1] IN IF l.end # None THEN l ELSE NextLayer(l)
  IN  layer[cfg.ins]

(* The edges of the path back from output o, one per input on it.          *)
Path(from, end) ==
  LET back[n \in 1 .. cfg.ins] ==
        IF n = 1 THEN {<<from[end], end>>}
        ELSE LET p == back[n - 1]
                 i == CHOOSE j \in {e[1] : e \in p} : inmatch[j] \notin {e[2] : e \in p}
             IN  IF inmatch[i] = None THEN p ELSE p \cup {<<from[inmatch[i]], inmatch[i]>>}
  IN  back[cfg.ins]

MaxSizePass ==
  LET search == Search
      path   == Path(search.from, search.end)
      accept == [i \in Ins |-> IF \E o \in Outs : <<i, o>> \in path
                               THEN CHOOSE o \in Outs : <<i, o>> \in path ELSE None]
  IN  /\ cfg.alloc = "max_size"
      /\ IF search.end = None
         THEN /\ UNCHANGED <<inmatch, outmatch>>
              /\ diag' = (diag + 1) % cfg.ins
         ELSE /\ Match(accept)
              /\ UNCHANGED diag
      /\ EndPass(search.end = None)
      /\ UNCHANGED <<grants, ptr>>

-----------------------------------------------------------------------------
Pass ==
  /\ phase = "allocate"
  /\ \/ IslipPass \/ PimPass \/ SelectPass \/ LoaPass
     \/ InputFirstPass \/ OutputFirstPass \/ WavefrontPass \/ MaxSizePass

Next == Clear \/ AddRequests \/ Pass

Spec == Init /\ [][Next]_vars

-----------------------------------------------------------------------------
(* The variables keep their types. *)
TypeOK ==
  /\ cfg \in Configs
  /\ phase \in {"idle", "allocate", "done"}
  /\ DOMAIN req \subseteq Ins \X Outs
  /\ inmatch \in [Ins -> Outs \cup {None}]
  /\ outmatch \in [Outs -> Ins \cup {None}]
  /\ grants \in [Outs -> Ins \cup {None}]
  /\ diag \in 0 .. Square - 1

(* Inputs and outputs agree on who has whom, and only what was requested   *)
(* is granted: a router gives an output VC, or the crossbar, to one only.  *)
IsMatching ==
  /\ \A i \in Ins, o \in Outs : inmatch[i] = o <=> outmatch[o] = i
  /\ \A i \in Ins : inmatch[i] # None => <<i, inmatch[i]>> \in DOMAIN req

(* A wavefront, a maximum matching, and rounds of grants and accepts if    *)
(* there are enough of them, leave no request with both its ends free;     *)
(* other allocators at least grant something.                              *)
Smaller == IF cfg.ins > cfg.outs THEN cfg.outs ELSE cfg.ins

LeavesNothing ==
  phase = "done" =>
    IF cfg.alloc \in Wavefronts \cup {"max_size"}
         \/ (cfg.alloc \in {"islip", "pim"} /\ cfg.iters >= Smaller)
    THEN \A p \in DOMAIN req : ~(FreeIn(p[1]) /\ FreeOut(p[2]))
    ELSE DOMAIN req # {} => \E i \in Ins : ~FreeIn(i)

(* max_size matches as many inputs as can be: as many as cover all requests*)
MaximumMatch ==
  phase = "done" /\ cfg.alloc = "max_size" =>
    \E cover \in SUBSET Ins :
      Cardinality({i \in Ins : ~FreeIn(i)}) =
        Cardinality(cover) + Cardinality({p[2] : p \in {q \in DOMAIN req : q[1] \notin cover}})

(* Where priorities count, a request that is above all others of its input *)
(* for the input, and above all others of its output for the output, is    *)
(* granted, however the two sides rank the rest; a wavefront refuses a     *)
(* request only for one at its input or output that it does not exceed.    *)
Prevails(p) ==
  \A q \in DOMAIN req \ {p} :
    /\ q[1] = p[1] => req[q].in_pri < req[p].in_pri
    /\ q[2] = p[2] => req[q].out_pri < req[p].out_pri

PriorityRespected ==
  phase = "done" =>
    /\ cfg.alloc \in Separable \cup {"select"} =>
         \A p \in DOMAIN req : Prevails(p) => inmatch[p[1]] = p[2]
    /\ cfg.alloc \in Wavefronts =>
         \A p \in DOMAIN req :
           \/ ~FreeIn(p[1]) /\ ~Exceeds(req[p], req[<<p[1], inmatch[p[1]]>>])
           \/ ~FreeOut(p[2]) /\ ~Exceeds(req[p], req[<<outmatch[p[2]], p[2]>>])

(* Among requests of one priority, a request that stays is granted in time.*)
(* Only wavefronts promise it whatever the others do: an output of islip   *)
(* or select that keeps granting to an input that asks now and then, and   *)
(* takes other outputs, never moves its pointer; an input of a separable   *)
(* allocator may prefer one and then another output that refuse it, and    *)
(* whose arbiters serve others in between.                                 *)
WaitBound ==
  CASE cfg.alloc \in Wavefronts          -> Square
    [] cfg.alloc \in Separable           -> 2 * cfg.ins * cfg.outs
    [] OTHER                             -> (cfg.ins + 1) * cfg.outs

FairWait ==
  waited < WaitBound

(* No allocator wastes what it could have granted at once, or grants it to *)
(* a request of less priority.                                             *)
GrantsWellChosen == LeavesNothing /\ MaximumMatch /\ PriorityRespected

(* A pass leaves the allocator's tables in order and its grants a matching.*)
GrantsSound == TypeOK /\ IsMatching
=============================================================================
