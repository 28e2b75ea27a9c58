---------------------------- MODULE MCAllocators ----------------------------
(* Small instances of every allocator, with the arbiters separable ones    *)
(* are made of: one priority where waiting is counted; elsewhere two at    *)
(* each side, so four kinds of request.                                    *)
EXTENDS Allocators

Size(a, n, m) ==
  [alloc |-> a, arb |-> "round_robin", ins |-> n, outs |-> m, iters |-> 1,
   load |-> n * m, pris |-> {0}, stay |-> "one"]

Iterating(c, n)   == [c EXCEPT !.iters = n]
Prioritized(c)    == [c EXCEPT !.pris = {0, 1}]
Patient(c)        == [c EXCEPT !.stay = "all"]
With(arb, c)      == [c EXCEPT !.arb = arb]
Loaded(c, n)      == [c EXCEPT !.load = n]

Iterative ==
  { Patient(Size("islip", 2, 3)), Patient(Iterating(Size("islip", 3, 2), 2)),
    Iterating(Size("pim", 3, 2), 2),
    Patient(Size("select", 2, 3)), Prioritized(Size("select", 2, 2)) }

Diagonal ==
  { Size("wavefront", 3, 3), Prioritized(Loaded(Size("wavefront", 2, 3), 3)),
    Size("rr_wavefront", 3, 3), Prioritized(Loaded(Size("rr_wavefront", 3, 2), 3)) }

TwoSided ==
  { Patient(Size("separable_input_first", 2, 3)),
    Prioritized(Size("separable_input_first", 2, 2)),
    Patient(With("matrix", Size("separable_input_first", 3, 2))),
    Patient(With("tree", Loaded(Size("separable_input_first", 4, 2), 2))),
    Patient(Size("separable_output_first", 3, 2)),
    Patient(With("matrix", Size("separable_output_first", 2, 3))),
    With("matrix", Prioritized(Loaded(Size("separable_output_first", 2, 2), 3))) }

MCConfigs ==
  Iterative \cup Diagonal \cup TwoSided \cup {Size("loa", 3, 2), Size("max_size", 3, 3)}

(* A second pass of select; more outputs than inputs for max_size. *)
SelectTwice    == {Iterating(Size("select", 2, 2), 2)}
WideMaxSize    == {Size("max_size", 2, 3)}
=============================================================================
