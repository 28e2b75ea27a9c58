---------------------------- MODULE BufferStates ----------------------------
(***************************************************************************)
(* What a sender knows of the buffer it sends into (buffer_state.cpp): the *)
(* flits it holds in every VC, which VCs are taken, and the bookkeeping of *)
(* the buffer policy. c is the configuration of the buffer, b its state,   *)
(* VCs count from 0. error is set where the code stops the program.        *)
(***************************************************************************)
EXTENDS Integers, Sequences, FiniteSetsExt

LOCAL INSTANCE SequencesExt

VCsOf(c) == 0 .. c.vcs - 1

Size(c)        == IF c.size < 0 THEN c.vcs * c.vcSize ELSE c.size
PrivateSize(c) == IF c.size <= 0 THEN c.vcSize ELSE c.size \div c.vcs

(* The parts of a shared buffer that are kept for some of the VCs each.    *)
Parts(c) == CASE c.parts < 0 -> c.vcs
              [] c.parts = 0 -> 1
              [] OTHER       -> c.parts
PartSize(c)   == IF c.partSize < 0 THEN Size(c) \div Parts(c) ELSE c.partSize
SharedSize(c) == Size(c) - Parts(c) * PartSize(c)
PartOf(c, v)  == CHOOSE i \in 0 .. Parts(c) - 1 :
                   /\ v >= (i * c.vcs) \div Parts(c)
                   /\ v < ((i + 1) * c.vcs) \div Parts(c)

Limited    == {"limited", "dynamic", "shifting"}
Feedback   == {"feedback", "simplefeedback"}
SharedKind == {"shared"} \cup Limited \cup Feedback

NewBuffer(c) ==
  [occ |-> [v \in VCsOf(c) |-> 0], taken |-> {}, tailSent |-> {},
   part |-> [i \in 0 .. Parts(c) - 1 |-> 0], shared |-> 0,
   reserved |-> [v \in VCsOf(c) |-> 0],
   active |-> 0, held |-> IF c.policy = "limited" /\ c.held >= 0 THEN c.held ELSE Size(c),
   limit |-> [v \in VCsOf(c) |-> Size(c)], rtt |-> [v \in VCsOf(c) |-> -1],
   sentAt |-> [v \in VCsOf(c) |-> <<>>], pending |-> [v \in VCsOf(c) |-> 0],
   error |-> FALSE]

Occupancy(b) == MapThenSumSet(LAMBDA v : b.occ[v], DOMAIN b.occ)

-----------------------------------------------------------------------------
(* The slots of a shared buffer. *)

(* FAULT: the slot beyond the part is compared after one too many. *)
ProcessFreeSlotLate(c, b, v) ==
  LET i == PartOf(c, v)
      left == b.part[i] - 1
      extra == left > PartSize(c)
  IN  [b EXCEPT !.part[i] = left,
                !.shared = IF extra THEN @ - 1 ELSE @,
                !.error = @ \/ left < 0 \/ (extra /\ b.shared = 0)]

ProcessFreeSlot(c, b, v) ==
  LET i == PartOf(c, v)
      left == b.part[i] - 1
      extra == left >= PartSize(c)
  IN  [b EXCEPT !.part[i] = left,
                !.shared = IF extra THEN @ - 1 ELSE @,
                !.error = @ \/ left < 0 \/ (extra /\ b.shared = 0)]

(* A flit takes the slot its VC holds in reserve, or a new one; the tail   *)
(* gives back what is still reserved.                                      *)
SharedSending(c, b, f) ==
  LET v == f.vc
      i == PartOf(c, v)
      took == IF b.reserved[v] > 0 THEN [b EXCEPT !.reserved[v] = @ - 1]
              ELSE [b EXCEPT !.part[i] = @ + 1,
                             !.shared = IF b.part[i] >= PartSize(c) THEN @ + 1 ELSE @]
      over == [took EXCEPT !.error = @ \/ took.shared > SharedSize(c)]
  IN  IF f.tail
      THEN FoldLeft(LAMBDA x, n : ProcessFreeSlot(c, x, v),
                    [over EXCEPT !.reserved[v] = 0], [n \in 1 .. over.reserved[v] |-> n])
      ELSE over

(* A VC in the middle of a packet keeps the last slot it used. *)
SharedFree(c, b, v) ==
  IF v \in b.taken /\ b.occ[v] = 0 THEN [b EXCEPT !.reserved[v] = @ + 1]
  ELSE ProcessFreeSlot(c, b, v)

SharedFull(c, b, v) ==
  /\ b.reserved[v] = 0
  /\ b.part[PartOf(c, v)] >= PartSize(c)
  /\ b.shared >= SharedSize(c)

-----------------------------------------------------------------------------
(* The bound on the slots of one VC, by how many VCs are active. *)

HeldSlots(c, b) ==
  CASE c.policy = "dynamic" /\ b.active > 0 -> Size(c) \div b.active
    [] c.policy = "shifting" /\ b.active > 0 ->
         Size(c) \div 2 ^ (CHOOSE k \in 0 .. b.active :
                             /\ 2 ^ k > b.active - 1
                             /\ k > 0 => 2 ^ (k - 1) <= b.active - 1)
    [] OTHER -> b.held

LimitedTake(c, b) ==
  LET more == [b EXCEPT !.active = @ + 1]
      held == HeldSlots(c, more)
  IN  [more EXCEPT !.held = held, !.error = @ \/ more.active > c.vcs \/ held = 0]

LimitedSending(c, b, f) ==
  LET sent == SharedSending(c, b, f)
      less == [sent EXCEPT !.active = @ - 1]
  IN  IF f.tail THEN [less EXCEPT !.held = HeldSlots(c, less), !.error = @ \/ less.active < 0]
      ELSE sent

-----------------------------------------------------------------------------
(* The bound on the slots of one VC, by how long credits take to return.   *)

ComputeRTT(c, b, v, last) ==
  IF b.rtt[v] < 0 THEN last
  ELSE ((b.rtt[v] * (2 ^ c.aging)) + last - b.rtt[v]) \div (2 ^ c.aging)

ComputeLimit(c, rtt) == Max({2 * c.minLatency - rtt + c.offset, 1})

ComputeMaxSlots(c, b, v, t) ==
  IF b.sentAt[v] = <<>> THEN b.limit[v]
  ELSE Min({b.limit[v], ComputeLimit(c, ComputeRTT(c, b, v, t - Head(b.sentAt[v])))})

(* simplefeedback times one flit at a time, the probe. *)
IsProbe(c, b, v) == c.policy = "feedback" \/ b.sentAt[v] = <<>>

FeedbackSending(c, b, f, t) ==
  LET v == f.vc
      sent == SharedSending(c, b, f)
  IN  IF IsProbe(c, b, v)
      THEN [sent EXCEPT !.sentAt[v] = Append(@, t), !.pending[v] = b.occ[v] - 1]
      ELSE sent

ProbeReturns(c, b, v) == c.policy = "feedback" \/ (b.sentAt[v] # <<>> /\ b.pending[v] = 0)

FeedbackFree(c, b, v, t) ==
  LET freed == SharedFree(c, b, v)
  IN  IF ~ProbeReturns(c, b, v)
      THEN [freed EXCEPT !.pending[v] = IF @ > 0 THEN @ - 1 ELSE @]
      ELSE LET rtt == ComputeRTT(c, b, v, t - Head(b.sentAt[v]))
           IN  [freed EXCEPT !.sentAt[v] = Tail(@), !.rtt[v] = rtt,
                             !.limit[v] = ComputeLimit(c, rtt)]

-----------------------------------------------------------------------------
(* BufferState's own operations, which call those of the policy. *)

IsAvailableFor(b, v) == v \notin b.taken

IsFullFor(c, b, v, t) ==
  CASE c.policy = "private" -> b.occ[v] >= PrivateSize(c)
    [] c.policy = "shared"  -> SharedFull(c, b, v)
    [] c.policy \in Limited -> SharedFull(c, b, v) \/ b.occ[v] >= b.held
    [] OTHER -> SharedFull(c, b, v) \/ b.occ[v] >= ComputeMaxSlots(c, b, v, t)

TakeBuffer(c, b, v) ==
  LET took == [b EXCEPT !.taken = @ \cup {v}, !.tailSent = @ \ {v},
                        !.error = @ \/ v \in b.taken]
  IN  IF c.policy \in Limited THEN LimitedTake(c, took) ELSE took

SendingFlit(c, b, f, t) ==
  LET v == f.vc
      more == [b EXCEPT !.occ[v] = @ + 1]
      over == [more EXCEPT !.error = @ \/ Occupancy(more) > Size(c)]
      sent == CASE c.policy = "private" ->
                     [over EXCEPT !.error = @ \/ over.occ[v] > PrivateSize(c)]
                [] c.policy = "shared"   -> SharedSending(c, over, f)
                [] c.policy \in Limited  -> LimitedSending(c, over, f)
                [] c.policy \in Feedback -> FeedbackSending(c, over, f, t)
  IN  IF ~f.tail THEN sent
      ELSE [sent EXCEPT !.tailSent = @ \cup {v},
                        !.taken = IF c.waitForTail THEN @ ELSE @ \ {v}]

ProcessCredit(c, b, v, t) ==
  LET less == [b EXCEPT !.occ[v] = @ - 1,
                        !.error = @ \/ (c.waitForTail /\ v \notin b.taken) \/ b.occ[v] = 0]
      free == IF c.waitForTail /\ less.occ[v] = 0 /\ v \in b.tailSent
              THEN [less EXCEPT !.taken = @ \ {v}] ELSE less
  IN  CASE c.policy = "private"  -> free
        [] c.policy \in Feedback -> FeedbackFree(c, free, v, t)
        [] OTHER                 -> SharedFree(c, free, v)

=============================================================================
