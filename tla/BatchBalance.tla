---------------------------- MODULE BatchBalance ----------------------------
(***************************************************************************)
(* How a batch is spread over the data parallel ranks and over micro-      *)
(* batches: verl/utils/seqlen_balancing.py.  Rows are numbered from 1.  A  *)
(* partition is a set of rows until the order of its rows matters.         *)
(***************************************************************************)
EXTENDS Integers, SequencesExt

\* Attention over l tokens, calibrated for a 7B model.
Workload(l) == 24576 * l + l * l

\* The sum of the numbers that a sequence holds for the rows of a set.
Total(s, rows) ==
  LET sum[n \in 0..Len(s)] ==
        IF n = 0 THEN 0 ELSE sum[n - 1] + (IF n \in rows THEN s[n] ELSE 0)
  IN sum[Len(s)]

CeilDiv(a, b) == (a + b - 1) \div b

\* A sequence as it is, evaluated once by TLC.
Evaluated(s) == SubSeq(s, 1, Len(s))

\* The elements of a set in the order of a relation: each has as many before
\* it as the relation says.
Sorted(S, before) ==
  Evaluated([n \in 1..Cardinality(S) |->
    CHOOSE x \in S : Cardinality({y \in S : <<y, x>> \in before}) = n - 1])

Ascending(S) == Sorted(S, {p \in S \X S : p[1] < p[2]})

\* sorted(key=lambda x: (loads[x], x))
ByLoad(S, loads) ==
  Sorted(S, {p \in S \X S : \/ loads[p[1]] < loads[p[2]]
                            \/ loads[p[1]] = loads[p[2]] /\ p[1] < p[2]})

-----------------------------------------------------------------------------
\* The Set of karmarkar_karp: the rows put together so far, the one that was
\* put first and their load.
NoRows == [sum |-> 0, rows |-> {}, head |-> 0]
OneRow(loads, i) == [sum |-> loads[i], rows |-> {i}, head |-> i]

\* Two sets that hold rows hold different ones: neither is Heavier only if both
\* are empty.
Heavier(a, b) ==
  \/ a.sum > b.sum
  \/ a.sum = b.sum /\ Cardinality(a.rows) > Cardinality(b.rows)
  \/ /\ a.sum = b.sum /\ Cardinality(a.rows) = Cardinality(b.rows)
     /\ a.head > b.head

\* A State is a sequence of k sets, the heaviest first; the sort is stable.
State(sets) ==
  LET D == DOMAIN sets
      order == Sorted(D, {p \in D \X D :
                 \/ Heavier(sets[p[1]], sets[p[2]])
                 \/ ~Heavier(sets[p[2]], sets[p[1]]) /\ p[1] < p[2]})
  IN Evaluated([i \in D |-> sets[order[i]]])

Spread(state) == state[1].sum - state[Len(state)].sum

\* The heap pops the state of the largest spread, then of the largest set.
Before(s, t) ==
  \/ Spread(s) > Spread(t)
  \/ Spread(s) = Spread(t) /\ Heavier(s[1], t[1])

Popped(heap) == CHOOSE s \in heap : \A t \in heap \ {s} : Before(s, t)

Joined(a, b) ==
  [sum  |-> a.sum + b.sum,
   rows |-> a.rows \cup b.rows,
   head |-> IF a.rows = {} THEN b.head ELSE a.head]

\* The heaviest set of one state joins the lightest of the other.
Merge(s, t) ==
  State([i \in DOMAIN s |-> Joined(s[i], t[Len(s) + 1 - i])])

MergeTwo(heap) ==
  LET s == Popped(heap)
      t == Popped(heap \ {s})
  IN (heap \ {s, t}) \cup {Merge(s, t)}

\* Mutant: the rows are not sorted by their loads first.
InitialHeap_Unsorted(loads, k, equalSize) ==
  IF equalSize
  THEN {State([i \in 1..k |-> OneRow(loads, o * k + i)]) :
          o \in 0..(Len(loads) \div k - 1)}
  ELSE {State([i \in 1..k |-> IF i = 1 THEN OneRow(loads, r) ELSE NoRows]) :
          r \in DOMAIN loads}

\* The states the heap starts from: one for each k consecutive rows of the
\* sorted loads when the partitions must be of equal size, else one per row.
InitialHeap(loads, k, equalSize) ==
  LET rows == ByLoad(DOMAIN loads, loads)
  IN IF equalSize
     THEN {State([i \in 1..k |-> OneRow(loads, rows[o * k + i])]) :
             o \in 0..(Len(loads) \div k - 1)}
     ELSE {State([i \in 1..k |-> IF i = 1 THEN OneRow(loads, r) ELSE NoRows]) :
             r \in DOMAIN loads}

\* karmarkar_karp: two states are merged until one is left.
FinalState(start) ==
  LET last == Cardinality(start) - 1
      heap[n \in 0..last] == IF n = 0 THEN start ELSE MergeTwo(heap[n - 1])
  IN CHOOSE s \in heap[last] : TRUE

BalancedPartitions(loads, k, equalSize) ==
  LET final == FinalState(InitialHeap(loads, k, equalSize))
  IN [i \in 1..k |-> final[i].rows]

\* get_group_balanced_partitions: neighbouring rows of one uid are a group.
Starts(uids) == {i \in DOMAIN uids : i = 1 \/ uids[i] # uids[i - 1]}
GroupOf(uids, i) == Cardinality({j \in Starts(uids) : j <= i})

GroupPartitions(loads, uids, k) ==
  LET group(g) == {i \in DOMAIN uids : GroupOf(uids, i) = g}
      parts == BalancedPartitions(
                 [g \in 1..Cardinality(Starts(uids)) |-> Total(loads, group(g))],
                 k, TRUE)
  IN [p \in 1..k |->
        Ascending({i \in DOMAIN uids : GroupOf(uids, i) \in parts[p]})]

-----------------------------------------------------------------------------
\* Every other element, from the first or from the second.
Odds(s)  == [i \in 1..((Len(s) + 1) \div 2) |-> s[2 * i - 1]]
Evens(s) == [i \in 1..(Len(s) \div 2) |-> s[2 * i]]

\* Short rows at both ends of a rank's share.
ShortAtEnds(part, loads) ==
  LET s == ByLoad(part, loads) IN Odds(s) \o Reverse(Evens(s))

\* _balance_batch: the new order of the rows, rank after rank.
BalancedOrder(lens, uids, ranks, prefixGrouper) ==
  LET loads == [i \in DOMAIN lens |-> Workload(lens[i])]
      parts == BalancedPartitions(loads, ranks, TRUE)
  IN FlattenSeq(IF prefixGrouper
                THEN GroupPartitions(loads, uids, ranks)
                ELSE [r \in 1..ranks |-> ShortAtEnds(parts[r], loads)])

-----------------------------------------------------------------------------
\* How many micro-batches one rank asks for; all ranks take the most any asks
\* for, as an all_reduce tells them.
MicroBatchesWanted(lens, maxTokens) ==
  LET n == CeilDiv(Total(lens, DOMAIN lens), maxTokens)
  IN IF n < Len(lens) THEN n ELSE Len(lens)

\* rearrange_micro_batches: n micro-batches, small ones at both ends.
MicroBatches(lens, n) ==
  LET loads == [i \in DOMAIN lens |-> Workload(lens[i])]
      parts == BalancedPartitions(loads, n, FALSE)
      first(p) == IF parts[p] = {} THEN 0 ELSE Ascending(parts[p])[1]
      order == Sorted(1..n, {p \in (1..n) \X (1..n) :
                 \/ Total(loads, parts[p[1]]) > Total(loads, parts[p[2]])
                 \/ /\ Total(loads, parts[p[1]]) = Total(loads, parts[p[2]])
                    /\ \/ first(p[1]) > first(p[2])
                       \/ first(p[1]) = first(p[2]) /\ p[1] < p[2]})
      heaviestFirst == [m \in 1..n |-> Ascending(parts[order[m]])]
  IN Reverse(Odds(heaviestFirst)) \o Evens(heaviestFirst)

\* DataProto.split: n rows each, the last ones fewer.
Split(rows, n) ==
  [m \in 1..CeilDiv(Len(rows), n) |->
     SubSeq(rows, (m - 1) * n + 1, IF m * n < Len(rows) THEN m * n
                                                        ELSE Len(rows))]

\* get_reverse_idx: where each row went.
ReverseIdx(order) ==
  [row \in DOMAIN order |-> CHOOSE i \in DOMAIN order : order[i] = row]

\* Mutant: the outputs are moved on instead of back.
Restore_Onward(outputs, microBatches) ==
  LET order == FlattenSeq(microBatches)
  IN [row \in DOMAIN outputs |-> outputs[order[row]]]

\* restore_dynamic_batch: outputs in the order of the micro-batches' rows,
\* back in the order of the batch.
Restore(outputs, microBatches) ==
  LET back == ReverseIdx(FlattenSeq(microBatches))
  IN [row \in DOMAIN outputs |-> outputs[back[row]]]
=============================================================================
