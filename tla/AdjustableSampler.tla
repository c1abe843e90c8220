------------------------- MODULE AdjustableSampler -------------------------
(***************************************************************************)
(* The sampler that picks the size class of the next death                 *)
(* (AdjustableSampler of fleetbench/tcmalloc/empirical.h), used as         *)
(* EmpiricalData uses it, as death_sampler_: DoBirth fills the heap, then  *)
(* RecordNext records births and deaths.  EmpiricalData.tla lets the class *)
(* of a death be any that has objects; here it is what the sampler draws.  *)
(*                                                                         *)
(* A weight is a double.  Here it is an integer number of units, and a     *)
(* draw x, a whole number of the same units, stands for the doubles of     *)
(* [0, W): with even rates an odd x lies strictly inside an interval of a  *)
(* class and an even one, as 0, may lie on its edge.  A double has a       *)
(* mantissa of so many bits; a sum or difference that does not fit is      *)
(* rounded to the nearest number that does.                                *)
(***************************************************************************)
EXTENDS Integers, Sequences, FiniteSetsExt

CONSTANTS
  NumClasses,   \* weights.size(); a class is a number 0 .. NumClasses - 1
  AllocRate,    \* weights[i].alloc_rate
  DeathRate,    \* state_[i].death_rate
  Mantissa,     \* the bits of the mantissa of a weight
  MaxObjects    \* bound: the objects of a class

Classes == 0 .. NumClasses - 1

VARIABLES
  phase, \* fill: the constructor; record: RecordNext; aborted: a CHECK failed;
         \* undefined: state_ was read out of range
  tree,  \* death_sampler_.tree_
  count  \* state_[i].objs.size()

vars == <<phase, tree, count>>

-----------------------------------------------------------------------------
(***************************************************************************)
(* The tree: node i has the children 2i + 1 and 2i + 2, the leaves are     *)
(* the last n_ nodes.                                                      *)
(***************************************************************************)
NextPowerOfTwo(x) ==
  LET power[n \in 1 .. 2 * x] == IF n < x THEN power[n * 2] ELSE n
  IN  power[1]

n_ == NextPowerOfTwo(NumClasses)
Nodes == 0 .. 2 * n_ - 2
Leaf(c) == c + n_ - 1
IsLeaf(i) == i >= n_ - 1
Parent(i) == (i - 1) \div 2

\* The nodes the loop of SetWeight visits from leaf i up to the root.
Ancestors(i) ==
  LET above[j \in Nodes] == IF j = 0 THEN {}
                            ELSE {Parent(j)} \cup above[Parent(j)]
  IN  above[i]

\* The sum of two doubles: v to the nearest multiple of 2^k, ties to even.
Rounded(v) ==
  LET size == IF v < 0 THEN -v ELSE v
      spare[k \in Nat] == IF size < 2 ^ (Mantissa + k) THEN 2 ^ k
                          ELSE spare[k + 1]
      unit == spare[0]
      down == size \div unit
      rest == size % unit
      up   == \/ 2 * rest > unit
              \/ 2 * rest = unit /\ down % 2 = 1
      near == unit * (IF up THEN down + 1 ELSE down)
  IN  IF v < 0 THEN -near ELSE near

\* The leaf is set and every node above it recomputed, from the bottom up.
SetWeight(t, c, x) ==
  LET new[i \in Nodes] ==
        IF i = Leaf(c) THEN x
        ELSE IF i \in Ancestors(Leaf(c))
             THEN Rounded(new[2 * i + 1] + new[2 * i + 2])
        ELSE t[i]
  IN  new

AdjustWeight(t, c, delta) == SetWeight(t, c, Rounded(t[Leaf(c)] + delta))

TotalWeight(t) == t[0]

\* Mutant: x is not shifted down when the walk goes right.
SampleWeightNotShifted(t, draw) ==
  LET walk[i \in Nodes, x \in Nat] ==
        IF IsLeaf(i) THEN i - (n_ - 1)
        ELSE IF x <= t[2 * i + 1] THEN walk[2 * i + 1, x]
        ELSE walk[2 * i + 2, x]
  IN  walk[0, draw]

\* The walk from the root to a leaf, left when x <= left.
SampleWeight(t, draw) ==
  LET walk[i \in Nodes, x \in Int] ==
        IF IsLeaf(i) THEN i - (n_ - 1)
        ELSE IF x <= t[2 * i + 1] THEN walk[2 * i + 1, x]
        ELSE walk[2 * i + 2, Rounded(x - t[2 * i + 1])]
  IN  walk[0, draw]

\* The doubles uniform_real_distribution(0, tree_[0]) may return.
Draws(t) == {x \in 0 .. TotalWeight(t) - 1 : Rounded(x) = x}

-----------------------------------------------------------------------------
(***************************************************************************)
(* The use in EmpiricalData.  live_dist of the constructor may return any  *)
(* class, the discrete_distribution birth_sampler_ one that has a rate.    *)
(***************************************************************************)
birth_sampler_ == {c \in Classes : AllocRate[c] > 0}

total_birth_rate_ ==
  LET upTo[c \in Classes] ==
        Rounded((IF c = 0 THEN 0 ELSE upTo[c - 1]) + AllocRate[c])
  IN  upTo[NumClasses - 1]

Init ==
  /\ phase = "fill"
  /\ tree = [i \in Nodes |-> 0]
  /\ count = [c \in Classes |-> 0]

\* Common to DoBirth and RecordBirth: one more object, and its death rate.
Born(c) ==
  /\ count[c] < MaxObjects
  /\ tree' = AdjustWeight(tree, c, DeathRate[c])
  /\ count' = [count EXCEPT ![c] = @ + 1]

DoBirth(c) == phase = "fill" /\ Born(c) /\ UNCHANGED phase

EndOfFill ==
  /\ phase = "fill" /\ \E c \in Classes : count[c] > 0
  /\ phase' = "record" /\ UNCHANGED <<tree, count>>

RecordBirth(c) == phase = "record" /\ Born(c) /\ UNCHANGED phase

\* CHECK(!s.objs.empty()) ends the program.
RecordDeath(x) ==
  LET c == SampleWeight(tree, x)
      fault == IF c \notin Classes THEN {"undefined"}
               ELSE IF count[c] = 0 THEN {"aborted"} ELSE {}
  IN
  /\ phase = "record"
  /\ \/ phase' \in fault /\ UNCHANGED <<tree, count>>
     \/ /\ fault = {}
        /\ tree' = AdjustWeight(tree, c, -DeathRate[c])
        /\ count' = [count EXCEPT ![c] = @ - 1]
        /\ UNCHANGED phase

\* which(rng_) < B: a death only when B + T, rounded, is more than B.
RecordNext ==
  \/ \E c \in birth_sampler_ : RecordBirth(c)
  \/ /\ Rounded(total_birth_rate_ + TotalWeight(tree)) > total_birth_rate_
     /\ \E x \in Draws(tree) : RecordDeath(x)

Next == (\E c \in Classes : DoBirth(c)) \/ EndOfFill \/ RecordNext

Spec == Init /\ [][Next]_vars

-----------------------------------------------------------------------------
\* The variables are of their types; a class never has less than no object.
TypeOK ==
  /\ phase \in {"fill", "record", "aborted", "undefined"}
  /\ tree \in [Nodes -> Int]
  /\ count \in [Classes -> 0 .. MaxObjects]

Under(i) == {c \in Classes : i \in {Leaf(c)} \cup Ancestors(Leaf(c))}
RateBelow(i) == MapThenSumSet(LAMBDA c : count[c] * DeathRate[c], Under(i))

(***************************************************************************)
(* The invariant stated at tree_ in empirical.h: through any sequence of   *)
(* SetWeight calls a node weighs what the objects of the classes below it  *)
(* weigh together, so the rate of a class goes down as often as up.  It    *)
(* holds as long as no sum rounds.                                         *)
(***************************************************************************)
TreeSums == \A i \in Nodes : tree[i] = RateBelow(i)

(***************************************************************************)
(* What is left of it when sums round: SetWeight leaves no inner node that *)
(* is not the rounded sum of its children.                                 *)
(***************************************************************************)
NodesUpToDate ==
  \A i \in Nodes :
    ~IsLeaf(i) => tree[i] = Rounded(tree[2 * i + 1] + tree[2 * i + 2])

\* Rounding has left its trace: an inner node is not the sum of its children,
\* or a class without objects has a weight.
InexactNode ==
  \E i \in Nodes : ~IsLeaf(i) /\ tree[i] # tree[2 * i + 1] + tree[2 * i + 2]
Residue == \E c \in Classes : count[c] = 0 /\ tree[Leaf(c)] # 0

Before(c) == MapThenSumSet(LAMBDA d : tree[Leaf(d)], 0 .. c - 1)

(***************************************************************************)
(* What SampleWeight promises: as long as no sum has rounded, the draws    *)
(* that end in a class are those of an interval as long as its weight, in  *)
(* the order of the classes, and a draw of 0 ends in class 0.  So a class  *)
(* without weight is not drawn, but for class 0 by a draw of 0, nor a leaf *)
(* past the last class, at which state_ would be read out of range.        *)
(***************************************************************************)
DrawsInProportion ==
  TreeSums =>
    \A x \in Draws(tree) :
      LET c == SampleWeight(tree, x) IN
      /\ c \in Classes
      /\ IF x = 0 THEN c = 0
         ELSE Before(c) < x /\ x <= Before(c) + tree[Leaf(c)]

(***************************************************************************)
(* The CHECK of RecordDeath, that a death is only drawn for a class with a *)
(* live object, can fail, and state_ be read out of range.  The only       *)
(* causes: a draw of 0 when class 0 has no object, a weight that rounding  *)
(* has left to a class without objects, and inner nodes that are rounded   *)
(* sums.  The last is the only one of a read out of range.                 *)
(***************************************************************************)
FaultsOnlyIf ==
  /\ phase = "aborted" => count[0] = 0 \/ Residue \/ InexactNode
  /\ phase = "undefined" => InexactNode
=============================================================================
