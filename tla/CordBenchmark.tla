---------------------------- MODULE CordBenchmark ----------------------------
(***************************************************************************)
(* The cord benchmarks (stl/cord_benchmark.cc): BM_Cord runs the setup of  *)
(* a benchmark once and its code, which gets the cords of the setup by     *)
(* reference, once an iteration.  The operations are those of              *)
(* CordPrograms, one step each; a cord is its length, or Moved.            *)
(***************************************************************************)
EXTENDS Integers, Sequences, FiniteSets, TLC

CONSTANTS
  GetBenchmarks, \* the benchmarks, of CordPrograms
  Iterations     \* bound: calls of benchmark_code

Moved == -1

VARIABLES
  bench,     \* the index in GetBenchmarks
  phase,     \* "setup", "code" or "done"
  pc,
  cord,      \* the local cords: number -> length
  cords,     \* the vector benchmark_setup returned
  str,       \* the capacity of the string cords are copied to
  iteration

vars == <<bench, phase, pc, cord, cords, str, iteration>>

Program == IF phase = "setup" THEN GetBenchmarks[bench].setup ELSE GetBenchmarks[bench].code

\* The setup declares its cords, the code its own; both end with them.
SetupCords(b) == [i \in 0..(GetBenchmarks[b].cords - 1) |-> 0]

Init ==
  /\ bench \in DOMAIN GetBenchmarks
  /\ phase = "setup" /\ pc = 1
  /\ cord = SetupCords(bench)
  /\ cords = << >> /\ str = 0 /\ iteration = 0

-----------------------------------------------------------------------------
At(op) == phase # "done" /\ pc <= Len(Program) /\ Program[pc][1] = op
target == Program[pc][2]
operand == Program[pc][3]

\* Writes a cord; a cord is made by its first write.
Write(written) ==
  /\ cord' = written @@ cord
  /\ pc' = pc + 1
  /\ UNCHANGED <<bench, phase, cords, str, iteration>>

FromString == At("FromString") /\ Write(target :> operand)

FromCords == At("FromCords") /\ Write(target :> cords[operand])

Copy == At("Copy") /\ Write(target :> cord[operand])

Move == At("Move") /\ Write((target :> cord[operand]) @@ (operand :> Moved))

Grow == At("Grow") /\ Write(target :> cord[target] + operand)

\* Mutant: the external string is not put before the cord.
ExternalLost == At("External") /\ Write(target :> cord[target])

External == At("External") /\ Write(target :> cord[target] + operand)

RemovePrefix == At("RemovePrefix") /\ Write(target :> cord[target] - operand)

\* Changes neither cord.
Compare == At("Compare") /\ Write(<< >>)

\* CopyCordToString makes the string as long as the cord.
CopyCord ==
  /\ At("CopyCord")
  /\ str' = IF cord[target] > str THEN cord[target] ELSE str
  /\ pc' = pc + 1
  /\ UNCHANGED <<bench, phase, cord, cords, iteration>>

\* The code declares the string; its local cords of the last call are gone.
StartCode(b) ==
  /\ phase' = "code" /\ pc' = 1 /\ cord' = << >>
  /\ str' = GetBenchmarks[b].str

\* auto cords = benchmark_setup()
ReturnCords ==
  /\ phase = "setup" /\ pc > Len(Program)
  /\ cords' = cord
  /\ StartCode(bench)
  /\ UNCHANGED <<bench, iteration>>

\* for (auto _ : state) benchmark_code(cords)
EndOfIteration ==
  /\ phase = "code" /\ pc > Len(Program)
  /\ iteration' = iteration + 1
  /\ IF iteration' < Iterations THEN StartCode(bench)
     ELSE phase' = "done" /\ UNCHANGED <<pc, cord, str>>
  /\ UNCHANGED <<bench, cords>>

Next ==
  \/ FromString \/ FromCords \/ Copy \/ Move \/ Grow \/ External \/ RemovePrefix
  \/ Compare \/ CopyCord \/ ReturnCords \/ EndOfIteration

Spec == Init /\ [][Next]_vars

-----------------------------------------------------------------------------
\* The variables are of their types.
TypeOK ==
  /\ bench \in DOMAIN GetBenchmarks
  /\ phase \in {"setup", "code", "done"}
  /\ pc \in 1..(Len(Program) + 1)
  /\ \A c \in DOMAIN cord : cord[c] \in Nat \union {Moved}
  /\ iteration \in 0..Iterations

Running == phase # "done" /\ pc <= Len(Program)

\* The cords the next operation reads.
Uses ==
  CASE Program[pc][1] \in {"Copy", "Move"} -> {operand}
    [] Program[pc][1] \in {"FromString", "FromCords"} -> {}
    [] OTHER -> {target}

\* generated_cord_benchmarks.cc: a cord that was moved from is not read, copied
\* or appended to before it is assigned again, however far apart the generator
\* put the two.
NoUseAfterMove == Running => \A c \in Uses : c \in DOMAIN cord /\ cord[c] # Moved

\* generated_cord_benchmarks.cc: what RemovePrefix takes off, the cord has
\* (absl::Cord::RemovePrefix checks it and aborts).
PrefixIsThere == Running /\ Program[pc][1] = "RemovePrefix" => operand <= cord[target]

\* generated_cord_benchmarks.cc: the code uses no cord of the setup that the
\* setup did not return (a std::vector does not check).
CordsInRange ==
  Running /\ Program[pc][1] \in {"FromCords", "Compare"} => operand \in DOMAIN cords

\* generated_cord_benchmarks.cc:264 and its like: the string is as long as the
\* longest cord copied to it, so that CopyCord measures copying and never an
\* allocation.
CopyFits == Running /\ Program[pc][1] = "CopyCord" => cord[target] <= str
==============================================================================
