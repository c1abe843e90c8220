---------------------------- MODULE RunLifecycle ----------------------------
(***************************************************************************)
(* What the parallel runner promises about the runs of a trial, without    *)
(* threads, queues, locks or flags: a run that is issued waits, starts on  *)
(* CPUs that no other run is using, finishes once, and its result is       *)
(* settled once (recorded, or logged as failed).  A trial is over only     *)
(* when every run issued in it is settled; one that lost a run never is.   *)
(***************************************************************************)
EXTENDS Naturals

CONSTANT Cpus

VARIABLES
  issued,    \* how many runs were issued in this trial, and the next id
  waiting,   \* the ids of the runs that have not started
  running,   \* the runs being executed, with the CPUs they may use
  finished,  \* the ids of the runs whose result nobody has looked at
  settled,   \* the ids of the runs whose result was taken
  lost       \* the ids of the runs that ended without a result

lifeVars == <<issued, waiting, running, finished, settled, lost>>

LifeInit ==
  /\ issued = 0
  /\ waiting = {} /\ running = {} /\ finished = {} /\ settled = {} /\ lost = {}

Issue ==
  /\ waiting' = waiting \cup {issued}
  /\ issued' = issued + 1
  /\ UNCHANGED <<running, finished, settled, lost>>

Start(i, S) ==
  /\ \A e \in running : e.cpus \cap S = {}
  /\ waiting' = waiting \ {i}
  /\ running' = running \cup {[run |-> i, cpus |-> S]}
  /\ UNCHANGED <<issued, finished, settled, lost>>

Finish(e) ==
  /\ running' = running \ {e}
  /\ finished' = finished \cup {e.run}
  /\ UNCHANGED <<issued, waiting, settled, lost>>

Abort(e) ==
  /\ running' = running \ {e}
  /\ lost' = lost \cup {e.run}
  /\ UNCHANGED <<issued, waiting, finished, settled>>

Settle(i) ==
  /\ finished' = finished \ {i}
  /\ settled' = settled \cup {i}
  /\ UNCHANGED <<issued, waiting, running, lost>>

NewTrial ==
  /\ waiting = {} /\ running = {} /\ finished = {} /\ lost = {}
  /\ issued' = 0 /\ settled' = {}
  /\ UNCHANGED <<waiting, running, finished, lost>>

LifeNext ==
  \/ Issue
  \/ \E i \in waiting, S \in (SUBSET Cpus) \ {{}} : Start(i, S)
  \/ \E e \in running : Finish(e) \/ Abort(e)
  \/ \E i \in finished : Settle(i)
  \/ NewTrial

LifeSpec == LifeInit /\ [][LifeNext]_lifeVars
=============================================================================
