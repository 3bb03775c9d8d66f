--------------------------- MODULE FlushPipelineMC ---------------------------
(* Instances of FlushPipeline for TLC: symmetry sets, bounds and budgets.  *)
EXTENDS FlushDelivery, TLC

CallerSymmetry == Permutations(Callers)
WorkerSymmetry == Permutations(Workers)
Symmetry == CallerSymmetry \cup WorkerSymmetry

Items(e, m) == [k \in Kind |-> IF k = "events" THEN e ELSE m]
Three == Items(3, 0)
TwoOne == Items(2, 1)
Two == Items(2, 0)

NoBudget == [c \in Cost |-> 0]

(* One failed send and nothing else: what concurrency alone can do.        *)
OneFailure == [NoBudget EXCEPT !.failures = 1]

(* A failed send, with a crash or with a store fault on top of it.         *)
CrashOnce == [OneFailure EXCEPT !.crashes = 1]
FaultOnce == [OneFailure EXCEPT !.faults = 1]

(* A failed send, two clear_buffer calls that may overlap, and a stop      *)
(* followed by a start in the same process.                                *)
LifecycleBudget == [OneFailure EXCEPT !.stops = 1, !.restarts = 1, !.clears = 2]
RestartBudget == [OneFailure EXCEPT !.stops = 1, !.restarts = 1]
=============================================================================
