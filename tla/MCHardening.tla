------------------------------ MODULE MCHardening -----------------------------
(* Small instances of HardeningSystem for TLC.                              *)
EXTENDS HardeningInvariant, TLC

CONSTANTS a1, a2, c1, c2, k1, k2

OneApp     == {a1}
TwoApps    == {a1, a2}
OneClient  == {c1}
TwoClients == {c1, c2}
TwoKeys    == {k1, k2}

(* Uploads of different packages.                                           *)
DistinctKeys == [a \in Apps |-> IF a = a1 THEN k1 ELSE k2]

(* Uploads of the same package.                                             *)
SharedKey == [a \in Apps |-> k1]

(* A state that Init reaches, from which the worker's work is left to do:   *)
(* both apps have been uploaded, the Delete of a1 (request c1) has found no *)
(* active task, then a Create for each app has been answered, and the       *)
(* worker of the new process has not made its first call.                   *)
OverlapInit ==
    /\ appStatus  = [a \in Apps |-> "processing"]
    /\ appLock    = [a \in Apps |-> NoClient]
    /\ taskStatus = [t \in Tasks |-> "queued"]
    /\ taskApp    = [t \in Tasks |-> IF t = 1 THEN a1 ELSE a2]
    /\ stepStatus = [t \in Tasks |-> [s \in Steps |-> "waiting"]]
    /\ artifacts  = [t \in Tasks |-> {}]
    /\ blobs      = [t \in Tasks |-> {}]
    /\ sources    = {SourceKey[a] : a \in Apps}
    /\ cpc  = [c \in Clients |-> IF c = c1 THEN "delete_row" ELSE "idle"]
    /\ capp = [c \in Clients |-> IF c = c1 THEN a1 ELSE NoApp]
    /\ WorkerInit
    /\ proc = "up"
    /\ stops = 0

(* From the beginning, or from that state.                                  *)
OverlapSpec == (Init \/ OverlapInit) /\ [][Next]_vars /\ Fairness

(* Requests are interchangeable.                                            *)
ClientSymmetry == Permutations(Clients)
=============================================================================
