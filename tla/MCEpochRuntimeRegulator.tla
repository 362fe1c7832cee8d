----------------------- MODULE MCEpochRuntimeRegulator -----------------------
(***************************************************************************)
(* Model-checking instance of EpochRuntimeRegulator.  The application has  *)
(* three regions: a compute region A that makes MPI calls, a region I     *)
(* carrying the IGNORE hint, and a top-level MPI call G.                  *)
(***************************************************************************)
EXTENDS EpochRuntimeRegulator

CONSTANTS A, I, G

RegionA == [base |-> A, mpi |-> FALSE, ignore |-> FALSE]
RegionI == [base |-> I, mpi |-> FALSE, ignore |-> TRUE]
RegionG == [base |-> G, mpi |-> TRUE,  ignore |-> FALSE]

MCBases      == {A, I, G}
MCAppRegions == {RegionA, RegionI, RegionG}

(* Two ranks need only the compute region and the ignore region.   *)
MCAppRegionsAI == {RegionA, RegionI}

(* Only the compute region makes MPI calls. *)
MCMpiNestingIn == {RegionA}

(* The ignore region makes MPI calls too. *)
MCMpiNestingInIgnore == {RegionA, RegionI}

(* Region A is also registered a second time with the IGNORE hint. *)
MCAppRegionsTwoHints ==
  {RegionA, [RegionA EXCEPT !.ignore = TRUE]}

(* The caller may report an exit of G before any entry of it. *)
MCStrayExits == {RegionG}

=============================================================================
