-------------------------- MODULE KruntimeRegulator --------------------------
(***************************************************************************)
(* The per-region runtime regulator (RegionRuntimeRegulator in the spec,  *)
(* class KruntimeRegulator in the code).  Its source is not part of this  *)
(* repository's src/, so it is modelled from spec.md section 4.1.         *)
(*                                                                         *)
(* One value of this module's record type is kept per stripped region id  *)
(* by the epoch regulator.  The operators below are pure transformers of  *)
(* that record: the owning regulator composes them inside its own steps.  *)
(***************************************************************************)
EXTENDS Integers

CONSTANTS
  NumRank,   \* rank_per_node: the regulator keeps one slot per rank
  NoTime     \* the "unset" entry timestamp of a rank that never entered

Ranks == 0 .. NumRank - 1

(* A freshly constructed regulator: no rank has entered, all sums zero.   *)
KrInit ==
  [entry |-> [r \in Ranks |-> NoTime],
   last  |-> [r \in Ranks |-> 0],
   total |-> [r \in Ranks |-> 0],
   count |-> [r \in Ranks |-> 0]]

KrType(Time) ==
  [entry : [Ranks -> Time \cup {NoTime}],
   last  : [Ranks -> Nat],
   total : [Ranks -> Nat],
   count : [Ranks -> Nat]]

(* record_entry(rank, t): store t as the open entry of the rank,          *)
(* overwriting any entry still open.                                      *)
record_entry(kr, rank, t) == [kr EXCEPT !.entry[rank] = t]

(* Mutant of record_exit: the duration is taken in the wrong order.       *)
record_exit_swapped(kr, rank, t) ==
  LET duration == kr.entry[rank] - t
  IN  [kr EXCEPT !.last[rank]  = duration,
                 !.total[rank] = @ + duration,
                 !.count[rank] = @ + 1]

(* record_exit(rank, t): the duration since the open entry becomes the    *)
(* last runtime and is added to the total; the count grows by one.        *)
record_exit(kr, rank, t) ==
  LET duration == t - kr.entry[rank]
  IN  [kr EXCEPT !.last[rank]  = duration,
                 !.total[rank] = @ + duration,
                 !.count[rank] = @ + 1]

=============================================================================
