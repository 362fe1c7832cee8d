--------------------------- MODULE EpochAccounting ---------------------------
(***************************************************************************)
(* What the epoch regulator promises to the control agent and the report, *)
(* stated without its bookkeeping (spec.md sections 3 and 4.2): time       *)
(* passes in ticks, and every tick a rank in STEADY spends in its current  *)
(* epoch is charged to exactly one bucket, MPI if it is inside an MPI call,*)
(* ignore if it is inside an ignore-hinted region, compute otherwise.      *)
(* Closing an epoch publishes its compute time as last_epoch and adds the  *)
(* three buckets to the per-rank aggregates.  Ranks are independent.       *)
(***************************************************************************)
EXTENDS Integers, Sequences

CONSTANTS
  NumRank,
  RegionIds    \* the region ids the ranks enter

VARIABLES
  now,               \* the clock
  open,              \* per rank: the stack of open regions
  steady,            \* per rank: an epoch boundary has been seen
  compute,           \* per rank: compute time of the running epoch
  mpi_time,          \* per rank: MPI time of the running epoch
  ignore_time,       \* per rank: ignore time of the running epoch
  last_epoch,        \* per rank: compute time of the last closed epoch
  agg_epoch,         \* per rank: compute time of all closed epochs
  agg_epoch_mpi,     \* per rank: MPI time of all closed epochs
  agg_epoch_ignore,  \* per rank: ignore time of all closed epochs
  epoch_count        \* per rank: number of closed epochs

vars == <<now, open, steady, compute, mpi_time, ignore_time, last_epoch,
          agg_epoch, agg_epoch_mpi, agg_epoch_ignore, epoch_count>>

Ranks == 0 .. NumRank - 1

Zero == [r \in Ranks |-> 0]

InMpi(r)    == \E i \in 1 .. Len(open[r]) : open[r][i].mpi
InIgnore(r) == ~InMpi(r) /\ \E i \in 1 .. Len(open[r]) : open[r][i].ignore

Init ==
  /\ now = 0
  /\ open = [r \in Ranks |-> << >>]
  /\ steady = [r \in Ranks |-> FALSE]
  /\ compute = Zero /\ mpi_time = Zero /\ ignore_time = Zero
  /\ last_epoch = Zero /\ agg_epoch = Zero
  /\ agg_epoch_mpi = Zero /\ agg_epoch_ignore = Zero
  /\ epoch_count = Zero

Tick ==
  /\ now' = now + 1
  /\ mpi_time' = [r \in Ranks |->
                    IF steady[r] /\ InMpi(r) THEN mpi_time[r] + 1 ELSE mpi_time[r]]
  /\ ignore_time' = [r \in Ranks |->
                    IF steady[r] /\ InIgnore(r) THEN ignore_time[r] + 1 ELSE ignore_time[r]]
  /\ compute' = [r \in Ranks |->
                    IF steady[r] /\ ~InMpi(r) /\ ~InIgnore(r)
                    THEN compute[r] + 1 ELSE compute[r]]
  /\ UNCHANGED <<open, steady, last_epoch, agg_epoch, agg_epoch_mpi,
                 agg_epoch_ignore, epoch_count>>

Enter(r, id) ==
  /\ open' = [open EXCEPT ![r] = Append(@, id)]
  /\ UNCHANGED <<now, steady, compute, mpi_time, ignore_time, last_epoch,
                 agg_epoch, agg_epoch_mpi, agg_epoch_ignore, epoch_count>>

Leave(r) ==
  /\ open[r] # << >>
  /\ open' = [open EXCEPT ![r] = SubSeq(@, 1, Len(@) - 1)]
  /\ UNCHANGED <<now, steady, compute, mpi_time, ignore_time, last_epoch,
                 agg_epoch, agg_epoch_mpi, agg_epoch_ignore, epoch_count>>

Boundary(r) ==
  /\ open[r] = << >>
  /\ IF steady[r]
     THEN /\ last_epoch' = [last_epoch EXCEPT ![r] = compute[r]]
          /\ agg_epoch' = [agg_epoch EXCEPT ![r] = @ + compute[r]]
          /\ agg_epoch_mpi' = [agg_epoch_mpi EXCEPT ![r] = @ + mpi_time[r]]
          /\ agg_epoch_ignore' = [agg_epoch_ignore EXCEPT ![r] = @ + ignore_time[r]]
          /\ epoch_count' = [epoch_count EXCEPT ![r] = @ + 1]
          /\ UNCHANGED steady
     ELSE /\ steady' = [steady EXCEPT ![r] = TRUE]
          /\ UNCHANGED <<last_epoch, agg_epoch, agg_epoch_mpi,
                         agg_epoch_ignore, epoch_count>>
  /\ compute' = [compute EXCEPT ![r] = 0]
  /\ mpi_time' = [mpi_time EXCEPT ![r] = 0]
  /\ ignore_time' = [ignore_time EXCEPT ![r] = 0]
  /\ UNCHANGED <<now, open>>

Next ==
  \/ Tick
  \/ \E r \in Ranks : \/ \E id \in RegionIds : Enter(r, id)
                      \/ Leave(r)
                      \/ Boundary(r)

Spec == Init /\ [][Next]_vars

=============================================================================
