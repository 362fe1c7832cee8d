------------------------ MODULE EpochRuntimeRegulator ------------------------
(***************************************************************************)
(* The node-local epoch runtime regulator of src/src/EpochRuntimeRegulator *)
(* .cpp, driven by the ranks of an application.                            *)
(*                                                                         *)
(* The regulator's members are one record variable, reg, whose fields keep *)
(* the members' names (m_ dropped).  Its methods are pure operators on    *)
(* that record, so that epoch(), which calls record_exit and then         *)
(* record_entry, is their composition inside one atomic step: the single  *)
(* control thread of the controller makes every call synchronous.         *)
(*                                                                         *)
(* The environment is the profiling layer that feeds the regulator: each  *)
(* rank enters and leaves application regions in temporal order (open[r]  *)
(* is the stack of its open regions), an MPI call may be nested inside a  *)
(* region that makes MPI calls (the nested call carries the parent's id   *)
(* with the MPI bit set), and epoch() is called outside any region.       *)
(***************************************************************************)
EXTENDS Integers, SequencesExt

CONSTANTS
  NumRank,       \* rank_per_node
  Bases,         \* the name-hash part of application region ids
  EPOCH,         \* hash part of GEOPM_REGION_ID_EPOCH
  UNMARKED,      \* hash part of GEOPM_REGION_ID_UNMARKED
  AppRegions,    \* region ids the application enters outside any region
  MpiNestingIn,  \* the application regions inside which MPI is called
  StrayExits,    \* regions a faulty caller may exit without entering
  NumPackage,    \* num_domain(M_DOMAIN_PACKAGE)
  NumDram,       \* num_domain(M_DOMAIN_BOARD_MEMORY)
  NoTime,        \* unset entry timestamp
  NaN,           \* the NAN the energy members start with
  MaxTime,       \* bound on the clock
  MaxCount,      \* bound on the completed intervals of one region per rank
  MaxEpoch       \* bound on the closed epochs per rank

Ranks == 0 .. NumRank - 1

(* A region id: the hash of its name plus the MPI bit and the IGNORE hint. *)
RegionId == [base : Bases \cup {EPOCH, UNMARKED}, mpi : BOOLEAN, ignore : BOOLEAN]

EpochId    == [base |-> EPOCH,    mpi |-> FALSE, ignore |-> FALSE]
UnmarkedId == [base |-> UNMARKED, mpi |-> FALSE, ignore |-> FALSE]

ASSUME /\ NumRank \in Nat \ {0}
       /\ AppRegions \subseteq [base : Bases, mpi : BOOLEAN, ignore : BOOLEAN]
       /\ MpiNestingIn \subseteq {id \in AppRegions : ~id.mpi}
       /\ StrayExits \subseteq AppRegions
       /\ NumPackage \in Nat \ {0} /\ NumDram \in Nat \ {0}
       /\ MaxTime \in Nat /\ MaxCount \in Nat /\ MaxEpoch \in Nat

(* geopm_region_id_unset_hint(GEOPM_MASK_REGION_HINT, id): the hint bits  *)
(* are cleared, the MPI bit is not.                                       *)
unset_hint(id) == [id EXCEPT !.ignore = FALSE]

(* geopm_region_id_set_mpi(id) *)
set_mpi(id) == [id EXCEPT !.mpi = TRUE]

Keys == {unset_hint(id) : id \in RegionId}

K == INSTANCE KruntimeRegulator

(* IPlatformIO::agg_max of a per-rank vector *)
agg_max(v) == Max(Range(v))

-----------------------------------------------------------------------------
(* Mutant of RegInit: the emplace of the UNMARKED regulator is missing.   *)
RegInit_without_unmarked ==
  [regulator               |-> [k \in Keys |-> K!KrInit],
   rid_regulator_map       |-> {EpochId},
   seen_first_epoch        |-> [r \in Ranks |-> FALSE],
   curr_ignore_runtime     |-> [r \in Ranks |-> 0],
   agg_epoch_ignore_runtime |-> [r \in Ranks |-> 0],
   curr_mpi_runtime        |-> [r \in Ranks |-> 0],
   agg_epoch_mpi_runtime   |-> [r \in Ranks |-> 0],
   agg_mpi_runtime         |-> [r \in Ranks |-> 0],
   last_epoch_runtime      |-> [r \in Ranks |-> 0],
   agg_epoch_runtime       |-> [r \in Ranks |-> 0],
   pre_epoch_region        |-> [r \in Ranks |-> {}],
   epoch_start_energy      |-> NaN,
   epoch_total_energy      |-> NaN,
   region_info             |-> << >>]

(* The constructor: both sentinel regulators exist from the start.        *)
RegInit ==
  [regulator               |-> [k \in Keys |-> K!KrInit],
   rid_regulator_map       |-> {EpochId, UnmarkedId},
   seen_first_epoch        |-> [r \in Ranks |-> FALSE],
   curr_ignore_runtime     |-> [r \in Ranks |-> 0],
   agg_epoch_ignore_runtime |-> [r \in Ranks |-> 0],
   curr_mpi_runtime        |-> [r \in Ranks |-> 0],
   agg_epoch_mpi_runtime   |-> [r \in Ranks |-> 0],
   agg_mpi_runtime         |-> [r \in Ranks |-> 0],
   last_epoch_runtime      |-> [r \in Ranks |-> 0],
   agg_epoch_runtime       |-> [r \in Ranks |-> 0],
   pre_epoch_region        |-> [r \in Ranks |-> {}],
   epoch_start_energy      |-> NaN,
   epoch_total_energy      |-> NaN,
   region_info             |-> << >>]

Energy == INSTANCE CurrentEnergy

(* Appends a region_info record for rank 0 and non-UNMARKED regions.      *)
LogRegionInfo(s, rid, rank, is_exit) ==
  IF rid # UnmarkedId /\ rank = 0
  THEN [s EXCEPT !.region_info =
          Append(@, [region_id |-> unset_hint(rid), is_exit |-> is_exit,
                     runtime |-> agg_max(s.regulator[rid].last)])]
  ELSE s

(* Mutant of record_entry: the pre-epoch mark is set in STEADY too.       *)
record_entry_mark_always(s, region_id, rank, t) ==
  LET rid == unset_hint(region_id)
      s1  == [s EXCEPT
                !.pre_epoch_region[rank] = @ \cup {rid},
                !.rid_regulator_map = @ \cup {rid},
                !.regulator[rid] = K!record_entry(@, rank, t)]
  IN  LogRegionInfo(s1, rid, rank, FALSE)

record_entry(s, region_id, rank, t) ==
  LET rid == unset_hint(region_id)
      s1  == [s EXCEPT
                !.pre_epoch_region[rank] =
                   IF s.seen_first_epoch[rank] THEN @ ELSE @ \cup {rid},
                !.rid_regulator_map = @ \cup {rid},
                !.regulator[rid] = K!record_entry(@, rank, t)]
  IN  LogRegionInfo(s1, rid, rank, FALSE)

(* Mutant of CloseEpoch: the lifetime MPI total is subtracted instead of  *)
(* the current epoch's.                                                    *)
CloseEpochAggMpi(s, rank, runtime) ==
  IF s.seen_first_epoch[rank]
  THEN LET mpi == s.agg_mpi_runtime[rank]
           ign == s.curr_ignore_runtime[rank]
       IN  [s EXCEPT !.last_epoch_runtime[rank] = runtime - (mpi + ign),
                     !.agg_epoch_runtime[rank] = @ + (runtime - (mpi + ign)),
                     !.agg_epoch_mpi_runtime[rank] = @ + mpi,
                     !.agg_epoch_ignore_runtime[rank] = @ + ign,
                     !.curr_mpi_runtime[rank] = 0,
                     !.curr_ignore_runtime[rank] = 0]
  ELSE s

(* The epoch sentinel closes the rank's epoch (once it is in STEADY):     *)
(* the epoch's wall time minus the MPI and ignore time charged to it.     *)
CloseEpoch(s, rank, runtime) ==
  IF s.seen_first_epoch[rank]
  THEN LET mpi == s.curr_mpi_runtime[rank]
           ign == s.curr_ignore_runtime[rank]
       IN  [s EXCEPT !.last_epoch_runtime[rank] = runtime - (mpi + ign),
                     !.agg_epoch_runtime[rank] = @ + (runtime - (mpi + ign)),
                     !.agg_epoch_mpi_runtime[rank] = @ + mpi,
                     !.agg_epoch_ignore_runtime[rank] = @ + ign,
                     !.curr_mpi_runtime[rank] = 0,
                     !.curr_ignore_runtime[rank] = 0]
  ELSE s

(* Charges a hinted region's duration to the current epoch bucket, unless *)
(* the region was entered before the rank's first epoch: then the         *)
(* pre-epoch mark is consumed instead.                                    *)
ChargeBucket(s, rank, rid, bucket, runtime) ==
  IF rid \in s.pre_epoch_region[rank]
  THEN [s EXCEPT !.pre_epoch_region[rank] = @ \ {rid}]
  ELSE [s EXCEPT ![bucket][rank] = @ + runtime]

(* record_exit for a region whose regulator exists (the unknown-region    *)
(* error path is the action RecordExitUnknownRegion).                     *)
record_exit(s, region_id, rank, t) ==
  LET is_ignore == region_id.ignore
      is_mpi    == region_id.mpi
      rid       == unset_hint(region_id)
      s1        == [s EXCEPT !.regulator[rid] = K!record_exit(@, rank, t)]
      runtime   == s1.regulator[rid].last[rank]
      s2        == CASE rid.base = EPOCH -> CloseEpoch(s1, rank, runtime)
                     [] is_mpi ->
                          [ChargeBucket(s1, rank, rid, "curr_mpi_runtime", runtime)
                             EXCEPT !.agg_mpi_runtime[rank] = @ + runtime]
                     [] is_ignore ->
                          ChargeBucket(s1, rank, rid, "curr_ignore_runtime", runtime)
                     [] OTHER -> s1
  IN  LogRegionInfo(s2, rid, rank, TRUE)

(* epoch(rank, t): closes the running epoch or, on the rank's first call, *)
(* zeroes the current MPI and ignore buckets and enters STEADY; then opens *)
(* the next epoch interval.                                               *)
epoch(s, rank, t, energy) ==
  LET s1 == IF s.seen_first_epoch[rank]
            THEN [record_exit(s, EpochId, rank, t) EXCEPT
                    !.epoch_total_energy = energy - s.epoch_start_energy]
            ELSE [s EXCEPT !.curr_mpi_runtime = [r \in Ranks |-> 0],
                           !.curr_ignore_runtime = [r \in Ranks |-> 0],
                           !.seen_first_epoch[rank] = TRUE,
                           !.epoch_start_energy = energy]
  IN  record_entry(s1, EpochId, rank, t)

(* init_unmarked_region(): enters UNMARKED for every rank at one time.    *)
init_unmarked_region(s, t) ==
  FoldLeft(LAMBDA acc, rank : record_entry(acc, UnmarkedId, rank, t),
           s, [i \in 1 .. NumRank |-> i - 1])

-----------------------------------------------------------------------------
(***************************************************************************)
(* The query surface (lines 188-286): read-only functions of the record.  *)
(* An average is kept as the pair (sum, number of entries), so averages   *)
(* are exact and compare by cross-multiplication.                          *)
(***************************************************************************)

(* IPlatformIO::agg_average of a per-rank vector *)
agg_average(v) == [sum |-> SumFunction(v), n |-> Cardinality(DOMAIN v)]

AvgZero == [sum |-> 0, n |-> 1]

AvgLeq(a, b) == a.sum * b.n <= b.sum * a.n

(* region_regulator(): hints stripped; it throws unless the id is mapped. *)
region_known(s, region_id) == unset_hint(region_id) \in s.rid_regulator_map
region_regulator(s, region_id) == s.regulator[unset_hint(region_id)]

(* is_regulated() looks the id up without stripping its hints.            *)
is_regulated(s, region_id) == region_id \in s.rid_regulator_map

(* epoch_count() and last_epoch_time(); the first is renamed because      *)
(* EpochAccounting has a variable of that name.                            *)
last_epoch_time(s) == s.last_epoch_runtime
epoch_count_query(s) == s.regulator[EpochId].count
per_rank_last_runtime(s, region_id) == s.regulator[region_id].last

total_region_runtime(s, region_id) ==
  IF region_id = EpochId THEN agg_average(s.agg_epoch_runtime)
  ELSE agg_average(region_regulator(s, region_id).total)

(* The MPI time of a region is the runtime of its MPI twin; when the twin *)
(* is unknown, region_regulator throws and the catch leaves 0.            *)
total_region_mpi_time(s, region_id) ==
  IF region_id = EpochId THEN agg_average(s.agg_epoch_mpi_runtime)
  ELSE IF region_known(s, set_mpi(region_id))
       THEN total_region_runtime(s, set_mpi(region_id))
       ELSE AvgZero

total_epoch_runtime(s) == total_region_runtime(s, EpochId)
total_epoch_mpi_time(s) == total_region_mpi_time(s, EpochId)
total_epoch_ignore_time(s) == agg_average(s.agg_epoch_ignore_runtime)
total_epoch_energy(s) == s.epoch_total_energy
total_app_mpi_time(s) == agg_average(s.agg_mpi_runtime)

(* The largest per-rank count (rank_count is never empty: NumRank > 0).   *)
total_count(s, region_id) == agg_max(region_regulator(s, region_id).count)

-----------------------------------------------------------------------------
VARIABLES
  reg,        \* the EpochRuntimeRegulator instance
  now,        \* the clock the events are stamped with
  open,       \* per rank: the stack of its open application regions
  aborted,    \* ranks whose event ingestion failed
  unmarked    \* whether init_unmarked_region() has been called

vars == <<reg, now, open, aborted, unmarked>>

(* Energy counters of the platform: every domain gains one joule a tick.  *)
EnergySignal == [d \in Energy!EnergyDomains |-> now]

Init ==
  /\ reg = RegInit
  /\ now = 0
  /\ open = [r \in Ranks |-> << >>]
  /\ aborted = {}
  /\ unmarked = FALSE

Tick ==
  /\ unmarked
  /\ now < MaxTime
  /\ now' = now + 1
  /\ UNCHANGED <<reg, open, aborted, unmarked>>

(* A rank enters an application region, or an MPI call nested in one.    *)
RecordEntry(rank, region_id) ==
  /\ unmarked
  /\ rank \notin aborted
  /\ \/ open[rank] = << >> /\ region_id \in AppRegions
     \/ /\ Len(open[rank]) = 1
        /\ open[rank][1] \in MpiNestingIn
        /\ region_id = set_mpi(open[rank][1])
  /\ reg.regulator[unset_hint(region_id)].count[rank] < MaxCount
  /\ reg' = record_entry(reg, region_id, rank, now)
  /\ open' = [open EXCEPT ![rank] = Append(@, region_id)]
  /\ UNCHANGED <<now, aborted, unmarked>>

(* A rank leaves its innermost open region.                               *)
RecordExit(rank) ==
  /\ unmarked
  /\ rank \notin aborted
  /\ open[rank] # << >>
  /\ reg' = record_exit(reg, Last(open[rank]), rank, now)
  /\ open' = [open EXCEPT ![rank] = Front(@)]
  /\ UNCHANGED <<now, aborted, unmarked>>

(* An exit of a region no rank has entered: record_exit throws before it *)
(* changes anything and the rank's ingestion is abandoned.                *)
RecordExitUnknownRegion(rank, region_id) ==
  /\ unmarked
  /\ rank \notin aborted
  /\ region_id \in StrayExits
  /\ unset_hint(region_id) \notin reg.rid_regulator_map
  /\ aborted' = aborted \cup {rank}
  /\ UNCHANGED <<reg, now, open, unmarked>>

(* The application marks an epoch boundary, outside any region.           *)
Epoch(rank) ==
  /\ unmarked
  /\ rank \notin aborted
  /\ open[rank] = << >>
  /\ reg.regulator[EpochId].count[rank] < MaxEpoch
  /\ reg' = epoch(reg, rank, now, Energy!current_energy(EnergySignal))
  /\ UNCHANGED <<now, open, aborted, unmarked>>

(* The controller calls init_unmarked_region() once, when it connects to *)
(* the application and before it replays any event.                      *)
InitUnmarkedRegion ==
  /\ ~unmarked
  /\ unmarked' = TRUE
  /\ reg' = init_unmarked_region(reg, now)
  /\ UNCHANGED <<now, open, aborted>>

(* The telemetry consumer drains region_info().                           *)
ClearRegionInfo ==
  /\ reg.region_info # << >>
  /\ reg' = [reg EXCEPT !.region_info = << >>]
  /\ UNCHANGED <<now, open, aborted, unmarked>>

Next ==
  \/ Tick
  \/ InitUnmarkedRegion
  \/ ClearRegionInfo
  \/ \E rank \in Ranks :
       \/ Epoch(rank)
       \/ RecordExit(rank)
       \/ \E id \in RegionId : RecordEntry(rank, id)
       \/ \E id \in StrayExits : RecordExitUnknownRegion(rank, id)

Spec == Init /\ [][Next]_vars

(* region_info is written and drained but never read by the regulator, so *)
(* states that differ only in it have the same futures for everything     *)
(* else: runs whose properties do not read it check this view.            *)
ViewWithoutRegionInfo ==
  <<[reg EXCEPT !.region_info = << >>], now, open, aborted, unmarked>>


-----------------------------------------------------------------------------
(***************************************************************************)
(* Properties                                                              *)
(***************************************************************************)

Time == 0 .. MaxTime

TypeOK ==
  /\ now \in Time
  /\ open \in [Ranks -> Seq(RegionId)]
  /\ aborted \subseteq Ranks
  /\ unmarked \in BOOLEAN
  /\ reg.regulator \in [Keys -> K!KrType(Time)]
  /\ {EpochId, UnmarkedId} \subseteq reg.rid_regulator_map
  /\ reg.rid_regulator_map \subseteq Keys
  /\ reg.seen_first_epoch \in [Ranks -> BOOLEAN]
  /\ \A f \in {"curr_ignore_runtime", "agg_epoch_ignore_runtime",
               "curr_mpi_runtime", "agg_epoch_mpi_runtime", "agg_mpi_runtime"} :
        reg[f] \in [Ranks -> Nat]
  /\ reg.last_epoch_runtime \in [Ranks -> Int]
  /\ reg.agg_epoch_runtime \in [Ranks -> Int]
  /\ reg.pre_epoch_region \in [Ranks -> SUBSET Keys]
  /\ reg.epoch_start_energy \in Nat \cup {NaN}
  /\ reg.epoch_total_energy \in Int \cup {NaN}
  /\ reg.region_info \in Seq([region_id : Keys, is_exit : BOOLEAN, runtime : Nat])

(* The compute time the control agent reads for a rank's last epoch, and  *)
(* the epoch runtime the report prints, are never negative: the MPI and   *)
(* ignore time record_exit subtracts from an epoch's wall time never      *)
(* exceeds it (record_exit of the epoch sentinel, lines 153-162).         *)
EpochComputeNonNegative ==
  \A r \in Ranks : reg.last_epoch_runtime[r] >= 0 /\ reg.agg_epoch_runtime[r] >= 0

(* Once an epoch has been closed, total_epoch_energy() never decreases:   *)
(* it is the energy spent since the first epoch boundary (spec 8), and    *)
(* the counters it is read from are monotonic (epoch(), lines 108-117).   *)
EpochEnergyMonotone ==
  [][reg.epoch_total_energy # NaN =>
       reg'.epoch_total_energy >= reg.epoch_total_energy]_vars

(* The MPI time total_epoch_mpi_time() reports for the epochs is part of   *)
(* the application's MPI time total_app_mpi_time(): record_exit adds every *)
(* MPI interval to agg_mpi_runtime and at most once, through the current   *)
(* bucket that the epoch boundary moves and clears, to the epoch total     *)
(* (lines 106-179, 258-275).                                               *)
EpochMpiWithinAppMpi ==
  AvgLeq(total_epoch_mpi_time(reg), total_app_mpi_time(reg))

(* Once no rank is inside a region, the mpi-runtime a report prints for a  *)
(* region, total_region_mpi_time(), is at most its runtime,               *)
(* total_region_runtime(): the MPI calls nested in the region lie inside  *)
(* its intervals (lines 222-250).                                         *)
RegionMpiWithinRegion ==
  (\A r \in Ranks : open[r] = << >>) =>
    \A id \in AppRegions :
      region_known(reg, id) =>
        AvgLeq(total_region_mpi_time(reg, id), total_region_runtime(reg, id))

-----------------------------------------------------------------------------
(***************************************************************************)
(* Refinement of EpochAccounting.  The abstract buckets of the running     *)
(* epoch are the regulator's current accumulators plus the time already    *)
(* spent in a region that is still open; compute time is the epoch's      *)
(* elapsed wall time less both.                                            *)
(***************************************************************************)

(* Time since the rank entered its innermost open region satisfying P.    *)
ElapsedIn(r, P(_)) ==
  LET S == {i \in 1 .. Len(open[r]) : P(open[r][i])}
  IN  IF S = {} THEN 0
      ELSE now - reg.regulator[unset_hint(open[r][Max(S)])].entry[r]

MpiNow(r) ==
  IF reg.seen_first_epoch[r]
  THEN reg.curr_mpi_runtime[r] + ElapsedIn(r, LAMBDA id : id.mpi)
  ELSE 0

IgnoreNow(r) ==
  IF reg.seen_first_epoch[r]
  THEN reg.curr_ignore_runtime[r] + ElapsedIn(r, LAMBDA id : id.ignore /\ ~id.mpi)
  ELSE 0

ComputeNow(r) ==
  IF reg.seen_first_epoch[r]
  THEN (now - reg.regulator[EpochId].entry[r]) - MpiNow(r) - IgnoreNow(r)
  ELSE 0

Accounting == INSTANCE EpochAccounting WITH
  RegionIds        <- RegionId,
  steady           <- reg.seen_first_epoch,
  compute          <- [r \in Ranks |-> ComputeNow(r)],
  mpi_time         <- [r \in Ranks |-> MpiNow(r)],
  ignore_time      <- [r \in Ranks |-> IgnoreNow(r)],
  last_epoch       <- last_epoch_time(reg),
  agg_epoch        <- reg.agg_epoch_runtime,
  agg_epoch_mpi    <- reg.agg_epoch_mpi_runtime,
  agg_epoch_ignore <- reg.agg_epoch_ignore_runtime,
  epoch_count      <- epoch_count_query(reg)

(* Every behaviour of the regulator is one of EpochAccounting: each rank's *)
(* last_epoch_time(), epoch_count() and epoch aggregates are exactly the   *)
(* compute, MPI and ignore time it spent in its own epochs (epoch() and  *)
(* record_exit(), lines 106-186).  It is meant to hold per rank; a second *)
(* rank's first epoch() breaks it (line 113).                              *)
AccountingSpec == Accounting!Spec

=============================================================================
