# TLA+ models of GEOPM's node runtime: regulator, platform MSRs and reporter

This directory holds TLA+ models of the node-local runtime-telemetry code of
GEOPM (`src/src/`). They are checked with TLC. Every definition is translated
from the C++ source. The exceptions are the per-region regulator and the
region-id hint helpers. Their code is not in this repository, so they are
modelled from `spec.md` and marked `spec_modelled` in `PROJECT.json`.

## 1. Inventory of the system

| part | source | state | operations |
|---|---|---|---|
| RegionRuntimeRegulator (`KruntimeRegulator`) | not in `src/` (spec.md 4.1) | per rank: entry time, last runtime, total runtime, count | `record_entry`, `record_exit` |
| EpochRuntimeRegulator | `src/src/EpochRuntimeRegulator.cpp` | the map from stripped region id to regulator; per rank: `seen_first_epoch`, `curr_mpi/ignore_runtime`, `agg_epoch_*`, `agg_mpi_runtime`, `last_epoch_runtime`, `pre_epoch_region`; the scalars `epoch_start_energy` and `epoch_total_energy`; the log `region_info` | constructor, `init_unmarked_region`, `epoch`, `record_entry`, `record_exit`, `clear_region_info`, read-only queries |
| `current_energy` | EpochRuntimeRegulator.cpp 92-104 | none (reads the platform) | sums the package and DRAM energy signals |
| Platform | `src/src/Platform.cpp` | the transform matrix, the MSR save file, the power limit and frequency MSRs | `init_transform`, `tdp_limit`, `manual_frequency`, `save_msr_state`, `restore_msr_state` |
| Reporter | `src/src/Reporter.cpp` | none between calls; during `generate`, each rank's open report file and the bytes of the shared file | `generate`: sorts regions, formats the node report, gathers the node reports on rank 0 and writes the report file |
| KNL MSR table | `src/src/msr_knl.cpp` | constant | none (its field layout is used to decode writes) |
| tests | `src/test/` | an MPI job and a mock tree communicator | none modelled |

How the parts interact: each rank of the application emits region entry,
region exit and epoch events. One control thread replays them into the
EpochRuntimeRegulator, one call at a time (spec.md 5). The regulator sends
each event to the per-region regulator of the event's stripped id. At epoch
boundaries it reads node energy through `current_energy`. The Reporter and
the control agent read the query surface. At the end of the job the
controller of every node calls `Reporter::generate`; the nodes' calls meet
only in the two MPI collectives (gather and gatherv to rank 0), and all
nodes open the same report path.

The hard behaviours:
- the events of several ranks interleave;
- each rank has two phases, before and after its first epoch;
- MPI calls nest inside other regions and carry their parent's hints;
- some state is shared by all ranks (the regulator map, the start energy,
  the first-epoch reset).

The properties that make the regulator correct:
- every tick a rank spends in a running epoch is charged to exactly one of
  three buckets (compute, MPI, ignore);
- an epoch's compute time is never negative;
- the energy measured since the first epoch never decreases.

## 2. Modules

| module | models | how |
|---|---|---|
| `KruntimeRegulator` | the per-region regulator | a record of four per-rank functions, with `record_entry` and `record_exit` as record transformers |
| `EpochRuntimeRegulator` | the epoch regulator and its caller | one variable `reg` holds every member of the class. The methods `record_entry`, `record_exit`, `epoch` and `init_unmarked_region` are pure operators on that record, so `epoch()`, which calls `record_exit` then `record_entry`, is one atomic step, as it is in the single-threaded code. Actions add the caller: a global clock `now` (`Tick`), a per-rank stack `open` of entered regions, and the set `aborted` of ranks whose stream raised `UnknownRegion`. The queries (`total_region_runtime`, `total_region_mpi_time`, `total_epoch_*`, `total_count`, ...) are operators on `reg`; the refinement mapping reads `last_epoch_time` and `epoch_count` through them |
| `EpochAccounting` | what the regulator promises (abstract) | time passes in ticks, and each tick of a rank in STEADY goes into exactly one bucket. `Boundary` publishes the epoch's compute time |
| `CurrentEnergy` | `current_energy` | an operator over a vector of energy signals |
| `MCEpochRuntimeRegulator` | model instance | regions as model values; the cfg files set the bounds |
| `MsrSaveRestore` | `save_msr_state`, `restore_msr_state` and the C entry points around a controller session | `msr` is the hardware, `disk` the restore file as a sequence of parsed lines, `orig` the values before any session. Actions: `SaveMsrState` (the open may fail silently when `SaveOpenFails`), `SaveKilled` (a byte prefix of the lines, possibly with a torn last line), `WriteControl` (what `tdp_limit`/`manual_frequency` write), `Kill`, `RestoreMsrState` (writes lines in order, throws on the first line without 4 fields, removes the file on success), `RestoreKilled` |
| `MsrKnl` | the table of `msr_knl()` | a sequence of registers with their signal and control bit fields |
| `PlatformPower` | `tdp_limit`, `manual_frequency` | operators computing the words written; a 64-bit word is the set of its set bits |
| `PlatformTransform` | `init_transform` | operators `scatter_matrix`, `gather_matrix` and their product `signal_domain_matrix`, index for index as the loops build them; entries are integers in units of 1/`Scale` |
| `PlatformLifecycle` | the Platform object's own state | `imp` (`m_imp`), `power_model_map` (`m_power_model`, domain to PowerModel, a PowerModel being its allocation number), `num_alloc`, `curr_region`, `alive`, and the bag `deleted` of the destructor's deletes; actions `SetImplementation` (118-126, `map_insert` keeps an existing key like `std::map::insert`), `RegionBegin`, `RegionEnd` and `Destroy` (107-116, through a `std::set`). `m_curr_region` is not set by the constructor, so `LifeInit` lets it start at any value |
| `MCPlatformPower` | model instance | composes `PlatformLifecycle` with the calls: a call is taken only on a live object with an implementation, and each such state is one Platform call (`manual_frequency`, `tdp_limit` or `init_transform`) with its arguments on a small topology; writes are decoded through `MsrKnl`, the transform is compared with a reference stated per input signal |
| `Reporter` | the rows of `Reporter::generate` and the rank-0 gather layout | operators from the `application_io` and `platform_io` answers to the set of row sequences `generate` may produce |
| `ReportGenerate` | the report file across the ranks of `generate` | `pc` (where each rank is), `file` (the shared file's bytes), `offset` (each rank's `master_report` position), `sizes` (each node report's length); actions `Open` (line 101, truncating), `OpenFails` (102-104), `WriteHeader` (105-118), `Send` (non-root ranks' gather and gatherv, 219-242) and `Collect` (rank 0 leaves the gatherv once all have sent and writes the buffer, 229-250) |
| `MCReporter` | model instance | enumerates the answers for three names (one `MPI_*`) and the node report sizes, and runs the `generate` steps of two or three ranks |

Correspondence for `EpochRuntimeRegulator`:
- `RegInit` is the constructor (lines 48-77).
- `RecordEntry`, `RecordExit`, `RecordExitUnknownRegion` (the throw at line
  148), `Epoch`, `InitUnmarkedRegion` and `ClearRegionInfo` are the public
  methods.
- `CloseEpoch`, `ChargeBucket` and `LogRegionInfo` are the branches of
  `record_exit`.
- A region id is a record `[base, mpi, ignore]`. `unset_hint` clears the
  ignore hint but keeps the MPI bit (the map key of an MPI call is its own).
- A nested MPI call has the id of the region it sits in, with the MPI bit
  set. This is what the MPI profiling wrapper passes (spec.md 3).

The caller the model allows follows the contract of spec.md 5. For each
rank it may:
- enter a top-level region;
- call MPI inside a region of `MpiNestingIn`;
- exit its innermost region;
- call `epoch()` when no region is open;
- exit a region of `StrayExits` that no rank has entered. This is the error
  path.

Only the constructor's state is initial. `InitUnmarkedRegion` is required
to come before any other event, as in the controller.

## 3. Runs

| run | expect | checks | what it shows |
|---|---|---|---|
| `epoch_accounting` | pass | `TypeOK`, `EpochMpiWithinAppMpi`, `RegionMpiWithinRegion`, `AccountingSpec` | For one rank, with plain, ignore and MPI regions, nested MPI, stray exits and two epochs, the regulator refines `EpochAccounting` (which also keeps epoch compute time non-negative); `total_epoch_mpi_time()` never exceeds `total_app_mpi_time()`; once no region is open, `total_region_mpi_time()` of a region is at most its `total_region_runtime()` |
| `first_epoch_reset` | violation | `AccountingSpec` | Rank 1's first `epoch()` zeroes rank 0's buckets (line 113) |
| `mpi_in_ignore` | violation | `EpochComputeNonNegative` | An MPI call inside an ignore region is subtracted twice (lines 155-179) |
| `stale_pre_epoch` | violation | `AccountingSpec` | A pre-epoch mark left by an unhinted entry drops a later ignore interval (line 125) |
| `epoch_energy` | violation | `EpochEnergyMonotone` | Each rank's first epoch overwrites `epoch_start_energy` (line 116) |
| `msr_roundtrip` | pass | `RestoreRoundTrip` | Kills during save, session and restore with a file cut at line boundaries: every successful restore brings back the values saved before the first session |
| `msr_lock_bit` | violation | `RestoreRoundTrip` | A saved word with bit 63 set (IA32_PERF_CTL in the trace: 200 in 8-bit words, restored as 127) is parsed by `atol` as LONG_MAX (line 447) |
| `msr_torn_save` | violation | `RestoreRoundTrip` | A line cut inside its value still has 4 fields and is written (line 449) |
| `platform_calls` | pass | `ManualFrequencyPlacement`, `WritesDecodeUniquely`, `TransformMatchesReference` | Exactly `num_cpu_max_perf` whole cores stay at maximum performance, spread evenly under scatter, others get frequency/100 in PERF_CTL.FREQ; every bit written lies in exactly one control field of the table; `init_transform` gives each control domain exactly its CPUs' share of every socket, CPU and rank signal. The calls are composed with the object's life and taken only on a live object with an implementation |
| `tdp_limit` | violation | `TdpLimitProgramsTdp` | The limit written is the TDP in watts squared, unmasked (line 345) |
| `report_order` | pass | `ReportBodyWritten` | In every interleaving of three nodes' opens, header and sends, rank 0 writes every node report, in rank order, right after its header: the gather orders all truncating opens before that write, and the displacements place each report without gap or overlap |
| `report_header` | violation | `ReportHeaderKept` | Node 1 opens (truncates) the shared report file after rank 0 wrote its header; the header becomes a NUL byte (line 101) |

The refinement mapping in `EpochRuntimeRegulator` computes the abstract
buckets from the regulator's own state:
- the bucket totals of the closed intervals;
- plus the running time of each open interval (`now` minus its entry time),
  for the region on top of the rank's stack.


## 4. Bounds

- `MaxTime` bounds the clock.
- `MaxCount` bounds the completed intervals of each key on each rank.
- `MaxEpoch` bounds the closed epochs of each rank.

The regulator runs use one or two ranks and `MaxTime = 2`. Two ticks are enough for
an interval to have a non-zero duration while another is running.
`MaxCount = 2` on one rank lets a region be entered both before and after
the first epoch. `MaxEpoch = 1` or 2 lets an epoch close and a second one
start. Every violation was found at these sizes or one step larger; these
are the smallest sizes at which each case occurs.

Platform and Reporter:
- `MsrSaveRestore` uses one package and one CPU (7 registers); the save
  loop treats every register alike, so more registers add no new case.
  Words are `Width` = 8 bits wide: what matters is the top bit, which
  `atol` saturates, and `LongMax` scales with `Width`. The session writes
  one value to PKG_POWER_LIMIT and IA32_PERF_CTL.
- `MCPlatformPower` covers 1-2 packages of 1-3 cores with 1-2 hyperthreads
  and every `num_cpu_max_perf` below the core count. `tdp_limit` is checked
  at percentages 100, 50 and 25, where `percentage * 0.01` and the double
  arithmetic are exact, so the integer model is the code's result.
  Its life has one implementation, one region and `MaxModels` = 2, so
  `set_implementation` runs twice and the second model meets a map whose
  keys are all taken.
- `init_transform` is checked on 4 logical CPUs in 1 or 2 sockets, with
  1 or 2 hyperthreads, control domains of package, tile (2 cores) and CPU
  type, and every `cpu_rank` over three ranks (81 vectors), with
  `m_num_domain` = 2, `m_num_counter` = 1 and 5 signal types. So a socket
  has 2 or 4 CPUs, a rank 1 to 4, and all three input blocks have more than
  one owner and stride. `Scale` = 12 is divisible by every such count, so
  the 1/n entries are exact. The code computes them in double, where
  1/3 is rounded; the model abstracts that rounding.
- `MCReporter` has up to three named regions, with count 0 or 1 and two
  runtimes, so ties and an uncounted region both occur. `report_order`
  runs three nodes (`report_header` two, enough for its violation) with
  report sizes 1 or 2 (a node report is never empty: it starts with
  "\nHost: "), so equal and unequal sizes, and so a displacement that
  differs from the previous size, both occur. Three ranks give every order
  of two non-root opens and sends against rank 0's header and write, and a
  gatherv buffer with two displacements. The header
  is one byte: how many lines it has does not change which truncations can
  follow it.
- `EpochComputeNonNegative` is per rank; it is checked with the accounting
  bounds, one rank, where the MPI-in-ignore violation appears. In the
  passing run it is not checked: the refinement already implies it.

The VIEW `ViewWithoutRegionInfo` drops `region_info` from the fingerprint.
This is sound because no action reads `region_info`: it is written by
`LogRegionInfo` and cleared by `ClearRegionInfo`, and nothing else uses it.
Two states that differ only there have the same futures for every other
variable.

## 5. Fairness, liveness and deadlock

The regulator, the MSR save/restore and the Platform calls are synchronous,
bounded updates made when the application or the tool calls them (spec.md
5). Nothing in that code waits, retries or promises that an event will
eventually come, so their specifications have no fairness and no liveness
property. `CHECK_DEADLOCK FALSE` is set because a run stops when the
application stops sending events or the bounds are used up, and that is not
an error.

`Reporter::generate` runs on the controller of every node, and the nodes
meet in two MPI collectives, but each rank's part is a straight line of
steps. Under weak fairness of every step, that rank 0 eventually writes the
report would follow from that shape alone, so no liveness property is
checked and the specification has no fairness. The one real progress
hazard is the hang after a failed open: the other ranks wait in the gather
for ever (`PROJECT.json` lists it; the code has no timeout). A run of
`ReportGenerate` ends when rank 0 has written the report, or in that hang.

## 6. Not modelled (yet)

- The query surface (lines 188-286) is modelled as operators on the
  regulator record (`total_region_runtime`, `total_region_mpi_time`,
  `total_epoch_*`, `total_app_mpi_time`, `total_count`, ...). An average
  is kept as a (sum, count) pair, so comparisons are exact. `region_info()`
  (288-291) only returns the log. `is_regulated` and `per_rank_last_runtime`
  look up the id without stripping its hints; their callers are outside
  this repository, so no property says which ids they are given.
- An out-of-range rank is used before it is checked (line 144). The result
  is undefined behaviour, not a modelled outcome.
- `capacity()`, which sizes the input of `init_transform`, is defined
  outside this repository; the model takes it to be the socket and CPU
  block the loops index (`rank_offset`). `init_transform` reads
  `cpu_rank[cpu]` for every CPU without a bound check; only a `cpu_rank`
  with one entry per CPU has a defined outcome and is modelled.
- Of the Platform bookkeeping, the accessors (`name`, `level`,
  `num_domain`, `topology`, `power_model`, `num_control_domain`),
  `signal_domain_transform` and `write_msr_whitelist` only read state or
  forward to `PlatformImp`, which is outside this repository;
  `buffer_index` and `domain_index` only throw; the C entry points only
  catch exceptions. A second `set_implementation` leaks its PowerModel
  (the map keeps the first); the model reaches that state, but no run
  checks it, since a property failing on it would need a run of its own.
- A second session saving over the file of a killed one, without a restore
  in between, loses the original values (`RecoverFirst = FALSE` shows it).
  No run checks it: nothing in the repository says who must restore first.
- The Reporter's text formatting, hostname and `/proc` parsing are I/O.
  The file system is assumed to share the report path between nodes, as
  on a cluster file system; with node-local paths each node has its own
  (empty) file and only rank 0's is the report.
  With more than 16 rows of equal runtime, the `>=` comparator makes
  `std::sort` read out of bounds. That is undefined behaviour, not an
  outcome.
- The MSR table's domains, decoding functions, units and scalars are not
  used by any property.
- The tests are drivers, not behaviour.
- Four defects found while modelling are recorded as hazards rather than
  runs, because each sits in a single expression (see `PROJECT.json`,
  "hazards"):
  - `current_energy` reads domain 0 for every package (line 97);
  - the unchecked opens in save/restore (lines 401 and 442). Setting
    `SaveOpenFails = TRUE` breaks `RestoreRoundTrip`;
  - scatter rounds `num_cpu_max_perf / packages` down (line 361). Setting
    `ScatterRemainder = TRUE` breaks `ManualFrequencyPlacement`;
  - an `MPI_*` region's energy is counted twice (Reporter.cpp 143).
