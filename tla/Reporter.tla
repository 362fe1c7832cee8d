------------------------------- MODULE Reporter -------------------------------
(***************************************************************************)
(* Reporter::generate (src/src/Reporter.cpp 93-250): the rows of the      *)
(* per-node report and how the nodes' reports are gathered into the       *)
(* master report.  Text formatting is left out: a row is a record of the  *)
(* numbers it prints.                                                       *)
(*                                                                         *)
(* app is what application_io returns, pio[s][id] is                       *)
(* m_platform_io.sample_region_total(s, id) for the signals                *)
(* "ENERGY_PACKAGE", "ENERGY_DRAM", "CYCLES_THREAD", "CYCLES_REFERENCE".   *)
(* A region id is [base, mpi]: base stands for geopm_crc32_str of the     *)
(* name and mpi for the MPI hint bit.                                       *)
(***************************************************************************)
EXTENDS Integers, SequencesExt

CONSTANTS
  MpiNames,   \* region names that begin with "MPI_"
  UNMARKED,   \* GEOPM_REGION_ID_UNMARKED
  EPOCH       \* GEOPM_REGION_ID_EPOCH

set_mpi(id) == [id EXCEPT !.mpi = TRUE]

\* The id generate derives from a region name.
RegionIdOf(name) == [base |-> name, mpi |-> name \in MpiNames]
UnmarkedId == [base |-> UNMARKED, mpi |-> FALSE]
EpochId    == [base |-> EPOCH, mpi |-> FALSE]

\* The energy of a region row: package and DRAM energy of the id and of its
\* MPI variant.
RegionEnergy(pio, id) ==
  pio["ENERGY_PACKAGE"][id] + pio["ENERGY_PACKAGE"][set_mpi(id)]
  + pio["ENERGY_DRAM"][id] + pio["ENERGY_DRAM"][set_mpi(id)]

Row(name, id, runtime, energy, count) ==
  [name |-> name, id |-> id, runtime |-> runtime, energy |-> energy, count |-> count]

\* NamedRows without the count > 0 filter.
NamedRows_uncounted(app, pio) ==
  {Row(n, RegionIdOf(n), app.total_region_runtime[RegionIdOf(n)],
       RegionEnergy(pio, RegionIdOf(n)), app.total_count[RegionIdOf(n)]) :
     n \in app.region_name_set}

\* region_ordered before the sort: one row per named region with count > 0.
NamedRows(app, pio) ==
  {Row(n, RegionIdOf(n), app.total_region_runtime[RegionIdOf(n)],
       RegionEnergy(pio, RegionIdOf(n)), app.total_count[RegionIdOf(n)]) :
     n \in {m \in app.region_name_set : app.total_count[RegionIdOf(m)] > 0}}

\* The orders std::sort may leave them in with the comparator
\* a.runtime >= b.runtime.  That is not a strict weak ordering, so with
\* equal runtimes no order meets std::sort's contract; below 17 rows
\* libstdc++ runs an insertion sort that yields some non-increasing order.
SortedRows(rows) ==
  {s \in SetToSeqs(rows) : IsSorted(s, LAMBDA a, b : a.runtime >= b.runtime)}

\* The unmarked and epoch rows appended after the sort.
TailRows(app, pio) ==
  << Row("unmarked-region", UnmarkedId, app.total_region_runtime[UnmarkedId],
         RegionEnergy(pio, UnmarkedId), 0),
     Row("epoch", EpochId,
         app.total_epoch_runtime + app.total_epoch_mpi_runtime
           + app.total_epoch_ignore_runtime,
         app.total_epoch_energy, app.total_count[EpochId]) >>

\* Every region_ordered generate may produce.
region_ordered(app, pio) ==
  {s \o TailRows(app, pio) : s \in SortedRows(NamedRows(app, pio))}

\* The frequency (%) printed for a row.
RowFrequency(pio, row) ==
  LET numer == pio["CYCLES_THREAD"][row.id] + pio["CYCLES_THREAD"][set_mpi(row.id)]
      denom == pio["CYCLES_REFERENCE"][row.id] + pio["CYCLES_REFERENCE"][set_mpi(row.id)]
  IN IF denom # 0 THEN (100 * numer) \div denom ELSE 0

(***************************************************************************)
(* The gather on rank 0: buffer_size_array[i] is node i's report size;    *)
(* node i's report lands at buffer_displacement[i] of a buffer of         *)
(* full_report_size bytes whose last byte is set to '\0'.                  *)
(***************************************************************************)
full_report_size(sizes) == SumFunction(sizes) + 1

buffer_displacement_shifted(sizes) ==
  LET n == Len(sizes)
      d[i \in 1 .. n] == IF i = 1 THEN 0 ELSE d[i - 1] + sizes[i]
  IN d

buffer_displacement(sizes) ==
  LET n == Len(sizes)
      d[i \in 1 .. n] == IF i = 1 THEN 0 ELSE d[i - 1] + sizes[i - 1]
  IN d

====
