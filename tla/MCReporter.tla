------------------------------ MODULE MCReporter ------------------------------
(***************************************************************************)
(* Enumerates what application_io and platform_io may report for three    *)
(* regions, one of them an MPI function, and the report sizes of NumNode  *)
(* nodes, and checks the rows generate produces and the report file the   *)
(* ranks of those nodes leave behind.                                      *)
(***************************************************************************)
EXTENDS ReportGenerate

CONSTANTS Names, Counts, Runtimes, Energies

Ids == UNION {{RegionIdOf(n), set_mpi(RegionIdOf(n))} : n \in Names}
       \cup {UnmarkedId, set_mpi(UnmarkedId), EpochId, set_mpi(EpochId)}

VARIABLES app, pio

vars == <<app, pio, sizes, pc, file, offset>>

\* Per-name counts and runtimes; the sentinels' are fixed.
PerId(f, dflt) ==
  [id \in Ids |-> IF \E n \in Names : id = RegionIdOf(n)
                  THEN f[CHOOSE n \in Names : id = RegionIdOf(n)] ELSE dflt]

AppInputs ==
  {[region_name_set |-> Names, total_count |-> PerId(c, 1),
    total_region_runtime |-> PerId(r, 1),
    total_epoch_runtime |-> 3, total_epoch_mpi_runtime |-> 1,
    total_epoch_ignore_runtime |-> 1, total_epoch_energy |-> 5] :
     c \in [Names -> Counts], r \in [Names -> Runtimes]}

\* Every id's region totals equal e.
PioInputs ==
  {[s \in {"ENERGY_PACKAGE", "ENERGY_DRAM", "CYCLES_THREAD", "CYCLES_REFERENCE"}
      |-> [id \in Ids |-> e]] : e \in Energies}

\* The inputs of one generate call, and its steps on every rank.
Init ==
  /\ app \in AppInputs
  /\ pio \in PioInputs
  /\ GenInit

Next == GenNext /\ UNCHANGED <<app, pio>>
Spec == Init /\ [][Next]_vars

\* Once rank 0 has written the gathered reports, the file holds, right
\* after the header, every node's report in rank order and the newline:
\* all ranks opened (and truncated) the file before they sent their report,
\* so no truncation can come after this write.
ReportBodyWritten ==
  pc[0] = "done" =>
    SubSeq(file, Len(Header) + 1, Len(file)) =
      FlattenSeq([i \in 1 .. NumNode |-> node_report(i - 1)]) \o <<EOL>>

\* Once rank 0 is done, the file starts with the header rank 0 wrote.
ReportHeaderKept ==
  pc[0] = "done" => SubSeq(file, 1, Len(Header)) = Header

====
