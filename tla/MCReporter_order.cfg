\* Three regions, one an MPI function; counts 0 or 1, runtimes with ties;
\* three nodes whose reports are 1 or 2 bytes long.
CONSTANTS
  Names = {"dgemm", "stream", "MPI_Allreduce"}
  MpiNames = {"MPI_Allreduce"}
  UNMARKED = UNMARKED
  EPOCH = EPOCH
  Counts = {0, 1}
  Runtimes = {1, 2}
  Energies = {1}
  Sizes = {1, 2}
  NumNode = 3
SPECIFICATION Spec
INVARIANT ReportBodyWritten
CHECK_DEADLOCK FALSE
