\* The report file of two nodes; the region inputs are fixed.
\* Two nodes whose reports are 1 or 2 bytes long.
CONSTANTS
  Names = {"dgemm", "stream", "MPI_Allreduce"}
  MpiNames = {"MPI_Allreduce"}
  UNMARKED = UNMARKED
  EPOCH = EPOCH
  Counts = {1}
  Runtimes = {1}
  Energies = {1}
  Sizes = {1, 2}
  NumNode = 2
SPECIFICATION Spec
INVARIANT ReportHeaderKept
CHECK_DEADLOCK FALSE
