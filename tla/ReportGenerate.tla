---------------------------- MODULE ReportGenerate ----------------------------
(***************************************************************************)
(* The file side of Reporter::generate (src/src/Reporter.cpp 93-250), run *)
(* by the controller of every node: each rank opens the report file, rank *)
(* 0 writes the header, every rank sends its node report to rank 0         *)
(* (gather of the sizes, gatherv of the text), and rank 0 writes the       *)
(* gathered reports after its header.                                      *)
(*                                                                         *)
(* The report path is the same on every node and, as on a cluster with a  *)
(* shared file system, names one file.  A file is a sequence of bytes; a  *)
(* std::ofstream writes at its own offset, past the end of the file if    *)
(* the file has shrunk (the gap reads as '\0').  The header is one byte   *)
(* HEADER and node i's report is sizes[i] bytes i: only which writer put  *)
(* a byte where matters here.                                             *)
(***************************************************************************)
EXTENDS Reporter

CONSTANTS NumNode, Sizes

VARIABLES sizes,   \* sizes[r + 1]: buffer_size, the length of rank r's report
          pc,      \* pc[r]: where rank r is in generate
          file,    \* the bytes of the report file
          offset   \* offset[r]: the write position of rank r's master_report

gen_vars == <<sizes, pc, file, offset>>

Rank == 0 .. NumNode - 1

NUL == 0
HEADER == -1
EOL == -2

Header == <<HEADER>>

\* Rank r's per-node report, built in the ostringstream `report`.
node_report(r) == [k \in 1 .. sizes[r + 1] |-> r + 1]

\* A write of d at offset o: bytes past the end of f up to o read as '\0'.
WriteAt(f, o, d) ==
  [k \in 1 .. IF Len(f) > o + Len(d) THEN Len(f) ELSE o + Len(d) |->
     IF o < k /\ k <= o + Len(d) THEN d[k - o]
     ELSE IF k <= Len(f) THEN f[k] ELSE NUL]

\* report_buffer on rank 0 after the gatherv: resized (zero-filled) to
\* full_report_size, rank r's report copied in at buffer_displacement[r],
\* and the last byte set to '\0'.
gatherv_buffer ==
  LET d == buffer_displacement(sizes)
      n == full_report_size(sizes)
      from(k) == {i \in 1 .. NumNode : d[i] < k /\ k <= d[i] + sizes[i]}
      buf == [k \in 1 .. n |->
                IF from(k) = {} THEN NUL
                ELSE LET i == CHOOSE i \in from(k) : TRUE
                     IN node_report(i - 1)[k - d[i]]]
  IN [buf EXCEPT ![n] = NUL]

\* `master_report << report_buffer.data()`: the bytes before the first '\0'.
report_text(buf) ==
  LET first_nul == CHOOSE k \in DOMAIN buf : buf[k] = NUL /\ \A j \in 1 .. k - 1 : buf[j] # NUL
  IN SubSeq(buf, 1, first_nul - 1)

GenInit ==
  /\ sizes \in [1 .. NumNode -> Sizes]
  /\ pc = [r \in Rank |-> "start"]
  /\ file = <<>>
  /\ offset = [r \in Rank |-> 0]

\* std::ofstream master_report(report_name()): creates or truncates the file.
Open(r) ==
  /\ pc[r] = "start"
  /\ pc' = [pc EXCEPT ![r] = "opened"]
  /\ file' = <<>>
  /\ offset' = [offset EXCEPT ![r] = 0]
  /\ UNCHANGED sizes

\* !master_report.good(): generate throws on this rank.
OpenFails(r) ==
  /\ pc[r] = "start"
  /\ pc' = [pc EXCEPT ![r] = "failed"]
  /\ UNCHANGED <<sizes, file, offset>>

\* Rank 0 writes the header lines, each flushed by std::endl.
WriteHeader ==
  /\ pc[0] = "opened"
  /\ pc' = [pc EXCEPT ![0] = "header"]
  /\ file' = WriteAt(file, offset[0], Header)
  /\ offset' = [offset EXCEPT ![0] = offset[0] + Len(Header)]
  /\ UNCHANGED sizes

\* A rank other than 0 builds its report and sends its size (gather) and
\* its text (gatherv) to rank 0; its master_report closes unwritten.
Send(r) ==
  /\ r # 0
  /\ pc[r] = "opened"
  /\ pc' = [pc EXCEPT ![r] = "sent"]
  /\ UNCHANGED <<sizes, file, offset>>

\* Rank 0 leaves the gatherv once every rank has sent, and writes the
\* gathered reports and a newline.
Collect ==
  /\ pc[0] = "header"
  /\ \A r \in Rank \ {0} : pc[r] = "sent"
  /\ LET out == report_text(gatherv_buffer) \o <<EOL>>
     IN /\ file' = WriteAt(file, offset[0], out)
        /\ offset' = [offset EXCEPT ![0] = offset[0] + Len(out)]
  /\ pc' = [pc EXCEPT ![0] = "done"]
  /\ UNCHANGED sizes

GenNext ==
  \/ \E r \in Rank : Open(r) \/ OpenFails(r) \/ Send(r)
  \/ WriteHeader
  \/ Collect

====
