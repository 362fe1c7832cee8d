---------------------------- MODULE MsrSaveRestore ----------------------------
(***************************************************************************)
(* Platform::save_msr_state and Platform::restore_msr_state               *)
(* (src/src/Platform.cpp 391-459), reached through the C entry points     *)
(* geopm_platform_msr_save/restore (lines 51-81), around a controller     *)
(* session that reprograms the power-limit and frequency MSRs.             *)
(*                                                                         *)
(* The hardware registers are `msr`, the restore file on disk is `disk`.  *)
(* A session saves, writes control MSRs and restores; the process may be  *)
(* killed at any point.  ofstream is buffered, so a kill during the save  *)
(* leaves a byte prefix of the lines on disk: whole lines, and possibly    *)
(* a last line cut inside a field.                                          *)
(*                                                                         *)
(* Values are Width-bit words.  save writes the uint64_t value in decimal *)
(* and restore parses it back with atol (a signed long), so a word with   *)
(* its top bit set is parsed as LONG_MAX, which is how glibc's strtol     *)
(* saturates.  Width is a constant so that TLC's integers stay exact.     *)
(***************************************************************************)
EXTENDS Integers, SequencesExt

CONSTANTS
  NumPackage,       \* m_imp->package()
  NumCpu,           \* m_imp->hw_cpu()
  Width,            \* bits of an MSR word
  HwValues,         \* values the registers may hold before any session
  ControlValues,    \* values tdp_limit / manual_frequency program
  SaveOpenFails,    \* restore_file.open(path) in save may fail
  TornValues,       \* a kill during save may cut the last line in its value
  RecoverFirst      \* after a kill, the node is restored before the next save

ASSUME /\ NumPackage \in Nat \ {0} /\ NumCpu \in Nat \ {0}
       /\ Width \in 2 .. 30
       /\ HwValues \cup ControlValues \subseteq 0 .. 2^Width - 1
       /\ {SaveOpenFails, TornValues, RecoverFirst} \subseteq BOOLEAN

PACKAGE == "GEOPM_DOMAIN_PACKAGE"
CPU     == "GEOPM_DOMAIN_CPU"
\* A missing file and an empty one restore alike: open fails silently or
\* reads nothing, remove fails silently or succeeds, and the call returns 0.
NoFile  == << >>

\* The registers save_msr_state records, in the order it writes them.
PackageMsrs == <<"PKG_POWER_LIMIT", "PP0_POWER_LIMIT", "DRAM_POWER_LIMIT">>
CpuMsrs     == <<"PERF_FIXED_CTR_CTRL", "PERF_GLOBAL_CTRL",
                 "PERF_GLOBAL_OVF_CTRL", "IA32_PERF_CTL">>

SaveOrder ==
  [k \in 1 .. NumPackage * 3 |->
     <<PACKAGE, (k - 1) \div 3, PackageMsrs[((k - 1) % 3) + 1]>>]
  \o [k \in 1 .. NumCpu * 4 |->
     <<CPU, (k - 1) \div 4, CpuMsrs[((k - 1) % 4) + 1]>>]

Addrs == Range(SaveOrder)

\* What tdp_limit and manual_frequency write.
ControlAddrs ==
  {<<PACKAGE, i, "PKG_POWER_LIMIT">> : i \in 0 .. NumPackage - 1}
  \cup {<<CPU, i, "IA32_PERF_CTL">> : i \in 0 .. NumCpu - 1}

LongMax == 2^(Width - 1) - 1

\* A line of the file after getline(ss, item, ':'): the register it names,
\* the number its last field holds and how many fields it splits into.
Line(a, v) == [addr |-> a, value |-> v, nfields |-> 4]

RECURSIVE Digits(_)
Digits(v) == IF v < 10 THEN 1 ELSE 1 + Digits(v \div 10)

\* The lines the save loop writes for the registers' current values.
save_lines(m) == [k \in DOMAIN SaveOrder |-> Line(SaveOrder[k], m[SaveOrder[k]])]

\* A line cut by a kill: inside its last field (a decimal prefix of the
\* value, at least one digit), or earlier, leaving fewer than 4 fields.
TornLines(l) ==
  (IF TornValues
   THEN {[l EXCEPT !.value = l.value \div 10^k] : k \in 1 .. Digits(l.value) - 1}
   ELSE {})
  \cup {[l EXCEPT !.nfields = n] : n \in 1 .. 3}

\* What is on disk when the process is killed while the save loop runs.
CrashImages(ls) ==
  {SubSeq(ls, 1, k) : k \in 0 .. Len(ls)}
  \cup UNION {{Append(SubSeq(ls, 1, k), t) : t \in TornLines(ls[k + 1])} :
               k \in 0 .. Len(ls) - 1}

\* atol on the decimal text of a value, then the int64_t -> uint64_t
\* conversion of the write_msr argument.
atol(v) == IF v > LongMax THEN LongMax ELSE v
msr_word(v) == atol(v) % 2^Width

\* The while (getline) loop of restore_msr_state over the lines ls: each
\* well-formed line is written; the first malformed one throws.
RestoreWrite(m, l) == [m EXCEPT ![l.addr] = msr_word(l.value)]
FirstMalformed(ls) ==
  LET bad == {k \in DOMAIN ls : ls[k].nfields # 4}
  IN IF bad = {} THEN Len(ls) + 1 ELSE Min(bad)
restore_msr_state_skip_last(m, ls) ==
  FoldLeft(RestoreWrite, m, SubSeq(ls, 1, FirstMalformed(ls) - 2))
restore_msr_state(m, ls) ==
  FoldLeft(RestoreWrite, m, SubSeq(ls, 1, FirstMalformed(ls) - 1))

VARIABLES
  msr,     \* the registers, by <<domain, index, name>>
  disk,    \* the restore file: its sequence of lines
  phase,   \* "idle", "running" (a session saved and controls), "crashed"
  orig     \* the registers before any session touched them

vars == <<msr, disk, phase, orig>>

Init ==
  /\ msr \in [Addrs -> HwValues]
  /\ orig = msr
  /\ disk = NoFile
  /\ phase = "idle"

\* A session may start once the previous one ended; after a kill, the
\* node is restored first unless RecoverFirst is FALSE.
CanStart == phase = "idle" \/ (~RecoverFirst /\ phase = "crashed")

\* save_msr_state: open truncates the file and the loop writes one line
\* per register.  If the ofstream fails to open (SaveOpenFails), every <<
\* is a no-op, the file is left as it was and save still returns 0.
SaveMsrState ==
  /\ CanStart
  /\ disk' \in {save_lines(msr)} \cup (IF SaveOpenFails THEN {disk} ELSE {})
  /\ phase' = "running"
  /\ UNCHANGED <<msr, orig>>

\* The process is killed inside the save loop.
SaveKilled ==
  /\ CanStart
  /\ disk' \in CrashImages(save_lines(msr))
  /\ phase' = "crashed"
  /\ UNCHANGED <<msr, orig>>

\* tdp_limit / manual_frequency write a control register.
WriteControl(a, v) ==
  /\ phase = "running"
  /\ msr' = [msr EXCEPT ![a] = v]
  /\ UNCHANGED <<disk, phase, orig>>

\* The session's process dies before it restores.
Kill ==
  /\ phase = "running"
  /\ phase' = "crashed"
  /\ UNCHANGED <<msr, disk, orig>>

\* restore_msr_state: the lines are written in order; a malformed line
\* throws and the file stays, otherwise the file is removed.
RestoreMsrState ==
  /\ msr' = restore_msr_state(msr, disk)
  /\ disk' = IF FirstMalformed(disk) > Len(disk) THEN NoFile ELSE disk
  /\ phase' = IF disk' = NoFile THEN "idle" ELSE "crashed"
  /\ UNCHANGED orig

\* The restoring process is killed after writing the first k lines.
RestoreKilled ==
  /\ disk # NoFile
  /\ \E k \in 0 .. FirstMalformed(disk) - 1 :
       msr' = FoldLeft(RestoreWrite, msr, SubSeq(disk, 1, k))
  /\ phase' = "crashed"
  /\ UNCHANGED <<disk, orig>>

Next ==
  \/ SaveMsrState
  \/ SaveKilled
  \/ \E a \in ControlAddrs, v \in ControlValues : WriteControl(a, v)
  \/ Kill
  \/ RestoreMsrState
  \/ RestoreKilled

Spec == Init /\ [][Next]_vars

-----------------------------------------------------------------------------
\* A call of geopm_platform_msr_restore that returns 0.
RestoreSucceeded ==
  /\ RestoreMsrState
  /\ FirstMalformed(disk) > Len(disk)

\* Whenever geopm_platform_msr_restore returns success, every register
\* save_msr_state records holds the value it had before the first session
\* reprogrammed anything, whatever kills, partial saves and partial
\* restores happened in between.
RestoreRoundTrip ==
  [][RestoreSucceeded => \A a \in Addrs : msr'[a] = orig[a]]_vars

====
