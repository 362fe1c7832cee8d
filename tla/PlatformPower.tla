----------------------------- MODULE PlatformPower -----------------------------
(***************************************************************************)
(* Platform::tdp_limit and Platform::manual_frequency                     *)
(* (src/src/Platform.cpp 334-389): the values they compute for the MSRs,  *)
(* read back through the register layout of the MSR table (MsrKnl).        *)
(*                                                                         *)
(* A 64-bit word is the set of its set bits, so that shifts and ORs of    *)
(* 64-bit values stay within TLC's integers.                               *)
(***************************************************************************)
EXTENDS Integers, FiniteSetsExt

LOCAL Knl == INSTANCE MsrKnl

Bit == 0 .. 63

\* The word of a non-negative int64_t below 2^31.
Word(n) == {i \in 0 .. 30 : (n \div 2^i) % 2 = 1}
ShiftLeft(w, k) == {i + k : i \in w} \cap Bit
Mask(w, n) == w \cap Word(n)

\* The number held in field f of word w, and in a word below 2^31.
FieldValue(w, f) ==
  MapThenSumSet(LAMBDA i : 2^(i - f.begin_bit), w \cap f.begin_bit .. f.end_bit - 1)
WordValue(w) == FieldValue(w, [begin_bit |-> 0, end_bit |-> 31])

\* PKG_POWER_LIMIT_MASK_MAGIC == 0x0007800000078000: bits 15-18 and 47-50.
PKG_POWER_LIMIT_MASK_MAGIC == 15 .. 18 \cup 47 .. 50

(***************************************************************************)
(* tdp_limit(percentage) for one package: rapl_unit and power_info are    *)
(* the RAPL_POWER_UNIT and PKG_POWER_INFO words it reads.  For           *)
(* percentage in {100, 50, 25}, percentage * 0.01 rounds to 1, 1/2, 1/4   *)
(* and the double arithmetic is exact, so with q = 100 / percentage        *)
(*   pkg_lim = (int64_t)(tdp * tdp) = raw^2 \div (2^units * q)^2.          *)
(***************************************************************************)
tdp_limit_pkg_lim(percentage, rapl_unit, power_info) ==
  LET power_units == 2^WordValue(Mask(rapl_unit, 15))
      raw == WordValue(Mask(power_info, 16383))
  IN raw ^ 2 \div (power_units * (100 \div percentage)) ^ 2

tdp_limit(percentage, rapl_unit, power_info) ==
  LET pkg_lim == tdp_limit_pkg_lim(percentage, rapl_unit, power_info)
  IN Word(pkg_lim) \cup ShiftLeft(Word(pkg_lim), 32) \cup PKG_POWER_LIMIT_MASK_MAGIC

(***************************************************************************)
(* manual_frequency(frequency, num_cpu_max_perf, affinity) on a node of   *)
(* hw_cpu logical CPUs, logical_cpu hyperthreads per core and `package`    *)
(* packages.  It throws, or writes IA32_PERF_CTL of the CPUs it deems      *)
(* small; the others are not written.  frequency is a multiple of 100,    *)
(* for which (int64_t)(frequency * 0.01) is exact.                          *)
(***************************************************************************)
SCATTER == "GEOPM_FLAGS_SMALL_CPU_TOPOLOGY_SCATTER"
COMPACT == "GEOPM_FLAGS_SMALL_CPU_TOPOLOGY_COMPACT"

manual_frequency_throws(num_cpu_max_perf, hw_cpu, logical_cpu) ==
  num_cpu_max_perf >= hw_cpu \div logical_cpu

\* IsSmall with the compact bound taken inclusively.
IsSmall_compact_inclusive(i, num_cpu_max_perf, affinity, hw_cpu, logical_cpu, package) ==
  LET num_real_cpus == hw_cpu \div logical_cpu
      num_cpus_per_package == num_real_cpus \div package
      num_small_cores_per_package ==
        num_cpus_per_package - (num_cpu_max_perf \div package)
      real_cpu == i % num_real_cpus
  IN CASE affinity = SCATTER /\ num_cpu_max_perf > 0 ->
            (real_cpu % num_cpus_per_package) < num_small_cores_per_package
       [] affinity = COMPACT /\ num_cpu_max_perf > 0 ->
            real_cpu <= num_real_cpus - num_cpu_max_perf
       [] OTHER -> TRUE

IsSmall(i, num_cpu_max_perf, affinity, hw_cpu, logical_cpu, package) ==
  LET num_real_cpus == hw_cpu \div logical_cpu
      num_cpus_per_package == num_real_cpus \div package
      num_small_cores_per_package ==
        num_cpus_per_package - (num_cpu_max_perf \div package)
      real_cpu == i % num_real_cpus
  IN CASE affinity = SCATTER /\ num_cpu_max_perf > 0 ->
            (real_cpu % num_cpus_per_package) < num_small_cores_per_package
       [] affinity = COMPACT /\ num_cpu_max_perf > 0 ->
            real_cpu < num_real_cpus - num_cpu_max_perf
       [] OTHER -> TRUE

perf_ctl_value(frequency) == Mask(ShiftLeft(Word(frequency \div 100), 8), 65535)

\* The writes: logical CPU |-> IA32_PERF_CTL word.
manual_frequency(frequency, num_cpu_max_perf, affinity, hw_cpu, logical_cpu, package) ==
  [i \in {c \in 0 .. hw_cpu - 1 :
            IsSmall(c, num_cpu_max_perf, affinity, hw_cpu, logical_cpu, package)}
     |-> perf_ctl_value(frequency)]

====
