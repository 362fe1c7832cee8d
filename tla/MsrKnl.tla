-------------------------------- MODULE MsrKnl --------------------------------
(***************************************************************************)
(* The Knights Landing MSR table of msr_knl() (src/src/msr_knl.cpp).      *)
(* Each register has a name, an offset, the signals that read it and the  *)
(* controls that write it; a signal or control is a bit field             *)
(* [begin_bit, end_bit).  The domain, decoding function, units and scalar *)
(* of each field are left out: nothing checked here depends on them.      *)
(***************************************************************************)
EXTENDS Integers, SequencesExt

F(n, b, e) == [name |-> n, begin_bit |-> b, end_bit |-> e]

MSR(n, off, signal, control) ==
  [name |-> n, offset |-> off, signal |-> signal, control |-> control]

\* The controls of PKG_POWER_LIMIT with HARD_POWER_LIMIT one bit too wide.
pkg_power_limit_control_typo ==
  {F("SOFT_POWER_LIMIT", 0, 15), F("SOFT_LIMIT_ENABLE", 15, 16),
   F("SOFT_CLAMP_ENABLE", 16, 17), F("SOFT_TIME_WINDOW", 17, 24),
   F("HARD_POWER_LIMIT", 32, 48), F("HARD_LIMIT_ENABLE", 47, 48),
   F("HARD_CLAMP_ENABLE", 48, 49), F("HARD_TIME_WINDOW", 49, 56)}

\* The controls of PKG_POWER_LIMIT (lines 90-147).
pkg_power_limit_control ==
  {F("SOFT_POWER_LIMIT", 0, 15), F("SOFT_LIMIT_ENABLE", 15, 16),
   F("SOFT_CLAMP_ENABLE", 16, 17), F("SOFT_TIME_WINDOW", 17, 24),
   F("HARD_POWER_LIMIT", 32, 47), F("HARD_LIMIT_ENABLE", 47, 48),
   F("HARD_CLAMP_ENABLE", 48, 49), F("HARD_TIME_WINDOW", 49, 56)}

\* The frequency and package RAPL registers (lines 42-186).
pkg_msrs ==
  << MSR("PERF_STATUS", 408, {F("FREQ", 8, 16)}, {}),
     MSR("PERF_CTL", 409, {}, {F("FREQ", 8, 16), F("ENABLE", 32, 33)}),
     MSR("PKG_RAPL_UNIT", 1542,
         {F("POWER", 0, 4), F("ENERGY", 8, 13), F("TIME", 16, 20)}, {}),
     MSR("PKG_POWER_LIMIT", 1552, {}, pkg_power_limit_control),
     MSR("PKG_ENERGY_STATUS", 1553, {F("ENERGY", 0, 32)}, {}),
     MSR("PKG_POWER_INFO", 1556,
         {F("THERMAL_SPEC_POWER", 0, 15), F("MIN_POWER", 16, 31),
          F("MAX_POWER", 32, 47), F("MAX_TIME_WINDOW", 48, 55)}, {}) >>

\* The DRAM RAPL registers (lines 187-257).
dram_msrs ==
  << MSR("DRAM_POWER_LIMIT", 1560, {},
         {F("POWER_LIMIT", 0, 15), F("ENABLE", 15, 16), F("TIME_WINDOW", 17, 24)}),
     MSR("DRAM_ENERGY_STATUS", 1561, {F("ENERGY", 0, 32)}, {}),
     MSR("DRAM_PERF_STATUS", 1563, {F("THROTTLE_TIME", 0, 32)}, {}),
     MSR("DRAM_POWER_INFO", 1564,
         {F("THERMAL_SPEC_POWER", 0, 15), F("MIN_POWER", 16, 31),
          F("MAX_POWER", 32, 47), F("MAX_TIME_WINDOW", 48, 55)}, {}) >>

\* The fixed-counter control registers (lines 258-396).
perf_ctrl_msrs ==
  << MSR("PERF_FIXED_CTR_CTRL", 909, {},
         {F("EN0_OS", 0, 1), F("EN0_USR", 1, 2), F("EN0_PMI", 3, 4),
          F("EN1_OS", 4, 5), F("EN1_USR", 5, 6), F("EN1_PMI", 7, 8),
          F("EN2_OS", 8, 9), F("EN2_USR", 9, 10), F("EN2_PMI", 11, 12)}),
     MSR("PERF_GLOBAL_CTRL", 911, {},
         {F("EN_PMC0", 0, 1), F("EN_PMC1", 1, 2), F("EN_FIXED_CTR0", 32, 33),
          F("EN_FIXED_CTR1", 33, 34), F("EN_FIXED_CTR2", 34, 35)}),
     MSR("PERF_GLOBAL_OVF_CTRL", 912, {},
         {F("CLEAR_OVF_PMC0", 0, 1), F("CLEAR_OVF_PMC1", 1, 2),
          F("CLEAR_OVF_FIXED_CTR0", 32, 33), F("CLEAR_OVF_FIXED_CTR1", 33, 34),
          F("CLEAR_OVF_FIXED_CTR2", 34, 35)}) >>

\* The fixed counters (lines 397-423).
fixed_ctr_msrs ==
  << MSR("PERF_FIXED_CTR0", 777, {F("INST_RETIRED_ANY", 0, 64)}, {}),
     MSR("PERF_FIXED_CTR1", 778, {F("CPU_CLK_UNHALTED_THREAD", 0, 64)}, {}),
     MSR("PERF_FIXED_CTR2", 779, {F("CPU_CLK_UNHALTED_REF_TSC", 0, 64)}, {}) >>

\* msr_knl(num_msr): the table, in its order.
msr_knl == pkg_msrs \o dram_msrs \o perf_ctrl_msrs \o fixed_ctr_msrs

\* The register and the field of it named n and f.
Reg(n) == CHOOSE r \in Range(msr_knl) : r.name = n
FieldOf(n, f) == CHOOSE x \in Reg(n).signal \cup Reg(n).control : x.name = f

====
