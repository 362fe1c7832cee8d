---------------------------- MODULE MCPlatformPower ----------------------------
(***************************************************************************)
(* A Platform object over its life (PlatformLifecycle) and the calls of  *)
(* its API made while it has an implementation: the last call is          *)
(* tdp_limit, manual_frequency or init_transform, with its arguments, on  *)
(* a small topology.  What tdp_limit and manual_frequency program is checked      *)
(* against the register layout of the KNL MSR table, and the matrix        *)
(* init_transform builds against a reference definition.                   *)
(***************************************************************************)
EXTENDS PlatformPower, PlatformLifecycle, SequencesExt

CONSTANTS
  Packages,          \* package counts
  CoresPerPackage,   \* real cores per package
  Hyperthreads,      \* hyperthreads per core
  Frequencies,       \* manual_frequency frequency arguments (MHz)
  ScatterRemainder,  \* scatter with num_cpu_max_perf not a multiple of package
  Percentages,       \* tdp_limit percentage arguments
  PowerUnits,        \* RAPL_POWER_UNIT power-unit exponents
  ThermalSpecPowers, \* PKG_POWER_INFO THERMAL_SPEC_POWER fields
  XfSockets,         \* init_transform: package counts
  XfCpus,            \* init_transform: logical CPU counts
  XfHyperthreads,    \* init_transform: hyperthreads per core
  XfControls,        \* init_transform: control domain types
  RankIds,           \* the ranks cpu_rank may name
  NUM_DOMAIN, NUM_COUNTER, NUM_SIGNAL_TYPE, Scale

Knl == INSTANCE MsrKnl
Xf == INSTANCE PlatformTransform

MfInputs ==
  UNION {{[package |-> p, hw_cpu |-> p * c * h, logical_cpu |-> h,
           num_cpu_max_perf |-> n, affinity |-> a, frequency |-> f] :
            n \in {m \in 0 .. p * c - 1 :
                     a = SCATTER => (ScatterRemainder \/ m % p = 0)}} :
          p \in Packages, c \in CoresPerPackage, h \in Hyperthreads,
          a \in {SCATTER, COMPACT, "GEOPM_FLAGS_SMALL_CPU_TOPOLOGY_NONE"},
          f \in Frequencies}

TdpInputs ==
  [percentage : Percentages, rapl_unit : {Word(u) : u \in PowerUnits},
   power_info : {Word(t) : t \in ThermalSpecPowers}]

\* The topology PlatformTopology reports for `sockets` packages of
\* cpus / ht cores, Linux numbering (the hyperthreads of core r are
\* r, r + cores, ...), and the CPUs of each domain of the control type.
Topo(sockets, cpus, ht, control) ==
  LET cores == cpus \div ht
      socket_cpus == [s \in Xf!Idx(sockets) |->
                        {c \in Xf!Idx(cpus) : (c % cores) \div (cores \div sockets) = s}]
      tiles == [d \in Xf!Idx(cores \div 2) |-> {c \in Xf!Idx(cpus) : (c % cores) \div 2 = d}]
  IN [num_socket |-> sockets, num_cpu |-> cpus, socket_cpus |-> socket_cpus,
      control_cpus |-> CASE control = "GEOPM_DOMAIN_PACKAGE" -> socket_cpus
                         [] control = "GEOPM_DOMAIN_TILE" -> tiles
                         [] OTHER -> [d \in Xf!Idx(cpus) |-> {d}]]

XfInputs ==
  UNION {{[topo |-> Topo(s, c, h, ctl), cpu_rank |-> cr] : cr \in [Xf!Idx(c) -> RankIds]} :
           s \in XfSockets, c \in XfCpus, h \in XfHyperthreads, ctl \in XfControls}

Calls ==
  {[op |-> "manual_frequency", mf |-> a] : a \in MfInputs}
  \cup {[op |-> "tdp_limit", tdp |-> a] : a \in TdpInputs}
  \cup {[op |-> "init_transform", xf |-> a] : a \in XfInputs}

VARIABLE call   \* the last call made, NoCall before the first

NoCall == [op |-> "none"]

vars == <<call, life_vars>>

Init == call = NoCall /\ LifeInit
\* The next call, of any of the functions, with any arguments; each of
\* them uses m_imp, so it needs an implementation and a live object.
NextCall ==
  /\ alive /\ imp # NULL
  /\ call' \in Calls
  /\ UNCHANGED life_vars
Next == NextCall \/ (LifeNext /\ UNCHANGED call)
Spec == Init /\ [][Next]_vars

mf  == call.mf
tdp == call.tdp

Writes == manual_frequency(mf.frequency, mf.num_cpu_max_perf, mf.affinity,
                           mf.hw_cpu, mf.logical_cpu, mf.package)
NumRealCpus == mf.hw_cpu \div mf.logical_cpu
\* The logical CPUs of real core r.
Threads(r) == {r + k * NumRealCpus : k \in 0 .. mf.logical_cpu - 1}
\* Real cores of which no hyperthread is written (left at maximum performance).
MaxPerfCores == {r \in 0 .. NumRealCpus - 1 : Threads(r) \cap DOMAIN Writes = {}}

\* manual_frequency, unless it throws, leaves exactly num_cpu_max_perf real
\* cores unwritten when a small-CPU topology is requested (none otherwise),
\* treats the hyperthreads of a core alike, spreads the unwritten cores
\* evenly over the packages under scatter, and programs the FREQ field of
\* PERF_CTL with frequency / 100 MHz on every CPU it writes.
ManualFrequencyPlacement ==
  call.op = "manual_frequency" /\ ~manual_frequency_throws(mf.num_cpu_max_perf, mf.hw_cpu, mf.logical_cpu) =>
    LET pinned == mf.affinity \in {SCATTER, COMPACT} /\ mf.num_cpu_max_perf > 0
        per_pkg == NumRealCpus \div mf.package
    IN /\ Cardinality(MaxPerfCores) = IF pinned THEN mf.num_cpu_max_perf ELSE 0
       /\ \A r \in 0 .. NumRealCpus - 1 :
            Threads(r) \subseteq DOMAIN Writes \/ Threads(r) \cap DOMAIN Writes = {}
       /\ mf.affinity = SCATTER =>
            \A p \in 0 .. mf.package - 1 :
              Cardinality({r \in MaxPerfCores : r \div per_pkg = p}) * mf.package
                = Cardinality(MaxPerfCores)
       /\ \A i \in DOMAIN Writes :
            FieldValue(Writes[i], Knl!FieldOf("PERF_CTL", "FREQ")) = mf.frequency \div 100

\* tdp_limit programs both the soft and the hard power limit of
\* PKG_POWER_LIMIT with percentage % of the package's THERMAL_SPEC_POWER
\* (both in the same RAPL power units), with both limits enabled and
\* clamped, as its comment says ("set its power limit to match").
TdpLimitProgramsTdp ==
  call.op = "tdp_limit" =>
  LET w == tdp_limit(tdp.percentage, tdp.rapl_unit, tdp.power_info)
      tsp == FieldValue(tdp.power_info, Knl!FieldOf("PKG_POWER_INFO", "THERMAL_SPEC_POWER"))
      want == (tsp * tdp.percentage) \div 100
      Fld(f) == FieldValue(w, Knl!FieldOf("PKG_POWER_LIMIT", f))
  IN /\ Fld("SOFT_POWER_LIMIT") = want /\ Fld("HARD_POWER_LIMIT") = want
     /\ \A f \in {"SOFT_LIMIT_ENABLE", "SOFT_CLAMP_ENABLE",
                  "HARD_LIMIT_ENABLE", "HARD_CLAMP_ENABLE"} : Fld(f) = 1

\* Every bit set by the PERF_CTL words manual_frequency writes and by
\* PKG_POWER_LIMIT_MASK_MAGIC, which tdp_limit ORs into every power-limit
\* word, falls in exactly one control field of the register written
\* according to the MSR table: the writes neither touch reserved bits nor
\* hit two overlapping fields.
WritesDecodeUniquely ==
  LET InOneControl(w, n) ==
        \A b \in w : Cardinality({f \in Knl!Reg(n).control :
                                   b \in f.begin_bit .. f.end_bit - 1}) = 1
  IN /\ call.op = "manual_frequency" =>
          \A i \in DOMAIN Writes : InOneControl(Writes[i], "PERF_CTL")
     /\ InOneControl(PKG_POWER_LIMIT_MASK_MAGIC, "PKG_POWER_LIMIT")

(***************************************************************************)
(* Reference for init_transform, stated per input signal rather than per  *)
(* matrix index: a socket signal belongs to the socket's CPUs, a CPU      *)
(* counter to its CPU, a rank signal to the CPUs cpu_rank gives the rank; *)
(* each is of one signal type, and control domain d receives the share of *)
(* it that its CPUs hold.                                                  *)
(***************************************************************************)
RefInputs(topo, cpu_rank) ==
  LET ranks == SetToSortSeq(Range(cpu_rank), <)
  IN {[index |-> s * NUM_DOMAIN + t, type |-> t, cpus |-> topo.socket_cpus[s]] :
        s \in Xf!Idx(topo.num_socket), t \in Xf!Idx(NUM_DOMAIN)}
     \cup {[index |-> topo.num_socket * NUM_DOMAIN + c * NUM_COUNTER + t,
            type |-> NUM_DOMAIN + t, cpus |-> {c}] :
              c \in Xf!Idx(topo.num_cpu), t \in Xf!Idx(NUM_COUNTER)}
     \cup {[index |-> topo.num_socket * NUM_DOMAIN + topo.num_cpu * NUM_COUNTER
                      + (l - 1) * 2 + t,
            type |-> NUM_SIGNAL_TYPE - 2 + t,
            cpus |-> {c \in DOMAIN cpu_rank : cpu_rank[c] = ranks[l]}] :
              l \in DOMAIN ranks, t \in Xf!Idx(2)}

\* init_transform builds a matrix with one row per signal of each control
\* domain and one column per input signal, and entry [d, type][x] is the
\* fraction of input x that the CPUs of control domain d hold when x is
\* of that type, 0 otherwise: socket signals are spread evenly over the
\* socket's CPUs, rank signals over the rank's CPUs, and each control
\* domain sums its CPUs.
TransformMatchesReference ==
  call.op = "init_transform" =>
    LET topo == call.xf.topo
        m == Xf!signal_domain_matrix(topo, call.xf.cpu_rank)
        ins == RefInputs(topo, call.xf.cpu_rank)
    IN /\ DOMAIN m = Xf!Idx(Cardinality(DOMAIN topo.control_cpus) * NUM_SIGNAL_TYPE)
       /\ \A d \in DOMAIN topo.control_cpus, t \in Xf!Idx(NUM_SIGNAL_TYPE) :
            /\ DOMAIN m[d * NUM_SIGNAL_TYPE + t] = {x.index : x \in ins}
            /\ \A x \in ins :
                 m[d * NUM_SIGNAL_TYPE + t][x.index] =
                   IF x.type = t
                   THEN (Scale * Cardinality(x.cpus \cap topo.control_cpus[d]))
                          \div Cardinality(x.cpus)
                   ELSE 0

====
