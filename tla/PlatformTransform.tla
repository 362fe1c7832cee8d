--------------------------- MODULE PlatformTransform ---------------------------
(***************************************************************************)
(* Platform::init_transform(cpu_rank) (src/src/Platform.cpp 180-313): the *)
(* signal_domain_matrix that maps the input signals of the node (per      *)
(* socket, per CPU and per application rank) to the signals of each       *)
(* control domain, built as gather_matrix * scatter_matrix.                *)
(*                                                                         *)
(* The matrices hold doubles 1/n with n a CPU count; here every entry is  *)
(* an integer in units of 1/Scale, with every CPU count dividing Scale,   *)
(* so the arithmetic is exact.                                             *)
(*                                                                         *)
(* A topology is a record: num_socket (m_imp->package()), num_cpu          *)
(* (m_imp->hw_cpu()), socket_cpus[s] (the logical_index of the CPU        *)
(* children of socket s) and control_cpus[d] (those of control domain d). *)
(***************************************************************************)
EXTENDS Integers, FiniteSetsExt, Functions

CONSTANTS
  NUM_DOMAIN,        \* m_num_domain: signals per socket
  NUM_COUNTER,       \* m_num_counter: signals per CPU
  NUM_SIGNAL_TYPE,   \* GEOPM_NUM_SIGNAL_TYPE
  Scale              \* matrix entries are multiples of 1 / Scale

NUM_RANK_SIGNAL == 2

Idx(n) == 0 .. n - 1

\* local_rank_map: each distinct rank of cpu_rank |-> its position in
\* ascending order (the std::set iteration).
local_rank_map(cpu_rank) ==
  [r \in Range(cpu_rank) |-> Cardinality({q \in Range(cpu_rank) : q < r})]

num_local_rank(cpu_rank) == Cardinality(Range(cpu_rank))

\* rank_scatter_factor: 1 / (the number of cpu_rank entries of the rank).
rank_scatter_factor(cpu_rank) ==
  LET lrm == local_rank_map(cpu_rank)
  IN [lr \in Idx(num_local_rank(cpu_rank)) |->
        Scale \div Cardinality({c \in DOMAIN cpu_rank : lrm[cpu_rank[c]] = lr})]

socket_scatter_factor(topo) ==
  [s \in Idx(topo.num_socket) |-> Scale \div Cardinality(topo.socket_cpus[s])]

\* The index layout of the input signals; capacity() is the socket and
\* CPU block (rank_offset), the layout the loops below index.
cpu_offset(topo)  == topo.num_socket * NUM_DOMAIN
rank_offset(topo) == cpu_offset(topo) + topo.num_cpu * NUM_COUNTER
num_in_signal(topo, cpu_rank) ==
  rank_offset(topo) + num_local_rank(cpu_rank) * NUM_RANK_SIGNAL
num_out_signal(topo) == Cardinality(DOMAIN topo.control_cpus) * NUM_SIGNAL_TYPE
num_cpu_signal(topo) == topo.num_cpu * NUM_SIGNAL_TYPE

\* ScatterValue with the rank signals not shifted to the last signal types.
ScatterValue_rank_type(topo, cpu_rank, i, j) ==
  LET cpu == i \div NUM_SIGNAL_TYPE
      i_signal == i % NUM_SIGNAL_TYPE
  IN CASE j < cpu_offset(topo) ->
            IF /\ i_signal = j % NUM_DOMAIN
               /\ cpu \in topo.socket_cpus[j \div NUM_DOMAIN]
            THEN socket_scatter_factor(topo)[j \div NUM_DOMAIN] ELSE 0
       [] j < rank_offset(topo) ->
            IF /\ i_signal = ((j - cpu_offset(topo)) % NUM_COUNTER) + NUM_DOMAIN
               /\ (j - cpu_offset(topo)) \div NUM_COUNTER = cpu
            THEN Scale ELSE 0
       [] OTHER ->
            LET local_rank == (j - rank_offset(topo)) \div NUM_RANK_SIGNAL
            IN IF /\ i_signal = ((j - rank_offset(topo)) % NUM_RANK_SIGNAL)
                  /\ local_rank = local_rank_map(cpu_rank)[cpu_rank[cpu]]
               THEN rank_scatter_factor(cpu_rank)[local_rank] ELSE 0

\* scatter_matrix[i][j]: how much of input signal j CPU signal i receives.
ScatterValue(topo, cpu_rank, i, j) ==
  LET cpu == i \div NUM_SIGNAL_TYPE
      i_signal == i % NUM_SIGNAL_TYPE
  IN CASE j < cpu_offset(topo) ->
            IF /\ i_signal = j % NUM_DOMAIN
               /\ cpu \in topo.socket_cpus[j \div NUM_DOMAIN]
            THEN socket_scatter_factor(topo)[j \div NUM_DOMAIN] ELSE 0
       [] j < rank_offset(topo) ->
            IF /\ i_signal = ((j - cpu_offset(topo)) % NUM_COUNTER) + NUM_DOMAIN
               /\ (j - cpu_offset(topo)) \div NUM_COUNTER = cpu
            THEN Scale ELSE 0
       [] OTHER ->
            LET local_rank == (j - rank_offset(topo)) \div NUM_RANK_SIGNAL
            IN IF /\ i_signal = ((j - rank_offset(topo)) % NUM_RANK_SIGNAL)
                                  + (NUM_SIGNAL_TYPE - NUM_RANK_SIGNAL)
                  /\ local_rank = local_rank_map(cpu_rank)[cpu_rank[cpu]]
               THEN rank_scatter_factor(cpu_rank)[local_rank] ELSE 0

scatter_matrix(topo, cpu_rank) ==
  [i \in Idx(num_cpu_signal(topo)) |->
     [j \in Idx(num_in_signal(topo, cpu_rank)) |-> ScatterValue(topo, cpu_rank, i, j)]]

\* gather_matrix[i][j]: 1 when CPU signal j is of the type of output i and
\* its CPU is a child of output i's control domain.
gather_matrix(topo) ==
  [i \in Idx(num_out_signal(topo)) |->
     [j \in Idx(num_cpu_signal(topo)) |->
        IF /\ i % NUM_SIGNAL_TYPE = j % NUM_SIGNAL_TYPE
           /\ j \div NUM_SIGNAL_TYPE \in topo.control_cpus[i \div NUM_SIGNAL_TYPE]
        THEN 1 ELSE 0]]

\* m_signal_domain_matrix[j][i] = sum over k of gather[j][k] * scatter[k][i].
signal_domain_matrix(topo, cpu_rank) ==
  LET g == gather_matrix(topo)
      s == scatter_matrix(topo, cpu_rank)
  IN [j \in Idx(num_out_signal(topo)) |->
        [i \in Idx(num_in_signal(topo, cpu_rank)) |->
           MapThenSumSet(LAMBDA k : g[j][k] * s[k][i], Idx(num_cpu_signal(topo)))]]

====
