--------------------------- MODULE PlatformLifecycle ---------------------------
(***************************************************************************)
(* The life of a Platform object (src/src/Platform.cpp 100-170): it is    *)
(* built without an implementation, set_implementation() attaches one and *)
(* allocates one PowerModel that it files under three power domains,       *)
(* region_begin/end track the current region, and the destructor deletes  *)
(* the PowerModels of the map.                                             *)
(*                                                                         *)
(* A PowerModel is its allocation number; deleted is the bag of the        *)
(* deletes the destructor performs.                                        *)
(***************************************************************************)
EXTENDS Naturals, FiniteSets, Bags, Functions

CONSTANTS
  NULL,
  Imps,        \* PlatformImp pointers handed to set_implementation
  Regions,     \* Region pointers handed to region_begin
  MaxModels    \* bound on the PowerModels set_implementation allocates

VARIABLES
  imp,              \* m_imp
  power_model_map,  \* m_power_model: power domain |-> PowerModel
  num_alloc,        \* PowerModels allocated so far (1 .. num_alloc)
  deleted,          \* the bag of PowerModels deleted
  curr_region,      \* m_curr_region
  alive             \* the object has not been destroyed

life_vars == <<imp, power_model_map, num_alloc, deleted, curr_region, alive>>

PowerDomains ==
  {"GEOPM_DOMAIN_PACKAGE", "GEOPM_DOMAIN_PACKAGE_UNCORE", "GEOPM_DOMAIN_BOARD_MEMORY"}

\* Platform::Platform(): no implementation and an empty map.  The
\* constructor does not set m_curr_region and its declaration is outside
\* this repository, so it may start as any value.
LifeInit ==
  /\ imp = NULL
  /\ power_model_map = [d \in {} |-> 0]
  /\ num_alloc = 0
  /\ deleted = EmptyBag
  /\ curr_region \in Regions \cup {NULL}
  /\ alive = TRUE

\* std::map::insert leaves an existing key's value in place.
map_insert(m, keys, v) ==
  [d \in DOMAIN m \cup keys |-> IF d \in DOMAIN m THEN m[d] ELSE v]

\* set_implementation(platform_imp): a new PowerModel, the implementation
\* stored (its initialize() is outside this repository), and the model
\* filed under the package, uncore and memory domains.
SetImplementation(p) ==
  /\ alive
  /\ num_alloc < MaxModels
  /\ num_alloc' = num_alloc + 1
  /\ imp' = p
  /\ power_model_map' = map_insert(power_model_map, PowerDomains, num_alloc + 1)
  /\ UNCHANGED <<deleted, curr_region, alive>>

RegionBegin(r) ==
  /\ alive
  /\ curr_region' = r
  /\ UNCHANGED <<imp, power_model_map, num_alloc, deleted, alive>>

RegionEnd ==
  /\ alive
  /\ curr_region' = NULL
  /\ UNCHANGED <<imp, power_model_map, num_alloc, deleted, alive>>

\* ~Platform(): the map's models are first collected into a std::set, so
\* that a model filed under several domains is deleted once.
Destroy ==
  /\ alive
  /\ alive' = FALSE
  /\ deleted' = deleted (+) SetToBag(Range(power_model_map))
  /\ UNCHANGED <<imp, power_model_map, num_alloc, curr_region>>

LifeNext ==
  \/ \E p \in Imps : SetImplementation(p)
  \/ \E r \in Regions : RegionBegin(r)
  \/ RegionEnd
  \/ Destroy

====
