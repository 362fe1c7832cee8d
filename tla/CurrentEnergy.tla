---------------------------- MODULE CurrentEnergy ----------------------------
(***************************************************************************)
(* EpochRuntimeRegulator::current_energy(): the node energy the epoch      *)
(* regulator samples at epoch boundaries, read through IPlatformIO from    *)
(* the package and DRAM energy signals of every domain.  A signal vector   *)
(* maps <<signal name, domain index>> to the joules read_signal returns.   *)
(***************************************************************************)
EXTENDS Integers, Functions

CONSTANTS
  NumPackage,   \* num_domain(M_DOMAIN_PACKAGE)
  NumDram       \* num_domain(M_DOMAIN_BOARD_MEMORY)

EnergyDomains ==
  ({"ENERGY_PACKAGE"} \X (0 .. NumPackage - 1)) \cup
  ({"ENERGY_DRAM"} \X (0 .. NumDram - 1))

(* The two loops add read_signal(name, domain, 0) once per domain: every  *)
(* iteration reads index 0.                                               *)
current_energy(signal) ==
  NumPackage * signal[<<"ENERGY_PACKAGE", 0>>] +
  NumDram * signal[<<"ENERGY_DRAM", 0>>]

(* Reference: the node's energy is the sum over all its energy domains.   *)
NodeEnergy(signal) == SumFunction(signal)

=============================================================================
