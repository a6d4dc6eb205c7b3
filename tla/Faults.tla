------------------------------- MODULE Faults -------------------------------
(***************************************************************************)
(* A budget of environment failures, shared by the modules of the demo.    *)
(*                                                                         *)
(* Every failure the environment may inject (a key request that fails, a   *)
(* killed container, a connection reset, a port already bound, a missing   *)
(* file or variable) is a disjunct that conjoins Fault; every other step   *)
(* conjoins NoFault.  The counter is what lets a property speak of a run   *)
(* in which nothing went wrong.                                            *)
(***************************************************************************)
EXTENDS Naturals

CONSTANT MaxFaults      \* bound: failures the environment injects in one run

ASSUME MaxFaultsAssumption == MaxFaults \in Nat

VARIABLE faults         \* failures injected so far

Fault   == faults < MaxFaults /\ faults' = faults + 1
NoFault == faults' = faults

FaultsInit   == faults = 0
FaultsTypeOK == faults \in 0..MaxFaults
=============================================================================
