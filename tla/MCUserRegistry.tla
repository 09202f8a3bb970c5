---------------------------- MODULE MCUserRegistry ----------------------------
(* Carriers, users and slots are interchangeable, and so are drivers.        *)
EXTENDS UserRegistry, TLC

RegistrySymmetry ==
    Permutations(Carriers) \cup Permutations(Users) \cup Permutations(Drivers) \cup Permutations(Slots)
=============================================================================
