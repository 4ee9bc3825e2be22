---------------------------- MODULE MCPinStore ----------------------------
(* Small instances of PinStore for TLC. *)
EXTENDS PinStore, TLC

\* Hosts and keys are interchangeable; so are stores.
Symmetry == Permutations(Hosts) \union Permutations(Keys)
              \union Permutations(Stores)
=============================================================================
