------------------------- MODULE MCComponentRegistry -------------------------
(***************************************************************************)
(* TLC instance of ComponentRegistry with its history of mishaps.          *)
(***************************************************************************)
EXTENDS RegistryHistory

\* Mishaps leak references without end: after one, TLC stops at this many counted
\* references to one slot.
MaxRefCount == 3
RefCountBound == mishaps # {} => \A s \in Slot : components[s].ref_count <= MaxRefCount
=============================================================================
