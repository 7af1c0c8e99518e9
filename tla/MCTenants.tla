------------------------------ MODULE MCTenants ------------------------------
(***************************************************************************)
(* The values with which TLC checks Tenants: the file knows one project,   *)
(* which is the default project.                                           *)
(***************************************************************************)
EXTENDS Tenants, TLC

CONSTANTS i1, i2, u1, k1, k2, k3, h1, h2

MCSaved == {[id |-> i1, owner |-> u1, key |-> k1]}

\* Handlers are interchangeable, and so are the keys that are not in the file.
Symmetry == Permutations({h1, h2}) \cup Permutations({k2, k3})
=============================================================================
