---------------------------- MODULE MCWellGroups ----------------------------
(***************************************************************************)
(* A small instance of WellGroups for TLC: two report steps, two wells,    *)
(* and beside FIELD a group with a name and the group "" of the WELSPECS   *)
(* records without a GROUP.  A well can leave a group, in the same step    *)
(* and in a later one, for one with and for one without a name, and one    *)
(* group be moved beneath another.  Neither wells nor data are told apart. *)
(***************************************************************************)
EXTENDS WellGroups, FiniteSets, TLC

CONSTANTS w1, w2, g1, field, d1, d2

Names == Permutations({w1, w2}) \union Permutations({d1, d2})

(* A bound: there are all three groups and one well, or two of each. *)
FewNames == Cardinality(wells) + Cardinality(groups) <= 4
=============================================================================
