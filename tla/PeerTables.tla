------------------------------- MODULE PeerTables -------------------------------
(***************************************************************************)
(* Vec::retain, by which every table of peers drops the ones that are gone. *)
(***************************************************************************)
EXTENDS Naturals, Sequences, FiniteSets

(* The entries of the table that are to be kept, in their order: the entry  *)
(* with k kept ones up to and with it is the k-th of the result. (SelectSeq *)
(* without its recursion.)                                                  *)
Retained(table, keep) ==
  LET kept     == {i \in 1 .. Len(table) : table[i] \in keep}
      Place(i) == Cardinality(kept \cap 1 .. i)
  IN  [k \in 1 .. Cardinality(kept) |-> table[CHOOSE i \in kept : Place(i) = k]]

=============================================================================
