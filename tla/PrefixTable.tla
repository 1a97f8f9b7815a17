---------------------------- MODULE PrefixTable ----------------------------
(***************************************************************************)
(* What h3zero_declare_stream_prefix and h3zero_delete_stream_prefix       *)
(* promise of the prefixes of a connection (src/h3zero_common.c): a table  *)
(* in the order of declaration, without duplicates.                        *)
(***************************************************************************)
EXTENDS Naturals, Sequences

CONSTANT Sessions
VARIABLE table

Has(p) == \E i \in DOMAIN table : table[i] = p

Init == table = <<>>
Declare(p) == ~Has(p) /\ table' = Append(table, p)

\* The prefixes behind it move up.
Delete(p) ==
  \E i \in DOMAIN table :
    /\ table[i] = p
    /\ table' = [j \in 1..(Len(table) - 1) |-> IF j < i THEN table[j] ELSE table[j + 1]]

\* A prefix that is in the table is not declared, one that is not in it not deleted,
\* and there may be no memory for one.
Refuse == UNCHANGED table

Next == Refuse \/ \E p \in Sessions : Declare(p) \/ Delete(p)

Spec == Init /\ [][Next]_table
=============================================================================
