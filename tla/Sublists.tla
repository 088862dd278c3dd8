------------------------------ MODULE Sublists ------------------------------
(***************************************************************************)
(* The filter loops of the code (`for ... { if ... continue; kept =        *)
(* append(kept, r) }`) and its sorts (ORDER BY, sort.Slice) as operators   *)
(* without recursion, so that they can be reasoned about.                  *)
(***************************************************************************)
EXTENDS Naturals, FiniteSets

\* The members of S in the list s, in their order: the k-th one is at the
\* position that has k such positions up to itself.
Keep(s, S) ==
    LET hits == {m \in DOMAIN s : s[m] \in S}
        rank(m) == Cardinality({i \in hits : i <= m})
    IN [k \in 1..Cardinality(hits) |-> s[CHOOSE m \in hits : rank(m) = k]]

\* The members of S as a list, in the order of the relation before: the k-th
\* one has k - 1 members before it.
InOrder(S, before) ==
    [k \in 1..Cardinality(S) |->
       CHOOSE x \in S : Cardinality({y \in S : <<y, x>> \in before}) = k - 1]

=============================================================================
