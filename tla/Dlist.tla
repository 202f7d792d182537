-------------------------------- MODULE Dlist --------------------------------
(***************************************************************************)
(* The doubly linked rings of dlist.h, the same in both programs.  The     *)
(* links of all nodes are a record of two functions, which the actions     *)
(* that change them assign one by one; this is where a walk over them goes *)
(* when nothing is known of their order.                                   *)
(***************************************************************************)
EXTENDS Naturals, Sequences, FiniteSets

\* Every node alone on its ring, as init_dlist_node leaves it.
Alone(nodes) == [next |-> [n \in nodes |-> n], prev |-> [n \in nodes |-> n]]

-----------------------------------------------------------------------------
(* dlist_foreach: the nodes met from the head until it is met again.        *)

\* The node that is met after i steps in one direction.
Met(f, h, i) ==
  LET met[j \in 0 .. i] == IF j = 0 THEN h ELSE f[met[j - 1]] IN met[i]

\* The numbers of steps that lead back to the head; a walk that has not come
\* back after as many steps as there are nodes goes round elsewhere for ever.
Returns(f, h) == {i \in 1 .. Cardinality(DOMAIN f) : Met(f, h, i) = h}

Ends(f, h) == Returns(f, h) # {}

Walk(f, h) ==
  LET steps == CHOOSE i \in Returns(f, h) : \A j \in Returns(f, h) : i <= j
  IN  [i \in 1 .. steps - 1 |-> Met(f, h, i)]
=============================================================================
