-------------------------------- MODULE Lists --------------------------------
(***************************************************************************)
(* Python's None, and what Python does to a list: a comprehension with a   *)
(* condition, and sorted with a key.  Both are told by positions, so that  *)
(* what they give is one thing and not any that fits.                      *)
(***************************************************************************)
EXTENDS Integers, Sequences, FiniteSets

CONSTANT None    \* nothing there

\* The positions in DOMAIN ahead in their order: ahead[i] is what comes
\* before position i.
Ranked(ahead) ==
    [k \in 1 .. Cardinality(DOMAIN ahead) |->
        CHOOSE i \in DOMAIN ahead : Cardinality(ahead[i]) = k - 1]

Picked(seq, order) == [k \in DOMAIN order |-> seq[order[k]]]

\* The elements at the positions some, in the order they come in.
Kept(seq, some) == Picked(seq, Ranked([i \in some |-> {j \in some : j < i}]))

\* The elements by falling key, equal ones in the order they come in.
Sorted(seq, key) ==
    LET Before(j, i) == key[j] > key[i] \/ (key[j] = key[i] /\ j < i)
    IN  Picked(seq, Ranked([i \in DOMAIN seq |-> {j \in DOMAIN seq : Before(j, i)}]))
=============================================================================
