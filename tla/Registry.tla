------------------------------ MODULE Registry ------------------------------
(***************************************************************************)
(* What the tables of authorities and certificates promise together: a     *)
(* forest whose nodes appear only below nodes that are there, never change *)
(* their place, and go only when nothing hangs from them, or by a cascade  *)
(* that takes everything that does.  Authorities implements it whatever    *)
(* its requests do at once.                                                *)
(***************************************************************************)
CONSTANTS Nodes, Leaves, None

VARIABLES
    above,    \* the node each node hangs from; None of a root, or of no node
    nodes,    \* the nodes there are
    holder    \* the node each leaf hangs from; None of a leaf that is not there

vars == <<above, nodes, holder>>

Children(n) == {m \in nodes : above[m] = n}
Bearing(n)  == \E l \in Leaves : holder[l] = n

Init ==
    /\ nodes \subseteq Nodes /\ above \in [Nodes -> nodes \cup {None}]
    /\ holder \in [Leaves -> nodes \cup {None}]
    /\ \A n \in Nodes \ nodes : above[n] = None

AddNode(n, p) ==
    /\ n \in Nodes \ nodes /\ p \in nodes \cup {None}
    /\ nodes' = nodes \cup {n} /\ above' = [above EXCEPT ![n] = p]
    /\ UNCHANGED holder

AddLeaf(l, n) ==
    /\ holder[l] = None /\ n \in nodes
    /\ holder' = [holder EXCEPT ![l] = n]
    /\ UNCHANGED <<above, nodes>>

DropLeaf(l) == holder' = [holder EXCEPT ![l] = None] /\ UNCHANGED <<above, nodes>>

\* The nodes of N go with the leaves of n: nothing may be left hanging.
Drop(n, N) ==
    /\ n \in N /\ N \subseteq {n} \cup Children(n)
    /\ nodes' = nodes \ N
    /\ above' = [m \in Nodes |-> IF m \in N THEN None ELSE above[m]]
    /\ holder' = [l \in Leaves |-> IF holder[l] = n THEN None ELSE holder[l]]
    /\ \A m \in nodes' : above[m] \notin N
    /\ \A l \in Leaves : holder'[l] \notin N

Next ==
    \/ \E n \in Nodes, p \in Nodes \cup {None} : AddNode(n, p)
    \/ \E l \in Leaves, n \in Nodes : AddLeaf(l, n)
    \/ \E l \in Leaves : DropLeaf(l)
    \/ \E n \in nodes : \E N \in SUBSET ({n} \cup Children(n)) : Drop(n, N)

Spec == Init /\ [][Next]_vars
=============================================================================
