---------------------------- MODULE AdvertCache ----------------------------
(***************************************************************************)
(* What a cache of peer advertisements promises, whoever fills it: it      *)
(* holds at most one advertisement of each other node, an advertisement    *)
(* that node made, and only ever exchanges it for a later one.  A process  *)
(* that ends forgets its cache.  Advertisements are told apart by their    *)
(* author and their timestamp; 0 stands for no entry.                      *)
(***************************************************************************)
EXTENDS Naturals

CONSTANTS Nodes, Time

VARIABLES
    made,     \* made[k]: timestamps of the advertisements k created
    known     \* known[n][k]: timestamp of k's advertisement in the cache of n

Init ==
    /\ made = [k \in Nodes |-> {}]
    /\ known = [n \in Nodes |-> [k \in Nodes |-> 0]]

Make(k) ==
    /\ \E t \in Time : made' = [made EXCEPT ![k] = @ \union {t}]
    /\ UNCHANGED known

Learn(n, k) ==
    /\ k # n
    /\ \E t \in made[k] : t > known[n][k] /\ known' = [known EXCEPT ![n][k] = t]
    /\ UNCHANGED made

Forget(n) ==
    /\ known' = [known EXCEPT ![n] = [k \in Nodes |-> 0]]
    /\ UNCHANGED made

Next ==
    \/ \E k \in Nodes : Make(k)
    \/ \E n, k \in Nodes : Learn(n, k)
    \/ \E n \in Nodes : Forget(n)

Spec == Init /\ [][Next]_<<made, known>>
=============================================================================
