----------------------------- MODULE MCDepTree -----------------------------
(* Small dependency graphs for TLC. *)
EXTENDS DepTreeSerial, TLC

\* Three roots and a dev root; a dependency cycle (2 <-> 5), packages reached
\* along paths of two lengths (1 and 10), a peer edge (1 -> 3), and a package at
\* the depth limit (4), which the root's source also mentions.
CycleDeps == (1 :> {7, 10} @@ 2 :> {1, 5} @@ 3 :> {} @@ 4 :> {3, 6} @@ 5 :> {2} @@
              6 :> {1} @@ 7 :> {6} @@ 8 :> {9} @@ 9 :> {10} @@ 10 :> {4})
CyclePeers == [n \in 1..10 |-> IF n = 1 THEN {3} ELSE {}]
=============================================================================
