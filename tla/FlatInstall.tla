---------------------------- MODULE FlatInstall ----------------------------
(***************************************************************************)
(* What the installer of internal/npm/tree.go promises: a walk of the       *)
(* dependency graph that installs each name at most once, each because the  *)
(* root or an installed package one level up asks for it, and that ends     *)
(* closed under dependencies or at the package cap.  It says nothing of     *)
(* workers, mutexes, the frontier or the order of downloads.                *)
(***************************************************************************)
EXTENDS DepGraph, FiniteSets

VARIABLES
  root,  \* the jobs of the root package of the current walk
  got,   \* the jobs whose packages are installed
  lost,  \* the names given up on
  over   \* the walk has returned

flatVars == <<root, got, lost, over>>

\* What the root and the installed packages ask for, within peerMaxDepth.
Offers ==
  {i \in root \cup UNION {Children(p) : p \in got} : i.depth <= PeerMaxDepth}

Settled == Names(got) \cup lost

Init ==
  /\ root \subseteq Item /\ \A i \in root : i.depth = 1
  /\ got = {} /\ lost = {} /\ over = FALSE

Install(i) ==
  /\ ~over /\ i.name \notin Settled
  /\ got' = got \cup {i}
  /\ UNCHANGED <<root, lost, over>>

GiveUp(i) ==
  /\ ~over /\ i.name \notin Settled
  /\ lost' = lost \cup {i.name}
  /\ UNCHANGED <<root, got, over>>

Closed == \A i \in Offers : i.name \in Settled

End ==
  /\ ~over
  /\ Closed \/ Cardinality(got) >= MaxPkgs
  /\ over' = TRUE
  /\ UNCHANGED <<root, got, lost>>

\* A second walk from another root, started only when the first has returned.
Again ==
  /\ over
  /\ over' = FALSE
  /\ root' \subseteq Items(Name, 1, FALSE)
  /\ got' = {} /\ lost' = {}

Next == (\E i \in Offers : Install(i) \/ GiveUp(i)) \/ End \/ Again

Spec == Init /\ [][Next]_flatVars

=============================================================================
