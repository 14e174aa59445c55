--------------------------- MODULE DepTreeSerial ---------------------------
(***************************************************************************)
(* The serial breadth-first walk the comment above Installer.Build compares *)
(* the worker pool with (internal/npm/tree.go:52-61), as a function of the  *)
(* set of names that could not be fetched, and what the pool's result has   *)
(* to do with it.                                                           *)
(***************************************************************************)
EXTENDS DepTree

\* History: two fetches have run at the same time.
VARIABLE overlapped

WatchedInit == Init /\ overlapped = FALSE
WatchedNext == Next /\ overlapped' = (overlapped \/ Cardinality(Busy') > 1)
WatchedSpec == WatchedInit /\ [][WatchedNext]_<<vars, overlapped>> /\ Fairness

\* The first package of level d, in the order of claims, that asks for n.
FirstAsking(level, n) ==
  CHOOSE p \in level : /\ n \in Names(Children(p))
                       /\ \A q \in level : n \in Names(Children(q)) => p.name <= q.name

\* Level 1 of a serial walk: what the root asks for.
FirstLevel(lost) == {i \in Seed(RootDeps, RootDevDeps) : i.name \notin lost}

\* The levels above d and level d, each package of it with the dev taint of the
\* first package that asked for it.
WithLevel(d, above, lost) ==
  LET last == {p \in above : p.depth = d - 1}
      wanted == (UNION {Names(Children(p)) : p \in last}) \ (Names(above) \cup lost)
  IN above \cup {[name |-> n, depth |-> d, dev |-> FirstAsking(last, n).dev] : n \in wanted}

\* All levels of a serial walk.
Levels(lost) ==
  LET level[d \in 1..PeerMaxDepth] ==
        IF d = 1 THEN FirstLevel(lost) ELSE WithLevel(d, level[d - 1], lost)
  IN level[PeerMaxDepth]

\* The same walk stopped after MaxPkgs packages.
SerialWalk(lost) ==
  LET all == Levels(lost)
  IN {i \in all : Cardinality({j \in all : Before(j, i)}) < MaxPkgs}

Built == {[name |-> i.name, depth |-> i.depth, dev |-> i.dev] : i \in tree}

\* As long as no two fetches overlap, as with one worker, the result of Build -
\* names, depths and dev taints, the package cap included - is exactly that of
\* the serial breadth-first walk, whichever worker makes which fetch.
MatchesSerialWalk == stage = "built" /\ ~overlapped => Built = SerialWalk(failed)

\* tree.go:59-61, "each name is still claimed first-wins at the shallowest depth
\* it appears ... so the resulting flat tree matches a serial BFS": the set of
\* packages Build returns is that of the serial walk.  It is false.
SameNamesAsSerialWalk ==
  stage = "built" => Names(tree) = Names(SerialWalk(failed))

\* A package installed deeper than the serial walk puts it.
Belated(i) == \E j \in SerialWalk(failed) : j.name = i.name /\ j.depth < i.depth

\* Whatever the schedule of the workers, below the cap it costs a package only
\* if some package was claimed too deep, and so deep that its dependencies are
\* no longer followed.
SameNamesUnlessBelated ==
  /\ stage = "built" /\ Cardinality(installed) < MaxPkgs
  /\ \A i \in tree : Belated(i) => i.depth < MaxDepth /\ i.depth < PeerMaxDepth
  => Names(tree) = Names(SerialWalk(failed))

\* What Build returns (tree.go:60 and its truncation): the names of the serial
\* walk unless a package was claimed too late, and all of it when fetches do not
\* overlap.
BuildResult == MatchesSerialWalk /\ SameNamesUnlessBelated

=============================================================================
