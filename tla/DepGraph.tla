------------------------------ MODULE DepGraph ------------------------------
(***************************************************************************)
(* The dependency graph a walk of internal/npm/tree.go is over, and the     *)
(* pure parts of the walk: the jobs a root and a package contribute, the    *)
(* depth limits of the two kinds of edges, and the order of claims.         *)
(*                                                                          *)
(* A package name is a natural number: its rank in the byte order of names. *)
(* Version ranges and file contents are abstracted away.                    *)
(***************************************************************************)
EXTENDS Naturals, FiniteSets

CONSTANTS
  Name,          \* package names, as ranks in the lexical order
  MaxDepth,      \* Installer.MaxDepth
  PeerMaxDepth,  \* Build's const peerMaxDepth
  MaxPkgs,       \* Installer.MaxPkgs
  Deps,          \* runtime and optional dependencies of each package
  Peers          \* peer dependencies of each package

ASSUME NameAssumption == Name \subseteq Nat
ASSUME LimitAssumption ==
  MaxDepth \in Nat \ {0} /\ PeerMaxDepth \in Nat \ {0} /\ MaxPkgs \in Nat \ {0}
ASSUME GraphAssumption ==
  /\ Deps \in [Name -> SUBSET Name] /\ Peers \in [Name -> SUBSET Name]
  /\ \A n \in Name : IsFiniteSet(Deps[n]) /\ IsFiniteSet(Peers[n])

Item == [name : Name, depth : Nat \ {0}, dev : BOOLEAN]

Names(items) == {i.name : i \in items}

\* The lowest-depth, then lexically first order of claim and of the final sort.
Before(i, j) == i.depth < j.depth \/ (i.depth = j.depth /\ i.name < j.name)

Items(names, d, dev) == [name : names, depth : {d}, dev : {dev}]

\* The jobs an installed package adds: runtime and optional edges above
\* MaxDepth, peer edges above peerMaxDepth, all with its dev taint.
Children(p) ==
  Items((IF p.depth < MaxDepth THEN Deps[p.name] ELSE {}) \cup
        (IF p.depth < PeerMaxDepth THEN Peers[p.name] ELSE {}),
        p.depth + 1, p.dev)

\* The seed of level 1: the root's own dependencies, then the dev ones that
\* are not among them (for one name at one depth the first job pushed wins).
Seed(deps, devDeps) == Items(deps, 1, FALSE) \cup Items(devDeps \ deps, 1, TRUE)

=============================================================================
