SPECIFICATION WatchedSpec
CONSTANTS
  Name = {1, 2, 3, 4, 5, 6, 7, 8, 9, 10}
  Worker = {w1, w2, w3}
  MaxDepth = 4
  PeerMaxDepth = 5
  MaxPkgs = 7
  MaxTargets = 1
  RootDeps = {5, 6, 8}
  RootDevDeps = {6, 7}
  Deps <- CycleDeps
  Peers <- CyclePeers
  Shipped = {6}
  Online = TRUE
  MayFail = {1, 2, 5, 8}
  BadManifest = {3}
  Mentioned = {4, 7}
INVARIANTS PoolAgrees ClaimedOnce ClosedWalk TreeOK BuildResult
PROPERTIES Returns ImplementsFlatInstall
