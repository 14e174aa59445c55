--------------------------- MODULE MCInstallGate ---------------------------
(* Four packages: a plain one, one from git, one that a lockfile pins and one *)
(* with a range that SCBoX reads otherwise.                                   *)
EXTENDS InstallGate

CONSTANTS app, gitdep, pinned, odd

Declares        == <<gitdep, pinned>>
Typed           == {<<>>, <<app, app>>, <<app, gitdep>>, <<gitdep, app>>, <<pinned, app>>,
                    <<app, odd>>, <<odd>>, <<gitdep>>}
NoRequires      == [p \in Package |-> {}]
AppNeedsOdd     == [p \in Package |-> IF p = app THEN {odd} ELSE {}]
=============================================================================
