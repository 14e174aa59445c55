--------------------------- MODULE MCModuleLoader ---------------------------
(* A package of two files that may require each other, one that does not      *)
(* compile, a shell script and one dependency, with a place inside and a      *)
(* place outside the package where the code may drop a file.                  *)
EXTENDS ModuleLoader, TLC

CONSTANTS main, lib, bad, hook, dep, gen, tmp, code,
          toMain, toLib, toBad, toTmp, toDep, fs, axios, gone, wanted,
          inner, byPath, root, pkg

AllFiles    == {main, lib, bad, hook, dep, gen, tmp, code}
InPackage   == {main, lib, bad, hook, dep}
BelowBase   == InPackage \cup {gen}
FileKinds   == [f \in AllFiles |-> CASE f = bad -> "broken" [] f = hook -> "shell" [] f = code -> "inline"
                                     [] OTHER -> "script"]
Owners      == [f \in AllFiles |-> IF f = dep THEN pkg ELSE root]

(* ./lib is tried as gen before lib: a dropped file may shadow another.       *)
Ways == toMain :> <<main>> @@ toLib :> <<gen, lib>> @@ toBad :> <<bad>>
        @@ toTmp :> <<tmp>> @@ toDep :> <<dep>> @@ fs :> <<>> @@ axios :> <<>>
        @@ gone :> <<>> @@ wanted :> <<>> @@ inner :> <<lib>> @@ byPath :> <<lib>>
Names == DOMAIN Ways
Syntax == [s \in Names |->
    CASE s \in {toMain, toLib, toBad, toTmp} -> "relative"
      [] s = fs -> "builtin" [] s = axios -> "client"
      [] s = inner -> "private" [] s = byPath -> "absolute" [] OTHER -> "bare"]
=============================================================================
