---------------------------- MODULE MCDetonation ----------------------------
(* A package with one dependency, one development tool and one or two source *)
(* files.                                                                    *)
EXTENDS Detonation

CONSTANTS dep, tool, index, lib

TwoDeps  == <<tool, dep>>
TwoFiles == <<index, lib>>
Catching == <<lib>>
=============================================================================
