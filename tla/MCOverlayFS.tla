----------------------------- MODULE MCOverlayFS -----------------------------
(* A file of the package under its path and under a relative name; credential *)
(* files, two of which hold the same password and one of which is not         *)
(* sensitive (/.gnupg/secring.gpg); the environment as a file; a temporary    *)
(* file; an artifact that is sensitive, too (/.dockerenv); and files whose    *)
(* content a taint rule gives, one of them temporary.                         *)
EXTENDS OverlayFS, TLC

CONSTANTS index, indexRel, npmrc, pgpass, secring, environ, tmp, dockerenv, dotenv, tmpenv,
          File1, File2, File3, File4, File5, File6, File7, File8, File9

Spellings == {index, indexRel, npmrc, pgpass, secring, environ, tmp, dockerenv, dotenv, tmpenv}
OnMachine == index :> File1 @@ indexRel :> File1 @@ npmrc :> File2
             @@ tmp :> File3 @@ dockerenv :> File4 @@ dotenv :> File5
             @@ tmpenv :> File6 @@ pgpass :> File7 @@ secring :> File8
             @@ environ :> File9
Serves == npmrc :> "npmToken" @@ pgpass :> "dbPass" @@ secring :> "dbPass"
          @@ environ :> "walletKey" @@ dotenv :> "dotenv" @@ tmpenv :> "dotenv"
Short == UNION {[1 .. k -> {"filler", "written"}] : k \in 0 .. 2}
Together == {{index, indexRel}, {npmrc, tmp}, {pgpass, secring}, {environ, dockerenv},
             {dotenv}, {tmpenv}}
=============================================================================
