----------------------------- MODULE MCStorage -----------------------------
(***************************************************************************)
(* Settings for Storage.                                                   *)
(***************************************************************************)
EXTENDS Storage, TLC

(* Setting s; s.SetDbPath(path).SetMaxFileSize(size), as the tests do: the *)
(* path may or may not end with a slash.                                   *)
ChainedSettings == Chained({0, 2})

(* Setting(path, size) and Setting{}, as the benchmark and Create() do.    *)
OtherSettings == Constructed({2}) \cup DefaultSettings({})

(* No key differs from another but by what is written to it.               *)
Symmetry == Permutations(Keys)
=============================================================================
