------------------------------- MODULE Setting -------------------------------
(***************************************************************************)
(* The configuration object.  Names of data files are made by writing the  *)
(* number of the file right behind dbPath, and a start looks for them in   *)
(* the directory dbPath, so that all that matters of a path is whether it  *)
(* is empty and whether it ends with a slash.  The two compaction values   *)
(* are read by nobody and left out.                                        *)
(***************************************************************************)
EXTENDS Integers

Paths == {"empty", "bare", "slashed"}

ensureEndingSlashNever(path) == path    \* mutant: the path is kept
ensureEndingSlash(path) == IF path = "bare" THEN "slashed" ELSE path

NewSetting(path, size) == [dbPath |-> path, maxFileSize |-> size]

SetDbPath(s, path) == [s EXCEPT !.dbPath = ensureEndingSlash(path)]

SetMaxFileSize(s, size) == [s EXCEPT !.maxFileSize = size]

(* Setting{} is zero-initialised, "Setting s;" has an indeterminate size.  *)
DefaultSettings(sizes) == {NewSetting("empty", n) : n \in sizes \cup {0}}

(* Setting(path, size), ...                                                *)
Constructed(sizes) == {NewSetting(p, n) : p \in Paths, n \in sizes}

(* ... and Setting s; s.SetDbPath(path).SetMaxFileSize(size).              *)
Chained(sizes) ==
    {SetMaxFileSize(SetDbPath(s, p), n) :
        s \in DefaultSettings(sizes), p \in Paths \ {"empty"}, n \in sizes}

(* A start finds the files: they lie inside the directory it looks into.   *)
FindsFiles(s) == s.dbPath = "slashed"
=============================================================================
