----------------------------- MODULE TablePaths -----------------------------
(***************************************************************************)
(* build_table_paths: the two files of a table.  A name is the sequence of *)
(* its one or two identifiers.  The length of each path is added up before *)
(* snprintf writes it; what does not fit, snprintf leaves out silently.    *)
(***************************************************************************)
EXTENDS SequencesExt, Naturals

CONSTANT DbRoot        \* the text given on the command line

ASSUME DbRootAssumption == DbRoot \in Seq(Range(DbRoot))

SchemaSuffix == <<".", "s", "c", "h", "e", "m", "a">>
DataSuffix   == <<".", "d", "a", "t", "a">>

\* Mutant: the same length with and without a schema.
PathSize_OneSlash(name, suffix) ==
  Len(DbRoot) + Len(FlattenSeq(name)) + Len(suffix) + 2

\* malloc'ed: the texts, a slash for each identifier and the NUL.
PathSize(name, suffix) ==
  Len(DbRoot) + Len(FlattenSeq(name)) + Len(suffix) + (IF Len(name) = 2 THEN 3 ELSE 2)

\* Mutant: the schema stands before the table without a slash.
WholePath_Joined(name, suffix) == DbRoot \o <<"/">> \o FlattenSeq(name) \o suffix

WholePath(name, suffix) ==
  DbRoot \o FlattenSeq([i \in DOMAIN name |-> <<"/">> \o name[i]]) \o suffix

\* snprintf(path, size, ...): a NUL and at most size - 1 characters before it.
PathOf(name, suffix) ==
  LET whole == WholePath(name, suffix)
      size  == PathSize(name, suffix)
  IN  IF Len(whole) < size THEN whole ELSE SubSeq(whole, 1, size - 1)
=============================================================================
