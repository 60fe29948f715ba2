--------------------------- MODULE StatementPaths ---------------------------
(***************************************************************************)
(* The files of the statements that the parser hands over.                 *)
(***************************************************************************)
EXTENDS Parser, TablePaths

\* What the parser reads names files as run_select_query and append_insert_row
\* need it: statements on different tables never meet in one file, qualified
\* names or not; no table's schema is another one's data; no path has lost the
\* end of its suffix to a length that was added up wrongly.
OneFilePerTable ==
  \A s, t \in Range(script) :
    /\ \A suffix \in {SchemaSuffix, DataSuffix} :
         /\ PathOf(s.table, suffix) = PathOf(t.table, suffix) => s.table = t.table
         /\ IsSuffix(suffix, PathOf(s.table, suffix))
    /\ PathOf(s.table, SchemaSuffix) # PathOf(t.table, DataSuffix)
=============================================================================
