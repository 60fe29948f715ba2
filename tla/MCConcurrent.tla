---------------------------- MODULE MCConcurrent ----------------------------
(***************************************************************************)
(* The instance of MCMiniSql in which invocations do not harm one another: *)
(* it satisfies the hypotheses of the theorems of MiniSqlProofs.           *)
(***************************************************************************)
EXTENDS MCMiniSql

ASSUME NothingDisturbs == Undisturbed /\ RowsAtFirst /\ ShortLines
=============================================================================
