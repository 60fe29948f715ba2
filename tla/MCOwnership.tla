---------------------------- MODULE MCOwnership ----------------------------
(***************************************************************************)
(* Ownership with every early return taken but the four that go wrong; a   *)
(* configuration each for these.                                           *)
(***************************************************************************)
EXTENDS Ownership

Steps == UNION {{<<f, s>> : s \in {s \in DOMAIN Program[f] : Program[f][s].does \notin DOMAIN Program}}
                : f \in DOMAIN Program}

\* Steps that have no early return: main's own, those that only end a loop or
\* hand something over, and fopen of a data file, whose failure is "missing".
Total == {at \in Steps :
            \/ at[1] \in {"main", "execute_statement", "print_execution_result"}
            \/ at[1] \in {"run_select_query", "parse_sql_script"} /\ at[2] \in {"end", "result", "skip", "close"}
            \/ at \in {<<"run_select_query", "open">>, <<"query_result_append_row", "count">>,
                             <<"split_pipe_line(schema)", "start">>, <<"split_pipe_line(row)", "start">>,
                             <<"ensure_directory_recursive", "start">>,
                             <<"parse_select", "start">>}}

LeakedProjection == {<<"run_select_query", "nextColumn">>}
LeakedRow        == {<<"split_pipe_line(row)", "empty">>}
FreedPath        == {<<"load_table_definition", "check">>}
NullColumnRead   == {<<"parse_select", "whereColumn">>}

Handled == Steps \ (Total \cup LeakedProjection \cup LeakedRow \cup FreedPath \cup NullColumnRead)
=============================================================================
