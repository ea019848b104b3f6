--------------------------- MODULE MCPgOutputParser ---------------------------
(* PgOutputParser for TLC.                                                 *)
EXTENDS PgOutputParser

CONSTANT customers

Named == <<"id", "name">>
NamedOnly == {Named}
===============================================================================
