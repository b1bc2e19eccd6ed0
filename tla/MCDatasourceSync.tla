-------------------------- MODULE MCDatasourceSync --------------------------
(* A small instance of DatasourceSync for TLC. *)
EXTENDS DatasourceSync

Sql(rest)  == [sql |-> TRUE, scheme |-> FALSE, rest |-> rest]
Bare(rest) == [sql |-> FALSE, scheme |-> FALSE, rest |-> rest]

On(s)  == [settings |-> s, is_enable |-> TRUE]
Off(s) == [settings |-> s, is_enable |-> FALSE]

(* A data source that changes its driver, and may be switched off. *)
MCRows == {On(Sql("x")), On(Bare("x")), Off(Sql("x"))}

(* Nothing yet; or one that was provisioned, with a uid of its own; or     *)
(* that and another, whose uid is the first one's name.                    *)
Provisioned == [name |-> "a", uid |-> "u", settings |-> Sql("x")]
Crossed == [name |-> "b", uid |-> "a", settings |-> Sql("x")]
MCSeeds == {{}, {Provisioned}, {Provisioned, Crossed}}
=============================================================================
