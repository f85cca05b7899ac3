----------------------------- MODULE ToolTable -----------------------------
(***************************************************************************)
(* The read tools of tools.ts: one definition per handler, the reads it    *)
(* makes in order and what becomes of each: how many rows it keeps and how *)
(* it tells of a cut, what it does when the read fails, and what it        *)
(* answers when nothing was found.  ToolCalls runs them.                   *)
(*                                                                         *)
(* Of the SQL text only what those questions depend on is kept: a TOP of   *)
(* its own, a temporary table filled in a loop over the databases.  A TOP  *)
(* without parentheses is taken for a part of the question.  Parallel      *)
(* reads are taken one after the other.                                    *)
(***************************************************************************)
EXTENDS Naturals, Sequences

CONSTANTS
  TopN    \* the top_n, max_deadlocks or max_objects a caller asks for

ASSUME TopAssumption == TopN \in 1..100

(***************************************************************************)
(* A read: by queryInstance ("sql"), callDbatools ("cmdlet"), the schema   *)
(* documents ("file") or the primary alias ("alias").                      *)
(***************************************************************************)
Read(via, cap) ==
  [via   |-> via,
   cap   |-> cap,      \* maxRows
   own   |-> 0,        \* what a TOP (...) in its text lets through, 0: no such TOP
   asked |-> FALSE,    \* that TOP is the number the caller named
   tells |-> "note",   \* of a cut: "note" (noteRowCap), "field" (in the answer), "no"
   fails |-> "error",  \* a failure is the "error" of the tool, "said" in the answer, "empty" rows
   fills |-> FALSE,    \* inserts per database into a temporary table, skipping failures
   user  |-> FALSE,    \* the caller's own SQL
   on    |-> "target", \* or "all": on every target, each for itself
   main  |-> TRUE,     \* whether the answer to no rows depends on it
   after |-> "any"]    \* or "none", "some": the rows the first read must have given

Query      == Read("sql", 200)
Cmdlet     == Read("cmdlet", 0)
Keep(n, q)       == [q EXCEPT !.cap = n]
Flagged(q)       == [q EXCEPT !.tells = "field"]
Unflagged(q)     == [q EXCEPT !.tells = "no"]
Top(n, q)        == [q EXCEPT !.own = n]
AskedTop(q)      == [q EXCEPT !.own = TopN, !.asked = TRUE]
PerDatabase(q)   == [q EXCEPT !.fills = TRUE]
BestEffort(q)    == [q EXCEPT !.fails = "empty"]
Reported(q)      == [q EXCEPT !.fails = "said"]
After(rows, q)   == [q EXCEPT !.after = rows]
Beside(q)        == [q EXCEPT !.main = FALSE]

(***************************************************************************)
(* A tool: its reads, those of its dbatools path if it has one, whether it *)
(* can refuse its arguments, and its answer to no rows: an empty "list",   *)
(* a sentence that there is nothing ("absent"), or an "error".             *)
(***************************************************************************)
Tool(reads, empty) ==
  [reads |-> reads, dbatools |-> <<>>, checks |-> FALSE, empty |-> empty]
Checked(t)         == [t EXCEPT !.checks = TRUE]
Or(dbatools, t)    == [t EXCEPT !.dbatools = dbatools]

----------------------------------------------------------------------------
list_instances      == Tool(<<>>, "list")
get_current_primary == Tool(<<Read("alias", 0), BestEffort(Cmdlet)>>, "list")
list_databases      == Tool(<<Query>>, "list")
list_tables         == Checked(Tool(<<Flagged(Keep(1000, Query))>>, "list"))

describe_object ==
  Checked(Tool(<<Keep(1000, Query),
                 Beside(After("some", BestEffort(Query))),
                 Beside(After("some", BestEffort(Keep(1, Query))))>>, "error"))

(* The caller's SQL: refused by the guard, or read and flagged. *)
UserQuery(n) == [Flagged(Keep(n, Query)) EXCEPT !.user = TRUE]

fan_out_query == Checked(Tool(<<[Reported(UserQuery(200)) EXCEPT !.on = "all"]>>, "list"))
execute_query == Checked(Tool(<<UserQuery(500)>>, "list"))

(* schemaDocs.ts: a missing or malformed file reads as no document. *)
Document == BestEffort(Read("file", 0))

list_schema_docs    == Tool(<<Document>>, "absent")
describe_schema     == Tool(<<Document>>, "error")
describe_doc_object == Tool(<<Document>>, "error")
search_schema_docs  == Tool(<<Unflagged(Keep(40, Document))>>, "list")

get_active_sessions == Or(<<Cmdlet>>, Tool(<<Flagged(Query)>>, "list"))
get_blocking_chains == Tool(<<Query>>, "absent")
get_hiq             == Checked(Tool(<<Flagged(Keep(TopN, Top(TopN + 1, Query)))>>, "list"))
get_top_queries     == Tool(<<AskedTop(Query)>>, "list")
get_wait_stats      == Or(<<Cmdlet>>, Tool(<<Query>>, "list"))
get_file_io_stats   == Tool(<<Query>>, "list")
get_cpu_history     == Tool(<<Keep(256, Query)>>, "list")
get_memory_usage    == Tool(<<Query, Query, Query>>, "list")
get_tempdb_usage    == Tool(<<Cmdlet, Cmdlet>>, "list")
get_database_info   == Tool(<<Cmdlet>>, "list")
get_server_info     == Tool(<<Cmdlet, Cmdlet, Query, Query>>, "list")
get_missing_indexes == Tool(<<AskedTop(Query)>>, "absent")

get_index_usage_stats ==
  Checked(Tool(<<PerDatabase(Flagged(Keep(1000, Top(1001, Query))))>>, "list"))

get_database_files          == Checked(Tool(<<Cmdlet>>, "list"))
get_query_store_regressions == Checked(Tool(<<AskedTop(Query)>>, "absent"))
get_plan_cache_pollution    == Tool(<<AskedTop(Query), AskedTop(Query)>>, "list")
get_long_running_transactions == Tool(<<Query>>, "absent")
get_deadlock_history        == Tool(<<AskedTop(Query)>>, "absent")
get_latch_stats             == Or(<<Cmdlet>>, Tool(<<AskedTop(Query)>>, "absent"))
get_ag_health               == Tool(<<Cmdlet, Beside(Cmdlet), Beside(After("some", Query))>>, "absent")
get_distributed_ag_health   == Tool(<<Query>>, "absent")
get_log_paths               == Tool(<<Keep(1, Query)>>, "list")
get_memory_dumps            == Tool(<<Flagged(Keep(500, Query))>>, "list")
get_machine_spec            == Tool(<<Cmdlet, Cmdlet>>, "list")
get_backup_status           == Tool(<<Cmdlet>>, "list")
get_vlf_count               == Tool(<<Cmdlet>>, "list")
get_buffer_pool_by_object   == Checked(Tool(<<PerDatabase(AskedTop(Query))>>, "list"))

(* The dbatools path lists the objects, then asks about the first of them.  *)
get_statistics_health ==
  Checked(Or(<<Beside(Keep(1000000, Query)), After("some", Cmdlet)>>,
             Tool(<<Query>>, "absent")))

get_index_fragmentation == Checked(Tool(<<Query>>, "absent"))

\* mutant: a failure to read msdb is taken for no jobs
JobsUnread ==
  Tool(<<Cmdlet, After("none", BestEffort(Unflagged(Keep(500, Top(500, Query)))))>>, "absent")

(* An empty answer of the cmdlet proves nothing until msdb was asked. *)
get_job_status ==
  Tool(<<Cmdlet, After("none", Reported(Unflagged(Keep(500, Top(500, Query)))))>>, "absent")

get_columnstore_health == Checked(Tool(<<PerDatabase(Top(201, Query))>>, "absent"))
get_perfmon_counters   == Checked(Tool(<<Query>>, "list"))

(* registerTools: what every profile has, and what TOOLSET=dba adds.        *)
AppDataTools == [
  list_instances |-> list_instances,
  get_current_primary |-> get_current_primary,
  list_databases |-> list_databases, list_tables |-> list_tables,
  describe_object |-> describe_object, fan_out_query |-> fan_out_query,
  execute_query |-> execute_query, list_schema_docs |-> list_schema_docs,
  describe_schema |-> describe_schema,
  describe_doc_object |-> describe_doc_object,
  search_schema_docs |-> search_schema_docs]

DmvTools == [
  get_active_sessions |-> get_active_sessions,
  get_blocking_chains |-> get_blocking_chains, get_hiq |-> get_hiq,
  get_top_queries |-> get_top_queries, get_wait_stats |-> get_wait_stats,
  get_file_io_stats |-> get_file_io_stats, get_cpu_history |-> get_cpu_history,
  get_memory_usage |-> get_memory_usage, get_tempdb_usage |-> get_tempdb_usage,
  get_database_info |-> get_database_info, get_server_info |-> get_server_info,
  get_missing_indexes |-> get_missing_indexes,
  get_index_usage_stats |-> get_index_usage_stats,
  get_database_files |-> get_database_files,
  get_query_store_regressions |-> get_query_store_regressions,
  get_plan_cache_pollution |-> get_plan_cache_pollution,
  get_long_running_transactions |-> get_long_running_transactions,
  get_deadlock_history |-> get_deadlock_history,
  get_latch_stats |-> get_latch_stats, get_ag_health |-> get_ag_health,
  get_distributed_ag_health |-> get_distributed_ag_health,
  get_log_paths |-> get_log_paths, get_memory_dumps |-> get_memory_dumps,
  get_machine_spec |-> get_machine_spec,
  get_backup_status |-> get_backup_status, get_vlf_count |-> get_vlf_count,
  get_buffer_pool_by_object |-> get_buffer_pool_by_object,
  get_statistics_health |-> get_statistics_health,
  get_index_fragmentation |-> get_index_fragmentation,
  get_job_status |-> get_job_status,
  get_columnstore_health |-> get_columnstore_health,
  get_perfmon_counters |-> get_perfmon_counters]
=============================================================================
