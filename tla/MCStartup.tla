----------------------------- MODULE MCStartup -----------------------------
(* Instances of Startup.                                                   *)
EXTENDS Startup

Sound ==
  [v \in Variable |->
     IF v = "DATABASE_URL" THEN Url("postgres", "localhost", "5432") ELSE Unset]

(***************************************************************************)
(* Everything set, every number at an end of its range, no migration; one  *)
(* value is not Unicode.                                                   *)
(***************************************************************************)
Edges ==
  [v \in Variable |->
     CASE v = "DATABASE_URL" -> Url("postgresql", "localhost", "")
       [] v = "API_BIND" -> Default(v)
       [] v = "MIGRATE_ON_START" -> Word("false")
       [] v = "POLL_INTERVAL_MS" -> NotUnicode
       [] v \in Range(DatabaseVars) -> Number(BoundedInteger[v].max)
       [] OTHER -> Number(BoundedInteger[v].min)]

(***************************************************************************)
(* Values that lead into every error of the parsers.                       *)
(***************************************************************************)
Bad(v) ==
  CASE v = "DATABASE_URL" ->
         {Unset, Word(""), Word("localhost"), Url("mysql", "localhost", ""),
          Url("postgres", "", ""), Url("postgres", "localhost", "bad")}
    [] v = "API_BIND" -> {Word("localhost")}
    [] v = "MIGRATE_ON_START" -> {Word("TRUE"), Number(1)}
    [] v \in Range(DatabaseVars) ->
         {Word(""), Number(BoundedInteger[v].min - 1), Number(BoundedInteger[v].max + 1)}
    [] v = "WORKER_CONCURRENCY" -> {Number(BoundedInteger[v].min - 1)}
    [] OTHER -> {Number(BoundedInteger[v].max + 1)}

MCEnvironment ==
  {Sound, Edges} \cup UNION {{[Sound EXCEPT ![v] = raw] : raw \in Bad(v)} : v \in Variable}
============================================================================
