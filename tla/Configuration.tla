--------------------------- MODULE Configuration ---------------------------
(***************************************************************************)
(* Reading the configuration from the environment (config.rs): the range   *)
(* checks, the defaults, and the order in which the first bad variable     *)
(* ends the attempt.                                                       *)
(*                                                                         *)
(* An environment gives every variable a raw value: unset, bytes that are  *)
(* not Unicode, or a text, with the blanks around it trimmed.  A text is   *)
(* told apart as far as the parsers do: a decimal number, a word, a        *)
(* postgres or other URL.                                                  *)
(***************************************************************************)
EXTENDS Integers, SequencesExt

Unset == [form |-> "unset"]
NotUnicode == [form |-> "not_unicode"]
Number(n) == [form |-> "number", n |-> n]
Word(w) == [form |-> "word", w |-> w]   \* Word("") is a blank text
Url(scheme, host, port) == [form |-> "url", scheme |-> scheme, host |-> host, port |-> port]

(***************************************************************************)
(* Defaults and ranges.                                                    *)
(***************************************************************************)
BoundedInteger ==
  [DB_MAX_CONNECTIONS    |-> [default |-> 10,    min |-> 1,    max |-> 50],
   DB_ACQUIRE_TIMEOUT_MS |-> [default |-> 3000,  min |-> 100,  max |-> 60000],
   WORKER_CONCURRENCY    |-> [default |-> 4,     min |-> 1,    max |-> 64],
   POLL_INTERVAL_MS      |-> [default |-> 250,   min |-> 10,   max |-> 60000],
   PROCESSING_LEASE_MS   |-> [default |-> 30000, min |-> 1000, max |-> 3600000],
   SHUTDOWN_TIMEOUT_MS   |-> [default |-> 10000, min |-> 1,    max |-> 300000]]

(***************************************************************************)
(* In the order in which DatabaseConfig, ApiConfig and WorkerConfig read   *)
(* them.                                                                   *)
(***************************************************************************)
DatabaseVars == <<"DATABASE_URL", "DB_MAX_CONNECTIONS", "DB_ACQUIRE_TIMEOUT_MS", "MIGRATE_ON_START">>
ApiVars == <<"API_BIND">> \o DatabaseVars
WorkerVars ==
  DatabaseVars \o <<"WORKER_CONCURRENCY", "POLL_INTERVAL_MS", "PROCESSING_LEASE_MS",
                    "SHUTDOWN_TIMEOUT_MS">>
Variable == Range(ApiVars) \cup Range(WorkerVars)

(***************************************************************************)
(* std::env::var(key).ok(): what is not Unicode reads as unset.            *)
(***************************************************************************)
Lookup(env, var) == IF env[var] = NotUnicode THEN Unset ELSE env[var]

Default(var) ==
  CASE var = "API_BIND" -> Word("127.0.0.1:8088")
    [] var = "MIGRATE_ON_START" -> Word("true")
    [] OTHER -> Number(BoundedInteger[var].default)

---------------------------------------------------------------------------
(* What the parsers find wrong with a text.                                *)

DatabaseUrlError(raw) ==
  CASE raw = Unset -> "Missing"
    [] raw = Word("") -> "Empty"
    [] raw.form # "url" \/ raw.scheme \notin {"postgres", "postgresql"} -> "UnsupportedDatabaseScheme"
    [] raw.host = "" -> "MissingDatabaseHost"
    [] OTHER -> "none"

(***************************************************************************)
(* Fault: the range is not checked, any number is taken as it is.          *)
(***************************************************************************)
BoundedIntegerErrorLenient(var, raw) ==
  IF raw.form \in {"unset", "number"} THEN "none" ELSE "OutOfRange"

BoundedIntegerError(var, raw) ==
  IF \/ raw = Unset
     \/ raw.form = "number" /\ raw.n \in BoundedInteger[var].min .. BoundedInteger[var].max
  THEN "none" ELSE "OutOfRange"

BooleanError(raw) == IF raw \in {Unset, Word("true"), Word("false")} THEN "none" ELSE "InvalidBool"

ApiBindError(raw) ==
  IF raw = Unset \/ raw = Default("API_BIND") THEN "none" ELSE "InvalidBindAddress"

VariableError(env, var) ==
  LET raw == Lookup(env, var) IN
  CASE var = "DATABASE_URL" -> DatabaseUrlError(raw)
    [] var = "MIGRATE_ON_START" -> BooleanError(raw)
    [] var = "API_BIND" -> ApiBindError(raw)
    [] OTHER -> BoundedIntegerError(var, raw)

FirstBad(env, vars) == SelectInSeq(vars, LAMBDA v : VariableError(env, v) # "none")

Setting(env, var) == IF Lookup(env, var) = Unset THEN Default(var) ELSE Lookup(env, var)

(***************************************************************************)
(* from_lookup: the error of the first bad variable, or else the settings. *)
(***************************************************************************)
FromLookup(env, vars) ==
  IF FirstBad(env, vars) = 0
  THEN [error |-> "none", var |-> "none",
        settings |-> [v \in Range(vars) |-> Setting(env, v)]]
  ELSE [error |-> VariableError(env, vars[FirstBad(env, vars)]),
        var |-> vars[FirstBad(env, vars)], settings |-> <<>>]
============================================================================
