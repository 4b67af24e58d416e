---------------------------- MODULE Configuration ----------------------------
(***************************************************************************)
(* config/config.go: the environment is read once, with a default for what *)
(* is not set or does not parse, and validated as a whole.  Addresses,     *)
(* names and secrets are left out unless the validation asks for them.     *)
(***************************************************************************)
EXTENDS Integers

CONSTANTS
  Unset,   \* a variable that is not in the environment, or empty
  Junk     \* a value that is neither a number nor a truth value

(* The capitalised spellings that the environments of a run use.           *)
Spelling == [POSTGRES |-> "postgres", NONE |-> "none", TEXT |-> "text"]
ToLower(w) == IF w \in DOMAIN Spelling THEN Spelling[w] ELSE w

envDefault(v, d) == IF v = Unset THEN d ELSE v
envParsed(v, d) == IF v \in {Unset, Junk} THEN d ELSE v

Load(env) ==
  [database |-> IF env.DATABASE_TYPE = Unset THEN "" ELSE env.DATABASE_TYPE,
   port |-> envParsed(env.PORT, 4000),
   cache |-> IF env.CACHE = Unset THEN "" ELSE env.CACHE,
   session |-> envDefault(env.SESSION_TYPE, "cookie"),
   lifetime |-> envParsed(env.COOKIE_LIFETIME, 1440),
   format |-> envDefault(env.LOG_FORMAT, "json"),
   workers |-> envParsed(env.JOB_WORKERS, 5),
   persist |-> envParsed(env.JOB_ENABLE_PERSISTENCE, FALSE),
   key |-> IF env.KEY = Unset THEN 0 ELSE env.KEY,     \* its length
   otel |-> envParsed(env.OTEL_ENABLED, FALSE),
   service |-> env.OTEL_SERVICE_NAME # Unset,
   exporter |-> envDefault(env.OTEL_EXPORTER, "otlp"),
   endpoint |-> env.OTEL_ENDPOINT # Unset,
   sampler |-> envDefault(env.OTEL_SAMPLER, "always"),
   percent |-> envParsed(env.OTEL_SAMPLE_RATIO, 100)]  \* the ratio

(* What Validate finds wrong, by the name of the variable.  REDIS_HOST     *)
(* cannot be: Load has a default for it.                                   *)
Complaints(c) ==
  LET wrong ==
        [PORT |-> c.port \notin 1..65535,
         DATABASE_TYPE |-> c.database # "" /\ ToLower(c.database) \notin
           {"postgres", "postgresql", "pgx", "mysql", "mariadb", "sqlite", "sqlite3"},
         SESSION_TYPE |-> c.session \notin {"cookie", "redis", "database", "badger"},
         COOKIE_LIFETIME |-> c.lifetime < 0,
         LOG_FORMAT |-> ToLower(c.format) \notin {"json", "text"},
         JOB_WORKERS |-> c.workers < 1,
         OTEL_SERVICE_NAME |-> c.otel /\ ~c.service,
         OTEL_EXPORTER |-> c.otel /\ ToLower(c.exporter) \notin {"otlp", "zipkin", "none"},
         OTEL_ENDPOINT |-> c.otel /\ c.exporter # "none" /\ ~c.endpoint,
         OTEL_SAMPLER |-> c.otel /\ ToLower(c.sampler) \notin
           {"always", "never", "ratio", "parent"},
         OTEL_SAMPLE_RATIO |-> c.otel /\ c.percent \notin 0..100,
         KEY |-> c.key \notin {0, 16, 24, 32}]
  IN  {n \in DOMAIN wrong : wrong[n]}

Valid(c) == Complaints(c) = {}

(* The kind of connection string, and the driver that OpenDB asks for: the *)
(* one folds the case of the type, the other does not.                     *)
DSN(c) ==
  CASE ToLower(c.database) \in {"postgres", "postgresql", "pgx"} -> "pgx"
    [] ToLower(c.database) \in {"mysql", "mariadb"} -> "mysql"
    [] ToLower(c.database) \in {"sqlite", "sqlite3"} -> "sqlite3"
    [] OTHER -> ""

Driver(c) ==
  CASE c.database \in {"postgres", "postgresql"} -> "pgx"
    [] c.database \in {"mysql", "mariadb"} -> "mysql"
    [] c.database \in {"sqlite", "sqlite3"} -> "sqlite3"
    [] OTHER -> c.database

OTelEnabled(c) == c.otel /\ c.service

(* setupOpenTelemetry does not fold the case either, and takes otlp for an *)
(* exporter and always for a sampler it does not know.                     *)
Telemetry(c) ==
  [service |-> c.service, endpoint |-> c.endpoint, percent |-> c.percent,
   exporter |-> IF c.exporter \in {"zipkin", "none"} THEN c.exporter ELSE "otlp",
   sampler |-> IF c.sampler \in {"never", "ratio", "parent"} THEN c.sampler ELSE "always"]

(* otel.Config.Validate. *)
ValidTelemetry(t) ==
  /\ t.service /\ (t.exporter # "none" => t.endpoint)
  /\ t.sampler = "ratio" => t.percent \in 0..100
=============================================================================
