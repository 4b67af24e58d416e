---------------------------- MODULE MCApplication ----------------------------
(* A small instance of Application.  The environments: nothing set; all of *)
(* the services; three that differ in the spelling of a type, in a number  *)
(* out of range and in a variable that is missing.                         *)
EXTENDS Application

CONSTANTS j1, j2, j3, j4

Nothing ==
  [v \in {"DATABASE_TYPE", "PORT", "CACHE", "SESSION_TYPE", "COOKIE_LIFETIME", "LOG_FORMAT",
          "JOB_WORKERS", "JOB_ENABLE_PERSISTENCE", "KEY", "OTEL_ENABLED", "OTEL_SERVICE_NAME",
          "OTEL_EXPORTER", "OTEL_ENDPOINT", "OTEL_SAMPLER", "OTEL_SAMPLE_RATIO"} |-> Unset]

Everything ==
  [Nothing EXCEPT !.DATABASE_TYPE = "postgres", !.CACHE = "redis", !.SESSION_TYPE = "badger",
                  !.JOB_ENABLE_PERSISTENCE = TRUE, !.KEY = 32, !.OTEL_ENABLED = TRUE,
                  !.OTEL_SERVICE_NAME = "app", !.OTEL_ENDPOINT = "collector"]

MCEnvs ==
  {Nothing, Everything,
   [Everything EXCEPT !.DATABASE_TYPE = "POSTGRES", !.LOG_FORMAT = "TEXT",
                      !.SESSION_TYPE = "redis", !.OTEL_EXPORTER = "NONE"],
   [Everything EXCEPT !.PORT = 99999],
   [Everything EXCEPT !.DATABASE_TYPE = "sqlite", !.SESSION_TYPE = "database",
                      !.OTEL_ENDPOINT = Unset, !.JOB_WORKERS = Junk]}

MCArguments == {<<>>, <<"email", "sms", "websocket">>, <<"sms", "sms">>}

MCCreatedAt == j1 :> 1 @@ j2 :> 2 @@ j3 :> 3 @@ j4 :> 3

(* A user whose second record lacks a column, and a table of one record.   *)
MCRecords == [users |-> <<{"name", "age"}, {"name"}>>, tags |-> <<{}>>]

MCWithin == {<<"Post", "PostTag">>}
=============================================================================
