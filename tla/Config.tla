------------------------------- MODULE Config -------------------------------
(***************************************************************************)
(* internal/config/config.go: Load, the gateway's configuration as a       *)
(* function of the environment.                                            *)
(*                                                                         *)
(* An environment maps the variables that are set, here without their      *)
(* prefix LOG_TRACK_, to what the parsers make of their text: a record     *)
(* with the field text unless it is empty, with int if strconv.Atoi takes  *)
(* it, and with duration, in milliseconds, if time.ParseDuration does.  A  *)
(* list of brokers is the sequence of its comma-separated parts, trimmed.  *)
(***************************************************************************)
EXTENDS Integers, Sequences

\* What the parser makes of the variable if it takes it, else dflt
Parsed(env, key, parser, dflt) ==
  IF key \in DOMAIN env /\ parser \in DOMAIN env[key]
    THEN env[key][parser] ELSE dflt

getString(env, key, dflt) == Parsed(env, key, "text", dflt)
getInt(env, key, dflt) == Parsed(env, key, "int", dflt)
getDuration(env, key, dflt) == Parsed(env, key, "duration", dflt)

getPositiveInt(env, key, dflt) ==
  LET n == getInt(env, key, dflt) IN IF n <= 0 THEN dflt ELSE n

splitCSV(parts) == SelectSeq(parts, LAMBDA p : p # "")

\* Only the critical queue has its size and its workers checked.
Load(env) ==
  [Server |->
     [Address |-> getString(env, "SERVER_ADDRESS", ":9583"),
      MaxConnections |-> getInt(env, "SERVER_MAX_CONNECTIONS", 3000),
      QueueSize |-> getInt(env, "SERVER_QUEUE_SIZE", 5000),
      WorkerCount |-> getInt(env, "SERVER_WORKER_COUNT", 30),
      CriticalQueueSize |->
        getPositiveInt(env, "SERVER_CRITICAL_QUEUE_SIZE", 2000),
      CriticalWorkerCount |->
        getPositiveInt(env, "SERVER_CRITICAL_WORKER_COUNT", 10),
      MaxMessageSize |->
        getInt(env, "SERVER_MAX_MESSAGE_SIZE", 10 * 1024 * 1024),
      MetricsAddress |-> getString(env, "METRICS_ADDRESS", ":9584")],
   Kafka |->
     [Brokers |-> splitCSV(getString(env, "KAFKA_BROKERS", <<"kafka:9092">>)),
      BatchSize |-> getInt(env, "KAFKA_BATCH_SIZE", 100),
      BatchTimeout |-> getDuration(env, "KAFKA_BATCH_TIMEOUT", 10),
      WriteTimeout |-> getDuration(env, "KAFKA_WRITE_TIMEOUT", 2000)],
   Fallback |->
     [DataDir |-> getString(env, "FALLBACK_DATA_DIR", "/data/logtrack"),
      MaxFileSize |-> getInt(env, "FALLBACK_MAX_FILE_SIZE", 100 * 1024 * 1024),
      MaxFiles |-> getInt(env, "FALLBACK_MAX_FILES", 10)],
   Shutdown |->
     [Timeout |-> getDuration(env, "SHUTDOWN_TIMEOUT", 5000),
      ConnReadTimeout |-> getDuration(env, "SHUTDOWN_CONN_READ_TIMEOUT", 3000),
      KafkaFlushTimeout |->
        getDuration(env, "SHUTDOWN_KAFKA_FLUSH_TIMEOUT", 3000)]]
=============================================================================
