------------------------- MODULE MCServiceLifecycle -------------------------
(***************************************************************************)
(* Model checking of ServiceLifecycle: environments that differ in up to   *)
(* two variables from one that sets the key and nothing else.              *)
(***************************************************************************)
EXTENDS ServiceLifecycle

OnlyKey ==
    [NAME |-> "", PORT |-> "", ENVIRONMENT |-> "", MESSAGE_BROKER_TYPE |-> "",
     RABBITMQ_URL |-> "", RABBITMQ_EXCHANGE |-> "", RABBITMQ_EXCHANGE_TYPE |-> "",
     KAFKA_BROKERS |-> <<>>, KAFKA_TOPIC |-> "", KAFKA_GROUP_ID |-> "",
     AZURE_SERVICE_BUS_CONNECTION_STRING |-> "", AZURE_SERVICE_BUS_TOPIC |-> "",
     API_KEY |-> "secret", CORS_ORIGINS |-> <<>>, MAX_REQUEST_SIZE |-> <<>>,
     RATE_LIMIT_ENABLED |-> <<>>, RATE_LIMIT_REQUESTS_PER_SECOND |-> <<>>,
     RATE_LIMIT_BURST |-> <<>>, LOG_LEVEL |-> "", LOG_FORMAT |-> "",
     ENABLE_TRACING |-> <<>>, SHUTDOWN_TIMEOUT |-> <<>>]

\* With one more variable set.
And(e) ==
    {[e EXCEPT !.ENVIRONMENT = v] : v \in {"production", "nowhere"}}
    \cup {[e EXCEPT !.MESSAGE_BROKER_TYPE = v] : v \in {"kafka", "azure-servicebus", "nats"}}
    \cup {[e EXCEPT !.RABBITMQ_EXCHANGE_TYPE = v] : v \in {"fanout", "queue"}}
    \cup {[e EXCEPT !.AZURE_SERVICE_BUS_CONNECTION_STRING = "Endpoint"]}
    \cup {[e EXCEPT !.API_KEY = ""]}
    \cup {[e EXCEPT !.MAX_REQUEST_SIZE = v] : v \in {<<0>>, <<512>>}}
    \cup {[e EXCEPT !.RATE_LIMIT_ENABLED = <<FALSE>>]}
    \cup {[e EXCEPT !.RATE_LIMIT_REQUESTS_PER_SECOND = v] : v \in {<<0>>, <<1>>}}
    \cup {[e EXCEPT !.LOG_LEVEL = v] : v \in {"fatal", "trace"}}
    \cup {[e EXCEPT !.LOG_FORMAT = "xml"]}
    \cup {[e EXCEPT !.ENABLE_TRACING = <<TRUE>>]}
    \cup {[e EXCEPT !.SHUTDOWN_TIMEOUT = v] : v \in {<<0>>, <<-1>>}}

MCEnvironments == UNION {And(e) : e \in And(OnlyKey)} \cup And(OnlyKey) \cup {OnlyKey}
=============================================================================
