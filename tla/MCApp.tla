------------------------------- MODULE MCApp -------------------------------
(* TLC instance of App.                                                    *)
EXTENDS App

Numbers == {-1, 0, 1, 5}

(* One setting at a time, over its edge cases.                             *)
OneSetting ==
    UNION {{k :> n : n \in Numbers} :
            k \in {"redisDialTimeout", "backoffMin", "backoffMax", "interval", "dialTimeout", "readTimeout",
                   "eventBuffer", "consumerBuffer"}}
    \cup {"network" :> v : v \in {"tcp", "udp"}}
    \cup {"logLevel" :> v : v \in {"", "warning", "loud"}}
    \cup {"logFormat" :> v : v \in {"", "xml"}}
    \cup {"metricsPath" :> v : v \in {"", "bare", "/healthz"}}
    \cup {"roleCheck" :> FALSE @@ "interval" :> -1, "dropOnFull" :> FALSE, "metrics" :> FALSE,
          "address" :> "", "metricsAddress" :> ""}
    \cup {"backoffMin" :> m @@ "backoffMax" :> n : m \in Numbers, n \in Numbers}

(* None, one or two outputs.                                               *)
Variants ==
    {Output(t) : t \in {"stdout", "file", "tcp", "pipe"}}
    \cup {[Output("tcp") EXCEPT !.target = ""], [Output("udp") EXCEPT !.timeout = -1],
          [Output("file") EXCEPT !.format = "xml"], [Output("pipe") EXCEPT !.enabled = FALSE]}

OutputSettings ==
    {"outputs" :> <<o>> @@ "consumerBuffer" :> n : o \in Variants, n \in Numbers}
    \cup {"outputs" :> <<o, p>> : o \in Variants, p \in Variants}

(* The alerts, with Sentry and a log file.                                 *)
AlertSettings ==
    {"alerts" :> a @@ "webhook" :> TRUE @@ "webhookUrl" :> "x"
        @@ "retryAttempts" :> n @@ "retryInitial" :> m @@ "retryMax" :> x :
        a \in BOOLEAN, n \in Numbers, m \in Numbers, x \in Numbers}
    \cup {"alerts" :> TRUE @@ "patterns" :> <<p>> @@ c :
            p \in {"good", "bad"},
            c \in {"telegram" :> TRUE, "telegram" :> TRUE @@ "botToken" :> "x" @@ "chatId" :> "x",
                   "webhook" :> TRUE, "pushgateway" :> TRUE, "telegram" :> FALSE,
                   "pushgateway" :> TRUE @@ "pushUrls" :> <<"u", "">>,
                   "pushgateway" :> TRUE @@ "pushUrls" :> <<"u">>}}

SentrySettings ==
    {"sentry" :> TRUE @@ "dsn" :> d @@ "logFile" :> l @@ "metrics" :> m :
        d \in {"", "bad", "x"}, l \in {"", "x"}, m \in BOOLEAN}

MCSettings == OneSetting \cup OutputSettings \cup AlertSettings \cup SentrySettings

Parsed(v) == [val |-> v, ok |-> TRUE]
Malformed == [ok |-> FALSE]

MCEnvironments ==
    {<<>>,
     "retryAttempts" :> Malformed @@ "retryInitial" :> Parsed(5) @@ "sentry" :> Malformed,
     "retryAttempts" :> Parsed(0) @@ "retryMax" :> Malformed @@ "sentry" :> Parsed(TRUE)
        @@ "dsn" :> [val |-> "x"] @@ "pushUrls" :> [val |-> <<"", "u">>]}
=============================================================================
