------------------------------- MODULE Config -------------------------------
(***************************************************************************)
(* The configuration of internal/config/config.go, as far as the daemon's  *)
(* control depends on it: defaults, the settings of the file, environment  *)
(* overrides, validation and normalisation.                                *)
(*                                                                         *)
(* A configuration is a record; a file is a partial one.  Durations and    *)
(* sizes are small integers, "x" stands for a text that is there.          *)
(***************************************************************************)
EXTENDS Integers, Sequences, SequencesExt, FiniteSets, TLC

(* Default *)
Default ==
    [network |-> "unix", address |-> "x", redisDialTimeout |-> 3, backoffMin |-> 1, backoffMax |-> 3,
     logLevel |-> "info", logFormat |-> "json", logFile |-> "",
     roleCheck |-> TRUE, interval |-> 2, dialTimeout |-> 2, readTimeout |-> 2,
     outputs |-> <<>>,
     metrics |-> TRUE, metricsAddress |-> "x", metricsPath |-> "/metrics",
     alerts |-> FALSE, patterns |-> <<>>,
     retryAttempts |-> 3, retryInitial |-> 1, retryMax |-> 2,
     telegram |-> FALSE, botToken |-> "", chatId |-> "",
     webhook |-> FALSE, webhookUrl |-> "", webhookMethod |-> "",
     pushgateway |-> FALSE, pushUrls |-> <<>>,
     sentry |-> FALSE, dsn |-> "",
     eventBuffer |-> 4, consumerBuffer |-> 3, dropOnFull |-> TRUE]

(* What the decoder leaves out of an output is zero.                       *)
Output(t) == [type |-> t, enabled |-> TRUE, format |-> "", target |-> "x", timeout |-> 0, maxSize |-> 0]

(* The types of the fields that are computed with: the decoder refuses a   *)
(* file with other values.                                                 *)
IntFields == {"redisDialTimeout", "backoffMin", "backoffMax", "interval", "dialTimeout", "readTimeout",
              "retryAttempts", "retryInitial", "retryMax", "eventBuffer", "consumerBuffer"}

Outputs == [type : STRING, enabled : BOOLEAN, format : STRING, target : STRING, timeout : Int, maxSize : Int]

Typed(c) ==
    /\ \A k \in DOMAIN c \cap IntFields : c[k] \in Int
    /\ "outputs" \in DOMAIN c => c["outputs"] \in Seq(Outputs)

(* The decoder fills in the settings of a file over the defaults.          *)
Decoded(f) == [k \in DOMAIN Default |-> IF k \in DOMAIN f THEN f[k] ELSE Default[k]]

-----------------------------------------------------------------------------
(* applyEnv.  An override is a record with val and, for the variables that *)
(* are parsed, ok; one that does not parse is passed over.                 *)

TextVars == {"network", "address", "logLevel", "logFormat", "metricsAddress", "dsn",
             "botToken", "chatId", "webhookUrl"}
ParsedVars == {"sentry", "retryAttempts", "retryInitial", "retryMax"}
ListVars == {"pushUrls"}

ApplyEnv(c, env) ==
    [k \in DOMAIN c |->
        CASE k \in DOMAIN env \cap TextVars -> env[k].val
          [] k \in DOMAIN env \cap ParsedVars /\ env[k].ok -> env[k].val
          [] k \in DOMAIN env \cap ListVars -> SelectSeq(env[k].val, LAMBDA u : u # "")
          [] OTHER -> c[k]]

-----------------------------------------------------------------------------
(* Validate: its errors, in OutputInvalid those of one output.             *)

Formats == {"json", "text"}
NetTypes == {"udp", "tcp"}
OutputTypes == NetTypes \cup {"stdout", "file"}

(* Variant with a bug: any type will do. *)
OutputInvalidAnyType(o) ==
    /\ o.enabled
    /\ \/ o.type # "stdout" /\ o.target = ""
       \/ o.format \notin Formats \cup {""}

OutputInvalid(o) ==
    /\ o.enabled
    /\ \/ o.type \notin OutputTypes
       \/ o.type # "stdout" /\ o.target = ""
       \/ o.format \notin Formats \cup {""}

RetryInvalid(c) ==
    \/ c.retryInitial < 0
    \/ c.retryMax < 0
    \/ c.retryMax > 0 /\ c.retryInitial > c.retryMax

AlertsInvalid(c) ==
    /\ c.alerts
    /\ \/ c.telegram /\ (c.botToken = "" \/ c.chatId = "")
       \/ c.webhook /\ c.webhookUrl = ""
       \/ c.pushgateway /\ (c.pushUrls = <<>> \/ "" \in ToSet(c.pushUrls))
       \/ RetryInvalid(c)

Invalid(c) ==
    \/ c.network \notin {"unix", "tcp"}
    \/ c.address = ""
    \/ c.logLevel \notin {"debug", "info", "warn", "warning", "error"}
    \/ c.logFormat \notin Formats \cup {""}
    \/ \E k \in DOMAIN c.outputs : OutputInvalid(c.outputs[k])
    \/ c.metrics /\ c.metricsAddress = ""
    \/ AlertsInvalid(c)
    \/ c.sentry /\ c.dsn = ""

(* ... and what it puts in place of values that make no sense.             *)
Positive(n, default) == IF n > 0 THEN n ELSE default

NormalOutput(o) ==
    IF ~o.enabled THEN o
    ELSE [o EXCEPT !.format = IF @ = "" THEN "json" ELSE @,
                   !.timeout = IF @ = 0 /\ o.type \in NetTypes THEN 2 ELSE @,
                   !.maxSize = IF @ = 0 /\ o.type = "file" THEN 3 ELSE @]

Normal(c) ==
    LET min == Positive(c.backoffMin, 1)
    IN  [c EXCEPT !.backoffMin = min,
                  !.backoffMax = IF @ < min THEN min ELSE @,
                  !.outputs = [k \in DOMAIN @ |-> NormalOutput(@[k])],
                  !.metricsPath = IF @ = "" THEN "/metrics" ELSE @,
                  !.webhookMethod = IF c.alerts /\ c.webhook /\ @ = "" THEN "POST" ELSE @,
                  !.retryAttempts = IF c.alerts THEN Positive(@, 1) ELSE @,
                  !.eventBuffer = Positive(@, 4),
                  !.consumerBuffer = Positive(@, 3),
                  !.interval = IF c.roleCheck THEN Positive(@, 2) ELSE @,
                  !.dialTimeout = IF c.roleCheck THEN Positive(@, 2) ELSE @,
                  !.readTimeout = IF c.roleCheck THEN Positive(@, 2) ELSE @]

-----------------------------------------------------------------------------
(* The outputs that are enabled, at their place in the list.               *)
Enabled(c) == Restrict(c.outputs, {k \in DOMAIN c.outputs : c.outputs[k].enabled})

(* The client of MONITOR can dial.  With a negative redis.dial_timeout its *)
(* net.Dialer has run out of time before it starts, and Client.Run returns *)
(* the timeout; Validate and monitor.New leave such a value as it is.      *)
CanDial(c) == c.redisDialTimeout >= 0

(* What the other parts of the daemon take for granted of a configuration: *)
(* the premises of NewConsumer, NewTicker, the sinks and the models of the *)
(* client and of the alert engine.  (Where a setting is not listed, any    *)
(* value will do: NewNetSink, NewFileSink, alert.New and the channels put  *)
(* a default for timeouts and sizes that are not positive, and readLoop    *)
(* and rateLimitAllow switch off what is not positive.)                    *)
PartsUsable(c) ==
    /\ 0 < c.backoffMin /\ c.backoffMin <= c.backoffMax
    /\ c.eventBuffer > 0 /\ c.consumerBuffer > 0
    /\ c.roleCheck => c.interval > 0 /\ c.dialTimeout > 0 /\ c.readTimeout > 0
    /\ \A o \in Range(Enabled(c)) :
        /\ o.type \in OutputTypes
        /\ o.format \in Formats
        /\ o.type = "stdout" \/ o.target # ""
    /\ c.alerts =>
        /\ c.retryAttempts > 0 /\ c.retryInitial >= 0 /\ c.retryMax >= 0
        /\ c.retryMax > 0 => c.retryInitial <= c.retryMax

Usable(c) == CanDial(c) /\ PartsUsable(c)
=============================================================================
