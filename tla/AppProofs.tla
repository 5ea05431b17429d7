----------------------------- MODULE AppProofs -----------------------------
(***************************************************************************)
(* The configuration of config.go and the life of the process of app.go,   *)
(* proved for all files and environments of the Go types: a configuration  *)
(* that Load accepts can be run, unless the client cannot dial with it,    *)
(* and Run leaves nothing behind.                                          *)
(***************************************************************************)
EXTENDS App, TLAPS

(* A decoded configuration: it has every field, with its type.             *)
Conf(c) ==
    /\ DOMAIN c = DOMAIN Default
    /\ Typed(c)

(* The defaults are such a configuration.                                  *)
LEMMA DefaultIsConf == Conf(Default)
<1>1. <<>> \in Seq(Outputs)
    OBVIOUS
<1>2. ASSUME NEW k \in DOMAIN Default \cap IntFields PROVE Default[k] \in Int
    <2>1. /\ Default["backoffMin"] \in Int /\ Default["backoffMax"] \in Int /\ Default["interval"] \in Int
          /\ Default["dialTimeout"] \in Int /\ Default["readTimeout"] \in Int
          /\ Default["retryAttempts"] \in Int /\ Default["retryInitial"] \in Int /\ Default["retryMax"] \in Int
          /\ Default["eventBuffer"] \in Int /\ Default["consumerBuffer"] \in Int
          /\ Default["redisDialTimeout"] \in Int
        BY DEF Default
    <2> QED
        BY <1>2, <2>1 DEF IntFields
<1>3. Default["outputs"] \in Seq(Outputs)
    BY <1>1 DEF Default
<1> QED
    BY <1>2, <1>3 DEF Conf, Typed

(* So are the defaults under the settings of a file.                       *)
LEMMA FileIsConf ==
    ASSUME NEW f \in Settings
    PROVE  Conf(Decoded(f))
<1> DEFINE c == Decoded(f)
<1>1. DOMAIN c = DOMAIN Default /\ \A k \in DOMAIN c : c[k] = IF k \in DOMAIN f THEN f[k] ELSE Default[k]
    BY DEF Decoded
<1> HIDE DEF c
<1>2. Typed(f) /\ Typed(Default)
    BY SettingsAssumption, DefaultIsConf DEF Conf
<1>3. Typed(c)
    BY <1>1, <1>2 DEF Typed
<1> QED
    BY <1>1, <1>3 DEF Conf, c

(* And what applyEnv makes of it.                                          *)
LEMMA EnvIsConf ==
    ASSUME NEW c, Conf(c), NEW e \in Environments
    PROVE  Conf(ApplyEnv(c, e)) /\ ApplyEnv(c, e) = [k \in DOMAIN c |-> ApplyEnv(c, e)[k]]
<1> DEFINE d == ApplyEnv(c, e)
<1>1. DOMAIN d = DOMAIN c /\ d = [k \in DOMAIN c |-> d[k]]
    BY DEF ApplyEnv
<1>2. ASSUME NEW k \in DOMAIN c \cap IntFields
      PROVE  d[k] \in Int
    <2>1. k \notin TextVars /\ k \notin ListVars
        BY DEF IntFields, TextVars, ListVars
    <2>2. d[k] = c[k] \/ (k \in DOMAIN e \cap ParsedVars /\ e[k].ok /\ d[k] = e[k].val)
        BY <2>1 DEF ApplyEnv
    <2> QED
        BY <1>2, <2>2, EnvironmentsAssumption DEF Conf, Typed
<1>3. "outputs" \in DOMAIN c => d["outputs"] = c["outputs"]
    BY DEF ApplyEnv, TextVars, ParsedVars, ListVars
<1> HIDE DEF d
<1>4. Typed(d)
    BY <1>1, <1>2, <1>3 DEF Conf, Typed
<1> QED
    BY <1>1, <1>4 DEF Conf, d

-----------------------------------------------------------------------------
(* Validate's normalisation, field by field.                               *)
Touched ==
    {"backoffMin", "backoffMax", "outputs", "metricsPath", "webhookMethod", "retryAttempts",
     "eventBuffer", "consumerBuffer", "interval", "dialTimeout", "readTimeout"}

NormalOf(c, n) ==
    /\ DOMAIN n = DOMAIN c /\ n = [k \in DOMAIN c |-> n[k]]
    /\ n.backoffMin = Positive(c.backoffMin, 1)
    /\ n.backoffMax = IF c.backoffMax < Positive(c.backoffMin, 1) THEN Positive(c.backoffMin, 1) ELSE c.backoffMax
    /\ n.outputs = [k \in DOMAIN c.outputs |-> NormalOutput(c.outputs[k])]
    /\ n.metricsPath = IF c.metricsPath = "" THEN "/metrics" ELSE c.metricsPath
    /\ n.webhookMethod = IF c.alerts /\ c.webhook /\ c.webhookMethod = "" THEN "POST" ELSE c.webhookMethod
    /\ n.retryAttempts = IF c.alerts THEN Positive(c.retryAttempts, 1) ELSE c.retryAttempts
    /\ n.eventBuffer = Positive(c.eventBuffer, 4)
    /\ n.consumerBuffer = Positive(c.consumerBuffer, 3)
    /\ n.interval = IF c.roleCheck THEN Positive(c.interval, 2) ELSE c.interval
    /\ n.dialTimeout = IF c.roleCheck THEN Positive(c.dialTimeout, 2) ELSE c.dialTimeout
    /\ n.readTimeout = IF c.roleCheck THEN Positive(c.readTimeout, 2) ELSE c.readTimeout
    /\ \A k \in DOMAIN c \ Touched : n[k] = c[k]

(* The fields that Validate does not normalise.                            *)
Kept ==
    {"network", "address", "redisDialTimeout", "logLevel", "logFormat", "logFile", "roleCheck", "metrics", "metricsAddress",
     "alerts", "patterns", "retryInitial", "retryMax", "telegram", "botToken", "chatId", "webhook", "webhookUrl",
     "pushgateway", "pushUrls", "sentry", "dsn", "dropOnFull"}

(* The fields of a configuration.                                          *)
LEMMA Fields == DOMAIN Default = Touched \cup Kept
BY DEF Default, Touched, Kept

(* This is what Normal does.                                               *)
LEMMA NormalFields ==
    ASSUME NEW c, DOMAIN c = DOMAIN Default
    PROVE  NormalOf(c, Normal(c))
<1>1. Touched \subseteq DOMAIN c
    BY Fields
<1>2. /\ "backoffMin" \in DOMAIN c /\ "backoffMax" \in DOMAIN c /\ "outputs" \in DOMAIN c
      /\ "metricsPath" \in DOMAIN c /\ "webhookMethod" \in DOMAIN c /\ "retryAttempts" \in DOMAIN c
      /\ "eventBuffer" \in DOMAIN c /\ "consumerBuffer" \in DOMAIN c /\ "interval" \in DOMAIN c
      /\ "dialTimeout" \in DOMAIN c /\ "readTimeout" \in DOMAIN c
    BY <1>1 DEF Touched
<1> DEFINE n == Normal(c)
<1>3. DOMAIN n = DOMAIN c /\ n = [k \in DOMAIN c |-> n[k]]
    BY ZenonT(60) DEF Normal
<1>4. \A k \in DOMAIN c \ Touched : n[k] = c[k]
    BY DEF Normal, Touched
<1>5. n.backoffMin = Positive(c.backoffMin, 1)
    BY <1>2 DEF Normal
<1>6. n.backoffMax = IF c.backoffMax < Positive(c.backoffMin, 1) THEN Positive(c.backoffMin, 1) ELSE c.backoffMax
    BY <1>2 DEF Normal
<1>7. n.outputs = [k \in DOMAIN c.outputs |-> NormalOutput(c.outputs[k])]
    BY <1>2 DEF Normal
<1>8. /\ n.metricsPath = IF c.metricsPath = "" THEN "/metrics" ELSE c.metricsPath
      /\ n.webhookMethod = IF c.alerts /\ c.webhook /\ c.webhookMethod = "" THEN "POST" ELSE c.webhookMethod
    BY <1>2 DEF Normal
<1>9. /\ n.retryAttempts = IF c.alerts THEN Positive(c.retryAttempts, 1) ELSE c.retryAttempts
      /\ n.eventBuffer = Positive(c.eventBuffer, 4)
      /\ n.consumerBuffer = Positive(c.consumerBuffer, 3)
    BY <1>2 DEF Normal
<1>10. /\ n.interval = IF c.roleCheck THEN Positive(c.interval, 2) ELSE c.interval
       /\ n.dialTimeout = IF c.roleCheck THEN Positive(c.dialTimeout, 2) ELSE c.dialTimeout
       /\ n.readTimeout = IF c.roleCheck THEN Positive(c.readTimeout, 2) ELSE c.readTimeout
    BY <1>2 DEF Normal
<1> QED
    BY <1>3, <1>4, <1>5, <1>6, <1>7, <1>8, <1>9, <1>10 DEF NormalOf

(* The other fields, by name.                                              *)
LEMMA NormalKeeps ==
    ASSUME NEW c, DOMAIN c = DOMAIN Default, NEW n, NormalOf(c, n)
    PROVE  /\ n.network = c.network /\ n.address = c.address /\ n.logLevel = c.logLevel /\ n.logFormat = c.logFormat
           /\ n.roleCheck = c.roleCheck /\ n.metrics = c.metrics /\ n.metricsAddress = c.metricsAddress
           /\ n.alerts = c.alerts /\ n.retryInitial = c.retryInitial /\ n.retryMax = c.retryMax
           /\ n.telegram = c.telegram /\ n.botToken = c.botToken /\ n.chatId = c.chatId
           /\ n.webhook = c.webhook /\ n.webhookUrl = c.webhookUrl
           /\ n.pushgateway = c.pushgateway /\ n.pushUrls = c.pushUrls /\ n.sentry = c.sentry /\ n.dsn = c.dsn
<1>1. \A k \in Kept : n[k] = c[k]
    <2>1. \A k \in Kept : k \in DOMAIN c \ Touched
        BY Fields DEF Touched, Kept
    <2> QED
        BY <2>1 DEF NormalOf
<1> QED
    BY <1>1 DEF Kept

(* The numbers and the outputs of a configuration.                         *)
LEMMA ConfTypes ==
    ASSUME NEW c, Conf(c)
    PROVE  /\ c.backoffMin \in Int /\ c.backoffMax \in Int /\ c.interval \in Int /\ c.dialTimeout \in Int
           /\ c.readTimeout \in Int /\ c.retryAttempts \in Int /\ c.retryInitial \in Int /\ c.retryMax \in Int
           /\ c.eventBuffer \in Int /\ c.consumerBuffer \in Int
           /\ c.outputs \in Seq(Outputs)
<1>1. IntFields \subseteq DOMAIN c /\ "outputs" \in DOMAIN c
    BY Fields DEF Conf, Touched, Kept, IntFields
<1>2. \A k \in IntFields : c[k] \in Int
    BY <1>1 DEF Conf, Typed
<1> QED
    BY <1>1, <1>2 DEF Conf, Typed, IntFields

(* One output: normalisation keeps what Validate looks at, fills in the    *)
(* format and has nothing more to do the second time.                      *)
LEMMA NormalOutputFacts ==
    ASSUME NEW o \in Outputs
    PROVE  LET p == NormalOutput(o)
           IN  /\ p.type = o.type /\ p.enabled = o.enabled /\ p.target = o.target
               /\ p.enabled => p.format = IF o.format = "" THEN "json" ELSE o.format
               /\ ~p.enabled => p = o
               /\ NormalOutput(p) = p
<1> DEFINE p == NormalOutput(o)
<1>1. CASE ~o.enabled
    BY <1>1 DEF NormalOutput, Outputs
<1>2. CASE o.enabled
    <2>1. /\ p.type = o.type /\ p.enabled = o.enabled /\ p.target = o.target
          /\ p.format = IF o.format = "" THEN "json" ELSE o.format
          /\ p.timeout = IF o.timeout = 0 /\ o.type \in NetTypes THEN 2 ELSE o.timeout
          /\ p.maxSize = IF o.maxSize = 0 /\ o.type = "file" THEN 3 ELSE o.maxSize
        BY <1>2 DEF NormalOutput, Outputs
    <2>2. p = [k \in DOMAIN p |-> p[k]] /\ {"format", "timeout", "maxSize"} \subseteq DOMAIN p
        BY <1>2 DEF NormalOutput, Outputs
    <2> HIDE DEF p
    <2> DEFINE q == NormalOutput(p)
    <2>3. q = [p EXCEPT !.format = p.format, !.timeout = p.timeout, !.maxSize = p.maxSize]
        BY <1>2, <2>1 DEF NormalOutput
    <2>4. q = p
        BY <2>2, <2>3
    <2> QED
        BY <1>2, <2>1, <2>2, <2>4 DEF p
<1> QED
    BY <1>1, <1>2

(* A second Validate finds nothing to change.                              *)
LEMMA NormalIdempotent ==
    ASSUME NEW c, Conf(c)
    PROVE  Normal(Normal(c)) = Normal(c)
<1> DEFINE n == Normal(c)
           m == Normal(n)
<1>1. NormalOf(c, n)
    BY NormalFields DEF Conf
<1>2. DOMAIN n = DOMAIN Default
    BY <1>1 DEF NormalOf, Conf
<1>3. NormalOf(n, m)
    BY <1>2, NormalFields
<1> HIDE DEF n, m
<1>4. n.roleCheck = c.roleCheck /\ n.alerts = c.alerts /\ n.webhook = c.webhook
    BY <1>1, NormalKeeps DEF Conf
<1> USE DEF Positive
<1>5. m.backoffMin = n.backoffMin /\ m.backoffMax = n.backoffMax
    BY <1>1, <1>3, ConfTypes DEF NormalOf
<1>6. m.eventBuffer = n.eventBuffer /\ m.consumerBuffer = n.consumerBuffer
    BY <1>1, <1>3, ConfTypes DEF NormalOf
<1>7. m.interval = n.interval /\ m.dialTimeout = n.dialTimeout /\ m.readTimeout = n.readTimeout
    BY <1>1, <1>3, <1>4, ConfTypes DEF NormalOf
<1>8. m.retryAttempts = n.retryAttempts
    BY <1>1, <1>3, <1>4, ConfTypes DEF NormalOf
<1>9. m.metricsPath = n.metricsPath /\ m.webhookMethod = n.webhookMethod
    BY <1>1, <1>3, <1>4 DEF NormalOf
<1>10. m.outputs = n.outputs
    <2>1. c.outputs \in Seq(Outputs)
        BY ConfTypes
    <2>2. n.outputs = [k \in DOMAIN c.outputs |-> NormalOutput(c.outputs[k])]
        BY <1>1 DEF NormalOf
    <2>3. m.outputs = [k \in DOMAIN n.outputs |-> NormalOutput(n.outputs[k])]
        BY <1>3 DEF NormalOf
    <2>4. ASSUME NEW k \in DOMAIN c.outputs PROVE NormalOutput(n.outputs[k]) = n.outputs[k]
        <3>1. c.outputs[k] \in Outputs
            BY <2>1
        <3> QED
            BY <2>2, <3>1, NormalOutputFacts
    <2> QED
        BY <2>2, <2>3, <2>4
<1>11. ASSUME NEW k \in DOMAIN n PROVE m[k] = n[k]
    <2>1. CASE k \in Touched
        BY <1>5, <1>6, <1>7, <1>8, <1>9, <1>10, <2>1 DEF Touched
    <2>2. CASE k \notin Touched
        BY <1>3, <2>2 DEF NormalOf
    <2> QED
        BY <2>1, <2>2
<1>12. n = [k \in DOMAIN n |-> n[k]] /\ m = [k \in DOMAIN n |-> m[k]]
    BY <1>1, <1>3 DEF NormalOf
<1>13. m = n
    BY <1>11, <1>12
<1> QED
    BY <1>13 DEF m, n

(* Nor does it refuse what the first one accepted.                         *)
LEMMA NormalStaysValid ==
    ASSUME NEW c, Conf(c), ~Invalid(c)
    PROVE  ~Invalid(Normal(c))
<1> DEFINE n == Normal(c)
<1>1. NormalOf(c, n)
    BY NormalFields DEF Conf
<1> HIDE DEF n
<1>2. \A k \in DOMAIN n.outputs : ~OutputInvalid(n.outputs[k])
    <2> SUFFICES ASSUME NEW k \in DOMAIN n.outputs PROVE ~OutputInvalid(n.outputs[k])
        OBVIOUS
    <2>1. k \in DOMAIN c.outputs /\ n.outputs[k] = NormalOutput(c.outputs[k]) /\ c.outputs \in Seq(Outputs)
        BY <1>1, ConfTypes DEF NormalOf
    <2>2. c.outputs[k] \in Outputs
        BY <2>1
    <2>3. ~OutputInvalid(c.outputs[k])
        BY <2>1 DEF Invalid
    <2> QED
        BY <2>1, <2>2, <2>3, NormalOutputFacts DEF OutputInvalid, Formats
<1>3. /\ n.network = c.network /\ n.address = c.address /\ n.logLevel = c.logLevel /\ n.logFormat = c.logFormat
      /\ n.metrics = c.metrics /\ n.metricsAddress = c.metricsAddress
      /\ n.alerts = c.alerts /\ n.retryInitial = c.retryInitial /\ n.retryMax = c.retryMax
      /\ n.telegram = c.telegram /\ n.botToken = c.botToken /\ n.chatId = c.chatId
      /\ n.webhook = c.webhook /\ n.webhookUrl = c.webhookUrl
      /\ n.pushgateway = c.pushgateway /\ n.pushUrls = c.pushUrls /\ n.sentry = c.sentry /\ n.dsn = c.dsn
    BY <1>1, NormalKeeps DEF Conf
<1>4. ~AlertsInvalid(n)
    <2>1. ~AlertsInvalid(c)
        BY DEF Invalid
    <2>2. RetryInvalid(n) = RetryInvalid(c)
        BY <1>3, Zenon DEF RetryInvalid
    <2> QED
        BY <1>3, <2>1, <2>2, Zenon DEF AlertsInvalid
<1>5. ~Invalid(n)
    BY <1>2, <1>3, <1>4, Zenon DEF Invalid
<1> QED
    BY <1>5 DEF n

(* What Validate accepts and normalises is what the parts other than the   *)
(* dialing client expect.                                                  *)
LEMMA NormalIsUsable ==
    ASSUME NEW c, Conf(c), ~Invalid(c)
    PROVE  PartsUsable(Normal(c))
<1> DEFINE n == Normal(c)
<1>1. NormalOf(c, n)
    BY NormalFields DEF Conf
<1> HIDE DEF n
<1>2. n.roleCheck = c.roleCheck /\ n.alerts = c.alerts /\ n.retryInitial = c.retryInitial /\ n.retryMax = c.retryMax
    BY <1>1, NormalKeeps DEF Conf
<1>3. 0 < n.backoffMin /\ n.backoffMin <= n.backoffMax
    <2> DEFINE x == c.backoffMin
               y == c.backoffMax
    <2>1. x \in Int /\ y \in Int /\ n.backoffMin = Positive(x, 1)
          /\ n.backoffMax = IF y < Positive(x, 1) THEN Positive(x, 1) ELSE y
        BY <1>1, ConfTypes DEF NormalOf
    <2> HIDE DEF x, y
    <2> QED
        BY <2>1 DEF Positive
<1>4. n.eventBuffer > 0 /\ n.consumerBuffer > 0
    <2>1. n.eventBuffer = Positive(c.eventBuffer, 4) /\ n.consumerBuffer = Positive(c.consumerBuffer, 3)
        BY <1>1 DEF NormalOf
    <2>2. c.eventBuffer \in Int /\ c.consumerBuffer \in Int
        BY ConfTypes
    <2> QED
        BY <2>1, <2>2 DEF Positive
<1>5. n.roleCheck => n.interval > 0 /\ n.dialTimeout > 0 /\ n.readTimeout > 0
    <2> SUFFICES ASSUME c.roleCheck PROVE n.interval > 0 /\ n.dialTimeout > 0 /\ n.readTimeout > 0
        BY <1>2
    <2>1. /\ n.interval = Positive(c.interval, 2)
          /\ n.dialTimeout = Positive(c.dialTimeout, 2)
          /\ n.readTimeout = Positive(c.readTimeout, 2)
        BY <1>1 DEF NormalOf
    <2>2. c.interval \in Int /\ c.dialTimeout \in Int /\ c.readTimeout \in Int
        BY ConfTypes
    <2> QED
        BY <2>1, <2>2 DEF Positive
<1>6. ASSUME NEW o \in Range(Enabled(n))
      PROVE  o.type \in OutputTypes /\ o.format \in Formats /\ (o.type = "stdout" \/ o.target # "")
    <2>1. PICK k \in DOMAIN n.outputs : n.outputs[k].enabled /\ o = n.outputs[k]
        BY DEF Range, Enabled, Restrict
    <2>2. k \in DOMAIN c.outputs /\ o = NormalOutput(c.outputs[k]) /\ c.outputs \in Seq(Outputs)
        BY <1>1, <2>1, ConfTypes, ZenonT(60) DEF NormalOf
    <2>3. c.outputs[k] \in Outputs
        BY <2>2
    <2>4. ~OutputInvalid(c.outputs[k])
        BY <2>2 DEF Invalid
    <2> DEFINE d == c.outputs[k]
    <2>5. /\ o.type = d.type /\ o.enabled = d.enabled /\ o.target = d.target
          /\ o.enabled => o.format = IF d.format = "" THEN "json" ELSE d.format
        BY <2>2, <2>3, NormalOutputFacts
    <2>6. o.enabled /\ o.format = IF d.format = "" THEN "json" ELSE d.format
        BY <2>1, <2>5
    <2> HIDE DEF d
    <2>7. ~OutputInvalid(d)
        BY <2>4 DEF d
    <2> QED
        BY <2>5, <2>6, <2>7 DEF OutputInvalid, Formats
<1>7. n.alerts => /\ n.retryAttempts > 0 /\ n.retryInitial >= 0 /\ n.retryMax >= 0
                  /\ n.retryMax > 0 => n.retryInitial <= n.retryMax
    <2> SUFFICES ASSUME n.alerts
                 PROVE  /\ n.retryAttempts > 0 /\ n.retryInitial >= 0 /\ n.retryMax >= 0
                        /\ n.retryMax > 0 => n.retryInitial <= n.retryMax
        OBVIOUS
    <2>1. ~RetryInvalid(c)
        BY <1>2 DEF Invalid, AlertsInvalid
    <2>2. n.retryAttempts > 0
        <3>1. n.retryAttempts = Positive(c.retryAttempts, 1)
            BY <1>1, <1>2 DEF NormalOf
        <3>2. c.retryAttempts \in Int
            BY ConfTypes
        <3> QED
            BY <3>1, <3>2 DEF Positive
    <2> QED
        BY <1>2, <2>1, <2>2, ConfTypes DEF RetryInvalid
<1>8. PartsUsable(n)
    BY <1>3, <1>4, <1>5, <1>6, <1>7 DEF PartsUsable
<1> QED
    BY <1>8 DEF n

-----------------------------------------------------------------------------
(* What Run has in its hands once Load has returned.                       *)
Good(c) ==
    /\ PartsUsable(c) /\ ~Invalid(c) /\ Normal(c) = c
    /\ c.consumerBuffer \in Int

Building == {"logger", "sentry", "outputs", "alerts", "wire", "signals", "start"}

Accepted ==
    cfg # NoConfig =>
        /\ Good(cfg)
        /\ status = "error" => cfg.dsn = "bad" \/ "bad" \in ToSet(cfg.patterns)
        /\ status = "panic" => PathRefused

ConfigInv ==
    /\ file.kind = "ok" => file.set \in Settings
    /\ env \in Environments
    /\ pc = "load" => cfg = NoConfig /\ status = "up"
    /\ pc \in Building => Good(cfg)
    /\ Accepted

(* Load returns an error or a good configuration.                          *)
LEMMA LoadIsGood ==
    ASSUME NEW c, Conf(c), ~Invalid(c)
    PROVE  Good(Normal(c))
<1>1. NormalOf(c, Normal(c)) /\ c.consumerBuffer \in Int
    BY NormalFields, ConfTypes DEF Conf
<1>2. Normal(c).consumerBuffer \in Int
    <2> DEFINE n == Normal(c)
    <2>1. NormalOf(c, n)
        BY <1>1
    <2> HIDE DEF n
    <2>2. n.consumerBuffer = Positive(c.consumerBuffer, 3)
        BY <2>1 DEF NormalOf
    <2>3. n.consumerBuffer \in Int
        BY <1>1, <2>2 DEF Positive
    <2> QED
        BY <2>3 DEF n
<1> QED
    BY <1>2, NormalIsUsable, NormalStaysValid, NormalIdempotent DEF Good

(* A step that leaves the configuration and the outcome of Run alone.      *)
LEMMA ConfigFrame ==
    ASSUME ConfigInv, UNCHANGED <<inputs, cfg, status>>,
           pc' = pc \/ (pc \in Building /\ pc' # "load") \/ pc' \notin Building \cup {"load"}
    PROVE  ConfigInv'
BY DEF ConfigInv, Accepted, inputs, PathRefused

(* Every step of Run, of its parts and of a signal.                        *)
LEMMA ConfigStep == ConfigInv /\ [Next]_vars => ConfigInv'
<1> SUFFICES ASSUME ConfigInv, [Next]_vars PROVE ConfigInv'
    OBVIOUS
<1>1. CASE Load
    <2> DEFINE c == ApplyEnv(IF file.kind = "ok" THEN Decoded(file.set) ELSE Default, env)
    <2>1. pc = "load" /\ cfg = NoConfig /\ UNCHANGED <<file, env>>
        BY <1>1 DEF Load, inputs, ConfigInv
    <2>2. Conf(c)
        <3>1. Conf(IF file.kind = "ok" THEN Decoded(file.set) ELSE Default)
            BY FileIsConf, DefaultIsConf DEF ConfigInv
        <3> QED
            BY <3>1, EnvIsConf DEF ConfigInv
    <2>3. \/ Leave("error") /\ UNCHANGED cfg
          \/ ~Invalid(c) /\ cfg' = Normal(c) /\ pc' = "logger" /\ UNCHANGED status
        BY <1>1 DEF Load
    <2> HIDE DEF c
    <2>4. CASE Leave("error") /\ UNCHANGED cfg
        BY <2>1, <2>4 DEF Leave, ConfigInv, Accepted, Building
    <2>5. CASE ~Invalid(c) /\ cfg' = Normal(c) /\ pc' = "logger" /\ UNCHANGED status
        <3>1. Good(cfg')
            BY <2>2, <2>5, LoadIsGood
        <3>2. status' = "up"
            BY <2>1, <2>5 DEF ConfigInv
        <3> QED
            BY <2>1, <2>5, <3>1, <3>2 DEF ConfigInv, Accepted
    <2> QED
        BY <2>3, <2>4, <2>5
<1>2. CASE BuildLogger
    <2>1. pc = "logger" /\ Good(cfg) /\ UNCHANGED <<inputs, cfg>>
        BY <1>2 DEF BuildLogger, ConfigInv, Building
    <2>2. LevelKnown(cfg.logLevel) /\ cfg.logFormat \in Formats \cup {""}
        BY <2>1 DEF Good, Invalid, LevelKnown
    <2>3. pc' = "sentry" /\ UNCHANGED status
        BY <1>2, <2>2 DEF BuildLogger
    <2> QED
        BY <2>1, <2>3, ConfigFrame DEF Building
<1>3. CASE InitSentry
    <2>1. pc = "sentry" /\ Good(cfg) /\ UNCHANGED <<inputs, cfg>>
        BY <1>3 DEF InitSentry, ConfigInv, Building
    <2>2. CASE cfg.sentry /\ cfg.dsn \in {"", "bad"}
        <3>1. cfg.dsn = "bad"
            BY <2>1, <2>2 DEF Good, Invalid
        <3>2. status' = "error" /\ pc' = "flush"
            BY <1>3, <2>2 DEF InitSentry, Leave
        <3> QED
            BY <2>1, <3>1, <3>2 DEF ConfigInv, Accepted, Building, inputs
    <2>3. CASE ~(cfg.sentry /\ cfg.dsn \in {"", "bad"})
        <3>1. pc' = "outputs" /\ UNCHANGED status
            BY <1>3, <2>3 DEF InitSentry
        <3> QED
            BY <2>1, <3>1, ConfigFrame DEF Building
    <2> QED
        BY <2>2, <2>3
<1>4. CASE BuildOutputs
    <2>1. pc = "outputs" /\ Good(cfg) /\ UNCHANGED <<inputs, cfg>>
        BY <1>4 DEF BuildOutputs, ConfigInv, Building
    <2>2. ~\E o \in Range(Enabled(cfg)) : o.type \notin OutputTypes \/ (o.type \in NetTypes /\ o.target = "")
        BY <2>1 DEF Good, PartsUsable, NetTypes
    <2>3. ~(cfg.consumerBuffer < 0 /\ Enabled(cfg) # <<>>)
        <3>1. cfg.consumerBuffer \in Int /\ cfg.consumerBuffer > 0
            BY <2>1 DEF Good, PartsUsable
        <3> QED
            BY <3>1
    <2>4. pc' = "alerts" /\ UNCHANGED status
        BY <1>4, <2>2, <2>3 DEF BuildOutputs
    <2> QED
        BY <2>1, <2>4, ConfigFrame DEF Building
<1>5. CASE BuildAlertEngine
    <2>1. pc = "alerts" /\ Good(cfg) /\ UNCHANGED <<inputs, cfg>>
        BY <1>5 DEF BuildAlertEngine, ConfigInv, Building
    <2>2. CASE pc' = "wire" /\ UNCHANGED status
        BY <2>1, <2>2, ConfigFrame DEF Building
    <2>3. CASE status' = "error" /\ pc' = "flush" /\ "bad" \in ToSet(cfg.patterns)
        BY <2>1, <2>3 DEF ConfigInv, Accepted, Building, inputs
    <2> QED
        BY <1>5, <2>2, <2>3 DEF BuildAlertEngine, Leave
<1>6. CASE WireMetrics \/ InstallSignalHandlers
    <2>1. pc \in Building /\ pc' # "load" /\ UNCHANGED <<inputs, cfg, status>>
        BY <1>6 DEF WireMetrics, InstallSignalHandlers, Building
    <2> QED
        BY <2>1, ConfigFrame
<1>7. CASE StartParts
    <2>1. pc = "start" /\ Good(cfg) /\ UNCHANGED <<inputs, cfg>>
        BY <1>7 DEF StartParts, ConfigInv, Building
    <2>2. CASE pc' = "run" /\ UNCHANGED status
        BY <2>1, <2>2, ConfigFrame DEF Building
    <2>3. CASE status' = "panic" /\ pc' = "flush" /\ PathRefused
        BY <2>1, <2>3 DEF ConfigInv, Accepted, Building, inputs, PathRefused
    <2> QED
        BY <1>7, <2>2, <2>3 DEF StartParts, Leave
<1>8. CASE Server \/ MonitorExits \/ (\E p \in Parts : PartStops(p)) \/ UNCHANGED vars
    <2>1. UNCHANGED <<inputs, cfg, status, pc>>
        BY <1>8 DEF Server, ServerListens, ServerFails, ServerCtxDone, ServerShutdown, MonitorExits, PartStops,
                    runVars, vars
    <2> QED
        BY <2>1, ConfigFrame
<1>9. CASE Signal
    <2>1. UNCHANGED <<inputs, cfg, status>> /\ (pc' = pc \/ pc' = "killed")
        BY <1>9 DEF Signal
    <2> QED
        BY <2>1, ConfigFrame DEF Building
<1>10. CASE CtxDone \/ DeferredFlush \/ DeferredClose
    <2>1. UNCHANGED <<inputs, cfg, status>> /\ pc' \notin Building \cup {"load"}
        BY <1>10 DEF CtxDone, DeferredFlush, DeferredClose, Building
    <2> QED
        BY <2>1, ConfigFrame
<1>11. CASE WaitGroupDone
    <2>1. UNCHANGED <<inputs, cfg>> /\ status' = "ok" /\ pc' = "flush"
        BY <1>11 DEF WaitGroupDone, Leave
    <2> QED
        BY <2>1 DEF ConfigInv, Accepted, Building, inputs
<1> QED
    BY <1>1, <1>2, <1>3, <1>4, <1>5, <1>6, <1>7, <1>8, <1>9, <1>10, <1>11 DEF Next, Startup, Ending, Finished

(* Run never works with a configuration that is not good.                  *)
LEMMA ConfigInvariant == Spec => []ConfigInv
<1>1. Init => ConfigInv
    <2> SUFFICES ASSUME Init PROVE ConfigInv
        OBVIOUS
    <2>1. file.kind = "ok" => file.set \in Settings
        BY DEF Init
    <2> QED
        BY <2>1 DEF Init, ConfigInv, Accepted, Building
<1> QED
    BY <1>1, ConfigStep, PTL DEF Spec

(* A configuration that config.Load accepts is what every part of the      *)
(* daemon expects unless its redis.dial_timeout is negative, validates     *)
(* again to itself, and makes Run fail only for a DSN, a pattern or a path *)
(* of the metrics, which Validate does not see.                            *)
THEOREM AcceptedConfigRuns == Spec => []ValidConfigRuns
<1>1. ConfigInv => ValidConfigRuns
    BY DEF ConfigInv, Accepted, Good, ValidConfigRuns, Usable
<1> QED
    BY <1>1, ConfigInvariant, PTL

-----------------------------------------------------------------------------
(* The goroutines, the logger's file and Sentry, along Run.                *)
Early == {"load", "logger", "sentry", "outputs", "alerts", "wire", "signals"}

ResourceInv ==
    /\ pc \in Early => running = {}
    /\ pc \in {"load", "logger", "close"} => ~sentryOn
    /\ pc = "sentry" /\ cfg.logFile # "" => logOpen
    /\ NothingLeftBehind

(* Every step of Run, of its parts and of a signal.                        *)
LEMMA ResourceStep == ResourceInv /\ [Next]_vars => ResourceInv'
<1> SUFFICES ASSUME ResourceInv, [Next]_vars PROVE ResourceInv'
    OBVIOUS
<1> USE DEF ResourceInv, NothingLeftBehind, Early
<1>1. CASE Load
    BY <1>1 DEF Load, Leave, procVars
<1>2. CASE BuildLogger
    BY <1>2 DEF BuildLogger, Leave, procVars
<1>3. CASE InitSentry
    BY <1>3 DEF InitSentry, Leave, procVars
<1>4. CASE BuildOutputs
    BY <1>4 DEF BuildOutputs, Leave, procVars
<1>5. CASE BuildAlertEngine
    BY <1>5 DEF BuildAlertEngine, Leave, procVars
<1>6. CASE WireMetrics
    BY <1>6 DEF WireMetrics, procVars
<1>7. CASE InstallSignalHandlers
    BY <1>7 DEF InstallSignalHandlers
<1>8. CASE StartParts
    BY <1>8 DEF StartParts, Leave
<1>9. CASE Server \/ MonitorExits \/ (\E p \in Parts : PartStops(p)) \/ UNCHANGED vars
    <2>1. UNCHANGED <<cfg, status, pc, logOpen, sentryOn>> /\ running' \subseteq running
        BY <1>9 DEF Server, ServerListens, ServerFails, ServerCtxDone, ServerShutdown, MonitorExits, PartStops,
                    runVars, vars, procVars
    <2> QED
        BY <2>1
<1>10. CASE Signal
    <2>1. UNCHANGED <<cfg, status, logOpen, sentryOn, running>> /\ (pc' = pc \/ pc' = "killed")
        BY <1>10 DEF Signal
    <2> QED
        BY <2>1
<1>11. CASE CtxDone
    BY <1>11 DEF CtxDone, procVars
<1>12. CASE WaitGroupDone
    BY <1>12 DEF WaitGroupDone, Leave, procVars
<1>13. CASE DeferredFlush
    BY <1>13 DEF DeferredFlush
<1>14. CASE DeferredClose
    BY <1>14 DEF DeferredClose, procVars
<1> QED
    BY <1>1, <1>2, <1>3, <1>4, <1>5, <1>6, <1>7, <1>8, <1>9, <1>10, <1>11, <1>12, <1>13, <1>14
       DEF Next, Startup, Ending, Finished

(* However app.Run ends, other than by a panic or a second signal, its     *)
(* goroutines have stopped, Sentry is flushed while the log can still be   *)
(* written, and the log is closed.                                         *)
THEOREM RunLeavesNothing == Spec => []NothingLeftBehind
<1>1. Init => ResourceInv
    BY DEF Init, ResourceInv, NothingLeftBehind, Early
<1>2. ResourceInv => NothingLeftBehind
    BY DEF ResourceInv
<1> QED
    BY <1>1, <1>2, ResourceStep, PTL DEF Spec

=============================================================================
