-------------------------------- MODULE App --------------------------------
(***************************************************************************)
(* The life of the process: app.Run of internal/app/app.go between main    *)
(* (cmd/redis-watcher/main.go) and the parts it starts, with the logger    *)
(* (internal/logging), Sentry (internal/sentryx) and the HTTP server       *)
(* (internal/metrics).  The parts themselves are in the other modules;     *)
(* here they are goroutines that run and stop.                             *)
(***************************************************************************)
EXTENDS Config

CONSTANTS
    Settings,       \* files that the decoder accepts: partial configurations
    Environments    \* overrides

ASSUME SettingsAssumption == \A f \in Settings : Typed(f)

(* parseInt and parseDuration give numbers.                                *)
ASSUME EnvironmentsAssumption ==
    \A e \in Environments : \A k \in DOMAIN e \cap ParsedVars \cap IntFields : e[k].ok => e[k].val \in Int

VARIABLES
    file,       \* [kind: "none", "unreadable", "malformed" or "ok", set: settings]
    env,
    cfg,
    pc,         \* where Run is
    status,     \* "up", "ok", "error" or "panic"
    logOpen,    \* the file of the logger awaits its Close
    sentryOn,   \* Sentry awaits its flush
    outs,       \* the outputs of the manager; <<>> when there is none
    engine,     \* an alert engine was built
    handler,    \* of signals: -1 before it is there, then how many it has taken
    cancelled,  \* runCtx
    running,    \* goroutines that wg.Wait waits for
    srv         \* the server: "off", "starting", "listening", "failed", "draining"

inputs == <<file, env>>
built  == <<outs, engine>>
procVars == <<handler, cancelled, running, srv>>
vars == <<inputs, cfg, pc, status, logOpen, sentryOn, built, procVars>>

NoConfig == [loaded |-> FALSE]

Parts == {"role", "server", "outputs", "alerts", "dispatcher", "monitor"}

Init ==
    /\ file \in {[kind |-> k, set |-> <<>>] : k \in {"none", "unreadable", "malformed"}}
                \cup {[kind |-> "ok", set |-> f] : f \in Settings}
    /\ env \in Environments
    /\ cfg = NoConfig
    /\ pc = "load"
    /\ status = "up"
    /\ logOpen = FALSE
    /\ sentryOn = FALSE
    /\ outs = <<>>
    /\ engine = FALSE
    /\ handler = -1
    /\ cancelled = FALSE
    /\ running = {}
    /\ srv = "off"

(* Run returns an error, or panics: either way the deferred calls follow.  *)
Leave(how) ==
    /\ status' = how
    /\ pc' = "flush"

-----------------------------------------------------------------------------
(* Run up to its goroutines.                                               *)

Load ==
    /\ pc = "load"
    /\ LET c == ApplyEnv(IF file.kind = "ok" THEN Decoded(file.set) ELSE Default, env)
       IN  IF file.kind \in {"unreadable", "malformed"} \/ Invalid(c)
             THEN Leave("error") /\ UNCHANGED cfg
             ELSE cfg' = Normal(c) /\ pc' = "logger" /\ UNCHANGED status
    /\ UNCHANGED <<inputs, logOpen, sentryOn, built, procVars>>

(* logging.Build: its errors are ruled out by Validate, as they must be.   *)
LevelKnown(l) == l \in {"", "info", "debug", "warn", "warning", "error"}

BuildLogger ==
    /\ pc = "logger"
    /\ IF LevelKnown(cfg.logLevel) /\ cfg.logFormat \in Formats \cup {""}
         THEN pc' = "sentry" /\ logOpen' = (cfg.logFile # "") /\ UNCHANGED status
         ELSE Leave("error") /\ UNCHANGED logOpen
    /\ UNCHANGED <<inputs, cfg, sentryOn, built, procVars>>

(* sentryx.Init: the client refuses a DSN that it cannot parse.            *)
InitSentry ==
    /\ pc = "sentry"
    /\ IF cfg.sentry /\ cfg.dsn \in {"", "bad"}
         THEN Leave("error") /\ UNCHANGED sentryOn
         ELSE pc' = "outputs" /\ sentryOn' = cfg.sentry /\ UNCHANGED status
    /\ UNCHANGED <<inputs, cfg, logOpen, built, procVars>>

(* buildOutputs, with NewConsumer (a negative buffer panics) and NewNetSink. *)
BuildOutputs ==
    /\ pc = "outputs"
    /\ CASE \E o \in Range(Enabled(cfg)) :
                o.type \notin OutputTypes \/ (o.type \in NetTypes /\ o.target = "") ->
                    Leave("error") /\ UNCHANGED outs
         [] cfg.consumerBuffer < 0 /\ Enabled(cfg) # <<>> -> Leave("panic") /\ UNCHANGED outs
         [] OTHER -> pc' = "alerts" /\ outs' = Enabled(cfg) /\ UNCHANGED status
    /\ UNCHANGED <<inputs, cfg, logOpen, sentryOn, engine, procVars>>

(* buildAlertEngine: no engine without a channel; alert.New compiles the   *)
(* patterns.                                                               *)
BuildAlertEngine ==
    /\ pc = "alerts"
    /\ LET wanted == cfg.alerts /\ (cfg.telegram \/ cfg.webhook \/ cfg.pushgateway)
       IN  IF wanted /\ "bad" \in ToSet(cfg.patterns)
             THEN Leave("error") /\ UNCHANGED engine
             ELSE pc' = "wire" /\ engine' = wanted /\ UNCHANGED status
    /\ UNCHANGED <<inputs, cfg, logOpen, sentryOn, outs, procVars>>

(* wireMetrics: collectors for what is built.  The registry was made by    *)
(* Run itself, so it refuses none of them.                                 *)
WireMetrics ==
    /\ pc = "wire"
    /\ pc' = "signals"
    /\ UNCHANGED <<inputs, cfg, status, logOpen, sentryOn, built, procVars>>

InstallSignalHandlers ==
    /\ pc = "signals"
    /\ handler' = 0
    /\ running' = IF cfg.roleCheck THEN {"role"} ELSE {}
    /\ pc' = "start"
    /\ UNCHANGED <<inputs, cfg, status, logOpen, sentryOn, built, cancelled, srv>>

(* NewServer: http.ServeMux panics on a path without a slash and on one    *)
(* that is registered twice.  The role checker runs by then.               *)
PathRefused == cfg.metricsPath \in {"bare", "/healthz", "/readyz"}

StartParts ==
    /\ pc = "start"
    /\ IF cfg.metrics /\ PathRefused
         THEN Leave("panic") /\ UNCHANGED <<running, srv>>
         ELSE /\ running' = running \cup {"dispatcher", "monitor"}
                    \cup (IF cfg.metrics THEN {"server"} ELSE {})
                    \cup (IF outs # <<>> THEN {"outputs"} ELSE {})
                    \cup (IF engine THEN {"alerts"} ELSE {})
              /\ srv' = IF cfg.metrics THEN "starting" ELSE "off"
              /\ pc' = "run"
              /\ UNCHANGED status
    /\ UNCHANGED <<inputs, cfg, logOpen, sentryOn, built, handler, cancelled>>

-----------------------------------------------------------------------------
(* The goroutines.                                                         *)

Alive == pc \notin {"exited", "killed"}
runVars == <<inputs, cfg, pc, status, logOpen, sentryOn, built>>

(* Server.Run: binding fails or succeeds; a failure ends only the server.  *)
ServerListens ==
    /\ Alive /\ srv = "starting"
    /\ srv' = "listening"
    /\ UNCHANGED <<runVars, handler, cancelled, running>>

ServerFails ==
    /\ Alive /\ srv \in {"starting", "listening"}
    /\ srv' = "failed"
    /\ running' = running \ {"server"}
    /\ UNCHANGED <<runVars, handler, cancelled>>

ServerCtxDone ==
    /\ Alive /\ cancelled /\ srv \in {"starting", "listening"}
    /\ srv' = "draining"
    /\ UNCHANGED <<runVars, handler, cancelled, running>>

(* srv.Shutdown ends, by itself or after five seconds.                     *)
ServerShutdown ==
    /\ Alive /\ srv = "draining"
    /\ srv' = "off"
    /\ running' = running \ {"server"}
    /\ UNCHANGED <<runVars, handler, cancelled>>

(* Variant with a bug: the others are not told. *)
MonitorExitsQuietly ==
    /\ Alive /\ "monitor" \in running
    /\ running' = running \ {"monitor"}
    /\ UNCHANGED <<runVars, handler, cancelled, srv>>

(* The client returns, after a cancellation or by itself (a dial that      *)
(* times out), and takes the others with it.                               *)
MonitorExits ==
    /\ Alive /\ "monitor" \in running
    /\ running' = running \ {"monitor"}
    /\ cancelled' = TRUE
    /\ UNCHANGED <<runVars, handler, srv>>

PartStops(p) ==
    /\ Alive /\ cancelled
    /\ p \in running \ {"server", "monitor"}
    /\ running' = running \ {p}
    /\ UNCHANGED <<runVars, handler, cancelled, srv>>

(* A signal: fatal before there is a handler; then the first one cancels   *)
(* and the second one ends the process without another word.               *)
Signal ==
    /\ Alive
    /\ IF handler = 0
         THEN handler' = 1 /\ cancelled' = TRUE /\ UNCHANGED pc
         ELSE pc' = "killed" /\ UNCHANGED <<handler, cancelled>>
    /\ UNCHANGED <<inputs, cfg, status, logOpen, sentryOn, built, running, srv>>

-----------------------------------------------------------------------------
(* The end of Run.                                                         *)

CtxDone ==
    /\ pc = "run" /\ cancelled
    /\ pc' = "wait"
    /\ UNCHANGED <<inputs, cfg, status, logOpen, sentryOn, built, procVars>>

(* Variant with a bug: the server is not in the wait group. *)
WaitGroupDoneEarly ==
    /\ pc = "wait" /\ running \subseteq {"server"}
    /\ Leave("ok")
    /\ UNCHANGED <<inputs, cfg, logOpen, sentryOn, built, procVars>>

(* wg.Wait *)
WaitGroupDone ==
    /\ pc = "wait" /\ running = {}
    /\ Leave("ok")
    /\ UNCHANGED <<inputs, cfg, logOpen, sentryOn, built, procVars>>

(* The deferred calls, the last one first: cancel and flushSentry, then    *)
(* the Close of the logger's file; main exits.                             *)
DeferredFlush ==
    /\ pc = "flush"
    /\ cancelled' = (cancelled \/ handler # -1)
    /\ sentryOn' = FALSE
    /\ pc' = "close"
    /\ UNCHANGED <<inputs, cfg, status, logOpen, built, handler, running, srv>>

DeferredClose ==
    /\ pc = "close"
    /\ logOpen' = FALSE
    /\ pc' = "exited"
    /\ UNCHANGED <<inputs, cfg, status, sentryOn, built, procVars>>

Finished == ~Alive /\ UNCHANGED vars

Startup ==
    \/ Load
    \/ BuildLogger
    \/ InitSentry
    \/ BuildOutputs
    \/ BuildAlertEngine
    \/ WireMetrics
    \/ InstallSignalHandlers
    \/ StartParts

Ending == CtxDone \/ WaitGroupDone \/ DeferredFlush \/ DeferredClose

Server == ServerListens \/ ServerFails \/ ServerCtxDone \/ ServerShutdown

Next ==
    \/ Startup
    \/ Server
    \/ MonitorExits
    \/ \E p \in Parts : PartStops(p)
    \/ Signal
    \/ Ending
    \/ Finished

Spec == Init /\ [][Next]_vars

(* Every goroutine gets its turn.  That a part stops once it is cancelled  *)
(* is what the models of the parts show; of the dispatcher it is true only *)
(* while queues drop what does not fit.                                    *)
FairSpec ==
    /\ Spec
    /\ WF_vars(Startup)
    /\ WF_vars(Ending)
    /\ WF_vars(ServerCtxDone)
    /\ WF_vars(ServerShutdown)
    /\ WF_vars(cancelled /\ MonitorExits)
    /\ \A p \in Parts : WF_vars(PartStops(p) /\ cfg.dropOnFull)

-----------------------------------------------------------------------------
(* A configuration that Load accepts can be run, with one exception:       *)
(* whatever other zeros, negative numbers and malformed overrides it was   *)
(* made of, it is what the parts expect exactly if redis.dial_timeout is   *)
(* not negative; a second Validate would find nothing to change, and Run   *)
(* fails only for what Validate does not look at: a DSN, a pattern, a path *)
(* of the metrics that the mux refuses.                                    *)
ValidConfigRuns ==
    cfg # NoConfig =>
        /\ Usable(cfg) <=> CanDial(cfg)
        /\ ~Invalid(cfg) /\ Normal(cfg) = cfg
        /\ status = "error" => cfg.dsn = "bad" \/ "bad" \in ToSet(cfg.patterns)
        /\ status = "panic" => PathRefused

(* However Run ends, unless a signal kills the process, its goroutines have *)
(* stopped before the deferred calls (a panic does not wait for them), and *)
(* Sentry is flushed before the log is closed.                             *)
NothingLeftBehind ==
    /\ pc \in {"flush", "close", "exited"} /\ status # "panic" => running = {}
    /\ pc = "exited" => ~logOpen /\ ~sentryOn
    /\ sentryOn /\ cfg.logFile # "" => logOpen

(* With dropping queues, the process ends after a cancellation, whoever    *)
(* caused it, and never goes on without its client: whether or not the     *)
(* server could bind, is listening or is still about to.                   *)
ShutdownReturns ==
    (pc = "run" \/ pc = "wait") /\ (cancelled \/ "monitor" \notin running) /\ cfg.dropOnFull
        ~> ~Alive
=============================================================================
