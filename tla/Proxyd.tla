------------------------------- MODULE Proxyd --------------------------------
(***************************************************************************)
(* The life of the process: main (cmd/proxyd/main.go), Start (proxyd.go),  *)
(* the two servers, and Shutdown (server.go), while requests and a         *)
(* WebSocket session (module WSProxier) are under way.                     *)
(*                                                                         *)
(* Start reads the configuration, lets the servers listen, and only then   *)
(* creates the consensus pollers, group by group, and sets bg.Consensus,   *)
(* which every request reads twice.  The end of the process ends           *)
(* everything that runs in it.                                             *)
(***************************************************************************)
EXTENDS Integers, Sequences, FiniteSets

CONSTANTS
    Configs,        \* the configurations, records of the fields used below
    Requests,       \* HTTP requests, each made once
    NumBackends     \* len(wsBackendGroup.Backends)

ASSUME NumBackendsAssumption == NumBackends \in Nat

VARIABLES
    cfg,            \* the configuration
    proc,           \* main: "validate", "listen", "started", "draining", "closing",
                    \* "stopping" or "exited"
    signal,         \* a signal that main has not taken yet
    server,         \* each server: "none", "set" (created), "listening" or "closed"
    todo,           \* groups that Start has not configured yet
    poller,         \* each group's poller: "none", "running" or "stopped"
    consensus,      \* groups with bg.Consensus set
    req,            \* each request: how far it is, for whom, what main did when it
                    \* came, and what it has read of bg.Consensus
    handler, tried, conn, closeSent, pump, errC, gauge  \* the session of WSProxier

procVars == <<cfg, proc, signal, server, todo, poller, consensus>>
wsVars == <<handler, tried, conn, closeSent, pump, errC, gauge>>
vars == <<procVars, req, wsVars>>

WS == INSTANCE WSProxier

Servers == {"rpc", "ws"}
Groups == DOMAIN cfg.groups

NoRequest == [pc |-> "idle", group |-> "", byDomain |-> FALSE, came |-> "",
              routed |-> FALSE, rewritten |-> FALSE]

Init ==
    /\ cfg \in Configs
    /\ proc = "validate"
    /\ signal = FALSE
    /\ server = [s \in Servers |-> "none"]
    /\ todo = DOMAIN cfg.groups
    /\ poller = [g \in DOMAIN cfg.groups |-> "none"]
    /\ consensus = {}
    /\ req = [r \in Requests |-> NoRequest]
    /\ WS!Init

Alive == proc # "exited"

-----------------------------------------------------------------------------
(* The configuration *)

\* ReadFromEnvOrConfig; a setting is "", "unset env", or what it resolves to.
Unresolved(v) == v = "unset env"

NothingDefined ==
    DOMAIN cfg.backends = {} \/ DOMAIN cfg.groups = {} \/ DOMAIN cfg.mapping = {}

AuthError == "none" \in cfg.auth \/ \E key \in cfg.auth : Unresolved(key)

\* NewRedisClient parses the URL, CheckRedisConnection pings.
ClientError(url) == Unresolved(url) \/ url = "malformed"

PingError(up) == ~up /\ ~cfg.redis.fallback

\* With a read replica the primary is pinged again; up says which ping is answered.
RedisError(up) ==
    \/ cfg.redis.url # "" /\ (ClientError(cfg.redis.url) \/ PingError(up[1]))
    \/ /\ cfg.redis.readURL # ""
       /\ cfg.redis.url = "" \/ ClientError(cfg.redis.readURL) \/ PingError(up[2])
    \/ cfg.redis.url = "" /\ cfg.redis.useRedis

SenderLimitError ==
    cfg.sender.enabled /\ (cfg.sender.limit <= 0 \/ cfg.sender.seconds < 1)

ReceiptsTargets ==
    {"debug_getRawReceipts", "alchemy_getTransactionReceipts", "parity_getBlockReceipts",
     "eth_getBlockReceipts"}

ValidReceiptsTarget(v) == v = "" \/ v \in ReceiptsTargets

\* A key pair without a CA is not looked at.
TLSError(b) == b.ca # "" /\ (b.ca = "unreadable" \/ b.keyPair = "unreadable")

BackendError(b) ==
    \/ \E v \in {b.rpcURL, b.wsURL, b.password, b.receipts} \union b.headers : Unresolved(v)
    \/ b.rpcURL = ""
    \/ TLSError(b)
    \/ ~ValidReceiptsTarget(b.receipts)

\* The fallbacks are counted, not looked up: once per backend of that name.
FallbackCount(g) ==
    Cardinality({p \in (DOMAIN g.backends) \X (DOMAIN g.fallbacks) : g.backends[p[1]] = g.fallbacks[p[2]]})

GroupError(g) ==
    \/ \E i \in DOMAIN g.backends : g.backends[i] \notin DOMAIN cfg.backends
    \/ FallbackCount(g) # Len(g.fallbacks)

WSError == IF cfg.wsGroup = "" THEN cfg.wsPort ELSE cfg.wsGroup \notin Groups

\* The mappings by domain are not looked at.
MappingError == \E m \in DOMAIN cfg.mapping : cfg.mapping[m] \notin Groups

\* NewServer compiles the patterns of exempt callers if there is a base rate.
PatternError == cfg.baseRate > 0 /\ "malformed" \in cfg.patterns

ConfigError(up) ==
    \/ NothingDefined \/ AuthError \/ RedisError(up) \/ SenderLimitError
    \/ \E b \in DOMAIN cfg.backends : BackendError(cfg.backends[b])
    \/ \E g \in Groups : GroupError(cfg.groups[g])
    \/ WSError \/ MappingError \/ PatternError

-----------------------------------------------------------------------------
(* Start *)

\* main gives up on an error, and so does log.Crit.
Exit == proc' = "exited"

Validate ==
    /\ proc = "validate"
    /\ \E up \in [{1, 2} -> BOOLEAN] : IF ConfigError(up) THEN Exit ELSE proc' = "listen"
    /\ UNCHANGED <<cfg, signal, server, todo, poller, consensus, req, wsVars>>

Enabled(s) == s = "rpc" \/ cfg.wsPort

\* Shutdown holds srvMu until it returns.
Unlocked == proc \in {"listen", "started", "stopping"}

\* RPCListenAndServe and WSListenAndServe, in goroutines of their own.
CreateServer(s) ==
    /\ Unlocked /\ Enabled(s) /\ server[s] = "none"
    /\ server' = [server EXCEPT ![s] = "set"]
    /\ UNCHANGED <<cfg, proc, signal, todo, poller, consensus, req, wsVars>>

Listen(s) ==
    /\ Alive /\ server[s] = "set"
    /\ server' = [server EXCEPT ![s] = "listening"]
    /\ UNCHANGED <<cfg, proc, signal, todo, poller, consensus, req, wsVars>>

ListenFails(s) ==
    /\ Alive /\ server[s] = "set"
    /\ Exit
    /\ UNCHANGED <<cfg, signal, server, todo, poller, consensus, req, wsVars>>

\* ValidateRoutingStrategy, which also resolves the deprecated consensus_aware.
Strategy(g) ==
    IF g.consensusAware /\ g.strategy # "" THEN "invalid"
    ELSE IF g.consensusAware THEN "consensus_aware"
    ELSE IF g.strategy = "" THEN "fallback"
    ELSE IF g.strategy \in {"consensus_aware", "multicall", "fallback"} THEN g.strategy
    ELSE "invalid"

ConsensusAware(g) == Strategy(cfg.groups[g]) = "consensus_aware"

\* A tracker needs a Redis that answers (up) when the group is configured.
TrackerError(g, up) == cfg.groups[g].ha /\ (cfg.groups[g].haURL \in {"", "malformed"} \/ ~up)

\* One round of the loop over the groups, up to NewConsensusPoller, which starts
\* the goroutines of the poller.  Nothing but the end of the process takes back
\* what the rounds before have started.
ConfigureGroup(g) ==
    /\ proc = "listen" /\ g \in todo
    /\ \A h \in Groups : poller[h] = "running" => h \in consensus
    /\ \E up \in BOOLEAN :
          IF Strategy(cfg.groups[g]) = "invalid" \/ (ConsensusAware(g) /\ TrackerError(g, up))
          THEN Exit /\ UNCHANGED <<todo, poller>>
          ELSE /\ todo' = todo \ {g}
               /\ poller' = IF ConsensusAware(g) THEN [poller EXCEPT ![g] = "running"] ELSE poller
               /\ UNCHANGED proc
    /\ UNCHANGED <<cfg, signal, server, consensus, req, wsVars>>

SetConsensus(g) ==
    /\ proc = "listen" /\ poller[g] = "running" /\ g \notin consensus
    /\ consensus' = consensus \union {g}
    /\ UNCHANGED <<cfg, proc, signal, server, todo, poller, req, wsVars>>

MutantConfigured == \A s \in Servers : Enabled(s) => server[s] = "listening"

Configured == todo = {} /\ \A g \in Groups : poller[g] = "running" => g \in consensus

\* The timer has run out, whether or not the servers listen; main asks for signals.
Started ==
    /\ proc = "listen" /\ Configured
    /\ proc' = "started"
    /\ UNCHANGED <<cfg, signal, server, todo, poller, consensus, req, wsVars>>

-----------------------------------------------------------------------------
(* The end *)

\* Before main asks for signals, a signal kills the process.
Signal ==
    /\ Alive /\ ~signal
    /\ IF proc \in {"validate", "listen"} THEN Exit /\ UNCHANGED signal
       ELSE signal' = TRUE /\ UNCHANGED proc
    /\ UNCHANGED <<cfg, server, todo, poller, consensus, req, wsVars>>

InProgress(r) == req[r].pc \in {"reading", "arrived", "routed", "forward", "writing"}

Close(s) == [server EXCEPT ![s] = IF @ = "none" THEN @ ELSE "closed"]

\* rpcServer.Shutdown stops listening and waits for the requests.
Shutdown ==
    /\ proc = "started" /\ signal
    /\ server' = Close("rpc")
    /\ proc' = "draining"
    /\ UNCHANGED <<cfg, signal, todo, poller, consensus, req, wsVars>>

MutantDrained == TRUE

Drained == \A r \in Requests : ~InProgress(r)

MutantShutdownWS ==
    /\ proc = "draining" /\ Drained
    /\ handler \in {"upgrade", "over"}
    /\ server' = Close("ws")
    /\ proc' = "closing"
    /\ UNCHANGED <<cfg, signal, todo, poller, consensus, req, wsVars>>

\* wsServer.Shutdown knows nothing of connections that have been upgraded.
ShutdownWS ==
    /\ proc = "draining" /\ Drained
    /\ server' = Close("ws")
    /\ proc' = "closing"
    /\ UNCHANGED <<cfg, signal, todo, poller, consensus, req, wsVars>>

\* BackendGroup.Shutdown of every group.
ShutdownGroups ==
    /\ proc = "closing"
    /\ poller' = [g \in Groups |-> IF g \in consensus THEN "stopped" ELSE poller[g]]
    /\ proc' = "stopping"
    /\ UNCHANGED <<cfg, signal, server, todo, consensus, req, wsVars>>

Return ==
    /\ proc = "stopping"
    /\ Exit
    /\ UNCHANGED <<cfg, signal, server, todo, poller, consensus, req, wsVars>>

-----------------------------------------------------------------------------
(* Requests *)

\* HandleRPC begins.
Arrive(r) ==
    /\ Alive /\ server["rpc"] = "listening" /\ req[r].pc = "idle"
    /\ req' = [req EXCEPT ![r] = [NoRequest EXCEPT !.pc = "reading", !.came = proc]]
    /\ UNCHANGED <<procVars, wsVars>>

\* The body has come, and names a method that a backend group serves
\* (getRPCMethodMappings: a mapping by domain comes first).
ReadBody(r) ==
    /\ Alive /\ req[r].pc = "reading"
    /\ \E byDomain \in BOOLEAN :
          LET mapping == IF byDomain THEN cfg.domain ELSE cfg.mapping IN
          \E m \in DOMAIN mapping :
             /\ mapping[m] # ""
             /\ req' = [req EXCEPT ![r].pc = "arrived", ![r].group = mapping[m], ![r].byDomain = byDomain]
    /\ UNCHANGED <<procVars, wsVars>>

\* The body cannot be read, or is answered without a backend group.
AnswerEarly(r) ==
    /\ Alive /\ req[r].pc = "reading"
    /\ req' = [req EXCEPT ![r].pc = "writing"]
    /\ UNCHANGED <<procVars, wsVars>>

\* orderedBackendsForRequest reads bg.Consensus; a group that does not exist panics,
\* which net/http recovers.
Route(r) ==
    /\ Alive /\ req[r].pc = "arrived"
    /\ IF req[r].group \in Groups
       THEN req' = [req EXCEPT ![r].pc = "routed", ![r].routed = req[r].group \in consensus]
       ELSE req' = [req EXCEPT ![r].pc = "panicked"]
    /\ UNCHANGED <<procVars, wsVars>>

\* Forward reads bg.Consensus again, to rewrite the tags.
Rewrite(r) ==
    /\ Alive /\ req[r].pc = "routed"
    /\ req' = [req EXCEPT ![r].pc = "forward", ![r].rewritten = req[r].group \in consensus]
    /\ UNCHANGED <<procVars, wsVars>>

\* Module BackendGroup shows that every request returns.
Respond(r) ==
    /\ Alive /\ req[r].pc = "forward"
    /\ req' = [req EXCEPT ![r].pc = "writing"]
    /\ UNCHANGED <<procVars, wsVars>>

\* The client has taken the response, or is gone.
Written(r) ==
    /\ Alive /\ req[r].pc = "writing"
    /\ req' = [req EXCEPT ![r].pc = "done"]
    /\ UNCHANGED <<procVars, wsVars>>

Handle(r) == Route(r) \/ Rewrite(r) \/ Respond(r)

\* What waits for the client, and for as long as the client likes: the servers set
\* no timeouts.
Client(r) == Arrive(r) \/ ReadBody(r) \/ AnswerEarly(r) \/ Written(r)

\* A session begins only where the WebSocket server listens.
Session ==
    /\ Alive /\ WS!Next
    /\ handler = "upgrade" => server["ws"] = "listening"
    /\ UNCHANGED <<procVars, req>>

-----------------------------------------------------------------------------

Main ==
    \/ Validate \/ Started \/ Shutdown \/ ShutdownWS \/ ShutdownGroups \/ Return
    \/ \E g \in Groups : ConfigureGroup(g) \/ SetConsensus(g)

Serve(s) == CreateServer(s) \/ Listen(s) \/ ListenFails(s)

Next ==
    \/ Main \/ Signal \/ Session
    \/ \E s \in Servers : Serve(s)
    \/ \E r \in Requests : Client(r) \/ Handle(r)

Spec == Init /\ [][Next]_vars

\* main and the goroutines keep running.  Nothing makes a request arrive, a client
\* send its body or take its response, a peer send or leave, or a signal come.
FairSpec ==
    /\ Spec
    /\ WF_vars(Main)
    /\ \A s \in Servers : WF_vars(Serve(s))
    /\ \A r \in Requests : WF_vars(Handle(r))
    /\ WF_vars(Alive /\ WS!Handler /\ Session)
    /\ \A s \in WS!Sides : WF_vars(Alive /\ WS!Pump(s) /\ Session)

-----------------------------------------------------------------------------
(* Properties *)

\* The values the variables take.
TypeOK ==
    /\ proc \in {"validate", "listen", "started", "draining", "closing", "stopping", "exited"}
    /\ server \in [Servers -> {"none", "set", "listening", "closed"}]
    /\ todo \subseteq Groups /\ consensus \subseteq Groups
    /\ poller \in [Groups -> {"none", "running", "stopped"}]
    /\ WS!TypeOK

\* When the WebSocket session is over, however it ended, no connection is left
\* open and the gauge is back where it was (HandleWS closes the client if no
\* backend can be dialled, Proxy closes both).
NothingStaysOpen == WS!NothingStaysOpen

\* As soon as one side leaves, both pumps end and both connections are closed,
\* unless the process ends before: no goroutine is left behind on a side that
\* stays silent, not even while the process shuts down.
SessionEnds ==
    (handler = "proxy" /\ \E s \in WS!Sides : conn[s] = "gone") ~>
        (~Alive \/ (handler = "over" /\ \A s \in WS!Sides : pump[s] = "ended" /\ conn[s] = "closed"))

\* Requests are served as configured.  A method that the default mapping maps has
\* a backend group, whatever the configuration: Start refuses the others before
\* anything listens.  A request that comes after Start has returned, to a group
\* that is consensus aware, is routed by the consensus and has its tags
\* rewritten: its group has a poller, and it does not see bg.Consensus change
\* between its two reads.
ServedAsConfigured ==
    \A r \in Requests : req[r].group # "" =>
        /\ ~req[r].byDomain => req[r].group \in Groups
        /\ req[r].came # "listen" /\ req[r].group \in Groups /\ ConsensusAware(req[r].group) =>
              /\ req[r].pc \in {"routed", "forward", "writing", "done"} => req[r].routed
              /\ req[r].pc \in {"forward", "writing", "done"} => req[r].rewritten

\* The poller of a group is not stopped before the last request that is routed by
\* it has been answered: Shutdown drains the server first.  Only a server that
\* comes up after Shutdown has found none may still take requests.
PollersOutliveRequests ==
    \A r \in Requests :
        InProgress(r) /\ req[r].came # "stopping" /\ req[r].group \in Groups =>
            poller[req[r].group] # "stopped"

\* A signal ends the process, unless a client keeps its request for ever by sending
\* no body or taking no response, which Shutdown would wait for without a
\* deadline: it waits for the backends, which answer or time out, and for no
\* WebSocket session, which may last for ever.
SignalEnds ==
    (\A r \in Requests : []<>(req[r].pc \notin {"reading", "writing"})) => (signal ~> ~Alive)
=============================================================================
