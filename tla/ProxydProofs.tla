---------------------------- MODULE ProxydProofs -----------------------------
(***************************************************************************)
(* Proofs that requests are served as configured, that pollers outlive the *)
(* requests they route, and that a WebSocket session leaves no connection  *)
(* open and no pump blocked, for every set of configurations, any number   *)
(* of requests and of WebSocket backends (modules Proxyd and WSProxier).   *)
(***************************************************************************)
EXTENDS Proxyd, TLAPS

Names ==
    {""} \union {cfg.mapping[m] : m \in DOMAIN cfg.mapping}
         \union {cfg.domain[m] : m \in DOMAIN cfg.domain}

Request ==
    [pc : {"idle", "reading", "arrived", "routed", "forward", "writing", "done", "panicked"},
     group : Names, byDomain : BOOLEAN,
     came : {"", "listen", "started", "draining", "closing", "stopping"},
     routed : BOOLEAN, rewritten : BOOLEAN]

Types ==
    /\ proc \in {"validate", "listen", "started", "draining", "closing", "stopping", "exited"}
    /\ server \in [Servers -> {"none", "set", "listening", "closed"}]
    /\ poller \in [Groups -> {"none", "running", "stopped"}]
    /\ req \in [Requests -> Request]

Up == {"started", "draining", "closing", "stopping"}

\* Nothing is served before the configuration has been accepted.
Accepted ==
    /\ proc = "validate" => server["rpc"] = "none"
    /\ proc \notin {"validate", "exited"} => ~MappingError
    /\ \A r \in Requests :
          /\ req[r].pc # "idle" => /\ req[r].came \in Up \union {"listen"}
                                   /\ proc # "validate"
          /\ req[r].pc \in {"idle", "reading"} => req[r].group = ""

\* A group that Start is done with has its poller, and bg.Consensus once Start
\* has returned.
GroupsReady ==
    /\ proc = "validate" => todo = Groups
    /\ proc = "listen" =>
          \A g \in Groups \ todo : ConsensusAware(g) => poller[g] = "running"
    /\ proc \in Up => \A g \in Groups : ConsensusAware(g) => g \in consensus
    /\ \A r \in Requests : req[r].came \in Up => proc \in Up \union {"exited"}

\* Requests that came before Shutdown are answered when the pollers are stopped.
Drains ==
    /\ proc \in {"draining", "closing"} => server["rpc"] \in {"none", "closed"}
    /\ proc \in {"closing", "stopping"} =>
          \A r \in Requests : InProgress(r) => req[r].came = "stopping"
    /\ \A g \in Groups : poller[g] = "stopped" => proc \in {"stopping", "exited"}

IInv ==
    Types /\ Accepted /\ GroupsReady /\ Drains /\ ServedAsConfigured /\ PollersOutliveRequests

-----------------------------------------------------------------------------
(* The configuration never changes *)

\* The steps but the ones of requests and of the WebSocket session.
Lifecycle ==
    \/ Main \/ Signal
    \/ \E s \in Servers : Serve(s)

\* Start and main only read the configuration, and so do the handlers.
LEMMA SameConfig ==
    ASSUME [Next]_vars
    PROVE  /\ cfg' = cfg /\ Groups' = Groups /\ Names' = Names
           /\ \A g : ConsensusAware(g)' = ConsensusAware(g)
           /\ MappingError' = MappingError
<1>1. cfg' = cfg
  BY Zenon DEF Next, Main, Serve, Validate, Started, Shutdown, ShutdownWS, ShutdownGroups, Return,
         ConfigureGroup, SetConsensus, CreateServer, Listen, ListenFails, Signal, Session,
         Client, Arrive, ReadBody, AnswerEarly, Written, Handle, Route, Rewrite, Respond,
         vars, procVars
<1>2. Groups' = Groups /\ Names' = Names
  BY <1>1, Zenon DEF Groups, Names
<1>3. \A g : ConsensusAware(g)' = ConsensusAware(g)
  BY <1>1, Zenon DEF ConsensusAware, Strategy
<1>4. MappingError' = MappingError
  BY <1>1, <1>2, Zenon DEF MappingError
<1> QED
  BY <1>1, <1>2, <1>3, <1>4, Zenon

\* Only requests and their handlers change req.
LEMMA SameRequests ==
    ASSUME Lifecycle
    PROVE  req' = req
BY Zenon DEF Lifecycle, Main, Serve, Validate, Started, Shutdown, ShutdownWS, ShutdownGroups, Return,
       ConfigureGroup, SetConsensus, CreateServer, Listen, ListenFails, Signal

\* A step of the process preserves the types and what is true of the requests
\* that have come.
LEMMA LifecycleStep ==
    ASSUME IInv, Lifecycle, [Next]_vars
    PROVE  IInv'
<1> USE DEF Servers, Up
<1>1. /\ cfg' = cfg /\ Groups' = Groups /\ Names' = Names
      /\ \A g : ConsensusAware(g)' = ConsensusAware(g)
      /\ MappingError' = MappingError
  BY SameConfig, Zenon
<1>2. req' = req
  BY SameRequests, Zenon
<1>3. ServedAsConfigured'
  BY <1>1, <1>2, Zenon DEF IInv, ServedAsConfigured
<1>4. Request' = Request
  BY <1>1, Zenon DEF Request
<1>5. \A r : InProgress(r)' = InProgress(r)
  BY <1>2, Zenon DEF InProgress
<1>6. CASE Validate
  <2>1. Types'
    BY <1>1, <1>2, <1>6, <1>4, Zenon DEF IInv, Types, Validate, Exit
  <2>2. Accepted'
    BY <1>1, <1>2, <1>6, Zenon DEF IInv, Types, Accepted, Validate, Exit, ConfigError
  <2>3. GroupsReady'
    BY <1>1, <1>2, <1>6, Zenon DEF IInv, Types, GroupsReady, Validate, Exit
  <2>4. Drains'
    BY <1>1, <1>2, <1>6, <1>5, Zenon DEF IInv, Types, Drains, Validate, Exit
  <2>5. PollersOutliveRequests'
    BY <1>1, <1>2, <1>6, <1>5, Zenon DEF IInv, Types, Drains, PollersOutliveRequests, Validate, Exit
  <2> QED
    BY <1>3, <2>1, <2>2, <2>3, <2>4, <2>5, Zenon DEF IInv
<1>7. CASE Started
  <2>1. Types'
    BY <1>1, <1>2, <1>7, <1>4, Zenon DEF IInv, Types, Started
  <2>2. Accepted'
    BY <1>1, <1>2, <1>7, Zenon DEF IInv, Types, Accepted, Started
  <2>3. GroupsReady'
    BY <1>1, <1>2, <1>7, Zenon DEF IInv, Types, GroupsReady, Started, Configured
  <2>4. Drains'
    BY <1>1, <1>2, <1>7, <1>5, Zenon DEF IInv, Types, Drains, Started
  <2>5. PollersOutliveRequests'
    BY <1>1, <1>2, <1>7, <1>5, Zenon DEF IInv, Types, Drains, PollersOutliveRequests, Started
  <2> QED
    BY <1>3, <2>1, <2>2, <2>3, <2>4, <2>5, Zenon DEF IInv
<1>8. CASE Shutdown
  <2>1. Types'
    BY <1>1, <1>2, <1>8, <1>4, Zenon DEF IInv, Types, Shutdown, Close
  <2>2. Accepted'
    BY <1>1, <1>2, <1>8, Zenon DEF IInv, Types, Accepted, Shutdown, Close
  <2>3. GroupsReady'
    BY <1>1, <1>2, <1>8, Zenon DEF IInv, Types, GroupsReady, Shutdown, Close
  <2>4. Drains'
    BY <1>1, <1>2, <1>8, <1>5, Zenon DEF IInv, Types, Drains, Shutdown, Close, Close
  <2>5. PollersOutliveRequests'
    BY <1>1, <1>2, <1>8, <1>5, Zenon DEF IInv, Types, Drains, PollersOutliveRequests, Shutdown, Close
  <2> QED
    BY <1>3, <2>1, <2>2, <2>3, <2>4, <2>5, Zenon DEF IInv
<1>9. CASE ShutdownWS
  <2>1. Types'
    BY <1>1, <1>2, <1>9, <1>4, Zenon DEF IInv, Types, ShutdownWS, Close
  <2>2. Accepted'
    BY <1>1, <1>2, <1>9, Zenon DEF IInv, Types, Accepted, ShutdownWS, Close
  <2>3. GroupsReady'
    BY <1>1, <1>2, <1>9, Zenon DEF IInv, Types, GroupsReady, ShutdownWS, Close
  <2>4. Drains'
    BY <1>1, <1>2, <1>9, <1>5, Zenon DEF IInv, Types, Drains, ShutdownWS, Close, Drained
  <2>5. PollersOutliveRequests'
    BY <1>1, <1>2, <1>9, <1>5, Zenon DEF IInv, Types, Drains, PollersOutliveRequests, ShutdownWS, Close
  <2> QED
    BY <1>3, <2>1, <2>2, <2>3, <2>4, <2>5, Zenon DEF IInv
<1>10. CASE ShutdownGroups
  <2>1. Types'
    BY <1>1, <1>2, <1>10, <1>4, Zenon DEF IInv, Types, ShutdownGroups
  <2>2. Accepted'
    BY <1>1, <1>2, <1>10, Zenon DEF IInv, Types, Accepted, ShutdownGroups
  <2>3. GroupsReady'
    BY <1>1, <1>2, <1>10, Zenon DEF IInv, Types, GroupsReady, ShutdownGroups
  <2>4. Drains'
    BY <1>1, <1>2, <1>10, <1>5, Zenon DEF IInv, Types, Drains, ShutdownGroups
  <2>5. PollersOutliveRequests'
    BY <1>1, <1>2, <1>10, <1>5, Zenon DEF IInv, Types, Drains, PollersOutliveRequests, ShutdownGroups
  <2> QED
    BY <1>3, <2>1, <2>2, <2>3, <2>4, <2>5, Zenon DEF IInv
<1>11. CASE Return
  <2>1. Types'
    BY <1>1, <1>2, <1>11, <1>4, Zenon DEF IInv, Types, Return, Exit
  <2>2. Accepted'
    BY <1>1, <1>2, <1>11, Zenon DEF IInv, Types, Accepted, Return, Exit
  <2>3. GroupsReady'
    BY <1>1, <1>2, <1>11, Zenon DEF IInv, Types, GroupsReady, Return, Exit
  <2>4. Drains'
    BY <1>1, <1>2, <1>11, <1>5, Zenon DEF IInv, Types, Drains, Return, Exit
  <2>5. PollersOutliveRequests'
    BY <1>1, <1>2, <1>11, <1>5, Zenon DEF IInv, Types, Drains, PollersOutliveRequests, Return, Exit
  <2> QED
    BY <1>3, <2>1, <2>2, <2>3, <2>4, <2>5, Zenon DEF IInv
<1>12. CASE Signal
  <2>1. Types'
    BY <1>1, <1>2, <1>12, <1>4, Zenon DEF IInv, Types, Signal, Exit
  <2>2. Accepted'
    BY <1>1, <1>2, <1>12, Zenon DEF IInv, Types, Accepted, Signal, Exit
  <2>3. GroupsReady'
    BY <1>1, <1>2, <1>12, Zenon DEF IInv, Types, GroupsReady, Signal, Exit
  <2>4. Drains'
    BY <1>1, <1>2, <1>12, <1>5, Zenon DEF IInv, Types, Drains, Signal, Exit
  <2>5. PollersOutliveRequests'
    BY <1>1, <1>2, <1>12, <1>5, Zenon DEF IInv, Types, Drains, PollersOutliveRequests, Signal, Exit
  <2> QED
    BY <1>3, <2>1, <2>2, <2>3, <2>4, <2>5, Zenon DEF IInv
<1>13. CASE \E g \in Groups : ConfigureGroup(g)
  <2>0. PICK g \in Groups : ConfigureGroup(g)
    BY <1>13, Zenon
  <2>1. Types'
    BY <1>1, <1>2, <2>0, <1>4, Zenon DEF IInv, Types, ConfigureGroup, Exit
  <2>2. Accepted'
    BY <1>1, <1>2, <2>0, Zenon DEF IInv, Types, Accepted, ConfigureGroup, Exit
  <2>3. GroupsReady'
    BY <1>1, <1>2, <2>0, Zenon DEF IInv, Types, GroupsReady, ConfigureGroup, Exit
  <2>4. Drains'
    BY <1>1, <1>2, <2>0, <1>5, Zenon DEF IInv, Types, Drains, ConfigureGroup, Exit
  <2>5. PollersOutliveRequests'
    BY <1>1, <1>2, <2>0, <1>5, Zenon DEF IInv, Types, Drains, PollersOutliveRequests, ConfigureGroup, Exit
  <2> QED
    BY <1>3, <2>1, <2>2, <2>3, <2>4, <2>5, Zenon DEF IInv
<1>14. CASE \E g \in Groups : SetConsensus(g)
  <2>0. PICK g \in Groups : SetConsensus(g)
    BY <1>14, Zenon
  <2>1. Types'
    BY <1>1, <1>2, <2>0, <1>4, Zenon DEF IInv, Types, SetConsensus
  <2>2. Accepted'
    BY <1>1, <1>2, <2>0, Zenon DEF IInv, Types, Accepted, SetConsensus
  <2>3. GroupsReady'
    BY <1>1, <1>2, <2>0, Zenon DEF IInv, Types, GroupsReady, SetConsensus
  <2>4. Drains'
    BY <1>1, <1>2, <2>0, <1>5, Zenon DEF IInv, Types, Drains, SetConsensus
  <2>5. PollersOutliveRequests'
    BY <1>1, <1>2, <2>0, <1>5, Zenon DEF IInv, Types, Drains, PollersOutliveRequests, SetConsensus
  <2> QED
    BY <1>3, <2>1, <2>2, <2>3, <2>4, <2>5, Zenon DEF IInv
<1>15. CASE \E s \in Servers : Serve(s)
  <2>0. PICK s \in Servers : Serve(s)
    BY <1>15, Zenon
  <2>1. Types'
    BY <1>1, <1>2, <2>0, <1>4 DEF IInv, Types, Serve, CreateServer, Listen, ListenFails, Exit, Unlocked
  <2>2. Accepted'
    BY <1>1, <1>2, <2>0, Zenon DEF IInv, Types, Accepted, Serve, CreateServer, Listen, ListenFails, Exit, Unlocked
  <2>3. GroupsReady'
    BY <1>1, <1>2, <2>0, Zenon DEF IInv, Types, GroupsReady, Serve, CreateServer, Listen, ListenFails, Exit, Unlocked
  <2>4. Drains'
    BY <1>1, <1>2, <2>0, <1>5, Zenon DEF IInv, Types, Drains, Serve, CreateServer, Listen, ListenFails, Exit, Unlocked
  <2>5. PollersOutliveRequests'
    BY <1>1, <1>2, <2>0, <1>5, Zenon
    DEF IInv, Types, Drains, PollersOutliveRequests, Serve, CreateServer, Listen, ListenFails,
        Exit, Unlocked
  <2> QED
    BY <1>3, <2>1, <2>2, <2>3, <2>4, <2>5, Zenon DEF IInv
<1> QED
  BY <1>6, <1>7, <1>8, <1>9, <1>10, <1>11, <1>12, <1>13, <1>14, <1>15, Zenon DEF Lifecycle, Main

-----------------------------------------------------------------------------
(* Requests *)

\* A request that arrives, or takes a step, leaves the process as it is.
LEMMA RequestStep ==
    ASSUME IInv, [Next]_vars, NEW r \in Requests, Client(r) \/ Handle(r)
    PROVE  IInv'
<1> USE DEF Servers, Up
<1>1. /\ cfg' = cfg /\ Groups' = Groups /\ Names' = Names
      /\ \A g : ConsensusAware(g)' = ConsensusAware(g)
      /\ MappingError' = MappingError
  BY SameConfig, Zenon
<1>2. UNCHANGED procVars
  BY Zenon DEF Client, Arrive, ReadBody, AnswerEarly, Written, Handle, Route, Rewrite, Respond
<1>3. Request' = Request
  BY <1>1, Zenon DEF Request
<1>4. CASE Arrive(r)
  <2>1. PICK u : u = [NoRequest EXCEPT !.pc = "reading", !.came = proc]
    BY Zenon
  <2>2. req' = [req EXCEPT ![r] = u]
    BY <1>4, <2>1, Zenon DEF Arrive
  <2>3. proc \in {"listen", "started", "stopping"} /\ req[r].pc = "idle"
    BY <1>4, Zenon DEF Arrive, Alive, IInv, Types, Accepted, Drains
  <2>4. u \in Request /\ u.pc = "reading" /\ u.came = proc /\ u.group = ""
    BY <2>1, <2>3, Zenon DEF Request, NoRequest, Names
  <2>5. Types'
    BY <1>1, <1>2, <1>3, <2>2, <2>4, Zenon DEF IInv, Types, procVars
  <2>6. req'[r] = u /\ \A q \in Requests \ {r} : req'[q] = req[q]
    BY <2>2, Zenon DEF IInv, Types
  <2>7. Accepted' /\ GroupsReady'
    BY <1>1, <1>2, <2>3, <2>4, <2>6, Zenon DEF IInv, Accepted, GroupsReady, procVars
  <2>8. Drains'
    BY <1>1, <1>2, <2>3, <2>4, <2>6, Zenon DEF IInv, Drains, InProgress, procVars
  <2>9. ServedAsConfigured'
    BY <1>1, <2>4, <2>6, Zenon DEF IInv, ServedAsConfigured
  <2>10. PollersOutliveRequests'
    BY <1>1, <1>2, <2>3, <2>4, <2>6, ZenonT(60)
    DEF IInv, PollersOutliveRequests, Drains, InProgress, procVars
  <2> QED
    BY <2>5, <2>7, <2>8, <2>9, <2>10, Zenon DEF IInv
<1>4a. CASE ReadBody(r)
  <2>1. PICK byDomain \in BOOLEAN, name \in Names :
           /\ ~byDomain => \E m \in DOMAIN cfg.mapping : name = cfg.mapping[m]
           /\ req' = [req EXCEPT ![r].pc = "arrived", ![r].group = name, ![r].byDomain = byDomain]
    BY <1>4a, Zenon DEF ReadBody, Names
  <2>2. req[r].pc = "reading" /\ req[r] \in Request /\ Alive
    BY <1>4a, Zenon DEF ReadBody, IInv, Types
  <2>3. PICK u : u = [req[r] EXCEPT !.pc = "arrived", !.group = name, !.byDomain = byDomain]
    BY Zenon
  <2>4. /\ u \in Request /\ u.pc = "arrived" /\ u.came = req[r].came
        /\ u.group = name /\ u.byDomain = byDomain
    BY <2>1, <2>2, <2>3, ZenonT(60) DEF Request
  <2>5. req' = [req EXCEPT ![r] = u]
    BY <2>1, <2>3, Zenon
  <2>6. req'[r] = u /\ \A q \in Requests \ {r} : req'[q] = req[q]
    BY <2>5, Zenon DEF IInv, Types
  <2>7. Types'
    BY <1>1, <1>2, <1>3, <2>4, <2>5, Zenon DEF IInv, Types, procVars
  <2>8. Accepted' /\ GroupsReady'
    BY <1>1, <1>2, <2>2, <2>4, <2>6, Zenon DEF IInv, Accepted, GroupsReady, procVars
  <2>9. Drains'
    BY <1>1, <1>2, <2>2, <2>4, <2>6, Zenon DEF IInv, Drains, InProgress, procVars
  <2>10. ~byDomain => name \in Groups
    BY <2>1, <2>2, Zenon DEF IInv, Accepted, MappingError, Alive
  <2>11. ServedAsConfigured'
    BY <1>1, <2>4, <2>6, <2>10, Zenon DEF IInv, ServedAsConfigured
  <2>12. poller' = poller /\ \A g \in Groups : poller[g] = "stopped" => req[r].came = "stopping"
    BY <1>2, <2>2, Zenon DEF IInv, Drains, InProgress, Alive, procVars
  <2>13. PollersOutliveRequests'
    BY <1>1, <2>4, <2>6, <2>12, Zenon DEF IInv, PollersOutliveRequests, InProgress
  <2> QED
    BY <2>7, <2>8, <2>9, <2>11, <2>13, Zenon DEF IInv
<1>4b. CASE AnswerEarly(r) \/ Written(r)
  <2>1. PICK l \in {"writing", "done"} :
           /\ req' = [req EXCEPT ![r].pc = l]
           /\ \/ req[r].pc = "reading" /\ l = "writing"
              \/ req[r].pc = "writing" /\ l = "done"
    BY <1>4b, Zenon DEF AnswerEarly, Written
  <2>2. req[r] \in Request /\ InProgress(r)
    BY <2>1, Zenon DEF IInv, Types, InProgress
  <2>3. PICK u : u = [req[r] EXCEPT !.pc = l]
    BY Zenon
  <2>4. /\ u \in Request /\ u.pc = l /\ u.came = req[r].came /\ u.group = req[r].group
        /\ u.byDomain = req[r].byDomain /\ u.routed = req[r].routed /\ u.rewritten = req[r].rewritten
    BY <2>1, <2>2, <2>3, ZenonT(60) DEF Request
  <2>5. req' = [req EXCEPT ![r] = u]
    BY <2>1, <2>3, Zenon
  <2>6. req'[r] = u /\ \A q \in Requests \ {r} : req'[q] = req[q]
    BY <2>5, Zenon DEF IInv, Types
  <2>7. Types'
    BY <1>1, <1>2, <1>3, <2>4, <2>5, Zenon DEF IInv, Types, procVars
  <2>8. Accepted' /\ GroupsReady'
    <3>1. u.pc \notin {"idle", "reading"} /\ req[r].pc # "idle"
      BY <2>1, <2>4, Zenon
    <3> QED
      BY <1>1, <1>2, <2>4, <2>6, <3>1, ZenonT(60) DEF IInv, Accepted, GroupsReady, procVars
  <2>9. Drains'
    BY <1>1, <1>2, <2>2, <2>4, <2>6, Zenon DEF IInv, Drains, InProgress, procVars
  <2>10. req[r].group # "" => req[r].pc = "writing"
    BY <2>1, Zenon DEF IInv, Accepted
  <2>11. ServedAsConfigured'
    <3>1. ASSUME req[r].group # ""
          PROVE  /\ ~req[r].byDomain => req[r].group \in Groups
                 /\ req[r].came # "listen" /\ req[r].group \in Groups /\ ConsensusAware(req[r].group) =>
                       req[r].routed /\ req[r].rewritten
      BY <2>10, <3>1, Zenon DEF IInv, ServedAsConfigured
    <3> QED
      BY <1>1, <2>4, <2>6, <3>1, Zenon DEF IInv, ServedAsConfigured
  <2>12. PollersOutliveRequests'
    BY <1>1, <1>2, <2>2, <2>4, <2>6, Zenon DEF IInv, PollersOutliveRequests, InProgress, procVars
  <2> QED
    BY <2>7, <2>8, <2>9, <2>11, <2>12, Zenon DEF IInv
<1>5. CASE Handle(r)
  <2>1. Alive /\ req \in [Requests -> Request]
    BY <1>5, Zenon DEF IInv, Types, Handle, Route, Rewrite, Respond
  <2>2. PICK v \in BOOLEAN : v = (req[r].group \in consensus)
    <3>1. CASE req[r].group \in consensus
      <4>1. (req[r].group \in consensus) = TRUE
        BY <3>1, Zenon
      <4> QED
        BY <4>1, Zenon
    <3>2. CASE req[r].group \notin consensus
      <4>1. (req[r].group \in consensus) = FALSE
        BY <3>2, SMT
      <4> QED
        BY <4>1, Zenon
    <3> QED
      BY <3>1, <3>2, Zenon
  <2> DEFINE Routed   == req' = [req EXCEPT ![r].pc = "routed", ![r].routed = v]
             Panicked == req' = [req EXCEPT ![r].pc = "panicked"]
             Forwards == req' = [req EXCEPT ![r].pc = "forward", ![r].rewritten = v]
             Responds == req' = [req EXCEPT ![r].pc = "writing"]
  <2>3. \/ req[r].pc = "arrived" /\ req[r].group \in Groups /\ Routed
        \/ req[r].pc = "arrived" /\ req[r].group \notin Groups /\ Panicked
        \/ req[r].pc = "routed" /\ Forwards
        \/ req[r].pc = "forward" /\ Responds
    <3>1. CASE Route(r)
      BY <2>2, <3>1, Zenon DEF Route
    <3>2. CASE Rewrite(r)
      BY <2>2, <3>2, Zenon DEF Rewrite
    <3>3. CASE Respond(r)
      BY <3>3, Zenon DEF Respond
    <3> QED
      BY <1>5, <3>1, <3>2, <3>3, Zenon DEF Handle
  <2>4. /\ req' \in [Requests -> Request]
        /\ req'[r].came = req[r].came /\ req'[r].group = req[r].group
        /\ req'[r].byDomain = req[r].byDomain
        /\ \A q \in Requests \ {r} : req'[q] = req[q]
    <3>0. v \in BOOLEAN
      BY <2>2, Zenon
    <3>1. CASE Routed
      <4>1. PICK u : u = [req[r] EXCEPT !.pc = "routed", !.routed = v]
        BY Zenon
      <4>2. u \in Request /\ u.came = req[r].came /\ u.group = req[r].group /\ u.byDomain = req[r].byDomain
        BY <2>1, <3>0, <4>1, ZenonT(60) DEF Request
      <4>3. req' = [req EXCEPT ![r] = u]
        BY <3>1, <4>1, Zenon
      <4> QED
        BY <2>1, <4>2, <4>3, Zenon
    <3>2. CASE Panicked
      BY <2>1, <3>2, ZenonT(60) DEF Request
    <3>3. CASE Forwards
      <4>1. PICK u : u = [req[r] EXCEPT !.pc = "forward", !.rewritten = v]
        BY Zenon
      <4>2. u \in Request /\ u.came = req[r].came /\ u.group = req[r].group /\ u.byDomain = req[r].byDomain
        BY <2>1, <3>0, <4>1, ZenonT(60) DEF Request
      <4>3. req' = [req EXCEPT ![r] = u]
        BY <3>3, <4>1, Zenon
      <4> QED
        BY <2>1, <4>2, <4>3, Zenon
    <3>4. CASE Responds
      BY <2>1, <3>4, ZenonT(60) DEF Request
    <3> QED
      BY <2>3, <3>1, <3>2, <3>3, <3>4, Zenon
  <2>5. Types'
    BY <1>1, <1>2, <1>3, <2>4, Zenon DEF IInv, Types, procVars
  <2> HIDE DEF Routed, Panicked, Forwards, Responds
  <2>6. InProgress(r) /\ req[r].pc # "idle"
    BY <2>3, Zenon DEF InProgress
  <2>7. Accepted' /\ GroupsReady'
    <3>1. req'[r].pc \notin {"idle", "reading"}
      BY <2>1, <2>3, ZenonT(60) DEF Request, Routed, Panicked, Forwards, Responds
    <3> QED
      BY <1>1, <1>2, <2>4, <2>6, <3>1, ZenonT(60) DEF IInv, Accepted, GroupsReady, procVars
  <2>8. Drains'
    BY <1>1, <1>2, <2>4, <2>6, Zenon DEF IInv, Drains, InProgress, procVars
  <2>9. PollersOutliveRequests'
    BY <1>1, <1>2, <2>4, <2>6, Zenon DEF IInv, PollersOutliveRequests, InProgress, procVars
  <2>10. ASSUME req[r].came # "listen", req[r].group # "", req[r].group \in Groups, ConsensusAware(req[r].group)
         PROVE  /\ req'[r].pc \in {"routed", "forward", "writing", "done"} => req'[r].routed
                /\ req'[r].pc \in {"forward", "writing", "done"} => req'[r].rewritten
    <3>1. v = TRUE
      BY <2>1, <2>2, <2>6, <2>10, Zenon DEF IInv, Accepted, GroupsReady, Alive
    <3>2. /\ req[r].pc \in {"routed", "forward", "writing", "done"} => req[r].routed
          /\ req[r].pc \in {"forward", "writing", "done"} => req[r].rewritten
      BY <2>10, Zenon DEF IInv, ServedAsConfigured
    <3> QED
      <4>1. CASE req[r].pc = "arrived" /\ Routed
        BY <2>1, <3>1, <4>1, Zenon DEF Request, Routed
      <4>2. CASE req[r].pc = "routed" /\ Forwards
        BY <2>1, <3>1, <3>2, <4>2, Zenon DEF Request, Forwards
      <4>3. CASE req[r].pc = "forward" /\ Responds
        BY <2>1, <3>2, <4>3, Zenon DEF Request, Responds
      <4> QED
        BY <2>3, <2>10, <4>1, <4>2, <4>3, Zenon
  <2>11. ServedAsConfigured'
    BY <1>1, <2>4, <2>6, <2>10, Zenon DEF IInv, ServedAsConfigured
  <2> QED
    BY <2>5, <2>7, <2>8, <2>9, <2>11, Zenon DEF IInv
<1> QED
  BY <1>4, <1>4a, <1>4b, <1>5, Zenon DEF Client

-----------------------------------------------------------------------------
(* The theorems *)

\* The initial states satisfy the inductive invariant.
LEMMA InitInvariant == Init => IInv
<1> SUFFICES ASSUME Init PROVE IInv
  BY Zenon
<1>1. Types
  BY Zenon DEF Init, Types, Request, NoRequest, Names, Servers, Groups
<1>2. \A r \in Requests : /\ req[r].pc = "idle" /\ req[r].came = "" /\ req[r].group = ""
                          /\ ~InProgress(r)
  BY Zenon DEF Init, NoRequest, InProgress
<1>3. Accepted /\ GroupsReady /\ Drains
  BY <1>2, Zenon DEF Init, Accepted, GroupsReady, Drains, Servers, Up, Groups
<1>4. ServedAsConfigured /\ PollersOutliveRequests
  BY <1>2, Zenon DEF ServedAsConfigured, PollersOutliveRequests
<1> QED
  BY <1>1, <1>3, <1>4, Zenon DEF IInv

\* Every step preserves it, the steps of the WebSocket session because they touch
\* nothing that it speaks of.
LEMMA NextInvariant == IInv /\ [Next]_vars => IInv'
<1> SUFFICES ASSUME IInv, [Next]_vars PROVE IInv'
  BY Zenon
<1>1. CASE Lifecycle
  BY <1>1, LifecycleStep, Zenon
<1>2. CASE \E r \in Requests : Client(r) \/ Handle(r)
  BY <1>2, RequestStep, Zenon
<1>3. CASE UNCHANGED <<procVars, req>>
  <2>1. Groups' = Groups /\ Names' = Names /\ MappingError' = MappingError
    BY <1>3, Zenon DEF Groups, Names, MappingError, procVars
  <2>2. \A g : ConsensusAware(g)' = ConsensusAware(g)
    BY <1>3, Zenon DEF ConsensusAware, Strategy, procVars
  <2>3. Types'
    BY <1>3, <2>1, Zenon DEF IInv, Types, Request, procVars
  <2>4. Accepted' /\ GroupsReady' /\ Drains'
    BY <1>3, <2>1, <2>2, Zenon DEF IInv, Accepted, GroupsReady, Drains, InProgress, procVars
  <2>5. ServedAsConfigured' /\ PollersOutliveRequests'
    BY <1>3, <2>1, <2>2, Zenon DEF IInv, ServedAsConfigured, PollersOutliveRequests, InProgress, procVars
  <2> QED
    BY <2>3, <2>4, <2>5, Zenon DEF IInv
<1> QED
  BY <1>1, <1>2, <1>3, Zenon DEF Next, Lifecycle, Session, vars

\* Whatever the configurations and however many requests: a method that the
\* default mapping maps has a backend group, and a request that comes after Start
\* has returned is routed and rewritten as its group says (Start, Forward).
THEOREM ServedAsConfiguredAlways == Spec => []ServedAsConfigured
<1>1. IInv => ServedAsConfigured
  BY Zenon DEF IInv
<1> QED
  BY <1>1, InitInvariant, NextInvariant, PTL DEF Spec

\* Whatever the configurations and however many requests, Shutdown stops no poller
\* before the requests that came before it have been answered.
THEOREM PollersOutliveRequestsAlways == Spec => []PollersOutliveRequests
<1>1. IInv => PollersOutliveRequests
  BY Zenon DEF IInv
<1> QED
  BY <1>1, InitInvariant, NextInvariant, PTL DEF Spec
-----------------------------------------------------------------------------
(* The WebSocket session *)

Reported(s) == IF pump[s] = "ended" THEN 1 ELSE 0

PumpStates ==
    {"none", "read", "forward", "answer", "close message", "control message", "report", "ended"}

\* How far the handler has come says which connections there are and what the
\* gauge shows.
Connections ==
    /\ conn \in [WS!Sides -> {"none", "open", "gone", "closed"}]
    /\ handler \in {"upgrade", "dial", "proxy", "over"}
    /\ handler = "upgrade" => conn["client"] = "none"
    /\ handler \in {"upgrade", "dial"} => conn["backend"] = "none" /\ gauge = 0
    /\ handler = "proxy" => gauge = 1
    /\ handler = "over" => gauge = 0 /\ \A s \in WS!Sides : conn[s] \in {"none", "closed"}

\* Every error in errC, and the one that Proxy has taken, is the last thing that a
\* pump did.
Errors ==
    /\ pump \in [WS!Sides -> PumpStates]
    /\ handler \in {"upgrade", "dial"} =>
          errC = <<>> /\ \A s \in WS!Sides : pump[s] = "none"
    /\ errC \in Seq(WS!Sides)
    /\ Len(errC) <= Reported("client") + Reported("backend")

\* A pump that has an error to report finds room in errC: it never waits for Proxy,
\* which takes one error only and then returns (clientPump, backendPump).
ReportsNeverBlock ==
    \A s \in WS!Sides : pump[s] = "report" => WS!HasRoom

\* Every session starts with no connection and nothing to report.
LEMMA InitSession == Init => Connections /\ Errors
<1> SUFFICES ASSUME Init PROVE Connections /\ Errors
  BY Zenon
<1>1. Connections
  BY Zenon DEF Init, WS!Init, Connections, WS!Sides
<1>2. errC = <<>> /\ Reported("client") \in Nat /\ Reported("backend") \in Nat
  BY Zenon DEF Init, WS!Init, Reported
<1>3. pump \in [WS!Sides -> PumpStates]
  BY Zenon DEF Init, WS!Init, PumpStates
<1> QED
  BY <1>1, <1>2, <1>3 DEF Errors, Init, WS!Init

\* HandleWS, ProxyWS and Proxy open a connection together with the gauge, and close
\* all that is open before the handler is over; peers leave open connections only,
\* and the pumps change none.
LEMMA ConnectionsStep == Connections /\ WS!Next => Connections'
<1> SUFFICES ASSUME Connections, WS!Next PROVE Connections'
  BY Zenon
<1> USE DEF WS!Sides
<1>1. CASE WS!Upgrade
  BY <1>1, Zenon DEF Connections, WS!Upgrade
<1>2. CASE WS!DialFails
  BY <1>2, Zenon DEF Connections, WS!DialFails
<1>3. CASE WS!Dial
  BY <1>3 DEF Connections, WS!Dial
<1>4. CASE WS!NoBackends
  BY <1>4, Zenon DEF Connections, WS!NoBackends
<1>5. CASE WS!ProxyEnds
  BY <1>5 DEF Connections, WS!ProxyEnds, WS!Closes
<1>6. ASSUME NEW s \in WS!Sides, WS!Leave(s)
      PROVE  Connections'
  BY <1>6, Zenon DEF Connections, WS!Leave
<1>7. ASSUME NEW s \in WS!Sides, WS!Pump(s) \/ WS!ReadMessage(s)
      PROVE  Connections'
  <2>1. UNCHANGED <<handler, conn, gauge>>
    BY <1>7, Zenon DEF WS!Pump, WS!ReadMessage, WS!ReadError, WS!WriteFails, WS!Write, WS!WriteClose, WS!Report
  <2> QED
    BY <2>1, Zenon DEF Connections
<1> QED
  BY <1>1, <1>2, <1>3, <1>4, <1>5, <1>6, <1>7, Zenon DEF WS!Next, WS!Handler

\* A pump adds an error when it ends, and no other step makes errC longer.
LEMMA ErrorsStep == Errors /\ WS!Next => Errors'
<1> SUFFICES ASSUME Errors, WS!Next PROVE Errors'
  BY Zenon
<1>0. /\ Reported("client") \in Nat /\ Reported("backend") \in Nat
      /\ Reported("client")' \in Nat /\ Reported("backend")' \in Nat
  BY Zenon DEF Reported
<1>1. CASE WS!Upgrade \/ WS!DialFails \/ WS!NoBackends
  <2>1. UNCHANGED <<errC, pump>> /\ handler \in {"upgrade", "dial"}
    BY <1>1, Zenon DEF WS!Upgrade, WS!DialFails, WS!NoBackends
  <2> QED
    BY <2>1, Zenon DEF Errors, Reported
<1>2. CASE WS!Dial
  <2>1. UNCHANGED errC /\ errC = <<>> /\ handler' = "proxy"
    BY <1>2, Zenon DEF Errors, WS!Dial
  <2>2. pump' \in [WS!Sides -> PumpStates]
    BY <1>2, Zenon DEF WS!Dial, PumpStates
  <2> QED
    BY <1>0, <2>1, <2>2 DEF Errors
<1>3. CASE WS!ProxyEnds
  <2>1. UNCHANGED pump /\ errC # <<>> /\ errC' = Tail(errC) /\ handler' = "over"
    BY <1>3, Zenon DEF WS!ProxyEnds
  <2>2. errC' \in Seq(WS!Sides) /\ Len(errC') = Len(errC) - 1 /\ Len(errC) \in Nat
    BY <2>1 DEF Errors
  <2>3. Reported("client")' = Reported("client") /\ Reported("backend")' = Reported("backend")
    BY <2>1, Zenon DEF Reported
  <2> QED
    BY <1>0, <2>1, <2>2, <2>3 DEF Errors
<1>4. ASSUME NEW s \in WS!Sides, WS!Report(s)
      PROVE  Errors'
  <2>1. /\ pump[s] = "report" /\ errC' = Append(errC, s) /\ pump' = [pump EXCEPT ![s] = "ended"]
        /\ UNCHANGED handler
    BY <1>4, Zenon DEF WS!Report, WS!Goto
  <2>2. errC' \in Seq(WS!Sides) /\ Len(errC') = Len(errC) + 1 /\ Len(errC) \in Nat
    BY <2>1 DEF Errors
  <2>3. pump' \in [WS!Sides -> PumpStates]
    BY <2>1, Zenon DEF Errors, PumpStates
  <2>4. Reported("client")' + Reported("backend")' = Reported("client") + Reported("backend") + 1
    BY <2>1 DEF Errors, Reported, WS!Sides
  <2>5. handler \notin {"upgrade", "dial"}
    BY <2>1, Zenon DEF Errors
  <2> QED
    BY <1>0, <2>1, <2>2, <2>3, <2>4, <2>5 DEF Errors
<1>5. ASSUME NEW s \in WS!Sides, WS!Leave(s)
      PROVE  Errors'
  <2>1. UNCHANGED <<handler, errC, pump>>
    BY <1>5, Zenon DEF WS!Leave
  <2> QED
    BY <2>1, Zenon DEF Errors, Reported
<1>6. ASSUME NEW s \in WS!Sides,
             \/ WS!ReadMessage(s) \/ WS!ReadError(s)
             \/ WS!WriteFails(s) \/ WS!Write(s) \/ WS!WriteClose(s)
      PROVE  Errors'
  <2>1. PICK l \in PumpStates \ {"ended"} : pump' = [pump EXCEPT ![s] = l]
    BY <1>6, Zenon DEF WS!ReadMessage, WS!ReadError, WS!WriteFails, WS!Write, WS!WriteClose, WS!Goto,
                WS!AfterClose, PumpStates
  <2>2. pump[s] \notin {"none", "ended"} /\ UNCHANGED <<handler, errC>>
    BY <1>6, Zenon DEF WS!ReadMessage, WS!ReadError, WS!WriteFails, WS!Write, WS!WriteClose
  <2>3. Reported("client")' = Reported("client") /\ Reported("backend")' = Reported("backend")
    BY <2>1, <2>2, Zenon DEF Errors, Reported, WS!Sides
  <2>4. pump' \in [WS!Sides -> PumpStates]
    BY <2>1, Zenon DEF Errors
  <2>5. handler \notin {"upgrade", "dial"}
    BY <2>2, Zenon DEF Errors
  <2> QED
    BY <2>2, <2>3, <2>4, <2>5, Zenon DEF Errors
<1> QED
  BY <1>1, <1>2, <1>3, <1>4, <1>5, <1>6, Zenon DEF WS!Next, WS!Handler, WS!Pump

\* No other step touches the session, and a session only steps while the process
\* lives.
LEMMA NextSession == Connections /\ Errors /\ [Next]_vars => Connections' /\ Errors'
<1> SUFFICES ASSUME Connections, Errors, [Next]_vars PROVE Connections' /\ Errors'
  BY Zenon
<1>1. CASE Session
  BY <1>1, ConnectionsStep, ErrorsStep, Zenon DEF Session
<1>2. CASE UNCHANGED wsVars
  BY <1>2, Zenon DEF Connections, Errors, Reported, wsVars
<1>3. Session \/ UNCHANGED wsVars
  BY Zenon DEF Next, Main, Serve, Validate, Started, Shutdown, ShutdownWS, ShutdownGroups, Return,
         ConfigureGroup, SetConsensus, CreateServer, Listen, ListenFails, Signal, Session,
         Client, Arrive, ReadBody, AnswerEarly, Written, Handle, Route, Rewrite, Respond,
         vars
<1> QED
  BY <1>1, <1>2, <1>3, Zenon

\* However many backends can be dialled and in whatever order the peers leave, the
\* writes fail and the pumps end: when a session is over, no connection is open
\* and the gauge is back where it was (HandleWS, ProxyWS, Proxy).
THEOREM NothingStaysOpenAlways == Spec => []NothingStaysOpen
<1>1. Connections => NothingStaysOpen
  BY Zenon DEF Connections, NothingStaysOpen, WS!NothingStaysOpen
<1> QED
  BY <1>1, InitSession, NextSession, PTL DEF Spec

\* The two places of errC are enough, at any time and after the session is over
\* too: no pump is left behind on its last write to the channel (NewWSProxier).
THEOREM ReportsNeverBlockAlways == Spec => []ReportsNeverBlock
<1>1. ASSUME Errors, NEW s \in WS!Sides, pump[s] = "report"
      PROVE  Len(errC) < 2
  <2>1. Reported("client") + Reported("backend") <= 1
    BY <1>1 DEF Reported, WS!Sides
  <2>2. Len(errC) \in Nat /\ Reported("client") \in Nat /\ Reported("backend") \in Nat
    BY <1>1 DEF Errors, Reported
  <2> QED
    BY <1>1, <2>1, <2>2 DEF Errors
<1>2. Errors => ReportsNeverBlock
  BY <1>1, Zenon DEF ReportsNeverBlock, WS!HasRoom, WS!ErrCapacity
<1> QED
  BY <1>2, InitSession, NextSession, PTL DEF Spec
=============================================================================
