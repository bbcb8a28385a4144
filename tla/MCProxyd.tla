------------------------------ MODULE MCProxyd -------------------------------
(* Configurations for TLC: one that Start accepts when both Redis answer, *)
(* although a domain's mapping names no group, and variations of it.      *)
EXTENDS Proxyd

GoodBackend ==
    [rpcURL |-> "url", wsURL |-> "", password |-> "", headers |-> {}, receipts |-> "",
     ca |-> "", keyPair |-> ""]

Group(strategy, backends) ==
    [backends |-> backends, fallbacks |-> <<>>, strategy |-> strategy, consensusAware |-> FALSE,
     ha |-> FALSE, haURL |-> ""]

Good ==
    [backends |-> [b \in {"b1", "b2"} |-> GoodBackend],
     groups   |-> [main  |-> [Group("consensus_aware", <<"b1", "b2">>) EXCEPT !.ha = TRUE, !.haURL = "url"],
                   other |-> [Group("", <<"b1", "b2">>) EXCEPT !.consensusAware = TRUE,
                                                              !.fallbacks = <<"b2">>]],
     mapping  |-> [eth_call |-> "main", eth_chainId |-> "other"],
     domain   |-> [eth_call |-> "other", eth_chainId |-> "undefined"],
     auth     |-> {"key"},
     redis    |-> [url |-> "url", readURL |-> "url", fallback |-> FALSE, useRedis |-> FALSE],
     sender   |-> [enabled |-> TRUE, limit |-> 1, seconds |-> 1],
     wsGroup  |-> "main", wsPort |-> TRUE,
     baseRate |-> 1, patterns |-> {"pattern"}]

BadBackends ==
    {[GoodBackend EXCEPT !.rpcURL = ""], [GoodBackend EXCEPT !.headers = {"unset env"}],
     [GoodBackend EXCEPT !.ca = "file", !.keyPair = "unreadable"],
     [GoodBackend EXCEPT !.receipts = "eth_getLogs"]}

\* Refused by Start before anything listens.
Refused ==
    {[Good EXCEPT !.mapping = <<>>], [Good EXCEPT !.auth = {"none"}],
     [Good EXCEPT !.redis.url = "", !.redis.readURL = "", !.redis.useRedis = TRUE],
     [Good EXCEPT !.redis.url = ""], [Good EXCEPT !.redis.readURL = "unset env"],
     [Good EXCEPT !.sender.limit = 0], [Good EXCEPT !.groups.main.backends = <<"b3">>],
     [Good EXCEPT !.groups.other.fallbacks = <<"b1", "b3">>],
     [Good EXCEPT !.wsGroup = ""], [Good EXCEPT !.patterns = {"malformed"}],
     [Good EXCEPT !.mapping.eth_call = "undefined"]}
    \union {[Good EXCEPT !.backends["b2"] = b] : b \in BadBackends}

\* Refused, if at all, when the servers already listen.
Late ==
    {Good,
     [Good EXCEPT !.groups.other.strategy = "consensus_aware"],
     [Good EXCEPT !.groups.main.strategy = "multicall"],
     [Good EXCEPT !.wsPort = FALSE]}

AllConfigs == Refused \union Late
=============================================================================
