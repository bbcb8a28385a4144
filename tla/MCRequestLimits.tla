--------------------------- MODULE MCRequestLimits ---------------------------
(* Requests, calls and limits for TLC. *)
EXTENDS RequestLimits, TLC

CONSTANTS r1, r2, r3, i1, i2

TwoInstances == [r \in Requests |-> IF r \in {r1, r2} THEN i1 ELSE i2]

PerInstance == Permutations({r1, r2})

AllLimiters == {"main", "senders", "eth_sendBundle", "admin"}

EachDur == [l \in AllLimiters |-> 3]
EachMax == [l \in AllLimiters |-> 1]
ZeroExemptRate == [EachMax EXCEPT !["admin"] = 0]

Call(method, tx) ==
    [authorized |-> TRUE, ip |-> "ip1", origin |-> "", agent |-> "", method |-> method, tx |-> tx]

Bot(c) == [c EXCEPT !.agent = "bot"]

Transaction == Call("eth_sendRawTransaction", "tx1")

\* Two requests send a transaction, from an address that is limited or as an exempt
\* caller; the third may send it to the other instance, or be any other call.
SomeCalls ==
    [r \in Requests |->
        IF r \in {r1, r2} THEN {Transaction, Bot(Transaction)}
        ELSE {Bot(Transaction), Bot([Transaction EXCEPT !.tx = "other chain"]),
              Bot(Call("eth_sendBundle", "")), Call("eth_call", ""),
              [Call("eth_call", "") EXCEPT !.origin = "admin"], [Call("eth_call", "") EXCEPT !.ip = ""]}]
=============================================================================
