----------------------------- MODULE WSProxier ------------------------------
(***************************************************************************)
(* One WebSocket session: HandleWS (server.go), the choice of a backend    *)
(* (BackendGroup.ProxyWS) and the two pumps of WSProxier (backend.go).     *)
(*                                                                         *)
(* clientPump reads from the client and writes to the backend, or back to  *)
(* the client when proxyd answers itself; backendPump reads from the       *)
(* backend and writes to the client.  A pump that fails puts an error into *)
(* errC and ends; Proxy waits for the first error and closes both          *)
(* connections, which is what ends the other pump.                         *)
(***************************************************************************)
EXTENDS Integers, Sequences

CONSTANTS
    NumBackends     \* len(bg.Backends)

ErrCapacity == 2    \* the capacity of errC

Sides == {"client", "backend"}
Other(s) == IF s = "client" THEN "backend" ELSE "client"

VARIABLES
    handler,    \* "upgrade", "dial", "proxy" (waits on errC) or "over"
    tried,      \* backends dialled in vain, while handler is "dial"
    conn,       \* each connection: "none", "open", "gone" (the peer has left) or "closed"
    closeSent,  \* the sides that were sent a close message: no write follows it
    pump,       \* the pump that reads from each side
    errC,       \* the errors reported, oldest first
    gauge       \* activeBackendWsConnsGauge

vars == <<handler, tried, conn, closeSent, pump, errC, gauge>>

Init ==
    /\ handler = "upgrade"
    /\ tried = 0
    /\ conn = [s \in Sides |-> "none"]
    /\ closeSent = {}
    /\ pump = [s \in Sides |-> "none"]
    /\ errC = <<>>
    /\ gauge = 0

-----------------------------------------------------------------------------
(* HandleWS and ProxyWS *)

Upgrade ==
    /\ handler = "upgrade"
    /\ \/ handler' = "dial" /\ conn' = [conn EXCEPT !["client"] = "open"]
       \/ handler' = "over" /\ UNCHANGED conn
    /\ UNCHANGED <<tried, closeSent, pump, errC, gauge>>

DialFails ==
    /\ handler = "dial" /\ tried < NumBackends
    /\ tried' = tried + 1
    /\ UNCHANGED <<handler, conn, closeSent, pump, errC, gauge>>

\* Proxy starts both pumps.
Dial ==
    /\ handler = "dial" /\ tried < NumBackends
    /\ conn' = [conn EXCEPT !["backend"] = "open"]
    /\ gauge' = gauge + 1
    /\ pump' = [s \in Sides |-> "read"]
    /\ handler' = "proxy"
    /\ tried' = 0
    /\ UNCHANGED <<closeSent, errC>>

MutantNoBackends ==
    /\ handler = "dial" /\ tried = NumBackends
    /\ handler' = "over"
    /\ UNCHANGED <<conn, tried, closeSent, pump, errC, gauge>>

NoBackends ==
    /\ handler = "dial" /\ tried = NumBackends
    /\ conn' = [conn EXCEPT !["client"] = "closed"]
    /\ handler' = "over"
    /\ UNCHANGED <<tried, closeSent, pump, errC, gauge>>

\* close() closes both connections.
Closes == Sides

ProxyEnds ==
    /\ handler = "proxy" /\ errC # <<>>
    /\ errC' = Tail(errC)
    /\ conn' = [s \in Sides |-> IF s \in Closes THEN "closed" ELSE conn[s]]
    /\ gauge' = gauge - 1
    /\ handler' = "over"
    /\ UNCHANGED <<tried, closeSent, pump>>

-----------------------------------------------------------------------------
(* The peers *)

\* The client or the backend closes its connection, or it breaks.
Leave(s) ==
    /\ conn[s] = "open"
    /\ conn' = [conn EXCEPT ![s] = "gone"]
    /\ UNCHANGED <<handler, tried, closeSent, pump, errC, gauge>>

-----------------------------------------------------------------------------
(* A pump; s is the side it reads from *)

Goto(s, l) == pump' = [pump EXCEPT ![s] = l]

\* A message from a side that is there is routed: to the other side, or, in the
\* client pump, an error or the answer to eth_accounts back to the client.
ReadMessage(s) ==
    /\ pump[s] = "read" /\ conn[s] = "open"
    /\ \/ Goto(s, "forward")
       \/ s = "client" /\ Goto(s, "answer")
    /\ UNCHANGED <<handler, tried, conn, closeSent, errC, gauge>>

ReadError(s) ==
    /\ pump[s] = "read" /\ conn[s] \in {"gone", "closed"}
    /\ Goto(s, "close message")
    /\ UNCHANGED <<handler, tried, conn, closeSent, errC, gauge>>

\* A write to a connection can fail at any time, with its deadline at the
\* latest, and succeed only if nothing has closed it.
CanWrite(s) == conn[s] \in {"open", "gone"} /\ s \notin closeSent

WriteFails(s) ==
    /\ pump[s] \in {"forward", "answer", "close message", "control message"}
    /\ Goto(s, "report")
    /\ UNCHANGED <<handler, tried, conn, closeSent, errC, gauge>>

Write(s) ==
    /\ \/ pump[s] = "forward" /\ CanWrite(Other(s))
       \/ pump[s] = "answer" /\ CanWrite(s)
    /\ Goto(s, "read")
    /\ UNCHANGED <<handler, tried, conn, closeSent, errC, gauge>>

\* After the close message the pump does not return: it goes on with the message
\* type of the failed read, which is none, and takes it for a control message.
\* Writing that is refused (WriteFails is all that can follow).
AfterClose == "control message"

WriteClose(s) ==
    /\ pump[s] = "close message" /\ CanWrite(Other(s))
    /\ closeSent' = closeSent \union {Other(s)}
    /\ Goto(s, AfterClose)
    /\ UNCHANGED <<handler, tried, conn, errC, gauge>>

MutantHasRoom == handler = "proxy" /\ errC = <<>>

HasRoom == Len(errC) < ErrCapacity

Report(s) ==
    /\ pump[s] = "report" /\ HasRoom
    /\ errC' = Append(errC, s)
    /\ Goto(s, "ended")
    /\ UNCHANGED <<handler, tried, conn, closeSent, gauge>>

Pump(s) ==
    ReadError(s) \/ WriteFails(s) \/ Write(s) \/ WriteClose(s) \/ Report(s)

Handler == Upgrade \/ DialFails \/ Dial \/ NoBackends \/ ProxyEnds

Next == Handler \/ \E s \in Sides : Pump(s) \/ ReadMessage(s) \/ Leave(s)

Spec == Init /\ [][Next]_vars

\* The goroutines keep running: a write ends with its deadline and a read with
\* the connection.  Nothing makes a peer send a message or leave.
FairSpec == Spec /\ WF_vars(Handler) /\ \A s \in Sides : WF_vars(Pump(s))

-----------------------------------------------------------------------------
(* Properties *)

\* The values the variables take.
TypeOK ==
    /\ handler \in {"upgrade", "dial", "proxy", "over"}
    /\ tried \in 0..NumBackends
    /\ conn \in [Sides -> {"none", "open", "gone", "closed"}]
    /\ closeSent \subseteq Sides
    /\ pump \in [Sides -> {"none", "read", "forward", "answer", "close message",
                           "control message", "report", "ended"}]
    /\ errC \in Seq(Sides) /\ Len(errC) <= ErrCapacity
    /\ gauge \in {0, 1}

\* When the session is over, however it ended, no connection is left open and
\* the gauge of active connections is back where it was (HandleWS closes the
\* client if no backend can be dialled, Proxy closes both).
NothingStaysOpen ==
    handler = "over" => gauge = 0 /\ \A s \in Sides : conn[s] \in {"none", "closed"}

\* As soon as one side leaves, the session comes to its end: both pumps end and
\* both connections are closed, so that no goroutine is left behind on a side
\* that stays silent.
SessionEnds ==
    (handler = "proxy" /\ \E s \in Sides : conn[s] = "gone") ~>
        (handler = "over" /\ \A s \in Sides : pump[s] = "ended" /\ conn[s] = "closed")
=============================================================================
