------------------------------- MODULE CloudLink --------------------------------
(***************************************************************************)
(* The link to Azure IoT Hub: AzureMQTTClient                              *)
(* (internal/adapters/cloud/azure_mqtt.go) over the paho MQTT client, used *)
(* by main and by the goroutines that publish.                             *)
(*                                                                         *)
(* paho is external.  As the options of Connect set it up: it reconnects   *)
(* after a loss but not after a failed first connect; it calls the         *)
(* connection handlers in goroutines of their own, which run in any order; *)
(* the hub forgets a subscription with its connection (clean session).     *)
(* It stores a QoS 1 publish until it is acknowledged.  When it has        *)
(* reconnected it takes up the whole store again (resume): each packet is  *)
(* claimed for a new token, which completes the old one without an error,  *)
(* and sent once more.  A write that fails sets the token's error and      *)
(* leaves the packet in the store.                                         *)
(*                                                                         *)
(* A definition marked "Mistake" is no part of the specification: it is a  *)
(* plausible wrong version of the definition after it, which the           *)
(* properties must tell from the right one.                                *)
(***************************************************************************)
EXTENDS Naturals

CONSTANTS Publishes,       \* calls of Publish
          Messages,        \* C2D messages at the hub
          Malformed,       \* those json.Unmarshal rejects
          MaxConnections   \* bound of the connections ever established

ASSUME LinkAssumption ==
    /\ Malformed \subseteq Messages
    /\ MaxConnections \in Nat

VARIABLES main,         \* where main is
          status,       \* paho's connection status, "none" before NewClient
          conn,         \* connections established so far
          onConnect,    \* progress of the OnConnect handler of each connection
          onLost,       \* progress of its ConnectionLost handler
          overtaken,    \* history: a ConnectionLost handler ran after a later OnConnect handler
          connected,    \* AzureMQTTClient.connected
          registered,   \* AzureMQTTClient.callbacks has main's callback
          subscribed,   \* the hub has the subscription of the current connection
          call,         \* progress of each call of Publish
          token,        \* the token Publish waits for
          packet,       \* where its PUBLISH packet is
          resuming,     \* paho has reconnected and not yet taken up its store
          interrupted,  \* history: publishes in the store without a connection or at a resume
          copies,       \* history: how often the hub received it
          message,      \* where each C2D message is
          dispatched    \* history: how often DispatchCommand got its command

handlers == <<onConnect, onLost, overtaken>>
flags == <<connected, registered>>
session == <<status, conn, subscribed>>
paho == <<token, packet, resuming, interrupted>>
publishing == <<call, paho, copies>>
commands == <<message, dispatched>>
vars == <<main, session, handlers, flags, publishing, commands>>

Connections == 1..MaxConnections

\* "kept": in the store only; "queued": on its way to the connection; "sent": written.
Stored == {"kept", "queued", "sent"}

TypeOK ==
    /\ main \in {"connect", "dial", "register", "check", "serve", "signalled", "flushed", "done"}
    /\ status \in {"none", "connecting", "connected", "reconnecting", "disconnected"}
    /\ conn \in 0..MaxConnections
    /\ onConnect \in [Connections -> {"none", "started", "flagged", "done"}]
    /\ onLost \in [Connections -> {"none", "started", "done"}]
    /\ overtaken \in BOOLEAN
    /\ connected \in BOOLEAN
    /\ registered \in BOOLEAN
    /\ subscribed \in BOOLEAN
    /\ call \in [Publishes -> {"new", "checked", "waiting", "ok", "error", "timeout"}]
    /\ token \in [Publishes -> {"none", "open", "complete", "error"}]
    /\ packet \in [Publishes -> Stored \cup {"none", "acked", "abandoned"}]
    /\ resuming \in BOOLEAN
    /\ interrupted \subseteq Publishes
    /\ copies \in [Publishes -> Nat]
    /\ message \in [Messages -> {"absent", "queued", "delivered", "settled"}]
    /\ dispatched \in [Messages -> Nat]

Init ==
    /\ main = "connect"
    /\ status = "none"
    /\ conn = 0
    /\ onConnect = [n \in Connections |-> "none"]
    /\ onLost = [n \in Connections |-> "none"]
    /\ overtaken = FALSE
    /\ connected = FALSE
    /\ registered = FALSE
    /\ subscribed = FALSE
    /\ call = [p \in Publishes |-> "new"]
    /\ token = [p \in Publishes |-> "none"]
    /\ packet = [p \in Publishes |-> "none"]
    /\ resuming = FALSE
    /\ interrupted = {}
    /\ copies = [p \in Publishes |-> 0]
    /\ message = [m \in Messages |-> "absent"]
    /\ dispatched = [m \in Messages |-> 0]

---------------------------------------------------------------------------------
(* main: Connect, SubscribeToCommands, and the signal.                     *)

\* paho counts a connection it is re-establishing as connected.
ClientConnected == status \in {"connected", "reconnecting"}
IsConnected == connected /\ ClientConnected

\* No key pair: Connect returns before it makes a client, and main goes on.
NoCertificate ==
    /\ main = "connect"
    /\ main' = "register"
    /\ UNCHANGED <<session, handlers, flags, publishing, commands>>

StartConnect ==
    /\ main = "connect"
    /\ main' = "dial"
    /\ status' = "connecting"
    /\ UNCHANGED <<conn, subscribed, handlers, flags, publishing, commands>>

\* The error is returned, logged by main, and nobody tries again.
ConnectFails ==
    /\ main = "dial"
    /\ main' = "register"
    /\ status' = "disconnected"
    /\ UNCHANGED <<conn, subscribed, handlers, flags, publishing, commands>>

\* A connection is up: paho starts the OnConnect handler.
Establish ==
    /\ conn < MaxConnections
    /\ conn' = conn + 1
    /\ status' = "connected"
    /\ onConnect' = [onConnect EXCEPT ![conn + 1] = "started"]
    /\ UNCHANGED <<subscribed, onLost, overtaken, flags, call, token, packet, interrupted, copies,
                   commands>>

ConnectSucceeds == main = "dial" /\ main' = "register" /\ Establish /\ UNCHANGED resuming

Register ==
    /\ main = "register"
    /\ main' = "check"
    /\ registered' = TRUE
    /\ UNCHANGED <<session, handlers, connected, publishing, commands>>

\* client.Subscribe; the token is not looked at.  Without a connection paho refuses.
Subscribe == subscribed' = (subscribed \/ status = "connected")

\* Mistake: it is left to the OnConnect handler.
LeaveToHandler ==
    /\ main = "check"
    /\ main' = "serve"
    /\ UNCHANGED <<session, handlers, flags, publishing, commands>>

SubscribeIfConnected ==
    /\ main = "check"
    /\ main' = "serve"
    /\ IF IsConnected THEN Subscribe ELSE UNCHANGED subscribed
    /\ UNCHANGED <<status, conn, handlers, flags, publishing, commands>>

\* The signal; main stops the engine before it comes to Disconnect.
Signal ==
    /\ main = "serve"
    /\ main' = "signalled"
    /\ UNCHANGED <<session, handlers, flags, publishing, commands>>

\* Mistake: Disconnect resets the flag only.
FlagOnly ==
    /\ main = "signalled"
    /\ main' = "flushed"
    /\ UNCHANGED <<session, handlers, flags, publishing, commands>>

\* client.Disconnect: the store is given up.  The tokens get an error if a connection was
\* up, and otherwise stay as they are.
CloseClient ==
    /\ main = "signalled"
    /\ main' = "flushed"
    /\ status' = IF status = "none" THEN "none" ELSE "disconnected"
    /\ subscribed' = FALSE
    /\ packet' = [p \in Publishes |-> IF packet[p] \in Stored THEN "abandoned" ELSE packet[p]]
    /\ token' = [p \in Publishes |-> IF token[p] = "open" /\ status = "connected"
                                     THEN "error" ELSE token[p]]
    /\ resuming' = FALSE
    /\ UNCHANGED <<conn, handlers, flags, call, interrupted, copies, commands>>

ClearFlag ==
    /\ main = "flushed"
    /\ main' = "done"
    /\ connected' = FALSE
    /\ UNCHANGED <<session, handlers, registered, publishing, commands>>

---------------------------------------------------------------------------------
(* paho: losing and re-establishing the connection, and its handlers.      *)

\* Another connection must be left for the reconnect.  Of the packets on their way, some
\* were being written: their tokens get the error.
Lose ==
    /\ status = "connected" /\ conn < MaxConnections
    /\ status' = "reconnecting"
    /\ onLost' = [onLost EXCEPT ![conn] = "started"]
    /\ subscribed' = FALSE
    /\ \E broken \in SUBSET {p \in Publishes : packet[p] = "queued"} :
          token' = [p \in Publishes |-> IF p \in broken /\ token[p] = "open"
                                        THEN "error" ELSE token[p]]
    /\ packet' = [p \in Publishes |-> IF packet[p] \in Stored THEN "kept" ELSE packet[p]]
    /\ resuming' = FALSE
    /\ interrupted' = interrupted \cup {p \in Publishes : packet[p] \in Stored}
    /\ message' = [m \in Messages |-> IF message[m] = "delivered" THEN "queued" ELSE message[m]]
    /\ UNCHANGED <<main, conn, onConnect, overtaken, flags, call, copies, dispatched>>

Reconnect == status = "reconnecting" /\ Establish /\ resuming' = TRUE /\ UNCHANGED main

\* The old tokens complete before anything is sent again; a publish that came after the
\* reconnect is in the store too.
Resume ==
    /\ status = "connected" /\ resuming
    /\ resuming' = FALSE
    /\ token' = [p \in Publishes |-> IF packet[p] \in Stored /\ token[p] = "open"
                                     THEN "complete" ELSE token[p]]
    /\ packet' = [p \in Publishes |-> IF packet[p] \in Stored THEN "queued" ELSE packet[p]]
    /\ interrupted' = interrupted \cup {p \in Publishes : packet[p] \in Stored}
    /\ UNCHANGED <<main, session, handlers, flags, call, copies, commands>>

\* Mistake: the flag is set for the first connection only.
FlagFirst(n) ==
    /\ onConnect[n] = "started"
    /\ onConnect' = [onConnect EXCEPT ![n] = "flagged"]
    /\ connected' = (connected \/ n = 1)
    /\ UNCHANGED <<main, session, onLost, overtaken, registered, publishing, commands>>

OnConnectFlag(n) ==
    /\ onConnect[n] = "started"
    /\ onConnect' = [onConnect EXCEPT ![n] = "flagged"]
    /\ connected' = TRUE
    /\ UNCHANGED <<main, session, onLost, overtaken, registered, publishing, commands>>

OnConnectSubscribe(n) ==
    /\ onConnect[n] = "flagged"
    /\ onConnect' = [onConnect EXCEPT ![n] = "done"]
    /\ IF registered THEN Subscribe ELSE UNCHANGED subscribed
    /\ UNCHANGED <<main, status, conn, onLost, overtaken, flags, publishing, commands>>

OnConnectionLost(n) ==
    /\ onLost[n] = "started"
    /\ onLost' = [onLost EXCEPT ![n] = "done"]
    /\ connected' = FALSE
    /\ overtaken' = (overtaken \/ \E k \in Connections : k > n /\ onConnect[k] \in {"flagged", "done"})
    /\ UNCHANGED <<main, session, onConnect, registered, publishing, commands>>

---------------------------------------------------------------------------------
(* Publish.                                                                *)

CheckConnected(p) ==
    /\ call[p] = "new"
    /\ call' = [call EXCEPT ![p] = IF IsConnected THEN "checked" ELSE "error"]
    /\ UNCHANGED <<main, session, handlers, flags, paho, copies, commands>>

\* client.Publish: the connection may have gone since the check.
HandOver(p) ==
    /\ call[p] = "checked" /\ ClientConnected
    /\ call' = [call EXCEPT ![p] = "waiting"]
    /\ token' = [token EXCEPT ![p] = "open"]
    /\ packet' = [packet EXCEPT ![p] = IF status = "connected" THEN "queued" ELSE "kept"]
    /\ interrupted' = IF status = "connected" THEN interrupted ELSE interrupted \cup {p}
    /\ UNCHANGED <<main, session, handlers, flags, resuming, copies, commands>>

HandOverRefused(p) ==
    /\ call[p] = "checked" /\ ~ClientConnected
    /\ call' = [call EXCEPT ![p] = "error"]
    /\ UNCHANGED <<main, session, handlers, flags, paho, copies, commands>>

\* After a reconnect once more, though the hub may have it already.
Transmit(p) ==
    /\ status = "connected" /\ packet[p] = "queued"
    /\ packet' = [packet EXCEPT ![p] = "sent"]
    /\ copies' = [copies EXCEPT ![p] = @ + 1]
    /\ UNCHANGED <<main, session, handlers, flags, call, token, resuming, interrupted, commands>>

Acknowledge(p) ==
    /\ status = "connected" /\ packet[p] = "sent"
    /\ packet' = [packet EXCEPT ![p] = "acked"]
    /\ token' = IF token[p] = "open" THEN [token EXCEPT ![p] = "complete"] ELSE token
    /\ UNCHANGED <<main, session, handlers, flags, call, resuming, interrupted, copies, commands>>

Returns(p, result) ==
    /\ call' = [call EXCEPT ![p] = result]
    /\ UNCHANGED <<main, session, handlers, flags, paho, copies, commands>>

PublishReturns(p) ==
    /\ call[p] = "waiting"
    /\ \/ token[p] = "complete" /\ Returns(p, "ok")
       \/ token[p] = "error" /\ Returns(p, "error")

\* Mistake: WaitTimeout's result is not looked at.
TimeoutIgnored(p) == call[p] = "waiting" /\ token[p] # "error" /\ Returns(p, "ok")

\* Mistake: token.Wait for token.WaitTimeout.
WaitForever(p) == FALSE /\ Returns(p, "timeout")

\* Five seconds have passed, and the select of WaitTimeout sees that first; the packet
\* stays with paho.
PublishTimesOut(p) == call[p] = "waiting" /\ Returns(p, "timeout")

---------------------------------------------------------------------------------
(* C2D messages: delivered at least once, acknowledged when the callback returns. *)

Arrive(m) ==
    /\ message[m] = "absent"
    /\ message' = [message EXCEPT ![m] = "queued"]
    /\ UNCHANGED <<main, session, handlers, flags, publishing, dispatched>>

\* Mistake: the callback starts a goroutine and returns.
DeliverLater(m) ==
    /\ status = "connected" /\ subscribed /\ message[m] = "queued"
    /\ message' = [message EXCEPT ![m] = "delivered"]
    /\ UNCHANGED <<main, session, handlers, flags, publishing, dispatched>>

\* The callback: a command is dispatched, anything else is logged.
Deliver(m) ==
    /\ status = "connected" /\ subscribed /\ message[m] = "queued"
    /\ message' = [message EXCEPT ![m] = "delivered"]
    /\ dispatched' = [dispatched EXCEPT ![m] = IF m \in Malformed THEN @ ELSE @ + 1]
    /\ UNCHANGED <<main, session, handlers, flags, publishing>>

Settle(m) ==
    /\ status = "connected" /\ message[m] = "delivered"
    /\ message' = [message EXCEPT ![m] = "settled"]
    /\ UNCHANGED <<main, session, handlers, flags, publishing, dispatched>>

---------------------------------------------------------------------------------
Startup == NoCertificate \/ StartConnect \/ ConnectFails \/ ConnectSucceeds
           \/ Register \/ SubscribeIfConnected
Shutdown == CloseClient \/ ClearFlag
Handler(n) == OnConnectFlag(n) \/ OnConnectSubscribe(n) \/ OnConnectionLost(n)
PublishStep(p) == CheckConnected(p) \/ HandOver(p) \/ HandOverRefused(p)
                  \/ PublishReturns(p) \/ PublishTimesOut(p)

\* The process ends when main returns.
Next ==
    \/ Startup \/ Signal \/ Shutdown
    \/ main # "done" /\ (Lose \/ Reconnect \/ Resume)
    \/ \E n \in Connections : main # "done" /\ Handler(n)
    \/ \E p \in Publishes : main # "done" /\ (PublishStep(p) \/ Transmit(p) \/ Acknowledge(p))
    \/ \E m \in Messages : main # "done" /\ (Arrive(m) \/ Deliver(m) \/ Settle(m))

Spec == Init /\ [][Next]_vars

\* Every goroutine that can run does, a publish that began returns, a first connect is
\* answered or refused, and a reconnect succeeds sooner or later: paho retries it.
\* Nothing makes a connection drop, data come or the signal arrive.
FairSpec ==
    /\ Spec
    /\ WF_vars(Startup)
    /\ WF_vars(Shutdown)
    /\ WF_vars(main # "done" /\ Reconnect)
    /\ \A n \in Connections : WF_vars(main # "done" /\ Handler(n))
    /\ \A p \in Publishes : WF_vars(main # "done" /\ call[p] # "new" /\ PublishStep(p))

---------------------------------------------------------------------------------
(* Properties.                                                             *)

\* Publish returns nil for telemetry the hub has received, whatever connections were lost
\* between the check, the send and the acknowledgement (lines 139-154).  The exception is
\* telemetry paho held while it had no connection or resumed: its success may come first,
\* but then paho still holds it, unless Disconnect took it away.
SuccessIsReceived ==
    \A p \in Publishes : call[p] = "ok" =>
        \/ copies[p] > 0
        \/ p \in interrupted /\ (packet[p] \in Stored \/ main \in {"flushed", "done"})

\* A C2D message leaves the hub's queue only after its command was dispatched, through
\* losses and redeliveries (lines 73-82).
SettledIsDispatched ==
    \A m \in Messages \ Malformed : message[m] = "settled" => dispatched[m] > 0

\* The strengthening: what the state of a packet says of its token, its call and the hub; a
\* message is dispatched when it is delivered; and the connection before main connects and
\* after it disconnects.
PacketInv ==
    \A p \in Publishes :
        /\ packet[p] \in {"sent", "acked"} => copies[p] > 0
        /\ packet[p] = "abandoned" => main \in {"flushed", "done"}
        /\ token[p] = "none" <=> packet[p] = "none"
        /\ token[p] = "open" => packet[p] \in Stored \cup {"abandoned"}
        /\ token[p] = "complete" => packet[p] = "acked" \/ p \in interrupted
        /\ token[p] = "error" => packet[p] = "abandoned" \/ p \in interrupted
        /\ call[p] \in {"new", "checked"} => packet[p] = "none"
        /\ call[p] = "ok" => token[p] = "complete"
        /\ call[p] = "error" => token[p] \in {"none", "error"}

MessageInv ==
    \A m \in Messages \ Malformed : message[m] \in {"delivered", "settled"} => dispatched[m] > 0

StatusInv ==
    /\ main = "connect" => status = "none"
    /\ main = "dial" => status = "connecting"
    /\ main \in {"flushed", "done"} => status \in {"none", "disconnected"}

LinkInv == TypeOK /\ PacketInv /\ MessageInv /\ StatusInv

\* To its users the client is a port: over losses, resends, redeliveries, late handlers and
\* the shutdown a publish gets one verdict, which the hub bears out unless the connection
\* was interrupted, a command is dispatched before it is settled, and after Disconnect
\* nothing is sent or delivered (lines 104-154).
Verdict(p) == IF call[p] \in {"ok", "error", "timeout"} THEN call[p] ELSE "pending"

Port == INSTANCE CloudPort
        WITH verdict <- [p \in Publishes |-> Verdict(p)],
             unsure <- interrupted,
             settled <- {m \in Messages : message[m] = "settled"},
             up <- IsConnected,
             closed <- main \in {"flushed", "done"}

CloudPortRefined == Port!Spec

\* Once main has registered its callback every connection gets its subscription, from the
\* handler that finds the callback or from main that finds the flag (lines 67-83, 120-134),
\* unless it is lost before or an older handler has reset the flag.
EveryConnectionSubscribes ==
    \A n \in Connections :
        registered /\ conn = n /\ status = "connected"
            ~> subscribed \/ conn # n \/ status # "connected" \/ overtaken

\* A connection that stays up is reported as connected (lines 63-66, 90-93), unless the
\* handlers of two connections ran in the opposite order of the connections.
ConnectionReported == <>[](status = "connected") => <>[]IsConnected \/ <>overtaken

\* A publish never blocks its caller for good (lines 144-151).
PublishReturnsAlways ==
    \A p \in Publishes : call[p] = "checked" ~> call[p] \in {"ok", "error", "timeout"} \/ main = "done"

---------------------------------------------------------------------------------
(* What the repository says of the link and the code does not do.          *)

\* main.go 189, 191: "Background reconnect loop handles failures", "background reconnect
\* active".
FirstConnectIsRetried == main = "serve" /\ status = "disconnected" ~> conn > 0 \/ main # "serve"
=================================================================================
