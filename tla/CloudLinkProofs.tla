----------------------------- MODULE CloudLinkProofs ----------------------------
(***************************************************************************)
(* Proofs about CloudLink, for any publishes, messages and number of       *)
(* connections: LinkInv is inductive, success means received unless the    *)
(* connection was interrupted, settled means dispatched, and the client    *)
(* implements CloudPort.                                                   *)
(***************************************************************************)
EXTENDS CloudLink, TLAPS

LEMMA InitLink == Init => LinkInv
<1> SUFFICES ASSUME Init PROVE LinkInv
  OBVIOUS
<1>1. TypeOK
  <2>1. 0 \in 0..MaxConnections
    BY LinkAssumption
  <2> QED
    BY <2>1 DEF Init, TypeOK, Stored
<1>2. PacketInv /\ MessageInv /\ StatusInv
  BY DEF Init, PacketInv, MessageInv, StatusInv
<1> QED
  BY <1>1, <1>2 DEF LinkInv

---------------------------------------------------------------------------------
(* What each group of steps leaves alone.                                        *)

LEMMA MainStep ==
  ASSUME TypeOK, StatusInv,
         NoCertificate \/ StartConnect \/ ConnectFails \/ ConnectSucceeds \/ Register
         \/ SubscribeIfConnected \/ Signal \/ ClearFlag
  PROVE  TypeOK' /\ StatusInv' /\ UNCHANGED <<publishing, commands>>
<1>1. CASE NoCertificate \/ Signal
  BY <1>1 DEF NoCertificate, Signal, TypeOK, StatusInv, session, handlers, flags, publishing,
              paho, commands
<1>2. CASE StartConnect \/ ConnectFails
  BY <1>2 DEF StartConnect, ConnectFails, TypeOK, StatusInv, handlers, flags, publishing, paho,
              commands
<1>3. CASE Register \/ ClearFlag
  BY <1>3 DEF Register, ClearFlag, TypeOK, StatusInv, session, handlers, publishing, paho,
              commands
<1>4. CASE SubscribeIfConnected
  BY <1>4 DEF SubscribeIfConnected, Subscribe, TypeOK, StatusInv, handlers, flags, publishing,
              paho, commands
<1>5. CASE ConnectSucceeds
  <2>1. conn' \in 0..MaxConnections
    BY <1>5, LinkAssumption DEF ConnectSucceeds, Establish, TypeOK
  <2> QED
    BY <1>5, <2>1 DEF ConnectSucceeds, Establish, TypeOK, StatusInv, flags, publishing, paho,
                      commands
<1> QED
  BY <1>1, <1>2, <1>3, <1>4, <1>5

LEMMA HandlerStep ==
  ASSUME TypeOK, StatusInv, NEW n \in Connections, Handler(n)
  PROVE  TypeOK' /\ StatusInv' /\ UNCHANGED <<main, status, publishing, commands>>
<1>1. CASE OnConnectFlag(n)
  BY <1>1 DEF OnConnectFlag, TypeOK, StatusInv, session, publishing, paho, commands
<1>2. CASE OnConnectSubscribe(n)
  BY <1>2 DEF OnConnectSubscribe, Subscribe, TypeOK, StatusInv, flags, publishing, paho, commands
<1>3. CASE OnConnectionLost(n)
  <2>1. overtaken' \in BOOLEAN
    BY <1>3 DEF OnConnectionLost, TypeOK
  <2> QED
    BY <1>3, <2>1 DEF OnConnectionLost, TypeOK, StatusInv, session, publishing, paho, commands
<1> QED
  BY <1>1, <1>2, <1>3 DEF Handler

\* Main's place in the shutdown is all PacketInv says of main: it only goes forward.
LEMMA ShutdownForward ==
  ASSUME [Next]_vars, main \in {"flushed", "done"}
  PROVE  main' \in {"flushed", "done"}
  BY DEF Next, Startup, NoCertificate, StartConnect, ConnectFails, ConnectSucceeds, Register,
         SubscribeIfConnected, Signal, Shutdown, CloseClient, ClearFlag, Lose, Reconnect, Resume,
         Handler, OnConnectFlag, OnConnectSubscribe, OnConnectionLost, PublishStep,
         CheckConnected, HandOver, HandOverRefused, PublishReturns, PublishTimesOut, Returns,
         Transmit, Acknowledge, Arrive, Deliver, Settle, vars

\* Losing the connection and resuming put packets back, and a loss messages; closing gives
\* packets up.
LEMMA ConnectionStep ==
  ASSUME LinkInv, Lose \/ CloseClient \/ Resume \/ (Reconnect /\ main # "done")
  PROVE  LinkInv'
<1> USE DEF LinkInv, Stored
<1>1. CASE Lose
  <2>1. token' \in [Publishes -> {"none", "open", "complete", "error"}]
    BY <1>1 DEF Lose, TypeOK
  <2>2. TypeOK'
    BY <1>1, <2>1 DEF Lose, TypeOK, flags
  <2>3. ASSUME NEW p \in Publishes
        PROVE  /\ token'[p] = token[p] \/ (token'[p] = "error" /\ token[p] = "open" /\ packet[p] = "queued")
               /\ packet'[p] = IF packet[p] \in Stored THEN "kept" ELSE packet[p]
               /\ p \in interrupted' <=> p \in interrupted \/ packet[p] \in Stored
    BY <1>1 DEF Lose, TypeOK
  <2>4. UNCHANGED <<main, call, copies>>
    BY <1>1 DEF Lose
  <2>5. PacketInv'
    BY <2>3, <2>4 DEF PacketInv, TypeOK
  <2>6. MessageInv' /\ StatusInv'
    BY <1>1 DEF Lose, TypeOK, MessageInv, StatusInv
  <2> QED
    BY <2>2, <2>5, <2>6
<1>2. CASE CloseClient
  <2>1. TypeOK'
    BY <1>2 DEF CloseClient, TypeOK, flags, handlers, commands
  <2>2. PacketInv'
    BY <1>2 DEF CloseClient, TypeOK, PacketInv
  <2>3. MessageInv' /\ StatusInv'
    BY <1>2 DEF CloseClient, TypeOK, MessageInv, StatusInv, commands
  <2> QED
    BY <2>1, <2>2, <2>3
<1>3. CASE Resume
  <2>1. TypeOK'
    BY <1>3 DEF Resume, TypeOK, flags, handlers, session, commands
  <2>2. PacketInv'
    BY <1>3 DEF Resume, TypeOK, PacketInv
  <2>3. MessageInv' /\ StatusInv'
    BY <1>3 DEF Resume, TypeOK, MessageInv, StatusInv, session, commands
  <2> QED
    BY <2>1, <2>2, <2>3
<1>4. CASE Reconnect /\ main # "done"
  <2>1. conn' \in 0..MaxConnections
    BY <1>4, LinkAssumption DEF Reconnect, Establish, TypeOK
  <2>2. TypeOK' /\ StatusInv' /\ UNCHANGED <<main, call, token, packet, interrupted, copies, commands>>
    BY <1>4, <2>1 DEF Reconnect, Establish, TypeOK, StatusInv, flags, commands
  <2> QED
    BY <2>2 DEF commands, PacketInv, MessageInv
<1> QED
  BY <1>1, <1>2, <1>3, <1>4

LEMMA PublishingStep ==
  ASSUME LinkInv, NEW p \in Publishes, PublishStep(p) \/ Transmit(p) \/ Acknowledge(p)
  PROVE  LinkInv'
<1> USE DEF LinkInv, Stored
<1>1. UNCHANGED <<main, session, handlers, flags, resuming, commands>>
  BY DEF PublishStep, CheckConnected, HandOver, HandOverRefused, PublishReturns,
         PublishTimesOut, Returns, Transmit, Acknowledge, paho
<1>2. MessageInv' /\ StatusInv'
  BY <1>1 DEF MessageInv, StatusInv, session, commands
<1>3. TypeOK' /\ PacketInv'
  <2>1. CASE CheckConnected(p) \/ HandOverRefused(p)
    BY <1>1, <2>1 DEF CheckConnected, HandOverRefused, TypeOK, PacketInv, session, handlers,
                      flags, paho, commands
  <2>2. CASE HandOver(p)
    BY <1>1, <2>2 DEF HandOver, TypeOK, PacketInv, session, handlers, flags, commands
  <2>3. CASE PublishReturns(p) \/ PublishTimesOut(p)
    BY <1>1, <2>3 DEF PublishReturns, PublishTimesOut, Returns, TypeOK, PacketInv, session,
                      handlers, flags, paho, commands
  <2>4. CASE Transmit(p)
    BY <1>1, <2>4 DEF Transmit, TypeOK, PacketInv, session, handlers, flags, commands
  <2>5. CASE Acknowledge(p)
    BY <1>1, <2>5 DEF Acknowledge, TypeOK, PacketInv, session, handlers, flags, commands
  <2> QED
    BY <2>1, <2>2, <2>3, <2>4, <2>5 DEF PublishStep
<1> QED
  BY <1>2, <1>3

LEMMA CommandStep ==
  ASSUME LinkInv, NEW m \in Messages, Arrive(m) \/ Deliver(m) \/ Settle(m)
  PROVE  LinkInv'
<1> USE DEF LinkInv
<1>1. UNCHANGED <<main, session, handlers, flags, publishing>>
  BY DEF Arrive, Deliver, Settle
<1>2. PacketInv' /\ StatusInv'
  BY <1>1 DEF PacketInv, StatusInv, session, publishing, paho
<1>3. TypeOK' /\ MessageInv'
  BY <1>1 DEF Arrive, Deliver, Settle, TypeOK, MessageInv, session, handlers, flags,
              publishing, paho
<1> QED
  BY <1>2, <1>3

LEMMA LinkStep == LinkInv /\ [Next]_vars => LinkInv'
<1> SUFFICES ASSUME LinkInv, [Next]_vars PROVE LinkInv'
  OBVIOUS
<1>0. main \in {"flushed", "done"} => main' \in {"flushed", "done"}
  BY ShutdownForward
<1>1. CASE Startup \/ Signal \/ ClearFlag
  <2>1. TypeOK' /\ StatusInv' /\ UNCHANGED <<publishing, commands>>
    BY <1>1, MainStep DEF Startup, LinkInv
  <2> QED
    BY <1>0, <2>1 DEF LinkInv, PacketInv, MessageInv, publishing, paho, commands
<1>2. CASE Lose \/ CloseClient \/ (main # "done" /\ (Reconnect \/ Resume))
  BY <1>2, ConnectionStep
<1>3. ASSUME NEW n \in Connections, Handler(n) PROVE LinkInv'
  <2>1. TypeOK' /\ StatusInv' /\ UNCHANGED <<publishing, commands>>
    BY <1>3, HandlerStep DEF LinkInv
  <2> QED
    BY <1>0, <2>1 DEF LinkInv, PacketInv, MessageInv, publishing, paho, commands
<1>4. ASSUME NEW p \in Publishes, PublishStep(p) \/ Transmit(p) \/ Acknowledge(p) PROVE LinkInv'
  BY <1>4, PublishingStep
<1>5. ASSUME NEW m \in Messages, Arrive(m) \/ Deliver(m) \/ Settle(m) PROVE LinkInv'
  BY <1>5, CommandStep
<1>6. CASE UNCHANGED vars
  BY <1>6 DEF vars, session, handlers, flags, publishing, paho, commands, LinkInv, TypeOK,
              PacketInv, MessageInv, StatusInv
<1> QED
  BY <1>1, <1>2, <1>3, <1>4, <1>5, <1>6 DEF Next, Shutdown

---------------------------------------------------------------------------------
(* Theorems.                                                                     *)

\* The invariant holds through losses, resends, late handlers and the shutdown (lines 31-171).
THEOREM LinkInvariance == Spec => []LinkInv
  BY InitLink, LinkStep, PTL DEF Spec

\* No variable of the link leaves its type.
THEOREM LinkTypeCorrect == Spec => []TypeOK
<1>1. LinkInv => TypeOK
  BY DEF LinkInv
<1> QED
  BY <1>1, LinkInvariance, PTL

\* Publish returns nil for a payload the hub has (lines 139-154), or that paho held through an
\* interruption of the connection and holds still, Disconnect aside.
THEOREM SuccessMeansReceived == Spec => []SuccessIsReceived
<1>1. LinkInv => SuccessIsReceived
  BY DEF LinkInv, TypeOK, PacketInv, SuccessIsReceived
<1> QED
  BY <1>1, LinkInvariance, PTL

\* A C2D message is settled only after its command was dispatched (lines 73-82).
THEOREM SettledMeansDispatched == Spec => []SettledIsDispatched
<1>1. LinkInv => SettledIsDispatched
  BY DEF LinkInv, MessageInv, SettledIsDispatched
<1> QED
  BY <1>1, LinkInvariance, PTL

\* What publisher, engine and main see of the client is a CloudPort (lines 104-154): between
\* the steps that settle a verdict, dispatch, settle or close, only the connection changes.
THEOREM LinkImplementsPort == Spec => CloudPortRefined
<1>1. Init => Port!Init
  <2> SUFFICES ASSUME Init PROVE Port!Init
    OBVIOUS
  <2>1. \A p \in Publishes : Verdict(p) = "pending"
    BY DEF Init, Verdict
  <2>2. {m \in Messages : message[m] = "settled"} = {} /\ ~IsConnected
    BY DEF Init, IsConnected
  <2> QED
    BY <2>1, <2>2 DEF Init, Port!Init
<1>2. LinkInv /\ [Next]_vars => [Port!Next]_(Port!vars)
  <2> SUFFICES ASSUME LinkInv, [Next]_vars PROVE [Port!Next]_(Port!vars)
    OBVIOUS
  <2> DEFINE closed == main \in {"flushed", "done"}
             settled == {m \in Messages : message[m] = "settled"}
             verdict == [p \in Publishes |-> Verdict(p)]
  <2>0. /\ closed => ~IsConnected
        /\ connected \in BOOLEAN
    BY DEF LinkInv, TypeOK, StatusInv, IsConnected, ClientConnected
  <2>1. ASSUME UNCHANGED <<call, interrupted, copies, commands>>, closed' = closed,
               closed => ~IsConnected'
        PROVE  [Port!Next]_(Port!vars)
    <3>1. verdict' = verdict /\ settled' = settled
      BY <2>1 DEF Verdict, commands
    <3>2. CASE IsConnected' = IsConnected
      BY <2>1, <3>1, <3>2 DEF Port!vars, commands
    <3>3. CASE IsConnected' # IsConnected
      <4>1. ~closed /\ IsConnected' = ~IsConnected
        BY <2>0, <2>1, <3>3 DEF IsConnected, ClientConnected
      <4> QED
        BY <2>1, <3>1, <4>1 DEF Port!Change, Port!Next, commands
    <3> QED
      BY <3>2, <3>3
  <2>2. CASE Startup \/ Signal \/ ClearFlag
    <3>1. UNCHANGED <<publishing, commands>> /\ StatusInv'
      BY <2>2, MainStep DEF Startup, LinkInv
    <3>2. closed' = closed
      BY <2>2 DEF Startup, NoCertificate, StartConnect, ConnectFails, ConnectSucceeds, Register,
                  SubscribeIfConnected, Signal, ClearFlag
    <3>3. closed => ~IsConnected'
      BY <3>1, <3>2 DEF StatusInv, IsConnected, ClientConnected
    <3> QED
      BY <2>1, <3>1, <3>2, <3>3 DEF publishing, paho
  <2>3. CASE CloseClient
    <3>1. ~closed /\ closed' /\ ~IsConnected' /\ UNCHANGED <<call, interrupted, copies, commands>>
      BY <2>3 DEF CloseClient, IsConnected, ClientConnected
    <3>2. verdict' = verdict /\ settled' = settled
      BY <3>1 DEF Verdict, commands
    <3> QED
      BY <3>1, <3>2 DEF Port!Close, Port!Next, commands
  <2>4. ASSUME Lose \/ Resume, main # "done" PROVE [Port!Next]_(Port!vars)
    <3>1. /\ UNCHANGED <<main, connected, call, copies, dispatched>> /\ ~closed
          /\ interrupted' = interrupted \cup {p \in Publishes : packet[p] \in Stored}
      BY <2>4 DEF Lose, Resume, flags, commands, LinkInv, StatusInv
    <3>2. IsConnected' = IsConnected
      BY <2>4, <3>1 DEF Lose, Resume, session, IsConnected, ClientConnected
    <3>3. settled' = settled
      BY <2>4 DEF Lose, Resume, commands, LinkInv, TypeOK
    <3>4. verdict' = verdict
      BY <3>1 DEF Verdict
    <3>5. \E met \in SUBSET {p \in Publishes : Port!Open(p)} : interrupted' = interrupted \cup met
      <4> DEFINE met == {p \in Publishes : packet[p] \in Stored} \ interrupted
      <4>1. ASSUME NEW p \in met PROVE Verdict(p) \in {"pending", "timeout"}
        BY <4>1 DEF LinkInv, TypeOK, PacketInv, Stored, Verdict
      <4>2. met \subseteq {p \in Publishes : Port!Open(p)}
        BY <4>1 DEF Port!Open
      <4>3. interrupted' = interrupted \cup met
        BY <3>1
      <4> QED
        BY <4>2, <4>3
    <3>6. Port!Interrupt
      BY <3>1, <3>2, <3>3, <3>4, <3>5 DEF Port!Interrupt
    <3> QED
      BY <3>6 DEF Port!Next
  <2>5. CASE main # "done" /\ Reconnect
    <3>1. UNCHANGED <<main, call, interrupted, copies, commands>> /\ ~closed
      BY <2>5 DEF Reconnect, Establish, LinkInv, StatusInv
    <3> QED
      BY <2>1, <3>1
  <2>6. ASSUME NEW n \in Connections, Handler(n) PROVE [Port!Next]_(Port!vars)
    <3>1. UNCHANGED <<main, status, publishing, commands>>
      BY <2>6, HandlerStep DEF LinkInv
    <3>2. closed => ~IsConnected'
      BY <3>1 DEF LinkInv, StatusInv, IsConnected, ClientConnected
    <3> QED
      BY <2>1, <3>1, <3>2 DEF publishing, paho
  <2>7. ASSUME NEW p \in Publishes, main # "done", PublishStep(p) \/ Transmit(p) \/ Acknowledge(p)
        PROVE  [Port!Next]_(Port!vars)
    <3>1. /\ UNCHANGED <<main, session, connected, commands>>
          /\ IsConnected' = IsConnected /\ closed' = closed /\ settled' = settled
      BY <2>7 DEF PublishStep, CheckConnected, HandOver, HandOverRefused, PublishReturns,
                  PublishTimesOut, Returns, Transmit, Acknowledge, flags, session, commands,
                  IsConnected, ClientConnected
    <3>2. CASE Transmit(p)
      <4>1. ~closed
        BY <3>2 DEF Transmit, LinkInv, StatusInv
      <4>2. Verdict(p) \in {"pending", "timeout"} \/ p \in interrupted
        BY <3>2 DEF Transmit, LinkInv, TypeOK, PacketInv, Verdict
      <4>3. UNCHANGED interrupted /\ copies' = [copies EXCEPT ![p] = @ + 1] /\ verdict' = verdict
        BY <3>2 DEF Transmit, Verdict
      <4>4. Port!Receive(p)
        BY <3>1, <4>1, <4>2, <4>3 DEF Port!Receive, Port!Open, commands
      <4> QED
        BY <4>4 DEF Port!Next
    <3>3. CASE Acknowledge(p)
      BY <3>1, <3>3 DEF Acknowledge, Verdict, Port!vars, commands
    <3>4. ASSUME NEW r, call[p] \in {"new", "checked", "waiting"},
                 r \in {"checked", "waiting", "ok", "error", "timeout"},
                 call' = [call EXCEPT ![p] = r], UNCHANGED <<interrupted, copies>>,
                 r = "ok" => copies[p] > 0 \/ p \in interrupted
          PROVE  [Port!Next]_(Port!vars)
      <4>1. Verdict(p) = "pending"
        BY <3>4 DEF Verdict
      <4>2. CASE r \in {"checked", "waiting"}
        <5>1. verdict' = verdict
          BY <3>4, <4>1, <4>2 DEF Verdict, LinkInv, TypeOK
        <5> QED
          BY <3>1, <3>4, <5>1 DEF Port!vars, commands
      <4>3. CASE r \in {"ok", "error", "timeout"}
        <5>1. verdict' = [verdict EXCEPT ![p] = r]
          BY <3>4, <4>3 DEF Verdict, LinkInv, TypeOK
        <5>2. Port!Return(p, r)
          BY <3>1, <3>4, <4>1, <5>1 DEF Port!Return, commands
        <5> QED
          BY <4>3, <5>2 DEF Port!Next
      <4> QED
        BY <3>4, <4>2, <4>3
    <3>5. CASE CheckConnected(p) \/ HandOverRefused(p) \/ PublishTimesOut(p)
      BY <3>4, <3>5 DEF CheckConnected, HandOverRefused, PublishTimesOut, Returns, paho
    <3>6. CASE PublishReturns(p)
      <4>1. token[p] = "complete" => copies[p] > 0 \/ p \in interrupted
        BY DEF LinkInv, PacketInv
      <4> QED
        BY <3>4, <3>6, <4>1 DEF PublishReturns, Returns, paho
    <3>7. CASE HandOver(p)
      <4>1. Verdict(p) = "pending" /\ verdict' = verdict /\ UNCHANGED copies
        BY <3>7 DEF HandOver, Verdict, LinkInv, TypeOK
      <4>2. ~closed
        BY <3>7 DEF HandOver, ClientConnected, LinkInv, StatusInv
      <4>3. CASE UNCHANGED interrupted
        BY <3>1, <4>1, <4>3 DEF Port!vars, commands
      <4>4. CASE interrupted' = interrupted \cup {p}
        <5>1. {p} \in SUBSET {q \in Publishes : Port!Open(q)}
          BY <4>1 DEF Port!Open
        <5>2. Port!Interrupt
          BY <3>1, <4>1, <4>2, <4>4, <5>1 DEF Port!Interrupt, commands
        <5> QED
          BY <5>2 DEF Port!Next
      <4> QED
        BY <3>7, <4>3, <4>4 DEF HandOver
    <3> QED
      BY <2>7, <3>2, <3>3, <3>5, <3>6, <3>7 DEF PublishStep
  <2>8. ASSUME NEW m \in Messages, main # "done", Arrive(m) \/ Deliver(m) \/ Settle(m)
        PROVE  [Port!Next]_(Port!vars)
    <3>1. /\ UNCHANGED <<main, call, interrupted, copies>>
          /\ IsConnected' = IsConnected /\ closed' = closed /\ verdict' = verdict
      BY <2>8 DEF Arrive, Deliver, Settle, flags, session, publishing, paho, IsConnected,
                  ClientConnected, Verdict
    <3>2. CASE Arrive(m)
      <4>1. settled' = settled /\ dispatched' = dispatched
        BY <3>2 DEF Arrive, LinkInv, TypeOK
      <4> QED
        BY <3>1, <4>1 DEF Port!vars
    <3>3. CASE Deliver(m)
      <4>1. ~closed /\ m \notin settled /\ settled' = settled
        BY <3>3 DEF Deliver, LinkInv, TypeOK, StatusInv
      <4>2. CASE m \in Malformed
        <5>1. dispatched' = dispatched
          BY <3>3, <4>2 DEF Deliver, LinkInv, TypeOK
        <5> QED
          BY <3>1, <4>1, <5>1 DEF Port!vars
      <4>3. CASE m \notin Malformed
        <5>1. dispatched' = [dispatched EXCEPT ![m] = @ + 1]
          BY <3>3, <4>3 DEF Deliver
        <5>2. Port!Dispatch(m)
          BY <3>1, <4>1, <4>3, <5>1 DEF Port!Dispatch
        <5> QED
          BY <5>2 DEF Port!Next
      <4> QED
        BY <4>2, <4>3
    <3>4. CASE Settle(m)
      <4>1. ~closed /\ m \notin settled /\ settled' = settled \cup {m} /\ dispatched' = dispatched
        BY <3>4 DEF Settle, LinkInv, TypeOK, StatusInv
      <4>2. m \in Malformed \/ dispatched[m] > 0
        BY <3>4 DEF Settle, LinkInv, MessageInv
      <4>3. Port!Settle(m)
        BY <3>1, <4>1, <4>2 DEF Port!Settle
      <4> QED
        BY <4>3 DEF Port!Next
    <3> QED
      BY <2>8, <3>2, <3>3, <3>4
  <2>9. CASE UNCHANGED vars
    <3>1. UNCHANGED <<main, status, connected, call, interrupted, copies, commands>>
      BY <2>9 DEF vars, session, flags, publishing, paho
    <3>2. closed' = closed /\ IsConnected' = IsConnected
      BY <3>1 DEF IsConnected, ClientConnected
    <3> QED
      BY <2>0, <2>1, <3>1, <3>2
  <2> QED
    BY <2>2, <2>3, <2>4, <2>5, <2>6, <2>7, <2>8, <2>9 DEF Next, Shutdown
<1> QED
  BY <1>1, <1>2, LinkInvariance, PTL DEF Spec, CloudPortRefined, Port!Spec
=================================================================================
