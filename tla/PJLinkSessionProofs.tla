--------------------------- MODULE PJLinkSessionProofs --------------------------
(***************************************************************************)
(* Proofs about PJLinkSession, for every frame limit: SessionInv is        *)
(* inductive, a response is a whole frame, and a call of SendCommand       *)
(* implements DeviceExchange.                                              *)
(***************************************************************************)
EXTENDS PJLinkSession, TLAPS

\* Nothing is dialled, read or written at first.
LEMMA InitSession == Init => SessionInv
<1> SUFFICES ASSUME Init PROVE SessionInv
  OBVIOUS
<1>1. TypeOK
  <2>1. 0 \in 0..(MaxFrame + 1) /\ Len(<<>>) <= MaxFrame
    BY FrameAssumption
  <2>2. <<>> \in Seq(Bytes)
    OBVIOUS
  <2> QED
    BY <2>1, <2>2 DEF Init, TypeOK
<1>2. ResponseIsAFrame /\ FrameInv
  BY DEF Init, ResponseIsAFrame, FrameInv
<1>3. CallInv
  BY DEF Init, CallInv
<1>4. PeerInv
  BY DEF Init, PeerInv
<1> QED
  BY <1>1, <1>2, <1>3, <1>4 DEF SessionInv

---------------------------------------------------------------------------------
(* Every step keeps the types.                                                   *)

LEMMA TypeStep == TypeOK /\ [Next]_vars => TypeOK'
<1> SUFFICES ASSUME TypeOK, [Next]_vars PROVE TypeOK'
  OBVIOUS
<1> USE DEF TypeOK
<1>1. CASE DialFails \/ EndOfStream \/ ConnectionReset \/ ReadTimesOut \/ WriteFails
  BY <1>1 DEF DialFails, EndOfStream, ConnectionReset, ReadTimesOut, WriteFails, Returns,
              ReadError, Categorize, remote
<1>2. CASE DialSucceeds \/ SetDeadlineFails
  BY <1>2 DEF DialSucceeds, SetDeadlineFails, Returns
<1>3. CASE ReadByte
  <2>1. Head(wire) \in Bytes /\ Tail(wire) \in Seq(Bytes)
    BY <1>3 DEF ReadByte
  <2>2. buf' \in Seq(Bytes) /\ Len(buf') = Len(buf) + 1 /\ Len(buf) < MaxFrame
    BY <1>3, <2>1 DEF ReadByte
  <2>3. Len(buf') <= MaxFrame
    BY <2>2, FrameAssumption
  <2> QED
    BY <1>3, <2>1, <2>2, <2>3 DEF ReadByte, remote
<1>4. CASE ReadGreeting
  <2>1. Tail(wire) \in Seq(Bytes)
    BY <1>4 DEF ReadGreeting
  <2>2. /\ client' \in {"write", "done"}
        /\ result' \in {"none", "answered", "timeout", "network", "unclassified"}
    BY <1>4 DEF ReadGreeting, Returns
  <2>3. buf' \in Seq(Bytes) /\ Len(buf') <= MaxFrame
    BY <1>4, FrameAssumption DEF ReadGreeting
  <2> QED
    BY <1>4, <2>1, <2>2, <2>3 DEF ReadGreeting, remote
<1>5. CASE ReadResponse
  <2>1. Tail(wire) \in Seq(Bytes)
    BY <1>5 DEF ReadResponse
  <2>2. buf' \in Seq(Bytes) /\ Len(buf') = Len(buf) + 1 /\ Len(buf) < MaxFrame
    BY <1>5 DEF ReadResponse, Bytes
  <2>3. Len(buf') <= MaxFrame
    BY <2>2, FrameAssumption
  <2> QED
    BY <1>5, <2>1, <2>2, <2>3 DEF ReadResponse, Returns, remote
<1>6. CASE FrameTooLong \/ WritePayload \/ DeadlinePasses
  BY <1>6 DEF FrameTooLong, WritePayload, DeadlinePasses, Returns, remote
<1>7. CASE SendByte
  <2>1. wire' \in Seq(Bytes)
    BY <1>7 DEF SendByte, Bytes
  <2>2. frame' \in 0..(MaxFrame + 1)
    BY <1>7, FrameAssumption DEF SendByte
  <2> QED
    BY <1>7, <2>1, <2>2 DEF SendByte, local
<1>8. CASE SendCR
  <2>1. wire' \in Seq(Bytes)
    BY <1>8 DEF SendCR, Bytes
  <2>2. frame' \in 0..(MaxFrame + 1)
    BY <1>8, FrameAssumption DEF SendCR
  <2>3. device' \in {"listens", "closed"}
    BY <1>8 DEF SendCR
  <2> QED
    BY <1>8, <2>1, <2>2, <2>3 DEF SendCR, local
<1>9. CASE Execute \/ HangUp \/ UNCHANGED vars
  BY <1>9 DEF Execute, HangUp, vars, local, remote
<1> QED
  BY <1>1, <1>2, <1>3, <1>4, <1>5, <1>6, <1>7, <1>8, <1>9
     DEF Next, ClientStep, DeviceStep

---------------------------------------------------------------------------------
(* Reading.                                                                      *)

\* A frame under construction gets a byte that is no carriage return, or its end.
LEMMA FrameStep ==
  ASSUME TypeOK, FrameInv, CallInv, ResponseIsAFrame, [Next]_vars
  PROVE  FrameInv' /\ ResponseIsAFrame'
<1>1. CASE ReadByte
  <2>1. buf' = Append(buf, Head(wire)) /\ Head(wire) # "CR" /\ client # "done"
    BY <1>1 DEF ReadByte, Reading
  <2>2. \A i \in 1..Len(buf') : buf'[i] # "CR"
    BY <2>1 DEF FrameInv, TypeOK
  <2>3. result' # "answered"
    BY <1>1 DEF ReadByte, Reading, CallInv
  <2> QED
    BY <2>2, <2>3 DEF FrameInv, ResponseIsAFrame
<1>2. CASE ReadGreeting
  <2>1. buf' = <<>>
    BY <1>2 DEF ReadGreeting
  <2>2. result' # "answered"
    BY <1>2 DEF ReadGreeting, Returns, CallInv
  <2> QED
    BY <2>1, <2>2 DEF FrameInv, ResponseIsAFrame
<1>3. CASE ReadResponse
  <2>1. buf' = Append(buf, "CR") /\ client = "response" /\ client' = "done"
    BY <1>3 DEF ReadResponse, Returns
  <2>2. \A i \in 1..Len(buf) : buf[i] # "CR"
    BY <2>1 DEF FrameInv
  <2>3. /\ buf' # <<>>
        /\ \A i \in 1..Len(buf') : buf'[i] = "CR" <=> i = Len(buf')
    BY <2>1, <2>2 DEF TypeOK
  <2> QED
    BY <2>1, <2>3 DEF FrameInv, ResponseIsAFrame
<1>4. CASE DialFails \/ SetDeadlineFails \/ FrameTooLong \/ ReadTimesOut \/ EndOfStream
           \/ ConnectionReset \/ WriteFails
  <2>1. client' = "done" /\ result' # "answered"
    BY <1>4 DEF DialFails, SetDeadlineFails, FrameTooLong, ReadTimesOut, EndOfStream,
                ConnectionReset, WriteFails, Returns, ReadError, Categorize
  <2> QED
    BY <2>1 DEF FrameInv, ResponseIsAFrame
<1>5. CASE DialSucceeds \/ WritePayload
  <2>1. buf' = buf /\ result' = result
    BY <1>5 DEF DialSucceeds, WritePayload
  <2>2. \A i \in 1..Len(buf) : buf[i] # "CR"
    BY <1>5 DEF DialSucceeds, WritePayload, FrameInv
  <2> QED
    BY <2>1, <2>2 DEF FrameInv, ResponseIsAFrame
<1>6. CASE DeadlinePasses \/ SendByte \/ SendCR \/ Execute \/ HangUp \/ UNCHANGED vars
  <2>1. UNCHANGED <<client, buf, result>>
    BY <1>6 DEF DeadlinePasses, SendByte, SendCR, Execute, HangUp, vars, local
  <2> QED
    BY <2>1 DEF FrameInv, ResponseIsAFrame
<1> QED
  BY <1>1, <1>2, <1>3, <1>4, <1>5, <1>6 DEF Next, ClientStep, DeviceStep
---------------------------------------------------------------------------------
(* The call and its peer.                                                        *)

\* A result is set once, when the call is done, and the payload is written in one place.
LEMMA CallStep == ASSUME TypeOK, CallInv, [Next]_vars PROVE CallInv'
<1>1. CASE DialFails \/ SetDeadlineFails \/ FrameTooLong \/ ReadTimesOut \/ EndOfStream
           \/ ConnectionReset \/ WriteFails
  BY <1>1 DEF DialFails, SetDeadlineFails, FrameTooLong, ReadTimesOut, EndOfStream,
              ConnectionReset, WriteFails, Returns, ReadError, Categorize, CallInv, Reading,
              remote
<1>2. CASE DialSucceeds \/ ReadByte \/ ReadGreeting \/ ReadResponse \/ WritePayload
  BY <1>2 DEF DialSucceeds, ReadByte, ReadGreeting, ReadResponse, WritePayload, Returns,
              CallInv, Reading
<1>3. CASE DeadlinePasses \/ SendByte \/ SendCR \/ Execute \/ HangUp \/ UNCHANGED vars
  BY <1>3 DEF DeadlinePasses, SendByte, SendCR, Execute, HangUp, vars, local, CallInv
<1> QED
  BY <1>1, <1>2, <1>3 DEF Next, ClientStep, DeviceStep

\* What taking the head of the wire leaves of its carriage returns.
LEMMA TailOfWire ==
  ASSUME TypeOK, wire # <<>>, wire' = Tail(wire)
  PROVE  /\ NoCR => NoCR'
         /\ OneCR => OneCR'
         /\ OneCR /\ Head(wire) = "CR" => NoCR'
<1>1. /\ Len(wire) \in Nat /\ Len(wire) > 0
      /\ Len(wire') = Len(wire) - 1
      /\ \A i \in 1..Len(wire') : wire'[i] = wire[i + 1]
  BY DEF TypeOK
<1>2. \A i \in 1..Len(wire') : i + 1 \in 1..Len(wire) /\ i + 1 # 1
  BY <1>1
<1>3. wire[1] = Head(wire) /\ 1 \in 1..Len(wire)
  BY <1>1
<1>4. NoCR => NoCR'
  BY <1>1, <1>2 DEF NoCR
<1>5. ASSUME OneCR, NEW i \in 1..Len(wire'), NEW j \in 1..Len(wire'),
             wire'[i] = "CR", wire'[j] = "CR"
      PROVE  i = j
  <2>1. i + 1 = j + 1
    BY <1>1, <1>2, <1>5 DEF OneCR
  <2> QED
    BY <2>1, <1>1
<1>6. OneCR /\ Head(wire) = "CR" => NoCR'
  BY <1>1, <1>2, <1>3 DEF OneCR, NoCR
<1> QED
  BY <1>4, <1>5, <1>6 DEF OneCR

\* What a byte more on the wire adds to them.
LEMMA LongerWire ==
  ASSUME TypeOK, NEW b \in Bytes, wire' = Append(wire, b)
  PROVE  /\ NoCR => OneCR'
         /\ b # "CR" => (NoCR => NoCR') /\ (OneCR => OneCR')
<1>1. /\ Len(wire) \in Nat
      /\ Len(wire') = Len(wire) + 1
      /\ \A i \in 1..Len(wire) : wire'[i] = wire[i]
      /\ wire'[Len(wire) + 1] = b
  BY DEF TypeOK
<1>2. \A i \in 1..Len(wire') : i \in 1..Len(wire) \/ i = Len(wire) + 1
  BY <1>1
<1> QED
  BY <1>1, <1>2 DEF NoCR, OneCR

\* Only the greeting is ended before the payload, only an executed payload is answered.
LEMMA PeerStep == ASSUME TypeOK, CallInv, PeerInv, [Next]_vars PROVE PeerInv'
<1> USE DEF PeerInv
<1>1. CASE DialFails \/ FrameTooLong \/ ReadTimesOut \/ EndOfStream \/ ConnectionReset
           \/ WriteFails
  <2>1. client' = "done" /\ UNCHANGED <<wire, device, executed, written>>
    BY <1>1 DEF DialFails, FrameTooLong, ReadTimesOut, EndOfStream, ConnectionReset,
                WriteFails, Returns, remote
  <2> QED
    BY <2>1 DEF NoCR, OneCR
<1>2. CASE DialSucceeds \/ SetDeadlineFails
  <2>1. wire' = <<>> /\ ~written' /\ ~executed' /\ device' = "greets"
        /\ client' \in {"greeting", "done"}
    BY <1>2 DEF DialSucceeds, SetDeadlineFails, Returns, CallInv
  <2>2. NoCR' /\ OneCR'
    BY <2>1 DEF NoCR, OneCR
  <2> QED
    BY <2>1, <2>2
<1>3. CASE ReadByte
  <2>1. wire # <<>> /\ wire' = Tail(wire) /\ UNCHANGED <<client, device, executed, written>>
    BY <1>3 DEF ReadByte, remote
  <2> QED
    BY <2>1, TailOfWire
<1>4. CASE ReadGreeting
  <2>1. wire # <<>> /\ wire' = Tail(wire) /\ Head(wire) = "CR" /\ client = "greeting"
        /\ client' \in {"write", "done"} /\ UNCHANGED <<device, executed, written>>
    BY <1>4 DEF ReadGreeting, Returns, remote
  <2>2. ~NoCR
    BY <2>1 DEF NoCR, TypeOK
  <2>3. NoCR' /\ device \notin {"greets", "away"}
    BY <2>1, <2>2, TailOfWire
  <2> QED
    BY <2>1, <2>3
<1>5. CASE ReadResponse
  <2>1. wire # <<>> /\ wire' = Tail(wire) /\ client' = "done" /\ client = "response"
        /\ UNCHANGED <<device, executed, written>>
    BY <1>5 DEF ReadResponse, Returns, remote
  <2> QED
    BY <2>1, TailOfWire
<1>6. CASE WritePayload
  <2>1. client = "write" /\ client' = "response" /\ written'
        /\ UNCHANGED <<wire, device, executed>>
    BY <1>6 DEF WritePayload, remote
  <2> QED
    BY <2>1 DEF NoCR, OneCR
<1>7. CASE SendByte
  <2>1. PICK b \in {"P", "x"} : wire' = Append(wire, b)
    BY <1>7 DEF SendByte
  <2>2. UNCHANGED <<client, device, executed, written>> /\ device # "away"
    BY <1>7 DEF SendByte, local
  <2>3. (NoCR => NoCR') /\ (OneCR => OneCR')
    BY <2>1, LongerWire DEF Bytes
  <2> QED
    BY <2>2, <2>3
<1>8. CASE SendCR
  <2>1. wire' = Append(wire, "CR") /\ UNCHANGED <<client, executed, written>>
    BY <1>8 DEF SendCR, local
  <2>2. NoCR => OneCR'
    BY <2>1, LongerWire DEF Bytes
  <2>3. CASE device = "greets"
    <3>1. device' = "listens"
      BY <1>8, <2>3 DEF SendCR
    <3> QED
      BY <2>1, <2>2, <2>3, <3>1
  <2>4. CASE device = "answers"
    <3>1. device' = "closed" /\ executed /\ written
      BY <1>8, <2>4 DEF SendCR
    <3>2. client \notin {"dial", "greeting", "write"}
      BY <3>1 DEF CallInv
    <3> QED
      BY <2>1, <3>1, <3>2
  <2> QED
    BY <1>8, <2>3, <2>4 DEF SendCR
<1>9. CASE Execute
  <2>1. written /\ executed' /\ device' = "answers" /\ device = "listens"
        /\ UNCHANGED <<client, wire, written>>
    BY <1>9 DEF Execute, local
  <2> QED
    BY <2>1 DEF CallInv, NoCR, OneCR
<1>10. CASE HangUp
  <2>1. device' = "closed" /\ device # "away" /\ UNCHANGED <<client, wire, written, executed>>
    BY <1>10 DEF HangUp, local
  <2> QED
    BY <2>1 DEF NoCR, OneCR
<1>11. CASE DeadlinePasses \/ UNCHANGED vars
  <2>1. UNCHANGED <<client, wire, device, written, executed>>
    BY <1>11 DEF DeadlinePasses, vars, local, remote
  <2> QED
    BY <2>1 DEF NoCR, OneCR
<1> QED
  BY <1>1, <1>2, <1>3, <1>4, <1>5, <1>6, <1>7, <1>8, <1>9, <1>10, <1>11
     DEF Next, ClientStep, DeviceStep

LEMMA SessionStep == SessionInv /\ [Next]_vars => SessionInv'
  BY TypeStep, FrameStep, CallStep, PeerStep DEF SessionInv

---------------------------------------------------------------------------------
(* Theorems.                                                                     *)

\* The invariant holds throughout a call, whatever the peer sends (lines 34-123).
THEOREM SessionInvariance == Spec => []SessionInv
  BY InitSession, SessionStep, PTL DEF Spec

\* No variable leaves its type: readUntilCR never holds more than its limit (line 106).
THEOREM SessionTypeCorrect == Spec => []TypeOK
<1>1. SessionInv => TypeOK
  BY DEF SessionInv
<1> QED
  BY <1>1, SessionInvariance, PTL

\* A response is one frame and all of it (lines 102-123).
THEOREM ResponsesAreFrames == Spec => []ResponseIsAFrame
<1>1. SessionInv => ResponseIsAFrame
  BY DEF SessionInv
<1> QED
  BY <1>1, SessionInvariance, PTL

\* SendCommand is one exchange with the device (lines 34-100).
THEOREM CallIsOneExchange == Spec => ExchangeRefined
<1>1. Init => Exchange!Init
  BY DEF Init, Exchange!Init
<1>2. SessionInv /\ [Next]_vars => [Exchange!Next]_(Exchange!vars)
  <2> SUFFICES ASSUME TypeOK, CallInv, PeerInv, [Next]_vars
               PROVE  [Exchange!Next]_(Exchange!vars)
    BY DEF SessionInv
  <2>1. CASE DialFails \/ FrameTooLong \/ ReadTimesOut \/ EndOfStream \/ ConnectionReset
             \/ WriteFails
    <3>1. result = "none" /\ result' \in {"timeout", "network"}
          /\ UNCHANGED <<written, executed>>
      BY <2>1 DEF DialFails, FrameTooLong, ReadTimesOut, EndOfStream, ConnectionReset,
                  WriteFails, Returns, ReadError, Categorize, Reading, CallInv, remote
    <3> QED
      BY <3>1 DEF Exchange!Fail, Exchange!Next
  <2>2. CASE SetDeadlineFails
    <3>1. result = "none" /\ ~written /\ result' = "unclassified"
          /\ UNCHANGED <<written, executed>>
      BY <2>2 DEF SetDeadlineFails, Returns, CallInv
    <3> QED
      BY <3>1 DEF Exchange!Refuse, Exchange!Next
  <2>3. CASE ReadGreeting
    <3>1. result = "none" /\ result' \in {"none", "network"} /\ UNCHANGED <<written, executed>>
      BY <2>3 DEF ReadGreeting, Returns, CallInv, remote
    <3> QED
      BY <3>1 DEF Exchange!Fail, Exchange!Next, Exchange!vars
  <2>4. CASE ReadResponse
    <3>1. client = "response" /\ ~NoCR
      BY <2>4 DEF ReadResponse, NoCR, TypeOK
    <3>2. result = "none" /\ executed /\ result' = "answered"
          /\ UNCHANGED <<written, executed>>
      BY <2>4, <3>1 DEF ReadResponse, Returns, CallInv, PeerInv, remote
    <3> QED
      BY <3>2 DEF Exchange!Answer, Exchange!Next
  <2>5. CASE WritePayload
    <3>1. result = "none" /\ ~written /\ written' = TRUE /\ UNCHANGED <<result, executed>>
      BY <2>5 DEF WritePayload, CallInv, remote
    <3> QED
      BY <3>1 DEF Exchange!Write, Exchange!Next
  <2>6. CASE Execute
    BY <2>6 DEF Execute, local, Exchange!Execute, Exchange!Next
  <2>7. CASE DialSucceeds \/ ReadByte \/ DeadlinePasses \/ SendByte \/ SendCR \/ HangUp
             \/ UNCHANGED vars
    BY <2>7 DEF DialSucceeds, ReadByte, DeadlinePasses, SendByte, SendCR, HangUp, vars, local,
                remote, Exchange!vars
  <2> QED
    BY <2>1, <2>2, <2>3, <2>4, <2>5, <2>6, <2>7 DEF Next, ClientStep, DeviceStep
<1> QED
  BY <1>1, <1>2, SessionInvariance, PTL DEF Spec, ExchangeRefined, Exchange!Spec

---------------------------------------------------------------------------------
(* How long a call can be.  SendEnds is liveness and stays with TLC; what it rests   *)
(* on is proved here for every limit: each step of the call brings it nearer to its  *)
(* return, and nothing the peer does adds to it.                                     *)

\* The most steps the call can still take: the bytes two frames may have, the ends of the
\* frames, the dial and the write.
CallLeft ==
    CASE client = "dial" -> 2 * MaxFrame + 4
      [] client = "greeting" -> (MaxFrame - Len(buf)) + MaxFrame + 3
      [] client = "write" -> MaxFrame + 2
      [] client = "response" -> (MaxFrame - Len(buf)) + 1
      [] client = "done" -> 0

CallIsBounded == CallLeft \in 0..(2 * MaxFrame + 4)

CallProgresses ==
    [][IF ClientStep \/ ConnectionReset THEN CallLeft' < CallLeft ELSE CallLeft' = CallLeft]_vars

\* Each call into the connection is one less (lines 34-123).
LEMMA CallStepCounts ==
  ASSUME TypeOK, ClientStep \/ ConnectionReset
  PROVE  CallLeft' < CallLeft
<1>0. /\ MaxFrame \in Nat /\ Len(buf) \in Nat /\ Len(buf) <= MaxFrame
      /\ client \in {"dial", "greeting", "write", "response", "done"}
  BY FrameAssumption DEF TypeOK
<1>1. CASE \/ DialFails \/ SetDeadlineFails \/ FrameTooLong \/ ReadTimesOut \/ EndOfStream
           \/ ConnectionReset \/ WriteFails \/ ReadResponse
  <2>1. client # "done" /\ client' = "done"
    BY <1>1 DEF DialFails, SetDeadlineFails, FrameTooLong, ReadTimesOut, EndOfStream,
                ConnectionReset, WriteFails, ReadResponse, Returns, Reading
  <2> QED
    BY <1>0, <2>1 DEF CallLeft
<1>2. CASE DialSucceeds
  <2>1. client = "dial" /\ client' = "greeting" /\ buf' = buf
    BY <1>2 DEF DialSucceeds
  <2> QED
    BY <1>0, <2>1 DEF CallLeft
<1>3. CASE ReadByte
  <2>1. client \in {"greeting", "response"} /\ client' = client /\ Len(buf') = Len(buf) + 1
    BY <1>3 DEF ReadByte, Reading, TypeOK
  <2>2. Len(buf) < MaxFrame
    BY <1>3 DEF ReadByte
  <2> QED
    BY <1>0, <2>1, <2>2 DEF CallLeft
<1>4. CASE ReadGreeting
  <2>1. client = "greeting" /\ client' \in {"write", "done"}
    BY <1>4 DEF ReadGreeting, Returns
  <2> QED
    BY <1>0, <2>1 DEF CallLeft
<1>5. CASE WritePayload
  <2>1. client = "write" /\ client' = "response" /\ buf' = buf
    BY <1>5 DEF WritePayload
  <2> QED
    BY <1>0, <2>1 DEF CallLeft
<1> QED
  BY <1>1, <1>2, <1>3, <1>4, <1>5 DEF ClientStep

\* SendCommand makes a number of calls that the frame limit alone bounds, however the peer
\* splits, delays or continues what it sends (lines 34-123): each is one less, and no step
\* of the peer nor the deadline adds any.
THEOREM CallIsFinite == Spec => []CallIsBounded /\ CallProgresses
<1>1. SessionInv => CallIsBounded
  <2> SUFFICES ASSUME TypeOK PROVE CallIsBounded
    BY DEF SessionInv
  <2>1. /\ MaxFrame \in Nat /\ Len(buf) \in Nat /\ Len(buf) <= MaxFrame
        /\ client \in {"dial", "greeting", "write", "response", "done"}
    BY FrameAssumption DEF TypeOK
  <2> QED
    BY <2>1 DEF CallIsBounded, CallLeft
<1>2. SessionInv /\ [Next]_vars =>
        [IF ClientStep \/ ConnectionReset THEN CallLeft' < CallLeft ELSE CallLeft' = CallLeft]_vars
  <2> SUFFICES ASSUME TypeOK, Next
               PROVE  IF ClientStep \/ ConnectionReset
                      THEN CallLeft' < CallLeft ELSE CallLeft' = CallLeft
    BY DEF SessionInv
  <2>1. CASE ClientStep \/ ConnectionReset
    BY <2>1, CallStepCounts
  <2>2. CASE ~(ClientStep \/ ConnectionReset)
    <3>1. client' = client /\ buf' = buf
      BY <2>2 DEF Next, DeviceStep, SendByte, SendCR, Execute, HangUp, DeadlinePasses, local
    <3> QED
      BY <2>2, <3>1 DEF CallLeft
  <2> QED
    BY <2>1, <2>2
<1> QED
  BY <1>1, <1>2, SessionInvariance, PTL DEF Spec, CallProgresses
=================================================================================
