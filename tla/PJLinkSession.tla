------------------------------ MODULE PJLinkSession -----------------------------
(***************************************************************************)
(* One call of SendCommand for a PJLink device                             *)
(* (internal/adapters/southbound/tcp_communicator.go): dial, read the      *)
(* greeting, write the payload, read the response, under one deadline for  *)
(* the whole connection; and the device at the other end, which may stall, *)
(* close, or turn out to be something else.                                *)
(*                                                                         *)
(* Bytes are told apart as far as the code does: "CR" ends a frame, "P"    *)
(* stands for the text PJLINK, which a greeting must begin with, and "x"   *)
(* for any other byte.                                                     *)
(*                                                                         *)
(* A definition marked "Mistake" is no part of the specification: it is a  *)
(* plausible wrong version of the definition after it, which the           *)
(* properties must tell from the right one.                                *)
(***************************************************************************)
EXTENDS Naturals, Sequences

CONSTANT MaxFrame        \* maxPJLinkFrameBytes

ASSUME FrameAssumption == MaxFrame \in Nat \ {0}

Bytes == {"P", "x", "CR"}

VARIABLES client,        \* the call that is made next
          buf,           \* what readUntilCR has read, or the frame returned
          result,        \* how SendCommand ended, by the class of its error
          late,          \* the deadline of the connection has passed
          device,        \* what the other end does
          frame,         \* bytes of the frame the device has sent so far
          wire,          \* bytes sent by the device and not read
          written,       \* the payload was handed to the connection
          executed       \* the device has executed it

local == <<client, buf, result, late>>
remote == <<device, frame, executed>>
vars == <<local, remote, wire, written>>

TypeOK ==
    /\ client \in {"dial", "greeting", "write", "response", "done"}
    /\ buf \in Seq(Bytes) /\ Len(buf) <= MaxFrame
    /\ result \in {"none", "answered", "timeout", "network", "unclassified"}
    /\ late \in BOOLEAN
    /\ device \in {"away", "greets", "listens", "answers", "closed"}
    /\ frame \in 0..(MaxFrame + 1)
    /\ wire \in Seq(Bytes)
    /\ written \in BOOLEAN
    /\ executed \in BOOLEAN

Init ==
    /\ client = "dial"
    /\ buf = <<>>
    /\ result = "none"
    /\ late = FALSE
    /\ device = "away"
    /\ frame = 0
    /\ wire = <<>>
    /\ written = FALSE
    /\ executed = FALSE

---------------------------------------------------------------------------------
(* The errors.                                                             *)

\* A cancelled context and an expired deadline are timeouts.  An error that is already a
\* domain error is none of the kinds looked for.
Categorize(err) == IF err \in {"canceled", "deadline"} THEN "timeout" ELSE "network"

\* readUntilCR categorizes its error and its caller categorizes the result.
ReadError(err) == Categorize(Categorize(err))

Returns(r) == client' = "done" /\ result' = r

---------------------------------------------------------------------------------
(* SendCommand up to the connection.                                       *)

DialFails ==
    /\ client = "dial"
    /\ \E err \in {"canceled", "deadline", "refused"} : Returns(Categorize(err))
    /\ UNCHANGED <<buf, late, remote, wire, written>>

\* Mistake: the payload is written without waiting for the greeting.
DialAndWrite ==
    /\ client = "dial"
    /\ client' = "write"
    /\ device' = "greets"
    /\ UNCHANGED <<buf, result, late, frame, executed, wire, written>>

DialSucceeds ==
    /\ client = "dial"
    /\ client' = "greeting"
    /\ device' = "greets"
    /\ UNCHANGED <<buf, result, late, frame, executed, wire, written>>

SetDeadlineFails ==
    /\ client = "dial"
    /\ Returns("unclassified")
    /\ device' = "greets"
    /\ UNCHANGED <<buf, late, frame, executed, wire, written>>

---------------------------------------------------------------------------------
(* readUntilCR, for the greeting and for the response.                     *)

Reading == client \in {"greeting", "response"}

\* Mistake: the length is looked at only after a whole frame.
ReadAnyLength ==
    /\ Reading /\ ~late
    /\ wire # <<>> /\ Head(wire) # "CR"
    /\ buf' = Append(buf, Head(wire))
    /\ wire' = Tail(wire)
    /\ UNCHANGED <<client, result, late, remote, written>>

ReadByte ==
    /\ Reading /\ ~late
    /\ Len(buf) < MaxFrame
    /\ wire # <<>> /\ Head(wire) # "CR"
    /\ buf' = Append(buf, Head(wire))
    /\ wire' = Tail(wire)
    /\ UNCHANGED <<client, result, late, remote, written>>

ReadGreeting ==
    /\ client = "greeting" /\ ~late
    /\ Len(buf) < MaxFrame
    /\ wire # <<>> /\ Head(wire) = "CR"
    /\ wire' = Tail(wire)
    /\ IF buf # <<>> /\ Head(buf) = "P"
       THEN client' = "write" /\ UNCHANGED result
       ELSE Returns("network")
    /\ buf' = <<>>
    /\ UNCHANGED <<late, remote, written>>

ReadResponse ==
    /\ client = "response" /\ ~late
    /\ Len(buf) < MaxFrame
    /\ wire # <<>> /\ Head(wire) = "CR"
    /\ buf' = Append(buf, "CR")
    /\ wire' = Tail(wire)
    /\ Returns("answered")
    /\ UNCHANGED <<late, remote, written>>

FrameTooLong ==
    /\ Reading /\ Len(buf) = MaxFrame
    /\ Returns("network")
    /\ UNCHANGED <<buf, late, remote, wire, written>>

\* Mistake: the deadline is cleared once the greeting is there.
GreetingTimesOut ==
    /\ client = "greeting" /\ late
    /\ Returns(ReadError("deadline"))
    /\ UNCHANGED <<buf, late, remote, wire, written>>

ReadTimesOut ==
    /\ Reading /\ late
    /\ Returns(ReadError("deadline"))
    /\ UNCHANGED <<buf, late, remote, wire, written>>

\* Mistake: what was read before the end of the stream is taken for the response.
TakePartial ==
    /\ Reading /\ ~late /\ Len(buf) < MaxFrame
    /\ wire = <<>> /\ device = "closed"
    /\ Returns(IF client = "response" /\ buf # <<>> THEN "answered" ELSE "network")
    /\ UNCHANGED <<buf, late, remote, wire, written>>

EndOfStream ==
    /\ Reading /\ ~late /\ Len(buf) < MaxFrame
    /\ wire = <<>> /\ device = "closed"
    /\ Returns(ReadError("eof"))
    /\ UNCHANGED <<buf, late, remote, wire, written>>

\* Whatever is still on the wire is lost.
ConnectionReset ==
    /\ Reading /\ ~late /\ Len(buf) < MaxFrame
    /\ Returns(ReadError("reset"))
    /\ UNCHANGED <<buf, late, remote, wire, written>>

---------------------------------------------------------------------------------
(* The payload.                                                            *)

WritePayload ==
    /\ client = "write" /\ ~late
    /\ client' = "response"
    /\ written' = TRUE
    /\ UNCHANGED <<buf, result, late, remote, wire>>

WriteFails ==
    /\ client = "write"
    /\ Returns(Categorize(IF late THEN "deadline" ELSE "reset"))
    /\ UNCHANGED <<buf, late, remote, wire, written>>

DeadlinePasses ==
    /\ client # "dial" /\ ~late
    /\ late' = TRUE
    /\ UNCHANGED <<client, buf, result, remote, wire, written>>

---------------------------------------------------------------------------------
(* The device.  It sends a greeting, waits for a payload, executes it and  *)
(* answers; each frame may be longer than the code accepts.  A peer that   *)
(* is no PJLink device greets with something else.                         *)

SendByte ==
    /\ device \in {"greets", "answers"} /\ frame <= MaxFrame
    /\ \E b \in {"P", "x"} : wire' = Append(wire, b)
    /\ frame' = frame + 1
    /\ UNCHANGED <<local, device, executed, written>>

SendCR ==
    /\ device \in {"greets", "answers"}
    /\ wire' = Append(wire, "CR")
    /\ frame' = 0
    /\ device' = IF device = "greets" THEN "listens" ELSE "closed"
    /\ UNCHANGED <<local, executed, written>>

\* Also when the caller has given up meanwhile.
Execute ==
    /\ device = "listens" /\ written /\ ~executed
    /\ executed' = TRUE
    /\ device' = "answers"
    /\ UNCHANGED <<local, frame, wire, written>>

HangUp ==
    /\ device \in {"greets", "listens", "answers"}
    /\ device' = "closed"
    /\ UNCHANGED <<local, frame, executed, wire, written>>

---------------------------------------------------------------------------------
ClientStep ==
    \/ DialFails \/ DialSucceeds \/ SetDeadlineFails
    \/ ReadByte \/ ReadGreeting \/ ReadResponse \/ FrameTooLong \/ ReadTimesOut \/ EndOfStream
    \/ WritePayload \/ WriteFails
DeviceStep == SendByte \/ SendCR \/ Execute \/ HangUp

Next == ClientStep \/ DeviceStep \/ ConnectionReset \/ DeadlinePasses

Spec == Init /\ [][Next]_vars

\* The caller's goroutine runs and its deadline passes; nothing is asked of the device.
FairSpec == Spec /\ WF_vars(ClientStep) /\ WF_vars(DeadlinePasses)

---------------------------------------------------------------------------------
(* Properties.                                                             *)

\* A response is one whole frame: a carriage return at its end and nowhere else
\* (lines 102-123), however the device splits it, stalls or closes.
ResponseIsAFrame ==
    result = "answered" =>
        buf # <<>> /\ \A i \in 1..Len(buf) : buf[i] = "CR" <=> i = Len(buf)

\* The strengthening: a frame being read holds no carriage return; before the payload the
\* peer has ended at most one frame, its greeting; afterwards only a device that executed
\* has ended another.
FrameInv == client # "done" => \A i \in 1..Len(buf) : buf[i] # "CR"

NoCR == \A i \in 1..Len(wire) : wire[i] # "CR"
OneCR == \A i, j \in 1..Len(wire) : wire[i] = "CR" /\ wire[j] = "CR" => i = j

CallInv ==
    /\ client = "done" <=> result # "none"
    /\ client \in {"dial", "greeting", "write"} => ~written
    /\ result = "unclassified" => ~written

PeerInv ==
    /\ executed => written
    /\ device = "answers" => executed
    /\ device = "away" => wire = <<>>
    /\ device = "greets" => NoCR /\ client \in {"dial", "greeting", "done"} /\ ~written
    /\ client = "dial" => device = "away"
    /\ client = "greeting" => OneCR
    /\ client \in {"write", "response"} => NoCR \/ executed

SessionInv == TypeOK /\ ResponseIsAFrame /\ FrameInv /\ CallInv /\ PeerInv

\* One call is one exchange: written and executed at most once, answered only by a device
\* that executed, an error that is not retried only before the payload (lines 34-100).
Exchange == INSTANCE DeviceExchange

ExchangeRefined == Exchange!Spec

\* SendCommand returns, whatever the device does (lines 38-53).
SendEnds == <>(client = "done")
=================================================================================
