------------------------------- MODULE StatusChain ------------------------------
(***************************************************************************)
(* executeCommandChain (internal/core/router/engine.go) for GET_STATUS:    *)
(* the power state has been asked for and parsed, PJLinkSession is the     *)
(* call that asks for the lamp, and its response is parsed and merged over *)
(* the first.  An attempt that is repeated is another such call.           *)
(*                                                                         *)
(* PJLinkSession knows how a response is framed and not what it says; what *)
(* the projector says is chosen here.                                      *)
(***************************************************************************)
EXTENDS PJLinkSession, PJLinkAdapter

CONSTANTS Hours,        \* the hours a lamp may report: from the digits sent to the number meant
          Lamps         \* what may follow the first lamp: nothing, or fields after a space

LampPieces == Digits \cup Space \cup {"x", "LAMP="}

\* A number is sent in decimal, and no further lamp looks like a part of another answer.
ASSUME ChainAssumption ==
    /\ \A field \in DOMAIN Hours :
           field \in Seq(Digits) \ {<<>>} /\ Hours[field] = Atoi(field)
    /\ Lamps \subseteq Seq(LampPieces)
    /\ \A more \in Lamps : more = <<>> \/ more[1] \in Space

VARIABLES primary,      \* what the projector said of its power
          followUp,     \* what it said of its lamp, or how the chain stands
          telemetry     \* the chain's telemetry

chain == <<primary, followUp, telemetry>>
chainVars == <<vars, chain>>

Says(text, means) == [text |-> text \o <<"CR">>, means |-> means]

ErrorAnswers(query) == {Says(<<"x", query, e>>, Key("error", e)) : e \in Range(ErrorCodes)}

\* Another kind of peer, whose text says nothing to the parser.
Foreign == Says(<<"x">>, Key("rawResponse", <<"x">>))

\* The power states of the protocol, in the words of the gateway.
PowerMeans(p) ==
    CASE p = "0" -> <<"STANDBY">>
      [] p = "1" -> <<"ON">>
      [] p = "2" -> <<"COOLING">>
      [] p = "3" -> <<"WARMING">>

PowerAnswers ==
    {Says(<<"x", "POWR=", p>>, Key("powerState", PowerMeans(p))) : p \in Digits}
    \cup ErrorAnswers("POWR=") \cup {Foreign}

\* Hours, whether it is lit, and further lamps.
LampText(digits, lit, more) == <<"x", "LAMP=">> \o digits \o <<" ", lit>> \o more

LampAnswers ==
    {Says(LampText(digits, lit, more),
          [key \in {"lamp_hours", "lamp_status"} |->
              CASE key = "lamp_hours" -> Hours[digits]
                [] key = "lamp_status" -> IF lit = "1" THEN "ON" ELSE "OFF"]) :
        digits \in DOMAIN Hours, lit \in {"0", "1"}, more \in Lamps}
    \cup ErrorAnswers("LAMP=") \cup {Foreign}

Waiting == Says(<<>>, "waiting")
Failed == Says(<<>>, "failed")

ChainInit ==
    /\ Init
    /\ primary \in PowerAnswers
    /\ followUp = Waiting
    /\ telemetry = ParseTelemetry(primary.text)

FollowUpParsed ==
    /\ result = "answered" /\ followUp = Waiting
    /\ followUp' \in LampAnswers
    /\ telemetry' = MergeTelemetry(telemetry, ParseTelemetry(followUp'.text))
    /\ UNCHANGED <<vars, primary>>

\* The error is returned, and no telemetry.
ChainFails ==
    /\ result \notin {"none", "answered"} /\ followUp = Waiting
    /\ followUp' = Failed
    /\ telemetry' = None
    /\ UNCHANGED <<vars, primary>>

ChainNext == (Next /\ UNCHANGED chain) \/ FollowUpParsed \/ ChainFails

\* Fairness is that of the session.
ChainSpec ==
    /\ ChainInit /\ [][ChainNext]_chainVars
    /\ WF_vars(ClientStep) /\ WF_vars(DeadlinePasses)

---------------------------------------------------------------------------------
(* Property.                                                               *)

\* The telemetry of a chain is what the projector said, key by key: values of one answer
\* stay beside an error or values of the other, an error leaves no value of its own answer,
\* of two errors the last is told, and a chain that failed has none (pjlink_adapter.go
\* 45-133, engine.go 192-232).
TelemetryIsWhatWasSaid ==
    IF followUp = Failed THEN telemetry = None ELSE
    LET last == IF followUp = Waiting THEN None ELSE followUp.means
    IN  /\ DOMAIN telemetry = DOMAIN primary.means \cup DOMAIN last
        /\ \A key \in DOMAIN telemetry :
               telemetry[key] = IF key \in DOMAIN last THEN last[key] ELSE primary.means[key]

---------------------------------------------------------------------------------
(* Strengthening of the invariant, for its proof.                          *)

\* The telemetry is what the parser made of the answers the chain has had, and none once
\* it failed.
ChainInv ==
    /\ primary \in PowerAnswers
    /\ \/ followUp = Waiting /\ telemetry = ParseTelemetry(primary.text)
       \/ followUp = Failed /\ telemetry = None
       \/ /\ followUp \in LampAnswers
          /\ telemetry = MergeTelemetry(ParseTelemetry(primary.text), ParseTelemetry(followUp.text))
=================================================================================
