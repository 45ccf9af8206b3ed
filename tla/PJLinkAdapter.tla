------------------------------ MODULE PJLinkAdapter -----------------------------
(***************************************************************************)
(* How the text a PJLink device answers becomes telemetry:                 *)
(* ParseTelemetry (internal/adapters/protocols/pjlink_adapter.go) and the  *)
(* merge of a chain's answers (internal/core/router/engine.go).            *)
(*                                                                         *)
(* A text is a sequence of the pieces the parser looks for, of digits and  *)
(* spaces, and of "x" for any other text.  Telemetry is a function from    *)
(* its keys.                                                               *)
(*                                                                         *)
(* A definition marked "Mistake" is no part of the specification: it is a  *)
(* plausible wrong version of the definition after it, which the           *)
(* properties must tell from the right one.                                *)
(***************************************************************************)
EXTENDS Naturals, SequencesExt

ErrorCodes == <<"ERR1", "ERR2", "ERR3", "ERR4">>
Digits == {"0", "1", "2", "3"}
Space == {" ", "CR"}

After(text, piece) ==
    SubSeq(text, SelectInSeq(text, LAMBDA t : t = piece) + 1, Len(text))

\* strings.TrimSpace
TrimSpace(text) ==
    LET solid(t) == t \notin Space
    IN  SubSeq(text, Max({1, SelectInSeq(text, solid)}), SelectLastInSeq(text, solid))

\* strings.Fields: the first field of a trimmed text, and the text after it.
FirstField(text) ==
    LET n == SelectInSeq(text, LAMBDA t : t \in Space)
    IN  IF n = 0 THEN text ELSE SubSeq(text, 1, n - 1)
Rest(text) == TrimSpace(SubSeq(text, Len(FirstField(text)) + 1, Len(text)))

\* strconv.Atoi, and whether it succeeds.
IsNumber(field) == field # <<>> /\ Range(field) \subseteq Digits
DigitValue(d) == CASE d = "0" -> 0 [] d = "1" -> 1 [] d = "2" -> 2 [] d = "3" -> 3
Atoi(field) == FoldLeft(LAMBDA n, d : 10 * n + DigitValue(d), 0, field)

Key(name, value) == [key \in {name} |-> value]
None == [key \in {} |-> key]

\* mergeTelemetry, and every assignment to the parser's map: the later value stays.
MergeTelemetry(base, extra) ==
    [key \in DOMAIN base \cup DOMAIN extra |-> IF key \in DOMAIN extra THEN extra[key] ELSE base[key]]

---------------------------------------------------------------------------------
(* ParseTelemetry.                                                         *)

PowerState(value) ==
    CASE value = <<"0">> -> <<"STANDBY">>
      [] value = <<"1">> -> <<"ON">>
      [] value = <<"2">> -> <<"COOLING">>
      [] value = <<"3">> -> <<"WARMING">>
      [] OTHER -> value

ParsePOWRResponse(text) ==
    LET value == TrimSpace(After(text, "POWR="))
    IN  IF value = <<"OK">> THEN Key("powerResult", value)
        ELSE Key("powerState", PowerState(value))

\* Hours and status of the first lamp.
ParseLAMPResponse(text) ==
    LET payload == TrimSpace(After(text, "LAMP="))
        hours == FirstField(payload)
        status == FirstField(Rest(payload))
    IN  MergeTelemetry(
            IF IsNumber(hours) THEN Key("lamp_hours", Atoi(hours)) ELSE None,
            IF status # <<>> THEN Key("lamp_status", IF status = <<"1">> THEN "ON" ELSE "OFF")
            ELSE None)

Values(text) ==
    MergeTelemetry(IF Contains(text, "POWR=") THEN ParsePOWRResponse(text) ELSE None,
                   IF Contains(text, "LAMP=") THEN ParseLAMPResponse(text) ELSE None)

\* The lowest code, wherever it stands.
ParsePJLinkError(text) ==
    LET found(e) == Contains(text, e) IN SelectInSeq(ErrorCodes, found)

\* Mistake: an error is looked for when nothing else was found.
ErrorLast(raw) ==
    LET response == TrimSpace(raw)
        error == ParsePJLinkError(response)
    IN  IF Values(response) # None THEN Values(response)
        ELSE IF error # 0 THEN Key("error", ErrorCodes[error])
        ELSE Key("rawResponse", response)

ParseTelemetry(raw) ==
    LET response == TrimSpace(raw)
        error == ParsePJLinkError(response)
    IN  IF error # 0 THEN Key("error", ErrorCodes[error])
        ELSE IF Values(response) # None THEN Values(response)
        ELSE Key("rawResponse", response)

=================================================================================
