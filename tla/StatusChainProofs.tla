---------------------------- MODULE StatusChainProofs ---------------------------
(***************************************************************************)
(* Theorems about StatusChain, for any frame limit, any hours a lamp may   *)
(* report and any further lamps: what the parser finds in every text, and  *)
(* that a chain's telemetry is what the projector said.                    *)
(***************************************************************************)
EXTENDS StatusChain, PJLinkSessionProofs, SequenceTheorems, WellFoundedInduction, TLAPS

Pieces == Digits \cup Space \cup {"ERR1", "ERR2", "ERR3", "ERR4", "x", "POWR=", "LAMP="}

\* Space is told from everything else the parser looks for.
LEMMA Solid ==
  /\ "CR" \in Space /\ " " \in Space
  /\ \A p \in Digits \cup {"ERR1", "ERR2", "ERR3", "ERR4", "x", "POWR=", "LAMP="} :
         p \notin Space /\ p \in Pieces
  /\ Space \subseteq Pieces
BY DEF Space, Digits, Pieces

---------------------------------------------------------------------------------
(* What the searches in a text find.                                       *)

\* The least of some numbers is the one no other is below.
LEMMA MinIs ==
  ASSUME NEW I, I \subseteq Nat, NEW a \in I, \A i \in I : a <= i
  PROVE  Min(I) = a
<1>1. \A i \in I : (\A j \in I : i <= j) => i = a
  <2> TAKE i \in I
  <2> HAVE \A j \in I : i <= j
  <2>1. i <= a /\ a <= i /\ i \in Nat /\ a \in Nat
    OBVIOUS
  <2> QED
    BY <2>1
<1> QED
  BY <1>1 DEF Min

\* The greatest is the one no other is above.
LEMMA MaxIs ==
  ASSUME NEW I, I \subseteq Nat, NEW a \in I, \A i \in I : a >= i
  PROVE  Max(I) = a
<1>1. \A i \in I : (\A j \in I : i >= j) => i = a
  <2> TAKE i \in I
  <2> HAVE \A j \in I : i >= j
  <2>1. i >= a /\ a >= i /\ i \in Nat /\ a \in Nat
    OBVIOUS
  <2> QED
    BY <2>1
<1> QED
  BY <1>1 DEF Max

\* Some numbers have a least one.
LEMMA MinExists ==
  ASSUME NEW I, I \subseteq Nat, I # {}
  PROVE  \E a \in I : \A i \in I : a <= i
<1>1. PICK a \in I : \A i \in I : ~(<<i, a>> \in OpToRel(<, Nat))
  BY NatLessThanWellFounded, WFMin
<1>2. \A i \in I : ~(i < a)
  BY <1>1 DEF OpToRel
<1> QED
  BY <1>2

\* A text with a solid piece has a last one.
LEMMA LastSolid ==
  ASSUME NEW S, NEW text \in Seq(S), NEW a \in 1..Len(text), text[a] \notin Space
  PROVE  \E b \in a..Len(text) :
             text[b] \notin Space /\ \A i \in (b + 1)..Len(text) : text[i] \in Space
<1> DEFINE n == Len(text)
           D == {d \in 0..(n - a) : text[n - d] \notin Space}
<1>1. n \in Nat /\ n - a \in D
  <2>1. n - (n - a) = a /\ n - a \in 0..(n - a)
    OBVIOUS
  <2> QED
    BY <2>1
<1>2. D \subseteq Nat /\ D # {}
  <2>1. \A d \in 0..(n - a) : d \in Nat
    BY <1>1
  <2>2. D \subseteq 0..(n - a)
    OBVIOUS
  <2> HIDE DEF D
  <2> QED
    BY <1>1, <2>1, <2>2
<1>3. PICK d \in D : \A e \in D : d <= e
  <2> HIDE DEF D
  <2> QED
    BY <1>2, MinExists
<1>4. n - d \in a..n /\ text[n - d] \notin Space
  BY <1>1
<1>5. ASSUME NEW i \in ((n - d) + 1)..n, text[i] \notin Space
      PROVE  FALSE
  <2>1. n - i \in 0..(n - a) /\ n - (n - i) = i /\ n - i < d
    BY <1>1, <1>4, <1>5
  <2>2. n - i \in D
    BY <1>5, <2>1
  <2> QED
    BY <1>1, <1>3, <2>1, <2>2
<1> QED
  BY <1>4, <1>5

\* strings.TrimSpace keeps what lies between the first and the last solid piece.
LEMMA TrimSpaceIs ==
  ASSUME NEW S, NEW text \in Seq(S), NEW a \in 1..Len(text), NEW b \in a..Len(text),
         text[a] \notin Space, text[b] \notin Space,
         \A i \in 1..(a - 1) : text[i] \in Space,
         \A i \in (b + 1)..Len(text) : text[i] \in Space
  PROVE  TrimSpace(text) = SubSeq(text, a, b)
<1> DEFINE I == {i \in 1..Len(text) : text[i] \notin Space}
<1>1. I \subseteq Nat /\ a \in I /\ b \in I
  OBVIOUS
<1>2. ASSUME NEW i \in I PROVE a <= i /\ b >= i
  <2>1. i \notin 1..(a - 1) /\ i \notin (b + 1)..Len(text)
    BY <1>2
  <2> QED
    BY <2>1
<1>3. Min(I) = a /\ Max(I) = b
  BY <1>1, <1>2, MinIs, MaxIs
<1>4. Max({1, a}) = a
  <2>1. {1, a} \subseteq Nat /\ a \in {1, a} /\ \A i \in {1, a} : a >= i
    OBVIOUS
  <2> QED
    BY <2>1, MaxIs
<1>5. I # {}
  BY <1>1
<1>6. TrimSpace(text) = SubSeq(text, Max({1, Min(I)}), Max(I))
  BY <1>5 DEF TrimSpace, SelectInSeq, SelectLastInSeq
<1> QED
  BY <1>3, <1>4, <1>6

\* strings.Fields: the first field ends before the first space ...
LEMMA FirstFieldBeforeSpace ==
  ASSUME NEW S, NEW text \in Seq(S), NEW n \in 1..Len(text), text[n] \in Space,
         \A i \in 1..(n - 1) : text[i] \notin Space
  PROVE  FirstField(text) = SubSeq(text, 1, n - 1)
<1> DEFINE I == {i \in 1..Len(text) : text[i] \in Space}
<1>1. I \subseteq Nat /\ n \in I /\ I # {}
  OBVIOUS
<1>2. \A i \in I : n <= i
  OBVIOUS
<1>3. Min(I) = n
  BY <1>1, <1>2, MinIs
<1>4. FirstField(text) = IF Min(I) = 0 THEN text ELSE SubSeq(text, 1, Min(I) - 1)
  BY <1>1 DEF FirstField, SelectInSeq
<1>5. n # 0
  OBVIOUS
<1> HIDE DEF I
<1> QED
  BY <1>3, <1>4, <1>5

\* ... or with the text.
LEMMA FirstFieldToEnd ==
  ASSUME NEW S, NEW text \in Seq(S), \A i \in 1..Len(text) : text[i] \notin Space
  PROVE  FirstField(text) = text
<1>1. {i \in 1..Len(text) : text[i] \in Space} = {}
  OBVIOUS
<1> QED
  BY <1>1 DEF FirstField, SelectInSeq

\* strings.Index: what is read of a text begins after the first place of the piece.
LEMMA AfterIs ==
  ASSUME NEW S, NEW text \in Seq(S), NEW n \in 1..Len(text), NEW piece, text[n] = piece,
         \A i \in 1..(n - 1) : text[i] # piece
  PROVE  After(text, piece) = SubSeq(text, n + 1, Len(text))
<1> DEFINE I == {i \in 1..Len(text) : text[i] = piece}
<1>1. I \subseteq Nat /\ n \in I /\ I # {}
  OBVIOUS
<1>2. \A i \in I : n <= i
  OBVIOUS
<1>3. Min(I) = n
  BY <1>1, <1>2, MinIs
<1>4. After(text, piece) = SubSeq(text, Min(I) + 1, Len(text))
  BY <1>1 DEF After, SelectInSeq
<1> QED
  BY <1>3, <1>4

---------------------------------------------------------------------------------
(* ParseTelemetry.                                                               *)

\* An error is found by its code, the lowest first.
LEMMA ErrorFound ==
  ASSUME NEW text, NEW n \in 1..4, Contains(text, ErrorCodes[n]),
         \A i \in 1..(n - 1) : ~Contains(text, ErrorCodes[i])
  PROVE  ParsePJLinkError(text) = n
<1> DEFINE I == {i \in 1..Len(ErrorCodes) : Contains(text, ErrorCodes[i])}
<1>1. Len(ErrorCodes) = 4
  BY DEF ErrorCodes
<1>2. I \subseteq Nat /\ n \in I /\ I # {}
  BY <1>1
<1>3. \A i \in I : n <= i
  BY <1>1
<1>4. Min(I) = n
  <2> HIDE DEF I
  <2> QED
    BY <1>2, <1>3, MinIs
<1>5. ParsePJLinkError(text) = Min(I)
  BY <1>2 DEF ParsePJLinkError, SelectInSeq
<1> QED
  BY <1>4, <1>5

\* A text without a code is no error.
LEMMA NoErrorFound ==
  ASSUME NEW text, \A i \in 1..4 : ~Contains(text, ErrorCodes[i])
  PROVE  ParsePJLinkError(text) = 0
<1>1. Len(ErrorCodes) = 4
  BY DEF ErrorCodes
<1>2. {i \in 1..Len(ErrorCodes) : Contains(text, ErrorCodes[i])} = {}
  BY <1>1
<1> QED
  BY <1>2 DEF ParsePJLinkError, SelectInSeq

\* An answer is never lost: telemetry is never empty, whatever the text says
\* (pjlink_adapter.go 62-64).
THEOREM TelemetryIsNeverEmpty ==
  ASSUME NEW raw
  PROVE  ParseTelemetry(raw) # None
<1>1. \A name, value : Key(name, value) # None
  <2> TAKE name, value
  <2>1. name \in DOMAIN Key(name, value) /\ name \notin DOMAIN None
    BY DEF Key, None
  <2> QED
    BY <2>1
<1> QED
  BY <1>1 DEF ParseTelemetry

---------------------------------------------------------------------------------
(* What the peer says, and what the parser makes of it.                          *)

\* A text of known pieces and its carriage return, read as a sequence.
LEMMA SaysText ==
  ASSUME NEW text \in Seq(Pieces)
  PROVE  /\ text \o <<"CR">> \in Seq(Pieces)
         /\ Len(text \o <<"CR">>) = Len(text) + 1
         /\ \A i \in 1..Len(text) : (text \o <<"CR">>)[i] = text[i]
         /\ (text \o <<"CR">>)[Len(text) + 1] = "CR"
<1>1. /\ <<"CR">> \in Seq(Pieces)
      /\ Len(<<"CR">>) = 1
      /\ <<"CR">>[1] = "CR"
  <2>1. "CR" \in Pieces
    BY Solid
  <2> QED
    BY <2>1
<1>2. /\ text \o <<"CR">> \in Seq(Pieces)
      /\ Len(text \o <<"CR">>) = Len(text) + 1
      /\ \A i \in 1..(Len(text) + 1) : (text \o <<"CR">>)[i] =
             IF i <= Len(text) THEN text[i] ELSE <<"CR">>[i - Len(text)]
  BY <1>1, ConcatProperties
<1> QED
  BY <1>1, <1>2

\* A text that begins and ends with a solid piece is what TrimSpace leaves of it with its
\* carriage return.
LEMMA CarriageReturnTrimmed ==
  ASSUME NEW text \in Seq(Pieces), Len(text) # 0,
         text[1] \notin Space, text[Len(text)] \notin Space
  PROVE  TrimSpace(text \o <<"CR">>) = text
<1> DEFINE raw == text \o <<"CR">>
           n == Len(text)
<1>1. n \in Nat /\ n >= 1
  OBVIOUS
<1>2. /\ raw \in Seq(Pieces)
      /\ Len(raw) = n + 1
      /\ \A i \in 1..n : raw[i] = text[i]
      /\ raw[n + 1] = "CR"
  BY SaysText
<1> HIDE DEF raw
<1>3. TrimSpace(raw) = SubSeq(raw, 1, n)
  <2>1. 1 \in 1..Len(raw) /\ n \in 1..Len(raw)
    BY <1>1, <1>2
  <2>2. raw[1] \notin Space /\ raw[n] \notin Space
    BY <1>1, <1>2
  <2>3. \A i \in (n + 1)..Len(raw) : raw[i] \in Space
    <3>1. \A i \in (n + 1)..Len(raw) : i = n + 1
      BY <1>1, <1>2
    <3> QED
      BY <1>2, <3>1, Solid
  <2> QED
    BY <1>1, <1>2, <2>1, <2>2, <2>3, TrimSpaceIs
<1>4. /\ SubSeq(raw, 1, n) \in Seq(Pieces)
      /\ Len(SubSeq(raw, 1, n)) = n
      /\ \A i \in 1..n : SubSeq(raw, 1, n)[i] = raw[i]
  <2>1. \A i \in 1..n : raw[i] \in Pieces
    BY <1>1, <1>2
  <2>2. /\ SubSeq(raw, 1, n) \in Seq(Pieces)
        /\ Len(SubSeq(raw, 1, n)) = IF 1 <= n THEN n - 1 + 1 ELSE 0
        /\ \A i \in 1..(n - 1 + 1) : SubSeq(raw, 1, n)[i] = raw[1 + i - 1]
    BY <1>1, <2>1, SubSeqProperties
  <2> QED
    BY <1>1, <2>2
<1>5. SubSeq(raw, 1, n) = text
  BY <1>2, <1>4, SeqEqual
<1> QED
  BY <1>3, <1>5 DEF raw

\* The carriage return of a response never reaches a value.
LEMMA ErrorAnswersMean ==
  ASSUME NEW query \in {"POWR=", "LAMP="}, NEW a \in ErrorAnswers(query)
  PROVE  ParseTelemetry(a.text) = a.means
<1>1. PICK e \in Range(ErrorCodes) : a = Says(<<"x", query, e>>, Key("error", e))
  BY DEF ErrorAnswers
<1>2. PICK n \in 1..4 : e = ErrorCodes[n]
  BY <1>1 DEF ErrorCodes, Range
<1> DEFINE text == <<"x", query, e>>
<1>3. e \in {"ERR1", "ERR2", "ERR3", "ERR4"}
  BY <1>2 DEF ErrorCodes
<1>4. /\ text \in Seq(Pieces) /\ Len(text) = 3
      /\ text[1] = "x" /\ text[2] = query /\ text[3] = e
  BY <1>3 DEF Pieces
<1> HIDE DEF text
<1>5. TrimSpace(text \o <<"CR">>) = text
  <2>1. "x" \notin Space /\ e \notin Space
    BY <1>3, Solid
  <2>2. text[1] \notin Space /\ text[Len(text)] \notin Space /\ Len(text) # 0
    BY <1>4, <2>1
  <2> QED
    BY <1>4, <2>2, CarriageReturnTrimmed
<1>6. Contains(text, e)
  BY <1>4 DEF Contains
<1>7. \A i \in 1..(n - 1) : ~Contains(text, ErrorCodes[i])
  <2> TAKE i \in 1..(n - 1)
  <2>1. ErrorCodes[i] # ErrorCodes[n] /\ ErrorCodes[i] \in {"ERR1", "ERR2", "ERR3", "ERR4"}
    BY DEF ErrorCodes
  <2>2. \A j \in 1..3 : text[j] # ErrorCodes[i]
    BY <1>2, <1>4, <2>1
  <2> QED
    BY <1>4, <2>2 DEF Contains
<1>8. ParsePJLinkError(text) = n
  BY <1>2, <1>6, <1>7, ErrorFound
<1>9. ParseTelemetry(text \o <<"CR">>) = Key("error", e)
  BY <1>2, <1>5, <1>8 DEF ParseTelemetry
<1> QED
  BY <1>1, <1>9 DEF Says, text

\* Another kind of peer is quoted as it is.
LEMMA ForeignMeans == ParseTelemetry(Foreign.text) = Foreign.means
<1> DEFINE text == <<"x">>
<1>1. /\ text \in Seq(Pieces) /\ Len(text) = 1 /\ text[1] = "x"
  BY DEF Pieces
<1>2. Foreign.text = text \o <<"CR">> /\ Foreign.means = Key("rawResponse", text)
  BY DEF Foreign, Says
<1> HIDE DEF text
<1>3. TrimSpace(text \o <<"CR">>) = text
  <2>1. "x" \notin Space
    BY Solid
  <2>2. text[1] \notin Space /\ text[Len(text)] \notin Space /\ Len(text) # 0
    BY <1>1, <2>1
  <2> QED
    BY <1>1, <2>2, CarriageReturnTrimmed
<1>4. \A e : Contains(text, e) => e = "x"
  BY <1>1 DEF Contains
<1>5. ParsePJLinkError(text) = 0
  <2>1. \A i \in 1..4 : ErrorCodes[i] # "x"
    BY DEF ErrorCodes
  <2> QED
    BY <1>4, <2>1, NoErrorFound
<1>6. Values(text) = None
  <2>1. ~Contains(text, "POWR=") /\ ~Contains(text, "LAMP=")
    BY <1>4
  <2> QED
    BY <2>1 DEF Values, MergeTelemetry, None
<1> QED
  BY <1>2, <1>3, <1>5, <1>6 DEF ParseTelemetry

\* What is trimmed at both ends stays as it is.
LEMMA NothingToTrim ==
  ASSUME NEW text \in Seq(Pieces), Len(text) # 0,
         text[1] \notin Space, text[Len(text)] \notin Space
  PROVE  TrimSpace(text) = text
<1>1. 1 \in 1..Len(text) /\ Len(text) \in 1..Len(text)
  OBVIOUS
<1>2. TrimSpace(text) = SubSeq(text, 1, Len(text))
  BY <1>1, TrimSpaceIs
<1> QED
  BY <1>2, SubSeqFull

\* Merging with nothing changes nothing, and a value merged is in.
LEMMA MergeNone ==
  ASSUME NEW name, NEW value
  PROVE  /\ MergeTelemetry(Key(name, value), None) = Key(name, value)
         /\ MergeTelemetry(None, Key(name, value)) = Key(name, value)
         /\ Key(name, value) # None
<1>1. DOMAIN None = {}
  BY DEF None
<1>2. name \in DOMAIN Key(name, value)
  BY DEF Key
<1> QED
  BY <1>1, <1>2 DEF MergeTelemetry, Key

\* The power state is the one the digit stands for.
LEMMA PowerAnswersMean ==
  ASSUME NEW a \in PowerAnswers
  PROVE  ParseTelemetry(a.text) = a.means
<1>1. CASE a \in ErrorAnswers("POWR=")
  BY <1>1, ErrorAnswersMean
<1>2. CASE a = Foreign
  BY <1>2, ForeignMeans
<1>3. ASSUME NEW p \in Digits,
             a = Says(<<"x", "POWR=", p>>, Key("powerState", PowerMeans(p)))
      PROVE  ParseTelemetry(a.text) = a.means
  <2> DEFINE text == <<"x", "POWR=", p>>
  <2>1. "x" \in Pieces /\ "POWR=" \in Pieces /\ p \in Pieces /\ p \notin Space /\ "x" \notin Space
    BY Solid
  <2>2. /\ text \in Seq(Pieces) /\ Len(text) = 3
        /\ text[1] = "x" /\ text[2] = "POWR=" /\ text[3] = p
    BY <2>1
  <2>3. a.text = text \o <<"CR">> /\ a.means = Key("powerState", PowerMeans(p))
    BY <1>3 DEF Says
  <2> HIDE DEF text
  <2>4. TrimSpace(text \o <<"CR">>) = text
    <3>1. text[1] \notin Space /\ text[Len(text)] \notin Space /\ Len(text) # 0
      BY <2>1, <2>2
    <3> QED
      BY <2>2, <3>1, CarriageReturnTrimmed
  <2>5. \A e : Contains(text, e) <=> e \in {"x", "POWR=", p}
    BY <2>2 DEF Contains
  <2>6. ParsePJLinkError(text) = 0
    <3>1. \A i \in 1..4 : ErrorCodes[i] \notin {"x", "POWR=", p}
      BY DEF ErrorCodes, Digits
    <3> QED
      BY <2>5, <3>1, NoErrorFound
  <2>7. Contains(text, "POWR=") /\ ~Contains(text, "LAMP=")
    BY <2>5 DEF Digits
  <2>8. TrimSpace(After(text, "POWR=")) = <<p>>
    <3> DEFINE value == SubSeq(text, 3, 3)
    <3>1. After(text, "POWR=") = SubSeq(text, 2 + 1, Len(text))
      <4>1. 2 \in 1..Len(text) /\ \A i \in 1..(2 - 1) : text[i] # "POWR="
        BY <2>2
      <4> QED
        BY <2>2, <4>1, AfterIs
    <3>2. /\ value \in Seq(Pieces) /\ Len(value) = 1 /\ value[1] = p
      <4>1. \A i \in 3..3 : text[i] \in Pieces
        BY <2>1, <2>2
      <4>2. /\ value \in Seq(Pieces)
            /\ Len(value) = IF 3 <= 3 THEN 3 - 3 + 1 ELSE 0
            /\ \A i \in 1..(3 - 3 + 1) : value[i] = text[3 + i - 1]
        BY <4>1, SubSeqProperties
      <4> QED
        BY <2>2, <4>2
    <3>3. After(text, "POWR=") = value
      BY <2>2, <3>1
    <3> HIDE DEF value
    <3>4. TrimSpace(value) = value
      BY <2>1, <3>2, NothingToTrim
    <3>5. value = <<p>>
      <4>1. /\ <<p>> \in Seq(Pieces) /\ Len(<<p>>) = 1 /\ <<p>>[1] = p
        BY <2>1
      <4> QED
        BY <3>2, <4>1, SeqEqual
    <3> QED
      BY <3>3, <3>4, <3>5
  <2>9. ParsePOWRResponse(text) = Key("powerState", PowerMeans(p))
    <3>1. <<p>> # <<"OK">>
      BY DEF Digits
    <3>2. PowerState(<<p>>) = PowerMeans(p)
      <4>1. p \in {"0", "1", "2", "3"}
        BY DEF Digits
      <4> QED
        BY <4>1 DEF PowerState, PowerMeans
    <3> QED
      BY <2>8, <3>1, <3>2 DEF ParsePOWRResponse
  <2>10. Values(text) = Key("powerState", PowerMeans(p))
    BY <2>7, <2>9, MergeNone DEF Values
  <2> QED
    BY <2>3, <2>4, <2>6, <2>10, MergeNone DEF ParseTelemetry
<1> QED
  BY <1>1, <1>2, <1>3 DEF PowerAnswers

---------------------------------------------------------------------------------
(* The lamp's answer: the parser cuts it where the projector put the pieces.     *)

\* A part of a text, read as a sequence.
LEMMA PartOf ==
  ASSUME NEW text \in Seq(Pieces), NEW a \in Nat \ {0}, NEW b \in Nat,
         a <= b + 1, b <= Len(text)
  PROVE  /\ SubSeq(text, a, b) \in Seq(Pieces)
         /\ Len(SubSeq(text, a, b)) = b - a + 1
         /\ \A i \in 1..(b - a + 1) : SubSeq(text, a, b)[i] = text[a + i - 1]
<1>1. \A i \in a..b : text[i] \in Pieces
  OBVIOUS
<1>2. /\ SubSeq(text, a, b) \in Seq(Pieces)
      /\ Len(SubSeq(text, a, b)) = IF a <= b THEN b - a + 1 ELSE 0
      /\ \A i \in 1..(b - a + 1) : SubSeq(text, a, b)[i] = text[a + i - 1]
  BY <1>1, SubSeqProperties
<1> QED
  BY <1>2

\* Two pieces are a text.
LEMMA TwoPieces ==
  ASSUME NEW S, NEW p \in S, NEW q \in S
  PROVE  /\ <<p, q>> \in Seq(S) /\ Len(<<p, q>>) = 2
         /\ <<p, q>>[1] = p /\ <<p, q>>[2] = q
OBVIOUS

\* The text of a lamp's answer, position by position, with n digits and m pieces after the
\* first lamp.
IsLampText(text, digits, lit, more, n, m) ==
    /\ text \in Seq(LampPieces) /\ Len(text) = ((2 + n) + 2) + m
    /\ text[1] = "x" /\ text[2] = "LAMP="
    /\ \A i \in 1..n : text[2 + i] = digits[i]
    /\ text[(2 + n) + 1] = " " /\ text[(2 + n) + 2] = lit
    /\ \A i \in 1..m : text[((2 + n) + 2) + i] = more[i]

\* It is put together from its fields.
LEMMA LampTextIs ==
  ASSUME NEW digits \in Seq(Digits), NEW lit \in {"0", "1"}, NEW more \in Seq(LampPieces),
         NEW n \in Nat, Len(digits) = n, NEW m \in Nat, Len(more) = m
  PROVE  IsLampText(LampText(digits, lit, more), digits, lit, more, n, m)
<1> DEFINE head == <<"x", "LAMP=">>
           lamp == <<" ", lit>>
           hours == head \o digits
           first == hours \o lamp
           text == first \o more
<1>1. "x" \in LampPieces /\ "LAMP=" \in LampPieces /\ " " \in LampPieces /\ lit \in LampPieces
  BY DEF LampPieces, Space, Digits
<1>2. /\ head \in Seq(LampPieces) /\ Len(head) = 2 /\ head[1] = "x" /\ head[2] = "LAMP="
  BY ONLY <1>1, TwoPieces
<1>3. /\ lamp \in Seq(LampPieces) /\ Len(lamp) = 2 /\ lamp[1] = " " /\ lamp[2] = lit
  BY ONLY <1>1, TwoPieces
<1>4. digits \in Seq(LampPieces)
  <2>1. Digits \subseteq LampPieces
    BY DEF LampPieces
  <2> QED
    BY <2>1, SeqMonotonic
<1>5. LampText(digits, lit, more) = text
  BY DEF LampText
<1> HIDE DEF head, lamp
<1>6. /\ hours \in Seq(LampPieces) /\ Len(hours) = 2 + n
      /\ \A i \in 1..2 : hours[i] = head[i]
      /\ \A i \in 1..n : hours[2 + i] = digits[i]
  <2>1. head \in Seq(LampPieces) /\ digits \in Seq(LampPieces) /\ hours = head \o digits
    BY <1>2, <1>4
  <2> HIDE DEF hours
  <2>2. /\ hours \in Seq(LampPieces) /\ Len(hours) = Len(head) + Len(digits)
        /\ \A i \in 1..Len(head) : hours[i] = head[i]
        /\ \A i \in 1..Len(digits) : hours[Len(head) + i] = digits[i]
    BY ONLY <2>1
  <2>3. Len(head) = 2 /\ Len(digits) = n
    BY <1>2
  <2> QED
    BY ONLY <2>2, <2>3
<1> HIDE DEF hours
<1>7. /\ first \in Seq(LampPieces) /\ Len(first) = (2 + n) + 2
      /\ \A i \in 1..(2 + n) : first[i] = hours[i]
      /\ \A i \in 1..2 : first[(2 + n) + i] = lamp[i]
  <2>1. hours \in Seq(LampPieces) /\ lamp \in Seq(LampPieces) /\ first = hours \o lamp
    BY <1>3, <1>6
  <2> HIDE DEF first
  <2>2. /\ first \in Seq(LampPieces) /\ Len(first) = Len(hours) + Len(lamp)
        /\ \A i \in 1..Len(hours) : first[i] = hours[i]
        /\ \A i \in 1..Len(lamp) : first[Len(hours) + i] = lamp[i]
    BY ONLY <2>1
  <2> QED
    BY ONLY <1>3, <1>6, <2>2
<1> HIDE DEF first
<1>8. /\ text \in Seq(LampPieces) /\ Len(text) = ((2 + n) + 2) + m
      /\ \A i \in 1..((2 + n) + 2) : text[i] = first[i]
      /\ \A i \in 1..m : text[((2 + n) + 2) + i] = more[i]
  <2>1. first \in Seq(LampPieces) /\ more \in Seq(LampPieces) /\ text = first \o more
    BY <1>7
  <2> HIDE DEF text
  <2>2. /\ text \in Seq(LampPieces) /\ Len(text) = Len(first) + Len(more)
        /\ \A i \in 1..Len(first) : text[i] = first[i]
        /\ \A i \in 1..Len(more) : text[Len(first) + i] = more[i]
    BY ONLY <2>1
  <2>3. Len(more) = m
    OBVIOUS
  <2> QED
    BY ONLY <1>7, <2>2, <2>3
<1> HIDE DEF text
<1>9. /\ text[1] = "x" /\ text[2] = "LAMP="
      /\ \A i \in 1..n : text[2 + i] = digits[i]
      /\ text[(2 + n) + 1] = " " /\ text[(2 + n) + 2] = lit
  <2>1. 1 \in 1..2 /\ 2 \in 1..2 /\ 1..2 \subseteq 1..(2 + n)
    OBVIOUS
  <2>2. \A i \in 1..(2 + n) : i \in 1..((2 + n) + 2)
    OBVIOUS
  <2>3. \A i \in 1..n : 2 + i \in 1..(2 + n)
    OBVIOUS
  <2>4. \A i \in 1..2 : (2 + n) + i \in 1..((2 + n) + 2)
    OBVIOUS
  <2> QED
    BY ONLY <1>2, <1>3, <1>6, <1>7, <1>8, <2>1, <2>2, <2>3, <2>4
<1> QED
  BY ONLY <1>5, <1>8, <1>9 DEF IsLampText

\* A text of one piece is that piece.
LEMMA OnePiece ==
  ASSUME NEW text \in Seq(Pieces), Len(text) = 1
  PROVE  text = <<text[1]>>
<1>1. /\ <<text[1]>> \in Seq(Pieces) /\ Len(<<text[1]>>) = 1 /\ <<text[1]>>[1] = text[1]
  <2>1. text[1] \in Pieces
    OBVIOUS
  <2> QED
    BY ONLY <2>1
<1> QED
  BY <1>1, SeqEqual

\* strings.Fields: what the parser reads of a payload whose first two fields are a number of
\* n digits and one piece.
LEMMA TwoFields ==
  ASSUME NEW payload \in Seq(Pieces), NEW n \in Nat \ {0}, NEW len \in Nat,
         Len(payload) = len, len >= n + 2,
         \A i \in 1..n : payload[i] \notin Space,
         payload[n + 1] \in Space, payload[n + 2] \notin Space,
         len # n + 2 => payload[n + 3] \in Space,
         payload[len] \notin Space
  PROVE  /\ TrimSpace(payload) = payload
         /\ FirstField(payload) = SubSeq(payload, 1, n)
         /\ FirstField(Rest(payload)) = <<payload[n + 2]>>
<1> DEFINE after == SubSeq(payload, n + 1, len)
           rest == SubSeq(after, 2, len - n)
<1>1. TrimSpace(payload) = payload
  <2>1. payload[1] \notin Space /\ len # 0
    OBVIOUS
  <2> QED
    BY <2>1, NothingToTrim
<1>2. FirstField(payload) = SubSeq(payload, 1, n)
  <2>1. n + 1 \in 1..Len(payload) /\ (n + 1) - 1 = n
    OBVIOUS
  <2>2. FirstField(payload) = SubSeq(payload, 1, (n + 1) - 1)
    BY <2>1, FirstFieldBeforeSpace
  <2> QED
    BY <2>1, <2>2
<1>3. Len(FirstField(payload)) = n
  <2>1. 1 \in Nat \ {0} /\ n \in Nat /\ 1 <= n + 1 /\ n <= Len(payload)
    OBVIOUS
  <2>2. Len(SubSeq(payload, 1, n)) = n - 1 + 1
    BY <2>1, PartOf
  <2> QED
    BY <1>2, <2>2
<1>4. /\ after \in Seq(Pieces) /\ Len(after) = len - n
      /\ \A i \in 1..(len - n) : after[i] = payload[n + i]
  <2>1. n + 1 \in Nat \ {0} /\ n + 1 <= len + 1 /\ len <= Len(payload)
    OBVIOUS
  <2>2. /\ after \in Seq(Pieces) /\ Len(after) = len - (n + 1) + 1
        /\ \A i \in 1..(len - (n + 1) + 1) : after[i] = payload[(n + 1) + i - 1]
    BY <2>1, PartOf
  <2> HIDE DEF after
  <2>3. len - (n + 1) + 1 = len - n /\ \A i \in Nat : (n + 1) + i - 1 = n + i
    OBVIOUS
  <2> QED
    BY <2>2, <2>3
<1>5. Rest(payload) = TrimSpace(after)
  BY <1>3 DEF Rest
<1> HIDE DEF after
<1>6. /\ after[1] \in Space /\ after[2] = payload[n + 2] /\ after[2] \notin Space
      /\ after[len - n] \notin Space
      /\ len - n # 2 => after[3] \in Space
  <2>1. /\ after[1] = payload[n + 1] /\ after[2] = payload[n + 2]
        /\ after[len - n] = payload[n + (len - n)]
        /\ len - n # 2 => after[3] = payload[n + 3]
    BY <1>4
  <2>2. n + (len - n) = len
    OBVIOUS
  <2> QED
    BY <2>1, <2>2
<1>7. TrimSpace(after) = rest
  <2>1. 2 \in 1..Len(after) /\ len - n \in 2..Len(after)
    BY <1>4
  <2>2. /\ \A i \in 1..(2 - 1) : after[i] \in Space
        /\ \A i \in ((len - n) + 1)..Len(after) : after[i] \in Space
    BY <1>4, <1>6
  <2> QED
    BY <1>4, <1>6, <2>1, <2>2, TrimSpaceIs
<1>8. /\ rest \in Seq(Pieces) /\ Len(rest) = len - n - 1
      /\ \A i \in 1..(len - n - 1) : rest[i] = after[1 + i]
  <2>1. len - n \in Nat /\ 2 \in Nat \ {0} /\ 2 <= (len - n) + 1 /\ len - n <= Len(after)
    BY <1>4
  <2>2. /\ rest \in Seq(Pieces) /\ Len(rest) = (len - n) - 2 + 1
        /\ \A i \in 1..((len - n) - 2 + 1) : rest[i] = after[2 + i - 1]
    BY <1>4, <2>1, PartOf
  <2> HIDE DEF rest
  <2>3. (len - n) - 2 + 1 = len - n - 1 /\ \A i \in Nat : 2 + i - 1 = 1 + i
    OBVIOUS
  <2> QED
    BY <2>2, <2>3
<1> HIDE DEF rest
<1>9. rest[1] = payload[n + 2] /\ rest[1] \notin Space
  BY <1>6, <1>8
<1>10. FirstField(rest) = <<rest[1]>>
  <2>1. CASE len - n = 2
    <3>1. Len(rest) = 1
      BY <1>8, <2>1
    <3>2. FirstField(rest) = rest
      BY <1>8, <1>9, <3>1, FirstFieldToEnd
    <3> QED
      BY <1>8, <3>1, <3>2, OnePiece
  <2>2. CASE len - n # 2
    <3>1. 2 \in 1..Len(rest) /\ rest[2] \in Space
      BY <1>6, <1>8, <2>2
    <3>2. \A i \in 1..(2 - 1) : rest[i] \notin Space
      BY <1>9
    <3>3. FirstField(rest) = SubSeq(rest, 1, 2 - 1)
      BY <1>8, <3>1, <3>2, FirstFieldBeforeSpace
    <3> DEFINE field == SubSeq(rest, 1, 1)
    <3>4. /\ field \in Seq(Pieces) /\ Len(field) = 1 - 1 + 1
          /\ \A i \in 1..(1 - 1 + 1) : field[i] = rest[1 + i - 1]
      <4>1. 1 \in Nat \ {0} /\ 1 \in Nat /\ 1 <= 1 + 1 /\ 1 <= Len(rest)
        BY <3>1
      <4> QED
        BY <1>8, <4>1, PartOf
    <3>5. FirstField(rest) = field
      BY <3>3
    <3> HIDE DEF field
    <3>6. Len(field) = 1 /\ field[1] = rest[1]
      BY <3>4
    <3> QED
      BY <3>4, <3>5, <3>6, OnePiece
  <2> QED
    BY <2>1, <2>2
<1> QED
  BY <1>1, <1>2, <1>5, <1>7, <1>9, <1>10

\* What is left of a lamp's answer when its ends are trimmed: everything up to its last
\* solid piece, which is the state of the first lamp or comes after it.
LEMMA LampResponse ==
  ASSUME NEW text \in Seq(LampPieces), NEW k \in Nat \ {0}, k <= Len(text),
         text[1] = "x", text[k] \notin Space
  PROVE  \E b \in k..Len(text) :
             /\ TrimSpace(text \o <<"CR">>) = SubSeq(text, 1, b)
             /\ text[b] \notin Space
<1> DEFINE raw == text \o <<"CR">>
<1>1. LampPieces \subseteq Pieces
  BY Solid DEF LampPieces
<1>2. text \in Seq(Pieces) /\ Len(text) \in Nat
  BY <1>1, SeqMonotonic
<1>3. /\ raw \in Seq(Pieces) /\ Len(raw) = Len(text) + 1
      /\ \A i \in 1..Len(text) : raw[i] = text[i]
      /\ raw[Len(text) + 1] = "CR"
  BY <1>2, SaysText
<1> HIDE DEF raw
<1>4. PICK b \in k..Len(raw) :
        raw[b] \notin Space /\ \A i \in (b + 1)..Len(raw) : raw[i] \in Space
  <2>1. k \in 1..Len(raw) /\ raw[k] \notin Space
    BY <1>2, <1>3
  <2> QED
    BY <1>3, <2>1, LastSolid
<1>5. b \in k..Len(text) /\ text[b] \notin Space
  <2>1. b # Len(text) + 1
    BY <1>3, <1>4, Solid
  <2> QED
    BY <1>2, <1>3, <1>4, <2>1
<1>6. TrimSpace(raw) = SubSeq(raw, 1, b)
  <2>1. raw[1] \notin Space
    <3>1. "x" \notin Space
      BY Solid
    <3>2. 1 \in 1..Len(text)
      BY <1>2
    <3> QED
      BY <1>3, <3>1, <3>2
  <2>2. 1 \in 1..Len(raw) /\ b \in 1..Len(raw) /\ \A i \in 1..(1 - 1) : raw[i] \in Space
    BY <1>2, <1>3, <1>5
  <2> QED
    BY <1>3, <1>4, <2>1, <2>2, TrimSpaceIs
<1>7. SubSeq(raw, 1, b) = SubSeq(text, 1, b)
  <2>1. /\ 1 \in Nat \ {0} /\ b \in Nat /\ 1 <= b + 1
        /\ b <= Len(raw) /\ b <= Len(text)
    BY <1>2, <1>3, <1>5
  <2> DEFINE r == SubSeq(raw, 1, b)
             t == SubSeq(text, 1, b)
  <2>2. /\ r \in Seq(Pieces) /\ Len(r) = b - 1 + 1
        /\ \A i \in 1..(b - 1 + 1) : r[i] = raw[1 + i - 1]
    BY <1>3, <2>1, PartOf
  <2>3. /\ t \in Seq(Pieces) /\ Len(t) = b - 1 + 1
        /\ \A i \in 1..(b - 1 + 1) : t[i] = text[1 + i - 1]
    BY <1>2, <2>1, PartOf
  <2> HIDE DEF r, t
  <2>4. \A i \in 1..b : r[i] = t[i]
    <3> TAKE i \in 1..b
    <3>1. i \in 1..(b - 1 + 1) /\ 1 + i - 1 = i /\ i \in 1..Len(text)
      BY <1>2, <1>5
    <3> QED
      BY <1>3, <2>2, <2>3, <3>1
  <2>5. Len(r) = Len(t) /\ Len(r) = b
    BY <2>1, <2>2, <2>3
  <2>6. r = t
    BY ONLY <2>2, <2>3, <2>4, <2>5, SeqEqual
  <2> QED
    BY <2>6 DEF r, t
<1> QED
  BY <1>5, <1>6, <1>7 DEF raw

\* What the parser finds in a lamp's answer: the hours as they were sent, and the state of
\* the first lamp.
LEMMA LampFields ==
  ASSUME NEW digits \in Seq(Digits), digits # <<>>, NEW lit \in {"0", "1"},
         NEW more \in Seq(LampPieces), more = <<>> \/ more[1] \in Space
  PROVE  LET response == TrimSpace(LampText(digits, lit, more) \o <<"CR">>)
             payload == TrimSpace(After(response, "LAMP="))
         IN  /\ Contains(response, "LAMP=")
             /\ ~Contains(response, "POWR=")
             /\ \A i \in 1..4 : ~Contains(response, ErrorCodes[i])
             /\ FirstField(payload) = digits
             /\ FirstField(Rest(payload)) = <<lit>>
<1> DEFINE text == LampText(digits, lit, more)
           n == Len(digits)
           m == Len(more)
<1>1. /\ n \in Nat \ {0} /\ m \in Nat /\ (m # 0 => more[1] \in Space)
      /\ Len(digits) = n /\ Len(more) = m
  <2>1. n \in Nat /\ m \in Nat /\ n # 0
    OBVIOUS
  <2>2. m # 0 => more[1] \in Space
    OBVIOUS
  <2> QED
    BY <2>1, <2>2
<1>2. \A i \in 1..n : digits[i] \in Digits
  OBVIOUS
<1> HIDE DEF n, m
<1>3. /\ text \in Seq(LampPieces) /\ Len(text) = ((2 + n) + 2) + m
      /\ text[1] = "x" /\ text[2] = "LAMP="
      /\ \A i \in 1..n : text[2 + i] = digits[i]
      /\ text[(2 + n) + 1] = " " /\ text[(2 + n) + 2] = lit
      /\ \A i \in 1..m : text[((2 + n) + 2) + i] = more[i]
  <2>1. n \in Nat /\ m \in Nat
    BY <1>1
  <2>2. IsLampText(text, digits, lit, more, n, m)
    BY <1>1, <2>1, LampTextIs
  <2> QED
    BY ONLY <2>2 DEF IsLampText
<1> HIDE DEF text
<1>4. lit \notin Space /\ lit \in Digits
  <2>1. lit \in Digits
    BY DEF Digits
  <2> QED
    BY <2>1, Solid
<1>5. PICK b \in (n + 4)..Len(text) :
        TrimSpace(text \o <<"CR">>) = SubSeq(text, 1, b) /\ text[b] \notin Space
  <2>1. n + 4 \in Nat \ {0} /\ n + 4 <= Len(text) /\ text[n + 4] \notin Space
    <3>1. (2 + n) + 2 = n + 4 /\ n + 4 \in Nat \ {0} /\ n + 4 <= (n + 4) + m
      BY <1>1
    <3>2. text[n + 4] = lit /\ Len(text) = (n + 4) + m
      BY ONLY <1>3, <3>1
    <3> QED
      BY <1>4, <3>1, <3>2
  <2> QED
    BY <1>3, <2>1, LampResponse
<1>6. b \in Nat /\ b >= n + 4 /\ b <= ((2 + n) + 2) + m /\ b <= Len(text)
  <2>1. b \in (n + 4)..(((2 + n) + 2) + m)
    BY <1>3, <1>5
  <2>2. b \in Nat /\ b >= n + 4 /\ b <= ((2 + n) + 2) + m
    BY ONLY <1>1, <2>1
  <2> QED
    BY <1>3, <2>2
<1> DEFINE response == SubSeq(text, 1, b)
           payload == SubSeq(response, 3, b)
<1>7. /\ response \in Seq(Pieces) /\ Len(response) = b
      /\ \A i \in 1..b : response[i] = text[i]
      /\ \A i \in 1..b : response[i] \in LampPieces
  <2>1. text \in Seq(Pieces)
    <3>1. LampPieces \subseteq Pieces
      BY Solid DEF LampPieces
    <3> QED
      BY <1>3, <3>1, SeqMonotonic
  <2>2. 1 \in Nat \ {0} /\ b \in Nat /\ 1 <= b + 1 /\ b <= Len(text)
    BY <1>1, <1>6
  <2>3. /\ response \in Seq(Pieces) /\ Len(response) = b - 1 + 1
        /\ \A i \in 1..(b - 1 + 1) : response[i] = text[1 + i - 1]
    BY <2>1, <2>2, PartOf
  <2> HIDE DEF response
  <2>4. b - 1 + 1 = b /\ \A i \in Nat : 1 + i - 1 = i
    BY <2>2
  <2>5. \A i \in 1..b : text[i] \in LampPieces
    <3>1. Len(text) \in Nat
      BY <1>3, LenProperties
    <3>2. \A i \in 1..b : i \in 1..Len(text)
      BY ONLY <2>2, <3>1
    <3>3. \A i \in 1..Len(text) : text[i] \in LampPieces
      BY <1>3, ElementOfSeq
    <3> QED
      BY ONLY <3>2, <3>3
  <2> QED
    BY <2>3, <2>4, <2>5
<1> HIDE DEF response
<1>8. \A e : Contains(response, e) => e \in LampPieces
  BY <1>7 DEF Contains
<1>9. ~Contains(response, "POWR=") /\ \A i \in 1..4 : ~Contains(response, ErrorCodes[i])
  <2>1. {"POWR=", "ERR1", "ERR2", "ERR3", "ERR4"} \cap LampPieces = {}
    BY DEF LampPieces, Digits, Space
  <2>2. \A i \in 1..4 : ErrorCodes[i] \in {"ERR1", "ERR2", "ERR3", "ERR4"}
    BY DEF ErrorCodes
  <2> QED
    BY <1>8, <2>1, <2>2
<1>10. response[2] = "LAMP=" /\ response[1] # "LAMP=" /\ 2 \in 1..Len(response)
  <2>1. 1 \in 1..b /\ 2 \in 1..b
    BY <1>1, <1>6
  <2> QED
    BY <1>3, <1>7, <2>1
<1>11. After(response, "LAMP=") = payload
  <2>1. \A i \in 1..(2 - 1) : response[i] # "LAMP="
    BY <1>10
  <2>2. After(response, "LAMP=") = SubSeq(response, 2 + 1, Len(response))
    BY <1>7, <1>10, <2>1, AfterIs
  <2> QED
    BY <1>7, <2>2
<1>12. /\ payload \in Seq(Pieces) /\ Len(payload) = b - 2
       /\ \A i \in 1..(b - 2) : payload[i] = text[i + 2]
  <2>1. 3 \in Nat \ {0} /\ b \in Nat /\ 3 <= b + 1 /\ b <= Len(response)
    BY <1>1, <1>7, <1>6
  <2>2. /\ payload \in Seq(Pieces) /\ Len(payload) = b - 3 + 1
        /\ \A i \in 1..(b - 3 + 1) : payload[i] = response[3 + i - 1]
    BY <1>7, <2>1, PartOf
  <2> HIDE DEF payload
  <2>3. b - 3 + 1 = b - 2
    BY <1>6
  <2>4. ASSUME NEW i \in 1..(b - 2) PROVE payload[i] = text[i + 2]
    <3>1. 3 + i - 1 = i + 2 /\ i + 2 \in 1..b
      BY <1>6
    <3> QED
      BY <1>7, <2>2, <2>3, <3>1
  <2> QED
    BY <2>2, <2>3, <2>4
<1> HIDE DEF payload
<1>13. /\ \A i \in 1..n : payload[i] = digits[i] /\ payload[i] \notin Space
       /\ payload[n + 1] \in Space
       /\ payload[n + 2] = lit /\ payload[n + 2] \notin Space
       /\ b - 2 # n + 2 => payload[n + 3] \in Space
       /\ payload[b - 2] \notin Space
  <2>1. ASSUME NEW i \in 1..n PROVE payload[i] = digits[i] /\ payload[i] \notin Space
    <3>1. i \in 1..(b - 2) /\ i + 2 = 2 + i
      BY <1>1, <1>6
    <3>2. payload[i] = digits[i]
      BY <1>3, <1>12, <3>1
    <3> QED
      BY <1>2, <3>2, Solid
  <2>2. payload[n + 1] \in Space
    <3>1. n + 1 \in 1..(b - 2) /\ (n + 1) + 2 = (2 + n) + 1
      BY <1>1, <1>6
    <3>2. payload[n + 1] = " "
      BY <1>3, <1>12, <3>1
    <3> QED
      BY <3>2, Solid
  <2>3. payload[n + 2] = lit
    <3>1. n + 2 \in 1..(b - 2) /\ (n + 2) + 2 = (2 + n) + 2
      BY <1>1, <1>6
    <3> QED
      BY <1>3, <1>12, <3>1
  <2>4. ASSUME b - 2 # n + 2 PROVE payload[n + 3] \in Space
    <3>1. n + 3 \in 1..(b - 2) /\ (n + 3) + 2 = ((2 + n) + 2) + 1 /\ 1 \in 1..m
      BY <1>1, <1>6, <2>4
    <3>2. payload[n + 3] = more[1]
      BY <1>3, <1>12, <3>1
    <3> QED
      BY <1>1, <3>1, <3>2
  <2>5. payload[b - 2] \notin Space
    <3>1. b - 2 \in 1..(b - 2) /\ (b - 2) + 2 = b
      BY <1>1, <1>6
    <3> QED
      BY <1>5, <1>12, <3>1
  <2> QED
    BY <1>4, <2>1, <2>2, <2>3, <2>4, <2>5
<1>14. /\ TrimSpace(payload) = payload
       /\ FirstField(payload) = SubSeq(payload, 1, n)
       /\ FirstField(Rest(payload)) = <<payload[n + 2]>>
  <2>1. b - 2 \in Nat /\ b - 2 >= n + 2
    BY <1>1, <1>6
  <2> QED
    BY <1>1, <1>12, <1>13, <2>1, TwoFields
<1>15. SubSeq(payload, 1, n) = digits
  <2> DEFINE hours == SubSeq(payload, 1, n)
  <2>1. 1 \in Nat \ {0} /\ n \in Nat /\ 1 <= n + 1 /\ n <= Len(payload)
    BY <1>1, <1>6, <1>12
  <2>2. /\ hours \in Seq(Pieces) /\ Len(hours) = n - 1 + 1
        /\ \A i \in 1..(n - 1 + 1) : hours[i] = payload[1 + i - 1]
    BY <1>12, <2>1, PartOf
  <2> HIDE DEF hours
  <2>3. n - 1 + 1 = n /\ \A i \in Nat : 1 + i - 1 = i
    BY <1>1
  <2>4. digits \in Seq(Pieces)
    <3>1. Digits \subseteq Pieces
      BY Solid
    <3> QED
      BY <3>1, SeqMonotonic
  <2>5. Len(hours) = Len(digits) /\ \A i \in 1..Len(hours) : hours[i] = digits[i]
    BY <1>13, <2>2, <2>3 DEF n
  <2>6. hours = digits
    BY ONLY <2>2, <2>4, <2>5, SeqEqual
  <2> QED
    BY <2>6 DEF hours
<1>16. Contains(response, "LAMP=")
  BY <1>10 DEF Contains
<1> QED
  BY <1>5, <1>9, <1>11, <1>13, <1>14, <1>15, <1>16 DEF response, text

\* The hours are the number sent, and the first lamp's state is the one sent.
LEMMA LampAnswersMean ==
  ASSUME NEW a \in LampAnswers
  PROVE  ParseTelemetry(a.text) = a.means
<1>1. CASE a \in ErrorAnswers("LAMP=")
  BY <1>1, ErrorAnswersMean
<1>2. CASE a = Foreign
  BY <1>2, ForeignMeans
<1> DEFINE Means(digits, lit) ==
               [key \in {"lamp_hours", "lamp_status"} |->
                   CASE key = "lamp_hours" -> Hours[digits]
                     [] key = "lamp_status" -> IF lit = "1" THEN "ON" ELSE "OFF"]
<1>3. ASSUME NEW digits \in DOMAIN Hours, NEW lit \in {"0", "1"}, NEW more \in Lamps,
             a = Says(LampText(digits, lit, more), Means(digits, lit))
      PROVE  ParseTelemetry(a.text) = a.means
  <2> DEFINE response == TrimSpace(LampText(digits, lit, more) \o <<"CR">>)
             payload == TrimSpace(After(response, "LAMP="))
  <2>1. /\ digits \in Seq(Digits) /\ digits # <<>> /\ Hours[digits] = Atoi(digits)
        /\ more \in Seq(LampPieces) /\ (more = <<>> \/ more[1] \in Space)
    BY ChainAssumption
  <2>2. /\ Contains(response, "LAMP=")
        /\ ~Contains(response, "POWR=")
        /\ \A i \in 1..4 : ~Contains(response, ErrorCodes[i])
        /\ FirstField(payload) = digits
        /\ FirstField(Rest(payload)) = <<lit>>
    BY <2>1, LampFields
  <2>3. /\ a.text = LampText(digits, lit, more) \o <<"CR">>
        /\ a.means = Means(digits, lit)
    BY <1>3 DEF Says
  <2>4. ParseTelemetry(a.text) = IF Values(response) # None THEN Values(response)
                                 ELSE Key("rawResponse", response)
    <3> HIDE DEF response
    <3>1. ParsePJLinkError(response) = 0
      BY <2>2, NoErrorFound
    <3> QED
      BY <2>3, <3>1 DEF ParseTelemetry, response
  <2>5. IsNumber(digits)
    <3>1. \A i \in DOMAIN digits : digits[i] \in Digits
      BY <2>1
    <3> QED
      BY <2>1, <3>1 DEF IsNumber, Range
  <2> DEFINE status == IF lit = "1" THEN "ON" ELSE "OFF"
  <2>6. <<lit>> # <<>> /\ (<<lit>> = <<"1">> <=> lit = "1")
    OBVIOUS
  <2> HIDE DEF response
  <2>7. ParseLAMPResponse(response) =
          MergeTelemetry(Key("lamp_hours", Atoi(digits)), Key("lamp_status", status))
    BY <2>2, <2>5, <2>6 DEF ParseLAMPResponse
  <2>8. Values(response) = MergeTelemetry(None, ParseLAMPResponse(response))
    BY <2>2 DEF Values
  <2> HIDE DEF status
  <2>9. MergeTelemetry(Key("lamp_hours", Atoi(digits)), Key("lamp_status", status)) =
          [key \in {"lamp_hours", "lamp_status"} |->
              IF key = "lamp_status" THEN status ELSE Atoi(digits)]
    BY DEF MergeTelemetry, Key
  <2>10. Values(response) = [key \in {"lamp_hours", "lamp_status"} |->
                                IF key = "lamp_status" THEN status ELSE Atoi(digits)]
    BY <2>7, <2>8, <2>9 DEF MergeTelemetry, None
  <2>11. Values(response) = Means(digits, lit)
    BY <2>1, <2>10 DEF status
  <2>12. Values(response) # None
    <3>1. "lamp_hours" \in DOMAIN Values(response) /\ "lamp_hours" \notin DOMAIN None
      BY <2>10 DEF None
    <3> QED
      BY <3>1
  <2> QED
    BY <2>3, <2>4, <2>11, <2>12
<1>4. \/ a \in ErrorAnswers("LAMP=") \cup {Foreign}
      \/ \E digits \in DOMAIN Hours, lit \in {"0", "1"}, more \in Lamps :
             a = Says(LampText(digits, lit, more), Means(digits, lit))
  BY DEF LampAnswers
<1> HIDE DEF Means
<1> QED
  BY <1>1, <1>2, <1>3, <1>4

\* No answer is empty: a peer that answers is told from a chain that has none.
LEMMA AnswersAreAnswers ==
  ASSUME NEW a \in PowerAnswers \cup LampAnswers
  PROVE  a # Waiting /\ a # Failed
<1>1. a.text[1] = "x"
  <2>1. ASSUME NEW text \in Seq(Pieces), Len(text) # 0, text[1] = "x"
        PROVE  (text \o <<"CR">>)[1] = "x"
    <3>1. 1 \in 1..Len(text)
      BY <2>1
    <3> QED
      BY <2>1, <3>1, SaysText
  <2>2. ASSUME NEW query \in {"POWR=", "LAMP="}, a \in ErrorAnswers(query)
        PROVE  a.text[1] = "x"
    <3>1. PICK e \in Range(ErrorCodes) : a = Says(<<"x", query, e>>, Key("error", e))
      BY <2>2 DEF ErrorAnswers
    <3>2. e \in {"ERR1", "ERR2", "ERR3", "ERR4"}
      BY <3>1 DEF ErrorCodes, Range
    <3>3. "x" \in Pieces /\ query \in Pieces /\ e \in Pieces
      BY <3>2 DEF Pieces
    <3>4. <<"x", query, e>> \in Seq(Pieces) /\ Len(<<"x", query, e>>) # 0
          /\ <<"x", query, e>>[1] = "x"
      BY ONLY <3>3
    <3> QED
      BY <2>1, <3>1, <3>4 DEF Says
  <2>3. CASE a = Foreign
    <3>1. <<"x">> \in Seq(Pieces) /\ Len(<<"x">>) # 0 /\ <<"x">>[1] = "x"
      <4>1. "x" \in Pieces
        BY Solid
      <4> QED
        BY ONLY <4>1
    <3> QED
      BY <2>1, <2>3, <3>1 DEF Foreign, Says
  <2>4. ASSUME NEW p \in Digits, a = Says(<<"x", "POWR=", p>>, Key("powerState", PowerMeans(p)))
        PROVE  a.text[1] = "x"
    <3>1. "x" \in Pieces /\ "POWR=" \in Pieces /\ p \in Pieces
      BY Solid
    <3>2. <<"x", "POWR=", p>> \in Seq(Pieces) /\ Len(<<"x", "POWR=", p>>) # 0
          /\ <<"x", "POWR=", p>>[1] = "x"
      BY ONLY <3>1
    <3> QED
      BY <2>1, <2>4, <3>2 DEF Says
  <2>5. ASSUME NEW digits \in DOMAIN Hours, NEW lit \in {"0", "1"}, NEW more \in Lamps,
               a.text = LampText(digits, lit, more) \o <<"CR">>
        PROVE  a.text[1] = "x"
    <3> DEFINE text == LampText(digits, lit, more)
               n == Len(digits)
               m == Len(more)
    <3>1. /\ digits \in Seq(Digits) /\ more \in Seq(LampPieces) /\ n \in Nat /\ m \in Nat
          /\ Len(digits) = n /\ Len(more) = m
      BY ChainAssumption
    <3> HIDE DEF n, m
    <3>2. IsLampText(text, digits, lit, more, n, m)
      BY <3>1, LampTextIs
    <3> HIDE DEF text
    <3>3. text \in Seq(LampPieces) /\ Len(text) # 0 /\ text[1] = "x"
      <4>1. text \in Seq(LampPieces) /\ Len(text) = ((2 + n) + 2) + m /\ text[1] = "x"
        BY ONLY <3>2 DEF IsLampText
      <4>2. ((2 + n) + 2) + m # 0
        BY ONLY <3>1
      <4> QED
        BY ONLY <4>1, <4>2
    <3>4. LampPieces \subseteq Pieces
      BY Solid DEF LampPieces
    <3>5. text \in Seq(Pieces)
      BY <3>3, <3>4, SeqMonotonic
    <3> QED
      BY <2>1, <2>5, <3>3, <3>5 DEF text
  <2>6. CASE a \in PowerAnswers
    BY <2>2, <2>3, <2>4, <2>6 DEF PowerAnswers
  <2>7. CASE a \in LampAnswers
    <3>1. CASE a \in ErrorAnswers("LAMP=") \/ a = Foreign
      BY <2>2, <2>3, <3>1
    <3>2. CASE \E digits \in DOMAIN Hours, lit \in {"0", "1"}, more \in Lamps :
                   a.text = LampText(digits, lit, more) \o <<"CR">>
      BY <2>5, <3>2
    <3> QED
      BY <2>7, <3>1, <3>2 DEF LampAnswers, Says
  <2> QED
    BY <2>6, <2>7
<1>2. Waiting.text[1] = "CR" /\ Failed.text[1] = "CR"
  <2>1. <<>> \in Seq(Pieces) /\ Len(<<>>) = 0
    OBVIOUS
  <2>2. (<<>> \o <<"CR">>)[0 + 1] = "CR"
    BY <2>1, SaysText
  <2> QED
    BY <2>2 DEF Waiting, Failed, Says
<1> QED
  BY <1>1, <1>2

---------------------------------------------------------------------------------
(* The chain.                                                                    *)

\* Nor is a chain that waits one that failed.
LEMMA WaitingIsNotFailed == Waiting # Failed
<1>1. Waiting.means # Failed.means
  BY DEF Waiting, Failed, Says
<1> QED
  BY <1>1

\* The telemetry of a chain is what was parsed of the answers it has had.
LEMMA ChainInvInit == ChainInit => ChainInv
BY DEF ChainInit, ChainInv

\* Every step keeps it so.
LEMMA ChainInvStep == ChainInv /\ [ChainNext]_chainVars => ChainInv'
<1> SUFFICES ASSUME ChainInv, [ChainNext]_chainVars PROVE ChainInv'
  OBVIOUS
<1>1. CASE UNCHANGED chain
  BY <1>1 DEF ChainInv, chain
<1>2. CASE FollowUpParsed
  <2>1. followUp = Waiting /\ telemetry = ParseTelemetry(primary.text) /\ primary \in PowerAnswers
    BY <1>2, AnswersAreAnswers, WaitingIsNotFailed DEF FollowUpParsed, ChainInv
  <2> QED
    BY <1>2, <2>1 DEF FollowUpParsed, ChainInv
<1>3. CASE ChainFails
  BY <1>3 DEF ChainFails, ChainInv
<1> QED
  BY <1>1, <1>2, <1>3 DEF ChainNext, chainVars

\* What the parser made of the answers is what they meant.
LEMMA ChainInvImplies == ChainInv => TelemetryIsWhatWasSaid
<1> SUFFICES ASSUME ChainInv PROVE TelemetryIsWhatWasSaid
  OBVIOUS
<1>1. ParseTelemetry(primary.text) = primary.means
  BY PowerAnswersMean DEF ChainInv
<1>2. Waiting # Failed
  BY WaitingIsNotFailed
<1>3. CASE followUp = Waiting /\ telemetry = ParseTelemetry(primary.text)
  <2>1. telemetry = primary.means /\ followUp # Failed
    BY <1>1, <1>2, <1>3
  <2>2. DOMAIN None = {}
    BY DEF None
  <2> QED
    BY <1>3, <2>1, <2>2 DEF TelemetryIsWhatWasSaid
<1>4. CASE followUp = Failed /\ telemetry = None
  BY <1>4 DEF TelemetryIsWhatWasSaid
<1>5. CASE /\ followUp \in LampAnswers
           /\ telemetry = MergeTelemetry(ParseTelemetry(primary.text), ParseTelemetry(followUp.text))
  <2>1. ParseTelemetry(followUp.text) = followUp.means
    BY <1>5, LampAnswersMean
  <2>2. followUp # Waiting /\ followUp # Failed
    BY <1>5, AnswersAreAnswers
  <2>3. telemetry = MergeTelemetry(primary.means, followUp.means)
    BY <1>1, <1>5, <2>1
  <2> QED
    BY <2>2, <2>3 DEF TelemetryIsWhatWasSaid, MergeTelemetry
<1> QED
  BY <1>3, <1>4, <1>5 DEF ChainInv

\* The chain's calls are calls of SendCommand: what holds of a call holds of each of them.
THEOREM ChainIsSession == ChainSpec => Spec
<1>1. ChainInit => Init
  BY DEF ChainInit
<1>2. [ChainNext]_chainVars => [Next]_vars
  BY DEF ChainNext, chainVars, FollowUpParsed, ChainFails
<1> QED
  BY <1>1, <1>2, PTL DEF ChainSpec, Spec

\* GET_STATUS tells what the projector said of its power and of its lamp, key by key, for
\* every number of hours and whatever follows the first lamp: values of one answer stay
\* beside an error of the other, an error leaves no value of its own answer, and a chain that
\* failed tells nothing (pjlink_adapter.go 45-133, engine.go 192-232).
THEOREM StatusIsWhatWasSaid == ChainSpec => []TelemetryIsWhatWasSaid
<1>1. ChainInit => ChainInv
  BY ChainInvInit
<1>2. ChainInv /\ [ChainNext]_chainVars => ChainInv'
  BY ChainInvStep
<1>3. ChainInv => TelemetryIsWhatWasSaid
  BY ChainInvImplies
<1> QED
  BY <1>1, <1>2, <1>3, PTL DEF ChainSpec
=================================================================================
