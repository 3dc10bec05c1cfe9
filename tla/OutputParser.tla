----------------------------- MODULE OutputParser -----------------------------
(***************************************************************************)
(* app/output_parser.py: how the final JSON object is found in what the    *)
(* model wrote.  A text is a sequence of marks: the braces (open, close),  *)
(* quotes, backslashes and colons that the scanner and json.loads tell     *)
(* apart, a blank, a fence (```, with its json tag or without) and x for   *)
(* any other character.  An object has at most one member here: nothing in *)
(* the code looks at commas.                                               *)
(***************************************************************************)
EXTENDS Integers, Sequences, FiniteSetsExt

CONSTANTS
  None,
  Contents      \* final contents of the model

Marks == {"open", "close", "quote", "backslash", "colon", "blank", "fence", "x"}

Errors == {"EMPTY", "NO_OBJECT", "SCHEMA"}

ASSUME OutputParserAssumption ==
  /\ Contents \subseteq Seq(Marks) \cup {None}
  /\ None \notin Seq(Marks)
  /\ None \notin Errors
  /\ None \notin [error : Errors \cup {None}, payload : Seq(Marks)]

VARIABLES
  content,      \* what the model wrote
  outcome       \* None, then what parse_final_output returned or raised

parserVars == <<content, outcome>>

-----------------------------------------------------------------------------
(* json.loads: where the value that begins at i ends, 0 if none does.      *)

After(t, i) == Min({n \in i .. Len(t) + 1 : n = Len(t) + 1 \/ t[n] # "blank"})

Has(t, i, mark) == i \in DOMAIN t /\ t[i] = mark

\* In the string that begins at i: does mark j escape the one that follows?
Escaping(t, i) ==
  LET escaping[j \in (i - 1) .. Len(t)] == j >= i /\ t[j] = "backslash" /\ ~escaping[j - 1]
  IN escaping

\* From inside a string: only a quote and a backslash are escaped here.
StringEnd(t, i) ==
  LET escaping == Escaping(t, i)
      quotes == {j \in i .. Len(t) : t[j] = "quote" /\ ~escaping[j - 1]}
  IN IF /\ quotes # {}
        /\ \A j \in i .. Min(quotes) : escaping[j - 1] => t[j] \in {"quote", "backslash"}
     THEN Min(quotes) ELSE 0

\* Where the value of the member begins, in the object that begins at i.
ValueOf(t, i) ==
  LET key == After(t, i + 1)
      colon == After(t, StringEnd(t, key + 1) + 1)
  IN IF Has(t, key, "quote") /\ StringEnd(t, key + 1) # 0 /\ Has(t, colon, "colon")
     THEN After(t, colon + 1) ELSE 0

\* The brace that closes an object whose member ends at e.
Closing(t, e) == IF e # 0 /\ Has(t, After(t, e + 1), "close") THEN After(t, e + 1) ELSE 0

ObjectEnds(t) ==
  LET end[i \in 1 .. Len(t) + 1] ==
        IF ~Has(t, i, "open") THEN 0
        ELSE IF Has(t, After(t, i + 1), "close") THEN After(t, i + 1)
        ELSE IF ValueOf(t, i) = 0 THEN 0
        ELSE IF Has(t, ValueOf(t, i), "quote")
        THEN Closing(t, StringEnd(t, ValueOf(t, i) + 1))
        ELSE Closing(t, end[ValueOf(t, i)])
  IN end

ObjectEnd(t, i) == ObjectEnds(t)[i]

\* json.loads(t) returns a dict (t is stripped).
IsObject(t) == t # <<>> /\ ObjectEnd(t, 1) = Len(t)

\* The external contract requires fields: the empty object never satisfies it.
FitsSchema(t) == \E i \in DOMAIN t : t[i] = "quote"

-----------------------------------------------------------------------------
(* The scanner.                                                            *)

\* Mutation of Scanned: an escaped quote ends the string.
ScannedUnescaped(scan, char) ==
  IF scan.in_string
  THEN [scan EXCEPT !.in_string = char # "quote"]
  ELSE [scan EXCEPT !.in_string = char = "quote",
                    !.depth = IF char = "open" THEN @ + 1 ELSE IF char = "close" THEN @ - 1 ELSE @]

\* One character of _first_balanced_object.
Scanned(scan, char) ==
  IF scan.in_string
  THEN [scan EXCEPT !.escaped = ~@ /\ char = "backslash",
                    !.in_string = scan.escaped \/ char # "quote"]
  ELSE [scan EXCEPT !.in_string = char = "quote",
                    !.depth = IF char = "open" THEN @ + 1 ELSE IF char = "close" THEN @ - 1 ELSE @]

Fresh == [depth |-> 0, in_string |-> FALSE, escaped |-> FALSE]

\* The scanner after each character from the start on.
Scan(t, start) ==
  LET scan[i \in (start - 1) .. Len(t)] ==
        IF i < start THEN Fresh ELSE Scanned(scan[i - 1], t[i])
  IN scan

\* Where the braces opened at the start may be balanced.
BalancedEnds(t, start) ==
  LET scan == Scan(t, start) IN
  {i \in start .. Len(t) : t[i] = "close" /\ ~scan[i].in_string /\ scan[i].depth = 0}

Starts(t) == {i \in DOMAIN t : t[i] = "open" /\ BalancedEnds(t, i) # {}}

BalancedFrom(t, start) == SubSeq(t, start, Min(BalancedEnds(t, start)))

\* Mutation of FirstBalancedObject: no brace is tried after the first.
FirstBalancedOfFirstBrace(t) ==
  LET start == Min({i \in DOMAIN t : t[i] = "open"} \cup {Len(t) + 1}) IN
  IF start \notin Starts(t) THEN <<>> ELSE BalancedFrom(t, start)

\* _first_balanced_object, empty where there is none.
FirstBalancedObject(t) ==
  IF Starts(t) = {} THEN <<>> ELSE BalancedFrom(t, Min(Starts(t)))

\* Mutation of FenceEnds: the fence need not follow the brace.
FenceEndsLoose(t, s) ==
  {e \in s .. Len(t) : t[e] = "close" /\ \E n \in e .. Len(t) : t[n] = "fence"}

\* The closing braces that a fence follows.
FenceEnds(t, s) == {e \in s .. Len(t) : t[e] = "close" /\ Has(t, After(t, e + 1), "fence")}

\* _FENCED_JSON_RE: the shortest match of the fence at i.
Opens(t, i) ==
  /\ t[i] = "fence" /\ Has(t, After(t, i + 1), "open")
  /\ FenceEnds(t, After(t, i + 1)) # {}

FencedEnd(t, i) == Min(FenceEnds(t, After(t, i + 1)))

Fenced(t, i) == SubSeq(t, After(t, i + 1), FencedEnd(t, i))

\* findall: the last mark that the matches of the first i marks' fences took.
Consumed(t) ==
  LET consumed[i \in 0 .. Len(t)] ==
        IF i = 0 THEN 0
        ELSE LET last == consumed[i - 1] IN
             IF i > last /\ Opens(t, i) THEN After(t, FencedEnd(t, i) + 1) ELSE last
  IN consumed

FenceMatches(t) == {i \in DOMAIN t : i > Consumed(t)[i - 1] /\ Opens(t, i)}

Strip(t) ==
  LET inked == {i \in DOMAIN t : t[i] # "blank"} IN
  IF inked = {} THEN <<>> ELSE SubSeq(t, Min(inked), Max(inked))

\* _extract_json_object: the first candidate that is an object.
ExtractJsonObject(t) ==
  LET fenced == {i \in FenceMatches(t) : IsObject(Fenced(t, i))} IN
  IF IsObject(Strip(t)) THEN Strip(t)
  ELSE IF fenced # {} THEN Fenced(t, Min(fenced))
  ELSE IF IsObject(FirstBalancedObject(t)) THEN FirstBalancedObject(t)
  ELSE None

-----------------------------------------------------------------------------
Init == content \in Contents /\ outcome = None

Ends(result) == outcome = None /\ outcome' = result /\ UNCHANGED content

Parsed(payload) == [error |-> None, payload |-> payload]

\* OutputParseError
ParseError(error) == [error |-> error, payload |-> <<>>]

Blank == IF content = None THEN TRUE ELSE Strip(content) = <<>>

RejectBlank == Blank /\ Ends(ParseError("EMPTY"))

RejectWithoutObject ==
  ~Blank /\ ExtractJsonObject(content) = None /\ Ends(ParseError("NO_OBJECT"))

\* model_validate
Validated(payload) == IF FitsSchema(payload) THEN Parsed(payload) ELSE ParseError("SCHEMA")

ValidatePayload ==
  /\ ~Blank
  /\ ExtractJsonObject(content) # None
  /\ Ends(Validated(ExtractJsonObject(content)))

\* parse_final_output
Next == RejectBlank \/ RejectWithoutObject \/ ValidatePayload

Spec == Init /\ [][Next]_parserVars

-----------------------------------------------------------------------------
(* Properties.                                                             *)

\* The objects written in the content, by first and last position.
ObjectsIn(t) == {<<s, ObjectEnd(t, s)>> : s \in {i \in DOMAIN t : ObjectEnd(t, i) # 0}}

NoMark(t, first, last, mark) == \A i \in first .. last : t[i] # mark

\* parse_final_output tolerates a bare object, a fenced one and one embedded in
\* prose: an object that no other brace precedes is the one that is returned,
\* whatever braces, quotes and backslashes its strings hold and whatever
\* follows it, unless a fence inside its own strings is taken for an outer one
\* or another fenced text follows, which is looked at first.
FirstObjectFound ==
  outcome # None /\ content # None =>
    \A o \in ObjectsIn(content) :
      LET written == SubSeq(content, o[1], o[2]) IN
      /\ NoMark(content, 1, o[1] - 1, "open")
      /\ NoMark(content, o[1], o[2], "fence")
      /\ \A i, j \in (o[2] + 1) .. Len(content) :
           content[i] = "fence" /\ content[j] = "fence" => i = j
      => outcome = Validated(written)

\* An object is overlooked only behind braces of the prose that balance on
\* their own: neither an opening brace that is never closed nor a quote before
\* it hides the answer.
OverlookedBehindBraces ==
  outcome = ParseError("NO_OBJECT") =>
    \A o \in ObjectsIn(content) : \E s \in 1 .. (o[1] - 1) : s \in Starts(content)

\* An object in the one fence of the content is not overlooked for braces in
\* the prose around it: fences are looked at before braces are counted.
FencedObjectFound ==
  outcome # None /\ content # None /\ ~IsObject(Strip(content)) =>
    \A o \in ObjectsIn(content) :
      LET written == SubSeq(content, o[1], o[2])
          fences == {i \in DOMAIN content : content[i] = "fence"}
      IN
      /\ Cardinality(fences) = 2
      /\ \E open \in fences : open < o[1] /\ After(content, open + 1) = o[1]
      /\ Has(content, After(content, o[2] + 1), "fence")
      => outcome = Validated(written)

=============================================================================
