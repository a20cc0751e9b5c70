----------------------------- MODULE Detectors -----------------------------
(***************************************************************************)
(* SqlInjectionDetector and XssDetector as ScanRoute calls them: which of  *)
(* the texts of a request they look at, in which order, and what they make *)
(* of them.  ScanRoute.tla knows of a request only its hits, the places    *)
(* where it matches patterns of each kind; this module says what a hit is  *)
(* and checks that nothing more was lost.                                  *)
(*                                                                         *)
(* A text is a sequence of characters; one character here may stand for    *)
(* several of the program's.  The two detectors differ in their lists of   *)
(* patterns alone.                                                         *)
(***************************************************************************)
EXTENDS Naturals, Sequences, SequencesExt

CONSTANTS
    Chars,
    lowerCase,            \* tolower: Chars -> Chars
    SQLI_PATTERNS, XSS_PATTERNS,    \* sequences of texts in lower case
    Skip,             \* the names of kSkip, in lower case
    Messages          \* what the scans are given

Kinds == {"SQLi", "XSS"}
Patterns(kind) == IF kind = "SQLi" THEN SQLI_PATTERNS ELSE XSS_PATTERNS

Text == Seq(Chars)
Pair == [name : Text, text : Text]

\* The keys of a std::map are distinct.
Named(pairs) == \A i, j \in DOMAIN pairs : pairs[i].name = pairs[j].name => i = j

ASSUME DetectorAssumption ==
    /\ lowerCase \in [Chars -> Chars]
    /\ \A kind \in Kinds : Patterns(kind) \in Seq(Text \ {<<>>})
    /\ \A kind \in Kinds : \A pattern \in ToSet(Patterns(kind)) :
           \A c \in ToSet(pattern) : lowerCase[c] = c
    /\ Messages \subseteq [path : Text, body : Text, query : Seq(Pair), headers : Seq(Pair)]
    /\ \A m \in Messages : Named(m.query) /\ Named(m.headers)

VARIABLES
    message,      \* the request being scanned
    result        \* what came of it: the attack, and the detail of the response

detectorVars == <<message, result>>

-----------------------------------------------------------------------------

Occurs(pattern, text) ==
    \E i \in 0..(Len(text) - Len(pattern)) :
        SubSeq(text, i + 1, i + Len(pattern)) = pattern

ToLower(text) == [i \in DOMAIN text |-> lowerCase[text[i]]]

\* Mutation: the loop goes on after a match, and the last one is reported.
MatchedLast(kind, text) ==
    SelectLastInSeq(Patterns(kind), LAMBDA p : Occurs(p, ToLower(text)))

\* containsSqli, containsXss: the index of the first pattern that occurs, or 0.
Matched(kind, text) ==
    SelectInSeq(Patterns(kind), LAMBDA p : Occurs(p, ToLower(text)))

IsScannableHeader(name) == ToLower(name) \notin Skip

Place(where, name, text) == [where |-> where, name |-> name, text |-> text]

Parameters(where, pairs) ==
    [i \in DOMAIN pairs |-> Place(where, pairs[i].name, pairs[i].text)]

\* Mutation: the first header on the list ends the loop (break for continue).
ScannableUntilSkipped(headers) ==
    LET first == SelectInSeq(headers, LAMBDA h : ~IsScannableHeader(h.name))
    IN  IF first = 0 THEN headers ELSE SubSeq(headers, 1, first - 1)

Scannable(headers) ==
    LET kept[i \in 0..Len(headers)] ==
            IF i = 0 THEN <<>>
            ELSE IF IsScannableHeader(headers[i].name) THEN Append(kept[i - 1], headers[i])
            ELSE kept[i - 1]
    IN  kept[Len(headers)]

\* The texts a detector looks at, in its order; the pairs are in the order of the
\* std::map that holds them.
Places(m) ==
    <<Place("path", <<>>, m.path)>> \o Parameters("query", m.query)
        \o <<Place("body", <<>>, m.body)>> \o Parameters("header", Scannable(m.headers))

NotScanned == [attack |-> "none", where |-> "", name |-> <<>>, pattern |-> <<>>]
Safe == [NotScanned EXCEPT !.attack = "safe"]

\* scan of one detector: the first place with a match decides.  The detail is of the
\* place, its name and the pattern; the value that matched is not in it.
Scan(kind, m) ==
    LET i == SelectInSeq(Places(m), LAMBDA p : Matched(kind, p.text) # 0)
        place == Places(m)[i]
    IN  IF i = 0 THEN Safe
        ELSE [attack |-> kind, where |-> place.where, name |-> place.name,
              pattern |-> Patterns(kind)[Matched(kind, place.text)]]

\* The part of ScanRoute that runs when the rate limit lets the request pass.
Detect ==
    /\ result = NotScanned
    /\ LET sqli == Scan("SQLi", message)
       IN  result' = IF sqli.attack # "safe" THEN sqli ELSE Scan("XSS", message)
    /\ UNCHANGED message

DetectorInit == message \in Messages /\ result = NotScanned
DetectorNext == Detect
DetectorSpec == DetectorInit /\ [][DetectorNext]_detectorVars

-----------------------------------------------------------------------------
(* Properties.                                                             *)

\* A text matches a pattern if some spelling of it, in any mixture of cases,
\* stands somewhere in it.
Spells(text, pattern) ==
    Len(text) = Len(pattern)
        /\ \A i \in DOMAIN text : text[i] = pattern[i] \/ lowerCase[text[i]] = pattern[i]

Includes(text, pattern) == \E i, j \in DOMAIN text : Spells(SubSeq(text, i, j), pattern)

Matches(kind, text) == \E p \in ToSet(Patterns(kind)) : Includes(text, p)

Texts(m) ==
    {<<"path", m.path>>, <<"body", m.body>>}
        \cup {<<"query", q.text>> : q \in ToSet(m.query)}
        \cup {<<"name", q.name>> : q \in ToSet(m.query) \cup ToSet(m.headers)}
        \cup {<<IF IsScannableHeader(h.name) THEN "header" ELSE "skipped", h.text>> :
                    h \in ToSet(m.headers)}

\* The hits of a message, as ScanRoute.tla is given them.
Hits(m) == UNION {{<<t[1], kind>> : t \in {u \in Texts(m) : Matches(kind, u[2])}} :
                    kind \in Kinds}

ScanRoute == INSTANCE ScanRoute WITH
    Scans <- Messages, hits <- [m \in Messages |-> Hits(m)], malformed <- {},
    Addresses <- {}, address <- <<>>, MAX_REQUESTS_PER_MINUTE <- 0,
    counter <- 0, ttl <- 0, window <- 0, incr <- 0, expires <- 0, timers <- 0,
    scan <- 0, faults <- 0, reply <- 0, inserting <- 0, rows <- 0

\* The loops over places, parameters, headers and patterns, with their returns and
\* continues, find exactly what ScanRoute's Detection says of the hits: nothing
\* scanned hides from them by its case, its position or what stands before it.
DetectionAgrees ==
    result # NotScanned => result.attack = ScanRoute!Detection(message)

\* The values that are scanned, each with where it stands in the request: the
\* path, the query, the body, the headers.
Value(section, i, where, name, text) ==
    [at |-> <<section, i>>, where |-> where, name |-> name, text |-> text]

Values(m) ==
    {Value(1, 1, "path", <<>>, m.path), Value(3, 1, "body", <<>>, m.body)}
        \cup {Value(2, i, "query", m.query[i].name, m.query[i].text) : i \in DOMAIN m.query}
        \cup {Value(4, i, "header", m.headers[i].name, m.headers[i].text) :
                    i \in {j \in DOMAIN m.headers : IsScannableHeader(m.headers[j].name)}}

Before(u, v) ==
    \/ u.at[1] < v.at[1]
    \/ u.at[1] = v.at[1] /\ u.at[2] < v.at[2]

\* The pattern is the first of the list that the text includes.
FirstIncluded(kind, text, pattern) ==
    \E i \in DOMAIN Patterns(kind) :
        /\ Patterns(kind)[i] = pattern /\ Includes(text, pattern)
        /\ \A j \in 1..(i - 1) : ~Includes(text, Patterns(kind)[j])

\* The detail in the response to a blocked request is true and the first: the value
\* of the parameter or header it names contains the pattern it reports, and none that
\* stands before it on the detector's list; and no value that stands before that one
\* in the request contains any pattern of the detector.
DetailIsFirst ==
    result.attack \in Kinds =>
        \E v \in Values(message) :
            /\ v.where = result.where /\ v.name = result.name
            /\ FirstIncluded(result.attack, v.text, result.pattern)
            /\ \A u \in Values(message) : Before(u, v) => ~Matches(result.attack, u.text)
=============================================================================
