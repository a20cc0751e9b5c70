------------------------------ MODULE MCUnits ------------------------------
(***************************************************************************)
(* Four units that share no state, in one run: a behaviour is one of the   *)
(* unit that its first state names, and the others stay where they are.    *)
(*                                                                         *)
(* Detectors: requests of a path, at most one query parameter, a body and  *)
(* at most two headers, over texts that match neither list, one, or both,  *)
(* in lower and upper case, at their start and at their end.  "s" stands   *)
(* for "select" in "select " and for "script" in "<script".                *)
(*                                                                         *)
(* Credentials: two valid addresses, one in two cases and each with or     *)
(* without a blank on either side, one with a blank inside and one without *)
(* a dot; passwords that differ in case, and one without a letter.         *)
(*                                                                         *)
(* Tokens: two tokens of two bytes, in base 3, and a digest that permutes  *)
(* them.                                                                   *)
(*                                                                         *)
(* LazyInit: three of the four event loops of the middleware, each with a  *)
(* first request.                                                          *)
(***************************************************************************)
EXTENDS Detectors, Credentials, Tokens, LazyInit

MCChars == {"s", "S", "<", " ", "'", "accept", "Host", "host", "x-name"}
MCLowerCase == [c \in MCChars |-> CASE c = "S" -> "s" [] c = "Host" -> "host" [] OTHER -> c]

MCSqli == <<<<"'">>, <<"s", " ">>>>
MCXss == <<<<"<", "s">>>>
MCSkip == {<<"accept">>, <<"host">>}

MCTexts == {<<>>, <<"S">>, <<"<", "s", " ">>, <<"S", " ">>, <<" ", "<", "S">>, <<"'", "S", " ">>}
MCNames == {<<"accept">>, <<"Host">>, <<"x-name">>, <<"'">>}

Pairs(names) == [name : names, text : MCTexts]

MCMessages ==
    [path : {<<>>, <<"s", " ">>},
     body : {<<>>, <<"<", "s", " ">>},
     query : {<<>>} \cup {<<p>> : p \in Pairs({<<"S", " ">>, <<"x-name">>})},
     headers : {<<>>} \cup {<<p>> : p \in Pairs(MCNames)}
                 \cup {<<p, q>> : p \in Pairs({<<"accept">>, <<"x-name">>}),
                                  q \in Pairs({<<"Host">>, <<"'">>})}]

Valid == {<<"a", "@", "a", ".", "b">>, <<"A", "@", "a", ".", "B">>,
          <<"b", "@", "a", ".", "b", ".">>}
Malformed == {<<>>, <<" ">>, <<"a", " ", "@", "a", ".", "b">>, <<"a", "@", "a", "b">>}
MCRawEmails == Malformed \cup
    {before \o address \o after : before, after \in {<<>>, <<" ">>}, address \in Valid}
MCPasswords == {<<"a", "1">>, <<"A", "1">>, <<"1", "1">>}
MCFolded == [c \in {"A", "B"} |-> IF c = "A" THEN "a" ELSE "b"]

HexTexts == UNION {[1..n -> 0..(Base - 1)] : n \in 0..(2 * SIZE)}
Digits2(t, k) == IF 2 * k <= Len(t) THEN t[2 * k - 1] * Base + t[2 * k] ELSE 0
MCDigest == [t \in HexTexts |-> [k \in 1..SIZE |-> (Digits2(t, k) + k) % (Base * Base)]]

-----------------------------------------------------------------------------

VARIABLE unit

unitVars == <<unit, detectorVars, credentialVars, tokenVars, lazyVars>>

\* A unit that has no part in the behaviour: no request, and no call that goes on.
NoRequest == message = (CHOOSE m \in Messages : TRUE) /\ result = NotScanned
NoCall ==
    /\ pc = [c \in Calls |-> "failed"]
    /\ mutex = Nil /\ service = 0 /\ built = 0 /\ got = [c \in Calls |-> 0]
    /\ sodium = "unset" /\ initOk = FALSE /\ secret = "unset" /\ env = FALSE

UnitsInit ==
    /\ unit \in {"detectors", "credentials", "tokens", "first use"}
    /\ IF unit = "detectors" THEN DetectorInit ELSE NoRequest
    /\ IF unit = "first use" THEN FirstInit ELSE NoCall
    /\ CredentialInit
    /\ TokenInit

UnitsNext ==
    /\ UNCHANGED unit
    /\ \/ /\ unit = "detectors" /\ DetectorNext
          /\ UNCHANGED <<credentialVars, tokenVars, lazyVars>>
       \/ /\ unit = "credentials" /\ CredentialNext
          /\ UNCHANGED <<detectorVars, tokenVars, lazyVars>>
       \/ /\ unit = "tokens" /\ TokenNext
          /\ UNCHANGED <<detectorVars, credentialVars, lazyVars>>
       \/ /\ unit = "first use" /\ FirstNext
          /\ UNCHANGED <<detectorVars, credentialVars, tokenVars>>

UnitsSpec ==
    UnitsInit /\ [][UnitsNext]_unitVars /\ \A c \in Calls : WF_lazyVars(Step(c))
=============================================================================
