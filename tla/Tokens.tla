------------------------------- MODULE Tokens -------------------------------
(***************************************************************************)
(* Refresh tokens and API keys: random bytes written in hexadecimal        *)
(* (JwtHelper::generateRefreshToken, ApiKeyGenerator::generate), and the   *)
(* hash under which a session is stored and found (JwtHelper::sha256Hex).  *)
(* AuthService.tla and Proxy.tla know a token or a key as a value that     *)
(* differs from all others.                                                *)
(*                                                                         *)
(* Assumed are what /dev/urandom and SHA-256 provide: two draws differ,    *)
(* and so do the digests of two tokens.  A stream that ends early leaves   *)
(* the rest of the buffer as it was, which is what the last call on this   *)
(* stack left there, or anything.                                          *)
(***************************************************************************)
EXTENDS Naturals, Sequences

CONSTANTS
    Base,           \* 16 in the code
    SIZE,           \* bytes drawn, and bytes of a digest (32)
    digest,         \* SHA-256: of a token, as bytes; one to one on tokens
    MaxTokens       \* bound

Byte == 0..(Base * Base - 1)
Bytes == [1..SIZE -> Byte]

\* What generateRefreshToken returns and sha256Hex is given: the digits.
Token == [1..(2 * SIZE) -> 0..(Base - 1)]

ASSUME TokensAssumption == Base \in Nat \ {0, 1} /\ SIZE \in Nat \ {0}

\* No two tokens have the same digest.
ASSUME DigestAssumption ==
    /\ \A t \in Token : digest[t] \in Bytes
    /\ \A t, u \in Token : digest[t] = digest[u] => t = u

VARIABLES
    issued,     \* the tokens handed out, in order; history: their bytes
    stored,     \* refresh_token_hash of each one's session
    found,      \* the last token presented, and the sessions findValidByHash returned
    failed      \* whether the last attempt to issue one ended in an exception

tokenVars == <<issued, stored, found, failed>>

NotFound == [token |-> <<>>, rows |-> {}]

-----------------------------------------------------------------------------

\* setw(2), setfill('0').
HexByte(b) == <<b \div Base, b % Base>>

Hex(bytes) ==
    LET rest[i \in 0..SIZE] == IF i = 0 THEN <<>> ELSE rest[i - 1] \o HexByte(bytes[i])
    IN  rest[SIZE]

Sha256Hex(token) == Hex(digest[token])

\* What was drawn before; the same bytes do not come again.
Drawn == {issued[i].bytes : i \in DOMAIN issued}

Issue(bytes) ==
    /\ issued' = Append(issued, [token |-> Hex(bytes), bytes |-> bytes])
    /\ stored' = Append(stored, Sha256Hex(Hex(bytes)))
    /\ failed' = FALSE
    /\ UNCHANGED found

ReadBytes ==
    /\ Len(issued) < MaxTokens
    /\ \E bytes \in Bytes \ Drawn : Issue(bytes)

\* Mutation: the stream is not looked at after the read.
ReadsShortUnchecked ==
    /\ Len(issued) < MaxTokens
    /\ \E bytes \in Bytes : Issue(bytes)

\* /dev/urandom cannot be opened or ends early: an exception, and the request is
\* answered 500.
ReadsShort ==
    /\ Len(issued) < MaxTokens
    /\ failed' = TRUE
    /\ UNCHANGED <<issued, stored, found>>

\* Mutation: what is looked up is the token, not its hash.
FindByHashPlain(token) ==
    /\ found' = [token |-> token, rows |-> {i \in DOMAIN stored : stored[i] = token}]
    /\ UNCHANGED <<issued, stored, failed>>

\* refresh and logout hash what the client presents.
FindByHash(token) ==
    /\ found' = [token |-> token, rows |-> {i \in DOMAIN stored : stored[i] = Sha256Hex(token)}]
    /\ UNCHANGED <<issued, stored, failed>>

TokenInit == issued = <<>> /\ stored = <<>> /\ found = NotFound /\ failed = FALSE

TokenNext ==
    \/ ReadBytes \/ ReadsShort
    \/ \E i \in DOMAIN issued : FindByHash(issued[i].token)

TokenSpec == TokenInit /\ [][TokenNext]_tokenVars

-----------------------------------------------------------------------------
(* Properties.                                                             *)

\* However often a read failed in between, no two tokens or keys are the same
\* text, and each fills its 2 * SIZE digits (api_key is a VARCHAR(64) UNIQUE).
TokensDiffer ==
    \A i, j \in DOMAIN issued :
        /\ Len(issued[i].token) = 2 * SIZE
        /\ issued[i].token = issued[j].token => i = j

\* Hashing at issue and hashing at use meet: a token finds its own session and
\* nobody else's.
FindsItsSession ==
    \A i \in DOMAIN issued : found.token = issued[i].token => found.rows = {i}
=============================================================================
