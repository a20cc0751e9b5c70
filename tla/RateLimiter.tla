---------------------------- MODULE RateLimiter ----------------------------
(***************************************************************************)
(* RateLimiter::checkBlocked of the security engine: a counter per client  *)
(* address in Redis, incremented by every scan, with a TTL that the scan   *)
(* which created the counter asks for in a second command.                 *)
(*                                                                         *)
(* A scan waits for three things at once: the reply of its INCR, an error  *)
(* of it, and a timer of two seconds.  The first to come runs the callback *)
(* (an atomic flag decides), and only the reply can say "blocked".  The    *)
(* reply and the error are handled on Redis' loop, the timer on the main   *)
(* loop; each handler is one action, for what it shares with the others is *)
(* the flag alone.                                                         *)
(*                                                                         *)
(* Redis is modelled by what the service uses: INCR, EXPIRE, and keys that *)
(* go away.  A command that failed on the client's side may still be       *)
(* executed.  A scan is a member of Scans and runs once.                   *)
(*                                                                         *)
(* The definitions marked "Mutation" are plausible mistakes in the         *)
(* definition that follows; they are not part of the system.               *)
(***************************************************************************)
EXTENDS Naturals, FiniteSets

CONSTANTS
    Scans,                    \* calls of checkBlocked
    Addresses,                \* client addresses, one key rate:<ip> each
    address,                  \* the address a scan is about
    MAX_REQUESTS_PER_MINUTE

ASSUME LimiterAssumption ==
    /\ IsFiniteSet(Scans)
    /\ address \in [Scans -> Addresses]
    /\ MAX_REQUESTS_PER_MINUTE \in Nat

VARIABLES
    counter,    \* the value of each key; 0 when there is no key
    ttl,        \* the keys that have a TTL
    window,     \* history: how many keys this address has had before
    incr,       \* where each scan's INCR is
    expires,    \* the scans whose EXPIRE is on its way
    timers,     \* the scans whose two seconds are running
    scan,       \* what each scan knows
    faults      \* history: scans that lost a reply or a command to a fault

redis == <<counter, ttl, window>>
limiterVars == <<counter, ttl, window, incr, expires, timers, scan, faults>>

-----------------------------------------------------------------------------

\* blocked is the callback's argument; calls is how often the callback ran;
\* count and window are what INCR returned and the key it counted on.
Scan == [pc: {"new", "waiting", "done", "dropped"}, blocked: BOOLEAN, calls: Nat,
         by: {"none", "reply", "error", "timer"},
         count: Nat, window: Nat]

NewScan == [pc |-> "new", blocked |-> FALSE, calls |-> 0, by |-> "none",
            count |-> 0, window |-> 0]

\* "orphan": the client gave up on it, Redis has not executed it yet.
IncrStates == {"none", "sent", "executed", "orphan", "closed"}

LimiterInit ==
    /\ counter = [a \in Addresses |-> 0]
    /\ ttl = {}
    /\ window = [a \in Addresses |-> 0]
    /\ incr = [s \in Scans |-> "none"]
    /\ expires = {}
    /\ timers = {}
    /\ scan = [s \in Scans |-> NewScan]
    /\ faults = {}

\* Mutation: the limit itself is blocked.
OverLimitEarly(n) == n >= MAX_REQUESTS_PER_MINUTE

\* Mutation: one more than the limit passes.
OverLimitLate(n) == n > MAX_REQUESTS_PER_MINUTE + 1

OverLimit(n) == n > MAX_REQUESTS_PER_MINUTE

\* Mutation: the flag is not consulted.
FireAlways(s, cause, blocked) ==
    scan' = [scan EXCEPT ![s].pc = "done", ![s].blocked = blocked,
                         ![s].by = cause, ![s].calls = @ + 1]

\* compare_exchange on the flag: the first to come runs the callback.
Fire(s, cause, blocked) ==
    scan' = IF scan[s].pc = "waiting"
            THEN [scan EXCEPT ![s].pc = "done", ![s].blocked = blocked,
                              ![s].by = cause, ![s].calls = @ + 1]
            ELSE scan

-----------------------------------------------------------------------------
(* The service.                                                            *)

\* Mutation: no safety net.
CheckBlockedNoTimer(s) ==
    /\ scan[s].pc = "new"
    /\ scan' = [scan EXCEPT ![s].pc = "waiting"]
    /\ incr' = [incr EXCEPT ![s] = "sent"]
    /\ UNCHANGED <<redis, expires, timers, faults>>

\* main creates the Redis client before the server runs, so the branch for a
\* missing client is never taken.
CheckBlocked(s) ==
    /\ scan[s].pc = "new"
    /\ scan' = [scan EXCEPT ![s].pc = "waiting"]
    /\ incr' = [incr EXCEPT ![s] = "sent"]
    /\ timers' = timers \cup {s}
    /\ UNCHANGED <<redis, expires, faults>>

\* Mutation: no EXPIRE when the timer has already answered.
IncrRepliedInTime(s) ==
    /\ incr[s] = "executed"
    /\ incr' = [incr EXCEPT ![s] = "closed"]
    /\ expires' = IF scan[s].count = 1 /\ scan[s].pc = "waiting"
                  THEN expires \cup {s} ELSE expires
    /\ Fire(s, "reply", OverLimit(scan[s].count))
    /\ UNCHANGED <<redis, timers, faults>>

\* The EXPIRE is sent whether or not this reply still decides anything.
IncrReplied(s) ==
    /\ incr[s] = "executed"
    /\ incr' = [incr EXCEPT ![s] = "closed"]
    /\ expires' = IF scan[s].count = 1 THEN expires \cup {s} ELSE expires
    /\ Fire(s, "reply", OverLimit(scan[s].count))
    /\ UNCHANGED <<redis, timers, faults>>

\* Fail open; what has become of the INCR is unknown.
IncrFailed(s) ==
    /\ \/ incr[s] = "sent" /\ incr' = [incr EXCEPT ![s] = "orphan"]
       \/ incr[s] = "executed" /\ incr' = [incr EXCEPT ![s] = "closed"]
    /\ faults' = faults \cup {s}
    /\ Fire(s, "error", FALSE)
    /\ UNCHANGED <<redis, expires, timers>>

\* The timer is not cancelled: it fires after the reply too.
TimerFires(s) ==
    /\ s \in timers
    /\ timers' = timers \ {s}
    /\ Fire(s, "timer", FALSE)
    /\ UNCHANGED <<redis, incr, expires, faults>>

\* The process stops: callbacks are gone, commands on their way may arrive.
EngineStops ==
    /\ \E s \in Scans : scan[s].pc = "waiting" \/ incr[s] \in {"sent", "executed"}
    /\ scan' = [s \in Scans |-> IF scan[s].pc = "waiting"
                                THEN [scan[s] EXCEPT !.pc = "dropped"] ELSE scan[s]]
    /\ incr' = [s \in Scans |-> CASE incr[s] = "sent" -> "orphan"
                                  [] incr[s] = "executed" -> "closed"
                                  [] OTHER -> incr[s]]
    /\ timers' = {}
    /\ faults' = faults \cup {s \in Scans : incr[s] \in {"sent", "executed"}}
    /\ UNCHANGED <<redis, expires>>

-----------------------------------------------------------------------------
(* Redis.                                                                  *)

RedisIncr(s) ==
    LET a == address[s] IN
    /\ incr[s] \in {"sent", "orphan"}
    /\ incr' = [incr EXCEPT ![s] = IF @ = "sent" THEN "executed" ELSE "closed"]
    /\ counter' = [counter EXCEPT ![a] = @ + 1]
    /\ scan' = [scan EXCEPT ![s].count = counter[a] + 1, ![s].window = window[a]]
    /\ UNCHANGED <<ttl, window, expires, timers, faults>>

\* EXPIRE of a key that is gone does nothing.
RedisExpire(s) ==
    /\ s \in expires
    /\ expires' = expires \ {s}
    /\ ttl' = IF counter[address[s]] > 0 THEN ttl \cup {address[s]} ELSE ttl
    /\ UNCHANGED <<counter, window, incr, timers, scan, faults>>

\* Both callbacks of the EXPIRE are empty: nobody notices.
ExpireLost(s) ==
    /\ s \in expires
    /\ expires' = expires \ {s}
    /\ faults' = faults \cup {s}
    /\ UNCHANGED <<redis, incr, timers, scan>>

KeyGone(a) ==
    /\ counter' = [counter EXCEPT ![a] = 0]
    /\ ttl' = ttl \ {a}
    /\ window' = [window EXCEPT ![a] = @ + 1]
    /\ UNCHANGED <<incr, expires, timers, scan, faults>>

KeyExpires(a) == a \in ttl /\ KeyGone(a)

\* Redis restarts without its data.
RedisForgets(a) == counter[a] > 0 /\ KeyGone(a)

-----------------------------------------------------------------------------

\* The handlers that may run a scan's callback.
Handler(s) == CheckBlocked(s) \/ IncrReplied(s) \/ IncrFailed(s) \/ TimerFires(s)

Redis ==
    \/ \E s \in Scans : RedisIncr(s) \/ RedisExpire(s) \/ ExpireLost(s)
    \/ \E a \in Addresses : KeyExpires(a) \/ RedisForgets(a)

LimiterNext ==
    \/ \E s \in Scans : Handler(s)
    \/ Redis
    \/ EngineStops

LimiterSpec == LimiterInit /\ [][LimiterNext]_limiterVars

-----------------------------------------------------------------------------
(* Properties.                                                             *)

\* Every key, command and scan has its type.
LimiterTypeOK ==
    /\ counter \in [Addresses -> Nat]
    /\ ttl \subseteq Addresses
    /\ window \in [Addresses -> Nat]
    /\ incr \in [Scans -> IncrStates]
    /\ expires \subseteq Scans
    /\ timers \subseteq Scans
    /\ scan \in [Scans -> Scan]
    /\ faults \subseteq Scans

Counted(a, w) == {s \in Scans : address[s] = a /\ scan[s].count > 0 /\ scan[s].window = w}

Passed(s) == scan[s].pc = "done" /\ scan[s].by = "reply" /\ ~scan[s].blocked

\* "The callback must run exactly once - whichever happens first wins": reply,
\* error and timer may all come, in any order, and the callback runs at most once.
FiresOnce == \A s \in Scans : scan[s].calls <= 1

\* Of the scans counted on one key, at most MAX_REQUESTS_PER_MINUTE pass because
\* of their count; every other one that passes does so because Redis failed it.
PassesBounded ==
    \A s \in Scans :
        Cardinality({u \in Counted(address[s], scan[s].window) : Passed(u)})
            <= MAX_REQUESTS_PER_MINUTE

\* A scan is blocked only when as many scans of the same address as the limit
\* allows were counted before it on the same key, whatever came late or failed.
BlockedAfterLimit ==
    \A s \in Scans :
        scan[s].blocked =>
            Cardinality({u \in Counted(address[s], scan[s].window) :
                            scan[u].count < scan[s].count}) >= MAX_REQUESTS_PER_MINUTE

\* The scan that created the key which address a has now.
Creators(a) == {s \in Counted(a, window[a]) : scan[s].count = 1}

\* A key has a TTL, or the scan that created it will still ask for one, or lost
\* its chance to a fault: answering on the timer first does not lose the TTL.
UnlimitedOnlyByFault ==
    \A a \in Addresses :
        counter[a] > 0 /\ a \notin ttl =>
            \E s \in Creators(a) : incr[s] = "executed" \/ s \in expires \cup faults

\* No scan waits for ever, though Redis may never answer.
ScansAnswered == \A s \in Scans : scan[s].pc = "waiting" ~> scan[s].pc # "waiting"

\* README: "The counter auto-expires after 60 seconds": a key without a TTL has
\* one coming.
CounterAutoExpires ==
    \A a \in Addresses :
        counter[a] > 0 /\ a \notin ttl =>
            \E s \in Creators(a) : incr[s] = "executed" \/ s \in expires
=============================================================================
