-------------------------- MODULE ScanRouteProofs --------------------------
(***************************************************************************)
(* RateLimiter and ScanRoute, for any number of scans, any limit and any   *)
(* content.                                                                *)
(*                                                                         *)
(* The limiter's argument: the scans counted on one key hold the numbers   *)
(* 1, 2, 3, ..., each once, so those that pass inject into 1..limit, and   *)
(* those counted before a blocked one cover it.  The endpoint runs the     *)
(* limiter and implements ScanContract: a scan has its reply exactly when  *)
(* its callback has run, and the limiter runs it at most once.             *)
(***************************************************************************)
EXTENDS ScanRoute, TLAPS, FiniteSetTheorems

-----------------------------------------------------------------------------
(* The rate limiter.                                                       *)

\* Where a scan's INCR is tells what it knows; the flag tells whether its
\* callback ran, and its verdict follows from its count.
ScanOK(s) ==
    /\ incr[s] \in {"none", "sent", "orphan"} => scan[s].count = 0
    /\ incr[s] = "executed" => scan[s].count > 0
    /\ incr[s] = "orphan" => s \in faults
    /\ incr[s] = "none" <=> scan[s].pc = "new"
    /\ scan[s].calls = IF scan[s].pc = "done" THEN 1 ELSE 0
    /\ scan[s].by = "none" <=> scan[s].pc # "done"
    /\ scan[s].by = "reply" =>
          scan[s].count > 0 /\ scan[s].blocked = OverLimit(scan[s].count)
    /\ scan[s].blocked => scan[s].by = "reply"

\* No count of an older key, or above the counter, is held by anyone.
CountsPast ==
    \A s \in Scans : scan[s].count > 0 =>
        /\ scan[s].window <= window[address[s]]
        /\ scan[s].window = window[address[s]] => scan[s].count <= counter[address[s]]

CountsDistinct ==
    \A s, u \in Scans :
        (/\ address[s] = address[u]
         /\ scan[s].window = scan[u].window
         /\ scan[s].count = scan[u].count
         /\ scan[s].count > 0) => s = u

\* Some scan of address a holds the number n, counted on the key w.
Holds(a, w, n) ==
    \E u \in Scans : address[u] = a /\ scan[u].window = w /\ scan[u].count = n

\* Every number up to the counter, and up to a number held, is held.
CountsFill ==
    /\ \A a \in Addresses : \A n \in Nat :
          0 < n /\ n <= counter[a] => Holds(a, window[a], n)
    /\ \A s \in Scans : \A n \in Nat :
          0 < n /\ n <= scan[s].count => Holds(address[s], scan[s].window, n)

LimiterInv ==
    /\ LimiterTypeOK
    /\ \A s \in Scans : ScanOK(s)
    /\ CountsPast
    /\ CountsDistinct
    /\ CountsFill
    /\ UnlimitedOnlyByFault

LEMMA LimiterInvInit == LimiterInit => LimiterInv
  <1> SUFFICES ASSUME LimiterInit PROVE LimiterInv
    OBVIOUS
  <1> USE LimiterAssumption DEF LimiterInit, NewScan
  <1>1. LimiterTypeOK
    BY DEF LimiterTypeOK, Scan, IncrStates
  <1>2. \A s \in Scans : ScanOK(s)
    BY DEF ScanOK
  <1>3. CountsPast /\ CountsDistinct /\ CountsFill
    BY DEF CountsPast, CountsDistinct, CountsFill
  <1>4. UnlimitedOnlyByFault
    BY DEF UnlimitedOnlyByFault
  <1> QED
    BY <1>1, <1>2, <1>3, <1>4 DEF LimiterInv

-----------------------------------------------------------------------------
(* The service's steps: counts and keys stay as they are.                  *)

\* What a handler, or the process stopping, leaves alone.
CountsStay ==
    /\ UNCHANGED <<counter, ttl, window>>
    /\ \A s \in Scans : /\ scan'[s].count = scan[s].count
                        /\ scan'[s].window = scan[s].window

LEMMA CountsStayStep ==
  ASSUME LimiterInv, CountsStay
  PROVE  CountsPast' /\ CountsDistinct' /\ CountsFill'
  <1>1. CountsPast' /\ CountsDistinct'
    BY DEF LimiterInv, CountsPast, CountsDistinct, CountsStay
  <1>2. ASSUME NEW a, NEW w, NEW n, Holds(a, w, n) PROVE Holds(a, w, n)'
    BY <1>2 DEF CountsStay, Holds
  <1>3. CountsFill'
    BY <1>2 DEF LimiterInv, CountsFill, CountsStay
  <1> QED
    BY <1>1, <1>3

\* A creator that was about to ask for a TTL still is, or has asked, or failed.
LEMMA UnlimitedStep ==
  ASSUME LimiterInv, CountsStay, 
         \A s \in Scans :
            (incr[s] = "executed" \/ s \in expires \cup faults) /\ scan[s].count = 1 =>
                incr'[s] = "executed" \/ s \in expires' \cup faults'
  PROVE  UnlimitedOnlyByFault'
  <1>1. \A a \in Addresses : Creators(a)' = Creators(a)
    BY DEF CountsStay, Creators, Counted
  <1>2. \A a \in Addresses : \A s \in Creators(a) : s \in Scans /\ scan[s].count = 1
    BY DEF Creators, Counted
  <1> QED
    BY <1>1, <1>2 DEF LimiterInv, UnlimitedOnlyByFault, CountsStay

LEMMA FireFacts ==
  ASSUME LimiterTypeOK, NEW s \in Scans, NEW cause \in {"reply", "error", "timer"},
         NEW blocked \in BOOLEAN, Fire(s, cause, blocked)
  PROVE  /\ scan' \in [Scans -> Scan]
         /\ \A u \in Scans : /\ scan'[u].count = scan[u].count
                             /\ scan'[u].window = scan[u].window
         /\ \A u \in Scans \ {s} : scan'[u] = scan[u]
         /\ scan[s].pc # "waiting" => scan'[s] = scan[s]
         /\ scan[s].pc = "waiting" =>
               /\ scan'[s].pc = "done"
               /\ scan'[s].calls = scan[s].calls + 1
               /\ scan'[s].by = cause
               /\ scan'[s].blocked = blocked
  <1>1. CASE scan[s].pc # "waiting"
    BY <1>1 DEF LimiterTypeOK, Fire
  <1>2. CASE scan[s].pc = "waiting"
    <2>1. scan' = [scan EXCEPT ![s] = [scan[s] EXCEPT !.pc = "done", !.blocked = blocked,
                                       !.by = cause, !.calls = @ + 1]]
      BY <1>2 DEF LimiterTypeOK, Fire
    <2>2. scan[s] \in Scan
      BY DEF LimiterTypeOK
    <2>3. scan'[s] = [scan[s] EXCEPT !.pc = "done", !.blocked = blocked,
                                     !.by = cause, !.calls = scan[s].calls + 1]
      BY <2>1 DEF LimiterTypeOK
    <2>4. /\ scan'[s].count = scan[s].count /\ scan'[s].window = scan[s].window
          /\ scan'[s].pc = "done" /\ scan'[s].calls = scan[s].calls + 1
          /\ scan'[s].by = cause /\ scan'[s].blocked = blocked
      BY <2>2, <2>3, Zenon DEF Scan
    <2>7. scan'[s] \in Scan
      <3>1. scan[s].calls + 1 \in Nat
        BY <2>2, SMT DEF Scan
      <3>2. cause \in {"none", "reply", "error", "timer"}
        OBVIOUS
      <3> QED
        BY <2>2, <2>3, <3>1, <3>2, Zenon DEF Scan
    <2>5. \A u \in Scans \ {s} : scan'[u] = scan[u]
      BY <2>1 DEF LimiterTypeOK
    <2>6. scan' \in [Scans -> Scan]
      BY <2>1, <2>5, <2>7 DEF LimiterTypeOK
    <2> QED
      BY <1>2, <2>4, <2>5, <2>6
  <1> QED
    BY <1>1, <1>2

LEMMA CheckStep ==
  ASSUME LimiterInv, NEW s \in Scans, CheckBlocked(s)
  PROVE  LimiterInv'
  <1>0. LimiterTypeOK /\ ScanOK(s)
    BY DEF LimiterInv
  <1>1. /\ scan' \in [Scans -> Scan]
        /\ \A u \in Scans \ {s} : scan'[u] = scan[u]
        /\ scan'[s] = [scan[s] EXCEPT !.pc = "waiting"]
    BY <1>0 DEF CheckBlocked, LimiterTypeOK, Scan
  <1>2. CountsStay
    BY <1>0, <1>1 DEF CheckBlocked, CountsStay, redis, LimiterTypeOK, Scan
  <1>3. LimiterTypeOK'
    BY <1>0, <1>1 DEF CheckBlocked, LimiterTypeOK, IncrStates, redis
  <1>4. \A u \in Scans : ScanOK(u)'
    <2>1. ASSUME NEW u \in Scans, u # s PROVE ScanOK(u)'
      BY <1>0, <1>1, <2>1 DEF LimiterInv, CheckBlocked, LimiterTypeOK, ScanOK
    <2>2. ScanOK(s)'
      <3>1. incr'[s] = "sent"
        BY <1>0 DEF CheckBlocked, LimiterTypeOK
      <3>2. scan[s] \in Scan
        BY <1>0 DEF LimiterTypeOK
      <3>3. /\ scan'[s].pc = "waiting" /\ scan'[s].calls = scan[s].calls
            /\ scan'[s].by = scan[s].by /\ scan'[s].blocked = scan[s].blocked
            /\ scan'[s].count = scan[s].count
        BY <1>1, <3>2 DEF Scan
      <3>4. scan[s].pc = "new"
        BY DEF CheckBlocked
      <3> QED
        BY <1>0, <3>1, <3>3, <3>4 DEF ScanOK
    <2> QED
      BY <2>1, <2>2
  <1>5. UnlimitedOnlyByFault'
    BY <1>0, <1>2, UnlimitedStep DEF CheckBlocked, LimiterTypeOK, ScanOK
  <1> QED
    BY <1>2, <1>3, <1>4, <1>5, CountsStayStep DEF LimiterInv

\* What Fire does to the facts about s, whatever becomes of its INCR meanwhile.
LEMMA FireStep ==
  ASSUME LimiterInv, NEW s \in Scans, NEW cause \in {"reply", "error", "timer"},
         NEW blocked \in BOOLEAN, Fire(s, cause, blocked),
         blocked => cause = "reply",
         cause = "reply" => scan[s].count > 0 /\ blocked = OverLimit(scan[s].count),
         \A u \in Scans \ {s} : incr'[u] = incr[u],
         faults \subseteq faults',
         \/ incr'[s] = incr[s]
         \/ incr[s] \in {"sent", "executed"} /\ incr'[s] \in {"orphan", "closed"},
         incr'[s] = "orphan" => s \in faults' /\ incr[s] \in {"sent", "orphan"}
  PROVE  \A u \in Scans : ScanOK(u)'
  <1>0. LimiterTypeOK /\ ScanOK(s)
    BY DEF LimiterInv
  <1>1. ASSUME NEW u \in Scans, u # s PROVE ScanOK(u)'
    <2>1. scan'[u] = scan[u] /\ incr'[u] = incr[u] /\ ScanOK(u)
      BY <1>0, <1>1, FireFacts DEF LimiterInv
    <2> QED
      BY <2>1 DEF ScanOK
  <1>2. scan'[s].count = scan[s].count
    BY <1>0, FireFacts
  <1>3. scan[s].pc = "new" => incr'[s] = "none"
    BY <1>0 DEF ScanOK
  <1>4. CASE scan[s].pc # "waiting"
    <2>1. scan'[s] = scan[s]
      BY <1>0, <1>4, FireFacts
    <2> QED
      BY <1>0, <1>1, <1>3, <2>1 DEF ScanOK
  <1>5. CASE scan[s].pc = "waiting"
    <2>1. /\ scan'[s].pc = "done"
          /\ scan'[s].calls = scan[s].calls + 1
          /\ scan'[s].by = cause
          /\ scan'[s].blocked = blocked
      BY <1>0, <1>5, FireFacts
    <2>2. scan[s].calls = 0 /\ incr[s] # "none"
      BY <1>0, <1>5 DEF ScanOK
    <2>3. scan'[s].by = "reply" =>
             scan'[s].count > 0 /\ scan'[s].blocked = OverLimit(scan'[s].count)
      BY <1>2, <2>1
    <2>4. /\ incr'[s] \in {"none", "sent", "orphan"} => scan'[s].count = 0
          /\ incr'[s] = "executed" => scan'[s].count > 0
          /\ incr'[s] = "orphan" => s \in faults'
          /\ incr'[s] # "none"
      BY <1>0, <1>2, <2>2 DEF ScanOK
    <2>5. scan'[s].calls = 1
      BY <2>1, <2>2
    <2> QED
      BY <1>1, <2>1, <2>3, <2>4, <2>5 DEF ScanOK
  <1> QED
    BY <1>4, <1>5

LEMMA ReplyStep ==
  ASSUME LimiterInv, NEW s \in Scans, IncrReplied(s)
  PROVE  LimiterInv'
  <1>0. LimiterTypeOK /\ ScanOK(s)
    BY DEF LimiterInv
  <1>1. OverLimit(scan[s].count) \in BOOLEAN
    BY DEF OverLimit
  <1>2. Fire(s, "reply", OverLimit(scan[s].count)) /\ incr[s] = "executed"
    BY DEF IncrReplied
  <1>3. incr' = [incr EXCEPT ![s] = "closed"] /\ faults' = faults
    BY DEF IncrReplied
  <1>4. CountsStay
    BY <1>0, <1>1, <1>2, FireFacts DEF CountsStay, IncrReplied, redis
  <1>5. LimiterTypeOK'
    BY <1>0, <1>1, <1>2, FireFacts DEF IncrReplied, LimiterTypeOK, IncrStates, redis
  <1>6. \A u \in Scans : ScanOK(u)'
    BY <1>0, <1>1, <1>2, <1>3, FireStep DEF LimiterTypeOK, ScanOK
  <1>7. UnlimitedOnlyByFault'
    <2>1. expires \subseteq expires' /\ (scan[s].count = 1 => s \in expires')
      BY DEF IncrReplied
    <2>2. \A u \in Scans \ {s} : incr'[u] = incr[u]
      BY <1>0, <1>3 DEF LimiterTypeOK
    <2> QED
      BY <1>3, <1>4, <2>1, <2>2, UnlimitedStep
  <1> QED
    BY <1>4, <1>5, <1>6, <1>7, CountsStayStep DEF LimiterInv

LEMMA FailStep ==
  ASSUME LimiterInv, NEW s \in Scans, IncrFailed(s)
  PROVE  LimiterInv'
  <1>0. LimiterTypeOK /\ ScanOK(s)
    BY DEF LimiterInv
  <1>2. Fire(s, "error", FALSE) /\ faults' = faults \cup {s} /\ expires' = expires
    BY DEF IncrFailed
  <1>3. /\ incr' \in [Scans -> IncrStates]
        /\ \A u \in Scans \ {s} : incr'[u] = incr[u]
        /\ \/ incr[s] = "sent" /\ incr'[s] = "orphan"
           \/ incr[s] = "executed" /\ incr'[s] = "closed"
    BY <1>0 DEF IncrFailed, LimiterTypeOK, IncrStates
  <1>4. CountsStay
    BY <1>0, <1>2, FireFacts DEF CountsStay, IncrFailed, redis
  <1>5. LimiterTypeOK'
    BY <1>0, <1>2, <1>3, FireFacts DEF IncrFailed, LimiterTypeOK, redis
  <1>6. \A u \in Scans : ScanOK(u)'
    BY <1>2, <1>3, FireStep
  <1>7. UnlimitedOnlyByFault'
    BY <1>2, <1>3, <1>4, UnlimitedStep
  <1> QED
    BY <1>4, <1>5, <1>6, <1>7, CountsStayStep DEF LimiterInv

LEMMA TimerStep ==
  ASSUME LimiterInv, NEW s \in Scans, TimerFires(s)
  PROVE  LimiterInv'
  <1>0. LimiterTypeOK /\ ScanOK(s)
    BY DEF LimiterInv
  <1>2. Fire(s, "timer", FALSE) /\ UNCHANGED <<incr, expires, faults>>
    BY DEF TimerFires
  <1>4. CountsStay
    BY <1>0, <1>2, FireFacts DEF CountsStay, TimerFires, redis
  <1>5. LimiterTypeOK'
    BY <1>0, <1>2, FireFacts DEF TimerFires, LimiterTypeOK, redis
  <1>6. \A u \in Scans : ScanOK(u)'
    <2>1. /\ faults \subseteq faults'
          /\ incr'[s] = incr[s] /\ \A u \in Scans \ {s} : incr'[u] = incr[u]
      BY <1>2
    <2>2. incr'[s] = "orphan" => s \in faults' /\ incr[s] \in {"sent", "orphan"}
      BY <1>0, <2>1, <1>2 DEF ScanOK
    <2>3. Fire(s, "timer", FALSE)
      BY <1>2
    <2> QED
      BY <2>1, <2>2, <2>3, FireStep
  <1>7. UnlimitedOnlyByFault'
    BY <1>2, <1>4, UnlimitedStep
  <1> QED
    BY <1>4, <1>5, <1>6, <1>7, CountsStayStep DEF LimiterInv

LEMMA StopStep ==
  ASSUME LimiterInv, EngineStops
  PROVE  LimiterInv'
  <1>0. LimiterTypeOK
    BY DEF LimiterInv
  <1>1. ASSUME NEW s \in Scans
        PROVE  /\ scan'[s] \in Scan
               /\ scan'[s].pc = IF scan[s].pc = "waiting" THEN "dropped" ELSE scan[s].pc
               /\ scan'[s].count = scan[s].count /\ scan'[s].window = scan[s].window
               /\ scan'[s].calls = scan[s].calls /\ scan'[s].by = scan[s].by
               /\ scan'[s].blocked = scan[s].blocked
    <2>1. scan[s] \in Scan
      BY <1>0 DEF LimiterTypeOK
    <2>2. scan'[s] = IF scan[s].pc = "waiting"
                     THEN [scan[s] EXCEPT !.pc = "dropped"] ELSE scan[s]
      BY DEF EngineStops
    <2> QED
      BY <2>1, <2>2 DEF Scan
  <1>2. ASSUME NEW s \in Scans
        PROVE  /\ incr[s] = "sent" => incr'[s] = "orphan" /\ s \in faults'
               /\ incr[s] = "executed" => incr'[s] = "closed" /\ s \in faults'
               /\ incr[s] \notin {"sent", "executed"} => incr'[s] = incr[s]
    BY DEF EngineStops
  <1>3. /\ faults \subseteq faults' /\ faults' \subseteq Scans
        /\ timers' = {} /\ expires' = expires /\ UNCHANGED redis
    BY <1>0 DEF EngineStops, LimiterTypeOK
  <1>4. CountsStay
    BY <1>1, <1>3 DEF CountsStay, redis
  <1>5. LimiterTypeOK'
    <2>1. scan' \in [Scans -> Scan]
      BY <1>1 DEF EngineStops
    <2>2. \A s \in Scans : incr'[s] \in IncrStates
      BY <1>0, <1>2 DEF LimiterTypeOK, IncrStates
    <2>3. incr' \in [Scans -> IncrStates]
      BY <2>2 DEF EngineStops
    <2> QED
      BY <1>0, <1>3, <2>1, <2>3 DEF LimiterTypeOK, redis
  <1>6. ASSUME NEW s \in Scans PROVE ScanOK(s)'
    <2>1. ScanOK(s) /\ incr[s] \in IncrStates
      BY <1>0 DEF LimiterInv, LimiterTypeOK
    <2> QED
      BY <1>1, <1>2, <1>3, <2>1 DEF ScanOK, IncrStates, OverLimit
  <1>7. UnlimitedOnlyByFault'
    BY <1>2, <1>3, <1>4, UnlimitedStep
  <1> QED
    BY <1>4, <1>5, <1>6, <1>7, CountsStayStep DEF LimiterInv

-----------------------------------------------------------------------------
(* Redis' steps.                                                           *)

LEMMA IncrStep ==
  ASSUME LimiterInv, NEW s \in Scans, RedisIncr(s)
  PROVE  LimiterInv'
  <1> DEFINE a == address[s]
  <1>0. LimiterTypeOK /\ ScanOK(s) /\ a \in Addresses
    BY LimiterAssumption DEF LimiterInv
  <1>1. /\ scan' \in [Scans -> Scan]
        /\ \A u \in Scans \ {s} : scan'[u] = scan[u]
        /\ scan'[s].count = counter[a] + 1 /\ scan'[s].window = window[a]
        /\ scan'[s].pc = scan[s].pc /\ scan'[s].calls = scan[s].calls
        /\ scan'[s].by = scan[s].by /\ scan'[s].blocked = scan[s].blocked
    <2>1. scan[s] \in Scan /\ counter[a] + 1 \in Nat /\ window[a] \in Nat
      BY <1>0 DEF LimiterTypeOK
    <2>2. scan' = [scan EXCEPT ![s] = [scan[s] EXCEPT !.count = counter[a] + 1,
                                                      !.window = window[a]]]
      BY <1>0 DEF RedisIncr, LimiterTypeOK
    <2>3. scan'[s] = [scan[s] EXCEPT !.count = counter[a] + 1, !.window = window[a]]
      BY <1>0, <2>2 DEF LimiterTypeOK
    <2>4. [scan[s] EXCEPT !.count = counter[a] + 1, !.window = window[a]] \in Scan
      BY <2>1 DEF Scan
    <2>5. scan' \in [Scans -> Scan] /\ \A u \in Scans \ {s} : scan'[u] = scan[u]
      BY <1>0, <2>2, <2>4 DEF LimiterTypeOK
    <2> HIDE DEF a
    <2> QED
      BY <2>1, <2>3, <2>5 DEF Scan
  <1>2. /\ incr' \in [Scans -> IncrStates]
        /\ \A u \in Scans \ {s} : incr'[u] = incr[u]
        /\ \/ incr[s] = "sent" /\ incr'[s] = "executed"
           \/ incr[s] = "orphan" /\ incr'[s] = "closed" /\ s \in faults
    BY <1>0 DEF RedisIncr, LimiterTypeOK, IncrStates, ScanOK
  <1>3. /\ counter' \in [Addresses -> Nat]
        /\ \A b \in Addresses \ {a} : counter'[b] = counter[b]
        /\ counter'[a] = counter[a] + 1
        /\ UNCHANGED <<ttl, window, expires, timers, faults>>
    BY <1>0 DEF RedisIncr, LimiterTypeOK
  <1>4. scan[s].count = 0
    BY <1>0, <1>2 DEF ScanOK
  <1>t. /\ window \in [Addresses -> Nat] /\ counter \in [Addresses -> Nat]
        /\ \A u \in Scans : /\ address[u] \in Addresses /\ scan[u].count \in Nat
                             /\ scan[u].window \in Nat
    BY <1>0, LimiterAssumption DEF LimiterTypeOK, Scan
  <1> HIDE DEF a
  <1>5. LimiterTypeOK'
    BY <1>0, <1>1, <1>2, <1>3 DEF LimiterTypeOK
  <1>6. ASSUME NEW u \in Scans PROVE ScanOK(u)'
    <2>1. CASE u # s
      <3>1. ScanOK(u) /\ scan'[u] = scan[u] /\ incr'[u] = incr[u]
        BY <1>1, <1>2, <2>1 DEF LimiterInv
      <3> QED
        BY <1>3, <3>1 DEF ScanOK
    <2>2. CASE u = s
      <3>1. scan[s].by # "reply" /\ counter[a] \in Nat
        BY <1>0, <1>4, <1>t DEF ScanOK
      <3> QED
        BY <1>0, <1>1, <1>2, <1>3, <2>2, <3>1 DEF ScanOK
    <2> QED
      BY <2>1, <2>2
  <1>7. CountsPast'
    BY <1>0, <1>1, <1>3, <1>t DEF a, LimiterInv, CountsPast
  <1>8. CountsDistinct'
    <2>1. ASSUME NEW u \in Scans, u # s, address[u] = address[s],
                 scan'[u].window = scan'[s].window, scan'[u].count = scan'[s].count
          PROVE  FALSE
      <3>1. scan[u].window = window[a] /\ scan[u].count = counter[a] + 1
        BY <1>1, <2>1
      <3>2. scan[u].count <= counter[a]
        BY <1>0, <1>t, <2>1, <3>1 DEF a, LimiterInv, CountsPast
      <3> QED
        BY <1>0, <1>t, <3>1, <3>2
    <2>2. ASSUME NEW u \in Scans, NEW v \in Scans, u # s, v # s, address[u] = address[v],
                 scan'[u].window = scan'[v].window, scan'[u].count = scan'[v].count,
                 scan'[u].count > 0
          PROVE  u = v
      BY <1>1, <2>2 DEF LimiterInv, CountsDistinct
    <2> QED
      BY <2>1, <2>2 DEF CountsDistinct
  <1>9. CountsFill'
    <2> DEFINE Held(b, w, n) ==
          \E u \in Scans : address[u] = b /\ scan'[u].window = w /\ scan'[u].count = n
    <2>1. \A b, w : \A n \in Nat : 0 < n /\ Holds(b, w, n) => Held(b, w, n)
      <3>1. SUFFICES ASSUME NEW b, NEW w, NEW n \in Nat, 0 < n,
                            NEW u \in Scans, address[u] = b, scan[u].window = w,
                            scan[u].count = n
                     PROVE  Held(b, w, n)
        BY DEF Holds
      <3>2. u # s
        BY <1>4, <3>1
      <3> QED
        BY <1>1, <3>1, <3>2
    <2>2. Held(a, window[a], counter[a] + 1)
      BY <1>1 DEF a
    <2> HIDE DEF Held
    <2>3. ASSUME NEW b \in Addresses, NEW n \in Nat, 0 < n, n <= counter'[b]
          PROVE  Held(b, window[b], n)
      <3>1. CASE n <= counter[b]
        <4>1. Holds(b, window[b], n)
          BY <2>3, <3>1 DEF LimiterInv, CountsFill
        <4> QED
          BY <2>1, <2>3, <4>1
      <3>2. CASE ~(n <= counter[b])
        <4>1. b = a /\ n = counter[a] + 1
          BY <1>0, <1>3, <1>t, <2>3, <3>2
        <4> QED
          BY <2>2, <4>1
      <3> QED
        BY <3>1, <3>2
    <2>4. ASSUME NEW u \in Scans, NEW n \in Nat, 0 < n, n <= scan'[u].count
          PROVE  Held(address[u], scan'[u].window, n)
      <3>1. CASE u = s
        <4>1. /\ address[u] = a /\ scan'[u].window = window[a]
              /\ scan'[u].count = counter'[a]
          BY <1>1, <1>3, <3>1 DEF a
        <4> QED
          BY <1>0, <2>3, <2>4, <4>1
      <3>2. CASE u # s
        <4>1. scan'[u] = scan[u]
          BY <1>1, <3>2
        <4>2. Holds(address[u], scan[u].window, n)
          BY <2>4, <4>1 DEF LimiterInv, CountsFill
        <4> QED
          BY <2>1, <2>4, <4>1, <4>2
      <3> QED
        BY <3>1, <3>2
    <2>5. window' = window
      BY <1>3
    <2> QED
      BY <2>3, <2>4, <2>5 DEF CountsFill, Holds, Held
  <1>10. UnlimitedOnlyByFault'
    <2> SUFFICES ASSUME NEW b \in Addresses, counter'[b] > 0, b \notin ttl
                 PROVE  \E u \in Creators(b)' : incr'[u] = "executed" \/ u \in expires \cup faults
      BY <1>3 DEF UnlimitedOnlyByFault
    <2>1. CASE counter[b] > 0
      <3>1. PICK u \in Creators(b) : incr[u] = "executed" \/ u \in expires \cup faults
        BY <2>1 DEF LimiterInv, UnlimitedOnlyByFault
      <3>2. u # s /\ u \in Scans
        BY <1>4, <3>1 DEF Creators, Counted
      <3>3. u \in Creators(b)'
        BY <1>1, <1>3, <3>1, <3>2 DEF Creators, Counted
      <3> QED
        BY <1>2, <3>1, <3>2, <3>3
    <2>2. CASE ~(counter[b] > 0)
      <3>1. b = a /\ counter[a] = 0
        BY <1>3, <1>t, <1>0, <2>2
      <3>2. s \in Creators(a)'
        BY <1>1, <1>3, <3>1 DEF a, Creators, Counted
      <3> QED
        BY <1>2, <3>1, <3>2
    <2> QED
      BY <2>1, <2>2
  <1> QED
    BY <1>5, <1>6, <1>7, <1>8, <1>9, <1>10 DEF LimiterInv

LEMMA ExpireStep ==
  ASSUME LimiterInv, NEW s \in Scans, RedisExpire(s) \/ ExpireLost(s)
  PROVE  LimiterInv'
  <1>0. LimiterTypeOK /\ address[s] \in Addresses
    BY LimiterAssumption DEF LimiterInv
  <1>1. /\ UNCHANGED <<counter, window, incr, timers, scan>>
        /\ faults \subseteq faults' /\ faults' \subseteq Scans
        /\ expires' = expires \ {s}
        /\ \/ s \in faults' /\ ttl' = ttl
           \/ ttl' = IF counter[address[s]] > 0 THEN ttl \cup {address[s]} ELSE ttl
    BY <1>0 DEF RedisExpire, ExpireLost, redis, LimiterTypeOK
  <1>2. LimiterTypeOK'
    BY <1>0, <1>1 DEF LimiterTypeOK
  <1>3. ASSUME NEW u \in Scans PROVE ScanOK(u)'
    BY <1>1 DEF LimiterInv, ScanOK, OverLimit
  <1>4. CountsPast' /\ CountsDistinct' /\ CountsFill'
    BY <1>1 DEF LimiterInv, CountsPast, CountsDistinct, CountsFill, Holds
  <1>5. UnlimitedOnlyByFault'
    <2> SUFFICES ASSUME NEW a \in Addresses, counter[a] > 0, a \notin ttl'
                 PROVE  \E u \in Creators(a)' : incr'[u] = "executed" \/ u \in expires' \cup faults'
      BY <1>1 DEF UnlimitedOnlyByFault
    <2>1. PICK u \in Creators(a) : incr[u] = "executed" \/ u \in expires \cup faults
      BY <1>1 DEF LimiterInv, UnlimitedOnlyByFault
    <2>2. u \in Creators(a)' /\ address[u] = a
      BY <1>1 DEF Creators, Counted
    <2> QED
      BY <1>1, <2>1, <2>2
  <1> QED
    BY <1>2, <1>3, <1>4, <1>5 DEF LimiterInv

\* A new key starts with no number held.
LEMMA KeyGoneStep ==
  ASSUME LimiterInv, NEW a \in Addresses, KeyGone(a)
  PROVE  LimiterInv'
  <1>0. LimiterTypeOK
    BY DEF LimiterInv
  <1>1. /\ counter' \in [Addresses -> Nat] /\ window' \in [Addresses -> Nat]
        /\ counter'[a] = 0 /\ window'[a] = window[a] + 1
        /\ \A b \in Addresses \ {a} : counter'[b] = counter[b] /\ window'[b] = window[b]
        /\ ttl' = ttl \ {a} /\ UNCHANGED <<incr, expires, timers, scan, faults>>
    BY <1>0 DEF KeyGone, LimiterTypeOK
  <1>t. /\ window \in [Addresses -> Nat] /\ counter \in [Addresses -> Nat]
        /\ \A u \in Scans : /\ address[u] \in Addresses /\ scan[u].count \in Nat
                             /\ scan[u].window \in Nat
    BY <1>0, LimiterAssumption DEF LimiterTypeOK, Scan
  <1>2. LimiterTypeOK'
    BY <1>0, <1>1 DEF LimiterTypeOK
  <1>3. ASSUME NEW u \in Scans PROVE ScanOK(u)'
    BY <1>1 DEF LimiterInv, ScanOK, OverLimit
  <1>4. CountsPast'
    BY <1>1, <1>t DEF LimiterInv, CountsPast
  <1>5. CountsDistinct'
    BY <1>1 DEF LimiterInv, CountsDistinct
  <1>6. CountsFill'
    <2>1. ASSUME NEW b \in Addresses, NEW n \in Nat, 0 < n, n <= counter'[b]
          PROVE  Holds(b, window[b], n) /\ window'[b] = window[b]
      BY <1>1, <1>t, <2>1 DEF LimiterInv, CountsFill
    <2>2. ASSUME NEW u \in Scans, NEW n \in Nat, 0 < n, n <= scan[u].count
          PROVE  Holds(address[u], scan[u].window, n)
      BY <2>2 DEF LimiterInv, CountsFill
    <2> QED
      BY <1>1, <2>1, <2>2 DEF CountsFill, Holds
  <1>7. UnlimitedOnlyByFault'
    <2> SUFFICES ASSUME NEW b \in Addresses, counter'[b] > 0, b \notin ttl'
                 PROVE  \E u \in Creators(b)' : incr'[u] = "executed" \/ u \in expires' \cup faults'
      BY DEF UnlimitedOnlyByFault
    <2>1. b # a /\ counter[b] > 0 /\ b \notin ttl
      BY <1>1
    <2>2. PICK u \in Creators(b) : incr[u] = "executed" \/ u \in expires \cup faults
      BY <2>1 DEF LimiterInv, UnlimitedOnlyByFault
    <2>3. u \in Creators(b)'
      BY <1>1, <2>1 DEF Creators, Counted
    <2> QED
      BY <1>1, <2>2, <2>3
  <1> QED
    BY <1>2, <1>3, <1>4, <1>5, <1>6, <1>7 DEF LimiterInv

LEMMA LimiterStep == LimiterInv /\ [LimiterNext]_limiterVars => LimiterInv'
  <1> SUFFICES ASSUME LimiterInv, [LimiterNext]_limiterVars PROVE LimiterInv'
    OBVIOUS
  <1>1. CASE UNCHANGED limiterVars
    BY <1>1 DEF LimiterInv, limiterVars, LimiterTypeOK, ScanOK, CountsPast, CountsDistinct,
       CountsFill, Holds, UnlimitedOnlyByFault, Creators, Counted
  <1>2. CASE LimiterNext
    BY <1>2, CheckStep, ReplyStep, FailStep, TimerStep, StopStep, IncrStep, ExpireStep,
       KeyGoneStep DEF LimiterNext, Handler, Redis, KeyExpires, RedisForgets
  <1> QED
    BY <1>1, <1>2

THEOREM LimiterInvariant == LimiterSpec => []LimiterInv
  BY LimiterInvInit, LimiterStep, PTL DEF LimiterSpec

-----------------------------------------------------------------------------
(* The properties.                                                         *)

\* Every key, command and scan of the rate limiter has its type.
THEOREM LimiterTypeCorrect == LimiterSpec => []LimiterTypeOK
  <1>1. LimiterInv => LimiterTypeOK
    BY DEF LimiterInv
  <1> QED
    BY <1>1, LimiterInvariant, PTL

\* checkBlocked runs its callback at most once, though its reply, its error and
\* its timer may all come.
THEOREM CallbackRunsOnce == LimiterSpec => []FiresOnce
  <1>1. LimiterInv => FiresOnce
    BY DEF LimiterInv, FiresOnce, ScanOK
  <1> QED
    BY <1>1, LimiterInvariant, PTL

\* A key without a TTL is one whose first scan will still ask for a TTL, or
\* lost a reply or a command to a fault.
THEOREM UnlimitedIsAFault == LimiterSpec => []UnlimitedOnlyByFault
  <1>1. LimiterInv => UnlimitedOnlyByFault
    BY DEF LimiterInv
  <1> QED
    BY <1>1, LimiterInvariant, PTL

\* At most MAX_REQUESTS_PER_MINUTE of the scans counted on one key pass because
\* of their count.
THEOREM PassesAreBounded == LimiterSpec => []PassesBounded
  <1>1. ASSUME LimiterInv, NEW s \in Scans
        PROVE  Cardinality({u \in Counted(address[s], scan[s].window) : Passed(u)})
                  <= MAX_REQUESTS_PER_MINUTE
    <2> DEFINE P == {u \in Counted(address[s], scan[s].window) : Passed(u)}
               number == [u \in P |-> scan[u].count]
    <2>1. IsFiniteSet(1..MAX_REQUESTS_PER_MINUTE)
          /\ Cardinality(1..MAX_REQUESTS_PER_MINUTE) = MAX_REQUESTS_PER_MINUTE
      BY LimiterAssumption, FS_Interval, SMT
    <2>2. ASSUME NEW u \in P PROVE scan[u].count \in 1..MAX_REQUESTS_PER_MINUTE
      <3>1. u \in Scans /\ ScanOK(u) /\ scan[u] \in Scan
        BY <1>1 DEF Counted, LimiterInv, LimiterTypeOK
      <3>2. scan[u].count > 0 /\ ~OverLimit(scan[u].count)
        BY <3>1 DEF Counted, Passed, ScanOK
      <3>3. scan[u].count \in Nat
        BY <3>1 DEF Scan
      <3> QED
        BY <3>2, <3>3, LimiterAssumption DEF OverLimit
    <2>3. number \in Injection(P, 1..MAX_REQUESTS_PER_MINUTE)
      <3>1. ASSUME NEW u \in P, NEW v \in P, scan[u].count = scan[v].count PROVE u = v
        BY <1>1, <3>1 DEF Counted, LimiterInv, CountsDistinct
      <3> QED
        BY <2>2, <3>1 DEF Injection, IsInjective
    <2> HIDE DEF P, number
    <2>4. Cardinality(P) <= Cardinality(1..MAX_REQUESTS_PER_MINUTE)
      BY <2>1, <2>3, FS_Injection
    <2> QED
      BY <2>1, <2>4 DEF P
  <1>2. LimiterInv => PassesBounded
    BY <1>1 DEF PassesBounded
  <1> QED
    BY <1>2, LimiterInvariant, PTL

\* A blocked scan was counted after at least MAX_REQUESTS_PER_MINUTE others of
\* its address, on the same key.
THEOREM BlockedOnlyAfterLimit == LimiterSpec => []BlockedAfterLimit
  <1>1. ASSUME LimiterInv, NEW s \in Scans, scan[s].blocked
        PROVE  Cardinality({u \in Counted(address[s], scan[s].window) :
                               scan[u].count < scan[s].count}) >= MAX_REQUESTS_PER_MINUTE
    <2> DEFINE M == MAX_REQUESTS_PER_MINUTE
               B == {u \in Counted(address[s], scan[s].window) :
                        scan[u].count < scan[s].count}
               holder == [n \in 1..M |-> CHOOSE u \in B : scan[u].count = n]
    <2>1. IsFiniteSet(1..M) /\ Cardinality(1..M) = M /\ M \in Nat
      BY LimiterAssumption, FS_Interval, SMT
    <2>2. IsFiniteSet(B) /\ Cardinality(B) \in Nat
      BY LimiterAssumption, FS_Subset, FS_CardinalityType DEF Counted
    <2>3. scan[s].count \in Nat /\ scan[s].count > M
      <3>1. ScanOK(s) /\ scan[s] \in Scan
        BY <1>1 DEF LimiterInv, LimiterTypeOK
      <3>2. OverLimit(scan[s].count)
        BY <1>1, <3>1 DEF ScanOK
      <3> QED
        BY <3>1, <3>2 DEF OverLimit, Scan
    <2>4. ASSUME NEW n \in 1..M PROVE \E u \in B : scan[u].count = n
      <3>1. n \in Nat /\ 0 < n /\ n <= scan[s].count /\ n < scan[s].count
        BY <2>1, <2>3
      <3>2. Holds(address[s], scan[s].window, n)
        BY <1>1, <3>1 DEF LimiterInv, CountsFill
      <3> QED
        BY <3>1, <3>2 DEF Holds, Counted
    <2>5. \A n \in 1..M : holder[n] \in B /\ scan[holder[n]].count = n
      BY <2>4
    <2>6. holder \in Injection(1..M, B)
      BY <2>5 DEF Injection, IsInjective
    <2> HIDE DEF B, holder, M
    <2>7. Cardinality(1..M) <= Cardinality(B)
      BY <2>2, <2>6, FS_Injection
    <2> QED
      BY <2>1, <2>2, <2>7 DEF B, M
  <1>2. LimiterInv => BlockedAfterLimit
    BY <1>1 DEF BlockedAfterLimit
  <1> QED
    BY <1>2, LimiterInvariant, PTL

-----------------------------------------------------------------------------
(* The endpoint.                                                           *)

Replies == Attacks \cup {"none", "safe", "400"}

OutputsOK ==
    /\ reply \in [Scans -> Replies]
    /\ inserting \subseteq Row
    /\ rows \subseteq Row

\* The reply follows the callback; a malformed scan never runs one.
AnsweredOK(s) ==
    IF s \in malformed
    THEN reply[s] \in {"none", "400"} /\ scan[s].pc \in {"new", "dropped"}
    ELSE reply[s] = "none" <=> scan[s].calls = 0

ScanInv ==
    /\ LimiterInv
    /\ OutputsOK
    /\ \A s \in Scans : AnsweredOK(s)
    /\ RowsAgree

LEMMA DetectionKinds ==
  ASSUME NEW s \in Scans
  PROVE  Detection(s) \in {"SQLi", "XSS", "safe"}
  BY DEF Detection

LEMMA VerdictKinds ==
  ASSUME NEW s \in Scans
  PROVE  Verdict(s) \in {"SQLi", "XSS", "safe", "RateLimit"}
  BY DetectionKinds DEF Verdict

LEMMA ScanInvInit == ScanInit => ScanInv
  <1> SUFFICES ASSUME ScanInit PROVE ScanInv
    OBVIOUS
  <1>1. LimiterInv
    BY LimiterInvInit DEF ScanInit
  <1>2. OutputsOK /\ RowsAgree
    BY DEF ScanInit, OutputsOK, Replies, RowsAgree
  <1>3. ASSUME NEW s \in Scans PROVE AnsweredOK(s)
    BY DEF ScanInit, LimiterInit, NewScan, AnsweredOK
  <1> QED
    BY <1>1, <1>2, <1>3 DEF ScanInv

\* A step of the endpoint is a step of the limiter or leaves it alone.
LEMMA RunsLimiter == [ScanNext]_vars => [LimiterNext]_limiterVars
  BY DEF ScanNext, RejectMalformed, RunScan, RowStored, RowLost, LimiterNext, vars

\* A handler of s leaves the other scans alone.
LEMMA HandlerOwn ==
  ASSUME LimiterTypeOK, NEW s \in Scans, Handler(s)
  PROVE  \A u \in Scans \ {s} : scan'[u] = scan[u]
  BY DEF LimiterTypeOK, Handler, CheckBlocked, IncrReplied, IncrFailed, TimerFires, Fire

\* No step of Redis, nor the engine's stopping, runs a callback.
LEMMA RedisCalls ==
  ASSUME LimiterTypeOK, Redis \/ EngineStops, NEW s \in Scans
  PROVE  /\ scan'[s].calls = scan[s].calls
         /\ scan[s].pc \in {"new", "dropped"} => scan'[s].pc = scan[s].pc
  <1>0. scan[s] \in Scan /\ scan \in [Scans -> Scan]
    BY DEF LimiterTypeOK
  <1>1. ASSUME NEW u \in Scans, RedisIncr(u)
        PROVE  scan'[s].calls = scan[s].calls /\ scan'[s].pc = scan[s].pc
    BY <1>0, <1>1 DEF RedisIncr, Scan
  <1>2. CASE UNCHANGED scan
    BY <1>2
  <1>3. CASE EngineStops
    BY <1>0, <1>3 DEF EngineStops, Scan
  <1> QED
    BY <1>1, <1>2, <1>3 DEF Redis, RedisExpire, ExpireLost, KeyExpires, RedisForgets, KeyGone

\* What a callback that runs does to the outputs.
LEMMA ConcludeFacts ==
  ASSUME ScanInv, LimiterInv', NEW s \in Scans, RunScan(s)
  PROVE  \/ scan'[s].calls = scan[s].calls /\ UNCHANGED outputs
         \/ /\ scan[s].calls = 0 /\ scan'[s].calls = 1
            /\ reply[s] = "none"
            /\ reply' = [reply EXCEPT ![s] = Verdict(s)]
            /\ IF Verdict(s) \in Attacks THEN Log(s, Verdict(s)) ELSE UNCHANGED inserting
            /\ UNCHANGED rows
  <1>1. CASE scan'[s].calls = scan[s].calls
    BY <1>1 DEF RunScan, Conclude, outputs
  <1>2. CASE scan'[s].calls # scan[s].calls
    <2>1. scan[s].calls \in {0, 1} /\ scan'[s].calls \in {0, 1}
      BY DEF ScanInv, LimiterInv, ScanOK
    <2>2. scan[s].calls = 0
      <3>1. CASE scan[s].pc = "done"
        <4>1. scan'[s] = scan[s]
          BY <3>1 DEF RunScan, Handler, CheckBlocked, IncrReplied, IncrFailed, TimerFires, Fire
        <4> QED
          BY <1>2, <4>1
      <3>2. CASE scan[s].pc # "done"
        BY <3>2 DEF ScanInv, LimiterInv, ScanOK
      <3> QED
        BY <3>1, <3>2
    <2>3. reply[s] = "none"
      BY <2>2 DEF ScanInv, AnsweredOK, RunScan
    <2> QED
      BY <1>2, <2>1, <2>2, <2>3 DEF RunScan, Conclude, Respond
  <1> QED
    BY <1>1, <1>2

LEMMA RunStep ==
  ASSUME ScanInv, LimiterInv', NEW s \in Scans, RunScan(s)
  PROVE  ScanInv'
  <1>0. \A u \in Scans \ {s} : scan'[u] = scan[u]
    BY HandlerOwn DEF ScanInv, LimiterInv, RunScan
  <1>1. CASE scan'[s].calls = scan[s].calls /\ UNCHANGED outputs
    <2>1. ASSUME NEW u \in Scans PROVE AnsweredOK(u)'
      BY <1>0, <1>1, <2>1 DEF ScanInv, AnsweredOK, RunScan, outputs
    <2>2. OutputsOK' /\ RowsAgree'
      BY <1>1 DEF ScanInv, OutputsOK, RowsAgree, outputs
    <2> QED
      BY <2>1, <2>2 DEF ScanInv
  <1>2. CASE /\ scan[s].calls = 0 /\ scan'[s].calls = 1
             /\ reply[s] = "none"
             /\ reply' = [reply EXCEPT ![s] = Verdict(s)]
             /\ IF Verdict(s) \in Attacks THEN Log(s, Verdict(s)) ELSE UNCHANGED inserting
             /\ UNCHANGED rows
    <2> DEFINE v == Verdict(s)
    <2>1. v \in Replies /\ v # "none"
      BY VerdictKinds DEF Replies, Attacks, Kinds
    <2> HIDE DEF v
    <2>2. /\ reply' \in [Scans -> Replies] /\ reply'[s] = v
          /\ \A u \in Scans \ {s} : reply'[u] = reply[u]
      BY <1>2, <2>1 DEF ScanInv, OutputsOK, v
    <2>3. inserting' \subseteq inserting \cup {[scan |-> s, attack |-> v]}
      BY <1>2 DEF Log, v
    <2>4. v \in Attacks \/ inserting' = inserting
      BY <1>2 DEF v
    <2>5. OutputsOK'
      BY <1>2, <2>2, <2>3, <2>4 DEF ScanInv, OutputsOK, Row
    <2>6. ASSUME NEW u \in Scans PROVE AnsweredOK(u)'
      BY <1>0, <1>2, <2>1, <2>2, <2>6 DEF ScanInv, AnsweredOK, RunScan
    <2>7. ASSUME NEW r \in inserting' \cup rows' PROVE reply'[r.scan] = r.attack
      <3>1. CASE r = [scan |-> s, attack |-> v]
        BY <2>2, <3>1
      <3>2. CASE r \in inserting \cup rows
        <4>1. r.scan \in Scans /\ r.attack \in Attacks /\ reply[r.scan] = r.attack
          BY <3>2 DEF ScanInv, OutputsOK, Row, RowsAgree
        <4>2. "none" \notin Attacks
          BY DEF Attacks, Kinds
        <4> QED
          BY <1>2, <2>2, <4>1, <4>2
      <3> QED
        BY <1>2, <2>3, <2>7, <3>1, <3>2
    <2> QED
      BY <2>5, <2>6, <2>7 DEF ScanInv, RowsAgree
  <1> QED
    BY <1>1, <1>2, ConcludeFacts

LEMMA RejectStep ==
  ASSUME ScanInv, LimiterInv', NEW s \in Scans, RejectMalformed(s)
  PROVE  ScanInv'
  <1>1. /\ reply' = [reply EXCEPT ![s] = "400"] /\ reply[s] = "none" /\ s \in malformed
        /\ UNCHANGED <<scan, inserting, rows>>
    BY DEF RejectMalformed, Respond, limiterVars
  <1>2. OutputsOK'
    BY <1>1 DEF ScanInv, OutputsOK, Replies
  <1>3. ASSUME NEW u \in Scans PROVE AnsweredOK(u)'
    BY <1>1, <1>3 DEF ScanInv, OutputsOK, AnsweredOK
  <1>4. ASSUME NEW r \in inserting \cup rows PROVE reply'[r.scan] = r.attack
    <2>1. r.scan \in Scans /\ r.attack \in Attacks /\ reply[r.scan] = r.attack
      BY <1>4 DEF ScanInv, OutputsOK, Row, RowsAgree
    <2>2. "none" \notin Attacks
      BY DEF Attacks, Kinds
    <2> QED
      BY <1>1, <2>1, <2>2 DEF ScanInv, OutputsOK
  <1> QED
    BY <1>1, <1>2, <1>3, <1>4 DEF ScanInv, RowsAgree

LEMMA ScanInvStep == ScanInv /\ [ScanNext]_vars => ScanInv'
  <1> SUFFICES ASSUME ScanInv, [ScanNext]_vars PROVE ScanInv'
    OBVIOUS
  <1>0. LimiterInv'
    BY RunsLimiter, LimiterStep DEF ScanInv
  <1>1. ASSUME UNCHANGED reply, inserting' \cup rows' \subseteq inserting \cup rows,
               \A s \in Scans : /\ scan'[s].calls = scan[s].calls
                                /\ scan[s].pc \in {"new", "dropped"} => scan'[s].pc = scan[s].pc
        PROVE  ScanInv'
    <2>1. OutputsOK' /\ RowsAgree'
      BY <1>1 DEF ScanInv, OutputsOK, RowsAgree
    <2>2. ASSUME NEW s \in Scans PROVE AnsweredOK(s)'
      BY <1>1, <2>2 DEF ScanInv, AnsweredOK
    <2> QED
      BY <1>0, <2>1, <2>2 DEF ScanInv
  <1>2. CASE \E s \in Scans : RejectMalformed(s)
    BY <1>0, <1>2, RejectStep
  <1>3. CASE \E s \in Scans : RunScan(s)
    BY <1>0, <1>3, RunStep
  <1>4. CASE \E r \in inserting : RowStored(r) \/ RowLost(r)
    BY <1>1, <1>4 DEF RowStored, RowLost, limiterVars
  <1>5. CASE (Redis \/ EngineStops) /\ UNCHANGED outputs
    <2>1. LimiterTypeOK
      BY DEF ScanInv, LimiterInv
    <2> QED
      BY <1>1, <1>5, <2>1, RedisCalls DEF outputs
  <1>6. CASE UNCHANGED vars
    BY <1>1, <1>6 DEF vars, limiterVars
  <1> QED
    BY <1>2, <1>3, <1>4, <1>5, <1>6 DEF ScanNext

LEMMA ScanInvariant == ScanSpec => []ScanInv
  BY ScanInvInit, ScanInvStep, PTL DEF ScanSpec

-----------------------------------------------------------------------------

\* Keys, commands, scans, replies and rows have their types.
THEOREM ScanTypeCorrect == ScanSpec => []ScanTypeOK
  <1>1. ScanInv => ScanTypeOK
    BY DEF ScanInv, LimiterInv, OutputsOK, Replies, ScanTypeOK
  <1> QED
    BY <1>1, ScanInvariant, PTL

\* The log agrees with the answers.
THEOREM LogAgrees == ScanSpec => []RowsAgree
  <1>1. ScanInv => RowsAgree
    BY DEF ScanInv
  <1> QED
    BY <1>1, ScanInvariant, PTL

\* The limiter inside the endpoint is RateLimiter: its theorems hold here.
THEOREM ScanRunsLimiter == ScanSpec => LimiterSpec
  <1>1. ScanInit => LimiterInit
    BY DEF ScanInit
  <1> QED
    BY <1>1, RunsLimiter, PTL DEF ScanSpec, LimiterSpec

\* The endpoint implements ScanContract: one answer, the first attack its content
\* has or "RateLimit", whatever Redis does.
THEOREM ScanImplementsContract == ScanSpec => KeepsContract
  <1>1. ScanInit => Contract!ContractInit
    BY DEF ScanInit, Contract!ContractInit
  <1>2. ScanInv /\ [ScanNext]_vars => [Contract!ContractNext]_reply
    <2> SUFFICES ASSUME ScanInv, [ScanNext]_vars PROVE [Contract!ContractNext]_reply
      OBVIOUS
    <2>1. ASSUME NEW s \in Scans, RejectMalformed(s) PROVE [Contract!ContractNext]_reply
      <3>1. s \in malformed /\ reply[s] = "none" /\ reply' = [reply EXCEPT ![s] = "400"]
        BY <2>1 DEF RejectMalformed, Respond
      <3>2. Contract!AnswerScan(s)
        BY <3>1 DEF Contract!AnswerScan, Contract!Allowed
      <3> QED
        BY <3>2 DEF Contract!ContractNext
    <2>2. ASSUME NEW s \in Scans, RunScan(s) PROVE [Contract!ContractNext]_reply
      <3>1. CASE UNCHANGED outputs
        BY <3>1 DEF outputs
      <3>2. CASE reply[s] = "none" /\ reply' = [reply EXCEPT ![s] = Verdict(s)]
        <4>1. s \notin malformed /\ Detection(s) # "400"
          BY <2>2, DetectionKinds DEF RunScan
        <4>2. Verdict(s) \in {Detection(s), "RateLimit"}
          BY DEF Verdict
        <4>3. Contract!AnswerScan(s)
          BY <3>2, <4>1, <4>2 DEF Contract!AnswerScan, Contract!Allowed
        <4> QED
          BY <4>3 DEF Contract!ContractNext
      <3>3. LimiterInv'
        BY RunsLimiter, LimiterStep DEF ScanInv
      <3> QED
        BY <2>2, <3>1, <3>2, <3>3, ConcludeFacts
    <2>3. CASE UNCHANGED reply
      BY <2>3
    <2> QED
      BY <2>1, <2>2, <2>3 DEF ScanNext, RowStored, RowLost, outputs, vars
  <1> QED
    BY <1>1, <1>2, ScanInvariant, PTL DEF ScanSpec, KeepsContract, Contract!ContractSpec
=============================================================================
