---------------------------- MODULE RateLimiter ----------------------------
(***************************************************************************)
(* The fixed-window limiter of ratelimit.rs, which guards the install      *)
(* endpoints and the two enrollment endpoints.  A check holds the mutex    *)
(* from its first line to its last, so it is one action; the clock is the  *)
(* monotonic Instant::now().  The state is that of one process: nothing is *)
(* persisted.                                                              *)
(***************************************************************************)
EXTENDS Integers, Sequences, FiniteSets

CONSTANTS
  Keys,        \* what client_key derives from a request
  Limit,       \* limit
  Window,      \* window, in ticks
  MaxTracked,  \* MAX_TRACKED
  HitSpace,    \* 2^32: hits is a u32, and the release build wraps it
  MaxHits,     \* bound: calls one client makes within a window
  MaxTime      \* bound: how far a run's clock goes

ASSUME LimiterAssumption ==
  /\ Keys # {}
  /\ Limit \in Nat /\ Window \in Nat
  /\ MaxTracked \in Nat \ {0}
  /\ MaxHits \in Nat /\ HitSpace \in Nat
  /\ Limit < HitSpace /\ 1 < HitSpace

\* Nobody makes 2^32 calls within one window: that is 70 million a second
\* at the default window of a minute.
ASSUME BusyAssumption == MaxHits < HitSpace

VARIABLES
  now,      \* Instant::now()
  seen,     \* the map: key -> [started, hits], for the keys tracked
  verdict,  \* the last call: who made it, when, and what check returned
  log       \* history: the admissions of each key, in order

limiterVars == <<now, seen, verdict, log>>

Entry == [started : Nat, hits : 0 .. HitSpace - 1]

\* An admission: when, in the window begun when, and the how-manieth of it.
Admission == [at : Nat, win : Nat, nth : Nat]

-----------------------------------------------------------------------------

Live(k, t) == k \in DOMAIN seen /\ t - seen[k].started < Window

\* seen.retain at the threshold: evicts every window, the live ones as well.
RetainedNone(t) ==
  IF Cardinality(DOMAIN seen) >= MaxTracked THEN {} ELSE DOMAIN seen

\* The map is swept only when it has grown to the threshold.
Retained(t) ==
  IF Cardinality(DOMAIN seen) >= MaxTracked
  THEN {k \in DOMAIN seen : Live(k, t)}
  ELSE DOMAIN seen

\* A threshold that lets one more in.
FullLate(t) == Cardinality(Retained(t)) > MaxTracked

\* Still full of live windows: even a key that is tracked is turned away.
Full(t) == Cardinality(Retained(t)) >= MaxTracked

Bumped(k) == (seen[k].hits + 1) % HitSpace

\* One hit too many, and one too few.
WithinLate(hits) == hits <= Limit + 1
WithinEarly(hits) == hits < Limit

Within(hits) == hits <= Limit

Verdict(k, ok) == verdict' = [key |-> k, ok |-> ok, at |-> now]

Admit(k, win, nth) ==
  log' = [log EXCEPT ![k] = Append(@, [at |-> now, win |-> win, nth |-> nth])]

\* Shed rather than grow.
Shed(k) ==
  /\ Full(now)
  /\ seen' = [j \in Retained(now) |-> seen[j]]
  /\ Verdict(k, FALSE)
  /\ UNCHANGED <<now, log>>

\* A hit within a live window.
Hit(k) ==
  /\ ~Full(now)
  /\ Live(k, now)
  /\ seen[k].hits < MaxHits
  /\ seen' = [j \in Retained(now) |->
                IF j = k THEN [started |-> seen[k].started, hits |-> Bumped(k)]
                         ELSE seen[j]]
  /\ Verdict(k, Within(Bumped(k)))
  /\ IF Within(Bumped(k))
     THEN Admit(k, seen[k].started, Bumped(k))
     ELSE UNCHANGED log
  /\ UNCHANGED now

\* Absent, or the window has expired and starts again.
Open(k) ==
  /\ ~Full(now)
  /\ ~Live(k, now)
  /\ seen' = [j \in Retained(now) \cup {k} |->
                IF j = k THEN [started |-> now, hits |-> 1] ELSE seen[j]]
  /\ Verdict(k, TRUE)
  /\ Admit(k, now, 1)
  /\ UNCHANGED now

Check(k) == Shed(k) \/ Hit(k) \/ Open(k)

Tick ==
  /\ now < MaxTime
  /\ now' = now + 1
  /\ UNCHANGED <<seen, verdict, log>>

Init ==
  /\ now = 0
  /\ seen = [k \in {} |-> [started |-> 0, hits |-> 0]]
  /\ verdict = [key |-> CHOOSE k \in Keys : TRUE, ok |-> TRUE, at |-> 0]
  /\ log = [k \in Keys |-> <<>>]

Next == Tick \/ \E k \in Keys : Check(k)

Spec == Init /\ [][Next]_limiterVars

-----------------------------------------------------------------------------
(* Properties.                                                             *)

\* Every variable has its type, and the map never outgrows MAX_TRACKED, however
\* many addresses call ("so a long-running process cannot be made to grow
\* without bound by cycling source addresses").
TypeOK ==
  /\ now \in Nat
  /\ DOMAIN seen \subseteq Keys
  /\ seen \in [DOMAIN seen -> Entry]
  /\ log \in [Keys -> Seq(Admission)]
  /\ verdict \in [key : Keys, ok : BOOLEAN, at : Nat]
  /\ Cardinality(DOMAIN seen) <= MaxTracked

\* A limit of zero still admits the hit that opens a window: check returns
\* true there without comparing.
Effective == IF Limit = 0 THEN 1 ELSE Limit

\* The weakness the module comment owns up to, and no worse: within the length
\* of one window a client is admitted fewer than twice its limit.  Any 2L of
\* its consecutive admissions take at least a window.
SlidingBound ==
  \A k \in Keys : \A i \in DOMAIN log[k] :
    LET j == i + 2 * Effective - 1 IN
    j \in DOMAIN log[k] => log[k][j].at - log[k][i].at >= Window

\* A client is turned away only if it has itself spent its limit within the
\* last window, or the map is full of clients whose windows are live.  (The
\* test callers_are_counted_separately, for any number of callers.)
SpentBy(k, t) ==
  Cardinality({i \in DOMAIN log[k] : t - log[k][i].at < Window}) >= Limit

RefusalsAreEarned ==
  ~verdict.ok =>
    \/ SpentBy(verdict.key, verdict.at)
    \/ Cardinality({k \in Keys : Live(k, verdict.at)}) >= MaxTracked

\* The sweep and the insertions leave a live window alone: only the client's
\* own call changes its count, and nothing restarts it before it has expired.
\* Losing one would hand its client a fresh allowance.
LiveWindowsKept ==
  [][\A k \in Keys :
       Live(k, now) =>
         /\ k \in DOMAIN seen'
         /\ seen'[k].started = seen[k].started
         /\ seen'[k].hits # seen[k].hits => verdict'.key = k]_limiterVars
=============================================================================
