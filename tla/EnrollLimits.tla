---------------------------- MODULE EnrollLimits ----------------------------
(***************************************************************************)
(* The two limiters in front of enrollment, as main.rs sets them up: one   *)
(* for the flows a client starts, and one of 200 times its limit for their *)
(* polls, over windows of one length.  Both are RateLimiters of this       *)
(* process and go with it; a flow is GitHub's, and the harness that polls  *)
(* it does not notice a restart.                                           *)
(***************************************************************************)
EXTENDS Integers, Sequences, FiniteSets

CONSTANTS
  Callers,       \* harnesses
  Addresses,
  Home,          \* caller -> the address it calls from
  Headers,       \* caller -> the headers its requests arrive with
  Null,          \* no such header, or one that is blank
  Unknown,       \* "unknown"
  Flows,         \* every flow there will ever be
  Limit,         \* enroll_rate_limit
  Factor,        \* 200
  Window,        \* enroll_rate_window_secs, in polling intervals
  Lifetime,      \* expires_in of a code, in polling intervals (180)
  MaxTracked,    \* MAX_TRACKED
  MaxTime,       \* bound: how far a run's clock goes
  MaxRestarts    \* bound: restarts in a run

Header == [cf_connecting_ip : Addresses \cup {Null},
           x_forwarded_for : Seq(Addresses \cup {Null})]

ASSUME EnrollLimitsAssumption ==
  /\ Callers # {} /\ IsFiniteSet(Flows)
  /\ Headers \in [Callers -> Header] /\ Home \in [Callers -> Addresses]
  /\ {Limit, Factor, Window, Lifetime, MaxTime, MaxRestarts} \subseteq Nat
  /\ Unknown \notin Addresses /\ Null \notin Addresses

\* Cloudflare overwrites CF-Connecting-IP on ingress, and the gateway puts the
\* original client first: a request names the address it comes from or none.
ASSUME HeadersAssumption ==
  \A c \in Callers :
    \/ Headers[c].cf_connecting_ip = Home[c]
    \/ /\ Headers[c].cf_connecting_ip = Null
       /\ Headers[c].x_forwarded_for # <<>> =>
            Head(Headers[c].x_forwarded_for) \in {Home[c], Null}

\* "a 15-minute code at a 5-second interval is around 180 polls", and 200 of
\* them are allowed for; the code is a quarter of the default window.
ASSUME FlowAssumption == Lifetime <= Factor

VARIABLES
  now,
  startSeen, startVerdict, startLog,   \* enroll_limiter
  pollSeen, pollVerdict, pollLog,      \* enroll_poll_limiter
  flow,        \* flow -> [stage, caller, at, polls]
  restarts,
  polled       \* history: key -> the polls of its window, <<flow, how-manieth>>

startLimiter == <<startSeen, startVerdict, startLog>>
pollLimiter == <<pollSeen, pollVerdict, pollLog>>
limitsVars == <<now, startLimiter, pollLimiter, flow, restarts, polled>>

-----------------------------------------------------------------------------

\* The last of the proxies a request came through, and not its client.
ClientKeyOfProxy(h) ==
  LET chain == h.x_forwarded_for IN
  IF chain # <<>> /\ chain[Len(chain)] # Null THEN chain[Len(chain)] ELSE Unknown

\* client_key, with no socket: the handlers pass None.
ClientKey(h) ==
  IF h.cf_connecting_ip # Null THEN h.cf_connecting_ip
  ELSE IF h.x_forwarded_for # <<>> /\ Head(h.x_forwarded_for) # Null
       THEN Head(h.x_forwarded_for)
       ELSE Unknown

Keys == Addresses \cup {Unknown}

\* The strict limit for both.
PollLimitShared == Limit

\* enroll_rate_limit.saturating_mul(200)
PollLimit == Limit * Factor

\* Bound: a client makes one call too many in a window, and no more.
S == INSTANCE RateLimiter WITH
  MaxHits <- Limit + 1, HitSpace <- Limit + 2,
  seen <- startSeen, verdict <- startVerdict, log <- startLog

P == INSTANCE RateLimiter WITH
  Limit <- PollLimit, MaxHits <- PollLimit + 1, HitSpace <- PollLimit + 2,
  seen <- pollSeen, verdict <- pollVerdict, log <- pollLog

KeyOf(c) == ClientKey(Headers[c])

-----------------------------------------------------------------------------

\* start: what the limiter lets through is a flow, unless GitHub fails.
Start(f, c) ==
  /\ flow[f].stage = "new"
  /\ S!Check(KeyOf(c))
  /\ \E stage \in IF startVerdict'.ok THEN {"open", "over"} ELSE {"over"} :
       flow' = [flow EXCEPT ![f] =
                  [stage |-> stage, caller |-> c, at |-> now, polls |-> 0]]
  /\ UNCHANGED <<pollLimiter, restarts, polled>>

\* poll.  A harness asks at most once in an interval, first when one has passed,
\* and not again when its code was entered or declined, or it gives up.
Poll(f) ==
  LET c == flow[f].caller
      k == KeyOf(c)
  IN
  /\ flow[f].stage = "open"
  /\ flow[f].polls < now - flow[f].at
  /\ P!Check(k)
  /\ flow' = [flow EXCEPT ![f].polls = @ + 1]
  /\ polled' = [polled EXCEPT ![k] =
                  (IF P!Live(k, now) THEN @ ELSE {}) \cup {<<f, flow'[f].polls>>}]
  /\ UNCHANGED <<startLimiter, restarts>>

\* Time passes, and codes run out.
Tick ==
  /\ now < MaxTime
  /\ now' = now + 1
  /\ flow' = [f \in Flows |->
                IF flow[f].stage = "open" /\ now' > flow[f].at + Lifetime
                THEN [flow[f] EXCEPT !.stage = "over"] ELSE flow[f]]
  /\ UNCHANGED <<startLimiter, pollLimiter, restarts, polled>>

\* The process is replaced: both maps are new, and no verdict is its own.
Restart ==
  /\ restarts < MaxRestarts
  /\ restarts' = restarts + 1
  /\ startSeen' = <<>> /\ pollSeen' = <<>>
  /\ startLog' = [k \in Keys |-> <<>>] /\ pollLog' = [k \in Keys |-> <<>>]
  /\ pollVerdict' = [pollVerdict EXCEPT !.ok = TRUE]
  /\ UNCHANGED <<now, startVerdict, flow, polled>>

Init ==
  /\ S!Init /\ P!Init
  /\ flow = [f \in Flows |-> [stage |-> "new", caller |-> CHOOSE c \in Callers : TRUE,
                              at |-> 0, polls |-> 0]]
  /\ restarts = 0
  /\ polled = [k \in Keys |-> {}]

Next ==
  \/ \E f \in Flows : (\E c \in Callers : Start(f, c)) \/ Poll(f)
  \/ Tick
  \/ Restart

Spec == Init /\ [][Next]_limitsVars

-----------------------------------------------------------------------------
(* Properties.                                                             *)

\* A poll is turned away only when its client has polled for more flows in one
\* window than it may start in one, or the map is full of live windows.  The
\* limits of main.rs "cannot drift into a combination that throttles the flow
\* it is meant to permit": that is so up to Limit flows, and not beyond, since
\* the flows started late in a window and early in the next are polled in one.
\* Nor does a client share with another one, unless neither has a header.
FlowsOf(k) == {p[1] : p \in polled[k]}

PollsFitTheFlows ==
  ~pollVerdict.ok =>
    LET k == pollVerdict.key IN
    \/ Cardinality(DOMAIN pollSeen) >= MaxTracked
    \/ /\ Cardinality(FlowsOf(k)) > Limit
       /\ k # Unknown => \A f \in FlowsOf(k) : Home[flow[f].caller] = k
=============================================================================
