------------------------ MODULE EnrollLimits_proofs ------------------------
(***************************************************************************)
(* The two limits of main.rs fit, for any limit, window, lifetime of a     *)
(* code, number of harnesses and of restarts.                              *)
(***************************************************************************)
EXTENDS EnrollLimits, TLAPS, FiniteSetTheorems

FlowRow == [stage : {"new", "open", "over"}, caller : Callers, at : Nat, polls : Nat]

Types ==
  /\ now \in Nat
  /\ flow \in [Flows -> FlowRow]
  /\ pollSeen \in [DOMAIN pollSeen -> [started : Nat, hits : Nat]]
  /\ DOMAIN pollSeen \subseteq Keys
  /\ polled \in [Keys -> SUBSET (Flows \X (1 .. Lifetime))]
  /\ pollVerdict.key \in Keys

\* A flow is polled at most once in an interval, as long as its code lasts.
Paced ==
  \A f \in Flows : flow[f].stage = "open" => now <= flow[f].at + Lifetime

\* What a key was counted for are polls that were made, by its own callers.
Counted ==
  \A k \in Keys : \A p \in polled[k] :
    /\ flow[p[1]].stage # "new" /\ p[2] <= flow[p[1]].polls
    /\ KeyOf(flow[p[1]].caller) = k

\* And the limiter counts no more than were made.
CountedOnce ==
  \A k \in DOMAIN pollSeen : pollSeen[k].hits <= Cardinality(polled[k])

\* A refusal was for too many flows, or for the map.
Earned ==
  ~pollVerdict.ok =>
    \/ Cardinality(DOMAIN pollSeen) >= MaxTracked
    \/ Cardinality(FlowsOf(pollVerdict.key)) > Limit

Inv == Types /\ Paced /\ Counted /\ CountedOnce /\ Earned

-----------------------------------------------------------------------------

LEMMA Numbers ==
  /\ {Limit, Factor, Window, Lifetime} \subseteq Nat
  /\ PollLimit \in Nat /\ Lifetime <= Factor
BY EnrollLimitsAssumption, FlowAssumption DEF PollLimit

\* The limiter's Cardinality is everybody's.
LEMMA SameCardinality == \A set : P!Cardinality(set) = Cardinality(set)
<1> TAKE set
<1> QED BY DEF P!Cardinality, Cardinality

\* A caller counts as itself, or as one of those that arrive without a header.
LEMMA KeysAreOwn ==
  ASSUME NEW c \in Callers
  PROVE  KeyOf(c) \in {Home[c], Unknown} /\ KeyOf(c) \in Keys
<1> DEFINE h == Headers[c]
<1>1. h \in Header /\ Home[c] \in Addresses
    BY EnrollLimitsAssumption
<1>2. CASE h.cf_connecting_ip # Null
    BY <1>1, <1>2, HeadersAssumption DEF KeyOf, ClientKey, Keys
<1>3. CASE h.cf_connecting_ip = Null
    <2>1. h.x_forwarded_for # <<>> => Head(h.x_forwarded_for) \in {Home[c], Null}
        BY <1>1, <1>3, HeadersAssumption, EnrollLimitsAssumption
    <2> QED BY <1>1, <1>3, <2>1 DEF KeyOf, ClientKey, Keys
<1> QED BY <1>2, <1>3

LEMMA PolledFinite ==
  ASSUME NEW counted \in SUBSET (Flows \X (1 .. Lifetime))
  PROVE  LET of == {p[1] : p \in counted} IN
         /\ IsFiniteSet(counted) /\ Cardinality(counted) \in Nat
         /\ IsFiniteSet(of) /\ Cardinality(of) \in Nat
         /\ Cardinality(counted) <= Cardinality(of) * Lifetime
<1> DEFINE of == {p[1] : p \in counted}
<1>1. of \subseteq Flows
    OBVIOUS
<1>2. IsFiniteSet(of) /\ Cardinality(of) \in Nat
    BY <1>1, EnrollLimitsAssumption, FS_Subset, FS_CardinalityType
<1>3. counted \subseteq of \X (1 .. Lifetime)
    OBVIOUS
<1>4. /\ IsFiniteSet(1 .. Lifetime) /\ Cardinality(1 .. Lifetime) = Lifetime
    <2>1. 1 \in Int /\ Lifetime \in Int /\ Lifetime >= 0
        BY Numbers
    <2>2. /\ IsFiniteSet(1 .. Lifetime)
          /\ Cardinality(1 .. Lifetime) = IF 1 > Lifetime THEN 0 ELSE Lifetime - 1 + 1
        BY <2>1, FS_Interval, Zenon
    <2> QED BY <2>1, <2>2
<1> HIDE DEF of
<1>5. /\ IsFiniteSet(of \X (1 .. Lifetime))
      /\ Cardinality(of \X (1 .. Lifetime)) = Cardinality(of) * Lifetime
    BY <1>2, <1>4, FS_Product
<1>6. IsFiniteSet(counted) /\ Cardinality(counted) <= Cardinality(of) * Lifetime
    BY <1>3, <1>5, FS_Subset
<1> QED BY <1>2, <1>6, FS_CardinalityType DEF of

\* More than Limit * Factor polls, of flows that make Factor at most, are of
\* more than Limit flows.
LEMMA TooManyFlows ==
  ASSUME NEW n \in Nat, NEW hits \in Nat, hits <= n * Lifetime, hits > PollLimit
  PROVE  n > Limit
<1>1. SUFFICES ASSUME n <= Limit PROVE FALSE
    BY Numbers
<1>2. n * Lifetime <= n * Factor
    BY Numbers
<1>3. n * Factor <= Limit * Factor
    BY <1>1, Numbers
<1> QED BY <1>2, <1>3, Numbers DEF PollLimit

-----------------------------------------------------------------------------
(* The steps.                                                              *)

LEMMA InitInv == Init => Inv
<1> SUFFICES ASSUME Init PROVE Inv
    OBVIOUS
<1>1. /\ now = 0 /\ pollSeen = [k \in {} |-> [started |-> 0, hits |-> 0]]
      /\ pollVerdict = [key |-> CHOOSE k \in Keys : TRUE, ok |-> TRUE, at |-> 0]
      /\ flow = [f \in Flows |-> [stage |-> "new", caller |-> CHOOSE c \in Callers : TRUE,
                                  at |-> 0, polls |-> 0]]
      /\ polled = [k \in Keys |-> {}]
    BY DEF Init, P!Init
<1>2. (CHOOSE c \in Callers : TRUE) \in Callers
    BY EnrollLimitsAssumption
<1>3. Types
    <2>1. Unknown \in Keys
        BY DEF Keys
    <2>2. (CHOOSE k \in Keys : TRUE) \in Keys
        BY <2>1
    <2> QED BY <1>1, <1>2, <2>2 DEF Types, FlowRow
<1>4. Paced
    BY <1>1 DEF Paced
<1>5. Counted /\ CountedOnce /\ Earned
    BY <1>1 DEF Counted, CountedOnce, Earned
<1> QED BY <1>3, <1>4, <1>5 DEF Inv

LEMMA StartInv == ASSUME Inv, NEW f \in Flows, NEW c \in Callers, Start(f, c) PROVE Inv'
<1>1. flow[f].stage = "new" /\ now' = now /\ polled' = polled /\ pollSeen' = pollSeen
      /\ pollVerdict' = pollVerdict
    BY DEF Start, S!Check, S!Shed, S!Hit, S!Open, pollLimiter
<1>2. PICK stage \in {"open", "over"} :
        flow' = [flow EXCEPT ![f] =
                   [stage |-> stage, caller |-> c, at |-> now, polls |-> 0]]
    BY DEF Start
<1> DEFINE new == [stage |-> stage, caller |-> c, at |-> now, polls |-> 0]
<1>3. new \in FlowRow /\ new.at = now
    BY DEF Inv, Types, FlowRow
<1>4. flow' = [flow EXCEPT ![f] = new]
    BY <1>2
<1> HIDE DEF new
<1>5. Types'
    BY <1>1, <1>3, <1>4 DEF Inv, Types
<1>6. Paced'
    BY <1>1, <1>3, <1>4, Numbers DEF Inv, Types, Paced
<1>7. \A k \in Keys : \A p \in polled[k] : p[1] \in Flows /\ p[1] # f /\ flow'[p[1]] = flow[p[1]]
    BY <1>1, <1>4 DEF Inv, Types, Counted
<1>8. Counted'
    BY <1>1, <1>7 DEF Inv, Counted
<1>9. CountedOnce'
    BY <1>1 DEF Inv, CountedOnce
<1>10. Earned'
    BY <1>1 DEF Inv, Earned, FlowsOf
<1> QED BY <1>5, <1>6, <1>8, <1>9, <1>10 DEF Inv

LEMMA TickInv == ASSUME Inv, Tick PROVE Inv'
<1>1. /\ now' = now + 1 /\ polled' = polled /\ pollSeen' = pollSeen
      /\ pollVerdict' = pollVerdict
      /\ flow' = [f \in Flows |->
                    IF flow[f].stage = "open" /\ now' > flow[f].at + Lifetime
                    THEN [flow[f] EXCEPT !.stage = "over"] ELSE flow[f]]
    BY DEF Tick, pollLimiter
<1>2. \A f \in Flows : /\ flow'[f] \in FlowRow
                       /\ flow'[f].at = flow[f].at /\ flow'[f].caller = flow[f].caller
                       /\ flow'[f].polls = flow[f].polls
                       /\ flow'[f].stage = "new" => flow[f].stage = "new"
                       /\ flow'[f].stage = "open" =>
                            flow[f].stage = "open" /\ ~(now' > flow[f].at + Lifetime)
    <2> TAKE f \in Flows
    <2>1. flow[f] \in FlowRow
        BY DEF Inv, Types
    <2>2. CASE flow[f].stage = "open" /\ now' > flow[f].at + Lifetime
        <3> DEFINE over == [flow[f] EXCEPT !.stage = "over"]
        <3>1. /\ over \in FlowRow /\ over.stage = "over" /\ over.at = flow[f].at
              /\ over.caller = flow[f].caller /\ over.polls = flow[f].polls
            BY <2>1 DEF FlowRow
        <3>2. flow'[f] = over
            BY <1>1, <2>2
        <3> QED BY <2>2, <3>1, <3>2
    <2>3. CASE ~(flow[f].stage = "open" /\ now' > flow[f].at + Lifetime)
        <3>1. flow'[f] = flow[f]
            BY <1>1, <2>3
        <3> QED BY <2>1, <2>3, <3>1
    <2> QED BY <2>2, <2>3
<1>3. flow' \in [Flows -> FlowRow]
    BY <1>1, <1>2
<1>4. Types'
    BY <1>1, <1>3 DEF Inv, Types
<1>5. Paced'
    <2> SUFFICES ASSUME NEW f \in Flows, flow'[f].stage = "open"
                 PROVE  now' <= flow'[f].at + Lifetime
        BY DEF Paced
    <2>1. flow[f].at \in Nat
        BY DEF Inv, Types, FlowRow
    <2> QED BY <1>1, <1>2, <2>1, Numbers DEF Inv, Types
<1>6. Counted'
    <2> SUFFICES ASSUME NEW k \in Keys, NEW p \in polled[k]
                 PROVE  /\ flow'[p[1]].stage # "new" /\ p[2] <= flow'[p[1]].polls
                        /\ KeyOf(flow'[p[1]].caller) = k
        BY <1>1 DEF Counted
    <2>1. p[1] \in Flows
        BY DEF Inv, Types
    <2>2. /\ flow[p[1]].stage # "new" /\ p[2] <= flow[p[1]].polls
          /\ KeyOf(flow[p[1]].caller) = k
        BY DEF Inv, Counted
    <2> QED BY <1>2, <2>1, <2>2
<1>7. CountedOnce' /\ Earned'
    BY <1>1 DEF Inv, CountedOnce, Earned, FlowsOf
<1> QED BY <1>4, <1>5, <1>6, <1>7 DEF Inv

LEMMA RestartInv == ASSUME Inv, Restart PROVE Inv'
<1>1. /\ pollSeen' = <<>> /\ UNCHANGED <<now, flow, polled>>
      /\ pollVerdict' = [pollVerdict EXCEPT !.ok = TRUE]
    BY DEF Restart
<1>2. pollVerdict'.ok = TRUE => pollVerdict'.key \in Keys
    BY <1>1 DEF Inv, Types
<1> QED BY <1>1, <1>2 DEF Inv, Types, Paced, Counted, CountedOnce, Earned

LEMMA StutterInv == ASSUME Inv, UNCHANGED limitsVars PROVE Inv'
BY DEF limitsVars, pollLimiter, Inv, Types, Paced, Counted, CountedOnce, Earned, FlowsOf

\* A poll: it is one that was not made before, and it is counted once or, by a
\* full map, not at all.
LEMMA PollInv == ASSUME Inv, NEW f \in Flows, Poll(f) PROVE Inv'
<1> DEFINE c == flow[f].caller
           k == KeyOf(c)
           nth == flow[f].polls + 1
           kept == IF P!Live(k, now) THEN polled[k] ELSE {}
           made == kept \cup {<<f, nth>>}
<1>1. /\ flow[f].stage = "open" /\ flow[f].polls < now - flow[f].at
      /\ P!Check(k) /\ now' = now
      /\ flow' = [flow EXCEPT ![f].polls = flow[f].polls + 1]
    BY DEF Poll, P!Check, P!Shed, P!Hit, P!Open
<1>2. flow[f] \in FlowRow /\ c \in Callers /\ flow[f].polls \in Nat /\ flow[f].at \in Nat
      /\ now \in Nat
    BY DEF Inv, Types, FlowRow
<1>3. k \in Keys
    BY <1>2, KeysAreOwn
<1>4. nth \in 1 .. Lifetime
    <2>1. now <= flow[f].at + Lifetime
        BY <1>1 DEF Inv, Paced
    <2> QED BY <1>1, <1>2, <2>1, Numbers
<1>5. polled' = [polled EXCEPT ![k] = made]
    <2>1. flow'[f].polls = nth
        BY <1>1, <1>2 DEF Inv, Types
    <2>2. polled' = [polled EXCEPT ![k] = kept \cup {<<f, flow'[f].polls>>}]
        BY DEF Poll
    <2> QED BY <2>1, <2>2
<1>6. kept \subseteq polled[k] /\ <<f, nth>> \notin kept
    <2>1. kept \subseteq polled[k]
        OBVIOUS
    <2>2. ASSUME <<f, nth>> \in polled[k] PROVE FALSE
        BY <1>2, <1>3, <2>2 DEF Inv, Counted
    <2> QED BY <2>1, <2>2
<1>7. /\ IsFiniteSet(kept) /\ Cardinality(kept) \in Nat
      /\ Cardinality(made) = Cardinality(kept) + 1
    <2>1. kept \in SUBSET (Flows \X (1 .. Lifetime))
        BY <1>3, <1>6 DEF Inv, Types
    <2> HIDE DEF kept, nth
    <2>2. IsFiniteSet(kept) /\ Cardinality(kept) \in Nat
        BY <2>1, PolledFinite
    <2>3. Cardinality(kept \cup {<<f, nth>>}) = Cardinality(kept) + 1
        BY <1>6, <2>2, FS_AddElement
    <2> QED BY <2>2, <2>3
<1>8. made \subseteq Flows \X (1 .. Lifetime)
    BY <1>3, <1>4, <1>6 DEF Inv, Types
<1>9. /\ flow' \in [Flows -> FlowRow]
      /\ flow'[f].stage = "open" /\ flow'[f].at = flow[f].at
      /\ flow'[f].caller = c /\ flow'[f].polls = nth
      /\ \A g \in Flows \ {f} : flow'[g] = flow[g]
    <2> DEFINE new == [stage |-> flow[f].stage, caller |-> c, at |-> flow[f].at, polls |-> nth]
    <2>1. [flow[f] EXCEPT !.polls = nth] = new
        BY <1>2 DEF FlowRow
    <2>2. flow' = [flow EXCEPT ![f] = new]
        BY <1>1, <2>1
    <2>3. new \in FlowRow
        BY <1>2 DEF FlowRow
    <2>4. /\ new.stage = "open" /\ new.at = flow[f].at /\ new.caller = c /\ new.polls = nth
        BY <1>1
    <2> HIDE DEF new, nth, c
    <2> QED BY <2>2, <2>3, <2>4 DEF Inv, Types
<1>10. Counted'
    <2> SUFFICES ASSUME NEW j \in Keys, NEW p \in polled'[j]
                 PROVE  /\ flow'[p[1]].stage # "new" /\ p[2] <= flow'[p[1]].polls
                        /\ KeyOf(flow'[p[1]].caller) = j
        BY DEF Counted
    <2>1. CASE j = k /\ p = <<f, nth>>
        BY <1>2, <1>9, <2>1
    <2>2. CASE p \in polled[j]
        <3>1. p[1] \in Flows /\ p[2] \in Nat
            BY <2>2 DEF Inv, Types
        <3>2. /\ flow[p[1]].stage # "new" /\ p[2] <= flow[p[1]].polls
              /\ KeyOf(flow[p[1]].caller) = j
            BY <2>2 DEF Inv, Counted
        <3>3. CASE p[1] = f
            BY <1>2, <1>9, <3>1, <3>2, <3>3
        <3>4. CASE p[1] # f
            BY <1>9, <3>1, <3>2, <3>4
        <3> QED BY <3>3, <3>4
    <2>3. polled'[j] = IF j = k THEN made ELSE polled[j]
        BY <1>3, <1>5 DEF Inv, Types
    <2> QED BY <1>6, <2>1, <2>2, <2>3
<1>11. Paced'
    <2> HIDE DEF c, k, nth
    <2> QED BY <1>1, <1>9 DEF Inv, Paced
<1>12. polled' \in [Keys -> SUBSET (Flows \X (1 .. Lifetime))]
    <2> HIDE DEF made, k
    <2> QED BY <1>3, <1>5, <1>8 DEF Inv, Types
\* The limiter's part.
<1>13. pollVerdict'.key = k
    BY <1>1 DEF P!Check, P!Shed, P!Hit, P!Open, P!Verdict
<1>14. polled'[k] = made /\ \A j \in Keys \ {k} : polled'[j] = polled[j]
    BY <1>3, <1>5 DEF Inv, Types
<1>15. /\ P!Retained(now) \subseteq DOMAIN pollSeen
       /\ \A j \in DOMAIN pollSeen : P!Live(j, now) => j \in P!Retained(now)
    BY DEF P!Retained
<1>16. \A j \in DOMAIN pollSeen : pollSeen[j].hits \in Nat /\ pollSeen[j] \in [started : Nat, hits : Nat]
    BY DEF Inv, Types
<1>17. P!Live(k, now) => k \in DOMAIN pollSeen /\ kept = polled[k]
    BY DEF P!Live
\* What is kept of the others is as it was.
<1>18. ASSUME NEW j \in DOMAIN pollSeen, j # k
       PROVE  pollSeen[j].hits <= Cardinality(polled'[j])
    BY <1>14, <1>18 DEF Inv, Types, CountedOnce
<1>19. P!Live(k, now) => pollSeen[k].hits + 1 <= Cardinality(polled'[k])
    <2> SUFFICES ASSUME P!Live(k, now) PROVE pollSeen[k].hits + 1 <= Cardinality(polled'[k])
        OBVIOUS
    <2>1. pollSeen[k].hits <= Cardinality(kept)
        BY <1>17 DEF Inv, CountedOnce
    <2> HIDE DEF kept, made, k
    <2> QED BY <1>7, <1>14, <1>16, <1>17, <2>1
<1> HIDE DEF c, k, nth, kept, made
<1>20. CASE P!Shed(k)
    <2>1. pollSeen' = [j \in P!Retained(now) |-> pollSeen[j]]
        BY <1>20 DEF P!Shed
    <2>2. Cardinality(P!Retained(now)) >= MaxTracked
        BY <1>20, SameCardinality DEF P!Shed, P!Full
    <2>3. DOMAIN pollSeen' = P!Retained(now)
          /\ \A j \in DOMAIN pollSeen' : j \in DOMAIN pollSeen /\ pollSeen'[j] = pollSeen[j]
        BY <1>15, <2>1
    <2>4. k \in DOMAIN pollSeen' => P!Live(k, now)
        <3>1. CASE Cardinality(DOMAIN pollSeen) >= MaxTracked
            BY <2>3, <3>1, SameCardinality DEF P!Retained
        <3>2. CASE ~(Cardinality(DOMAIN pollSeen) >= MaxTracked)
            BY <2>2, <3>2, SameCardinality DEF P!Retained
        <3> QED BY <3>1, <3>2
    <2>5. Types'
        <3>1. pollSeen' \in [DOMAIN pollSeen' -> [started : Nat, hits : Nat]]
            BY <1>16, <2>1, <2>3
        <3>2. DOMAIN pollSeen' \subseteq Keys
            BY <2>3 DEF Inv, Types
        <3> QED BY <1>1, <1>2, <1>3, <1>9, <1>12, <1>13, <3>1, <3>2 DEF Types
    <2>6. Earned'
        BY <2>2, <2>3 DEF Earned
    <2>7. CountedOnce'
        <3> SUFFICES ASSUME NEW j \in DOMAIN pollSeen'
                     PROVE  pollSeen'[j].hits <= Cardinality(polled'[j])
            BY DEF CountedOnce
        <3>1. CASE j = k
            BY <1>7, <1>14, <1>16, <1>19, <2>3, <2>4, <3>1
        <3>2. CASE j # k
            BY <1>18, <2>3, <3>2
        <3> QED BY <3>1, <3>2
    <2> QED BY <1>10, <1>11, <2>5, <2>6, <2>7 DEF Inv
<1>21. CASE P!Hit(k)
    <2> DEFINE h == P!Bumped(k)
               new == [started |-> pollSeen[k].started, hits |-> h]
    <2>1. /\ P!Live(k, now) /\ pollSeen[k].hits < PollLimit + 1
          /\ pollSeen' = [j \in P!Retained(now) |-> IF j = k THEN new ELSE pollSeen[j]]
          /\ pollVerdict' = [key |-> k, ok |-> P!Within(h), at |-> now]
        BY <1>21 DEF P!Hit, P!Verdict
    <2>2. h = pollSeen[k].hits + 1 /\ h \in Nat /\ h <= Cardinality(polled'[k])
        <3>1. pollSeen[k].hits \in Nat /\ pollSeen[k].hits + 1 < PollLimit + 2
            BY <1>16, <1>17, <2>1, Numbers
        <3>2. (pollSeen[k].hits + 1) % (PollLimit + 2) = pollSeen[k].hits + 1
            BY <3>1, Numbers
        <3> QED BY <1>19, <2>1, <3>1, <3>2 DEF P!Bumped
    <2>3. new \in [started : Nat, hits : Nat] /\ new.hits = h
        BY <1>16, <1>17, <2>1, <2>2
    <2>4. pollVerdict'.ok <=> h <= PollLimit
        BY <2>1 DEF P!Within
    <2> HIDE DEF h, new
    <2>5. DOMAIN pollSeen' = P!Retained(now)
          /\ \A j \in DOMAIN pollSeen' : j \in DOMAIN pollSeen
               /\ pollSeen'[j] = IF j = k THEN new ELSE pollSeen[j]
        BY <1>15, <2>1
    <2>6. Types'
        <3>1. pollSeen' \in [DOMAIN pollSeen' -> [started : Nat, hits : Nat]]
            BY <1>16, <2>1, <2>3, <2>5
        <3>2. DOMAIN pollSeen' \subseteq Keys
            BY <2>5 DEF Inv, Types
        <3> QED BY <1>1, <1>2, <1>3, <1>9, <1>12, <1>13, <3>1, <3>2 DEF Types
    <2>7. CountedOnce'
        <3> SUFFICES ASSUME NEW j \in DOMAIN pollSeen'
                     PROVE  pollSeen'[j].hits <= Cardinality(polled'[j])
            BY DEF CountedOnce
        <3>1. CASE j = k
            BY <2>2, <2>3, <2>5, <3>1
        <3>2. CASE j # k
            BY <1>18, <2>5, <3>2
        <3> QED BY <3>1, <3>2
    <2>8. Earned'
        <3> SUFFICES ASSUME ~pollVerdict'.ok
                     PROVE  Cardinality({p[1] : p \in polled'[k]}) > Limit
            BY <1>13 DEF Earned, FlowsOf
        <3> DEFINE counted == polled'[k]
                   of == {p[1] : p \in counted}
        <3>1. counted \in SUBSET (Flows \X (1 .. Lifetime))
            BY <1>8, <1>14
        <3> HIDE DEF counted
        <3>2. /\ Cardinality(counted) \in Nat /\ Cardinality(of) \in Nat
              /\ Cardinality(counted) <= Cardinality(of) * Lifetime
            BY <3>1, PolledFinite
        <3>3. h > PollLimit /\ h <= Cardinality(counted) /\ h \in Nat
            BY <2>2, <2>4, Numbers DEF counted
        <3> HIDE DEF of
        <3>4. Cardinality(of) > Limit
            <4>1. Cardinality(counted) > PollLimit
                BY <3>2, <3>3, Numbers
            <4> QED BY <3>2, <4>1, TooManyFlows
        <3> QED BY <3>4 DEF of, counted
    <2> QED BY <1>10, <1>11, <2>6, <2>7, <2>8 DEF Inv
<1>22. CASE P!Open(k)
    <2> DEFINE new == [started |-> now, hits |-> 1]
    <2>1. /\ pollSeen' = [j \in P!Retained(now) \cup {k} |->
                            IF j = k THEN new ELSE pollSeen[j]]
          /\ pollVerdict'.ok = TRUE
        BY <1>22 DEF P!Open, P!Verdict
    <2>2. new \in [started : Nat, hits : Nat] /\ new.hits = 1
        BY <1>2
    <2> HIDE DEF new
    <2>3. DOMAIN pollSeen' = P!Retained(now) \cup {k}
          /\ \A j \in DOMAIN pollSeen' : pollSeen'[j] = IF j = k THEN new ELSE pollSeen[j]
        BY <2>1
    <2>4. Types'
        <3>1. pollSeen' \in [DOMAIN pollSeen' -> [started : Nat, hits : Nat]]
            BY <1>15, <1>16, <2>1, <2>2, <2>3
        <3>2. DOMAIN pollSeen' \subseteq Keys
            BY <1>3, <1>15, <2>3 DEF Inv, Types
        <3> QED BY <1>1, <1>2, <1>3, <1>9, <1>12, <1>13, <3>1, <3>2 DEF Types
    <2>5. CountedOnce'
        <3> SUFFICES ASSUME NEW j \in DOMAIN pollSeen'
                     PROVE  pollSeen'[j].hits <= Cardinality(polled'[j])
            BY DEF CountedOnce
        <3>1. CASE j = k
            BY <1>7, <1>14, <2>2, <2>3, <3>1
        <3>2. CASE j # k
            BY <1>15, <1>18, <2>3, <3>2
        <3> QED BY <3>1, <3>2
    <2>6. Earned'
        BY <2>1 DEF Earned
    <2> QED BY <1>10, <1>11, <2>4, <2>5, <2>6 DEF Inv
<1>23. P!Check(k)
    BY <1>1 DEF k, c
<1> QED BY <1>20, <1>21, <1>22, <1>23 DEF P!Check

-----------------------------------------------------------------------------

\* For any limit, any window and any number of restarts: a poll is turned away
\* only from a client that polls for more flows than it may start in a window,
\* and no client is taken for another that has a header.
THEOREM PollsFit == Spec => []PollsFitTheFlows
<1>1. Inv /\ [Next]_limitsVars => Inv'
    BY StartInv, PollInv, TickInv, RestartInv, StutterInv DEF Next
<1>2. Inv => PollsFitTheFlows
    <2> SUFFICES ASSUME Inv, ~pollVerdict.ok, NEW k, k = pollVerdict.key
                 PROVE  \/ Cardinality(DOMAIN pollSeen) >= MaxTracked
                        \/ /\ Cardinality(FlowsOf(k)) > Limit
                           /\ k # Unknown => \A f \in FlowsOf(k) : Home[flow[f].caller] = k
        BY DEF PollsFitTheFlows
    <2>1. k \in Keys
        BY DEF Inv, Types
    <2>2. ASSUME k # Unknown, NEW f \in FlowsOf(k) PROVE Home[flow[f].caller] = k
        <3>1. PICK p \in polled[k] : p[1] = f
            BY DEF FlowsOf
        <3>2. f \in Flows /\ KeyOf(flow[f].caller) = k
            BY <2>1, <3>1 DEF Inv, Types, Counted
        <3>3. flow[f].caller \in Callers
            BY <3>2 DEF Inv, Types, FlowRow
        <3> QED BY <2>2, <3>2, <3>3, KeysAreOwn
    <2> QED BY <2>2 DEF Inv, Earned
<1> QED BY <1>1, <1>2, InitInv, PTL DEF Spec
=============================================================================
