------------------------- MODULE RateLimiter_proofs -------------------------
(***************************************************************************)
(* Proofs about RateLimiter, for any number of clients, any limit, window  *)
(* and threshold: the map stays within its threshold, live windows are     *)
(* kept, the burst of one client stays under twice its limit, and refusals *)
(* have a cause.                                                           *)
(***************************************************************************)
EXTENDS RateLimiter, FiniteSetTheorems, TLAPS

-----------------------------------------------------------------------------
(* The map.                                                                *)

\* The type invariant without the size of the map, which needs finiteness.
Typed ==
  /\ now \in Nat
  /\ DOMAIN seen \subseteq Keys
  /\ seen \in [DOMAIN seen -> Entry]
  /\ log \in [Keys -> Seq(Admission)]
  /\ verdict \in [key : Keys, ok : BOOLEAN, at : Nat]
  /\ \A k \in DOMAIN seen : seen[k].started <= now /\ seen[k].hits >= 1

Sized == IsFiniteSet(DOMAIN seen) /\ Cardinality(DOMAIN seen) <= MaxTracked

\* A hit does not wrap as long as nobody makes 2^32 calls in a window.
LEMMA NoWrap ==
  ASSUME Typed, NEW k \in DOMAIN seen, seen[k].hits < MaxHits
  PROVE  Bumped(k) = seen[k].hits + 1 /\ Bumped(k) \in 1 .. HitSpace - 1
<1>1. seen[k].hits \in Nat /\ seen[k].hits + 1 \in 0 .. HitSpace - 1
    BY LimiterAssumption, BusyAssumption DEF Typed, Entry
<1>2. \A x \in 0 .. HitSpace - 1 : x % HitSpace = x
    BY LimiterAssumption
<1> QED BY <1>1, <1>2 DEF Bumped

\* The sweep drops expired windows and nothing else.
LEMMA RetainedKeeps ==
  ASSUME NEW t
  PROVE  /\ Retained(t) \subseteq DOMAIN seen
         /\ \A k \in Keys : Live(k, t) => k \in Retained(t)
BY DEF Retained, Live

\* An admission is appended to the history of its client.
LEMMA AdmitAppends ==
  ASSUME Typed, NEW k \in Keys, NEW win \in Nat, NEW nth \in Nat, Admit(k, win, nth)
  PROVE  /\ log' \in [Keys -> Seq(Admission)]
         /\ \A j \in Keys \ {k} : log'[j] = log[j]
         /\ Len(log'[k]) = Len(log[k]) + 1
         /\ \A i \in 1 .. Len(log[k]) : log'[k][i] = log[k][i]
         /\ log'[k][Len(log[k]) + 1] = [at |-> now, win |-> win, nth |-> nth]
<1> DEFINE e == [at |-> now, win |-> win, nth |-> nth]
<1>1. e \in Admission
    BY DEF Typed, Admission
<1>2. log' = [log EXCEPT ![k] = Append(log[k], e)]
    BY DEF Admit
<1>3. log[k] \in Seq(Admission)
    BY DEF Typed
<1> HIDE DEF e
<1>4. /\ Append(log[k], e) \in Seq(Admission)
      /\ Len(Append(log[k], e)) = Len(log[k]) + 1
      /\ \A i \in 1 .. Len(log[k]) : Append(log[k], e)[i] = log[k][i]
      /\ Append(log[k], e)[Len(log[k]) + 1] = e
    BY <1>1, <1>3
<1>5. log'[k] = Append(log[k], e) /\ log' \in [Keys -> Seq(Admission)]
    BY <1>2, <1>4 DEF Typed
<1>6. \A j \in Keys \ {k} : log'[j] = log[j]
    BY <1>2 DEF Typed
<1> QED BY <1>4, <1>5, <1>6 DEF e

LEMMA TypedStep == Typed /\ [Next]_limiterVars => Typed'
<1> SUFFICES ASSUME Typed, [Next]_limiterVars PROVE Typed'
    OBVIOUS
<1> USE LimiterAssumption
<1>1. ASSUME NEW k \in Keys, Shed(k) PROVE Typed'
    BY <1>1, RetainedKeeps DEF Shed, Typed, Verdict
<1>2. ASSUME NEW k \in Keys, Hit(k) PROVE Typed'
    <2>1. /\ k \in DOMAIN seen /\ seen[k] \in Entry
          /\ Bumped(k) = seen[k].hits + 1 /\ Bumped(k) \in 1 .. HitSpace - 1
        BY <1>2, NoWrap DEF Hit, Live, Typed
    <2>2. DOMAIN seen' = Retained(now)
        BY <1>2 DEF Hit
    <2>3. \A j \in Retained(now) :
            seen'[j] = IF j = k THEN [started |-> seen[k].started, hits |-> Bumped(k)]
                                ELSE seen[j]
        BY <1>2 DEF Hit
    <2>4. seen' \in [DOMAIN seen' -> Entry]
        BY <1>2, <2>1, <2>2, <2>3, RetainedKeeps DEF Hit, Typed, Entry
    <2>5. ASSUME NEW j \in DOMAIN seen'
          PROVE  seen'[j].started <= now /\ seen'[j].hits >= 1
        <3>1. j \in Retained(now) /\ j \in DOMAIN seen
            BY <2>2, RetainedKeeps
        <3>2. CASE j = k
            BY <2>1, <2>3, <3>1, <3>2 DEF Typed
        <3>3. CASE j # k
            BY <2>3, <3>1, <3>3 DEF Typed
        <3> QED BY <3>2, <3>3
    <2>6. log' \in [Keys -> Seq(Admission)]
        <3>1. seen[k].started \in Nat /\ Bumped(k) \in Nat
            BY <2>1 DEF Entry
        <3>2. CASE Within(Bumped(k))
            BY <1>2, <3>1, <3>2, AdmitAppends DEF Hit
        <3>3. CASE ~Within(Bumped(k))
            BY <1>2, <3>3 DEF Hit, Typed
        <3> QED BY <3>2, <3>3
    <2>7. verdict' \in [key : Keys, ok : BOOLEAN, at : Nat] /\ now' = now
        BY <1>2 DEF Hit, Verdict, Within, Typed
    <2> QED BY <2>2, <2>4, <2>5, <2>6, <2>7, RetainedKeeps DEF Typed
<1>3. ASSUME NEW k \in Keys, Open(k) PROVE Typed'
    <2>1. DOMAIN seen' = Retained(now) \cup {k}
        BY <1>3 DEF Open
    <2>2. \A j \in Retained(now) \cup {k} :
            seen'[j] = IF j = k THEN [started |-> now, hits |-> 1] ELSE seen[j]
        BY <1>3 DEF Open
    <2>3. seen' \in [DOMAIN seen' -> Entry]
        BY <1>3, <2>1, <2>2, RetainedKeeps DEF Open, Typed, Entry
    <2>4. \A j \in DOMAIN seen' : seen'[j].started <= now /\ seen'[j].hits >= 1
        BY <2>1, <2>2, RetainedKeeps DEF Typed, Entry
    <2>5. log' \in [Keys -> Seq(Admission)]
        BY <1>3, AdmitAppends DEF Open, Typed
    <2>6. verdict' \in [key : Keys, ok : BOOLEAN, at : Nat] /\ now' = now
        BY <1>3 DEF Open, Verdict, Typed
    <2> QED BY <2>1, <2>3, <2>4, <2>5, <2>6, RetainedKeeps DEF Typed
<1>4. CASE Tick
    BY <1>4 DEF Tick, Typed, Entry
<1>5. CASE UNCHANGED limiterVars
    BY <1>5 DEF limiterVars, Typed
<1> QED BY <1>1, <1>2, <1>3, <1>4, <1>5 DEF Next, Check

LEMMA SizedStep == Typed /\ Sized /\ [Next]_limiterVars => Sized'
<1> SUFFICES ASSUME Typed, Sized, [Next]_limiterVars PROVE Sized'
    OBVIOUS
<1>1. /\ IsFiniteSet(Retained(now)) /\ Cardinality(Retained(now)) \in Nat
      /\ Cardinality(Retained(now)) <= Cardinality(DOMAIN seen)
      /\ Cardinality(DOMAIN seen) \in Nat
    BY RetainedKeeps, FS_Subset, FS_CardinalityType DEF Sized
<1>2. CASE DOMAIN seen' = Retained(now)
    BY <1>1, <1>2, LimiterAssumption DEF Sized
<1>3. ASSUME NEW k \in Keys, Open(k) PROVE Sized'
    <2>1. DOMAIN seen' = Retained(now) \cup {k}
        BY <1>3 DEF Open
    <2>2. Cardinality(Retained(now)) < MaxTracked
        BY <1>1, <1>3, LimiterAssumption DEF Open, Full
    <2>3. /\ IsFiniteSet(Retained(now) \cup {k})
          /\ \/ Cardinality(Retained(now) \cup {k}) = Cardinality(Retained(now))
             \/ Cardinality(Retained(now) \cup {k}) = Cardinality(Retained(now)) + 1
        BY <1>1, FS_AddElement
    <2> QED BY <1>1, <2>1, <2>2, <2>3, LimiterAssumption DEF Sized
<1>4. CASE UNCHANGED seen
    BY <1>4 DEF Sized
<1>5. \A k \in Keys : Shed(k) \/ Hit(k) => DOMAIN seen' = Retained(now)
    BY DEF Shed, Hit
<1> QED BY <1>2, <1>3, <1>4, <1>5 DEF Next, Check, Tick, limiterVars

-----------------------------------------------------------------------------
(* The admissions of one client.                                           *)

\* An admission lies in the window it names; the one that opened it is the
\* first of it, and no window has more than Effective of them.
Placed(e) ==
  /\ e.at <= now /\ e.win <= e.at
  /\ e.nth \in 1 .. Effective
  /\ e.nth = 1 => e.at = e.win
  /\ e.nth > 1 => e.at < e.win + Window

\* Two admissions that are n apart: in one window, where they are counted, or
\* in windows that do not overlap.
Apart(e, f, n) ==
  \/ f.win = e.win /\ f.nth = e.nth + n
  \/ f.win >= e.win + Window

\* What the map remembers of a past admission, n places from the end.
Recalls(k, e, n) ==
  IF Live(k, now)
  THEN \/ /\ e.win = seen[k].started
          /\ e.nth + n = IF seen[k].hits <= Effective THEN seen[k].hits ELSE Effective
       \/ e.win + Window <= seen[k].started
  ELSE e.win + Window <= now

Paced(k) ==
  \A i \in 1 .. Len(log[k]) :
    /\ Placed(log[k][i])
    /\ Recalls(k, log[k][i], Len(log[k]) - i)
    /\ \A j \in i + 1 .. Len(log[k]) : Apart(log[k][i], log[k][j], j - i)

IInv == Typed /\ Sized /\ \A k \in Keys : Paced(k)

LEMMA EffectiveType == Effective \in Nat \ {0} /\ Limit <= Effective
BY LimiterAssumption DEF Effective

LEMMA Entries ==
  ASSUME Typed, NEW k \in Keys
  PROVE  /\ Len(log[k]) \in Nat
         /\ \A i \in 1 .. Len(log[k]) :
              log[k][i].at \in Nat /\ log[k][i].win \in Nat /\ log[k][i].nth \in Nat
<1>1. log[k] \in Seq(Admission)
    BY DEF Typed
<1>2. \A i \in 1 .. Len(log[k]) : log[k][i] \in Admission
    BY <1>1
<1> QED BY <1>1, <1>2 DEF Admission

\* A client whose history and whose live window are left alone stays paced,
\* also when its window expires with the clock.
LEMMA IdleKey ==
  ASSUME Typed, NEW k \in Keys, Paced(k),
         now' \in Nat, now' >= now, log'[k] = log[k],
         Live(k, now)' => Live(k, now) /\ seen'[k] = seen[k],
         Live(k, now) => Live(k, now)' \/ seen[k].started + Window <= now'
  PROVE  Paced(k)'
<1>1. \A i \in 1 .. Len(log[k]) : Placed(log[k][i])'
    <2> SUFFICES ASSUME NEW i \in 1 .. Len(log[k]) PROVE Placed(log[k][i])'
        OBVIOUS
    <2>1. Placed(log[k][i]) /\ log[k][i].at \in Nat /\ now \in Nat
        BY Entries DEF Paced, Typed
    <2>2. log[k][i].at <= now'
        BY <2>1 DEF Placed
    <2> QED BY <2>1, <2>2 DEF Placed
<1>2. \A i \in 1 .. Len(log[k]) :
        \A j \in i + 1 .. Len(log[k]) : Apart(log[k][i], log[k][j], j - i)'
    BY DEF Paced, Apart
<1>3. \A i \in 1 .. Len(log[k]) : Recalls(k, log[k][i], Len(log[k]) - i)'
    <2> SUFFICES ASSUME NEW i \in 1 .. Len(log[k])
                 PROVE  Recalls(k, log[k][i], Len(log[k]) - i)'
        OBVIOUS
    <2>1. Recalls(k, log[k][i], Len(log[k]) - i)
        BY DEF Paced
    <2>2. log[k][i].win \in Nat
        BY Entries
    <2>3. CASE Live(k, now)'
        <3>1. Live(k, now) /\ seen'[k] = seen[k]
            BY <2>3
        <3> QED BY <2>1, <2>3, <3>1 DEF Recalls
    <2>4. CASE ~Live(k, now)' /\ ~Live(k, now)
        BY <2>1, <2>2, <2>4, LimiterAssumption DEF Recalls, Typed
    <2>5. CASE ~Live(k, now)' /\ Live(k, now)
        <3>1. seen[k].started \in Nat
            BY <2>5 DEF Live, Typed, Entry
        <3>2. seen[k].started + Window <= now' /\ Window \in Nat
            BY <2>5, LimiterAssumption
        <3>3. log[k][i].win <= seen[k].started
            BY <2>1, <2>2, <2>5, <3>1, <3>2 DEF Recalls
        <3>4. log[k][i].win + Window <= now'
            BY <2>2, <3>1, <3>2, <3>3
        <3> QED BY <2>5, <3>4 DEF Recalls
    <2> QED BY <2>3, <2>4, <2>5
<1> QED BY <1>1, <1>2, <1>3 DEF Paced

LEMMA LastOrBefore ==
  \A n \in Nat, i \in Nat : \A j \in i + 1 .. n + 1 : j = n + 1 \/ j \in i + 1 .. n
OBVIOUS

\* A client whose call is admitted, into a window that all its earlier
\* admissions fit, stays paced.
LEMMA AdmittedKey ==
  ASSUME Typed, NEW k \in Keys, Paced(k),
         NEW win \in Nat, NEW nth \in 1 .. Effective, Admit(k, win, nth),
         now' = now, win <= now,
         nth = 1 => now = win, nth > 1 => now < win + Window,
         k \in DOMAIN seen', seen'[k] = [started |-> win, hits |-> nth],
         \A i \in 1 .. Len(log[k]) :
           \/ log[k][i].win = win /\ nth = log[k][i].nth + (Len(log[k]) + 1 - i)
           \/ log[k][i].win + Window <= win
  PROVE  Paced(k)'
<1>1. PICK n \in Nat : n = Len(log[k])
    BY Entries
<1>2. PICK e : e = [at |-> now, win |-> win, nth |-> nth]
    OBVIOUS
<1>3. /\ now \in Nat /\ Effective \in Nat /\ Window \in Nat /\ nth \in Nat
      /\ e.at = now /\ e.win = win /\ e.nth = nth
      /\ seen'[k].started = win /\ seen'[k].hits = nth
    BY <1>2, EffectiveType, LimiterAssumption DEF Typed
<1>4. /\ Len(log'[k]) = n + 1 /\ log'[k][n + 1] = e
      /\ \A i \in 1 .. n : log'[k][i] = log[k][i]
    BY <1>1, <1>2, <1>3, AdmitAppends
<1>5. ASSUME NEW i \in 1 .. n + 1 PROVE Placed(log[k][i])'
    <2>1. CASE i = n + 1
        BY <1>1, <1>3, <1>4, <2>1 DEF Placed
    <2>2. CASE i \in 1 .. n
        BY <1>1, <1>4, <2>2 DEF Paced, Placed
    <2> QED BY <1>1, <2>1, <2>2
<1>6. ASSUME NEW i \in 1 .. n + 1
      PROVE  IF Live(k, now)'
             THEN \/ /\ log'[k][i].win = win
                     /\ log'[k][i].nth + (n + 1 - i) = nth
                  \/ log'[k][i].win + Window <= win
             ELSE log'[k][i].win + Window <= now
    <2>1. Live(k, now)' <=> now - win < Window
        BY <1>3 DEF Live
    <2>2. CASE i = n + 1
        BY <1>1, <1>3, <1>4, <2>1, <2>2
    <2>3. CASE i \in 1 .. n
        <3>1. /\ log'[k][i] = log[k][i] /\ log[k][i].win \in Nat /\ log[k][i].nth \in Nat
              /\ \/ log[k][i].win = win /\ nth = log[k][i].nth + (n + 1 - i)
                 \/ log[k][i].win + Window <= win
            BY <1>1, <1>4, <2>3, Entries
        <3> QED BY <1>1, <1>3, <2>1, <3>1
    <2> QED BY <1>1, <2>2, <2>3
<1>7. ASSUME NEW i \in 1 .. n + 1 PROVE Recalls(k, log[k][i], n + 1 - i)'
    BY <1>1, <1>3, <1>6 DEF Recalls
<1>8. ASSUME NEW i \in 1 .. n + 1, NEW j \in i + 1 .. n + 1
      PROVE  \/ log'[k][j].win = log'[k][i].win /\ log'[k][j].nth = log'[k][i].nth + (j - i)
             \/ log'[k][j].win >= log'[k][i].win + Window
    <2>1. i \in 1 .. n /\ j \in Nat /\ log'[k][i] = log[k][i]
        BY <1>1, <1>4
    <2>2. CASE j = n + 1
        <3>1. \/ log[k][i].win = win /\ nth = log[k][i].nth + (n + 1 - i)
              \/ log[k][i].win + Window <= win
            BY <1>1, <2>1
        <3>2. log'[k][j].win = win /\ log'[k][j].nth = nth
            BY <1>3, <1>4, <2>2
        <3> QED BY <1>1, <1>3, <2>1, <2>2, <3>1, <3>2, Entries
    <2>3. CASE j \in i + 1 .. n
        <3>1. log'[k][j] = log[k][j]
            BY <1>1, <1>4, <2>1, <2>3
        <3>2. Apart(log[k][i], log[k][j], j - i)
            BY <1>1, <2>1, <2>3 DEF Paced
        <3> QED BY <2>1, <3>1, <3>2 DEF Apart
    <2>4. j = n + 1 \/ j \in i + 1 .. n
        BY <2>1, LastOrBefore
    <2> QED BY <2>2, <2>3, <2>4
<1>9. \A i \in 1 .. n + 1 : \A j \in i + 1 .. n + 1 : Apart(log[k][i], log[k][j], j - i)'
    BY <1>8 DEF Apart
<1> QED BY <1>4, <1>5, <1>7, <1>9 DEF Paced

\* A client that is refused for its own hits stays paced: its count goes on
\* past the limit and no longer says how many were admitted.
LEMMA RefusedKey ==
  ASSUME Typed, NEW k \in Keys, Paced(k), Hit(k), ~Within(Bumped(k))
  PROVE  Paced(k)'
<1>1. /\ Live(k, now) /\ k \in DOMAIN seen /\ seen[k].started \in Nat
      /\ seen[k].hits \in Nat /\ seen[k].hits >= 1 /\ Bumped(k) = seen[k].hits + 1
      /\ now' = now /\ log' = log
    BY NoWrap DEF Hit, Live, Typed, Entry
<1>2. k \in DOMAIN seen' /\ seen'[k].started = seen[k].started /\ seen'[k].hits = Bumped(k)
    <2>1. k \in Retained(now)
        BY <1>1, RetainedKeeps
    <2> QED BY <2>1 DEF Hit
<1>3. Live(k, now)'
    BY <1>1, <1>2 DEF Live
<1>4. seen[k].hits >= Effective
    BY <1>1, LimiterAssumption DEF Within, Effective
<1>5. (IF seen'[k].hits <= Effective THEN seen'[k].hits ELSE Effective) =
      (IF seen[k].hits <= Effective THEN seen[k].hits ELSE Effective)
    BY <1>1, <1>2, <1>4, EffectiveType
<1>6. \A i \in 1 .. Len(log[k]) : Recalls(k, log[k][i], Len(log[k]) - i)'
    BY <1>1, <1>2, <1>3, <1>5 DEF Paced, Recalls
<1>7. \A i \in 1 .. Len(log[k]) : Placed(log[k][i])'
    BY <1>1 DEF Paced, Placed
<1>8. \A i \in 1 .. Len(log[k]) :
        \A j \in i + 1 .. Len(log[k]) : Apart(log[k][i], log[k][j], j - i)'
    BY <1>1 DEF Paced, Apart
<1> QED BY <1>1, <1>6, <1>7, <1>8 DEF Paced

\* A call leaves the windows of the other clients alone.
LEMMA OtherKey ==
  ASSUME Typed, NEW k \in Keys, Check(k), NEW j \in Keys, Paced(j),
         j # k \/ Shed(k)
  PROVE  Paced(j)'
<1>1. now' = now /\ now \in Nat /\ log'[j] = log[j]
    <2>1. CASE Shed(k)
        BY <2>1 DEF Shed, Typed
    <2>2. CASE ~Shed(k) /\ (Hit(k) \/ Open(k))
        BY <2>2 DEF Hit, Open, Admit, Typed
    <2> QED BY <2>1, <2>2 DEF Check
<1>2. j \in Retained(now) => j \in DOMAIN seen' /\ seen'[j] = seen[j]
    BY DEF Check, Shed, Hit, Open
<1>3. j \in DOMAIN seen' => j \in Retained(now)
    BY DEF Check, Shed, Hit, Open
<1>4. Live(j, now)' <=> Live(j, now)
    BY <1>1, <1>2, <1>3, RetainedKeeps DEF Live
<1>5. Live(j, now)' => seen'[j] = seen[j]
    BY <1>2, <1>3 DEF Live
<1> QED BY <1>1, <1>4, <1>5, IdleKey

LEMMA NextIInv == IInv /\ [Next]_limiterVars => IInv'
<1> SUFFICES ASSUME IInv, [Next]_limiterVars PROVE IInv'
    OBVIOUS
<1>1. Typed /\ Sized /\ (\A k \in Keys : Paced(k))
    BY DEF IInv
<1>2. Typed' /\ Sized'
    BY <1>1, TypedStep, SizedStep
<1>3. ASSUME NEW k \in Keys, Check(k) PROVE \A j \in Keys : Paced(j)'
    <2>1. Shed(k) => Paced(k)'
        BY <1>1, <1>3, OtherKey
    <2>2. ASSUME Hit(k) PROVE Paced(k)'
        <3>1. CASE ~Within(Bumped(k))
            BY <1>1, <2>2, <3>1, RefusedKey
        <3>2. CASE Within(Bumped(k))
            <4>1. /\ Live(k, now) /\ k \in DOMAIN seen /\ seen[k].started \in Nat
                  /\ seen[k].started <= now /\ now \in Nat
                  /\ seen[k].hits \in Nat /\ seen[k].hits >= 1
                  /\ Bumped(k) = seen[k].hits + 1
                  /\ now' = now /\ Admit(k, seen[k].started, Bumped(k))
                BY <1>1, <2>2, <3>2, NoWrap DEF Hit, Live, Typed, Entry
            <4>2. /\ k \in DOMAIN seen'
                  /\ seen'[k] = [started |-> seen[k].started, hits |-> Bumped(k)]
                <5>1. k \in Retained(now)
                    BY <1>1, <4>1, RetainedKeeps
                <5> QED BY <2>2, <5>1 DEF Hit
            <4>3. Bumped(k) \in 1 .. Effective /\ seen[k].hits <= Effective
                BY <3>2, <4>1, EffectiveType, LimiterAssumption DEF Within
            <4>4. now < seen[k].started + Window
                BY <4>1, LimiterAssumption DEF Live
            <4>5. ASSUME NEW i \in 1 .. Len(log[k])
                  PROVE  \/ /\ log[k][i].win = seen[k].started
                            /\ Bumped(k) = log[k][i].nth + (Len(log[k]) + 1 - i)
                         \/ log[k][i].win + Window <= seen[k].started
                <5>1. Recalls(k, log[k][i], Len(log[k]) - i)
                    BY <1>1 DEF Paced
                <5>2. Len(log[k]) \in Nat /\ log[k][i].nth \in Nat
                    BY <1>1, Entries
                <5>3. CASE /\ log[k][i].win = seen[k].started
                           /\ log[k][i].nth + (Len(log[k]) - i) = seen[k].hits
                    BY <4>1, <5>2, <5>3
                <5>4. CASE log[k][i].win + Window <= seen[k].started
                    BY <5>4
                <5> QED BY <4>1, <4>3, <5>1, <5>3, <5>4 DEF Recalls
            <4> QED BY <1>1, <4>1, <4>2, <4>3, <4>4, <4>5, AdmittedKey
        <3> QED BY <3>1, <3>2
    <2>3. ASSUME Open(k) PROVE Paced(k)'
        <3>1. /\ now \in Nat /\ now' = now /\ ~Live(k, now) /\ Admit(k, now, 1)
              /\ k \in DOMAIN seen' /\ seen'[k] = [started |-> now, hits |-> 1]
            BY <1>1, <2>3 DEF Open, Typed
        <3>2. \A i \in 1 .. Len(log[k]) : log[k][i].win + Window <= now
            BY <1>1, <3>1 DEF Paced, Recalls
        <3>3. 1 \in 1 .. Effective
            BY EffectiveType
        <3> QED BY <1>1, <3>1, <3>2, <3>3, AdmittedKey
    <2>4. \A j \in Keys \ {k} : Paced(j)'
        BY <1>1, <1>3, OtherKey
    <2> QED BY <1>3, <2>1, <2>2, <2>3, <2>4 DEF Check
<1>4. ASSUME UNCHANGED <<seen, log>>, now' \in Nat, now' >= now, NEW k \in Keys,
             now' = now \/ now' = now + 1
      PROVE  Paced(k)'
    <2>1. Live(k, now) \/ Live(k, now)' => seen[k].started \in Nat /\ seen[k].started <= now
        BY <1>1, <1>4 DEF Live, Typed, Entry
    <2>2. Live(k, now)' => Live(k, now)
        BY <1>1, <1>4, <2>1, LimiterAssumption DEF Live, Typed
    <2>3. Live(k, now) => Live(k, now)' \/ seen[k].started + Window <= now'
        BY <1>1, <1>4, <2>1, LimiterAssumption DEF Live, Typed
    <2> QED BY <1>1, <1>4, <2>2, <2>3, IdleKey
<1>5. Tick \/ UNCHANGED limiterVars => \A k \in Keys : Paced(k)'
    BY <1>1, <1>4 DEF Tick, limiterVars, Typed
<1>6. \A k \in Keys : Paced(k)'
    BY <1>3, <1>5 DEF Next
<1> QED BY <1>2, <1>6 DEF IInv

LEMMA InitIInv == Init => IInv
<1> SUFFICES ASSUME Init PROVE IInv
    OBVIOUS
<1>1. DOMAIN seen = {}
    BY DEF Init
<1>2. Typed
    BY <1>1, LimiterAssumption DEF Init, Typed
<1>3. Sized
    BY <1>1, FS_EmptySet, LimiterAssumption DEF Sized
<1>4. \A k \in Keys : Paced(k)
    BY DEF Init, Paced
<1> QED BY <1>2, <1>3, <1>4 DEF IInv

THEOREM Invariance == Spec => []IInv
BY InitIInv, NextIInv, PTL DEF Spec

-----------------------------------------------------------------------------
(* What follows.                                                           *)

\* Types are kept and the map stays within MAX_TRACKED, whoever calls.
THEOREM MapIsBounded == Spec => []TypeOK
<1>1. IInv => TypeOK
    BY DEF IInv, Typed, Sized, TypeOK
<1> QED BY <1>1, Invariance, PTL

\* Of three admissions that are L - 1 and L apart, the first and the last are a
\* window apart.
LEMMA ThreeSpan ==
  ASSUME NEW L \in Nat \ {0}, NEW W \in Nat,
         NEW a1 \in Nat, NEW w1 \in Nat, NEW n1 \in 1 .. L,
         NEW w2 \in Nat, NEW n2 \in 1 .. L,
         NEW a3 \in Nat, NEW w3 \in Nat, NEW n3 \in 1 .. L,
         n1 = 1 => a1 = w1, n1 > 1 => a1 < w1 + W, w3 <= a3,
         (w2 = w1 /\ n2 = n1 + (L - 1)) \/ w2 >= w1 + W \/ L = 1,
         (w3 = w2 /\ n3 = n2 + L) \/ w3 >= w2 + W,
         (w3 = w1 /\ n3 = n1 + (2 * L - 1)) \/ w3 >= w1 + W
  PROVE  a3 - a1 >= W
<1>1. w3 >= w2 + W
    OBVIOUS
<1>2. CASE n1 = 1
    BY <1>2
<1>3. CASE n1 > 1
    <2>1. w2 >= w1 + W
        BY <1>3
    <2> QED BY <1>1, <1>3, <2>1
<1> QED BY <1>2, <1>3

\* Any 2L consecutive admissions of a client span a window.  In between the two
\* at the ends lies a third, which is in a later window than the first one
\* unless the first one opened its window.
THEOREM BurstIsBounded == Spec => []SlidingBound
<1>1. IInv => SlidingBound
    <2> SUFFICES ASSUME IInv, NEW k \in Keys, NEW i \in DOMAIN log[k],
                        i + 2 * Effective - 1 \in DOMAIN log[k]
                 PROVE  log[k][i + 2 * Effective - 1].at - log[k][i].at >= Window
        BY DEF SlidingBound
    <2>1. PICK L \in Nat \ {0} : L = Effective
        BY EffectiveType
    <2>2. PICK n \in Nat : n = Len(log[k]) /\ DOMAIN log[k] = 1 .. n
        BY Entries DEF IInv, Typed
    <2>3. PICK j \in 1 .. n : j = i + 2 * L - 1
        BY <2>1, <2>2
    <2>4. i \in 1 .. n
        BY <2>2
    <2>5. PICK m \in 1 .. n : m = i + L - 1
        BY <2>1, <2>2, <2>3, <2>4
    <2>6. /\ m \in i .. n /\ j \in m + 1 .. n /\ j \in i + 1 .. n
          /\ j - i = 2 * L - 1 /\ m - i = L - 1 /\ j - m = L
          /\ (m = i <=> L = 1)
        BY <2>3, <2>4, <2>5
    <2>7. \A x \in 1 .. n : /\ log[k][x].at \in Nat /\ log[k][x].win \in Nat
                            /\ Placed(log[k][x])
                            /\ \A y \in x + 1 .. n : Apart(log[k][x], log[k][y], y - x)
        BY <2>2, Entries DEF IInv, Paced
    <2>8. /\ Apart(log[k][i], log[k][j], 2 * L - 1)
          /\ Apart(log[k][m], log[k][j], L)
        BY <2>4, <2>6, <2>7
    <2>9. L = 1 \/ Apart(log[k][i], log[k][m], L - 1)
        <3>1. L # 1 => m \in i + 1 .. n
            BY <2>4, <2>5, <2>6
        <3> QED BY <2>4, <2>6, <2>7, <3>1
    <2>10. PICK a1 \in Nat, w1 \in Nat, n1 \in 1 .. L :
             a1 = log[k][i].at /\ w1 = log[k][i].win /\ n1 = log[k][i].nth
        BY <2>1, <2>4, <2>7 DEF Placed
    <2>11. PICK w2 \in Nat, n2 \in 1 .. L : w2 = log[k][m].win /\ n2 = log[k][m].nth
        BY <2>1, <2>5, <2>7 DEF Placed
    <2>12. PICK a3 \in Nat, w3 \in Nat, n3 \in 1 .. L :
             a3 = log[k][j].at /\ w3 = log[k][j].win /\ n3 = log[k][j].nth
        BY <2>1, <2>3, <2>7 DEF Placed
    <2>13. (n1 = 1 => a1 = w1) /\ (n1 > 1 => a1 < w1 + Window) /\ w3 <= a3
        BY <2>3, <2>4, <2>7, <2>10, <2>12 DEF Placed
    <2>14. /\ (w2 = w1 /\ n2 = n1 + (L - 1)) \/ w2 >= w1 + Window \/ L = 1
           /\ (w3 = w2 /\ n3 = n2 + L) \/ w3 >= w2 + Window
           /\ (w3 = w1 /\ n3 = n1 + (2 * L - 1)) \/ w3 >= w1 + Window
        BY <2>8, <2>9, <2>10, <2>11, <2>12 DEF Apart
    <2>15. a3 - a1 >= Window
        BY <2>13, <2>14, ThreeSpan, LimiterAssumption
    <2> QED BY <2>1, <2>3, <2>10, <2>12, <2>15
<1> QED BY <1>1, Invariance, PTL

\* No call, by anyone, resets or forgets a window that has not expired.
THEOREM LiveWindowsAreKept == Spec => LiveWindowsKept
<1> DEFINE Keeps == \A k \in Keys :
       Live(k, now) =>
         /\ k \in DOMAIN seen'
         /\ seen'[k].started = seen[k].started
         /\ seen'[k].hits # seen[k].hits => verdict'.key = k
<1>1. IInv /\ [Next]_limiterVars => [Keeps]_limiterVars
    <2> SUFFICES ASSUME IInv, [Next]_limiterVars, NEW k \in Keys, Live(k, now)
                 PROVE  /\ k \in DOMAIN seen'
                        /\ seen'[k].started = seen[k].started
                        /\ seen'[k].hits # seen[k].hits => verdict'.key = k
        OBVIOUS
    <2>1. k \in DOMAIN seen /\ k \in Retained(now)
        BY RetainedKeeps DEF Live
    <2>2. ASSUME NEW j \in Keys, Shed(j) PROVE seen'[k] = seen[k] /\ k \in DOMAIN seen'
        BY <2>1, <2>2 DEF Shed
    <2>3. ASSUME NEW j \in Keys, Hit(j)
          PROVE  /\ k \in DOMAIN seen'
                 /\ seen'[k].started = seen[k].started
                 /\ seen'[k].hits # seen[k].hits => verdict'.key = k
        <3>1. k \in DOMAIN seen' /\ verdict'.key = j
            BY <2>1, <2>3 DEF Hit, Verdict
        <3>2. CASE j = k
            BY <2>1, <2>3, <3>1, <3>2 DEF Hit
        <3>3. CASE j # k
            BY <2>1, <2>3, <3>1, <3>3 DEF Hit
        <3> QED BY <3>2, <3>3
    <2>4. ASSUME NEW j \in Keys, Open(j) PROVE seen'[k] = seen[k] /\ k \in DOMAIN seen'
        BY <2>1, <2>4 DEF Open
    <2>5. CASE Tick \/ UNCHANGED limiterVars
        BY <2>1, <2>5 DEF Tick, limiterVars
    <2> QED BY <2>2, <2>3, <2>4, <2>5 DEF Next, Check
<1> QED BY <1>1, Invariance, PTL DEF Spec, LiveWindowsKept

-----------------------------------------------------------------------------
(* Refusals.                                                               *)

\* The hits that were admitted among those the map has counted.
Admitted(k) == IF seen[k].hits <= Effective THEN seen[k].hits ELSE Effective

\* Of the hits counted in a window, the admitted ones are in the history, at
\* its end.
Filled(k) ==
  k \in DOMAIN seen =>
    /\ Admitted(k) <= Len(log[k])
    /\ \A i \in 1 .. Len(log[k]) :
         i > Len(log[k]) - Admitted(k) => log[k][i].win = seen[k].started

LEMMA AdmittedFills ==
  ASSUME Typed, NEW k \in Keys, NEW win \in Nat, NEW nth \in 1 .. Effective,
         Admit(k, win, nth),
         k \in DOMAIN seen', seen'[k] = [started |-> win, hits |-> nth],
         nth > 1 => /\ Filled(k) /\ k \in DOMAIN seen /\ seen[k].started = win
                    /\ seen[k].hits \in Nat /\ nth = seen[k].hits + 1
  PROVE  Filled(k)'
<1>1. PICK n \in Nat : n = Len(log[k])
    BY Entries
<1>2. /\ Len(log'[k]) = n + 1 /\ log'[k][n + 1].win = win
      /\ \A i \in 1 .. n : log'[k][i] = log[k][i]
    <2>1. nth \in Nat
        BY EffectiveType
    <2>2. /\ Len(log'[k]) = n + 1
          /\ log'[k][n + 1] = [at |-> now, win |-> win, nth |-> nth]
          /\ \A i \in 1 .. n : log'[k][i] = log[k][i]
        BY <1>1, <2>1, AdmitAppends
    <2> QED BY <2>2
<1>3. Admitted(k)' = nth /\ nth \in Nat /\ nth >= 1 /\ seen'[k].started = win
    BY EffectiveType DEF Admitted
<1>4. CASE nth = 1
    BY <1>2, <1>3, <1>4 DEF Filled
<1>5. CASE nth > 1
    <2>1. Admitted(k) = nth - 1 /\ nth - 1 <= n
        BY <1>1, <1>3, <1>5, EffectiveType DEF Admitted, Filled
    <2>2. \A i \in 1 .. n : i > n - (nth - 1) => log'[k][i].win = win
        BY <1>1, <1>2, <1>5, <2>1 DEF Filled
    <2>3. ASSUME NEW i \in 1 .. n + 1, i > n + 1 - nth PROVE log'[k][i].win = win
        <3>1. CASE i = n + 1
            BY <1>2, <3>1
        <3>2. CASE i # n + 1
            <4>1. i \in 1 .. n /\ i > n - (nth - 1)
                BY <1>3, <2>3, <3>2
            <4> QED BY <2>2, <4>1
        <3> QED BY <3>1, <3>2
    <2> QED BY <1>1, <1>2, <1>3, <2>1, <2>3 DEF Filled
<1> QED BY <1>3, <1>4, <1>5

LEMMA FilledStep ==
  ASSUME Typed, \A k \in Keys : Filled(k), [Next]_limiterVars, NEW j \in Keys
  PROVE  Filled(j)'
<1>1. CASE UNCHANGED <<seen, log>>
    BY <1>1 DEF Filled, Admitted
<1>2. ASSUME j \in DOMAIN seen' => j \in DOMAIN seen /\ seen'[j] = seen[j],
             log'[j] = log[j]
      PROVE  Filled(j)'
    BY <1>2 DEF Filled, Admitted
<1>3. ASSUME NEW k \in Keys, Shed(k) PROVE Filled(j)'
    BY <1>2, <1>3, RetainedKeeps DEF Shed
<1>4. ASSUME NEW k \in Keys, Hit(k) PROVE Filled(j)'
    <2>1. /\ k \in DOMAIN seen /\ seen[k].started \in Nat /\ seen[k].hits \in Nat
          /\ seen[k].hits >= 1 /\ Bumped(k) = seen[k].hits + 1
        BY <1>4, NoWrap DEF Hit, Live, Typed, Entry
    <2>2. /\ k \in DOMAIN seen'
          /\ seen'[k] = [started |-> seen[k].started, hits |-> Bumped(k)]
        BY <1>4, RetainedKeeps DEF Hit
    <2>3. CASE j # k
        <3>1. j \in DOMAIN seen' => j \in DOMAIN seen /\ seen'[j] = seen[j]
            BY <1>4, <2>3, RetainedKeeps DEF Hit
        <3>2. log'[j] = log[j]
            BY <1>4, <2>3 DEF Hit, Admit, Typed
        <3> QED BY <1>2, <3>1, <3>2
    <2>4. CASE j = k /\ Within(Bumped(k))
        <3>1. Bumped(k) \in 1 .. Effective /\ Admit(k, seen[k].started, Bumped(k))
            BY <1>4, <2>1, <2>4, EffectiveType, LimiterAssumption DEF Hit, Within
        <3> QED BY <2>1, <2>2, <2>4, <3>1, AdmittedFills
    <2>5. CASE j = k /\ ~Within(Bumped(k))
        <3>1. seen[k].hits >= Effective
            BY <2>1, <2>5, LimiterAssumption DEF Within, Effective
        <3>2. Admitted(k)' = Admitted(k)
            BY <2>1, <2>2, <3>1, EffectiveType DEF Admitted
        <3>3. log' = log /\ seen'[k].started = seen[k].started
            BY <1>4, <2>2, <2>5 DEF Hit
        <3> QED BY <2>1, <2>5, <3>2, <3>3 DEF Filled
    <2> QED BY <2>3, <2>4, <2>5
<1>5. ASSUME NEW k \in Keys, Open(k) PROVE Filled(j)'
    <2>1. CASE j # k
        <3>1. j \in DOMAIN seen' => j \in DOMAIN seen /\ seen'[j] = seen[j]
            BY <1>5, <2>1, RetainedKeeps DEF Open
        <3>2. log'[j] = log[j]
            BY <1>5, <2>1 DEF Open, Admit, Typed
        <3> QED BY <1>2, <3>1, <3>2
    <2>2. CASE j = k
        <3>1. /\ now \in Nat /\ Admit(k, now, 1) /\ 1 \in 1 .. Effective
              /\ k \in DOMAIN seen' /\ seen'[k] = [started |-> now, hits |-> 1]
            BY <1>5, EffectiveType DEF Open, Typed
        <3> QED BY <2>2, <3>1, AdmittedFills
    <2> QED BY <2>1, <2>2
<1> QED BY <1>1, <1>3, <1>4, <1>5 DEF Next, Check, Tick, limiterVars

\* A client that is over its limit has been admitted that often in the window.
LEMMA OverIsSpent ==
  ASSUME Typed, NEW k \in Keys, Filled(k), Paced(k), Hit(k), ~Within(Bumped(k))
  PROVE  SpentBy(k, now)
<1>1. PICK n \in Nat : n = Len(log[k]) /\ DOMAIN log[k] = 1 .. n
    BY Entries DEF Typed
<1>2. /\ now \in Nat /\ Window \in Nat /\ k \in DOMAIN seen
      /\ seen[k].started \in Nat /\ now - seen[k].started < Window
      /\ seen[k].hits \in Nat /\ Bumped(k) = seen[k].hits + 1
    BY NoWrap, LimiterAssumption DEF Hit, Live, Typed, Entry
<1>3. Limit <= Admitted(k) /\ Admitted(k) \in Nat
    BY <1>2, EffectiveType, LimiterAssumption DEF Within, Admitted
<1>4. PICK m \in Nat : m = n - Limit
    BY <1>1, <1>2, <1>3, LimiterAssumption DEF Filled
<1> DEFINE late == {i \in DOMAIN log[k] : now - log[k][i].at < Window}
<1>5. m + 1 .. n \subseteq late
    <2> SUFFICES ASSUME NEW i \in m + 1 .. n PROVE i \in late
        OBVIOUS
    <2>1. i \in 1 .. n /\ i > n - Admitted(k)
        BY <1>3, <1>4, LimiterAssumption
    <2>2. log[k][i].win = seen[k].started
        BY <1>1, <1>2, <2>1 DEF Filled
    <2>3. log[k][i].win <= log[k][i].at /\ log[k][i].at \in Nat
        BY <1>1, <2>1, Entries DEF Paced, Placed
    <2>4. now - log[k][i].at < Window
        BY <1>2, <2>2, <2>3
    <2> QED BY <1>1, <2>1, <2>4
<1>6. IsFiniteSet(late)
    <2>1. IsFiniteSet(1 .. n) /\ late \subseteq 1 .. n
        BY <1>1, FS_Interval
    <2> QED BY <2>1, FS_Subset
<1>7. Cardinality(m + 1 .. n) = Limit
    <2>1. m + 1 \in Int /\ n \in Int
        OBVIOUS
    <2>2. Cardinality(m + 1 .. n) = IF m + 1 > n THEN 0 ELSE n - (m + 1) + 1
        BY <2>1, FS_Interval
    <2> QED BY <1>4, <2>2, LimiterAssumption
<1>8. Cardinality(m + 1 .. n) <= Cardinality(late)
    BY <1>5, <1>6, FS_Subset
<1>9. Cardinality(late) \in Nat
    BY <1>6, FS_CardinalityType
<1> QED BY <1>7, <1>8, <1>9, LimiterAssumption DEF SpentBy

\* A client is refused for its own calls, or because the map is full of live
\* windows after the sweep.
LEMMA RefusalStep ==
  ASSUME IInv, \A k \in Keys : Filled(k), RefusalsAreEarned, [Next]_limiterVars
  PROVE  RefusalsAreEarned'
<1>1. Typed /\ Sized /\ (\A k \in Keys : Paced(k))
    BY DEF IInv
<1>2. ASSUME NEW k \in Keys, Hit(k) PROVE RefusalsAreEarned'
    <2>1. /\ verdict' = [key |-> k, ok |-> Within(Bumped(k)), at |-> now]
          /\ ~Within(Bumped(k)) => log' = log
        BY <1>2 DEF Hit, Verdict
    <2>2. ~Within(Bumped(k)) => SpentBy(k, now)
        BY <1>1, <1>2, OverIsSpent
    <2> QED BY <2>1, <2>2 DEF RefusalsAreEarned, SpentBy
<1>3. ASSUME NEW k \in Keys, Shed(k) PROVE RefusalsAreEarned'
    <2>1. /\ verdict'.at = now /\ Cardinality(Retained(now)) >= MaxTracked
          /\ seen' = [j \in Retained(now) |-> seen[j]]
        BY <1>3 DEF Shed, Verdict, Full
    <2>2. Retained(now) = {j \in DOMAIN seen : Live(j, now)}
        BY <2>1 DEF Retained
    <2>3. {j \in Keys : Live(j, verdict.at)}' = Retained(now)
        BY <1>1, <2>1, <2>2 DEF Live, Typed
    <2> QED BY <2>1, <2>3 DEF RefusalsAreEarned
<1>4. ASSUME NEW k \in Keys, Open(k) PROVE RefusalsAreEarned'
    BY <1>4 DEF Open, Verdict, RefusalsAreEarned
<1>5. CASE Tick \/ UNCHANGED limiterVars
    BY <1>5 DEF Tick, limiterVars, RefusalsAreEarned, SpentBy, Live
<1> QED BY <1>2, <1>3, <1>4, <1>5 DEF Next, Check

\* Nobody is turned away for what another client did, short of the map being
\* full of live windows.
THEOREM RefusalsHaveCause == Spec => []RefusalsAreEarned
<1> DEFINE AllFilled == \A k \in Keys : Filled(k)
<1>1. Init => AllFilled /\ RefusalsAreEarned
    BY DEF Init, Filled, RefusalsAreEarned
<1>2. IInv /\ AllFilled /\ RefusalsAreEarned /\ [Next]_limiterVars
      => AllFilled' /\ RefusalsAreEarned'
    BY FilledStep, RefusalStep DEF IInv
<1> QED BY <1>1, <1>2, Invariance, PTL DEF Spec
=============================================================================
