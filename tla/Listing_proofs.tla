--------------------------- MODULE Listing_proofs ---------------------------
(***************************************************************************)
(* For any library, any queries and any number of writers: what a walk     *)
(* through the pages shows, what the first page is made of, what the order *)
(* of ?sort=recent means, which version is advertised, and that there is   *)
(* an order to answer every query in.                                      *)
(***************************************************************************)
EXTENDS Listing, TLAPS, FiniteSetTheorems, SequenceTheorems,
  WellFoundedInduction

-----------------------------------------------------------------------------
(* Types.                                                                  *)

\* A transaction began before now, and amends an entry that is there.
Opened ==
  \A w \in Writers : open[w] # Null =>
    /\ open[w].at <= now
    /\ open[w].op \in {"publish", "update"} => open[w].slug \in DOMAIN entries

LEMMA InitTypes == Init => TypeOK /\ Opened
<1> SUFFICES ASSUME Init PROVE TypeOK /\ Opened
    OBVIOUS
<1>1. PICK there \in SUBSET Slugs : \E listed, more, badged \in SUBSET there :
        /\ entries = [s \in there |->
                        [listed |-> s \in listed, official |-> s \in badged,
                         tagged |-> TRUE, updated_at |-> 0,
                         installs |-> IF s \in more THEN 1 ELSE 0]]
        /\ versions = [s \in there |-> <<[published_at |-> 0, withdrawn |-> FALSE]>>]
        /\ landed = [s \in there |-> [begun |-> 0, at |-> 0]]
        /\ now = 0
        /\ open = [w \in Writers |-> Null]
        /\ walk = [stage |-> "idle", params |-> CHOOSE p \in Params : TRUE, shown |-> <<>>]
        /\ firm = {} /\ unpushed = {}
    BY Zenon DEF Init
<1>2. DOMAIN entries = there /\ entries \in [there -> Row]
    BY <1>1 DEF Row
<1>3. DOMAIN versions = there /\ \A s \in there :
        versions[s] \in Seq(VersionRow) /\ versions[s] # <<>>
    BY <1>1 DEF VersionRow
<1>4. (CHOOSE p \in Params : TRUE) \in Param
    BY ListingAssumption
<1>5. walk.stage = "idle" /\ walk.params \in Param /\ walk.shown \in Seq(Slugs)
    BY <1>1, <1>4
<1>6. landed \in [there -> [begun : Nat, at : Nat]] /\ now \in Nat
      /\ open \in [Writers -> Writing \cup {Null}] /\ firm \cup unpushed \subseteq Slugs
    BY <1>1
<1>7. TypeOK
    BY <1>2, <1>3, <1>5, <1>6 DEF TypeOK
<1>8. Opened
    BY <1>1 DEF Opened
<1> QED BY <1>7, <1>8

\* The histories only lose entries while somebody writes.
LEMMA WriteTypes ==
  ASSUME TypeOK, Write
  PROVE  /\ walk' = walk
         /\ firm' \subseteq firm /\ unpushed' \subseteq unpushed
BY DEF Write, GoesBy

\* What an amended row is.
LEMMA RowTypes ==
  ASSUME NEW row \in Row, NEW at \in Nat, NEW tagged \in BOOLEAN
  PROVE  Relisted(row, at) \in Row /\ Amended(row, at, tagged) \in Row
BY DEF Row, Relisted, Amended

LEMMA OpenTypes ==
  ASSUME TypeOK, Opened, NEW w \in Writers, open[w] # Null
  PROVE  /\ open[w].slug \in Slugs /\ open[w].at \in Nat /\ open[w].at <= now
         /\ open[w].op \in {"create", "publish", "update"}
         /\ open[w].op \in {"publish", "update"} => open[w].slug \in DOMAIN entries
         /\ NewVersion(w) \in VersionRow
<1>1. open[w] \in Writing
    BY DEF TypeOK
<1> QED BY <1>1 DEF Opened, Writing, NewVersion, VersionRow

\* A transaction lands: the entries, and what is known of them.
LEMMA CommitTypes ==
  ASSUME TypeOK, Opened, NEW w \in Writers, open[w] # Null,
         Lands(open[w].slug, w), End(w), now' = now, Write,
         DOMAIN entries' = DOMAIN entries \cup {open[w].slug},
         entries' \in [DOMAIN entries' -> Row],
         DOMAIN versions' = DOMAIN entries',
         \A s \in DOMAIN versions' : versions'[s] \in Seq(VersionRow) /\ versions'[s] # <<>>
  PROVE  TypeOK' /\ Opened'
<1>1. open[w].slug \in Slugs /\ open[w].at \in Nat
    BY OpenTypes
<1>2. landed' \in [DOMAIN entries' -> [begun : Nat, at : Nat]]
    BY <1>1 DEF TypeOK, Lands
<1>3. open' \in [Writers -> Writing \cup {Null}]
    BY DEF TypeOK, End
<1>4. TypeOK'
    BY <1>1, <1>2, <1>3, WriteTypes DEF TypeOK
<1>5. Opened'
    BY DEF Opened, TypeOK, End
<1> QED BY <1>4, <1>5

LEMMA StatementTypes ==
  ASSUME TypeOK, Opened, Statement,
         DOMAIN entries' = DOMAIN entries, entries' \in [DOMAIN entries -> Row],
         DOMAIN versions' = DOMAIN versions,
         \A s \in DOMAIN versions : versions'[s] \in Seq(VersionRow) /\ versions'[s] # <<>>
  PROVE  TypeOK' /\ Opened'
<1>1. UNCHANGED <<landed, open>> /\ now' = now + 1 /\ Write
    BY DEF Statement, Tick
<1>2. TypeOK'
    BY <1>1, WriteTypes DEF TypeOK
<1>3. Opened'
    <2>1. ASSUME NEW w \in Writers, open[w] # Null
          PROVE  open[w].at \in Nat
        BY <2>1, OpenTypes
    <2> QED BY <1>1, <2>1 DEF Opened, TypeOK
<1> QED BY <1>2, <1>3

LEMMA WriterTypes == ASSUME TypeOK, Opened, WriterStep PROVE TypeOK' /\ Opened'
<1>1. ASSUME NEW w \in Writers, NEW s \in Slugs,
             NEW op \in {"create", "publish", "update"}, Begin(w, op, s)
      PROVE  TypeOK' /\ Opened'
    <2> DEFINE new == [op |-> op, slug |-> s, at |-> now + 1]
    <2>1. new \in Writing
        BY DEF TypeOK, Writing
    <2>2. now' = now + 1 /\ open' = [open EXCEPT ![w] = new]
        BY <1>1 DEF Begin, Tick
    <2>3. UNCHANGED <<library, walk, firm, unpushed>>
        BY <1>1 DEF Begin
    <2>4. new.at = now' /\ new.op = op /\ new.slug = s
        BY <2>2
    <2>5. op \in {"publish", "update"} => s \in DOMAIN entries
        BY <1>1 DEF Begin
    <2> HIDE DEF new
    <2>6. TypeOK'
        BY <2>1, <2>2, <2>3 DEF TypeOK, library
    <2>7. ASSUME NEW v \in Writers, open'[v] # Null
          PROVE  /\ open'[v].at <= now'
                 /\ open'[v].op \in {"publish", "update"} => open'[v].slug \in DOMAIN entries
        <3>1. CASE v = w
            BY <2>2, <2>4, <2>5, <3>1 DEF TypeOK
        <3>2. CASE v # w
            <4>1. open'[v] = open[v]
                BY <2>2, <3>2 DEF TypeOK
            <4> QED BY <2>2, <2>7, <4>1, OpenTypes DEF TypeOK
        <3> QED BY <3>1, <3>2
    <2> QED BY <2>3, <2>6, <2>7 DEF Opened, library
<1>2. ASSUME NEW w \in Writers, open[w] # Null, NEW tagged \in BOOLEAN, CommitCreate(w, tagged)
      PROVE  TypeOK' /\ Opened'
    <2> DEFINE s == open[w].slug
               row == [listed |-> TRUE, official |-> FALSE, tagged |-> tagged,
                       installs |-> 0, updated_at |-> open[w].at]
    <2>1. /\ entries' = [t \in DOMAIN entries \cup {s} |->
                           IF t = s THEN row ELSE entries[t]]
          /\ versions' = [t \in DOMAIN versions \cup {s} |->
                            IF t = s THEN FirstVersion(w) ELSE versions[t]]
          /\ Lands(s, w) /\ End(w) /\ now' = now /\ Write
        BY <1>2 DEF CommitCreate
    <2>2. row \in Row
        BY <1>2, OpenTypes DEF Row
    <2>3. FirstVersion(w) \in Seq(VersionRow) /\ FirstVersion(w) # <<>>
        BY <1>2, OpenTypes DEF FirstVersion
    <2> HIDE DEF row
    <2>4. DOMAIN entries' = DOMAIN entries \cup {s} /\ entries' \in [DOMAIN entries' -> Row]
        BY <2>1, <2>2 DEF TypeOK
    <2>5. DOMAIN versions' = DOMAIN entries'
          /\ \A t \in DOMAIN versions' : versions'[t] \in Seq(VersionRow) /\ versions'[t] # <<>>
        BY <2>1, <2>3, <2>4 DEF TypeOK
    <2> QED BY <1>2, <2>1, <2>4, <2>5, CommitTypes
<1>3. ASSUME NEW w \in Writers, open[w] # Null, CommitPublish(w)
      PROVE  TypeOK' /\ Opened'
    <2> DEFINE s == open[w].slug
    <2>1. /\ entries' = [entries EXCEPT ![s] = Relisted(entries[s], open[w].at)]
          /\ versions' = [versions EXCEPT ![s] = Append(versions[s], NewVersion(w))]
          /\ Lands(s, w) /\ End(w) /\ now' = now /\ Write
        BY <1>3 DEF CommitPublish
    <2>2. s \in DOMAIN entries /\ NewVersion(w) \in VersionRow
        BY <1>3, OpenTypes DEF CommitPublish
    <2>3. Relisted(entries[s], open[w].at) \in Row
        BY <1>3, <2>2, OpenTypes, RowTypes DEF TypeOK
    <2>4. DOMAIN entries' = DOMAIN entries \cup {s} /\ entries' \in [DOMAIN entries' -> Row]
        BY <2>1, <2>2, <2>3 DEF TypeOK
    <2>5. versions[s] \in Seq(VersionRow) /\ DOMAIN versions = DOMAIN entries
        BY <2>2 DEF TypeOK
    <2> DEFINE rows == Append(versions[s], NewVersion(w))
    <2>6. rows \in Seq(VersionRow) /\ rows # <<>>
        BY <2>2, <2>5, AppendProperties
    <2>7. versions' = [versions EXCEPT ![s] = rows]
        BY <2>1
    <2> HIDE DEF rows
    <2>8. DOMAIN versions' = DOMAIN entries'
          /\ \A t \in DOMAIN versions' : versions'[t] \in Seq(VersionRow) /\ versions'[t] # <<>>
        BY <2>2, <2>4, <2>5, <2>6, <2>7 DEF TypeOK
    <2> QED BY <1>3, <2>1, <2>4, <2>8, CommitTypes
<1>4. ASSUME NEW w \in Writers, open[w] # Null, NEW tagged \in BOOLEAN, CommitUpdate(w, tagged)
      PROVE  TypeOK' /\ Opened'
    <2> DEFINE s == open[w].slug
    <2>1. /\ entries' = [entries EXCEPT ![s] = Amended(entries[s], open[w].at, tagged)]
          /\ Lands(s, w) /\ End(w) /\ UNCHANGED <<versions, now>> /\ Write
        BY <1>4 DEF CommitUpdate
    <2>2. s \in DOMAIN entries
        BY <1>4, OpenTypes DEF CommitUpdate
    <2>3. Amended(entries[s], open[w].at, tagged) \in Row
        BY <1>4, <2>2, OpenTypes, RowTypes DEF TypeOK
    <2>4. DOMAIN entries' = DOMAIN entries \cup {s} /\ entries' \in [DOMAIN entries' -> Row]
        BY <2>1, <2>2, <2>3 DEF TypeOK
    <2>5. DOMAIN versions' = DOMAIN entries'
          /\ \A t \in DOMAIN versions' : versions'[t] \in Seq(VersionRow) /\ versions'[t] # <<>>
        BY <2>1, <2>2, <2>4 DEF TypeOK
    <2> QED BY <1>4, <2>1, <2>4, <2>5, CommitTypes
<1>5. ASSUME NEW w \in Writers, RollBack(w) PROVE TypeOK' /\ Opened'
    <2>1. /\ UNCHANGED <<library, now, walk, firm, unpushed>>
          /\ open' = [open EXCEPT ![w] = Null]
        BY <1>5 DEF RollBack, End
    <2>2. open' \in [Writers -> Writing \cup {Null}]
        BY <2>1 DEF TypeOK
    <2>3. TypeOK'
        BY <2>1, <2>2 DEF TypeOK, library
    <2>4. \A v \in Writers : open'[v] # Null => open'[v] = open[v]
        BY <2>1 DEF TypeOK
    <2> QED BY <2>1, <2>3, <2>4 DEF Opened, library
<1>6. ASSUME NEW s \in DOMAIN entries, Unlist(s) PROVE TypeOK' /\ Opened'
    BY <1>6, StatementTypes DEF Unlist, TypeOK, Row
<1>7. ASSUME NEW s \in DOMAIN entries, SetOfficial(s) PROVE TypeOK' /\ Opened'
    BY <1>7, StatementTypes DEF SetOfficial, TypeOK, Row
<1>8. ASSUME NEW s \in DOMAIN entries, NEW n, Installed(s, n) PROVE TypeOK' /\ Opened'
    BY <1>8, StatementTypes DEF Installed, TypeOK, Row
<1>9. ASSUME NEW s \in DOMAIN entries, NEW n \in DOMAIN versions[s], Withdraw(s, n)
      PROVE  TypeOK' /\ Opened'
    <2>1. /\ versions' = [versions EXCEPT ![s] = [@ EXCEPT ![n].withdrawn = TRUE]]
          /\ UNCHANGED entries /\ Statement
        BY <1>9 DEF Withdraw
    <2>2. versions[s] \in Seq(VersionRow) /\ versions[s] # <<>> /\ s \in DOMAIN versions
        BY DEF TypeOK
    <2> DEFINE rows == [versions[s] EXCEPT ![n].withdrawn = TRUE]
    <2>3. [versions[s][n] EXCEPT !.withdrawn = TRUE] \in VersionRow
        <3>1. versions[s][n] \in VersionRow
            BY <2>2
        <3> QED BY <3>1 DEF VersionRow
    <2>4. rows \in Seq(VersionRow) /\ rows # <<>>
        <3>1. rows = [versions[s] EXCEPT ![n] = [versions[s][n] EXCEPT !.withdrawn = TRUE]]
            OBVIOUS
        <3>2. Len(rows) = Len(versions[s]) /\ rows \in Seq(VersionRow)
            BY <2>2, <2>3, <3>1, ExceptSeq
        <3> QED BY <2>2, <3>2
    <2>5. DOMAIN versions' = DOMAIN versions
          /\ \A t \in DOMAIN versions : versions'[t] = IF t = s THEN rows ELSE versions[t]
        BY <2>1, <2>2
    <2> HIDE DEF rows
    <2> QED BY <2>1, <2>4, <2>5, StatementTypes DEF TypeOK
<1> QED
    BY <1>1, <1>2, <1>3, <1>4, <1>5, <1>6, <1>7, <1>8, <1>9 DEF WriterStep

-----------------------------------------------------------------------------
(* The greatest of finitely many numbers.  The library states induction    *)
(* over an operator, which is of no use to the provers; that < is well     *)
(* founded it states of sets, and a least element is all that is needed.   *)

LEMMA LeastExists ==
  ASSUME NEW S \in SUBSET Nat, S # {}
  PROVE  \E x \in S : \A y \in S : x <= y
<1> DEFINE R == OpToRel(<, Nat)
<1>1. IsWellFoundedOn(R, Nat)
    BY NatLessThanWellFounded
<1>2. \A x, y \in Nat : y < x => <<y, x>> \in R
    BY DEF OpToRel
<1> HIDE DEF R
<1>3. PICK x \in S : \A y \in S : ~ (<<y, x>> \in R)
    BY <1>1, WFMin
<1>4. ASSUME NEW y \in S PROVE x <= y
    <2>1. x \in Nat /\ y \in Nat
        OBVIOUS
    <2>2. ~(y < x)
        BY <1>2, <1>3, <2>1
    <2> QED BY <2>1, <2>2
<1> QED BY <1>4

LEMMA GreatestExists ==
  ASSUME NEW N \in Nat, NEW S \in SUBSET (0 .. N), S # {}
  PROVE  \E x \in S : \A y \in S : x >= y
<1> DEFINE T == {N - x : x \in S}
<1>1. T \in SUBSET Nat /\ T # {}
    <2>1. \A x \in S : N - x \in Nat
        OBVIOUS
    <2> QED BY <2>1
<1>2. PICK t \in T : \A u \in T : t <= u
    BY <1>1, LeastExists
<1>3. PICK x \in S : t = N - x
    OBVIOUS
<1>4. ASSUME NEW y \in S PROVE x >= y
    <2>1. x \in Nat /\ y \in Nat
        OBVIOUS
    <2>2. N - x <= N - y
        BY <1>2, <1>3
    <2> QED BY <2>1, <2>2
<1> QED BY <1>4

\* Latest is the number of a version that is there and not withdrawn, and of
\* the last such, or 0.
LEMMA LatestIsLast ==
  ASSUME TypeOK, NEW s \in DOMAIN entries
  PROVE  LET current == {n \in DOMAIN versions[s] : ~versions[s][n].withdrawn} IN
         /\ Latest(s) \in current \cup {0}
         /\ \A n \in current : n <= Latest(s)
<1> DEFINE current == {n \in DOMAIN versions[s] : ~versions[s][n].withdrawn}
           numbers == current \cup {0}
           N == Len(versions[s])
<1>1. N \in Nat /\ DOMAIN versions[s] = 1 .. N
    BY DEF TypeOK
<1>2. numbers \in SUBSET (0 .. N) /\ numbers # {}
    BY <1>1
<1>4. Latest(s) = Max(numbers)
    BY DEF Latest
<1> HIDE DEF numbers
<1>5. numbers \in SUBSET Int
    BY <1>2
<1>6. \E x \in numbers : \A y \in numbers : x >= y
    BY <1>1, <1>2, GreatestExists
<1>7. Max(numbers) \in numbers /\ \A y \in numbers : Max(numbers) >= y
    BY <1>6 DEF Max
<1>8. \A n \in current : n \in numbers /\ n \in Int
    BY <1>1 DEF numbers
<1>9. Latest(s) \in Int
    BY <1>4, <1>5, <1>7
<1> QED BY <1>4, <1>7, <1>8, <1>9 DEF numbers

-----------------------------------------------------------------------------
(* One query.                                                              *)

LEMMA TwoExtremes ==
  ASSUME NEW a \in Int, NEW b \in Int
  PROVE  /\ Min({a, b}) = IF a <= b THEN a ELSE b
         /\ Max({a, b}) = IF a <= b THEN b ELSE a
<1>1. CASE a <= b
    <2>1. \E x \in {a, b} : \A y \in {a, b} : x <= y
        BY <1>1
    <2>2. \E x \in {a, b} : \A y \in {a, b} : x >= y
        BY <1>1
    <2> QED BY <1>1, <2>1, <2>2 DEF Min, Max
<1>2. CASE b < a
    <2>1. \E x \in {a, b} : \A y \in {a, b} : x <= y
        BY <1>2
    <2>2. \E x \in {a, b} : \A y \in {a, b} : x >= y
        BY <1>2
    <2> QED BY <1>2, <2>1, <2>2 DEF Min, Max
<1> QED BY <1>1, <1>2

\* The clamp: a page that could hold nothing would end every walk.
LEMMA LimitIsPositive ==
  ASSUME NEW p \in Param
  PROVE  Limit(p) \in Nat /\ Limit(p) >= 1
<1>1. CASE p.limit = Null
    BY <1>1, ListingAssumption DEF Limit
<1>2. CASE p.limit # Null
    <2>1. p.limit \in Int /\ MaxPage \in Int
        BY <1>2, ListingAssumption DEF Param
    <2>2. Min({p.limit, MaxPage}) \in Int
        BY <2>1, TwoExtremes
    <2> DEFINE m == Min({p.limit, MaxPage})
    <2>3. Limit(p) = Max({1, m})
        BY <1>2 DEF Limit
    <2> HIDE DEF m
    <2>4. m \in Int
        BY <2>2 DEF m
    <2>5. 1 \in Int
        OBVIOUS
    <2>6. Max({1, m}) = IF 1 <= m THEN m ELSE 1
        BY <2>4, <2>5, TwoExtremes, Zenon
    <2> QED BY <2>3, <2>4, <2>6
<1> QED BY <1>1, <1>2

LEMMA MatchingFinite ==
  ASSUME TypeOK, NEW p
  PROVE  Matching(p) \subseteq Slugs /\ IsFiniteSet(Matching(p))
<1>1. Matching(p) \subseteq Slugs
    BY DEF TypeOK, Matching
<1> QED BY <1>1, ListingAssumption, FS_Subset

\* An order holds every row of the query once.
LEMMA OrderFacts ==
  ASSUME TypeOK, NEW p, NEW o \in Orders(p)
  PROVE  /\ o \in Seq(Matching(p)) /\ Len(o) \in Nat
         /\ \A i, j \in 1 .. Len(o) : o[i] = o[j] => i = j
         /\ \A s \in Matching(p) : \E i \in 1 .. Len(o) : o[i] = s
         /\ \A i, j \in 1 .. Len(o) : i < j => ~Ahead(p.sort, o[j], o[i])
<1> DEFINE rows == Matching(p)
           N == Cardinality(rows)
<1>1. IsFiniteSet(rows) /\ N \in Nat
    BY MatchingFinite, FS_CardinalityType
<1>2. o \in [1 .. N -> rows]
      /\ \A i, j \in DOMAIN o : i < j => o[i] # o[j] /\ ~Ahead(p.sort, o[j], o[i])
    BY DEF Orders
<1>3. \A i, j \in 1 .. N : o[i] = o[j] => i = j
    BY <1>1, <1>2
<1> HIDE DEF rows, N
<1>4. o \in Seq(rows) /\ Len(o) = N
    BY <1>1, <1>2
<1>5. o \in Injection(1 .. N, rows)
    BY <1>2, <1>3 DEF Injection, IsInjective
<1>6. Cardinality(1 .. N) = Cardinality(rows)
    BY <1>1, FS_Interval DEF N
<1>7. o \in Surjection(1 .. N, rows)
    BY <1>1, <1>5, <1>6, FS_Injection
<1> QED
    BY <1>1, <1>2, <1>3, <1>4, <1>7 DEF Surjection, rows

LEMMA AheadIrreflexive ==
  ASSUME TypeOK, NEW s \in DOMAIN entries, NEW sort
  PROVE  ~Ahead(sort, s, s)
<1>1. entries[s].installs \in Nat /\ entries[s].updated_at \in Nat
    BY DEF TypeOK, Row
<1> QED BY <1>1 DEF Ahead, ByInstalls, ByRecency

\* Whatever is in the library, a query has an order: a tie can be broken by
\* any numbering of the rows, and an entry's place is then the number of rows
\* before it.
LEMMA OrderExists ==
  ASSUME TypeOK, NEW p
  PROVE  Orders(p) # {}
<1> DEFINE rows == Matching(p)
           N == Cardinality(rows)
<1>1. IsFiniteSet(rows) /\ N \in Nat /\ rows \subseteq DOMAIN entries
    BY MatchingFinite, FS_CardinalityType DEF Matching
<1>2. PICK ix \in [rows -> Nat] : \A r, t \in rows : ix[r] = ix[t] => r = t
    <2>1. PICK n \in Nat : ExistsBijection(1 .. n, rows)
        BY <1>1, FS_NatBijection
    <2>2. PICK b \in Bijection(1 .. n, rows) : TRUE
        BY <2>1 DEF ExistsBijection
    <2>3. /\ b \in [1 .. n -> rows]
          /\ \A r \in rows : \E i \in 1 .. n : b[i] = r
        BY <2>2 DEF Bijection, Surjection
    <2> DEFINE ix == [r \in rows |-> CHOOSE i \in 1 .. n : b[i] = r]
    <2>4. \A r \in rows : ix[r] \in 1 .. n /\ b[ix[r]] = r
        BY <2>3
    <2>5. ix \in [rows -> Nat] /\ \A r, t \in rows : ix[r] = ix[t] => r = t
        BY <2>4
    <2> QED BY <2>5
<1> DEFINE Before(r, t) ==
             Ahead(p.sort, r, t) \/ (~Ahead(p.sort, t, r) /\ ix[r] < ix[t])
           before(t) == {r \in rows : Before(r, t)}
           rank == [t \in rows |-> Cardinality(before(t)) + 1]
<1>3. \A r, t, u \in rows :
        /\ ~Before(r, r)
        /\ r # t => Before(r, t) \/ Before(t, r)
        /\ Before(r, t) /\ Before(t, u) => Before(r, u)
        /\ Ahead(p.sort, r, t) => Before(r, t)
    <2> TAKE r, t, u \in rows
    <2>1. \A s \in rows : /\ entries[s].installs \in Nat /\ entries[s].updated_at \in Nat
                          /\ entries[s].official \in BOOLEAN /\ ix[s] \in Nat
        BY <1>1, <1>2 DEF TypeOK, Row
    <2>2. ix[r] = ix[t] => r = t
        BY <1>2
    <2> HIDE DEF rows
    <2>3. ~Before(r, r) /\ (r # t => Before(r, t) \/ Before(t, r))
        BY <2>1, <2>2 DEF Ahead, ByInstalls, ByRecency
    <2>4. Before(r, t) /\ Before(t, u) => Before(r, u)
        <3>1. /\ Ahead(p.sort, r, t) /\ ~Ahead(p.sort, u, t) => Ahead(p.sort, r, u)
              /\ ~Ahead(p.sort, t, r) /\ Ahead(p.sort, t, u) => Ahead(p.sort, r, u)
              /\ ~Ahead(p.sort, t, r) /\ ~Ahead(p.sort, u, t) => ~Ahead(p.sort, u, r)
              /\ Ahead(p.sort, t, u) => ~Ahead(p.sort, u, t)
            BY <2>1 DEF Ahead, ByInstalls, ByRecency
        <3> QED BY <2>1, <3>1
    <2>5. Ahead(p.sort, r, t) => Before(r, t)
        OBVIOUS
    <2> QED BY <2>3, <2>4, <2>5
<1> HIDE DEF Before, rows, N
<1>4. \A t \in rows : /\ IsFiniteSet(before(t)) /\ Cardinality(before(t)) \in Nat
                      /\ rank[t] \in 1 .. N
    <2> SUFFICES ASSUME NEW t \in rows
                 PROVE  /\ IsFiniteSet(before(t)) /\ Cardinality(before(t)) \in Nat
                        /\ rank[t] \in 1 .. N
        OBVIOUS
    <2>1. before(t) \in SUBSET rows /\ before(t) # rows
        BY <1>3
    <2>2. rank[t] = Cardinality(before(t)) + 1
        OBVIOUS
    <2> HIDE DEF before, rank
    <2>3. /\ IsFiniteSet(before(t)) /\ Cardinality(before(t)) <= N
          /\ Cardinality(before(t)) # N
        BY <1>1, <2>1, FS_Subset DEF N
    <2>4. Cardinality(before(t)) \in Nat
        BY <2>3, FS_CardinalityType
    <2> QED BY <1>1, <2>2, <2>3, <2>4
<1>5. ASSUME NEW r \in rows, NEW t \in rows, Before(r, t) PROVE rank[r] < rank[t]
    <2>1. before(r) \in SUBSET before(t)
        BY <1>3, <1>5
    <2>2. r \in before(t) /\ r \notin before(r)
        BY <1>3, <1>5
    <2>3. rank[r] = Cardinality(before(r)) + 1 /\ rank[t] = Cardinality(before(t)) + 1
        OBVIOUS
    <2> HIDE DEF before, rank
    <2>4. Cardinality(before(r)) <= Cardinality(before(t))
          /\ Cardinality(before(r)) # Cardinality(before(t))
        BY <1>4, <2>1, <2>2, FS_Subset
    <2> QED BY <1>4, <2>3, <2>4
<1> HIDE DEF rank
<1>6. rank \in Injection(rows, 1 .. N)
    <2>1. rank \in [rows -> 1 .. N]
        BY <1>4 DEF rank
    <2>2. \A r, t \in rows : rank[r] = rank[t] => r = t
        <3> SUFFICES ASSUME NEW r \in rows, NEW t \in rows, r # t PROVE rank[r] # rank[t]
            OBVIOUS
        <3>1. rank[r] < rank[t] \/ rank[t] < rank[r]
            BY <1>3, <1>5
        <3>2. rank[r] \in 1 .. N /\ rank[t] \in 1 .. N
            BY <1>4
        <3> QED BY <1>1, <3>1, <3>2
    <2> QED BY <2>1, <2>2 DEF Injection, IsInjective
<1>7. rank \in Surjection(rows, 1 .. N)
    <2>1. IsFiniteSet(1 .. N) /\ Cardinality(1 .. N) = N
        BY <1>1, FS_Interval
    <2> QED BY <1>1, <1>6, <2>1, FS_Injection DEF N
<1> DEFINE o == [i \in 1 .. N |-> CHOOSE r \in rows : rank[r] = i]
<1>8. \A i \in 1 .. N : o[i] \in rows /\ rank[o[i]] = i
    BY <1>7 DEF Surjection
<1>9. ASSUME NEW i \in 1 .. N, NEW j \in 1 .. N, i < j
      PROVE  o[i] # o[j] /\ ~Ahead(p.sort, o[j], o[i])
    <2> HIDE DEF o
    <2>1. rank[o[i]] < rank[o[j]] /\ rank[o[i]] \in Int /\ rank[o[j]] \in Int
        BY <1>1, <1>8, <1>9
    <2>2. ~Before(o[j], o[i])
        BY <1>5, <1>8, <2>1
    <2> QED BY <1>3, <1>8, <2>1, <2>2
<1>10. o \in [1 .. N -> rows] /\ DOMAIN o = 1 .. N
    BY <1>8
<1>11. o \in Orders(p)
    BY <1>9, <1>10 DEF Orders, N, rows
<1> QED BY <1>11

\* The place of an entry that is level with none is the number of those in
\* front of it, whatever the order Postgres happens to choose.
LEMMA PlaceIsRank ==
  ASSUME TypeOK, NEW p, NEW o \in Orders(p), NEW s, Placed(p, s),
         NEW j \in 1 .. Len(o), o[j] = s
  PROVE  /\ IsFiniteSet(InFront(p, s))
         /\ Cardinality(InFront(p, s)) = j - 1
<1> DEFINE before == 1 .. (j - 1)
           front == InFront(p, s)
           f == [i \in before |-> o[i]]
<1>1. s \in Matching(p) /\ s \in DOMAIN entries
    BY DEF Placed, Matching
<1>2. \A i \in before : i \in 1 .. Len(o) /\ i < j
    BY OrderFacts
<1>3. \A i \in before : o[i] \in front
    <2> TAKE i \in before
    <2>1. o[i] \in Matching(p) /\ o[i] # s /\ ~Ahead(p.sort, s, o[i])
        BY <1>2, OrderFacts
    <2> QED BY <2>1 DEF Placed, InFront
<1>4. \A t \in front : \E i \in before : o[i] = t
    <2> TAKE t \in front
    <2>1. t \in Matching(p) /\ Ahead(p.sort, t, s)
        BY DEF InFront
    <2>2. PICK i \in 1 .. Len(o) : o[i] = t
        BY <2>1, OrderFacts
    <2>3. i # j
        BY <1>1, <2>1, <2>2, AheadIrreflexive
    <2>4. ~(j < i)
        BY <2>1, <2>2, OrderFacts
    <2> QED BY <2>2, <2>3, <2>4
<1>5. f \in Bijection(before, front)
    <2>1. \A a, b \in before : f[a] = f[b] => a = b
        BY <1>2, OrderFacts
    <2>2. f \in [before -> front]
        BY <1>3
    <2>3. \A t \in front : \E i \in before : f[i] = t
        BY <1>4
    <2> HIDE DEF f, before, front
    <2> QED BY <2>1, <2>2, <2>3 DEF Bijection, Injection, IsInjective, Surjection
<1>6. IsFiniteSet(before) /\ Cardinality(before) = j - 1
    <2>1. 1 \in Int /\ j - 1 \in Int
        OBVIOUS
    <2>2. /\ IsFiniteSet(1 .. (j - 1))
          /\ Cardinality(1 .. (j - 1)) = IF 1 > j - 1 THEN 0 ELSE j - 1 - 1 + 1
        BY <2>1, FS_Interval, Zenon
    <2>3. j \in Nat
        BY OrderFacts
    <2> QED BY <2>2, <2>3
<1> QED BY <1>5, <1>6, FS_Bijection DEF ExistsBijection

\* A page is what its order holds from the offset on.
LEMMA PageFacts ==
  ASSUME TypeOK, NEW p \in Param, NEW n \in Nat, NEW page \in Pages(p, n)
  PROVE  /\ page \in Seq(Slugs) /\ Len(page) \in Nat
         /\ \E o \in Orders(p) :
              /\ page = <<>> => Len(o) <= n
              /\ \A k \in 1 .. Len(page) : n + k \in 1 .. Len(o) /\ page[k] = o[n + k]
              /\ n + Len(page) < Len(o) => Len(page) = Limit(p)
              /\ Len(o) <= n => Len(page) = 0
              /\ n < Len(o) => n + Len(page) <= Len(o)
              /\ \A j \in 1 .. Len(o) : j > n /\ j <= n + Len(page) => page[j - n] = o[j]
<1>1. Skipped(n) = n
    <2>1. n \in Int /\ 0 \in Int
        OBVIOUS
    <2>2. Max({n, 0}) = IF n <= 0 THEN 0 ELSE n
        BY <2>1, TwoExtremes, Zenon
    <2> QED BY <2>2 DEF Skipped
<1>2. PICK o \in Orders(p) : page = SubSeq(o, n + 1, Min({n + Limit(p), Len(o)}))
    BY <1>1 DEF Pages
<1> DEFINE m == Min({n + Limit(p), Len(o)})
<1>3. Len(o) \in Nat /\ Limit(p) \in Nat /\ Limit(p) >= 1
    BY OrderFacts, LimitIsPositive
<1>4. m = IF n + Limit(p) <= Len(o) THEN n + Limit(p) ELSE Len(o)
    BY <1>3, TwoExtremes
<1>5. page = SubSeq(o, n + 1, m)
    BY <1>2
<1> HIDE DEF m
<1>6. m \in Int /\ m <= Len(o)
    BY <1>3, <1>4
<1>7. \A i \in n + 1 .. m : o[i] \in Slugs
    BY <1>3, <1>6, OrderFacts, MatchingFinite
<1>8. /\ page \in Seq(Slugs)
      /\ Len(page) = IF n + 1 <= m THEN m - n ELSE 0
      /\ \A k \in 1 .. m - n : page[k] = o[n + k]
    <2>1. /\ SubSeq(o, n + 1, m) \in Seq(Slugs)
          /\ Len(SubSeq(o, n + 1, m)) = IF n + 1 <= m THEN m - (n + 1) + 1 ELSE 0
          /\ \A i \in 1 .. m - (n + 1) + 1 : SubSeq(o, n + 1, m)[i] = o[n + 1 + i - 1]
        BY <1>6, <1>7, SubSeqProperties
    <2> QED BY <1>5, <1>6, <2>1
<1>9. page = <<>> => Len(o) <= n
    BY <1>3, <1>4, <1>8
<1>10. Len(page) \in Nat
    BY <1>8
<1>11. \A k \in 1 .. Len(page) : n + k \in 1 .. Len(o) /\ page[k] = o[n + k]
    BY <1>3, <1>6, <1>8
<1>12. \A j \in 1 .. Len(o) : j > n /\ j <= n + Len(page) => page[j - n] = o[j]
    BY <1>3, <1>6, <1>8
<1>13. /\ n + Len(page) < Len(o) => Len(page) = Limit(p)
       /\ Len(o) <= n => Len(page) = 0
       /\ n < Len(o) => n + Len(page) <= Len(o)
    BY <1>3, <1>4, <1>8
<1> QED BY <1>8, <1>9, <1>10, <1>11, <1>12, <1>13

-----------------------------------------------------------------------------
(* What the walk keeps to.                                                 *)

Shown(s) == \E i \in 1 .. Len(walk.shown) : walk.shown[i] = s

\* An entry nothing has left the front of was shown, or is still to come:
\* more are in front of it than there are rows that the reader has.
StillToCome ==
  Walking => \A s \in firm :
    /\ Placed(walk.params, s)
    /\ Shown(s) \/ Cardinality(InFront(walk.params, s)) >= Len(walk.shown)

\* An entry nothing has got in front of, once shown, stays among the rows
\* that the reader has.
WentBy ==
  Walking => \A s \in unpushed :
    /\ Placed(walk.params, s)
    /\ \A i \in 1 .. Len(walk.shown) : walk.shown[i] = s =>
         Cardinality(InFront(walk.params, s)) < i

\* updated_at is when the write that landed last began, at or before it landed.
Dated ==
  \A s \in DOMAIN entries :
    entries[s].updated_at = landed[s].begun /\ landed[s].begun <= landed[s].at

WalkInv ==
  StillToCome /\ WentBy /\ WalkMissesNothingFirm /\ WalkRepeatsNothingUnpushed

Inv == TypeOK /\ Opened /\ Dated /\ WalkInv

LEMMA FrontFinite ==
  ASSUME TypeOK, NEW p, NEW s
  PROVE  IsFiniteSet(InFront(p, s)) /\ Cardinality(InFront(p, s)) \in Nat
<1>1. InFront(p, s) \subseteq Matching(p)
    BY DEF InFront
<1> QED BY <1>1, MatchingFinite, FS_Subset, FS_CardinalityType

\* A write that leaves the place of an entry no nearer to the front.
LEMMA WriteWalk ==
  ASSUME TypeOK, TypeOK', Write, WalkInv
  PROVE  WalkInv'
<1>1. walk' = walk /\ firm' \subseteq firm /\ unpushed' \subseteq unpushed
    BY WriteTypes
<1>2. PICK p : p = walk.params
    OBVIOUS
<1>3. Walking =>
        /\ \A s \in firm' : Placed(p, s)' /\ InFront(p, s) \subseteq InFront(p, s)'
        /\ \A s \in unpushed' : Placed(p, s)' /\ InFront(p, s)' \subseteq InFront(p, s)
    BY <1>1, <1>2 DEF Write, GoesBy
<1>4. \A s : /\ IsFiniteSet(InFront(p, s)) /\ Cardinality(InFront(p, s)) \in Nat
             /\ IsFiniteSet(InFront(p, s)') /\ Cardinality(InFront(p, s)') \in Nat
    <2> TAKE s
    <2>1. IsFiniteSet(InFront(p, s)) /\ Cardinality(InFront(p, s)) \in Nat
        BY FrontFinite
    <2>2. InFront(p, s)' \subseteq Matching(p)'
        BY DEF InFront
    <2>3. Matching(p)' \subseteq Slugs
        BY DEF Matching, TypeOK
    <2>4. IsFiniteSet(InFront(p, s)')
        BY <2>2, <2>3, ListingAssumption, FS_Subset
    <2> QED BY <2>1, <2>4, FS_CardinalityType
<1>5. Len(walk.shown) \in Nat
    BY DEF TypeOK
<1>6. StillToCome'
    <2> SUFFICES ASSUME Walking, NEW s \in firm'
                 PROVE  /\ Placed(p, s)'
                        /\ Shown(s) \/ Cardinality(InFront(p, s)') >= Len(walk.shown)
        BY <1>1, <1>2 DEF StillToCome, Walking, Shown
    <2>1. Shown(s) \/ Cardinality(InFront(p, s)) >= Len(walk.shown)
        BY <1>1, <1>2 DEF WalkInv, StillToCome
    <2>2. InFront(p, s) \subseteq InFront(p, s)' /\ Placed(p, s)'
        BY <1>3
    <2>3. Cardinality(InFront(p, s)) <= Cardinality(InFront(p, s)')
        BY <1>4, <2>2, FS_Subset
    <2> QED BY <1>4, <1>5, <2>1, <2>2, <2>3
<1>7. WentBy'
    <2> SUFFICES ASSUME Walking, NEW s \in unpushed'
                 PROVE  /\ Placed(p, s)'
                        /\ \A i \in 1 .. Len(walk.shown) : walk.shown[i] = s =>
                             Cardinality(InFront(p, s)') < i
        BY <1>1, <1>2 DEF WentBy, Walking
    <2>1. InFront(p, s)' \subseteq InFront(p, s) /\ Placed(p, s)'
        BY <1>3
    <2>2. Cardinality(InFront(p, s)') <= Cardinality(InFront(p, s))
        BY <1>4, <2>1, FS_Subset
    <2>3. ASSUME NEW i \in 1 .. Len(walk.shown), walk.shown[i] = s
          PROVE  Cardinality(InFront(p, s)') < i
        <3>1. Cardinality(InFront(p, s)) < i /\ i \in Nat
            BY <1>1, <1>2, <1>5, <2>3 DEF WalkInv, WentBy
        <3> QED BY <1>4, <2>2, <3>1
    <2> QED BY <2>1, <2>3
<1>8. WalkMissesNothingFirm'
    BY <1>1 DEF WalkInv, WalkMissesNothingFirm
<1>9. WalkRepeatsNothingUnpushed'
    BY <1>1 DEF WalkInv, WalkRepeatsNothingUnpushed
<1> QED BY <1>6, <1>7, <1>8, <1>9 DEF WalkInv

LEMMA StartWalkInv ==
  ASSUME TypeOK, WalkInv, NEW p \in Params, StartWalk(p)
  PROVE  WalkInv' /\ TypeOK'
<1>1. /\ walk' = [stage |-> "reading", params |-> p, shown |-> <<>>]
      /\ firm' = {s \in Slugs : Placed(p, s)}
      /\ unpushed' = {s \in Slugs : Placed(p, s)}
      /\ entries' = entries /\ versions' = versions /\ landed' = landed
      /\ now' = now /\ open' = open
    BY DEF StartWalk, library
<1>2. /\ walk'.stage = "reading" /\ walk'.params = p /\ walk'.shown = <<>>
      /\ Len(walk'.shown) = 0
    BY <1>1
<1>3. \A s : (Placed(p, s)' <=> Placed(p, s)) /\ InFront(p, s)' = InFront(p, s)
    BY <1>1 DEF Placed, InFront, Matching, Ahead, ByInstalls, ByRecency
<1>4. \A s : Cardinality(InFront(p, s)) \in Nat
    BY FrontFinite
<1>5. StillToCome' /\ WentBy'
    BY <1>1, <1>2, <1>3, <1>4 DEF StillToCome, WentBy
<1>6. WalkMissesNothingFirm' /\ WalkRepeatsNothingUnpushed'
    BY <1>2 DEF WalkMissesNothingFirm, WalkRepeatsNothingUnpushed
<1>7. TypeOK'
    BY <1>1, <1>2, ListingAssumption DEF TypeOK
<1> QED BY <1>5, <1>6, <1>7 DEF WalkInv

LEMMA ListInv ==
  ASSUME TypeOK, WalkInv, List
  PROVE  WalkInv' /\ TypeOK'
<1> DEFINE n == Len(walk.shown)
           p == walk.params
<1>1. Walking /\ n \in Nat /\ p \in Param /\ walk.shown \in Seq(Slugs)
    BY DEF List, TypeOK
<1>2. PICK page \in Pages(p, n) :
        walk' = [stage |-> IF page = <<>> THEN "done" ELSE "reading",
                 params |-> p, shown |-> walk.shown \o page]
    BY DEF List
<1>3. UNCHANGED <<library, now, open, firm, unpushed>>
    BY DEF List
<1>4. page \in Seq(Slugs) /\ Len(page) \in Nat
    BY <1>1, <1>2, PageFacts
<1>5. PICK o \in Orders(p) :
        /\ page = <<>> => Len(o) <= n
        /\ \A k \in 1 .. Len(page) : n + k \in 1 .. Len(o) /\ page[k] = o[n + k]
        /\ n + Len(page) < Len(o) => Len(page) = Limit(p)
        /\ Len(o) <= n => Len(page) = 0
        /\ n < Len(o) => n + Len(page) <= Len(o)
        /\ \A j \in 1 .. Len(o) : j > n /\ j <= n + Len(page) => page[j - n] = o[j]
    BY <1>1, <1>2, PageFacts
<1>6. /\ walk'.stage = IF page = <<>> THEN "done" ELSE "reading"
      /\ walk'.params = p /\ walk'.shown = walk.shown \o page
    BY <1>2
<1>7. /\ walk'.shown \in Seq(Slugs) /\ Len(walk'.shown) = n + Len(page)
      /\ \A i \in 1 .. n + Len(page) :
           walk'.shown[i] = IF i <= n THEN walk.shown[i] ELSE page[i - n]
    BY <1>1, <1>4, <1>6, ConcatProperties
<1>8. \A s : /\ (Placed(walk.params, s)' <=> Placed(p, s))
             /\ InFront(walk.params, s)' = InFront(p, s)
             /\ Cardinality(InFront(p, s)) \in Nat
    <2>1. PICK q : q = p
        OBVIOUS
    <2>2. entries' = entries /\ walk'.params = q
        BY <1>3, <1>6, <2>1 DEF library
    <2> TAKE s
    <2>3. (Placed(q, s)' <=> Placed(q, s)) /\ InFront(q, s)' = InFront(q, s)
        BY <2>2 DEF Placed, InFront, Matching, Ahead, ByInstalls, ByRecency
    <2>4. (Placed(walk.params, s)' <=> Placed(q, s)')
          /\ InFront(walk.params, s)' = InFront(q, s)'
        BY <2>2
    <2>5. Cardinality(InFront(q, s)) \in Nat
        BY FrontFinite
    <2> QED BY <2>1, <2>3, <2>4, <2>5
<1>9. Len(o) \in Nat
    BY OrderFacts
<1>10. \A s \in firm : Placed(p, s) /\ (Shown(s) \/ Cardinality(InFront(p, s)) >= n)
    BY <1>1 DEF WalkInv, StillToCome
<1>11. \A s \in unpushed : Placed(p, s) /\ \A i \in 1 .. n :
         walk.shown[i] = s => Cardinality(InFront(p, s)) < i
    BY <1>1 DEF WalkInv, WentBy
\* Where the entries of the page stand.
<1>12. ASSUME NEW s, Placed(p, s), NEW i \in n + 1 .. n + Len(page), walk'.shown[i] = s
       PROVE  i \in 1 .. Len(o) /\ o[i] = s /\ Cardinality(InFront(p, s)) = i - 1
    <2>1. i - n \in 1 .. Len(page) /\ i \in 1 .. n + Len(page) /\ ~(i <= n) /\ n + (i - n) = i
        BY <1>1, <1>4, <1>12
    <2>2. i \in 1 .. Len(o) /\ o[i] = s
        BY <1>5, <1>7, <1>12, <2>1
    <2> QED BY <1>12, <2>2, PlaceIsRank
\* An entry that is still to come is on the page, or after it.
<1>13. ASSUME NEW s \in firm
       PROVE  \/ \E i \in 1 .. n + Len(page) : walk'.shown[i] = s
              \/ page # <<>> /\ Cardinality(InFront(p, s)) >= n + Len(page)
    <2>1. CASE Shown(s)
        <3>1. PICK i \in 1 .. n : walk.shown[i] = s
            BY <2>1 DEF Shown
        <3>2. i \in 1 .. n + Len(page) /\ i <= n
            BY <1>1, <1>4
        <3>3. walk'.shown[i] = s
            BY <1>7, <3>1, <3>2
        <3> QED BY <3>2, <3>3
    <2>2. CASE Cardinality(InFront(p, s)) >= n
        <3>1. Placed(p, s) /\ s \in Matching(p)
            BY <1>10 DEF Placed
        <3>2. PICK j \in 1 .. Len(o) : o[j] = s
            BY <3>1, OrderFacts
        <3>3. Cardinality(InFront(p, s)) = j - 1
            BY <3>1, <3>2, PlaceIsRank
        <3>4. j > n /\ n < Len(o) /\ page # <<>>
            BY <1>1, <1>5, <1>9, <2>2, <3>3
        <3>5. CASE j <= n + Len(page)
            <4>1. j \in 1 .. n + Len(page) /\ ~(j <= n)
                BY <1>1, <1>4, <3>4, <3>5
            <4>2. walk'.shown[j] = page[j - n]
                BY <1>7, <4>1
            <4>3. page[j - n] = s
                BY <1>5, <3>2, <3>4, <3>5
            <4> QED BY <4>1, <4>2, <4>3
        <3>6. CASE j > n + Len(page)
            BY <1>1, <1>4, <3>3, <3>4, <3>6
        <3> QED BY <1>1, <1>4, <3>5, <3>6
    <2> QED BY <1>10, <2>1, <2>2
<1>14. ASSUME NEW s \in unpushed, NEW i \in 1 .. n + Len(page), walk'.shown[i] = s
       PROVE  Cardinality(InFront(p, s)) < i
    <2>1. CASE i <= n
        <3>1. i \in 1 .. n /\ walk.shown[i] = s
            BY <1>1, <1>7, <1>14, <2>1
        <3> QED BY <1>11, <3>1
    <2>2. CASE i > n
        <3>1. i \in n + 1 .. n + Len(page)
            BY <1>1, <1>4, <2>2
        <3>2. Cardinality(InFront(p, s)) = i - 1
            BY <1>11, <1>12, <1>14, <3>1
        <3> QED BY <1>1, <3>1, <3>2
    <2> QED BY <1>1, <2>1, <2>2
<1>15. ASSUME NEW i \in 1 .. n + Len(page), NEW j \in 1 .. n + Len(page), i < j,
              walk'.shown[i] = walk'.shown[j]
       PROVE  walk'.shown[i] \notin unpushed
    <2> DEFINE s == walk'.shown[j]
    <2> SUFFICES ASSUME s \in unpushed PROVE FALSE
        BY <1>15
    <2>1. CASE j <= n
        <3>1. i \in 1 .. n /\ j \in 1 .. n /\ i # j
            BY <1>1, <1>15, <2>1
        <3>2. walk.shown[i] = walk.shown[j] /\ walk.shown[i] \in unpushed
            BY <1>1, <1>7, <1>15, <2>1
        <3>3. DOMAIN walk.shown = 1 .. n
            BY <1>1
        <3> QED BY <3>1, <3>2, <3>3 DEF WalkInv, WalkRepeatsNothingUnpushed
    <2>2. CASE j > n
        <3>1. j \in n + 1 .. n + Len(page)
            BY <1>1, <1>4, <2>2
        <3>2. Cardinality(InFront(p, s)) = j - 1
            BY <1>11, <1>12, <3>1
        <3>3. Cardinality(InFront(p, s)) < i
            BY <1>14, <1>15
        <3>4. i \in Int /\ j \in Int /\ i < j
            BY <1>15
        <3> HIDE DEF s
        <3> QED BY <3>2, <3>3, <3>4
    <2> QED BY <1>1, <2>1, <2>2
<1>16. firm' = firm /\ unpushed' = unpushed
    BY <1>3
<1>17. DOMAIN walk'.shown = 1 .. n + Len(page)
    BY <1>7
<1> HIDE DEF n, p
<1>18. StillToCome'
    <2> SUFFICES ASSUME NEW s \in firm
                 PROVE  /\ Placed(walk.params, s)'
                        /\ \/ \E i \in 1 .. Len(walk'.shown) : walk'.shown[i] = s
                           \/ Cardinality(InFront(walk.params, s)') >= Len(walk'.shown)
        BY <1>16 DEF StillToCome, Shown
    <2> QED BY <1>7, <1>8, <1>10, <1>13
<1>19. WentBy'
    <2> SUFFICES ASSUME NEW s \in unpushed
                 PROVE  /\ Placed(walk.params, s)'
                        /\ \A i \in 1 .. Len(walk'.shown) : walk'.shown[i] = s =>
                             Cardinality(InFront(walk.params, s)') < i
        BY <1>16 DEF WentBy
    <2> QED BY <1>7, <1>8, <1>11, <1>14
<1>20. WalkMissesNothingFirm'
    BY <1>6, <1>13, <1>16, <1>17 DEF WalkMissesNothingFirm
<1>21. WalkRepeatsNothingUnpushed'
    <2> SUFFICES ASSUME NEW i \in 1 .. n + Len(page), NEW j \in 1 .. n + Len(page),
                        walk'.shown[i] = walk'.shown[j], i # j
                 PROVE  walk'.shown[i] \notin unpushed
        BY <1>16, <1>17 DEF WalkRepeatsNothingUnpushed
    <2>1. i \in Int /\ j \in Int
        OBVIOUS
    <2>2. CASE i < j
        BY <1>15, <2>2
    <2>3. CASE j < i
        BY <1>15, <2>3
    <2> QED BY <2>1, <2>2, <2>3
<1>22. TypeOK'
    BY <1>1, <1>3, <1>6, <1>7, <1>16 DEF TypeOK, library
<1> QED BY <1>18, <1>19, <1>20, <1>21, <1>22 DEF WalkInv

\* Every commit dates its entry; nothing else touches the dates.
LEMMA DatesKept == ASSUME TypeOK, Opened, Dated, WriterStep PROVE Dated'
<1>1. ASSUME NEW w \in Writers, NEW s \in Slugs,
             NEW op \in {"create", "publish", "update"}, Begin(w, op, s)
      PROVE  Dated'
    BY <1>1 DEF Begin, library, Dated
<1> DEFINE DatedBy(w) ==
             /\ Lands(open[w].slug, w)
             /\ DOMAIN entries' = DOMAIN entries \cup {open[w].slug}
             /\ entries'[open[w].slug].updated_at = open[w].at
             /\ \A t \in DOMAIN entries \ {open[w].slug} : entries'[t] = entries[t]
<1>2. ASSUME NEW w \in Writers, open[w] # Null, DatedBy(w) PROVE Dated'
    <2> DEFINE s == open[w].slug
               d == [begun |-> open[w].at, at |-> now]
    <2>1. d.begun = open[w].at /\ d.begun <= d.at
        BY <1>2, OpenTypes
    <2> HIDE DEF d
    <2>2. landed' = [t \in DOMAIN landed \cup {s} |-> IF t = s THEN d ELSE landed[t]]
        BY <1>2 DEF Lands, d
    <2>3. DOMAIN landed = DOMAIN entries
        BY DEF TypeOK
    <2>4. landed'[s] = d
        BY <2>2
    <2>5. \A t \in DOMAIN entries \ {s} : landed'[t] = landed[t] /\ entries'[t] = entries[t]
        BY <1>2, <2>2, <2>3
    <2>6. entries'[s].updated_at = open[w].at /\ DOMAIN entries' = DOMAIN entries \cup {s}
        BY <1>2
    <2> HIDE DEF s
    <2> SUFFICES ASSUME NEW t \in DOMAIN entries'
                 PROVE  entries'[t].updated_at = landed'[t].begun
                        /\ landed'[t].begun <= landed'[t].at
        BY DEF Dated
    <2>7. CASE t = s
        BY <2>1, <2>4, <2>6, <2>7
    <2>8. CASE t # s
        BY <2>5, <2>6, <2>8 DEF Dated
    <2> QED BY <2>7, <2>8
<1> HIDE DEF DatedBy
<1>3. ASSUME NEW w \in Writers, open[w] # Null, NEW tagged \in BOOLEAN, CommitCreate(w, tagged)
      PROVE  Dated'
    <2>1. DatedBy(w)
        BY <1>3 DEF CommitCreate, DatedBy
    <2> QED BY <1>2, <1>3, <2>1
<1>4. ASSUME NEW w \in Writers, open[w] # Null, CommitPublish(w) PROVE Dated'
    <2>1. open[w].slug \in DOMAIN entries
        BY <1>4, OpenTypes DEF CommitPublish
    <2>2. entries' = [entries EXCEPT ![open[w].slug] =
                        Relisted(entries[open[w].slug], open[w].at)]
          /\ Lands(open[w].slug, w)
        BY <1>4 DEF CommitPublish
    <2>3. Relisted(entries[open[w].slug], open[w].at).updated_at = open[w].at
        BY DEF Relisted
    <2>4. DatedBy(w)
        BY <2>1, <2>2, <2>3 DEF DatedBy, TypeOK
    <2> QED BY <1>2, <1>4, <2>4
<1>5. ASSUME NEW w \in Writers, open[w] # Null, NEW tagged \in BOOLEAN, CommitUpdate(w, tagged)
      PROVE  Dated'
    <2>1. open[w].slug \in DOMAIN entries
        BY <1>5, OpenTypes DEF CommitUpdate
    <2>2. entries' = [entries EXCEPT ![open[w].slug] =
                        Amended(entries[open[w].slug], open[w].at, tagged)]
          /\ Lands(open[w].slug, w)
        BY <1>5 DEF CommitUpdate
    <2>3. Amended(entries[open[w].slug], open[w].at, tagged).updated_at = open[w].at
        BY DEF Amended
    <2>4. DatedBy(w)
        BY <2>1, <2>2, <2>3 DEF DatedBy, TypeOK
    <2> QED BY <1>2, <1>5, <2>4
<1>6. ASSUME NEW w \in Writers, RollBack(w) PROVE Dated'
    BY <1>6 DEF RollBack, library, Dated
<1>7. ASSUME landed' = landed, DOMAIN entries' = DOMAIN entries,
             \A t \in DOMAIN entries : entries'[t].updated_at = entries[t].updated_at
      PROVE  Dated'
    BY <1>7 DEF Dated
<1>8. ASSUME NEW s \in DOMAIN entries, Unlist(s) PROVE Dated'
    BY <1>7, <1>8 DEF Unlist, Statement, TypeOK, Row
<1>9. ASSUME NEW s \in DOMAIN entries, SetOfficial(s) PROVE Dated'
    BY <1>7, <1>9 DEF SetOfficial, Statement, TypeOK, Row
<1>10. ASSUME NEW s \in DOMAIN entries, NEW n, Installed(s, n) PROVE Dated'
    BY <1>7, <1>10 DEF Installed, Statement, TypeOK, Row
<1>11. ASSUME NEW s \in DOMAIN entries, NEW n \in DOMAIN versions[s], Withdraw(s, n)
       PROVE  Dated'
    BY <1>7, <1>11 DEF Withdraw, Statement
<1> QED
    BY <1>1, <1>3, <1>4, <1>5, <1>6, <1>8, <1>9, <1>10, <1>11 DEF WriterStep

LEMMA StutterWalk ==
  ASSUME WalkInv, UNCHANGED <<entries, walk, firm, unpushed>>
  PROVE  WalkInv'
<1>1. PICK q : q = walk.params
    OBVIOUS
<1>2. /\ entries' = entries /\ walk' = walk /\ walk'.params = q
      /\ firm' = firm /\ unpushed' = unpushed
    BY <1>1
<1>3. \A s : (Placed(q, s)' <=> Placed(q, s)) /\ InFront(q, s)' = InFront(q, s)
    BY <1>2 DEF Placed, InFront, Matching, Ahead, ByInstalls, ByRecency
<1>4. \A s : /\ Placed(walk.params, s)' <=> Placed(walk.params, s)
             /\ InFront(walk.params, s)' = InFront(walk.params, s)
    <2> TAKE s
    <2>1. (Placed(walk.params, s)' <=> Placed(q, s)')
          /\ InFront(walk.params, s)' = InFront(q, s)'
        BY <1>2
    <2> QED BY <1>1, <1>3, <2>1
<1>5. StillToCome'
    BY <1>2, <1>4 DEF WalkInv, StillToCome, Walking, Shown
<1>6. WentBy'
    BY <1>2, <1>4 DEF WalkInv, WentBy, Walking
<1>7. WalkMissesNothingFirm' /\ WalkRepeatsNothingUnpushed'
    BY <1>2 DEF WalkInv, WalkMissesNothingFirm, WalkRepeatsNothingUnpushed
<1> QED BY <1>5, <1>6, <1>7 DEF WalkInv

\* A step of a writer goes by the walk, or leaves all the walk depends on.
LEMMA WriterWalk ==
  ASSUME TypeOK, TypeOK', WriterStep, WalkInv
  PROVE  WalkInv' /\ walk' = walk
<1>1. CASE Write
    BY <1>1, WriteWalk, WriteTypes
<1>2. CASE UNCHANGED <<entries, walk, firm, unpushed>>
    BY <1>2, StutterWalk
<1>3. Write \/ UNCHANGED <<entries, walk, firm, unpushed>>
    BY DEF WriterStep, Begin, RollBack, CommitCreate, CommitPublish, CommitUpdate,
       Unlist, SetOfficial, Installed, Withdraw, Statement, library
<1> QED BY <1>1, <1>2, <1>3

-----------------------------------------------------------------------------
(* The theorems.                                                           *)

\* Inv is inductive: types, dates, and what the walk keeps to.
THEOREM Inductive == Spec => []Inv
<1>1. Init => Inv
    <2> SUFFICES ASSUME Init PROVE Inv
        OBVIOUS
    <2>1. TypeOK /\ Opened
        BY InitTypes
    <2>2. /\ walk.stage = "idle" /\ walk.shown = <<>> /\ Dated
        BY DEF Init, Dated
    <2>3. WalkInv
        BY <2>2 DEF WalkInv, StillToCome, WentBy, Walking,
           WalkMissesNothingFirm, WalkRepeatsNothingUnpushed
    <2> QED BY <2>1, <2>2, <2>3 DEF Inv
<1>2. Inv /\ [Next]_listingVars => Inv'
    <2> SUFFICES ASSUME Inv, [Next]_listingVars PROVE Inv'
        OBVIOUS
    <2> USE DEF Inv
    <2>1. CASE WriterStep
        BY <2>1, WriterTypes, DatesKept, WriterWalk
    <2>2. ASSUME NEW p \in Params, StartWalk(p) PROVE Inv'
        <3>1. TypeOK' /\ WalkInv'
            BY <2>2, StartWalkInv
        <3>2. Opened' /\ Dated'
            BY <2>2 DEF StartWalk, library, Opened, Dated
        <3> QED BY <3>1, <3>2
    <2>3. CASE List
        <3>1. TypeOK' /\ WalkInv'
            BY <2>3, ListInv
        <3>2. Opened' /\ Dated'
            BY <2>3 DEF List, library, Opened, Dated
        <3> QED BY <3>1, <3>2
    <2>4. CASE UNCHANGED listingVars
        <3>1. WalkInv'
            BY <2>4, StutterWalk DEF listingVars
        <3>2. TypeOK' /\ Opened' /\ Dated'
            BY <2>4 DEF listingVars, TypeOK, Opened, Dated
        <3> QED BY <3>1, <3>2
    <2> QED BY <2>1, <2>2, <2>3, <2>4 DEF Next
<1> QED BY <1>1, <1>2, PTL DEF Spec

\* Every variable keeps its type, and no entry is without a version.
THEOREM TypeCorrect == Spec => []TypeOK
<1>1. Inv => TypeOK
    BY DEF Inv
<1> QED BY <1>1, Inductive, PTL

\* A walk through the pages misses no entry that nothing has left the front
\* of, for any library, limit and queries, and any ties among the others.
THEOREM WalksMissNothing == Spec => []WalkMissesNothingFirm
<1>1. Inv => WalkMissesNothingFirm
    BY DEF Inv, WalkInv
<1> QED BY <1>1, Inductive, PTL

\* It shows no entry twice that nothing has got in front of.
THEOREM WalksRepeatNothing == Spec => []WalkRepeatsNothingUnpushed
<1>1. Inv => WalkRepeatsNothingUnpushed
    BY DEF Inv, WalkInv
<1> QED BY <1>1, Inductive, PTL

\* What landed later is newer in the order of ?sort=recent.
THEOREM LaterStandsNewer == Spec => []LaterIsNewer
<1>1. Inv => LaterIsNewer
    <2> SUFFICES ASSUME Inv, NEW s \in DOMAIN entries, NEW t \in DOMAIN entries,
                        landed[s].begun > landed[t].at
                 PROVE  entries[s].updated_at > entries[t].updated_at
        BY DEF LaterIsNewer
    <2>1. /\ entries[s].updated_at = landed[s].begun
          /\ entries[t].updated_at = landed[t].begun /\ landed[t].begun <= landed[t].at
        BY DEF Inv, Dated
    <2>2. {landed[s].begun, landed[t].begun, landed[t].at} \subseteq Nat
        BY DEF Inv, TypeOK
    <2> QED BY <2>1, <2>2
<1> QED BY <1>1, Inductive, PTL

\* The first page of a default listing stands for the installs: for any
\* library and limit, whatever was published, amended or relisted.
THEOREM FirstPagesAreEarned == Spec => FirstPageIsEarned
<1> DEFINE Earned ==
      walk.stage = "reading" /\ walk.shown = <<>> /\ walk.params.sort = "installs" =>
       \A i \in DOMAIN walk'.shown : \A t \in Matching(walk.params) :
         LET s == walk'.shown[i] IN
         entries[s].installs < entries[t].installs /\ ~entries[s].official =>
           \E j \in 1 .. i : walk'.shown[j] = t
<1>1. Inv /\ [Next]_listingVars => [Earned]_walk
    <2> SUFFICES ASSUME TypeOK, Inv, [Next]_listingVars, walk' # walk,
                        walk.stage = "reading", walk.shown = <<>>,
                        walk.params.sort = "installs"
                 PROVE  \A i \in DOMAIN walk'.shown : \A t \in Matching(walk.params) :
                          LET s == walk'.shown[i] IN
                          entries[s].installs < entries[t].installs /\ ~entries[s].official =>
                            \E j \in 1 .. i : walk'.shown[j] = t
        BY DEF Inv
    <2>1. ~WriterStep
        <3>1. WriterStep => walk' = walk
            BY WriterWalk, WriterTypes DEF Inv
        <3> QED BY <3>1
    <2>2. List
        BY <2>1 DEF Next, StartWalk, listingVars
    <2>0. PICK p : p = walk.params
        OBVIOUS
    <2>3. p \in Param /\ p.sort = "installs" /\ Len(walk.shown) = 0
        BY <2>0 DEF TypeOK
    <2>4. PICK page \in Pages(p, 0) : walk'.shown = walk.shown \o page
        BY <2>0, <2>2, <2>3 DEF List
    <2>5. page \in Seq(Slugs) /\ Len(page) \in Nat
        BY <2>3, <2>4, PageFacts
    <2>6. walk'.shown = page
        BY <2>4, <2>5, ConcatEmptySeq
    <2>7. PICK o \in Orders(p) :
            /\ \A k \in 1 .. Len(page) : 0 + k \in 1 .. Len(o) /\ page[k] = o[0 + k]
            /\ \A j \in 1 .. Len(o) : j > 0 /\ j <= 0 + Len(page) => page[j - 0] = o[j]
        BY <2>3, PageFacts
    <2> SUFFICES ASSUME NEW i \in 1 .. Len(page), NEW t \in Matching(p),
                        entries[page[i]].installs < entries[t].installs,
                        ~entries[page[i]].official
                 PROVE  \E j \in 1 .. i : page[j] = t
        BY <2>0, <2>5, <2>6
    <2>8. i \in 1 .. Len(o) /\ page[i] = o[i]
        BY <2>5, <2>7
    <2>9. PICK j \in 1 .. Len(o) : o[j] = t
        BY OrderFacts
    <2>10. o[i] \in Matching(p)
        BY <2>8, OrderFacts
    <2>11. /\ entries[o[i]].installs \in Nat /\ entries[t].installs \in Nat
           /\ entries[t].official \in BOOLEAN /\ entries[o[i]].official \in BOOLEAN
        BY <2>10 DEF Matching, TypeOK, Row
    <2>12. Ahead(p.sort, t, o[i])
        BY <2>3, <2>8, <2>11 DEF Ahead, ByInstalls
    <2>13. ~(i < j) /\ i # j
        <3>1. i # j
            BY <2>8, <2>9, <2>11
        <3>2. i < j => ~Ahead(p.sort, o[j], o[i])
            BY <2>8, <2>9, OrderFacts
        <3> QED BY <2>9, <2>12, <3>1, <3>2
    <2>14. j \in 1 .. i /\ j <= Len(page)
        BY <2>5, <2>13, OrderFacts
    <2> QED BY <2>5, <2>7, <2>9, <2>14
<1>2. [][Earned]_walk => FirstPageIsEarned
    BY PTL DEF FirstPageIsEarned
<1> QED BY <1>1, <1>2, Inductive, PTL DEF Spec

\* What is published and not withdrawn is advertised, or something newer is,
\* however many publishes, amendments and withdrawals there have been.
THEOREM PublicationsAreAdvertised == Spec => []PublishedIsAdvertised
<1>1. Inv => PublishedIsAdvertised
    <2> SUFFICES ASSUME TypeOK, NEW s \in DOMAIN entries, entries[s].listed
                 PROVE  /\ Detail(s) # Null
                        /\ \A n \in DOMAIN versions[s] : ~versions[s][n].withdrawn =>
                             Detail(s) >= n /\ ~versions[s][Detail(s)].withdrawn
        BY DEF Inv, PublishedIsAdvertised
    <2> DEFINE current == {n \in DOMAIN versions[s] : ~versions[s][n].withdrawn}
    <2>1. Detail(s) = Latest(s)
        BY DEF Detail
    <2>2. Latest(s) \in current \cup {0} /\ \A n \in current : n <= Latest(s)
        BY LatestIsLast
    <2>3. DOMAIN versions[s] \subseteq Int /\ \A n \in DOMAIN versions[s] : n >= 1
        BY DEF TypeOK
    <2>4. Latest(s) \in Int
        BY <2>2, <2>3
    <2>5. Latest(s) # Null
        BY <2>4, ListingAssumption
    <2>6. ASSUME NEW n \in current PROVE Latest(s) >= n /\ Latest(s) \in current
        BY <2>2, <2>3, <2>4, <2>6
    <2> QED BY <2>1, <2>5, <2>6
<1> QED BY <1>1, Inductive, PTL

\* A listing has an answer, whatever the query, the offset and the ties: the
\* walks of the theorems above never come to a standstill.
THEOREM QueriesAreAnswered ==
  Spec => [](\A p \in Param, offset \in Int : Pages(p, offset) # {})
<1>1. Inv => \A p \in Param, offset \in Int : Pages(p, offset) # {}
    BY OrderExists DEF Inv, Pages
<1> QED BY <1>1, Inductive, PTL
=============================================================================
