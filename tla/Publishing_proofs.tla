------------------------- MODULE Publishing_proofs -------------------------
(***************************************************************************)
(* Proofs about Publishing, for any number of requests, publishers and     *)
(* slugs: the type invariant and the safety invariants of the publishing   *)
(* runs.  They all follow from one inductive invariant, IInv, which says   *)
(* what a request knows at each stage (RequestOK), that open transactions  *)
(* exclude one another (Exclusive) and who wrote what is there (Authored). *)
(*                                                                         *)
(* At the end: Publishing implements Library.  An initial state reads as   *)
(* an initial library, and every statement of a request as one step of it  *)
(* or as none.  The steps that do something are the two commits, the       *)
(* single-statement writes and the operator's badge.                       *)
(***************************************************************************)
EXTENDS Publishing, TLAPS, Sequences

-----------------------------------------------------------------------------
(* The inductive invariant.                                                *)

\* The stages from which an update of a workflow the caller owns follows.
Owning(r) ==
  \/ pc[r] \in {"max", "insert_version", "relist", "update", "unlist"}
  \/ pc[r] = "commit" /\ request[r].op = "publish"

\* A version row of r is inserted and not committed.
Inserting(r) == request[r].op = "publish" /\ pc[r] \in {"relist", "commit"}

\* Which operation a stage belongs to.
StageFits(r) ==
  /\ pc[r] \in {"cap", "insert_workflow", "insert_first"} =>
       request[r].op = "create"
  /\ pc[r] = "auth" => request[r].op \in Writes
  /\ pc[r] = "own" => request[r].op \in {"publish", "update", "unlist"}
  /\ pc[r] \in {"max", "insert_version", "relist"} => request[r].op = "publish"
  /\ pc[r] = "commit" => request[r].op \in {"create", "publish"}
  /\ pc[r] = "update" => request[r].op = "update"
  /\ pc[r] = "unlist" => request[r].op = "unlist"
  /\ pc[r] \in {"resolve", "document"} => request[r].op = "fetch"

\* What r has read still says of the tables what it needs.
Knows(r) ==
  LET s == request[r].slug IN
  /\ base[r] <= TopVersion(s)
  /\ Owning(r) => Owns(request[r].publisher, s)
  /\ HoldsSlug(r, s) => s \notin DOMAIN workflows
  /\ pc[r] = "commit" /\ request[r].op = "create" => num[r] = 1
  /\ pc[r] = "insert_version" => num[r] \in 1 .. TopVersion(s) + 1 /\ num[r] > base[r]
  /\ Inserting(r) => num[r] = TopVersion(s) + 1
  /\ request[r].op = "fetch" /\ pc[r] # "new" => num[r] >= 1

\* What the answer given to r promised.
Kept(r) ==
  LET s == request[r].slug IN
  /\ Applied(r) /\ request[r].op \in {"create", "publish"} =>
       [slug |-> s, version |-> num[r], doc |-> r] \in versions
  /\ pc[r] = "conflict" /\ request[r].op = "publish" =>
       num[r] \in 1 .. TopVersion(s) /\ num[r] > base[r]
  /\ pc[r] = "not_found" /\ request[r].op = "fetch" => num[r] > base[r]

RequestOK(r) == StageFits(r) /\ Knows(r) /\ Kept(r)

\* Two open transactions never hold the same slug or the same version.
Exclusive ==
  \A r, q \in Requests :
    r # q /\ request[r].slug = request[q].slug =>
      /\ ~(HoldsSlug(r, request[r].slug) /\ HoldsSlug(q, request[q].slug))
      /\ ~(Inserting(r) /\ Inserting(q))

\* Whatever r wrote is in an entry of its own publisher and is committed.
Authored ==
  /\ \A v \in versions :
       v.doc # Seeded =>
         Applied(v.doc) /\ request[v.doc].publisher = workflows[v.slug].publisher
  /\ \A s \in DOMAIN workflows, f \in Fields :
       LET author == workflows[s].label[f] IN
       author # Seeded =>
         Applied(author) /\ request[author].publisher = workflows[s].publisher

\* Without it NoGaps would say nothing: the maximum has to be a number.
Counted == \A s \in Slugs : TopVersion(s) \in Nat

IInv ==
  /\ TypeOK
  /\ Counted
  /\ NoGaps
  /\ \A r \in Requests : RequestOK(r)
  /\ Exclusive
  /\ Authored

-----------------------------------------------------------------------------
(* The numbering of versions.                                              *)

\* The maximum over 1 .. k and the 0 of COALESCE is k.
LEMMA MaxOfRange == \A k \in Nat : Max((1 .. k) \cup {0}) = k
<1> SUFFICES ASSUME NEW k \in Nat PROVE Max((1 .. k) \cup {0}) = k
    OBVIOUS
<1> DEFINE S == (1 .. k) \cup {0}
<1>1. k \in S /\ \A y \in S : k >= y
    OBVIOUS
<1>2. \A x \in S : (\A y \in S : x >= y) => x = k
    BY <1>1
<1> HIDE DEF S
<1>3. Max(S) = k
    BY <1>1, <1>2 DEF Max
<1> QED BY <1>3 DEF S

\* Contiguous numbering determines the highest version.
LEMMA TopOfRange ==
  ASSUME NEW s, NEW k \in Nat, VersionNumbers(s) = 1 .. k
  PROVE  TopVersion(s) = k
BY MaxOfRange DEF TopVersion

LEMMA SameVersions ==
  ASSUME UNCHANGED versions
  PROVE  \A s : VersionNumbers(s)' = VersionNumbers(s) /\ TopVersion(s)' = TopVersion(s)
BY DEF VersionNumbers, TopVersion

\* A new row adds its number to its slug and to no other.
LEMMA AddedNumber ==
  ASSUME NEW s, NEW n, NEW d,
         versions' = versions \cup {[slug |-> s, version |-> n, doc |-> d]}
  PROVE  /\ VersionNumbers(s)' = VersionNumbers(s) \cup {n}
         /\ \A t : t # s => VersionNumbers(t)' = VersionNumbers(t)
<1> DEFINE row == [slug |-> s, version |-> n, doc |-> d]
<1>1. row.slug = s /\ row.version = n
    OBVIOUS
<1>2. \A t, m : m \in VersionNumbers(t) <=> \E v \in versions : v.slug = t /\ v.version = m
    BY DEF VersionNumbers
<1>3. \A t, m : m \in VersionNumbers(t)' <=> \E v \in versions' : v.slug = t /\ v.version = m
    BY DEF VersionNumbers
<1> HIDE DEF row
<1>4. versions' = versions \cup {row}
    BY DEF row
<1>5. \A t, m : m \in VersionNumbers(t)' <=> m \in VersionNumbers(t) \/ (t = s /\ m = n)
    BY <1>1, <1>2, <1>3, <1>4
<1> QED BY <1>5

-----------------------------------------------------------------------------
(* Steps that leave the tables alone.                                      *)

\* A request that moves on and leaves the tables as they are disturbs nothing
\* but its own part of the invariant and the exclusion of the others.
LEMMA QuietStep ==
  ASSUME IInv, NEW r \in Requests, NEW stage \in {"new"} \cup Waiting \cup Final,
         UNCHANGED <<tables, request>>,
         pc' = [pc EXCEPT ![r] = stage],
         num' \in [Requests -> Nat], base' \in [Requests -> Nat],
         \A q \in Requests \ {r} : num'[q] = num[q] /\ base'[q] = base[q],
         RequestOK(r)',
         Applied(r) => Applied(r)',
         \A q \in Requests \ {r} : request[q].slug = request[r].slug =>
            /\ HoldsSlug(r, request[r].slug)' => ~HoldsSlug(q, request[q].slug)
            /\ Inserting(r)' => ~Inserting(q)
  PROVE  IInv'
<1>1. \A s : VersionNumbers(s)' = VersionNumbers(s) /\ TopVersion(s)' = TopVersion(s)
    BY SameVersions DEF tables
<1>2. TypeOK'
    BY DEF IInv, TypeOK, tables
<1>3. Counted' /\ NoGaps'
    BY <1>1 DEF IInv, Counted, NoGaps, tables
<1>4. \A q \in Requests : RequestOK(q)'
    <2> SUFFICES ASSUME NEW q \in Requests \ {r} PROVE RequestOK(q)'
        OBVIOUS
    <2>1. RequestOK(q) /\ pc'[q] = pc[q] /\ num'[q] = num[q] /\ base'[q] = base[q]
        BY DEF IInv, TypeOK
    <2>2. StageFits(q)'
        BY <2>1 DEF RequestOK, StageFits, tables
    <2>3. Knows(q)'
        BY <2>1, <1>1 DEF RequestOK, Knows, tables, Owning, Owns, HoldsSlug, Inserting
    <2>4. Kept(q)'
        BY <2>1, <1>1 DEF RequestOK, Kept, tables, Applied
    <2> QED BY <2>2, <2>3, <2>4 DEF RequestOK
<1>5. Exclusive'
    BY DEF IInv, TypeOK, Exclusive, HoldsSlug, Inserting
<1>6. Authored'
    BY DEF IInv, TypeOK, Authored, Applied, tables, Row, VersionRow, Ids
<1> QED BY <1>2, <1>3, <1>4, <1>5, <1>6 DEF IInv

\* The same for a step that changes the stage only, and into a stage in which
\* nothing is held that was not held before.
LEMMA ProceedStep ==
  ASSUME IInv, NEW r \in Requests, NEW stage \in {"new"} \cup Waiting \cup Final,
         Proceed(r, stage),
         StageFits(r)', Knows(r)', Kept(r)',
         stage \notin {"insert_first", "relist", "commit"},
         Applied(r) => Applied(r)'
  PROVE  IInv'
<1>1. /\ pc' = [pc EXCEPT ![r] = stage]
      /\ UNCHANGED <<tables, request>> /\ UNCHANGED <<num, base>>
    BY DEF Proceed, Move
<1>2. num' \in [Requests -> Nat] /\ base' \in [Requests -> Nat]
    BY <1>1 DEF IInv, TypeOK
<1>3. pc'[r] = stage
    BY <1>1 DEF IInv, TypeOK
<1>4. ~HoldsSlug(r, request[r].slug)' /\ ~Inserting(r)'
    BY <1>3 DEF HoldsSlug, Inserting
<1> QED BY <1>1, <1>2, <1>4, QuietStep DEF RequestOK

LEMMA AuthenticateStep ==
  ASSUME IInv, NEW r \in Requests, Authenticate(r)
  PROVE  IInv'
<1>1. PICK stage \in {"cap", "own", "forbidden"} :
        /\ Proceed(r, stage)
        /\ stage = "cap" => request[r].op = "create"
        /\ stage = "own" => request[r].op # "create"
    BY DEF Authenticate
<1>2. /\ pc[r] = "auth" /\ pc'[r] = stage /\ RequestOK(r)
      /\ UNCHANGED <<tables, request, num, base>>
    BY <1>1 DEF IInv, TypeOK, Authenticate, Proceed, Move
<1>3. StageFits(r)'
    BY <1>1, <1>2 DEF RequestOK, StageFits, Writes
<1>4. Knows(r)'
    BY <1>1, <1>2, SameVersions DEF RequestOK, Knows, Owning, HoldsSlug, Inserting, tables
<1>5. Kept(r)'
    BY <1>1, <1>2, SameVersions DEF Kept, Applied, tables
<1> QED BY <1>1, <1>2, <1>3, <1>4, <1>5, ProceedStep DEF Waiting, Final, Applied

LEMMA RefuseBodyStep ==
  ASSUME IInv, NEW r \in Requests, RefuseBody(r)
  PROVE  IInv'
<1>1. /\ pc[r] \in {"cap", "own"} /\ pc'[r] = "bad_request" /\ RequestOK(r)
      /\ Proceed(r, "bad_request") /\ UNCHANGED <<tables, request, num, base>>
    BY DEF IInv, TypeOK, RefuseBody, Proceed, Move
<1>2. StageFits(r)'
    BY <1>1 DEF RequestOK, StageFits
<1>3. Knows(r)'
    BY <1>1, SameVersions DEF RequestOK, Knows, Owning, HoldsSlug, Inserting, tables
<1>4. Kept(r)'
    BY <1>1 DEF Kept, Applied
<1> QED BY <1>1, <1>2, <1>3, <1>4, ProceedStep DEF Waiting, Final, Applied

LEMMA CheckPublisherCapStep ==
  ASSUME IInv, NEW r \in Requests, CheckPublisherCap(r)
  PROVE  IInv'
<1>1. PICK stage \in {"insert_workflow", "forbidden"} :
        Proceed(r, stage)
    BY DEF CheckPublisherCap
<1>2. /\ pc'[r] = stage /\ RequestOK(r)
      /\ UNCHANGED <<tables, request, num, base>>
    BY <1>1 DEF IInv, TypeOK, Proceed, Move
<1>3. StageFits(r)'
    BY <1>1, <1>2 DEF CheckPublisherCap, RequestOK, StageFits, Writes
<1>4. Knows(r)'
    BY <1>1, <1>2, SameVersions DEF CheckPublisherCap, RequestOK, Knows, Owning, Owns,
       HoldsSlug, Inserting, StageFits, tables
<1>5. Kept(r)'
    BY <1>1, <1>2, SameVersions DEF CheckPublisherCap, RequestOK, Kept, StageFits, Applied,
       tables
<1> QED BY <1>1, <1>2, <1>3, <1>4, <1>5, ProceedStep DEF CheckPublisherCap, Waiting, Final, Applied

LEMMA OwnedWorkflowIdStep ==
  ASSUME IInv, NEW r \in Requests, OwnedWorkflowId(r)
  PROVE  IInv'
<1>1. PICK stage \in {"max", "update", "unlist", "not_found"} :
        /\ Proceed(r, stage) /\ RequestOK(r)
        /\ stage = "max" => request[r].op = "publish"
        /\ stage \in {"update", "unlist"} => request[r].op = stage
        /\ stage # "not_found" => Owns(request[r].publisher, request[r].slug)
    BY DEF IInv, OwnedWorkflowId, RequestOK, StageFits
<1>2. /\ pc'[r] = stage /\ RequestOK(r)
      /\ UNCHANGED <<tables, request, num, base>>
    BY <1>1 DEF IInv, TypeOK, Proceed, Move
<1>3. StageFits(r)'
    BY <1>1, <1>2 DEF OwnedWorkflowId, RequestOK, StageFits, Writes
<1>4. Knows(r)'
    BY <1>1, <1>2, SameVersions DEF OwnedWorkflowId, RequestOK, Knows, Owning, Owns,
       HoldsSlug, Inserting, StageFits, tables
<1>5. Kept(r)'
    BY <1>1, <1>2, SameVersions DEF OwnedWorkflowId, RequestOK, Kept, StageFits, Applied,
       tables
<1> QED BY <1>1, <1>2, <1>3, <1>4, <1>5, ProceedStep DEF OwnedWorkflowId, Waiting, Final, Applied

LEMMA NumberOfSlug ==
  ASSUME IInv, NEW r \in Requests
  PROVE  LET s == request[r].slug IN
         /\ s \in Slugs /\ TopVersion(s) \in Nat /\ num[r] \in Nat /\ base[r] \in Nat
         /\ VersionNumbers(s) = 1 .. TopVersion(s)
         /\ s \in DOMAIN workflows <=> TopVersion(s) >= 1
BY DEF IInv, TypeOK, Request, Counted, NoGaps

LEMMA ResolveSlugStep ==
  ASSUME IInv, NEW r \in Requests, ResolveSlug(r)
  PROVE  IInv'
<1>1. PICK stage \in {"document", "not_found"} :
        /\ Proceed(r, stage) /\ RequestOK(r)
        /\ stage = "not_found" => request[r].slug \notin DOMAIN workflows
    BY DEF IInv, ResolveSlug, Resolves
<1>2. /\ pc'[r] = stage /\ RequestOK(r)
      /\ UNCHANGED <<tables, request, num, base>>
    BY <1>1 DEF IInv, TypeOK, Proceed, Move
<1>3. StageFits(r)'
    BY <1>1, <1>2 DEF ResolveSlug, RequestOK, StageFits, Writes
<1>4. Knows(r)'
    BY <1>1, <1>2, SameVersions DEF ResolveSlug, RequestOK, Knows, Owning, Owns,
       HoldsSlug, Inserting, StageFits, tables
<1>5. Kept(r)'
    BY <1>1, <1>2, SameVersions, NumberOfSlug DEF ResolveSlug, RequestOK, Kept, StageFits, Applied,
       tables, Knows
<1> QED BY <1>1, <1>2, <1>3, <1>4, <1>5, ProceedStep DEF ResolveSlug, Waiting, Final, Applied

LEMMA ReadDocumentStep ==
  ASSUME IInv, NEW r \in Requests, ReadDocument(r)
  PROVE  IInv'
<1>1. PICK stage \in {"respond", "not_found"} :
        /\ Proceed(r, stage) /\ RequestOK(r)
        /\ stage = "not_found" => num[r] \notin VersionNumbers(request[r].slug)
    BY DEF IInv, ReadDocument
<1>2. /\ pc'[r] = stage /\ RequestOK(r)
      /\ UNCHANGED <<tables, request, num, base>>
    BY <1>1 DEF IInv, TypeOK, Proceed, Move
<1>3. StageFits(r)'
    BY <1>1, <1>2 DEF ReadDocument, RequestOK, StageFits, Writes
<1>4. Knows(r)'
    BY <1>1, <1>2, SameVersions DEF ReadDocument, RequestOK, Knows, Owning, Owns,
       HoldsSlug, Inserting, StageFits, tables
<1>5. Kept(r)'
    BY <1>1, <1>2, SameVersions, NumberOfSlug DEF ReadDocument, RequestOK, Kept, StageFits, Applied,
       tables, Knows
<1> QED BY <1>1, <1>2, <1>3, <1>4, <1>5, ProceedStep DEF ReadDocument, Waiting, Final, Applied

LEMMA AnswerStep ==
  ASSUME IInv, NEW r \in Requests, Answer(r)
  PROVE  IInv'
<1>1. PICK stage \in {"ok"} :
        Proceed(r, stage)
    BY DEF Answer
<1>2. /\ pc'[r] = stage /\ RequestOK(r)
      /\ UNCHANGED <<tables, request, num, base>>
    BY <1>1 DEF IInv, TypeOK, Proceed, Move
<1>3. StageFits(r)'
    BY <1>1, <1>2 DEF Answer, MayAnswer, RequestOK, StageFits, Writes
<1>4. Knows(r)'
    BY <1>1, <1>2, SameVersions DEF Answer, MayAnswer, RequestOK, Knows, Owning, Owns,
       HoldsSlug, Inserting, StageFits, tables
<1>5. Kept(r)'
    BY <1>1, <1>2, SameVersions DEF Answer, MayAnswer, RequestOK, Kept, StageFits, Applied,
       tables
<1> QED BY <1>1, <1>2, <1>3, <1>4, <1>5, ProceedStep DEF Answer, Waiting, Final, Applied

LEMMA AbandonStep ==
  ASSUME IInv, NEW r \in Requests, Abandon(r)
  PROVE  IInv'
<1>1. PICK stage \in {"aborted", "unanswered"} :
        /\ Proceed(r, stage) /\ RequestOK(r) /\ pc[r] \in Waiting
        /\ stage = "unanswered" <=> Applied(r)
    BY DEF IInv, Abandon, InFlight
<1>2. /\ pc'[r] = stage /\ RequestOK(r)
      /\ UNCHANGED <<tables, request, num, base>>
    BY <1>1 DEF IInv, TypeOK, Proceed, Move
<1>3. StageFits(r)'
    BY <1>1, <1>2 DEF RequestOK, StageFits, Writes
<1>4. Knows(r)'
    BY <1>1, <1>2, SameVersions DEF Waiting, RequestOK, Knows, Owning, Owns,
       HoldsSlug, Inserting, StageFits, tables
<1>5. Kept(r)'
    BY <1>1, <1>2, SameVersions DEF RequestOK, Kept, StageFits, Applied,
       tables
<1> QED BY <1>1, <1>2, <1>3, <1>4, <1>5, ProceedStep DEF Abandon, Waiting, Final, Applied

-----------------------------------------------------------------------------
(* Steps that begin to hold something, or read a number.                   *)

LEMMA InsertWorkflowStep ==
  ASSUME IInv, NEW r \in Requests, InsertWorkflow(r)
  PROVE  IInv'
<1> DEFINE s == request[r].slug
<1>1. PICK stage \in {"insert_first", "conflict"} :
        /\ Proceed(r, stage) /\ RequestOK(r) /\ pc[r] = "insert_workflow"
        /\ stage = "insert_first" => s \notin DOMAIN workflows
        /\ \A q \in Requests \ {r} : ~HoldsSlug(q, s)
    BY DEF IInv, InsertWorkflow
<1>2. /\ pc'[r] = stage /\ pc' = [pc EXCEPT ![r] = stage]
      /\ UNCHANGED <<tables, request, num, base>>
      /\ num' \in [Requests -> Nat] /\ base' \in [Requests -> Nat]
    BY <1>1 DEF IInv, TypeOK, Proceed, Move
<1>3. request[r].op = "create"
    BY <1>1 DEF RequestOK, StageFits
<1>4. RequestOK(r)'
    <2>1. StageFits(r)'
        BY <1>1, <1>2, <1>3 DEF StageFits
    <2>2. Knows(r)'
        BY <1>1, <1>2, <1>3, SameVersions DEF RequestOK, Knows, Owning, HoldsSlug,
           Inserting, tables
    <2>3. Kept(r)'
        BY <1>1, <1>2, <1>3 DEF Kept, Applied
    <2> QED BY <2>1, <2>2, <2>3 DEF RequestOK
<1>5. ~Inserting(r)' /\ ~Applied(r)
    BY <1>1, <1>2, <1>3 DEF Inserting, Applied
<1> QED BY <1>1, <1>2, <1>4, <1>5, QuietStep DEF Waiting, Final

LEMMA InsertFirstVersionStep ==
  ASSUME IInv, NEW r \in Requests, InsertFirstVersion(r)
  PROVE  IInv'
<1>1. /\ pc' = [pc EXCEPT ![r] = "commit"] /\ pc'[r] = "commit" /\ pc[r] = "insert_first"
      /\ RequestOK(r)
      /\ UNCHANGED <<tables, request, base>>
      /\ num' = [num EXCEPT ![r] = 1] /\ num'[r] = 1
      /\ num' \in [Requests -> Nat] /\ base' \in [Requests -> Nat]
    BY DEF IInv, TypeOK, InsertFirstVersion, Move
<1>2. \A q \in Requests \ {r} : num'[q] = num[q] /\ base'[q] = base[q]
    BY <1>1 DEF IInv, TypeOK
<1>3. request[r].op = "create"
    BY <1>1 DEF RequestOK, StageFits
<1>4. RequestOK(r)'
    <2>1. StageFits(r)'
        BY <1>1, <1>3 DEF StageFits
    <2>2. Knows(r)'
        BY <1>1, <1>3, SameVersions DEF RequestOK, Knows, Owning, HoldsSlug,
           Inserting, tables
    <2>3. Kept(r)'
        BY <1>1, <1>3 DEF Kept, Applied
    <2> QED BY <2>1, <2>2, <2>3 DEF RequestOK
<1>5. ~Inserting(r)' /\ ~Applied(r) /\ HoldsSlug(r, request[r].slug)
    BY <1>1, <1>3 DEF Inserting, Applied, HoldsSlug
<1>6. \A q \in Requests \ {r} :
        request[q].slug = request[r].slug => ~HoldsSlug(q, request[q].slug)
    BY <1>5 DEF IInv, Exclusive
<1> QED BY <1>1, <1>2, <1>4, <1>5, <1>6, QuietStep DEF Waiting, Final

LEMMA ReadMaxStep ==
  ASSUME IInv, NEW r \in Requests, ReadMax(r)
  PROVE  IInv'
<1> DEFINE s == request[r].slug
<1>1. /\ pc' = [pc EXCEPT ![r] = "insert_version"]
      /\ pc'[r] = "insert_version" /\ pc[r] = "max"
      /\ RequestOK(r)
      /\ UNCHANGED <<tables, request, base>>
      /\ num' = [num EXCEPT ![r] = TopVersion(s) + 1] /\ num'[r] = TopVersion(s) + 1
      /\ base' \in [Requests -> Nat]
    BY DEF IInv, TypeOK, ReadMax, Move, NextVersion
<1>2. /\ TopVersion(s) \in Nat
      /\ \A q \in Requests \ {r} : num'[q] = num[q] /\ base'[q] = base[q]
    BY <1>1, NumberOfSlug DEF IInv, TypeOK
<1>3. num' \in [Requests -> Nat]
    BY <1>1, <1>2 DEF IInv, TypeOK
<1>4. request[r].op = "publish"
    BY <1>1 DEF RequestOK, StageFits
<1>5. RequestOK(r)'
    <2>1. StageFits(r)'
        BY <1>1, <1>4 DEF StageFits
    <2>2. Knows(r)'
        BY <1>1, <1>2, <1>4, SameVersions, NumberOfSlug DEF RequestOK, Knows, Owning,
           Owns, HoldsSlug, Inserting, tables
    <2>3. Kept(r)'
        BY <1>1, <1>4 DEF Kept, Applied
    <2> QED BY <2>1, <2>2, <2>3 DEF RequestOK
<1>6. ~Inserting(r)' /\ ~Applied(r) /\ ~HoldsSlug(r, request[r].slug)'
    BY <1>1, <1>4 DEF Inserting, Applied, HoldsSlug
<1> QED BY <1>1, <1>2, <1>3, <1>5, <1>6, QuietStep DEF Waiting, Final

\* Whoever holds the next version number holds it alone: the guard of the
\* insertion excludes any other holder, who would hold the same number.
LEMMA InsertVersionStep ==
  ASSUME IInv, NEW r \in Requests, InsertVersion(r)
  PROVE  IInv'
<1> DEFINE s == request[r].slug
<1>1. PICK stage \in {"relist", "conflict"} :
        /\ Proceed(r, stage) /\ RequestOK(r) /\ pc[r] = "insert_version"
        /\ stage = "conflict" <=> num[r] \in VersionNumbers(s)
        /\ \A q \in Requests \ {r} : ~HoldsVersion(q, s, num[r])
    BY DEF IInv, InsertVersion
<1>2. /\ pc'[r] = stage /\ pc' = [pc EXCEPT ![r] = stage]
      /\ UNCHANGED <<tables, request, num, base>>
      /\ num' \in [Requests -> Nat] /\ base' \in [Requests -> Nat]
    BY <1>1 DEF IInv, TypeOK, Proceed, Move
<1>3. /\ request[r].op = "publish"
      /\ Owns(request[r].publisher, s)
      /\ num[r] \in 1 .. TopVersion(s) + 1 /\ num[r] > base[r]
      /\ base[r] <= TopVersion(s)
    BY <1>1 DEF RequestOK, StageFits, Knows, Owning
<1>4. stage = "relist" => num[r] = TopVersion(s) + 1
    BY <1>1, <1>3, NumberOfSlug
<1>5. RequestOK(r)'
    <2>1. StageFits(r)'
        BY <1>1, <1>2, <1>3 DEF StageFits
    <2>2. Knows(r)'
        BY <1>1, <1>2, <1>3, <1>4, SameVersions DEF Knows, Owning, Owns, HoldsSlug,
           Inserting, tables
    <2>3. Kept(r)'
        BY <1>1, <1>2, <1>3, SameVersions, NumberOfSlug DEF Kept, Applied, tables
    <2> QED BY <2>1, <2>2, <2>3 DEF RequestOK
<1>6. ~Applied(r) /\ ~HoldsSlug(r, request[r].slug)'
    BY <1>1, <1>2, <1>3 DEF Applied, HoldsSlug
<1>7. ASSUME NEW q \in Requests \ {r}, request[q].slug = s, stage = "relist"
      PROVE  ~Inserting(q)
    <2>1. Inserting(q) => num[q] = num[r]
        BY <1>4, <1>7 DEF IInv, RequestOK, Knows
    <2> QED BY <2>1, <1>1, <1>7 DEF Inserting, HoldsVersion
<1>8. Inserting(r)' => stage = "relist"
    BY <1>1, <1>2 DEF Inserting
<1> QED BY <1>1, <1>2, <1>5, <1>6, <1>7, <1>8, QuietStep DEF Waiting, Final

LEMMA RelistStep ==
  ASSUME IInv, NEW r \in Requests, Relist(r)
  PROVE  IInv'
<1>1. /\ pc' = [pc EXCEPT ![r] = "commit"] /\ pc'[r] = "commit" /\ pc[r] = "relist"
      /\ RequestOK(r)
      /\ UNCHANGED <<tables, request, num, base>>
      /\ num' \in [Requests -> Nat] /\ base' \in [Requests -> Nat]
    BY DEF IInv, TypeOK, Relist, Proceed, Move
<1>2. request[r].op = "publish" /\ Inserting(r)
    BY <1>1 DEF RequestOK, StageFits, Inserting
<1>3. RequestOK(r)'
    <2>1. StageFits(r)'
        BY <1>1, <1>2 DEF StageFits
    <2>2. Knows(r)'
        BY <1>1, <1>2, SameVersions DEF RequestOK, Knows, Owning, Owns, HoldsSlug,
           Inserting, tables
    <2>3. Kept(r)'
        BY <1>1, <1>2 DEF Kept, Applied
    <2> QED BY <2>1, <2>2, <2>3 DEF RequestOK
<1>4. ~HoldsSlug(r, request[r].slug)' /\ ~Applied(r)
    BY <1>1, <1>2 DEF HoldsSlug, Applied
<1>5. \A q \in Requests \ {r} : request[q].slug = request[r].slug => ~Inserting(q)
    BY <1>2 DEF IInv, Exclusive
<1> QED BY <1>1, <1>3, <1>4, <1>5, QuietStep DEF Waiting, Final

LEMMA ReceiveStep ==
  ASSUME IInv, NEW r \in Requests, Receive(r)
  PROVE  IInv'
<1> DEFINE s == request[r].slug
<1>1. PICK stage \in {"auth", "resolve"} :
        /\ pc' = [pc EXCEPT ![r] = stage] /\ pc'[r] = stage /\ pc[r] = "new"
        /\ RequestOK(r)
        /\ UNCHANGED <<tables, request>>
        /\ base' = [base EXCEPT ![r] = TopVersion(s)] /\ base'[r] = TopVersion(s)
        /\ stage = "resolve" <=> request[r].op = "fetch"
        /\ stage = "resolve" =>
             \E n \in 1 .. TopVersion(s) + 1 :
                num' = [num EXCEPT ![r] = n] /\ num'[r] = n
        /\ stage = "auth" => num' = num
    BY DEF IInv, TypeOK, Receive, Move
<1>2. TopVersion(s) \in Nat
    BY NumberOfSlug
<1>3. /\ num' \in [Requests -> Nat] /\ base' \in [Requests -> Nat]
      /\ \A q \in Requests \ {r} : num'[q] = num[q] /\ base'[q] = base[q]
      /\ request[r].op = "fetch" => num'[r] >= 1
    BY <1>1, <1>2 DEF IInv, TypeOK
<1>4. RequestOK(r)'
    <2>1. StageFits(r)'
        BY <1>1 DEF IInv, TypeOK, Request, StageFits
    <2>2. Knows(r)'
        BY <1>1, <1>2, <1>3, SameVersions DEF Knows, Owning, HoldsSlug, Inserting, tables
    <2>3. Kept(r)'
        BY <1>1 DEF Kept, Applied
    <2> QED BY <2>1, <2>2, <2>3 DEF RequestOK
<1>5. ~Inserting(r)' /\ ~Applied(r) /\ ~HoldsSlug(r, request[r].slug)'
    BY <1>1 DEF Inserting, Applied, HoldsSlug
<1> QED BY <1>1, <1>3, <1>4, <1>5, QuietStep DEF Waiting, Final

-----------------------------------------------------------------------------
(* Steps that rewrite a row of registry_workflows.                         *)

\* A row may change its flags and its labels, as long as its publisher stays
\* and a new label is by a request of that publisher which is now applied.
LEMMA RowStep ==
  ASSUME IInv,
         UNCHANGED <<blocked, versions, withdrawn, request, num, base>>,
         pc' \in [Requests -> {"new"} \cup Waiting \cup Final],
         \A q \in Requests :
            \/ pc'[q] = pc[q]
            \/ pc[q] \in {"update", "unlist"} /\ pc'[q] = "respond",
         DOMAIN workflows' = DOMAIN workflows,
         workflows' \in [DOMAIN workflows -> Row],
         \A s \in DOMAIN workflows :
            /\ workflows'[s].publisher = workflows[s].publisher
            /\ \A f \in Fields :
                 \/ workflows'[s].label[f] = workflows[s].label[f]
                 \/ \E a \in Requests :
                      /\ workflows'[s].label[f] = a
                      /\ Applied(a)' /\ request[a].publisher = workflows[s].publisher
  PROVE  IInv'
<1>1. \A s : VersionNumbers(s)' = VersionNumbers(s) /\ TopVersion(s)' = TopVersion(s)
    BY SameVersions
<1>2. TypeOK'
    BY DEF IInv, TypeOK
<1>3. Counted' /\ NoGaps'
    BY <1>1 DEF IInv, Counted, NoGaps
<1>4. ASSUME NEW q \in Requests
      PROVE  /\ RequestOK(q)'
             /\ HoldsSlug(q, request[q].slug)' => HoldsSlug(q, request[q].slug)
             /\ Inserting(q)' => Inserting(q)
             /\ Applied(q) => Applied(q)'
    <2>1. RequestOK(q) /\ (pc[q] \in {"update", "unlist"} => request[q].op = pc[q])
        BY DEF IInv, RequestOK, StageFits
    <2>2. StageFits(q)'
        BY <2>1 DEF RequestOK, StageFits
    <2>3. Owning(q)' => Owning(q)
        BY DEF Owning
    <2>4. Owns(request[q].publisher, request[q].slug)
            => Owns(request[q].publisher, request[q].slug)'
        BY DEF Owns
    <2>5. Knows(q)'
        BY <2>1, <2>3, <2>4, <1>1 DEF RequestOK, Knows, HoldsSlug, Inserting
    <2>6. Kept(q)'
        BY <2>1, <1>1 DEF RequestOK, Kept, Applied
    <2> QED BY <2>2, <2>5, <2>6 DEF RequestOK, HoldsSlug, Inserting, Applied
<1>5. Exclusive'
    BY <1>4 DEF IInv, Exclusive
<1>6. Authored'
    <2>1. ASSUME NEW v \in versions, v.doc # Seeded
          PROVE  /\ v.doc \in Requests /\ v.slug \in Slugs
                 /\ Applied(v.doc)'
                 /\ request[v.doc].publisher = workflows'[v.slug].publisher
        <3>1. v.doc \in Requests /\ v.slug \in Slugs /\ v.version \in Nat
            BY <2>1 DEF IInv, TypeOK, VersionRow, Ids
        <3>2. v.version \in VersionNumbers(v.slug)
            BY DEF VersionNumbers
        <3>3. v.slug \in DOMAIN workflows
            BY <3>1, <3>2 DEF IInv, Counted, NoGaps
        <3> QED BY <3>1, <3>3, <2>1, <1>4 DEF IInv, Authored
    <2>2. ASSUME NEW s \in DOMAIN workflows, NEW f \in Fields,
                 workflows'[s].label[f] # Seeded
          PROVE  \E a \in Requests :
                   /\ workflows'[s].label[f] = a
                   /\ Applied(a)' /\ request[a].publisher = workflows'[s].publisher
        <3>1. CASE workflows'[s].label[f] = workflows[s].label[f]
            <4>1. workflows[s].label[f] \in Requests
                BY <2>2, <3>1 DEF IInv, TypeOK, Row, Ids
            <4> QED BY <2>2, <3>1, <4>1, <1>4 DEF IInv, Authored
        <3>2. CASE workflows'[s].label[f] # workflows[s].label[f]
            BY <3>2
        <3> QED BY <3>1, <3>2
    <2> QED BY <2>1, <2>2 DEF Authored, Applied
<1> QED BY <1>2, <1>3, <1>4, <1>5, <1>6 DEF IInv

LEMMA UnlistStep ==
  ASSUME IInv, NEW r \in Requests, Unlist(r)
  PROVE  IInv'
<1> DEFINE s == request[r].slug
<1>1. s \in DOMAIN workflows
    BY DEF IInv, RequestOK, Knows, Owning, Owns, Unlist
<1>2. workflows' \in [DOMAIN workflows -> Row]
    BY <1>1 DEF Unlist, IInv, TypeOK, Row
<1>3. \A t \in DOMAIN workflows :
        /\ workflows'[t].publisher = workflows[t].publisher
        /\ workflows'[t].label = workflows[t].label
    BY <1>1 DEF Unlist, IInv, TypeOK, Row
<1>4. /\ pc' \in [Requests -> {"new"} \cup Waiting \cup Final]
      /\ \A q \in Requests :
            \/ pc'[q] = pc[q]
            \/ pc[q] \in {"update", "unlist"} /\ pc'[q] = "respond"
    BY DEF Unlist, Move, IInv, TypeOK, Waiting
<1> QED BY <1>2, <1>3, <1>4, RowStep DEF Unlist

LEMMA SetOfficialStep ==
  ASSUME IInv, NEW s \in Slugs, NEW value \in BOOLEAN, SetOfficial(s, value)
  PROVE  IInv'
<1>1. workflows' \in [DOMAIN workflows -> Row]
    BY DEF SetOfficial, IInv, TypeOK, Row
<1>2. \A t \in DOMAIN workflows :
        /\ workflows'[t].publisher = workflows[t].publisher
        /\ workflows'[t].label = workflows[t].label
    BY DEF SetOfficial, IInv, TypeOK, Row
<1>3. pc' \in [Requests -> {"new"} \cup Waiting \cup Final]
    BY DEF SetOfficial, IInv, TypeOK
<1> QED BY <1>1, <1>2, <1>3, RowStep DEF SetOfficial

LEMMA UpdateStep ==
  ASSUME IInv, NEW r \in Requests, Update(r)
  PROVE  IInv'
<1> DEFINE s == request[r].slug
<1>1. /\ s \in DOMAIN workflows /\ workflows[s].publisher = request[r].publisher
      /\ request[r].op = "update"
    BY DEF IInv, RequestOK, StageFits, Knows, Owning, Owns, Update
<1>2. Amended(r, workflows[s].label) \in [Fields -> Ids]
    BY <1>1 DEF Amended, IInv, TypeOK, Row, Ids
<1>3. workflows' = [workflows EXCEPT ![s].label = Amended(r, workflows[s].label)]
    BY DEF Update
<1>4. workflows' \in [DOMAIN workflows -> Row]
    BY <1>1, <1>2, <1>3 DEF IInv, TypeOK, Row
<1>5. \A t \in DOMAIN workflows :
        /\ workflows'[t].publisher = workflows[t].publisher
        /\ workflows'[t].label =
             IF t = s THEN Amended(r, workflows[s].label) ELSE workflows[t].label
    BY <1>1, <1>3 DEF IInv, TypeOK, Row
<1>6. /\ pc' \in [Requests -> {"new"} \cup Waiting \cup Final]
      /\ \A q \in Requests :
            \/ pc'[q] = pc[q]
            \/ pc[q] \in {"update", "unlist"} /\ pc'[q] = "respond"
      /\ Applied(r)'
    BY <1>1 DEF Update, Move, IInv, TypeOK, Waiting, Applied, Writes
<1>7. ASSUME NEW t \in DOMAIN workflows, NEW f \in Fields
      PROVE  \/ workflows'[t].label[f] = workflows[t].label[f]
             \/ \E a \in Requests :
                  /\ workflows'[t].label[f] = a
                  /\ Applied(a)' /\ request[a].publisher = workflows[t].publisher
    <2>1. CASE t = s /\ f \in request[r].fields
        <3>1. workflows'[t].label[f] = r
            BY <1>5, <2>1 DEF Amended
        <3> QED BY <3>1, <2>1, <1>1, <1>6
    <2>2. CASE ~(t = s /\ f \in request[r].fields)
        <3>1. CASE t # s
            BY <3>1, <1>5
        <3>2. CASE t = s
            <4>1. Amended(r, workflows[s].label)[f] = workflows[s].label[f]
                BY <2>2, <3>2 DEF Amended
            <4> QED BY <4>1, <3>2, <1>5
        <3> QED BY <3>1, <3>2
    <2> QED BY <2>1, <2>2
<1> QED BY <1>4, <1>5, <1>6, <1>7, RowStep DEF Update

-----------------------------------------------------------------------------
(* Commits.                                                                *)

\* A transaction that is alone on its slug and adds the version after the
\* highest one, to an entry of its own publisher.
LEMMA CommitStep ==
  ASSUME IInv, NEW r \in Requests,
         pc[r] = "commit", pc' = [pc EXCEPT ![r] = "respond"],
         UNCHANGED <<blocked, withdrawn, request, num, base>>,
         AddVersion(r),
         num[r] = TopVersion(request[r].slug) + 1,
         \A q \in Requests \ {r} : request[q].slug = request[r].slug =>
            ~HoldsSlug(q, request[q].slug) /\ ~Inserting(q),
         DOMAIN workflows' = DOMAIN workflows \cup {request[r].slug},
         workflows' \in [DOMAIN workflows \cup {request[r].slug} -> Row],
         workflows'[request[r].slug].publisher = request[r].publisher,
         \A t \in DOMAIN workflows :
            /\ workflows'[t].publisher = workflows[t].publisher
            /\ workflows'[t].label = workflows[t].label,
         request[r].slug \notin DOMAIN workflows =>
            \A f \in Fields : workflows'[request[r].slug].label[f] = r
  PROVE  IInv'
<1> DEFINE s == request[r].slug
           k == TopVersion(s)
           row == [slug |-> s, version |-> num[r], doc |-> r]
<1>1. /\ s \in Slugs /\ k \in Nat /\ num[r] \in Nat
      /\ VersionNumbers(s) = 1 .. k
      /\ request[r].op \in {"create", "publish"} /\ r # Seeded
      /\ pc'[r] = "respond" /\ Applied(r)'
    BY NumberOfSlug, SeededAssumption
       DEF IInv, TypeOK, RequestOK, StageFits, Applied, Writes
<1>2. versions' = versions \cup {row}
    BY DEF AddVersion
<1>3. VersionNumbers(s)' = 1 .. k + 1
    <2>1. VersionNumbers(s)' = VersionNumbers(s) \cup {k + 1}
        BY <1>2, AddedNumber
    <2> QED BY <2>1, <1>1
<1>4. TopVersion(s)' = k + 1
    BY <1>1, <1>3, MaxOfRange DEF TopVersion
<1>5. \A t : t # s => VersionNumbers(t)' = VersionNumbers(t) /\ TopVersion(t)' = TopVersion(t)
    <2>1. \A t : t # s => VersionNumbers(t)' = VersionNumbers(t)
        BY <1>2, AddedNumber
    <2> QED BY <2>1 DEF TopVersion
<1>6. TypeOK'
    <2>1. versions' \subseteq VersionRow
        BY <1>1, <1>2 DEF IInv, TypeOK, VersionRow, Ids
    <2>2. pc' \in [Requests -> {"new"} \cup Waiting \cup Final]
        BY DEF IInv, TypeOK, Waiting
    <2>3. DOMAIN workflows' \subseteq Slugs /\ workflows' \in [DOMAIN workflows' -> Row]
        BY <1>1 DEF IInv, TypeOK
    <2> QED BY <2>1, <2>2, <2>3 DEF IInv, TypeOK
<1>7. Counted'
    BY <1>1, <1>4, <1>5 DEF IInv, Counted
<1>8. NoGaps'
    <2>1. \A t \in Slugs : VersionNumbers(t)' = 1 .. TopVersion(t)'
        BY <1>3, <1>4, <1>5 DEF IInv, NoGaps
    <2>2. \A t \in Slugs : t \in DOMAIN workflows' <=> TopVersion(t)' >= 1
        BY <1>1, <1>4, <1>5 DEF IInv, NoGaps
    <2>3. \A v \in versions : v.slug = s => v.version # k + 1
        BY <1>1 DEF VersionNumbers
    <2>4. \A v, w \in versions' : v.slug = w.slug /\ v.version = w.version => v = w
        BY <2>3, <1>2 DEF IInv, NoGaps
    <2> QED BY <2>1, <2>2, <2>4 DEF NoGaps
<1>9. ASSUME NEW q \in Requests
      PROVE  /\ RequestOK(q)'
             /\ HoldsSlug(q, request[q].slug)' => HoldsSlug(q, request[q].slug)
             /\ Inserting(q)' => Inserting(q)
             /\ Applied(q) => Applied(q)'
    <2>1. RequestOK(q) /\ base[q] \in Nat /\ num[q] \in Nat /\ request[q].slug \in Slugs
        BY DEF IInv, TypeOK, Request
    <2>2. pc'[q] = IF q = r THEN "respond" ELSE pc[q]
        BY DEF IInv, TypeOK
    <2>3. StageFits(q)'
        BY <2>1, <2>2 DEF RequestOK, StageFits
    <2>4. Owns(request[q].publisher, request[q].slug)
            => Owns(request[q].publisher, request[q].slug)'
        BY DEF Owns
    <2>5. Owning(q)' => Owning(q)
        BY <2>2 DEF Owning
    <2>6. TopVersion(request[q].slug)' =
            IF request[q].slug = s THEN TopVersion(request[q].slug) + 1
                                   ELSE TopVersion(request[q].slug)
        BY <1>4, <1>5
    <2>7. TopVersion(request[q].slug) \in Nat
        BY NumberOfSlug
    <2>8. q # r /\ request[q].slug = s => ~HoldsSlug(q, s) /\ ~Inserting(q)
        OBVIOUS
    <2>9. Knows(q)'
        BY <2>1, <2>2, <2>4, <2>5, <2>6, <2>7, <2>8
           DEF RequestOK, Knows, HoldsSlug, Inserting
    <2>10. Kept(q)'
        BY <2>1, <2>2, <2>6, <2>7, <1>2 DEF RequestOK, Kept, Applied
    <2> QED BY <2>2, <2>3, <2>9, <2>10, <1>1
            DEF RequestOK, HoldsSlug, Inserting, Applied
<1>10. Exclusive'
    BY <1>9 DEF IInv, Exclusive
<1>11. Authored'
    <2>1. ASSUME NEW v \in versions', v.doc # Seeded
          PROVE  /\ Applied(v.doc)'
                 /\ request[v.doc].publisher = workflows'[v.slug].publisher
        <3>1. CASE v = row
            BY <3>1, <1>1
        <3>2. CASE v \in versions
            <4>1. v.doc \in Requests /\ v.slug \in Slugs /\ v.version \in Nat
                BY <2>1, <3>2 DEF IInv, TypeOK, VersionRow, Ids
            <4>2. v.version \in VersionNumbers(v.slug)
                BY <3>2 DEF VersionNumbers
            <4>3. v.slug \in DOMAIN workflows
                BY <4>1, <4>2 DEF IInv, Counted, NoGaps
            <4> QED BY <3>2, <4>1, <4>3, <2>1, <1>9 DEF IInv, Authored
        <3> QED BY <3>1, <3>2, <1>2
    <2>2. ASSUME NEW t \in DOMAIN workflows', NEW f \in Fields,
                 workflows'[t].label[f] # Seeded
          PROVE  \E a \in Requests :
                   /\ workflows'[t].label[f] = a
                   /\ Applied(a)' /\ request[a].publisher = workflows'[t].publisher
        <3>1. CASE t \in DOMAIN workflows
            <4>1. workflows[t].label[f] \in Requests
                BY <2>2, <3>1 DEF IInv, TypeOK, Row, Ids
            <4> QED BY <2>2, <3>1, <4>1, <1>9 DEF IInv, Authored
        <3>2. CASE t \notin DOMAIN workflows
            <4>1. t = s /\ workflows'[t].label[f] = r
                BY <3>2
            <4> QED BY <4>1, <1>1
        <3> QED BY <3>1, <3>2
    <2> QED BY <2>1, <2>2 DEF Authored, Applied
<1> QED BY <1>6, <1>7, <1>8, <1>9, <1>10, <1>11 DEF IInv

LEMMA CommitCreateStep ==
  ASSUME IInv, NEW r \in Requests, CommitCreate(r)
  PROVE  IInv'
<1> DEFINE s == request[r].slug
<1>1. pc[r] = "commit" /\ request[r].op = "create" /\ HoldsSlug(r, s)
    BY DEF CommitCreate, HoldsSlug
<1>2. s \notin DOMAIN workflows /\ num[r] = 1
    BY <1>1 DEF IInv, RequestOK, Knows
<1>3. num[r] = TopVersion(s) + 1
    BY <1>2, NumberOfSlug
<1>4. ASSUME NEW q \in Requests \ {r}, request[q].slug = s
      PROVE  ~HoldsSlug(q, s) /\ ~Inserting(q)
    <2>1. ~HoldsSlug(q, s)
        BY <1>1, <1>4 DEF IInv, Exclusive
    <2>2. Inserting(q) => s \in DOMAIN workflows
        BY <1>4 DEF IInv, RequestOK, Knows, Owning, Owns, Inserting
    <2> QED BY <2>1, <2>2, <1>2
<1>5. NewRow(r) \in Row
    BY DEF NewRow, Row, IInv, TypeOK, Request, Ids
<1>6. /\ DOMAIN workflows' = DOMAIN workflows \cup {s}
      /\ workflows' \in [DOMAIN workflows \cup {s} -> Row]
      /\ workflows'[s] = NewRow(r)
      /\ \A t \in DOMAIN workflows : workflows'[t] = workflows[t]
    BY <1>2, <1>5 DEF CommitCreate, IInv, TypeOK
<1>7. workflows'[s].publisher = request[r].publisher /\ \A f \in Fields : workflows'[s].label[f] = r
    BY <1>6 DEF NewRow
<1>8. /\ pc' = [pc EXCEPT ![r] = "respond"] /\ AddVersion(r)
      /\ UNCHANGED <<blocked, withdrawn, request, num, base>>
    BY DEF CommitCreate, Move
<1> QED BY <1>1, <1>3, <1>4, <1>6, <1>7, <1>8, CommitStep

LEMMA CommitPublishStep ==
  ASSUME IInv, NEW r \in Requests, CommitPublish(r)
  PROVE  IInv'
<1> DEFINE s == request[r].slug
<1>1. pc[r] = "commit" /\ request[r].op = "publish" /\ Inserting(r) /\ Owning(r)
    BY DEF CommitPublish, Inserting, Owning
<1>2. /\ s \in DOMAIN workflows /\ workflows[s].publisher = request[r].publisher
      /\ num[r] = TopVersion(s) + 1
    BY <1>1 DEF IInv, RequestOK, Knows, Owns
<1>3. ASSUME NEW q \in Requests \ {r}, request[q].slug = s
      PROVE  ~HoldsSlug(q, s) /\ ~Inserting(q)
    <2>1. ~Inserting(q)
        BY <1>1, <1>3 DEF IInv, Exclusive
    <2>2. ~HoldsSlug(q, s)
        BY <1>2, <1>3 DEF IInv, RequestOK, Knows
    <2> QED BY <2>1, <2>2
<1>4. workflows' = [workflows EXCEPT ![s].listed = TRUE]
    BY DEF CommitPublish
<1>5. /\ DOMAIN workflows' = DOMAIN workflows \cup {s}
      /\ workflows' \in [DOMAIN workflows \cup {s} -> Row]
      /\ \A t \in DOMAIN workflows :
           /\ workflows'[t].publisher = workflows[t].publisher
           /\ workflows'[t].label = workflows[t].label
    BY <1>2, <1>4 DEF IInv, TypeOK, Row
<1>6. /\ pc' = [pc EXCEPT ![r] = "respond"] /\ AddVersion(r)
      /\ UNCHANGED <<blocked, withdrawn, request, num, base>>
    BY DEF CommitPublish, Move
<1> QED BY <1>1, <1>2, <1>3, <1>5, <1>6, CommitStep

-----------------------------------------------------------------------------
(* The invariant.                                                          *)

LEMMA InitIInv == Init => IInv
<1> SUFFICES ASSUME Init PROVE IInv
    OBVIOUS
<1>1. request \in [Requests -> Request] /\ Asked \subseteq Request
    BY DEF Init, Asked
<1>2. TypeOK
    <2>1. workflows \in [DOMAIN workflows -> Row] /\ DOMAIN workflows \subseteq Slugs
        BY SeedAssumption DEF Init, Row, Ids
    <2>2. versions \subseteq VersionRow
        BY SeedAssumption DEF Init, VersionRow, Ids
    <2> QED BY <1>1, <2>1, <2>2 DEF Init, TypeOK
<1>3. \A s \in Slugs : VersionNumbers(s) = IF s \in DOMAIN workflows THEN 1 .. 1 ELSE 1 .. 0
    <2>1. \A s, m : m \in VersionNumbers(s) <=> \E v \in versions : v.slug = s /\ v.version = m
        BY DEF VersionNumbers
    <2> DEFINE row(s) == [slug |-> s, version |-> 1, doc |-> Seeded]
    <2>2. \A s : row(s).slug = s /\ row(s).version = 1
        OBVIOUS
    <2>3. \A v : v \in versions <=> \E s \in DOMAIN workflows : v = row(s)
        BY DEF Init
    <2> HIDE DEF row
    <2>4. \A s, m : m \in VersionNumbers(s) <=> s \in DOMAIN workflows /\ m = 1
        BY <2>1, <2>2, <2>3
    <2> QED BY <2>4
<1>4. \A s \in Slugs : TopVersion(s) = IF s \in DOMAIN workflows THEN 1 ELSE 0
    BY <1>3, TopOfRange
<1>5. Counted /\ NoGaps
    <2>1. \A v, w \in versions : v.slug = w.slug /\ v.version = w.version => v = w
        BY DEF Init
    <2>2. \A s \in Slugs :
            /\ TopVersion(s) \in Nat
            /\ VersionNumbers(s) = 1 .. TopVersion(s)
            /\ s \in DOMAIN workflows <=> TopVersion(s) >= 1
        <3> TAKE s \in Slugs
        <3>1. CASE s \in DOMAIN workflows
            <4>1. VersionNumbers(s) = 1 .. 1 /\ TopVersion(s) = 1
                BY <3>1, <1>3, <1>4
            <4> QED BY <3>1, <4>1
        <3>2. CASE s \notin DOMAIN workflows
            <4>1. VersionNumbers(s) = 1 .. 0 /\ TopVersion(s) = 0
                BY <3>2, <1>3, <1>4
            <4> QED BY <3>2, <4>1
        <3> QED BY <3>1, <3>2
    <2> QED BY <2>1, <2>2 DEF Counted, NoGaps
<1>6. \A r \in Requests : RequestOK(r)
    <2> SUFFICES ASSUME NEW r \in Requests PROVE RequestOK(r)
        OBVIOUS
    <2>1. pc[r] = "new" /\ base[r] = 0 /\ request[r].slug \in Slugs
        BY <1>1 DEF Init, Request
    <2>2. TopVersion(request[r].slug) \in Nat
        BY <2>1, <1>4
    <2> QED BY <2>1, <2>2
            DEF RequestOK, StageFits, Knows, Kept, Owning, HoldsSlug, Inserting, Applied
<1>7. Exclusive
    BY DEF Init, Exclusive, HoldsSlug, Inserting
<1>8. Authored
    BY DEF Init, Authored
<1> QED BY <1>2, <1>5, <1>6, <1>7, <1>8 DEF IInv

LEMMA SetBlockedStep ==
  ASSUME IInv, NEW p \in Publishers, NEW value \in BOOLEAN, SetBlocked(p, value)
  PROVE  IInv'
<1>1. blocked' \subseteq Publishers
    BY DEF SetBlocked, IInv, TypeOK
<1>2. \A s : VersionNumbers(s)' = VersionNumbers(s) /\ TopVersion(s)' = TopVersion(s)
    BY SameVersions DEF SetBlocked
<1>3. TypeOK' /\ Counted' /\ NoGaps'
    BY <1>1, <1>2 DEF SetBlocked, IInv, TypeOK, Counted, NoGaps
<1>4. \A q \in Requests : RequestOK(q)'
    BY <1>2 DEF SetBlocked, IInv, RequestOK, StageFits, Knows, Kept, Owning, Owns,
       HoldsSlug, Inserting, Applied
<1>5. Exclusive' /\ Authored'
    BY DEF SetBlocked, IInv, Exclusive, Authored, HoldsSlug, Inserting, Applied
<1> QED BY <1>3, <1>4, <1>5 DEF IInv

LEMMA WithdrawStep ==
  ASSUME IInv, NEW s \in Slugs, NEW n, Withdraw(s, n)
  PROVE  IInv'
<1>1. withdrawn' \subseteq Slugs \X Nat
    <2>1. n \in Nat
        BY DEF Withdraw, IInv, Counted, NoGaps
    <2> QED BY <2>1 DEF Withdraw, IInv, TypeOK
<1>2. \A t : VersionNumbers(t)' = VersionNumbers(t) /\ TopVersion(t)' = TopVersion(t)
    BY SameVersions DEF Withdraw
<1>3. TypeOK' /\ Counted' /\ NoGaps'
    BY <1>1, <1>2 DEF Withdraw, IInv, TypeOK, Counted, NoGaps
<1>4. \A q \in Requests : RequestOK(q)'
    BY <1>2 DEF Withdraw, IInv, RequestOK, StageFits, Knows, Kept, Owning, Owns,
       HoldsSlug, Inserting, Applied
<1>5. Exclusive' /\ Authored'
    BY DEF Withdraw, IInv, Exclusive, Authored, HoldsSlug, Inserting, Applied
<1> QED BY <1>3, <1>4, <1>5 DEF IInv

LEMMA StutterStep == IInv /\ UNCHANGED vars => IInv'
<1> SUFFICES ASSUME IInv, UNCHANGED vars PROVE IInv'
    OBVIOUS
<1>1. \A t : VersionNumbers(t)' = VersionNumbers(t) /\ TopVersion(t)' = TopVersion(t)
    BY SameVersions DEF vars
<1>2. TypeOK' /\ Counted' /\ NoGaps'
    BY <1>1 DEF vars, IInv, TypeOK, Counted, NoGaps
<1>3. \A q \in Requests : RequestOK(q)'
    BY <1>1 DEF vars, IInv, RequestOK, StageFits, Knows, Kept, Owning, Owns,
       HoldsSlug, Inserting, Applied
<1>4. Exclusive' /\ Authored'
    BY DEF vars, IInv, Exclusive, Authored, HoldsSlug, Inserting, Applied
<1> QED BY <1>2, <1>3, <1>4 DEF IInv

LEMMA NextIInv == IInv /\ [Next]_vars => IInv'
<1> SUFFICES ASSUME IInv, [Next]_vars PROVE IInv'
    OBVIOUS
<1>1. CASE UNCHANGED vars
    BY <1>1, StutterStep
<1>2. ASSUME NEW r \in Requests, Receive(r) \/ RefuseBody(r) \/ Abandon(r)
      PROVE  IInv'
    BY <1>2, ReceiveStep, RefuseBodyStep, AbandonStep
<1>3. ASSUME NEW r \in Requests, Step(r)
      PROVE  IInv'
    BY <1>3, AuthenticateStep, CheckPublisherCapStep, InsertWorkflowStep,
       InsertFirstVersionStep, CommitCreateStep, OwnedWorkflowIdStep, ReadMaxStep,
       InsertVersionStep, RelistStep, CommitPublishStep, UpdateStep, UnlistStep,
       ResolveSlugStep, ReadDocumentStep, AnswerStep DEF Step
<1>4. CASE Operator
    BY <1>4, SetOfficialStep, SetBlockedStep, WithdrawStep DEF Operator
<1>5. CASE Idle
    BY <1>5, <1>1 DEF Idle
<1> QED BY <1>1, <1>2, <1>3, <1>4, <1>5 DEF Next

\* The inductive invariant holds of every behaviour of the service, whatever
\* the callers, the operator and the failures do.
THEOREM Invariance == Spec => []IInv
BY InitIInv, NextIInv, PTL DEF Spec

-----------------------------------------------------------------------------
(* What follows.                                                           *)

\* Every variable keeps its type, for any number of concurrent requests.
THEOREM TypeCorrect == Spec => []TypeOK
<1>1. IInv => TypeOK
    BY DEF IInv
<1> QED BY <1>1, Invariance, PTL

\* The versions of a workflow are numbered 1 .. k, none missing, none twice,
\* and there are some exactly when the workflow exists.
THEOREM NumbersHaveNoGaps == Spec => []NoGaps
<1>1. IInv => NoGaps
    BY DEF IInv
<1> QED BY <1>1, Invariance, PTL

\* A create or publish that was answered is served under the number it was told.
THEOREM AnswersAreServed == Spec => []AnsweredIsServed
<1>1. IInv => AnsweredIsServed
    BY DEF IInv, RequestOK, Kept, AnsweredIsServed, Applied, Writes
<1> QED BY <1>1, Invariance, PTL

\* A request without a committed effect is nowhere in the tables.
THEOREM RefusalsLeaveNothing == Spec => []RefusedLeavesNothing
<1>1. IInv => RefusedLeavesNothing
    <2> SUFFICES ASSUME IInv, NEW r \in Requests, r \in Left PROVE Applied(r)
        BY DEF RefusedLeavesNothing
    <2>1. r # Seeded
        BY SeededAssumption
    <2>2. CASE \E v \in versions : v.doc = r
        BY <2>1, <2>2 DEF IInv, Authored
    <2>3. CASE \E s \in DOMAIN workflows, f \in Fields : workflows[s].label[f] = r
        BY <2>1, <2>3 DEF IInv, Authored
    <2> QED BY <2>2, <2>3 DEF Left
<1> QED BY <1>1, Invariance, PTL

\* Every document and every label is by the account that owns the entry.
THEOREM OnlyOwnersWrite == Spec => []OwnerOnly
<1>1. IInv => OwnerOnly
    BY DEF IInv, Authored, OwnerOnly
<1> QED BY <1>1, Invariance, PTL

\* A publish told that it lost did lose, to one that came after it arrived.
THEOREM ConflictsAreContention == Spec => []ConflictMeansContention
<1>1. IInv => ConflictMeansContention
    <2> SUFFICES ASSUME IInv, NEW r \in Requests,
                        pc[r] = "conflict", request[r].op = "publish"
                 PROVE  num[r] \in VersionNumbers(request[r].slug) /\ num[r] > base[r]
        BY DEF ConflictMeansContention
    <2> QED BY NumberOfSlug DEF IInv, RequestOK, Kept
<1> QED BY <1>1, Invariance, PTL

\* A version read answers not found only for a version that was not there when
\* the request arrived.
THEOREM FetchesFind == Spec => []FetchFindsPublished
<1>1. IInv => FetchFindsPublished
    BY DEF IInv, RequestOK, Kept, FetchFindsPublished
<1> QED BY <1>1, Invariance, PTL

\* Whoever is waited for goes on: it is past its inserts, or holds a version
\* and wants the row, and the row of an entry is held by nobody else then,
\* since whoever holds it has an uncommitted version too.
THEOREM NobodyWaitsForWaiters == Spec => []WaitsEnd
<1>1. ASSUME IInv, NEW r \in Requests, NEW q \in Requests, WaitsFor(r, q)
      PROVE  InFlight(q) /\ \A p \in Requests : ~WaitsFor(q, p)
  <2>1. pc[q] \in {"insert_first", "commit", "relist"}
      BY <1>1 DEF WaitsFor, HoldsSlug, HoldsVersion, HoldsRow
  <2>2. InFlight(q)
      BY <2>1 DEF InFlight, Waiting
  <2>3. ASSUME NEW p \in Requests, WaitsFor(q, p) PROVE FALSE
    <3>1. pc[q] = "relist" /\ HoldsRow(p, request[q].slug) /\ p # q
        BY <2>1, <2>3 DEF WaitsFor
    <3>2. Inserting(q)
        BY <1>1, <3>1 DEF WaitsFor, HoldsSlug, HoldsVersion, HoldsRow, Inserting
    <3>3. Inserting(p) /\ request[p].slug = request[q].slug
        BY <3>1 DEF HoldsRow, Inserting
    <3> QED BY <1>1, <3>1, <3>2, <3>3 DEF IInv, Exclusive
  <2> QED BY <2>2, <2>3
<1>2. IInv => WaitsEnd
    BY <1>1 DEF WaitsEnd
<1> QED BY <1>2, Invariance, PTL

-----------------------------------------------------------------------------
(* What a block stops.                                                     *)

\* Not past the token, or past its end without an effect.
Outside(r) ==
  \/ request[r].op \notin Writes
  \/ pc[r] \in {"new", "auth"} \cup (Final \ {"ok", "unanswered"})

LEMMA SameRequests == [Next]_vars => request' = request
BY DEF Next, vars, Receive, RefuseBody, Step, Abandon, Operator, Idle, Proceed,
   Authenticate, CheckPublisherCap, InsertWorkflow, InsertFirstVersion,
   CommitCreate, OwnedWorkflowId, ReadMax, InsertVersion, Relist, CommitPublish,
   Update, Unlist, ResolveSlug, ReadDocument, Answer, MayAnswer, SetOfficial,
   SetBlocked, Withdraw

\* A step of one request is none of another's.
LEMMA OwnStage ==
  ASSUME IInv, [Next]_vars, NEW r \in Requests, pc'[r] # pc[r]
  PROVE  Receive(r) \/ RefuseBody(r) \/ Step(r) \/ Abandon(r)
<1>1. pc \in [Requests -> {"new"} \cup Waiting \cup Final]
    BY DEF IInv, TypeOK
<1>2. ASSUME NEW q \in Requests, q # r, NEW stage, Move(q, stage) PROVE FALSE
    BY <1>1, <1>2 DEF Move
<1>3. ASSUME NEW q \in Requests, q # r, Receive(q) \/ RefuseBody(q) \/ Abandon(q)
      PROVE  FALSE
    BY <1>2, <1>3 DEF Receive, RefuseBody, Abandon, Proceed
<1>4. ASSUME NEW q \in Requests, q # r, Step(q) PROVE FALSE
    <2>1. \E stage : Move(q, stage)
        BY <1>4 DEF Step, Proceed, Authenticate, CheckPublisherCap, InsertWorkflow,
           InsertFirstVersion, CommitCreate, OwnedWorkflowId, ReadMax, InsertVersion,
           Relist, CommitPublish, Update, Unlist, ResolveSlug, ReadDocument, Answer
    <2> QED BY <1>2, <1>4, <2>1
<1>5. CASE Operator \/ Idle \/ UNCHANGED vars
    BY <1>5 DEF Operator, SetOfficial, SetBlocked, Withdraw, Idle, vars
<1> QED BY <1>3, <1>4, <1>5 DEF Next

LEMMA OutsideStep ==
  ASSUME IInv, [Next]_vars, NEW r \in Requests, Outside(r),
         request[r].publisher \in blocked
  PROVE  Outside(r)'
<1>1. request' = request /\ pc \in [Requests -> {"new"} \cup Waiting \cup Final]
    BY SameRequests DEF IInv, TypeOK
<1>2. SUFFICES ASSUME request[r].op \in Writes, pc'[r] # pc[r]
               PROVE  pc'[r] \in {"auth"} \cup (Final \ {"ok", "unanswered"})
    BY <1>1 DEF Outside
<1>3. pc[r] \in {"new", "auth"} \cup (Final \ {"ok", "unanswered"})
    BY <1>2 DEF Outside
<1>4. CASE Receive(r)
    BY <1>1, <1>2, <1>4 DEF Receive, Move, Writes
<1>5. CASE RefuseBody(r)
    BY <1>1, <1>5 DEF RefuseBody, Proceed, Move, Final
<1>6. CASE Abandon(r)
    BY <1>1, <1>3, <1>6 DEF Abandon, Proceed, Move, Applied, Final
<1>7. CASE Step(r)
    <2>1. Authenticate(r)
        BY <1>3, <1>7 DEF Step, Final, Authenticate, CheckPublisherCap, InsertWorkflow,
           InsertFirstVersion, CommitCreate, OwnedWorkflowId, ReadMax, InsertVersion,
           Relist, CommitPublish, Update, Unlist, ResolveSlug, ReadDocument, Answer,
           MayAnswer
    <2> QED BY <1>1, <2>1 DEF Authenticate, Authenticates, Proceed, Move, Final
<1> QED BY <1>2, <1>4, <1>5, <1>6, <1>7, OwnStage

\* A request that has yet to authenticate when its publisher is blocked has no
\* effect for as long as the block lasts, whatever the others do.
THEOREM BlocksStop == Spec => BlockStopsPublishing
<1> SUFFICES ASSUME NEW r \in Requests
             PROVE  Spec => [](/\ pc[r] \in {"new", "auth"}
                               /\ [](request[r].publisher \in blocked)
                               => []~Applied(r))
    BY DEF BlockStopsPublishing
<1>1. pc[r] \in {"new", "auth"} => Outside(r)
    BY DEF Outside
<1>2. Outside(r) => ~Applied(r)
    BY DEF Outside, Applied, Final
<1>3. IInv /\ [Next]_vars /\ Outside(r) /\ request[r].publisher \in blocked => Outside(r)'
    BY OutsideStep
<1>4. Spec => []IInv /\ [][Next]_vars
    BY Invariance, PTL DEF Spec
<1> QED BY <1>1, <1>2, <1>3, <1>4, PTL

-----------------------------------------------------------------------------
(* The tables read as a library.                                           *)

\* A version that is there is the one Document finds.
LEMMA DocumentOf ==
  ASSUME IInv, NEW v \in versions
  PROVE  Document(v.slug, v.version) = v.doc
BY DEF IInv, NoGaps, Document

\* Every number up to the highest has a version.
LEMMA VersionThere ==
  ASSUME IInv, NEW s \in Slugs, NEW n \in 1 .. TopVersion(s)
  PROVE  \E v \in versions : v.slug = s /\ v.version = n
<1>1. n \in VersionNumbers(s)
    BY DEF IInv, NoGaps
<1> QED BY <1>1 DEF VersionNumbers

\* Versions are added and never changed, so the documents there are stay.
LEMMA DocumentKept ==
  ASSUME IInv, IInv', versions \subseteq versions',
         NEW s \in Slugs, NEW n \in 1 .. TopVersion(s)
  PROVE  Document(s, n)' = Document(s, n)
<1>1. PICK v \in versions : v.slug = s /\ v.version = n
    BY VersionThere
<1>2. Document(s, n) = v.doc
    BY <1>1, DocumentOf
<1>3. \A w \in versions' : w.slug = s /\ w.version = n => w = v
    BY <1>1 DEF IInv, NoGaps
<1>4. Document(s, n)' = v.doc
    BY <1>1, <1>3 DEF Document
<1> QED BY <1>2, <1>4

LEMMA HistoryIsSequence ==
  ASSUME IInv, NEW s \in Slugs
  PROVE  /\ TopVersion(s) \in Nat
         /\ [n \in 1 .. TopVersion(s) |-> Document(s, n)] \in Seq(Ids)
<1>1. TopVersion(s) \in Nat
    BY DEF IInv, Counted
<1>2. ASSUME NEW n \in 1 .. TopVersion(s) PROVE Document(s, n) \in Ids
    <2>1. PICK v \in versions : v.slug = s /\ v.version = n
        BY VersionThere
    <2>2. v.doc \in Ids
        BY DEF IInv, TypeOK, VersionRow
    <2> QED BY <2>1, <2>2, DocumentOf
<1> QED BY <1>1, <1>2

-----------------------------------------------------------------------------
(* Steps that the library does not see.                                    *)

LEMMA Unseen ==
  ASSUME UNCHANGED <<workflows, versions, request>>,
         \A q \in Requests : Applied(q)' = Applied(q)
  PROVE  UNCHANGED L!libraryVars
<1>1. \A s : TopVersion(s)' = TopVersion(s)
    BY SameVersions
<1>2. \A s, n : Document(s, n)' = Document(s, n)
    BY DEF Document
<1>3. \A s : LibraryEntry(s)' = LibraryEntry(s)
    BY <1>1, <1>2 DEF LibraryEntry
<1>4. [s \in DOMAIN workflows |-> LibraryEntry(s)]' = [s \in DOMAIN workflows |-> LibraryEntry(s)]
    BY <1>3
<1>5. {r \in Requests : Applied(r)}' = {r \in Requests : Applied(r)}
    OBVIOUS
<1> QED BY <1>4, <1>5 DEF L!libraryVars

\* A request that moves on without starting or ceasing to be applied.
LEMMA QuietRefines ==
  ASSUME IInv, NEW r \in Requests, NEW stage,
         pc' = [pc EXCEPT ![r] = stage],
         UNCHANGED <<workflows, versions, request>>,
         (request[r].op \in Writes /\ stage \in {"respond", "ok", "unanswered"}) <=> Applied(r)
  PROVE  UNCHANGED L!libraryVars
<1>1. \A q \in Requests : pc'[q] = IF q = r THEN stage ELSE pc[q]
    BY DEF IInv, TypeOK
<1>2. \A q \in Requests : Applied(q)' = Applied(q)
    BY <1>1 DEF Applied
<1> QED BY <1>2, Unseen

LEMMA QuietStepsRefine ==
  ASSUME IInv, NEW r \in Requests,
         \/ Receive(r) \/ RefuseBody(r) \/ Abandon(r)
         \/ Authenticate(r) \/ CheckPublisherCap(r) \/ InsertWorkflow(r)
         \/ InsertFirstVersion(r) \/ OwnedWorkflowId(r) \/ ReadMax(r)
         \/ InsertVersion(r) \/ Relist(r) \/ ResolveSlug(r) \/ ReadDocument(r)
         \/ Answer(r)
  PROVE  UNCHANGED L!libraryVars
<1>0. StageFits(r)
    BY DEF IInv, RequestOK
<1>1. ASSUME NEW stage, Proceed(r, stage), pc[r] \notin {"respond", "ok", "unanswered"},
             stage \notin {"respond", "ok", "unanswered"}
      PROVE  UNCHANGED L!libraryVars
    BY <1>1, QuietRefines DEF Proceed, Move, tables, Applied
<1>2. CASE Receive(r)
    <2>1. \E stage \in {"auth", "resolve"} : pc' = [pc EXCEPT ![r] = stage]
        BY <1>2 DEF Receive, Move
    <2>2. ~Applied(r) /\ UNCHANGED <<workflows, versions, request>>
        BY <1>2 DEF Receive, Applied, tables
    <2> QED BY <2>1, <2>2, QuietRefines
<1>3. CASE Abandon(r)
    <2>1. PICK stage \in {"aborted", "unanswered"} :
            Proceed(r, stage) /\ (stage = "unanswered" <=> Applied(r))
        BY <1>3 DEF Abandon
    <2>2. Applied(r) => request[r].op \in Writes
        BY DEF Applied
    <2> QED BY <2>1, <2>2, QuietRefines DEF Proceed, Move, tables
<1>4. CASE RefuseBody(r)
    BY <1>4, <1>1 DEF RefuseBody
<1>5. CASE Authenticate(r)
    BY <1>5, <1>1 DEF Authenticate
<1>6. CASE CheckPublisherCap(r)
    BY <1>6, <1>1 DEF CheckPublisherCap
<1>7. CASE InsertWorkflow(r)
    BY <1>7, <1>1 DEF InsertWorkflow
<1>8. CASE InsertFirstVersion(r)
    BY <1>8, QuietRefines DEF InsertFirstVersion, Move, tables, Applied
<1>9. CASE OwnedWorkflowId(r)
    BY <1>9, <1>0, <1>1 DEF OwnedWorkflowId, StageFits
<1>10. CASE ReadMax(r)
    BY <1>10, QuietRefines DEF ReadMax, Move, tables, Applied
<1>11. CASE InsertVersion(r)
    BY <1>11, <1>1 DEF InsertVersion
<1>12. CASE Relist(r)
    BY <1>12, <1>1 DEF Relist
<1>13. CASE ResolveSlug(r)
    BY <1>13, <1>1 DEF ResolveSlug
<1>14. CASE ReadDocument(r)
    <2>1. PICK stage \in {"respond", "not_found"} : Proceed(r, stage)
        BY <1>14 DEF ReadDocument
    <2>2. request[r].op = "fetch"
        BY <1>14, <1>0 DEF ReadDocument, StageFits
    <2> QED BY <2>1, <2>2, QuietRefines DEF Proceed, Move, tables, Applied, Writes
<1>15. CASE Answer(r)
    BY <1>15, QuietRefines DEF Answer, MayAnswer, Proceed, Move, tables, Applied
<1> QED BY <1>2, <1>3, <1>4, <1>5, <1>6, <1>7, <1>8, <1>9, <1>10, <1>11, <1>12,
        <1>13, <1>14, <1>15

-----------------------------------------------------------------------------
(* Steps of the library.                                                   *)

\* A request that gets to its commit, or to its one statement, has had no
\* effect so far; then it has.
LEMMA Applying ==
  ASSUME IInv, NEW r \in Requests, request[r].op \in Writes,
         pc[r] \in {"commit", "update", "unlist"},
         pc' = [pc EXCEPT ![r] = "respond"], UNCHANGED request
  PROVE  /\ r \notin {q \in Requests : Applied(q)}
         /\ {q \in Requests : Applied(q)}' = {q \in Requests : Applied(q)} \cup {r}
<1>1. \A q \in Requests : pc'[q] = IF q = r THEN "respond" ELSE pc[q]
    BY DEF IInv, TypeOK
<1>2. \A q \in Requests : Applied(q)' <=> Applied(q) \/ q = r
    BY <1>1 DEF Applied
<1>3. ~Applied(r)
    BY DEF Applied
<1> QED BY <1>2, <1>3

\* The entries a step does not touch read as before.
LEMMA EntryKept ==
  ASSUME IInv, IInv', versions \subseteq versions', NEW s \in DOMAIN workflows,
         TopVersion(s)' = TopVersion(s)
  PROVE  LibraryEntry(s)' =
           [owner |-> workflows'[s].publisher, listed |-> workflows'[s].listed,
            official |-> workflows'[s].official, label |-> workflows'[s].label,
            history |-> LibraryEntry(s).history]
<1>1. s \in Slugs
    BY DEF IInv, TypeOK
<1>2. [n \in 1 .. TopVersion(s) |-> Document(s, n)]' = [n \in 1 .. TopVersion(s) |-> Document(s, n)]
    <2>1. \A n \in 1 .. TopVersion(s) : Document(s, n)' = Document(s, n)
        BY <1>1, DocumentKept
    <2> QED BY <2>1
<1> QED BY <1>2 DEF LibraryEntry

\* One more version makes a history one longer, at its end.
LEMMA HistoryGrows ==
  ASSUME IInv, IInv', NEW r \in Requests, AddVersion(r), UNCHANGED num,
         NEW s \in Slugs, s = request[r].slug,
         num[r] = TopVersion(s) + 1, TopVersion(s)' = TopVersion(s) + 1
  PROVE  [n \in 1 .. TopVersion(s) |-> Document(s, n)]'
           = Append([n \in 1 .. TopVersion(s) |-> Document(s, n)], r)
<1>1. PICK k \in Nat, h \in Seq(Ids) :
        k = TopVersion(s) /\ h = [n \in 1 .. TopVersion(s) |-> Document(s, n)]
    BY HistoryIsSequence
<1> DEFINE row == [slug |-> s, version |-> k + 1, doc |-> r]
<1>0. r \in Ids
    BY DEF Ids
<1>2. Len(h) = k
    BY <1>1
<1>3. versions' = versions \cup {row}
    BY <1>1 DEF AddVersion
<1>4. Document(s, k + 1)' = r
    <2>1. row \in versions' /\ row.slug = s /\ row.version = k + 1 /\ row.doc = r
        BY <1>3
    <2> HIDE DEF row
    <2>2. \A v \in versions' : v.slug = s /\ v.version = k + 1 => v = row
        BY <2>1 DEF IInv, NoGaps
    <2> QED BY <2>1, <2>2 DEF Document
<1>5. \A n \in 1 .. k : Document(s, n)' = Document(s, n)
    BY <1>1, <1>3, DocumentKept
<1>6. [n \in 1 .. TopVersion(s) |-> Document(s, n)]'
        = [n \in 1 .. k + 1 |-> IF n = k + 1 THEN r ELSE h[n]]
    <2>1. \A n \in 1 .. k + 1 : Document(s, n)' = IF n = k + 1 THEN r ELSE h[n]
        BY <1>1, <1>4, <1>5
    <2> QED BY <2>1, <1>1
<1>7. Append(h, r) = [n \in 1 .. k + 1 |-> IF n = k + 1 THEN r ELSE h[n]]
    BY <1>0, <1>1, <1>2
<1> QED BY <1>1, <1>6, <1>7

LEMMA UnlistRefines ==
  ASSUME IInv, IInv', NEW r \in Requests, Unlist(r)
  PROVE  L!Unlist(r)
<1>1. PICK s \in Slugs : s = request[r].slug
    BY DEF IInv, TypeOK, Request
<1>2. /\ s \in DOMAIN workflows /\ workflows[s].publisher = request[r].publisher
      /\ request[r].op = "unlist"
    BY <1>1 DEF IInv, RequestOK, StageFits, Knows, Owning, Owns, Unlist
<1>3. L!Apply(r, "unlist")
    BY <1>2, Applying DEF Unlist, Move, L!Apply, Writes
<1>4. L!Owned(r)
    BY <1>1, <1>2 DEF L!Owned, LibraryEntry
<1>5. /\ DOMAIN workflows' = DOMAIN workflows
      /\ workflows'[s].publisher = workflows[s].publisher
      /\ workflows'[s].listed = FALSE
      /\ workflows'[s].official = workflows[s].official
      /\ workflows'[s].label = workflows[s].label
      /\ \A t \in DOMAIN workflows : t # s => workflows'[t] = workflows[t]
    BY <1>1, <1>2 DEF Unlist, IInv, TypeOK, Row
<1>6. \A t : TopVersion(t)' = TopVersion(t)
    BY SameVersions DEF Unlist
<1>7. \A t \in DOMAIN workflows :
        LibraryEntry(t)' = IF t = s THEN [LibraryEntry(s) EXCEPT !.listed = FALSE]
                                    ELSE LibraryEntry(t)
    <2> SUFFICES ASSUME NEW t \in DOMAIN workflows
                 PROVE  LibraryEntry(t)' = IF t = s THEN [LibraryEntry(s) EXCEPT !.listed = FALSE]
                                                    ELSE LibraryEntry(t)
        OBVIOUS
    <2>1. LibraryEntry(t)' =
           [owner |-> workflows'[t].publisher, listed |-> workflows'[t].listed,
            official |-> workflows'[t].official, label |-> workflows'[t].label,
            history |-> LibraryEntry(t).history]
        BY <1>6, EntryKept DEF Unlist
    <2>2. CASE t = s
        BY <2>1, <2>2, <1>5 DEF LibraryEntry
    <2>3. CASE t # s
        BY <2>1, <2>3, <1>5 DEF LibraryEntry
    <2> QED BY <2>2, <2>3
<1>8. [t \in DOMAIN workflows |-> LibraryEntry(t)]' =
        [[t \in DOMAIN workflows |-> LibraryEntry(t)] EXCEPT ![s].listed = FALSE]
    BY <1>2, <1>5, <1>7
<1> QED BY <1>1, <1>3, <1>4, <1>8 DEF L!Unlist

LEMMA UpdateRefines ==
  ASSUME IInv, IInv', NEW r \in Requests, Update(r)
  PROVE  L!Amend(r)
<1>1. PICK s \in Slugs : s = request[r].slug
    BY DEF IInv, TypeOK, Request
<1>2. /\ s \in DOMAIN workflows /\ workflows[s].publisher = request[r].publisher
      /\ request[r].op = "update"
    BY <1>1 DEF IInv, RequestOK, StageFits, Knows, Owning, Owns, Update
<1>3. L!Apply(r, "update")
    BY <1>2, Applying DEF Update, Move, L!Apply, Writes
<1>4. L!Owned(r)
    BY <1>1, <1>2 DEF L!Owned, LibraryEntry
<1>5. /\ DOMAIN workflows' = DOMAIN workflows
      /\ workflows'[s].publisher = workflows[s].publisher
      /\ workflows'[s].listed = workflows[s].listed
      /\ workflows'[s].official = workflows[s].official
      /\ workflows'[s].label = Amended(r, workflows[s].label)
      /\ \A t \in DOMAIN workflows : t # s => workflows'[t] = workflows[t]
    BY <1>1, <1>2 DEF Update, IInv, TypeOK, Row
<1>6. \A t : TopVersion(t)' = TopVersion(t)
    BY SameVersions DEF Update
<1> DEFINE amended == [f \in Fields |-> IF f \in request[r].fields THEN r
                                       ELSE LibraryEntry(s).label[f]]
<1>7. workflows'[s].label = amended
    BY <1>5 DEF Amended, LibraryEntry
<1> HIDE DEF amended
<1>8. \A t \in DOMAIN workflows :
        LibraryEntry(t)' = IF t = s THEN [LibraryEntry(s) EXCEPT !.label = amended]
                                    ELSE LibraryEntry(t)
    <2> TAKE t \in DOMAIN workflows
    <2>1. LibraryEntry(t)' =
           [owner |-> workflows'[t].publisher, listed |-> workflows'[t].listed,
            official |-> workflows'[t].official, label |-> workflows'[t].label,
            history |-> LibraryEntry(t).history]
        BY <1>6, EntryKept DEF Update
    <2>2. CASE t = s
        BY <2>1, <2>2, <1>5, <1>7 DEF LibraryEntry
    <2>3. CASE t # s
        BY <2>1, <2>3, <1>5 DEF LibraryEntry
    <2> QED BY <2>2, <2>3
<1>9. [t \in DOMAIN workflows |-> LibraryEntry(t)]' =
        [[t \in DOMAIN workflows |-> LibraryEntry(t)] EXCEPT ![s].label = amended]
    BY <1>2, <1>5, <1>8
<1>10. [[t \in DOMAIN workflows |-> LibraryEntry(t)] EXCEPT ![s].label = amended] =
       [[t \in DOMAIN workflows |-> LibraryEntry(t)] EXCEPT ![s].label =
          [f \in Fields |-> IF f \in request[r].fields THEN r ELSE @[f]]]
    BY <1>2 DEF amended
<1> QED BY <1>1, <1>3, <1>4, <1>9, <1>10 DEF L!Amend

LEMMA SetOfficialRefines ==
  ASSUME IInv, IInv', NEW s \in Slugs, NEW value \in BOOLEAN, SetOfficial(s, value)
  PROVE  s \in DOMAIN workflows /\ L!Badge(s, value)
<1>1. /\ s \in DOMAIN workflows
      /\ DOMAIN workflows' = DOMAIN workflows
      /\ workflows'[s].publisher = workflows[s].publisher
      /\ workflows'[s].listed = workflows[s].listed
      /\ workflows'[s].official = value
      /\ workflows'[s].label = workflows[s].label
      /\ \A t \in DOMAIN workflows : t # s => workflows'[t] = workflows[t]
    BY DEF SetOfficial, IInv, TypeOK, Row
<1>2. \A t : TopVersion(t)' = TopVersion(t)
    BY SameVersions DEF SetOfficial
<1>3. \A t \in DOMAIN workflows :
        LibraryEntry(t)' = IF t = s THEN [LibraryEntry(s) EXCEPT !.official = value]
                                    ELSE LibraryEntry(t)
    <2> TAKE t \in DOMAIN workflows
    <2>1. LibraryEntry(t)' =
           [owner |-> workflows'[t].publisher, listed |-> workflows'[t].listed,
            official |-> workflows'[t].official, label |-> workflows'[t].label,
            history |-> LibraryEntry(t).history]
        BY <1>2, EntryKept DEF SetOfficial
    <2>2. CASE t = s
        BY <2>1, <2>2, <1>1 DEF LibraryEntry
    <2>3. CASE t # s
        BY <2>1, <2>3, <1>1 DEF LibraryEntry
    <2> QED BY <2>2, <2>3
<1>4. [t \in DOMAIN workflows |-> LibraryEntry(t)]' =
        [[t \in DOMAIN workflows |-> LibraryEntry(t)] EXCEPT ![s].official = value]
    BY <1>1, <1>3
<1>5. UNCHANGED request /\ {q \in Requests : Applied(q)}' = {q \in Requests : Applied(q)}
    BY DEF SetOfficial, Applied
<1> QED BY <1>1, <1>4, <1>5 DEF L!Badge

LEMMA CommitCreateRefines ==
  ASSUME IInv, IInv', NEW r \in Requests, CommitCreate(r)
  PROVE  L!Create(r)
<1>1. PICK s \in Slugs : s = request[r].slug
    BY DEF IInv, TypeOK, Request
<1>2. s \notin DOMAIN workflows /\ num[r] = 1 /\ request[r].op = "create"
    BY <1>1 DEF CommitCreate, IInv, RequestOK, Knows, HoldsSlug
<1>3. L!Apply(r, "create")
    BY <1>2, Applying DEF CommitCreate, Move, L!Apply, Writes
<1>4. TopVersion(s) = 0
    BY <1>2 DEF IInv, Counted, NoGaps
<1>5. /\ DOMAIN workflows' = DOMAIN workflows \cup {s}
      /\ workflows'[s] = NewRow(r)
      /\ \A t \in DOMAIN workflows : t # s /\ workflows'[t] = workflows[t]
    BY <1>1, <1>2 DEF CommitCreate, IInv, TypeOK
<1>6. versions' = versions \cup {[slug |-> s, version |-> 1, doc |-> r]}
    BY <1>1, <1>2 DEF CommitCreate, AddVersion
<1>7. VersionNumbers(s)' = VersionNumbers(s) \cup {1} /\ \A t : t # s => TopVersion(t)' = TopVersion(t)
    BY <1>6, AddedNumber DEF TopVersion
<1>8. TopVersion(s)' = 1
    <2>1. VersionNumbers(s)' = 1 .. 1
        BY <1>4, <1>7 DEF IInv, NoGaps
    <2>2. Max((1 .. 1) \cup {0}) = 1
        BY MaxOfRange
    <2> QED BY <2>1, <2>2 DEF TopVersion
<1>9. LibraryEntry(s)' = L!NewEntry(request[r].publisher, r)
    <2>1. /\ num[r] = TopVersion(s) + 1 /\ TopVersion(s)' = TopVersion(s) + 1
          /\ AddVersion(r) /\ UNCHANGED num
        BY <1>2, <1>4, <1>8 DEF CommitCreate
    <2>2. [n \in 1 .. TopVersion(s) |-> Document(s, n)]'
            = Append([n \in 1 .. TopVersion(s) |-> Document(s, n)], r)
        BY <1>1, <2>1, HistoryGrows
    <2>3. [n \in 1 .. TopVersion(s) |-> Document(s, n)] = << >>
        BY <1>4
    <2>4. Append(<< >>, r) = <<r>>
        OBVIOUS
    <2>5. [n \in 1 .. TopVersion(s) |-> Document(s, n)]' = <<r>>
        BY <2>2, <2>3, <2>4
    <2>6. LibraryEntry(s)' =
           [owner |-> workflows'[s].publisher, listed |-> workflows'[s].listed,
            official |-> workflows'[s].official, label |-> workflows'[s].label,
            history |-> <<r>>]
        BY <2>5 DEF LibraryEntry
    <2>7. /\ workflows'[s].publisher = request[r].publisher /\ workflows'[s].listed = TRUE
          /\ workflows'[s].official = FALSE /\ workflows'[s].label = [f \in Fields |-> r]
        BY <1>5 DEF NewRow
    <2> QED BY <2>6, <2>7 DEF L!NewEntry
<1>10. \A t \in DOMAIN workflows : LibraryEntry(t)' = LibraryEntry(t)
    <2> TAKE t \in DOMAIN workflows
    <2>1. LibraryEntry(t)' =
           [owner |-> workflows'[t].publisher, listed |-> workflows'[t].listed,
            official |-> workflows'[t].official, label |-> workflows'[t].label,
            history |-> LibraryEntry(t).history]
        BY <1>5, <1>6, <1>7, EntryKept
    <2> QED BY <2>1, <1>5 DEF LibraryEntry
<1> QED BY <1>1, <1>2, <1>3, <1>5, <1>9, <1>10 DEF L!Create

LEMMA CommitPublishRefines ==
  ASSUME IInv, IInv', NEW r \in Requests, CommitPublish(r)
  PROVE  L!Publish(r)
<1>1. PICK s \in Slugs : s = request[r].slug
    BY DEF IInv, TypeOK, Request
<1>2. /\ s \in DOMAIN workflows /\ workflows[s].publisher = request[r].publisher
      /\ request[r].op = "publish" /\ num[r] = TopVersion(s) + 1
    BY <1>1 DEF CommitPublish, IInv, RequestOK, Knows, Owning, Owns, Inserting
<1>3. L!Apply(r, "publish")
    BY <1>2, Applying DEF CommitPublish, Move, L!Apply, Writes
<1>4. L!Owned(r)
    BY <1>1, <1>2 DEF L!Owned, LibraryEntry
<1>5. /\ DOMAIN workflows' = DOMAIN workflows
      /\ workflows'[s].publisher = workflows[s].publisher
      /\ workflows'[s].listed = TRUE
      /\ workflows'[s].official = workflows[s].official
      /\ workflows'[s].label = workflows[s].label
      /\ \A t \in DOMAIN workflows : t # s => workflows'[t] = workflows[t]
    BY <1>1, <1>2 DEF CommitPublish, IInv, TypeOK, Row
<1>6. versions' = versions \cup {[slug |-> s, version |-> num[r], doc |-> r]}
    BY <1>1, <1>2 DEF CommitPublish, AddVersion
<1>7. /\ VersionNumbers(s)' = VersionNumbers(s) \cup {num[r]}
      /\ \A t : t # s => TopVersion(t)' = TopVersion(t)
    BY <1>6, AddedNumber DEF TopVersion
<1>8. TopVersion(s)' = TopVersion(s) + 1
    <2>1. PICK k \in Nat : k = TopVersion(s)
        BY DEF IInv, Counted
    <2>2. VersionNumbers(s)' = 1 .. k + 1
        BY <2>1, <1>2, <1>7 DEF IInv, NoGaps
    <2>3. Max((1 .. k + 1) \cup {0}) = k + 1
        BY MaxOfRange
    <2> QED BY <2>1, <2>2, <2>3 DEF TopVersion
<1>9. LibraryEntry(s)' = L!Extended(LibraryEntry(s), r)
    <2>1. [n \in 1 .. TopVersion(s) |-> Document(s, n)]'
            = Append([n \in 1 .. TopVersion(s) |-> Document(s, n)], r)
        BY <1>1, <1>2, <1>8, HistoryGrows DEF CommitPublish
    <2>2. PICK h : h = [n \in 1 .. TopVersion(s) |-> Document(s, n)]
        OBVIOUS
    <2>3. LibraryEntry(s) =
           [owner |-> workflows[s].publisher, listed |-> workflows[s].listed,
            official |-> workflows[s].official, label |-> workflows[s].label,
            history |-> h]
        BY <2>2 DEF LibraryEntry
    <2>4. LibraryEntry(s)' =
           [owner |-> workflows'[s].publisher, listed |-> workflows'[s].listed,
            official |-> workflows'[s].official, label |-> workflows'[s].label,
            history |-> Append(h, r)]
        BY <2>1, <2>2 DEF LibraryEntry
    <2>5. /\ LibraryEntry(s).owner = workflows[s].publisher
          /\ LibraryEntry(s).official = workflows[s].official
          /\ LibraryEntry(s).label = workflows[s].label
          /\ LibraryEntry(s).history = h
        BY <2>3
    <2>6. L!Extended(LibraryEntry(s), r) =
           [owner |-> workflows[s].publisher, listed |-> TRUE,
            official |-> workflows[s].official, label |-> workflows[s].label,
            history |-> Append(h, r)]
        BY <2>5 DEF L!Extended
    <2> QED BY <1>5, <2>4, <2>6
<1>10. \A t \in DOMAIN workflows : t # s => LibraryEntry(t)' = LibraryEntry(t)
    <2> TAKE t \in DOMAIN workflows
    <2> HAVE t # s
    <2>1. LibraryEntry(t)' =
           [owner |-> workflows'[t].publisher, listed |-> workflows'[t].listed,
            official |-> workflows'[t].official, label |-> workflows'[t].label,
            history |-> LibraryEntry(t).history]
        BY <1>6, <1>7, EntryKept
    <2> QED BY <2>1, <1>5 DEF LibraryEntry
<1>11. [t \in DOMAIN workflows |-> LibraryEntry(t)]' =
        [[t \in DOMAIN workflows |-> LibraryEntry(t)] EXCEPT
           ![s] = L!Extended(LibraryEntry(s), r)]
    BY <1>2, <1>5, <1>9, <1>10
<1>12. [t \in DOMAIN workflows |-> LibraryEntry(t)][s] = LibraryEntry(s)
    BY <1>2
<1> QED BY <1>1, <1>3, <1>4, <1>11, <1>12 DEF L!Publish

-----------------------------------------------------------------------------
(* The refinement.                                                         *)

LEMMA InitRefines == Init => L!Init
<1> SUFFICES ASSUME Init PROVE L!Init
    OBVIOUS
<1>1. IInv
    BY InitIInv
<1>2. request \in [Requests -> L!Ask]
    BY <1>1 DEF IInv, TypeOK, Request, Writes, L!Ask
<1>3. {q \in Requests : Applied(q)} = {}
    BY DEF Init, Applied
<1>4. ASSUME NEW s \in DOMAIN Seed
      PROVE  LibraryEntry(s) = L!NewEntry(Seed[s], Seeded)
    <2> DEFINE row == [slug |-> s, version |-> 1, doc |-> Seeded]
    <2>1. row \in versions /\ \A v \in versions : v.version = 1 /\ v.doc = Seeded
        BY DEF Init
    <2>2. s \in Slugs /\ s \in DOMAIN workflows
        BY SeedAssumption DEF Init
    <2>3. PICK k \in Nat : k = TopVersion(s)
        BY <1>1, <2>2 DEF IInv, Counted
    <2>4. VersionNumbers(s) = 1 .. k /\ k >= 1
        BY <1>1, <2>2, <2>3 DEF IInv, NoGaps
    <2>5. \A m \in VersionNumbers(s) : m = 1
        BY <2>1 DEF VersionNumbers
    <2>6. k = 1
        BY <2>4, <2>5
    <2>7. Document(s, 1) = Seeded
        <3>1. row.slug = s /\ row.version = 1 /\ row.doc = Seeded
            OBVIOUS
        <3> HIDE DEF row
        <3> QED BY <1>1, <2>1, <3>1, DocumentOf
    <2>8. [n \in 1 .. TopVersion(s) |-> Document(s, n)] = <<Seeded>>
        BY <2>3, <2>6, <2>7
    <2> QED BY <2>8 DEF Init, LibraryEntry, L!NewEntry
<1>5. DOMAIN workflows = DOMAIN Seed
    BY DEF Init
<1> QED BY <1>2, <1>3, <1>4, <1>5 DEF L!Init

LEMMA NextRefines == IInv /\ IInv' /\ [Next]_vars => [L!Next]_(L!libraryVars)
<1> SUFFICES ASSUME IInv, IInv', [Next]_vars PROVE [L!Next]_(L!libraryVars)
    OBVIOUS
<1>1. ASSUME NEW r \in Requests, Receive(r) \/ RefuseBody(r) \/ Abandon(r)
      PROVE  UNCHANGED L!libraryVars
    BY <1>1, QuietStepsRefine
<1>2. ASSUME NEW r \in Requests, Step(r)
      PROVE  \/ UNCHANGED L!libraryVars
             \/ L!Create(r) \/ L!Publish(r) \/ L!Amend(r) \/ L!Unlist(r)
    BY <1>2, QuietStepsRefine, CommitCreateRefines, CommitPublishRefines, UpdateRefines,
       UnlistRefines DEF Step
<1>3. ASSUME NEW s \in Slugs, NEW value \in BOOLEAN, SetOfficial(s, value)
      PROVE  L!Next
    <2>1. s \in DOMAIN workflows /\ L!Badge(s, value)
        BY <1>3, SetOfficialRefines
    <2> QED BY <2>1 DEF L!Next
<1>4. ASSUME UNCHANGED <<workflows, versions, request, pc>>
      PROVE  UNCHANGED L!libraryVars
    BY <1>4, Unseen DEF Applied
<1>5. CASE Operator
    BY <1>5, <1>3, <1>4 DEF Operator, SetBlocked, Withdraw
<1>6. CASE UNCHANGED vars
    BY <1>6, <1>4 DEF vars
<1>7. CASE Idle
    BY <1>7, <1>6 DEF Idle
<1>8. ASSUME NEW r \in Requests, L!Create(r) \/ L!Publish(r) \/ L!Amend(r) \/ L!Unlist(r)
      PROVE  L!Next
    BY <1>8 DEF L!Next
<1> QED BY <1>1, <1>2, <1>5, <1>6, <1>7, <1>8 DEF Next

\* Every behaviour of the service reads as one of the library: a request, though
\* it is a series of statements that interleave with those of others, takes
\* effect in one step, at most once, as its entry's owner, or not at all.
THEOREM Refinement == Spec => ImplementsLibrary
BY InitRefines, NextRefines, Invariance, PTL DEF Spec, ImplementsLibrary, L!Spec
=============================================================================
