----------------------------- MODULE Publishing -----------------------------
(***************************************************************************)
(* The publisher's half of the service: the handlers of routes/workflows.rs*)
(* that write, the version read, and the operator's two flags, as they run *)
(* concurrently over one Postgres.                                         *)
(*                                                                         *)
(* A handler is a task that suspends at every database statement, so each  *)
(* statement is one action and a request's stage says which statement it   *)
(* executes next.  The database runs at READ COMMITTED: a statement sees   *)
(* what has been committed when it starts, an inserted row is invisible to *)
(* others until its transaction commits, and an insert that collides with  *)
(* another transaction's uncommitted row waits for that transaction to     *)
(* end.  What an open transaction has written is a function of its stage,  *)
(* so workflows and versions hold committed rows only.                     *)
(***************************************************************************)
EXTENDS Integers, FiniteSets, FiniteSetsExt

CONSTANTS
  Requests,     \* every request the service will ever be sent
  Publishers,   \* holders of a live publisher token
  Slugs,        \* valid slugs; a slug stands for its workflow's id too
  Fields,       \* the amendable columns: title, description, tags
  Seed,         \* workflows the database already holds: slug -> publisher
  Seeded,       \* the author of their version 1, in place of a request
  Cap,          \* max_workflows_per_publisher; zero or less turns it off
  Ops,          \* the operations a run lets callers use
  MaxInFlight   \* bound: requests being served at the same time

Ids == Requests \cup {Seeded}

ASSUME SeededAssumption == Seeded \notin Requests
ASSUME SeedAssumption ==
  /\ DOMAIN Seed \subseteq Slugs
  /\ \A s \in DOMAIN Seed : Seed[s] \in Publishers
ASSUME NumbersAssumption == Cap \in Int /\ MaxInFlight \in Nat \ {0}

VARIABLES
  blocked,      \* registry_publishers.blocked_at IS NOT NULL
  workflows,    \* registry_workflows: slug -> row, for the slugs in use
  versions,     \* registry_versions: a set of rows
  withdrawn,    \* the <<slug, version>> whose withdrawn_at is set
  request,      \* what each request asks for
  pc,           \* the statement each request executes next, or its answer
  num,          \* the version number a request reads, inserts or asks for
  base          \* history: the highest version of its slug on arrival

vars == <<blocked, workflows, versions, withdrawn, request, pc, num, base>>
tables == <<blocked, workflows, versions, withdrawn>>

Row == [publisher : Publishers, listed : BOOLEAN, official : BOOLEAN,
        label : [Fields -> Ids]]
VersionRow == [slug : Slugs, version : Nat, doc : Ids]

Writes == {"create", "publish", "update", "unlist"}
Request == [op : Writes \cup {"fetch"}, publisher : Publishers, slug : Slugs,
            fields : SUBSET Fields]

Waiting == {"auth", "cap", "insert_workflow", "insert_first", "own", "max",
            "insert_version", "relist", "commit", "update", "unlist",
            "resolve", "document", "respond"}
Final == {"ok", "bad_request", "forbidden", "not_found", "conflict",
          "aborted", "unanswered"}

InFlight(r) == pc[r] \in Waiting

\* The effect of r is committed, whether or not its caller has been told.
Applied(r) ==
  request[r].op \in Writes /\ pc[r] \in {"respond", "ok", "unanswered"}

-----------------------------------------------------------------------------
(* What statements see.                                                    *)

VersionNumbers(s) == {v.version : v \in {w \in versions : w.slug = s}}

\* COALESCE(max(version), 0)
TopVersion(s) == Max(VersionNumbers(s) \cup {0})

\* The plausible mistake of numbering after the advertised latest version.
NextVersionAfterLatest(s) ==
  Max({n \in VersionNumbers(s) : <<s, n>> \notin withdrawn} \cup {0}) + 1

NextVersion(s) == TopVersion(s) + 1

\* count(*) of the publisher's listed workflows
Held(p) ==
  Cardinality({s \in DOMAIN workflows :
                 workflows[s].publisher = p /\ workflows[s].listed})

\* An ownership lookup by slug alone.
OwnsAnySlug(p, s) == s \in DOMAIN workflows

Owns(p, s) == s \in DOMAIN workflows /\ workflows[s].publisher = p

\* Looking a version up the way the library's detail page does.
ResolvesListed(s) == s \in DOMAIN workflows /\ workflows[s].listed

Resolves(s) == s \in DOMAIN workflows

-----------------------------------------------------------------------------
(* What open transactions hold.                                            *)

\* Uncommitted row of registry_workflows: the unique index on slug is taken.
HoldsSlug(r, s) ==
  /\ request[r].op = "create" /\ request[r].slug = s
  /\ pc[r] \in {"insert_first", "commit"}

\* A conflict path that returns without ending its transaction.
HoldsVersionForGood(r, s, n) ==
  /\ request[r].op = "publish" /\ request[r].slug = s
  /\ num[r] = n
  /\ pc[r] \in {"relist", "commit", "aborted"}

\* A table without the unique constraint.
HoldsNoVersion(r, s, n) == FALSE

\* Uncommitted row of registry_versions: UNIQUE (workflow_id, version) is taken.
HoldsVersion(r, s, n) ==
  /\ request[r].op = "publish" /\ request[r].slug = s
  /\ num[r] = n
  /\ pc[r] \in {"relist", "commit"}

\* The row lock an UPDATE of registry_workflows keeps until its commit.
HoldsRow(r, s) ==
  request[r].op = "publish" /\ request[r].slug = s /\ pc[r] = "commit"

RowFree(s) == \A r \in Requests : ~HoldsRow(r, s)

-----------------------------------------------------------------------------
(* The life of a request.                                                  *)

Move(r, stage) == pc' = [pc EXCEPT ![r] = stage]

\* On with nothing else changed.  When the stage is an answer this is an early
\* return, and what the open transaction had written is rolled back.
Proceed(r, stage) == Move(r, stage) /\ UNCHANGED <<tables, request, num, base>>

\* The request arrives.  A version read names the version it is after.
Receive(r) ==
  /\ pc[r] = "new"
  /\ Cardinality({q \in Requests : InFlight(q)}) < MaxInFlight
  /\ base' = [base EXCEPT ![r] = TopVersion(request[r].slug)]
  /\ IF request[r].op = "fetch"
     THEN /\ Move(r, "resolve")
          /\ \E n \in 1 .. TopVersion(request[r].slug) + 1 :
               num' = [num EXCEPT ![r] = n]
     ELSE Move(r, "auth") /\ UNCHANGED num
  /\ UNCHANGED <<tables, request>>

\* The token lookup joins the publisher and refuses a blocked one.
AuthenticatesAnyToken(p) == TRUE

Authenticates(p) == p \notin blocked

Authenticate(r) ==
  /\ pc[r] = "auth"
  /\ IF Authenticates(request[r].publisher)
     THEN Proceed(r, IF request[r].op = "create" THEN "cap" ELSE "own")
     ELSE Proceed(r, "forbidden")

\* body.validate() runs before the first statement; unlist has no body.
RefuseBody(r) ==
  /\ pc[r] \in {"cap", "own"}
  /\ request[r].op # "unlist"
  /\ Proceed(r, "bad_request")

\* The outcome of an operation is sent.
AnswersEarly(r) == pc[r] \in {"commit", "respond"}

MayAnswer(r) == pc[r] = "respond"

Answer(r) == MayAnswer(r) /\ Proceed(r, "ok")

\* The database fails the statement, the caller hangs up, or the process is
\* killed: the handler is dropped and its transaction rolled back.  Once the
\* effect is committed only the answer is lost.
Abandon(r) ==
  /\ InFlight(r)
  /\ Proceed(r, IF Applied(r) THEN "unanswered" ELSE "aborted")

-----------------------------------------------------------------------------
(* create.                                                                 *)

CheckPublisherCap(r) ==
  /\ pc[r] = "cap"
  /\ IF Cap <= 0 \/ Held(request[r].publisher) < Cap
     THEN Proceed(r, "insert_workflow")
     ELSE Proceed(r, "forbidden")

InsertWorkflow(r) ==
  LET s == request[r].slug IN
  /\ pc[r] = "insert_workflow"
  /\ \A q \in Requests \ {r} : ~HoldsSlug(q, s)
  /\ Proceed(r, IF s \in DOMAIN workflows THEN "conflict" ELSE "insert_first")

InsertFirstVersion(r) ==
  /\ pc[r] = "insert_first"
  /\ Move(r, "commit")
  /\ num' = [num EXCEPT ![r] = 1]
  /\ UNCHANGED <<tables, request, base>>

NewRow(r) ==
  [publisher |-> request[r].publisher, listed |-> TRUE, official |-> FALSE,
   label |-> [f \in Fields |-> r]]

AddVersion(r) ==
  versions' = versions \cup
                {[slug |-> request[r].slug, version |-> num[r], doc |-> r]}

CommitCreate(r) ==
  /\ pc[r] = "commit" /\ request[r].op = "create"
  /\ Move(r, "respond")
  /\ workflows' = [s \in DOMAIN workflows \cup {request[r].slug} |->
                     IF s = request[r].slug THEN NewRow(r) ELSE workflows[s]]
  /\ AddVersion(r)
  /\ UNCHANGED <<blocked, withdrawn, request, num, base>>

-----------------------------------------------------------------------------
(* publish_version, update and unlist.                                     *)

OwnedWorkflowId(r) ==
  /\ pc[r] = "own"
  /\ IF Owns(request[r].publisher, request[r].slug)
     THEN Proceed(r, IF request[r].op = "publish" THEN "max" ELSE request[r].op)
     ELSE Proceed(r, "not_found")

\* The SELECT under the INSERT sees what was committed when the statement
\* started; the insertion itself may have to wait.
ReadMax(r) ==
  /\ pc[r] = "max"
  /\ Move(r, "insert_version")
  /\ num' = [num EXCEPT ![r] = NextVersion(request[r].slug)]
  /\ UNCHANGED <<tables, request, base>>

\* The insertion made on the pool and not in the transaction: it is committed
\* whatever becomes of the rest.
InsertVersionOnPool(r) ==
  LET s == request[r].slug IN
  /\ pc[r] = "insert_version"
  /\ Move(r, IF num[r] \in VersionNumbers(s) THEN "conflict" ELSE "relist")
  /\ IF num[r] \in VersionNumbers(s) THEN UNCHANGED versions ELSE AddVersion(r)
  /\ UNCHANGED <<blocked, workflows, withdrawn, request, num, base>>

InsertVersion(r) ==
  LET s == request[r].slug IN
  /\ pc[r] = "insert_version"
  /\ \A q \in Requests \ {r} : ~HoldsVersion(q, s, num[r])
  /\ Proceed(r, IF num[r] \in VersionNumbers(s) THEN "conflict" ELSE "relist")

Relist(r) ==
  /\ pc[r] = "relist"
  /\ RowFree(request[r].slug)
  /\ Proceed(r, "commit")

CommitPublish(r) ==
  /\ pc[r] = "commit" /\ request[r].op = "publish"
  /\ Move(r, "respond")
  /\ workflows' = [workflows EXCEPT ![request[r].slug].listed = TRUE]
  /\ AddVersion(r)
  /\ UNCHANGED <<blocked, withdrawn, request, num, base>>

\* Without COALESCE an omitted field is nulled.
AmendedWithNulls(r, old) ==
  [f \in Fields |-> IF f \in request[r].fields THEN r ELSE "null"]

\* A form that sends every column back, whatever the caller named.
AmendedWholesale(r, old) == [f \in Fields |-> r]

Amended(r, old) == [f \in Fields |-> IF f \in request[r].fields THEN r ELSE old[f]]

Update(r) ==
  LET s == request[r].slug IN
  /\ pc[r] = "update"
  /\ RowFree(s)
  /\ Move(r, "respond")
  /\ workflows' = [workflows EXCEPT ![s].label = Amended(r, @)]
  /\ UNCHANGED <<blocked, versions, withdrawn, request, num, base>>

Unlist(r) ==
  LET s == request[r].slug IN
  /\ pc[r] = "unlist"
  /\ RowFree(s)
  /\ Move(r, "respond")
  /\ workflows' = [workflows EXCEPT ![s].listed = FALSE]
  /\ UNCHANGED <<blocked, versions, withdrawn, request, num, base>>

-----------------------------------------------------------------------------
(* version_document.                                                       *)

ResolveSlug(r) ==
  /\ pc[r] = "resolve"
  /\ Proceed(r, IF Resolves(request[r].slug) THEN "document" ELSE "not_found")

\* A withdrawn version is still served.
ReadDocument(r) ==
  /\ pc[r] = "document"
  /\ Proceed(r, IF num[r] \in VersionNumbers(request[r].slug)
                THEN "respond" ELSE "not_found")

-----------------------------------------------------------------------------
(* The operator: two endpoints that are one statement each, and the        *)
(* withdrawal of a version, which no endpoint does: it is made in SQL.     *)

SetOfficial(s, value) ==
  /\ "official" \in Ops
  /\ s \in DOMAIN workflows /\ RowFree(s)
  /\ workflows' = [workflows EXCEPT ![s].official = value]
  /\ UNCHANGED <<blocked, versions, withdrawn, request, pc, num, base>>

SetBlocked(p, value) ==
  /\ "block" \in Ops
  /\ blocked' = IF value THEN blocked \cup {p} ELSE blocked \ {p}
  /\ UNCHANGED <<workflows, versions, withdrawn, request, pc, num, base>>

Withdraw(s, n) ==
  /\ "withdraw" \in Ops
  /\ n \in VersionNumbers(s)
  /\ withdrawn' = withdrawn \cup {<<s, n>>}
  /\ UNCHANGED <<blocked, workflows, versions, request, pc, num, base>>

-----------------------------------------------------------------------------
(* The specification.                                                      *)

\* What callers ask in a run.  Only update names columns, and it names some;
\* a read is anonymous.
Asked ==
  {q \in Request :
     /\ q.op \in Ops
     /\ (q.op = "update") <=> (q.fields # {})
     /\ q.op = "fetch" => q.publisher = CHOOSE p \in Publishers : TRUE}

Init ==
  /\ blocked = {}
  /\ workflows = [s \in DOMAIN Seed |->
                    [publisher |-> Seed[s], listed |-> TRUE, official |-> FALSE,
                     label |-> [f \in Fields |-> Seeded]]]
  /\ versions = {[slug |-> s, version |-> 1, doc |-> Seeded] : s \in DOMAIN Seed}
  /\ withdrawn = {}
  /\ request \in [Requests -> Asked]
  /\ pc = [r \in Requests |-> "new"]
  /\ num = [r \in Requests |-> 0]
  /\ base = [r \in Requests |-> 0]

\* The statements of a request that the service itself drives to the end.
Step(r) ==
  \/ Authenticate(r)
  \/ CheckPublisherCap(r) \/ InsertWorkflow(r) \/ InsertFirstVersion(r)
  \/ CommitCreate(r)
  \/ OwnedWorkflowId(r)
  \/ ReadMax(r) \/ InsertVersion(r) \/ Relist(r) \/ CommitPublish(r)
  \/ Update(r) \/ Unlist(r)
  \/ ResolveSlug(r) \/ ReadDocument(r)
  \/ Answer(r)

Operator ==
  \/ \E s \in Slugs, value \in BOOLEAN : SetOfficial(s, value)
  \/ \E p \in Publishers, value \in BOOLEAN : SetBlocked(p, value)
  \/ \E s \in Slugs : \E n \in VersionNumbers(s) : Withdraw(s, n)

\* Every request has been dealt with: the one state in which nothing is left
\* to do, so that any other state without a step is a deadlock.
Idle == (\A r \in Requests : pc[r] \in Final) /\ UNCHANGED vars

Next ==
  \/ \E r \in Requests : Receive(r) \/ RefuseBody(r) \/ Step(r) \/ Abandon(r)
  \/ Operator
  \/ Idle

Spec == Init /\ [][Next]_vars

\* The runtime polls every task it holds, and Postgres wakes whoever waits for
\* a lock when the lock goes.  Nobody is obliged to send or drop a request.
FairSpec == Spec /\ \A r \in Requests : WF_vars(Step(r))

-----------------------------------------------------------------------------
(* Properties.                                                             *)

\* Every variable has its type; in particular an update that omits a column
\* (COALESCE in update) never leaves a NULL behind.
TypeOK ==
  /\ blocked \subseteq Publishers
  /\ DOMAIN workflows \subseteq Slugs
  /\ workflows \in [DOMAIN workflows -> Row]
  /\ versions \subseteq VersionRow
  /\ withdrawn \subseteq Slugs \X Nat
  /\ request \in [Requests -> Request]
  /\ pc \in [Requests -> {"new"} \cup Waiting \cup Final]
  /\ num \in [Requests -> Nat]
  /\ base \in [Requests -> Nat]

\* The versions of a slug in use are numbered 1, 2, ... k with none missing
\* and none twice, whatever races and whatever fails; a slug not in use has
\* none.  (create inserts 1, publish_version derives max + 1, and rows are
\* never deleted.)
NoGaps ==
  /\ \A s \in Slugs : VersionNumbers(s) = 1 .. TopVersion(s)
  /\ \A s \in Slugs : s \in DOMAIN workflows <=> TopVersion(s) >= 1
  /\ \A v, w \in versions :
       v.slug = w.slug /\ v.version = w.version => v = w

\* A caller told that its version was published finds its document under the
\* number it was told, for ever after: create and publish_version answer only
\* after their commit.
AnsweredIsServed ==
  \A r \in Requests :
    pc[r] = "ok" /\ request[r].op \in {"create", "publish"} =>
      [slug |-> request[r].slug, version |-> num[r], doc |-> r] \in versions

\* A request that was refused, lost a race, failed part-way or is still at
\* work has left nothing in the tables that others can see.
Left == {v.doc : v \in versions} \cup
        UNION {{workflows[s].label[f] : f \in Fields} : s \in DOMAIN workflows}

RefusedLeavesNothing == \A r \in Requests : r \in Left => Applied(r)

\* Everything in an entry was written by the account that owns the entry,
\* although ownership is read in one statement and used in later ones.
OwnerOnly ==
  /\ \A v \in versions :
       v.doc # Seeded => request[v.doc].publisher = workflows[v.slug].publisher
  /\ \A s \in DOMAIN workflows, f \in Fields :
       LET author == workflows[s].label[f] IN
       author # Seeded => request[author].publisher = workflows[s].publisher

\* "a concurrent publish took that version; retry": whoever is told so did
\* lose to a publish that was not there when its request arrived, so that the
\* retry the message asks for makes progress.
ConflictMeansContention ==
  \A r \in Requests :
    pc[r] = "conflict" /\ request[r].op = "publish" =>
      num[r] \in VersionNumbers(request[r].slug) /\ num[r] > base[r]

\* A version that existed when somebody asked for it is found, even when it is
\* withdrawn or its entry is unlisted between the two statements of the read.
FetchFindsPublished ==
  \A r \in Requests :
    pc[r] = "not_found" /\ request[r].op = "fetch" => num[r] > base[r]

\* A request that reaches the service after its publisher was blocked, and
\* while the block lasts, never has an effect.  (One that was authenticated
\* before the block may still commit after it.)
BlockStopsPublishing ==
  \A r \in Requests :
    [](/\ pc[r] \in {"new", "auth"}
       /\ [](request[r].publisher \in blocked)
       => []~Applied(r))

\* The next statement of r waits for the end of q's transaction.
WaitsFor(r, q) ==
  LET s == request[r].slug IN
  /\ q # r
  /\ \/ pc[r] = "insert_workflow" /\ HoldsSlug(q, s)
     \/ pc[r] = "insert_version" /\ HoldsVersion(q, s, num[r])
     \/ pc[r] \in {"relist", "update", "unlist"} /\ HoldsRow(q, s)

\* Nobody waits for somebody who waits in turn, nor for a transaction that is
\* over: Postgres never finds a cycle of waits to break, although a publish
\* takes its version and its row one after the other.
WaitsEnd ==
  \A r, q \in Requests : WaitsFor(r, q) =>
    InFlight(q) /\ \A p \in Requests : ~WaitsFor(q, p)

\* Nobody waits for ever, on a lock or otherwise: every request that has
\* arrived is answered or given up.
EveryRequestEnds == \A r \in Requests : InFlight(r) ~> pc[r] \in Final

\* "How many listed workflows one publisher may hold" (config.rs).
CapHeld == \A p \in Publishers : Cap > 0 => Held(p) <= Cap

\* The tables read as a library: the history of an entry is its documents in
\* the order of their numbers.
Document(s, n) == (CHOOSE v \in versions : v.slug = s /\ v.version = n).doc

LibraryEntry(s) ==
  [owner    |-> workflows[s].publisher,
   listed   |-> workflows[s].listed,
   official |-> workflows[s].official,
   label    |-> workflows[s].label,
   history  |-> [n \in 1 .. TopVersion(s) |-> Document(s, n)]]

L == INSTANCE Library WITH
  asked   <- request,
  entries <- [s \in DOMAIN workflows |-> LibraryEntry(s)],
  applied <- {r \in Requests : Applied(r)}

\* Requests as a whole: the statements of each one, whatever they interleave
\* with, amount to a single step of the library, taken at most once, on the
\* entry it names and on the terms of that entry's owner.
ImplementsLibrary == L!Spec
=============================================================================
