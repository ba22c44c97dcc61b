------------------------------ MODULE Listing ------------------------------
(***************************************************************************)
(* The read side of routes/workflows.rs: list, detail and versions, under  *)
(* the writes that move entries about while somebody reads.  A page is one *)
(* query of its own, over whatever is committed when it starts, so that a  *)
(* reader who walks through the pages sees a library that moves.           *)
(*                                                                         *)
(* That a publish, seen from outside, is one step at its commit is what    *)
(* Publishing_proofs shows.  What remains of the time before is the clock: *)
(* now() is the moment at which the transaction began, and a transaction   *)
(* that began earlier may commit later.                                    *)
(***************************************************************************)
EXTENDS Integers, Sequences, FiniteSets, FiniteSetsExt

CONSTANTS
  Slugs,       \* slugs of the entries
  Writers,     \* transactions that may be open at the same time
  Null,        \* a parameter that is not given; no value
  Params,      \* the queries callers send: subset of Param
  DefaultPage, \* the limit of a query that gives none (50)
  MaxPage,     \* the largest limit (200)
  MaxTime,     \* bound: how far the database's clock goes
  MaxVersion   \* bound: versions of one entry

Param == [tag : BOOLEAN, official : BOOLEAN \cup {Null},
          sort : {"installs", "recent"}, limit : Int \cup {Null}]

ASSUME ListingAssumption ==
  /\ DefaultPage \in Nat \ {0} /\ MaxPage \in Nat /\ DefaultPage <= MaxPage
  /\ {MaxTime, MaxVersion} \subseteq Nat
  /\ Null \notin BOOLEAN \cup Int
  /\ Params \subseteq Param /\ Params # {}
  /\ IsFiniteSet(Slugs)

VARIABLES
  entries,     \* registry_workflows, with the count of each one's installs
  versions,    \* registry_versions: slug -> rows, in the order of the numbers
  now,         \* the database's clock: how many writes have begun
  open,        \* the open transactions: writer -> what it writes, since when
  walk,        \* a reader that walks through the pages of one query
  firm,        \* history: entries nothing has left the front of in the walk
  unpushed,    \* history: entries nothing has got in front of in the walk
  landed       \* history: slug -> when its updated_at was set, and committed

library == <<entries, versions, landed>>
listingVars ==
  <<entries, versions, landed, now, open, walk, firm, unpushed>>

\* tagged: the title, description or tags answer to ?q= or ?tag=.
Row == [listed : BOOLEAN, official : BOOLEAN, tagged : BOOLEAN,
        installs : Nat, updated_at : Nat]
VersionRow == [published_at : Nat, withdrawn : BOOLEAN]
Writing == [op : {"create", "publish", "update"}, slug : Slugs, at : Nat]

-----------------------------------------------------------------------------
(* One query.                                                              *)

\* LIST_FILTER
Matching(p) ==
  {s \in DOMAIN entries :
     /\ entries[s].listed
     /\ p.tag => entries[s].tagged
     /\ p.official # Null => entries[s].official = p.official}

\* The two ORDER BY clauses.  s comes before t; of equals either may.
ByRecency(s, t) == entries[s].updated_at > entries[t].updated_at

ByInstalls(s, t) ==
  \/ entries[s].installs > entries[t].installs
  \/ entries[s].installs = entries[t].installs /\ ByRecency(s, t)

\* What the comment on ORDER_INSTALLS warns of: recency before installs.
AheadByRecency(sort, s, t) ==
  \/ entries[s].official /\ ~entries[t].official
  \/ entries[s].official = entries[t].official /\ ByRecency(s, t)

Ahead(sort, s, t) ==
  \/ entries[s].official /\ ~entries[t].official
  \/ /\ entries[s].official = entries[t].official
     /\ IF sort = "recent" THEN ByRecency(s, t) ELSE ByInstalls(s, t)

\* The orders in which Postgres may return the rows.
Orders(p) ==
  LET rows == Matching(p) IN
  {o \in [1 .. Cardinality(rows) -> rows] :
     \A i, j \in DOMAIN o : i < j => o[i] # o[j] /\ ~Ahead(p.sort, o[j], o[i])}

\* Without the lower end of the clamp.
LimitOrNothing(p) == IF p.limit = Null THEN DefaultPage ELSE Min({p.limit, MaxPage})

\* limit.unwrap_or(50).clamp(1, 200)
Limit(p) ==
  IF p.limit = Null THEN DefaultPage ELSE Max({1, Min({p.limit, MaxPage})})

\* A page counted from one, as page numbers are.
SkippedFromOne(offset) == Max({offset - 1, 0})

\* offset.unwrap_or(0).max(0)
Skipped(offset) == Max({offset, 0})

Pages(p, offset) ==
  {SubSeq(o, Skipped(offset) + 1, Min({Skipped(offset) + Limit(p), Len(o)})) :
     o \in Orders(p)}

\* The version published last, going by the dates.
LatestByDate(s) ==
  LET current == {n \in DOMAIN versions[s] : ~versions[s][n].withdrawn}
      last == {n \in current : \A m \in current :
                 versions[s][m].published_at <= versions[s][n].published_at}
  IN  Max(last \cup {0})

\* max(version) of those not withdrawn; 0 stands for NULL.
Latest(s) == Max({n \in DOMAIN versions[s] : ~versions[s][n].withdrawn} \cup {0})

\* What detail, like every row of a listing, says of an entry.
Detail(s) == IF s \in DOMAIN entries /\ entries[s].listed THEN Latest(s) ELSE Null

-----------------------------------------------------------------------------
(* What a walk has gone by.                                                *)

InFront(p, s) == {t \in Matching(p) : Ahead(p.sort, t, s)}

\* In the listing, at a place that is its own.
Placed(p, s) ==
  /\ s \in Matching(p)
  /\ \A t \in Matching(p) \ {s} : Ahead(p.sort, s, t) \/ Ahead(p.sort, t, s)

Walking == walk.stage = "reading"

\* Every write goes by the walk: what it does to the places of the others.
GoesBy ==
  LET p == walk.params IN
  IF Walking
  THEN /\ firm' = {s \in firm : Placed(p, s)' /\ InFront(p, s) \subseteq InFront(p, s)'}
       /\ unpushed' = {s \in unpushed :
                         Placed(p, s)' /\ InFront(p, s)' \subseteq InFront(p, s)}
  ELSE UNCHANGED <<firm, unpushed>>

Write == UNCHANGED walk /\ GoesBy

\* No two writes begin at the same time.
Tick == now < MaxTime /\ now' = now + 1

\* A write of one statement.
Statement == Tick /\ UNCHANGED <<landed, open>> /\ Write

-----------------------------------------------------------------------------
(* The writes.                                                             *)

\* A transaction begins: this is its now().  An amendment is one statement,
\* which begins before it gets to the row.
Begin(w, op, s) ==
  /\ open[w] = Null /\ Tick
  /\ \/ op = "create" /\ s \notin DOMAIN entries
     \/ op \in {"publish", "update"} /\ s \in DOMAIN entries
  /\ open' = [open EXCEPT ![w] = [op |-> op, slug |-> s, at |-> now']]
  /\ UNCHANGED <<library, walk, firm, unpushed>>

End(w) == open' = [open EXCEPT ![w] = Null]

Lands(s, w) ==
  landed' = [t \in DOMAIN landed \cup {s} |->
               IF t = s THEN [begun |-> open[w].at, at |-> now] ELSE landed[t]]

NewVersion(w) == [published_at |-> open[w].at, withdrawn |-> FALSE]

\* The first version left to a statement after the commit.
FirstVersionLater(w) == <<>>

FirstVersion(w) == <<NewVersion(w)>>

CommitCreate(w, tagged) ==
  LET s == open[w].slug
      row == [listed |-> TRUE, official |-> FALSE, tagged |-> tagged,
              installs |-> 0, updated_at |-> open[w].at]
  IN
  /\ open[w].op = "create" /\ s \notin DOMAIN entries
  /\ entries' = [t \in DOMAIN entries \cup {s} |-> IF t = s THEN row ELSE entries[t]]
  /\ versions' = [t \in DOMAIN versions \cup {s} |->
                    IF t = s THEN FirstVersion(w) ELSE versions[t]]
  /\ Lands(s, w) /\ End(w) /\ UNCHANGED now
  /\ Write

\* An UPDATE that leaves updated_at alone.
RelistedQuietly(row, at) ==
  [listed |-> TRUE, official |-> row.official, tagged |-> row.tagged,
   installs |-> row.installs, updated_at |-> row.updated_at]

Relisted(row, at) ==
  [listed |-> TRUE, official |-> row.official, tagged |-> row.tagged,
   installs |-> row.installs, updated_at |-> at]

CommitPublish(w) ==
  LET s == open[w].slug IN
  /\ open[w].op = "publish"
  /\ Len(versions[s]) < MaxVersion
  /\ entries' = [entries EXCEPT ![s] = Relisted(@, open[w].at)]
  /\ versions' = [versions EXCEPT ![s] = Append(@, NewVersion(w))]
  /\ Lands(s, w) /\ End(w) /\ UNCHANGED now
  /\ Write

Amended(row, at, tagged) ==
  [listed |-> row.listed, official |-> row.official, tagged |-> tagged,
   installs |-> row.installs, updated_at |-> at]

CommitUpdate(w, tagged) ==
  LET s == open[w].slug IN
  /\ open[w].op = "update"
  /\ entries' = [entries EXCEPT ![s] = Amended(@, open[w].at, tagged)]
  /\ Lands(s, w) /\ End(w) /\ UNCHANGED <<versions, now>>
  /\ Write

\* The statement fails, the slug or the number is taken, the caller hangs up.
RollBack(w) ==
  /\ open[w] # Null
  /\ End(w)
  /\ UNCHANGED <<library, now, walk, firm, unpushed>>

\* One statement each, and none sets updated_at: unlist, set_official, an
\* install that is recorded, forgotten or past its ninety days.
Unlist(s) ==
  /\ entries' = [entries EXCEPT ![s].listed = FALSE]
  /\ UNCHANGED versions /\ Statement

SetOfficial(s) ==
  /\ entries' = [entries EXCEPT ![s].official = ~@]
  /\ UNCHANGED versions /\ Statement

Installed(s, n) ==
  /\ n \in Nat
  /\ entries' = [entries EXCEPT ![s].installs = n]
  /\ UNCHANGED versions /\ Statement

\* Made in SQL, by no endpoint.
Withdraw(s, n) ==
  /\ ~versions[s][n].withdrawn
  /\ versions' = [versions EXCEPT ![s][n].withdrawn = TRUE]
  /\ UNCHANGED entries /\ Statement

-----------------------------------------------------------------------------
(* The reader, which is not part of the service: the site at build time, or*)
(* a harness that browses.                                                 *)

StartWalk(p) ==
  /\ walk.stage = "idle"
  /\ walk' = [stage |-> "reading", params |-> p, shown |-> <<>>]
  /\ firm' = {s \in Slugs : Placed(p, s)}
  /\ unpushed' = {s \in Slugs : Placed(p, s)}
  /\ UNCHANGED <<library, now, open>>

\* It asks for what comes after the rows that it has, until there are none.
List ==
  /\ Walking
  /\ \E page \in Pages(walk.params, Len(walk.shown)) :
       walk' = [stage  |-> IF page = <<>> THEN "done" ELSE "reading",
                params |-> walk.params,
                shown  |-> walk.shown \o page]
  /\ UNCHANGED <<library, now, open, firm, unpushed>>

-----------------------------------------------------------------------------

\* A library of any entries, each with no or one install, which have been
\* there since time 0.
Init ==
  \E there \in SUBSET Slugs :
  \E listed, more, badged \in SUBSET there :
    /\ entries = [s \in there |->
                    [listed |-> s \in listed, official |-> s \in badged,
                     tagged |-> TRUE, updated_at |-> 0,
                     installs |-> IF s \in more THEN 1 ELSE 0]]
    /\ versions = [s \in there |-> <<[published_at |-> 0, withdrawn |-> FALSE]>>]
    /\ landed = [s \in there |-> [begun |-> 0, at |-> 0]]
    /\ now = 0
    /\ open = [w \in Writers |-> Null]
    /\ walk = [stage |-> "idle", params |-> CHOOSE p \in Params : TRUE, shown |-> <<>>]
    /\ firm = {} /\ unpushed = {}

WriterStep ==
  \/ \E w \in Writers, s \in Slugs, op \in {"create", "publish", "update"} :
       Begin(w, op, s)
  \/ \E w \in Writers :
       /\ open[w] # Null
       /\ \/ \E tagged \in BOOLEAN : CommitCreate(w, tagged) \/ CommitUpdate(w, tagged)
          \/ CommitPublish(w)
          \/ RollBack(w)
  \/ \E s \in DOMAIN entries :
       \/ Unlist(s) \/ SetOfficial(s)
       \/ \E n \in {entries[s].installs - 1, entries[s].installs + 1} : Installed(s, n)
       \/ \E n \in DOMAIN versions[s] : Withdraw(s, n)

\* Bound: a run ends with its walk.
Next ==
  \/ walk.stage # "done" /\ WriterStep
  \/ \E p \in Params : StartWalk(p)
  \/ List

Spec == Init /\ [][Next]_listingVars

-----------------------------------------------------------------------------
(* Properties.                                                             *)

\* Every variable has its type; an entry has a version 1 (create inserts both
\* in one transaction, "a workflow with no versions is not something the read
\* side knows how to render").
TypeOK ==
  /\ entries \in [DOMAIN entries -> Row] /\ DOMAIN entries \subseteq Slugs
  /\ DOMAIN versions = DOMAIN entries
  /\ \A s \in DOMAIN versions :
       versions[s] \in Seq(VersionRow) /\ versions[s] # <<>>
  /\ landed \in [DOMAIN entries -> [begun : Nat, at : Nat]]
  /\ now \in Nat /\ open \in [Writers -> Writing \cup {Null}]
  /\ walk.stage \in {"idle", "reading", "done"} /\ walk.params \in Param
  /\ walk.shown \in Seq(Slugs)
  /\ firm \cup unpushed \subseteq Slugs

\* A walk through the pages that has come to an end has shown every entry
\* that was in the listing throughout, unless something that was in front of
\* the entry left or fell behind it in the meantime, or the entry was level
\* with another, whatever limit the caller asked for.  (limit, offset and the
\* clamps in list.)
WalkMissesNothingFirm ==
  walk.stage = "done" => \A s \in firm : \E i \in DOMAIN walk.shown : walk.shown[i] = s

\* It has shown no entry twice, unless something got in front of the entry, or
\* the entry was level with another.
WalkRepeatsNothingUnpushed ==
  \A i, j \in DOMAIN walk.shown :
    walk.shown[i] = walk.shown[j] /\ i # j => walk.shown[i] \notin unpushed

\* "Ordering by installs makes a workflow nobody installs invisible however
\* many are published": the first page of a default listing shows no entry
\* without the badge in place of one that has more installs, whatever has
\* been published, amended and relisted since.
FirstPageIsEarned ==
  [][walk.stage = "reading" /\ walk.shown = <<>> /\ walk.params.sort = "installs" =>
       \A i \in DOMAIN walk'.shown : \A t \in Matching(walk.params) :
         LET s == walk'.shown[i] IN
         entries[s].installs < entries[t].installs /\ ~entries[s].official =>
           \E j \in 1 .. i : walk'.shown[j] = t]_walk

\* What landed later is newer: of two entries, the one whose last publish or
\* amendment began after that of the other had been committed is not the
\* older one in the order of ?sort=recent.  (Two that overlap may stand in
\* either order, since now() is when they began.)
LaterIsNewer ==
  \A s, t \in DOMAIN entries :
    landed[s].begun > landed[t].at => entries[s].updated_at > entries[t].updated_at

\* What is published and not withdrawn is advertised, or something newer is,
\* as long as the entry is listed; in particular the number a publisher was
\* told, when two publishes overlapped and the later number began earlier.
PublishedIsAdvertised ==
  \A s \in DOMAIN entries :
    /\ entries[s].listed => Detail(s) # Null
    /\ \A n \in DOMAIN versions[s] :
         entries[s].listed /\ ~versions[s][n].withdrawn =>
           Detail(s) >= n /\ ~versions[s][Detail(s)].withdrawn
=============================================================================
