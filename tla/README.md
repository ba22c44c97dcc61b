# A verification of harness-registry

harness-registry is a small HTTP service over one Postgres database. It keeps a library of
workflows: publishers put versions in, harnesses fetch them and report what they have
installed, an operator mints tokens, blocks accounts and awards a badge. This directory holds
TLA+ models of it, the TLC runs that check them on small instances, and TLAPS proofs for all
instances. Paths below are those of the repository.

## The system

All state that lasts is in five tables (the schema is owned elsewhere; it is read off the
statements that use it). A handler is an async task: it suspends at every statement and every
call to GitHub, and any other handler may run in between, in this process or in another replica.
Nothing but the rate limiters is kept in memory.

| Component | State | Operations | Interacts with |
|---|---|---|---|
| Publishing: `routes/workflows.rs`, `auth.rs` | `registry_workflows`, `registry_versions` | create, publish a version, amend, unlist, fetch a version | authenticates by the accounts' tables; other publishers by unique indexes and row locks |
| Accounts and enrollment: `routes/enroll.rs`, `github.rs`, `routes/admin.rs`, `routes/me.rs`, `auth.rs` | `registry_publishers`, `registry_publisher_tokens`; the sign-in itself is GitHub's | start and poll a device flow, issue a token, block, rename, authenticate | GitHub; limiters |
| Install records: `routes/installs.rs` | `registry_installs` | record, forget | versions; the count in every listing; limiter |
| Rate limiter: `ratelimit.rs` | a map from client to window, one for each of three uses (installs, flows, polls of flows) | derive a client's key, check | in front of installs and enrollment |
| Listing: `list`, `detail`, `versions` | none of its own; `updated_at`, and the order it gives | filter, order, page | reads everything above, between any two writes |
| Validation: `models.rs`, the body limit of `main.rs` | none | refuse a body | in front of every publisher write |
| Process: `main.rs`, `routes/health.rs` | the pool of ten connections, whether it serves or drains | connect, serve, hand out connections, drain, exit | under every handler |
| Configuration, router, CORS, errors | none that changes | | |

What is hard, and what makes each part correct:

- **Publishing.** Numbers are derived, not supplied, so publishes race; ownership, the block and
  the cap are read in one statement and relied on in later ones; answers get lost and processes
  killed. Correct means: no gap or duplicate in the numbers, one owner per entry, an answer that
  is true and stays true, a refusal that leaves nothing, and requests that look as if each
  happened at one instant.
- **Accounts.** Four calls to two other systems per poll, any of which may fail or overlap with
  another poll, a rename, a block or the operator. Correct means: a token goes to whoever
  consented and to nobody else, once; blocks are not enrolled around; chosen names stand; a
  harness is never left polling.
- **Installs.** Unauthenticated, best-effort calls that are repeated, lost and overtaken. Correct
  means that the count forgets what is gone, keeps what is there, and that answers are honest.
- **Limiter.** A bounded map: it must stay bounded without giving or taking an allowance. Two of
  them stand in front of the flows of enrollment, with limits that must fit each other across
  window boundaries, restarts and clients behind one proxy.
- **Listing.** Pages are separate queries over a library that moves, in an order with ties and by
  a clock that is read when a transaction begins. Correct means that a walk misses or repeats
  only what was moved, that what landed later is newer, that what is published is advertised,
  and that the front page is earned.
- **Validation.** Every limit has an edge, lengths are bytes where messages say characters, and
  what a create may not bring in may not come by an amendment either. Correct means that the
  tables hold what the messages promise and that nothing is refused without cause.
- **Process.** A few connections serve any number of handlers, some of which keep one over
  several statements and wait for rows. Correct means that nobody who holds one asks for
  another, that none is leaked, and that requests and a shutdown come to an end.

## Modules

| Module | Models | Size of the step |
|---|---|---|
| `Library` | the promise of Publishing: an entry has one owner, a history that grows at its end, and each request acts at most once | a request |
| `Publishing` | the publisher's handlers, the version read, `set_official`, `set_blocked` | a statement |
| `MCPublishing` | its instances for TLC | |
| `Publishing_proofs` | theorems about Publishing, and that it implements Library | |
| `RateLimiter` | `RateLimiter::check` and the clock | a call, which holds the mutex throughout |
| `RateLimiter_proofs` | theorems about RateLimiter | |
| `Enrollment` | `start`, `poll`, `issue_token`, `set_blocked`, `me::update`; GitHub as its caller sees it (external) | a statement or a call to GitHub |
| `MCEnrollment` | its instances for TLC | |
| `Enrollment_proofs` | theorems about Enrollment | |
| `Installs` | `record`, `forget`, the count of a listing; the harness (external) | a statement |
| `Installs_proofs` | theorems about Installs | |
| `EnrollLimits` | two instances of `RateLimiter`, `client_key`, the flows behind them (external), restarts | a request |
| `MCEnrollLimits` | its instance for TLC | |
| `EnrollLimits_proofs` | the theorem about EnrollLimits | |
| `Listing` | `list`, `detail`, every write that moves an entry; a reader that walks through the pages (external) | a query, the beginning or the commit of a transaction |
| `MCListing` | its instance for TLC | |
| `Listing_proofs` | theorems about Listing | |
| `Validation` | the checks of `models.rs`, the body limit, and the row that chains of bodies make | a request |
| `MCValidation` | its bodies for TLC | |
| `Validation_proofs` | theorems about Validation | |
| `Service` | startup, the pool, each handler as its list of statements, drain, exit and kill | a statement, or getting a connection for it |
| `Service_proofs` | theorems about Service | |

`EnrollLimits` composes the limiter with the flows. `Listing` uses of `Publishing` what the
refinement establishes, that a request takes effect in one step, and `Service` uses of all the
handlers the order of their statements.

### Publishing

`pc[r]` is the statement a request executes next, so that a request suspended at an `await` is a
request with that stage. `workflows` and `versions` hold committed rows only. What an open
transaction has written is a function of its stage, and the operators `HoldsSlug`,
`HoldsVersion` and `HoldsRow` say what it holds on to: the uncommitted entry of a unique index,
for which an insert of the same key waits, and the row lock of an `UPDATE`. That is Postgres at
READ COMMITTED, the default, which the code does not change. `INSERT ... SELECT max(version)`
is two actions, `ReadMax` and `InsertVersion`, because the snapshot of the SELECT may be older
than the moment at which the insertion gets past the index; this is the race that the comment in
`publish_version` describes. Versions are withdrawn by no endpoint but the read side honours
them, so `Withdraw` is external.

`Abandon` drops a request at any point: a database error, a caller that hangs up, a killed
process. Before the commit its transaction is rolled back; after it only the answer is lost.
A request is identified with what it writes: the version it publishes has the document `r`, the
columns it amends read `r`. That is what lets the properties tell who wrote what.

Logging, JSON and the wording of refusals are left out; `updated_at` is in `Listing`,
`last_used_at` in `Service`. Validation of a body is here a refusal that may come at its place in
the handler, whatever the body; which bodies those are is in `Validation`.

### RateLimiter

`check` has three outcomes, `Shed`, `Hit` and `Open`, in the order of its branches. The sweep
at the threshold is part of each. `log` is a history of admissions. `HitSpace` is 2^32:
`hits` wraps in a release build, and `BusyAssumption` says that nobody gets there within a
window. A poisoned mutex, which nothing in the code can bring about short of a panic inside
`check`, is left out. The derivation of the key from headers is in `EnrollLimits`.

### Enrollment

`code` and `profile` are GitHub's. A device code is spent by the answer that carries its access
token, and a poll that loses that answer (`LosePoll`) may or may not have spent it. A poll is
one of a fixed number of tries per code, used again and again, so that a harness may poll without
end in a finite state space, which the liveness run needs. `user[p]` is what the task
remembers: the profile as it was when it was read. `Enrolled` and `Issued` are the two upserts,
which differ in the order of one COALESCE. `issue_token` is a transaction, so its upsert keeps
the row until it commits, and everybody else who writes that row waits.

The harness (external) polls while it is told to, and after a failure goes on or gives up.

### Installs

A row's `last_seen_at` is modelled by its age in ticks, which stops at `Horizon`, the ninety
days, because nothing can tell ages beyond it apart. `owed` is a history: the rows inserted for
a key less the deletions reported. The limiter's refusal is one way for a call to get lost.

### EnrollLimits

`S` limits the flows a client starts, `P` their polls, with 200 times the limit and the same
window, as `main.rs` sets them up; time is in polling intervals. `ClientKey` is `client_key`
without a socket, which is how the handlers call it. `HeadersAssumption` is what the comment on
`client_key` relies on: the edge overwrites `CF-Connecting-IP` and the gateway puts the client
first. A restart replaces both maps; the flows go on, since they are GitHub's. The harness
(external) polls at most once an interval and may give up. `polled` is a history of the polls
that count in a client's window.

### Listing

A publish, a create and an amendment are `Begin`, at which `now()` is fixed, and a commit, at
which everything shows; that nothing else is visible from outside is the refinement of
`Publishing`. The other writes are one statement each and leave `updated_at` alone. `installs` is
the number that the sub-select would count; it goes up and down by one. `tagged` is whether an
entry answers to `q` and `tag`, which a create and an amendment decide. `Orders` are all the
orders that the `ORDER BY` permits, since Postgres may return equals in any. `Limit` and `Skipped`
are the two clamps. The reader (external) asks for what comes after the rows it has until a page
is empty. Two histories go with its walk: `firm` are the entries that were in the listing all
along, at a place of their own, and that nothing in front of them has left; `unpushed` are those
that nothing has got in front of.

### Validation

A text is a sequence of characters, and there are seven characters: those that some check tells
apart, one of them two bytes long and one that JSON escapes. Lengths are `str::len`, in bytes.
The checks come in the order of the code, each saying what it refuses for. The title stands for
the description, which the same function checks. `row` is the entry that a create, amendments
and publishes leave. What the properties hold against this is written from the messages and not
from the checks: a slug is words joined by dashes, lengths are in characters.

### Service

`Script` gives each handler as its statements in order: on the pool, in a transaction, or a call to
GitHub. `enroll::start`, `available` and `live` need no connection and are left out. `held` are
the connections in use, by whom and for what, so that a handler that took a second one would be
seen. Rows are taken at their worst: all that change a table change the same row of it. The pool
hands out connections in any order, which includes the order of arrival that it keeps. `Ignore`
is the bookkeeping of a token, whose failure goes unnoticed; `Abandon` a request that ends
anywhere, its transaction rolled back; `Kill` a process that does.

## Runs

| Run | Question | Distinct states |
|---|---|---|
| `pub_contend` | Are numbers, ownership, answers, refusals, conflicts and reads right when three requests of two publishers race, and versions are withdrawn? Does anybody wait for somebody who waits? | 879,012 |
| `pub_refines` | Is every request one step of `Library`, does a block stop what arrives after it, and does every request end, waits for locks included? | 355,096 |
| `cap_race` | Is the cap kept? It is not, see Findings | |
| `limiter_clients` | Is the map bounded, are windows kept and refusals deserved, and how much can a client do in the length of a window? | 643,152 |
| `enr_identity` | Who gets a token, when accounts swap logins and polls overlap? | 865,452 |
| `enr_accounts` | Do chosen names stand, is `issue_token` all or nothing, can one enroll around a block, and does a harness that does as it is told stop polling? | 106,398 |
| `enr_expired` | Does a message hold? It does not | |
| `installs` | Are records of published versions, forgets honest, and does the count lose what is gone and keep what is there? | 279,836 |
| `enroll_limits` | Is a flow that was let through ever turned away on its polls? Only when a client has more flows in a window than it may start in one | 2,686,890 |
| `listing` | What does a reader miss or see twice, is the later newer, is what is published advertised, is the first page earned? | 2,006,805 |
| `validation` | Do the tables hold what the messages say, and is what is refused refused for that? | 17,061 |
| `service` | Can requests wait for each other over connections and rows, can somebody always go on, is anything leaked, and do requests and a shutdown end? | 148,609 |

**Bounds, and why they are enough.** In Publishing the interactions are between pairs: two
requests on a key and one that commits in between are three, with two publishers and two slugs,
one of them taken from the start. Requests are alike, which is the symmetry of the safety runs;
no run with a liveness property uses symmetry. The refinement run has two requests, because its
mapping is about one request and one interloper, but every operation, and two columns; for its
liveness two are enough, because whoever is waited for waits for nobody (`WaitsEnd`, which is
checked with three requests and proved for any number). The limiter run has one client more than
the map has room for, and a clock that goes over two windows and into a third. In Enrollment two
accounts and three logins are what a swap of logins takes; the other properties are each about
one account, so that their run has one, with every kind of request that writes its row. In
`enroll_limits` a client may start two flows in a window, and four are what it takes for those of
two windows to be polled in one; a restart comes at any moment of it. In `listing` three entries,
with two open transactions and pages of one or two rows, are what it takes for an entry to move
past a page boundary between two pages while another one commits; its four queries are a browse
without parameters, a feed one by one, and limits below and above what there is. `validation` has
texts at and on both sides of every limit, and a document of line breaks alone that is within its
own limit and beyond that on the body. `service` has three requests on a pool of two and six
scripts, one of each shape: a transaction, a change outside one, a call to GitHub, and a single
read. `MaxInFlight`, `MaxHits`, `MaxTime`, `MaxVersion`, `MaxRestarts`, `Tries` and `Calls` are
the bounds; each is a constant with a comment. Deadlock is checked everywhere except in
`limiter_clients` and `enroll_limits`, whose clocks stop at `MaxTime` and whose clients stop one
call beyond their limit, and in `listing`, whose runs end with the walk; elsewhere `Idle`, or the
clock, is a step of a state in which nothing is under way.

**Fairness.** What the service has begun is driven by the runtime: tokio polls every task it holds
and Postgres wakes whoever waits for a lock, hence weak fairness of each request's next statement
(`pub_refines`), each poll's and each call's (`enr_accounts`, `installs`). Nobody is obliged to
send anything. `service` assumes the same of whoever waits for a connection that is free, of each
statement that waits for no row, and of the exit of a drained process; that no timeout has to pass
is part of what it shows. Beyond that `enr_accounts` assumes that GitHub's codes run out
(`expires_in`), that a harness goes on polling while it is told to, and that not every poll of a
code is lost before GitHub answers (strong fairness of `AskGitHub`: without it a network that is
down for ever would be a counterexample). `installs` assumes that time passes; that calls get
through again and again is a hypothesis of `KeptStaysCounted` and not of the model.

## Proofs

Each proof module states an inductive invariant (`IInv` or `Inv`), proves that `Init` implies it
and every step keeps it, and reads the properties off it.

- **Publishing_proofs.** `NoGaps` is not inductive alone: that a new number is the next one
  depends on what the request knows (`Knows`: a number read is at least one more than the highest
  there was on arrival, and when it is inserted it is the next one), which depends on nobody else
  holding that number (`Exclusive`), and on each stage fitting its operation (`StageFits`).
  `Kept` says what a request whose effect is committed has left, `Authored` that nothing is in
  the tables that a committed request did not write. Together they give `TypeOK`, `NoGaps`,
  `AnsweredIsServed`, `RefusedLeavesNothing`, `OwnerOnly`, `ConflictMeansContention` and
  `FetchFindsPublished`, for any sets of requests, publishers, slugs and columns. `WaitsEnd`,
  that there is never a circle of waits for Postgres to break, is `Exclusive` again: whoever
  waits for the row while others wait for its version has the only uncommitted version of the
  slug, and nobody holds the row without one. `BlockStopsPublishing` relates states far apart: a
  request that has not authenticated under a block stays `Outside`, that is, gets to no statement
  beyond authentication, while the block lasts.
- **Publishing_proofs, the refinement.** Under `LibraryEntry`, which reads the rows of a slug as
  an entry with its documents in the order of their numbers, every statement is a step of
  `Library` or changes nothing it shows. It needs `IInv` before and after the step: `NoGaps`
  makes a history a sequence and a new version its end, `Knows` gives a commit a free slug or an
  entry of its own, and versions that never change keep the rest of the history. Only the two
  commits, `Update`, `Unlist` and `SetOfficial` are seen; `Applying` shows that no request is
  seen twice.
- **RateLimiter_proofs.** The bound on the map needs finiteness (`Sized`). The bound on bursts
  needs `Paced`: any two admissions of a client are either counted in one window, or in windows
  that do not overlap, and what the map remembers of a live window is how many it has admitted
  (`Recalls`). Of 2L consecutive admissions the L-th is then in a later window than the first,
  unless the first opened its own, and the last is in a later window than the L-th (`ThreeSpan`).
  `RefusalsAreEarned` needs `Filled` besides: the hits of a window that were admitted are in the
  client's history, at its end, so that a client over its limit has been admitted that often. The
  proofs rest on `LimiterAssumption` and `BusyAssumption`.
- **Enrollment_proofs.** `Entered`: an authorized or spent code names the account that entered it.
  `PollOK`: a poll that has GitHub's yes has spent the code, acts for the account that entered it,
  and its code has no token yet. That this stays so while other polls of the code run is
  `Exclusive`: GitHub spends a code once, so that one poll of a code gets past it. `IssueOK` and
  `PatchOK` say that a request of the operator or of a publisher writes no name but its own,
  `Owned` that a token has a row. Together they give `TypeOK`, `TokensAreEarned`, `NamesAreChosen`
  and `IssuedTogether`. For `BlockHolds`, a code none of whose polls is past its upsert stays so
  (`Barred`) while the only account it can belong to is blocked.
- **Installs_proofs.** `Balanced`: what a key is owed is exactly the row it has; `Checked`: a call
  past its check asks for a version that was published, and versions do not go away.
- **EnrollLimits_proofs.** `Counted`: the polls recorded for a client's window were made, by its
  own callers, and each is a flow and a number from 1 to `Lifetime`, since a flow is polled at
  most once an interval and lasts no longer (`Paced`). `CountedOnce`: the window's hits are at
  most those polls. So a window's hits are at most its flows times `Lifetime`, and with `Lifetime
  <= Factor` (`FlowAssumption`) more than `Limit * Factor` of them take more than `Limit` flows. A
  restart loses hits and no polls. That all of a client's flows are its own rests on
  `HeadersAssumption`.
- **Listing_proofs.** The place of an entry that is level with none is the number of entries in
  front of it, in every order that the `ORDER BY` permits (`PlaceIsRank`). `StillToCome`: a firm
  entry that has not been shown has at least as many in front of it as have been shown; `WentBy`:
  an unpushed one that has been shown has fewer in front of it than its number in what has been
  shown. A write can only take from or add to the front of an entry by taking it out of `firm` or
  `unpushed`. With `LimitIsPositive` a walk ends only at the end. `Dated` relates `updated_at` to
  the clock of the transaction that set it. `PublishedIsAdvertised` needs `LatestIsLast`: the
  latest version is one of those that are not withdrawn and the greatest of them.
  `QueriesAreAnswered` says that the pages a query may be answered with are never none, whatever
  the ties (`OrderExists`); otherwise the rest could be about walks that nobody makes.
- **Validation_proofs.** Each check of the code is shown to be the condition that its message
  states: what the scan of `validate_slug` lets through is a slug of words between cuts (`Cuts`,
  `NextCut`), a list of refusals refuses if one of them does, bytes are at least as many as
  characters, and as many in ASCII. `Inv` is the three properties, about the row and the last
  answer. An amendment keeps the row well-formed because `ValidateUpdate` checks what it brings
  and COALESCE leaves the rest. In `EdgeIsTheCoarserCheck` JSON adds one character for each line
  break.
- **Service_proofs.** The shape of the scripts (`Shapes`: what is in a transaction is between its
  `begin` and its `commit`, and nothing in between is on the pool) gives `Staged` and `Owned`: a
  request holds a transaction exactly between them, a connection of another kind for its next
  statement only, and a changed row belongs to an open transaction that is after no other row.
  `Sized` counts. Together they give `TypeOK`, `HoldersDoNotAsk` and `NothingIsLeaked`, for any
  number of requests and connections, and `WaitsEnd`: who has a row waits for nothing any more
  (`OwnersGoOn`), and of those who have the connections of an exhausted pool one can go on, or
  waits for a row whose owner can.

That a bounded set of numbers has a greatest member, on which `Max` and `Min` rest, takes an
induction, and the library's theorem for inductions has an operator as its parameter, which the
provers cannot instantiate. `LeastExists` goes around it: `<` is well-founded on the naturals
(`NatLessThanWellFounded`), a well-founded relation has minimal members (`WFMin`), and the
greatest member is the one that is least short of the bound.

Model-checked only: the liveness properties (`EveryRequestEnds` of both modules, `SignInEnds`,
`RemovedStopsCounting`, `KeptStaysCounted` and `Drains`), which are out of the prover's reach.
What is proved of the way there is that waits go in no circle (`WaitsEnd` of both modules); that
each of them ends takes the fairness of whoever is waited for. Every invariant, and every safety
property of steps and behaviours, that a passing run checks is a theorem; `TypeOK` of `Service` is
proved and in no run.

## Findings

Checked:

1. `max_workflows_per_publisher` is not a bound (`cap_race`): the count and the insert are not
   one step, where `config.rs` says "Listed workflows one publisher may hold".
2. "The code expired before it was entered" is also said of codes that were entered, when an
   answer was lost on the way (`enr_expired`).

Read while modelling, and in no run:

- Publishing to an unlisted entry lists it again without counting it against the cap.
- `check` drops the expired windows when the map is full, and no window for being the oldest,
  where a comment says "oldest window first". For the same reason it returns `false` to callers
  within their limit while the map is full of live windows, which `RefusalsAreEarned` allows for.
- `avatar_url` is overwritten on re-enrolling, where the comment says that it is kept.
- A listing shows the publisher's `github_login`, where `models.rs`, `routes/me.rs` and the
  README say that it shows the display name.
- `PATCH /me` without a `display_name` clears it.
- `validate_len` counts bytes and its message says characters, so that text beyond ASCII is
  refused earlier than it says (`RefusedCreateIsDue` allows for it). `issue_token` and enrollment
  do not bound the display name at all.
- A document within `max_yaml_bytes` is refused by the limit on the body when JSON escapes more
  of its characters, line breaks among them, than the 64 KiB on top have room for; the comment in
  `main.rs` has the limit on documents as the finer of the two (`RefusedCreateIsDue` and
  `EdgeIsTheCoarserCheck` allow for it).
- A pool that is busy for five seconds makes the readiness probe say "database unavailable".

## Not modelled, and why

- **Configuration** is read once, before anything runs; what depends on it is a constant of a
  module, and the theorems hold for every value.
- **Router and CORS** are tables that libraries interpret, without state. **Logging**, the wording
  of **errors** and **JSON** decide nothing; the length of a document in JSON is in `Validation`.
- The **hashing of tokens**: a token is its row. Tokens are revoked in SQL only.
- A **poisoned mutex** takes a panic inside `check`, and nothing there panics.
- **`hits` wrapping**: `BusyAssumption` excludes it; at the default window it takes 70 million
  calls a second.
- **Which of two overlapping sign-ins leaves its login**: the login is a label that nothing is
  decided by, and nothing in the repository says how fresh it is.
- **The limiter composed with install records**: in `Installs` it is a call refused at any time,
  which is all that the properties there can see of it; how many calls get through in the length
  of a window is `SlidingBound`, for whatever stands behind it.
