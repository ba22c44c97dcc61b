------------------------------ MODULE Service ------------------------------
(***************************************************************************)
(* One process of the service: startup, the pool of connections that every *)
(* handler and the readiness probe share, and the shutdown.  A handler is  *)
(* seen here as the statements it executes one after the other, each on a  *)
(* connection of its own from the pool or on the one that its transaction  *)
(* holds; the other modules say what the statements do.                    *)
(*                                                                         *)
(* The pool serves who waits in the order of arrival.  Here it is any      *)
(* order: every request is served once, so that nobody is overtaken for    *)
(* ever, and what holds for any order holds for that one.                  *)
(***************************************************************************)
EXTENDS Integers, Sequences, FiniteSets

CONSTANTS
  Requests,        \* every request there will ever be
  Kinds,           \* which handlers they are for: subset of Handlers
  MaxConnections,  \* max_connections (10)
  None             \* nobody

ASSUME ServiceAssumption ==
  MaxConnections \in Nat \ {0} /\ None \notin Requests

VARIABLES
  server,     \* "starting", "serving", "draining", "stopped"
  request,    \* request -> [stage, kind, at]: at is its next statement
  held,       \* the connections in use: <<request, use>>
  locked      \* row -> the open transaction that has changed it, or None

poolVars == <<server, request, held, locked>>

-----------------------------------------------------------------------------
(* The handlers.                                                           *)
(*   "query"    a statement on the pool that meets no open transaction     *)
(*   "note"     one whose failure is ignored: last_used_at                 *)
(*   "change"   one that changes a row a transaction may have changed      *)
(*   "begin" .. "commit"  a transaction, whose changes are "insert"s,      *)
(*              those that may meet another's, and "add"s, those that      *)
(*              cannot                                                     *)
(*   "github"   a call to GitHub                                           *)

\* The UPDATE that relists, executed on the pool and not on the transaction.
PublishVersionAcross ==
  <<"query", "note", "query", "begin", "insert", "change", "commit">>

Ready == <<"query">>
ListOrDetail == <<"query">>
TwoReads == <<"query", "query">>
Create == <<"query", "note", "query", "begin", "insert", "add", "commit">>
PublishVersion == <<"query", "note", "query", "begin", "insert", "insert", "commit">>
UpdateOrUnlist == <<"query", "note", "query", "change">>
GetMe == <<"query", "note", "query">>
UpdateMe == <<"query", "note", "change">>
RecordInstall == <<"query", "query", "query">>
ForgetInstall == <<"query", "query">>
IssueToken == <<"begin", "insert", "add", "commit">>
SetFlag == <<"change">>
PollFlow == <<"github", "github", "change", "query">>

Handlers ==
  {"ready", "list", "versions", "create", "publish_version", "update", "get_me",
   "update_me", "record", "forget", "issue_token", "set_official", "set_blocked",
   "poll"}

Script(kind) ==
  CASE kind = "ready" -> Ready
    [] kind = "list" -> ListOrDetail
    [] kind = "versions" -> TwoReads
    [] kind = "create" -> Create
    [] kind = "publish_version" -> PublishVersion
    [] kind = "update" -> UpdateOrUnlist
    [] kind = "get_me" -> GetMe
    [] kind = "update_me" -> UpdateMe
    [] kind = "record" -> RecordInstall
    [] kind = "forget" -> ForgetInstall
    [] kind = "issue_token" -> IssueToken
    [] kind \in {"set_official", "set_blocked"} -> SetFlag
    [] kind = "poll" -> PollFlow

ASSUME KindsAssumption == Kinds \subseteq Handlers

Rows == {"entry", "publisher"}

\* The worst case: all that change a table are after the same row of it.
RowOf(kind) ==
  IF kind \in {"update_me", "issue_token", "set_blocked", "poll"} THEN "publisher"
  ELSE "entry"

-----------------------------------------------------------------------------

Running(r) == request[r].stage = "running"

Statement(r) == Script(request[r].kind)[request[r].at]

OnPool == {"query", "note", "change", "begin"}
InTransaction == {"insert", "add", "commit"}

Use(statement) ==
  IF statement \in InTransaction \cup {"begin"} THEN "transaction" ELSE "statement"

\* Its next statement is on a connection it has yet to get.
Asks(r) ==
  Running(r) /\ Statement(r) \in OnPool /\ <<r, Use(Statement(r))>> \notin held

MustWait(r) ==
  /\ Statement(r) \in {"insert", "change"}
  /\ locked[RowOf(request[r].kind)] \notin
       IF Statement(r) = "insert" THEN {None, r} ELSE {None}

Over == [stage |-> "over", kind |-> "ready", at |-> 1]

\* The statement is behind it.
Advanced(r) ==
  IF request[r].at = Len(Script(request[r].kind))
  THEN Over ELSE [request[r] EXCEPT !.at = @ + 1]

Unlocked(r) == [row \in Rows |-> IF locked[row] = r THEN None ELSE locked[row]]

-----------------------------------------------------------------------------

\* connect makes the first connection; without it, or without the port, main
\* returns its error.
Start ==
  /\ server = "starting"
  /\ server' \in {"serving", "stopped"}
  /\ UNCHANGED <<request, held, locked>>

Receive(r, kind) ==
  /\ server = "serving"
  /\ request[r].stage = "new"
  /\ request' = [request EXCEPT ![r] = [stage |-> "running", kind |-> kind, at |-> 1]]
  /\ UNCHANGED <<server, held, locked>>

Acquire(r) ==
  /\ Asks(r)
  /\ Cardinality(held) < MaxConnections
  /\ held' = held \cup {<<r, Use(Statement(r))>>}
  /\ UNCHANGED <<server, request, locked>>

\* A statement succeeds.  The connection goes back unless a transaction keeps
\* it; the last statement is followed by nothing that suspends.
Execute(r) ==
  /\ Running(r) /\ ~Asks(r) /\ ~MustWait(r)
  /\ request' = [request EXCEPT ![r] = Advanced(r)]
  /\ held' = IF Statement(r) \in {"begin", "insert", "add", "github"} THEN held
             ELSE held \ {<<r, Use(Statement(r))>>}
  /\ locked' = CASE Statement(r) = "insert" ->
                      [locked EXCEPT ![RowOf(request[r].kind)] = r]
                 [] Statement(r) = "commit" -> Unlocked(r)
                 [] OTHER -> locked
  /\ UNCHANGED server

\* let _ = ... .await: it fails, or has waited for five seconds.
Ignore(r) ==
  /\ Running(r) /\ Statement(r) = "note"
  /\ request' = [request EXCEPT ![r] = Advanced(r)]
  /\ held' = held \ {<<r, "statement">>}
  /\ UNCHANGED <<server, locked>>

\* Only the connection of the statement is given back, and the transaction is
\* left open.
AbandonStatement(r) ==
  /\ Running(r)
  /\ request' = [request EXCEPT ![r] = Over]
  /\ held' = held \ {<<r, "statement">>}
  /\ UNCHANGED <<server, locked>>

\* The request ends before its last statement: refused for what it has read, a
\* statement failed, five seconds waited for a connection, the caller gone.
\* Whatever it holds is dropped, and an open transaction rolled back.
Abandon(r) ==
  /\ Running(r)
  /\ request' = [request EXCEPT ![r] = Over]
  /\ held' = held \ {<<r, "statement">>, <<r, "transaction">>}
  /\ locked' = Unlocked(r)
  /\ UNCHANGED server

\* SIGTERM or ctrl-c: nothing more is accepted.
Terminate ==
  /\ server = "serving"
  /\ server' = "draining"
  /\ UNCHANGED <<request, held, locked>>

\* serve returns when the last connection is done.
Exit ==
  /\ server = "draining"
  /\ \A r \in Requests : ~Running(r)
  /\ server' = "stopped"
  /\ UNCHANGED <<request, held, locked>>

\* SIGKILL at the end of the grace period, or a crash: Postgres rolls back.
Kill ==
  /\ server \in {"serving", "draining"}
  /\ server' = "stopped"
  /\ request' = [r \in Requests |-> IF Running(r) THEN Over ELSE request[r]]
  /\ held' = {}
  /\ locked' = [row \in Rows |-> None]

Init ==
  /\ server = "starting"
  /\ request = [r \in Requests |-> [stage |-> "new", kind |-> "ready", at |-> 1]]
  /\ held = {}
  /\ locked = [row \in Rows |-> None]

Idle == server = "stopped" /\ UNCHANGED poolVars

Next ==
  \/ \E r \in Requests :
       \/ \E kind \in Kinds : Receive(r, kind)
       \/ Acquire(r) \/ Execute(r) \/ Ignore(r) \/ Abandon(r)
  \/ Start \/ Terminate \/ Exit \/ Kill
  \/ Idle

\* A connection that is free goes to somebody who waits; Postgres answers what
\* waits for no row, and GitHub or the client's ten seconds end a call to it.
\* Nobody has to time out, fail, hang up, or be killed.
Fairness ==
  /\ WF_poolVars(Exit)
  /\ \A r \in Requests : WF_poolVars(Acquire(r)) /\ WF_poolVars(Execute(r))

Spec == Init /\ [][Next]_poolVars

FairSpec == Spec /\ Fairness

-----------------------------------------------------------------------------
(* Properties.                                                             *)

TypeOK ==
  /\ server \in {"starting", "serving", "draining", "stopped"}
  /\ request \in [Requests -> [stage : {"new", "running", "over"}, kind : Handlers,
                               at : Nat \ {0}]]
  /\ \A r \in Requests : request[r].at <= Len(Script(request[r].kind))
  /\ held \subseteq Requests \X {"statement", "transaction"}
  /\ locked \in [Rows -> Requests \cup {None}]

\* Ten connections are enough for any number of requests because nobody who
\* holds one asks for another: not a transaction, whatever it executes, and
\* not the bookkeeping of a token.  Were there one such handler, ten of it
\* would wait for each other.  (publish_version, create and issue_token on
\* &mut *tx; the extractor, which is done before they begin.)
HoldersDoNotAsk ==
  \A r \in Requests : Asks(r) => \A use \in {"statement", "transaction"} :
                                   <<r, use>> \notin held

\* A connection or a changed row is in use by a request that is being served,
\* however the others ended, and there are no more than the pool has.
NothingIsLeaked ==
  /\ \A c \in held : Running(c[1])
  /\ \A row \in Rows : locked[row] # None =>
       Running(locked[row]) /\ <<locked[row], "transaction">> \in held
  /\ Cardinality(held) <= MaxConnections

\* What it needs for its next statement is to be had.
CanGoOn(r) ==
  /\ Running(r)
  /\ IF Asks(r) THEN Cardinality(held) < MaxConnections ELSE ~MustWait(r)

HasWhatItNeeds(q, r) ==
  IF Asks(r) THEN \E c \in held : c[1] = q ELSE locked[RowOf(request[r].kind)] = q

\* Nobody waits for somebody who waits in turn: whoever cannot go on, for want
\* of a connection or of a row, has only to wait for somebody who can.  (Among
\* ten that hold all the connections and wait for a row there is the one that
\* has it, on a connection of its own.)
WaitsEnd ==
  \A r \in Requests : Running(r) =>
    CanGoOn(r) \/ \E q \in Requests : CanGoOn(q) /\ HasWhatItNeeds(q, r)

\* Every request comes to an end though the pool is small, and without the
\* five seconds having to pass: what waits for a row waits for somebody who
\* has a connection.
EveryRequestEnds == \A r \in Requests : Running(r) ~> ~Running(r)

\* "Stop accepting on SIGTERM so in-flight publishes finish": the process does
\* come to an end once it has been told to.
Drains == server = "draining" ~> server = "stopped"
=============================================================================
