--------------------------- MODULE Service_proofs ---------------------------
(***************************************************************************)
(* For any number of requests and any size of the pool: who holds a        *)
(* connection asks for no other one, nothing is held by a request that has *)
(* come to an end, and whoever waits has only to wait for somebody who can *)
(* go on.                                                                  *)
(***************************************************************************)
EXTENDS Service, TLAPS, FiniteSetTheorems

Statements == OnPool \cup InTransaction \cup {"github"}

\* A transaction begins on the pool and goes on until it commits.
Shaped(s) ==
  /\ Len(s) \in Nat \ {0}
  /\ \A i \in 1 .. Len(s) : s[i] \in Statements
  /\ s[1] \notin InTransaction
  /\ \A i \in 1 .. Len(s) :
       /\ s[i] \in {"begin", "insert", "add"} =>
            i < Len(s) /\ s[i + 1] \in InTransaction
       /\ s[i] \notin {"begin", "insert", "add"} /\ i < Len(s) =>
            s[i + 1] \notin InTransaction

\* Where a request is says what it holds.
Staged ==
  \A r \in Requests :
    /\ Running(r) /\ Statement(r) \in InTransaction => <<r, "transaction">> \in held
    /\ <<r, "transaction">> \in held =>
         Running(r) /\ Statement(r) \in InTransaction \cup {"begin"}
    /\ <<r, "statement">> \in held =>
         Running(r) /\ Statement(r) \in OnPool \ {"begin"}

\* A row is changed by an open transaction that is after no other.
Owns(row, r) ==
  Running(r) /\ Statement(r) \in InTransaction /\ RowOf(request[r].kind) = row

Owned == \A row \in Rows : locked[row] # None => Owns(row, locked[row])

Sized == IsFiniteSet(held) /\ Cardinality(held) <= MaxConnections

IInv == TypeOK /\ Staged /\ Owned /\ Sized

-----------------------------------------------------------------------------

LEMMA Shapes == \A kind \in Handlers : Shaped(Script(kind))
<1>1. /\ Shaped(Ready) /\ Shaped(ListOrDetail) /\ Shaped(SetFlag)
      /\ Shaped(TwoReads) /\ Shaped(ForgetInstall)
  BY DEF Shaped, Ready, ListOrDetail, SetFlag, TwoReads, ForgetInstall,
         Statements, OnPool, InTransaction
<1>2. Shaped(GetMe) /\ Shaped(UpdateMe) /\ Shaped(RecordInstall)
  BY DEF Shaped, GetMe, UpdateMe, RecordInstall, Statements, OnPool, InTransaction
<1>3. Shaped(UpdateOrUnlist) /\ Shaped(IssueToken) /\ Shaped(PollFlow)
  BY DEF Shaped, UpdateOrUnlist, IssueToken, PollFlow, Statements, OnPool, InTransaction
<1>4. Shaped(Create)
  BY DEF Shaped, Create, Statements, OnPool, InTransaction
<1>5. Shaped(PublishVersion)
  BY DEF Shaped, PublishVersion, Statements, OnPool, InTransaction
<1> QED
  BY <1>1, <1>2, <1>3, <1>4, <1>5 DEF Handlers, Script

LEMMA Initially == Init => IInv
<1> SUFFICES ASSUME Init PROVE IInv
  OBVIOUS
<1>1. TypeOK
  <2>1. "ready" \in Handlers /\ Len(Script("ready")) = 1
    BY DEF Handlers, Script, Ready
  <2> QED
    BY <2>1 DEF Init, TypeOK, Rows
<1>2. Staged
  BY DEF Init, Staged, Running
<1>3. Owned
  BY DEF Init, Owned
<1>4. Sized
  BY FS_EmptySet, ServiceAssumption DEF Init, Sized
<1> QED
  BY <1>1, <1>2, <1>3, <1>4 DEF IInv

\* What a request is at, and what comes after it.
LEMMA Going ==
  ASSUME TypeOK, NEW r \in Requests, Running(r)
  PROVE  /\ Statement(r) \in Statements
         /\ Statement(r) \in {"begin", "insert", "add"} =>
              /\ Advanced(r).stage = "running"
              /\ Script(Advanced(r).kind)[Advanced(r).at] \in InTransaction
         /\ Statement(r) \notin {"begin", "insert", "add"} =>
              \/ Advanced(r).stage # "running"
              \/ Script(Advanced(r).kind)[Advanced(r).at] \notin InTransaction
         /\ Advanced(r).stage \in {"running", "over"}
         /\ Advanced(r).kind \in Handlers
         /\ Advanced(r).stage = "running" => Advanced(r).kind = request[r].kind
         /\ Advanced(r).at \in Nat \ {0}
         /\ Advanced(r).at <= Len(Script(Advanced(r).kind))
<1> DEFINE q == request[r]
           s == Script(q.kind)
<1>1. /\ q \in [stage : {"new", "running", "over"}, kind : Handlers, at : Nat \ {0}]
      /\ q.at \in 1 .. Len(s) /\ q.stage = "running" /\ q.kind \in Handlers
      /\ Shaped(s)
  BY Shapes DEF TypeOK, Running, Shaped
<1>2. Statement(r) = s[q.at]
  BY DEF Statement
<1>3. CASE q.at = Len(s)
  <2>1. Advanced(r) = Over
    BY <1>3 DEF Advanced
  <2>2. Over.kind \in Handlers /\ Over.at <= Len(Script(Over.kind))
    BY DEF Over, Handlers, Script, Ready
  <2>3. Statement(r) \notin {"begin", "insert", "add"}
    BY <1>1, <1>2, <1>3 DEF Shaped
  <2>4. Statement(r) \in Statements
    BY <1>1, <1>2 DEF Shaped
  <2>5. Over.stage = "over" /\ Over.at = 1
    BY DEF Over
  <2>6. Advanced(r).stage = "over" /\ Advanced(r).at = 1
    BY <2>1, <2>5
  <2>7. /\ Advanced(r).kind \in Handlers
        /\ Advanced(r).at <= Len(Script(Advanced(r).kind))
    BY <2>1, <2>2
  <2> QED
    BY <2>3, <2>4, <2>6, <2>7
<1>4. CASE q.at # Len(s)
  <2>1. Advanced(r) = [q EXCEPT !.at = @ + 1]
    BY <1>4 DEF Advanced
  <2>2. /\ Advanced(r).stage = "running" /\ Advanced(r).kind = q.kind
        /\ Advanced(r).at = q.at + 1
    BY <1>1, <2>1
  <2>3. q.at < Len(s) /\ Len(s) \in Nat
    BY <1>1, <1>4 DEF Shaped
  <2>4. Script(Advanced(r).kind) = s
    BY <2>2
  <2>5. q.at \in 1 .. Len(s) /\ q.at + 1 \in Nat \ {0} /\ q.at + 1 <= Len(s)
    BY <1>1, <2>3
  <2>6. /\ s[q.at] \in Statements
        /\ s[q.at] \in {"begin", "insert", "add"} => s[q.at + 1] \in InTransaction
        /\ s[q.at] \notin {"begin", "insert", "add"} => s[q.at + 1] \notin InTransaction
    BY <1>1, <2>3, <2>5 DEF Shaped
  <2>7. Advanced(r).kind = request[r].kind
    BY <2>2
  <2> HIDE DEF q, s
  <2> QED
    BY <1>1, <1>2, <2>2, <2>4, <2>5, <2>6, <2>7
<1> QED
  BY <1>3, <1>4

\* A request comes or ends, and the others stand where they stood.
LEMMA TypeStep == ASSUME IInv, [Next]_poolVars PROVE TypeOK'
<1>1. /\ server \in {"starting", "serving", "draining", "stopped"}
      /\ request \in [Requests -> [stage : {"new", "running", "over"}, kind : Handlers,
                                   at : Nat \ {0}]]
      /\ \A r \in Requests : request[r].at <= Len(Script(request[r].kind))
      /\ held \subseteq Requests \X {"statement", "transaction"}
      /\ locked \in [Rows -> Requests \cup {None}]
  BY DEF IInv, TypeOK
<1>2. /\ Over \in [stage : {"new", "running", "over"}, kind : Handlers, at : Nat \ {0}]
      /\ Over.at <= Len(Script(Over.kind))
  BY DEF Over, Handlers, Script, Ready
<1>3. ASSUME NEW r \in Requests PROVE Unlocked(r) \in [Rows -> Requests \cup {None}]
  BY <1>1 DEF Unlocked
<1>4. ASSUME NEW r \in Requests, Running(r)
      PROVE  /\ Advanced(r) \in [stage : {"new", "running", "over"}, kind : Handlers,
                                 at : Nat \ {0}]
             /\ Advanced(r).at <= Len(Script(Advanced(r).kind))
  <2>1. Advanced(r) = Over \/ Advanced(r) = [request[r] EXCEPT !.at = @ + 1]
    BY DEF Advanced
  <2>2. Advanced(r) \in [stage : {"new", "running", "over"}, kind : Handlers,
                         at : Nat \ {0}]
    <3>1. CASE Advanced(r) = Over
      BY <1>2, <3>1
    <3>2. CASE Advanced(r) = [request[r] EXCEPT !.at = @ + 1]
      <4>1. request[r] \in [stage : {"new", "running", "over"}, kind : Handlers,
                            at : Nat \ {0}]
        BY <1>1
      <4> QED
        BY <3>2, <4>1
    <3> QED
      BY <2>1, <3>1, <3>2
  <2> QED
    BY <1>4, <2>2, Going DEF IInv
<1>5. CASE UNCHANGED poolVars
  BY <1>1, <1>5 DEF poolVars, TypeOK
<1>6. ASSUME NEW r \in Requests, NEW kind \in Kinds, Receive(r, kind) PROVE TypeOK'
  <2>1. kind \in Handlers /\ Len(Script(kind)) >= 1
    BY KindsAssumption, Shapes DEF Shaped
  <2> QED
    BY <1>1, <1>6, <2>1 DEF Receive, TypeOK
<1>7. ASSUME NEW r \in Requests, Acquire(r) PROVE TypeOK'
  BY <1>1, <1>7 DEF Acquire, Use, TypeOK
<1>8. ASSUME NEW r \in Requests, Execute(r) PROVE TypeOK'
  <2>1. locked' \in [Rows -> Requests \cup {None}]
    BY <1>1, <1>3, <1>8 DEF Execute
  <2>2. request' = [request EXCEPT ![r] = Advanced(r)] /\ Running(r)
        /\ held' \subseteq held /\ server' = server
    BY <1>8 DEF Execute
  <2> QED
    BY <1>1, <1>4, <2>1, <2>2 DEF TypeOK
<1>9. ASSUME NEW r \in Requests, Ignore(r) PROVE TypeOK'
  <2>1. request' = [request EXCEPT ![r] = Advanced(r)] /\ Running(r)
        /\ held' \subseteq held /\ UNCHANGED <<server, locked>>
    BY <1>9 DEF Ignore
  <2> QED
    BY <1>1, <1>4, <2>1 DEF TypeOK
<1>10. ASSUME NEW r \in Requests, Abandon(r) PROVE TypeOK'
  BY <1>1, <1>2, <1>3, <1>10 DEF Abandon, TypeOK
<1>11. CASE Start \/ Terminate \/ Exit
  BY <1>1, <1>11 DEF Start, Terminate, Exit, TypeOK
<1>12. CASE Kill
  BY <1>1, <1>2, <1>12 DEF Kill, TypeOK
<1> QED
  BY <1>5, <1>6, <1>7, <1>8, <1>9, <1>10, <1>11, <1>12 DEF Next, Idle

\* What one request holds.
Holds(q) ==
  /\ Running(q) /\ Statement(q) \in InTransaction => <<q, "transaction">> \in held
  /\ <<q, "transaction">> \in held =>
       Running(q) /\ Statement(q) \in InTransaction \cup {"begin"}
  /\ <<q, "statement">> \in held =>
       Running(q) /\ Statement(q) \in OnPool \ {"begin"}

\* The actions of r leave the others alone.
LEMMA OthersHold ==
  ASSUME IInv, NEW r \in Requests, NEW q \in Requests, q # r,
         request'[q] = request[q],
         \A use \in {"statement", "transaction"} :
           <<q, use>> \in held' <=> <<q, use>> \in held
  PROVE  Holds(q)'
<1>1. Holds(q)
  BY DEF IInv, Staged, Holds
<1>2. Running(q)' = Running(q) /\ Statement(q)' = Statement(q)
  BY DEF Running, Statement
<1> QED
  BY <1>1, <1>2 DEF Holds

LEMMA StagedStep == ASSUME IInv, [Next]_poolVars PROVE Staged'
<1>1. /\ request \in [Requests -> [stage : {"new", "running", "over"}, kind : Handlers,
                                   at : Nat \ {0}]]
      /\ held \subseteq Requests \X {"statement", "transaction"}
  BY DEF IInv, TypeOK
<1>2. ASSUME NEW q \in Requests PROVE Holds(q)
  BY DEF IInv, Staged, Holds
<1>3. SUFFICES ASSUME NEW q \in Requests PROVE Holds(q)'
  BY DEF Staged, Holds
<1>4. ASSUME UNCHANGED <<request, held>> PROVE Holds(q)'
  <2>1. Running(q)' = Running(q) /\ Statement(q)' = Statement(q)
    BY <1>4 DEF Running, Statement
  <2> QED
    BY <1>2, <1>4, <2>1 DEF Holds
<1>5. ASSUME NEW r \in Requests, NEW kind \in Kinds, Receive(r, kind) PROVE Holds(q)'
  <2>1. CASE q # r
    BY <1>1, <1>5, <2>1, OthersHold DEF Receive
  <2>2. CASE q = r
    <3>1. request'[q] = [stage |-> "running", kind |-> kind, at |-> 1] /\ held' = held
      BY <1>1, <1>5, <2>2 DEF Receive
    <3>2. Statement(q)' = Script(kind)[1]
      BY <3>1 DEF Statement
    <3>3. Statement(q)' \notin InTransaction
      BY <3>2, KindsAssumption, Shapes DEF Shaped
    <3>4. ~Running(q)
      BY <1>5, <2>2 DEF Receive, Running
    <3> QED
      BY <1>2, <3>1, <3>3, <3>4 DEF Holds
  <2> QED
    BY <2>1, <2>2
<1>6. ASSUME NEW r \in Requests, Acquire(r) PROVE Holds(q)'
  <2>1. CASE q # r
    BY <1>1, <1>6, <2>1, OthersHold DEF Acquire
  <2>2. CASE q = r
    <3>1. Running(q) /\ Statement(q) \in OnPool
      BY <1>6, <2>2 DEF Acquire, Asks
    <3>2. Running(q)' = Running(q) /\ Statement(q)' = Statement(q)
      BY <1>6 DEF Acquire, Running, Statement
    <3>3. held' = held \cup {<<q, Use(Statement(q))>>}
      BY <1>6, <2>2 DEF Acquire
    <3>4. Use(Statement(q)) = IF Statement(q) = "begin" THEN "transaction" ELSE "statement"
      BY <3>1 DEF Use, OnPool, InTransaction
    <3> QED
      BY <1>2, <3>1, <3>2, <3>3, <3>4 DEF Holds, OnPool, InTransaction
  <2> QED
    BY <2>1, <2>2
<1>7. ASSUME NEW r \in Requests, Execute(r) PROVE Holds(q)'
  <2>1. CASE q # r
    BY <1>1, <1>7, <2>1, OthersHold DEF Execute
  <2>2. CASE q = r
    <3> DEFINE a == Advanced(q)
    <3>1. Running(q) /\ ~Asks(q)
      BY <1>7, <2>2 DEF Execute
    <3>2. request'[q] = a
      BY <1>1, <1>7, <2>2 DEF Execute
    <3>3. /\ Running(q)' <=> a.stage = "running"
          /\ Statement(q)' = Script(a.kind)[a.at]
      BY <3>2 DEF Running, Statement
    <3>4. /\ Statement(q) \in Statements
          /\ Statement(q) \in {"begin", "insert", "add"} =>
               Running(q)' /\ Statement(q)' \in InTransaction
          /\ Statement(q) \notin {"begin", "insert", "add"} =>
               ~Running(q)' \/ Statement(q)' \notin InTransaction
      BY <3>1, <3>3, Going DEF IInv
    <3>5. held' = IF Statement(q) \in {"begin", "insert", "add", "github"} THEN held
                  ELSE held \ {<<q, Use(Statement(q))>>}
      BY <1>7, <2>2 DEF Execute
    <3> HIDE DEF a
    <3>6. CASE Statement(q) \in {"begin", "insert", "add"}
      <4>1. <<q, "transaction">> \in held
        BY <1>2, <3>1, <3>6 DEF Asks, Holds, OnPool, InTransaction, Use
      <4>2. <<q, "statement">> \notin held
        BY <1>2, <3>6 DEF Holds, OnPool
      <4> QED
        BY <3>4, <3>5, <3>6, <4>1, <4>2 DEF Holds
    <3>7. CASE Statement(q) = "commit"
      <4>1. <<q, "statement">> \notin held
        BY <1>2, <3>7 DEF Holds, OnPool
      <4>2. held' = held \ {<<q, "transaction">>}
        BY <3>5, <3>7 DEF Use, InTransaction
      <4> QED
        BY <3>4, <3>7, <4>1, <4>2 DEF Holds
    <3>8. CASE Statement(q) \in OnPool \ {"begin"}
      <4>1. <<q, "transaction">> \notin held
        BY <1>2, <3>8 DEF Holds, OnPool, InTransaction
      <4>2. held' = held \ {<<q, "statement">>}
        BY <3>5, <3>8 DEF Use, OnPool, InTransaction
      <4>3. Statement(q) \notin {"begin", "insert", "add"}
        BY <3>8 DEF OnPool
      <4> QED
        BY <3>4, <4>1, <4>2, <4>3 DEF Holds
    <3>9. CASE Statement(q) = "github"
      <4>1. <<q, "transaction">> \notin held /\ <<q, "statement">> \notin held
        BY <1>2, <3>9 DEF Holds, OnPool, InTransaction
      <4> QED
        BY <3>4, <3>5, <3>9, <4>1 DEF Holds
    <3> QED
      BY <3>4, <3>6, <3>7, <3>8, <3>9 DEF Statements, OnPool, InTransaction
  <2> QED
    BY <2>1, <2>2
<1>8. ASSUME NEW r \in Requests, Ignore(r) PROVE Holds(q)'
  <2>1. CASE q # r
    BY <1>1, <1>8, <2>1, OthersHold DEF Ignore
  <2>2. CASE q = r
    <3> DEFINE a == Advanced(q)
    <3>1. Running(q) /\ Statement(q) = "note"
      BY <1>8, <2>2 DEF Ignore
    <3>2. request'[q] = a /\ held' = held \ {<<q, "statement">>}
      BY <1>1, <1>8, <2>2 DEF Ignore
    <3>3. /\ Running(q)' <=> a.stage = "running"
          /\ Statement(q)' = Script(a.kind)[a.at]
      BY <3>2 DEF Running, Statement
    <3>4. ~Running(q)' \/ Statement(q)' \notin InTransaction
      BY <3>1, <3>3, Going DEF IInv
    <3>5. <<q, "transaction">> \notin held
      BY <1>2, <3>1 DEF Holds, InTransaction
    <3> QED
      BY <3>2, <3>4, <3>5 DEF Holds
  <2> QED
    BY <2>1, <2>2
<1>9. ASSUME NEW r \in Requests, Abandon(r) PROVE Holds(q)'
  <2>1. CASE q # r
    BY <1>1, <1>9, <2>1, OthersHold DEF Abandon
  <2>2. CASE q = r
    <3>1. request'[q] = Over /\ held' = held \ {<<q, "statement">>, <<q, "transaction">>}
      BY <1>1, <1>9, <2>2 DEF Abandon
    <3>2. ~Running(q)'
      BY <3>1 DEF Running, Over
    <3> QED
      BY <3>1, <3>2 DEF Holds
  <2> QED
    BY <2>1, <2>2
<1>10. CASE Kill
  <2>1. held' = {} /\ ~Running(q)'
    BY <1>10 DEF Kill, Running, Over
  <2> QED
    BY <2>1 DEF Holds
<1>11. CASE Start \/ Terminate \/ Exit \/ Idle \/ UNCHANGED poolVars
  BY <1>4, <1>11 DEF Start, Terminate, Exit, Idle, poolVars
<1> QED
  BY <1>5, <1>6, <1>7, <1>8, <1>9, <1>10, <1>11 DEF Next

LEMMA OwnedStep == ASSUME IInv, [Next]_poolVars PROVE Owned'
<1>1. /\ request \in [Requests -> [stage : {"new", "running", "over"}, kind : Handlers,
                                   at : Nat \ {0}]]
      /\ locked \in [Rows -> Requests \cup {None}]
  BY DEF IInv, TypeOK
<1>2. SUFFICES ASSUME NEW row \in Rows, locked'[row] # None
               PROVE  Owns(row, locked[row])'
  BY DEF Owned
<1>3. ASSUME locked[row] # None, locked'[row] = locked[row],
             request'[locked[row]] = request[locked[row]]
      PROVE  Owns(row, locked[row])'
  <2>1. Owns(row, locked[row])
    BY <1>3 DEF IInv, Owned
  <2> QED
    BY <1>3, <2>1 DEF Owns, Running, Statement
<1>4. locked[row] # None =>
        locked[row] \in Requests /\ Running(locked[row])
        /\ Statement(locked[row]) \in InTransaction /\ RowOf(request[locked[row]].kind) = row
  BY <1>1 DEF IInv, Owned, Owns
<1>5. ASSUME NEW r \in Requests, NEW kind \in Kinds, Receive(r, kind)
      PROVE  Owns(row, locked[row])'
  <2>1. locked' = locked /\ ~Running(r)
    BY <1>5 DEF Receive, Running
  <2> QED
    BY <1>1, <1>2, <1>3, <1>4, <1>5, <2>1 DEF Receive
<1>6. ASSUME NEW r \in Requests, Acquire(r)
      PROVE  Owns(row, locked[row])'
  BY <1>2, <1>3, <1>6 DEF Acquire
<1>7. ASSUME NEW r \in Requests, Execute(r)
      PROVE  Owns(row, locked[row])'
  <2>1. Running(r) /\ request' = [request EXCEPT ![r] = Advanced(r)]
    BY <1>7 DEF Execute
  <2>2. CASE locked'[row] = locked[row] /\ locked[row] # r
    BY <1>1, <1>2, <1>3, <1>4, <2>1, <2>2
  <2>3. ASSUME locked'[row] = r, Statement(r) \in {"insert", "add"},
               RowOf(request[r].kind) = row
        PROVE  Owns(row, locked[row])'
    <3>1. /\ Advanced(r).stage = "running" /\ Advanced(r).kind = request[r].kind
          /\ Script(Advanced(r).kind)[Advanced(r).at] \in InTransaction
      BY <2>1, <2>3, Going DEF IInv
    <3>2. request'[r] = Advanced(r)
      BY <1>1, <2>1
    <3>3. /\ Running(locked[row])' /\ Statement(locked[row])' \in InTransaction
          /\ RowOf(request'[locked'[row]].kind) = row
      BY <2>3, <3>1, <3>2 DEF Running, Statement
    <3> QED
      BY <3>3 DEF Owns
  <2>4. CASE Statement(r) = "insert"
    <3>1. locked' = [locked EXCEPT ![RowOf(request[r].kind)] = r]
      BY <1>7, <2>4 DEF Execute
    <3>2. \/ locked'[row] = r /\ RowOf(request[r].kind) = row
          \/ locked'[row] = locked[row]
      BY <1>1, <3>1
    <3> QED
      BY <1>2, <1>4, <2>2, <2>3, <2>4, <3>2
  <2>5. CASE Statement(r) = "commit"
    <3>1. locked'[row] = IF locked[row] = r THEN None ELSE locked[row]
      BY <1>7, <2>5 DEF Execute, Unlocked
    <3> QED
      BY <1>2, <2>2, <3>1
  <2>6. CASE Statement(r) \notin {"insert", "commit"}
    <3>1. locked' = locked
      BY <1>7, <2>6 DEF Execute
    <3>2. locked[row] = r => Statement(r) = "add" /\ RowOf(request[r].kind) = row
      BY <1>2, <1>4, <2>6, <3>1 DEF InTransaction
    <3> QED
      BY <2>2, <2>3, <3>1, <3>2
  <2> QED
    BY <2>4, <2>5, <2>6
<1>8. ASSUME NEW r \in Requests, Ignore(r)
      PROVE  Owns(row, locked[row])'
  <2>1. locked' = locked /\ Statement(r) = "note"
        /\ request' = [request EXCEPT ![r] = Advanced(r)]
    BY <1>8 DEF Ignore
  <2>2. locked[row] # r
    BY <1>2, <1>4, <2>1 DEF InTransaction
  <2> QED
    BY <1>1, <1>2, <1>3, <1>4, <2>1, <2>2
<1>9. ASSUME NEW r \in Requests, Abandon(r)
      PROVE  Owns(row, locked[row])'
  <2>1. locked'[row] = IF locked[row] = r THEN None ELSE locked[row]
    BY <1>9 DEF Abandon, Unlocked
  <2>2. request' = [request EXCEPT ![r] = Over]
    BY <1>9 DEF Abandon
  <2> QED
    BY <1>1, <1>2, <1>3, <1>4, <2>1, <2>2
<1>10. CASE Kill
  BY <1>2, <1>10 DEF Kill
<1>11. CASE Start \/ Terminate \/ Exit \/ Idle \/ UNCHANGED poolVars
  <2>1. locked' = locked /\ request' = request
    BY <1>11 DEF Start, Terminate, Exit, Idle, poolVars
  <2> QED
    BY <1>2, <1>3, <2>1
<1> QED
  BY <1>5, <1>6, <1>7, <1>8, <1>9, <1>10, <1>11 DEF Next

LEMMA SizedStep == ASSUME IInv, [Next]_poolVars PROVE Sized'
<1>1. /\ IsFiniteSet(held) /\ Cardinality(held) <= MaxConnections
      /\ Cardinality(held) \in Nat /\ MaxConnections \in Nat
  BY FS_CardinalityType, ServiceAssumption DEF IInv, Sized
<1>2. ASSUME held' \subseteq held PROVE Sized'
  <2>1. IsFiniteSet(held') /\ Cardinality(held') <= Cardinality(held)
    BY <1>1, <1>2, FS_Subset
  <2>2. Cardinality(held') \in Nat
    BY <2>1, FS_CardinalityType
  <2> QED
    BY <1>1, <2>1, <2>2 DEF Sized
<1>3. ASSUME NEW r \in Requests, Acquire(r) PROVE Sized'
  <2>1. PICK c : held' = held \cup {c}
    BY <1>3 DEF Acquire
  <2>2. Cardinality(held) < MaxConnections
    BY <1>3 DEF Acquire
  <2>3. /\ IsFiniteSet(held \cup {c})
        /\ Cardinality(held \cup {c}) = IF c \in held THEN Cardinality(held)
                                        ELSE Cardinality(held) + 1
    BY <1>1, FS_AddElement
  <2> QED
    BY <1>1, <2>1, <2>2, <2>3 DEF Sized
<1>4. ASSUME NEW r \in Requests, Execute(r) \/ Ignore(r) \/ Abandon(r) PROVE Sized'
  <2>1. held' \subseteq held
    BY <1>4 DEF Execute, Ignore, Abandon
  <2> QED
    BY <1>2, <2>1
<1>5. ASSUME NEW r \in Requests, NEW kind \in Kinds, Receive(r, kind) PROVE Sized'
  BY <1>2, <1>5 DEF Receive
<1>6. CASE Start \/ Terminate \/ Exit \/ Kill \/ Idle \/ UNCHANGED poolVars
  <2>1. held' \subseteq held
    BY <1>6 DEF Start, Terminate, Exit, Kill, Idle, poolVars
  <2> QED
    BY <1>2, <2>1
<1> QED
  BY <1>3, <1>4, <1>5, <1>6 DEF Next

\* The inductive invariant: where a request stands in its handler says which
\* connection it holds, and whether a changed row may be its own.
THEOREM Inductive == Spec => []IInv
<1>1. IInv /\ [Next]_poolVars => IInv'
  BY TypeStep, StagedStep, OwnedStep, SizedStep DEF IInv
<1> QED
  BY Initially, <1>1, PTL DEF Spec

-----------------------------------------------------------------------------

\* The variables keep their types, and no handler runs past its last statement.
THEOREM TypeCorrect == Spec => []TypeOK
<1>1. IInv => TypeOK
  BY DEF IInv
<1> QED
  BY Inductive, <1>1, PTL

\* Nobody who holds a connection asks for another one, whatever the handlers
\* in service and the size of the pool: a pool that is full of requests is not
\* full of requests that wait for it.
THEOREM NoHoldAndWait == Spec => []HoldersDoNotAsk
<1>1. ASSUME IInv PROVE HoldersDoNotAsk
  <2>1. SUFFICES ASSUME NEW r \in Requests, Asks(r)
                 PROVE  <<r, "statement">> \notin held /\ <<r, "transaction">> \notin held
    BY DEF HoldersDoNotAsk
  <2>2. Holds(r)
    BY <1>1 DEF IInv, Staged, Holds
  <2>3. Statement(r) \in OnPool /\ <<r, Use(Statement(r))>> \notin held
    BY <2>1 DEF Asks
  <2>4. CASE Statement(r) = "begin"
    BY <2>2, <2>3, <2>4 DEF Use, Holds
  <2>5. CASE Statement(r) # "begin"
    <3>1. Statement(r) \notin InTransaction \cup {"begin"}
      BY <2>3, <2>5 DEF OnPool, InTransaction
    <3>2. Use(Statement(r)) = "statement"
      BY <3>1 DEF Use
    <3> QED
      BY <2>2, <2>3, <3>1, <3>2 DEF Holds
  <2> QED
    BY <2>4, <2>5
<1> QED
  BY Inductive, <1>1, PTL

\* Whatever is in use is in use by a request that is being served, a changed
\* row by one that has its connection, and the pool is never exceeded.
THEOREM NoLeak == Spec => []NothingIsLeaked
<1>1. ASSUME IInv PROVE NothingIsLeaked
  <2>1. ASSUME NEW c \in held PROVE Running(c[1])
    <3>1. PICK r \in Requests, use \in {"statement", "transaction"} : c = <<r, use>>
      BY <1>1 DEF IInv, TypeOK
    <3>2. Holds(r)
      BY <1>1 DEF IInv, Staged, Holds
    <3> QED
      BY <3>1, <3>2 DEF Holds
  <2>2. ASSUME NEW row \in Rows, locked[row] # None
        PROVE  Running(locked[row]) /\ <<locked[row], "transaction">> \in held
    <3>1. locked[row] \in Requests
      BY <1>1, <2>2 DEF IInv, TypeOK
    <3>2. Holds(locked[row])
      BY <1>1, <3>1 DEF IInv, Staged, Holds
    <3> QED
      BY <1>1, <2>2, <3>2 DEF IInv, Owned, Owns, Holds
  <2> QED
    BY <1>1, <2>1, <2>2 DEF IInv, Sized, NothingIsLeaked
<1> QED
  BY Inductive, <1>1, PTL

\* A transaction that has changed a row has its connection, and waits for none.
LEMMA OwnersGoOn ==
  ASSUME IInv, NEW row \in Rows, locked[row] # None
  PROVE  /\ locked[row] \in Requests /\ CanGoOn(locked[row])
         /\ <<locked[row], "transaction">> \in held
<1> DEFINE q == locked[row]
<1>1. q \in Requests /\ Owns(row, q)
  BY DEF IInv, TypeOK, Owned
<1>2. <<q, "transaction">> \in held
  BY <1>1 DEF IInv, Staged, Owns
<1>3. Running(q) /\ ~Asks(q)
  BY <1>1 DEF Owns, Asks, OnPool, InTransaction
<1>4. ~MustWait(q)
  BY <1>1 DEF Owns, MustWait, InTransaction
<1> QED
  BY <1>1, <1>2, <1>3, <1>4 DEF CanGoOn

\* Whoever cannot go on waits for somebody who can, for any number of requests
\* of whatever kinds, and a pool of any size: not everybody waits.
THEOREM NobodyWaitsForWaiters == Spec => []WaitsEnd
<1>1. ASSUME IInv, HoldersDoNotAsk PROVE WaitsEnd
  <2> SUFFICES ASSUME NEW r \in Requests, Running(r), ~CanGoOn(r)
               PROVE  \E q \in Requests : CanGoOn(q) /\ HasWhatItNeeds(q, r)
    BY DEF WaitsEnd
  <2>1. ASSUME NEW q \in Requests, Running(q), ~Asks(q), ~CanGoOn(q)
        PROVE  LET row == RowOf(request[q].kind) IN row \in Rows /\ locked[row] # None
    <3>1. MustWait(q)
      BY <2>1 DEF CanGoOn
    <3> QED
      BY <3>1 DEF MustWait, RowOf, Rows
  <2>2. CASE ~Asks(r)
    <3>1. PICK row \in Rows : row = RowOf(request[r].kind) /\ locked[row] # None
      BY <2>1, <2>2
    <3> QED
      BY <1>1, <2>2, <3>1, OwnersGoOn DEF HasWhatItNeeds
  <2>3. CASE Asks(r)
    <3>1. Cardinality(held) \in Nat /\ ~(Cardinality(held) < MaxConnections)
      BY <1>1, <2>3, FS_CardinalityType DEF CanGoOn, IInv, Sized
    <3>2. held # {}
      BY <3>1, FS_EmptySet, ServiceAssumption
    <3>3. PICK q \in Requests, use \in {"statement", "transaction"} : <<q, use>> \in held
      <4>1. PICK c \in held : TRUE
        BY <3>2
      <4>2. held \subseteq Requests \X {"statement", "transaction"}
        BY <1>1 DEF IInv, TypeOK
      <4> QED
        BY <4>1, <4>2
    <3>4. Running(q) /\ ~Asks(q)
      BY <1>1, <3>3 DEF IInv, Staged, HoldersDoNotAsk
    <3>5. CASE CanGoOn(q)
      BY <2>3, <3>3, <3>5 DEF HasWhatItNeeds
    <3>6. CASE ~CanGoOn(q)
      <4>1. PICK row \in Rows : locked[row] # None
        BY <2>1, <3>4, <3>6
      <4> QED
        BY <1>1, <2>3, <4>1, OwnersGoOn DEF HasWhatItNeeds
    <3> QED
      BY <3>5, <3>6
  <2> QED
    BY <2>2, <2>3
<1> QED
  BY Inductive, NoHoldAndWait, <1>1, PTL

=============================================================================
