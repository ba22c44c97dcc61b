------------------------------ MODULE Installs ------------------------------
(***************************************************************************)
(* The install records of routes/installs.rs and the count that a listing  *)
(* makes of them.  A harness says that it has a workflow, again and again, *)
(* and that it no longer has it; its calls take several statements, are    *)
(* lost, refused, repeated and overtake one another.                       *)
(*                                                                         *)
(* last_seen_at is modelled by its age, which stops growing at Horizon,    *)
(* where nothing depends on it any more; a statement takes no time.        *)
(***************************************************************************)
EXTENDS Integers

CONSTANTS
  Slugs,
  Installations,   \* installation_id, one for each harness
  Calls,           \* bound: calls under way at the same time
  Horizon,         \* the 90 days, in ticks
  MaxVersion       \* bound: versions of a workflow

ASSUME KeysAssumption == Slugs # {} /\ Installations # {}
ASSUME BoundsAssumption == Horizon \in Nat \ {0} /\ MaxVersion \in Nat \ {0}

Keys == Slugs \X Installations

VARIABLES
  published,   \* slug -> its highest version, 0 when there is no such workflow
  installs,    \* registry_installs: <<slug, installation>> -> row
  has,         \* external: the keys whose harness has the workflow right now
  call,        \* what each call asks
  pc,          \* the statement it executes next
  owed         \* history: the rows inserted for a key, less the forgets that
               \* were or will be told they removed one

vars == <<published, installs, has, call, pc, owed>>

InstallRow == [version : Nat, age : 0 .. Horizon]
Call == [op : {"record", "forget"}, key : Keys, version : Nat]
Stages == {"limit", "workflow", "version", "write", "respond"}

\* The slug and the version a call names.
Slug(c) == call[c].key[1]

Exists(s) == published[s] > 0

\* A version nobody checks.
KnowsAnyVersion(s, n) == TRUE

KnowsVersion(s, n) == n \in 1 .. published[s]

\* A count of all the rows there are.
RecentForEver(row) == TRUE

\* last_seen_at > now() - interval '90 days'
Recent(row) == row.age < Horizon

Counted(k) == k \in DOMAIN installs /\ Recent(installs[k])

-----------------------------------------------------------------------------
(* The harnesses, the publishers and the clock.                            *)

Toggle(k) ==
  /\ Exists(k[1])
  /\ has' = IF k \in has THEN has \ {k} ELSE has \cup {k}
  /\ UNCHANGED <<published, installs, call, pc, owed>>

Publish(s) ==
  /\ published[s] < MaxVersion
  /\ published' = [published EXCEPT ![s] = @ + 1]
  /\ UNCHANGED <<installs, has, call, pc, owed>>

Tick ==
  /\ installs' = [k \in DOMAIN installs |->
       [version |-> installs[k].version,
        age |-> IF installs[k].age < Horizon THEN installs[k].age + 1 ELSE Horizon]]
  /\ UNCHANGED <<published, has, call, pc, owed>>

\* A harness that has a workflow says so, with a version that may be mistyped;
\* one that has it not may say that.
Send(c, k) ==
  /\ pc[c] = "idle"
  /\ \/ /\ k \in has
        /\ \E n \in 1 .. MaxVersion :
             call' = [call EXCEPT ![c] = [op |-> "record", key |-> k, version |-> n]]
     \/ /\ k \notin has
        /\ call' = [call EXCEPT ![c] = [op |-> "forget", key |-> k, version |-> 0]]
  /\ pc' = [pc EXCEPT ![c] = "limit"]
  /\ UNCHANGED <<published, installs, has, owed>>

-----------------------------------------------------------------------------
(* record and forget.                                                      *)

Proceed(c, stage) ==
  pc' = [pc EXCEPT ![c] = stage] /\ UNCHANGED <<published, has, call>>

Untouched == UNCHANGED <<installs, owed>>

\* The limiter lets it pass; Lose stands for the refusal.
PassLimit(c) == pc[c] = "limit" /\ Proceed(c, "workflow") /\ Untouched

FindWorkflow(c) ==
  /\ pc[c] = "workflow"
  /\ Proceed(c, IF ~Exists(Slug(c)) THEN "idle"
                ELSE IF call[c].op = "record" THEN "version" ELSE "write")
  /\ Untouched

FindVersion(c) ==
  /\ pc[c] = "version"
  /\ Proceed(c, IF KnowsVersion(Slug(c), call[c].version) THEN "write" ELSE "idle")
  /\ Untouched

\* ON CONFLICT DO UPDATE of the version alone.
RefreshedVersion(c, k) ==
  [version |-> call[c].version, age |-> IF k \in DOMAIN installs THEN installs[k].age ELSE 0]

Refreshed(c, k) == [version |-> call[c].version, age |-> 0]

Record(c) ==
  LET k == call[c].key IN
  /\ pc[c] = "write" /\ call[c].op = "record"
  /\ installs' = [j \in DOMAIN installs \cup {k} |->
                    IF j = k THEN Refreshed(c, k) ELSE installs[j]]
  /\ owed' = IF k \in DOMAIN installs THEN owed ELSE [owed EXCEPT ![k] = @ + 1]
  /\ Proceed(c, "respond")

\* A forget that reports success whenever it ran.
RemovedAny(c) == TRUE

\* rows_affected() of the DELETE
Removed(c) == call[c].key \in DOMAIN installs

Forget(c) ==
  LET k == call[c].key IN
  /\ pc[c] = "write" /\ call[c].op = "forget"
  /\ installs' = [j \in DOMAIN installs \ {k} |-> installs[j]]
  /\ owed' = IF Removed(c) THEN [owed EXCEPT ![k] = @ - 1] ELSE owed
  /\ Proceed(c, "respond")

Respond(c) == pc[c] = "respond" /\ Proceed(c, "idle") /\ Untouched

\* Refused by the limiter, failed, or lost.
Lose(c) == pc[c] \in Stages /\ Proceed(c, "idle") /\ Untouched

Init ==
  /\ published \in [Slugs -> {0, 1}]
  /\ installs = [k \in {} |-> [version |-> 0, age |-> 0]]
  /\ has = {}
  /\ call = [c \in Calls |-> [op |-> "forget", key |-> CHOOSE k \in Keys : TRUE, version |-> 0]]
  /\ pc = [c \in Calls |-> "idle"]
  /\ owed = [k \in Keys |-> 0]

Step(c) ==
  PassLimit(c) \/ FindWorkflow(c) \/ FindVersion(c) \/ Record(c) \/ Forget(c) \/ Respond(c)

Next ==
  \/ \E k \in Keys : Toggle(k)
  \/ \E s \in Slugs : Publish(s)
  \/ Tick
  \/ \E c \in Calls : (\E k \in Keys : Send(c, k)) \/ Step(c) \/ Lose(c)

Spec == Init /\ [][Next]_vars

\* Time passes, and the service drives what it has begun.
FairSpec == Spec /\ WF_vars(Tick) /\ \A c \in Calls : WF_vars(Step(c))

-----------------------------------------------------------------------------
(* Properties.                                                             *)

\* Every variable has its type, and every row of registry_installs is of a
\* version that was published ("otherwise a typo silently records an install
\* of something that was never published").
TypeOK ==
  /\ published \in [Slugs -> Nat]
  /\ DOMAIN installs \subseteq Keys
  /\ installs \in [DOMAIN installs -> InstallRow]
  /\ \A k \in DOMAIN installs : installs[k].version \in 1 .. published[k[1]]
  /\ has \subseteq Keys
  /\ call \in [Calls -> Call]
  /\ pc \in [Calls -> Stages \cup {"idle"}]
  /\ owed \in [Keys -> Int]

\* "A repeated uninstall is honest about having found nothing rather than
\* reporting a deletion it did not make": the forgets of a key that are told of
\* a deletion never outnumber the rows that were there to delete.
HonestForgets == \A k \in Keys : owed[k] >= 0

\* "The count comes back down": once a harness has removed a workflow for good
\* the count is without it for good, even when the forget was lost, or was
\* overtaken by a record sent before it.
RemovedStopsCounting ==
  \A k \in Keys : <>[](k \notin has) => <>[]~Counted(k)

\* "It also makes the figure mean installs still out there": a harness that
\* keeps a workflow, and gets a call through again and again, does not drop out
\* of the count for good.
RecordOf(k) == \E c \in Calls : Record(c) /\ call[c].key = k

KeptStaysCounted ==
  \A k \in Keys :
    <>[](k \in has) /\ []<>(<<RecordOf(k)>>_vars) => []<>Counted(k)
=============================================================================
