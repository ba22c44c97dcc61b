----------------------------- MODULE Enrollment -----------------------------
(***************************************************************************)
(* Accounts and their tokens: the two enrollment endpoints, over GitHub's  *)
(* device flow; the operator, who mints tokens and blocks accounts; and    *)
(* the publisher, who picks a display name.                                *)
(*                                                                         *)
(* Nothing of a sign-in is kept between two polls: its state is GitHub's,  *)
(* and GitHub (external) hands out the access token of a device code once. *)
(* A poll suspends at each of its four calls, two to GitHub and two to     *)
(* Postgres, and each of them may fail or lose its answer.                 *)
(***************************************************************************)
EXTENDS Integers, FiniteSets

CONSTANTS
  Accounts,    \* GitHub accounts: the numeric ids
  Codes,       \* the device codes GitHub will issue
  Tries,       \* bound: polls of one code under way at the same time
  Issues,      \* the operator's POST /v1/admin/tokens
  Patches,     \* the publishers' PATCH /v1/me
  Logins, Names, Avatars,   \* what GitHub profiles say
  None,        \* NULL
  FirstLogin,  \* the login of each account to begin with
  TooNew,      \* the accounts that are too new to begin with
  Ops          \* what a run lets others do: "block", "profile"

Polls == Codes \X Tries
Calls == Polls \cup Issues \cup Patches

ASSUME LoginAssumption ==
  /\ FirstLogin \in [Accounts -> Logins]
  /\ \A a, b \in Accounts : FirstLogin[a] = FirstLogin[b] => a = b
ASSUME NoneAssumption ==
  /\ None \notin Accounts \cup Logins \cup Names \cup Avatars \cup Calls
  /\ (Names \cup Avatars) \cap (Issues \cup Patches) = {}
ASSUME CallsAssumption ==
  /\ Polls \cap Issues = {} /\ Polls \cap Patches = {} /\ Issues \cap Patches = {}
  /\ TooNew \subseteq Accounts

VARIABLES
  profile,     \* GitHub: what the profile of each account says today
  code,        \* GitHub: how far each device code is, and who entered it
  young,       \* the accounts younger than min_account_age_days
  publishers,  \* registry_publishers: account -> row, for the rows there are
  tokens,      \* registry_publisher_tokens
  pc,          \* the call each request makes next
  user,        \* whom it goes by: GitHub's answer, or the body of the request
  harness,     \* what the harness of each code was last told
  chosen       \* history: the name last picked by a publisher or the operator

github == <<profile, code, young>>
database == <<publishers, tokens>>
vars == <<profile, code, young, publishers, tokens, pc, user, harness, chosen>>

\* A name or picture brought by a request is written as that request.
AnyName == Names \cup Issues \cup Patches \cup {None}
AnyAvatar == Avatars \cup Issues \cup {None}

Row == [login : Logins, name : AnyName, avatar : AnyAvatar, blocked : BOOLEAN]
User == [id : Accounts, login : Logins, name : AnyName, avatar : AnyAvatar]
Token == [owner : Accounts, by : Polls \cup Issues]
Profile == [login : Logins, name : Names \cup {None}, avatar : Avatars \cup {None}]
Code == [is : {"unissued", "pending", "authorized", "denied", "expired", "spent"},
         by : Accounts \cup {None}]

Stages == {"ask", "profile", "upsert", "insert", "respond", "issue_upsert",
           "issue_insert", "issue_commit", "auth", "patch"}
Told == {"nothing", "polling", "complete", "declined", "expired", "refused", "gave_up"}

InFlight(x) == pc[x] \in Stages

\* COALESCE
First(x, y) == IF x # None THEN x ELSE y

\* The row of an account, or what COALESCE makes of a row that is not there.
OldRow(a) ==
  IF a \in DOMAIN publishers THEN publishers[a]
  ELSE [login |-> None, name |-> None, avatar |-> None, blocked |-> FALSE]

\* The UPDATE, or INSERT ... ON CONFLICT, of one row.
Put(a, row) ==
  publishers' = [b \in DOMAIN publishers \cup {a} |-> IF b = a THEN row ELSE publishers[b]]

\* A row that goes by the login: the account that takes an abandoned login
\* would take the row along.
IdentityByLogin(u) ==
  IF \E a \in DOMAIN publishers : publishers[a].login = u.login
  THEN CHOOSE a \in DOMAIN publishers : publishers[a].login = u.login
  ELSE u.id

\* ON CONFLICT (github_id)
Identity(u) == u.id

\* An issue_token that has upserted keeps the row until it commits.
HoldsRow(x, a) ==
  x \in Issues /\ pc[x] \in {"issue_insert", "issue_commit"} /\ Identity(user[x]) = a

RowFree(a) == \A x \in Issues : ~HoldsRow(x, a)

Move(x, stage) == pc' = [pc EXCEPT ![x] = stage]

\* The request is over, and its caller knows how it went.
End(p, told) ==
  /\ Move(p, "idle")
  /\ harness' = [harness EXCEPT ![p[1]] = told]

-----------------------------------------------------------------------------
(* GitHub and the people who use it.                                       *)

\* POST /v1/enroll, answered with a code, after which the harness polls.
Start(c) ==
  /\ code[c].is = "unissued"
  /\ code' = [code EXCEPT ![c].is = "pending"]
  /\ harness' = [harness EXCEPT ![c] = "polling"]
  /\ UNCHANGED <<profile, young, database, pc, user, chosen>>

\* A person enters the code, and consents or does not.
Decide(c, a, is) ==
  /\ code[c].is = "pending"
  /\ code' = [code EXCEPT ![c] = [is |-> is, by |-> a]]
  /\ UNCHANGED <<profile, young, database, pc, user, harness, chosen>>

Expire(c) ==
  /\ code[c].is \in {"pending", "authorized"}
  /\ code' = [code EXCEPT ![c].is = "expired"]
  /\ UNCHANGED <<profile, young, database, pc, user, harness, chosen>>

\* Somebody edits a profile.  A login that is given up is free for others.
EditProfile(a) ==
  /\ "profile" \in Ops
  /\ \E new \in Profile :
       /\ \A b \in Accounts \ {a} : profile[b].login # new.login
       /\ profile' = [profile EXCEPT ![a] = new]
  /\ UNCHANGED <<code, young, database, pc, user, harness, chosen>>

GrowUp(a) ==
  /\ a \in young
  /\ young' = young \ {a}
  /\ UNCHANGED <<profile, code, database, pc, user, harness, chosen>>

\* What GitHub answers a token request, always with a 200.
Says ==
  [unissued   |-> {"incorrect_device_code"},
   pending    |-> {"authorization_pending", "slow_down"},
   authorized |-> {"token"},
   denied     |-> {"access_denied"},
   expired    |-> {"expired_token"},
   spent      |-> {"incorrect_device_code"}]

-----------------------------------------------------------------------------
(* poll.                                                                   *)

Meanings ==
  [token                 |-> "authorized",
   authorization_pending |-> "pending",
   slow_down             |-> "slow_down",
   access_denied         |-> "declined"]

\* An answer that is not recognised read as "not yet".
ClassifyPatiently(e) == IF e \in DOMAIN Meanings THEN Meanings[e] ELSE "pending"

\* An answer that is not recognised counts as expired.
Classify(e) == IF e \in DOMAIN Meanings THEN Meanings[e] ELSE "expired"

PollArrives(p) ==
  /\ pc[p] = "idle" /\ harness[p[1]] = "polling"
  /\ Move(p, "ask")
  /\ UNCHANGED <<github, database, user, harness, chosen>>

\* The token request.  GitHub gives the access token away once.
AskGitHub(p) ==
  /\ pc[p] = "ask"
  /\ \E e \in Says[code[p[1]].is] :
       /\ code' = IF e = "token" THEN [code EXCEPT ![p[1]].is = "spent"] ELSE code
       /\ \/ /\ Classify(e) = "authorized"
             /\ Move(p, "profile") /\ UNCHANGED harness
          \/ /\ Classify(e) \in {"pending", "slow_down"}
             /\ Move(p, "idle") /\ UNCHANGED harness
          \/ /\ Classify(e) \in {"declined", "expired"}
             /\ End(p, Classify(e))
  /\ UNCHANGED <<profile, young, database, user, chosen>>

\* The profile read, and the age check on what it says.
ReadProfile(p) ==
  LET a == code[p[1]].by IN
  /\ pc[p] = "profile"
  /\ user' = [user EXCEPT ![p] = [id |-> a, login |-> profile[a].login,
                                  name |-> profile[a].name, avatar |-> profile[a].avatar]]
  /\ IF a \in young THEN End(p, "refused") ELSE Move(p, "upsert") /\ UNCHANGED harness
  /\ UNCHANGED <<github, database, chosen>>

\* The COALESCE of issue_token in the place of that of upsert_publisher.
EnrolledAsIssued(old, u) ==
  [login |-> u.login, name |-> First(u.name, old.name),
   avatar |-> First(u.avatar, old.avatar), blocked |-> old.blocked]

\* An INSERT that leaves the login to be refreshed later.
EnrolledWithoutLogin(old, u) ==
  [login |-> old.login, name |-> First(old.name, u.name),
   avatar |-> First(u.avatar, old.avatar), blocked |-> old.blocked]

Enrolled(old, u) ==
  [login |-> u.login, name |-> First(old.name, u.name),
   avatar |-> First(u.avatar, old.avatar), blocked |-> old.blocked]

\* Without the check on the upsert path.
MayAlwaysEnroll(a) == TRUE

MayEnroll(a) == ~OldRow(a).blocked

\* One statement writes the row and tells whether it is blocked.  From here on
\* the request goes by the row's id.
Upsert(p) ==
  LET a == Identity(user[p]) IN
  /\ pc[p] = "upsert"
  /\ RowFree(a)
  /\ Put(a, Enrolled(OldRow(a), user[p]))
  /\ user' = [user EXCEPT ![p].id = a]
  /\ IF MayEnroll(a) THEN Move(p, "insert") /\ UNCHANGED harness ELSE End(p, "refused")
  /\ UNCHANGED <<github, tokens, chosen>>

InsertToken(p) ==
  /\ pc[p] = "insert"
  /\ tokens' = tokens \cup {[owner |-> user[p].id, by |-> p]}
  /\ Move(p, "respond")
  /\ UNCHANGED <<github, publishers, user, harness, chosen>>

Respond(p) ==
  /\ pc[p] = "respond"
  /\ End(p, "complete")
  /\ UNCHANGED <<github, database, user, chosen>>

\* A call fails, an answer is lost or the process is killed.  The harness may
\* or may not go on polling.  GitHub may have spent the code by then.
LosePoll(p) ==
  /\ p \in Polls /\ InFlight(p)
  /\ Move(p, "idle")
  /\ \/ UNCHANGED harness
     \/ /\ harness[p[1]] = "polling"
        /\ harness' = [harness EXCEPT ![p[1]] = "gave_up"]
  /\ \/ UNCHANGED code
     \/ /\ pc[p] = "ask" /\ code[p[1]].is = "authorized"
        /\ code' = [code EXCEPT ![p[1]].is = "spent"]
  /\ UNCHANGED <<profile, young, database, user, chosen>>

-----------------------------------------------------------------------------
(* issue_token: an upsert and an insert in one transaction.                *)

Issued(old, u) ==
  [login |-> u.login, name |-> First(u.name, old.name),
   avatar |-> First(u.avatar, old.avatar), blocked |-> old.blocked]

ReceiveIssue(i) ==
  /\ pc[i] = "new"
  /\ Move(i, "issue_upsert")
  /\ \E a \in Accounts, name \in {i, None}, avatar \in {i, None} :
       user' = [user EXCEPT ![i] = [id |-> a, login |-> profile[a].login,
                                    name |-> name, avatar |-> avatar]]
  /\ UNCHANGED <<github, database, harness, chosen>>

\* The upsert made on the pool and not in the transaction.
UpsertIssueOnPool(i) ==
  LET a == Identity(user[i]) IN
  /\ pc[i] = "issue_upsert"
  /\ RowFree(a)
  /\ Put(a, Issued(OldRow(a), user[i]))
  /\ Move(i, "issue_insert")
  /\ UNCHANGED <<github, tokens, user, harness, chosen>>

UpsertIssue(i) ==
  /\ pc[i] = "issue_upsert"
  /\ RowFree(Identity(user[i]))
  /\ Move(i, "issue_insert")
  /\ UNCHANGED <<github, database, user, harness, chosen>>

InsertIssued(i) ==
  /\ pc[i] = "issue_insert"
  /\ Move(i, "issue_commit")
  /\ UNCHANGED <<github, database, user, harness, chosen>>

CommitIssue(i) ==
  LET a == Identity(user[i]) IN
  /\ pc[i] = "issue_commit"
  /\ Put(a, Issued(OldRow(a), user[i]))
  /\ tokens' = tokens \cup {[owner |-> a, by |-> i]}
  /\ chosen' = [chosen EXCEPT ![a] = First(user[i].name, @)]
  /\ Move(i, "done")
  /\ UNCHANGED <<github, user, harness>>

-----------------------------------------------------------------------------
(* me::update, and the block.                                              *)

\* A blank name asks for none.
ReceivePatch(p) ==
  /\ pc[p] = "new"
  /\ Move(p, "auth")
  /\ \E a \in Accounts, name \in {p, None} :
       user' = [user EXCEPT ![p] = [id |-> a, login |-> profile[a].login,
                                    name |-> name, avatar |-> None]]
  /\ UNCHANGED <<github, database, harness, chosen>>

Authenticate(p) ==
  /\ pc[p] = "auth"
  /\ Move(p, IF (\E t \in tokens : t.owner = user[p].id) /\ ~OldRow(user[p].id).blocked
             THEN "patch" ELSE "done")
  /\ UNCHANGED <<github, database, user, harness, chosen>>

PatchName(p) ==
  LET a == user[p].id IN
  /\ pc[p] = "patch"
  /\ RowFree(a)
  /\ publishers' = [publishers EXCEPT ![a].name = user[p].name]
  /\ chosen' = [chosen EXCEPT ![a] = user[p].name]
  /\ Move(p, "done")
  /\ UNCHANGED <<github, tokens, user, harness>>

\* A refusal, a failure or a crash before the commit: rolled back.
Drop(x) ==
  /\ x \in Issues \cup Patches /\ InFlight(x)
  /\ Move(x, "done")
  /\ UNCHANGED <<github, database, user, harness, chosen>>

SetBlocked(a, value) ==
  /\ "block" \in Ops
  /\ a \in DOMAIN publishers /\ RowFree(a)
  /\ publishers' = [publishers EXCEPT ![a].blocked = value]
  /\ UNCHANGED <<github, tokens, pc, user, harness, chosen>>

-----------------------------------------------------------------------------
(* The specification.                                                      *)

Init ==
  /\ profile \in [Accounts -> Profile]
  /\ \A a \in Accounts : profile[a].login = FirstLogin[a]
  /\ code = [c \in Codes |-> [is |-> "unissued", by |-> None]]
  /\ young = TooNew
  /\ publishers = [a \in {} |-> OldRow(a)]
  /\ tokens = {}
  /\ pc = [x \in Calls |-> IF x \in Polls THEN "idle" ELSE "new"]
  /\ user = [x \in Calls |-> None]
  /\ harness = [c \in Codes |-> "nothing"]
  /\ chosen = [a \in Accounts |-> None]

World ==
  \/ \E c \in Codes :
       \/ Start(c) \/ Expire(c)
       \/ \E a \in Accounts, is \in {"authorized", "denied"} : Decide(c, a, is)
  \/ \E a \in Accounts :
       EditProfile(a) \/ GrowUp(a) \/ \E value \in BOOLEAN : SetBlocked(a, value)

PollStep(p) ==
  AskGitHub(p) \/ ReadProfile(p) \/ Upsert(p) \/ InsertToken(p) \/ Respond(p)

IssueStep(i) == UpsertIssue(i) \/ InsertIssued(i) \/ CommitIssue(i)

PatchStep(p) == Authenticate(p) \/ PatchName(p)

\* No request is under way: the one kind of state that may have no step, so
\* that any other without one is a deadlock.
Idle == (\A x \in Calls : ~InFlight(x)) /\ UNCHANGED vars

Next ==
  \/ World
  \/ \E p \in Polls : PollArrives(p) \/ PollStep(p) \/ LosePoll(p)
  \/ \E i \in Issues : ReceiveIssue(i) \/ IssueStep(i) \/ Drop(i)
  \/ \E p \in Patches : ReceivePatch(p) \/ PatchStep(p) \/ Drop(p)
  \/ Idle

Spec == Init /\ [][Next]_vars

\* The service drives what it has begun; the harness polls for as long as it
\* is told to; GitHub's codes run out; and not every poll of a code is lost
\* before GitHub has answered it.
FairSpec ==
  /\ Spec
  /\ \A p \in Polls : WF_vars(PollStep(p)) /\ WF_vars(PollArrives(p))
  /\ \A i \in Issues : WF_vars(IssueStep(i))
  /\ \A p \in Patches : WF_vars(PatchStep(p))
  /\ \A c \in Codes : WF_vars(Expire(c)) /\ SF_vars(\E t \in Tries : AskGitHub(<<c, t>>))

-----------------------------------------------------------------------------
(* Properties.                                                             *)

\* Every variable has its type.
TypeOK ==
  /\ profile \in [Accounts -> Profile]
  /\ code \in [Codes -> Code]
  /\ young \subseteq Accounts
  /\ DOMAIN publishers \subseteq Accounts
  /\ publishers \in [DOMAIN publishers -> Row]
  /\ tokens \subseteq Token
  /\ pc \in [Calls -> Stages \cup {"idle", "new", "done"}]
  /\ user \in [Calls -> User \cup {None}]
  /\ harness \in [Codes -> Told]
  /\ chosen \in [Accounts -> AnyName]

\* A token that enrollment hands out belongs to the very account that entered
\* the code, which was old enough; and a code yields one at most, however its
\* polls overlap and whoever goes by that account's old login today.
TokensAreEarned ==
  \A t \in tokens : t.by \in Polls =>
    /\ code[t.by[1]] = [is |-> "spent", by |-> t.owner]
    /\ t.owner \in DOMAIN publishers
    /\ t.owner \notin young
    /\ \A s \in tokens : s.by \in Polls /\ s.by[1] = t.by[1] => s = t

\* "Blocking somebody would amount to asking them to sign in again": whoever
\* is blocked, from before the upsert of a poll on, gets no token out of it.
\* (A poll that is past it when the block comes does still insert one.)
Minted(c) == \E t \in tokens : t.by \in Polls /\ t.by[1] = c

BlockHolds ==
  \A c \in Codes, a \in Accounts :
    [](/\ \A t \in Tries : pc[<<c, t>>] \notin {"insert", "respond"}
       /\ ~Minted(c)
       /\ [](a \in DOMAIN publishers /\ publishers[a].blocked /\ code[c].by \in {a, None})
       => []~Minted(c))

\* "Re-enrolling never overwrites a name the publisher chose": a name that the
\* publisher or the operator picked stands until one of them picks another,
\* whatever sign-ins overlap with that.
NamesAreChosen ==
  \A a \in Accounts :
    chosen[a] # None => a \in DOMAIN publishers /\ publishers[a].name = chosen[a]

\* What the operator's request says is in the row only if the token it asked
\* for is in the table too: issue_token does both or neither.
IssuedTogether ==
  \A i \in Issues, a \in DOMAIN publishers :
    i \in {publishers[a].name, publishers[a].avatar} =>
      [owner |-> a, by |-> i] \in tokens

\* A harness that does as it is told stops polling.  In particular it does
\* when an answer was lost and the code is spent.
SignInEnds == \A c \in Codes : harness[c] = "polling" ~> harness[c] # "polling"

\* "the code expired before it was entered"
ExpiredMeansNotEntered ==
  \A c \in Codes : harness[c] = "expired" => code[c].by = None
=============================================================================
