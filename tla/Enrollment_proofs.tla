------------------------- MODULE Enrollment_proofs -------------------------
(***************************************************************************)
(* Proofs about Enrollment, for any number of accounts, codes, polls and   *)
(* requests: who gets a token, which names stand, and that issue_token     *)
(* does all of its work or none.                                           *)
(***************************************************************************)
EXTENDS Enrollment, TLAPS

-----------------------------------------------------------------------------
(* The inductive invariant.                                                *)

\* A poll that has GitHub's access token.
Authorized(p) == pc[p] \in {"profile", "upsert", "insert", "respond"}

\* Somebody entered each code that is authorized or spent.
Entered == \A c \in Codes : code[c].is \in {"authorized", "spent"} => code[c].by \in Accounts

\* What a poll knows: it has spent the code, so that it alone goes on, for the
\* account that entered it, and until it inserts it the code has no token.
PollOK(p) ==
  /\ pc[p] \in {"idle", "ask", "profile", "upsert", "insert", "respond"}
  /\ Authorized(p) => code[p[1]].is = "spent"
  /\ pc[p] \in {"upsert", "insert"} =>
       /\ user[p] \in User
       /\ user[p].name \in Names \cup {None} /\ user[p].avatar \in Avatars \cup {None}
       /\ user[p].id = code[p[1]].by
       /\ user[p].id \notin young
  /\ pc[p] = "insert" => user[p].id \in DOMAIN publishers
  /\ pc[p] \in {"profile", "upsert", "insert"} =>
       \A t \in tokens : t.by \in Polls => t.by[1] # p[1]

\* The operator's request writes what it was sent, as itself.
IssueOK(i) ==
  /\ pc[i] \in {"new", "issue_upsert", "issue_insert", "issue_commit", "done"}
  /\ pc[i] # "new" =>
       user[i] \in User /\ user[i].name \in {i, None} /\ user[i].avatar \in {i, None}

\* A publisher's rename has a row to go to.
PatchOK(p) ==
  /\ pc[p] \in {"new", "auth", "patch", "done"}
  /\ pc[p] # "new" => user[p] \in User /\ user[p].name \in {p, None}
  /\ pc[p] = "patch" => user[p].id \in DOMAIN publishers

CallsOK ==
  /\ \A p \in Polls : PollOK(p)
  /\ \A i \in Issues : IssueOK(i)
  /\ \A p \in Patches : PatchOK(p)

\* GitHub gives the access token of a code to one poll.
Exclusive ==
  \A p, q \in Polls : p[1] = q[1] /\ Authorized(p) /\ Authorized(q) => p = q

\* Tokens and rows of registry_publishers: the foreign key.
Owned == \A t \in tokens : t.owner \in DOMAIN publishers

IInv ==
  /\ TypeOK
  /\ Entered
  /\ CallsOK
  /\ Exclusive
  /\ Owned
  /\ TokensAreEarned
  /\ NamesAreChosen
  /\ IssuedTogether

\* A code that is spent stays spent, by the account that entered it.
CodesGoOn ==
  /\ code' \in [Codes -> Code]
  /\ Entered'
  /\ \A c \in Codes : code[c].is = "spent" => code'[c] = code[c]

-----------------------------------------------------------------------------
(* Steps that leave the tables alone.                                      *)

\* GitHub and the people who use it.
LEMMA WorldStep ==
  ASSUME IInv, CodesGoOn, UNCHANGED <<database, pc, user, chosen>>,
         profile' \in [Accounts -> Profile], young' \subseteq young,
         harness' \in [Codes -> Told]
  PROVE  IInv'
<1>1. TypeOK'
    BY DEF IInv, TypeOK, CodesGoOn, database
<1>2. ASSUME NEW p \in Polls PROVE PollOK(p)'
    <2>1. PollOK(p) /\ p[1] \in Codes
        BY DEF IInv, CallsOK, Polls
    <2> QED BY <2>1 DEF PollOK, Authorized, CodesGoOn, database
<1>3. CallsOK'
    BY <1>2 DEF IInv, CallsOK, IssueOK, PatchOK, database
<1>4. Exclusive'
    BY DEF IInv, Exclusive, Authorized
<1>5. TokensAreEarned'
    <2>1. ASSUME NEW t \in tokens, t.by \in Polls
          PROVE  code'[t.by[1]] = code[t.by[1]]
        <3>1. t.by[1] \in Codes /\ code[t.by[1]] = [is |-> "spent", by |-> t.owner]
            BY <2>1 DEF IInv, TokensAreEarned, Polls
        <3> QED BY <3>1 DEF CodesGoOn
    <2> QED BY <2>1 DEF IInv, TokensAreEarned, database
<1>6. Owned' /\ NamesAreChosen' /\ IssuedTogether'
    BY DEF IInv, Owned, NamesAreChosen, IssuedTogether, database
<1> QED BY <1>1, <1>3, <1>4, <1>5, <1>6 DEF IInv, CodesGoOn

\* One request moves, and knows what it has to know in its new stage.
LEMMA QuietStep ==
  ASSUME IInv, CodesGoOn, UNCHANGED <<database, profile, young, chosen>>,
         NEW x \in Calls, NEW stage \in Stages \cup {"idle", "new", "done"},
         pc' = [pc EXCEPT ![x] = stage],
         user' \in [Calls -> User \cup {None}],
         \A y \in Calls \ {x} : user'[y] = user[y],
         harness' \in [Codes -> Told],
         x \in Polls => PollOK(x)',
         x \in Issues => IssueOK(x)',
         x \in Patches => PatchOK(x)',
         x \in Polls /\ stage \in {"profile", "upsert", "insert", "respond"} =>
           \A q \in Polls \ {x} : q[1] = x[1] => ~Authorized(q)
  PROVE  IInv'
<1>0. \A y \in Calls : pc'[y] = IF y = x THEN stage ELSE pc[y]
    BY DEF IInv, TypeOK
<1>1. TypeOK'
    BY DEF IInv, TypeOK, CodesGoOn, database
<1>2. ASSUME NEW p \in Polls PROVE PollOK(p)'
    <2>1. PollOK(p) /\ p[1] \in Codes /\ p \in Calls
        BY DEF IInv, CallsOK, Polls, Calls
    <2>2. p # x => pc'[p] = pc[p] /\ user'[p] = user[p]
        BY <1>0, <2>1
    <2> QED BY <2>1, <2>2 DEF PollOK, Authorized, CodesGoOn, database
<1>3. CallsOK'
    <2>1. \A i \in Issues \cup Patches : i \in Calls /\ (i # x => pc'[i] = pc[i] /\ user'[i] = user[i])
        BY <1>0 DEF Calls
    <2> QED BY <1>2, <2>1 DEF IInv, CallsOK, IssueOK, PatchOK, database
<1>4. Exclusive'
    BY <1>0 DEF IInv, Exclusive, Authorized, Calls
<1>5. TokensAreEarned'
    <2>1. ASSUME NEW t \in tokens, t.by \in Polls
          PROVE  code'[t.by[1]] = code[t.by[1]]
        <3>1. t.by[1] \in Codes /\ code[t.by[1]] = [is |-> "spent", by |-> t.owner]
            BY <2>1 DEF IInv, TokensAreEarned, Polls
        <3> QED BY <3>1 DEF CodesGoOn
    <2> QED BY <2>1 DEF IInv, TokensAreEarned, database
<1>6. Owned' /\ NamesAreChosen' /\ IssuedTogether'
    BY DEF IInv, Owned, NamesAreChosen, IssuedTogether, database
<1> QED BY <1>1, <1>3, <1>4, <1>5, <1>6 DEF IInv, CodesGoOn

LEMMA SameCodes == IInv /\ UNCHANGED code => CodesGoOn
BY DEF IInv, TypeOK, CodesGoOn, Entered

LEMMA GitHubStep ==
  ASSUME IInv,
         \/ \E c \in Codes :
              \/ Start(c) \/ Expire(c)
              \/ \E a \in Accounts, is \in {"authorized", "denied"} : Decide(c, a, is)
         \/ \E a \in Accounts : EditProfile(a) \/ GrowUp(a)
  PROVE  IInv'
<1>1. ASSUME NEW c \in Codes, Start(c) PROVE IInv'
    <2>1. CodesGoOn
        BY <1>1 DEF IInv, TypeOK, Code, Start, CodesGoOn, Entered
    <2>2. harness' \in [Codes -> Told]
        BY <1>1 DEF IInv, TypeOK, Start, Told
    <2> QED BY <1>1, <2>1, <2>2, WorldStep DEF Start, IInv, TypeOK
<1>2. ASSUME NEW c \in Codes, Expire(c) PROVE IInv'
    <2>1. CodesGoOn
        BY <1>2 DEF IInv, TypeOK, Code, Expire, CodesGoOn, Entered
    <2> QED BY <1>2, <2>1, WorldStep DEF Expire, IInv, TypeOK
<1>3. ASSUME NEW c \in Codes, NEW a \in Accounts, NEW is \in {"authorized", "denied"},
             Decide(c, a, is)
      PROVE IInv'
    <2>1. CodesGoOn
        BY <1>3 DEF IInv, TypeOK, Code, Decide, CodesGoOn, Entered
    <2> QED BY <1>3, <2>1, WorldStep DEF Decide, IInv, TypeOK
<1>4. ASSUME NEW a \in Accounts, EditProfile(a) PROVE IInv'
    <2>1. profile' \in [Accounts -> Profile]
        BY <1>4 DEF IInv, TypeOK, EditProfile
    <2> QED BY <1>4, <2>1, SameCodes, WorldStep DEF EditProfile, IInv, TypeOK
<1>5. ASSUME NEW a \in Accounts, GrowUp(a) PROVE IInv'
    BY <1>5, SameCodes, WorldStep DEF GrowUp, IInv, TypeOK
<1> QED BY <1>1, <1>2, <1>3, <1>4, <1>5

LEMMA PollArrivesStep ==
  ASSUME IInv, NEW p \in Polls, PollArrives(p)
  PROVE  IInv'
<1>1. p \in Calls /\ PollOK(p) /\ pc' = [pc EXCEPT ![p] = "ask"] /\ pc'[p] = "ask"
    BY DEF PollArrives, Move, Calls, IInv, CallsOK, TypeOK
<1>2. PollOK(p)'
    BY <1>1 DEF PollOK, Authorized
<1>3. p \notin Issues /\ p \notin Patches
    BY CallsAssumption
<1>4. CodesGoOn
    BY SameCodes DEF PollArrives, github
<1> QED BY <1>1, <1>2, <1>3, <1>4, QuietStep DEF PollArrives, github, Stages, IInv, TypeOK

\* Exclusion of the other polls of the code comes from the code, which is
\* spent from here on and was not before.
LEMMA AskGitHubStep ==
  ASSUME IInv, NEW p \in Polls, AskGitHub(p)
  PROVE  IInv'
<1>1. p \in Calls /\ p[1] \in Codes /\ PollOK(p) /\ p \notin Issues /\ p \notin Patches
    BY CallsAssumption DEF Calls, Polls, IInv, CallsOK
<1>2. PICK e \in Says[code[p[1]].is] :
        /\ code' = IF e = "token" THEN [code EXCEPT ![p[1]].is = "spent"] ELSE code
        /\ \/ /\ Classify(e) = "authorized"
              /\ Move(p, "profile") /\ UNCHANGED harness
           \/ /\ Classify(e) \in {"pending", "slow_down"}
              /\ Move(p, "idle") /\ UNCHANGED harness
           \/ /\ Classify(e) \in {"declined", "expired"}
              /\ End(p, Classify(e))
    BY DEF AskGitHub
<1>3. harness' \in [Codes -> Told]
    BY <1>1, <1>2 DEF End, IInv, TypeOK, Told
<1>4. PICK stage \in {"profile", "idle"} :
        pc' = [pc EXCEPT ![p] = stage] /\ (stage = "profile" => Classify(e) = "authorized")
    BY <1>2 DEF Move, End
<1>5. pc'[p] = stage
    BY <1>1, <1>4 DEF IInv, TypeOK
<1>6. code[p[1]].is \in {"unissued", "pending", "authorized", "denied", "expired", "spent"}
    BY <1>1 DEF IInv, TypeOK, Code
<1>7. e = "token" => code[p[1]].is = "authorized"
    BY <1>2, <1>6 DEF Says
<1>8. Classify(e) = "authorized" => e = "token"
    BY DEF Classify, Meanings
<1>9. CodesGoOn
    BY <1>1, <1>2, <1>7 DEF CodesGoOn, IInv, TypeOK, Code, Entered
<1>10. PollOK(p)'
    <2>1. CASE stage = "idle"
        BY <2>1, <1>5 DEF PollOK, Authorized
    <2>2. CASE stage = "profile"
        <3>1. e = "token" /\ code[p[1]].is = "authorized"
            BY <2>2, <1>4, <1>7, <1>8
        <3>2. code'[p[1]].is = "spent"
            BY <3>1, <1>1, <1>2 DEF IInv, TypeOK, Code
        <3>3. \A t \in tokens : t.by \in Polls => t.by[1] # p[1]
            <4> SUFFICES ASSUME NEW t \in tokens, t.by \in Polls PROVE t.by[1] # p[1]
                OBVIOUS
            <4>1. code[t.by[1]] = [is |-> "spent", by |-> t.owner]
                BY DEF IInv, TokensAreEarned
            <4>2. code[t.by[1]].is = "spent"
                BY <4>1
            <4> QED BY <4>2, <3>1
        <3> QED BY <2>2, <1>5, <3>2, <3>3 DEF PollOK, Authorized, AskGitHub, database
    <2> QED BY <2>1, <2>2
<1>11. ASSUME stage = "profile", NEW q \in Polls \ {p}, q[1] = p[1]
       PROVE  ~Authorized(q)
    <2>1. code[q[1]].is = "authorized"
        BY <1>11, <1>4, <1>7, <1>8
    <2> QED BY <2>1 DEF IInv, CallsOK, PollOK
<1> QED BY <1>1, <1>3, <1>4, <1>9, <1>10, <1>11, QuietStep
        DEF AskGitHub, Stages, IInv, TypeOK

LEMMA ReadProfileStep ==
  ASSUME IInv, NEW p \in Polls, ReadProfile(p)
  PROVE  IInv'
<1>1. p \in Calls /\ p[1] \in Codes /\ PollOK(p) /\ p \notin Issues /\ p \notin Patches
    BY CallsAssumption DEF Calls, Polls, IInv, CallsOK
<1>2. PICK a \in Accounts : a = code[p[1]].by
    BY <1>1 DEF ReadProfile, PollOK, Authorized, IInv, Entered
<1>3. PICK u : u = [id |-> a, login |-> profile[a].login,
                    name |-> profile[a].name, avatar |-> profile[a].avatar]
    OBVIOUS
<1>4. user' = [user EXCEPT ![p] = u]
    BY <1>2, <1>3 DEF ReadProfile
<1>5. profile[a] \in Profile
    BY DEF IInv, TypeOK
<1>6. /\ u \in User /\ u.id = a
      /\ u.name \in Names \cup {None} /\ u.avatar \in Avatars \cup {None}
    BY <1>3, <1>5 DEF User, Profile, AnyName, AnyAvatar
<1>7. user' \in [Calls -> User \cup {None}] /\ user'[p] = u
    BY <1>1, <1>4, <1>6 DEF IInv, TypeOK
<1>8. PICK stage \in {"idle", "upsert"} :
        pc' = [pc EXCEPT ![p] = stage] /\ (stage = "upsert" => a \notin young)
    BY <1>2 DEF ReadProfile, End, Move
<1>9. pc'[p] = stage /\ pc[p] = "profile"
    BY <1>1, <1>8 DEF IInv, TypeOK, ReadProfile
<1>10. PollOK(p)'
    BY <1>1, <1>2, <1>6, <1>7, <1>8, <1>9
       DEF PollOK, Authorized, ReadProfile, github, database
<1>11. \A q \in Polls \ {p} : q[1] = p[1] => ~Authorized(q)
    BY <1>9 DEF IInv, Exclusive, Authorized
<1>12. harness' \in [Codes -> Told]
    BY <1>1 DEF ReadProfile, End, IInv, TypeOK, Told
<1>13. CodesGoOn
    BY SameCodes DEF ReadProfile, github
<1>14. \A y \in Calls \ {p} : user'[y] = user[y]
    BY <1>4 DEF IInv, TypeOK
<1> QED BY <1>1, <1>7, <1>8, <1>10, <1>11, <1>12, <1>13, <1>14, QuietStep
        DEF ReadProfile, Stages, github

LEMMA RespondStep ==
  ASSUME IInv, NEW p \in Polls, Respond(p)
  PROVE  IInv'
<1>1. /\ p \in Calls /\ p[1] \in Codes /\ PollOK(p) /\ p \notin Issues /\ p \notin Patches
      /\ pc' = [pc EXCEPT ![p] = "idle"] /\ pc'[p] = "idle"
    BY CallsAssumption DEF Calls, Polls, IInv, CallsOK, Respond, End, Move, TypeOK
<1>2. PollOK(p)'
    BY <1>1 DEF PollOK, Authorized
<1>3. harness' \in [Codes -> Told]
    BY <1>1 DEF Respond, End, IInv, TypeOK, Told
<1>4. CodesGoOn
    BY SameCodes DEF Respond, github
<1> QED BY <1>1, <1>2, <1>3, <1>4, QuietStep DEF Respond, github, Stages, IInv, TypeOK

LEMMA LosePollStep ==
  ASSUME IInv, NEW p \in Polls, LosePoll(p)
  PROVE  IInv'
<1>1. /\ p \in Calls /\ p[1] \in Codes /\ PollOK(p) /\ p \notin Issues /\ p \notin Patches
      /\ pc' = [pc EXCEPT ![p] = "idle"] /\ pc'[p] = "idle"
    BY CallsAssumption DEF Calls, Polls, IInv, CallsOK, LosePoll, Move, TypeOK
<1>2. PollOK(p)'
    BY <1>1 DEF PollOK, Authorized
<1>3. harness' \in [Codes -> Told]
    BY <1>1 DEF LosePoll, IInv, TypeOK, Told
<1>4. CodesGoOn
    <2>1. CASE UNCHANGED code
        BY <2>1, SameCodes
    <2>2. CASE code[p[1]].is = "authorized" /\ code' = [code EXCEPT ![p[1]].is = "spent"]
        BY <1>1, <2>2 DEF CodesGoOn, IInv, TypeOK, Code, Entered
    <2> QED BY <2>1, <2>2 DEF LosePoll
<1> QED BY <1>1, <1>2, <1>3, <1>4, QuietStep DEF LosePoll, Stages, IInv, TypeOK

LEMMA ReceiveIssueStep ==
  ASSUME IInv, NEW i \in Issues, ReceiveIssue(i)
  PROVE  IInv'
<1>1. /\ i \in Calls /\ i \notin Polls /\ i \notin Patches
      /\ pc' = [pc EXCEPT ![i] = "issue_upsert"] /\ pc'[i] = "issue_upsert"
    BY CallsAssumption DEF Calls, IInv, TypeOK, ReceiveIssue, Move
<1>2. PICK a \in Accounts, name \in {i, None}, avatar \in {i, None} :
        user' = [user EXCEPT ![i] = [id |-> a, login |-> profile[a].login,
                                     name |-> name, avatar |-> avatar]]
    BY DEF ReceiveIssue
<1>3. PICK u : u = [id |-> a, login |-> profile[a].login, name |-> name, avatar |-> avatar]
    OBVIOUS
<1>4. u \in User /\ u.name \in {i, None} /\ u.avatar \in {i, None}
    BY <1>3 DEF User, AnyName, AnyAvatar, IInv, TypeOK, Profile
<1>5. /\ user' = [user EXCEPT ![i] = u] /\ user'[i] = u
      /\ user' \in [Calls -> User \cup {None}]
      /\ \A y \in Calls \ {i} : user'[y] = user[y]
    BY <1>1, <1>2, <1>3, <1>4 DEF IInv, TypeOK
<1>6. IssueOK(i)'
    BY <1>1, <1>4, <1>5 DEF IssueOK
<1>7. CodesGoOn
    BY SameCodes DEF ReceiveIssue, github
<1> QED BY <1>1, <1>5, <1>6, <1>7, QuietStep DEF ReceiveIssue, github, Stages, IInv, TypeOK

LEMMA ReceivePatchStep ==
  ASSUME IInv, NEW p \in Patches, ReceivePatch(p)
  PROVE  IInv'
<1>1. /\ p \in Calls /\ p \notin Polls /\ p \notin Issues
      /\ pc' = [pc EXCEPT ![p] = "auth"] /\ pc'[p] = "auth"
    BY CallsAssumption DEF Calls, IInv, TypeOK, ReceivePatch, Move
<1>2. PICK a \in Accounts, name \in {p, None} :
        user' = [user EXCEPT ![p] = [id |-> a, login |-> profile[a].login,
                                     name |-> name, avatar |-> None]]
    BY DEF ReceivePatch
<1>3. PICK u : u = [id |-> a, login |-> profile[a].login, name |-> name, avatar |-> None]
    OBVIOUS
<1>4. u \in User /\ u.name \in {p, None}
    BY <1>3 DEF User, AnyName, AnyAvatar, IInv, TypeOK, Profile
<1>5. /\ user' = [user EXCEPT ![p] = u] /\ user'[p] = u
      /\ user' \in [Calls -> User \cup {None}]
      /\ \A y \in Calls \ {p} : user'[y] = user[y]
    BY <1>1, <1>2, <1>3, <1>4 DEF IInv, TypeOK
<1>6. PatchOK(p)'
    BY <1>1, <1>4, <1>5 DEF PatchOK
<1>7. CodesGoOn
    BY SameCodes DEF ReceivePatch, github
<1> QED BY <1>1, <1>5, <1>6, <1>7, QuietStep DEF ReceivePatch, github, Stages, IInv, TypeOK

\* The statements of issue_token before its commit.
LEMMA QuietIssueStep ==
  ASSUME IInv, NEW i \in Issues, UpsertIssue(i) \/ InsertIssued(i) \/ Drop(i)
  PROVE  IInv'
<1>1. /\ i \in Calls /\ i \notin Polls /\ i \notin Patches /\ IssueOK(i) /\ pc[i] # "new"
    BY CallsAssumption DEF Calls, IInv, CallsOK, UpsertIssue, InsertIssued, Drop, InFlight, Stages
<1>2. PICK stage \in {"issue_insert", "issue_commit", "done"} : pc' = [pc EXCEPT ![i] = stage]
    BY DEF UpsertIssue, InsertIssued, Drop, Move
<1>3. pc'[i] = stage /\ UNCHANGED <<github, database, user, harness, chosen>>
    BY <1>1, <1>2 DEF IInv, TypeOK, UpsertIssue, InsertIssued, Drop
<1>4. IssueOK(i)'
    BY <1>1, <1>2, <1>3 DEF IssueOK
<1>5. CodesGoOn
    BY <1>3, SameCodes DEF github
<1> QED BY <1>1, <1>2, <1>3, <1>4, <1>5, QuietStep DEF github, Stages, IInv, TypeOK

LEMMA QuietPatchStep ==
  ASSUME IInv, NEW p \in Patches, Authenticate(p) \/ Drop(p)
  PROVE  IInv'
<1>1. /\ p \in Calls /\ p \notin Polls /\ p \notin Issues /\ PatchOK(p) /\ pc[p] # "new"
    BY CallsAssumption DEF Calls, IInv, CallsOK, Authenticate, Drop, InFlight, Stages
<1>2. PICK stage \in {"patch", "done"} :
        /\ pc' = [pc EXCEPT ![p] = stage]
        /\ stage = "patch" => \E t \in tokens : t.owner = user[p].id
    BY DEF Authenticate, Drop, Move
<1>3. pc'[p] = stage /\ UNCHANGED <<github, database, user, harness, chosen>>
    BY <1>1, <1>2 DEF IInv, TypeOK, Authenticate, Drop
<1>4. PatchOK(p)'
    BY <1>1, <1>2, <1>3 DEF PatchOK, IInv, Owned, database
<1>5. CodesGoOn
    BY <1>3, SameCodes DEF github
<1> QED BY <1>1, <1>2, <1>3, <1>4, <1>5, QuietStep DEF github, Stages, IInv, TypeOK

-----------------------------------------------------------------------------
(* Steps that write a row of registry_publishers.                          *)

LEMMA OldRowType ==
  ASSUME IInv, NEW a \in Accounts
  PROVE  /\ OldRow(a).name \in AnyName /\ OldRow(a).avatar \in AnyAvatar
         /\ OldRow(a).blocked \in BOOLEAN
         /\ a \in DOMAIN publishers => OldRow(a) = publishers[a]
         /\ a \notin DOMAIN publishers => OldRow(a).name = None /\ OldRow(a).avatar = None
<1>1. CASE a \in DOMAIN publishers
    BY <1>1 DEF OldRow, IInv, TypeOK, Row
<1>2. CASE a \notin DOMAIN publishers
    BY <1>2 DEF OldRow, AnyName, AnyAvatar
<1> QED BY <1>1, <1>2

\* A row is written whose name is still the one chosen and which names no
\* request of the operator without a token.
LEMMA PutStep ==
  ASSUME IInv, NEW a \in Accounts, NEW row \in Row, Put(a, row),
         \A b \in Accounts \ {a} : chosen'[b] = chosen[b],
         chosen'[a] # None => row.name = chosen'[a],
         tokens \subseteq tokens',
         \A i \in Issues : i \in {row.name, row.avatar} =>
           [owner |-> a, by |-> i] \in tokens'
  PROVE  /\ DOMAIN publishers' = DOMAIN publishers \cup {a} /\ DOMAIN publishers' \subseteq Accounts
         /\ publishers' \in [DOMAIN publishers' -> Row]
         /\ NamesAreChosen' /\ IssuedTogether'
<1>1. /\ DOMAIN publishers' = DOMAIN publishers \cup {a}
      /\ publishers'[a] = row
      /\ \A b \in DOMAIN publishers \ {a} : publishers'[b] = publishers[b]
    BY DEF Put
<1>2. DOMAIN publishers' \subseteq Accounts /\ publishers' \in [DOMAIN publishers' -> Row]
    BY <1>1 DEF Put, IInv, TypeOK
<1>3. NamesAreChosen'
    <2> SUFFICES ASSUME NEW b \in Accounts, chosen'[b] # None
                 PROVE  b \in DOMAIN publishers' /\ publishers'[b].name = chosen'[b]
        BY DEF NamesAreChosen
    <2>1. CASE b = a
        BY <2>1, <1>1
    <2>2. CASE b # a
        BY <2>2, <1>1 DEF IInv, NamesAreChosen
    <2> QED BY <2>1, <2>2
<1>4. IssuedTogether'
    <2> SUFFICES ASSUME NEW i \in Issues, NEW b \in DOMAIN publishers',
                        i \in {publishers'[b].name, publishers'[b].avatar}
                 PROVE  [owner |-> b, by |-> i] \in tokens'
        BY DEF IssuedTogether
    <2>1. CASE b = a
        BY <2>1, <1>1
    <2>2. CASE b # a
        BY <2>2, <1>1 DEF IInv, IssuedTogether
    <2> QED BY <2>1, <2>2
<1> QED BY <1>1, <1>2, <1>3, <1>4

\* Rows are added and none goes, so that what points to one still does.
LEMMA RowStep ==
  ASSUME IInv, UNCHANGED <<github, tokens>>, TypeOK', CallsOK', Exclusive',
         DOMAIN publishers \subseteq DOMAIN publishers',
         NamesAreChosen', IssuedTogether'
  PROVE  IInv'
<1>1. Entered' /\ Owned'
    BY DEF IInv, Entered, Owned, github
<1>2. TokensAreEarned'
    BY DEF IInv, TokensAreEarned, github
<1> QED BY <1>1, <1>2 DEF IInv

LEMMA UpsertStep ==
  ASSUME IInv, NEW p \in Polls, Upsert(p)
  PROVE  IInv'
<1>1. /\ p \in Calls /\ p[1] \in Codes /\ PollOK(p) /\ pc[p] = "upsert"
      /\ p \notin Issues /\ p \notin Patches
    BY CallsAssumption DEF Calls, Polls, IInv, CallsOK, Upsert
<1>2. PICK u, a : u = user[p] /\ a = user[p].id
    OBVIOUS
<1>3. /\ u \in User /\ a \in Accounts /\ u.login \in Logins
      /\ u.name \in Names \cup {None} /\ u.avatar \in Avatars \cup {None}
    BY <1>1, <1>2 DEF PollOK, User
<1>4. PICK row : row = Enrolled(OldRow(a), u)
    OBVIOUS
<1>5. /\ row.login = u.login
      /\ row.name = First(OldRow(a).name, u.name)
      /\ row.avatar = First(u.avatar, OldRow(a).avatar)
      /\ row \in Row
    <2>1. First(OldRow(a).name, u.name) \in AnyName
        BY <1>3, OldRowType DEF First, AnyName
    <2>2. First(u.avatar, OldRow(a).avatar) \in AnyAvatar
        BY <1>3, OldRowType DEF First, AnyAvatar
    <2> QED BY <1>3, <1>4, <2>1, <2>2, OldRowType DEF Enrolled, Row
<1>6. Put(a, row) /\ UNCHANGED <<github, tokens, chosen>>
    BY <1>2, <1>4 DEF Upsert, Identity
<1>7. chosen[a] # None => row.name = chosen[a]
    BY <1>3, <1>5, OldRowType DEF First, IInv, NamesAreChosen
<1>8. ASSUME NEW i \in Issues, i \in {row.name, row.avatar}
      PROVE  [owner |-> a, by |-> i] \in tokens
    <2>1. i \notin Names \cup Avatars \cup {None}
        BY NoneAssumption DEF Calls
    <2>2. i \in {OldRow(a).name, OldRow(a).avatar}
        BY <2>1, <1>3, <1>5, <1>8 DEF First
    <2>3. a \in DOMAIN publishers /\ i \in {publishers[a].name, publishers[a].avatar}
        BY <2>1, <2>2, <1>3, OldRowType
    <2> QED BY <2>3 DEF IInv, IssuedTogether
<1>9. /\ DOMAIN publishers' = DOMAIN publishers \cup {a} /\ DOMAIN publishers' \subseteq Accounts
      /\ publishers' \in [DOMAIN publishers' -> Row]
      /\ NamesAreChosen' /\ IssuedTogether'
    BY <1>3, <1>5, <1>6, <1>7, <1>8, PutStep
<1>10. user' \in [Calls -> User \cup {None}] /\ user' = user
    <2>1. user' = [user EXCEPT ![p].id = user[p].id]
        BY DEF Upsert, Identity
    <2>2. user[p] \in User
        BY <1>2, <1>3
    <2>3. [user[p] EXCEPT !.id = user[p].id] = user[p]
        BY <2>2 DEF User
    <2> QED BY <2>1, <2>3, <1>1 DEF IInv, TypeOK
<1>11. PICK stage \in {"insert", "idle"} : pc' = [pc EXCEPT ![p] = stage]
    BY DEF Upsert, End, Move
<1>12. \A y \in Calls : pc'[y] = IF y = p THEN stage ELSE pc[y]
    BY <1>11 DEF IInv, TypeOK
<1>13. harness' \in [Codes -> Told]
    BY <1>1 DEF Upsert, End, IInv, TypeOK, Told
<1>14. TypeOK'
    BY <1>6, <1>9, <1>10, <1>11, <1>13 DEF IInv, TypeOK, github, Stages
<1>15. CallsOK'
    <2>1. ASSUME NEW q \in Polls PROVE PollOK(q)'
        <3>1. PollOK(q) /\ q \in Calls
            BY DEF IInv, CallsOK, Calls
        <3>2. CASE q = p
            BY <3>2, <1>1, <1>2, <1>6, <1>9, <1>10, <1>12 DEF PollOK, Authorized, github
        <3>3. CASE q # p
            BY <3>1, <3>3, <1>6, <1>9, <1>10, <1>12 DEF PollOK, Authorized, github
        <3> QED BY <3>2, <3>3
    <2>2. \A x \in Issues \cup Patches : pc'[x] = pc[x] /\ user'[x] = user[x]
        BY <1>1, <1>10, <1>12 DEF Calls
    <2> QED BY <2>1, <2>2, <1>9 DEF IInv, CallsOK, IssueOK, PatchOK
<1>16. Exclusive'
    BY <1>1, <1>12 DEF IInv, Exclusive, Authorized, Calls
<1> QED BY <1>6, <1>9, <1>14, <1>15, <1>16, RowStep

LEMMA PatchNameStep ==
  ASSUME IInv, NEW p \in Patches, PatchName(p)
  PROVE  IInv'
<1>1. /\ p \in Calls /\ PatchOK(p) /\ pc[p] = "patch"
      /\ p \notin Issues /\ p \notin Polls
    BY CallsAssumption DEF Calls, IInv, CallsOK, PatchName
<1>2. PICK a \in Accounts, name \in {p, None} :
        /\ a = user[p].id /\ name = user[p].name /\ a \in DOMAIN publishers
    BY <1>1 DEF PatchOK, User
<1>3. /\ publishers' = [publishers EXCEPT ![a].name = name]
      /\ chosen' = [chosen EXCEPT ![a] = name]
      /\ pc' = [pc EXCEPT ![p] = "done"]
      /\ UNCHANGED <<github, tokens, user, harness>>
    BY <1>2 DEF PatchName, Move
<1>4. name \in AnyName
    BY <1>2 DEF AnyName
<1>5. /\ DOMAIN publishers' = DOMAIN publishers
      /\ publishers' \in [DOMAIN publishers -> Row]
      /\ publishers'[a].name = name /\ publishers'[a].avatar = publishers[a].avatar
      /\ \A b \in DOMAIN publishers \ {a} : publishers'[b] = publishers[b]
    BY <1>2, <1>3, <1>4 DEF IInv, TypeOK, Row
<1>6. /\ chosen' \in [Accounts -> AnyName] /\ chosen'[a] = name
      /\ \A b \in Accounts \ {a} : chosen'[b] = chosen[b]
    BY <1>3, <1>4 DEF IInv, TypeOK
<1>7. \A y \in Calls : pc'[y] = IF y = p THEN "done" ELSE pc[y]
    BY <1>3 DEF IInv, TypeOK
<1>8. TypeOK'
    BY <1>3, <1>5, <1>6 DEF IInv, TypeOK, github
<1>9. CallsOK'
    <2>1. ASSUME NEW q \in Polls PROVE PollOK(q)'
        <3>1. PollOK(q) /\ pc'[q] = pc[q]
            BY <1>1, <1>7 DEF IInv, CallsOK, Calls
        <3> QED BY <3>1, <1>3, <1>5 DEF PollOK, Authorized, github
    <2>2. \A i \in Issues : pc'[i] = pc[i]
        BY <1>1, <1>7 DEF Calls
    <2>3. \A q \in Patches : pc'[q] = IF q = p THEN "done" ELSE pc[q]
        BY <1>7 DEF Calls
    <2> QED BY <2>1, <2>2, <2>3, <1>1, <1>3, <1>5 DEF IInv, CallsOK, IssueOK, PatchOK
<1>10. Exclusive'
    BY <1>1, <1>7 DEF IInv, Exclusive, Authorized, Calls
<1>11. NamesAreChosen'
    BY <1>2, <1>5, <1>6 DEF IInv, NamesAreChosen
<1>12. IssuedTogether'
    <2> SUFFICES ASSUME NEW i \in Issues, NEW b \in DOMAIN publishers,
                        i \in {publishers'[b].name, publishers'[b].avatar}
                 PROVE  [owner |-> b, by |-> i] \in tokens
        BY <1>3, <1>5 DEF IssuedTogether
    <2>1. i # name
        BY <1>1, <1>2, NoneAssumption DEF Calls
    <2>2. i \in {publishers[b].name, publishers[b].avatar}
        BY <2>1, <1>5
    <2> QED BY <2>2 DEF IInv, IssuedTogether
<1> QED BY <1>3, <1>5, <1>8, <1>9, <1>10, <1>11, <1>12, RowStep

LEMMA SetBlockedStep ==
  ASSUME IInv, NEW a \in Accounts, NEW value \in BOOLEAN, SetBlocked(a, value)
  PROVE  IInv'
<1>1. /\ a \in DOMAIN publishers
      /\ publishers' = [publishers EXCEPT ![a].blocked = value]
      /\ UNCHANGED <<github, tokens, pc, user, harness, chosen>>
    BY DEF SetBlocked
<1>2. /\ DOMAIN publishers' = DOMAIN publishers
      /\ publishers' \in [DOMAIN publishers -> Row]
      /\ \A b \in DOMAIN publishers :
           publishers'[b].name = publishers[b].name /\ publishers'[b].avatar = publishers[b].avatar
    BY <1>1 DEF IInv, TypeOK, Row
<1>3. TypeOK'
    BY <1>1, <1>2 DEF IInv, TypeOK, github
<1>4. CallsOK' /\ Exclusive'
    BY <1>1, <1>2 DEF IInv, CallsOK, PollOK, IssueOK, PatchOK, Exclusive, Authorized, github
<1>5. NamesAreChosen' /\ IssuedTogether'
    BY <1>1, <1>2 DEF IInv, NamesAreChosen, IssuedTogether
<1> QED BY <1>1, <1>2, <1>3, <1>4, <1>5, RowStep

-----------------------------------------------------------------------------
(* Steps that add a token.                                                 *)

\* The token of a code is its first and its last: no other poll of the code
\* is authorized.
LEMMA InsertTokenStep ==
  ASSUME IInv, NEW p \in Polls, InsertToken(p)
  PROVE  IInv'
<1>1. /\ p \in Calls /\ p[1] \in Codes /\ PollOK(p) /\ pc[p] = "insert"
      /\ p \notin Issues /\ p \notin Patches
    BY CallsAssumption DEF Calls, Polls, IInv, CallsOK, InsertToken
<1>2. PICK a \in Accounts : a = user[p].id
    BY <1>1 DEF PollOK, User
<1>3. PICK new : new = [owner |-> a, by |-> p]
    OBVIOUS
<1>4. /\ tokens' = tokens \cup {new} /\ new.owner = a /\ new.by = p
      /\ pc' = [pc EXCEPT ![p] = "respond"]
      /\ UNCHANGED <<github, publishers, user, harness, chosen>>
    BY <1>2, <1>3 DEF InsertToken, Move
<1>5. \A y \in Calls : pc'[y] = IF y = p THEN "respond" ELSE pc[y]
    BY <1>4 DEF IInv, TypeOK
<1>6. a \in DOMAIN publishers /\ a \notin young /\ code[p[1]] = [is |-> "spent", by |-> a]
    <2>1. code[p[1]].is = "spent" /\ code[p[1]].by = a /\ code[p[1]] \in Code
        BY <1>1, <1>2 DEF PollOK, Authorized, IInv, TypeOK
    <2> QED BY <2>1, <1>1, <1>2 DEF Code, PollOK
<1>7. TypeOK'
    <2>1. new \in Token
        BY <1>3 DEF Token
    <2> QED BY <2>1, <1>4 DEF IInv, TypeOK, github, Stages
<1>8. ASSUME NEW q \in Polls \ {p}, q[1] = p[1] PROVE ~Authorized(q)
    BY <1>1, <1>8 DEF IInv, Exclusive, Authorized
<1>9. CallsOK'
    <2>1. ASSUME NEW q \in Polls PROVE PollOK(q)'
        <3>1. PollOK(q) /\ q \in Calls
            BY DEF IInv, CallsOK, Calls
        <3>2. CASE q = p
            BY <3>2, <1>1, <1>4, <1>5 DEF PollOK, Authorized, github
        <3>3. CASE q # p
            <4>1. pc'[q] = pc[q]
                BY <3>1, <3>3, <1>5
            <4>2. pc[q] \in {"profile", "upsert", "insert"} =>
                    \A t \in tokens' : t.by \in Polls => t.by[1] # q[1]
                BY <3>1, <3>3, <1>4, <1>8 DEF PollOK, Authorized
            <4> QED BY <3>1, <4>1, <4>2, <1>4 DEF PollOK, Authorized, github
        <3> QED BY <3>2, <3>3
    <2>2. \A x \in Issues \cup Patches : pc'[x] = pc[x] /\ user'[x] = user[x]
        BY <1>1, <1>4, <1>5 DEF Calls
    <2> QED BY <2>1, <2>2, <1>4 DEF IInv, CallsOK, IssueOK, PatchOK
<1>10. Exclusive'
    BY <1>1, <1>5 DEF IInv, Exclusive, Authorized, Calls
<1>11. Entered' /\ Owned' /\ NamesAreChosen' /\ IssuedTogether'
    BY <1>4, <1>6 DEF IInv, Entered, Owned, NamesAreChosen, IssuedTogether, github
<1>12. TokensAreEarned'
    <2>1. \A t \in tokens : t.by \in Polls => t.by[1] # p[1]
        BY <1>1 DEF PollOK
    <2>2. ASSUME NEW t \in tokens', t.by \in Polls
          PROVE  /\ code'[t.by[1]] = [is |-> "spent", by |-> t.owner]
                 /\ t.owner \in DOMAIN publishers' /\ t.owner \notin young'
                 /\ \A s \in tokens' : s.by \in Polls /\ s.by[1] = t.by[1] => s = t
        <3>1. CASE t = new
            BY <3>1, <2>1, <1>4, <1>6 DEF github
        <3>2. CASE t \in tokens
            BY <3>2, <2>1, <2>2, <1>4 DEF IInv, TokensAreEarned, github
        <3> QED BY <3>1, <3>2, <1>4
    <2> QED BY <2>2 DEF TokensAreEarned
<1> QED BY <1>7, <1>9, <1>10, <1>11, <1>12 DEF IInv

\* issue_token commits: row and token appear together.
LEMMA CommitIssueStep ==
  ASSUME IInv, NEW i \in Issues, CommitIssue(i)
  PROVE  IInv'
<1>1. /\ i \in Calls /\ IssueOK(i) /\ pc[i] = "issue_commit"
      /\ i \notin Polls /\ i \notin Patches
    BY CallsAssumption DEF Calls, IInv, CallsOK, CommitIssue
<1>2. PICK u, a : u = user[i] /\ a = user[i].id
    OBVIOUS
<1>3. /\ u \in User /\ a \in Accounts /\ u.login \in Logins
      /\ u.name \in {i, None} /\ u.avatar \in {i, None}
    BY <1>1, <1>2 DEF IssueOK, User
<1>4. PICK row, new : row = Issued(OldRow(a), u) /\ new = [owner |-> a, by |-> i]
    OBVIOUS
<1>5. /\ row.name = First(u.name, OldRow(a).name)
      /\ row.avatar = First(u.avatar, OldRow(a).avatar)
      /\ row \in Row
    <2>1. First(u.name, OldRow(a).name) \in AnyName
        BY <1>3, OldRowType DEF First, AnyName
    <2>2. First(u.avatar, OldRow(a).avatar) \in AnyAvatar
        BY <1>3, OldRowType DEF First, AnyAvatar
    <2> QED BY <1>3, <1>4, <2>1, <2>2, OldRowType DEF Issued, Row
<1>6. /\ Put(a, row)
      /\ tokens' = tokens \cup {new} /\ new.owner = a /\ new.by = i
      /\ pc' = [pc EXCEPT ![i] = "done"]
      /\ chosen' = [chosen EXCEPT ![a] = First(u.name, @)]
      /\ UNCHANGED <<github, user, harness>>
    BY <1>2, <1>4 DEF CommitIssue, Identity, Move
<1>7. /\ chosen' \in [Accounts -> AnyName] /\ chosen'[a] = First(u.name, chosen[a])
      /\ \A b \in Accounts \ {a} : chosen'[b] = chosen[b]
    <2>1. First(u.name, chosen[a]) \in AnyName
        BY <1>3 DEF First, AnyName, IInv, TypeOK
    <2> QED BY <2>1, <1>3, <1>6 DEF IInv, TypeOK
<1>8. chosen'[a] # None => row.name = chosen'[a]
    BY <1>3, <1>5, <1>7, OldRowType DEF First, IInv, NamesAreChosen
<1>9. ASSUME NEW j \in Issues, j \in {row.name, row.avatar}
      PROVE  [owner |-> a, by |-> j] \in tokens'
    <2>1. j # None
        BY NoneAssumption DEF Calls
    <2>2. CASE j = i
        BY <2>2, <1>4, <1>6
    <2>3. CASE j # i
        <3>1. j \in {OldRow(a).name, OldRow(a).avatar}
            BY <2>1, <2>3, <1>3, <1>5, <1>9 DEF First
        <3>2. a \in DOMAIN publishers /\ j \in {publishers[a].name, publishers[a].avatar}
            BY <2>1, <3>1, <1>3, OldRowType
        <3> QED BY <3>2, <1>6 DEF IInv, IssuedTogether
    <2> QED BY <2>2, <2>3
<1>10. /\ DOMAIN publishers' = DOMAIN publishers \cup {a} /\ DOMAIN publishers' \subseteq Accounts
       /\ publishers' \in [DOMAIN publishers' -> Row]
       /\ NamesAreChosen' /\ IssuedTogether'
    BY <1>3, <1>5, <1>6, <1>7, <1>8, <1>9, PutStep
<1>11. TypeOK'
    <2>1. new \in Token
        BY <1>3, <1>4 DEF Token
    <2> QED BY <2>1, <1>6, <1>7, <1>10 DEF IInv, TypeOK, github
<1>12. \A y \in Calls : pc'[y] = IF y = i THEN "done" ELSE pc[y]
    BY <1>6 DEF IInv, TypeOK
<1>13. CallsOK'
    <2>1. ASSUME NEW q \in Polls PROVE PollOK(q)'
        <3>1. PollOK(q) /\ pc'[q] = pc[q]
            BY <1>1, <1>12 DEF IInv, CallsOK, Calls
        <3> QED BY <3>1, <1>1, <1>6, <1>10 DEF PollOK, Authorized, github
    <2>2. \A q \in Patches : pc'[q] = pc[q]
        BY <1>1, <1>12 DEF Calls
    <2>3. \A j \in Issues : pc'[j] = IF j = i THEN "done" ELSE pc[j]
        BY <1>12 DEF Calls
    <2> QED BY <2>1, <2>2, <2>3, <1>1, <1>6, <1>10 DEF IInv, CallsOK, IssueOK, PatchOK
<1>14. Exclusive'
    BY <1>1, <1>12 DEF IInv, Exclusive, Authorized, Calls
<1>15. Entered' /\ Owned'
    BY <1>6, <1>10 DEF IInv, Entered, Owned, github
<1>16. TokensAreEarned'
    BY <1>1, <1>6, <1>10 DEF IInv, TokensAreEarned, github
<1> QED BY <1>10, <1>11, <1>13, <1>14, <1>15, <1>16 DEF IInv

-----------------------------------------------------------------------------
(* The invariant.                                                          *)

LEMMA InitIInv == Init => IInv
<1> SUFFICES ASSUME Init PROVE IInv
    OBVIOUS
<1>1. TypeOK
    BY CallsAssumption DEF Init, TypeOK, Code, Row, Told, AnyName, AnyAvatar
<1>2. Entered
    BY DEF Init, Entered
<1>3. CallsOK
    BY CallsAssumption DEF Init, CallsOK, PollOK, IssueOK, PatchOK, Authorized, Calls
<1>4. Exclusive
    BY DEF Init, Exclusive, Authorized, Calls
<1>5. Owned /\ TokensAreEarned /\ NamesAreChosen /\ IssuedTogether
    BY DEF Init, Owned, TokensAreEarned, NamesAreChosen, IssuedTogether
<1> QED BY <1>1, <1>2, <1>3, <1>4, <1>5 DEF IInv

LEMMA StutterStep == IInv /\ UNCHANGED vars => IInv'
BY SameCodes, WorldStep DEF vars, database, IInv, TypeOK

LEMMA NextIInv == IInv /\ [Next]_vars => IInv'
<1> SUFFICES ASSUME IInv, [Next]_vars PROVE IInv'
    OBVIOUS
<1>1. CASE UNCHANGED vars
    BY <1>1, StutterStep
<1>2. CASE World
    BY <1>2, GitHubStep, SetBlockedStep DEF World
<1>3. ASSUME NEW p \in Polls, PollArrives(p) \/ PollStep(p) \/ LosePoll(p)
      PROVE  IInv'
    BY <1>3, PollArrivesStep, AskGitHubStep, ReadProfileStep, UpsertStep, InsertTokenStep,
       RespondStep, LosePollStep DEF PollStep
<1>4. ASSUME NEW i \in Issues, ReceiveIssue(i) \/ IssueStep(i) \/ Drop(i)
      PROVE  IInv'
    BY <1>4, ReceiveIssueStep, QuietIssueStep, CommitIssueStep DEF IssueStep
<1>5. ASSUME NEW p \in Patches, ReceivePatch(p) \/ PatchStep(p) \/ Drop(p)
      PROVE  IInv'
    BY <1>5, ReceivePatchStep, QuietPatchStep, PatchNameStep DEF PatchStep
<1>6. CASE Idle
    BY <1>6, <1>1 DEF Idle
<1> QED BY <1>1, <1>2, <1>3, <1>4, <1>5, <1>6 DEF Next

\* The inductive invariant holds of every behaviour, whatever GitHub, the
\* people who use it, the operator and the failures do.
THEOREM Invariance == Spec => []IInv
BY InitIInv, NextIInv, PTL DEF Spec

-----------------------------------------------------------------------------
(* What follows.                                                           *)

\* Every variable keeps its type, for any number of accounts and requests.
THEOREM TypeCorrect == Spec => []TypeOK
<1>1. IInv => TypeOK
    BY DEF IInv
<1> QED BY <1>1, Invariance, PTL

\* A token of enrollment belongs to the account that entered the code, which
\* was old enough, and is the only one of its code, however many polls of the
\* code overlap and however often logins change hands.
THEOREM TokensGoToWhoConsented == Spec => []TokensAreEarned
<1>1. IInv => TokensAreEarned
    BY DEF IInv
<1> QED BY <1>1, Invariance, PTL

\* A name that the publisher or the operator picked stands until one of them
\* picks another.
THEOREM ChosenNamesStand == Spec => []NamesAreChosen
<1>1. IInv => NamesAreChosen
    BY DEF IInv
<1> QED BY <1>1, Invariance, PTL

\* issue_token leaves its row and its token, or neither.
THEOREM IssuesAreWhole == Spec => []IssuedTogether
<1>1. IInv => IssuedTogether
    BY DEF IInv
<1> QED BY <1>1, Invariance, PTL

-----------------------------------------------------------------------------
(* What a block stops.                                                     *)

\* No poll of c is past its upsert, and c has no token.
Barred(c) ==
  /\ \A t \in Tries : pc[<<c, t>>] \notin {"insert", "respond"}
  /\ ~Minted(c)

LEMMA BarredStep ==
  ASSUME IInv, [Next]_vars, NEW c \in Codes, NEW a \in Accounts, Barred(c),
         a \in DOMAIN publishers, publishers[a].blocked, code[c].by \in {a, None}
  PROVE  Barred(c)'
<1>1. pc \in [Calls -> Stages \cup {"idle", "new", "done"}]
    BY DEF IInv, TypeOK
<1>2. ASSUME NEW t \in Tries PROVE <<c, t>> \in Polls /\ <<c, t>> \in Calls
    BY DEF Polls, Calls
<1>3. ASSUME NEW x \in Calls, NEW stage, Move(x, stage),
             stage \notin {"insert", "respond"}, tokens' = tokens
      PROVE  Barred(c)'
    <2>1. \A y \in Calls : pc'[y] = pc[y] \/ pc'[y] \notin {"insert", "respond"}
        BY <1>1, <1>3 DEF Move
    <2>2. \A t \in Tries : pc'[<<c, t>>] \notin {"insert", "respond"}
        BY <1>2, <2>1 DEF Barred
    <2> QED BY <1>3, <2>2 DEF Barred, Minted
<1>4. ASSUME UNCHANGED <<pc, tokens>> PROVE Barred(c)'
    BY <1>4 DEF Barred, Minted
<1>5. CASE UNCHANGED vars
    BY <1>4, <1>5 DEF vars
<1>6. CASE World
    BY <1>4, <1>6 DEF World, Start, Expire, Decide, EditProfile, GrowUp, SetBlocked,
       database
<1>7. ASSUME NEW p \in Polls, PollArrives(p) \/ PollStep(p) \/ LosePoll(p)
      PROVE  Barred(c)'
    <2>0. p \in Calls
        BY DEF Calls
    <2>1. CASE PollArrives(p) \/ ReadProfile(p) \/ Respond(p) \/ LosePoll(p)
        BY <1>3, <2>0, <2>1 DEF PollArrives, ReadProfile, Respond, LosePoll, End, database
    <2>2. CASE AskGitHub(p)
        BY <1>3, <2>0, <2>2 DEF AskGitHub, End, database
    <2>3. CASE Upsert(p)
        <3>1. CASE p[1] = c
            <4>1. user[p].id = code[c].by /\ user[p].id \in Accounts
                BY <2>3, <3>1 DEF Upsert, IInv, CallsOK, PollOK, User
            <4>2. Identity(user[p]) = a
                BY <4>1, NoneAssumption DEF Identity
            <4>3. ~MayEnroll(Identity(user[p]))
                BY <4>2 DEF MayEnroll, OldRow
            <4>4. End(p, "refused") /\ tokens' = tokens
                BY <2>3, <4>3 DEF Upsert
            <4> QED BY <1>3, <2>0, <4>4 DEF End
        <3>2. CASE p[1] # c
            <4>1. tokens' = tokens /\ \E stage : Move(p, stage)
                BY <2>3 DEF Upsert, End
            <4>2. \A y \in Calls : y # p => pc'[y] = pc[y]
                BY <1>1, <4>1 DEF Move
            <4>3. \A t \in Tries : <<c, t>> # p
                BY <3>2
            <4> QED BY <1>2, <4>1, <4>2, <4>3 DEF Barred, Minted
        <3> QED BY <3>1, <3>2
    <2>4. CASE InsertToken(p)
        <3>1. p[1] # c
            <4>1. \A t \in Tries : <<c, t>> # p
                BY <2>4 DEF Barred, InsertToken
            <4> QED BY <4>1 DEF Polls
        <3>2. \A y \in Calls : y # p => pc'[y] = pc[y]
            BY <1>1, <2>4 DEF InsertToken, Move
        <3>3. \A t \in Tries : pc'[<<c, t>>] \notin {"insert", "respond"}
            BY <1>2, <3>1, <3>2 DEF Barred
        <3>4. ~Minted(c)'
            BY <2>4, <3>1 DEF InsertToken, Minted, Barred
        <3> QED BY <3>3, <3>4 DEF Barred
    <2> QED BY <1>7, <2>1, <2>2, <2>3, <2>4 DEF PollStep
<1>8. ASSUME NEW i \in Issues, ReceiveIssue(i) \/ IssueStep(i) \/ Drop(i)
      PROVE  Barred(c)'
    <2>0. i \in Calls
        BY DEF Calls
    <2>1. CASE CommitIssue(i)
        <3>1. \A y \in Calls : pc'[y] = pc[y] \/ pc'[y] = "done"
            BY <1>1, <2>1 DEF CommitIssue, Move
        <3>2. \A t \in Tries : pc'[<<c, t>>] \notin {"insert", "respond"}
            BY <1>2, <3>1 DEF Barred
        <3>3. ~Minted(c)'
            BY <2>1, CallsAssumption DEF CommitIssue, Minted, Barred
        <3> QED BY <3>2, <3>3 DEF Barred
    <2>2. CASE ReceiveIssue(i) \/ UpsertIssue(i) \/ InsertIssued(i) \/ Drop(i)
        BY <1>3, <2>0, <2>2 DEF ReceiveIssue, UpsertIssue, InsertIssued, Drop, database
    <2> QED BY <1>8, <2>1, <2>2 DEF IssueStep
<1>9. ASSUME NEW p \in Patches, ReceivePatch(p) \/ PatchStep(p) \/ Drop(p)
      PROVE  Barred(c)'
    <2>0. p \in Calls
        BY DEF Calls
    <2>1. CASE Authenticate(p)
        BY <1>3, <2>0, <2>1 DEF Authenticate, database
    <2>2. CASE ReceivePatch(p) \/ PatchName(p) \/ Drop(p)
        BY <1>3, <2>0, <2>2 DEF ReceivePatch, PatchName, Drop, database
    <2> QED BY <1>9, <2>1, <2>2 DEF PatchStep
<1>10. CASE Idle
    BY <1>4, <1>10 DEF Idle, vars
<1> QED BY <1>5, <1>6, <1>7, <1>8, <1>9, <1>10 DEF Next

\* A sign-in does not get around a block: a code without a token, of which no
\* poll is past its upsert, yields none to an account that is blocked and
\* stays so.
THEOREM BlocksBar == Spec => BlockHolds
<1> SUFFICES ASSUME NEW c \in Codes, NEW a \in Accounts
             PROVE  Spec =>
                      [](/\ \A t \in Tries : pc[<<c, t>>] \notin {"insert", "respond"}
                         /\ ~Minted(c)
                         /\ [](a \in DOMAIN publishers /\ publishers[a].blocked /\ code[c].by \in {a, None})
                         => []~Minted(c))
    BY DEF BlockHolds
<1>1. /\ \A t \in Tries : pc[<<c, t>>] \notin {"insert", "respond"}
      /\ ~Minted(c)
      => Barred(c)
    BY DEF Barred
<1>2. Barred(c) => ~Minted(c)
    BY DEF Barred
<1>3. /\ IInv /\ [Next]_vars /\ Barred(c)
      /\ a \in DOMAIN publishers /\ publishers[a].blocked
      /\ code[c].by \in {a, None}
      => Barred(c)'
    BY BarredStep
<1>4. Spec => []IInv /\ [][Next]_vars
    BY Invariance, PTL DEF Spec
<1> QED BY <1>1, <1>2, <1>3, <1>4, PTL
=============================================================================
