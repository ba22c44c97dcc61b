--------------------------- MODULE Installs_proofs ---------------------------
(***************************************************************************)
(* Proofs about Installs, for any number of harnesses, workflows and calls *)
(* under way: install records are of published versions, and forgets are   *)
(* honest.                                                                 *)
(***************************************************************************)
EXTENDS Installs, TLAPS

\* A call that is past its version check asks for a published version.
Checked ==
  \A c \in Calls :
    pc[c] = "write" /\ call[c].op = "record" => call[c].version \in 1 .. published[Slug(c)]

\* The books balance: what a key is owed is the row it has.
Balanced == \A k \in Keys : owed[k] = IF k \in DOMAIN installs THEN 1 ELSE 0

IInv == TypeOK /\ Checked /\ Balanced

LEMMA InitIInv == Init => IInv
<1> SUFFICES ASSUME Init PROVE IInv
    OBVIOUS
<1>1. (CHOOSE k \in Keys : TRUE) \in Keys
    <2>1. PICK s \in Slugs, i \in Installations : TRUE
        BY KeysAssumption
    <2>2. <<s, i>> \in Keys
        BY <2>1 DEF Keys
    <2> QED BY <2>2
<1>2. DOMAIN installs = {}
    BY DEF Init
<1>3. TypeOK
    BY <1>1, <1>2, BoundsAssumption DEF Init, TypeOK, InstallRow, Call, Stages
<1> QED BY <1>2, <1>3 DEF IInv, Checked, Balanced, Init

\* A call moves on and touches no record.
LEMMA ProceedKeeps ==
  ASSUME IInv, NEW c \in Calls, NEW stage \in Stages \cup {"idle"}, Proceed(c, stage),
         UNCHANGED <<installs, owed>>,
         stage = "write" /\ call[c].op = "record" => call[c].version \in 1 .. published[Slug(c)]
  PROVE  IInv'
<1>1. TypeOK'
    BY DEF IInv, TypeOK, Proceed
<1>2. Checked'
    BY DEF IInv, TypeOK, Checked, Proceed, Slug
<1> QED BY <1>1, <1>2 DEF IInv, Balanced, Proceed

LEMMA RecordKeeps == ASSUME IInv, NEW c \in Calls, Record(c) PROVE IInv'
<1> DEFINE k == call[c].key
<1>1. k \in Keys /\ call[c].version \in 1 .. published[k[1]] /\ call[c].version \in Nat
    BY DEF IInv, TypeOK, Checked, Record, Slug, Call
<1>2. Refreshed(c, k) \in InstallRow /\ Refreshed(c, k).version = call[c].version
    BY <1>1, BoundsAssumption DEF Refreshed, InstallRow
<1>3. /\ DOMAIN installs' = DOMAIN installs \cup {k}
      /\ installs'[k] = Refreshed(c, k)
      /\ \A j \in DOMAIN installs \ {k} : installs'[j] = installs[j]
      /\ installs' \in [DOMAIN installs' -> InstallRow]
    BY <1>2 DEF Record, IInv, TypeOK
<1>4. pc' = [pc EXCEPT ![c] = "respond"] /\ UNCHANGED <<published, has, call>>
    BY DEF Record, Proceed
<1>5. owed' \in [Keys -> Int] /\ Balanced'
    <2>1. CASE k \in DOMAIN installs
        BY <1>3, <2>1 DEF Record, IInv, TypeOK, Balanced
    <2>2. CASE k \notin DOMAIN installs
        BY <1>1, <1>3, <2>2 DEF Record, IInv, TypeOK, Balanced
    <2> QED BY <2>1, <2>2
<1>6. \A j \in DOMAIN installs' : installs'[j].version \in 1 .. published'[j[1]]
    BY <1>1, <1>2, <1>3, <1>4 DEF IInv, TypeOK
<1>7. TypeOK'
    BY <1>1, <1>3, <1>4, <1>5, <1>6 DEF IInv, TypeOK, Stages
<1>8. Checked'
    BY <1>4 DEF IInv, TypeOK, Checked, Slug
<1> QED BY <1>5, <1>7, <1>8 DEF IInv

LEMMA ForgetKeeps == ASSUME IInv, NEW c \in Calls, Forget(c) PROVE IInv'
<1> DEFINE k == call[c].key
<1>1. k \in Keys
    BY DEF IInv, TypeOK, Call
<1>2. /\ DOMAIN installs' = DOMAIN installs \ {k}
      /\ \A j \in DOMAIN installs' : installs'[j] = installs[j]
      /\ installs' \in [DOMAIN installs' -> InstallRow]
    BY DEF Forget, IInv, TypeOK
<1>3. pc' = [pc EXCEPT ![c] = "respond"] /\ UNCHANGED <<published, has, call>>
    BY DEF Forget, Proceed
<1>4. owed' \in [Keys -> Int] /\ Balanced'
    <2>1. CASE k \in DOMAIN installs
        BY <1>1, <1>2, <2>1 DEF Forget, Removed, IInv, TypeOK, Balanced
    <2>2. CASE k \notin DOMAIN installs
        BY <1>2, <2>2 DEF Forget, Removed, IInv, TypeOK, Balanced
    <2> QED BY <2>1, <2>2
<1>5. TypeOK'
    BY <1>2, <1>3, <1>4 DEF IInv, TypeOK, Stages
<1>6. Checked'
    BY <1>3 DEF IInv, TypeOK, Checked, Slug
<1> QED BY <1>4, <1>5, <1>6 DEF IInv

LEMMA WorldKeeps ==
  ASSUME IInv,
         \/ \E k \in Keys : Toggle(k)
         \/ \E s \in Slugs : Publish(s)
         \/ Tick
         \/ \E c \in Calls, k \in Keys : Send(c, k)
  PROVE  IInv'
<1>1. CASE \E k \in Keys : Toggle(k)
    BY <1>1 DEF Toggle, IInv, TypeOK, Checked, Balanced, Slug
<1>2. ASSUME NEW s \in Slugs, Publish(s) PROVE IInv'
    <2>1. \A t \in Slugs : published'[t] \in Nat /\ published'[t] >= published[t]
        BY <1>2 DEF Publish, IInv, TypeOK
    <2>2. published' \in [Slugs -> Nat]
        BY <1>2 DEF Publish, IInv, TypeOK
    <2>3. \A k \in Keys : k[1] \in Slugs
        BY DEF Keys
    <2>4. \A k \in DOMAIN installs : installs[k].version \in 1 .. published'[k[1]]
        <3> SUFFICES ASSUME NEW k \in DOMAIN installs
                     PROVE  installs[k].version \in 1 .. published'[k[1]]
            OBVIOUS
        <3>1. /\ k[1] \in Slugs /\ installs[k].version \in 1 .. published[k[1]]
              /\ published[k[1]] \in Nat
            BY <2>3 DEF IInv, TypeOK
        <3> QED BY <2>1, <3>1
    <2>5. TypeOK'
        BY <1>2, <2>2, <2>4 DEF Publish, IInv, TypeOK
    <2>6. ASSUME NEW c \in Calls, pc[c] = "write", call[c].op = "record"
          PROVE  call[c].version \in 1 .. published'[Slug(c)]
        <3>1. /\ Slug(c) \in Slugs /\ call[c].version \in 1 .. published[Slug(c)]
              /\ published[Slug(c)] \in Nat
            BY <2>3, <2>6 DEF IInv, TypeOK, Checked, Slug, Call
        <3> QED BY <2>1, <3>1
    <2>7. Checked' /\ Balanced'
        BY <1>2, <2>6 DEF Publish, IInv, Checked, Balanced, Slug
    <2> QED BY <2>5, <2>7 DEF IInv
<1>3. CASE Tick
    <2>1. DOMAIN installs' = DOMAIN installs
        BY <1>3 DEF Tick
    <2>2. \A k \in DOMAIN installs :
            /\ installs'[k].version = installs[k].version
            /\ installs'[k] \in InstallRow
        BY <1>3, BoundsAssumption DEF Tick, IInv, TypeOK, InstallRow
    <2>3. installs' \in [DOMAIN installs' -> InstallRow]
        BY <1>3, <2>1, <2>2 DEF Tick
    <2> QED BY <1>3, <2>1, <2>2, <2>3 DEF Tick, IInv, TypeOK, Checked, Balanced, Slug
<1>4. ASSUME NEW c \in Calls, NEW k \in Keys, Send(c, k) PROVE IInv'
    <2>1. call' \in [Calls -> Call] /\ pc' \in [Calls -> Stages \cup {"idle"}]
        BY <1>4, BoundsAssumption DEF Send, IInv, TypeOK, Call, Stages
    <2>2. Checked'
        BY <1>4 DEF Send, IInv, TypeOK, Checked, Slug
    <2> QED BY <1>4, <2>1, <2>2 DEF Send, IInv, TypeOK, Balanced
<1> QED BY <1>1, <1>2, <1>3, <1>4

LEMMA NextIInv == IInv /\ [Next]_vars => IInv'
<1> SUFFICES ASSUME IInv, [Next]_vars PROVE IInv'
    OBVIOUS
<1>1. ASSUME NEW c \in Calls, PassLimit(c) PROVE IInv'
    BY <1>1, ProceedKeeps DEF PassLimit, Untouched, Stages
<1>2. ASSUME NEW c \in Calls, FindWorkflow(c) PROVE IInv'
    <2>1. \E stage \in {"idle", "version", "write"} :
            /\ Proceed(c, stage)
            /\ stage = "write" => call[c].op # "record"
        BY <1>2 DEF FindWorkflow
    <2> QED BY <1>2, <2>1, ProceedKeeps DEF FindWorkflow, Untouched, Stages
<1>3. ASSUME NEW c \in Calls, FindVersion(c) PROVE IInv'
    <2>1. \E stage \in {"idle", "write"} :
            /\ Proceed(c, stage)
            /\ stage = "write" => call[c].version \in 1 .. published[Slug(c)]
        BY <1>3 DEF FindVersion, KnowsVersion
    <2> QED BY <1>3, <2>1, ProceedKeeps DEF FindVersion, Untouched, Stages
<1>4. ASSUME NEW c \in Calls, Respond(c) \/ Lose(c) PROVE IInv'
    BY <1>4, ProceedKeeps DEF Respond, Lose, Untouched, Stages
<1>5. CASE UNCHANGED vars
    BY <1>5 DEF vars, IInv, TypeOK, Checked, Balanced, Slug
<1> QED BY <1>1, <1>2, <1>3, <1>4, <1>5, RecordKeeps, ForgetKeeps, WorldKeeps DEF Next, Step

THEOREM Invariance == Spec => []IInv
BY InitIInv, NextIInv, PTL DEF Spec

\* Types are kept, and no record is of a version that was never published,
\* whatever races between the check and the insert.
THEOREM RecordsAreOfVersions == Spec => []TypeOK
<1>1. IInv => TypeOK
    BY DEF IInv
<1> QED BY <1>1, Invariance, PTL

\* However many forgets of a key overlap, one row is reported deleted once.
THEOREM ForgetsAreHonest == Spec => []HonestForgets
<1>1. IInv => HonestForgets
    BY DEF IInv, Balanced, HonestForgets
<1> QED BY <1>1, Invariance, PTL
=============================================================================
