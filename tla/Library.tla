------------------------------ MODULE Library ------------------------------
(***************************************************************************)
(* What the registry promises the people who publish in it, at the level   *)
(* of whole requests: an entry has one owner for ever, a history that only *)
(* grows, one version at a time, and every request that changes something  *)
(* does so in one step and at most once.  Publishing.tla, where a request  *)
(* is a series of database statements that interleave with those of other  *)
(* requests, is shown to implement this.                                   *)
(***************************************************************************)
EXTENDS Sequences

CONSTANTS
  Requests,    \* every request the service will ever be sent
  Publishers,
  Slugs,
  Fields,      \* the amendable columns: title, description, tags
  Seed,        \* what the database already holds: slug -> owner
  Seeded       \* stands for whoever wrote that, in place of a request

VARIABLES
  asked,       \* what each request asks for, on whose behalf; never changes
  entries,     \* the library: slug -> entry, for the slugs in use
  applied      \* the requests whose effect is in the library

libraryVars == <<asked, entries, applied>>

Ask == [op : {"create", "publish", "update", "unlist", "fetch"},
        publisher : Publishers, slug : Slugs, fields : SUBSET Fields]

NewEntry(p, r) ==
  [owner    |-> p,
   listed   |-> TRUE,
   official |-> FALSE,
   label    |-> [f \in Fields |-> r],
   history  |-> <<r>>]

Init ==
  /\ asked \in [Requests -> Ask]
  /\ entries = [s \in DOMAIN Seed |-> NewEntry(Seed[s], Seeded)]
  /\ applied = {}

\* The request r, of the kind op, takes effect.
Apply(r, op) ==
  /\ asked[r].op = op
  /\ r \notin applied /\ applied' = applied \cup {r}
  /\ UNCHANGED asked

\* Only its owner changes an entry.
Owned(r) ==
  asked[r].slug \in DOMAIN entries /\ entries[asked[r].slug].owner = asked[r].publisher

\* A create claims a slug nobody has, and brings version 1 with it.
Create(r) ==
  LET s == asked[r].slug IN
  /\ Apply(r, "create")
  /\ s \notin DOMAIN entries
  /\ entries' = [t \in DOMAIN entries \cup {s} |->
                   IF t = s THEN NewEntry(asked[r].publisher, r) ELSE entries[t]]

\* A publish adds exactly one version, at the end, and lists the entry again.
Extended(e, r) ==
  [owner |-> e.owner, listed |-> TRUE, official |-> e.official, label |-> e.label,
   history |-> Append(e.history, r)]

Publish(r) ==
  /\ Apply(r, "publish")
  /\ Owned(r)
  /\ entries' = [entries EXCEPT ![asked[r].slug] = Extended(@, r)]

\* An amendment replaces the columns it names and no other.
Amend(r) ==
  /\ Apply(r, "update")
  /\ Owned(r)
  /\ entries' = [entries EXCEPT ![asked[r].slug].label =
                   [f \in Fields |-> IF f \in asked[r].fields THEN r ELSE @[f]]]

Unlist(r) ==
  /\ Apply(r, "unlist")
  /\ Owned(r)
  /\ entries' = [entries EXCEPT ![asked[r].slug].listed = FALSE]

\* The badge is the operator's and tied to no publisher's request.
Badge(s, value) ==
  /\ entries' = [entries EXCEPT ![s].official = value]
  /\ UNCHANGED <<asked, applied>>

Next ==
  \/ \E r \in Requests : Create(r) \/ Publish(r) \/ Amend(r) \/ Unlist(r)
  \/ \E s \in DOMAIN entries, value \in BOOLEAN : Badge(s, value)

Spec == Init /\ [][Next]_libraryVars
=============================================================================
