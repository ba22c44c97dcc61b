----------------------------- MODULE Validation -----------------------------
(***************************************************************************)
(* What stands between a body and the tables: the limit on a body's size   *)
(* in main.rs and validate in models.rs.  A text is a sequence of          *)
(* characters, and a character is what the checks tell apart.  Lengths are *)
(* those of str::len, in bytes of UTF-8.  The title stands for the         *)
(* description too, which is checked in the same way.                      *)
(***************************************************************************)
EXTENDS Integers, Sequences, FiniteSets, FiniteSetsExt

CONSTANTS
  Null,           \* a field that is not given; no row
  Reserved,       \* RESERVED_SLUGS
  SlugMax, TitleMax, TagMax, TagsMax, ChangelogMax,   \* in bytes
  MaxYaml,        \* max_yaml_bytes
  Slack,          \* what a body may be longer than its document (64 KiB)
  Text,           \* bound: the texts of a run, some of Seq(Characters)
  CreateBodies, UpdateBodies, PublishBodies   \* what callers send in a run

\* A small letter, a digit, a dash, a capital, a blank, a line break, which
\* JSON escapes, and a letter of two bytes.
Characters == {"a", "7", "-", "A", " ", "nl", "ae"}

CreateBody == [slug : Text, title : Text, tags : Seq(Text), yaml : Text,
               changelog : Text \cup {Null}]
UpdateBody == [title : Text \cup {Null}, tags : Seq(Text) \cup {Null}]
PublishBody == [yaml : Text, changelog : Text \cup {Null}]

ASSUME ValidationAssumption ==
  /\ {SlugMax, TitleMax, TagMax, TagsMax, ChangelogMax, MaxYaml, Slack} \subseteq Nat
  /\ Null \notin Text
  /\ \A t \in Text : t \in Seq(Characters)
  /\ CreateBodies \subseteq CreateBody /\ UpdateBodies \subseteq UpdateBody
  /\ PublishBodies \subseteq PublishBody

VARIABLES
  row,      \* the entry: its slug, title and tags, and what it published last
  asked,    \* the last body
  answer    \* and what came of it

validationVars == <<row, asked, answer>>

-----------------------------------------------------------------------------
(* Texts.                                                                  *)

Blank(c) == c \in {" ", "nl"}
Bytes(t) == Len(t) + Cardinality({i \in DOMAIN t : t[i] = "ae"})

\* How long it is between the quotes of a JSON string.
Encoded(t) == Bytes(t) + Cardinality({i \in DOMAIN t : t[i] = "nl"})

\* str::trim().is_empty()
OnlyBlanks(t) == \A i \in DOMAIN t : Blank(t[i])

SlugCharacter(c) == c \in {"a", "7", "-"}

-----------------------------------------------------------------------------
(* The checks.  Each says what it refuses for, or "ok".                    *)

\* The first check of several that refuses.
FirstRefusal(checks) ==
  LET refusing == {i \in DOMAIN checks : checks[i] # "ok"} IN
  IF refusing = {} THEN "ok" ELSE checks[Min(refusing)]

Refused(condition, why) == IF condition THEN why ELSE "ok"

EdgeDash(t) == t # <<>> /\ (t[1] = "-" \/ t[Len(t)] = "-")
DoubleDash(t) == \E i \in 1 .. Len(t) - 1 : t[i] = "-" /\ t[i + 1] = "-"

StrayDash(t) == EdgeDash(t) \/ DoubleDash(t)

OtherCharacter(t) == \E i \in DOMAIN t : ~SlugCharacter(t[i])

ValidateSlug(t) ==
  FirstRefusal(<<Refused(t = <<>> \/ Bytes(t) > SlugMax, "slug length"),
                 Refused(OtherCharacter(t), "slug characters"),
                 Refused(StrayDash(t), "slug dashes"),
                 Refused(t \in Reserved, "slug reserved")>>)

\* One too few.
TooLongByOne(t, max) == Bytes(t) >= max

TooLong(t, max) == Bytes(t) > max

ValidateLen(t, max) ==
  FirstRefusal(<<Refused(OnlyBlanks(t), "required"), Refused(TooLong(t, max), "too long")>>)

ValidateTag(t) ==
  FirstRefusal(<<Refused(t = <<>> \/ Bytes(t) > TagMax, "tag length"),
                 Refused(OtherCharacter(t), "tag characters")>>)

ValidateTags(tags) ==
  FirstRefusal(<<Refused(Len(tags) > TagsMax, "tags")>>
                 \o [i \in DOMAIN tags |-> ValidateTag(tags[i])])

ValidateYaml(t) ==
  FirstRefusal(<<Refused(OnlyBlanks(t), "required"), Refused(Bytes(t) > MaxYaml, "too large")>>)

ValidateChangelog(t) == IF t = Null THEN "ok" ELSE ValidateLen(t, ChangelogMax)

ValidateCreate(b) ==
  FirstRefusal(<<ValidateSlug(b.slug), ValidateLen(b.title, TitleMax),
                 ValidateTags(b.tags), ValidateYaml(b.yaml),
                 ValidateChangelog(b.changelog)>>)

ValidatePublish(b) == FirstRefusal(<<ValidateYaml(b.yaml), ValidateChangelog(b.changelog)>>)

\* An amendment whose tags nobody looks at.
ValidateUpdateTitle(b) ==
  FirstRefusal(<<IF b.title = Null THEN "ok" ELSE ValidateLen(b.title, TitleMax),
                 Refused(b.title = Null /\ b.tags = Null, "nothing to update")>>)

ValidateUpdate(b) ==
  FirstRefusal(<<IF b.title = Null THEN "ok" ELSE ValidateLen(b.title, TitleMax),
                 IF b.tags = Null THEN "ok" ELSE ValidateTags(b.tags),
                 Refused(b.title = Null /\ b.tags = Null, "nothing to update")>>)

-----------------------------------------------------------------------------
(* The limit on the body, before a handler sees it.                        *)

\* A limit of max_yaml_bytes and no more.
BeyondYamlLimit(yaml) == Encoded(yaml) > MaxYaml

\* A document as JSON, its changelog and the rest of a body not counted.
BeyondBodyLimit(yaml) == Encoded(yaml) > MaxYaml + Slack

-----------------------------------------------------------------------------
(* The handlers.                                                           *)

Answer(b, op, verdict) == asked' = [op |-> op, body |-> b] /\ answer' = verdict

Create(b) ==
  LET verdict == IF BeyondBodyLimit(b.yaml) THEN "edge" ELSE ValidateCreate(b) IN
  /\ Answer(b, "create", verdict)
  /\ row' = IF verdict # "ok" THEN row
            ELSE [slug |-> b.slug, title |-> b.title, tags |-> b.tags, yaml |-> b.yaml]

Publish(b) ==
  LET verdict == IF BeyondBodyLimit(b.yaml) THEN "edge" ELSE ValidatePublish(b) IN
  /\ Answer(b, "publish", verdict)
  /\ row' = IF verdict = "ok" THEN [row EXCEPT !.yaml = b.yaml] ELSE row

\* COALESCE: what is not given stays.
Update(b) ==
  LET verdict == ValidateUpdate(b) IN
  /\ Answer(b, "update", verdict)
  /\ row' = IF verdict # "ok" THEN row
            ELSE [row EXCEPT !.title = IF b.title = Null THEN @ ELSE b.title,
                             !.tags = IF b.tags = Null THEN @ ELSE b.tags]

Init == row = Null /\ asked = [op |-> "none"] /\ answer = "none"

Next ==
  \/ row = Null /\ \E b \in CreateBodies : Create(b)
  \/ row # Null /\ \E b \in PublishBodies : Publish(b)
  \/ row # Null /\ \E b \in UpdateBodies : Update(b)

Spec == Init /\ [][Next]_validationVars

-----------------------------------------------------------------------------
(* Properties.                                                             *)

\* "Lowercase, digits and single dashes only": words, joined by single dashes.
Word(t) == t # <<>> /\ \A i \in DOMAIN t : t[i] \in {"a", "7"}

\* Where its words end: at the dashes and at both ends.
Cuts(t) == {0, Len(t) + 1} \cup {i \in DOMAIN t : t[i] = "-"}

NextCut(t, i) == Min({j \in Cuts(t) : j > i})

IsSlug(t) ==
  /\ \A i \in Cuts(t) \ {Len(t) + 1} : Word(SubSeq(t, i + 1, NextCut(t, i) - 1))
  /\ Len(t) <= SlugMax /\ t \notin Reserved

IsTag(t) == Len(t) \in 1 .. TagMax /\ \A i \in DOMAIN t : SlugCharacter(t[i])

Fits(t, max) == Len(t) <= max /\ \E i \in DOMAIN t : ~Blank(t[i])

\* Whatever an entry is created with and amended to, and in whatever order, what
\* is in the tables reads as the messages of validate say: a slug that names
\* a file and nothing the harness ships, a title that shows, tags that are
\* tags, none of them longer than it says, in characters.
RowIsWellFormed ==
  row # Null =>
    /\ IsSlug(row.slug)
    /\ Fits(row.title, TitleMax) /\ Fits(row.yaml, MaxYaml)
    /\ Len(row.tags) <= TagsMax /\ \A i \in DOMAIN row.tags : IsTag(row.tags[i])

Ascii(t) == \A i \in DOMAIN t : t[i] # "ae"

LineBreaks(t) == {i \in DOMAIN t : t[i] = "nl"}

\* What is written in ASCII is refused only for what the messages say.  (Beyond
\* ASCII it may be refused with fewer characters than they say, since the
\* checks count bytes; and a document with more line breaks than the slack,
\* each of which JSON writes with two characters, may not get past the limit
\* on the body.)
RefusedCreateIsDue ==
  asked.op = "create" /\ answer # "ok" =>
    LET b == asked.body IN
    \/ ~IsSlug(b.slug)
    \/ ~Fits(b.title, TitleMax) \/ ~Fits(b.yaml, MaxYaml)
    \/ Len(b.tags) > TagsMax \/ \E i \in DOMAIN b.tags : ~IsTag(b.tags[i])
    \/ b.changelog # Null /\ ~Fits(b.changelog, ChangelogMax)
    \/ ~Ascii(b.title) \/ ~Ascii(b.yaml)
    \/ b.changelog # Null /\ ~Ascii(b.changelog)
    \/ answer = "edge" /\ Cardinality(LineBreaks(b.yaml)) > Slack

\* "The per-field YAML limit in `models` is the finer check on top": the limit
\* on a body turns away no document that the finer check would let through,
\* unless the escapes of JSON alone take up more than the slack.
EdgeIsTheCoarserCheck ==
  answer = "edge" =>
    LET yaml == asked.body.yaml IN
    ValidateYaml(yaml) = "ok" => Cardinality(LineBreaks(yaml)) > Slack
=============================================================================
