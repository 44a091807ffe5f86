-------------------------- MODULE ConsolidationCycle ------------------------
(***************************************************************************)
(* A consolidation cycle (lib/memory/MemoryConsolidator.js): its stages in *)
(* order, of which this module takes in detail the splitting of long       *)
(* fragments (consolidator/ReshapeStage.js), the promotion of anchors      *)
(* (ScoringStage.js) and the feedback report (ReportingStage.js). Cycles   *)
(* overlap: the timer of http/startup.js starts one without looking at the *)
(* last, and memory_consolidate starts one for a client.                   *)
(*                                                                         *)
(* The other stages have modules of their own; to this one they are writers*)
(* like any client. A text is a value, an answer of the model a sequence of*)
(* texts. _mergeDuplicates is left out: content_hash is unique, so it finds*)
(* nothing to merge.                                                       *)
(***************************************************************************)
EXTENDS Integers, FiniteSets, Sequences

CONSTANTS
  Initial,     \* texts stored at the start, a sequence
  Length,      \* Length[t]: the length of a long text, 0 for short ones
  Answers,     \* Answers[t]: what the model may answer for a long text
  Blank,       \* an item that is empty once trimmed
  None,
  MinItems, MaxItems, BatchSize,
  Popular,     \* texts that are read often and have a high importance
  Cycles,
  Timer,       \* the cycles that the timer starts, one of Cycles
  Clients,     \* bound: the writes that happen beside the cycles
  MaxOps,      \* bound: writes of clients and of other stages
  MaxFeedback, \* bound: rows of tool_feedback
  MaxTrouble   \* bound: failing statements and calls, restarts

Texts == DOMAIN Length
Long == {t \in Texts : Length[t] > 0}
Ids == 1..(Cardinality(Texts) + MaxOps)

ASSUME CycleAssumption ==
  /\ Length \in [Texts -> Nat] /\ IsFiniteSet(Texts) /\ {Blank, None} \intersect Texts = {}
  /\ Initial \in Seq(Texts)
  /\ \A m, n \in DOMAIN Initial : Initial[m] = Initial[n] => m = n
  /\ \A t \in Long : Answers[t] \subseteq Seq(Texts \union {Blank})
  /\ Timer \in Cycles /\ MinItems \in Nat \ {0} /\ MaxItems \in Nat /\ MinItems <= MaxItems
  /\ {BatchSize, MaxOps, MaxFeedback, MaxTrouble} \subseteq Nat

VARIABLES
  content,  \* content[i]: the text of the row with id i, or None
  live,     \* ids of rows without valid_to
  anchored, \* ids of rows with is_anchor
  given,    \* ids given out
  links,    \* pairs <<from, to>> of fragment_links that splits created
  fb,       \* rows of tool_feedback, numbered as they come
  mark,     \* frag:feedback_report_at: the rows that came before it
  pc,       \* pc[c]: where the cycle is
  list,     \* list[c]: candidates left, as read, the one in hand first
  items,    \* items[c]: texts left to insert
  made,     \* made[c]: ids of the parts, newIds
  todo,     \* todo[c]: links left to create
  seen,     \* seen[c]: the rows <<from, to>> that the report counts
  said,     \* history: said[c]: the texts that the answer in hand gave
  split,    \* history: split[i]: how often i was replaced, by what
  overtaken,\* history: ids changed while a cycle had read them as candidates
  removed,  \* history: texts forgotten or amended away
  unlinked, \* history: ids whose links failed
  counted,  \* history: feedback rows in some report
  between,  \* history: feedback rows that came while a report was written
  ops, trouble

table == <<content, live, anchored, given, links>>
report == <<fb, mark, seen>>
work == <<list, items, made, todo, said>>
history == <<split, overtaken, removed, unlinked, counted, between>>
vars == <<table, report, pc, work, history, ops, trouble>>

Stored == {i \in Ids : content[i] # None}
StoredTexts == {content[i] : i \in Stored}
Items(s) == {s[n] : n \in DOMAIN s}

\* The cycles that have read i as a candidate and not dealt with it yet.
Listing(i) == {c \in Cycles : \E n \in DOMAIN list[c] : list[c][n].id = i}

Init ==
  /\ content = [i \in Ids |-> IF i <= Len(Initial) THEN Initial[i] ELSE None]
  /\ live = 1..Len(Initial) /\ anchored = {}
  /\ given = Len(Initial)
  /\ links = {} /\ fb = 0 /\ mark = 0
  /\ pc = [c \in Cycles |-> "idle"]
  /\ list = [c \in Cycles |-> <<>>] /\ items = list /\ made = list
  /\ todo = list
  /\ seen = [c \in Cycles |-> <<0, 0>>]
  /\ said = [c \in Cycles |-> {}]
  /\ split = [i \in Ids |-> [times |-> 0, texts |-> {}, parts |-> {}]]
  /\ overtaken = {} /\ removed = {} /\ unlinked = {}
  /\ counted = {} /\ between = {}
  /\ ops = 0 /\ trouble = 0

----------------------------------------------------------------------------
(* Writes beside the cycles: clients, and stages of other cycles.           *)

Op == ops < MaxOps /\ ops' = ops + 1
       /\ UNCHANGED <<report, pc, work, split, unlinked, counted, between, trouble>>

Touched(i) == overtaken' = overtaken \union {j \in {i} : Listing(j) # {}}

\* A new row, under an id that was never used.
New(t) ==
  /\ given' = given + 1
  /\ content' = [content EXCEPT ![given + 1] = t]
  /\ live' = live \union {given + 1}

Remember(t) ==
  /\ "remember" \in Clients /\ t \notin StoredTexts /\ Op
  /\ New(t)
  /\ UNCHANGED <<anchored, links, overtaken, removed>>

\* amend with a new content; a text that another row has is answered and not
\* written.
Amend(i, t) ==
  /\ "amend" \in Clients /\ i \in Stored /\ t \notin StoredTexts /\ Op
  /\ content' = [content EXCEPT ![i] = t]
  /\ removed' = removed \union {content[i]}
  /\ Touched(i)
  /\ UNCHANGED <<live, anchored, given, links>>

\* amend with isAnchor.
Pin(i) ==
  /\ "pin" \in Clients /\ i \in Stored \ anchored /\ Op
  /\ anchored' = anchored \union {i}
  /\ Touched(i)
  /\ UNCHANGED <<content, live, given, links, removed>>

\* forget, or a deletion by another stage.
Forget(i) ==
  /\ "forget" \in Clients /\ i \in Stored /\ Op
  /\ content' = [content EXCEPT ![i] = None]
  /\ live' = live \ {i} /\ anchored' = anchored \ {i}
  /\ links' = {l \in links : i \notin {l[1], l[2]}}
  /\ removed' = removed \union {content[i]}
  /\ Touched(i)
  /\ UNCHANGED given

\* A newer fragment replaces i: supersedes, the contradiction stage or the
\* graph linker.
Supersede(i) ==
  /\ "supersede" \in Clients /\ i \in live /\ Op
  /\ live' = live \ {i}
  /\ Touched(i)
  /\ UNCHANGED <<content, anchored, given, links, removed>>

Feedback ==
  /\ fb < MaxFeedback /\ fb' = fb + 1
  /\ UNCHANGED <<table, mark, seen, pc, work, history, ops, trouble>>

----------------------------------------------------------------------------
(* Splitting. Whatever throws for one fragment is caught: on to the next.   *)

Goto(c, label) == pc' = [pc EXCEPT ![c] = label]
Trouble == trouble < MaxTrouble /\ trouble' = trouble + 1

Start(c) ==
  /\ pc[c] = "idle" /\ Goto(c, "reshape")
  /\ UNCHANGED <<table, report, work, history, ops, trouble>>

\* The command line client of the model is not there.
NoModel(c) ==
  /\ pc[c] = "reshape" /\ Trouble /\ Goto(c, "scoring")
  /\ UNCHANGED <<table, report, work, history, ops>>

\* Mutant: the query takes anchors too.
SplittableAnchor(i) == i \in live /\ content[i] \in Long

\* The rows that are long enough, not retired and no anchor.
Splittable(i) == i \in live \ anchored /\ content[i] \in Long

\* A batch: the longest of them, the longest first; which of two equally long ones is
\* left to the database.
IsBatch(b) ==
  LET all == {i \in Stored : Splittable(i)}
      longer(i, j) == Length[content[i]] > Length[content[j]]
  IN  /\ Items(b) \subseteq all
      /\ Len(b) = IF Cardinality(all) < BatchSize THEN Cardinality(all) ELSE BatchSize
      /\ \A m, n \in DOMAIN b : m < n => b[m] # b[n] /\ ~ longer(b[n], b[m])
      /\ \A i \in Items(b), j \in all \ Items(b) : ~ longer(j, i)

\* The loop works on the rows as they are now.
ReadCandidates(c) ==
  /\ pc[c] = "reshape"
  /\ \E size \in 0..BatchSize : \E b \in [1..size -> Stored] :
       /\ IsBatch(b)
       /\ list' = [list EXCEPT ![c] = [n \in 1..size |-> [id |-> b[n], text |-> content[b[n]]]]]
       /\ Goto(c, IF size = 0 THEN "scoring" ELSE "ask")
  /\ UNCHANGED <<table, report, items, made, todo, said, history, ops, trouble>>

\* The next turn of the loop over the candidates.
NextCandidate(c) ==
  /\ list' = [list EXCEPT ![c] = Tail(@)]
  /\ Goto(c, IF Len(list[c]) = 1 THEN "scoring" ELSE "ask")
  /\ items' = [items EXCEPT ![c] = <<>>]
  /\ made' = [made EXCEPT ![c] = <<>>]
  /\ todo' = [todo EXCEPT ![c] = <<>>]
  /\ said' = [said EXCEPT ![c] = {}]

\* Mutant: a fragment that the model does not split ends the pass.
LeaveLoop(c) ==
  /\ list' = [list EXCEPT ![c] = <<>>]
  /\ Goto(c, "scoring")
  /\ UNCHANGED <<items, made, todo, said>>

\* An answer of too few items leaves the fragment as it is.
TooShort(c) == NextCandidate(c)

Answer(c, a) ==
  /\ pc[c] = "ask" /\ a \in Answers[list[c][1].text]
  /\ \/ Len(a) < MinItems /\ TooShort(c)
     \/ /\ Len(a) >= MinItems
        /\ LET first == SubSeq(a, 1, IF Len(a) < MaxItems THEN Len(a) ELSE MaxItems)
           IN  /\ items' = [items EXCEPT ![c] = first]
               /\ said' = [said EXCEPT ![c] = Items(first) \ {Blank}]
        /\ Goto(c, "insert")
        /\ UNCHANGED <<list, made, todo>>
  /\ UNCHANGED <<table, report, history, ops, trouble>>

\* insert returns the row that has the text already, whatever its state. A blank item
\* is skipped.
Insert(c) ==
  /\ pc[c] = "insert" /\ items[c] # <<>>
  /\ LET t == Head(items[c]) IN
       \/ t = Blank /\ UNCHANGED <<content, live, given, made>>
       \/ /\ t \in StoredTexts
          /\ made' = [made EXCEPT ![c] = Append(@, CHOOSE i \in Stored : content[i] = t)]
          /\ UNCHANGED <<content, live, given>>
       \/ /\ t \notin StoredTexts \union {Blank}
          /\ New(t) /\ made' = [made EXCEPT ![c] = Append(@, given + 1)]
  /\ items' = [items EXCEPT ![c] = Tail(@)]
  /\ UNCHANGED <<anchored, links, report, pc, list, todo, said, history, ops, trouble>>

\* Mutant: the last part is not linked to the whole.
LinkPairsShort(ids, whole) ==
  [n \in 1..(Len(ids) - 1) |-> <<ids[n], ids[n + 1]>>]
    \o [n \in 1..(Len(ids) - 1) |-> <<ids[n], whole>>]

\* Each part is linked to the next one and to the whole.
LinkPairs(ids, whole) ==
  [n \in 1..(Len(ids) - 1) |-> <<ids[n], ids[n + 1]>>]
    \o [n \in 1..Len(ids) |-> <<ids[n], whole>>]

\* Mutant: the number of parts is not checked.
InsertedAny(c) ==
  /\ pc[c] = "insert" /\ items[c] = <<>>
  /\ todo' = [todo EXCEPT ![c] = LinkPairs(made[c], list[c][1].id)]
  /\ Goto(c, "link")
  /\ UNCHANGED <<table, report, list, items, made, said, history, ops, trouble>>

Inserted(c) ==
  /\ pc[c] = "insert" /\ items[c] = <<>>
  /\ \/ Len(made[c]) < MinItems /\ NextCandidate(c)
     \/ /\ Len(made[c]) >= MinItems
        /\ todo' = [todo EXCEPT ![c] = LinkPairs(made[c], list[c][1].id)]
        /\ Goto(c, "link")
        /\ UNCHANGED <<list, items, made, said>>
  /\ UNCHANGED <<table, report, history, ops, trouble>>

\* createLink: a foreign key that fails is swallowed like any other error.
LinkNext(c) ==
  /\ pc[c] = "link" /\ todo[c] # <<>>
  /\ LET l == Head(todo[c]) IN
       \/ /\ links' = links \union {k \in {l} : {k[1], k[2]} \subseteq Stored}
          /\ UNCHANGED <<unlinked, trouble>>
       \/ /\ Trouble /\ unlinked' = unlinked \union {l[2]} /\ UNCHANGED links
  /\ todo' = [todo EXCEPT ![c] = Tail(@)]
  /\ UNCHANGED <<content, live, anchored, given, report, pc, list, items, made, said,
                 split, overtaken, removed, counted, between, ops>>

\* The statement does not repeat the conditions of the query.
Retire(c) ==
  LET i == list[c][1].id IN
  /\ pc[c] = "link" /\ todo[c] = <<>>
  /\ IF i \in Stored
     THEN /\ live' = live \ {i}
          /\ split' = [split EXCEPT ![i] = [times |-> @.times + 1, texts |-> said[c],
                                           parts |-> Items(made[c])]]
          /\ overtaken' = overtaken \union {j \in {i} : Listing(j) # {c}}
     ELSE UNCHANGED <<live, split, overtaken>>
  /\ NextCandidate(c)
  /\ UNCHANGED <<content, anchored, given, links, report, removed, unlinked, counted,
                 between, ops, trouble>>

\* The model does not answer, or a statement throws.
FragmentFails(c) ==
  /\ \/ pc[c] = "ask"
     \/ pc[c] = "insert" /\ items[c] # <<>> /\ Head(items[c]) # Blank
     \/ pc[c] = "link" /\ todo[c] = <<>>
  /\ Trouble /\ NextCandidate(c)
  /\ UNCHANGED <<table, report, history, ops>>

----------------------------------------------------------------------------
(* The later stages.                                                        *)

\* _promoteAnchors. Retired rows have lost the importance it asks for.
Promote(c) ==
  LET chosen == {i \in live \ anchored : content[i] \in Popular}
  IN  /\ pc[c] = "scoring" /\ Goto(c, "report")
      /\ anchored' = anchored \union chosen
      /\ overtaken' = overtaken \union {i \in chosen : Listing(i) # {}}
      /\ UNCHANGED <<content, live, given, links, report, work, split, removed, unlinked,
                     counted, between, ops, trouble>>

\* A query of a stage throws and nothing there catches it: the cycle is over.
StageFails(c) ==
  /\ pc[c] \in {"reshape", "scoring"}
  /\ Trouble /\ Goto(c, "idle")
  /\ UNCHANGED <<table, report, work, history, ops>>

\* The statistics by tool count the rows above the watermark, all rows when it
\* cannot be read. Without any there is no report.
Stats(c) ==
  /\ pc[c] = "report"
  /\ \E from \in {mark, 0} :
       /\ IF from = mark THEN UNCHANGED trouble ELSE Trouble
       /\ IF from = fb THEN Goto(c, "idle") /\ UNCHANGED seen
          ELSE Goto(c, "file") /\ seen' = [seen EXCEPT ![c] = <<from, fb>>]
  /\ UNCHANGED <<table, fb, mark, work, history, ops>>

Reported(c) == counted \union (seen[c][1] + 1)..seen[c][2]
Spent(c) == seen' = [seen EXCEPT ![c] = <<0, 0>>]

WriteReport(c) ==
  /\ pc[c] = "file" /\ Goto(c, "mark")
  /\ counted' = Reported(c)
  /\ UNCHANGED <<table, report, work, split, overtaken, removed, unlinked, between,
                 ops, trouble>>

\* The watermark is the time after the file is written.
MarkNow(c) ==
  /\ mark' = fb
  /\ between' = between \union (seen[c][2] + 1)..fb

WriteMark(c) ==
  /\ pc[c] = "mark" /\ Goto(c, "idle") /\ MarkNow(c) /\ Spent(c)
  /\ UNCHANGED <<table, fb, work, split, overtaken, removed, unlinked, counted,
                 ops, trouble>>

\* Mutant: the watermark moves although the file could not be written.
ReportFailsMarked(c) ==
  /\ pc[c] \in {"report", "file", "mark"}
  /\ Trouble /\ Goto(c, "idle") /\ Spent(c) /\ MarkNow(c)
  /\ UNCHANGED <<table, fb, work, split, overtaken, removed, unlinked, counted, ops>>

\* The file cannot be written, or Redis not: there is no new watermark.
ReportFails(c) ==
  /\ pc[c] \in {"report", "file", "mark"}
  /\ Trouble /\ Goto(c, "idle") /\ Spent(c)
  /\ UNCHANGED <<table, fb, mark, work, history, ops>>

\* The process dies and starts anew: what a cycle held is gone.
Restart ==
  /\ \E c \in Cycles : pc[c] # "idle"
  /\ Trouble
  /\ pc' = [c \in Cycles |-> "idle"]
  /\ list' = [c \in Cycles |-> <<>>] /\ items' = list' /\ made' = list'
  /\ todo' = list'
  /\ said' = [c \in Cycles |-> {}] /\ seen' = [c \in Cycles |-> <<0, 0>>]
  /\ UNCHANGED <<table, fb, mark, history, ops>>

Step(c) ==
  \/ ReadCandidates(c)
  \/ \E t \in Long : \E a \in Answers[t] : Answer(c, a)
  \/ Insert(c) \/ Inserted(c) \/ LinkNext(c) \/ Retire(c)
  \/ Promote(c) \/ Stats(c) \/ WriteReport(c) \/ WriteMark(c)

Next ==
  \/ \E t \in Texts : Remember(t) \/ \E i \in Ids : Amend(i, t)
  \/ \E i \in Ids : Pin(i) \/ Forget(i) \/ Supersede(i)
  \/ Feedback
  \/ \E c \in Cycles : Start(c) \/ Step(c) \/ NoModel(c) \/ FragmentFails(c)
                         \/ StageFails(c) \/ ReportFails(c)
  \/ Restart

Spec == Init /\ [][Next]_vars

\* An answer with which a fragment can be replaced.
Usable(a) ==
  Cardinality({n \in DOMAIN a : n <= MaxItems /\ a[n] # Blank}) >= MinItems
Useful == {t \in Long : \E a \in Answers[t] : Usable(a)}

(***************************************************************************)
(* The timer starts its cycles for ever and a step of a running one ends:  *)
(* model calls have a timeout. The model does not answer the same text     *)
(* uselessly for ever, when it can answer usefully.                        *)
(***************************************************************************)
Fairness ==
  /\ WF_vars(Start(Timer) \/ Step(Timer))
  /\ \A t \in Useful : SF_vars(/\ list[Timer] # <<>> /\ list[Timer][1].text = t
                              /\ \E a \in Answers[t] : Usable(a) /\ Answer(Timer, a))

FairSpec == Spec /\ Fairness

----------------------------------------------------------------------------
(* Properties.                                                              *)

Labels == {"idle", "reshape", "ask", "insert", "link", "scoring", "report",
           "file", "mark"}

TypeOK ==
  /\ content \in [Ids -> Texts \union {None}] /\ given \in Nat /\ Stored \subseteq 1..given
  /\ live \subseteq Stored /\ anchored \subseteq Stored
  /\ \A i, j \in Stored : content[i] = content[j] => i = j
  /\ links \subseteq Stored \X Stored
  /\ mark \in 0..fb /\ counted \subseteq 1..fb
  /\ \A c \in Cycles :
       /\ pc[c] \in Labels /\ seen[c] \in (0..fb) \X (0..fb)
       /\ (list[c] # <<>>) <=> (pc[c] \in {"ask", "insert", "link"})

Replaced == {i \in Ids : split[i].times > 0}

\* A fragment that was replaced by its parts and that nobody else changed
\* meanwhile lost nothing: some part stood in its place, and each text the
\* answer gave (up to MaxItems) is stored, unless a client removed it. Inserts
\* fail, the process dies and other cycles work between the answer and the
\* statement that retires it.
NoTextLost ==
  \A i \in Replaced \ overtaken :
    split[i].texts # {} /\ split[i].texts \subseteq StoredTexts \union removed

\* The parts of a fragment that was replaced lead to it by a part_of link, all of
\* them, unless the creation of one failed.
PartsLinked ==
  \A i \in (Replaced \intersect Stored) \ (overtaken \union unlinked) :
    \A p \in split[i].parts \intersect Stored : <<p, i>> \in links

\* A fragment is replaced a second time, its importance cut twice and its valid_to
\* moved, only by a cycle that had read it before it was replaced or changed.
ReplacedOnce == \A i \in Replaced \ overtaken : split[i].times = 1

\* A split is whole: the parts lead to what they replace, and it is replaced once.
SplitSound == TypeOK /\ PartsLinked /\ ReplacedOnce

\* Splitting does not retire an anchor, except one that became an anchor while the
\* model was asked to split it.
AnchorsStand ==
  [][\A i \in anchored : split'[i] # split[i] => i \in overtaken]_vars

\* Feedback below the watermark was in a report, except what came after the query
\* and before the watermark, which no report ever counts.
ReportsCover == 1..mark \subseteq counted \union between

\* A long fragment that the model can split is split, or is no candidate any more:
\* those that it cannot split do not take all the places of the batch.
EventuallySplit ==
  \A t \in Useful :
    (\E i \in Stored : content[i] = t /\ Splittable(i))
      ~> ~(\E i \in Stored : content[i] = t /\ Splittable(i))

(***************************************************************************)
(* Claims the code does not keep; runs of their own show how.              *)
(***************************************************************************)

\* config/memory.js:103: the original is replaced only when the model splits it
\* into at least minItems items. Two items of the same text become one row.
ReplacedByEnough == \A i \in Replaced : Cardinality(split[i].parts \ {i}) >= MinItems
=============================================================================
