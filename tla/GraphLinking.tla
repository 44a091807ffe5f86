---------------------------- MODULE GraphLinking ----------------------------
(***************************************************************************)
(* The relations nobody asked for: GraphLinker.linkFragment, called for    *)
(* every embedding that the server's own EmbeddingWorker reports and by    *)
(* the retrospective pass of a consolidation cycle, and the links that     *)
(* reflect draws between the fragments of a session. All of them run at    *)
(* the same time and share fragment_links and the linked_to arrays.        *)
(*                                                                         *)
(* A relation is one row per ordered pair; its weight, which only counts   *)
(* the repetitions, is left out. What a fragment says does not change how  *)
(* close it is to others: an amend only takes its embedding away.          *)
(***************************************************************************)
EXTENDS Integers, FiniteSets, Sequences

CONSTANTS
  Frag,          \* fragments, stored already or to come
  Initial,       \* those stored and embedded at the start, without links
  Born,          \* Born[f]: created_at, in the milliseconds that Date keeps
  Kind,          \* Kind[f]: error, decision, procedure or fact
  Resolved,      \* fragments whose text says that an error was resolved
  Close,         \* Close[f][g]: 0, or 1 above 0.7, or 2 above 0.85, of one topic
  Session,       \* Session[k]: the fragments of kind k that reflect stores
  Passes,        \* retrospective passes, of cycles that may overlap
  Reflect,       \* the worker that is the reflect call
  MaxCandidates, \* LIMIT of the search for candidates
  BatchSize,     \* LIMIT of a retrospective pass
  MaxHops,       \* how far isReachable follows linked_to: 20
  MaxHandlers,   \* bound: handlers at once when an embedding is reported
  MaxTrouble     \* bound: amends, deletions, failing statements and restarts

\* One handler for each reported embedding: the worker is the fragment itself.
Workers == Frag \union Passes \union {Reflect}
Kinds == {"error", "decision", "procedure", "fact"}
Rels == {"related", "resolved_by", "superseded_by", "caused_by"}

\* reflect stores one kind after the other.
InOrder ==
  Session["fact"] \o Session["decision"] \o Session["error"] \o Session["procedure"]

Reported == {InOrder[n] : n \in DOMAIN InOrder}

ASSUME LinkingAssumption ==
  /\ IsFiniteSet(Frag) /\ IsFiniteSet(Passes)
  /\ Born \in [Frag -> Nat] /\ Kind \in [Frag -> Kinds] /\ Resolved \subseteq Frag
  /\ Close \in [Frag -> [Frag -> 0..2]]
  /\ \A f, g \in Frag : Close[f][g] = Close[g][f]
  /\ Initial \subseteq Frag /\ Session \in [Kinds -> Seq(Frag)]
  /\ \A k \in Kinds : \A n \in DOMAIN Session[k] : Kind[Session[k][n]] = k
  /\ Frag \intersect Passes = {} /\ Reflect \notin Frag \union Passes
  /\ {MaxCandidates, BatchSize, MaxHops} \subseteq Nat \ {0}
  /\ {MaxHandlers, MaxTrouble} \subseteq Nat

VARIABLES
  stored,    \* rows of fragments
  gone,      \* history: fragments deleted
  embedded,  \* rows with an embedding
  retired,   \* rows with a valid_to
  rel,       \* rel[p]: relation of the pair p in fragment_links, or "none"
  mention,   \* mention[f]: the linked_to array of f
  step,      \* step[w]: the statement w does next
  of,        \* of[w]: the fragment that w links, or <<>>
  todo,      \* todo[w]: links left to create, the one in hand first
  batch,     \* batch[w]: fragments left to a pass
  unlinked,  \* history: pairs of reflect whose link was lost on the way
  trouble

rows == <<stored, gone, embedded>>
graph == <<rel, mention, retired>>
work == <<step, of, todo, batch>>
vars == <<rows, graph, work, unlinked, trouble>>

Pairs == Frag \X Frag
Link(f, g, r) == [from |-> f, to |-> g, rel |-> r]
Links == [from : Frag, to : Frag, rel : Rels]
Linked(f) == \E p \in Pairs : rel[p] # "none" /\ f \in {p[1], p[2]}

\* What retroLink looks for.
Isolated == {f \in stored \intersect embedded : mention[f] = {} /\ ~Linked(f)}

\* The answers to ORDER BY rank DESC LIMIT limit: rows of one rank in any order.
FirstRows(S, limit, rank) ==
  {s \in UNION {[1..n -> S] : n \in 1..limit} :
     /\ \A i, j \in DOMAIN s : i < j => s[i] # s[j] /\ rank[s[i]] >= rank[s[j]]
     /\ \A f \in S \ {s[i] : i \in DOMAIN s} :
          Len(s) = limit /\ rank[f] <= rank[s[limit]]}

Init ==
  /\ stored = Initial /\ embedded = Initial /\ gone = {} /\ retired = {}
  /\ rel = [p \in Pairs |-> "none"]
  /\ mention = [f \in Frag |-> {}]
  /\ step = [w \in Workers |-> IF w = Reflect THEN "store" ELSE "idle"]
  /\ of = [w \in Workers |-> <<>>]
  /\ todo = [w \in Workers |-> <<>>]
  /\ batch = [w \in Workers |-> <<>>]
  /\ unlinked = {} /\ trouble = 0

----------------------------------------------------------------------------
(* Rows, and what other components do to them.                              *)

MayTrouble == trouble < MaxTrouble /\ trouble' = trouble + 1

\* Fragments are created in the order of Born; those of one millisecond in any.
Insertable(f) ==
  /\ f \notin stored \union gone
  /\ \A g \in Frag : Born[g] < Born[f] => g \in stored \union gone

Remember(f) ==
  /\ Insertable(f) /\ f \notin Reported
  /\ stored' = stored \union {f}
  /\ UNCHANGED <<gone, embedded, graph, work, unlinked, trouble>>

Linking == {w \in Workers \ {Reflect} : step[w] # "idle"}

\* An embedding is written. Only the server's worker is listened to: those that
\* a cycle or a remember without Redis creates report to nobody.
Embed(f, heard) ==
  /\ f \in stored \ embedded
  /\ embedded' = embedded \union {f}
  /\ IF heard
     THEN /\ step[f] = "idle" /\ Cardinality(Linking) < MaxHandlers
          /\ step' = [step EXCEPT ![f] = "read"]
          /\ of' = [of EXCEPT ![f] = <<f>>]
     ELSE UNCHANGED <<step, of>>
  /\ UNCHANGED <<stored, gone, graph, todo, batch, unlinked, trouble>>

\* update with a new content: the embedding is dropped until it is created anew.
Amend(f) ==
  /\ f \in stored \intersect embedded /\ MayTrouble
  /\ embedded' = embedded \ {f}
  /\ UNCHANGED <<stored, gone, graph, work, unlinked>>

\* Mutant: the links stay.
ForgetRow(f) ==
  /\ f \in stored /\ MayTrouble
  /\ stored' = stored \ {f} /\ gone' = gone \union {f}
  /\ embedded' = embedded \ {f} /\ retired' = retired \ {f}
  /\ mention' = [g \in Frag |-> IF g = f THEN {} ELSE mention[g] \ {f}]
  /\ UNCHANGED <<rel, work, unlinked>>

\* delete; FragmentStore has its statements.
Forget(f) ==
  /\ f \in stored /\ MayTrouble
  /\ stored' = stored \ {f} /\ gone' = gone \union {f}
  /\ embedded' = embedded \ {f} /\ retired' = retired \ {f}
  /\ rel' = [p \in Pairs |-> IF f \in {p[1], p[2]} THEN "none" ELSE rel[p]]
  /\ mention' = [g \in Frag |-> IF g = f THEN {} ELSE mention[g] \ {f}]
  /\ UNCHANGED <<work, unlinked>>

----------------------------------------------------------------------------
(* linkFragment and retroLink.                                              *)

Goto(w, s) == step' = [step EXCEPT ![w] = s] /\ UNCHANGED <<of, todo, batch>>

\* w has no fragment left to link, or goes on with the next of its batch.
Done(w) ==
  /\ todo' = [todo EXCEPT ![w] = <<>>]
  /\ IF batch[w] = <<>>
     THEN /\ step' = [step EXCEPT ![w] = "idle"] /\ of' = [of EXCEPT ![w] = <<>>]
          /\ UNCHANGED batch
     ELSE /\ step' = [step EXCEPT ![w] = "read"]
          /\ of' = [of EXCEPT ![w] = <<Head(batch[w])>>]
          /\ batch' = [batch EXCEPT ![w] = Tail(@)]

\* The next link of w, or the end of them. reflect asks first (_wouldCreateCycle).
Onward(w) ==
  IF Len(todo[w]) > 1
  THEN /\ todo' = [todo EXCEPT ![w] = Tail(@)]
       /\ step' = [step EXCEPT ![w] = IF w = Reflect THEN "check" ELSE "insert"]
       /\ UNCHANGED <<of, batch>>
  ELSE Done(w)

\* Mutant: the oldest first.
RetroStartOldest(w) ==
  /\ w \in Passes /\ step[w] = "idle"
  /\ \E s \in FirstRows(Isolated, BatchSize, [f \in Frag |-> 0 - Born[f]]) :
       /\ of' = [of EXCEPT ![w] = <<Head(s)>>]
       /\ batch' = [batch EXCEPT ![w] = Tail(s)]
  /\ step' = [step EXCEPT ![w] = "read"]
  /\ UNCHANGED <<rows, graph, todo, unlinked, trouble>>

RetroStart(w) ==
  /\ w \in Passes /\ step[w] = "idle"
  /\ \E s \in FirstRows(Isolated, BatchSize, Born) :
       /\ of' = [of EXCEPT ![w] = <<Head(s)>>]
       /\ batch' = [batch EXCEPT ![w] = Tail(s)]
  /\ step' = [step EXCEPT ![w] = "read"]
  /\ UNCHANGED <<rows, graph, todo, unlinked, trouble>>

\* Neither valid_to nor is_anchor keeps a row from being a candidate.
Candidates(f) ==
  IF f \in embedded
  THEN {g \in (stored \intersect embedded) \ {f} : Close[f][g] > 0} ELSE {}

\* Mutant: two fragments of different times replace each other.
ReplacesOther(f, g) == Kind[f] = Kind[g] /\ Close[f][g] = 2 /\ Born[f] # Born[g]

Replaces(f, g) == Kind[f] = Kind[g] /\ Close[f][g] = 2 /\ Born[f] > Born[g]

RelationOf(f, g) ==
  IF Replaces(f, g) THEN "superseded_by"
  ELSE IF Kind[f] = "error" /\ Kind[g] = "error" /\ f \in Resolved
       THEN "resolved_by" ELSE "related"

\* Two reads: of the row, retired or not, and of its candidates; a row that goes
\* in between has none.
FindCandidates(w) ==
  /\ step[w] = "read"
  /\ LET f == of[w][1] IN
     IF Candidates(f) = {} THEN Done(w)
     ELSE \E s \in FirstRows(Candidates(f), MaxCandidates, Close[f]) :
            /\ todo' = [todo EXCEPT ![w] =
                 [n \in DOMAIN s |-> Link(s[n], f, RelationOf(f, s[n]))]]
            /\ step' = [step EXCEPT ![w] = "insert"]
            /\ UNCHANGED <<of, batch>>
  /\ UNCHANGED <<rows, graph, unlinked, trouble>>

----------------------------------------------------------------------------
(* reflect: the rows of the session, then the links between them.           *)

ReflectInsert ==
  /\ step[Reflect] = "store"
  /\ \E n \in DOMAIN InOrder :
       /\ Insertable(InOrder[n])
       /\ \A k \in 1..(n - 1) : InOrder[k] \in stored \union gone
       /\ stored' = stored \union {InOrder[n]}
  /\ UNCHANGED <<gone, embedded, graph, work, unlinked, trouble>>

\* All pairs of one sequence with another, the first index outermost.
Product(s, t, r) ==
  [n \in 1..(Len(s) * Len(t)) |->
     Link(s[((n - 1) \div Len(t)) + 1], t[((n - 1) % Len(t)) + 1], r)]

SessionLinks ==
  Product(Session["error"], Session["decision"], "caused_by")
    \o Product(Session["procedure"], Session["error"], "resolved_by")

ReflectLink ==
  /\ step[Reflect] = "store" /\ SessionLinks # <<>>
  /\ Reported \subseteq stored \union gone
  /\ todo' = [todo EXCEPT ![Reflect] = SessionLinks]
  /\ step' = [step EXCEPT ![Reflect] = "check"]
  /\ UNCHANGED <<rows, graph, of, batch, unlinked, trouble>>

\* What is at most so many hops away from f, where next leads.
Wider(next, S) == UNION {{g} \union next[g] : g \in S}

Ahead(next, f, hops) ==
  LET within[n \in 1..hops] == IF n = 1 THEN next[f] ELSE Wider(next, within[n - 1])
  IN  within[hops]

\* isReachable, which follows linked_to from row to row. createLink mentions both
\* ends, so a path leads both ways.
Reached(f) == Ahead(mention, f, MaxHops)

Hand(w) == Head(todo[w])

\* Mutant: the question is whether the two are apart.
ReflectCheckNot ==
  /\ step[Reflect] = "check"
  /\ IF Hand(Reflect).from \notin Reached(Hand(Reflect).to)
     THEN Onward(Reflect) ELSE Goto(Reflect, "insert")
  /\ UNCHANGED <<rows, graph, unlinked, trouble>>

ReflectCheck ==
  /\ step[Reflect] = "check"
  /\ IF Hand(Reflect).from \in Reached(Hand(Reflect).to)
     THEN Onward(Reflect) ELSE Goto(Reflect, "insert")
  /\ UNCHANGED <<rows, graph, unlinked, trouble>>

----------------------------------------------------------------------------
(* createLink, for all of them: three statements.                           *)

Lose(w) ==
  unlinked' = unlinked \union
    {<<Hand(x).from, Hand(x).to>> : x \in {w} \intersect {Reflect}}

\* A row that is gone makes the insert fail: foreign keys.
InsertLink(w) ==
  /\ step[w] = "insert"
  /\ LET l == Hand(w) IN
     IF {l.from, l.to} \subseteq stored
     THEN /\ rel' = [rel EXCEPT ![<<l.from, l.to>>] = l.rel]
          /\ Goto(w, "from") /\ UNCHANGED unlinked
     ELSE Onward(w) /\ Lose(w) /\ UNCHANGED rel
  /\ UNCHANGED <<rows, mention, retired, trouble>>

Mention(f, g) ==
  mention' = [mention EXCEPT ![f] = IF f \in stored THEN @ \union {g} ELSE @]

MentionFrom(w) ==
  /\ step[w] = "from"
  /\ Mention(Hand(w).from, Hand(w).to)
  /\ Goto(w, "to")
  /\ UNCHANGED <<rows, rel, retired, unlinked, trouble>>

MentionTo(w) ==
  /\ step[w] = "to"
  /\ Mention(Hand(w).to, Hand(w).from)
  /\ IF Hand(w).rel = "superseded_by" THEN Goto(w, "retire") ELSE Onward(w)
  /\ UNCHANGED <<rows, rel, retired, unlinked, trouble>>

\* The row that the newest one replaces gets a valid_to, an anchor too.
Retire(w) ==
  /\ step[w] = "retire"
  /\ retired' = retired \union ({Hand(w).from} \intersect stored)
  /\ Onward(w)
  /\ UNCHANGED <<rows, rel, mention, unlinked, trouble>>

----------------------------------------------------------------------------
(* Failures.                                                                *)

Trouble == MayTrouble /\ UNCHANGED <<rows, graph>>

\* One of the two reads fails: the handler logs it, a cycle ends.
FailRead(w) ==
  /\ step[w] = "read" /\ Trouble
  /\ step' = [step EXCEPT ![w] = "idle"] /\ of' = [of EXCEPT ![w] = <<>>]
  /\ batch' = [batch EXCEPT ![w] = <<>>]
  /\ UNCHANGED <<todo, unlinked>>

\* The link is made unchecked.
FailCheck ==
  /\ step[Reflect] = "check" /\ Trouble
  /\ Goto(Reflect, "insert") /\ UNCHANGED unlinked

\* Mutant: the old row is retired though its link failed.
FailAndRetire(w) ==
  /\ step[w] \in {"insert", "from", "to", "retire"} /\ Trouble
  /\ IF step[w] # "retire" /\ Hand(w).rel = "superseded_by"
     THEN Goto(w, "retire") /\ UNCHANGED unlinked
     ELSE Onward(w) /\ Lose(w)

\* A failure is swallowed, and the rest of this link with it: what a statement
\* before it wrote stays.
FailLink(w) ==
  /\ step[w] \in {"insert", "from", "to", "retire"} /\ Trouble
  /\ Onward(w) /\ Lose(w)

Restart ==
  /\ Trouble
  /\ step' = [w \in Workers |-> "idle"] /\ of' = [w \in Workers |-> <<>>]
  /\ todo' = of' /\ batch' = of'
  /\ unlinked' = unlinked \union
       (LET left == IF step[Reflect] = "store" THEN SessionLinks ELSE todo[Reflect]
        IN {<<left[n].from, left[n].to>> : n \in DOMAIN left})

----------------------------------------------------------------------------
Run(w) == \/ RetroStart(w) \/ FindCandidates(w) \/ InsertLink(w)
          \/ MentionFrom(w) \/ MentionTo(w) \/ Retire(w)

Next ==
  \/ \E f \in Frag : \/ Remember(f) \/ Amend(f) \/ Forget(f)
                      \/ \E heard \in BOOLEAN : Embed(f, heard)
  \/ ReflectInsert \/ ReflectLink \/ ReflectCheck
  \/ \E w \in Workers : Run(w) \/ FailRead(w) \/ FailLink(w)
  \/ FailCheck \/ Restart

Spec == Init /\ [][Next]_vars

\* Statements come back, and cycles go on being started: some handler goes on
\* while there is one, and so do each pass and reflect.
Fairness ==
  /\ WF_vars(\E f \in Frag : Run(f))
  /\ \A w \in Passes : WF_vars(Run(w))
  /\ WF_vars(Run(Reflect) \/ ReflectCheck)

FairSpec == Spec /\ Fairness
----------------------------------------------------------------------------
(* Properties.                                                              *)

\* Types; and the foreign keys of fragment_links: a link joins two rows that
\* stand, whatever is deleted while it is drawn.
TypeOK ==
  /\ stored \subseteq Frag /\ gone \subseteq Frag \ stored
  /\ embedded \subseteq stored /\ retired \subseteq stored
  /\ rel \in [Pairs -> Rels \union {"none"}]
  /\ \A p \in Pairs : rel[p] # "none" => {p[1], p[2]} \subseteq stored
  /\ mention \in [Frag -> SUBSET Frag]
  /\ step \in [Workers -> {"idle", "store", "read", "check", "insert",
                           "from", "to", "retire"}]
  /\ of \in [Workers -> {<<>>} \union {<<f>> : f \in Frag}]
  /\ todo \in [Workers -> Seq(Links)] /\ batch \in [Workers -> Seq(Frag)]
  /\ unlinked \subseteq Pairs
  /\ trouble \in 0..MaxTrouble

\* A fragment that linking has retired still leads to the one that replaced it,
\* unless that one was deleted: the link is there before the row is retired,
\* a failing link retires nothing, and no later link takes its place.
RetiredLeadsOn ==
  \A f \in retired : \E g \in Frag :
    (g \in gone /\ Replaces(g, f)) \/ rel[<<f, g>>] = "superseded_by"

\* Linking never retires all that was known: from a retired fragment the links
\* of superseded_by lead to one that is not retired, or to a deleted one.
Successors(f) == {g \in Frag : rel[<<f, g>>] = "superseded_by"}

SomeoneStands ==
  gone = {} => \A f \in retired :
    Ahead([g \in Frag |-> Successors(g)], f, Cardinality(Frag)) \ retired # {}

\* After reflect each error of the session is joined to each decision and each
\* procedure to each error, directly or by way of others: a pair is passed over
\* only where a path is. Failures and deletions take links away.
SessionJoined ==
  step[Reflect] = "idle" /\ gone = {} =>
    \A n \in DOMAIN SessionLinks :
      LET l == SessionLinks[n] IN
      <<l.from, l.to>> \in unlinked \/ l.from \in Ahead(mention, l.to, Cardinality(Frag))

\* Again and again there is a moment when every fragment that has a close one is
\* linked, by the event of its embedding or, where that was lost, by a pass; but
\* for those behind as many newer ones without a link as a pass takes, which stay
\* first in its order as long as they find no neighbour.
HasNeighbour(f) == f \in embedded /\ Candidates(f) # {}

Crowded(f) ==
  Cardinality({g \in Isolated \ {f} : Born[g] >= Born[f]}) >= BatchSize

EventuallyLinked ==
  []<>(\A f \in Isolated : HasNeighbour(f) => Crowded(f))

\* What the comment on isReachable says: only the forward direction is followed,
\* so a pair is passed over only where its link would close a cycle of links. The
\* arrays name both ends of every link (further configuration).
Forward(f) ==
  Ahead([g \in Frag |-> {h \in Frag : rel[<<g, h>>] # "none"}], f, Cardinality(Frag))

PassedOverForCycle ==
  [][ReflectCheck /\ step'[Reflect] # "insert"
       => Hand(Reflect).from \in Forward(Hand(Reflect).to)]_vars
=============================================================================
