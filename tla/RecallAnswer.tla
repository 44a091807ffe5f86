---------------------------- MODULE RecallAnswer ----------------------------
(***************************************************************************)
(* What a recall answers and in which order: the filters on the index, the *)
(* fusion with the table and the vectors, rank, token budget, the filter on*)
(* valid_to (lib/memory/FragmentSearch.js), linked fragments, threshold and*)
(* pages (manager/MemoryQueryService.js), and the context that is put      *)
(* together from recalls by type.                                          *)
(*                                                                         *)
(* A recall is one step here, but for the cache fill behind it, which is   *)
(* not awaited; FragmentRecall interleaves its reads with the writers.     *)
(* The weights of the ranking are whole numbers; what ranks alike comes in *)
(* any order. The limits of the queries, more than there are fragments,    *)
(* are left out; so are the anchor and working-memory sections of the      *)
(* context.                                                                *)
(***************************************************************************)
EXTENDS Integers, FiniteSets, Sequences

\* The module's definitions have names of their own, so that it can be extended
\* together with WorkingMemory where both are proved about.
CONSTANTS
  Frag,
  Kind, Importance, Born, Length, \* of each fragment: type, importance, created_at, size
  Matches,     \* the fragments that have the keywords asked for
  Alike,       \* Alike[f]: similarity to the text asked for, 0 below the minimum
  Proximity,   \* Proximity[d + 1]: the weight of a distance in time of d
  Unindexed,   \* fragments that may have been stored while Redis was away
  Superseded,  \* fragments that may be superseded from the start
  Start,       \* the time it is then
  Queries,     \* recalls that clients make
  Types,       \* a sequence: the types of a context, each once
  Budget,      \* tokenBudget of a recall, in the unit of Length
  CoreBudget,  \* budget of the core section of a context
  MaxCore,     \* maxCoreFragments
  Slots,       \* typeSlots, for every type
  PageSize, RecentCount,
  MaxNow,      \* bound: the time that passes
  MaxOps,      \* bound: writes
  MaxRecalls   \* bound: first pages and contexts asked for

Kinds == {Kind[f] : f \in Frag}

\* keywords, type and text of a recall, its anchorTime if it gives one (as <<t>>),
\* includeLinks, threshold (0: none).
Asked == [kw : BOOLEAN, type : Kinds \union {"any"}, text : BOOLEAN,
          at : {<<>>} \union {<<t>> : t \in 0..(Start + MaxNow)}, links : BOOLEAN, least : Nat]

AnswerConstants ==
  /\ IsFiniteSet(Frag) /\ Born \in [Frag -> Nat] /\ Importance \in [Frag -> Nat]
  /\ Length \in [Frag -> Nat \ {0}] /\ Alike \in [Frag -> Nat]
  /\ {Matches, Unindexed, Superseded} \subseteq SUBSET Frag
  /\ Queries \subseteq Asked /\ Queries # {}
  /\ Types \in Seq(Kinds) /\ \A m, n \in DOMAIN Types : Types[m] = Types[n] => m = n
  /\ \A f \in Frag : Born[f] <= Start
  /\ Proximity \in Seq(Nat) /\ Start + MaxNow < Len(Proximity)
  /\ {Start, Budget, CoreBudget, MaxCore, Slots, RecentCount, MaxNow, MaxOps, MaxRecalls}
       \subseteq Nat
  /\ PageSize \in Nat \ {0}

ASSUME AnswerAssumption == AnswerConstants

VARIABLES
  stored, retired, linked,
  indexed,  \* the entries of the Redis sets
  hot,      \* hot[f]: the copy in the hot cache, or <<>>
  fill,     \* copies that recalls still write to the cache
  up, now,
  paging,   \* the recall a client pages through
  kept,     \* kept[n]: the recall for the n-th type of the context in hand
  core,     \* the last context's core section, by type
  ops, recalls

answerVars == <<stored, retired, linked, indexed, hot, fill, up, now, paging, kept, core,
                ops, recalls>>

Copy(f, s) == [id |-> f, sim |-> s, retired |-> f \in retired]
Copies == {c \in [id : Frag, sim : {0} \union {Alike[f] : f \in Frag}, retired : BOOLEAN] :
             c.sim \in {0, Alike[c.id]}}
IdsOf(S) == {c.id : c \in S}
Elements(s) == {s[n] : n \in DOMAIN s}

\* Sums(w, N)[n]: the sum of the first n of w.
Sums(w, N) == LET sum[n \in 0..N] == IF n = 0 THEN 0 ELSE sum[n - 1] + w[n] IN sum

\* TotalSize(s)[n]: the size of the first n of s.
TotalSize(s) == Sums([n \in DOMAIN s |-> Length[s[n].id]], Len(s))

Distance(t, u) == IF t > u THEN t - u ELSE u - t

\* anchorTime: the one asked for, or the present.
Weight(c, q, t) ==
  4 * Importance[c.id] + 3 * c.sim
    + Proximity[Distance(IF q.at = <<>> THEN t ELSE q.at[1], Born[c.id]) + 1]

Score(c, q) == Weight(c, q, now)

\* No two fragments rank alike. (PagesShowAll is about such; what ranks alike comes in
\* the order in which index, cache and table gave it.)
Untied ==
  \A q \in Queries, t \in Start..(Start + MaxNow), c, d \in Copies :
    c.id # d.id => Weight(c, q, t) # Weight(d, q, t)

\* The orders of S by rank.
Orders(S, rank) ==
  {s \in [1..Cardinality(S) -> S] :
     Elements(s) = S /\ \A i, j \in DOMAIN s : i < j => rank[s[i]] >= rank[s[j]]}

Ranked(S, q) == Orders(S, [c \in S |-> Score(c, q)])

NoPaging ==
  [open |-> FALSE, q |-> CHOOSE q \in Queries : TRUE, offset |-> 0, shown |-> {},
   twice |-> {}, all |-> {}, steady |-> FALSE, aged |-> FALSE]

AnswerInit ==
  /\ stored = Frag /\ retired \in SUBSET Superseded /\ linked = {}
  /\ \E away \in SUBSET Unindexed : indexed = Frag \ away
  /\ hot = [f \in Frag |-> <<>>] /\ fill = {} /\ up = TRUE /\ now = Start
  /\ paging = NoPaging /\ kept = <<>> /\ core = <<>>
  /\ ops = 0 /\ recalls = 0

----------------------------------------------------------------------------
(* FragmentSearch.search                                                    *)

\* The most recent of the index: the first RecentCount by time.
Recent ==
  {f \in indexed : Cardinality({g \in indexed : Born[g] > Born[f]}) < RecentCount}

FilterSets(q) ==
  (IF q.kw THEN {indexed \intersect Matches} ELSE {})
    \union (IF q.type = "any" THEN {} ELSE {{f \in indexed : Kind[f] = q.type}})

\* Mutant: the union of the sets.
SearchL1Any(q) ==
  LET sets == FilterSets(q) \ {{}}
  IN  IF ~up THEN {} ELSE IF sets = {} THEN Recent ELSE UNION sets

\* _searchL1: the intersection of the sets that are not empty, or the most recent
\* fragments where none is.
SearchL1(q) ==
  LET sets == FilterSets(q) \ {{}}
  IN  IF ~up THEN {}
      ELSE IF sets = {} THEN Recent
      ELSE {f \in UNION sets : \A s \in sets : f \in s}

Fits(f, q) == f \in Matches /\ q.type \in {"any", Kind[f]}

\* Mutant: the table is asked only where the index knows nothing.
SearchTableLast(q) ==
  {f \in stored \ retired : q.kw /\ SearchL1(q) = {} /\ Fits(f, q)}

\* searchByKeywords
SearchTable(q) == {f \in stored \ retired : q.kw /\ Fits(f, q)}

\* Rows of the table, and those that the index has and the cache has not, which
\* getByIds fetches without any filter.
SearchL2(q, missed) ==
  {Copy(f, 0) : f \in SearchTable(q) \union (missed \intersect stored)}

SearchL3 == {Copy(f, Alike[f]) : f \in {g \in stored \ retired : Alike[g] > 0}}

\* _deduplicate: the row of the table, or a copy that has a similarity.
Deduplicated(l2, cached) ==
  {c \in l2 : \A d \in cached : d.id = c.id => d.sim <= c.sim}
    \union {c \in cached : \A d \in l2 : d.id = c.id => c.sim > d.sim}

\* mergeRRF: an id that comes first from the index gets an entry without content,
\* to which the copies of it only add score; search drops what has no content.
\* Its order is not used: what has no similarity ranks by less than 1/20.
Merged(ids, l2, l3) ==
  {c \in l2 \union l3 : c.id \notin ids /\ (c \in l2 \/ c.id \notin {d.id : d \in l2})}

Candidates(q) ==
  LET ids == SearchL1(q)
      cached == {hot[f][1] : f \in {g \in ids : hot[g] # <<>>}}
      l2 == SearchL2(q, ids \ {c.id : c \in cached})
  IN  IF q.text THEN Merged(ids, cached \union l2, SearchL3)
      ELSE Deduplicated(l2, cached)

\* The longest beginning that the budget holds.
Trimmed(s) == {s[n] : n \in {m \in DOMAIN s : TotalSize(s)[m] <= Budget}}

\* What a search may find. The budget is spent first, superseded copies are dropped
\* afterwards.
Searched(q) == {{c \in Trimmed(s) : ~c.retired} : s \in Ranked(Candidates(q), q)}

----------------------------------------------------------------------------
(* MemoryQueryService.recall                                                *)

\* getLinkedFragments: the other ends of links, whatever their valid_to.
LinkedTo(ids) == {g \in stored : \E f \in ids : <<f, g>> \in linked}

\* With the linked ones, and above the threshold.
Complete(found, q) ==
  LET more == IF q.links THEN LinkedTo(IdsOf(found)) \ IdsOf(found) ELSE {}
  IN  {c \in found \union {Copy(f, 0) : f \in more} : c.sim = 0 \/ c.sim >= q.least}

\* What may be answered where that was found.
Answers(found, q) == Ranked(Complete(found, q), q)

Page(s, offset) ==
  {s[n].id : n \in {m \in DOMAIN s : offset < m /\ m <= offset + PageSize}}

\* _cacheFragments, in the background; the linked ones are not cached.
Fill(found) == fill' = fill \union found

\* Once the copy c arrives, a recall by q reads the same as before: it is what the
\* cache has already, or what the table gives.
Awaited(c, q) ==
  c.id \in SearchL1(q) =>
    hot[c.id] = <<c>> \/ (hot[c.id] = <<>> /\ c.id \in stored /\ c = Copy(c.id, 0))

FirstPage(q) ==
  /\ recalls < MaxRecalls /\ recalls' = recalls + 1
  /\ \E found \in Searched(q) : \E s \in Answers(found, q) :
       /\ paging' = [open |-> PageSize < Len(s), q |-> q, offset |-> PageSize,
                     shown |-> Page(s, 0), twice |-> {}, all |-> IdsOf(Elements(s)),
                     steady |-> q.text \/ \A c \in fill : Awaited(c, q), aged |-> FALSE]
       /\ Fill(found)
  /\ UNCHANGED <<stored, retired, linked, indexed, hot, up, now, kept, core, ops>>

\* Mutant: the cursor skips one.
NextOffsetPast == paging.offset + PageSize + 1

\* What the cursor says; its anchorTime is handed on and not read.
NextOffset == paging.offset + PageSize

\* The whole recall is done again for every page.
NextPage ==
  /\ paging.open
  /\ \E found \in Searched(paging.q) : \E s \in Answers(found, paging.q) :
       LET page == Page(s, paging.offset) IN
       /\ paging' = [paging EXCEPT
            !.open = paging.offset + PageSize < Len(s),
            !.offset = NextOffset,
            !.shown = @ \union page,
            !.twice = @ \union (paging.shown \intersect page)]
       /\ Fill(found)
  /\ UNCHANGED <<stored, retired, linked, indexed, hot, up, now, kept, core, ops, recalls>>

----------------------------------------------------------------------------
(* MemoryQueryService.context                                               *)

ByType(k) == [kw |-> FALSE, type |-> k, text |-> FALSE, at |-> <<>>, links |-> TRUE,
              least |-> 0]

\* One recall for each type, one after the other.
ContextRecall ==
  /\ Len(kept) < Len(Types)
  /\ IF kept = <<>> THEN recalls < MaxRecalls /\ recalls' = recalls + 1
     ELSE UNCHANGED recalls
  /\ LET q == ByType(Types[Len(kept) + 1]) IN
     \E found \in Searched(q) : \E s \in Answers(found, q) :
       kept' = Append(kept, s) /\ Fill(found)
  /\ UNCHANGED <<stored, retired, linked, indexed, hot, up, now, paging, core, ops>>

\* The first of each recall has its place; of the others each fragment once, the
\* most important first.
Tops == {n \in DOMAIN kept : kept[n] # <<>>}
TopIds == {kept[n][1].id : n \in Tops}
Others == UNION {{kept[n][i].id : i \in DOMAIN kept[n] \ {1}} : n \in Tops}

\* Mutant: what is a top already is taken again.
ExtrasAgain == Orders(Others, Importance)

Extras == Orders(Others \ TopIds, Importance)

TopSize(n) == IF kept[n] = <<>> THEN 0 ELSE Length[kept[n][1].id]
TopSizes == Sums([n \in DOMAIN kept |-> TopSize(n)], Len(kept))[Len(kept)]

NothingPlaced ==
  [used |-> TopSizes, total |-> Cardinality(Tops), placed |-> <<>>, full |-> FALSE,
   count |-> [k \in Kinds |-> Cardinality({n \in Tops : Types[n] = k})]]

\* One round of the loop over extras. A fragment that the budget does not hold is
\* cut to what is left, unless that is too little, and is the last.
Place(acc, f) ==
  LET k == Kind[f]
      left == CoreBudget - acc.used
      add == [acc EXCEPT !.placed = Append(@, f), !.total = @ + 1, !.count[k] = @ + 1]
  IN  IF acc.full \/ acc.total >= MaxCore THEN [acc EXCEPT !.full = TRUE]
      ELSE IF acc.count[k] >= Slots THEN acc
      ELSE IF Length[f] <= left THEN [add EXCEPT !.used = @ + Length[f]]
      ELSE IF left > 0 THEN [add EXCEPT !.used = CoreBudget, !.full = TRUE]
      ELSE [acc EXCEPT !.full = TRUE]

Placing(s) ==
  LET acc[n \in 0..Len(s)] == IF n = 0 THEN NothingPlaced ELSE Place(acc[n - 1], s[n])
  IN  acc

\* Under each type asked for come its top and what is placed of it; what is placed
\* of others is counted and not shown.
ContextEnd ==
  /\ kept # <<>> /\ Len(kept) = Len(Types)
  /\ \E s \in Extras :
       LET acc == Placing(s)[Len(s)] IN
       core' = [used |-> acc.used, total |-> acc.total, placed |-> acc.placed,
                tops |-> [n \in Tops |-> kept[n][1].id]]
  /\ kept' = <<>>
  /\ UNCHANGED <<stored, retired, linked, indexed, hot, fill, up, now, paging, ops, recalls>>

----------------------------------------------------------------------------
(* What happens beside the recalls.                                         *)

Disturbed == paging' = [paging EXCEPT !.steady = FALSE]

Write ==
  /\ ops < MaxOps /\ ops' = ops + 1 /\ Disturbed
  /\ UNCHANGED <<fill, up, now, kept, core, recalls>>

\* Supersession, by a client, the graph linker or the contradiction stage: neither
\* index nor cache hears of it.
Retire(f) ==
  /\ f \in stored \ retired /\ Write
  /\ retired' = retired \union {f}
  /\ UNCHANGED <<stored, linked, indexed, hot>>

CreateLink(f, g) ==
  /\ f # g /\ {f, g} \subseteq stored /\ <<f, g>> \notin linked /\ Write
  /\ linked' = linked \union {<<f, g>>}
  /\ UNCHANGED <<stored, retired, indexed, hot>>

Forget(f) ==
  /\ f \in stored /\ Write
  /\ stored' = stored \ {f} /\ retired' = retired \ {f}
  /\ linked' = {l \in linked : f \notin {l[1], l[2]}}
  /\ indexed' = IF up THEN indexed \ {f} ELSE indexed
  /\ hot' = IF up THEN [hot EXCEPT ![f] = <<>>] ELSE hot

CacheFill(c) ==
  /\ fill' = fill \ {c}
  /\ hot' = IF up THEN [hot EXCEPT ![c.id] = <<c>>] ELSE hot
  /\ UNCHANGED <<stored, retired, linked, indexed, up, now, paging, kept, core, ops, recalls>>

Expire(f) ==
  /\ hot[f] # <<>> /\ hot' = [hot EXCEPT ![f] = <<>>] /\ Disturbed
  /\ UNCHANGED <<stored, retired, linked, indexed, fill, up, now, kept, core, ops, recalls>>

Outage ==
  /\ IF up THEN ops < MaxOps /\ ops' = ops + 1 ELSE UNCHANGED ops
  /\ up' = ~up /\ Disturbed
  /\ UNCHANGED <<stored, retired, linked, indexed, hot, fill, now, kept, core, recalls>>

\* Time enough for the weights of proximity to change.
Tick ==
  /\ now < Start + MaxNow /\ now' = now + 1
  /\ paging' = [paging EXCEPT !.aged = TRUE]
  /\ UNCHANGED <<stored, retired, linked, indexed, hot, fill, up, kept, core, ops, recalls>>

AnswerNext ==
  \/ \E q \in Queries : FirstPage(q)
  \/ NextPage \/ ContextRecall \/ ContextEnd
  \/ \E f \in Frag : Retire(f) \/ Forget(f) \/ Expire(f) \/ \E g \in Frag : CreateLink(f, g)
  \/ \E c \in fill : CacheFill(c)
  \/ Outage \/ Tick

AnswerSpec == AnswerInit /\ [][AnswerNext]_answerVars

----------------------------------------------------------------------------
(* Properties.                                                              *)

AnswerTypeOK ==
  /\ stored \subseteq Frag /\ retired \subseteq stored /\ linked \subseteq stored \X stored
  /\ indexed \subseteq Frag
  /\ \A f \in Frag : hot[f] \in {<<>>} \union {<<c>> : c \in {d \in Copies : d.id = f}}
  /\ fill \subseteq Copies /\ up \in BOOLEAN /\ now \in Start..(Start + MaxNow)
  /\ paging.q \in Queries /\ {paging.open, paging.steady, paging.aged} \subseteq BOOLEAN
  /\ paging.offset \in Nat /\ paging.twice \subseteq paging.shown /\ paging.shown \subseteq Frag
  /\ \A n \in DOMAIN kept : kept[n] \in Seq(Copies)
  /\ core # <<>> => core.placed \in Seq(Frag) /\ DOMAIN core.tops \subseteq DOMAIN Types
  /\ ops \in 0..MaxOps /\ recalls \in 0..MaxRecalls

\* Though every page is a recall of its own, through a cache that the pages before
\* it have filled, paging to the end shows each fragment of the answer once, as
\* long as nothing else changes.
PagesShowAll ==
  ~paging.open /\ paging.steady /\ ~paging.aged =>
    paging.shown = paging.all /\ paging.twice = {}

\* A recall by keywords finds every current fragment that fits, whatever the index
\* and the cache have or lack of it, unless others that rank no lower use up the
\* budget. Superseded ones do, too.
MatchesFound ==
  \A q \in {r \in Queries : r.kw /\ ~r.text} : \A f \in stored \ retired :
    Fits(f, q) => \E c \in Candidates(q) :
      /\ c.id = f
      /\ \A s \in Ranked(Candidates(q), q) :
           \/ c \in Trimmed(s) /\ ~c.retired
           \/ \E m \in DOMAIN s : /\ Budget < TotalSize(s)[m]
                                  /\ \A i \in 1..m : Score(s[i], q) >= Score(c, q)

\* What a recall without a text finds has the type and the keywords asked for,
\* unless the index has nothing at all under one of them: that one is then not
\* asked for, and where none is left the most recent fragments are the answer.
StrangersFromFallback ==
  \A q \in {r \in Queries : ~r.text} : \A f \in IdsOf(UNION Searched(q)) :
    \/ (q.kw => f \in Matches) /\ q.type \in {"any", Kind[f]}
    \/ {} \in FilterSets(q)

AsTop(f) == Cardinality({n \in DOMAIN core.tops : core.tops[n] = f})

AsExtra(f) ==
  Cardinality({p \in (DOMAIN Types) \X (DOMAIN core.placed) :
                 Types[p[1]] = Kind[f] /\ core.placed[p[2]] = f})

\* The context shows a fragment once, but for one that is the first of several
\* recalls; and fills neither budget nor places further than those firsts do.
ContextSound ==
  core # <<>> =>
    /\ \A f \in Frag : AsExtra(f) = 0 \/ (AsExtra(f) = 1 /\ AsTop(f) = 0)
    /\ core.placed # <<>> => core.used <= CoreBudget /\ core.total <= MaxCore
    /\ core.total = Len(core.placed) + Cardinality(DOMAIN core.tops)

\* The state that recalls leave behind has its types, and the context is sound.
AnswersSound == AnswerTypeOK /\ ContextSound

----------------------------------------------------------------------------
(* What documents, comments and tests say and the code does not do.         *)

\* hybrid-search.test.js: a fragment that index, table and vectors all find comes
\* first. It is dropped.
TextKeepsIndexed ==
  [][\A q \in Queries : FirstPage(q) /\ q.text =>
       \A f \in (SearchL1(q) \intersect stored) \ retired :
         (\A g \in Frag \ {f} : Alike[f] > Alike[g] /\ Importance[f] > Importance[g])
           => f \in paging'.all]_answerVars

\* README.simple.md: tokenBudget is the last cap on what a recall returns.
BudgetIsFinal ==
  [][\A q \in Queries : FirstPage(q) =>
       \A s \in Orders(paging'.all, Importance) :
         TotalSize([n \in DOMAIN s |-> Copy(s[n], 0)])[Len(s)] <= Budget]_answerVars

\* tools/memory.js: results of index and table are not held against the threshold.
ThresholdForVectors ==
  [][\A q \in Queries : FirstPage(q) /\ ~q.text =>
       \E found \in Searched(q) :
         paging'.all = IdsOf(Complete(found, [q EXCEPT !.least = 0]))]_answerVars

\* README.simple.md: asOf returns only what was valid at that time.
AsOfThen ==
  [][\A q \in Queries : FirstPage(q) /\ q.at # <<>> =>
       \A f \in paging'.all : Born[f] <= q.at[1]]_answerVars

\* context-pagination.test.js: each type that has fragments is sure of one place.
TypesServed ==
  core # <<>> => \A n \in DOMAIN core.tops :
    \/ Kind[core.tops[n]] = Types[n]
    \/ \E i \in DOMAIN core.placed : Kind[core.placed[i]] = Types[n]

\* context-pagination.test.js: the cursor keeps the anchorTime of the first page.
PagesAnchored ==
  ~paging.open /\ paging.steady => paging.shown = paging.all /\ paging.twice = {}
=============================================================================
