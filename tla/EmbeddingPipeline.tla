-------------------------- MODULE EmbeddingPipeline -------------------------
(***************************************************************************)
(* How a fragment gets its embedding: the Redis queue that remember and    *)
(* reflect fill, the worker that empties it (lib/memory/EmbeddingWorker.js)*)
(* the orphan pass of a consolidation cycle (consolidator/LinkingStage.js),*)
(* beside amend and forget.                                                *)
(*                                                                         *)
(* Abstracted: the content of a fragment is the number of its version, an  *)
(* embedding the version it was computed from; importance is a fixed rank; *)
(* the event that starts the graph linker is left out.                     *)
(***************************************************************************)
EXTENDS Integers, FiniteSets, Sequences, SequencesExt

CONSTANTS
  Frags,
  Rank,         \* importance, the order in which orphans are taken
  Poison,       \* fragments whose embedding always fails
  Main,         \* the worker of the server
  Cycles,       \* workers of consolidation cycles
  None,
  BatchSize, RetryLimit,
  OrphanLimit,  \* 5 in LinkingStage
  Offered,      \* bound: the events beside remember that happen
  MaxVersion,   \* bound: versions of a fragment
  MaxQueue,     \* bound: entries in the queue
  MaxTrouble    \* bound: failing calls and restarts

Workers == {Main} \union Cycles

Rows == [id : Frags, version : 1..MaxVersion]

ASSUME EmbeddingAssumption ==
  /\ Rank \in [Frags -> Nat] /\ Poison \subseteq Frags
  /\ None \notin Rows /\ Main \notin Cycles
  /\ \A n \in {BatchSize, RetryLimit, OrphanLimit, MaxVersion, MaxQueue} :
       n \in Nat \ {0}
  /\ MaxTrouble \in Nat

VARIABLES
  row,      \* row[f]: version of the content; 0: never stored, -1: deleted
  vec,      \* vec[f]: version embedded, 0 for NULL
  queue,    \* the Redis list, the right end is popped
  dead,     \* ids in the dead letter list
  topush,   \* ids remember or reflect still has to push
  pc,       \* per worker: next step
  ids,      \* ids[w]: popped, not looked up yet
  rows,     \* rows[w]: rows of the batch left to embed
  cur,      \* cur[w]: row in hand
  tries,    \* tries[w]: failed attempts at it
  overtaken,\* history: fragments amended while a worker held an older row
  adrift,   \* history: fragments without embedding whose queue entry is gone
  trouble

table == <<row, vec>>
lists == <<queue, dead, topush>>
worker == <<pc, ids, rows, cur, tries>>
history == <<overtaken, adrift>>
vars == <<table, lists, worker, history, trouble>>

Live == {f \in Frags : row[f] > 0}
Missing == {f \in Live : vec[f] = 0}

\* Rows a worker has read and not written.
Held(w) == rows[w] \union (IF cur[w] = None THEN {} ELSE {cur[w]})

TypeOK ==
  /\ row \in [Frags -> -1..MaxVersion] /\ vec \in [Frags -> 0..MaxVersion]
  /\ queue \in Seq(Frags) /\ Len(queue) <= MaxQueue
  /\ dead \subseteq Frags /\ topush \subseteq Frags
  /\ pc \in [Workers -> {"idle", "pop", "select", "generate", "write", "bury"}]
  /\ ids \in [Workers -> Seq(Frags)] /\ \A w \in Workers : Len(ids[w]) <= BatchSize
  /\ rows \in [Workers -> SUBSET Rows] /\ cur \in [Workers -> Rows \union {None}]
  /\ \A w \in Workers : (pc[w] \in {"write", "bury"}) => cur[w] # None
  /\ tries \in [Workers -> 0..RetryLimit]
  /\ overtaken \subseteq Frags /\ adrift \subseteq Frags
  /\ trouble \in 0..MaxTrouble

Init ==
  /\ row = [f \in Frags |-> 0] /\ vec = [f \in Frags |-> 0]
  /\ queue = <<>> /\ dead = {} /\ topush = {}
  /\ pc = [w \in Workers |-> "idle"] /\ ids = [w \in Workers |-> <<>>]
  /\ rows = [w \in Workers |-> {}] /\ cur = [w \in Workers |-> None]
  /\ tries = [w \in Workers |-> 0]
  /\ overtaken = {} /\ adrift = {} /\ trouble = 0

Goto(w, step) == pc' = [pc EXCEPT ![w] = step]

Fails == trouble < MaxTrouble /\ trouble' = trouble + 1

\* Fragments that still wait for an embedding of their own accord.
Waiting == ToSet(queue) \union topush \union dead
             \union UNION {ToSet(ids[w]) \union {r.id : r \in Held(w)} : w \in Workers}
-----------------------------------------------------------------------------
(* The writers                                                             *)

\* insert(): no embedding yet; or the row that has the text already.
Store(f) ==
  /\ row[f] = 0 \/ ("again" \in Offered /\ f \in Live)
  /\ row' = [row EXCEPT ![f] = IF @ = 0 THEN 1 ELSE @]
  /\ topush' = topush \union {f}
  /\ UNCHANGED <<vec, queue, dead, worker, history, trouble>>

\* pushToQueue of remember, pushToQueuePriority of reflect; both return false
\* when Redis fails, so remember's inline fallback never runs.
Push(f) ==
  /\ f \in topush
  /\ topush' = topush \ {f}
  /\ \/ /\ Len(queue) < MaxQueue
        /\ queue' \in {<<f>> \o queue, Append(queue, f)}
        /\ UNCHANGED <<adrift, trouble>>
     \/ Fails /\ adrift' = adrift \union {f} /\ UNCHANGED queue
  /\ UNCHANGED <<table, dead, worker, overtaken>>

\* Fault: the embedding of the old text stays.
AmendKeeps(f) ==
  /\ f \in Live /\ row[f] < MaxVersion
  /\ row' = [row EXCEPT ![f] = @ + 1]
  /\ UNCHANGED <<vec, lists, worker, history, trouble>>

\* update() with a new content; nothing is queued.
Amend(f) ==
  /\ "amend" \in Offered
  /\ f \in Live /\ row[f] < MaxVersion
  /\ row' = [row EXCEPT ![f] = @ + 1]
  /\ vec' = [vec EXCEPT ![f] = 0]
  /\ overtaken' = IF \E w \in Workers : f \in {r.id : r \in Held(w)}
                  THEN overtaken \union {f} ELSE overtaken \ {f}
  /\ adrift' = adrift \union {f}
  /\ UNCHANGED <<lists, worker, trouble>>

Forget(f) ==
  /\ "forget" \in Offered
  /\ f \in Live
  /\ row' = [row EXCEPT ![f] = -1]
  /\ vec' = [vec EXCEPT ![f] = 0]
  /\ UNCHANGED <<lists, worker, history, trouble>>
-----------------------------------------------------------------------------
(* The workers                                                             *)

\* The timer of the server's worker.
Poll ==
  /\ pc[Main] = "idle"
  /\ Goto(Main, "pop")
  /\ UNCHANGED <<table, lists, ids, rows, cur, tries, history, trouble>>

\* _processBatch: rpop up to batchSize; a Redis error drops what was popped.
PopOne(w) ==
  /\ pc[w] = "pop"
  /\ \/ /\ queue # <<>> /\ Len(ids[w]) < BatchSize
        /\ ids' = [ids EXCEPT ![w] = Append(@, Last(queue))]
        /\ queue' = Front(queue)
        /\ UNCHANGED <<pc, adrift, trouble>>
     \/ /\ queue = <<>> \/ Len(ids[w]) = BatchSize
        /\ Goto(w, IF ids[w] = <<>> THEN "idle" ELSE "select")
        /\ UNCHANGED <<queue, ids, adrift, trouble>>
     \/ /\ Fails
        /\ adrift' = adrift \union ToSet(ids[w])
        /\ ids' = [ids EXCEPT ![w] = <<>>]
        /\ Goto(w, "idle")
        /\ UNCHANGED queue
  /\ UNCHANGED <<table, dead, topush, rows, cur, tries, overtaken>>

RowsOf(S) == {[id |-> f, version |-> row[f]] : f \in S}

Take(w, S) ==
  /\ rows' = [rows EXCEPT ![w] = RowsOf(S)]
  /\ Goto(w, IF S = {} THEN "idle" ELSE "generate")

\* The rows of the batch that have no embedding.
Select(w) ==
  /\ pc[w] = "select"
  /\ \/ Take(w, ToSet(ids[w]) \intersect Missing) /\ UNCHANGED <<adrift, trouble>>
     \/ /\ Fails
        /\ adrift' = adrift \union ToSet(ids[w])
        /\ Goto(w, "idle")
        /\ UNCHANGED rows
  /\ ids' = [ids EXCEPT ![w] = <<>>]
  /\ UNCHANGED <<table, lists, cur, tries, overtaken>>

\* What ORDER BY importance DESC LIMIT n leaves of S, any among equals.
TopRanked(S, n) ==
  {T \in SUBSET S : /\ Cardinality(T) = IF Cardinality(S) < n THEN Cardinality(S) ELSE n
                    /\ \A f \in T, g \in S \ T : Rank[f] >= Rank[g]}

\* Fault: one row fewer than asked for.
TooFew(w) ==
  /\ pc[w] = "idle" /\ w \in Cycles
  /\ \E S \in TopRanked(Missing, OrphanLimit - 1) : Take(w, S)
  /\ UNCHANGED <<table, lists, ids, cur, tries, history, trouble>>

\* processOrphanFragments of a consolidation cycle.
Orphans(w) ==
  /\ pc[w] = "idle" /\ w \in Cycles
  /\ \E S \in TopRanked(Missing, OrphanLimit) : Take(w, S)
  /\ UNCHANGED <<table, lists, ids, cur, tries, history, trouble>>

\* One failed attempt: try again, or give the row up.
Attempt(w) ==
  /\ tries' = [tries EXCEPT ![w] = @ + 1]
  /\ Goto(w, IF tries[w] + 1 = RetryLimit THEN "bury" ELSE "generate")

\* _embedOne: generateEmbedding of the row in hand, or of the next one.
Generate(w) ==
  /\ pc[w] = "generate"
  /\ \E r \in IF cur[w] = None THEN rows[w] ELSE {cur[w]} :
       /\ cur' = [cur EXCEPT ![w] = r]
       /\ rows' = [rows EXCEPT ![w] = @ \ {r}]
       /\ \/ r.id \notin Poison /\ Goto(w, "write") /\ UNCHANGED <<tries, trouble>>
          \/ r.id \in Poison /\ Attempt(w) /\ UNCHANGED trouble
          \/ r.id \notin Poison /\ Attempt(w) /\ Fails
  /\ UNCHANGED <<table, lists, ids, history>>

NextRow(w) ==
  /\ cur' = [cur EXCEPT ![w] = None]
  /\ tries' = [tries EXCEPT ![w] = 0]
  /\ Goto(w, IF rows[w] = {} THEN "idle" ELSE "generate")

\* UPDATE ... WHERE id: whatever the content is by now.
Write(w) ==
  /\ pc[w] = "write"
  /\ \/ /\ LET r == cur[w]
           IN vec' = IF r.id \in Live THEN [vec EXCEPT ![r.id] = r.version] ELSE vec
        /\ NextRow(w)
        /\ UNCHANGED trouble
     \/ Attempt(w) /\ Fails /\ UNCHANGED <<vec, cur>>
  /\ UNCHANGED <<row, lists, ids, rows, history>>

\* Fault: a row given up leaves no trace.
DropRow(w) ==
  /\ pc[w] = "bury"
  /\ NextRow(w)
  /\ UNCHANGED <<table, lists, ids, rows, history, trouble>>

\* The dead letter list; a failure to push is only logged.
Bury(w) ==
  /\ pc[w] = "bury"
  /\ \/ dead' = dead \union {cur[w].id} /\ UNCHANGED <<adrift, trouble>>
     \/ Fails /\ adrift' = adrift \union {cur[w].id} /\ UNCHANGED dead
  /\ NextRow(w)
  /\ UNCHANGED <<table, queue, topush, ids, rows, overtaken>>

\* The process restarts: closures are lost, tables and lists stay.
Restart ==
  /\ "restart" \in Offered
  /\ Fails
  /\ adrift' = adrift \union topush
                 \union UNION {ToSet(ids[w]) \union {r.id : r \in Held(w)} : w \in Workers}
  /\ topush' = {}
  /\ pc' = [w \in Workers |-> "idle"] /\ ids' = [w \in Workers |-> <<>>]
  /\ rows' = [w \in Workers |-> {}] /\ cur' = [w \in Workers |-> None]
  /\ tries' = [w \in Workers |-> 0]
  /\ UNCHANGED <<table, queue, dead, overtaken>>
-----------------------------------------------------------------------------
Step(w) == PopOne(w) \/ Select(w) \/ Generate(w) \/ Write(w) \/ Bury(w)

Next ==
  \/ \E f \in Frags : Store(f) \/ Push(f) \/ Amend(f) \/ Forget(f)
  \/ \E w \in Workers : Step(w) \/ Orphans(w)
  \/ Poll \/ Restart

Spec == Init /\ [][Next]_vars

\* The event loop runs what was started, the timers start the worker's batches
\* and the consolidation cycles.
FairSpec ==
  /\ Spec
  /\ \A w \in Workers : WF_vars(Step(w)) /\ WF_vars(Orphans(w))
  /\ WF_vars(Poll)
-----------------------------------------------------------------------------
(* Properties.                                                             *)

\* The vector of a fragment is that of its present text: amend clears it in the
\* statement that changes the text.  Only a worker that had read the older text
\* before the amend can write a vector that no longer fits.
EmbeddingFits == \A f \in Live \ overtaken : vec[f] \in {0, row[f]}

\* A stored fragment without embedding is on its way to one: to be pushed, in the
\* queue, in the hands of a worker, or dead-lettered; the ones amend, a restart or
\* a failing Redis or database left behind are the orphan pass's.
MissingAccounted == Missing \subseteq Waiting \union adrift

\* No fragment without embedding is out of everybody's sight.
NoneLost == TypeOK /\ MissingAccounted

\* Every fragment is embedded in the end, and again after each amend, unless the
\* model refuses its text: the orphan pass finds the ones the queue lost, as long
\* as fewer refused fragments than its limit outrank them.
EventuallyEmbedded ==
  \A f \in Frags \ Poison : []<>(f \notin Missing)
=============================================================================
