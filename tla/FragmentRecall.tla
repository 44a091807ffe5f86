---------------------------- MODULE FragmentRecall --------------------------
(***************************************************************************)
(* Recall beside the writers: the Redis index and hot cache                *)
(* (lib/memory/FragmentIndex.js), the search that reads them before the    *)
(* table (lib/memory/FragmentSearch.js), and the order in which remember,  *)
(* amend and forget touch table, index and cache                           *)
(* (lib/memory/manager/MemoryWriteService.js).                             *)
(*                                                                         *)
(* Abstracted: the keyword, topic, type and recent sets are one set of     *)
(* ids, every fragment matching every query; importance, ranking and token *)
(* budget leave any subset of the matching rows out of a result.  The      *)
(* transaction of update() and the statements of delete() are one step     *)
(* each (FragmentStore has them one by one).                               *)
(***************************************************************************)
EXTENDS Naturals

CONSTANTS
  Ids, Texts, Clients,
  None,       \* no row, no copy
  Modes,      \* bound: "plain", "super" (includeSuperseded), "text" recalls
  Offered,    \* bound: the operations clients perform
  MaxOps,     \* bound: operations started in a behaviour
  MaxOutages  \* bound: times the Redis connection is lost

ASSUME RecallAssumption ==
  /\ None \notin Ids \union Texts
  /\ Modes \subseteq {"plain", "super", "text"}
  /\ MaxOps \in Nat /\ MaxOutages \in Nat

Copies == [id : Ids, text : Texts, retired : BOOLEAN]

VARIABLES
  row,      \* row[i]: content of fragment i, or None
  retired,  \* ids of rows with valid_to set
  indexed,  \* ids in the Redis sets
  hot,      \* hot[i]: the copy under frag:hot:i, or None
  up,       \* redisClient.status === "ready"
  pc, job,  \* per client: next step, arguments in the closure
  found,    \* found[c]: ids L1 returned to the recall of c
  cached,   \* cached[c]: copies the recall of c took from the hot cache
  fill,     \* fill[c]: copies c's recalls still have to write to the cache
  answer,   \* answer[c]: what the last recall of c returned
  spent,    \* ids generated
  settling, \* history: settling[i]: texts an unfinished amend of i replaced
  escaped,  \* history: ids some outdated copy of which survived invalidation
  ghosts,   \* history: ids whose index entries can outlive their row
  before,   \* before[c]: history: rows gone, and retired ones not asked for, when
            \* recall c began
  ops, outages

tableVars == <<row, retired, spent>>
redisVars == <<indexed, hot>>
recallVars == <<found, cached, answer, before>>
histVars == <<settling, escaped, ghosts>>
vars == <<tableVars, redisVars, up, pc, job, recallVars, fill, histVars, ops,
          outages>>

Live == {i \in Ids : row[i] # None}

Steps == {"idle", "hotRead", "rows", "insert", "index", "retire", "commit",
          "deindex", "reindex", "forgetRead", "dropIndex", "dropRow"}

Jobs == [id : Ids \union {None}, text : Texts \union {None},
         old : Ids \union {None}, mode : {"plain", "super", "text"}]

Job(i, text, old, mode) == [id |-> i, text |-> text, old |-> old, mode |-> mode]

NoJob == Job(None, None, None, "plain")

NothingBefore == [gone |-> {}, retired |-> {}]

TypeOK ==
  /\ row \in [Ids -> Texts \union {None}]
  /\ retired \subseteq Live
  /\ indexed \subseteq Ids
  /\ hot \in [Ids -> Copies \union {None}]
  /\ \A i \in Ids : hot[i] # None => hot[i].id = i
  /\ up \in BOOLEAN
  /\ pc \in [Clients -> Steps]
  /\ job \in [Clients -> Jobs]
  /\ found \in [Clients -> SUBSET Ids]
  /\ cached \in [Clients -> SUBSET Copies] /\ fill \in [Clients -> SUBSET Copies]
  /\ answer \in [Clients -> SUBSET Copies]
  /\ spent \subseteq Ids
  /\ settling \in [Ids -> SUBSET Texts]
  /\ escaped \subseteq Ids /\ ghosts \subseteq Ids
  /\ before \in [Clients -> [gone : SUBSET Ids, retired : SUBSET Ids]]
  /\ ops \in 0..MaxOps /\ outages \in 0..MaxOutages

Init ==
  /\ row = [i \in Ids |-> None] /\ retired = {} /\ spent = {}
  /\ indexed = {} /\ hot = [i \in Ids |-> None] /\ up = TRUE
  /\ pc = [c \in Clients |-> "idle"] /\ job = [c \in Clients |-> NoJob]
  /\ found = [c \in Clients |-> {}] /\ cached = [c \in Clients |-> {}]
  /\ fill = [c \in Clients |-> {}] /\ answer = [c \in Clients |-> {}]
  /\ settling = [i \in Ids |-> {}] /\ escaped = {} /\ ghosts = {}
  /\ before = [c \in Clients |-> NothingBefore]
  /\ ops = 0 /\ outages = 0

Start(c, kind, step, args) ==
  /\ kind \in Offered
  /\ pc[c] = "idle" /\ ops < MaxOps
  /\ ops' = ops + 1
  /\ pc' = [pc EXCEPT ![c] = step]
  /\ job' = [job EXCEPT ![c] = args]

Goto(c, step) == pc' = [pc EXCEPT ![c] = step] /\ UNCHANGED job

Return(c) ==
  /\ pc' = [pc EXCEPT ![c] = "idle"]
  /\ job' = [job EXCEPT ![c] = NoJob]

CopyOf(i) == [id |-> i, text |-> row[i], retired |-> i \in retired]
-----------------------------------------------------------------------------
(* search: L1 ids, hot cache, table, answer, and the cache fill behind it. *)

\* _searchL1: the ids of the Redis sets, none while Redis is away.
RecallStart(c, mode) ==
  /\ Start(c, "recall", "hotRead", Job(None, None, None, mode))
  /\ found' = [found EXCEPT ![c] = IF up THEN indexed ELSE {}]
  /\ cached' = [cached EXCEPT ![c] = {}]
  /\ answer' = [answer EXCEPT ![c] = {}]
  /\ before' = [before EXCEPT ![c] = [gone    |-> spent \ Live,
                                      retired |-> IF mode = "super" THEN {} ELSE retired]]
  /\ UNCHANGED <<tableVars, redisVars, up, fill, histVars, outages>>

\* _tryHotCache
RecallHotRead(c) ==
  /\ pc[c] = "hotRead"
  /\ cached' = [cached EXCEPT ![c] =
                  IF up THEN {hot[i] : i \in {j \in found[c] : hot[j] # None}}
                        ELSE {}]
  /\ Goto(c, "rows")
  /\ UNCHANGED <<tableVars, redisVars, up, found, answer, before, fill, histVars,
                 ops, outages>>

\* Fault: what the cache held is not looked at again.
NoRetiredFilter(S, mode) == S

\* The valid_to filter over all results.
Current(S, mode) == IF mode = "super" THEN S ELSE {f \in S : ~ f.retired}

\* L2 (and L3), then the answer.  hits are the rows the queries return; getByIds
\* fetches the ids L1 found and the cache missed.  With a text, mergeRRF leaves
\* every id of L1 without content and the content filter drops it.
RecallAnswer(c) ==
  /\ pc[c] = "rows"
  /\ \E hits \in SUBSET (IF job[c].mode = "super" THEN Live ELSE Live \ retired) :
       LET had == {f.id : f \in cached[c]}
           missed == (found[c] \ had) \intersect Live
           all == IF job[c].mode = "text"
                  THEN {CopyOf(i) : i \in hits \ found[c]}
                  ELSE {CopyOf(i) : i \in hits \union missed}
                         \union {f \in cached[c] : f.id \notin hits}
           result == Current(all, job[c].mode)
       IN /\ answer' = [answer EXCEPT ![c] = result]
          /\ fill' = [fill EXCEPT ![c] = @ \union result]
  /\ Return(c)
  /\ UNCHANGED <<tableVars, redisVars, up, found, cached, before, histVars, ops,
                 outages>>

\* _cacheFragments, not awaited: one setex after the other; lost while Redis is
\* away.
CacheFill(c) ==
  /\ \E f \in fill[c] :
       /\ fill' = [fill EXCEPT ![c] = @ \ {f}]
       /\ hot' = IF up THEN [hot EXCEPT ![f.id] = f] ELSE hot
  /\ UNCHANGED <<tableVars, indexed, up, pc, job, recallVars, histVars, ops,
                 outages>>

\* HOT_CACHE_TTL
Expire(i) ==
  /\ hot[i] # None
  /\ hot' = [hot EXCEPT ![i] = None]
  /\ UNCHANGED <<tableVars, indexed, up, pc, job, recallVars, fill, histVars, ops,
                 outages>>
-----------------------------------------------------------------------------
(* The index and the invalidation.                                         *)

\* index(): only while Redis is ready.  An entry made for a row that is gone, or
\* that a forget is past de-indexing, becomes a ghost.
Index(i) ==
  /\ indexed' = IF up THEN indexed \union {i} ELSE indexed
  /\ ghosts' = IF up /\ \/ i \notin Live
                         \/ \E d \in Clients : pc[d] = "dropRow" /\ job[d].id = i
               THEN ghosts \union {i} ELSE ghosts

\* Copies of fragment i that a running recall, or a fill behind one, holds.
InFlight(i) ==
  {f \in Copies :
     f.id = i /\ \E c \in Clients : f \in fill[c] \/ (pc[c] = "rows" /\ f \in cached[c])}

\* Fault: the sets are cleaned, the hot copy is forgotten.
KeepHot(i) ==
  /\ indexed' = IF up THEN indexed \ {i} ELSE indexed
  /\ UNCHANGED <<hot, ghosts>>
  /\ escaped' = escaped \ {i}

\* deindex(): one pipeline; nothing at all while Redis is away.  A copy in flight
\* that the row has outgrown escapes it.
Deindex(i) ==
  /\ indexed' = IF up THEN indexed \ {i} ELSE indexed
  /\ hot' = IF up THEN [hot EXCEPT ![i] = None] ELSE hot
  /\ escaped' = IF \/ \E f \in InFlight(i) : f.text # row[i]
                   \/ ~ up
                THEN escaped \union {i} ELSE escaped \ {i}
  /\ ghosts' = IF up THEN ghosts ELSE ghosts \union {i}
-----------------------------------------------------------------------------
(* remember                                                                *)

RememberStart(c, text, old) ==
  /\ Start(c, "remember", "insert", Job(None, text, old, "plain"))
  /\ UNCHANGED <<tableVars, redisVars, up, recallVars, fill, histVars, outages>>

\* insert(): a new row, or the id of the row that has the text.
RememberInsert(c) ==
  /\ pc[c] = "insert"
  /\ LET dups == {i \in Live : row[i] = job[c].text}
     IN \E i \in IF dups = {} THEN Ids \ spent ELSE dups :
          /\ row' = [row EXCEPT ![i] = job[c].text]
          /\ spent' = spent \union {i}
          /\ job' = [job EXCEPT ![c].id = i]
  /\ pc' = [pc EXCEPT ![c] = "index"]
  /\ UNCHANGED <<retired, redisVars, up, recallVars, fill, histVars, ops, outages>>

RememberIndex(c) ==
  /\ pc[c] = "index"
  /\ Index(job[c].id)
  /\ IF job[c].old \in {None, job[c].id} THEN Return(c) ELSE Goto(c, "retire")
  /\ UNCHANGED <<tableVars, hot, up, recallVars, fill, settling, escaped, ops,
                 outages>>

\* _supersede: the row's valid_to; neither index nor cache hears of it.
RememberRetire(c) ==
  /\ pc[c] = "retire"
  /\ retired' = retired \union ({job[c].old} \intersect Live)
  /\ Return(c)
  /\ UNCHANGED <<row, spent, redisVars, up, recallVars, fill, histVars, ops,
                 outages>>
-----------------------------------------------------------------------------
(* amend: update(), then deindex and index.                                *)

AmendStart(c, i, text) ==
  /\ Start(c, "amend", "commit", Job(i, text, None, "plain"))
  /\ UNCHANGED <<tableVars, redisVars, up, recallVars, fill, histVars, outages>>

\* update(): not found, merged, or committed.
AmendCommit(c) ==
  LET i == job[c].id
  IN /\ pc[c] = "commit"
     /\ IF i \in Live /\ \A j \in Live \ {i} : row[j] # job[c].text
        THEN /\ row' = [row EXCEPT ![i] = job[c].text]
             /\ settling' = [settling EXCEPT ![i] = @ \union {row[i]}]
             /\ Goto(c, "deindex")
        ELSE Return(c) /\ UNCHANGED <<row, settling>>
     /\ UNCHANGED <<retired, spent, redisVars, up, recallVars, fill, escaped,
                    ghosts, ops, outages>>

AmendDeindex(c) ==
  /\ pc[c] = "deindex"
  /\ Deindex(job[c].id)
  /\ Goto(c, "reindex")
  /\ UNCHANGED <<tableVars, up, recallVars, fill, settling, ops, outages>>

\* The replaced text stops being excusable when no amend of i is left.
AmendReindex(c) ==
  LET i == job[c].id
  IN /\ pc[c] = "reindex"
     /\ Index(i)
     /\ settling' = IF \E d \in Clients \ {c} :
                         job[d].id = i /\ pc[d] \in {"deindex", "reindex"}
                    THEN settling ELSE [settling EXCEPT ![i] = {}]
     /\ Return(c)
     /\ UNCHANGED <<tableVars, hot, up, recallVars, fill, escaped, ops, outages>>
-----------------------------------------------------------------------------
(* forget: getById, deindex, then the row.                                 *)

ForgetStart(c, i) ==
  /\ Start(c, "forget", "forgetRead", Job(i, None, None, "plain"))
  /\ UNCHANGED <<tableVars, redisVars, up, recallVars, fill, histVars, outages>>

ForgetRead(c) ==
  /\ pc[c] = "forgetRead"
  /\ IF job[c].id \in Live THEN Goto(c, "dropIndex") ELSE Return(c)
  /\ UNCHANGED <<tableVars, redisVars, up, recallVars, fill, histVars, ops, outages>>

\* Fault: the row goes without its index entries.
SkipDeindex(c) ==
  /\ pc[c] = "dropIndex"
  /\ Goto(c, "dropRow")
  /\ UNCHANGED <<tableVars, redisVars, up, recallVars, fill, histVars, ops, outages>>

ForgetDeindex(c) ==
  /\ pc[c] = "dropIndex"
  /\ Deindex(job[c].id)
  /\ Goto(c, "dropRow")
  /\ UNCHANGED <<tableVars, up, recallVars, fill, settling, ops, outages>>

\* delete(): an index entry made since the deindex outlives the row.
ForgetRow(c) ==
  LET i == job[c].id
  IN /\ pc[c] = "dropRow"
     /\ row' = [row EXCEPT ![i] = None]
     /\ retired' = retired \ {i}
     /\ Return(c)
     /\ UNCHANGED <<spent, redisVars, up, recallVars, fill, histVars, ops, outages>>

\* deleteExpired: the index and the cache are not told.
Collect(i) ==
  /\ "consolidate" \in Offered
  /\ i \in Live
  /\ row' = [row EXCEPT ![i] = None]
  /\ retired' = retired \ {i}
  /\ ghosts' = ghosts \union {i}
  /\ UNCHANGED <<spent, redisVars, up, pc, job, recallVars, fill, settling, escaped,
                 ops, outages>>

\* The connection to Redis is lost and comes back, data intact.
Outage ==
  /\ IF up THEN outages < MaxOutages /\ outages' = outages + 1
           ELSE UNCHANGED outages
  /\ up' = ~ up
  /\ UNCHANGED <<tableVars, redisVars, pc, job, recallVars, fill, histVars, ops>>
-----------------------------------------------------------------------------
Step(c) ==
  \/ RecallHotRead(c) \/ RecallAnswer(c) \/ CacheFill(c)
  \/ RememberInsert(c) \/ RememberIndex(c) \/ RememberRetire(c)
  \/ AmendCommit(c) \/ AmendDeindex(c) \/ AmendReindex(c)
  \/ ForgetRead(c) \/ ForgetDeindex(c) \/ ForgetRow(c)

Request(c) ==
  \/ \E mode \in Modes : RecallStart(c, mode)
  \/ \E text \in Texts, old \in spent \union {None} : RememberStart(c, text, old)
  \/ \E i \in spent, text \in Texts : AmendStart(c, i, text)
  \/ \E i \in spent : ForgetStart(c, i)

Next ==
  \/ \E c \in Clients : Request(c) \/ Step(c)
  \/ \E i \in Ids : Expire(i) \/ Collect(i)
  \/ Outage

Spec == Init /\ [][Next]_vars
-----------------------------------------------------------------------------
(* Properties.                                                             *)

\* The hot cache is coherent with amends: a copy of a live fragment holds its
\* text, or a text an unfinished amend is replacing, unless an outdated copy was
\* in flight (or Redis away) when the last amend invalidated.  It rests on
\* amend's order, commit before deindex.
HotFresh ==
  \A i \in Live \ escaped :
    hot[i] # None => hot[i].text \in {row[i]} \union settling[i]

\* A recall that began after a fragment was forgotten does not return it, from
\* whatever copies are left, except for the fragments whose index entries a
\* concurrent remember or amend renewed (or the collector took).
ForgottenGone ==
  \A c \in Clients : \A f \in answer[c] : f.id \in before[c].gone => f.id \in ghosts

\* Between requests every fragment is in the index, whatever overlapped: amend
\* removes the entries of the old version before it adds those of the new one.
LiveIndexed ==
  (outages = 0 /\ \A c \in Clients : pc[c] = "idle") => Live \subseteq indexed

\* A fragment that was superseded before a recall began, and whose recall did not
\* ask for superseded ones, can come back only as a
\* copy from the cache: every path to the table, getByIds included, is filtered.
RetiredOnlyFromCache ==
  \A c \in Clients : \A f \in answer[c] :
    f.id \in before[c].retired => f \in cached[c]

\* The index and the answers fit the table: no recall shows what was forgotten
\* before it began, and between requests no live fragment is missing.
IndexFits == TypeOK /\ ForgottenGone /\ LiveIndexed
-----------------------------------------------------------------------------
(* Claims of the comments the code does not keep.                          *)

\* FragmentSearch.js: the valid_to filter applies to all results, those of L1 and
\* of the hot cache included.
RetiredNotReturned ==
  \A c \in Clients : \A f \in answer[c] : f.id \notin before[c].retired
=============================================================================
