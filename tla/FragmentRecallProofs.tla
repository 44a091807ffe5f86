------------------------- MODULE FragmentRecallProofs ------------------------
(***************************************************************************)
(* Proofs about FragmentRecall, for any number of clients, fragments, texts*)
(* and operations and any outages of Redis: the types, and what the index, *)
(* the hot cache and an answer may hold beside the table.                  *)
(***************************************************************************)
EXTENDS FragmentRecall, TLAPS

\* The arguments a step needs are in the closure.
JobsFit ==
  \A c \in Clients :
    /\ pc[c] \in {"insert", "commit"} => job[c].text \in Texts
    /\ pc[c] \in {"index", "retire", "commit", "deindex", "reindex", "forgetRead",
                  "dropIndex", "dropRow"} => job[c].id \in spent
    /\ pc[c] \in {"hotRead", "rows"} /\ job[c].mode = "super"
         => before[c].retired = {}
    /\ pc[c] = "hotRead" => answer[c] = {}

\* Ids are not used twice: what was gone stays gone, and what was retired is
\* retired as long as it is there.
GoneStay ==
  /\ Live \subseteq spent
  /\ \A c \in Clients : /\ before[c].gone \subseteq spent \ Live
                        /\ before[c].retired \subseteq retired \union (spent \ Live)

\* Index entries without a row are accounted for, also those that a forget about
\* to delete the row has already passed.
EntriesCounted ==
  /\ indexed \ Live \subseteq ghosts
  /\ \A c \in Clients : pc[c] = "dropRow" /\ job[c].id \in indexed
                          => job[c].id \in ghosts

\* What a recall found, and the copies it took of that.
FindsCounted ==
  \A c \in Clients : /\ found[c] \intersect before[c].gone \subseteq ghosts
                     /\ \A f \in cached[c] : f.id \in found[c]

\* While Redis has never been away, a live fragment missing from the index is in
\* the hands of somebody who will put it back or delete it.
Underway ==
  outages = 0 =>
    /\ up
    /\ \A i \in Live \ indexed : \E c \in Clients :
         pc[c] \in {"index", "reindex", "dropRow"} /\ job[c].id = i

\* An amend of i has changed the row and not yet invalidated the copies.
Stale(i) == \E c \in Clients : pc[c] = "deindex" /\ job[c].id = i

\* A copy that no invalidation has missed has the text of the row, or one that an
\* amend has replaced and is about to invalidate.
Fresh(f) ==
  /\ f.id \in spent
  /\ f.id \in Live \ escaped =>
       f.text = row[f.id] \/ (Stale(f.id) /\ f.text \in settling[f.id])

CopiesFresh ==
  /\ \A c \in Clients : \A f \in fill[c] : Fresh(f)
  /\ \A c \in Clients : pc[c] = "rows" => \A f \in cached[c] : Fresh(f)
  /\ \A i \in Ids : hot[i] # None => Fresh(hot[i])

RecallInv ==
  /\ TypeOK /\ JobsFit /\ GoneStay /\ EntriesCounted /\ FindsCounted /\ Underway
  /\ CopiesFresh /\ ForgottenGone /\ RetiredOnlyFromCache

-----------------------------------------------------------------------------
(* What steps leave alone.                                                  *)

\* A step of c leaves the other clients where they are.
Apart(c) ==
  /\ pc' \in [Clients -> Steps] /\ job' \in [Clients -> Jobs]
  /\ \A d \in Clients \ {c} : pc'[d] = pc[d] /\ job'[d] = job[d]

LEMMA RecallInit == Init => RecallInv
<1> SUFFICES ASSUME Init PROVE RecallInv
  OBVIOUS
<1> USE DEF Init
<1>0. Live = {}
  BY DEF Live
<1>j. NoJob \in Jobs /\ "idle" \in Steps
  BY DEF NoJob, Job, Jobs, Steps
<1>1. TypeOK
  BY <1>0, <1>j, RecallAssumption DEF TypeOK, NothingBefore, RecallAssumption
<1>2. JobsFit /\ GoneStay /\ EntriesCounted
  BY <1>0 DEF JobsFit, GoneStay, EntriesCounted, NothingBefore
<1>3. FindsCounted /\ Underway /\ CopiesFresh
  BY <1>0 DEF FindsCounted, Underway, CopiesFresh
<1>4. ForgottenGone /\ RetiredOnlyFromCache
  BY DEF ForgottenGone, RetiredOnlyFromCache
<1> QED  BY <1>1, <1>2, <1>3, <1>4 DEF RecallInv

\* A request begins: nothing but the client's own closure changes, and a recall's
\* own registers.
LEMMA StartType ==
  ASSUME TypeOK, NEW c \in Clients, NEW kind, NEW step \in Steps \ {"idle"},
         NEW args \in Jobs, Start(c, kind, step, args)
  PROVE  /\ Apart(c) /\ pc'[c] = step /\ job'[c] = args /\ pc[c] = "idle"
         /\ ops' \in 0..MaxOps
<1> USE DEF TypeOK, Start
<1>1. /\ pc' \in [Clients -> Steps] /\ pc'[c] = step
      /\ \A d \in Clients \ {c} : pc'[d] = pc[d]
  OBVIOUS
<1>2. /\ job' \in [Clients -> Jobs] /\ job'[c] = args
      /\ \A d \in Clients \ {c} : job'[d] = job[d]
  OBVIOUS
<1>3. ops' \in 0..MaxOps
  BY RecallAssumption DEF RecallAssumption
<1> QED  BY <1>1, <1>2, <1>3 DEF Apart

LEMMA GotoType ==
  ASSUME TypeOK, NEW c \in Clients, NEW step \in Steps, Goto(c, step)
  PROVE  Apart(c) /\ pc'[c] = step /\ job' = job
BY DEF TypeOK, Goto, Apart

LEMMA ReturnType ==
  ASSUME TypeOK, NEW c \in Clients, Return(c)
  PROVE  Apart(c) /\ pc'[c] = "idle" /\ job'[c] = NoJob
<1>1. NoJob \in Jobs /\ "idle" \in Steps
  BY DEF NoJob, Job, Jobs, Steps
<1> QED  BY <1>1 DEF TypeOK, Return, Apart

\* What Fresh reads: when none of it changes for the copy's fragment, the copy
\* stays as fresh as it was.
LEMMA FreshKept ==
  ASSUME NEW f, Fresh(f), row' = row, spent \subseteq spent',
         Live' \ escaped' \subseteq Live \ escaped,
         settling' = settling, Stale(f.id) => Stale(f.id)'
  PROVE  Fresh(f)'
BY DEF Fresh, Live

LEMMA StaleKept ==
  ASSUME NEW c \in Clients, Apart(c), pc[c] # "deindex", NEW i, Stale(i)
  PROVE  Stale(i)'
BY DEF Stale, Apart

-----------------------------------------------------------------------------
(* Requests.                                                                *)

LEMMA StepRecallStart ==
  ASSUME RecallInv, NEW c \in Clients, NEW mode \in Modes, RecallStart(c, mode)
  PROVE  RecallInv'
<1> DEFINE args == Job(None, None, None, mode)
<1> USE DEF RecallInv, tableVars, redisVars, histVars
<1>1. args \in Jobs /\ args.mode = mode /\ "hotRead" \in Steps \ {"idle"}
  BY RecallAssumption DEF RecallAssumption, Job, Jobs, Steps
<1>2. /\ Apart(c) /\ pc'[c] = "hotRead" /\ job'[c] = args /\ pc[c] = "idle"
      /\ ops' \in 0..MaxOps
  <2>1. Start(c, "recall", "hotRead", args)
    BY DEF RecallStart
  <2> HIDE DEF args
  <2> QED  BY <1>1, <2>1, StartType
<1> HIDE DEF args
<1>3. /\ found' = [found EXCEPT ![c] = IF up THEN indexed ELSE {}]
      /\ cached' = [cached EXCEPT ![c] = {}] /\ answer' = [answer EXCEPT ![c] = {}]
      /\ before' = [before EXCEPT ![c] = [gone    |-> spent \ Live,
                      retired |-> IF mode = "super" THEN {} ELSE retired]]
      /\ UNCHANGED <<row, retired, spent, indexed, hot, up, fill, settling, escaped,
                     ghosts, outages>>
  BY DEF RecallStart
<1>4. Live' = Live
  BY <1>3 DEF Live
<1>5. /\ found' \in [Clients -> SUBSET Ids] /\ found'[c] = IF up THEN indexed ELSE {}
      /\ \A d \in Clients \ {c} : found'[d] = found[d]
  BY <1>3 DEF TypeOK
<1>6. /\ cached'[c] = {} /\ answer'[c] = {}
      /\ \A d \in Clients \ {c} : cached'[d] = cached[d] /\ answer'[d] = answer[d]
  BY <1>3 DEF TypeOK
<1>7. /\ before' \in [Clients -> [gone : SUBSET Ids, retired : SUBSET Ids]]
      /\ before'[c].gone = spent \ Live
      /\ before'[c].retired = IF mode = "super" THEN {} ELSE retired
      /\ \A d \in Clients \ {c} : before'[d] = before[d]
  BY <1>3, <1>4 DEF TypeOK, Live
<1>t. TypeOK'
  BY <1>2, <1>3, <1>4, <1>5, <1>6, <1>7 DEF TypeOK, Apart
<1>a. JobsFit'
  BY <1>1, <1>2, <1>3, <1>6, <1>7 DEF JobsFit, Apart
<1>b. GoneStay' /\ EntriesCounted'
  BY <1>2, <1>3, <1>4, <1>7 DEF GoneStay, EntriesCounted, Apart
<1>c. FindsCounted'
  BY <1>3, <1>5, <1>6, <1>7 DEF FindsCounted, EntriesCounted
<1>d. Underway'
  BY <1>2, <1>3, <1>4 DEF Underway, Apart
<1>e. \A f : Fresh(f) => Fresh(f)'
  BY <1>2, <1>3, <1>4, FreshKept, StaleKept
<1>f. CopiesFresh'
  BY <1>2, <1>3, <1>6, <1>e DEF CopiesFresh, Apart
<1>g. ForgottenGone' /\ RetiredOnlyFromCache'
  BY <1>3, <1>6, <1>7 DEF ForgottenGone, RetiredOnlyFromCache
<1> QED  BY <1>t, <1>a, <1>b, <1>c, <1>d, <1>f, <1>g

\* What the requests of the writers, and the steps that only move on, leave: the
\* table, Redis and the recalls.
Aside == UNCHANGED <<row, retired, spent, indexed, hot, up, found, cached, answer,
                     before, fill, settling, escaped, ghosts, outages>>

\* A step that only moves c on, from a step that owes nothing to index or cache.
LEMMA AsideStep ==
  ASSUME RecallInv, NEW c \in Clients, Apart(c), Aside, ops' \in 0..MaxOps,
         pc[c] \notin {"deindex", "index", "reindex", "dropRow"},
         pc'[c] \notin {"rows"},
         pc'[c] = "dropRow" => job'[c].id \notin indexed,
         JobsFit'
  PROVE  RecallInv'
<1> USE DEF RecallInv, Aside
<1>1. Live' = Live
  BY DEF Live
<1>t. TypeOK'
  BY <1>1 DEF TypeOK, Apart
<1>b. GoneStay' /\ EntriesCounted'
  BY <1>1 DEF GoneStay, EntriesCounted, Apart
<1>c. FindsCounted'
  BY DEF FindsCounted
<1>d. Underway'
  BY <1>1 DEF Underway, Apart
<1>e. \A f : Fresh(f) => Fresh(f)'
  BY <1>1, FreshKept, StaleKept
<1>f. CopiesFresh'
  BY <1>e DEF CopiesFresh, Apart
<1>g. ForgottenGone' /\ RetiredOnlyFromCache'
  BY DEF ForgottenGone, RetiredOnlyFromCache
<1> QED  BY <1>t, <1>b, <1>c, <1>d, <1>f, <1>g

LEMMA StepWriterStart ==
  ASSUME RecallInv, NEW c \in Clients,
         \/ \E text \in Texts, old \in spent \union {None} : RememberStart(c, text, old)
         \/ \E i \in spent, text \in Texts : AmendStart(c, i, text)
         \/ \E i \in spent : ForgetStart(c, i)
  PROVE  RecallInv'
<1> USE DEF RecallInv, tableVars, redisVars, recallVars, histVars
<1>s. spent \subseteq Ids /\ TypeOK
  BY DEF TypeOK
<1>1. ASSUME NEW kind, NEW step \in {"insert", "commit", "forgetRead"},
             NEW args \in Jobs, Start(c, kind, step, args), Aside,
             step \in {"insert", "commit"} => args.text \in Texts,
             step \in {"commit", "forgetRead"} => args.id \in spent
      PROVE  RecallInv'
  <2>1. step \in Steps \ {"idle"}
    BY DEF Steps
  <2>2. /\ Apart(c) /\ pc'[c] = step /\ job'[c] = args /\ pc[c] = "idle"
        /\ ops' \in 0..MaxOps
    BY <1>1, <1>s, <2>1, StartType
  <2>3. JobsFit'
    BY <1>1, <2>2 DEF JobsFit, Apart, Aside
  <2> QED  BY <1>1, <2>2, <2>3, AsideStep
<1>2. CASE \E text \in Texts, old \in spent \union {None} : RememberStart(c, text, old)
  <2>1. PICK text \in Texts, old \in spent \union {None} : RememberStart(c, text, old)
    BY <1>2
  <2> DEFINE args == Job(None, text, old, "plain")
  <2>3. args \in Jobs /\ args.text \in Texts
    BY <1>s DEF Job, Jobs
  <2>4. Start(c, "remember", "insert", args) /\ Aside
    BY <2>1 DEF RememberStart, Aside
  <2> HIDE DEF args
  <2> QED  BY <1>1, <2>3, <2>4
<1>3. CASE \E i \in spent, text \in Texts : AmendStart(c, i, text)
  <2>1. PICK i \in spent, text \in Texts : AmendStart(c, i, text)
    BY <1>3
  <2> DEFINE args == Job(i, text, None, "plain")
  <2>3. args \in Jobs /\ args.text \in Texts /\ args.id \in spent
    BY <1>s DEF Job, Jobs
  <2>4. Start(c, "amend", "commit", args) /\ Aside
    BY <2>1 DEF AmendStart, Aside
  <2> HIDE DEF args
  <2> QED  BY <1>1, <2>3, <2>4
<1>4. CASE \E i \in spent : ForgetStart(c, i)
  <2>1. PICK i \in spent : ForgetStart(c, i)
    BY <1>4
  <2> DEFINE args == Job(i, None, None, "plain")
  <2>3. args \in Jobs /\ args.id \in spent
    BY <1>s DEF Job, Jobs
  <2>4. Start(c, "forget", "forgetRead", args) /\ Aside
    BY <2>1 DEF ForgetStart, Aside
  <2> HIDE DEF args
  <2> QED  BY <1>1, <2>3, <2>4
<1> QED  BY <1>2, <1>3, <1>4

-----------------------------------------------------------------------------
(* A recall.                                                                *)

LEMMA StepRecallHotRead ==
  ASSUME RecallInv, NEW c \in Clients, RecallHotRead(c)
  PROVE  RecallInv'
<1> DEFINE took == IF up THEN {hot[i] : i \in {j \in found[c] : hot[j] # None}} ELSE {}
<1> USE DEF RecallInv, tableVars, redisVars, histVars
<1>1. /\ Apart(c) /\ pc'[c] = "rows" /\ job' = job /\ pc[c] = "hotRead"
  BY GotoType DEF RecallHotRead, Steps
<1>2. /\ cached' = [cached EXCEPT ![c] = took]
      /\ UNCHANGED <<row, retired, spent, indexed, hot, up, found, answer, before,
                     fill, settling, escaped, ghosts, ops, outages>>
  BY DEF RecallHotRead
<1>3. Live' = Live
  BY <1>2 DEF Live
<1>4. \A f \in took : \E i \in found[c] : hot[i] # None /\ f = hot[i] /\ f.id = i
                                          /\ f \in Copies /\ i \in Ids
  BY DEF TypeOK
<1>h. hot \in [Ids -> Copies \union {None}]
  BY DEF TypeOK
<1> HIDE DEF took
<1>5. /\ cached' \in [Clients -> SUBSET Copies] /\ cached'[c] = took
      /\ \A d \in Clients \ {c} : cached'[d] = cached[d]
  BY <1>2, <1>4 DEF TypeOK
<1>t. TypeOK'
  BY <1>1, <1>2, <1>3, <1>5 DEF TypeOK, Apart
<1>a. JobsFit'
  BY <1>1, <1>2 DEF JobsFit, Apart
<1>b. GoneStay' /\ EntriesCounted'
  BY <1>1, <1>2, <1>3 DEF GoneStay, EntriesCounted, Apart
<1>c. FindsCounted'
  BY <1>2, <1>4, <1>5 DEF FindsCounted
<1>d. Underway'
  BY <1>1, <1>2, <1>3 DEF Underway, Apart
<1>e. \A f : Fresh(f) => Fresh(f)'
  BY <1>1, <1>2, <1>3, FreshKept, StaleKept
<1>f. CopiesFresh'
  <2>1. \A f \in took : Fresh(f)
    BY <1>4 DEF CopiesFresh
  <2>2. \A d \in Clients : \A f \in fill'[d] : Fresh(f)'
    BY <1>2, <1>e DEF CopiesFresh
  <2>3. \A d \in Clients : pc'[d] = "rows" => \A f \in cached'[d] : Fresh(f)'
    BY <1>1, <1>5, <1>e, <2>1 DEF CopiesFresh, Apart
  <2>4. \A i \in Ids : hot'[i] # None => Fresh(hot[i])'
    BY <1>2, <1>e DEF CopiesFresh
  <2> QED  BY <2>2, <2>3, <2>4 DEF CopiesFresh
<1>g. ForgottenGone'
  BY <1>2 DEF ForgottenGone
<1>i. RetiredOnlyFromCache'
  BY <1>1, <1>2, <1>5 DEF RetiredOnlyFromCache, JobsFit
<1> QED  BY <1>t, <1>a, <1>b, <1>c, <1>d, <1>f, <1>g, <1>i

\* What an answer consists of: copies of the rows that are there, current ones
\* unless superseded ones were asked for, and cached copies.
LEMMA AnswerMakeUp ==
  ASSUME RecallInv, NEW c \in Clients, RecallAnswer(c)
  PROVE  \E result \in SUBSET Copies :
           /\ answer' = [answer EXCEPT ![c] = result]
           /\ fill' = [fill EXCEPT ![c] = @ \union result]
           /\ \A f \in result :
                \/ f \in cached[c]
                \/ /\ f.id \in Live /\ f.text = row[f.id]
                   /\ job[c].mode # "super" => f.id \notin retired
<1> USE DEF RecallInv
<1>1. PICK hits \in SUBSET (IF job[c].mode = "super" THEN Live ELSE Live \ retired) :
        LET had == {f.id : f \in cached[c]}
            missed == (found[c] \ had) \intersect Live
            all == IF job[c].mode = "text"
                   THEN {CopyOf(i) : i \in hits \ found[c]}
                   ELSE {CopyOf(i) : i \in hits \union missed}
                          \union {f \in cached[c] : f.id \notin hits}
            result == Current(all, job[c].mode)
        IN /\ answer' = [answer EXCEPT ![c] = result]
           /\ fill' = [fill EXCEPT ![c] = @ \union result]
  BY DEF RecallAnswer
<1> DEFINE had == {f.id : f \in cached[c]}
           missed == (found[c] \ had) \intersect Live
           all == IF job[c].mode = "text"
                  THEN {CopyOf(i) : i \in hits \ found[c]}
                  ELSE {CopyOf(i) : i \in hits \union missed}
                         \union {f \in cached[c] : f.id \notin hits}
           result == Current(all, job[c].mode)
<1>2. answer' = [answer EXCEPT ![c] = result]
        /\ fill' = [fill EXCEPT ![c] = @ \union result]
  BY <1>1
<1>3. \A i \in Live : /\ CopyOf(i) \in Copies /\ CopyOf(i).id = i
                      /\ CopyOf(i).text = row[i] /\ CopyOf(i).retired = (i \in retired)
  <2>1. ASSUME NEW i \in Live PROVE row[i] \in Texts /\ i \in Ids
    BY DEF TypeOK, Live
  <2> QED  BY <2>1 DEF CopyOf, Copies
<1>4. hits \subseteq Live /\ missed \subseteq Live
  BY <1>1
<1>5. \A f \in all : f \in cached[c] \/ \E i \in Live : f = CopyOf(i)
  BY <1>4
<1>6. result \subseteq all /\ (job[c].mode # "super" => \A f \in result : ~ f.retired)
  BY DEF Current
<1>7. cached[c] \subseteq Copies
  BY DEF TypeOK
<1> HIDE DEF had, missed, all, result
<1>8. result \in SUBSET Copies
  BY <1>3, <1>5, <1>6, <1>7
<1>9. ASSUME NEW f \in result, f \notin cached[c]
      PROVE  /\ f.id \in Live /\ f.text = row[f.id]
             /\ job[c].mode # "super" => f.id \notin retired
  <2>1. PICK i \in Live : f = CopyOf(i)
    BY <1>5, <1>6, <1>9
  <2>2. f.id = i /\ f.text = row[i] /\ f.retired = (i \in retired)
    BY <1>3, <2>1
  <2> QED  BY <1>6, <2>2
<1> QED  BY <1>2, <1>8, <1>9

LEMMA StepRecallAnswer ==
  ASSUME RecallInv, NEW c \in Clients, RecallAnswer(c)
  PROVE  RecallInv'
<1> USE DEF RecallInv, tableVars, redisVars, histVars
<1>1. Apart(c) /\ pc'[c] = "idle" /\ job'[c] = NoJob /\ pc[c] = "rows"
  BY ReturnType DEF RecallAnswer
<1>2. UNCHANGED <<row, retired, spent, indexed, hot, up, found, cached, before,
                  settling, escaped, ghosts, ops, outages>>
  BY DEF RecallAnswer
<1>r. PICK result \in SUBSET Copies :
           /\ answer' = [answer EXCEPT ![c] = result]
           /\ fill' = [fill EXCEPT ![c] = @ \union result]
           /\ \A f \in result :
                \/ f \in cached[c]
                \/ /\ f.id \in Live /\ f.text = row[f.id]
                   /\ job[c].mode # "super" => f.id \notin retired
  BY AnswerMakeUp
<1>3. Live' = Live
  BY <1>2 DEF Live
<1>4. /\ answer' \in [Clients -> SUBSET Copies] /\ answer'[c] = result
      /\ \A d \in Clients \ {c} : answer'[d] = answer[d]
  BY <1>r DEF TypeOK
<1>5. /\ fill' \in [Clients -> SUBSET Copies] /\ fill'[c] = fill[c] \union result
      /\ \A d \in Clients \ {c} : fill'[d] = fill[d]
  BY <1>r DEF TypeOK
<1>t. TypeOK'
  BY <1>1, <1>2, <1>3, <1>4, <1>5 DEF TypeOK, Apart
<1>a. JobsFit'
  BY <1>1, <1>2, <1>4 DEF JobsFit, Apart
<1>b. GoneStay' /\ EntriesCounted' /\ FindsCounted'
  BY <1>1, <1>2, <1>3 DEF GoneStay, EntriesCounted, FindsCounted, Apart
<1>d. Underway'
  BY <1>1, <1>2, <1>3 DEF Underway, Apart
<1>e. \A f : Fresh(f) => Fresh(f)'
  BY <1>1, <1>2, <1>3, FreshKept, StaleKept
<1>f. CopiesFresh'
  <2>1. \A f \in result : Fresh(f)
    BY <1>1, <1>r DEF CopiesFresh, Fresh, GoneStay
  <2>2. \A d \in Clients : \A f \in fill'[d] : Fresh(f)'
    BY <1>5, <1>e, <2>1 DEF CopiesFresh
  <2>3. \A d \in Clients : pc'[d] = "rows" => \A f \in cached'[d] : Fresh(f)'
    BY <1>1, <1>2, <1>e DEF CopiesFresh, Apart
  <2>4. \A i \in Ids : hot'[i] # None => Fresh(hot[i])'
    BY <1>2, <1>e DEF CopiesFresh
  <2> QED  BY <2>2, <2>3, <2>4 DEF CopiesFresh
<1>g. ForgottenGone'
  <2>1. \A f \in result : f.id \in before[c].gone => f.id \in ghosts
    BY <1>r DEF FindsCounted, GoneStay
  <2> QED  BY <1>2, <1>4, <2>1 DEF ForgottenGone
<1>i. RetiredOnlyFromCache'
  <2>1. \A f \in result : f.id \in before[c].retired => f \in cached[c]
    BY <1>1, <1>r DEF GoneStay, JobsFit
  <2> QED  BY <1>2, <1>4, <2>1 DEF RetiredOnlyFromCache
<1> QED  BY <1>t, <1>a, <1>b, <1>d, <1>f, <1>g, <1>i

\* The cache changes only by taking in fresh copies, or losing some.
LEMMA HotStep ==
  ASSUME RecallInv, hot' \in [Ids -> Copies \union {None}],
         \A i \in Ids : hot'[i] # None => hot'[i].id = i /\ Fresh(hot'[i]),
         fill' \in [Clients -> SUBSET Copies],
         \A d \in Clients : fill'[d] \subseteq fill[d],
         UNCHANGED <<row, retired, spent, indexed, up, pc, job, found, cached, answer,
                     before, settling, escaped, ghosts, ops, outages>>
  PROVE  RecallInv'
<1> USE DEF RecallInv
<1>1. Live' = Live
  BY DEF Live
<1>t. TypeOK'
  BY <1>1 DEF TypeOK
<1>a. JobsFit' /\ GoneStay' /\ EntriesCounted' /\ FindsCounted' /\ Underway'
  BY <1>1 DEF JobsFit, GoneStay, EntriesCounted, FindsCounted, Underway
<1>e. \A f : Fresh(f)' <=> Fresh(f)
  BY <1>1 DEF Fresh, Stale
<1>f. CopiesFresh'
  BY <1>e DEF CopiesFresh
<1>g. ForgottenGone' /\ RetiredOnlyFromCache'
  BY DEF ForgottenGone, RetiredOnlyFromCache
<1> QED  BY <1>t, <1>a, <1>f, <1>g

LEMMA StepCacheFill ==
  ASSUME RecallInv, NEW c \in Clients, CacheFill(c)
  PROVE  RecallInv'
<1> USE DEF redisVars, recallVars, tableVars, histVars
<1>1. PICK f \in fill[c] : /\ fill' = [fill EXCEPT ![c] = @ \ {f}]
                           /\ hot' = IF up THEN [hot EXCEPT ![f.id] = f] ELSE hot
  BY DEF CacheFill
<1>2. /\ fill \in [Clients -> SUBSET Copies] /\ hot \in [Ids -> Copies \union {None}]
      /\ \A i \in Ids : hot[i] # None => hot[i].id = i /\ Fresh(hot[i])
      /\ f \in Copies /\ f.id \in Ids /\ Fresh(f)
  <2>1. fill \in [Clients -> SUBSET Copies] /\ f \in Copies
    BY <1>1 DEF RecallInv, TypeOK
  <2> QED  BY <2>1 DEF RecallInv, TypeOK, CopiesFresh, Copies
<1>3. /\ fill' \in [Clients -> SUBSET Copies]
      /\ \A d \in Clients : fill'[d] \subseteq fill[d]
  BY <1>1, <1>2
<1>4. /\ hot' \in [Ids -> Copies \union {None}]
      /\ \A i \in Ids : hot'[i] # None => hot'[i].id = i /\ Fresh(hot'[i])
  BY <1>1, <1>2
<1>5. UNCHANGED <<row, retired, spent, indexed, up, pc, job, found, cached, answer,
                  before, settling, escaped, ghosts, ops, outages>>
  BY DEF CacheFill
<1> QED  BY <1>3, <1>4, <1>5, HotStep

LEMMA StepExpire ==
  ASSUME RecallInv, NEW i \in Ids, Expire(i)
  PROVE  RecallInv'
<1> USE DEF redisVars, recallVars, tableVars, histVars
<1>1. /\ hot' = [hot EXCEPT ![i] = None]
      /\ UNCHANGED <<row, retired, spent, indexed, up, pc, job, found, cached, answer,
                     before, fill, settling, escaped, ghosts, ops, outages>>
  BY DEF Expire
<1>2. /\ fill \in [Clients -> SUBSET Copies] /\ hot \in [Ids -> Copies \union {None}]
      /\ \A j \in Ids : hot[j] # None => hot[j].id = j /\ Fresh(hot[j])
  BY DEF RecallInv, TypeOK, CopiesFresh
<1>3. /\ hot' \in [Ids -> Copies \union {None}]
      /\ \A j \in Ids : hot'[j] # None => hot'[j].id = j /\ Fresh(hot'[j])
  BY <1>1, <1>2
<1> QED  BY <1>1, <1>2, <1>3, HotStep

-----------------------------------------------------------------------------
(* remember.                                                                *)

LEMMA StepRememberInsert ==
  ASSUME RecallInv, NEW c \in Clients, RememberInsert(c)
  PROVE  RecallInv'
<1> USE DEF RecallInv, redisVars, recallVars, histVars
<1> DEFINE text == job[c].text
           dups == {i \in Live : row[i] = text}
<1>1. PICK i \in IF dups = {} THEN Ids \ spent ELSE dups :
        /\ row' = [row EXCEPT ![i] = text] /\ spent' = spent \union {i}
        /\ job' = [job EXCEPT ![c].id = i]
  BY DEF RememberInsert
<1>2. /\ pc' = [pc EXCEPT ![c] = "index"] /\ pc[c] = "insert" /\ text \in Texts
      /\ UNCHANGED <<retired, indexed, hot, up, found, cached, answer, before, fill,
                     settling, escaped, ghosts, ops, outages>>
  BY DEF RememberInsert, JobsFit
<1>3. i \in Ids /\ (i \in spent => i \in Live /\ row[i] = text)
  BY <1>1 DEF GoneStay, Live
<1> HIDE DEF text, dups
<1>4. /\ row' \in [Ids -> Texts \union {None}] /\ row'[i] = text
      /\ \A j \in Ids \ {i} : row'[j] = row[j]
  BY <1>1, <1>2, <1>3 DEF TypeOK
<1>5. Live' = Live \union {i}
  BY <1>2, <1>3, <1>4, RecallAssumption DEF Live, RecallAssumption
<1>6. /\ Apart(c) /\ pc'[c] = "index"
      /\ job'[c].id = i /\ job'[c].text = text /\ job'[c].mode = job[c].mode
  <2>1. "index" \in Steps /\ job[c] \in Jobs /\ pc \in [Clients -> Steps]
          /\ job \in [Clients -> Jobs]
    BY DEF Steps, TypeOK
  <2>2. /\ [job[c] EXCEPT !.id = i] \in Jobs /\ [job[c] EXCEPT !.id = i].id = i
        /\ [job[c] EXCEPT !.id = i].text = job[c].text
        /\ [job[c] EXCEPT !.id = i].mode = job[c].mode
    BY <1>3, <2>1 DEF Jobs
  <2>3. job' = [job EXCEPT ![c] = [job[c] EXCEPT !.id = i]]
    BY <1>1
  <2> DEFINE new == [job[c] EXCEPT !.id = i]
  <2> HIDE DEF new
  <2>4. /\ job' \in [Clients -> Jobs] /\ job'[c] = new
        /\ \A d \in Clients \ {c} : job'[d] = job[d]
    BY <2>1, <2>2, <2>3 DEF new
  <2>5. pc' \in [Clients -> Steps] /\ pc'[c] = "index"
          /\ \A d \in Clients \ {c} : pc'[d] = pc[d]
    BY <1>2, <2>1
  <2> QED  BY <2>2, <2>4, <2>5 DEF Apart, new, text
<1>t. TypeOK'
  BY <1>1, <1>2, <1>3, <1>4, <1>5, <1>6 DEF TypeOK, Apart
<1>a. JobsFit'
  BY <1>1, <1>2, <1>6 DEF JobsFit, Apart
<1>b. GoneStay'
  BY <1>1, <1>2, <1>3, <1>5 DEF GoneStay, TypeOK
<1>c. EntriesCounted' /\ FindsCounted'
  BY <1>2, <1>5, <1>6 DEF EntriesCounted, FindsCounted, Apart
<1>d. Underway'
  BY <1>2, <1>5, <1>6 DEF Underway, Apart
<1>e. \A f : Fresh(f) => Fresh(f)'
  <2>1. SUFFICES ASSUME NEW f, Fresh(f) PROVE Fresh(f)'
    OBVIOUS
  <2>2. f.id \in spent /\ spent \subseteq Ids
    BY <2>1 DEF Fresh, TypeOK
  <2>3. f.id \in Live' => f.id \in Live /\ row'[f.id] = row[f.id]
    BY <1>3, <1>4, <1>5, <2>2
  <2>4. Stale(f.id) => Stale(f.id)'
    BY <1>2, <1>6, StaleKept
  <2> QED  BY <1>1, <1>2, <2>1, <2>2, <2>3, <2>4 DEF Fresh
<1>f. CopiesFresh'
  BY <1>2, <1>6, <1>e DEF CopiesFresh, Apart
<1>g. ForgottenGone' /\ RetiredOnlyFromCache'
  BY <1>2 DEF ForgottenGone, RetiredOnlyFromCache
<1> QED  BY <1>t, <1>a, <1>b, <1>c, <1>d, <1>f, <1>g

\* What an index entry for fragment i does to the accounts.
LEMMA IndexEntry ==
  ASSUME RecallInv, NEW c \in Clients, NEW i \in spent, Index(i), Apart(c),
         pc'[c] # "dropRow", job[c].id = i,
         pc[c] \in {"index", "reindex"}, up' = up, outages' = outages,
         row' = row, found' = found, before' = before, cached' = cached
  PROVE  /\ Live' = Live /\ EntriesCounted' /\ FindsCounted' /\ Underway'
         /\ indexed' \subseteq Ids /\ ghosts' \subseteq Ids
         /\ ghosts \subseteq ghosts'
<1> USE DEF RecallInv
<1>1. Live' = Live
  BY DEF Live
<1>2. /\ indexed' = IF up THEN indexed \union {i} ELSE indexed
      /\ ghosts \subseteq ghosts' /\ ghosts' \subseteq ghosts \union {i}
      /\ up /\ i \notin Live => i \in ghosts'
      /\ \A d \in Clients : up /\ pc[d] = "dropRow" /\ job[d].id = i => i \in ghosts'
  BY DEF Index
<1>3. EntriesCounted'
  <2>1. (indexed \ Live)' \subseteq ghosts'
    BY <1>1, <1>2 DEF EntriesCounted
  <2>2. ASSUME NEW d \in Clients, pc'[d] = "dropRow", job'[d].id \in indexed'
        PROVE  job'[d].id \in ghosts'
    BY <1>2, <2>2 DEF EntriesCounted, Apart
  <2> QED  BY <2>1, <2>2 DEF EntriesCounted
<1>4. FindsCounted'
  BY <1>2 DEF FindsCounted
<1>5. Underway'
  BY <1>1, <1>2 DEF Underway, Apart
<1>6. i \in Ids /\ indexed \subseteq Ids /\ ghosts \subseteq Ids
  BY DEF TypeOK
<1> QED  BY <1>1, <1>2, <1>3, <1>4, <1>5, <1>6

LEMMA StepRememberIndex ==
  ASSUME RecallInv, NEW c \in Clients, RememberIndex(c)
  PROVE  RecallInv'
<1> USE DEF RecallInv, tableVars, recallVars
<1> DEFINE i == job[c].id
<1>1. /\ pc[c] = "index" /\ i \in spent /\ Index(i)
      /\ UNCHANGED <<row, retired, spent, hot, up, found, cached, answer, before,
                     fill, settling, escaped, ops, outages>>
  BY DEF RememberIndex, JobsFit
<1>2. /\ Apart(c) /\ pc'[c] \in {"idle", "retire"}
      /\ pc'[c] = "retire" => job' = job
  <2>1. CASE Return(c)
    BY <2>1, ReturnType
  <2>2. CASE Goto(c, "retire")
    <3>1. "retire" \in Steps
      BY DEF Steps
    <3> QED  BY <2>2, <3>1, GotoType
  <2> QED  BY <2>1, <2>2 DEF RememberIndex
<1>3. /\ Live' = Live /\ EntriesCounted' /\ FindsCounted' /\ Underway'
      /\ indexed' \subseteq Ids /\ ghosts' \subseteq Ids
      /\ ghosts \subseteq ghosts'
  BY <1>1, <1>2, IndexEntry
<1>t. TypeOK'
  BY <1>1, <1>2, <1>3 DEF TypeOK, Apart
<1>a. JobsFit'
  BY <1>1, <1>2 DEF JobsFit, Apart
<1>b. GoneStay'
  BY <1>1, <1>3 DEF GoneStay
<1>e. \A f : Fresh(f) => Fresh(f)'
  BY <1>1, <1>2, <1>3, FreshKept, StaleKept
<1>f. CopiesFresh'
  BY <1>1, <1>2, <1>e DEF CopiesFresh, Apart
<1>g. ForgottenGone' /\ RetiredOnlyFromCache'
  BY <1>1, <1>3 DEF ForgottenGone, RetiredOnlyFromCache
<1> QED  BY <1>t, <1>a, <1>b, <1>3, <1>f, <1>g

LEMMA StepRememberRetire ==
  ASSUME RecallInv, NEW c \in Clients, RememberRetire(c)
  PROVE  RecallInv'
<1> USE DEF RecallInv, redisVars, recallVars, histVars
<1>1. Apart(c) /\ pc'[c] = "idle" /\ job'[c] = NoJob /\ pc[c] = "retire"
  BY ReturnType DEF RememberRetire
<1>2. /\ retired' = retired \union ({job[c].old} \intersect Live)
      /\ UNCHANGED <<row, spent, indexed, hot, up, found, cached, answer, before, fill,
                     settling, escaped, ghosts, ops, outages>>
  BY DEF RememberRetire
<1>3. Live' = Live
  BY <1>2 DEF Live
<1>t. TypeOK'
  BY <1>1, <1>2, <1>3 DEF TypeOK, Apart
<1>a. JobsFit'
  BY <1>1, <1>2 DEF JobsFit, Apart
<1>b. GoneStay' /\ EntriesCounted' /\ FindsCounted'
  BY <1>1, <1>2, <1>3 DEF GoneStay, EntriesCounted, FindsCounted, Apart
<1>d. Underway'
  BY <1>1, <1>2, <1>3 DEF Underway, Apart
<1>e. \A f : Fresh(f) => Fresh(f)'
  BY <1>1, <1>2, <1>3, FreshKept, StaleKept
<1>f. CopiesFresh'
  BY <1>1, <1>2, <1>e DEF CopiesFresh, Apart
<1>g. ForgottenGone' /\ RetiredOnlyFromCache'
  BY <1>2 DEF ForgottenGone, RetiredOnlyFromCache
<1> QED  BY <1>t, <1>a, <1>b, <1>d, <1>f, <1>g

-----------------------------------------------------------------------------
(* amend.                                                                   *)

LEMMA StepAmendCommit ==
  ASSUME RecallInv, NEW c \in Clients, AmendCommit(c)
  PROVE  RecallInv'
<1> USE DEF RecallInv, redisVars, recallVars
<1> DEFINE text == job[c].text
<1>i. PICK i : i = job[c].id
  OBVIOUS
<1>1. /\ pc[c] = "commit" /\ i \in spent /\ text \in Texts /\ i \in Ids
      /\ UNCHANGED <<retired, spent, indexed, hot, up, found, cached, answer, before,
                     fill, escaped, ghosts, ops, outages>>
  BY <1>i DEF AmendCommit, JobsFit, TypeOK
<1>2. CASE Return(c) /\ UNCHANGED <<row, settling>>
  <2>1. Apart(c) /\ pc'[c] = "idle"
    BY <1>2, ReturnType
  <2>2. Aside /\ JobsFit'
    BY <1>1, <1>2, <2>1 DEF Aside, JobsFit, Apart
  <2>3. ops' \in 0..MaxOps
    BY <1>1 DEF TypeOK
  <2> QED  BY <1>1, <2>1, <2>2, <2>3, AsideStep
<1>3. CASE /\ i \in Live
           /\ row' = [row EXCEPT ![i] = text]
           /\ settling' = [settling EXCEPT ![i] = @ \union {row[i]}]
           /\ Goto(c, "deindex")
  <2>1. Apart(c) /\ pc'[c] = "deindex" /\ job' = job
    <3>1. "deindex" \in Steps
      BY DEF Steps
    <3> QED  BY <1>3, <3>1, GotoType
  <2> HIDE DEF text
  <2>2. /\ row' \in [Ids -> Texts \union {None}] /\ row'[i] = text
        /\ \A j \in Ids \ {i} : row'[j] = row[j]
    BY <1>1, <1>3 DEF TypeOK
  <2>3. row[i] \in Texts
    BY <1>3 DEF Live, TypeOK
  <2>4. /\ settling' \in [Ids -> SUBSET Texts] /\ settling'[i] = settling[i] \union {row[i]}
        /\ \A j \in Ids \ {i} : settling'[j] = settling[j]
    BY <1>1, <1>3, <2>3 DEF TypeOK
  <2>5. Live' = Live
    BY <1>1, <1>3, <2>2, RecallAssumption DEF Live, RecallAssumption
  <2>6. Stale(i)'
    BY <1>i, <2>1 DEF Stale
  <2>t. TypeOK'
    BY <1>1, <2>1, <2>2, <2>4, <2>5 DEF TypeOK, Apart
  <2>a. JobsFit'
    BY <1>1, <1>i, <2>1 DEF JobsFit, Apart
  <2>b. GoneStay' /\ EntriesCounted' /\ FindsCounted'
    BY <1>1, <2>1, <2>5 DEF GoneStay, EntriesCounted, FindsCounted, Apart
  <2>d. Underway'
    BY <1>1, <2>1, <2>5 DEF Underway, Apart
  <2>e. \A f : Fresh(f) => Fresh(f)'
    <3>1. SUFFICES ASSUME NEW f, Fresh(f) PROVE Fresh(f)'
      OBVIOUS
    <3>2. f.id \in Ids
      BY <3>1 DEF Fresh, TypeOK
    <3>5. Stale(f.id) => Stale(f.id)'
      <4>1. Apart(c) /\ pc[c] # "deindex"
        BY <1>1, <2>1
      <4> QED  BY <4>1, StaleKept
    <3>3. CASE f.id = i
      <4>1. i \in Live \ escaped => f.text = row[i] \/ f.text \in settling[i]
        BY <3>1, <3>3 DEF Fresh
      <4>2. i \in Live \ escaped => f.text \in settling'[i]
        BY <2>4, <4>1
      <4> QED  BY <1>1, <2>5, <2>6, <3>1, <3>3, <4>2 DEF Fresh
    <3>4. CASE f.id # i
      BY <1>1, <2>2, <2>4, <2>5, <3>1, <3>2, <3>4, <3>5 DEF Fresh
    <3> QED  BY <3>3, <3>4
  <2>f. CopiesFresh'
    BY <1>1, <2>1, <2>e DEF CopiesFresh, Apart
  <2>g. ForgottenGone' /\ RetiredOnlyFromCache'
    BY <1>1 DEF ForgottenGone, RetiredOnlyFromCache
  <2> QED  BY <2>t, <2>a, <2>b, <2>d, <2>f, <2>g
<1> QED  BY <1>2, <1>3, <1>i DEF AmendCommit

\* The invalidation, of amend and of forget: copies that stay behind escaped.
LEMMA DeindexStep ==
  ASSUME RecallInv, NEW c \in Clients, Deindex(job[c].id),
         \/ pc[c] = "deindex" /\ Goto(c, "reindex")
         \/ pc[c] = "dropIndex" /\ Goto(c, "dropRow"),
         UNCHANGED <<tableVars, up, recallVars, fill, settling, ops, outages>>
  PROVE  RecallInv'
<1> USE DEF RecallInv, tableVars, recallVars
<1> DEFINE i == job[c].id
<1>1. /\ Apart(c) /\ job' = job
      /\ \/ pc[c] = "deindex" /\ pc'[c] = "reindex"
         \/ pc[c] = "dropIndex" /\ pc'[c] = "dropRow"
  <2>1. "reindex" \in Steps /\ "dropRow" \in Steps
    BY DEF Steps
  <2> QED  BY <2>1, GotoType
<1>2. i \in spent /\ i \in Ids
  BY <1>1 DEF JobsFit, TypeOK
<1>3. Live' = Live
  BY DEF Live
<1>4. /\ indexed' = IF up THEN indexed \ {i} ELSE indexed
      /\ ghosts' = IF up THEN ghosts ELSE ghosts \union {i}
      /\ escaped' \subseteq escaped \union {i} /\ escaped \ {i} \subseteq escaped'
  BY DEF Deindex
<1>5. /\ hot' \in [Ids -> Copies \union {None}]
      /\ up => hot'[i] = None
      /\ \A j \in Ids : hot'[j] # None => hot'[j] = hot[j]
  BY <1>2 DEF Deindex, TypeOK
<1>6. i \notin escaped' => up /\ \A f \in InFlight(i) : f.text = row[i]
  BY DEF Deindex
<1> HIDE DEF i
<1>t. TypeOK'
  <2>1. escaped' \subseteq Ids /\ ghosts' \subseteq Ids /\ indexed' \subseteq Ids
    BY <1>2, <1>4 DEF TypeOK
  <2> QED  BY <1>1, <1>3, <1>5, <2>1 DEF TypeOK, Apart
<1>a. JobsFit'
  BY <1>1 DEF JobsFit, Apart
<1>b. GoneStay'
  BY <1>3 DEF GoneStay
<1>k. EntriesCounted'
  <2>1. (indexed \ Live)' \subseteq ghosts'
    BY <1>3, <1>4 DEF EntriesCounted
  <2>2. ASSUME NEW d \in Clients, pc'[d] = "dropRow", job'[d].id \in indexed'
        PROVE  job'[d].id \in ghosts'
    <3>1. CASE d = c
      BY <1>1, <1>4, <2>2, <3>1 DEF i
    <3>2. CASE d # c
      BY <1>1, <1>4, <2>2, <3>2 DEF EntriesCounted, Apart
    <3> QED  BY <3>1, <3>2
  <2> QED  BY <2>1, <2>2 DEF EntriesCounted
<1>c. FindsCounted'
  BY <1>4 DEF FindsCounted
<1>d. Underway'
  <2>1. SUFFICES ASSUME outages = 0
                 PROVE  /\ up'
                        /\ \A j \in Live' \ indexed' : \E d \in Clients :
                             pc'[d] \in {"index", "reindex", "dropRow"} /\ job'[d].id = j
    BY DEF Underway
  <2>2. up /\ indexed' = indexed \ {i}
    BY <1>4, <2>1 DEF Underway
  <2>3. ASSUME NEW j \in Live \ indexed
        PROVE  \E d \in Clients :
                 pc'[d] \in {"index", "reindex", "dropRow"} /\ job'[d].id = j
    BY <1>1, <2>1, <2>3 DEF Underway, Apart
  <2> QED  BY <1>1, <1>3, <2>2, <2>3 DEF i
\* A copy of another fragment, or one in flight, is as fresh as before.
<1>e. ASSUME NEW f, Fresh(f), f.id = i => f \in InFlight(i)
      PROVE  Fresh(f)'
  <2>1. CASE f.id = i
    BY <1>2, <1>3, <1>6, <1>e, <2>1 DEF Fresh
  <2>2. CASE f.id # i
    <3>1. Stale(f.id) => Stale(f.id)'
      BY <1>1, <2>2 DEF Stale, Apart, i
    <3> QED  BY <1>3, <1>4, <1>e, <2>2, <3>1 DEF Fresh
  <2> QED  BY <2>1, <2>2
<1>f. CopiesFresh'
  <2>1. \A d \in Clients : \A f \in fill'[d] : Fresh(f)'
    BY <1>e DEF CopiesFresh, InFlight, TypeOK
  <2>2. ASSUME NEW d \in Clients, pc'[d] = "rows", NEW f \in cached'[d]
        PROVE  Fresh(f)'
    <3>1. pc[d] = "rows" /\ f \in cached[d]
      BY <1>1, <2>2 DEF Apart
    <3>2. Fresh(f)
      BY <3>1 DEF CopiesFresh
    <3>3. f.id = i => f \in InFlight(i)
      BY <3>1 DEF InFlight, TypeOK
    <3> QED  BY <1>e, <3>2, <3>3
  <2>3. ASSUME NEW j \in Ids, hot'[j] # None  PROVE Fresh(hot[j])' /\ hot'[j] = hot[j]
    <3>1. hot'[j] = hot[j] /\ Fresh(hot[j]) /\ hot[j].id = j
      BY <1>5, <2>3 DEF CopiesFresh, TypeOK
    <3>2. CASE j # i
      BY <1>e, <3>1, <3>2
    <3>3. CASE j = i
      BY <1>2, <1>3, <1>5, <1>6, <2>3, <3>1, <3>3 DEF Fresh
    <3> QED  BY <3>1, <3>2, <3>3
  <2> QED  BY <2>1, <2>2, <2>3 DEF CopiesFresh
<1>g. ForgottenGone' /\ RetiredOnlyFromCache'
  BY <1>4 DEF ForgottenGone, RetiredOnlyFromCache
<1> QED  BY <1>t, <1>a, <1>b, <1>k, <1>c, <1>d, <1>f, <1>g

\* The last amend of i to finish: no amend of i is before its invalidation, so no
\* copy needs a replaced text to be fresh.
LEMMA StepAmendReindex ==
  ASSUME RecallInv, NEW c \in Clients, AmendReindex(c)
  PROVE  RecallInv'
<1> USE DEF RecallInv, tableVars, recallVars
<1> DEFINE i == job[c].id
<1>1. /\ pc[c] = "reindex" /\ i \in spent /\ i \in Ids /\ Index(i)
      /\ UNCHANGED <<row, retired, spent, hot, up, found, cached, answer, before,
                     fill, escaped, ops, outages>>
  BY DEF AmendReindex, JobsFit, TypeOK
<1>2. Apart(c) /\ pc'[c] = "idle" /\ job'[c] = NoJob
  BY ReturnType DEF AmendReindex
<1>3. /\ settling' \in [Ids -> SUBSET Texts]
      /\ \A j \in Ids : settling'[j] = settling[j] \/ ~ Stale(j)
  <2>1. CASE settling' = settling
    BY <2>1 DEF TypeOK
  <2>2. CASE /\ settling' = [settling EXCEPT ![i] = {}]
             /\ ~ \E d \in Clients \ {c} :
                    job[d].id = i /\ pc[d] \in {"deindex", "reindex"}
    <3>1. ~ Stale(i)
      BY <1>1, <2>2 DEF Stale
    <3> QED  BY <1>1, <2>2, <3>1 DEF TypeOK
  <2> QED  BY <2>1, <2>2 DEF AmendReindex
<1>4. /\ Live' = Live /\ EntriesCounted' /\ FindsCounted' /\ Underway'
      /\ indexed' \subseteq Ids /\ ghosts' \subseteq Ids
      /\ ghosts \subseteq ghosts'
  BY <1>1, <1>2, IndexEntry
<1>t. TypeOK'
  BY <1>1, <1>2, <1>3, <1>4 DEF TypeOK, Apart
<1>a. JobsFit'
  BY <1>1, <1>2 DEF JobsFit, Apart
<1>b. GoneStay'
  BY <1>1, <1>4 DEF GoneStay
<1>e. \A f : Fresh(f) => Fresh(f)'
  <2>1. SUFFICES ASSUME NEW f, Fresh(f) PROVE Fresh(f)'
    OBVIOUS
  <2>2. f.id \in Ids /\ (Stale(f.id) => Stale(f.id)')
    BY <1>1, <1>2, <2>1, StaleKept DEF Fresh, TypeOK
  <2> QED  BY <1>1, <1>3, <1>4, <2>1, <2>2 DEF Fresh
<1>f. CopiesFresh'
  BY <1>1, <1>2, <1>e DEF CopiesFresh, Apart
<1>g. ForgottenGone' /\ RetiredOnlyFromCache'
  BY <1>1, <1>4 DEF ForgottenGone, RetiredOnlyFromCache
<1> QED  BY <1>t, <1>a, <1>b, <1>4, <1>f, <1>g

-----------------------------------------------------------------------------
(* forget, the collector and the connection.                                *)

LEMMA StepForgetRead ==
  ASSUME RecallInv, NEW c \in Clients, ForgetRead(c)
  PROVE  RecallInv'
<1> USE DEF RecallInv, tableVars, redisVars, recallVars, histVars
<1>1. /\ pc[c] = "forgetRead" /\ Aside /\ ops' \in 0..MaxOps
  BY DEF ForgetRead, Aside, TypeOK
<1>2. /\ Apart(c) /\ pc'[c] \in {"idle", "dropIndex"}
      /\ pc'[c] = "dropIndex" => job' = job
  <2>1. CASE Return(c)
    BY <2>1, ReturnType
  <2>2. CASE Goto(c, "dropIndex")
    <3>1. "dropIndex" \in Steps
      BY DEF Steps
    <3> QED  BY <2>2, <3>1, GotoType
  <2> QED  BY <2>1, <2>2 DEF ForgetRead
<1>3. JobsFit'
  BY <1>1, <1>2 DEF JobsFit, Apart, Aside
<1> QED  BY <1>1, <1>2, <1>3, AsideStep

\* A row is deleted: its index entries, if any, are ghosts by now.
LEMMA RowGone ==
  ASSUME RecallInv, NEW i \in Ids, row' = [row EXCEPT ![i] = None],
         retired' = retired \ {i}, ghosts \subseteq ghosts', ghosts' \subseteq Ids,
         i \in indexed => i \in ghosts',
         pc' \in [Clients -> Steps], job' \in [Clients -> Jobs],
         \A d \in Clients : \/ pc'[d] = pc[d] /\ job'[d] = job[d]
                            \/ pc[d] = "dropRow" /\ job[d].id = i /\ pc'[d] = "idle",
         UNCHANGED <<spent, indexed, hot, up, found, cached, answer, before, fill,
                     settling, escaped, ops, outages>>
  PROVE  RecallInv'
<1> USE DEF RecallInv
<1>1. /\ row' \in [Ids -> Texts \union {None}] /\ row'[i] = None
      /\ \A j \in Ids \ {i} : row'[j] = row[j]
  BY DEF TypeOK
<1>2. Live' = Live \ {i}
  BY <1>1 DEF Live
<1>t. TypeOK'
  BY <1>1, <1>2 DEF TypeOK
<1>a. JobsFit'
  <2>1. ASSUME NEW d \in Clients, pc'[d] = pc[d], job'[d] = job[d]
        PROVE  JobsFit!(d)'
    BY <2>1 DEF JobsFit
  <2> QED  BY <2>1 DEF JobsFit
<1>b. GoneStay'
  <2>1. retired \subseteq Live
    BY DEF TypeOK
  <2> QED  BY <1>2, <2>1 DEF GoneStay
<1>k. EntriesCounted' /\ FindsCounted'
  BY <1>2 DEF EntriesCounted, FindsCounted
<1>d. Underway'
  BY <1>2 DEF Underway
<1>e. \A f : Fresh(f) => Fresh(f)'
  <2>1. SUFFICES ASSUME NEW f, Fresh(f) PROVE Fresh(f)'
    OBVIOUS
  <2>2. Stale(f.id) => Stale(f.id)'
    BY DEF Stale
  <2>3. f.id \in Ids
    BY <2>1 DEF Fresh, TypeOK
  <2> QED  BY <1>1, <1>2, <2>1, <2>2, <2>3 DEF Fresh
<1>f. CopiesFresh'
  BY <1>e DEF CopiesFresh
<1>g. ForgottenGone' /\ RetiredOnlyFromCache'
  BY DEF ForgottenGone, RetiredOnlyFromCache
<1> QED  BY <1>t, <1>a, <1>b, <1>k, <1>d, <1>f, <1>g

LEMMA StepForgetRow ==
  ASSUME RecallInv, NEW c \in Clients, ForgetRow(c)
  PROVE  RecallInv'
<1> USE DEF redisVars, recallVars, histVars
<1> DEFINE i == job[c].id
<1>1. Apart(c) /\ pc'[c] = "idle" /\ pc[c] = "dropRow"
  BY ReturnType DEF ForgetRow, RecallInv
<1>2. i \in Ids /\ (i \in indexed => i \in ghosts) /\ ghosts \subseteq Ids
  BY <1>1 DEF RecallInv, JobsFit, EntriesCounted, TypeOK
<1>3. /\ row' = [row EXCEPT ![i] = None] /\ retired' = retired \ {i}
      /\ UNCHANGED <<spent, indexed, hot, up, found, cached, answer, before, fill,
                     settling, escaped, ghosts, ops, outages>>
  BY DEF ForgetRow
<1> QED  BY <1>1, <1>2, <1>3, RowGone DEF Apart

LEMMA StepCollect ==
  ASSUME RecallInv, NEW i \in Ids, Collect(i)
  PROVE  RecallInv'
<1> USE DEF redisVars, recallVars
<1>1. pc \in [Clients -> Steps] /\ job \in [Clients -> Jobs] /\ ghosts \subseteq Ids
  BY DEF RecallInv, TypeOK
<1>2. /\ row' = [row EXCEPT ![i] = None] /\ retired' = retired \ {i}
      /\ ghosts' = ghosts \union {i}
      /\ UNCHANGED <<spent, indexed, hot, up, pc, job, found, cached, answer, before,
                     fill, settling, escaped, ops, outages>>
  BY DEF Collect
<1> QED  BY <1>1, <1>2, RowGone

LEMMA StepOutage ==
  ASSUME RecallInv, Outage
  PROVE  RecallInv'
<1> USE DEF RecallInv, tableVars, redisVars, recallVars, histVars
<1>1. /\ up' \in BOOLEAN /\ outages' \in 0..MaxOutages
      /\ outages' = 0 => ~ up /\ outages = 0
      /\ UNCHANGED <<row, retired, spent, indexed, hot, pc, job, found, cached, answer,
                     before, fill, settling, escaped, ghosts, ops>>
  BY RecallAssumption DEF Outage, TypeOK, RecallAssumption
<1>2. Live' = Live
  BY <1>1 DEF Live
<1>t. TypeOK'
  BY <1>1, <1>2 DEF TypeOK
<1>a. JobsFit' /\ GoneStay' /\ EntriesCounted' /\ FindsCounted' /\ Underway'
  BY <1>1, <1>2 DEF JobsFit, GoneStay, EntriesCounted, FindsCounted, Underway
<1>e. \A f : Fresh(f)' <=> Fresh(f)
  BY <1>1, <1>2 DEF Fresh, Stale
<1>f. CopiesFresh'
  BY <1>1, <1>e DEF CopiesFresh
<1>g. ForgottenGone' /\ RetiredOnlyFromCache'
  BY <1>1 DEF ForgottenGone, RetiredOnlyFromCache
<1> QED  BY <1>t, <1>a, <1>f, <1>g

-----------------------------------------------------------------------------
(* The theorems.                                                            *)

LEMMA RecallStep == RecallInv /\ [Next]_vars => RecallInv'
<1> SUFFICES ASSUME RecallInv, [Next]_vars PROVE RecallInv'
  OBVIOUS
<1>1. CASE UNCHANGED vars
  <2>1. UNCHANGED <<row, retired, spent, indexed, hot, up, pc, job, found, cached,
                    answer, before, fill, settling, escaped, ghosts, ops, outages>>
    BY <1>1 DEF vars, tableVars, redisVars, recallVars, histVars
  <2>2. hot' \in [Ids -> Copies \union {None}] /\ fill' \in [Clients -> SUBSET Copies]
          /\ \A i \in Ids : hot'[i] # None => hot'[i].id = i /\ Fresh(hot'[i])
    BY <2>1 DEF RecallInv, TypeOK, CopiesFresh
  <2> QED  BY <2>1, <2>2, HotStep
<1>2. ASSUME NEW c \in Clients, Request(c) PROVE RecallInv'
  BY <1>2, StepRecallStart, StepWriterStart DEF Request
<1>3. ASSUME NEW c \in Clients, Step(c) PROVE RecallInv'
  <2>1. CASE RecallHotRead(c)   BY <2>1, StepRecallHotRead
  <2>2. CASE RecallAnswer(c)    BY <2>2, StepRecallAnswer
  <2>3. CASE CacheFill(c)       BY <2>3, StepCacheFill
  <2>4. CASE RememberInsert(c)  BY <2>4, StepRememberInsert
  <2>5. CASE RememberIndex(c)   BY <2>5, StepRememberIndex
  <2>6. CASE RememberRetire(c)  BY <2>6, StepRememberRetire
  <2>7. CASE AmendCommit(c)     BY <2>7, StepAmendCommit
  <2>8. CASE AmendDeindex(c)    BY <2>8, DeindexStep DEF AmendDeindex
  <2>9. CASE AmendReindex(c)    BY <2>9, StepAmendReindex
  <2>10. CASE ForgetRead(c)     BY <2>10, StepForgetRead
  <2>11. CASE ForgetDeindex(c)  BY <2>11, DeindexStep DEF ForgetDeindex
  <2>12. CASE ForgetRow(c)      BY <2>12, StepForgetRow
  <2> QED  BY <1>3, <2>1, <2>2, <2>3, <2>4, <2>5, <2>6, <2>7, <2>8, <2>9, <2>10,
              <2>11, <2>12 DEF Step
<1>4. ASSUME NEW i \in Ids, Expire(i) \/ Collect(i) PROVE RecallInv'
  BY <1>4, StepExpire, StepCollect
<1>5. CASE Outage
  BY <1>5, StepOutage
<1> QED  BY <1>1, <1>2, <1>3, <1>4, <1>5 DEF Next

\* What the invariant is for: between requests nobody is underway, and a hot copy
\* that no amend is about to invalidate has the row's text.
LEMMA InvShows == RecallInv => HotFresh /\ LiveIndexed
<1> SUFFICES ASSUME RecallInv PROVE HotFresh /\ LiveIndexed
  OBVIOUS
<1>1. HotFresh
  <2>1. SUFFICES ASSUME NEW i \in Live \ escaped, hot[i] # None
                 PROVE  hot[i].text \in {row[i]} \union settling[i]
    BY DEF HotFresh
  <2>2. i \in Ids
    BY DEF Live
  <2>3. hot[i].id = i /\ Fresh(hot[i])
    BY <2>1, <2>2 DEF RecallInv, TypeOK, CopiesFresh
  <2> QED  BY <2>3 DEF Fresh
<1>2. LiveIndexed
  <2>1. SUFFICES ASSUME outages = 0, \A c \in Clients : pc[c] = "idle",
                        NEW i \in Live \ indexed
                 PROVE  FALSE
    BY DEF LiveIndexed
  <2>2. PICK c \in Clients : pc[c] \in {"index", "reindex", "dropRow"}
    BY <2>1 DEF RecallInv, Underway
  <2> QED  BY <2>1, <2>2
<1> QED  BY <1>1, <1>2

LEMMA RecallInvHolds == Spec => []RecallInv
<1> QED  BY RecallInit, RecallStep, PTL DEF Spec

\* The hot cache follows amends (FragmentIndex.deindex behind update()): a copy of a
\* live fragment holds the text of the row, or one that an unfinished amend has
\* replaced, unless an outdated copy was in flight, or Redis away, at the last
\* invalidation.
THEOREM CacheCoherent == Spec => []HotFresh
<1> QED  BY RecallInvHolds, InvShows, PTL

\* What was forgotten before a recall began is not in its answer, apart from the
\* fragments whose index entries outlived their rows, and between requests the index
\* misses no fragment while Redis has not been away.
THEOREM IndexFollowsTable == Spec => []IndexFits
<1>1. RecallInv => IndexFits
  BY InvShows DEF RecallInv, IndexFits
<1> QED  BY <1>1, RecallInvHolds, PTL

\* Superseded fragments reach a recall that did not ask for them only as copies of
\* the hot cache: every query, and getByIds, filters on valid_to (FragmentSearch.search).
THEOREM RetiredFromCacheOnly == Spec => []RetiredOnlyFromCache
<1>1. RecallInv => RetiredOnlyFromCache
  BY DEF RecallInv
<1> QED  BY <1>1, RecallInvHolds, PTL
=============================================================================
