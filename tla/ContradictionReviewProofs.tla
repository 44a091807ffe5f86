--------------------- MODULE ContradictionReviewProofs ----------------------
(***************************************************************************)
(* Theorems about ContradictionReview: what a retired fragment leaves      *)
(* behind (ReviewInv), when one side of a contradiction is left standing   *)
(* (OlderGiveWay), that the queue keeps what is flagged (QueueInv), and    *)
(* that the watermark passes no pair unseen (MarkInv).                     *)
(***************************************************************************)
EXTENDS ContradictionReview, FiniteSetTheorems, TLAPS

\* The pair a cycle resolves.
Hands == {"gemini", "ask", "contradicts", "halve", "link", "retire", "supLink",
          "supRetire"}

\* Closures, without the bounds on their numbers.
WideJobs == [fresh : SUBSET Frags, cands : SUBSET Frags, new : Frags \union {None},
             cand : Frags \union {None}, latest : Int, via : {"nli", "gemini", "pending"},
             gem : BOOLEAN, pairs : SUBSET Pairs, left : Int, since : Int]

Tables ==
  /\ embedded \subseteq Frags /\ retired \subseteq Frags
  /\ edge \in [Frags -> [Frags -> {None, "contradicts", "superseded_by"}]]
  /\ mark \in Int
  /\ pending \in Seq(Frags \X Frags)
  /\ \A i \in DOMAIN pending : pending[i][1] # pending[i][2]

\* What the step says of the closure.
Fits(step, j) ==
  /\ j.new \notin j.cands
  /\ j.cands # {} => j.new \in Frags
  /\ step \in Hands => j.new \in Frags /\ j.cand \in Frags /\ j.new # j.cand
  /\ step = "nli" => j.new \in Frags
  /\ step \in {"pairs", "pair", "supLink", "supRetire", "pop"} => j.cands = {}
  /\ step \in {"list", "next", "nli", "gemini"} => j.via = "nli"
  /\ j.via = "pending" => j.cands = {}

Closures ==
  /\ pc \in [Cycles -> Steps]
  /\ job \in [Cycles -> WideJobs]
  /\ \A c \in Cycles : Fits(pc[c], job[c])

\* A retirement is recorded before it is made.
Trace(c) ==
  /\ pc[c] = "retire" => edge[Loser(c)][Winner(c)] # None
  /\ pc[c] \in {"supLink", "supRetire"} => ~ Newer(job[c].new, job[c].cand)
  /\ pc[c] = "supRetire" => edge[job[c].new][job[c].cand] # None

Recorded == \A c \in Cycles : Trace(c)

ReviewInv == Tables /\ Closures /\ Recorded /\ SuccessorOnRecord
-----------------------------------------------------------------------------
\* A Date is a number.
LEMMA DateIsNumber == ASSUME NEW f \in Frags PROVE ToDate(Born[f]) \in Int
<1>1. Born[f] \in Int /\ Milli \in Int /\ Milli > 0
  BY ReviewAssumption
<1>2. Born[f] % Milli \in Int
  BY <1>1
<1> QED BY <1>1, <1>2 DEF ToDate

\* The two ways round a pair: who loses is in the pair, who wins is the other.
LEMMA LoserAndWinner ==
  ASSUME NEW c \in Cycles, Closures, pc[c] \in Hands
  PROVE  /\ Loser(c) \in Frags /\ Winner(c) \in Frags /\ Loser(c) # Winner(c)
         /\ InHand(c) = {Loser(c), Winner(c)}
         /\ ~ Newer(Loser(c), Winner(c))
<1>1. job[c].new \in Frags /\ job[c].cand \in Frags /\ job[c].new # job[c].cand
  BY DEF Closures, Fits
<1>2. Loser(c) \in InHand(c)
  BY DEF Loser, InHand
<1>3. \E f \in InHand(c) : f # Loser(c)
  BY <1>1 DEF InHand
<1>4. Winner(c) \in InHand(c) /\ Winner(c) # Loser(c)
  BY <1>3 DEF Winner
<1>5. CASE Newer(job[c].new, job[c].cand)
  <2>1. Loser(c) = job[c].cand /\ Winner(c) = job[c].new
    BY <1>1, <1>4, <1>5 DEF Loser, InHand
  <2>2. ToDate(Born[job[c].new]) \in Int /\ ToDate(Born[job[c].cand]) \in Int
    BY <1>1, DateIsNumber
  <2>3. ~ Newer(job[c].cand, job[c].new)
    BY <1>5, <2>2 DEF Newer
  <2> QED BY <1>1, <2>1, <2>3 DEF InHand
<1>6. CASE ~ Newer(job[c].new, job[c].cand)
  <2>1. Loser(c) = job[c].new /\ Winner(c) = job[c].cand
    BY <1>1, <1>4, <1>6 DEF Loser, InHand
  <2> QED BY <1>1, <1>6, <2>1 DEF InHand
<1> QED BY <1>5, <1>6

\* The fragments of a similar pair are two.
LEMMA PairsAreTwo ==
  ASSUME NEW f, NEW g, {f, g} \in Similar \union Near
  PROVE  f # g
<1>1. Cardinality({f, g}) = 2
  BY ReviewAssumption
<1>2. Cardinality({f}) = 1
  BY FS_Singleton
<1> QED BY <1>1, <1>2

\* With no link, no retirement and every cycle idle the invariant holds.
THEOREM ReviewInitially == Init => ReviewInv
<1> SUFFICES ASSUME Init PROVE ReviewInv
  OBVIOUS
<1> USE ReviewAssumption DEF Init
<1>1. Tables
  BY DEF Tables
<1>2. Closures
  BY DEF Closures, Fits, NoJob, WideJobs, Steps, Hands
<1>3. Recorded
  BY DEF Recorded, Trace
<1>4. SuccessorOnRecord
  BY DEF SuccessorOnRecord
<1> QED BY <1>1, <1>2, <1>3, <1>4 DEF ReviewInv

-----------------------------------------------------------------------------
\* Moving one cycle on keeps the closures in order if its new one is.
LEMMA GotoKeeps ==
  ASSUME NEW c \in Cycles, NEW step \in Steps, NEW j \in WideJobs,
         Closures, Fits(step, j), Goto(c, step, j)
  PROVE  Closures'
BY DEF Closures, Goto

\* What a cycle has recorded stays recorded while links are only added to.
LEMMA TraceKept ==
  ASSUME NEW d \in Cycles, Closures, Trace(d), pc'[d] = pc[d], job'[d] = job[d],
         \A f, g \in Frags : edge[f][g] # None => edge'[f][g] # None
  PROVE  Trace(d)'
<1>1. Loser(d)' = Loser(d) /\ Winner(d)' = Winner(d)
  BY DEF Loser, Winner, InHand
<1>2. CASE pc[d] = "retire"
  BY <1>1, <1>2, LoserAndWinner DEF Trace, Hands
<1>3. CASE pc[d] \in {"supLink", "supRetire"}
  BY <1>3 DEF Trace, Closures, Fits, Hands
<1>4. CASE pc[d] \notin {"retire", "supLink", "supRetire"}
  BY <1>4 DEF Trace
<1> QED BY <1>2, <1>3, <1>4

\* A step that adds links, retires nothing and leaves its own trace keeps both.
LEMMA RecordKept ==
  ASSUME NEW c \in Cycles, Closures, Recorded, SuccessorOnRecord, Trace(c)',
         NEW step, NEW j, Goto(c, step, j), retired' = retired, retired \subseteq Frags,
         \A f, g \in Frags : edge[f][g] # None => edge'[f][g] # None
  PROVE  Recorded' /\ SuccessorOnRecord'
<1>1. \A d \in Cycles \ {c} : pc'[d] = pc[d] /\ job'[d] = job[d]
  BY DEF Closures, Goto
<1>2. Recorded'
  BY <1>1, TraceKept DEF Recorded
<1>3. SuccessorOnRecord'
  BY DEF SuccessorOnRecord, Newer, ToDate
<1> QED BY <1>2, <1>3

\* createLink sets the relation of one pair and takes no link away.
LEMMA LinkAdds ==
  ASSUME NEW f \in Frags, NEW g \in Frags, NEW r \in {"contradicts", "superseded_by"},
         Tables, Link(f, g, r)
  PROVE  /\ edge' \in [Frags -> [Frags -> {None, "contradicts", "superseded_by"}]]
         /\ edge'[f][g] # None
         /\ \A x, y \in Frags : edge[x][y] # None => edge'[x][y] # None
BY ReviewAssumption DEF Tables, Link

\* The closure a turn of the loop leaves.
LEMMA TurnKeeps ==
  ASSUME NEW c \in Cycles, NEW j \in WideJobs, NEW processed \in BOOLEAN, Closures,
         j.new \in Frags, j.new \notin j.cands, j.via = "pending" => j.cands = {},
         Turn(c, j, processed)
  PROVE  /\ Closures'
         /\ pc'[c] \in {"pop", "next", "nli"}
         /\ \E step, k : Goto(c, step, k)
<1>1. CASE j.via = "pending"
  <2> DEFINE k == [j EXCEPT !.new = None, !.cand = None]
  <2>1. Goto(c, "pop", k)
    BY <1>1 DEF Turn
  <2>2. k \in WideJobs /\ Fits("pop", k)
    BY <1>1, ReviewAssumption DEF WideJobs, Fits, Hands
  <2>3. Closures'
    BY <2>1, <2>2, GotoKeeps DEF Steps
  <2> QED BY <2>1, <2>3 DEF Goto, Closures
<1>2. CASE j.via # "pending"
  <2> DEFINE step == IF j.cands = {} THEN "next" ELSE "nli"
  <2>1. Goto(c, step, Rest(j, processed))
    BY <1>2 DEF Turn
  <2>2. Rest(j, processed) \in WideJobs /\ Fits(step, Rest(j, processed))
    BY DateIsNumber DEF Rest, WideJobs, Fits, Hands
  <2>3. Closures'
    BY <2>1, <2>2, GotoKeeps DEF Steps
  <2>4. pc'[c] = step
    BY <2>1 DEF Goto, Closures
  <2> HIDE DEF step
  <2> QED BY <2>1, <2>3, <2>4 DEF step
<1> QED BY <1>1, <1>2
-----------------------------------------------------------------------------
\* The tables keep their form when edges, retirements, mark and queue do.
LEMMA QuietStep ==
  ASSUME NEW c \in Cycles, NEW step \in Steps \ {"retire", "supLink", "supRetire"},
         NEW j \in WideJobs, ReviewInv, Fits(step, j), Goto(c, step, j),
         embedded' = embedded, edge' = edge, retired' = retired, Tables'
  PROVE  ReviewInv'
<1>1. Closures'
  BY GotoKeeps DEF ReviewInv
<1>2. pc'[c] = step
  BY DEF Goto, ReviewInv, Closures
<1>3. Trace(c)'
  BY <1>2 DEF Trace
<1>4. Recorded' /\ SuccessorOnRecord'
  BY <1>3, RecordKept DEF ReviewInv, Tables
<1> QED BY <1>1, <1>4 DEF ReviewInv

\* The same for the end of a turn.
LEMMA QuietTurn ==
  ASSUME NEW c \in Cycles, NEW j \in WideJobs, NEW processed \in BOOLEAN, ReviewInv,
         j.new \in Frags, j.new \notin j.cands, j.via = "pending" => j.cands = {},
         Turn(c, j, processed),
         embedded' = embedded, edge' = edge, retired' = retired, Tables'
  PROVE  ReviewInv'
<1>1. Closures' /\ pc'[c] \in {"pop", "next", "nli"} /\ \E step, k : Goto(c, step, k)
  BY TurnKeeps DEF ReviewInv
<1>2. Trace(c)'
  BY <1>1 DEF Trace
<1>3. Recorded' /\ SuccessorOnRecord'
  BY <1>1, <1>2, RecordKept DEF ReviewInv, Tables
<1> QED BY <1>1, <1>3 DEF ReviewInv

\* Tables that only the model's fields of Redis change in keep their form.
LEMMA TablesSame ==
  ASSUME Tables, UNCHANGED <<tables, mark>>, pending' \in Seq(Frags \X Frags),
         \A i \in DOMAIN pending' : pending'[i][1] # pending'[i][2]
  PROVE  Tables'
BY DEF Tables, tables

\* A step that touches neither the tables nor Redis keeps their form.
LEMMA TablesUnchanged == ASSUME Tables, UNCHANGED <<tables, redis>> PROVE Tables'
BY DEF Tables, tables, redis

\* Putting the pair in hand into the queue.
LEMMA Queued ==
  ASSUME NEW c \in Cycles, Tables, Closures, pc[c] \in Hands, UNCHANGED <<tables, mark>>,
         pending' = Append(pending, <<job[c].new, job[c].cand>>)
  PROVE  Tables'
<1>1. job[c].new \in Frags /\ job[c].cand \in Frags /\ job[c].new # job[c].cand
  BY DEF Closures, Fits
<1>2. pending \in Seq(Frags \X Frags) /\ <<job[c].new, job[c].cand>> \in Frags \X Frags
  BY <1>1 DEF Tables
<1>3. pending' \in Seq(Frags \X Frags)
  BY <1>2
<1>4. ASSUME NEW i \in DOMAIN pending' PROVE pending'[i][1] # pending'[i][2]
  <2>1. CASE i \in DOMAIN pending
    BY <1>2, <2>1 DEF Tables
  <2>2. CASE i \notin DOMAIN pending
    BY <1>1, <1>2, <2>2
  <2> QED BY <2>1, <2>2
<1> QED BY <1>3, <1>4, TablesSame

-----------------------------------------------------------------------------
(* The review loop                                                         *)

\* The closure of a cycle that holds nothing.
LEMMA EmptyClosure ==
  NoJob \in WideJobs /\ \A step \in Steps \ (Hands \union {"nli"}) : Fits(step, NoJob)
BY DEF NoJob, WideJobs, Fits, Hands, Steps

\* A new embedding.
LEMMA EmbedKeeps == ASSUME NEW f \in Frags, ReviewInv, Embed(f) PROVE ReviewInv'
<1>1. Tables' /\ UNCHANGED <<edge, retired, pc, job>>
  BY DEF ReviewInv, Tables, Embed, redis
<1>2. Closures'
  BY <1>1 DEF ReviewInv, Closures
<1>3. Recorded'
  BY <1>1, TraceKept DEF ReviewInv, Recorded
<1>4. SuccessorOnRecord'
  BY <1>1 DEF ReviewInv, SuccessorOnRecord, Newer, ToDate
<1> QED BY <1>1, <1>2, <1>3, <1>4 DEF ReviewInv

\* A cycle starts with the watermark it reads.
LEMMA BeginKeeps == ASSUME NEW c \in Cycles, ReviewInv, Begin(c) PROVE ReviewInv'
<1> DEFINE j == [NoJob EXCEPT !.since = mark]
<1>1. j \in WideJobs
  <2>1. mark \in Int
    BY DEF ReviewInv, Tables
  <2> QED BY <2>1, EmptyClosure DEF WideJobs
<1>2. Fits("list", j)
  BY DEF NoJob, Fits, Hands
<1>3. Tables' /\ embedded' = embedded /\ edge' = edge /\ retired' = retired
  BY TablesUnchanged DEF ReviewInv, Begin, tables
<1>4. Goto(c, "list", j)
  BY DEF Begin
<1> QED BY <1>1, <1>2, <1>3, <1>4, QuietStep DEF Steps

\* The new fragments are rows of the table.
LEMMA ListKeeps == ASSUME NEW c \in Cycles, ReviewInv, List(c) PROVE ReviewInv'
<1> PICK gem \in Gemini,
         fresh \in Top({f \in embedded : Born[f] > job[c].since}, Limit, LAMBDA f : Born[f]) :
           Goto(c, "next", [job[c] EXCEPT !.fresh = fresh, !.gem = gem])
  BY DEF List
<1> DEFINE j == [job[c] EXCEPT !.fresh = fresh, !.gem = gem]
<1>1. fresh \in SUBSET Frags
  BY DEF Top, ReviewInv, Tables
<1>2. gem \in BOOLEAN
  BY ReviewAssumption
<1>3. job[c] \in WideJobs /\ Fits("list", job[c])
  BY DEF ReviewInv, Closures, List
<1>5. j \in WideJobs
  BY <1>1, <1>2, <1>3 DEF WideJobs
<1>6. Fits("next", j)
  BY <1>3 DEF Fits, Hands, WideJobs
<1>4. Tables' /\ embedded' = embedded /\ edge' = edge /\ retired' = retired
  BY TablesUnchanged DEF ReviewInv, List, tables
<1> QED BY <1>4, <1>5, <1>6, QuietStep DEF Steps

\* The candidates of a fragment are similar to it, hence other than it.
LEMMA NextFragmentKeeps ==
  ASSUME NEW c \in Cycles, ReviewInv, NextFragment(c) PROVE ReviewInv'
<1>1. Tables' /\ embedded' = embedded /\ edge' = edge /\ retired' = retired
  BY TablesUnchanged DEF ReviewInv, NextFragment, tables
<1>2. job[c] \in WideJobs
  BY DEF ReviewInv, Closures
<1>3. CASE job[c].fresh = {}
  <2>1. Goto(c, "mark", job[c])
    BY <1>3 DEF NextFragment
  <2>2. Fits("mark", job[c])
    BY DEF ReviewInv, Closures, Fits, Hands
  <2> QED BY <1>1, <1>2, <2>1, <2>2, QuietStep DEF Steps
<1>4. CASE job[c].fresh # {}
  <2> PICK f \in job[c].fresh : \E cands \in Top(Candidates(f), CandLimit, Unordered) :
        Goto(c, IF cands = {} THEN "next" ELSE "nli",
             [job[c] EXCEPT !.fresh = @ \ {f}, !.new = f, !.cands = cands])
    BY <1>4 DEF NextFragment
  <2> PICK cands \in Top(Candidates(f), CandLimit, Unordered) :
        Goto(c, IF cands = {} THEN "next" ELSE "nli",
             [job[c] EXCEPT !.fresh = @ \ {f}, !.new = f, !.cands = cands])
    OBVIOUS
  <2> DEFINE j == [job[c] EXCEPT !.fresh = @ \ {f}, !.new = f, !.cands = cands]
  <2>1. f \in Frags
    BY <1>2 DEF WideJobs
  <2>2. cands \subseteq Candidates(f)
    BY DEF Top
  <2>3. cands \subseteq Frags
    BY <2>2 DEF Candidates, ReviewInv, Tables
  <2>4. f \notin cands
    BY <2>2, PairsAreTwo DEF Candidates
  <2>5. j \in WideJobs /\ j.cands = cands /\ j.new = f /\ j.via = "nli"
    <3>1. job[c].via = "nli"
      BY DEF ReviewInv, Closures, Fits, NextFragment
    <3> QED BY <1>2, <2>1, <2>3, <3>1 DEF WideJobs
  <2>6. Fits("nli", j) /\ (cands = {} => Fits("next", j))
    BY <2>1, <2>4, <2>5 DEF Fits, Hands
  <2> QED BY <1>1, <2>5, <2>6, QuietStep DEF Steps
<1> QED BY <1>3, <1>4

\* The verdict of the NLI model: the pair in hand is two fragments.
LEMMA NliKeeps == ASSUME NEW c \in Cycles, ReviewInv, Nli(c) PROVE ReviewInv'
<1>1. Tables' /\ embedded' = embedded /\ edge' = edge /\ retired' = retired
  BY TablesUnchanged DEF ReviewInv, Nli, tables
<1>2. job[c] \in WideJobs /\ Fits("nli", job[c])
  BY DEF ReviewInv, Closures, Nli
<1> PICK g \in job[c].cands :
      LET j == [job[c] EXCEPT !.cand = g, !.cands = @ \ {g}]
      IN \/ Goto(c, "contradicts", [j EXCEPT !.via = "nli"])
         \/ Turn(c, j, TRUE)
         \/ Goto(c, "gemini", j)
  BY DEF Nli
<1> DEFINE j == [job[c] EXCEPT !.cand = g, !.cands = @ \ {g}]
<1>3. g \in Frags /\ g # job[c].new /\ job[c].new \in Frags
  BY <1>2 DEF WideJobs, Fits
<1>4. j \in WideJobs /\ j.new = job[c].new /\ j.cand = g /\ j.via = "nli"
        /\ j.cands = job[c].cands \ {g}
  BY <1>2, <1>3 DEF WideJobs, Fits
<1>5. CASE Goto(c, "contradicts", [j EXCEPT !.via = "nli"])
  <2>1. [j EXCEPT !.via = "nli"] = j
    BY <1>4 DEF WideJobs
  <2>2. Fits("contradicts", j)
    BY <1>2, <1>3, <1>4 DEF Fits, Hands
  <2>3. Goto(c, "contradicts", j)
    BY <1>5, <2>1
  <2> QED BY <1>1, <1>4, <2>2, <2>3, QuietStep DEF Steps
<1>6. CASE Turn(c, j, TRUE)
  BY <1>1, <1>2, <1>3, <1>4, <1>6, QuietTurn DEF Fits
<1>7. CASE Goto(c, "gemini", j)
  <2>1. Fits("gemini", j)
    BY <1>2, <1>3, <1>4 DEF Fits, Hands
  <2> QED BY <1>1, <1>4, <1>7, <2>1, QuietStep DEF Steps
<1> QED BY <1>5, <1>6, <1>7

\* A flagged pair is two fragments.
LEMMA FlagKeeps == ASSUME NEW c \in Cycles, ReviewInv, Flag(c) PROVE ReviewInv'
<1>1. job[c] \in WideJobs /\ Fits("gemini", job[c])
  BY DEF ReviewInv, Closures, Flag
<1>2. embedded' = embedded /\ edge' = edge /\ retired' = retired
  BY DEF Flag, tables
<1>3. Tables'
  <2>1. CASE InHand(c) \in VerySimilar
    BY <2>1, Queued DEF ReviewInv, Flag, Hands
  <2>2. CASE InHand(c) \notin VerySimilar
    BY <2>2, TablesUnchanged DEF ReviewInv, Flag, redis
  <2> QED BY <2>1, <2>2
<1>4. Turn(c, job[c], FALSE)
  BY DEF Flag
<1>5. job[c].new \in Frags /\ job[c].new \notin job[c].cands /\ job[c].via = "nli"
  BY <1>1 DEF Fits, Hands
<1> QED BY <1>1, <1>2, <1>3, <1>4, <1>5, QuietTurn

\* The verdict of Gemini.
LEMMA AskGeminiKeeps ==
  ASSUME NEW c \in Cycles, ReviewInv, AskGemini(c) PROVE ReviewInv'
<1>1. job[c] \in WideJobs /\ Fits("gemini", job[c])
  BY DEF ReviewInv, Closures, AskGemini
<1>2. Tables' /\ embedded' = embedded /\ edge' = edge /\ retired' = retired
  BY TablesUnchanged DEF ReviewInv, AskGemini, tables
<1>3. job[c].new \in Frags /\ job[c].new \notin job[c].cands /\ job[c].via = "nli"
  BY <1>1 DEF Fits, Hands
<1>4. CASE Goto(c, "contradicts", [job[c] EXCEPT !.via = "gemini"])
  <2> DEFINE j == [job[c] EXCEPT !.via = "gemini"]
  <2>1. j \in WideJobs
    BY <1>1 DEF WideJobs
  <2>2. Fits("contradicts", j)
    BY <1>1 DEF Fits, Hands, WideJobs
  <2> QED BY <1>2, <1>4, <2>1, <2>2, QuietStep DEF Steps
<1>5. CASE Turn(c, job[c], TRUE)
  BY <1>1, <1>2, <1>3, <1>5, QuietTurn
<1> QED BY <1>4, <1>5 DEF AskGemini

\* The watermark is a Date, or the one there was.
LEMMA MarkKeeps == ASSUME NEW c \in Cycles, ReviewInv, Mark(c) PROVE ReviewInv'
<1>1. NoJob \in WideJobs /\ Fits("pairs", NoJob)
  BY EmptyClosure DEF Steps, Hands
<1>2. embedded' = embedded /\ edge' = edge /\ retired' = retired
  BY DEF Mark, tables
<1>3. mark' \in Int
  BY DEF Mark, ReviewInv, Tables, Closures, WideJobs
<1>4. Tables'
  BY <1>2, <1>3 DEF ReviewInv, Tables, Mark
<1>5. Goto(c, "pairs", NoJob)
  BY DEF Mark
<1> QED BY <1>1, <1>2, <1>4, <1>5, QuietStep DEF Steps
-----------------------------------------------------------------------------
(* Resolving                                                               *)

\* A step of a resolution: the closure stays, links are only added.
LEMMA ResolutionStep ==
  ASSUME NEW c \in Cycles, ReviewInv, NEW step \in Hands \ {"gemini"}, pc[c] \in Hands,
         step \in {"supLink", "supRetire"} => job[c].cands = {},
         Goto(c, step, job[c]),
         Tables', Trace(c)', retired' = retired,
         \A x, y \in Frags : edge[x][y] # None => edge'[x][y] # None
  PROVE  ReviewInv'
<1>1. job[c] \in WideJobs /\ Fits(pc[c], job[c])
  BY DEF ReviewInv, Closures
<1>2. Fits(step, job[c])
  BY <1>1 DEF Fits, Hands
<1>3. Closures'
  BY <1>1, <1>2, GotoKeeps DEF ReviewInv, Hands, Steps
<1> QED BY <1>3, RecordKept DEF ReviewInv, Tables

\* The first link of a resolution.
LEMMA LinkContradictsKeeps ==
  ASSUME NEW c \in Cycles, ReviewInv, LinkContradicts(c) PROVE ReviewInv'
<1>1. job[c].new \in Frags /\ job[c].cand \in Frags /\ pc[c] \in Hands
  BY DEF ReviewInv, Closures, Fits, Hands, LinkContradicts
<1>2. Link(job[c].new, job[c].cand, "contradicts")
  BY DEF LinkContradicts
<1>3. Tables' /\ \A x, y \in Frags : edge[x][y] # None => edge'[x][y] # None
  BY <1>1, <1>2, LinkAdds DEF ReviewInv, Tables, LinkContradicts, redis
<1>4. Trace(c)'
  BY DEF Trace, LinkContradicts, Goto, ReviewInv, Closures
<1> QED BY <1>1, <1>3, <1>4, ResolutionStep DEF LinkContradicts, Hands

\* The importance of the loser is no link.
LEMMA HalveLoserKeeps ==
  ASSUME NEW c \in Cycles, ReviewInv, HalveLoser(c) PROVE ReviewInv'
<1>1. pc[c] \in Hands
  BY DEF Hands, HalveLoser
<1>2. Tables' /\ edge' = edge
  BY DEF ReviewInv, Tables, HalveLoser, redis
<1>3. Trace(c)'
  BY DEF Trace, HalveLoser, Goto, ReviewInv, Closures
<1> QED BY <1>1, <1>2, <1>3, ResolutionStep DEF HalveLoser, Hands

\* The link from the loser to the winner: from here the retirement is recorded.
LEMMA LinkWinnerKeeps ==
  ASSUME NEW c \in Cycles, ReviewInv, LinkWinner(c) PROVE ReviewInv'
<1>1. pc[c] \in Hands /\ pc'[c] = "retire" /\ job'[c] = job[c]
  BY DEF Hands, LinkWinner, Goto, ReviewInv, Closures
<1>2. Loser(c) \in Frags /\ Winner(c) \in Frags
  BY <1>1, LoserAndWinner DEF ReviewInv
<1>3. Link(Loser(c), Winner(c), "superseded_by")
  BY DEF LinkWinner
<1>4. Tables' /\ \A x, y \in Frags : edge[x][y] # None => edge'[x][y] # None
  BY <1>2, <1>3, LinkAdds DEF ReviewInv, Tables, LinkWinner, redis
<1>5. edge'[Loser(c)][Winner(c)] # None
  BY <1>2, <1>3, LinkAdds DEF ReviewInv
<1>6. Loser(c)' = Loser(c) /\ Winner(c)' = Winner(c)
  BY <1>1 DEF Loser, Winner, InHand
<1>7. Trace(c)'
  BY <1>1, <1>5, <1>6 DEF Trace
<1> QED BY <1>1, <1>4, <1>7, ResolutionStep DEF LinkWinner, Hands

\* A retirement that is recorded.
LEMMA Retirement ==
  ASSUME NEW f \in Frags, NEW g \in Frags, f # g, edge[f][g] # None, ~ Newer(f, g),
         SuccessorOnRecord, edge' = edge, retired' = retired \union {f}
  PROVE  SuccessorOnRecord'
BY DEF SuccessorOnRecord, Newer, ToDate

\* The loser is retired with that link in place and a winner not older.
LEMMA RetireLoserKeeps ==
  ASSUME NEW c \in Cycles, ReviewInv, RetireLoser(c) PROVE ReviewInv'
<1>1. pc[c] = "retire" /\ pc[c] \in Hands /\ job[c] \in WideJobs /\ Fits("retire", job[c])
  BY DEF Hands, RetireLoser, ReviewInv, Closures
<1>2. Loser(c) \in Frags /\ Winner(c) \in Frags /\ Loser(c) # Winner(c)
        /\ ~ Newer(Loser(c), Winner(c))
  BY <1>1, LoserAndWinner DEF ReviewInv
<1>3. edge[Loser(c)][Winner(c)] # None
  BY <1>1 DEF ReviewInv, Recorded, Trace
<1>4. SuccessorOnRecord'
  BY <1>2, <1>3, Retirement DEF RetireLoser, ReviewInv
<1>5. Tables'
  BY <1>2 DEF RetireLoser, ReviewInv, Tables, redis
<1>6. Closures' /\ pc'[c] \in {"pop", "next", "nli"} /\ \E step, k : Goto(c, step, k)
  BY <1>1, TurnKeeps DEF RetireLoser, ReviewInv, Fits, Hands
<1>7. \A d \in Cycles \ {c} : pc'[d] = pc[d] /\ job'[d] = job[d]
  BY <1>6 DEF ReviewInv, Closures, Goto
<1>8. Trace(c)'
  BY <1>6 DEF Trace
<1>9. Recorded'
  BY <1>7, <1>8, TraceKept DEF Recorded, ReviewInv, RetireLoser
<1> QED BY <1>4, <1>5, <1>6, <1>9 DEF ReviewInv
-----------------------------------------------------------------------------
(* Supersessions                                                           *)

\* The supersession pairs are pairs of fragments.
LEMMA ListPairsKeeps ==
  ASSUME NEW c \in Cycles, ReviewInv, ListPairs(c) PROVE ReviewInv'
<1>1. Tables' /\ embedded' = embedded /\ edge' = edge /\ retired' = retired
  BY TablesUnchanged DEF ReviewInv, ListPairs, tables
<1>2. CASE Goto(c, "pop", [NoJob EXCEPT !.left = Batch])
  <2> DEFINE j == [NoJob EXCEPT !.left = Batch]
  <2>1. j \in WideJobs
    BY EmptyClosure, ReviewAssumption DEF WideJobs
  <2>2. Fits("pop", j)
    BY DEF Fits, Hands, NoJob
  <2> QED BY <1>1, <1>2, <2>1, <2>2, QuietStep DEF Steps
<1>3. ASSUME NEW kept \in SUBSET Near,
             Goto(c, "pair", [NoJob EXCEPT !.gem = TRUE, !.pairs = kept])
      PROVE  ReviewInv'
  <2> DEFINE j == [NoJob EXCEPT !.gem = TRUE, !.pairs = kept]
  <2>1. kept \in SUBSET Pairs
    BY ReviewAssumption DEF Pairs
  <2>2. j \in WideJobs
    BY <2>1, EmptyClosure DEF WideJobs
  <2>3. Fits("pair", j)
    BY DEF Fits, Hands, NoJob
  <2> QED BY <1>1, <1>3, <2>2, <2>3, QuietStep DEF Steps
<1> QED BY <1>2, <1>3 DEF ListPairs, Top

\* The older of a pair is in new, the newer in cand, whichever id is smaller.
LEMMA ReviewPairKeeps ==
  ASSUME NEW c \in Cycles, ReviewInv, ReviewPair(c) PROVE ReviewInv'
<1>1. Tables' /\ embedded' = embedded /\ edge' = edge /\ retired' = retired
  BY TablesUnchanged DEF ReviewInv, ReviewPair, tables
<1>2. job[c] \in WideJobs /\ Fits("pair", job[c])
  BY DEF ReviewInv, Closures, ReviewPair
<1>3. CASE job[c].pairs = {}
  <2> DEFINE j == [NoJob EXCEPT !.left = Batch]
  <2>1. j \in WideJobs
    BY EmptyClosure, ReviewAssumption DEF WideJobs
  <2>2. Fits("pop", j)
    BY DEF Fits, Hands, NoJob
  <2>3. Goto(c, "pop", j)
    BY <1>3 DEF ReviewPair
  <2> QED BY <1>1, <2>1, <2>2, <2>3, QuietStep DEF Steps
<1>4. CASE job[c].pairs # {}
  <2> PICK p \in job[c].pairs : \E a \in p, b \in p :
        /\ a < b
        /\ LET j == [job[c] EXCEPT !.pairs = @ \ {p}]
               older == IF Newer(b, a) THEN a ELSE b
               newer == IF older = a THEN b ELSE a
           IN \/ Goto(c, "pair", j)
              \/ Goto(c, "supLink", [j EXCEPT !.new = older, !.cand = newer])
    BY <1>4 DEF ReviewPair
  <2> PICK a \in p : \E b \in p :
        /\ a < b
        /\ LET j == [job[c] EXCEPT !.pairs = @ \ {p}]
               older == IF Newer(b, a) THEN a ELSE b
               newer == IF older = a THEN b ELSE a
           IN \/ Goto(c, "pair", j)
              \/ Goto(c, "supLink", [j EXCEPT !.new = older, !.cand = newer])
    OBVIOUS
  <2> PICK b \in p :
        /\ a < b
        /\ LET j == [job[c] EXCEPT !.pairs = @ \ {p}]
               older == IF Newer(b, a) THEN a ELSE b
               newer == IF older = a THEN b ELSE a
           IN \/ Goto(c, "pair", j)
              \/ Goto(c, "supLink", [j EXCEPT !.new = older, !.cand = newer])
    OBVIOUS
  <2> DEFINE j == [job[c] EXCEPT !.pairs = @ \ {p}]
             older == IF Newer(b, a) THEN a ELSE b
             newer == IF older = a THEN b ELSE a
             k == [j EXCEPT !.new = older, !.cand = newer]
  <2>1. p \subseteq Frags
    BY <1>2 DEF WideJobs, Pairs
  <2>2. a \in Frags /\ b \in Frags /\ a # b
    BY <2>1, ReviewAssumption
  <2>3. older \in Frags /\ newer \in Frags /\ older # newer /\ ~ Newer(older, newer)
    <3>1. ToDate(Born[a]) \in Int /\ ToDate(Born[b]) \in Int
      BY <2>2, DateIsNumber
    <3> QED BY <2>2, <3>1 DEF Newer
  <2>4. j \in WideJobs /\ Fits("pair", j)
    BY <1>2 DEF WideJobs, Fits, Hands
  <2>5. CASE Goto(c, "pair", j)
    BY <1>1, <2>4, <2>5, QuietStep DEF Steps
  <2>6. CASE Goto(c, "supLink", k)
    <3> HIDE DEF older, newer
    <3>1. k \in WideJobs /\ k.new = older /\ k.cand = newer /\ k.cands = {}
      BY <1>2, <2>3, <2>4 DEF WideJobs, Fits
    <3>2. Fits("supLink", k)
      BY <2>3, <3>1 DEF Fits, Hands
    <3>3. Closures'
      BY <2>6, <3>1, <3>2, GotoKeeps DEF Steps, ReviewInv
    <3>4. pc'[c] = "supLink" /\ job'[c] = k
      BY <2>6 DEF Goto, ReviewInv, Closures
    <3>5. Trace(c)'
      BY <2>3, <3>1, <3>4 DEF Trace, Newer, ToDate
    <3>6. Recorded' /\ SuccessorOnRecord'
      BY <1>1, <2>6, <3>5, RecordKept DEF ReviewInv, Tables
    <3> QED BY <1>1, <3>3, <3>6 DEF ReviewInv
  <2> QED BY <2>5, <2>6
<1> QED BY <1>3, <1>4

\* The link from the older to the newer: from here the retirement is recorded.
LEMMA LinkNewerKeeps ==
  ASSUME NEW c \in Cycles, ReviewInv, LinkNewer(c) PROVE ReviewInv'
<1>1. /\ pc[c] = "supLink" /\ pc[c] \in Hands /\ job[c].cands = {}
      /\ job[c].new \in Frags /\ job[c].cand \in Frags
  BY DEF ReviewInv, Closures, Fits, Hands, LinkNewer
<1>2. Link(job[c].new, job[c].cand, "superseded_by")
  BY DEF LinkNewer
<1>3. Tables' /\ \A x, y \in Frags : edge[x][y] # None => edge'[x][y] # None
  BY <1>1, <1>2, LinkAdds DEF ReviewInv, Tables, LinkNewer, redis
<1>4. edge'[job[c].new][job[c].cand] # None
  BY <1>1, <1>2, LinkAdds DEF ReviewInv
<1>5. pc'[c] = "supRetire" /\ job'[c] = job[c]
  BY DEF LinkNewer, Goto, ReviewInv, Closures
<1>6. ~ Newer(job[c].new, job[c].cand)
  BY <1>1 DEF ReviewInv, Recorded, Trace
<1>7. Trace(c)'
  BY <1>4, <1>5, <1>6 DEF Trace, Newer, ToDate
<1> QED BY <1>1, <1>3, <1>7, ResolutionStep DEF LinkNewer, Hands

\* The closure of the loop over the pairs, the pair in hand let go.
LEMMA PairLetGo ==
  ASSUME NEW c \in Cycles, Closures, pc[c] \in {"supLink", "supRetire"}
  PROVE  LET j == [job[c] EXCEPT !.new = None, !.cand = None]
         IN j \in WideJobs /\ Fits("pair", j)
<1>1. job[c] \in WideJobs /\ Fits(pc[c], job[c])
  BY DEF Closures
<1> QED BY <1>1, ReviewAssumption DEF WideJobs, Fits, Hands

\* The older is retired with that link in place, once.
LEMMA RetireOlderKeeps ==
  ASSUME NEW c \in Cycles, ReviewInv, RetireOlder(c) PROVE ReviewInv'
<1> DEFINE j == [job[c] EXCEPT !.new = None, !.cand = None]
<1>1. j \in WideJobs /\ Fits("pair", j) /\ Goto(c, "pair", j)
  BY PairLetGo DEF ReviewInv, RetireOlder
<1> HIDE DEF j
<1>2. CASE job[c].new \in retired
  <2>1. Tables' /\ embedded' = embedded /\ edge' = edge /\ retired' = retired
    BY <1>2 DEF ReviewInv, Tables, RetireOlder, redis
  <2> QED BY <1>1, <2>1, QuietStep DEF Steps
<1>3. CASE job[c].new \notin retired
  <2>1. job[c].new \in Frags /\ job[c].cand \in Frags /\ job[c].new # job[c].cand
    BY DEF ReviewInv, Closures, Fits, Hands, RetireOlder
  <2>2. edge[job[c].new][job[c].cand] # None /\ ~ Newer(job[c].new, job[c].cand)
    BY DEF ReviewInv, Recorded, Trace, RetireOlder
  <2>3. edge' = edge /\ retired' = retired \union {job[c].new}
    BY <1>3 DEF RetireOlder
  <2>4. SuccessorOnRecord'
    BY <2>1, <2>2, <2>3, Retirement DEF ReviewInv
  <2>5. Tables'
    BY <2>1, <2>3 DEF ReviewInv, Tables, RetireOlder, redis
  <2>6. Closures'
    BY <1>1, GotoKeeps DEF ReviewInv, Steps
  <2>7. pc'[c] = "pair" /\ \A d \in Cycles \ {c} : pc'[d] = pc[d] /\ job'[d] = job[d]
    BY <1>1 DEF ReviewInv, Closures, Goto
  <2>8. Trace(c)'
    BY <2>7 DEF Trace
  <2>9. Recorded'
    BY <2>3, <2>7, <2>8, TraceKept DEF Recorded, ReviewInv
  <2> QED BY <2>4, <2>5, <2>6, <2>9 DEF ReviewInv
<1> QED BY <1>2, <1>3
-----------------------------------------------------------------------------
(* The queue, failures, restarts                                           *)

\* An entry of the queue is two fragments.
LEMMA PopKeeps == ASSUME NEW c \in Cycles, ReviewInv, Pop(c) PROVE ReviewInv'
<1>1. embedded' = embedded /\ edge' = edge /\ retired' = retired
        /\ UNCHANGED <<tables, mark>>
  BY DEF Pop, tables
<1>2. job[c] \in WideJobs /\ Fits("pop", job[c])
  BY DEF ReviewInv, Closures, Pop
<1>3. CASE Goto(c, "idle", NoJob) /\ UNCHANGED pending
  <2>1. NoJob \in WideJobs /\ Fits("idle", NoJob)
    BY EmptyClosure DEF Steps, Hands
  <2>2. Tables'
    BY <1>1, <1>3, TablesUnchanged DEF ReviewInv, redis
  <2> QED BY <1>1, <1>3, <2>1, <2>2, QuietStep DEF Steps
<1>4. CASE /\ pending # <<>> /\ pending' = Tail(pending)
           /\ Goto(c, "ask", [job[c] EXCEPT !.new = Head(pending)[1], !.gem = TRUE,
                              !.cand = Head(pending)[2], !.left = @ - 1,
                              !.via = "pending"])
  <2> DEFINE f == Head(pending)[1]
             g == Head(pending)[2]
             j == [job[c] EXCEPT !.new = f, !.gem = TRUE, !.cand = g, !.left = @ - 1,
                                 !.via = "pending"]
  <2>1. pending \in Seq(Frags \X Frags) /\ Head(pending) = pending[1]
          /\ 1 \in DOMAIN pending
    BY <1>4 DEF ReviewInv, Tables
  <2>2. f \in Frags /\ g \in Frags /\ f # g
    BY <2>1 DEF ReviewInv, Tables
  <2>3. Tables'
    <3>1. pending' \in Seq(Frags \X Frags)
      BY <1>4, <2>1
    <3>2. ASSUME NEW i \in DOMAIN pending' PROVE pending'[i][1] # pending'[i][2]
      <4>1. i + 1 \in DOMAIN pending /\ pending'[i] = pending[i + 1]
        BY <1>4, <2>1
      <4> QED BY <4>1 DEF ReviewInv, Tables
    <3> QED BY <1>1, <3>1, <3>2, TablesSame DEF ReviewInv
  <2> HIDE DEF f, g
  <2>4. j \in WideJobs
    <3> DEFINE k == [job[c] EXCEPT !.new = f, !.cand = g]
    <3>1. k \in WideJobs
      BY <1>2, <2>2 DEF WideJobs
    <3>2. job[c].left \in Int
      BY <1>2 DEF WideJobs
    <3> DEFINE n == job[c].left - 1
    <3>3. n \in Int
      BY <3>2
    <3> HIDE DEF n
    <3>4. [k EXCEPT !.left = n] \in WideJobs
      BY <3>1, <3>3 DEF WideJobs
    <3>5. [[k EXCEPT !.left = n] EXCEPT !.gem = TRUE, !.via = "pending"] \in WideJobs
      BY <3>4 DEF WideJobs
    <3>6. j = [[k EXCEPT !.left = n] EXCEPT !.gem = TRUE, !.via = "pending"]
      BY <1>2 DEF WideJobs, n
    <3> QED BY <3>5, <3>6
  <2>5. j.new = f /\ j.cand = g /\ j.cands = {} /\ j.via = "pending"
    BY <1>2 DEF WideJobs, Fits
  <2>6. Fits("ask", j)
    BY <2>2, <2>5 DEF Fits, Hands
  <2>7. Goto(c, "ask", j)
    BY <1>4 DEF f, g
  <2> QED BY <1>1, <2>3, <2>4, <2>6, <2>7, QuietStep DEF Steps
<1> QED BY <1>3, <1>4 DEF Pop

\* The verdict on an entry of the queue.
LEMMA AskPendingKeeps ==
  ASSUME NEW c \in Cycles, ReviewInv, AskPending(c) PROVE ReviewInv'
<1>1. job[c] \in WideJobs /\ Fits("ask", job[c])
  BY DEF ReviewInv, Closures, AskPending
<1>2. Tables' /\ embedded' = embedded /\ edge' = edge /\ retired' = retired
  BY TablesUnchanged DEF ReviewInv, AskPending, tables
<1>3. CASE Goto(c, "contradicts", job[c])
  <2>1. Fits("contradicts", job[c])
    BY <1>1 DEF Fits, Hands
  <2> QED BY <1>1, <1>2, <1>3, <2>1, QuietStep DEF Steps
<1>4. CASE Turn(c, job[c], TRUE)
  BY <1>1, <1>2, <1>4, QuietTurn DEF Fits, Hands
<1> QED BY <1>3, <1>4 DEF AskPending

\* A failing statement takes back no link, and what it leaves undone stays undone.
LEMMA FailStatementKeeps ==
  ASSUME NEW c \in Cycles, ReviewInv, FailStatement(c) PROVE ReviewInv'
<1>1. embedded' = embedded /\ edge' = edge /\ retired' = retired
        /\ UNCHANGED <<tables, mark>>
  BY DEF FailStatement, tables
<1>2. NoJob \in WideJobs /\ Fits("idle", NoJob)
  BY EmptyClosure DEF Steps, Hands
<1>3. job[c] \in WideJobs /\ Fits(pc[c], job[c])
  BY DEF ReviewInv, Closures
<1>4. CASE Goto(c, "idle", NoJob) /\ UNCHANGED pending
  BY <1>1, <1>2, <1>4, TablesUnchanged, QuietStep DEF ReviewInv, redis, Steps
<1>5. CASE pc[c] \in Resolving /\ Turn(c, job[c], FALSE) /\ UNCHANGED pending
  <2>1. Tables'
    BY <1>1, <1>5, TablesUnchanged DEF ReviewInv, redis
  <2>2. job[c].new \in Frags /\ job[c].new \notin job[c].cands
          /\ (job[c].via = "pending" => job[c].cands = {})
    BY <1>3, <1>5 DEF Fits, Hands, Resolving
  <2> QED BY <1>1, <1>3, <1>5, <2>1, <2>2, QuietTurn
<1>6. CASE pc[c] \in Resolving /\ Requeue(c) /\ Goto(c, "idle", NoJob)
  <2>1. Tables'
    BY <1>1, <1>6, Queued DEF ReviewInv, Resolving, Hands, Requeue
  <2> QED BY <1>1, <1>2, <1>6, <2>1, QuietStep DEF Steps
<1>7. CASE /\ pc[c] \in {"supLink", "supRetire"} /\ UNCHANGED pending
           /\ Goto(c, "pair", [job[c] EXCEPT !.new = None, !.cand = None])
  <2> DEFINE j == [job[c] EXCEPT !.new = None, !.cand = None]
  <2>1. Tables'
    BY <1>1, <1>7, TablesUnchanged DEF ReviewInv, redis
  <2>2. j \in WideJobs /\ Fits("pair", j)
    BY <1>7, PairLetGo DEF ReviewInv
  <2> QED BY <1>1, <1>7, <2>1, <2>2, QuietStep DEF Steps
<1> QED BY <1>4, <1>5, <1>6, <1>7 DEF FailStatement

\* After a restart the links are there and every closure is empty.
LEMMA RestartKeeps == ASSUME ReviewInv, Restart PROVE ReviewInv'
<1>1. Tables' /\ edge' = edge /\ retired' = retired
  BY TablesUnchanged DEF ReviewInv, Restart, tables
<1>2. NoJob \in WideJobs /\ Fits("idle", NoJob)
  BY EmptyClosure DEF Steps, Hands
<1>3. Closures'
  BY <1>2 DEF Restart, Closures, Steps
<1>4. Recorded'
  BY DEF Restart, Recorded, Trace
<1>5. SuccessorOnRecord'
  BY <1>1 DEF ReviewInv, SuccessorOnRecord, Newer, ToDate
<1> QED BY <1>1, <1>3, <1>4, <1>5 DEF ReviewInv
-----------------------------------------------------------------------------
\* Every step, of every cycle, a failing one and a restart included, keeps the
\* order in which a resolution records and retires.
THEOREM ReviewStep == ReviewInv /\ [Next]_vars => ReviewInv'
<1> SUFFICES ASSUME ReviewInv, [Next]_vars PROVE ReviewInv'
  OBVIOUS
<1>1. CASE \E f \in Frags : Embed(f)
  BY <1>1, EmbedKeeps
<1>2. ASSUME NEW c \in Cycles, Begin(c) \/ FailStatement(c) PROVE ReviewInv'
  BY <1>2, BeginKeeps, FailStatementKeeps
<1>3. ASSUME NEW c \in Cycles, Step(c) PROVE ReviewInv'
  <2>1. CASE List(c) \/ NextFragment(c) \/ Nli(c) \/ Flag(c) \/ AskGemini(c) \/ Mark(c)
    BY <2>1, ListKeeps, NextFragmentKeeps, NliKeeps, FlagKeeps, AskGeminiKeeps, MarkKeeps
  <2>2. CASE LinkContradicts(c) \/ HalveLoser(c) \/ LinkWinner(c) \/ RetireLoser(c)
    BY <2>2, LinkContradictsKeeps, HalveLoserKeeps, LinkWinnerKeeps, RetireLoserKeeps
  <2>3. CASE ListPairs(c) \/ ReviewPair(c) \/ LinkNewer(c) \/ RetireOlder(c)
    BY <2>3, ListPairsKeeps, ReviewPairKeeps, LinkNewerKeeps, RetireOlderKeeps
  <2>4. CASE Pop(c) \/ AskPending(c)
    BY <2>4, PopKeeps, AskPendingKeeps
  <2> QED BY <1>3, <2>1, <2>2, <2>3, <2>4 DEF Step
<1>4. CASE Restart
  BY <1>4, RestartKeeps
<1>5. CASE UNCHANGED vars
  <2>1. Tables'
    BY <1>5, TablesUnchanged DEF ReviewInv, vars
  <2>2. Closures'
    BY <1>5 DEF ReviewInv, Closures, vars
  <2>3. Recorded'
    BY <1>5, TraceKept DEF ReviewInv, Recorded, vars, tables
  <2>4. SuccessorOnRecord'
    BY <1>5 DEF ReviewInv, SuccessorOnRecord, Newer, ToDate, vars, tables
  <2> QED BY <2>1, <2>2, <2>3, <2>4 DEF ReviewInv
<1> QED BY <1>1, <1>2, <1>3, <1>4, <1>5 DEF Next

\* A fragment is retired only in favour of one that is not older, and the link to
\* it stays, whatever cycles overlap and wherever they are cut short.
THEOREM SuccessorRecorded == Spec => []SuccessorOnRecord
<1>1. ReviewInv => SuccessorOnRecord
  BY DEF ReviewInv
<1> QED BY <1>1, ReviewInitially, ReviewStep, PTL DEF Spec
-----------------------------------------------------------------------------
(* One side stands                                                         *)

\* No link says that a newer fragment gave way to an older one.
OlderGiveWay ==
  \A f, g \in Frags : edge[f][g] = "superseded_by" => f # g /\ ~ Newer(f, g)

\* A new link between two fragments, to one that is not older or of another kind.
LEMMA LinkRespects ==
  ASSUME NEW f \in Frags, NEW g \in Frags, NEW r \in {"contradicts", "superseded_by"},
         Tables, Link(f, g, r), OlderGiveWay,
         r = "superseded_by" => f # g /\ ~ Newer(f, g)
  PROVE  OlderGiveWay'
<1>1. edge' = [edge EXCEPT ![f][g] = r]
  BY DEF Link
<1>2. \A x, y \in Frags : edge'[x][y] = IF x = f /\ y = g THEN r ELSE edge[x][y]
  BY <1>1 DEF Tables
<1> QED BY <1>2 DEF OlderGiveWay, Newer, ToDate

\* Three actions write links, each in the order of creation.
LEMMA OlderGiveWayStep == ReviewInv /\ OlderGiveWay /\ [Next]_vars => OlderGiveWay'
<1> SUFFICES ASSUME ReviewInv, OlderGiveWay, [Next]_vars PROVE OlderGiveWay'
  OBVIOUS
<1>1. CASE edge' = edge
  BY <1>1 DEF OlderGiveWay, Newer, ToDate
<1>2. ASSUME NEW c \in Cycles, LinkContradicts(c) PROVE OlderGiveWay'
  <2>1. job[c].new \in Frags /\ job[c].cand \in Frags
    BY <1>2 DEF ReviewInv, Closures, Fits, Hands, LinkContradicts
  <2>2. Link(job[c].new, job[c].cand, "contradicts")
    BY <1>2 DEF LinkContradicts
  <2> QED BY <2>1, <2>2, LinkRespects DEF ReviewInv
<1>3. ASSUME NEW c \in Cycles, LinkWinner(c) PROVE OlderGiveWay'
  <2>1. pc[c] \in Hands
    BY <1>3 DEF Hands, LinkWinner
  <2>2. Loser(c) \in Frags /\ Winner(c) \in Frags /\ Loser(c) # Winner(c)
          /\ ~ Newer(Loser(c), Winner(c))
    BY <2>1, LoserAndWinner DEF ReviewInv
  <2>3. Link(Loser(c), Winner(c), "superseded_by")
    BY <1>3 DEF LinkWinner
  <2> QED BY <2>2, <2>3, LinkRespects DEF ReviewInv
<1>4. ASSUME NEW c \in Cycles, LinkNewer(c) PROVE OlderGiveWay'
  <2>1. job[c].new \in Frags /\ job[c].cand \in Frags /\ job[c].new # job[c].cand
    BY <1>4 DEF ReviewInv, Closures, Fits, Hands, LinkNewer
  <2>2. ~ Newer(job[c].new, job[c].cand)
    BY <1>4 DEF ReviewInv, Recorded, Trace, LinkNewer
  <2>3. Link(job[c].new, job[c].cand, "superseded_by")
    BY <1>4 DEF LinkNewer
  <2> QED BY <2>1, <2>2, <2>3, LinkRespects DEF ReviewInv
<1>5. \/ edge' = edge
      \/ \E c \in Cycles : LinkContradicts(c) \/ LinkWinner(c) \/ LinkNewer(c)
  BY DEF Next, Step, vars, tables, Embed, Begin, List, NextFragment, Nli, Flag, AskGemini,
         Mark, HalveLoser, RetireLoser, ListPairs, ReviewPair, RetireOlder, Pop,
         AskPending, FailStatement, Restart
<1> QED BY <1>1, <1>2, <1>3, <1>4, <1>5

\* Where no two fragments were created in one millisecond, no two supersede each
\* other, from whichever side and however often the pair is reviewed.
THEOREM OneSideLeft ==
  ASSUME \A f, g \in Frags : f # g => ToDate(Born[f]) # ToDate(Born[g])
  PROVE  Spec => []OneSideStands
<1>1. Init => OlderGiveWay
  BY ReviewAssumption DEF Init, OlderGiveWay
<1>2. OlderGiveWay => OneSideStands
  <2> SUFFICES ASSUME OlderGiveWay, NEW f \in Frags, NEW g \in Frags,
                      edge[f][g] = "superseded_by", edge[g][f] = "superseded_by"
               PROVE  FALSE
    BY DEF OneSideStands
  <2>1. f # g /\ ~ Newer(f, g) /\ ~ Newer(g, f)
    BY DEF OlderGiveWay
  <2>2. ToDate(Born[f]) \in Int /\ ToDate(Born[g]) \in Int
    BY DateIsNumber
  <2> QED BY <2>1, <2>2 DEF Newer
<1> QED BY <1>1, <1>2, ReviewInitially, ReviewStep, OlderGiveWayStep, PTL DEF Spec
-----------------------------------------------------------------------------
(* The queue and the watermark                                             *)

InQueue(p) == \E i \in DOMAIN pending : {pending[i][1], pending[i][2]} = p

\* What the step says of the pair in a closure; E is what is embedded, F flagged.
Grip(step, j, E, F) ==
  /\ step \notin Hands => j.cand = None
  /\ step \in Hands \ {"supLink", "supRetire"} => {j.new, j.cand} \in Similar
  /\ step \in {"supLink", "supRetire"} => {j.new, j.cand} \in Near
  /\ step = "ask" => j.via = "pending"
  /\ step \in {"pair", "supLink", "supRetire"} => j.via # "pending"
  /\ (j.via = "pending" /\ step \in Hands) => {j.new, j.cand} \in F
  /\ \A g \in j.cands : {j.new, g} \in Similar
  /\ step \in {"list", "next", "mark"} => j.cands = {}
  /\ j.pairs \subseteq Near
  /\ j.fresh \union j.cands \subseteq E /\ UNION j.pairs \subseteq E
  /\ {j.new, j.cand} \subseteq E \union {None}

Gripped == \A c \in Cycles : Grip(pc[c], job[c], embedded, flagged)

\* An entry of the queue is a flagged pair.
Entries ==
  \A i \in DOMAIN pending :
    /\ {pending[i][1], pending[i][2]} \in flagged
    /\ {pending[i][1], pending[i][2]} \subseteq embedded

\* The cycles that hold an entry they popped, and may put it back.
Holders == {c \in Cycles : job[c].via = "pending" /\ pc[c] \in Hands}

Room == Len(pending) + Cardinality(Holders) <= MaxPending + Cardinality(Cycles)

\* The form of what a step may change beside the closures.
Shape ==
  /\ embedded \subseteq Frags /\ retired \subseteq embedded
  /\ edge \in [Frags -> [Frags -> {None, "contradicts", "superseded_by"}]]
  /\ halved \in [Frags -> [Frags -> 0..2]]
  /\ mark \in Nat /\ pending \in Seq(Frags \X Frags)
  /\ settled \subseteq Pairs /\ flagged \subseteq VerySimilar /\ cut \subseteq Pairs
  /\ cycles \in 0..MaxCycles /\ trouble \in 0..MaxTrouble

Closed == pc \in [Cycles -> Steps] /\ job \in [Cycles -> Jobs]

QueueInv == Shape /\ Closed /\ Gripped /\ Entries /\ Room /\ FlaggedKept

\* A pair that nobody has to look at again.
Seen(p) == p \in settled \union cut \union flagged \/ Underway(p)

\* A pair that was seen is not lost sight of.
SeenKept == \A p \in Similar : Seen(p) => Seen(p)'

-----------------------------------------------------------------------------
\* A pair is two fragments, none of them None.
LEMMA PairOfFragments ==
  ASSUME NEW p \in Similar \union Near
  PROVE  p \subseteq Frags /\ p \in Pairs /\ None \notin p
BY ReviewAssumption DEF Pairs

\* A cycle without a pair holds none that is similar or near.
LEMMA EmptyHanded ==
  ASSUME NEW c \in Cycles, Gripped, pc[c] \notin Hands
  PROVE  InHand(c) \notin Similar \union Near
<1>1. None \in InHand(c)
  BY DEF Gripped, Grip, InHand
<1> QED BY <1>1, PairOfFragments

\* Near pairs are not similar.
LEMMA NearIsNotSimilar == ASSUME NEW p \in Near PROVE p \notin Similar
BY ReviewAssumption

\* The number of holders is one of at most all cycles.
LEMMA HoldersCounted ==
  ASSUME NEW S \in SUBSET Cycles
  PROVE  IsFiniteSet(S) /\ Cardinality(S) \in Nat /\ Cardinality(S) <= Cardinality(Cycles)
         /\ Cardinality(Cycles) \in Nat
<1>1. IsFiniteSet(Cycles)
  BY ReviewAssumption
<1>2. IsFiniteSet(S) /\ Cardinality(S) <= Cardinality(Cycles)
  BY <1>1, FS_Subset
<1> QED BY <1>1, <1>2, FS_CardinalityType

\* The closure of one cycle changes, those of the others do not.
LEMMA OneMoves ==
  ASSUME NEW c \in Cycles, NEW step \in Steps, NEW j \in Jobs, Closed, Gripped,
         Goto(c, step, j), embedded' = embedded, flagged \subseteq flagged',
         Grip(step, j, embedded, flagged')
  PROVE  /\ Closed' /\ Gripped'
         /\ pc'[c] = step /\ job'[c] = j
         /\ \A d \in Cycles \ {c} : pc'[d] = pc[d] /\ job'[d] = job[d]
<1>1. /\ pc'[c] = step /\ job'[c] = j /\ Closed'
      /\ \A d \in Cycles \ {c} : pc'[d] = pc[d] /\ job'[d] = job[d]
  BY DEF Closed, Goto
<1>2. ASSUME NEW d \in Cycles PROVE Grip(pc'[d], job'[d], embedded', flagged')
  <2>1. CASE d = c
    BY <1>1, <2>1
  <2>2. CASE d # c
    <3>1. Grip(pc[d], job[d], embedded, flagged)
      BY DEF Gripped
    <3>2. Grip(pc[d], job[d], embedded', flagged')
      BY <3>1 DEF Grip
    <3> QED BY <1>1, <2>2, <3>2
  <2> QED BY <2>1, <2>2
<1> QED BY <1>1, <1>2 DEF Gripped

\* What moving one cycle does to the pairs under way.
LEMMA StillUnderway ==
  ASSUME NEW c \in Cycles, NEW j, NEW p, Underway(p), job'[c] = j,
         \A d \in Cycles \ {c} : job'[d] = job[d],
         InHand(c) = p => {j.new, j.cand} = p
  PROVE  Underway(p)'
<1>1. PICK d \in Cycles : InHand(d) = p
  BY DEF Underway
<1>2. InHand(d)' = {job'[d].new, job'[d].cand}
  BY DEF InHand
<1>3. CASE d = c
  BY <1>1, <1>2, <1>3 DEF Underway
<1>4. CASE d # c
  BY <1>1, <1>2, <1>4 DEF Underway, InHand
<1> QED BY <1>3, <1>4

\* A step that leaves the queue alone, and lets go of no pair that was not settled
\* or cut short.
LEMMA HandStep ==
  ASSUME NEW c \in Cycles, NEW step \in Steps, NEW j \in Jobs, QueueInv,
         Goto(c, step, j), Grip(step, j, embedded, flagged), Shape',
         embedded' = embedded, pending' = pending, flagged' = flagged,
         settled \subseteq settled', cut \subseteq cut',
         (j.via = "pending" /\ step \in Hands) => c \in Holders,
         InHand(c) \in Similar =>
           InHand(c) \in settled' \union cut' \/ {j.new, j.cand} = InHand(c)
  PROVE  QueueInv' /\ SeenKept
<1>1. /\ Closed' /\ Gripped' /\ pc'[c] = step /\ job'[c] = j
      /\ \A d \in Cycles \ {c} : pc'[d] = pc[d] /\ job'[d] = job[d]
  BY OneMoves DEF QueueInv
<1>2. Entries'
  BY DEF QueueInv, Entries
<1>3. Room'
  <2>1. Holders' \subseteq Holders
    BY <1>1 DEF Holders
  <2>2. Holders \subseteq Cycles
    BY DEF Holders
  <2>3. IsFiniteSet(Holders) /\ Cardinality(Holders) \in Nat
    BY <2>2, HoldersCounted
  <2>4. Cardinality(Holders') \in Nat /\ Cardinality(Holders') <= Cardinality(Holders)
    BY <2>1, <2>3, FS_Subset, FS_CardinalityType
  <2>5. Len(pending) \in Nat
    BY DEF QueueInv, Shape
  <2>6. Cardinality(Cycles) \in Nat /\ MaxPending \in Nat
    BY HoldersCounted, ReviewAssumption
  <2> QED BY <2>3, <2>4, <2>5, <2>6 DEF QueueInv, Room
<1>4. ASSUME NEW p \in Similar, Underway(p), p \notin settled' \union cut'
      PROVE  Underway(p)'
  BY <1>1, <1>4, StillUnderway
<1>5. FlaggedKept'
  <2> SUFFICES ASSUME NEW p \in flagged' \ (settled' \union cut')
               PROVE  InQueue(p)' \/ Underway(p)'
    BY DEF FlaggedKept, InQueue
  <2>1. InQueue(p) \/ Underway(p)
    BY DEF QueueInv, FlaggedKept, InQueue
  <2>2. p \in Similar
    BY ReviewAssumption DEF QueueInv, Shape
  <2> QED BY <1>4, <2>1, <2>2 DEF InQueue
<1>6. SeenKept
  BY <1>4 DEF SeenKept, Seen
<1> QED BY <1>1, <1>2, <1>3, <1>5, <1>6 DEF QueueInv
-----------------------------------------------------------------------------
(* The queue invariant, step by step                                       *)

\* A Date is a time, at or before the one it truncates.
LEMMA DateBefore ==
  ASSUME NEW f \in Frags
  PROVE  /\ ToDate(Born[f]) \in Nat /\ ToDate(Born[f]) <= Born[f]
         /\ Born[f] \in Nat /\ Born[f] > 0
<1>1. Born[f] \in Nat /\ Milli \in Nat /\ Milli > 0 /\ Born[f] >= Milli
  BY ReviewAssumption
<1>2. Born[f] % Milli \in 0..(Milli - 1)
  BY <1>1
<1> QED BY <1>1, <1>2 DEF ToDate

\* The empty closure holds nothing.
LEMMA NothingHeld ==
  ASSUME NEW E, NEW F
  PROVE  /\ NoJob \in Jobs
         /\ \A step \in Steps \ Hands : Grip(step, NoJob, E, F)
<1>1. NoJob \in Jobs
  BY ReviewAssumption DEF NoJob, Jobs
<1>2. ASSUME NEW step \in Steps \ Hands PROVE Grip(step, NoJob, E, F)
  BY DEF Grip, NoJob, Hands
<1> QED BY <1>1, <1>2

\* A cycle that turns to its next candidate, fragment or entry holds no pair.
LEMMA TurnLetsGo ==
  ASSUME NEW c \in Cycles, NEW j \in Jobs, NEW processed \in BOOLEAN,
         j.new \in Frags \intersect embedded, j.via = "pending" => j.cands = {},
         \A g \in j.cands : {j.new, g} \in Similar, j.pairs \subseteq Near,
         j.fresh \union j.cands \subseteq embedded, UNION j.pairs \subseteq embedded,
         Turn(c, j, processed)
  PROVE  \E step \in Steps \ Hands, k \in Jobs :
           Goto(c, step, k) /\ Grip(step, k, embedded, flagged)
<1>1. CASE j.via = "pending"
  <2> DEFINE k == [j EXCEPT !.new = None, !.cand = None]
  <2>1. Goto(c, "pop", k)
    BY <1>1 DEF Turn
  <2>2. /\ k \in Jobs /\ k.cands = {} /\ k.new = None /\ k.cand = None
        /\ k.pairs = j.pairs /\ k.fresh = j.fresh
    BY <1>1 DEF Jobs
  <2> HIDE DEF k
  <2>3. Grip("pop", k, embedded, flagged)
    BY <2>2 DEF Grip, Hands
  <2> QED BY <2>1, <2>2, <2>3 DEF Steps, Hands
<1>2. CASE j.via # "pending"
  <2>1. PICK step \in {"next", "nli"} : step = IF j.cands = {} THEN "next" ELSE "nli"
    OBVIOUS
  <2>2. PICK k \in Jobs : k = Rest(j, processed)
    BY DateBefore DEF Rest, Jobs
  <2>3. /\ k.cands = j.cands /\ k.new = j.new /\ k.cand = None
        /\ k.pairs = j.pairs /\ k.fresh = j.fresh
    BY <2>2 DEF Rest, Jobs
  <2>4. Goto(c, step, k)
    BY <1>2, <2>1, <2>2 DEF Turn
  <2>5. step \in Steps \ Hands /\ (step = "next" => k.cands = {})
    BY <2>1, <2>3 DEF Steps, Hands
  <2>6. step \notin {"list", "mark", "ask", "pair", "supLink", "supRetire"}
    BY <2>1
  <2>7. /\ \A g \in k.cands : {k.new, g} \in Similar
        /\ k.pairs \subseteq Near /\ UNION k.pairs \subseteq embedded
        /\ k.fresh \union k.cands \subseteq embedded
        /\ {k.new, k.cand} \subseteq embedded \union {None}
    BY <2>3
  <2>8. Grip(step, k, embedded, flagged)
    BY <2>3, <2>5, <2>6, <2>7 DEF Grip
  <2> QED BY <2>4, <2>5, <2>8
<1> QED BY <1>1, <1>2

\* The same for a turn from the pair in hand, which is settled, cut short or flagged.
LEMMA TurnFromHand ==
  ASSUME NEW c \in Cycles, NEW processed \in BOOLEAN, ReviewInv, QueueInv,
         pc[c] \in Hands \ {"supLink", "supRetire"}, Turn(c, job[c], processed)
  PROVE  \E step \in Steps \ Hands, k \in Jobs :
           Goto(c, step, k) /\ Grip(step, k, embedded, flagged)
<1>1. job[c] \in Jobs /\ Grip(pc[c], job[c], embedded, flagged) /\ Fits(pc[c], job[c])
  BY DEF QueueInv, Closed, Gripped, ReviewInv, Closures
<1>2. job[c].new \in Frags \intersect embedded
  BY <1>1, ReviewAssumption DEF Fits, Grip
<1>3. job[c].via = "pending" => job[c].cands = {}
  BY <1>1 DEF Fits
<1>4. /\ \A g \in job[c].cands : {job[c].new, g} \in Similar
      /\ job[c].pairs \subseteq Near /\ UNION job[c].pairs \subseteq embedded
      /\ job[c].fresh \union job[c].cands \subseteq embedded
  BY <1>1 DEF Grip
<1> QED BY <1>1, <1>2, <1>3, <1>4, TurnLetsGo

\* The step of a cycle that holds no pair and takes none.
LEMMA FreeStep ==
  ASSUME NEW c \in Cycles, NEW step \in Steps \ Hands, NEW j \in Jobs, QueueInv,
         pc[c] \notin Hands, Goto(c, step, j), Grip(step, j, embedded, flagged), Shape',
         embedded' = embedded, pending' = pending, UNCHANGED history
  PROVE  QueueInv' /\ SeenKept
<1>1. InHand(c) \notin Similar
  BY EmptyHanded DEF QueueInv
<1> QED BY <1>1, HandStep DEF history

\* A turn that settles the pair in hand or cuts its review short.
LEMMA PairDone ==
  ASSUME NEW c \in Cycles, NEW processed \in BOOLEAN, ReviewInv, QueueInv,
         pc[c] \in Hands \ {"supLink", "supRetire"}, Turn(c, job[c], processed), Shape',
         embedded' = embedded, pending' = pending, flagged' = flagged,
         settled \subseteq settled', cut \subseteq cut',
         InHand(c) \in settled' \union cut'
  PROVE  QueueInv' /\ SeenKept
<1>1. PICK step \in Steps \ Hands, k \in Jobs :
        Goto(c, step, k) /\ Grip(step, k, embedded, flagged)
  BY TurnFromHand
<1> QED BY <1>1, HandStep

\* A statement of a resolution: the pair stays in hand.
LEMMA PairStays ==
  ASSUME NEW c \in Cycles, NEW step \in Hands, QueueInv,
         pc[c] \in Hands, step \in {"supLink", "supRetire"} <=> pc[c] \in {"supLink", "supRetire"},
         step # "ask", Goto(c, step, job[c]), Shape',
         embedded' = embedded, pending' = pending, UNCHANGED history
  PROVE  QueueInv' /\ SeenKept
<1>1. job[c] \in Jobs /\ Grip(pc[c], job[c], embedded, flagged) /\ step \in Steps
  BY DEF QueueInv, Closed, Gripped, Hands, Steps
<1>2. Grip(step, job[c], embedded, flagged)
  BY <1>1 DEF Grip, Hands
<1>3. (job[c].via = "pending" /\ step \in Hands) => c \in Holders
  BY DEF Holders
<1>4. {job[c].new, job[c].cand} = InHand(c)
  BY DEF InHand
<1> QED BY <1>1, <1>2, <1>3, <1>4, HandStep DEF history

\* A new embedding takes nothing from the queue.
LEMMA EmbedQueue ==
  ASSUME NEW f \in Frags, QueueInv, Embed(f) PROVE QueueInv' /\ SeenKept
<1>1. /\ embedded \subseteq embedded' /\ embedded' \subseteq Frags
      /\ UNCHANGED <<edge, retired, halved, redis, pc, job, history, cycles, trouble>>
  BY DEF Embed, QueueInv, Shape
<1>2. Shape' /\ Closed'
  BY <1>1 DEF QueueInv, Shape, Closed, redis, history
<1>3. Gripped'
  <2> SUFFICES ASSUME NEW c \in Cycles PROVE Grip(pc[c], job[c], embedded', flagged)
    BY <1>1 DEF Gripped, history
  <2>1. Grip(pc[c], job[c], embedded, flagged)
    BY DEF QueueInv, Gripped
  <2> QED BY <1>1, <2>1 DEF Grip
<1>4. Entries' /\ Room' /\ FlaggedKept'
  BY <1>1 DEF QueueInv, Entries, Room, Holders, FlaggedKept, Underway, InHand, redis, history
<1>5. SeenKept
  BY <1>1 DEF SeenKept, Seen, Underway, InHand, history
<1> QED BY <1>2, <1>3, <1>4, <1>5 DEF QueueInv

\* The form of the tables in steps that touch none of them.
LEMMA ShapeSame ==
  ASSUME Shape, UNCHANGED <<tables, redis, cycles>>, trouble' \in 0..MaxTrouble,
         settled' \subseteq Pairs, cut' \subseteq Pairs, flagged' = flagged
  PROVE  Shape'
BY DEF Shape, tables, redis

\* A cycle starts with the watermark.
LEMMA BeginQueue ==
  ASSUME NEW c \in Cycles, QueueInv, Begin(c) PROVE QueueInv' /\ SeenKept
<1>1. PICK j \in Jobs : j = [NoJob EXCEPT !.since = mark]
  BY NothingHeld DEF Jobs, QueueInv, Shape
<1>2. Grip("list", j, embedded, flagged)
  BY <1>1 DEF Grip, NoJob, Hands
<1>3. Shape'
  BY ReviewAssumption DEF Begin, QueueInv, Shape, tables, redis, history
<1> QED BY <1>1, <1>2, <1>3, FreeStep DEF Begin, Steps, Hands, tables, redis

\* The new fragments have embeddings.
LEMMA ListQueue ==
  ASSUME NEW c \in Cycles, QueueInv, List(c) PROVE QueueInv' /\ SeenKept
<1> PICK gem \in Gemini,
         fresh \in Top({f \in embedded : Born[f] > job[c].since}, Limit, LAMBDA f : Born[f]) :
           Goto(c, "next", [job[c] EXCEPT !.fresh = fresh, !.gem = gem])
  BY DEF List
<1>1. job[c] \in Jobs /\ Grip("list", job[c], embedded, flagged)
  BY DEF QueueInv, Closed, Gripped, List
<1>2. fresh \subseteq embedded /\ embedded \subseteq Frags /\ gem \in BOOLEAN
  BY ReviewAssumption DEF Top, QueueInv, Shape
<1>3. PICK j \in Jobs : j = [job[c] EXCEPT !.fresh = fresh, !.gem = gem]
  BY <1>1, <1>2 DEF Jobs
<1>4. /\ j.fresh = fresh /\ j.cands = job[c].cands /\ j.new = job[c].new
      /\ j.cand = job[c].cand /\ j.pairs = job[c].pairs /\ j.via = job[c].via
  BY <1>1, <1>3 DEF Jobs
<1>5. Goto(c, "next", j)
  BY <1>3
<1>6. Grip("next", j, embedded, flagged)
  BY <1>1, <1>2, <1>4 DEF Grip, Hands
<1>7. Shape'
  BY ShapeSame DEF List, QueueInv, Shape, tables, redis, history
<1> QED BY <1>5, <1>6, <1>7, FreeStep DEF List, Steps, Hands, tables, redis

\* Candidates are similar to the fragment they are listed for.
LEMMA NextFragmentQueue ==
  ASSUME NEW c \in Cycles, QueueInv, NextFragment(c) PROVE QueueInv' /\ SeenKept
<1>1. job[c] \in Jobs /\ Grip("next", job[c], embedded, flagged)
  BY DEF QueueInv, Closed, Gripped, NextFragment
<1>2. Shape' /\ embedded' = embedded /\ pending' = pending /\ UNCHANGED history
  BY ShapeSame DEF NextFragment, QueueInv, Shape, tables, redis, history
<1>3. pc[c] = "next"
  BY DEF NextFragment
<1>4. CASE job[c].fresh = {}
  <2>1. Grip("mark", job[c], embedded, flagged)
    BY <1>1 DEF Grip, Hands
  <2>2. Goto(c, "mark", job[c])
    BY <1>4 DEF NextFragment
  <2> QED BY <1>1, <1>2, <1>3, <2>1, <2>2, FreeStep DEF Steps, Hands
<1>5. CASE job[c].fresh # {}
  <2> PICK f \in job[c].fresh : \E cands \in Top(Candidates(f), CandLimit, Unordered) :
        Goto(c, IF cands = {} THEN "next" ELSE "nli",
             [job[c] EXCEPT !.fresh = @ \ {f}, !.new = f, !.cands = cands])
    BY <1>5 DEF NextFragment
  <2> PICK cands \in Top(Candidates(f), CandLimit, Unordered) :
        Goto(c, IF cands = {} THEN "next" ELSE "nli",
             [job[c] EXCEPT !.fresh = @ \ {f}, !.new = f, !.cands = cands])
    OBVIOUS
  <2>1. f \in embedded /\ f \in Frags /\ embedded \subseteq Frags
    BY <1>1 DEF Grip, QueueInv, Shape
  <2>2. cands \subseteq Candidates(f)
    BY DEF Top
  <2>3. cands \subseteq embedded /\ \A g \in cands : {f, g} \in Similar
    BY <2>2 DEF Candidates
  <2>4. PICK j \in Jobs : j = [job[c] EXCEPT !.fresh = @ \ {f}, !.new = f, !.cands = cands]
    BY <1>1, <2>1, <2>3 DEF Jobs
  <2>5. /\ j.fresh = job[c].fresh \ {f} /\ j.cands = cands /\ j.new = f
        /\ j.cand = job[c].cand /\ j.pairs = job[c].pairs /\ j.via = job[c].via
    BY <1>1, <2>4 DEF Jobs
  <2>6. PICK step \in {"next", "nli"} : step = IF cands = {} THEN "next" ELSE "nli"
    OBVIOUS
  <2>7. Grip(step, j, embedded, flagged)
    BY <1>1, <2>1, <2>3, <2>5, <2>6 DEF Grip, Hands
  <2>8. Goto(c, step, j)
    BY <2>4, <2>6
  <2> QED BY <1>2, <1>3, <2>7, <2>8, FreeStep DEF Steps, Hands
<1> QED BY <1>4, <1>5

\* The pair a cycle takes in hand is similar.
LEMMA NliQueue ==
  ASSUME NEW c \in Cycles, ReviewInv, QueueInv, Nli(c) PROVE QueueInv' /\ SeenKept
<1>1. /\ job[c] \in Jobs /\ Grip("nli", job[c], embedded, flagged)
      /\ Fits("nli", job[c]) /\ pc[c] = "nli"
  BY DEF QueueInv, Closed, Gripped, Nli, ReviewInv, Closures
<1> PICK g \in job[c].cands :
      LET j == [job[c] EXCEPT !.cand = g, !.cands = @ \ {g}]
      IN \/ Goto(c, "contradicts", [j EXCEPT !.via = "nli"]) /\ UNCHANGED settled
         \/ Turn(c, j, TRUE) /\ settled' = settled \union {{j.new, g}}
         \/ Goto(c, "gemini", j) /\ UNCHANGED settled
  BY DEF Nli
<1>2. /\ g \in embedded /\ {job[c].new, g} \in Similar /\ job[c].new \in Frags
      /\ embedded \subseteq Frags
  BY <1>1 DEF Grip, Fits, QueueInv, Shape
<1>3. PICK j \in Jobs : j = [job[c] EXCEPT !.cand = g, !.cands = @ \ {g}]
  BY <1>1, <1>2 DEF Jobs
<1>4. /\ j.fresh = job[c].fresh /\ j.cands = job[c].cands \ {g} /\ j.new = job[c].new
      /\ j.cand = g /\ j.pairs = job[c].pairs /\ j.via = "nli"
  BY <1>1, <1>3 DEF Jobs, Fits
<1>5. InHand(c) \notin Similar
  BY <1>1, EmptyHanded DEF QueueInv, Hands
<1>6. UNCHANGED <<tables, redis, flagged, cut, cycles, trouble>>
  BY DEF Nli
<1>7. Grip("contradicts", j, embedded, flagged) /\ Grip("gemini", j, embedded, flagged)
  BY <1>1, <1>2, <1>4 DEF Grip, Hands
<1>8. CASE /\ Goto(c, "contradicts", [j EXCEPT !.via = "nli"]) \/ Goto(c, "gemini", j)
           /\ UNCHANGED settled
  <2>1. [j EXCEPT !.via = "nli"] = j
    BY <1>4 DEF Jobs
  <2>2. Shape'
    BY <1>6, <1>8, ShapeSame DEF QueueInv, Shape
  <2>3. PICK step \in {"contradicts", "gemini"} : Goto(c, step, j)
    BY <1>8, <2>1
  <2> QED BY <1>4, <1>5, <1>6, <1>7, <1>8, <2>2, <2>3, HandStep DEF Steps, tables, redis
<1>9. CASE Turn(c, j, TRUE) /\ settled' = settled \union {{job[c].new, g}}
  <2>1. Shape'
    BY <1>2, <1>6, <1>9, ShapeSame, PairOfFragments DEF QueueInv, Shape
  <2>2. PICK step \in Steps \ Hands, k \in Jobs :
          Goto(c, step, k) /\ Grip(step, k, embedded, flagged)
    <3>1. j.new \in Frags \intersect embedded
      BY <1>1, <1>2, <1>4, ReviewAssumption DEF Grip
    <3>2. /\ \A x \in j.cands : {j.new, x} \in Similar
          /\ j.pairs \subseteq Near /\ UNION j.pairs \subseteq embedded
          /\ j.fresh \union j.cands \subseteq embedded
      BY <1>1, <1>4 DEF Grip
    <3> QED BY <1>4, <1>9, <3>1, <3>2, TurnLetsGo
  <2> QED BY <1>5, <1>6, <1>9, <2>1, <2>2, HandStep DEF tables, redis
<1> QED BY <1>3, <1>4, <1>8, <1>9

\* Without a model a very similar pair goes into the queue, another is cut short.
LEMMA FlagQueue ==
  ASSUME NEW c \in Cycles, ReviewInv, QueueInv, Flag(c) PROVE QueueInv' /\ SeenKept
<1>1. /\ pc[c] = "gemini" /\ pc[c] \in Hands /\ Turn(c, job[c], FALSE)
      /\ UNCHANGED <<tables, mark, settled, cycles, trouble>>
      /\ job[c].new \in Frags /\ job[c].cand \in Frags
  BY DEF Flag, Hands, ReviewInv, Closures, Fits
<1>2. Grip(pc[c], job[c], embedded, flagged)
  BY DEF QueueInv, Gripped
<1>3. InHand(c) \in Similar /\ InHand(c) \subseteq embedded /\ InHand(c) \in Pairs
  <2>1. InHand(c) \in Similar /\ InHand(c) \subseteq embedded \union {None}
    BY <1>1, <1>2 DEF Grip, Hands, InHand
  <2> QED BY <2>1, PairOfFragments
<1>4. CASE InHand(c) \notin VerySimilar
  <2>1. cut' = cut \union {InHand(c)} /\ UNCHANGED <<pending, flagged>>
    BY <1>4 DEF Flag
  <2>2. Shape'
    BY <1>1, <1>3, <2>1, ShapeSame DEF QueueInv, Shape, redis
  <2> QED BY <1>1, <2>1, <2>2, PairDone DEF tables
<1>5. CASE InHand(c) \in VerySimilar
  <2>1. /\ Len(pending) < MaxPending
        /\ pending' = Append(pending, <<job[c].new, job[c].cand>>)
        /\ flagged' = flagged \union {InHand(c)} /\ UNCHANGED cut
    BY <1>5 DEF Flag
  <2>2. pending \in Seq(Frags \X Frags) /\ <<job[c].new, job[c].cand>> \in Frags \X Frags
    BY <1>1 DEF QueueInv, Shape
  <2>3. /\ pending' \in Seq(Frags \X Frags) /\ Len(pending') = Len(pending) + 1
        /\ \A i \in DOMAIN pending : i \in DOMAIN pending' /\ pending'[i] = pending[i]
        /\ Len(pending') \in DOMAIN pending'
        /\ pending'[Len(pending')] = <<job[c].new, job[c].cand>>
        /\ \A i \in DOMAIN pending' : i \in DOMAIN pending \/ i = Len(pending')
    BY <2>1, <2>2
  <2>4. Shape'
    BY <1>1, <1>5, <2>1, <2>3 DEF QueueInv, Shape, tables
  <2>5. PICK step \in Steps \ Hands, k \in Jobs :
          Goto(c, step, k) /\ Grip(step, k, embedded, flagged)
    BY <1>1, TurnFromHand
  <2>6. Grip(step, k, embedded, flagged')
    BY <2>1, <2>5 DEF Grip
  <2>7. /\ Closed' /\ Gripped' /\ pc'[c] = step /\ job'[c] = k
        /\ \A d \in Cycles \ {c} : pc'[d] = pc[d] /\ job'[d] = job[d]
    BY <1>1, <2>1, <2>5, <2>6, OneMoves DEF QueueInv, tables
  <2>8. Entries'
    <3> SUFFICES ASSUME NEW i \in DOMAIN pending'
                 PROVE  /\ {pending'[i][1], pending'[i][2]} \in flagged'
                        /\ {pending'[i][1], pending'[i][2]} \subseteq embedded'
      BY DEF Entries
    <3>1. CASE i \in DOMAIN pending
      <4>1. /\ {pending[i][1], pending[i][2]} \in flagged
            /\ {pending[i][1], pending[i][2]} \subseteq embedded
        BY <3>1 DEF QueueInv, Entries
      <4>2. pending'[i] = pending[i] /\ embedded' = embedded /\ flagged \subseteq flagged'
        BY <1>1, <2>1, <2>3, <3>1 DEF tables
      <4> QED BY <4>1, <4>2
    <3>2. CASE i = Len(pending')
      BY <1>1, <1>3, <2>1, <2>3, <3>2 DEF InHand, tables
    <3> QED BY <2>3, <3>1, <3>2
  <2>9. Room'
    <3>1. Holders' \subseteq Cycles
      BY DEF Holders
    <3>2. Cardinality(Holders') \in Nat /\ Cardinality(Holders') <= Cardinality(Cycles)
            /\ Cardinality(Cycles) \in Nat
      BY <3>1, HoldersCounted
    <3>3. Len(pending) \in Nat /\ MaxPending \in Nat
      BY <2>2, ReviewAssumption
    <3> QED BY <2>1, <2>3, <3>2, <3>3 DEF Room
  <2>10. ASSUME NEW p \in Similar, Underway(p), p # InHand(c) PROVE Underway(p)'
    BY <2>7, <2>10, StillUnderway
  <2>11. FlaggedKept'
    <3> SUFFICES ASSUME NEW p \in flagged' \ (settled' \union cut')
                 PROVE  InQueue(p)' \/ Underway(p)'
      BY DEF FlaggedKept, InQueue
    <3>1. CASE p = InHand(c)
      BY <2>3, <3>1 DEF InQueue, InHand
    <3>2. CASE p # InHand(c)
      <4>1. InQueue(p) \/ Underway(p)
        BY <1>1, <2>1, <3>2 DEF QueueInv, FlaggedKept, InQueue
      <4>2. p \in Similar
        BY <2>1, <3>2, ReviewAssumption DEF QueueInv, Shape
      <4> QED BY <2>3, <2>10, <3>2, <4>1, <4>2 DEF InQueue
    <3> QED BY <3>1, <3>2
  <2>12. SeenKept
    BY <1>1, <2>1, <2>10 DEF SeenKept, Seen
  <2> QED BY <2>4, <2>7, <2>8, <2>9, <2>11, <2>12 DEF QueueInv
<1> QED BY <1>4, <1>5

\* An answer, or a failure that is taken for one, ends the review of a pair.
LEMMA CompatibleQueue ==
  ASSUME NEW c \in Cycles, ReviewInv, QueueInv, pc[c] \in {"gemini", "ask"},
         Turn(c, job[c], TRUE), Compatible(c),
         UNCHANGED <<tables, redis, flagged, cycles>>
  PROVE  QueueInv' /\ SeenKept
<1>1. pc[c] \in Hands \ {"supLink", "supRetire"}
  BY DEF Hands
<1>2. InHand(c) \in Pairs
  <2>1. InHand(c) \in Similar
    BY <1>1 DEF QueueInv, Gripped, Grip, InHand
  <2> QED BY <2>1, PairOfFragments
<1>3. /\ trouble' \in 0..MaxTrouble /\ settled' \subseteq Pairs /\ cut' \subseteq Pairs
      /\ settled \subseteq settled' /\ cut \subseteq cut'
      /\ InHand(c) \in settled' \union cut'
  BY <1>2, ReviewAssumption DEF Compatible, QueueInv, Shape
<1>4. Shape'
  BY <1>3, ShapeSame DEF QueueInv
<1> QED BY <1>1, <1>3, <1>4, PairDone DEF tables, redis

LEMMA AskGeminiQueue ==
  ASSUME NEW c \in Cycles, ReviewInv, QueueInv, AskGemini(c) PROVE QueueInv' /\ SeenKept
<1>1. pc[c] = "gemini" /\ UNCHANGED <<tables, redis, flagged, cycles>>
  BY DEF AskGemini
<1>2. CASE Turn(c, job[c], TRUE) /\ Compatible(c)
  BY <1>1, <1>2, CompatibleQueue
<1>3. CASE /\ Goto(c, "contradicts", [job[c] EXCEPT !.via = "gemini"])
           /\ UNCHANGED <<settled, cut, trouble>>
  <2>1. job[c] \in Jobs /\ Grip("gemini", job[c], embedded, flagged)
    BY <1>1 DEF QueueInv, Closed, Gripped
  <2>2. PICK j \in Jobs : j = [job[c] EXCEPT !.via = "gemini"]
    BY <2>1 DEF Jobs
  <2>3. /\ j.fresh = job[c].fresh /\ j.cands = job[c].cands /\ j.new = job[c].new
        /\ j.cand = job[c].cand /\ j.pairs = job[c].pairs /\ j.via = "gemini"
    BY <2>1, <2>2 DEF Jobs
  <2>4. Grip("contradicts", j, embedded, flagged)
    BY <2>1, <2>3 DEF Grip, Hands
  <2>5. {j.new, j.cand} = InHand(c)
    BY <2>3 DEF InHand
  <2>6. Shape'
    BY <1>1, <1>3, ShapeSame DEF QueueInv, Shape
  <2> QED BY <1>1, <1>3, <2>2, <2>3, <2>4, <2>5, <2>6, HandStep DEF Steps, tables, redis
<1> QED BY <1>2, <1>3 DEF AskGemini

\* The watermark is the Date of a fragment.
LEMMA MarkQueue ==
  ASSUME NEW c \in Cycles, QueueInv, Mark(c) PROVE QueueInv' /\ SeenKept
<1>1. mark' \in Nat
  BY DEF Mark, QueueInv, Shape, Closed, Jobs
<1>2. Shape'
  BY <1>1 DEF Mark, QueueInv, Shape, tables, history
<1>3. NoJob \in Jobs /\ Grip("pairs", NoJob, embedded, flagged)
  BY NothingHeld DEF Steps, Hands
<1> QED BY <1>2, <1>3, FreeStep DEF Mark, Steps, Hands, tables
-----------------------------------------------------------------------------
\* What the tables are after a link or a halving.
LEMMA TablesTyped ==
  ASSUME NEW f \in Frags, NEW g \in Frags, NEW r \in {"contradicts", "superseded_by"}, Shape
  PROVE  /\ Link(f, g, r) =>
              edge' \in [Frags -> [Frags -> {None, "contradicts", "superseded_by"}]]
         /\ Halve(f, g) => halved' \in [Frags -> [Frags -> 0..2]]
<1>1. ASSUME Halve(f, g) PROVE halved' \in [Frags -> [Frags -> 0..2]]
  <2>1. halved \in [Frags -> [Frags -> 0..2]] /\ halved[f][g] \in 0..2
    BY DEF Shape
  <2>2. PICK n \in 0..2 : n = IF halved[f][g] = 2 THEN 2 ELSE halved[f][g] + 1
    BY <2>1
  <2>3. halved' = [halved EXCEPT ![f][g] = n]
    BY <1>1, <2>2 DEF Halve
  <2> QED BY <2>1, <2>3
<1>2. ASSUME Link(f, g, r)
      PROVE  edge' \in [Frags -> [Frags -> {None, "contradicts", "superseded_by"}]]
  BY <1>2 DEF Link, Shape
<1> QED BY <1>1, <1>2

LEMMA LinkContradictsQueue ==
  ASSUME NEW c \in Cycles, ReviewInv, QueueInv, LinkContradicts(c)
  PROVE  QueueInv' /\ SeenKept
<1>1. /\ pc[c] = "contradicts" /\ Link(job[c].new, job[c].cand, "contradicts")
      /\ Goto(c, "halve", job[c])
      /\ UNCHANGED <<embedded, retired, halved, redis, history, cycles, trouble>>
  BY DEF LinkContradicts
<1>2. job[c].new \in Frags /\ job[c].cand \in Frags
  BY <1>1 DEF ReviewInv, Closures, Fits, Hands
<1>3. edge' \in [Frags -> [Frags -> {None, "contradicts", "superseded_by"}]]
  BY <1>1, <1>2, TablesTyped DEF QueueInv
<1>4. Shape'
  BY <1>1, <1>3 DEF QueueInv, Shape, redis, history
<1> QED BY <1>1, <1>4, PairStays DEF Hands, redis

LEMMA HalveLoserQueue ==
  ASSUME NEW c \in Cycles, ReviewInv, QueueInv, HalveLoser(c)
  PROVE  QueueInv' /\ SeenKept
<1>1. /\ pc[c] = "halve" /\ Goto(c, "link", job[c])
      /\ UNCHANGED <<embedded, edge, retired, redis, history, cycles, trouble>>
      /\ halved' = halved \/ Halve(Loser(c), Winner(c))
  BY DEF HalveLoser
<1>2. Loser(c) \in Frags /\ Winner(c) \in Frags
  BY <1>1, LoserAndWinner DEF ReviewInv, Hands
<1>3. halved' \in [Frags -> [Frags -> 0..2]]
  BY <1>1, <1>2, TablesTyped DEF QueueInv, Shape
<1>4. Shape'
  BY <1>1, <1>3 DEF QueueInv, Shape, redis, history
<1> QED BY <1>1, <1>4, PairStays DEF Hands, redis

LEMMA LinkWinnerQueue ==
  ASSUME NEW c \in Cycles, ReviewInv, QueueInv, LinkWinner(c)
  PROVE  QueueInv' /\ SeenKept
<1>1. /\ pc[c] = "link" /\ Goto(c, "retire", job[c])
      /\ Link(Loser(c), Winner(c), "superseded_by")
      /\ UNCHANGED <<embedded, retired, halved, redis, history, cycles, trouble>>
  BY DEF LinkWinner
<1>2. Loser(c) \in Frags /\ Winner(c) \in Frags
  BY <1>1, LoserAndWinner DEF ReviewInv, Hands
<1>3. edge' \in [Frags -> [Frags -> {None, "contradicts", "superseded_by"}]]
  BY <1>1, <1>2, TablesTyped DEF QueueInv
<1>4. Shape'
  BY <1>1, <1>3 DEF QueueInv, Shape, redis, history
<1> QED BY <1>1, <1>4, PairStays DEF Hands, redis

\* The retirement settles the pair.
LEMMA RetireLoserQueue ==
  ASSUME NEW c \in Cycles, ReviewInv, QueueInv, RetireLoser(c)
  PROVE  QueueInv' /\ SeenKept
<1>1. /\ pc[c] = "retire" /\ Turn(c, job[c], TRUE)
      /\ retired' = retired \union {Loser(c)} /\ settled' = settled \union {InHand(c)}
      /\ UNCHANGED <<embedded, edge, halved, redis, flagged, cut, cycles, trouble>>
  BY DEF RetireLoser
<1>2. Loser(c) \in Frags /\ Loser(c) \in InHand(c)
  BY <1>1, LoserAndWinner DEF ReviewInv, Hands
<1>3. InHand(c) \in Similar /\ InHand(c) \subseteq embedded \union {None}
  BY <1>1 DEF QueueInv, Gripped, Grip, InHand, Hands
<1>4. Loser(c) \in embedded /\ InHand(c) \in Pairs
  BY <1>2, <1>3, PairOfFragments, ReviewAssumption
<1>5. Shape'
  BY <1>1, <1>4 DEF QueueInv, Shape, redis
<1> QED BY <1>1, <1>5, PairDone DEF Hands, redis
-----------------------------------------------------------------------------
(* The near pairs, the queue, failures                                     *)

\* A pair is the set of any two different members.
LEMMA PairOfTwo ==
  ASSUME NEW p \in Near, NEW a \in p, NEW b \in p, a # b
  PROVE  p = {a, b}
<1>1. Cardinality(p) = 2 /\ IsFiniteSet(p)
  <2>1. p \subseteq Frags /\ Cardinality(p) = 2 /\ IsFiniteSet(Frags)
    BY ReviewAssumption
  <2> QED BY <2>1, FS_Subset
<1>2. PICK M : M = {a} /\ IsFiniteSet({a}) /\ Cardinality({a}) = 1
  BY FS_Singleton
<1>3. IsFiniteSet(M) /\ Cardinality(M) = 1 /\ b \notin M
  BY <1>2
<1>4. Cardinality(M \union {b}) = 2
  <2>1. Cardinality(M \union {b}) = Cardinality(M) + 1
    BY <1>3, FS_AddElement
  <2> QED BY <1>3, <2>1
<1>5. M \union {b} \in SUBSET p
  BY <1>2
<1>6. M \union {b} = p
  BY <1>1, <1>4, <1>5, FS_Subset
<1> QED BY <1>2, <1>6

\* The closure with which the loop over the queue begins.
LEMMA QueueBegins ==
  ASSUME NEW E, NEW F
  PROVE  LET j == [NoJob EXCEPT !.left = Batch]
         IN j \in Jobs /\ Grip("pop", j, E, F)
<1>1. Batch \in Nat
  BY ReviewAssumption
<1>2. Batch \in 0..Batch
  BY <1>1
<1>3. PICK j \in Jobs : j = [NoJob EXCEPT !.left = Batch]
  BY <1>2, NothingHeld DEF Jobs
<1>4. Grip("pop", j, E, F)
  BY <1>3 DEF Grip, NoJob, Hands
<1> QED BY <1>3, <1>4

\* The pairs listed are near and embedded.
LEMMA ListPairsQueue ==
  ASSUME NEW c \in Cycles, QueueInv, ListPairs(c) PROVE QueueInv' /\ SeenKept
<1>1. pc[c] = "pairs" /\ UNCHANGED <<tables, redis, history, cycles, trouble>>
  BY DEF ListPairs
<1>2. Shape'
  BY <1>1, ShapeSame DEF QueueInv, Shape, history
<1>5. PICK gem \in Gemini :
      IF ~ gem THEN Goto(c, "pop", [NoJob EXCEPT !.left = Batch])
      ELSE LET found == {p \in Near : /\ p \subseteq embedded \ retired
                                      /\ \A f, g \in p : edge[f][g] = None}
           IN \E kept \in Top(found, PairLimit, Unordered) :
                Goto(c, "pair", [NoJob EXCEPT !.gem = TRUE, !.pairs = kept])
  BY DEF ListPairs
<1>3. CASE ~ gem
  <2>1. PICK j \in Jobs : j = [NoJob EXCEPT !.left = Batch] /\ Grip("pop", j, embedded, flagged)
    BY QueueBegins
  <2>2. Goto(c, "pop", j)
    BY <1>3, <1>5, <2>1
  <2> QED BY <1>1, <1>2, <2>1, <2>2, FreeStep DEF Steps, Hands, tables, redis
<1>4. CASE gem
  <2> DEFINE found == {p \in Near : /\ p \subseteq embedded \ retired
                                    /\ \A f, g \in p : edge[f][g] = None}
  <2>1. PICK kept \in Top(found, PairLimit, Unordered) :
          Goto(c, "pair", [NoJob EXCEPT !.gem = TRUE, !.pairs = kept])
    BY <1>4, <1>5
  <2>2. kept \subseteq Near /\ UNION kept \subseteq embedded
    BY DEF Top
  <2>3. kept \subseteq Pairs
    BY <2>2, PairOfFragments
  <2>4. PICK j \in Jobs : j = [NoJob EXCEPT !.gem = TRUE, !.pairs = kept]
    BY <2>3, NothingHeld DEF Jobs
  <2>5. Grip("pair", j, embedded, flagged)
    BY <2>2, <2>4 DEF Grip, NoJob, Hands
  <2>6. Goto(c, "pair", j)
    BY <2>1, <2>4
  <2> QED BY <1>1, <1>2, <2>5, <2>6, FreeStep DEF Steps, Hands, tables, redis
<1> QED BY <1>3, <1>4

\* The pair taken in hand is near, hence not similar.
LEMMA ReviewPairQueue ==
  ASSUME NEW c \in Cycles, ReviewInv, QueueInv, ReviewPair(c) PROVE QueueInv' /\ SeenKept
<1>1. pc[c] = "pair" /\ UNCHANGED <<tables, redis, history, cycles, trouble>>
  BY DEF ReviewPair
<1>2. Shape'
  BY <1>1, ShapeSame DEF QueueInv, Shape, history
<1>3. /\ job[c] \in Jobs /\ Grip("pair", job[c], embedded, flagged)
      /\ job[c].cands = {}
  BY <1>1 DEF QueueInv, Closed, Gripped, ReviewInv, Closures, Fits
<1>4. CASE job[c].pairs = {}
  <2>1. PICK j \in Jobs : j = [NoJob EXCEPT !.left = Batch] /\ Grip("pop", j, embedded, flagged)
    BY QueueBegins
  <2>2. Goto(c, "pop", j)
    BY <1>4, <2>1 DEF ReviewPair
  <2> QED BY <1>1, <1>2, <2>1, <2>2, FreeStep DEF Steps, Hands, tables, redis
<1>5. CASE job[c].pairs # {}
  <2>9. PICK p \in job[c].pairs : \E a \in p, b \in p :
        /\ a < b
        /\ LET j == [job[c] EXCEPT !.pairs = @ \ {p}]
               older == IF Newer(b, a) THEN a ELSE b
               newer == IF older = a THEN b ELSE a
           IN \/ Goto(c, "pair", j)
              \/ Goto(c, "supLink", [j EXCEPT !.new = older, !.cand = newer])
    BY <1>5 DEF ReviewPair
  <2>10. PICK a \in p, b \in p :
        /\ a < b
        /\ LET j == [job[c] EXCEPT !.pairs = @ \ {p}]
               older == IF Newer(b, a) THEN a ELSE b
               newer == IF older = a THEN b ELSE a
           IN \/ Goto(c, "pair", j)
              \/ Goto(c, "supLink", [j EXCEPT !.new = older, !.cand = newer])
    BY <2>9
  <2>1. p \in Near /\ p \subseteq Frags /\ p \subseteq embedded
    BY <1>3, PairOfFragments DEF Grip
  <2>2. a # b
    <3>1. a \in Int /\ b \in Int
      BY <2>1, ReviewAssumption
    <3> QED BY <2>10, <3>1
  <2>3. p = {a, b}
    BY <2>1, <2>2, PairOfTwo
  <2>4. PICK j \in Jobs : j = [job[c] EXCEPT !.pairs = @ \ {p}]
    BY <1>3 DEF Jobs
  <2>5. /\ j.fresh = job[c].fresh /\ j.cands = job[c].cands /\ j.new = job[c].new
        /\ j.cand = job[c].cand /\ j.pairs = job[c].pairs \ {p} /\ j.via = job[c].via
    BY <1>3, <2>4 DEF Jobs
  <2>6. CASE Goto(c, "pair", j)
    <3>1. Grip("pair", j, embedded, flagged)
      BY <1>3, <2>5 DEF Grip, Hands
    <3> QED BY <1>1, <1>2, <2>6, <3>1, FreeStep DEF Steps, Hands, tables, redis
  <2>7. PICK older \in p, newer \in p :
          /\ older # newer
          /\ older = IF Newer(b, a) THEN a ELSE b
          /\ newer = IF older = a THEN b ELSE a
    BY <2>2
  <2>8. CASE Goto(c, "supLink", [j EXCEPT !.new = older, !.cand = newer])
    <3>1. PICK k \in Jobs : k = [j EXCEPT !.new = older, !.cand = newer]
      BY <2>1 DEF Jobs
    <3>2. /\ k.fresh = j.fresh /\ k.cands = j.cands /\ k.new = older
          /\ k.cand = newer /\ k.pairs = j.pairs /\ k.via = j.via
      BY <3>1 DEF Jobs
    <3>3. {older, newer} = p
      BY <2>3, <2>7
    <3>4. Grip("supLink", k, embedded, flagged)
      <4>1. k.via # "pending" /\ k.cands = {}
        BY <1>1, <1>3, <2>5, <3>2 DEF Grip
      <4> QED BY <1>3, <2>1, <2>5, <3>2, <3>3, <4>1 DEF Grip, Hands
    <3>5. InHand(c) \notin Similar /\ k.via # "pending"
      BY <1>1, <1>3, <2>5, <3>2, EmptyHanded DEF QueueInv, Hands, Grip
    <3>6. Goto(c, "supLink", k)
      BY <2>8, <3>1
    <3> QED BY <1>1, <1>2, <3>4, <3>5, <3>6, HandStep DEF Steps, tables, redis, history
  <2>11. \/ Goto(c, "pair", j)
         \/ Goto(c, "supLink", [j EXCEPT !.new = older, !.cand = newer])
    <3> DEFINE o == IF Newer(b, a) THEN a ELSE b
               n == IF o = a THEN b ELSE a
    <3>1. \/ Goto(c, "pair", j)
          \/ Goto(c, "supLink", [j EXCEPT !.new = o, !.cand = n])
      BY <2>4, <2>10
    <3>2. o = older /\ n = newer
      BY <2>7
    <3> QED BY <3>1, <3>2
  <2> QED BY <2>6, <2>8, <2>11
<1> QED BY <1>4, <1>5

LEMMA LinkNewerQueue ==
  ASSUME NEW c \in Cycles, ReviewInv, QueueInv, LinkNewer(c)
  PROVE  QueueInv' /\ SeenKept
<1>1. /\ pc[c] = "supLink" /\ Goto(c, "supRetire", job[c])
      /\ Link(job[c].new, job[c].cand, "superseded_by")
      /\ UNCHANGED <<embedded, retired, halved, redis, history, cycles, trouble>>
  BY DEF LinkNewer
<1>2. job[c].new \in Frags /\ job[c].cand \in Frags
  BY <1>1 DEF ReviewInv, Closures, Fits, Hands
<1>3. edge' \in [Frags -> [Frags -> {None, "contradicts", "superseded_by"}]]
  BY <1>1, <1>2, TablesTyped DEF QueueInv
<1>4. Shape'
  BY <1>1, <1>3 DEF QueueInv, Shape, redis, history
<1> QED BY <1>1, <1>4, PairStays DEF Hands, redis

\* A near pair let go: the next one's turn.
LEMMA NearLetGo ==
  ASSUME NEW c \in Cycles, ReviewInv, QueueInv, pc[c] \in {"supLink", "supRetire"}, Shape',
         Goto(c, "pair", [job[c] EXCEPT !.new = None, !.cand = None]),
         embedded' = embedded, pending' = pending, UNCHANGED history
  PROVE  QueueInv' /\ SeenKept
<1>1. /\ job[c] \in Jobs /\ Grip(pc[c], job[c], embedded, flagged)
      /\ job[c].cands = {}
  BY DEF QueueInv, Closed, Gripped, ReviewInv, Closures, Fits
<1>2. PICK j \in Jobs : j = [job[c] EXCEPT !.new = None, !.cand = None]
  BY <1>1 DEF Jobs
<1>3. /\ j.fresh = job[c].fresh /\ j.cands = {} /\ j.new = None
      /\ j.cand = None /\ j.pairs = job[c].pairs /\ j.via = job[c].via
  BY <1>1, <1>2 DEF Jobs
<1>4. Grip("pair", j, embedded, flagged)
  BY <1>1, <1>3 DEF Grip, Hands
<1>5. InHand(c) \notin Similar
  <2>1. InHand(c) \in Near
    BY <1>1 DEF Grip, InHand
  <2> QED BY <2>1, NearIsNotSimilar
<1> QED BY <1>2, <1>4, <1>5, HandStep DEF Steps, Hands, history

LEMMA RetireOlderQueue ==
  ASSUME NEW c \in Cycles, ReviewInv, QueueInv, RetireOlder(c)
  PROVE  QueueInv' /\ SeenKept
<1>1. /\ pc[c] = "supRetire"
      /\ Goto(c, "pair", [job[c] EXCEPT !.new = None, !.cand = None])
      /\ UNCHANGED <<embedded, edge, redis, history, cycles, trouble>>
      /\ \/ UNCHANGED <<retired, halved>>
         \/ retired' = retired \union {job[c].new} /\ Halve(job[c].new, job[c].cand)
  BY DEF RetireOlder
<1>2. job[c].new \in Frags /\ job[c].cand \in Frags
  BY <1>1 DEF ReviewInv, Closures, Fits, Hands
<1>3. job[c].new \in embedded
  <2>1. job[c].new \in embedded \union {None}
    BY DEF QueueInv, Gripped, Grip
  <2> QED BY <1>2, <2>1, ReviewAssumption
<1>4. halved' \in [Frags -> [Frags -> 0..2]]
  BY <1>1, <1>2, TablesTyped DEF QueueInv, Shape
<1>5. Shape'
  BY <1>1, <1>3, <1>4 DEF QueueInv, Shape, redis, history
<1> QED BY <1>1, <1>5, NearLetGo DEF redis
-----------------------------------------------------------------------------
\* The entry a cycle pops is in its hands.
LEMMA PopQueue ==
  ASSUME NEW c \in Cycles, ReviewInv, QueueInv, Pop(c) PROVE QueueInv' /\ SeenKept
<1>1. pc[c] = "pop" /\ pc[c] \notin Hands /\ UNCHANGED <<tables, mark, history, cycles, trouble>>
  BY DEF Pop, Hands
<1>2. CASE Goto(c, "idle", NoJob) /\ UNCHANGED pending
  <2>1. NoJob \in Jobs /\ Grip("idle", NoJob, embedded, flagged)
    BY NothingHeld DEF Steps, Hands
  <2>2. Shape'
    BY <1>1, <1>2, ShapeSame DEF QueueInv, Shape, history, redis
  <2> QED BY <1>1, <1>2, <2>1, <2>2, FreeStep DEF Steps, Hands, tables
<1>3. CASE /\ pending # <<>> /\ job[c].left > 0 /\ pending' = Tail(pending)
           /\ Goto(c, "ask", [job[c] EXCEPT !.new = Head(pending)[1], !.gem = TRUE,
                              !.cand = Head(pending)[2], !.left = @ - 1,
                              !.via = "pending"])
  <2> PICK f, g : f = Head(pending)[1] /\ g = Head(pending)[2]
    OBVIOUS
  <2>1. /\ pending \in Seq(Frags \X Frags) /\ Head(pending) = pending[1]
        /\ 1 \in DOMAIN pending /\ Len(pending) \in Nat
        /\ pending' \in Seq(Frags \X Frags) /\ Len(pending') = Len(pending) - 1
        /\ \A i \in DOMAIN pending' : i + 1 \in DOMAIN pending /\ pending'[i] = pending[i + 1]
        /\ \A i \in DOMAIN pending \ {1} :
              i - 1 \in DOMAIN pending' /\ pending'[i - 1] = pending[i]
    <3>1. pending \in Seq(Frags \X Frags) /\ pending # <<>>
      BY <1>3 DEF QueueInv, Shape
    <3> QED BY <1>3, <3>1
  <2>2. /\ f \in Frags /\ g \in Frags /\ {f, g} \in flagged /\ {f, g} \subseteq embedded
    <3>1. pending[1] \in Frags \X Frags
      BY <2>1
    <3>2. f = pending[1][1] /\ g = pending[1][2]
      BY <2>1
    <3>3. {pending[1][1], pending[1][2]} \in flagged
            /\ {pending[1][1], pending[1][2]} \subseteq embedded
      BY <2>1 DEF QueueInv, Entries
    <3> QED BY <3>1, <3>2, <3>3
  <2>3. {f, g} \in Similar
    BY <2>2, ReviewAssumption DEF QueueInv, Shape
  <2>4. /\ job[c] \in Jobs /\ Grip("pop", job[c], embedded, flagged)
        /\ job[c].cands = {}
    BY <1>1 DEF QueueInv, Closed, Gripped, ReviewInv, Closures, Fits
  <2>5. PICK n \in 0..Batch : n = job[c].left - 1
    <3>1. job[c].left \in 0..Batch /\ Batch \in Nat
      BY <2>4, ReviewAssumption DEF Jobs
    <3> QED BY <1>3, <3>1
  <2>6. PICK j0 \in Jobs : j0 = [job[c] EXCEPT !.new = f, !.cand = g]
    BY <2>2, <2>4 DEF Jobs
  <2>7. PICK j1 \in Jobs : j1 = [j0 EXCEPT !.gem = TRUE, !.via = "pending"]
    BY <2>6 DEF Jobs
  <2>8. PICK j \in Jobs : j = [j1 EXCEPT !.left = n]
    BY <2>7 DEF Jobs
  <2>9. /\ j.fresh = job[c].fresh /\ j.cands = {} /\ j.new = f
        /\ j.cand = g /\ j.pairs = job[c].pairs /\ j.via = "pending"
    BY <2>4, <2>6, <2>7, <2>8 DEF Jobs
  <2>10. Goto(c, "ask", j)
    <3>1. j = [job[c] EXCEPT !.new = f, !.gem = TRUE, !.cand = g, !.left = n,
                             !.via = "pending"]
      BY <2>4, <2>6, <2>7, <2>8 DEF Jobs
    <3>2. [job[c] EXCEPT !.new = f, !.gem = TRUE, !.cand = g, !.left = n, !.via = "pending"]
            = [job[c] EXCEPT !.new = f, !.gem = TRUE, !.cand = g, !.left = @ - 1,
                             !.via = "pending"]
      BY <2>4, <2>5 DEF Jobs
    <3> QED BY <1>3, <3>1, <3>2
  <2>11. Grip("ask", j, embedded, flagged)
    BY <2>2, <2>3, <2>4, <2>9 DEF Grip, Hands
  <2>12. /\ Closed' /\ Gripped' /\ pc'[c] = "ask" /\ job'[c] = j
         /\ \A d \in Cycles \ {c} : pc'[d] = pc[d] /\ job'[d] = job[d]
    BY <1>1, <2>10, <2>11, OneMoves DEF QueueInv, tables, Steps, history
  <2>13. Shape'
    BY <1>1, <2>1 DEF QueueInv, Shape, tables, history
  <2>14. Entries'
    <3> SUFFICES ASSUME NEW i \in DOMAIN pending'
                 PROVE  /\ {pending'[i][1], pending'[i][2]} \in flagged
                        /\ {pending'[i][1], pending'[i][2]} \subseteq embedded
      BY <1>1 DEF Entries, history, tables
    <3>1. i + 1 \in DOMAIN pending /\ pending'[i] = pending[i + 1]
      BY <2>1
    <3> QED BY <3>1 DEF QueueInv, Entries
  <2>15. Room'
    <3>1. Holders' \subseteq Holders \union {c}
      BY <2>12 DEF Holders
    <3>2. Holders \subseteq Cycles /\ Holders' \subseteq Cycles
      BY DEF Holders
    <3>3. IsFiniteSet(Holders) /\ Cardinality(Holders) \in Nat /\ Cardinality(Holders') \in Nat
            /\ Cardinality(Cycles) \in Nat
      BY <3>2, HoldersCounted
    <3>4. /\ IsFiniteSet(Holders \union {c})
          /\ Cardinality(Holders \union {c}) <= Cardinality(Holders) + 1
      BY <3>3, FS_AddElement
    <3>5. Cardinality(Holders') <= Cardinality(Holders \union {c})
      BY <3>1, <3>4, FS_Subset
    <3>6. Cardinality(Holders \union {c}) \in Nat
      BY <3>4, FS_CardinalityType
    <3>7. MaxPending \in Nat
      BY ReviewAssumption
    <3> QED BY <2>1, <3>3, <3>4, <3>5, <3>6, <3>7 DEF QueueInv, Room
  <2>16. ASSUME NEW p \in Similar, Underway(p) PROVE Underway(p)'
    <3>1. InHand(c) # p
      BY <1>1, EmptyHanded DEF QueueInv
    <3> QED BY <2>12, <2>16, <3>1, StillUnderway
  <2>17. FlaggedKept'
    <3> SUFFICES ASSUME NEW p \in flagged \ (settled \union cut)
                 PROVE  InQueue(p)' \/ Underway(p)'
      BY <1>1 DEF FlaggedKept, InQueue, history
    <3>1. CASE Underway(p)
      <4>1. p \in Similar
        BY ReviewAssumption DEF QueueInv, Shape
      <4> QED BY <2>16, <3>1, <4>1
    <3>2. ASSUME NEW i \in DOMAIN pending, {pending[i][1], pending[i][2]} = p
          PROVE  InQueue(p)' \/ Underway(p)'
      <4>1. CASE i = 1
        <5>1. InHand(c)' = p
          BY <2>1, <2>9, <2>12, <3>2, <4>1 DEF InHand
        <5> QED BY <5>1 DEF Underway
      <4>2. CASE i # 1
        <5>1. i - 1 \in DOMAIN pending' /\ pending'[i - 1] = pending[i]
          BY <2>1, <4>2
        <5> QED BY <3>2, <5>1 DEF InQueue
      <4> QED BY <4>1, <4>2
    <3> QED BY <3>1, <3>2 DEF QueueInv, FlaggedKept
  <2>18. SeenKept
    BY <1>1, <2>16 DEF SeenKept, Seen, history
  <2> QED BY <2>12, <2>13, <2>14, <2>15, <2>17, <2>18 DEF QueueInv
<1> QED BY <1>2, <1>3 DEF Pop

LEMMA AskPendingQueue ==
  ASSUME NEW c \in Cycles, ReviewInv, QueueInv, AskPending(c) PROVE QueueInv' /\ SeenKept
<1>1. pc[c] = "ask" /\ UNCHANGED <<tables, redis, flagged, cycles>>
  BY DEF AskPending
<1>2. CASE Goto(c, "contradicts", job[c]) /\ UNCHANGED <<settled, cut, trouble>>
  <2>1. Shape'
    BY <1>1, <1>2, ShapeSame DEF QueueInv, Shape
  <2> QED BY <1>1, <1>2, <2>1, PairStays DEF Hands, tables, redis, history
<1>3. CASE Turn(c, job[c], TRUE) /\ Compatible(c)
  BY <1>1, <1>3, CompatibleQueue
<1> QED BY <1>2, <1>3 DEF AskPending

\* The pair of a failed resolution goes back into the queue.
LEMMA RequeueQueue ==
  ASSUME NEW c \in Cycles, ReviewInv, QueueInv, pc[c] \in Resolving,
         job[c].via = "pending", Requeue(c), Goto(c, "idle", NoJob),
         UNCHANGED <<tables, mark, history, cycles>>, trouble' \in 0..MaxTrouble
  PROVE  QueueInv' /\ SeenKept
<1>1. /\ job[c].new \in Frags /\ job[c].cand \in Frags /\ c \in Holders
      /\ Grip(pc[c], job[c], embedded, flagged) /\ pc[c] \in Hands
  BY DEF ReviewInv, Closures, Fits, Hands, Resolving, Holders, QueueInv, Gripped
<1>2. InHand(c) \in flagged /\ InHand(c) \subseteq embedded
  BY <1>1, ReviewAssumption DEF Grip, InHand
<1>3. pending \in Seq(Frags \X Frags) /\ <<job[c].new, job[c].cand>> \in Frags \X Frags
  BY <1>1 DEF QueueInv, Shape
<1>4. /\ pending' \in Seq(Frags \X Frags) /\ Len(pending') = Len(pending) + 1
      /\ \A i \in DOMAIN pending : i \in DOMAIN pending' /\ pending'[i] = pending[i]
      /\ Len(pending') \in DOMAIN pending'
      /\ pending'[Len(pending')] = <<job[c].new, job[c].cand>>
      /\ \A i \in DOMAIN pending' : i \in DOMAIN pending \/ i = Len(pending')
  BY <1>3 DEF Requeue
<1>5. UNCHANGED <<embedded, edge, retired, halved, mark, settled, flagged, cut, cycles>>
  BY DEF tables, history
<1>6. Shape'
  BY <1>4, <1>5 DEF QueueInv, Shape
<1>7. NoJob \in Jobs /\ Grip("idle", NoJob, embedded, flagged')
  BY NothingHeld DEF Steps, Hands
<1>8. /\ Closed' /\ Gripped' /\ pc'[c] = "idle" /\ job'[c] = NoJob
      /\ \A d \in Cycles \ {c} : pc'[d] = pc[d] /\ job'[d] = job[d]
  BY <1>5, <1>7, OneMoves DEF QueueInv, Steps
<1>9. Entries'
  <2> SUFFICES ASSUME NEW i \in DOMAIN pending'
               PROVE  /\ {pending'[i][1], pending'[i][2]} \in flagged
                      /\ {pending'[i][1], pending'[i][2]} \subseteq embedded
    BY <1>5 DEF Entries
  <2>1. CASE i \in DOMAIN pending
    <3>1. /\ {pending[i][1], pending[i][2]} \in flagged
          /\ {pending[i][1], pending[i][2]} \subseteq embedded
      BY <2>1 DEF QueueInv, Entries
    <3> QED BY <1>4, <2>1, <3>1
  <2>2. CASE i = Len(pending')
    <3>1. pending'[i] = <<job[c].new, job[c].cand>>
      BY <1>4, <2>2
    <3>2. {pending'[i][1], pending'[i][2]} = InHand(c)
      BY <3>1 DEF InHand
    <3> QED BY <1>2, <3>2
  <2> QED BY <1>4, <2>1, <2>2
<1>10. Room'
  <2>1. Holders' \subseteq Holders \ {c}
    BY <1>8 DEF Holders, Hands
  <2>2. Holders \subseteq Cycles /\ Holders' \subseteq Cycles
    BY DEF Holders
  <2>3. IsFiniteSet(Holders) /\ Cardinality(Holders) \in Nat /\ Cardinality(Holders') \in Nat
          /\ Cardinality(Cycles) \in Nat
    BY <2>2, HoldersCounted
  <2>4. IsFiniteSet(Holders \ {c}) /\ Cardinality(Holders \ {c}) = Cardinality(Holders) - 1
    BY <1>1, <2>3, FS_RemoveElement
  <2>5. Cardinality(Holders') <= Cardinality(Holders \ {c})
    BY <2>1, <2>4, FS_Subset
  <2>6. MaxPending \in Nat /\ Len(pending) \in Nat
    BY <1>3, ReviewAssumption
  <2> QED BY <1>4, <2>3, <2>4, <2>5, <2>6 DEF QueueInv, Room
<1>11. ASSUME NEW p \in Similar, Underway(p), p # InHand(c) PROVE Underway(p)'
  BY <1>8, <1>11, StillUnderway
<1>12. FlaggedKept'
  <2> SUFFICES ASSUME NEW p \in flagged \ (settled \union cut)
               PROVE  InQueue(p)' \/ Underway(p)'
    BY <1>5 DEF FlaggedKept, InQueue
  <2>1. CASE p = InHand(c)
    BY <1>4, <2>1 DEF InQueue, InHand
  <2>2. CASE p # InHand(c)
    <3>1. InQueue(p) \/ Underway(p)
      BY DEF QueueInv, FlaggedKept, InQueue
    <3>2. p \in Similar
      BY ReviewAssumption DEF QueueInv, Shape
    <3> QED BY <1>4, <1>11, <2>2, <3>1, <3>2 DEF InQueue
  <2> QED BY <2>1, <2>2
<1>13. SeenKept
  BY <1>2, <1>5, <1>11 DEF SeenKept, Seen
<1> QED BY <1>6, <1>8, <1>9, <1>10, <1>12, <1>13 DEF QueueInv

\* A failing statement cuts the review short, or puts the entry back.
LEMMA FailStatementQueue ==
  ASSUME NEW c \in Cycles, ReviewInv, QueueInv, FailStatement(c)
  PROVE  QueueInv' /\ SeenKept
<1>1. /\ UNCHANGED <<tables, mark, settled, flagged, cycles>>
      /\ trouble' \in 0..MaxTrouble
  BY ReviewAssumption DEF FailStatement, QueueInv, Shape
<1>2. NoJob \in Jobs /\ Grip("idle", NoJob, embedded, flagged)
  BY NothingHeld DEF Steps, Hands
<1>3. pc[c] \in Resolving => /\ pc[c] \in Hands \ {"supLink", "supRetire"}
                             /\ InHand(c) \in Similar /\ InHand(c) \in Pairs
  <2> SUFFICES ASSUME pc[c] \in Resolving
               PROVE  /\ pc[c] \in Hands \ {"supLink", "supRetire"}
                      /\ InHand(c) \in Similar /\ InHand(c) \in Pairs
    OBVIOUS
  <2>1. pc[c] \in Hands \ {"supLink", "supRetire"}
    BY DEF Resolving, Hands
  <2>2. InHand(c) \in Similar
    BY <2>1 DEF QueueInv, Gripped, Grip, InHand
  <2> QED BY <2>1, <2>2, PairOfFragments
<1>4. CASE /\ pc[c] \in {"list", "next", "pairs"} /\ Goto(c, "idle", NoJob)
           /\ UNCHANGED <<pending, cut>>
  <2>1. Shape'
    BY <1>1, <1>4, ShapeSame DEF QueueInv, Shape, redis
  <2> QED BY <1>1, <1>2, <1>4, <2>1, FreeStep DEF Steps, Hands, tables, history
<1>5. CASE /\ pc[c] \in Resolving /\ job[c].via = "nli" /\ Goto(c, "idle", NoJob)
           /\ cut' = cut \union {InHand(c)} /\ UNCHANGED pending
  <2>1. Shape'
    BY <1>1, <1>3, <1>5, ShapeSame DEF QueueInv, Shape, redis
  <2> QED BY <1>1, <1>2, <1>5, <2>1, HandStep DEF Steps, Hands, tables
<1>6. CASE /\ pc[c] \in Resolving /\ Turn(c, job[c], FALSE)
           /\ cut' = cut \union {InHand(c)} /\ UNCHANGED pending
  <2>1. Shape'
    BY <1>1, <1>3, <1>6, ShapeSame DEF QueueInv, Shape, redis
  <2> QED BY <1>1, <1>3, <1>6, <2>1, PairDone DEF tables
<1>7. CASE /\ pc[c] \in Resolving /\ job[c].via = "pending" /\ Requeue(c)
           /\ Goto(c, "idle", NoJob) /\ UNCHANGED cut
  BY <1>1, <1>7, RequeueQueue DEF history
<1>8. CASE /\ pc[c] \in {"supLink", "supRetire"} /\ UNCHANGED <<pending, cut>>
           /\ Goto(c, "pair", [job[c] EXCEPT !.new = None, !.cand = None])
  <2>1. Shape'
    BY <1>1, <1>8, ShapeSame DEF QueueInv, Shape, redis
  <2> QED BY <1>1, <1>8, <2>1, NearLetGo DEF tables, history
<1> QED BY <1>4, <1>5, <1>6, <1>7, <1>8 DEF FailStatement

\* A restart cuts short what is in hand; the queue stays.
LEMMA RestartQueue == ASSUME QueueInv, Restart PROVE QueueInv' /\ SeenKept
<1>1. /\ UNCHANGED <<embedded, edge, retired, halved, mark, pending, settled, flagged, cycles>>
      /\ trouble' \in 0..MaxTrouble
      /\ cut' = cut \union {p \in Pairs : Underway(p)}
      /\ pc' = [c \in Cycles |-> "idle"] /\ job' = [c \in Cycles |-> NoJob]
  BY ReviewAssumption DEF Restart, QueueInv, Shape, Underway, tables, redis
<1>2. Shape'
  BY <1>1 DEF QueueInv, Shape
<1>3. NoJob \in Jobs /\ Grip("idle", NoJob, embedded, flagged)
  BY NothingHeld DEF Steps, Hands
<1>4. Closed' /\ Gripped'
  BY <1>1, <1>3 DEF Closed, Gripped, Steps
<1>5. Entries'
  BY <1>1 DEF QueueInv, Entries
<1>6. Room'
  <2>1. Holders' = {}
    BY <1>1 DEF Holders, Hands
  <2>2. Cardinality(Holders') = 0 /\ Holders \subseteq Cycles
    BY <2>1, FS_EmptySet DEF Holders
  <2>3. Cardinality(Holders) \in Nat /\ Cardinality(Cycles) \in Nat
    BY <2>2, HoldersCounted
  <2>4. Len(pending) \in Nat /\ MaxPending \in Nat
    BY ReviewAssumption DEF QueueInv, Shape
  <2> QED BY <1>1, <2>2, <2>3, <2>4 DEF QueueInv, Room
<1>7. ASSUME NEW p \in Similar, Underway(p) PROVE p \in cut'
  BY <1>1, <1>7, PairOfFragments
<1>8. FlaggedKept'
  <2> SUFFICES ASSUME NEW p \in flagged \ (settled \union cut') PROVE InQueue(p)'
    BY <1>1 DEF FlaggedKept, InQueue
  <2>1. p \in Similar /\ p \notin cut
    BY <1>1, ReviewAssumption DEF QueueInv, Shape
  <2>2. InQueue(p) \/ Underway(p)
    BY <2>1 DEF QueueInv, FlaggedKept, InQueue
  <2> QED BY <1>1, <1>7, <2>1, <2>2 DEF InQueue
<1>9. SeenKept
  BY <1>1, <1>7 DEF SeenKept, Seen
<1> QED BY <1>2, <1>4, <1>5, <1>6, <1>8, <1>9 DEF QueueInv

\* At first the queue is empty and nothing flagged.
LEMMA QueueInitially == Init => QueueInv
<1> SUFFICES ASSUME Init PROVE QueueInv
  OBVIOUS
<1>1. Shape
  BY ReviewAssumption DEF Init, Shape
<1>2. NoJob \in Jobs /\ Grip("idle", NoJob, embedded, flagged)
  BY NothingHeld DEF Steps, Hands
<1>3. Closed /\ Gripped
  BY <1>2 DEF Init, Closed, Gripped, Steps
<1>4. Entries /\ FlaggedKept
  BY DEF Init, Entries, FlaggedKept
<1>5. Room
  <2>1. Holders = {}
    BY DEF Holders, Hands, Init
  <2>2. Cardinality(Holders) = 0 /\ Cardinality(Cycles) \in Nat
    BY <2>1, FS_EmptySet, HoldersCounted
  <2>3. Len(pending) = 0 /\ MaxPending \in Nat
    BY ReviewAssumption DEF Init
  <2> QED BY <2>2, <2>3 DEF Room
<1> QED BY <1>1, <1>3, <1>4, <1>5 DEF QueueInv

\* Every step keeps the queue's invariant, and no pair that was seen is lost sight of.
LEMMA QueueStep == ReviewInv /\ QueueInv /\ [Next]_vars => QueueInv' /\ SeenKept
<1> SUFFICES ASSUME ReviewInv, QueueInv, [Next]_vars PROVE QueueInv' /\ SeenKept
  OBVIOUS
<1>1. CASE \E f \in Frags : Embed(f)
  BY <1>1, EmbedQueue
<1>2. ASSUME NEW c \in Cycles, Begin(c) \/ FailStatement(c) PROVE QueueInv' /\ SeenKept
  BY <1>2, BeginQueue, FailStatementQueue
<1>3. ASSUME NEW c \in Cycles, Step(c) PROVE QueueInv' /\ SeenKept
  <2>1. CASE List(c) \/ NextFragment(c) \/ Nli(c) \/ Flag(c) \/ AskGemini(c) \/ Mark(c)
    BY <2>1, ListQueue, NextFragmentQueue, NliQueue, FlagQueue, AskGeminiQueue, MarkQueue
  <2>2. CASE LinkContradicts(c) \/ HalveLoser(c) \/ LinkWinner(c) \/ RetireLoser(c)
    BY <2>2, LinkContradictsQueue, HalveLoserQueue, LinkWinnerQueue, RetireLoserQueue
  <2>3. CASE ListPairs(c) \/ ReviewPair(c) \/ LinkNewer(c) \/ RetireOlder(c)
    BY <2>3, ListPairsQueue, ReviewPairQueue, LinkNewerQueue, RetireOlderQueue
  <2>4. CASE Pop(c) \/ AskPending(c)
    BY <2>4, PopQueue, AskPendingQueue
  <2> QED BY <1>3, <2>1, <2>2, <2>3, <2>4 DEF Step
<1>4. CASE Restart
  BY <1>4, RestartQueue
<1>5. CASE UNCHANGED vars
  <2>1. UNCHANGED <<embedded, edge, retired, halved, mark, pending, pc, job, settled,
                    flagged, cut, cycles, trouble>>
    BY <1>5 DEF vars, tables, redis, history
  <2>2. Shape' /\ Closed' /\ Gripped' /\ Entries'
    BY <2>1 DEF QueueInv, Shape, Closed, Gripped, Entries
  <2>3. Room' /\ FlaggedKept'
    BY <2>1 DEF QueueInv, Room, Holders, FlaggedKept, Underway, InHand
  <2>4. SeenKept
    BY <2>1 DEF SeenKept, Seen, Underway, InHand
  <2> QED BY <2>2, <2>3, <2>4 DEF QueueInv
<1> QED BY <1>1, <1>2, <1>3, <1>4, <1>5 DEF Next

\* Types, with the bound of the queue, and: a flagged pair stays in the queue until
\* it is judged, whatever cycle pops it, puts it back or fails.
THEOREM QueueStays == Spec => []QueueKept
<1>1. QueueInv => QueueKept
  <2> SUFFICES ASSUME QueueInv PROVE QueueKept
    OBVIOUS
  <2>1. Holders \subseteq Cycles
    BY DEF Holders
  <2>2. Cardinality(Holders) \in Nat /\ Cardinality(Cycles) \in Nat
    BY <2>1, HoldersCounted
  <2>3. Len(pending) \in Nat /\ MaxPending \in Nat
    BY ReviewAssumption DEF QueueInv, Shape
  <2>4. Len(pending) <= MaxPending + Cardinality(Cycles)
    BY <2>2, <2>3 DEF QueueInv, Room
  <2> QED BY <2>4 DEF QueueInv, QueueKept, TypeOK, Shape, Closed
<1> QED BY <1>1, ReviewInitially, ReviewStep, QueueInitially, QueueStep, PTL DEF Spec
-----------------------------------------------------------------------------
(* What the watermark has passed                                           *)

\* Embeddings come in the order of creation, no two fragments are created at one
\* tick, and the LIMITs of the review's queries leave no row out.
Orderly ==
  /\ InOrder
  /\ \A f, g \in Frags : Born[f] = Born[g] => f = g
  /\ Cardinality(Frags) <= Limit
  /\ \A f \in Frags : Cardinality({g \in Frags : {f, g} \in Similar}) <= CandLimit

\* The newer of a similar pair comes first.
Over(f, g) == {f, g} \in Similar /\ Born[g] < Born[f]

\* Nothing is embedded after what was created after it.
Arrived == \A e \in embedded, u \in Frags \ embedded : Born[e] < Born[u]

\* n is no time at which nothing embedded had been created.
Behind(n) == n = 0 \/ \E e \in embedded : n <= Born[e]

\* A link that keeps a pair from being a candidate was made by its review.
Judged ==
  \A f, g \in Frags : ({f, g} \in Similar /\ edge[f][g] = "contradicts") => Seen({f, g})

Reviewing(c) ==
  \/ pc[c] \in {"next", "nli", "gemini", "mark"}
  \/ pc[c] \in Resolving /\ job[c].via # "pending"

\* What a cycle has read up to.
Reached(c, f) ==
  \/ Born[f] <= job[c].latest
  \/ \E x \in (job[c].fresh \union {job[c].new}) \ {None} : Born[f] <= Born[x]

\* The watermark is moved when no fragment is left.
Stage(step, j) == step = "mark" => j.fresh = {}

\* Up to there every pair has been seen, or the cycle is going to look at it.
Progress(c) ==
  /\ Behind(job[c].since) /\ Behind(job[c].latest) /\ Stage(pc[c], job[c])
  /\ pc[c] = "list" =>
       \A f, g \in embedded : (Over(f, g) /\ Born[f] <= job[c].since) => Seen({f, g})
  /\ Reviewing(c) =>
       \A f, g \in embedded : (Over(f, g) /\ Reached(c, f)) =>
         \/ Seen({f, g})
         \/ f \in job[c].fresh
         \/ f = job[c].new /\ g \in job[c].cands

MarkInv ==
  /\ Arrived /\ Behind(mark) /\ Judged /\ WatermarkCovers
  /\ \A c \in Cycles : Progress(c)
-----------------------------------------------------------------------------
\* A LIMIT that is not reached keeps every row.
LEMMA NoneLeftOut ==
  ASSUME NEW S \in SUBSET Frags, NEW n \in Nat, NEW T \in SUBSET S, Cardinality(S) <= n,
         Cardinality(T) = IF Cardinality(S) < n THEN Cardinality(S) ELSE n
  PROVE  T = S
<1>1. IsFiniteSet(Frags)
  BY ReviewAssumption
<1>2. IsFiniteSet(S)
  BY <1>1, FS_Subset
<1>3. Cardinality(S) \in Nat
  BY <1>2, FS_CardinalityType
<1>4. Cardinality(T) = Cardinality(S)
  BY <1>3
<1> QED BY <1>2, <1>4, FS_Subset

\* What a cycle shows of its progress no step of another takes back.
LEMMA ProgressStays ==
  ASSUME NEW d \in Cycles, Progress(d), SeenKept, embedded' = embedded,
         pc'[d] = pc[d], job'[d] = job[d]
  PROVE  Progress(d)'
<1>1. ASSUME NEW f, NEW g, Over(f, g), Seen({f, g}) PROVE Seen({f, g})'
  BY <1>1 DEF SeenKept, Over
<1>2. Behind(job[d].since)' /\ Behind(job[d].latest)' /\ Stage(pc[d], job[d])'
  BY DEF Progress, Behind, Stage
<1>3. ASSUME pc[d] = "list", NEW f \in embedded, NEW g \in embedded, Over(f, g),
             Born[f] <= job[d].since
      PROVE  Seen({f, g})'
  BY <1>1, <1>3 DEF Progress
<1>4. ASSUME Reviewing(d), NEW f \in embedded, NEW g \in embedded, Over(f, g), Reached(d, f)
      PROVE  Seen({f, g})' \/ f \in job[d].fresh \/ (f = job[d].new /\ g \in job[d].cands)
  BY <1>1, <1>4 DEF Progress
<1>5. /\ Reviewing(d)' <=> Reviewing(d)
      /\ \A f : Reached(d, f)' <=> Reached(d, f)
      /\ \A f, g : Over(f, g)' <=> Over(f, g)
  BY DEF Reviewing, Reached, Over
<1> QED BY <1>2, <1>3, <1>4, <1>5 DEF Progress

\* A step that moves one cycle, leaves the watermark and links no unseen pair.
LEMMA MarkStays ==
  ASSUME NEW c \in Cycles, MarkInv, SeenKept, embedded' = embedded, mark' = mark,
         \A d \in Cycles \ {c} : pc'[d] = pc[d] /\ job'[d] = job[d],
         Progress(c)',
         \A f, g \in Frags : ({f, g} \in Similar /\ edge'[f][g] = "contradicts") =>
            edge[f][g] = "contradicts" \/ Seen({f, g})
  PROVE  MarkInv'
<1>1. Arrived' /\ Behind(mark)'
  BY DEF MarkInv, Arrived, Behind
<1>2. Judged'
  BY DEF MarkInv, Judged, SeenKept
<1>3. WatermarkCovers'
  <2> SUFFICES ASSUME NEW f \in embedded, NEW g \in embedded,
                      {f, g} \in Similar, Born[g] < Born[f], Born[f] <= mark
               PROVE  Seen({f, g})'
    BY DEF WatermarkCovers, Seen
  <2>1. Seen({f, g})
    BY DEF MarkInv, WatermarkCovers, Seen
  <2> QED BY <2>1 DEF SeenKept
<1>4. \A d \in Cycles : Progress(d)'
  BY ProgressStays DEF MarkInv
<1> QED BY <1>1, <1>2, <1>3, <1>4 DEF MarkInv

\* A cycle that reviews nothing after its step.
LEMMA ProgressElsewhere ==
  ASSUME NEW c \in Cycles, NEW step, NEW j, embedded' = embedded,
         pc'[c] = step, job'[c] = j, Behind(j.since), Behind(j.latest),
         step \notin {"list", "next", "nli", "gemini", "mark"},
         step \in Resolving => j.via = "pending"
  PROVE  Progress(c)'
<1>1. ~ Reviewing(c)' /\ pc'[c] # "list"
  BY DEF Reviewing
<1>2. Behind(job[c].since)' /\ Behind(job[c].latest)' /\ Stage(pc[c], job[c])'
  BY DEF Behind, Stage
<1> QED BY <1>1, <1>2 DEF Progress

\* A cycle that goes on with its review: what it drops from its candidates was seen,
\* and the time it has processed is at most that of the fragment in hand.
LEMMA ProgressGoesOn ==
  ASSUME NEW c \in Cycles, NEW step, NEW j, Reviewing(c), Progress(c), SeenKept,
         embedded' = embedded, pc'[c] = step, job'[c] = j, step \notin {"list", "mark"},
         j.fresh = job[c].fresh, j.new = job[c].new, j.since = job[c].since,
         job[c].new \in Frags \intersect embedded,
         j.latest = job[c].latest \/ j.latest = ToDate(Born[job[c].new]),
         \A g \in job[c].cands \ j.cands : Seen({j.new, g})'
  PROVE  Progress(c)'
<1>1. ToDate(Born[j.new]) \in Nat /\ ToDate(Born[j.new]) <= Born[j.new] /\ Born[j.new] \in Nat
      /\ j.new # None
  BY DateBefore, ReviewAssumption
<1>2. Behind(job[c].since)' /\ Behind(job[c].latest)' /\ Stage(pc[c], job[c])'
  <2>1. Behind(j.since) /\ Behind(j.latest)
    BY <1>1 DEF Progress, Behind
  <2> QED BY <2>1 DEF Behind, Stage
<1>3. ASSUME NEW f \in Frags, Reached(c, f)' PROVE Reached(c, f)
  <2>1. Born[f] \in Nat
    BY DateBefore
  <2>2. CASE Born[f] <= j.latest /\ j.latest = ToDate(Born[j.new])
    <3>1. Born[f] <= Born[j.new]
      BY <1>1, <2>1, <2>2
    <3> QED BY <1>1, <3>1 DEF Reached
  <2>3. CASE Born[f] <= j.latest /\ j.latest = job[c].latest
    BY <2>3 DEF Reached
  <2>4. CASE \E x \in (j.fresh \union {j.new}) \ {None} : Born[f] <= Born[x]
    BY <2>4 DEF Reached
  <2> QED BY <1>3, <2>2, <2>3, <2>4 DEF Reached
<1>4. ASSUME NEW f \in embedded, NEW g \in embedded, Over(f, g), f \in Frags, Reached(c, f)'
      PROVE  Seen({f, g})' \/ f \in j.fresh \/ (f = j.new /\ g \in j.cands)
  <2>1. Seen({f, g}) \/ f \in job[c].fresh \/ (f = job[c].new /\ g \in job[c].cands)
    BY <1>3, <1>4 DEF Progress
  <2>2. CASE Seen({f, g})
    BY <1>4, <2>2 DEF SeenKept, Over
  <2>3. CASE f = job[c].new /\ g \in job[c].cands /\ g \notin j.cands
    BY <2>3
  <2> QED BY <2>1, <2>2, <2>3
<1>5. \A f, g : Over(f, g) => f \in Frags
  BY PairOfFragments DEF Over
<1> QED BY <1>2, <1>4, <1>5 DEF Progress, Over

\* The end of a turn.
LEMMA ProgressTurns ==
  ASSUME NEW c \in Cycles, NEW j \in Jobs, NEW processed \in BOOLEAN, QueueInv, Reviewing(c),
         Progress(c), SeenKept, embedded' = embedded, Turn(c, j, processed),
         j.via # "pending", j.fresh = job[c].fresh, j.new = job[c].new,
         j.since = job[c].since, j.latest = job[c].latest,
         job[c].new \in Frags \intersect embedded,
         \A g \in job[c].cands \ j.cands : Seen({j.new, g})'
  PROVE  /\ Progress(c)'
         /\ \A d \in Cycles \ {c} : pc'[d] = pc[d] /\ job'[d] = job[d]
<1>1. PICK step \in {"next", "nli"} :
        Goto(c, step, Rest(j, processed))
  BY DEF Turn
<1>2. PICK k \in Jobs : k = Rest(j, processed)
  BY DateBefore DEF Rest, Jobs
<1>3. /\ k.fresh = j.fresh /\ k.new = j.new /\ k.since = j.since /\ k.cands = j.cands
      /\ k.latest = j.latest \/ k.latest = ToDate(Born[j.new])
  BY <1>2 DEF Rest, Jobs
<1>4. /\ pc'[c] = step /\ job'[c] = k
      /\ \A d \in Cycles \ {c} : pc'[d] = pc[d] /\ job'[d] = job[d]
  BY <1>1, <1>2 DEF Goto, QueueInv, Closed
<1>5. \A g \in job[c].cands \ k.cands : Seen({k.new, g})'
  BY <1>3
<1>6. /\ k.fresh = job[c].fresh /\ k.new = job[c].new /\ k.since = job[c].since
      /\ k.latest = job[c].latest \/ k.latest = ToDate(Born[job[c].new])
  BY <1>3
<1>7. step \notin {"list", "mark"}
  OBVIOUS
<1>8. Progress(c)'
  BY <1>4, <1>5, <1>6, <1>7, ProgressGoesOn
<1> QED BY <1>4, <1>8
-----------------------------------------------------------------------------
(* The watermark, step by step                                             *)

\* A step after which the cycle reviews nothing.
LEMMA MarkElsewhere ==
  ASSUME NEW c \in Cycles, NEW step, NEW j, QueueInv, MarkInv, SeenKept,
         Goto(c, step, j), embedded' = embedded, mark' = mark,
         step \notin {"list", "next", "nli", "gemini", "mark"},
         step \in Resolving => j.via = "pending",
         \/ j.since = 0 /\ j.latest = 0
         \/ j.since = job[c].since /\ j.latest = job[c].latest,
         \A f, g \in Frags : ({f, g} \in Similar /\ edge'[f][g] = "contradicts") =>
            edge[f][g] = "contradicts" \/ Seen({f, g})
  PROVE  MarkInv'
<1>1. /\ pc'[c] = step /\ job'[c] = j
      /\ \A d \in Cycles \ {c} : pc'[d] = pc[d] /\ job'[d] = job[d]
  BY DEF Goto, QueueInv, Closed
<1>2. Behind(j.since) /\ Behind(j.latest)
  BY DEF MarkInv, Progress, Behind
<1>3. Progress(c)'
  BY <1>1, <1>2, ProgressElsewhere
<1> QED BY <1>1, <1>3, MarkStays

\* What is embedded last was created after every time that counts.
LEMMA NewestLast ==
  ASSUME NEW f \in Frags \ embedded, NEW n \in Nat, embedded \subseteq Frags,
         Arrived, Behind(n)
  PROVE  ~ (Born[f] <= n)
<1>1. Born[f] \in Nat /\ Born[f] > 0
  BY DateBefore
<1>2. CASE n = 0
  BY <1>1, <1>2
<1>3. ASSUME NEW e \in embedded, n <= Born[e] PROVE ~ (Born[f] <= n)
  <2>1. Born[e] < Born[f] /\ Born[e] \in Nat
    BY DateBefore DEF Arrived
  <2> QED BY <1>1, <1>3, <2>1
<1> QED BY <1>2, <1>3 DEF Behind

LEMMA EmbedMark ==
  ASSUME Orderly, NEW x \in Frags, QueueInv, MarkInv, SeenKept, Embed(x)
  PROVE  MarkInv'
<1>1. /\ x \notin embedded /\ embedded' = embedded \union {x} /\ embedded \subseteq Frags
      /\ \A g \in Frags \ embedded : Born[x] <= Born[g]
      /\ UNCHANGED <<edge, mark, pc, job>>
  BY DEF Embed, Orderly, QueueInv, Shape, redis
<1>2. Arrived'
  <2> SUFFICES ASSUME NEW e \in embedded', NEW u \in Frags \ embedded'
               PROVE  Born[e] < Born[u]
    BY DEF Arrived
  <2>1. CASE e \in embedded
    BY <1>1, <2>1 DEF MarkInv, Arrived
  <2>2. CASE e = x
    <3>1. Born[x] <= Born[u] /\ Born[x] # Born[u]
      BY <1>1, <2>2 DEF Orderly
    <3>2. Born[x] \in Nat /\ Born[u] \in Nat
      BY DateBefore
    <3> QED BY <2>2, <3>1, <3>2
  <2> QED BY <1>1, <2>1, <2>2
<1>3. ASSUME NEW n, Behind(n) PROVE Behind(n)'
  BY <1>1, <1>3 DEF Behind
<1>4. Judged'
  BY <1>1 DEF MarkInv, Judged, SeenKept
<1>5. ASSUME NEW g \in embedded PROVE ~ (Born[x] < Born[g]) /\ ~ (Born[x] <= Born[g])
  <2>1. Born[g] < Born[x] /\ Born[g] \in Nat /\ Born[x] \in Nat
    BY <1>1, DateBefore DEF MarkInv, Arrived
  <2> QED BY <2>1
<1>6. ~ (Born[x] < Born[x])
  <2>1. Born[x] \in Nat
    BY DateBefore
  <2> QED BY <2>1
<1>7. WatermarkCovers'
  <2> SUFFICES ASSUME NEW f \in embedded', NEW g \in embedded',
                      {f, g} \in Similar, Born[g] < Born[f], Born[f] <= mark
               PROVE  Seen({f, g})'
    BY <1>1 DEF WatermarkCovers, Seen
  <2>1. mark \in Nat /\ Behind(mark)
    BY DEF QueueInv, Shape, MarkInv
  <2>2. f \in embedded
    BY <1>1, <2>1, NewestLast DEF MarkInv
  <2>3. g \in embedded
    BY <1>1, <1>5, <2>2
  <2>4. Seen({f, g})
    BY <2>2, <2>3 DEF MarkInv, WatermarkCovers, Seen
  <2> QED BY <2>4 DEF SeenKept
<1>8. ASSUME NEW c \in Cycles PROVE Progress(c)'
  <2>1. /\ job[c] \in Jobs /\ Grip(pc[c], job[c], embedded, flagged) /\ Progress(c)
        /\ job' = job /\ pc' = pc
    BY <1>1 DEF QueueInv, Closed, Gripped, MarkInv
  <2>2. job[c].since \in Nat /\ job[c].latest \in Nat
    BY <2>1 DEF Jobs
  <2>3. Behind(job[c].since)' /\ Behind(job[c].latest)' /\ Stage(pc[c], job[c])'
    <3>1. Behind(job[c].since) /\ Behind(job[c].latest) /\ Stage(pc[c], job[c])
      BY <2>1 DEF Progress
    <3> QED BY <1>1, <2>1, <3>1 DEF Behind, Stage
  <2>4. ~ (Born[x] <= job[c].since) /\ ~ Reached(c, x)
    <3>1. Behind(job[c].since) /\ Behind(job[c].latest)
      BY <2>1 DEF Progress
    <3>2. ~ (Born[x] <= job[c].since) /\ ~ (Born[x] <= job[c].latest)
      BY <1>1, <2>2, <3>1, NewestLast DEF MarkInv
    <3>3. (job[c].fresh \union {job[c].new}) \ {None} \subseteq embedded
      BY <2>1 DEF Grip
    <3> QED BY <1>5, <3>2, <3>3 DEF Reached
  <2>5. ASSUME pc[c] = "list", NEW f \in embedded', NEW g \in embedded', Over(f, g),
               Born[f] <= job[c].since
        PROVE  Seen({f, g})'
    <3>1. f \in embedded /\ g \in embedded
      BY <1>1, <1>5, <1>6, <2>4, <2>5 DEF Over
    <3> QED BY <2>1, <2>5, <3>1 DEF Progress, SeenKept, Over
  <2>6. ASSUME Reviewing(c), NEW f \in embedded', NEW g \in embedded', Over(f, g),
               Reached(c, f)
        PROVE  Seen({f, g})' \/ f \in job[c].fresh \/ (f = job[c].new /\ g \in job[c].cands)
    <3>1. f \in embedded /\ g \in embedded
      BY <1>1, <1>5, <1>6, <2>4, <2>6 DEF Over
    <3> QED BY <2>1, <2>6, <3>1 DEF Progress, SeenKept, Over
  <2>7. /\ Reviewing(c)' <=> Reviewing(c)
        /\ \A f : Reached(c, f)' <=> Reached(c, f)
        /\ \A f, g : Over(f, g)' <=> Over(f, g)
    BY <2>1 DEF Reviewing, Reached, Over
  <2> QED BY <2>1, <2>3, <2>5, <2>6, <2>7 DEF Progress
<1> QED BY <1>1, <1>2, <1>3, <1>4, <1>7, <1>8 DEF MarkInv

\* Up to the watermark a cycle reads there is nothing to do.
LEMMA BeginMark ==
  ASSUME NEW c \in Cycles, QueueInv, MarkInv, SeenKept, Begin(c) PROVE MarkInv'
<1>1. PICK j \in Jobs : j = [NoJob EXCEPT !.since = mark]
  BY NothingHeld DEF Jobs, QueueInv, Shape
<1>2. j.since = mark /\ j.latest = 0
  BY <1>1 DEF NoJob
<1>3. /\ pc'[c] = "list" /\ job'[c] = j /\ embedded' = embedded /\ mark' = mark /\ edge' = edge
      /\ \A d \in Cycles \ {c} : pc'[d] = pc[d] /\ job'[d] = job[d]
  BY <1>1 DEF Begin, Goto, QueueInv, Closed, tables, redis
<1>4. Progress(c)'
  <2>1. ~ Reviewing(c)'
    BY <1>3 DEF Reviewing, Resolving
  <2>2. Behind(job[c].since)' /\ Behind(job[c].latest)' /\ Stage(pc[c], job[c])'
    <3>1. Behind(mark)
      BY DEF MarkInv
    <3> QED BY <1>2, <1>3, <3>1 DEF Behind, Stage
  <2>3. ASSUME NEW f \in embedded, NEW g \in embedded, Over(f, g), Born[f] <= mark
        PROVE  Seen({f, g})'
    <3>1. Seen({f, g})
      BY <2>3 DEF MarkInv, WatermarkCovers, Seen, Over
    <3> QED BY <2>3, <3>1 DEF SeenKept, Over
  <2> QED BY <1>2, <1>3, <2>1, <2>2, <2>3 DEF Progress, Over
<1> QED BY <1>3, <1>4, MarkStays
-----------------------------------------------------------------------------
\* The list holds every fragment above the watermark the cycle has read.
LEMMA ListMark ==
  ASSUME Orderly, NEW c \in Cycles, QueueInv, MarkInv, SeenKept, List(c)
  PROVE  MarkInv'
<1> DEFINE above == {f \in embedded : Born[f] > job[c].since}
<1>1. PICK gem \in Gemini, fresh \in Top(above, Limit, LAMBDA f : Born[f]) :
        Goto(c, "next", [job[c] EXCEPT !.fresh = fresh, !.gem = gem])
  BY DEF List
<1>2. /\ pc[c] = "list" /\ embedded' = embedded /\ mark' = mark /\ edge' = edge
      /\ embedded \subseteq Frags /\ job[c] \in Jobs
  BY DEF List, tables, redis, QueueInv, Shape, Closed
<1>3. fresh = above
  <2>1. /\ fresh \in SUBSET above /\ above \in SUBSET Frags
        /\ Cardinality(fresh) = IF Cardinality(above) < Limit THEN Cardinality(above)
                                                              ELSE Limit
    BY <1>2 DEF Top
  <2>2. IsFiniteSet(Frags) /\ Limit \in Nat
    BY ReviewAssumption
  <2>3. IsFiniteSet(above) /\ Cardinality(above) <= Cardinality(Frags)
    BY <2>1, <2>2, FS_Subset
  <2>4. Cardinality(above) \in Nat /\ Cardinality(Frags) \in Nat
    BY <2>2, <2>3, FS_CardinalityType
  <2>5. Cardinality(above) <= Limit
    BY <2>2, <2>3, <2>4 DEF Orderly
  <2> QED BY <2>1, <2>2, <2>5, NoneLeftOut
<1>4. gem \in BOOLEAN
  BY ReviewAssumption
<1>5. PICK j \in Jobs : j = [job[c] EXCEPT !.fresh = fresh, !.gem = gem]
  BY <1>2, <1>3, <1>4 DEF Jobs
<1>6. j.fresh = above /\ j.since = job[c].since /\ j.latest = job[c].latest
  BY <1>2, <1>3, <1>5 DEF Jobs
<1>7. /\ pc'[c] = "next" /\ job'[c] = j
      /\ \A d \in Cycles \ {c} : pc'[d] = pc[d] /\ job'[d] = job[d]
  BY <1>1, <1>5 DEF Goto, QueueInv, Closed
<1>8. Progress(c)'
  <2>1. Behind(job[c].since)' /\ Behind(job[c].latest)' /\ Stage(pc[c], job[c])'
    <3>1. Behind(job[c].since) /\ Behind(job[c].latest)
      BY DEF MarkInv, Progress
    <3> QED BY <1>2, <1>6, <1>7, <3>1 DEF Behind, Stage
  <2>2. ASSUME NEW f \in embedded, NEW g \in embedded, Over(f, g), f \notin above
        PROVE  Seen({f, g})'
    <3>1. Born[f] \in Nat /\ job[c].since \in Nat
      BY <1>2, DateBefore DEF Jobs
    <3>2. Born[f] <= job[c].since
      BY <2>2, <3>1
    <3>3. Seen({f, g})
      BY <1>2, <2>2, <3>2 DEF MarkInv, Progress
    <3> QED BY <2>2, <3>3 DEF SeenKept, Over
  <2> QED BY <1>2, <1>6, <1>7, <2>1, <2>2 DEF Progress, Over
<1> QED BY <1>2, <1>7, <1>8, MarkStays

\* The candidates of a fragment are all those whose pair with it nobody has judged.
LEMMA NextFragmentMark ==
  ASSUME Orderly, NEW c \in Cycles, QueueInv, MarkInv, SeenKept, NextFragment(c)
  PROVE  MarkInv'
<1>1. /\ pc[c] = "next" /\ embedded' = embedded /\ mark' = mark /\ edge' = edge
      /\ embedded \subseteq Frags /\ job[c] \in Jobs /\ job[c].cands = {}
      /\ job[c].fresh \subseteq embedded /\ Reviewing(c) /\ Progress(c)
  BY DEF NextFragment, tables, redis, QueueInv, Shape, Closed, Gripped, Grip, Reviewing,
         MarkInv
<1>2. CASE job[c].fresh = {}
  <2>1. /\ pc'[c] = "mark" /\ job'[c] = job[c]
        /\ \A d \in Cycles \ {c} : pc'[d] = pc[d] /\ job'[d] = job[d]
    BY <1>2 DEF NextFragment, Goto, QueueInv, Closed
  <2>2. Progress(c)'
    <3>1. Behind(job[c].since)' /\ Behind(job[c].latest)' /\ Stage(pc[c], job[c])'
      <4>1. Behind(job[c].since) /\ Behind(job[c].latest)
        BY <1>1 DEF Progress
      <4> QED BY <1>1, <1>2, <2>1, <4>1 DEF Behind, Stage
    <3>2. ASSUME NEW f \in embedded, NEW g \in embedded, Over(f, g), Reached(c, f)
          PROVE  Seen({f, g})'
      <4>1. Seen({f, g})
        BY <1>1, <1>2, <3>2 DEF Progress
      <4> QED BY <3>2, <4>1 DEF SeenKept, Over
    <3>3. \A f : Reached(c, f)' <=> Reached(c, f)
      BY <2>1 DEF Reached
    <3> QED BY <1>1, <2>1, <3>1, <3>2, <3>3 DEF Progress, Over
  <2> QED BY <1>1, <2>1, <2>2, MarkStays
<1>3. CASE job[c].fresh # {}
  <2>1. PICK f \in job[c].fresh : \E cands \in Top(Candidates(f), CandLimit, Unordered) :
          Goto(c, IF cands = {} THEN "next" ELSE "nli",
               [job[c] EXCEPT !.fresh = @ \ {f}, !.new = f, !.cands = cands])
    BY <1>3 DEF NextFragment
  <2>2. PICK cands \in Top(Candidates(f), CandLimit, Unordered) :
          Goto(c, IF cands = {} THEN "next" ELSE "nli",
               [job[c] EXCEPT !.fresh = @ \ {f}, !.new = f, !.cands = cands])
    BY <2>1
  <2>3. f \in embedded /\ f \in Frags /\ f # None
    BY <1>1, ReviewAssumption
  <2>4. cands = Candidates(f)
    <3> DEFINE near == {g \in Frags : {f, g} \in Similar}
    <3>1. /\ cands \in SUBSET Candidates(f)
          /\ Cardinality(cands) = IF Cardinality(Candidates(f)) < CandLimit
                                  THEN Cardinality(Candidates(f)) ELSE CandLimit
      BY DEF Top
    <3>2. IsFiniteSet(Frags) /\ CandLimit \in Nat
      BY ReviewAssumption
    <3>3. near \subseteq Frags /\ Candidates(f) \subseteq near
      BY <1>1 DEF Candidates
    <3>4. IsFiniteSet(near)
      BY <3>2, <3>3, FS_Subset
    <3>5. IsFiniteSet(Candidates(f)) /\ Cardinality(Candidates(f)) <= Cardinality(near)
      BY <3>3, <3>4, FS_Subset
    <3>6. Cardinality(Candidates(f)) \in Nat /\ Cardinality(near) \in Nat
      BY <3>4, <3>5, FS_CardinalityType
    <3>7. Cardinality(near) <= CandLimit
      BY <2>3 DEF Orderly
    <3>8. Candidates(f) \in SUBSET Frags
      BY <3>3
    <3> HIDE DEF near
    <3>9. Cardinality(Candidates(f)) <= CandLimit
      BY <3>2, <3>5, <3>6, <3>7
    <3> QED BY <3>1, <3>2, <3>8, <3>9, NoneLeftOut
  <2>5. cands \subseteq Frags
    BY <1>1, <2>4 DEF Candidates
  <2>6. PICK j \in Jobs : j = [job[c] EXCEPT !.fresh = @ \ {f}, !.new = f, !.cands = cands]
    BY <1>1, <2>3, <2>5 DEF Jobs
  <2>7. /\ j.fresh = job[c].fresh \ {f} /\ j.cands = cands /\ j.new = f
        /\ j.since = job[c].since /\ j.latest = job[c].latest
    BY <1>1, <2>6 DEF Jobs
  <2>8. PICK step \in {"next", "nli"} : step = IF cands = {} THEN "next" ELSE "nli"
    OBVIOUS
  <2>9. /\ pc'[c] = step /\ job'[c] = j
        /\ \A d \in Cycles \ {c} : pc'[d] = pc[d] /\ job'[d] = job[d]
    BY <2>2, <2>6, <2>8 DEF Goto, QueueInv, Closed
  <2>10. Progress(c)'
    <3>1. Behind(job[c].since)' /\ Behind(job[c].latest)' /\ Stage(pc[c], job[c])'
      <4>1. Behind(job[c].since) /\ Behind(job[c].latest)
        BY <1>1 DEF Progress
      <4> QED BY <1>1, <2>7, <2>9, <4>1 DEF Behind, Stage
    <3>2. ASSUME NEW x \in embedded, NEW y \in embedded, Over(x, y), Reached(c, x)'
          PROVE  Seen({x, y})' \/ x \in j.fresh \/ (x = j.new /\ y \in j.cands)
      <4>1. Reached(c, x)
        BY <2>3, <2>7, <2>9, <3>2 DEF Reached
      <4>2. Seen({x, y}) \/ x \in job[c].fresh
        BY <1>1, <3>2, <4>1 DEF Progress
      <4>3. CASE Seen({x, y})
        BY <3>2, <4>3 DEF SeenKept, Over
      <4>4. CASE x \in job[c].fresh /\ x # f
        BY <2>7, <4>4
      <4>5. CASE x = f /\ y \notin cands
        <5>1. {f, y} \in Similar /\ y \in Frags
          BY <1>1, <3>2, <4>5 DEF Over
        <5>2. edge[f][y] = "contradicts" \/ edge[y][f] = "contradicts"
          BY <2>4, <4>5, <5>1 DEF Candidates
        <5>3. {y, f} = {f, y}
          OBVIOUS
        <5>4. Seen({f, y})
          BY <2>3, <5>1, <5>2, <5>3 DEF MarkInv, Judged
        <5> QED BY <4>5, <5>1, <5>4 DEF SeenKept
      <4> QED BY <2>7, <4>2, <4>3, <4>4, <4>5
    <3> QED BY <1>1, <2>8, <2>9, <3>1, <3>2 DEF Progress, Over
  <2> QED BY <1>1, <2>9, <2>10, MarkStays
<1> QED BY <1>2, <1>3

\* The closure of a cycle goes on with its resolution.
LEMMA StillInHandMark ==
  ASSUME NEW c \in Cycles, NEW step \in Resolving, NEW j, ReviewInv, QueueInv, MarkInv,
         SeenKept, pc[c] \in {"gemini", "ask"} \union Resolving, Goto(c, step, j),
         embedded' = embedded, mark' = mark, j.fresh = job[c].fresh, j.new = job[c].new,
         j.cands = job[c].cands, j.since = job[c].since, j.latest = job[c].latest,
         j.via = "pending" <=> job[c].via = "pending",
         \A f, g \in Frags : ({f, g} \in Similar /\ edge'[f][g] = "contradicts") =>
            edge[f][g] = "contradicts" \/ Seen({f, g})
  PROVE  MarkInv'
<1>1. /\ pc'[c] = step /\ job'[c] = j
      /\ \A d \in Cycles \ {c} : pc'[d] = pc[d] /\ job'[d] = job[d]
  BY DEF Goto, QueueInv, Closed
<1>2. CASE job[c].via = "pending"
  <2>1. step \notin {"list", "next", "nli", "gemini", "mark"}
    BY DEF Resolving
  <2> QED BY <1>2, <2>1, MarkElsewhere
<1>3. CASE job[c].via # "pending"
  <2>1. Reviewing(c) /\ Progress(c) /\ step \notin {"list", "mark"}
    BY <1>3 DEF Reviewing, Resolving, MarkInv, QueueInv, Gripped, Grip
  <2>2. job[c].new \in Frags \intersect embedded
    <3>1. job[c].new \in Frags
      BY DEF ReviewInv, Closures, Fits, Hands, Resolving
    <3>2. job[c].new \in embedded \union {None}
      BY DEF QueueInv, Gripped, Grip
    <3> QED BY <3>1, <3>2, ReviewAssumption
  <2>3. Progress(c)'
    BY <1>1, <2>1, <2>2, ProgressGoesOn
  <2> QED BY <1>1, <2>3, MarkStays
<1> QED BY <1>2, <1>3

\* The end of a turn, with the pair in hand.
LEMMA TurnMark ==
  ASSUME NEW c \in Cycles, NEW processed \in BOOLEAN, ReviewInv, QueueInv, MarkInv,
         SeenKept, pc[c] \in {"gemini", "ask"} \union Resolving,
         Turn(c, job[c], processed), embedded' = embedded, mark' = mark, edge' = edge
  PROVE  MarkInv'
<1>1. job[c] \in Jobs
  BY DEF QueueInv, Closed
<1>2. CASE job[c].via = "pending"
  <2>1. PICK j \in Jobs : j = [job[c] EXCEPT !.new = None, !.cand = None]
    BY <1>1 DEF Jobs
  <2>2. j.since = job[c].since /\ j.latest = job[c].latest
    BY <1>1, <2>1 DEF Jobs
  <2>3. Goto(c, "pop", j)
    BY <1>2, <2>1 DEF Turn
  <2>4. "pop" \notin {"list", "next", "nli", "gemini", "mark"} /\ "pop" \notin Resolving
    BY DEF Resolving
  <2> QED BY <2>2, <2>3, <2>4, MarkElsewhere
<1>3. CASE job[c].via # "pending"
  <2>1. Reviewing(c) /\ Progress(c)
    BY <1>3 DEF Reviewing, Resolving, MarkInv, QueueInv, Gripped, Grip
  <2>2. job[c].new \in Frags \intersect embedded
    <3>1. job[c].new \in Frags
      BY DEF ReviewInv, Closures, Fits, Hands, Resolving
    <3>2. job[c].new \in embedded \union {None}
      BY DEF QueueInv, Gripped, Grip
    <3> QED BY <3>1, <3>2, ReviewAssumption
  <2>3. Progress(c)' /\ \A d \in Cycles \ {c} : pc'[d] = pc[d] /\ job'[d] = job[d]
    BY <1>1, <1>3, <2>1, <2>2, ProgressTurns
  <2> QED BY <2>3, MarkStays
<1> QED BY <1>2, <1>3

\* The candidate taken is in hand, or settled.
LEMMA NliMark ==
  ASSUME NEW c \in Cycles, ReviewInv, QueueInv, MarkInv, SeenKept, Nli(c) PROVE MarkInv'
<1>1. /\ job[c] \in Jobs /\ job[c].via = "nli" /\ pc[c] = "nli" /\ Reviewing(c)
      /\ Progress(c) /\ embedded' = embedded /\ mark' = mark /\ edge' = edge
  BY DEF QueueInv, Closed, Nli, ReviewInv, Closures, Fits, Reviewing, MarkInv, tables, redis
<1>2. PICK g \in job[c].cands :
      LET j == [job[c] EXCEPT !.cand = g, !.cands = @ \ {g}]
      IN \/ Goto(c, "contradicts", [j EXCEPT !.via = "nli"]) /\ UNCHANGED settled
         \/ Turn(c, j, TRUE) /\ settled' = settled \union {{j.new, g}}
         \/ Goto(c, "gemini", j) /\ UNCHANGED settled
  BY DEF Nli
<1>3. g \in Frags /\ job[c].new \in Frags \intersect embedded
  <2>1. job[c].new \in Frags /\ job[c].cands \subseteq Frags
    BY <1>1 DEF ReviewInv, Closures, Fits, Jobs
  <2>2. job[c].new \in embedded \union {None}
    BY DEF QueueInv, Gripped, Grip
  <2> QED BY <2>1, <2>2, ReviewAssumption
<1>4. PICK j \in Jobs : j = [job[c] EXCEPT !.cand = g, !.cands = @ \ {g}]
  BY <1>1, <1>3 DEF Jobs
<1>5. /\ j.fresh = job[c].fresh /\ j.cands = job[c].cands \ {g} /\ j.new = job[c].new
      /\ j.cand = g /\ j.via = "nli" /\ j.since = job[c].since /\ j.latest = job[c].latest
  BY <1>1, <1>4 DEF Jobs
<1>6. ASSUME NEW step \in {"contradicts", "gemini"}, Goto(c, step, j) PROVE MarkInv'
  <2>1. /\ pc'[c] = step /\ job'[c] = j
        /\ \A d \in Cycles \ {c} : pc'[d] = pc[d] /\ job'[d] = job[d]
    BY <1>6 DEF Goto, QueueInv, Closed
  <2>2. Seen({j.new, g})'
    <3>1. InHand(c)' = {j.new, g}
      BY <1>5, <2>1 DEF InHand
    <3> QED BY <3>1 DEF Seen, Underway
  <2>3. \A x \in job[c].cands \ j.cands : Seen({j.new, x})'
    BY <1>5, <2>2
  <2>4. Progress(c)'
    BY <1>1, <1>3, <1>5, <1>6, <2>1, <2>3, ProgressGoesOn
  <2> QED BY <1>1, <2>1, <2>4, MarkStays
<1>7. CASE Turn(c, j, TRUE) /\ settled' = settled \union {{job[c].new, g}}
  <2>1. \A x \in job[c].cands \ j.cands : Seen({j.new, x})'
    BY <1>5, <1>7 DEF Seen
  <2>2. Progress(c)' /\ \A d \in Cycles \ {c} : pc'[d] = pc[d] /\ job'[d] = job[d]
    BY <1>1, <1>3, <1>5, <1>7, <2>1, ProgressTurns
  <2> QED BY <1>1, <2>2, MarkStays
<1>8. [j EXCEPT !.via = "nli"] = j
  BY <1>5 DEF Jobs
<1> QED BY <1>2, <1>4, <1>5, <1>6, <1>7, <1>8

LEMMA FlagMark ==
  ASSUME NEW c \in Cycles, ReviewInv, QueueInv, MarkInv, SeenKept, Flag(c) PROVE MarkInv'
<1>1. /\ pc[c] \in {"gemini", "ask"} \union Resolving /\ Turn(c, job[c], FALSE)
      /\ embedded' = embedded /\ mark' = mark /\ edge' = edge
  BY DEF Flag, tables
<1> QED BY <1>1, TurnMark

LEMMA AskGeminiMark ==
  ASSUME NEW c \in Cycles, ReviewInv, QueueInv, MarkInv, SeenKept, AskGemini(c)
  PROVE  MarkInv'
<1>1. /\ pc[c] = "gemini" /\ embedded' = embedded /\ mark' = mark /\ edge' = edge
      /\ job[c] \in Jobs
  BY DEF AskGemini, tables, redis, QueueInv, Closed
<1>2. CASE Turn(c, job[c], TRUE)
  BY <1>1, <1>2, TurnMark
<1>3. CASE Goto(c, "contradicts", [job[c] EXCEPT !.via = "gemini"])
  <2>1. PICK j \in Jobs : j = [job[c] EXCEPT !.via = "gemini"]
    BY <1>1 DEF Jobs
  <2>2. /\ j.fresh = job[c].fresh /\ j.cands = job[c].cands /\ j.new = job[c].new
        /\ j.since = job[c].since /\ j.latest = job[c].latest /\ j.via = "gemini"
    BY <1>1, <2>1 DEF Jobs
  <2>3. job[c].via # "pending" /\ "contradicts" \in Resolving
    BY <1>1 DEF ReviewInv, Closures, Fits, Resolving
  <2> QED BY <1>1, <1>3, <2>1, <2>2, <2>3, StillInHandMark
<1> QED BY <1>2, <1>3 DEF AskGemini

\* The watermark moves to what the cycle has processed.
LEMMA MarkMark ==
  ASSUME NEW c \in Cycles, QueueInv, MarkInv, SeenKept, Mark(c) PROVE MarkInv'
<1>1. /\ pc[c] = "mark" /\ embedded' = embedded /\ edge' = edge /\ Progress(c)
      /\ mark' = IF job[c].latest > 0 THEN job[c].latest ELSE mark
      /\ Goto(c, "pairs", NoJob) /\ job[c].cands = {} /\ job[c].fresh = {} /\ Reviewing(c)
  BY DEF Mark, tables, MarkInv, Progress, Stage, QueueInv, Gripped, Grip, Reviewing
<1>2. /\ pc'[c] = "pairs" /\ job'[c] = NoJob
      /\ \A d \in Cycles \ {c} : pc'[d] = pc[d] /\ job'[d] = job[d]
  BY <1>1 DEF Goto, QueueInv, Closed
<1>3. Arrived' /\ Behind(mark)'
  BY <1>1 DEF MarkInv, Progress, Arrived, Behind
<1>4. Judged'
  BY <1>1 DEF MarkInv, Judged, SeenKept
<1>5. WatermarkCovers'
  <2> SUFFICES ASSUME NEW f \in embedded, NEW g \in embedded,
                      {f, g} \in Similar, Born[g] < Born[f], Born[f] <= mark'
               PROVE  Seen({f, g})'
    BY <1>1 DEF WatermarkCovers, Seen
  <2>1. CASE mark' = mark
    <3>1. Seen({f, g})
      BY <2>1 DEF MarkInv, WatermarkCovers, Seen
    <3> QED BY <3>1 DEF SeenKept
  <2>2. CASE mark' = job[c].latest
    <3>1. Reached(c, f) /\ Over(f, g)
      BY <2>2 DEF Reached, Over
    <3>2. Seen({f, g})
      BY <1>1, <3>1 DEF Progress
    <3> QED BY <3>2 DEF SeenKept
  <2> QED BY <1>1, <2>1, <2>2
<1>6. Progress(c)'
  <2>1. NoJob.since = 0 /\ NoJob.latest = 0
    BY DEF NoJob
  <2>2. Behind(NoJob.since) /\ Behind(NoJob.latest)
    BY <2>1 DEF Behind
  <2>3. "pairs" \notin {"list", "next", "nli", "gemini", "mark"} /\ "pairs" \notin Resolving
    BY DEF Resolving
  <2> QED BY <1>1, <1>2, <2>2, <2>3, ProgressElsewhere
<1>7. \A d \in Cycles : Progress(d)'
  BY <1>1, <1>2, <1>6, ProgressStays DEF MarkInv
<1> QED BY <1>3, <1>4, <1>5, <1>7 DEF MarkInv

\* The link a review makes is between the pair it has in hand.
LEMMA LinkContradictsMark ==
  ASSUME NEW c \in Cycles, ReviewInv, QueueInv, MarkInv, SeenKept, LinkContradicts(c)
  PROVE  MarkInv'
<1>1. /\ pc[c] = "contradicts" /\ Goto(c, "halve", job[c]) /\ "halve" \in Resolving
      /\ pc[c] \in Resolving /\ Link(job[c].new, job[c].cand, "contradicts")
      /\ embedded' = embedded /\ mark' = mark
  BY DEF LinkContradicts, Resolving, redis
<1>2. ASSUME NEW f \in Frags, NEW g \in Frags, edge'[f][g] = "contradicts",
             edge[f][g] # "contradicts"
      PROVE  Seen({f, g})
  <2>1. f = job[c].new /\ g = job[c].cand
    BY <1>1, <1>2 DEF Link, QueueInv, Shape
  <2> QED BY <2>1 DEF Seen, Underway, InHand
<1> QED BY <1>1, <1>2, StillInHandMark

LEMMA HalveLoserMark ==
  ASSUME NEW c \in Cycles, ReviewInv, QueueInv, MarkInv, SeenKept, HalveLoser(c)
  PROVE  MarkInv'
<1>1. /\ pc[c] \in Resolving /\ Goto(c, "link", job[c]) /\ "link" \in Resolving
      /\ embedded' = embedded /\ mark' = mark /\ edge' = edge
  BY DEF HalveLoser, Resolving, redis
<1> QED BY <1>1, StillInHandMark

\* What a superseding link sets is not "contradicts".
LEMMA LinkSupersedes ==
  ASSUME NEW f \in Frags, NEW g \in Frags, QueueInv, Link(f, g, "superseded_by"),
         NEW x \in Frags, NEW y \in Frags, edge'[x][y] = "contradicts"
  PROVE  edge[x][y] = "contradicts"
BY DEF Link, QueueInv, Shape

LEMMA LinkWinnerMark ==
  ASSUME NEW c \in Cycles, ReviewInv, QueueInv, MarkInv, SeenKept, LinkWinner(c)
  PROVE  MarkInv'
<1>1. /\ pc[c] = "link" /\ Goto(c, "retire", job[c]) /\ "retire" \in Resolving
      /\ pc[c] \in Resolving /\ Link(Loser(c), Winner(c), "superseded_by")
      /\ embedded' = embedded /\ mark' = mark
  BY DEF LinkWinner, Resolving, redis
<1>2. Loser(c) \in Frags /\ Winner(c) \in Frags
  BY <1>1, LoserAndWinner DEF ReviewInv, Hands
<1> QED BY <1>1, <1>2, LinkSupersedes, StillInHandMark

LEMMA RetireLoserMark ==
  ASSUME NEW c \in Cycles, ReviewInv, QueueInv, MarkInv, SeenKept, RetireLoser(c)
  PROVE  MarkInv'
<1>1. /\ pc[c] \in Resolving /\ Turn(c, job[c], TRUE)
      /\ embedded' = embedded /\ mark' = mark /\ edge' = edge
  BY DEF RetireLoser, Resolving, redis
<1> QED BY <1>1, TurnMark

\* After the mark a cycle reviews nothing.
LEMMA PairsElsewhere ==
  ASSUME NEW c \in Cycles, NEW step \in {"idle", "pair", "pop", "supLink", "supRetire", "ask"},
         NEW j, QueueInv, MarkInv, SeenKept, Goto(c, step, j),
         \/ j.since = 0 /\ j.latest = 0
         \/ j.since = job[c].since /\ j.latest = job[c].latest,
         embedded' = embedded, mark' = mark,
         \A f, g \in Frags : edge'[f][g] = "contradicts" => edge[f][g] = "contradicts"
  PROVE  MarkInv'
<1>1. step \notin {"list", "next", "nli", "gemini", "mark"} /\ step \notin Resolving
  BY DEF Resolving
<1> QED BY <1>1, MarkElsewhere

LEMMA ListPairsMark ==
  ASSUME NEW c \in Cycles, QueueInv, MarkInv, SeenKept, ListPairs(c) PROVE MarkInv'
<1>1. embedded' = embedded /\ mark' = mark /\ edge' = edge
  BY DEF ListPairs, tables, redis
<1>2. PICK gem \in Gemini :
      IF ~ gem THEN Goto(c, "pop", [NoJob EXCEPT !.left = Batch])
      ELSE LET found == {p \in Near : /\ p \subseteq embedded \ retired
                                      /\ \A f, g \in p : edge[f][g] = None}
           IN \E kept \in Top(found, PairLimit, Unordered) :
                Goto(c, "pair", [NoJob EXCEPT !.gem = TRUE, !.pairs = kept])
  BY DEF ListPairs
<1>3. CASE ~ gem
  <2>1. PICK j : j = [NoJob EXCEPT !.left = Batch]
    OBVIOUS
  <2>2. j.since = 0 /\ j.latest = 0
    BY <2>1 DEF NoJob
  <2>3. Goto(c, "pop", j)
    BY <1>2, <1>3, <2>1
  <2> QED BY <1>1, <2>2, <2>3, PairsElsewhere
<1>4. CASE gem
  <2>1. PICK kept : Goto(c, "pair", [NoJob EXCEPT !.gem = TRUE, !.pairs = kept])
    BY <1>2, <1>4
  <2>2. PICK j : j = [NoJob EXCEPT !.gem = TRUE, !.pairs = kept]
    OBVIOUS
  <2>3. j.since = 0 /\ j.latest = 0
    BY <2>2 DEF NoJob
  <2>4. Goto(c, "pair", j)
    BY <2>1, <2>2
  <2> QED BY <1>1, <2>3, <2>4, PairsElsewhere
<1> QED BY <1>3, <1>4

LEMMA ReviewPairMark ==
  ASSUME NEW c \in Cycles, QueueInv, MarkInv, SeenKept, ReviewPair(c) PROVE MarkInv'
<1>1. embedded' = embedded /\ mark' = mark /\ edge' = edge /\ job[c] \in Jobs
  BY DEF ReviewPair, tables, redis, QueueInv, Closed
<1>2. CASE Goto(c, "pop", [NoJob EXCEPT !.left = Batch])
  <2>1. PICK j : j = [NoJob EXCEPT !.left = Batch]
    OBVIOUS
  <2>2. j.since = 0 /\ j.latest = 0
    BY <2>1 DEF NoJob
  <2>3. Goto(c, "pop", j)
    BY <1>2, <2>1
  <2> QED BY <1>1, <2>2, <2>3, PairsElsewhere
<1>3. ASSUME NEW p, Goto(c, "pair", [job[c] EXCEPT !.pairs = @ \ {p}]) PROVE MarkInv'
  <2>1. PICK j : j = [job[c] EXCEPT !.pairs = @ \ {p}]
    OBVIOUS
  <2>2. j.since = job[c].since /\ j.latest = job[c].latest
    BY <1>1, <2>1 DEF Jobs
  <2>3. Goto(c, "pair", j)
    BY <1>3, <2>1
  <2> QED BY <1>1, <2>2, <2>3, PairsElsewhere
<1>4. ASSUME NEW p, NEW older, NEW newer,
             Goto(c, "supLink", [[job[c] EXCEPT !.pairs = @ \ {p}]
                                   EXCEPT !.new = older, !.cand = newer])
      PROVE  MarkInv'
  <2>1. PICK j : j = [job[c] EXCEPT !.pairs = @ \ {p}]
    OBVIOUS
  <2>2. j.since = job[c].since /\ j.latest = job[c].latest
            /\ DOMAIN j = DOMAIN job[c]
    BY <1>1, <2>1 DEF Jobs
  <2>3. PICK k : k = [j EXCEPT !.new = older, !.cand = newer]
    OBVIOUS
  <2>4. k.since = job[c].since /\ k.latest = job[c].latest
    BY <1>1, <2>2, <2>3 DEF Jobs
  <2>5. Goto(c, "supLink", k)
    BY <1>4, <2>1, <2>3
  <2> QED BY <1>1, <2>4, <2>5, PairsElsewhere
<1>5. CASE job[c].pairs = {}
  BY <1>2, <1>5 DEF ReviewPair
<1>6. CASE job[c].pairs # {}
  <2>1. PICK p \in job[c].pairs : \E a \in p, b \in p :
          LET j == [job[c] EXCEPT !.pairs = @ \ {p}]
              older == IF Newer(b, a) THEN a ELSE b
              newer == IF older = a THEN b ELSE a
          IN \/ Goto(c, "pair", j)
             \/ Goto(c, "supLink", [j EXCEPT !.new = older, !.cand = newer])
    BY <1>6 DEF ReviewPair
  <2> QED BY <1>3, <1>4, <2>1
<1> QED BY <1>5, <1>6

LEMMA LinkNewerMark ==
  ASSUME NEW c \in Cycles, ReviewInv, QueueInv, MarkInv, SeenKept, LinkNewer(c)
  PROVE  MarkInv'
<1>1. /\ pc[c] = "supLink" /\ Goto(c, "supRetire", job[c])
      /\ Link(job[c].new, job[c].cand, "superseded_by")
      /\ embedded' = embedded /\ mark' = mark
  BY DEF LinkNewer, redis
<1>2. job[c].new \in Frags /\ job[c].cand \in Frags
  BY <1>1 DEF ReviewInv, Closures, Fits, Hands
<1> QED BY <1>1, <1>2, LinkSupersedes, PairsElsewhere

\* A near pair that is let go.
LEMMA NearLetGoMark ==
  ASSUME NEW c \in Cycles, QueueInv, MarkInv, SeenKept,
         Goto(c, "pair", [job[c] EXCEPT !.new = None, !.cand = None]),
         embedded' = embedded, mark' = mark, edge' = edge
  PROVE  MarkInv'
<1>1. job[c] \in Jobs
  BY DEF QueueInv, Closed
<1>2. PICK j : j = [job[c] EXCEPT !.new = None, !.cand = None]
  OBVIOUS
<1>3. j.since = job[c].since /\ j.latest = job[c].latest
  BY <1>1, <1>2 DEF Jobs
<1>4. Goto(c, "pair", j)
  BY <1>2
<1> QED BY <1>3, <1>4, PairsElsewhere

LEMMA PopMark ==
  ASSUME NEW c \in Cycles, QueueInv, MarkInv, SeenKept, Pop(c) PROVE MarkInv'
<1>1. embedded' = embedded /\ mark' = mark /\ edge' = edge /\ job[c] \in Jobs
  BY DEF Pop, tables, QueueInv, Closed
<1>2. CASE Goto(c, "idle", NoJob)
  <2>1. NoJob.since = 0 /\ NoJob.latest = 0
    BY DEF NoJob
  <2> QED BY <1>1, <1>2, <2>1, PairsElsewhere
<1>3. CASE Goto(c, "ask", [job[c] EXCEPT !.new = Head(pending)[1], !.gem = TRUE,
                               !.cand = Head(pending)[2], !.left = @ - 1,
                               !.via = "pending"])
  <2>1. PICK j : j = [job[c] EXCEPT !.new = Head(pending)[1], !.gem = TRUE,
                          !.cand = Head(pending)[2], !.left = @ - 1, !.via = "pending"]
    OBVIOUS
  <2>2. j.since = job[c].since /\ j.latest = job[c].latest
    BY <1>1, <2>1 DEF Jobs
  <2>3. Goto(c, "ask", j)
    BY <1>3, <2>1
  <2> QED BY <1>1, <2>2, <2>3, PairsElsewhere
<1> QED BY <1>2, <1>3 DEF Pop

LEMMA AskPendingMark ==
  ASSUME NEW c \in Cycles, ReviewInv, QueueInv, MarkInv, SeenKept, AskPending(c)
  PROVE  MarkInv'
<1>1. /\ pc[c] = "ask" /\ embedded' = embedded /\ mark' = mark /\ edge' = edge
      /\ "contradicts" \in Resolving
  BY DEF AskPending, tables, redis, Resolving
<1>2. CASE Goto(c, "contradicts", job[c])
  BY <1>1, <1>2, StillInHandMark
<1>3. CASE Turn(c, job[c], TRUE)
  BY <1>1, <1>3, TurnMark
<1> QED BY <1>2, <1>3 DEF AskPending

LEMMA FailStatementMark ==
  ASSUME NEW c \in Cycles, ReviewInv, QueueInv, MarkInv, SeenKept, FailStatement(c)
  PROVE  MarkInv'
<1>1. embedded' = embedded /\ mark' = mark /\ edge' = edge
  BY DEF FailStatement, tables
<1>2. NoJob.since = 0 /\ NoJob.latest = 0
  BY DEF NoJob
<1>3. CASE Goto(c, "idle", NoJob)
  BY <1>1, <1>2, <1>3, PairsElsewhere
<1>4. CASE pc[c] \in Resolving /\ Turn(c, job[c], FALSE)
  BY <1>1, <1>4, TurnMark
<1>5. CASE Goto(c, "pair", [job[c] EXCEPT !.new = None, !.cand = None])
  BY <1>1, <1>5, NearLetGoMark
<1> QED BY <1>3, <1>4, <1>5 DEF FailStatement

\* After a restart the watermark is where it was, and nobody reviews.
LEMMA RestartMark == ASSUME QueueInv, MarkInv, SeenKept, Restart PROVE MarkInv'
<1>1. /\ embedded' = embedded /\ mark' = mark /\ edge' = edge
      /\ pc' = [c \in Cycles |-> "idle"] /\ job' = [c \in Cycles |-> NoJob]
  BY DEF Restart, tables, redis
<1>2. Arrived' /\ Behind(mark)'
  BY <1>1 DEF MarkInv, Arrived, Behind
<1>3. Judged'
  BY <1>1 DEF MarkInv, Judged, SeenKept
<1>4. WatermarkCovers'
  <2> SUFFICES ASSUME NEW f \in embedded, NEW g \in embedded,
                      {f, g} \in Similar, Born[g] < Born[f], Born[f] <= mark
               PROVE  Seen({f, g})'
    BY <1>1 DEF WatermarkCovers, Seen
  <2>1. Seen({f, g})
    BY DEF MarkInv, WatermarkCovers, Seen
  <2> QED BY <2>1 DEF SeenKept
<1>5. ASSUME NEW c \in Cycles PROVE Progress(c)'
  <2>1. pc'[c] = "idle" /\ job'[c] = NoJob /\ NoJob.since = 0 /\ NoJob.latest = 0
    BY <1>1 DEF NoJob
  <2>2. Behind(NoJob.since) /\ Behind(NoJob.latest)
    BY <2>1 DEF Behind
  <2>3. "idle" \notin {"list", "next", "nli", "gemini", "mark"} /\ "idle" \notin Resolving
    BY DEF Resolving
  <2> QED BY <1>1, <2>1, <2>2, <2>3, ProgressElsewhere
<1> QED BY <1>2, <1>3, <1>4, <1>5 DEF MarkInv

\* At first nothing is embedded and the watermark absent.
LEMMA MarkInitially == Init => MarkInv
<1> SUFFICES ASSUME Init PROVE MarkInv
  OBVIOUS
<1>1. Arrived /\ Behind(mark) /\ WatermarkCovers
  BY DEF Init, Arrived, Behind, WatermarkCovers
<1>2. Judged
  BY ReviewAssumption DEF Init, Judged
<1>3. ASSUME NEW c \in Cycles PROVE Progress(c)
  <2>1. pc[c] = "idle" /\ job[c].since = 0 /\ job[c].latest = 0
    BY DEF Init, NoJob
  <2> QED BY <2>1 DEF Progress, Behind, Stage, Reviewing, Resolving
<1> QED BY <1>1, <1>2, <1>3 DEF MarkInv

\* Every step keeps what the watermark promises.
LEMMA MarkStep ==
  ASSUME Orderly, ReviewInv, QueueInv, MarkInv, [Next]_vars PROVE MarkInv'
<1>1. SeenKept
  BY QueueStep
<1>2. CASE \E f \in Frags : Embed(f)
  BY <1>1, <1>2, EmbedMark
<1>3. ASSUME NEW c \in Cycles, Begin(c) \/ FailStatement(c) PROVE MarkInv'
  BY <1>1, <1>3, BeginMark, FailStatementMark
<1>4. ASSUME NEW c \in Cycles, Step(c) PROVE MarkInv'
  <2>1. CASE List(c) \/ NextFragment(c) \/ Nli(c) \/ Flag(c) \/ AskGemini(c) \/ Mark(c)
    BY <1>1, <2>1, ListMark, NextFragmentMark, NliMark, FlagMark, AskGeminiMark, MarkMark
  <2>2. CASE LinkContradicts(c) \/ HalveLoser(c) \/ LinkWinner(c) \/ RetireLoser(c)
    BY <1>1, <2>2, LinkContradictsMark, HalveLoserMark, LinkWinnerMark, RetireLoserMark
  <2>3. CASE ListPairs(c) \/ ReviewPair(c) \/ LinkNewer(c)
    BY <1>1, <2>3, ListPairsMark, ReviewPairMark, LinkNewerMark
  <2>4. CASE RetireOlder(c)
    <3>1. /\ Goto(c, "pair", [job[c] EXCEPT !.new = None, !.cand = None])
          /\ embedded' = embedded /\ mark' = mark /\ edge' = edge
      BY <2>4 DEF RetireOlder, redis
    <3> QED BY <1>1, <3>1, NearLetGoMark
  <2>5. CASE Pop(c) \/ AskPending(c)
    BY <1>1, <2>5, PopMark, AskPendingMark
  <2> QED BY <1>4, <2>1, <2>2, <2>3, <2>4, <2>5 DEF Step
<1>5. CASE Restart
  BY <1>1, <1>5, RestartMark
<1>6. CASE UNCHANGED vars
  <2>1. UNCHANGED <<embedded, edge, mark, pc, job, settled, flagged, cut>>
    BY <1>6 DEF vars, tables, redis, history
  <2>2. \A p : Seen(p)' <=> Seen(p)
    BY <2>1 DEF Seen, Underway, InHand
  <2>3. Arrived' /\ Behind(mark)' /\ Judged'
    BY <2>1, <2>2 DEF MarkInv, Arrived, Behind, Judged
  <2>4. WatermarkCovers'
    BY <2>1 DEF MarkInv, WatermarkCovers, Underway, InHand
  <2>5. \A c \in Cycles : Progress(c)'
    BY <1>1, <2>1, ProgressStays DEF MarkInv
  <2> QED BY <2>3, <2>4, <2>5 DEF MarkInv
<1> QED BY <1>2, <1>3, <1>4, <1>5, <1>6 DEF Next

\* Nothing the watermark has passed was skipped, when embeddings come in the order of
\* creation, creation times differ and the LIMITs of the queries are not reached.
THEOREM NothingSkipped == ASSUME Orderly PROVE Spec => []WatermarkCovers
<1>1. MarkInv => WatermarkCovers
  BY DEF MarkInv
<1>2. ReviewInv /\ QueueInv /\ MarkInv /\ [Next]_vars => MarkInv'
  BY MarkStep
<1> QED BY <1>1, <1>2, ReviewInitially, ReviewStep, QueueInitially, QueueStep,
           MarkInitially, PTL DEF Spec
=============================================================================
