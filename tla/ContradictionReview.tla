-------------------------- MODULE ContradictionReview -----------------------
(***************************************************************************)
(* The contradiction stage of a consolidation cycle                        *)
(* (lib/memory/consolidator/ContradictionStage.js and contradiction/):     *)
(* review of the fragments above a watermark, supersession pairs, and the  *)
(* queue of pairs no model could judge.  Cycles overlap: the timer's and a *)
(* client's memory_consolidate share nothing but the tables and Redis.     *)
(*                                                                         *)
(* Abstracted: similarity is three relations, a model's verdict is any     *)
(* answer, createLink is one step (FragmentStore has its statements),      *)
(* fragments are not deleted, Redis answers.                               *)
(***************************************************************************)
EXTENDS Integers, FiniteSets, Sequences

CONSTANTS
  Frags,        \* of one topic and type; numbers, ordered as the ids are
  Born,         \* created_at, in ticks of the database
  Milli,        \* ticks in a millisecond, the precision of a Date
  Similar,      \* pairs above 0.85, as sets of two
  VerySimilar,  \* those of them above 0.92
  Near,         \* pairs between 0.7 and 0.85
  Anchors,      \* is_anchor
  InOrder,      \* whether embeddings arrive in the order of creation
  Cycles,       \* cycles that may run at one time
  Gemini,       \* the answers isGeminiAvailable gives
  None,
  Limit, CandLimit, PairLimit,  \* LIMIT of the three queries
  Batch,        \* PENDING_BATCH_SIZE
  MaxCycles,    \* bound: cycles started
  MaxTrouble,   \* bound: failing statements, model failures, restarts
  MaxPending    \* bound: flags in the queue

ASSUME ReviewAssumption ==
  /\ Frags \subseteq Nat /\ IsFiniteSet(Frags) /\ IsFiniteSet(Cycles)
  /\ None \notin Frags /\ None \notin {"contradicts", "superseded_by"}
  /\ Milli \in Nat \ {0}
  /\ Born \in [Frags -> Nat] /\ \A f \in Frags : Born[f] >= Milli
  /\ \A p \in Similar \union Near : p \subseteq Frags /\ Cardinality(p) = 2
  /\ VerySimilar \subseteq Similar /\ Near \intersect Similar = {}
  /\ Anchors \subseteq Frags /\ InOrder \in BOOLEAN /\ Gemini \subseteq BOOLEAN
  /\ Limit \in Nat /\ CandLimit \in Nat /\ PairLimit \in Nat /\ Batch \in Nat
  /\ MaxCycles \in Nat /\ MaxTrouble \in Nat /\ MaxPending \in Nat

VARIABLES
  embedded,  \* fragments with an embedding
  edge,      \* edge[f][g]: relation of the link from f to g, or None
  retired,   \* fragments with valid_to set
  halved,    \* halved[f][g]: times f was halved in favour of g (2: or more)
  mark,      \* frag:contradiction_check_at, 0 when absent
  pending,   \* frag:pending_contradictions
  pc, job,   \* per cycle: next step, closure
  settled,   \* history: pairs found compatible, or resolved to the end
  flagged,   \* history: pairs put into the queue
  cut,       \* history: pairs whose review a failure or a missing model cut short
  cycles, trouble

tables == <<embedded, edge, retired, halved>>
redis == <<mark, pending>>
history == <<settled, flagged, cut>>
vars == <<tables, redis, pc, job, history, cycles, trouble>>

Pairs == {p \in SUBSET Frags : Cardinality(p) = 2}

Steps == {"idle", "list", "next", "nli", "gemini", "mark", "pairs", "pair", "pop",
          "ask", "contradicts", "halve", "link", "retire", "supLink", "supRetire"}

\* The closure of a cycle: fragments and candidates left, the pair in hand, the
\* newest created_at processed, which loop resolves, geminiAvailable, pairs left,
\* entries left of the batch, the watermark read.
Jobs == [fresh : SUBSET Frags, cands : SUBSET Frags, new : Frags \union {None},
         cand : Frags \union {None}, latest : Nat, via : {"nli", "gemini", "pending"},
         gem : BOOLEAN, pairs : SUBSET Pairs, left : 0..Batch, since : Nat]

NoJob == [fresh |-> {}, cands |-> {}, new |-> None, cand |-> None, latest |-> 0,
          via |-> "nli", gem |-> FALSE, pairs |-> {}, left |-> 0, since |-> 0]

TypeOK ==
  /\ embedded \subseteq Frags /\ retired \subseteq embedded
  /\ edge \in [Frags -> [Frags -> {None, "contradicts", "superseded_by"}]]
  /\ halved \in [Frags -> [Frags -> 0..2]]
  /\ mark \in Nat
  /\ pending \in Seq(Frags \X Frags) /\ Len(pending) <= MaxPending + Cardinality(Cycles)
  /\ pc \in [Cycles -> Steps] /\ job \in [Cycles -> Jobs]
  /\ settled \subseteq Pairs /\ flagged \subseteq VerySimilar /\ cut \subseteq Pairs
  /\ cycles \in 0..MaxCycles /\ trouble \in 0..MaxTrouble

Init ==
  /\ embedded = {} /\ retired = {}
  /\ edge = [f \in Frags |-> [g \in Frags |-> None]]
  /\ halved = [f \in Frags |-> [g \in Frags |-> 0]]
  /\ mark = 0 /\ pending = <<>>
  /\ pc = [c \in Cycles |-> "idle"] /\ job = [c \in Cycles |-> NoJob]
  /\ settled = {} /\ flagged = {} /\ cut = {}
  /\ cycles = 0 /\ trouble = 0

Goto(c, step, j) ==
  /\ pc' = [pc EXCEPT ![c] = step]
  /\ job' = [job EXCEPT ![c] = j]

\* A timestamptz as the Date the driver makes of it, and the ISO string of it.
ToDate(t) == t - (t % Milli)

Newer(f, g) == ToDate(Born[f]) > ToDate(Born[g])

InHand(c) == {job[c].new, job[c].cand}

\* The rows LIMIT n may keep of S when ORDER BY puts rows of greater rank first.
Top(S, n, rank(_)) ==
  {T \in SUBSET S : /\ Cardinality(T) = IF Cardinality(S) < n THEN Cardinality(S) ELSE n
                    /\ \A x \in T, y \in S \ T : rank(x) >= rank(y)}

Unordered(x) == 0
-----------------------------------------------------------------------------
(* _detectContradictions                                                   *)

Embed(f) ==
  /\ f \notin embedded
  /\ InOrder => \A g \in Frags \ embedded : Born[f] <= Born[g]
  /\ embedded' = embedded \union {f}
  /\ UNCHANGED <<edge, retired, halved, redis, pc, job, history, cycles, trouble>>

\* getLastCheckAt
Begin(c) ==
  /\ pc[c] = "idle" /\ cycles < MaxCycles
  /\ cycles' = cycles + 1
  /\ Goto(c, "list", [NoJob EXCEPT !.since = mark])
  /\ UNCHANGED <<tables, redis, history, trouble>>

\* listNewFragments; geminiAvailable is asked once for the whole loop.
List(c) ==
  /\ pc[c] = "list"
  /\ \E gem \in Gemini :
     \E fresh \in Top({f \in embedded : Born[f] > job[c].since}, Limit,
                      LAMBDA f : Born[f]) :
       Goto(c, "next", [job[c] EXCEPT !.fresh = fresh, !.gem = gem])
  /\ UNCHANGED <<tables, redis, history, cycles, trouble>>

Candidates(f) ==
  {g \in embedded : /\ {f, g} \in Similar
                    /\ "contradicts" \notin {edge[f][g], edge[g][f]}}

\* listContradictionCandidates for the next fragment; after the last, the mark.
NextFragment(c) ==
  /\ pc[c] = "next"
  /\ IF job[c].fresh = {}
     THEN Goto(c, "mark", job[c])
     ELSE \E f \in job[c].fresh : \E cands \in Top(Candidates(f), CandLimit, Unordered) :
            /\ \A g \in job[c].fresh : Born[g] <= Born[f]
            /\ Goto(c, IF cands = {} THEN "next" ELSE "nli",
                    [job[c] EXCEPT !.fresh = @ \ {f}, !.new = f, !.cands = cands])
  /\ UNCHANGED <<tables, redis, history, cycles, trouble>>

\* What is left of the closure when the pair in hand is done with.
Rest(j, processed) ==
  LET t == ToDate(Born[j.new])
  IN [j EXCEPT !.cand = None, !.via = "nli",
               !.latest = IF processed /\ t > @ THEN t ELSE @]

\* The end of one turn of the candidate loop, or of the loop over the queue.
Turn(c, j, processed) ==
  IF j.via = "pending"
  THEN Goto(c, "pop", [j EXCEPT !.new = None, !.cand = None])
  ELSE Goto(c, IF j.cands = {} THEN "next" ELSE "nli", Rest(j, processed))

\* reviewContradiction, the NLI model: contradicts, compatible, or not decided.
Nli(c) ==
  /\ pc[c] = "nli"
  /\ \E g \in job[c].cands :
       LET j == [job[c] EXCEPT !.cand = g, !.cands = @ \ {g}]
       IN \/ /\ Goto(c, "contradicts", [j EXCEPT !.via = "nli"])
             /\ UNCHANGED settled
          \/ /\ Turn(c, j, TRUE)
             /\ settled' = settled \union {{j.new, g}}
          \/ /\ Goto(c, "gemini", j)
             /\ UNCHANGED settled
  /\ UNCHANGED <<tables, redis, flagged, cut, cycles, trouble>>

\* Without Gemini a very similar pair is flagged and the fragment not processed.
Flag(c) ==
  /\ pc[c] = "gemini" /\ ~ job[c].gem
  /\ IF InHand(c) \in VerySimilar
     THEN /\ Len(pending) < MaxPending
          /\ pending' = Append(pending, <<job[c].new, job[c].cand>>)
          /\ flagged' = flagged \union {InHand(c)}
          /\ UNCHANGED cut
     ELSE cut' = cut \union {InHand(c)} /\ UNCHANGED <<pending, flagged>>
  /\ Turn(c, job[c], FALSE)
  /\ UNCHANGED <<tables, mark, settled, cycles, trouble>>

\* askGeminiContradiction: an answer, or a failure it turns into "no".
Compatible(c) ==
  \/ settled' = settled \union {InHand(c)} /\ UNCHANGED <<cut, trouble>>
  \/ /\ trouble < MaxTrouble
     /\ trouble' = trouble + 1
     /\ cut' = cut \union {InHand(c)}
     /\ UNCHANGED settled

AskGemini(c) ==
  /\ pc[c] = "gemini" /\ job[c].gem
  /\ \/ /\ Goto(c, "contradicts", [job[c] EXCEPT !.via = "gemini"])
        /\ UNCHANGED <<settled, cut, trouble>>
     \/ Turn(c, job[c], TRUE) /\ Compatible(c)
  /\ UNCHANGED <<tables, redis, flagged, cycles>>

\* Fault: the watermark is the time of the check.
MarkNow(c) ==
  /\ pc[c] = "mark"
  /\ \E f \in embedded : /\ \A g \in embedded : Born[g] <= Born[f]
                         /\ mark' = ToDate(Born[f])
  /\ Goto(c, "pairs", NoJob)
  /\ UNCHANGED <<tables, pending, history, cycles, trouble>>

\* updateLastCheckAt, when something was processed.
Mark(c) ==
  /\ pc[c] = "mark"
  /\ mark' = IF job[c].latest > 0 THEN job[c].latest ELSE mark
  /\ Goto(c, "pairs", NoJob)
  /\ UNCHANGED <<tables, pending, history, cycles, trouble>>
-----------------------------------------------------------------------------
(* resolveContradiction                                                    *)

\* Fault: the candidate loses whichever is older.
CandidateLoses(c) == job[c].cand

\* The older of the pair; the reviewed fragment when the Dates are equal.
Loser(c) == IF Newer(job[c].new, job[c].cand) THEN job[c].cand ELSE job[c].new

Winner(c) == CHOOSE f \in InHand(c) : f # Loser(c)

\* createLink: ON CONFLICT the relation is replaced.
Link(f, g, relation) == edge' = [edge EXCEPT ![f][g] = relation]

Halve(f, g) == halved' = [halved EXCEPT ![f][g] = IF @ = 2 THEN 2 ELSE @ + 1]

LinkContradicts(c) ==
  /\ pc[c] = "contradicts"
  /\ Link(job[c].new, job[c].cand, "contradicts")
  /\ Goto(c, "halve", job[c])
  /\ UNCHANGED <<embedded, retired, halved, redis, history, cycles, trouble>>

\* The candidate's anchor is looked at, the reviewed fragment's is not known.
HalveLoser(c) ==
  /\ pc[c] = "halve"
  /\ IF Loser(c) = job[c].cand /\ job[c].cand \in Anchors
     THEN UNCHANGED halved ELSE Halve(Loser(c), Winner(c))
  /\ Goto(c, "link", job[c])
  /\ UNCHANGED <<embedded, edge, retired, redis, history, cycles, trouble>>

LinkWinner(c) ==
  /\ pc[c] = "link"
  /\ Link(Loser(c), Winner(c), "superseded_by")
  /\ Goto(c, "retire", job[c])
  /\ UNCHANGED <<embedded, retired, halved, redis, history, cycles, trouble>>

RetireLoser(c) ==
  /\ pc[c] = "retire"
  /\ retired' = retired \union {Loser(c)}
  /\ settled' = settled \union {InHand(c)}
  /\ Turn(c, job[c], TRUE)
  /\ UNCHANGED <<embedded, edge, halved, redis, flagged, cut, cycles, trouble>>
-----------------------------------------------------------------------------
(* _detectSupersessions                                                    *)

ListPairs(c) ==
  /\ pc[c] = "pairs"
  /\ \E gem \in Gemini :
       IF ~ gem THEN Goto(c, "pop", [NoJob EXCEPT !.left = Batch])
       ELSE LET found == {p \in Near : /\ p \subseteq embedded \ retired
                                       /\ \A f, g \in p : edge[f][g] = None}
            IN \E kept \in Top(found, PairLimit, Unordered) :
                 Goto(c, "pair", [NoJob EXCEPT !.gem = TRUE, !.pairs = kept])
  /\ UNCHANGED <<tables, redis, history, cycles, trouble>>

\* a is the smaller id.  The reviewed pair: older in new, newer in cand.
ReviewPair(c) ==
  /\ pc[c] = "pair"
  /\ IF job[c].pairs = {}
     THEN Goto(c, "pop", [NoJob EXCEPT !.left = Batch])
     ELSE \E p \in job[c].pairs : \E a \in p, b \in p :
            /\ a < b
            /\ LET j == [job[c] EXCEPT !.pairs = @ \ {p}]
                   older == IF Newer(b, a) THEN a ELSE b
                   newer == IF older = a THEN b ELSE a
               IN \/ Goto(c, "pair", j)
                  \/ Goto(c, "supLink", [j EXCEPT !.new = older, !.cand = newer])
  /\ UNCHANGED <<tables, redis, history, cycles, trouble>>

LinkNewer(c) ==
  /\ pc[c] = "supLink"
  /\ Link(job[c].new, job[c].cand, "superseded_by")
  /\ Goto(c, "supRetire", job[c])
  /\ UNCHANGED <<embedded, retired, halved, redis, history, cycles, trouble>>

RetireOlder(c) ==
  /\ pc[c] = "supRetire"
  /\ IF job[c].new \in retired THEN UNCHANGED <<retired, halved>>
     ELSE /\ retired' = retired \union {job[c].new}
          /\ Halve(job[c].new, job[c].cand)
  /\ Goto(c, "pair", [job[c] EXCEPT !.new = None, !.cand = None])
  /\ UNCHANGED <<embedded, edge, redis, history, cycles, trouble>>
-----------------------------------------------------------------------------
(* processPendingContradictions                                            *)

Pop(c) ==
  /\ pc[c] = "pop"
  /\ \E gem \in IF job[c].gem THEN {TRUE} ELSE Gemini :
       IF gem /\ pending # <<>> /\ job[c].left > 0
       THEN /\ pending' = Tail(pending)
            /\ Goto(c, "ask", [job[c] EXCEPT !.new = Head(pending)[1], !.gem = TRUE,
                               !.cand = Head(pending)[2], !.left = @ - 1,
                               !.via = "pending"])
       ELSE Goto(c, "idle", NoJob) /\ UNCHANGED pending
  /\ UNCHANGED <<tables, mark, history, cycles, trouble>>

AskPending(c) ==
  /\ pc[c] = "ask"
  /\ \/ Goto(c, "contradicts", job[c]) /\ UNCHANGED <<settled, cut, trouble>>
     \/ Turn(c, job[c], TRUE) /\ Compatible(c)
  /\ UNCHANGED <<tables, redis, flagged, cycles>>

\* Fault: a failed entry is not put back.
ForgetEntry(c) == UNCHANGED pending

Requeue(c) == pending' = Append(pending, <<job[c].new, job[c].cand>>)

\* A statement throws: one of a resolution, or a query of a list.
Resolving == {"contradicts", "halve", "link", "retire"}

FailStatement(c) ==
  /\ trouble < MaxTrouble
  /\ trouble' = trouble + 1
  /\ \/ /\ pc[c] \in {"list", "next", "pairs"}             \* ends the cycle
        /\ Goto(c, "idle", NoJob)
        /\ UNCHANGED <<pending, cut>>
     \/ /\ pc[c] \in Resolving /\ job[c].via = "nli"      \* ends the cycle
        /\ Goto(c, "idle", NoJob)
        /\ cut' = cut \union {InHand(c)}
        /\ UNCHANGED pending
     \/ /\ pc[c] \in Resolving /\ job[c].via = "gemini"   \* caught, not processed
        /\ Turn(c, job[c], FALSE)
        /\ cut' = cut \union {InHand(c)}
        /\ UNCHANGED pending
     \/ /\ pc[c] \in Resolving /\ job[c].via = "pending"  \* put back, loop ended
        /\ Requeue(c)
        /\ Goto(c, "idle", NoJob)
        /\ UNCHANGED cut
     \/ /\ pc[c] \in {"supLink", "supRetire"}             \* next pair
        /\ Goto(c, "pair", [job[c] EXCEPT !.new = None, !.cand = None])
        /\ UNCHANGED <<pending, cut>>
  /\ UNCHANGED <<tables, mark, settled, flagged, cycles>>

\* The process restarts; the tables and Redis keep what they have.
Restart ==
  /\ trouble < MaxTrouble
  /\ trouble' = trouble + 1
  /\ \E c \in Cycles : pc[c] # "idle"
  /\ pc' = [c \in Cycles |-> "idle"] /\ job' = [c \in Cycles |-> NoJob]
  /\ cut' = cut \union {p \in Pairs : \E c \in Cycles : InHand(c) = p}
  /\ UNCHANGED <<tables, redis, settled, flagged, cycles>>
-----------------------------------------------------------------------------
Step(c) ==
  \/ List(c) \/ NextFragment(c) \/ Nli(c) \/ Flag(c) \/ AskGemini(c) \/ Mark(c)
  \/ LinkContradicts(c) \/ HalveLoser(c) \/ LinkWinner(c) \/ RetireLoser(c)
  \/ ListPairs(c) \/ ReviewPair(c) \/ LinkNewer(c) \/ RetireOlder(c)
  \/ Pop(c) \/ AskPending(c)

Next ==
  \/ \E f \in Frags : Embed(f)
  \/ \E c \in Cycles : Begin(c) \/ Step(c) \/ FailStatement(c)
  \/ Restart

Spec == Init /\ [][Next]_vars
-----------------------------------------------------------------------------
(* Properties.                                                             *)

\* A fragment is retired only in favour of one that is not older, and the link to
\* it stays: later reviews of the pair, of either cycle, may change its relation
\* but never remove the trace of the successor.
SuccessorOnRecord ==
  \A f \in retired : \E g \in Frags \ {f} :
    edge[f][g] # None /\ ~ Newer(f, g)

\* No two fragments supersede each other: one side of a contradiction stands,
\* from whichever side and however often the pair is reviewed.
OneSideStands ==
  \A f, g \in Frags :
    ~ (edge[f][g] = "superseded_by" /\ edge[g][f] = "superseded_by")

\* The pair is in the hands of a cycle.
Underway(p) == \E c \in Cycles : InHand(c) = p

\* Nothing the watermark has passed was skipped: a similar pair whose newer
\* fragment is at or below it was found compatible or resolved, or its review was
\* cut short (by a failure, or with no model there), or it waits in the queue.
WatermarkCovers ==
  \A f, g \in embedded :
    ({f, g} \in Similar /\ Born[g] < Born[f] /\ Born[f] <= mark) =>
      \/ {f, g} \in settled \union cut \union flagged
      \/ Underway({f, g})

\* A flagged pair stays in the queue until it is judged; a resolution that fails
\* puts it back.
FlaggedKept ==
  \A p \in flagged \ (settled \union cut) :
    \/ \E i \in DOMAIN pending : {pending[i][1], pending[i][2]} = p
    \/ Underway(p)

\* The queue of pairs nobody could judge keeps each of them, whatever cycle pops,
\* puts back or fails.
QueueKept == TypeOK /\ FlaggedKept
-----------------------------------------------------------------------------
(* Claims of documentation and tests the code does not keep.               *)

\* tests: a pending entry whose check fails is put back into the queue.
FailedCheckRequeued ==
  \A p \in flagged \ settled :
    \/ \E i \in DOMAIN pending : {pending[i][1], pending[i][2]} = p
    \/ Underway(p)

\* README.simple.md: the old fragment's importance is halved, for one
\* contradiction once.
HalvedOnce == \A f, g \in Frags : halved[f][g] < 2

\* tests, tool description: the importance of an anchor does not decay.
AnchorsKeepImportance ==
  \A f \in Anchors, g \in Frags : {f, g} \in Similar => halved[f][g] = 0
=============================================================================
