----------------------- MODULE EmbeddingPipelineProofs -----------------------
(***************************************************************************)
(* Proofs about EmbeddingPipeline, for any fragments and ranks, any number *)
(* of workers, any limits and any amount of trouble: the types, which text *)
(* an embedding belongs to, and that no fragment without one is lost.      *)
(***************************************************************************)
EXTENDS EmbeddingPipeline, TLAPS

\* A worker without a batch holds no row; one with a row in hand has attempts left.
Ready ==
  \A w \in Workers :
    /\ pc[w] \in {"idle", "pop", "select"}
         => rows[w] = {} /\ cur[w] = None /\ tries[w] = 0
    /\ pc[w] \in {"generate", "write"} => tries[w] < RetryLimit

\* A fragment that was never stored has no embedding and no worker a row of it.
NeverStored ==
  /\ \A f \in Frags : row[f] = 0 => vec[f] = 0
  /\ \A w \in Workers : \A r \in Held(w) : row[r.id] # 0

\* The rows in the workers' hands are those of the table, unless amend overtook them.
HeldFits ==
  \A w \in Workers : \A r \in Held(w) :
    r.id \in Live \ overtaken => r.version = row[r.id]

\* Where a fragment without embedding can be.
Accounted(f) ==
  \/ f \in ToSet(queue) \/ f \in topush \/ f \in dead \/ f \in adrift
  \/ \E w \in Workers : f \in ToSet(ids[w]) \/ \E r \in Held(w) : r.id = f

MissingSeen == \A f \in Missing : Accounted(f)

EmbedInv ==
  TypeOK /\ Ready /\ NeverStored /\ HeldFits /\ EmbeddingFits /\ MissingSeen

\* The steps of w leave the other workers' registers alone.
Apart(w) ==
  \A v \in Workers \ {w} : /\ pc'[v] = pc[v] /\ rows'[v] = rows[v]
                           /\ cur'[v] = cur[v] /\ tries'[v] = tries[v]

-----------------------------------------------------------------------------
(* Sequences and registers.                                                 *)

\* What pushing to either end of a queue, and popping its last entry, do to its
\* length and its set of entries.
LEMMA QueueEnds ==
  ASSUME NEW q \in Seq(Frags)
  PROVE  /\ ToSet(<<>>) = {} /\ ToSet(q) \subseteq Frags
         /\ q # <<>> => /\ Front(q) \in Seq(Frags) /\ Last(q) \in Frags
                        /\ Len(Front(q)) < Len(q)
                        /\ ToSet(q) = ToSet(Front(q)) \union {Last(q)}
         /\ \A f \in Frags : /\ Append(q, f) \in Seq(Frags)
                             /\ Len(Append(q, f)) = Len(q) + 1
                             /\ ToSet(Append(q, f)) = ToSet(q) \union {f}
                             /\ <<f>> \o q \in Seq(Frags)
                             /\ Len(<<f>> \o q) = Len(q) + 1
                             /\ ToSet(<<f>> \o q) = ToSet(q) \union {f}
<1>1. ToSet(<<>>) = {} /\ ToSet(q) \subseteq Frags
  BY DEF ToSet
<1>2. ASSUME q # <<>>
      PROVE  /\ Front(q) \in Seq(Frags) /\ Last(q) \in Frags
             /\ Len(Front(q)) < Len(q)
             /\ ToSet(q) = ToSet(Front(q)) \union {Last(q)}
  <2>1. Len(q) \in Nat \ {0} /\ DOMAIN q = 1..Len(q)
    BY <1>2
  <2>2. /\ Front(q) \in Seq(Frags) /\ Len(Front(q)) = Len(q) - 1
        /\ \A n \in 1..(Len(q) - 1) : Front(q)[n] = q[n]
    BY <2>1 DEF Front
  <2>3. Last(q) = q[Len(q)] /\ Last(q) \in Frags
    BY <2>1 DEF Last
  <2>4. ToSet(Front(q)) = {q[n] : n \in 1..(Len(q) - 1)}
    BY <2>1, <2>2 DEF ToSet
  <2>5. ToSet(q) = {q[n] : n \in 1..Len(q)}
    BY <2>1 DEF ToSet
  <2>6. \A n : n \in 1..Len(q) <=> n \in 1..(Len(q) - 1) \/ n = Len(q)
    BY <2>1
  <2> QED  BY <2>2, <2>3, <2>4, <2>5, <2>6, <2>1
<1>3. ASSUME NEW f \in Frags
      PROVE  /\ Append(q, f) \in Seq(Frags) /\ Len(Append(q, f)) = Len(q) + 1
             /\ ToSet(Append(q, f)) = ToSet(q) \union {f}
  <2>1. /\ Append(q, f) \in Seq(Frags) /\ Len(Append(q, f)) = Len(q) + 1
        /\ \A n \in 1..Len(q) : Append(q, f)[n] = q[n]
        /\ Append(q, f)[Len(q) + 1] = f /\ Len(q) \in Nat
    OBVIOUS
  <2>2. DOMAIN q = 1..Len(q) /\ DOMAIN Append(q, f) = 1..(Len(q) + 1)
    OBVIOUS
  <2>3. \A n : n \in 1..(Len(q) + 1) <=> n \in 1..Len(q) \/ n = Len(q) + 1
    BY <2>1
  <2> QED  BY <2>1, <2>2, <2>3 DEF ToSet
<1>4. ASSUME NEW f \in Frags
      PROVE  /\ <<f>> \o q \in Seq(Frags) /\ Len(<<f>> \o q) = Len(q) + 1
             /\ ToSet(<<f>> \o q) = ToSet(q) \union {f}
  <2> DEFINE p == <<f>> \o q
  <2>1. /\ p \in Seq(Frags) /\ Len(p) = Len(q) + 1 /\ Len(q) \in Nat
        /\ p[1] = f /\ \A n \in 1..Len(q) : p[n + 1] = q[n]
    OBVIOUS
  <2>2. DOMAIN q = 1..Len(q) /\ DOMAIN p = 1..(Len(q) + 1)
    OBVIOUS
  <2> HIDE DEF p
  <2>3. \A x \in ToSet(p) : x \in ToSet(q) \/ x = f
    <3>1. \A n \in 1..(Len(q) + 1) : n = 1 \/ (n - 1 \in 1..Len(q) /\ (n - 1) + 1 = n)
      BY <2>1
    <3>2. \A n \in 1..(Len(q) + 1) : p[n] = f \/ \E m \in 1..Len(q) : p[n] = q[m]
      BY <2>1, <3>1
    <3> QED  BY <2>2, <3>2 DEF ToSet
  <2>4. ToSet(q) \subseteq ToSet(p) /\ f \in ToSet(p)
    <3>1. \A n \in 1..Len(q) : n + 1 \in 1..(Len(q) + 1)
      BY <2>1
    <3>2. 1 \in 1..(Len(q) + 1)
      BY <2>1
    <3> QED  BY <2>1, <2>2, <3>1, <3>2 DEF ToSet
  <2>5. ToSet(p) = ToSet(q) \union {f}
    BY <2>3, <2>4
  <2> QED  BY <2>1, <2>5 DEF p
<1> QED  BY <1>1, <1>2, <1>3, <1>4

\* The bounds.
LEMMA Bounds ==
  /\ BatchSize \in Nat \ {0} /\ RetryLimit \in Nat \ {0} /\ OrphanLimit \in Nat \ {0}
  /\ MaxVersion \in Nat \ {0} /\ MaxQueue \in Nat \ {0} /\ MaxTrouble \in Nat
BY EmbeddingAssumption DEF EmbeddingAssumption

LEMMA NoneIsNoRow == None \notin Rows
BY EmbeddingAssumption DEF EmbeddingAssumption, Rows

LEMMA FailsTyped == TypeOK /\ Fails => trouble' \in 0..MaxTrouble
BY Bounds DEF TypeOK, Fails

\* A worker moves on; or tries its row again; or is done with it.
Places == {"idle", "pop", "select", "generate", "write", "bury"}

LEMMA GotoType ==
  ASSUME TypeOK, NEW w \in Workers, NEW step \in Places, Goto(w, step)
  PROVE  /\ pc' \in [Workers -> Places] /\ pc'[w] = step
         /\ \A v \in Workers \ {w} : pc'[v] = pc[v]
BY DEF TypeOK, Goto, Places

LEMMA AttemptType ==
  ASSUME TypeOK, Ready, NEW w \in Workers, pc[w] \in {"generate", "write"}, Attempt(w)
  PROVE  /\ pc' \in [Workers -> Places] /\ pc'[w] \in {"bury", "generate"}
         /\ tries' \in [Workers -> 0..RetryLimit]
         /\ pc'[w] = "generate" => tries'[w] < RetryLimit
         /\ \A v \in Workers \ {w} : pc'[v] = pc[v] /\ tries'[v] = tries[v]
<1>1. tries[w] \in Nat /\ tries[w] < RetryLimit /\ RetryLimit \in Nat
  BY Bounds DEF TypeOK, Ready
<1>2. tries[w] + 1 \in 0..RetryLimit
  BY <1>1
<1>3. /\ tries' \in [Workers -> 0..RetryLimit] /\ tries'[w] = tries[w] + 1
      /\ \A v \in Workers \ {w} : tries'[v] = tries[v]
  BY <1>2 DEF TypeOK, Attempt
<1>4. CASE tries[w] + 1 = RetryLimit
  <2>1. Goto(w, "bury") /\ "bury" \in Places
    BY <1>4 DEF Attempt, Places
  <2> QED  BY <1>3, <2>1, GotoType
<1>5. CASE tries[w] + 1 # RetryLimit
  <2>1. Goto(w, "generate") /\ "generate" \in Places
    BY <1>5 DEF Attempt, Places
  <2>2. tries'[w] < RetryLimit
    BY <1>1, <1>3, <1>5
  <2> QED  BY <1>3, <2>1, <2>2, GotoType
<1> QED  BY <1>4, <1>5

LEMMA NextRowType ==
  ASSUME TypeOK, NEW w \in Workers, NextRow(w)
  PROVE  /\ pc' \in [Workers -> Places] /\ pc'[w] \in {"idle", "generate"}
         /\ pc'[w] = "idle" => rows[w] = {}
         /\ cur' \in [Workers -> Rows \union {None}] /\ cur'[w] = None
         /\ tries' \in [Workers -> 0..RetryLimit] /\ tries'[w] = 0
         /\ \A v \in Workers \ {w} :
              pc'[v] = pc[v] /\ cur'[v] = cur[v] /\ tries'[v] = tries[v]
<1>1. /\ cur' \in [Workers -> Rows \union {None}] /\ cur'[w] = None
      /\ \A v \in Workers \ {w} : cur'[v] = cur[v]
  BY DEF TypeOK, NextRow
<1>2. /\ tries' \in [Workers -> 0..RetryLimit] /\ tries'[w] = 0
      /\ \A v \in Workers \ {w} : tries'[v] = tries[v]
  BY Bounds DEF TypeOK, NextRow
<1>3. CASE rows[w] = {}
  <2>1. Goto(w, "idle") /\ "idle" \in Places
    BY <1>3 DEF NextRow, Places
  <2> QED  BY <1>1, <1>2, <1>3, <2>1, GotoType
<1>4. CASE rows[w] # {}
  <2>1. Goto(w, "generate") /\ "generate" \in Places
    BY <1>4 DEF NextRow, Places
  <2> QED  BY <1>1, <1>2, <2>1, GotoType
<1> QED  BY <1>3, <1>4

LEMMA EmbedInit == Init => EmbedInv
<1> SUFFICES ASSUME Init PROVE EmbedInv
  OBVIOUS
<1> USE DEF Init
<1>1. Live = {} /\ Missing = {}
  BY DEF Live, Missing
<1>2. \A w \in Workers : Held(w) = {}
  BY DEF Held
<1>3. TypeOK
  BY Bounds DEF TypeOK
<1>4. Ready /\ NeverStored /\ HeldFits
  BY <1>2, Bounds DEF Ready, NeverStored, HeldFits
<1>5. EmbeddingFits /\ MissingSeen
  BY <1>1 DEF EmbeddingFits, MissingSeen
<1> QED  BY <1>3, <1>4, <1>5 DEF EmbedInv

-----------------------------------------------------------------------------
(* The writers.                                                             *)

LEMMA StepStore ==
  ASSUME EmbedInv, NEW f \in Frags, Store(f)
  PROVE  EmbedInv'
<1> USE DEF EmbedInv, worker, history
<1>1. /\ topush' = topush \union {f}
      /\ UNCHANGED <<vec, queue, dead, pc, ids, rows, cur, tries, overtaken, adrift, trouble>>
  BY DEF Store
<1>2. /\ row' \in [Frags -> -1..MaxVersion] /\ row'[f] # 0
      /\ \A g \in Frags : row[g] # 0 => row'[g] = row[g]
      /\ \A g \in Frags : row'[g] # row[g] => g = f /\ row[g] = 0
  <2>1. row[f] \in -1..MaxVersion /\ 1 \in -1..MaxVersion
    BY Bounds DEF TypeOK
  <2> QED  BY <2>1 DEF Store, TypeOK
<1>3. \A w \in Workers : Held(w)' = Held(w)
  BY <1>1 DEF Held
<1>4. \A g \in Frags : row[g] \in Int
  BY DEF TypeOK
<1>h. \A w \in Workers : \A r \in Held(w) : r.id \in Frags
  BY DEF Held, TypeOK, Rows
<1>t. TypeOK'
  BY <1>1, <1>2 DEF TypeOK
<1>a. Ready'
  BY <1>1 DEF Ready
<1>b. NeverStored'
  BY <1>1, <1>2, <1>3, <1>h DEF NeverStored
<1>c. HeldFits'
  BY <1>1, <1>2, <1>3, <1>4, <1>h DEF HeldFits, NeverStored, Live
<1>d. EmbeddingFits'
  BY <1>1, <1>2, <1>4 DEF EmbeddingFits, NeverStored, Live
<1>e. MissingSeen'
  <2>1. SUFFICES ASSUME NEW g \in Missing' PROVE Accounted(g)'
    BY DEF MissingSeen
  <2>2. g = f \/ g \in Missing
    BY <1>1, <1>2, <1>4, <2>1 DEF Missing, Live
  <2>3. Accounted(g) => Accounted(g)'
    BY <1>1, <1>3 DEF Accounted
  <2>4. Accounted(f)'
    BY <1>1 DEF Accounted
  <2> QED  BY <2>2, <2>3, <2>4 DEF MissingSeen
<1> QED  BY <1>t, <1>a, <1>b, <1>c, <1>d, <1>e

LEMMA StepPush ==
  ASSUME EmbedInv, NEW f \in Frags, Push(f)
  PROVE  EmbedInv'
<1> USE DEF EmbedInv, table, worker
<1>1. /\ topush' = topush \ {f} /\ f \in topush
      /\ UNCHANGED <<row, vec, dead, pc, ids, rows, cur, tries, overtaken>>
  BY DEF Push
<1>2. /\ queue' \in Seq(Frags) /\ Len(queue') <= MaxQueue /\ ToSet(queue) \subseteq ToSet(queue')
      /\ adrift \subseteq adrift' /\ adrift' \subseteq Frags /\ trouble' \in 0..MaxTrouble
      /\ f \in ToSet(queue') \/ f \in adrift'
  <2>0. queue \in Seq(Frags) /\ Len(queue) <= MaxQueue /\ adrift \subseteq Frags
          /\ trouble \in 0..MaxTrouble /\ Len(queue) \in Nat
    BY DEF TypeOK
  <2>1. CASE /\ Len(queue) < MaxQueue
             /\ queue' \in {<<f>> \o queue, Append(queue, f)}
             /\ UNCHANGED <<adrift, trouble>>
    <3>1. /\ queue' \in Seq(Frags) /\ Len(queue') = Len(queue) + 1
          /\ ToSet(queue') = ToSet(queue) \union {f}
      BY <2>0, <2>1, QueueEnds
    <3> QED  BY <2>0, <2>1, <3>1, Bounds
  <2>2. CASE Fails /\ adrift' = adrift \union {f} /\ UNCHANGED queue
    BY <2>0, <2>2, FailsTyped
  <2> QED  BY <2>1, <2>2 DEF Push
<1>3. \A w \in Workers : Held(w)' = Held(w)
  BY <1>1 DEF Held
<1>t. TypeOK'
  BY <1>1, <1>2 DEF TypeOK
<1>a. Ready' /\ NeverStored' /\ HeldFits' /\ EmbeddingFits'
  BY <1>1, <1>3 DEF Ready, NeverStored, HeldFits, EmbeddingFits, Live
<1>e. MissingSeen'
  <2>1. Missing' = Missing
    BY <1>1 DEF Missing, Live
  <2>2. \A g : Accounted(g) => Accounted(g)'
    BY <1>1, <1>2, <1>3 DEF Accounted
  <2> QED  BY <2>1, <2>2 DEF MissingSeen
<1> QED  BY <1>t, <1>a, <1>e

LEMMA StepAmend ==
  ASSUME EmbedInv, NEW f \in Frags, Amend(f)
  PROVE  EmbedInv'
<1> USE DEF EmbedInv, worker, lists
<1>1. /\ f \in Live /\ row[f] < MaxVersion
      /\ vec' = [vec EXCEPT ![f] = 0] /\ row' = [row EXCEPT ![f] = @ + 1]
      /\ adrift' = adrift \union {f}
      /\ UNCHANGED <<queue, dead, topush, pc, ids, rows, cur, tries, trouble>>
  BY DEF Amend
<1>2. row[f] \in 1..MaxVersion /\ row[f] + 1 \in 1..MaxVersion
  BY <1>1, Bounds DEF TypeOK, Live
<1>3. /\ row' \in [Frags -> -1..MaxVersion] /\ row'[f] = row[f] + 1
      /\ \A g \in Frags \ {f} : row'[g] = row[g]
  BY <1>1, <1>2 DEF TypeOK
<1>4. /\ vec' \in [Frags -> 0..MaxVersion] /\ vec'[f] = 0
      /\ \A g \in Frags \ {f} : vec'[g] = vec[g]
  BY <1>1, Bounds DEF TypeOK
<1>5. /\ overtaken' \subseteq Frags
      /\ \A g \in Frags \ {f} : g \in overtaken' <=> g \in overtaken
      /\ f \notin overtaken' => \A w \in Workers : \A r \in Held(w) : r.id # f
  BY DEF Amend, TypeOK
<1>6. \A w \in Workers : Held(w)' = Held(w)
  BY <1>1 DEF Held
<1>7. Live' = Live
  BY <1>1, <1>2, <1>3 DEF Live
<1>h. \A w \in Workers : \A r \in Held(w) : r.id \in Frags
  BY DEF Held, TypeOK, Rows
<1>t. TypeOK'
  BY <1>1, <1>3, <1>4, <1>5 DEF TypeOK
<1>a. Ready'
  BY <1>1 DEF Ready
<1>b. NeverStored'
  BY <1>2, <1>3, <1>4, <1>6, <1>h DEF NeverStored
<1>c. HeldFits'
  BY <1>3, <1>5, <1>6, <1>7, <1>h DEF HeldFits
<1>d. EmbeddingFits'
  BY <1>3, <1>4, <1>5, <1>7 DEF EmbeddingFits, Live
<1>e. MissingSeen'
  <2>1. \A g \in Missing' : g = f \/ g \in Missing
    BY <1>4, <1>7 DEF Missing, Live
  <2>2. \A g : Accounted(g) => Accounted(g)'
    BY <1>1, <1>6 DEF Accounted
  <2>3. Accounted(f)'
    BY <1>1 DEF Accounted
  <2> QED  BY <2>1, <2>2, <2>3 DEF MissingSeen
<1> QED  BY <1>t, <1>a, <1>b, <1>c, <1>d, <1>e

LEMMA StepForget ==
  ASSUME EmbedInv, NEW f \in Frags, Forget(f)
  PROVE  EmbedInv'
<1> USE DEF EmbedInv, worker, lists, history
<1>1. /\ vec' = [vec EXCEPT ![f] = 0] /\ row' = [row EXCEPT ![f] = -1]
      /\ UNCHANGED <<queue, dead, topush, pc, ids, rows, cur, tries, overtaken, adrift,
                     trouble>>
  BY DEF Forget
<1>2. -1 \in -1..MaxVersion /\ 0 \in 0..MaxVersion
  BY Bounds
<1>3. /\ row' \in [Frags -> -1..MaxVersion] /\ row'[f] = -1
      /\ \A g \in Frags \ {f} : row'[g] = row[g]
  BY <1>1, <1>2 DEF TypeOK
<1>4. /\ vec' \in [Frags -> 0..MaxVersion] /\ vec'[f] = 0
      /\ \A g \in Frags \ {f} : vec'[g] = vec[g]
  BY <1>1, <1>2 DEF TypeOK
<1>6. \A w \in Workers : Held(w)' = Held(w)
  BY <1>1 DEF Held
<1>7. Live' = Live \ {f}
  BY <1>3 DEF Live
<1>h. \A w \in Workers : \A r \in Held(w) : r.id \in Frags
  BY DEF Held, TypeOK, Rows
<1>t. TypeOK'
  BY <1>1, <1>3, <1>4 DEF TypeOK
<1>a. Ready'
  BY <1>1 DEF Ready
<1>b. NeverStored'
  BY <1>3, <1>4, <1>6, <1>h DEF NeverStored
<1>c. HeldFits'
  BY <1>1, <1>3, <1>6, <1>7, <1>h DEF HeldFits
<1>d. EmbeddingFits'
  BY <1>1, <1>3, <1>4, <1>7 DEF EmbeddingFits, Live
<1>e. MissingSeen'
  <2>1. \A g \in Missing' : g \in Missing
    BY <1>4, <1>7 DEF Missing, Live
  <2>2. \A g : Accounted(g) => Accounted(g)'
    BY <1>1, <1>6 DEF Accounted
  <2> QED  BY <2>1, <2>2 DEF MissingSeen
<1> QED  BY <1>t, <1>a, <1>b, <1>c, <1>d, <1>e

-----------------------------------------------------------------------------
(* The workers.                                                             *)

\* A step that leaves the table alone: the rows it puts in a worker's hands are the
\* table's, and no fragment without embedding drops out of sight.
LEMMA HandsOn ==
  ASSUME EmbedInv, UNCHANGED <<row, vec, overtaken>>, TypeOK', Ready',
         \A w \in Workers : \A r \in Held(w)' :
           r \in Held(w) \/ (r.id \in Live /\ r.version = row[r.id]),
         \A f \in Missing : Accounted(f) => Accounted(f)'
  PROVE  EmbedInv'
<1> USE DEF EmbedInv
<1>1. Live' = Live /\ Missing' = Missing
  BY DEF Live, Missing
<1>b. NeverStored'
  <2>1. \A g \in Live : row[g] # 0
    BY DEF Live, TypeOK
  <2> QED  BY <2>1 DEF NeverStored
<1>c. HeldFits' /\ EmbeddingFits'
  BY <1>1 DEF HeldFits, EmbeddingFits
<1>e. MissingSeen'
  BY <1>1 DEF MissingSeen
<1> QED  BY <1>b, <1>c, <1>e

LEMMA StepPoll ==
  ASSUME EmbedInv, Poll
  PROVE  EmbedInv'
<1> USE DEF EmbedInv, table, lists, history
<1>1. /\ pc' \in [Workers -> Places] /\ pc'[Main] = "pop" /\ pc[Main] = "idle"
      /\ \A v \in Workers \ {Main} : pc'[v] = pc[v]
      /\ Main \in Workers
  <2>1. Main \in Workers /\ "pop" \in Places
    BY DEF Workers, Places
  <2> QED  BY <2>1, GotoType DEF Poll
<1>2. UNCHANGED <<row, vec, queue, dead, topush, ids, rows, cur, tries, overtaken,
                  adrift, trouble>>
  BY DEF Poll
<1>3. \A w \in Workers : Held(w)' = Held(w)
  BY <1>2 DEF Held
<1>4. TypeOK'
  BY <1>1, <1>2 DEF TypeOK, Places
<1>5. Ready'
  BY <1>1, <1>2 DEF Ready
<1>6. \A f : Accounted(f) => Accounted(f)'
  BY <1>2, <1>3 DEF Accounted
<1> QED  BY <1>2, <1>3, <1>4, <1>5, <1>6, HandsOn

\* What a step that only concerns w's popped ids has to leave.
LEMMA StepPopOne ==
  ASSUME EmbedInv, NEW w \in Workers, PopOne(w)
  PROVE  EmbedInv'
<1> USE DEF EmbedInv, table
<1>1. /\ pc[w] = "pop"
      /\ UNCHANGED <<row, vec, dead, topush, rows, cur, tries, overtaken>>
  BY DEF PopOne
<1>2. /\ queue \in Seq(Frags) /\ Len(queue) <= MaxQueue /\ Len(queue) \in Nat
      /\ ids \in [Workers -> Seq(Frags)] /\ ids[w] \in Seq(Frags)
      /\ \A v \in Workers : Len(ids[v]) <= BatchSize
      /\ adrift \subseteq Frags /\ trouble \in 0..MaxTrouble
      /\ pc \in [Workers -> Places]
  BY DEF TypeOK, Places
<1>s. "idle" \in Places /\ "select" \in Places
  BY DEF Places
<1>3. /\ queue' \in Seq(Frags) /\ Len(queue') <= MaxQueue
      /\ ids' \in [Workers -> Seq(Frags)] /\ \A v \in Workers : Len(ids'[v]) <= BatchSize
      /\ adrift' \subseteq Frags /\ trouble' \in 0..MaxTrouble
      /\ pc' \in [Workers -> Places] /\ pc'[w] \in {"idle", "pop", "select"}
      /\ \A v \in Workers \ {w} : pc'[v] = pc[v]
      /\ \A v \in Workers \ {w} : ids'[v] = ids[v]
      /\ adrift \subseteq adrift'
      /\ ToSet(queue) \union ToSet(ids[w])
           \subseteq ToSet(queue') \union ToSet(ids'[w]) \union adrift'
  <2>1. CASE /\ queue # <<>> /\ Len(ids[w]) < BatchSize
             /\ ids' = [ids EXCEPT ![w] = Append(@, Last(queue))]
             /\ queue' = Front(queue)
             /\ UNCHANGED <<pc, adrift, trouble>>
    <3>1. /\ Front(queue) \in Seq(Frags) /\ Last(queue) \in Frags
          /\ Len(Front(queue)) < Len(queue)
          /\ ToSet(queue) = ToSet(Front(queue)) \union {Last(queue)}
      BY <1>2, <2>1, QueueEnds
    <3>2. /\ Append(ids[w], Last(queue)) \in Seq(Frags)
          /\ Len(Append(ids[w], Last(queue))) = Len(ids[w]) + 1
          /\ ToSet(Append(ids[w], Last(queue))) = ToSet(ids[w]) \union {Last(queue)}
      BY <1>2, <3>1, QueueEnds
    <3>3. Len(Front(queue)) <= MaxQueue /\ Len(ids[w]) + 1 <= BatchSize
      BY <1>2, <2>1, <3>1, Bounds
    <3>4. /\ ids' \in [Workers -> Seq(Frags)]
          /\ ids'[w] = Append(ids[w], Last(queue))
          /\ \A v \in Workers \ {w} : ids'[v] = ids[v]
      BY <1>2, <2>1, <3>2
    <3>5. \A v \in Workers : Len(ids'[v]) <= BatchSize
      BY <1>2, <3>2, <3>3, <3>4
    <3> QED  BY <1>1, <1>2, <2>1, <3>1, <3>2, <3>3, <3>4, <3>5
  <2>2. CASE /\ queue = <<>> \/ Len(ids[w]) = BatchSize
             /\ Goto(w, IF ids[w] = <<>> THEN "idle" ELSE "select")
             /\ UNCHANGED <<queue, ids, adrift, trouble>>
    <3>1. (IF ids[w] = <<>> THEN "idle" ELSE "select") \in Places \intersect {"idle", "select"}
      BY <1>s
    <3>2. PICK step \in Places \intersect {"idle", "select"} : Goto(w, step)
      BY <2>2, <3>1
    <3> QED  BY <1>2, <2>2, <3>2, GotoType
  <2>3. CASE /\ Fails
             /\ adrift' = adrift \union ToSet(ids[w])
             /\ ids' = [ids EXCEPT ![w] = <<>>]
             /\ Goto(w, "idle")
             /\ UNCHANGED queue
    <3>1. ToSet(ids[w]) \subseteq Frags /\ trouble' \in 0..MaxTrouble
      BY <1>2, <2>3, QueueEnds, FailsTyped
    <3>2. <<>> \in Seq(Frags) /\ Len(<<>>) <= BatchSize
      BY Bounds
    <3>3. /\ ids' \in [Workers -> Seq(Frags)] /\ ids'[w] = <<>>
          /\ \A v \in Workers \ {w} : ids'[v] = ids[v]
      BY <1>2, <2>3, <3>2
    <3>4. \A v \in Workers : Len(ids'[v]) <= BatchSize
      BY <1>2, <3>2, <3>3
    <3>5. /\ pc' \in [Workers -> Places] /\ pc'[w] = "idle"
          /\ \A v \in Workers \ {w} : pc'[v] = pc[v]
      BY <1>s, <2>3, GotoType
    <3> QED  BY <1>2, <2>3, <3>1, <3>3, <3>4, <3>5
  <2> QED  BY <2>1, <2>2, <2>3 DEF PopOne
<1>4. \A v \in Workers : Held(v)' = Held(v)
  BY <1>1 DEF Held
<1>5. TypeOK'
  BY <1>1, <1>3 DEF TypeOK, Places
<1>6. Ready'
  BY <1>1, <1>3 DEF Ready
<1>7. ASSUME NEW f, Accounted(f)  PROVE Accounted(f)'
  <2>1. CASE f \in ToSet(queue) \union ToSet(ids[w])
    BY <1>3, <2>1 DEF Accounted
  <2>2. CASE f \notin ToSet(queue) \union ToSet(ids[w])
    BY <1>1, <1>3, <1>4, <1>7, <2>2 DEF Accounted
  <2> QED  BY <2>1, <2>2
<1> QED  BY <1>1, <1>4, <1>5, <1>6, <1>7, HandsOn

\* Rows of fragments without embedding are taken as the table has them.
LEMMA TakeRows ==
  ASSUME EmbedInv, NEW w \in Workers, NEW S \in SUBSET Missing, Take(w, S),
         cur[w] = None, cur' = cur
  PROVE  /\ rows' \in [Workers -> SUBSET Rows]
         /\ pc' \in [Workers -> Places] /\ pc'[w] \in {"idle", "generate"}
         /\ pc'[w] = "idle" => rows'[w] = {}
         /\ \A v \in Workers \ {w} : pc'[v] = pc[v] /\ rows'[v] = rows[v]
                                     /\ Held(v)' = Held(v)
         /\ \A r \in Held(w)' : r.id \in Live /\ r.version = row[r.id]
         /\ \A f \in S : \E r \in Held(w)' : r.id = f
<1> USE DEF EmbedInv
<1>1. /\ RowsOf(S) \subseteq Rows
      /\ \A r \in RowsOf(S) : r.id \in S /\ r.id \in Live /\ r.version = row[r.id]
      /\ \A f \in S : \E r \in RowsOf(S) : r.id = f
  <2>1. \A f \in S : f \in Frags /\ f \in Live /\ row[f] \in 1..MaxVersion
    BY Bounds DEF Missing, Live, TypeOK
  <2> DEFINE R(f) == [id |-> f, version |-> row[f]]
  <2>2. \A f \in S : R(f) \in Rows /\ R(f).id = f /\ R(f).version = row[f]
    BY <2>1 DEF Rows
  <2>3. RowsOf(S) = {R(f) : f \in S}
    BY DEF RowsOf
  <2> HIDE DEF R
  <2> QED  BY <2>1, <2>2, <2>3
<1>2. /\ rows' \in [Workers -> SUBSET Rows] /\ rows'[w] = RowsOf(S)
      /\ \A v \in Workers \ {w} : rows'[v] = rows[v]
  BY <1>1 DEF Take, TypeOK
<1>3. /\ pc' \in [Workers -> Places] /\ pc'[w] \in {"idle", "generate"}
      /\ pc'[w] = "idle" => S = {}
      /\ \A v \in Workers \ {w} : pc'[v] = pc[v]
  <2>1. "idle" \in Places /\ "generate" \in Places
    BY DEF Places
  <2>2. CASE S = {}
    <3>1. Goto(w, "idle")
      BY <2>2 DEF Take
    <3> QED  BY <2>1, <2>2, <3>1, GotoType
  <2>3. CASE S # {}
    <3>1. Goto(w, "generate")
      BY <2>3 DEF Take
    <3> QED  BY <2>1, <3>1, GotoType
  <2> QED  BY <2>2, <2>3
<1>4. Held(w)' = RowsOf(S) /\ \A v \in Workers \ {w} : Held(v)' = Held(v)
  BY <1>2 DEF Held
<1> QED  BY <1>1, <1>2, <1>3, <1>4

LEMMA StepSelect ==
  ASSUME EmbedInv, NEW w \in Workers, Select(w)
  PROVE  EmbedInv'
<1> USE DEF EmbedInv, table, lists
<1>1. /\ pc[w] = "select" /\ ids' = [ids EXCEPT ![w] = <<>>]
      /\ rows[w] = {} /\ cur[w] = None /\ tries[w] = 0
      /\ UNCHANGED <<row, vec, queue, dead, topush, cur, tries, overtaken>>
  BY DEF Select, Ready
<1>2. ids[w] \in Seq(Frags) /\ ids \in [Workers -> Seq(Frags)]
        /\ adrift \subseteq Frags /\ trouble \in 0..MaxTrouble
  BY DEF TypeOK
<1>3. /\ ids' \in [Workers -> Seq(Frags)] /\ ids'[w] = <<>>
      /\ \A v \in Workers \ {w} : ids'[v] = ids[v]
  BY <1>1, <1>2
<1>4. \A v \in Workers : Len(ids'[v]) <= BatchSize
  <2>1. Len(<<>>) <= BatchSize
    BY Bounds
  <2>2. \A v \in Workers : Len(ids[v]) <= BatchSize
    BY DEF TypeOK
  <2> QED  BY <1>3, <2>1, <2>2
<1>5. Held(w) = {}
  BY <1>1 DEF Held
<1>6. CASE Take(w, ToSet(ids[w]) \intersect Missing) /\ UNCHANGED <<adrift, trouble>>
  <2> DEFINE S == ToSet(ids[w]) \intersect Missing
  <2>1. S \in SUBSET Missing /\ Take(w, S)
    BY <1>6
  <2>2. \A f \in Missing : f \in ToSet(ids[w]) => f \in S
    OBVIOUS
  <2> HIDE DEF S
  <2>3. /\ rows' \in [Workers -> SUBSET Rows]
        /\ pc' \in [Workers -> Places] /\ pc'[w] \in {"idle", "generate"}
        /\ pc'[w] = "idle" => rows'[w] = {}
        /\ \A v \in Workers \ {w} : pc'[v] = pc[v] /\ rows'[v] = rows[v]
                                    /\ Held(v)' = Held(v)
        /\ \A r \in Held(w)' : r.id \in Live /\ r.version = row[r.id]
        /\ \A f \in S : \E r \in Held(w)' : r.id = f
    BY <1>1, <2>1, TakeRows
  <2>4. TypeOK'
    BY <1>1, <1>3, <1>4, <1>6, <2>3 DEF TypeOK, Places
  <2>5. Ready'
    BY <1>1, <2>3, Bounds DEF Ready
  <2>6. ASSUME NEW f \in Missing, Accounted(f)  PROVE Accounted(f)'
    <3>1. CASE f \in ToSet(ids[w])
      BY <2>2, <2>3, <3>1 DEF Accounted
    <3>2. CASE f \notin ToSet(ids[w])
      BY <1>1, <1>3, <1>5, <1>6, <2>3, <2>6, <3>2 DEF Accounted
    <3> QED  BY <3>1, <3>2
  <2> QED  BY <1>1, <2>3, <2>4, <2>5, <2>6, HandsOn
<1>7. CASE /\ Fails
           /\ adrift' = adrift \union ToSet(ids[w])
           /\ Goto(w, "idle")
           /\ UNCHANGED rows
  <2>1. ToSet(ids[w]) \subseteq Frags /\ trouble' \in 0..MaxTrouble
    BY <1>2, <1>7, QueueEnds, FailsTyped
  <2>2. /\ pc' \in [Workers -> Places] /\ pc'[w] = "idle"
        /\ \A v \in Workers \ {w} : pc'[v] = pc[v]
    <3>1. "idle" \in Places
      BY DEF Places
    <3> QED  BY <1>7, <3>1, GotoType
  <2>3. \A v \in Workers : Held(v)' = Held(v)
    BY <1>1, <1>7 DEF Held
  <2>4. TypeOK'
    BY <1>1, <1>2, <1>3, <1>4, <1>7, <2>1, <2>2 DEF TypeOK, Places
  <2>5. Ready'
    BY <1>1, <1>7, <2>2 DEF Ready
  <2>6. ASSUME NEW f, Accounted(f)  PROVE Accounted(f)'
    <3>1. CASE f \in ToSet(ids[w])
      BY <1>7, <3>1 DEF Accounted
    <3>2. CASE f \notin ToSet(ids[w])
      BY <1>1, <1>3, <1>7, <2>3, <2>6, <3>2 DEF Accounted
    <3> QED  BY <3>1, <3>2
  <2> QED  BY <1>1, <2>3, <2>4, <2>5, <2>6, HandsOn
<1> QED  BY <1>6, <1>7 DEF Select

LEMMA StepOrphans ==
  ASSUME EmbedInv, NEW w \in Workers, Orphans(w)
  PROVE  EmbedInv'
<1> USE DEF EmbedInv, table, lists, history
<1>1. /\ pc[w] = "idle" /\ rows[w] = {} /\ cur[w] = None /\ tries[w] = 0
      /\ UNCHANGED <<row, vec, queue, dead, topush, ids, cur, tries, overtaken, adrift,
                     trouble>>
  BY DEF Orphans, Ready
<1>2. PICK S \in SUBSET Missing : Take(w, S)
  BY DEF Orphans, TopRanked
<1>3. /\ rows' \in [Workers -> SUBSET Rows]
      /\ pc' \in [Workers -> Places] /\ pc'[w] \in {"idle", "generate"}
      /\ pc'[w] = "idle" => rows'[w] = {}
      /\ \A v \in Workers \ {w} : pc'[v] = pc[v] /\ rows'[v] = rows[v]
                                  /\ Held(v)' = Held(v)
      /\ \A r \in Held(w)' : r.id \in Live /\ r.version = row[r.id]
  BY <1>1, <1>2, TakeRows
<1>4. TypeOK'
  BY <1>1, <1>3 DEF TypeOK, Places
<1>5. Ready'
  BY <1>1, <1>3, Bounds DEF Ready
<1>6. \A f : Accounted(f) => Accounted(f)'
  <2>1. Held(w) = {}
    BY <1>1 DEF Held
  <2> QED  BY <1>1, <1>3, <2>1 DEF Accounted
<1> QED  BY <1>1, <1>3, <1>4, <1>5, <1>6, HandsOn

LEMMA StepGenerate ==
  ASSUME EmbedInv, NEW w \in Workers, Generate(w)
  PROVE  EmbedInv'
<1> USE DEF EmbedInv, table, lists, history
<1>1. PICK r \in IF cur[w] = None THEN rows[w] ELSE {cur[w]} :
         /\ cur' = [cur EXCEPT ![w] = r]
         /\ rows' = [rows EXCEPT ![w] = @ \ {r}]
         /\ \/ r.id \notin Poison /\ Goto(w, "write") /\ UNCHANGED <<tries, trouble>>
            \/ r.id \in Poison /\ Attempt(w) /\ UNCHANGED trouble
            \/ r.id \notin Poison /\ Attempt(w) /\ Fails
  BY DEF Generate
<1>2. /\ pc[w] = "generate" /\ tries[w] < RetryLimit
      /\ UNCHANGED <<row, vec, queue, dead, topush, ids, overtaken, adrift>>
  BY DEF Generate, Ready
<1>3. r \in Rows /\ r # None
  <2>1. rows[w] \subseteq Rows /\ cur[w] \in Rows \union {None}
    BY DEF TypeOK
  <2>2. r \in Rows
    BY <1>1, <2>1
  <2>3. \A x \in Rows : x.id \in Frags
    BY DEF Rows
  <2>4. CASE cur[w] = None
    BY <1>1, <2>1, <2>2, <2>4, NoneIsNoRow
  <2> QED  BY <1>1, <2>1, <2>2, NoneIsNoRow
<1>4. /\ cur' \in [Workers -> Rows \union {None}] /\ cur'[w] = r
      /\ rows' \in [Workers -> SUBSET Rows] /\ rows'[w] = rows[w] \ {r}
      /\ \A v \in Workers \ {w} : cur'[v] = cur[v] /\ rows'[v] = rows[v]
  BY <1>1, <1>3 DEF TypeOK
<1>5. \A v \in Workers : Held(v)' = Held(v)
  <2>1. Held(w)' = Held(w)
    BY <1>1, <1>3, <1>4 DEF Held
  <2>2. \A v \in Workers \ {w} : Held(v)' = Held(v)
    BY <1>4 DEF Held
  <2> QED  BY <2>1, <2>2
<1>6. /\ pc' \in [Workers -> Places] /\ pc'[w] \in {"write", "generate", "bury"}
      /\ tries' \in [Workers -> 0..RetryLimit] /\ trouble' \in 0..MaxTrouble
      /\ pc'[w] \in {"write", "generate"} => tries'[w] < RetryLimit
      /\ \A v \in Workers \ {w} : pc'[v] = pc[v] /\ tries'[v] = tries[v]
  <2>1. CASE Goto(w, "write") /\ UNCHANGED <<tries, trouble>>
    <3>1. "write" \in Places
      BY DEF Places
    <3> QED  BY <1>2, <2>1, <3>1, GotoType DEF TypeOK
  <2>2. CASE Attempt(w) /\ (Fails \/ UNCHANGED trouble)
    <3>1. trouble' \in 0..MaxTrouble
      BY <2>2, FailsTyped DEF TypeOK
    <3> QED  BY <1>2, <2>2, <3>1, AttemptType
  <2> QED  BY <1>1, <2>1, <2>2
<1>7. TypeOK'
  BY <1>2, <1>3, <1>4, <1>6 DEF TypeOK, Places
<1>8. Ready'
  BY <1>2, <1>4, <1>6 DEF Ready
<1>9. \A f : Accounted(f) => Accounted(f)'
  BY <1>2, <1>5 DEF Accounted
<1> QED  BY <1>2, <1>5, <1>7, <1>8, <1>9, HandsOn

LEMMA StepBury ==
  ASSUME EmbedInv, NEW w \in Workers, Bury(w)
  PROVE  EmbedInv'
<1> USE DEF EmbedInv, table
<1>1. /\ pc[w] = "bury" /\ NextRow(w)
      /\ UNCHANGED <<row, vec, queue, topush, ids, rows, overtaken>>
  BY DEF Bury
<1>2. cur[w] \in Rows /\ cur[w].id \in Frags /\ Held(w) = rows[w] \union {cur[w]}
  BY <1>1 DEF TypeOK, Rows, Held
<1>3. /\ dead \subseteq dead' /\ adrift \subseteq adrift'
      /\ cur[w].id \in dead' \union adrift'
      /\ dead' \subseteq Frags /\ adrift' \subseteq Frags /\ trouble' \in 0..MaxTrouble
  BY <1>2, FailsTyped DEF Bury, TypeOK
<1>4. /\ pc' \in [Workers -> Places] /\ pc'[w] \in {"idle", "generate"}
      /\ pc'[w] = "idle" => rows[w] = {}
      /\ cur' \in [Workers -> Rows \union {None}] /\ cur'[w] = None
      /\ tries' \in [Workers -> 0..RetryLimit] /\ tries'[w] = 0
      /\ \A v \in Workers \ {w} :
           pc'[v] = pc[v] /\ cur'[v] = cur[v] /\ tries'[v] = tries[v]
  BY <1>1, NextRowType
<1>5. Held(w)' = rows[w] /\ \A v \in Workers \ {w} : Held(v)' = Held(v)
  BY <1>1, <1>4 DEF Held
<1>6. TypeOK'
  BY <1>1, <1>3, <1>4 DEF TypeOK, Places
<1>7. Ready'
  BY <1>1, <1>4, Bounds DEF Ready
<1>8. \A v \in Workers : \A r \in Held(v)' : r \in Held(v)
  BY <1>2, <1>5
<1>9. ASSUME NEW f, Accounted(f)  PROVE Accounted(f)'
  <2>1. CASE f = cur[w].id
    BY <1>3, <2>1 DEF Accounted
  <2>2. CASE f # cur[w].id
    BY <1>1, <1>2, <1>3, <1>5, <1>9, <2>2 DEF Accounted
  <2> QED  BY <2>1, <2>2
<1> QED  BY <1>1, <1>6, <1>7, <1>8, <1>9, HandsOn

LEMMA StepRestart ==
  ASSUME EmbedInv, Restart
  PROVE  EmbedInv'
<1> USE DEF EmbedInv, table
<1>1. /\ adrift' = adrift \union topush
                     \union UNION {ToSet(ids[w]) \union {r.id : r \in Held(w)} : w \in Workers}
      /\ topush' = {}
      /\ pc' = [w \in Workers |-> "idle"] /\ ids' = [w \in Workers |-> <<>>]
      /\ rows' = [w \in Workers |-> {}] /\ cur' = [w \in Workers |-> None]
      /\ tries' = [w \in Workers |-> 0] /\ trouble' \in 0..MaxTrouble
      /\ UNCHANGED <<row, vec, queue, dead, overtaken>>
  BY FailsTyped DEF Restart
<1>2. \A f : Accounted(f) => f \in ToSet(queue) \/ f \in dead \/ f \in adrift'
  BY <1>1 DEF Accounted
<1>3. adrift' \subseteq Frags
  <2>1. \A w \in Workers : ToSet(ids[w]) \subseteq Frags
    BY QueueEnds DEF TypeOK
  <2>2. \A w \in Workers : \A r \in Held(w) : r.id \in Frags
    BY DEF Held, TypeOK, Rows
  <2>3. adrift \subseteq Frags /\ topush \subseteq Frags
    BY DEF TypeOK
  <2> QED  BY <1>1, <2>1, <2>2, <2>3
<1>4. TypeOK'
  <2>1. <<>> \in Seq(Frags) /\ Len(<<>>) <= BatchSize /\ 0 \in 0..RetryLimit
    BY Bounds
  <2>2. /\ pc' \in [Workers -> {"idle", "pop", "select", "generate", "write", "bury"}]
        /\ \A w \in Workers : pc'[w] = "idle"
    BY <1>1
  <2>3. /\ ids' \in [Workers -> Seq(Frags)] /\ \A w \in Workers : Len(ids'[w]) <= BatchSize
        /\ tries' \in [Workers -> 0..RetryLimit]
        /\ rows' \in [Workers -> SUBSET Rows] /\ cur' \in [Workers -> Rows \union {None}]
    BY <1>1, <2>1
  <2> QED  BY <1>1, <1>3, <2>2, <2>3 DEF TypeOK
<1>5. Ready'
  BY <1>1 DEF Ready
<1>6. \A w \in Workers : Held(w)' = {}
  BY <1>1 DEF Held
<1>7. \A f : Accounted(f) => Accounted(f)'
  BY <1>1, <1>2 DEF Accounted
<1> QED  BY <1>1, <1>4, <1>5, <1>6, <1>7, HandsOn

\* The vector is written to the row whatever the row's text is by now; the text it
\* was computed from is the row's unless amend overtook it.
LEMMA StepWrite ==
  ASSUME EmbedInv, NEW w \in Workers, Write(w)
  PROVE  EmbedInv'
<1> USE DEF EmbedInv, lists, history
<1>1. /\ pc[w] = "write"
      /\ UNCHANGED <<row, queue, dead, topush, ids, rows, overtaken, adrift>>
  BY DEF Write
<1>2. /\ cur[w] \in Rows /\ cur[w].id \in Frags /\ cur[w].version \in 1..MaxVersion
      /\ Held(w) = rows[w] \union {cur[w]}
  BY <1>1 DEF TypeOK, Rows, Held
<1>3. Live' = Live
  BY <1>1 DEF Live
<1>4. CASE Attempt(w) /\ Fails /\ UNCHANGED <<vec, cur>>
  <2>1. /\ pc' \in [Workers -> Places] /\ pc'[w] \in {"bury", "generate"}
        /\ tries' \in [Workers -> 0..RetryLimit] /\ trouble' \in 0..MaxTrouble
        /\ pc'[w] = "generate" => tries'[w] < RetryLimit
        /\ \A v \in Workers \ {w} : pc'[v] = pc[v] /\ tries'[v] = tries[v]
    BY <1>1, <1>4, AttemptType, FailsTyped
  <2>2. TypeOK'
    BY <1>1, <1>2, <1>4, <2>1 DEF TypeOK, Places
  <2>3. Ready'
    BY <1>1, <1>4, <2>1 DEF Ready
  <2>4. \A v \in Workers : Held(v)' = Held(v)
    BY <1>1, <1>4 DEF Held
  <2>5. \A f : Accounted(f) => Accounted(f)'
    BY <1>1, <2>4 DEF Accounted
  <2> QED  BY <1>1, <1>4, <2>2, <2>3, <2>4, <2>5, HandsOn
<1>5. CASE /\ LET r == cur[w]
              IN vec' = IF r.id \in Live THEN [vec EXCEPT ![r.id] = r.version] ELSE vec
           /\ NextRow(w)
           /\ UNCHANGED trouble
  <2>r. PICK r \in Rows : r = cur[w]
    BY <1>2
  <2>1. /\ vec' \in [Frags -> 0..MaxVersion]
        /\ \A f \in Frags \ {r.id} : vec'[f] = vec[f]
        /\ vec'[r.id] = IF r.id \in Live THEN r.version ELSE vec[r.id]
    <3>1. r.id \in Frags /\ r.version \in 0..MaxVersion /\ vec \in [Frags -> 0..MaxVersion]
      BY <1>2, <2>r, Bounds DEF TypeOK
    <3>2. vec' = IF r.id \in Live THEN [vec EXCEPT ![r.id] = r.version] ELSE vec
      BY <1>5, <2>r
    <3> QED  BY <3>1, <3>2
  <2>2. /\ pc' \in [Workers -> Places] /\ pc'[w] \in {"idle", "generate"}
        /\ pc'[w] = "idle" => rows[w] = {}
        /\ cur' \in [Workers -> Rows \union {None}] /\ cur'[w] = None
        /\ tries' \in [Workers -> 0..RetryLimit] /\ tries'[w] = 0
        /\ \A v \in Workers \ {w} :
             pc'[v] = pc[v] /\ cur'[v] = cur[v] /\ tries'[v] = tries[v]
    BY <1>5, NextRowType
  <2>3. Held(w)' = rows[w] /\ \A v \in Workers \ {w} : Held(v)' = Held(v)
    BY <1>1, <2>2 DEF Held
  <2>4. \A v \in Workers : \A x \in Held(v)' : x \in Held(v)
    BY <1>2, <2>3
  <2>t. TypeOK'
    BY <1>1, <1>5, <2>1, <2>2 DEF TypeOK, Places
  <2>a. Ready'
    BY <1>1, <2>2, Bounds DEF Ready
  <2>b. NeverStored'
    <3>1. \A f \in Live : row[f] # 0 /\ f \in Frags
      BY DEF Live, TypeOK
    <3> QED  BY <1>1, <2>1, <2>4, <3>1 DEF NeverStored
  <2>c. HeldFits'
    BY <1>1, <1>3, <2>4 DEF HeldFits
  <2>d. EmbeddingFits'
    <3>1. r.id \in Live \ overtaken => r.version = row[r.id]
      BY <1>2, <2>r DEF HeldFits
    <3>2. \A f \in Live : f \in Frags
      BY DEF Live
    <3> QED  BY <1>1, <1>3, <2>1, <3>1, <3>2 DEF EmbeddingFits
  <2>e. MissingSeen'
    <3>1. SUFFICES ASSUME NEW f \in Missing' PROVE Accounted(f)'
      BY DEF MissingSeen
    <3>2. f \in Live /\ f \in Frags /\ vec'[f] = 0
      BY <1>3, <3>1 DEF Missing, Live
    <3>3. f # r.id /\ f \in Missing
      BY <1>2, <2>1, <2>r, <3>2 DEF Missing
    <3>4. Accounted(f)
      BY <3>3 DEF MissingSeen
    <3> QED  BY <1>1, <1>2, <2>r, <2>3, <3>3, <3>4 DEF Accounted
  <2> QED  BY <2>t, <2>a, <2>b, <2>c, <2>d, <2>e
<1> QED  BY <1>4, <1>5 DEF Write

-----------------------------------------------------------------------------
(* The theorems.                                                            *)

LEMMA EmbedStep == EmbedInv /\ [Next]_vars => EmbedInv'
<1> SUFFICES ASSUME EmbedInv, [Next]_vars PROVE EmbedInv'
  OBVIOUS
<1>1. CASE UNCHANGED vars
  <2> USE DEF vars, table, lists, worker, history, EmbedInv
  <2>1. \A w \in Workers : Held(w)' = Held(w)
    BY <1>1 DEF Held
  <2>2. TypeOK' /\ Ready'
    BY <1>1 DEF TypeOK, Ready
  <2>3. \A f : Accounted(f) => Accounted(f)'
    BY <1>1, <2>1 DEF Accounted
  <2> QED  BY <1>1, <2>1, <2>2, <2>3, HandsOn
<1>2. ASSUME NEW f \in Frags, Store(f) \/ Push(f) \/ Amend(f) \/ Forget(f)
      PROVE  EmbedInv'
  BY <1>2, StepStore, StepPush, StepAmend, StepForget
<1>3. ASSUME NEW w \in Workers, Step(w) \/ Orphans(w)
      PROVE  EmbedInv'
  BY <1>3, StepPopOne, StepSelect, StepGenerate, StepWrite, StepBury, StepOrphans
     DEF Step
<1>4. CASE Poll \/ Restart
  BY <1>4, StepPoll, StepRestart
<1> QED  BY <1>1, <1>2, <1>3, <1>4 DEF Next

LEMMA EmbedInvHolds == Spec => []EmbedInv
<1> QED  BY EmbedInit, EmbedStep, PTL DEF Spec

\* The vector of a fragment is that of its present text (amend clears the vector in
\* the statement that changes the text), unless a worker held the older text when
\* amend came.
THEOREM VectorFitsText == Spec => []EmbeddingFits
<1>1. EmbedInv => EmbeddingFits
  BY DEF EmbedInv
<1> QED  BY <1>1, EmbedInvHolds, PTL

\* No fragment without embedding is out of everybody's sight: it is to be pushed,
\* queued, in a worker's hands, dead-lettered, or one of those the orphan pass is for.
THEOREM NoneOutOfSight == Spec => []NoneLost
<1>1. EmbedInv => NoneLost
  <2>1. ASSUME NEW f, Accounted(f)  PROVE f \in Waiting \union adrift
    BY <2>1 DEF Accounted, Waiting
  <2> QED  BY <2>1 DEF EmbedInv, NoneLost, MissingAccounted, MissingSeen
<1> QED  BY <1>1, EmbedInvHolds, PTL
=============================================================================
