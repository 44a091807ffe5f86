----------------------- MODULE ConsolidationCycleProofs ---------------------
(***************************************************************************)
(* Theorems about ConsolidationCycle, for any texts, answers, batches,     *)
(* overlapping cycles, writes beside them, failures and restarts.          *)
(*                                                                         *)
(* CycleInv is inductive. It says what a cycle's list and parts stand for  *)
(* while the table changes under it. Grows is what every step does to the  *)
(* table and to the histories, as far as a cycle that does not take the    *)
(* step can tell.                                                          *)
(***************************************************************************)
EXTENDS ConsolidationCycle, FiniteSetTheorems, SequenceTheorems, TLAPS

Candidates == [id : Ids, text : Long]

WorkTypes ==
  /\ pc \in [Cycles -> Labels]
  /\ list \in [Cycles -> Seq(Candidates)]
  /\ items \in [Cycles -> Seq(Texts \union {Blank})]
  /\ made \in [Cycles -> Seq(Ids)]
  /\ todo \in [Cycles -> Seq(Ids \X Ids)]
  /\ said \in [Cycles -> SUBSET Texts]
  /\ seen \in [Cycles -> Nat \X Nat]
  /\ fb \in Nat
  /\ split \in [Ids -> [times : Nat, texts : SUBSET Texts, parts : SUBSET Ids]]
  /\ overtaken \subseteq Ids
  /\ ops \in 0..MaxOps

\* The ids do not run out: a new row has a text that no other has, and a text is
\* given up only by a write of a client.
EnoughIds == given <= Cardinality(Stored) + ops

\* No row has been replaced that was not given out, or that is not retired.
SplitKnown ==
  /\ \A i \in Ids : i > given \/ i \in live => split[i].times = 0
  /\ \A i \in Ids, p \in Ids : p \in split[i].parts => p <= given

\* What a cycle has read as candidates: no row twice, and each as it was then,
\* neither replaced nor an anchor, unless it is known to have changed.
Reading(c) ==
  /\ \A n \in 1..Len(list[c]) :
       /\ list[c][n].id <= given
       /\ list[c][n].id \notin overtaken =>
            split[list[c][n].id].times = 0 /\ list[c][n].id \notin anchored
  /\ \A m, n \in 1..Len(list[c]) : list[c][m].id = list[c][n].id => m = n

\* The parts lead to the whole, or will.
Leading(c) ==
  \A i, p \in Ids :
    i = list[c][1].id /\ i \notin unlinked /\ p \in Items(made[c]) /\ {i, p} \subseteq Stored
      => <<p, i>> \in links \union Items(todo[c])

\* What the answer gave is stored, or will be.
Splitting(c) ==
  /\ pc[c] \notin {"insert", "link"} =>
       items[c] = <<>> /\ made[c] = <<>> /\ todo[c] = <<>> /\ said[c] = {}
  /\ pc[c] = "link" => items[c] = <<>> /\ made[c] # <<>> /\ Leading(c)
  /\ said[c] \subseteq Items(items[c]) \union StoredTexts \union removed
  /\ Items(items[c]) \subseteq said[c] \union {Blank}
  /\ made[c] # <<>> => said[c] # {}
  /\ \A p \in Items(made[c]) : p <= given

\* What the report covers, once it is written.
Reporting(c) ==
  /\ pc[c] \in {"file", "mark"} => 1..seen[c][1] \subseteq counted \union between
  /\ pc[c] = "mark" => (seen[c][1] + 1)..seen[c][2] \subseteq counted

CycleInv ==
  /\ TypeOK /\ WorkTypes /\ EnoughIds /\ SplitKnown
  /\ \A c \in Cycles : Reading(c) /\ Splitting(c) /\ Reporting(c)
  /\ NoTextLost /\ PartsLinked /\ ReplacedOnce /\ ReportsCover
-----------------------------------------------------------------------------
(* Sequences.                                                                *)

LEMMA ItemsEmpty == Items(<<>>) = {}
  BY DEF Items

LEMMA ItemsTail ==
  ASSUME NEW S, NEW s \in Seq(S), s # <<>>
  PROVE  /\ Head(s) \in S /\ Tail(s) \in Seq(S) /\ Head(s) = s[1]
         /\ Len(s) \in Nat \ {0} /\ Len(Tail(s)) = Len(s) - 1
         /\ \A n \in 1..Len(Tail(s)) : Tail(s)[n] = s[n + 1]
         /\ Items(s) = Items(Tail(s)) \union {Head(s)}
<1>1. /\ Head(s) \in S /\ Tail(s) \in Seq(S) /\ Head(s) = s[1]
      /\ Len(s) \in Nat \ {0} /\ Len(Tail(s)) = Len(s) - 1
      /\ \A n \in 1..Len(Tail(s)) : Tail(s)[n] = s[n + 1]
  BY HeadTailProperties, EmptySeq
<1>2. DOMAIN s = 1..Len(s) /\ DOMAIN Tail(s) = 1..Len(Tail(s))
  BY <1>1, LenProperties
<1>3. ASSUME NEW n \in 1..Len(s)  PROVE s[n] \in Items(Tail(s)) \union {Head(s)}
  <2>1. CASE n = 1
    BY <1>1, <2>1
  <2>2. CASE n # 1
    <3>1. n - 1 \in 1..Len(Tail(s)) /\ (n - 1) + 1 = n
      BY <1>1, <2>2
    <3>2. Tail(s)[n - 1] = s[n]
      BY <1>1, <3>1
    <3>3. QED
      BY <1>2, <3>1, <3>2 DEF Items
  <2>3. QED
    BY <2>1, <2>2
<1>4. ASSUME NEW n \in 1..Len(Tail(s))  PROVE Tail(s)[n] \in Items(s)
  BY <1>1, <1>2 DEF Items
<1>5. 1 \in DOMAIN s
  BY <1>1, <1>2
<1>6. QED
  BY <1>1, <1>2, <1>3, <1>4, <1>5 DEF Items

LEMMA ItemsAppend ==
  ASSUME NEW S, NEW s \in Seq(S), NEW e \in S
  PROVE  /\ Append(s, e) \in Seq(S) /\ Append(s, e) # <<>>
         /\ Items(Append(s, e)) = Items(s) \union {e}
<1>1. /\ Append(s, e) \in Seq(S) /\ Len(Append(s, e)) = Len(s) + 1 /\ Len(s) \in Nat
      /\ Append(s, e)[Len(s) + 1] = e
      /\ \A n \in 1..Len(s) : Append(s, e)[n] = s[n]
  OBVIOUS
<1>2. DOMAIN s = 1..Len(s) /\ DOMAIN Append(s, e) = 1..(Len(s) + 1)
  BY <1>1, LenProperties
<1>3. 1..(Len(s) + 1) = 1..Len(s) \union {Len(s) + 1}
  BY <1>1
<1>4. Items(Append(s, e)) = Items(s) \union {e}
  BY <1>1, <1>2, <1>3 DEF Items
<1>5. QED
  BY <1>1, <1>4

LEMMA ItemsType ==
  ASSUME NEW S, NEW s \in Seq(S)
  PROVE  /\ Items(s) \subseteq S /\ (Len(s) = 0 <=> s = <<>>) /\ Len(s) \in Nat
         /\ Items(s) = {s[n] : n \in 1..Len(s)}
         /\ s = <<>> <=> Items(s) = {}
<1>1. DOMAIN s = 1..Len(s) /\ Len(s) \in Nat /\ \A n \in 1..Len(s) : s[n] \in S
  BY LenProperties, ElementOfSeq
<1>2. Len(s) = 0 <=> s = <<>>
  BY EmptySeq, <1>1
<1>3. Len(s) # 0 => 1 \in 1..Len(s)
  BY <1>1
<1>4. Items(s) = {s[n] : n \in 1..Len(s)}
  BY <1>1 DEF Items
<1>5. Items(s) \subseteq S
  BY <1>1, <1>4
<1>6. s = <<>> <=> Items(s) = {}
  BY <1>2, <1>3, <1>4, ItemsEmpty
<1>7. QED
  BY <1>1, <1>2, <1>4, <1>5, <1>6

-----------------------------------------------------------------------------
(* What a step changes for those that do not take it.                        *)

Same(d) ==
  /\ pc'[d] = pc[d] /\ list'[d] = list[d] /\ items'[d] = items[d] /\ made'[d] = made[d]
  /\ todo'[d] = todo[d] /\ said'[d] = said[d] /\ seen'[d] = seen[d]

Undisturbed(d) ==
  /\ Same(d)
  /\ \A n \in 1..Len(list[d]) :
       list[d][n].id \notin overtaken' =>
         /\ split'[list[d][n].id].times = split[list[d][n].id].times
         /\ list[d][n].id \in anchored' => list[d][n].id \in anchored

Grows ==
  /\ given' \in Nat /\ given <= given'
  /\ \A i \in Ids : i <= given /\ i \in Stored' => i \in Stored
  /\ \A i \in live' : i \in live \/ i > given
  /\ StoredTexts \union removed \subseteq StoredTexts' \union removed'
  /\ \A i, j \in Stored' : <<i, j>> \in links => <<i, j>> \in links'
  /\ overtaken \subseteq overtaken' /\ unlinked \subseteq unlinked'
  /\ counted \subseteq counted' /\ between \subseteq between'

LEMMA OthersKept ==
  ASSUME CycleInv, Grows, NEW d \in Cycles, Undisturbed(d)
  PROVE  Reading(d)' /\ Splitting(d)' /\ Reporting(d)'
<1>1. Reading(d) /\ Splitting(d) /\ Reporting(d) /\ Same(d)
  BY DEF CycleInv, Undisturbed
<1>2. /\ list[d] \in Seq(Candidates) /\ made[d] \in Seq(Ids) /\ given \in Nat
      /\ Len(list[d]) \in Nat /\ \A n \in 1..Len(list[d]) : list[d][n].id \in Ids
      /\ Items(made[d]) \subseteq Ids
  <2>1. list[d] \in Seq(Candidates) /\ made[d] \in Seq(Ids) /\ given \in Nat
    BY DEF CycleInv, WorkTypes, TypeOK
  <2>2. Len(list[d]) \in Nat /\ \A n \in 1..Len(list[d]) : list[d][n] \in Candidates
    BY <2>1, ElementOfSeq, LenProperties
  <2>3. Items(made[d]) \subseteq Ids
    BY <2>1, ItemsType
  <2>4. QED
    BY <2>1, <2>2, <2>3 DEF Candidates
<1>3. Reading(d)'
  <2>1. ASSUME NEW n \in 1..Len(list[d])
        PROVE  /\ list[d][n].id <= given'
               /\ list[d][n].id \notin overtaken' =>
                    split'[list[d][n].id].times = 0 /\ list[d][n].id \notin anchored'
    <3>1. PICK i \in Ids : i = list[d][n].id
      BY <1>2
    <3>2. /\ i <= given /\ i \in Nat
          /\ i \notin overtaken => split[i].times = 0 /\ i \notin anchored
          /\ i \notin overtaken' => split'[i].times = split[i].times
          /\ i \notin overtaken' => (i \in anchored' => i \in anchored)
      BY <1>1, <3>1 DEF Reading, Undisturbed, Ids
    <3>3. QED
      BY <1>2, <3>1, <3>2 DEF Grows
  <2>2. QED
    BY <1>1, <2>1 DEF Reading, Same
<1>4. pc[d] = "link" => Leading(d)'
  <2> SUFFICES ASSUME pc[d] = "link", NEW i \in Ids, NEW p \in Ids,
                      i = list[d][1].id, i \notin unlinked', p \in Items(made[d]),
                      {i, p} \subseteq Stored'
               PROVE  <<p, i>> \in links' \union Items(todo[d])
    BY <1>1 DEF Leading, Same
  <2>0. 1 \in 1..Len(list[d])
    <3>1. list[d] # <<>>
      BY DEF CycleInv, TypeOK
    <3>2. QED
      BY <1>2, <3>1, ItemsType
  <2>1. i <= given /\ p <= given
    BY <1>1, <1>2, <2>0 DEF Reading, Splitting
  <2>2. {i, p} \subseteq Stored /\ i \notin unlinked
    BY <2>1 DEF Grows
  <2>3. <<p, i>> \in links \union Items(todo[d])
    BY <1>1, <2>2 DEF Splitting, Leading
  <2>4. QED
    BY <2>3 DEF Grows
<1>5. Splitting(d)'
  <2>1. /\ said[d] \subseteq Items(items[d]) \union StoredTexts' \union removed'
        /\ Items(items[d]) \subseteq said[d] \union {Blank}
        /\ \A p \in Items(made[d]) : p <= given'
    <3>1. \A p \in Items(made[d]) : p <= given /\ p \in Nat
      BY <1>1, <1>2 DEF Splitting, Ids
    <3>2. \A p \in Items(made[d]) : p <= given'
      BY <1>2, <3>1 DEF Grows
    <3>3. QED
      BY <1>1, <3>2 DEF Splitting, Grows
  <2>2. QED
    BY <1>1, <1>4, <2>1 DEF Splitting, Same
<1>6. Reporting(d)'
  BY <1>1 DEF Reporting, Same, Grows
<1>7. QED
  BY <1>3, <1>5, <1>6

LEMMA HistoryKept ==
  ASSUME CycleInv, Grows, split' = split
  PROVE  SplitKnown' /\ NoTextLost' /\ PartsLinked' /\ ReplacedOnce'
<1>1. Replaced' = Replaced
  BY DEF Replaced
<1>2. SplitKnown'
  <2>1. \A i \in Ids : i \in Nat
    BY DEF Ids
  <2>2. QED
    BY <2>1 DEF CycleInv, TypeOK, SplitKnown, Grows
<1>3. NoTextLost'
  BY <1>1 DEF CycleInv, NoTextLost, Grows
<1>4. PartsLinked'
  <2> SUFFICES ASSUME NEW i \in (Replaced \intersect Stored') \ (overtaken' \union unlinked'),
                      NEW p \in split[i].parts \intersect Stored'
               PROVE  <<p, i>> \in links'
    BY <1>1 DEF PartsLinked
  <2>1. i \in Ids /\ p \in Ids /\ i \in Nat /\ p \in Nat /\ given \in Nat
    BY DEF Stored, Ids, CycleInv, TypeOK
  <2>2. i <= given
    BY <2>1 DEF Replaced, CycleInv, SplitKnown
  <2>3. p <= given
    BY <2>1 DEF CycleInv, SplitKnown
  <2>4. i \in Stored /\ p \in Stored /\ i \notin overtaken \union unlinked
    BY <2>1, <2>2, <2>3 DEF Grows
  <2>5. <<p, i>> \in links
    BY <2>4 DEF CycleInv, PartsLinked
  <2>6. QED
    BY <2>5 DEF Grows
<1>5. ReplacedOnce'
  BY <1>1 DEF CycleInv, ReplacedOnce, Grows
<1>6. QED
  BY <1>2, <1>3, <1>4, <1>5

\* What is left to show of a step that replaces nothing: the types, and the parts of
\* the invariant for the cycles M that take it.
LEMMA Assembled ==
  ASSUME CycleInv, TypeOK', WorkTypes', EnoughIds', ReportsCover', Grows, split' = split,
         NEW M, \A d \in Cycles \ M : Undisturbed(d),
         \A d \in Cycles \intersect M : Reading(d)' /\ Splitting(d)' /\ Reporting(d)'
  PROVE  CycleInv'
<1>1. \A d \in Cycles \ M : Reading(d)' /\ Splitting(d)' /\ Reporting(d)'
  BY OthersKept
<1>2. QED
  BY <1>1, HistoryKept DEF CycleInv

-----------------------------------------------------------------------------
LEMMA IdsBound == Cardinality(Texts) \in Nat /\ MaxOps \in Nat /\ Ids \subseteq Nat \ {0}
  BY CycleAssumption, FS_CardinalityType DEF Ids

LEMMA InitInv == Init => CycleInv
<1> SUFFICES ASSUME Init  PROVE CycleInv
  OBVIOUS
<1>1. PICK n : n = Len(Initial)
  OBVIOUS
<1>2. n \in Nat /\ \A i \in 1..n : Initial[i] \in Texts
  BY <1>1, CycleAssumption, ElementOfSeq, LenProperties
<1>3. \A i, j \in 1..n : Initial[i] = Initial[j] => i = j
  <2>1. DOMAIN Initial = 1..n
    BY <1>1, CycleAssumption, LenProperties
  <2>2. QED
    BY <2>1, CycleAssumption
<1>4. n <= Cardinality(Texts)
  <2>1. PICK f : f = [i \in 1..n |-> Initial[i]]
    OBVIOUS
  <2>2. f \in Injection(1..n, Texts)
    BY <1>2, <1>3, <2>1 DEF Injection, IsInjective
  <2>3. Cardinality(1..n) <= Cardinality(Texts)
    BY <2>2, CycleAssumption, FS_Injection
  <2>4. Cardinality(1..n) = n
    BY <1>2, FS_Interval
  <2>5. QED
    BY <2>3, <2>4
<1>5. 1..n \subseteq Ids
  BY <1>2, <1>4, IdsBound DEF Ids
<1>6. Stored = 1..n /\ Cardinality(Stored) = n
  <2>1. Stored = 1..n
    BY <1>1, <1>2, <1>5, CycleAssumption DEF Init, Stored, Ids
  <2>2. QED
    BY <1>2, <2>1, FS_Interval
<1>7. \A i \in 1..n : content[i] = Initial[i]
  BY <1>1, <1>5 DEF Init
<1>8. \A i \in Ids : split[i] = [times |-> 0, texts |-> {}, parts |-> {}]
  BY DEF Init
<1>9. \A c \in Cycles :
        /\ pc[c] = "idle" /\ list[c] = <<>> /\ items[c] = <<>> /\ made[c] = <<>>
        /\ todo[c] = <<>> /\ said[c] = {} /\ seen[c] = <<0, 0>>
  BY DEF Init
<1>10. TypeOK
  <2>1. content \in [Ids -> Texts \union {None}]
    BY <1>1, <1>2 DEF Init, Ids
  <2>2. QED
    BY <1>1, <1>2, <1>3, <1>6, <1>7, <1>9, <2>1 DEF Init, TypeOK, Labels
<1>11. WorkTypes
  BY <1>8, <1>9, EmptySeq, IdsBound DEF Init, WorkTypes, Labels
<1>12. EnoughIds /\ SplitKnown
  BY <1>1, <1>2, <1>6, <1>8 DEF Init, EnoughIds, SplitKnown
<1>13. \A c \in Cycles : Reading(c) /\ Splitting(c) /\ Reporting(c)
  BY <1>9, ItemsEmpty DEF Reading, Splitting, Reporting
<1>14. Replaced = {}
  BY <1>8 DEF Replaced
<1>15. QED
  BY <1>10, <1>11, <1>12, <1>13, <1>14
  DEF CycleInv, NoTextLost, PartsLinked, ReplacedOnce, ReportsCover, Init

-----------------------------------------------------------------------------
(* Writes beside the cycles.                                                 *)

TableOK ==
  /\ content \in [Ids -> Texts \union {None}] /\ given \in Nat /\ Stored \subseteq 1..given
  /\ live \subseteq Stored /\ anchored \subseteq Stored
  /\ \A i, j \in Stored : content[i] = content[j] => i = j
  /\ links \subseteq Stored \X Stored

StageOK ==
  /\ mark \in 0..fb /\ counted \subseteq 1..fb
  /\ \A c \in Cycles :
       /\ pc[c] \in Labels /\ seen[c] \in (0..fb) \X (0..fb)
       /\ (list[c] # <<>>) <=> (pc[c] \in {"ask", "insert", "link"})

LEMMA TypeParts == (TypeOK <=> TableOK /\ StageOK) /\ (TypeOK' <=> TableOK' /\ StageOK')
  BY DEF TypeOK, TableOK, StageOK

\* A write beside the cycles, or a promotion of anchors, leaves the lists alone and
\* marks the candidates it changes.
LEMMA Beside ==
  ASSUME CycleInv, Op, TableOK', EnoughIds', Grows, overtaken' \subseteq Ids,
         \A i \in anchored' \ anchored : Listing(i) # {} => i \in overtaken'
  PROVE  CycleInv'
<1>1. /\ UNCHANGED <<pc, list, items, made, todo, said, seen, fb, mark, counted, between, split>>
      /\ ops' \in 0..MaxOps
  BY IdsBound DEF Op, report, work, CycleInv, WorkTypes
<1>2. StageOK' /\ WorkTypes' /\ ReportsCover'
  BY <1>1, TypeParts DEF CycleInv, StageOK, WorkTypes, ReportsCover
<1>3. ASSUME NEW d \in Cycles  PROVE Undisturbed(d)
  <2>1. list[d] \in Seq(Candidates)
    BY DEF CycleInv, WorkTypes
  <2>2. ASSUME NEW n \in 1..Len(list[d]), list[d][n].id \in anchored' \ anchored
        PROVE  list[d][n].id \in overtaken'
    <3>1. d \in Listing(list[d][n].id)
      BY <2>1, LenProperties DEF Listing
    <3>2. QED
      BY <2>2, <3>1
  <2>3. QED
    BY <1>1, <2>2 DEF Undisturbed, Same
<1>4. PICK M : M = {}
  OBVIOUS
<1>5. /\ \A d \in Cycles \ M : Undisturbed(d)
      /\ \A d \in Cycles \intersect M : Reading(d)' /\ Splitting(d)' /\ Reporting(d)'
  BY <1>3, <1>4
<1>6. QED
  BY <1>1, <1>2, <1>5, TypeParts, Assembled

LEMMA StoredFinite ==
  ASSUME CycleInv
  PROVE  /\ IsFiniteSet(Stored) /\ Cardinality(Stored) \in Nat /\ given \in Nat
         /\ Cardinality(Stored) <= Cardinality(Texts) /\ ops \in 0..MaxOps
         /\ \A t \in Texts \ StoredTexts : given + 1 \in Ids \ Stored
<1>1. given \in Nat /\ Stored \subseteq 1..given /\ ops \in 0..MaxOps /\ MaxOps \in Nat
      /\ \A i \in Stored : content[i] \in Texts
  BY IdsBound DEF CycleInv, TypeOK, WorkTypes, Stored
<1>2. IsFiniteSet(Stored) /\ Cardinality(Stored) \in Nat
  <2>1. IsFiniteSet(1..given) /\ Stored \in SUBSET (1..given)
    BY <1>1, FS_Interval
  <2>2. IsFiniteSet(Stored)
    BY <2>1, FS_Subset
  <2>3. QED
    BY <2>2, FS_CardinalityType
<1>3. PICK f : f = [i \in Stored |-> content[i]]
  OBVIOUS
<1>4. f \in Injection(Stored, Texts)
  BY <1>1, <1>3 DEF Injection, IsInjective, CycleInv, TypeOK
<1>5. Cardinality(Stored) <= Cardinality(Texts)
  BY <1>4, CycleAssumption, FS_Injection
<1>6. ASSUME NEW t \in Texts \ StoredTexts  PROVE given + 1 \in Ids \ Stored
  <2>1. f \in Injection(Stored, Texts \ {t})
    BY <1>1, <1>3, <1>6 DEF Injection, IsInjective, CycleInv, TypeOK, StoredTexts
  <2>2. /\ IsFiniteSet(Texts \ {t}) /\ Cardinality(Texts \ {t}) = Cardinality(Texts) - 1
    BY CycleAssumption, FS_RemoveElement
  <2>3. Cardinality(Stored) <= Cardinality(Texts) - 1
    BY <2>1, <2>2, FS_Injection
  <2>4. given + 1 <= Cardinality(Texts) + MaxOps
    BY <1>1, <1>2, <2>3, IdsBound DEF CycleInv, EnoughIds
  <2>5. given + 1 \in Ids
    BY <1>1, <2>4, IdsBound DEF Ids
  <2>6. QED
    BY <1>1, <2>5
<1>7. QED
  BY <1>1, <1>2, <1>5, <1>6

\* A new row: the table keeps its types, and nothing is taken away.
LEMMA NewRow ==
  ASSUME CycleInv, NEW t \in Texts \ StoredTexts, New(t), UNCHANGED <<anchored, links>>
  PROVE  /\ TableOK' /\ given + 1 \in Ids /\ given' = given + 1
         /\ Stored' = Stored \union {given + 1} /\ StoredTexts' = StoredTexts \union {t}
         /\ live' = live \union {given + 1}
         /\ given' <= Cardinality(Stored') + ops
<1>1. /\ given + 1 \in Ids \ Stored /\ IsFiniteSet(Stored) /\ Cardinality(Stored) \in Nat
      /\ given \in Nat /\ ops \in Nat
  BY StoredFinite, IdsBound
<1>2. /\ content \in [Ids -> Texts \union {None}] /\ Stored \subseteq 1..given
      /\ live \subseteq Stored /\ anchored \subseteq Stored /\ links \subseteq Stored \X Stored
      /\ \A i, j \in Stored : content[i] = content[j] => i = j
  BY DEF CycleInv, TypeOK
<1>3. /\ content' \in [Ids -> Texts \union {None}] /\ content'[given + 1] = t
      /\ \A i \in Ids : i # given + 1 => content'[i] = content[i]
      /\ given' = given + 1 /\ live' = live \union {given + 1} /\ t # None
  BY <1>1, <1>2, CycleAssumption DEF New
<1>4. Stored' = Stored \union {given + 1}
  BY <1>1, <1>3 DEF Stored
<1>5. \A i \in Stored : i # given + 1 /\ content'[i] = content[i] /\ content[i] # t
  BY <1>1, <1>3 DEF Stored, StoredTexts
<1>6. StoredTexts' = StoredTexts \union {t}
  BY <1>3, <1>4, <1>5 DEF StoredTexts
<1>7. \A i, j \in Stored' : content'[i] = content'[j] => i = j
  BY <1>2, <1>3, <1>4, <1>5
<1>8. Stored' \subseteq 1..given'
  BY <1>1, <1>2, <1>3, <1>4
<1>9. TableOK'
  BY <1>1, <1>2, <1>3, <1>4, <1>7, <1>8 DEF TableOK
<1>10. Cardinality(Stored') = Cardinality(Stored) + 1
  BY <1>1, <1>4, FS_AddElement
<1>11. given' <= Cardinality(Stored') + ops
  BY <1>1, <1>3, <1>10 DEF CycleInv, EnoughIds
<1>12. QED
  BY <1>1, <1>3, <1>4, <1>6, <1>9, <1>11

LEMMA RememberInv ==
  ASSUME CycleInv, NEW t \in Texts, Remember(t)
  PROVE  CycleInv'
<1>1. /\ t \notin StoredTexts /\ New(t) /\ Op
      /\ UNCHANGED <<anchored, links, overtaken, removed>>
  BY DEF Remember
<1>2. /\ TableOK' /\ given + 1 \in Ids /\ given' = given + 1
      /\ Stored' = Stored \union {given + 1} /\ StoredTexts' = StoredTexts \union {t}
      /\ live' = live \union {given + 1} /\ given' <= Cardinality(Stored') + ops
  BY <1>1, NewRow
<1>3. /\ given \in Nat /\ ops \in Nat /\ ops' = ops + 1
      /\ UNCHANGED <<unlinked, counted, between>>
  BY <1>1, StoredFinite, IdsBound DEF Op
<1>4. Grows
  BY <1>1, <1>2, <1>3 DEF Grows
<1>5. Cardinality(Stored') \in Nat
  <2>1. IsFiniteSet(Stored')
    BY <1>2, StoredFinite, FS_AddElement
  <2>2. QED
    BY <2>1, FS_CardinalityType
<1>6. EnoughIds'
  BY <1>2, <1>3, <1>5 DEF EnoughIds
<1>7. overtaken' \subseteq Ids
  BY <1>1 DEF CycleInv, WorkTypes
<1>8. QED
  BY <1>1, <1>2, <1>4, <1>6, <1>7, Beside

\* The ids that a write marks.
LEMMA TouchedMarks ==
  ASSUME CycleInv, NEW i \in Stored, Touched(i)
  PROVE  /\ overtaken \subseteq overtaken' /\ overtaken' \subseteq Ids
         /\ Listing(i) # {} => i \in overtaken'
  BY DEF Touched, CycleInv, WorkTypes, Stored

LEMMA AmendInv ==
  ASSUME CycleInv, NEW i \in Ids, NEW t \in Texts, Amend(i, t)
  PROVE  CycleInv'
<1>1. /\ i \in Stored /\ t \notin StoredTexts /\ Op /\ Touched(i)
      /\ content' = [content EXCEPT ![i] = t] /\ removed' = removed \union {content[i]}
      /\ UNCHANGED <<live, anchored, given, links>>
  BY DEF Amend
<1>2. /\ content \in [Ids -> Texts \union {None}] /\ Stored \subseteq 1..given /\ given \in Nat
      /\ live \subseteq Stored /\ anchored \subseteq Stored /\ links \subseteq Stored \X Stored
      /\ \A j, k \in Stored : content[j] = content[k] => j = k
  BY DEF CycleInv, TypeOK
<1>3. /\ content' \in [Ids -> Texts \union {None}] /\ content'[i] = t /\ t # None
      /\ \A j \in Ids : j # i => content'[j] = content[j]
  BY <1>1, <1>2, CycleAssumption
<1>4. Stored' = Stored
  BY <1>1, <1>3 DEF Stored
<1>5. \A j \in Stored : content[j] # t
  BY <1>1 DEF StoredTexts
<1>6. \A j, k \in Stored' : content'[j] = content'[k] => j = k
  BY <1>2, <1>3, <1>4, <1>5 DEF Stored
<1>7. TableOK'
  BY <1>1, <1>2, <1>3, <1>4, <1>6 DEF TableOK
<1>8. StoredTexts \subseteq StoredTexts' \union {content[i]}
  BY <1>3, <1>4 DEF StoredTexts, Stored
<1>9. overtaken \subseteq overtaken' /\ overtaken' \subseteq Ids
  BY <1>1, TouchedMarks
<1>10. UNCHANGED <<unlinked, counted, between>> /\ ops' = ops + 1
  BY <1>1 DEF Op
<1>11. Grows
  BY <1>1, <1>2, <1>4, <1>8, <1>9, <1>10 DEF Grows
<1>12. EnoughIds'
  BY <1>1, <1>4, <1>10, StoredFinite, IdsBound DEF EnoughIds, CycleInv
<1>13. QED
  BY <1>1, <1>7, <1>9, <1>11, <1>12, Beside

LEMMA ForgetInv ==
  ASSUME CycleInv, NEW i \in Ids, Forget(i)
  PROVE  CycleInv'
<1>1. /\ i \in Stored /\ Op /\ Touched(i) /\ UNCHANGED given
      /\ content' = [content EXCEPT ![i] = None] /\ removed' = removed \union {content[i]}
      /\ live' = live \ {i} /\ anchored' = anchored \ {i}
      /\ links' = {l \in links : i \notin {l[1], l[2]}}
  BY DEF Forget
<1>2. /\ content \in [Ids -> Texts \union {None}] /\ Stored \subseteq 1..given /\ given \in Nat
      /\ live \subseteq Stored /\ anchored \subseteq Stored /\ links \subseteq Stored \X Stored
      /\ \A j, k \in Stored : content[j] = content[k] => j = k
  BY DEF CycleInv, TypeOK
<1>3. /\ content' \in [Ids -> Texts \union {None}] /\ content'[i] = None
      /\ \A j \in Ids : j # i => content'[j] = content[j]
  BY <1>1, <1>2
<1>4. Stored' = Stored \ {i}
  BY <1>3 DEF Stored
<1>5. \A j, k \in Stored' : content'[j] = content'[k] => j = k
  BY <1>2, <1>3, <1>4 DEF Stored
<1>6. links' \subseteq Stored' \X Stored'
  BY <1>1, <1>2, <1>4
<1>7. TableOK'
  BY <1>1, <1>2, <1>3, <1>4, <1>5, <1>6 DEF TableOK
<1>8. StoredTexts \subseteq StoredTexts' \union {content[i]}
  BY <1>3, <1>4 DEF StoredTexts, Stored
<1>9. \A j, k \in Stored' : <<j, k>> \in links => <<j, k>> \in links'
  BY <1>1, <1>4
<1>10. overtaken \subseteq overtaken' /\ overtaken' \subseteq Ids
  BY <1>1, TouchedMarks
<1>11. UNCHANGED <<unlinked, counted, between>> /\ ops' = ops + 1
  BY <1>1 DEF Op
<1>12. Grows
  BY <1>1, <1>2, <1>4, <1>8, <1>9, <1>10, <1>11 DEF Grows
<1>13. Cardinality(Stored') = Cardinality(Stored) - 1
  BY <1>1, <1>4, StoredFinite, FS_RemoveElement
<1>14. EnoughIds'
  BY <1>1, <1>11, <1>13, StoredFinite, IdsBound DEF EnoughIds, CycleInv
<1>15. QED
  BY <1>1, <1>7, <1>10, <1>12, <1>14, Beside

\* A table that keeps its rows and their texts.
LEMMA SameRows ==
  ASSUME CycleInv, UNCHANGED <<content, given, links>>, live' \subseteq live,
         anchored' \subseteq Stored
  PROVE  TableOK' /\ Stored' = Stored /\ StoredTexts' = StoredTexts
<1>1. Stored' = Stored
  BY DEF Stored
<1>2. StoredTexts' = StoredTexts
  BY <1>1 DEF StoredTexts
<1>3. QED
  BY <1>1, <1>2 DEF TableOK, CycleInv, TypeOK

LEMMA PinInv ==
  ASSUME CycleInv, NEW i \in Ids, Pin(i)
  PROVE  CycleInv'
<1>1. /\ i \in Stored /\ Op /\ Touched(i) /\ anchored' = anchored \union {i}
      /\ UNCHANGED <<content, live, given, links, removed>>
  BY DEF Pin
<1>2. TableOK' /\ Stored' = Stored /\ StoredTexts' = StoredTexts
  BY <1>1, SameRows DEF CycleInv, TypeOK
<1>3. /\ overtaken \subseteq overtaken' /\ overtaken' \subseteq Ids
      /\ Listing(i) # {} => i \in overtaken'
  BY <1>1, TouchedMarks
<1>4. UNCHANGED <<unlinked, counted, between>> /\ ops' = ops + 1 /\ given \in Nat
  BY <1>1, StoredFinite DEF Op
<1>5. Grows
  BY <1>1, <1>2, <1>3, <1>4 DEF Grows
<1>6. EnoughIds'
  BY <1>1, <1>2, <1>4, StoredFinite, IdsBound DEF EnoughIds, CycleInv
<1>7. \A j \in anchored' \ anchored : j = i
  BY <1>1
<1>8. QED
  BY <1>1, <1>2, <1>3, <1>5, <1>6, <1>7, Beside

LEMMA SupersedeInv ==
  ASSUME CycleInv, NEW i \in Ids, Supersede(i)
  PROVE  CycleInv'
<1>1. /\ i \in live /\ Op /\ Touched(i) /\ live' = live \ {i}
      /\ UNCHANGED <<content, anchored, given, links, removed>>
  BY DEF Supersede
<1>2. TableOK' /\ Stored' = Stored /\ StoredTexts' = StoredTexts /\ i \in Stored
  BY <1>1, SameRows DEF CycleInv, TypeOK
<1>3. overtaken \subseteq overtaken' /\ overtaken' \subseteq Ids
  BY <1>1, <1>2, TouchedMarks
<1>4. UNCHANGED <<unlinked, counted, between>> /\ ops' = ops + 1 /\ given \in Nat
  BY <1>1, StoredFinite DEF Op
<1>5. Grows
  BY <1>1, <1>2, <1>3, <1>4 DEF Grows
<1>6. EnoughIds'
  BY <1>1, <1>2, <1>4, StoredFinite, IdsBound DEF EnoughIds, CycleInv
<1>7. QED
  BY <1>1, <1>2, <1>3, <1>5, <1>6, Beside

-----------------------------------------------------------------------------
(* Steps of a cycle.                                                         *)

Busy == {"ask", "insert", "link"}

\* What a step of c leaves to show once the table and the others are known.
LEMMA OwnStep ==
  ASSUME CycleInv, NEW c \in Cycles, TableOK', StageOK', WorkTypes', EnoughIds',
         ReportsCover', Grows, UNCHANGED <<split, anchored>>,
         \A d \in Cycles \ {c} : Same(d),
         Reading(c)', Splitting(c)', Reporting(c)'
  PROVE  CycleInv'
<1>1. \A d \in Cycles \ {c} : Undisturbed(d)
  BY DEF Undisturbed
<1>2. PICK M : M = {c}
  OBVIOUS
<1>3. /\ \A d \in Cycles \ M : Undisturbed(d)
      /\ \A d \in Cycles \intersect M : Reading(d)' /\ Splitting(d)' /\ Reporting(d)'
  BY <1>1, <1>2
<1>4. QED
  BY <1>3, TypeParts, Assembled

LEMMA StillTable ==
  ASSUME CycleInv, UNCHANGED <<table, removed, overtaken, ops>>,
         unlinked \subseteq unlinked', counted \subseteq counted', between \subseteq between'
  PROVE  TableOK' /\ EnoughIds' /\ Grows /\ UNCHANGED anchored /\ UNCHANGED content
<1>1. UNCHANGED <<content, live, anchored, given, links>>
  BY DEF table
<1>2. TableOK' /\ Stored' = Stored /\ StoredTexts' = StoredTexts
  BY <1>1, SameRows DEF CycleInv, TypeOK
<1>3. QED
  BY <1>1, <1>2, StoredFinite DEF Grows, EnoughIds, CycleInv

LEMMA StageKept ==
  ASSUME CycleInv, NEW c \in Cycles, UNCHANGED <<fb, mark, counted, seen>>,
         \A d \in Cycles \ {c} : Same(d),
         pc'[c] \in Labels, list'[c] # <<>> <=> pc'[c] \in Busy
  PROVE  StageOK'
<1>1. ASSUME NEW d \in Cycles
      PROVE  /\ pc'[d] \in Labels /\ seen'[d] \in (0..fb') \X (0..fb')
             /\ (list'[d] # <<>>) <=> (pc'[d] \in Busy)
  <2>1. CASE d = c
    BY <2>1 DEF CycleInv, TypeOK
  <2>2. CASE d # c
    BY <2>2 DEF CycleInv, TypeOK, Same, Busy
  <2>3. QED
    BY <2>1, <2>2
<1>2. mark' \in 0..fb' /\ counted' \subseteq 1..fb'
  BY DEF CycleInv, TypeOK
<1>3. QED
  BY <1>1, <1>2 DEF StageOK, Busy

\* What c holds, and what it means that c is at work on a candidate.
LEMMA OwnTypes ==
  ASSUME CycleInv, NEW c \in Cycles
  PROVE  /\ list[c] \in Seq(Candidates) /\ items[c] \in Seq(Texts \union {Blank})
         /\ made[c] \in Seq(Ids) /\ todo[c] \in Seq(Ids \X Ids) /\ said[c] \subseteq Texts
         /\ pc[c] \in Labels /\ seen[c] \in Nat \X Nat
         /\ (list[c] # <<>>) <=> (pc[c] \in Busy)
         /\ Len(list[c]) \in Nat
         /\ \A n \in 1..Len(list[c]) : list[c][n].id \in Ids /\ list[c][n].text \in Long
         /\ pc[c] \in Busy => 1 \in 1..Len(list[c])
         /\ Reading(c) /\ Splitting(c) /\ Reporting(c)
<1>1. /\ list[c] \in Seq(Candidates) /\ items[c] \in Seq(Texts \union {Blank})
      /\ made[c] \in Seq(Ids) /\ todo[c] \in Seq(Ids \X Ids) /\ said[c] \subseteq Texts
      /\ pc[c] \in Labels /\ seen[c] \in Nat \X Nat
      /\ Reading(c) /\ Splitting(c) /\ Reporting(c)
  BY DEF CycleInv, WorkTypes
<1>2. (list[c] # <<>>) <=> (pc[c] \in Busy)
  BY DEF CycleInv, TypeOK, Busy
<1>3. /\ Len(list[c]) \in Nat /\ \A n \in 1..Len(list[c]) : list[c][n] \in Candidates
      /\ Len(list[c]) = 0 <=> list[c] = <<>>
  BY <1>1, ElementOfSeq, LenProperties, ItemsType
<1>4. pc[c] \in Busy => 1 \in 1..Len(list[c])
  BY <1>2, <1>3
<1>5. \A n \in 1..Len(list[c]) : list[c][n].id \in Ids /\ list[c][n].text \in Long
  BY <1>3 DEF Candidates
<1>6. QED
  BY <1>1, <1>2, <1>3, <1>4, <1>5

\* The next candidate was read with the others.
LEMMA NextTurn ==
  ASSUME CycleInv, NEW c \in Cycles, pc[c] \in Busy, NextCandidate(c), UNCHANGED <<seen, fb>>,
         Grows, overtaken' \subseteq Ids, UNCHANGED ops,
         split' \in [Ids -> [times : Nat, texts : SUBSET Texts, parts : SUBSET Ids]],
         \A n \in 2..Len(list[c]) : list[c][n].id \notin overtaken' =>
           /\ split'[list[c][n].id].times = split[list[c][n].id].times
           /\ list[c][n].id \in anchored' => list[c][n].id \in anchored
  PROVE  /\ WorkTypes' /\ \A d \in Cycles \ {c} : Same(d)
         /\ pc'[c] \in Labels /\ (list'[c] # <<>> <=> pc'[c] \in Busy)
         /\ Reading(c)' /\ Splitting(c)' /\ Reporting(c)'
         /\ list'[c] = Tail(list[c]) /\ pc'[c] \in {"ask", "scoring"}
<1>1. /\ list[c] \in Seq(Candidates) /\ list[c] # <<>> /\ Len(list[c]) \in Nat \ {0}
      /\ Tail(list[c]) \in Seq(Candidates) /\ Len(Tail(list[c])) = Len(list[c]) - 1
      /\ \A n \in 1..Len(Tail(list[c])) : Tail(list[c])[n] = list[c][n + 1]
  BY OwnTypes, ItemsTail
<1>2. /\ pc' = [pc EXCEPT ![c] = IF Len(list[c]) = 1 THEN "scoring" ELSE "ask"]
      /\ list' = [list EXCEPT ![c] = Tail(list[c])]
      /\ items' = [items EXCEPT ![c] = <<>>] /\ made' = [made EXCEPT ![c] = <<>>]
      /\ todo' = [todo EXCEPT ![c] = <<>>] /\ said' = [said EXCEPT ![c] = {}]
  BY DEF NextCandidate, Goto
<1>3. WorkTypes
  BY DEF CycleInv
<1>4. /\ pc'[c] = (IF Len(list[c]) = 1 THEN "scoring" ELSE "ask")
      /\ list'[c] = Tail(list[c]) /\ items'[c] = <<>> /\ made'[c] = <<>>
      /\ todo'[c] = <<>> /\ said'[c] = {}
      /\ \A d \in Cycles \ {c} : Same(d)
  BY <1>2, <1>3 DEF WorkTypes, Same
<1>5. list' \in [Cycles -> Seq(Candidates)] /\ pc' \in [Cycles -> Labels]
  BY <1>1, <1>2, <1>3 DEF WorkTypes, Labels
<1>6. /\ items' \in [Cycles -> Seq(Texts \union {Blank})] /\ made' \in [Cycles -> Seq(Ids)]
      /\ todo' \in [Cycles -> Seq(Ids \X Ids)] /\ said' \in [Cycles -> SUBSET Texts]
  BY <1>2, <1>3, EmptySeq DEF WorkTypes
<1>7. WorkTypes'
  BY <1>3, <1>5, <1>6 DEF WorkTypes
<1>8. Tail(list[c]) = <<>> <=> Len(list[c]) = 1
  <2>1. Len(Tail(list[c])) = 0 <=> Tail(list[c]) = <<>>
    BY <1>1, EmptySeq
  <2>2. QED
    BY <1>1, <2>1
<1>9. pc'[c] \in Labels /\ (list'[c] # <<>> <=> pc'[c] \in Busy) /\ pc'[c] \in {"ask", "scoring"}
  BY <1>4, <1>8 DEF Labels, Busy
<1>10. Splitting(c)' /\ Reporting(c)'
  BY <1>4, <1>9, ItemsEmpty DEF Splitting, Reporting
<1>11. Reading(c)'
  <2>1. ASSUME NEW n \in 1..Len(Tail(list[c]))
        PROVE  /\ Tail(list[c])[n].id <= given'
               /\ Tail(list[c])[n].id \notin overtaken' =>
                    /\ split'[Tail(list[c])[n].id].times = 0
                    /\ Tail(list[c])[n].id \notin anchored'
    <3>1. n + 1 \in 2..Len(list[c]) /\ n + 1 \in 1..Len(list[c])
      BY <1>1
    <3>2. PICK i \in Ids : i = list[c][n + 1].id
      BY <3>1, OwnTypes
    <3>3. /\ i <= given /\ i \in Nat /\ given \in Nat
          /\ i \notin overtaken => split[i].times = 0 /\ i \notin anchored
      BY <3>1, <3>2, OwnTypes, StoredFinite, IdsBound DEF Reading
    <3>4. i \notin overtaken' => /\ split'[i].times = split[i].times
                                 /\ i \in anchored' => i \in anchored
      BY <3>1, <3>2
    <3>5. i <= given' /\ overtaken \subseteq overtaken'
      BY <3>3 DEF Grows
    <3>6. Tail(list[c])[n].id = i
      BY <1>1, <3>2
    <3>7. QED
      BY <3>3, <3>4, <3>5, <3>6
  <2>2. ASSUME NEW m \in 1..Len(Tail(list[c])), NEW n \in 1..Len(Tail(list[c])),
               Tail(list[c])[m].id = Tail(list[c])[n].id
        PROVE  m = n
    <3>1. m + 1 \in 1..Len(list[c]) /\ n + 1 \in 1..Len(list[c])
      BY <1>1
    <3>2. list[c][m + 1].id = list[c][n + 1].id
      BY <1>1, <2>2
    <3>3. m + 1 = n + 1
      BY <3>1, <3>2, OwnTypes DEF Reading
    <3>4. QED
      BY <3>3
  <2>3. QED
    BY <1>4, <2>1, <2>2 DEF Reading
<1>12. QED
  BY <1>4, <1>7, <1>9, <1>10, <1>11

\* The next candidate, when nothing else happens.
LEMMA NextTurnInv ==
  ASSUME CycleInv, NEW c \in Cycles, pc[c] \in Busy, NextCandidate(c),
         UNCHANGED <<table, report, history, ops>>
  PROVE  CycleInv'
<1>1. /\ UNCHANGED <<seen, fb, mark, split, overtaken, removed, unlinked, counted, between>>
      /\ UNCHANGED anchored
  BY DEF report, history, table
<1>2. TableOK' /\ EnoughIds' /\ Grows
  BY <1>1, StillTable
<1>3. /\ overtaken' \subseteq Ids
      /\ split' \in [Ids -> [times : Nat, texts : SUBSET Texts, parts : SUBSET Ids]]
  BY <1>1 DEF CycleInv, WorkTypes
<1>4. \A n \in 2..Len(list[c]) : list[c][n].id \notin overtaken' =>
        /\ split'[list[c][n].id].times = split[list[c][n].id].times
        /\ list[c][n].id \in anchored' => list[c][n].id \in anchored
  BY <1>1
<1>5. /\ WorkTypes' /\ \A d \in Cycles \ {c} : Same(d)
      /\ pc'[c] \in Labels /\ (list'[c] # <<>> <=> pc'[c] \in Busy)
      /\ Reading(c)' /\ Splitting(c)' /\ Reporting(c)'
  BY <1>1, <1>2, <1>3, <1>4, NextTurn
<1>6. StageOK'
  BY <1>1, <1>5, StageKept
<1>7. ReportsCover'
  BY <1>1 DEF CycleInv, ReportsCover
<1>8. QED
  BY <1>1, <1>2, <1>5, <1>6, <1>7, OwnStep

LEMMA FragmentFailsInv ==
  ASSUME CycleInv, NEW c \in Cycles, FragmentFails(c)
  PROVE  CycleInv'
<1>1. pc[c] \in Busy /\ NextCandidate(c) /\ UNCHANGED <<table, report, history, ops>>
  BY DEF FragmentFails, Busy
<1>2. QED
  BY <1>1, NextTurnInv

\* A step of c that leaves the table alone.
LEMMA StillStep ==
  ASSUME CycleInv, NEW c \in Cycles, UNCHANGED <<table, removed, overtaken, split, ops>>,
         unlinked \subseteq unlinked', counted \subseteq counted', between \subseteq between',
         WorkTypes', StageOK', ReportsCover', \A d \in Cycles \ {c} : Same(d),
         Reading(c)', Splitting(c)', Reporting(c)'
  PROVE  CycleInv'
<1>1. TableOK' /\ EnoughIds' /\ Grows /\ UNCHANGED anchored
  BY StillTable
<1>2. QED
  BY <1>1, OwnStep

\* A step of c before or after the splitting.
LEMMA MoveOn ==
  ASSUME CycleInv, NEW c \in Cycles, pc[c] \notin Busy,
         NEW l \in Labels \ (Busy \union {"file", "mark"}), Goto(c, l),
         UNCHANGED <<table, fb, mark, work, history, ops>>, Spent(c) \/ UNCHANGED seen
  PROVE  CycleInv'
<1>1. UNCHANGED <<list, items, made, todo, said, split, overtaken, removed, unlinked, counted,
                  between>>
  BY DEF work, history
<1>2. WorkTypes /\ TypeOK
  BY DEF CycleInv
<1>3. pc' = [pc EXCEPT ![c] = l]
  BY DEF Goto
<1>4. /\ pc' \in [Cycles -> Labels] /\ seen' \in [Cycles -> Nat \X Nat] /\ pc'[c] = l
      /\ \A d \in Cycles \ {c} : Same(d)
      /\ seen'[c] \in (0..fb) \X (0..fb)
  <2>1. <<0, 0>> \in (0..fb) \X (0..fb) /\ <<0, 0>> \in Nat \X Nat
    BY <1>2 DEF WorkTypes
  <2>2. /\ seen' \in [Cycles -> Nat \X Nat] /\ seen'[c] \in {seen[c], <<0, 0>>}
        /\ \A d \in Cycles \ {c} : seen'[d] = seen[d]
    BY <1>2, <2>1 DEF WorkTypes, Spent
  <2>3. /\ pc' \in [Cycles -> Labels] /\ pc'[c] = l
        /\ \A d \in Cycles \ {c} : pc'[d] = pc[d]
    BY <1>2, <1>3 DEF WorkTypes
  <2>4. seen[c] \in (0..fb) \X (0..fb)
    BY <1>2 DEF TypeOK
  <2>5. QED
    BY <1>1, <2>1, <2>2, <2>3, <2>4 DEF Same
<1>5. WorkTypes'
  BY <1>1, <1>2, <1>4 DEF WorkTypes
<1>6. StageOK'
  <2>1. ASSUME NEW d \in Cycles
        PROVE  /\ pc'[d] \in Labels /\ seen'[d] \in (0..fb) \X (0..fb)
               /\ (list'[d] # <<>>) <=> (pc'[d] \in Busy)
    <3>1. CASE d = c
      BY <1>1, <1>4, <3>1, OwnTypes
    <3>2. CASE d # c
      BY <1>1, <1>2, <1>4, <3>2 DEF TypeOK, Same, Busy
    <3>3. QED
      BY <3>1, <3>2
  <2>2. QED
    BY <1>1, <1>2, <2>1 DEF StageOK, TypeOK, Busy
<1>7. ReportsCover'
  BY <1>1 DEF CycleInv, ReportsCover
<1>8. list[c] = <<>> /\ Len(list[c]) = 0
  BY OwnTypes, EmptySeq
<1>9. Reading(c)'
  BY <1>1, <1>8 DEF Reading
<1>10. Splitting(c)' /\ Reporting(c)'
  BY <1>1, <1>4, OwnTypes DEF Splitting, Reporting, Busy, StoredTexts, Stored, table
<1>11. QED
  BY <1>1, <1>4, <1>5, <1>6, <1>7, <1>9, <1>10, StillStep

LEMMA StartInv ==
  ASSUME CycleInv, NEW c \in Cycles, Start(c) \/ NoModel(c) \/ StageFails(c)
  PROVE  CycleInv'
<1>1. \A l \in {"idle", "reshape", "scoring"} : l \in Labels \ (Busy \union {"file", "mark"})
  BY DEF Labels, Busy
<1>2. CASE Start(c)
  BY <1>1, <1>2, MoveOn DEF Start, report, Busy
<1>3. CASE NoModel(c)
  BY <1>1, <1>3, MoveOn DEF NoModel, report, Busy
<1>4. CASE StageFails(c)
  BY <1>1, <1>4, MoveOn DEF StageFails, report, Busy
<1>5. QED
  BY <1>2, <1>3, <1>4

LEMMA ReportFailsInv ==
  ASSUME CycleInv, NEW c \in Cycles, ReportFails(c)
  PROVE  CycleInv'
<1>1. "idle" \in Labels \ (Busy \union {"file", "mark"})
  BY DEF Labels, Busy
<1>2. QED
  BY <1>1, MoveOn DEF ReportFails, Busy

\* A step of the report: neither the table nor the lists change.
LEMMA ReportStep ==
  ASSUME CycleInv, NEW c \in Cycles, pc[c] \in {"report", "file", "mark"},
         NEW l \in {"idle", "file", "mark"}, Goto(c, l),
         UNCHANGED <<table, fb, work, split, overtaken, removed, unlinked, ops>>,
         counted \subseteq counted', between \subseteq between', counted' \subseteq 1..fb,
         mark' \in 0..fb, NEW v \in (0..fb) \X (0..fb), seen' = [seen EXCEPT ![c] = v],
         ReportsCover',
         /\ l \in {"file", "mark"} => 1..v[1] \subseteq counted' \union between'
         /\ l = "mark" => (v[1] + 1)..v[2] \subseteq counted'
  PROVE  CycleInv'
<1>1. UNCHANGED <<list, items, made, todo, said>> /\ fb \in Nat
  BY DEF work, CycleInv, WorkTypes
<1>2. WorkTypes /\ TypeOK
  BY DEF CycleInv
<1>3. /\ pc' = [pc EXCEPT ![c] = l] /\ l \in Labels /\ l \notin Busy /\ pc[c] \notin Busy
      /\ v \in Nat \X Nat
  BY <1>1 DEF Goto, Labels, Busy
<1>4. /\ pc' \in [Cycles -> Labels] /\ seen' \in [Cycles -> Nat \X Nat] /\ pc'[c] = l
      /\ seen'[c] = v
      /\ \A d \in Cycles \ {c} : Same(d)
  BY <1>1, <1>2, <1>3 DEF WorkTypes, Same
<1>5. WorkTypes'
  BY <1>1, <1>2, <1>4 DEF WorkTypes
<1>6. StageOK'
  <2>1. ASSUME NEW d \in Cycles
        PROVE  /\ pc'[d] \in Labels /\ seen'[d] \in (0..fb) \X (0..fb)
               /\ (list'[d] # <<>>) <=> (pc'[d] \in Busy)
    <3>1. CASE d = c
      BY <1>1, <1>3, <1>4, <3>1, OwnTypes
    <3>2. CASE d # c
      BY <1>1, <1>2, <1>4, <3>2 DEF TypeOK, Same, Busy
    <3>3. QED
      BY <3>1, <3>2
  <2>2. QED
    BY <1>1, <2>1 DEF StageOK, Busy
<1>7. list[c] = <<>> /\ Len(list[c]) = 0
  BY <1>3, OwnTypes, EmptySeq
<1>8. Reading(c)'
  BY <1>1, <1>7 DEF Reading
<1>9. Splitting(c)' /\ Reporting(c)'
  BY <1>1, <1>3, <1>4, OwnTypes DEF Splitting, Reporting, Busy, StoredTexts, Stored, table
<1>10. QED
  BY <1>1, <1>4, <1>5, <1>6, <1>8, <1>9, StillStep

LEMMA StatsInv ==
  ASSUME CycleInv, NEW c \in Cycles, Stats(c)
  PROVE  CycleInv'
<1>1. PICK from \in {mark, 0} : IF from = fb THEN Goto(c, "idle") /\ UNCHANGED seen
                                ELSE Goto(c, "file") /\ seen' = [seen EXCEPT ![c] = <<from, fb>>]
  BY DEF Stats
<1>2. pc[c] = "report" /\ UNCHANGED <<table, fb, mark, work, history, ops>>
  BY DEF Stats
<1>3. mark \in 0..fb /\ fb \in Nat /\ counted \subseteq 1..fb /\ ReportsCover
  BY DEF CycleInv, TypeOK, WorkTypes
<1>4. CASE from = fb
  <2>1. "idle" \in Labels \ (Busy \union {"file", "mark"}) /\ pc[c] \notin Busy
    BY <1>2 DEF Labels, Busy
  <2>2. QED
    BY <1>1, <1>2, <1>4, <2>1, MoveOn
<1>5. CASE from # fb
  <2>1. PICK v : v = <<from, fb>>
    OBVIOUS
  <2>2. /\ v \in (0..fb) \X (0..fb) /\ v[1] = from /\ Goto(c, "file")
        /\ seen' = [seen EXCEPT ![c] = v]
    BY <1>1, <1>3, <1>5, <2>1
  <2>3. 1..v[1] \subseteq counted' \union between' /\ ReportsCover' /\ mark' \in 0..fb
    BY <1>2, <1>3, <2>2 DEF ReportsCover, history
  <2>4. UNCHANGED <<split, overtaken, removed, unlinked, counted, between>>
    BY <1>2 DEF history
  <2>5. "file" \in {"idle", "file", "mark"} /\ pc[c] \in {"report", "file", "mark"}
    BY <1>2
  <2>6. QED
    BY <1>2, <1>3, <2>2, <2>3, <2>4, <2>5, ReportStep
<1>6. QED
  BY <1>4, <1>5

LEMMA WriteReportInv ==
  ASSUME CycleInv, NEW c \in Cycles, WriteReport(c)
  PROVE  CycleInv'
<1>1. /\ pc[c] = "file" /\ Goto(c, "mark") /\ counted' = Reported(c)
      /\ UNCHANGED <<table, fb, mark, seen, work, split, overtaken, removed, unlinked, between,
                     ops>>
  BY DEF WriteReport, report
<1>2. PICK v : v = seen[c]
  OBVIOUS
<1>3. /\ v \in (0..fb) \X (0..fb) /\ fb \in Nat /\ mark \in 0..fb /\ counted \subseteq 1..fb
      /\ seen \in [Cycles -> Nat \X Nat]
      /\ 1..v[1] \subseteq counted \union between
  BY <1>1, <1>2, OwnTypes DEF CycleInv, TypeOK, WorkTypes, Reporting
<1>4. /\ counted' = counted \union (v[1] + 1)..v[2] /\ counted' \subseteq 1..fb
      /\ seen' = [seen EXCEPT ![c] = v]
  <2>1. counted' = counted \union (v[1] + 1)..v[2]
    BY <1>1, <1>2 DEF Reported
  <2>2. v[1] \in Nat /\ v[2] \in 0..fb
    BY <1>3
  <2>3. (v[1] + 1)..v[2] \subseteq 1..fb
    BY <1>3, <2>2
  <2>4. seen' = [seen EXCEPT ![c] = v]
    BY <1>1, <1>2, <1>3
  <2>5. QED
    BY <1>3, <2>1, <2>3, <2>4
<1>5. ReportsCover'
  BY <1>1, <1>4 DEF CycleInv, ReportsCover
<1>6. "mark" \in {"idle", "file", "mark"} /\ pc[c] \in {"report", "file", "mark"}
  BY <1>1
<1>7. QED
  BY <1>1, <1>3, <1>4, <1>5, <1>6, ReportStep

LEMMA WriteMarkInv ==
  ASSUME CycleInv, NEW c \in Cycles, WriteMark(c)
  PROVE  CycleInv'
<1>1. /\ pc[c] = "mark" /\ Goto(c, "idle") /\ mark' = fb
      /\ between' = between \union (seen[c][2] + 1)..fb
      /\ seen' = [seen EXCEPT ![c] = <<0, 0>>]
      /\ UNCHANGED <<table, fb, work, split, overtaken, removed, unlinked, counted, ops>>
  BY DEF WriteMark, MarkNow, Spent
<1>2. /\ seen[c] \in (0..fb) \X (0..fb) /\ fb \in Nat /\ counted \subseteq 1..fb
      /\ 1..seen[c][1] \subseteq counted \union between
      /\ (seen[c][1] + 1)..seen[c][2] \subseteq counted
  BY <1>1, OwnTypes DEF CycleInv, TypeOK, WorkTypes, Reporting
<1>3. ReportsCover'
  <2>1. ASSUME NEW n \in 1..fb  PROVE n \in counted \union between'
    <3>1. n \in 1..seen[c][1] \/ n \in (seen[c][1] + 1)..seen[c][2] \/ n \in (seen[c][2] + 1)..fb
      BY <1>2
    <3>2. QED
      BY <1>1, <1>2, <3>1
  <2>2. QED
    BY <1>1, <2>1 DEF ReportsCover
<1>4. <<0, 0>> \in (0..fb) \X (0..fb) /\ mark' \in 0..fb
  BY <1>1, <1>2
<1>5. "idle" \in {"idle", "file", "mark"} /\ pc[c] \in {"report", "file", "mark"}
  BY <1>1
<1>6. QED
  BY <1>1, <1>2, <1>3, <1>4, <1>5, ReportStep

LEMMA FeedbackInv ==
  ASSUME CycleInv, Feedback
  PROVE  CycleInv'
<1>1. /\ UNCHANGED <<table, mark, seen, pc, work, history, ops>> /\ fb' = fb + 1
      /\ UNCHANGED <<list, items, made, todo, said, split, overtaken, removed, unlinked, counted,
                     between>>
  BY DEF Feedback, work, history
<1>2. TableOK' /\ EnoughIds' /\ Grows /\ UNCHANGED anchored
  BY <1>1, StillTable
<1>3. fb \in Nat /\ TypeOK /\ WorkTypes
  BY DEF CycleInv, WorkTypes
<1>4. WorkTypes'
  BY <1>1, <1>3 DEF WorkTypes
<1>5. StageOK'
  <2>1. ASSUME NEW c \in Cycles  PROVE seen[c] \in (0..(fb + 1)) \X (0..(fb + 1))
    <3>1. seen[c] \in (0..fb) \X (0..fb) /\ 0..fb \subseteq 0..(fb + 1)
      BY <1>3 DEF TypeOK
    <3>2. QED
      BY <3>1
  <2>2. mark \in 0..(fb + 1) /\ counted \subseteq 1..(fb + 1)
    BY <1>3 DEF TypeOK
  <2>3. QED
    BY <1>1, <1>3, <2>1, <2>2 DEF StageOK, TypeOK
<1>6. ReportsCover'
  BY <1>1 DEF CycleInv, ReportsCover
<1>7. PICK M : M = {}
  OBVIOUS
<1>8. /\ \A d \in Cycles \ M : Undisturbed(d)
      /\ \A d \in Cycles \intersect M : Reading(d)' /\ Splitting(d)' /\ Reporting(d)'
  BY <1>1, <1>2, <1>7 DEF Undisturbed, Same
<1>9. QED
  BY <1>1, <1>2, <1>4, <1>5, <1>6, <1>8, TypeParts, Assembled

LEMMA BatchRead ==
  ASSUME CycleInv, NEW size \in 0..BatchSize, NEW b \in [1..size -> Stored], IsBatch(b)
  PROVE  /\ \A n \in 1..size :
              /\ b[n] \in Ids /\ b[n] <= given /\ content[b[n]] \in Long
              /\ split[b[n]].times = 0 /\ b[n] \notin anchored
         /\ \A m, n \in 1..size : b[m] = b[n] => m = n
<1>1. size \in Nat /\ DOMAIN b = 1..size
  BY CycleAssumption
<1>2. \A n \in 1..size : b[n] \in Stored /\ Splittable(b[n])
  BY <1>1 DEF IsBatch, Items
<1>3. ASSUME NEW n \in 1..size
      PROVE  /\ b[n] \in Ids /\ b[n] <= given /\ content[b[n]] \in Long
             /\ split[b[n]].times = 0 /\ b[n] \notin anchored
  <2>1. PICK i : i = b[n]
    OBVIOUS
  <2>2. i \in Stored /\ Splittable(i)
    BY <1>2, <2>1
  <2>3. i \in Ids /\ i <= given
    BY <2>2 DEF Stored, CycleInv, TypeOK
  <2>4. split[i].times = 0
    BY <2>2, <2>3 DEF Splittable, CycleInv, SplitKnown
  <2>5. QED
    BY <2>1, <2>2, <2>3, <2>4 DEF Splittable
<1>4. ASSUME NEW m \in 1..size, NEW n \in 1..size, m < n  PROVE b[m] # b[n]
  BY <1>1, <1>4 DEF IsBatch
<1>5. ASSUME NEW m \in 1..size, NEW n \in 1..size, b[m] = b[n]  PROVE m = n
  <2>1. m < n \/ n < m \/ m = n
    BY <1>1
  <2>2. QED
    BY <1>4, <1>5, <2>1
<1>6. QED
  BY <1>3, <1>5

LEMMA ReadCandidatesInv ==
  ASSUME CycleInv, NEW c \in Cycles, ReadCandidates(c)
  PROVE  CycleInv'
<1>0. PICK size \in 0..BatchSize : \E b \in [1..size -> Stored] :
        /\ IsBatch(b)
        /\ list' = [list EXCEPT ![c] =
                      [n \in 1..size |-> [id |-> b[n], text |-> content[b[n]]]]]
        /\ Goto(c, IF size = 0 THEN "scoring" ELSE "ask")
  BY DEF ReadCandidates
<1>1. PICK b \in [1..size -> Stored] :
        /\ IsBatch(b)
        /\ list' = [list EXCEPT ![c] =
                      [n \in 1..size |-> [id |-> b[n], text |-> content[b[n]]]]]
        /\ Goto(c, IF size = 0 THEN "scoring" ELSE "ask")
  BY <1>0
<1>2. /\ pc[c] = "reshape"
      /\ UNCHANGED <<table, report, items, made, todo, said, history, ops>>
      /\ UNCHANGED <<seen, fb, mark, split, overtaken, removed, unlinked, counted, between, given,
                     anchored, content>>
  BY DEF ReadCandidates, report, history, table
<1>3. size \in Nat
  BY CycleAssumption
<1>4. PICK s : s = [n \in 1..size |-> [id |-> b[n], text |-> content[b[n]]]]
  OBVIOUS
<1>5. PICK l : l = IF size = 0 THEN "scoring" ELSE "ask"
  OBVIOUS
<1>6. \A n \in 1..size : s[n] \in Candidates /\ s[n].id = b[n]
  BY <1>1, <1>4, BatchRead DEF Candidates
<1>7. s \in Seq(Candidates) /\ Len(s) = size
  BY <1>3, <1>4, <1>6
<1>8. s # <<>> <=> l \in Busy
  <2>1. Len(s) = 0 <=> s = <<>>
    BY <1>7, EmptySeq
  <2>2. QED
    BY <1>5, <1>7, <2>1 DEF Busy
<1>9. l \in Labels /\ l \in {"scoring", "ask"}
  BY <1>5 DEF Labels
<1>10. /\ pc' \in [Cycles -> Labels] /\ list' \in [Cycles -> Seq(Candidates)]
       /\ pc'[c] = l /\ list'[c] = s
       /\ \A d \in Cycles \ {c} : Same(d)
  BY <1>1, <1>2, <1>4, <1>5, <1>7, <1>9 DEF Goto, CycleInv, WorkTypes, Same
<1>11. WorkTypes'
  BY <1>2, <1>10 DEF CycleInv, WorkTypes
<1>12. StageOK'
  BY <1>2, <1>8, <1>9, <1>10, StageKept
<1>13. Reading(c)'
  <2>1. /\ \A n \in 1..Len(s) :
             /\ s[n].id <= given /\ split[s[n].id].times = 0 /\ s[n].id \notin anchored
        /\ \A m, n \in 1..Len(s) : s[m].id = s[n].id => m = n
    <3>1. /\ \A n \in 1..size : b[n] <= given /\ split[b[n]].times = 0 /\ b[n] \notin anchored
          /\ \A m, n \in 1..size : b[m] = b[n] => m = n
      BY <1>1, BatchRead
    <3>2. \A n \in 1..Len(s) : n \in 1..size /\ s[n].id = b[n]
      BY <1>6, <1>7
    <3>3. QED
      BY <3>1, <3>2
  <2>2. QED
    BY <1>2, <1>10, <2>1 DEF Reading
<1>14. Splitting(c)' /\ Reporting(c)'
  <2>1. items[c] = <<>> /\ made[c] = <<>> /\ todo[c] = <<>> /\ said[c] = {}
    BY <1>2, OwnTypes DEF Splitting
  <2>2. QED
    BY <1>2, <1>9, <1>10, <2>1, ItemsEmpty DEF Splitting, Reporting
<1>15. ReportsCover'
  BY <1>2 DEF CycleInv, ReportsCover
<1>16. QED
  BY <1>2, <1>10, <1>11, <1>12, <1>13, <1>14, <1>15, StillStep

\* Reading and Reporting depend on the list and on the report.
LEMMA SameList ==
  ASSUME CycleInv, NEW c \in Cycles, UNCHANGED <<list, seen, split, overtaken, anchored>>,
         Grows, pc[c] \in Busy, pc'[c] \in Busy
  PROVE  Reading(c)' /\ Reporting(c)'
<1>1. Reading(c) /\ \A n \in 1..Len(list[c]) : list[c][n].id \in Nat
  BY OwnTypes, IdsBound
<1>2. given \in Nat /\ given' \in Nat /\ given <= given'
  BY StoredFinite DEF Grows
<1>3. Reading(c)'
  <2>1. \A n \in 1..Len(list[c]) : list[c][n].id <= given'
    <3> SUFFICES ASSUME NEW n \in 1..Len(list[c]) PROVE list[c][n].id <= given'
      OBVIOUS
    <3>1. list[c][n].id \in Nat /\ list[c][n].id <= given
      BY <1>1 DEF Reading
    <3>2. QED
      BY <1>2, <3>1
  <2>2. list' = list /\ split' = split /\ overtaken' = overtaken /\ anchored' = anchored
    OBVIOUS
  <2>3. QED
    BY <1>1, <2>1, <2>2 DEF Reading
<1>4. QED
  BY <1>3 DEF Reporting, Busy

LEMMA AnswerInv ==
  ASSUME CycleInv, NEW c \in Cycles, NEW a, Answer(c, a)
  PROVE  CycleInv'
<1>1. /\ pc[c] = "ask" /\ a \in Answers[list[c][1].text]
      /\ UNCHANGED <<table, report, history, ops>>
      /\ UNCHANGED <<seen, fb, mark, split, overtaken, removed, unlinked, counted, between,
                     anchored>>
  BY DEF Answer, report, history, table
<1>2. pc[c] \in Busy
  BY <1>1 DEF Busy
<1>3. CASE Len(a) < MinItems /\ TooShort(c)
  BY <1>1, <1>2, <1>3, NextTurnInv DEF TooShort
<1>4. CASE Len(a) >= MinItems /\ ~ TooShort(c)
  <2>1. PICK k : k = IF Len(a) < MaxItems THEN Len(a) ELSE MaxItems
    OBVIOUS
  <2>2. PICK first : first = SubSeq(a, 1, k)
    OBVIOUS
  <2>3. /\ items' = [items EXCEPT ![c] = first]
        /\ said' = [said EXCEPT ![c] = Items(first) \ {Blank}]
        /\ Goto(c, "insert") /\ UNCHANGED <<list, made, todo>>
    BY <1>3, <1>4, <2>1, <2>2 DEF Answer
  <2>4. a \in Seq(Texts \union {Blank})
    BY <1>1, <1>2, OwnTypes, CycleAssumption
  <2>5. first \in Seq(Texts \union {Blank})
    <3>1. Len(a) \in Nat /\ k \in Int /\ k <= Len(a)
      BY <2>1, <2>4, CycleAssumption
    <3>2. \A n \in 1..k : a[n] \in Texts \union {Blank}
      BY <2>4, <3>1, ElementOfSeq
    <3>3. QED
      BY <2>2, <3>1, <3>2, SubSeqProperties
  <2>6. Items(first) \ {Blank} \subseteq Texts
    BY <2>5, ItemsType
  <2>7. /\ pc' \in [Cycles -> Labels] /\ items' \in [Cycles -> Seq(Texts \union {Blank})]
        /\ said' \in [Cycles -> SUBSET Texts]
        /\ pc'[c] = "insert" /\ items'[c] = first /\ said'[c] = Items(first) \ {Blank}
        /\ \A d \in Cycles \ {c} : Same(d)
    BY <1>1, <2>3, <2>5, <2>6 DEF Goto, CycleInv, WorkTypes, Same, Labels
  <2>8. WorkTypes'
    BY <1>1, <2>3, <2>7 DEF CycleInv, WorkTypes
  <2>9. pc'[c] \in Labels /\ pc'[c] \in Busy /\ list'[c] # <<>>
    BY <1>2, <2>3, <2>7, OwnTypes DEF Labels, Busy
  <2>10. StageOK'
    BY <1>1, <2>7, <2>9, StageKept
  <2>11. Grows
    BY <1>1, StillTable
  <2>12. Reading(c)' /\ Reporting(c)'
    BY <1>1, <1>2, <2>3, <2>9, <2>11, SameList
  <2>13. Splitting(c)'
    <3>1. made[c] = <<>>
      BY <1>1, OwnTypes DEF Splitting
    <3>2. QED
      BY <2>3, <2>7, <3>1, ItemsEmpty DEF Splitting
  <2>14. ReportsCover'
    BY <1>1 DEF CycleInv, ReportsCover
  <2>15. QED
    BY <1>1, <2>7, <2>8, <2>10, <2>12, <2>13, <2>14, StillStep
<1>5. CASE Len(a) >= MinItems /\ TooShort(c)
  BY <1>1, <1>2, <1>5, NextTurnInv DEF TooShort
<1>6. QED
  BY <1>3, <1>4, <1>5 DEF Answer

LEMMA PromoteInv ==
  ASSUME CycleInv, NEW c \in Cycles, Promote(c)
  PROVE  CycleInv'
<1>1. PICK chosen : /\ chosen \subseteq live
                    /\ anchored' = anchored \union chosen
                    /\ overtaken' = overtaken \union {i \in chosen : Listing(i) # {}}
  BY DEF Promote
<1>2. /\ pc[c] = "scoring" /\ pc' = [pc EXCEPT ![c] = "report"]
      /\ UNCHANGED <<content, live, given, links, report, work, split, removed, unlinked,
                     counted, between, ops>>
      /\ UNCHANGED <<list, items, made, todo, said, seen, fb, mark>>
  BY DEF Promote, Goto, report, work
<1>3. live \subseteq Stored /\ anchored \subseteq Stored /\ overtaken \subseteq Ids
  BY DEF CycleInv, TypeOK, WorkTypes
<1>4. TableOK' /\ Stored' = Stored /\ StoredTexts' = StoredTexts
  BY <1>1, <1>2, <1>3, SameRows
<1>5. overtaken \subseteq overtaken' /\ overtaken' \subseteq Ids
  BY <1>1, <1>3 DEF Stored
<1>6. EnoughIds' /\ Grows
  BY <1>2, <1>4, <1>5, StoredFinite DEF EnoughIds, CycleInv, Grows
<1>7. pc' \in [Cycles -> Labels] /\ pc'[c] = "report" /\ \A d \in Cycles \ {c} : Same(d)
  BY <1>2 DEF CycleInv, WorkTypes, Labels, Same
<1>8. WorkTypes'
  BY <1>2, <1>5, <1>7 DEF CycleInv, WorkTypes
<1>9. pc'[c] \in Labels /\ list'[c] = <<>> /\ pc'[c] \notin Busy
  BY <1>2, <1>7, OwnTypes DEF Labels, Busy
<1>10. StageOK' /\ ReportsCover'
  BY <1>2, <1>7, <1>9, StageKept DEF CycleInv, ReportsCover
<1>11. ASSUME NEW d \in Cycles \ {c}  PROVE Undisturbed(d)
  <2>1. list[d] \in Seq(Candidates)
    BY OwnTypes
  <2>2. ASSUME NEW n \in 1..Len(list[d]), list[d][n].id \in anchored' \ anchored
        PROVE  list[d][n].id \in overtaken'
    <3>1. d \in Listing(list[d][n].id)
      BY <2>1, LenProperties DEF Listing
    <3>2. QED
      BY <1>1, <2>2, <3>1
  <2>3. QED
    BY <1>2, <1>7, <2>2 DEF Undisturbed
<1>12. Reading(c)' /\ Splitting(c)' /\ Reporting(c)'
  <2>1. items[c] = <<>> /\ made[c] = <<>> /\ todo[c] = <<>> /\ said[c] = {}
    BY <1>2, OwnTypes DEF Splitting
  <2>2. Len(list'[c]) = 0
    BY <1>9, EmptySeq
  <2>3. QED
    BY <1>2, <1>7, <2>1, <2>2, ItemsEmpty DEF Reading, Splitting, Reporting
<1>13. PICK M : M = {c}
  OBVIOUS
<1>14. /\ \A d \in Cycles \ M : Undisturbed(d)
       /\ \A d \in Cycles \intersect M : Reading(d)' /\ Splitting(d)' /\ Reporting(d)'
  BY <1>11, <1>12, <1>13
<1>15. QED
  BY <1>2, <1>4, <1>6, <1>8, <1>10, <1>14, TypeParts, Assembled

\* The parts that c has inserted, and the texts left to insert.
LEMMA InsertInv ==
  ASSUME CycleInv, NEW c \in Cycles, Insert(c)
  PROVE  CycleInv'
<1>1. /\ pc[c] = "insert" /\ items[c] # <<>>
      /\ items' = [items EXCEPT ![c] = Tail(items[c])]
      /\ UNCHANGED <<anchored, links, report, pc, list, todo, said, history, ops>>
      /\ UNCHANGED <<seen, fb, mark, split, overtaken, removed, unlinked, counted, between>>
  BY DEF Insert, report, history
<1>2. PICK t : t = Head(items[c])
  OBVIOUS
<1>3. /\ items[c] \in Seq(Texts \union {Blank}) /\ made[c] \in Seq(Ids) /\ pc[c] \in Busy
      /\ said[c] \subseteq Texts /\ Splitting(c)
  BY <1>1, OwnTypes DEF Busy
<1>4. /\ t \in Texts \union {Blank} /\ Tail(items[c]) \in Seq(Texts \union {Blank})
      /\ Items(items[c]) = Items(Tail(items[c])) \union {t}
  BY <1>1, <1>2, <1>3, ItemsTail
<1>5. /\ said[c] \subseteq Items(Tail(items[c])) \union {t} \union StoredTexts \union removed
      /\ Items(Tail(items[c])) \subseteq said[c] \union {Blank}
      /\ t # Blank => said[c] # {}
  BY <1>3, <1>4 DEF Splitting
<1>6. PICK s : s = made'[c]
  OBVIOUS
<1>7. /\ TableOK' /\ Grows /\ EnoughIds' /\ t \in StoredTexts' \union {Blank}
      /\ made' = [made EXCEPT ![c] = s] /\ s \in Seq(Ids)
      /\ s # <<>> => said[c] # {}
      /\ \A p \in Items(s) : p <= given'
  <2>1. CASE t = Blank /\ UNCHANGED <<content, live, given, made>>
    <3>1. UNCHANGED table /\ s = made[c]
      BY <1>1, <1>6, <2>1 DEF table
    <3>2. TableOK' /\ Grows /\ EnoughIds'
      BY <1>1, <3>1, StillTable
    <3>3. made' = [made EXCEPT ![c] = s]
      BY <2>1, <3>1 DEF CycleInv, WorkTypes
    <3>4. QED
      BY <1>3, <2>1, <3>1, <3>2, <3>3 DEF Splitting
  <2>2. CASE /\ t \in StoredTexts /\ UNCHANGED <<content, live, given>>
             /\ made' = [made EXCEPT ![c] = Append(@, CHOOSE i \in Stored : content[i] = t)]
    <3>1. PICK i : i = CHOOSE j \in Stored : content[j] = t
      OBVIOUS
    <3>2. i \in Stored
      BY <2>2, <3>1 DEF StoredTexts
    <3>3. i \in Ids /\ i <= given /\ t # Blank
      <4>1. t \in Texts
        BY <2>2 DEF StoredTexts, Stored, CycleInv, TypeOK
      <4>2. QED
        BY <3>2, <4>1, CycleAssumption DEF Stored, CycleInv, TypeOK
    <3>4. made' = [made EXCEPT ![c] = s] /\ s = Append(made[c], i)
      BY <1>6, <2>2, <3>1 DEF CycleInv, WorkTypes
    <3>5. s \in Seq(Ids) /\ Items(s) = Items(made[c]) \union {i}
      BY <1>3, <3>3, <3>4, ItemsAppend
    <3>6. UNCHANGED table
      BY <1>1, <2>2 DEF table
    <3>7. TableOK' /\ Grows /\ EnoughIds'
      BY <1>1, <3>6, StillTable
    <3>8. StoredTexts' = StoredTexts
      BY <2>2 DEF StoredTexts, Stored
    <3>9. QED
      BY <1>3, <1>5, <2>2, <3>3, <3>4, <3>5, <3>7, <3>8 DEF Splitting
  <2>3. CASE /\ t \notin StoredTexts \union {Blank} /\ New(t)
             /\ made' = [made EXCEPT ![c] = Append(@, given + 1)]
    <3>1. /\ TableOK' /\ given + 1 \in Ids /\ given' = given + 1
          /\ Stored' = Stored \union {given + 1} /\ StoredTexts' = StoredTexts \union {t}
          /\ live' = live \union {given + 1} /\ given' <= Cardinality(Stored') + ops
      BY <1>1, <1>4, <2>3, NewRow
    <3>2. given \in Nat
      BY StoredFinite
    <3>3. Grows /\ EnoughIds'
      BY <1>1, <3>1, <3>2 DEF Grows, EnoughIds
    <3>4. made' = [made EXCEPT ![c] = s] /\ s = Append(made[c], given + 1)
      BY <1>6, <2>3 DEF CycleInv, WorkTypes
    <3>5. s \in Seq(Ids) /\ Items(s) = Items(made[c]) \union {given + 1}
      BY <1>3, <3>1, <3>4, ItemsAppend
    <3>6. \A p \in Items(made[c]) : p \in Nat /\ p <= given
      BY <1>3, ItemsType, IdsBound DEF Splitting
    <3>7. QED
      BY <1>5, <2>3, <3>1, <3>2, <3>3, <3>4, <3>5, <3>6
  <2>4. QED
    BY <1>2, <2>1, <2>2, <2>3 DEF Insert
<1>8. /\ items' \in [Cycles -> Seq(Texts \union {Blank})] /\ made' \in [Cycles -> Seq(Ids)]
      /\ items'[c] = Tail(items[c]) /\ made'[c] = s
      /\ \A d \in Cycles \ {c} : Same(d)
  BY <1>1, <1>4, <1>7 DEF CycleInv, WorkTypes, Same
<1>9. WorkTypes'
  BY <1>1, <1>8 DEF CycleInv, WorkTypes
<1>10. StageOK'
  BY <1>1, <1>3, <1>8, OwnTypes, StageKept
<1>11. Reading(c)' /\ Reporting(c)'
  BY <1>1, <1>3, <1>7, SameList
<1>12. Splitting(c)'
  <2>1. said[c] \subseteq Items(Tail(items[c])) \union StoredTexts' \union removed'
    <3>1. StoredTexts \union removed \subseteq StoredTexts' \union removed' /\ Blank \notin said[c]
      BY <1>3, <1>7, CycleAssumption DEF Grows
    <3>2. QED
      BY <1>5, <1>7, <3>1
  <2>2. QED
    BY <1>1, <1>5, <1>7, <1>8, <2>1 DEF Splitting
<1>13. ReportsCover'
  BY <1>1 DEF CycleInv, ReportsCover
<1>14. QED
  BY <1>1, <1>7, <1>8, <1>9, <1>10, <1>11, <1>12, <1>13, OwnStep

LEMMA LinkPairsLead ==
  ASSUME NEW ids \in Seq(Ids), NEW whole \in Ids, ids # <<>>
  PROVE  /\ LinkPairs(ids, whole) \in Seq(Ids \X Ids)
         /\ \A p \in Items(ids) : <<p, whole>> \in Items(LinkPairs(ids, whole))
<1>1. PICK k : k = Len(ids)
  OBVIOUS
<1>2. k \in Nat \ {0} /\ DOMAIN ids = 1..k /\ \A n \in 1..k : ids[n] \in Ids
  BY <1>1, EmptySeq, LenProperties, ElementOfSeq
<1>3. PICK u, v : /\ u = [n \in 1..(k - 1) |-> <<ids[n], ids[n + 1]>>]
                  /\ v = [n \in 1..k |-> <<ids[n], whole>>]
  OBVIOUS
<1>4. u \in Seq(Ids \X Ids) /\ Len(u) = k - 1
  <2>1. \A n \in 1..(k - 1) : <<ids[n], ids[n + 1]>> \in Ids \X Ids
    BY <1>2
  <2>2. QED
    BY <1>2, <1>3, <2>1
<1>5. v \in Seq(Ids \X Ids) /\ Len(v) = k
  <2>1. \A n \in 1..k : <<ids[n], whole>> \in Ids \X Ids
    BY <1>2
  <2>2. QED
    BY <1>2, <1>3, <2>1
<1>6. LinkPairs(ids, whole) = u \o v
  BY <1>1, <1>3 DEF LinkPairs
<1>7. /\ u \o v \in Seq(Ids \X Ids) /\ Len(u \o v) = (k - 1) + k
      /\ \A n \in 1..((k - 1) + k) : (u \o v)[n] = IF n <= k - 1 THEN u[n] ELSE v[n - (k - 1)]
  <2>1. /\ u \o v \in Seq(Ids \X Ids) /\ Len(u \o v) = Len(u) + Len(v)
        /\ \A n \in 1..(Len(u) + Len(v)) :
             (u \o v)[n] = IF n <= Len(u) THEN u[n] ELSE v[n - Len(u)]
    BY <1>4, <1>5, ConcatProperties
  <2>2. QED
    BY <1>4, <1>5, <2>1
<1>8. ASSUME NEW n \in 1..k  PROVE <<ids[n], whole>> \in Items(u \o v)
  <2>1. /\ n + (k - 1) \in 1..((k - 1) + k) /\ ~ (n + (k - 1) <= k - 1)
        /\ (n + (k - 1)) - (k - 1) = n
    BY <1>2
  <2>2. (u \o v)[n + (k - 1)] = v[n]
    BY <1>7, <2>1
  <2>3. v[n] = <<ids[n], whole>>
    BY <1>3
  <2>4. DOMAIN (u \o v) = 1..((k - 1) + k)
    BY <1>7, LenProperties
  <2>5. QED
    BY <2>1, <2>2, <2>3, <2>4 DEF Items
<1>9. QED
  BY <1>2, <1>6, <1>7, <1>8 DEF Items

LEMMA InsertedInv ==
  ASSUME CycleInv, NEW c \in Cycles, Inserted(c)
  PROVE  CycleInv'
<1>1. /\ pc[c] = "insert" /\ items[c] = <<>> /\ UNCHANGED <<table, report, history, ops>>
      /\ UNCHANGED <<seen, fb, mark, split, overtaken, removed, unlinked, counted, between,
                     anchored>>
  BY DEF Inserted, report, history, table
<1>2. pc[c] \in Busy
  BY <1>1 DEF Busy
<1>3. CASE NextCandidate(c)
  BY <1>1, <1>2, <1>3, NextTurnInv
<1>4. CASE /\ Len(made[c]) >= MinItems
           /\ todo' = [todo EXCEPT ![c] = LinkPairs(made[c], list[c][1].id)]
           /\ Goto(c, "link") /\ UNCHANGED <<list, items, made, said>>
  <2>1. PICK i : i = list[c][1].id
    OBVIOUS
  <2>2. PICK s : s = LinkPairs(made[c], i)
    OBVIOUS
  <2>3. made[c] \in Seq(Ids) /\ i \in Ids /\ Splitting(c) /\ list[c] # <<>>
    BY <1>2, <2>1, OwnTypes
  <2>4. made[c] # <<>>
    BY <1>4, EmptySeq, CycleAssumption
  <2>5. s \in Seq(Ids \X Ids) /\ \A p \in Items(made[c]) : <<p, i>> \in Items(s)
    BY <2>2, <2>3, <2>4, LinkPairsLead
  <2>6. /\ pc' \in [Cycles -> Labels] /\ todo' \in [Cycles -> Seq(Ids \X Ids)]
        /\ pc'[c] = "link" /\ todo'[c] = s /\ \A d \in Cycles \ {c} : Same(d)
    BY <1>1, <1>4, <2>1, <2>2, <2>5 DEF Goto, CycleInv, WorkTypes, Labels, Same
  <2>7. WorkTypes'
    BY <1>1, <1>4, <2>6 DEF CycleInv, WorkTypes
  <2>8. pc'[c] \in Labels /\ pc'[c] \in Busy
    BY <2>6 DEF Labels, Busy
  <2>9. StageOK'
    BY <1>1, <1>4, <2>3, <2>6, <2>8, StageKept
  <2>10. Grows /\ UNCHANGED content
    BY <1>1, StillTable
  <2>11. Reading(c)' /\ Reporting(c)'
    BY <1>1, <1>2, <1>4, <2>8, <2>10, SameList
  <2>12. Splitting(c)'
    <3>1. Leading(c)'
      BY <1>4, <2>1, <2>5, <2>6 DEF Leading
    <3>2. StoredTexts' = StoredTexts /\ given' = given
      BY <1>1, <2>10 DEF StoredTexts, Stored, table
    <3>3. QED
      BY <1>1, <1>4, <2>3, <2>4, <2>6, <3>1, <3>2 DEF Splitting
  <2>13. ReportsCover'
    BY <1>1 DEF CycleInv, ReportsCover
  <2>14. QED
    BY <1>1, <2>6, <2>7, <2>9, <2>11, <2>12, <2>13, StillStep
<1>5. QED
  BY <1>3, <1>4 DEF Inserted

LEMMA LinkNextInv ==
  ASSUME CycleInv, NEW c \in Cycles, LinkNext(c)
  PROVE  CycleInv'
<1>1. /\ pc[c] = "link" /\ todo[c] # <<>>
      /\ todo' = [todo EXCEPT ![c] = Tail(todo[c])]
      /\ UNCHANGED <<content, live, anchored, given, report, pc, list, items, made, said, split,
                     overtaken, removed, counted, between, ops>>
      /\ UNCHANGED <<fb, mark, seen>>
  BY DEF LinkNext, report
<1>2. PICK l : l = Head(todo[c])
  OBVIOUS
<1>3. \/ /\ links' = links \union {k \in {l} : {k[1], k[2]} \subseteq Stored}
         /\ unlinked' = unlinked
      \/ unlinked' = unlinked \union {l[2]} /\ links' = links
  BY <1>2 DEF LinkNext
<1>4. /\ todo[c] \in Seq(Ids \X Ids) /\ pc[c] \in Busy /\ Splitting(c)
      /\ Items(made[c]) \subseteq Ids /\ list[c] # <<>>
  BY <1>1, OwnTypes, ItemsType DEF Busy
<1>5. /\ l \in Ids \X Ids /\ Tail(todo[c]) \in Seq(Ids \X Ids)
      /\ Items(todo[c]) = Items(Tail(todo[c])) \union {l}
  BY <1>1, <1>2, <1>4, ItemsTail
<1>6. Stored' = Stored /\ StoredTexts' = StoredTexts
  BY <1>1 DEF Stored, StoredTexts
<1>7. TableOK'
  <2>1. links' \subseteq Stored \X Stored
    BY <1>3, <1>5 DEF CycleInv, TypeOK
  <2>2. QED
    BY <1>1, <1>6, <2>1 DEF TableOK, CycleInv, TypeOK
<1>8. EnoughIds' /\ Grows
  BY <1>1, <1>3, <1>6, StoredFinite DEF EnoughIds, CycleInv, Grows
<1>9. /\ todo' \in [Cycles -> Seq(Ids \X Ids)] /\ todo'[c] = Tail(todo[c])
      /\ \A d \in Cycles \ {c} : Same(d)
  BY <1>1, <1>5 DEF CycleInv, WorkTypes, Same
<1>10. WorkTypes'
  BY <1>1, <1>9 DEF CycleInv, WorkTypes
<1>11. StageOK'
  BY <1>1, <1>4, <1>9, OwnTypes, StageKept
<1>12. Reading(c)' /\ Reporting(c)'
  BY <1>1, <1>4, <1>8, SameList
<1>13. Leading(c)'
  <2> SUFFICES ASSUME NEW i \in Ids, NEW p \in Ids, i = list[c][1].id, i \notin unlinked',
                      p \in Items(made[c]), {i, p} \subseteq Stored
               PROVE  <<p, i>> \in links' \union Items(Tail(todo[c]))
    BY <1>1, <1>6, <1>9 DEF Leading
  <2>1. i \notin unlinked /\ links \subseteq links'
    BY <1>3
  <2>2. <<p, i>> \in links \union Items(todo[c])
    BY <1>1, <1>4, <2>1 DEF Splitting, Leading
  <2>3. CASE l # <<p, i>>
    BY <1>5, <2>1, <2>2, <2>3
  <2>4. CASE l = <<p, i>>
    <3>1. l[1] = p /\ l[2] = i
      BY <2>4
    <3>2. l \in links'
      BY <1>3, <3>1
    <3>3. QED
      BY <2>4, <3>2
  <2>5. QED
    BY <2>3, <2>4
<1>14. Splitting(c)'
  BY <1>1, <1>4, <1>6, <1>13 DEF Splitting
<1>15. ReportsCover'
  BY <1>1 DEF CycleInv, ReportsCover
<1>16. QED
  BY <1>1, <1>7, <1>8, <1>9, <1>10, <1>11, <1>12, <1>14, <1>15, OwnStep

\* The one step that replaces a fragment.
LEMMA RetireInv ==
  ASSUME CycleInv, NEW c \in Cycles, Retire(c)
  PROVE  CycleInv'
<1>1. PICK i : i = list[c][1].id
  OBVIOUS
<1>2. /\ pc[c] = "link" /\ todo[c] = <<>> /\ NextCandidate(c)
      /\ UNCHANGED <<content, anchored, given, links, report, removed, unlinked, counted,
                     between, ops>>
      /\ UNCHANGED <<fb, mark, seen>>
  BY DEF Retire, report
<1>3. /\ pc[c] \in Busy /\ i \in Ids /\ i <= given /\ 1 \in 1..Len(list[c])
      /\ i \notin overtaken => split[i].times = 0
      /\ items[c] = <<>> /\ made[c] # <<>> /\ said[c] # {} /\ Leading(c)
      /\ said[c] \subseteq StoredTexts \union removed /\ said[c] \subseteq Texts
      /\ Items(made[c]) \subseteq Ids /\ \A p \in Items(made[c]) : p <= given
      /\ list[c] # <<>>
  <2>1. pc[c] \in Busy
    BY <1>2 DEF Busy
  <2>2. /\ 1 \in 1..Len(list[c]) /\ i \in Ids /\ Reading(c) /\ Splitting(c)
        /\ said[c] \subseteq Texts /\ made[c] \in Seq(Ids) /\ list[c] # <<>>
    BY <1>1, <2>1, OwnTypes
  <2>3. i <= given /\ (i \notin overtaken => split[i].times = 0)
    BY <1>1, <2>2 DEF Reading
  <2>4. /\ items[c] = <<>> /\ made[c] # <<>> /\ said[c] # {} /\ Leading(c)
        /\ said[c] \subseteq StoredTexts \union removed
        /\ \A p \in Items(made[c]) : p <= given
    BY <1>2, <2>2, ItemsEmpty DEF Splitting
  <2>5. QED
    BY <2>1, <2>2, <2>3, <2>4, ItemsType
<1>4. CASE i \notin Stored
  <2>1. UNCHANGED <<live, split, overtaken>>
    BY <1>1, <1>4 DEF Retire
  <2>2. UNCHANGED <<table, report, history, ops>>
    BY <1>2, <2>1 DEF table, history
  <2>3. QED
    BY <1>2, <1>3, <2>2, NextTurnInv
<1>5. CASE i \in Stored
  <2>1. PICK r : r = [times |-> split[i].times + 1, texts |-> said[c],
                      parts |-> Items(made[c])]
    OBVIOUS
  <2>2. /\ live' = live \ {i} /\ split' = [split EXCEPT ![i] = r]
        /\ overtaken' = overtaken \union {j \in {i} : Listing(j) # {c}}
    BY <1>1, <1>5, <2>1 DEF Retire
  <2>3. /\ split \in [Ids -> [times : Nat, texts : SUBSET Texts, parts : SUBSET Ids]]
        /\ live \subseteq Stored /\ anchored \subseteq Stored /\ overtaken \subseteq Ids
    BY DEF CycleInv, WorkTypes, TypeOK
  <2>4. /\ r \in [times : Nat, texts : SUBSET Texts, parts : SUBSET Ids]
        /\ r.times = split[i].times + 1 /\ r.texts = said[c] /\ r.parts = Items(made[c])
        /\ r.times > 0
    BY <1>3, <2>1, <2>3
  <2>5. /\ split' \in [Ids -> [times : Nat, texts : SUBSET Texts, parts : SUBSET Ids]]
        /\ split'[i] = r /\ \A j \in Ids : j # i => split'[j] = split[j]
    BY <1>3, <2>2, <2>3, <2>4
  <2>6. TableOK' /\ Stored' = Stored /\ StoredTexts' = StoredTexts
    BY <1>2, <2>2, <2>3, SameRows
  <2>7. overtaken \subseteq overtaken' /\ overtaken' \subseteq Ids
    BY <1>3, <2>2, <2>3
  <2>8. EnoughIds' /\ Grows
    BY <1>2, <2>2, <2>6, <2>7, StoredFinite DEF EnoughIds, CycleInv, Grows
  <2>9. ASSUME NEW n \in 2..Len(list[c])
        PROVE  split'[list[c][n].id].times = split[list[c][n].id].times
    <3>1. n \in 1..Len(list[c]) /\ n # 1
      BY <1>3
    <3>2. list[c][n].id # i /\ list[c][n].id \in Ids
      BY <1>1, <1>3, <3>1, OwnTypes DEF Reading
    <3>3. QED
      BY <2>5, <3>2
  <2>10. /\ WorkTypes' /\ \A d \in Cycles \ {c} : Same(d)
         /\ pc'[c] \in Labels /\ (list'[c] # <<>> <=> pc'[c] \in Busy)
         /\ Reading(c)' /\ Splitting(c)' /\ Reporting(c)'
    BY <1>2, <1>3, <2>5, <2>7, <2>8, <2>9, NextTurn
  <2>11. StageOK' /\ ReportsCover'
    BY <1>2, <2>10, StageKept DEF CycleInv, ReportsCover
  <2>12. ASSUME NEW d \in Cycles \ {c}  PROVE Undisturbed(d)
    <3>1. list[d] \in Seq(Candidates)
      BY OwnTypes
    <3>2. ASSUME NEW n \in 1..Len(list[d]), list[d][n].id \notin overtaken'
          PROVE  split'[list[d][n].id].times = split[list[d][n].id].times
      <4>1. d \in Listing(list[d][n].id)
        BY <3>1, LenProperties DEF Listing
      <4>2. list[d][n].id # i
        BY <2>2, <3>2, <4>1
      <4>3. list[d][n].id \in Ids
        BY OwnTypes
      <4>4. QED
        BY <2>5, <4>2, <4>3
    <3>3. QED
      BY <1>2, <2>10, <3>2 DEF Undisturbed
  <2>13. \A d \in Cycles : Reading(d)' /\ Splitting(d)' /\ Reporting(d)'
    BY <2>8, <2>10, <2>12, OthersKept
  <2>14. SplitKnown'
    <3>1. ASSUME NEW j \in Ids, j > given \/ j \in live'  PROVE split'[j].times = 0
      <4>1. j # i
        BY <1>3, <2>2, <3>1, IdsBound, StoredFinite
      <4>2. split[j].times = 0
        BY <2>2, <3>1 DEF CycleInv, SplitKnown
      <4>3. QED
        BY <2>5, <4>1, <4>2
    <3>2. ASSUME NEW j \in Ids, NEW p \in Ids, p \in split'[j].parts  PROVE p <= given
      <4>1. CASE j = i
        BY <1>3, <2>4, <2>5, <3>2, <4>1
      <4>2. CASE j # i
        BY <2>5, <3>2, <4>2 DEF CycleInv, SplitKnown
      <4>3. QED
        BY <4>1, <4>2
    <3>3. QED
      BY <1>2, <3>1, <3>2 DEF SplitKnown
  <2>15. Replaced' = Replaced \union {i}
    BY <1>3, <2>4, <2>5 DEF Replaced
  <2>16. NoTextLost'
    <3>1. ASSUME NEW j \in Replaced' \ overtaken'
          PROVE  split'[j].texts # {} /\ split'[j].texts \subseteq StoredTexts' \union removed'
      <4>1. CASE j = i
        BY <1>2, <1>3, <2>4, <2>5, <2>6, <4>1
      <4>2. CASE j # i
        <5>1. j \in Replaced \ overtaken /\ j \in Ids
          BY <2>7, <2>15, <3>1, <4>2 DEF Replaced
        <5>2. split[j].texts # {} /\ split[j].texts \subseteq StoredTexts \union removed
          BY <5>1 DEF CycleInv, NoTextLost
        <5>3. QED
          BY <1>2, <2>5, <2>6, <4>2, <5>1, <5>2
      <4>3. QED
        BY <4>1, <4>2
    <3>2. QED
      BY <3>1 DEF NoTextLost
  <2>17. PartsLinked'
    <3>1. ASSUME NEW j \in (Replaced' \intersect Stored) \ (overtaken' \union unlinked),
                 NEW p \in split'[j].parts \intersect Stored
          PROVE  <<p, j>> \in links
      <4>1. CASE j = i
        <5>1. p \in Items(made[c]) /\ p \in Ids
          BY <2>4, <2>5, <3>1, <4>1 DEF Stored
        <5>2. <<p, i>> \in links \union Items(todo[c])
          BY <1>1, <1>3, <3>1, <4>1, <5>1 DEF Leading
        <5>3. QED
          BY <1>2, <4>1, <5>2, ItemsEmpty
      <4>2. CASE j # i
        <5>1. j \in (Replaced \intersect Stored) \ (overtaken \union unlinked) /\ j \in Ids
          BY <2>7, <2>15, <3>1, <4>2 DEF Replaced
        <5>2. p \in split[j].parts
          BY <2>5, <3>1, <4>2, <5>1
        <5>3. QED
          BY <3>1, <5>1, <5>2 DEF CycleInv, PartsLinked
      <4>3. QED
        BY <4>1, <4>2
    <3>2. QED
      BY <1>2, <2>6, <3>1 DEF PartsLinked
  <2>18. ReplacedOnce'
    <3>1. ASSUME NEW j \in Replaced' \ overtaken'  PROVE split'[j].times = 1
      <4>1. CASE j = i
        <5>1. split[i].times = 0
          BY <1>3, <2>7, <3>1, <4>1
        <5>2. QED
          BY <2>4, <2>5, <4>1, <5>1
      <4>2. CASE j # i
        <5>1. j \in Replaced \ overtaken /\ j \in Ids
          BY <2>7, <2>15, <3>1, <4>2 DEF Replaced
        <5>2. QED
          BY <2>5, <4>2, <5>1 DEF CycleInv, ReplacedOnce
      <4>3. QED
        BY <4>1, <4>2
    <3>2. QED
      BY <3>1 DEF ReplacedOnce
  <2>19. QED
    BY <2>6, <2>8, <2>10, <2>11, <2>13, <2>14, <2>16, <2>17, <2>18, TypeParts DEF CycleInv
<1>6. QED
  BY <1>4, <1>5

LEMMA RestartInv ==
  ASSUME CycleInv, Restart
  PROVE  CycleInv'
<1>1. /\ pc' = [c \in Cycles |-> "idle"] /\ list' = [c \in Cycles |-> <<>>]
      /\ items' = list' /\ made' = list' /\ todo' = list'
      /\ said' = [c \in Cycles |-> {}] /\ seen' = [c \in Cycles |-> <<0, 0>>]
      /\ UNCHANGED <<table, fb, mark, history, ops>>
      /\ UNCHANGED <<split, overtaken, removed, unlinked, counted, between, anchored>>
  BY DEF Restart, history, table
<1>2. TableOK' /\ EnoughIds' /\ Grows
  BY <1>1, StillTable
<1>3. WorkTypes'
  BY <1>1, EmptySeq DEF CycleInv, WorkTypes, Labels
<1>4. \A c \in Cycles :
        /\ pc'[c] = "idle" /\ list'[c] = <<>> /\ items'[c] = <<>> /\ made'[c] = <<>>
        /\ todo'[c] = <<>> /\ said'[c] = {} /\ seen'[c] = <<0, 0>>
  BY <1>1
<1>5. StageOK'
  BY <1>1, <1>4 DEF CycleInv, TypeOK, WorkTypes, StageOK, Labels
<1>6. ReportsCover'
  BY <1>1 DEF CycleInv, ReportsCover
<1>7. Len(<<>>) = 0
  BY EmptySeq
<1>8. \A c \in Cycles : Reading(c)' /\ Splitting(c)' /\ Reporting(c)'
  BY <1>4, <1>7, ItemsEmpty DEF Reading, Splitting, Reporting
<1>9. PICK M : M = Cycles
  OBVIOUS
<1>10. /\ \A d \in Cycles \ M : Undisturbed(d)
       /\ \A d \in Cycles \intersect M : Reading(d)' /\ Splitting(d)' /\ Reporting(d)'
  BY <1>8, <1>9
<1>11. QED
  BY <1>1, <1>2, <1>3, <1>5, <1>6, <1>10, TypeParts, Assembled

LEMMA SameInv ==
  ASSUME CycleInv, UNCHANGED vars
  PROVE  CycleInv'
<1>1. UNCHANGED <<table, report, pc, work, history, ops>>
  BY DEF vars
<1>2. /\ UNCHANGED <<fb, mark, seen, list, items, made, todo, said>>
      /\ UNCHANGED <<split, overtaken, removed, unlinked, counted, between>>
  BY <1>1 DEF report, work, history
<1>3. TableOK' /\ EnoughIds' /\ Grows /\ UNCHANGED anchored
  BY <1>1, <1>2, StillTable
<1>4. WorkTypes' /\ StageOK' /\ ReportsCover'
  BY <1>1, <1>2, TypeParts DEF CycleInv, WorkTypes, StageOK, ReportsCover
<1>5. PICK M : M = {}
  OBVIOUS
<1>6. /\ \A d \in Cycles \ M : Undisturbed(d)
      /\ \A d \in Cycles \intersect M : Reading(d)' /\ Splitting(d)' /\ Reporting(d)'
  BY <1>1, <1>2, <1>3, <1>5 DEF Undisturbed, Same
<1>7. QED
  BY <1>2, <1>3, <1>4, <1>6, TypeParts, Assembled

LEMMA StepInv == CycleInv /\ [Next]_vars => CycleInv'
<1> SUFFICES ASSUME CycleInv, [Next]_vars  PROVE CycleInv'
  OBVIOUS
<1>1. ASSUME NEW c \in Cycles, Step(c)  PROVE CycleInv'
  BY <1>1, ReadCandidatesInv, AnswerInv, InsertInv, InsertedInv, LinkNextInv, RetireInv,
     PromoteInv, StatsInv, WriteReportInv, WriteMarkInv DEF Step
<1>2. CASE \/ \E t \in Texts : Remember(t) \/ \E i \in Ids : Amend(i, t)
           \/ \E i \in Ids : Pin(i) \/ Forget(i) \/ Supersede(i)
           \/ Feedback
  BY <1>2, RememberInv, AmendInv, PinInv, ForgetInv, SupersedeInv, FeedbackInv
<1>3. CASE UNCHANGED vars
  BY <1>3, SameInv
<1>4. QED
  BY <1>1, <1>2, <1>3, StartInv, FragmentFailsInv, ReportFailsInv, RestartInv DEF Next

LEMMA CycleInvHolds == Spec => []CycleInv
  BY InitInv, StepInv, PTL DEF Spec

-----------------------------------------------------------------------------
(* Theorems.                                                                 *)

\* A split is whole, whatever other cycles, clients and the contradiction stage do
\* while the model is asked and the parts are inserted and linked: the parts lead to
\* the fragment they replace, and _splitLongFragments replaces it once.
THEOREM SplitsAreSound == Spec => []SplitSound
<1>1. CycleInv => SplitSound
  BY DEF CycleInv, SplitSound
<1>2. QED
  BY <1>1, CycleInvHolds, PTL

\* _splitLongFragments loses no text: what the answer gave is stored when the
\* fragment it came from is retired, however inserts fail and cycles overlap.
THEOREM SplitsLoseNothing == Spec => []NoTextLost
<1>1. CycleInv => NoTextLost
  BY DEF CycleInv
<1>2. QED
  BY <1>1, CycleInvHolds, PTL

\* Feedback below the watermark of _generateFeedbackReport was reported, or came in
\* between the query and the watermark.
THEOREM ReportsLeaveNoGap == Spec => []ReportsCover
<1>1. CycleInv => ReportsCover
  BY DEF CycleInv
<1>2. QED
  BY <1>1, CycleInvHolds, PTL

\* A split retires an anchor only if it was pinned or promoted while the model was
\* asked: the query of _splitLongFragments leaves anchors out, its UPDATE does not.
THEOREM SplitsSpareAnchors == Spec => AnchorsStand
<1>1. ASSUME CycleInv, [Next]_vars, NEW i \in anchored, split'[i] # split[i]
      PROVE  i \in overtaken
  <2>1. CASE UNCHANGED split
    BY <1>1, <2>1
  <2>2. ASSUME NEW c \in Cycles, Retire(c)  PROVE i \in overtaken
    <3>1. 1 \in 1..Len(list[c]) /\ Reading(c) /\ list[c][1].id \in Ids
      BY <1>1, <2>2, OwnTypes DEF Retire, Busy
    <3>2. PICK j : j = list[c][1].id
      OBVIOUS
    <3>3. \A k \in Ids : k # j => split'[k] = split[k]
      BY <1>1, <2>2, <3>2 DEF Retire, CycleInv, WorkTypes
    <3>4. i \in Ids
      BY <1>1 DEF CycleInv, TypeOK, Stored
    <3>5. i = j
      BY <1>1, <3>3, <3>4
    <3>6. j \notin overtaken => j \notin anchored
      BY <3>1, <3>2 DEF Reading
    <3>7. QED
      BY <1>1, <3>5, <3>6
  <2>3. ASSUME NEW c \in Cycles,
               Start(c) \/ NoModel(c) \/ StageFails(c) \/ FragmentFails(c) \/ ReportFails(c)
        PROVE  UNCHANGED split
    BY <2>3 DEF Start, NoModel, StageFails, FragmentFails, ReportFails, history
  <2>4. ASSUME NEW c \in Cycles, Step(c), ~ Retire(c)  PROVE UNCHANGED split
    BY <2>4 DEF Step, ReadCandidates, Answer, Insert, Inserted, LinkNext, Promote, Stats,
                WriteReport, WriteMark, history
  <2>5. CASE \/ \E t \in Texts : Remember(t) \/ \E k \in Ids : Amend(k, t)
             \/ \E k \in Ids : Pin(k) \/ Forget(k) \/ Supersede(k)
             \/ Feedback \/ Restart \/ UNCHANGED vars
    BY <2>1, <2>5
    DEF Remember, Amend, Pin, Forget, Supersede, Op, Feedback, Restart, vars, history
  <2>6. QED
    BY <1>1, <2>1, <2>2, <2>3, <2>4, <2>5 DEF Next
<1>2. CycleInv /\ [Next]_vars => [\A i \in anchored : split'[i] # split[i] => i \in overtaken]_vars
  BY <1>1
<1>3. QED
  BY <1>2, CycleInvHolds, PTL DEF Spec, AnchorsStand
=============================================================================
