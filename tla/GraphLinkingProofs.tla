-------------------------- MODULE GraphLinkingProofs --------------------------
(***************************************************************************)
(* Proofs about GraphLinking, for any fragments, similarities and sessions,*)
(* any number of handlers and passes, failures and restarts, with only     *)
(* LinkingAssumption assumed: the types, with the foreign keys; that a     *)
(* retired fragment leads on to the one that replaced it, and in the end   *)
(* to one that stands; and that reflect joins the pairs of its session.    *)
(***************************************************************************)
EXTENDS GraphLinking, WellFoundedInduction, FiniteSetTheorems, TLAPS

\* What a worker has in hand: its step says which of its registers are filled.
WorkType ==
  /\ step \in [Workers -> {"idle", "store", "read", "check", "insert",
                           "from", "to", "retire"}]
  /\ of \in [Workers -> {<<>>} \union {<<f>> : f \in Frag}]
  /\ todo \in [Workers -> Seq(Links)] /\ batch \in [Workers -> Seq(Frag)]

AtLink == {"check", "insert", "from", "to", "retire"}

Busy ==
  \A w \in Workers : /\ step[w] \in AtLink => todo[w] # <<>>
                     /\ step[w] = "read" => of[w] # <<>>

\* A relation of replacement is planned, and stands, only between fragments of
\* which one replaces the other; and between those no other relation does.
Fair(l) == l.rel = "superseded_by" <=> Replaces(l.to, l.from)

Planned == \A w \in Workers : \A n \in DOMAIN todo[w] : Fair(todo[w][n])

Standing ==
  \A f, g \in Frag :
    rel[<<f, g>>] # "none" => (rel[<<f, g>>] = "superseded_by" <=> Replaces(g, f))

\* A link that is drawn is there until one of its ends is deleted.
Drawn ==
  \A w \in Workers : step[w] \in {"from", "to", "retire"} =>
    \/ rel[<<Hand(w).from, Hand(w).to>>] # "none"
    \/ Hand(w).from \in gone \/ Hand(w).to \in gone

Retiring ==
  \A w \in Workers : step[w] = "retire" => Hand(w).rel = "superseded_by"

WorkInv == WorkType /\ Busy /\ Planned

LinkInv ==
  TypeOK /\ Busy /\ Planned /\ Standing /\ Drawn /\ Retiring /\ RetiredLeadsOn

\* A step of w leaves the other workers what they have in hand.
Apart(w) == \A v \in Workers \ {w} : step'[v] = step[v] /\ todo'[v] = todo[v]

-----------------------------------------------------------------------------
(* The links that are planned.                                              *)

\* A product of two sequences pairs their elements.
LEMMA ProductPairs ==
  ASSUME NEW s \in Seq(Frag), NEW t \in Seq(Frag), NEW r \in Rels
  PROVE  /\ Product(s, t, r) \in Seq(Links)
         /\ \A n \in DOMAIN Product(s, t, r) :
              \E i \in DOMAIN s, j \in DOMAIN t : Product(s, t, r)[n] = Link(s[i], t[j], r)
<1> DEFINE a == Len(s)
           b == Len(t)
           i(n) == ((n - 1) \div b) + 1
           j(n) == ((n - 1) % b) + 1
<1>1. a \in Nat /\ b \in Nat /\ a * b \in Nat
  OBVIOUS
<1>2. ASSUME NEW n \in 1..(a * b)  PROVE i(n) \in 1..a /\ j(n) \in 1..b
  <2>1. b > 0
    <3>1. CASE b = 0
      <4>1. a * b = 0  BY <1>1, <3>1
      <4> QED  BY <4>1, <1>2
    <3> QED  BY <1>1, <3>1
  <2> DEFINE q == (n - 1) \div b
             m == (n - 1) % b
  <2>2. /\ q \in Int /\ m \in 0..(b - 1)
        /\ n - 1 = b * q + m
    BY <2>1, <1>1
  <2>3. q >= 0  
    BY <2>1, <1>1, <2>2
  <2>4. q < a
    <3>1. SUFFICES ASSUME q >= a PROVE FALSE  BY <2>2, <1>1
    <3> HIDE DEF q, m
    <3>2. \A x, y, z \in Nat : x >= y => z * x >= z * y  OBVIOUS
    <3>3. b * q >= b * a  BY <3>1, <3>2, <2>2, <2>3, <1>1
    <3>4. b * a = a * b  BY <1>1
    <3> QED  BY <3>3, <3>4, <2>2, <1>1
  <2> QED  BY <2>2, <2>3, <2>4, <1>1
<1>3. \A n \in 1..(a * b) : s[i(n)] \in Frag /\ t[j(n)] \in Frag
  BY <1>2
<1>4. Product(s, t, r) = [n \in 1..(a * b) |-> Link(s[i(n)], t[j(n)], r)]
  BY DEF Product
<1> HIDE DEF a, b, i, j
<1>5. \A n \in 1..(a * b) : Link(s[i(n)], t[j(n)], r) \in Links
  BY <1>3 DEF Link, Links
<1>6. i(1) = i(1) /\ DOMAIN s = 1..a /\ DOMAIN t = 1..b
  BY DEF a, b
<1> QED  BY <1>1, <1>2, <1>4, <1>5, <1>6

LEMMA SessionPlan ==
  /\ SessionLinks \in Seq(Links)
  /\ \A n \in DOMAIN SessionLinks : Fair(SessionLinks[n])
<1> DEFINE P == Product(Session["error"], Session["decision"], "caused_by")
           Q == Product(Session["procedure"], Session["error"], "resolved_by")
<1>1. Session["error"] \in Seq(Frag) /\ Session["decision"] \in Seq(Frag)
        /\ Session["procedure"] \in Seq(Frag)
  BY LinkingAssumption DEF LinkingAssumption, Kinds
<1>r1. "caused_by" \in Rels /\ "resolved_by" \in Rels
  BY DEF Rels
<1>2. /\ P \in Seq(Links)
      /\ \A n \in DOMAIN P : \E i \in DOMAIN Session["error"], j \in DOMAIN Session["decision"] :
           P[n] = Link(Session["error"][i], Session["decision"][j], "caused_by")
  BY <1>1, <1>r1, ProductPairs
<1>3. /\ Q \in Seq(Links)
      /\ \A n \in DOMAIN Q : \E i \in DOMAIN Session["procedure"], j \in DOMAIN Session["error"] :
           Q[n] = Link(Session["procedure"][i], Session["error"][j], "resolved_by")
  BY <1>1, <1>r1, ProductPairs
<1>4. \A k \in Kinds : \A n \in DOMAIN Session[k] : Kind[Session[k][n]] = k
  BY LinkingAssumption DEF LinkingAssumption
<1> HIDE DEF P, Q
<1>5. \A n \in DOMAIN P : Fair(P[n])
  BY <1>2, <1>4 DEF Fair, Link, Replaces, Kinds
<1>6. \A n \in DOMAIN Q : Fair(Q[n])
  BY <1>3, <1>4 DEF Fair, Link, Replaces, Kinds
<1>7. SessionLinks = P \o Q
  BY DEF SessionLinks, P, Q
<1>8. \A n \in DOMAIN (P \o Q) : Fair((P \o Q)[n])
  <2> SUFFICES ASSUME NEW n \in DOMAIN (P \o Q) PROVE Fair((P \o Q)[n])
    OBVIOUS
  <2>1. CASE n \in DOMAIN P
    <3>1. (P \o Q)[n] = P[n]  BY <2>1, <1>2, <1>3
    <3> QED  BY <3>1, <2>1, <1>5
  <2>2. CASE n \notin DOMAIN P
    <3>1. (P \o Q)[n] = Q[n - Len(P)] /\ n - Len(P) \in DOMAIN Q  BY <2>2, <1>2, <1>3
    <3> QED  BY <3>1, <1>6
  <2> QED  BY <2>1, <2>2
<1> QED  BY <1>2, <1>3, <1>7, <1>8

\* An answer of ORDER BY and LIMIT is a sequence of rows, and not empty.
LEMMA FirstRowsSeq ==
  ASSUME NEW S, NEW limit \in Nat, NEW rank, NEW s \in FirstRows(S, limit, rank)
  PROVE  s \in Seq(S) /\ s # <<>> /\ Len(s) \in Nat /\ DOMAIN s = 1..Len(s) /\ 1 \in DOMAIN s
<1>1. PICK n \in 1..limit : s \in [1..n -> S]
  BY DEF FirstRows
<1> QED  BY <1>1

\* The candidates' relations are fair.
LEMMA RelationFair ==
  ASSUME NEW f \in Frag, NEW g \in Frag
  PROVE  Link(g, f, RelationOf(f, g)) \in Links /\ Fair(Link(g, f, RelationOf(f, g)))
BY DEF Link, Links, Rels, RelationOf, Fair

-----------------------------------------------------------------------------
(* What a step does to the work in hand.                                    *)

\* A worker with a link to make has one of the right shape in hand.
LEMMA InHand ==
  ASSUME WorkInv, NEW w \in Workers, step[w] \in AtLink
  PROVE  /\ Hand(w) \in Links /\ Hand(w).from \in Frag /\ Hand(w).to \in Frag
         /\ Hand(w).rel \in Rels /\ Fair(Hand(w))
<1>1. todo[w] \in Seq(Links) /\ todo[w] # <<>>
  BY DEF WorkInv, WorkType, Busy
<1>2. 1 \in DOMAIN todo[w] /\ Hand(w) = todo[w][1] /\ Hand(w) \in Links
  BY <1>1 DEF Hand
<1>3. Fair(Hand(w))
  BY <1>2 DEF WorkInv, Planned
<1> QED  BY <1>2, <1>3 DEF Links

\* Moving on to another statement for the link in hand.
LEMMA GotoWork ==
  ASSUME WorkInv, NEW w \in Workers, step[w] \in AtLink, NEW s \in AtLink, Goto(w, s)
  PROVE  WorkInv' /\ Apart(w) /\ step'[w] = s /\ Hand(w)' = Hand(w)
<1>1. /\ step' = [step EXCEPT ![w] = s] /\ of' = of /\ todo' = todo /\ batch' = batch
      /\ step \in [Workers -> {"idle", "store", "read", "check", "insert",
                                "from", "to", "retire"}]
  BY DEF Goto, WorkInv, WorkType
<1>2. step'[w] = s /\ \A v \in Workers \ {w} : step'[v] = step[v]
  BY <1>1
<1>3. WorkType'
  BY <1>1 DEF WorkInv, WorkType, AtLink
<1>4. Busy'
  <2> SUFFICES ASSUME NEW v \in Workers
               PROVE  /\ step'[v] \in AtLink => todo'[v] # <<>>
                      /\ step'[v] = "read" => of'[v] # <<>>
    BY DEF Busy
  <2>1. CASE v = w  BY <2>1, <1>1, <1>2 DEF WorkInv, Busy, AtLink
  <2>2. CASE v # w  BY <2>2, <1>1, <1>2 DEF WorkInv, Busy
  <2> QED  BY <2>1, <2>2
<1>5. Planned'
  BY <1>1 DEF WorkInv, Planned, Fair, Replaces
<1> QED  BY <1>1, <1>2, <1>3, <1>4, <1>5 DEF WorkInv, Apart, Hand

\* Having finished with a fragment.
LEMMA DoneWork ==
  ASSUME WorkInv, NEW w \in Workers, Done(w)
  PROVE  WorkInv' /\ Apart(w) /\ step'[w] \in {"idle", "read"}
<1>1. /\ step \in [Workers -> {"idle", "store", "read", "check", "insert",
                                "from", "to", "retire"}]
      /\ of \in [Workers -> {<<>>} \union {<<f>> : f \in Frag}]
      /\ todo \in [Workers -> Seq(Links)] /\ batch \in [Workers -> Seq(Frag)]
  BY DEF WorkInv, WorkType
<1>2. todo' = [todo EXCEPT ![w] = <<>>] /\ <<>> \in Seq(Links)
  BY DEF Done
<1>3. /\ todo' \in [Workers -> Seq(Links)] /\ todo'[w] = <<>>
      /\ \A v \in Workers \ {w} : todo'[v] = todo[v]
  BY <1>1, <1>2
<1>4. /\ step' \in [Workers -> {"idle", "store", "read", "check", "insert",
                                 "from", "to", "retire"}]
      /\ step'[w] \in {"idle", "read"}
      /\ \A v \in Workers \ {w} : step'[v] = step[v]
  BY <1>1 DEF Done
<1>5. /\ of' \in [Workers -> {<<>>} \union {<<f>> : f \in Frag}]
      /\ step'[w] = "read" => of'[w] # <<>>
      /\ \A v \in Workers \ {w} : of'[v] = of[v]
      /\ batch' \in [Workers -> Seq(Frag)]
  <2>1. CASE batch[w] = <<>>
    <3>1. of' = [of EXCEPT ![w] = <<>>] /\ step'[w] = "idle" /\ batch' = batch
      BY <2>1, <1>1 DEF Done
    <3> QED  BY <3>1, <1>1
  <2>2. CASE batch[w] # <<>>
    <3>1. batch[w] \in Seq(Frag)  BY <1>1
    <3>2. Head(batch[w]) \in Frag /\ Tail(batch[w]) \in Seq(Frag)
      BY <3>1, <2>2
    <3>3. of' = [of EXCEPT ![w] = <<Head(batch[w])>>]
            /\ batch' = [batch EXCEPT ![w] = Tail(batch[w])]
      BY <2>2 DEF Done
    <3>4. <<Head(batch[w])>> \in {<<f>> : f \in Frag}  BY <3>2
    <3>5. <<Head(batch[w])>> # <<>>  OBVIOUS
    <3>6. batch' \in [Workers -> Seq(Frag)]  BY <3>2, <3>3, <1>1
    <3> QED  BY <3>3, <3>4, <3>5, <3>6, <1>1
  <2> QED  BY <2>1, <2>2
<1>6. WorkType'
  BY <1>3, <1>4, <1>5 DEF WorkType
<1>7. Busy'
  <2> SUFFICES ASSUME NEW v \in Workers
               PROVE  /\ step'[v] \in AtLink => todo'[v] # <<>>
                      /\ step'[v] = "read" => of'[v] # <<>>
    BY DEF Busy
  <2>1. CASE v = w  BY <2>1, <1>4, <1>5 DEF AtLink
  <2>2. CASE v # w  BY <2>2, <1>3, <1>4, <1>5 DEF WorkInv, Busy
  <2> QED  BY <2>1, <2>2
<1>8. Planned'
  <2> SUFFICES ASSUME NEW v \in Workers, NEW n \in DOMAIN todo'[v]
               PROVE  Fair(todo'[v][n])
    BY DEF Planned, Fair, Replaces
  <2>1. CASE v = w
    <3>1. DOMAIN todo'[v] = {}  BY <2>1, <1>3
    <3> QED  BY <3>1
  <2>2. CASE v # w  BY <2>2, <1>3 DEF WorkInv, Planned
  <2> QED  BY <2>1, <2>2
<1> QED  BY <1>3, <1>4, <1>6, <1>7, <1>8 DEF WorkInv, Apart

\* Having finished with a link.
LEMMA OnwardWork ==
  ASSUME WorkInv, NEW w \in Workers, step[w] \in AtLink, Onward(w)
  PROVE  WorkInv' /\ Apart(w) /\ step'[w] \in {"idle", "read", "check", "insert"}
<1>1. CASE ~(Len(todo[w]) > 1)
  BY <1>1, DoneWork DEF Onward
<1>2. CASE Len(todo[w]) > 1
  <2>1. /\ step \in [Workers -> {"idle", "store", "read", "check", "insert",
                                "from", "to", "retire"}]
        /\ todo \in [Workers -> Seq(Links)] /\ todo[w] \in Seq(Links)
    BY DEF WorkInv, WorkType
  <2>2. /\ todo' = [todo EXCEPT ![w] = Tail(todo[w])]
        /\ step' = [step EXCEPT ![w] = IF w = Reflect THEN "check" ELSE "insert"]
        /\ of' = of /\ batch' = batch
    BY <1>2 DEF Onward
  <2>3. /\ Tail(todo[w]) \in Seq(Links) /\ Len(Tail(todo[w])) > 0
        /\ \A n \in DOMAIN Tail(todo[w]) :
             n + 1 \in DOMAIN todo[w] /\ Tail(todo[w])[n] = todo[w][n + 1]
    BY <2>1, <1>2
  <2>4. /\ todo' \in [Workers -> Seq(Links)] /\ todo'[w] = Tail(todo[w])
        /\ \A v \in Workers \ {w} : todo'[v] = todo[v]
    BY <2>1, <2>2, <2>3
  <2>5. /\ step' \in [Workers -> {"idle", "store", "read", "check", "insert",
                                 "from", "to", "retire"}]
        /\ step'[w] \in {"check", "insert"}
        /\ \A v \in Workers \ {w} : step'[v] = step[v]
    BY <2>1, <2>2
  <2>6. WorkType'
    BY <2>2, <2>4, <2>5 DEF WorkInv, WorkType
  <2>7. Busy'
    <3> SUFFICES ASSUME NEW v \in Workers
                 PROVE  /\ step'[v] \in AtLink => todo'[v] # <<>>
                        /\ step'[v] = "read" => of'[v] # <<>>
      BY DEF Busy
    <3>1. CASE v = w
      <4>1. todo'[v] # <<>>  BY <3>1, <2>3, <2>4
      <4> QED  BY <4>1, <3>1, <2>5
    <3>2. CASE v # w  BY <3>2, <2>2, <2>4, <2>5 DEF WorkInv, Busy
    <3> QED  BY <3>1, <3>2
  <2>8. Planned'
    <3> SUFFICES ASSUME NEW v \in Workers, NEW n \in DOMAIN todo'[v]
                 PROVE  Fair(todo'[v][n])
      BY DEF Planned, Fair, Replaces
    <3>1. CASE v = w  BY <3>1, <2>3, <2>4 DEF WorkInv, Planned
    <3>2. CASE v # w  BY <3>2, <2>4 DEF WorkInv, Planned
    <3> QED  BY <3>1, <3>2
  <2> QED  BY <2>4, <2>5, <2>6, <2>7, <2>8 DEF WorkInv, Apart
<1> QED  BY <1>1, <1>2

-----------------------------------------------------------------------------
(* What a step does to the graph.                                           *)

RowType ==
  /\ stored \subseteq Frag /\ gone \subseteq Frag \ stored
  /\ embedded \subseteq stored /\ retired \subseteq stored

LinkType ==
  /\ rel \in [Pairs -> Rels \union {"none"}]
  /\ \A p \in Pairs : rel[p] # "none" => {p[1], p[2]} \subseteq stored
  /\ mention \in [Frag -> SUBSET Frag]

\* Counters of trouble, and what reflect lost.
LostType == unlinked \subseteq Pairs /\ trouble \in 0..MaxTrouble

LEMMA TypeParts == TypeOK <=> RowType /\ LinkType /\ WorkType /\ LostType
BY DEF TypeOK, RowType, LinkType, WorkType, LostType

LEMMA TroubleCounted ==
  ASSUME LostType, MayTrouble  PROVE  trouble' \in 0..MaxTrouble
BY LinkingAssumption DEF LinkingAssumption, LostType, MayTrouble

\* The workers whose step says nothing of a drawn link.
Free(w) == step'[w] \notin {"from", "to", "retire"}

\* A step that leaves the graph alone, of a worker that is free afterwards.
LEMMA GraphKept ==
  ASSUME LinkInv, NEW w \in Workers, WorkInv', Apart(w), Free(w),
         UNCHANGED <<gone, rel, retired>>
  PROVE  Standing' /\ Drawn' /\ Retiring' /\ RetiredLeadsOn'
<1>1. Standing' /\ RetiredLeadsOn'
  BY DEF LinkInv, Standing, RetiredLeadsOn, Replaces
<1>2. \A v \in Workers \ {w} : step'[v] = step[v] /\ Hand(v)' = Hand(v)
  BY DEF Apart, Hand
<1>3. Drawn'
  BY <1>2 DEF LinkInv, Drawn, Free
<1>4. Retiring'
  BY <1>2 DEF LinkInv, Retiring, Free
<1> QED  BY <1>1, <1>3, <1>4

LEMMA WorkKept ==
  ASSUME LinkInv, UNCHANGED work
  PROVE  WorkInv' /\ (\A v \in Workers : step'[v] = step[v] /\ Hand(v)' = Hand(v)) /\ Retiring'
<1>1. WorkInv
  BY TypeParts DEF LinkInv, WorkInv
<1>2. step' = step /\ of' = of /\ todo' = todo /\ batch' = batch
  BY DEF work
<1> QED
  BY <1>1, <1>2 DEF LinkInv, WorkInv, WorkType, Busy, Planned, Fair, Replaces, Hand, Retiring

-----------------------------------------------------------------------------
(* Steps of others: rows come, change and go.                               *)

\* Rows and embeddings come, rows are amended: the graph stays.
LEMMA RowStep ==
  ASSUME LinkInv, NEW f \in Frag, Remember(f) \/ Amend(f)
  PROVE  LinkInv'
<1>1. RowType /\ LinkType /\ WorkType /\ LostType
  BY TypeParts DEF LinkInv
<1>2. UNCHANGED <<rel, mention, retired, gone, unlinked>> /\ UNCHANGED work
  BY DEF Remember, Amend, graph
<1>3. WorkInv' /\ Retiring' /\ \A v \in Workers : step'[v] = step[v] /\ Hand(v)' = Hand(v)
  BY <1>2, WorkKept
<1>4. stored \subseteq stored' /\ RowType'
  BY <1>1, <1>2 DEF Remember, Amend, Insertable, RowType
<1>5. LinkType'
  BY <1>1, <1>2, <1>4 DEF LinkType
<1>6. LostType'
  BY <1>1, <1>2, TroubleCounted DEF Remember, Amend, LostType
<1>7. TypeOK'
  BY <1>3, <1>4, <1>5, <1>6 DEF TypeOK, RowType, LinkType, WorkType, LostType, WorkInv
<1>8. Standing' /\ RetiredLeadsOn'
  BY <1>2 DEF LinkInv, Standing, RetiredLeadsOn, Replaces
<1>9. Drawn'
  BY <1>2, <1>3 DEF LinkInv, Drawn
<1> QED  BY <1>3, <1>7, <1>8, <1>9 DEF LinkInv, WorkInv

\* An embedding is reported to a handler that had nothing to do.
LEMMA EmbedStep ==
  ASSUME LinkInv, NEW f \in Frag, NEW heard \in BOOLEAN, Embed(f, heard)
  PROVE  LinkInv'
<1>1. RowType /\ LinkType /\ WorkType /\ LostType /\ f \in Workers
  BY TypeParts DEF LinkInv, Workers
<1>2. /\ UNCHANGED <<rel, mention, retired, gone, stored, todo, batch, unlinked, trouble>>
      /\ embedded' = embedded \union {f} /\ f \in stored
  BY DEF Embed, graph
<1>3. RowType' /\ LinkType' /\ LostType'
  BY <1>1, <1>2 DEF RowType, LinkType, LostType
<1>4. CASE heard
  <2>1. step' = [step EXCEPT ![f] = "read"] /\ of' = [of EXCEPT ![f] = <<f>>]
    BY <1>4 DEF Embed
  <2>2. /\ step' \in [Workers -> {"idle", "store", "read", "check", "insert",
                                   "from", "to", "retire"}]
        /\ step'[f] = "read" /\ \A v \in Workers \ {f} : step'[v] = step[v]
    BY <1>1, <2>1 DEF WorkType
  <2>3. <<f>> \in {<<g>> : g \in Frag} /\ <<f>> # <<>>
    OBVIOUS
  <2>4. /\ of' \in [Workers -> {<<>>} \union {<<g>> : g \in Frag}]
        /\ of'[f] # <<>> /\ \A v \in Workers \ {f} : of'[v] = of[v]
    BY <1>1, <2>1, <2>3 DEF WorkType
  <2>5. WorkType'
    BY <1>1, <1>2, <2>2, <2>4 DEF WorkType
  <2>6. Busy'
    <3> SUFFICES ASSUME NEW v \in Workers
                 PROVE  /\ step'[v] \in AtLink => todo'[v] # <<>>
                        /\ step'[v] = "read" => of'[v] # <<>>
      BY DEF Busy
    <3>1. CASE v = f  BY <3>1, <2>2, <2>4 DEF AtLink
    <3>2. CASE v # f  BY <3>2, <1>2, <2>2, <2>4 DEF LinkInv, Busy
    <3> QED  BY <3>1, <3>2
  <2>7. Planned'
    BY <1>2 DEF LinkInv, Planned, Fair, Replaces
  <2>8. WorkInv' /\ Apart(f) /\ Free(f)
    BY <1>2, <2>2, <2>5, <2>6, <2>7 DEF WorkInv, Apart, Free
  <2> QED
    BY <1>1, <1>2, <1>3, <2>8, GraphKept
       DEF LinkInv, TypeOK, RowType, LinkType, WorkType, LostType, WorkInv
<1>5. CASE ~heard
  <2>1. UNCHANGED work  BY <1>2, <1>5 DEF Embed, work
  <2>2. WorkInv' /\ Retiring' /\ \A v \in Workers : step'[v] = step[v] /\ Hand(v)' = Hand(v)
    BY <2>1, WorkKept
  <2>3. Standing' /\ RetiredLeadsOn'
    BY <1>2 DEF LinkInv, Standing, RetiredLeadsOn, Replaces
  <2>4. Drawn'
    BY <1>2, <2>2 DEF LinkInv, Drawn
  <2> QED
    BY <1>3, <2>2, <2>3, <2>4
       DEF LinkInv, TypeOK, RowType, LinkType, WorkType, LostType, WorkInv
<1> QED  BY <1>4, <1>5

\* A deletion takes the links of the row along, and is remembered.
LEMMA ForgetStep ==
  ASSUME LinkInv, NEW f \in Frag, Forget(f)
  PROVE  LinkInv'
<1>1. RowType /\ LinkType /\ WorkType /\ LostType
  BY TypeParts DEF LinkInv
<1>2. /\ stored' = stored \ {f} /\ gone' = gone \union {f}
      /\ embedded' = embedded \ {f} /\ retired' = retired \ {f}
      /\ rel' = [p \in Pairs |-> IF f \in {p[1], p[2]} THEN "none" ELSE rel[p]]
      /\ mention' = [g \in Frag |-> IF g = f THEN {} ELSE mention[g] \ {f}]
      /\ UNCHANGED work /\ UNCHANGED unlinked /\ MayTrouble /\ f \in stored
  BY DEF Forget
<1>3. WorkInv' /\ Retiring' /\ \A v \in Workers : step'[v] = step[v] /\ Hand(v)' = Hand(v)
  BY <1>2, WorkKept
<1>4. RowType' /\ LostType'
  BY <1>1, <1>2, TroubleCounted DEF RowType, LostType
<1>5. \A g, h \in Frag : rel'[<<g, h>>] = IF f \in {g, h} THEN "none" ELSE rel[<<g, h>>]
  BY <1>2 DEF Pairs
<1>6. LinkType'
  <2>1. rel' \in [Pairs -> Rels \union {"none"}]
    BY <1>1, <1>2 DEF LinkType
  <2>2. \A p \in Pairs : rel'[p] # "none" => {p[1], p[2]} \subseteq stored'
    BY <1>1, <1>2 DEF LinkType
  <2>3. mention' \in [Frag -> SUBSET Frag]
    BY <1>1, <1>2 DEF LinkType
  <2> QED  BY <2>1, <2>2, <2>3 DEF LinkType
<1>7. Standing'
  BY <1>5 DEF LinkInv, Standing, Replaces
<1>8. Drawn'
  <2> SUFFICES ASSUME NEW w \in Workers, step'[w] \in {"from", "to", "retire"}
               PROVE  \/ rel'[<<Hand(w)'.from, Hand(w)'.to>>] # "none"
                      \/ Hand(w)'.from \in gone' \/ Hand(w)'.to \in gone'
    BY DEF Drawn
  <2>1. Hand(w)' = Hand(w) /\ step[w] \in {"from", "to", "retire"}
    BY <1>3
  <2>2. Hand(w).from \in Frag /\ Hand(w).to \in Frag
    BY <1>1, <2>1, InHand DEF LinkInv, WorkInv, AtLink
  <2> QED  BY <1>2, <1>5, <2>1, <2>2 DEF LinkInv, Drawn
<1>9. RetiredLeadsOn'
  <2> SUFFICES ASSUME NEW g \in retired'
               PROVE  \E h \in Frag : \/ h \in gone' /\ Replaces(h, g)
                                     \/ rel'[<<g, h>>] = "superseded_by"
    BY DEF RetiredLeadsOn, Replaces
  <2>1. g \in retired /\ g # f /\ g \in Frag
    BY <1>1, <1>2 DEF RowType
  <2>2. PICK h \in Frag : (h \in gone /\ Replaces(h, g)) \/ rel[<<g, h>>] = "superseded_by"
    BY <2>1 DEF LinkInv, RetiredLeadsOn
  <2>3. rel[<<g, h>>] = "superseded_by" => Replaces(h, g)
    BY <2>1 DEF LinkInv, Standing
  <2>4. CASE h \in gone \union {f}
    <3>1. h \in gone' /\ Replaces(h, g)  BY <1>2, <2>2, <2>3, <2>4
    <3> QED  BY <3>1
  <2>5. CASE h \notin gone \union {f}
    <3>1. rel'[<<g, h>>] = rel[<<g, h>>]  BY <1>5, <2>1, <2>5
    <3> QED  BY <3>1, <2>2, <2>5
  <2> QED  BY <2>4, <2>5
<1> QED
  BY <1>3, <1>4, <1>6, <1>7, <1>8, <1>9
     DEF LinkInv, TypeOK, RowType, LinkType, WorkType, LostType, WorkInv

-----------------------------------------------------------------------------
(* Steps of the workers.                                                    *)

\* What every step shares that leaves rows and graph alone.
LEMMA QuietStep ==
  ASSUME LinkInv, NEW w \in Workers, WorkInv', Apart(w), Free(w),
         UNCHANGED rows, UNCHANGED graph, LostType'
  PROVE  LinkInv'
<1>1. RowType /\ LinkType
  BY TypeParts DEF LinkInv
<1>2. UNCHANGED <<stored, gone, embedded, rel, mention, retired>>
  BY DEF rows, graph
<1>3. RowType' /\ LinkType'
  BY <1>1, <1>2 DEF RowType, LinkType
<1>4. Standing' /\ Drawn' /\ Retiring' /\ RetiredLeadsOn'
  BY <1>2, GraphKept
<1> QED
  BY <1>3, <1>4 DEF LinkInv, TypeOK, RowType, LinkType, WorkType, LostType, WorkInv

\* What reflect loses is a pair.
LEMMA LostPairs ==
  ASSUME WorkInv, LostType, NEW w \in Workers, step[w] \in AtLink, Lose(w)
  PROVE  unlinked' \subseteq Pairs
<1>1. <<Hand(w).from, Hand(w).to>> \in Pairs
  BY InHand DEF Pairs
<1> QED  BY <1>1 DEF Lose, LostType

LEMMA RetroStep ==
  ASSUME LinkInv, NEW w \in Workers, RetroStart(w)
  PROVE  LinkInv'
<1>1. RowType /\ LinkType /\ WorkType /\ LostType
  BY TypeParts DEF LinkInv
<1>2. BatchSize \in Nat
  BY LinkingAssumption DEF LinkingAssumption
<1>3. PICK s \in FirstRows(Isolated, BatchSize, Born) :
        /\ of' = [of EXCEPT ![w] = <<Head(s)>>]
        /\ batch' = [batch EXCEPT ![w] = Tail(s)]
  BY DEF RetroStart
<1>4. s \in Seq(Isolated) /\ s # <<>> /\ Isolated \subseteq Frag
  BY <1>1, <1>2, FirstRowsSeq DEF Isolated, RowType
<1>5. Head(s) \in Frag /\ Tail(s) \in Seq(Frag)
  BY <1>4
<1>6. <<Head(s)>> \in {<<g>> : g \in Frag} /\ <<Head(s)>> # <<>>
  BY <1>5
<1>7. step' = [step EXCEPT ![w] = "read"] /\ todo' = todo
        /\ UNCHANGED rows /\ UNCHANGED graph /\ UNCHANGED <<unlinked, trouble>>
  BY DEF RetroStart
<1>8. /\ step' \in [Workers -> {"idle", "store", "read", "check", "insert",
                                 "from", "to", "retire"}]
      /\ step'[w] = "read" /\ \A v \in Workers \ {w} : step'[v] = step[v]
  BY <1>1, <1>7 DEF WorkType
<1>9. /\ of' \in [Workers -> {<<>>} \union {<<g>> : g \in Frag}]
      /\ of'[w] # <<>> /\ \A v \in Workers \ {w} : of'[v] = of[v]
  BY <1>1, <1>3, <1>6 DEF WorkType
<1>10. batch' \in [Workers -> Seq(Frag)]
  BY <1>1, <1>3, <1>5 DEF WorkType
<1>11. WorkType'
  BY <1>1, <1>7, <1>8, <1>9, <1>10 DEF WorkType
<1>12. Busy'
  <2> SUFFICES ASSUME NEW v \in Workers
               PROVE  /\ step'[v] \in AtLink => todo'[v] # <<>>
                      /\ step'[v] = "read" => of'[v] # <<>>
    BY DEF Busy
  <2>1. CASE v = w  BY <2>1, <1>8, <1>9 DEF AtLink
  <2>2. CASE v # w  BY <2>2, <1>7, <1>8, <1>9 DEF LinkInv, Busy
  <2> QED  BY <2>1, <2>2
<1>13. Planned'
  BY <1>7 DEF LinkInv, Planned, Fair, Replaces
<1>14. LostType'
  BY <1>1, <1>7 DEF LostType
<1>15. WorkInv' /\ Apart(w) /\ Free(w)
  BY <1>7, <1>8, <1>11, <1>12, <1>13 DEF WorkInv, Apart, Free
<1> QED  BY <1>7, <1>14, <1>15, QuietStep

\* The relations planned are those that the kinds and times ask for.
LEMMA FindStep ==
  ASSUME LinkInv, NEW w \in Workers, FindCandidates(w)
  PROVE  LinkInv'
<1> DEFINE f == of[w][1]
<1>1. RowType /\ LinkType /\ WorkType /\ LostType /\ WorkInv
  BY TypeParts DEF LinkInv, WorkInv
<1>2. step[w] = "read" /\ UNCHANGED rows /\ UNCHANGED graph /\ UNCHANGED <<unlinked, trouble>>
  BY DEF FindCandidates
<1>3. LostType'
  BY <1>1, <1>2 DEF LostType
<1>4. CASE Candidates(f) = {}
  <2>1. Done(w)  BY <1>4 DEF FindCandidates
  <2>2. WorkInv' /\ Apart(w) /\ step'[w] \in {"idle", "read"}
    BY <1>1, <2>1, DoneWork
  <2>3. Free(w)  BY <2>2 DEF Free
  <2> QED  BY <1>2, <1>3, <2>2, <2>3, QuietStep
<1>5. CASE Candidates(f) # {}
  <2>1. PICK s \in FirstRows(Candidates(f), MaxCandidates, Close[f]) :
          /\ todo' = [todo EXCEPT ![w] =
               [n \in DOMAIN s |-> Link(s[n], f, RelationOf(f, s[n]))]]
          /\ step' = [step EXCEPT ![w] = "insert"]
          /\ UNCHANGED <<of, batch>>
    BY <1>5 DEF FindCandidates
  <2>2. f \in Frag
    <3>1. of[w] \in {<<>>} \union {<<g>> : g \in Frag} /\ of[w] # <<>>
      BY <1>1, <1>2 DEF WorkInv, WorkType, Busy
    <3> QED  BY <3>1
  <2> HIDE DEF f
  <2>3. MaxCandidates \in Nat /\ Candidates(f) \subseteq Frag
    BY <1>1, LinkingAssumption DEF LinkingAssumption, Candidates, RowType
  <2>4. /\ s \in Seq(Candidates(f)) /\ s # <<>> /\ Len(s) \in Nat
        /\ DOMAIN s = 1..Len(s) /\ 1 \in DOMAIN s
    BY <2>3, FirstRowsSeq
  <2>5. \A n \in DOMAIN s : s[n] \in Frag
    BY <2>3, <2>4
  <2> DEFINE plan == [n \in DOMAIN s |-> Link(s[n], f, RelationOf(f, s[n]))]
  <2>6. /\ DOMAIN plan = 1..Len(s)
        /\ \A n \in DOMAIN plan : plan[n] \in Links /\ Fair(plan[n])
    BY <2>2, <2>4, <2>5, RelationFair
  <2>7. todo' = [todo EXCEPT ![w] = plan]
    BY <2>1
  <2> HIDE DEF plan
  <2>8. plan \in Seq(Links) /\ plan # <<>>
    <3>1. plan \in [1..Len(s) -> Links]
      <4>1. plan = [n \in 1..Len(s) |-> plan[n]]  BY <2>4, <2>6 DEF plan
      <4> QED  BY <4>1, <2>6
    <3>2. plan \in Seq(Links)  BY <3>1, <2>4
    <3> QED  BY <3>2, <2>4, <2>6
  <2>9. /\ todo' \in [Workers -> Seq(Links)] /\ todo'[w] = plan
        /\ \A v \in Workers \ {w} : todo'[v] = todo[v]
    BY <1>1, <2>7, <2>8 DEF WorkType
  <2>10. /\ step' \in [Workers -> {"idle", "store", "read", "check", "insert",
                                    "from", "to", "retire"}]
         /\ step'[w] = "insert" /\ \A v \in Workers \ {w} : step'[v] = step[v]
    BY <1>1, <2>1 DEF WorkType
  <2>11. WorkType'
    BY <1>1, <2>1, <2>9, <2>10 DEF WorkType
  <2>12. Busy'
    <3> SUFFICES ASSUME NEW v \in Workers
                 PROVE  /\ step'[v] \in AtLink => todo'[v] # <<>>
                        /\ step'[v] = "read" => of'[v] # <<>>
      BY DEF Busy
    <3>1. CASE v = w  BY <3>1, <2>8, <2>9, <2>10
    <3>2. CASE v # w  BY <3>2, <2>1, <2>9, <2>10 DEF LinkInv, Busy
    <3> QED  BY <3>1, <3>2
  <2>13. Planned'
    <3> SUFFICES ASSUME NEW v \in Workers, NEW n \in DOMAIN todo'[v]
                 PROVE  Fair(todo'[v][n])
      BY DEF Planned, Fair, Replaces
    <3>1. CASE v = w  BY <3>1, <2>6, <2>9
    <3>2. CASE v # w  BY <3>2, <2>9 DEF LinkInv, Planned
    <3> QED  BY <3>1, <3>2
  <2>14. WorkInv' /\ Apart(w) /\ Free(w)
    BY <2>9, <2>10, <2>11, <2>12, <2>13 DEF WorkInv, Apart, Free
  <2> QED  BY <1>2, <1>3, <2>14, QuietStep
<1> QED  BY <1>4, <1>5

\* reflect inserts its fragments.
LEMMA ReflectInsertStep ==
  ASSUME LinkInv, ReflectInsert  PROVE  LinkInv'
<1>1. RowType /\ LinkType /\ WorkType /\ LostType
  BY TypeParts DEF LinkInv
<1>2. PICK n \in DOMAIN InOrder :
        Insertable(InOrder[n]) /\ stored' = stored \union {InOrder[n]}
  BY DEF ReflectInsert
<1>3. InOrder[n] \in Frag
  <2>1. \A k \in Kinds : Session[k] \in Seq(Frag)
    BY LinkingAssumption DEF LinkingAssumption
  <2>2. /\ Session["fact"] \in Seq(Frag) /\ Session["decision"] \in Seq(Frag)
        /\ Session["error"] \in Seq(Frag) /\ Session["procedure"] \in Seq(Frag)
    BY <2>1 DEF Kinds
  <2>3. InOrder \in Seq(Frag)
    BY <2>2 DEF InOrder
  <2> QED  BY <2>3
<1>4. UNCHANGED <<gone, embedded, rel, mention, retired, unlinked, trouble>> /\ UNCHANGED work
  BY DEF ReflectInsert, graph
<1>5. WorkInv' /\ Retiring' /\ \A v \in Workers : step'[v] = step[v] /\ Hand(v)' = Hand(v)
  BY <1>4, WorkKept
<1>6. RowType' /\ LostType'
  BY <1>1, <1>2, <1>3, <1>4 DEF RowType, LostType, Insertable
<1>7. LinkType'
  BY <1>1, <1>2, <1>4 DEF LinkType
<1>8. Standing' /\ RetiredLeadsOn'
  BY <1>4 DEF LinkInv, Standing, RetiredLeadsOn, Replaces
<1>9. Drawn'
  BY <1>4, <1>5 DEF LinkInv, Drawn
<1> QED
  BY <1>5, <1>6, <1>7, <1>8, <1>9
     DEF LinkInv, TypeOK, RowType, LinkType, WorkType, LostType, WorkInv

\* reflect starts with the links of its session.
LEMMA ReflectLinkStep ==
  ASSUME LinkInv, ReflectLink  PROVE  LinkInv'
<1>1. RowType /\ LinkType /\ WorkType /\ LostType /\ Reflect \in Workers
  BY TypeParts DEF LinkInv, Workers
<1>2. /\ todo' = [todo EXCEPT ![Reflect] = SessionLinks]
      /\ step' = [step EXCEPT ![Reflect] = "check"] /\ SessionLinks # <<>>
      /\ of' = of /\ batch' = batch
      /\ UNCHANGED rows /\ UNCHANGED graph /\ UNCHANGED <<unlinked, trouble>>
  BY DEF ReflectLink
<1>3. /\ todo' \in [Workers -> Seq(Links)] /\ todo'[Reflect] = SessionLinks
      /\ \A v \in Workers \ {Reflect} : todo'[v] = todo[v]
  BY <1>1, <1>2, SessionPlan DEF WorkType
<1>4. /\ step' \in [Workers -> {"idle", "store", "read", "check", "insert",
                                 "from", "to", "retire"}]
      /\ step'[Reflect] = "check" /\ \A v \in Workers \ {Reflect} : step'[v] = step[v]
  BY <1>1, <1>2 DEF WorkType
<1>5. WorkType' /\ LostType'
  BY <1>1, <1>2, <1>3, <1>4 DEF WorkType, LostType
<1>6. Busy'
  <2> SUFFICES ASSUME NEW v \in Workers
               PROVE  /\ step'[v] \in AtLink => todo'[v] # <<>>
                      /\ step'[v] = "read" => of'[v] # <<>>
    BY DEF Busy
  <2>1. CASE v = Reflect  BY <2>1, <1>2, <1>3, <1>4
  <2>2. CASE v # Reflect  BY <2>2, <1>2, <1>3, <1>4 DEF LinkInv, Busy
  <2> QED  BY <2>1, <2>2
<1>7. Planned'
  <2> SUFFICES ASSUME NEW v \in Workers, NEW n \in DOMAIN todo'[v]
               PROVE  Fair(todo'[v][n])
    BY DEF Planned, Fair, Replaces
  <2>1. CASE v = Reflect  BY <2>1, <1>3, SessionPlan
  <2>2. CASE v # Reflect  BY <2>2, <1>3 DEF LinkInv, Planned
  <2> QED  BY <2>1, <2>2
<1>8. WorkInv' /\ Apart(Reflect) /\ Free(Reflect)
  BY <1>3, <1>4, <1>5, <1>6, <1>7 DEF WorkInv, Apart, Free
<1> QED  BY <1>1, <1>2, <1>5, <1>8, QuietStep

\* The answer to whether a path is there, or its failure.
LEMMA CheckStep ==
  ASSUME LinkInv, ReflectCheck \/ FailCheck  PROVE  LinkInv'
<1>1. WorkInv /\ LostType /\ Reflect \in Workers
  BY TypeParts DEF LinkInv, WorkInv, Workers
<1>2. /\ step[Reflect] = "check" /\ UNCHANGED rows /\ UNCHANGED graph
      /\ Onward(Reflect) \/ Goto(Reflect, "insert")
      /\ unlinked' = unlinked
  BY DEF ReflectCheck, FailCheck, Trouble
<1>3. LostType'
  BY <1>1, <1>2, TroubleCounted DEF ReflectCheck, FailCheck, Trouble, LostType
<1>4. CASE Onward(Reflect)
  <2>1. WorkInv' /\ Apart(Reflect) /\ step'[Reflect] \in {"idle", "read", "check", "insert"}
    BY <1>1, <1>2, <1>4, OnwardWork DEF AtLink
  <2>2. Free(Reflect)  BY <2>1 DEF Free
  <2> QED  BY <1>1, <1>2, <1>3, <2>1, <2>2, QuietStep
<1>5. CASE Goto(Reflect, "insert")
  <2>1. "insert" \in AtLink /\ step[Reflect] \in AtLink  BY <1>2 DEF AtLink
  <2>2. WorkInv' /\ Apart(Reflect) /\ step'[Reflect] = "insert"
    BY <1>1, <1>5, <2>1, GotoWork
  <2>3. Free(Reflect)  BY <2>2 DEF Free
  <2> QED  BY <1>1, <1>2, <1>3, <2>2, <2>3, QuietStep
<1> QED  BY <1>2, <1>4, <1>5

-----------------------------------------------------------------------------
(* createLink, statement by statement.                                      *)

\* The next statement of a link that is drawn already.
LEMMA GoOn ==
  ASSUME LinkInv, NEW w \in Workers, step[w] \in {"from", "to"}, NEW s \in {"to", "retire"},
         Goto(w, s), s = "retire" => Hand(w).rel = "superseded_by",
         UNCHANGED <<gone, rel, retired>>
  PROVE  WorkInv' /\ Standing' /\ Drawn' /\ Retiring' /\ RetiredLeadsOn'
<1>1. WorkInv /\ step[w] \in AtLink /\ s \in AtLink
  BY TypeParts DEF LinkInv, WorkInv, AtLink
<1>2. WorkInv' /\ Apart(w) /\ step'[w] = s /\ Hand(w)' = Hand(w)
  BY <1>1, GotoWork
<1>3. \A v \in Workers \ {w} : step'[v] = step[v] /\ Hand(v)' = Hand(v)
  BY <1>2 DEF Apart, Hand
<1>4. Standing' /\ RetiredLeadsOn'
  BY DEF LinkInv, Standing, RetiredLeadsOn, Replaces
<1>5. Drawn'
  BY <1>2, <1>3 DEF LinkInv, Drawn
<1>6. Retiring'
  BY <1>2, <1>3 DEF LinkInv, Retiring
<1> QED  BY <1>2, <1>4, <1>5, <1>6

LEMMA Mentioned ==
  ASSUME LinkType, NEW f \in Frag, NEW g \in Frag, Mention(f, g)
  PROVE  mention' \in [Frag -> SUBSET Frag]
<1>1. mention \in [Frag -> SUBSET Frag]
  BY DEF LinkType
<1>2. mention' = [mention EXCEPT ![f] = IF f \in stored THEN mention[f] \union {g} ELSE mention[f]]
  BY DEF Mention
<1> QED  BY <1>1, <1>2

\* A link between two rows that stand, or none.
LEMMA InsertStep ==
  ASSUME LinkInv, NEW w \in Workers, InsertLink(w)
  PROVE  LinkInv'
<1> DEFINE l == Hand(w)
           f == l.from
           g == l.to
<1>1. RowType /\ LinkType /\ LostType /\ WorkInv
  BY TypeParts DEF LinkInv, WorkInv
<1>2. /\ step[w] = "insert" /\ step[w] \in AtLink
      /\ UNCHANGED rows /\ UNCHANGED <<mention, retired, trouble>>
  BY DEF InsertLink, AtLink
<1>3. f \in Frag /\ g \in Frag /\ l.rel \in Rels /\ Fair(l)
  BY <1>1, <1>2, InHand
<1>4. CASE {f, g} \subseteq stored
  <2>1. /\ rel' = [rel EXCEPT ![<<f, g>>] = l.rel] /\ Goto(w, "from")
        /\ unlinked' = unlinked
    BY <1>4 DEF InsertLink
  <2>2. "from" \in AtLink  BY DEF AtLink
  <2>3. WorkInv' /\ Apart(w) /\ step'[w] = "from" /\ Hand(w)' = Hand(w)
    BY <1>1, <1>2, <2>1, <2>2, GotoWork
  <2> HIDE DEF f, g, l
  <2>4. /\ stored' = stored /\ gone' = gone /\ embedded' = embedded
        /\ retired' = retired /\ mention' = mention /\ trouble' = trouble
    BY <1>2 DEF rows
  <2>5. <<f, g>> \in Pairs /\ rel \in [Pairs -> Rels \union {"none"}]
    BY <1>1, <1>3 DEF Pairs, LinkType
  <2>6. /\ rel' \in [Pairs -> Rels \union {"none"}] /\ rel'[<<f, g>>] = l.rel
        /\ \A p \in Pairs : p # <<f, g>> => rel'[p] = rel[p]
    BY <1>3, <2>1, <2>5
  <2>7. RowType' /\ LostType'
    BY <1>1, <2>1, <2>4 DEF RowType, LostType
  <2>8. LinkType'
    <3>1. ASSUME NEW p \in Pairs, rel'[p] # "none"  PROVE {p[1], p[2]} \subseteq stored'
      <4>1. CASE p = <<f, g>>  BY <4>1, <1>4, <2>4
      <4>2. CASE p # <<f, g>>  BY <4>2, <3>1, <1>1, <2>4, <2>6 DEF LinkType
      <4> QED  BY <4>1, <4>2
    <3> QED  BY <1>1, <2>4, <2>6, <3>1 DEF LinkType
  <2>9. \A h, k \in Frag : <<h, k>> \in Pairs /\ (rel'[<<h, k>>] = rel[<<h, k>>]
           \/ (h = f /\ k = g /\ rel'[<<h, k>>] = l.rel))
    BY <2>6 DEF Pairs
  <2>10. Standing'
    BY <1>3, <2>9 DEF LinkInv, Standing, Fair, Replaces, l, f, g
  <2>11. \A v \in Workers \ {w} : step'[v] = step[v] /\ Hand(v)' = Hand(v)
    BY <2>3 DEF Apart, Hand
  <2>12. l.rel # "none"
    BY <1>3 DEF Rels
  <2>13. Drawn'
    <3> SUFFICES ASSUME NEW v \in Workers, step'[v] \in {"from", "to", "retire"}
                 PROVE  \/ rel'[<<Hand(v)'.from, Hand(v)'.to>>] # "none"
                        \/ Hand(v)'.from \in gone' \/ Hand(v)'.to \in gone'
      BY DEF Drawn
    <3>1. CASE v = w
      BY <3>1, <2>3, <2>6, <2>12 DEF l, f, g
    <3>2. CASE v # w
      <4>1. Hand(v)' = Hand(v) /\ step[v] \in {"from", "to", "retire"}
        BY <3>2, <2>11
      <4>2. Hand(v).from \in Frag /\ Hand(v).to \in Frag
        BY <1>1, <4>1, InHand DEF AtLink
      <4>3. \/ rel[<<Hand(v).from, Hand(v).to>>] # "none"
            \/ Hand(v).from \in gone \/ Hand(v).to \in gone
        BY <4>1 DEF LinkInv, Drawn
      <4> QED  BY <2>4, <2>9, <2>12, <4>1, <4>2, <4>3
    <3> QED  BY <3>1, <3>2
  <2>14. Retiring'
    BY <2>3, <2>11 DEF LinkInv, Retiring
  <2>15. RetiredLeadsOn'
    <3> SUFFICES ASSUME NEW h \in retired'
                 PROVE  \E k \in Frag : \/ k \in gone' /\ Replaces(k, h)
                                       \/ rel'[<<h, k>>] = "superseded_by"
      BY DEF RetiredLeadsOn, Replaces
    <3>1. h \in retired /\ h \in Frag
      BY <1>1, <2>4 DEF RowType
    <3>2. PICK k \in Frag : (k \in gone /\ Replaces(k, h)) \/ rel[<<h, k>>] = "superseded_by"
      BY <3>1 DEF LinkInv, RetiredLeadsOn
    <3>3. rel[<<h, k>>] = "superseded_by" => Replaces(k, h)
      BY <3>1 DEF LinkInv, Standing
    <3>4. h = f /\ k = g /\ Replaces(k, h) => l.rel = "superseded_by"
      BY <1>3 DEF Fair, f, g
    <3> QED  BY <2>4, <2>9, <3>1, <3>2, <3>3, <3>4
  <2> QED
    BY <2>3, <2>7, <2>8, <2>10, <2>13, <2>14, <2>15
       DEF LinkInv, TypeOK, RowType, LinkType, WorkType, LostType, WorkInv
<1>5. CASE ~({f, g} \subseteq stored)
  <2>1. Onward(w) /\ Lose(w) /\ rel' = rel
    BY <1>5 DEF InsertLink
  <2>2. WorkInv' /\ Apart(w) /\ step'[w] \in {"idle", "read", "check", "insert"}
    BY <1>1, <1>2, <2>1, OnwardWork
  <2>3. Free(w)  BY <2>2 DEF Free
  <2>4. UNCHANGED graph  BY <1>2, <2>1 DEF graph
  <2>5. LostType'
    BY <1>1, <1>2, <2>1, LostPairs DEF LostType
  <2> QED  BY <1>2, <2>2, <2>3, <2>4, <2>5, QuietStep
<1> QED  BY <1>4, <1>5

\* The arrays of both ends.
LEMMA MentionStep ==
  ASSUME LinkInv, NEW w \in Workers, MentionFrom(w) \/ MentionTo(w)
  PROVE  LinkInv'
<1>1. RowType /\ LinkType /\ LostType /\ WorkInv
  BY TypeParts DEF LinkInv, WorkInv
<1>2. /\ step[w] \in {"from", "to"} /\ step[w] \in AtLink
      /\ UNCHANGED rows /\ UNCHANGED <<rel, retired, unlinked, trouble>>
  BY DEF MentionFrom, MentionTo, AtLink
<1>3. Hand(w).from \in Frag /\ Hand(w).to \in Frag
  BY <1>1, <1>2, InHand
<1>4. mention' \in [Frag -> SUBSET Frag]
  BY <1>1, <1>3, Mentioned DEF MentionFrom, MentionTo
<1>5. stored' = stored /\ gone' = gone /\ embedded' = embedded
  BY <1>2 DEF rows
<1>6. RowType' /\ LinkType' /\ LostType'
  BY <1>1, <1>2, <1>4, <1>5 DEF RowType, LinkType, LostType
<1>7. WorkInv' /\ Standing' /\ Drawn' /\ Retiring' /\ RetiredLeadsOn'
  <2>1. CASE MentionFrom(w)
    <3>1. Goto(w, "to")  BY <2>1 DEF MentionFrom
    <3> QED  BY <1>2, <1>5, <3>1, GoOn
  <2>2. CASE MentionTo(w)
    <3>1. CASE Hand(w).rel = "superseded_by"
      <4>1. Goto(w, "retire")  BY <2>2, <3>1 DEF MentionTo
      <4> QED  BY <1>2, <1>5, <3>1, <4>1, GoOn
    <3>2. CASE Hand(w).rel # "superseded_by"
      <4>1. Onward(w)  BY <2>2, <3>2 DEF MentionTo
      <4>2. WorkInv' /\ Apart(w) /\ step'[w] \in {"idle", "read", "check", "insert"}
        BY <1>1, <1>2, <4>1, OnwardWork
      <4>3. Free(w)  BY <4>2 DEF Free
      <4> QED  BY <1>2, <1>5, <4>2, <4>3, GraphKept
    <3> QED  BY <3>1, <3>2
  <2> QED  BY <2>1, <2>2
<1> QED
  BY <1>6, <1>7 DEF LinkInv, TypeOK, RowType, LinkType, WorkType, LostType, WorkInv

\* A row that is retired has its link: it was drawn, and if it went since, then
\* with the row itself or with the one that replaces it.
LEMMA RetireStep ==
  ASSUME LinkInv, NEW w \in Workers, Retire(w)
  PROVE  LinkInv'
<1> DEFINE f == Hand(w).from
           g == Hand(w).to
<1>1. RowType /\ LinkType /\ LostType /\ WorkInv
  BY TypeParts DEF LinkInv, WorkInv
<1>2. /\ step[w] = "retire" /\ step[w] \in AtLink /\ Onward(w)
      /\ UNCHANGED rows /\ UNCHANGED <<rel, mention, unlinked, trouble>>
      /\ retired' = retired \union ({f} \intersect stored)
  BY DEF Retire, AtLink
<1>3. f \in Frag /\ g \in Frag /\ Fair(Hand(w)) /\ Hand(w).rel = "superseded_by"
  BY <1>1, <1>2, InHand DEF LinkInv, Retiring
<1>4. Replaces(g, f)
  BY <1>3 DEF Fair
<1>5. rel[<<f, g>>] # "none" \/ f \in gone \/ g \in gone
  BY <1>2 DEF LinkInv, Drawn
<1>6. WorkInv' /\ Apart(w) /\ step'[w] \in {"idle", "read", "check", "insert"}
  BY <1>1, <1>2, OnwardWork
<1> HIDE DEF f, g
<1>7. stored' = stored /\ gone' = gone /\ embedded' = embedded
  BY <1>2 DEF rows
<1>8. RowType' /\ LinkType' /\ LostType'
  BY <1>1, <1>2, <1>7 DEF RowType, LinkType, LostType
<1>9. \A v \in Workers \ {w} : step'[v] = step[v] /\ Hand(v)' = Hand(v)
  BY <1>6 DEF Apart, Hand
<1>10. Standing'
  BY <1>2 DEF LinkInv, Standing, Replaces
<1>11. Drawn'
  BY <1>2, <1>6, <1>7, <1>9 DEF LinkInv, Drawn
<1>12. Retiring'
  BY <1>6, <1>9 DEF LinkInv, Retiring
<1>13. RetiredLeadsOn'
  <2> SUFFICES ASSUME NEW h \in retired'
               PROVE  \E k \in Frag : \/ k \in gone' /\ Replaces(k, h)
                                     \/ rel'[<<h, k>>] = "superseded_by"
    BY DEF RetiredLeadsOn, Replaces
  <2>1. CASE h \in retired
    BY <2>1, <1>2, <1>7 DEF LinkInv, RetiredLeadsOn
  <2>2. CASE h \notin retired
    <3>1. h = f /\ f \in stored /\ f \notin gone
      BY <2>2, <1>1, <1>2 DEF RowType
    <3>2. rel[<<f, g>>] # "none" => rel[<<f, g>>] = "superseded_by"
      BY <1>3, <1>4 DEF LinkInv, Standing
    <3> QED  BY <1>2, <1>3, <1>4, <1>5, <1>7, <3>1, <3>2
  <2> QED  BY <2>1, <2>2
<1> QED
  BY <1>6, <1>8, <1>10, <1>11, <1>12, <1>13
     DEF LinkInv, TypeOK, RowType, LinkType, WorkType, LostType, WorkInv

-----------------------------------------------------------------------------
(* Failures.                                                                *)

LEMMA FailReadStep ==
  ASSUME LinkInv, NEW w \in Workers, FailRead(w)
  PROVE  LinkInv'
<1>1. RowType /\ LinkType /\ WorkType /\ LostType
  BY TypeParts DEF LinkInv
<1>2. /\ step' = [step EXCEPT ![w] = "idle"] /\ of' = [of EXCEPT ![w] = <<>>]
      /\ batch' = [batch EXCEPT ![w] = <<>>] /\ todo' = todo /\ unlinked' = unlinked
      /\ UNCHANGED rows /\ UNCHANGED graph /\ MayTrouble
  BY DEF FailRead, Trouble
<1>3. /\ step' \in [Workers -> {"idle", "store", "read", "check", "insert",
                                 "from", "to", "retire"}]
      /\ step'[w] = "idle" /\ \A v \in Workers \ {w} : step'[v] = step[v]
  BY <1>1, <1>2 DEF WorkType
<1>4. /\ of' \in [Workers -> {<<>>} \union {<<g>> : g \in Frag}]
      /\ \A v \in Workers \ {w} : of'[v] = of[v]
  BY <1>1, <1>2 DEF WorkType
<1>5. <<>> \in Seq(Frag) /\ batch' \in [Workers -> Seq(Frag)]
  BY <1>1, <1>2 DEF WorkType
<1>6. WorkType'
  BY <1>1, <1>2, <1>3, <1>4, <1>5 DEF WorkType
<1>7. Busy'
  <2> SUFFICES ASSUME NEW v \in Workers
               PROVE  /\ step'[v] \in AtLink => todo'[v] # <<>>
                      /\ step'[v] = "read" => of'[v] # <<>>
    BY DEF Busy
  <2>1. CASE v = w  BY <2>1, <1>3 DEF AtLink
  <2>2. CASE v # w  BY <2>2, <1>2, <1>3, <1>4 DEF LinkInv, Busy
  <2> QED  BY <2>1, <2>2
<1>8. Planned'
  BY <1>2 DEF LinkInv, Planned, Fair, Replaces
<1>9. LostType'
  BY <1>1, <1>2, TroubleCounted DEF LostType
<1>10. WorkInv' /\ Apart(w) /\ Free(w)
  BY <1>2, <1>3, <1>6, <1>7, <1>8 DEF WorkInv, Apart, Free
<1> QED  BY <1>2, <1>9, <1>10, QuietStep

LEMMA FailLinkStep ==
  ASSUME LinkInv, NEW w \in Workers, FailLink(w)
  PROVE  LinkInv'
<1>1. WorkInv /\ LostType
  BY TypeParts DEF LinkInv, WorkInv
<1>2. /\ step[w] \in AtLink /\ Onward(w) /\ Lose(w) /\ MayTrouble
      /\ UNCHANGED rows /\ UNCHANGED graph
  BY DEF FailLink, Trouble, AtLink
<1>3. WorkInv' /\ Apart(w) /\ step'[w] \in {"idle", "read", "check", "insert"}
  BY <1>1, <1>2, OnwardWork
<1>4. Free(w)  BY <1>3 DEF Free
<1>5. LostType'
  BY <1>1, <1>2, LostPairs, TroubleCounted DEF LostType
<1> QED  BY <1>2, <1>3, <1>4, <1>5, QuietStep

\* After a restart nobody has anything in hand; the graph is what it was.
LEMMA RestartStep ==
  ASSUME LinkInv, Restart  PROVE  LinkInv'
<1>1. RowType /\ LinkType /\ WorkType /\ LostType /\ Reflect \in Workers
  BY TypeParts DEF LinkInv, Workers
<1>2. /\ step' = [w \in Workers |-> "idle"] /\ of' = [w \in Workers |-> <<>>]
      /\ todo' = [w \in Workers |-> <<>>] /\ batch' = [w \in Workers |-> <<>>]
      /\ UNCHANGED rows /\ UNCHANGED graph /\ MayTrouble
  BY DEF Restart, Trouble
<1>3. UNCHANGED <<stored, gone, embedded, rel, mention, retired>>
  BY <1>2 DEF rows, graph
<1>4. RowType' /\ LinkType' /\ Standing' /\ RetiredLeadsOn'
  BY <1>1, <1>3 DEF RowType, LinkType, LinkInv, Standing, RetiredLeadsOn, Replaces
<1>5. <<>> \in Seq(Links) /\ <<>> \in Seq(Frag)
  OBVIOUS
<1>6. WorkType'
  BY <1>2, <1>5 DEF WorkType
<1>7. Busy' /\ Planned' /\ Drawn' /\ Retiring'
  BY <1>2 DEF Busy, AtLink, Planned, Drawn, Retiring
<1>8. unlinked' \subseteq Pairs
  <2> DEFINE left == IF step[Reflect] = "store" THEN SessionLinks ELSE todo[Reflect]
  <2>1. left \in Seq(Links)
    BY <1>1, SessionPlan DEF WorkType
  <2>2. unlinked' = unlinked \union {<<left[n].from, left[n].to>> : n \in DOMAIN left}
    BY DEF Restart
  <2> HIDE DEF left
  <2>3. \A n \in DOMAIN left : left[n] \in Links
    BY <2>1
  <2>4. \A n \in DOMAIN left : <<left[n].from, left[n].to>> \in Pairs
    BY <2>3 DEF Links, Pairs
  <2> QED  BY <1>1, <2>2, <2>4 DEF LostType
<1>9. LostType'
  BY <1>1, <1>2, <1>8, TroubleCounted DEF LostType
<1> QED
  BY <1>4, <1>6, <1>7, <1>9 DEF LinkInv, TypeOK, RowType, LinkType, WorkType, LostType

-----------------------------------------------------------------------------
LEMMA LinkInit ==
  ASSUME Init  PROVE  LinkInv
<1>1. Initial \subseteq Frag /\ MaxTrouble \in Nat
  BY LinkingAssumption DEF LinkingAssumption
<1>2. <<>> \in Seq(Links) /\ <<>> \in Seq(Frag)
  OBVIOUS
<1>3. RowType /\ LinkType
  BY <1>1 DEF Init, RowType, LinkType
<1>4. WorkType /\ LostType
  BY <1>1, <1>2 DEF Init, WorkType, LostType
<1>5. Busy /\ Planned /\ Drawn /\ Retiring
  BY DEF Init, Busy, AtLink, Planned, Drawn, Retiring
<1>6. Standing /\ RetiredLeadsOn
  BY DEF Init, Standing, RetiredLeadsOn, Pairs
<1> QED  BY <1>3, <1>4, <1>5, <1>6, TypeParts DEF LinkInv

LEMMA LinkStep ==
  ASSUME LinkInv, [Next]_vars  PROVE  LinkInv'
<1>1. ASSUME NEW f \in Frag, Remember(f) \/ Amend(f)  PROVE LinkInv'
  BY <1>1, RowStep
<1>2. ASSUME NEW f \in Frag, Forget(f)  PROVE LinkInv'
  BY <1>2, ForgetStep
<1>3. ASSUME NEW f \in Frag, NEW heard \in BOOLEAN, Embed(f, heard)  PROVE LinkInv'
  BY <1>3, EmbedStep
<1>4. CASE ReflectInsert \/ ReflectLink
  BY <1>4, ReflectInsertStep, ReflectLinkStep
<1>5. CASE ReflectCheck \/ FailCheck
  BY <1>5, CheckStep
<1>6. ASSUME NEW w \in Workers, Run(w)  PROVE LinkInv'
  BY <1>6, RetroStep, FindStep, InsertStep, MentionStep, RetireStep DEF Run
<1>7. ASSUME NEW w \in Workers, FailRead(w) \/ FailLink(w)  PROVE LinkInv'
  BY <1>7, FailReadStep, FailLinkStep
<1>8. CASE Restart
  BY <1>8, RestartStep
<1>9. CASE UNCHANGED vars
  <2>1. UNCHANGED rows /\ UNCHANGED graph /\ UNCHANGED work /\ UNCHANGED <<unlinked, trouble>>
    BY <1>9 DEF vars
  <2>2. UNCHANGED <<stored, gone, embedded, rel, mention, retired>>
    BY <2>1 DEF rows, graph
  <2>3. RowType /\ LinkType /\ WorkType /\ LostType
    BY TypeParts DEF LinkInv
  <2>4. WorkInv' /\ Retiring' /\ \A v \in Workers : step'[v] = step[v] /\ Hand(v)' = Hand(v)
    BY <2>1, WorkKept
  <2>5. RowType' /\ LinkType' /\ LostType'
    BY <2>1, <2>2, <2>3 DEF RowType, LinkType, LostType
  <2>6. Standing' /\ RetiredLeadsOn'
    BY <2>2 DEF LinkInv, Standing, RetiredLeadsOn, Replaces
  <2>7. Drawn'
    BY <2>2, <2>4 DEF LinkInv, Drawn
  <2> QED
    BY <2>4, <2>5, <2>6, <2>7
       DEF LinkInv, TypeOK, RowType, LinkType, WorkType, LostType, WorkInv
<1> QED
  BY <1>1, <1>2, <1>3, <1>4, <1>5, <1>6, <1>7, <1>8, <1>9 DEF Next

\* The inductive invariant holds in every reachable state.
THEOREM LinkingSafe == Spec => []LinkInv
<1>1. Init => LinkInv
  BY LinkInit
<1>2. LinkInv /\ [Next]_vars => LinkInv'
  BY LinkStep
<1> QED  BY <1>1, <1>2, PTL DEF Spec

\* Types, and the foreign keys: a link joins rows that stand, whatever createLink
\* overlaps with.
THEOREM LinkingTyped == Spec => []TypeOK
<1>1. LinkInv => TypeOK
  BY DEF LinkInv
<1> QED  BY <1>1, LinkingSafe, PTL

\* A fragment that linkFragment has retired leads on to the one that replaced it,
\* unless that one was deleted, however handlers, passes, deletions, failures and
\* restarts fall between the statements.
THEOREM RetiredLeadOn == Spec => []RetiredLeadsOn
<1>1. LinkInv => RetiredLeadsOn
  BY DEF LinkInv
<1> QED  BY <1>1, LinkingSafe, PTL

-----------------------------------------------------------------------------
(* Induction over numbers, with sets in place of predicates.                *)

LEMMA LeastElement ==
  ASSUME NEW T \in SUBSET Nat, T # {}
  PROVE  \E m \in T : \A k \in T : m <= k
<1> DEFINE R == OpToRel(<, Nat)
<1>1. IsWellFoundedOn(R, Nat)
  BY NatLessThanWellFounded
<1>2. \A x, y \in Nat : x < y => <<x, y>> \in R
  BY DEF OpToRel
<1> HIDE DEF R
<1>3. PICK m \in T : \A k \in T : <<k, m>> \notin R
  BY <1>1, WFMin
<1>4. ASSUME NEW k \in T PROVE m <= k
  <2>1. k \in Nat /\ m \in Nat
    OBVIOUS
  <2>2. ~ (k < m)
    BY <1>2, <1>3, <2>1
  <2> QED  BY <2>1, <2>2
<1> QED  BY <1>4

\* A set of numbers that has 1 and with each number the next one has them all.
LEMMA UpTo ==
  ASSUME NEW N \in Nat, NEW S, 1 \in S, \A n \in 1..(N - 1) : n \in S => n + 1 \in S
  PROVE  \A n \in 1..N : n \in S
<1> SUFFICES ASSUME {n \in 1..N : n \notin S} # {}  PROVE FALSE
  OBVIOUS
<1>1. {n \in 1..N : n \notin S} \in SUBSET Nat
  OBVIOUS
<1>2. PICK m \in {n \in 1..N : n \notin S} : \A k \in {n \in 1..N : n \notin S} : m <= k
  BY <1>1, LeastElement
<1>3. m \in 1..N /\ m # 1 /\ m \notin S
  BY <1>2
<1>4. m - 1 \in 1..(N - 1) /\ (m - 1) + 1 = m
  BY <1>3
<1>5. m - 1 \in S
  BY <1>2, <1>4
<1> QED  BY <1>3, <1>4, <1>5
-----------------------------------------------------------------------------
(* What lies ahead.                                                         *)

\* The sets that Ahead goes through: each is what the one before it widens to.
Walk(next, f, hops, w) ==
  w = [n \in 1..hops |-> IF n = 1 THEN next[f] ELSE Wider(next, w[n - 1])]

LEMMA AheadWalks ==
  ASSUME NEW next, NEW f, NEW hops \in Nat \ {0}
  PROVE  \E w : Walk(next, f, hops, w) /\ Ahead(next, f, hops) = w[hops]
<1> DEFINE S == {n \in 1..hops : \E w : Walk(next, f, n, w)}
<1>1. 1 \in S
  <2>1. Walk(next, f, 1, [n \in 1..1 |-> next[f]])
    BY DEF Walk
  <2> QED  BY <2>1
<1>2. ASSUME NEW n \in 1..(hops - 1), n \in S  PROVE n + 1 \in S
  <2>1. PICK w : Walk(next, f, n, w)
    BY <1>2
  <2> DEFINE v == [k \in 1..(n + 1) |-> IF k = n + 1 THEN Wider(next, w[n]) ELSE w[k]]
  <2>2. \A k \in 1..n : w[k] = IF k = 1 THEN next[f] ELSE Wider(next, w[k - 1])
    BY <2>1 DEF Walk
  <2>3. \A k \in 1..(n + 1) : v[k] = IF k = 1 THEN next[f] ELSE Wider(next, v[k - 1])
    <3> SUFFICES ASSUME NEW k \in 1..(n + 1)  PROVE v[k] = IF k = 1 THEN next[f] ELSE Wider(next, v[k - 1])
      OBVIOUS
    <3>1. CASE k = n + 1
      <4>1. k # 1 /\ k - 1 = n /\ k - 1 \in 1..(n + 1) /\ k - 1 # n + 1
        BY <3>1
      <4>2. v[k - 1] = w[n] /\ v[k] = Wider(next, w[n])
        BY <3>1, <4>1
      <4> QED  BY <4>1, <4>2
    <3>2. CASE k # n + 1
      <4>1. k \in 1..n
        BY <3>2
      <4>2. v[k] = w[k] /\ (k # 1 => v[k - 1] = w[k - 1])
        BY <4>1
      <4> QED  BY <4>1, <4>2, <2>2
    <3> QED  BY <3>1, <3>2
  <2>4. v = [k \in 1..(n + 1) |-> IF k = 1 THEN next[f] ELSE Wider(next, v[k - 1])]
    <3> DEFINE u == [k \in 1..(n + 1) |-> IF k = 1 THEN next[f] ELSE Wider(next, v[k - 1])]
    <3>1. \A k \in 1..(n + 1) : v[k] = u[k]
      BY <2>3
    <3>2. DOMAIN v = 1..(n + 1) /\ DOMAIN u = 1..(n + 1)
      OBVIOUS
    <3>3. v = u
      BY <3>1, <3>2
    <3> QED  BY <3>3
  <2> HIDE DEF v
  <2>5. Walk(next, f, n + 1, v)
    BY <2>4 DEF Walk
  <2> QED  BY <2>5
<1> HIDE DEF S
<1>3. hops \in S
  BY <1>1, <1>2, UpTo
<1>4. \E w : Walk(next, f, hops, w)
  BY <1>3 DEF S
<1> DEFINE W == CHOOSE w : w = [n \in 1..hops |-> IF n = 1 THEN next[f] ELSE Wider(next, w[n - 1])]
<1>5. W = [n \in 1..hops |-> IF n = 1 THEN next[f] ELSE Wider(next, W[n - 1])]
  BY <1>4 DEF Walk
<1>6. Ahead(next, f, hops) = W[hops]
  BY DEF Ahead
<1> HIDE DEF W
<1> QED  BY <1>5, <1>6 DEF Walk

Closed(next, S) == \A g \in S : next[g] \subseteq S

\* A closed set that has the first row has every row ahead.
LEMMA AheadLeast ==
  ASSUME NEW next, NEW f, NEW hops \in Nat \ {0}, NEW C, next[f] \subseteq C, Closed(next, C)
  PROVE  Ahead(next, f, hops) \subseteq C
<1>1. PICK w : Walk(next, f, hops, w) /\ Ahead(next, f, hops) = w[hops]
  BY AheadWalks
<1>2. w[1] = next[f] /\ \A n \in 1..(hops - 1) : w[n + 1] = Wider(next, w[n])
  <2>1. 1 \in 1..hops /\ \A n \in 1..(hops - 1) : n + 1 \in 1..hops /\ n + 1 # 1 /\ (n + 1) - 1 = n
    OBVIOUS
  <2> QED  BY <1>1, <2>1 DEF Walk
<1> DEFINE S == {n \in 1..hops : w[n] \subseteq C}
<1>3. 1 \in S
  BY <1>2
<1>4. ASSUME NEW n \in 1..(hops - 1), n \in S  PROVE n + 1 \in S
  <2>1. w[n] \subseteq C /\ w[n + 1] = Wider(next, w[n]) /\ n + 1 \in 1..hops
    BY <1>2, <1>4
  <2>2. w[n + 1] \subseteq C
    BY <2>1 DEF Wider, Closed
  <2> QED  BY <2>1, <2>2
<1> HIDE DEF S
<1>5. hops \in S
  BY <1>3, <1>4, UpTo
<1> QED  BY <1>1, <1>5 DEF S

\* As many hops as there are fragments lead everywhere: each hop comes by a new
\* fragment, or none does any more.
LEMMA AheadClosed ==
  ASSUME NEW next \in [Frag -> SUBSET Frag], NEW f \in Frag
  PROVE  LET A == Ahead(next, f, Cardinality(Frag)) IN
         A \subseteq Frag /\ next[f] \subseteq A /\ Closed(next, A)
<1> DEFINE N == Cardinality(Frag)
<1>1. IsFiniteSet(Frag) /\ N \in Nat \ {0}
  <2>1. IsFiniteSet(Frag)
    BY LinkingAssumption DEF LinkingAssumption
  <2> QED  BY <2>1, FS_CardinalityType, FS_EmptySet
<1>f. \A T \in SUBSET Frag : IsFiniteSet(T) /\ Cardinality(T) \in Nat /\ Cardinality(T) <= N
                               /\ (Cardinality(T) = N => T = Frag)
  BY <1>1, FS_Subset, FS_CardinalityType
<1>2. PICK w : Walk(next, f, N, w) /\ Ahead(next, f, N) = w[N]
  BY <1>1, AheadWalks
<1> HIDE DEF N
<1>3. w[1] = next[f] /\ \A n \in 1..(N - 1) : w[n + 1] = Wider(next, w[n])
  <2>1. 1 \in 1..N /\ \A n \in 1..(N - 1) : n + 1 \in 1..N /\ n + 1 # 1 /\ (n + 1) - 1 = n
    BY <1>1
  <2> QED  BY <1>2, <2>1 DEF Walk
<1> DEFINE Good(n) == /\ w[n] \subseteq Frag /\ next[f] \subseteq w[n]
                      /\ Closed(next, w[n]) \/ Cardinality(w[n]) >= n
           S == {n \in 1..N : Good(n)}
<1>4. 1 \in S
  <2>1. next[f] \in SUBSET Frag
    OBVIOUS
  <2>2. CASE next[f] = {}
    BY <1>1, <1>3, <2>2 DEF Closed
  <2>3. CASE next[f] # {}
    <3>1. Cardinality(next[f]) # 0 /\ Cardinality(next[f]) \in Nat
      BY <1>f, <2>1, <2>3, FS_EmptySet
    <3> QED  BY <1>1, <1>3, <2>1, <3>1
  <2> QED  BY <2>2, <2>3
<1>5. ASSUME NEW n \in 1..(N - 1), n \in S  PROVE n + 1 \in S
  <2>1. w[n] \in SUBSET Frag /\ next[f] \subseteq w[n] /\ w[n + 1] = Wider(next, w[n])
    BY <1>3, <1>5
  <2>2. w[n] \subseteq w[n + 1] /\ w[n + 1] \in SUBSET Frag
    BY <2>1 DEF Wider
  <2>n. n + 1 \in 1..N /\ n \in Nat
    BY <1>1
  <2>3. CASE Closed(next, w[n])
    <3>1. w[n + 1] = w[n]
      BY <2>1, <2>2, <2>3 DEF Wider, Closed
    <3> QED  BY <2>1, <2>3, <2>n, <3>1
  <2>4. CASE ~Closed(next, w[n])
    <3>0. PICK g \in w[n] : \E h \in next[g] : h \notin w[n]
      BY <2>4 DEF Closed
    <3>1. PICK h \in next[g] : h \notin w[n]
      BY <3>0
    <3>2. h \in w[n + 1]
      BY <2>1, <3>0, <3>1 DEF Wider
    <3>3. w[n] \union {h} \subseteq w[n + 1]
      BY <2>2, <3>2
    <3>4. IsFiniteSet(w[n]) /\ IsFiniteSet(w[n + 1]) /\ Cardinality(w[n]) \in Nat
            /\ Cardinality(w[n + 1]) \in Nat
      BY <1>f, <2>1, <2>2
    <3>5. Cardinality(w[n] \union {h}) = Cardinality(w[n]) + 1
      BY <3>1, <3>4, FS_AddElement
    <3>6. Cardinality(w[n] \union {h}) <= Cardinality(w[n + 1])
      BY <3>3, <3>4, FS_Subset
    <3>7. Cardinality(w[n]) >= n
      BY <1>5, <2>4
    <3>8. Cardinality(w[n + 1]) >= n + 1
      BY <2>n, <3>4, <3>5, <3>6, <3>7
    <3> QED  BY <2>1, <2>2, <2>n, <3>8
  <2> QED  BY <2>3, <2>4
<1> HIDE DEF S
<1>6. N \in S
  BY <1>1, <1>4, <1>5, UpTo
<1>7. Good(N)
  BY <1>6 DEF S
<1>8. Closed(next, w[N])
  <2>1. CASE Cardinality(w[N]) >= N
    <3>1. w[N] = Frag
      BY <1>1, <1>f, <1>7, <2>1
    <3> QED  BY <3>1 DEF Closed
  <2> QED  BY <1>7, <2>1
<1> QED  BY <1>2, <1>7, <1>8 DEF N

\* Of some fragments one was created last.
LEMMA Newest ==
  ASSUME NEW A \in SUBSET Frag, A # {}
  PROVE  \E m \in A : \A g \in A : Born[g] <= Born[m]
<1>1. IsFiniteSet(A) /\ Born \in [Frag -> Nat]
  BY LinkingAssumption, FS_Subset DEF LinkingAssumption
<1>0. PICK n \in Nat : ExistsSurjection(1..n, A)
  BY <1>1, FS_NatSurjection
<1>2. PICK b \in [1..n -> A] : \A g \in A : \E i \in 1..n : b[i] = g
  BY <1>0 DEF ExistsSurjection, Surjection
<1> DEFINE S == {k \in 1..n : \E m \in A : \A i \in 1..k : Born[b[i]] <= Born[m]}
<1>3. n >= 1 /\ 1 \in 1..n
  BY <1>2
<1>4. 1 \in S
  <2>1. b[1] \in A /\ Born[b[1]] \in Nat
    BY <1>1, <1>2, <1>3
  <2>2. \A i \in 1..1 : Born[b[i]] <= Born[b[1]]
    BY <2>1
  <2> QED  BY <1>3, <2>1, <2>2
<1>5. ASSUME NEW k \in 1..(n - 1), k \in S  PROVE k + 1 \in S
  <2>1. PICK m \in A : \A i \in 1..k : Born[b[i]] <= Born[m]
    BY <1>5
  <2>2. k + 1 \in 1..n /\ b[k + 1] \in A /\ \A i \in 1..(k + 1) : i \in 1..k \/ i = k + 1
    BY <1>2
  <2>3. Born[b[k + 1]] \in Nat /\ Born[m] \in Nat /\ \A i \in 1..k : b[i] \in A /\ Born[b[i]] \in Nat
    BY <1>1, <1>2, <2>2
  <2>4. CASE Born[b[k + 1]] <= Born[m]
    BY <2>1, <2>2, <2>4
  <2>5. CASE ~(Born[b[k + 1]] <= Born[m])
    <3>1. \A i \in 1..(k + 1) : Born[b[i]] <= Born[b[k + 1]]
      BY <2>1, <2>2, <2>3, <2>5
    <3> QED  BY <2>2, <3>1
  <2> QED  BY <2>4, <2>5
<1> HIDE DEF S
<1>6. n \in S
  <2>1. \A k \in 1..n : k \in S
    BY <1>4, <1>5, UpTo
  <2> QED  BY <1>3, <2>1
<1>7. PICK m \in A : \A i \in 1..n : Born[b[i]] <= Born[m]
  BY <1>6 DEF S
<1> QED  BY <1>2, <1>7

\* Along superseded_by the fragments get newer, so the newest of those ahead of a
\* retired one is not retired.
LEMMA NewestStands ==
  ASSUME LinkInv  PROVE  SomeoneStands
<1> SUFFICES ASSUME gone = {}, NEW f \in retired
             PROVE  ~(Ahead([g \in Frag |-> Successors(g)], f, Cardinality(Frag)) \subseteq retired)
  BY DEF SomeoneStands
<1> SUFFICES ASSUME Ahead([g \in Frag |-> Successors(g)], f, Cardinality(Frag)) \subseteq retired
             PROVE  FALSE
  OBVIOUS
<1> DEFINE next == [g \in Frag |-> Successors(g)]
           A == Ahead(next, f, Cardinality(Frag))
<1>1. retired \subseteq Frag /\ f \in Frag /\ Born \in [Frag -> Nat]
  BY LinkingAssumption DEF LinkInv, TypeOK, LinkingAssumption
<1>2. next \in [Frag -> SUBSET Frag]
  BY DEF Successors
<1>3. next[f] \subseteq A /\ Closed(next, A) /\ A \subseteq retired
  BY <1>1, <1>2, AheadClosed
<1>4. \A g \in Frag : next[g] = Successors(g)
  OBVIOUS
<1> HIDE DEF next, A
<1>5. PICK m \in A \union {f} : \A g \in A \union {f} : Born[g] <= Born[m]
  <2>1. A \union {f} \in SUBSET Frag /\ A \union {f} # {}
    BY <1>1, <1>3
  <2> QED  BY <2>1, Newest
<1>6. m \in retired /\ m \in Frag
  BY <1>1, <1>3
<1>7. PICK g \in Frag : rel[<<m, g>>] = "superseded_by"
  BY <1>6 DEF LinkInv, RetiredLeadsOn
<1>8. Born[g] > Born[m]
  BY <1>6, <1>7 DEF LinkInv, Standing, Replaces
<1>9. g \in A
  BY <1>3, <1>4, <1>5, <1>6, <1>7 DEF Successors, Closed
<1> QED  BY <1>1, <1>5, <1>6, <1>8, <1>9

\* Linking never retires all that was known, by whatever overlap of handlers and
\* passes the fragments of a topic come to replace each other.
THEOREM SomeoneAlwaysStands == Spec => []SomeoneStands
<1>1. LinkInv => SomeoneStands
  BY NewestStands
<1> QED  BY <1>1, LinkingSafe, PTL

-----------------------------------------------------------------------------
(* The links of a session.                                                  *)

\* The ends of l are joined in the arrays m, or l is among the pairs lost in u.
Joins(m, u, l) ==
  <<l.from, l.to>> \in u \/ l.from \in Ahead(m, l.to, Cardinality(Frag))

\* What reflect has still to link.
Left == IF step[Reflect] = "store" THEN SessionLinks ELSE todo[Reflect]

\* reflect works off one list, and then it is done.
Tidy ==
  /\ step[Reflect] # "read" /\ batch[Reflect] = <<>>
  /\ step[Reflect] = "idle" => todo[Reflect] = <<>>

Owed ==
  \A n \in DOMAIN SessionLinks :
    \/ Joins(mention, unlinked, SessionLinks[n])
    \/ \E k \in DOMAIN Left : Left[k] = SessionLinks[n]

JoinInv ==
  /\ Tidy
  /\ gone = {} =>
       /\ Owed
       /\ step[Reflect] = "retire" => Joins(mention, unlinked, Hand(Reflect))

\* More mentions take no path away.
LEMMA JoinsKept ==
  ASSUME NEW m \in [Frag -> SUBSET Frag], NEW n \in [Frag -> SUBSET Frag],
         \A g \in Frag : m[g] \subseteq n[g],
         NEW u, NEW v, u \subseteq v, NEW l \in Links, Joins(m, u, l)
  PROVE  Joins(n, v, l)
<1> DEFINE A == Ahead(n, l.to, Cardinality(Frag))
<1>1. l.to \in Frag
  BY DEF Links
<1>2. A \subseteq Frag /\ n[l.to] \subseteq A /\ Closed(n, A)
  BY <1>1, AheadClosed
<1>3. Cardinality(Frag) \in Nat \ {0}
  <2>1. IsFiniteSet(Frag)
    BY LinkingAssumption DEF LinkingAssumption
  <2> QED  BY <1>1, <2>1, FS_CardinalityType, FS_EmptySet
<1> HIDE DEF A
<1>4. m[l.to] \subseteq A /\ Closed(m, A)
  BY <1>1, <1>2 DEF Closed
<1>5. Ahead(m, l.to, Cardinality(Frag)) \subseteq A
  BY <1>3, <1>4, AheadLeast
<1> QED  BY <1>5 DEF Joins, A

\* What isReachable finds in so many hops is there.
LEMMA ReachedAhead ==
  ASSUME LinkType, NEW f \in Frag
  PROVE  /\ Reached(f) \subseteq Ahead(mention, f, Cardinality(Frag))
         /\ mention[f] \subseteq Ahead(mention, f, Cardinality(Frag))
<1> DEFINE A == Ahead(mention, f, Cardinality(Frag))
<1>1. A \subseteq Frag /\ mention[f] \subseteq A /\ Closed(mention, A)
  BY AheadClosed DEF LinkType
<1>2. MaxHops \in Nat \ {0}
  BY LinkingAssumption DEF LinkingAssumption
<1> HIDE DEF A
<1>3. Ahead(mention, f, MaxHops) \subseteq A
  BY <1>1, <1>2, AheadLeast
<1> QED  BY <1>1, <1>3 DEF Reached, A

LEMMA MentionGrows ==
  ASSUME LinkType, NEW f, NEW g, Mention(f, g)
  PROVE  /\ \A h \in Frag : mention[h] \subseteq mention'[h]
         /\ f \in Frag /\ f \in stored => g \in mention'[f]
<1>1. mention \in [Frag -> SUBSET Frag]
  BY DEF LinkType
<1>2. mention' = [mention EXCEPT ![f] = IF f \in stored THEN mention[f] \union {g} ELSE mention[f]]
  BY DEF Mention
<1> QED  BY <1>1, <1>2

\* Nothing is taken from the graph and from the losses while nothing is deleted.
Growing ==
  /\ gone \subseteq gone' /\ unlinked \subseteq unlinked'
  /\ gone' = {} => \A g \in Frag : mention[g] \subseteq mention'[g]

Same ==
  step'[Reflect] = step[Reflect] /\ todo'[Reflect] = todo[Reflect]
    /\ batch'[Reflect] = batch[Reflect]

LEMMA JoinedStays ==
  ASSUME LinkInv, LinkInv', Growing, gone' = {}, NEW l \in Links,
         Joins(mention, unlinked, l)
  PROVE  Joins(mention', unlinked', l)
<1>1. mention \in [Frag -> SUBSET Frag] /\ mention' \in [Frag -> SUBSET Frag]
  BY DEF LinkInv, TypeOK
<1>2. unlinked \subseteq unlinked' /\ \A g \in Frag : mention[g] \subseteq mention'[g]
  BY DEF Growing
<1> QED  BY <1>1, <1>2, JoinsKept

LEMMA SessionLink ==
  ASSUME NEW n \in DOMAIN SessionLinks  PROVE SessionLinks[n] \in Links
BY SessionPlan

\* A step that leaves reflect what it has in hand.
LEMMA JoinQuiet ==
  ASSUME LinkInv, LinkInv', JoinInv, Growing, Same
  PROVE  JoinInv'
<1>1. Tidy'
  BY DEF JoinInv, Tidy, Same
<1>2. ASSUME gone' = {}  PROVE Owed' /\ (step'[Reflect] = "retire" =>
                                          Joins(mention', unlinked', Hand(Reflect)'))
  <2>1. gone = {}
    BY <1>2 DEF Growing
  <2>2. Left' = Left /\ Hand(Reflect)' = Hand(Reflect)
    BY DEF Left, Same, Hand, SessionLinks, Product, Link
  <2>3. Owed'
    <3> SUFFICES ASSUME NEW n \in DOMAIN SessionLinks
                 PROVE  \/ Joins(mention', unlinked', SessionLinks[n])
                        \/ \E k \in DOMAIN Left' : Left'[k] = SessionLinks[n]
      BY DEF Owed, Joins, SessionLinks, Product, Link
    <3>1. SessionLinks[n] \in Links
      BY SessionLink
    <3>2. \/ Joins(mention, unlinked, SessionLinks[n])
          \/ \E k \in DOMAIN Left : Left[k] = SessionLinks[n]
      BY <2>1 DEF JoinInv, Owed
    <3> QED  BY <1>2, <2>2, <3>1, <3>2, JoinedStays
  <2>4. ASSUME step'[Reflect] = "retire"  PROVE Joins(mention', unlinked', Hand(Reflect)')
    <3>1. step[Reflect] = "retire" /\ Joins(mention, unlinked, Hand(Reflect))
      BY <2>1, <2>4 DEF JoinInv, Same
    <3>2. Hand(Reflect) \in Links
      BY <3>1, InHand, TypeParts DEF LinkInv, WorkInv, Workers, AtLink
    <3> QED  BY <1>2, <2>2, <3>1, <3>2, JoinedStays
  <2> QED  BY <2>3, <2>4
<1> QED  BY <1>1, <1>2 DEF JoinInv, Joins

\* The link in hand is settled, and reflect goes on with the rest.
LEMMA JoinOnward ==
  ASSUME LinkInv, LinkInv', JoinInv, Growing, step[Reflect] \in AtLink, Onward(Reflect),
         gone' = {} => Joins(mention', unlinked', Hand(Reflect))
  PROVE  JoinInv'
<1>1. /\ step \in [Workers -> {"idle", "store", "read", "check", "insert",
                                "from", "to", "retire"}]
      /\ todo \in [Workers -> Seq(Links)] /\ batch \in [Workers -> Seq(Frag)]
      /\ Reflect \in Workers
  BY DEF LinkInv, TypeOK, Workers
<1>2. /\ todo[Reflect] \in Seq(Links) /\ todo[Reflect] # <<>>
      /\ batch[Reflect] = <<>> /\ Left = todo[Reflect]
  BY <1>1 DEF LinkInv, Busy, JoinInv, Tidy, Left, AtLink
<1>3. /\ step'[Reflect] \in {"idle", "check"} /\ Tidy'
      /\ Left' = Tail(todo[Reflect])
  <2>1. CASE Len(todo[Reflect]) > 1
    <3>1. /\ todo' = [todo EXCEPT ![Reflect] = Tail(todo[Reflect])]
          /\ step' = [step EXCEPT ![Reflect] = "check"] /\ batch' = batch
      BY <2>1 DEF Onward
    <3>2. /\ todo'[Reflect] = Tail(todo[Reflect]) /\ step'[Reflect] = "check"
          /\ batch'[Reflect] = <<>>
      BY <1>1, <1>2, <3>1
    <3> QED  BY <3>2 DEF Tidy, Left
  <2>2. CASE ~(Len(todo[Reflect]) > 1)
    <3>1. /\ todo' = [todo EXCEPT ![Reflect] = <<>>]
          /\ step' = [step EXCEPT ![Reflect] = "idle"] /\ batch' = batch
      BY <1>2, <2>2 DEF Onward, Done
    <3>2. todo'[Reflect] = <<>> /\ step'[Reflect] = "idle" /\ batch'[Reflect] = <<>>
      BY <1>1, <1>2, <3>1
    <3>3. Tail(todo[Reflect]) = <<>>
      BY <1>2, <2>2
    <3> QED  BY <3>2, <3>3 DEF Tidy, Left
  <2> QED  BY <2>1, <2>2
<1>4. ASSUME gone' = {}  PROVE Owed'
  <2> SUFFICES ASSUME NEW n \in DOMAIN SessionLinks
               PROVE  \/ Joins(mention', unlinked', SessionLinks[n])
                      \/ \E k \in DOMAIN Left' : Left'[k] = SessionLinks[n]
    BY DEF Owed, Joins, SessionLinks, Product, Link
  <2>1. SessionLinks[n] \in Links /\ gone = {}
    BY <1>4, SessionLink DEF Growing
  <2>2. CASE Joins(mention, unlinked, SessionLinks[n])
    BY <1>4, <2>1, <2>2, JoinedStays
  <2>3. CASE \E k \in DOMAIN Left : Left[k] = SessionLinks[n]
    <3>1. PICK k \in DOMAIN todo[Reflect] : todo[Reflect][k] = SessionLinks[n]
      BY <1>2, <2>3
    <3>2. CASE k = 1
      BY <1>2, <1>4, <3>1, <3>2 DEF Hand
    <3>3. CASE k # 1
      <4>1. k - 1 \in DOMAIN Tail(todo[Reflect])
              /\ Tail(todo[Reflect])[k - 1] = todo[Reflect][k]
        BY <1>2, <3>1, <3>3
      <4> QED  BY <1>3, <3>1, <4>1
    <3> QED  BY <3>2, <3>3
  <2> QED  BY <2>1, <2>2, <2>3 DEF JoinInv, Owed
<1> QED  BY <1>3, <1>4 DEF JoinInv, Joins

\* The link in hand stays there.
LEMMA JoinGoto ==
  ASSUME LinkInv, LinkInv', JoinInv, Growing, step[Reflect] \in AtLink,
         NEW s \in AtLink, Goto(Reflect, s),
         gone' = {} /\ s = "retire" => Joins(mention', unlinked', Hand(Reflect))
  PROVE  JoinInv'
<1>1. step'[Reflect] = s /\ todo' = todo /\ batch' = batch
  BY DEF Goto, LinkInv, TypeOK, Workers
<1>2. Tidy' /\ Left' = Left /\ Hand(Reflect)' = Hand(Reflect)
  BY <1>1 DEF JoinInv, Tidy, Left, Hand, AtLink
<1>3. ASSUME gone' = {}  PROVE Owed'
  <2> SUFFICES ASSUME NEW n \in DOMAIN SessionLinks
               PROVE  \/ Joins(mention', unlinked', SessionLinks[n])
                      \/ \E k \in DOMAIN Left' : Left'[k] = SessionLinks[n]
    BY DEF Owed, Joins, SessionLinks, Product, Link
  <2>1. SessionLinks[n] \in Links /\ gone = {}
    BY <1>3, SessionLink DEF Growing
  <2>2. \/ Joins(mention, unlinked, SessionLinks[n])
        \/ \E k \in DOMAIN Left : Left[k] = SessionLinks[n]
    BY <2>1 DEF JoinInv, Owed
  <2> QED  BY <1>2, <1>3, <2>1, <2>2, JoinedStays
<1> QED  BY <1>1, <1>2, <1>3 DEF JoinInv, Joins

\* Other workers leave reflect alone.
LEMMA Bystander ==
  ASSUME LinkInv, NEW w \in Workers, w # Reflect, NEW s,
         Goto(w, s) \/ Done(w) \/ Onward(w)
  PROVE  Same
<1>1. /\ step \in [Workers -> {"idle", "store", "read", "check", "insert",
                                "from", "to", "retire"}]
      /\ todo \in [Workers -> Seq(Links)] /\ batch \in [Workers -> Seq(Frag)]
      /\ Reflect \in Workers
  BY DEF LinkInv, TypeOK, Workers
<1>2. CASE Goto(w, s)
  BY <1>1, <1>2 DEF Goto, Same
<1>3. CASE Done(w)
  BY <1>1, <1>3 DEF Done, Same
<1>4. CASE Onward(w)
  BY <1>1, <1>3, <1>4 DEF Onward, Same, Done
<1> QED  BY <1>2, <1>3, <1>4

\* Rows come and go: deletions take links away.
LEMMA JoinRows ==
  ASSUME LinkInv, LinkInv', JoinInv, NEW f \in Frag,
         \/ Remember(f) \/ Amend(f) \/ Forget(f)
         \/ \E heard \in BOOLEAN : Embed(f, heard)
  PROVE  JoinInv'
<1>1. Growing
  <2>1. CASE Forget(f)
    BY <2>1 DEF Forget, Growing
  <2>2. CASE ~Forget(f)
    <3>1. UNCHANGED graph /\ UNCHANGED gone /\ UNCHANGED unlinked
      BY <2>2 DEF Remember, Amend, Embed
    <3> QED  BY <3>1 DEF graph, Growing
  <2> QED  BY <2>1, <2>2
<1>2. Same
  <2>1. CASE \E heard \in BOOLEAN : Embed(f, heard)
    <3>1. f # Reflect /\ step \in [Workers -> {"idle", "store", "read", "check", "insert",
                                                "from", "to", "retire"}]
            /\ Reflect \in Workers
      BY LinkingAssumption DEF LinkingAssumption, LinkInv, TypeOK, Workers
    <3> QED  BY <2>1, <3>1 DEF Embed, Same
  <2>2. CASE ~ \E heard \in BOOLEAN : Embed(f, heard)
    <3>1. UNCHANGED work
      BY <2>2 DEF Remember, Amend, Forget
    <3> QED  BY <3>1 DEF work, Same
  <2> QED  BY <2>1, <2>2
<1> QED  BY <1>1, <1>2, JoinQuiet

\* reflect starts with all its links, and passes over a pair that is joined.
LEMMA JoinReflect ==
  ASSUME LinkInv, LinkInv', JoinInv, ReflectLink \/ ReflectCheck \/ FailCheck
  PROVE  JoinInv'
<1>1. UNCHANGED rows /\ UNCHANGED graph /\ UNCHANGED unlinked
  BY DEF ReflectLink, ReflectCheck, FailCheck, Trouble
<1>2. gone' = gone /\ mention' = mention /\ unlinked' = unlinked /\ Growing
  BY <1>1 DEF rows, graph, Growing
<1>3. CASE ReflectLink
  <2>1. /\ step[Reflect] = "store" /\ step'[Reflect] = "check"
        /\ todo'[Reflect] = SessionLinks /\ batch' = batch
    BY <1>3 DEF ReflectLink, LinkInv, TypeOK, Workers
  <2>2. Left' = Left /\ Tidy'
    BY <2>1 DEF Left, Tidy, JoinInv, SessionLinks, Product, Link
  <2>3. Owed => Owed'
    BY <1>2, <2>2 DEF Owed, SessionLinks, Product, Link, Joins
  <2> QED  BY <1>2, <2>1, <2>2, <2>3 DEF JoinInv
<1>4. CASE ReflectCheck
  <2>1. step[Reflect] = "check" /\ step[Reflect] \in AtLink /\ "insert" \in AtLink
    BY <1>4 DEF ReflectCheck, AtLink
  <2>2. CASE Hand(Reflect).from \in Reached(Hand(Reflect).to)
    <3>1. Hand(Reflect).to \in Frag /\ LinkType
      BY <2>1, InHand, TypeParts DEF LinkInv, WorkInv, Workers
    <3>2. Joins(mention, unlinked, Hand(Reflect))
      BY <2>2, <3>1, ReachedAhead DEF Joins
    <3>3. Onward(Reflect)
      BY <1>4, <2>2 DEF ReflectCheck
    <3> QED  BY <1>2, <2>1, <3>2, <3>3, JoinOnward
  <2>3. CASE Hand(Reflect).from \notin Reached(Hand(Reflect).to)
    <3>1. Goto(Reflect, "insert")
      BY <1>4, <2>3 DEF ReflectCheck
    <3> QED  BY <1>2, <2>1, <3>1, JoinGoto
  <2> QED  BY <2>2, <2>3
<1>5. CASE FailCheck
  <2>1. step[Reflect] \in AtLink /\ "insert" \in AtLink /\ Goto(Reflect, "insert")
    BY <1>5 DEF FailCheck, AtLink
  <2> QED  BY <1>2, <2>1, JoinGoto
<1> QED  BY <1>3, <1>4, <1>5

\* A statement of createLink: the mention of the other end joins the two.
LEMMA JoinLink ==
  ASSUME LinkInv, LinkInv', JoinInv, NEW w \in Workers,
         \/ InsertLink(w) \/ MentionFrom(w) \/ MentionTo(w) \/ Retire(w) \/ FailLink(w)
  PROVE  JoinInv'
<1>1. LinkType /\ WorkInv /\ step[w] \in AtLink
  BY TypeParts DEF LinkInv, WorkInv, InsertLink, MentionFrom, MentionTo, Retire, FailLink, AtLink
<1>2. gone' = gone /\ stored' = stored
  BY DEF InsertLink, MentionFrom, MentionTo, Retire, FailLink, Trouble, rows
<1>3. Hand(w).from \in Frag /\ Hand(w).to \in Frag
  BY <1>1, InHand
<1>4. Growing
  <2>1. unlinked \subseteq unlinked'
    BY DEF InsertLink, MentionFrom, MentionTo, Retire, FailLink, Lose
  <2>2. \A g \in Frag : mention[g] \subseteq mention'[g]
    <3>1. CASE MentionFrom(w) \/ MentionTo(w)
      BY <1>1, <3>1, MentionGrows DEF MentionFrom, MentionTo
    <3>2. CASE ~(MentionFrom(w) \/ MentionTo(w))
      BY <3>2 DEF InsertLink, Retire, FailLink, Trouble, graph
    <3> QED  BY <3>1, <3>2
  <2> QED  BY <1>2, <2>1, <2>2 DEF Growing
<1>5. CASE w # Reflect
  <2>1. Onward(w) \/ \E s \in {"from", "to", "retire"} : Goto(w, s)
    BY DEF InsertLink, MentionFrom, MentionTo, Retire, FailLink
  <2>2. Same
    BY <1>5, <2>1, Bystander
  <2> QED  BY <1>4, <2>2, JoinQuiet
<1>6. CASE w = Reflect
  <2>1. {"from", "to", "retire"} \subseteq AtLink
    BY DEF AtLink
  <2>2. ASSUME Onward(w), Lose(w)  PROVE JoinInv'
    <3>1. Joins(mention', unlinked', Hand(Reflect))
      BY <1>6, <2>2 DEF Lose, Joins
    <3> QED  BY <1>1, <1>4, <1>6, <2>2, <3>1, JoinOnward
  <2>3. CASE InsertLink(w)
    <3>1. (Goto(w, "from")) \/ (Onward(w) /\ Lose(w))
      BY <2>3 DEF InsertLink
    <3> QED  BY <1>1, <1>4, <1>6, <2>1, <2>2, <3>1, JoinGoto
  <2>4. CASE MentionFrom(w)
    <3>1. Goto(w, "to")
      BY <2>4 DEF MentionFrom
    <3> QED  BY <1>1, <1>4, <1>6, <2>1, <3>1, JoinGoto
  <2>5. CASE MentionTo(w)
    <3>1. step[w] = "to" /\ Mention(Hand(w).to, Hand(w).from)
      BY <2>5 DEF MentionTo
    <3>2. ASSUME gone' = {}  PROVE Joins(mention', unlinked', Hand(Reflect))
      <4>1. rel[<<Hand(w).from, Hand(w).to>>] # "none"
        BY <1>2, <3>1, <3>2 DEF LinkInv, Drawn
      <4>2. <<Hand(w).from, Hand(w).to>> \in Pairs
        BY <1>3 DEF Pairs
      <4>3. Hand(w).to \in stored
        BY <1>1, <4>1, <4>2 DEF LinkType
      <4>4. Hand(w).from \in mention'[Hand(w).to]
        BY <1>1, <1>3, <3>1, <4>3, MentionGrows
      <4>5. mention' \in [Frag -> SUBSET Frag]
        BY DEF LinkInv, TypeOK
      <4>6. mention'[Hand(w).to] \subseteq Ahead(mention', Hand(w).to, Cardinality(Frag))
        BY <1>3, <4>5, AheadClosed
      <4> QED  BY <1>6, <4>4, <4>6 DEF Joins
    <3>3. Goto(w, "retire") \/ Onward(w)
      BY <2>5 DEF MentionTo
    <3> QED  BY <1>1, <1>4, <1>6, <2>1, <3>2, <3>3, JoinGoto, JoinOnward
  <2>6. CASE Retire(w)
    <3>1. step[w] = "retire" /\ Onward(w) /\ mention' = mention /\ unlinked' = unlinked
      BY <2>6 DEF Retire
    <3>2. gone' = {} => Joins(mention', unlinked', Hand(Reflect))
      BY <1>2, <1>6, <3>1 DEF JoinInv
    <3> QED  BY <1>1, <1>4, <1>6, <3>1, <3>2, JoinOnward
  <2>7. CASE FailLink(w)
    BY <2>2, <2>7 DEF FailLink
  <2> QED  BY <2>3, <2>4, <2>5, <2>6, <2>7
<1> QED  BY <1>5, <1>6

\* A pass, or the reads of a handler: reflect has none.
LEMMA JoinRead ==
  ASSUME LinkInv, LinkInv', JoinInv, NEW w \in Workers,
         RetroStart(w) \/ FindCandidates(w) \/ FailRead(w)
  PROVE  JoinInv'
<1>1. UNCHANGED rows /\ UNCHANGED graph /\ UNCHANGED unlinked
  BY DEF RetroStart, FindCandidates, FailRead, Trouble
<1>2. Growing
  BY <1>1 DEF rows, graph, Growing
<1>3. w # Reflect
  BY LinkingAssumption
     DEF LinkingAssumption, RetroStart, FindCandidates, FailRead, JoinInv, Tidy
<1>4. /\ step \in [Workers -> {"idle", "store", "read", "check", "insert",
                                "from", "to", "retire"}]
      /\ todo \in [Workers -> Seq(Links)] /\ batch \in [Workers -> Seq(Frag)]
      /\ Reflect \in Workers
  BY DEF LinkInv, TypeOK, Workers
<1>5. Same
  <2>1. CASE RetroStart(w)
    BY <1>3, <1>4, <2>1 DEF RetroStart, Same
  <2>2. CASE FindCandidates(w)
    <3>1. CASE Done(w)
      BY <1>3, <3>1, Bystander
    <3>2. CASE ~Done(w)
      BY <1>3, <1>4, <2>2, <3>2 DEF FindCandidates, Same
    <3> QED  BY <3>1, <3>2
  <2>3. CASE FailRead(w)
    BY <1>3, <1>4, <2>3 DEF FailRead, Same
  <2> QED  BY <2>1, <2>2, <2>3
<1> QED  BY <1>2, <1>5, JoinQuiet

\* What a restart keeps reflect from linking is lost.
LEMMA JoinRestart ==
  ASSUME LinkInv, LinkInv', JoinInv, Restart
  PROVE  JoinInv'
<1>1. /\ step'[Reflect] = "idle" /\ todo'[Reflect] = <<>> /\ batch'[Reflect] = <<>>
      /\ UNCHANGED rows /\ UNCHANGED graph
  BY DEF Restart, Trouble, Workers
<1>2. unlinked' = unlinked \union {<<Left[n].from, Left[n].to>> : n \in DOMAIN Left}
  BY DEF Restart, Left
<1>3. Growing
  BY <1>1, <1>2 DEF rows, graph, Growing
<1>4. Tidy'
  BY <1>1 DEF Tidy
<1>5. ASSUME gone' = {}  PROVE Owed'
  <2> SUFFICES ASSUME NEW n \in DOMAIN SessionLinks
               PROVE  Joins(mention', unlinked', SessionLinks[n])
    BY DEF Owed, Joins, SessionLinks, Product, Link
  <2>1. SessionLinks[n] \in Links /\ gone = {}
    BY <1>3, <1>5, SessionLink DEF Growing
  <2>2. CASE Joins(mention, unlinked, SessionLinks[n])
    BY <1>3, <1>5, <2>1, <2>2, JoinedStays
  <2>3. CASE \E k \in DOMAIN Left : Left[k] = SessionLinks[n]
    BY <1>2, <2>3 DEF Joins
  <2> QED  BY <2>1, <2>2, <2>3 DEF JoinInv, Owed
<1> QED  BY <1>1, <1>4, <1>5 DEF JoinInv

LEMMA JoinStep ==
  ASSUME LinkInv, JoinInv, [Next]_vars  PROVE JoinInv'
<1>1. LinkInv'
  BY LinkStep
<1>2. ASSUME NEW f \in Frag, \/ Remember(f) \/ Amend(f) \/ Forget(f)
                             \/ \E heard \in BOOLEAN : Embed(f, heard)
      PROVE  JoinInv'
  BY <1>1, <1>2, JoinRows
<1>3. CASE ReflectInsert
  <2>1. UNCHANGED graph /\ UNCHANGED <<gone, unlinked>> /\ UNCHANGED work
    BY <1>3 DEF ReflectInsert
  <2>2. Same /\ Growing
    BY <2>1 DEF work, graph, Same, Growing
  <2> QED  BY <1>1, <2>2, JoinQuiet
<1>4. CASE ReflectLink \/ ReflectCheck \/ FailCheck
  BY <1>1, <1>4, JoinReflect
<1>5. ASSUME NEW w \in Workers, Run(w) \/ FailRead(w) \/ FailLink(w)  PROVE JoinInv'
  BY <1>1, <1>5, JoinLink, JoinRead DEF Run
<1>6. CASE Restart
  BY <1>1, <1>6, JoinRestart
<1>7. CASE UNCHANGED vars
  <2>1. Same /\ Growing
    BY <1>7 DEF vars, work, rows, graph, Same, Growing
  <2> QED  BY <1>1, <2>1, JoinQuiet
<1> QED  BY <1>2, <1>3, <1>4, <1>5, <1>6, <1>7 DEF Next

\* After reflect all its pairs are joined, whatever the handlers and the passes
\* draw meanwhile; a failure or a restart is what a missing one is due to, unless
\* a fragment was deleted.
THEOREM ReflectJoins == Spec => []SessionJoined
<1>1. Init => JoinInv
  <2> SUFFICES ASSUME Init PROVE JoinInv
    OBVIOUS
  <2>1. step[Reflect] = "store" /\ batch[Reflect] = <<>>
    BY DEF Init, Workers
  <2> QED  BY <2>1 DEF JoinInv, Tidy, Owed, Left
<1>2. LinkInv /\ JoinInv /\ [Next]_vars => JoinInv'
  BY JoinStep
<1>3. JoinInv => SessionJoined
  <2> SUFFICES ASSUME JoinInv, step[Reflect] = "idle", gone = {},
                      NEW n \in DOMAIN SessionLinks
               PROVE  Joins(mention, unlinked, SessionLinks[n])
    BY DEF SessionJoined, Joins
  <2>1. Left = <<>>
    BY DEF JoinInv, Tidy, Left
  <2> QED  BY <2>1 DEF JoinInv, Owed
<1> QED  BY <1>1, <1>2, <1>3, LinkingSafe, PTL DEF Spec
=============================================================================
