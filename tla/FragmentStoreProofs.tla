------------------------- MODULE FragmentStoreProofs ------------------------
(***************************************************************************)
(* Theorems about FragmentStore for every set of ids, texts and clients,   *)
(* every number of operations and of failing statements.                   *)
(***************************************************************************)
EXTENDS FragmentStore, TLAPS

\* What a client's program counter says of the closure it runs with.
JobOf(c) ==
  /\ pc[c] \in {"select", "insert"} => job[c].text \in Contents
  /\ pc[c] \in {"linkRead", "linkInsert", "linkFrom", "linkTo"} =>
       /\ job[c].from \in Ids /\ job[c].to \in Ids
       /\ job[c].op = "remember" => job[c].id \in Ids
  /\ pc[c] \in {"archive", "dupCheck", "write"} => job[c].snap \in Contents
  /\ pc[c] \in {"dupCheck", "write"} => job[c].id \in Live

\* The inductive invariant behind type correctness and TxnKeepsRow: the lock
\* taken with the archived version is what keeps the row of a transaction.
Inv == TypeOK /\ \A c \in Clients : JobOf(c)

-----------------------------------------------------------------------------
(* The control operators.                                                  *)

\* Client c moved to a step and a closure that fit; the others did not move.
Moved(c) ==
  /\ pc' \in [Clients -> Steps] /\ job' \in [Clients -> Jobs]
  /\ JobOf(c)'
  /\ \A d \in Clients \ {c} : pc'[d] = pc[d] /\ job'[d] = job[d]

\* The closure of an idle client is a closure.
LEMMA NoJobType == NoJob \in Jobs
  BY DEF NoJob, Jobs, Rels

\* Returning to the caller.
LEMMA ReturnMoves ==
  ASSUME NEW c \in Clients, TypeOK, Return(c)
  PROVE  Moved(c)
  BY NoJobType DEF Return, Goto, TypeOK, Steps, Moved, JobOf

\* Entering createLink.
LEMMA LinkStepMoves ==
  ASSUME NEW c \in Clients, TypeOK, NEW j \in Jobs, NEW from \in Ids,
         NEW to \in Ids, NEW rel \in Rels, LinkStep(c, j, from, to, rel),
         j.op = "remember" => j.id \in Ids
  PROVE  Moved(c)
<1>1. [j EXCEPT !.from = from, !.to = to, !.rel = rel] \in Jobs
  BY DEF Jobs
<1>2. QED
  BY <1>1 DEF LinkStep, Goto, TypeOK, Steps, Jobs, Moved, JobOf

\* remember's continuation after its links.
LEMMA SupersedeMoves ==
  ASSUME NEW c \in Clients, TypeOK, NEW j \in Jobs, j.id \in Ids,
         SupersedeOrReturn(c, j)
  PROVE  Moved(c)
<1>1. CASE j.old \notin {None, j.id}
  <2>1. j.old \in Ids
    BY <1>1 DEF Jobs
  <2>2. LinkStep(c, j, j.old, j.id, "superseded_by")
    BY <1>1 DEF SupersedeOrReturn
  <2>3. QED
    BY <2>1, <2>2, LinkStepMoves DEF Rels
<1>2. CASE j.old \in {None, j.id}
  BY <1>2, ReturnMoves DEF SupersedeOrReturn
<1>3. QED
  BY <1>1, <1>2

\* remember's continuation once it has an id.
LEMMA AfterStoredMoves ==
  ASSUME NEW c \in Clients, TypeOK, NEW j \in Jobs, j.id \in Ids,
         AfterStored(c, j)
  PROVE  Moved(c)
<1>1. CASE j.to # None
  <2>1. j.to \in Ids
    BY <1>1 DEF Jobs
  <2>2. LinkStep(c, j, j.id, j.to, "related")
    BY <1>1 DEF AfterStored
  <2>3. QED
    BY <2>1, <2>2, LinkStepMoves DEF Rels
<1>2. CASE j.to = None
  BY <1>2, SupersedeMoves DEF AfterStored
<1>3. QED
  BY <1>1, <1>2

\* A step that moves one client, keeps the columns typed and takes no row from a
\* running transaction preserves the invariant.
LEMMA MoveKeepsInv ==
  ASSUME NEW c \in Clients, Inv, Moved(c),
         \A d \in Clients, i \in Live : InTxn(d, i) => i \in Live',
         TypeOK'
  PROVE  Inv'
<1>1. ASSUME NEW d \in Clients \ {c} PROVE JobOf(d)'
  <2>1. JobOf(d) /\ pc'[d] = pc[d] /\ job'[d] = job[d]
    BY DEF Inv, Moved
  <2>2. pc[d] \in {"dupCheck", "write"} => job[d].id \in Live'
    BY <2>1 DEF JobOf, InTxn
  <2>3. QED
    BY <2>1, <2>2 DEF JobOf
<1>2. QED
  BY <1>1 DEF Inv, Moved

-----------------------------------------------------------------------------
(* Every step preserves Inv.                                               *)

\* The empty table satisfies the invariant.
LEMMA InitInv == Init => Inv
  BY ConstantsAssumption, NoJobType
  DEF Init, Inv, TypeOK, JobOf, Live, Steps

\* A request moves an idle client and nothing else.
LEMMA RequestInv ==
  ASSUME NEW c \in Clients, Inv, Request(c)
  PROVE  Inv'
<1>1. ASSUME NEW step \in {"select", "linkRead", "amendRead", "forgetRead"},
             NEW args \in Jobs, Start(c, step, args),
             UNCHANGED <<rowVars, linkVars, versions, spent, histVars, failures>>,
             step = "select" => args.text \in Contents,
             step = "linkRead" => /\ args.from \in Ids /\ args.to \in Ids
                                  /\ args.op # "remember"
      PROVE  Inv'
  <2>1. Moved(c)
    BY <1>1 DEF Start, Inv, TypeOK, Moved, JobOf, Steps
  <2>2. TypeOK'
    BY <1>1, <2>1, ConstantsAssumption
    DEF Start, Inv, TypeOK, Moved, Live, rowVars, linkVars, histVars
  <2>3. QED
    BY <1>1, <2>1, <2>2, MoveKeepsInv DEF Live, rowVars
<1>2. ASSUME NEW text \in Contents, NEW to \in spent \union {None},
             NEW old \in spent \union {None}, NEW flag \in Flags,
             RememberStart(c, text, to, old, flag)
      PROVE  Inv'
  <2>1. [NoJob EXCEPT !.op = "remember", !.text = text, !.to = to, !.old = old,
                      !.flag = flag] \in Jobs
    BY NoJobType, ConstantsAssumption DEF Jobs, Inv, TypeOK
  <2>2. QED
    BY <1>1, <1>2, <2>1 DEF RememberStart, NoJob
<1>3. ASSUME NEW i \in spent, NEW j \in spent, NEW rel \in LinkRels,
             LinkStart(c, i, j, rel)
      PROVE  Inv'
  <2>1. [NoJob EXCEPT !.op = "link", !.from = i, !.to = j, !.rel = rel] \in Jobs
    BY NoJobType DEF Jobs, Inv, TypeOK, Rels
  <2>2. QED
    BY <1>1, <1>3, <2>1 DEF LinkStart, NoJob, Inv, TypeOK
<1>4. ASSUME NEW i \in spent, NEW text \in Contents \union {None},
             NEW flag \in Flags, AmendStart(c, i, text, flag)
      PROVE  Inv'
  <2>1. [NoJob EXCEPT !.op = "amend", !.id = i, !.text = text, !.flag = flag]
          \in Jobs
    BY NoJobType, ConstantsAssumption DEF Jobs, Inv, TypeOK
  <2>2. QED
    BY <1>1, <1>4, <2>1 DEF AmendStart
<1>5. ASSUME NEW i \in spent, NEW force \in Flags, ForgetStart(c, i, force)
      PROVE  Inv'
  <2>1. [NoJob EXCEPT !.op = "forget", !.id = i, !.flag = force] \in Jobs
    BY NoJobType, ConstantsAssumption DEF Jobs, Inv, TypeOK
  <2>2. QED
    BY <1>1, <1>5, <2>1 DEF ForgetStart
<1>6. QED
  BY <1>2, <1>3, <1>4, <1>5 DEF Request

\* Learning the id of the stored fragment.
LEMMA WithId ==
  ASSUME NEW j \in Jobs, NEW i \in Ids
  PROVE  /\ [j EXCEPT !.id = i] \in Jobs
         /\ [j EXCEPT !.id = i].id = i
  BY DEF Jobs

\* Reading the text an amend will archive.
LEMMA WithSnap ==
  ASSUME NEW j \in Jobs, NEW t \in Contents
  PROVE  /\ [j EXCEPT !.snap = t] \in Jobs
         /\ [j EXCEPT !.snap = t].snap = t
  BY DEF Jobs

\* remember's statements.
LEMMA RememberInv ==
  ASSUME NEW c \in Clients, Inv,
         \/ RememberSelect(c)
         \/ \E i \in Ids : RememberInsert(c, i) \/ RememberConflict(c, i)
         \/ Retire(c)
  PROVE  Inv'
<1>1. ASSUME NEW i \in Ids
      PROVE  /\ [job[c] EXCEPT !.id = i] \in Jobs
             /\ [job[c] EXCEPT !.id = i].id = i
  BY WithId DEF Inv, TypeOK
<1>2. CASE RememberSelect(c)
  <2>1. Moved(c)
    <3>1. CASE Goto(c, "insert") /\ UNCHANGED job
      BY <1>2, <3>1 DEF RememberSelect, Goto, Inv, TypeOK, Steps, Moved, JobOf
    <3>2. ASSUME NEW i \in Live, AfterStored(c, [job[c] EXCEPT !.id = i])
          PROVE  Moved(c)
      BY <1>1, <3>2, AfterStoredMoves DEF Inv, Live
    <3>3. QED
      BY <1>2, <3>1, <3>2 DEF RememberSelect
  <2>2. TypeOK'
    BY <1>2, <2>1 DEF RememberSelect, Inv, TypeOK, Moved, Live, Pin, rowVars, linkVars
  <2>3. QED
    BY <1>2, <2>1, <2>2, MoveKeepsInv DEF RememberSelect, Live, rowVars
<1>3. ASSUME NEW i \in Ids, RememberInsert(c, i) PROVE Inv'
  <2>1. Moved(c)
    BY <1>1, <1>3, AfterStoredMoves DEF RememberInsert, Inv
  <2>2. job[c].text \in Contents /\ job[c].to \in Ids \union {None}
    BY <1>3 DEF RememberInsert, Inv, JobOf, TypeOK, Jobs
  <2>3. Live' = Live \union {i}
    BY <1>3, <2>2, ConstantsAssumption DEF RememberInsert, Live, Inv, TypeOK
  <2>4. TypeOK'
    BY <1>3, <2>1, <2>2, <2>3, ConstantsAssumption
    DEF RememberInsert, Inv, TypeOK, Moved, Pin
  <2>5. QED
    BY <2>1, <2>3, <2>4, MoveKeepsInv
<1>4. ASSUME NEW i \in Ids, RememberConflict(c, i) PROVE Inv'
  <2>1. Moved(c)
    BY <1>1, <1>4, AfterStoredMoves DEF RememberConflict, Inv
  <2>2. TypeOK'
    BY <1>4, <2>1
    DEF RememberConflict, Inv, TypeOK, Moved, Live, Pin, linkVars
  <2>3. QED
    BY <1>4, <2>1, <2>2, MoveKeepsInv DEF RememberConflict, Live
<1>5. CASE Retire(c)
  <2>1. Moved(c)
    BY <1>5, ReturnMoves DEF Retire, Inv
  <2>2. TypeOK'
    BY <1>5, <2>1 DEF Retire, Inv, TypeOK, Moved, Live, linkVars, Jobs
  <2>3. QED
    BY <1>5, <2>1, <2>2, MoveKeepsInv DEF Retire, Live
<1>6. QED
  BY <1>2, <1>3, <1>4, <1>5

\* createLink's statements, made.
LEMMA LinkMadeMoves ==
  ASSUME NEW c \in Clients, Inv, LinkMade(c), pc[c] = "linkTo"
  PROVE  Moved(c)
<1>1. CASE job[c].op = "remember" /\ job[c].rel = "related"
  <2>1. SupersedeOrReturn(c, job[c])
    BY <1>1 DEF LinkMade
  <2>2. job[c] \in Jobs /\ job[c].id \in Ids
    BY <1>1 DEF Inv, TypeOK, JobOf
  <2>3. QED
    BY <2>1, <2>2, SupersedeMoves DEF Inv
<1>2. CASE job[c].op = "remember" /\ job[c].rel = "superseded_by"
  BY <1>2 DEF LinkMade, Goto, Inv, TypeOK, Steps, Moved, JobOf
<1>3. CASE Return(c)
  BY <1>3, ReturnMoves DEF Inv
<1>4. CASE /\ Goto(c, "amendRead")
           /\ job' = [job EXCEPT ![c] = [NoJob EXCEPT !.op = "link",
                                                      !.id = job[c].to]]
  <2>1. [NoJob EXCEPT !.op = "link", !.id = job[c].to] \in Jobs
    BY NoJobType DEF Jobs, Inv, TypeOK
  <2>2. QED
    BY <1>4, <2>1 DEF Goto, Inv, TypeOK, Steps, Moved, JobOf
<1>5. QED
  BY <1>1, <1>2, <1>3, <1>4 DEF LinkMade

\* createLink's statements, failed.
LEMMA LinkFailedMoves ==
  ASSUME NEW c \in Clients, Inv, LinkFailed(c),
         pc[c] \in {"linkInsert", "linkFrom", "linkTo"}
  PROVE  Moved(c)
<1>1. CASE job[c].op = "remember" /\ job[c].rel = "related"
  <2>1. SupersedeOrReturn(c, job[c])
    BY <1>1 DEF LinkFailed
  <2>2. job[c] \in Jobs /\ job[c].id \in Ids
    BY <1>1 DEF Inv, TypeOK, JobOf
  <2>3. QED
    BY <2>1, <2>2, SupersedeMoves DEF Inv
<1>2. CASE Return(c)
  BY <1>2, ReturnMoves DEF Inv
<1>3. QED
  BY <1>1, <1>2 DEF LinkFailed

\* createLink's statements preserve the invariant.
LEMMA LinkInv ==
  ASSUME NEW c \in Clients, Inv,
         LinkRead(c) \/ LinkInsert(c) \/ LinkFrom(c) \/ LinkTo(c)
  PROVE  Inv'
<1>1. Moved(c)
  <2>1. CASE LinkRead(c)
    <3>1. CASE Goto(c, "linkInsert") /\ UNCHANGED job
      BY <2>1, <3>1 DEF LinkRead, Goto, Inv, TypeOK, Steps, Moved, JobOf
    <3>2. QED
      BY <2>1, <3>1, ReturnMoves DEF LinkRead, Inv
  <2>2. CASE LinkInsert(c)
    <3>1. CASE Goto(c, "linkFrom") /\ UNCHANGED job
      BY <2>2, <3>1 DEF LinkInsert, Goto, Inv, TypeOK, Steps, Moved, JobOf
    <3>2. QED
      BY <2>2, <3>1, LinkFailedMoves DEF LinkInsert
  <2>3. CASE LinkFrom(c)
    BY <2>3 DEF LinkFrom, Goto, Inv, TypeOK, Steps, Moved, JobOf
  <2>4. CASE LinkTo(c)
    BY <2>4, LinkMadeMoves DEF LinkTo
  <2>5. QED
    BY <2>1, <2>2, <2>3, <2>4
<1>2. /\ UNCHANGED <<rowVars, versions, spent, histVars, ops, failures>>
      /\ edge' \in [Ids \X Ids -> Rels \union {None}]
      /\ linkedTo' \in [Ids -> SUBSET Ids]
  <2>1. CASE LinkRead(c)
    BY <2>1 DEF LinkRead, Inv, TypeOK, linkVars
  <2>2. CASE LinkInsert(c)
    <3>1. job[c].rel \in Rels
      BY DEF Inv, TypeOK, Jobs
    <3>2. QED
      BY <2>2, <3>1 DEF LinkInsert, Inv, TypeOK
  <2>3. CASE LinkFrom(c)
    BY <2>3 DEF LinkFrom, Mention, Inv, TypeOK, JobOf
  <2>4. CASE LinkTo(c)
    BY <2>4 DEF LinkTo, Mention, Inv, TypeOK, JobOf
  <2>5. QED
    BY <2>1, <2>2, <2>3, <2>4
<1>3. TypeOK'
  BY <1>1, <1>2 DEF Inv, TypeOK, Moved, Live, rowVars, histVars
<1>4. QED
  BY <1>1, <1>2, <1>3, MoveKeepsInv DEF Live, rowVars

\* amend's statements.
LEMMA AmendInv ==
  ASSUME NEW c \in Clients, Inv,
         \/ AmendRead(c) \/ AmendArchive(c) \/ AmendDupCheck(c)
         \/ AmendWrite(c) \/ AmendAbort(c)
  PROVE  Inv'
<1>1. ASSUME Moved(c),
             UNCHANGED <<rowVars, linkVars, versions, spent, histVars, ops, failures>>
      PROVE  Inv'
  <2>1. TypeOK'
    BY <1>1
    DEF Inv, TypeOK, Moved, Live, rowVars, linkVars, histVars
  <2>2. QED
    BY <1>1, <2>1, MoveKeepsInv DEF Live, rowVars
<1>2. CASE AmendRead(c)
  <2>1. CASE /\ job[c].id \in Live
             /\ job' = [job EXCEPT ![c].snap = content[job[c].id]]
             /\ Goto(c, "archive")
    <3>1. content[job[c].id] \in Contents
      BY <2>1 DEF Live, Inv, TypeOK
    <3>2. [job[c] EXCEPT !.snap = content[job[c].id]] \in Jobs
      BY <3>1, WithSnap DEF Inv, TypeOK
    <3>3. job' = [job EXCEPT ![c] = [job[c] EXCEPT !.snap = content[job[c].id]]]
      BY <2>1
    <3>4. [job[c] EXCEPT !.snap = content[job[c].id]].snap = content[job[c].id]
      BY <3>1, WithSnap DEF Inv, TypeOK
    <3>5. Moved(c)
      BY <2>1, <3>1, <3>2, <3>3, <3>4
      DEF Goto, Inv, TypeOK, Steps, Moved, JobOf
    <3>6. QED
      BY <1>1, <1>2, <3>5 DEF AmendRead
  <2>2. CASE Return(c)
    BY <1>1, <1>2, <2>2, ReturnMoves DEF AmendRead, Inv
  <2>3. QED
    BY <1>2, <2>1, <2>2 DEF AmendRead
<1>3. CASE AmendArchive(c)
  <2>1. CASE /\ job[c].id \in Live /\ UNCHANGED job
             /\ Goto(c, IF job[c].text = None THEN "write" ELSE "dupCheck")
    <3>1. UNCHANGED Live
      BY <1>3 DEF AmendArchive, Live, rowVars
    <3>2. Moved(c)
      BY <1>3, <2>1, <3>1
      DEF AmendArchive, Goto, Inv, TypeOK, Steps, Moved, JobOf
    <3>3. QED
      BY <1>1, <1>3, <3>2 DEF AmendArchive
  <2>2. CASE Return(c)
    BY <1>1, <1>3, <2>2, ReturnMoves DEF AmendArchive, Inv
  <2>3. QED
    BY <1>3, <2>1, <2>2 DEF AmendArchive
<1>4. CASE AmendDupCheck(c)
  <2>1. CASE Goto(c, "write") /\ UNCHANGED job
    <3>1. UNCHANGED Live
      BY <1>4 DEF AmendDupCheck, Live, rowVars
    <3>2. Moved(c)
      BY <1>4, <2>1, <3>1
      DEF AmendDupCheck, Goto, Inv, TypeOK, Steps, Moved, JobOf
    <3>3. QED
      BY <1>1, <1>4, <3>2 DEF AmendDupCheck
  <2>2. QED
    BY <1>1, <1>4, <2>1, ReturnMoves DEF AmendDupCheck, Inv
<1>5. CASE AmendWrite(c)
  <2> DEFINE i == job[c].id
             text == job[c].text
  <2>1. i \in Ids /\ i \in Live /\ text \in Contents \union {None}
        /\ job[c].snap \in Contents
    BY <1>5 DEF AmendWrite, Inv, JobOf, TypeOK, Live, Jobs
  <2>2. Moved(c)
    BY <1>5, ReturnMoves DEF AmendWrite, Inv
  <2>3. content' = IF text = None THEN content ELSE [content EXCEPT ![i] = text]
    BY <1>5 DEF AmendWrite
  <2>4. content' \in [Ids -> Contents \union {None}] /\ Live' = Live
    BY <2>1, <2>3 DEF Inv, TypeOK, Live
  <2>5. anchored' \subseteq Live /\ pinned' \subseteq Live
        /\ stale' \subseteq Ids
    BY <1>5, <2>1 DEF AmendWrite, Inv, TypeOK
  <2>6. versions' \in [Ids -> SUBSET Contents] /\ past' \in [Ids -> SUBSET Contents]
    BY <1>5, <2>1 DEF AmendWrite, ArchivedText, Inv, TypeOK
  <2>7. TypeOK'
    BY <1>5, <2>2, <2>4, <2>5, <2>6
    DEF AmendWrite, Inv, TypeOK, Moved, linkVars
  <2>8. QED
    BY <2>2, <2>4, <2>7, MoveKeepsInv
<1>6. CASE AmendAbort(c)
  BY <1>1, <1>6, ReturnMoves DEF AmendAbort, Inv
<1>7. QED
  BY <1>2, <1>3, <1>4, <1>5, <1>6

\* Deleting rows: what hangs on them goes, the other rows stay.
LEMMA DropRowsType ==
  ASSUME Inv, NEW S, DropRows(S)
  PROVE  /\ Live' = Live \ S
         /\ content' \in [Ids -> Contents \union {None}]
         /\ owner' \in [Ids -> Keys \union {None}]
         /\ edge' \in [Ids \X Ids -> Rels \union {None}]
         /\ linkedTo' \in [Ids -> SUBSET Ids]
         /\ versions' \in [Ids -> SUBSET Contents]
         /\ past' \in [Ids -> SUBSET Contents]
         /\ successor' \in [Ids -> Ids \union {None}]
         /\ retired' \subseteq Live' /\ anchored' \subseteq Live'
         /\ permanent' \subseteq Live' /\ aged' \subseteq Live'
         /\ pinned' \subseteq Live' /\ stale' \subseteq Ids
<1>1. Live' = Live \ S
  BY DEF DropRows, Live
<1>2. QED
  BY <1>1 DEF DropRows, Inv, TypeOK

\* forget's statements.
LEMMA ForgetInv ==
  ASSUME NEW c \in Clients, Inv,
         ForgetRead(c) \/ DeleteLinks(c) \/ DeleteRefs(c) \/ DeleteRow(c)
  PROVE  Inv'
<1>1. CASE ForgetRead(c)
  <2>1. Moved(c)
    <3>1. CASE Goto(c, "delLinks") /\ UNCHANGED job
      BY <3>1 DEF Goto, Inv, TypeOK, Steps, Moved, JobOf
    <3>2. QED
      BY <1>1, <3>1, ReturnMoves DEF ForgetRead, Inv
  <2>2. TypeOK'
    BY <1>1, <2>1
    DEF ForgetRead, Inv, TypeOK, Moved, Live, rowVars, linkVars, histVars
  <2>3. QED
    BY <1>1, <2>1, <2>2, MoveKeepsInv DEF ForgetRead, Live, rowVars
<1>2. CASE DeleteLinks(c)
  <2>1. Moved(c)
    BY <1>2 DEF DeleteLinks, Goto, Inv, TypeOK, Steps, Moved, JobOf
  <2>2. edge' \in [Ids \X Ids -> Rels \union {None}]
    BY <1>2 DEF DeleteLinks, Inv, TypeOK
  <2>3. TypeOK'
    BY <1>2, <2>1, <2>2
    DEF DeleteLinks, Inv, TypeOK, Moved, Live, rowVars, histVars
  <2>4. QED
    BY <1>2, <2>1, <2>3, MoveKeepsInv DEF DeleteLinks, Live, rowVars
<1>3. CASE DeleteRefs(c)
  <2>1. Moved(c)
    BY <1>3 DEF DeleteRefs, Goto, Inv, TypeOK, Steps, Moved, JobOf
  <2>2. TypeOK'
    BY <1>3, <2>1
    DEF DeleteRefs, Inv, TypeOK, Moved, Live, rowVars, histVars
  <2>3. QED
    BY <1>3, <2>1, <2>2, MoveKeepsInv DEF DeleteRefs, Live, rowVars
<1>4. CASE DeleteRow(c)
  <2> DEFINE S == {job[c].id}
  <2>1. Moved(c)
    BY <1>4, ReturnMoves DEF DeleteRow, Inv
  <2>2. DropRows(S)
    BY <1>4 DEF DeleteRow
  <2>3. TypeOK'
    BY <1>4, <2>1, <2>2, DropRowsType DEF DeleteRow, Inv, TypeOK, Moved
  <2>4. \A d \in Clients, i \in Live : InTxn(d, i) => i \in Live'
    <3>1. Live' = Live \ S
      BY <2>2, DropRowsType
    <3>2. \A d \in Clients : ~ InTxn(d, job[c].id)
      BY <1>4 DEF DeleteRow, Locked
    <3>3. QED
      BY <3>1, <3>2
  <2>5. QED
    BY <2>1, <2>3, <2>4, MoveKeepsInv
<1>5. QED
  BY <1>1, <1>2, <1>3, <1>4

\* A step that moves no client.
LEMMA MaintenanceInv ==
  ASSUME Inv, Maintenance
  PROVE  Inv'
<1>1. ASSUME TypeOK', UNCHANGED <<pc, job>>,
             \A d \in Clients, i \in Live : InTxn(d, i) => i \in Live'
      PROVE  Inv'
  <2>1. ASSUME NEW d \in Clients PROVE JobOf(d)'
    <3>1. JobOf(d) /\ pc'[d] = pc[d] /\ job'[d] = job[d]
      BY <1>1 DEF Inv
    <3>2. pc[d] \in {"dupCheck", "write"} => job[d].id \in Live'
      BY <1>1, <3>1 DEF JobOf, InTxn
    <3>3. QED
      BY <3>1, <3>2 DEF JobOf
  <2>2. QED
    BY <1>1, <2>1 DEF Inv
<1>2. CASE DeleteExpired
  <2>1. PICK S \in SUBSET (aged \ (permanent \union anchored)) :
          /\ \A i \in S : ~ Locked(i, {})
          /\ DropRows(S)
          /\ UNCHANGED <<pc, job, spent, ops, failures>>
    BY <1>2 DEF DeleteExpired
  <2>2. TypeOK'
    BY <2>1, DropRowsType DEF Inv, TypeOK
  <2>3. \A d \in Clients, i \in Live : InTxn(d, i) => i \in Live'
    BY <2>1, DropRowsType DEF Locked
  <2>4. QED
    BY <1>1, <2>1, <2>2, <2>3
<1>3. CASE WeekPasses
  <2>1. TypeOK'
    BY <1>3 DEF WeekPasses, Inv, TypeOK, Live, linkVars, histVars
  <2>2. QED
    BY <1>1, <1>3, <2>1 DEF WeekPasses, Live
<1>4. ASSUME NEW i \in Ids, PromoteTier(i) PROVE Inv'
  <2>1. TypeOK'
    BY <1>4 DEF PromoteTier, Inv, TypeOK, Live, linkVars, histVars
  <2>2. QED
    BY <1>1, <1>4, <2>1 DEF PromoteTier, Live
<1>5. QED
  BY <1>2, <1>3, <1>4 DEF Maintenance

\* A statement that fails.
LEMMA FailInv ==
  ASSUME NEW c \in Clients, Inv, FailStatement(c)
  PROVE  Inv'
<1>1. Moved(c)
  <2>1. CASE pc[c] = "delLinks" /\ Goto(c, "delRefs") /\ UNCHANGED job
    BY <2>1 DEF Goto, Inv, TypeOK, Steps, Moved, JobOf
  <2>2. CASE pc[c] \in {"linkInsert", "linkFrom", "linkTo"} /\ LinkFailed(c)
    BY <2>2, LinkFailedMoves
  <2>3. CASE Return(c)
    BY <2>3, ReturnMoves DEF Inv
  <2>4. QED
    BY <2>1, <2>2, <2>3 DEF FailStatement
<1>2. TypeOK'
  BY <1>1, ConstantsAssumption
  DEF FailStatement, Inv, TypeOK, Moved, Live, rowVars, linkVars, histVars
<1>3. QED
  BY <1>1, <1>2, MoveKeepsInv DEF FailStatement, Live, rowVars

\* Every step preserves the invariant: one case per group of operations.
LEMMA StepInv == Inv /\ [Next]_vars => Inv'
<1> SUFFICES ASSUME Inv, [Next]_vars PROVE Inv'
  OBVIOUS
<1>1. ASSUME NEW c \in Clients, Step(c) PROVE Inv'
  BY <1>1, RememberInv, LinkInv, AmendInv, ForgetInv DEF Step
<1>2. CASE UNCHANGED vars
  BY <1>2 DEF vars, rowVars, linkVars, histVars, Inv, TypeOK, JobOf, Live
<1>3. QED
  BY <1>1, <1>2, RequestInv, FailInv, MaintenanceInv DEF Next

-----------------------------------------------------------------------------
(* Theorems.                                                               *)

\* The invariant holds throughout every behaviour.
LEMMA InvAlways == Spec => []Inv
  BY InitInv, StepInv, PTL DEF Spec

\* Every column, array, link and closure has its type in every reachable state.
THEOREM TypeCorrect == Spec => []TypeOK
<1>1. Inv => TypeOK
  BY DEF Inv
<1>2. QED
  BY <1>1, InvAlways, PTL

\* From the archived version to the UPDATE the row of an amend exists: the lock
\* on the row holds off the DELETE of every forget and of the collector.
THEOREM TxnRowStays == Spec => []TxnKeepsRow
<1>1. Inv => TxnKeepsRow
  BY DEF Inv, JobOf, TxnKeepsRow, InTxn
<1>2. QED
  BY <1>1, InvAlways, PTL

-----------------------------------------------------------------------------
(* What the statements do to the texts.                                    *)

textVars == <<content, retired, spent, versions, past, stale>>

\* Only four statements touch a text, its history or its validity.
LEMMA TextFrame ==
  ASSUME [Next]_vars
  PROVE  \/ UNCHANGED textVars
         \/ \E c \in Clients, i \in Ids : RememberInsert(c, i)
         \/ \E c \in Clients : Retire(c)
         \/ \E c \in Clients : AmendWrite(c)
         \/ \E S : DropRows(S) /\ UNCHANGED spent
<1>1. CASE UNCHANGED vars
  BY <1>1 DEF vars, textVars, rowVars, histVars
<1>2. ASSUME NEW c \in Clients, Request(c) PROVE UNCHANGED textVars
  BY <1>2 DEF Request, RememberStart, LinkStart, AmendStart, ForgetStart,
              textVars, rowVars, histVars
<1>3. ASSUME NEW c \in Clients, FailStatement(c) PROVE UNCHANGED textVars
  BY <1>3 DEF FailStatement, textVars, rowVars, histVars
<1>4. ASSUME NEW c \in Clients, Step(c)
      PROVE  \/ UNCHANGED textVars
             \/ \E i \in Ids : RememberInsert(c, i)
             \/ Retire(c) \/ AmendWrite(c) \/ DeleteRow(c)
  <2>1. CASE RememberSelect(c) \/ \E i \in Ids : RememberConflict(c, i)
    BY <2>1 DEF RememberSelect, RememberConflict, textVars, rowVars, histVars
  <2>2. CASE LinkRead(c) \/ LinkInsert(c) \/ LinkFrom(c) \/ LinkTo(c)
    BY <2>2 DEF LinkRead, LinkInsert, LinkFrom, LinkTo, textVars, rowVars, histVars
  <2>3. CASE AmendRead(c) \/ AmendArchive(c) \/ AmendDupCheck(c) \/ AmendAbort(c)
    BY <2>3 DEF AmendRead, AmendArchive, AmendDupCheck, AmendAbort,
                textVars, rowVars, histVars
  <2>4. CASE ForgetRead(c) \/ DeleteLinks(c) \/ DeleteRefs(c)
    BY <2>4 DEF ForgetRead, DeleteLinks, DeleteRefs, textVars, rowVars, histVars
  <2>5. QED
    BY <1>4, <2>1, <2>2, <2>3, <2>4 DEF Step
<1>5. ASSUME NEW c \in Clients, DeleteRow(c)
      PROVE  \E S : DropRows(S) /\ UNCHANGED spent
  BY <1>5 DEF DeleteRow
<1>6. ASSUME Maintenance
      PROVE  \/ UNCHANGED textVars
             \/ \E S : DropRows(S) /\ UNCHANGED spent
  <2>1. CASE DeleteExpired
    BY <2>1 DEF DeleteExpired
  <2>2. CASE WeekPasses \/ \E i \in Ids : PromoteTier(i)
    BY <2>2 DEF WeekPasses, PromoteTier, textVars, histVars
  <2>3. QED
    BY <1>6, <2>1, <2>2 DEF Maintenance
<1>7. ASSUME NEW c \in Clients, Request(c) \/ Step(c) \/ FailStatement(c)
      PROVE  \/ UNCHANGED textVars
             \/ \E i \in Ids : RememberInsert(c, i)
             \/ Retire(c) \/ AmendWrite(c)
             \/ \E S : DropRows(S) /\ UNCHANGED spent
  BY <1>2, <1>3, <1>4, <1>5, <1>7
<1>8. QED
  BY <1>1, <1>6, <1>7 DEF Next

-----------------------------------------------------------------------------
(* The table implements the ledger.                                        *)

\* Every statement is a change of the ledger or invisible to it.
LEMMA LedgerStep ==
  ASSUME Inv, [Next]_vars
  PROVE  [Ledger!LedgerNext]_Ledger!ledgerVars
<1>1. CASE UNCHANGED textVars
  BY <1>1 DEF textVars, Ledger!ledgerVars
<1>2. ASSUME NEW c \in Clients, NEW i \in Ids, RememberInsert(c, i)
      PROVE  Ledger!LedgerNext
  <2>1. job[c].text \in Contents
    BY <1>2 DEF RememberInsert, Inv, JobOf
  <2>2. \A j \in Ids : content[j] # job[c].text
    BY <1>2, <2>1, ConstantsAssumption DEF RememberInsert, Live
  <2>3. Ledger!Enter(i, job[c].text)
    BY <1>2, <2>2 DEF RememberInsert, Ledger!Enter, Ledger!FreeBut
  <2>4. QED
    BY <2>1, <2>3 DEF Ledger!LedgerNext
<1>3. ASSUME NEW c \in Clients, Retire(c)
      PROVE  [Ledger!LedgerNext]_Ledger!ledgerVars
  <2>1. CASE job[c].old \in Live \ retired
    <3>1. job[c].old \in Ids /\ Ledger!Expire(job[c].old)
      BY <1>3, <2>1 DEF Retire, Ledger!Expire, Ledger!Held, Live
    <3>2. QED
      BY <3>1 DEF Ledger!LedgerNext
  <2>2. CASE job[c].old \notin Live \ retired
    BY <1>3, <2>2 DEF Retire, Ledger!ledgerVars
  <2>3. QED
    BY <2>1, <2>2
<1>4. ASSUME NEW c \in Clients, AmendWrite(c)
      PROVE  [Ledger!LedgerNext]_Ledger!ledgerVars
  <2> DEFINE i == job[c].id
             text == job[c].text
  <2>1. i \in Live /\ i \in Ids
    BY <1>4 DEF AmendWrite, Inv, JobOf, Live
  <2>2. CASE Rewrites(c)
    <3>1. text \in Contents
      BY <2>2 DEF Rewrites, Inv, TypeOK, Jobs
    <3>2. \A j \in Ids \ {i} : content[j] # text
      BY <1>4, <2>2, <3>1, ConstantsAssumption
      DEF AmendWrite, HeldElsewhere, Live
    <3>3. Ledger!Rewrite(i, text)
      BY <1>4, <2>1, <2>2, <3>2
      DEF AmendWrite, Rewrites, Ledger!Rewrite, Ledger!FreeBut, Ledger!Held, Live
    <3>4. QED
      BY <2>1, <3>1, <3>3 DEF Ledger!LedgerNext
  <2>3. CASE ~ Rewrites(c)
    BY <1>4, <2>1, <2>3
    DEF AmendWrite, Rewrites, Ledger!ledgerVars, Inv, TypeOK
  <2>4. QED
    BY <2>2, <2>3
<1>5. ASSUME NEW S, DropRows(S), UNCHANGED spent
      PROVE  Ledger!LedgerNext
  <2> DEFINE T == S \cap Ids
  <2>1. retired \ S = retired \ T
    BY DEF Inv, TypeOK, Live
  <2>2. Ledger!Remove(T)
    BY <1>5, <2>1 DEF DropRows, Ledger!Remove
  <2>3. QED
    BY <2>2 DEF Ledger!LedgerNext
<1>6. QED
  BY <1>1, <1>2, <1>3, <1>4, <1>5, TextFrame

\* The fragment table implements FragmentLedger for any number of concurrent
\* clients, failing statements and collections.
THEOREM StoreImplementsLedger == Spec => ImplementsLedger
<1>1. Init => Ledger!LedgerInit
  BY DEF Init, Ledger!LedgerInit
<1>2. QED
  BY <1>1, LedgerStep, InvAlways, PTL DEF Spec, ImplementsLedger, Ledger!LedgerSpec

-----------------------------------------------------------------------------
(* One row per text.                                                       *)

\* Uniqueness is inductive on its own: the unique index refuses the writes.
LEMMA UniqueStep ==
  ASSUME Inv, OneRowPerContent, [Next]_vars
  PROVE  OneRowPerContent'
<1>1. CASE UNCHANGED textVars
  BY <1>1 DEF textVars, OneRowPerContent, Live
<1>2. ASSUME NEW c \in Clients, NEW i \in Ids, RememberInsert(c, i)
      PROVE  OneRowPerContent'
  BY <1>2 DEF RememberInsert, OneRowPerContent, Live, Inv, TypeOK
<1>3. ASSUME NEW c \in Clients, Retire(c) PROVE OneRowPerContent'
  BY <1>3 DEF Retire, OneRowPerContent, Live
<1>4. ASSUME NEW c \in Clients, AmendWrite(c) PROVE OneRowPerContent'
  <2>1. CASE Rewrites(c)
    BY <1>4, <2>1
    DEF AmendWrite, Rewrites, HeldElsewhere, OneRowPerContent, Live, Inv, TypeOK
  <2>2. CASE ~ Rewrites(c)
    <3>1. UNCHANGED content
      BY <1>4, <2>2 DEF AmendWrite, Rewrites, Inv, TypeOK
    <3>2. QED
      BY <3>1 DEF OneRowPerContent, Live
  <2>3. QED
    BY <2>1, <2>2
<1>5. ASSUME NEW S, DropRows(S) PROVE OneRowPerContent'
  BY <1>5 DEF DropRows, OneRowPerContent, Live
<1>6. QED
  BY <1>1, <1>2, <1>3, <1>4, <1>5, TextFrame

\* No two fragments ever hold the same text, although remember and amend check
\* for a duplicate in an earlier statement than the one that writes.
THEOREM UniqueText == Spec => []OneRowPerContent
<1>1. Init => OneRowPerContent
  BY DEF Init, OneRowPerContent, Live
<1>2. QED
  BY <1>1, UniqueStep, InvAlways, PTL DEF Spec

-----------------------------------------------------------------------------
(* The history is complete but for stale amends.                           *)

\* One client moves at a time.
LEMMA OthersStay ==
  ASSUME Inv, NEW c \in Clients, Request(c) \/ Step(c) \/ FailStatement(c)
  PROVE  \A d \in Clients \ {c} : pc'[d] = pc[d] /\ job'[d] = job[d]
<1> USE DEF Goto, Return, LinkStep, Inv, TypeOK
<1>1. ASSUME NEW j, SupersedeOrReturn(c, j) \/ AfterStored(c, j)
      PROVE  \A d \in Clients \ {c} : pc'[d] = pc[d] /\ job'[d] = job[d]
  BY <1>1 DEF SupersedeOrReturn, AfterStored
<1>2. CASE Request(c)
  BY <1>2 DEF Request, RememberStart, LinkStart, AmendStart, ForgetStart, Start
<1>3. CASE FailStatement(c)
  BY <1>1, <1>3 DEF FailStatement, LinkFailed
<1>4. CASE RememberSelect(c) \/ Retire(c)
           \/ \E i \in Ids : RememberInsert(c, i) \/ RememberConflict(c, i)
  BY <1>1, <1>4 DEF RememberSelect, RememberInsert, RememberConflict, Retire
<1>5. CASE LinkRead(c) \/ LinkInsert(c) \/ LinkFrom(c) \/ LinkTo(c)
  BY <1>1, <1>5 DEF LinkRead, LinkInsert, LinkFrom, LinkTo, LinkMade, LinkFailed
<1>6. CASE \/ AmendRead(c) \/ AmendArchive(c) \/ AmendDupCheck(c)
           \/ AmendWrite(c) \/ AmendAbort(c)
  BY <1>6 DEF AmendRead, AmendArchive, AmendDupCheck, AmendWrite, AmendAbort
<1>7. CASE ForgetRead(c) \/ DeleteLinks(c) \/ DeleteRefs(c) \/ DeleteRow(c)
  BY <1>7 DEF ForgetRead, DeleteLinks, DeleteRefs, DeleteRow
<1>8. QED
  BY <1>2, <1>3, <1>4, <1>5, <1>6, <1>7 DEF Step

AmendSteps == {"archive", "dupCheck", "write"}

\* A client enters an amend's transaction with the text it has just read, and
\* keeps it until the transaction ends.
LEMMA AmendEntry ==
  ASSUME Inv, [Next]_vars, NEW d \in Clients, pc'[d] \in AmendSteps
  PROVE  \/ pc[d] \in AmendSteps /\ job'[d] = job[d]
         \/ /\ job'[d].id \in Live
            /\ job'[d].snap = content[job'[d].id]
            /\ UNCHANGED textVars
<1> USE DEF AmendSteps
<1>1. CASE UNCHANGED <<pc, job>>
  BY <1>1
<1>2. ASSUME NEW c \in Clients, c # d, Request(c) \/ Step(c) \/ FailStatement(c)
      PROVE  pc'[d] = pc[d] /\ job'[d] = job[d]
  BY <1>2, OthersStay
<1>3. ASSUME NEW j, SupersedeOrReturn(d, j) \/ AfterStored(d, j) PROVE FALSE
  BY <1>3 DEF SupersedeOrReturn, AfterStored, LinkStep, Return, Goto, Inv, TypeOK
<1>4. ~ Return(d)
  BY DEF Return, Goto, Inv, TypeOK
<1>5. ASSUME NEW step \in {"insert", "linkInsert", "linkFrom", "linkTo", "retire",
                           "amendRead", "delLinks", "delRefs", "delRow"},
             Goto(d, step)
      PROVE  FALSE
  BY <1>5 DEF Goto, Inv, TypeOK
<1>6. CASE Request(d)
  BY <1>6 DEF Request, RememberStart, LinkStart, AmendStart, ForgetStart, Start,
              Inv, TypeOK
<1>7. CASE FailStatement(d)
  BY <1>3, <1>4, <1>5, <1>7 DEF FailStatement, LinkFailed
<1>8. CASE RememberSelect(d) \/ Retire(d)
           \/ \E i \in Ids : RememberInsert(d, i) \/ RememberConflict(d, i)
  BY <1>3, <1>4, <1>5, <1>8
  DEF RememberSelect, RememberInsert, RememberConflict, Retire
<1>9. CASE LinkRead(d) \/ LinkInsert(d) \/ LinkFrom(d) \/ LinkTo(d)
  BY <1>3, <1>4, <1>5, <1>9
  DEF LinkRead, LinkInsert, LinkFrom, LinkTo, LinkMade, LinkFailed
<1>10. CASE ForgetRead(d) \/ DeleteLinks(d) \/ DeleteRefs(d) \/ DeleteRow(d)
  BY <1>4, <1>5, <1>10 DEF ForgetRead, DeleteLinks, DeleteRefs, DeleteRow
<1>11. CASE AmendArchive(d) \/ AmendDupCheck(d)
  BY <1>4, <1>11 DEF AmendArchive, AmendDupCheck
<1>12. CASE AmendWrite(d) \/ AmendAbort(d)
  BY <1>4, <1>12 DEF AmendWrite, AmendAbort
<1>13. CASE AmendRead(d)
  <2>1. /\ job[d].id \in Live
        /\ job' = [job EXCEPT ![d].snap = content[job[d].id]]
    BY <1>4, <1>13 DEF AmendRead
  <2>2. job[d] \in Jobs /\ job'[d] = [job[d] EXCEPT !.snap = content[job[d].id]]
    BY <2>1 DEF Inv, TypeOK
  <2>3. job'[d].id = job[d].id /\ job'[d].snap = content[job[d].id]
    BY <2>2 DEF Jobs
  <2>4. UNCHANGED textVars
    BY <1>13 DEF AmendRead, textVars, rowVars, histVars
  <2>5. QED
    BY <2>1, <2>3, <2>4
<1>14. CASE Maintenance
  BY <1>1, <1>14 DEF Maintenance, DeleteExpired, WeekPasses, PromoteTier
<1>15. CASE Step(d)
  BY <1>8, <1>9, <1>10, <1>11, <1>12, <1>13, <1>15 DEF Step
<1>16. QED
  BY <1>1, <1>2, <1>6, <1>7, <1>14, <1>15 DEF Next, vars

\* What makes HistoryComplete inductive: a row holds one of its past texts, an
\* amend carries one, and a fresh id has no history.
HistoryInv ==
  /\ Live \subseteq spent
  /\ \A i \in Ids : i \notin Live => versions[i] = {}
  /\ \A i \in Live : content[i] \in past[i]
  /\ \A c \in Clients : pc[c] \in AmendSteps =>
       /\ job[c].id \in spent
       /\ job[c].id \in Live => job[c].snap \in past[job[c].id]
  /\ HistoryComplete

\* Every step preserves what the archive says, given that an open amend read a
\* text its fragment had.
LEMMA HistoryStep ==
  ASSUME Inv, HistoryInv, [Next]_vars
  PROVE  HistoryInv'
<1> DEFINE Carried(c) == /\ job[c].id \in spent
                         /\ job[c].id \in Live => job[c].snap \in past[job[c].id]
<1>1. ASSUME spent \subseteq spent',
             \A i \in spent \cap Live' : i \in Live /\ past[i] \subseteq past'[i],
             UNCHANGED textVars => UNCHANGED <<Live, past, spent>>,
             NEW d \in Clients, pc'[d] \in AmendSteps
      PROVE  Carried(d)'
  <2>1. CASE pc[d] \in AmendSteps /\ job'[d] = job[d]
    BY <1>1, <2>1 DEF HistoryInv
  <2>2. CASE /\ job'[d].id \in Live
             /\ job'[d].snap = content[job'[d].id]
             /\ UNCHANGED textVars
    BY <1>1, <2>2 DEF HistoryInv, textVars
  <2>3. QED
    BY <1>1, <2>1, <2>2, AmendEntry
<1>2. CASE UNCHANGED textVars
  <2>1. UNCHANGED <<Live, past, spent, content, versions, stale>>
    BY <1>2 DEF textVars, Live
  <2>2. QED
    BY <1>1, <2>1 DEF HistoryInv, HistoryComplete
<1>3. ASSUME NEW c \in Clients, NEW i \in Ids, RememberInsert(c, i)
      PROVE  HistoryInv'
  <2> DEFINE text == job[c].text
  <2>1. text \in Contents /\ i \notin spent /\ i \notin Live
    BY <1>3 DEF RememberInsert, Inv, JobOf, HistoryInv
  <2>2. /\ content' = [content EXCEPT ![i] = text]
        /\ past' = [past EXCEPT ![i] = {text}]
        /\ spent' = spent \union {i}
        /\ UNCHANGED <<versions, stale>>
    BY <1>3 DEF RememberInsert
  <2>3. Live' = Live \union {i}
    BY <2>1, <2>2, ConstantsAssumption DEF Live, Inv, TypeOK
  <2>4. \A j \in spent \cap Live' : j \in Live /\ past[j] \subseteq past'[j]
    BY <2>1, <2>2, <2>3 DEF Inv, TypeOK
  <2>5. \A j \in Live' : content'[j] \in past'[j]
    BY <2>1, <2>2, <2>3 DEF HistoryInv, Inv, TypeOK
  <2>6. HistoryComplete'
    BY <2>1, <2>2, <2>3 DEF HistoryInv, HistoryComplete, Inv, TypeOK
  <2>7. ~ UNCHANGED textVars
    BY <2>1, <2>2 DEF textVars
  <2>8. QED
    BY <1>1, <2>2, <2>3, <2>4, <2>5, <2>6, <2>7 DEF HistoryInv
<1>4. ASSUME NEW c \in Clients, Retire(c) PROVE HistoryInv'
  <2>1. UNCHANGED <<Live, past, spent, content, versions, stale>>
    BY <1>4 DEF Retire, Live
  <2>2. QED
    BY <1>1, <2>1 DEF HistoryInv, HistoryComplete
<1>5. ASSUME NEW c \in Clients, AmendWrite(c) PROVE HistoryInv'
  <2> DEFINE i == job[c].id
             text == job[c].text
             snap == job[c].snap
  <2>1. i \in Live /\ i \in Ids /\ text \in Contents \union {None}
        /\ snap \in past[i]
    BY <1>5
    DEF AmendWrite, AmendSteps, Inv, JobOf, HistoryInv, Live, TypeOK, Jobs
  <2>2. /\ content' = IF text = None THEN content ELSE [content EXCEPT ![i] = text]
        /\ versions' = [versions EXCEPT ![i] = @ \union {snap}]
        /\ past' = [past EXCEPT ![i] = @ \union ({text} \ {None})]
        /\ UNCHANGED spent
        /\ stale' = IF Rewrites(c) /\ snap # content[i]
                    THEN stale \union {i} ELSE stale
    BY <1>5 DEF AmendWrite, ArchivedText
  <2>3. Live' = Live
    BY <2>1, <2>2, ConstantsAssumption DEF Live, Inv, TypeOK
  <2>4. \A j \in spent \cap Live' : j \in Live /\ past[j] \subseteq past'[j]
    BY <2>2, <2>3 DEF Inv, TypeOK, Live
  <2>5. \A j \in Live' : content'[j] \in past'[j]
    BY <2>1, <2>2, <2>3 DEF HistoryInv, Inv, TypeOK, Live
  <2>6. ASSUME NEW j \in Live'
        PROVE  /\ versions'[j] \subseteq past'[j]
               /\ j \notin stale' => past'[j] \subseteq versions'[j] \union {content'[j]}
    <3>1. CASE j # i
      BY <2>2, <2>3, <2>6, <3>1 DEF HistoryInv, HistoryComplete, Inv, TypeOK, Live
    <3>2. CASE j = i /\ Rewrites(c)
      BY <2>1, <2>2, <2>3, <3>2
      DEF Rewrites, HistoryInv, HistoryComplete, Inv, TypeOK, Live
    <3>3. CASE j = i /\ ~ Rewrites(c)
      BY <2>1, <2>2, <2>3, <3>3
      DEF Rewrites, HistoryInv, HistoryComplete, Inv, TypeOK, Live
    <3>4. QED
      BY <3>1, <3>2, <3>3
  <2>7. \A j \in Ids : j \notin Live' => versions'[j] = {}
    BY <2>1, <2>2, <2>3 DEF HistoryInv, Inv, TypeOK
  <2>8. \A d \in Clients : pc'[d] \in AmendSteps => Carried(d)'
    <3>1. ASSUME NEW d \in Clients, pc[d] \in AmendSteps, job'[d] = job[d]
          PROVE  Carried(d)'
      BY <2>2, <2>3, <2>4, <3>1 DEF HistoryInv
    <3>2. ASSUME NEW d \in Clients, job'[d].id \in Live,
                 job'[d].snap = content[job'[d].id], UNCHANGED textVars
          PROVE  Carried(d)'
      BY <2>2, <2>3, <3>2 DEF HistoryInv, textVars
    <3>3. QED
      BY <3>1, <3>2, AmendEntry
  <2>9. QED
    BY <2>2, <2>3, <2>5, <2>6, <2>7, <2>8 DEF HistoryInv, HistoryComplete
<1>6. ASSUME NEW S, DropRows(S), UNCHANGED spent
      PROVE  HistoryInv'
  <2>1. /\ Live' = Live \ S
        /\ \A i \in Live' : /\ content'[i] = content[i] /\ past'[i] = past[i]
                            /\ versions'[i] = versions[i]
        /\ stale' = stale \ S
    BY <1>6 DEF DropRows, Live
  <2>2. \A j \in Ids : j \notin Live' => versions'[j] = {}
    BY <1>6, <2>1 DEF DropRows, HistoryInv
  <2>3. \A j \in spent \cap Live' : j \in Live /\ past[j] \subseteq past'[j]
    BY <2>1
  <2>4. \A d \in Clients : pc'[d] \in AmendSteps => Carried(d)'
    <3>1. ASSUME NEW d \in Clients, pc[d] \in AmendSteps, job'[d] = job[d]
          PROVE  Carried(d)'
      BY <1>6, <2>1, <3>1 DEF HistoryInv
    <3>2. ASSUME NEW d \in Clients, job'[d].id \in Live,
                 job'[d].snap = content[job'[d].id], UNCHANGED textVars
          PROVE  Carried(d)'
      BY <1>6, <2>1, <3>2 DEF HistoryInv, textVars
    <3>3. QED
      BY <3>1, <3>2, AmendEntry
  <2>5. QED
    BY <1>6, <2>1, <2>2, <2>4 DEF HistoryInv, HistoryComplete
<1>7. QED
  BY <1>2, <1>3, <1>4, <1>5, <1>6, TextFrame

\* Every text a fragment has had is its current text or an archived version, as
\* long as no amend rewrote the fragment over a text newer than the one it read;
\* and nothing is archived that the fragment did not say.
THEOREM HistoryKept == Spec => []HistoryComplete
<1>1. Init => HistoryInv
  BY DEF Init, HistoryInv, HistoryComplete, Live, AmendSteps
<1>2. HistoryInv => HistoryComplete
  BY DEF HistoryInv
<1>3. QED
  BY <1>1, <1>2, HistoryStep, InvAlways, PTL DEF Spec

-----------------------------------------------------------------------------
(* The links.                                                              *)

LinkSteps == {"linkInsert", "linkFrom", "linkTo"}

\* Client c is to supersede job.old with job.id: it makes the link, then retires.
Succeeds(c) ==
  \/ pc[c] = "retire"
  \/ pc[c] \in LinkSteps /\ job[c].op = "remember" /\ job[c].rel = "superseded_by"

\* A closure holds generated ids, and that of a supersession the ends of its link;
\* only link reads both ends first.
ClosureOf(c) ==
  /\ {job[c].id, job[c].from, job[c].to, job[c].old} \subseteq spent \union {None}
  /\ Succeeds(c) => /\ job[c].from = job[c].old /\ job[c].to = job[c].id
                    /\ job[c].old \in Ids /\ job[c].id \in Ids
  /\ pc[c] = "linkRead" => job[c].op = "link"

\* There is a link from i to j, or a forget of one of them has deleted it.
Linked(i, j) ==
  \/ edge[<<i, j>>] # None
  \/ Forgetting(i, {"delRefs", "delRow"})
  \/ Forgetting(j, {"delRefs", "delRow"})

\* What makes LinksMirrored and SuccessorLinked inductive: an id is used once, and
\* from the INSERT of its link to the UPDATE of valid_to a supersession is linked.
LinksInv ==
  /\ Live \subseteq spent
  /\ \A i \in Ids : successor[i] \in spent \union {None}
  /\ \A c \in Clients : ClosureOf(c)
  /\ LinksMirrored
  /\ failures = 0 =>
       \A c \in Clients :
         (Succeeds(c) /\ pc[c] # "linkInsert" /\ {job[c].old, job[c].id} \subseteq Live)
           => Linked(job[c].old, job[c].id)
  /\ SuccessorLinked

\* Client c alone moved.
Alone(c) == \A d \in Clients \ {c} : pc'[d] = pc[d] /\ job'[d] = job[d]

\* Client c moved to a place where no link depends on it.
Quiet(c) ==
  /\ ClosureOf(c)'
  /\ pc'[c] \notin {"linkFrom", "linkTo", "retire", "delRefs", "delRow"}

\* The fields of the closure that knows its id.
LEMMA WithIdFields ==
  ASSUME NEW j \in Jobs, NEW i \in Ids, NEW k, k = [j EXCEPT !.id = i]
  PROVE  /\ k \in Jobs /\ k.id = i /\ k.old = j.old /\ k.op = j.op
         /\ k.from = j.from /\ k.to = j.to /\ k.rel = j.rel
  BY DEF Jobs

\* Returning to the caller.
LEMMA ReturnQuiet ==
  ASSUME NEW c \in Clients, TypeOK, Return(c)
  PROVE  Quiet(c)
<1>1. pc'[c] = "idle" /\ job'[c] = NoJob
  BY DEF Return, Goto, TypeOK
<1>2. {NoJob.id, NoJob.from, NoJob.to, NoJob.old} = {None}
  BY DEF NoJob
<1>3. QED
  BY <1>1, <1>2 DEF Quiet, ClosureOf, Succeeds, LinkSteps

\* Entering createLink, for a remember that knows its id.
LEMMA LinkStepQuiet ==
  ASSUME NEW c \in Clients, TypeOK, NEW j \in Jobs, NEW from \in Ids,
         NEW to \in Ids, NEW rel \in Rels, LinkStep(c, j, from, to, rel),
         {j.id, j.old, from, to} \subseteq spent' \union {None},
         (j.op = "remember" /\ rel = "superseded_by") => from = j.old /\ to = j.id
  PROVE  Quiet(c)
<1> DEFINE k == [j EXCEPT !.from = from, !.to = to, !.rel = rel]
<1>1. pc'[c] = "linkInsert" /\ job'[c] = k
  BY DEF LinkStep, Goto, TypeOK
<1>2. /\ k.id = j.id /\ k.old = j.old /\ k.op = j.op
      /\ k.from = from /\ k.to = to /\ k.rel = rel
  BY DEF Jobs
<1> HIDE DEF k
<1>3. Succeeds(c)' => j.op = "remember" /\ rel = "superseded_by"
  BY <1>1, <1>2 DEF Succeeds, LinkSteps
<1>4. {k.id, k.from, k.to, k.old} \subseteq spent' \union {None}
  BY <1>2
<1>5. Succeeds(c)' => k.from = k.old /\ k.to = k.id /\ k.old \in Ids /\ k.id \in Ids
  BY <1>2, <1>3
<1>6. ClosureOf(c)'
  BY <1>1, <1>4, <1>5 DEF ClosureOf
<1>7. QED
  BY <1>1, <1>6 DEF Quiet

\* remember's continuation after its links.
LEMMA SupersedeQuiet ==
  ASSUME NEW c \in Clients, TypeOK, NEW j \in Jobs, j.id \in Ids,
         SupersedeOrReturn(c, j), {j.id, j.old} \subseteq spent' \union {None}
  PROVE  Quiet(c)
<1>1. CASE j.old \notin {None, j.id}
  <2>1. j.old \in Ids
    BY <1>1 DEF Jobs
  <2>2. LinkStep(c, j, j.old, j.id, "superseded_by") /\ "superseded_by" \in Rels
    BY <1>1 DEF SupersedeOrReturn, Rels
  <2>3. QED
    BY <2>1, <2>2, LinkStepQuiet
<1>2. CASE j.old \in {None, j.id}
  BY <1>2, ReturnQuiet DEF SupersedeOrReturn
<1>3. QED
  BY <1>1, <1>2

\* remember's continuation once it has an id.
LEMMA AfterStoredQuiet ==
  ASSUME NEW c \in Clients, TypeOK, NEW j \in Jobs, j.id \in Ids,
         AfterStored(c, j), {j.id, j.old, j.to} \subseteq spent' \union {None}
  PROVE  Quiet(c)
<1>1. CASE j.to # None
  <2>1. j.to \in Ids
    BY <1>1 DEF Jobs
  <2>2. LinkStep(c, j, j.id, j.to, "related") /\ "related" \in Rels
    BY <1>1 DEF AfterStored, Rels
  <2>3. "related" # "superseded_by"
    OBVIOUS
  <2>4. QED
    BY <2>1, <2>2, <2>3, LinkStepQuiet
<1>2. CASE j.to = None
  BY <1>2, SupersedeQuiet DEF AfterStored
<1>3. QED
  BY <1>1, <1>2

\* A forget or a createLink under way is under way after another client's step.
LEMMA ForgettingStays ==
  ASSUME NEW c \in Clients, Alone(c), NEW i, NEW S, Forgetting(i, S),
         pc[c] \in S => pc'[c] \in S /\ job'[c].id = job[c].id
  PROVE  Forgetting(i, S)'
<1>1. PICK d \in Clients : pc[d] \in S /\ job[d].id = i
  BY DEF Forgetting
<1>2. QED
  BY <1>1 DEF Forgetting, Alone

LEMMA LinkingStays ==
  ASSUME NEW c \in Clients, Alone(c), NEW p, NEW S, \E d \in Clients : Linking(d, p, S),
         pc[c] \in S => pc'[c] \in S /\ job'[c] = job[c]
  PROVE  \E d \in Clients : Linking(d, p, S)'
<1>1. PICK d \in Clients : Linking(d, p, S)
  OBVIOUS
<1>2. Linking(d, p, S)'
  BY <1>1 DEF Linking, Alone
<1>3. QED
  BY <1>2

LEMMA LinkedStays ==
  ASSUME NEW c \in Clients, Alone(c), NEW i, NEW j, Linked(i, j),
         edge'[<<i, j>>] = edge[<<i, j>>] \/ edge'[<<i, j>>] # None,
         pc[c] \in {"delRefs", "delRow"} =>
           pc'[c] \in {"delRefs", "delRow"} /\ job'[c].id = job[c].id
  PROVE  Linked(i, j)'
  BY ForgettingStays DEF Linked

-----------------------------------------------------------------------------
(* A step of client c that adds a row at most, and leaves the links.       *)

LEMMA OthersClosed ==
  ASSUME NEW c \in Clients, Alone(c), LinksInv, spent \subseteq spent', ClosureOf(c)'
  PROVE  \A d \in Clients : ClosureOf(d)'
<1>1. ASSUME NEW d \in Clients \ {c}  PROVE ClosureOf(d)'
  <2>1. ClosureOf(d) /\ pc'[d] = pc[d] /\ job'[d] = job[d]
    BY DEF LinksInv, Alone
  <2>2. Succeeds(d)' <=> Succeeds(d)
    BY <2>1 DEF Succeeds
  <2>3. QED
    BY <2>1, <2>2 DEF ClosureOf
<1>2. QED
  BY <1>1

\* What an INSERT may do to ids: it makes one live that was never generated.
Grows ==
  /\ spent \subseteq spent' /\ Live \subseteq Live' /\ Live' \subseteq spent'
  /\ \A i \in Live' : i \in spent => i \in Live

LEMMA LinkedKept ==
  ASSUME Inv, LinksInv, NEW c \in Clients, Alone(c), Grows,
         UNCHANGED <<retired, successor, failures>>,
         \A i, j \in Ids : Linked(i, j) => Linked(i, j)'
  PROVE  /\ SuccessorLinked'
         /\ failures' = 0 =>
              \A d \in Clients \ {c} :
                (Succeeds(d)' /\ pc'[d] # "linkInsert"
                 /\ {job'[d].old, job'[d].id} \subseteq Live')
                  => Linked(job[d].old, job[d].id)'
<1>1. ASSUME NEW i \in Ids, NEW j \in Ids, Linked(i, j)  PROVE Linked(i, j)'
  BY <1>1
<1>2. SuccessorLinked'
  <2> SUFFICES ASSUME failures = 0, NEW i \in retired, successor[i] \in Live'
               PROVE  Linked(i, successor[i])'
    BY DEF SuccessorLinked, Linked, Forgetting
  <2>1. i \in Ids /\ successor[i] \in Ids /\ successor[i] \in spent
    BY ConstantsAssumption DEF LinksInv, Inv, TypeOK, Live
  <2>2. successor[i] \in Live
    BY <2>1 DEF Grows
  <2>3. Linked(i, successor[i])
    BY <2>2 DEF LinksInv, SuccessorLinked, Linked
  <2>4. QED
    BY <1>1, <2>1, <2>3
<1>3. ASSUME failures = 0, NEW d \in Clients \ {c}, Succeeds(d)', pc'[d] # "linkInsert",
             {job'[d].old, job'[d].id} \subseteq Live'
      PROVE  Linked(job[d].old, job[d].id)'
  <2>1. ClosureOf(d) /\ pc'[d] = pc[d] /\ job'[d] = job[d]
    BY DEF LinksInv, Alone
  <2>2. Succeeds(d) /\ pc[d] # "linkInsert"
    BY <1>3, <2>1 DEF Succeeds
  <2>3. job[d].old \in Ids /\ job[d].id \in Ids
        /\ {job[d].old, job[d].id} \subseteq spent
    BY <2>1, <2>2, ConstantsAssumption DEF ClosureOf
  <2>4. {job[d].old, job[d].id} \subseteq Live
    BY <1>3, <2>1, <2>3 DEF Grows
  <2>5. Linked(job[d].old, job[d].id)
    BY <1>3, <2>2, <2>4 DEF LinksInv
  <2>6. PICK i \in Ids, j \in Ids : i = job[d].old /\ j = job[d].id
    BY <2>3
  <2>7. Linked(i, j)'
    BY <1>1, <2>5, <2>6
  <2>8. i = job'[d].old /\ j = job'[d].id
    BY <2>1, <2>6
  <2>9. QED
    BY <2>7, <2>8 DEF Linked, Forgetting
<1>4. QED
  BY <1>2, <1>3

LEMMA MirrorKept ==
  ASSUME Inv, LinksInv, NEW c \in Clients, Alone(c), Grows,
         UNCHANGED failures,
         \A i \in Live : linkedTo[i] \subseteq linkedTo'[i],
         NEW p \in Ids \X Ids, edge[p] # None,
         pc[c] \in {"linkFrom", "linkTo", "delRow"} =>
           /\ pc[c] \in {"linkFrom", "linkTo"}
           /\ <<job[c].from, job[c].to>> # p
  PROVE  /\ {p[1], p[2]} \subseteq Live'
         /\ failures' = 0 =>
              /\ \/ p[2] \in linkedTo'[p[1]]
                 \/ \E d \in Clients : Linking(d, p, {"linkFrom"})'
                 \/ Forgetting(p[2], {"delRow"})'
              /\ \/ p[1] \in linkedTo'[p[2]]
                 \/ \E d \in Clients : Linking(d, p, {"linkFrom", "linkTo"})'
                 \/ Forgetting(p[1], {"delRow"})'
<1>1. /\ p[1] \in Live /\ p[2] \in Live
      /\ failures = 0 =>
           /\ \/ p[2] \in linkedTo[p[1]]
              \/ \E d \in Clients : Linking(d, p, {"linkFrom"})
              \/ Forgetting(p[2], {"delRow"})
           /\ \/ p[1] \in linkedTo[p[2]]
              \/ \E d \in Clients : Linking(d, p, {"linkFrom", "linkTo"})
              \/ Forgetting(p[1], {"delRow"})
  BY DEF LinksInv, LinksMirrored
<1>2. ASSUME NEW i, Forgetting(i, {"delRow"})  PROVE Forgetting(i, {"delRow"})'
  BY <1>2, ForgettingStays
<1>3. ASSUME NEW S \in SUBSET {"linkFrom", "linkTo"}, \E d \in Clients : Linking(d, p, S)
      PROVE  \E d \in Clients : Linking(d, p, S)'
  <2>1. PICK d \in Clients : Linking(d, p, S)
    BY <1>3
  <2>2. d # c
    BY <2>1 DEF Linking
  <2>3. Linking(d, p, S)'
    BY <2>1, <2>2 DEF Linking, Alone
  <2>4. QED
    BY <2>3
<1>4. {p[1], p[2]} \subseteq Live'
  BY <1>1 DEF Grows
<1>5. p[2] \in linkedTo[p[1]] => p[2] \in linkedTo'[p[1]]
  BY <1>1
<1>6. p[1] \in linkedTo[p[2]] => p[1] \in linkedTo'[p[2]]
  BY <1>1
<1>7. /\ {"linkFrom"} \in SUBSET {"linkFrom", "linkTo"}
      /\ {"linkFrom", "linkTo"} \in SUBSET {"linkFrom", "linkTo"}
  OBVIOUS
<1>8. QED
  BY <1>1, <1>2, <1>3, <1>4, <1>5, <1>6, <1>7

\* Such a step, of a client no link depends on.
LEMMA QuietStep ==
  ASSUME Inv, LinksInv, NEW c \in Clients, Alone(c), Quiet(c), Grows,
         UNCHANGED <<edge, retired, successor, failures>>,
         \A i \in Live : linkedTo[i] \subseteq linkedTo'[i],
         pc[c] \notin {"linkFrom", "linkTo", "delRefs", "delRow"}
  PROVE  LinksInv'
<1>1. Live' \subseteq spent' /\ \A i \in Ids : successor'[i] \in spent' \union {None}
  BY DEF LinksInv, Grows
<1>2. \A d \in Clients : ClosureOf(d)'
  BY OthersClosed DEF Quiet, Grows
<1>3. LinksMirrored'
  <2>1. ASSUME NEW p \in Ids \X Ids, edge[p] # None
        PROVE  /\ {p[1], p[2]} \subseteq Live'
               /\ failures' = 0 =>
                    /\ \/ p[2] \in linkedTo'[p[1]]
                       \/ \E d \in Clients : Linking(d, p, {"linkFrom"})'
                       \/ Forgetting(p[2], {"delRow"})'
                    /\ \/ p[1] \in linkedTo'[p[2]]
                       \/ \E d \in Clients : Linking(d, p, {"linkFrom", "linkTo"})'
                       \/ Forgetting(p[1], {"delRow"})'
    BY <2>1, MirrorKept
  <2>2. QED
    BY <2>1 DEF LinksMirrored
<1>4. /\ SuccessorLinked'
      /\ failures' = 0 =>
           \A d \in Clients \ {c} :
             (Succeeds(d)' /\ pc'[d] # "linkInsert"
              /\ {job'[d].old, job'[d].id} \subseteq Live')
               => Linked(job[d].old, job[d].id)'
  <2>1. \A i, j \in Ids : Linked(i, j) => Linked(i, j)'
    BY LinkedStays
  <2>2. QED
    BY <2>1, LinkedKept
<1>5. Succeeds(c)' => pc'[c] = "linkInsert"
  BY DEF Quiet, Succeeds, LinkSteps
<1>6. QED
  BY <1>1, <1>2, <1>3, <1>4, <1>5 DEF LinksInv

-----------------------------------------------------------------------------
(* The statements.                                                         *)

LEMMA SameRowsGrow ==
  ASSUME LinksInv, Live' = Live, spent' = spent
  PROVE  Grows
  BY DEF LinksInv, Grows

LEMMA RequestLinks ==
  ASSUME Inv, LinksInv, NEW c \in Clients, Request(c)
  PROVE  LinksInv'
<1>1. ASSUME NEW step \in {"select", "linkRead", "amendRead", "forgetRead"},
             NEW args \in Jobs, Start(c, step, args),
             UNCHANGED <<rowVars, linkVars, versions, spent, histVars, failures>>,
             {args.id, args.from, args.to, args.old} \subseteq spent \union {None},
             step = "linkRead" => args.op = "link"
      PROVE  LinksInv'
  <2>1. pc'[c] = step /\ job'[c] = args /\ pc[c] = "idle" /\ Alone(c)
    BY <1>1 DEF Start, Inv, TypeOK, Alone
  <2>2. Quiet(c)
    BY <1>1, <2>1 DEF Quiet, ClosureOf, Succeeds, LinkSteps
  <2>3. UNCHANGED <<edge, retired, successor, failures, linkedTo, spent, content>>
    BY <1>1 DEF rowVars, linkVars, histVars
  <2>4. Grows
    BY <2>3, SameRowsGrow DEF Live
  <2>5. QED
    BY <2>1, <2>2, <2>3, <2>4, QuietStep
<1>2. ASSUME NEW text \in Contents, NEW to \in spent \union {None},
             NEW old \in spent \union {None}, NEW flag \in Flags,
             RememberStart(c, text, to, old, flag)
      PROVE  LinksInv'
  <2> DEFINE j == [NoJob EXCEPT !.op = "remember", !.text = text, !.to = to, !.old = old,
                                !.flag = flag]
  <2>1. j \in Jobs /\ {j.id, j.from, j.to, j.old} \subseteq spent \union {None}
    BY NoJobType, ConstantsAssumption DEF Jobs, Inv, TypeOK, NoJob
  <2>2. Start(c, "select", j)
    BY <1>2 DEF RememberStart
  <2> HIDE DEF j
  <2>3. QED
    BY <1>1, <1>2, <2>1, <2>2 DEF RememberStart
<1>3. ASSUME NEW i \in spent, NEW k \in spent, NEW rel \in LinkRels, LinkStart(c, i, k, rel)
      PROVE  LinksInv'
  <2> DEFINE j == [NoJob EXCEPT !.op = "link", !.from = i, !.to = k, !.rel = rel]
  <2>1. j \in Jobs /\ {j.id, j.from, j.to, j.old} \subseteq spent \union {None}
        /\ j.op = "link"
    BY NoJobType DEF Jobs, Inv, TypeOK, NoJob, Rels
  <2>2. Start(c, "linkRead", j)
    BY <1>3 DEF LinkStart
  <2> HIDE DEF j
  <2>3. QED
    BY <1>1, <1>3, <2>1, <2>2 DEF LinkStart
<1>4. ASSUME NEW i \in spent, NEW text \in Contents \union {None}, NEW flag \in Flags,
             AmendStart(c, i, text, flag)
      PROVE  LinksInv'
  <2> DEFINE j == [NoJob EXCEPT !.op = "amend", !.id = i, !.text = text, !.flag = flag]
  <2>1. j \in Jobs /\ {j.id, j.from, j.to, j.old} \subseteq spent \union {None}
    BY NoJobType, ConstantsAssumption DEF Jobs, Inv, TypeOK, NoJob
  <2>2. Start(c, "amendRead", j)
    BY <1>4 DEF AmendStart
  <2> HIDE DEF j
  <2>3. QED
    BY <1>1, <1>4, <2>1, <2>2 DEF AmendStart
<1>5. ASSUME NEW i \in spent, NEW force \in Flags, ForgetStart(c, i, force)
      PROVE  LinksInv'
  <2> DEFINE j == [NoJob EXCEPT !.op = "forget", !.id = i, !.flag = force]
  <2>1. j \in Jobs /\ {j.id, j.from, j.to, j.old} \subseteq spent \union {None}
    BY NoJobType, ConstantsAssumption DEF Jobs, Inv, TypeOK, NoJob
  <2>2. Start(c, "forgetRead", j)
    BY <1>5 DEF ForgetStart
  <2> HIDE DEF j
  <2>3. QED
    BY <1>1, <1>5, <2>1, <2>2 DEF ForgetStart
<1>6. QED
  BY <1>2, <1>3, <1>4, <1>5 DEF Request

\* The statements that leave the links alone and a client that no link depends on.
LEMMA QuietStatements ==
  ASSUME Inv, LinksInv, NEW c \in Clients, Alone(c), Quiet(c),
         UNCHANGED <<content, edge, linkedTo, retired, successor, spent, failures>>,
         pc[c] \notin {"linkFrom", "linkTo", "delRefs", "delRow"}
  PROVE  LinksInv'
<1>1. Grows
  BY SameRowsGrow DEF Live
<1>2. QED
  BY <1>1, QuietStep

LEMMA RememberLinks ==
  ASSUME Inv, LinksInv, NEW c \in Clients,
         \/ RememberSelect(c)
         \/ \E i \in Ids : RememberInsert(c, i) \/ RememberConflict(c, i)
  PROVE  LinksInv'
<1>0. Alone(c)
  BY OthersStay DEF Alone, Step
<1>j. job[c] \in Jobs /\ {job[c].old, job[c].to} \subseteq spent \union {None}
  BY DEF Inv, TypeOK, LinksInv, ClosureOf
<1>1. ASSUME NEW i \in Ids, i \in spent', spent \subseteq spent',
             AfterStored(c, [job[c] EXCEPT !.id = i])
      PROVE  Quiet(c)
  <2> DEFINE k == [job[c] EXCEPT !.id = i]
  <2>1. k \in Jobs /\ k.id = i /\ k.old = job[c].old /\ k.to = job[c].to
    BY <1>j, WithIdFields
  <2>2. AfterStored(c, k)
    BY <1>1
  <2> HIDE DEF k
  <2>3. QED
    BY <1>1, <1>j, <2>1, <2>2, AfterStoredQuiet DEF Inv
<1>2. CASE RememberSelect(c)
  <2>1. UNCHANGED <<content, edge, linkedTo, retired, successor, spent, failures>>
        /\ pc[c] = "select"
    BY <1>2 DEF RememberSelect, rowVars, linkVars
  <2>2. CASE Goto(c, "insert") /\ UNCHANGED job
    <3>1. pc'[c] = "insert" /\ job'[c] = job[c] /\ ClosureOf(c)
      BY <2>2 DEF Goto, Inv, TypeOK, LinksInv
    <3>2. Quiet(c)
      BY <2>1, <3>1 DEF Quiet, ClosureOf, Succeeds, LinkSteps
    <3>3. QED
      BY <1>0, <2>1, <3>2, QuietStatements
  <2>3. ASSUME NEW i \in Live, AfterStored(c, [job[c] EXCEPT !.id = i])  PROVE LinksInv'
    <3>1. i \in Ids /\ i \in spent'
      BY <2>1 DEF Live, LinksInv
    <3>2. Quiet(c)
      BY <1>1, <2>1, <2>3, <3>1
    <3>3. QED
      BY <1>0, <2>1, <3>2, QuietStatements
  <2>4. QED
    BY <1>2, <2>2, <2>3 DEF RememberSelect
<1>3. ASSUME NEW i \in Ids, RememberConflict(c, i)  PROVE LinksInv'
  <2>1. UNCHANGED <<content, edge, linkedTo, retired, successor, spent, failures>>
        /\ pc[c] = "insert" /\ i \in spent'
    BY <1>3 DEF RememberConflict, linkVars, LinksInv
  <2>2. Quiet(c)
    BY <1>1, <1>3, <2>1 DEF RememberConflict
  <2>3. QED
    BY <1>0, <2>1, <2>2, QuietStatements
<1>4. ASSUME NEW i \in Ids, RememberInsert(c, i)  PROVE LinksInv'
  <2>1. /\ UNCHANGED <<edge, retired, successor, failures>>
        /\ pc[c] = "insert" /\ i \notin spent /\ spent' = spent \union {i}
        /\ linkedTo' = [linkedTo EXCEPT ![i] = {job[c].to} \ {None}]
        /\ content' = [content EXCEPT ![i] = job[c].text]
    BY <1>4 DEF RememberInsert
  <2>2. job[c].text \in Contents
    BY <2>1 DEF Inv, JobOf
  <2>3. Live' = Live \union {i}
    BY <2>1, <2>2, ConstantsAssumption DEF Live, Inv, TypeOK
  <2>4. Grows
    BY <2>1, <2>3 DEF Grows, LinksInv
  <2>5. ASSUME NEW k \in Live  PROVE linkedTo[k] \subseteq linkedTo'[k]
    <3>1. k # i /\ k \in Ids
      BY <2>1 DEF LinksInv, Live
    <3>2. QED
      BY <2>1, <3>1 DEF Inv, TypeOK
  <2>6. Quiet(c)
    BY <1>1, <1>4, <2>1 DEF RememberInsert
  <2>7. QED
    BY <1>0, <2>1, <2>4, <2>5, <2>6, QuietStep
<1>5. QED
  BY <1>2, <1>3, <1>4

\* Going on with the same closure to a step no link depends on.
LEMMA GoesOn ==
  ASSUME Inv, LinksInv, NEW c \in Clients, spent' = spent,
         NEW step \in {"write", "dupCheck", "delLinks"}, Goto(c, step), UNCHANGED job
  PROVE  Quiet(c)
<1>1. pc'[c] = step /\ job'[c] = job[c] /\ ClosureOf(c)
  BY DEF Goto, Inv, TypeOK, LinksInv
<1>2. QED
  BY <1>1 DEF Quiet, ClosureOf, Succeeds, LinkSteps

LEMMA AmendLinks ==
  ASSUME Inv, LinksInv, NEW c \in Clients,
         \/ AmendRead(c) \/ AmendArchive(c) \/ AmendDupCheck(c)
         \/ AmendWrite(c) \/ AmendAbort(c) \/ ForgetRead(c)
  PROVE  LinksInv'
<1>0. Alone(c)
  BY OthersStay DEF Alone, Step
<1>r. Return(c) => Quiet(c)
  BY ReturnQuiet DEF Inv
<1>1. CASE AmendWrite(c)
  <2>1. Quiet(c)
    BY <1>r, <1>1 DEF AmendWrite
  <2>2. UNCHANGED <<edge, linkedTo, retired, successor, spent, failures>> /\ pc[c] = "write"
    BY <1>1 DEF AmendWrite, linkVars
  <2>3. Live' = Live
    <3>1. job[c].id \in Live /\ job[c].id \in Ids /\ job[c].text \in Contents \union {None}
      BY <2>2 DEF Inv, JobOf, Live, TypeOK, Jobs
    <3>2. content' = IF job[c].text = None THEN content
                     ELSE [content EXCEPT ![job[c].id] = job[c].text]
      BY <1>1 DEF AmendWrite
    <3>3. QED
      BY <3>1, <3>2 DEF Live, Inv, TypeOK
  <2>4. Grows
    BY <2>2, <2>3, SameRowsGrow
  <2>5. QED
    BY <1>0, <2>1, <2>2, <2>4, QuietStep
<1>2. CASE AmendRead(c) \/ AmendArchive(c) \/ AmendDupCheck(c) \/ AmendAbort(c) \/ ForgetRead(c)
  <2>1. /\ UNCHANGED <<content, edge, linkedTo, retired, successor, spent, failures>>
        /\ pc[c] \in {"amendRead", "archive", "dupCheck", "write", "forgetRead"}
    BY <1>2 DEF AmendRead, AmendArchive, AmendDupCheck, AmendAbort, ForgetRead,
                rowVars, linkVars, histVars
  <2>2. CASE Return(c)
    BY <1>0, <1>r, <2>1, <2>2, QuietStatements
  <2>3. ASSUME NEW step \in {"write", "dupCheck", "delLinks"}, Goto(c, step), UNCHANGED job
        PROVE  LinksInv'
    BY <1>0, <2>1, <2>3, GoesOn, QuietStatements
  <2>4. CASE /\ job' = [job EXCEPT ![c].snap = content[job[c].id]]
             /\ Goto(c, "archive")
    <3>1. pc'[c] = "archive" /\ job[c] \in Jobs /\ ClosureOf(c)
          /\ job'[c] = [job[c] EXCEPT !.snap = content[job[c].id]]
      BY <2>4 DEF Goto, Inv, TypeOK, LinksInv
    <3>2. /\ job'[c].id = job[c].id /\ job'[c].old = job[c].old
          /\ job'[c].from = job[c].from /\ job'[c].to = job[c].to
      BY <3>1 DEF Jobs
    <3>3. Quiet(c)
      BY <2>1, <3>1, <3>2 DEF Quiet, ClosureOf, Succeeds, LinkSteps
    <3>4. QED
      BY <1>0, <2>1, <3>3, QuietStatements
  <2>5. QED
    BY <1>2, <2>2, <2>3, <2>4
    DEF AmendRead, AmendArchive, AmendDupCheck, AmendAbort, ForgetRead
<1>3. QED
  BY <1>1, <1>2

LEMMA LinkReadLinks ==
  ASSUME Inv, LinksInv, NEW c \in Clients, LinkRead(c)
  PROVE  LinksInv'
<1>0. Alone(c)
  BY OthersStay DEF Alone, Step
<1>1. /\ UNCHANGED <<content, edge, linkedTo, retired, successor, spent, failures>>
      /\ pc[c] = "linkRead" /\ ClosureOf(c) /\ job[c].op = "link"
  BY DEF LinkRead, rowVars, linkVars, histVars, LinksInv, ClosureOf
<1>2. Quiet(c)
  <2>1. CASE Goto(c, "linkInsert") /\ UNCHANGED job
    <3>1. pc'[c] = "linkInsert" /\ job'[c] = job[c]
      BY <2>1 DEF Goto, Inv, TypeOK
    <3>2. QED
      BY <1>1, <3>1 DEF Quiet, ClosureOf, Succeeds, LinkSteps
  <2>2. QED
    BY <2>1, ReturnQuiet DEF LinkRead, Inv
<1>3. QED
  BY <1>0, <1>1, <1>2, QuietStatements

LEMMA RetireLinks ==
  ASSUME Inv, LinksInv, NEW c \in Clients, Retire(c)
  PROVE  LinksInv'
<1>0. Alone(c)
  BY OthersStay DEF Alone, Step
<1>1. Quiet(c) /\ pc[c] = "retire"
  BY ReturnQuiet DEF Inv, Retire
<1>2. UNCHANGED <<content, edge, linkedTo, spent, failures>>
  BY DEF Retire, linkVars
<1>p. PICK old, new : old = job[c].old /\ new = job[c].id
  OBVIOUS
<1>3. CASE old \notin Live \ retired
  <2>1. UNCHANGED <<retired, successor>>
    BY <1>3, <1>p DEF Retire
  <2>2. QED
    BY <1>0, <1>1, <1>2, <2>1, QuietStatements
<1>4. CASE old \in Live \ retired
  <2>1. retired' = retired \union {old} /\ successor' = [successor EXCEPT ![old] = new]
    BY <1>4, <1>p DEF Retire
  <2>2. /\ old \in Ids /\ new \in Ids /\ new \in spent
        /\ (failures = 0 /\ new \in Live) => Linked(old, new)
    <3>1. Succeeds(c) /\ pc[c] # "linkInsert"
      BY <1>1 DEF Succeeds
    <3>2. QED
      BY <1>4, <1>p, <3>1, ConstantsAssumption DEF LinksInv, ClosureOf
  <2>3. /\ successor' \in [Ids -> Ids \union {None}] /\ successor'[old] = new
        /\ \A i \in Ids : i # old => successor'[i] = successor[i]
    BY <2>1, <2>2 DEF Inv, TypeOK
  <2>4. Grows
    BY <1>2, SameRowsGrow DEF Live
  <2>5. \A i, j : Linked(i, j) => Linked(i, j)'
    BY <1>0, <1>1, <1>2, LinkedStays
  <2>6. SuccessorLinked'
    <3> SUFFICES ASSUME failures = 0, NEW i \in retired', successor'[i] \in Live
                 PROVE  Linked(i, successor[i])'
      BY <1>2 DEF SuccessorLinked, Linked, Forgetting, Live
    <3>1. CASE i = old
      <4>1. successor'[i] = new
        BY <2>3, <3>1
      <4>2. Linked(old, new)'
        BY <2>2, <2>5, <4>1
      <4>3. QED
        BY <3>1, <4>1, <4>2 DEF Linked, Forgetting
    <3>2. CASE i # old
      <4>1. i \in retired /\ i \in Ids
        BY <2>1, <3>2 DEF Inv, TypeOK, Live
      <4>2. successor'[i] = successor[i]
        BY <2>3, <3>2, <4>1
      <4>3. Linked(i, successor[i])
        BY <4>1, <4>2 DEF LinksInv, SuccessorLinked, Linked
      <4>4. PICK j : j = successor[i]
        OBVIOUS
      <4>5. Linked(i, j)'
        BY <2>5, <4>3, <4>4
      <4>6. QED
        BY <4>2, <4>4, <4>5 DEF Linked, Forgetting
    <3>3. QED
      BY <3>1, <3>2
  <2>7. \A i \in Ids : successor'[i] \in spent \union {None}
    BY <2>2, <2>3 DEF LinksInv
  <2>8. LinksInv'
    <3>1. \A d \in Clients : ClosureOf(d)'
      BY <1>0, <1>1, <1>2, OthersClosed DEF Quiet
    <3>2. LinksMirrored'
      <4>1. ASSUME NEW p \in Ids \X Ids, edge[p] # None
            PROVE  /\ {p[1], p[2]} \subseteq Live'
                   /\ failures' = 0 =>
                        /\ \/ p[2] \in linkedTo'[p[1]]
                           \/ \E d \in Clients : Linking(d, p, {"linkFrom"})'
                           \/ Forgetting(p[2], {"delRow"})'
                        /\ \/ p[1] \in linkedTo'[p[2]]
                           \/ \E d \in Clients : Linking(d, p, {"linkFrom", "linkTo"})'
                           \/ Forgetting(p[1], {"delRow"})'
        BY <1>0, <1>1, <1>2, <2>4, <4>1, MirrorKept
      <4>2. QED
        BY <1>2, <4>1 DEF LinksMirrored
    <3>3. ASSUME failures = 0, NEW d \in Clients, Succeeds(d)', pc'[d] # "linkInsert",
                 {job'[d].old, job'[d].id} \subseteq Live'
          PROVE  Linked(job[d].old, job[d].id)'
      <4>1. d # c
        BY <1>1, <3>3 DEF Quiet, Succeeds, LinkSteps
      <4>2. pc'[d] = pc[d] /\ job'[d] = job[d] /\ Live' = Live
        BY <1>0, <1>2, <4>1 DEF Alone, Live
      <4>3. Succeeds(d) /\ pc[d] # "linkInsert"
        BY <3>3, <4>2 DEF Succeeds
      <4>4. Linked(job[d].old, job[d].id)
        BY <3>3, <4>2, <4>3 DEF LinksInv
      <4>5. PICK i, j : i = job[d].old /\ j = job[d].id
        OBVIOUS
      <4>6. Linked(i, j)'
        BY <2>5, <4>4, <4>5
      <4>7. QED
        BY <4>2, <4>5, <4>6 DEF Linked, Forgetting
    <3>4. Live' \subseteq spent' /\ \A i \in Ids : successor'[i] \in spent' \union {None}
      BY <1>2, <2>4, <2>7 DEF Grows
    <3>5. QED
      BY <1>2, <2>6, <3>1, <3>2, <3>3, <3>4 DEF LinksInv
  <2>9. QED
    BY <2>8
<1>5. QED
  BY <1>3, <1>4

\* What is left to show of a step of c when all but the mirror and c's own
\* supersession is known.
LEMMA LinksAssembled ==
  ASSUME Inv, LinksInv, NEW c \in Clients, Alone(c), Grows, ClosureOf(c)',
         UNCHANGED <<retired, successor, failures>>,
         \A i, j \in Ids : Linked(i, j) => Linked(i, j)',
         LinksMirrored',
         (/\ failures = 0 /\ Succeeds(c)' /\ pc'[c] # "linkInsert"
          /\ {job'[c].old, job'[c].id} \subseteq Live')
           => Linked(job[c].old, job[c].id)'
  PROVE  LinksInv'
<1>1. Live' \subseteq spent' /\ \A i \in Ids : successor'[i] \in spent' \union {None}
  BY DEF LinksInv, Grows
<1>2. \A d \in Clients : ClosureOf(d)'
  BY OthersClosed DEF Grows
<1>3. /\ SuccessorLinked'
      /\ failures' = 0 =>
           \A d \in Clients \ {c} :
             (Succeeds(d)' /\ pc'[d] # "linkInsert"
              /\ {job'[d].old, job'[d].id} \subseteq Live')
               => Linked(job[d].old, job[d].id)'
  BY LinkedKept
<1>4. QED
  BY <1>1, <1>2, <1>3 DEF LinksInv

\* The mirror of one link.
MirrorOf(p) ==
  /\ {p[1], p[2]} \subseteq Live
  /\ failures = 0 =>
       /\ \/ p[2] \in linkedTo[p[1]]
          \/ \E c \in Clients : Linking(c, p, {"linkFrom"})
          \/ Forgetting(p[2], {"delRow"})
       /\ \/ p[1] \in linkedTo[p[2]]
          \/ \E c \in Clients : Linking(c, p, {"linkFrom", "linkTo"})
          \/ Forgetting(p[1], {"delRow"})

LEMMA MirrorSame ==
  ASSUME Inv, LinksInv, NEW c \in Clients, Alone(c), Grows,
         UNCHANGED failures,
         \A i \in Live : linkedTo[i] \subseteq linkedTo'[i],
         NEW p \in Ids \X Ids, edge[p] # None,
         pc[c] \in {"linkFrom", "linkTo", "delRow"} =>
           /\ pc[c] \in {"linkFrom", "linkTo"}
           /\ <<job[c].from, job[c].to>> # p
  PROVE  MirrorOf(p)'
  BY MirrorKept DEF MirrorOf

LEMMA LinkInsertLinks ==
  ASSUME Inv, LinksInv, NEW c \in Clients, LinkInsert(c)
  PROVE  LinksInv'
<1>0. Alone(c)
  BY OthersStay DEF Alone, Step
<1>1. /\ pc[c] = "linkInsert" /\ ClosureOf(c) /\ job[c] \in Jobs
      /\ UNCHANGED <<content, linkedTo, retired, successor, spent, failures>>
      /\ job[c].op = "remember" => job[c].id \in Ids
  BY DEF LinkInsert, LinksInv, rowVars, histVars, Inv, TypeOK, JobOf
<1>2. CASE LinkFailed(c) /\ UNCHANGED edge
  <2>1. Quiet(c)
    <3>1. CASE Return(c)
      BY <3>1, ReturnQuiet DEF Inv
    <3>2. CASE job[c].op = "remember" /\ SupersedeOrReturn(c, job[c])
      BY <1>1, <3>2, SupersedeQuiet DEF ClosureOf, Inv
    <3>3. QED
      BY <1>2, <3>1, <3>2 DEF LinkFailed
  <2>2. QED
    BY <1>0, <1>1, <1>2, <2>1, QuietStatements
<1>3. CASE /\ {job[c].from, job[c].to} \subseteq Live
           /\ edge' = [edge EXCEPT ![<<job[c].from, job[c].to>>] = job[c].rel]
           /\ Goto(c, "linkFrom") /\ UNCHANGED job
  <2>1. PICK p : p = <<job[c].from, job[c].to>>
    OBVIOUS
  <2>2. p \in Ids \X Ids /\ {p[1], p[2]} \subseteq Live
    BY <1>3, <2>1 DEF Live
  <2>3. job[c].rel # None
    BY <1>1, ConstantsAssumption DEF Jobs
  <2>4. edge'[p] # None /\ \A q \in Ids \X Ids : q # p => edge'[q] = edge[q]
    BY <1>3, <2>1, <2>2, <2>3 DEF Inv, TypeOK
  <2>5. pc'[c] = "linkFrom" /\ job'[c] = job[c]
    BY <1>3 DEF Goto, Inv, TypeOK
  <2>6. Grows /\ Live' = Live
    BY <1>1, SameRowsGrow DEF Live
  <2>7. \A i, j \in Ids : Linked(i, j) => Linked(i, j)'
    <3> SUFFICES ASSUME NEW i \in Ids, NEW j \in Ids, Linked(i, j)  PROVE Linked(i, j)'
      OBVIOUS
    <3>1. edge'[<<i, j>>] = edge[<<i, j>>] \/ edge'[<<i, j>>] # None
      BY <2>4
    <3>2. QED
      BY <1>0, <1>1, <3>1, LinkedStays
  <2>8. LinksMirrored'
    <3>1. ASSUME NEW q \in Ids \X Ids, edge'[q] # None  PROVE MirrorOf(q)'
      <4>1. CASE q = p
        <5>1. Linking(c, p, {"linkFrom"})' /\ Linking(c, p, {"linkFrom", "linkTo"})'
          BY <2>1, <2>5 DEF Linking
        <5>2. QED
          BY <2>2, <2>6, <4>1, <5>1 DEF MirrorOf
      <4>2. CASE q # p
        <5>1. edge[q] # None
          BY <2>4, <3>1, <4>2
        <5>2. \A i \in Live : linkedTo[i] \subseteq linkedTo'[i]
          BY <1>1
        <5>3. QED
          BY <1>0, <1>1, <2>6, <5>1, <5>2, MirrorSame
      <4>3. QED
        BY <4>1, <4>2
    <3>2. QED
      BY <3>1 DEF LinksMirrored, MirrorOf
  <2>9. ClosureOf(c)' /\ (Succeeds(c)' => Succeeds(c))
    BY <1>1, <2>5 DEF ClosureOf, Succeeds, LinkSteps
  <2>10. Succeeds(c)' => Linked(job[c].old, job[c].id)'
    <3> SUFFICES ASSUME Succeeds(c)'  PROVE Linked(job[c].old, job[c].id)'
      OBVIOUS
    <3>1. p = <<job[c].old, job[c].id>>
      BY <1>1, <2>1, <2>9 DEF ClosureOf
    <3>2. p = <<job'[c].old, job'[c].id>>
      BY <2>5, <3>1
    <3>3. QED
      BY <2>4, <3>2 DEF Linked
  <2>11. QED
    BY <1>0, <1>1, <2>6, <2>7, <2>8, <2>9, <2>10, LinksAssembled
<1>4. QED
  BY <1>2, <1>3 DEF LinkInsert

LEMMA MentionType ==
  ASSUME TypeOK, NEW i \in Ids, NEW j \in Ids, Mention(i, j)
  PROVE  /\ \A k \in Ids : linkedTo[k] \subseteq linkedTo'[k]
         /\ i \in Live => j \in linkedTo'[i]
  BY DEF TypeOK, Mention

LEMMA LinkFromLinks ==
  ASSUME Inv, LinksInv, NEW c \in Clients, LinkFrom(c)
  PROVE  LinksInv'
<1>0. Alone(c)
  BY OthersStay DEF Alone, Step
<1>1. /\ pc[c] = "linkFrom" /\ ClosureOf(c) /\ job[c].from \in Ids /\ job[c].to \in Ids
      /\ UNCHANGED <<content, edge, retired, successor, spent, failures>>
      /\ pc'[c] = "linkTo" /\ job'[c] = job[c]
  BY DEF LinkFrom, LinksInv, rowVars, histVars, Inv, TypeOK, JobOf, Goto
<1>2. PICK p : p = <<job[c].from, job[c].to>>
  OBVIOUS
<1>3. /\ \A k \in Ids : linkedTo[k] \subseteq linkedTo'[k]
      /\ p[1] \in Live => p[2] \in linkedTo'[p[1]]
  BY <1>1, <1>2, MentionType DEF LinkFrom, Inv
<1>4. Grows /\ Live' = Live
  BY <1>1, SameRowsGrow DEF Live
<1>5. \A i, j \in Ids : Linked(i, j) => Linked(i, j)'
  BY <1>0, <1>1, LinkedStays
<1>6. LinksMirrored'
  <2>1. ASSUME NEW q \in Ids \X Ids, edge'[q] # None  PROVE MirrorOf(q)'
    <3>1. edge[q] # None /\ {q[1], q[2]} \subseteq Live
      BY <1>1, <2>1 DEF LinksInv, LinksMirrored
    <3>2. CASE q = p
      <4>1. Linking(c, p, {"linkFrom", "linkTo"})'
        BY <1>1, <1>2 DEF Linking
      <4>2. p[2] \in linkedTo'[p[1]]
        BY <1>3, <3>1, <3>2
      <4>3. QED
        BY <1>4, <3>1, <3>2, <4>1, <4>2 DEF MirrorOf
    <3>3. CASE q # p
      <4>1. \A i \in Live : linkedTo[i] \subseteq linkedTo'[i]
        BY <1>3 DEF Live
      <4>2. QED
        BY <1>0, <1>1, <1>2, <1>4, <3>1, <3>3, <4>1, MirrorSame
    <3>4. QED
      BY <3>2, <3>3
  <2>2. QED
    BY <2>1 DEF LinksMirrored, MirrorOf
<1>7. ClosureOf(c)' /\ (Succeeds(c)' => Succeeds(c))
  BY <1>1 DEF ClosureOf, Succeeds, LinkSteps
<1>8. (/\ failures = 0 /\ Succeeds(c)' /\ {job'[c].old, job'[c].id} \subseteq Live')
        => Linked(job[c].old, job[c].id)'
  <2> SUFFICES ASSUME failures = 0, Succeeds(c)', {job'[c].old, job'[c].id} \subseteq Live'
               PROVE  Linked(job[c].old, job[c].id)'
    OBVIOUS
  <2>1. Linked(job[c].old, job[c].id)
    BY <1>1, <1>4, <1>7 DEF LinksInv
  <2>2. PICK i \in Ids, j \in Ids : i = job[c].old /\ j = job[c].id
    BY <1>1, <1>7 DEF ClosureOf
  <2>3. Linked(i, j)'
    BY <1>5, <2>1, <2>2
  <2>4. QED
    BY <1>1, <2>2, <2>3 DEF Linked, Forgetting
<1>9. QED
  BY <1>0, <1>1, <1>4, <1>5, <1>6, <1>7, <1>8, LinksAssembled

LEMMA LinkToLinks ==
  ASSUME Inv, LinksInv, NEW c \in Clients, LinkTo(c)
  PROVE  LinksInv'
<1>0. Alone(c)
  BY OthersStay DEF Alone, Step
<1>1. /\ pc[c] = "linkTo" /\ ClosureOf(c) /\ job[c].from \in Ids /\ job[c].to \in Ids
      /\ UNCHANGED <<content, edge, retired, successor, spent, failures>>
      /\ job[c] \in Jobs /\ (job[c].op = "remember" => job[c].id \in Ids)
  BY DEF LinkTo, LinksInv, rowVars, histVars, Inv, TypeOK, JobOf
<1>2. PICK p : p = <<job[c].from, job[c].to>>
  OBVIOUS
<1>3. /\ \A k \in Ids : linkedTo[k] \subseteq linkedTo'[k]
      /\ p[2] \in Live => p[1] \in linkedTo'[p[2]]
  BY <1>1, <1>2, MentionType DEF LinkTo, Inv
<1>4. Grows /\ Live' = Live
  BY <1>1, SameRowsGrow DEF Live
<1>5. \A i, j \in Ids : Linked(i, j) => Linked(i, j)'
  BY <1>0, <1>1, LinkedStays
<1>6. LinksMirrored'
  <2>1. ASSUME NEW q \in Ids \X Ids, edge'[q] # None  PROVE MirrorOf(q)'
    <3>1. edge[q] # None /\ MirrorOf(q)
      BY <1>1, <2>1 DEF LinksInv, LinksMirrored, MirrorOf
    <3>2. CASE q = p
      <4>1. p[1] \in linkedTo'[p[2]]
        BY <1>3, <3>1, <3>2 DEF MirrorOf
      <4>2. (\E d \in Clients : Linking(d, p, {"linkFrom"}))
              => \E d \in Clients : Linking(d, p, {"linkFrom"})'
        BY <1>0, <1>1, LinkingStays
      <4>3. Forgetting(p[2], {"delRow"}) => Forgetting(p[2], {"delRow"})'
        BY <1>0, <1>1, ForgettingStays
      <4>4. p[2] \in linkedTo[p[1]] => p[2] \in linkedTo'[p[1]]
        BY <1>3, <3>1, <3>2
      <4>5. QED
        BY <1>1, <1>4, <3>1, <3>2, <4>1, <4>2, <4>3, <4>4 DEF MirrorOf
    <3>3. CASE q # p
      <4>1. \A i \in Live : linkedTo[i] \subseteq linkedTo'[i]
        BY <1>3 DEF Live
      <4>2. QED
        BY <1>0, <1>1, <1>2, <1>4, <3>1, <3>3, <4>1, MirrorSame
    <3>4. QED
      BY <3>2, <3>3
  <2>2. QED
    BY <2>1 DEF LinksMirrored, MirrorOf
\* Either no link depends on c any more, or its supersession goes on.
<1>7. \/ Quiet(c)
      \/ pc'[c] = "retire" /\ job'[c] = job[c] /\ Succeeds(c)
  <2>1. CASE Return(c)
    BY <2>1, ReturnQuiet DEF Inv
  <2>2. CASE job[c].op = "remember" /\ SupersedeOrReturn(c, job[c])
    BY <1>1, <2>2, SupersedeQuiet DEF ClosureOf, Inv
  <2>3. CASE /\ job[c].op = "remember" /\ job[c].rel = "superseded_by"
             /\ Goto(c, "retire") /\ UNCHANGED job
    BY <1>1, <2>3 DEF Goto, Inv, TypeOK, Succeeds, LinkSteps
  <2>4. CASE /\ Goto(c, "amendRead")
             /\ job' = [job EXCEPT ![c] = [NoJob EXCEPT !.op = "link", !.id = job[c].to]]
    <3> DEFINE k == [NoJob EXCEPT !.op = "link", !.id = job[c].to]
    <3>1. k.id = job[c].to /\ k.from = None /\ k.to = None /\ k.old = None
      BY DEF NoJob
    <3>2. pc'[c] = "amendRead" /\ job'[c] = k
      BY <2>4 DEF Goto, Inv, TypeOK
    <3> HIDE DEF k
    <3>3. QED
      BY <1>1, <3>1, <3>2 DEF Quiet, ClosureOf, Succeeds, LinkSteps
  <2>5. LinkMade(c)
    BY DEF LinkTo
  <2>6. QED
    BY <2>1, <2>2, <2>3, <2>4, <2>5 DEF LinkMade
<1>8. ClosureOf(c)'
  <2>1. CASE Quiet(c)
    BY <2>1 DEF Quiet
  <2>2. CASE pc'[c] = "retire" /\ job'[c] = job[c] /\ Succeeds(c)
    BY <1>1, <2>2 DEF ClosureOf
  <2>3. QED
    BY <1>7, <2>1, <2>2
<1>9. (/\ failures = 0 /\ Succeeds(c)' /\ pc'[c] # "linkInsert"
       /\ {job'[c].old, job'[c].id} \subseteq Live')
        => Linked(job[c].old, job[c].id)'
  <2> SUFFICES ASSUME failures = 0, Succeeds(c)', pc'[c] # "linkInsert",
                      {job'[c].old, job'[c].id} \subseteq Live'
               PROVE  Linked(job[c].old, job[c].id)'
    OBVIOUS
  <2>0. job'[c] = job[c] /\ Succeeds(c)
    BY <1>7 DEF Quiet, Succeeds, LinkSteps
  <2>1. Linked(job[c].old, job[c].id)
    BY <1>1, <1>4, <2>0 DEF LinksInv
  <2>2. PICK i \in Ids, j \in Ids : i = job[c].old /\ j = job[c].id
    BY <1>1, <2>0 DEF ClosureOf
  <2>3. Linked(i, j)'
    BY <1>5, <2>1, <2>2
  <2>4. QED
    BY <2>0, <2>2, <2>3 DEF Linked, Forgetting
<1>10. QED
  BY <1>0, <1>1, <1>4, <1>5, <1>6, <1>8, <1>9, LinksAssembled

LEMMA DeleteLinksLinks ==
  ASSUME Inv, LinksInv, NEW c \in Clients, DeleteLinks(c)
  PROVE  LinksInv'
<1>0. Alone(c)
  BY OthersStay DEF Alone, Step
<1>1. /\ pc[c] = "delLinks" /\ ClosureOf(c)
      /\ UNCHANGED <<content, linkedTo, retired, successor, spent, failures>>
      /\ pc'[c] = "delRefs" /\ job'[c] = job[c]
  BY DEF DeleteLinks, LinksInv, rowVars, histVars, Inv, TypeOK, Goto
<1>2. \A p \in Ids \X Ids :
        edge'[p] = IF job[c].id \in {p[1], p[2]} THEN None ELSE edge[p]
  BY DEF DeleteLinks
<1>3. Grows /\ Live' = Live
  BY <1>1, SameRowsGrow DEF Live
<1>4. \A i, j \in Ids : Linked(i, j) => Linked(i, j)'
  <2> SUFFICES ASSUME NEW i \in Ids, NEW j \in Ids, Linked(i, j)  PROVE Linked(i, j)'
    OBVIOUS
  <2>1. CASE job[c].id \in {i, j}
    <3>1. Forgetting(i, {"delRefs", "delRow"})' \/ Forgetting(j, {"delRefs", "delRow"})'
      BY <1>1, <2>1 DEF Forgetting
    <3>2. QED
      BY <3>1 DEF Linked
  <2>2. CASE job[c].id \notin {i, j}
    <3>1. <<i, j>> \in Ids \X Ids /\ <<i, j>>[1] = i /\ <<i, j>>[2] = j
      OBVIOUS
    <3>2. edge'[<<i, j>>] = edge[<<i, j>>]
      BY <1>2, <2>2, <3>1
    <3>3. QED
      BY <1>0, <1>1, <3>2, LinkedStays
  <2>3. QED
    BY <2>1, <2>2
<1>5. LinksMirrored'
  <2>1. ASSUME NEW p \in Ids \X Ids, edge'[p] # None  PROVE MirrorOf(p)'
    <3>1. edge[p] # None /\ \A i \in Live : linkedTo[i] \subseteq linkedTo'[i]
      BY <1>1, <1>2, <2>1
    <3>2. QED
      BY <1>0, <1>1, <1>3, <3>1, MirrorSame
  <2>2. QED
    BY <2>1 DEF LinksMirrored, MirrorOf
<1>6. ClosureOf(c)' /\ ~ Succeeds(c)'
  BY <1>1 DEF ClosureOf, Succeeds, LinkSteps
<1>7. QED
  BY <1>0, <1>1, <1>3, <1>4, <1>5, <1>6, LinksAssembled

LEMMA DeleteRefsLinks ==
  ASSUME Inv, LinksInv, NEW c \in Clients, DeleteRefs(c)
  PROVE  LinksInv'
<1>0. Alone(c)
  BY OthersStay DEF Alone, Step
<1>1. /\ pc[c] = "delRefs" /\ ClosureOf(c)
      /\ UNCHANGED <<content, edge, retired, successor, spent, failures>>
      /\ pc'[c] = "delRow" /\ job'[c] = job[c]
  BY DEF DeleteRefs, LinksInv, rowVars, histVars, Inv, TypeOK, Goto
<1>2. \A i \in Ids : linkedTo'[i] = linkedTo[i] \ {job[c].id}
  BY DEF DeleteRefs
<1>3. Grows /\ Live' = Live
  BY <1>1, SameRowsGrow DEF Live
<1>4. \A i, j \in Ids : Linked(i, j) => Linked(i, j)'
  BY <1>0, <1>1, LinkedStays
<1>5. LinksMirrored'
  <2>1. ASSUME NEW p \in Ids \X Ids, edge'[p] # None  PROVE MirrorOf(p)'
    <3>1. edge[p] # None /\ MirrorOf(p) /\ p[1] \in Ids /\ p[2] \in Ids
      BY <1>1, <2>1 DEF LinksInv, LinksMirrored, MirrorOf
    <3>2. \A S \in SUBSET {"linkFrom", "linkTo"} :
            (\E d \in Clients : Linking(d, p, S)) => \E d \in Clients : Linking(d, p, S)'
      BY <1>0, <1>1, LinkingStays
    <3>3. \A i \in Ids : Forgetting(i, {"delRow"}) => Forgetting(i, {"delRow"})'
      BY <1>0, <1>1, ForgettingStays
    <3>4. \A i \in Ids : i = job[c].id => Forgetting(i, {"delRow"})'
      BY <1>1 DEF Forgetting
    <3>5. /\ p[2] \in linkedTo[p[1]] => p[2] \in linkedTo'[p[1]] \/ p[2] = job[c].id
          /\ p[1] \in linkedTo[p[2]] => p[1] \in linkedTo'[p[2]] \/ p[1] = job[c].id
      BY <1>2, <3>1
    <3>6. /\ {"linkFrom"} \in SUBSET {"linkFrom", "linkTo"}
          /\ {"linkFrom", "linkTo"} \in SUBSET {"linkFrom", "linkTo"}
      OBVIOUS
    <3>7. QED
      BY <1>1, <1>3, <3>1, <3>2, <3>3, <3>4, <3>5, <3>6 DEF MirrorOf
  <2>2. QED
    BY <2>1 DEF LinksMirrored, MirrorOf
<1>6. ClosureOf(c)' /\ ~ Succeeds(c)'
  BY <1>1 DEF ClosureOf, Succeeds, LinkSteps
<1>7. QED
  BY <1>0, <1>1, <1>3, <1>4, <1>5, <1>6, LinksAssembled

\* Rows that go take their links with them, and leave the other links alone.  The
\* clients M, which delete them, are done.
LEMMA DropRowsLinks ==
  ASSUME Inv, LinksInv, NEW S, DropRows(S), UNCHANGED <<spent, failures>>,
         NEW M \in SUBSET Clients,
         \A d \in Clients \ M : pc'[d] = pc[d] /\ job'[d] = job[d],
         \A d \in M : pc[d] = "delRow" /\ job[d].id \in S /\ Quiet(d)
  PROVE  LinksInv'
<1>1. /\ Live' = Live \ S
      /\ \A p \in Ids \X Ids : edge'[p] = IF {p[1], p[2]} \cap S # {} THEN None ELSE edge[p]
      /\ \A i \in Ids : i \notin S => linkedTo'[i] = linkedTo[i] /\ successor'[i] = successor[i]
      /\ \A i \in Ids : successor'[i] \in {None, successor[i]}
      /\ retired' = retired \ S
  BY DropRowsType DEF DropRows
<1>2. \A i \in Ids \ S : \A T \in SUBSET {"delRefs", "delRow"} :
        Forgetting(i, T) => Forgetting(i, T)'
  BY DEF Forgetting
<1>3. \A i, j \in Ids \ S : Linked(i, j) => Linked(i, j)'
  <2> SUFFICES ASSUME NEW i \in Ids \ S, NEW j \in Ids \ S, Linked(i, j)
               PROVE  Linked(i, j)'
    OBVIOUS
  <2>1. <<i, j>> \in Ids \X Ids /\ <<i, j>>[1] = i /\ <<i, j>>[2] = j
    OBVIOUS
  <2>2. edge'[<<i, j>>] = edge[<<i, j>>]
    BY <1>1, <2>1
  <2>3. {"delRefs", "delRow"} \in SUBSET {"delRefs", "delRow"}
    OBVIOUS
  <2>4. QED
    BY <1>2, <2>2, <2>3 DEF Linked
<1>4. \A d \in Clients : ClosureOf(d)'
  <2>1. ASSUME NEW d \in Clients \ M  PROVE ClosureOf(d)'
    <3>1. ClosureOf(d) /\ pc'[d] = pc[d] /\ job'[d] = job[d]
      BY DEF LinksInv
    <3>2. Succeeds(d)' <=> Succeeds(d)
      BY <3>1 DEF Succeeds
    <3>3. QED
      BY <3>1, <3>2 DEF ClosureOf
  <2>2. QED
    BY <2>1 DEF Quiet
<1>5. LinksMirrored'
  <2>1. ASSUME NEW p \in Ids \X Ids, edge'[p] # None  PROVE MirrorOf(p)'
    <3>1. /\ edge[p] # None /\ MirrorOf(p)
          /\ p[1] \in Ids \ S /\ p[2] \in Ids \ S
      BY <1>1, <2>1 DEF LinksInv, LinksMirrored, MirrorOf
    <3>2. linkedTo'[p[1]] = linkedTo[p[1]] /\ linkedTo'[p[2]] = linkedTo[p[2]]
      BY <1>1, <3>1
    <3>3. ASSUME NEW T \in SUBSET {"linkFrom", "linkTo"}, \E d \in Clients : Linking(d, p, T)
          PROVE  \E d \in Clients : Linking(d, p, T)'
      <4>1. PICK d \in Clients : Linking(d, p, T)
        BY <3>3
      <4>2. d \notin M
        BY <4>1 DEF Linking
      <4>3. Linking(d, p, T)'
        BY <4>1, <4>2 DEF Linking
      <4>4. QED
        BY <4>3
    <3>4. \A i \in Ids \ S : Forgetting(i, {"delRow"}) => Forgetting(i, {"delRow"})'
      <4>1. {"delRow"} \in SUBSET {"delRefs", "delRow"}
        OBVIOUS
      <4>2. QED
        BY <1>2, <4>1
    <3>5. /\ {"linkFrom"} \in SUBSET {"linkFrom", "linkTo"}
          /\ {"linkFrom", "linkTo"} \in SUBSET {"linkFrom", "linkTo"}
      OBVIOUS
    <3>6. {p[1], p[2]} \subseteq Live'
      BY <1>1, <3>1 DEF MirrorOf
    <3>7. QED
      BY <3>1, <3>2, <3>3, <3>4, <3>5, <3>6 DEF MirrorOf
  <2>2. QED
    BY <2>1 DEF LinksMirrored, MirrorOf
<1>6. SuccessorLinked'
  <2> SUFFICES ASSUME failures = 0, NEW i \in retired', successor'[i] \in Live'
               PROVE  Linked(i, successor[i])'
    BY DEF SuccessorLinked, Linked, Forgetting
  <2>1. i \in retired /\ i \in Ids \ S
    BY <1>1 DEF Inv, TypeOK, Live
  <2>2. PICK j : j = successor[i]
    OBVIOUS
  <2>3. j \in Ids \ S /\ j \in Live /\ successor'[i] = j
    BY <1>1, <2>1, <2>2 DEF Live
  <2>4. Linked(i, j)
    BY <2>1, <2>2, <2>3 DEF LinksInv, SuccessorLinked, Linked
  <2>5. Linked(i, j)'
    BY <1>3, <2>1, <2>3, <2>4
  <2>6. QED
    BY <2>3, <2>5 DEF Linked, Forgetting
<1>7. ASSUME failures = 0, NEW d \in Clients, Succeeds(d)', pc'[d] # "linkInsert",
             {job'[d].old, job'[d].id} \subseteq Live'
      PROVE  Linked(job[d].old, job[d].id)'
  <2>1. d \notin M
    BY <1>7 DEF Quiet, Succeeds, LinkSteps
  <2>2. pc'[d] = pc[d] /\ job'[d] = job[d]
    BY <2>1
  <2>3. Succeeds(d) /\ pc[d] # "linkInsert"
    BY <1>7, <2>2 DEF Succeeds
  <2>4. PICK i, j : i = job[d].old /\ j = job[d].id
    OBVIOUS
  <2>5. i \in Ids \ S /\ j \in Ids \ S /\ {job[d].old, job[d].id} \subseteq Live
    BY <1>1, <1>7, <2>2, <2>4 DEF Live
  <2>6. Linked(job[d].old, job[d].id)
    BY <1>7, <2>3, <2>5 DEF LinksInv
  <2>7. Linked(i, j)'
    BY <1>3, <2>4, <2>5, <2>6
  <2>8. QED
    BY <2>2, <2>4, <2>7 DEF Linked, Forgetting
<1>8. Live' \subseteq spent' /\ \A i \in Ids : successor'[i] \in spent' \union {None}
  BY <1>1 DEF LinksInv
<1>9. QED
  BY <1>4, <1>5, <1>6, <1>7, <1>8 DEF LinksInv

LEMMA DeleteRowLinks ==
  ASSUME Inv, LinksInv, NEW c \in Clients, DeleteRow(c)
  PROVE  LinksInv'
<1>0. Alone(c)
  BY OthersStay DEF Alone, Step
<1>1. Quiet(c) /\ pc[c] = "delRow" /\ UNCHANGED <<spent, failures>>
  BY ReturnQuiet DEF DeleteRow, Inv
<1>2. PICK S : S = {job[c].id}
  OBVIOUS
<1>3. DropRows(S)
  BY <1>2 DEF DeleteRow
<1>4. PICK M \in SUBSET Clients : M = {c}
  OBVIOUS
<1>5. /\ \A d \in Clients \ M : pc'[d] = pc[d] /\ job'[d] = job[d]
      /\ \A d \in M : pc[d] = "delRow" /\ job[d].id \in S /\ Quiet(d)
  BY <1>0, <1>1, <1>2, <1>4 DEF Alone
<1>6. QED
  BY <1>1, <1>3, <1>5, DropRowsLinks

\* Promotions and time change no link and no row.
LEMMA SameLinks ==
  ASSUME LinksInv,
         UNCHANGED <<content, edge, linkedTo, retired, successor, spent, failures, pc, job>>
  PROVE  LinksInv'
  BY DEF LinksInv, ClosureOf, Succeeds, LinksMirrored, Linking, SuccessorLinked, Linked,
         Forgetting, Live

LEMMA MaintenanceLinks ==
  ASSUME Inv, LinksInv, Maintenance
  PROVE  LinksInv'
<1>1. CASE DeleteExpired
  <2>1. PICK S : DropRows(S) /\ UNCHANGED <<pc, job, spent, ops, failures>>
    BY <1>1 DEF DeleteExpired
  <2>2. PICK M \in SUBSET Clients : M = {}
    OBVIOUS
  <2>3. /\ \A d \in Clients \ M : pc'[d] = pc[d] /\ job'[d] = job[d]
        /\ \A d \in M : pc[d] = "delRow" /\ job[d].id \in S /\ Quiet(d)
    BY <2>1, <2>2
  <2>4. QED
    BY <2>1, <2>3, DropRowsLinks
<1>2. CASE WeekPasses \/ \E i \in Ids : PromoteTier(i)
  BY <1>2, SameLinks DEF WeekPasses, PromoteTier, linkVars, histVars
<1>3. QED
  BY <1>1, <1>2 DEF Maintenance

\* After a failed statement only the closures and the ends of links are claimed.
LEMMA FailLinks ==
  ASSUME Inv, LinksInv, NEW c \in Clients, FailStatement(c)
  PROVE  LinksInv'
<1>0. Alone(c)
  BY OthersStay DEF Alone
<1>1. /\ UNCHANGED <<content, edge, linkedTo, retired, successor, spent>> /\ failures' # 0
      /\ ClosureOf(c) /\ job[c] \in Jobs
  BY ConstantsAssumption DEF FailStatement, rowVars, linkVars, histVars, Inv, TypeOK, LinksInv
<1>2. ClosureOf(c)'
  <2>1. CASE Return(c)
    BY <2>1, ReturnQuiet DEF Inv, Quiet
  <2>2. CASE /\ pc[c] \in {"linkInsert", "linkFrom", "linkTo"} /\ job[c].op = "remember"
             /\ SupersedeOrReturn(c, job[c])
    <3>1. job[c].id \in Ids /\ {job[c].id, job[c].old} \subseteq spent' \union {None}
      BY <1>1, <2>2 DEF Inv, JobOf, ClosureOf
    <3>2. QED
      BY <1>1, <2>2, <3>1, SupersedeQuiet DEF Inv, Quiet
  <2>3. CASE Goto(c, "delRefs") /\ UNCHANGED job
    <3>1. pc'[c] = "delRefs" /\ job'[c] = job[c]
      BY <2>3 DEF Goto, Inv, TypeOK
    <3>2. QED
      BY <1>1, <3>1 DEF ClosureOf, Succeeds, LinkSteps
  <2>4. QED
    BY <2>1, <2>2, <2>3 DEF FailStatement, LinkFailed
<1>3. \A d \in Clients : ClosureOf(d)'
  BY <1>0, <1>1, <1>2, OthersClosed
<1>4. LinksMirrored'
  <2>1. \A p \in Ids \X Ids : edge[p] # None => {p[1], p[2]} \subseteq Live
    BY DEF LinksInv, LinksMirrored
  <2>2. QED
    BY <1>1, <2>1 DEF LinksMirrored, Live
<1>5. SuccessorLinked'
  BY <1>1 DEF SuccessorLinked
<1>6. Live' = Live
  BY <1>1 DEF Live
<1>7. QED
  BY <1>1, <1>3, <1>4, <1>5, <1>6 DEF LinksInv

LEMMA InitLinks == Init => LinksInv
<1> SUFFICES ASSUME Init  PROVE LinksInv
  OBVIOUS
<1>1. Live = {} /\ retired = {} /\ \A i \in Ids : successor[i] = None
  BY DEF Init, Live
<1>2. \A c \in Clients : pc[c] = "idle" /\ job[c] = NoJob
  BY DEF Init
<1>3. {NoJob.id, NoJob.from, NoJob.to, NoJob.old} = {None}
  BY DEF NoJob
<1>4. \A c \in Clients : ClosureOf(c) /\ ~ Succeeds(c)
  BY <1>2, <1>3 DEF ClosureOf, Succeeds, LinkSteps
<1>5. LinksMirrored
  BY DEF Init, LinksMirrored
<1>6. SuccessorLinked
  BY <1>1 DEF SuccessorLinked
<1>7. QED
  BY <1>1, <1>4, <1>5, <1>6 DEF LinksInv

LEMMA LinksStep == Inv /\ LinksInv /\ [Next]_vars => LinksInv'
<1> SUFFICES ASSUME Inv, LinksInv, [Next]_vars  PROVE LinksInv'
  OBVIOUS
<1>1. ASSUME NEW c \in Clients, Step(c)  PROVE LinksInv'
  BY <1>1, RememberLinks, RetireLinks, LinkInsertLinks, LinkFromLinks, LinkToLinks,
     LinkReadLinks, AmendLinks, DeleteLinksLinks, DeleteRefsLinks, DeleteRowLinks DEF Step
<1>2. CASE UNCHANGED vars
  BY <1>2, SameLinks DEF vars, rowVars, linkVars, histVars
<1>3. QED
  BY <1>1, <1>2, RequestLinks, FailLinks, MaintenanceLinks DEF Next

LEMMA LinksAlways == Spec => []LinksInv
  BY InitLinks, LinksStep, InvAlways, PTL DEF Spec

\* Links have both their ends and, as long as no statement fails, show in the
\* linked_to arrays of both, whatever createLink, forget and the collector do
\* between each other's statements.
THEOREM LinksKeptMirrored == Spec => []LinksMirrored
<1>1. LinksInv => LinksMirrored
  BY DEF LinksInv
<1>2. QED
  BY <1>1, LinksAlways, PTL

\* A superseded fragment has a link to the one that superseded it, although the
\* link is inserted statements before valid_to is set; only a forget of one of the
\* two takes it away.
THEOREM SupersededLeadsOn == Spec => []SuccessorLinked
<1>1. LinksInv => SuccessorLinked
  BY DEF LinksInv
<1>2. QED
  BY <1>1, LinksAlways, PTL
=============================================================================
