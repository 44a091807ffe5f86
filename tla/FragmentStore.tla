---------------------------- MODULE FragmentStore ---------------------------
(***************************************************************************)
(* The fragment table of PostgreSQL and the operations that write it       *)
(* (lib/memory/FragmentStore.js, lib/memory/manager/MemoryWriteService.js, *)
(* lib/memory/memory-schema.sql).  Requests of several clients interleave: *)
(* every awaited SQL statement is one step, so an operation that issues    *)
(* several statements outside a transaction can be overtaken between any   *)
(* two of them.  One row of `fragments' is the columns below at its id.    *)
(*                                                                         *)
(* Abstracted: importance, utility, topic, keywords and type (their only   *)
(* effects here are the nondeterministic PromoteTier and the choice of the *)
(* rows deleteExpired takes); times (WeekPasses); the Redis index and the  *)
(* queues (other modules).  A remember names at most one fragment to link  *)
(* and at most one to supersede.                                           *)
(***************************************************************************)
EXTENDS Naturals

CONSTANTS
  Ids,         \* fragment ids the factory can generate
  Contents,    \* texts; the content hash is taken to be injective
  Clients,     \* concurrent callers
  Keys,        \* API keys
  KeyOf,       \* KeyOf[c]: the key c calls with, None for the master key
  LinkRels,    \* relation types the link operation is called with
  Offered,     \* bound: the operations clients, and the consolidator, perform
  Flags,       \* bound: values of isAnchor and force
  None,        \* SQL NULL, "not given", "no row"
  MaxOps,      \* bound: operations started in a behaviour
  MaxFailures  \* bound: statements that fail in a behaviour

Rels == LinkRels \union {"related", "superseded_by"}

ASSUME ConstantsAssumption ==
  /\ None \notin Ids \union Contents \union Keys \union Rels
  /\ KeyOf \in [Clients -> Keys \union {None}]
  /\ MaxOps \in Nat
  /\ MaxFailures \in Nat
  /\ Flags \subseteq BOOLEAN

VARIABLES
  content,   \* content[i]: text of row i, None when there is no row i
  owner,     \* owner[i]: key_id of row i
  retired,   \* ids of rows whose valid_to is set
  anchored,  \* ids of rows with is_anchor
  permanent, \* ids of rows with ttl_tier = 'permanent'
  aged,      \* ids of rows older than the collector's grace period
  edge,      \* edge[<<i, j>>]: relation_type of the fragment_links row, or None
  linkedTo,  \* linkedTo[i]: ids in the linked_to array of row i
  versions,  \* versions[i]: texts archived in fragment_versions for row i
  pc, job,   \* per client: the next statement, and the arguments in its closure
  spent,     \* ids the factory has generated
  past,      \* history: texts row i has held
  successor, \* history: the fragment that superseded row i
  stale,     \* history: rows rewritten by an amend that had read an older text
  pinned,    \* history: rows a remember was asked to anchor, and no amend freed
  ops, failures \* bound counters

rowVars  == <<content, owner, retired, anchored, permanent, aged>>
linkVars == <<edge, linkedTo>>
histVars == <<past, successor, stale, pinned>>
vars == <<rowVars, linkVars, versions, pc, job, spent, histVars, ops, failures>>

Live == {i \in Ids : content[i] # None}

Steps == {"idle", "select", "insert", "linkRead", "linkInsert", "linkFrom",
          "linkTo", "retire", "amendRead", "archive", "dupCheck", "write",
          "forgetRead", "delLinks", "delRefs", "delRow"}

\* The closure of a running operation.  id is the fragment worked on, text the
\* text given, other the far end of the link being created, old the fragment to
\* supersede, flag the is_anchor or force argument, snap the text read before
\* the transaction of an amend.
Jobs == [op : {"none", "remember", "link", "amend", "forget"},
         id : Ids \union {None}, text : Contents \union {None},
         from : Ids \union {None}, to : Ids \union {None},
         rel : Rels, old : Ids \union {None}, flag : BOOLEAN,
         snap : Contents \union {None}]

NoJob == [op |-> "none", id |-> None, text |-> None, from |-> None,
          to |-> None, rel |-> "related", old |-> None, flag |-> FALSE,
          snap |-> None]

TypeOK ==
  /\ content \in [Ids -> Contents \union {None}]
  /\ owner \in [Ids -> Keys \union {None}]
  /\ retired \subseteq Live
  /\ anchored \subseteq Live
  /\ permanent \subseteq Live
  /\ aged \subseteq Live
  /\ edge \in [Ids \X Ids -> Rels \union {None}]
  /\ linkedTo \in [Ids -> SUBSET Ids]
  /\ versions \in [Ids -> SUBSET Contents]
  /\ pc \in [Clients -> Steps]
  /\ job \in [Clients -> Jobs]
  /\ spent \subseteq Ids
  /\ past \in [Ids -> SUBSET Contents]
  /\ successor \in [Ids -> Ids \union {None}]
  /\ stale \subseteq Ids
  /\ pinned \subseteq Live
  /\ ops \in 0..MaxOps
  /\ failures \in 0..MaxFailures

Init ==
  /\ content = [i \in Ids |-> None]
  /\ owner = [i \in Ids |-> None]
  /\ retired = {} /\ anchored = {} /\ permanent = {} /\ aged = {}
  /\ edge = [p \in Ids \X Ids |-> None]
  /\ linkedTo = [i \in Ids |-> {}]
  /\ versions = [i \in Ids |-> {}]
  /\ pc = [c \in Clients |-> "idle"]
  /\ job = [c \in Clients |-> NoJob]
  /\ spent = {}
  /\ past = [i \in Ids |-> {}]
  /\ successor = [i \in Ids |-> None]
  /\ stale = {} /\ pinned = {}
  /\ ops = 0 /\ failures = 0

-----------------------------------------------------------------------------
(* Control.                                                                *)

Start(c, step, args) ==
  /\ pc[c] = "idle"
  /\ ops < MaxOps
  /\ ops' = ops + 1
  /\ pc' = [pc EXCEPT ![c] = step]
  /\ job' = [job EXCEPT ![c] = args]

Goto(c, step) == pc' = [pc EXCEPT ![c] = step]

Return(c) ==
  /\ Goto(c, "idle")
  /\ job' = [job EXCEPT ![c] = NoJob]

\* A transaction that archived a version of i holds FOR KEY SHARE on row i (the
\* foreign key of fragment_versions) until it ends: rewriting content_hash and
\* deleting the row wait for it.
InTxn(c, i) == pc[c] \in {"dupCheck", "write"} /\ job[c].id = i

\* Fault: no row locks.
LockedNever(i, S) == FALSE

Locked(i, S) == \E c \in Clients \ S : InTxn(c, i)

\* remember walks its links, then the fragment it supersedes (MemoryWriteService
\* 59-80): what follows once j.id is known and the links up to here are made.
LinkStep(c, j, from, to, rel) ==
  /\ job' = [job EXCEPT ![c] = [j EXCEPT !.from = from, !.to = to, !.rel = rel]]
  /\ Goto(c, "linkInsert")

\* Fault: valid_to is set without the superseded_by link.
RetireUnlinked(c, j) ==
  IF j.old \notin {None, j.id}
  THEN Goto(c, "retire") /\ job' = [job EXCEPT ![c] = j]
  ELSE Return(c)

SupersedeOrReturn(c, j) ==
  IF j.old \notin {None, j.id}
  THEN LinkStep(c, j, j.old, j.id, "superseded_by")
  ELSE Return(c)

AfterStored(c, j) ==
  IF j.to # None THEN LinkStep(c, j, j.id, j.to, "related")
                 ELSE SupersedeOrReturn(c, j)
-----------------------------------------------------------------------------
(* remember: insert, then the links, then the superseded fragment.         *)

RememberStart(c, text, to, old, flag) ==
  /\ Start(c, "select", [NoJob EXCEPT !.op = "remember", !.text = text,
                                      !.to = to, !.old = old, !.flag = flag])
  /\ UNCHANGED <<rowVars, linkVars, versions, spent, histVars, failures>>

Pin(c, i) == pinned' = IF job[c].flag THEN pinned \union {i} ELSE pinned

\* The duplicate check: a row with this content hash is returned as it is.
RememberSelect(c) ==
  /\ pc[c] = "select"
  /\ LET dups == {i \in Live : content[i] = job[c].text}
     IN \/ /\ dups = {}
           /\ Goto(c, "insert")
           /\ UNCHANGED <<job, pinned>>
        \/ \E i \in dups : /\ AfterStored(c, [job[c] EXCEPT !.id = i])
                           /\ Pin(c, i)
  /\ UNCHANGED <<rowVars, linkVars, versions, spent, past, successor, stale, ops,
                 failures>>

\* INSERT of a row whose hash is new.  linked_to is stored as it was given; a
\* fragment born permanent is one that PromoteTier takes in the next step.
RememberInsert(c, i) ==
  /\ pc[c] = "insert"
  /\ i \notin spent
  /\ ~ \E j \in Live : content[j] = job[c].text
  /\ content' = [content EXCEPT ![i] = job[c].text]
  /\ owner' = [owner EXCEPT ![i] = KeyOf[c]]
  /\ anchored' = IF job[c].flag THEN anchored \union {i} ELSE anchored
  /\ linkedTo' = [linkedTo EXCEPT ![i] = {job[c].to} \ {None}]
  /\ past' = [past EXCEPT ![i] = {job[c].text}]
  /\ spent' = spent \union {i}
  /\ AfterStored(c, [job[c] EXCEPT !.id = i])
  /\ Pin(c, i)
  /\ UNCHANGED <<retired, permanent, aged, edge, versions, successor, stale, ops,
                 failures>>

\* ON CONFLICT (content_hash): another remember inserted the text meanwhile.
RememberConflict(c, i) ==
  /\ pc[c] = "insert"
  /\ i \in Live /\ content[i] = job[c].text
  /\ anchored' = IF job[c].flag THEN anchored \union {i} ELSE anchored
  /\ AfterStored(c, [job[c] EXCEPT !.id = i])
  /\ Pin(c, i)
  /\ UNCHANGED <<content, owner, retired, permanent, aged, linkVars, versions,
                 spent, past, successor, stale, ops, failures>>

\* _supersede, once its link is made: valid_to is set unless it is set already.
Retire(c) ==
  /\ pc[c] = "retire"
  /\ LET old == job[c].old
     IN IF old \in Live \ retired
        THEN /\ retired' = retired \union {old}
             /\ successor' = [successor EXCEPT ![old] = job[c].id]
        ELSE UNCHANGED <<retired, successor>>
  /\ Return(c)
  /\ UNCHANGED <<content, owner, anchored, permanent, aged, linkVars, versions,
                 spent, past, stale, pinned, ops, failures>>
-----------------------------------------------------------------------------
(* createLink: three statements, no transaction.                           *)

LinkStart(c, i, j, rel) ==
  /\ Start(c, "linkRead", [NoJob EXCEPT !.op = "link", !.from = i, !.to = j,
                                        !.rel = rel])
  /\ UNCHANGED <<rowVars, linkVars, versions, spent, histVars, failures>>

LinkRead(c) ==
  /\ pc[c] = "linkRead"
  /\ IF {job[c].from, job[c].to} \subseteq Live
     THEN Goto(c, "linkInsert") /\ UNCHANGED job
     ELSE Return(c)
  /\ UNCHANGED <<rowVars, linkVars, versions, spent, histVars, ops, failures>>

\* What the caller of createLink does next, made or failed: remember swallows
\* the failure of a "related" link and skips the retirement when the
\* "superseded_by" link fails; link reports it.
LinkFailed(c) ==
  IF job[c].op = "remember" /\ job[c].rel = "related"
  THEN SupersedeOrReturn(c, job[c])
  ELSE Return(c)

\* link marks a resolved error through update(), without a key; update() reads
\* the row afresh.
LinkMade(c) ==
  CASE job[c].op = "remember" /\ job[c].rel = "related" ->
         SupersedeOrReturn(c, job[c])
    [] job[c].op = "remember" /\ job[c].rel = "superseded_by" ->
         Goto(c, "retire") /\ UNCHANGED job
    [] OTHER ->
         \/ Return(c)
         \/ /\ job[c].rel = "resolved_by"
            /\ Goto(c, "amendRead")
            /\ job' = [job EXCEPT ![c] = [NoJob EXCEPT !.op = "link",
                                                       !.id = job[c].to]]

\* INSERT ... ON CONFLICT (from_id, to_id) DO UPDATE: the last relation wins.
\* The foreign keys refuse an end that has no row.
LinkInsert(c) ==
  /\ pc[c] = "linkInsert"
  /\ LET p == <<job[c].from, job[c].to>>
     IN IF {p[1], p[2]} \subseteq Live
        THEN /\ edge' = [edge EXCEPT ![p] = job[c].rel]
             /\ Goto(c, "linkFrom")
             /\ UNCHANGED job
        ELSE LinkFailed(c) /\ UNCHANGED edge
  /\ UNCHANGED <<rowVars, linkedTo, versions, spent, histVars, ops, failures>>

\* Fault: the array is replaced, not appended to.
MentionOnly(i, j) ==
  linkedTo' = IF i \in Live THEN [linkedTo EXCEPT ![i] = {j}] ELSE linkedTo

\* UPDATE linked_to: touches no row when row i is gone.
Mention(i, j) ==
  linkedTo' = IF i \in Live
              THEN [linkedTo EXCEPT ![i] = @ \union {j}] ELSE linkedTo

LinkFrom(c) ==
  /\ pc[c] = "linkFrom"
  /\ Mention(job[c].from, job[c].to)
  /\ Goto(c, "linkTo")
  /\ UNCHANGED <<rowVars, edge, versions, job, spent, histVars, ops, failures>>

LinkTo(c) ==
  /\ pc[c] = "linkTo"
  /\ Mention(job[c].to, job[c].from)
  /\ LinkMade(c)
  /\ UNCHANGED <<rowVars, edge, versions, spent, histVars, ops, failures>>
-----------------------------------------------------------------------------
(* amend: getById, then update()'s transaction.                            *)

\* text is None when only other columns are amended; the evaluator's keyword
\* and importance updates are such an amend.
AmendStart(c, i, text, flag) ==
  /\ Start(c, "amendRead", [NoJob EXCEPT !.op = "amend", !.id = i,
                                         !.text = text, !.flag = flag])
  /\ UNCHANGED <<rowVars, linkVars, versions, spent, histVars, failures>>

\* getById selects no key_id, so a caller with a key is always taken for a
\* stranger.
TakenForOwner(c) == KeyOf[c] = None \/ job[c].op = "link"

AmendRead(c) ==
  /\ pc[c] = "amendRead"
  /\ IF job[c].id \in Live /\ TakenForOwner(c)
     THEN /\ job' = [job EXCEPT ![c].snap = content[job[c].id]]
          /\ Goto(c, "archive")
     ELSE Return(c)
  /\ UNCHANGED <<rowVars, linkVars, versions, spent, histVars, ops, failures>>

\* BEGIN; INSERT INTO fragment_versions.  Uncommitted, so only the lock shows.
AmendArchive(c) ==
  /\ pc[c] = "archive"
  /\ IF job[c].id \in Live
     THEN /\ Goto(c, IF job[c].text = None THEN "write" ELSE "dupCheck")
          /\ UNCHANGED job
     ELSE Return(c)
  /\ UNCHANGED <<rowVars, linkVars, versions, spent, histVars, ops, failures>>

\* Fault: content_hash is not unique.
HeldNowhere(text, i) == FALSE

HeldElsewhere(text, i) == \E j \in Live \ {i} : content[j] = text

\* A row that holds the new text already: ROLLBACK, { merged: true }.
AmendDupCheck(c) ==
  /\ pc[c] = "dupCheck"
  /\ IF HeldElsewhere(job[c].text, job[c].id)
     THEN Return(c)
     ELSE Goto(c, "write") /\ UNCHANGED job
  /\ UNCHANGED <<rowVars, linkVars, versions, spent, histVars, ops, failures>>

\* The text changes, so the UPDATE needs the row for itself.
Rewrites(c) == job[c].text \notin {None, content[job[c].id]}

\* Fault: the version archived is the one being written.
ArchiveNew(c) == IF job[c].text = None THEN job[c].snap ELSE job[c].text

\* The version archived is the text read before the transaction began.
ArchivedText(c) == job[c].snap

\* UPDATE; COMMIT.  The archived version appears with it.
AmendWrite(c) ==
  LET i == job[c].id
      text == job[c].text
  IN /\ pc[c] = "write"
     /\ Rewrites(c) => ~ Locked(i, {c}) /\ ~ HeldElsewhere(text, i)
     /\ content' = IF text = None THEN content
                                  ELSE [content EXCEPT ![i] = text]
     /\ \E keep \in BOOLEAN :
          /\ job[c].op = "link" => keep
          /\ anchored' = IF keep THEN anchored
                         ELSE IF job[c].flag THEN anchored \union {i}
                                             ELSE anchored \ {i}
     /\ versions' = [versions EXCEPT ![i] = @ \union {ArchivedText(c)}]
     /\ past' = [past EXCEPT ![i] = @ \union ({text} \ {None})]
     /\ stale' = IF Rewrites(c) /\ job[c].snap # content[i]
                 THEN stale \union {i} ELSE stale
     /\ pinned' = IF i \in anchored' THEN pinned ELSE pinned \ {i}
     /\ Return(c)
     /\ UNCHANGED <<owner, retired, permanent, aged, linkVars, spent, successor,
                    ops, failures>>

\* Fault: nothing breaks a deadlock.
AmendAbortTaken(c) ==
  /\ pc[c] = "write"
  /\ Rewrites(c)
  /\ HeldElsewhere(job[c].text, job[c].id) /\ ~ Locked(job[c].id, {c})
  /\ Return(c)
  /\ UNCHANGED <<rowVars, linkVars, versions, spent, histVars, ops, failures>>

\* The UPDATE is refused and the transaction rolled back: the text was taken
\* since the check, or two amends that both archived wait for each other and
\* PostgreSQL picks this one as the victim.
AmendAbort(c) ==
  /\ pc[c] = "write"
  /\ Rewrites(c)
  /\ \/ HeldElsewhere(job[c].text, job[c].id) /\ ~ Locked(job[c].id, {c})
     \/ \E d \in Clients \ {c} : /\ InTxn(d, job[c].id)
                                 /\ pc[d] = "write" /\ Rewrites(d)
  /\ Return(c)
  /\ UNCHANGED <<rowVars, linkVars, versions, spent, histVars, ops, failures>>
-----------------------------------------------------------------------------
(* forget: getById, then delete()'s three statements, no transaction.      *)

ForgetStart(c, i, force) ==
  /\ Start(c, "forgetRead", [NoJob EXCEPT !.op = "forget", !.id = i,
                                          !.flag = force])
  /\ UNCHANGED <<rowVars, linkVars, versions, spent, histVars, failures>>

ForgetRead(c) ==
  /\ pc[c] = "forgetRead"
  /\ IF /\ job[c].id \in Live
        /\ TakenForOwner(c)
        /\ job[c].id \in permanent => job[c].flag
     THEN Goto(c, "delLinks") /\ UNCHANGED job
     ELSE Return(c)
  /\ UNCHANGED <<rowVars, linkVars, versions, spent, histVars, ops, failures>>

DeleteLinks(c) ==
  /\ pc[c] = "delLinks"
  /\ edge' = [p \in Ids \X Ids |->
                IF job[c].id \in {p[1], p[2]} THEN None ELSE edge[p]]
  /\ Goto(c, "delRefs")
  /\ UNCHANGED <<rowVars, linkedTo, versions, job, spent, histVars, ops, failures>>

DeleteRefs(c) ==
  /\ pc[c] = "delRefs"
  /\ linkedTo' = [i \in Ids |-> linkedTo[i] \ {job[c].id}]
  /\ Goto(c, "delRow")
  /\ UNCHANGED <<rowVars, edge, versions, job, spent, histVars, ops, failures>>

\* Fault: the row goes, what hangs on it stays.
DropRowsOnly(S) ==
  /\ content' = [i \in Ids |-> IF i \in S THEN None ELSE content[i]]
  /\ UNCHANGED <<owner, retired, anchored, permanent, aged, linkVars, versions,
                 histVars>>

\* DELETE FROM fragments: the rows S go, with their links and versions
\* (ON DELETE CASCADE); the linked_to arrays of other rows are left alone.
DropRows(S) ==
  /\ content' = [i \in Ids |-> IF i \in S THEN None ELSE content[i]]
  /\ owner' = [i \in Ids |-> IF i \in S THEN None ELSE owner[i]]
  /\ retired' = retired \ S
  /\ anchored' = anchored \ S
  /\ permanent' = permanent \ S
  /\ aged' = aged \ S
  /\ edge' = [p \in Ids \X Ids |->
                IF {p[1], p[2]} \cap S # {} THEN None ELSE edge[p]]
  /\ linkedTo' = [i \in Ids |-> IF i \in S THEN {} ELSE linkedTo[i]]
  /\ versions' = [i \in Ids |-> IF i \in S THEN {} ELSE versions[i]]
  /\ past' = [i \in Ids |-> IF i \in S THEN {} ELSE past[i]]
  /\ successor' = [i \in Ids |-> IF i \in S THEN None ELSE successor[i]]
  /\ stale' = stale \ S
  /\ pinned' = pinned \ S

DeleteRow(c) ==
  /\ pc[c] = "delRow"
  /\ ~ Locked(job[c].id, {})
  /\ DropRows({job[c].id})
  /\ Return(c)
  /\ UNCHANGED <<spent, ops, failures>>
-----------------------------------------------------------------------------
(* The consolidator's statements, and time.                                *)

\* deleteExpired: one DELETE over rows past the grace period, neither permanent
\* nor anchored; which of them are useless enough is left open.
DeleteExpired ==
  \E S \in SUBSET (aged \ (permanent \union anchored)) :
    /\ S # {}
    /\ \A i \in S : ~ Locked(i, {})
    /\ DropRows(S)
    /\ UNCHANGED <<pc, job, spent, ops, failures>>

\* transitionTTL: preference, hub or importance >= 0.8.
PromoteTier(i) ==
  /\ i \in Live \ permanent
  /\ permanent' = permanent \union {i}
  /\ UNCHANGED <<content, owner, retired, anchored, aged, linkVars, versions, pc,
                 job, spent, histVars, ops, failures>>

\* The grace period is days, a request seconds: none is running when it ends.
WeekPasses ==
  /\ \A c \in Clients : pc[c] = "idle"
  /\ aged # Live
  /\ aged' = Live
  /\ UNCHANGED <<content, owner, retired, anchored, permanent, linkVars, versions,
                 pc, job, spent, histVars, ops, failures>>

\* A statement fails (lost connection, timeout).  delete() swallows the failure
\* of its first statement; a failed link is the caller's business; anything else
\* ends the operation, what was committed before stays.
FailStatement(c) ==
  /\ pc[c] # "idle"
  /\ failures < MaxFailures
  /\ failures' = failures + 1
  /\ CASE pc[c] = "delLinks" -> Goto(c, "delRefs") /\ UNCHANGED job
       [] pc[c] \in {"linkInsert", "linkFrom", "linkTo"} -> LinkFailed(c)
       [] OTHER -> Return(c)
  /\ UNCHANGED <<rowVars, linkVars, versions, spent, histVars, ops>>
-----------------------------------------------------------------------------
Step(c) ==
  \/ RememberSelect(c)
  \/ \E i \in Ids : RememberInsert(c, i) \/ RememberConflict(c, i)
  \/ Retire(c)
  \/ LinkRead(c) \/ LinkInsert(c) \/ LinkFrom(c) \/ LinkTo(c)
  \/ AmendRead(c) \/ AmendArchive(c) \/ AmendDupCheck(c)
  \/ AmendWrite(c) \/ AmendAbort(c)
  \/ ForgetRead(c) \/ DeleteLinks(c) \/ DeleteRefs(c) \/ DeleteRow(c)

Request(c) ==
  \/ /\ "remember" \in Offered
     /\ \E text \in Contents, to, old \in spent \union {None}, flag \in Flags :
          RememberStart(c, text, to, old, flag)
  \/ /\ "link" \in Offered
     /\ \E i, j \in spent, rel \in LinkRels : LinkStart(c, i, j, rel)
  \/ /\ "amend" \in Offered
     /\ \E i \in spent, text \in Contents \union {None}, flag \in Flags :
          AmendStart(c, i, text, flag)
  \/ /\ "forget" \in Offered
     /\ \E i \in spent, force \in Flags : ForgetStart(c, i, force)

Maintenance ==
  /\ "consolidate" \in Offered
  /\ \/ DeleteExpired
     \/ WeekPasses
     \/ \E i \in Ids : PromoteTier(i)

Next ==
  \/ \E c \in Clients : Request(c) \/ Step(c) \/ FailStatement(c)
  \/ Maintenance

Spec == Init /\ [][Next]_vars

\* The event loop and the database run every statement that is issued.
FairSpec == Spec /\ \A c \in Clients : WF_vars(Step(c))
-----------------------------------------------------------------------------
(* Properties.                                                             *)

\* The content hash stays unique, although a remember inserts and an amend
\* rewrites after a duplicate check made in an earlier statement.
OneRowPerContent == \A i, j \in Live : content[i] = content[j] => i = j

\* update()'s transaction never runs past a concurrent forget or collection: from
\* the archived version to the UPDATE its row is there, so the UPDATE cannot
\* silently match no row.
TxnKeepsRow == \A c \in Clients : \A i \in Ids : InTxn(c, i) => i \in Live

Linking(c, p, steps) == pc[c] \in steps /\ <<job[c].from, job[c].to>> = p

Forgetting(i, steps) ==
  \E c \in Clients : pc[c] \in steps /\ job[c].id = i

\* Every row of fragment_links joins two fragments, and both linked_to arrays
\* show it, except while the createLink that made it, or a forget of one end,
\* is between its statements.  Holds as long as no statement fails.
LinksMirrored ==
  \A p \in Ids \X Ids :
    edge[p] # None =>
      /\ {p[1], p[2]} \subseteq Live
      /\ failures = 0 =>
           /\ \/ p[2] \in linkedTo[p[1]]
              \/ \E c \in Clients : Linking(c, p, {"linkFrom"})
              \/ Forgetting(p[2], {"delRow"})
           /\ \/ p[1] \in linkedTo[p[2]]
              \/ \E c \in Clients : Linking(c, p, {"linkFrom", "linkTo"})
              \/ Forgetting(p[1], {"delRow"})

\* A superseded fragment leads to the fragment that superseded it for as long as
\* both exist: whatever other requests did between createLink and the UPDATE of
\* valid_to, there is a link, unless a forget of one end is under way.
SuccessorLinked ==
  failures = 0 =>
    \A i \in retired : successor[i] \in Live =>
      \/ edge[<<i, successor[i]>>] # None
      \/ Forgetting(i, {"delRefs", "delRow"})
      \/ Forgetting(successor[i], {"delRefs", "delRow"})

\* fragment_versions holds every text a fragment has had, except for a fragment
\* that some amend rewrote although it had read an older text; and it holds
\* nothing the fragment never said.
HistoryComplete ==
  \A i \in Live :
    /\ versions[i] \subseteq past[i]
    /\ i \notin stale => past[i] \subseteq versions[i] \union {content[i]}

\* The table implements its abstract specification: statements are atomic changes
\* of the ledger or invisible to it, and a superseded fragment never comes back.
Ledger == INSTANCE FragmentLedger WITH book <- content, expired <- retired

ImplementsLedger == Ledger!LedgerSpec

\* Every operation ends: no request waits for ever for the row locks of another,
\* although two amends of one fragment can wait for each other.
OperationsEnd == \A c \in Clients : pc[c] # "idle" ~> pc[c] = "idle"
-----------------------------------------------------------------------------
(* Claims of the documentation the code does not keep.                     *)

\* README.md: amend keeps the history.
HistoryKeepsEveryText ==
  \A i \in Live : past[i] \subseteq versions[i] \union {content[i]}

\* README.simple.md: the links of a removed fragment are cleaned up with it.
NoDanglingMention ==
  (\A c \in Clients : pc[c] = "idle") => \A i \in Live : linkedTo[i] \subseteq Live

\* The superseded_by chain of getHistory reaches the successor.
ChainRecorded ==
  \A i \in retired : successor[i] \in Live =>
     \/ edge[<<i, successor[i]>>] = "superseded_by"
     \/ \E c \in Clients : pc[c] # "idle"

\* The remember tool: an anchored fragment is never collected.  Every fragment a
\* remember was asked to pin, and no amend unpinned, has is_anchor set.
PinnedIsAnchored == pinned \subseteq anchored

\* remember ... supersedes: the old fragment gives way to a new one.  There is no
\* set of superseded fragments that only lead to each other, which no search
\* would ever return.
SuccessionHasHead ==
  ~ \E S \in SUBSET retired : S # {} /\ \A i \in S : successor[i] \in S

\* update() and delete(): a caller with a key may change the fragments it owns.
OwnerServed ==
  [][\A c \in Clients :
       LET i == job[c].id
       IN ( /\ pc[c] \in {"amendRead", "forgetRead"} /\ pc'[c] # pc[c]
            /\ i \in Live /\ owner[i] = KeyOf[c]
            /\ pc[c] = "forgetRead" /\ i \in permanent => job[c].flag
            /\ failures' = failures )
          => pc'[c] # "idle"]_vars

\* forget: a permanent fragment is deleted only with force.
PermanentNeedsForce ==
  [][\A i \in permanent :
       content'[i] = None =>
         \E c \in Clients : pc[c] = "delRow" /\ job[c].id = i /\ job[c].flag]_vars
=============================================================================
