--------------------------- MODULE FragmentLedger ---------------------------
(***************************************************************************)
(* What the fragment table promises its callers, with no statement, lock   *)
(* or link in sight: a fragment is entered once under an id of its own,    *)
(* no two fragments ever hold the same text, a fragment's text may be      *)
(* rewritten, a retired (superseded) fragment is never brought back, and a *)
(* removed id never returns.                                               *)
(* FragmentStore is shown to implement this module.                        *)
(***************************************************************************)
CONSTANTS Ids, Contents, None

VARIABLES
  book,    \* book[i]: the text held under i, None when there is none
  expired, \* ids of held fragments that were superseded
  spent    \* ids that were ever handed out

ledgerVars == <<book, expired, spent>>

Held == {i \in Ids : book[i] # None}

\* The text c is held by no fragment other than those of S.
FreeBut(c, S) == \A j \in Ids \ S : book[j] # c

LedgerInit ==
  /\ book = [i \in Ids |-> None]
  /\ expired = {}
  /\ spent = {}

Enter(i, c) ==
  /\ i \notin spent
  /\ FreeBut(c, {})
  /\ book' = [book EXCEPT ![i] = c]
  /\ spent' = spent \union {i}
  /\ UNCHANGED expired

Rewrite(i, c) ==
  /\ i \in Held
  /\ FreeBut(c, {i})
  /\ book' = [book EXCEPT ![i] = c]
  /\ UNCHANGED <<expired, spent>>

Expire(i) ==
  /\ i \in Held
  /\ expired' = expired \union {i}
  /\ UNCHANGED <<book, spent>>

Remove(S) ==
  /\ book' = [i \in Ids |-> IF i \in S THEN None ELSE book[i]]
  /\ expired' = expired \ S
  /\ UNCHANGED spent

LedgerNext ==
  \/ \E i \in Ids, c \in Contents : Enter(i, c) \/ Rewrite(i, c)
  \/ \E i \in Ids : Expire(i)
  \/ \E S \in SUBSET Ids : Remove(S)

LedgerSpec == LedgerInit /\ [][LedgerNext]_ledgerVars
=============================================================================
