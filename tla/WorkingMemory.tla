---------------------------- MODULE WorkingMemory ---------------------------
(***************************************************************************)
(* The working memory of one session (lib/memory/FragmentIndex.js): a      *)
(* Redis list that remember with scope "session" appends to and cuts to a  *)
(* token budget, and that reflect reads and clears                         *)
(* (lib/memory/manager/MemorySessionService.js).                           *)
(*                                                                         *)
(* Abstracted: an item is its id; importance is whether it exceeds 0.8;    *)
(* the fragments reflect writes are those it read.  Redis answers, and the *)
(* list's own time to live outlasts the session.                           *)
(***************************************************************************)
EXTENDS Integers, Sequences, SequencesExt

CONSTANTS
  Items,
  Tokens,      \* estimated_tokens
  Protected,   \* items of importance above 0.8
  Clients,
  None,
  MaxTokens,   \* WM_MAX_TOKENS
  MaxReflects  \* bound: reflects of the session

ASSUME WorkingMemoryAssumption ==
  /\ Tokens \in [Items -> Nat \ {0}] /\ Protected \subseteq Items
  /\ None \notin Items /\ MaxTokens \in Nat /\ MaxReflects \in Nat

VARIABLES
  list,     \* frag:wm:<session>
  pc,       \* per client: next Redis command
  item,     \* item[c]: what client c adds
  snap,     \* snap[c]: the list c read last
  pushed,   \* history: all items, in the order they were pushed
  raced,    \* history: items a rewrite dropped without having read them
  ended,    \* history: items pushed before the last clear
  hung,     \* history: items some rewrite under way at a clear had read
  reflected,\* history: items some reflect had read when it cleared
  reflects

vars == <<list, pc, item, snap, pushed, raced, ended, hung, reflected, reflects>>

TypeOK ==
  /\ list \in Seq(Items)
  /\ pc \in [Clients -> {"idle", "push", "read", "rewrite", "reflect", "clear"}]
  /\ item \in [Clients -> Items \union {None}]
  /\ snap \in [Clients -> Seq(Items)]
  /\ pushed \in Seq(Items) /\ IsInjective(pushed)
  /\ ToSet(list) \subseteq ToSet(pushed)
  /\ raced \subseteq Items /\ ended \subseteq Items
  /\ hung \subseteq Items /\ reflected \subseteq Items
  /\ reflects \in 0..MaxReflects

Init ==
  /\ list = <<>> /\ pushed = <<>>
  /\ pc = [c \in Clients |-> "idle"] /\ item = [c \in Clients |-> None]
  /\ snap = [c \in Clients |-> <<>>]
  /\ raced = {} /\ ended = {} /\ hung = {} /\ reflected = {} /\ reflects = 0

Goto(c, step) == pc' = [pc EXCEPT ![c] = step]

Total(s) ==
  LET sum[n \in 0..Len(s)] == IF n = 0 THEN 0 ELSE sum[n - 1] + Tokens[s[n]]
  IN sum[Len(s)]
-----------------------------------------------------------------------------
(* remember with scope "session"                                           *)

AddStart(c, i) ==
  /\ pc[c] = "idle"
  /\ i \notin ToSet(pushed) /\ \A d \in Clients : item[d] # i
  /\ item' = [item EXCEPT ![c] = i]
  /\ Goto(c, "push")
  /\ UNCHANGED <<list, snap, pushed, raced, ended, hung, reflected, reflects>>

Push(c) ==
  /\ pc[c] = "push"
  /\ list' = Append(list, item[c])
  /\ pushed' = Append(pushed, item[c])
  /\ item' = [item EXCEPT ![c] = None]
  /\ Goto(c, "read")
  /\ UNCHANGED <<snap, raced, ended, hung, reflected, reflects>>

\* The loop of _enforceWmBudget: how many unprotected items, oldest first, bring
\* the total under the budget.
Removed(s) ==
  LET scan[n \in 0..Len(s)] ==
        IF n = 0 THEN [total |-> Total(s), count |-> 0]
        ELSE LET past == scan[n - 1]
             IN IF past.total > MaxTokens /\ s[n] \notin Protected
                THEN [total |-> past.total - Tokens[s[n]], count |-> past.count + 1]
                ELSE past
  IN scan[Len(s)].count

\* The filter after the loop: of the first r items the protected ones, and all
\* behind them.
Filtered(s, r) ==
  LET kept[n \in 0..Len(s)] ==
        IF n = 0 THEN <<>>
        ELSE IF n > r \/ s[n] \in Protected THEN Append(kept[n - 1], s[n])
             ELSE kept[n - 1]
  IN kept[Len(s)]

\* Fault: one item more.
DropOneMore(s) == Filtered(s, Removed(s) + 1)

Remaining(s) == Filtered(s, Removed(s))

\* lrange, and the early returns: the budget holds, nothing may be removed.
Read(c) ==
  /\ pc[c] = "read"
  /\ snap' = [snap EXCEPT ![c] = IF Removed(list) > 0 THEN list ELSE <<>>]
  /\ Goto(c, IF Removed(list) > 0 THEN "rewrite" ELSE "idle")
  /\ UNCHANGED <<list, item, pushed, raced, ended, hung, reflected, reflects>>

\* Fault: the key is not deleted before the pushes.
RewriteAppended(c) ==
  /\ pc[c] = "rewrite"
  /\ list' = list \o Remaining(snap[c])
  /\ snap' = [snap EXCEPT ![c] = <<>>]
  /\ Goto(c, "idle")
  /\ UNCHANGED <<item, pushed, raced, ended, hung, reflected, reflects>>

\* The pipeline: del, then a push of each remaining item.
Rewrite(c) ==
  /\ pc[c] = "rewrite"
  /\ list' = Remaining(snap[c])
  /\ raced' = raced \union (ToSet(list) \ ToSet(snap[c]))
  /\ snap' = [snap EXCEPT ![c] = <<>>]
  /\ Goto(c, "idle")
  /\ UNCHANGED <<item, pushed, ended, hung, reflected, reflects>>
-----------------------------------------------------------------------------
(* reflect: the items become fragments, then the list is cleared.          *)

ReflectStart(c) ==
  /\ pc[c] = "idle" /\ reflects < MaxReflects
  /\ reflects' = reflects + 1
  /\ Goto(c, "reflect")
  /\ UNCHANGED <<list, item, snap, pushed, raced, ended, hung, reflected>>

ReflectRead(c) ==
  /\ pc[c] = "reflect"
  /\ snap' = [snap EXCEPT ![c] = list]
  /\ Goto(c, "clear")
  /\ UNCHANGED <<list, item, pushed, raced, ended, hung, reflected, reflects>>

\* Fault: the list outlives the session.
ReflectKeeps(c) ==
  /\ pc[c] = "clear"
  /\ ended' = ToSet(pushed)
  /\ hung' = hung \union UNION {ToSet(snap[d]) : d \in {e \in Clients : pc[e] = "rewrite"}}
  /\ reflected' = reflected \union ToSet(snap[c])
  /\ snap' = [snap EXCEPT ![c] = <<>>]
  /\ Goto(c, "idle")
  /\ UNCHANGED <<list, item, pushed, raced, reflects>>

ReflectClear(c) ==
  /\ pc[c] = "clear"
  /\ list' = <<>>
  /\ ended' = ToSet(pushed)
  /\ hung' = hung \union UNION {ToSet(snap[d]) : d \in {e \in Clients : pc[e] = "rewrite"}}
  /\ reflected' = reflected \union ToSet(snap[c])
  /\ snap' = [snap EXCEPT ![c] = <<>>]
  /\ Goto(c, "idle")
  /\ UNCHANGED <<item, pushed, raced, reflects>>
-----------------------------------------------------------------------------
Next ==
  \E c \in Clients :
    \/ \E i \in Items : AddStart(c, i)
    \/ Push(c) \/ Read(c) \/ Rewrite(c)
    \/ ReflectStart(c) \/ ReflectRead(c) \/ ReflectClear(c)

Spec == Init /\ [][Next]_vars
-----------------------------------------------------------------------------
(* Properties.                                                             *)

\* Whatever rewrites and clears overlap, the list is in the order of the pushes
\* and holds no item twice, so that eviction from its front is eviction of the
\* oldest.
InPushOrder ==
  \A m, n \in DOMAIN list : \A k, l \in DOMAIN pushed :
    (m < n /\ pushed[k] = list[m] /\ pushed[l] = list[n]) => k < l

\* A protected item stays until the session ends; the budget never evicts it.
\* Only a rewrite that had not read it can lose it.
ProtectedKept == (ToSet(pushed) \intersect Protected) \ (ended \union raced) \subseteq ToSet(list)

\* The rewrites of the list, which push and clear overlap, keep its order and its
\* protected items.
ListSound == TypeOK /\ InPushOrder /\ ProtectedKept

\* What the budget does not need is not evicted: a rewrite of the list as it was
\* read leaves more than the budget with the last evicted item put back.
NoNeedlessEviction ==
  [][\A c \in Clients :
       (pc[c] = "rewrite" /\ pc'[c] = "idle" /\ snap[c] = list) =>
         \A m \in DOMAIN list :
           LET evicted(n) == list[n] \notin ToSet(list')
           IN (evicted(m) /\ \A n \in DOMAIN list : evicted(n) => n <= m)
                => Total(list') + Tokens[list[m]] > MaxTokens]_vars

\* A clear is final: items of an ended session come back only through a rewrite
\* that was under way at the clear.
EndedUnlessHung == ToSet(list) \intersect ended \subseteq hung
-----------------------------------------------------------------------------
(* Claims of comments and documents the code does not keep.                *)

\* FragmentIndex.js: beyond the token budget items are removed in FIFO order, all
\* but the protected ones.
BudgetKept ==
  (\A c \in Clients : pc[c] = "idle") =>
    (Total(list) > MaxTokens => ToSet(list) \subseteq Protected)

\* FragmentIndex.js: items of importance above 0.8 are protected.
ProtectedAlways == (ToSet(pushed) \intersect Protected) \ ended \subseteq ToSet(list)

\* Tool description: working memory is gone when the session ends.
EndedGone == ToSet(list) \intersect ended = {}

\* SKILL.md: reflect takes over the working memory of the session.
ReflectTakesAll == ended \intersect Protected \subseteq reflected
=============================================================================
