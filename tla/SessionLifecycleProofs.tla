------------------------ MODULE SessionLifecycleProofs ------------------------
(***************************************************************************)
(* Proofs about SessionLifecycle, for any sessions, connections, sweeps    *)
(* and calls, any number of requests, failures, outages and restarts: that *)
(* a closed session stays closed, which of its calls are in a summary and  *)
(* when one is in two, and that an open stream is held by its session.     *)
(***************************************************************************)
EXTENDS SessionLifecycle, TLAPS

-----------------------------------------------------------------------------
(* The invariant: who waits for which reply, and what the closures hold.    *)

Ops == {"lookup", "saved", "activity", "record", "mark", "marked", "unread", "deleted", "lost"}
Closing5 == {"activity", "summary", "mark", "marked", "close"}

Entries == [op : Ops, by : Procs \union {None}, s : Sessions, call : AllCalls \union {None},
            log : Logs, exp : Nat \union {None}]
Jobs == [kind : Kinds \union {"initialize", "close", None}, s : Sessions \union {None},
         call : AllCalls \union {None}, own : BOOLEAN, snap : SUBSET AllCalls, ok : BOOLEAN,
         todo : SUBSET Sessions, at : Nat]

\* TypeOK without its clause about stray streams, and the closures.
MapTyped ==
  /\ now \in 0 .. MaxTime
  /\ mem \in [Sessions -> Nat \union {None}]
  /\ copy \in [Streamable -> Nat \union {None}]
  /\ born \subseteq {s \in used : mem[s] # None}
  /\ up \in BOOLEAN
  /\ held \in [Streamable -> Requests \union {None}]
  /\ used \subseteq Sessions
  /\ \A s \in Sessions : mem[s] # None => s \in used

LogTyped ==
  /\ log \in [Sessions -> Logs]
  /\ \A s \in Sessions : log[s].calls \subseteq CallsOf(s)
  /\ covered \subseteq AllCalls /\ late \subseteq AllCalls

ProcTyped == pc \in [Procs -> PcValues] /\ job \in [Procs -> Jobs]

Typed == MapTyped /\ LogTyped /\ ProcTyped

\* What a process at a step is, and has in its closure.
Placed(p) ==
  /\ pc[p] \in {"lookup", "save", "tool", "stream"} => p \in Requests
  /\ pc[p] = "sweep" => p \in Sweeps
  /\ pc[p] \in {"closing", "drain", "exited"} => p = Shutdown
  /\ pc[p] \in {"lookup", "save", "tool", "stream", "delete"} \union Closing5 => job[p].s \in used
  /\ pc[p] \in {"lookup", "save", "delete"} => job[p].s \in Streamable
  /\ pc[p] = "lookup" => job[p].kind \in Kinds
  /\ pc[p] = "save" => job[p].kind \in Kinds \union {"initialize"}
  /\ pc[p] = "tool" => job[p].kind \in {"call", "reflect"}
  /\ pc[p] \in {"lookup", "save", "tool"} /\ job[p].kind \in {"call", "reflect"}
       => job[p].call \in CallsOf(job[p].s)
  /\ pc[p] \in {"tool", "summary"} => job[p].snap \subseteq CallsOf(job[p].s)

\* The replies that a process at step l may be waiting for.
Fits(op, l) ==
  \/ op = "lookup" /\ l = "lookup"
  \/ op = "saved" /\ l = "save"
  \/ op \in {"activity", "unread"} /\ l = "activity"
  \/ op = "mark" /\ l = "mark"
  \/ op = "marked" /\ l \in {"mark", "marked"}
  \/ op = "deleted" /\ l = "delete"

Sound(e) ==
  /\ e.s \in used
  /\ e.log.calls \subseteq CallsOf(e.s)
  /\ e.by = None => e.op \in {"record", "mark", "lost"}
  /\ e.by # None => Fits(e.op, pc[e.by]) /\ job[e.by].s = e.s
  /\ e.op = "record" => e.call \in CallsOf(e.s)

\* No process waits for two replies.
OneReply(w) == \A i, j \in DOMAIN w : w[i].by # None /\ w[i].by = w[j].by => i = j

WireOK ==
  /\ wire \in Seq(Entries)
  /\ \A i \in DOMAIN wire : Sound(wire[i])
  /\ OneReply(wire)

Control == Typed /\ (\A p \in Procs : Placed(p)) /\ WireOK

-----------------------------------------------------------------------------
(* Closed sessions.                                                         *)

\* A reply that would bring session s back; there is none in w; or p, which is about
\* to close s, read its activity after each of them.
Restores(e, s) == e.op = "lookup" /\ e.s = s /\ e.exp # None
Clear(w, s) == \A i \in DOMAIN w : ~Restores(w[i], s)
Behind(p, w, s) ==
  \A i \in DOMAIN w : Restores(w[i], s) =>
    \E j \in DOMAIN w : j > i /\ w[j].op = "activity" /\ w[j].by = p

Closes(p, s) == pc[p] \in Closing5 /\ job[p].s = s

GoneInv ==
  /\ gone \subseteq used \ failed
  /\ \A s \in gone : mem[s] = None /\ (s \in Streamable => copy[s] = None) /\ Clear(wire, s)
  /\ \A s \in Streamable \ failed, p \in Procs :
       Closes(p, s) => (mem[s] # None \/ copy[s] = None) /\ Behind(p, wire, s)
  /\ ~up => \A s \in Sessions : Clear(wire, s)

-----------------------------------------------------------------------------
(* Streams.                                                                 *)

\* The stream a session holds is open, and was opened through the session of the Map.
HeldOpen ==
  \A s \in Streamable : held[s] # None =>
    pc[held[s]] = "stream" /\ job[held[s]].s = s /\ job[held[s]].own

\* A session once restored, or looked up to be, is never again one this process made.
Owned ==
  \A p \in Procs : job[p].s \in born => /\ pc[p] # "lookup"
                                        /\ pc[p] \in Closing5 => job[p].own

Attached(p) == job[p].s \in Streamable => job[p].s \in born /\ held[job[p].s] = p
StreamInv ==
  /\ stray \subseteq {p \in Requests : pc[p] = "stream"}
  /\ HeldOpen
  /\ Owned
  /\ \A p \in Requests : pc[p] = "stream" /\ p \notin stray => mem[job[p].s] # None /\ Attached(p)

-----------------------------------------------------------------------------
(* Calls.                                                                   *)

Told == covered \union late

EntryTold(e) ==
  /\ e.op = "mark" \/ e.log.reflected => e.log.calls \subseteq Told
  /\ e.op = "activity" => log[e.s].calls \subseteq e.log.calls \union Told

ProcTold(p) ==
  /\ pc[p] = "summary" => log[job[p].s].calls \subseteq job[p].snap \union Told
  /\ pc[p] = "tool" /\ job[p].kind = "reflect"
       => log[job[p].s].calls \subseteq job[p].snap \union Told
  /\ pc[p] \in {"mark", "marked"} => log[job[p].s].calls \subseteq Told
  /\ pc[p] = "close" /\ job[p].ok => log[job[p].s].calls \subseteq Told

ToldInv ==
  /\ \A s \in ended : s \in used /\ mem[s] = None /\ log[s].calls \subseteq Told
  /\ \A s \in Sessions : log[s].reflected => log[s].calls \subseteq Told
  /\ \A i \in DOMAIN wire : EntryTold(wire[i])
  /\ \A p \in Procs : ProcTold(p)

\* p is making a summary of s; the record of s is marked or will be.
Covers(p, s) ==
  /\ job[p].s = s
  /\ \/ pc[p] \in {"activity", "summary", "mark"}
     \/ pc[p] = "tool" /\ job[p].kind = "reflect"

Marking(w, s) == \E i \in DOMAIN w : w[i].op = "mark" /\ w[i].s = s
Settled(s) == log[s].reflected \/ Marking(wire, s)

EntryOnce(e) ==
  /\ e.op = "record" /\ ({e.call} \union e.log.calls) \intersect covered # {}
       => e.log.reflected \/ Settled(e.s)
  /\ e.op = "activity" /\ e.log.calls \intersect covered # {} => e.log.reflected

ProcOnce(p) ==
  /\ pc[p] = "summary" => job[p].snap \intersect covered = {}
  /\ pc[p] \in {"lookup", "save", "tool"} /\ job[p].kind \in {"call", "reflect"}
       => (job[p].call \in covered => Settled(job[p].s))

SessionOnce(s) ==
  /\ \A p, q \in Procs : Covers(p, s) /\ Covers(q, s) => p = q
  /\ log[s].calls \intersect covered # {} => Settled(s)
  /\ \A i \in DOMAIN wire : wire[i].s = s => EntryOnce(wire[i])
  /\ \A p \in Procs : job[p].s = s => ProcOnce(p)

OnceInv ==
  /\ repeated \subseteq excused
  /\ \A s \in Sessions \ excused : SessionOnce(s)
-----------------------------------------------------------------------------
(* The queue of replies.                                                    *)

\* What is left of the queue once the reply at its head was taken, or if none was;
\* nothing in it is for p.
Rest(w) == w = wire \/ (wire # <<>> /\ w = Tail(wire))
Left(p, w) == Rest(w) /\ \A i \in DOMAIN w : w[i].by # p

\* The processes other than p go on with what they did, except for ended streams.
Beside(p) ==
  \A q \in Procs \ {p} : \/ pc'[q] = pc[q] /\ job'[q] = job[q]
                         \/ pc[q] = "stream" /\ pc'[q] = "idle" /\ job'[q] = NoJob
Alone(p) == \A q \in Procs \ {p} : pc'[q] = pc[q] /\ job'[q] = job[q]

LEMMA NoneIsNoProc == None \notin Procs /\ None \notin Sessions /\ None \notin AllCalls /\ None \notin Nat
BY SessionAssumption DEF SessionAssumption

LEMMA Pushed ==
  ASSUME NEW w \in Seq(Entries), NEW a \in Entries
  PROVE  /\ Append(w, a) \in Seq(Entries)
         /\ Len(w) + 1 \notin DOMAIN w
         /\ DOMAIN Append(w, a) = DOMAIN w \union {Len(w) + 1}
         /\ \A i \in DOMAIN w : Append(w, a)[i] = w[i] /\ i \in Nat /\ i < Len(w) + 1
         /\ Append(w, a)[Len(w) + 1] = a /\ Len(w) + 1 \in Nat
<1>1. DOMAIN w = 1..Len(w) /\ Len(w) \in Nat
  OBVIOUS
<1>2. DOMAIN Append(w, a) = 1..(Len(w) + 1)
  OBVIOUS
<1>3. 1..(Len(w) + 1) = 1..Len(w) \union {Len(w) + 1}
  BY <1>1
<1>4. /\ \A i \in 1..Len(w) : Append(w, a)[i] = w[i]
      /\ Append(w, a)[Len(w) + 1] = a
  OBVIOUS
<1> QED  BY <1>1, <1>2, <1>3, <1>4

LEMMA Popped ==
  ASSUME NEW w \in Seq(Entries), w # <<>>
  PROVE  /\ Head(w) \in Entries /\ Head(w) = w[1] /\ 1 \in DOMAIN w
         /\ Tail(w) \in Seq(Entries)
         /\ \A i \in DOMAIN Tail(w) : i \in Nat /\ i >= 1 /\ i + 1 \in DOMAIN w
                                        /\ Tail(w)[i] = w[i + 1]
         /\ \A i \in DOMAIN w : i = 1 \/ (i - 1 \in DOMAIN Tail(w) /\ Tail(w)[i - 1] = w[i])
<1>1. DOMAIN w = 1..Len(w) /\ Len(w) \in Nat /\ Len(w) >= 1
  OBVIOUS
<1>2. /\ Tail(w) \in Seq(Entries) /\ Len(Tail(w)) = Len(w) - 1
      /\ \A i \in 1..(Len(w) - 1) : Tail(w)[i] = w[i + 1]
  BY <1>1
<1>3. DOMAIN Tail(w) = 1..(Len(w) - 1)
  BY <1>1, <1>2
<1>4. \A i \in DOMAIN Tail(w) : i \in Nat /\ i >= 1 /\ i + 1 \in DOMAIN w /\ Tail(w)[i] = w[i + 1]
  BY <1>1, <1>2, <1>3
<1>5. \A i \in DOMAIN w : i = 1 \/ (i - 1 \in DOMAIN Tail(w) /\ Tail(w)[i - 1] = w[i])
  <2> SUFFICES ASSUME NEW i \in DOMAIN w, i # 1
               PROVE  i - 1 \in DOMAIN Tail(w) /\ Tail(w)[i - 1] = w[i]
    OBVIOUS
  <2>1. i - 1 \in 1..(Len(w) - 1) /\ (i - 1) + 1 = i
    BY <1>1
  <2> QED  BY <2>1, <1>2, <1>3
<1>6. Head(w) = w[1] /\ 1 \in DOMAIN w /\ Head(w) \in Entries
  BY <1>1
<1> QED  BY <1>2, <1>4, <1>5, <1>6

\* Every reply that is left was in the queue before.
LEMMA RestWas ==
  ASSUME Control, NEW w, Rest(w)
  PROVE  /\ w \in Seq(Entries)
         /\ \A i \in DOMAIN w : w[i] \in Entries /\ Sound(w[i])
                                  /\ \E k \in DOMAIN wire : w[i] = wire[k]
         /\ OneReply(w)
<1>1. wire \in Seq(Entries) /\ (\A i \in DOMAIN wire : Sound(wire[i])) /\ OneReply(wire)
  BY DEF Control, WireOK
<1>2. \A i \in DOMAIN wire : wire[i] \in Entries
  BY <1>1
<1>3. CASE w = wire
  BY <1>1, <1>2, <1>3
<1>4. CASE wire # <<>> /\ w = Tail(wire)
  <2>1. /\ w \in Seq(Entries)
        /\ \A i \in DOMAIN w : i \in Nat /\ i + 1 \in DOMAIN wire /\ w[i] = wire[i + 1]
    BY <1>1, <1>4, Popped
  <2>2. \A i \in DOMAIN w : w[i] \in Entries /\ Sound(w[i]) /\ \E k \in DOMAIN wire : w[i] = wire[k]
    BY <2>1, <1>1, <1>2
  <2>3. OneReply(w)
    <3> SUFFICES ASSUME NEW i \in DOMAIN w, NEW j \in DOMAIN w, w[i].by # None, w[i].by = w[j].by
                 PROVE  i = j
      BY DEF OneReply
    <3>1. i + 1 = j + 1
      BY <2>1, <1>1 DEF OneReply
    <3> QED  BY <3>1, <2>1
  <2> QED  BY <2>1, <2>2, <2>3
<1> QED  BY <1>3, <1>4 DEF Rest

\* A process that waits for nothing, and one that just got its reply.
LEMMA NotWaiting ==
  ASSUME Control, NEW p \in Procs,
         pc[p] \notin {"lookup", "save", "activity", "mark", "marked", "delete"}
  PROVE  Left(p, wire)
<1> SUFFICES ASSUME NEW i \in DOMAIN wire, wire[i].by = p  PROVE FALSE
  BY DEF Left, Rest
<1>1. Sound(wire[i]) /\ p # None
  BY NoneIsNoProc DEF Control, WireOK
<1> QED  BY <1>1 DEF Sound, Fits

LEMMA Answered ==
  ASSUME Control, wire # <<>>, Head(wire).by # None
  PROVE  Left(Head(wire).by, Tail(wire))
<1>1. wire \in Seq(Entries) /\ OneReply(wire)
  BY DEF Control, WireOK
<1>2. /\ Head(wire) = wire[1] /\ 1 \in DOMAIN wire
      /\ \A i \in DOMAIN Tail(wire) : i \in Nat /\ i >= 1 /\ i + 1 \in DOMAIN wire
                                        /\ Tail(wire)[i] = wire[i + 1]
  BY <1>1, Popped
<1> SUFFICES ASSUME NEW i \in DOMAIN Tail(wire), Tail(wire)[i].by = Head(wire).by  PROVE FALSE
  BY DEF Left, Rest
<1>3. wire[i + 1].by = wire[1].by /\ i + 1 \in DOMAIN wire /\ wire[1].by # None
  BY <1>2
<1>4. i + 1 = 1
  BY <1>1, <1>2, <1>3 DEF OneReply
<1> QED  BY <1>2, <1>4

\* What the reply at the head of the queue is.
LEMMA HeadSound ==
  ASSUME Control, wire # <<>>
  PROVE  /\ Head(wire) \in Entries /\ Sound(Head(wire)) /\ Rest(Tail(wire))
         /\ 1 \in DOMAIN wire /\ Head(wire) = wire[1]
         /\ Head(wire).op \notin {"record", "mark", "lost"} => Head(wire).by \in Procs
         /\ Head(wire).by # None => Head(wire).by \in Procs
<1>1. Head(wire) \in Entries /\ Head(wire) = wire[1] /\ 1 \in DOMAIN wire
  BY Popped DEF Control, WireOK
<1>2. Sound(Head(wire))
  BY <1>1 DEF Control, WireOK
<1>3. Head(wire).by \in Procs \union {None}
  BY <1>1 DEF Entries
<1> QED  BY <1>1, <1>2, <1>3 DEF Sound, Rest

-----------------------------------------------------------------------------
(* What a step does to the processes.                                       *)

LEMMA GotoDoes ==
  ASSUME ProcTyped, NEW p \in Procs, NEW l \in PcValues, NEW j \in Jobs, Goto(p, l, j)
  PROVE  /\ ProcTyped'
         /\ pc'[p] = l
         /\ l \notin {"idle", "sweep", "closing"} => job'[p] = j
         /\ l \in {"idle", "sweep", "closing"} => job'[p] = [NoJob EXCEPT !.todo = j.todo, !.at = j.at]
         /\ \A q \in Procs \ {p} : pc'[q] = pc[q] /\ job'[q] = job[q]
         /\ Beside(p)
<1> DEFINE k == IF l \in {"idle", "sweep", "closing"}
                THEN [NoJob EXCEPT !.todo = j.todo, !.at = j.at] ELSE j
<1>1. j.todo \in SUBSET Sessions /\ j.at \in Nat
  BY DEF Jobs
<1>2. [NoJob EXCEPT !.todo = j.todo, !.at = j.at] \in Jobs
  BY <1>1 DEF NoJob, Jobs
<1>3. k \in Jobs
  BY <1>2
<1>4. pc' = [pc EXCEPT ![p] = l] /\ job' = [job EXCEPT ![p] = k]
  BY DEF Goto
<1> HIDE DEF k
<1>5. /\ pc' \in [Procs -> PcValues] /\ pc'[p] = l /\ job' \in [Procs -> Jobs] /\ job'[p] = k
      /\ \A q \in Procs \ {p} : pc'[q] = pc[q] /\ job'[q] = job[q]
  BY <1>3, <1>4 DEF ProcTyped
<1> QED  BY <1>5 DEF ProcTyped, Beside, k

LEMMA NoJobTyped ==
  /\ NoJob \in Jobs /\ NoJob.s = None /\ NoJob.call = None /\ NoJob.snap = {}
  /\ NoJob.todo = {} /\ NoJob.at = 0 /\ NoJob.own = FALSE
BY DEF NoJob, Jobs

\* The queue after a step of p that took nothing but p's reply and added at most one.
LEMMA WireStep ==
  ASSUME Control, NEW p \in Procs, NEW w, Left(p, w), Beside(p), used \subseteq used',
         \/ wire' = w
         \/ \E a \in Entries : wire' = Append(w, a) /\ Sound(a)' /\ a.by \in {p, None}
  PROVE  WireOK'
<1>1. /\ w \in Seq(Entries) /\ OneReply(w)
      /\ \A i \in DOMAIN w : w[i] \in Entries /\ Sound(w[i])
  BY RestWas DEF Left
<1>2. ASSUME NEW i \in DOMAIN w  PROVE Sound(w[i])'
  <2>1. w[i].by # p /\ w[i].by \in Procs \union {None} /\ Sound(w[i])
    BY <1>1 DEF Left, Entries
  <2>2. w[i].by # None => pc'[w[i].by] = pc[w[i].by] /\ job'[w[i].by] = job[w[i].by]
    BY <2>1 DEF Sound, Fits, Beside
  <2>3. w[i].s \in used'
    BY <2>1 DEF Sound
  <2> QED  BY <2>1, <2>2, <2>3 DEF Sound
<1>3. CASE wire' = w
  BY <1>1, <1>2, <1>3 DEF WireOK, OneReply
<1>4. ASSUME NEW a \in Entries, wire' = Append(w, a), Sound(a)', a.by \in {p, None}
      PROVE  WireOK'
  <2>1. /\ wire' \in Seq(Entries) /\ Len(w) + 1 \notin DOMAIN w
        /\ DOMAIN wire' = DOMAIN w \union {Len(w) + 1}
        /\ \A i \in DOMAIN w : wire'[i] = w[i]
        /\ wire'[Len(w) + 1] = a
    BY <1>1, <1>4, Pushed
  <2>2. \A i \in DOMAIN wire' : Sound(wire[i])'
    <3> SUFFICES ASSUME NEW i \in DOMAIN wire' PROVE Sound(wire[i])'
      OBVIOUS
    <3>1. CASE i \in DOMAIN w
      <4>1. wire'[i] = w[i]  BY <2>1, <3>1
      <4> QED  BY <4>1, <1>2, <3>1
    <3>2. CASE i = Len(w) + 1
      <4>1. wire'[i] = a  BY <2>1, <3>2
      <4> QED  BY <4>1, <1>4
    <3> QED  BY <3>1, <3>2, <2>1
  <2>3. OneReply(wire)'
    <3> SUFFICES ASSUME NEW i \in DOMAIN wire', NEW j \in DOMAIN wire',
                        wire'[i].by # None, wire'[i].by = wire'[j].by
                 PROVE  i = j
      BY DEF OneReply
    <3>1. CASE i \in DOMAIN w /\ j \in DOMAIN w
      <4>1. wire'[i] = w[i] /\ wire'[j] = w[j]  BY <2>1, <3>1
      <4> QED  BY <4>1, <3>1, <1>1 DEF OneReply
    <3>2. CASE i \in DOMAIN w /\ j = Len(w) + 1
      <4>1. wire'[i] = w[i] /\ wire'[j] = a  BY <2>1, <3>2
      <4> QED  BY <4>1, <3>2, <1>4 DEF Left
    <3>3. CASE j \in DOMAIN w /\ i = Len(w) + 1
      <4>1. wire'[j] = w[j] /\ wire'[i] = a  BY <2>1, <3>3
      <4> QED  BY <4>1, <3>3, <1>4 DEF Left
    <3> QED  BY <3>1, <3>2, <3>3, <2>1
  <2> QED  BY <2>1, <2>2, <2>3 DEF WireOK
<1> QED  BY <1>3, <1>4

\* What is known of the other processes stays true.
LEMMA PlacedStep ==
  ASSUME Control, NEW p \in Procs, Beside(p), used \subseteq used', Placed(p)'
  PROVE  \A q \in Procs : Placed(q)'
<1> SUFFICES ASSUME NEW q \in Procs, q # p  PROVE Placed(q)'
  OBVIOUS
<1>1. Placed(q)
  BY DEF Control
<1>2. CASE pc'[q] = pc[q] /\ job'[q] = job[q]
  BY <1>1, <1>2 DEF Placed
<1>3. CASE pc'[q] = "idle"
  BY <1>3 DEF Placed, Closing5
<1> QED  BY <1>2, <1>3 DEF Beside

LEMMA ControlStep ==
  ASSUME Control, NEW p \in Procs, NEW w, Left(p, w), Beside(p), used \subseteq used',
         Typed', Placed(p)',
         \/ wire' = w
         \/ \E a \in Entries : wire' = Append(w, a) /\ Sound(a)' /\ a.by \in {p, None}
  PROVE  Control'
BY WireStep, PlacedStep DEF Control
-----------------------------------------------------------------------------
(* Beginning to close a session, and ending it.                             *)

\* p begins to close session s.
Begun(p, s, w) ==
  /\ Alone(p) /\ job'[p].s = s /\ job'[p].own = (s \in born) /\ job'[p].call = None
  /\ \/ /\ up /\ pc'[p] = "activity"
        /\ wire' = Append(w, Entry("activity", p, s, None, log[s], None))
        /\ excused' = IF Covering(s) THEN excused \union {s} ELSE excused
     \/ /\ ~up /\ pc'[p] = "close" /\ ~job'[p].ok
        /\ wire' = w /\ excused' = excused

LEMMA OwnJob ==
  ASSUME NEW j \in Jobs, NEW b \in BOOLEAN
  PROVE  /\ [j EXCEPT !.own = b, !.kind = "close", !.call = None] \in Jobs
         /\ [j EXCEPT !.own = b, !.kind = "close", !.call = None].s = j.s
         /\ [j EXCEPT !.own = b, !.kind = "close", !.call = None].own = b
         /\ [j EXCEPT !.own = b, !.kind = "close", !.call = None].call = None
BY DEF Jobs

LEMMA NotOk ==
  ASSUME NEW j \in Jobs
  PROVE  /\ [j EXCEPT !.ok = FALSE] \in Jobs /\ [j EXCEPT !.ok = FALSE].s = j.s
         /\ [j EXCEPT !.ok = FALSE].own = j.own /\ [j EXCEPT !.ok = FALSE].call = j.call
         /\ [j EXCEPT !.ok = FALSE].ok = FALSE
BY DEF Jobs

LEMMA EntryTyped ==
  ASSUME NEW op \in Ops, NEW p \in Procs \union {None}, NEW s \in Sessions,
         NEW c \in AllCalls \union {None}, NEW l \in Logs, NEW e \in Nat \union {None}
  PROVE  /\ Entry(op, p, s, c, l, e) \in Entries
         /\ Entry(op, p, s, c, l, e).op = op /\ Entry(op, p, s, c, l, e).by = p
         /\ Entry(op, p, s, c, l, e).s = s /\ Entry(op, p, s, c, l, e).call = c
         /\ Entry(op, p, s, c, l, e).log = l /\ Entry(op, p, s, c, l, e).exp = e
BY DEF Entry, Entries

LEMMA NoLogTyped == NoLog \in Logs /\ NoLog.calls = {} /\ NoLog.reflected = FALSE
BY DEF NoLog, Logs

LEMMA AwaitTyped ==
  ASSUME NEW op \in Ops, NEW p \in Procs, NEW s \in Sessions
  PROVE  /\ Await(op, p, s) \in Entries
         /\ Await(op, p, s).op = op /\ Await(op, p, s).by = p /\ Await(op, p, s).s = s
         /\ Await(op, p, s).call = None /\ Await(op, p, s).log = NoLog
         /\ Await(op, p, s).exp = None
<1>1. None \in AllCalls \union {None} /\ None \in Nat \union {None} /\ p \in Procs \union {None}
  OBVIOUS
<1>2. Await(op, p, s) = [op |-> op, by |-> p, s |-> s, call |-> None, log |-> NoLog, exp |-> None]
  BY DEF Await, Entry
<1> QED  BY <1>1, <1>2, NoLogTyped DEF Entries

\* The record of a session.
LEMMA LogOf ==
  ASSUME Control, NEW s \in Sessions
  PROVE  log[s] \in Logs /\ log[s].calls \subseteq CallsOf(s) /\ log[s].reflected \in BOOLEAN
BY DEF Control, Typed, LogTyped, Logs

LEMMA BeginDoes ==
  ASSUME Control, NEW p \in Procs, NEW j \in Jobs, NEW w, Left(p, w), j.s \in used,
         used' = used, BeginClose(p, j, w)
  PROVE  /\ ProcTyped' /\ Beside(p) /\ WireOK' /\ Placed(p)'
         /\ Begun(p, j.s, w)
<1> DEFINE own == [j EXCEPT !.own = j.s \in born, !.kind = "close", !.call = None]
           a == Entry("activity", p, j.s, None, log[j.s], None)
<1>b. (j.s \in born) \in BOOLEAN
  OBVIOUS
<1>1. own \in Jobs /\ own.s = j.s /\ own.own = (j.s \in born) /\ own.call = None
  BY <1>b, OwnJob
<1>2. j.s \in Sessions /\ ProcTyped
  BY DEF Control, Typed, MapTyped
<1>3. log[j.s] \in Logs /\ log[j.s].calls \subseteq CallsOf(j.s)
  BY <1>2, LogOf
<1>4. CASE up
  <2>1. /\ wire' = Append(w, a)
        /\ excused' = IF Covering(j.s) THEN excused \union {j.s} ELSE excused
        /\ Goto(p, "activity", own)
    BY <1>4 DEF BeginClose
  <2> HIDE DEF own
  <2>2. Goto(p, "activity", own) /\ "activity" \in PcValues
    BY <2>1 DEF PcValues
  <2>3. ProcTyped' /\ pc'[p] = "activity" /\ job'[p] = own /\ Alone(p) /\ Beside(p)
    BY <1>1, <1>2, <2>2, GotoDoes DEF Alone, PcValues
  <2>4. PICK b \in Entries : b = a
    BY <1>2, <1>3, EntryTyped DEF Ops
  <2>5. b.op = "activity" /\ b.by = p /\ b.s = j.s /\ b.log = log[j.s]
    BY <2>4 DEF Entry
  <2>6. Sound(b)'
    BY <1>1, <1>3, <2>3, <2>5, NoneIsNoProc DEF Sound, Fits
  <2>8. wire' = Append(w, b)
    BY <2>1, <2>4
  <2>9. WireOK'
    BY <2>3, <2>5, <2>6, <2>8, WireStep
  <2>7. Placed(p)'
    BY <1>1, <2>3 DEF Placed
  <2> QED  BY <1>1, <1>4, <2>1, <2>3, <2>9, <2>7 DEF Begun
<1>5. CASE ~up
  <2> DEFINE k == [own EXCEPT !.ok = FALSE]
  <2>1. wire' = w /\ excused' = excused /\ Goto(p, "close", k)
    BY <1>5 DEF BeginClose
  <2> HIDE DEF own
  <2>2. k \in Jobs /\ k.s = j.s /\ k.own = (j.s \in born) /\ k.call = None /\ k.ok = FALSE
    BY <1>1, NotOk
  <2> HIDE DEF k
  <2>3. ProcTyped' /\ pc'[p] = "close" /\ job'[p] = k /\ Alone(p) /\ Beside(p)
    BY <1>2, <2>1, <2>2, GotoDoes DEF Alone, PcValues
  <2>4. WireOK'
    BY <2>1, <2>3, WireStep
  <2>5. Placed(p)'
    BY <2>2, <2>3 DEF Placed
  <2> QED  BY <1>5, <2>1, <2>2, <2>3, <2>4, <2>5 DEF Begun
<1> QED  BY <1>4, <1>5
\* A session that is found is closed, or extended and answered for.
LEMMA FoundDoes ==
  ASSUME Control, NEW p \in Requests, NEW j \in Jobs, NEW e \in Nat, NEW w, Left(p, w),
         j.s \in used \intersect Streamable, j.kind \in Kinds,
         j.kind \in {"call", "reflect"} => j.call \in CallsOf(j.s),
         used' = used, Found(p, j, e, w)
  PROVE  /\ ProcTyped' /\ Beside(p) /\ WireOK' /\ Placed(p)'
         /\ mem' \in [Sessions -> Nat \union {None}] /\ mem'[j.s] # None
         /\ \A s \in Sessions \ {j.s} : mem'[s] = mem[s]
         /\ copy' \in [Streamable -> Nat \union {None}]
         /\ \A s \in Streamable \ {j.s} : copy'[s] = copy[s]
         /\ \/ now > e /\ Begun(p, j.s, w) /\ copy' = copy
            \/ /\ Alone(p) /\ pc'[p] = "save" /\ job'[p] = j /\ excused' = excused
               /\ wire' = Append(w, Await("saved", p, j.s))
<1>1. j.s \in Sessions /\ p \in Procs /\ now \in Nat /\ TTL \in Nat /\ now + TTL \in Nat
  BY SessionAssumption DEF SessionAssumption, Control, Typed, MapTyped, Sessions, Procs
<1>2. /\ mem \in [Sessions -> Nat \union {None}] /\ copy \in [Streamable -> Nat \union {None}]
      /\ None \notin Nat /\ ProcTyped
  BY NoneIsNoProc DEF Control, Typed, MapTyped
<1>3. CASE now > e
  <2>1. mem' = [mem EXCEPT ![j.s] = e] /\ BeginClose(p, j, w) /\ copy' = copy
    BY <1>3 DEF Found
  <2>2. ProcTyped' /\ Beside(p) /\ WireOK' /\ Placed(p)' /\ Begun(p, j.s, w)
    BY <1>1, <2>1, BeginDoes
  <2> QED  BY <1>1, <1>2, <1>3, <2>1, <2>2
<1>4. CASE ~(now > e)
  <2>1. /\ mem' = [mem EXCEPT ![j.s] = now + TTL]
        /\ copy' = IF up THEN [copy EXCEPT ![j.s] = now + TTL] ELSE copy
        /\ wire' = Append(w, Await("saved", p, j.s))
        /\ Goto(p, "save", j) /\ excused' = excused
    BY <1>4 DEF Found
  <2>2. /\ mem' \in [Sessions -> Nat \union {None}] /\ mem'[j.s] # None
        /\ \A s \in Sessions \ {j.s} : mem'[s] = mem[s]
        /\ copy' \in [Streamable -> Nat \union {None}]
        /\ \A s \in Streamable \ {j.s} : copy'[s] = copy[s]
    BY <1>1, <1>2, <2>1
  <2>3. ProcTyped' /\ pc'[p] = "save" /\ job'[p] = j /\ Alone(p) /\ Beside(p)
    BY <1>1, <1>2, <2>1, GotoDoes DEF Alone, PcValues
  <2>4. PICK a \in Entries : a = Await("saved", p, j.s)
    BY <1>1, AwaitTyped DEF Ops
  <2>5. a.op = "saved" /\ a.by = p /\ a.s = j.s /\ a.log = NoLog
    BY <2>4 DEF Await, Entry
  <2>6. Sound(a)'
    BY <1>1, <2>3, <2>5, NoneIsNoProc, NoLogTyped DEF Sound, Fits
  <2>7. WireOK'
    BY <1>1, <2>1, <2>3, <2>4, <2>5, <2>6, WireStep
  <2>8. Placed(p)'
    BY <2>3 DEF Placed, Closing5
  <2> QED  BY <2>1, <2>2, <2>3, <2>7, <2>8
<1> QED  BY <1>3, <1>4

\* A tool starts.
LEMMA StartDoes ==
  ASSUME Control, NEW p \in Requests, NEW j \in Jobs, j.s \in used,
         j.kind \in {"call", "reflect"}, j.call \in CallsOf(j.s),
         used' = used, StartTool(p, j)
  PROVE  /\ ProcTyped' /\ Alone(p) /\ Beside(p) /\ Placed(p)'
         /\ pc'[p] = "tool" /\ job'[p].s = j.s /\ job'[p].kind = j.kind
         /\ job'[p].call = j.call /\ job'[p].snap = log[j.s].calls /\ job'[p].own = j.own
         /\ excused' = IF j.kind = "reflect" /\ Covering(j.s)
                       THEN excused \union {j.s} ELSE excused
<1> DEFINE k == [j EXCEPT !.snap = log[j.s].calls]
<1>1. j.s \in Sessions /\ p \in Procs /\ ProcTyped
  BY DEF Control, Typed, MapTyped, Procs
<1>2. log[j.s].calls \subseteq CallsOf(j.s) /\ log[j.s].calls \subseteq AllCalls
  BY <1>1, LogOf DEF CallsOf, AllCalls
<1>3. /\ k \in Jobs /\ k.s = j.s /\ k.kind = j.kind /\ k.call = j.call
      /\ k.snap = log[j.s].calls /\ k.own = j.own
  BY <1>2 DEF Jobs
<1>4. Goto(p, "tool", k)
  BY DEF StartTool
<1>5. excused' = IF j.kind = "reflect" /\ Covering(j.s) THEN excused \union {j.s} ELSE excused
  BY DEF StartTool
<1> HIDE DEF k
<1>6. ProcTyped' /\ pc'[p] = "tool" /\ job'[p] = k /\ Alone(p) /\ Beside(p)
  BY <1>1, <1>3, <1>4, GotoDoes DEF Alone, PcValues
<1>7. Placed(p)'
  BY <1>2, <1>3, <1>6 DEF Placed, Closing5
<1> QED  BY <1>3, <1>5, <1>6, <1>7

\* The end of a session: the streams it ends.
LEMMA EndedOpen ==
  ASSUME Control, HeldOpen, NEW j \in Jobs, j.s \in used
  PROVE  \A q \in EndedStreams(j) : q \in Requests /\ pc[q] = "stream" /\ job[q].s = j.s
<1>1. held \in [Streamable -> Requests \union {None}]
  BY DEF Control, Typed, MapTyped
<1> QED  BY <1>1 DEF EndedStreams, HeldOpen

LEMMA EndDoes ==
  ASSUME Control, HeldOpen, NEW p \in Procs, NEW j \in Jobs, NEW w, Left(p, w),
         pc[p] \in Closing5, j.s \in used, UNCHANGED <<now, up, used>>, EndSession(p, j, w)
  PROVE  /\ ProcTyped' /\ MapTyped' /\ Beside(p) /\ WireOK' /\ Placed(p)'
         /\ pc'[p] \in {"delete", "idle", "sweep", "closing"}
         /\ pc'[p] \in {"idle", "sweep", "closing"} => job'[p].s = None
         /\ \A q \in Procs \ {p} : IF q \in EndedStreams(j)
                                   THEN pc'[q] = "idle" /\ job'[q] = NoJob
                                   ELSE pc'[q] = pc[q] /\ job'[q] = job[q]
         /\ mem'[j.s] = None /\ \A s \in Sessions \ {j.s} : mem'[s] = mem[s]
         /\ wire' = w \/ wire' = Append(w, Await("deleted", p, j.s))
<1> DEFINE s == j.s
           stream == EndedStreams(j)
           rest == IF p \in Requests THEN NoJob ELSE [NoJob EXCEPT !.todo = j.todo, !.at = j.at]
           k == IF s \in Streamable THEN j ELSE rest
           l == IF s \in Streamable THEN "delete" ELSE Resume(p)
<1>1. s \in Sessions /\ ProcTyped /\ MapTyped /\ None \notin Procs
  BY NoneIsNoProc DEF Control, Typed, MapTyped
<1>2. j.todo \in SUBSET Sessions /\ j.at \in Nat
  BY DEF Jobs
<1>3. rest \in Jobs /\ rest.s = None
  <2>1. [NoJob EXCEPT !.todo = j.todo, !.at = j.at] \in Jobs
    BY <1>2 DEF NoJob, Jobs
  <2>2. [NoJob EXCEPT !.todo = j.todo, !.at = j.at].s = None
    BY DEF NoJob
  <2> QED  BY <2>1, <2>2, NoJobTyped
<1>4. /\ mem' = [mem EXCEPT ![s] = None] /\ born' = born \ {s}
      /\ copy' = IF s \in Streamable /\ up THEN [copy EXCEPT ![s] = None] ELSE copy
      /\ held' = IF s \in Streamable /\ j.own THEN [held EXCEPT ![s] = None] ELSE held
      /\ wire' = IF s \in Streamable THEN Append(w, Await("deleted", p, s)) ELSE w
      /\ pc' = [q \in Procs |-> IF q = p THEN l ELSE IF q \in stream THEN "idle" ELSE pc[q]]
      /\ job' = [q \in Procs |-> IF q = p THEN k ELSE IF q \in stream THEN NoJob ELSE job[q]]
  BY DEF EndSession
<1>5. l \in PcValues /\ l \in {"delete", "idle", "sweep", "closing"} /\ k \in Jobs
  BY <1>3 DEF Resume, PcValues
<1>6. \A q \in stream : q \in Requests /\ pc[q] = "stream" /\ job[q].s = j.s
  BY EndedOpen
<1>7. \/ k.s = s /\ l = "delete"
      \/ k.s = None /\ l \in {"idle", "sweep", "closing"}
  <2>1. CASE s \in Streamable
    BY <2>1
  <2>2. CASE s \notin Streamable
    BY <2>2, <1>3 DEF Resume
  <2> QED  BY <2>1, <2>2
<1>8. /\ l = "delete" => s \in Streamable
      /\ l = "sweep" => p \in Sweeps
      /\ l = "closing" => p = Shutdown
  BY DEF Resume, Procs
<1> HIDE DEF k, l, rest, stream
<1>9. /\ pc'[p] = l /\ job'[p] = k
      /\ \A q \in Procs \ {p} : IF q \in stream THEN pc'[q] = "idle" /\ job'[q] = NoJob
                                ELSE pc'[q] = pc[q] /\ job'[q] = job[q]
  BY <1>4
<1>10. pc' \in [Procs -> PcValues] /\ job' \in [Procs -> Jobs]
  BY <1>1, <1>4, <1>5, NoJobTyped DEF ProcTyped, PcValues
<1>11. Beside(p)
  BY <1>9, <1>6 DEF Beside
<1>12. MapTyped'
  <2>1. /\ mem' \in [Sessions -> Nat \union {None}] /\ mem'[s] = None
        /\ \A t \in Sessions \ {s} : mem'[t] = mem[t]
    BY <1>1, <1>4 DEF MapTyped
  <2>2. copy' \in [Streamable -> Nat \union {None}]
    BY <1>1, <1>4 DEF MapTyped
  <2>3. held' \in [Streamable -> Requests \union {None}]
    BY <1>1, <1>4 DEF MapTyped
  <2>4. born' \subseteq {t \in used : mem'[t] # None}
    BY <1>1, <1>4, <2>1 DEF MapTyped
  <2> QED  BY <1>1, <2>1, <2>2, <2>3, <2>4 DEF MapTyped
<1>13. Placed(p)'
  BY <1>7, <1>8, <1>9 DEF Placed, Closing5
<1>14. WireOK'
  <2>1. CASE s \in Streamable
    <3>1. PICK a \in Entries : a = Await("deleted", p, s)
      BY <1>1, AwaitTyped DEF Ops
    <3>2. a.op = "deleted" /\ a.by = p /\ a.s = s /\ a.log = NoLog
      BY <3>1 DEF Await, Entry
    <3>3. l = "delete" /\ k.s = s
      BY <2>1 DEF l, k
    <3>4. Sound(a)'
      BY <1>9, <3>2, <3>3, NoneIsNoProc, NoLogTyped DEF Sound, Fits
    <3>5. wire' = Append(w, a)
      BY <1>4, <2>1, <3>1
    <3> QED  BY <1>11, <3>2, <3>4, <3>5, WireStep
  <2>2. CASE s \notin Streamable
    <3>1. wire' = w
      BY <1>4, <2>2
    <3> QED  BY <1>11, <3>1, WireStep
  <2> QED  BY <2>1, <2>2
<1>15. mem'[s] = None /\ \A t \in Sessions \ {s} : mem'[t] = mem[t]
  BY <1>1, <1>4 DEF MapTyped
<1> QED  BY <1>4, <1>5, <1>7, <1>9, <1>10, <1>11, <1>12, <1>13, <1>14, <1>15 DEF ProcTyped, stream
-----------------------------------------------------------------------------
(* Steps that leave most of it alone.                                       *)

\* The queue, or what is left of it after a reply to one of these commands.
Off(w, ops) == w = wire \/ (wire # <<>> /\ w = Tail(wire) /\ Head(wire).op \in ops)

\* Steps at which a process has no session's calls in hand.
Calm == {"idle", "lookup", "save", "stream", "sweep", "closing", "drain", "exited", "delete"}

\* Nothing that matters to the summaries changes: a process goes to a calm step, with a call
\* that no summary has; no reply with a record is new, and no mark lost.
Calms(q) ==
  \/ pc'[q] = pc[q] /\ job'[q] = job[q]
  \/ /\ pc'[q] \in Calm
     /\ pc'[q] \in {"lookup", "save"} => \/ job'[q].call \notin covered
                                         \/ pc[q] = "lookup" /\ job'[q] = job[q]

NoNews ==
  \A i \in DOMAIN wire' :
    \/ wire'[i].op \notin {"record", "mark", "activity"} /\ wire'[i].log = NoLog
    \/ \E k \in DOMAIN wire : wire'[i] = wire[k]

MarksStay == \A s \in Sessions : Marking(wire, s) => Marking(wire', s)

LogQuiet ==
  /\ UNCHANGED <<log, covered, late, repeated, excused>>
  /\ \A q \in Procs : Calms(q)
  /\ NoNews /\ MarksStay

\* Nothing that matters to the return of a session changes.
Restoring(e) == e.op = "lookup" /\ e.exp # None

WireQuiet ==
  \E w : /\ Rest(w)
         /\ \/ wire' = w
            \/ \E a \in Entries : wire' = Append(w, a) /\ ~Restoring(a)
            \/ \E a, b \in Entries : wire' = w \o <<a, b>> /\ ~Restoring(a) /\ ~Restoring(b)

MapQuiet ==
  /\ UNCHANGED <<mem, copy, gone, failed>>
  /\ used \subseteq used' /\ (up => up')
  /\ \A q \in Procs : pc'[q] \in Closing5 => pc[q] \in Closing5 /\ job'[q].s = job[q].s
  /\ WireQuiet

\* Nothing that matters to the streams changes.
StreamQuiet ==
  /\ UNCHANGED <<mem, born, held, stray>>
  /\ \A q \in Procs :
       \/ pc'[q] = pc[q] /\ job'[q] = job[q]
       \/ /\ pc[q] # "stream" /\ pc'[q] \notin {"stream", "lookup"}
          /\ pc'[q] \in Closing5 => /\ pc[q] \in Closing5
                                    /\ job'[q].s = job[q].s /\ job'[q].own = job[q].own

LEMMA RestMarks ==
  ASSUME Control, NEW w, Off(w, Ops \ {"mark"}), NEW s, Marking(wire, s)
  PROVE  Marking(w, s)
<1>1. PICK i \in DOMAIN wire : wire[i].op = "mark" /\ wire[i].s = s
  BY DEF Marking
<1>2. CASE w = wire
  BY <1>1, <1>2 DEF Marking
<1>3. CASE wire # <<>> /\ w = Tail(wire) /\ Head(wire).op # "mark"
  <2>1. wire \in Seq(Entries)
    BY DEF Control, WireOK
  <2>2. i # 1
    BY <1>1, <1>3, <2>1, Popped
  <2>3. i - 1 \in DOMAIN w /\ w[i - 1] = wire[i]
    BY <1>3, <2>1, <2>2, Popped
  <2> QED  BY <1>1, <2>3 DEF Marking
<1> QED  BY <1>2, <1>3 DEF Off

LEMMA OffRest ==
  ASSUME NEW w, NEW ops, Off(w, ops)  PROVE Rest(w)
BY DEF Off, Rest

\* One reply is added that carries no record.
LEMMA PlainReply ==
  ASSUME Control, NEW w, Off(w, Ops \ {"mark"}),
         \/ wire' = w
         \/ \E a \in Entries : wire' = Append(w, a) /\ a.op \notin {"record", "mark", "activity"}
                                                   /\ a.log = NoLog
  PROVE  NoNews /\ MarksStay
<1>1. /\ w \in Seq(Entries)
      /\ \A i \in DOMAIN w : \E k \in DOMAIN wire : w[i] = wire[k]
  BY OffRest, RestWas
<1>2. CASE wire' = w
  BY <1>1, <1>2, RestMarks DEF NoNews, MarksStay
<1>3. ASSUME NEW a \in Entries, wire' = Append(w, a),
             a.op \notin {"record", "mark", "activity"}, a.log = NoLog
      PROVE  NoNews /\ MarksStay
  <2>1. /\ DOMAIN wire' = DOMAIN w \union {Len(w) + 1}
        /\ \A i \in DOMAIN w : wire'[i] = w[i]
        /\ wire'[Len(w) + 1] = a
    BY <1>1, <1>3, Pushed
  <2>2. NoNews
    BY <1>1, <1>3, <2>1 DEF NoNews
  <2>3. MarksStay
    <3> SUFFICES ASSUME NEW s \in Sessions, Marking(wire, s)  PROVE Marking(wire', s)
      BY DEF MarksStay
    <3>1. Marking(w, s)
      BY RestMarks
    <3>2. PICK i \in DOMAIN w : w[i].op = "mark" /\ w[i].s = s
      BY <3>1 DEF Marking
    <3> QED  BY <3>2, <2>1 DEF Marking
  <2> QED  BY <2>2, <2>3
<1> QED  BY <1>2, <1>3

\* A process goes where it waits for nothing and has nothing in hand.
LEMMA PlainMove ==
  ASSUME Control, NEW p \in Procs, NEW w, Left(p, w), Off(w, Ops \ {"mark"}),
         NEW l \in {"idle", "sweep", "closing", "drain", "exited"}, NEW j \in Jobs, Goto(p, l, j),
         l = "sweep" => p \in Sweeps, l \in {"closing", "drain", "exited"} => p = Shutdown,
         pc[p] # "stream", wire' = w,
         UNCHANGED <<now, mem, born, copy, log, up, held, used, covered, late, gone,
                     failed, repeated, excused, stray>>
  PROVE  Control' /\ LogQuiet /\ MapQuiet /\ StreamQuiet
<1>1. ProcTyped /\ l \in PcValues
  BY DEF Control, Typed, PcValues
<1>2. /\ ProcTyped' /\ pc'[p] = l /\ Beside(p)
      /\ \A q \in Procs \ {p} : pc'[q] = pc[q] /\ job'[q] = job[q]
  BY <1>1, GotoDoes
<1>3. Placed(p)'
  BY <1>2 DEF Placed, Closing5
<1>4. MapTyped' /\ LogTyped'
  BY DEF Control, Typed, MapTyped, LogTyped
<1>5. Control'
  BY <1>2, <1>3, <1>4, ControlStep DEF Typed
<1>6. LogQuiet
  <2>1. NoNews /\ MarksStay
    BY PlainReply
  <2>2. \A q \in Procs : Calms(q)
    BY <1>2 DEF Calms, Calm
  <2> QED  BY <2>1, <2>2 DEF LogQuiet
<1>7. MapQuiet
  <2>1. WireQuiet
    BY OffRest DEF WireQuiet
  <2>2. \A q \in Procs : pc'[q] \in Closing5 => pc[q] \in Closing5 /\ job'[q].s = job[q].s
    BY <1>2 DEF Closing5
  <2> QED  BY <2>1, <2>2 DEF MapQuiet
<1>8. StreamQuiet
  BY <1>2 DEF StreamQuiet, Closing5
<1> QED  BY <1>5, <1>6, <1>7, <1>8

-----------------------------------------------------------------------------
(* What such steps leave true.                                              *)

LEMMA ToldQuiet ==
  ASSUME Control, ToldInv, LogQuiet,
         \A s \in ended' : s \in used' /\ mem'[s] = None /\ log[s].calls \subseteq Told
  PROVE  ToldInv'
<1>1. Told' = Told /\ log' = log
  BY DEF LogQuiet, Told
<1>2. \A i \in DOMAIN wire' : EntryTold(wire[i])'
  <2> SUFFICES ASSUME NEW i \in DOMAIN wire'  PROVE EntryTold(wire[i])'
    OBVIOUS
  <2>1. CASE wire'[i].op \notin {"record", "mark", "activity"} /\ wire'[i].log = NoLog
    BY <2>1, NoLogTyped DEF EntryTold
  <2>2. ASSUME NEW k \in DOMAIN wire, wire'[i] = wire[k]  PROVE EntryTold(wire[i])'
    BY <1>1, <2>2 DEF ToldInv, EntryTold
  <2> QED  BY <2>1, <2>2 DEF LogQuiet, NoNews
<1>3. \A p \in Procs : ProcTold(p)'
  <2> SUFFICES ASSUME NEW p \in Procs  PROVE ProcTold(p)'
    OBVIOUS
  <2>1. CASE pc'[p] = pc[p] /\ job'[p] = job[p]
    BY <1>1, <2>1 DEF ToldInv, ProcTold
  <2>2. CASE pc'[p] \in Calm
    BY <2>2 DEF ProcTold, Calm
  <2> QED  BY <2>1, <2>2 DEF LogQuiet, Calms
<1> QED  BY <1>1, <1>2, <1>3 DEF ToldInv

LEMMA OnceQuiet ==
  ASSUME Control, OnceInv, LogQuiet
  PROVE  OnceInv'
<1>1. log' = log /\ covered' = covered /\ repeated' = repeated /\ excused' = excused
  BY DEF LogQuiet
<1>2. \A s \in Sessions : Settled(s) => Settled(s)'
  BY <1>1 DEF LogQuiet, MarksStay, Settled
<1>3. \A i \in DOMAIN wire : wire[i] \in Entries
  BY DEF Control, WireOK
<1> SUFFICES ASSUME NEW s \in Sessions, s \notin excused  PROVE SessionOnce(s)'
  BY <1>1 DEF OnceInv
<1>4. SessionOnce(s)
  BY DEF OnceInv
<1>5. \A p, q \in Procs : Covers(p, s)' /\ Covers(q, s)' => p = q
  <2>1. \A p \in Procs : Covers(p, s)' => Covers(p, s)
    BY DEF LogQuiet, Calms, Calm, Covers
  <2> QED  BY <2>1, <1>4 DEF SessionOnce
<1>6. (log[s].calls \intersect covered # {} => Settled(s))'
  BY <1>1, <1>2, <1>4 DEF SessionOnce
<1>7. ASSUME NEW i \in DOMAIN wire', wire'[i].s = s  PROVE EntryOnce(wire[i])'
  <2>1. CASE wire'[i].op \notin {"record", "mark", "activity"}
    BY <2>1 DEF EntryOnce
  <2>2. ASSUME NEW k \in DOMAIN wire, wire'[i] = wire[k]  PROVE EntryOnce(wire[i])'
    <3>1. EntryOnce(wire[k]) /\ wire[k].s = s
      BY <1>4, <1>7, <2>2 DEF SessionOnce
    <3>2. Settled(wire[k].s) => Settled(s)'
      BY <3>1, <1>2
    <3> QED  BY <1>1, <1>7, <2>2, <3>1, <3>2 DEF EntryOnce
  <2> QED  BY <2>1, <2>2 DEF LogQuiet, NoNews
<1>8. ASSUME NEW p \in Procs, job'[p].s = s  PROVE ProcOnce(p)'
  <2>1. CASE pc'[p] = pc[p] /\ job'[p] = job[p]
    <3>1. ProcOnce(p) /\ job[p].s = s
      BY <1>4, <1>8, <2>1 DEF SessionOnce
    <3> QED  BY <1>1, <1>2, <1>8, <2>1, <3>1 DEF ProcOnce
  <2>2. CASE pc'[p] \in Calm /\ (pc'[p] \in {"lookup", "save"} => job'[p].call \notin covered)
    BY <1>1, <2>2 DEF ProcOnce, Calm
  <2>3. CASE pc'[p] \in Calm /\ pc[p] = "lookup" /\ job'[p] = job[p]
    <3>1. ProcOnce(p) /\ job[p].s = s
      BY <1>4, <1>8, <2>3 DEF SessionOnce
    <3> QED  BY <1>1, <1>2, <1>8, <2>3, <3>1 DEF ProcOnce, Calm
  <2>4. Calms(p)
    BY DEF LogQuiet
  <2> QED  BY <2>1, <2>2, <2>3, <2>4 DEF Calms
<1> QED  BY <1>5, <1>6, <1>7, <1>8 DEF SessionOnce

\* The order of the queue, as replies are taken from its head and added to its end.
LEMMA BehindRest ==
  ASSUME Control, NEW w, Rest(w), NEW p, NEW s
  PROVE  /\ Behind(p, wire, s) => Behind(p, w, s)
         /\ Clear(wire, s) => Clear(w, s)
<1>1. wire \in Seq(Entries)
  BY DEF Control, WireOK
<1>2. CASE w = wire
  BY <1>2
<1>3. CASE wire # <<>> /\ w = Tail(wire)
  <2>1. /\ \A i \in DOMAIN w : i \in Nat /\ i >= 1 /\ i + 1 \in DOMAIN wire /\ w[i] = wire[i + 1]
        /\ \A i \in DOMAIN wire : i = 1 \/ (i - 1 \in DOMAIN w /\ w[i - 1] = wire[i])
    BY <1>1, <1>3, Popped
  <2>2. DOMAIN wire \subseteq Nat
    BY <1>1
  <2>3. Clear(wire, s) => Clear(w, s)
    BY <2>1 DEF Clear
  <2>4. ASSUME Behind(p, wire, s), NEW i \in DOMAIN w, Restores(w[i], s)
        PROVE  \E j \in DOMAIN w : j > i /\ w[j].op = "activity" /\ w[j].by = p
    <3>1. PICK j \in DOMAIN wire : j > i + 1 /\ wire[j].op = "activity" /\ wire[j].by = p
      BY <2>1, <2>4 DEF Behind
    <3>2. j # 1 /\ j - 1 > i
      BY <3>1, <2>1, <2>2
    <3>3. j - 1 \in DOMAIN w /\ w[j - 1] = wire[j]
      BY <3>1, <3>2, <2>1
    <3> QED  BY <3>1, <3>2, <3>3
  <2> QED  BY <2>3, <2>4 DEF Behind
<1> QED  BY <1>2, <1>3 DEF Rest

LEMMA BehindPushed ==
  ASSUME NEW w \in Seq(Entries), NEW a \in Entries, NEW p, NEW s, ~Restores(a, s)
  PROVE  /\ Behind(p, w, s) => Behind(p, Append(w, a), s)
         /\ Clear(w, s) => Clear(Append(w, a), s)
         /\ a.op = "activity" /\ a.by = p => Behind(p, Append(w, a), s)
<1> DEFINE v == Append(w, a)
<1>1. /\ DOMAIN v = DOMAIN w \union {Len(w) + 1}
      /\ \A i \in DOMAIN w : v[i] = w[i] /\ i < Len(w) + 1
      /\ v[Len(w) + 1] = a
  BY Pushed
<1> HIDE DEF v
<1>2. Clear(w, s) => Clear(v, s)
  BY <1>1 DEF Clear
<1>3. ASSUME Behind(p, w, s), NEW i \in DOMAIN v, Restores(v[i], s)
      PROVE  \E j \in DOMAIN v : j > i /\ v[j].op = "activity" /\ v[j].by = p
  <2>1. i \in DOMAIN w /\ Restores(w[i], s)
    BY <1>1, <1>3
  <2>2. PICK j \in DOMAIN w : j > i /\ w[j].op = "activity" /\ w[j].by = p
    BY <2>1, <1>3 DEF Behind
  <2> QED  BY <2>2, <1>1
<1>4. ASSUME a.op = "activity", a.by = p, NEW i \in DOMAIN v, Restores(v[i], s)
      PROVE  \E j \in DOMAIN v : j > i /\ v[j].op = "activity" /\ v[j].by = p
  <2>1. i \in DOMAIN w
    BY <1>1, <1>4
  <2> QED  BY <2>1, <1>1, <1>4
<1> QED  BY <1>2, <1>3, <1>4 DEF Behind, v

LEMMA WireBehind ==
  ASSUME Control, WireQuiet, NEW p, NEW s
  PROVE  /\ Behind(p, wire, s) => Behind(p, wire', s)
         /\ Clear(wire, s) => Clear(wire', s)
<1>1. PICK w : /\ Rest(w)
               /\ \/ wire' = w
                  \/ \E a \in Entries : wire' = Append(w, a) /\ ~Restoring(a)
                  \/ \E a, b \in Entries : wire' = w \o <<a, b>> /\ ~Restoring(a) /\ ~Restoring(b)
  BY DEF WireQuiet
<1>2. w \in Seq(Entries)
  BY <1>1, RestWas
<1>3. /\ Behind(p, wire, s) => Behind(p, w, s)
      /\ Clear(wire, s) => Clear(w, s)
  BY <1>1, BehindRest
<1>4. CASE wire' = w
  BY <1>3, <1>4
<1>5. ASSUME NEW a \in Entries, wire' = Append(w, a), ~Restoring(a)
      PROVE  /\ Behind(p, w, s) => Behind(p, wire', s)
             /\ Clear(w, s) => Clear(wire', s)
  BY <1>2, <1>5, BehindPushed DEF Restoring, Restores
<1>6. ASSUME NEW a \in Entries, NEW b \in Entries, wire' = w \o <<a, b>>,
             ~Restoring(a), ~Restoring(b)
      PROVE  /\ Behind(p, w, s) => Behind(p, wire', s)
             /\ Clear(w, s) => Clear(wire', s)
  <2>1. wire' = Append(Append(w, a), b) /\ Append(w, a) \in Seq(Entries)
    BY <1>2, <1>6
  <2>2. /\ Behind(p, w, s) => Behind(p, Append(w, a), s)
        /\ Clear(w, s) => Clear(Append(w, a), s)
    BY <1>2, <1>6, BehindPushed DEF Restoring, Restores
  <2>3. /\ Behind(p, Append(w, a), s) => Behind(p, wire', s)
        /\ Clear(Append(w, a), s) => Clear(wire', s)
    BY <2>1, <1>6, BehindPushed DEF Restoring, Restores
  <2> QED  BY <2>2, <2>3
<1> QED  BY <1>1, <1>3, <1>4, <1>5, <1>6

\* No session is made or extended that is gone, or that somebody is about to close.
LEMMA GoneMap ==
  ASSUME Control, GoneInv, WireQuiet, UNCHANGED <<gone, failed>>,
         used \subseteq used', up => up',
         \A q \in Procs : pc'[q] \in Closing5 => pc[q] \in Closing5 /\ job'[q].s = job[q].s,
         \A s \in gone : mem'[s] = None /\ (s \in Streamable => copy'[s] = None),
         \A s \in Streamable \ failed, p \in Procs :
           Closes(p, s) => mem'[s] # None \/ copy'[s] = None
  PROVE  GoneInv'
<1>1. ASSUME NEW p, NEW s
      PROVE  /\ Behind(p, wire, s) => Behind(p, wire', s)
             /\ Clear(wire, s) => Clear(wire', s)
  BY WireBehind
<1>2. \A s \in gone' : /\ mem'[s] = None /\ (s \in Streamable => copy'[s] = None)
                       /\ Clear(wire', s)
  BY <1>1 DEF GoneInv
<1>3. \A s \in Streamable \ failed', p \in Procs :
        Closes(p, s)' => (mem'[s] # None \/ copy'[s] = None) /\ Behind(p, wire', s)
  <2>1. \A p \in Procs, s \in Streamable : Closes(p, s)' => Closes(p, s)
    BY DEF Closes
  <2> QED  BY <2>1, <1>1 DEF GoneInv
<1>4. ~up' => \A s \in Sessions : Clear(wire', s)
  BY <1>1 DEF GoneInv
<1>5. gone' \subseteq used' \ failed'
  BY DEF GoneInv
<1> QED  BY <1>2, <1>3, <1>4, <1>5 DEF GoneInv, Clear, Behind

LEMMA GoneQuiet ==
  ASSUME Control, GoneInv, MapQuiet
  PROVE  GoneInv'
<1>1. \A s \in gone : mem'[s] = None /\ (s \in Streamable => copy'[s] = None)
  BY DEF GoneInv, MapQuiet
<1>2. \A s \in Streamable \ failed, p \in Procs :
        Closes(p, s) => mem'[s] # None \/ copy'[s] = None
  BY DEF GoneInv, MapQuiet
<1> QED  BY <1>1, <1>2, GoneMap DEF MapQuiet

LEMMA StreamsQuiet ==
  ASSUME Control, StreamInv, StreamQuiet
  PROVE  StreamInv'
<1>1. mem' = mem /\ born' = born /\ held' = held /\ stray' = stray
  BY DEF StreamQuiet
<1>2. \A q \in Procs : pc[q] = "stream" => pc'[q] = "stream" /\ job'[q] = job[q]
  BY DEF StreamQuiet
<1>3. \A q \in Procs : pc'[q] = "stream" => pc[q] = "stream" /\ job'[q] = job[q]
  BY DEF StreamQuiet
<1>4. held \in [Streamable -> Requests \union {None}] /\ Requests \subseteq Procs
  BY DEF Control, Typed, MapTyped, Procs
<1>5. (stray \subseteq {p \in Requests : pc[p] = "stream"})'
  BY <1>1, <1>2, <1>4 DEF StreamInv
<1>6. HeldOpen'
  BY <1>1, <1>2, <1>4 DEF StreamInv, HeldOpen
<1>7. Owned'
  BY <1>1 DEF StreamInv, Owned, StreamQuiet
<1>8. (\A p \in Requests : pc[p] = "stream" /\ p \notin stray => mem[job[p].s] # None /\ Attached(p))'
  BY <1>1, <1>3, <1>4 DEF StreamInv, Attached
<1> QED  BY <1>5, <1>6, <1>7, <1>8 DEF StreamInv
-----------------------------------------------------------------------------
(* The steps, one by one.                                                   *)

SessionInv == Control /\ StreamInv /\ GoneInv /\ ToldInv /\ OnceInv

LEMMA PlainKeeps ==
  ASSUME SessionInv, Control', LogQuiet, MapQuiet, StreamQuiet, ended' = ended
  PROVE  SessionInv'
<1>1. \A s \in ended' : s \in used' /\ mem'[s] = None /\ log[s].calls \subseteq Told
  BY DEF SessionInv, ToldInv, MapQuiet
<1> QED  BY <1>1, ToldQuiet, OnceQuiet, GoneQuiet, StreamsQuiet DEF SessionInv

\* A process goes on or stops, with nothing in hand.
LEMMA PlainStep ==
  ASSUME SessionInv, NEW p \in Procs, NEW w, Left(p, w), Off(w, Ops \ {"mark"}),
         NEW l \in {"idle", "sweep", "closing", "drain", "exited"}, NEW j \in Jobs, Goto(p, l, j),
         l = "sweep" => p \in Sweeps, l \in {"closing", "drain", "exited"} => p = Shutdown,
         pc[p] # "stream", wire' = w,
         UNCHANGED <<now, mem, born, copy, log, up, held, used, history>>
  PROVE  SessionInv'
<1>1. Control /\ UNCHANGED <<now, mem, born, copy, log, up, held, used, covered, late, gone,
                             failed, repeated, excused, stray>> /\ ended' = ended
  BY DEF SessionInv, history
<1>2. Control' /\ LogQuiet /\ MapQuiet /\ StreamQuiet
  BY <1>1, PlainMove
<1> QED  BY <1>1, <1>2, PlainKeeps

LEMMA OwnWire == Off(wire, Ops \ {"mark"})
BY DEF Off

LEMMA JobTyped == ASSUME SessionInv, NEW p \in Procs  PROVE job[p] \in Jobs
BY DEF SessionInv, Control, Typed, ProcTyped

LEMMA ToolFailsStep ==
  ASSUME SessionInv, NEW p \in Requests, ToolFails(p)
  PROVE  SessionInv'
<1>1. p \in Procs /\ pc[p] = "tool" /\ Goto(p, "idle", NoJob) /\ wire' = wire
      /\ UNCHANGED <<now, mem, born, copy, log, up, held, used, history>>
  BY DEF ToolFails, Procs
<1>2. Left(p, wire)
  BY <1>1, NotWaiting DEF SessionInv
<1> QED  BY <1>1, <1>2, PlainStep, OwnWire, NoJobTyped

LEMMA SweepStartStep ==
  ASSUME SessionInv, NEW w \in Sweeps, SweepStart(w)
  PROVE  SessionInv'
<1> DEFINE j == [NoJob EXCEPT !.at = now, !.todo = Sessions]
<1>1. w \in Procs /\ pc[w] = "idle" /\ Goto(w, "sweep", j) /\ wire' = wire
      /\ UNCHANGED <<now, mem, born, copy, log, up, held, used, history>>
  BY DEF SweepStart, Procs
<1>2. Left(w, wire)
  BY <1>1, NotWaiting DEF SessionInv
<1>3. j \in Jobs
  <2>1. now \in Nat
    BY DEF SessionInv, Control, Typed, MapTyped
  <2> QED  BY <2>1 DEF NoJob, Jobs
<1> HIDE DEF j
<1> QED  BY <1>1, <1>2, <1>3, PlainStep, OwnWire

LEMMA SweepEndStep ==
  ASSUME SessionInv, NEW w \in Sweeps, SweepEnd(w)
  PROVE  SessionInv'
<1>1. w \in Procs /\ pc[w] = "sweep" /\ Goto(w, "idle", NoJob) /\ wire' = wire
      /\ UNCHANGED <<now, mem, born, copy, log, up, held, used, history>>
  BY DEF SweepEnd, Procs
<1>2. Left(w, wire)
  BY <1>1, NotWaiting DEF SessionInv
<1> QED  BY <1>1, <1>2, PlainStep, OwnWire, NoJobTyped

LEMMA SignalStep ==
  ASSUME SessionInv, Signal
  PROVE  SessionInv'
<1> DEFINE j == [NoJob EXCEPT !.todo = {s \in Sessions : mem[s] # None}]
<1>1. Shutdown \in Procs /\ pc[Shutdown] = "idle" /\ Goto(Shutdown, "closing", j) /\ wire' = wire
      /\ UNCHANGED <<now, mem, born, copy, log, up, held, used, history>>
  BY DEF Signal, Procs
<1>2. Left(Shutdown, wire)
  BY <1>1, NotWaiting DEF SessionInv
<1>3. j \in Jobs
  BY DEF NoJob, Jobs
<1> HIDE DEF j
<1> QED  BY <1>1, <1>2, <1>3, PlainStep, OwnWire

LEMMA DrainStep ==
  ASSUME SessionInv, Drain \/ Exit
  PROVE  SessionInv'
<1>1. /\ Shutdown \in Procs /\ pc[Shutdown] \in {"closing", "drain"} /\ wire' = wire
      /\ Goto(Shutdown, "drain", NoJob) \/ Goto(Shutdown, "exited", NoJob)
      /\ UNCHANGED <<now, mem, born, copy, log, up, held, used, history>>
  BY DEF Drain, Exit, Procs
<1>2. Left(Shutdown, wire)
  BY <1>1, NotWaiting DEF SessionInv
<1> QED  BY <1>1, <1>2, PlainStep, OwnWire, NoJobTyped

LEMMA ControlStill ==
  ASSUME Control, MapTyped', LogTyped', UNCHANGED <<pc, job, used>>, Rest(wire')
  PROVE  Control'
<1>1. /\ wire' \in Seq(Entries) /\ OneReply(wire')
      /\ \A i \in DOMAIN wire' : Sound(wire'[i])
  BY RestWas
<1>2. \A e : Sound(e) => Sound(e)'
  BY DEF Sound
<1>3. WireOK'
  BY <1>1, <1>2 DEF WireOK, OneReply
<1>4. ProcTyped' /\ \A p \in Procs : Placed(p)'
  BY DEF Control, Typed, ProcTyped, Placed
<1> QED  BY <1>3, <1>4 DEF Control, Typed

\* The environment, except for outages and restarts.
LEMMA StillKeeps ==
  ASSUME SessionInv, UNCHANGED <<mem, born, log, wire, pc, job, held, used, history>>,
         now' \in 0 .. MaxTime, copy' = copy, up' \in BOOLEAN, up => up'
  PROVE  SessionInv'
<1>1. UNCHANGED <<covered, late, ended, gone, failed, repeated, excused, stray>>
  BY DEF history
<1>a. MapTyped' /\ LogTyped'
  BY <1>1 DEF SessionInv, Control, Typed, MapTyped, LogTyped
<1>2. Control'
  BY <1>a, ControlStill DEF SessionInv, Rest
<1>3. LogQuiet
  BY <1>1 DEF LogQuiet, Calms, NoNews, MarksStay
<1>4. MapQuiet
  BY <1>1 DEF MapQuiet, WireQuiet, Rest
<1>5. StreamQuiet
  BY <1>1 DEF StreamQuiet
<1> QED  BY <1>1, <1>2, <1>3, <1>4, <1>5, PlainKeeps

LEMMA TickStep ==
  ASSUME SessionInv, Tick \/ Recover
  PROVE  SessionInv'
<1>1. now \in 0 .. MaxTime /\ up \in BOOLEAN /\ MaxTime \in Nat
  BY SessionAssumption DEF SessionAssumption, SessionInv, Control, Typed, MapTyped
<1>2. CASE Tick
  <2>1. /\ now' = now + 1 /\ now < MaxTime
        /\ UNCHANGED <<mem, born, copy, log, up, wire, pc, job, held, used, history>>
    BY <1>2 DEF Tick
  <2>2. now' \in 0 .. MaxTime
    BY <1>1, <2>1
  <2> QED  BY <1>1, <2>1, <2>2, StillKeeps
<1>3. CASE Recover
  <2>1. up' = TRUE /\ UNCHANGED <<now, mem, born, copy, log, wire, pc, job, held, used, history>>
    BY <1>3 DEF Recover
  <2> QED  BY <1>1, <2>1, StillKeeps
<1> QED  BY <1>2, <1>3

LEMMA CopyExpiresStep ==
  ASSUME SessionInv, NEW s \in Streamable, CopyExpires(s)
  PROVE  SessionInv'
<1>1. /\ copy' = [copy EXCEPT ![s] = None]
      /\ UNCHANGED <<now, mem, born, log, up, wire, pc, job, held, used>>
      /\ UNCHANGED <<covered, late, ended, gone, failed, repeated, excused, stray>>
  BY DEF CopyExpires, history
<1>2. copy \in [Streamable -> Nat \union {None}]
  BY DEF SessionInv, Control, Typed, MapTyped
<1>3. /\ copy' \in [Streamable -> Nat \union {None}]
      /\ \A t \in Streamable : copy'[t] = copy[t] \/ copy'[t] = None
  BY <1>1, <1>2
<1>a. MapTyped' /\ LogTyped'
  BY <1>1, <1>3 DEF SessionInv, Control, Typed, MapTyped, LogTyped
<1>4. Control'
  BY <1>a, <1>1, ControlStill DEF SessionInv, Rest
<1>5. LogQuiet
  BY <1>1 DEF LogQuiet, Calms, NoNews, MarksStay
<1>6. StreamQuiet
  BY <1>1 DEF StreamQuiet
<1>7. ToldInv' /\ OnceInv' /\ StreamInv'
  <2>1. \A t \in ended' : t \in used' /\ mem'[t] = None /\ log[t].calls \subseteq Told
    BY <1>1 DEF SessionInv, ToldInv
  <2> QED  BY <2>1, <1>5, <1>6, ToldQuiet, OnceQuiet, StreamsQuiet DEF SessionInv
<1>8. GoneInv'
  BY <1>1, <1>3 DEF SessionInv, GoneInv, Closes, Clear, Behind
<1> QED  BY <1>4, <1>7, <1>8 DEF SessionInv

\* A reply that nobody acts on, and the one after a session was deleted.
LEMMA LostStep ==
  ASSUME SessionInv, wire # <<>>, Head(wire).op = "lost", wire' = Tail(wire),
         UNCHANGED <<now, mem, born, copy, log, up, pc, job, held, used, history>>
  PROVE  SessionInv'
<1>1. UNCHANGED <<covered, late, ended, gone, failed, repeated, excused, stray>>
  BY DEF history
<1>2. Rest(Tail(wire)) /\ Off(Tail(wire), Ops \ {"mark"})
  BY DEF Rest, Off, Ops
<1>3. MapTyped' /\ LogTyped'
  BY <1>1 DEF SessionInv, Control, Typed, MapTyped, LogTyped
<1>4. Control'
  BY <1>2, <1>3, ControlStill DEF SessionInv
<1>5. LogQuiet
  BY <1>1, <1>2, PlainReply DEF LogQuiet, Calms, SessionInv
<1>6. MapQuiet
  BY <1>1, <1>2 DEF MapQuiet, WireQuiet
<1>7. StreamQuiet
  BY <1>1 DEF StreamQuiet
<1> QED  BY <1>1, <1>4, <1>5, <1>6, <1>7, PlainKeeps

LEMMA ResumeTyped ==
  ASSUME NEW p \in Procs
  PROVE  /\ Resume(p) \in {"idle", "sweep", "closing"}
         /\ Resume(p) = "sweep" => p \in Sweeps
         /\ Resume(p) = "closing" => p = Shutdown
BY DEF Resume, Procs

LEMMA DeletedStep ==
  ASSUME SessionInv, wire # <<>>, Head(wire).op = "deleted", wire' = Tail(wire),
         Returned(Head(wire).by, job[Head(wire).by]),
         UNCHANGED <<now, mem, born, copy, log, up, held, used, history>>
  PROVE  SessionInv'
<1>1. PICK p : p = Head(wire).by
  OBVIOUS
<1>2. /\ p \in Procs /\ pc[p] = "delete" /\ Left(p, Tail(wire))
      /\ Off(Tail(wire), Ops \ {"mark"})
  <2>1. p \in Procs /\ Sound(Head(wire)) /\ p # None
    BY <1>1, HeadSound, NoneIsNoProc DEF SessionInv
  <2>2. pc[p] = "delete"
    BY <1>1, <2>1 DEF Sound, Fits
  <2>3. Left(p, Tail(wire))
    BY <1>1, <2>1, Answered DEF SessionInv
  <2> QED  BY <2>1, <2>2, <2>3 DEF Off, Ops
<1>3. PICK j \in Jobs : Goto(p, Resume(p), j)
  BY <1>1, <1>2, JobTyped, NoJobTyped DEF Returned
<1> QED  BY <1>2, <1>3, ResumeTyped, PlainStep
-----------------------------------------------------------------------------
(* New sessions, and requests for a session that the Map does not have.     *)

LEMMA NewJobPlain ==
  ASSUME NEW k \in Kinds \union {"initialize"}, NEW s \in Sessions
  PROVE  LET j == [NoJob EXCEPT !.kind = k, !.s = s] IN
         j \in Jobs /\ j.kind = k /\ j.s = s /\ j.call = None /\ j.own = FALSE
BY DEF NoJob, Jobs

LEMMA Untold == ASSUME SessionInv  PROVE None \notin covered
BY NoneIsNoProc DEF SessionInv, Control, Typed, LogTyped

\* A process that was idle is in the way of nobody.
LEMMA Newcomer ==
  ASSUME SessionInv, NEW p \in Requests, pc[p] = "idle"
  PROVE  /\ p \in Procs /\ Left(p, wire) /\ p \notin stray
         /\ \A t \in Streamable : held[t] # p
<1>1. p \in Procs /\ p # None
  BY NoneIsNoProc DEF Procs
<1>2. Left(p, wire)
  BY <1>1, NotWaiting DEF SessionInv
<1> QED  BY <1>1, <1>2 DEF SessionInv, StreamInv, HeldOpen

\* An id that was not given out belongs to nothing yet.
LEMMA Unused ==
  ASSUME SessionInv, NEW s \in Sessions \ used
  PROVE  /\ s \notin gone /\ s \notin ended /\ mem[s] = None /\ s \notin born
         /\ \A q \in Procs : job[q].s = s => pc[q] \notin Closing5 \union {"lookup", "stream"}
<1>1. \A q \in Procs : Placed(q)
  BY DEF SessionInv, Control
<1> QED  BY <1>1 DEF SessionInv, Control, Typed, MapTyped, GoneInv, ToldInv, Placed

LEMMA CreateStep ==
  ASSUME SessionInv, NEW p \in Requests, NEW s \in Streamable, Create(p, s)
  PROVE  SessionInv'
<1> DEFINE j == [NoJob EXCEPT !.kind = "initialize", !.s = s]
<1>1. /\ pc[p] = "idle" /\ s \notin used /\ used' = used \union {s}
      /\ mem' = [mem EXCEPT ![s] = now + TTL] /\ born' = born \union {s}
      /\ copy' = IF up THEN [copy EXCEPT ![s] = now + TTL] ELSE copy
      /\ wire' = Append(wire, Await("saved", p, s)) /\ Goto(p, "save", j)
      /\ UNCHANGED <<now, log, up, held>>
      /\ UNCHANGED <<covered, late, ended, gone, failed, repeated, excused, stray>>
  BY DEF Create, Arrive, history
<1>2. p \in Procs /\ Left(p, wire) /\ p \notin stray /\ \A t \in Streamable : held[t] # p
  BY <1>1, Newcomer
<1>3. s \in Sessions
  BY DEF Sessions
<1>4. /\ s \notin gone /\ s \notin ended /\ mem[s] = None /\ s \notin born
      /\ \A q \in Procs : job[q].s = s => pc[q] \notin Closing5 \union {"lookup", "stream"}
  BY <1>1, <1>3, Unused
<1>5. j \in Jobs /\ j.kind = "initialize" /\ j.s = s /\ j.call = None
  BY <1>3, NewJobPlain
<1>6. Control /\ MapTyped /\ ProcTyped /\ LogTyped /\ now + TTL \in Nat
  BY SessionAssumption DEF SessionAssumption, SessionInv, Control, Typed, MapTyped
<1>a. Goto(p, "save", j) /\ "save" \in PcValues
  BY <1>1 DEF PcValues
<1> HIDE DEF j
<1>7. ProcTyped' /\ pc'[p] = "save" /\ job'[p] = j /\ Beside(p) /\ Alone(p)
  BY <1>2, <1>5, <1>6, <1>a, GotoDoes DEF Alone, PcValues
<1>8. /\ mem' \in [Sessions -> Nat \union {None}] /\ mem'[s] # None
      /\ \A t \in Sessions \ {s} : mem'[t] = mem[t]
  BY <1>1, <1>3, <1>6, NoneIsNoProc DEF MapTyped
<1>9. /\ copy' \in [Streamable -> Nat \union {None}]
      /\ \A t \in Streamable \ {s} : copy'[t] = copy[t]
  BY <1>1, <1>6 DEF MapTyped
<1>10. MapTyped' /\ LogTyped'
  BY <1>1, <1>3, <1>6, <1>8, <1>9 DEF MapTyped, LogTyped
<1>11. PICK a \in Entries : a = Await("saved", p, s)
  BY <1>2, <1>3, AwaitTyped DEF Ops
<1>12. a.op = "saved" /\ a.by = p /\ a.s = s /\ a.log = NoLog
  BY <1>11 DEF Await, Entry
<1>13. Sound(a)'
  BY <1>1, <1>2, <1>5, <1>7, <1>12, NoneIsNoProc, NoLogTyped DEF Sound, Fits
<1>14. Placed(p)'
  BY <1>1, <1>5, <1>7 DEF Placed, Closing5
<1>15. Control'
  BY <1>1, <1>2, <1>6, <1>7, <1>10, <1>11, <1>12, <1>13, <1>14, ControlStep DEF Typed
<1>16. LogQuiet
  <2>1. NoNews /\ MarksStay
    BY <1>1, <1>6, <1>11, <1>12, OwnWire, PlainReply
  <2>2. \A q \in Procs : Calms(q)
    BY <1>5, <1>7, Untold DEF Calms, Calm, Alone
  <2> QED  BY <1>1, <2>1, <2>2 DEF LogQuiet
<1>17. ToldInv' /\ OnceInv'
  <2>1. \A t \in ended' : t \in used' /\ mem'[t] = None /\ log[t].calls \subseteq Told
    BY <1>1, <1>4, <1>6, <1>8 DEF SessionInv, ToldInv, MapTyped
  <2> QED  BY <2>1, <1>16, ToldQuiet, OnceQuiet DEF SessionInv
<1>18. GoneInv'
  <2>1. WireQuiet
    BY <1>1, <1>11, <1>12 DEF WireQuiet, Rest, Restoring
  <2>2. \A q \in Procs : pc'[q] \in Closing5 => pc[q] \in Closing5 /\ job'[q].s = job[q].s
    BY <1>7 DEF Alone, Closing5
  <2>3. \A t \in gone : mem'[t] = None /\ (t \in Streamable => copy'[t] = None)
    BY <1>4, <1>6, <1>8, <1>9 DEF SessionInv, GoneInv, MapTyped
  <2>4. \A t \in Streamable \ failed, q \in Procs :
          Closes(q, t) => mem'[t] # None \/ copy'[t] = None
    BY <1>4, <1>8, <1>9 DEF SessionInv, GoneInv, Closes, Sessions
  <2> QED  BY <1>1, <2>1, <2>2, <2>3, <2>4, GoneMap DEF SessionInv
<1>19. StreamInv'
  <2>1. (stray \subseteq {q \in Requests : pc[q] = "stream"})'
    BY <1>1, <1>2, <1>7 DEF SessionInv, StreamInv, Alone, Procs
  <2>2. HeldOpen'
    <3>1. \A t \in Streamable : held[t] # None => held[t] \in Procs \ {p}
      BY <1>2, <1>6 DEF MapTyped, Procs
    <3> QED  BY <1>1, <1>7, <3>1 DEF SessionInv, StreamInv, HeldOpen, Alone
  <2>3. Owned'
    BY <1>1, <1>4, <1>7 DEF SessionInv, StreamInv, Owned, Alone, Closing5
  <2>4. (\A q \in Requests : pc[q] = "stream" /\ q \notin stray => mem[job[q].s] # None /\ Attached(q))'
    <3> SUFFICES ASSUME NEW q \in Requests, pc'[q] = "stream", q \notin stray'
                 PROVE  (mem[job[q].s] # None /\ Attached(q))'
      OBVIOUS
    <3>1. q \in Procs \ {p} /\ pc[q] = "stream" /\ job'[q] = job[q] /\ q \notin stray
      BY <1>1, <1>7 DEF Alone, Procs
    <3>2. mem[job[q].s] # None /\ Attached(q) /\ job[q].s \in Sessions
      BY <3>1, <1>6 DEF SessionInv, StreamInv, Control, Placed, MapTyped
    <3> QED  BY <1>1, <1>8, <3>1, <3>2 DEF Attached
  <2> QED  BY <2>1, <2>2, <2>3, <2>4 DEF StreamInv
<1> QED  BY <1>15, <1>17, <1>18, <1>19 DEF SessionInv
LEMMA ConnectStep ==
  ASSUME SessionInv, NEW p \in Requests, NEW s \in Legacy, Connect(p, s)
  PROVE  SessionInv'
<1> DEFINE j == [NoJob EXCEPT !.kind = "sse", !.s = s]
<1>1. /\ pc[p] = "idle" /\ s \notin used /\ used' = used \union {s}
      /\ mem' = [mem EXCEPT ![s] = now + TTL] /\ born' = born \union {s}
      /\ Goto(p, "stream", j)
      /\ UNCHANGED <<now, copy, log, up, wire, held>>
      /\ UNCHANGED <<covered, late, ended, gone, failed, repeated, excused, stray>>
  BY DEF Connect, Arrive, history
<1>2. p \in Procs /\ Left(p, wire) /\ p \notin stray /\ \A t \in Streamable : held[t] # p
  BY <1>1, Newcomer
<1>3. s \in Sessions /\ s \notin Streamable
  BY SessionAssumption DEF SessionAssumption, Sessions
<1>4. /\ s \notin gone /\ s \notin ended /\ mem[s] = None /\ s \notin born
      /\ \A q \in Procs : job[q].s = s => pc[q] \notin Closing5 \union {"lookup", "stream"}
  BY <1>1, <1>3, Unused
<1>5. j \in Jobs /\ j.kind = "sse" /\ j.s = s /\ j.call = None
  BY <1>3, NewJobPlain DEF Kinds
<1>6. Control /\ MapTyped /\ ProcTyped /\ LogTyped /\ now + TTL \in Nat
  BY SessionAssumption DEF SessionAssumption, SessionInv, Control, Typed, MapTyped
<1>a. Goto(p, "stream", j)
  BY <1>1
<1> HIDE DEF j
<1>7. ProcTyped' /\ pc'[p] = "stream" /\ job'[p] = j /\ Beside(p) /\ Alone(p)
  BY <1>2, <1>5, <1>6, <1>a, GotoDoes DEF Alone, PcValues
<1>8. /\ mem' \in [Sessions -> Nat \union {None}] /\ mem'[s] # None
      /\ \A t \in Sessions \ {s} : mem'[t] = mem[t]
  BY <1>1, <1>3, <1>6, NoneIsNoProc DEF MapTyped
<1>10. MapTyped' /\ LogTyped'
  BY <1>1, <1>3, <1>6, <1>8 DEF MapTyped, LogTyped
<1>14. Placed(p)'
  BY <1>1, <1>5, <1>7 DEF Placed, Closing5
<1>15. Control'
  BY <1>1, <1>2, <1>6, <1>7, <1>10, <1>14, ControlStep DEF Typed
<1>16. LogQuiet
  <2>1. NoNews /\ MarksStay
    BY <1>1, <1>6, OwnWire, PlainReply
  <2>2. \A q \in Procs : Calms(q)
    BY <1>7 DEF Calms, Calm, Alone
  <2> QED  BY <1>1, <2>1, <2>2 DEF LogQuiet
<1>17. ToldInv' /\ OnceInv'
  <2>1. \A t \in ended' : t \in used' /\ mem'[t] = None /\ log[t].calls \subseteq Told
    BY <1>1, <1>4, <1>6, <1>8 DEF SessionInv, ToldInv, MapTyped
  <2> QED  BY <2>1, <1>16, ToldQuiet, OnceQuiet DEF SessionInv
<1>18. GoneInv'
  <2>1. WireQuiet
    BY <1>1 DEF WireQuiet, Rest
  <2>2. \A q \in Procs : pc'[q] \in Closing5 => pc[q] \in Closing5 /\ job'[q].s = job[q].s
    BY <1>7 DEF Alone, Closing5
  <2>3. \A t \in gone : mem'[t] = None /\ (t \in Streamable => copy'[t] = None)
    BY <1>1, <1>4, <1>6, <1>8 DEF SessionInv, GoneInv, MapTyped
  <2>4. \A t \in Streamable \ failed, q \in Procs :
          Closes(q, t) => mem'[t] # None \/ copy'[t] = None
    BY <1>1, <1>3, <1>8 DEF SessionInv, GoneInv, Closes, Sessions
  <2> QED  BY <1>1, <2>1, <2>2, <2>3, <2>4, GoneMap DEF SessionInv
<1>19. StreamInv'
  <2>1. (stray \subseteq {q \in Requests : pc[q] = "stream"})'
    BY <1>1, <1>2, <1>7 DEF SessionInv, StreamInv, Alone, Procs
  <2>2. HeldOpen'
    <3>1. \A t \in Streamable : held[t] # None => held[t] \in Procs \ {p}
      BY <1>2, <1>6 DEF MapTyped, Procs
    <3> QED  BY <1>1, <1>7, <3>1 DEF SessionInv, StreamInv, HeldOpen, Alone
  <2>3. Owned'
    BY <1>1, <1>4, <1>7 DEF SessionInv, StreamInv, Owned, Alone, Closing5
  <2>4. (\A q \in Requests : pc[q] = "stream" /\ q \notin stray => mem[job[q].s] # None /\ Attached(q))'
    <3> SUFFICES ASSUME NEW q \in Requests, pc'[q] = "stream", q \notin stray'
                 PROVE  (mem[job[q].s] # None /\ Attached(q))'
      OBVIOUS
    <3>1. CASE q = p
      BY <1>3, <1>5, <1>7, <1>8, <3>1 DEF Attached
    <3>2. CASE q # p
      <4>1. q \in Procs \ {p} /\ pc[q] = "stream" /\ job'[q] = job[q] /\ q \notin stray
        BY <1>1, <1>7, <3>2 DEF Alone, Procs
      <4>2. mem[job[q].s] # None /\ Attached(q) /\ job[q].s \in Sessions
        BY <4>1, <1>6 DEF SessionInv, StreamInv, Control, Placed, MapTyped
      <4> QED  BY <1>1, <1>8, <4>1, <4>2 DEF Attached
    <3> QED  BY <3>1, <3>2
  <2> QED  BY <2>1, <2>2, <2>3, <2>4 DEF StreamInv
<1> QED  BY <1>15, <1>17, <1>18, <1>19 DEF SessionInv

\* The call of a request is one that no summary has.
LEMMA FreshCall ==
  ASSUME SessionInv, NEW k \in Kinds, NEW s \in Sessions, NEW c, Fresh(k, s, c)
  PROVE  /\ c \in AllCalls \union {None} /\ c \notin covered
         /\ k \in {"call", "reflect"} => c \in CallsOf(s)
BY Untold DEF Fresh, CallsOf, AllCalls

LEMMA LookupStep ==
  ASSUME SessionInv, NEW p \in Requests, NEW k \in Kinds, NEW s \in Streamable, NEW c,
         Ask(p, k, s, c), mem[s] = None
  PROVE  SessionInv'
<1> DEFINE j == [NoJob EXCEPT !.kind = k, !.s = s, !.call = c, !.own = s \in born]
           e == IF up THEN copy[s] ELSE None
<1>1. /\ pc[p] = "idle" /\ s \in used /\ used' = used /\ Fresh(k, s, c)
      /\ wire' = Append(wire, Entry("lookup", p, s, None, NoLog, e))
      /\ Goto(p, "lookup", j)
      /\ UNCHANGED <<now, mem, born, copy, log, up, held>>
      /\ UNCHANGED <<covered, late, ended, gone, failed, repeated, excused, stray>>
  BY DEF Ask, Arrive
<1>2. p \in Procs /\ Left(p, wire) /\ p \notin stray /\ \A t \in Streamable : held[t] # p
  BY <1>1, Newcomer
<1>3. s \in Sessions
  BY DEF Sessions
<1>b. (s \in born) \in BOOLEAN /\ k \in Kinds \union {"initialize"}
  OBVIOUS
<1>4. c \in AllCalls \union {None} /\ c \notin covered /\ (k \in {"call", "reflect"} => c \in CallsOf(s))
  BY <1>1, <1>3, FreshCall
<1>c. PICK b \in BOOLEAN : b = (s \in born)
  BY <1>b
<1>5. j \in Jobs /\ j.kind = k /\ j.s = s /\ j.call = c
  <2>1. j = [NoJob EXCEPT !.kind = k, !.s = s, !.call = c, !.own = b]
    BY <1>c
  <2>2. [NoJob EXCEPT !.kind = k, !.s = s, !.call = c, !.own = b] \in Jobs
    BY <1>3, <1>4, <1>b DEF NoJob, Jobs
  <2>3. j.kind = k /\ j.s = s /\ j.call = c
    BY DEF NoJob
  <2> QED  BY <2>1, <2>2, <2>3
<1>6. Control /\ MapTyped /\ ProcTyped /\ LogTyped /\ s \notin born /\ e \in Nat \union {None}
  BY DEF SessionInv, Control, Typed, MapTyped
<1>a. Goto(p, "lookup", j)
  BY <1>1
<1> HIDE DEF j
<1>7. ProcTyped' /\ pc'[p] = "lookup" /\ job'[p] = j /\ Beside(p) /\ Alone(p)
  BY <1>2, <1>5, <1>6, <1>a, GotoDoes DEF Alone, PcValues
<1>8. MapTyped' /\ LogTyped'
  BY <1>1, <1>6 DEF MapTyped, LogTyped
<1>11. PICK a \in Entries : a = Entry("lookup", p, s, None, NoLog, e)
  <2>1. /\ "lookup" \in Ops /\ p \in Procs \union {None} /\ None \in AllCalls \union {None}
        /\ NoLog \in Logs
    BY <1>2, NoLogTyped DEF Ops
  <2> QED  BY <1>3, <1>6, <2>1, EntryTyped
<1>12. a.op = "lookup" /\ a.by = p /\ a.s = s /\ a.log = NoLog /\ a.exp = e
  BY <1>11 DEF Entry
<1>13. Sound(a)'
  BY <1>1, <1>2, <1>5, <1>7, <1>12, NoneIsNoProc, NoLogTyped DEF Sound, Fits
<1>14. Placed(p)'
  BY <1>1, <1>4, <1>5, <1>7 DEF Placed, Closing5
<1>w. wire' = Append(wire, a)
  BY <1>1, <1>11
<1>15. Control'
  BY <1>1, <1>2, <1>6, <1>7, <1>8, <1>w, <1>12, <1>13, <1>14, ControlStep DEF Typed
<1>16. LogQuiet
  <2>1. NoNews /\ MarksStay
    BY <1>w, <1>6, <1>12, OwnWire, PlainReply
  <2>2. \A q \in Procs : Calms(q)
    BY <1>4, <1>5, <1>7 DEF Calms, Calm, Alone
  <2> QED  BY <1>1, <2>1, <2>2 DEF LogQuiet
<1>17. ToldInv' /\ OnceInv'
  <2>1. \A t \in ended' : t \in used' /\ mem'[t] = None /\ log[t].calls \subseteq Told
    BY <1>1 DEF SessionInv, ToldInv
  <2> QED  BY <2>1, <1>16, ToldQuiet, OnceQuiet DEF SessionInv
<1>18. GoneInv'
  <2>1. wire \in Seq(Entries) /\ GoneInv
    BY <1>6 DEF SessionInv, Control, WireOK
  <2>2. \A t \in Sessions : Restores(a, t) => t = s /\ up /\ copy[s] # None
    BY <1>12 DEF Restores
  <2>3. \A t \in gone : Clear(wire', t)
    <3> SUFFICES ASSUME NEW t \in gone  PROVE Clear(wire', t)
      OBVIOUS
    <3>1. Clear(wire, t) /\ ~Restores(a, t)
      BY <2>1, <2>2, <1>6 DEF GoneInv, MapTyped
    <3> QED  BY <3>1, <2>1, <1>w, BehindPushed
  <2>4. \A t \in Streamable \ failed, q \in Procs : Closes(q, t)' => Behind(q, wire', t)
    <3> SUFFICES ASSUME NEW t \in Streamable \ failed, NEW q \in Procs, Closes(q, t)'
                 PROVE  Behind(q, wire', t)
      OBVIOUS
    <3>1. Closes(q, t)
      BY <1>7 DEF Alone, Closes, Closing5
    <3>2. Behind(q, wire, t) /\ ~Restores(a, t)
      BY <3>1, <2>1, <2>2 DEF GoneInv, Sessions
    <3> QED  BY <3>2, <2>1, <1>w, BehindPushed
  <2>5. ~up' => \A t \in Sessions : Clear(wire', t)
    <3> SUFFICES ASSUME ~up, NEW t \in Sessions  PROVE Clear(wire', t)
      BY <1>1
    <3>1. Clear(wire, t) /\ ~Restores(a, t)
      BY <2>1, <2>2 DEF GoneInv
    <3> QED  BY <3>1, <2>1, <1>w, BehindPushed
  <2>6. \A t \in Streamable \ failed, q \in Procs : Closes(q, t)' => mem[t] # None \/ copy[t] = None
    BY <2>1, <1>7 DEF GoneInv, Alone, Closes, Closing5
  <2> QED  BY <2>1, <2>3, <2>4, <2>5, <2>6, <1>1 DEF GoneInv, Clear, Behind
<1>19. StreamInv'
  <2>1. (stray \subseteq {q \in Requests : pc[q] = "stream"})'
    BY <1>1, <1>2, <1>7 DEF SessionInv, StreamInv, Alone, Procs
  <2>2. HeldOpen'
    <3>1. \A t \in Streamable : held[t] # None => held[t] \in Procs \ {p}
      BY <1>2, <1>6 DEF MapTyped, Procs
    <3> QED  BY <1>1, <1>7, <3>1 DEF SessionInv, StreamInv, HeldOpen, Alone
  <2>3. Owned'
    BY <1>1, <1>5, <1>6, <1>7 DEF SessionInv, StreamInv, Owned, Alone, Closing5
  <2>4. (\A q \in Requests : pc[q] = "stream" /\ q \notin stray => mem[job[q].s] # None /\ Attached(q))'
    BY <1>1, <1>7 DEF SessionInv, StreamInv, Attached, Alone, Procs
  <2> QED  BY <2>1, <2>2, <2>3, <2>4 DEF StreamInv
<1> QED  BY <1>15, <1>17, <1>18, <1>19 DEF SessionInv
-----------------------------------------------------------------------------
(* Streams.                                                                 *)

\* A process opens or leaves a stream: for the sessions and the summaries nothing changes.
LEMMA StreamMove ==
  ASSUME SessionInv, NEW p \in Requests, NEW w, Left(p, w), Off(w, Ops \ {"mark"}),
         NEW l \in {"idle", "stream"}, NEW j \in Jobs, Goto(p, l, j), wire' = w,
         l = "stream" => j.s \in used,
         held' \in [Streamable -> Requests \union {None}],
         UNCHANGED <<now, mem, born, copy, log, up, used, covered, late, ended, gone,
                     failed, repeated, excused>>
  PROVE  /\ Control' /\ ToldInv' /\ OnceInv' /\ GoneInv'
         /\ p \in Procs /\ pc'[p] = l /\ Alone(p) /\ (l = "stream" => job'[p] = j)
         /\ Owned'
<1>1. ProcTyped /\ l \in PcValues /\ p \in Procs /\ Control
  BY DEF SessionInv, Control, Typed, PcValues, Procs
<1>2. /\ ProcTyped' /\ pc'[p] = l /\ Beside(p) /\ Alone(p)
      /\ l = "stream" => job'[p] = j
  <2>1. /\ ProcTyped' /\ pc'[p] = l /\ Beside(p)
        /\ l \notin {"idle", "sweep", "closing"} => job'[p] = j
        /\ \A q \in Procs \ {p} : pc'[q] = pc[q] /\ job'[q] = job[q]
    BY <1>1, GotoDoes
  <2> QED  BY <2>1 DEF Alone
<1>3. Placed(p)'
  BY <1>2 DEF Placed, Closing5
<1>4. MapTyped' /\ LogTyped'
  BY <1>1 DEF Control, Typed, MapTyped, LogTyped
<1>5. Control'
  BY <1>1, <1>2, <1>3, <1>4, ControlStep DEF Typed
<1>6. LogQuiet
  <2>1. NoNews /\ MarksStay
    BY <1>1, PlainReply
  <2>2. \A q \in Procs : Calms(q)
    BY <1>2 DEF Calms, Calm, Alone
  <2> QED  BY <2>1, <2>2 DEF LogQuiet
<1>7. MapQuiet
  <2>1. WireQuiet
    BY OffRest DEF WireQuiet
  <2>2. \A q \in Procs : pc'[q] \in Closing5 => pc[q] \in Closing5 /\ job'[q].s = job[q].s
    BY <1>2 DEF Closing5, Alone
  <2> QED  BY <2>1, <2>2 DEF MapQuiet
<1>8. ToldInv' /\ OnceInv' /\ GoneInv'
  <2>1. \A t \in ended' : t \in used' /\ mem'[t] = None /\ log[t].calls \subseteq Told
    BY DEF SessionInv, ToldInv
  <2> QED  BY <2>1, <1>6, <1>7, ToldQuiet, OnceQuiet, GoneQuiet DEF SessionInv
<1>9. Owned'
  BY <1>2 DEF SessionInv, StreamInv, Owned, Alone, Closing5
<1> QED  BY <1>1, <1>2, <1>5, <1>8, <1>9

\* What holds of the streams and of the sessions that hold them.
LEMMA StreamFacts ==
  ASSUME SessionInv
  PROVE  /\ held \in [Streamable -> Requests \union {None}] /\ Requests \subseteq Procs
         /\ stray \subseteq {q \in Requests : pc[q] = "stream"}
         /\ \A t \in Streamable : held[t] # None =>
              /\ held[t] \in Requests /\ pc[held[t]] = "stream"
              /\ job[held[t]].s = t /\ job[held[t]].own
         /\ \A q \in Requests : pc[q] = "stream" /\ q \notin stray =>
              mem[job[q].s] # None /\ Attached(q)
         /\ \A q \in Requests : pc[q] = "stream" => job[q].s \in Sessions /\ job[q].s \in used
BY DEF SessionInv, StreamInv, HeldOpen, Control, Typed, MapTyped, Placed, Procs

LEMMA LeaveStep ==
  ASSUME SessionInv, NEW p \in Requests, pc[p] = "stream", Goto(p, "idle", NoJob), wire' = wire,
         UNCHANGED <<now, mem, born, copy, log, up, used, covered, late, ended, gone,
                     failed, repeated, excused>>,
         \/ /\ job[p].s \in Streamable
            /\ held' = IF job[p].own THEN [held EXCEPT ![job[p].s] = None] ELSE held
            /\ stray' = (stray \union (IF job[p].own THEN {held[job[p].s]} \ {None} ELSE {})) \ {p}
         \/ /\ job[p].s \notin Streamable
            /\ held' = held /\ stray' = stray \ {p}
  PROVE  SessionInv'
<1> DEFINE s == job[p].s
<1>1. p \in Procs /\ Left(p, wire)
  BY NotWaiting DEF SessionInv, Procs
<1>2. /\ held \in [Streamable -> Requests \union {None}] /\ Requests \subseteq Procs
      /\ stray \subseteq {q \in Requests : pc[q] = "stream"}
      /\ \A t \in Streamable : held[t] # None =>
           /\ held[t] \in Requests /\ pc[held[t]] = "stream"
           /\ job[held[t]].s = t /\ job[held[t]].own
      /\ \A q \in Requests : pc[q] = "stream" /\ q \notin stray =>
           mem[job[q].s] # None /\ Attached(q)
  BY StreamFacts
<1>3. /\ held' \in [Streamable -> Requests \union {None}]
      /\ \A t \in Streamable : held'[t] # None => held'[t] = held[t] /\ held[t] # p
      /\ \A t \in Streamable : held'[t] = held[t] \/ (t = s /\ job[p].own)
  BY <1>2
<1>4. /\ Control' /\ ToldInv' /\ OnceInv' /\ GoneInv' /\ Owned'
      /\ pc'[p] = "idle" /\ Alone(p)
  BY <1>1, <1>3, NoJobTyped, OwnWire, StreamMove
<1>5. (stray \subseteq {q \in Requests : pc[q] = "stream"})'
  BY <1>2, <1>4 DEF Alone
<1>6. HeldOpen'
  BY <1>2, <1>3, <1>4 DEF HeldOpen, Alone
<1>7. (\A q \in Requests : pc[q] = "stream" /\ q \notin stray => mem[job[q].s] # None /\ Attached(q))'
  <2> SUFFICES ASSUME NEW q \in Requests, pc'[q] = "stream", q \notin stray'
               PROVE  (mem[job[q].s] # None /\ Attached(q))'
    OBVIOUS
  <2>1. q \in Procs \ {p} /\ pc[q] = "stream" /\ job'[q] = job[q] /\ q \notin stray
    BY <1>2, <1>4 DEF Alone
  <2>2. mem[job[q].s] # None /\ Attached(q)
    BY <1>2, <2>1
  <2>3. ASSUME job[q].s \in Streamable  PROVE held'[job[q].s] = q
    <3>1. held[job[q].s] = q /\ q # None
      BY <2>2, <2>3, NoneIsNoProc, <2>1 DEF Attached
    <3>2. ~(job[q].s = s /\ job[p].own)
      BY <2>1, <3>1, <2>3
    <3> QED  BY <1>3, <2>3, <3>1, <3>2
  <2> QED  BY <2>1, <2>2, <2>3 DEF Attached
<1> QED  BY <1>4, <1>5, <1>6, <1>7 DEF SessionInv, StreamInv

LEMMA OpenStep ==
  ASSUME SessionInv, NEW p \in Requests, pc[p] = "save", NEW w, Left(p, w), Off(w, Ops \ {"mark"}),
         Goto(p, "stream", job[p]), wire' = w,
         UNCHANGED <<now, mem, born, copy, log, up, used, covered, late, ended, gone,
                     failed, repeated, excused>>,
         held' = IF job[p].own THEN [held EXCEPT ![job[p].s] = p] ELSE held,
         stray' = stray \union (IF job[p].own /\ job[p].s \in born THEN {held[job[p].s]} \ {None}
                                ELSE IF job[p].own THEN ({held[job[p].s]} \ {None}) \union {p}
                                ELSE {p})
  PROVE  SessionInv'
<1> DEFINE s == job[p].s
<1>1. /\ p \in Procs /\ s \in used /\ s \in Streamable /\ job[p] \in Jobs /\ p # None
      /\ s \in born => mem[s] # None
  BY JobTyped, NoneIsNoProc DEF SessionInv, Control, Typed, MapTyped, Placed, Procs
<1>2. /\ held \in [Streamable -> Requests \union {None}] /\ Requests \subseteq Procs
      /\ stray \subseteq {q \in Requests : pc[q] = "stream"}
      /\ \A t \in Streamable : held[t] # None =>
           /\ held[t] \in Requests /\ pc[held[t]] = "stream"
           /\ job[held[t]].s = t /\ job[held[t]].own
      /\ \A q \in Requests : pc[q] = "stream" /\ q \notin stray =>
           mem[job[q].s] # None /\ Attached(q)
  BY StreamFacts
<1>3. /\ held' \in [Streamable -> Requests \union {None}]
      /\ \A t \in Streamable : held'[t] = held[t] \/ (t = s /\ job[p].own /\ held'[t] = p)
      /\ job[p].own => held'[s] = p
  BY <1>1, <1>2
<1>4. /\ Control' /\ ToldInv' /\ OnceInv' /\ GoneInv' /\ Owned'
      /\ pc'[p] = "stream" /\ Alone(p) /\ job'[p] = job[p]
  <2>1. PICK j \in Jobs : j = job[p]
    BY <1>1
  <2> "stream" \in {"idle", "stream"}
    OBVIOUS
  <2>2. Goto(p, "stream", j) /\ j.s \in used
    BY <1>1, <2>1
  <2> QED  BY <2>1, <2>2, <1>3, StreamMove
<1>5. (stray \subseteq {q \in Requests : pc[q] = "stream"})'
  <2>1. \A q \in Requests : pc[q] = "stream" => pc'[q] = "stream"
    BY <1>2, <1>4 DEF Alone
  <2>2. stray' \subseteq stray \union ({held[s]} \ {None}) \union {p}
    OBVIOUS
  <2> QED  BY <1>1, <1>2, <1>4, <2>1, <2>2
<1>6. HeldOpen'
  <2> SUFFICES ASSUME NEW t \in Streamable, held'[t] # None
               PROVE  pc'[held'[t]] = "stream" /\ job'[held'[t]].s = t /\ job'[held'[t]].own
    BY DEF HeldOpen
  <2>1. CASE held'[t] = held[t]
    <3>1. held[t] \in Procs \ {p}
      BY <1>2, <2>1
    <3> QED  BY <1>2, <1>4, <2>1, <3>1 DEF Alone
  <2>2. CASE t = s /\ job[p].own /\ held'[t] = p
    BY <1>4, <2>2
  <2> QED  BY <1>3, <2>1, <2>2
<1>7. (\A q \in Requests : pc[q] = "stream" /\ q \notin stray => mem[job[q].s] # None /\ Attached(q))'
  <2> SUFFICES ASSUME NEW q \in Requests, pc'[q] = "stream", q \notin stray'
               PROVE  (mem[job[q].s] # None /\ Attached(q))'
    OBVIOUS
  <2>1. CASE q = p
    <3>1. job[p].own /\ s \in born
      BY <2>1
    <3> QED  BY <1>1, <1>3, <1>4, <2>1, <3>1 DEF Attached
  <2>2. CASE q # p
    <3>1. q \in Procs \ {p} /\ pc[q] = "stream" /\ job'[q] = job[q] /\ q \notin stray /\ q # None
      BY <1>2, <1>4, <2>2, NoneIsNoProc DEF Alone
    <3>2. mem[job[q].s] # None /\ Attached(q)
      BY <1>2, <3>1
    <3>3. ASSUME job[q].s \in Streamable  PROVE held'[job[q].s] = q
      <4>1. held[job[q].s] = q
        BY <3>2, <3>3 DEF Attached
      <4>2. ~(job[q].s = s /\ job[p].own)
        BY <3>1, <4>1
      <4> QED  BY <1>3, <3>3, <4>1, <4>2
    <3> QED  BY <3>1, <3>2, <3>3 DEF Attached
  <2> QED  BY <2>1, <2>2
<1> QED  BY <1>4, <1>5, <1>6, <1>7 DEF SessionInv, StreamInv
-----------------------------------------------------------------------------
(* A session begins to be closed, or is found and extended.                 *)

\* The session in hand has another expiry, and nothing else of the Map changes.
Touched(s) ==
  /\ mem' \in [Sessions -> Nat \union {None}] /\ mem'[s] # None
  /\ \A t \in Sessions \ {s} : mem'[t] = mem[t]
  /\ born' = born /\ ended' = ended \ {s} /\ s \notin gone
  /\ UNCHANGED <<now, log, up, held, used, covered, late, gone, failed, repeated>>

LEMMA TouchedTyped ==
  ASSUME SessionInv, NEW s \in used, Touched(s), copy' \in [Streamable -> Nat \union {None}]
  PROVE  /\ MapTyped' /\ LogTyped'
         /\ \A t \in ended' : t \in used' /\ mem'[t] = None /\ log[t].calls \subseteq Told
         /\ \A t \in Sessions : mem[t] # None => mem'[t] # None
<1>1. MapTyped /\ LogTyped /\ s \in Sessions
  BY DEF SessionInv, Control, Typed, MapTyped
<1>2. \A t \in Sessions : mem[t] # None => mem'[t] # None
  BY DEF Touched
<1>3. MapTyped'
  BY <1>1, <1>2 DEF Touched, MapTyped
<1>4. LogTyped'
  BY <1>1 DEF Touched, LogTyped
<1>5. \A t \in ended' : t \in used' /\ mem'[t] = None /\ log[t].calls \subseteq Told
  BY <1>1 DEF Touched, SessionInv, ToldInv, MapTyped
<1> QED  BY <1>2, <1>3, <1>4, <1>5

LEMMA BegunStep ==
  ASSUME SessionInv, NEW p \in Procs, NEW s \in used, NEW w, Left(p, w), Off(w, Ops \ {"mark"}),
         pc[p] \notin Closing5 \union {"tool", "delete"},
         pc[p] = "stream" => s \notin Streamable /\ job[p].s = s,
         Begun(p, s, w), ProcTyped', WireOK', Placed(p)', Touched(s), copy' = copy,
         stray' = stray \ {p}
  PROVE  SessionInv'
<1> DEFINE a == Entry("activity", p, s, None, log[s], None)
<1>1. /\ Control /\ MapTyped /\ ProcTyped /\ LogTyped /\ s \in Sessions
      /\ copy \in [Streamable -> Nat \union {None}]
  BY DEF SessionInv, Control, Typed, MapTyped
<1>2. /\ MapTyped' /\ LogTyped'
      /\ \A t \in ended' : t \in used' /\ mem'[t] = None /\ log[t].calls \subseteq Told
      /\ \A t \in Sessions : mem[t] # None => mem'[t] # None
  BY <1>1, TouchedTyped
<1>3. /\ Alone(p) /\ job'[p].s = s /\ job'[p].own = (s \in born) /\ pc'[p] \in {"activity", "close"}
      /\ pc'[p] = "close" => ~job'[p].ok
      /\ excused' = excused \/ excused' = excused \union {s}
  BY DEF Begun
<1>4. Beside(p)
  BY <1>3 DEF Alone, Beside
<1>5. Control'
  <2>1. \A q \in Procs : Placed(q)'
    BY <1>1, <1>4, PlacedStep DEF Touched
  <2> QED  BY <1>2, <2>1 DEF Control, Typed
<1>6. /\ w \in Seq(Entries)
      /\ \A i \in DOMAIN w : \E k \in DOMAIN wire : w[i] = wire[k]
  BY <1>1, RestWas DEF Left
<1>7. PICK b \in Entries : b = a
  <2>1. /\ "activity" \in Ops /\ p \in Procs \union {None} /\ None \in AllCalls \union {None}
        /\ None \in Nat \union {None} /\ log[s] \in Logs
    BY <1>1, LogOf DEF Ops
  <2> QED  BY <1>1, <2>1, EntryTyped
<1>8. b.op = "activity" /\ b.by = p /\ b.s = s /\ b.log = log[s]
  BY <1>7 DEF Entry
<1>9. \/ up /\ wire' = Append(w, b) /\ excused' = (IF Covering(s) THEN excused \union {s} ELSE excused)
      \/ ~up /\ wire' = w /\ pc'[p] = "close"
  BY <1>7 DEF Begun
<1>10. ASSUME NEW i \in DOMAIN wire'
       PROVE  (\E k \in DOMAIN wire : wire'[i] = wire[k]) \/ (up /\ wire'[i] = b)
  <2>1. CASE wire' = w
    BY <1>6, <2>1
  <2>2. CASE up /\ wire' = Append(w, b)
    <3>1. /\ DOMAIN wire' = DOMAIN w \union {Len(w) + 1}
          /\ \A n \in DOMAIN w : wire'[n] = w[n]
          /\ wire'[Len(w) + 1] = b
      BY <1>6, <2>2, Pushed
    <3> QED  BY <1>6, <2>2, <3>1
  <2> QED  BY <1>9, <2>1, <2>2
<1>11. ToldInv'
  <2>1. Told' = Told /\ log' = log
    BY DEF Touched, Told
  <2>2. \A i \in DOMAIN wire' : EntryTold(wire[i])'
    <3> SUFFICES ASSUME NEW i \in DOMAIN wire'  PROVE EntryTold(wire[i])'
      OBVIOUS
    <3>1. ASSUME NEW k \in DOMAIN wire, wire'[i] = wire[k]  PROVE EntryTold(wire[i])'
      BY <2>1, <3>1 DEF SessionInv, ToldInv, EntryTold
    <3>2. CASE wire'[i] = b
      BY <1>1, <1>8, <2>1, <3>2 DEF SessionInv, ToldInv, EntryTold
    <3> QED  BY <3>1, <3>2, <1>10
  <2>3. \A q \in Procs : ProcTold(q)'
    BY <1>3, <2>1 DEF SessionInv, ToldInv, ProcTold, Alone
  <2> QED  BY <1>2, <2>1, <2>2, <2>3 DEF SessionInv, ToldInv
<1>12. MarksStay
  <2> SUFFICES ASSUME NEW t \in Sessions, Marking(wire, t)  PROVE Marking(wire', t)
    BY DEF MarksStay
  <2>1. Marking(w, t)
    BY <1>1, RestMarks
  <2>2. PICK i \in DOMAIN w : w[i].op = "mark" /\ w[i].s = t
    BY <2>1 DEF Marking
  <2>3. i \in DOMAIN wire' /\ wire'[i] = w[i]
    BY <1>6, <1>9, Pushed
  <2> QED  BY <2>2, <2>3 DEF Marking
<1>13. OnceInv'
  <2>1. repeated' \subseteq excused'
    BY <1>3 DEF SessionInv, OnceInv, Touched
  <2> SUFFICES ASSUME NEW t \in Sessions, t \notin excused'  PROVE SessionOnce(t)'
    BY <2>1 DEF OnceInv
  <2>2. SessionOnce(t) /\ t \notin excused /\ log' = log /\ covered' = covered
    BY <1>3 DEF SessionInv, OnceInv, Touched
  <2>3. \A n \in Sessions : Settled(n) => Settled(n)'
    BY <1>12, <2>2 DEF MarksStay, Settled
  <2>4. t = s /\ up => ~Covering(s)
    BY <1>9
  <2>5. \A q, r \in Procs : Covers(q, t)' /\ Covers(r, t)' => q = r
    <3>1. \A q \in Procs \ {p} : Covers(q, t)' => Covers(q, t)
      BY <1>3 DEF Alone, Covers
    <3>2. Covers(p, t)' => t = s /\ up
      BY <1>3, <1>9 DEF Covers
    <3>3. t = s /\ up => \A q \in Procs : ~Covers(q, t)
      BY <2>4 DEF Covering, Covers
    <3> QED  BY <3>1, <3>2, <3>3, <2>2 DEF SessionOnce
  <2>6. (log[t].calls \intersect covered # {} => Settled(t))'
    BY <2>2, <2>3 DEF SessionOnce
  <2>7. ASSUME NEW i \in DOMAIN wire', wire'[i].s = t  PROVE EntryOnce(wire[i])'
    <3>1. ASSUME NEW k \in DOMAIN wire, wire'[i] = wire[k]  PROVE EntryOnce(wire[i])'
      <4>1. EntryOnce(wire[k]) /\ wire[k].s = t
        BY <2>2, <2>7, <3>1 DEF SessionOnce
      <4>2. Settled(wire[k].s) => Settled(t)'
        BY <4>1, <2>3
      <4> QED  BY <2>2, <2>7, <3>1, <4>1, <4>2 DEF EntryOnce
    <3>2. CASE up /\ wire'[i] = b
      <4>1. t = s /\ ~Covering(s)
        BY <1>8, <2>4, <2>7, <3>2
      <4>2. ~Marking(wire, s)
        BY <4>1 DEF Covering, Marking
      <4>3. log[s].calls \intersect covered # {} => log[s].reflected
        BY <4>1, <4>2, <2>2 DEF SessionOnce, Settled
      <4> QED  BY <1>8, <2>2, <3>2, <4>3 DEF EntryOnce
    <3> QED  BY <3>1, <3>2, <1>10
  <2>8. ASSUME NEW q \in Procs, job'[q].s = t  PROVE ProcOnce(q)'
    <3>1. CASE q = p
      BY <1>3, <3>1 DEF ProcOnce
    <3>2. CASE q # p
      <4>1. ProcOnce(q) /\ pc'[q] = pc[q] /\ job'[q] = job[q]
        BY <1>3, <2>2, <2>8, <3>2 DEF SessionOnce, Alone
      <4> QED  BY <2>2, <2>3, <2>8, <4>1 DEF ProcOnce
    <3> QED  BY <3>1, <3>2
  <2> QED  BY <2>5, <2>6, <2>7, <2>8 DEF SessionOnce
<1>14. GoneInv'
  <2>1. /\ GoneInv /\ up' = up /\ used' = used /\ gone' = gone /\ failed' = failed
        /\ \A t : ~Restores(b, t)
    BY <1>8 DEF SessionInv, Touched, Restores
  <2>2. WireQuiet
    BY <1>8, <1>9 DEF WireQuiet, Restoring, Left
  <2>3. ASSUME NEW q, NEW t
        PROVE  /\ Behind(q, wire, t) => Behind(q, wire', t)
               /\ Clear(wire, t) => Clear(wire', t)
    BY <1>1, <2>2, WireBehind
  <2>4. \A t \in gone : mem'[t] = None /\ (t \in Streamable => copy'[t] = None) /\ Clear(wire', t)
    BY <2>1, <2>3, <1>1 DEF GoneInv, Touched, MapTyped
  <2>5. s \in Streamable => Behind(p, wire', s)
    <3>1. CASE up /\ wire' = Append(w, b)
      BY <1>6, <1>8, <2>1, <3>1, BehindPushed
    <3>2. CASE ~up
      <4>1. Clear(wire', s)
        BY <2>1, <2>3, <3>2, <1>1 DEF GoneInv
      <4> QED  BY <4>1 DEF Clear, Behind
    <3> QED  BY <1>9, <3>1, <3>2
  <2>6. ASSUME NEW t \in Streamable \ failed, NEW q \in Procs, Closes(q, t)'
        PROVE  (mem'[t] # None \/ copy'[t] = None) /\ Behind(q, wire', t)
    <3>1. CASE q = p
      <4>1. t = s
        BY <1>3, <2>6, <3>1 DEF Closes
      <4> QED  BY <3>1, <4>1, <2>5 DEF Touched
    <3>2. CASE q # p
      <4>1. Closes(q, t) /\ t \in Sessions
        BY <1>3, <2>6, <3>2 DEF Closes, Alone, Sessions
      <4> QED  BY <4>1, <1>2, <2>1, <2>3, <2>6 DEF GoneInv
    <3> QED  BY <3>1, <3>2
  <2>7. ~up' => \A t \in Sessions : Clear(wire', t)
    BY <2>1, <2>3 DEF GoneInv
  <2> QED  BY <2>1, <2>4, <2>6, <2>7 DEF GoneInv, Clear, Behind
<1>15. StreamInv'
  <2>1. /\ held \in [Streamable -> Requests \union {None}] /\ Requests \subseteq Procs
        /\ stray \subseteq {q \in Requests : pc[q] = "stream"}
        /\ \A t \in Streamable : held[t] # None =>
             /\ held[t] \in Requests /\ pc[held[t]] = "stream"
             /\ job[held[t]].s = t /\ job[held[t]].own
        /\ \A q \in Requests : pc[q] = "stream" /\ q \notin stray =>
             mem[job[q].s] # None /\ Attached(q)
        /\ \A q \in Requests : pc[q] = "stream" => job[q].s \in Sessions /\ job[q].s \in used
    BY StreamFacts
  <2>2. held' = held /\ born' = born
    BY DEF Touched
  <2>3. (stray \subseteq {q \in Requests : pc[q] = "stream"})'
    BY <1>3, <2>1 DEF Alone
  <2>4. HeldOpen'
    <3>1. \A t \in Streamable : held[t] # None => held[t] \in Procs \ {p}
      BY <2>1
    <3> QED  BY <1>3, <2>1, <2>2, <3>1 DEF HeldOpen, Alone
  <2>5. Owned'
    BY <1>3, <2>2 DEF SessionInv, StreamInv, Owned, Alone
  <2>6. (\A q \in Requests : pc[q] = "stream" /\ q \notin stray => mem[job[q].s] # None /\ Attached(q))'
    <3> SUFFICES ASSUME NEW q \in Requests, pc'[q] = "stream", q \notin stray'
                 PROVE  (mem[job[q].s] # None /\ Attached(q))'
      OBVIOUS
    <3>1. q \in Procs \ {p} /\ pc[q] = "stream" /\ job'[q] = job[q] /\ q \notin stray
      BY <1>3, <2>1 DEF Alone
    <3> QED  BY <1>2, <2>1, <2>2, <3>1 DEF Attached
  <2> QED  BY <2>3, <2>4, <2>5, <2>6 DEF StreamInv
<1> QED  BY <1>5, <1>11, <1>13, <1>14, <1>15 DEF SessionInv

LEMMA CloseStep ==
  ASSUME SessionInv, NEW p \in Procs, NEW j \in Jobs, j.s \in used, NEW w, Left(p, w),
         Off(w, Ops \ {"mark"}), pc[p] \notin Closing5 \union {"tool", "delete"},
         pc[p] = "stream" => j.s \notin Streamable /\ job[p].s = j.s,
         BeginClose(p, j, w), mem[j.s] # None,
         UNCHANGED <<now, mem, born, copy, log, up, held, used, covered, late, ended, gone,
                     failed, repeated>>,
         stray' = stray \ {p}
  PROVE  SessionInv'
<1>1. ProcTyped' /\ WireOK' /\ Placed(p)' /\ Begun(p, j.s, w)
  BY BeginDoes DEF SessionInv
<1>2. Touched(j.s)
  <2>1. mem \in [Sessions -> Nat \union {None}]
    BY DEF SessionInv, Control, Typed, MapTyped
  <2>2. j.s \notin ended /\ j.s \notin gone
    BY DEF SessionInv, ToldInv, GoneInv
  <2> QED  BY <2>1, <2>2 DEF Touched
<1>3. PICK s \in used : s = j.s
  OBVIOUS
<1> QED  BY <1>1, <1>2, <1>3, BegunStep

\* The session is extended, and the request goes on once Redis has answered.
LEMMA ExtendStep ==
  ASSUME SessionInv, NEW p \in Requests, NEW j \in Jobs, NEW s \in used, j.s = s, s \in Streamable,
         NEW w, Left(p, w), Off(w, Ops \ {"mark"}), pc[p] \in {"idle", "lookup"},
         j.call \notin covered \/ (pc[p] = "lookup" /\ j = job[p]),
         Alone(p), pc'[p] = "save", job'[p] = j, excused' = excused,
         wire' = Append(w, Await("saved", p, s)),
         ProcTyped', WireOK', Placed(p)', Touched(s),
         copy' \in [Streamable -> Nat \union {None}],
         \A t \in Streamable \ {s} : copy'[t] = copy[t],
         stray' = stray
  PROVE  SessionInv'
<1>1. /\ Control /\ MapTyped /\ p \in Procs /\ Beside(p) /\ s \in Sessions
  BY DEF SessionInv, Control, Typed, MapTyped, Alone, Beside, Procs
<1>2. /\ MapTyped' /\ LogTyped'
      /\ \A t \in ended' : t \in used' /\ mem'[t] = None /\ log[t].calls \subseteq Told
      /\ \A t \in Sessions : mem[t] # None => mem'[t] # None
  BY TouchedTyped
<1>3. Control'
  <2>1. \A q \in Procs : Placed(q)'
    BY <1>1, PlacedStep DEF Touched
  <2> QED  BY <1>2, <2>1 DEF Control, Typed
<1>4. PICK a \in Entries : a = Await("saved", p, s)
  BY <1>1, AwaitTyped DEF Ops
<1>5. a.op = "saved" /\ a.log = NoLog /\ wire' = Append(w, a)
  BY <1>4 DEF Await, Entry
<1>6. LogQuiet
  <2>1. NoNews /\ MarksStay
    BY <1>1, <1>5, PlainReply
  <2>2. \A q \in Procs : Calms(q)
    BY DEF Calms, Calm, Alone
  <2> QED  BY <2>1, <2>2 DEF LogQuiet, Touched
<1>7. ToldInv' /\ OnceInv'
  BY <1>1, <1>2, <1>6, ToldQuiet, OnceQuiet DEF SessionInv
<1>8. GoneInv'
  <2>1. WireQuiet
    BY <1>5 DEF WireQuiet, Restoring, Left
  <2>2. \A q \in Procs : pc'[q] \in Closing5 => pc[q] \in Closing5 /\ job'[q].s = job[q].s
    BY DEF Alone, Closing5
  <2>3. \A t \in gone : mem'[t] = None /\ (t \in Streamable => copy'[t] = None)
    BY <1>1 DEF SessionInv, GoneInv, MapTyped, Touched
  <2>4. \A t \in Streamable \ failed, q \in Procs :
          Closes(q, t) => mem'[t] # None \/ copy'[t] = None
    BY <1>2 DEF SessionInv, GoneInv, Touched, Sessions
  <2> QED  BY <1>1, <2>1, <2>2, <2>3, <2>4, GoneMap DEF SessionInv, Touched
<1>9. StreamInv'
  <2>1. /\ held \in [Streamable -> Requests \union {None}] /\ Requests \subseteq Procs
        /\ stray \subseteq {q \in Requests : pc[q] = "stream"}
        /\ \A t \in Streamable : held[t] # None =>
             /\ held[t] \in Requests /\ pc[held[t]] = "stream"
             /\ job[held[t]].s = t /\ job[held[t]].own
        /\ \A q \in Requests : pc[q] = "stream" /\ q \notin stray =>
             mem[job[q].s] # None /\ Attached(q)
        /\ \A q \in Requests : pc[q] = "stream" => job[q].s \in Sessions /\ job[q].s \in used
    BY StreamFacts
  <2>2. held' = held /\ born' = born
    BY DEF Touched
  <2>3. (stray \subseteq {q \in Requests : pc[q] = "stream"})'
    BY <2>1 DEF Alone
  <2>4. HeldOpen'
    <3>1. \A t \in Streamable : held[t] # None => held[t] \in Procs \ {p}
      BY <2>1
    <3> QED  BY <2>1, <2>2, <3>1 DEF HeldOpen, Alone
  <2>5. Owned'
    BY <2>2 DEF SessionInv, StreamInv, Owned, Alone, Closing5
  <2>6. (\A q \in Requests : pc[q] = "stream" /\ q \notin stray => mem[job[q].s] # None /\ Attached(q))'
    <3> SUFFICES ASSUME NEW q \in Requests, pc'[q] = "stream", q \notin stray'
                 PROVE  (mem[job[q].s] # None /\ Attached(q))'
      OBVIOUS
    <3>1. q \in Procs \ {p} /\ pc[q] = "stream" /\ job'[q] = job[q] /\ q \notin stray
      BY <2>1 DEF Alone
    <3> QED  BY <1>2, <2>1, <2>2, <3>1 DEF Attached
  <2> QED  BY <2>3, <2>4, <2>5, <2>6 DEF StreamInv
<1> QED  BY <1>3, <1>7, <1>8, <1>9 DEF SessionInv

\* The rest of validateStreamableSession, for a session of the Map or of Redis.
LEMMA FoundStep ==
  ASSUME SessionInv, NEW p \in Requests, NEW j \in Jobs, NEW e \in Nat, NEW w, Left(p, w),
         Off(w, Ops \ {"mark"}), pc[p] \in {"idle", "lookup"},
         j.s \in used \intersect Streamable, j.kind \in Kinds,
         j.kind \in {"call", "reflect"} => j.call \in CallsOf(j.s),
         j.call \notin covered \/ (pc[p] = "lookup" /\ j = job[p]),
         Found(p, j, e, w), j.s \notin gone, ended' = ended \ {j.s},
         UNCHANGED <<now, born, log, up, held, used, covered, late, gone, failed, repeated, stray>>
  PROVE  SessionInv'
<1>1. /\ ProcTyped' /\ Beside(p) /\ WireOK' /\ Placed(p)'
      /\ mem' \in [Sessions -> Nat \union {None}] /\ mem'[j.s] # None
      /\ \A s \in Sessions \ {j.s} : mem'[s] = mem[s]
      /\ copy' \in [Streamable -> Nat \union {None}]
      /\ \A s \in Streamable \ {j.s} : copy'[s] = copy[s]
      /\ \/ now > e /\ Begun(p, j.s, w) /\ copy' = copy
         \/ /\ Alone(p) /\ pc'[p] = "save" /\ job'[p] = j /\ excused' = excused
            /\ wire' = Append(w, Await("saved", p, j.s))
  BY FoundDoes DEF SessionInv
<1>2. PICK s \in used : s = j.s
  OBVIOUS
<1>3. Touched(s)
  BY <1>1, <1>2 DEF Touched
<1>4. p \in Procs /\ p \notin stray
  BY StreamFacts
<1>5. CASE Begun(p, s, w) /\ copy' = copy
  <2>1. stray' = stray \ {p}
    BY <1>4
  <2>2. pc[p] \notin Closing5 \union {"tool", "delete"} /\ pc[p] # "stream"
    BY DEF Closing5
  <2> QED  BY <1>1, <1>3, <1>4, <1>5, <2>1, <2>2, BegunStep
<1>6. CASE /\ Alone(p) /\ pc'[p] = "save" /\ job'[p] = j /\ excused' = excused
           /\ wire' = Append(w, Await("saved", p, s))
  BY <1>1, <1>2, <1>3, <1>6, ExtendStep
<1> QED  BY <1>1, <1>2, <1>5, <1>6

LEMMA AskStep ==
  ASSUME SessionInv, NEW p \in Requests, NEW k \in Kinds, NEW s \in Streamable, NEW c,
         Ask(p, k, s, c)
  PROVE  SessionInv'
<1>1. CASE mem[s] = None
  BY <1>1, LookupStep
<1>2. CASE mem[s] # None
  <2> DEFINE j == [NoJob EXCEPT !.kind = k, !.s = s, !.call = c, !.own = s \in born]
  <2>1. /\ pc[p] = "idle" /\ s \in used /\ used' = used /\ Fresh(k, s, c)
        /\ Found(p, j, mem[s], wire)
        /\ UNCHANGED <<now, born, log, up, held, covered, late, ended, gone, failed, repeated, stray>>
    BY <1>2 DEF Ask, Arrive
  <2>2. s \in Sessions /\ (s \in born) \in BOOLEAN
    BY DEF Sessions
  <2>3. /\ c \in AllCalls \union {None} /\ c \notin covered
        /\ k \in {"call", "reflect"} => c \in CallsOf(s)
    BY <2>1, <2>2, FreshCall
  <2>4. PICK own \in BOOLEAN : own = (s \in born)
    BY <2>2
  <2>5. j \in Jobs /\ j.kind = k /\ j.s = s /\ j.call = c
    <3>1. j = [NoJob EXCEPT !.kind = k, !.s = s, !.call = c, !.own = own]
      BY <2>4
    <3>2. [NoJob EXCEPT !.kind = k, !.s = s, !.call = c, !.own = own] \in Jobs
      BY <2>2, <2>3 DEF NoJob, Jobs
    <3>3. j.kind = k /\ j.s = s /\ j.call = c
      BY DEF NoJob
    <3> QED  BY <3>1, <3>2, <3>3
  <2> HIDE DEF j
  <2>6. Left(p, wire)
    BY <2>1, Newcomer
  <2>7. mem[s] \in Nat /\ s \notin ended /\ s \notin gone
    BY <1>2, <2>2 DEF SessionInv, Control, Typed, MapTyped, ToldInv, GoneInv
  <2> QED  BY <2>1, <2>3, <2>5, <2>6, <2>7, OwnWire, FoundStep
<1> QED  BY <1>1, <1>2

\* Redis answers a request for a session that the Map did not have.
LEMMA LookedUpStep ==
  ASSUME SessionInv, wire # <<>>, Head(wire).op = "lookup", Reply
  PROVE  SessionInv'
<1> DEFINE e == Head(wire)
           p == e.by
<1>1. /\ e \in Entries /\ Sound(e) /\ p \in Procs /\ p # None /\ 1 \in DOMAIN wire /\ e = wire[1]
  BY HeadSound, NoneIsNoProc DEF SessionInv
<1>2. pc[p] = "lookup" /\ job[p].s = e.s /\ Placed(p)
  BY <1>1 DEF Sound, Fits, SessionInv, Control
<1>3. /\ p \in Requests /\ e.s \in used \intersect Streamable /\ job[p].kind \in Kinds
      /\ job[p].kind \in {"call", "reflect"} => job[p].call \in CallsOf(job[p].s)
  BY <1>2 DEF Placed
<1>4. Left(p, Tail(wire)) /\ Off(Tail(wire), Ops \ {"mark"})
  BY <1>1, Answered DEF SessionInv, Off, Ops
<1>5. CASE e.exp = None
  <2>1. /\ Goto(p, "idle", NoJob) /\ wire' = Tail(wire)
        /\ UNCHANGED <<now, mem, born, copy, log, up, held, used, history>>
    BY <1>5 DEF Reply, history
  <2> HIDE DEF e, p
  <2> QED  BY <2>1, <1>1, <1>2, <1>4, NoJobTyped, PlainStep
<1>6. CASE e.exp # None
  <2>1. /\ Found(p, job[p], e.exp, Tail(wire))
        /\ born' = born \ {e.s} /\ ended' = ended \ {e.s}
        /\ UNCHANGED <<now, log, up, held, used, covered, late, gone, failed, repeated, stray>>
    BY <1>6 DEF Reply
  <2>2. e.s \notin born
    BY <1>2, <1>1 DEF SessionInv, StreamInv, Owned
  <2>3. e.s \notin gone
    BY <1>1, <1>6 DEF SessionInv, GoneInv, Clear, Restores
  <2>4. e.exp \in Nat /\ job[p] \in Jobs
    BY <1>1, <1>6, JobTyped DEF Entries
  <2> HIDE DEF e, p
  <2>5. born' = born
    BY <2>1, <2>2
  <2>6. PICK j \in Jobs : j = job[p]
    BY <2>4
  <2>7. Found(p, j, e.exp, Tail(wire)) /\ j.s = e.s
    BY <2>1, <2>6, <1>2
  <2> QED  BY <2>1, <2>3, <2>4, <2>5, <2>6, <2>7, <1>2, <1>3, <1>4, FoundStep
<1> QED  BY <1>5, <1>6

-----------------------------------------------------------------------------
(* Tools.                                                                   *)

\* A tool starts; a reflect takes the calls of the record in hand.
LEMMA ToolStep ==
  ASSUME SessionInv, NEW p \in Requests, NEW j \in Jobs, NEW w, Left(p, w), Off(w, Ops \ {"mark"}),
         pc[p] \in {"idle", "save"}, j.s \in used, j.kind \in {"call", "reflect"},
         j.call \in CallsOf(j.s), j.call \notin covered \/ (pc[p] = "save" /\ j = job[p]),
         StartTool(p, j), wire' = w,
         UNCHANGED <<now, mem, born, copy, log, up, held, used, covered, late, ended, gone,
                     failed, repeated, stray>>
  PROVE  SessionInv'
<1>1. /\ ProcTyped' /\ Alone(p) /\ Beside(p) /\ Placed(p)'
      /\ pc'[p] = "tool" /\ job'[p].s = j.s /\ job'[p].kind = j.kind
      /\ job'[p].call = j.call /\ job'[p].snap = log[j.s].calls /\ job'[p].own = j.own
      /\ excused' = IF j.kind = "reflect" /\ Covering(j.s)
                    THEN excused \union {j.s} ELSE excused
  BY StartDoes DEF SessionInv
<1>2. Control /\ MapTyped' /\ LogTyped' /\ p \in Procs
  BY DEF SessionInv, Control, Typed, MapTyped, LogTyped, Procs
<1>3. Control'
  BY <1>1, <1>2, ControlStep DEF Typed
<1>4. NoNews /\ MarksStay
  BY <1>2, PlainReply
<1>5. Told' = Told /\ log' = log /\ covered' = covered
  BY DEF Told
<1>6. ToldInv'
  <2>1. \A t \in ended' : t \in used' /\ mem'[t] = None /\ log'[t].calls \subseteq Told'
    BY <1>5 DEF SessionInv, ToldInv
  <2>2. \A i \in DOMAIN wire' : EntryTold(wire[i])'
    <3> SUFFICES ASSUME NEW i \in DOMAIN wire'  PROVE EntryTold(wire[i])'
      OBVIOUS
    <3>1. CASE wire'[i].op \notin {"record", "mark", "activity"} /\ wire'[i].log = NoLog
      BY <3>1, NoLogTyped DEF EntryTold
    <3>2. ASSUME NEW k \in DOMAIN wire, wire'[i] = wire[k]  PROVE EntryTold(wire[i])'
      BY <1>5, <3>2 DEF SessionInv, ToldInv, EntryTold
    <3> QED  BY <3>1, <3>2, <1>4 DEF NoNews
  <2>3. \A q \in Procs : ProcTold(q)'
    BY <1>1, <1>5 DEF SessionInv, ToldInv, ProcTold, Alone
  <2> QED  BY <2>1, <2>2, <2>3, <1>5 DEF SessionInv, ToldInv
<1>7. OnceInv'
  <2>1. repeated' \subseteq excused' /\ excused \subseteq excused'
    BY <1>1 DEF SessionInv, OnceInv
  <2> SUFFICES ASSUME NEW t \in Sessions, t \notin excused'  PROVE SessionOnce(t)'
    BY <2>1 DEF OnceInv
  <2>2. SessionOnce(t)
    BY <2>1 DEF SessionInv, OnceInv
  <2>3. \A n \in Sessions : Settled(n) => Settled(n)'
    BY <1>4, <1>5 DEF MarksStay, Settled
  <2>4. \A q, r \in Procs : Covers(q, t)' /\ Covers(r, t)' => q = r
    <3>1. \A q \in Procs \ {p} : Covers(q, t)' => Covers(q, t)
      BY <1>1 DEF Alone, Covers
    <3>2. Covers(p, t)' => \A q \in Procs : ~Covers(q, t)
      BY <1>1 DEF Covers, Covering
    <3> QED  BY <3>1, <3>2, <2>2 DEF SessionOnce
  <2>5. (log[t].calls \intersect covered # {} => Settled(t))'
    BY <1>5, <2>2, <2>3 DEF SessionOnce
  <2>6. ASSUME NEW i \in DOMAIN wire', wire'[i].s = t  PROVE EntryOnce(wire[i])'
    <3>1. CASE wire'[i].op \notin {"record", "mark", "activity"}
      BY <3>1 DEF EntryOnce
    <3>2. ASSUME NEW k \in DOMAIN wire, wire'[i] = wire[k]  PROVE EntryOnce(wire[i])'
      <4>1. EntryOnce(wire[k]) /\ wire[k].s = t
        BY <2>2, <2>6, <3>2 DEF SessionOnce
      <4>2. Settled(wire[k].s) => Settled(t)'
        BY <4>1, <2>3
      <4> QED  BY <1>5, <2>6, <3>2, <4>1, <4>2 DEF EntryOnce
    <3> QED  BY <3>1, <3>2, <1>4 DEF NoNews
  <2>7. ASSUME NEW q \in Procs, job'[q].s = t  PROVE ProcOnce(q)'
    <3>1. CASE q = p
      <4>1. job'[p].call \in covered => Settled(t)'
        <5> SUFFICES ASSUME j.call \in covered  PROVE Settled(t)'
          BY <1>1
        <5>1. pc[p] = "save" /\ j = job[p] /\ job[p].s = t
          BY <1>1, <2>7, <3>1
        <5>2. ProcOnce(p)
          BY <2>2, <5>1, <1>2 DEF SessionOnce
        <5> QED  BY <5>1, <5>2, <2>3 DEF ProcOnce
      <4> QED  BY <1>1, <1>5, <2>7, <3>1, <4>1 DEF ProcOnce
    <3>2. CASE q # p
      <4>1. ProcOnce(q) /\ pc'[q] = pc[q] /\ job'[q] = job[q]
        BY <1>1, <2>2, <2>7, <3>2 DEF SessionOnce, Alone
      <4> QED  BY <1>5, <2>3, <2>7, <4>1 DEF ProcOnce
    <3> QED  BY <3>1, <3>2
  <2> QED  BY <2>4, <2>5, <2>6, <2>7 DEF SessionOnce
<1>8. MapQuiet
  <2>1. WireQuiet
    BY OffRest DEF WireQuiet
  <2>2. \A q \in Procs : pc'[q] \in Closing5 => pc[q] \in Closing5 /\ job'[q].s = job[q].s
    BY <1>1 DEF Closing5, Alone
  <2> QED  BY <2>1, <2>2 DEF MapQuiet
<1>9. StreamQuiet
  BY <1>1 DEF StreamQuiet, Closing5, Alone
<1> QED  BY <1>2, <1>3, <1>6, <1>7, <1>8, <1>9, GoneQuiet, StreamsQuiet DEF SessionInv

LEMMA MessageStep ==
  ASSUME SessionInv, NEW p \in Requests, NEW k \in Kinds, NEW s \in Legacy, NEW c,
         Message(p, k, s, c)
  PROVE  SessionInv'
<1> DEFINE j == [NoJob EXCEPT !.kind = k, !.s = s, !.call = c]
<1>1. /\ pc[p] = "idle" /\ s \in used /\ Fresh(k, s, c) /\ mem[s] # None
      /\ k \in {"call", "reflect"}
      /\ \/ BeginClose(p, j, wire)
         \/ StartTool(p, j) /\ wire' = wire
      /\ UNCHANGED <<now, mem, born, copy, log, up, held, used, covered, late, ended, gone,
                     failed, repeated, stray>>
  BY DEF Message, Arrive
<1>2. s \in Sessions
  BY DEF Sessions
<1>3. c \in AllCalls \union {None} /\ c \notin covered /\ c \in CallsOf(s)
  BY <1>1, <1>2, FreshCall
<1>4. j \in Jobs /\ j.kind = k /\ j.s = s /\ j.call = c
  <2>1. j \in Jobs
    BY <1>2, <1>3 DEF NoJob, Jobs
  <2> QED  BY <2>1 DEF NoJob
<1> HIDE DEF j
<1>5. p \in Procs /\ Left(p, wire) /\ p \notin stray
  BY <1>1, Newcomer
<1>6. CASE BeginClose(p, j, wire)
  <2>1. stray' = stray \ {p} /\ pc[p] \notin Closing5 \union {"tool", "delete"} /\ pc[p] # "stream"
    BY <1>1, <1>5 DEF Closing5
  <2>2. j.s \in used /\ mem[j.s] # None
    BY <1>1, <1>4
  <2> QED  BY <1>1, <1>4, <1>5, <1>6, <2>1, <2>2, OwnWire, CloseStep
<1>7. CASE StartTool(p, j) /\ wire' = wire
  <2>1. pc[p] \in {"idle", "save"} /\ j.s \in used /\ j.kind \in {"call", "reflect"}
        /\ j.call \in CallsOf(j.s) /\ j.call \notin covered
    BY <1>1, <1>3, <1>4
  <2> QED  BY <1>1, <1>4, <1>5, <1>7, <2>1, OwnWire, ToolStep
<1> QED  BY <1>1, <1>6, <1>7

LEMMA ClientLeavesStep ==
  ASSUME SessionInv, NEW p \in Requests, ClientLeaves(p)
  PROVE  SessionInv'
<1>1. /\ pc[p] = "stream"
      /\ UNCHANGED <<now, mem, born, copy, log, up, used, covered, late, ended, gone,
                     failed, repeated>>
  BY DEF ClientLeaves
<1>2. p \in Procs /\ job[p] \in Jobs /\ job[p].s \in used
  BY <1>1, StreamFacts, JobTyped
<1>3. CASE job[p].s \in Streamable
  <2>1. /\ Goto(p, "idle", NoJob) /\ wire' = wire /\ excused' = excused
        /\ held' = IF job[p].own THEN [held EXCEPT ![job[p].s] = None] ELSE held
        /\ stray' = (stray \union (IF job[p].own THEN {held[job[p].s]} \ {None} ELSE {})) \ {p}
    BY <1>3 DEF ClientLeaves
  <2> QED  BY <1>1, <1>3, <2>1, LeaveStep
<1>4. CASE job[p].s \notin Streamable /\ mem[job[p].s] = None
  <2>1. /\ Goto(p, "idle", NoJob) /\ wire' = wire /\ excused' = excused
        /\ held' = held /\ stray' = stray \ {p}
    BY <1>4 DEF ClientLeaves
  <2> QED  BY <1>1, <1>4, <2>1, LeaveStep
<1>5. CASE job[p].s \notin Streamable /\ mem[job[p].s] # None
  <2>1. BeginClose(p, job[p], wire) /\ held' = held /\ stray' = stray \ {p}
    BY <1>5 DEF ClientLeaves
  <2>2. Left(p, wire)
    BY <1>1, <1>2, NotWaiting DEF SessionInv
  <2>3. pc[p] \notin Closing5 \union {"tool", "delete"}
    BY <1>1 DEF Closing5
  <2>4. PICK j \in Jobs : j = job[p]
    BY <1>2
  <2> QED  BY <1>1, <1>2, <1>5, <2>1, <2>2, <2>3, <2>4, OwnWire, CloseStep
<1> QED  BY <1>3, <1>4, <1>5

LEMMA SweepCloseStep ==
  ASSUME SessionInv, NEW p \in Sweeps, NEW s \in Sessions, SweepClose(p, s)
  PROVE  SessionInv'
<1> DEFINE j == [job[p] EXCEPT !.s = s, !.todo = @ \ {s}]
<1>1. /\ p \in Procs /\ pc[p] = "sweep" /\ mem[s] # None /\ BeginClose(p, j, wire)
      /\ UNCHANGED <<now, mem, born, copy, log, up, held, used, covered, late, ended, gone,
                     failed, repeated, stray>>
  BY DEF SweepClose, Procs
<1>2. j \in Jobs /\ j.s = s
  <2>1. job[p] \in Jobs
    BY <1>1, JobTyped
  <2> QED  BY <2>1 DEF Jobs
<1> HIDE DEF j
<1>3. s \in used /\ Left(p, wire)
  BY <1>1, NotWaiting DEF SessionInv, Control, Typed, MapTyped
<1>4. stray' = stray \ {p} /\ pc[p] \notin Closing5 \union {"tool", "delete"} /\ pc[p] # "stream"
  <2>1. p \notin stray
    BY <1>1, StreamFacts
  <2> QED  BY <1>1, <2>1 DEF Closing5
<1> QED  BY <1>1, <1>2, <1>3, <1>4, OwnWire, CloseStep

LEMMA ShutdownCloseStep ==
  ASSUME SessionInv, NEW s \in Sessions, ShutdownClose(s)
  PROVE  SessionInv'
<1> DEFINE p == Shutdown
           j == [job[p] EXCEPT !.s = s, !.todo = @ \ {s}]
<1>1. /\ p \in Procs /\ pc[p] = "closing"
      /\ \/ mem[s] = None /\ Goto(p, "closing", j) /\ wire' = wire /\ excused' = excused
         \/ mem[s] # None /\ BeginClose(p, j, wire)
      /\ UNCHANGED <<now, mem, born, copy, log, up, held, used, covered, late, ended, gone,
                     failed, repeated, stray>>
  BY DEF ShutdownClose, Procs
<1>2. j \in Jobs /\ j.s = s
  <2>1. job[p] \in Jobs
    BY <1>1, JobTyped
  <2> QED  BY <2>1 DEF Jobs
<1>3. Left(p, wire)
  BY <1>1, NotWaiting DEF SessionInv
<1> HIDE DEF j
<1>4. CASE mem[s] = None
  <2>1. /\ Goto(p, "closing", j) /\ wire' = wire
        /\ UNCHANGED <<now, mem, born, copy, log, up, held, used, history>>
    BY <1>1, <1>4 DEF history
  <2> QED  BY <1>1, <1>2, <1>3, <2>1, OwnWire, PlainStep
<1>5. CASE mem[s] # None
  <2>1. s \in used
    BY <1>5 DEF SessionInv, Control, Typed, MapTyped
  <2>2. stray' = stray \ {p} /\ pc[p] \notin Closing5 \union {"tool", "delete"} /\ pc[p] # "stream"
    <3>1. p \notin stray
      BY <1>1, StreamFacts
    <3> QED  BY <1>1, <3>1 DEF Closing5
  <2> QED  BY <1>1, <1>2, <1>3, <1>5, <2>1, <2>2, OwnWire, CloseStep
<1> QED  BY <1>4, <1>5

\* Redis answers that a session was saved.
LEMMA SavedStep ==
  ASSUME SessionInv, wire # <<>>, Head(wire).op = "saved", Reply
  PROVE  SessionInv'
<1>1. PICK p : p = Head(wire).by
  OBVIOUS
<1>2. /\ p \in Procs /\ pc[p] = "save" /\ Left(p, Tail(wire)) /\ Off(Tail(wire), Ops \ {"mark"})
  <2>1. p \in Procs /\ Sound(Head(wire)) /\ p # None
    BY <1>1, HeadSound, NoneIsNoProc DEF SessionInv
  <2>2. pc[p] = "save"
    BY <1>1, <2>1 DEF Sound, Fits
  <2>3. Left(p, Tail(wire))
    BY <1>1, <2>1, Answered DEF SessionInv
  <2> QED  BY <2>1, <2>2, <2>3 DEF Off, Ops
<1>3. PICK j \in Jobs : j = job[p]
  BY <1>2, JobTyped
<1>4. /\ p \in Requests /\ j.s \in used /\ j.s \in Streamable /\ j.kind \in Kinds \union {"initialize"}
      /\ j.kind \in {"call", "reflect"} => j.call \in CallsOf(j.s)
  BY <1>2, <1>3 DEF SessionInv, Control, Placed
<1>5. /\ Validated(p, Tail(wire))
      /\ UNCHANGED <<now, up, used, log, covered, late, repeated>>
  BY <1>1 DEF Reply
<1>6. CASE j.kind = "initialize"
  <2>1. /\ Goto(p, "idle", NoJob) /\ wire' = Tail(wire)
        /\ UNCHANGED <<now, mem, born, copy, log, up, held, used, history>>
    BY <1>3, <1>5, <1>6 DEF Validated, history
  <2> QED  BY <2>1, <1>2, NoJobTyped, PlainStep
<1>7. CASE j.kind \in {"call", "reflect"}
  <2>1. /\ StartTool(p, j) /\ wire' = Tail(wire)
        /\ UNCHANGED <<now, mem, born, copy, log, up, held, used, covered, late, ended, gone,
                       failed, repeated, stray>>
    BY <1>3, <1>5, <1>7 DEF Validated
  <2> QED  BY <2>1, <1>2, <1>3, <1>4, <1>7, ToolStep
<1>8. CASE j.kind = "sse"
  <2>1. /\ Goto(p, "stream", job[p]) /\ wire' = Tail(wire)
        /\ held' = IF job[p].own THEN [held EXCEPT ![job[p].s] = p] ELSE held
        /\ stray' = stray \union (IF job[p].own /\ job[p].s \in born THEN {held[job[p].s]} \ {None}
                                  ELSE IF job[p].own THEN ({held[job[p].s]} \ {None}) \union {p}
                                  ELSE {p})
        /\ UNCHANGED <<now, mem, born, copy, log, up, used, covered, late, ended, gone,
                       failed, repeated, excused>>
    BY <1>3, <1>5, <1>8 DEF Validated
  <2> QED  BY <2>1, <1>2, <1>4, OpenStep
<1>9. CASE j.kind = "delete" /\ mem[j.s] = None
  <2>1. /\ Goto(p, "idle", NoJob) /\ wire' = Tail(wire)
        /\ UNCHANGED <<now, mem, born, copy, log, up, held, used, history>>
    BY <1>3, <1>5, <1>9 DEF Validated, history
  <2> QED  BY <2>1, <1>2, NoJobTyped, PlainStep
<1>10. CASE j.kind = "delete" /\ mem[j.s] # None
  <2>1. /\ BeginClose(p, j, Tail(wire))
        /\ UNCHANGED <<now, mem, born, copy, log, up, held, used, covered, late, ended, gone,
                       failed, repeated, stray>>
    BY <1>3, <1>5, <1>10 DEF Validated
  <2>2. stray' = stray \ {p} /\ pc[p] \notin Closing5 \union {"tool", "delete"} /\ pc[p] # "stream"
    <3>1. p \notin stray
      BY <1>2, StreamFacts
    <3> QED  BY <1>2, <2>1, <3>1 DEF Closing5
  <2> QED  BY <2>1, <2>2, <1>2, <1>4, <1>10, CloseStep
<1> QED  BY <1>4, <1>6, <1>7, <1>8, <1>9, <1>10 DEF Kinds

\* The record of a tool call, whose first half reads the activity of the session.
LEMMA RecordTyped ==
  ASSUME SessionInv, NEW p \in Requests, pc[p] = "tool"
  PROVE  /\ Record(p) \in Entries /\ Record(p).op = "record" /\ Record(p).by = None
         /\ Record(p).s = job[p].s /\ Record(p).call = job[p].call
         /\ Record(p).log = log[job[p].s] /\ Record(p).exp = None
         /\ job[p].s \in Sessions /\ job[p].s \in used /\ job[p].kind \in {"call", "reflect"}
         /\ job[p].call \in CallsOf(job[p].s) /\ job[p].snap \subseteq CallsOf(job[p].s)
         /\ log[job[p].s].calls \subseteq CallsOf(job[p].s) /\ log[job[p].s] \in Logs
<1>1. /\ job[p].s \in used /\ job[p].kind \in {"call", "reflect"} /\ job[p].call \in CallsOf(job[p].s)
      /\ job[p].snap \subseteq CallsOf(job[p].s)
  BY DEF SessionInv, Control, Placed, Procs
<1>2. job[p].s \in Sessions /\ job[p].call \in AllCalls
  BY <1>1 DEF SessionInv, Control, Typed, MapTyped, CallsOf, AllCalls
<1>3. log[job[p].s] \in Logs /\ log[job[p].s].calls \subseteq CallsOf(job[p].s)
  BY <1>2, LogOf DEF SessionInv
<1>4. /\ "record" \in Ops /\ None \in Procs \union {None}
      /\ None \in Nat \union {None} /\ job[p].call \in AllCalls \union {None}
  BY <1>2 DEF Ops
<1>5. /\ Record(p) \in Entries /\ Record(p).op = "record" /\ Record(p).by = None
      /\ Record(p).s = job[p].s /\ Record(p).call = job[p].call
      /\ Record(p).log = log[job[p].s] /\ Record(p).exp = None
  <2>1. Record(p) = Entry("record", None, job[p].s, job[p].call, log[job[p].s], None)
    BY DEF Record
  <2>2. Record(p) \in Entries
    BY <1>2, <1>3, <1>4, <2>1 DEF Entry, Entries
  <2> QED  BY <2>1, <2>2 DEF Entry
<1> QED  BY <1>1, <1>2, <1>3, <1>5

\* What the invariants say of it.
LEMMA RecordFits ==
  ASSUME SessionInv, NEW p \in Requests, pc[p] = "tool"
  PROVE  /\ EntryTold(Record(p))
         /\ job[p].s \notin excused => EntryOnce(Record(p))
<1>1. /\ Record(p).op = "record" /\ Record(p).s = job[p].s /\ Record(p).call = job[p].call
      /\ Record(p).log = log[job[p].s] /\ job[p].s \in Sessions
      /\ job[p].kind \in {"call", "reflect"} /\ p \in Procs
  BY RecordTyped DEF Procs
<1>2. EntryTold(Record(p))
  BY <1>1 DEF SessionInv, ToldInv, EntryTold
<1>3. ASSUME job[p].s \notin excused  PROVE EntryOnce(Record(p))
  <2>1. SessionOnce(job[p].s) /\ ProcOnce(p)
    BY <1>1, <1>3 DEF SessionInv, OnceInv, SessionOnce
  <2> QED  BY <1>1, <2>1 DEF SessionOnce, ProcOnce, EntryOnce
<1> QED  BY <1>2, <1>3

LEMMA CallDoneStep ==
  ASSUME SessionInv, NEW p \in Requests, CallDone(p)
  PROVE  SessionInv'
<1>1. /\ pc[p] = "tool" /\ Goto(p, "idle", NoJob)
      /\ wire' = wire \/ wire' = Append(wire, Record(p))
      /\ UNCHANGED <<now, mem, born, copy, log, up, held, used, covered, late, ended, gone,
                     failed, repeated, excused, stray>>
  BY DEF CallDone, history
<1>2. PICK a : a = Record(p)
  OBVIOUS
<1>3. /\ a \in Entries /\ a.op = "record" /\ a.by = None /\ a.s = job[p].s /\ a.call = job[p].call
      /\ a.log = log[job[p].s] /\ a.exp = None /\ a.s \in used /\ a.call \in CallsOf(a.s)
      /\ a.log.calls \subseteq CallsOf(a.s) /\ a.s \in Sessions
      /\ EntryTold(a) /\ (a.s \notin excused => EntryOnce(a))
  BY <1>1, <1>2, RecordTyped, RecordFits
<1>4. Control /\ p \in Procs /\ ProcTyped /\ Left(p, wire) /\ wire \in Seq(Entries)
  BY <1>1, NotWaiting DEF SessionInv, Control, Typed, Procs, WireOK
<1>5. ProcTyped' /\ pc'[p] = "idle" /\ Alone(p) /\ Beside(p)
  BY <1>1, <1>4, NoJobTyped, GotoDoes DEF Alone, PcValues
<1>6. MapTyped' /\ LogTyped' /\ Placed(p)'
  BY <1>1, <1>5 DEF SessionInv, Control, Typed, MapTyped, LogTyped, Placed, Closing5
<1>7. Sound(a)'
  BY <1>1, <1>3 DEF Sound
<1>8. Control'
  BY <1>1, <1>2, <1>3, <1>4, <1>5, <1>6, <1>7, ControlStep DEF Typed
<1>9. \A i \in DOMAIN wire' : wire'[i] = a \/ \E k \in DOMAIN wire : wire'[i] = wire[k]
  <2>1. CASE wire' = wire
    BY <2>1
  <2>2. CASE wire' = Append(wire, a)
    BY <1>3, <1>4, <2>2, Pushed
  <2> QED  BY <1>1, <1>2, <2>1, <2>2
<1>10. MarksStay
  <2>1. \A i \in DOMAIN wire : i \in DOMAIN wire' /\ wire'[i] = wire[i]
    BY <1>1, <1>2, <1>3, <1>4, Pushed
  <2> QED  BY <2>1 DEF MarksStay, Marking
<1>11. Told' = Told /\ log' = log /\ covered' = covered /\ excused' = excused
  BY <1>1 DEF Told
<1>12. ToldInv'
  <2>1. \A i \in DOMAIN wire' : EntryTold(wire[i])'
    <3>1. \A e : EntryTold(e) => EntryTold(e)'
      BY <1>11 DEF EntryTold
    <3>2. \A i \in DOMAIN wire' : EntryTold(wire'[i])
      BY <1>3, <1>9 DEF SessionInv, ToldInv
    <3> QED  BY <3>1, <3>2
  <2>2. \A q \in Procs : ProcTold(q)'
    BY <1>5, <1>11 DEF SessionInv, ToldInv, ProcTold, Alone
  <2>3. \A t \in ended' : t \in used' /\ mem'[t] = None /\ log'[t].calls \subseteq Told'
    BY <1>1, <1>11 DEF SessionInv, ToldInv
  <2> QED  BY <1>11, <2>1, <2>2, <2>3 DEF SessionInv, ToldInv
<1>13. OnceInv'
  <2>1. repeated' \subseteq excused'
    BY <1>1 DEF SessionInv, OnceInv
  <2> SUFFICES ASSUME NEW t \in Sessions, t \notin excused  PROVE SessionOnce(t)'
    BY <1>11, <2>1 DEF OnceInv
  <2>2. SessionOnce(t)
    BY DEF SessionInv, OnceInv
  <2>3. \A n \in Sessions : Settled(n) => Settled(n)'
    BY <1>10, <1>11 DEF MarksStay, Settled
  <2>4. \A q, r \in Procs : Covers(q, t)' /\ Covers(r, t)' => q = r
    <3>1. \A q \in Procs : Covers(q, t)' => Covers(q, t)
      BY <1>5 DEF Alone, Covers
    <3> QED  BY <3>1, <2>2 DEF SessionOnce
  <2>5. (log[t].calls \intersect covered # {} => Settled(t))'
    BY <1>11, <2>2, <2>3 DEF SessionOnce
  <2>6. \A i \in DOMAIN wire' : wire'[i].s = t => EntryOnce(wire[i])'
    <3>1. \A e : e.s \in Sessions /\ EntryOnce(e) => EntryOnce(e)'
      BY <1>11, <2>3 DEF EntryOnce
    <3>2. \A i \in DOMAIN wire' : wire'[i].s = t => EntryOnce(wire'[i])
      BY <1>3, <1>9, <2>2 DEF SessionOnce
    <3> QED  BY <3>1, <3>2
  <2>7. ASSUME NEW q \in Procs, job'[q].s = t  PROVE ProcOnce(q)'
    <3>1. CASE q = p
      BY <1>5, <3>1 DEF ProcOnce
    <3>2. CASE q # p
      <4>1. ProcOnce(q) /\ pc'[q] = pc[q] /\ job'[q] = job[q]
        BY <1>5, <2>2, <2>7, <3>2 DEF SessionOnce, Alone
      <4> QED  BY <1>11, <2>3, <2>7, <4>1 DEF ProcOnce
    <3> QED  BY <3>1, <3>2
  <2> QED  BY <2>4, <2>5, <2>6, <2>7 DEF SessionOnce
<1>14. MapQuiet
  <2>1. WireQuiet
    BY <1>1, <1>2, <1>3 DEF WireQuiet, Rest, Restoring
  <2>2. \A q \in Procs : pc'[q] \in Closing5 => pc[q] \in Closing5 /\ job'[q].s = job[q].s
    BY <1>5 DEF Closing5, Alone
  <2> QED  BY <1>1, <2>1, <2>2 DEF MapQuiet
<1>15. StreamQuiet
  BY <1>1, <1>5 DEF StreamQuiet, Closing5, Alone
<1> QED  BY <1>4, <1>8, <1>12, <1>13, <1>14, <1>15, GoneQuiet, StreamsQuiet DEF SessionInv

LEMMA PushedTwo ==
  ASSUME NEW w \in Seq(Entries), NEW a \in Entries, NEW b \in Entries
  PROVE  /\ w \o <<a, b>> \in Seq(Entries)
         /\ DOMAIN (w \o <<a, b>>) = DOMAIN w \union {Len(w) + 1, Len(w) + 2}
         /\ \A i \in DOMAIN w : (w \o <<a, b>>)[i] = w[i]
         /\ (w \o <<a, b>>)[Len(w) + 1] = a /\ (w \o <<a, b>>)[Len(w) + 2] = b
<1>1. w \o <<a, b>> = Append(Append(w, a), b)
  OBVIOUS
<1>2. /\ Append(w, a) \in Seq(Entries) /\ Len(Append(w, a)) = Len(w) + 1 /\ Len(w) \in Nat
      /\ DOMAIN Append(w, a) = DOMAIN w \union {Len(w) + 1}
      /\ \A i \in DOMAIN w : Append(w, a)[i] = w[i]
      /\ Append(w, a)[Len(w) + 1] = a
  BY Pushed
<1>3. PICK v : v = Append(w, a)
  OBVIOUS
<1>4. /\ Append(v, b) \in Seq(Entries)
      /\ DOMAIN Append(v, b) = DOMAIN v \union {Len(v) + 1}
      /\ \A i \in DOMAIN v : Append(v, b)[i] = v[i]
      /\ Append(v, b)[Len(v) + 1] = b
  BY <1>2, <1>3, Pushed
<1>5. Len(v) + 1 = Len(w) + 2
  BY <1>2, <1>3
<1> QED  BY <1>1, <1>2, <1>3, <1>4, <1>5

\* A reflect takes the calls of the record in hand into its summary, and issues two commands.
LEMMA ReflectDoneStep ==
  ASSUME SessionInv, NEW p \in Requests, ReflectDone(p)
  PROVE  SessionInv'
<1>s. PICK s : s = job[p].s
  OBVIOUS
<1>1. /\ pc[p] = "tool" /\ job[p].kind = "reflect" /\ Goto(p, "idle", NoJob)
      /\ wire' = IF up THEN wire \o <<Record(p), Entry("mark", None, s, None, log[s], None)>> ELSE wire
      /\ covered' = covered \union job[p].snap \union {job[p].call}
      /\ excused' = IF up THEN excused ELSE excused \union {s}
      /\ UNCHANGED <<now, mem, born, copy, log, up, held, used, late, ended, gone,
                     failed, repeated, stray>>
  BY <1>s DEF ReflectDone
<1>2. PICK a : a = Record(p)
  OBVIOUS
<1>3. /\ a \in Entries /\ a.op = "record" /\ a.by = None /\ a.s = s /\ a.call = job[p].call
      /\ a.log = log[s] /\ a.exp = None /\ s \in used /\ job[p].call \in CallsOf(s)
      /\ log[s].calls \subseteq CallsOf(s) /\ s \in Sessions /\ log[s] \in Logs
      /\ job[p].snap \subseteq CallsOf(s)
      /\ EntryTold(a)
  BY <1>1, <1>2, <1>s, RecordTyped, RecordFits
<1>m. PICK b \in Entries : b = Entry("mark", None, s, None, log[s], None)
  <2>1. /\ "mark" \in Ops /\ None \in Procs \union {None} /\ None \in AllCalls \union {None}
        /\ None \in Nat \union {None}
    BY DEF Ops
  <2> QED  BY <1>3, <2>1 DEF Entry, Entries
<1>n. b.op = "mark" /\ b.by = None /\ b.s = s /\ b.call = None /\ b.log = log[s] /\ b.exp = None
  BY <1>m DEF Entry
<1>w. IF up THEN wire' = wire \o <<a, b>> ELSE wire' = wire
  BY <1>1, <1>2, <1>m
<1>4. /\ Control /\ p \in Procs /\ ProcTyped /\ Left(p, wire) /\ wire \in Seq(Entries)
      /\ OneReply(wire) /\ \A i \in DOMAIN wire : Sound(wire[i])
  BY <1>1, NotWaiting DEF SessionInv, Control, Typed, Procs, WireOK
<1>5. ProcTyped' /\ pc'[p] = "idle" /\ Alone(p) /\ Beside(p)
  BY <1>1, <1>4, NoJobTyped, GotoDoes DEF Alone, PcValues
<1>6. MapTyped' /\ LogTyped' /\ Placed(p)'
  <2>1. covered' \subseteq AllCalls
    BY <1>1, <1>3 DEF SessionInv, Control, Typed, LogTyped, CallsOf, AllCalls
  <2> QED  BY <1>1, <1>5, <2>1 DEF SessionInv, Control, Typed, MapTyped, LogTyped, Placed, Closing5
<1>7. /\ wire' \in Seq(Entries)
      /\ \A i \in DOMAIN wire : i \in DOMAIN wire' /\ wire'[i] = wire[i]
      /\ \A i \in DOMAIN wire' : i \in DOMAIN wire \/ (up /\ wire'[i] \in {a, b})
      /\ up => \E i \in DOMAIN wire' : wire'[i] = b
  <2>1. CASE up
    <3>1. /\ wire' \in Seq(Entries)
          /\ DOMAIN wire' = DOMAIN wire \union {Len(wire) + 1, Len(wire) + 2}
          /\ \A i \in DOMAIN wire : wire'[i] = wire[i]
          /\ wire'[Len(wire) + 1] = a /\ wire'[Len(wire) + 2] = b
      <4>1. wire' = wire \o <<a, b>> /\ wire \in Seq(Entries) /\ a \in Entries /\ b \in Entries
        BY <1>3, <1>4, <1>w, <2>1
      <4>2. /\ wire \o <<a, b>> \in Seq(Entries)
            /\ DOMAIN (wire \o <<a, b>>) = DOMAIN wire \union {Len(wire) + 1, Len(wire) + 2}
            /\ \A i \in DOMAIN wire : (wire \o <<a, b>>)[i] = wire[i]
            /\ (wire \o <<a, b>>)[Len(wire) + 1] = a /\ (wire \o <<a, b>>)[Len(wire) + 2] = b
        BY <4>1, PushedTwo
      <4> QED  BY <4>1, <4>2
    <3> QED  BY <2>1, <3>1
  <2>2. CASE ~up
    BY <1>4, <1>w, <2>2
  <2> QED  BY <2>1, <2>2
<1>8. Control'
  <2>1. Sound(a)' /\ Sound(b)'
    BY <1>1, <1>3, <1>n DEF Sound
  <2>2. \A i \in DOMAIN wire : Sound(wire[i])'
    <3> SUFFICES ASSUME NEW i \in DOMAIN wire  PROVE Sound(wire[i])'
      OBVIOUS
    <3>1. Sound(wire[i]) /\ wire[i].by # p /\ wire[i].by \in Procs \union {None}
      <4>1. wire[i] \in Entries
        BY <1>4
      <4> QED  BY <1>4, <4>1 DEF Left, Entries
    <3> QED  BY <1>1, <1>5, <3>1 DEF Sound, Alone
  <2>3. \A i \in DOMAIN wire' : Sound(wire[i])'
    <3> SUFFICES ASSUME NEW i \in DOMAIN wire'  PROVE Sound(wire[i])'
      OBVIOUS
    <3>1. CASE i \in DOMAIN wire
      <4>1. wire'[i] = wire[i]  BY <1>7, <3>1
      <4> QED  BY <4>1, <2>2, <3>1
    <3>2. CASE wire'[i] = a
      BY <2>1, <3>2
    <3>3. CASE wire'[i] = b
      BY <2>1, <3>3
    <3> QED  BY <1>7, <3>1, <3>2, <3>3
  <2>4. OneReply(wire)'
    <3> SUFFICES ASSUME NEW i \in DOMAIN wire', NEW k \in DOMAIN wire',
                        wire'[i].by # None, wire'[i].by = wire'[k].by
                 PROVE  i = k
      BY DEF OneReply
    <3>1. i \in DOMAIN wire /\ k \in DOMAIN wire
      BY <1>3, <1>7, <1>n
    <3> QED  BY <1>4, <1>7, <3>1 DEF OneReply
  <2>5. \A q \in Procs : Placed(q)'
    BY <1>1, <1>4, <1>5, <1>6, PlacedStep
  <2> QED  BY <1>5, <1>6, <1>7, <2>3, <2>4, <2>5 DEF Control, Typed, WireOK
<1>9. log' = log /\ Told \subseteq Told' /\ log[s].calls \subseteq Told' /\ covered \subseteq covered'
  <2>1. log[s].calls \subseteq job[p].snap \union Told
    BY <1>1, <1>4, <1>s DEF SessionInv, ToldInv, ProcTold
  <2> QED  BY <1>1, <2>1 DEF Told
<1>10. ToldInv'
  <2>1. \A i \in DOMAIN wire' : EntryTold(wire[i])'
    <3> SUFFICES ASSUME NEW i \in DOMAIN wire'  PROVE EntryTold(wire[i])'
      OBVIOUS
    <3>1. CASE i \in DOMAIN wire
      <4>1. wire'[i] = wire[i] /\ EntryTold(wire[i])
        BY <1>7, <3>1 DEF SessionInv, ToldInv
      <4> QED  BY <4>1, <1>9 DEF EntryTold
    <3>2. CASE wire'[i] = a
      BY <1>3, <1>9, <3>2 DEF EntryTold
    <3>3. CASE wire'[i] = b
      BY <1>n, <1>9, <3>3 DEF EntryTold
    <3> QED  BY <1>7, <3>1, <3>2, <3>3
  <2>2. \A q \in Procs : ProcTold(q)'
    BY <1>5, <1>9 DEF SessionInv, ToldInv, ProcTold, Alone
  <2>3. \A t \in ended' : t \in used' /\ mem'[t] = None /\ log'[t].calls \subseteq Told'
    BY <1>1, <1>9 DEF SessionInv, ToldInv
  <2> QED  BY <1>9, <2>1, <2>2, <2>3 DEF SessionInv, ToldInv
<1>11. OnceInv'
  <2>1. repeated' \subseteq excused' /\ excused \subseteq excused'
    BY <1>1 DEF SessionInv, OnceInv
  <2> SUFFICES ASSUME NEW t \in Sessions, t \notin excused'  PROVE SessionOnce(t)'
    BY <2>1 DEF OnceInv
  <2>2. SessionOnce(t)
    BY <2>1 DEF SessionInv, OnceInv
  <2>3. \A n \in Sessions : Settled(n) => Settled(n)'
    BY <1>1, <1>7 DEF Settled, Marking
  <2>4. t = s => Settled(s)'
    <3>1. t = s => up
      BY <1>1
    <3>2. up => Marking(wire', s)
      BY <1>7, <1>n DEF Marking
    <3> QED  BY <3>1, <3>2 DEF Settled, Marking
  <2>5. \A q, r \in Procs : Covers(q, t)' /\ Covers(r, t)' => q = r
    <3>1. \A q \in Procs : Covers(q, t)' => Covers(q, t)
      BY <1>5 DEF Alone, Covers
    <3> QED  BY <3>1, <2>2 DEF SessionOnce
  <2>6. t = s => \A q \in Procs \ {p} : ~Covers(q, s)
    <3>1. Covers(p, s)
      BY <1>1, <1>s DEF Covers
    <3> QED  BY <3>1, <2>2, <1>4 DEF SessionOnce
  <2>7. t # s => CallsOf(t) \intersect covered' = CallsOf(t) \intersect covered
    <3>1. t # s => CallsOf(t) \intersect CallsOf(s) = {}
      BY DEF CallsOf
    <3> QED  BY <1>1, <1>3, <3>1
  <2>8. (log[t].calls \intersect covered # {} => Settled(t))'
    <3>1. CASE t = s
      BY <2>4, <3>1
    <3>2. CASE t # s
      <4>1. log[t].calls \subseteq CallsOf(t)
        BY <1>4, LogOf
      <4> QED  BY <2>2, <2>3, <2>7, <3>2, <4>1, <1>9 DEF SessionOnce
    <3> QED  BY <3>1, <3>2
  <2>9. ASSUME NEW i \in DOMAIN wire', wire'[i].s = t  PROVE EntryOnce(wire[i])'
    <3>1. CASE t = s /\ wire'[i].op # "activity"
      BY <2>4, <2>9, <3>1 DEF EntryOnce
    <3>2. CASE t = s /\ wire'[i].op = "activity"
      <4>1. i \in DOMAIN wire /\ wire'[i] = wire[i]
        BY <1>3, <1>7, <1>n, <3>2
      <4>2. Sound(wire[i]) /\ wire[i].op = "activity" /\ wire[i].s = s /\ wire[i].by # p
            /\ wire[i].by \in Procs \union {None}
        <5>1. wire[i] \in Entries
          BY <1>4, <4>1
        <5> QED  BY <1>4, <2>9, <3>2, <4>1, <5>1 DEF Left, Entries
      <4>3. wire[i].by \in Procs \ {p} /\ Covers(wire[i].by, s)
        BY <4>2 DEF Sound, Fits, Covers
      <4> QED  BY <4>3, <2>6, <3>2
    <3>3. CASE t # s
      <4>1. i \in DOMAIN wire /\ wire'[i] = wire[i]
        BY <1>3, <1>7, <1>n, <2>9, <3>3
      <4>2. EntryOnce(wire[i]) /\ Sound(wire[i]) /\ wire[i].s = t
        BY <1>4, <2>2, <2>9, <4>1 DEF SessionOnce
      <4>3. wire[i].log.calls \subseteq CallsOf(t) /\ (wire[i].op = "record" => wire[i].call \in CallsOf(t))
        BY <4>2 DEF Sound
      <4>4. /\ wire[i].log.calls \intersect covered' = wire[i].log.calls \intersect covered
            /\ wire[i].op = "record" => ({wire[i].call} \union wire[i].log.calls) \intersect covered'
                                          = ({wire[i].call} \union wire[i].log.calls) \intersect covered
        BY <2>7, <3>3, <4>3
      <4> QED  BY <4>1, <4>2, <4>4, <2>3 DEF EntryOnce
    <3> QED  BY <3>1, <3>2, <3>3
  <2>10. ASSUME NEW q \in Procs, job'[q].s = t  PROVE ProcOnce(q)'
    <3>1. CASE q = p
      BY <1>5, <3>1 DEF ProcOnce
    <3>2. CASE q # p
      <4>1. ProcOnce(q) /\ pc'[q] = pc[q] /\ job'[q] = job[q] /\ Placed(q) /\ job[q].s = t
        BY <1>4, <1>5, <2>2, <2>10, <3>2 DEF SessionOnce, Alone, Control
      <4>2. CASE t = s
        <5>1. pc[q] # "summary"
          BY <2>6, <3>2, <4>1, <4>2 DEF Covers
        <5> QED  BY <2>4, <2>10, <4>1, <4>2, <5>1 DEF ProcOnce
      <4>3. CASE t # s
        <5>1. /\ pc[q] = "summary" => job[q].snap \subseteq CallsOf(t)
              /\ pc[q] \in {"lookup", "save", "tool"} /\ job[q].kind \in {"call", "reflect"}
                   => job[q].call \in CallsOf(t)
          BY <4>1 DEF Placed
        <5>2. pc[q] = "summary" => job[q].snap \intersect covered' = job[q].snap \intersect covered
          BY <2>7, <4>3, <5>1
        <5>3. pc[q] \in {"lookup", "save", "tool"} /\ job[q].kind \in {"call", "reflect"}
                => (job[q].call \in covered' => job[q].call \in covered)
          BY <2>7, <4>3, <5>1
        <5> QED  BY <2>3, <2>10, <4>1, <5>2, <5>3 DEF ProcOnce
      <4> QED  BY <4>2, <4>3
    <3> QED  BY <3>1, <3>2
  <2> QED  BY <2>5, <2>8, <2>9, <2>10 DEF SessionOnce
<1>12. MapQuiet
  <2>1. WireQuiet
    BY <1>3, <1>n, <1>m, <1>w DEF WireQuiet, Rest, Restoring
  <2>2. \A q \in Procs : pc'[q] \in Closing5 => pc[q] \in Closing5 /\ job'[q].s = job[q].s
    BY <1>5 DEF Closing5, Alone
  <2> QED  BY <1>1, <2>1, <2>2 DEF MapQuiet
<1>13. StreamQuiet
  BY <1>1, <1>5 DEF StreamQuiet, Closing5, Alone
<1> QED  BY <1>4, <1>8, <1>10, <1>11, <1>12, <1>13, GoneQuiet, StreamsQuiet DEF SessionInv

-----------------------------------------------------------------------------
(* The end of a session.                                                    *)

\* No reply that would restore the session is left when its closer is done with it.
LEMMA ClearAtEnd ==
  ASSUME SessionInv, NEW p \in Procs, pc[p] \in Closing5, NEW w, Left(p, w), job[p].s \notin failed
  PROVE  Clear(w, job[p].s)
<1>1. Control /\ GoneInv /\ Rest(w)
  BY DEF SessionInv, Left
<1>2. CASE job[p].s \in Streamable
  <2>1. Closes(p, job[p].s)
    BY DEF Closes
  <2>2. Behind(p, wire, job[p].s)
    BY <1>1, <1>2, <2>1 DEF GoneInv
  <2>3. Behind(p, w, job[p].s)
    BY <1>1, <2>2, BehindRest
  <2> QED  BY <2>3 DEF Behind, Clear, Left
<1>3. CASE job[p].s \notin Streamable
  <2> SUFFICES ASSUME NEW i \in DOMAIN w, Restores(w[i], job[p].s)  PROVE FALSE
    BY DEF Clear
  <2>1. w[i] \in Entries /\ Sound(w[i])
    BY <1>1, RestWas
  <2>2. w[i].by \in Procs /\ pc[w[i].by] = "lookup" /\ job[w[i].by].s = job[p].s
    BY <2>1 DEF Sound, Fits, Restores, Entries
  <2> QED  BY <1>1, <1>3, <2>2 DEF Control, Placed
<1> QED  BY <1>2, <1>3

LEMMA EndStep ==
  ASSUME SessionInv, NEW p \in Procs, NEW j \in Jobs, NEW w, Left(p, w), Off(w, Ops \ {"mark"}),
         pc[p] \in Closing5, j.s = job[p].s, j.own = job[p].own,
         j.ok => log[j.s].calls \subseteq Told,
         UNCHANGED <<now, up, used>>, EndSession(p, j, w)
  PROVE  SessionInv'
<1>0. PICK s : s = j.s
  OBVIOUS
<1>1. /\ Control /\ StreamInv /\ HeldOpen /\ Placed(p) /\ LogTyped /\ MapTyped
  BY DEF SessionInv, StreamInv, Control, Typed
<1>2. s \in used /\ s \in Sessions
  BY <1>0, <1>1 DEF Placed, MapTyped
<1>3. /\ born' = born \ {s}
      /\ copy' = IF s \in Streamable /\ up THEN [copy EXCEPT ![s] = None] ELSE copy
      /\ held' = IF s \in Streamable /\ j.own THEN [held EXCEPT ![s] = None] ELSE held
      /\ stray' = stray \ EndedStreams(j)
      /\ ended' = IF j.ok THEN ended \union {s} ELSE ended
      /\ failed' = IF s \in Streamable /\ ~up THEN failed \union {s} ELSE failed
      /\ gone' = IF s \in failed \/ (s \in Streamable /\ ~up) THEN gone \ {s} ELSE gone \union {s}
      /\ UNCHANGED <<log, covered, late, repeated, excused>>
  BY <1>0 DEF EndSession
<1>4. /\ ProcTyped' /\ MapTyped' /\ Beside(p) /\ WireOK' /\ Placed(p)'
      /\ pc'[p] \in {"delete", "idle", "sweep", "closing"}
      /\ pc'[p] \in {"idle", "sweep", "closing"} => job'[p].s = None
      /\ \A q \in Procs \ {p} : IF q \in EndedStreams(j)
                                THEN pc'[q] = "idle" /\ job'[q] = NoJob
                                ELSE pc'[q] = pc[q] /\ job'[q] = job[q]
      /\ mem'[s] = None /\ \A t \in Sessions \ {s} : mem'[t] = mem[t]
      /\ wire' = w \/ wire' = Append(w, Await("deleted", p, s))
  BY <1>0, <1>1, <1>2, EndDoes
<1>5. Control'
  <2>1. \A q \in Procs : Placed(q)'
    BY <1>1, <1>4, PlacedStep
  <2>2. LogTyped'
    BY <1>1, <1>3 DEF LogTyped
  <2> QED  BY <1>4, <2>1, <2>2 DEF Control, Typed
<1>6. PICK a \in Entries : a = Await("deleted", p, s)
  BY <1>2, AwaitTyped DEF Ops
<1>7. a.op = "deleted" /\ a.log = NoLog /\ a.exp = None /\ (wire' = w \/ wire' = Append(w, a))
  BY <1>4, <1>6 DEF Await, Entry
<1>8. LogQuiet
  <2>1. NoNews /\ MarksStay
    BY <1>1, <1>7, PlainReply
  <2>2. \A q \in Procs : Calms(q)
    BY <1>4 DEF Calms, Calm
  <2> QED  BY <1>3, <2>1, <2>2 DEF LogQuiet
<1>9. ToldInv' /\ OnceInv'
  <2>1. \A t \in ended' : t \in used' /\ mem'[t] = None /\ log[t].calls \subseteq Told
    BY <1>0, <1>1, <1>2, <1>3, <1>4 DEF SessionInv, ToldInv, MapTyped
  <2> QED  BY <1>1, <1>8, <2>1, ToldQuiet, OnceQuiet DEF SessionInv
<1>10. WireQuiet
  BY <1>7 DEF WireQuiet, Restoring, Left
<1>11. ASSUME NEW q, NEW t
       PROVE  /\ Behind(q, wire, t) => Behind(q, wire', t)
              /\ Clear(wire, t) => Clear(wire', t)
  BY <1>1, <1>10, WireBehind
<1>12. GoneInv'
  <2>1. GoneInv /\ up' = up /\ used' = used
    BY DEF SessionInv
  <2>2. gone' \subseteq used' \ failed'
    BY <1>2, <1>3, <2>1 DEF GoneInv
  <2>3. copy \in [Streamable -> Nat \union {None}]
    BY <1>1 DEF MapTyped
  <2>4. \A t \in Streamable : copy'[t] = (IF t = s /\ up THEN None ELSE copy[t])
    BY <1>3, <2>3
  <2>5. s \notin failed => Clear(wire', s)
    <3> SUFFICES ASSUME s \notin failed  PROVE Clear(wire', s)
      OBVIOUS
    <3>1. Clear(w, s)
      BY <1>0, ClearAtEnd
    <3>2. w \in Seq(Entries) /\ ~Restores(a, s)
      BY <1>1, <1>7, RestWas DEF Left, Restores
    <3> QED  BY <1>7, <3>1, <3>2, BehindPushed
  <2>6. ASSUME NEW t \in gone'
        PROVE  mem'[t] = None /\ (t \in Streamable => copy'[t] = None) /\ Clear(wire', t)
    <3>1. CASE t = s
      <4>1. s \notin failed /\ (s \in Streamable => up)
        BY <1>3, <2>6, <3>1
      <4> QED  BY <1>4, <2>4, <2>5, <3>1, <4>1
    <3>2. CASE t # s
      <4>1. t \in gone /\ t \in Sessions
        BY <1>1, <1>3, <2>1, <2>6, <3>2 DEF GoneInv, MapTyped
      <4> QED  BY <1>4, <1>11, <2>1, <2>4, <3>2, <4>1 DEF GoneInv
    <3> QED  BY <3>1, <3>2
  <2>7. ASSUME NEW t \in Streamable \ failed', NEW q \in Procs, Closes(q, t)'
        PROVE  (mem'[t] # None \/ copy'[t] = None) /\ Behind(q, wire', t)
    <3>1. q # p
      BY <1>4, <2>7 DEF Closes, Closing5
    <3>2. Closes(q, t) /\ t \notin failed /\ t \in Sessions
      BY <1>3, <1>4, <2>7, <3>1 DEF Closes, Closing5, Sessions
    <3>3. (mem[t] # None \/ copy[t] = None) /\ Behind(q, wire, t)
      BY <2>1, <3>2 DEF GoneInv
    <3>4. t = s => up
      BY <1>3, <2>7
    <3> QED  BY <1>4, <1>11, <2>4, <3>2, <3>3, <3>4
  <2>8. ~up' => \A t \in Sessions : Clear(wire', t)
    BY <1>11, <2>1 DEF GoneInv
  <2> QED  BY <2>2, <2>6, <2>7, <2>8 DEF GoneInv, Clear, Behind
<1>13. StreamInv'
  <2>1. /\ held \in [Streamable -> Requests \union {None}] /\ Requests \subseteq Procs
        /\ stray \subseteq {q \in Requests : pc[q] = "stream"}
        /\ \A t \in Streamable : held[t] # None =>
             /\ held[t] \in Requests /\ pc[held[t]] = "stream"
             /\ job[held[t]].s = t /\ job[held[t]].own
        /\ \A q \in Requests : pc[q] = "stream" /\ q \notin stray =>
             mem[job[q].s] # None /\ Attached(q)
        /\ \A q \in Requests : pc[q] = "stream" => job[q].s \in Sessions /\ job[q].s \in used
    BY StreamFacts
  <2>2. pc[p] # "stream"
    BY DEF Closing5
  <2>3. \A q \in EndedStreams(j) : q \in Requests /\ pc[q] = "stream" /\ job[q].s = s
    BY <1>0, <1>1, <1>2, EndedOpen
  <2>4. (stray \subseteq {q \in Requests : pc[q] = "stream"})'
    BY <1>3, <1>4, <2>1, <2>2
  <2>5. \A t \in Streamable : held'[t] = (IF t = s /\ j.own THEN None ELSE held[t])
    BY <1>3, <2>1
  <2>6. HeldOpen'
    <3> SUFFICES ASSUME NEW t \in Streamable, held'[t] # None
                 PROVE  pc'[held'[t]] = "stream" /\ job'[held'[t]].s = t /\ job'[held'[t]].own
      BY DEF HeldOpen
    <3>1. held'[t] = held[t] /\ ~(t = s /\ j.own)
      BY <2>5
    <3>2. held[t] \in Procs \ {p} /\ held[t] \notin EndedStreams(j)
      <4>1. t = s => EndedStreams(j) = {}
        BY <1>0, <3>1 DEF EndedStreams
      <4> QED  BY <2>1, <2>2, <2>3, <3>1, <4>1
    <3> QED  BY <1>4, <2>1, <3>1, <3>2
  <2>7. Owned'
    <3> SUFFICES ASSUME NEW q \in Procs, job'[q].s \in born'
                 PROVE  pc'[q] # "lookup" /\ (pc'[q] \in Closing5 => job'[q].own)
      BY DEF Owned
    <3>1. CASE q = p
      BY <1>4, <3>1 DEF Closing5
    <3>2. CASE q # p /\ pc'[q] = "idle"
      BY <3>2 DEF Closing5
    <3>3. CASE q # p /\ pc'[q] = pc[q] /\ job'[q] = job[q]
      BY <1>1, <1>3, <3>3 DEF StreamInv, Owned
    <3> QED  BY <1>4, <3>1, <3>2, <3>3
  <2>8. (\A q \in Requests : pc[q] = "stream" /\ q \notin stray => mem[job[q].s] # None /\ Attached(q))'
    <3> SUFFICES ASSUME NEW q \in Requests, pc'[q] = "stream", q \notin stray'
                 PROVE  (mem[job[q].s] # None /\ Attached(q))'
      OBVIOUS
    <3>1. q \in Procs \ {p} /\ q \notin EndedStreams(j)
      BY <1>4, <2>1
    <3>2. pc[q] = "stream" /\ job'[q] = job[q] /\ q \notin stray
      BY <1>3, <1>4, <3>1
    <3>3. mem[job[q].s] # None /\ Attached(q) /\ job[q].s \in Sessions
      BY <2>1, <3>2
    <3>4. job[q].s # s
      <4> SUFFICES ASSUME job[q].s = s  PROVE FALSE
        OBVIOUS
      <4>1. CASE s \in Streamable
        <5>1. s \in born /\ held[s] = q
          BY <3>3, <4>1 DEF Attached
        <5>2. j.own
          BY <1>0, <1>1, <5>1 DEF StreamInv, Owned
        <5>3. q # None
          BY <3>1, NoneIsNoProc
        <5> QED  BY <1>0, <3>1, <4>1, <5>1, <5>2, <5>3 DEF EndedStreams
      <4>2. CASE s \notin Streamable
        BY <1>0, <3>1, <3>2, <4>2 DEF EndedStreams
      <4> QED  BY <4>1, <4>2
    <3> QED  BY <1>3, <1>4, <2>5, <3>2, <3>3, <3>4 DEF Attached
  <2> QED  BY <2>4, <2>6, <2>7, <2>8 DEF StreamInv
<1> QED  BY <1>5, <1>9, <1>12, <1>13 DEF SessionInv

LEMMA CloseUnreadStep ==
  ASSUME SessionInv, NEW p \in Procs, CloseUnread(p)
  PROVE  SessionInv'
<1>1. pc[p] = "close" /\ EndSession(p, job[p], wire) /\ UNCHANGED <<now, up, used>>
  BY DEF CloseUnread
<1>2. PICK j \in Jobs : j = job[p]
  BY JobTyped
<1>3. pc[p] \in Closing5 /\ Left(p, wire)
  BY <1>1, NotWaiting DEF SessionInv, Closing5
<1>4. j.ok => log[j.s].calls \subseteq Told
  BY <1>1, <1>2 DEF SessionInv, ToldInv, ProcTold
<1> QED  BY <1>1, <1>2, <1>3, <1>4, OwnWire, EndStep

\* The mark was written, or the activity could not be read.
LEMMA MarkedStep ==
  ASSUME SessionInv, wire # <<>>, Head(wire).op \in {"marked", "unread"}, Reply
  PROVE  SessionInv'
<1>1. PICK p : p = Head(wire).by
  OBVIOUS
<1>2. /\ p \in Procs /\ pc[p] \in Closing5 /\ Left(p, Tail(wire)) /\ Off(Tail(wire), Ops \ {"mark"})
      /\ Head(wire).op = "marked" => pc[p] \in {"mark", "marked"}
  <2>1. p \in Procs /\ Sound(Head(wire)) /\ p # None
    BY <1>1, HeadSound, NoneIsNoProc DEF SessionInv
  <2>2. /\ pc[p] \in Closing5
        /\ Head(wire).op = "marked" => pc[p] \in {"mark", "marked"}
    BY <1>1, <2>1 DEF Sound, Fits, Closing5
  <2>3. Left(p, Tail(wire))
    BY <1>1, <2>1, Answered DEF SessionInv
  <2> QED  BY <2>1, <2>2, <2>3 DEF Off, Ops
<1>3. UNCHANGED <<now, up, used>>
  BY DEF Reply
<1>4. CASE Head(wire).op = "marked"
  <2>1. EndSession(p, job[p], Tail(wire))
    BY <1>1, <1>4 DEF Reply
  <2>2. PICK j \in Jobs : j = job[p]
    BY <1>2, JobTyped
  <2>3. log[j.s].calls \subseteq Told
    BY <1>2, <1>4, <2>2 DEF SessionInv, ToldInv, ProcTold
  <2> QED  BY <1>2, <1>3, <2>1, <2>2, <2>3, EndStep
<1>5. CASE Head(wire).op = "unread"
  <2>1. EndSession(p, [job[p] EXCEPT !.ok = FALSE], Tail(wire))
    BY <1>1, <1>5 DEF Reply
  <2>2. PICK j \in Jobs : j = [job[p] EXCEPT !.ok = FALSE]
    BY <1>2, JobTyped, NotOk
  <2>3. j.s = job[p].s /\ j.own = job[p].own /\ ~j.ok
    BY <1>2, <2>2, JobTyped, NotOk
  <2> QED  BY <1>2, <1>3, <2>1, <2>2, <2>3, EndStep
<1> QED  BY <1>4, <1>5

-----------------------------------------------------------------------------
(* Summaries.                                                               *)

\* The summary of a session takes in the calls of set new, and its mark is issued; or the
\* session is closed without one.
LEMMA SummedStep ==
  ASSUME SessionInv, NEW p \in Procs, pc[p] \in {"activity", "summary"},
         NEW s \in used, s = job[p].s, NEW w, Left(p, w), Off(w, Ops \ {"mark"}),
         NEW new \in SUBSET CallsOf(s), covered' = covered \union new,
         log[s].calls \subseteq Told \union new, new # {} => pc[p] = "summary",
         NEW j \in Jobs, j.s = s, j.own = job[p].own, NEW l \in {"mark", "close"}, Goto(p, l, j),
         IF l = "mark" THEN wire' = Append(w, Entry("mark", p, s, None, log[s], None))
                       ELSE wire' = w /\ s \in excused',
         excused \subseteq excused', repeated' \subseteq excused',
         UNCHANGED <<now, mem, born, copy, log, up, held, used, late, ended, gone, failed, stray>>
  PROVE  SessionInv'
<1>1. Control /\ ProcTyped /\ s \in Sessions /\ Placed(p)
  BY DEF SessionInv, Control, Typed, MapTyped
<1>2. log[s] \in Logs /\ log[s].calls \subseteq CallsOf(s)
  BY <1>1, LogOf
<1>3. PICK b \in Entries : b = Entry("mark", p, s, None, log[s], None)
  <2>1. /\ "mark" \in Ops /\ p \in Procs \union {None} /\ None \in AllCalls \union {None}
        /\ None \in Nat \union {None}
    BY DEF Ops
  <2> QED  BY <1>1, <1>2, <2>1 DEF Entry, Entries
<1>4. /\ b.op = "mark" /\ b.by = p /\ b.s = s /\ b.log = log[s] /\ b.exp = None
      /\ IF l = "mark" THEN wire' = Append(w, b) ELSE wire' = w /\ s \in excused'
  BY <1>3 DEF Entry
<1>5. ProcTyped' /\ pc'[p] = l /\ job'[p] = j /\ Alone(p) /\ Beside(p)
  <2>1. l \in PcValues /\ l \notin {"idle", "sweep", "closing"}
    BY DEF PcValues
  <2>2. /\ ProcTyped' /\ pc'[p] = l /\ Beside(p)
        /\ l \notin {"idle", "sweep", "closing"} => job'[p] = j
        /\ \A q \in Procs \ {p} : pc'[q] = pc[q] /\ job'[q] = job[q]
    BY <1>1, <2>1, GotoDoes
  <2> QED  BY <2>1, <2>2 DEF Alone
<1>6. MapTyped' /\ LogTyped' /\ Placed(p)'
  <2>1. covered' \subseteq AllCalls
    BY <1>1 DEF Control, Typed, LogTyped, CallsOf, AllCalls
  <2>2. LogTyped'
    BY <1>1, <2>1 DEF Control, Typed, LogTyped
  <2>3. MapTyped'
    BY <1>1 DEF Control, Typed, MapTyped
  <2> QED  BY <1>5, <2>2, <2>3 DEF Placed, Closing5
<1>7. Control'
  <2>1. l = "mark" => Sound(b)'
    BY <1>2, <1>4, <1>5, NoneIsNoProc DEF Sound, Fits
  <2> QED  BY <1>1, <1>4, <1>5, <1>6, <2>1, ControlStep DEF Typed
<1>8. /\ w \in Seq(Entries)
      /\ \A i \in DOMAIN w : /\ w[i] \in Entries /\ Sound(w[i])
                             /\ \E k \in DOMAIN wire : w[i] = wire[k]
  BY <1>1, RestWas DEF Left
<1>9. \A i \in DOMAIN wire' : \/ l = "mark" /\ wire'[i] = b
                              \/ \E k \in DOMAIN w : wire'[i] = w[k]
  <2>1. CASE l # "mark"
    BY <1>4, <2>1
  <2>2. CASE l = "mark"
    BY <1>4, <1>8, <2>2, Pushed
  <2> QED  BY <2>1, <2>2
<1>10. MarksStay /\ (l = "mark" => Marking(wire', s))
  <2>1. \A i \in DOMAIN w : i \in DOMAIN wire' /\ wire'[i] = w[i]
    BY <1>4, <1>8, Pushed
  <2>2. \A t : Marking(w, t) => Marking(wire', t)
    BY <2>1 DEF Marking
  <2>3. MarksStay
    BY <1>1, <2>2, RestMarks DEF MarksStay
  <2>4. l = "mark" => Marking(wire', s)
    <3>1. l = "mark" => Len(w) + 1 \in DOMAIN wire' /\ wire'[Len(w) + 1] = b
      BY <1>4, <1>8, Pushed
    <3> QED  BY <1>4, <3>1 DEF Marking
  <2> QED  BY <2>3, <2>4
<1>11. log' = log /\ Told \subseteq Told' /\ log[s].calls \subseteq Told' /\ covered \subseteq covered'
  BY DEF Told
<1>12. ToldInv'
  <2>1. \A i \in DOMAIN wire' : EntryTold(wire[i])'
    <3> SUFFICES ASSUME NEW i \in DOMAIN wire'  PROVE EntryTold(wire[i])'
      OBVIOUS
    <3>1. ASSUME NEW k \in DOMAIN wire, wire'[i] = wire[k]  PROVE EntryTold(wire[i])'
      BY <1>11, <3>1 DEF SessionInv, ToldInv, EntryTold
    <3>2. CASE wire'[i] = b
      BY <1>4, <1>11, <3>2 DEF EntryTold
    <3> QED  BY <1>8, <1>9, <3>1, <3>2
  <2>2. \A q \in Procs : ProcTold(q)'
    <3> SUFFICES ASSUME NEW q \in Procs  PROVE ProcTold(q)'
      OBVIOUS
    <3>1. CASE q = p
      BY <1>5, <1>11, <3>1 DEF ProcTold
    <3>2. CASE q # p
      BY <1>5, <1>11, <3>2 DEF SessionInv, ToldInv, ProcTold, Alone
    <3> QED  BY <3>1, <3>2
  <2>3. \A t \in ended' : t \in used' /\ mem'[t] = None /\ log'[t].calls \subseteq Told'
    BY <1>11 DEF SessionInv, ToldInv
  <2> QED  BY <1>11, <2>1, <2>2, <2>3 DEF SessionInv, ToldInv
<1>13. OnceInv'
  <2> SUFFICES ASSUME NEW t \in Sessions, t \notin excused'  PROVE SessionOnce(t)'
    BY DEF OnceInv
  <2>2. SessionOnce(t)
    BY DEF SessionInv, OnceInv
  <2>3. \A n \in Sessions : Settled(n) => Settled(n)'
    BY <1>10 DEF MarksStay, Settled
  <2>4. t = s => l = "mark" /\ Settled(s)'
    BY <1>4, <1>10 DEF Settled
  <2>5. \A q, r \in Procs : Covers(q, t)' /\ Covers(r, t)' => q = r
    <3>1. \A q \in Procs : Covers(q, t)' => Covers(q, t)
      BY <1>5 DEF Alone, Covers
    <3> QED  BY <3>1, <2>2 DEF SessionOnce
  <2>6. t = s => \A q \in Procs \ {p} : ~Covers(q, s)
    <3>1. Covers(p, s)
      BY DEF Covers
    <3> QED  BY <3>1, <2>2 DEF SessionOnce
  <2>7. t # s => CallsOf(t) \intersect covered' = CallsOf(t) \intersect covered
    <3>1. t # s => CallsOf(t) \intersect CallsOf(s) = {}
      BY DEF CallsOf
    <3> QED  BY <3>1
  <2>8. (log[t].calls \intersect covered # {} => Settled(t))'
    <3>1. CASE t = s
      BY <2>4, <3>1
    <3>2. CASE t # s
      <4>1. log[t].calls \subseteq CallsOf(t)
        BY <1>1, LogOf
      <4> QED  BY <2>2, <2>3, <2>7, <3>2, <4>1, <1>11 DEF SessionOnce
    <3> QED  BY <3>1, <3>2
  <2>9. ASSUME NEW i \in DOMAIN wire', wire'[i].s = t  PROVE EntryOnce(wire[i])'
    <3>1. CASE t = s /\ wire'[i].op # "activity"
      BY <2>4, <2>9, <3>1 DEF EntryOnce
    <3>2. CASE t = s /\ wire'[i].op = "activity"
      <4>1. PICK k \in DOMAIN w : wire'[i] = w[k]
        BY <1>4, <1>9, <3>2
      <4>2. w[k] \in Entries /\ Sound(w[k]) /\ w[k].by # p
        BY <1>8 DEF Left
      <4>3. w[k].op = "activity" /\ w[k].s = s /\ w[k].by \in Procs \union {None}
        BY <2>9, <3>2, <4>1, <4>2 DEF Entries
      <4>4. w[k].by \in Procs \ {p} /\ Covers(w[k].by, s)
        BY <4>2, <4>3 DEF Sound, Fits, Covers
      <4> QED  BY <4>4, <2>6, <3>2
    <3>3. CASE t # s
      <4>1. PICK k \in DOMAIN wire : wire'[i] = wire[k]
        BY <1>4, <1>8, <1>9, <2>9, <3>3
      <4>2. EntryOnce(wire[k]) /\ Sound(wire[k]) /\ wire[k].s = t
        BY <1>1, <2>2, <2>9, <4>1 DEF SessionOnce, Control, WireOK
      <4>3. wire[k].log.calls \subseteq CallsOf(t) /\ (wire[k].op = "record" => wire[k].call \in CallsOf(t))
        BY <4>2 DEF Sound
      <4>4. /\ wire[k].log.calls \intersect covered' = wire[k].log.calls \intersect covered
            /\ wire[k].op = "record" => ({wire[k].call} \union wire[k].log.calls) \intersect covered'
                                          = ({wire[k].call} \union wire[k].log.calls) \intersect covered
        BY <2>7, <3>3, <4>3
      <4>5. Settled(wire[k].s) => Settled(t)'
        BY <2>3, <4>2
      <4> QED  BY <4>1, <4>2, <4>4, <4>5, <2>9 DEF EntryOnce
    <3> QED  BY <3>1, <3>2, <3>3
  <2>10. ASSUME NEW q \in Procs, job'[q].s = t  PROVE ProcOnce(q)'
    <3>1. CASE q = p
      BY <1>5, <3>1 DEF ProcOnce
    <3>2. CASE q # p
      <4>1. ProcOnce(q) /\ pc'[q] = pc[q] /\ job'[q] = job[q] /\ Placed(q) /\ job[q].s = t
        BY <1>1, <1>5, <2>2, <2>10, <3>2 DEF SessionOnce, Alone, Control
      <4>2. CASE t = s
        <5>1. pc[q] # "summary"
          BY <2>6, <3>2, <4>1, <4>2 DEF Covers
        <5> QED  BY <2>4, <2>10, <4>1, <4>2, <5>1 DEF ProcOnce
      <4>3. CASE t # s
        <5>1. /\ pc[q] = "summary" => job[q].snap \subseteq CallsOf(t)
              /\ pc[q] \in {"lookup", "save", "tool"} /\ job[q].kind \in {"call", "reflect"}
                   => job[q].call \in CallsOf(t)
          BY <4>1 DEF Placed
        <5>2. pc[q] = "summary" => job[q].snap \intersect covered' = job[q].snap \intersect covered
          BY <2>7, <4>3, <5>1
        <5>3. pc[q] \in {"lookup", "save", "tool"} /\ job[q].kind \in {"call", "reflect"}
                => (job[q].call \in covered' => job[q].call \in covered)
          BY <2>7, <4>3, <5>1
        <5> QED  BY <2>3, <2>10, <4>1, <5>2, <5>3 DEF ProcOnce
      <4> QED  BY <4>2, <4>3
    <3> QED  BY <3>1, <3>2
  <2> QED  BY <2>5, <2>8, <2>9, <2>10 DEF SessionOnce
<1>14. MapQuiet
  <2>1. WireQuiet
    BY <1>4 DEF WireQuiet, Left, Restoring
  <2>2. \A q \in Procs : pc'[q] \in Closing5 => pc[q] \in Closing5 /\ job'[q].s = job[q].s
    BY <1>5 DEF Closing5, Alone
  <2> QED  BY <2>1, <2>2 DEF MapQuiet
<1>15. StreamQuiet
  BY <1>5 DEF StreamQuiet, Closing5, Alone
<1> QED  BY <1>1, <1>7, <1>12, <1>13, <1>14, <1>15, GoneQuiet, StreamsQuiet DEF SessionInv

\* The closure of a closer, as it goes on.
LEMMA SnapJob ==
  ASSUME NEW j \in Jobs, NEW new \in SUBSET AllCalls
  PROVE  /\ [j EXCEPT !.snap = new] \in Jobs /\ [j EXCEPT !.snap = new].s = j.s
         /\ [j EXCEPT !.snap = new].own = j.own /\ [j EXCEPT !.snap = new].ok = j.ok
         /\ [j EXCEPT !.snap = new].snap = new
BY DEF Jobs

LEMMA SummarisedStep ==
  ASSUME SessionInv, NEW p \in Procs, NEW again \in BOOLEAN, Summarised(p, again)
  PROVE  SessionInv'
<1>0. PICK s : s = job[p].s
  OBVIOUS
<1>1. /\ pc[p] = "summary" /\ covered' = covered \union job[p].snap
      /\ repeated' = IF again \/ job[p].snap \intersect covered # {}
                     THEN repeated \union {s} ELSE repeated
      /\ excused' = IF again \/ ~up THEN excused \union {s} ELSE excused
      /\ IF up THEN /\ wire' = Append(wire, Entry("mark", p, s, None, log[s], None))
                    /\ Goto(p, "mark", [job[p] EXCEPT !.snap = {}])
               ELSE wire' = wire /\ Goto(p, "close", [job[p] EXCEPT !.snap = {}])
      /\ UNCHANGED <<now, mem, born, copy, log, up, held, used, late, ended, gone, failed, stray>>
  BY <1>0 DEF Summarised
<1>2. s \in used /\ job[p].snap \subseteq CallsOf(s) /\ s \in Sessions
  BY <1>0, <1>1 DEF SessionInv, Control, Placed, Closing5, Typed, MapTyped
<1>3. Left(p, wire)
  BY <1>1, NotWaiting DEF SessionInv
<1>4. log[s].calls \subseteq Told \union job[p].snap
  BY <1>0, <1>1 DEF SessionInv, ToldInv, ProcTold
<1>5. repeated' \subseteq excused'
  <2>1. repeated \subseteq excused
    BY DEF SessionInv, OnceInv
  <2>2. job[p].snap \intersect covered # {} => s \in excused
    BY <1>0, <1>1, <1>2 DEF SessionInv, OnceInv, SessionOnce, ProcOnce
  <2> QED  BY <1>1, <2>1, <2>2
<1>6. PICK j \in Jobs : j = [job[p] EXCEPT !.snap = {}]
  BY JobTyped, SnapJob
<1>7. j.s = s /\ j.own = job[p].own
  <2>1. job[p] \in Jobs
    BY JobTyped
  <2> QED  BY <1>0, <1>6, <2>1 DEF Jobs
<1>8. PICK l \in {"mark", "close"} :
        /\ Goto(p, l, j)
        /\ IF l = "mark" THEN wire' = Append(wire, Entry("mark", p, s, None, log[s], None))
                         ELSE wire' = wire /\ s \in excused'
  BY <1>1, <1>6
<1>9. PICK new \in SUBSET CallsOf(s) : new = job[p].snap
  BY <1>2
<1>10. excused \subseteq excused'
  BY <1>1
<1> QED  BY <1>0, <1>1, <1>2, <1>3, <1>4, <1>5, <1>7, <1>8, <1>9, <1>10, OwnWire, SummedStep

\* Without a summary the session is closed, and counts as not summarised.
LEMMA SummaryFailsStep ==
  ASSUME SessionInv, NEW p \in Procs, SummaryFails(p)
  PROVE  SessionInv'
<1>1. /\ pc[p] = "summary" /\ Goto(p, "close", [job[p] EXCEPT !.ok = FALSE, !.snap = {}])
      /\ wire' = wire
      /\ UNCHANGED <<now, mem, born, copy, log, up, held, used, covered, late, ended, gone,
                     failed, repeated, excused, stray>>
  BY DEF SummaryFails, history
<1>2. PICK j \in Jobs : j = [job[p] EXCEPT !.ok = FALSE, !.snap = {}]
  <2>1. job[p] \in Jobs
    BY JobTyped
  <2> QED  BY <2>1 DEF Jobs
<1>3. j.s = job[p].s /\ j.own = job[p].own /\ ~j.ok
  <2>1. job[p] \in Jobs
    BY JobTyped
  <2> QED  BY <1>2, <2>1 DEF Jobs
<1>4. Control /\ ProcTyped /\ job[p].s \in used /\ Left(p, wire)
  BY <1>1, NotWaiting DEF SessionInv, Control, Typed, Placed, Closing5
<1>5. ProcTyped' /\ pc'[p] = "close" /\ job'[p] = j /\ Alone(p) /\ Beside(p)
  BY <1>1, <1>2, <1>4, GotoDoes DEF Alone, PcValues
<1>6. MapTyped' /\ LogTyped' /\ Placed(p)'
  BY <1>1, <1>3, <1>4, <1>5 DEF Control, Typed, MapTyped, LogTyped, Placed, Closing5
<1>7. Control'
  BY <1>1, <1>4, <1>5, <1>6, ControlStep DEF Typed
<1>8. ToldInv'
  <2>1. \A q \in Procs : ProcTold(q)'
    BY <1>1, <1>3, <1>5 DEF SessionInv, ToldInv, ProcTold, Alone, Told
  <2> QED  BY <1>1, <2>1 DEF SessionInv, ToldInv, EntryTold, Told
<1>9. OnceInv'
  <2> SUFFICES ASSUME NEW t \in Sessions, t \notin excused  PROVE SessionOnce(t)'
    BY <1>1 DEF SessionInv, OnceInv
  <2>1. SessionOnce(t)
    BY DEF SessionInv, OnceInv
  <2>2. \A n : Settled(n) => Settled(n)'
    BY <1>1 DEF Settled
  <2>3. \A q, r \in Procs : Covers(q, t)' /\ Covers(r, t)' => q = r
    <3>1. \A q \in Procs : Covers(q, t)' => Covers(q, t)
      BY <1>5 DEF Alone, Covers
    <3> QED  BY <3>1, <2>1 DEF SessionOnce
  <2>4. \A i \in DOMAIN wire' : wire'[i].s = t => EntryOnce(wire[i])'
    BY <1>1, <2>1, <2>2 DEF SessionOnce, EntryOnce
  <2>5. \A q \in Procs : job'[q].s = t => ProcOnce(q)'
    <3> SUFFICES ASSUME NEW q \in Procs, job'[q].s = t  PROVE ProcOnce(q)'
      OBVIOUS
    <3>1. CASE q = p
      BY <1>5, <3>1 DEF ProcOnce
    <3>2. CASE q # p
      <4>1. ProcOnce(q) /\ pc'[q] = pc[q] /\ job'[q] = job[q]
        BY <1>5, <2>1, <3>2 DEF SessionOnce, Alone
      <4> QED  BY <1>1, <2>2, <4>1 DEF ProcOnce
    <3> QED  BY <3>1, <3>2
  <2>6. (log[t].calls \intersect covered # {} => Settled(t))'
    BY <1>1, <2>1, <2>2 DEF SessionOnce
  <2> QED  BY <2>3, <2>4, <2>5, <2>6 DEF SessionOnce
<1>10. MapQuiet
  <2>1. WireQuiet
    BY <1>1 DEF WireQuiet, Rest
  <2>2. \A q \in Procs : pc'[q] \in Closing5 => pc[q] \in Closing5 /\ job'[q].s = job[q].s
    BY <1>1, <1>3, <1>5 DEF Closing5, Alone
  <2> QED  BY <1>1, <2>1, <2>2 DEF MapQuiet
<1>11. StreamQuiet
  BY <1>1, <1>3, <1>5 DEF StreamQuiet, Closing5, Alone
<1> QED  BY <1>4, <1>7, <1>8, <1>9, <1>10, <1>11, GoneQuiet, StreamsQuiet DEF SessionInv

\* Redis answers a closer with the activity of its session.
LEMMA ActivityStep ==
  ASSUME SessionInv, wire # <<>>, Head(wire).op = "activity", Reply
  PROVE  SessionInv'
<1>0. PICK e : e = Head(wire)
  OBVIOUS
<1>p. PICK p : p = e.by
  OBVIOUS
<1>1. /\ e \in Entries /\ Sound(e) /\ e.op = "activity" /\ p \in Procs /\ p # None
      /\ \E i \in DOMAIN wire : e = wire[i]
  BY <1>0, <1>p, HeadSound, NoneIsNoProc DEF SessionInv
<1>2. /\ pc[p] = "activity" /\ job[p].s = e.s /\ e.s \in used /\ e.s \in Sessions
      /\ e.log \in Logs /\ e.log.calls \subseteq CallsOf(e.s) /\ e.log.calls \in SUBSET AllCalls
  BY <1>1, <1>p DEF Sound, Fits, Entries, Logs
<1>3. Left(p, Tail(wire)) /\ Off(Tail(wire), Ops \ {"mark"})
  BY <1>0, <1>p, <1>1, Answered DEF SessionInv, Off, Ops
<1>4. PICK j : j = [job[p] EXCEPT !.snap = e.log.calls]
  OBVIOUS
<1>5. j \in Jobs /\ j.s = e.s /\ j.own = job[p].own /\ j.snap = e.log.calls
  BY <1>1, <1>2, <1>4, JobTyped, SnapJob
<1>6. ActivityRead(p, e.log, Tail(wire)) /\ UNCHANGED <<now, up, used>>
  BY <1>0, <1>p, <1>1 DEF Reply
<1>7. EntryTold(e) /\ (e.s \notin excused => EntryOnce(e))
  BY <1>1, <1>2 DEF SessionInv, ToldInv, OnceInv, SessionOnce
<1>8. CASE e.log.reflected
  <2>1. EndSession(p, j, Tail(wire))
    BY <1>4, <1>6, <1>8 DEF ActivityRead
  <2>2. log[j.s].calls \subseteq Told
    BY <1>1, <1>5, <1>7, <1>8 DEF EntryTold
  <2>3. pc[p] \in Closing5
    BY <1>2 DEF Closing5
  <2> QED  BY <1>1, <1>2, <1>3, <1>5, <1>6, <2>1, <2>2, <2>3, EndStep
<1>9. CASE ~e.log.reflected /\ e.log.calls = {}
  <2>1. /\ wire' = Append(Tail(wire), Entry("mark", p, e.s, None, log[e.s], None))
        /\ Goto(p, "mark", [j EXCEPT !.snap = {}])
        /\ UNCHANGED <<mem, born, copy, log, held, covered, late, ended, gone, failed, repeated,
                       excused, stray>>
    BY <1>4, <1>5, <1>6, <1>9 DEF ActivityRead, history
  <2>2. PICK k : k = [j EXCEPT !.snap = {}]
    OBVIOUS
  <2>3. k \in Jobs /\ k.s = e.s /\ k.own = job[p].own
    BY <1>5, <2>2, SnapJob
  <2>4. log[e.s].calls \subseteq Told \union {}
    BY <1>1, <1>7, <1>9 DEF EntryTold
  <2>5. repeated' \subseteq excused'
    BY <2>1 DEF SessionInv, OnceInv
  <2>6. covered' = covered \union {}
    BY <2>1
  <2>7. PICK s \in used : s = e.s
    BY <1>2
  <2>8. Goto(p, "mark", k) /\ wire' = Append(Tail(wire), Entry("mark", p, s, None, log[s], None))
    BY <2>1, <2>2, <2>7
  <2>9. PICK l \in {"mark", "close"} : l = "mark"
    OBVIOUS
  <2>10. PICK new \in SUBSET CallsOf(s) : new = {}
    OBVIOUS
  <2>11. /\ UNCHANGED <<now, mem, born, copy, log, up, held, used, late, ended, gone, failed, stray>>
         /\ excused \subseteq excused' /\ pc[p] \in {"activity", "summary"} /\ s = job[p].s
    BY <1>2, <1>6, <2>1, <2>7
  <2>12. /\ covered' = covered \union new /\ log[s].calls \subseteq Told \union new
         /\ new # {} => pc[p] = "summary"
         /\ Goto(p, l, k)
         /\ IF l = "mark" THEN wire' = Append(Tail(wire), Entry("mark", p, s, None, log[s], None))
                          ELSE wire' = Tail(wire) /\ s \in excused'
    BY <2>4, <2>6, <2>7, <2>8, <2>9, <2>10
  <2> QED  BY <1>1, <1>3, <2>3, <2>5, <2>7, <2>11, <2>12, SummedStep
<1>10. CASE ~e.log.reflected /\ e.log.calls # {}
  <2>1. /\ wire' = Tail(wire) /\ Goto(p, "summary", j)
        /\ UNCHANGED <<mem, born, copy, log, held, covered, late, ended, gone, failed, repeated,
                       excused, stray>>
    BY <1>4, <1>6, <1>10 DEF ActivityRead, history
  <2>2. Control /\ ProcTyped
    BY DEF SessionInv, Control, Typed
  <2>3. ProcTyped' /\ pc'[p] = "summary" /\ job'[p] = j /\ Alone(p) /\ Beside(p)
    BY <1>1, <1>5, <2>1, <2>2, GotoDoes DEF Alone, PcValues
  <2>4. MapTyped' /\ LogTyped' /\ Placed(p)'
    BY <1>2, <1>5, <1>6, <2>1, <2>2, <2>3 DEF Control, Typed, MapTyped, LogTyped, Placed, Closing5
  <2>5. Control'
    BY <1>1, <1>3, <1>6, <2>1, <2>2, <2>3, <2>4, ControlStep DEF Typed
  <2>6. NoNews /\ MarksStay
    BY <1>3, <2>1, <2>2, PlainReply
  <2>7. ToldInv'
    <3>1. \A i \in DOMAIN wire' : EntryTold(wire[i])'
      <4> SUFFICES ASSUME NEW i \in DOMAIN wire'  PROVE EntryTold(wire[i])'
        OBVIOUS
      <4>1. CASE wire'[i].op \notin {"record", "mark", "activity"} /\ wire'[i].log = NoLog
        BY <4>1, NoLogTyped DEF EntryTold
      <4>2. ASSUME NEW k \in DOMAIN wire, wire'[i] = wire[k]  PROVE EntryTold(wire[i])'
        BY <2>1, <4>2 DEF SessionInv, ToldInv, EntryTold, Told
      <4> QED  BY <4>1, <4>2, <2>6 DEF NoNews
    <3>2. \A q \in Procs : ProcTold(q)'
      <4> SUFFICES ASSUME NEW q \in Procs  PROVE ProcTold(q)'
        OBVIOUS
      <4>1. CASE q = p
        <5>1. log[e.s].calls \subseteq e.log.calls \union Told
          BY <1>1, <1>7 DEF EntryTold
        <5> QED  BY <1>5, <2>1, <2>3, <4>1, <5>1 DEF ProcTold, Told
      <4>2. CASE q # p
        BY <2>1, <2>3, <4>2 DEF SessionInv, ToldInv, ProcTold, Told, Alone
      <4> QED  BY <4>1, <4>2
    <3> QED  BY <1>6, <2>1, <3>1, <3>2 DEF SessionInv, ToldInv, Told
  <2>8. OnceInv'
    <3> SUFFICES ASSUME NEW t \in Sessions, t \notin excused  PROVE SessionOnce(t)'
      BY <2>1 DEF SessionInv, OnceInv
    <3>1. SessionOnce(t)
      BY DEF SessionInv, OnceInv
    <3>2. \A n \in Sessions : Settled(n) => Settled(n)'
      BY <2>1, <2>6 DEF MarksStay, Settled
    <3>3. \A q, r \in Procs : Covers(q, t)' /\ Covers(r, t)' => q = r
      <4>1. \A q \in Procs : Covers(q, t)' => Covers(q, t)
        BY <1>2, <1>5, <2>3 DEF Alone, Covers
      <4> QED  BY <4>1, <3>1 DEF SessionOnce
    <3>4. (log[t].calls \intersect covered # {} => Settled(t))'
      BY <2>1, <3>1, <3>2 DEF SessionOnce
    <3>5. ASSUME NEW i \in DOMAIN wire', wire'[i].s = t  PROVE EntryOnce(wire[i])'
      <4>1. CASE wire'[i].op \notin {"record", "mark", "activity"}
        BY <4>1 DEF EntryOnce
      <4>2. ASSUME NEW k \in DOMAIN wire, wire'[i] = wire[k]  PROVE EntryOnce(wire[i])'
        <5>1. EntryOnce(wire[k]) /\ wire[k].s = t
          BY <3>1, <3>5, <4>2 DEF SessionOnce
        <5>2. Settled(wire[k].s) => Settled(t)'
          BY <5>1, <3>2
        <5> QED  BY <2>1, <3>5, <4>2, <5>1, <5>2 DEF EntryOnce
      <4> QED  BY <4>1, <4>2, <2>6 DEF NoNews
    <3>6. ASSUME NEW q \in Procs, job'[q].s = t  PROVE ProcOnce(q)'
      <4>1. CASE q = p
        <5>1. e.s \notin excused
          BY <1>5, <2>3, <3>6, <4>1
        <5>2. e.log.calls \intersect covered = {}
          BY <1>1, <1>7, <1>10, <5>1 DEF EntryOnce
        <5> QED  BY <1>5, <2>1, <2>3, <4>1, <5>2 DEF ProcOnce
      <4>2. CASE q # p
        <5>1. ProcOnce(q) /\ pc'[q] = pc[q] /\ job'[q] = job[q]
          BY <2>3, <3>1, <3>6, <4>2 DEF SessionOnce, Alone
        <5> QED  BY <2>1, <3>2, <3>6, <5>1 DEF ProcOnce
      <4> QED  BY <4>1, <4>2
    <3> QED  BY <3>3, <3>4, <3>5, <3>6 DEF SessionOnce
  <2>9. MapQuiet
    <3>1. WireQuiet
      BY <1>3, <2>1 DEF WireQuiet, Left
    <3>2. \A q \in Procs : pc'[q] \in Closing5 => pc[q] \in Closing5 /\ job'[q].s = job[q].s
      BY <1>2, <1>5, <2>3 DEF Closing5, Alone
    <3> QED  BY <1>6, <2>1, <3>1, <3>2 DEF MapQuiet
  <2>10. StreamQuiet
    BY <1>2, <1>5, <2>1, <2>3 DEF StreamQuiet, Closing5, Alone
  <2> QED  BY <2>2, <2>5, <2>7, <2>8, <2>9, <2>10, GoneQuiet, StreamsQuiet DEF SessionInv
<1> QED  BY <1>8, <1>9, <1>10

-----------------------------------------------------------------------------
(* The second half of a record or a mark.                                   *)

LEMMA RecordedTyped ==
  ASSUME NEW e \in Entries, e.op = "record" => e.call \in AllCalls
  PROVE  /\ Recorded(e) \in Logs
         /\ Recorded(e).calls = IF e.op = "record" THEN e.log.calls \union {e.call} ELSE e.log.calls
         /\ Recorded(e).reflected = (e.op = "record" => e.log.reflected)
<1>1. e.log \in Logs
  BY DEF Entries
<1>2. PICK l \in Logs : l = e.log
  BY <1>1
<1>3. CASE e.op = "record"
  <2>1. Recorded(e) = [l EXCEPT !.calls = l.calls \union {e.call}] /\ e.call \in AllCalls
    BY <1>2, <1>3 DEF Recorded
  <2> QED  BY <1>2, <1>3, <2>1 DEF Logs
<1>4. CASE e.op # "record"
  <2>1. Recorded(e) = [l EXCEPT !.reflected = TRUE]
    BY <1>2, <1>4 DEF Recorded
  <2> QED  BY <1>2, <1>4, <2>1 DEF Logs
<1> QED  BY <1>3, <1>4

\* A mark that is taken from the queue is the only one that may be gone.
LEMMA MarkTaken ==
  ASSUME Control, wire # <<>>, NEW s, Marking(wire, s)
  PROVE  Marking(Tail(wire), s) \/ (Head(wire).op = "mark" /\ Head(wire).s = s)
<1>1. PICK i \in DOMAIN wire : wire[i].op = "mark" /\ wire[i].s = s
  BY DEF Marking
<1>2. wire \in Seq(Entries)
  BY DEF Control, WireOK
<1>3. CASE i = 1
  BY <1>1, <1>2, <1>3, Popped
<1>4. CASE i # 1
  <2>1. i - 1 \in DOMAIN Tail(wire) /\ Tail(wire)[i - 1] = wire[i]
    BY <1>2, <1>4, Popped
  <2> QED  BY <1>1, <2>1 DEF Marking
<1> QED  BY <1>3, <1>4

\* What such a write does to the queue and to the closer that waits for it.
Written(e) ==
  /\ job' = job
  /\ \A q \in Procs : pc'[q] = pc[q] \/ (pc[q] = "mark" /\ pc'[q] = "marked")
  /\ \A i \in DOMAIN wire' :
       \/ wire'[i].op = "marked" /\ wire'[i].log = NoLog
       \/ \E k \in DOMAIN wire : wire'[i] = wire[k]
  /\ \A t : Marking(wire, t) => Marking(wire', t) \/ (e.op = "mark" /\ e.s = t)

LEMMA WriteDoes ==
  ASSUME SessionInv, wire # <<>>, NEW e, e = Head(wire), e.op \in {"record", "mark"},
         UNCHANGED <<up, used>>, MapTyped', LogTyped',
         IF e.by = None
         THEN wire' = Tail(wire) /\ UNCHANGED <<pc, job>>
         ELSE /\ wire' = Append(Tail(wire), Await("marked", e.by, e.s))
              /\ Goto(e.by, "marked", job[e.by])
  PROVE  Control' /\ Written(e) /\ WireQuiet
<1>1. /\ Control /\ ProcTyped /\ e \in Entries /\ Sound(e) /\ Rest(Tail(wire))
      /\ e.by # None => e.by \in Procs
      /\ e.s \in used /\ e.s \in Sessions
  <2>1. /\ Control /\ ProcTyped /\ e \in Entries /\ Sound(e) /\ Rest(Tail(wire))
        /\ e.by # None => e.by \in Procs
    BY HeadSound DEF SessionInv, Control, Typed
  <2> QED  BY <2>1 DEF Sound, Entries
<1>2. /\ Tail(wire) \in Seq(Entries)
      /\ \A i \in DOMAIN Tail(wire) : \E k \in DOMAIN wire : Tail(wire)[i] = wire[k]
  BY <1>1, RestWas
<1>3. \A t : Marking(wire, t) => Marking(Tail(wire), t) \/ (e.op = "mark" /\ e.s = t)
  BY <1>1, MarkTaken
<1>4. CASE e.by = None
  <2>1. wire' = Tail(wire) /\ UNCHANGED <<pc, job>>
    BY <1>4
  <2>2. Control'
    BY <1>1, <2>1, ControlStill
  <2>3. WireQuiet
    BY <1>1, <2>1 DEF WireQuiet
  <2> QED  BY <1>2, <1>3, <2>1, <2>2, <2>3 DEF Written
<1>5. CASE e.by # None
  <2>1. PICK p \in Procs : p = e.by
    BY <1>1, <1>5
  <2>2. wire' = Append(Tail(wire), Await("marked", p, e.s)) /\ Goto(p, "marked", job[p])
    BY <1>5, <2>1
  <2>3. pc[p] = "mark" /\ job[p].s = e.s
    BY <1>1, <1>5, <2>1 DEF Sound, Fits
  <2>4. Left(p, Tail(wire))
    BY <1>1, <1>5, <2>1, Answered
  <2>5. PICK j \in Jobs : j = job[p]
    BY JobTyped
  <2>6. ProcTyped' /\ pc'[p] = "marked" /\ job'[p] = j /\ Alone(p) /\ Beside(p)
    BY <1>1, <2>2, <2>5, GotoDoes DEF Alone, PcValues
  <2>7. PICK a \in Entries : a = Await("marked", p, e.s)
    BY <1>1, AwaitTyped DEF Ops
  <2>8. a.op = "marked" /\ a.by = p /\ a.s = e.s /\ a.log = NoLog /\ wire' = Append(Tail(wire), a)
    BY <2>2, <2>7 DEF Await, Entry
  <2>9. Sound(a)'
    BY <1>1, <2>3, <2>5, <2>6, <2>8, NoneIsNoProc, NoLogTyped DEF Sound, Fits
  <2>10. Placed(p)'
    BY <1>1, <2>3, <2>5, <2>6 DEF Placed, Closing5
  <2>11. Control'
    BY <1>1, <2>4, <2>6, <2>8, <2>9, <2>10, ControlStep DEF Typed
  <2>12. WireQuiet
    BY <1>1, <2>8 DEF WireQuiet, Restoring
  <2>13. job' = job
    BY <1>1, <2>2 DEF Goto, ProcTyped
  <2>14. /\ \A i \in DOMAIN wire' : wire'[i] = a \/ \E k \in DOMAIN Tail(wire) : wire'[i] = Tail(wire)[k]
         /\ \A t : Marking(Tail(wire), t) => Marking(wire', t)
    <3>1. /\ DOMAIN wire' = DOMAIN Tail(wire) \union {Len(Tail(wire)) + 1}
          /\ \A n \in DOMAIN Tail(wire) : wire'[n] = Tail(wire)[n]
          /\ wire'[Len(Tail(wire)) + 1] = a
      BY <1>2, <2>8, Pushed
    <3> QED  BY <3>1 DEF Marking
  <2>15. Written(e)
    BY <1>2, <1>3, <2>3, <2>6, <2>8, <2>13, <2>14 DEF Written, Alone
  <2> QED  BY <2>11, <2>12, <2>15
<1> QED  BY <1>4, <1>5

LEMMA WriteStep ==
  ASSUME SessionInv, wire # <<>>, Head(wire).op \in {"record", "mark"}, Reply
  PROVE  SessionInv'
<1>0. PICK e : e = Head(wire)
  OBVIOUS
<1>s. PICK s : s = e.s
  OBVIOUS
<1>1. /\ e \in Entries /\ Sound(e) /\ e.op \in {"record", "mark"} /\ \E i \in DOMAIN wire : e = wire[i]
  BY <1>0, HeadSound DEF SessionInv
<1>2. /\ Control /\ LogTyped /\ MapTyped
      /\ s \in used /\ s \in Sessions /\ e.log \in Logs /\ e.log.calls \subseteq CallsOf(s)
      /\ e.op = "record" => e.call \in CallsOf(s) /\ e.call \in AllCalls
  BY <1>1, <1>s DEF SessionInv, Control, Typed, Sound, Entries, CallsOf, AllCalls
<1>3. /\ Recorded(e) \in Logs
      /\ Recorded(e).calls = IF e.op = "record" THEN e.log.calls \union {e.call} ELSE e.log.calls
      /\ Recorded(e).reflected = (e.op = "record" => e.log.reflected)
  BY <1>1, <1>2, RecordedTyped
<1>4. PICK r \in Logs : r = Recorded(e)
  BY <1>3
<1>5. /\ RecordWrite(e, Tail(wire)) /\ UNCHANGED <<now, up, used>>
  BY <1>0, <1>1 DEF Reply
<1>6. /\ log' = [log EXCEPT ![s] = r]
      /\ late' = IF /\ e.op = "record"
                    /\ e.log.reflected \/ log[s].reflected \/ Covering(s) \/ Closing(s)
                 THEN late \union {e.call} \union (e.log.calls \ log[s].calls) ELSE late
      /\ excused' = IF log[s].reflected /\ ~r.reflected THEN excused \union {s} ELSE excused
      /\ UNCHANGED <<mem, born, copy, held, covered, ended, gone, failed, repeated, stray>>
  BY <1>s, <1>4, <1>5 DEF RecordWrite
<1>7. /\ log'[s] = r /\ \A t \in Sessions \ {s} : log'[t] = log[t]
      /\ log \in [Sessions -> Logs] /\ log' \in [Sessions -> Logs]
  BY <1>2, <1>6 DEF LogTyped
<1>8. MapTyped' /\ LogTyped'
  <2>1. r.calls \subseteq CallsOf(s)
    BY <1>2, <1>3, <1>4
  <2>2. \A t \in Sessions : log'[t].calls \subseteq CallsOf(t)
    BY <1>2, <1>7, <2>1 DEF LogTyped
  <2>3. late' \subseteq AllCalls
    BY <1>2, <1>6 DEF LogTyped, CallsOf, AllCalls
  <2> QED  BY <1>2, <1>5, <1>6, <1>7, <2>2, <2>3 DEF MapTyped, LogTyped
<1>9. Control' /\ Written(e) /\ WireQuiet
  <2>1. IF e.by = None
        THEN wire' = Tail(wire) /\ UNCHANGED <<pc, job>>
        ELSE /\ wire' = Append(Tail(wire), Await("marked", e.by, e.s))
             /\ Goto(e.by, "marked", job[e.by])
    BY <1>5 DEF RecordWrite
  <2> QED  BY <1>0, <1>1, <1>5, <1>8, <2>1, WriteDoes
<1>10. Told \subseteq Told' /\ covered' = covered
  BY <1>6 DEF Told
\* What a write brings that the record did not hold is late, where a summary could miss it.
<1>11. /\ e.op = "mark" => r.calls \subseteq Told'
       /\ Covering(s) \/ Closing(s) => r.calls \subseteq log[s].calls \union Told'
       /\ r.reflected => r.calls \subseteq Told'
  <2>1. EntryTold(e)
    BY <1>1 DEF SessionInv, ToldInv
  <2>2. CASE e.op = "mark"
    <3>1. r.calls \subseteq Told
      BY <1>3, <1>4, <2>1, <2>2 DEF EntryTold
    <3> QED  BY <1>10, <3>1
  <2>3. CASE e.op = "record"
    <3>1. r.calls = e.log.calls \union {e.call} /\ (r.reflected <=> e.log.reflected)
      BY <1>3, <1>4, <2>3
    <3>2. e.log.reflected \/ Covering(s) \/ Closing(s) => r.calls \subseteq log[s].calls \union Told'
      BY <1>6, <2>3, <3>1 DEF Told
    <3>3. e.log.reflected => e.log.calls \subseteq Told'
      BY <1>10, <2>1 DEF EntryTold
    <3>4. e.log.reflected => e.call \in Told'
      BY <1>6, <2>3 DEF Told
    <3> QED  BY <2>3, <3>1, <3>2, <3>3, <3>4
  <2> QED  BY <1>1, <2>2, <2>3
<1>12. ToldInv'
  <2>1. ToldInv
    BY DEF SessionInv
  <2>2. \A t \in ended' : t \in used' /\ mem'[t] = None /\ log'[t].calls \subseteq Told'
    <3> SUFFICES ASSUME NEW t \in ended
                 PROVE  t \in used' /\ mem'[t] = None /\ log'[t].calls \subseteq Told'
      BY <1>6
    <3>1. t \in used /\ t \in Sessions /\ mem[t] = None /\ log[t].calls \subseteq Told
      BY <1>2, <2>1 DEF ToldInv, MapTyped
    <3>2. CASE t = s
      <4>1. Closing(s)
        BY <3>1, <3>2 DEF Closing
      <4> QED  BY <1>5, <1>6, <1>7, <1>10, <1>11, <3>1, <3>2, <4>1
    <3>3. CASE t # s
      BY <1>5, <1>6, <1>7, <1>10, <3>1, <3>3
    <3> QED  BY <3>2, <3>3
  <2>3. \A t \in Sessions : log'[t].reflected => log'[t].calls \subseteq Told'
    <3> SUFFICES ASSUME NEW t \in Sessions, log'[t].reflected  PROVE log'[t].calls \subseteq Told'
      OBVIOUS
    <3>1. CASE t = s
      BY <1>7, <1>11, <3>1
    <3>2. CASE t # s
      BY <1>7, <1>10, <2>1, <3>2 DEF ToldInv
    <3> QED  BY <3>1, <3>2
  <2>4. \A i \in DOMAIN wire' : EntryTold(wire[i])'
    <3> SUFFICES ASSUME NEW i \in DOMAIN wire'  PROVE EntryTold(wire[i])'
      OBVIOUS
    <3>1. CASE wire'[i].op = "marked" /\ wire'[i].log = NoLog
      BY <3>1, NoLogTyped DEF EntryTold
    <3>2. ASSUME NEW k \in DOMAIN wire, wire'[i] = wire[k]  PROVE EntryTold(wire[i])'
      <4>1. EntryTold(wire[k]) /\ Sound(wire[k]) /\ wire[k] \in Entries
        BY <1>2, <2>1 DEF ToldInv, Control, WireOK
      <4>2. CASE wire[k].op = "activity" /\ wire[k].s = s
        <5>1. Covering(s)
          BY <4>1, <4>2 DEF Sound, Fits, Covering, Entries
        <5>2. log'[s].calls \subseteq wire[k].log.calls \union Told'
          BY <1>7, <1>10, <1>11, <4>1, <4>2, <5>1 DEF EntryTold
        <5> QED  BY <1>10, <3>2, <4>1, <4>2, <5>2 DEF EntryTold
      <4>3. CASE ~(wire[k].op = "activity" /\ wire[k].s = s)
        <5>1. wire[k].s \in Sessions
          BY <4>1 DEF Entries
        <5> QED  BY <1>7, <1>10, <3>2, <4>1, <4>3, <5>1 DEF EntryTold
      <4> QED  BY <4>2, <4>3
    <3> QED  BY <1>9, <3>1, <3>2 DEF Written
  <2>5. \A q \in Procs : ProcTold(q)'
    <3> SUFFICES ASSUME NEW q \in Procs  PROVE ProcTold(q)'
      OBVIOUS
    <3>1. /\ ProcTold(q) /\ Placed(q) /\ job'[q] = job[q]
          /\ pc'[q] = pc[q] \/ (pc[q] = "mark" /\ pc'[q] = "marked")
      BY <1>2, <1>9, <2>1 DEF ToldInv, Control, Written
    <3>2. CASE job[q].s = s
      <4>1. pc[q] \in {"summary", "mark"} \/ (pc[q] = "tool" /\ job[q].kind = "reflect") => Covering(s)
        BY <3>2 DEF Covering
      <4>2. pc[q] \in {"marked", "close"} => Closing(s)
        BY <3>2 DEF Closing
      <4> QED  BY <1>7, <1>10, <1>11, <3>1, <3>2, <4>1, <4>2 DEF ProcTold
    <3>3. CASE job[q].s # s
      <4>1. pc[q] \in {"summary", "mark", "tool", "marked", "close"} => job[q].s \in Sessions \ {s}
        BY <1>2, <3>1, <3>3 DEF Placed, Closing5, MapTyped
      <4> QED  BY <1>7, <1>10, <3>1, <4>1 DEF ProcTold
    <3> QED  BY <3>2, <3>3
  <2> QED  BY <2>2, <2>3, <2>4, <2>5 DEF ToldInv
<1>13. OnceInv'
  <2>1. repeated' \subseteq excused' /\ excused \subseteq excused'
    BY <1>6 DEF SessionInv, OnceInv
  <2> SUFFICES ASSUME NEW t \in Sessions, t \notin excused'  PROVE SessionOnce(t)'
    BY <2>1 DEF OnceInv
  <2>2. SessionOnce(t) /\ t \notin excused
    BY <2>1 DEF SessionInv, OnceInv
  <2>3. Settled(t) => Settled(t)'
    <3>1. Marking(wire, t) => Marking(wire', t) \/ (e.op = "mark" /\ s = t)
      BY <1>9, <1>s DEF Written
    <3>2. t = s /\ log[s].reflected => r.reflected
      BY <1>6
    <3>3. e.op = "mark" => r.reflected
      BY <1>3, <1>4
    <3>4. t = s => log'[t] = r
      BY <1>7
    <3>5. t # s => log'[t] = log[t]
      BY <1>7
    <3> QED  BY <3>1, <3>2, <3>3, <3>4, <3>5 DEF Settled
  <2>4. \A q, u \in Procs : Covers(q, t)' /\ Covers(u, t)' => q = u
    <3>1. \A q \in Procs : Covers(q, t)' => Covers(q, t)
      BY <1>9 DEF Written, Covers
    <3> QED  BY <3>1, <2>2 DEF SessionOnce
  <2>5. (log[t].calls \intersect covered # {} => Settled(t))'
    <3>1. CASE t = s
      <4>1. EntryOnce(e)
        BY <1>1, <1>s, <2>2, <3>1 DEF SessionOnce
      <4>2. e.op = "mark" => Settled(t)'
        BY <1>3, <1>4, <1>7, <3>1 DEF Settled
      <4>3. e.op = "record" /\ r.calls \intersect covered # {} => e.log.reflected \/ Settled(s)
        BY <1>3, <1>4, <1>s, <4>1 DEF EntryOnce
      <4>4. e.op = "record" /\ e.log.reflected => Settled(t)'
        BY <1>3, <1>4, <1>7, <3>1 DEF Settled
      <4> QED  BY <1>1, <1>7, <1>10, <2>3, <3>1, <4>2, <4>3, <4>4
    <3>2. CASE t # s
      BY <1>7, <1>10, <2>2, <2>3, <3>2 DEF SessionOnce
    <3> QED  BY <3>1, <3>2
  <2>6. ASSUME NEW i \in DOMAIN wire', wire'[i].s = t  PROVE EntryOnce(wire[i])'
    <3>1. CASE wire'[i].op = "marked"
      BY <3>1 DEF EntryOnce
    <3>2. ASSUME NEW k \in DOMAIN wire, wire'[i] = wire[k]  PROVE EntryOnce(wire[i])'
      <4>1. EntryOnce(wire[k]) /\ wire[k].s = t
        BY <2>2, <2>6, <3>2 DEF SessionOnce
      <4> QED  BY <1>10, <2>3, <2>6, <3>2, <4>1 DEF EntryOnce
    <3> QED  BY <1>9, <3>1, <3>2 DEF Written
  <2>7. ASSUME NEW q \in Procs, job'[q].s = t  PROVE ProcOnce(q)'
    <3>1. /\ job'[q] = job[q]
          /\ pc'[q] = pc[q] \/ (pc[q] = "mark" /\ pc'[q] = "marked")
      BY <1>9 DEF Written
    <3>2. ProcOnce(q)
      BY <1>9, <2>2, <2>7 DEF SessionOnce, Written
    <3> QED  BY <1>9, <1>10, <2>3, <2>7, <3>1, <3>2 DEF ProcOnce, Written
  <2> QED  BY <2>4, <2>5, <2>6, <2>7 DEF SessionOnce
<1>14. MapQuiet
  <2>1. \A q \in Procs : pc'[q] \in Closing5 => pc[q] \in Closing5 /\ job'[q].s = job[q].s
    BY <1>9 DEF Closing5, Written
  <2> QED  BY <1>5, <1>6, <1>9, <2>1 DEF MapQuiet
<1>15. StreamQuiet
  BY <1>6, <1>9 DEF StreamQuiet, Closing5, Written
<1> QED  BY <1>2, <1>9, <1>12, <1>13, <1>14, <1>15, GoneQuiet, StreamsQuiet DEF SessionInv

-----------------------------------------------------------------------------
(* Outages and restarts.                                                    *)

LEMMA BrokenIs ==
  ASSUME NEW e \in Entries, Sound(e)
  PROVE  /\ Broken(e) \in Entries /\ Broken(e).by = e.by /\ Broken(e).s = e.s
         /\ Broken(e).op \notin {"record", "mark", "activity"}
         /\ Broken(e).log.calls \subseteq CallsOf(e.s)
         /\ e.by # None => Fits(Broken(e).op, pc[e.by])
         /\ e.by = None => Broken(e).op = "lost"
         /\ ~Restoring(Broken(e))
         /\ Broken(e).log = NoLog \/ Broken(e) = e
<1>1. e.by \in Procs \union {None} /\ e.s \in Sessions
  BY DEF Entries
<1>2. CASE e.by = None
  <2>1. Broken(e) = Entry("lost", None, e.s, None, NoLog, None)
    BY <1>2 DEF Broken
  <2> QED  BY <1>1, <1>2, <2>1, NoLogTyped DEF Entry, Entries, Ops, Restoring
<1>3. CASE e.by # None /\ e.op \in {"lookup", "activity", "mark"}
  <2>1. PICK op \in {"lookup", "unread", "marked"} :
          /\ Broken(e) = Await(op, e.by, e.s)
          /\ op = "lookup" => e.op = "lookup"
          /\ op = "unread" => e.op = "activity"
          /\ op = "marked" => e.op = "mark"
    BY <1>3 DEF Broken
  <2>2. /\ Broken(e) \in Entries /\ Broken(e).op = op /\ Broken(e).by = e.by /\ Broken(e).s = e.s
        /\ Broken(e).log = NoLog /\ Broken(e).exp = None
    <3>1. op \in Ops /\ e.by \in Procs
      BY <1>1, <1>3 DEF Ops
    <3> QED  BY <1>1, <2>1, <3>1, AwaitTyped
  <2> QED  BY <1>3, <2>1, <2>2, NoLogTyped DEF Sound, Fits, Restoring
<1>4. CASE e.by # None /\ e.op \notin {"lookup", "activity", "mark"}
  <2>1. Broken(e) = e
    BY <1>4 DEF Broken
  <2> QED  BY <1>4, <2>1 DEF Sound, Fits, Restoring
<1> QED  BY <1>2, <1>3, <1>4

LEMMA OutageStep ==
  ASSUME SessionInv, Outage
  PROVE  SessionInv'
<1>1. /\ up' = FALSE /\ wire' = [i \in DOMAIN wire |-> Broken(wire[i])]
      /\ excused' = excused \union {s \in Sessions : Covering(s)}
      /\ UNCHANGED <<now, mem, born, copy, log, pc, job, held, used, covered, late, ended,
                     gone, failed, repeated, stray>>
  BY DEF Outage
<1>2. Control /\ wire \in Seq(Entries) /\ OneReply(wire) /\ \A i \in DOMAIN wire : Sound(wire[i])
  BY DEF SessionInv, Control, WireOK
<1>3. /\ DOMAIN wire' = DOMAIN wire
      /\ \A i \in DOMAIN wire : wire'[i] = Broken(wire[i])
  BY <1>1
<1>4. ASSUME NEW i \in DOMAIN wire
      PROVE  /\ wire[i] \in Entries /\ Sound(wire[i])
             /\ wire'[i] \in Entries /\ wire'[i].by = wire[i].by /\ wire'[i].s = wire[i].s
             /\ wire'[i].op \notin {"record", "mark", "activity"}
             /\ wire'[i].log.calls \subseteq CallsOf(wire[i].s)
             /\ wire[i].by # None => Fits(wire'[i].op, pc[wire[i].by])
             /\ wire[i].by = None => wire'[i].op = "lost"
             /\ ~Restoring(wire'[i])
             /\ wire'[i].log = NoLog \/ wire'[i] = wire[i]
  <2>1. wire[i] \in Entries /\ Sound(wire[i])
    BY <1>2
  <2> QED  BY <1>3, <2>1, BrokenIs
<1>5. Control'
  <2>1. wire' \in Seq(Entries)
    <3>1. DOMAIN wire = 1..Len(wire) /\ Len(wire) \in Nat
      BY <1>2
    <3> QED  BY <1>1, <1>3, <1>4, <3>1
  <2>2. \A i \in DOMAIN wire' : Sound(wire[i])'
    <3> SUFFICES ASSUME NEW i \in DOMAIN wire'  PROVE Sound(wire[i])'
      OBVIOUS
    <3> QED  BY <1>1, <1>3, <1>4 DEF Sound
  <2>3. OneReply(wire)'
    <3> SUFFICES ASSUME NEW i \in DOMAIN wire', NEW j \in DOMAIN wire',
                        wire'[i].by # None, wire'[i].by = wire'[j].by
                 PROVE  i = j
      BY DEF OneReply
    <3> QED  BY <1>2, <1>3, <1>4 DEF OneReply
  <2>4. MapTyped' /\ LogTyped' /\ ProcTyped' /\ \A p \in Procs : Placed(p)'
    BY <1>1, <1>2 DEF Control, Typed, MapTyped, LogTyped, ProcTyped, Placed
  <2> QED  BY <2>1, <2>2, <2>3, <2>4 DEF Control, Typed, WireOK
<1>6. StreamInv'
  BY <1>1 DEF SessionInv, StreamInv, HeldOpen, Owned, Attached
<1>7. \A t : Clear(wire', t)
  BY <1>3, <1>4 DEF Clear, Restores, Restoring
<1>8. GoneInv'
  <2>1. \A t, p : Behind(p, wire', t)
    BY <1>7 DEF Behind, Clear
  <2> QED  BY <1>1, <1>7, <2>1 DEF SessionInv, GoneInv, Closes, Clear, Behind
<1>9. ToldInv'
  <2>1. Told' = Told /\ log' = log
    BY <1>1 DEF Told
  <2>2. \A i \in DOMAIN wire' : EntryTold(wire[i])'
    <3> SUFFICES ASSUME NEW i \in DOMAIN wire'  PROVE EntryTold(wire[i])'
      OBVIOUS
    <3>1. CASE wire'[i].log = NoLog
      BY <1>3, <1>4, <3>1, NoLogTyped DEF EntryTold
    <3>2. CASE wire'[i] = wire[i]
      BY <1>3, <2>1, <3>2 DEF SessionInv, ToldInv, EntryTold
    <3> QED  BY <1>3, <1>4, <3>1, <3>2
  <2>3. \A p \in Procs : ProcTold(p)'
    BY <1>1, <2>1 DEF SessionInv, ToldInv, ProcTold
  <2> QED  BY <1>1, <2>1, <2>2, <2>3 DEF SessionInv, ToldInv
<1>10. OnceInv'
  <2>1. repeated' \subseteq excused'
    BY <1>1 DEF SessionInv, OnceInv
  <2> SUFFICES ASSUME NEW t \in Sessions, t \notin excused'  PROVE SessionOnce(t)'
    BY <2>1 DEF OnceInv
  <2>2. SessionOnce(t) /\ ~Covering(t)
    BY <1>1 DEF SessionInv, OnceInv
  <2>3. Settled(t) => Settled(t)'
    BY <1>1, <2>2 DEF Covering, Marking, Settled
  <2>4. \A i \in DOMAIN wire' : EntryOnce(wire[i])'
    BY <1>3, <1>4 DEF EntryOnce
  <2> QED  BY <1>1, <2>2, <2>3, <2>4 DEF SessionOnce, Covers, ProcOnce
<1> QED  BY <1>5, <1>6, <1>8, <1>9, <1>10 DEF SessionInv

LEMMA RestartStep ==
  ASSUME SessionInv, Restart
  PROVE  SessionInv'
<1>1. /\ mem' = [s \in Sessions |-> None] /\ born' = {} /\ wire' = <<>>
      /\ pc' = [p \in Procs |-> "idle"] /\ job' = [p \in Procs |-> NoJob]
      /\ held' = [s \in Streamable |-> None]
      /\ excused' = excused \union {s \in Sessions : Covering(s)}
      /\ stray' = {}
      /\ UNCHANGED <<now, copy, log, up, used, covered, late, ended, gone, failed, repeated>>
  BY DEF Restart
<1>2. /\ \A p \in Procs : pc'[p] = "idle" /\ job'[p] = NoJob
      /\ \A s \in Sessions : mem'[s] = None
      /\ \A s \in Streamable : held'[s] = None
      /\ DOMAIN wire' = {}
  BY <1>1
<1>3. Control'
  <2>1. MapTyped' /\ LogTyped'
    BY <1>1, <1>2 DEF SessionInv, Control, Typed, MapTyped, LogTyped
  <2>2. ProcTyped'
    BY <1>1, NoJobTyped DEF ProcTyped, PcValues
  <2>3. \A p \in Procs : Placed(p)'
    BY <1>2 DEF Placed, Closing5
  <2>4. WireOK'
    BY <1>1, <1>2 DEF WireOK, OneReply
  <2> QED  BY <2>1, <2>2, <2>3, <2>4 DEF Control, Typed
<1>4. StreamInv'
  BY <1>1, <1>2 DEF StreamInv, HeldOpen, Owned, Procs
<1>5. GoneInv'
  <2>1. gone \subseteq Sessions
    BY DEF SessionInv, GoneInv, Control, Typed, MapTyped
  <2> QED  BY <1>1, <1>2, <2>1 DEF SessionInv, GoneInv, Closes, Closing5, Clear, Behind
<1>6. ToldInv'
  <2>1. ended \subseteq Sessions
    BY DEF SessionInv, ToldInv, Control, Typed, MapTyped
  <2> QED  BY <1>1, <1>2, <2>1 DEF SessionInv, ToldInv, ProcTold, Told
<1>7. OnceInv'
  <2>1. repeated' \subseteq excused'
    BY <1>1 DEF SessionInv, OnceInv
  <2> SUFFICES ASSUME NEW t \in Sessions, t \notin excused'  PROVE SessionOnce(t)'
    BY <2>1 DEF OnceInv
  <2>2. SessionOnce(t) /\ ~Covering(t)
    BY <1>1 DEF SessionInv, OnceInv
  <2>3. Settled(t) => Settled(t)'
    BY <1>1, <2>2 DEF Covering, Marking, Settled
  <2>4. \A p \in Procs : ProcOnce(p)' /\ ~Covers(p, t)'
    BY <1>2 DEF ProcOnce, Covers
  <2> QED  BY <1>1, <1>2, <2>2, <2>3, <2>4 DEF SessionOnce
<1> QED  BY <1>3, <1>4, <1>5, <1>6, <1>7 DEF SessionInv

-----------------------------------------------------------------------------
(* The theorems.                                                            *)

LEMMA SessionInit == ASSUME Init  PROVE SessionInv
<1>1. /\ now = 0 /\ mem = [s \in Sessions |-> None] /\ born = {}
      /\ copy = [s \in Streamable |-> None] /\ log = [s \in Sessions |-> NoLog] /\ up = TRUE
      /\ wire = <<>> /\ pc = [p \in Procs |-> "idle"] /\ job = [p \in Procs |-> NoJob]
      /\ held = [s \in Streamable |-> None] /\ used = {}
      /\ covered = {} /\ late = {} /\ ended = {} /\ gone = {} /\ failed = {}
      /\ repeated = {} /\ excused = {} /\ stray = {}
  BY DEF Init
<1>2. /\ \A p \in Procs : pc[p] = "idle" /\ job[p] = NoJob
      /\ \A s \in Sessions : mem[s] = None /\ log[s] = NoLog
      /\ \A s \in Streamable : held[s] = None
      /\ DOMAIN wire = {}
  BY <1>1
<1>3. Control
  <2>1. MapTyped
    BY <1>1, <1>2, SessionAssumption DEF SessionAssumption, MapTyped
  <2>2. LogTyped
    BY <1>1, <1>2, NoLogTyped DEF LogTyped
  <2>3. ProcTyped
    BY <1>1, NoJobTyped DEF ProcTyped, PcValues
  <2>4. \A p \in Procs : Placed(p)
    BY <1>2 DEF Placed, Closing5
  <2>5. WireOK
    BY <1>1, <1>2 DEF WireOK, OneReply
  <2> QED  BY <2>1, <2>2, <2>3, <2>4, <2>5 DEF Control, Typed
<1>4. StreamInv
  BY <1>1, <1>2 DEF StreamInv, HeldOpen, Owned, Procs
<1>5. GoneInv
  BY <1>1, <1>2 DEF GoneInv, Closes, Closing5, Clear, Behind
<1>6. ToldInv
  BY <1>1, <1>2, NoLogTyped DEF ToldInv, ProcTold, Told
<1>7. OnceInv
  <2>1. \A p \in Procs, t \in Sessions : ProcOnce(p) /\ ~Covers(p, t)
    BY <1>2 DEF ProcOnce, Covers
  <2> QED  BY <1>1, <1>2, <2>1, NoLogTyped DEF OnceInv, SessionOnce
<1> QED  BY <1>3, <1>4, <1>5, <1>6, <1>7 DEF SessionInv

LEMMA ReplyStep == ASSUME SessionInv, Reply  PROVE SessionInv'
<1>1. wire # <<>> /\ Head(wire).op \in Ops
  <2>1. wire # <<>>
    BY DEF Reply
  <2> QED  BY <2>1, HeadSound DEF SessionInv, Entries
<1>2. CASE Head(wire).op = "deleted"
  <2>1. /\ Returned(Head(wire).by, job[Head(wire).by]) /\ wire' = Tail(wire)
        /\ UNCHANGED <<now, mem, born, copy, log, up, held, used, history>>
    BY <1>2 DEF Reply
  <2> QED  BY <1>1, <1>2, <2>1, DeletedStep
<1>3. CASE Head(wire).op = "lost"
  <2>1. /\ wire' = Tail(wire)
        /\ UNCHANGED <<now, mem, born, copy, log, up, pc, job, held, used, history>>
    BY <1>3 DEF Reply
  <2> QED  BY <1>1, <1>3, <2>1, LostStep
<1> QED  BY <1>1, <1>2, <1>3, LookedUpStep, SavedStep, ActivityStep, WriteStep, MarkedStep DEF Ops

LEMMA RequestStep ==
  ASSUME SessionInv, NEW p \in Requests,
         Request(p) \/ CallDone(p) \/ ReflectDone(p) \/ ToolFails(p) \/ ClientLeaves(p)
  PROVE  SessionInv'
<1>1. CASE Request(p)
  BY <1>1, CreateStep, ConnectStep, AskStep, MessageStep DEF Request
<1> QED  BY <1>1, CallDoneStep, ReflectDoneStep, ToolFailsStep, ClientLeavesStep

LEMMA SessionNext == ASSUME SessionInv, [Next]_vars  PROVE SessionInv'
<1>1. ASSUME NEW p \in Procs,
             Summarise(p) \/ SummariseAgain(p) \/ SummaryFails(p) \/ CloseUnread(p)
      PROVE  SessionInv'
  BY <1>1, SummarisedStep, SummaryFailsStep, CloseUnreadStep DEF Summarise, SummariseAgain
<1>2. ASSUME NEW w \in Sweeps, SweepStart(w) \/ Sweep(w)  PROVE SessionInv'
  BY <1>2, SweepStartStep, SweepCloseStep, SweepEndStep DEF Sweep
<1>3. CASE Signal \/ ShutdownStep
  BY <1>3, SignalStep, ShutdownCloseStep, DrainStep DEF ShutdownStep
<1>4. CASE Tick \/ (\E s \in Streamable : CopyExpires(s)) \/ Outage \/ Recover \/ Restart
  BY <1>4, TickStep, CopyExpiresStep, OutageStep, RestartStep
<1>5. CASE UNCHANGED vars
  <2>1. UNCHANGED <<mem, born, copy, log, wire, pc, job, held, used, history, now, up>>
    BY <1>5 DEF vars, history
  <2>2. now' \in 0 .. MaxTime /\ up' \in BOOLEAN /\ (up => up')
    BY <2>1 DEF SessionInv, Control, Typed, MapTyped
  <2> QED  BY <2>1, <2>2, StillKeeps
<1> QED  BY <1>1, <1>2, <1>3, <1>4, <1>5, RequestStep, ReplyStep DEF Next

\* Every reply on the wire belongs to the closure that waits for it, and the histories of
\* closes, streams and summaries agree with the Map, the copies, the records and the closures.
THEOREM SessionInvAlways == Spec => []SessionInv
BY SessionInit, SessionNext, PTL DEF Spec

\* The Map, the copies, the records and the requests that wait on them keep their types, and
\* an open stream that nobody took from its session is the one that its session holds: however
\* requests, closers, sweeps, restarts and outages interleave, close() finds it.
THEOREM StreamsAreSound == Spec => []StreamsSound
<1>1. ASSUME SessionInv  PROVE StreamsSound
  <2>1. TypeOK
    <3>1. \A i \in DOMAIN wire : wire[i].s \in Sessions /\ wire[i].log \in Logs
      <4>1. \A i \in DOMAIN wire : wire[i] \in Entries
        BY <1>1 DEF SessionInv, Control, WireOK
      <4> QED  BY <4>1 DEF Entries
    <3> QED  BY <1>1, <3>1 DEF SessionInv, Control, Typed, MapTyped, LogTyped, ProcTyped,
                               StreamInv, TypeOK
  <2>2. StreamHeld
    BY <1>1 DEF SessionInv, StreamInv, Attached, StreamHeld
  <2> QED  BY <2>1, <2>2 DEF StreamsSound
<1> QED  BY <1>1, SessionInvAlways, PTL

\* A session whose copy was deleted every time it was closed is never restored: a reply that
\* could bring it back was on the wire before its closer's, which is read first.
THEOREM ClosedStaysClosedAlways == Spec => []ClosedStaysClosed
<1>1. ASSUME SessionInv  PROVE ClosedStaysClosed
  BY <1>1 DEF SessionInv, GoneInv, ClosedStaysClosed
<1> QED  BY <1>1, SessionInvAlways, PTL

\* A closed session's recorded calls are all in a summary but for those that came into the
\* record while one was under way or after it, and a call is summarised twice only in a session
\* whose summaries overlapped, failed half-way or could not be marked.
THEOREM CallsAreSummarised == Spec => []CallsSummarised
<1>1. ASSUME SessionInv  PROVE CallsSummarised
  BY <1>1 DEF SessionInv, ToldInv, OnceInv, Told, CallsSummarised, CallsAccounted, SummarisedOnce
<1> QED  BY <1>1, SessionInvAlways, PTL
=============================================================================
