---------------------------- MODULE SessionLifecycle ----------------------------
(***************************************************************************)
(* Sessions of clients, from lib/sessions.js, the handlers of              *)
(* lib/http/server.js that use them, lib/memory/AutoReflect.js,            *)
(* lib/memory/SessionActivityTracker.js, the session record of lib/redis.js*)
(* and lib/http/graceful-shutdown.js.                                      *)
(*                                                                         *)
(* A session lives in a Map of the process and, when it is streamable, as  *)
(* a copy in Redis that outlives the process. Tool calls are counted in an *)
(* activity record in Redis. When a session is closed (by its client, by   *)
(* the sweep of expired ones, by a request that finds it expired, by the   *)
(* shutdown) the record is turned into a summary first, which takes up to  *)
(* half a minute, and the record is marked as reflected.                   *)
(*                                                                         *)
(* The process has one connection to Redis: commands run in the order they *)
(* are issued and the replies come back in that order. A command therefore *)
(* takes effect when it is issued, and its reply waits in the queue wire.  *)
(***************************************************************************)
EXTENDS Naturals, Sequences, FiniteSets

CONSTANTS
    Streamable,   \* session ids handed out by POST /mcp
    Legacy,       \* session ids handed out by GET /sse
    Requests,     \* connections a client sends its requests on
    Sweeps,       \* runs of cleanupExpiredSessions that may overlap
    Shutdown,     \* the graceful shutdown
    Calls,        \* numbers of the tool calls made in a session
    None,
    TTL,          \* lifetime of a session since it was last used
    MaxTime,      \* bound on the clock
    MaxRequests,  \* bound on the requests of clients
    MaxFaults,    \* bound on failures of Redis, the model and the database, and restarts
    Outages       \* whether Redis is among them

Sessions == Streamable \union Legacy
Procs == Requests \union Sweeps \union {Shutdown}
Kinds == {"call", "reflect", "sse", "delete"}
\* A call is recorded under the session it came in.
CallsOf(s) == {s} \X Calls
AllCalls == Sessions \X Calls

ASSUME SessionAssumption ==
    /\ TTL \in Nat /\ MaxTime \in Nat /\ MaxRequests \in Nat
    /\ MaxFaults \in Nat /\ Outages \in BOOLEAN
    /\ Streamable \intersect Legacy = {}
    /\ Requests \intersect Sweeps = {}
    /\ Shutdown \notin Requests \union Sweeps
    /\ None \notin Nat \union Sessions \union Procs \union AllCalls

VARIABLES
    now,      \* the clock
    mem,      \* expiry of the session the Map holds under an id, or None
    born,     \* ids whose session in the Map was made by this process, not restored
    copy,     \* expiry in the copy that Redis holds of a streamable session, or None
    log,      \* the activity record of a session
    up,       \* the Redis client is ready
    wire,     \* replies of Redis the process has not handled yet
    pc, job,  \* what each process does next, and what its closure holds
    held,     \* the stream the session's setSseResponse has last been given, or None
    used,     \* ids given out
    left,     \* what remains of the bounds
    covered,  \* history: calls that some summary took in
    late,     \* history: calls that came into a record once its summary was under way or done
    ended,    \* history: sessions closed after their activity was read
    gone,     \* history: sessions whose copy was deleted every time they were closed
    failed,   \* history: sessions of which a deletion of the copy failed
    repeated, \* history: sessions of which a call was summarised twice
    excused,  \* history: sessions for which the code does not exclude that
    stray     \* history: open streams that the session does not know (any more)

vars == <<now, mem, born, copy, log, up, wire, pc, job, held, used, left, covered,
          late, ended, gone, failed, repeated, excused, stray>>
history == <<covered, late, ended, gone, failed, repeated, excused, stray>>

NoLog == [calls |-> {}, reflected |-> FALSE]
NoJob == [kind |-> None, s |-> None, call |-> None, own |-> FALSE, snap |-> {},
          ok |-> TRUE, todo |-> {}, at |-> 0]
Entry(op, p, s, c, l, e) == [op |-> op, by |-> p, s |-> s, call |-> c, log |-> l, exp |-> e]
Await(op, p, s) == Entry(op, p, s, None, NoLog, None)

Init ==
    /\ now = 0
    /\ mem = [s \in Sessions |-> None]
    /\ born = {}
    /\ copy = [s \in Streamable |-> None]
    /\ log = [s \in Sessions |-> NoLog]
    /\ up = TRUE
    /\ wire = <<>>
    /\ pc = [p \in Procs |-> "idle"]
    /\ job = [p \in Procs |-> NoJob]
    /\ held = [s \in Streamable |-> None]
    /\ used = {}
    /\ left = [requests |-> MaxRequests, faults |-> MaxFaults]
    /\ covered = {} /\ late = {} /\ ended = {} /\ gone = {} /\ failed = {}
    /\ repeated = {} /\ excused = {} /\ stray = {}

-----------------------------------------------------------------------------
Serving == pc[Shutdown] = "idle"

Goto(p, l, j) ==
    /\ pc' = [pc EXCEPT ![p] = l]
    /\ job' = [job EXCEPT ![p] = IF l \in {"idle", "sweep", "closing"}
                                 THEN [NoJob EXCEPT !.todo = j.todo, !.at = j.at] ELSE j]

\* Where a process goes on once the session it closes is closed.
Resume(p) == IF p \in Requests THEN "idle" ELSE IF p \in Sweeps THEN "sweep" ELSE "closing"

Returned(p, j) == Goto(p, Resume(p), IF p \in Requests THEN NoJob ELSE j)

\* A summary of the session is being made: its activity has been read and the record
\* not been marked yet.
Covering(s) ==
    \/ \E p \in Procs : /\ job[p].s = s
                        /\ \/ pc[p] \in {"activity", "summary", "mark"}
                           \/ pc[p] = "tool" /\ job[p].kind = "reflect"
    \/ \E i \in DOMAIN wire : wire[i].op = "mark" /\ wire[i].s = s

\* The session is being closed and its activity has been read, or it is closed.
Closing(s) == mem[s] = None \/ \E p \in Procs : job[p].s = s /\ pc[p] \in {"marked", "close"}

\* closeStreamableSession and closeLegacySseSession up to their first await: autoReflect
\* reads the activity. Without Redis it reads nothing and the session is closed at once.
BeginClose(p, j, replies) ==
    LET own == [j EXCEPT !.own = j.s \in born, !.kind = "close", !.call = None] IN
    IF up
    THEN /\ wire' = Append(replies, Entry("activity", p, j.s, None, log[j.s], None))
         /\ excused' = IF Covering(j.s) THEN excused \union {j.s} ELSE excused
         /\ Goto(p, "activity", own)
    ELSE /\ wire' = replies
         /\ Goto(p, "close", [own EXCEPT !.ok = FALSE])
         /\ UNCHANGED excused

\* Mutant: only the streams of legacy sessions are ended.
EndedStreamsLegacy(j) ==
    IF j.s \in Streamable THEN {} ELSE {q \in Requests : pc[q] = "stream" /\ job[q].s = j.s}

\* The stream that closing a session ends: the one setSseResponse was given last, or the
\* request that opened a legacy session. A restored session knows none.
EndedStreams(j) ==
    IF j.s \in Streamable
    THEN IF j.own THEN {held[j.s]} \ {None} ELSE {}
    ELSE {q \in Requests : pc[q] = "stream" /\ job[q].s = j.s}

\* session.close(): the stream ended (its handler's close event detaches it), the Map
\* entry and the copy deleted.
EndSession(p, j, replies) ==
    LET s == j.s
        stream == EndedStreams(j) IN
    /\ mem' = [mem EXCEPT ![s] = None]
    /\ born' = born \ {s}
    /\ copy' = IF s \in Streamable /\ up THEN [copy EXCEPT ![s] = None] ELSE copy
    /\ held' = IF s \in Streamable /\ j.own THEN [held EXCEPT ![s] = None] ELSE held
    /\ wire' = IF s \in Streamable THEN Append(replies, Await("deleted", p, s)) ELSE replies
    /\ pc' = [q \in Procs |-> IF q = p THEN IF s \in Streamable THEN "delete" ELSE Resume(p)
                              ELSE IF q \in stream THEN "idle" ELSE pc[q]]
    /\ job' = [q \in Procs |-> IF q = p THEN IF s \in Streamable THEN j
                                             ELSE IF p \in Requests THEN NoJob
                                             ELSE [NoJob EXCEPT !.todo = j.todo, !.at = j.at]
                               ELSE IF q \in stream THEN NoJob ELSE job[q]]
    /\ stray' = stray \ stream
    /\ ended' = IF j.ok THEN ended \union {s} ELSE ended
    /\ failed' = IF s \in Streamable /\ ~up THEN failed \union {s} ELSE failed
    /\ gone' = IF s \in failed \/ (s \in Streamable /\ ~up) THEN gone \ {s} ELSE gone \union {s}
    /\ UNCHANGED <<log, covered, late, repeated, excused>>

\* The rest of validateStreamableSession once there is a session: close it when it has
\* expired, else extend it in the Map and in Redis.
Found(p, j, exp, replies) ==
    LET s == j.s IN
    IF now > exp
    THEN /\ mem' = [mem EXCEPT ![s] = exp]
         /\ BeginClose(p, j, replies)
         /\ UNCHANGED copy
    ELSE /\ mem' = [mem EXCEPT ![s] = now + TTL]
         /\ copy' = IF up THEN [copy EXCEPT ![s] = now + TTL] ELSE copy
         /\ wire' = Append(replies, Await("saved", p, s))
         /\ Goto(p, "save", j)
         /\ UNCHANGED excused

-----------------------------------------------------------------------------
(* Requests. After the shutdown has begun the server takes no new ones.     *)

Arrive(p) ==
    /\ Serving
    /\ pc[p] = "idle"
    /\ left.requests > 0
    /\ left' = [left EXCEPT !.requests = @ - 1]

\* POST /mcp with an initialize request.
Create(p, s) ==
    /\ Arrive(p)
    /\ s \in Streamable \ used
    /\ used' = used \union {s}
    /\ mem' = [mem EXCEPT ![s] = now + TTL]
    /\ born' = born \union {s}
    /\ copy' = IF up THEN [copy EXCEPT ![s] = now + TTL] ELSE copy
    /\ wire' = Append(wire, Await("saved", p, s))
    /\ Goto(p, "save", [NoJob EXCEPT !.kind = "initialize", !.s = s])
    /\ UNCHANGED <<now, log, up, held, history>>

\* GET /sse.
Connect(p, s) ==
    /\ Arrive(p)
    /\ s \in Legacy \ used
    /\ used' = used \union {s}
    /\ mem' = [mem EXCEPT ![s] = now + TTL]
    /\ born' = born \union {s}
    /\ Goto(p, "stream", [NoJob EXCEPT !.kind = "sse", !.s = s])
    /\ UNCHANGED <<now, copy, log, up, wire, held, history>>

\* The calls of a session that its record, a process or a reply knows.
Known(s) ==
    log[s].calls
      \union UNION {job[p].snap \union {job[p].call} : p \in {p \in Procs : job[p].s = s}}
      \union UNION {wire[i].log.calls \union {wire[i].call} : i \in {i \in DOMAIN wire : wire[i].s = s}}

\* A call that no request made so far. Only tool calls need one.
Fresh(k, s, c) ==
    IF k \in {"call", "reflect"}
    THEN c \in CallsOf(s) \ (covered \union late \union Known(s))
    ELSE c = None

\* POST, GET and DELETE /mcp with a session id.
Ask(p, k, s, c) ==
    /\ Arrive(p)
    /\ s \in used \intersect Streamable
    /\ Fresh(k, s, c)
    /\ LET j == [NoJob EXCEPT !.kind = k, !.s = s, !.call = c, !.own = s \in born] IN
       IF mem[s] = None
       THEN /\ wire' = Append(wire, Entry("lookup", p, s, None, NoLog,
                                          IF up THEN copy[s] ELSE None))
            /\ Goto(p, "lookup", j)
            /\ UNCHANGED <<mem, copy, excused>>
       ELSE Found(p, j, mem[s], wire)
    /\ UNCHANGED <<now, born, log, up, held, used, covered, late, ended, gone, failed,
                   repeated, stray>>

\* The process starts the work of a tool call. The client's own reflect summarises what it
\* did so far.
StartTool(p, j) ==
    /\ Goto(p, "tool", [j EXCEPT !.snap = log[j.s].calls])
    /\ excused' = IF j.kind = "reflect" /\ Covering(j.s) THEN excused \union {j.s} ELSE excused

\* POST /message. A legacy session is not extended by its use.
Message(p, k, s, c) ==
    /\ Arrive(p)
    /\ s \in used \intersect Legacy
    /\ k \in {"call", "reflect"}
    /\ Fresh(k, s, c)
    /\ mem[s] # None
    /\ LET j == [NoJob EXCEPT !.kind = k, !.s = s, !.call = c] IN
       IF now > mem[s]
       THEN BeginClose(p, j, wire)
       ELSE StartTool(p, j) /\ UNCHANGED wire
    /\ UNCHANGED <<now, mem, born, copy, log, up, held, used, covered, late, ended, gone,
                   failed, repeated, stray>>

\* The tool has done its work and answers; its record of the activity is not awaited.
Record(p) == Entry("record", None, job[p].s, job[p].call, log[job[p].s], None)

\* Mutant: the session is saved once more at the end of a call.
CallDoneTouch(p) ==
    /\ pc[p] = "tool"
    /\ job[p].kind = "call"
    /\ wire' = IF up THEN Append(wire, Record(p)) ELSE wire
    /\ copy' = [s \in Streamable |-> IF s = job[p].s THEN now + TTL ELSE copy[s]]
    /\ Goto(p, "idle", NoJob)
    /\ UNCHANGED <<now, mem, born, log, up, held, used, left, history>>

CallDone(p) ==
    /\ pc[p] = "tool"
    /\ job[p].kind = "call"
    /\ wire' = IF up THEN Append(wire, Record(p)) ELSE wire
    /\ Goto(p, "idle", NoJob)
    /\ UNCHANGED <<now, mem, born, copy, log, up, held, used, left, history>>

\* A reflect records itself and the mark; neither waits for the other.
ReflectDone(p) ==
    LET s == job[p].s IN
    /\ pc[p] = "tool"
    /\ job[p].kind = "reflect"
    /\ wire' = IF up THEN wire \o <<Record(p), Entry("mark", None, s, None, log[s], None)>> ELSE wire
    /\ covered' = covered \union job[p].snap \union {job[p].call}
    /\ excused' = IF up THEN excused ELSE excused \union {s}
    /\ Goto(p, "idle", NoJob)
    /\ UNCHANGED <<now, mem, born, copy, log, up, held, used, left, late, ended, gone,
                   failed, repeated, stray>>

\* A tool that failed answers with the error and records nothing.
ToolFails(p) ==
    /\ pc[p] = "tool"
    /\ Goto(p, "idle", NoJob)
    /\ UNCHANGED <<now, mem, born, copy, log, up, wire, held, used, left, history>>

\* The client of a stream goes away. The handler's close event detaches whatever stream
\* the session holds, or closes the legacy session.
ClientLeaves(p) ==
    LET s == job[p].s IN
    /\ pc[p] = "stream"
    /\ IF s \in Streamable
       THEN /\ Goto(p, "idle", NoJob)
            /\ held' = IF job[p].own THEN [held EXCEPT ![s] = None] ELSE held
            /\ stray' = (stray \union (IF job[p].own THEN {held[s]} \ {None} ELSE {})) \ {p}
            /\ UNCHANGED <<wire, excused>>
       ELSE /\ IF mem[s] = None
               THEN Goto(p, "idle", NoJob) /\ UNCHANGED <<wire, excused>>
               ELSE BeginClose(p, job[p], wire)
            /\ stray' = stray \ {p}
            /\ UNCHANGED held
    /\ UNCHANGED <<now, mem, born, copy, log, up, used, left, covered, late, ended, gone,
                   failed, repeated>>

-----------------------------------------------------------------------------
(* Replies of Redis, in order, each with the continuation that waits for it. *)

\* Mutant: a session of a single call counts as empty.
ActivityReadShort(p, l, replies) ==
    LET j == [job[p] EXCEPT !.snap = l.calls] IN
    IF l.reflected
    THEN EndSession(p, j, replies)
    ELSE /\ IF Cardinality(l.calls) <= 1
            THEN /\ wire' = Append(replies, Entry("mark", p, j.s, None, log[j.s], None))
                 /\ Goto(p, "mark", [j EXCEPT !.snap = {}])
            ELSE wire' = replies /\ Goto(p, "summary", j)
         /\ UNCHANGED <<mem, born, copy, log, held, history>>

\* autoReflect with the activity: nothing to do when it is marked, only the mark when no
\* tool was called, else a summary.
ActivityRead(p, l, replies) ==
    LET j == [job[p] EXCEPT !.snap = l.calls] IN
    IF l.reflected
    THEN EndSession(p, j, replies)
    ELSE /\ IF l.calls = {}
            THEN /\ wire' = Append(replies, Entry("mark", p, j.s, None, log[j.s], None))
                 /\ Goto(p, "mark", [j EXCEPT !.snap = {}])
            ELSE wire' = replies /\ Goto(p, "summary", j)
         /\ UNCHANGED <<mem, born, copy, log, held, history>>

\* The second half of SessionActivityTracker.record: the record as it was read, with this
\* call or the mark, replaces whatever it is now: calls recorded in between are lost, and
\* calls lost before may come back.
Recorded(e) ==
    IF e.op = "record" THEN [e.log EXCEPT !.calls = @ \union {e.call}]
                       ELSE [e.log EXCEPT !.reflected = TRUE]

RecordWrite(e, replies) ==
    /\ log' = [log EXCEPT ![e.s] = Recorded(e)]
    /\ late' = IF /\ e.op = "record"
                  /\ e.log.reflected \/ log[e.s].reflected \/ Covering(e.s) \/ Closing(e.s)
               THEN late \union {e.call} \union (e.log.calls \ log[e.s].calls) ELSE late
    /\ excused' = IF log[e.s].reflected /\ ~Recorded(e).reflected
                  THEN excused \union {e.s} ELSE excused
    /\ IF e.by = None
       THEN wire' = replies /\ UNCHANGED <<pc, job>>
       ELSE wire' = Append(replies, Await("marked", e.by, e.s)) /\ Goto(e.by, "marked", job[e.by])
    /\ UNCHANGED <<mem, born, copy, held, covered, ended, gone, failed, repeated, stray>>

\* A handler whose session is valid and extended goes on: a tool, a stream, a close.
Validated(p, replies) ==
    LET j == job[p]
        s == j.s IN
    CASE j.kind = "initialize" ->
           /\ Goto(p, "idle", NoJob)
           /\ wire' = replies
           /\ UNCHANGED <<mem, born, copy, held, excused, stray, ended, gone, failed>>
      [] j.kind \in {"call", "reflect"} ->
           /\ StartTool(p, j)
           /\ wire' = replies
           /\ UNCHANGED <<mem, born, copy, held, stray, ended, gone, failed>>
      [] j.kind = "sse" ->
           /\ Goto(p, "stream", j)
           /\ wire' = replies
           /\ held' = IF j.own THEN [held EXCEPT ![s] = p] ELSE held
           /\ stray' = stray \union (IF j.own /\ s \in born THEN {held[s]} \ {None}
                                     ELSE IF j.own THEN ({held[s]} \ {None}) \union {p} ELSE {p})
           /\ UNCHANGED <<mem, born, copy, excused, ended, gone, failed>>
      [] j.kind = "delete" ->
           /\ IF mem[s] = None
              THEN Goto(p, "idle", NoJob) /\ wire' = replies /\ UNCHANGED excused
              ELSE BeginClose(p, j, replies)
           /\ UNCHANGED <<mem, born, copy, held, stray, ended, gone, failed>>

Reply ==
    LET e == Head(wire)
        replies == Tail(wire) IN
    /\ wire # <<>>
    /\ CASE e.op = "lookup" ->
              /\ IF e.exp = None
                 THEN Goto(e.by, "idle", NoJob) /\ wire' = replies /\ UNCHANGED <<mem, copy, excused>>
                 ELSE Found(e.by, job[e.by], e.exp, replies)
              /\ born' = IF e.exp = None THEN born ELSE born \ {e.s}
              /\ ended' = IF e.exp = None THEN ended ELSE ended \ {e.s}
              /\ UNCHANGED <<log, held, covered, late, gone, failed, repeated, stray>>
         [] e.op = "saved" ->
              Validated(e.by, replies) /\ UNCHANGED <<log, covered, late, repeated>>
         [] e.op = "activity" -> ActivityRead(e.by, e.log, replies)
         [] e.op \in {"record", "mark"} -> RecordWrite(e, replies)
         [] e.op = "marked" -> EndSession(e.by, job[e.by], replies)
         [] e.op = "unread" -> EndSession(e.by, [job[e.by] EXCEPT !.ok = FALSE], replies)
         [] e.op = "deleted" ->
              /\ Returned(e.by, job[e.by])
              /\ wire' = replies
              /\ UNCHANGED <<mem, born, copy, log, held, history>>
         [] e.op = "lost" ->
              wire' = replies /\ UNCHANGED <<mem, born, copy, log, pc, job, held, history>>
    /\ UNCHANGED <<now, up, used, left>>

-----------------------------------------------------------------------------
(* The summary: a structured one by the model, or one line without it, and  *)
(* mgr.reflect that stores it.                                              *)

Summarised(p, again) ==
    LET j == job[p] IN
    /\ pc[p] = "summary"
    /\ covered' = covered \union j.snap
    /\ repeated' = IF again \/ j.snap \intersect covered # {} THEN repeated \union {j.s} ELSE repeated
    /\ excused' = IF again \/ ~up THEN excused \union {j.s} ELSE excused
    /\ IF up
       THEN /\ wire' = Append(wire, Entry("mark", p, j.s, None, log[j.s], None))
            /\ Goto(p, "mark", [j EXCEPT !.snap = {}])
       ELSE wire' = wire /\ Goto(p, "close", [j EXCEPT !.snap = {}])
    /\ UNCHANGED <<now, mem, born, copy, log, up, held, used, late, ended, gone, failed, stray>>

Summarise(p) == Summarised(p, FALSE) /\ UNCHANGED left

Fault ==
    /\ left.faults > 0
    /\ left' = [left EXCEPT !.faults = @ - 1]

\* mgr.reflect throws with part of the structured summary stored; the one-line summary is
\* stored as well.
SummariseAgain(p) == Fault /\ Summarised(p, TRUE)

\* Neither summary can be stored. The session is closed all the same.
SummaryFails(p) ==
    /\ Fault
    /\ pc[p] = "summary"
    /\ Goto(p, "close", [job[p] EXCEPT !.ok = FALSE, !.snap = {}])
    /\ UNCHANGED <<now, mem, born, copy, log, up, wire, held, used, history>>

CloseUnread(p) ==
    /\ pc[p] = "close"
    /\ EndSession(p, job[p], wire)
    /\ UNCHANGED <<now, up, used, left>>

-----------------------------------------------------------------------------
(* cleanupExpiredSessions: every five minutes, one session after the other. *)

SweepStart(w) ==
    /\ pc[w] = "idle"
    /\ pc[Shutdown] \in {"idle", "closing"}
    /\ Goto(w, "sweep", [NoJob EXCEPT !.at = now, !.todo = Sessions])
    /\ UNCHANGED <<now, mem, born, copy, log, up, wire, held, used, left, history>>

SweepClose(w, s) ==
    /\ pc[w] = "sweep"
    /\ s \in job[w].todo
    /\ mem[s] # None
    /\ job[w].at > mem[s]
    /\ BeginClose(w, [job[w] EXCEPT !.s = s, !.todo = @ \ {s}], wire)
    /\ UNCHANGED <<now, mem, born, copy, log, up, held, used, left, covered, late, ended,
                   gone, failed, repeated, stray>>

\* Mutant: a sweep gives up before its end.
SweepEndEarly(w) ==
    /\ pc[w] = "sweep"
    /\ Goto(w, "idle", NoJob)
    /\ UNCHANGED <<now, mem, born, copy, log, up, wire, held, used, left, history>>

SweepEnd(w) ==
    /\ pc[w] = "sweep"
    /\ \A s \in job[w].todo : mem[s] # None => job[w].at <= mem[s]
    /\ Goto(w, "idle", NoJob)
    /\ UNCHANGED <<now, mem, born, copy, log, up, wire, held, used, left, history>>

(* gracefulShutdown: stop taking requests, close the sessions there are, wait *)
(* for the connections.                                                      *)

\* Mutant: the shutdown forgets the legacy sessions.
SignalStreamable ==
    /\ pc[Shutdown] = "idle"
    /\ Goto(Shutdown, "closing", [NoJob EXCEPT !.todo = {s \in Streamable : mem[s] # None}])
    /\ UNCHANGED <<now, mem, born, copy, log, up, wire, held, used, left, history>>

Signal ==
    /\ pc[Shutdown] = "idle"
    /\ Goto(Shutdown, "closing", [NoJob EXCEPT !.todo = {s \in Sessions : mem[s] # None}])
    /\ UNCHANGED <<now, mem, born, copy, log, up, wire, held, used, left, history>>

ShutdownClose(s) ==
    LET j == [job[Shutdown] EXCEPT !.s = s, !.todo = @ \ {s}] IN
    /\ pc[Shutdown] = "closing"
    /\ s \in job[Shutdown].todo
    /\ IF mem[s] = None
       THEN Goto(Shutdown, "closing", j) /\ UNCHANGED <<wire, excused>>
       ELSE BeginClose(Shutdown, j, wire)
    /\ UNCHANGED <<now, mem, born, copy, log, up, held, used, left, covered, late, ended,
                   gone, failed, repeated, stray>>

Drain ==
    /\ pc[Shutdown] = "closing"
    /\ job[Shutdown].todo = {}
    /\ Goto(Shutdown, "drain", NoJob)
    /\ UNCHANGED <<now, mem, born, copy, log, up, wire, held, used, left, history>>

\* The connection of a request is open until it is answered. A legacy session is closed
\* after the answer.
Connected(p) == pc[p] # "idle" /\ ~(job[p].s \in Legacy /\ pc[p] \notin {"tool", "stream"})

Exit ==
    /\ pc[Shutdown] = "drain"
    /\ \A p \in Requests : ~Connected(p)
    /\ Goto(Shutdown, "exited", NoJob)
    /\ UNCHANGED <<now, mem, born, copy, log, up, wire, held, used, left, history>>

-----------------------------------------------------------------------------
(* The environment.                                                         *)

Tick ==
    /\ now < MaxTime
    /\ now' = now + 1
    /\ UNCHANGED <<mem, born, copy, log, up, wire, pc, job, held, used, left, history>>

\* Redis drops the copy CACHE_SESSION_TTL after it was written.
CopyExpires(s) ==
    /\ copy[s] # None
    /\ now >= copy[s]
    /\ copy' = [copy EXCEPT ![s] = None]
    /\ UNCHANGED <<now, mem, born, log, up, wire, pc, job, held, used, left, history>>

\* Redis is away for longer than the three retries of a command: the replies are errors,
\* which every user of Redis turns into "nothing there".
Broken(e) ==
    IF e.by = None
    THEN Entry("lost", None, e.s, None, NoLog, None)
    ELSE CASE e.op = "lookup" -> Await("lookup", e.by, e.s)
           [] e.op = "activity" -> Await("unread", e.by, e.s)
           [] e.op = "mark" -> Await("marked", e.by, e.s)
           [] OTHER -> e

Outage ==
    /\ Outages /\ up
    /\ Fault
    /\ up' = FALSE
    /\ wire' = [i \in DOMAIN wire |-> Broken(wire[i])]
    /\ excused' = excused \union {s \in Sessions : Covering(s)}
    /\ UNCHANGED <<now, mem, born, copy, log, pc, job, held, used, covered, late, ended,
                   gone, failed, repeated, stray>>

Recover ==
    /\ ~up
    /\ up' = TRUE
    /\ UNCHANGED <<now, mem, born, copy, log, wire, pc, job, held, used, left, history>>

\* The process dies and a new one starts. Redis keeps what it has.
Restart ==
    /\ Fault
    /\ mem' = [s \in Sessions |-> None]
    /\ born' = {}
    /\ wire' = <<>>
    /\ pc' = [p \in Procs |-> "idle"]
    /\ job' = [p \in Procs |-> NoJob]
    /\ held' = [s \in Streamable |-> None]
    /\ excused' = excused \union {s \in Sessions : Covering(s)}
    /\ stray' = {}
    /\ UNCHANGED <<now, copy, log, up, used, covered, late, ended, gone, failed, repeated>>

-----------------------------------------------------------------------------
Request(p) ==
    \/ \E s \in Streamable : Create(p, s)
    \/ \E s \in Legacy : Connect(p, s)
    \/ \E k \in Kinds :
          \/ \E s \in Streamable, c \in AllCalls \union {None} : Ask(p, k, s, c)
          \/ \E s \in Legacy, c \in AllCalls \union {None} : Message(p, k, s, c)

Work(p) == CallDone(p) \/ ReflectDone(p) \/ Summarise(p) \/ CloseUnread(p)
Sweep(w) == (\E s \in Sessions : SweepClose(w, s)) \/ SweepEnd(w)
ShutdownStep == (\E s \in Sessions : ShutdownClose(s)) \/ Drain \/ Exit

Next ==
    \/ \E p \in Requests : Request(p) \/ CallDone(p) \/ ReflectDone(p) \/ ToolFails(p) \/ ClientLeaves(p)
    \/ Reply
    \/ \E p \in Procs : Summarise(p) \/ SummariseAgain(p) \/ SummaryFails(p) \/ CloseUnread(p)
    \/ \E w \in Sweeps : SweepStart(w) \/ Sweep(w)
    \/ Signal \/ ShutdownStep
    \/ Tick \/ (\E s \in Streamable : CopyExpires(s)) \/ Outage \/ Recover \/ Restart

Spec == Init /\ [][Next]_vars

\* The event loop runs what can run, the replies of Redis arrive, the model and the
\* database answer or time out, the timer of the sweep fires. Clients owe nothing.
FairSpec ==
    /\ Spec
    /\ WF_vars(Reply)
    /\ \A p \in Procs : WF_vars(Work(p))
    /\ \A w \in Sweeps : WF_vars(SweepStart(w)) /\ WF_vars(Sweep(w))
    /\ WF_vars(ShutdownStep)

-----------------------------------------------------------------------------
(* Properties.                                                              *)

Logs == [calls : SUBSET AllCalls, reflected : BOOLEAN]
PcValues == {"idle", "lookup", "save", "tool", "stream", "activity", "summary", "mark", "marked",
             "close", "delete", "sweep", "closing", "drain", "exited"}

\* The variables have their types; only a stream is stray, only a session in the Map is born.
TypeOK ==
    /\ now \in 0 .. MaxTime
    /\ mem \in [Sessions -> Nat \union {None}]
    /\ copy \in [Streamable -> Nat \union {None}]
    /\ born \subseteq {s \in used : mem[s] # None}
    /\ log \in [Sessions -> Logs]
    /\ up \in BOOLEAN
    /\ \A i \in DOMAIN wire : wire[i].s \in Sessions /\ wire[i].log \in Logs
    /\ pc \in [Procs -> PcValues]
    /\ held \in [Streamable -> Requests \union {None}]
    /\ used \subseteq Sessions
    /\ covered \subseteq AllCalls /\ late \subseteq AllCalls
    /\ stray \subseteq {p \in Requests : pc[p] = "stream"}

\* A closed session never comes back: once it was closed and its copy deleted, no request
\* in flight restores it from Redis or writes the copy again (validateStreamableSession
\* beside close()).
ClosedStaysClosed ==
    \A s \in gone : mem[s] = None /\ (s \in Streamable => copy[s] = None)

\* When a session is closed after its activity was read, every call of the activity record
\* is in a summary, except calls that came into the record while the summary was under way
\* or after it: late ones, or lost ones that an older copy of the record brought back
\* (autoReflect, record).
CallsAccounted ==
    \A s \in ended : log[s].calls \subseteq covered \union late

\* A call is summarised a second time only when two summaries overlapped, one was stored
\* in part, the process died under it, the mark could not be written, or a record
\* read before the mark was written after it (autoReflect's check and mark).
SummarisedOnce == repeated \subseteq excused

\* Every call of a closed session is in a summary, and in one only, but for the overlaps
\* that the two conditions name.
CallsSummarised == CallsAccounted /\ SummarisedOnce

\* close() ends the stream of the session, unless the session lost it before: to a second
\* stream, to the close event of a first one, to a restart or to the close itself.
StreamHeld ==
    \A p \in Requests : pc[p] = "stream" /\ p \notin stray =>
        /\ mem[job[p].s] # None
        /\ job[p].s \in Streamable => held[job[p].s] = p

\* The Map, the streams and the requests that wait on them fit.
StreamsSound == TypeOK /\ StreamHeld

\* README.en.md:119: session reflection turns session activity into structured memory on
\* close. Not so for what was recorded after a reflect marked the record (autoReflect).
CloseReflects == \A s \in ended : log[s].calls \subseteq covered

\* An expired session is closed in the end, however many sweeps overlap, until a shutdown.
Expired(s) == mem[s] # None /\ now > mem[s]
ExpiredGoes == \A s \in Sessions : Expired(s) ~> (~Expired(s) \/ ~Serving)

\* A shutdown ends, unless a stray stream stays open: server.close() waits for it and
\* nothing but its client ends it.
ShutdownCompletes ==
    (pc[Shutdown] = "closing") ~>
        (pc[Shutdown] \in {"exited", "idle"} \/ \E p \in stray : pc[p] = "stream")

=============================================================================
