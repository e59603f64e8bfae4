----------------------------- MODULE McpClient -----------------------------
(* The MCP client and one of its servers, a child process that answers        *)
(* requests on its standard output: calls of several turns at once, a reader  *)
(* that takes each answer to the caller with that id, and calls that replace  *)
(* a connection that failed and try once more. c.mu is held through a         *)
(* handshake and while a process is being stopped; every request takes it for *)
(* its id. A request is written under the transport's writeMu, whatever its   *)
(* context: it waits for as long as the server does not read. What the server *)
(* notifies is handed on without waiting and left out, and so are its own     *)
(* requests with their replies; the messages of a handshake fit a fresh pipe. *)
EXTENDS Integers

CONSTANTS Callers,  \* goroutines that call a tool, once each
          Free,     \* nobody holds the lock
          MaxGen,   \* bound: processes ever started
          MaxMishaps \* bound: processes that die, starts that fail

ASSUME McpAssumption == Free \notin Callers /\ MaxGen \in Nat \ {0} /\ MaxMishaps \in Nat

VARIABLES conn,    \* Client.servers: the process that is connected, or 0
          proc,    \* per process: not started, up, gone
          closed,  \* transports whose input is closed
          eof,     \* transports whose read loop has ended
          asked,   \* requests on their way to a process
          said,    \* answers on their way from it
          pending, \* StdioTransport.pending: requests that wait for an answer
          holder,  \* who holds c.mu
          call,    \* per caller: its call of the client
          tools,   \* the server's tools are in the registry
          mishaps

mcvars == <<conn, proc, closed, eof, asked, said, pending, holder, call, tools, mishaps>>

Gens == 1..MaxGen
\* a request: a caller and its attempt
Ids == Callers \X {1, 2}
McCall == [pc : {"lookup", "register", "write", "pipe", "wait", "reconnect", "closing",
                 "start", "lock", "handshake", "hook", "tools", "done"},
           try : {1, 2}, gen : 0..MaxGen, answered : BOOLEAN, late : BOOLEAN]

NewCall == [pc |-> "lookup", try |-> 1, gen |-> 0, answered |-> FALSE, late |-> FALSE]

McInit ==
  /\ conn = 1 /\ proc = [g \in Gens |-> IF g = 1 THEN "up" ELSE "none"]
  /\ closed = {} /\ eof = {} /\ holder = Free /\ tools = TRUE /\ mishaps = MaxMishaps
  /\ asked = [g \in Gens |-> {}] /\ said = [g \in Gens |-> {}] /\ pending = [g \in Gens |-> {}]
  /\ call = [c \in Callers |-> NewCall]

In(c, pc) == call[c].pc = pc
GoTo(c, pc) == call' = [call EXCEPT ![c].pc = pc]
Return(c) == call' = [call EXCEPT ![c] = [NewCall EXCEPT !.pc = "done"]]
\* the retry, within the same context
Again(c) == call' = [call EXCEPT ![c] = [NewCall EXCEPT !.try = 2, !.late = call[c].late]]
Id(c) == <<c, call[c].try>>
Gen(c) == call[c].gen
Mishap == mishaps > 0 /\ mishaps' = mishaps - 1

-----------------------------------------------------------------------------
(* A call *)

\* Mutant: a call whose context has ended reconnects too.
FailedAnyhow(c) == IF call[c].try = 1 THEN GoTo(c, "reconnect") ELSE Return(c)

\* an error other than the server's own: one reconnect, unless the context has ended
Failed(c) == IF call[c].try = 1 /\ ~call[c].late THEN GoTo(c, "reconnect") ELSE Return(c)

\* callOnce: the connection ...
Lookup(c) ==
  /\ In(c, "lookup") /\ holder = Free
  /\ IF conn = 0 THEN Failed(c)
     ELSE call' = [call EXCEPT ![c].pc = "register", ![c].gen = conn]
  /\ UNCHANGED <<conn, proc, closed, eof, asked, said, pending, holder, tools, mishaps>>

\* ... the id, then Send: the channel for the answer is there before the request is written
Register(c) ==
  /\ In(c, "register") /\ holder = Free
  /\ IF Gen(c) \in closed THEN Failed(c) /\ UNCHANGED pending
     ELSE GoTo(c, "write") /\ pending' = [pending EXCEPT ![Gen(c)] = @ \cup {Id(c)}]
  /\ UNCHANGED <<conn, proc, closed, eof, asked, said, holder, tools, mishaps>>

Unregister(c) == pending' = [pending EXCEPT ![Gen(c)] = @ \ {Id(c)}]

\* somebody holds writeMu
Busy(g) == \E d \in Callers : In(d, "pipe") /\ Gen(d) = g

TakePipe(c) ==
  /\ In(c, "write") /\ ~Busy(Gen(c)) /\ GoTo(c, "pipe")
  /\ UNCHANGED <<conn, proc, closed, eof, asked, said, pending, holder, tools, mishaps>>

\* when the server reads, if it ever does: a full pipe holds the writer and its lock
Write(c) ==
  /\ In(c, "pipe") /\ proc[Gen(c)] = "up" /\ Gen(c) \notin closed
  /\ GoTo(c, "wait") /\ asked' = [asked EXCEPT ![Gen(c)] = @ \cup {Id(c)}]
  /\ UNCHANGED <<conn, proc, closed, eof, said, pending, holder, tools, mishaps>>

\* the end of the process or of its input ends the write too
PipeBreaks(c) ==
  /\ In(c, "pipe") /\ (proc[Gen(c)] # "up" \/ Gen(c) \in closed)
  /\ Failed(c) /\ Unregister(c)
  /\ UNCHANGED <<conn, proc, closed, eof, asked, said, holder, tools, mishaps>>

\* whichever is ready of the context, the end of the read loop and the answer;
\* a result that cannot be parsed counts as a failed transport
Await(c) ==
  /\ In(c, "wait")
  /\ \/ (call[c].late \/ Gen(c) \in eof) /\ Failed(c) /\ Unregister(c)
     \/ call[c].answered /\ (Return(c) \/ Failed(c)) /\ UNCHANGED pending
  /\ UNCHANGED <<conn, proc, closed, eof, asked, said, holder, tools, mishaps>>

\* the caller's deadline, or the default of 60 seconds
Deadline(c) ==
  /\ ~call[c].late /\ ~In(c, "done")
  /\ call' = [call EXCEPT ![c].late = TRUE]
  /\ UNCHANGED <<conn, proc, closed, eof, asked, said, pending, holder, tools, mishaps>>

-----------------------------------------------------------------------------
(* Reconnect *)

\* whatever is connected now is closed, and its process is given 5 seconds ...
TearDown(c) ==
  /\ In(c, "reconnect") /\ holder = Free
  /\ IF conn = 0 THEN Return(c) /\ UNCHANGED <<closed, holder>>
     ELSE GoTo(c, "closing") /\ closed' = closed \cup {conn} /\ holder' = c
  /\ UNCHANGED <<conn, proc, eof, asked, said, pending, tools, mishaps>>

Stopped(g) == proc' = [proc EXCEPT ![g] = "gone"] /\ asked' = [asked EXCEPT ![g] = {}]

\* ... the connection and its tools are forgotten, and the lock is released
Forget(c) ==
  /\ In(c, "closing") /\ Stopped(conn) /\ conn' = 0 /\ tools' = FALSE
  /\ holder' = Free /\ GoTo(c, "start")
  /\ UNCHANGED <<closed, eof, said, pending, mishaps>>

StartProcess(c) ==
  /\ In(c, "start")
  /\ \E g \in Gens :
       /\ proc[g] = "none" /\ \A h \in 1..(g - 1) : proc[h] # "none"
       /\ proc' = [proc EXCEPT ![g] = "up"]
       /\ call' = [call EXCEPT ![c].pc = "lock", ![c].gen = g]
  /\ UNCHANGED <<conn, closed, eof, asked, said, pending, holder, tools, mishaps>>

StartFails(c) ==
  /\ In(c, "start") /\ Return(c)
  /\ Mishap \/ ((\A g \in Gens : proc[g] # "none") /\ UNCHANGED mishaps)
  /\ UNCHANGED <<conn, proc, closed, eof, asked, said, pending, holder, tools>>

Lock(c) ==
  /\ In(c, "lock") /\ holder = Free /\ holder' = c /\ GoTo(c, "handshake")
  /\ UNCHANGED <<conn, proc, closed, eof, asked, said, pending, tools, mishaps>>

\* Mutant: the fresh tools are not put back.
ConnectedOnly(c) ==
  /\ In(c, "handshake") /\ proc[Gen(c)] = "up"
  /\ conn' = Gen(c) /\ holder' = Free /\ Again(c)
  /\ UNCHANGED <<proc, closed, eof, asked, said, pending, tools, mishaps>>

\* initialize and tools/list are answered
Connected(c) ==
  /\ In(c, "handshake") /\ proc[Gen(c)] = "up"
  /\ conn' = Gen(c) /\ holder' = Free /\ GoTo(c, "hook")
  /\ UNCHANGED <<proc, closed, eof, asked, said, pending, tools, mishaps>>

\* Mutant: the process is left to itself.
HandshakeFailsOpen(c) ==
  /\ In(c, "handshake") /\ holder' = Free /\ Return(c)
  /\ UNCHANGED <<conn, proc, closed, eof, asked, said, pending, tools, mishaps>>

\* Mutant: no timeout: it fails only when the process is gone.
HandshakeFailsLate(c) ==
  /\ In(c, "handshake") /\ proc[Gen(c)] = "gone" /\ holder' = Free /\ Return(c)
  /\ UNCHANGED <<conn, proc, closed, eof, asked, said, pending, tools, mishaps>>

\* refused, or not answered within 30 seconds
HandshakeFails(c) ==
  /\ In(c, "handshake") /\ holder' = Free /\ Return(c)
  /\ Stopped(Gen(c)) /\ closed' = closed \cup {Gen(c)}
  /\ UNCHANGED <<conn, eof, said, pending, tools, mishaps>>

\* the tools of whatever is connected by now are read, then registered
Hook(c) ==
  /\ In(c, "hook") /\ holder = Free
  /\ IF conn = 0 THEN Again(c) ELSE GoTo(c, "tools")
  /\ UNCHANGED <<conn, proc, closed, eof, asked, said, pending, holder, tools, mishaps>>

PutTools(c) ==
  /\ In(c, "tools") /\ tools' = TRUE /\ Again(c)
  /\ UNCHANGED <<conn, proc, closed, eof, asked, said, pending, holder, mishaps>>

-----------------------------------------------------------------------------
(* The read loop, the process, the shutdown *)

\* an answer nobody waits for any more is dropped
Read(g) ==
  /\ g \notin eof
  /\ \E id \in said[g] :
       /\ said' = [said EXCEPT ![g] = @ \ {id}] /\ pending' = [pending EXCEPT ![g] = @ \ {id}]
       /\ call' = IF id \in pending[g] THEN [call EXCEPT ![id[1]].answered = TRUE] ELSE call
  /\ UNCHANGED <<conn, proc, closed, eof, asked, holder, tools, mishaps>>

\* everybody still waiting sees it; Close may cut off what was not yet read
EndOfFile(g) ==
  /\ proc[g] = "gone" /\ g \notin eof /\ (said[g] = {} \/ g \in closed)
  /\ eof' = eof \cup {g} /\ pending' = [pending EXCEPT ![g] = {}]
  /\ UNCHANGED <<conn, proc, closed, asked, said, holder, call, tools, mishaps>>

\* the process executes a request; it may hang, and it may die before it answers
Serve(g) ==
  /\ proc[g] = "up"
  /\ \E id \in asked[g] :
       asked' = [asked EXCEPT ![g] = @ \ {id}] /\ said' = [said EXCEPT ![g] = @ \cup {id}]
  /\ UNCHANGED <<conn, proc, closed, eof, pending, holder, call, tools, mishaps>>

Die(g) ==
  /\ proc[g] = "up" /\ Mishap /\ Stopped(g)
  /\ UNCHANGED <<conn, closed, eof, said, pending, holder, call, tools>>

\* at shutdown, for every server; calls may still be under way
Disconnect ==
  /\ holder = Free /\ conn # 0 /\ Mishap
  /\ closed' = closed \cup {conn} /\ Stopped(conn) /\ conn' = 0
  /\ UNCHANGED <<eof, said, pending, holder, call, tools>>

\* what a caller's goroutine does by itself, whatever the server does
Step(c) ==
  \/ Lookup(c) \/ Register(c) \/ TakePipe(c) \/ PipeBreaks(c) \/ Await(c) \/ TearDown(c) \/ Forget(c)
  \/ StartProcess(c) \/ StartFails(c) \/ Lock(c) \/ HandshakeFails(c) \/ Hook(c) \/ PutTools(c)

Deadlines == \E c \in Callers : Deadline(c)

McNext ==
  \/ \E c \in Callers : Step(c) \/ Write(c) \/ Connected(c)
  \/ \E g \in Gens : Read(g) \/ EndOfFile(g) \/ Serve(g) \/ Die(g)
  \/ Deadlines \/ Disconnect

\* callers go on and deadlines pass; a process may do nothing at all, not even read
McFairness == WF_mcvars(\E c \in Callers : Step(c)) /\ WF_mcvars(Deadlines)
McSpec == McInit /\ [][McNext]_mcvars /\ McFairness

-----------------------------------------------------------------------------
(* The type invariant.                                                        *)
McTypeOK ==
  /\ conn \in 0..MaxGen /\ proc \in [Gens -> {"none", "up", "gone"}]
  /\ closed \subseteq Gens /\ eof \subseteq Gens /\ holder \in Callers \cup {Free}
  /\ asked \in [Gens -> SUBSET Ids] /\ said \in [Gens -> SUBSET Ids] /\ pending \in [Gens -> SUBSET Ids]
  /\ call \in [Callers -> McCall] /\ tools \in BOOLEAN /\ mishaps \in 0..MaxMishaps

(* No failure leaks a process or a waiting request: a process that runs is    *)
(* connected or in the hands of the call that started it, and what waits for  *)
(* an answer is a call that is still in Send (mcp.go:323-330, transport.go:   *)
(* 270-312).                                                                  *)
NoProcessLeaks ==
  \A g \in Gens : proc[g] = "up" =>
    g = conn \/ \E c \in Callers : call[c].pc \in {"lock", "handshake"} /\ Gen(c) = g
NoRequestLeaks ==
  \A g \in Gens : \A id \in pending[g] :
    LET c == id[1] IN call[c].pc \in {"write", "pipe", "wait"} /\ Gen(c) = g /\ Id(c) = id
NothingLeaks == NoProcessLeaks /\ NoRequestLeaks

(* After the last reconnect has ended a connected server has its tools in the *)
(* registry, whatever reconnects overlapped (mcp.go:348-356).                 *)
Reconnecting(c) == call[c].pc \in {"closing", "start", "lock", "handshake", "hook", "tools"}
ToolsComeBack == conn # 0 /\ (\A c \in Callers : ~Reconnecting(c)) => tools

(* A call never tears down the very connection it used while its process      *)
(* still runs, a result it cannot parse excepted: a slow tool that outruns a  *)
(* deadline does not kill its server (mcp.go:519-525). A call that failed on  *)
(* an older connection may.                                                   *)
WorkingConnectionStays ==
  [][\A c \in Callers :
       TearDown(c) /\ conn # 0 /\ conn = Gen(c) /\ ~call[c].answered => proc[conn] = "gone"]_mcvars
=============================================================================
