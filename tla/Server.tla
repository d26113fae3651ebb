------------------------------- MODULE Server -------------------------------
(***************************************************************************)
(* The accept loop Server.Serve, one handler goroutine per connection      *)
(* (Server.handle, seen from outside: what it reads and writes is module   *)
(* Connection) and the waitGroup of sessions.go that ties them together at *)
(* shutdown.                                                               *)
(*                                                                         *)
(* Each goroutine has a program counter; a step is one blocking operation  *)
(* or one access to shared memory.  waitGroup.active is a plain uint that  *)
(* the accept loop and the handlers update without synchronisation, so     *)
(* active++ and active-- are a load and a store that interleave.           *)
(***************************************************************************)
EXTENDS Naturals, FiniteSets

CONSTANTS
    Conn,       \* the connections clients may open, each used once
    Word        \* active is a uint of Word values: it wraps modulo Word

ASSUME ServerAssumption ==
    /\ IsFiniteSet(Conn)
    /\ "serve" \notin Conn
    /\ Word \in Nat /\ Cardinality(Conn) < Word

VARIABLES
    cancelled,  \* the context given to Serve is done
    serve,      \* program counter of Serve
    current,    \* the connection Serve is working on, as a set of at most one
    handler,    \* program counters of the handler goroutines
    socket,     \* the connections: "none", "queued", "open" or "closed"
    wg,         \* the counter inside sync.WaitGroup
    active,     \* waitGroup.active
    reg,        \* the value each goroutine loaded from active
    late        \* history: what was begun after the cancellation

vars == <<cancelled, serve, current, handler, socket, wg, active, reg, late>>

ServePC == {"select", "accept", "get", "add", "load", "store", "spawn",
            "closing", "wait", "returned"}
HandlerPC == {"none", "select", "read", "handle", "write", "writeBadSecret",
              "close", "done", "load", "store", "exited"}
Socket == {"none", "queued", "open", "closed"}

\* Serve is a goroutine as well and has a register of its own.
Goroutine == Conn \cup {"serve"}

TypeOK ==
    /\ cancelled \in BOOLEAN
    /\ serve \in ServePC
    /\ current \in SUBSET Conn
    /\ handler \in [Conn -> HandlerPC]
    /\ socket \in [Conn -> Socket]
    /\ wg \in Nat
    /\ active \in 0..(Word - 1)
    /\ reg \in [Goroutine -> 0..(Word - 1)]
    /\ late \in [Goroutine -> 0..2]

Init ==
    /\ cancelled = FALSE
    /\ serve = "select"
    /\ current = {}
    /\ handler = [c \in Conn |-> "none"]
    /\ socket = [c \in Conn |-> "none"]
    /\ wg = 0
    /\ active = 0
    /\ reg = [g \in Goroutine |-> 0]
    /\ late = [g \in Goroutine |-> 0]

\* Counted up to 2: one is what the code allows, two is already too many.
LateBy(g) == [late EXCEPT ![g] = IF cancelled /\ @ < 2 THEN @ + 1 ELSE @]

(***************************************************************************)
(* The environment                                                         *)
(***************************************************************************)
Cancel ==
    /\ ~cancelled
    /\ cancelled' = TRUE
    /\ UNCHANGED <<serve, current, handler, socket, wg, active, reg, late>>

\* A client connects; the listener queues it while it is open.
Connect(c) ==
    /\ socket[c] = "none"
    /\ serve \notin {"wait", "returned"}
    /\ socket' = [socket EXCEPT ![c] = "queued"]
    /\ UNCHANGED <<cancelled, serve, current, handler, wg, active, reg, late>>

(***************************************************************************)
(* Serve                                                                   *)
(***************************************************************************)
Goto(pc) == serve' = pc

SelectDone ==
    /\ serve = "select" /\ cancelled
    /\ Goto("closing")
    /\ UNCHANGED <<cancelled, current, handler, socket, wg, active, reg, late>>

\* Fault: the loop goes on accepting after the context is done.
SelectDefaultAlways ==
    /\ serve = "select"
    /\ Goto("accept")
    /\ UNCHANGED <<cancelled, current, handler, socket, wg, active, reg, late>>

\* SetDeadline and the call of Accept.
SelectDefault ==
    /\ serve = "select" /\ ~cancelled
    /\ Goto("accept")
    /\ UNCHANGED <<cancelled, current, handler, socket, wg, active, reg, late>>

\* The ten second deadline of the listener, or another error to go on after.
AcceptTemporary ==
    /\ serve = "accept"
    /\ Goto("select")
    /\ UNCHANGED <<cancelled, current, handler, socket, wg, active, reg, late>>

\* A net.OpError that is not temporary: Serve returns.
AcceptFatal ==
    /\ serve = "accept"
    /\ Goto("closing")
    /\ UNCHANGED <<cancelled, current, handler, socket, wg, active, reg, late>>

Accept(c) ==
    /\ serve = "accept"
    /\ socket[c] = "queued"
    /\ Goto("get")
    /\ current' = {c}
    /\ socket' = [socket EXCEPT ![c] = "open"]
    /\ late' = LateBy("serve")
    /\ UNCHANGED <<cancelled, handler, wg, active, reg>>

\* Fault: a refused connection is not closed.
GetRefusedOpen(c) ==
    /\ serve = "get" /\ c \in current
    /\ Goto("select")
    /\ current' = {}
    /\ UNCHANGED <<cancelled, handler, socket, wg, active, reg, late>>

\* SecretProvider.Get answers with an error, no secret or no handler.
GetRefused(c) ==
    /\ serve = "get" /\ c \in current
    /\ Goto("select")
    /\ current' = {}
    /\ socket' = [socket EXCEPT ![c] = "closed"]
    /\ UNCHANGED <<cancelled, handler, wg, active, reg, late>>

GetAccepted ==
    /\ serve = "get"
    /\ Goto("add")
    /\ UNCHANGED <<cancelled, current, handler, socket, wg, active, reg, late>>

\* Fault: the WaitGroup is not told of the new handler.
AddWaitGroupMissing ==
    /\ serve = "add"
    /\ Goto("load")
    /\ UNCHANGED <<cancelled, current, handler, socket, wg, active, reg, late>>

\* waitGroup.Add: the WaitGroup first, then active++.
AddWaitGroup ==
    /\ serve = "add"
    /\ Goto("load")
    /\ wg' = wg + 1
    /\ UNCHANGED <<cancelled, current, handler, socket, active, reg, late>>

AddLoad ==
    /\ serve = "load"
    /\ Goto("store")
    /\ reg' = [reg EXCEPT !["serve"] = active]
    /\ UNCHANGED <<cancelled, current, handler, socket, wg, active, late>>

AddStore ==
    /\ serve = "store"
    /\ Goto("spawn")
    /\ active' = (reg["serve"] + 1) % Word
    /\ UNCHANGED <<cancelled, current, handler, socket, wg, reg, late>>

Spawn(c) ==
    /\ serve = "spawn" /\ c \in current
    /\ Goto("select")
    /\ current' = {}
    /\ handler' = [handler EXCEPT ![c] = "select"]
    /\ UNCHANGED <<cancelled, socket, wg, active, reg, late>>

\* The deferred function: close the listener, which resets what it still
\* queues, then wait for the handlers.
CloseListener ==
    /\ serve = "closing"
    /\ Goto("wait")
    /\ socket' = [c \in Conn |-> IF socket[c] = "queued" THEN "closed" ELSE socket[c]]
    /\ UNCHANGED <<cancelled, current, handler, wg, active, reg, late>>

\* Fault: Serve returns without waiting.
WaitNot ==
    /\ serve = "wait"
    /\ Goto("returned")
    /\ UNCHANGED <<cancelled, current, handler, socket, wg, active, reg, late>>

Wait ==
    /\ serve = "wait"
    /\ wg = 0
    /\ Goto("returned")
    /\ UNCHANGED <<cancelled, current, handler, socket, wg, active, reg, late>>

(***************************************************************************)
(* Server.handle and the goroutine around it                               *)
(***************************************************************************)
Jump(c, from, to) ==
    /\ handler[c] = from
    /\ handler' = [handler EXCEPT ![c] = to]

HandleSelectDone(c) ==
    /\ cancelled
    /\ Jump(c, "select", "close")
    /\ UNCHANGED <<cancelled, serve, current, socket, wg, active, reg, late>>

\* Fault: the packet loop does not look at the context.
HandleSelectDefaultAlways(c) ==
    /\ Jump(c, "select", "read")
    /\ UNCHANGED <<cancelled, serve, current, socket, wg, active, reg, late>>

\* SetReadDeadline and the call of crypter.read.
HandleSelectDefault(c) ==
    /\ ~cancelled
    /\ Jump(c, "select", "read")
    /\ UNCHANGED <<cancelled, serve, current, socket, wg, active, reg, late>>

ReadPacket(c) ==
    /\ Jump(c, "read", "handle")
    /\ late' = LateBy(c)
    /\ UNCHANGED <<cancelled, serve, current, socket, wg, active, reg>>

\* detectBadSecret: the read itself writes a reply and then fails.
ReadBadSecret(c) ==
    /\ Jump(c, "read", "writeBadSecret")
    /\ UNCHANGED <<cancelled, serve, current, socket, wg, active, reg, late>>

\* The fifteen second read deadline, end of file or a malformed packet.
ReadFails(c) ==
    /\ Jump(c, "read", "close")
    /\ UNCHANGED <<cancelled, serve, current, socket, wg, active, reg, late>>

\* sessions.get refuses the sequence number.
SessionRefused(c) ==
    /\ Jump(c, "handle", "close")
    /\ UNCHANGED <<cancelled, serve, current, socket, wg, active, reg, late>>

\* The reply does not encode: nothing is written.
ReplyDropped(c) ==
    /\ Jump(c, "handle", "select")
    /\ UNCHANGED <<cancelled, serve, current, socket, wg, active, reg, late>>

ReplyWrite(c) ==
    /\ Jump(c, "handle", "write")
    /\ UNCHANGED <<cancelled, serve, current, socket, wg, active, reg, late>>

\* net.Conn.Write returns, with or without an error.  No write deadline is ever
\* set: a client that does not read can keep the goroutine here.
WriteReturns(c) ==
    /\ \/ Jump(c, "write", "select")
       \/ Jump(c, "writeBadSecret", "close")
    /\ UNCHANGED <<cancelled, serve, current, socket, wg, active, reg, late>>

\* The deferred c.Close.
CloseConn(c) ==
    /\ Jump(c, "close", "done")
    /\ socket' = [socket EXCEPT ![c] = "closed"]
    /\ UNCHANGED <<cancelled, serve, current, wg, active, reg, late>>

\* waitGroup.Done: the WaitGroup first, then active--.
DoneWaitGroup(c) ==
    /\ Jump(c, "done", "load")
    /\ wg' = wg - 1
    /\ UNCHANGED <<cancelled, serve, current, socket, active, reg, late>>

DoneLoad(c) ==
    /\ Jump(c, "load", "store")
    /\ reg' = [reg EXCEPT ![c] = active]
    /\ UNCHANGED <<cancelled, serve, current, socket, wg, active, late>>

\* Fault: the counter is decremented without wrapping.
DoneStoreSigned(c) ==
    /\ Jump(c, "store", "exited")
    /\ active' = reg[c] - 1
    /\ UNCHANGED <<cancelled, serve, current, socket, wg, reg, late>>

DoneStore(c) ==
    /\ Jump(c, "store", "exited")
    /\ active' = (reg[c] + Word - 1) % Word
    /\ UNCHANGED <<cancelled, serve, current, socket, wg, reg, late>>

(***************************************************************************)
(* Specification                                                           *)
(***************************************************************************)
ServeStep ==
    \/ SelectDone \/ SelectDefault
    \/ AcceptTemporary \/ AcceptFatal \/ (\E c \in Conn : Accept(c))
    \/ (\E c \in Conn : GetRefused(c)) \/ GetAccepted
    \/ AddWaitGroup \/ AddLoad \/ AddStore
    \/ (\E c \in Conn : Spawn(c))
    \/ CloseListener \/ Wait

\* What a handler goroutine does without waiting for its client to read.
HandlerStep(c) ==
    \/ HandleSelectDone(c) \/ HandleSelectDefault(c)
    \/ ReadPacket(c) \/ ReadBadSecret(c) \/ ReadFails(c)
    \/ SessionRefused(c) \/ ReplyDropped(c) \/ ReplyWrite(c)
    \/ CloseConn(c) \/ DoneWaitGroup(c) \/ DoneLoad(c) \/ DoneStore(c)

Next ==
    \/ Cancel
    \/ ServeStep
    \/ \E c \in Conn : Connect(c) \/ HandlerStep(c) \/ WriteReturns(c)

Spec == Init /\ [][Next]_vars

\* The Go scheduler runs every goroutine that can run.  The listener and the
\* read deadlines bound Accept and read, so a step out of them always comes.
\* A write has no deadline: it returns because the client reads what it is
\* sent, or because its connection breaks.
Fairness ==
    /\ WF_vars(ServeStep)
    /\ \A c \in Conn : WF_vars(HandlerStep(c)) /\ WF_vars(WriteReturns(c))

FairSpec == Spec /\ Fairness

(***************************************************************************)
(* Properties                                                              *)
(***************************************************************************)
\* The handlers that have not called WaitGroup.Done yet.
Running == {c \in Conn : handler[c] \notin {"none", "load", "store", "exited"}}

\* The WaitGroup counts exactly the handlers that run, plus the one Serve has
\* added and not started yet: Add comes before the go statement.
WaitGroupCounts ==
    wg = Cardinality(Running)
         + (IF serve \in {"load", "store", "spawn"} THEN 1 ELSE 0)

\* When Serve has returned no connection is left open: every one it accepted,
\* refused or still queued has been closed, whatever the interleaving of
\* shutdown with accepts, reads and replies.
NothingOpenAfterServe ==
    serve = "returned" => \A c \in Conn : socket[c] \in {"none", "closed"}

\* A connection is open only while someone is going to close it: Serve, which
\* is deciding about it, or its own handler before the deferred Close.
OpenIsOwned ==
    \A c \in Conn : socket[c] = "open" <=>
        \/ c \in current
        \/ handler[c] \in {"select", "read", "handle", "write", "writeBadSecret", "close"}

\* After the cancellation Serve accepts at most the one connection its blocking
\* Accept was waiting for, and a handler reads at most one more packet.
OneMoreAfterCancel == \A g \in Goroutine : late[g] <= 1

\* A cancelled server stops: Serve returns although clients keep connecting
\* and sending, provided they read their replies.
ShutdownCompletes == cancelled ~> serve = "returned"

=============================================================================
