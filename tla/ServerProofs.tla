---------------------------- MODULE ServerProofs ----------------------------
(***************************************************************************)
(* Theorems about Server, for any finite set of connections and any width  *)
(* of the counter: what shutdown guarantees does not depend on how many    *)
(* handlers run nor on how they interleave with the accept loop.           *)
(***************************************************************************)
EXTENDS Server, FiniteSetTheorems, TLAPS

(***************************************************************************)
(* The inductive invariant                                                 *)
(***************************************************************************)
\* Serve works on a connection from the moment it is accepted until it is
\* refused or handed to its goroutine, and on none at any other time.
WorkingOn ==
    IF serve \in {"get", "add", "load", "store", "spawn"}
    THEN \E c \in Conn : current = {c}
    ELSE current = {}

\* A connection Serve has not handed over has no goroutine.
NotStarted ==
    \A c \in Conn : c \in current \/ socket[c] \in {"none", "queued"} => handler[c] = "none"

\* Something begun late was waiting when the context was cancelled, and whoever
\* began it does not wait for another.
LateOnce ==
    /\ late["serve"] = 0 \/ (cancelled /\ late["serve"] = 1 /\ serve # "accept")
    /\ \A c \in Conn : late[c] = 0 \/ (cancelled /\ late[c] = 1 /\ handler[c] # "read")

\* Closing the listener empties its queue, and Serve returns after its handlers.
ClosedDown ==
    /\ serve \in {"wait", "returned"} => \A c \in Conn : socket[c] # "queued"
    /\ serve = "returned" => Running = {}

Inv ==
    /\ TypeOK /\ WorkingOn /\ NotStarted
    /\ OpenIsOwned /\ WaitGroupCounts /\ LateOnce /\ ClosedDown

-----------------------------------------------------------------------------
(***************************************************************************)
(* Preservation                                                            *)
(***************************************************************************)
\* The width of the counter is not zero.
LEMMA WordPositive == Word \in Nat /\ Word > 0 /\ 0 \in 0..(Word - 1)
BY ServerAssumption, FS_CardinalityType

\* The handlers that run are finitely many.
LEMMA RunningFinite == IsFiniteSet(Running) /\ Cardinality(Running) \in Nat
BY ServerAssumption, FS_Subset, FS_CardinalityType, Running \subseteq Conn DEF Running

\* What Cancel, Connect and the steps of Serve have in common with respect to the
\* goroutines: no program counter of a handler changes.
LEMMA RunningKept ==
    ASSUME UNCHANGED handler
    PROVE  Running' = Running
BY DEF Running

LEMMA InitInv == Init => Inv
<1> SUFFICES ASSUME Init PROVE Inv
  OBVIOUS
<1>1. TypeOK
  <2>1. 0 \in 0..(Word - 1) /\ 0 \in 0..2 /\ 0 \in Nat
    BY WordPositive
  <2>2. reg \in [Goroutine -> 0..(Word - 1)] /\ late \in [Goroutine -> 0..2]
    BY <2>1 DEF Init
  <2>3. handler \in [Conn -> HandlerPC] /\ socket \in [Conn -> Socket]
    BY DEF Init, HandlerPC, Socket
  <2>4. cancelled \in BOOLEAN /\ serve \in ServePC /\ current \in SUBSET Conn
    BY DEF Init, ServePC
  <2> QED BY <2>1, <2>2, <2>3, <2>4 DEF Init, TypeOK
<1>2. WorkingOn /\ NotStarted /\ OpenIsOwned
  BY DEF Init, WorkingOn, NotStarted, OpenIsOwned
<1>3. Running = {}
  BY DEF Init, Running
<1>4. WaitGroupCounts /\ ClosedDown
  BY <1>3, FS_EmptySet DEF Init, WaitGroupCounts, ClosedDown
<1>5. LateOnce
  BY DEF Init, LateOnce, Goroutine
<1> QED BY <1>1, <1>2, <1>4, <1>5 DEF Inv

\* Steps of Serve that only move its program counter, not into or out of the part
\* in which it works on a connection, and not to Accept, wait or the return.
LEMMA ServeMoves ==
    ASSUME Inv, NEW pc \in ServePC \ {"wait", "returned"},
           serve' = pc, serve \notin {"wait", "returned"},
           serve \in {"get", "add"} <=> pc \in {"get", "add"},
           serve \in {"load", "store", "spawn"} <=> pc \in {"load", "store", "spawn"},
           pc = "accept" => ~cancelled,
           UNCHANGED <<cancelled, current, handler, socket, wg, late>>,
           active' \in 0..(Word - 1), reg' \in [Goroutine -> 0..(Word - 1)]
    PROVE  Inv'
<1>1. Running' = Running
  BY RunningKept
<1>2. TypeOK' /\ WorkingOn' /\ NotStarted' /\ OpenIsOwned'
  BY DEF Inv, TypeOK, WorkingOn, NotStarted, OpenIsOwned, ServePC
<1>3. WaitGroupCounts' /\ ClosedDown'
  BY <1>1 DEF Inv, WaitGroupCounts, ClosedDown
<1>4. LateOnce'
  BY DEF Inv, LateOnce
<1> QED BY <1>2, <1>3, <1>4 DEF Inv

\* The program counters of a handler that holds its connection open.
Holding == {"select", "read", "handle", "write", "writeBadSecret", "close"}

\* Steps of a handler that keep its connection open, and do not read too late.
LEMMA HandlerMoves ==
    ASSUME Inv, NEW c \in Conn, NEW from \in Holding, NEW to \in Holding,
           Jump(c, from, to),
           to = "read" => ~cancelled,
           UNCHANGED <<cancelled, serve, current, socket, wg, active, reg>>,
           late' = late \/ (from = "read" /\ late' = LateBy(c))
    PROVE  Inv'
<1>1. Running' = Running
  BY DEF Running, Jump, Holding, Inv, TypeOK
<1>2. TypeOK'
  BY DEF Inv, TypeOK, Jump, Holding, HandlerPC, LateBy, Goroutine
<1>3. WorkingOn' /\ NotStarted' /\ OpenIsOwned'
  BY DEF Inv, TypeOK, WorkingOn, NotStarted, OpenIsOwned, Jump, Holding
<1>4. WaitGroupCounts' /\ ClosedDown'
  BY <1>1 DEF Inv, WaitGroupCounts, ClosedDown
<1>5. LateOnce'
  BY ServerAssumption DEF Inv, TypeOK, LateOnce, LateBy, Jump, Holding, Goroutine
<1> QED BY <1>2, <1>3, <1>4, <1>5 DEF Inv

\* Every step of Serve preserves the invariant.
LEMMA ServeStepInv == Inv /\ ServeStep => Inv'
<1> SUFFICES ASSUME Inv, ServeStep PROVE Inv'
  OBVIOUS
<1> USE WordPositive
<1>1. CASE SelectDone
  BY <1>1, ServeMoves DEF SelectDone, Goto, ServePC, Inv, TypeOK
<1>2. CASE SelectDefault
  BY <1>2, ServeMoves DEF SelectDefault, Goto, ServePC, Inv, TypeOK
<1>3. CASE AcceptTemporary
  BY <1>3, ServeMoves DEF AcceptTemporary, Goto, ServePC, Inv, TypeOK
<1>4. CASE AcceptFatal
  BY <1>4, ServeMoves DEF AcceptFatal, Goto, ServePC, Inv, TypeOK
<1>5. CASE GetAccepted
  BY <1>5, ServeMoves DEF GetAccepted, Goto, ServePC, Inv, TypeOK
<1>6. CASE AddLoad
  <2>1. reg' \in [Goroutine -> 0..(Word - 1)]
    BY <1>6 DEF AddLoad, Inv, TypeOK
  <2> QED BY <1>6, <2>1, ServeMoves DEF AddLoad, Goto, ServePC, Inv, TypeOK
<1>7. CASE AddStore
  <2>1. active' \in 0..(Word - 1)
    BY <1>7 DEF AddStore, Inv, TypeOK, Goroutine
  <2> QED BY <1>7, <2>1, ServeMoves DEF AddStore, Goto, ServePC, Inv, TypeOK
<1>8. CASE AddWaitGroup
  <2>1. Running' = Running
    BY <1>8, RunningKept DEF AddWaitGroup
  <2>2. TypeOK' /\ WorkingOn' /\ NotStarted' /\ OpenIsOwned'
    BY <1>8 DEF AddWaitGroup, Goto, Inv, TypeOK, WorkingOn, NotStarted, OpenIsOwned, ServePC
  <2>3. WaitGroupCounts' /\ ClosedDown'
    BY <1>8, <2>1, RunningFinite DEF AddWaitGroup, Goto, Inv, WaitGroupCounts, ClosedDown
  <2>4. LateOnce'
    BY <1>8 DEF AddWaitGroup, Goto, Inv, LateOnce
  <2> QED BY <2>2, <2>3, <2>4 DEF Inv
<1>9. ASSUME NEW c \in Conn, Accept(c) PROVE Inv'
  <2>1. Running' = Running
    BY <1>9, RunningKept DEF Accept
  <2>2. TypeOK'
    BY <1>9 DEF Accept, Goto, LateBy, Inv, TypeOK, ServePC, Socket, Goroutine
  <2>3. WorkingOn' /\ NotStarted' /\ OpenIsOwned'
    BY <1>9 DEF Accept, Goto, Inv, TypeOK, WorkingOn, NotStarted, OpenIsOwned
  <2>4. WaitGroupCounts' /\ ClosedDown'
    BY <1>9, <2>1 DEF Accept, Goto, Inv, WaitGroupCounts, ClosedDown
  <2>5. LateOnce'
    BY <1>9, ServerAssumption DEF Accept, Goto, LateBy, Inv, TypeOK, LateOnce, Goroutine
  <2> QED BY <2>2, <2>3, <2>4, <2>5 DEF Inv
<1>10. ASSUME NEW c \in Conn, GetRefused(c) PROVE Inv'
  <2>1. Running' = Running
    BY <1>10, RunningKept DEF GetRefused
  <2>2. TypeOK'
    BY <1>10 DEF GetRefused, Goto, Inv, TypeOK, ServePC, Socket
  <2>3. WorkingOn' /\ NotStarted' /\ OpenIsOwned'
    BY <1>10 DEF GetRefused, Goto, Inv, TypeOK, WorkingOn, NotStarted, OpenIsOwned
  <2>4. WaitGroupCounts' /\ ClosedDown'
    BY <1>10, <2>1 DEF GetRefused, Goto, Inv, WaitGroupCounts, ClosedDown
  <2>5. LateOnce'
    BY <1>10 DEF GetRefused, Goto, Inv, LateOnce
  <2> QED BY <2>2, <2>3, <2>4, <2>5 DEF Inv
<1>11. ASSUME NEW c \in Conn, Spawn(c) PROVE Inv'
  <2>1. handler[c] = "none" /\ current = {c} /\ c \notin Running
    BY <1>11 DEF Spawn, Inv, WorkingOn, NotStarted, Running
  <2>2. Running' = Running \cup {c}
    BY <1>11 DEF Spawn, Running, Inv, TypeOK
  <2>3. TypeOK'
    BY <1>11 DEF Spawn, Goto, Inv, TypeOK, ServePC, HandlerPC
  <2>4. WorkingOn' /\ NotStarted' /\ OpenIsOwned'
    BY <1>11, <2>1 DEF Spawn, Goto, Inv, TypeOK, WorkingOn, NotStarted, OpenIsOwned
  <2>5. Cardinality(Running') = Cardinality(Running) + 1
    BY <2>1, <2>2, RunningFinite, FS_AddElement
  <2>6. WaitGroupCounts' /\ ClosedDown'
    BY <1>11, <2>5, RunningFinite DEF Spawn, Goto, Inv, WaitGroupCounts, ClosedDown
  <2>7. LateOnce'
    BY <1>11 DEF Spawn, Goto, Inv, TypeOK, LateOnce
  <2> QED BY <2>3, <2>4, <2>6, <2>7 DEF Inv
<1>12. CASE CloseListener
  <2>1. Running' = Running
    BY <1>12, RunningKept DEF CloseListener
  <2>2. TypeOK'
    BY <1>12 DEF CloseListener, Goto, Inv, TypeOK, ServePC, Socket
  <2>3. WorkingOn' /\ NotStarted' /\ OpenIsOwned'
    BY <1>12 DEF CloseListener, Goto, Inv, TypeOK, WorkingOn, NotStarted, OpenIsOwned
  <2>4. WaitGroupCounts' /\ ClosedDown'
    BY <1>12, <2>1 DEF CloseListener, Goto, Inv, WaitGroupCounts, ClosedDown
  <2>5. LateOnce'
    BY <1>12 DEF CloseListener, Goto, Inv, LateOnce
  <2> QED BY <2>2, <2>3, <2>4, <2>5 DEF Inv
<1>13. CASE Wait
  <2>1. Running' = Running
    BY <1>13, RunningKept DEF Wait
  <2>2. Running = {}
    BY <1>13, RunningFinite, FS_EmptySet DEF Wait, Inv, WaitGroupCounts
  <2>3. TypeOK' /\ WorkingOn' /\ NotStarted' /\ OpenIsOwned'
    BY <1>13 DEF Wait, Goto, Inv, TypeOK, WorkingOn, NotStarted, OpenIsOwned, ServePC
  <2>4. WaitGroupCounts' /\ ClosedDown'
    BY <1>13, <2>1, <2>2 DEF Wait, Goto, Inv, WaitGroupCounts, ClosedDown
  <2>5. LateOnce'
    BY <1>13 DEF Wait, Goto, Inv, LateOnce
  <2> QED BY <2>3, <2>4, <2>5 DEF Inv
<1> QED
  BY <1>1, <1>2, <1>3, <1>4, <1>5, <1>6, <1>7, <1>8, <1>9, <1>10, <1>11, <1>12, <1>13
  DEF ServeStep

\* Every step of a handler goroutine preserves the invariant, its writes included.
LEMMA HandlerStepInv ==
    ASSUME Inv, NEW c \in Conn, HandlerStep(c) \/ WriteReturns(c)
    PROVE  Inv'
<1>1. CASE HandleSelectDone(c)
  BY <1>1, HandlerMoves DEF HandleSelectDone, Holding
<1>2. CASE HandleSelectDefault(c)
  BY <1>2, HandlerMoves DEF HandleSelectDefault, Holding
<1>3. CASE ReadPacket(c)
  BY <1>3, HandlerMoves DEF ReadPacket, Holding
<1>4. CASE ReadBadSecret(c)
  BY <1>4, HandlerMoves DEF ReadBadSecret, Holding
<1>5. CASE ReadFails(c)
  BY <1>5, HandlerMoves DEF ReadFails, Holding
<1>6. CASE SessionRefused(c)
  BY <1>6, HandlerMoves DEF SessionRefused, Holding
<1>7. CASE ReplyDropped(c)
  BY <1>7, HandlerMoves DEF ReplyDropped, Holding
<1>8. CASE ReplyWrite(c)
  BY <1>8, HandlerMoves DEF ReplyWrite, Holding
<1>9. CASE WriteReturns(c)
  BY <1>9, HandlerMoves DEF WriteReturns, Holding
<1>10. CASE CloseConn(c)
  <2>1. Running' = Running
    BY <1>10 DEF CloseConn, Jump, Running, Inv, TypeOK
  <2>2. TypeOK'
    BY <1>10 DEF CloseConn, Jump, Inv, TypeOK, HandlerPC, Socket
  <2>3. WorkingOn' /\ NotStarted' /\ OpenIsOwned'
    BY <1>10 DEF CloseConn, Jump, Inv, TypeOK, WorkingOn, NotStarted, OpenIsOwned
  <2>4. WaitGroupCounts' /\ ClosedDown'
    BY <1>10, <2>1 DEF CloseConn, Inv, TypeOK, WaitGroupCounts, ClosedDown
  <2>5. LateOnce'
    BY <1>10 DEF CloseConn, Jump, Inv, TypeOK, LateOnce
  <2> QED BY <2>2, <2>3, <2>4, <2>5 DEF Inv
<1>11. CASE DoneWaitGroup(c)
  <2>1. c \in Running /\ Running' = Running \ {c}
    BY <1>11 DEF DoneWaitGroup, Jump, Running, Inv, TypeOK
  <2>2. Cardinality(Running') = Cardinality(Running) - 1 /\ Cardinality(Running') \in Nat
    BY <2>1, RunningFinite, FS_RemoveElement, FS_CardinalityType
  <2>3. WaitGroupCounts' /\ wg' \in Nat
    BY <1>11, <2>2, RunningFinite DEF DoneWaitGroup, Inv, WaitGroupCounts
  <2>4. TypeOK'
    BY <1>11, <2>3 DEF DoneWaitGroup, Jump, Inv, TypeOK, HandlerPC
  <2>5. WorkingOn' /\ NotStarted' /\ OpenIsOwned'
    BY <1>11 DEF DoneWaitGroup, Jump, Inv, TypeOK, WorkingOn, NotStarted, OpenIsOwned
  <2>6. ClosedDown'
    BY <1>11, <2>1 DEF DoneWaitGroup, Inv, ClosedDown
  <2>7. LateOnce'
    BY <1>11 DEF DoneWaitGroup, Jump, Inv, TypeOK, LateOnce
  <2> QED BY <2>3, <2>4, <2>5, <2>6, <2>7 DEF Inv
<1>12. CASE DoneLoad(c) \/ DoneStore(c)
  <2>1. Running' = Running
    BY <1>12 DEF DoneLoad, DoneStore, Jump, Running, Inv, TypeOK
  <2>2. active' \in 0..(Word - 1) /\ reg' \in [Goroutine -> 0..(Word - 1)]
    BY <1>12, WordPositive DEF DoneLoad, DoneStore, Inv, TypeOK, Goroutine
  <2>3. TypeOK'
    BY <1>12, <2>2 DEF DoneLoad, DoneStore, Jump, Inv, TypeOK, HandlerPC
  <2>4. WorkingOn' /\ NotStarted' /\ OpenIsOwned'
    BY <1>12 DEF DoneLoad, DoneStore, Jump, Inv, TypeOK, WorkingOn, NotStarted, OpenIsOwned
  <2>5. WaitGroupCounts' /\ ClosedDown'
    BY <1>12, <2>1 DEF DoneLoad, DoneStore, Inv, WaitGroupCounts, ClosedDown
  <2>6. LateOnce'
    BY <1>12 DEF DoneLoad, DoneStore, Jump, Inv, TypeOK, LateOnce
  <2> QED BY <2>3, <2>4, <2>5, <2>6 DEF Inv
<1> QED
  BY <1>1, <1>2, <1>3, <1>4, <1>5, <1>6, <1>7, <1>8, <1>9, <1>10, <1>11, <1>12
  DEF HandlerStep

\* The invariant is inductive.
LEMMA StepInv == Inv /\ [Next]_vars => Inv'
<1> SUFFICES ASSUME Inv, [Next]_vars PROVE Inv'
  OBVIOUS
<1>1. CASE Cancel
  <2>1. Running' = Running
    BY <1>1, RunningKept DEF Cancel
  <2>2. TypeOK' /\ WorkingOn' /\ NotStarted' /\ OpenIsOwned'
    BY <1>1 DEF Cancel, Inv, TypeOK, WorkingOn, NotStarted, OpenIsOwned
  <2>3. WaitGroupCounts' /\ ClosedDown'
    BY <1>1, <2>1 DEF Cancel, Inv, WaitGroupCounts, ClosedDown
  <2>4. LateOnce'
    BY <1>1 DEF Cancel, Inv, LateOnce
  <2> QED BY <2>2, <2>3, <2>4 DEF Inv
<1>2. ASSUME NEW c \in Conn, Connect(c) PROVE Inv'
  <2>1. Running' = Running
    BY <1>2, RunningKept DEF Connect
  <2>2. TypeOK' /\ WorkingOn'
    BY <1>2 DEF Connect, Inv, TypeOK, WorkingOn, Socket
  <2>3. NotStarted' /\ OpenIsOwned'
    BY <1>2 DEF Connect, Inv, TypeOK, NotStarted, OpenIsOwned
  <2>4. WaitGroupCounts' /\ ClosedDown'
    BY <1>2, <2>1 DEF Connect, Inv, WaitGroupCounts, ClosedDown
  <2>5. LateOnce'
    BY <1>2 DEF Connect, Inv, LateOnce
  <2> QED BY <2>2, <2>3, <2>4, <2>5 DEF Inv
<1>3. CASE UNCHANGED vars
  <2>1. Running' = Running
    BY <1>3, RunningKept DEF vars
  <2> QED BY <1>3, <2>1 DEF vars, Inv, TypeOK, WorkingOn, NotStarted, OpenIsOwned,
                            WaitGroupCounts, LateOnce, ClosedDown
<1> QED BY <1>1, <1>2, <1>3, ServeStepInv, HandlerStepInv DEF Next

-----------------------------------------------------------------------------
(***************************************************************************)
(* Theorems                                                                *)
(***************************************************************************)
\* The invariant holds of every behaviour of Serve and its handlers.
THEOREM Invariance == Spec => []Inv
BY InitInv, StepInv, PTL DEF Spec

\* The program counters, the counters and the histories keep their types: the
\* WaitGroup never goes below zero, at which sync.WaitGroup would panic.
THEOREM TypeCorrect == Spec => []TypeOK
<1>1. Inv => TypeOK
  BY DEF Inv
<1> QED BY <1>1, Invariance, PTL

\* The WaitGroup counts the handlers that run and the one about to start, for any
\* number of connections (Serve, waitGroup.Add and Done).
THEOREM WaitGroupIsExact == Spec => []WaitGroupCounts
<1>1. Inv => WaitGroupCounts
  BY DEF Inv
<1> QED BY <1>1, Invariance, PTL

\* A connection is open exactly while Serve or its handler will close it.
THEOREM OpenHasOwner == Spec => []OpenIsOwned
<1>1. Inv => OpenIsOwned
  BY DEF Inv
<1> QED BY <1>1, Invariance, PTL

\* Serve returns with every connection closed, however many there are.
THEOREM ServeClosesAll == Spec => []NothingOpenAfterServe
<1>1. Inv => NothingOpenAfterServe
  <2> SUFFICES ASSUME Inv, serve = "returned", NEW c \in Conn
               PROVE  socket[c] \in {"none", "closed"}
    BY DEF NothingOpenAfterServe
  <2>1. socket[c] # "queued" /\ c \notin Running /\ current = {}
    BY DEF Inv, ClosedDown, WorkingOn
  <2>2. socket[c] # "open"
    BY <2>1 DEF Inv, OpenIsOwned, Running
  <2> QED BY <2>1, <2>2 DEF Inv, TypeOK, Socket
<1> QED BY <1>1, Invariance, PTL

\* After the cancellation nobody begins more than the one thing they waited for.
THEOREM AtMostOneLate == Spec => []OneMoreAfterCancel
<1>1. Inv => OneMoreAfterCancel
  BY DEF Inv, LateOnce, OneMoreAfterCancel, Goroutine
<1> QED BY <1>1, Invariance, PTL

=============================================================================
