---------------------------- MODULE LoaderProofs ----------------------------
(***************************************************************************)
(* Theorems about Loader, for any number of edits, any shapes of the file, *)
(* any clients and any timing of the two goroutines.                       *)
(***************************************************************************)
EXTENDS Loader, TLAPS

(***************************************************************************)
(* The inductive invariant                                                 *)
(***************************************************************************)
\* Configurations made of the edits up to e.
UpTo(e) == [Section -> 0..e]

\* Nothing is loaded that was not in the file before; the channel holds one
\* configuration at most.
FromFile ==
    /\ file.edit \in 1..(MaxEdits + 1)
    /\ retained \in UpTo(file.edit)
    /\ applied \in UpTo(file.edit)
    /\ config = <<>> \/ \E c \in UpTo(file.edit) : config = <<c>>

\* What watch is about to send has passed the checks.
Checked == watch = "send" => Servable(retained)

\* The newest configuration on its way into service.
Newest == IF watch = "send" THEN retained
          ELSE IF config # <<>> THEN config[1]
          ELSE applied

\* When no report is left to act upon, the newest configuration is that of a good
\* file.  InServiceWhenQuiet is the case in which nothing is on its way.
NothingMissed ==
    /\ watch = "adding" => via # "write"
    /\ (via = "write" /\ GoodFile /\ events = 0 /\ ~pending /\ watch # "exited")
            => Reflects(Newest)

Inv ==
    /\ TypeOK /\ FromFile /\ Checked /\ NothingMissed
    /\ ServableInService /\ FailsClosed

-----------------------------------------------------------------------------
(***************************************************************************)
(* Decoding                                                                *)
(***************************************************************************)
\* Decoding takes every section from the file or from what was retained.
LEMMA DecodeFromFile ==
    ASSUME FromFile
    PROVE  Decode(file, retained) \in UpTo(file.edit)
<1>1. file.edit \in 0..file.edit /\ 0 \in 0..file.edit
  BY LoaderAssumption DEF FromFile
<1> QED BY <1>1 DEF Decode, FromFile, UpTo

\* A good file passes the checks, and what is decoded is what it says.
LEMMA GoodFileLoads ==
    ASSUME TypeOK, FromFile, GoodFile
    PROVE  Loads(file, retained) /\ Reflects(Decode(file, retained))
<1>1. file.edit # 0
  BY LoaderAssumption DEF FromFile
<1>2. \A x \in file.shape.given : x \notin file.shape.broken
  BY DEF GoodFile, DecodeFails
<1>3. file.shape.ok
  BY DEF GoodFile, DecodeFails
<1>4. \A x \in Section \cap file.shape.given :
        Decode(file, retained)[x] = IF x \in file.shape.empty THEN 0 ELSE file.edit
  BY <1>2, <1>3 DEF Decode
<1>5. Servable(Decode(file, retained))
  BY <1>1, <1>4 DEF Servable, GoodFile, Section
<1>6. file.shape.given \subseteq Section
  BY DEF TypeOK, File, Shape
<1> QED BY <1>4, <1>5, <1>6 DEF Loads, GoodFile, Reflects

(***************************************************************************)
(* Preservation                                                            *)
(***************************************************************************)
LEMMA InitInv == Init => Inv
<1> SUFFICES ASSUME Init PROVE Inv
  OBVIOUS
<1>1. [x \in Section |-> 1] \in Config /\ [x \in Section |-> 0] \in Config /\ Whole \in Shape
  BY DEF Config, Whole, Shape
<1>2. TypeOK
  <2>1. config \in Seq(Config) /\ Len(config) <= 1
    BY <1>1 DEF Init
  <2>2. file \in File
    BY <1>1 DEF Init, File
  <2> QED BY <1>1, <2>1, <2>2 DEF Init, TypeOK
<1>3. FromFile
  BY LoaderAssumption DEF Init, FromFile, UpTo
<1>4. Checked /\ NothingMissed /\ FailsClosed
  BY DEF Init, Checked, NothingMissed, FailsClosed
<1>5. ServableInService
  BY DEF Init, ServableInService, Servable, Section
<1> QED BY <1>2, <1>3, <1>4, <1>5 DEF Inv

\* An edit of the file leaves the configurations alone.
LEMMA EditKeeps ==
    ASSUME Inv, file' \in File, file'.edit \in file.edit..(MaxEdits + 1),
           UNCHANGED <<watch, retained, config, applied, answer>>
    PROVE  FromFile' /\ Checked' /\ ServableInService' /\ FailsClosed'
<1>1. file.edit \in Nat /\ file'.edit \in Nat /\ MaxEdits \in Nat
  BY LoaderAssumption DEF Inv, TypeOK, File
<1>2. \A c \in UpTo(file.edit) : c \in UpTo(file'.edit)
  BY <1>1 DEF UpTo
<1>3. FromFile'
  BY <1>1, <1>2 DEF Inv, FromFile
<1>4. Checked' /\ ServableInService'
  BY DEF Inv, Checked, ServableInService, Servable
<1>5. FailsClosed'
  BY <1>1 DEF Inv, FailsClosed
<1> QED BY <1>3, <1>4, <1>5

\* The steps of the operator.
LEMMA OperatorInv == Inv /\ Operator => Inv'
<1> SUFFICES ASSUME Inv, Operator PROVE Inv'
  OBVIOUS
<1>1. file \in File /\ file.edit \in 1..(MaxEdits + 1) /\ MaxEdits \in Nat /\ events \in Nat
  BY LoaderAssumption DEF Inv, TypeOK, FromFile
<1>2. CASE Truncate
  <2>1. file' \in File /\ file'.edit = file.edit + 1 /\ file.edit <= MaxEdits
    BY <1>1, <1>2 DEF Truncate, Truncated, File, Shape
  <2>2. TypeOK'
    BY <1>1, <1>2, <2>1 DEF Truncate, Report, Inv, TypeOK
  <2>3. NothingMissed'
    BY <1>2 DEF Truncate, NothingMissed, GoodFile
  <2> QED BY <1>1, <1>2, <2>1, <2>2, <2>3, EditKeeps DEF Truncate, Inv
<1>3. ASSUME NEW shape \in Shapes, Fill(shape) PROVE Inv'
  <2>1. file' \in File /\ file'.edit = file.edit
    BY <1>1, <1>3, LoaderAssumption DEF Fill, File
  <2>2. TypeOK'
    <3>1. events' \in Nat /\ via' \in {"initial", "write", "replace", "early"}
      <4>1. events' = Report /\ via' = IF watch = "adding" THEN "early" ELSE "write"
        BY <1>3 DEF Fill
      <4> QED BY <1>1, <4>1 DEF Report
    <3>2. UNCHANGED <<watch, due, ticked, pending, retained, config, applied, asked,
                      answer, rejected>>
      BY <1>3 DEF Fill
    <3>3. writing' \in BOOLEAN
      BY <1>3 DEF Fill
    <3> QED BY <2>1, <3>1, <3>2, <3>3 DEF Inv, TypeOK
  <2>3. watch # "adding" => events' # 0
    BY <1>1, <1>3 DEF Fill, Report
  <2>4. NothingMissed'
    BY <1>3, <2>3 DEF Fill, NothingMissed
  <2> QED BY <1>1, <1>3, <2>1, <2>2, <2>4, EditKeeps DEF Fill, Inv
<1>4. ASSUME NEW shape \in Shapes, Replace(shape) PROVE Inv'
  <2>1. file' \in File /\ file'.edit = file.edit + 1 /\ file.edit <= MaxEdits
    BY <1>1, <1>4, LoaderAssumption DEF Replace, File
  <2>2. TypeOK'
    BY <1>1, <1>4, <2>1 DEF Replace, Inv, TypeOK
  <2>3. NothingMissed'
    BY <1>4 DEF Replace, NothingMissed
  <2> QED BY <1>1, <1>4, <2>1, <2>2, <2>3, EditKeeps DEF Replace, Inv
<1> QED BY <1>2, <1>3, <1>4 DEF Operator

\* Steps that only count reports and time.
LEMMA TimePasses ==
    ASSUME Inv, TypeOK',
           UNCHANGED <<file, via, writing, retained, config, applied, answer>>,
           watch' = watch \/ (watch = "adding" /\ watch' = "select")
                          \/ (watch = "select" /\ watch' = "exited"),
           events' = 0 /\ ~pending' /\ watch' # "exited" => events = 0 /\ ~pending
    PROVE  Inv'
<1>1. FromFile' /\ Checked' /\ ServableInService'
  BY DEF Inv, FromFile, Checked, ServableInService, Servable
<1>2. FailsClosed'
  BY DEF Inv, FailsClosed
<1>3. NothingMissed'
  <2>1. watch' = "adding" => via' # "write"
    BY DEF Inv, NothingMissed
  <2> SUFFICES ASSUME via = "write", GoodFile, events' = 0, ~pending', watch' # "exited"
               PROVE  Reflects(Newest)'
    BY <2>1 DEF NothingMissed, GoodFile, DecodeFails
  <2>2. Reflects(Newest) /\ watch # "adding"
    BY DEF Inv, NothingMissed
  <2>3. Newest' = Newest
    BY <2>2 DEF Newest
  <2> QED BY <2>2, <2>3 DEF Reflects
<1> QED BY <1>1, <1>2, <1>3 DEF Inv

\* The steps of the watch goroutine.
LEMMA WatchInv ==
    ASSUME Inv, \/ AddWatch \/ WatchEvent \/ WatchNoise \/ Elapse \/ Fire
                \/ TickIdle \/ TickReload \/ Send \/ WatchExit
    PROVE  Inv'
<1>1. TypeOK /\ FromFile
  BY DEF Inv
<1>2. CASE AddWatch
  BY <1>1, <1>2, TimePasses DEF AddWatch, disk, queries, TypeOK
<1>3. CASE WatchEvent
  BY <1>1, <1>3, TimePasses DEF WatchEvent, disk, queries, TypeOK
<1>4. CASE WatchNoise
  BY <1>1, <1>4, TimePasses DEF WatchNoise, disk, queries, TypeOK
<1>5. CASE Elapse
  BY <1>1, <1>5, TimePasses DEF Elapse, disk, queries, TypeOK
<1>6. CASE Fire
  BY <1>1, <1>6, TimePasses DEF Fire, disk, queries, TypeOK
<1>7. CASE TickIdle
  BY <1>1, <1>7, TimePasses DEF TickIdle, disk, queries, TypeOK
<1>8. CASE WatchExit
  BY <1>1, <1>8, TimePasses DEF WatchExit, disk, queries, TypeOK
<1>9. CASE TickReload
  <2>1. retained' \in UpTo(file.edit) /\ retained' \in Config
    BY <1>1, <1>9, DecodeFromFile DEF TickReload, UpTo, Config
  <2>2. TypeOK'
    <3>1. watch' \in {"adding", "select", "send", "exited"} /\ rejected' \in SUBSET Nat
      BY <1>1, <1>9 DEF TickReload, TypeOK, File
    <3>2. ticked' \in BOOLEAN /\ pending' \in BOOLEAN
      BY <1>9 DEF TickReload
    <3>3. UNCHANGED <<file, via, writing, events, due, config, applied, asked, answer>>
      BY <1>9 DEF TickReload, disk, queries
    <3> QED BY <1>1, <2>1, <3>1, <3>2, <3>3 DEF TypeOK
  <2>3. FromFile'
    BY <1>1, <1>9, <2>1 DEF TickReload, disk, FromFile
  <2>4. Checked'
    BY <1>9 DEF TickReload, Checked, Loads
  <2>5. ServableInService' /\ FailsClosed'
    BY <1>9 DEF TickReload, disk, queries, Inv, ServableInService, FailsClosed
  <2>6. NothingMissed'
    <3>1. watch' # "adding"
      BY <1>9 DEF TickReload
    <3>2. ASSUME GoodFile PROVE Reflects(Newest)'
      <4>1. watch' = "send" /\ retained' = Decode(file, retained) /\ file' = file
        BY <1>1, <1>9, <3>2, GoodFileLoads DEF TickReload, disk
      <4> QED BY <1>1, <3>2, <4>1, GoodFileLoads DEF Newest, Reflects
    <3>3. GoodFile' <=> GoodFile
      BY <1>9 DEF TickReload, disk, GoodFile, DecodeFails
    <3> QED BY <3>1, <3>2, <3>3 DEF NothingMissed
  <2> QED BY <2>2, <2>3, <2>4, <2>5, <2>6 DEF Inv
<1>10. CASE Send
  <2>1. retained \in Config /\ config' = <<retained>> /\ UNCHANGED <<file, via, writing>>
    BY <1>1, <1>10 DEF Send, TypeOK, disk
  <2>2. TypeOK'
    <3>1. config' \in Seq(Config) /\ Len(config') <= 1
      BY <2>1
    <3> QED BY <1>1, <1>10, <3>1 DEF Send, disk, queries, TypeOK
  <2>3. FromFile' /\ Checked'
    BY <1>1, <1>10, <2>1 DEF Send, FromFile, Checked
  <2>4. ServableInService' /\ FailsClosed'
    BY <1>10, <2>1 DEF Send, disk, queries, Inv, Checked, ServableInService, Servable, FailsClosed
  <2>5. NothingMissed'
    <3>1. Newest = retained /\ Newest' = retained
      BY <1>10, <2>1 DEF Send, Newest
    <3> QED BY <1>10, <2>1, <3>1 DEF Send, Inv, NothingMissed, GoodFile, DecodeFails, Reflects
  <2> QED BY <2>2, <2>3, <2>4, <2>5 DEF Inv
<1> QED BY <1>2, <1>3, <1>4, <1>5, <1>6, <1>7, <1>8, <1>9, <1>10

\* The steps of the updates goroutine and of its client.
LEMMA UpdatesInv ==
    ASSUME Inv, ApplyConfig \/ \E r \in Remote : Ask(r) \/ Answer(r)
    PROVE  Inv'
<1>1. TypeOK /\ FromFile
  BY DEF Inv
<1>2. CASE ApplyConfig
  <2>1. PICK c \in UpTo(file.edit) : config = <<c>>
    BY <1>1, <1>2 DEF ApplyConfig, FromFile
  <2>2. applied' = c /\ config' = <<>> /\ config[1] = c
    BY <1>2, <2>1 DEF ApplyConfig
  <2>3. UNCHANGED <<file, via, writing, events, watch, due, ticked, pending, retained,
                    rejected, asked, answer>>
    BY <1>2 DEF ApplyConfig, disk, watcher, queries
  <2>4. Servable(c)
    BY <2>1, <2>2 DEF Inv, ServableInService
  <2>5. TypeOK'
    <3>1. config' \in Seq(Config) /\ Len(config') <= 1
      BY <2>2
    <3>2. applied' \in Config
      BY <1>1, <2>1, <2>2 DEF TypeOK, File, UpTo, Config
    <3> QED BY <1>1, <2>3, <3>1, <3>2 DEF TypeOK
  <2>6. FromFile' /\ Checked'
    BY <1>1, <2>2, <2>3 DEF Inv, FromFile, Checked, Servable
  <2>7. ServableInService'
    BY <2>2, <2>4 DEF ServableInService, Servable
  <2>8. FailsClosed'
    <3>1. applied' # [x \in Section |-> 0]
      BY <2>2, <2>4 DEF Servable, Section
    <3> QED BY <2>3, <3>1 DEF Inv, FailsClosed
  <2>9. NothingMissed'
    <3>1. Newest' = Newest
      BY <2>1, <2>2, <2>3 DEF Newest
    <3> QED BY <2>3, <3>1 DEF Inv, NothingMissed, GoodFile, DecodeFails, Reflects
  <2> QED BY <2>5, <2>6, <2>7, <2>8, <2>9 DEF Inv
<1>3. ASSUME NEW r \in Remote, Ask(r) \/ Answer(r) PROVE Inv'
  <2>1. UNCHANGED <<file, via, writing, events, watch, due, ticked, pending, retained,
                    rejected, config, applied>>
    BY <1>3 DEF Ask, Answer, disk, watcher
  <2>2. /\ asked' \in SUBSET Remote
        /\ answer' \in SUBSET [remote : Remote, accepted : BOOLEAN, denied : BOOLEAN]
    <3>1. Matches(r) \in BOOLEAN /\ Denied(r) \in BOOLEAN
      BY DEF Matches, Denied, Servable
    <3>2. CASE Ask(r)
      BY <1>3, <3>2 DEF Ask
    <3>3. CASE Answer(r)
      BY <1>3, <3>1, <3>3 DEF Answer
    <3> QED BY <1>3, <3>2, <3>3
  <2>3. TypeOK' /\ FromFile' /\ Checked' /\ ServableInService'
    BY <2>1, <2>2 DEF Inv, TypeOK, FromFile, Checked, ServableInService, Servable
  <2>4. NothingMissed'
    BY <2>1 DEF Inv, NothingMissed, GoodFile, DecodeFails, Reflects, Newest
  <2>5. FailsClosed'
    <3>1. CASE Ask(r)
      BY <3>1 DEF Ask, FailsClosed
    <3>2. CASE Answer(r)
      <4> SUFFICES ASSUME Matches(r)
                   PROVE  /\ applied # [x \in Section |-> 0]
                          /\ \E e \in 1..file.edit : r \in Serves[e]
        BY <2>1, <3>2 DEF Answer, FailsClosed
      <4>1. applied["secrets"] # 0 /\ r \in Serves[applied["secrets"]]
        BY DEF Matches, Servable
      <4>2. applied["secrets"] \in 1..file.edit
        BY <1>1, <4>1 DEF FromFile, UpTo, Section
      <4> QED BY <4>1, <4>2 DEF Section
    <3> QED BY <1>3, <3>1, <3>2
  <2> QED BY <2>3, <2>4, <2>5 DEF Inv
<1> QED BY <1>2, <1>3

\* The invariant is inductive.
LEMMA NextInv == Inv /\ [Next]_vars => Inv'
<1> SUFFICES ASSUME Inv, [Next]_vars PROVE Inv'
  OBVIOUS
<1>1. CASE UNCHANGED vars
  BY <1>1 DEF vars, Inv, TypeOK, FromFile, Checked, NothingMissed, GoodFile, DecodeFails,
              Reflects, Newest, ServableInService, Servable, FailsClosed
<1> QED BY <1>1, OperatorInv, WatchInv, UpdatesInv DEF Next

-----------------------------------------------------------------------------
(***************************************************************************)
(* Theorems                                                                *)
(***************************************************************************)
\* The invariant holds however edits, reloads, builds and queries interleave.
THEOREM InvHolds == Spec => []Inv
BY InitInv, NextInv, PTL DEF Spec

\* Every variable keeps its type; the channel never holds two configurations.
THEOREM TypeCorrect == Spec => []TypeOK
BY InvHolds, PTL DEF Inv

\* Only configurations with secret providers and users are sent or in service.
THEOREM AlwaysServable == Spec => []ServableInService
BY InvHolds, PTL DEF Inv

\* Clients are accepted only by the providers of some edit, never before a build.
THEOREM ClosedUntilBuilt == Spec => []FailsClosed
BY InvHolds, PTL DEF Inv

\* No report of a write is lost: when all is quiet a good file is in service.
THEOREM NoReportLost == Spec => []InServiceWhenQuiet
<1>1. Inv => InServiceWhenQuiet
  BY DEF Inv, NothingMissed, InServiceWhenQuiet, Newest
<1> QED BY <1>1, InvHolds, PTL

=============================================================================
