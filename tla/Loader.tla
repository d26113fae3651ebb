------------------------------- MODULE Loader -------------------------------
(***************************************************************************)
(* How a configuration file gets into service while the server runs:       *)
(*   - an operator edits the file, the kernel reports writes;              *)
(*   - the watch goroutine (fsnotify.go) collects the reports and, on a    *)
(*     tick, loads the file: the YAML loader decodes it into the struct it *)
(*     kept from the last load, checks it and sends it on a channel of     *)
(*     capacity one;                                                       *)
(*   - the updates goroutine (loader.go) builds the providers from what it *)
(*     receives and answers the queries of Server.Serve in between.        *)
(*                                                                         *)
(* A configuration is known by its sections.  The content of a section is  *)
(* the number of the edit that wrote it, 0 when it is empty.               *)
(***************************************************************************)
EXTENDS Naturals, Sequences, FiniteSets

CONSTANTS
    Shapes,     \* what a file can look like, see Shape
    Remote,     \* client addresses
    Serves,     \* the addresses the secret providers of an edit match
    Denies,     \* the addresses the prefix_deny list of an edit covers
    MaxEdits    \* bound: how often the file is changed

Section == {"secrets", "users", "prefix"}

\* ok: the syntax is right.  given: the sections the file has.  empty: those
\* given without elements.  broken: those with a value of the wrong type.
Shape == [ok : BOOLEAN, given : SUBSET Section, empty : SUBSET Section,
          broken : SUBSET Section]

ASSUME LoaderAssumption ==
    /\ MaxEdits \in Nat
    /\ Shapes \subseteq Shape
    /\ Serves \in [1..(MaxEdits + 1) -> SUBSET Remote]
    /\ Denies \in [1..(MaxEdits + 1) -> SUBSET Remote]

VARIABLES
    file,       \* the file on disk: its shape and the edit that wrote it
    via,        \* how it got there: "initial", "write", "replace", "early"
    writing,    \* the operator is in the middle of a write
    events,     \* reports of writes to the file not yet seen by watch
    watch,      \* program counter of the watch goroutine
    due,        \* the current second of the ticker is about to be over
    ticked,     \* the ticker has fired and watch has not seen it
    pending,    \* watch has seen a write since the last load
    retained,   \* YAML.ServerConfig, decoded into by every load
    config,     \* the channel YAML.config: at most one configuration
    applied,    \* the configuration the providers were built from
    asked,      \* the query of Server.Serve, as a set of at most one
    answer,     \* the last answer, as a set of at most one
    rejected    \* history: the edits whose latest load returned an error

vars == <<file, via, writing, events, watch, due, ticked, pending, retained,
          config, applied, asked, answer, rejected>>
disk == <<file, via, writing>>
watcher == <<events, watch, due, ticked, pending, retained, rejected>>
queries == <<asked, answer>>

File == [shape : Shape, edit : Nat]
Config == [Section -> Nat]

Whole == [ok |-> TRUE, given |-> Section, empty |-> {}, broken |-> {}]
Truncated == [ok |-> TRUE, given |-> {}, empty |-> {}, broken |-> {}]

TypeOK ==
    /\ file \in File
    /\ via \in {"initial", "write", "replace", "early"}
    /\ writing \in BOOLEAN
    /\ events \in Nat
    /\ watch \in {"adding", "select", "send", "exited"}
    /\ due \in BOOLEAN
    /\ ticked \in BOOLEAN
    /\ pending \in BOOLEAN
    /\ retained \in Config
    /\ config \in Seq(Config) /\ Len(config) <= 1
    /\ applied \in Config
    /\ asked \in SUBSET Remote
    /\ answer \in SUBSET [remote : Remote, accepted : BOOLEAN, denied : BOOLEAN]
    /\ rejected \in SUBSET Nat

(***************************************************************************)
(* Decoding                                                                *)
(***************************************************************************)
\* yaml.Unmarshal into the retained struct: a syntax error leaves it alone, a
\* section of the wrong type is skipped, and so is one the file does not have.
Decode(f, old) ==
    [x \in Section |->
        IF ~f.shape.ok \/ x \notin f.shape.given \ f.shape.broken THEN old[x]
        ELSE IF x \in f.shape.empty THEN 0
        ELSE f.edit]

DecodeFails(f) == ~f.shape.ok \/ f.shape.given \cap f.shape.broken # {}

\* The checks of YAML.Unmarshal look at the struct, not at the file.
Servable(c) == c["secrets"] # 0 /\ c["users"] # 0

\* Fault: what was decoded is not checked.
LoadsUnchecked(f, old) == ~DecodeFails(f)

Loads(f, old) == ~DecodeFails(f) /\ Servable(Decode(f, old))

\* NewLocalConfig has loaded a whole file, which waits in the channel; the
\* watch on its directory is not there yet.
Init ==
    /\ file = [shape |-> Whole, edit |-> 1]
    /\ via = "initial"
    /\ writing = FALSE
    /\ events = 0
    /\ watch = "adding"
    /\ due = FALSE
    /\ ticked = FALSE
    /\ pending = FALSE
    /\ retained = [x \in Section |-> 1]
    /\ config = <<[x \in Section |-> 1]>>
    /\ applied = [x \in Section |-> 0]
    /\ asked = {}
    /\ answer = {}
    /\ rejected = {}

(***************************************************************************)
(* The operator and the kernel                                             *)
(***************************************************************************)
Report == IF watch = "adding" THEN events ELSE events + 1

\* A save in place: the file is truncated, then filled.  Both are reported.
Truncate ==
    /\ ~writing
    /\ file.edit <= MaxEdits
    /\ file' = [shape |-> Truncated, edit |-> file.edit + 1]
    /\ via' = IF watch = "adding" THEN "early" ELSE "write"
    /\ writing' = TRUE
    /\ events' = Report
    /\ UNCHANGED <<watch, due, ticked, pending, retained, config, applied, asked,
                   answer, rejected>>

Fill(shape) ==
    /\ writing
    /\ file' = [file EXCEPT !.shape = shape]
    /\ via' = IF watch = "adding" THEN "early" ELSE "write"
    /\ writing' = FALSE
    /\ events' = Report
    /\ UNCHANGED <<watch, due, ticked, pending, retained, config, applied, asked,
                   answer, rejected>>

\* A save that renames a new file over the old one.  fsnotify reports a Create,
\* which watch ignores.
Replace(shape) ==
    /\ ~writing
    /\ file.edit <= MaxEdits
    /\ file' = [shape |-> shape, edit |-> file.edit + 1]
    /\ via' = IF watch = "adding" THEN "early" ELSE "replace"
    /\ UNCHANGED <<writing, events, watch, due, ticked, pending, retained, config,
                   applied, asked, answer, rejected>>

(***************************************************************************)
(* The watch goroutine                                                     *)
(***************************************************************************)
\* Watcher.Load after the first load: watcher.Add, then go w.watch.
AddWatch ==
    /\ watch = "adding"
    /\ watch' = "select"
    /\ UNCHANGED <<disk, events, due, ticked, pending, retained, config, applied,
                   queries, rejected>>

WatchEvent ==
    /\ watch = "select" /\ events > 0
    /\ events' = events - 1
    /\ pending' = TRUE
    /\ UNCHANGED <<disk, watch, due, ticked, retained, config, applied, queries, rejected>>

\* A write to another file of the directory resets the ticker: its second
\* starts again.  A tick that has fired already is not taken back (Go 1.18).
WatchNoise ==
    /\ watch = "select"
    /\ due' = FALSE
    /\ UNCHANGED <<disk, events, watch, ticked, pending, retained, config, applied,
                   queries, rejected>>

\* Time passes.  The ticker's channel holds one tick; another one is dropped.
Elapse ==
    /\ watch # "adding" /\ ~due
    /\ due' = TRUE
    /\ UNCHANGED <<disk, events, watch, ticked, pending, retained, config, applied,
                   queries, rejected>>

Fire ==
    /\ due
    /\ due' = FALSE
    /\ ticked' = TRUE
    /\ UNCHANGED <<disk, events, watch, pending, retained, config, applied,
                   queries, rejected>>

TickIdle ==
    /\ watch = "select" /\ ticked /\ ~pending
    /\ ticked' = FALSE
    /\ UNCHANGED <<disk, events, watch, due, pending, retained, config, applied,
                   queries, rejected>>

\* Load: read the file, decode it and check the result.  What was decoded stays
\* in the struct whether or not an error is returned.
TickReload ==
    /\ watch = "select" /\ ticked /\ pending
    /\ ticked' = FALSE
    /\ pending' = FALSE
    /\ retained' = Decode(file, retained)
    /\ watch' = IF Loads(file, retained) THEN "send" ELSE "select"
    /\ rejected' = IF Loads(file, retained) THEN rejected \ {file.edit}
                                            ELSE rejected \cup {file.edit}
    /\ UNCHANGED <<disk, events, due, config, applied, queries>>

\* Fault: a configuration that finds the channel full is dropped.
SendDrop ==
    /\ watch = "send"
    /\ config' = IF config = <<>> THEN <<retained>> ELSE config
    /\ watch' = "select"
    /\ UNCHANGED <<disk, events, due, ticked, pending, retained, applied, queries, rejected>>

\* Fault: the channel has no bound.
SendUnbounded ==
    /\ watch = "send"
    /\ config' = Append(config, retained)
    /\ watch' = "select"
    /\ UNCHANGED <<disk, events, due, ticked, pending, retained, applied, queries, rejected>>

\* The send on the channel blocks while the last configuration is still there.
Send ==
    /\ watch = "send" /\ config = <<>>
    /\ config' = <<retained>>
    /\ watch' = "select"
    /\ UNCHANGED <<disk, events, due, ticked, pending, retained, applied, queries, rejected>>

\* The context is done.  Only watch stops: updates has no such case.
WatchExit ==
    /\ watch = "select"
    /\ watch' = "exited"
    /\ UNCHANGED <<disk, events, due, ticked, pending, retained, config, applied,
                   queries, rejected>>

(***************************************************************************)
(* The updates goroutine and its client                                    *)
(***************************************************************************)
\* NewLoader starts updates once Watcher.Load has returned.
UpdatesRuns == watch # "adding"

\* build and createPrefixFilters.
ApplyConfig ==
    /\ UpdatesRuns
    /\ config # <<>>
    /\ applied' = Head(config)
    /\ config' = Tail(config)
    /\ UNCHANGED <<disk, watcher, queries>>

\* Loader.Get, called by Server.Serve for one connection at a time.
Ask(r) ==
    /\ UpdatesRuns
    /\ asked = {}
    /\ asked' = {r}
    /\ answer' = {}
    /\ UNCHANGED <<disk, watcher, config, applied>>

\* Fault: without providers every client matches.
MatchesOpen(r) == Servable(applied) => r \in Serves[applied["secrets"]]

Matches(r) == Servable(applied) /\ r \in Serves[applied["secrets"]]

Denied(r) == applied["prefix"] # 0 /\ r \in Denies[applied["prefix"]]

\* The prefix filters are consulted and logged; the providers decide.
Answer(r) ==
    /\ r \in asked
    /\ asked' = {}
    /\ answer' = {[remote |-> r, accepted |-> Matches(r), denied |-> Denied(r)]}
    /\ UNCHANGED <<disk, watcher, config, applied>>

(***************************************************************************)
(* Specification                                                           *)
(***************************************************************************)
Operator == Truncate \/ (\E shape \in Shapes : Fill(shape) \/ Replace(shape))

Next ==
    \/ Operator
    \/ AddWatch \/ WatchEvent \/ WatchNoise \/ Elapse \/ Fire
    \/ TickIdle \/ TickReload \/ Send \/ WatchExit
    \/ ApplyConfig
    \/ \E r \in Remote : Ask(r) \/ Answer(r)

Spec == Init /\ [][Next]_vars

\* Both goroutines run, time passes, and a select with several ready cases
\* chooses at random, so that none of them is passed over for ever.  Nothing is
\* assumed of the operator, except that a write that was begun is finished.
\* Other files of the directory are left alone for a second again and again:
\* without such pauses WatchNoise could put the tick off for ever.
Fairness ==
    /\ WF_vars(AddWatch) /\ WF_vars(WatchEvent) /\ WF_vars(Elapse) /\ SF_vars(Fire)
    /\ WF_vars(TickIdle) /\ WF_vars(TickReload) /\ WF_vars(Send)
    /\ WF_vars(ApplyConfig)
    /\ WF_vars(\E r \in Remote : Answer(r))
    /\ WF_vars(\E shape \in Shapes : Fill(shape))

FairSpec == Spec /\ Fairness

(***************************************************************************)
(* Properties                                                              *)
(***************************************************************************)
\* A file that loads whatever was loaded before it.
GoodFile ==
    /\ ~writing
    /\ ~DecodeFails(file)
    /\ {"secrets", "users"} \subseteq file.shape.given \ file.shape.empty

Reflects(c) ==
    \A x \in file.shape.given : c[x] = (IF x \in file.shape.empty THEN 0 ELSE file.edit)

\* A configuration in the channel or in service has secret providers and users,
\* although the file may be edited, truncated or broken between any two steps.
ServableInService ==
    /\ \A i \in 1..Len(config) : Servable(config[i])
    /\ Servable(applied) \/ applied = [x \in Section |-> 0]

\* When nothing is left to do (no report, no pending reload, nothing to send or
\* to receive) a good file that was saved in place is what is in service: no
\* report is lost between a load and the next tick.
InServiceWhenQuiet ==
    (/\ via = "write" /\ GoodFile
     /\ watch = "select" /\ events = 0 /\ ~pending /\ config = <<>>) => Reflects(applied)

\* A client is accepted only by the providers of a configuration that has been
\* built: before the first one every query is refused.
FailsClosed ==
    \A a \in answer : a.accepted =>
        /\ applied # [x \in Section |-> 0]
        /\ \E e \in 1..file.edit : a.remote \in Serves[e]

\* A good file saved in place comes into service, unless it is changed again or
\* the server stops: the watch goroutine never loses it or blocks for ever.  This
\* assumes pauses in the writes to other files of its directory.
ReloadConverges ==
    \A e \in 1..(MaxEdits + 1) :
        (via = "write" /\ GoodFile /\ file.edit = e)
            ~> (Reflects(applied) \/ file.edit # e \/ via # "write" \/ watch = "exited")

(***************************************************************************)
(* What comments and docs say of the program and the program does not do.  *)
(***************************************************************************)
\* README.md: "Only valid configs will be applied."  Nothing of a file whose load
\* returned an error gets into service.
OnlyValidApplied == \A x \in Section : applied[x] \notin rejected

=============================================================================
