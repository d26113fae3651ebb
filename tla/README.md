# tacquito: TLA+ models, checks and proofs

tacquito is a TACACS+ (RFC 8907) server. This directory holds TLA+ models of
its concurrent and stateful parts and of its codec, TLC configurations that check
them on small instances, and TLAPS proofs, for instances of any size, of every
safety property that these runs check: about logins, shutdown, hot reload, the
building of users and scopes, authorization, and the packets on the wire.

## The system and its parts

| Part | Source | State | Operations | Module |
|---|---|---|---|---|
| accept loop, shutdown | `server.go`, `sessions.go` (waitGroup) | context, listener, one goroutine per connection, WaitGroup, `active` | Accept, Get, Add, go handle, Done, Wait | `Server` |
| connection loop, session table | `server.go` (handle), `sessions.go`, `handlers.go` | `sessions.known`, gauge `sessions_active` | get, set, update, delete, close, Reply, Next | `Connection`, abstractly `LoginSession` |
| request handlers | `cmds/server/handlers` | the closures of the ASCII login hold a user name | Start, AuthenticateStart, ASCII, PAP, AuthorizeRequest, AccountingRequest | `Handlers` |
| back ends | `cmds/server/config` (aaa, bcrypt, accounters) | none of their own | Handle | `Handlers` |
| hot reload | `cmds/server/loader` (loader, yaml, fsnotify, prefix_filter) | file, reports of writes, ticker, retained struct, channel of one, providers | Load, watch, updates, Get | `Loader` |
| building users, scopes and providers | `cmds/server/loader/loader.go` (build), `cmds/server/config` (types, aaa, provider) | providers | build, get, GetUser | `Build` |
| secret providers, keychain | `cmds/server/config/secret` | prefixes, secret | New, Get | `Build` |
| stringy authorizer | `cmds/server/config/authorizers/stringy` | per-user services and commands, shared by all requests | ReduceAll, session and command authorization, TrimSpace | `Stringy`, `SharedRules`; its replies in `Handlers` |
| wire codec | `packet.go`, `header*.go`, `authenticate*.go`, `authorize*.go`, `accounting*.go` | none | MarshalBinary, UnmarshalBinary, Validate | `Codec`, `Wire` |
| obfuscation, bad secret detection | `crypt.go` | buffered reader, secret | read, write, crypt, detectBadSecret | `Wire`; its control in `Connection` |
| proxy header | `proxy/readerwriter.go` | none | Header.Write | `Wire` |
| client | `client.go`, `cmds/client` | the packets of a login | Send, ascii, pap | `ClientLogin`, with `Connection` |
| JSON loader, DNS provider, span, response logger, metrics, logging | | | | not modelled, see below |

How they interact: `main` loads the configuration (`Loader`) and calls
`Server.Serve`. Serve asks `Loader.Get` for the secret and the handler of every
connection it accepts and starts a goroutine for it. That goroutine is the loop
of `Connection`: it reads packets, finds the session and runs its handler
(`Handlers`), which replies and may name the handler of the next packet. What
`Connection` calls reading a packet is `Wire`, octet by octet; what it calls the
users of a scope is what `Build` makes of a configuration; the rules that decide
an authorization are those of `Stringy`.

What makes it hard: sessions multiplexed on one connection; packets out of
order, repeated, or of another type than the session's; bodies that decode as
several packet types; sequence numbers at the limit of a byte; cancellation
while Accept or a read blocks; counters and patterns shared without a lock; a
file read while it is written; a configuration struct that survives failed loads;
a stream without packet boundaries; a wrong secret that can only be guessed from
lengths; entries of a configuration that cannot be built among others that can.

## Modules

**Handlers** has no state: a handler is an operator from the packet (and the
user name its closure holds) to the set of its outcomes. There are several
outcomes where the result comes from outside (a log that fails, the rules of
the authorizer). A body is the function from packet type to what that decoder
makes of it, because the code tries the same bytes as several types.

**Connection** is one client connection. The goroutine is sequential, so one
action is one turn of the loop, split by how it ends: `HandlePacket`,
`EvenSequence`, `StaleSequence`, `BadSecret`, `ReadFails`, `HandlerPanics`.
`Reconnect` opens the next connection. `known` is `sessions.known`,
`sessionsActive` the gauge. `told` is history: what the client said, computed
from the packets alone, so that properties compare the table with something
the table had no part in.

**LoginSession** is what a login promises: per session, a name is asked for,
then a password, then there is one verdict, and a grant is for the name that was
given. `Connection!ImplementsLogin` is the refinement.

**Server** has a program counter for Serve and one for each handler goroutine.
A step is one blocking call or one access to shared memory; `active++` and
`active--` are a load and a store, because nothing orders them. The handlers'
work is the business of `Connection` and appears here as its possible ends.

**Loader** has the operator who edits the file, the watch goroutine, the channel
and the updates goroutine. The content of a section is the number of the edit
that wrote it, so that properties can tell which edit is in service.

**Stringy** is the authorizer of one user: `Init` is `New` with its `ReduceAll`,
`Handle` decides one request. Arguments are records of attribute, separator and
value, values are sequences of words, and regular expressions are constants:
which patterns compile and what they match. The loops of the code are operators
of the same shape; the properties state what they compute as one formula over
the configuration.

**SharedRules** is one pattern of one command rule under several requests of its
user. `Command.TrimSpace` rewrites it in place; a Go string is two words, and
each word is loaded and stored by a step of its own.

**Build** is `Loader.build` and `Loader.get`: for every secret config the users
of its scope with their back ends, and the provider that knows its clients.
`Update` builds, `Query` is a client that connects and names a user. Networks are
constants: which prefixes parse and which address each of them covers.

**Codec** has the seven packet bodies. All have one shape, a head of octets and
lengths, then texts and arguments, so that each body type is a layout and
`Valid`, `MarshalBinary` and `UnmarshalBinary` are defined once. The values and
widths of all fields are those of the code; a length that does not fit is
truncated as in the code, an octet past the end reads as zero and a text past the
end is cut.

**Wire** is one direction of a connection. `Write` is `crypter.write`; the octets
go into a stream that may break anywhere (`Break`) and that another program may
have written to (`WriteForeign`). `crypter.read` is `ReadPacket`,
`ReadBadSecret` or `ReadFails`, by how it ends. `ends` has the secrets of the
two ends, and the line a proxy puts before the packets or the first of them.
The MD5 pad is a constant operator of everything the code feeds to MD5.

**ClientLogin** composes the command line client with `Connection`: it sends the
packets of a PAP or of an ASCII login and waits for each reply.

**Lists** has the loops over lists that `Stringy`, `Build` and `Codec` share: what is
kept of a list, sums, and the concatenation of a list of lists. They are recursive
functions of how far the loop has come, not operators, so that facts about them
can be proved. Sums and concatenations are taken by halves, which keeps TLC's
recursion shallow on lists of hundreds of elements; `ListProofs` shows that the
result is that of the loop from left to right.

**ConnectionProofs**, **ServerProofs**, **LoaderProofs**, **StringyProofs**,
**BuildProofs**, **CodecProofs** and **WireProofs** hold the theorems about the module
of that name, **ListProofs** the facts about lists that the last four rest on. The
modules named **MC...** give the constants their values for TLC; `Server` needs no
more than its `.cfg`.

Operators whose comment begins with "Fault" are wrong versions of the operator
after them. Each stands for a plausible bug and shows that a property would
notice it.

## Runs

| Run | Checks |
|---|---|
| `connection_login` | 2 sessions, 2 connections, the packets of a login: `PassIsProved`, `TableHoldsClaim`, `GaugeFollowsTable`, `ImplementsLogin` |
| `connection_all` | 1 session, 3 connections, every kind of packet: `TypeOK`, `PassIsProved`, `PromptIffLive`, `VerdictByThirdPacket`, `SequenceIncreases` |
| `server` | 3 connections: `TypeOK`, `WaitGroupCounts`, `NothingOpenAfterServe`, `OpenIsOwned`, `OneMoreAfterCancel`, `ShutdownCompletes` |
| `loader` | 3 edits, 1 client: `TypeOK`, `ServableInService`, `InServiceWhenQuiet`, `FailsClosed`, `ReloadConverges` |
| `build` | up to 3 user entries, 2 secret configs, 3 clients: `LastEntryDecides`, `FirstScopeServes`, `BadEntriesHaveNoEffect` |
| `wire` | 1712 scripts, with the right and a wrong secret, and some with proxies: `TypeOK`, `ReadsWhatWasWritten`, `RoundTrip`, `RightSecretAccepted`, `AnswerIsReadable`, `Canonical`, `StartOrContinue` |
| `stringy` | users with up to 2 entries and those of up to 2 groups, requests of up to 4 arguments: `TypeOK`, `FirstRuleDecides`, `UserBeforeGroups`, `PassAddIsMandatory`, `NoDuplicates`, `ScopeSelects` |

The runs named `doc_*` check what a comment or the README says and find that the
code does something else. `PROJECT.json` quotes the line for each; briefly:

- a session goes on after sequence number 255 (`doc_max_sequence`);
- a user without a hash makes the process panic (`doc_hash_optional`);
- parts of rejected files get into service (`doc_only_valid`);
- two requests of a user can leave a pattern that is neither the configured nor
  the trimmed one (`doc_trim_race`);
- the client never sends the password it is given for an ASCII login
  (`doc_client_password`).

Smaller divergences met while modelling. The models have the behaviour, except
for that of the JSON loader, and no run is spent on it:

- `sessions.go:119` and `:126` update `waitGroup.active` without synchronisation,
  so that it can lose updates; `sessions.go:108` calls it "a counter that can be
  used in Serve()". Serve only logs it (`server.go:69`).
- `loader.go:241` only logs what the prefix filters say and goes on to the
  providers; `prefix_filter.go:15` says "we will never speak to any clients that
  do not pass this check".
- `fsnotify.go:81` looks at writes only, so a file renamed into place is not
  reloaded; `README.md:53` speaks of detecting "changes in the config file".
- `authenticate_fields.go:356` says "Validate length of value" and looks at no
  length. Lengths and counts of one octet are truncated when they do not fit,
  which is why `RoundTrip` is stated for those that do.
- `authenticate.go` accepts an AuthenReply of 5 octets, one less than its head.
  `Canonical` leaves such bodies out.
- `crypt.go:111` wants a proxy's line before every packet, and what the line says
  is not used afterwards; `README.md:39` says that the proxy is not part of
  `main.go`, which has a flag for it.
- `provider.go` (prefix) keeps a provider none of whose prefixes parse. It
  matches nobody.
- `json.go:46` decodes into a struct that shares its slices with the copies sent
  before; `json.go:59` says "Config must return a threadsafe copy of the
  underlying config".
- `crypt.go:304` numbers the bad-secret reply 1; `header_fields.go:144` says
  servers only send even numbers.
- `handlers.go:46` copies the type of the request, so a login continued under
  another type gets an AuthenReply under that type; `header_fields.go:102`.
- `sessions.go:94` decrements `sessions_active` for unknown sessions and
  `sessions.go:102` drops a table without decrementing; `stats.go:79` calls it
  the number of active sessions. `GaugeFollowsTable` is stated for steps within an open
  connection, where neither happens.
- `server.go:78` says the listener's deadline limits the time of a response;
  nothing bounds a write.
- `yaml.go:54` looks at the retained struct, so a file without users loads;
  `yaml.go:55` says it cannot be served.
- `fsnotify.go:87` resets the ticker for other files, so they can put a reload
  off for ever; `fsnotify.go:83` says they are ignored.
- `stringy.go:51` appends the services of groups to those of the user, so both
  are sent; `types.go:45` (config) says that items of the user overwrite those of
  the groups. For commands they do (`UserBeforeGroups`).
- `authorize_fields.go:185` joins every cmd-arg; `command.go:42` says that
  `<cr>` is stripped.
- `session.go:83` adds the scope to the client's arguments, assuming that no
  client sends one. `ScopeSelects` is stated under that assumption.
- `fsnotify.go:60` adds the watch after the first load, so a change in between
  is not noticed.

### Bounds

- `MaxSeq` stands for 255. It is odd and the modulus is `MaxSeq + 1`, like 255
  and 256, so the wrap of the stored number happens in the model; 5 and 7 leave
  room for a whole login (1, 3, 5) and for numbers that are too small or skip.
- Two sessions are enough for one to be confused with another, and the table
  treats all others alike. The proofs have no such bound.
- `MaxConns` is 2 or 3: state that leaks from one connection into the next needs
  two, and the gauge is the only thing that survives.
- Three connections of `Server` let two handlers and Serve race on `active`
  while another connection is queued. `Word` stands for the 2^64 values of a uint.
- `Wire`: for every body type a message and its variations in one field, with
  values on both sides of every limit (an octet, 255 and 256 arguments or
  characters, texts at the limit of the body); all small bodies of two octet
  values; encodings cut short or prolonged; valid and invalid headers. The
  connection breaks with 0 to 40 unread octets left (`MCBreaks`). Exchanges of three
  packets let packets follow each other in the stream. A packet in the clear passes
  with a wrong secret; one of another type and session after it is turned away
  (`ClearFirst`).
- `Build`: up to three entries of two names, so that entries of one name replace
  each other once and twice; back ends that are absent, not registered or without
  a key, their own and those of up to two groups; one or two scopes. The two
  secret configs overlap, in either order, with a prefix that does not parse, no
  prefixes, a handler or a provider that is not registered.
- `SharedRules` has two requests and `ClientLogin` one connection with the real
  limit of 255: the disagreements they show need no more.
- Three edits are a rejected file, a good one after it and one more while the
  first two are on their way. The shapes of a file are: whole, without users,
  with empty users, with a section of the wrong type, with a syntax error, and
  truncated.
- For `Stringy`, three entries in a row are enough for one that does not apply,
  one that decides and one after it; entries with no, one and two conditions or
  patterns, with a pattern that does not compile before and after one that
  matches, and with white space to trim are all there.
- Deadlock is not checked for `Connection` (the process may be dead, or the
  client has used its last connection) nor `ClientLogin`, which extends it, for
  `Server` (Serve has returned) nor `Wire` (the script is over). It is checked for
  `Loader`, `Build`, `Stringy` and `SharedRules`.

### Fairness

- `Server`: the Go scheduler runs goroutines that can run. Accept and reads have
  deadlines (10 s and 15 s), so steps out of them are weakly fair. Writes have
  none: that they return assumes clients that read, or connections that break.
- `Loader`: both goroutines run, time passes, and a Go select chooses at random
  among ready cases. A write that was begun is finished. `Fire` is strongly
  fair: the ticker gets a full second between resets again and again.

## Proofs

All theorems hold for every value of the constants under the named assumptions
(`HandlersAssumption`, `ConnectionAssumption`, `ServerAssumption`,
`LoaderAssumption`, `StringyAssumption`, `BuildAssumption`, `WireAssumption`), which
TLC evaluates on the runs of the modules that state them. The last three say
little more than that configurations, requests, packets and lines have their types:
a user is localized to one scope, as `build` leaves it, no cmd-arg of a request is
empty, and the line of a proxy begins with "P" and ends with its only zero. How many
there are of each, how long they are, what matches, what covers and what the pad is
stay open.

`ConnectionProofs`, for any finite set of sessions, any users, credentials and
messages, and any odd `MaxSeq`:

- `TypeCorrect`, `TableAgrees`, `LoginSound`, `KeptAfterPrompt`, `LoginsEnd`:
  `TypeOK`, `TableHoldsClaim`, `PassIsProved`, `PromptIffLive` and
  `VerdictByThirdPacket` are invariants;
- `SequenceMonotone`, `GaugeExact`: the action properties `SequenceIncreases` and
  `GaugeFollowsTable`.

The argument: `PassIsProved` alone is not inductive, because a Pass is decided
from the user name in the table; nor is `VerdictByThirdPacket`, because it
depends on what the session waits for. The inductive invariant adds
`TableHoldsClaim` and `Rounds` (a session that waits for a name has handled one
packet). The lemmas about handlers (`GetUsernameSound`, `GetUserPasswordSound`,
...) say that each outcome is `Sound` for the name it was given: it only passes
with credentials for that name, only asks for a password with that name in its
closure, and continues exactly when it asks for something. `OutcomesSound`
collects them, `HandlePacketInv` uses them for the one action that runs a
handler, and `DropInv` covers all actions that only empty the table.

`LoginRefinement`, in the same module: `Connection` implements `LoginSession`.
`HandleIsDialogue` maps the handling of a packet to `AskUsername`,
`AskPassword`, `Grant` or `Refuse` by the outcome; everything that empties the
table is `Hangup`.

`ServerProofs`, for any finite set of connections and any counter `active` with more
values than there are connections:
`TypeOK`, `WaitGroupCounts`, `OpenIsOwned`, `NothingOpenAfterServe` and
`OneMoreAfterCancel` are invariants. `NothingOpenAfterServe` needs all of the
inductive invariant: Serve has waited for a WaitGroup that is exact
(`WaitGroupCounts`), so no handler runs; a connection is only open while its
owner has not closed it (`OpenIsOwned`); Serve owns none outside the steps from
Accept to go (`WorkingOn`); and closing the listener has emptied its queue
(`ClosedDown`). The cardinality of the running handlers changes by one in
`Spawn` and `DoneWaitGroup` only.

`LoaderProofs`, for any number of edits, any of the shapes of files and any clients:
`TypeOK`, `ServableInService`, `FailsClosed` and `InServiceWhenQuiet` are
invariants. The last one is strengthened to `NothingMissed`: when the file is good,
was written in place and no report is left to act upon, the newest configuration
(`Newest`: about to be sent, in the channel or in service) is that of the file.
`FromFile` and `Checked` say where configurations come from. `GoodFileLoads` is why a reload of a good file
cannot fail, whatever was retained.

`ListProofs`: facts about lists of any length. The induction theorems of the library
take an operator as a parameter, which the provers cannot instantiate. What they
can instantiate is a set: `LeastNat` (a set of numbers has a least one) gives
`Induction` (a set that holds 0, and with every number the next, holds them all), and a
proof by induction defines the set of the lengths for which its claim holds. That
is how `Keep`, `Sums` and `Join` are shown to be what their names say, and how the
places of the parts of a concatenation are found (`FlatPlaces`).

`StringyProofs`, for any user, groups, rules, patterns, scopes and requests: `TypeOK`,
`FirstRuleDecides`, `UserBeforeGroups`, `PassAddIsMandatory`, `NoDuplicates` and
`ScopeSelects` are invariants. The inductive invariant is short (the user is what
`ReduceAll` made, the reply is that of `Handle`); the work is in the lemmas that what a
loop computes is what the property says of the whole configuration, such as that
the last element of what is kept is the last one that qualifies.

`BuildProofs`, for any configuration: `LastEntryDecides`, `FirstScopeServes` and
`BadEntriesHaveNoEffect` are invariants. The users of a scope after i entries are given by
the last usable one of each name among them, by induction on i; that an entry
which cannot be built changes nothing makes the users of a configuration and of the
cleaned one the same.

`CodecProofs`, for every body type and texts and arguments of any length and number:

- `DecodesToItself`: a valid message whose one-octet lengths fit decodes to itself,
  and its lengths add up, so that it does not look like a wrong secret;
- `EncodesToItself`: what a body decodes to is encoded to the octets it was decoded
  from, up to octets after the last text;
- `StartIsNoContinue`: no body shorter than 517 octets decodes both as an AuthenStart
  and as an AuthenContinue.

The argument follows the layout: where each item of the head lies (`Laid`, `Items`),
that an item is read back as it was written (`ReadBack`), then the lengths
(`LengthsBack`), then the texts and arguments at the sums of the lengths before them.

`WireProofs`, for any script of packets, any secrets and pad, any line of a proxy and a
stream that breaks anywhere: `TypeOK`, `ReadsWhatWasWritten`, `RoundTrip`,
`RightSecretAccepted`, `AnswerIsReadable`, `Canonical` and `StartOrContinue` are
invariants. The inductive invariant is `Typed` and `InStep`. `ReadsWhatWasWritten` alone is not
inductive, since it says nothing of the octets that are still to be read. `InStep`
adds that the stream is the concatenation of the packets not yet read, each after the
line the proxy puts before it, or a beginning of that once it is broken. The step
that matters is `ReadPacket`, and in it that read finds the next packet where it is
(`PlaceOfNext`):

- a line that the reader expects ends with its first zero, so it is skipped
  (`LineSkipped`);
- a line that it does not expect begins with "P", whose high half is no version
  (`NoLineIsHeader`);
- where the reader expects a line and there is none, it looks for one in a packet.
  A packet has a zero in its ninth octet at the latest, because a length is at most
  65,536. A signature in so few octets leaves no room for five spaces
  (`NoLineInPacket`).

The packet found there is decoded with the pad it was encoded with, because the pad
depends on the header alone and not on its flags (`CryptTwice`, `FirstReplyKeeps`).
`RoundTrip` and `RightSecretAccepted` then follow from `DecodesToItself`, and the latter from
`LineIsAccepted`. `InStep` holds whatever the two secrets are, since headers are not
obfuscated. So when the reader turns a packet away, it is the one after those it has
returned, and `AnswerIsReadable` can say that the answer has the type and session of
that packet. `Answered` adds this to the inductive invariant, together with the fact that the
answer decodes like any other packet (`PacketBack`). What is said of bodies, in `RoundTrip` and
`ReadsWhatWasWritten`, is stated for one secret, and all that relates the two ends for
streams that only `write` has written to, as it has to be.

Only model-checked: `ShutdownCompletes` and `ReloadConverges`, because liveness under
fairness is out of the prover's reach. `SharedRules` and `ClientLogin` only have runs that
end in a counterexample.

## Not modelled

- MD5: the pad is any operator of the secret, the session, the version, the
  sequence number and the position. No property is about its strength.
- The syntax of regular expressions and of network prefixes, and the comparison
  of bcrypt: constants say what matches, what covers and which credentials hold.
- The prefix allow list is logged like the deny list and has no effect either.
- The attribute types of `authorize_fields.go` and `accounting_fields.go` that no
  packet carries, and the `String` and `Fields` methods: wording only.
- `Read` of the proxy header, which the server does not call.
- The JSON loader: the control of the YAML loader with another decoder, and not
  used by `cmds/server`.
- The DNS secret provider and the span handler: not registered by `cmds/server`.
- The response logger, the other metrics, the exporter and all logging: output
  whose errors are ignored.
- `main` beyond what it injects: flags and the start of the exporter.

## What could be added

1. `Loader` and `Build` in one model, so that queries see the providers of the
   configuration that is in service, entry by entry.
2. The JSON loader with its shared arrays, at the granularity of `SharedRules`.
3. A refinement between `Connection`, which takes a packet as a whole, and `Wire`, which
   reads it octet by octet. The theorems of `WireProofs` are what it would rest on.
