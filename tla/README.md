# TLA+ models of boxd / boxui

boxd is a daemon that embeds the sing-box proxy kernel: it keeps the kernel's
configuration file, starts and stops the kernel, imports nodes and
subscriptions into the file, and serves an HTTP API with live streams to a
browser UI (`ui/`). This directory holds TLA+ models of the parts where requests,
goroutines, failures and crashes meet, the TLC configurations that check them on
small instances, and TLAPS proofs for instances of any size.

    tlc -workers 2 -config MCControlPlane.cfg MCControlPlane   # one run
    tlapm ControlPlaneProofs.tla                               # one module of proofs

`PROJECT.json` lists the runs, the source lines of every definition, the hazards
the properties are aimed at, and for every property a mutant of the model (a
plausible bug in the code) that violates it.

## 1. The system

All requests of the API run in goroutines of their own (`net/http`). There are
three kinds of shared state: the configuration file (replaced atomically by
rename), the bbolt database (transactions), and the kernel object `SBInstance`
(a mutex). **No lock covers a whole request**: a request is a sequence of atomic
pieces on these three, and everything hard in this program comes from that.

| component | state | operations | what is hard | correct when |
|---|---|---|---|---|
| kernel instance `core/sbinstance*.go` | `mu`, `running`, `box` | Start, Stop, Restart, DialOutbound, queries | Restart is Stop and Start with the mutex free in between; Close may fail; box read after the unlock | at most one kernel, reachable through `box`; no stale boot |
| configuration save `api/config_handler.go`, `config_defaults_handler.go` | the file, the request's copies | UpdateConfig, UpdateRawConfig, InstallDefault* | rollback with a copy read long ago; failed restart of the rollback; crash between write and rollback | kernel and file agree; answers tell the truth |
| service control `api/service_handler.go` | none | start, stop, restart | meets restarts of saves | a restart does not end in a blackout |
| outbound sync `api/nodes_sync*.go` | the file; setting `urltest_managed_groups` | syncOutboundsToConfig | five reads and two writes without a lock; undo of a partial failure; ownership decided by type and name | selector closed, user's part kept, fixed point, stale groups removed |
| subscriptions `core/subscription*.go`, `api/subscription_handler.go` | bucket `subscriptions`, its sequence | create, edit, delete, refresh (30 s download), refresh all | edits and deletions during a download | no resurrection, no lost edit |
| nodes and import `core/nodes.go`, `importer*.go`, `api/nodes_handler.go`, `import_handler.go` | buckets `imported_nodes`, `test_results` | parse, save, rename (delete + add), delete | rename in two transactions | key and tag agree |
| settings `core/settings.go`, `urltest_settings.go` | bucket `settings` | get, set, URL-test defaults and their resolution | read by syncs in flight | overrides win over defaults |
| rule sets `core/ruleset_update.go`, `ruleset_auto_update.go` | cache file with ETags, timer | update (stop, download, start), automatic update | kernel down during the download; stale ETag; timer of old settings | kernel comes back; content and ETag belong together |
| log stream `core/logwriter.go`, `api/stats_handler.go`, `ui/src/lib/api/sse.ts`, `use-stream-buffer.ts` | ring of entries, subscriber channels, hook state | WriteMessage, Subscribe, Unsubscribe, streamLogs, connect, pause, clear | sends after the unlock; slow, paused and vanished viewers | order, no duplicate, no blocking, no leak, no panic |
| latency tests `api/test_handler.go` | stored results, semaphore | single test, RunBatch | kernel stopped under a test | isolation, every item answered |
| traffic `core/traffic.go`, `api/traffic_history.go` | connection table, ring of points | track, close, snapshot | close against registration; wraparound | no leak, newest points in order |
| backup, restore `core/backup.go`, `restore.go` | two files and their backups | create, restore | crash or failure between the two replacements | both old or both new |
| route-rule metadata `core/route_rule_metadata.go` | names by fingerprint and position | list, save, name the defaults | rules that move, repeat or change | a name follows its rule |
| credentials `core/credential.go`, `secret.go`, `api/auth*.go` | password hash, signing secret, login limiter | login, change, rotate, check a token, rate limit | verify and sign are separate reads; check and count are separate critical sections; the limiter dies with the process | no token of an earlier password accepted; guesses bounded |
| UI session `ui/src/lib/api/client.ts`, `lib/session.ts`, `features/auth`, `default-password-gate.tsx` | sessionStorage, AuthProvider, cached gate, requests | login, logout, any 401, polling with retry, guards of the routes | answers to requests of an earlier session; expiry; gate cached across sessions | a session appears by a login only, ends for a reason only, and a dead one leaves |
| UI configuration pages `features/policy`, `proxy`, `advanced`, `config` | query cache, draft, names, dialog, requests in flight | edit, copy, move, delete, save a list or the globals, install defaults, JSON tab | refetches, rollbacks, late answers and other writers behind a draft or a dialog; names saved by a second request | drafts leak into no other save; a dialog saves the entry it shows; names stay with their rules |
| UI entry forms `*-form-model.ts`, `*-form-fields.tsx` | one entry as JSON | edit a field, change type, action or transport, JSON, save | ten tables of conditional fields; pruning; what a type change keeps | nothing hidden stays, nothing shared is lost, no secret moves, what is entered stays |
| wiring and data `router.go`, `middleware.go`, `config.go`, `model/`, defaults tables, UI presentation, scripts | - | - | - | not modelled: no behaviour of their own |

Interactions: the API handlers call the managers (database), the file and
`SBInstance`; saves and rule-set updates restart the kernel, syncs do not (the
user restarts when ready); the kernel calls the log writer and the traffic
tracker; the UI polls or streams.

## 2. Modules

    SBInstance --EXTENDS--> ControlPlane --EXTENDS--> MCControlPlane, ControlPlaneProofs
                                 \--INSTANCE--> FreshKernel          (abstract specification)
    SyncOutbounds --EXTENDS--> Catalog --EXTENDS--> MCCatalog
           \--EXTENDS--> ListProofs     \--EXTENDS--> SyncProofs --EXTENDS--> CatalogProofs
                              (SyncProofs also EXTENDS ListProofs)
    LogStream --EXTENDS--> MCLogStream, LogStreamProofs
    Credentials --EXTENDS--> Session --EXTENDS--> MCSession, SessionProofs
    RuleNames, EditDialog --EXTENDS--> ConfigPages --EXTENDS--> MCConfigPages, PagesProofs
    FormModel --EXTENDS--> PolicyForms, ProxyForms, AdvancedForms
        --EXTENDS--> EntryForms --EXTENDS--> MCEntryForms, FormsProofs

### SBInstance, ControlPlane, FreshKernel: the kernel and its file

`SBInstance` has the mutex, `running`, `box`, a count `live` of kernels that are
started and not closed, and the file. Start and Stop are two steps each although
they hold the mutex throughout, because the file is replaced and `box` is read
(DialOutbound) without it. A configuration is an opaque value; what the code can
tell about it is whether it is JSON, whether the options parser accepts it, and
whether a kernel boots from it. Two ghosts number the writes of the file
(`disk.ver`, `floor`), so that "older" has a meaning.

`ControlPlane` has the requests: a goroutine is at a label (`pc`) with its local
variables; `Submit` is the arrival of any request, the other actions are the
pieces between two accesses of shared state. `CallStop`/`FinishStop` and
`CallStart`/`FinishStart` are shared by all callers; `AfterStop` and `AfterStart`
are what each caller (`job`) does with the result. `Boot` and `Crash` are the
process; `DialPanic` is the nil dereference of DialOutbound, which ends it.

`FreshKernel` is the promise: saves are numbered; the kernel is off or runs one
save; it never changes from one save to another without being off; it is never
booted from a save that had been replaced before the last stop. The refinement
maps the file's write count to `newest`, the kernel to `box.ver` or `Off`.

### SyncOutbounds, Catalog: nodes, subscriptions and the generated outbounds

`SyncOutbounds` is the pure function from what a sync has read to what it writes:
which outbounds of the file are kept, how managed ones are rebuilt on top of
what the user added, the group of each subscription, the proxy selector,
`route.final`. Types of node stand for their classes (managed; proxy-like but
not managed; neither). `Catalog` has the database and the file, the requests of
one transaction as one action each, and the requests of several pieces (save a
node, rename, refresh, refresh all, sync) as goroutines that interleave between
them. Writes can fail, the process can die. What a URL serves is a constant, and
an answer may also be a page that is no feed, which the code parses as empty.
Saving a whole configuration, `ControlPlane`'s subject, appears as a user who adds
an outbound of any type or a field to any outbound, `proxy` and `direct` included.
UserPartKept says how much of that a sync leaves (section 3, Observations).

### LogStream: the kernel's log on its way to the browser

Writers append to the buffer and copy the list of channels under the mutex, and
send after it is released, without blocking. A handler sends the buffer, then
subscribes, then forwards until its client is gone and closes its channel. The
UI hook connects, reads, loses the connection, pauses, resumes and clears. A send
on a channel that was closed since the copy panics.

### Credentials, Session: a browser tab against the daemon's login

`Credentials` is the daemon's side: password, signing secret, the token check and
the limiter of one address. A password or a generated secret is the number of
the change that set it; `Own` is a secret the user types and may type again. A
token carries, as history, the password its login was verified with and whether
the password was replaced before the token was signed (`crossed`). `Session` is
the tab: sessionStorage (`stored`), the provider's state (`page`), the page shown,
the cached default-password answer (`gate`) and one request of each kind, which
goes from "sent" through the handler's pieces to an answer that arrives at any
later time, or is lost. Another client behind the same address tries to log in,
another session of the administrator rotates, the daemon restarts, the tab
reloads. The streams, which carry the same token, are LogStream's.

### ConfigPages with EditDialog and RuleNames: drafts, cache and file

A page holds three copies of its section of the configuration: the daemon's
file, the query cache, and the editor's draft; the route page also the names of
the rules, as listed and as edited. `Refresh` and `Remount` are the refetch and
the editor that is keyed by the section's JSON; a refetch works at once, or fails
first, and then the alert in the editor's place has cost the draft but not the
names. `Reopen` leaves the page and shows the cache again. `Send`, `Serve`, `Answer`,
`ServeNames`, `AnswerNames`, `AnswerInstall` are a save, the daemon, and the
callbacks, with React Query's rule that the callbacks given to `mutate()` run
for the latest call only. `EditDialog` is the validity of a dialog's fields
(`useFieldValidity`), `RuleNames` the daemon's matching of names to rules. A rule
carries the name the user gave it, as history, so that a name on the wrong rule
is visible. Rules with the same JSON are told apart by the names beside them and by
nothing else, so the rules on the screen (`Seen`) are the cache's when both their
JSON and the names shown agree, and operations on lists work on these (`Editor`).
The ghost `stray` is set in the cases in which the code itself parts names from
rules; all of them are listed at NamesFollow and in section 3, Observations, and
NamesFollow speaks of the rest.

### FormModel, PolicyForms, ProxyForms, AdvancedForms, EntryForms: one entry

`FormModel` is the engine of the forms: an object is a function from the paths
of its leaves to classes of values, a field has a path, a kind and conditions,
pruning removes hidden fields until nothing changes. `PolicyForms`, `ProxyForms`
and `AdvancedForms` are the tables and the type, action and transport changes;
`EntryForms` is a dialog in which they are applied in any order to entries that
came from the file or the JSON tab.

## 3. Runs

| run | bounds | result |
|---|---|---|
| `control_plane` (MCControlPlane.cfg) | 2 goroutines, all 8 kinds of request, 4 configurations, 1 fault, 1 crash | TypeOK, OneKernel, refinement of FreshKernel, EveryRequestEnds hold |
| `three_writers` (MCThreeWriters.cfg) | 3 goroutines saving, syncing, restarting | AnsweredSaveIsRunning, NoDrift, NoBlackout hold |
| `rollback_race` (MCRollbackRace.cfg) | 2 saves | AnsweredSaveSurvives is violated |
| `dial_race` (MCDialRace.cfg) | a test and a stop or restart | DialNeverPanics is violated |
| `log_stream` (MCLogStream.cfg) | 2 writers (2 + 1 entries), buffer 2, channel 1, screen 1, 2 connections | TypeOK, StreamInOrder, BufferIsNewest, WritersNeverBlock, HandlersLeave hold |
| `send_closed` (MCSendClosed.cfg) | the same | NoSendOnClosed is violated |
| `catalog` (MCCatalog.cfg) | 2 goroutines, 3 requests, 2 subscriptions, 2 nodes, 1 fault, 1 crash | TypeOK, ProxyResolves, UserPartKept, SyncIdempotent, DeletedStaysDeleted, RefreshKeepsEdits hold |
| `stale_group` (MCStaleGroup.cfg) | the same, no faults | StaleGroupsAreFound is violated |
| `session` (MCSession.cfg) | 2 failures to a lock, lock and token of 1 tick, 1 tick, 1 change of the credentials, 1 request beside the poll | TypeOK, PasswordChangeTakes, GuessBound, SessionLife, DeadSessionLeaves hold |
| `pages` (MCConfigPages.cfg) | 6 pages, lists of at most 3, 2 requests in flight, 2 list operations, 1 other, 1 fault | TypeOK, NamesFollow, SeparateSaves, DialogItem, DraftGates hold |
| `forms` (MCEntryForms.cfg) | 11 forms, all fields of their tables, entries with any one field and its conditions | TypeOK, SavedReady, EditPrunes, EditSticks, CleanKept, SharedKept, SecretsDropped hold |
| `endpoint_timeout` (MCEndpointTimeout.cfg) | the endpoint form | EndpointEditSticks is violated |

Why the bounds are enough for the cases that matter. Every goroutine serves one
request in ControlPlane, so three goroutines are three saves in flight, enough
for one that starts, one that ends and one that rolls back between; four
configurations are two that boot, one that parses and does not boot, one that is
no JSON. Catalog starts from a fresh installation and from a used one (a
subscription, refreshed and synced), so three requests are enough to meet a
rename, a deletion or an edit inside a refresh or a sync. The limits of LogStream
are as small as they go, so that every buffer is full within the run: with three
entries the buffer of two overflows and the channel of one drops.

In Session, one change of the credentials (`MaxChanges`) and one tick (`MaxTime`)
are one rotation and one expiry, each of which can meet every piece of a login
and every request; the poll, whose retry carries a request of an earlier session
over, is not counted in `MaxBusy`. A limit of two failures with an attempt of the
tab and one of another client is the case in which two attempts pass `allow`
together. In ConfigPages `MaxLists`, `MaxOthers` and `MaxFaults` bound the user's
operations on lists, all other operations and foreign writes, and the requests
that do not end well; `MaxRequests` 2 is a save that overtakes another one.
`MaxBusy` 0 leaves out typing while a request is in flight: an input touches the
dialog's record only, and an answer that meets a dialog is still explored. The
forms are explored from entries with one field (`Entries`) and edited where
`Room` allows it: a field next to the fields that its conditions speak of, since
the code relates fields by nothing else. `TypeBound` lets the many types of
inbounds and outbounds change to representatives of their classes.

Fairness. In ControlPlane every goroutine that can move is weakly fair: the Go
scheduler runs it, and `sync.Mutex` hands itself over in starvation mode. Arrival
of requests, crashes and the boot are not fair. In LogStream the writers' loop and
the handlers of vanished clients are weakly fair; a handler that writes to a
client that does not read may wait for ever, so no fairness is assumed of it, and
WritersNeverBlock does not need it. In Session the poll is fair while the
dashboard is shown (its query refetches every 5 s), its retry and its answers
are weakly fair, and the daemon's refusal and an answer that is not lost are
strongly fair: neither the daemon's restarts nor the network fail every poll for
ever. Without this, a page whose requests never arrive keeps a dead session,
which is what the code does. Catalog, ConfigPages and EntryForms have safety and
action properties only.

### Findings

1. **rollback_race**: `applyConfigBytes` reads the previous body, and writes it
   back when its own restart fails; a save that was written in between and
   restarts from the restored file is answered `ok` although its body is neither
   on disk nor running.
2. **dial_race**: `DialOutbound` reads `s.box` again after it has released the
   mutex; a Stop in between makes it nil, and the panic is in a goroutine of
   `http.Transport` that nothing recovers.
3. **send_closed**: `WriteMessage` sends to channels copied before; an
   `Unsubscribe` in between has closed one of them.
4. **stale_group**: two overlapping syncs around a rename leave the old
   subscription's group in the file and out of the remembered groups; later syncs
   take it for the user's own and never remove it.

5. **endpoint_timeout**: `endpointFields` lists `udp_timeout` once for WireGuard
   and once for Tailscale with conditions that exclude each other, so pruning
   always finds it hidden and removes what has just been entered.

### Observations

What the models show the code to do against what one would expect; the properties
leave exactly these cases out. Where a document of the repository promises
otherwise, it is quoted.

Sync:

- `proxy` and `direct` are built from empty maps (`nodes_sync.go:99`, `:267`), so
  fields the user has added to them are lost with the next sync, while those on
  nodes, subscription outbounds and groups stay.
- An outbound written by hand whose type the sync manages, or `direct` or `dns`, is
  deleted whatever its tag (`nodes_sync.go:110-122`); a selector of the user's that
  names it then leads nowhere. Only those of other types are the user's.
- The data of a node are merged key by key (`nodes_sync.go:141-160`): a key that
  the source no longer has stays in the file. In the model the data are one value.

Session and login:

- A wrong current password in the change of the password is answered 401, and
  the client ends the session (`settings_handler.go:61`, `client.ts:76`).
- Any 401, and a late answer to a logout or a rotation, ends whatever session
  is current, also one begun since (`Excused`).
- A login that is verified before a change of the password and signed after it
  gets a valid token (`crossed`); a secret that is typed again revives its tokens.
- The cached default-password answer outlives the session: it can hold a user on
  the settings page for up to its `staleTime`, never the other way round (GateHolds).
- A success lifts a lock that other attempts have set; a restart forgets all.

Configuration pages:

- A save sends the whole configuration from the cache: a foreign write since is
  lost, and overlapping saves can arrive in either order.
- Names come off their rules, with nothing left in flight, in these cases. `stray`
  marks them, and none of them loses a rule:
  - After any saved list (a delete, a move, an edit, a copy) the cached names are
    still the old ones, since `persistRules` writes the names and never refreshes the
    query `route-rule-metadata` (`policy-page.tsx:258-267`). Leaving the page and
    returning before the query is stale (10 s, `providers.tsx:11`) shows the old names
    beside the new rules, and an edit then saves them so (`Reopen`).
  - A refetch of the configuration that fails puts an alert in the editor's place
    (`policy-page.tsx:219-226`): the draft goes, the names edited with it stay in the
    page around it (`route-page.tsx:16`) and stand beside the file's rules (`Refresh`).
    It takes rules in the draft that are not in the file: a save in flight or rolled back.
  - The names cannot be read after an install: the draft is dropped all the same and
    the old names stay (`route-page.tsx:25-28`).
  - The page is left before an answer: its callbacks, and with them the names
    request, are lost. A names request or an answer is lost on its way.
  - A reorder is rolled back or fails and the globals are saved next. An install,
    an operation on a rule set or a save of the globals meets a save of rules in
    flight; a save of the globals meets an install in flight; an install fails in
    its second request.
  - The last rule is deleted: an empty list of names is not sent (`policy-page.tsx:262`).
  - The rules change from elsewhere, or as JSON, under edited names.
- The inbounds and outbounds page keeps its dialog across a refetch and then saves
  over another entry, or past the end (`Hole`).
- The Save button of the endpoint dialog asks only whether the object is ready, not
  whether a field shows an error, and the Save of a page's globals is not gated by
  invalid fields either (`route-global-card.tsx:87`, `dns-global-card.tsx:44`),
  although saving is to be refused while a structured field is invalid
  (`policy-form-editor-design.md:229`, "结构化 JSON 字段无效时禁止保存"; `:271`). DraftGates
  is about the dialogs of rules, servers, rule sets, inbounds and outbounds.
- A refetch that replaces the raw editor forgets that its save is pending, so the
  button is free earlier than in the model.

Forms:

- A change of the type drops, of what the old and the new type share, a few fields
  (`DroppedAnyway`), against `policy-form-editor-design.md:247-248` ("未知顶层和嵌套字段
  始终保留": unknown fields always stay; "类型切换只清理旧类型已知且与目标类型不兼容的字段":
  only known fields incompatible with the target are cleaned):
  - The `format` of a rule set that is or becomes inline, a common field of all types
    by `:125`, which the form still shows; the repository's test wants it gone
    (`route-form-model.test.ts:178`).
  - The `detour` of a DNS server between the legacy and a typed form; here too the test
    wants it so (`dns-form-model.test.ts:106`).
  - `network_type`, a match field of a route rule and a field of its direct action: a
    change of the action keeps it (`route-form-model.test.ts:154`), a change of the
    type drops it from a direct rule.
- A change of an endpoint's type starts a new draft from the tag: keys the form does
  not know and all dialer fields, which both types have, are gone
  (`endpoints-form-model.ts:140-145`). The design quoted above is the route and DNS
  forms'; no document speaks of the endpoints'.
- An endpoint of no known type counts as ready, and its Save prunes its address and key.

## 4. Proofs

Every theorem is about all values of the constants that meet the assumptions its
model names: any number of goroutines, writers, connections, entries, faults and
crashes, any limits. What TLC found on a small instance came first: each
inductive invariant below was checked as an invariant of its component's run
before it was proved. A proof has one lemma per action and, where an action
disturbs several conjuncts, one step per conjunct; a component's last theorem
combines them by temporal logic.

**ControlPlaneProofs**, from `ConfigAssumption` (bootable configurations parse and
`Absent` is none), `ProcAssumption`, `BoxAssumption` (the null values are none of
the others), `FaultAssumption` and `RequestAssumption` (types):

- `TypeCorrect`: `Spec => []TypeOK`.
- `Inductive`: `Spec => []IInv`. OneKernel alone is not inductive: a Start that
  has read the file would boot a second kernel if someone else could have started
  one meanwhile, so `MutexInv` (the mutex is held exactly inside the two critical
  sections), `SectionInv` (Stop closes a running kernel, Start boots when none
  runs) and `DownInv` (a dead process has nothing) are needed. AnsweredSaveIsRunning
  needs `SavedInv` (a save past its own Stop is no newer than that stop),
  `FreshInv` (what runs or is about to be booted is at least as new as the last
  stop) and `FlowInv` (answers come last). NoDrift needs itself for the kernel
  that is about to be booted, `BootDrift`.
- `KernelUnique`, `DriftBounded`, `SaveTakesEffect`: OneKernel, NoDrift and
  AnsweredSaveIsRunning from `Inductive`.
- `Revival`: `Spec => []RInv`, and from it `KernelComesBack`: NoBlackout. NoBlackout
  speaks of the moment at which all requests have ended. Before that the kernel
  may be down; `RevivalInv` says that then some request is still on the path from a
  Stop to a boot that nothing has made fail (`Reviving`), and `StopInv` that a
  stop on demand is never on that path.
- `Refinement`: `Spec => RefinesFreshKernel`; every step is a Save, a Halt, a
  Launch or a stutter under the mapping, using `IInv` before and after it.

**LogStreamProofs**, from `BoundAssumption`: `LogTyped`, `BufferNewest` (BufferIsNewest) and
`StreamOrdered` (StreamInOrder). The buffer is in order only because an entry is
newer than all its writer has written before; StreamInOrder is inductive
only with the whole way of an entry: what the connection has been sent, what
waits in its channel, and what its writer is still to send to it after the unlock
(`Stream`). The first comes before the second, neither has the third, and before the
handler has subscribed the last two are empty: that is what makes sending the
buffer first and subscribing then free of duplicates.

**SessionProofs**, from `CredentialsAssumption`:

- `SessionTyped`; `PasswordsTake` (PasswordChangeTakes). A token lives in the
  storage, in the page, in the answer of a login and in requests sent under it,
  so `TokenInv` says of all four that a token whose secret is the daemon's was
  issued for its present password, or crossed the change; `GateInv` the same of the
  answer that opens the gate.
- `GuessesBounded` (GuessBound): once the limiter is locked, the attempts it had
  let through before are the only ones that can still be wrong, so `CountInv`
  counts `wrong + Attempts`.
- `SessionsLive` (the action property SessionLife) needs to know what a request
  and the session it was sent under have to do with each other when the answer
  comes, at any later time (`UnderInv`), and that storage and page differ only when
  the session has expired (`PageInv`).

**PagesProofs**, from `PagesAssumption`, `SectionAssumption` (the files to start from
have no holes and no more entries than a list may get) and `NullAssumption` (`NULL`
is neither a section nor a list of names):

- `PagesTyped`; `GlobalsSeparate` (SeparateSaves): the globals of the file, the
  cache and the body of every request are submitted ones, on every page but the
  endpoints (`SectionsInv`, `RequestsInv`); the draft's are not, and no list save
  uses them.
- `DialogsKeepItem` (DialogItem): the entry under an open dialog is the one it was
  opened on (`Open`), because whatever replaces the draft closes the dialog or has
  the same JSON.
- `ErrorsBlockSave` (DraftGates), from the validity a dialog keeps.
- `NamesStay` (NamesFollow). The property speaks of the moments with nothing in
  flight; in between the file, the cache, the draft, the stored names and those on
  the screen may all differ. `FollowInv` says that outside `stray` the route page is in
  one of three situations. `Level`: everything has the same rules, and the names are
  theirs. `Moved`: saves of other rules are on their way, each with the names of its
  own rules; as long as the stored names are not those of the file's rules, some
  request will still write them (`Repaired`), and the names on the screen are those
  of the last request until that one is answered (`Screen`). `Installing`: the defaults
  are being installed, and nothing else is in flight. In the first two, saves reach
  the daemon in their order (`Ordered`), and a cache that is behind the file waits
  for an answer (`Current`). Before it was proved it was checked with three requests
  in flight, which is what it took to see that the model of the screen was too coarse
  (section 2, `Seen`). `ListReads` is the lemma about the daemon: a list of names
  that was saved for rules is read back name for name, also among equal rules, for
  which it counts the occurrences before each position (`TimesGrow`).

**ListProofs, SyncProofs, CatalogProofs**, from `CatalogAssumption`,
`UserAssumption`, `FileAssumption` (the files to start from are orderly and what
their proxy selector leads to is in them) and `LiteralAssumption` (the strings
the code writes are strings, which tlapm does not know of a literal):

- `ListProofs` has the induction. The library's induction theorems take an
  operator and cannot be used, so `SetInduction` and `SeqInduction` state it for
  sets of numbers and of sequences, from the least element of a set of numbers.
  On it rest the lemmas about `Only` (the elements of a list that are in a set, in
  the order of the list; the code's filters are written with it instead of
  SelectSeq, which takes an operator), flattening and the first match of a tag.
- `SyncResolves`: from an orderly file, nodes and subscriptions, the file that a
  sync computes resolves. `SyncTwice`: when all nodes are of managed types, a
  second sync of its own output changes nothing. Both are statements about the
  pure function; no variable is in them.
- `CatalogCorrect`: `Spec => []IInv`. A sync writes what it has computed from things
  read up to five steps earlier, and an undo writes back the file it had read, so
  that the file is sound (`Sound`) only if all that the goroutines have in their
  hands is (`HandsInv`); that needs the subscriptions (`SubsInv`) and the bucket
  (`BucketInv`). `BucketCorrect` proves the bucket's part by itself: lemma
  `BucketSteps` reduces the 26 actions to the six things a step can do to it.
- `CatalogTyped`, `ProxyReachable` (ProxyResolves), `UserPartSafe` (UserPartKept),
  `SyncSettles` (SyncIdempotent): the run's invariants, from `CatalogCorrect` and the
  theorems about the function.
- `NoResurrection` (DeletedStaysDeleted) needs the bucket's invariant because a
  create takes the id `seq + 1`; `EditsSurviveRefresh` (RefreshKeepsEdits) needs the
  form of the records.

UserPartKept is a statement about types, as the code is: of what was written by hand
it says what stays and what goes. It claims nothing of fields on `proxy` and `direct`,
which do not stay.

One precondition of the catalog's modules is the user's to keep, not the
code's: the tags of nodes (`Source`) and of the user's own outbounds
(`UserAssumption`) are not names of subscriptions nor `proxy` (the user's nor
`direct`), and node tags are not the user's; of the types of the user's outbounds
nothing is assumed. The code does not refuse such a tag: a group written by hand
under a subscription's name is taken over as that subscription's. sing-box refuses
to start on two outbounds that share a tag. Within these, names of subscriptions may clash with
each other, and tags of nodes with each other.

**FormsProofs**, from `EntriesAssumption` (a form is opened with a finite object, no
leaf of which lies under another; a proxy's type and transport are ones that the
tables are kept for, or absent, or another one):

- `PruneSettles` and `PruneTwice` are about the pruning loop alone, for any object
  and any table of fields and conditions: it ends with nothing hidden, it removes
  leaves and changes none, and pruning again changes nothing. The loop is a
  function on sets of leaves that recurs on a smaller set; `PruneFcnExists`
  builds that function from its restrictions to sets of up to n leaves.
- `EntryTyped` (TypeOK), with FormInv, which adds to it that a proxy's type and
  transport stay ones of the tables. The table lemmas walk through all ten tables
  once: every field has a path of at least one key, and in a proxy's tables only
  the transport selection is at `transport.type` and none at `type`, so that an edit
  of a field changes neither.
- `SavedStaysReady` (SavedReady): `PruneKeeps` says of any set of leaves that no
  hidden field can reach that pruning keeps it; what makes an endpoint or a rule
  ready is such a set.
- `NoSecretInherited` (the action property SecretsDropped): only a change of the type
  changes the type (`TypeKept`), and that one removes the secrets (`SecretsGone`).
- `EntryStaysClean` (the action property CleanKept), of every object the forms can
  hold and not only of those with one field. What an entry may hold is decided by
  its `Choice`: the keys for type and action, or for type and transport. An edit that
  leaves the choice and adds only what the entry may hold keeps it clean (`CleanStays`);
  for that the fields of the tables and the choice are `Apart`, or always shown. A
  change of the choice is proved form by form: everything known that stays belongs
  to the new choice (`Turned` for the rules and the DNS forms, `OutboundOwned` and
  `InboundOwned` for the proxies). Three facts about the tables carry it and would
  break with a careless edit of them: the cleanup registry of the DNS forms names
  every path of their tables (`ServerRegistry`, `ActionRegistry`, `RuleRegistry`), the
  groups `tls`, `transport` and `multiplex` hold all of their fields and no others
  (`GroupsUnder`), and a tunnel has no field that the table or a group of
  another inbound has, and `udp_timeout` with the listen fields (`TunApart`, `TunOnly`).

Only model-checked:

- Liveness (EveryRequestEnds, WritersNeverBlock, HandlersLeave,
  DeadSessionLeaves): fairness and ENABLED are out of the prover's reach.
- EditPrunes, EditSticks and SharedKept: what an edit takes with it
  depends on the contents of the tables, field by field, and on the entry. The run
  meets every field with its conditions. Of an arbitrary object EditPrunes is not
  true: setting a field replaces whatever object an entry from the JSON tab may
  have in its place. Its first part is PruneSettles.

## 5. Not modelled

Share-link and feed formats (string processing), HTTP wiring and middleware but for
authentication, the tables of defaults (their merge is an arbitrary function in
ControlPlane and one default entry in ConfigPages), queries that only read, the
kernel's own selection of outbounds, UI presentation, packaging, and the pages of
subscriptions, nodes, connections and preferences, whose buttons are single
requests. In the sync, entries of the array that are not objects. Reads of the
database in a sync fail like its first read: nothing has been written by then.
In the forms, the text of a value beyond its class, nested rules and peers, and
entries whose `type` is a boolean or a list or whose `action` is empty. In LogStream
an answer that is not ok or a 401. In RuleNames the trimming of a name and the refusal
of one that is too long. In ConfigPages, names are listed when a page opens, and one
page is open at a time (another tab is a foreign write).

Real hazards without a property are in `PROJECT.json` with the reason: some
are what the code does (a configuration saved
during a sync is overwritten, nodes of types outside `managedNodeTypes` are
appended again by every sync), the others belong to the modules planned next.

## 6. Plan

Models, in the order in which they were written: ControlPlane and SBInstance with
FreshKernel; LogStream; SyncOutbounds and Catalog; the entry forms; the
configuration pages with the rules' names; the session and the login.

Then the proofs: the rest of ControlPlane (NoBlackout), LogStream, Session,
ConfigPages, the sync and the catalog, the forms.

Next theorems:

1. **EditSticks** and **SharedKept** in FormsProofs, table by table.

Modules not written yet:

1. **RuleSets**: update and automatic update against the cache file (ETag read,
   cache closed, content saved), the timer and its settings.
2. **Restore**: replacement of two files with rollback, failures and crashes between.
3. **Traffic** and history: connection table against CloseAll, ring of points.
4. **Tests**: RunBatch's semaphore and the stored results.
