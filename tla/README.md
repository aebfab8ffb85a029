# A TLA+ verification of dns-proxy

dns-proxy answers DNS questions over UDP, TCP, DoT and DoH. A question is
answered from local records, or forwarded to the upstream that the domain rules
name. Rules and records live in SQLite, are edited through an HTTPS admin API,
and are copied into in-memory caches. This directory models that system in
TLA+, checks it with TLC on small instances, and proves with TLAPS, for all
instances, both refinements and every safety property that TLC checks.

## 1. The system

### Components, their state and their operations

| Component (source) | State | Operations | What makes it correct |
|---|---|---|---|
| Admin handlers for rules, hosts, reload (`cmd/dns-proxy/main.go` 328-529) | one goroutine per request | POST, PUT/PATCH, DELETE, reload | an "ok" means the change is served; an error is the only way to leave a cache behind |
| Storage (`internal/storage/sqlite.go`) | `domain_rules`, `host_records`, `app_config`; a pool with one connection | one SQL statement per call, UPDATE as read-modify-write; one transaction | no row comes back after its DELETE; the connection is always given back |
| `Reloader`, `Notify` (`internal/cache`) | the write lock of `RuleCache`, the list just read; a one-place channel | `Reload`, `Signal` | an older list never replaces a newer one |
| `RuleCache` | `exact`, `suffix`, `defaultUpstream`; counters | `Load`, `Match` | the most specific rule decides |
| `HostCache` | `exact`, `suffix`; counter | `Load`, `Lookup` | all records of a name; otherwise the nearest wildcard with the type |
| `dns.Handler` (`internal/dns/handler.go`) | references to the caches, four counters | `Resolve`, `resolveLocal`, `Handle` | local records first, then the rules, then the default; every question is counted once |
| `UpstreamQuery` (`internal/dns/upstream.go`) | a deadline per question | DoH exchange; UDP exchange, then TCP | one answer or SERVFAIL within the budget |
| DoH endpoint (`main.go` 137-239) | none | GET, POST | same answers as DNS; a client that leaves ends its exchange |
| Admin account (`main.go` 294-326, 549-601; `sqlite.go` 85-166) | two rows of `app_config` | `auth`, `authHandler`, `initAdminAccount` | replaced credentials let nobody in; the account changes as a whole, for a verified request |
| Startup and certificates (`main.go` 37-121, `internal/httpserver`, `internal/dns/server.go`) | four files, the listeners | `Start`, `StartTLS`, `EnsureSelfSigned`, shutdown | whatever was interrupted before, the listeners come up with a pair that fits |
| Logging (`internal/logging`, `httpserver/server.go` 27-50) | log file, buffered writer, `mu`; package log's output lock | `Write`, rotation, cleanup, `WriteToFile`, `Flush` | no line is lost without a failed write; nobody who logs is blocked for ever |
| Configuration, encryption, web pages, `internal/doh` | no shared mutable state | | |

### How they interact

An admin handler runs its SQL statements, then calls `Reload`, then
`Notify.Signal`, then answers. `Reload` takes the write lock of `RuleCache`,
lists the rules over the single pooled connection, replaces the rule maps, lists
the hosts, calls `HostCache.Load` (which has its own lock) and releases the rule
lock. `main` runs one `Reload` before it starts the servers and only logs its
error. A question reads `HostCache` under a read lock and then, if nothing was
found, `RuleCache` under a read lock that waits for a `Reload` in progress. The
transactions of `UpdateAdminAccount` and, before the servers start, of
`initAdminAccount` are the only code that keeps the connection over several
statements. Every admin request passes `auth`, which reads the account in two
statements. Everything logs through package log, whose lock is taken before
`logging.mu`; a rotation takes them in the other order. Nothing reads the channel of `Notify` at this commit.

### What is hard about it

- *Concurrency*: concurrent reloads and writes; an update racing a delete; a lock
  held over I/O on a pool of one connection; credentials read in two statements.
- *Failure*: a statement or a reload that fails after the write was committed; a
  first reload that fails; a kill between a write and its reload, or between two
  certificate files.
- *Order*: which wildcard comes first after an unstable sort; DoT started before
  its certificate exists; log flush before the last line; a log buffer reused
  before the goroutine that refers to it has written it.
- *Time*: a UDP timeout that leaves the TCP retry nothing; silent upstreams.
- *Numbers*: a ttl that does not fit the 32 bits of a DNS record.

`PROJECT.json` lists these as hazards, each at its line, with the properties that
would notice it going wrong, or why there is none yet.

## 2. Modules

| Module | Models | Uses |
|---|---|---|
| `ConfigRegister` | what the configuration plane promises | |
| `ConfigPlane` | handlers, storage, `Reload`, both caches, `Resolve` as a reader; crash and restart | `ConfigRegister` by refinement |
| `ConfigPlaneProofs` | theorems about `ConfigPlane` | `ConfigPlane` |
| `DomainNames` | names, `normalize`, `labelsCount`, the two identical sorts; lists: `ORDER BY` and the loops that filter | |
| `DomainNamesProofs` | what sorting, listing and filtering make of lists of any length | `DomainNames` |
| `RuleCache` | `RuleCache.Load`, `Match` over tables written by the rule handlers | `DomainNames` |
| `RuleCacheProofs` | theorems about `RuleCache` | `RuleCache`, `DomainNamesProofs` |
| `LocalRecords` | `HostCache.Load`, `Lookup`, `resolveLocal` over tables written by the host handlers | `DomainNames` |
| `HostStore` | the columns of a record: `CreateHost`, `UpdateHost`, overlapping updates and failures, the TTL that is served | |
| `Resolver` | `Resolve`, `Handle`, `UpstreamQuery`, `dohHandler`: deadline, retry, counters | |
| `AdminAccount` | what the admin account promises | |
| `AdminAuth` | `auth`, `authHandler`, `UpdateAdminAccount`, `initAdminAccount`; crash and restart | `AdminAccount` by refinement |
| `Logger` | package log's lock, `mu`, the buffered writer, rotation, `tlsErrorFilter`, `Flush` | |
| `Startup` | `main`, `Start`, `StartTLS`, `EnsureSelfSigned`, shutdown, kill | |
| `AdminAuthProofs`, `StartupProofs`, `ResolverProofs`, `LoggerProofs` | theorems about the module of their name | that module |
| `HostRecordsProofs` | theorems about `LocalRecords` and `HostStore` | both, `DomainNamesProofs` |
| `MCConfigPlane`, `MCRuleCache`, `MCLocalRecords`, `MCHostStore` | constants for TLC | the module of their name |

The configuration plane and the account share one database connection.
`ConfigPlane` has the account's transaction as something that keeps the
connection, `AdminAuth` has its contents and the reads of `auth`; each is the
other's environment. `Resolver` takes from the caches only whether a name has a
record of the type and a usable one, and lets that change between any two steps.

`ConfigPlane` has the interleavings and abstracts how a list becomes a cache;
`RuleCache` and `LocalRecords` have that in full and take a request with its
reload as one step. What joins them is `FreshCacheIsTable`: between requests, the
cache is the result of loading the whole table.

### ConfigPlane

One action per SQL statement, lock operation or assignment of a cache. `pc[p]` is
where goroutine `p` is: `get`, `write` and `reread` are the statements of
`UpdateRule`/`CreateRule`/`DeleteRule` (and of the host functions, which have the
same shape), `lock` to `unlock` the body of `Reload`, `answer` what follows it.
`Main` is the goroutine of `main`, which goes through `Reload` once, and the
servers accept nothing before it is done. `conn` is the pooled connection: a
single statement takes and returns it in one step, the transaction keeps it
between `BeginTx` and `EndTx`.

History variables give every table a version (`tver`, one more per write). `cver`
is the version a cache was loaded from, `seen[p]` the versions when `p` called
`Reload`, `acked` the newest versions that an "ok" covers, `lost` the newest write
that was answered with an error. No guard reads them.

Abstractions:

- A row is its domain and enabled flag. The tables have the same life in the
  code, so both are instances of the same actions.
- A failing statement changed nothing (SQLite statements are atomic). A driver
  that reports failure of a statement that did take effect is covered as well:
  it looks like the statement succeeding and the next one failing.
- `StatementFails` and `ReloadFails` are always possible, because the request's
  context may be cancelled at any time; they need no free connection.
- Requests that are refused before the database, and GET requests, change nothing
  and are left out; so are the two reads of the `auth` middleware, which hold the
  connection for one statement.
- `Lookup` decides by the name only; record types are in `LocalRecords`.
- `resolveLocal` looks names up twice for question types without a case of their
  own. The second lookup decides, and is the one modelled; `Resolver` has both.

### DomainNames, RuleCache, LocalRecords

A name is its sequence of labels; `LabelLen` gives the bytes that the second
criterion of the sort compares. A domain column is a text (labels, and whether
it ends in a dot), so that two spellings of one name are two rows with one
normalised name. `Texts` is in byte order, which is the order of `ORDER BY
domain`; rows with equal keys come in id order. Letter case and surrounding
blanks are left out, ttl and comment too. Any rule mode but "exact" behaves as
"suffix"; any match mode but "suffix" as "exact" once `normalizeMatchMode` is
through with it. A rule table is a pure input of `Match`, so the actions
(create, patch one field, delete, refused request) only serve to reach every
table, and to state what one request may change.

`OrderBy` places a row by the number of rows that come before it, in `ListRules`
and in `ListHosts`, rather than with a sort of its own: SQLite's sort is external,
and such numbers can be reasoned about. The loops over a list, those that keep
some of its values (`Where`) and those that sort it (`sortSuffixes`), are recursive
functions of the turn of the loop.

### HostStore

The same life of a row as in `ConfigPlane`, with its columns: `NewRow` is the
row of `CreateHost` (defaults, `normalizeMatchMode`, the clamped ttl),
`UpdatedRow` the copy that `UpdateHost` writes back whole, `Served` the conversion in
`HostCache.Load`, modulo `2^TtlBits`. `since[p][c]` are the values column `c` had
since the request of `p` arrived. `ListRow` and `ReloadEntry` are the two halves of
`Reload`, one request at a time because of the rule cache's lock. A statement may
fail anywhere before the installation (`RequestFails`: `GetHost`, the `UPDATE`, the
reread, a list), which the handler answers with 500: after the write this leaves
the cache behind. `newest` is the request whose write is the newest and, from its
end on, its answer. Deletes are left to `ConfigPlane`. Domain and comment are plain text columns and left out; the value column
is the subject of `LocalRecords`. `StoreInit`, `StoreNext` and `StoreSpec` have their
prefix because `HostRecordsProofs` has the names of `LocalRecords` too.

### Resolver

`qpc[q]` is where the goroutine of question `q` is: `any` and `lookup` the two
lookups of `resolveLocal`, `match` the rule cache, `first` and `second` the
exchange over HTTPS or UDP and the one over TCP, `reply` what `Handle` or
`dohHandler` do with the result. `matched` is the sum of the hit and the miss
counter; what `Match` decides is in `RuleCache`. The host cache has nothing for the
name, a usable record of the type, only unusable ones, or only other types.
`elapsed` counts ticks since the context of `Query` was made, which ends after
`Budget`. An exchange gives up at `stop`: with the context, or after the `Timeout` of its
own client, whichever is earlier, counted from the moment it begins (`StopOf`).
`Tick` lets time pass for all that wait and for no exchange past its `stop`. An upstream answers, refuses (any error) or stays
silent; its behaviour over TCP is drawn when TCP begins. `ClientGone` is the
context of an HTTP request ending. The ten seconds of `dohHandler` are longer
than the five of `Query` and never end first. Whether an answer can be packed
changes no state, so `Reply` does not tell.

### AdminAccount and AdminAuth

`AdminAccount` installs the default account once and changes it as a whole, on
behalf of a verified request, which is served once. `AdminAuth` has each
statement of the code as a step: `GetAdminUser` and the comparison that follows
`GetAdminPass`, in `auth` and again in `authHandler`; `Begin`, two `UPDATE`s and
`Commit` on the connection that the transaction keeps; `initAdminAccount` at
every start. A statement or a commit may fail (`ReadFails`, `Rollback`), and the
process may end anywhere (`Crash`), which drops an open transaction. `tx` holds
what the transaction will commit. The mapping: `account` is the pair of opened
columns, a request is `verified` from `begin` to `commit` and `changed` until it
is answered; `wanted` is the new pair of its body. `userSince` and `passSince`
are the names and passwords that were current since a request began.
A sealed text opens to what was sealed; AES-GCM is library code.

### Logger

`outMu` is the lock inside package log (external), `mu` the one of
`internal/logging`. A log call formats its line in a buffer of package log's pool,
takes `outMu`, then writes to standard output and, in `logWriter.Write`, under
`mu` to the buffered writer; an error of standard output ends it before the file
(`StdoutFails`). While the call lasts, `own` is its line. An error line of the HTTPS servers goes straight to
`logWriter` (`direct`), and one about a handshake is written by a goroutine that
refers to the buffer after it was given back (`TlsError`, `WriteToFile`), so what
it writes is whatever the buffer holds then; a handshake line that is replaced in
its buffer before it was written joins `overwritten`. `Rotate` and `RotateFails` are
`monitorAndRotate` on a new day; `SetOutput` and `Report` take `outMu` while `mu`
is held. The writer's error is sticky, as `bufio`'s is: every later write fails
until a rotation makes a new writer. A line is a number, `accepted`, `dropped`,
`returned`, `handshake` (the lines whose call returned, and those of them that are
handshake errors) and `atFlush` are histories. Lines leave the
buffer when it is full, by a rotation or by `Flush`; the code has no periodic
flush.

### Startup

A file holds the number of the generation that wrote it, `Missing` or `Torn`.
`RemoveFile` may leave a file in place, since the code ignores the error of
`os.Remove`; `CreateFile` and `EncodeFile` are the two halves of `writePEM`.
`Kill` and the failures of the environment are possible between any two steps.
The initial files are none, or a pair that the operator put there.

## 3. What is checked

| Run | Shows | Instance |
|---|---|---|
| `config_safety` | `AckedServed`, `StaleExplained`, `FreshCacheIsTable`, `NoResurrection`, `ImplementsRegister` | 2 administrators, any stored row per table, 2 writing requests, any number of reloads, transactions and failures; 2.9 million states |
| `config_queries` | `QueryFresh`, and `IndInv` of the proofs | the same with 1 question, 1 writing request, 1 crash; 1.8 million states |
| `config_liveness` | `QueriesAnswered`, `HandlersAnswer`, `CacheConverges` | 2 administrators, 1 question, empty tables, 1 writing request, failures; 67 thousand states |
| `rule_cache` | `MostSpecificWins`, `UnrelatedRulesInert`, `IndInv` | all tables of 3 rules over 5 texts (with two spellings of a name, the root and `*`), 2 upstreams; 71 thousand states |
| `local_records` | `LookupFindsNearest`, `LocalAnswerRight`, `IndInv` | all tables of 3 records over 3 texts, 2 types, 2 values; 120 thousand states |
| `startup` | `HttpsAgree`, `HttpsPairAlwaysLoads`, `IndInv` | 3 generations; 1.6 thousand states |
| `host_store` | `RowNormalised`, `TtlSettles`, `ColumnsExplained`, `StoreIndInv` | 2 clients, 3 requests with any fields, any failures, ttls negative, ordinary and one bit too long; 1.3 million states |
| `resolver` | `WithinBudget`, `ForwardOutcome`, `LocalOnlyIfPresent`, `CountersAgree`, `QuestionsEnd`, `IndInv` | 2 questions over DNS or DoH, 1 reload, deadlines of 1 tick; 327 thousand states |
| `admin_account` | `AdmittedCurrent`, `ChangedByVerified`, `ImplementsAccount`, `RequestsAnswered`, `IndInv` | 2 clients, 2 names and 2 passwords, 2 requests, 1 crash, any failures; 47 thousand states |
| `logger` | `LinesKept`, `OnlyReusedLinesLost`, `ShutdownSaves`, `CallsReturnUnlessWedged`, `SignalEndsProcess`, `IndInv` | 1 goroutine and main, 2 buffers, 2 lines and main's 2, a writer of 1 line, 1 midnight; 247 thousand states |
| `startup_fresh`, `logger_rotation` | the two disagreements below | as above |

`IndInv` (`StoreIndInv` in `HostStore`) is, in each module, the inductive invariant
that section 4 explains; its first part is the module's type invariant.

The properties, in words:

- **AckedServed**: once a handler has answered "ok", the loaded caches have every
  write that was committed before it called `Reload`, and keep it.
- **QueryFresh**: a question that arrives after the "ok" is answered with it.
- **StaleExplained**: a loaded cache is behind its table only while the writer is
  on its way to `Reload`, or because the writer answered with an error.
- **FreshCacheIsTable**: a cache of the current version is exactly the enabled
  rows.
- **NoResurrection**: no step puts a row under an id that was deleted.
- **ImplementsRegister**: versions are committed, then published in order, then
  acknowledged (`ConfigRegister`).
- **QueriesAnswered**, **HandlersAnswer**, **CacheConverges**: nobody waits for
  ever behind the lock and the connection, and the caches catch up.
- **MostSpecificWins**: exact rule, else a covering suffix rule with the most
  labels, else `*`, else the configured default. With several rules of the same
  normalised domain any of them may win.
- **UnrelatedRulesInert**: a request about other names moves no name. It assumes
  that no two enabled suffix rules have the same normalised domain: without that
  TLC finds a table in which adding an unrelated rule changes the winner of two
  duplicates, because the exchange sort is not stable.
- **LookupFindsNearest**: all records of the name and type, else those of a
  nearest wildcard that has the type.
- **LocalAnswerRight**: what a client gets, from the table alone. A question is
  forwarded exactly when no live record, of the name or covering it, has the type
  that is looked up: its own, or any for a type without records such as MX. (A
  CNAME is not looked up for an address, see below.) Otherwise the answer is the
  usable records of the name, each once, or of one nearest wildcard, and NXDOMAIN
  exactly when nothing of that is usable.
- **RowNormalised**: whatever requests carry, the stored row has a type, a known
  mode and a ttl that is not negative.
- **TtlSettles**: once the newest write was answered with "ok" the cache serves the
  row, with a TTL never longer than its ttl and equal to it if that fits 32 bits,
  whichever of the overlapping requests failed, and however they listed and
  installed. After an error it may be behind.
- **ColumnsExplained**: an update writes into each column its request sets what
  `CreateHost` would make of the field, and into the others values they had since
  its request arrived. It may undo a concurrent update of another column (see
  below); nothing older comes back.
- **WithinBudget**: no question waits longer than the timeout of `Query`, both
  exchanges together, although each has a timeout of its own: a second exchange
  that got all of its own, or a new context, would break it.
- **ForwardOutcome**: a question gets the upstream's message exactly if the first
  exchange is answered, or UDP is refused with time to spare and TCP answers; it
  gets SERVFAIL from an address only after TCP was tried. A lost datagram uses up
  the time, so TCP never saves that question.
- **LocalOnlyIfPresent**: a record in an answer means that there was a usable one at
  the deciding lookup, an NXDOMAIN that there were records but none usable for the
  question; a question is forwarded only if a lookup found none that it asks for,
  whatever reload comes between the two lookups.
- **CountersAgree**: at every moment hits and misses add up to the questions that were
  forwarded, failed or are under way; local and forwarded answers are counted.
- **QuestionsEnd**: every question ends, also with silent upstreams.
- **AdmittedCurrent**: who is let in sent a name and a password that were both
  current since the request began - though perhaps not together, as they are
  read in two statements.
- **ChangedByVerified**: the account changes only from no account to the default,
  or to the new pair of a request that passed both comparisons, and to the whole
  pair at once.
- **ImplementsAccount**: the statements implement `AdminAccount`, failures,
  crashes and restarts included.
- **RequestsAnswered**: no request waits for ever for the connection that a
  transaction keeps.
- **LinesKept**: the files and the writer hold the accepted lines in order, and
  only a failed write makes a line missing.
- **OnlyReusedLinesLost**: of the lines whose call has returned, only a handshake
  error can be missing from the writer: it still waits in its buffer for its
  goroutine, or was overwritten there by another line. Every other line that
  standard output took is written before its call gives up the buffer.
- **ShutdownSaves**: after `Flush` everything accepted before it is in the files,
  unless a write failed. The last line is not covered: the code logs it after
  `Flush`.
- **CallsReturnUnlessWedged**, **SignalEndsProcess**: a rotation that wants the
  output lock while it holds `mu` is the only way for a log call, or the
  shutdown, to hang.
- **HttpsAgree**, **HttpsPairAlwaysLoads**: the two HTTPS servers serve one
  certificate, the one in the files, signed (with `-dev-cert`) by the CA in the
  files; no start fails on a pair that an earlier kill left broken at this point.

Bounds. Two administrators are enough for every pairwise race of handlers, and
`Main` is a third party to `Reload`; two writes make one row go through create,
update and delete by different goroutines; one stored row per table lets an
update race a delete at once. The number of reloads, transactions and failures
is not bounded. Three rules or records make the sort move an entry twice and
put a duplicate beside an unrelated row. Three certificate generations are the
operator's pair and two regenerations. Three requests are a create and two
updates that overlap in
every way; three-bit TTLs have a value that wraps. A deadline of one tick
tells an exchange that begins with time left from one that begins with none, which
is all the code looks at (TLC also passes with two ticks for both deadlines, 778
thousand states, in more time), and two questions
make counters, reloads and clocks interleave. Two requests let one change of
the account run between any two statements of the other request. One goroutine
and `main` are two callers of package log beside the rotation; a writer of one
line is full at the second, and two pool buffers let one be reused while a
goroutine still refers to it. The proofs below hold for every value of all these
bounds; for the safety properties the runs are a first test of what is proved,
and the bounds matter for liveness only.

Symmetry is used for interchangeable goroutines in the safety runs
`config_safety`, `config_queries` and `host_store` only; no liveness run has any.

Fairness. `config_liveness`: strong fairness for the progress of every admin
goroutine and every question. A goroutine that can run is scheduled; Go's
`RWMutex` lets the readers that waited for a writer in before the next writer
and hands over to a starving waiter; `database/sql` serves its queue of
connection requests. `admin_account` assumes the same of each request's
progress and of `initAdminAccount`. `logger`: strong fairness of log calls,
rotation and `Flush`, because `sync.Mutex` hands over to a waiter that has starved
for a millisecond; nothing is assumed of the goroutines of `tlsErrorFilter`.
`resolver`: weak fairness of each question's goroutine and of time; an exchange
that is answered or refused comes to its end. Requests, questions, lines,
midnights, signals, failures and crashes are never assumed to happen; a
transaction is assumed to end.

Deadlock is checked in `config_*`, `rule_cache`, `local_records` and `startup*`.
It is not in `host_store`, `resolver` and `admin_account`, which have nothing
left to do once the bounded requests are served (their liveness properties say
that no request is left waiting), nor in `logger*`, where the process exits or
may really stop.

Each property of a passing run has a mutant of a mapped definition (a lock taken
shared, a forgotten reload, maps merged instead of replaced, an upsert, a leaked
connection, a reversed comparison, ...) for which TLC finds it violated.

### Disagreements

Two runs show a disagreement between the code and what the repository says:

1. `startup_fresh` - README_EN.md:14, "Self-Signed Certs: Built-in CA certificate
   generation, ready to use". `main` starts DoT (main.go:83), which loads the
   certificate files, before `NewWithTLS` (main.go:89) generates missing ones.
   Without files the start ends in `log.Fatalf`; it also does after a kill during
   a regeneration. By the same order, with `-dev-cert` ("Regenerate self-signed
   cert on each start", README_EN.md:55) DoT serves the pair of the previous start.
2. `logger_rotation` - logger.go:98-100: when the new file cannot be opened,
   `monitorAndRotate` logs that, unlocks `mu` and goes on. The log call needs
   `mu`, so it never returns and every goroutine that logs waits for ever. The
   same follows without an error when `log.SetOutput` (logger.go:104) meets a
   goroutine inside package log.

Noticed in the code while modelling, and not the subject of a run:

- a subdomain gets one of several suffix records (rule_cache.go:98; index.html:84);
- the address question of a name with only a local CNAME goes upstream, and the
  code that would chase the CNAME cannot run (handler.go:60, 119; README_EN.md:11);
  `LocalAnswerRight` states what the code does;
- two changes of the account that verified the same old credentials both succeed,
  the second against credentials that are no longer current (main.go:570, 590;
  README_EN.md:76); `AdminAccount` promises no more than that each was verified;
- overlapping updates of one record may undo each other's columns (sqlite.go:372;
  app.js:134);
- a ttl of 2^32 or more wraps around to a shorter one (rule_cache.go:47;
  README_EN.md:72);
- a handshake error can be missing from the log file, and another line be there
  twice, because the buffer is used again (server.go:38); lines logged after
  `Flush` never reach it (main.go:119);
- after a first `Reload` that fails the servers answer from empty caches
  (main.go:71);
- an answer with a TXT value of more than 255 bytes cannot be packed and the
  question stays unanswered (handler.go:166);
- on a terminal the prompts replace the host of the configured addresses
  (main.go:51; README_EN.md:45).

## 4. What is proved

Every theorem is about `Spec` (`StoreSpec` in `HostStore`), for every value of the
constants that the named `ASSUME` of its module admits.

| Module | Theorem | States `Spec =>` |
|---|---|---|
| `ConfigPlaneProofs` | `Invariance`, `TypeCorrect` | `[]IndInv`, `[]TypeOK` |
| | `AckedAlwaysServed` | `[]AckedServed` |
| | `QueriesAlwaysFresh` | `[]QueryFresh` |
| | `FreshCacheAlwaysTable` | `[]FreshCacheIsTable` |
| | `StaleAlwaysExplained` | `[]StaleExplained` |
| | `DeletedStaysDeleted` | `NoResurrection` |
| | `PlaneImplementsRegister` | `ImplementsRegister` |
| `DomainNamesProofs` | `SortSuffixesSorts` | (of an operator) the sort permutes and orders every slice |
| `RuleCacheProofs` | `Invariance` | `[]IndInv` |
| | `MostSpecificAlwaysWins` | `[]MostSpecificWins` |
| | `UnrelatedRulesStayInert` | `UnrelatedRulesInert` |
| `AdminAuthProofs` | `Invariance`, `TypeCorrect` | `[]IndInv`, `[]TypeOK` |
| | `AdmittedAlwaysCurrent` | `[]AdmittedCurrent` |
| | `ChangesAreVerified` | `ChangedByVerified` |
| | `AuthImplementsAccount` | `ImplementsAccount` |
| `StartupProofs` | `Invariance` | `[]IndInv` |
| | `HttpsAlwaysAgree` | `[]HttpsAgree` |
| | `HttpsPairNeverFails` | `[]HttpsPairAlwaysLoads` |
| `ResolverProofs` | `Invariance` | `[]IndInv` |
| | `AlwaysWithinBudget` | `[]WithinBudget` |
| | `OutcomeAlwaysRight` | `[]ForwardOutcome` |
| | `LocalAlwaysPresent` | `[]LocalOnlyIfPresent` |
| | `CountersAlwaysAgree` | `[]CountersAgree` |
| `HostRecordsProofs` | `Invariance` | `[]IndInv` of `LocalRecords` |
| | `LookupAlwaysFindsNearest` | `[]LookupFindsNearest` |
| | `LocalAnswerAlwaysRight` | `[]LocalAnswerRight` |
| | `StoreInvariance` | `[]StoreIndInv` of `HostStore` |
| | `RowAlwaysNormalised` | `[]RowNormalised` |
| | `TtlAlwaysSettles` | `[]TtlSettles` |
| | `ColumnsAlwaysExplained` | `ColumnsExplained` |
| `LoggerProofs` | `Invariance`, `TypeCorrect` | `[]IndInv`, `[]TypeOK` |
| | `LinesAlwaysKept` | `[]LinesKept` |
| | `OnlyReusedLinesAreLost` | `[]OnlyReusedLinesLost` |
| | `ShutdownAlwaysSaves` | `[]ShutdownSaves` |

### Assumptions

They say that bounds are naturals, that markers such as `Nil`, `Blank`, `NoRow` or
"main" are none of the values they stand beside, and:

- `ResolverAssumption`: `Questions` is finite, so that questions can be counted; the
  timeout of an exchange is no shorter than that of the context (both are five
  seconds in the code).
- `StoreAssumption`: `TtlLimit`, which is 2^`TtlBits`, is a positive natural (the
  library has no facts about powers). Nothing else of its value is used. No client
  is called "ok" or "error".
- `LoggerAssumption`: the writer has room for a line.
- `RecordsAssumption`: the types in use are among A, AAAA, CNAME and TXT; other
  question types are none of these.
- `TextsAssumption`: texts are a sequence of records, their labels have a length.
- `StartupAssumption`: at least one generation.

### ConfigPlane

`AckedServed` is not inductive: it needs that whoever is about to acknowledge has
installed what it saw. `IndInv` says this in five parts beside `TypeOK`:

- `HandlerInv`: what a handler knows about its request at each point (it has one;
  an update has an id and a row). `TypeOK`, which is part of `IndInv`, needs it: a
  table is indexed by an id that must exist.
- `LockInv`: a goroutine is inside `Reload` exactly when it is the writer of the
  rule lock, so at most one is.
- `VersionInv`: a list read under the lock is no older than the cache it will
  replace, than what the goroutine saw when it called `Reload`, and than what was
  acknowledged; after the installation this is true of the cache. The second and
  third need `LockInv`: nobody else installs in between.
- `SnapshotInv`: a list of the current version is the current table.
- `QueryInv`: a question on its way has been promised no more than the caches
  hold; since caches never go back while the process runs, it will read enough.

`StaleExplained` adds `MineInv` and `StaleInv`. `MineInv`: what
a goroutine wrote itself is no newer than the table and, from its call of `Reload`
on, no newer than what it saw then. `StaleInv`, for each table: the cache is current, or
the newest write was lost in a crash or answered with an error, or the cache was
never loaded, or the goroutine that wrote the newest version is on its way to
install it. An installation may make the cache current but never older.

`RegisterStep` maps each step to a step of `ConfigRegister` or to a stutter.

### Lists

`SortSuffixesSorts` is by induction over both loops. The invariant of the outer
loop (`Placed`) is that nothing should come before one of the first i entries;
the inner loop keeps that and makes position i no worse than all positions it has
been compared with (`Compared`), because the exchange puts a smaller entry there
and `Precedes` is transitive. Each turn exchanges two positions or none, so the
result is a permutation. The proof needs no induction over an operator: a set of
numbers with 0 and the successors of its members is shown to have all numbers
from its complement's least element (`NumbersByInduction`), and a recursive
function has the value its equation gives it because a function that iterates a
step exists up to every bound (`IterationExists`).

What is said of a list is that it *shows* each member of a set once (`Shows`): there
is a bijection from the set to the positions (`Arrangements`), and the value at a
position is a given function of the member there. Such a list has as many entries
as the set has members, and their values (`ShowsCounts`); an image, a sorted or a
filtered list shows again (`ShowsImage`, `PermutedShows`, `WhereShows`).
`OrderByArranges`: if "comes before" is a strict total order, the numbers of rows
before each row are 0 to n - 1, each once, so the listing shows every row, in
order. `WhereFinds`: the loop that filters keeps exactly the wanted positions,
increasing; the invariant over its turns is `Found`.

### The rule cache

`IndInv` is `TypeOK` and `Loaded`: the cache is what `Load` makes of the whole table.
From there the proof is about tables. `Listing` is `OrderByArranges` for the rules,
and `WildEntriesCollected` is `WhereFinds` for the wildcard rules.
`ExactMapRight`, `DefaultRight`, `FirstCoveringRight`: the map and the
default come from the last rule of a kind, and the first covering entry from a
rule with the most labels, by the sort. `MostSpecificWins` follows.
`UnrelatedRulesInert` needs more: that the deciding row is the same before and
after. The last row of a kind is unique since `Before` is total; the deepest
covering row is unique since a name has one suffix of every length
(`CoveringOfOneLength`) and no two rules have the same.

### The local records

`IndInv` is again `TypeOK` and `Loaded`. `Listing` shows every row once. Two filters
follow for a name of its own, `KeptAt` in `Load` and `filterEntries` in `Lookup`, so
`OwnEntriesShown`: what is served shows each live record of the name and the type
once, hence their number and their values. `SuffixListShown`: the sorted list
shows the wildcard of each live record of mode "suffix", none behind one that
`Precedes` it; so the first that covers a name and has its type is a nearest one
(`FirstHitNearest`). `LookupTakes` puts the three branches together: what is found
shows the own records of the type, or is the entry of a nearest wildcard;
`LookupFindsNearest` follows. `ResolveLocalRight` filters once more (`WhereShows`,
`WhereValues`): a type without a case of its own asks `Lookup` for ANY, and what is
left of what was found is the answer, or nothing and NXDOMAIN.

### AdminAuth

`IndInv` adds to `TypeOK`: `ConnInv`, the connection is held exactly by the client
or the start that is inside a transaction, so there is one transaction at most;
`TxInv`, what it will commit is what its goroutine has written so far;
`AccountInv`, nobody is served before there is an account, and `main` inserts
only where none was; `RequestInv`, the current pair, the name just read and
what a request was compared with were current since it began. A change of the
account adds the new pair to the histories of all requests under way, and that
keeps `RequestInv`. With these, each commit is an `Install` or a `Change` of
`AdminAccount`, and every other step a step about the request alone, `Restart` or
a stutter.

### Startup

The pair that DoT has loaded leaves `EnsureSelfSigned` nothing to do without
`-dev-cert`, and only the DoH server replaces files with it (`ReplaceInv`).
While a set is being written, the files so far are of the new generation
(`WrittenInv`); so at the end the whole set is, whatever a removal left behind,
and the admin server, which comes second, finds what the DoH server loaded
(`PairInv`).

### Resolver

`StageInv` and `ExchangeInv` say what each stage of a question implies: while it
waits, its exchange gives up no later than the context, since `StopOf` takes the
earlier of the two, whatever the first exchange has used, so that `WithinBudget`
follows from `Tick`; in the second exchange the first was refused, or silent and nothing is left.
`NotLocalInv`: who is on the way to an upstream found nothing. `CountersAgree`
relates counters to the cardinalities of sets of questions; the proof moves one
question at a time from one set to another.

### HostStore

`SinceInv`: while an update is under way, the row of now is among the values it has
seen, and so is every column of its copy that it will not set; the columns it
sets have the values of `NewRow`. Another client's write extends all histories, which
keeps it. `NewestInv`: the request of the newest write is before or inside its
`Reload`; whoever is inside `Reload` has listed the row of now if that request is the
one, or was answered with ok; and once it was answered with ok the cache has the
row. It needs `StageInv`: two requests inside `Reload` could install in the other
order than they listed. A failure ends a request without an installation, and
counts only as its "error".

### Logger

`IndInv` adds `FailInv` (a failed writer still holds lines, so the rotation that
replaces it is what drops them) and `MainInv` (`main` logs only while it shuts
down, so nothing it accepts is behind `Flush` unnoticed), and `BufferInv`: a call has a
buffer to itself and its line stays there, although the goroutines of
`tlsErrorFilter` may refer to the same buffer. That is why `Write` accepts the line
of its call; for handshake errors `ReturnedStep` follows a line from waiting in a
buffer (`Pending`) to the writer or to `overwritten`. The variables are split
into those of the writer and the rest (`WriterOK`, `RestOK`): most actions leave
the writer alone, and for those that do not a few facts about sequences are enough:
a line is appended to what is accepted and to the buffer, or a prefix of the
buffer moves to the disk.

### Only model-checked

Liveness: `QueriesAnswered`, `HandlersAnswer`, `CacheConverges`, `QuestionsEnd`,
`RequestsAnswered`, `CallsReturnUnlessWedged`, `SignalEndsProcess`. Fairness and
`ENABLED` are out of the prover's reach.

## 5. What is not modelled

- `doCleanup`, the hourly removal of old log files: it looks at the files of a
  directory once per pass and nothing says which it must keep.
- The wire form of questions and answers, the contents of certificates and the
  encryption of the credentials: library code with nothing of the program's own.
- Configuration, console prompts, CA installation, status and static pages: no
  shared state. `internal/doh` is not used by the program.
- SQLite and `database/sql` are taken to do what they promise: atomic statements,
  AUTOINCREMENT without reuse, one connection at a time.

## 6. Plan

*Done*: all modules of section 2, the theorems of section 4.

*Left*:

`LookupFindsNearest` as a relation between two tables, as `UnrelatedRulesInert`
is for rules, if an administrator's page ever depends on it.
