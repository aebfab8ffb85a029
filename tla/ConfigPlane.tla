------------------------------ MODULE ConfigPlane ------------------------------
(***************************************************************************)
(* The configuration plane of dns-proxy: the handlers of the admin server  *)
(* (cmd/dns-proxy/main.go) write the SQLite tables (internal/storage),     *)
(* then Reloader.Reload (internal/cache) rebuilds the two in-memory caches *)
(* from which DNS questions are answered (internal/dns/handler.go).        *)
(*                                                                         *)
(* Every SQL statement is one step; the pool has a single connection       *)
(* (SetMaxOpenConns(1)), which only a transaction keeps between steps.     *)
(* Reload keeps the write lock of the rule cache over both SELECTs, so     *)
(* reloads are serialised while DNS questions for the rule cache wait.     *)
(*                                                                         *)
(* Both tables have the same life: a row is abstracted to the domain it    *)
(* is about and its enabled flag, which is what tells two caches apart     *)
(* here.  How a list of rows becomes exact and suffix maps is the subject  *)
(* of RuleCache and LocalRecords.                                          *)
(***************************************************************************)
EXTENDS Integers

CONSTANTS
    Admins,       \* goroutines of the admin server, one request at a time each
    Main,         \* the goroutine of main(), which runs the first Reload
    Queries,      \* goroutines that serve DNS questions
    Domains,      \* names that rows carry and questions ask for
    MaxStored,    \* bound: rows per table that an earlier run left behind
    MaxRequests,  \* bound: create, update and delete requests
    MaxCrashes,   \* bound: times the process is killed and started again
    Nil           \* no row, no lock holder, no value

Tables == {"rules", "hosts"}
Ids    == 1 .. (MaxStored + MaxRequests)    \* a request inserts at most one row
Procs  == Admins \cup {Main}

\* model.DomainRule and model.HostRecord; the optional fields of RuleUpdate
\* and HostUpdate are pointers, nil when the request leaves them out.
Row    == [domain : Domains, enabled : BOOLEAN]
Patch  == [domain : Domains \cup {Nil}, enabled : BOOLEAN \cup {Nil}]

Requests ==
         [kind : {"create"}, tbl : Tables, row : Row]
    \cup [kind : {"update"}, tbl : Tables, id : Ids, patch : Patch]
    \cup [kind : {"delete"}, tbl : Tables, id : Ids]

ASSUME ConstantsAssumption ==
    /\ Main \notin Admins
    /\ MaxStored \in Nat /\ MaxRequests \in Nat /\ MaxCrashes \in Nat
    /\ Nil \notin Procs /\ Nil \notin Domains /\ Nil \notin BOOLEAN
    /\ Nil \notin Ids /\ Nil \notin Row /\ Nil \notin Requests
    /\ Nil \notin {"local", "rule", "default"}

VARIABLES
    \* the database file
    rows,     \* rows[t][i]: the row with id i, or Nil
    nextId,   \* nextId[t]: the id the next INSERT gets
    tver,     \* history: version of table t, 1 and then 1 more per write
    conn,     \* holder of the only pooled connection, Nil when it is free
    \* the caches
    rulesMu,  \* writer of RuleCache.mu, Nil when no one writes
    cache,    \* cache[t][i]: domain loaded from row i, or Nil
    cver,     \* history: the version cache[t] was loaded from, 0 if never
    notify,   \* tokens in the channel of Notify (capacity 1)
    \* the goroutines of the admin server, and main
    pc, req,
    rid,      \* id the handler works on (path parameter or LastInsertId)
    cur,      \* row UpdateRule/UpdateHost is about to write
    snap,     \* snap[p]: result of the last SELECT of Reload
    snapVer,  \* history: the version snap[p] was read at
    seen,     \* history: tver when Reload was called
    mine,     \* history: version of the handler's own write, 0 if none
    acked,    \* history: newest versions covered by an "ok" response
    lost,     \* history: newest write of t answered with an error
    \* the goroutines that serve questions
    qpc, qname, qack, qview, route,
    \* bounds
    started, crashes

dbVars      == <<rows, nextId, tver>>
cacheVars   == <<cache, cver>>
handlerVars == <<pc, req, rid, cur, snap, snapVer, seen, mine>>
queryVars   == <<qpc, qname, qack, qview, route>>
vars        == <<dbVars, conn, rulesMu, cacheVars, notify, handlerVars,
                 acked, lost, queryVars, started, crashes>>

Zero   == [t \in Tables |-> 0]
NoRows == [i \in Ids |-> Nil]
Snapshots == [Ids -> Row \cup {Nil}]

\* The rows that reach a cache: both Load functions skip disabled ones.
Load(f) == [i \in Ids |-> IF f[i] = Nil \/ ~f[i].enabled THEN Nil ELSE f[i].domain]

\* UpdateRule and UpdateHost copy the fields the request carries.
Apply(row, patch) ==
    [domain  |-> IF patch.domain = Nil THEN row.domain ELSE patch.domain,
     enabled |-> IF patch.enabled = Nil THEN row.enabled ELSE patch.enabled]

\* The servers are started by main() once the first Reload has returned,
\* failed or not: its error is only logged.
Serving == pc[Main] = "up"

Init ==
    /\ rows \in [Tables -> {f \in Snapshots : \A i \in Ids : i > MaxStored => f[i] = Nil}]
    /\ nextId = [t \in Tables |-> MaxStored + 1]
    /\ tver = [t \in Tables |-> 1]
    /\ conn = Nil
    /\ rulesMu = Nil
    /\ cache = [t \in Tables |-> NoRows]
    /\ cver = Zero
    /\ notify = 0
    /\ pc = [p \in Procs |-> IF p = Main THEN "lock" ELSE "idle"]
    /\ req = [p \in Procs |-> Nil]
    /\ rid = [p \in Procs |-> Nil]
    /\ cur = [p \in Procs |-> Nil]
    /\ snap = [p \in Procs |-> NoRows]
    /\ snapVer = [p \in Procs |-> 0]
    /\ seen = [p \in Procs |-> IF p = Main THEN tver ELSE Zero]
    /\ mine = [p \in Procs |-> 0]
    /\ acked = Zero
    /\ lost = Zero
    /\ qpc = [q \in Queries |-> "idle"]
    /\ qname = [q \in Queries |-> Nil]
    /\ qack = [q \in Queries |-> Zero]
    /\ qview = [q \in Queries |-> Zero]
    /\ route = [q \in Queries |-> Nil]
    /\ started = 0
    /\ crashes = 0

-----------------------------------------------------------------------------
(***************************************************************************)
(* Requests of the admin API.  The ones refused before they touch the      *)
(* database (bad JSON, missing field, bad id, wrong method) change nothing *)
(* and are not modelled.                                                   *)
(***************************************************************************)

\* POST, PUT/PATCH and DELETE of /api/rules and /api/hosts.
StartRequest(p) ==
    /\ Serving /\ pc[p] = "idle"
    /\ started < MaxRequests
    /\ \E r \in Requests :
          /\ req' = [req EXCEPT ![p] = r]
          /\ rid' = [rid EXCEPT ![p] = IF r.kind = "create" THEN Nil ELSE r.id]
          /\ cur' = [cur EXCEPT ![p] = IF r.kind = "create" THEN r.row ELSE Nil]
          /\ pc' = [pc EXCEPT ![p] = IF r.kind = "update" THEN "get" ELSE "write"]
    /\ started' = started + 1
    /\ UNCHANGED <<dbVars, conn, rulesMu, cacheVars, notify, snap, snapVer, seen,
                   mine, acked, lost, queryVars, crashes>>

\* Mutant: the handler answers without calling Reload.
CallReloadSkipped(p) ==
    /\ pc' = [pc EXCEPT ![p] = "answer"]
    /\ seen' = [seen EXCEPT ![p] = tver']

\* The handler calls Reload; remember what the tables hold by then.
CallReload(p) ==
    /\ pc' = [pc EXCEPT ![p] = "lock"]
    /\ seen' = [seen EXCEPT ![p] = tver']

\* POST /api/rules/reload.
StartReload(p) ==
    /\ Serving /\ pc[p] = "idle"
    /\ UNCHANGED dbVars
    /\ CallReload(p)
    /\ UNCHANGED <<conn, rulesMu, cacheVars, notify, req, rid, cur, snap,
                   snapVer, mine, acked, lost, queryVars, started, crashes>>

\* PUT /api/auth reaches UpdateAdminAccount, whose transaction keeps the
\* connection from Begin to Commit or Rollback.
BeginTx(p) ==
    /\ Serving /\ pc[p] = "idle" /\ conn = Nil
    /\ conn' = p
    /\ pc' = [pc EXCEPT ![p] = "tx"]
    /\ UNCHANGED <<dbVars, rulesMu, cacheVars, notify, req, rid, cur, snap, snapVer,
                   seen, mine, acked, lost, queryVars, started, crashes>>

\* Mutant: no Rollback after an error, the connection is never given back.
EndTxLeaked(p) ==
    /\ pc[p] = "tx"
    /\ pc' = [pc EXCEPT ![p] = "idle"]
    /\ UNCHANGED <<dbVars, conn, rulesMu, cacheVars, notify, req, rid, cur, snap,
                   snapVer, seen, mine, acked, lost, queryVars, started, crashes>>

\* tx.Commit(), or tx.Rollback() after an error.
EndTx(p) ==
    /\ pc[p] = "tx"
    /\ conn' = Nil
    /\ pc' = [pc EXCEPT ![p] = "idle"]
    /\ UNCHANGED <<dbVars, rulesMu, cacheVars, notify, req, rid, cur, snap, snapVer,
                   seen, mine, acked, lost, queryVars, started, crashes>>

\* The goroutine is done: it forgets its request.
Forget(p) ==
    /\ pc' = [pc EXCEPT ![p] = IF p = Main THEN "up" ELSE "idle"]
    /\ req' = [req EXCEPT ![p] = Nil]
    /\ rid' = [rid EXCEPT ![p] = Nil]
    /\ cur' = [cur EXCEPT ![p] = Nil]
    /\ snap' = [snap EXCEPT ![p] = NoRows]
    /\ snapVer' = [snapVer EXCEPT ![p] = 0]
    /\ seen' = [seen EXCEPT ![p] = Zero]
    /\ mine' = [mine EXCEPT ![p] = 0]

\* A handler answers 500.  A write it had committed stays in the table.
AnswerError(p) ==
    /\ Forget(p)
    /\ lost' = IF mine[p] = 0
               THEN lost
               ELSE [lost EXCEPT ![req[p].tbl] = IF @ >= mine[p] THEN @ ELSE mine[p]]

-----------------------------------------------------------------------------
(***************************************************************************)
(* internal/storage: one action per statement.                             *)
(***************************************************************************)

\* First half of UpdateRule/UpdateHost: GetRule, then patch the copy.
GetForUpdate(p) ==
    /\ pc[p] = "get" /\ conn = Nil
    /\ LET row == rows[req[p].tbl][rid[p]] IN
          /\ row # Nil
          /\ cur' = [cur EXCEPT ![p] = Apply(row, req[p].patch)]
    /\ pc' = [pc EXCEPT ![p] = "write"]
    /\ UNCHANGED <<dbVars, conn, rulesMu, cacheVars, notify, req, rid, snap, snapVer,
                   seen, mine, acked, lost, queryVars, started, crashes>>

\* The statement of p leaves `row' as row i of table t.
Committed(p, t, i, row) ==
    /\ rows' = [rows EXCEPT ![t][i] = row]
    /\ tver' = [tver EXCEPT ![t] = @ + 1]
    /\ mine' = [mine EXCEPT ![p] = tver[t] + 1]

\* INSERT of CreateRule/CreateHost.
Insert(p) ==
    /\ pc[p] = "write" /\ req[p].kind = "create" /\ conn = Nil
    /\ LET t == req[p].tbl IN
          /\ nextId[t] \in Ids
          /\ Committed(p, t, nextId[t], cur[p])
          /\ rid' = [rid EXCEPT ![p] = nextId[t]]
          /\ nextId' = [nextId EXCEPT ![t] = @ + 1]
    /\ pc' = [pc EXCEPT ![p] = "reread"]
    /\ UNCHANGED <<conn, rulesMu, cacheVars, notify, req, cur, snap, snapVer, seen,
                   acked, lost, queryVars, started, crashes>>

\* Mutant: INSERT OR REPLACE, which writes the row even when it is gone.
UpdateUpserts(p) ==
    /\ pc[p] = "write" /\ req[p].kind = "update" /\ conn = Nil
    /\ Committed(p, req[p].tbl, rid[p], cur[p])
    /\ pc' = [pc EXCEPT ![p] = "reread"]
    /\ UNCHANGED <<nextId, conn, rulesMu, cacheVars, notify, req, rid, cur, snap,
                   snapVer, seen, acked, lost, queryVars, started, crashes>>

\* UPDATE ... WHERE id=?: no row, no change and no error.
Update(p) ==
    /\ pc[p] = "write" /\ req[p].kind = "update" /\ conn = Nil
    /\ LET t == req[p].tbl IN
          \/ /\ rows[t][rid[p]] # Nil
             /\ Committed(p, t, rid[p], cur[p])
          \/ /\ rows[t][rid[p]] = Nil
             /\ UNCHANGED <<rows, tver, mine>>
    /\ pc' = [pc EXCEPT ![p] = "reread"]
    /\ UNCHANGED <<nextId, conn, rulesMu, cacheVars, notify, req, rid, cur, snap,
                   snapVer, seen, acked, lost, queryVars, started, crashes>>

\* Mutant: the DELETE branch forgets to Reload.
DeleteWithoutReload(p) ==
    /\ pc[p] = "write" /\ req[p].kind = "delete" /\ conn = Nil
    /\ rows[req[p].tbl][rid[p]] # Nil
    /\ Committed(p, req[p].tbl, rid[p], Nil)
    /\ pc' = [pc EXCEPT ![p] = "answer"]
    /\ UNCHANGED <<nextId, conn, rulesMu, cacheVars, notify, req, rid, cur, snap,
                   snapVer, seen, acked, lost, queryVars, started, crashes>>

\* DELETE, then Reload in the same handler.
Delete(p) ==
    /\ pc[p] = "write" /\ req[p].kind = "delete" /\ conn = Nil
    /\ rows[req[p].tbl][rid[p]] # Nil
    /\ Committed(p, req[p].tbl, rid[p], Nil)
    /\ CallReload(p)
    /\ UNCHANGED <<nextId, conn, rulesMu, cacheVars, notify, req, rid, cur, snap,
                   snapVer, acked, lost, queryVars, started, crashes>>

\* GetRule/GetHost after the write, then Reload.
Reread(p) ==
    /\ pc[p] = "reread" /\ conn = Nil
    /\ rows[req[p].tbl][rid[p]] # Nil
    /\ UNCHANGED dbVars
    /\ CallReload(p)
    /\ UNCHANGED <<conn, rulesMu, cacheVars, notify, req, rid, cur, snap, snapVer,
                   mine, acked, lost, queryVars, started, crashes>>

\* The statement finds no row: sql.ErrNoRows, or "not found" of DeleteRule.
RowMissing(p) ==
    /\ \/ pc[p] \in {"get", "reread"}
       \/ pc[p] = "write" /\ req[p].kind = "delete"
    /\ conn = Nil
    /\ rows[req[p].tbl][rid[p]] = Nil
    /\ AnswerError(p)
    /\ UNCHANGED <<dbVars, conn, rulesMu, cacheVars, notify, acked, queryVars,
                   started, crashes>>

\* The statement fails: the client went away (r.Context() is cancelled), or
\* SQLite reports an error.
StatementFails(p) ==
    /\ pc[p] \in {"get", "write", "reread"}
    /\ AnswerError(p)
    /\ UNCHANGED <<dbVars, conn, rulesMu, cacheVars, notify, acked, queryVars,
                   started, crashes>>

-----------------------------------------------------------------------------
(***************************************************************************)
(* Reloader.Reload: Lock, SELECT the rules, install them, SELECT the hosts, *)
(* HostCache.Load, deferred Unlock.                                         *)
(***************************************************************************)

\* Mutant: Reload takes the read lock, so two Reloads overlap.
LockRulesShared(p) ==
    /\ pc[p] = "lock"
    /\ rulesMu' = p
    /\ pc' = [pc EXCEPT ![p] = "listRules"]
    /\ UNCHANGED <<dbVars, conn, cacheVars, notify, req, rid, cur, snap, snapVer, seen,
                   mine, acked, lost, queryVars, started, crashes>>

\* r.rules.mu.Lock().
LockRules(p) ==
    /\ pc[p] = "lock" /\ rulesMu = Nil
    /\ rulesMu' = p
    /\ pc' = [pc EXCEPT ![p] = "listRules"]
    /\ UNCHANGED <<dbVars, conn, cacheVars, notify, req, rid, cur, snap, snapVer, seen,
                   mine, acked, lost, queryVars, started, crashes>>

\* ListRules or ListHosts into the local slice; then step `then'.
List(p, t, then) ==
    /\ conn = Nil
    /\ snap' = [snap EXCEPT ![p] = rows[t]]
    /\ snapVer' = [snapVer EXCEPT ![p] = tver[t]]
    /\ pc' = [pc EXCEPT ![p] = then]
    /\ UNCHANGED <<dbVars, conn, rulesMu, cacheVars, notify, req, rid, cur, seen, mine,
                   acked, lost, queryVars, started, crashes>>

ListRules(p) == pc[p] = "listRules" /\ List(p, "rules", "loadRules")
ListHosts(p) == pc[p] = "listHosts" /\ List(p, "hosts", "loadHosts")

\* Mutant: Load adds to the old maps instead of building new ones.
InstallMerging(p, t) ==
    /\ cache' = [cache EXCEPT ![t] =
                    [i \in Ids |-> IF Load(snap[p])[i] = Nil THEN @[i] ELSE Load(snap[p])[i]]]
    /\ cver' = [cver EXCEPT ![t] = snapVer[p]]

\* The cache of table t now answers from what p has listed.
Install(p, t) ==
    /\ cache' = [cache EXCEPT ![t] = Load(snap[p])]
    /\ cver' = [cver EXCEPT ![t] = snapVer[p]]

\* Mutant: Reload returns after the rules and leaves the hosts alone.
LoadRulesOnly(p) ==
    /\ pc[p] = "loadRules"
    /\ Install(p, "rules")
    /\ pc' = [pc EXCEPT ![p] = "unlock"]
    /\ UNCHANGED <<dbVars, conn, rulesMu, notify, req, rid, cur, snap, snapVer, seen,
                   mine, acked, lost, queryVars, started, crashes>>

LoadRules(p) ==
    /\ pc[p] = "loadRules"
    /\ Install(p, "rules")
    /\ pc' = [pc EXCEPT ![p] = "listHosts"]
    /\ UNCHANGED <<dbVars, conn, rulesMu, notify, req, rid, cur, snap, snapVer, seen,
                   mine, acked, lost, queryVars, started, crashes>>

\* HostCache.Load has its own lock, held only for the two assignments.
LoadHosts(p) ==
    /\ pc[p] = "loadHosts"
    /\ Install(p, "hosts")
    /\ pc' = [pc EXCEPT ![p] = "unlock"]
    /\ UNCHANGED <<dbVars, conn, rulesMu, notify, req, rid, cur, snap, snapVer, seen,
                   mine, acked, lost, queryVars, started, crashes>>

\* One of the SELECTs fails: Reload returns the error, the lock is released
\* by the deferred Unlock, and a cache already installed stays.
ReloadFails(p) ==
    /\ pc[p] \in {"listRules", "listHosts"}
    /\ rulesMu' = Nil
    /\ AnswerError(p)
    /\ UNCHANGED <<dbVars, conn, cacheVars, notify, acked, queryVars, started, crashes>>

UnlockRules(p) ==
    /\ pc[p] = "unlock"
    /\ rulesMu' = Nil
    /\ pc' = [pc EXCEPT ![p] = "answer"]
    /\ UNCHANGED <<dbVars, conn, cacheVars, notify, req, rid, cur, snap, snapVer, seen,
                   mine, acked, lost, queryVars, started, crashes>>

\* Notify.Signal never blocks: a token already in the channel is enough.
Signal == notify' = 1

\* notify.Signal() and the 200 response; main() starts the servers instead.
AnswerOk(p) ==
    /\ pc[p] = "answer"
    /\ IF p = Main THEN UNCHANGED notify ELSE Signal
    /\ acked' = IF p = Main
                THEN acked
                ELSE [t \in Tables |-> IF acked[t] >= seen[p][t] THEN acked[t] ELSE seen[p][t]]
    /\ Forget(p)
    /\ UNCHANGED <<dbVars, conn, rulesMu, cacheVars, lost, queryVars, started, crashes>>

-----------------------------------------------------------------------------
(***************************************************************************)
(* Handler.Resolve, as far as it reads the caches.                         *)
(***************************************************************************)

QueryStart(q) ==
    /\ Serving /\ qpc[q] \in {"idle", "done"}
    /\ \E d \in Domains : qname' = [qname EXCEPT ![q] = d]
    /\ qpc' = [qpc EXCEPT ![q] = "lookup"]
    /\ qack' = [qack EXCEPT ![q] = [t \in Tables |-> IF cver[t] = 0 THEN 0 ELSE acked[t]]]
    /\ qview' = [qview EXCEPT ![q] = Zero]
    /\ route' = [route EXCEPT ![q] = Nil]
    /\ UNCHANGED <<dbVars, conn, rulesMu, cacheVars, notify, handlerVars, acked, lost,
                   started, crashes>>

Covers(t, d) == \E i \in Ids : cache[t][i] = d

\* resolveLocal: HostCache.Lookup under its read lock.
Lookup(q) ==
    /\ qpc[q] = "lookup"
    /\ qview' = [qview EXCEPT ![q]["hosts"] = cver["hosts"]]
    /\ \/ /\ Covers("hosts", qname[q])
          /\ qpc' = [qpc EXCEPT ![q] = "done"]
          /\ route' = [route EXCEPT ![q] = "local"]
       \/ /\ ~Covers("hosts", qname[q])
          /\ qpc' = [qpc EXCEPT ![q] = "match"]
          /\ UNCHANGED route
    /\ UNCHANGED <<dbVars, conn, rulesMu, cacheVars, notify, handlerVars, acked, lost,
                   qname, qack, started, crashes>>

\* RuleCache.Match: its read lock waits for a Reload in progress.  Without a
\* rule the default upstream is used.
Match(q) ==
    /\ qpc[q] = "match" /\ rulesMu = Nil
    /\ qview' = [qview EXCEPT ![q]["rules"] = cver["rules"]]
    /\ qpc' = [qpc EXCEPT ![q] = "done"]
    /\ route' = [route EXCEPT ![q] = IF Covers("rules", qname[q]) THEN "rule" ELSE "default"]
    /\ UNCHANGED <<dbVars, conn, rulesMu, cacheVars, notify, handlerVars, acked, lost,
                   qname, qack, started, crashes>>

-----------------------------------------------------------------------------
\* The process is killed and started again: every goroutine, lock and cache
\* is gone, committed statements stay, main() calls Reload.
Crash ==
    /\ crashes < MaxCrashes
    /\ crashes' = crashes + 1
    /\ conn' = Nil /\ rulesMu' = Nil
    /\ cache' = [t \in Tables |-> NoRows] /\ cver' = Zero
    /\ notify' = 0
    /\ pc' = [p \in Procs |-> IF p = Main THEN "lock" ELSE "idle"]
    /\ req' = [p \in Procs |-> Nil] /\ rid' = [p \in Procs |-> Nil]
    /\ cur' = [p \in Procs |-> Nil]
    /\ snap' = [p \in Procs |-> NoRows] /\ snapVer' = [p \in Procs |-> 0]
    /\ seen' = [p \in Procs |-> IF p = Main THEN tver ELSE Zero]
    /\ mine' = [p \in Procs |-> 0]
    /\ qpc' = [q \in Queries |-> "idle"] /\ qname' = [q \in Queries |-> Nil]
    /\ qack' = [q \in Queries |-> Zero] /\ qview' = [q \in Queries |-> Zero]
    /\ route' = [q \in Queries |-> Nil]
    /\ UNCHANGED <<dbVars, acked, lost, started>>

ReloadStep(p) ==
    \/ LockRules(p)
    \/ ListRules(p) \/ LoadRules(p)
    \/ ListHosts(p) \/ LoadHosts(p)
    \/ ReloadFails(p)
    \/ UnlockRules(p)
    \/ AnswerOk(p)

HandlerStep(p) ==
    \/ StartRequest(p) \/ StartReload(p)
    \/ BeginTx(p) \/ EndTx(p)
    \/ GetForUpdate(p) \/ Insert(p) \/ Update(p) \/ Delete(p) \/ Reread(p)
    \/ RowMissing(p) \/ StatementFails(p)

QueryStep(q) == QueryStart(q) \/ Lookup(q) \/ Match(q)

Next ==
    \/ \E p \in Procs : ReloadStep(p)
    \/ \E p \in Admins : HandlerStep(p)
    \/ \E q \in Queries : QueryStep(q)
    \/ Crash

Spec == Init /\ [][Next]_vars

(***************************************************************************)
(* Fairness.  A goroutine that can run is scheduled; a waiter for          *)
(* RuleCache.mu or for the connection gets it in the end, because Go's     *)
(* RWMutex lets in the readers that waited for a writer and hands over to  *)
(* a starving writer, and database/sql serves every queued request of the  *)
(* pool.  Nothing makes requests, questions, failures or crashes happen.   *)
(***************************************************************************)
HandlerProgress(p) ==
    \/ EndTx(p) \/ GetForUpdate(p) \/ Insert(p) \/ Update(p) \/ Delete(p)
    \/ Reread(p) \/ RowMissing(p)
    \/ LockRules(p) \/ ListRules(p) \/ LoadRules(p) \/ ListHosts(p) \/ LoadHosts(p)
    \/ UnlockRules(p) \/ AnswerOk(p)

QueryProgress(q) == Lookup(q) \/ Match(q)

Fairness ==
    /\ \A p \in Procs : SF_vars(HandlerProgress(p))
    /\ \A q \in Queries : SF_vars(QueryProgress(q))

FairSpec == Spec /\ Fairness

-----------------------------------------------------------------------------
(***************************************************************************)
(* Properties.                                                             *)
(***************************************************************************)

PcValues == {"idle", "up", "tx", "get", "write", "reread", "lock", "listRules",
             "loadRules", "listHosts", "loadHosts", "unlock", "answer"}

Versions  == [Tables -> Nat]

\* Every variable keeps its type; in particular the connection and the
\* cache lock are held by a goroutine that exists, or free.
TypeOK ==
    /\ rows \in [Tables -> Snapshots]
    /\ nextId \in Versions
    /\ tver \in Versions /\ cver \in Versions /\ acked \in Versions
    /\ lost \in Versions
    /\ conn \in Procs \cup {Nil} /\ rulesMu \in Procs \cup {Nil}
    /\ cache \in [Tables -> [Ids -> Domains \cup {Nil}]]
    /\ notify \in {0, 1}
    /\ pc \in [Procs -> PcValues]
    /\ req \in [Procs -> Requests \cup {Nil}]
    /\ rid \in [Procs -> Ids \cup {Nil}]
    /\ cur \in [Procs -> Row \cup {Nil}]
    /\ snap \in [Procs -> Snapshots] /\ snapVer \in [Procs -> Nat]
    /\ seen \in [Procs -> Versions] /\ mine \in [Procs -> Nat]
    /\ qpc \in [Queries -> {"idle", "lookup", "match", "done"}]
    /\ qname \in [Queries -> Domains \cup {Nil}]
    /\ qack \in [Queries -> Versions] /\ qview \in [Queries -> Versions]
    /\ route \in [Queries -> {"local", "rule", "default", Nil}]
    /\ started \in Nat /\ crashes \in Nat

\* Once a handler has answered "ok", the caches hold every write committed
\* before it called Reload, its own included, and never lose it again while
\* the process runs: concurrent Reloads cannot put an older list back.
\* (After a restart this starts when the cache is first loaded.)
AckedServed == \A t \in Tables : cver[t] # 0 => acked[t] <= cver[t]

\* A question that arrives after an "ok" is answered from caches that have
\* the acknowledged change: the host cache when resolveLocal looks it up,
\* and the rule cache when the question went on to Match.
QueryFresh ==
    \A q \in Queries :
        /\ qpc[q] \in {"match", "done"} => qack[q]["hosts"] <= qview[q]["hosts"]
        /\ route[q] \in {"rule", "default"} => qack[q]["rules"] <= qview[q]["rules"]

\* Where a goroutine that wrote table t still has to read t for the cache.
BeforeInstall(t) ==
    {"reread", "lock", "listRules", "loadRules"}
        \cup (IF t = "hosts" THEN {"listHosts", "loadHosts"} ELSE {})

\* A cache is behind its table only while the goroutine that made the last
\* write is on its way to install it, or when that goroutine answered with
\* an error, or while it has not been loaded since the process started.
\* No handler reports success, or ends silently, and leaves the cache behind.
StaleExplained ==
    \A t \in Tables :
        \/ cver[t] = tver[t]
        \/ lost[t] = tver[t]
        \/ cver[t] = 0
        \/ \E p \in Admins : /\ req[p] # Nil /\ mine[p] = tver[t]
                             /\ req[p].tbl = t /\ pc[p] \in BeforeInstall(t)

\* A cache that is up to date holds exactly the enabled rows of its table:
\* nothing left over from an earlier load, nothing missing.
FreshCacheIsTable ==
    \A t \in Tables : cver[t] = tver[t] => cache[t] = Load(rows[t])

\* An id whose row was deleted never has a row again: an update that read
\* the row before a concurrent delete does not bring it back, and
\* AUTOINCREMENT does not reuse the id.
NoResurrection ==
    [][\A t \in Tables, i \in Ids :
          (i < nextId[t] /\ rows[t][i] = Nil) => rows'[t][i] = Nil]_vars

\* The plane implements the abstract register: caches only move forward, to
\* committed versions, and only published versions are acknowledged.
Register == INSTANCE ConfigRegister
    WITH Tables <- Tables, tver <- tver, cver <- cver, acked <- acked
ImplementsRegister == Register!Spec

\* Every question is answered: it waits for a Reload that holds the cache
\* lock, which waits for the connection, which a transaction gives back.
QueriesAnswered ==
    \A q \in Queries : qpc[q] = "lookup" ~> qpc[q] \in {"done", "idle"}

\* Every admin request ends, whatever else is going on.
HandlersAnswer == \A p \in Admins : pc[p] # "idle" ~> pc[p] = "idle"

\* Every committed write is served in the end, unless its client was told
\* that something failed or the process never managed to load the cache.
CacheConverges ==
    \A t \in Tables :
        cver[t] # tver[t] ~> cver[t] = tver[t] \/ lost[t] = tver[t] \/ cver[t] = 0

-----------------------------------------------------------------------------
(***************************************************************************)
(* The inductive invariant behind the safety properties, in parts.         *)
(***************************************************************************)

\* What a handler knows about its own request at each point.
HandlerInv ==
    \A p \in Procs :
        /\ pc[p] \in {"get", "write", "reread"} => req[p] # Nil
        /\ pc[p] = "get" => req[p].kind = "update"
        /\ pc[p] \in {"get", "reread"} => rid[p] # Nil
        /\ pc[p] = "reread" => req[p].kind # "delete"
        /\ (pc[p] = "write" /\ req[p].kind # "create") => rid[p] # Nil
        /\ (pc[p] = "write" /\ req[p].kind # "delete") => cur[p] # Nil
        /\ mine[p] # 0 => req[p] # Nil

\* RuleCache.mu has one writer, the goroutine inside Reload.
LockInv ==
    \A p \in Procs :
        pc[p] \in {"listRules", "loadRules", "listHosts", "loadHosts", "unlock"}
        <=> rulesMu = p

\* A list read under the lock is no older than the cache it will replace,
\* and no older than what the goroutine saw when it called Reload; after
\* the installation this holds of the cache itself.
VersionInv ==
    /\ \A t \in Tables : 1 <= tver[t] /\ cver[t] <= tver[t] /\ acked[t] <= tver[t]
    /\ \A p \in Procs :
          /\ \A t \in Tables : seen[p][t] <= tver[t]
          /\ pc[p] = "loadRules" =>
                /\ cver["rules"] <= snapVer[p] /\ snapVer[p] <= tver["rules"]
                /\ seen[p]["rules"] <= snapVer[p] /\ acked["rules"] <= snapVer[p]
          /\ pc[p] = "loadHosts" =>
                /\ cver["hosts"] <= snapVer[p] /\ snapVer[p] <= tver["hosts"]
                /\ seen[p]["hosts"] <= snapVer[p] /\ acked["hosts"] <= snapVer[p]
          /\ pc[p] \in {"listHosts", "loadHosts", "unlock", "answer"} =>
                seen[p]["rules"] <= cver["rules"]
          /\ pc[p] \in {"unlock", "answer"} => seen[p]["hosts"] <= cver["hosts"]

\* A list that is up to date when it is installed is the table.
SnapshotInv ==
    \A p \in Procs :
        /\ (pc[p] = "loadRules" /\ snapVer[p] = tver["rules"]) => snap[p] = rows["rules"]
        /\ (pc[p] = "loadHosts" /\ snapVer[p] = tver["hosts"]) => snap[p] = rows["hosts"]

\* A question on its way will read a cache that has what was acknowledged.
QueryInv ==
    \A q \in Queries :
        /\ qpc[q] = "lookup" => qack[q]["hosts"] <= cver["hosts"]
        /\ qpc[q] \in {"lookup", "match"} => qack[q]["rules"] <= cver["rules"]
        /\ qpc[q] \in {"idle", "lookup", "match"} => route[q] = Nil

\* A goroutine's own write is no newer than the table and, from the call of
\* Reload on, no newer than what it saw then; neither is a write that was
\* answered with an error.
MineInv ==
    /\ \A t \in Tables : lost[t] <= tver[t]
    /\ \A p \in Procs :
          /\ pc[p] \in {"idle", "tx", "up"} => mine[p] = 0
          /\ mine[p] # 0 => mine[p] <= tver[req[p].tbl]
          /\ (mine[p] # 0 /\ pc[p] \notin {"get", "write", "reread"}) =>
                mine[p] <= seen[p][req[p].tbl]

\* The goroutine that made the last write to t is on its way to install it.
WriterOnItsWay(t) ==
    \E p \in Admins : /\ req[p] # Nil /\ mine[p] = tver[t]
                      /\ req[p].tbl = t /\ pc[p] \in BeforeInstall(t)

InstallPc(t) == IF t = "rules" THEN "loadRules" ELSE "loadHosts"

\* StaleExplained for every table, where a cache that was never loaded
\* counts only as long as no older list is about to be loaded into it.
StaleInv ==
    \A t \in Tables :
        \/ cver[t] = tver[t]
        \/ lost[t] = tver[t]
        \/ cver[t] = 0 /\ \A p \in Procs : pc[p] = InstallPc(t) => snapVer[p] = tver[t]
        \/ WriterOnItsWay(t)

\* Reloads are serialised, what they list and install only moves forward,
\* and every write has somebody who installs it or reports an error:
\* everything the safety properties rest on.
IndInv ==
    /\ TypeOK
    /\ HandlerInv /\ LockInv /\ VersionInv /\ SnapshotInv /\ QueryInv
    /\ MineInv /\ StaleInv
    /\ AckedServed /\ QueryFresh /\ FreshCacheIsTable

=============================================================================
