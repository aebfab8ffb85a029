-------------------------- MODULE ConfigPlaneProofs --------------------------
(***************************************************************************)
(* Proofs about ConfigPlane, for any number of goroutines, questions,      *)
(* names, requests and crashes.                                            *)
(***************************************************************************)
EXTENDS ConfigPlane, TLAPS

-----------------------------------------------------------------------------
(***************************************************************************)
(* Facts about the data.                                                   *)
(***************************************************************************)

\* What a request carries, by its kind.
LEMMA RequestFacts ==
    ASSUME NEW r \in Requests
    PROVE  /\ r.tbl \in Tables
           /\ r.kind \in {"create", "update", "delete"}
           /\ r.kind = "create" => r.row \in Row
           /\ r.kind = "update" => r.id \in Ids /\ r.patch \in Patch
           /\ r.kind = "delete" => r.id \in Ids
  BY DEF Requests

\* Patching a row leaves a row.
LEMMA ApplyType ==
    ASSUME NEW row \in Row, NEW patch \in Patch
    PROVE  Apply(row, patch) \in Row
  <1>1. /\ row.domain \in Domains /\ row.enabled \in BOOLEAN
        /\ patch.domain \in Domains \cup {Nil} /\ patch.enabled \in BOOLEAN \cup {Nil}
    BY DEF Row, Patch
  <1>2. /\ (IF patch.domain = Nil THEN row.domain ELSE patch.domain) \in Domains
        /\ (IF patch.enabled = Nil THEN row.enabled ELSE patch.enabled) \in BOOLEAN
    BY <1>1
  <1> QED  BY <1>2 DEF Apply, Row

\* Loading a list of rows gives the domain of each enabled one.
LEMMA LoadType ==
    ASSUME NEW f \in Snapshots
    PROVE  Load(f) \in [Ids -> Domains \cup {Nil}]
  <1>1. ASSUME NEW i \in Ids
        PROVE  (IF f[i] = Nil \/ ~f[i].enabled THEN Nil ELSE f[i].domain)
                    \in Domains \cup {Nil}
    BY DEF Snapshots, Row
  <1> QED  BY <1>1 DEF Load

\* The empty table is a table, the empty cache a cache.
LEMMA EmptyTypes ==
    /\ NoRows \in Snapshots
    /\ NoRows \in [Ids -> Domains \cup {Nil}]
    /\ Zero \in Versions
  BY DEF NoRows, Snapshots, Zero, Versions

\* No goroutine is Nil.
LEMMA NilIsNoProc == \A p \in Procs : p # Nil
  BY ConstantsAssumption

-----------------------------------------------------------------------------
(***************************************************************************)
(* Type correctness.                                                       *)
(***************************************************************************)
\* The initial state is typed.
LEMMA TypeInit == Init => TypeOK
  <1> SUFFICES ASSUME Init PROVE TypeOK
    OBVIOUS
  <1>1. /\ rows \in [Tables -> Snapshots] /\ nextId \in Versions /\ tver \in Versions
        /\ cver \in Versions /\ acked \in Versions /\ lost \in Versions
    BY EmptyTypes, ConstantsAssumption DEF Init, Versions
  <1>2. cache \in [Tables -> [Ids -> Domains \cup {Nil}]]
    BY EmptyTypes DEF Init
  <1>3. /\ pc \in [Procs -> PcValues]
        /\ req \in [Procs -> Requests \cup {Nil}]
        /\ rid \in [Procs -> Ids \cup {Nil}]
        /\ cur \in [Procs -> Row \cup {Nil}]
        /\ snap \in [Procs -> Snapshots] /\ snapVer \in [Procs -> Nat]
        /\ mine \in [Procs -> Nat]
    BY EmptyTypes DEF Init, PcValues
  <1>4. seen \in [Procs -> Versions]
    BY <1>1, EmptyTypes DEF Init
  <1>5. /\ qpc \in [Queries -> {"idle", "lookup", "match", "done"}]
        /\ qname \in [Queries -> Domains \cup {Nil}]
        /\ qack \in [Queries -> Versions] /\ qview \in [Queries -> Versions]
        /\ route \in [Queries -> {"local", "rule", "default", Nil}]
    BY EmptyTypes DEF Init
  <1> QED  BY <1>1, <1>2, <1>3, <1>4, <1>5 DEF Init, TypeOK

\* A committed statement leaves tables, versions and the history typed.
LEMMA CommittedType ==
    ASSUME TypeOK, NEW p \in Procs, NEW t \in Tables, NEW i \in Ids,
           NEW row \in Row \cup {Nil}, Committed(p, t, i, row)
    PROVE  /\ rows' \in [Tables -> Snapshots]
           /\ tver' \in Versions
           /\ mine' \in [Procs -> Nat]
  <1>1. [rows[t] EXCEPT ![i] = row] \in Snapshots
    BY DEF TypeOK, Snapshots
  <1>2. rows' \in [Tables -> Snapshots]
    BY <1>1 DEF Committed, TypeOK
  <1>3. tver[t] \in Nat
    BY DEF TypeOK, Versions
  <1>4. tver' \in Versions
    BY <1>3 DEF Committed, TypeOK, Versions
  <1>5. mine' \in [Procs -> Nat]
    BY <1>3 DEF Committed, TypeOK
  <1> QED  BY <1>2, <1>4, <1>5

\* So does the installation of a list.
LEMMA InstallType ==
    ASSUME TypeOK, NEW p \in Procs, NEW t \in Tables, Install(p, t)
    PROVE  /\ cache' \in [Tables -> [Ids -> Domains \cup {Nil}]]
           /\ cver' \in Versions
  <1>1. Load(snap[p]) \in [Ids -> Domains \cup {Nil}] /\ snapVer[p] \in Nat
    BY LoadType DEF TypeOK
  <1> QED  BY <1>1 DEF Install, TypeOK, Versions

\* The request of a handler that works on the table.
LEMMA AtTable ==
    ASSUME TypeOK, HandlerInv, NEW p \in Procs, pc[p] \in {"get", "write", "reread"}
    PROVE  /\ req[p] \in Requests /\ req[p].tbl \in Tables
           /\ req[p].kind \in {"create", "update", "delete"}
           /\ (pc[p] # "write" \/ req[p].kind # "create") => rid[p] \in Ids
           /\ pc[p] = "get" => req[p].kind = "update" /\ req[p].patch \in Patch
           /\ (pc[p] = "write" /\ req[p].kind # "delete") => cur[p] \in Row
  <1>1. req[p] \in Requests
    BY DEF TypeOK, HandlerInv
  <1> QED  BY <1>1, RequestFacts DEF TypeOK, HandlerInv

\* The row UpdateRule is about to write.
LEMMA PatchedRow ==
    ASSUME TypeOK, HandlerInv, NEW p \in Procs, pc[p] = "get",
           rows[req[p].tbl][rid[p]] # Nil
    PROVE  Apply(rows[req[p].tbl][rid[p]], req[p].patch) \in Row
  <1>1. rows[req[p].tbl][rid[p]] \in Row
    BY AtTable DEF TypeOK, Snapshots
  <1> QED  BY <1>1, AtTable, ApplyType

\* Every step keeps the types.
LEMMA TypeStep == TypeOK /\ HandlerInv /\ [Next]_vars => TypeOK'
  <1> SUFFICES ASSUME TypeOK, HandlerInv, [Next]_vars PROVE TypeOK'
    OBVIOUS
  <1> USE DEF TypeOK, dbVars, cacheVars, handlerVars, queryVars
  <1>1. ASSUME NEW p \in Procs, StartRequest(p) PROVE TypeOK'
    BY <1>1, RequestFacts DEF StartRequest, PcValues
  <1>2. ASSUME NEW p \in Procs, StartReload(p) PROVE TypeOK'
    BY <1>2 DEF StartReload, CallReload, PcValues
  <1>3. ASSUME NEW p \in Procs, BeginTx(p) PROVE TypeOK'
    BY <1>3 DEF BeginTx, PcValues
  <1>4. ASSUME NEW p \in Procs, EndTx(p) PROVE TypeOK'
    BY <1>4 DEF EndTx, PcValues
  <1>5. ASSUME NEW p \in Procs, GetForUpdate(p) PROVE TypeOK'
    <2>1. Apply(rows[req[p].tbl][rid[p]], req[p].patch) \in Row
      BY <1>5, PatchedRow DEF GetForUpdate
    <2>2. cur' \in [Procs -> Row \cup {Nil}]
      BY <1>5, <2>1 DEF GetForUpdate
    <2> QED  BY <1>5, <2>2 DEF GetForUpdate, PcValues
  <1>6. ASSUME NEW p \in Procs, Insert(p) PROVE TypeOK'
    <2>1. /\ pc[p] = "write" /\ req[p].kind = "create" /\ nextId[req[p].tbl] \in Ids
          /\ Committed(p, req[p].tbl, nextId[req[p].tbl], cur[p])
      BY <1>6 DEF Insert
    <2>2. /\ rows' \in [Tables -> Snapshots] /\ tver' \in Versions
          /\ mine' \in [Procs -> Nat]
      BY <2>1, AtTable, CommittedType
    <2>3. nextId' \in Versions /\ rid' \in [Procs -> Ids \cup {Nil}]
      BY <1>6, <2>1, AtTable DEF Insert, Versions
    <2> QED  BY <1>6, <2>2, <2>3 DEF Insert, PcValues
  <1>7. ASSUME NEW p \in Procs, Update(p) PROVE TypeOK'
    <2>1. pc[p] = "write" /\ req[p].kind = "update"
      BY <1>7 DEF Update
    <2>2. \/ Committed(p, req[p].tbl, rid[p], cur[p])
          \/ UNCHANGED <<rows, tver, mine>>
      BY <1>7 DEF Update
    <2>3. /\ rows' \in [Tables -> Snapshots] /\ tver' \in Versions
          /\ mine' \in [Procs -> Nat]
      BY <2>1, <2>2, AtTable, CommittedType
    <2> QED  BY <1>7, <2>3 DEF Update, PcValues
  <1>8. ASSUME NEW p \in Procs, Delete(p) PROVE TypeOK'
    <2>1. /\ pc[p] = "write" /\ req[p].kind = "delete"
          /\ Committed(p, req[p].tbl, rid[p], Nil)
      BY <1>8 DEF Delete
    <2>2. /\ rows' \in [Tables -> Snapshots] /\ tver' \in Versions
          /\ mine' \in [Procs -> Nat]
      BY <2>1, AtTable, CommittedType
    <2>3. seen' \in [Procs -> Versions]
      BY <1>8, <2>2 DEF Delete, CallReload
    <2> QED  BY <1>8, <2>2, <2>3 DEF Delete, CallReload, PcValues
  <1>9. ASSUME NEW p \in Procs, Reread(p) PROVE TypeOK'
    BY <1>9 DEF Reread, CallReload, PcValues
  <1>10. ASSUME NEW p \in Procs, RowMissing(p) PROVE TypeOK'
    BY <1>10, RequestFacts, EmptyTypes
    DEF RowMissing, AnswerError, Forget, HandlerInv, PcValues, Versions
  <1>11. ASSUME NEW p \in Procs, StatementFails(p) PROVE TypeOK'
    BY <1>11, RequestFacts, EmptyTypes
    DEF StatementFails, AnswerError, Forget, HandlerInv, PcValues, Versions
  <1>12. ASSUME NEW p \in Procs, LockRules(p) PROVE TypeOK'
    BY <1>12 DEF LockRules, PcValues
  <1>13. ASSUME NEW p \in Procs, ListRules(p) PROVE TypeOK'
    BY <1>13 DEF ListRules, List, Tables, PcValues, Versions
  <1>14. ASSUME NEW p \in Procs, LoadRules(p) PROVE TypeOK'
    <2>1. /\ cache' \in [Tables -> [Ids -> Domains \cup {Nil}]] /\ cver' \in Versions
      BY <1>14, InstallType DEF LoadRules, Tables
    <2> QED  BY <1>14, <2>1 DEF LoadRules, PcValues
  <1>15. ASSUME NEW p \in Procs, ListHosts(p) PROVE TypeOK'
    BY <1>15 DEF ListHosts, List, Tables, PcValues, Versions
  <1>16. ASSUME NEW p \in Procs, LoadHosts(p) PROVE TypeOK'
    <2>1. /\ cache' \in [Tables -> [Ids -> Domains \cup {Nil}]] /\ cver' \in Versions
      BY <1>16, InstallType DEF LoadHosts, Tables
    <2> QED  BY <1>16, <2>1 DEF LoadHosts, PcValues
  <1>17. ASSUME NEW p \in Procs, ReloadFails(p) PROVE TypeOK'
    BY <1>17, RequestFacts, EmptyTypes
    DEF ReloadFails, AnswerError, Forget, HandlerInv, PcValues, Versions
  <1>18. ASSUME NEW p \in Procs, UnlockRules(p) PROVE TypeOK'
    BY <1>18 DEF UnlockRules, PcValues
  <1>19. ASSUME NEW p \in Procs, AnswerOk(p) PROVE TypeOK'
    BY <1>19, EmptyTypes DEF AnswerOk, Signal, Forget, PcValues, Versions
  <1>20. ASSUME NEW q \in Queries, QueryStart(q) PROVE TypeOK'
    BY <1>20, EmptyTypes DEF QueryStart, Versions
  <1>21. ASSUME NEW q \in Queries, Lookup(q) PROVE TypeOK'
    <2>1. qview[q] \in Versions /\ cver["hosts"] \in Nat
      BY DEF Versions, Tables
    <2>2. [qview[q] EXCEPT !["hosts"] = cver["hosts"]] \in Versions
      BY <2>1 DEF Versions
    <2>3. qview' \in [Queries -> Versions]
      BY <1>21, <2>2 DEF Lookup
    <2>4. /\ qpc' \in [Queries -> {"idle", "lookup", "match", "done"}]
          /\ route' \in [Queries -> {"local", "rule", "default", Nil}]
      BY <1>21 DEF Lookup
    <2> QED  BY <1>21, <2>3, <2>4 DEF Lookup
  <1>22. ASSUME NEW q \in Queries, Match(q) PROVE TypeOK'
    BY <1>22, EmptyTypes DEF Match, Versions
  <1>23. ASSUME Crash PROVE TypeOK'
    BY <1>23, EmptyTypes DEF Crash, PcValues
  <1>24. ASSUME UNCHANGED vars PROVE TypeOK'
    BY <1>24 DEF vars
  <1> QED
    BY <1>1, <1>2, <1>3, <1>4, <1>5, <1>6, <1>7, <1>8, <1>9, <1>10, <1>11, <1>12, <1>13,
       <1>14, <1>15, <1>16, <1>17, <1>18, <1>19, <1>20, <1>21, <1>22, <1>23, <1>24
    DEF Next, ReloadStep, HandlerStep, QueryStep, Procs

\* A handler's knowledge of its request survives every step.
LEMMA HandlerStepInv == TypeOK /\ HandlerInv /\ [Next]_vars => HandlerInv'
  <1> SUFFICES ASSUME TypeOK, HandlerInv, [Next]_vars PROVE HandlerInv'
    OBVIOUS
  <1> USE DEF TypeOK, HandlerInv, dbVars, cacheVars, handlerVars, queryVars
  <1>1. ASSUME NEW p \in Procs, StartRequest(p) PROVE HandlerInv'
    BY <1>1, RequestFacts, ConstantsAssumption DEF StartRequest
  <1>2. ASSUME NEW p \in Procs, StartReload(p) PROVE HandlerInv'
    BY <1>2 DEF StartReload, CallReload
  <1>3. ASSUME NEW p \in Procs, BeginTx(p) PROVE HandlerInv'
    BY <1>3 DEF BeginTx
  <1>4. ASSUME NEW p \in Procs, EndTx(p) PROVE HandlerInv'
    BY <1>4 DEF EndTx
  <1>5. ASSUME NEW p \in Procs, GetForUpdate(p) PROVE HandlerInv'
    BY <1>5, PatchedRow, ConstantsAssumption DEF GetForUpdate
  <1>6. ASSUME NEW p \in Procs, Insert(p) PROVE HandlerInv'
    BY <1>6, AtTable, ConstantsAssumption DEF Insert, Committed
  <1>7. ASSUME NEW p \in Procs, Update(p) PROVE HandlerInv'
    BY <1>7 DEF Update, Committed
  <1>8. ASSUME NEW p \in Procs, Delete(p) PROVE HandlerInv'
    BY <1>8 DEF Delete, Committed, CallReload
  <1>9. ASSUME NEW p \in Procs, Reread(p) PROVE HandlerInv'
    BY <1>9 DEF Reread, CallReload
  <1>10. ASSUME NEW p \in Procs, RowMissing(p) PROVE HandlerInv'
    BY <1>10 DEF RowMissing, AnswerError, Forget
  <1>11. ASSUME NEW p \in Procs, StatementFails(p) PROVE HandlerInv'
    BY <1>11 DEF StatementFails, AnswerError, Forget
  <1>12. ASSUME NEW p \in Procs, LockRules(p) PROVE HandlerInv'
    BY <1>12 DEF LockRules
  <1>13. ASSUME NEW p \in Procs, ListRules(p) PROVE HandlerInv'
    BY <1>13 DEF ListRules, List
  <1>14. ASSUME NEW p \in Procs, LoadRules(p) PROVE HandlerInv'
    BY <1>14 DEF LoadRules, Install
  <1>15. ASSUME NEW p \in Procs, ListHosts(p) PROVE HandlerInv'
    BY <1>15 DEF ListHosts, List
  <1>16. ASSUME NEW p \in Procs, LoadHosts(p) PROVE HandlerInv'
    BY <1>16 DEF LoadHosts, Install
  <1>17. ASSUME NEW p \in Procs, ReloadFails(p) PROVE HandlerInv'
    BY <1>17 DEF ReloadFails, AnswerError, Forget
  <1>18. ASSUME NEW p \in Procs, UnlockRules(p) PROVE HandlerInv'
    BY <1>18 DEF UnlockRules
  <1>19. ASSUME NEW p \in Procs, AnswerOk(p) PROVE HandlerInv'
    BY <1>19 DEF AnswerOk, Forget
  <1>20. ASSUME NEW q \in Queries, QueryStart(q) PROVE HandlerInv'
    BY <1>20 DEF QueryStart
  <1>21. ASSUME NEW q \in Queries, Lookup(q) PROVE HandlerInv'
    BY <1>21 DEF Lookup
  <1>22. ASSUME NEW q \in Queries, Match(q) PROVE HandlerInv'
    BY <1>22 DEF Match
  <1>23. ASSUME Crash PROVE HandlerInv'
    BY <1>23 DEF Crash
  <1>24. ASSUME UNCHANGED vars PROVE HandlerInv'
    BY <1>24 DEF vars
  <1> QED
    BY <1>1, <1>2, <1>3, <1>4, <1>5, <1>6, <1>7, <1>8, <1>9, <1>10, <1>11, <1>12,
       <1>13, <1>14, <1>15, <1>16, <1>17, <1>18, <1>19, <1>20, <1>21, <1>22, <1>23,
       <1>24
    DEF Next, ReloadStep, HandlerStep, QueryStep, Procs

\* At most one goroutine is inside Reload's critical section.
LEMMA LockStepInv == TypeOK /\ LockInv /\ [Next]_vars => LockInv'
  <1> SUFFICES ASSUME TypeOK, LockInv, [Next]_vars PROVE LockInv'
    OBVIOUS
  <1> USE DEF TypeOK, LockInv, dbVars, cacheVars, handlerVars, queryVars
  <1>1. ASSUME NEW p \in Procs, StartRequest(p) PROVE LockInv'
    BY <1>1 DEF StartRequest
  <1>2. ASSUME NEW p \in Procs, StartReload(p) PROVE LockInv'
    BY <1>2 DEF StartReload, CallReload
  <1>3. ASSUME NEW p \in Procs, BeginTx(p) PROVE LockInv'
    BY <1>3 DEF BeginTx
  <1>4. ASSUME NEW p \in Procs, EndTx(p) PROVE LockInv'
    BY <1>4 DEF EndTx
  <1>5. ASSUME NEW p \in Procs, GetForUpdate(p) PROVE LockInv'
    BY <1>5 DEF GetForUpdate
  <1>6. ASSUME NEW p \in Procs, Insert(p) PROVE LockInv'
    BY <1>6 DEF Insert, Committed
  <1>7. ASSUME NEW p \in Procs, Update(p) PROVE LockInv'
    BY <1>7 DEF Update, Committed
  <1>8. ASSUME NEW p \in Procs, Delete(p) PROVE LockInv'
    BY <1>8 DEF Delete, Committed, CallReload
  <1>9. ASSUME NEW p \in Procs, Reread(p) PROVE LockInv'
    BY <1>9 DEF Reread, CallReload
  <1>10. ASSUME NEW p \in Procs, RowMissing(p) PROVE LockInv'
    BY <1>10 DEF RowMissing, AnswerError, Forget
  <1>11. ASSUME NEW p \in Procs, StatementFails(p) PROVE LockInv'
    BY <1>11 DEF StatementFails, AnswerError, Forget
  <1>12. ASSUME NEW p \in Procs, LockRules(p) PROVE LockInv'
    BY <1>12, NilIsNoProc DEF LockRules
  <1>13. ASSUME NEW p \in Procs, ListRules(p) PROVE LockInv'
    BY <1>13 DEF ListRules, List
  <1>14. ASSUME NEW p \in Procs, LoadRules(p) PROVE LockInv'
    BY <1>14 DEF LoadRules, Install
  <1>15. ASSUME NEW p \in Procs, ListHosts(p) PROVE LockInv'
    BY <1>15 DEF ListHosts, List
  <1>16. ASSUME NEW p \in Procs, LoadHosts(p) PROVE LockInv'
    BY <1>16 DEF LoadHosts, Install
  <1>17. ASSUME NEW p \in Procs, ReloadFails(p) PROVE LockInv'
    BY <1>17, NilIsNoProc DEF ReloadFails, AnswerError, Forget
  <1>18. ASSUME NEW p \in Procs, UnlockRules(p) PROVE LockInv'
    BY <1>18, NilIsNoProc DEF UnlockRules
  <1>19. ASSUME NEW p \in Procs, AnswerOk(p) PROVE LockInv'
    BY <1>19 DEF AnswerOk, Forget
  <1>20. ASSUME NEW q \in Queries, QueryStart(q) PROVE LockInv'
    BY <1>20 DEF QueryStart
  <1>21. ASSUME NEW q \in Queries, Lookup(q) PROVE LockInv'
    BY <1>21 DEF Lookup
  <1>22. ASSUME NEW q \in Queries, Match(q) PROVE LockInv'
    BY <1>22 DEF Match
  <1>23. ASSUME Crash PROVE LockInv'
    BY <1>23, NilIsNoProc DEF Crash
  <1>24. ASSUME UNCHANGED vars PROVE LockInv'
    BY <1>24 DEF vars
  <1> QED
    BY <1>1, <1>2, <1>3, <1>4, <1>5, <1>6, <1>7, <1>8, <1>9, <1>10, <1>11, <1>12,
       <1>13, <1>14, <1>15, <1>16, <1>17, <1>18, <1>19, <1>20, <1>21, <1>22, <1>23,
       <1>24
    DEF Next, ReloadStep, HandlerStep, QueryStep, Procs

\* Lists and caches only move forward.
LEMMA VersionStep == TypeOK /\ LockInv /\ VersionInv /\ [Next]_vars => VersionInv'
  <1> SUFFICES ASSUME TypeOK, LockInv, VersionInv, [Next]_vars PROVE VersionInv'
    OBVIOUS
  <1> USE DEF TypeOK, LockInv, VersionInv, Tables, Versions, Zero, dbVars, cacheVars,
          handlerVars, queryVars
  <1>1. ASSUME NEW p \in Procs, StartRequest(p) PROVE VersionInv'
    BY <1>1 DEF StartRequest
  <1>2. ASSUME NEW p \in Procs, StartReload(p) PROVE VersionInv'
    BY <1>2 DEF StartReload, CallReload
  <1>3. ASSUME NEW p \in Procs, BeginTx(p) PROVE VersionInv'
    BY <1>3 DEF BeginTx
  <1>4. ASSUME NEW p \in Procs, EndTx(p) PROVE VersionInv'
    BY <1>4 DEF EndTx
  <1>5. ASSUME NEW p \in Procs, GetForUpdate(p) PROVE VersionInv'
    BY <1>5 DEF GetForUpdate
  <1>6. ASSUME NEW p \in Procs, Insert(p) PROVE VersionInv'
    BY <1>6 DEF Insert, Committed
  <1>7. ASSUME NEW p \in Procs, Update(p) PROVE VersionInv'
    BY <1>7, SMTT(30) DEF Update, Committed
  <1>8. ASSUME NEW p \in Procs, Delete(p) PROVE VersionInv'
    BY <1>8, SMTT(30) DEF Delete, Committed, CallReload
  <1>9. ASSUME NEW p \in Procs, Reread(p) PROVE VersionInv'
    BY <1>9 DEF Reread, CallReload
  <1>10. ASSUME NEW p \in Procs, RowMissing(p) PROVE VersionInv'
    BY <1>10 DEF RowMissing, AnswerError, Forget
  <1>11. ASSUME NEW p \in Procs, StatementFails(p) PROVE VersionInv'
    BY <1>11 DEF StatementFails, AnswerError, Forget
  <1>12. ASSUME NEW p \in Procs, LockRules(p) PROVE VersionInv'
    BY <1>12 DEF LockRules
  <1>13. ASSUME NEW p \in Procs, ListRules(p) PROVE VersionInv'
    BY <1>13 DEF ListRules, List
  <1>14. ASSUME NEW p \in Procs, LoadRules(p) PROVE VersionInv'
    BY <1>14 DEF LoadRules, Install
  <1>15. ASSUME NEW p \in Procs, ListHosts(p) PROVE VersionInv'
    BY <1>15 DEF ListHosts, List
  <1>16. ASSUME NEW p \in Procs, LoadHosts(p) PROVE VersionInv'
    BY <1>16 DEF LoadHosts, Install
  <1>17. ASSUME NEW p \in Procs, ReloadFails(p) PROVE VersionInv'
    BY <1>17 DEF ReloadFails, AnswerError, Forget
  <1>18. ASSUME NEW p \in Procs, UnlockRules(p) PROVE VersionInv'
    BY <1>18 DEF UnlockRules
  <1>19. ASSUME NEW p \in Procs, AnswerOk(p) PROVE VersionInv'
    BY <1>19 DEF AnswerOk, Forget
  <1>20. ASSUME NEW q \in Queries, QueryStart(q) PROVE VersionInv'
    BY <1>20 DEF QueryStart
  <1>21. ASSUME NEW q \in Queries, Lookup(q) PROVE VersionInv'
    BY <1>21 DEF Lookup
  <1>22. ASSUME NEW q \in Queries, Match(q) PROVE VersionInv'
    BY <1>22 DEF Match
  <1>23. ASSUME Crash PROVE VersionInv'
    BY <1>23 DEF Crash
  <1>24. ASSUME UNCHANGED vars PROVE VersionInv'
    BY <1>24 DEF vars
  <1> QED
    BY <1>1, <1>2, <1>3, <1>4, <1>5, <1>6, <1>7, <1>8, <1>9, <1>10, <1>11, <1>12,
       <1>13, <1>14, <1>15, <1>16, <1>17, <1>18, <1>19, <1>20, <1>21, <1>22, <1>23,
       <1>24
    DEF Next, ReloadStep, HandlerStep, QueryStep, Procs

\* A list of the current version is the current table.
LEMMA SnapshotStep ==
    TypeOK /\ HandlerInv /\ VersionInv /\ SnapshotInv /\ [Next]_vars
    => SnapshotInv'
  <1> SUFFICES ASSUME TypeOK, HandlerInv, VersionInv, SnapshotInv, [Next]_vars
               PROVE SnapshotInv'
    OBVIOUS
  <1> USE DEF TypeOK, SnapshotInv, VersionInv, Tables, Versions, dbVars, cacheVars,
          handlerVars, queryVars
  <1>1. ASSUME NEW p \in Procs, StartRequest(p) PROVE SnapshotInv'
    BY <1>1 DEF StartRequest
  <1>2. ASSUME NEW p \in Procs, StartReload(p) PROVE SnapshotInv'
    BY <1>2 DEF StartReload, CallReload
  <1>3. ASSUME NEW p \in Procs, BeginTx(p) PROVE SnapshotInv'
    BY <1>3 DEF BeginTx
  <1>4. ASSUME NEW p \in Procs, EndTx(p) PROVE SnapshotInv'
    BY <1>4 DEF EndTx
  <1>5. ASSUME NEW p \in Procs, GetForUpdate(p) PROVE SnapshotInv'
    BY <1>5 DEF GetForUpdate
  <1>6. ASSUME NEW p \in Procs, Insert(p) PROVE SnapshotInv'
    BY <1>6, AtTable DEF Insert, Committed
  <1>7. ASSUME NEW p \in Procs, Update(p) PROVE SnapshotInv'
    BY <1>7, AtTable DEF Update, Committed
  <1>8. ASSUME NEW p \in Procs, Delete(p) PROVE SnapshotInv'
    BY <1>8, AtTable DEF Delete, Committed, CallReload
  <1>9. ASSUME NEW p \in Procs, Reread(p) PROVE SnapshotInv'
    BY <1>9 DEF Reread, CallReload
  <1>10. ASSUME NEW p \in Procs, RowMissing(p) PROVE SnapshotInv'
    BY <1>10 DEF RowMissing, AnswerError, Forget
  <1>11. ASSUME NEW p \in Procs, StatementFails(p) PROVE SnapshotInv'
    BY <1>11 DEF StatementFails, AnswerError, Forget
  <1>12. ASSUME NEW p \in Procs, LockRules(p) PROVE SnapshotInv'
    BY <1>12 DEF LockRules
  <1>13. ASSUME NEW p \in Procs, ListRules(p) PROVE SnapshotInv'
    BY <1>13 DEF ListRules, List
  <1>14. ASSUME NEW p \in Procs, LoadRules(p) PROVE SnapshotInv'
    BY <1>14 DEF LoadRules, Install
  <1>15. ASSUME NEW p \in Procs, ListHosts(p) PROVE SnapshotInv'
    BY <1>15 DEF ListHosts, List
  <1>16. ASSUME NEW p \in Procs, LoadHosts(p) PROVE SnapshotInv'
    BY <1>16 DEF LoadHosts, Install
  <1>17. ASSUME NEW p \in Procs, ReloadFails(p) PROVE SnapshotInv'
    BY <1>17 DEF ReloadFails, AnswerError, Forget
  <1>18. ASSUME NEW p \in Procs, UnlockRules(p) PROVE SnapshotInv'
    BY <1>18 DEF UnlockRules
  <1>19. ASSUME NEW p \in Procs, AnswerOk(p) PROVE SnapshotInv'
    BY <1>19 DEF AnswerOk, Forget
  <1>20. ASSUME NEW q \in Queries, QueryStart(q) PROVE SnapshotInv'
    BY <1>20 DEF QueryStart
  <1>21. ASSUME NEW q \in Queries, Lookup(q) PROVE SnapshotInv'
    BY <1>21 DEF Lookup
  <1>22. ASSUME NEW q \in Queries, Match(q) PROVE SnapshotInv'
    BY <1>22 DEF Match
  <1>23. ASSUME Crash PROVE SnapshotInv'
    BY <1>23 DEF Crash
  <1>24. ASSUME UNCHANGED vars PROVE SnapshotInv'
    BY <1>24 DEF vars
  <1> QED
    BY <1>1, <1>2, <1>3, <1>4, <1>5, <1>6, <1>7, <1>8, <1>9, <1>10, <1>11, <1>12,
       <1>13, <1>14, <1>15, <1>16, <1>17, <1>18, <1>19, <1>20, <1>21, <1>22, <1>23,
       <1>24
    DEF Next, ReloadStep, HandlerStep, QueryStep, Procs

\* What is known of a goroutine's own write survives every step.
LEMMA MineStep ==
    TypeOK /\ HandlerInv /\ VersionInv /\ MineInv /\ [Next]_vars
    => MineInv'
  <1> SUFFICES ASSUME TypeOK, HandlerInv, VersionInv, MineInv, [Next]_vars
               PROVE MineInv'
    OBVIOUS
  <1> USE DEF TypeOK, HandlerInv, VersionInv, MineInv, Tables, Versions, dbVars,
          cacheVars, handlerVars, queryVars
  <1>1. ASSUME NEW p \in Procs, StartRequest(p) PROVE MineInv'
    BY <1>1, RequestFacts DEF StartRequest
  <1>2. ASSUME NEW p \in Procs, StartReload(p) PROVE MineInv'
    BY <1>2, RequestFacts DEF StartReload, CallReload
  <1>3. ASSUME NEW p \in Procs, BeginTx(p) PROVE MineInv'
    BY <1>3, RequestFacts DEF BeginTx
  <1>4. ASSUME NEW p \in Procs, EndTx(p) PROVE MineInv'
    BY <1>4, RequestFacts DEF EndTx
  <1>5. ASSUME NEW p \in Procs, GetForUpdate(p) PROVE MineInv'
    BY <1>5, RequestFacts DEF GetForUpdate
  <1>6. ASSUME NEW p \in Procs, Insert(p) PROVE MineInv'
    BY <1>6, RequestFacts DEF Insert, Committed
  <1>7. ASSUME NEW p \in Procs, Update(p) PROVE MineInv'
    BY <1>7, RequestFacts DEF Update, Committed
  <1>8. ASSUME NEW p \in Procs, Delete(p) PROVE MineInv'
    BY <1>8, RequestFacts DEF Delete, Committed, CallReload
  <1>9. ASSUME NEW p \in Procs, Reread(p) PROVE MineInv'
    BY <1>9, RequestFacts DEF Reread, CallReload
  <1>10. ASSUME NEW p \in Procs, RowMissing(p) PROVE MineInv'
    BY <1>10, RequestFacts DEF RowMissing, AnswerError, Forget
  <1>11. ASSUME NEW p \in Procs, StatementFails(p) PROVE MineInv'
    BY <1>11, RequestFacts DEF StatementFails, AnswerError, Forget
  <1>12. ASSUME NEW p \in Procs, LockRules(p) PROVE MineInv'
    BY <1>12, RequestFacts DEF LockRules
  <1>13. ASSUME NEW p \in Procs, ListRules(p) PROVE MineInv'
    BY <1>13, RequestFacts DEF ListRules, List
  <1>14. ASSUME NEW p \in Procs, LoadRules(p) PROVE MineInv'
    BY <1>14, RequestFacts DEF LoadRules, Install
  <1>15. ASSUME NEW p \in Procs, ListHosts(p) PROVE MineInv'
    BY <1>15, RequestFacts DEF ListHosts, List
  <1>16. ASSUME NEW p \in Procs, LoadHosts(p) PROVE MineInv'
    BY <1>16, RequestFacts DEF LoadHosts, Install
  <1>17. ASSUME NEW p \in Procs, ReloadFails(p) PROVE MineInv'
    BY <1>17, RequestFacts DEF ReloadFails, AnswerError, Forget
  <1>18. ASSUME NEW p \in Procs, UnlockRules(p) PROVE MineInv'
    BY <1>18, RequestFacts DEF UnlockRules
  <1>19. ASSUME NEW p \in Procs, AnswerOk(p) PROVE MineInv'
    BY <1>19, RequestFacts DEF AnswerOk, Forget
  <1>20. ASSUME NEW q \in Queries, QueryStart(q) PROVE MineInv'
    BY <1>20 DEF QueryStart
  <1>21. ASSUME NEW q \in Queries, Lookup(q) PROVE MineInv'
    BY <1>21 DEF Lookup
  <1>22. ASSUME NEW q \in Queries, Match(q) PROVE MineInv'
    BY <1>22 DEF Match
  <1>23. ASSUME Crash PROVE MineInv'
    BY <1>23 DEF Crash
  <1>24. ASSUME UNCHANGED vars PROVE MineInv'
    BY <1>24 DEF vars
  <1> QED
    BY <1>1, <1>2, <1>3, <1>4, <1>5, <1>6, <1>7, <1>8, <1>9, <1>10, <1>11, <1>12,
       <1>13, <1>14, <1>15, <1>16, <1>17, <1>18, <1>19, <1>20, <1>21, <1>22, <1>23,
          <1>24
    DEF Next, ReloadStep, HandlerStep, QueryStep, Procs

\* A step of one goroutine that writes no table and loads no cache explains
\* every stale cache as before, if it leaves the goroutine where it still
\* installs its own write, and lists what it is about to load.
LEMMA StaleKept ==
    ASSUME TypeOK, StaleInv, NEW p \in Procs, UNCHANGED <<tver, cver, lost>>,
           \A r \in Procs \ {p} : /\ pc'[r] = pc[r] /\ req'[r] = req[r]
                                  /\ mine'[r] = mine[r] /\ snapVer'[r] = snapVer[r],
           \A t \in Tables :
              (/\ req[p] # Nil /\ mine[p] = tver[t]
               /\ req[p].tbl = t /\ pc[p] \in BeforeInstall(t))
              => (/\ req'[p] # Nil /\ mine'[p] = tver[t]
                  /\ req'[p].tbl = t /\ pc'[p] \in BeforeInstall(t)),
           \A t \in Tables : pc'[p] = InstallPc(t) => snapVer'[p] = tver[t]
    PROVE  StaleInv'
  <1> SUFFICES ASSUME NEW t \in Tables
               PROVE  \/ cver'[t] = tver'[t]
                      \/ lost'[t] = tver'[t]
                      \/ /\ cver'[t] = 0
                         /\ \A r \in Procs : pc'[r] = InstallPc(t) => snapVer'[r] =
                            tver'[t]
                      \/ WriterOnItsWay(t)'
    BY DEF StaleInv
  <1>1. CASE cver[t] = tver[t] \/ lost[t] = tver[t]
    BY <1>1
  <1>2. CASE /\ cver[t] = 0
             /\ \A r \in Procs : pc[r] = InstallPc(t) => snapVer[r] = tver[t]
    BY <1>2
  <1>3. CASE WriterOnItsWay(t)
    <2>1. PICK w \in Admins : /\ req[w] # Nil /\ mine[w] = tver[t]
                              /\ req[w].tbl = t /\ pc[w] \in BeforeInstall(t)
      BY <1>3 DEF WriterOnItsWay
    <2>2. w \in Procs
      BY DEF Procs
    <2>3. /\ req'[w] # Nil /\ mine'[w] = tver'[t]
          /\ req'[w].tbl = t /\ pc'[w] \in BeforeInstall(t)
      BY <2>1, <2>2
    <2> QED  BY <2>3 DEF WriterOnItsWay, BeforeInstall
  <1> QED  BY <1>1, <1>2, <1>3 DEF StaleInv

\* A write is explained by its writer, who is on its way to install it; the
\* other table is as before.
LEMMA StaleCommitted ==
    ASSUME TypeOK, VersionInv, StaleInv, NEW p \in Admins, NEW u \in Tables,
           NEW i, NEW row, Committed(p, u, i, row),
           req[p] # Nil, req[p].tbl = u, pc[p] = "write", pc'[p] \in {"reread", "lock"},
           pc' = [pc EXCEPT ![p] = pc'[p]], UNCHANGED <<req, snapVer, cver, lost>>
    PROVE  StaleInv'
  <1> USE DEF TypeOK, Versions, Procs
  <1> SUFFICES ASSUME NEW t \in Tables
               PROVE  \/ cver'[t] = tver'[t]
                      \/ lost'[t] = tver'[t]
                      \/ /\ cver'[t] = 0
                         /\ \A r \in Procs : pc'[r] = InstallPc(t) => snapVer'[r] =
                            tver'[t]
                      \/ WriterOnItsWay(t)'
    BY DEF StaleInv
  <1>1. CASE t = u
    <2>1. mine'[p] = tver'[t] /\ req'[p] # Nil /\ req'[p].tbl = t
      BY <1>1 DEF Committed
    <2>2. pc'[p] \in BeforeInstall(t)'
      BY DEF BeforeInstall
    <2> QED  BY <2>1, <2>2 DEF WriterOnItsWay
  <1>2. CASE t # u
    <2>1. tver'[t] = tver[t]
      BY <1>2 DEF Committed
    <2>2. CASE cver[t] = tver[t] \/ lost[t] = tver[t]
      BY <2>1, <2>2
    <2>3. CASE /\ cver[t] = 0
               /\ \A r \in Procs : pc[r] = InstallPc(t) => snapVer[r] = tver[t]
      BY <2>1, <2>3 DEF InstallPc
    <2>4. CASE WriterOnItsWay(t)
      <3>1. PICK w \in Admins : /\ req[w] # Nil /\ mine[w] = tver[t]
                                /\ req[w].tbl = t /\ pc[w] \in BeforeInstall(t)
        BY <2>4 DEF WriterOnItsWay
      <3>2. w # p
        BY <1>2, <3>1
      <3>3. /\ req'[w] # Nil /\ mine'[w] = tver'[t]
            /\ req'[w].tbl = t /\ pc'[w] \in BeforeInstall(t)'
        BY <2>1, <3>1, <3>2 DEF Committed, BeforeInstall
      <3> QED  BY <3>3 DEF WriterOnItsWay
    <2> QED  BY <2>2, <2>3, <2>4 DEF StaleInv
  <1> QED  BY <1>1, <1>2

\* When a list becomes the cache, either it is the table as it is now, or
\* whoever made a later write is still there to explain the difference: the
\* loader itself saw its own write when it called Reload.
LEMMA StaleInstalled ==
    ASSUME TypeOK, HandlerInv, VersionInv, MineInv, StaleInv,
           NEW p \in Procs, NEW u \in Tables, Install(p, u), pc[p] = InstallPc(u),
           pc' = [pc EXCEPT ![p] = IF u = "rules" THEN "listHosts" ELSE "unlock"],
           UNCHANGED <<req, mine, snapVer, tver, lost>>
    PROVE  StaleInv'
  <1> SUFFICES ASSUME NEW t \in Tables
               PROVE  \/ cver'[t] = tver'[t]
                      \/ lost'[t] = tver'[t]
                      \/ /\ cver'[t] = 0
                         /\ \A r \in Procs : pc'[r] = InstallPc(t) => snapVer'[r] =
                            tver'[t]
                      \/ WriterOnItsWay(t)'
    BY DEF StaleInv
  <1>1. ASSUME NEW w \in Admins, w # p \/ t # u,
               req[w] # Nil, mine[w] = tver[t], req[w].tbl = t, pc[w] \in
                  BeforeInstall(t)
        PROVE  WriterOnItsWay(t)'
    <2>1. pc'[w] \in BeforeInstall(t)'
      BY <1>1 DEF BeforeInstall, InstallPc, Tables, TypeOK, Procs
    <2> QED  BY <1>1, <2>1 DEF WriterOnItsWay
  <1>2. CASE t = u
    <2>1. /\ cver[t] <= snapVer[p] /\ snapVer[p] <= tver[t] /\ seen[p][t] <= snapVer[p]
          /\ 1 <= tver[t]
          /\ cver[t] \in Nat /\ snapVer[p] \in Nat /\ tver[t] \in Nat /\ seen[p][t] \in
             Nat
      BY <1>2 DEF VersionInv, InstallPc, Tables, TypeOK, Versions
    <2>2. cver'[t] = snapVer[p] /\ tver'[t] = tver[t] /\ lost'[t] = lost[t]
      BY <1>2 DEF Install, TypeOK, Versions
    <2>3. CASE cver[t] = tver[t]
      BY <2>1, <2>2, <2>3
    <2>4. CASE lost[t] = tver[t]
      BY <2>2, <2>4
    <2>5. CASE \A r \in Procs : pc[r] = InstallPc(t) => snapVer[r] = tver[t]
      BY <1>2, <2>2, <2>5
    <2>6. CASE WriterOnItsWay(t)
      <3>1. PICK w \in Admins : /\ req[w] # Nil /\ mine[w] = tver[t]
                                /\ req[w].tbl = t /\ pc[w] \in BeforeInstall(t)
        BY <2>6 DEF WriterOnItsWay
      <3>2. CASE w = p
        <4>1. mine[p] <= seen[p][t]
          BY <1>2, <2>1, <3>1, <3>2 DEF MineInv, InstallPc, Tables, TypeOK, Procs
        <4> QED  BY <2>1, <2>2, <3>1, <3>2, <4>1
      <3>3. CASE w # p
        BY <1>1, <3>1, <3>3
      <3> QED  BY <3>2, <3>3
    <2> QED  BY <2>3, <2>4, <2>5, <2>6 DEF StaleInv
  <1>3. CASE t # u
    <2>1. cver'[t] = cver[t] /\ tver'[t] = tver[t] /\ lost'[t] = lost[t]
      BY <1>3 DEF Install, TypeOK, Versions
    <2>2. CASE cver[t] = tver[t] \/ lost[t] = tver[t]
      BY <2>1, <2>2
    <2>3. CASE /\ cver[t] = 0
               /\ \A r \in Procs : pc[r] = InstallPc(t) => snapVer[r] = tver[t]
      BY <2>1, <2>3 DEF InstallPc, TypeOK
    <2>4. CASE WriterOnItsWay(t)
      BY <1>1, <1>3, <2>4 DEF WriterOnItsWay
    <2> QED  BY <2>2, <2>3, <2>4 DEF StaleInv
  <1> QED  BY <1>2, <1>3

\* A handler that gives up hands its write over to `lost'.
LEMMA StaleAnswered ==
    ASSUME TypeOK, HandlerInv, VersionInv, MineInv, StaleInv,
           NEW p \in Procs, AnswerError(p), UNCHANGED <<tver, cver>>
    PROVE  StaleInv'
  <1> SUFFICES ASSUME NEW t \in Tables
               PROVE  \/ cver'[t] = tver'[t]
                      \/ lost'[t] = tver'[t]
                      \/ /\ cver'[t] = 0
                         /\ \A r \in Procs : pc'[r] = InstallPc(t) => snapVer'[r] =
                            tver'[t]
                      \/ WriterOnItsWay(t)'
    BY DEF StaleInv
  <1>1. mine[p] # 0 => req[p].tbl \in Tables /\ mine[p] <= tver[req[p].tbl]
    BY RequestFacts DEF HandlerInv, MineInv, TypeOK
  <1>2. CASE cver[t] = tver[t]
    BY <1>2
  <1>3. CASE lost[t] = tver[t]
    BY <1>1, <1>3 DEF AnswerError, TypeOK, Versions
  <1>4. CASE /\ cver[t] = 0
             /\ \A r \in Procs : pc[r] = InstallPc(t) => snapVer[r] = tver[t]
    BY <1>4 DEF InstallPc, AnswerError, Forget, TypeOK
  <1>5. CASE WriterOnItsWay(t)
    <2>1. PICK w \in Admins : /\ req[w] # Nil /\ mine[w] = tver[t]
                              /\ req[w].tbl = t /\ pc[w] \in BeforeInstall(t)
      BY <1>5 DEF WriterOnItsWay
    <2>2. CASE w = p
      <3>1. mine[p] # 0 /\ req[p].tbl = t /\ mine[p] = tver[t] /\ lost[t] <= tver[t]
        BY <2>1, <2>2 DEF VersionInv, MineInv, TypeOK, Versions
      <3>2. lost[t] \in Nat /\ tver[t] \in Nat /\ DOMAIN lost = Tables
        BY DEF TypeOK, Versions
      <3>3. lost'[t] = IF lost[t] >= mine[p] THEN lost[t] ELSE mine[p]
        BY <3>1, <3>2 DEF AnswerError
      <3>4. lost'[t] = tver[t]
        BY <3>1, <3>2, <3>3
      <3> QED  BY <3>4
    <2>3. CASE w # p
      <3>1. /\ req'[w] # Nil /\ mine'[w] = tver'[t]
            /\ req'[w].tbl = t /\ pc'[w] \in BeforeInstall(t)'
        BY <2>1, <2>3 DEF AnswerError, Forget, BeforeInstall, TypeOK, Procs
      <3> QED  BY <3>1 DEF WriterOnItsWay
    <2> QED  BY <2>2, <2>3
  <1> QED  BY <1>2, <1>3, <1>4, <1>5 DEF StaleInv

\* Every step leaves every stale cache explained.
LEMMA StaleStep ==
    TypeOK /\ HandlerInv /\ VersionInv /\ MineInv /\ StaleInv /\ [Next]_vars
    => StaleInv'
  <1> SUFFICES ASSUME TypeOK, HandlerInv, VersionInv, MineInv, StaleInv, [Next]_vars
               PROVE  StaleInv'
    OBVIOUS
  <1> USE DEF TypeOK, Tables, Versions, InstallPc, dbVars, cacheVars, handlerVars,
          queryVars
  <1>1. ASSUME NEW p \in Procs,
               \/ StartRequest(p) \/ StartReload(p) \/ BeginTx(p) \/ EndTx(p) \/
                  AnswerOk(p)
        PROVE  StaleInv'
    <2>1. \A t \in Tables : mine[p] # tver[t] \/ pc[p] \notin BeforeInstall(t)
      BY <1>1
      DEF VersionInv, MineInv, BeforeInstall, StartRequest, StartReload, BeginTx,
                  EndTx, AnswerOk
    <2>2. /\ UNCHANGED <<tver, cver, lost>>
          /\ \A r \in Procs \ {p} : /\ pc'[r] = pc[r] /\ req'[r] = req[r]
                                    /\ mine'[r] = mine[r] /\ snapVer'[r] = snapVer[r]
          /\ pc'[p] \notin {"loadRules", "loadHosts"}
      BY <1>1
      DEF StartRequest, StartReload, CallReload, BeginTx, EndTx, AnswerOk, Forget
    <2> QED  BY <2>1, <2>2, StaleKept
  <1>2. ASSUME NEW p \in Procs,
               \/ GetForUpdate(p) \/ Reread(p) \/ LockRules(p) \/ UnlockRules(p)
               \/ ListRules(p) \/ ListHosts(p)
        PROVE  StaleInv'
    <2>1. /\ UNCHANGED <<tver, cver, lost, req, mine>>
          /\ \A r \in Procs \ {p} : pc'[r] = pc[r] /\ snapVer'[r] = snapVer[r]
      BY <1>2 DEF GetForUpdate, Reread, CallReload, LockRules, UnlockRules, ListRules,
                  ListHosts, List
    <2>2. \A t \in Tables : pc[p] \in BeforeInstall(t) => pc'[p] \in BeforeInstall(t)
      BY <1>2 DEF GetForUpdate, Reread, CallReload, LockRules, UnlockRules, ListRules,
                  ListHosts, List, BeforeInstall
    <2>3. \A t \in Tables : pc'[p] = InstallPc(t) => snapVer'[p] = tver[t]
      BY <1>2 DEF GetForUpdate, Reread, CallReload, LockRules, UnlockRules, ListRules,
                  ListHosts, List
    <2> QED  BY <2>1, <2>2, <2>3, StaleKept
  <1>3. ASSUME NEW p \in Admins, Insert(p) PROVE StaleInv'
    <2>1. p \in Procs /\ pc[p] = "write"
      BY <1>3 DEF Insert, Procs
    <2>2. req[p] # Nil /\ req[p].tbl \in Tables
      BY <2>1, AtTable DEF HandlerInv
    <2> QED  BY <1>3, <2>1, <2>2, StaleCommitted DEF Insert
  <1>4. ASSUME NEW p \in Admins, Update(p) PROVE StaleInv'
    <2>1. p \in Procs /\ pc[p] = "write"
      BY <1>4 DEF Update, Procs
    <2>2. req[p] # Nil /\ req[p].tbl \in Tables
      BY <2>1, AtTable DEF HandlerInv
    <2>3. CASE Committed(p, req[p].tbl, rid[p], cur[p])
      BY <1>4, <2>1, <2>2, <2>3, StaleCommitted DEF Update
    <2>4. CASE UNCHANGED <<rows, tver, mine>>
      <3>1. /\ UNCHANGED <<tver, cver, lost, req, mine, snapVer>>
            /\ \A r \in Procs \ {p} : pc'[r] = pc[r]
            /\ pc'[p] = "reread"
        BY <1>4, <2>1, <2>4 DEF Update
      <3>2. \A t \in Tables : pc'[p] \in BeforeInstall(t)
        BY <3>1 DEF BeforeInstall
      <3> QED  BY <2>1, <3>1, <3>2, StaleKept
    <2> QED  BY <1>4, <2>3, <2>4 DEF Update
  <1>5. ASSUME NEW p \in Admins, Delete(p) PROVE StaleInv'
    <2>1. p \in Procs /\ pc[p] = "write"
      BY <1>5 DEF Delete, Procs
    <2>2. req[p] # Nil /\ req[p].tbl \in Tables
      BY <2>1, AtTable DEF HandlerInv
    <2> QED  BY <1>5, <2>1, <2>2, StaleCommitted DEF Delete, CallReload
  <1>6. ASSUME NEW p \in Procs, RowMissing(p) \/ StatementFails(p) \/ ReloadFails(p)
        PROVE  StaleInv'
    BY <1>6, StaleAnswered DEF RowMissing, StatementFails, ReloadFails
  <1>7. ASSUME NEW p \in Procs, LoadRules(p) PROVE StaleInv'
    BY <1>7, StaleInstalled DEF LoadRules
  <1>8. ASSUME NEW p \in Procs, LoadHosts(p) PROVE StaleInv'
    BY <1>8, StaleInstalled DEF LoadHosts
  <1>9. ASSUME NEW q \in Queries, QueryStep(q) PROVE StaleInv'
    <2>1. UNCHANGED <<tver, cver, lost, pc, req, mine, snapVer>>
      BY <1>9 DEF QueryStep, QueryStart, Lookup, Match
    <2> QED  BY <2>1 DEF StaleInv, WriterOnItsWay, BeforeInstall
  <1>10. ASSUME Crash PROVE StaleInv'
    BY <1>10 DEF Crash, StaleInv, Zero
  <1>11. ASSUME UNCHANGED vars PROVE StaleInv'
    BY <1>11 DEF vars, StaleInv, WriterOnItsWay, BeforeInstall
  <1> QED
    BY <1>1, <1>2, <1>3, <1>4, <1>5, <1>6, <1>7, <1>8, <1>9, <1>10, <1>11
    DEF Next, ReloadStep, HandlerStep, Procs

\* Which steps touch the tables, the caches and the acknowledgements.
LEMMA StepKinds ==
    ASSUME [Next]_vars
    PROVE  \/ \E p \in Procs : Insert(p) \/ Update(p) \/ Delete(p)
           \/ \E p \in Procs : LoadRules(p) \/ LoadHosts(p) \/ AnswerOk(p)
           \/ Crash
           \/ UNCHANGED <<rows, nextId, tver, cache, cver, acked>>
  <1> DEFINE Quiet == UNCHANGED <<rows, nextId, tver, cache, cver, acked>>
  <1> USE DEF dbVars, cacheVars
  <1>1. ASSUME NEW p \in Procs, ReloadStep(p)
        PROVE  LoadRules(p) \/ LoadHosts(p) \/ AnswerOk(p) \/ Quiet
    BY <1>1 DEF ReloadStep, LockRules, ListRules, ListHosts, ReloadFails, UnlockRules, List
  <1>2. ASSUME NEW p \in Procs, HandlerStep(p)
        PROVE  Insert(p) \/ Update(p) \/ Delete(p) \/ Quiet
    <2>1. CASE StartRequest(p) \/ StartReload(p) \/ BeginTx(p) \/ EndTx(p)
      BY <2>1 DEF StartRequest, StartReload, BeginTx, EndTx
    <2>2. CASE GetForUpdate(p) \/ Reread(p) \/ RowMissing(p) \/ StatementFails(p)
      BY <2>2 DEF GetForUpdate, Reread, RowMissing, StatementFails
    <2> QED  BY <1>2, <2>1, <2>2 DEF HandlerStep
  <1>3. ASSUME NEW q \in Queries, QueryStep(q) PROVE Quiet
    BY <1>3 DEF QueryStep, QueryStart, Lookup, Match
  <1>4. CASE UNCHANGED vars
    BY <1>4 DEF vars
  <1> QED  BY <1>1, <1>2, <1>3, <1>4 DEF Next, Procs

\* What was acknowledged stays in the caches.
LEMMA AckedStep ==
    TypeOK /\ VersionInv /\ AckedServed /\ [Next]_vars => AckedServed'
  <1> SUFFICES ASSUME TypeOK, VersionInv, AckedServed, [Next]_vars PROVE AckedServed'
    OBVIOUS
  <1> USE DEF TypeOK, VersionInv, AckedServed, Versions, Tables, cacheVars
  <1>1. ASSUME NEW p \in Procs, Insert(p) \/ Update(p) \/ Delete(p) PROVE AckedServed'
    BY <1>1 DEF Insert, Update, Delete
  <1>2. ASSUME NEW p \in Procs, LoadRules(p) PROVE AckedServed'
    BY <1>2 DEF LoadRules, Install
  <1>3. ASSUME NEW p \in Procs, LoadHosts(p) PROVE AckedServed'
    BY <1>3 DEF LoadHosts, Install
  <1>4. ASSUME NEW p \in Procs, AnswerOk(p) PROVE AckedServed'
    BY <1>4 DEF AnswerOk
  <1>5. ASSUME Crash PROVE AckedServed'
    BY <1>5 DEF Crash, Zero
  <1>6. CASE UNCHANGED <<rows, nextId, tver, cache, cver, acked>>
    BY <1>6
  <1> QED  BY <1>1, <1>2, <1>3, <1>4, <1>5, <1>6, StepKinds

\* A cache of the current version is the current table.
LEMMA FreshStep ==
    TypeOK /\ HandlerInv /\ VersionInv /\ SnapshotInv /\ FreshCacheIsTable /\
       [Next]_vars
    => FreshCacheIsTable'
  <1> SUFFICES ASSUME TypeOK, HandlerInv, VersionInv, SnapshotInv, FreshCacheIsTable,
                      [Next]_vars
               PROVE  FreshCacheIsTable'
    OBVIOUS
  <1> USE DEF TypeOK, VersionInv, FreshCacheIsTable, Versions, Tables, dbVars, cacheVars
  <1>1. ASSUME NEW p \in Procs, Insert(p) \/ Update(p) \/ Delete(p)
        PROVE  FreshCacheIsTable'
    BY <1>1, AtTable, SMTT(30) DEF Insert, Update, Delete, Committed
  <1>2. ASSUME NEW p \in Procs, LoadRules(p) PROVE FreshCacheIsTable'
    BY <1>2 DEF LoadRules, Install, SnapshotInv
  <1>3. ASSUME NEW p \in Procs, LoadHosts(p) PROVE FreshCacheIsTable'
    BY <1>3 DEF LoadHosts, Install, SnapshotInv
  <1>4. ASSUME NEW p \in Procs, AnswerOk(p) PROVE FreshCacheIsTable'
    BY <1>4 DEF AnswerOk
  <1>5. ASSUME Crash PROVE FreshCacheIsTable'
    BY <1>5 DEF Crash, Zero
  <1>6. CASE UNCHANGED <<rows, nextId, tver, cache, cver, acked>>
    BY <1>6
  <1> QED  BY <1>1, <1>2, <1>3, <1>4, <1>5, <1>6, StepKinds

\* The handlers leave the questions alone, and their caches never go back.
LEMMA HandlersAndQueries ==
    ASSUME TypeOK, VersionInv, NEW p \in Procs,
           ReloadStep(p) \/ HandlerStep(p)
    PROVE  UNCHANGED queryVars /\ \A t \in Tables : cver[t] <= cver'[t]
  <1> USE DEF TypeOK, VersionInv, Tables, Versions, cacheVars
  <1>1. ASSUME ReloadStep(p)
        PROVE  UNCHANGED queryVars /\ \A t \in Tables : cver[t] <= cver'[t]
    BY <1>1 DEF ReloadStep, LockRules, ListRules, LoadRules, ListHosts, LoadHosts,
                ReloadFails, UnlockRules, AnswerOk, List, Install
  <1>2. ASSUME HandlerStep(p)
        PROVE  UNCHANGED queryVars /\ \A t \in Tables : cver[t] <= cver'[t]
    <2>1. UNCHANGED <<queryVars, cver>>
      <3>1. CASE StartRequest(p) \/ StartReload(p) \/ BeginTx(p) \/ EndTx(p)
        BY <3>1 DEF StartRequest, StartReload, BeginTx, EndTx
      <3>2. CASE GetForUpdate(p) \/ Insert(p) \/ Update(p) \/ Delete(p)
        BY <3>2 DEF GetForUpdate, Insert, Update, Delete
      <3>3. CASE Reread(p) \/ RowMissing(p) \/ StatementFails(p)
        BY <3>3 DEF Reread, RowMissing, StatementFails
      <3> QED  BY <1>2, <3>1, <3>2, <3>3 DEF HandlerStep
    <2> QED  BY <2>1
  <1> QED  BY <1>1, <1>2

\* A question in progress reads, and one that is answered has read, what was
\* acknowledged before it.
LEMMA QueryStepInv ==
    ( /\ TypeOK /\ TypeOK' /\ VersionInv /\ AckedServed
      /\ QueryInv /\ QueryFresh /\ [Next]_vars )
    => QueryInv' /\ QueryFresh'
  <1> SUFFICES ASSUME TypeOK, TypeOK', VersionInv, AckedServed, QueryInv,
                      QueryFresh, [Next]_vars
               PROVE  QueryInv' /\ QueryFresh'
    OBVIOUS
  <1> USE DEF TypeOK, QueryInv, QueryFresh, Tables, Versions, cacheVars, queryVars
  <1>1. ASSUME NEW p \in Procs, ReloadStep(p) \/ HandlerStep(p)
        PROVE  QueryInv' /\ QueryFresh'
    <2>1. UNCHANGED queryVars /\ \A t \in Tables : cver[t] <= cver'[t]
      BY <1>1, HandlersAndQueries
    <2> QED  BY <2>1
  <1>2. ASSUME NEW q \in Queries, QueryStart(q) PROVE QueryInv' /\ QueryFresh'
    BY <1>2, ConstantsAssumption DEF QueryStart, AckedServed
  <1>3. ASSUME NEW q \in Queries, Lookup(q) PROVE QueryInv' /\ QueryFresh'
    <2>1. QueryInv'
      BY <1>3 DEF Lookup
    <2>2. QueryFresh'
      BY <1>3, ConstantsAssumption DEF Lookup
    <2> QED  BY <2>1, <2>2
  <1>4. ASSUME NEW q \in Queries, Match(q) PROVE QueryInv' /\ QueryFresh'
    BY <1>4 DEF Match
  <1>5. ASSUME Crash PROVE QueryInv' /\ QueryFresh'
    BY <1>5, ConstantsAssumption DEF Crash
  <1>6. ASSUME UNCHANGED vars PROVE QueryInv' /\ QueryFresh'
    BY <1>6 DEF vars
  <1> QED
    BY <1>1, <1>2, <1>3, <1>4, <1>5, <1>6 DEF Next, QueryStep, Procs

-----------------------------------------------------------------------------
(***************************************************************************)
(* The invariant of the specification, and what follows from it.           *)
(***************************************************************************)

\* It holds at first: no goroutine is inside Reload, no cache is loaded.
LEMMA IndInit == Init => IndInv
  <1> SUFFICES ASSUME Init PROVE IndInv
    OBVIOUS
  <1>1. HandlerInv /\ LockInv
    BY NilIsNoProc DEF Init, HandlerInv, LockInv
  <1>2. VersionInv /\ SnapshotInv /\ AckedServed
    BY DEF Init, VersionInv, SnapshotInv, AckedServed, Zero, Tables
  <1>3. QueryInv /\ QueryFresh
    BY ConstantsAssumption DEF Init, QueryInv, QueryFresh, Zero, Tables
  <1>4. FreshCacheIsTable
    BY DEF Init, FreshCacheIsTable, Zero
  <1>5. MineInv
    BY DEF Init, MineInv, Zero, Tables
  <1>6. StaleInv
    BY DEF Init, StaleInv, InstallPc, Zero, Tables
  <1> QED  BY TypeInit, <1>1, <1>2, <1>3, <1>4, <1>5, <1>6 DEF IndInv

\* Every step keeps it.
LEMMA IndStep == IndInv /\ [Next]_vars => IndInv'
  BY TypeStep, HandlerStepInv, LockStepInv, VersionStep, AckedStep, SnapshotStep,
     FreshStep, QueryStepInv, MineStep, StaleStep DEF IndInv

\* Types, the lock discipline and the versions are right in every reachable
\* state, whatever the goroutines, requests, failures and crashes.
THEOREM Invariance == Spec => []IndInv
  BY IndInit, IndStep, PTL DEF Spec

\* Type correctness of the admin handlers, Reload, the caches and Resolve.
THEOREM TypeCorrect == Spec => []TypeOK
  <1>1. IndInv => TypeOK
    BY DEF IndInv
  <1> QED  BY Invariance, <1>1, PTL

\* A change that was answered with "ok" is in the caches and stays there.
THEOREM AckedAlwaysServed == Spec => []AckedServed
  <1>1. IndInv => AckedServed
    BY DEF IndInv
  <1> QED  BY Invariance, <1>1, PTL

\* A question that starts after the "ok" is answered with the change.
THEOREM QueriesAlwaysFresh == Spec => []QueryFresh
  <1>1. IndInv => QueryFresh
    BY DEF IndInv
  <1> QED  BY Invariance, <1>1, PTL

\* A cache of the current version is exactly the enabled rows.
THEOREM FreshCacheAlwaysTable == Spec => []FreshCacheIsTable
  <1>1. IndInv => FreshCacheIsTable
    BY DEF IndInv
  <1> QED  BY Invariance, <1>1, PTL

\* A cache is behind its table only while the last writer is on its way to
\* install its change, or told its client that something failed, or while
\* nothing was loaded yet.
THEOREM StaleAlwaysExplained == Spec => []StaleExplained
  <1>1. IndInv => StaleExplained
    BY DEF IndInv, StaleInv, StaleExplained, WriterOnItsWay
  <1> QED  BY Invariance, <1>1, PTL

\* The row of a deleted id never comes back: each statement either inserts
\* at nextId or writes a row that is there.
THEOREM DeletedStaysDeleted == Spec => NoResurrection
  <1> DEFINE Kept == \A t \in Tables, i \in Ids :
                        (i < nextId[t] /\ rows[t][i] = Nil) => rows'[t][i] = Nil
  <1>1. TypeOK /\ HandlerInv /\ [Next]_vars => [Kept]_vars
    <2> SUFFICES ASSUME TypeOK, HandlerInv, Next PROVE Kept
      OBVIOUS
    <2>1. ASSUME NEW p \in Procs, NEW u \in Tables, NEW j \in Ids, NEW row,
                 Committed(p, u, j, row),
                 rows[u][j] # Nil \/ row = Nil \/ j = nextId[u]
          PROVE  Kept
      BY <2>1 DEF Committed, TypeOK, Snapshots, Versions, Ids
    <2>2. ASSUME NEW p \in Procs, Insert(p) PROVE Kept
      <3>1. pc[p] = "write"
        BY <2>2 DEF Insert
      <3> QED  BY <2>1, <2>2, <3>1, AtTable DEF Insert
    <2>3. ASSUME NEW p \in Procs, Update(p) PROVE Kept
      <3>1. pc[p] = "write" /\ req[p].kind = "update"
        BY <2>3 DEF Update
      <3>2. CASE UNCHANGED <<rows, tver, mine>>
        BY <3>2
      <3>3. CASE /\ rows[req[p].tbl][rid[p]] # Nil
                 /\ Committed(p, req[p].tbl, rid[p], cur[p])
        BY <2>1, <3>1, <3>3, AtTable
      <3> QED  BY <2>3, <3>2, <3>3 DEF Update
    <2>4. ASSUME NEW p \in Procs, Delete(p) PROVE Kept
      <3>1. pc[p] = "write" /\ req[p].kind = "delete"
        BY <2>4 DEF Delete
      <3> QED  BY <2>1, <2>4, <3>1, AtTable DEF Delete
    <2>5. CASE UNCHANGED rows
      BY <2>5
    <2> QED
      BY <2>2, <2>3, <2>4, <2>5, StepKinds
      DEF LoadRules, LoadHosts, AnswerOk, Crash, dbVars
  <1>2. IndInv => TypeOK /\ HandlerInv
    BY DEF IndInv
  <1> QED  BY Invariance, <1>1, <1>2, PTL DEF Spec, NoResurrection

-----------------------------------------------------------------------------
(***************************************************************************)
(* The plane implements ConfigRegister.                                    *)
(***************************************************************************)

\* Every step of the plane is a step of the register, or changes none of
\* its variables.
LEMMA RegisterStep == IndInv /\ [Next]_vars => [Register!Next]_(Register!vars)
  <1> SUFFICES ASSUME IndInv, [Next]_vars PROVE [Register!Next]_(Register!vars)
    OBVIOUS
  <1> USE DEF Register!vars, Register!Next
  <1>1. ASSUME NEW p \in Procs, Insert(p) \/ Update(p) \/ Delete(p)
        PROVE  [Register!Next]_(Register!vars)
    <2>1. pc[p] = "write" /\ UNCHANGED <<cver, acked>>
      BY <1>1 DEF Insert, Update, Delete, cacheVars
    <2>2. req[p].tbl \in Tables
      BY <2>1, AtTable DEF IndInv
    <2>3. tver' = [tver EXCEPT ![req[p].tbl] = @ + 1] \/ UNCHANGED tver
      BY <1>1 DEF Insert, Update, Delete, Committed
    <2> QED  BY <2>1, <2>2, <2>3 DEF Register!Commit
  <1>2. ASSUME NEW p \in Procs, LoadRules(p) PROVE [Register!Next]_(Register!vars)
    <2>1. snapVer[p] \in cver["rules"] .. tver["rules"]
      BY <1>2 DEF LoadRules, IndInv, VersionInv, TypeOK, Versions, Tables
    <2>2. Register!Publish("rules")
      BY <1>2, <2>1 DEF LoadRules, Install, dbVars, Register!Publish
    <2> QED  BY <2>2 DEF Tables
  <1>3. ASSUME NEW p \in Procs, LoadHosts(p) PROVE [Register!Next]_(Register!vars)
    <2>1. snapVer[p] \in cver["hosts"] .. tver["hosts"]
      BY <1>3 DEF LoadHosts, IndInv, VersionInv, TypeOK, Versions, Tables
    <2>2. Register!Publish("hosts")
      BY <1>3, <2>1 DEF LoadHosts, Install, dbVars, Register!Publish
    <2> QED  BY <2>2 DEF Tables
  <1>4. ASSUME NEW p \in Procs, AnswerOk(p) PROVE [Register!Next]_(Register!vars)
    <2>1. \A t \in Tables :
            seen[p][t] \in Nat /\ acked[t] \in Nat /\ seen[p][t] <= cver[t]
      BY <1>4 DEF AnswerOk, IndInv, VersionInv, TypeOK, Versions, Tables
    <2>2. acked' \in Register!Versions
      BY <1>4, <2>1 DEF AnswerOk, IndInv, TypeOK, Versions, Register!Versions
    <2>3. \A t \in Tables : /\ acked[t] <= acked'[t]
                            /\ acked'[t] <= acked[t] \/ acked'[t] <= cver[t]
      BY <1>4, <2>1 DEF AnswerOk
    <2> QED
      BY <1>4, <2>2, <2>3 DEF AnswerOk, dbVars, cacheVars, Register!Acknowledge
  <1>5. ASSUME Crash PROVE [Register!Next]_(Register!vars)
    BY <1>5 DEF Crash, dbVars, Zero, Register!Restart, Register!Zero
  <1>6. CASE UNCHANGED <<rows, nextId, tver, cache, cver, acked>>
    BY <1>6
  <1> QED  BY <1>1, <1>2, <1>3, <1>4, <1>5, <1>6, StepKinds

\* The detailed plane, with its locks, statements, failures and crashes,
\* implements the register: caches move forward to committed versions, and
\* only published versions are acknowledged.
THEOREM PlaneImplementsRegister == Spec => ImplementsRegister
  <1>1. Init => Register!Init
    BY DEF Init, Zero, Register!Init, Register!Zero
  <1> QED
    BY <1>1, Invariance, RegisterStep, PTL DEF Spec, ImplementsRegister, Register!Spec

=============================================================================
