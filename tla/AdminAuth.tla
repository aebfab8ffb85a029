------------------------------- MODULE AdminAuth -------------------------------
(***************************************************************************)
(* The admin account of dns-proxy: every request of the admin server first *)
(* passes auth (cmd/dns-proxy/main.go), which reads the user name and the  *)
(* password of table app_config in two statements; PUT /api/auth           *)
(* (authHandler) reads them again, compares them with the old credentials  *)
(* of its body, and replaces both in a transaction (UpdateAdminAccount,    *)
(* internal/storage).  Opening the store at a start installs the default   *)
(* account when there is none (initAdminAccount).                          *)
(*                                                                         *)
(* Every statement is one step.  The pool has a single connection, which a *)
(* transaction keeps from Begin to Commit or Rollback; the writes of a     *)
(* transaction reach the file with Commit.                                 *)
(***************************************************************************)
EXTENDS Naturals

CONSTANTS
    Clients,      \* goroutines of the admin server, one request at a time each
    Users,        \* user names
    Passes,       \* passwords
    DefaultUser,  \* "admin"
    DefaultPass,  \* "123456"
    Blank,        \* the empty string
    MaxRequests,  \* bound: requests
    MaxCrashes,   \* bound: times the process ends and is started again
    Nil           \* no value: a missing row, an unset variable, a free connection

Pairs   == [user : Users, pass : Passes]
Default == [user |-> DefaultUser, pass |-> DefaultPass]

\* What the body of PUT /api/auth may carry, twice.
Fields == [user : Users \cup {Blank}, pass : Passes \cup {Blank}]

ASSUME CredentialsAssumption ==
    /\ DefaultUser \in Users /\ DefaultPass \in Passes
    /\ Blank \notin Users \cup Passes
    /\ Nil \notin Users /\ Nil \notin Passes /\ Nil \notin Clients /\ Nil \notin Pairs
    /\ Nil \notin [sealed : Users] /\ Nil \notin [sealed : Passes]
    /\ Nil # "main" /\ "main" \notin Clients
    /\ MaxRequests \in Nat /\ MaxCrashes \in Nat

\* crypto.EncryptAES and DecryptAES with authKey: a column holds a sealed
\* text that opens to what was sealed; the nonce is left out.
EncryptAES(text) == [sealed |-> text]
DecryptAES(value) == value.sealed

UserColumn == [sealed : Users] \cup {Nil}
PassColumn == [sealed : Passes] \cup {Nil}

VARIABLES
    app,        \* app.user, app.pass: the rows admin_user and admin_pass
    conn,       \* who holds the connection: a client, "main" or Nil
    tx,         \* what the open transaction has written so far
    mpc,        \* main, inside initAdminAccount or serving
    pc,         \* the goroutines of the admin server
    cred,       \* cred[p]: the pair of the Authorization header
    got,        \* got[p]: the user name read by GetAdminUser
    old, new,   \* old[p], new[p]: the pairs of the body of PUT /api/auth
    userSince,  \* history: user names that were current since p's request began
    passSince,  \* history: passwords that were current since p's request began
    requests, crashes

local == <<cred, got, old, new>>
since == <<userSince, passSince>>
vars  == <<app, conn, tx, mpc, pc, local, since, requests, crashes>>

NoWrites == [user |-> Nil, pass |-> Nil]

Serving == mpc = "up"

\* The account a request is compared with, Nil until there is one.
Account ==
    IF app.user = Nil \/ app.pass = Nil
    THEN Nil
    ELSE [user |-> DecryptAES(app.user), pass |-> DecryptAES(app.pass)]

\* The first start finds a new database or the account an earlier run left.
Init ==
    /\ app \in {NoWrites}
               \cup {[user |-> EncryptAES(a.user), pass |-> EncryptAES(a.pass)] : a \in Pairs}
    /\ conn = Nil
    /\ tx = NoWrites
    /\ mpc = "count"
    /\ pc = [p \in Clients |-> "idle"]
    /\ cred = [p \in Clients |-> Nil]
    /\ got = [p \in Clients |-> Nil]
    /\ old = [p \in Clients |-> Nil]
    /\ new = [p \in Clients |-> Nil]
    /\ userSince = [p \in Clients |-> {}]
    /\ passSince = [p \in Clients |-> {}]
    /\ requests = 0
    /\ crashes = 0

-----------------------------------------------------------------------------
(***************************************************************************)
(* Transactions.                                                           *)
(***************************************************************************)

\* tx.Exec of one statement on one of the two rows.
Write(key, text) == tx' = [tx EXCEPT ![key] = EncryptAES(text)]

\* tx.Commit(): both rows change in the file, the connection is free again.
\* A request that is under way has seen one more account in its time.
Commit ==
    /\ app' = tx
    /\ tx' = NoWrites
    /\ conn' = Nil
    /\ userSince' = [p \in Clients |-> IF pc[p] = "idle" THEN {}
                                       ELSE userSince[p] \cup {DecryptAES(tx.user)}]
    /\ passSince' = [p \in Clients |-> IF pc[p] = "idle" THEN {}
                                       ELSE passSince[p] \cup {DecryptAES(tx.pass)}]

-----------------------------------------------------------------------------
(***************************************************************************)
(* Store.initAdminAccount, before any server is started.                   *)
(***************************************************************************)

\* Mutant: the default account is installed at every start.
CountAccountIgnored ==
    /\ mpc = "count"
    /\ mpc' = "insertUser" /\ conn' = "main"
    /\ UNCHANGED <<app, tx, pc, local, since, requests, crashes>>

\* SELECT COUNT(*): with both rows there is nothing to do, else Begin.
CountAccount ==
    /\ mpc = "count"
    /\ \/ /\ Account # Nil
          /\ mpc' = "up" /\ UNCHANGED conn
       \/ /\ Account = Nil
          /\ mpc' = "insertUser" /\ conn' = "main"
    /\ UNCHANGED <<app, tx, pc, local, since, requests, crashes>>

InsertUser ==
    /\ mpc = "insertUser"
    /\ Write("user", DefaultUser)
    /\ mpc' = "insertPass"
    /\ UNCHANGED <<app, conn, pc, local, since, requests, crashes>>

InsertPass ==
    /\ mpc = "insertPass"
    /\ Write("pass", DefaultPass)
    /\ mpc' = "commit"
    /\ UNCHANGED <<app, conn, pc, local, since, requests, crashes>>

CommitDefault ==
    /\ mpc = "commit"
    /\ Commit
    /\ mpc' = "up"
    /\ UNCHANGED <<pc, local, requests, crashes>>

\* The process is killed, or Open failed and main called log.Fatalf; it is
\* started again.  SQLite drops the transaction that was open.
Crash ==
    /\ crashes < MaxCrashes
    /\ crashes' = crashes + 1
    /\ conn' = Nil
    /\ tx' = NoWrites
    /\ mpc' = "count"
    /\ pc' = [p \in Clients |-> "idle"]
    /\ cred' = [p \in Clients |-> Nil] /\ got' = [p \in Clients |-> Nil]
    /\ old' = [p \in Clients |-> Nil] /\ new' = [p \in Clients |-> Nil]
    /\ userSince' = [p \in Clients |-> {}] /\ passSince' = [p \in Clients |-> {}]
    /\ UNCHANGED <<app, requests>>

-----------------------------------------------------------------------------
(***************************************************************************)
(* auth, in front of every handler.                                        *)
(***************************************************************************)

\* The handler returns: its variables are gone.
Return(p) ==
    /\ pc' = [pc EXCEPT ![p] = "idle"]
    /\ cred' = [cred EXCEPT ![p] = Nil]
    /\ got' = [got EXCEPT ![p] = Nil]
    /\ old' = [old EXCEPT ![p] = Nil]
    /\ new' = [new EXCEPT ![p] = Nil]
    /\ userSince' = [userSince EXCEPT ![p] = {}]
    /\ passSince' = [passSince EXCEPT ![p] = {}]

\* A request with an Authorization header; one without gets 401 at once.
StartRequest(p) ==
    /\ Serving /\ pc[p] = "idle"
    /\ requests < MaxRequests
    /\ requests' = requests + 1
    /\ \E a \in Pairs : cred' = [cred EXCEPT ![p] = a]
    /\ pc' = [pc EXCEPT ![p] = "authUser"]
    /\ userSince' = [userSince EXCEPT ![p] = {DecryptAES(app.user)}]
    /\ passSince' = [passSince EXCEPT ![p] = {DecryptAES(app.pass)}]
    /\ UNCHANGED <<app, conn, tx, mpc, got, old, new, crashes>>

\* GetAdminUser: a statement of its own, which waits for the connection.
GetAdminUser(p, from, to) ==
    /\ pc[p] = from /\ conn = Nil
    /\ got' = [got EXCEPT ![p] = DecryptAES(app.user)]
    /\ pc' = [pc EXCEPT ![p] = to]
    /\ UNCHANGED <<app, conn, tx, mpc, cred, old, new, since, requests, crashes>>

\* Mutant: && instead of ||, so one wrong half is not enough to be refused.
AgreesOnEither(p, pair) == pair.user = got[p] \/ pair.pass = DecryptAES(app.pass)

\* The two comparisons after GetAdminPass.
Agrees(p, pair) == pair.user = got[p] /\ pair.pass = DecryptAES(app.pass)

AuthUser(p) == GetAdminUser(p, "authUser", "authPass")

\* GetAdminPass and the comparison with the header: 401, or next.ServeHTTP.
AuthPass(p) ==
    /\ pc[p] = "authPass" /\ conn = Nil
    /\ \/ /\ Agrees(p, cred[p])
          /\ pc' = [pc EXCEPT ![p] = "admitted"]
          /\ got' = [got EXCEPT ![p] = Nil]
          /\ UNCHANGED <<cred, old, new, since>>
       \/ /\ ~Agrees(p, cred[p])
          /\ Return(p)
    /\ UNCHANGED <<app, conn, tx, mpc, requests, crashes>>

\* One of the handlers that leave the account alone, or a PUT /api/auth that
\* is refused with 400 for its body.
OtherHandler(p) ==
    /\ pc[p] = "admitted"
    /\ Return(p)
    /\ UNCHANGED <<app, conn, tx, mpc, requests, crashes>>

-----------------------------------------------------------------------------
(***************************************************************************)
(* authHandler: PUT /api/auth.                                             *)
(***************************************************************************)

\* "all fields required".
AllFields(o, n) == o.user # Blank /\ o.pass # Blank /\ n.user # Blank /\ n.pass # Blank

DecodeBody(p) ==
    /\ pc[p] = "admitted"
    /\ \E o \in Fields, n \in Fields :
          /\ AllFields(o, n)
          /\ old' = [old EXCEPT ![p] = o]
          /\ new' = [new EXCEPT ![p] = n]
    /\ pc' = [pc EXCEPT ![p] = "oldUser"]
    /\ UNCHANGED <<app, conn, tx, mpc, cred, got, since, requests, crashes>>

CurrentUser(p) == GetAdminUser(p, "oldUser", "oldPass")

\* GetAdminPass and the comparison with the old credentials: 401 or go on.
CurrentPass(p) ==
    /\ pc[p] = "oldPass" /\ conn = Nil
    /\ \/ /\ Agrees(p, old[p])
          /\ pc' = [pc EXCEPT ![p] = "begin"]
          /\ UNCHANGED <<local, since>>
       \/ /\ ~Agrees(p, old[p])
          /\ Return(p)
    /\ UNCHANGED <<app, conn, tx, mpc, requests, crashes>>

Begin(p) ==
    /\ pc[p] = "begin" /\ conn = Nil
    /\ conn' = p
    /\ tx' = app
    /\ pc' = [pc EXCEPT ![p] = "updateUser"]
    /\ UNCHANGED <<app, mpc, local, since, requests, crashes>>

\* Mutant: the statement asks the pool for a connection while the
\* transaction keeps the only one.
UpdateUserOutside(p) ==
    /\ pc[p] = "updateUser" /\ conn = Nil
    /\ Write("user", new[p].user)
    /\ pc' = [pc EXCEPT ![p] = "updatePass"]
    /\ UNCHANGED <<app, conn, mpc, local, since, requests, crashes>>

UpdateUser(p) ==
    /\ pc[p] = "updateUser"
    /\ Write("user", new[p].user)
    /\ pc' = [pc EXCEPT ![p] = "updatePass"]
    /\ UNCHANGED <<app, conn, mpc, local, since, requests, crashes>>

UpdatePass(p) ==
    /\ pc[p] = "updatePass"
    /\ Write("pass", new[p].pass)
    /\ pc' = [pc EXCEPT ![p] = "commit"]
    /\ UNCHANGED <<app, conn, mpc, local, since, requests, crashes>>

\* Mutant: the error of Commit is not looked at.
CommitChangeUnchecked(p) ==
    /\ pc[p] = "commit"
    /\ \/ Commit
       \/ tx' = NoWrites /\ conn' = Nil /\ UNCHANGED <<app, since>>
    /\ pc' = [pc EXCEPT ![p] = "ok"]
    /\ UNCHANGED <<mpc, local, requests, crashes>>

CommitChange(p) ==
    /\ pc[p] = "commit"
    /\ Commit
    /\ pc' = [pc EXCEPT ![p] = "ok"]
    /\ UNCHANGED <<mpc, local, requests, crashes>>

\* writeJSON: {"status": "ok"}.
AnswerOk(p) ==
    /\ pc[p] = "ok"
    /\ Return(p)
    /\ UNCHANGED <<app, conn, tx, mpc, requests, crashes>>

\* A SELECT fails (the client went away, SQLite reports an error): 500.
ReadFails(p) ==
    /\ pc[p] \in {"authUser", "authPass", "oldUser", "oldPass", "begin"}
    /\ Return(p)
    /\ UNCHANGED <<app, conn, tx, mpc, requests, crashes>>

\* Mutant: no deferred Rollback, the transaction stays open.
RollbackForgotten(p) ==
    /\ pc[p] \in {"updateUser", "updatePass", "commit"}
    /\ Return(p)
    /\ UNCHANGED <<app, conn, tx, mpc, requests, crashes>>

\* A statement of the transaction or Commit fails: the deferred Rollback, 500.
Rollback(p) ==
    /\ pc[p] \in {"updateUser", "updatePass", "commit"}
    /\ tx' = NoWrites
    /\ conn' = Nil
    /\ Return(p)
    /\ UNCHANGED <<app, mpc, requests, crashes>>

-----------------------------------------------------------------------------

Main == CountAccount \/ InsertUser \/ InsertPass \/ CommitDefault

Progress(p) ==
    \/ AuthUser(p) \/ AuthPass(p) \/ OtherHandler(p) \/ DecodeBody(p)
    \/ CurrentUser(p) \/ CurrentPass(p)
    \/ Begin(p) \/ UpdateUser(p) \/ UpdatePass(p) \/ CommitChange(p) \/ AnswerOk(p)

Handle(p) == StartRequest(p) \/ Progress(p) \/ ReadFails(p) \/ Rollback(p)

Next == Main \/ Crash \/ \E p \in Clients : Handle(p)

Spec == Init /\ [][Next]_vars

\* main and a goroutine that can run are scheduled, and database/sql serves
\* the requests that queue for the connection in the order they came, so a
\* waiter is not passed over for ever.  Nothing makes requests, failures or
\* crashes happen.
FairSpec == Spec /\ WF_vars(Main) /\ \A p \in Clients : SF_vars(Progress(p))

-----------------------------------------------------------------------------
(***************************************************************************)
(* Properties.                                                             *)
(***************************************************************************)

PcValues == {"idle", "authUser", "authPass", "admitted", "oldUser", "oldPass", "begin",
             "updateUser", "updatePass", "commit", "ok"}

\* Every variable keeps its type: in particular the rows hold sealed texts
\* that are not empty, which is what "all fields required" is for.
TypeOK ==
    /\ app \in [user : UserColumn, pass : PassColumn]
    /\ tx \in [user : UserColumn, pass : PassColumn]
    /\ conn \in Clients \cup {"main", Nil}
    /\ mpc \in {"count", "insertUser", "insertPass", "commit", "up"}
    /\ pc \in [Clients -> PcValues]
    /\ cred \in [Clients -> Pairs \cup {Nil}]
    /\ got \in [Clients -> Users \cup {Nil}]
    /\ old \in [Clients -> Pairs \cup {Nil}]
    /\ new \in [Clients -> Pairs \cup {Nil}]
    /\ userSince \in [Clients -> SUBSET Users]
    /\ passSince \in [Clients -> SUBSET Passes]
    /\ requests \in Nat /\ crashes \in Nat

\* auth compares with two reads, and another request may replace the account
\* between them.  What still holds of a request that was let in: each half of
\* the pair it presented was current at some time since it arrived.  So once
\* a change is answered "ok", a request that comes later and presents a name
\* or a password that was replaced is refused.
AdmittedCurrent ==
    \A p \in Clients : pc[p] \notin {"idle", "authUser", "authPass"} =>
        cred[p].user \in userSince[p] /\ cred[p].pass \in passSince[p]

\* An account that exists changes only when a request commits, into exactly
\* the pair that request asked for, and the old name and password it gave
\* were each current at some time since it arrived.  No failure, crash or
\* restart in the middle leaves half of a change or brings the default back.
ChangedByVerified ==
    [][Account # Nil /\ Account' # Account =>
          \E p \in Clients :
              /\ pc[p] = "commit" /\ pc'[p] = "ok"
              /\ Account' = new[p]
              /\ old[p].user \in userSince[p] /\ old[p].pass \in passSince[p]]_vars

\* The statements on app_config implement the abstract account.
Phase(p) == CASE pc[p] \in {"begin", "updateUser", "updatePass", "commit"} -> "verified"
              [] pc[p] = "ok" -> "changed"
              [] OTHER -> "out"

AdminAccount == INSTANCE AdminAccount
    WITH Requests <- Clients, None <- Nil,
         account <- Account,
         phase <- [p \in Clients |-> Phase(p)],
         wanted <- [p \in Clients |-> IF Phase(p) = "out" THEN Nil ELSE new[p]]
ImplementsAccount == AdminAccount!Spec

\* Every request is answered: a transaction gives the connection back, and
\* no goroutine waits for it while it holds it.
RequestsAnswered == \A p \in Clients : pc[p] # "idle" ~> pc[p] = "idle"

-----------------------------------------------------------------------------
(***************************************************************************)
(* The inductive invariant behind the safety properties, in parts.         *)
(***************************************************************************)

InTransaction == {"updateUser", "updatePass", "commit"}

\* The connection is held by exactly the goroutine that is inside a
\* transaction: main while it installs the default account, or one client.
ConnInv ==
    /\ conn = "main" <=> mpc \in {"insertUser", "insertPass", "commit"}
    /\ \A p \in Clients : pc[p] \in InTransaction <=> conn = p

\* No request before there is an account; main inserts only where none was.
AccountInv ==
    /\ ~Serving => \A p \in Clients : pc[p] = "idle"
    /\ Serving => app.user # Nil /\ app.pass # Nil
    /\ mpc \in {"insertUser", "insertPass", "commit"} => Account = Nil

\* What the transaction will commit: the default account, or the pair that
\* its request asked for.
TxInv ==
    /\ mpc \in {"insertPass", "commit"} => tx.user = EncryptAES(DefaultUser)
    /\ mpc = "commit" => tx.pass = EncryptAES(DefaultPass)
    /\ \A p \in Clients :
          /\ pc[p] \in {"updatePass", "commit"} => tx.user = EncryptAES(new[p].user)
          /\ pc[p] = "commit" => tx.pass = EncryptAES(new[p].pass)

\* A request under way has its header and, once decoded, its body; what is
\* current now, the name it has read, and what it was compared with were
\* current since it began.
RequestInv ==
    \A p \in Clients :
        /\ pc[p] # "idle" => /\ cred[p] # Nil
                             /\ DecryptAES(app.user) \in userSince[p]
                             /\ DecryptAES(app.pass) \in passSince[p]
        /\ pc[p] \in {"authPass", "oldPass"} => got[p] \in userSince[p]
        /\ pc[p] \in {"oldUser", "oldPass", "begin", "ok"} \cup InTransaction =>
              old[p] # Nil /\ new[p] # Nil
        /\ pc[p] \in {"begin", "ok"} \cup InTransaction =>
              old[p].user \in userSince[p] /\ old[p].pass \in passSince[p]

\* Everything AdmittedCurrent, ChangedByVerified and the refinement of
\* AdminAccount rest on.
IndInv == TypeOK /\ ConnInv /\ AccountInv /\ TxInv /\ RequestInv /\ AdmittedCurrent

=============================================================================
