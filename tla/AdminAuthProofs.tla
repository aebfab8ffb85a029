-------------------------- MODULE AdminAuthProofs --------------------------
(***************************************************************************)
(* Proofs about AdminAuth, for any number of clients, requests and crashes *)
(* and all user names and passwords.                                       *)
(***************************************************************************)
EXTENDS AdminAuth, TLAPS

-----------------------------------------------------------------------------
(***************************************************************************)
(* Facts about the data.                                                   *)
(***************************************************************************)

\* A column that is not missing opens to what was sealed.
LEMMA ColumnFacts ==
    /\ \A c \in UserColumn : c # Nil => DecryptAES(c) \in Users
    /\ \A c \in PassColumn : c # Nil => DecryptAES(c) \in Passes
    /\ \A u \in Users : EncryptAES(u) \in UserColumn /\ EncryptAES(u) # Nil
    /\ \A w \in Passes : EncryptAES(w) \in PassColumn /\ EncryptAES(w) # Nil
    /\ \A x : DecryptAES(EncryptAES(x)) = x
  BY CredentialsAssumption DEF UserColumn, PassColumn, DecryptAES, EncryptAES

\* The empty transaction, the default pair and the body of a request.
LEMMA PairFacts ==
    /\ NoWrites \in [user : UserColumn, pass : PassColumn]
    /\ Default \in Pairs
    /\ \A a \in Pairs : a # Nil /\ a.user \in Users /\ a.pass \in Passes
    /\ \A o \in Fields, n \in Fields : AllFields(o, n) => o \in Pairs /\ n \in Pairs
  <1>1. NoWrites \in [user : UserColumn, pass : PassColumn]
    BY DEF NoWrites, UserColumn, PassColumn
  <1>2. Default \in Pairs
    BY CredentialsAssumption DEF Default, Pairs
  <1>3. \A a \in Pairs : a # Nil /\ a.user \in Users /\ a.pass \in Passes
    BY CredentialsAssumption DEF Pairs
  <1>4. \A o \in Fields, n \in Fields : AllFields(o, n) => o \in Pairs /\ n \in Pairs
    BY DEF Fields, AllFields, Pairs
  <1> QED  BY <1>1, <1>2, <1>3, <1>4

\* main and Nil are no clients.
LEMMA Holders == "main" # Nil /\ \A p \in Clients : p # Nil /\ p # "main"
  BY CredentialsAssumption

\* The transaction that is committed holds an account.
LEMMA TxComplete ==
    ASSUME TypeOK, TxInv, RequestInv
    PROVE  /\ mpc = "commit" => /\ tx.user # Nil /\ DecryptAES(tx.user) = DefaultUser
                                /\ tx.pass # Nil /\ DecryptAES(tx.pass) = DefaultPass
           /\ \A p \in Clients : pc[p] = "commit" =>
                 /\ new[p] \in Pairs
                 /\ tx.user # Nil /\ DecryptAES(tx.user) = new[p].user
                 /\ tx.pass # Nil /\ DecryptAES(tx.pass) = new[p].pass
  <1>1. ASSUME mpc = "commit"
        PROVE  /\ tx.user # Nil /\ DecryptAES(tx.user) = DefaultUser
               /\ tx.pass # Nil /\ DecryptAES(tx.pass) = DefaultPass
    BY <1>1, ColumnFacts, CredentialsAssumption DEF TxInv
  <1>2. ASSUME NEW p \in Clients, pc[p] = "commit"
        PROVE  /\ new[p] \in Pairs
               /\ tx.user # Nil /\ DecryptAES(tx.user) = new[p].user
               /\ tx.pass # Nil /\ DecryptAES(tx.pass) = new[p].pass
    <2>1. new[p] \in Pairs
      BY <1>2 DEF TypeOK, RequestInv, InTransaction
    <2> QED  BY <1>2, <2>1, ColumnFacts, PairFacts DEF TxInv
  <1> QED  BY <1>1, <1>2

-----------------------------------------------------------------------------
(***************************************************************************)
(* Every step keeps the invariant.                                         *)
(***************************************************************************)

\* The initial states satisfy the invariant.
LEMMA InvInit == Init => IndInv
  <1> SUFFICES ASSUME Init PROVE IndInv
    OBVIOUS
  <1>1. app \in [user : UserColumn, pass : PassColumn]
    BY PairFacts, ColumnFacts DEF Init
  <1>2. TypeOK
    BY <1>1, PairFacts DEF Init, TypeOK, PcValues
  <1>3. ConnInv /\ AccountInv /\ TxInv /\ RequestInv /\ AdmittedCurrent
    BY Holders DEF Init, ConnInv, AccountInv, TxInv, RequestInv, AdmittedCurrent,
                   InTransaction, Serving
  <1> QED  BY <1>2, <1>3 DEF IndInv

\* Every step keeps the types.
LEMMA TypeStep ==
    TypeOK /\ AccountInv /\ TxInv /\ RequestInv /\ [Next]_vars => TypeOK'
  <1> SUFFICES ASSUME TypeOK, AccountInv, TxInv, RequestInv, [Next]_vars PROVE TypeOK'
    OBVIOUS
  <1> USE DEF TypeOK, PcValues, local, since
  <1>1. ASSUME CountAccount PROVE TypeOK'
    BY <1>1, PairFacts DEF CountAccount
  <1>2. ASSUME InsertUser PROVE TypeOK'
    <2>1. EncryptAES(DefaultUser) \in UserColumn
      BY ColumnFacts, CredentialsAssumption
    <2> QED  BY <1>2, <2>1 DEF InsertUser, Write
  <1>3. ASSUME InsertPass PROVE TypeOK'
    <2>1. EncryptAES(DefaultPass) \in PassColumn
      BY ColumnFacts, CredentialsAssumption
    <2> QED  BY <1>3, <2>1 DEF InsertPass, Write
  <1>4. ASSUME CommitDefault PROVE TypeOK'
    <2>1. tx.user # Nil /\ tx.pass # Nil
      BY <1>4, TxComplete DEF CommitDefault
    <2>2. DecryptAES(tx.user) \in Users /\ DecryptAES(tx.pass) \in Passes
      BY <2>1, ColumnFacts
    <2> QED  BY <1>4, <2>2, PairFacts DEF CommitDefault, Commit
  <1>5. ASSUME Crash PROVE TypeOK'
    BY <1>5, PairFacts DEF Crash
  <1>6. ASSUME NEW p \in Clients, StartRequest(p) PROVE TypeOK'
    <2>1. DecryptAES(app.user) \in Users /\ DecryptAES(app.pass) \in Passes
      BY <1>6, ColumnFacts DEF StartRequest, AccountInv
    <2> QED  BY <1>6, <2>1 DEF StartRequest
  <1>7. ASSUME NEW p \in Clients, AuthUser(p) PROVE TypeOK'
    <2>1. DecryptAES(app.user) \in Users
      BY <1>7, ColumnFacts DEF AuthUser, GetAdminUser, AccountInv
    <2> QED  BY <1>7, <2>1 DEF AuthUser, GetAdminUser
  <1>8. ASSUME NEW p \in Clients, AuthPass(p) PROVE TypeOK'
    BY <1>8, PairFacts DEF AuthPass, Return, Agrees
  <1>9. ASSUME NEW p \in Clients, OtherHandler(p) PROVE TypeOK'
    BY <1>9, PairFacts DEF OtherHandler, Return
  <1>10. ASSUME NEW p \in Clients, DecodeBody(p) PROVE TypeOK'
    BY <1>10, PairFacts DEF DecodeBody
  <1>11. ASSUME NEW p \in Clients, CurrentUser(p) PROVE TypeOK'
    <2>1. DecryptAES(app.user) \in Users
      BY <1>11, ColumnFacts DEF CurrentUser, GetAdminUser, AccountInv
    <2> QED  BY <1>11, <2>1 DEF CurrentUser, GetAdminUser
  <1>12. ASSUME NEW p \in Clients, CurrentPass(p) PROVE TypeOK'
    BY <1>12, PairFacts DEF CurrentPass, Return, Agrees
  <1>13. ASSUME NEW p \in Clients, Begin(p) PROVE TypeOK'
    BY <1>13, PairFacts DEF Begin
  <1>14. ASSUME NEW p \in Clients, UpdateUser(p) PROVE TypeOK'
    <2>1. EncryptAES(new[p].user) \in UserColumn
      BY <1>14, ColumnFacts, PairFacts DEF UpdateUser, RequestInv, InTransaction
    <2> QED  BY <1>14, <2>1 DEF UpdateUser, Write
  <1>15. ASSUME NEW p \in Clients, UpdatePass(p) PROVE TypeOK'
    <2>1. EncryptAES(new[p].pass) \in PassColumn
      BY <1>15, ColumnFacts, PairFacts DEF UpdatePass, RequestInv, InTransaction
    <2> QED  BY <1>15, <2>1 DEF UpdatePass, Write
  <1>16. ASSUME NEW p \in Clients, CommitChange(p) PROVE TypeOK'
    <2>1. tx.user # Nil /\ tx.pass # Nil
      BY <1>16, TxComplete DEF CommitChange
    <2>2. DecryptAES(tx.user) \in Users /\ DecryptAES(tx.pass) \in Passes
      BY <2>1, ColumnFacts
    <2> QED  BY <1>16, <2>2, PairFacts DEF CommitChange, Commit
  <1>17. ASSUME NEW p \in Clients, AnswerOk(p) PROVE TypeOK'
    BY <1>17, PairFacts DEF AnswerOk, Return
  <1>18. ASSUME NEW p \in Clients, ReadFails(p) PROVE TypeOK'
    BY <1>18, PairFacts DEF ReadFails, Return
  <1>19. ASSUME NEW p \in Clients, Rollback(p) PROVE TypeOK'
    BY <1>19, PairFacts DEF Rollback, Return
  <1>20. ASSUME UNCHANGED vars PROVE TypeOK'
    BY <1>20 DEF vars
  <1> QED
    BY <1>1, <1>2, <1>3, <1>4, <1>5, <1>6, <1>7, <1>8, <1>9, <1>10, <1>11, <1>12,
       <1>13, <1>14, <1>15, <1>16, <1>17, <1>18, <1>19, <1>20
    DEF Next, Main, Handle, Progress

\* One transaction at a time, with the connection.
LEMMA ConnStep ==
    TypeOK /\ AccountInv /\ ConnInv /\ [Next]_vars => ConnInv'
  <1> SUFFICES ASSUME TypeOK, AccountInv, ConnInv, [Next]_vars PROVE ConnInv'
    OBVIOUS
  <1> USE DEF TypeOK, ConnInv, InTransaction, local, since
  <1>1. ASSUME CountAccount PROVE ConnInv'
    BY <1>1, Holders DEF CountAccount, AccountInv, Serving
  <1>2. ASSUME InsertUser PROVE ConnInv'
    BY <1>2, Holders DEF InsertUser, Write, EncryptAES, AccountInv, Serving
  <1>3. ASSUME InsertPass PROVE ConnInv'
    BY <1>3, Holders DEF InsertPass, Write, EncryptAES, AccountInv, Serving
  <1>4. ASSUME CommitDefault PROVE ConnInv'
    BY <1>4, Holders DEF CommitDefault, Commit, AccountInv, Serving
  <1>5. ASSUME Crash PROVE ConnInv'
    BY <1>5, Holders DEF Crash, AccountInv, Serving
  <1>6. ASSUME NEW p \in Clients, StartRequest(p) PROVE ConnInv'
    BY <1>6, Holders DEF StartRequest, AccountInv, Serving
  <1>7. ASSUME NEW p \in Clients, AuthUser(p) PROVE ConnInv'
    BY <1>7, Holders DEF AuthUser, GetAdminUser, AccountInv, Serving
  <1>8. ASSUME NEW p \in Clients, AuthPass(p) PROVE ConnInv'
    BY <1>8, Holders DEF AuthPass, Return, Agrees, AccountInv, Serving
  <1>9. ASSUME NEW p \in Clients, OtherHandler(p) PROVE ConnInv'
    BY <1>9, Holders DEF OtherHandler, Return, AccountInv, Serving
  <1>10. ASSUME NEW p \in Clients, DecodeBody(p) PROVE ConnInv'
    BY <1>10, Holders DEF DecodeBody, AccountInv, Serving
  <1>11. ASSUME NEW p \in Clients, CurrentUser(p) PROVE ConnInv'
    BY <1>11, Holders DEF CurrentUser, GetAdminUser, AccountInv, Serving
  <1>12. ASSUME NEW p \in Clients, CurrentPass(p) PROVE ConnInv'
    BY <1>12, Holders DEF CurrentPass, Return, Agrees, AccountInv, Serving
  <1>13. ASSUME NEW p \in Clients, Begin(p) PROVE ConnInv'
    BY <1>13, Holders DEF Begin, AccountInv, Serving
  <1>14. ASSUME NEW p \in Clients, UpdateUser(p) PROVE ConnInv'
    BY <1>14, Holders DEF UpdateUser, Write, EncryptAES, AccountInv, Serving
  <1>15. ASSUME NEW p \in Clients, UpdatePass(p) PROVE ConnInv'
    BY <1>15, Holders DEF UpdatePass, Write, EncryptAES, AccountInv, Serving
  <1>16. ASSUME NEW p \in Clients, CommitChange(p) PROVE ConnInv'
    BY <1>16, Holders DEF CommitChange, Commit, AccountInv, Serving
  <1>17. ASSUME NEW p \in Clients, AnswerOk(p) PROVE ConnInv'
    BY <1>17, Holders DEF AnswerOk, Return, AccountInv, Serving
  <1>18. ASSUME NEW p \in Clients, ReadFails(p) PROVE ConnInv'
    BY <1>18, Holders DEF ReadFails, Return, AccountInv, Serving
  <1>19. ASSUME NEW p \in Clients, Rollback(p) PROVE ConnInv'
    BY <1>19, Holders DEF Rollback, Return, AccountInv, Serving
  <1>20. ASSUME UNCHANGED vars PROVE ConnInv'
    BY <1>20 DEF vars
  <1> QED
    BY <1>1, <1>2, <1>3, <1>4, <1>5, <1>6, <1>7, <1>8, <1>9, <1>10, <1>11, <1>12,
       <1>13, <1>14, <1>15, <1>16, <1>17, <1>18, <1>19, <1>20
    DEF Next, Main, Handle, Progress

\* An account from the first request on.
LEMMA AccountStep ==
    TypeOK /\ AccountInv /\ TxInv /\ RequestInv /\ ConnInv /\ [Next]_vars => AccountInv'
  <1> SUFFICES ASSUME TypeOK, AccountInv, TxInv, RequestInv, ConnInv, [Next]_vars PROVE AccountInv'
    OBVIOUS
  <1> USE DEF TypeOK, AccountInv, Serving, Account, local, since
  <1>1. ASSUME CountAccount PROVE AccountInv'
    BY <1>1, PairFacts, ColumnFacts DEF CountAccount, Pairs
  <1>2. ASSUME InsertUser PROVE AccountInv'
    BY <1>2 DEF InsertUser
  <1>3. ASSUME InsertPass PROVE AccountInv'
    BY <1>3 DEF InsertPass
  <1>4. ASSUME CommitDefault PROVE AccountInv'
    BY <1>4, TxComplete DEF CommitDefault, Commit
  <1>5. ASSUME Crash PROVE AccountInv'
    BY <1>5 DEF Crash
  <1>6. ASSUME NEW p \in Clients, StartRequest(p) PROVE AccountInv'
    BY <1>6 DEF StartRequest
  <1>7. ASSUME NEW p \in Clients, AuthUser(p) PROVE AccountInv'
    BY <1>7 DEF AuthUser, GetAdminUser
  <1>8. ASSUME NEW p \in Clients, AuthPass(p) PROVE AccountInv'
    BY <1>8 DEF AuthPass, Return, Agrees
  <1>9. ASSUME NEW p \in Clients, OtherHandler(p) PROVE AccountInv'
    BY <1>9 DEF OtherHandler, Return
  <1>10. ASSUME NEW p \in Clients, DecodeBody(p) PROVE AccountInv'
    BY <1>10 DEF DecodeBody
  <1>11. ASSUME NEW p \in Clients, CurrentUser(p) PROVE AccountInv'
    BY <1>11 DEF CurrentUser, GetAdminUser
  <1>12. ASSUME NEW p \in Clients, CurrentPass(p) PROVE AccountInv'
    BY <1>12 DEF CurrentPass, Return, Agrees
  <1>13. ASSUME NEW p \in Clients, Begin(p) PROVE AccountInv'
    BY <1>13 DEF Begin
  <1>14. ASSUME NEW p \in Clients, UpdateUser(p) PROVE AccountInv'
    BY <1>14 DEF UpdateUser, Write, EncryptAES
  <1>15. ASSUME NEW p \in Clients, UpdatePass(p) PROVE AccountInv'
    BY <1>15 DEF UpdatePass, Write, EncryptAES
  <1>16. ASSUME NEW p \in Clients, CommitChange(p) PROVE AccountInv'
    BY <1>16, TxComplete DEF CommitChange, Commit
  <1>17. ASSUME NEW p \in Clients, AnswerOk(p) PROVE AccountInv'
    BY <1>17 DEF AnswerOk, Return
  <1>18. ASSUME NEW p \in Clients, ReadFails(p) PROVE AccountInv'
    BY <1>18 DEF ReadFails, Return
  <1>19. ASSUME NEW p \in Clients, Rollback(p) PROVE AccountInv'
    BY <1>19 DEF Rollback, Return
  <1>20. ASSUME UNCHANGED vars PROVE AccountInv'
    BY <1>20 DEF vars
  <1> QED
    BY <1>1, <1>2, <1>3, <1>4, <1>5, <1>6, <1>7, <1>8, <1>9, <1>10, <1>11, <1>12,
       <1>13, <1>14, <1>15, <1>16, <1>17, <1>18, <1>19, <1>20
    DEF Next, Main, Handle, Progress

\* The transaction holds what its request asked for.
LEMMA TxStep ==
    TypeOK /\ AccountInv /\ ConnInv /\ TxInv /\ [Next]_vars => TxInv'
  <1> SUFFICES ASSUME TypeOK, AccountInv, ConnInv, TxInv, [Next]_vars PROVE TxInv'
    OBVIOUS
  <1> USE DEF TypeOK, TxInv, ConnInv, InTransaction, local, since
  <1>1. ASSUME CountAccount PROVE TxInv'
    BY <1>1, Holders DEF CountAccount, AccountInv, Serving
  <1>2. ASSUME InsertUser PROVE TxInv'
    BY <1>2, Holders DEF InsertUser, Write, EncryptAES, AccountInv, Serving
  <1>3. ASSUME InsertPass PROVE TxInv'
    BY <1>3, Holders DEF InsertPass, Write, EncryptAES, AccountInv, Serving
  <1>4. ASSUME CommitDefault PROVE TxInv'
    BY <1>4, Holders DEF CommitDefault, Commit, AccountInv, Serving
  <1>5. ASSUME Crash PROVE TxInv'
    BY <1>5, Holders DEF Crash, AccountInv, Serving
  <1>6. ASSUME NEW p \in Clients, StartRequest(p) PROVE TxInv'
    BY <1>6, Holders DEF StartRequest, AccountInv, Serving
  <1>7. ASSUME NEW p \in Clients, AuthUser(p) PROVE TxInv'
    BY <1>7, Holders DEF AuthUser, GetAdminUser, AccountInv, Serving
  <1>8. ASSUME NEW p \in Clients, AuthPass(p) PROVE TxInv'
    BY <1>8, Holders DEF AuthPass, Return, Agrees, AccountInv, Serving
  <1>9. ASSUME NEW p \in Clients, OtherHandler(p) PROVE TxInv'
    BY <1>9, Holders DEF OtherHandler, Return, AccountInv, Serving
  <1>10. ASSUME NEW p \in Clients, DecodeBody(p) PROVE TxInv'
    BY <1>10, Holders DEF DecodeBody, AccountInv, Serving
  <1>11. ASSUME NEW p \in Clients, CurrentUser(p) PROVE TxInv'
    BY <1>11, Holders DEF CurrentUser, GetAdminUser, AccountInv, Serving
  <1>12. ASSUME NEW p \in Clients, CurrentPass(p) PROVE TxInv'
    BY <1>12, Holders DEF CurrentPass, Return, Agrees, AccountInv, Serving
  <1>13. ASSUME NEW p \in Clients, Begin(p) PROVE TxInv'
    BY <1>13, Holders DEF Begin, AccountInv, Serving
  <1>14. ASSUME NEW p \in Clients, UpdateUser(p) PROVE TxInv'
    BY <1>14, Holders DEF UpdateUser, Write, EncryptAES, AccountInv, Serving
  <1>15. ASSUME NEW p \in Clients, UpdatePass(p) PROVE TxInv'
    BY <1>15, Holders DEF UpdatePass, Write, EncryptAES, AccountInv, Serving
  <1>16. ASSUME NEW p \in Clients, CommitChange(p) PROVE TxInv'
    BY <1>16, Holders DEF CommitChange, Commit, AccountInv, Serving
  <1>17. ASSUME NEW p \in Clients, AnswerOk(p) PROVE TxInv'
    BY <1>17, Holders DEF AnswerOk, Return, AccountInv, Serving
  <1>18. ASSUME NEW p \in Clients, ReadFails(p) PROVE TxInv'
    BY <1>18, Holders DEF ReadFails, Return, AccountInv, Serving
  <1>19. ASSUME NEW p \in Clients, Rollback(p) PROVE TxInv'
    BY <1>19, Holders DEF Rollback, Return, AccountInv, Serving
  <1>20. ASSUME UNCHANGED vars PROVE TxInv'
    BY <1>20 DEF vars
  <1> QED
    BY <1>1, <1>2, <1>3, <1>4, <1>5, <1>6, <1>7, <1>8, <1>9, <1>10, <1>11, <1>12,
       <1>13, <1>14, <1>15, <1>16, <1>17, <1>18, <1>19, <1>20
    DEF Next, Main, Handle, Progress

\* What a request has read was current since it began.
LEMMA RequestStep ==
    TypeOK /\ AccountInv /\ ConnInv /\ TxInv /\ RequestInv /\ [Next]_vars => RequestInv'
  <1> SUFFICES ASSUME TypeOK, AccountInv, ConnInv, TxInv, RequestInv, [Next]_vars PROVE RequestInv'
    OBVIOUS
  <1> USE DEF TypeOK, RequestInv, InTransaction, local, since
  <1>1. ASSUME CountAccount PROVE RequestInv'
    BY <1>1, PairFacts DEF CountAccount
  <1>2. ASSUME InsertUser PROVE RequestInv'
    BY <1>2, PairFacts DEF InsertUser, Write, EncryptAES
  <1>3. ASSUME InsertPass PROVE RequestInv'
    BY <1>3, PairFacts DEF InsertPass, Write, EncryptAES
  <1>4. ASSUME CommitDefault PROVE RequestInv'
    BY <1>4, PairFacts DEF CommitDefault, Commit
  <1>5. ASSUME Crash PROVE RequestInv'
    BY <1>5, PairFacts DEF Crash
  <1>6. ASSUME NEW p \in Clients, StartRequest(p) PROVE RequestInv'
    BY <1>6, PairFacts DEF StartRequest, AccountInv
  <1>7. ASSUME NEW p \in Clients, AuthUser(p) PROVE RequestInv'
    BY <1>7, PairFacts DEF AuthUser, GetAdminUser
  <1>8. ASSUME NEW p \in Clients, AuthPass(p) PROVE RequestInv'
    BY <1>8, PairFacts DEF AuthPass, Return, Agrees
  <1>9. ASSUME NEW p \in Clients, OtherHandler(p) PROVE RequestInv'
    BY <1>9, PairFacts DEF OtherHandler, Return
  <1>10. ASSUME NEW p \in Clients, DecodeBody(p) PROVE RequestInv'
    BY <1>10, PairFacts DEF DecodeBody
  <1>11. ASSUME NEW p \in Clients, CurrentUser(p) PROVE RequestInv'
    BY <1>11, PairFacts DEF CurrentUser, GetAdminUser
  <1>12. ASSUME NEW p \in Clients, CurrentPass(p) PROVE RequestInv'
    BY <1>12, PairFacts DEF CurrentPass, Return, Agrees
  <1>13. ASSUME NEW p \in Clients, Begin(p) PROVE RequestInv'
    BY <1>13, PairFacts DEF Begin
  <1>14. ASSUME NEW p \in Clients, UpdateUser(p) PROVE RequestInv'
    BY <1>14, PairFacts DEF UpdateUser, Write, EncryptAES
  <1>15. ASSUME NEW p \in Clients, UpdatePass(p) PROVE RequestInv'
    BY <1>15, PairFacts DEF UpdatePass, Write, EncryptAES
  <1>16. ASSUME NEW p \in Clients, CommitChange(p) PROVE RequestInv'
    BY <1>16, PairFacts DEF CommitChange, Commit
  <1>17. ASSUME NEW p \in Clients, AnswerOk(p) PROVE RequestInv'
    BY <1>17, PairFacts DEF AnswerOk, Return
  <1>18. ASSUME NEW p \in Clients, ReadFails(p) PROVE RequestInv'
    BY <1>18, PairFacts DEF ReadFails, Return
  <1>19. ASSUME NEW p \in Clients, Rollback(p) PROVE RequestInv'
    BY <1>19, PairFacts DEF Rollback, Return
  <1>20. ASSUME UNCHANGED vars PROVE RequestInv'
    BY <1>20 DEF vars
  <1> QED
    BY <1>1, <1>2, <1>3, <1>4, <1>5, <1>6, <1>7, <1>8, <1>9, <1>10, <1>11, <1>12,
       <1>13, <1>14, <1>15, <1>16, <1>17, <1>18, <1>19, <1>20
    DEF Next, Main, Handle, Progress

\* Who was let in presented current credentials.
LEMMA AdmittedStep ==
    TypeOK /\ RequestInv /\ AdmittedCurrent /\ [Next]_vars => AdmittedCurrent'
  <1> SUFFICES ASSUME TypeOK, RequestInv, AdmittedCurrent, [Next]_vars PROVE AdmittedCurrent'
    OBVIOUS
  <1> USE DEF TypeOK, AdmittedCurrent, RequestInv, local, since
  <1>1. ASSUME CountAccount PROVE AdmittedCurrent'
    BY <1>1 DEF CountAccount
  <1>2. ASSUME InsertUser PROVE AdmittedCurrent'
    BY <1>2 DEF InsertUser, Write, EncryptAES
  <1>3. ASSUME InsertPass PROVE AdmittedCurrent'
    BY <1>3 DEF InsertPass, Write, EncryptAES
  <1>4. ASSUME CommitDefault PROVE AdmittedCurrent'
    BY <1>4 DEF CommitDefault, Commit
  <1>5. ASSUME Crash PROVE AdmittedCurrent'
    BY <1>5 DEF Crash
  <1>6. ASSUME NEW p \in Clients, StartRequest(p) PROVE AdmittedCurrent'
    BY <1>6 DEF StartRequest
  <1>7. ASSUME NEW p \in Clients, AuthUser(p) PROVE AdmittedCurrent'
    BY <1>7 DEF AuthUser, GetAdminUser
  <1>8. ASSUME NEW p \in Clients, AuthPass(p) PROVE AdmittedCurrent'
    BY <1>8 DEF AuthPass, Return, Agrees
  <1>9. ASSUME NEW p \in Clients, OtherHandler(p) PROVE AdmittedCurrent'
    BY <1>9 DEF OtherHandler, Return
  <1>10. ASSUME NEW p \in Clients, DecodeBody(p) PROVE AdmittedCurrent'
    BY <1>10 DEF DecodeBody
  <1>11. ASSUME NEW p \in Clients, CurrentUser(p) PROVE AdmittedCurrent'
    BY <1>11 DEF CurrentUser, GetAdminUser
  <1>12. ASSUME NEW p \in Clients, CurrentPass(p) PROVE AdmittedCurrent'
    BY <1>12 DEF CurrentPass, Return, Agrees
  <1>13. ASSUME NEW p \in Clients, Begin(p) PROVE AdmittedCurrent'
    BY <1>13 DEF Begin
  <1>14. ASSUME NEW p \in Clients, UpdateUser(p) PROVE AdmittedCurrent'
    BY <1>14 DEF UpdateUser, Write, EncryptAES
  <1>15. ASSUME NEW p \in Clients, UpdatePass(p) PROVE AdmittedCurrent'
    BY <1>15 DEF UpdatePass, Write, EncryptAES
  <1>16. ASSUME NEW p \in Clients, CommitChange(p) PROVE AdmittedCurrent'
    BY <1>16 DEF CommitChange, Commit
  <1>17. ASSUME NEW p \in Clients, AnswerOk(p) PROVE AdmittedCurrent'
    BY <1>17 DEF AnswerOk, Return
  <1>18. ASSUME NEW p \in Clients, ReadFails(p) PROVE AdmittedCurrent'
    BY <1>18 DEF ReadFails, Return
  <1>19. ASSUME NEW p \in Clients, Rollback(p) PROVE AdmittedCurrent'
    BY <1>19 DEF Rollback, Return
  <1>20. ASSUME UNCHANGED vars PROVE AdmittedCurrent'
    BY <1>20 DEF vars
  <1> QED
    BY <1>1, <1>2, <1>3, <1>4, <1>5, <1>6, <1>7, <1>8, <1>9, <1>10, <1>11, <1>12,
       <1>13, <1>14, <1>15, <1>16, <1>17, <1>18, <1>19, <1>20
    DEF Next, Main, Handle, Progress

-----------------------------------------------------------------------------
(***************************************************************************)
(* The theorems.                                                           *)
(***************************************************************************)

\* The invariant, types included, holds in every reachable state.
THEOREM Invariance == Spec => []IndInv
  <1>1. IndInv /\ [Next]_vars => IndInv'
    BY TypeStep, ConnStep, AccountStep, TxStep, RequestStep, AdmittedStep DEF IndInv
  <1> QED  BY InvInit, <1>1, PTL DEF Spec

\* Type correctness: in particular app_config never holds an empty or a
\* missing half of a changed account.
THEOREM TypeCorrect == Spec => []TypeOK
  <1>1. IndInv => TypeOK
    BY DEF IndInv
  <1> QED  BY Invariance, <1>1, PTL

\* auth lets nobody in with a name or a password that was replaced before
\* the request began, however its two reads interleave with changes.
THEOREM AdmittedAlwaysCurrent == Spec => []AdmittedCurrent
  <1>1. IndInv => AdmittedCurrent
    BY DEF IndInv
  <1> QED  BY Invariance, <1>1, PTL

\* Who changes the rows: a commit and nothing else.
LEMMA AppChanges ==
    ASSUME [Next]_vars
    PROVE  \/ CommitDefault
           \/ \E p \in Clients : CommitChange(p)
           \/ UNCHANGED app
  BY DEF vars, Next, Main, Handle, Progress, CountAccount, InsertUser, InsertPass, Crash,
         StartRequest, AuthUser, AuthPass, OtherHandler, DecodeBody, CurrentUser,
         CurrentPass, Begin, UpdateUser, UpdatePass, AnswerOk, ReadFails, Rollback,
         GetAdminUser

\* A commit replaces the whole account.
LEMMA CommitReplaces ==
    ASSUME IndInv
    PROVE  /\ CommitDefault => Account = Nil /\ Account' = Default
           /\ \A p \in Clients : CommitChange(p) => /\ new[p] \in Pairs
                                                     /\ Account # Nil
                                                     /\ Account' = new[p]
  <1>1. ASSUME CommitDefault PROVE Account = Nil /\ Account' = Default
    <2>1. /\ tx.user # Nil /\ DecryptAES(tx.user) = DefaultUser
          /\ tx.pass # Nil /\ DecryptAES(tx.pass) = DefaultPass
      BY <1>1, TxComplete DEF IndInv, CommitDefault
    <2> QED  BY <1>1, <2>1 DEF CommitDefault, Commit, Account, Default, IndInv, AccountInv
  <1>2. ASSUME NEW p \in Clients, CommitChange(p)
        PROVE  new[p] \in Pairs /\ Account # Nil /\ Account' = new[p]
    <2>1. /\ new[p] \in Pairs
          /\ tx.user # Nil /\ DecryptAES(tx.user) = new[p].user
          /\ tx.pass # Nil /\ DecryptAES(tx.pass) = new[p].pass
      BY <1>2, TxComplete DEF IndInv, CommitChange
    <2>2. new[p] = [user |-> new[p].user, pass |-> new[p].pass]
      BY <2>1 DEF Pairs
    <2>3. Account' = new[p]
      BY <1>2, <2>1, <2>2 DEF CommitChange, Commit, Account
    <2>4. app.user # Nil /\ app.pass # Nil
      BY <1>2 DEF CommitChange, IndInv, AccountInv
    <2>5. Account \in Pairs
      BY <2>4, ColumnFacts DEF Account, Pairs, TypeOK, IndInv
    <2> QED  BY <2>1, <2>3, <2>5, PairFacts
  <1> QED  BY <1>1, <1>2

\* An account that exists is replaced only by a verified request, as a
\* whole, and never by the default of a restart.
THEOREM ChangesAreVerified == Spec => ChangedByVerified
  <1> DEFINE Verified ==
        Account # Nil /\ Account' # Account =>
          \E p \in Clients :
              /\ pc[p] = "commit" /\ pc'[p] = "ok"
              /\ Account' = new[p]
              /\ old[p].user \in userSince[p] /\ old[p].pass \in passSince[p]
  <1>1. IndInv /\ [Next]_vars => [Verified]_vars
    <2> SUFFICES ASSUME TypeOK, IndInv, [Next]_vars PROVE Verified
      BY DEF IndInv
    <2>1. CASE CommitDefault
      BY <2>1, CommitReplaces
    <2>2. ASSUME NEW p \in Clients, CommitChange(p) PROVE Verified
      <3>1. pc[p] = "commit" /\ pc'[p] = "ok"
        BY <2>2 DEF CommitChange, TypeOK
      <3>2. old[p].user \in userSince[p] /\ old[p].pass \in passSince[p]
        BY <3>1 DEF IndInv, RequestInv, InTransaction
      <3> QED  BY <2>2, <3>1, <3>2, CommitReplaces
    <2>3. CASE UNCHANGED app
      BY <2>3 DEF Account
    <2> QED  BY <2>1, <2>2, <2>3, AppChanges
  <1> QED  BY Invariance, <1>1, PTL DEF Spec, ChangedByVerified

-----------------------------------------------------------------------------
(***************************************************************************)
(* The statements implement AdminAccount.                                  *)
(***************************************************************************)

\* What the abstract account sees of a state.
phases  == [p \in Clients |-> Phase(p)]
wanteds == [p \in Clients |-> IF Phase(p) = "out" THEN Nil ELSE new[p]]

\* The step changes at most request r, and what the abstract account sees
\* of it.
LEMMA OneRequest ==
    ASSUME NEW r \in Clients, NEW ph, NEW w,
           \A p \in Clients : p # r => pc'[p] = pc[p] /\ new'[p] = new[p],
           Phase(r)' = ph, (IF Phase(r) = "out" THEN Nil ELSE new[r])' = w
    PROVE  /\ phases' = [phases EXCEPT ![r] = ph]
           /\ wanteds' = [wanteds EXCEPT ![r] = w]
  BY DEF phases, wanteds, Phase

\* A step that leaves the rows, and the phases of all requests, alone.
LEMMA Stutter ==
    ASSUME UNCHANGED app,
           \A p \in Clients : /\ Phase(p)' = Phase(p)
                              /\ Phase(p) # "out" => new'[p] = new[p]
    PROVE  UNCHANGED AdminAccount!vars
  <1>1. UNCHANGED <<phases, wanteds>>
    BY DEF phases, wanteds
  <1> QED  BY <1>1 DEF phases, wanteds, Account, AdminAccount!vars

\* A request that is told the outcome.
LEMMA Finishes ==
    ASSUME TypeOK, NEW r \in Clients, Return(r), UNCHANGED app, Phase(r) # "out"
    PROVE  AdminAccount!Finish(r)
  <1>1. /\ \A p \in Clients : p # r => pc'[p] = pc[p] /\ new'[p] = new[p]
        /\ Phase(r)' = "out" /\ (IF Phase(r) = "out" THEN Nil ELSE new[r])' = Nil
    BY DEF Return, TypeOK, Phase
  <1>2. /\ phases' = [phases EXCEPT ![r] = "out"]
        /\ wanteds' = [wanteds EXCEPT ![r] = Nil]
    BY <1>1, OneRequest
  <1>3. UNCHANGED Account
    BY DEF Account
  <1>4. phases[r] # "out"
    BY DEF phases
  <1> QED  BY <1>2, <1>3, <1>4 DEF phases, wanteds, AdminAccount!Finish

\* A goroutine returns that had not been verified.
LEMMA ReturnsUnverified ==
    ASSUME TypeOK, NEW r \in Clients, Return(r), UNCHANGED app, Phase(r) = "out"
    PROVE  UNCHANGED AdminAccount!vars
  <1>1. \A p \in Clients : /\ Phase(p)' = Phase(p)
                           /\ Phase(p) # "out" => new'[p] = new[p]
    BY DEF Return, TypeOK, Phase
  <1> QED  BY <1>1, Stutter

\* Every step is a step of the abstract account, or changes nothing of it.
LEMMA AccountRefined ==
    IndInv /\ [Next]_vars => [AdminAccount!Next]_(AdminAccount!vars)
  <1> SUFFICES ASSUME TypeOK, IndInv, [Next]_vars
               PROVE  [AdminAccount!Next]_(AdminAccount!vars)
    BY DEF IndInv
  <1> DEFINE Refined == [AdminAccount!Next]_(AdminAccount!vars)
  <1>1. CASE CommitDefault
    <2>1. Account = Nil /\ Account' = Default
      BY <1>1, CommitReplaces
    <2>2. UNCHANGED <<phases, wanteds>>
      BY <1>1 DEF CommitDefault, local, phases, wanteds, Phase
    <2>3. AdminAccount!Install
      BY <2>1, <2>2 DEF phases, wanteds, AdminAccount!Install
    <2> QED  BY <2>3 DEF AdminAccount!Next
  <1>2. CASE Crash
    <2>1. UNCHANGED Account
      BY <1>2 DEF Crash, Account
    <2>2. /\ phases' = [p \in Clients |-> "out"]
          /\ wanteds' = [p \in Clients |-> Nil]
      BY <1>2 DEF Crash, phases, wanteds, Phase
    <2>3. AdminAccount!Restart
      BY <2>1, <2>2 DEF phases, wanteds, AdminAccount!Restart
    <2> QED  BY <2>3 DEF AdminAccount!Next
  <1>3. CASE CountAccount \/ InsertUser \/ InsertPass
    BY <1>3, Stutter DEF CountAccount, InsertUser, InsertPass, local, Phase
  <1>4. ASSUME NEW p \in Clients,
               \/ StartRequest(p) \/ AuthUser(p) \/ DecodeBody(p) \/ CurrentUser(p)
               \/ Begin(p) \/ UpdateUser(p) \/ UpdatePass(p)
        PROVE  Refined
    <2>1. UNCHANGED app
      BY <1>4 DEF StartRequest, AuthUser, DecodeBody, CurrentUser, GetAdminUser, Begin,
                  UpdateUser, UpdatePass
    <2>2. \A q \in Clients : Phase(q)' = Phase(q)
      BY <1>4 DEF StartRequest, AuthUser, DecodeBody, CurrentUser, GetAdminUser, Begin,
                  UpdateUser, UpdatePass, Phase, TypeOK
    <2>3. \A q \in Clients : Phase(q) # "out" => new'[q] = new[q]
      BY <1>4 DEF StartRequest, AuthUser, DecodeBody, CurrentUser, GetAdminUser, Begin,
                  UpdateUser, UpdatePass, Phase, TypeOK, local
    <2> QED  BY <2>1, <2>2, <2>3, Stutter
  <1>5. ASSUME NEW p \in Clients, AuthPass(p) PROVE Refined
    <2>1. CASE Return(p)
      <3>1. UNCHANGED app /\ Phase(p) = "out"
        BY <1>5 DEF AuthPass, Phase
      <3> QED  BY <2>1, <3>1, ReturnsUnverified
    <2>2. CASE pc' = [pc EXCEPT ![p] = "admitted"] /\ UNCHANGED new
      BY <1>5, <2>2, Stutter DEF AuthPass, Phase, TypeOK
    <2> QED  BY <1>5, <2>1, <2>2 DEF AuthPass
  <1>6. ASSUME NEW p \in Clients, OtherHandler(p) PROVE Refined
    <2>1. Return(p) /\ UNCHANGED app /\ Phase(p) = "out"
      BY <1>6 DEF OtherHandler, Phase
    <2> QED  BY <2>1, ReturnsUnverified
  <1>7. ASSUME NEW p \in Clients, CurrentPass(p) PROVE Refined
    <2>1. UNCHANGED app /\ Phase(p) = "out"
      BY <1>7 DEF CurrentPass, Phase
    <2>2. CASE Return(p)
      BY <2>1, <2>2, ReturnsUnverified
    <2>3. CASE pc' = [pc EXCEPT ![p] = "begin"] /\ UNCHANGED new
      <3>1. new[p] \in Pairs /\ Serving
        BY <1>7 DEF CurrentPass, TypeOK, IndInv, RequestInv, AccountInv
      <3>2. Account # Nil /\ Account' = Account
        <4>1. app.user # Nil /\ app.pass # Nil
          BY <3>1 DEF IndInv, AccountInv
        <4>2. Account \in Pairs
          BY <4>1, ColumnFacts DEF Account, Pairs, TypeOK
        <4> QED  BY <2>1, <4>2, PairFacts DEF Account
      <3>3. /\ phases' = [phases EXCEPT ![p] = "verified"]
            /\ wanteds' = [wanteds EXCEPT ![p] = new[p]]
        BY <2>3, OneRequest DEF Phase, TypeOK
      <3>4. phases[p] = "out"
        BY <2>1 DEF phases
      <3>5. AdminAccount!Verify(p)
        BY <3>1, <3>2, <3>3, <3>4 DEF phases, wanteds, AdminAccount!Verify
      <3> QED  BY <3>5 DEF AdminAccount!Next
    <2> QED  BY <1>7, <2>2, <2>3 DEF CurrentPass, local
  <1>8. ASSUME NEW p \in Clients, CommitChange(p) PROVE Refined
    <2>1. Account' = new[p]
      BY <1>8, CommitReplaces
    <2>2. phases[p] = "verified" /\ wanteds[p] = new[p]
      BY <1>8 DEF CommitChange, phases, wanteds, Phase
    <2>3. /\ phases' = [phases EXCEPT ![p] = "changed"]
          /\ wanteds' = [wanteds EXCEPT ![p] = new[p]]
      BY <1>8, OneRequest DEF CommitChange, Phase, TypeOK, local
    <2>4. wanteds' = wanteds
      BY <2>2, <2>3 DEF wanteds
    <2>5. AdminAccount!Change(p)
      BY <2>1, <2>2, <2>3, <2>4 DEF phases, wanteds, AdminAccount!Change
    <2> QED  BY <2>5 DEF AdminAccount!Next
  <1>9. ASSUME NEW p \in Clients, AnswerOk(p) \/ Rollback(p) PROVE Refined
    <2>1. Return(p) /\ UNCHANGED app /\ Phase(p) # "out"
      BY <1>9 DEF AnswerOk, Rollback, Phase
    <2> QED  BY <2>1, Finishes DEF AdminAccount!Next
  <1>10. ASSUME NEW p \in Clients, ReadFails(p) PROVE Refined
    <2>1. Return(p) /\ UNCHANGED app
      BY <1>10 DEF ReadFails
    <2> QED  BY <2>1, Finishes, ReturnsUnverified DEF AdminAccount!Next
  <1>11. CASE UNCHANGED vars
    BY <1>11, Stutter DEF vars, local, Phase
  <1> QED
    BY <1>1, <1>2, <1>3, <1>4, <1>5, <1>6, <1>7, <1>8, <1>9, <1>10, <1>11
    DEF Next, Main, Handle, Progress

\* The statements on app_config, with their failures, crashes and restarts,
\* implement the account that is installed once and replaced as a whole by
\* verified requests.
THEOREM AuthImplementsAccount == Spec => ImplementsAccount
  <1>1. Init => AdminAccount!Init
    <2> SUFFICES ASSUME Init PROVE AdminAccount!Init
      OBVIOUS
    <2>1. Account \in Pairs \cup {Nil}
      <3>1. TypeOK
        BY InvInit DEF IndInv
      <3> QED  BY <3>1, ColumnFacts DEF Account, Pairs, TypeOK
    <2>2. /\ phases = [p \in Clients |-> "out"]
          /\ wanteds = [p \in Clients |-> Nil]
      BY DEF Init, phases, wanteds, Phase
    <2> QED  BY <2>1, <2>2 DEF phases, wanteds, AdminAccount!Init
  <1> QED
    BY <1>1, Invariance, AccountRefined, PTL DEF Spec, ImplementsAccount, AdminAccount!Spec

=============================================================================
