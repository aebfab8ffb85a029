----------------------------- MODULE StartupProofs -----------------------------
(***************************************************************************)
(* Proofs about Startup, for any number of starts, kills and generations   *)
(* of certificates.                                                        *)
(***************************************************************************)
EXTENDS Startup, TLAPS

\* The order in which the files are removed and written names files only,
\* and the last two written are the pair of the server.
LEMMA OrderFacts ==
    /\ \A j \in 1 .. 4 : RemoveOrder[j] \in FileNames /\ WriteOrder[j] \in FileNames
    /\ WriteOrder[1] = "caCert" /\ WriteOrder[2] = "caKey"
    /\ WriteOrder[3] = "cert" /\ WriteOrder[4] = "key"
    /\ \A i, j \in 1 .. 4 : WriteOrder[i] = WriteOrder[j] => i = j
  <1>1. ASSUME NEW j \in 1 .. 4 PROVE j = 1 \/ j = 2 \/ j = 3 \/ j = 4
    OBVIOUS
  <1> QED  BY <1>1 DEF RemoveOrder, WriteOrder, FileNames

\* Before the first start everything is as the invariant says.
LEMMA InvInit == Init => IndInv
  <1> SUFFICES ASSUME Init PROVE IndInv
    OBVIOUS
  <1>1. files \in [FileNames -> Int]
    BY DEF Init, Missing
  <1>2. TypeOK
    <2>1. devCert \in BOOLEAN
      BY DEF Init
    <2>2. pair \in [Servers -> Int]
      BY DEF Init, NoPair, Servers
    <2>3. gen \in Nat \ {0} /\ k \in 1 .. 4
      BY DEF Init
    <2>4. /\ up \subseteq (Servers \cup {"udp", "tcp"})
          /\ pc = "off" /\ srv = "doh" /\ fatal = "none"
      BY DEF Init
    <2> QED  BY <1>1, <2>1, <2>2, <2>3, <2>4 DEF TypeOK
  <1>3. ReplaceInv /\ WrittenInv /\ PairInv /\ HttpsPairAlwaysLoads
    BY DEF Init, ReplaceInv, WrittenInv, PairInv, HttpsPairAlwaysLoads
  <1> QED  BY <1>2, <1>3 DEF IndInv

-----------------------------------------------------------------------------
(***************************************************************************)
(* Steps that leave the files alone.                                       *)
(***************************************************************************)

\* A process that ends, for whatever reason other than a pair that does not
\* load, leaves nothing but files: the next start begins from them.
LEMMA GoneKeeps ==
    ASSUME TypeOK, Gone, UNCHANGED <<files, gen, devCert>>,
           fatal' \in {"none", "environment", "dot_certificate"}
    PROVE  IndInv'
  BY DEF TypeOK, Gone, IndInv, ReplaceInv, WrittenInv, PairInv, HttpsPairAlwaysLoads,
         NoPair, Servers

\* main up to the point where DoT serves the pair in the files.
LEMMA BeforeHttps ==
    ASSUME IndInv, (\E dev \in BOOLEAN : Launch(dev)) \/ StartDNS \/ StartTLS
    PROVE  IndInv'
  <1> USE DEF IndInv, TypeOK, HttpsPairAlwaysLoads
  <1>1. ASSUME NEW dev \in BOOLEAN, Launch(dev) PROVE IndInv'
    BY <1>1 DEF Launch, ReplaceInv, WrittenInv, PairInv
  <1>2. CASE StartDNS
    BY <1>2 DEF StartDNS, ReplaceInv, WrittenInv, PairInv
  <1>3. CASE StartTLS
    BY <1>3 DEF StartTLS, ReplaceInv, WrittenInv, PairInv, KeyPairLoads, Servers,
                FileNames
  <1> QED  BY <1>1, <1>2, <1>3

\* EnsureSelfSigned finds a pair, or is to replace it.
LEMMA EnsureKeeps == ASSUME IndInv, Ensure PROVE IndInv'
  <1>0. ASSUME ForceRenewal
        PROVE  /\ srv = "doh" /\ devCert /\ pc' = "remove" /\ k' = 1
               /\ UNCHANGED <<files, devCert, srv, pair, up, fatal>>
    <2>1. srv = "doh" /\ devCert
      BY <1>0 DEF ForceRenewal
    <2> QED  BY <1>0, <2>1 DEF Ensure
  <1> USE DEF IndInv, TypeOK, HttpsPairAlwaysLoads
  <1>1. KeyPairLoads /\ files["cert"] # Missing /\ files["key"] # Missing
    BY DEF Ensure, PairInv, KeyPairLoads, FileNames, Missing
  <1>2. CASE ForceRenewal
    <2>1. pc' = "remove" /\ gen' = gen
      BY <1>0, <1>2 DEF Ensure
    <2>2. TypeOK'
      BY <1>0, <1>2, <2>1
    <2>3. ReplaceInv' /\ WrittenInv' /\ PairInv'
      BY <1>0, <1>2 DEF ReplaceInv, WrittenInv, PairInv
    <2> QED  BY <1>0, <1>2, <2>2, <2>3
  <1>3. CASE ~ForceRenewal
    <2>1. pc' = "load" /\ UNCHANGED <<files, gen, devCert, srv, pair, up, fatal>>
      BY <1>1, <1>3 DEF Ensure
    <2>2. srv = "admin" \/ ~devCert
      BY <1>3 DEF ForceRenewal
    <2>3. PairInv'
      BY <1>1, <2>1, <2>2 DEF Ensure, PairInv, KeyPairLoads, SignedByCA
    <2> QED  BY <2>1, <2>3 DEF Ensure, ReplaceInv, WrittenInv
  <1> QED  BY <1>2, <1>3

\* The pair loads; the admin server gets the one DoH has.
LEMMA LoadKeeps == ASSUME IndInv, LoadPair PROVE IndInv'
  <1> USE DEF IndInv, TypeOK
  <1>1. KeyPairLoads /\ pc = "load"
    BY DEF LoadPair, PairInv
  <1>2. /\ pair' = [pair EXCEPT ![srv] = files["cert"]]
        /\ \/ srv = "doh" /\ srv' = "admin" /\ pc' = "ensure"
           \/ srv = "admin" /\ srv' = srv /\ pc' = "serving"
        /\ UNCHANGED <<files, gen, devCert, k, up, fatal>>
    BY <1>1 DEF LoadPair
  <1>3. TypeOK'
    BY <1>2 DEF FileNames
  <1>4. PairInv'
    BY <1>1, <1>2 DEF PairInv, KeyPairLoads, SignedByCA, Servers
  <1> QED
    BY <1>2, <1>3, <1>4 DEF ReplaceInv, WrittenInv, HttpsPairAlwaysLoads

\* The listeners of the two HTTPS servers open.
LEMMA ListenKeeps == ASSUME IndInv, NEW s \in {"doh", "admin"}, Listen(s) PROVE IndInv'
  BY DEF IndInv, TypeOK, HttpsPairAlwaysLoads, Listen, ReplaceInv, WrittenInv, PairInv,
         KeyPairLoads, SignedByCA, Servers

-----------------------------------------------------------------------------
(***************************************************************************)
(* Steps that write files.                                                 *)
(***************************************************************************)

\* Removing files is part of replacing them, so nobody relies on them.
LEMMA RemoveKeeps == ASSUME IndInv, RemoveFile PROVE IndInv'
  <1> USE DEF IndInv, TypeOK, HttpsPairAlwaysLoads
  <1>1. pc = "remove" /\ srv = "doh" /\ devCert
    BY DEF RemoveFile, ReplaceInv
  <1>2. files' \in [FileNames -> Int]
    BY OrderFacts DEF RemoveFile, Missing
  <1>3. TypeOK'
    BY <1>2 DEF RemoveFile
  <1>4. /\ pc' = "remove" \/ (pc' = "create" /\ k' = 1)
        /\ UNCHANGED <<devCert, srv, fatal>>
    BY <1>1 DEF RemoveFile
  <1>5. ReplaceInv' /\ PairInv'
    BY <1>1, <1>4 DEF ReplaceInv, PairInv
  <1>6. WrittenInv'
    BY <1>4 DEF WrittenInv
  <1> QED  BY <1>3, <1>4, <1>5, <1>6

\* os.Create destroys only the file that is written next.
LEMMA CreateKeeps == ASSUME IndInv, CreateFile PROVE IndInv'
  <1> USE DEF IndInv, TypeOK, HttpsPairAlwaysLoads
  <1>1. pc = "create" /\ srv = "doh" /\ devCert
    BY DEF CreateFile, ReplaceInv
  <1>2. TypeOK'
    BY OrderFacts DEF CreateFile, Torn
  <1>3. WrittenInv'
    <2>1. ASSUME NEW j \in 1 .. (k - 1) PROVE files'[WriteOrder[j]] = gen
      <3>1. j \in 1 .. 4 /\ k \in 1 .. 4 /\ j # k
        OBVIOUS
      <3>2. WriteOrder[j] # WriteOrder[k] /\ WriteOrder[j] \in FileNames
        BY <3>1, OrderFacts
      <3> QED  BY <1>1, <2>1, <3>2 DEF CreateFile, WrittenInv
    <2> QED  BY <2>1 DEF CreateFile, WrittenInv
  <1> QED  BY <1>1, <1>2, <1>3 DEF CreateFile, ReplaceInv, PairInv

\* pem.Encode completes one more file of the generation; after the fourth
\* the pair loads and is the CA's.
LEMMA EncodeKeeps == ASSUME IndInv, EncodeFile PROVE IndInv'
  <1> USE DEF IndInv, TypeOK, HttpsPairAlwaysLoads
  <1>1. pc = "encode" /\ srv = "doh" /\ devCert
    BY DEF EncodeFile, ReplaceInv
  <1>2. TypeOK'
    BY OrderFacts DEF EncodeFile
  <1>3. ASSUME NEW j \in 1 .. k PROVE files'[WriteOrder[j]] = gen
    <2>1. j \in 1 .. 4 /\ k \in 1 .. 4 /\ (j = k \/ j \in 1 .. (k - 1))
      OBVIOUS
    <2>2. WriteOrder[j] \in FileNames /\ WriteOrder[k] \in FileNames
      BY <2>1, OrderFacts
    <2> QED  BY <1>1, <2>1, <2>2 DEF EncodeFile, WrittenInv
  <1>4. CASE k < 4
    <2>1. k' = k + 1 /\ pc' = "create" /\ UNCHANGED <<gen, devCert, srv, pair, up, fatal>>
      BY <1>4 DEF EncodeFile
    <2>2. WrittenInv'
      BY <1>3, <2>1 DEF WrittenInv
    <2> QED  BY <1>1, <1>2, <2>1, <2>2 DEF ReplaceInv, PairInv
  <1>5. CASE k = 4
    <2>1. pc' = "load" /\ UNCHANGED <<gen, devCert, srv, pair, up, fatal>>
      BY <1>5 DEF EncodeFile
    <2>2. /\ files'["caCert"] = gen /\ files'["caKey"] = gen
          /\ files'["cert"] = gen /\ files'["key"] = gen
      BY <1>3, <1>5, OrderFacts
    <2>3. PairInv'
      BY <1>1, <2>1, <2>2 DEF PairInv, KeyPairLoads, SignedByCA
    <2> QED  BY <1>1, <1>2, <2>1, <2>3 DEF ReplaceInv, WrittenInv
  <1> QED  BY <1>4, <1>5

-----------------------------------------------------------------------------
(***************************************************************************)
(* The invariant of the specification, and what follows from it.           *)
(***************************************************************************)

\* Every step keeps the invariant; that the pair at "load" always loads
\* excludes the fatal branch of LoadPair.
LEMMA InvStep == IndInv /\ [Next]_vars => IndInv'
  <1> SUFFICES ASSUME IndInv, [Next]_vars PROVE IndInv'
    OBVIOUS
  <1>1. TypeOK /\ fatal \in {"none", "environment", "dot_certificate"}
    BY DEF IndInv, TypeOK, HttpsPairAlwaysLoads
  <1>2. CASE (\E dev \in BOOLEAN : Launch(dev)) \/ StartDNS \/ StartTLS
    BY <1>2, BeforeHttps
  <1>3. CASE DotPairFails \/ EnvironmentFails
    BY <1>1, <1>3, GoneKeeps DEF DotPairFails, EnvironmentFails, Fatal
  <1>4. CASE Shutdown \/ Kill
    BY <1>1, <1>4, GoneKeeps DEF Shutdown, Kill
  <1>5. CASE Ensure
    BY <1>5, EnsureKeeps
  <1>6. CASE RemoveFile
    BY <1>6, RemoveKeeps
  <1>7. CASE CreateFile
    BY <1>7, CreateKeeps
  <1>8. CASE EncodeFile
    BY <1>8, EncodeKeeps
  <1>9. CASE LoadPair
    BY <1>9, LoadKeeps
  <1>10. CASE \E s \in {"doh", "admin"} : Listen(s)
    BY <1>10, ListenKeeps
  <1>11. CASE UNCHANGED vars
    BY <1>11 DEF vars, IndInv, TypeOK, ReplaceInv, WrittenInv, PairInv, KeyPairLoads,
                 SignedByCA, HttpsPairAlwaysLoads
  <1> QED
    BY <1>2, <1>3, <1>4, <1>5, <1>6, <1>7, <1>8, <1>9, <1>10, <1>11 DEF Next, Startup

\* The invariant holds in every reachable state: a start that is killed
\* between any two file operations cannot hurt a later one that gets past DoT.
THEOREM Invariance == Spec => []IndInv
  BY InvInit, InvStep, PTL DEF Spec

\* While main serves, DoH and the admin server have the same certificate,
\* which is the one in the files and, with -dev-cert, the CA's.
THEOREM HttpsAlwaysAgree == Spec => []HttpsAgree
  <1>1. IndInv => HttpsAgree
    BY DEF IndInv, PairInv, HttpsAgree, KeyPairLoads, SignedByCA
  <1> QED  BY Invariance, <1>1, PTL

\* NewWithTLS never fails for a pair that does not load.
THEOREM HttpsPairNeverFails == Spec => []HttpsPairAlwaysLoads
  <1>1. IndInv => HttpsPairAlwaysLoads
    BY DEF IndInv
  <1> QED  BY Invariance, <1>1, PTL

=============================================================================
