------------------------------- MODULE Startup -------------------------------
(***************************************************************************)
(* How main() (cmd/dns-proxy/main.go) brings its listeners up and down,    *)
(* and the certificate files on the way: dns.Server.Start and StartTLS,    *)
(* then httpserver.NewWithTLS for DoH and for the admin server, whose      *)
(* EnsureSelfSigned removes, generates and loads the files.                *)
(*                                                                         *)
(* A file holds the number of the generation that wrote it; the process    *)
(* may be killed between any two file operations.  Opening the database    *)
(* and the first Reload are in ConfigPlane.                                *)
(***************************************************************************)
EXTENDS Integers, Sequences

CONSTANTS
    MaxGen    \* bound: generations of certificates

ASSUME StartupAssumption == MaxGen \in Nat \ {0}

FileNames   == {"caCert", "caKey", "cert", "key"}
RemoveOrder == <<"cert", "key", "caCert", "caKey">>
WriteOrder  == <<"caCert", "caKey", "cert", "key">>
Missing == 0
Torn    == -1    \* created, not completely written

VARIABLES
    files,      \* what each file holds
    gen,        \* generations so far; 1 is the operator's own pair
    \* the process
    pc,
    devCert,    \* -dev-cert
    srv,        \* the HTTPS server being set up
    k,          \* position in RemoveOrder or WriteOrder
    pair,       \* pair[s]: generation of the pair that listener s serves
    up,         \* listeners that accept connections
    fatal       \* what log.Fatalf reported, "none" if nothing

vars == <<files, gen, pc, devCert, srv, k, pair, up, fatal>>

NoPair == [s \in {"dot", "doh", "admin"} |-> 0]

\* The files of a first start: none, or a pair the operator put there (the
\* same files as -cert-file and -key-file name), without a CA.
Init ==
    /\ files \in {[f \in FileNames |-> Missing],
                  [f \in FileNames |-> IF f \in {"cert", "key"} THEN 1 ELSE Missing]}
    /\ gen = 1
    /\ pc = "off" /\ devCert = FALSE /\ srv = "doh" /\ k = 1
    /\ pair = NoPair /\ up = {} /\ fatal = "none"

\* The process is gone, with its listeners.
Gone == pc' = "off" /\ srv' = "doh" /\ k' = 1 /\ pair' = NoPair /\ up' = {}

Launch(dev) ==
    /\ pc = "off"
    /\ dev => gen < MaxGen
    /\ devCert' = dev /\ fatal' = "none"
    /\ pc' = "dns"
    /\ UNCHANGED <<files, gen, srv, k, pair, up>>

Fatal(what) ==
    /\ Gone /\ fatal' = what
    /\ UNCHANGED <<files, gen, devCert>>

\* Server.Start: both sockets or none.
StartDNS ==
    /\ pc = "dns"
    /\ up' = up \cup {"udp", "tcp"}
    /\ pc' = "dot"
    /\ UNCHANGED <<files, gen, devCert, srv, k, pair, fatal>>

\* tls.LoadX509KeyPair (external): both files complete, and of one key.
KeyPairLoads == files["cert"] > 0 /\ files["cert"] = files["key"]

\* Mutant: the certificate is there, the key is not looked at.
StartTLSLazy ==
    /\ pc = "dot" /\ files["cert"] > 0
    /\ pair' = [pair EXCEPT !["dot"] = files["cert"]]
    /\ up' = up \cup {"dot"}
    /\ pc' = "ensure"
    /\ UNCHANGED <<files, gen, devCert, srv, k, fatal>>

\* Server.StartTLS.
StartTLS ==
    /\ pc = "dot" /\ KeyPairLoads
    /\ pair' = [pair EXCEPT !["dot"] = files["cert"]]
    /\ up' = up \cup {"dot"}
    /\ pc' = "ensure"
    /\ UNCHANGED <<files, gen, devCert, srv, k, fatal>>

DotPairFails == pc = "dot" /\ ~KeyPairLoads /\ Fatal("dot_certificate")

\* A port is taken, a directory or a file cannot be written.
EnvironmentFails == pc \in {"dns", "dot", "create", "encode"} /\ Fatal("environment")

-----------------------------------------------------------------------------
(***************************************************************************)
(* EnsureSelfSigned, for the DoH server with force = -dev-cert and for the *)
(* admin server with force = false.                                        *)
(***************************************************************************)

\* Mutant: both servers regenerate when -dev-cert is given.
ForceAlways == devCert

ForceRenewal == devCert /\ srv = "doh"

Ensure ==
    /\ pc = "ensure"
    /\ k' = 1
    /\ \/ /\ ForceRenewal
          /\ pc' = "remove"
       \/ /\ ~ForceRenewal
          /\ pc' = IF files["cert"] = Missing \/ files["key"] = Missing THEN "create" ELSE "load"
    /\ gen' = IF pc' = "create" THEN gen + 1 ELSE gen
    /\ UNCHANGED <<files, devCert, srv, pair, up, fatal>>

\* os.Remove, its error ignored: the file may stay.
RemoveFile ==
    /\ pc = "remove"
    /\ \/ files' = [files EXCEPT ![RemoveOrder[k]] = Missing]
       \/ files' = files
    /\ \/ k < 4 /\ k' = k + 1 /\ UNCHANGED <<pc, gen>>
       \/ k = 4 /\ k' = 1 /\ pc' = "create" /\ gen' = gen + 1
    /\ UNCHANGED <<devCert, srv, pair, up, fatal>>

\* writePEM: os.Create, which truncates an existing file ...
CreateFile ==
    /\ pc = "create"
    /\ files' = [files EXCEPT ![WriteOrder[k]] = Torn]
    /\ pc' = "encode"
    /\ UNCHANGED <<gen, devCert, srv, k, pair, up, fatal>>

\* Mutant: the last file, the server's key, is not written.
EncodeFileButKey ==
    /\ pc = "encode"
    /\ files' = [files EXCEPT ![WriteOrder[k]] = gen]
    /\ \/ k < 3 /\ k' = k + 1 /\ pc' = "create"
       \/ k = 3 /\ k' = 1 /\ pc' = "load"
    /\ UNCHANGED <<gen, devCert, srv, pair, up, fatal>>

\* ... then pem.Encode.
EncodeFile ==
    /\ pc = "encode"
    /\ files' = [files EXCEPT ![WriteOrder[k]] = gen]
    /\ \/ k < 4 /\ k' = k + 1 /\ pc' = "create"
       \/ k = 4 /\ k' = 1 /\ pc' = "load"
    /\ UNCHANGED <<gen, devCert, srv, pair, up, fatal>>

\* The pair is loaded into the configuration of the server; main goes on to
\* the admin server, then starts both.
LoadPair ==
    /\ pc = "load"
    /\ IF KeyPairLoads
       THEN /\ pair' = [pair EXCEPT ![srv] = files["cert"]]
            /\ \/ srv = "doh" /\ srv' = "admin" /\ pc' = "ensure"
               \/ srv = "admin" /\ srv' = srv /\ pc' = "serving"
            /\ UNCHANGED <<files, gen, devCert, k, up, fatal>>
       ELSE Fatal("https_certificate")

\* go dohServer.Start(), go adminServer.Start(): one that cannot listen
\* only logs it.
Listen(s) ==
    /\ pc = "serving" /\ s \notin up
    /\ up' = up \cup {s}
    /\ UNCHANGED <<files, gen, pc, devCert, srv, k, pair, fatal>>

-----------------------------------------------------------------------------
\* SIGINT or SIGTERM while main waits for it: every server is shut down.
Shutdown ==
    /\ pc = "serving"
    /\ Gone
    /\ UNCHANGED <<files, gen, devCert, fatal>>

\* The process is killed, or a signal arrives before main listens for it.
Kill ==
    /\ pc # "off"
    /\ Gone
    /\ UNCHANGED <<files, gen, devCert, fatal>>

Startup ==
    \/ StartDNS \/ StartTLS \/ DotPairFails
    \/ Ensure \/ RemoveFile \/ CreateFile \/ EncodeFile \/ LoadPair

Next ==
    \/ \E dev \in BOOLEAN : Launch(dev)
    \/ Startup
    \/ \E s \in {"doh", "admin"} : Listen(s)
    \/ EnvironmentFails
    \/ Shutdown
    \/ Kill

Spec == Init /\ [][Next]_vars

-----------------------------------------------------------------------------
(***************************************************************************)
(* Properties.                                                             *)
(***************************************************************************)

\* Whatever was killed at whatever point before: while main serves, DoH and
\* the admin server have the same certificate, the one in the files, and
\* after -dev-cert it is signed by the CA that the user is told to import.
HttpsAgree ==
    pc = "serving" =>
        /\ pair["doh"] = pair["admin"]
        /\ pair["doh"] = files["cert"] /\ pair["doh"] = files["key"]
        /\ devCert => files["caCert"] = files["cert"] /\ files["caKey"] = files["cert"]

\* EnsureSelfSigned always ends with a pair that loads: no half-written or
\* mixed pair of an earlier start reaches it.
HttpsPairAlwaysLoads == fatal # "https_certificate"

\* README_EN.md: "Self-Signed Certs: Built-in CA certificate generation,
\* ready to use".  So main does not die for want of a certificate.  The code
\* starts DoT, which only loads the files, before anything generates them.
CertificatesReady == fatal # "dot_certificate"

-----------------------------------------------------------------------------
(***************************************************************************)
(* The inductive invariant behind HttpsAgree and HttpsPairAlwaysLoads.     *)
(***************************************************************************)

Servers == {"dot", "doh", "admin"}

TypeOK ==
    /\ files \in [FileNames -> Int] /\ gen \in Nat \ {0}
    /\ pc \in {"off", "dns", "dot", "ensure", "remove", "create", "encode", "load", "serving"}
    /\ devCert \in BOOLEAN /\ srv \in {"doh", "admin"} /\ k \in 1 .. 4
    /\ pair \in [Servers -> Int] /\ up \subseteq (Servers \cup {"udp", "tcp"})
    /\ fatal \in {"none", "environment", "dot_certificate", "https_certificate"}

\* The CA in the files signed the certificate in the files.
SignedByCA == files["caCert"] = files["cert"] /\ files["caKey"] = files["cert"]

\* Only the DoH server, and only with -dev-cert, replaces files: the pair
\* that DoT has loaded leaves EnsureSelfSigned nothing else to do.
ReplaceInv ==
    /\ pc \in {"off", "dns", "dot"} => srv = "doh"
    /\ pc \in {"remove", "create", "encode"} => srv = "doh" /\ devCert

\* The files written so far are all of the new generation.
WrittenInv ==
    pc \in {"create", "encode"} => \A j \in 1 .. (k - 1) : files[WriteOrder[j]] = gen

\* What holds when EnsureSelfSigned begins and when it ends: the pair in the
\* files loads, after -dev-cert it is the CA's (from the end of the first
\* call on), and the admin server finds what the DoH server has loaded.
PairInv ==
    /\ pc \in {"ensure", "load", "serving"} => KeyPairLoads
    /\ devCert /\ (pc \in {"load", "serving"} \/ (pc = "ensure" /\ srv = "admin")) =>
          SignedByCA
    /\ srv = "admin" =>
          pc \in {"ensure", "load", "serving"} /\ pair["doh"] = files["cert"]
    /\ pc = "serving" => srv = "admin" /\ pair["admin"] = files["cert"]

\* All of it: however often starts are killed half-way, a start that gets
\* past DoT has a pair that loads, and only a whole new set replaces it.
IndInv == TypeOK /\ ReplaceInv /\ WrittenInv /\ PairInv /\ HttpsPairAlwaysLoads

=============================================================================
