----------------------------- MODULE AdminAccount -----------------------------
(***************************************************************************)
(* What the admin account promises, without saying how it is stored: the   *)
(* default account is installed once, and after that the account changes   *)
(* as a whole, from one pair of name and password to another, only on      *)
(* behalf of a request that was verified, which it serves once.            *)
(***************************************************************************)
CONSTANTS
    Requests,   \* who may ask for a change
    Pairs,      \* the pairs of user name and password
    Default,    \* the pair a new database gets
    None        \* no account yet

VARIABLES
    account,    \* the pair that is asked for, or None
    phase,      \* phase[r]: how far request r is
    wanted      \* wanted[r]: the pair a verified request asks for

vars == <<account, phase, wanted>>

Init ==
    /\ account \in Pairs \cup {None}
    /\ phase = [r \in Requests |-> "out"]
    /\ wanted = [r \in Requests |-> None]

Install ==
    /\ account = None
    /\ account' = Default
    /\ UNCHANGED <<phase, wanted>>

Verify(r) ==
    /\ account # None
    /\ phase[r] = "out"
    /\ phase' = [phase EXCEPT ![r] = "verified"]
    /\ \E pair \in Pairs : wanted' = [wanted EXCEPT ![r] = pair]
    /\ UNCHANGED account

Change(r) ==
    /\ phase[r] = "verified"
    /\ account' = wanted[r]
    /\ phase' = [phase EXCEPT ![r] = "changed"]
    /\ UNCHANGED wanted

\* The request is told the outcome, which leaves the account as it is.
Finish(r) ==
    /\ phase[r] # "out"
    /\ phase' = [phase EXCEPT ![r] = "out"]
    /\ wanted' = [wanted EXCEPT ![r] = None]
    /\ UNCHANGED account

\* The process dies: every request is forgotten, the account is not.
Restart ==
    /\ phase' = [r \in Requests |-> "out"]
    /\ wanted' = [r \in Requests |-> None]
    /\ UNCHANGED account

Next ==
    \/ Install
    \/ \E r \in Requests : Verify(r) \/ Change(r) \/ Finish(r)
    \/ Restart

Spec == Init /\ [][Next]_vars

===============================================================================
