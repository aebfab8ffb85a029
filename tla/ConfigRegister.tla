---------------------------- MODULE ConfigRegister ----------------------------
(***************************************************************************)
(* What the configuration plane promises, without saying how: the two      *)
(* tables (domain_rules, host_records) are written by the admin API, the   *)
(* caches that answer DNS questions are published from them, and an        *)
(* administrator is told "ok".  Versions count the committed writes per    *)
(* table, from 1 for what the database file held at first; cache version 0 *)
(* is the empty cache of a process that just started.                      *)
(***************************************************************************)
EXTENDS Naturals

CONSTANT Tables

VARIABLES
    tver,    \* tver[t]: version of table t
    cver,    \* cver[t]: the version of t that answers questions
    acked    \* acked[t]: the newest version of t a client was told is live

vars == <<tver, cver, acked>>

Versions == [Tables -> Nat]

Zero == [t \in Tables |-> 0]

Init == tver = [t \in Tables |-> 1] /\ cver = Zero /\ acked = Zero

\* A statement changes one table.
Commit(t) ==
    /\ tver' = [tver EXCEPT ![t] = @ + 1]
    /\ UNCHANGED <<cver, acked>>

\* A cache moves forward, to a version that was really committed.
Publish(t) ==
    /\ \E v \in cver[t] .. tver[t] : cver' = [cver EXCEPT ![t] = v]
    /\ UNCHANGED <<tver, acked>>

\* Only what is published may be acknowledged.
Acknowledge ==
    /\ acked' \in Versions
    /\ \A t \in Tables :
          /\ acked[t] <= acked'[t]
          /\ acked'[t] <= acked[t] \/ acked'[t] <= cver[t]
    /\ UNCHANGED <<tver, cver>>

\* The process dies; the tables survive, the caches do not.
Restart == cver' = Zero /\ UNCHANGED <<tver, acked>>

Next ==
    \/ \E t \in Tables : Commit(t) \/ Publish(t)
    \/ Acknowledge
    \/ Restart

Spec == Init /\ [][Next]_vars

===============================================================================
