------------------------------- MODULE HostStore -------------------------------
(***************************************************************************)
(* The columns of one local record: what CreateHost and UpdateHost         *)
(* (internal/storage/sqlite.go) make of the fields of a request, what      *)
(* concurrent updates of the record leave in the table, and which TTL      *)
(* HostCache.Load (internal/cache) then serves.  A request ends with an    *)
(* error at the first of its statements that fails; if that is after the   *)
(* write, the row is stored and the cache is left behind.  ConfigPlane has *)
(* the same steps for whole rows and both tables; here the subject is the  *)
(* fields.  The definitions that every specification has carry a prefix,   *)
(* so that a module can extend this one and LocalRecords.                  *)
(***************************************************************************)
EXTENDS Integers

CONSTANTS
    Clients,     \* goroutines of the admin server
    Ttls,        \* values of the ttl field that requests carry
    DefaultTtl,  \* 300
    TtlBits,     \* width of the TTL of a DNS record, 32 in the code
    MaxRequests, \* bound: requests
    Nil          \* a field the request leaves out, no row

\* The TTLs of a DNS record are the numbers below this one.
TtlLimit == 2 ^ TtlBits

\* Fields as they come: JSON strings in any case, or blank; "regex" stands
\* for whatever is not a mode.
RawTypes == {"blank", "txt"}
RawModes == {"suffix", "regex"}

Patches == [type : RawTypes \cup {Nil}, mode : RawModes \cup {Nil}, ttl : Ttls \cup {Nil},
            enabled : {TRUE, FALSE, Nil}]
Columns == {"type", "mode", "ttl", "enabled"}

\* A row that is normalised.
Rows == [type : {"A", "TXT"}, mode : {"exact", "suffix"}, ttl : Nat, enabled : BOOLEAN]

ASSUME StoreAssumption ==
    /\ Ttls \subseteq Int /\ DefaultTtl \in Nat
    /\ TtlBits \in Nat /\ TtlLimit \in Nat \ {0} /\ MaxRequests \in Nat
    /\ Nil \notin Int /\ Nil \notin BOOLEAN /\ Nil \notin RawTypes /\ Nil \notin RawModes
    /\ Nil \notin Rows /\ Nil \notin Patches
    /\ Clients \cap {"ok", "error", Nil} = {} /\ Nil \notin {"ok", "error"}

VARIABLES
    row,       \* the row, Nil before it is created
    entryTtl,  \* the TTL HostCache serves for it, Nil if it has no entry
    pc, patch,
    cur,       \* cur[p]: the copy UpdateHost patches and writes back, then
               \* the row that ListHosts gives to p's Reload
    since,     \* history: since[p][c], values column c had since p's update began
    newest,    \* history: the request of the newest write, later its answer
    requests

storeVars == <<row, entryTtl, pc, patch, cur, since, newest, requests>>

StoreInit ==
    /\ row = Nil /\ entryTtl = Nil
    /\ pc = [p \in Clients |-> "idle"]
    /\ patch = [p \in Clients |-> Nil]
    /\ cur = [p \in Clients |-> Nil]
    /\ since = [p \in Clients |-> [c \in Columns |-> {}]]
    /\ newest = Nil /\ requests = 0

-----------------------------------------------------------------------------

\* strings.ToUpper(strings.TrimSpace(t)), "A" for nothing.
NormalType(t) == IF t = "txt" THEN "TXT" ELSE "A"

\* normalizeMatchMode: what is not a mode is "exact".
NormalMode(m) == IF m = "suffix" THEN "suffix" ELSE "exact"

\* Mutant: a negative ttl is stored as it is.
NormalTtlUnclamped(n) == n

NormalTtl(n) == IF n < 0 THEN 0 ELSE n

\* The row of CreateHost: defaults for what the request leaves out.
NewRow(c) ==
    [type    |-> IF c.type = Nil THEN "A" ELSE NormalType(c.type),
     mode    |-> IF c.mode = Nil THEN "exact" ELSE NormalMode(c.mode),
     ttl     |-> IF c.ttl = Nil THEN DefaultTtl ELSE NormalTtl(c.ttl),
     enabled |-> IF c.enabled = Nil THEN TRUE ELSE c.enabled]

\* Mutant: a zero value is taken for a field that was left out.
UpdatedIgnoresFalse(r, u) ==
    [type    |-> IF u.type = Nil THEN r.type ELSE NormalType(u.type),
     mode    |-> IF u.mode = Nil THEN r.mode ELSE NormalMode(u.mode),
     ttl     |-> IF u.ttl = Nil THEN r.ttl ELSE NormalTtl(u.ttl),
     enabled |-> r.enabled \/ u.enabled = TRUE]

\* UpdateHost on its copy of the row.
UpdatedRow(r, u) ==
    [type    |-> IF u.type = Nil THEN r.type ELSE NormalType(u.type),
     mode    |-> IF u.mode = Nil THEN r.mode ELSE NormalMode(u.mode),
     ttl     |-> IF u.ttl = Nil THEN r.ttl ELSE NormalTtl(u.ttl),
     enabled |-> IF u.enabled = Nil THEN r.enabled ELSE u.enabled]

\* p's statement leaves r in the table; other updates under way see it.
Store(p, r) ==
    /\ row' = r
    /\ newest' = p
    /\ since' = [q \in Clients |-> [c \in Columns |->
                    IF q # p /\ pc[q] \in {"get", "write"}
                    THEN since[q][c] \cup {r[c]} ELSE {}]]

\* p's request ends with this answer.
Answer(p, answer) ==
    /\ newest' = IF newest = p THEN answer ELSE newest
    /\ pc' = [pc EXCEPT ![p] = "idle"]
    /\ patch' = [patch EXCEPT ![p] = Nil]
    /\ cur' = [cur EXCEPT ![p] = Nil]
    /\ since' = [since EXCEPT ![p] = [c \in Columns |-> {}]]

\* Reload: Load skips a disabled row and converts the ttl with uint32().
Served(r) == IF r.enabled THEN r.ttl % TtlLimit ELSE Nil

Create(p) ==
    /\ pc[p] = "idle" /\ row = Nil /\ requests < MaxRequests
    /\ requests' = requests + 1
    /\ \E c \in Patches : Store(p, NewRow(c))
    /\ pc' = [pc EXCEPT ![p] = "reload"]
    /\ UNCHANGED <<entryTtl, patch, cur>>

StartUpdate(p) ==
    /\ pc[p] = "idle" /\ row # Nil /\ requests < MaxRequests
    /\ requests' = requests + 1
    /\ \E u \in Patches : patch' = [patch EXCEPT ![p] = u]
    /\ since' = [since EXCEPT ![p] = [c \in Columns |-> {row[c]}]]
    /\ pc' = [pc EXCEPT ![p] = "get"]
    /\ UNCHANGED <<row, entryTtl, cur, newest>>

GetHost(p) ==
    /\ pc[p] = "get"
    /\ cur' = [cur EXCEPT ![p] = UpdatedRow(row, patch[p])]
    /\ pc' = [pc EXCEPT ![p] = "write"]
    /\ UNCHANGED <<row, entryTtl, patch, since, newest, requests>>

\* UPDATE of all columns.
Write(p) ==
    /\ pc[p] = "write"
    /\ Store(p, cur[p])
    /\ pc' = [pc EXCEPT ![p] = "reload"]
    /\ patch' = [patch EXCEPT ![p] = Nil]
    /\ cur' = [cur EXCEPT ![p] = Nil]
    /\ UNCHANGED <<entryTtl, requests>>

\* Mutant: the rows are listed before the lock is taken.
ListRowUnlocked(p) ==
    /\ pc[p] = "reload"
    /\ cur' = [cur EXCEPT ![p] = row]
    /\ pc' = [pc EXCEPT ![p] = "install"]
    /\ UNCHANGED <<row, entryTtl, patch, since, newest, requests>>

\* Reload has the rule cache's lock to itself when it lists the rows.
ListRow(p) ==
    /\ pc[p] = "reload" /\ \A q \in Clients : pc[q] # "install"
    /\ cur' = [cur EXCEPT ![p] = row]
    /\ pc' = [pc EXCEPT ![p] = "install"]
    /\ UNCHANGED <<row, entryTtl, patch, since, newest, requests>>

\* HostCache.Load, the unlock and the "ok" answer.
ReloadEntry(p) ==
    /\ pc[p] = "install"
    /\ entryTtl' = Served(cur[p])
    /\ Answer(p, "ok")
    /\ UNCHANGED <<row, requests>>

\* Mutant: the handler ignores what failed.
RequestFailsSilently(p) ==
    /\ pc[p] \in {"get", "write", "reload"}
    /\ Answer(p, "ok")
    /\ UNCHANGED <<row, entryTtl, requests>>

\* A statement fails (the request's context was cancelled, say): GetHost or
\* the UPDATE, the reread after it, or a list of Reload.  The answer is 500.
RequestFails(p) ==
    /\ pc[p] \in {"get", "write", "reload"}
    /\ Answer(p, "error")
    /\ UNCHANGED <<row, entryTtl, requests>>

StoreNext == \E p \in Clients :
    \/ Create(p) \/ StartUpdate(p) \/ GetHost(p) \/ Write(p)
    \/ ListRow(p) \/ ReloadEntry(p) \/ RequestFails(p)

StoreSpec == StoreInit /\ [][StoreNext]_storeVars

-----------------------------------------------------------------------------
(***************************************************************************)
(* Properties.                                                             *)
(***************************************************************************)

\* Whatever requests carry, the stored row has a type, a mode that Load
\* knows, and a ttl that is not negative (uint32() would make a huge TTL of
\* a negative one).
RowNormalised ==
    row # Nil => row.type \in {"A", "TXT"} /\ row.mode \in {"exact", "suffix"} /\ row.ttl >= 0

\* An update writes into every column that its request sets the value that
\* CreateHost would make of the field, and into the others values the columns
\* had at some time since the request arrived, however updates of the record
\* overlap: what was asked for is written, and nothing older comes back.
ColumnsExplained ==
    [][\A p \in Clients : pc[p] = "write" /\ pc'[p] = "reload" =>
          \A c \in Columns :
             IF patch[p][c] # Nil THEN row'[c] = NewRow(patch[p])[c]
                                  ELSE row'[c] \in since[p][c]]_storeVars

\* Once the newest write of the record was answered with ok, the cache serves
\* the row, whichever of the overlapping requests failed and in whatever order
\* they listed and installed it: not at all if it is disabled, else with a TTL
\* that is never longer than its ttl, and equal to it if that fits the 32 bits
\* of a DNS record (2^32 and more wrap around).
TtlSettles ==
    newest = "ok" =>
        IF row.enabled
        THEN /\ entryTtl \in 0 .. row.ttl
             /\ row.ttl < TtlLimit => entryTtl = row.ttl
        ELSE entryTtl = Nil

-----------------------------------------------------------------------------
(***************************************************************************)
(* The inductive invariant behind these properties, in parts.              *)
(***************************************************************************)

StoreTypeOK ==
    /\ row \in Rows \cup {Nil} /\ entryTtl \in Nat \cup {Nil}
    /\ pc \in [Clients -> {"idle", "get", "write", "reload", "install"}]
    /\ patch \in [Clients -> Patches \cup {Nil}]
    /\ cur \in [Clients -> Rows \cup {Nil}]
    /\ DOMAIN since = Clients /\ \A p \in Clients : DOMAIN since[p] = Columns
    /\ newest \in Clients \cup {"ok", "error", Nil}
    /\ requests \in Nat

\* A request that is under way is about a row that is there, and UpdateHost
\* has its patch, and from GetHost on its copy.  One request at a time is in
\* Reload.
StageInv ==
    /\ newest # Nil => row # Nil
    /\ \A p \in Clients :
        /\ pc[p] # "idle" => row # Nil
        /\ pc[p] \in {"get", "write"} => patch[p] # Nil
        /\ pc[p] \in {"write", "install"} => cur[p] # Nil
    /\ \A p, q \in Clients : pc[p] = "install" /\ pc[q] = "install" => p = q

\* The row of now is one that an update under way has seen.  Its copy has
\* the values that its request sets, and others that it has seen.
SinceInv ==
    \A p \in Clients, c \in Columns :
        /\ pc[p] \in {"get", "write"} => row[c] \in since[p][c]
        /\ pc[p] = "write" =>
              IF patch[p][c] # Nil THEN cur[p][c] = NewRow(patch[p])[c]
                                   ELSE cur[p][c] \in since[p][c]

\* The newest write waits for its own Reload, which lists it; once it was
\* answered with ok the cache has it, and so has every Reload under way.
NewestInv ==
    /\ newest \in Clients => pc[newest] \in {"reload", "install"}
    /\ \A p \in Clients : pc[p] = "install" /\ newest \in {p, "ok"} => cur[p] = row
    /\ newest = "ok" => entryTtl = Served(row)

\* All of it.
StoreIndInv == StoreTypeOK /\ StageInv /\ SinceInv /\ NewestInv

=============================================================================
