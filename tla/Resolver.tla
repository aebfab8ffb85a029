------------------------------- MODULE Resolver -------------------------------
(***************************************************************************)
(* How a question becomes an answer: Handler.Resolve and Handle            *)
(* (internal/dns/handler.go), the exchanges with an upstream               *)
(* (internal/dns/upstream.go), and the DoH endpoint (dohHandler in         *)
(* cmd/dns-proxy/main.go), which calls the same Resolve.                   *)
(*                                                                         *)
(* The questions are about one name.  What the host cache has for it may   *)
(* change between any two steps (a reload), and how an upstream behaves is *)
(* drawn when a question is sent to it.  Time is counted per question in   *)
(* ticks since UpstreamQuery.Query made its context.  That context ends    *)
(* after Budget ticks, before the one of dohHandler, and the client of an  *)
(* exchange gives it Timeout ticks: five seconds each in the code.         *)
(***************************************************************************)
EXTENDS Naturals, FiniteSets

CONSTANTS
    Questions,    \* goroutines that serve a question
    Budget,       \* the timeout of the context of UpstreamQuery.Query
    Timeout,      \* the timeout of the client that makes one exchange
    MaxAsked,     \* bound: questions
    MaxReloads,   \* bound: changes of the host cache
    Nil

\* What a question is: how it came, whether its type has a case of its own
\* in resolveLocal, whether dohHandler can make a message of the request and
\* whether that message has a question.  The DNS servers only hand over
\* well-formed messages with one question.
Asked ==
         [via : {"dns", "doh"}, type : {"case", "default"}, form : {"good"}]
    \cup [via : {"doh"}, type : {"case"}, form : {"bad", "empty"}]

\* What the host cache has for the name: nothing, a record of the type asked
\* for, such records but none that makes an answer (an A record whose value is
\* no IPv4 address), or records of other types only.
HostStates == {"none", "typed", "unusable", "untyped"}

\* An upstream: a URL or an address, and what becomes of the exchange over
\* HTTPS or UDP (first) and over TCP (second).
Behaviours == {"answers", "refuses", "silent"}
Upstreams == [kind : {"url", "addr"}, first : Behaviours, second : Behaviours \cup {Nil}]

\* What Resolve returns.
Results == {"formerr", "record", "nxdomain", "forwarded", "servfail"}

ASSUME ResolverAssumption ==
    /\ IsFiniteSet(Questions)
    /\ Budget \in Nat \ {0} /\ Timeout \in Nat /\ Timeout >= Budget
    /\ MaxAsked \in Nat /\ MaxReloads \in Nat
    /\ Nil \notin Nat /\ Nil \notin Asked /\ Nil \notin HostStates
    /\ Nil \notin Behaviours /\ Nil \notin Upstreams /\ Nil \notin Results

VARIABLES
    hosts,       \* what the host cache has for the name
    qpc, asked,  \* per question: where it is, what it is
    up,          \* up[q]: the upstream it is sent to
    elapsed,     \* elapsed[q]: ticks since its context was made
    stop,        \* stop[q]: what elapsed[q] is when its exchange gives up
    left,        \* history: ticks the TCP exchange had when it began
    seen,        \* history: what the host cache had at the lookup that decided
    result,      \* result[q]: the answer Resolve returned
    matched,     \* the counters of hits and of misses, added up: Match adds to one of them
    forwards, local,  \* the other two counters of the status page
    total,       \* history: how many answers were of which kind
    count, reloads

localVars   == <<asked, up, elapsed, stop, left, seen, result>>
counterVars == <<matched, forwards, local, total>>
vars == <<hosts, qpc, localVars, counterVars, count, reloads>>

Init ==
    /\ hosts \in HostStates
    /\ qpc = [q \in Questions |-> "idle"]
    /\ asked = [q \in Questions |-> Nil]
    /\ up = [q \in Questions |-> Nil]
    /\ elapsed = [q \in Questions |-> 0] /\ stop = [q \in Questions |-> 0]
    /\ left = [q \in Questions |-> Nil]
    /\ seen = [q \in Questions |-> Nil]
    /\ result = [q \in Questions |-> Nil]
    /\ matched = 0 /\ forwards = 0 /\ local = 0
    /\ total = [r \in Results |-> 0]
    /\ count = 0 /\ reloads = 0

Reload ==
    /\ reloads < MaxReloads
    /\ reloads' = reloads + 1
    /\ hosts' \in HostStates \ {hosts}
    /\ UNCHANGED <<qpc, localVars, counterVars, count>>

-----------------------------------------------------------------------------

\* Resolve returns r.
Resolved(q, r) ==
    /\ result' = [result EXCEPT ![q] = r]
    /\ total' = [total EXCEPT ![r] = @ + 1]
    /\ qpc' = [qpc EXCEPT ![q] = "reply"]

\* A message or an HTTP request arrives.  dohHandler answers 400 (or 405) to
\* what it cannot make a message of, Resolve FORMERR to one without question.
Ask(q) ==
    /\ qpc[q] = "idle" /\ count < MaxAsked
    /\ count' = count + 1
    /\ \E a \in Asked :
          \/ /\ a.form = "bad"
             /\ UNCHANGED <<qpc, asked, result, total>>
          \/ /\ a.form = "empty"
             /\ asked' = [asked EXCEPT ![q] = a]
             /\ Resolved(q, "formerr")
          \/ /\ a.form = "good"
             /\ asked' = [asked EXCEPT ![q] = a]
             /\ qpc' = [qpc EXCEPT ![q] = IF a.type = "case" THEN "lookup" ELSE "any"]
             /\ UNCHANGED <<result, total>>
    /\ UNCHANGED <<hosts, up, elapsed, stop, left, seen, matched, forwards, local, reloads>>

\* Mutant: the Lookup of every question is for ANY.
FoundAnyType(q) == hosts # "none"

\* HostCache.Lookup of the type the question maps to.
Found(q) == hosts \in IF asked[q].type = "case" THEN {"typed", "unusable"}
                                               ELSE {"typed", "unusable", "untyped"}

\* The answer made of the entries: NXDOMAIN if none of them is usable, and
\* none is for a type without a case.
LocalAnswer(q) ==
    IF asked[q].type = "case" /\ hosts = "typed" THEN "record" ELSE "nxdomain"

\* The first Lookup of a question whose type has no case.
LookupAny(q) ==
    /\ qpc[q] = "any"
    /\ qpc' = [qpc EXCEPT ![q] = IF Found(q) THEN "lookup" ELSE "match"]
    /\ seen' = [seen EXCEPT ![q] = hosts]
    /\ UNCHANGED <<hosts, asked, up, elapsed, stop, left, result, counterVars, count, reloads>>

\* Mutant: a question whose type has no case does not check the second Lookup.
LookupUnchecked(q) ==
    /\ qpc[q] = "lookup"
    /\ seen' = [seen EXCEPT ![q] = hosts]
    /\ \/ /\ Found(q) \/ asked[q].type = "default"
          /\ Resolved(q, LocalAnswer(q))
          /\ local' = local + 1
       \/ /\ ~(Found(q) \/ asked[q].type = "default")
          /\ qpc' = [qpc EXCEPT ![q] = "match"]
          /\ UNCHANGED <<result, total, local>>
    /\ UNCHANGED <<hosts, asked, up, elapsed, stop, left, matched, forwards, count, reloads>>

\* resolveLocal: the Lookup that decides, the answer made of its entries,
\* LocalCount.Incr().
Lookup(q) ==
    /\ qpc[q] = "lookup"
    /\ seen' = [seen EXCEPT ![q] = hosts]
    /\ \/ /\ Found(q)
          /\ Resolved(q, LocalAnswer(q))
          /\ local' = local + 1
       \/ /\ ~Found(q)
          /\ qpc' = [qpc EXCEPT ![q] = "match"]
          /\ UNCHANGED <<result, total, local>>
    /\ UNCHANGED <<hosts, asked, up, elapsed, stop, left, matched, forwards, count, reloads>>

Earlier(a, b) == IF a <= b THEN a ELSE b

\* When an exchange that begins now gives up: with the context, or after the
\* timeout of its own client.
StopOf(now) == Earlier(Budget, now + Timeout)

\* RuleCache.Match counts a hit or a miss; Query makes its context and sends
\* the first request.
Match(q) ==
    /\ qpc[q] = "match"
    /\ matched' = matched + 1
    /\ \E u \in Upstreams : u.second = Nil /\ up' = [up EXCEPT ![q] = u]
    /\ elapsed' = [elapsed EXCEPT ![q] = 0]
    /\ stop' = [stop EXCEPT ![q] = StopOf(0)]
    /\ qpc' = [qpc EXCEPT ![q] = "first"]
    /\ UNCHANGED <<hosts, asked, left, seen, result, forwards, local, total,
                   count, reloads>>

-----------------------------------------------------------------------------
(***************************************************************************)
(* UpstreamQuery.Query: dohQuery for a URL; stdDNSQuery for an address     *)
(* tries UDP and after an error TCP, under the same context.               *)
(***************************************************************************)

Waiting(q) == qpc[q] \in {"first", "second"}

\* The exchange q waits for has used up its time.
Expired(q) == elapsed[q] >= stop[q]

\* Time passes for all that wait, and no exchange outlasts its own time.
Tick ==
    /\ \E q \in Questions : Waiting(q)
    /\ \A q \in Questions : Waiting(q) => ~Expired(q)
    /\ elapsed' = [q \in Questions |-> IF Waiting(q) THEN elapsed[q] + 1 ELSE elapsed[q]]
    /\ UNCHANGED <<hosts, qpc, asked, up, stop, left, seen, result, counterVars, count, reloads>>

\* How the exchange that q waits for behaves.
Now(q) == IF qpc[q] = "first" THEN up[q].first ELSE up[q].second

\* Mutant: ForwardCount.Incr() before the error is looked at.
ForwardCountedAlways(q, r) == Resolved(q, r) /\ forwards' = forwards + 1

\* Resolve returns the upstream's message and counts it, or SERVFAIL.
Forwarded(q, r) ==
    /\ Resolved(q, r)
    /\ forwards' = IF r = "forwarded" THEN forwards + 1 ELSE forwards

\* The answer comes while there is time.
Answered(q) ==
    /\ Waiting(q) /\ Now(q) = "answers"
    /\ qpc[q] = "second" => left[q] > 0
    /\ Forwarded(q, "forwarded")
    /\ UNCHANGED <<hosts, asked, up, elapsed, stop, left, seen, matched, local,
                   count, reloads>>

\* Mutant: no second exchange.
ExchangeFailsOnce(q) ==
    /\ Waiting(q)
    /\ \/ Now(q) = "refuses"
       \/ Now(q) = "silent" /\ Expired(q)
    /\ Forwarded(q, "servfail")
    /\ UNCHANGED <<hosts, asked, up, elapsed, stop, left, seen, matched, local,
                   count, reloads>>

\* Mutant: nothing ends an exchange that gets no answer.
ExchangeFailsPatient(q) ==
    /\ Waiting(q) /\ Now(q) = "refuses"
    /\ Forwarded(q, "servfail")
    /\ UNCHANGED <<hosts, asked, up, elapsed, stop, left, seen, matched, local,
                   count, reloads>>

\* Mutant: TCP is given a context of its own.
ExchangeFailsRenewed(q) ==
    /\ Waiting(q)
    /\ \/ Now(q) = "refuses"
       \/ Now(q) = "silent" /\ Expired(q)
    /\ \/ /\ qpc[q] = "first" /\ up[q].kind = "addr"
          /\ qpc' = [qpc EXCEPT ![q] = "second"]
          /\ stop' = [stop EXCEPT ![q] = elapsed[q] + Timeout]
          /\ left' = [left EXCEPT ![q] = Timeout]
          /\ \E b \in Behaviours : up' = [up EXCEPT ![q].second = b]
          /\ UNCHANGED <<result, total, forwards>>
       \/ /\ qpc[q] = "second" \/ up[q].kind = "url"
          /\ Forwarded(q, "servfail")
          /\ UNCHANGED <<stop, left, up>>
    /\ UNCHANGED <<hosts, asked, elapsed, seen, matched, local, count, reloads>>

\* The exchange ends with an error: refused, no answer in its time, or a TCP
\* exchange that begins when the context is over.  After UDP comes TCP, under
\* the same context and with a timeout of its own.
ExchangeFails(q) ==
    /\ Waiting(q)
    /\ \/ Now(q) = "refuses"
       \/ Now(q) = "silent" /\ Expired(q)
       \/ qpc[q] = "second" /\ left[q] = 0
    /\ \/ /\ qpc[q] = "first" /\ up[q].kind = "addr"
          /\ qpc' = [qpc EXCEPT ![q] = "second"]
          /\ stop' = [stop EXCEPT ![q] = StopOf(elapsed[q])]
          /\ left' = [left EXCEPT ![q] = StopOf(elapsed[q]) - elapsed[q]]
          /\ \E b \in Behaviours : up' = [up EXCEPT ![q].second = b]
          /\ UNCHANGED <<result, total, forwards>>
       \/ /\ qpc[q] = "second" \/ up[q].kind = "url"
          /\ Forwarded(q, "servfail")
          /\ UNCHANGED <<stop, left, up>>
    /\ UNCHANGED <<hosts, asked, elapsed, seen, matched, local, count, reloads>>

\* The client of dohHandler goes away: the context of the request ends, and
\* with it every exchange.
ClientGone(q) ==
    /\ Waiting(q) /\ asked[q].via = "doh"
    /\ up' = [up EXCEPT ![q] = Nil]
    /\ Forwarded(q, "servfail")
    /\ UNCHANGED <<hosts, asked, elapsed, stop, left, seen, matched, local, count, reloads>>

-----------------------------------------------------------------------------

\* Handle and dohHandler put the answer on the wire, if it can be packed, and
\* the goroutine is done.
Reply(q) ==
    /\ qpc[q] = "reply"
    /\ qpc' = [qpc EXCEPT ![q] = "idle"]
    /\ asked' = [asked EXCEPT ![q] = Nil] /\ up' = [up EXCEPT ![q] = Nil]
    /\ elapsed' = [elapsed EXCEPT ![q] = 0] /\ stop' = [stop EXCEPT ![q] = 0]
    /\ left' = [left EXCEPT ![q] = Nil]
    /\ seen' = [seen EXCEPT ![q] = Nil] /\ result' = [result EXCEPT ![q] = Nil]
    /\ UNCHANGED <<hosts, counterVars, count, reloads>>

Serve(q) ==
    \/ LookupAny(q) \/ Lookup(q) \/ Match(q)
    \/ Answered(q) \/ ExchangeFails(q)
    \/ Reply(q)

Next ==
    \/ \E q \in Questions : Ask(q) \/ Serve(q) \/ ClientGone(q)
    \/ Tick \/ Reload

Spec == Init /\ [][Next]_vars

\* Goroutines run, time passes, and an exchange that is answered or refused
\* comes to its end.
FairSpec == Spec /\ WF_vars(Tick) /\ \A q \in Questions : WF_vars(Serve(q))

-----------------------------------------------------------------------------
(***************************************************************************)
(* Properties.                                                             *)
(***************************************************************************)

\* A question is never kept longer than the timeout of Query, both exchanges
\* together: each gives up at a time of its own, that of the second set when
\* the first has failed.
WithinBudget == \A q \in Questions : elapsed[q] <= Budget

\* What a forwarded question gets: the message of the upstream if it answers
\* over UDP (or HTTPS), or if UDP is refused with time to spare and TCP
\* answers; SERVFAIL otherwise, and never before TCP was tried.  A datagram
\* that is lost uses up the time, so TCP never saves that question.
ForwardOutcome ==
    \A q \in Questions : up[q] # Nil /\ result[q] # Nil =>
        /\ (result[q] = "forwarded") <=>
               \/ up[q].first = "answers"
               \/ /\ up[q].kind = "addr" /\ up[q].first = "refuses" /\ up[q].second = "answers"
                  /\ left[q] # 0
        /\ result[q] = "servfail" /\ up[q].kind = "addr" => up[q].second # Nil

\* A name is answered from local records only if the lookup that the answer
\* was made of found a usable one, and denied only if it found some but none
\* usable for the question, whatever reload came between the two lookups; and
\* a question is forwarded only if a lookup found none that it asks for.
LocalOnlyIfPresent ==
    \A q \in Questions :
        /\ result[q] = "record" => asked[q].type = "case" /\ seen[q] = "typed"
        /\ result[q] = "nxdomain" =>
              IF asked[q].type = "case" THEN seen[q] = "unusable" ELSE seen[q] # "none"
        /\ up[q] # Nil =>
              seen[q] = "none" \/ (asked[q].type = "case" /\ seen[q] = "untyped")

\* The counters of the status page account for every question: each one that
\* was matched is a hit or a miss, a forward that succeeded, one that failed,
\* or still under way.
CountersAgree ==
    /\ local = total["record"] + total["nxdomain"]
    /\ forwards = total["forwarded"]
    /\ matched = forwards + total["servfail"]
                       + Cardinality({q \in Questions : Waiting(q)})

\* Every question ends: an upstream that is silent costs no more than the
\* time of the context.
QuestionsEnd == \A q \in Questions : qpc[q] # "idle" ~> qpc[q] = "idle"

-----------------------------------------------------------------------------
(***************************************************************************)
(* The inductive invariant behind the safety properties, in parts.         *)
(***************************************************************************)

TypeOK ==
    /\ hosts \in HostStates
    /\ qpc \in [Questions -> {"idle", "any", "lookup", "match", "first", "second", "reply"}]
    /\ asked \in [Questions -> Asked \cup {Nil}]
    /\ up \in [Questions -> Upstreams \cup {Nil}]
    /\ elapsed \in [Questions -> Nat] /\ stop \in [Questions -> Nat]
    /\ left \in [Questions -> Nat \cup {Nil}]
    /\ seen \in [Questions -> HostStates \cup {Nil}]
    /\ result \in [Questions -> Results \cup {Nil}]
    /\ matched \in Nat /\ forwards \in Nat /\ local \in Nat
    /\ total \in [Results -> Nat]
    /\ count \in Nat /\ reloads \in Nat

\* What a goroutine of a question has at each point of Resolve.
StageInv ==
    \A q \in Questions :
        /\ qpc[q] # "idle" => asked[q] # Nil
        /\ qpc[q] = "any" => asked[q].type = "default"
        /\ qpc[q] \in {"idle", "any", "lookup", "match"} => up[q] = Nil /\ left[q] = Nil
        /\ qpc[q] = "reply" <=> result[q] # Nil
        /\ Waiting(q) => up[q] # Nil

\* The time of an exchange ends with the context.  The first has no successor
\* yet; the second has what the first left over, which is nothing if the first
\* was silent.
ExchangeInv ==
    \A q \in Questions :
        /\ Waiting(q) => stop[q] = Budget
        /\ qpc[q] = "first" => up[q].second = Nil /\ left[q] = Nil
        /\ qpc[q] = "second" =>
              /\ up[q].kind = "addr" /\ up[q].second # Nil /\ left[q] \in Nat
              /\ \/ up[q].first = "refuses"
                 \/ up[q].first = "silent" /\ left[q] = 0

\* A question on its way to an upstream was not found in the local records.
NotLocalInv ==
    \A q \in Questions : qpc[q] \in {"match", "first", "second"} =>
        seen[q] = "none" \/ (asked[q].type = "case" /\ seen[q] = "untyped")

\* All of it, with the properties it is for.
IndInv ==
    /\ TypeOK /\ StageInv /\ ExchangeInv /\ NotLocalInv
    /\ WithinBudget /\ ForwardOutcome /\ LocalOnlyIfPresent /\ CountersAgree

=============================================================================
