----------------------------- MODULE ResolverProofs -----------------------------
(***************************************************************************)
(* Proofs about Resolver, for any number of questions, any time limit and  *)
(* any number of reloads.                                                  *)
(***************************************************************************)
EXTENDS Resolver, FiniteSetTheorems, TLAPS

-----------------------------------------------------------------------------
(***************************************************************************)
(* Facts about the data.                                                   *)
(***************************************************************************)

\* What a question is made of.
LEMMA AskedFacts ==
    \A a \in Asked : /\ a.type \in {"case", "default"} /\ a.via \in {"dns", "doh"}
                     /\ a.form \in {"good", "bad", "empty"}
  BY DEF Asked

\* What an upstream is made of.
LEMMA UpstreamFacts ==
    \A u \in Upstreams : /\ u.kind \in {"url", "addr"} /\ u.first \in Behaviours
                         /\ u.second \in Behaviours \cup {Nil}
  BY DEF Upstreams

\* None of the values is Nil.
LEMMA NotNil ==
    /\ \A r \in Results : r # Nil
    /\ \A h \in HostStates : h # Nil
    /\ \A b \in Behaviours : b # Nil
    /\ \A a \in Asked : a # Nil
    /\ \A u \in Upstreams : u # Nil
    /\ \A n \in Nat : n # Nil
  BY ResolverAssumption

\* As a client's timeout is no shorter than that of the context, an exchange
\* always ends with the context.
LEMMA StopIsBudget == ASSUME NEW now \in Nat PROVE StopOf(now) = Budget
  BY ResolverAssumption DEF StopOf, Earlier

\* When TCP is tried the upstream keeps what it was and gets a behaviour.
LEMMA SecondTried ==
    ASSUME NEW u \in Upstreams, NEW b \in Behaviours
    PROVE  /\ [u EXCEPT !.second = b] \in Upstreams
           /\ [u EXCEPT !.second = b].kind = u.kind
           /\ [u EXCEPT !.second = b].first = u.first
           /\ [u EXCEPT !.second = b].second = b
  BY DEF Upstreams

-----------------------------------------------------------------------------
(***************************************************************************)
(* One lemma per part of the invariant, one step per action.               *)
(***************************************************************************)

\* How an exchange that fails goes on: Resolve gives up with SERVFAIL ...
GivesUp(q) ==
    /\ qpc[q] = "second" \/ up[q].kind = "url"
    /\ Now(q) \in {"refuses", "silent"} \/ (qpc[q] = "second" /\ left[q] = 0)
    /\ Forwarded(q, "servfail")
    /\ UNCHANGED <<hosts, asked, up, elapsed, stop, left, seen, matched, local, count, reloads>>

\* ... or stdDNSQuery tries TCP with the time that is left.
TriesTCP(q) ==
    /\ qpc[q] = "first" /\ up[q] \in Upstreams /\ up[q].kind = "addr"
    /\ up[q].first = "refuses" \/ (up[q].first = "silent" /\ Expired(q))
    /\ \E b \in Behaviours : up' = [up EXCEPT ![q] = [up[q] EXCEPT !.second = b]]
    /\ qpc' = [qpc EXCEPT ![q] = "second"]
    /\ stop' = [stop EXCEPT ![q] = StopOf(elapsed[q])]
    /\ left' = [left EXCEPT ![q] = StopOf(elapsed[q]) - elapsed[q]]
    /\ UNCHANGED <<hosts, asked, elapsed, seen, result, counterVars, count, reloads>>

\* There is no third way.
LEMMA FailKinds ==
    ASSUME TypeOK, StageInv, NEW q \in Questions, ExchangeFails(q)
    PROVE  Waiting(q) /\ (GivesUp(q) \/ TriesTCP(q))
  <1>1. Waiting(q) /\ up[q] \in Upstreams
    BY DEF ExchangeFails, TypeOK, StageInv
  <1> QED
    BY <1>1 DEF ExchangeFails, Waiting, Now, GivesUp, TriesTCP, counterVars

\* Every step keeps the types.
LEMMA TypeStep == TypeOK /\ StageInv /\ WithinBudget /\ [Next]_vars => TypeOK'
  <1> SUFFICES ASSUME TypeOK, StageInv, WithinBudget, [Next]_vars PROVE TypeOK'
    OBVIOUS
  <1> USE DEF TypeOK, localVars, counterVars
  <1>1. ASSUME NEW q \in Questions, Ask(q) PROVE TypeOK'
    BY <1>1 DEF Ask, Resolved, HostStates, Results
  <1>2. ASSUME NEW q \in Questions, LookupAny(q) PROVE TypeOK'
    BY <1>2 DEF LookupAny, Results
  <1>3. ASSUME NEW q \in Questions, Lookup(q) PROVE TypeOK'
    BY <1>3 DEF Lookup, Found, LocalAnswer, Resolved, Results
  <1>4. ASSUME NEW q \in Questions, Match(q) PROVE TypeOK'
    BY <1>4, UpstreamFacts, StopIsBudget, ResolverAssumption DEF Match, Results
  <1>5. ASSUME NEW q \in Questions, Answered(q) PROVE TypeOK'
    BY <1>5 DEF Answered, Forwarded, Resolved, Results
  <1>6. ASSUME NEW q \in Questions, ExchangeFails(q) PROVE TypeOK'
    <2>1. CASE GivesUp(q)
      BY <1>6, <2>1 DEF GivesUp, Forwarded, Resolved, Results
    <2>2. CASE TriesTCP(q)
      <3>1. up' \in [Questions -> Upstreams \cup {Nil}]
        BY <2>2, SecondTried DEF TriesTCP
      <3>2. left' \in [Questions -> Nat \cup {Nil}]
        BY <2>2, StopIsBudget, ResolverAssumption DEF TriesTCP, WithinBudget
      <3>3. stop' \in [Questions -> Nat]
        BY <2>2, StopIsBudget, ResolverAssumption DEF TriesTCP
      <3> QED  BY <2>2, <3>1, <3>2, <3>3 DEF TriesTCP
    <2> QED  BY <1>6, <2>1, <2>2, FailKinds
  <1>7. ASSUME NEW q \in Questions, ClientGone(q) PROVE TypeOK'
    BY <1>7 DEF ClientGone, Forwarded, Resolved, Results
  <1>8. ASSUME NEW q \in Questions, Reply(q) PROVE TypeOK'
    BY <1>8 DEF Reply, Results
  <1>9. CASE Tick
    BY <1>9 DEF Tick, Results
  <1>10. CASE Reload
    BY <1>10 DEF Reload, Results
  <1>11. CASE UNCHANGED vars
    BY <1>11 DEF vars
  <1> QED
    BY <1>1, <1>2, <1>3, <1>4, <1>5, <1>6, <1>7, <1>8, <1>9, <1>10, <1>11 DEF Next, Serve

\* What a goroutine has at each point of Resolve.
LEMMA StageStep == TypeOK /\ StageInv /\ [Next]_vars => StageInv'
  <1> SUFFICES ASSUME TypeOK, StageInv, [Next]_vars PROVE StageInv'
    OBVIOUS
  <1> USE DEF TypeOK, StageInv, Waiting, localVars, counterVars
  <1>1. ASSUME NEW q \in Questions, Ask(q) PROVE StageInv'
    <2>1. UNCHANGED <<up, left>>
      BY <1>1 DEF Ask
    <2>2. CASE UNCHANGED <<qpc, asked, result>>
      BY <2>1, <2>2
    <2>3. ASSUME NEW a \in Asked, asked' = [asked EXCEPT ![q] = a], Resolved(q, "formerr")
          PROVE  StageInv'
      BY <1>1, <2>1, <2>3, NotNil DEF Ask, Resolved, Results
    <2>4. ASSUME NEW a \in Asked, asked' = [asked EXCEPT ![q] = a], UNCHANGED result,
                 qpc' = [qpc EXCEPT ![q] = IF a.type = "case" THEN "lookup" ELSE "any"]
          PROVE  StageInv'
      BY <1>1, <2>1, <2>4, AskedFacts, NotNil DEF Ask
    <2> QED  BY <1>1, <2>2, <2>3, <2>4 DEF Ask
  <1>2. ASSUME NEW q \in Questions, LookupAny(q) PROVE StageInv'
    BY <1>2, NotNil DEF LookupAny, Found, Results
  <1>3. ASSUME NEW q \in Questions, Lookup(q) PROVE StageInv'
    BY <1>3, NotNil DEF Lookup, Found, LocalAnswer, Resolved, Results
  <1>4. ASSUME NEW q \in Questions, Match(q) PROVE StageInv'
    BY <1>4, NotNil DEF Match, Results
  <1>5. ASSUME NEW q \in Questions, Answered(q) PROVE StageInv'
    BY <1>5, NotNil DEF Answered, Forwarded, Resolved, Results
  <1>6. ASSUME NEW q \in Questions, ExchangeFails(q) PROVE StageInv'
    <2>1. CASE GivesUp(q)
      BY <1>6, <2>1, FailKinds, NotNil DEF GivesUp, Forwarded, Resolved, Results
    <2>2. CASE TriesTCP(q)
      <3>1. PICK b \in Behaviours : up' = [up EXCEPT ![q] = [up[q] EXCEPT !.second = b]]
        BY <2>2 DEF TriesTCP
      <3>2. up'[q] \in Upstreams /\ up'[q] # Nil
        BY <2>2, <3>1, SecondTried, NotNil DEF TriesTCP
      <3> QED  BY <2>2, <3>1, <3>2 DEF TriesTCP
    <2> QED  BY <1>6, <2>1, <2>2, FailKinds
  <1>7. ASSUME NEW q \in Questions, ClientGone(q) PROVE StageInv'
    BY <1>7, NotNil DEF ClientGone, Forwarded, Resolved, Results
  <1>8. ASSUME NEW q \in Questions, Reply(q) PROVE StageInv'
    BY <1>8, NotNil DEF Reply, Results
  <1>9. CASE Tick
    BY <1>9, NotNil DEF Tick, Results
  <1>10. CASE Reload
    BY <1>10, NotNil DEF Reload, Results
  <1>11. CASE UNCHANGED vars
    BY <1>11, NotNil DEF vars
  <1> QED
    BY <1>1, <1>2, <1>3, <1>4, <1>5, <1>6, <1>7, <1>8, <1>9, <1>10, <1>11 DEF Next, Serve

\* The time and the behaviour of an exchange.
LEMMA ExchangeStep == TypeOK /\ StageInv /\ WithinBudget /\ ExchangeInv /\ [Next]_vars => ExchangeInv'
  <1> SUFFICES ASSUME TypeOK, StageInv, WithinBudget, ExchangeInv, [Next]_vars
               PROVE  ExchangeInv'
    OBVIOUS
  <1> USE DEF TypeOK, StageInv, ExchangeInv, Waiting, localVars, counterVars
  <1>1. ASSUME NEW q \in Questions, Ask(q) PROVE ExchangeInv'
    BY <1>1 DEF Ask, Resolved
  <1>2. ASSUME NEW q \in Questions, LookupAny(q) PROVE ExchangeInv'
    BY <1>2 DEF LookupAny, Found
  <1>3. ASSUME NEW q \in Questions, Lookup(q) PROVE ExchangeInv'
    BY <1>3 DEF Lookup, Found, LocalAnswer, Resolved
  <1>4. ASSUME NEW q \in Questions, Match(q) PROVE ExchangeInv'
    <2>1. stop' = [stop EXCEPT ![q] = Budget]
      BY <1>4, StopIsBudget DEF Match
    <2> QED  BY <1>4, <2>1 DEF Match
  <1>5. ASSUME NEW q \in Questions, Answered(q) PROVE ExchangeInv'
    BY <1>5 DEF Answered, Forwarded, Resolved
  <1>6. ASSUME NEW q \in Questions, ExchangeFails(q) PROVE ExchangeInv'
    <2>1. CASE GivesUp(q)
      BY <1>6, <2>1 DEF GivesUp, Forwarded, Resolved
    <2>2. CASE TriesTCP(q)
      <3>1. PICK b \in Behaviours : up' = [up EXCEPT ![q] = [up[q] EXCEPT !.second = b]]
        BY <2>2 DEF TriesTCP
      <3>2. /\ up'[q].kind = "addr" /\ up'[q].first = up[q].first
            /\ up'[q].second = b /\ b # Nil
        <4>1. up'[q] = [up[q] EXCEPT !.second = b] /\ up[q] \in Upstreams
          BY <2>2, <3>1 DEF TriesTCP
        <4>2. up[q].kind = "addr"
          BY <2>2 DEF TriesTCP
        <4>3. /\ [up[q] EXCEPT !.second = b].kind = up[q].kind
              /\ [up[q] EXCEPT !.second = b].first = up[q].first
              /\ [up[q] EXCEPT !.second = b].second = b
          BY <4>1, SecondTried
        <4> QED  BY <4>1, <4>2, <4>3, NotNil
      <3>3. stop' = [stop EXCEPT ![q] = Budget]
        BY <2>2, StopIsBudget DEF TriesTCP
      <3>4. left'[q] \in Nat /\ (Expired(q) => left'[q] = 0)
        <4>1. left'[q] = Budget - elapsed[q]
          BY <2>2, StopIsBudget DEF TriesTCP
        <4>2. stop[q] = Budget /\ elapsed[q] \in Nat /\ elapsed[q] <= Budget
          BY <2>2 DEF TriesTCP, WithinBudget
        <4> QED  BY <4>1, <4>2, ResolverAssumption DEF Expired
      <3> QED  BY <2>2, <3>1, <3>2, <3>3, <3>4 DEF TriesTCP
    <2> QED  BY <1>6, <2>1, <2>2, FailKinds
  <1>7. ASSUME NEW q \in Questions, ClientGone(q) PROVE ExchangeInv'
    BY <1>7 DEF ClientGone, Forwarded, Resolved
  <1>8. ASSUME NEW q \in Questions, Reply(q) PROVE ExchangeInv'
    BY <1>8 DEF Reply
  <1>9. CASE Tick
    BY <1>9 DEF Tick
  <1>10. CASE Reload
    BY <1>10 DEF Reload
  <1>11. CASE UNCHANGED vars
    BY <1>11 DEF vars
  <1> QED
    BY <1>1, <1>2, <1>3, <1>4, <1>5, <1>6, <1>7, <1>8, <1>9, <1>10, <1>11 DEF Next, Serve

\* What the lookups said of a question that is forwarded.
LEMMA NotLocalStep == TypeOK /\ StageInv /\ NotLocalInv /\ [Next]_vars => NotLocalInv'
  <1> SUFFICES ASSUME TypeOK, StageInv, NotLocalInv, [Next]_vars PROVE NotLocalInv'
    OBVIOUS
  <1> USE DEF TypeOK, StageInv, NotLocalInv, HostStates, localVars, counterVars
  <1>1. ASSUME NEW q \in Questions, Ask(q) PROVE NotLocalInv'
    BY <1>1, AskedFacts DEF Ask, Resolved
  <1>2. ASSUME NEW q \in Questions, LookupAny(q) PROVE NotLocalInv'
    BY <1>2, AskedFacts DEF LookupAny, Found
  <1>3. ASSUME NEW q \in Questions, Lookup(q) PROVE NotLocalInv'
    BY <1>3, AskedFacts DEF Lookup, Found, LocalAnswer, Resolved
  <1>4. ASSUME NEW q \in Questions, Match(q) PROVE NotLocalInv'
    BY <1>4, AskedFacts DEF Match
  <1>5. ASSUME NEW q \in Questions, Answered(q) PROVE NotLocalInv'
    BY <1>5, AskedFacts DEF Answered, Forwarded, Resolved
  <1>6. ASSUME NEW q \in Questions, ExchangeFails(q) PROVE NotLocalInv'
    <2>1. CASE GivesUp(q)
      BY <1>6, <2>1 DEF GivesUp, Forwarded, Resolved
    <2>2. CASE TriesTCP(q)
      BY <2>2 DEF TriesTCP
    <2> QED  BY <1>6, <2>1, <2>2, FailKinds
  <1>7. ASSUME NEW q \in Questions, ClientGone(q) PROVE NotLocalInv'
    BY <1>7, AskedFacts DEF ClientGone, Forwarded, Resolved
  <1>8. ASSUME NEW q \in Questions, Reply(q) PROVE NotLocalInv'
    BY <1>8, AskedFacts DEF Reply
  <1>9. CASE Tick
    BY <1>9, AskedFacts DEF Tick
  <1>10. CASE Reload
    BY <1>10, AskedFacts DEF Reload
  <1>11. CASE UNCHANGED vars
    BY <1>11, AskedFacts DEF vars
  <1> QED
    BY <1>1, <1>2, <1>3, <1>4, <1>5, <1>6, <1>7, <1>8, <1>9, <1>10, <1>11 DEF Next, Serve

\* Nobody waits past the deadline, as no exchange was given more time.
LEMMA BudgetStep == TypeOK /\ ExchangeInv /\ WithinBudget /\ [Next]_vars => WithinBudget'
  <1> SUFFICES ASSUME TypeOK, ExchangeInv, WithinBudget, [Next]_vars PROVE WithinBudget'
    OBVIOUS
  <1> USE DEF TypeOK, WithinBudget, localVars, counterVars
  <1>1. ASSUME NEW q \in Questions, Ask(q) PROVE WithinBudget'
    BY <1>1, ResolverAssumption DEF Ask, Resolved
  <1>2. ASSUME NEW q \in Questions, LookupAny(q) PROVE WithinBudget'
    BY <1>2, ResolverAssumption DEF LookupAny, Found
  <1>3. ASSUME NEW q \in Questions, Lookup(q) PROVE WithinBudget'
    BY <1>3, ResolverAssumption DEF Lookup, Found, LocalAnswer, Resolved
  <1>4. ASSUME NEW q \in Questions, Match(q) PROVE WithinBudget'
    BY <1>4, ResolverAssumption DEF Match
  <1>5. ASSUME NEW q \in Questions, Answered(q) PROVE WithinBudget'
    BY <1>5, ResolverAssumption DEF Answered, Forwarded, Resolved
  <1>6. ASSUME NEW q \in Questions, ExchangeFails(q) PROVE WithinBudget'
    BY <1>6 DEF ExchangeFails
  <1>7. ASSUME NEW q \in Questions, ClientGone(q) PROVE WithinBudget'
    BY <1>7, ResolverAssumption DEF ClientGone, Forwarded, Resolved
  <1>8. ASSUME NEW q \in Questions, Reply(q) PROVE WithinBudget'
    BY <1>8, ResolverAssumption DEF Reply
  <1>9. CASE Tick
    <2>1. \A q \in Questions : Waiting(q) => elapsed[q] < Budget
      BY <1>9, ResolverAssumption DEF Tick, Expired, ExchangeInv
    <2> QED  BY <1>9, <2>1, ResolverAssumption DEF Tick
  <1>10. CASE Reload
    BY <1>10, ResolverAssumption DEF Reload
  <1>11. CASE UNCHANGED vars
    BY <1>11, ResolverAssumption DEF vars
  <1> QED
    BY <1>1, <1>2, <1>3, <1>4, <1>5, <1>6, <1>7, <1>8, <1>9, <1>10, <1>11 DEF Next, Serve

\* A step that leaves a question without upstream or without answer, and the
\* others alone, keeps what is said of the outcomes.
LEMMA OutcomeKept ==
    ASSUME ForwardOutcome, NEW q \in Questions, up'[q] = Nil \/ result'[q] = Nil,
           \A r \in Questions \ {q} :
              up'[r] = up[r] /\ result'[r] = result[r] /\ left'[r] = left[r]
    PROVE  ForwardOutcome'
  BY DEF ForwardOutcome

\* The answer is the one the upstream's behaviour determines.
LEMMA ForwardStep ==
    TypeOK /\ StageInv /\ ExchangeInv /\ ForwardOutcome /\ [Next]_vars
    => ForwardOutcome'
  <1> SUFFICES ASSUME TypeOK, StageInv, ExchangeInv, ForwardOutcome, [Next]_vars
               PROVE  ForwardOutcome'
    OBVIOUS
  <1> USE DEF TypeOK, StageInv, ForwardOutcome, localVars, counterVars
  <1>1. ASSUME NEW q \in Questions, Ask(q) PROVE ForwardOutcome'
    BY <1>1, OutcomeKept DEF Ask, Resolved
  <1>2. ASSUME NEW q \in Questions, LookupAny(q) PROVE ForwardOutcome'
    BY <1>2, OutcomeKept DEF LookupAny, Found
  <1>3. ASSUME NEW q \in Questions, Lookup(q) PROVE ForwardOutcome'
    BY <1>3, OutcomeKept DEF Lookup, Found, LocalAnswer, Resolved
  <1>4. ASSUME NEW q \in Questions, Match(q) PROVE ForwardOutcome'
    BY <1>4, OutcomeKept DEF Match
  <1>5. ASSUME NEW q \in Questions, Answered(q) PROVE ForwardOutcome'
    <2>1. /\ qpc[q] \in {"first", "second"} /\ up[q] # Nil /\ result'[q] = "forwarded"
          /\ \A r \in Questions \ {q} : result'[r] = result[r]
          /\ UNCHANGED <<up, left>>
      BY <1>5 DEF Answered, Forwarded, Resolved, Waiting
    <2>2. \/ up[q].first = "answers"
          \/ /\ up[q].kind = "addr" /\ up[q].first = "refuses"
             /\ up[q].second = "answers" /\ left[q] # 0
      BY <1>5, <2>1 DEF Answered, ExchangeInv, Now
    <2> QED  BY <2>1, <2>2
  <1>6. ASSUME NEW q \in Questions, ExchangeFails(q) PROVE ForwardOutcome'
    <2>1. CASE GivesUp(q)
      <3>1. /\ qpc[q] \in {"first", "second"} /\ up[q] # Nil /\ result'[q] = "servfail"
            /\ \A r \in Questions \ {q} : result'[r] = result[r]
        BY <1>6, <2>1, FailKinds DEF GivesUp, Forwarded, Resolved, Waiting
      <3>2. up[q].kind = "addr" => qpc[q] = "second" /\ up[q].second # Nil
        BY <2>1, <3>1 DEF GivesUp, ExchangeInv
      <3>3. ~ \/ up[q].first = "answers"
              \/ /\ up[q].kind = "addr" /\ up[q].first = "refuses"
                 /\ up[q].second = "answers" /\ left[q] # 0
        BY <2>1, <3>1, <3>2 DEF GivesUp, ExchangeInv, Now
      <3> QED  BY <2>1, <3>1, <3>2, <3>3 DEF GivesUp
    <2>2. CASE TriesTCP(q)
      BY <2>2, OutcomeKept DEF TriesTCP
    <2> QED  BY <1>6, <2>1, <2>2, FailKinds
  <1>7. ASSUME NEW q \in Questions, ClientGone(q) PROVE ForwardOutcome'
    BY <1>7, OutcomeKept DEF ClientGone, Forwarded, Resolved, Waiting
  <1>8. ASSUME NEW q \in Questions, Reply(q) PROVE ForwardOutcome'
    BY <1>8, OutcomeKept DEF Reply
  <1>9. CASE Tick
    BY <1>9 DEF Tick
  <1>10. CASE Reload
    BY <1>10 DEF Reload
  <1>11. CASE UNCHANGED vars
    BY <1>11 DEF vars
  <1> QED
    BY <1>1, <1>2, <1>3, <1>4, <1>5, <1>6, <1>7, <1>8, <1>9, <1>10, <1>11 DEF Next, Serve

\* Local answers come from records that the deciding lookup found.
LEMMA LocalStep ==
    TypeOK /\ StageInv /\ NotLocalInv /\ LocalOnlyIfPresent /\ [Next]_vars
    => LocalOnlyIfPresent'
  <1> SUFFICES ASSUME TypeOK, StageInv, NotLocalInv, LocalOnlyIfPresent, [Next]_vars
               PROVE  LocalOnlyIfPresent'
    OBVIOUS
  <1> USE DEF TypeOK, StageInv, LocalOnlyIfPresent, localVars, counterVars
  <1>1. ASSUME NEW q \in Questions, Ask(q) PROVE LocalOnlyIfPresent'
    BY <1>1, NotNil, AskedFacts DEF Ask, Resolved, HostStates, Results
  <1>2. ASSUME NEW q \in Questions, LookupAny(q) PROVE LocalOnlyIfPresent'
    BY <1>2, NotNil, AskedFacts DEF LookupAny, Found, HostStates, Results
  <1>3. ASSUME NEW q \in Questions, Lookup(q) PROVE LocalOnlyIfPresent'
    BY <1>3, NotNil, AskedFacts DEF Lookup, Found, LocalAnswer, Resolved, HostStates, Results
  <1>4. ASSUME NEW q \in Questions, Match(q) PROVE LocalOnlyIfPresent'
    BY <1>4, NotNil, AskedFacts DEF Match, NotLocalInv, HostStates, Results
  <1>5. ASSUME NEW q \in Questions, Answered(q) PROVE LocalOnlyIfPresent'
    BY <1>5, NotNil, AskedFacts
    DEF Answered, Forwarded, Resolved, Waiting, HostStates, Results
  <1>6. ASSUME NEW q \in Questions, ExchangeFails(q) PROVE LocalOnlyIfPresent'
    <2>1. CASE GivesUp(q)
      BY <1>6, <2>1, NotNil DEF GivesUp, Forwarded, Resolved, Results
    <2>2. CASE TriesTCP(q)
      BY <1>6, <2>2, NotNil DEF TriesTCP, NotLocalInv
    <2> QED  BY <1>6, <2>1, <2>2, FailKinds
  <1>7. ASSUME NEW q \in Questions, ClientGone(q) PROVE LocalOnlyIfPresent'
    BY <1>7, NotNil, AskedFacts
    DEF ClientGone, Forwarded, Resolved, Waiting, HostStates, Results
  <1>8. ASSUME NEW q \in Questions, Reply(q) PROVE LocalOnlyIfPresent'
    BY <1>8, NotNil, AskedFacts DEF Reply, HostStates, Results
  <1>9. CASE Tick
    BY <1>9, NotNil, AskedFacts DEF Tick, HostStates, Results
  <1>10. CASE Reload
    BY <1>10, NotNil, AskedFacts DEF Reload, HostStates, Results
  <1>11. CASE UNCHANGED vars
    BY <1>11, NotNil, AskedFacts DEF vars
  <1> QED
    BY <1>1, <1>2, <1>3, <1>4, <1>5, <1>6, <1>7, <1>8, <1>9, <1>10, <1>11 DEF Next, Serve

-----------------------------------------------------------------------------
(***************************************************************************)
(* The counters of the status page, against the questions under way.       *)
(***************************************************************************)

\* The questions that wait for an upstream.
UnderWay == {q \in Questions : Waiting(q)}

\* They are finitely many.
LEMMA UnderWayFinite == IsFiniteSet(UnderWay) /\ Cardinality(UnderWay) \in Nat
  <1>1. UnderWay \in SUBSET Questions
    BY DEF UnderWay
  <1>2. IsFiniteSet(UnderWay)
    BY <1>1, FS_Subset, ResolverAssumption
  <1> QED  BY <1>2, FS_CardinalityType

\* Match makes a question wait.
LEMMA QuestionJoins ==
    ASSUME TypeOK, NEW q \in Questions, qpc[q] = "match", qpc' = [qpc EXCEPT ![q] = "first"]
    PROVE  Cardinality(UnderWay') = Cardinality(UnderWay) + 1
  <1>1. UnderWay' = UnderWay \cup {q} /\ q \notin UnderWay
    BY DEF UnderWay, Waiting, TypeOK
  <1> QED  BY <1>1, UnderWayFinite, FS_AddElement

\* An answer, or an error, ends the wait.
LEMMA QuestionLeaves ==
    ASSUME TypeOK, NEW q \in Questions, Waiting(q), qpc' = [qpc EXCEPT ![q] = "reply"]
    PROVE  Cardinality(UnderWay') = Cardinality(UnderWay) - 1
  <1>1. UnderWay' = UnderWay \ {q} /\ q \in UnderWay
    BY DEF UnderWay, Waiting, TypeOK
  <1> QED  BY <1>1, UnderWayFinite, FS_RemoveElement

\* Every other step of a goroutine leaves the set alone.
LEMMA OthersStay ==
    ASSUME TypeOK, NEW q \in Questions, NEW v, qpc' = [qpc EXCEPT ![q] = v],
           Waiting(q) <=> v \in {"first", "second"}
    PROVE  UnderWay' = UnderWay
  BY DEF UnderWay, Waiting, TypeOK

\* What a step does to the counters: it leaves them and the questions under
\* way alone, ...
LEMMA CountersKept ==
    ASSUME CountersAgree, UNCHANGED <<matched, forwards, local, total>>,
           UnderWay' = UnderWay
    PROVE  CountersAgree'
  BY DEF CountersAgree, UnderWay

\* ... or one answer of an upstream, or SERVFAIL, is counted where it belongs
\* and its question leaves, ...
LEMMA CountersForward ==
    ASSUME TypeOK, CountersAgree, NEW q \in Questions, Waiting(q),
           NEW r \in {"forwarded", "servfail"}, Forwarded(q, r), UNCHANGED <<matched, local>>
    PROVE  CountersAgree'
  <1>1. Cardinality(UnderWay') = Cardinality(UnderWay) - 1
    BY QuestionLeaves DEF Forwarded, Resolved
  <1>2. total' = [total EXCEPT ![r] = @ + 1]
    BY DEF Forwarded, Resolved
  <1>3. Cardinality(UnderWay) \in Nat
    BY UnderWayFinite
  <1>4. /\ matched = forwards + total["servfail"] + Cardinality(UnderWay)
        /\ local = total["record"] + total["nxdomain"] /\ forwards = total["forwarded"]
    BY DEF CountersAgree, UnderWay
  <1>5. CASE r = "forwarded"
    <2>1. /\ forwards' = forwards + 1 /\ total'["forwarded"] = total["forwarded"] + 1
          /\ total'["servfail"] = total["servfail"] /\ total'["record"] = total["record"]
          /\ total'["nxdomain"] = total["nxdomain"]
      BY <1>2, <1>5 DEF Forwarded, TypeOK, Results
    <2>2. matched' = forwards' + total'["servfail"] + Cardinality(UnderWay')
      BY <1>1, <1>3, <1>4, <2>1 DEF TypeOK, Results
    <2>3. local' = total'["record"] + total'["nxdomain"] /\ forwards' = total'["forwarded"]
      BY <1>4, <2>1
    <2> QED  BY <2>2, <2>3 DEF CountersAgree, UnderWay
  <1>6. CASE r = "servfail"
    <2>1. /\ forwards' = forwards /\ total'["forwarded"] = total["forwarded"]
          /\ total'["servfail"] = total["servfail"] + 1
          /\ total'["record"] = total["record"] /\ total'["nxdomain"] = total["nxdomain"]
      BY <1>2, <1>6 DEF Forwarded, TypeOK, Results
    <2>2. matched' = forwards' + total'["servfail"] + Cardinality(UnderWay')
      BY <1>1, <1>3, <1>4, <2>1 DEF TypeOK, Results
    <2>3. local' = total'["record"] + total'["nxdomain"] /\ forwards' = total'["forwarded"]
      BY <1>4, <2>1
    <2> QED  BY <2>2, <2>3 DEF CountersAgree, UnderWay
  <1> QED  BY <1>5, <1>6

\* ... or Resolve answers without an upstream: FORMERR is not counted, a local
\* answer is counted as local.
LEMMA CountersLocal ==
    ASSUME TypeOK, CountersAgree, NEW q \in Questions, ~Waiting(q),
           NEW r \in {"formerr", "record", "nxdomain"}, Resolved(q, r),
           local' = IF r = "formerr" THEN local ELSE local + 1, UNCHANGED <<matched, forwards>>
    PROVE  CountersAgree'
  <1>1. UnderWay' = UnderWay
    BY OthersStay DEF Resolved
  <1>2. /\ total'["forwarded"] = total["forwarded"] /\ total'["servfail"] = total["servfail"]
        /\ r = "formerr" => total'["record"] = total["record"]
                            /\ total'["nxdomain"] = total["nxdomain"]
        /\ r # "formerr" => total'["record"] + total'["nxdomain"]
                            = total["record"] + total["nxdomain"] + 1
    BY DEF Resolved, TypeOK, Results
  <1>3. /\ matched = forwards + total["servfail"] + Cardinality(UnderWay)
        /\ local = total["record"] + total["nxdomain"] /\ forwards = total["forwarded"]
    BY DEF CountersAgree, UnderWay
  <1>4. local' = total'["record"] + total'["nxdomain"]
    BY <1>2, <1>3
  <1> QED  BY <1>1, <1>2, <1>3, <1>4 DEF CountersAgree, UnderWay

\* Every step keeps the books.
LEMMA CounterStep == TypeOK /\ StageInv /\ CountersAgree /\ [Next]_vars => CountersAgree'
  <1> SUFFICES ASSUME TypeOK, StageInv, CountersAgree, [Next]_vars
               PROVE  CountersAgree'
    OBVIOUS
  <1> USE DEF localVars, counterVars
  <1>1. ASSUME NEW q \in Questions, Ask(q) PROVE CountersAgree'
    <2>1. qpc[q] = "idle" /\ UNCHANGED <<matched, forwards, local>>
      BY <1>1 DEF Ask
    <2>2. CASE Resolved(q, "formerr")
      BY <2>1, <2>2, CountersLocal DEF Waiting
    <2>3. CASE UNCHANGED <<qpc, total>>
      BY <2>1, <2>3, CountersKept DEF UnderWay, Waiting
    <2>4. ASSUME NEW v \in {"lookup", "any"}, qpc' = [qpc EXCEPT ![q] = v], UNCHANGED total
          PROVE  CountersAgree'
      <3>1. UnderWay' = UnderWay
        BY <2>1, <2>4, OthersStay DEF Waiting
      <3> QED  BY <2>1, <2>4, <3>1, CountersKept
    <2> QED  BY <1>1, <2>2, <2>3, <2>4 DEF Ask
  <1>2. ASSUME NEW q \in Questions, LookupAny(q) PROVE CountersAgree'
    <2>1. UnderWay' = UnderWay
      BY <1>2, OthersStay DEF LookupAny, Waiting
    <2> QED  BY <1>2, <2>1, CountersKept DEF LookupAny
  <1>3. ASSUME NEW q \in Questions, Lookup(q) PROVE CountersAgree'
    <2>1. qpc[q] = "lookup" /\ UNCHANGED <<matched, forwards>>
      BY <1>3 DEF Lookup
    <2>2. ASSUME NEW r \in {"record", "nxdomain"}, Resolved(q, r), local' = local + 1
          PROVE  CountersAgree'
      BY <2>1, <2>2, CountersLocal DEF Waiting
    <2>3. CASE qpc' = [qpc EXCEPT ![q] = "match"] /\ UNCHANGED <<total, local>>
      <3>1. UnderWay' = UnderWay
        BY <2>1, <2>3, OthersStay DEF Waiting
      <3> QED  BY <2>1, <2>3, <3>1, CountersKept
    <2> QED  BY <1>3, <2>2, <2>3 DEF Lookup, LocalAnswer
  <1>4. ASSUME NEW q \in Questions, Match(q) PROVE CountersAgree'
    <2>1. Cardinality(UnderWay') = Cardinality(UnderWay) + 1
      BY <1>4, QuestionJoins DEF Match
    <2>2. matched' = matched + 1 /\ UNCHANGED <<forwards, local, total>>
      BY <1>4 DEF Match
    <2>3. /\ forwards \in Nat /\ total["servfail"] \in Nat /\ Cardinality(UnderWay) \in Nat
      BY UnderWayFinite DEF TypeOK, Results
    <2>4. matched = forwards + total["servfail"] + Cardinality(UnderWay)
      BY DEF CountersAgree, UnderWay
    <2>5. matched' = forwards' + total'["servfail"] + Cardinality(UnderWay')
      BY <2>1, <2>2, <2>3, <2>4
    <2> QED  BY <2>2, <2>5 DEF CountersAgree, UnderWay
  <1>5. ASSUME NEW q \in Questions, Answered(q) PROVE CountersAgree'
    BY <1>5, CountersForward DEF Answered
  <1>6. ASSUME NEW q \in Questions, ExchangeFails(q) PROVE CountersAgree'
    <2>1. CASE GivesUp(q)
      BY <1>6, <2>1, FailKinds, CountersForward DEF GivesUp
    <2>2. CASE TriesTCP(q)
      <3>1. UnderWay' = UnderWay
        BY <2>2, OthersStay DEF TriesTCP, Waiting
      <3> QED  BY <2>2, <3>1, CountersKept DEF TriesTCP
    <2> QED  BY <1>6, <2>1, <2>2, FailKinds
  <1>7. ASSUME NEW q \in Questions, ClientGone(q) PROVE CountersAgree'
    BY <1>7, CountersForward DEF ClientGone
  <1>8. ASSUME NEW q \in Questions, Reply(q) PROVE CountersAgree'
    <2>1. UnderWay' = UnderWay
      BY <1>8, OthersStay DEF Reply, Waiting
    <2> QED  BY <1>8, <2>1, CountersKept DEF Reply
  <1>9. CASE Tick
    BY <1>9, CountersKept DEF Tick, UnderWay, Waiting
  <1>10. CASE Reload
    BY <1>10, CountersKept DEF Reload, UnderWay, Waiting
  <1>11. CASE UNCHANGED vars
    BY <1>11, CountersKept DEF vars, UnderWay, Waiting
  <1> QED
    BY <1>1, <1>2, <1>3, <1>4, <1>5, <1>6, <1>7, <1>8, <1>9, <1>10, <1>11 DEF Next, Serve

-----------------------------------------------------------------------------
(***************************************************************************)
(* The invariant of the specification, and what follows from it.           *)
(***************************************************************************)

\* At first nobody asks.
LEMMA InvInit == Init => IndInv
  <1> SUFFICES ASSUME Init PROVE IndInv
    OBVIOUS
  <1>1. TypeOK
    BY DEF Init, TypeOK, Results
  <1>2. StageInv /\ ExchangeInv /\ NotLocalInv
    BY DEF Init, StageInv, ExchangeInv, NotLocalInv, Waiting
  <1>3. WithinBudget
    BY ResolverAssumption DEF Init, WithinBudget
  <1>4. ForwardOutcome /\ LocalOnlyIfPresent
    BY NotNil DEF Init, ForwardOutcome, LocalOnlyIfPresent, Results
  <1>5. CountersAgree
    <2>1. UnderWay = {}
      BY DEF Init, UnderWay, Waiting
    <2>2. Cardinality(UnderWay) = 0
      BY <2>1, FS_EmptySet
    <2> QED  BY <2>2 DEF Init, CountersAgree, UnderWay, Results
  <1> QED  BY <1>1, <1>2, <1>3, <1>4, <1>5 DEF IndInv

\* The invariant holds in every reachable state, for any number of questions,
\* whatever the upstreams do and whenever the host cache is reloaded.
THEOREM Invariance == Spec => []IndInv
  <1>1. IndInv /\ [Next]_vars => IndInv'
    BY TypeStep, StageStep, ExchangeStep, NotLocalStep, BudgetStep, ForwardStep,
       LocalStep, CounterStep DEF IndInv
  <1> QED  BY InvInit, <1>1, PTL DEF Spec

\* UDP and TCP together never keep a question longer than the context of
\* UpstreamQuery.Query allows, although each exchange has a timeout of its own
\* that would let it go on.
THEOREM AlwaysWithinBudget == Spec => []WithinBudget
  <1>1. IndInv => WithinBudget
    BY DEF IndInv
  <1> QED  BY Invariance, <1>1, PTL

\* What a forwarded question gets is determined by what the upstream does over
\* UDP or HTTPS, over TCP, and by the time that is left.
THEOREM OutcomeAlwaysRight == Spec => []ForwardOutcome
  <1>1. IndInv => ForwardOutcome
    BY DEF IndInv
  <1> QED  BY Invariance, <1>1, PTL

\* resolveLocal answers only from records that were there, and a question is
\* forwarded only when it found none of use, whatever is reloaded between its
\* two lookups.
THEOREM LocalAlwaysPresent == Spec => []LocalOnlyIfPresent
  <1>1. IndInv => LocalOnlyIfPresent
    BY DEF IndInv
  <1> QED  BY Invariance, <1>1, PTL

\* The counters of the status page always add up, with the questions under
\* way as the difference.
THEOREM CountersAlwaysAgree == Spec => []CountersAgree
  <1>1. IndInv => CountersAgree
    BY DEF IndInv
  <1> QED  BY Invariance, <1>1, PTL

=============================================================================
