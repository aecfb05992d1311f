---- MODULE KnockGateProofs ----
(***************************************************************************)
(* Theorems about KnockGate and the filter in front of it, for every value  *)
(* of their constants.  Each part has an inductive invariant of its own:    *)
(* ReplayInv for how often a nonce is accepted, CooldownInv for what        *)
(* recent_allows says of the set, OverflowInv for its growth, WaitInv for   *)
(* the refinement of SpaGate, and FilterInv for the filter's program.       *)
(***************************************************************************)
EXTENDS KnockGate, KnockFilter, FiniteSetTheorems, TLAPS

USE DEF Times, NoTime

\* The cooldown is positive and never longer than the set's timeout.
LEMMA CooldownBounds == Cooldown \in Nat /\ 1 <= Cooldown /\ Cooldown <= Ttl
  BY GateAssumption, SMT DEF Cooldown

\* Budgets stay within two acceptances per life of the server.
LEMMA PerLifeValue == PerLife \in {1, 2} /\ (PerLife = 1 <=> MaxAhead = 0)
  BY DEF PerLife

\* retain keeps a table a table, keeps no entry but an old one, and keeps
\* exactly those young enough.
LEMMA RetainedFacts ==
  ASSUME TypeOK
  PROVE  /\ Retained \in [Nonces -> Times]
         /\ \A n \in Nonces :
              /\ Retained[n] \in {seen[n], NoTime}
              /\ seen[n] # NoTime /\ Age(seen[n]) <= Window => Retained[n] = seen[n]
              /\ Retained[n] # NoTime => Age(seen[n]) <= Window
  BY DEF TypeOK, Retained, Retain, WithinWindow

\* Pruning recent_allows drops no entry that is still cooling down, and leaves
\* only such entries when the table had reached its capacity.
LEMMA PrunedFacts ==
  ASSUME TypeOK
  PROVE  /\ Pruned \in [Src -> Times]
         /\ \A s \in Src :
              /\ Pruned[s] \in {recent[s], NoTime}
              /\ CoolingDown(s) => Pruned[s] = recent[s]
         /\ Cardinality(Entries(Pruned)) >= RecentCap
              => \A s \in Entries(Pruned) : CoolingDown(s)
  BY DEF TypeOK, Pruned, Retain, CoolingDown, Entries

\* One step that examines a datagram is well typed.
LEMMA RecordFacts ==
  ASSUME TypeOK, NEW d \in net, Record(d)
  PROVE  /\ d \in Datagrams /\ d.nonce \in Nonces /\ d.ts \in Nat
         /\ seen' \in [Nonces -> Times]
         /\ total' \in [Nonces -> Nat]
         /\ count' \in [Nonces -> Nat]
         /\ last' \in [Nonces -> Times]
  BY RetainedFacts DEF TypeOK, Record, Examined, Datagrams

----------------------------------------------------------------------------
\* Every variable keeps its type: in particular the timeouts of the set stay
\* within Ttl and the sniffer waits for at most one well-formed nft call.
THEOREM TypeCorrect == Spec => []TypeOK
<1> USE GateAssumption
<1>1. Init => TypeOK
  BY DEF Init, TypeOK
<1>2. TypeOK /\ [Next]_vars => TypeOK'
  <2> SUFFICES ASSUME TypeOK, [Next]_vars PROVE TypeOK'
    OBVIOUS
  <2>1. ASSUME NEW n \in Nonces, NEW kind \in Kinds,
               NEW ts \in 0..(MaxTime + MaxAhead), Seal(n, kind, ts)
        PROVE  TypeOK'
    <3>1. [nonce |-> n, ts |-> ts, kind |-> kind] \in Datagrams
      BY DEF Datagrams
    <3> QED BY <2>1, <3>1 DEF TypeOK, Seal, histories
  <2>2. ASSUME NEW d \in net, SniffRefused(d) PROVE TypeOK'
    BY <2>2, RetainedFacts DEF TypeOK, SniffRefused, histories
  <2>3. ASSUME NEW d \in net, NEW s \in Src, SniffIgnored(d, s) PROVE TypeOK'
    <3>1. Record(d)
      BY <2>3 DEF SniffIgnored
    <3> QED BY <2>3, <3>1, RecordFacts DEF TypeOK, SniffIgnored, Record
  <2>4. ASSUME NEW d \in net, NEW s \in Src, SniffHonoured(d, s) PROVE TypeOK'
    <3>1. Record(d)
      BY <2>4 DEF SniffHonoured
    <3>2. pending' \in Allows
      BY <2>4, <3>1, RecordFacts DEF TypeOK, SniffHonoured, Allows
    <3>3. recent' \in [Src -> Times]
      BY <2>4, PrunedFacts DEF SniffHonoured
    <3> QED BY <3>1, <3>2, <3>3, RecordFacts DEF TypeOK, Record
  <2>5. CASE AllowOk
    <3>1. pending.src \in Src /\ pending.at \in Nat
      BY <2>5 DEF AllowOk, TypeOK, Allows
    <3>2. fw' \in [Src -> 0..Ttl] /\ timed' \in [Src -> Times]
      BY <2>5, <3>1 DEF AllowOk, SetAdds, TypeOK, Added
    <3> QED BY <2>5, <3>1, <3>2 DEF AllowOk, TypeOK
  <2>6. CASE AllowFailed
    BY <2>6 DEF AllowFailed, TypeOK, histories
  <2>7. CASE Restart
    <3>1. fw' \in [Src -> 0..Ttl] /\ timed' \in [Src -> Times]
      BY <2>7 DEF Restart, SetAdds, TypeOK, Allows, Added
    <3> QED BY <2>7, <3>1 DEF Restart, TypeOK
  <2>8. CASE Tick
    BY <2>8 DEF Tick, TypeOK, histories
  <2>9. ASSUME NEW t \in 0..MaxTime, StepClock(t) PROVE TypeOK'
    BY <2>9 DEF StepClock, TypeOK, histories
  <2>10. CASE UNCHANGED vars
    BY <2>10 DEF vars, histories, TypeOK
  <2> QED BY <2>1, <2>2, <2>3, <2>4, <2>5, <2>6, <2>7, <2>8, <2>9, <2>10 DEF Next
<1> QED BY <1>1, <1>2, PTL DEF Spec

----------------------------------------------------------------------------
(* Replay.  A nonce stays in the cache for a window after it was accepted,  *)
(* so a second acceptance comes later than that; the timestamp is then no   *)
(* longer ahead of the last acceptance, and a third would find it stale.    *)

\* seal never draws a nonce twice.
OneNonce == \A d, e \in net : d.nonce = e.nonce => d = e

\* What the cache and the history know of one nonce.
NonceInv(n) ==
    /\ count[n] <= PerLife
    /\ total[n] <= PerLife * restarts + count[n]
    /\ count[n] > 0 =>
         /\ last[n] \in 0..now
         /\ seen[n] = last[n] \/ now - last[n] > Window
         /\ \E d \in net : d.nonce = n
         /\ \A d \in net : d.nonce = n =>
              /\ d.ts - Window <= last[n]
              /\ count[n] = PerLife => d.ts <= last[n]

ReplayInv ==
    steps = 0 =>
      /\ \A d \in net : d.ts <= now + MaxAhead
      /\ \A n \in Nonces : NonceInv(n)

\* An acceptance of a nonce already accepted comes after the window, and only
\* while the budget of this life of the server lasts.
LEMMA SecondAcceptance ==
  ASSUME TypeOK, OneNonce, ReplayInv, steps = 0,
         NEW d \in net, Record(d), count[d.nonce] > 0
  PROVE  /\ now - last[d.nonce] > Window
         /\ count[d.nonce] < PerLife
<1> USE GateAssumption
<1> DEFINE n == d.nonce
<1>1. n \in Nonces /\ d.ts \in Nat
  BY DEF TypeOK, Datagrams
<1>2. NonceInv(n)
  BY <1>1 DEF ReplayInv
<1>3. last[n] \in 0..now /\ (seen[n] = last[n] \/ now - last[n] > Window)
  BY <1>2 DEF NonceInv
<1>4. now - last[n] > Window
  <2> SUFFICES ASSUME seen[n] = last[n], now - last[n] <= Window PROVE FALSE
    BY <1>3 DEF TypeOK
  <2>1. seen[n] # NoTime /\ Age(seen[n]) <= Window
    BY <1>3 DEF Age, TypeOK
  <2>2. Retained[n] # NoTime
    BY <1>1, <2>1, RetainedFacts
  <2> QED BY <2>2 DEF Record, Refused
<1>5. count[n] # PerLife
  <2> SUFFICES ASSUME count[n] = PerLife PROVE FALSE
    OBVIOUS
  <2>1. d.ts <= last[n]
    BY <1>2 DEF NonceInv
  <2>2. now - d.ts <= Window
    BY DEF Record, Examined, Fresh
  <2> QED BY <1>1, <1>3, <1>4, <2>1, <2>2 DEF TypeOK
<1> QED BY <1>1, <1>2, <1>4, <1>5, PerLifeValue DEF NonceInv, TypeOK

\* The verifier's acceptance of a datagram keeps the replay invariant.
LEMMA RecordReplayInv ==
  ASSUME TypeOK, OneNonce, ReplayInv, NEW d \in net, Record(d)
  PROVE  ReplayInv'
<1> USE GateAssumption, PerLifeValue
<1> SUFFICES ASSUME steps' = 0 PROVE ReplayInv'
  BY DEF ReplayInv
<1>1. steps = 0 /\ UNCHANGED <<now, net, restarts>>
  BY DEF Record
<1>2. \A e \in net' : e.ts <= now' + MaxAhead
  BY <1>1 DEF ReplayInv
<1>3. ASSUME NEW n \in Nonces PROVE NonceInv(n)'
  <2>1. NonceInv(n)
    BY <1>1 DEF ReplayInv
  <2>2. CASE n # d.nonce
    <3>1. count'[n] = count[n] /\ total'[n] = total[n] /\ last'[n] = last[n]
      BY <2>2 DEF Record, TypeOK
    <3>2. seen'[n] = Retained[n]
      BY <2>2, RetainedFacts DEF Record
    <3>3. count[n] > 0 => seen'[n] = last[n] \/ now - last[n] > Window
      BY <2>1, <3>2, RetainedFacts DEF NonceInv, Age, TypeOK
    <3> QED BY <1>1, <2>1, <3>1, <3>3 DEF NonceInv
  <2>3. CASE n = d.nonce
    <3>1. count'[n] = count[n] + 1 /\ total'[n] = total[n] + 1 /\ last'[n] = now
      BY <2>3 DEF Record, TypeOK
    <3>2. seen'[n] = now
      BY <2>3, RetainedFacts DEF Record
    <3>3. count[n] > 0 => now - last[n] > Window /\ count[n] < PerLife
      BY <1>1, <2>3, SecondAcceptance
    <3>4. count[n] + 1 <= PerLife
      BY <3>3 DEF TypeOK
    <3>5. total[n] + 1 <= PerLife * restarts + (count[n] + 1)
      BY <2>1 DEF NonceInv, TypeOK
    <3>6. \A e \in net : e.nonce = n => e = d
      BY <2>3 DEF OneNonce
    <3>7. d.ts - Window <= now
      <4>1. d.ts \in Nat
        BY RecordFacts
      <4>2. d.ts - now <= Window
        BY DEF Record, Examined, Fresh
      <4> QED BY <4>1, <4>2 DEF TypeOK
    <3>8. count[n] + 1 = PerLife => d.ts <= now
      <4>1. CASE count[n] = 0
        BY <1>1, <4>1, RecordFacts DEF ReplayInv, TypeOK
      <4>2. CASE count[n] > 0
        <5>1. d.ts - Window <= last[n] /\ last[n] \in 0..now
          BY <2>1, <2>3, <4>2 DEF NonceInv
        <5> QED BY <3>3, <4>2, <5>1, RecordFacts DEF TypeOK
      <4> QED BY <4>1, <4>2 DEF TypeOK
    <3>9. now \in 0..now
      BY DEF TypeOK
    <3> QED BY <1>1, <2>3, <3>1, <3>2, <3>4, <3>5, <3>6, <3>7, <3>8, <3>9 DEF NonceInv
  <2> QED BY <2>2, <2>3
<1> QED BY <1>2, <1>3 DEF ReplayInv

\* The other steps keep it: a new datagram has a nonce nobody has used, time
\* passes, retain drops only entries past the window, and a restart starts a
\* new life.
LEMMA ReplayInvStep ==
  ASSUME TypeOK, OneNonce, ReplayInv, [Next]_vars
  PROVE  OneNonce' /\ ReplayInv'
<1> USE GateAssumption, PerLifeValue
<1>1. ASSUME NEW n \in Nonces, NEW kind \in Kinds,
             NEW ts \in 0..(MaxTime + MaxAhead), Seal(n, kind, ts)
      PROVE  OneNonce' /\ ReplayInv'
  <2> DEFINE new == [nonce |-> n, ts |-> ts, kind |-> kind]
  <2>1. net' = net \cup {new} /\ \A d \in net : d.nonce # n
    BY <1>1 DEF Seal
  <2>2. UNCHANGED <<now, seen, restarts, steps, total, count, last>>
    BY <1>1 DEF Seal, histories
  <2>3. new.nonce = n /\ new.ts = ts /\ ts <= now + MaxAhead
    BY <1>1 DEF Seal, TypeOK
  <2>4. OneNonce'
    BY <2>1, <2>3 DEF OneNonce
  <2>5. ASSUME steps = 0, NEW m \in Nonces PROVE NonceInv(m)'
    <3>1. NonceInv(m)
      BY <2>5 DEF ReplayInv
    <3>2. CASE m = n
      BY <2>1, <2>2, <3>1, <3>2 DEF NonceInv
    <3>3. CASE m # n
      BY <2>1, <2>2, <2>3, <3>1, <3>3 DEF NonceInv
    <3> QED BY <3>2, <3>3
  <2>6. ReplayInv'
    BY <2>1, <2>2, <2>3, <2>5 DEF ReplayInv
  <2> QED BY <2>4, <2>6
<1>2. ASSUME NEW d \in net, SniffRefused(d) PROVE OneNonce' /\ ReplayInv'
  <2>1. seen' = Retained /\ UNCHANGED <<now, net, restarts, steps, total, count, last>>
    BY <1>2 DEF SniffRefused, histories
  <2>2. ASSUME steps = 0, NEW n \in Nonces PROVE NonceInv(n)'
    <3>1. NonceInv(n)
      BY <2>2 DEF ReplayInv
    <3>2. count[n] > 0 => seen'[n] = last[n] \/ now - last[n] > Window
      BY <2>1, <3>1, RetainedFacts DEF NonceInv, Age, TypeOK
    <3> QED BY <2>1, <3>1, <3>2 DEF NonceInv
  <2> QED BY <2>1, <2>2 DEF ReplayInv, OneNonce
<1>3. ASSUME NEW d \in net, Record(d) PROVE OneNonce' /\ ReplayInv'
  BY <1>3, RecordReplayInv DEF Record, OneNonce
<1>4. ASSUME UNCHANGED <<now, net, seen, restarts, steps, total, count, last>>
      PROVE  OneNonce' /\ ReplayInv'
  BY <1>4 DEF OneNonce, ReplayInv, NonceInv
<1>5. CASE Restart
  <2>1. /\ UNCHANGED <<now, net, steps, total>>
        /\ restarts' = restarts + 1
        /\ count' = [n \in Nonces |-> 0]
    BY <1>5 DEF Restart
  <2>2. ASSUME steps = 0, NEW n \in Nonces PROVE NonceInv(n)'
    <3>1. count[n] <= PerLife /\ total[n] <= PerLife * restarts + count[n]
      BY <2>2 DEF ReplayInv, NonceInv
    <3>2. PerLife * (restarts + 1) = PerLife * restarts + PerLife
      BY SMT DEF TypeOK
    <3>3. PerLife * restarts \in Int /\ PerLife * (restarts + 1) \in Int
      BY DEF TypeOK
    <3>4. total[n] <= PerLife * (restarts + 1) + 0
      BY <3>1, <3>2, <3>3 DEF TypeOK
    <3> QED BY <2>1, <3>4 DEF NonceInv
  <2> QED BY <2>1, <2>2 DEF ReplayInv, OneNonce
<1>6. CASE Tick
  <2>1. now' = now + 1 /\ UNCHANGED <<net, seen, restarts, steps, total, count, last>>
    BY <1>6 DEF Tick, histories
  <2>2. ASSUME steps = 0, NEW n \in Nonces PROVE NonceInv(n)'
    <3>1. NonceInv(n)
      BY <2>2 DEF ReplayInv
    <3> QED BY <2>1, <3>1 DEF NonceInv, TypeOK
  <2>3. ASSUME steps = 0, NEW d \in net PROVE d.ts <= now + 1 + MaxAhead
    <3>1. d.ts \in Nat
      BY DEF TypeOK, Datagrams
    <3> QED BY <2>3, <3>1 DEF ReplayInv, TypeOK
  <2> QED BY <2>1, <2>2, <2>3 DEF ReplayInv, OneNonce
<1>7. ASSUME NEW t \in 0..MaxTime, StepClock(t) PROVE OneNonce' /\ ReplayInv'
  BY <1>7 DEF StepClock, TypeOK, OneNonce, ReplayInv
<1>8. ASSUME NEW d \in net, NEW s \in Src, SniffIgnored(d, s) \/ SniffHonoured(d, s)
      PROVE  OneNonce' /\ ReplayInv'
  BY <1>3, <1>8 DEF SniffIgnored, SniffHonoured
<1>9. CASE AllowOk
  BY <1>4, <1>9 DEF AllowOk
<1>10. CASE AllowFailed
  BY <1>4, <1>10 DEF AllowFailed, histories
<1>11. CASE UNCHANGED vars
  BY <1>4, <1>11 DEF vars, histories
<1> QED
  BY <1>1, <1>2, <1>5, <1>6, <1>7, <1>8, <1>9, <1>10, <1>11 DEF Next

LEMMA ReplayInvInit ==
  ASSUME Init
  PROVE  OneNonce /\ ReplayInv
<1> USE GateAssumption, PerLifeValue
<1>1. \A n \in Nonces : NonceInv(n)
  BY DEF Init, NonceInv
<1> QED BY <1>1 DEF Init, OneNonce, ReplayInv

LEMMA ReplayInvariant == Spec => [](OneNonce /\ ReplayInv)
<1>1. Init => OneNonce /\ ReplayInv
  BY ReplayInvInit
<1>2. TypeOK /\ OneNonce /\ ReplayInv /\ [Next]_vars => OneNonce' /\ ReplayInv'
  BY ReplayInvStep
<1> QED BY <1>1, <1>2, TypeCorrect, PTL DEF Spec

\* A knock is accepted at most once in each life of the server when no client
\* clock runs ahead of the server's, and at most twice otherwise, however the
\* network duplicates and delays it, as long as the wall clock does not jump.
THEOREM KnockBudget == Spec => []ReplayBudget
<1>1. TypeOK /\ OneNonce /\ ReplayInv => ReplayBudget
  <2> SUFFICES ASSUME TypeOK, ReplayInv, steps = 0, NEW n \in Nonces
               PROVE  total[n] <= PerLife * (restarts + 1)
    BY DEF ReplayBudget
  <2> USE GateAssumption, PerLifeValue
  <2>1. count[n] <= PerLife /\ total[n] <= PerLife * restarts + count[n]
    BY DEF ReplayInv, NonceInv
  <2>2. PerLife * (restarts + 1) = PerLife * restarts + PerLife
    BY SMT DEF TypeOK
  <2>3. PerLife * restarts \in Int /\ PerLife * (restarts + 1) \in Int
    BY DEF TypeOK
  <2> QED BY <2>1, <2>2, <2>3 DEF TypeOK
<1> QED BY <1>1, TypeCorrect, ReplayInvariant, PTL

\* Under the conditions README.md:283 asks for (NTP on both ends: no client ahead
\* of the server, and its clock has not jumped) a server that is not restarted
\* rejects every replay, as THREAT_MODEL.md promises.
THEOREM NoReplay ==
  ASSUME MaxAhead = 0, MaxRestarts = 0
  PROVE  Spec => []NeverReplayed
<1>1. TypeOK /\ ReplayBudget => NeverReplayed
  <2> SUFFICES ASSUME TypeOK, ReplayBudget, steps = 0, NEW n \in Nonces
               PROVE  total[n] <= 1
    BY DEF NeverReplayed
  <2>1. restarts = 0
    BY DEF TypeOK
  <2> QED BY <2>1, PerLifeValue DEF ReplayBudget
<1> QED BY <1>1, TypeCorrect, KnockBudget, PTL

\* One server process never accepts a nonce again within the window.
THEOREM KnockSpacing == Spec => ReplaySpacing
<1> DEFINE Spaced ==
      \A n \in Nonces :
        (steps = 0 /\ count[n] > 0 /\ count'[n] > count[n])
            => now - last[n] > Window
<1>1. TypeOK /\ OneNonce /\ ReplayInv /\ [Next]_vars => [Spaced]_vars
  <2> SUFFICES ASSUME TypeOK, OneNonce, ReplayInv, [Next]_vars,
                      NEW n \in Nonces,
                      steps = 0, count[n] > 0, count'[n] > count[n]
               PROVE  now - last[n] > Window
    OBVIOUS
  <2>1. \E d \in net : Record(d) /\ d.nonce = n
    <3>1. ASSUME NEW d \in net, Record(d) PROVE d.nonce = n
      BY <3>1 DEF Record, TypeOK
    <3>2. count' # count /\ ~Restart
      BY DEF Restart, TypeOK
    <3>3. \E d \in net, s \in Src : SniffIgnored(d, s) \/ SniffHonoured(d, s)
      BY <3>2 DEF Next, vars, histories, Seal, SniffRefused, AllowOk, AllowFailed,
                  Tick, StepClock
    <3> QED BY <3>1, <3>3 DEF SniffIgnored, SniffHonoured
  <2> QED BY <2>1, SecondAcceptance
<1> QED BY <1>1, TypeCorrect, ReplayInvariant, PTL DEF Spec, ReplaySpacing

----------------------------------------------------------------------------
(* The cache. *)

\* An acceptance adds one entry to a cache that was below its capacity.
LEMMA RecordCacheBounded ==
  ASSUME TypeOK, NEW d \in net, Record(d)
  PROVE  CacheBounded'
<1> USE GateAssumption
<1> DEFINE kept == Entries(Retained)
<1>1. d.nonce \in Nonces
  BY RecordFacts
<1>2. IsFiniteSet(kept) /\ Cardinality(kept) \in Nat
  <2>1. kept \subseteq Nonces
    BY RetainedFacts DEF Entries
  <2> QED BY <2>1, FS_Subset, FS_CardinalityType
<1>3. Cardinality(kept) < ReplayCap
  BY <1>2 DEF Record, Refused
<1>4. Entries(seen)' = kept \cup {d.nonce}
  BY <1>1, RetainedFacts DEF Record, Entries, TypeOK
<1>5. Cardinality(kept \cup {d.nonce}) =
        IF d.nonce \in kept THEN Cardinality(kept) ELSE Cardinality(kept) + 1
  <2> HIDE DEF kept
  <2> QED BY <1>2, FS_AddElement
<1> HIDE DEF kept
<1>6. Cardinality(kept \cup {d.nonce}) <= ReplayCap
  BY <1>2, <1>3, <1>5
<1> QED BY <1>4, <1>6 DEF CacheBounded

\* The replay cache never holds more than REPLAY_CAP nonces.
THEOREM CacheStaysBounded == Spec => []CacheBounded
<1> USE GateAssumption
<1>1. Init => CacheBounded
  <2> SUFFICES ASSUME Init PROVE CacheBounded
    OBVIOUS
  <2>1. Entries(seen) = {}
    BY DEF Init, Entries
  <2> QED BY <2>1, FS_EmptySet DEF CacheBounded
<1>2. TypeOK /\ CacheBounded /\ [Next]_vars => CacheBounded'
  <2> SUFFICES ASSUME TypeOK, CacheBounded, [Next]_vars PROVE CacheBounded'
    OBVIOUS
  <2>1. CASE UNCHANGED seen
    BY <2>1 DEF CacheBounded, Entries
  <2>2. ASSUME NEW d \in net, SniffRefused(d) PROVE CacheBounded'
    <3>1. Entries(seen)' \subseteq Entries(seen) /\ Entries(seen) \subseteq Nonces
      BY <2>2, RetainedFacts DEF SniffRefused, Entries, TypeOK
    <3>2. IsFiniteSet(Entries(seen))
      BY <3>1, FS_Subset
    <3>3. Cardinality(Entries(seen)') <= Cardinality(Entries(seen))
      BY <3>1, <3>2, FS_Subset
    <3>4. Cardinality(Entries(seen)) \in Nat /\ Cardinality(Entries(seen)') \in Nat
      BY <3>1, <3>2, FS_Subset, FS_CardinalityType
    <3> QED BY <3>3, <3>4 DEF CacheBounded
  <2>3. ASSUME NEW d \in net, NEW s \in Src, SniffIgnored(d, s) \/ SniffHonoured(d, s) PROVE CacheBounded'
    BY <2>3, RecordCacheBounded DEF SniffIgnored, SniffHonoured
  <2>4. CASE Restart
    <3>1. Entries(seen)' = {}
      BY <2>4 DEF Restart, Entries
    <3> QED BY <3>1, FS_EmptySet DEF CacheBounded
  <2> QED BY <2>1, <2>2, <2>3, <2>4 DEF Next, vars, histories, Seal, AllowOk,
             AllowFailed, Tick, StepClock
<1> QED BY <1>1, <1>2, TypeCorrect, PTL DEF Spec

----------------------------------------------------------------------------
(* The cooldown.  What recent_allows says of a source is tied to what the   *)
(* kernel's set says of it (OpenInv) and to its last allow (GrantInv).      *)

PendingInv == pending # NoAllow => pending.at <= now

\* A live element has left what its timer has not yet used up.
TimerInv ==
    \A s \in Src : fw[s] > 0 =>
        timed[s] # NoTime /\ timed[s] <= now /\ fw[s] = Ttl - (now - timed[s])

\* An entry of recent_allows vouches for the time its set element has left,
\* unless the allow it records found the element there and its timer running.
OpenInv ==
    \A s \in Src : recent[s] # NoTime =>
        /\ recent[s] <= now
        /\ timed[s] # NoTime
        /\ \/ fw[s] >= Ttl - (now - recent[s])
           \/ ~NftRefreshes /\ recent[s] - timed[s] < Ttl

\* A source is missing from recent_allows only once its cooldown is over, and
\* the nft call under way is one the cooldown permits.
GrantInv ==
    /\ \A s \in Src : granted[s] # NoTime =>
         /\ granted[s] <= now
         /\ recent[s] = granted[s] \/ now - granted[s] >= Cooldown
    /\ pending # NoAllow /\ granted[pending.src] # NoTime
         => pending.at - granted[pending.src] >= Cooldown

CooldownInv == steps = 0 => PendingInv /\ GrantInv /\ TimerInv /\ OpenInv

\* Starting nft for a source that is not cooling down keeps the invariant.
LEMMA HonouredCooldownInv ==
  ASSUME TypeOK, CooldownInv, NEW d \in net, NEW a \in Src, SniffHonoured(d, a)
  PROVE  CooldownInv'
<1> USE GateAssumption, CooldownBounds
<1> SUFFICES ASSUME steps' = 0 PROVE CooldownInv'
  BY DEF CooldownInv
<1>1. Record(d) /\ ~CoolingDown(a) /\ recent' = Pruned
  BY DEF SniffHonoured
<1>2. steps = 0 /\ UNCHANGED <<now, fw, granted, timed>>
  BY <1>1 DEF Record
<1>3. pending' = [nonce |-> d.nonce, src |-> a, at |-> now]
  BY DEF SniffHonoured
<1>4. PendingInv'
  BY <1>2, <1>3 DEF PendingInv, TypeOK
<1>5. TimerInv' /\ OpenInv'
  BY <1>1, <1>2, PrunedFacts DEF CooldownInv, TimerInv, OpenInv
<1>6. ASSUME NEW s \in Src, granted[s] # NoTime
      PROVE  granted[s] <= now /\ (recent'[s] = granted[s] \/ now - granted[s] >= Cooldown)
  <2>1. granted[s] <= now /\ (recent[s] = granted[s] \/ now - granted[s] >= Cooldown)
    BY <1>2, <1>6 DEF CooldownInv, GrantInv
  <2>2. recent[s] = granted[s] /\ now - granted[s] < Cooldown => CoolingDown(s)
    BY <1>6, <2>1 DEF CoolingDown, InCooldown, Age, TypeOK
  <2> QED BY <1>1, <2>1, <2>2, PrunedFacts DEF TypeOK
<1>7. granted[a] # NoTime => now - granted[a] >= Cooldown
  <2>1. recent[a] = granted[a] /\ granted[a] # NoTime
          => Age(granted[a]) >= Cooldown
    BY <1>1, <1>3 DEF CoolingDown, InCooldown, Age, TypeOK
  <2>2. granted[a] # NoTime => granted[a] <= now
    BY <1>2, <1>3 DEF CooldownInv, GrantInv
  <2> QED BY <1>2, <1>3, <2>1, <2>2 DEF CooldownInv, GrantInv, Age, TypeOK
<1>8. GrantInv'
  BY <1>2, <1>3, <1>6, <1>7 DEF GrantInv
<1> QED BY <1>4, <1>5, <1>8 DEF CooldownInv

\* A finished nft call records what the set now says.
LEMMA AllowCooldownInv ==
  ASSUME TypeOK, CooldownInv, AllowOk
  PROVE  CooldownInv'
<1> USE GateAssumption, CooldownBounds
<1> SUFFICES ASSUME steps' = 0 PROVE CooldownInv'
  BY DEF CooldownInv
<1>1. steps = 0 /\ now' = now /\ pending' = NoAllow
  BY DEF AllowOk
<1>2. pending.src \in Src /\ pending.at \in Nat /\ pending.at <= now
  BY <1>1 DEF AllowOk, TypeOK, Allows, CooldownInv, PendingInv
<1>3. PendingInv'
  BY <1>1 DEF PendingInv
<1>4. TimerInv' /\ OpenInv'
  <2> SUFFICES ASSUME NEW s \in Src
               PROVE  /\ fw'[s] > 0 =>
                           /\ timed'[s] # NoTime /\ timed'[s] <= now
                           /\ fw'[s] = Ttl - (now - timed'[s])
                      /\ recent'[s] # NoTime =>
                           /\ recent'[s] <= now
                           /\ timed'[s] # NoTime
                           /\ \/ fw'[s] >= Ttl - (now - recent'[s])
                              \/ ~NftRefreshes /\ recent'[s] - timed'[s] < Ttl
    BY <1>1 DEF TimerInv, OpenInv
  <2>1. /\ fw[s] \in 0..Ttl /\ timed[s] \in Times /\ now \in Nat
        /\ fw[s] > 0 => /\ timed[s] # NoTime /\ timed[s] <= now
                        /\ fw[s] = Ttl - (now - timed[s])
    BY <1>1 DEF TypeOK, CooldownInv, TimerInv
  <2>2. CASE s = pending.src
    <3>1. recent'[s] = pending.at
      BY <1>2, <2>2 DEF AllowOk, TypeOK
    <3>2. CASE StartsTimer(s)
      <4>1. fw'[s] = Ttl /\ timed'[s] = now
        BY <2>2, <3>2 DEF AllowOk, SetAdds, Added, TypeOK
      <4> QED BY <1>2, <2>1, <3>1, <4>1
    <3>3. CASE ~StartsTimer(s)
      <4>1. fw'[s] = fw[s] /\ timed'[s] = timed[s] /\ fw[s] > 0 /\ ~NftRefreshes
        BY <2>1, <2>2, <3>3 DEF AllowOk, SetAdds, Added, StartsTimer
      <4> QED BY <1>2, <2>1, <3>1, <4>1
    <3> QED BY <3>2, <3>3
  <2>3. CASE s # pending.src
    <3>1. recent'[s] = recent[s] /\ fw'[s] = fw[s] /\ timed'[s] = timed[s]
      BY <1>2, <2>3 DEF AllowOk, SetAdds, Added, TypeOK
    <3> QED BY <1>1, <2>1, <3>1 DEF CooldownInv, OpenInv
  <2> QED BY <2>2, <2>3
<1>5. ASSUME NEW s \in Src, granted'[s] # NoTime
      PROVE  /\ granted'[s] <= now
             /\ recent'[s] = granted'[s] \/ now - granted'[s] >= Cooldown
  <2>1. CASE s = pending.src
    BY <1>2, <2>1 DEF AllowOk, TypeOK
  <2>2. CASE s # pending.src
    <3>1. recent'[s] = recent[s] /\ granted'[s] = granted[s]
      BY <1>2, <2>2 DEF AllowOk, TypeOK
    <3> QED BY <1>1, <1>5, <3>1 DEF CooldownInv, GrantInv
  <2> QED BY <2>1, <2>2
<1> QED BY <1>1, <1>3, <1>4, <1>5 DEF CooldownInv, GrantInv

\* Every step keeps the cooldown invariant: in particular a second takes as
\* much from a set element as it adds to the age of the recent_allows entry.
LEMMA CooldownStep ==
  ASSUME TypeOK, CooldownInv, [Next]_vars
  PROVE  CooldownInv'
<1> USE GateAssumption, CooldownBounds
<1>1. ASSUME UNCHANGED <<now, recent, fw, granted, timed, steps>>,
             pending' = pending \/ pending' = NoAllow
      PROVE  CooldownInv'
  BY <1>1 DEF CooldownInv, PendingInv, GrantInv, TimerInv, OpenInv
<1>2. ASSUME NEW n \in Nonces, NEW kind \in Kinds,
             NEW ts \in 0..(MaxTime + MaxAhead), Seal(n, kind, ts)
      PROVE  CooldownInv'
  BY <1>1, <1>2 DEF Seal, histories
<1>3. ASSUME NEW d \in net, SniffRefused(d) PROVE CooldownInv'
  BY <1>1, <1>3 DEF SniffRefused, histories
<1>4. ASSUME NEW d \in net, NEW s \in Src, SniffIgnored(d, s) PROVE CooldownInv'
  BY <1>1, <1>4 DEF SniffIgnored, Record
<1>5. ASSUME NEW d \in net, NEW s \in Src, SniffHonoured(d, s) PROVE CooldownInv'
  BY <1>5, HonouredCooldownInv
<1>6. CASE AllowOk
  BY <1>6, AllowCooldownInv
<1>7. CASE AllowFailed
  BY <1>1, <1>7 DEF AllowFailed, histories
<1>8. CASE Restart
  <2> SUFFICES ASSUME steps = 0 PROVE CooldownInv'
    BY <1>8 DEF Restart, CooldownInv
  <2>1. /\ pending' = NoAllow /\ now' = now
        /\ \A s \in Src : recent'[s] = NoTime /\ granted'[s] = NoTime
    BY <1>8 DEF Restart
  <2>2. TimerInv'
    <3>1. CASE UNCHANGED <<fw, timed>>
      BY <2>1, <3>1 DEF CooldownInv, TimerInv
    <3>2. CASE pending # NoAllow /\ SetAdds(pending.src)
      <4>1. pending.src \in Src
        BY <3>2 DEF TypeOK, Allows
      <4>2. ASSUME NEW s \in Src
            PROVE  \/ fw'[s] = Ttl /\ timed'[s] = now
                   \/ fw'[s] = fw[s] /\ timed'[s] = timed[s]
        BY <3>2, <4>1 DEF SetAdds, Added, TypeOK
      <4> QED BY <2>1, <4>2 DEF CooldownInv, TimerInv, TypeOK
    <3> QED BY <1>8, <3>1, <3>2 DEF Restart
  <2> QED BY <2>1, <2>2 DEF CooldownInv, PendingInv, GrantInv, OpenInv
<1>9. CASE Tick
  <2> SUFFICES ASSUME steps = 0 PROVE CooldownInv'
    BY <1>9 DEF Tick, CooldownInv
  <2>1. /\ now' = now + 1 /\ UNCHANGED <<recent, pending, granted, timed>>
        /\ fw' = [s \in Src |-> IF fw[s] > 0 THEN fw[s] - 1 ELSE 0]
    BY <1>9 DEF Tick, histories
  <2>2. PendingInv'
    <3>1. pending # NoAllow => pending.at \in Nat
      BY DEF TypeOK, Allows
    <3> QED BY <2>1, <3>1 DEF CooldownInv, PendingInv, TypeOK
  <2>3. GrantInv'
    BY <2>1 DEF CooldownInv, GrantInv, TypeOK
  <2>4. TimerInv' /\ OpenInv'
    <3> SUFFICES ASSUME NEW s \in Src
                 PROVE  /\ fw'[s] > 0 =>
                             /\ timed[s] # NoTime /\ timed[s] <= now'
                             /\ fw'[s] = Ttl - (now' - timed[s])
                        /\ recent[s] # NoTime =>
                             /\ recent[s] <= now'
                             /\ timed[s] # NoTime
                             /\ \/ fw'[s] >= Ttl - (now' - recent[s])
                                \/ ~NftRefreshes /\ recent[s] - timed[s] < Ttl
      BY <2>1 DEF TimerInv, OpenInv
    <3>1. /\ recent[s] \in Times /\ timed[s] \in Times
          /\ fw[s] \in 0..Ttl /\ now \in Nat
      BY DEF TypeOK
    <3>2. /\ fw[s] > 0 => /\ timed[s] # NoTime /\ timed[s] <= now
                          /\ fw[s] = Ttl - (now - timed[s])
          /\ recent[s] # NoTime =>
               /\ recent[s] <= now
               /\ timed[s] # NoTime
               /\ \/ fw[s] >= Ttl - (now - recent[s])
                  \/ ~NftRefreshes /\ recent[s] - timed[s] < Ttl
      BY DEF CooldownInv, TimerInv, OpenInv
    <3> QED BY <2>1, <3>1, <3>2
  <2> QED BY <2>2, <2>3, <2>4 DEF CooldownInv
<1>10. ASSUME NEW t \in 0..MaxTime, StepClock(t) PROVE CooldownInv'
  BY <1>10 DEF StepClock, CooldownInv, TypeOK
<1>11. CASE UNCHANGED vars
  BY <1>1, <1>11 DEF vars, histories
<1> QED BY <1>2, <1>3, <1>4, <1>5, <1>6, <1>7, <1>8, <1>9, <1>10, <1>11 DEF Next

LEMMA CooldownInvariant == Spec => []CooldownInv
<1>1. Init => CooldownInv
  BY DEF Init, CooldownInv, PendingInv, GrantInv, TimerInv, OpenInv
<1>2. TypeOK /\ CooldownInv /\ [Next]_vars => CooldownInv'
  BY CooldownStep
<1> QED BY <1>1, <1>2, TypeCorrect, PTL DEF Spec

\* On every kernel, a good knock the sniffer accepts without running nft finds
\* the port open to the address it came from, for the rest of the cooldown; or
\* the kernel did not restart the timer of an element added again, and has let
\* it run out less than a cooldown before.
THEOREM IgnoredKnockFindsPortOpen == Spec => IgnoredMeansOpen
<1> USE GateAssumption
<1> DEFINE Harmless ==
      \A d \in net, s \in Src :
        steps = 0 /\ d.kind = "good" /\ SniffIgnored(d, s) =>
            \/ fw[s] > Ttl - Cooldown
            \/ ~NftRefreshes /\ timed[s] # NoTime /\ now - timed[s] < Ttl + Cooldown
<1>1. TypeOK /\ CooldownInv => Harmless
  <2> SUFFICES ASSUME TypeOK, CooldownInv, NEW d \in net, NEW s \in Src,
                      steps = 0, d.kind = "good", SniffIgnored(d, s)
               PROVE  \/ fw[s] > Ttl - Cooldown
                      \/ /\ ~NftRefreshes /\ timed[s] # NoTime
                         /\ now - timed[s] < Ttl + Cooldown
    OBVIOUS
  <2>1. recent[s] # NoTime /\ Age(recent[s]) < Cooldown
    BY DEF SniffIgnored, CoolingDown, InCooldown
  <2>2. recent[s] <= now /\ timed[s] # NoTime
    BY <2>1 DEF CooldownInv, OpenInv
  <2>3. recent[s] \in Nat /\ timed[s] \in Nat /\ fw[s] \in Nat /\ now \in Nat
    BY <2>1, <2>2 DEF TypeOK
  <2>4. now - recent[s] < Cooldown
    BY <2>1, <2>2, <2>3, CooldownBounds DEF Age
  <2>5. \/ fw[s] >= Ttl - (now - recent[s])
        \/ ~NftRefreshes /\ recent[s] - timed[s] < Ttl
    BY <2>1 DEF CooldownInv, OpenInv
  <2> QED BY <2>2, <2>3, <2>4, <2>5, CooldownBounds
<1> QED
  BY <1>1, TypeCorrect, CooldownInvariant, PTL DEF Spec, IgnoredMeansOpen

\* Successful nft calls for one source are a cooldown apart, pruning included.
THEOREM AllowsAreSpaced == Spec => AllowSpacing
<1> DEFINE Apart ==
      \A s \in Src :
        (/\ steps = 0
         /\ granted[s] # NoTime
         /\ granted'[s] # granted[s]
         /\ granted'[s] # NoTime)
            => granted'[s] - granted[s] >= Cooldown
<1>1. TypeOK /\ CooldownInv /\ [Next]_vars => [Apart]_vars
  <2> SUFFICES ASSUME TypeOK, CooldownInv, [Next]_vars, NEW s \in Src, steps = 0,
                      granted[s] # NoTime, granted'[s] # granted[s],
                      granted'[s] # NoTime
               PROVE  granted'[s] - granted[s] >= Cooldown
    OBVIOUS
  <2>1. AllowOk
    BY DEF Next, vars, histories, Seal, SniffRefused, SniffIgnored, SniffHonoured,
           Record, AllowFailed, Restart, Tick, StepClock
  <2>2. s = pending.src /\ granted'[s] = pending.at /\ pending # NoAllow
    BY <2>1 DEF AllowOk, TypeOK
  <2> QED BY <2>2 DEF CooldownInv, GrantInv
<1> QED BY <1>1, TypeCorrect, CooldownInvariant, PTL DEF Spec, AllowSpacing

\* recent_allows passes RECENT_ALLOW_CAP only for a source added while all
\* the others are cooling down.
OverflowInv ==
    pending # NoAllow /\ Cardinality(Entries(recent)) >= RecentCap
        => \A r \in Entries(recent) : pending.at - recent[r] < Cooldown

THEOREM OverflowIsCoolingDown == Spec => RecentOverflow
<1> USE GateAssumption
<1>1. Init => OverflowInv
  BY DEF Init, OverflowInv
<1>2. TypeOK /\ OverflowInv /\ [Next]_vars => OverflowInv'
  <2> SUFFICES ASSUME TypeOK, OverflowInv, [Next]_vars PROVE OverflowInv'
    OBVIOUS
  <2>1. CASE pending' = NoAllow
    BY <2>1 DEF OverflowInv
  <2>2. CASE UNCHANGED <<pending, recent>>
    BY <2>2 DEF OverflowInv, Entries
  <2>3. ASSUME NEW d \in net, NEW s \in Src, SniffHonoured(d, s) PROVE OverflowInv'
    <3> SUFFICES ASSUME Cardinality(Entries(recent)') >= RecentCap,
                        NEW r \in Entries(recent)'
                 PROVE  now - recent'[r] < Cooldown
      BY <2>3 DEF SniffHonoured, OverflowInv
    <3>1. recent' = Pruned /\ Entries(recent)' = Entries(Pruned)
      BY <2>3 DEF SniffHonoured, Entries
    <3>2. CoolingDown(r) /\ r \in Src /\ recent'[r] = recent[r]
      BY <3>1, PrunedFacts DEF Entries
    <3>3. recent[r] \in Nat /\ Age(recent[r]) < Cooldown
      BY <3>2 DEF CoolingDown, InCooldown, TypeOK
    <3> QED BY <3>2, <3>3, CooldownBounds DEF Age, TypeOK
  <2> QED BY <2>1, <2>2, <2>3 DEF Next, vars, histories, Seal, SniffRefused,
             SniffIgnored, Record, AllowOk, AllowFailed, Restart, Tick, StepClock
<1> DEFINE Excused ==
      \A s \in Src :
        (/\ recent[s] = NoTime
         /\ recent'[s] # NoTime
         /\ Cardinality(Entries(recent)) >= RecentCap)
            => \A r \in Entries(recent) : recent'[s] - recent[r] < Cooldown
<1>3. TypeOK /\ OverflowInv /\ [Next]_vars => [Excused]_vars
  <2> SUFFICES ASSUME TypeOK, OverflowInv, [Next]_vars, NEW s \in Src,
                      recent[s] = NoTime, recent'[s] # NoTime,
                      Cardinality(Entries(recent)) >= RecentCap,
                      NEW r \in Entries(recent)
               PROVE  recent'[s] - recent[r] < Cooldown
    OBVIOUS
  <2>1. ASSUME NEW d \in net, NEW q \in Src PROVE ~SniffHonoured(d, q)
    BY PrunedFacts DEF SniffHonoured
  <2>2. AllowOk
    BY <2>1 DEF Next, vars, histories, Seal, SniffRefused, SniffIgnored,
                AllowFailed, Restart, Tick, StepClock
  <2>3. recent'[s] = pending.at /\ pending # NoAllow
    BY <2>2 DEF AllowOk, TypeOK
  <2> QED BY <2>3 DEF OverflowInv
<1> QED BY <1>1, <1>2, <1>3, TypeCorrect, PTL DEF Spec, RecentOverflow

----------------------------------------------------------------------------
(* Refinement. *)

\* The sniffer waits for nft on behalf of a knock it really received for the
\* gated port.
WaitInv ==
    pending # NoAllow =>
        \E d \in net : d.kind = "good" /\ d.nonce = pending.nonce

LEMMA WaitInvariant == Spec => []WaitInv
<1>1. Init => WaitInv
  BY DEF Init, WaitInv
<1>2. WaitInv /\ [Next]_vars => WaitInv'
  <2> SUFFICES ASSUME WaitInv, [Next]_vars PROVE WaitInv'
    OBVIOUS
  <2>1. CASE pending' = NoAllow
    BY <2>1 DEF WaitInv
  <2>2. CASE pending' = pending /\ net \subseteq net'
    BY <2>2 DEF WaitInv
  <2>3. ASSUME NEW d \in net, NEW s \in Src, SniffHonoured(d, s) PROVE WaitInv'
    <3>1. d \in net' /\ d.kind = "good"
      BY <2>3 DEF SniffHonoured, Record
    <3>2. pending'.nonce = d.nonce
      BY <2>3 DEF SniffHonoured
    <3> QED BY <3>1, <3>2 DEF WaitInv
  <2> QED BY <2>1, <2>2, <2>3 DEF Next, vars, histories, Seal, SniffRefused,
             SniffIgnored, Record, AllowOk, AllowFailed, Restart, Tick, StepClock
<1> QED BY <1>1, <1>2, PTL DEF Spec

\* A knock that has been accepted was within its budget.
LEMMA WithinBudget ==
  ASSUME steps = 0, TypeOK, ReplayBudget, NEW n \in Nonces
  PROVE  total[n] \in Nat /\ total[n] <= PerLife * (MaxRestarts + 1)
<1> USE GateAssumption, PerLifeValue
<1>1. restarts \in 0..MaxRestarts
  BY DEF TypeOK
<1>2. total[n] <= PerLife * (restarts + 1)
  BY <1>1 DEF ReplayBudget
<1>3. CASE PerLife = 1
  BY <1>1, <1>2, <1>3 DEF TypeOK
<1>4. CASE PerLife = 2
  BY <1>1, <1>2, <1>4 DEF TypeOK
<1> QED BY <1>3, <1>4

\* What an nft call that has run its course, or was abandoned, leaves of the
\* bookkeeping of SpaGate: one knock more is spent.
LEMMA CallEnds ==
  ASSUME steps = 0, TypeOK, ReplayBudget, WaitInv,
         pending # NoAllow, pending' = NoAllow, UNCHANGED <<net, total>>
  PROVE  /\ pending.nonce \in Nonces /\ pending.src \in Src
         /\ pending.nonce \in Issued
         /\ Spent[pending.nonce] < PerLife * (MaxRestarts + 1)
         /\ Spent' = [Spent EXCEPT ![pending.nonce] = @ + 1]
<1> USE GateAssumption, PerLifeValue
<1>1. pending.nonce \in Nonces /\ pending.src \in Src
  BY DEF TypeOK, Allows
<1>2. pending.nonce \in Issued
  BY DEF WaitInv, Issued
<1>3. total[pending.nonce] \in Nat
      /\ total[pending.nonce] <= PerLife * (MaxRestarts + 1)
  BY <1>1, WithinBudget
<1>4. PerLife * (MaxRestarts + 1) \in Int
  OBVIOUS
<1>5. Spent[pending.nonce] = total[pending.nonce] - 1
  BY <1>1 DEF Spent
<1>6. Spent' = [Spent EXCEPT ![pending.nonce] = @ + 1]
  <2>1. Spent' = [n \in Nonces |-> total[n]]
    BY DEF Spent
  <2>2. \A n \in Nonces : n # pending.nonce => Spent[n] = total[n]
    BY DEF Spent
  <2> QED BY <1>1, <1>3, <1>5, <2>1, <2>2 DEF Spent
<1> QED BY <1>1, <1>2, <1>3, <1>4, <1>5, <1>6

\* Adding an element opens the port to its source and to nobody else.
LEMMA AddedOpens ==
  ASSUME TypeOK, NEW s \in Src, fw' = Added(s)
  PROVE  {r \in Src : fw'[r] > 0} = {r \in Src : fw[r] > 0} \cup {s}
  BY GateAssumption DEF TypeOK, Added, StartsTimer

\* The sniffer's decision to run nft spends nothing yet.
LEMMA HonouredStutters ==
  ASSUME TypeOK, NEW d \in net, NEW s \in Src, SniffHonoured(d, s)
  PROVE  UNCHANGED Gate!vars
<1>1. /\ pending = NoAllow /\ d.nonce \in Nonces
      /\ UNCHANGED <<net, fw>>
      /\ total' = [total EXCEPT ![d.nonce] = @ + 1]
  BY RecordFacts DEF SniffHonoured, Record, Examined
<1>2. pending'.nonce = d.nonce /\ pending'.at = now
  BY DEF SniffHonoured
<1>3. pending' # NoAllow
  <2>1. NoAllow.at = NoTime
    BY DEF NoAllow
  <2> QED BY <1>2, <2>1 DEF TypeOK
<1>4. Spent = [n \in Nonces |-> total[n]]
  BY <1>1 DEF Spent
<1>5. Spent' = [n \in Nonces |-> total[n]]
  <2>1. \A n \in Nonces : total'[n] = IF n = d.nonce THEN total[n] + 1 ELSE total[n]
    BY <1>1 DEF TypeOK
  <2> QED BY <1>1, <1>2, <1>3, <2>1 DEF Spent, TypeOK
<1> QED BY <1>1, <1>4, <1>5 DEF Gate!vars, Issued

\* A knock that is accepted and ignored is spent on the spot.
LEMMA IgnoredWastes ==
  ASSUME TypeOK, steps' = 0, ReplayBudget', TypeOK', NEW d \in net, NEW s \in Src,
         SniffIgnored(d, s)
  PROVE  Gate!Waste(d.nonce)
<1> USE GateAssumption, PerLifeValue
<1>1. /\ pending = NoAllow /\ pending' = NoAllow /\ d.nonce \in Nonces
      /\ UNCHANGED <<net, fw, restarts, steps>>
      /\ total' = [total EXCEPT ![d.nonce] = @ + 1]
  BY RecordFacts DEF SniffIgnored, Record, Examined
<1>2. Spent = total /\ Spent' = total'
  BY <1>1 DEF Spent, TypeOK
<1>3. total[d.nonce] < PerLife * (MaxRestarts + 1)
  <2>1. total'[d.nonce] = total[d.nonce] + 1 /\ total[d.nonce] \in Nat
    BY <1>1 DEF TypeOK
  <2>2. restarts' \in 0..MaxRestarts
    BY DEF TypeOK
  <2>3. total'[d.nonce] <= PerLife * (restarts' + 1)
    BY <1>1, <2>2 DEF ReplayBudget
  <2>4. CASE PerLife = 1
    BY <2>1, <2>2, <2>3, <2>4
  <2>5. CASE PerLife = 2
    BY <2>1, <2>2, <2>3, <2>5
  <2> QED BY <2>4, <2>5
<1> QED BY <1>1, <1>2, <1>3 DEF Gate!Waste, Issued

\* An nft call that changed the set is an opening.
LEMMA AddedIsOpen ==
  ASSUME steps = 0, TypeOK, ReplayBudget, WaitInv,
         pending # NoAllow, pending' = NoAllow, UNCHANGED <<net, total>>,
         fw' = Added(pending.src)
  PROVE  Gate!Next
<1>1. Gate!Open(pending.nonce, pending.src)
  BY CallEnds, AddedOpens DEF Gate!Open, Issued
<1>2. pending.nonce \in Nonces /\ pending.src \in Src
  BY CallEnds
<1>3. \E k \in Nonces, s \in Src : Gate!Open(k, s)
  BY <1>1, <1>2, Zenon DEF Gate!Open
<1> QED BY <1>3, Zenon DEF Gate!Next

\* An nft call that changed nothing, or was abandoned, wastes its knock.
LEMMA AbandonedIsWaste ==
  ASSUME steps = 0, TypeOK, ReplayBudget, WaitInv,
         pending # NoAllow, pending' = NoAllow, UNCHANGED <<net, total, fw>>
  PROVE  Gate!Next
<1>1. Gate!Waste(pending.nonce)
  BY CallEnds DEF Gate!Waste, Issued
<1> QED BY <1>1, CallEnds DEF Gate!Next

\* Until the wall clock jumps every step of the gate is a step of SpaGate or
\* none: only knocks for this port open it, and no knock exceeds its budget,
\* from however many addresses it is delivered.
THEOREM GateRefinesPromise == Spec => ImplementsSpaGate
<1> USE GateAssumption
<1>1. Init => Gate!Init
  BY DEF Init, Gate!Init, Issued, Spent
<1>2. TypeOK /\ TypeOK' /\ ReplayBudget /\ ReplayBudget' /\ WaitInv /\ [Next]_vars
        => [steps' = 0 => Gate!Next]_(Gate!vars)
  <2> SUFFICES ASSUME TypeOK, TypeOK', ReplayBudget, ReplayBudget', WaitInv,
                      [Next]_vars, steps' = 0
               PROVE  Gate!Next \/ UNCHANGED Gate!vars
    OBVIOUS
  <2>0. steps = 0
    BY DEF Next, vars, histories, Seal, SniffRefused, SniffIgnored, SniffHonoured,
           Record, AllowOk, AllowFailed, Restart, Tick, StepClock, TypeOK
  <2>1. ASSUME UNCHANGED <<net, total, pending, fw>> PROVE UNCHANGED Gate!vars
    BY <2>1 DEF Gate!vars, Issued, Spent
  <2>2. ASSUME NEW n \in Nonces, NEW kind \in Kinds,
               NEW ts \in 0..(MaxTime + MaxAhead), Seal(n, kind, ts)
        PROVE  Gate!Next \/ UNCHANGED Gate!vars
    <3> DEFINE new == [nonce |-> n, ts |-> ts, kind |-> kind]
    <3>1. net' = net \cup {new} /\ UNCHANGED <<total, pending, fw>>
      BY <2>2 DEF Seal, histories
    <3>2. UNCHANGED <<Spent, {r \in Src : fw[r] > 0}>>
      BY <3>1 DEF Spent
    <3>3. new.kind = kind /\ new.nonce = n
      OBVIOUS
    <3>4. CASE kind = "good"
      <4>1. Issued' = Issued \cup {n}
        BY <3>1, <3>3, <3>4 DEF Issued
      <4>2. Gate!Issue(n)
        BY <3>2, <4>1 DEF Gate!Issue
      <4> QED BY <4>2 DEF Gate!Next
    <3>5. CASE kind # "good"
      <4>1. Issued' = Issued
        BY <3>1, <3>3, <3>5 DEF Issued
      <4> QED BY <3>2, <4>1 DEF Gate!vars
    <3> QED BY <3>4, <3>5
  <2>3. ASSUME NEW d \in net, SniffRefused(d) PROVE UNCHANGED Gate!vars
    BY <2>1, <2>3 DEF SniffRefused, histories
  <2>4. ASSUME NEW d \in net, NEW s \in Src, SniffIgnored(d, s) PROVE Gate!Next
    <3>1. d.nonce \in Nonces
      BY DEF TypeOK, Datagrams
    <3> QED BY <2>4, <3>1, IgnoredWastes DEF Gate!Next
  <2>5. ASSUME NEW d \in net, NEW s \in Src, SniffHonoured(d, s) PROVE UNCHANGED Gate!vars
    BY <2>5, HonouredStutters
  <2>6. CASE AllowOk
    BY <2>0, <2>6, AddedIsOpen DEF AllowOk, SetAdds
  <2>7. CASE AllowFailed
    BY <2>0, <2>7, AbandonedIsWaste DEF AllowFailed, histories
  <2>8. CASE Restart
    <3>1. pending' = NoAllow /\ UNCHANGED <<net, total>>
      BY <2>8 DEF Restart
    <3>2. CASE pending = NoAllow
      BY <2>1, <2>8, <3>1, <3>2 DEF Restart
    <3>3. CASE pending # NoAllow
      BY <2>0, <2>8, <3>1, <3>3, AddedIsOpen, AbandonedIsWaste DEF Restart, SetAdds
    <3> QED BY <3>2, <3>3
  <2>9. CASE Tick
    <3>1. UNCHANGED <<net, total, pending>>
      BY <2>9 DEF Tick, histories
    <3>2. UNCHANGED <<Issued, Spent>>
      BY <3>1 DEF Issued, Spent
    <3> DEFINE closed == {s \in Src : fw[s] = 1}
    <3>3. /\ closed \in SUBSET {s \in Src : fw[s] > 0}
          /\ {s \in Src : fw'[s] > 0} = {s \in Src : fw[s] > 0} \ closed
      BY <2>9 DEF Tick, TypeOK
    <3>4. Gate!Lapse(closed)
      BY <3>2, <3>3 DEF Gate!Lapse
    <3>5. \E S \in SUBSET {s \in Src : fw[s] > 0} : Gate!Lapse(S)
      BY <3>3, <3>4, Zenon DEF Gate!Lapse
    <3> QED BY <3>5, Zenon DEF Gate!Next
  <2>10. ASSUME NEW t \in 0..MaxTime, StepClock(t) PROVE UNCHANGED Gate!vars
    BY <2>1, <2>10 DEF StepClock, histories
  <2>11. CASE UNCHANGED vars
    BY <2>1, <2>11 DEF vars, histories
  <2> QED BY <2>2, <2>3, <2>4, <2>5, <2>6, <2>7, <2>8, <2>9, <2>10, <2>11 DEF Next
<1> QED
  BY <1>1, <1>2, TypeCorrect, KnockBudget, WaitInvariant, PTL
     DEF Spec, ImplementsSpaGate

\* A gate whose clock never jumps implements SpaGate outright.
THEOREM GateIsSpaGate ==
  ASSUME MaxSteps = 0
  PROVE  Spec => Gate!Spec
<1> USE GateAssumption
<1>1. TypeOK => steps = 0
  BY DEF TypeOK
<1>2. TypeOK' /\ [steps' = 0 => Gate!Next]_(Gate!vars) => [Gate!Next]_(Gate!vars)
  BY DEF TypeOK
<1> QED
  BY <1>1, <1>2, TypeCorrect, GateRefinesPromise, PTL DEF ImplementsSpaGate, Gate!Spec

----------------------------------------------------------------------------
(* The knock filter, in front of the gate: what its program has found out   *)
(* of a frame when it is about to run an instruction.                       *)

PortAt(fr) == Half(fr, 14 + 4 * fr.ihl + 2)

FoundOut ==
    /\ pc = 2 => acc = frame.type
    /\ pc \in 3..10 => frame.type = 2048
    /\ pc = 4 => acc = frame.proto
    /\ pc \in 5..10 => frame.proto = 17
    /\ pc = 6 => acc = frame.fragment + 8192 * frame.flags
    /\ pc \in 7..10 => frame.fragment = 0
    /\ pc \in 8..9 => idx = 4 * frame.ihl
    /\ pc = 9 => acc = PortAt(frame)
    /\ pc = 10 => PortAt(frame) = KnockPort
    /\ pc = 11 => ~(IsKnock(frame) /\ frame.fragment = 0)

FilterInv ==
    /\ pc \in 0..11
    /\ pc # 0 => attached /\ frame \in Frames /\ verdict = "none"
    /\ frame = NoFrame => pc = 0 /\ verdict = "none"
    /\ FoundOut
    /\ FilterIsExact

\* What the loads find in a frame.
LEMMA FieldsLoaded ==
    ASSUME FilterAssumption, NEW fr \in Frames
    PROVE  /\ fr.len \in Nat /\ fr.ihl \in 0..15 /\ fr.flags \in Nat
           /\ fr.type \in Nat /\ fr.proto \in Nat
           /\ fr.fragment \in Nat /\ fr.fragment < 8192 /\ PortAt(fr) \in Nat
           /\ Half(fr, 12) = fr.type
           /\ Half(fr, 20) = fr.fragment + 8192 * fr.flags
           /\ Byte(fr, 23) = fr.proto
           /\ Byte(fr, 14) % 16 = fr.ihl
           /\ PortAt(fr) = fr.port
<1>1. /\ fr.len \in Nat /\ fr.type \in Nat /\ fr.proto \in Nat
      /\ fr.version \in 0..15 /\ fr.ihl \in 0..15
      /\ fr.fragment \in Nat /\ fr.fragment < 8192 /\ fr.flags \in Nat /\ fr.port \in Nat
      /\ fr.ihl = 1 => fr.port = fr.fragment + 8192 * fr.flags
  BY FilterAssumption DEF IsFrame
<1>2. fr.ihl \in 0..15 /\ fr.version \in 0..15
  BY <1>1
<1>3. Half(fr, 12) = fr.type /\ Half(fr, 20) = fr.fragment + 8192 * fr.flags
  BY <1>1, <1>2 DEF Half
<1>4. Byte(fr, 23) = fr.proto /\ Byte(fr, 14) = 16 * fr.version + fr.ihl
  BY DEF Byte
<1>5. (16 * fr.version + fr.ihl) % 16 = fr.ihl
  BY <1>2
<1>6. PortAt(fr) = fr.port
  BY <1>1, <1>2 DEF Half, PortAt
<1> QED
  BY <1>1, <1>3, <1>4, <1>5, <1>6

\* Every field the program looks at lies in a frame that is a knock.
LEMMA KnocksAreLong ==
    ASSUME FilterAssumption, NEW fr \in Frames, IsKnock(fr)
    PROVE  /\ fr.len >= 14 + 4 * fr.ihl + 52 /\ fr.ihl >= 5
           /\ fr.type = 2048 /\ fr.proto = 17 /\ PortAt(fr) = KnockPort
<1>1. fr.len \in Nat /\ fr.ihl \in 0..15 /\ fr.ulen \in Nat
  BY FilterAssumption DEF IsFrame
<1>2. PortAt(fr) = fr.port
  BY FieldsLoaded
<1> QED
  BY <1>1, <1>2 DEF IsKnock, Parses, Datagram, PacketLen

LEMMA ProgramIs ==
    /\ DOMAIN Program = 1..11
    /\ Program[1] = Bpf("ldh", 0, 0, 12) /\ Program[2] = Bpf("jeq", 0, 8, 2048)
    /\ Program[3] = Bpf("ldb", 0, 0, 23) /\ Program[4] = Bpf("jeq", 0, 6, 17)
    /\ Program[5] = Bpf("ldh", 0, 0, 20) /\ Program[6] = Bpf("jset", 4, 0, 8191)
    /\ Program[7] = Bpf("msh", 0, 0, 14) /\ Program[8] = Bpf("ldx", 0, 0, 16)
    /\ Program[9] = Bpf("jeq", 0, 1, KnockPort)
    /\ Program[10] = Bpf("ret", 0, 0, 262144) /\ Program[11] = Bpf("ret", 0, 0, 0)
  BY DEF Program

\* The steps, by the instruction that is run.
LEMMA InstructionFinds ==
    ASSUME FilterAssumption, FilterInv, Instruction
    PROVE  FilterInv'
<1>1. pc \in 1..11 /\ attached /\ frame \in Frames /\ verdict = "none"
  BY ProgramIs DEF Instruction, Running, FilterInv
<1>2. frame' = frame /\ attached' = attached
  BY DEF Instruction, LoadHalf, LoadByte, LoadIndex, LoadAcc, Jump, Verdict
<1>3. /\ frame.len \in Nat /\ frame.ihl \in 0..15 /\ frame.flags \in Nat
      /\ frame.type \in Nat /\ frame.proto \in Nat
      /\ frame.fragment \in Nat /\ frame.fragment < 8192 /\ PortAt(frame) \in Nat
      /\ Half(frame, 12) = frame.type
      /\ Half(frame, 20) = frame.fragment + 8192 * frame.flags
      /\ Byte(frame, 23) = frame.proto
      /\ Byte(frame, 14) % 16 = frame.ihl
  BY <1>1, FieldsLoaded
<1>4. IsKnock(frame) =>
         /\ frame.len >= 14 + 4 * frame.ihl + 52 /\ frame.ihl >= 5
         /\ frame.type = 2048 /\ frame.proto = 17 /\ PortAt(frame) = KnockPort
  BY <1>1, KnocksAreLong
<1> USE DEF Bpf
\* A verdict on a frame that is no knock, or that the program has judged whole.
<1>5. ASSUME NEW b \in Nat, Verdict(b),
             b = 0 => ~(IsKnock(frame) /\ frame.fragment = 0),
             b > 0 => pc = 10
      PROVE  FilterInv'
  <2>1. pc' = 0 /\ verdict' = (IF b > 0 THEN "kept" ELSE "dropped")
    BY <1>5 DEF Verdict
  <2>2. frame # NoFrame
    BY <1>1 DEF FilterInv
  <2>3. FilterIsExact'
    BY <1>1, <1>2, <1>5, <2>1 DEF FilterIsExact, FilterInv, FoundOut, PortAt, IsKnock, Parses, Datagram, Half
  <2> QED
    BY <1>2, <2>1, <2>2, <2>3 DEF FilterInv, FoundOut
<1>6. ASSUME pc' \in 1..11, verdict' = verdict, FoundOut'
      PROVE  FilterInv'
  <2>1. FilterIsExact'
    BY <1>1, <1>6 DEF FilterIsExact
  <2>2. frame # NoFrame
    BY <1>1 DEF FilterInv
  <2> QED
    BY <1>1, <1>2, <1>6, <2>1, <2>2 DEF FilterInv
<1>7. CASE pc = 1
  <2>1. LoadHalf(12)
    BY <1>7, ProgramIs DEF Instruction, Running
  <2>2. CASE Fits(12, 2)
    <3>1. acc' = frame.type /\ pc' = 2 /\ verdict' = verdict
      BY <1>3, <1>7, <2>1, <2>2 DEF LoadHalf, LoadAcc
    <3> QED
      BY <1>2, <1>6, <3>1 DEF FoundOut
  <2>3. CASE ~Fits(12, 2)
    <3>1. Verdict(0) /\ ~IsKnock(frame)
      BY <1>3, <1>4, <2>1, <2>3 DEF LoadHalf, Fits
    <3> QED
      BY <1>5, <3>1
  <2> QED
    BY <2>2, <2>3
<1>8. CASE pc = 2
  <2>1. Jump(acc = 2048) /\ acc = frame.type
    BY <1>8, ProgramIs DEF Instruction, Running, FilterInv, FoundOut
  <2>2. verdict' = verdict /\ pc' = IF frame.type = 2048 THEN 3 ELSE 11
    BY <1>8, <2>1, ProgramIs DEF Jump
  <2>3. FoundOut'
    BY <1>2, <1>4, <2>2 DEF FoundOut, IsKnock, Parses, Datagram
  <2> QED
    BY <1>6, <2>2, <2>3
<1>9. CASE pc = 3
  <2>1. LoadByte(23) /\ frame.type = 2048
    BY <1>9, ProgramIs DEF Instruction, Running, FilterInv, FoundOut
  <2>2. CASE Fits(23, 1)
    <3>1. acc' = frame.proto /\ pc' = 4 /\ verdict' = verdict
      BY <1>3, <1>9, <2>1, <2>2 DEF LoadByte, LoadAcc
    <3> QED
      BY <1>2, <1>6, <2>1, <3>1 DEF FoundOut
  <2>3. CASE ~Fits(23, 1)
    <3>1. Verdict(0) /\ ~IsKnock(frame)
      BY <1>3, <1>4, <2>1, <2>3 DEF LoadByte, Fits
    <3> QED
      BY <1>5, <3>1
  <2> QED
    BY <2>2, <2>3
<1>10. CASE pc = 4
  <2>1. Jump(acc = 17) /\ acc = frame.proto /\ frame.type = 2048
    BY <1>10, ProgramIs DEF Instruction, Running, FilterInv, FoundOut
  <2>2. verdict' = verdict /\ pc' = IF frame.proto = 17 THEN 5 ELSE 11
    BY <1>10, <2>1, ProgramIs DEF Jump
  <2>3. FoundOut'
    BY <1>2, <1>4, <2>1, <2>2 DEF FoundOut, IsKnock, Parses, Datagram
  <2> QED
    BY <1>6, <2>2, <2>3
<1>11. CASE pc = 5
  <2>1. LoadHalf(20) /\ frame.type = 2048 /\ frame.proto = 17
    BY <1>11, ProgramIs DEF Instruction, Running, FilterInv, FoundOut
  <2>2. CASE Fits(20, 2)
    <3>1. acc' = frame.fragment + 8192 * frame.flags /\ pc' = 6 /\ verdict' = verdict
      BY <1>3, <1>11, <2>1, <2>2 DEF LoadHalf, LoadAcc
    <3> QED
      BY <1>2, <1>6, <2>1, <3>1 DEF FoundOut
  <2>3. CASE ~Fits(20, 2)
    <3>1. Verdict(0) /\ ~IsKnock(frame)
      BY <1>3, <1>4, <2>1, <2>3 DEF LoadHalf, Fits
    <3> QED
      BY <1>5, <3>1
  <2> QED
    BY <2>2, <2>3
<1>12. CASE pc = 6
  <2>1. /\ Jump(acc % 8192 # 0) /\ acc = frame.fragment + 8192 * frame.flags
        /\ frame.type = 2048 /\ frame.proto = 17
    <3>1. Jump(acc % (8191 + 1) # 0)
      BY <1>12, ProgramIs DEF Instruction, Running
    <3> QED
      BY <1>12, <3>1 DEF FilterInv, FoundOut
  <2>2. (frame.fragment + 8192 * frame.flags) % 8192 = frame.fragment
    BY <1>3
  <2>3. verdict' = verdict /\ pc' = IF frame.fragment # 0 THEN 11 ELSE 7
    BY <1>12, <2>1, <2>2, ProgramIs DEF Jump
  <2>4. FoundOut'
    BY <1>2, <2>1, <2>3 DEF FoundOut, IsKnock, Parses, Datagram
  <2> QED
    BY <1>6, <2>3, <2>4
<1>13. CASE pc = 7
  <2>1. LoadIndex(14) /\ frame.type = 2048 /\ frame.proto = 17 /\ frame.fragment = 0
    BY <1>13, ProgramIs DEF Instruction, Running, FilterInv, FoundOut
  <2>2. CASE Fits(14, 1)
    <3>1. idx' = 4 * frame.ihl /\ pc' = 8 /\ verdict' = verdict
      BY <1>3, <1>13, <2>1, <2>2 DEF LoadIndex
    <3> QED
      BY <1>2, <1>6, <2>1, <3>1 DEF FoundOut
  <2>3. CASE ~Fits(14, 1)
    <3>1. Verdict(0) /\ ~IsKnock(frame)
      BY <1>3, <1>4, <2>1, <2>3 DEF LoadIndex, Fits
    <3> QED
      BY <1>5, <3>1
  <2> QED
    BY <2>2, <2>3
<1>14. CASE pc = 8
  <2>1. /\ LoadHalf(4 * frame.ihl + 16) /\ idx = 4 * frame.ihl
        /\ frame.type = 2048 /\ frame.proto = 17 /\ frame.fragment = 0
    BY <1>14, ProgramIs DEF Instruction, Running, FilterInv, FoundOut
  <2>2. 4 * frame.ihl + 16 = 14 + 4 * frame.ihl + 2
    BY <1>3
  <2>3. CASE Fits(4 * frame.ihl + 16, 2)
    <3>1. acc' = PortAt(frame) /\ pc' = 9 /\ verdict' = verdict /\ idx' = idx
      BY <1>14, <2>1, <2>2, <2>3 DEF LoadHalf, LoadAcc, PortAt
    <3>2. acc' = PortAt(frame)' /\ idx' = 4 * frame'.ihl
      BY <1>2, <2>1, <3>1 DEF PortAt, Half
    <3> QED
      BY <1>2, <1>6, <2>1, <3>1, <3>2 DEF FoundOut
  <2>4. CASE ~Fits(4 * frame.ihl + 16, 2)
    <3>1. Verdict(0) /\ ~IsKnock(frame)
      BY <1>3, <1>4, <2>1, <2>4 DEF LoadHalf, Fits
    <3> QED
      BY <1>5, <3>1
  <2> QED
    BY <2>3, <2>4
<1>15. CASE pc = 9
  <2>1. /\ Jump(acc = KnockPort) /\ acc = PortAt(frame)
        /\ frame.type = 2048 /\ frame.proto = 17 /\ frame.fragment = 0
    BY <1>15, ProgramIs DEF Instruction, Running, FilterInv, FoundOut
  <2>2. verdict' = verdict /\ pc' = IF PortAt(frame) = KnockPort THEN 10 ELSE 11
    BY <1>15, <2>1, ProgramIs DEF Jump
  <2>3. PortAt(frame)' = PortAt(frame) /\ IsKnock(frame)' = IsKnock(frame)
    BY <1>2 DEF PortAt, Half, IsKnock, Parses, Datagram
  <2>4. FoundOut'
    BY <1>2, <1>4, <2>1, <2>2, <2>3 DEF FoundOut
  <2> QED
    BY <1>6, <2>2, <2>4
<1>16. CASE pc = 10
  <2>1. Verdict(262144)
    BY <1>16, ProgramIs DEF Instruction, Running
  <2> QED
    BY <1>5, <1>16, <2>1
<1>17. CASE pc = 11
  <2>1. Verdict(0) /\ ~(IsKnock(frame) /\ frame.fragment = 0)
    BY <1>17, ProgramIs DEF Instruction, Running, FilterInv, FoundOut
  <2> QED
    BY <1>5, <2>1
<1> QED
  BY <1>1, <1>7, <1>8, <1>9, <1>10, <1>11, <1>12, <1>13, <1>14, <1>15, <1>16, <1>17

LEMMA FilterInvStep ==
    ASSUME FilterAssumption, FilterInv, [FilterNext]_filter
    PROVE  FilterInv'
<1>1. CASE Attach
  <2>1. pc' = 0 /\ verdict' = "none" /\ frame' = NoFrame
    BY <1>1 DEF Attach, FilterInv
  <2> QED
    BY <2>1 DEF FilterInv, FoundOut, FilterIsExact
<1>2. ASSUME frame = NoFrame, NEW fr \in Frames, Arrive(fr)
      PROVE  FilterInv'
  <2>1. pc = 0 /\ verdict = "none"
    BY <1>2 DEF FilterInv
  <2>2. fr # NoFrame
    BY DEF FilterAssumption
  <2>3. CASE attached
    <3>1. pc' = 1 /\ verdict' = "none" /\ frame' = fr /\ attached'
      BY <1>2, <2>1, <2>3 DEF Arrive
    <3> QED
      BY <2>2, <3>1 DEF FilterInv, FoundOut, FilterIsExact
  <2>4. CASE ~attached
    <3>1. pc' = 0 /\ verdict' = "kept" /\ frame' = fr /\ ~attached'
      BY <1>2, <2>1, <2>4 DEF Arrive
    <3> QED
      BY <2>2, <3>1 DEF FilterInv, FoundOut, FilterIsExact
  <2> QED
    BY <2>3, <2>4
<1>3. CASE UNCHANGED filter
  BY <1>3 DEF filter, FilterInv, FoundOut, FilterIsExact, PortAt, Half, IsKnock, Parses, Datagram
<1> QED
  BY <1>1, <1>2, <1>3, InstructionFinds DEF FilterNext

\* The eleven instructions do what the parser and the sniffer do, for any frames
\* and any port: no knock but a later fragment is dropped, whatever options and
\* padding it has, and with the filter attached nothing else than first
\* fragments of UDP to the knock port reaches the sniffer.
THEOREM FilterDecides == FilterSpec => []FilterIsExact
<1>1. FilterInit => FilterInv
  BY DEF FilterInit, FilterInv, FoundOut, FilterIsExact
<1>2. FilterInv => FilterIsExact
  BY DEF FilterInv
<1> QED
  BY <1>1, <1>2, FilterInvStep, FilterAssumption, PTL DEF FilterSpec
====
