---- MODULE TunnelPoolProofs ----
(***************************************************************************)
(* Theorems about TunnelPool, for any number of slots, forwards, rounds,   *)
(* streams and sessions.                                                   *)
(***************************************************************************)
EXTENDS TunnelPool, FiniteSetTheorems, TLAPS

----------------------------------------------------------------------------
(* The inductive invariant of the pool. *)

\* Where a forward stands in the grace loop.
LoopCounted ==
    \A f \in Forwards :
        /\ st[f] = "idle" => tries[f] = 0 /\ round[f] = 1
        /\ st[f] = "fetch" => tries[f] < PoolSize
        /\ st[f] = "sleep" => tries[f] = PoolSize

\* A handle is published while its tunnel is up, and withdrawn before the
\* supervisor backs off.
HandlesFresh ==
    \A i \in Slots :
        /\ control[i] <= gen[i]
        /\ sup[i] = "driving" => control[i] = gen[i] /\ gen[i] > 0
        /\ sup[i] \in {"dialing", "backoff"} => control[i] = 0

\* Nobody holds a handle of a session yet to come.
HeldIsPast ==
    \A f \in Forwards :
        st[f] \in {"send", "waiting", "exchange", "relay"} => held[f] <= gen[slot[f]]

\* Forward f waits for the driver of slot i.
Waits(f, i) == sup[i] = "driving" /\ st[f] = "waiting" /\ slot[f] = i /\ held[f] = gen[i]

\* Requests are of waiting forwards, each once.
RequestsWait ==
    \A i \in Slots :
        /\ \A k \in DOMAIN queue[i] : Waits(queue[i][k], i)
        /\ \A k, l \in DOMAIN queue[i] : queue[i][k] = queue[i][l] => k = l
        /\ pending[i] # NoOne => Waits(pending[i], i)
        /\ \A k \in DOMAIN queue[i] : queue[i][k] # pending[i]

\* Grant is the only action that adds a stream.
StreamsBounded ==
    \A i \in Slots : IsFiniteSet(Streams(i)) /\ Cardinality(Streams(i)) <= StreamLimit

PoolInv ==
    /\ TypeOK
    /\ LoopCounted
    /\ HandlesFresh
    /\ HeldIsPast
    /\ RequestsWait
    /\ StreamsBounded

----------------------------------------------------------------------------
(* Types and the grace loop. *)

LEMMA NextSlot ==
    ASSUME NEW n \in Slots
    PROVE  /\ (n + 1) % PoolSize \in Slots
           /\ (n + 1) % PoolSize = IF n = PoolSize - 1 THEN 0 ELSE n + 1
BY PoolAssumption DEF Slots

LEMMA DoubledInRange ==
    ASSUME NEW b \in 1..BackoffMax
    PROVE  Doubled(b) \in 1..BackoffMax
BY PoolAssumption DEF Doubled

\* The types of the three groups of variables.
SupervisorTypes ==
    /\ sup \in [Slots -> {"dialing", "driving", "ended", "backoff"}]
    /\ gen \in [Slots -> 0..MaxSessions]
    /\ control \in [Slots -> 0..MaxSessions]
    /\ backoff \in [Slots -> 1..BackoffMax]
DriverTypes ==
    /\ queue \in [Slots -> Seq(Forwards)]
    /\ \A i \in Slots : Len(queue[i]) <= Backlog
    /\ pending \in [Slots -> Forwards \cup {NoOne}]
States == {"idle", "fetch", "look", "send", "waiting", "sleep", "failed", "exchange",
           "relay", "closed"}
TaskTypes ==
    /\ next \in Slots
    /\ st \in [Forwards -> States]
    /\ slot \in [Forwards -> Slots]
    /\ held \in [Forwards -> 0..MaxSessions]
    /\ tries \in [Forwards -> 0..PoolSize]
    /\ round \in [Forwards -> 1..GraceRounds]
SteadyTypes == steady \in [Forwards -> SUBSET Slots]

LEMMA TypeParts == TypeOK <=> SupervisorTypes /\ DriverTypes /\ TaskTypes /\ SteadyTypes
BY DEF TypeOK, SupervisorTypes, DriverTypes, TaskTypes, SteadyTypes, States

LEMMA TypesStart == Init => TypeOK /\ LoopCounted
<1> SUFFICES ASSUME Init PROVE TypeOK /\ LoopCounted
  OBVIOUS
<1>1. TypeOK
  BY PoolAssumption DEF Init, TypeOK, Slots
<1>2. LoopCounted
  BY DEF Init, LoopCounted
<1> QED BY <1>1, <1>2

LEMMA SupervisorTypesStay == SupervisorTypes /\ [Next]_vars => SupervisorTypes'
<1> SUFFICES ASSUME SupervisorTypes, [Next]_vars PROVE SupervisorTypes'
  OBVIOUS
<1> USE PoolAssumption
<1>1. ASSUME NEW i \in Slots, DialOk(i) PROVE SupervisorTypes'
  BY <1>1 DEF DialOk, SupervisorTypes
<1>2. ASSUME NEW i \in Slots, DialFailed(i) PROVE SupervisorTypes'
  BY <1>2 DEF DialFailed, SupervisorTypes
<1>3. ASSUME NEW i \in Slots, ClearSlot(i) PROVE SupervisorTypes'
  BY <1>3 DEF ClearSlot, SupervisorTypes
<1>4. ASSUME NEW i \in Slots, BackoffOver(i) PROVE SupervisorTypes'
  BY <1>4, DoubledInRange DEF BackoffOver, SupervisorTypes
<1>5. ASSUME NEW i \in Slots, DriverEnds(i) PROVE SupervisorTypes'
  BY <1>5 DEF DriverEnds, SupervisorTypes
<1>6. ASSUME UNCHANGED supervisors PROVE SupervisorTypes'
  BY <1>6 DEF supervisors, SupervisorTypes
<1> QED
  BY <1>1, <1>2, <1>3, <1>4, <1>5, <1>6
  DEF Next, Supervisor, Driver, Opening, vars, TakeRequest, Grant, Reject, Accept, Fetch,
      LookEmpty, LookHandle, Send, SendFailed, WaitFailed, RoundOver, Exchange, RelayEnds

LEMMA DriverTypesStay ==
    DriverTypes /\ TaskTypes /\ [Next]_vars => DriverTypes'
<1> SUFFICES ASSUME DriverTypes, TaskTypes, [Next]_vars PROVE DriverTypes'
  OBVIOUS
<1> USE PoolAssumption
<1>1. ASSUME NEW i \in Slots, DriverEnds(i) PROVE DriverTypes'
  BY <1>1 DEF DriverEnds, DriverTypes
<1>2. ASSUME NEW i \in Slots, TakeRequest(i) PROVE DriverTypes'
  <2>1. queue[i] \in Seq(Forwards) /\ queue[i] # <<>>
    BY <1>2 DEF TakeRequest, DriverTypes
  <2>2. /\ Head(queue[i]) \in Forwards
        /\ Tail(queue[i]) \in Seq(Forwards)
        /\ Len(Tail(queue[i])) <= Len(queue[i])
    BY <2>1
  <2>3. /\ pending' = [pending EXCEPT ![i] = Head(queue[i])]
        /\ queue' = [queue EXCEPT ![i] = Tail(queue[i])]
    BY <1>2 DEF TakeRequest
  <2> QED
    BY <2>1, <2>2, <2>3 DEF DriverTypes
<1>3. ASSUME NEW i \in Slots, Grant(i) \/ Reject(i) PROVE DriverTypes'
  BY <1>3 DEF Grant, Reject, DriverTypes
<1>4. ASSUME NEW f \in Forwards, Send(f) PROVE DriverTypes'
  <2> DEFINE i == slot[f]
  <2>1. /\ i \in Slots
        /\ Len(queue[i]) < Backlog
        /\ queue' = [queue EXCEPT ![i] = Append(queue[i], f)]
        /\ pending' = pending
    BY <1>4 DEF Send, TaskTypes
  <2>2. queue[i] \in Seq(Forwards)
    BY <2>1 DEF DriverTypes
  <2> HIDE DEF i
  <2>3. Append(queue[i], f) \in Seq(Forwards) /\ Len(Append(queue[i], f)) <= Backlog
    BY <2>1, <2>2
  <2> QED
    BY <2>1, <2>3 DEF DriverTypes
<1>5. ASSUME UNCHANGED drivers PROVE DriverTypes'
  BY <1>5 DEF drivers, DriverTypes
<1> QED
  BY <1>1, <1>2, <1>3, <1>4, <1>5
  DEF Next, Supervisor, Driver, Opening, vars, DialOk, DialFailed, ClearSlot, BackoffOver,
      Accept, Fetch, LookEmpty, LookHandle, SendFailed, WaitFailed, RoundOver, Exchange,
      RelayEnds

\* What one step may do to the tasks of the forwards: only f's task moves.
TaskMoves(f) ==
    /\ st' = [st EXCEPT ![f] = st'[f]]
    /\ slot' = [slot EXCEPT ![f] = slot'[f]]
    /\ held' = [held EXCEPT ![f] = held'[f]]
    /\ tries' = [tries EXCEPT ![f] = tries'[f]]
    /\ round' = [round EXCEPT ![f] = round'[f]]

TaskTyped(f) ==
    /\ st'[f] \in States
    /\ slot'[f] \in Slots
    /\ held'[f] \in 0..MaxSessions
    /\ tries'[f] \in 0..PoolSize
    /\ round'[f] \in 1..GraceRounds
    /\ st'[f] # "idle"
    /\ st'[f] = "fetch" => tries'[f] < PoolSize
    /\ st'[f] = "sleep" => tries'[f] = PoolSize
    /\ next' \in Slots

LEMMA TaskStepTyped ==
    ASSUME TaskTypes, LoopCounted, NEW f \in Forwards, TaskMoves(f), TaskTyped(f)
    PROVE  TaskTypes' /\ LoopCounted'
<1>1. TaskTypes'
  BY DEF TaskTypes, TaskMoves, TaskTyped
<1>2. ASSUME NEW g \in Forwards, g # f
      PROVE  st'[g] = st[g] /\ tries'[g] = tries[g] /\ round'[g] = round[g]
  BY <1>2 DEF TaskTypes, TaskMoves
<1>3. LoopCounted'
  BY <1>2 DEF LoopCounted, TaskTyped
<1> QED BY <1>1, <1>3

LEMMA ForwardTyped ==
    ASSUME TypeOK, LoopCounted, NEW f \in Forwards, Accept(f) \/ Opening(f) \/ RelayEnds(f)
    PROVE  TaskMoves(f) /\ TaskTyped(f)
<1> USE PoolAssumption DEF TypeOK, States, TaskMoves, TaskTyped
<1>1. CASE Accept(f)
  BY <1>1 DEF Accept, LoopCounted
<1>2. CASE Fetch(f)
  <2>1. tries[f] < PoolSize /\ tries[f] \in Nat
    BY <1>2 DEF Fetch, LoopCounted
  <2>2. next' \in Slots
    BY <1>2, NextSlot DEF Fetch
  <2>3. TaskMoves(f)
    BY <1>2 DEF Fetch
  <2>4. /\ st'[f] = "look"
        /\ slot'[f] \in Slots
        /\ held'[f] \in 0..MaxSessions
        /\ round'[f] \in 1..GraceRounds
    BY <1>2 DEF Fetch
  <2>5. tries'[f] = tries[f] + 1
    BY <1>2 DEF Fetch
  <2>6. tries'[f] \in 0..PoolSize
    BY <2>1, <2>5
  <2> HIDE DEF TypeOK, TaskMoves
  <2> QED
    BY <2>2, <2>3, <2>4, <2>6
<1>3. CASE LookEmpty(f)
  BY <1>3 DEF LookEmpty, NextProbe
<1>4. CASE LookHandle(f)
  BY <1>4 DEF LookHandle
<1>5. CASE Send(f)
  BY <1>5 DEF Send
<1>6. CASE SendFailed(f)
  BY <1>6 DEF SendFailed, NextProbe
<1>7. CASE WaitFailed(f)
  BY <1>7 DEF WaitFailed, NextProbe
<1>8. CASE RoundOver(f)
  <2>1. CASE round[f] < GraceRounds /\ round' = [round EXCEPT ![f] = @ + 1]
    <3>1. round[f] \in 1..GraceRounds /\ round[f] + 1 \in 1..GraceRounds
      BY <2>1
    <3>2. /\ st' = [st EXCEPT ![f] = "fetch"] \/ st' = [st EXCEPT ![f] = "failed"]
          /\ tries' = [tries EXCEPT ![f] = 0]
          /\ UNCHANGED <<slot, held>>
      BY <1>8 DEF RoundOver
    <3>3. TaskMoves(f)
      BY <2>1, <3>2
    <3>4. 0 < PoolSize /\ 0 \in 0..PoolSize /\ PoolSize \in Nat
      OBVIOUS
    <3>5. /\ st'[f] \in {"fetch", "failed"} /\ tries'[f] = 0
          /\ round'[f] = round[f] + 1
          /\ slot'[f] = slot[f] /\ held'[f] = held[f]
      BY <2>1, <3>2
    <3>6. slot[f] \in Slots /\ held[f] \in 0..MaxSessions /\ next' \in Slots
      BY <1>8 DEF RoundOver
    <3> HIDE DEF TypeOK, TaskMoves
    <3>7. TaskTyped(f)
      BY <3>1, <3>4, <3>5, <3>6
    <3> QED
      BY <3>3, <3>7
  <2>2. CASE UNCHANGED round
    BY <1>8, <2>2 DEF RoundOver
  <2> QED
    BY <1>8, <2>1, <2>2 DEF RoundOver
<1>9. CASE Exchange(f)
  BY <1>9 DEF Exchange
<1>10. CASE RelayEnds(f)
  BY <1>10 DEF RelayEnds
<1> QED
  BY <1>1, <1>2, <1>3, <1>4, <1>5, <1>6, <1>7, <1>8, <1>9, <1>10 DEF Opening

\* The driver answers the forward whose request it has taken.
LEMMA AnsweredTyped ==
    ASSUME TypeOK, NEW i \in Slots, Grant(i) \/ Reject(i)
    PROVE  pending[i] \in Forwards /\ TaskMoves(pending[i]) /\ TaskTyped(pending[i])
<1>1. pending[i] \in Forwards
  BY DEF TypeOK, Grant, Reject
<1> DEFINE f == pending[i]
<1> HIDE DEF f
<1>2. st' = [st EXCEPT ![f] = "exchange"] \/ NextProbe(f)
  BY DEF Grant, Reject, f
<1>3. UNCHANGED <<next, slot, held, tries, round>>
  BY DEF Grant, Reject
<1>4. f \in Forwards
  BY <1>1 DEF f
<1>5. TaskMoves(f)
  BY <1>2, <1>3, <1>4 DEF TypeOK, NextProbe, TaskMoves
<1>6. TaskTyped(f)
  <2>1. TaskTypes /\ f \in Forwards
    BY <1>4, TypeParts
  <2>2. slot'[f] \in Slots /\ held'[f] \in 0..MaxSessions /\ next' \in Slots
    BY <1>3, <2>1 DEF TaskTypes
  <2>3. tries'[f] = tries[f] /\ tries'[f] \in 0..PoolSize /\ round'[f] \in 1..GraceRounds
    BY <1>3, <2>1 DEF TaskTypes
  <2>4. st'[f] = "exchange" \/ st'[f] = IF tries[f] < PoolSize THEN "fetch" ELSE "sleep"
    BY <1>2, <2>1 DEF TaskTypes, NextProbe
  <2> QED
    BY <2>2, <2>3, <2>4, PoolAssumption DEF TaskTyped, States
<1> QED BY <1>1, <1>5, <1>6 DEF f

LEMMA SteadyTypesStay == TypeOK /\ [Next]_vars => SteadyTypes'
<1> SUFFICES ASSUME TypeOK, [Next]_vars PROVE SteadyTypes'
  OBVIOUS
<1>1. steady \in [Forwards -> SUBSET Slots]
  BY DEF TypeOK
<1>2. ASSUME NEW i \in Slots, DriverEnds(i) PROVE SteadyTypes'
  BY <1>1, <1>2 DEF DriverEnds, SteadyTypes
<1>3. ASSUME NEW i \in Slots, Grant(i) \/ Reject(i) PROVE SteadyTypes'
  <2>1. pending[i] \in Forwards
    BY <1>3, AnsweredTyped
  <2> QED
    BY <1>1, <1>3, <2>1 DEF Grant, Reject, SteadyTypes
<1>4. ASSUME NEW f \in Forwards, Accept(f) PROVE SteadyTypes'
  BY <1>1, <1>4 DEF Accept, Live, SteadyTypes
<1>5. ASSUME UNCHANGED steady PROVE SteadyTypes'
  BY <1>1, <1>5 DEF SteadyTypes
<1> QED
  BY <1>2, <1>3, <1>4, <1>5
  DEF Next, Supervisor, Driver, Opening, vars, DialOk, DialFailed, ClearSlot, BackoffOver,
      TakeRequest, Fetch, LookEmpty, LookHandle, Send, SendFailed, WaitFailed, RoundOver,
      Exchange, RelayEnds

LEMMA TypesStay == TypeOK /\ LoopCounted /\ [Next]_vars => TypeOK' /\ LoopCounted'
<1> SUFFICES ASSUME TypeOK, LoopCounted, [Next]_vars PROVE TypeOK' /\ LoopCounted'
  OBVIOUS
<1>1. SupervisorTypes /\ DriverTypes /\ TaskTypes
  BY TypeParts
<1>2. SupervisorTypes' /\ DriverTypes' /\ SteadyTypes'
  BY <1>1, SupervisorTypesStay, DriverTypesStay, SteadyTypesStay
<1>3. ASSUME NEW f \in Forwards, Accept(f) \/ Opening(f) \/ RelayEnds(f)
      PROVE  TaskTypes' /\ LoopCounted'
  BY <1>1, <1>3, ForwardTyped, TaskStepTyped
<1>4. ASSUME NEW i \in Slots, Grant(i) \/ Reject(i)
      PROVE  TaskTypes' /\ LoopCounted'
  BY <1>1, <1>4, AnsweredTyped, TaskStepTyped
<1>5. ASSUME UNCHANGED tasks
      PROVE  TaskTypes' /\ LoopCounted'
  BY <1>1, <1>5 DEF tasks, TaskTypes, LoopCounted
<1>6. TaskTypes' /\ LoopCounted'
  BY <1>3, <1>4, <1>5
  DEF Next, Supervisor, Driver, vars, DialOk, DialFailed, ClearSlot, BackoffOver,
      TakeRequest, DriverEnds
<1>7. TypeOK'
  BY <1>2, <1>6
  DEF TypeOK, SupervisorTypes, DriverTypes, TaskTypes, SteadyTypes, States
<1> QED BY <1>6, <1>7

----------------------------------------------------------------------------
(* Sessions: what is published, what is held. *)

LEMMA HandlesStayFresh ==
    TypeOK /\ HandlesFresh /\ [Next]_vars => HandlesFresh'
<1> SUFFICES ASSUME TypeOK, HandlesFresh, [Next]_vars PROVE HandlesFresh'
  OBVIOUS
<1> USE DEF HandlesFresh
<1>1. SupervisorTypes
  BY TypeParts
<1>2. ASSUME NEW i \in Slots, DialOk(i) PROVE HandlesFresh'
  BY <1>1, <1>2 DEF DialOk, SupervisorTypes
<1>3. ASSUME NEW i \in Slots, DialFailed(i) PROVE HandlesFresh'
  BY <1>1, <1>3 DEF DialFailed, SupervisorTypes
<1>4. ASSUME NEW i \in Slots, ClearSlot(i) PROVE HandlesFresh'
  BY <1>1, <1>4 DEF ClearSlot, SupervisorTypes
<1>5. ASSUME NEW i \in Slots, BackoffOver(i) PROVE HandlesFresh'
  BY <1>1, <1>5 DEF BackoffOver, SupervisorTypes
<1>6. ASSUME NEW i \in Slots, DriverEnds(i) PROVE HandlesFresh'
  BY <1>1, <1>6 DEF DriverEnds, SupervisorTypes
<1>7. ASSUME UNCHANGED supervisors PROVE HandlesFresh'
  BY <1>7 DEF supervisors
<1> QED
  BY <1>2, <1>3, <1>4, <1>5, <1>6, <1>7
  DEF Next, Supervisor, Driver, Opening, vars, TakeRequest, Grant, Reject, Accept, Fetch,
      LookEmpty, LookHandle, Send, SendFailed, WaitFailed, RoundOver, Exchange, RelayEnds

\* Holders of a handle.
Holding == {"send", "waiting", "exchange", "relay"}

\* A forward comes to hold the published handle by cloning it.
Cloned(g) ==
    /\ st[g] = "look" /\ st'[g] = "send"
    /\ control[slot[g]] # 0
    /\ slot'[g] = slot[g]
    /\ held'[g] = control[slot[g]]
    /\ UNCHANGED <<supervisors, drivers>>
Keeps(g) == slot'[g] = slot[g] /\ held'[g] = held[g]

\* The request a driver has taken is that of a waiting forward.
LEMMA TakenWaits ==
    ASSUME TypeOK, RequestsWait, NEW i \in Slots, Grant(i) \/ Reject(i)
    PROVE  /\ pending[i] \in Forwards
           /\ st[pending[i]] = "waiting"
           /\ slot[pending[i]] = i
           /\ held[pending[i]] = gen[i]
BY AnsweredTyped DEF RequestsWait, Waits, Grant, Reject

LEMMA HandlesCloned ==
    ASSUME PoolInv, [Next]_vars, NEW g \in Forwards, st'[g] \in Holding
    PROVE  Cloned(g) \/ (st[g] \in Holding /\ Keeps(g))
<1>1. TaskTypes /\ TypeOK /\ LoopCounted /\ RequestsWait
  BY TypeParts DEF PoolInv
<1> DEFINE Goal == Cloned(g) \/ (st[g] \in Holding /\ Keeps(g))
<1>2. ASSUME UNCHANGED <<st, slot, held>> PROVE Goal
  BY <1>2 DEF Keeps
<1>3. ASSUME NEW i \in Slots, Grant(i) \/ Reject(i) PROVE Goal
  <2>1. st[pending[i]] \in Holding /\ TaskMoves(pending[i])
    BY <1>1, <1>3, TakenWaits, AnsweredTyped DEF Holding
  <2>2. UNCHANGED <<slot, held>>
    BY <1>3 DEF Grant, Reject
  <2>3. pending[i] # g => st'[g] = st[g]
    BY <1>1, <2>1 DEF TaskMoves, TaskTypes
  <2> QED
    BY <2>1, <2>2, <2>3 DEF Keeps
<1>4. ASSUME NEW f \in Forwards, f # g, Accept(f) \/ Opening(f) \/ RelayEnds(f) PROVE Goal
  <2>1. TaskMoves(f)
    BY <1>1, <1>4, ForwardTyped
  <2> QED
    BY <1>1, <1>4, <2>1 DEF TaskMoves, TaskTypes, Keeps
<1>5. ASSUME LookHandle(g) PROVE Goal
  <2>1. UNCHANGED <<supervisors, drivers>> /\ UNCHANGED slot
    BY <1>5 DEF LookHandle
  <2>2. /\ st[g] = "look" /\ st'[g] = "send"
        /\ control[slot[g]] # 0
        /\ held'[g] = control[slot[g]]
    BY <1>1, <1>5 DEF LookHandle, TaskTypes
  <2> QED
    BY <2>1, <2>2 DEF Cloned
<1>6. ASSUME Accept(g) \/ Fetch(g) \/ LookEmpty(g) \/ SendFailed(g) \/ WaitFailed(g)
             \/ RoundOver(g) \/ RelayEnds(g)
      PROVE  FALSE
  <2>1. st[g] \in States /\ st'[g] \in {"fetch", "look", "sleep", "failed", "closed"}
    BY <1>1, <1>6 DEF Accept, Fetch, LookEmpty, SendFailed, WaitFailed, RoundOver,
       RelayEnds, NextProbe, TaskTypes
  <2> QED
    BY <2>1 DEF Holding
<1>7. ASSUME Send(g) \/ Exchange(g) PROVE Goal
  BY <1>1, <1>7 DEF Send, Exchange, TaskTypes, Holding, Keeps
<1>8. ASSUME NEW f \in Forwards, Accept(f) \/ Opening(f) \/ RelayEnds(f) PROVE Goal
  BY <1>4, <1>5, <1>6, <1>7, <1>8 DEF Opening
<1>9. ASSUME UNCHANGED tasks PROVE Goal
  BY <1>2, <1>9 DEF tasks
<1> QED
  BY <1>3, <1>8, <1>9
  DEF Next, Supervisor, Driver, vars, DialOk, DialFailed, ClearSlot, BackoffOver,
      TakeRequest, DriverEnds

LEMMA SessionsGrow ==
    ASSUME TypeOK, [Next]_vars, NEW i \in Slots
    PROVE  gen[i] <= gen'[i]
<1>1. SupervisorTypes
  BY TypeParts
<1>2. ASSUME NEW j \in Slots, DialOk(j) PROVE gen[i] <= gen'[i]
  BY <1>1, <1>2 DEF DialOk, SupervisorTypes
<1>3. ASSUME UNCHANGED gen PROVE gen[i] <= gen'[i]
  BY <1>1, <1>3 DEF SupervisorTypes
<1> QED
  BY <1>2, <1>3
  DEF Next, Supervisor, Driver, Opening, vars, supervisors, TakeRequest, Grant, Reject,
      Accept, Fetch, LookEmpty, LookHandle, Send, SendFailed, WaitFailed, RoundOver,
      Exchange, RelayEnds, DialFailed, ClearSlot, BackoffOver, DriverEnds

LEMMA HeldStaysPast == PoolInv /\ [Next]_vars => HeldIsPast'
<1> SUFFICES ASSUME PoolInv, [Next]_vars, NEW g \in Forwards, st'[g] \in Holding
             PROVE  held'[g] <= gen'[slot'[g]]
  BY DEF HeldIsPast, Holding
<1>1. TaskTypes /\ SupervisorTypes /\ TypeOK /\ HandlesFresh /\ HeldIsPast
  BY TypeParts DEF PoolInv
<1>2. slot[g] \in Slots
  BY <1>1 DEF TaskTypes
<1>3. gen[slot[g]] <= gen'[slot[g]]
  BY <1>1, <1>2, SessionsGrow
<1>4. CASE Cloned(g)
  BY <1>1, <1>2, <1>4 DEF Cloned, HandlesFresh, supervisors
<1>5. CASE st[g] \in Holding /\ Keeps(g)
  <2>1. held[g] <= gen[slot[g]]
    BY <1>1, <1>5 DEF HeldIsPast, Holding
  <2>2. held[g] \in Int /\ gen[slot[g]] \in Int
    BY <1>1, <1>2 DEF TaskTypes, SupervisorTypes
  <2>3. TypeOK' => gen'[slot[g]] \in Int
    BY <1>2 DEF TypeOK
  <2>4. TypeOK'
    BY TypesStay DEF PoolInv
  <2> QED
    BY <1>3, <1>5, <2>1, <2>2, <2>3, <2>4 DEF Keeps
<1> QED BY <1>4, <1>5, HandlesCloned

----------------------------------------------------------------------------
(* Requests: whoever is in a driver's channel waits for that driver. *)

\* A forward stops waiting when the driver ends or answers it, or, when it was
\* not asking for anything any more, by itself.
LEMMA WaitingStays ==
    ASSUME PoolInv, [Next]_vars, NEW i \in Slots, NEW g \in Forwards, Waits(g, i)
    PROVE  \/ sup'[i] = "driving" /\ st'[g] = "waiting" /\ slot'[g] = i /\ held'[g] = gen'[i]
           \/ DriverEnds(i)
           \/ g = pending[i] /\ (Grant(i) \/ Reject(i))
           \/ g \notin Requests(i)
<1> DEFINE Still == /\ sup'[i] = "driving"
                    /\ st'[g] = "waiting" /\ slot'[g] = i /\ held'[g] = gen'[i]
           Goal == \/ Still
                   \/ DriverEnds(i)
                   \/ g = pending[i] /\ (Grant(i) \/ Reject(i))
                   \/ g \notin Requests(i)
<1> HIDE DEF Goal
<1>1. /\ TaskTypes /\ SupervisorTypes /\ TypeOK /\ LoopCounted /\ RequestsWait
      /\ sup[i] = "driving" /\ st[g] = "waiting" /\ slot[g] = i /\ held[g] = gen[i]
  BY TypeParts DEF PoolInv, Waits
<1>2. ASSUME UNCHANGED <<sup, gen, st, slot, held>> PROVE Goal
  BY <1>1, <1>2 DEF Goal
<1>3. ASSUME NEW j \in Slots, Supervisor(j) \/ DriverEnds(j) PROVE Goal
  <2>1. UNCHANGED tasks
    BY <1>3 DEF Supervisor, DialOk, DialFailed, ClearSlot, BackoffOver, DriverEnds
  <2>2. UNCHANGED <<st, slot, held>>
    BY <2>1 DEF tasks
  <2>3. CASE j = i /\ DriverEnds(j)
    BY <2>3 DEF Goal
  <2>4. CASE ~(j = i /\ DriverEnds(j))
    <3>1. sup'[i] = sup[i] /\ gen'[i] = gen[i]
      BY <1>1, <1>3, <2>4 DEF Supervisor, DialOk, DialFailed, ClearSlot, BackoffOver,
         DriverEnds, SupervisorTypes
    <3> QED
      BY <1>1, <2>2, <3>1 DEF Goal
  <2> QED BY <2>3, <2>4
<1>4. ASSUME NEW j \in Slots, TakeRequest(j) PROVE Goal
  BY <1>2, <1>4 DEF TakeRequest, supervisors, tasks
<1>5. ASSUME NEW j \in Slots, Grant(j) \/ Reject(j) PROVE Goal
  <2>1. /\ TaskMoves(pending[j])
        /\ slot[pending[j]] = j
        /\ UNCHANGED <<sup, gen>>
    BY <1>1, <1>5, AnsweredTyped, TakenWaits DEF Grant, Reject, supervisors
  <2>2. CASE g = pending[j]
    BY <1>1, <1>5, <2>1, <2>2 DEF Goal
  <2>3. CASE g # pending[j]
    <3>1. st'[g] = st[g] /\ slot'[g] = slot[g] /\ held'[g] = held[g]
      BY <1>1, <2>1, <2>3 DEF TaskMoves, TaskTypes
    <3> QED BY <1>1, <2>1, <3>1 DEF Goal
  <2> QED BY <2>2, <2>3
<1>6. ASSUME NEW f \in Forwards, f # g, Accept(f) \/ Opening(f) \/ RelayEnds(f) PROVE Goal
  <2>1. UNCHANGED supervisors
    BY <1>6 DEF Accept, Opening, RelayEnds, Fetch, LookEmpty, LookHandle, Send, SendFailed,
       WaitFailed, RoundOver, Exchange
  <2>2. st'[g] = st[g] /\ slot'[g] = slot[g] /\ held'[g] = held[g]
    BY <1>1, <1>6, ForwardTyped DEF TaskMoves, TaskTypes
  <2> QED BY <1>1, <2>1, <2>2 DEF Goal, supervisors
<1>7. ASSUME Accept(g) \/ Opening(g) \/ RelayEnds(g) PROVE Goal
  <2>1. WaitFailed(g)
    BY <1>1, <1>7 DEF Accept, Opening, RelayEnds, Fetch, LookEmpty, LookHandle, Send,
       SendFailed, RoundOver, Exchange
  <2> QED BY <1>1, <2>1 DEF WaitFailed, Goal
<1>8. ASSUME UNCHANGED vars PROVE Goal
  BY <1>2, <1>8 DEF vars, supervisors, tasks
<1>9. Goal
  BY <1>3, <1>4, <1>5, <1>6, <1>7, <1>8 DEF Next, Driver
<1> QED BY <1>9 DEF Goal

\* What a step may do to the channel of one driver.
LEMMA ChannelMoves ==
    ASSUME PoolInv, [Next]_vars, NEW i \in Slots
    PROVE  \/ queue'[i] = queue[i] /\ pending'[i] = pending[i]
           \/ queue'[i] = <<>> /\ pending'[i] = NoOne /\ DriverEnds(i)
           \/ /\ pending[i] = NoOne /\ queue[i] # <<>>
              /\ pending'[i] = Head(queue[i]) /\ queue'[i] = Tail(queue[i])
              /\ UNCHANGED <<supervisors, tasks>>
           \/ queue'[i] = queue[i] /\ pending'[i] = NoOne /\ (Grant(i) \/ Reject(i))
           \/ \E f \in Forwards :
                 /\ Send(f) /\ slot[f] = i
                 /\ pending'[i] = pending[i] /\ queue'[i] = Append(queue[i], f)
<1>1. DriverTypes /\ TaskTypes
  BY TypeParts DEF PoolInv
<1>2. ASSUME NEW j \in Slots, DriverEnds(j)
      PROVE  \/ queue'[i] = queue[i] /\ pending'[i] = pending[i]
             \/ queue'[i] = <<>> /\ pending'[i] = NoOne /\ DriverEnds(i)
  <2>1. CASE j = i
    <3>1. queue'[i] = <<>> /\ pending'[i] = NoOne
      BY <1>1, <1>2, <2>1 DEF DriverEnds, DriverTypes
    <3> QED BY <1>2, <2>1, <3>1
  <2>2. CASE j # i
    BY <1>1, <1>2, <2>2 DEF DriverEnds, DriverTypes
  <2> QED BY <2>1, <2>2
<1>3. ASSUME NEW j \in Slots, TakeRequest(j)
      PROVE  \/ queue'[i] = queue[i] /\ pending'[i] = pending[i]
             \/ /\ pending[i] = NoOne /\ queue[i] # <<>>
                /\ pending'[i] = Head(queue[i]) /\ queue'[i] = Tail(queue[i])
                /\ UNCHANGED <<supervisors, tasks>>
  BY <1>1, <1>3 DEF TakeRequest, DriverTypes
<1>4. ASSUME NEW j \in Slots, Grant(j) \/ Reject(j)
      PROVE  \/ queue'[i] = queue[i] /\ pending'[i] = pending[i]
             \/ queue'[i] = queue[i] /\ pending'[i] = NoOne /\ (Grant(i) \/ Reject(i))
  <2>1. queue' = queue /\ pending' = [pending EXCEPT ![j] = NoOne]
    BY <1>4 DEF Grant, Reject
  <2> QED
    BY <1>1, <1>4, <2>1 DEF DriverTypes
<1>5. ASSUME NEW f \in Forwards, Send(f)
      PROVE  \/ queue'[i] = queue[i] /\ pending'[i] = pending[i]
             \/ /\ slot[f] = i
                /\ pending'[i] = pending[i] /\ queue'[i] = Append(queue[i], f)
  BY <1>1, <1>5 DEF Send, DriverTypes, TaskTypes
<1>6. ASSUME UNCHANGED drivers
      PROVE  queue'[i] = queue[i] /\ pending'[i] = pending[i]
  BY <1>6 DEF drivers
<1>7. CASE \E j \in Slots : DriverEnds(j)
  BY <1>2, <1>7
<1>8. CASE \E j \in Slots : TakeRequest(j)
  BY <1>3, <1>8
<1>9. CASE \E j \in Slots : Grant(j) \/ Reject(j)
  BY <1>4, <1>9
<1>10. CASE \E f \in Forwards : Send(f)
  BY <1>5, <1>10
<1>11. CASE UNCHANGED drivers
  BY <1>6, <1>11
<1> QED
  BY <1>7, <1>8, <1>9, <1>10, <1>11
  DEF Next, vars, Supervisor, Driver, Opening, DialOk, DialFailed, ClearSlot, BackoffOver,
      Accept, Fetch, LookEmpty, LookHandle, SendFailed, WaitFailed, RoundOver, Exchange,
      RelayEnds

\* The requests of one driver, as an invariant of its own.
SlotWaits(i) ==
    /\ \A k \in DOMAIN queue[i] : Waits(queue[i][k], i)
    /\ \A k, l \in DOMAIN queue[i] : queue[i][k] = queue[i][l] => k = l
    /\ pending[i] # NoOne => Waits(pending[i], i)
    /\ \A k \in DOMAIN queue[i] : queue[i][k] # pending[i]

LEMMA RequestsStayWaiting == PoolInv /\ [Next]_vars => RequestsWait'
<1> SUFFICES ASSUME PoolInv, [Next]_vars, NEW i \in Slots PROVE SlotWaits(i)'
  BY DEF RequestsWait, SlotWaits
<1>1. /\ queue[i] \in Seq(Forwards) /\ pending[i] \in Forwards \cup {NoOne}
      /\ SlotWaits(i) /\ TypeOK
  BY DEF PoolInv, TypeOK, RequestsWait, SlotWaits
<1> DEFINE Stays(g) == /\ sup'[i] = "driving"
                       /\ st'[g] = "waiting" /\ slot'[g] = i /\ held'[g] = gen'[i]
<1>2. SlotWaits(i)' <=>
        /\ \A k \in DOMAIN queue'[i] : Stays(queue'[i][k])
        /\ \A k, l \in DOMAIN queue'[i] : queue'[i][k] = queue'[i][l] => k = l
        /\ pending'[i] # NoOne => Stays(pending'[i])
        /\ \A k \in DOMAIN queue'[i] : queue'[i][k] # pending'[i]
  BY DEF SlotWaits, Waits
<1>3. \A g : Stays(g) <=> /\ sup'[i] = "driving"
                          /\ st'[g] = "waiting" /\ slot'[g] = i /\ held'[g] = gen'[i]
  OBVIOUS
<1> HIDE DEF Stays
<1>4. ASSUME DriverEnds(i) PROVE queue'[i] = <<>> /\ pending'[i] = NoOne
  <2>1. DOMAIN queue = Slots /\ DOMAIN pending = Slots
    BY <1>1 DEF TypeOK
  <2> QED BY <1>4, <2>1 DEF DriverEnds
<1>5. ASSUME queue'[i] = <<>>, pending'[i] = NoOne PROVE SlotWaits(i)'
  BY <1>2, <1>5
<1>6. ASSUME Grant(i) \/ Reject(i) PROVE pending'[i] = NoOne /\ pending[i] # NoOne
  BY <1>1, <1>6 DEF Grant, Reject, TypeOK
<1>7. ASSUME ~DriverEnds(i), NEW k \in DOMAIN queue[i]
      PROVE  queue[i][k] \in Forwards /\ Stays(queue[i][k])
  <2>1. /\ queue[i][k] \in Forwards /\ Waits(queue[i][k], i)
        /\ queue[i][k] # pending[i] /\ queue[i][k] \in Requests(i)
    BY <1>1 DEF SlotWaits, Requests
  <2> QED
    BY <1>3, <1>7, <2>1, WaitingStays
<1>8. ASSUME ~DriverEnds(i), pending[i] # NoOne, ~(Grant(i) \/ Reject(i))
      PROVE  Stays(pending[i])
  <2>1. pending[i] \in Forwards /\ Waits(pending[i], i) /\ pending[i] \in Requests(i)
    BY <1>1, <1>8 DEF SlotWaits, Requests
  <2> QED
    BY <1>3, <1>8, <2>1, WaitingStays
<1>9. CASE DriverEnds(i)
  BY <1>4, <1>5, <1>9
<1>10. ASSUME ~DriverEnds(i), queue'[i] = queue[i],
              pending'[i] = NoOne \/ pending'[i] = pending[i]
       PROVE  SlotWaits(i)'
  <2>1. \A k \in DOMAIN queue[i] : queue[i][k] # NoOne
    BY <1>7, <1>10, PoolAssumption
  <2> QED
    BY <1>1, <1>2, <1>6, <1>7, <1>8, <1>10, <2>1 DEF SlotWaits
<1>11. ASSUME ~DriverEnds(i), pending[i] = NoOne, queue[i] # <<>>,
              pending'[i] = Head(queue[i]), queue'[i] = Tail(queue[i])
       PROVE  SlotWaits(i)'
  <2>1. /\ 1 \in DOMAIN queue[i] /\ Head(queue[i]) = queue[i][1]
        /\ \A k \in DOMAIN Tail(queue[i]) :
              k \in Nat /\ k + 1 \in DOMAIN queue[i] /\ Tail(queue[i])[k] = queue[i][k + 1]
    BY <1>1, <1>11
  <2>2. \A k \in DOMAIN queue'[i] : Stays(queue'[i][k])
    BY <1>7, <1>11, <2>1
  <2>3. \A k, l \in DOMAIN queue'[i] : queue'[i][k] = queue'[i][l] => k = l
    BY <1>1, <1>11, <2>1 DEF SlotWaits
  <2>4. Stays(pending'[i])
    BY <1>7, <1>11, <2>1
  <2>5. \A k \in DOMAIN queue'[i] : queue'[i][k] # pending'[i]
    BY <1>1, <1>11, <2>1 DEF SlotWaits
  <2> QED BY <1>2, <2>2, <2>3, <2>4, <2>5
<1>12. ASSUME ~DriverEnds(i), NEW f \in Forwards, Send(f), slot[f] = i,
              pending'[i] = pending[i], queue'[i] = Append(queue[i], f)
       PROVE  SlotWaits(i)'
  <2>1. st[f] = "send" /\ sup[i] = "driving" /\ gen[i] = held[f]
    BY <1>12 DEF Send, SessionAlive, Live
  <2>2. /\ UNCHANGED <<sup, gen, slot, held>>
        /\ st'[f] = "waiting"
    BY <1>1, <1>12 DEF Send, supervisors, TypeOK
  <2>3. Stays(f)
    BY <1>3, <1>12, <2>1, <2>2
  <2>4. /\ DOMAIN queue'[i] = 1..(Len(queue[i]) + 1) /\ DOMAIN queue[i] = 1..Len(queue[i])
        /\ Len(queue[i]) \in Nat
        /\ \A k \in DOMAIN queue[i] : queue'[i][k] = queue[i][k]
        /\ queue'[i][Len(queue[i]) + 1] = f
    BY <1>1, <1>12
  <2>5. \A k \in DOMAIN queue[i] : queue[i][k] # f
    BY <1>1, <2>1 DEF SlotWaits, Waits
  <2>6. pending[i] # f
    BY <1>1, <1>12, <2>1, PoolAssumption DEF SlotWaits, Waits
  <2>7. \A k \in DOMAIN queue'[i] : Stays(queue'[i][k])
    BY <1>7, <1>12, <2>3, <2>4
  <2>8. \A k, l \in DOMAIN queue'[i] : queue'[i][k] = queue'[i][l] => k = l
    BY <1>1, <2>4, <2>5 DEF SlotWaits
  <2>9. ~(Grant(i) \/ Reject(i)) \/ pending'[i] = NoOne
    BY <1>6
  <2>10. pending'[i] # NoOne => Stays(pending'[i])
    BY <1>8, <1>12, <2>9
  <2>11. \A k \in DOMAIN queue'[i] : queue'[i][k] # pending'[i]
    BY <1>1, <1>12, <2>4, <2>6 DEF SlotWaits
  <2> QED BY <1>2, <2>7, <2>8, <2>10, <2>11
<1> QED
  BY <1>5, <1>9, <1>10, <1>11, <1>12, ChannelMoves

----------------------------------------------------------------------------
(* Streams. *)

\* A forward with a stream had it before, unless the driver has just granted it.
LEMMA StreamsFrom ==
    ASSUME PoolInv, [Next]_vars, NEW i \in Slots, NEW g \in Streams(i)'
    PROVE  \/ g \in Streams(i)
           \/ g = pending[i] /\ Grant(i)
<1>1. /\ TypeOK /\ TaskTypes /\ SupervisorTypes /\ LoopCounted /\ RequestsWait /\ HeldIsPast
      /\ g \in Forwards
      /\ st'[g] \in {"exchange", "relay"} /\ slot'[g] = i /\ held'[g] = gen'[i]
  BY TypeParts DEF PoolInv, Streams
<1>2. /\ slot[g] = i
      /\ st[g] \in Holding
      /\ held[g] = gen'[i]
  BY <1>1, HandlesCloned DEF Holding, Cloned, Keeps
<1>3. held[g] <= gen[i] /\ gen[i] <= gen'[i] /\ gen[i] \in Int /\ gen'[i] \in Int
  <2>1. TypeOK'
    BY TypesStay DEF PoolInv
  <2>2. gen[i] \in Int /\ gen'[i] \in Int
    BY <1>1, <2>1 DEF TypeOK
  <2> QED
    BY <1>1, <1>2, <2>2, SessionsGrow DEF HeldIsPast, Holding
<1>4. held[g] = gen[i]
  BY <1>2, <1>3
<1>5. ASSUME st[g] \in {"exchange", "relay"} PROVE g \in Streams(i)
  BY <1>1, <1>2, <1>4, <1>5 DEF Streams
<1>6. ASSUME NEW j \in Slots, Grant(j) PROVE g \in Streams(i) \/ (g = pending[i] /\ Grant(i))
  <2>1. TaskMoves(pending[j]) /\ slot[pending[j]] = j
    BY <1>1, <1>6, AnsweredTyped, TakenWaits
  <2>2. CASE g = pending[j]
    BY <1>2, <1>6, <2>1, <2>2
  <2>3. CASE g # pending[j]
    <3>1. st'[g] = st[g]
      BY <1>1, <2>1, <2>3 DEF TaskMoves, TaskTypes
    <3> QED BY <1>1, <1>5, <3>1
  <2> QED BY <2>2, <2>3
<1>7. ASSUME NEW j \in Slots, Reject(j) PROVE g \in Streams(i)
  <2>1. /\ pending[j] \in Forwards
        /\ st' = [st EXCEPT ![pending[j]] =
                     IF tries[pending[j]] < PoolSize THEN "fetch" ELSE "sleep"]
    BY <1>1, <1>7, AnsweredTyped DEF Reject, NextProbe
  <2>2. st'[g] = st[g]
    BY <1>1, <2>1 DEF TaskTypes
  <2> QED BY <1>1, <1>5, <2>2
<1>8. ASSUME NEW f \in Forwards, Accept(f) \/ Opening(f) \/ RelayEnds(f)
      PROVE  st[g] \in {"exchange", "relay"}
  <2>1. CASE f = g
    BY <1>1, <1>8, <2>1 DEF Accept, Opening, RelayEnds, Fetch, LookEmpty, LookHandle, Send,
       SendFailed, WaitFailed, RoundOver, Exchange, NextProbe, TaskTypes
  <2>2. CASE f # g
    <3>1. TaskMoves(f)
      BY <1>1, <1>8, ForwardTyped
    <3>2. st'[g] = st[g]
      BY <1>1, <2>2, <3>1 DEF TaskMoves, TaskTypes
    <3> QED BY <1>1, <3>2
  <2> QED BY <2>1, <2>2
<1>9. ASSUME UNCHANGED tasks PROVE st[g] \in {"exchange", "relay"}
  BY <1>1, <1>9 DEF tasks
<1> QED
  BY <1>5, <1>6, <1>7, <1>8, <1>9
  DEF Next, vars, Supervisor, Driver, DialOk, DialFailed, ClearSlot, BackoffOver,
      TakeRequest, DriverEnds

LEMMA StreamsStayBounded == PoolInv /\ [Next]_vars => StreamsBounded'
<1> SUFFICES ASSUME PoolInv, [Next]_vars, NEW i \in Slots
             PROVE  IsFiniteSet(Streams(i)') /\ Cardinality(Streams(i)') <= StreamLimit
  BY DEF StreamsBounded
<1> DEFINE S == Streams(i)
           T == Streams(i)'
<1>1. IsFiniteSet(S) /\ Cardinality(S) <= StreamLimit /\ Cardinality(S) \in Nat
  BY FS_CardinalityType DEF PoolInv, StreamsBounded
<1>2. \A g \in T : g \in S \/ (g = pending[i] /\ Grant(i))
  BY StreamsFrom
<1>3. Grant(i) => Cardinality(S) < StreamLimit
  BY DEF Grant
<1> HIDE DEF S, T
<1>4. CASE T \subseteq S
  <2>1. IsFiniteSet(T) /\ Cardinality(T) <= Cardinality(S) /\ Cardinality(T) \in Nat
    BY <1>1, <1>4, FS_Subset, FS_CardinalityType
  <2> QED
    BY <1>1, <2>1, PoolAssumption DEF T
<1>5. CASE Grant(i)
  <2> DEFINE U == S \cup {pending[i]}
  <2>1. IsFiniteSet(U) /\ Cardinality(U) <= Cardinality(S) + 1
    BY <1>1, FS_AddElement
  <2>2. T \subseteq U
    BY <1>2
  <2> HIDE DEF U
  <2>3. /\ IsFiniteSet(T) /\ Cardinality(T) <= Cardinality(U)
        /\ Cardinality(T) \in Nat /\ Cardinality(U) \in Nat
    BY <2>1, <2>2, FS_Subset, FS_CardinalityType
  <2> QED
    BY <1>1, <1>3, <1>5, <2>1, <2>3, PoolAssumption DEF T
<1> QED BY <1>2, <1>4, <1>5

----------------------------------------------------------------------------

LEMMA PoolInvStart == Init => PoolInv
<1> SUFFICES ASSUME Init PROVE PoolInv
  OBVIOUS
<1>1. TypeOK /\ LoopCounted
  BY TypesStart
<1>2. HandlesFresh /\ HeldIsPast
  BY DEF Init, HandlesFresh, HeldIsPast
<1>3. RequestsWait
  BY DEF Init, RequestsWait
<1>4. ASSUME NEW i \in Slots PROVE IsFiniteSet(Streams(i)) /\ Cardinality(Streams(i)) = 0
  <2>1. Streams(i) = {}
    BY DEF Init, Streams
  <2> QED BY <2>1, FS_EmptySet
<1>5. StreamsBounded
  BY <1>4, PoolAssumption DEF StreamsBounded
<1> QED BY <1>1, <1>2, <1>3, <1>5 DEF PoolInv

LEMMA PoolInvStep == PoolInv /\ [Next]_vars => PoolInv'
BY TypesStay, HandlesStayFresh, HeldStaysPast, RequestsStayWaiting, StreamsStayBounded
DEF PoolInv

\* The invariant of the pool holds of every behaviour.
THEOREM PoolInvariant == Spec => []PoolInv
BY PoolInvStart, PoolInvStep, PTL DEF Spec

\* Every variable keeps its type: a driver's channel never holds more than
\* OPEN_BACKLOG requests, and no forward probes more slots a round than there
\* are or more rounds than the grace loop has.
THEOREM PoolTypes == Spec => []TypeOK
<1>1. PoolInv => TypeOK
  BY DEF PoolInv
<1> QED BY <1>1, PoolInvariant, PTL

\* A sequence without repetitions has as many elements as its length.
LEMMA InjectiveLen ==
    ASSUME NEW S, NEW q \in Seq(S), \A k, l \in DOMAIN q : q[k] = q[l] => k = l
    PROVE  /\ IsFiniteSet({q[k] : k \in DOMAIN q})
           /\ Cardinality({q[k] : k \in DOMAIN q}) = Len(q)
<1> DEFINE D == 1..Len(q)
           R == {q[k] : k \in DOMAIN q}
<1>1. DOMAIN q = D /\ Len(q) \in Nat /\ q \in [D -> R]
  OBVIOUS
<1>2. IsFiniteSet(D) /\ Cardinality(D) = Len(q)
  <2> DEFINE n == Len(q)
  <2> HIDE DEF n
  <2>1. n \in Nat /\ D = 1..n
    BY <1>1 DEF n
  <2>2. IsFiniteSet(1..n) /\ Cardinality(1..n) = IF 1 > n THEN 0 ELSE n - 1 + 1
    BY <2>1, FS_Interval
  <2> QED BY <2>1, <2>2 DEF n
<1>3. q \in Bijection(D, R)
  <2>1. \A a, b \in D : q[a] = q[b] => a = b
    BY <1>1
  <2>2. \A r \in R : \E a \in D : q[a] = r
    BY <1>1
  <2> HIDE DEF R, D
  <2> QED
    BY <1>1, <2>1, <2>2 DEF Bijection, Injection, Surjection, IsInjective
<1>4. ExistsBijection(D, R)
  BY <1>3 DEF ExistsBijection
<1> QED BY <1>2, <1>4, FS_Bijection

LEMMA RequestsCounted == PoolInv => RequestsMatchSession
<1> SUFFICES ASSUME PoolInv, NEW i \in Slots
             PROVE  /\ \A f \in Requests(i) : sup[i] = "driving" /\ st[f] = "waiting"
                                              /\ slot[f] = i /\ held[f] = gen[i]
                    /\ Cardinality(Requests(i)) =
                          Len(queue[i]) + (IF pending[i] = NoOne THEN 0 ELSE 1)
  BY DEF RequestsMatchSession
<1>1. /\ queue[i] \in Seq(Forwards) /\ pending[i] \in Forwards \cup {NoOne}
      /\ SlotWaits(i) /\ Len(queue[i]) \in Nat
  BY DEF PoolInv, TypeOK, RequestsWait, SlotWaits
<1>2. ASSUME NEW f \in Requests(i)
      PROVE  sup[i] = "driving" /\ st[f] = "waiting" /\ slot[f] = i /\ held[f] = gen[i]
  BY <1>1, <1>2 DEF SlotWaits, Waits, Requests
<1> DEFINE Q == {queue[i][k] : k \in DOMAIN queue[i]}
<1>3. IsFiniteSet(Q) /\ Cardinality(Q) = Len(queue[i])
  BY <1>1, InjectiveLen DEF SlotWaits
<1>4. pending[i] \notin Q
  BY <1>1 DEF SlotWaits
<1>5. Requests(i) = IF pending[i] = NoOne THEN Q ELSE Q \cup {pending[i]}
  BY DEF Requests
<1> HIDE DEF Q
<1>6. pending[i] # NoOne => Cardinality(Q \cup {pending[i]}) = Cardinality(Q) + 1
  BY <1>3, <1>4, FS_AddElement
<1>7. Cardinality(Requests(i)) = Len(queue[i]) + (IF pending[i] = NoOne THEN 0 ELSE 1)
  <2>1. CASE pending[i] = NoOne
    BY <1>1, <1>3, <1>5, <2>1
  <2>2. CASE pending[i] # NoOne
    BY <1>1, <1>3, <1>5, <1>6, <2>2
  <2> QED BY <2>1, <2>2
<1> QED BY <1>2, <1>7

\* A request never outlives the tunnel it was made on: what a driver holds are
\* the requests of forwards that wait for this session of its slot, each once.
THEOREM RequestsMatchSessions == Spec => []RequestsMatchSession
BY RequestsCounted, PoolInvariant, PTL

----------------------------------------------------------------------------
(* The inductive invariant of a search for a live slot. *)

\* A driver does not lose a request.
WaitersQueued ==
    \A f \in Forwards : st[f] = "waiting" /\ SessionAlive(f) => f \in Requests(slot[f])

\* A forward that has drawn slot i, and as long as its tunnel stands stays there.
Settled(f, i) ==
    /\ slot[f] = i
    /\ \/ st[f] \in {"look", "exchange", "relay", "closed"}
       \/ st[f] \in {"send", "waiting"} /\ held[f] = gen[i]

Others(f, i) == {g \in Forwards \ {f} : Settled(g, i)}

Probes(f) == (round[f] - 1) * PoolSize + tries[f]

\* Draws until slot i is drawn.
Distance(i) == IF next <= i THEN i - next ELSE i + PoolSize - next

\* While slot i is live, whatever forward draws it is out of the race.  A
\* forward whose probes all missed it owes that to others that drew it.
Missed(f, i) ==
    Probes(f) + Distance(i) <= (PoolSize - 1) * (Cardinality(Others(f, i)) + 1)

Searching == {"fetch", "look", "send", "waiting", "sleep"}

SearchInv ==
    \A f \in Forwards :
        /\ st[f] \notin Searching => steady[f] = {}
        /\ \A i \in steady[f] : i \in Live /\ (Settled(f, i) \/ Missed(f, i))

----------------------------------------------------------------------------
(* Who moves in a step. *)

Rests(g) ==
    /\ st'[g] = st[g] /\ slot'[g] = slot[g] /\ held'[g] = held[g]
    /\ tries'[g] = tries[g] /\ round'[g] = round[g]

LEMMA ForwardActs ==
    ASSUME PoolInv, [Next]_vars, NEW g \in Forwards
    PROVE  \/ Rests(g)
           \/ Accept(g) \/ Opening(g) \/ RelayEnds(g)
           \/ \E j \in Slots : g = pending[j] /\ (Grant(j) \/ Reject(j))
<1>1. TaskTypes /\ TypeOK /\ LoopCounted
  BY TypeParts DEF PoolInv
<1>2. ASSUME NEW f \in Forwards, f # g, TaskMoves(f) PROVE Rests(g)
  BY <1>1, <1>2 DEF TaskTypes, TaskMoves, Rests
<1>3. ASSUME NEW f \in Forwards, f # g, Accept(f) \/ Opening(f) \/ RelayEnds(f)
      PROVE  Rests(g)
  BY <1>1, <1>2, <1>3, ForwardTyped
<1>4. ASSUME NEW j \in Slots, Grant(j) \/ Reject(j), g # pending[j] PROVE Rests(g)
  BY <1>1, <1>2, <1>4, AnsweredTyped
<1>5. ASSUME UNCHANGED tasks PROVE Rests(g)
  BY <1>5 DEF tasks, Rests
<1> QED
  BY <1>3, <1>4, <1>5
  DEF Next, vars, Supervisor, Driver, DialOk, DialFailed, ClearSlot, BackoffOver,
      TakeRequest, DriverEnds

\* A tunnel that stands keeps its session and its published handle.
LEMMA LiveStays ==
    ASSUME PoolInv, [Next]_vars, NEW i \in Live, ~DriverEnds(i)
    PROVE  /\ i \in Live'
           /\ gen'[i] = gen[i]
           /\ control[i] = gen[i] /\ control[i] # 0
<1>1. SupervisorTypes /\ i \in Slots /\ sup[i] = "driving"
  BY TypeParts DEF PoolInv, Live
<1>2. control[i] = gen[i] /\ control[i] # 0
  BY <1>1 DEF PoolInv, HandlesFresh
<1>3. ASSUME NEW j \in Slots, DialOk(j) \/ DialFailed(j) \/ ClearSlot(j) \/ BackoffOver(j)
             \/ DriverEnds(j)
      PROVE  sup'[i] = "driving" /\ gen'[i] = gen[i]
  <2>1. j # i
    BY <1>1, <1>3 DEF DialOk, DialFailed, ClearSlot, BackoffOver
  <2> QED
    BY <1>1, <1>3, <2>1 DEF DialOk, DialFailed, ClearSlot, BackoffOver, DriverEnds,
       SupervisorTypes
<1>4. ASSUME UNCHANGED supervisors PROVE sup'[i] = "driving" /\ gen'[i] = gen[i]
  BY <1>1, <1>4 DEF supervisors
<1>5. sup'[i] = "driving" /\ gen'[i] = gen[i]
  BY <1>3, <1>4
  DEF Next, Supervisor, Driver, Opening, vars, TakeRequest, Grant, Reject, Accept, Fetch,
      LookEmpty, LookHandle, Send, SendFailed, WaitFailed, RoundOver, Exchange, RelayEnds
<1> QED BY <1>1, <1>2, <1>5 DEF Live

LEMMA WaitersStayQueued == PoolInv /\ WaitersQueued /\ [Next]_vars => WaitersQueued'
<1> SUFFICES ASSUME PoolInv, WaitersQueued, [Next]_vars PROVE WaitersQueued'
  OBVIOUS
<1>0. TypeOK'
  BY TypesStay DEF PoolInv
<1> SUFFICES ASSUME NEW g \in Forwards, st'[g] = "waiting",
                    NEW i \in Slots, slot'[g] = i,
                    sup'[i] = "driving", gen'[i] = held'[g]
             PROVE  \/ \E k \in DOMAIN queue'[i] : queue'[i][k] = g
                    \/ pending'[i] = g /\ pending'[i] # NoOne
  BY <1>0 DEF WaitersQueued, SessionAlive, Live, Requests, TypeOK
<1>1. /\ TypeOK /\ TaskTypes /\ LoopCounted /\ HeldIsPast /\ RequestsWait
      /\ queue[i] \in Seq(Forwards)
      /\ gen[i] \in Int /\ gen'[i] \in Int /\ gen[i] <= gen'[i] /\ g # NoOne
  <2>1. TypeOK /\ TaskTypes /\ LoopCounted /\ HeldIsPast /\ RequestsWait
    BY TypeParts DEF PoolInv
  <2>2. queue[i] \in Seq(Forwards) /\ gen[i] \in Int
    BY <2>1 DEF TypeOK
  <2>3. gen'[i] \in Int
    BY <1>0 DEF TypeOK
  <2>4. gen[i] <= gen'[i]
    BY <2>1, SessionsGrow
  <2>5. g # NoOne
    BY PoolAssumption
  <2> QED BY <2>1, <2>2, <2>3, <2>4, <2>5
<1>2. (st[g] \in Holding /\ Keeps(g))
  BY HandlesCloned DEF Holding, Cloned
<1>3. slot[g] = i /\ held[g] = gen'[i] /\ gen'[i] = gen[i]
  BY <1>1, <1>2 DEF HeldIsPast, Keeps, Holding
<1>4. CASE Send(g)
  <2>1. queue'[i] = Append(queue[i], g)
    BY <1>1, <1>3, <1>4 DEF Send, TypeOK
  <2>2. Len(queue[i]) + 1 \in DOMAIN queue'[i] /\ queue'[i][Len(queue[i]) + 1] = g
    BY <1>1, <2>1
  <2> QED BY <2>2
<1>5. CASE ~Send(g)
  <2>1. ~(Accept(g) \/ Opening(g) \/ RelayEnds(g))
    BY <1>1, <1>5 DEF Accept, Opening, RelayEnds, Fetch, LookEmpty, LookHandle, SendFailed,
       WaitFailed, RoundOver, Exchange, NextProbe, TaskTypes
  <2>2. ~\E j \in Slots : g = pending[j] /\ (Grant(j) \/ Reject(j))
    BY <1>1, TakenWaits DEF Grant, Reject, NextProbe, TaskTypes
  <2>3. st[g] = "waiting"
    BY <2>1, <2>2, ForwardActs DEF Rests
  <2>4. sup[i] = "driving"
    <3>1. sup \in [Slots -> {"dialing", "driving", "ended", "backoff"}]
          /\ gen \in [Slots -> 0..MaxSessions]
      BY <1>1 DEF TypeOK
    <3>2. ASSUME NEW j \in Slots, DialOk(j) PROVE j # i
      BY <1>1, <1>3, <3>1, <3>2 DEF DialOk
    <3>3. ASSUME NEW j \in Slots, DialOk(j) \/ DialFailed(j) \/ ClearSlot(j)
                 \/ BackoffOver(j) \/ DriverEnds(j)
          PROVE  sup[i] = "driving"
      BY <3>1, <3>2, <3>3 DEF DialOk, DialFailed, ClearSlot, BackoffOver, DriverEnds
    <3>4. ASSUME UNCHANGED supervisors PROVE sup[i] = "driving"
      BY <3>4 DEF supervisors
    <3> QED
      BY <3>3, <3>4
      DEF Next, Supervisor, Driver, Opening, vars, TakeRequest, Grant, Reject, Accept,
          Fetch, LookEmpty, LookHandle, Send, SendFailed, WaitFailed, RoundOver, Exchange,
          RelayEnds
  <2>5. g \in Requests(i)
    BY <1>3, <2>3, <2>4 DEF WaitersQueued, SessionAlive, Live
  <2>6. ~DriverEnds(i)
    BY <1>1 DEF DriverEnds, TypeOK
  <2>7. CASE queue'[i] = queue[i] /\ pending'[i] = pending[i]
    BY <2>5, <2>7 DEF Requests
  <2>8. CASE queue'[i] = queue[i] /\ (Grant(i) \/ Reject(i))
    BY <2>2, <2>5, <2>8 DEF Requests
  <2>9. CASE \E f \in Forwards : pending'[i] = pending[i] /\ queue'[i] = Append(queue[i], f)
    <3>1. PICK f \in Forwards : pending'[i] = pending[i] /\ queue'[i] = Append(queue[i], f)
      BY <2>9
    <3>2. \A k \in DOMAIN queue[i] : k \in DOMAIN queue'[i] /\ queue'[i][k] = queue[i][k]
      BY <1>1, <3>1
    <3> QED BY <2>5, <3>1, <3>2 DEF Requests
  <2>10. CASE /\ pending[i] = NoOne /\ queue[i] # <<>>
              /\ pending'[i] = Head(queue[i]) /\ queue'[i] = Tail(queue[i])
    <3>1. PICK k \in DOMAIN queue[i] : queue[i][k] = g
      BY <2>5, <2>10 DEF Requests
    <3>2. CASE k = 1
      BY <1>1, <2>10, <3>1, <3>2
    <3>3. CASE k # 1
      <4>1. k - 1 \in DOMAIN Tail(queue[i]) /\ Tail(queue[i])[k - 1] = g
        BY <1>1, <2>10, <3>1, <3>3
      <4> QED BY <2>10, <4>1
    <3> QED BY <3>2, <3>3
  <2> QED BY <2>6, <2>7, <2>8, <2>9, <2>10, ChannelMoves
<1> QED BY <1>4, <1>5

----------------------------------------------------------------------------
(* The search for a live slot. *)

\* Every tunnel has room for all the streams there can be.
Roomy == IsFiniteSet(Forwards) /\ Cardinality(Forwards) <= StreamLimit

LEMMA NoRejects ==
    ASSUME PoolInv, Roomy, NEW i \in Slots
    PROVE  ~Reject(i)
<1> SUFFICES ASSUME Reject(i) PROVE FALSE
  OBVIOUS
<1>1. pending[i] \in Forwards /\ st[pending[i]] = "waiting"
  BY TakenWaits DEF PoolInv
<1> DEFINE F == Forwards \ {pending[i]}
           S == Streams(i)
<1>2. S \subseteq F
  BY <1>1 DEF Streams
<1>3. IsFiniteSet(F) /\ Cardinality(F) = Cardinality(Forwards) - 1
  BY <1>1, FS_RemoveElement DEF Roomy
<1>4. Cardinality(S) >= StreamLimit
  BY DEF Reject
<1> HIDE DEF F, S
<1>5. IsFiniteSet(S) /\ Cardinality(S) <= Cardinality(F)
  BY <1>2, <1>3, FS_Subset
<1>6. Cardinality(S) \in Nat /\ Cardinality(F) \in Nat /\ Cardinality(Forwards) \in Nat
  BY <1>3, <1>5, FS_CardinalityType DEF Roomy
<1> QED BY <1>3, <1>4, <1>5, <1>6, PoolAssumption DEF Roomy

\* A forward that has drawn a live slot gets its stream there, and stays for as
\* long as the tunnel stands.
LEMMA SettledStays ==
    ASSUME PoolInv, WaitersQueued, Roomy, [Next]_vars,
           NEW i \in Live, ~DriverEnds(i), NEW g \in Forwards, Settled(g, i)
    PROVE  Settled(g, i)'
<1>1. /\ TaskTypes /\ TypeOK /\ i \in Slots /\ RequestsWait
      /\ control[i] = gen[i] /\ control[i] # 0 /\ gen'[i] = gen[i]
      /\ slot[g] = i
      /\ \/ st[g] \in {"look", "exchange", "relay", "closed"}
         \/ st[g] \in {"send", "waiting"} /\ held[g] = gen[i]
  BY TypeParts, LiveStays DEF PoolInv, Live, Settled
<1>2. CASE Rests(g)
  BY <1>1, <1>2 DEF Rests, Settled
<1>3. CASE \E j \in Slots : g = pending[j] /\ (Grant(j) \/ Reject(j))
  <2>1. PICK j \in Slots : g = pending[j] /\ Grant(j)
    BY <1>3, NoRejects
  <2>2. st'[g] = "exchange" /\ slot'[g] = slot[g]
    BY <1>1, <2>1 DEF Grant, TaskTypes
  <2> QED BY <1>1, <2>2 DEF Settled
<1>4. CASE LookHandle(g)
  BY <1>1, <1>4 DEF LookHandle, Settled, TaskTypes
<1>5. CASE Send(g) \/ Exchange(g) \/ RelayEnds(g)
  BY <1>1, <1>5 DEF Send, Exchange, RelayEnds, Settled, TaskTypes
<1>6. ASSUME Accept(g) \/ Fetch(g) \/ LookEmpty(g) \/ SendFailed(g) \/ WaitFailed(g)
             \/ RoundOver(g)
      PROVE  FALSE
  <2>1. st[g] \in {"send", "waiting"} => SessionAlive(g)
    BY <1>1 DEF SessionAlive
  <2>2. st[g] = "waiting" => g \in Requests(slot[g])
    BY <2>1 DEF WaitersQueued
  <2>3. st[g] \in {"look", "send", "waiting", "exchange", "relay", "closed"}
    BY <1>1
  <2> QED
    BY <1>1, <1>6, <2>1, <2>2, <2>3
    DEF Accept, Fetch, LookEmpty, SendFailed, WaitFailed, RoundOver
<1> QED BY <1>2, <1>3, <1>4, <1>5, <1>6, ForwardActs DEF Opening

\* So whoever is out of a forward's way stays out of it.
LEMMA OthersStay ==
    ASSUME PoolInv, WaitersQueued, Roomy, [Next]_vars,
           NEW i \in Live, ~DriverEnds(i), NEW f \in Forwards
    PROVE  /\ Others(f, i) \subseteq Others(f, i)'
           /\ IsFiniteSet(Others(f, i)')
           /\ Cardinality(Others(f, i)) \in Nat
           /\ Cardinality(Others(f, i)') \in Nat
           /\ Cardinality(Others(f, i)) <= Cardinality(Others(f, i)')
<1> DEFINE O == Others(f, i)
           N == Others(f, i)'
<1>1. \A g \in Forwards : Settled(g, i) => Settled(g, i)'
  BY SettledStays
<1>2. O \subseteq N /\ N \subseteq Forwards
  BY <1>1 DEF Others
<1> HIDE DEF O, N
<1>3. IsFiniteSet(N) /\ IsFiniteSet(O)
  BY <1>2, FS_Subset DEF Roomy
<1>4. Cardinality(O) <= Cardinality(N) /\ Cardinality(O) \in Nat /\ Cardinality(N) \in Nat
  BY <1>2, <1>3, FS_Subset, FS_CardinalityType
<1> QED BY <1>2, <1>3, <1>4 DEF O, N

----------------------------------------------------------------------------
(* Counting probes. *)

LEMMA Product ==
    ASSUME NEW m \in Nat, NEW c \in Nat, NEW d \in Nat, c <= d
    PROVE  /\ m * (c + 1) \in Nat
           /\ m <= m * (c + 1)
           /\ m * (c + 1) <= m * (d + 1)
           /\ m * ((c + 1) + 1) = m * (c + 1) + m
OBVIOUS

LEMMA DistanceMoves ==
    ASSUME TypeOK, NEW i \in Slots
    PROVE  /\ Distance(i) \in 0..(PoolSize - 1)
           /\ UNCHANGED next => Distance(i)' = Distance(i)
           /\ next' = (next + 1) % PoolSize =>
                 IF next = i
                 THEN Distance(i) = 0 /\ Distance(i)' = PoolSize - 1
                 ELSE Distance(i)' = Distance(i) - 1
<1>1. next \in Slots
  BY DEF TypeOK
<1>2. (next + 1) % PoolSize = IF next = PoolSize - 1 THEN 0 ELSE next + 1
  BY <1>1, NextSlot
<1> QED BY <1>1, <1>2, PoolAssumption DEF Distance, Slots

LEMMA ProbesCounted ==
    ASSUME TypeOK, NEW f \in Forwards
    PROVE  Probes(f) \in Nat
<1>1. round[f] \in Nat \ {0} /\ tries[f] \in Nat /\ PoolSize \in Nat
  BY PoolAssumption DEF TypeOK
<1>2. round[f] - 1 \in Nat
  BY <1>1
<1> QED BY <1>1, <1>2 DEF Probes

LEMMA ProbesMove ==
    ASSUME PoolInv, [Next]_vars, NEW f \in Forwards
    PROVE  \/ Probes(f)' <= Probes(f)
           \/ Fetch(f) /\ Probes(f)' = Probes(f) + 1
<1>1. /\ TypeOK /\ LoopCounted
      /\ round \in [Forwards -> 1..GraceRounds] /\ tries \in [Forwards -> 0..PoolSize]
      /\ PoolSize \in Nat \ {0} /\ GraceRounds \in Nat
  BY PoolAssumption DEF PoolInv, TypeOK
<1>2. Probes(f) \in Nat
  BY <1>1, ProbesCounted
<1>3. ASSUME tries'[f] = tries[f], round'[f] = round[f] PROVE Probes(f)' <= Probes(f)
  <2>1. Probes(f)' = Probes(f)
    BY <1>3 DEF Probes
  <2> QED BY <1>2, <2>1
<1>4. CASE Fetch(f)
  <2>1. tries'[f] = tries[f] + 1 /\ round'[f] = round[f]
    BY <1>1, <1>4 DEF Fetch
  <2> DEFINE b == (round[f] - 1) * PoolSize
  <2>2. b \in Int /\ tries[f] \in Int
    BY <1>1
  <2>3. Probes(f)' = b + (tries[f] + 1) /\ Probes(f) = b + tries[f]
    BY <2>1 DEF Probes
  <2> HIDE DEF b
  <2> QED BY <1>4, <2>2, <2>3
<1>5. CASE RoundOver(f)
  <2>1. tries'[f] = 0 /\ tries[f] = PoolSize
    BY <1>1, <1>5 DEF RoundOver, LoopCounted
  <2>2. round'[f] = round[f] + 1 \/ round'[f] = round[f]
    BY <1>1, <1>5 DEF RoundOver
  <2> DEFINE old == (round[f] - 1) * PoolSize
             new == (round'[f] - 1) * PoolSize
  <2>3. Probes(f)' = new + 0 /\ Probes(f) = old + PoolSize
    BY <2>1 DEF Probes
  <2>4. CASE round'[f] = round[f] + 1
    <3>1. round'[f] - 1 = round[f]
      BY <1>1, <2>4
    <3>2. new = round[f] * PoolSize
      BY <3>1
    <3>3. old \in Int /\ round[f] * PoolSize = old + PoolSize
      BY <1>1
    <3> HIDE DEF old, new
    <3> QED BY <1>1, <2>3, <3>2, <3>3
  <2>5. CASE round'[f] = round[f]
    <3>1. new = old /\ old \in Int
      BY <1>1, <2>5
    <3> HIDE DEF old, new
    <3> QED BY <1>1, <2>3, <3>1
  <2> QED BY <2>2, <2>4, <2>5
<1>6. CASE \/ Accept(f) \/ RelayEnds(f) \/ LookEmpty(f) \/ LookHandle(f) \/ Send(f)
           \/ SendFailed(f) \/ WaitFailed(f) \/ Exchange(f)
  BY <1>3, <1>6 DEF Accept, RelayEnds, LookEmpty, LookHandle, Send, SendFailed, WaitFailed,
     Exchange
<1>7. CASE \E j \in Slots : Grant(j) \/ Reject(j)
  BY <1>3, <1>7 DEF Grant, Reject
<1>8. CASE Rests(f)
  BY <1>3, <1>8 DEF Rests
<1> QED BY <1>4, <1>5, <1>6, <1>7, <1>8, ForwardActs DEF Opening

\* What a forward's history has, it had, or its open begins with it.
LEMMA SteadyFrom ==
    ASSUME PoolInv, [Next]_vars, NEW f \in Forwards, NEW i \in steady'[f]
    PROVE  /\ (i \in Live /\ Accept(f)) \/ i \in steady[f]
           /\ ~DriverEnds(i)
           /\ \A j \in Slots : f = pending[j] => ~Grant(j)
<1>1. TypeOK /\ steady \in [Forwards -> SUBSET Slots]
  BY DEF PoolInv, TypeOK
<1>2. ASSUME NEW j \in Slots, DriverEnds(j) PROVE i \in steady[f] /\ j # i
  BY <1>1, <1>2 DEF DriverEnds
<1>3. ASSUME NEW j \in Slots, Grant(j) PROVE i \in steady[f] /\ f # pending[j]
  BY <1>1, <1>3 DEF Grant
<1>4. ASSUME NEW j \in Slots, Reject(j) PROVE i \in steady[f]
  BY <1>1, <1>4 DEF Reject
<1>5. ASSUME NEW g \in Forwards, Accept(g)
      PROVE  (i \in Live /\ Accept(f)) \/ i \in steady[f]
  BY <1>1, <1>5 DEF Accept
<1>6. ASSUME UNCHANGED steady PROVE i \in steady[f]
  BY <1>6
<1>7. (i \in Live /\ Accept(f)) \/ i \in steady[f]
  BY <1>2, <1>3, <1>4, <1>5, <1>6
  DEF Next, vars, Supervisor, Driver, Opening, DialOk, DialFailed, ClearSlot, BackoffOver,
      TakeRequest, Fetch, LookEmpty, LookHandle, Send, SendFailed, WaitFailed, RoundOver,
      Exchange, RelayEnds
<1>8. i \in Slots
  BY <1>1, <1>7 DEF Live
<1> QED BY <1>2, <1>3, <1>7, <1>8

\* Every draw keeps the balance: a forward that misses a live slot has come
\* nearer to it, or pays with another that has drawn it.
LEMMA MissedStays ==
    ASSUME PoolInv, WaitersQueued, Roomy, [Next]_vars,
           NEW i \in Live, ~DriverEnds(i), NEW f \in Forwards, Missed(f, i)
    PROVE  (Settled(f, i) \/ Missed(f, i))'
<1> DEFINE m == PoolSize - 1
           c == Cardinality(Others(f, i))
           d == Cardinality(Others(f, i)')
           p == Probes(f)
           q == Probes(f)'
           x == Distance(i)
           y == Distance(i)'
<1>1. TypeOK /\ TypeOK' /\ i \in Slots
  BY TypesStay DEF PoolInv, Live
<1>2. c \in Nat /\ d \in Nat /\ c <= d /\ m \in Nat
  BY OthersStay, PoolAssumption
<1>3. p \in Nat /\ q \in Nat
  <2>1. p \in Nat
    BY <1>1, ProbesCounted
  <2>4. round'[f] \in 1..GraceRounds /\ tries'[f] \in 0..PoolSize
    BY <1>1 DEF TypeOK
  <2>2. round'[f] - 1 \in Nat /\ tries'[f] \in Nat /\ PoolSize \in Nat
    BY <2>4, PoolAssumption
  <2>3. q \in Nat
    BY <2>2 DEF Probes
  <2> QED BY <2>1, <2>3
<1>4. x \in 0..m
  BY <1>1, DistanceMoves
<1>5. p + x <= m * (c + 1)
  BY DEF Missed
<1>6. Missed(f, i)' <=> q + y <= m * (d + 1)
  BY DEF Missed
<1>7. UNCHANGED next => y = x
  BY <1>1, DistanceMoves
<1>8. next' = (next + 1) % PoolSize => IF next = i THEN x = 0 /\ y = m ELSE y = x - 1
  BY <1>1, DistanceMoves
<1>9. q <= p \/ (Fetch(f) /\ q = p + 1)
  BY ProbesMove
<1> HIDE DEF m, c, d, p, q, x, y
<1>10. /\ m * (c + 1) \in Nat /\ m * (d + 1) \in Nat
       /\ m * (c + 1) <= m * (d + 1)
       /\ m * ((c + 1) + 1) = m * (c + 1) + m
  BY <1>2, Product
<1>11. CASE Fetch(f)
  <2>1. next' = (next + 1) % PoolSize
    BY <1>11 DEF Fetch
  <2>2. CASE next = i
    <3>1. slot'[f] = i /\ st'[f] = "look"
      BY <1>1, <1>11, <2>2 DEF Fetch, TypeOK
    <3> QED BY <3>1 DEF Settled
  <2>3. CASE next # i
    BY <1>3, <1>4, <1>5, <1>6, <1>8, <1>9, <1>10, <2>1, <2>3
  <2> QED BY <2>2, <2>3
<1>12. CASE \E g \in Forwards : g # f /\ Fetch(g)
  <2>1. PICK g \in Forwards : g # f /\ Fetch(g)
    BY <1>12
  <2>2. next' = (next + 1) % PoolSize
    BY <2>1 DEF Fetch
  <2>3. q <= p
    <3>1. Fetch(f) => st'[g] = st[g]
      BY <1>1, <2>1 DEF Fetch, TypeOK
    <3>2. st[g] = "fetch" /\ st'[g] = "look"
      BY <1>1, <2>1 DEF Fetch, TypeOK
    <3> QED BY <1>9, <3>1, <3>2
  <2>4. CASE next = i
    <3>1. st[g] = "fetch" /\ slot'[g] = i /\ st'[g] = "look"
      BY <1>1, <2>1, <2>4 DEF Fetch, TypeOK
    <3> DEFINE O == Others(f, i)
               N == Others(f, i)'
    <3>2. g \notin O /\ g \in N
      BY <2>1, <3>1 DEF Others, Settled
    <3>3. O \subseteq N /\ IsFiniteSet(N)
      BY OthersStay
    <3>4. c = Cardinality(O) /\ d = Cardinality(N)
      BY DEF c, d
    <3> HIDE DEF O, N
    <3>5. IsFiniteSet(O)
      BY <3>3, FS_Subset
    <3>6. IsFiniteSet(O \cup {g}) /\ Cardinality(O \cup {g}) = c + 1
      BY <3>2, <3>4, <3>5, FS_AddElement
    <3>7. c + 1 <= d
      BY <3>2, <3>3, <3>4, <3>6, FS_Subset
    <3>8. m * ((c + 1) + 1) <= m * (d + 1)
      BY <1>2, <3>7, Product
    <3> QED BY <1>2, <1>3, <1>4, <1>5, <1>6, <1>8, <1>10, <2>2, <2>3, <2>4, <3>8
  <2>5. CASE next # i
    BY <1>3, <1>4, <1>5, <1>6, <1>8, <1>10, <2>2, <2>3, <2>5
  <2> QED BY <2>4, <2>5
<1>13. CASE ~\E g \in Forwards : Fetch(g)
  <2>1. UNCHANGED next
    BY <1>13
    DEF Next, vars, tasks, Supervisor, Driver, Opening, DialOk, DialFailed, ClearSlot,
        BackoffOver, DriverEnds, TakeRequest, Grant, Reject, Accept, LookEmpty, LookHandle,
        Send, SendFailed, WaitFailed, RoundOver, Exchange, RelayEnds
  <2> QED BY <1>3, <1>4, <1>5, <1>6, <1>7, <1>9, <1>10, <1>13, <2>1
<1> QED BY <1>11, <1>12, <1>13

\* More probes than all the forwards there are can divert.
EnoughRounds == (PoolSize - 1) * Cardinality(Forwards) < PoolSize * GraceRounds

\* A forward that is through with its last round has missed no slot that was
\* live throughout: it would have diverted more probes than there are others.
LEMMA LastRound ==
    ASSUME PoolInv, Roomy, EnoughRounds, SearchInv, NEW f \in Forwards,
           st[f] = "sleep", round[f] = GraceRounds
    PROVE  steady[f] = {}
<1> SUFFICES ASSUME NEW i \in steady[f] PROVE FALSE
  OBVIOUS
<1> DEFINE O == Others(f, i)
           F == Forwards \ {f}
           m == PoolSize - 1
           c == Cardinality(O)
           n == Cardinality(Forwards)
<1>1. TypeOK /\ i \in Slots /\ tries[f] = PoolSize
  BY DEF PoolInv, TypeOK, LoopCounted
<1>2. Missed(f, i)
  BY DEF SearchInv, Settled
<1>3. IsFiniteSet(F) /\ Cardinality(F) = n - 1 /\ n \in Nat
  BY FS_RemoveElement, FS_CardinalityType DEF Roomy
<1>4. O \subseteq F
  BY DEF Others
<1>5. IsFiniteSet(O) /\ c <= Cardinality(F) /\ c \in Nat
  <2> HIDE DEF F, O
  <2> QED BY <1>3, <1>4, FS_Subset, FS_CardinalityType
<1>6. c <= n - 1 /\ n - 1 \in Nat /\ m \in Nat
  BY <1>3, <1>5, PoolAssumption
<1>7. Probes(f) = PoolSize * GraceRounds
  <2>1. GraceRounds \in Nat /\ PoolSize \in Nat
    BY PoolAssumption
  <2>2. (GraceRounds - 1) * PoolSize + PoolSize = PoolSize * GraceRounds
    BY <2>1
  <2> QED BY <1>1, <2>2 DEF Probes
<1>8. Distance(i) \in Nat
  BY <1>1, DistanceMoves, PoolAssumption
<1>9. Probes(f) + Distance(i) <= m * (c + 1)
  BY <1>2 DEF Missed
<1>10. m * n < PoolSize * GraceRounds
  BY DEF EnoughRounds
<1>11. PoolSize * GraceRounds \in Nat
  BY PoolAssumption
<1> HIDE DEF m, c, n
<1>12. m * (c + 1) <= m * ((n - 1) + 1) /\ m * (c + 1) \in Nat /\ m * ((n - 1) + 1) \in Nat
  <2>1. m * (c + 1) <= m * ((n - 1) + 1) /\ m * (c + 1) \in Nat
    BY <1>5, <1>6, Product
  <2>2. n - 1 <= n - 1
    BY <1>6
  <2> QED BY <1>6, <2>1, <2>2, Product
<1>13. m * ((n - 1) + 1) = m * n
  <2>1. (n - 1) + 1 = n
    BY <1>3
  <2> QED BY <2>1
<1> QED BY <1>7, <1>8, <1>9, <1>10, <1>11, <1>12, <1>13

LEMMA SearchInvStep ==
    ASSUME PoolInv, WaitersQueued, Roomy, EnoughRounds, SearchInv, [Next]_vars
    PROVE  SearchInv'
<1> SUFFICES ASSUME NEW f \in Forwards
             PROVE  /\ st'[f] \notin Searching => steady'[f] = {}
                    /\ \A i \in steady'[f] : i \in Live' /\ (Settled(f, i) \/ Missed(f, i))'
  BY DEF SearchInv
<1>1. TypeOK /\ TaskTypes /\ LoopCounted
  BY TypeParts DEF PoolInv
<1>2. ASSUME st'[f] \notin Searching, NEW i \in steady'[f] PROVE FALSE
  <2>1. CASE Accept(f)
    BY <1>1, <1>2, <2>1 DEF Accept, TaskTypes, Searching
  <2>2. CASE ~Accept(f)
    <3>1. /\ i \in steady[f]
          /\ \A j \in Slots : f = pending[j] => ~Grant(j)
      BY <1>2, <2>2, SteadyFrom
    <3>2. st[f] \in Searching
      BY <3>1 DEF SearchInv
    <3>3. ~Rests(f)
      BY <1>2, <3>2 DEF Rests
    <3>4. ~\E j \in Slots : f = pending[j] /\ (Grant(j) \/ Reject(j))
      BY <3>1, NoRejects
    <3>5. Opening(f)
      <4>1. ~RelayEnds(f)
        BY <3>2 DEF RelayEnds, Searching
      <4> QED BY <2>2, <3>3, <3>4, <4>1, ForwardActs
    <3>6. RoundOver(f) /\ round[f] = GraceRounds
      <4>1. ~(Fetch(f) \/ LookEmpty(f) \/ LookHandle(f) \/ Send(f) \/ SendFailed(f)
              \/ WaitFailed(f))
        BY <1>1, <1>2 DEF Fetch, LookEmpty, LookHandle, Send, SendFailed, WaitFailed,
           NextProbe, TaskTypes, Searching
      <4>2. ~Exchange(f)
        BY <3>2 DEF Exchange, Searching
      <4>3. RoundOver(f)
        BY <3>5, <4>1, <4>2 DEF Opening
      <4>4. CASE st' = [st EXCEPT ![f] = "fetch"]
        BY <1>1, <1>2, <4>4 DEF TaskTypes, Searching
      <4> QED BY <4>3, <4>4 DEF RoundOver
    <3> QED BY <3>1, <3>6, LastRound DEF RoundOver
  <2> QED BY <2>1, <2>2
<1>3. ASSUME NEW i \in steady'[f]
      PROVE  i \in Live' /\ (Settled(f, i) \/ Missed(f, i))'
  <2>1. ~DriverEnds(i)
    BY SteadyFrom
  <2>2. CASE i \in steady[f]
    <3>1. i \in Live /\ (Settled(f, i) \/ Missed(f, i))
      BY <2>2 DEF SearchInv
    <3>2. i \in Live'
      BY <2>1, <3>1, LiveStays
    <3>3. CASE Settled(f, i)
      BY <2>1, <3>1, <3>2, <3>3, SettledStays
    <3>4. CASE Missed(f, i)
      BY <2>1, <3>1, <3>2, <3>4, MissedStays
    <3> QED BY <3>1, <3>3, <3>4
  <2>3. CASE i \in Live /\ Accept(f)
    <3>1. i \in Live'
      BY <2>1, <2>3, LiveStays
    <3>2. /\ tries'[f] = 0 /\ round'[f] = 1 /\ UNCHANGED next
          /\ i \in Slots /\ PoolSize \in Nat \ {0}
      BY <1>1, <2>3, PoolAssumption DEF Accept, LoopCounted, Live
    <3>3. Probes(f)' = 0
      BY <3>2 DEF Probes
    <3> DEFINE m == PoolSize - 1
               d == Cardinality(Others(f, i)')
               y == Distance(i)'
    <3>4. y \in 0..m
      BY <1>1, <3>2, DistanceMoves
    <3>5. d \in Nat /\ m \in Nat
      BY <2>1, <2>3, <3>2, OthersStay
    <3>6. Missed(f, i)' <=> 0 + y <= m * (d + 1)
      BY <3>3 DEF Missed
    <3> HIDE DEF m, d, y
    <3>7. m <= m * (d + 1) /\ m * (d + 1) \in Nat
      <4>1. d <= d
        BY <3>5
      <4> QED BY <3>5, <4>1, Product
    <3> QED BY <3>1, <3>4, <3>5, <3>6, <3>7
  <2> QED BY <2>2, <2>3, SteadyFrom
<1> QED BY <1>2, <1>3

\* "no live tunnel to server" (client.rs:171) is said only when no slot has been
\* live, with room, all the time the forward was trying.  The rounds must be
\* enough for the slots and the forwards: a crowd that draws all the dead slots
\* between two probes of one forward can make it miss a live one every time.
THEOREM GiveUp ==
    ASSUME Roomy, EnoughRounds
    PROVE  Spec => []GiveUpMeansNoLiveTunnel
<1> DEFINE Inv == PoolInv /\ WaitersQueued /\ SearchInv
<1>1. Init => Inv
  <2> SUFFICES ASSUME Init PROVE Inv
    OBVIOUS
  <2>1. WaitersQueued /\ SearchInv
    BY DEF Init, WaitersQueued, SearchInv
  <2> QED BY <2>1, PoolInvStart
<1>2. Inv /\ [Next]_vars => Inv'
  BY PoolInvStep, WaitersStayQueued, SearchInvStep
<1>3. Inv => GiveUpMeansNoLiveTunnel
  BY DEF SearchInv, Searching, GiveUpMeansNoLiveTunnel
<1> HIDE DEF Inv
<1> QED BY <1>1, <1>2, <1>3, PTL DEF Spec

====
