---- MODULE RelayProofs ----
(***************************************************************************)
(* Theorems about Admission and Relay, for all clients, dials, forwards    *)
(* and ports.                                                              *)
(***************************************************************************)
EXTENDS Relay, TLAPS

----------------------------------------------------------------------------
(* The inductive invariant of Admission. *)

PausesLeft == \A c \in Clients : dial[c] = "pause" => tries[c] < RetryAttempts

\* Only a listed client's first message is answered; a tunnel of the server is
\* an answered connection, and an answered one has been a tunnel.
AnsweredListed == \A k \in answered : Listed(k[1])
TunnelsAnswered == \A k \in Conns : task[k] = "tunnel" => k \in answered
AnsweredServed == \A k \in answered : task[k] \in {"tunnel", "over"}

\* A connection that has not been made has no task.
Unmade(k) ==
    \/ dials[k[1]] < k[2]
    \/ dials[k[1]] = k[2] /\ dial[k[1]] \in {"connecting", "pause"}
UnmadeUnserved == \A k \in Conns : Unmade(k) => task[k] = "none"

\* A client's knock is sealed by a holder of both keys, and the firewall opens
\* only once a knock was used up.
SealedByHolder(j) == j \in Conns => Seals(j[1])
IssuedSealed == \A j \in issued : SealedByHolder(j)
Paid == \E j \in issued : spent[j] > 0 /\ SealedByHolder(j)
OpenByKnock == IssuedSealed /\ (open # {} => Paid)

AdmissionInv ==
    /\ TypeOK
    /\ PausesLeft
    /\ AnsweredListed
    /\ TunnelsAnswered
    /\ AnsweredServed
    /\ UnmadeUnserved
    /\ OpenByKnock
    /\ AdmittedByKnock
    /\ MutuallyAuthenticated

----------------------------------------------------------------------------
(* The inductive invariant of Relay. *)

\* A forward that asks has a tunnel of an authenticated client, which is the
\* client's present dial at most until it ends.
Carried(f) ==
    /\ fwd[f] # "idle"
    /\ via[f] \in answered
    /\ holds[via[f][1]] = Credentials
    /\ via[f][2] <= dials[via[f][1]]
    /\ via[f] = Conn(via[f][1]) => dial[via[f][1]] \in {"up", "backoff"}

Untouched(f) ==
    /\ fwd[f] = "idle"
    /\ hnd[f] = "none"
    /\ reply[f] = "none"
    /\ target[f] = "none"
    /\ ends[f] = {}

CarriedOrUntouched ==
    \A f \in Forwards : (via[f] = Nobody /\ Untouched(f)) \/ (via[f] # Nobody /\ Carried(f))

\* A handler that has got past the egress list.
Permitted ==
    \A f \in Forwards :
        hnd[f] \in {"dialing", "ok", "relaying", "done"} \/ target[f] # "none" =>
            port[f] \in Egress

\* "ok" is answered, and read, only of a target that was reached.
OkMeansReached ==
    \A f \in Forwards :
        hnd[f] \in {"ok", "relaying"} \/ reply[f] = "ok" \/ fwd[f] = "relaying" =>
            target[f] # "none"

\* The order in which the ends of input travel.
EndsInOrder ==
    \A f \in Forwards :
        /\ "sent" \in ends[f] => "app" \in ends[f] /\ wrote[f] = put[f]
        /\ fwd[f] = "done" => "sent" \in ends[f]
        /\ hnd[f] = "done" => "returned" \in ends[f]
        /\ "returned" \in ends[f] => "target" \in ends[f]

RelayInv ==
    /\ AdmissionInv
    /\ RelayTypeOK
    /\ CarriedOrUntouched
    /\ Permitted
    /\ OkMeansReached
    /\ EndsInOrder
    /\ EndsAreReal

----------------------------------------------------------------------------
(* Admission. *)

LEMMA ConnsAre ==
    ASSUME NEW k \in Conns
    PROVE  k[1] \in Clients /\ k[2] \in Nat \ {0} /\ k = <<k[1], k[2]>>
BY AdmissionAssumption DEF Conns

\* The dial that is under way has a connection.
LEMMA ConnInConns ==
    ASSUME TypeOK, NEW c \in Clients, dial[c] # "backoff"
    PROVE  Conn(c) \in Conns
BY AdmissionAssumption DEF TypeOK, Conn, Conns

\* Credentials never change, so a knock once paid stays so.
LEMMA PaidStays ==
    ASSUME UNCHANGED holds, issued \subseteq issued',
           \A j \in issued : spent[j] > 0 => spent'[j] > 0
    PROVE  Paid => Paid'
BY DEF Paid, SealedByHolder, Seals

\* A step that leaves the credentials and the gate alone.
LEMMA GateStays ==
    ASSUME OpenByKnock, UNCHANGED <<holds, gate>>
    PROVE  OpenByKnock' /\ (Paid => Paid')
BY DEF OpenByKnock, IssuedSealed, Paid, SealedByHolder, Seals, gate

\* What every step of the gate keeps.
LEMMA GateStepKeeps ==
    ASSUME TypeOK, OpenByKnock, GateStep
    PROVE  /\ issued' \subseteq Knocks
           /\ spent' \in [Knocks -> 0..1]
           /\ open' \subseteq Addresses
           /\ Paid => Paid'
           /\ OpenByKnock'
<1>t. /\ issued \subseteq Knocks
      /\ spent \in [Knocks -> 0..1]
      /\ open \subseteq Addresses
      /\ IssuedSealed /\ (open # {} => Paid)
  BY DEF TypeOK, OpenByKnock
<1>h. UNCHANGED holds
  BY DEF GateStep
<1>s. \A j : SealedByHolder(j)' <=> SealedByHolder(j)
  BY <1>h DEF SealedByHolder, Seals
<1>1. CASE \E j \in Others : Gate!Issue(j)
  <2>1. PICK j \in Others : issued' = issued \cup {j} /\ UNCHANGED <<spent, open>>
    BY <1>1 DEF Gate!Issue
  <2>2. SealedByHolder(j)
    BY AdmissionAssumption DEF SealedByHolder
  <2>3. IssuedSealed' /\ (Paid => Paid')
    BY <1>t, <1>h, <1>s, <2>1, <2>2, PaidStays DEF IssuedSealed
  <2> QED BY <1>t, <2>1, <2>3 DEF OpenByKnock, Knocks
<1>2. CASE \E j \in Knocks, s \in Addresses : Gate!Open(j, s)
  <2>1. PICK j \in Knocks, s \in Addresses :
           /\ j \in issued
           /\ spent[j] < 1
           /\ spent' = [spent EXCEPT ![j] = spent[j] + 1]
           /\ open' = open \cup {s}
           /\ UNCHANGED issued
    BY <1>2 DEF Gate!Open
  <2>2. /\ spent' \in [Knocks -> 0..1]
        /\ spent'[j] > 0
    BY <1>t, <2>1
  <2>3. IssuedSealed' /\ SealedByHolder(j)'
    BY <1>t, <1>s, <2>1 DEF IssuedSealed
  <2>4. Paid'
    BY <2>1, <2>2, <2>3 DEF Paid
  <2> QED BY <1>t, <2>1, <2>2, <2>3, <2>4 DEF OpenByKnock
<1>3. CASE \E j \in Knocks : Gate!Waste(j)
  <2>1. PICK j \in Knocks :
           /\ spent[j] < 1
           /\ spent' = [spent EXCEPT ![j] = spent[j] + 1]
           /\ UNCHANGED <<issued, open>>
    BY <1>3 DEF Gate!Waste
  <2>2. /\ spent' \in [Knocks -> 0..1]
        /\ \A i \in Knocks : spent[i] > 0 => spent'[i] > 0
    BY <1>t, <2>1
  <2>3. IssuedSealed' /\ (Paid => Paid')
    BY <1>t, <1>h, <1>s, <2>1, <2>2, PaidStays DEF IssuedSealed
  <2> QED BY <1>t, <2>1, <2>2, <2>3 DEF OpenByKnock
<1>4. CASE \E s \in open : Gate!Lapse({s})
  <2>1. open' \subseteq open /\ UNCHANGED <<issued, spent>>
    BY <1>4 DEF Gate!Lapse
  <2>2. IssuedSealed' /\ (Paid => Paid')
    BY <1>t, <1>h, <1>s, <2>1, PaidStays DEF IssuedSealed
  <2> QED BY <1>t, <2>1, <2>2 DEF OpenByKnock
<1> QED BY <1>1, <1>2, <1>3, <1>4 DEF GateStep

\* What a knock by a client keeps of the gate's state.
LEMMA KnockKeeps ==
    ASSUME TypeOK, OpenByKnock, NEW c \in Clients, Knock(c)
    PROVE  /\ dials' = [dials EXCEPT ![c] = dials[c] + 1]
           /\ issued' \subseteq Knocks
           /\ UNCHANGED <<spent, open>>
           /\ Paid => Paid'
           /\ OpenByKnock'
<1> DEFINE j == <<c, dials[c] + 1>>
<1>1. j \in Knocks
  <2>1. MaxDials \in Nat /\ dials[c] \in 0..MaxDials
    BY AdmissionAssumption DEF TypeOK
  <2>2. dials[c] < MaxDials
    BY DEF Knock
  <2>3. dials[c] + 1 \in 1..MaxDials
    BY <2>1, <2>2
  <2> QED BY <2>3 DEF Knocks, Conns
<1>2. /\ issued' = issued \/ (issued' = issued \cup {j} /\ Seals(c))
      /\ UNCHANGED <<holds, spent, open>>
  BY DEF Knock, gate, Gate!Issue
<1>3. issued \subseteq Knocks /\ IssuedSealed /\ (open # {} => Paid)
  BY DEF TypeOK, OpenByKnock
<1>4. j[1] = c
  OBVIOUS
<1> HIDE DEF j
<1>5. \A i : SealedByHolder(i)' <=> SealedByHolder(i)
  BY <1>2 DEF SealedByHolder, Seals
<1>6. Seals(c) => SealedByHolder(j)
  BY <1>4 DEF SealedByHolder
<1>7. IssuedSealed' /\ (Paid => Paid')
  BY <1>2, <1>3, <1>5, <1>6, PaidStays DEF IssuedSealed
<1> QED BY <1>1, <1>2, <1>3, <1>7 DEF Knock, OpenByKnock

\* Every step of Admission keeps its types, and a pause is followed by
\* another attempt only while there is one left.
LEMMA AdmissionTypeStep ==
    ASSUME TypeOK, PausesLeft, OpenByKnock, AdmissionStep
    PROVE  TypeOK' /\ PausesLeft'
<1> USE AdmissionAssumption
<1> DEFINE Good == TypeOK /\ PausesLeft
<1>c. ASSUME NEW c \in Clients, Knock(c) \/ KnockFailed(c) \/ Dialing(c)
      PROVE  Good'
  <2>1. CASE Knock(c)
    <3>1. /\ dials' \in [Clients -> 0..MaxDials]
          /\ dial' \in [Clients -> {"backoff", "connecting", "pause", "hello", "up"}]
          /\ tries' \in [Clients -> 0..RetryAttempts]
          /\ \A d \in Clients : dial'[d] # "backoff" => dials'[d] > 0
      <4>1. /\ dials[c] < MaxDials
            /\ dials' = [dials EXCEPT ![c] = dials[c] + 1]
            /\ tries' = [tries EXCEPT ![c] = 1]
            /\ dial' = [dial EXCEPT ![c] = "connecting"]
        BY <2>1 DEF Knock, DialState
      <4> QED BY <4>1 DEF TypeOK
    <3>2. UNCHANGED <<holds, task, answered, dead>>
      BY <2>1 DEF Knock, server
    <3>3. PausesLeft'
      BY <2>1 DEF Knock, DialState, TypeOK, PausesLeft
    <3> QED BY <2>1, <3>1, <3>2, <3>3, KnockKeeps, Zenon DEF TypeOK
  <2>2. CASE KnockFailed(c)
    BY <2>2 DEF TypeOK, PausesLeft, KnockFailed, server, gate
  <2>3. CASE ConnectFails(c)
    BY <2>3 DEF TypeOK, PausesLeft, ConnectFails, Attempts, DialState, server, gate
  <2>4. CASE PauseOver(c)
    BY <2>4 DEF TypeOK, PausesLeft, PauseOver, DialState, server, gate
  <2>5. CASE Connects(c)
    <3>1. Conn(c) \in Conns
      BY <2>5, ConnInConns DEF Connects
    <3> QED BY <2>5, <3>1 DEF TypeOK, PausesLeft, Connects, DialState, gate
  <2>6. CASE ReadReply(c)
    BY <2>6 DEF TypeOK, PausesLeft, ReadReply, DialState, server, gate
  <2>7. CASE SeesClose(c)
    BY <2>7 DEF TypeOK, PausesLeft, SeesClose, DialState, server, gate
  <2>8. CASE KeepaliveFails(c)
    BY <2>8 DEF TypeOK, PausesLeft, KeepaliveFails, DialState, server, gate
  <2> QED BY <1>c, <2>1, <2>2, <2>3, <2>4, <2>5, <2>6, <2>7, <2>8 DEF Dialing
<1>k. ASSUME NEW k \in Conns, Serving(k) \/ TaskFails(k) \/ PathDies(k)
      PROVE  Good'
  <2>1. /\ UNCHANGED <<holds, dial, dials, tries, issued, spent, open>>
        /\ task' \in [Conns -> {"none", "accept", "tunnel", "over"}]
        /\ answered' \subseteq Conns
        /\ dead' \subseteq Conns
    BY <1>k DEF TypeOK, Serving, Refuse, Answer, HandshakeTimeout, TaskSeesClose,
       TaskFails, PathDies, TaskState, client, server, gate
  <2> QED BY <2>1, Zenon DEF TypeOK, PausesLeft
<1>g. CASE GateStep
  <2>1. UNCHANGED <<holds, dial, dials, tries, task, answered, dead>>
    BY <1>g DEF GateStep, client, server
  <2> QED BY <1>g, <2>1, GateStepKeeps, Zenon DEF TypeOK, PausesLeft
<1> QED BY <1>c, <1>k, <1>g DEF AdmissionStep

\* What a step of a client's dial keeps, other than the connect itself: the
\* server's state, and what became of the connections already made.
LEMMA DialKeeps ==
    ASSUME AdmissionInv, NEW c \in Clients,
           Knock(c) \/ KnockFailed(c) \/ ConnectFails(c) \/ PauseOver(c)
              \/ ReadReply(c) \/ SeesClose(c) \/ KeepaliveFails(c)
    PROVE  /\ UNCHANGED <<holds, task, answered>>
           /\ \A k \in Conns : Unmade(k)' => Unmade(k)
           /\ Paid => Paid'
           /\ OpenByKnock'
           /\ MutuallyAuthenticated'
<1>t. /\ dial \in [Clients -> {"backoff", "connecting", "pause", "hello", "up"}]
      /\ dials \in [Clients -> 0..MaxDials]
      /\ holds \in [Clients -> SUBSET (Credentials \cup {Recording})]
      /\ MaxDials \in Nat
  BY AdmissionAssumption DEF AdmissionInv, TypeOK
<1>l. AnsweredListed /\ MutuallyAuthenticated
  BY DEF AdmissionInv
<1>k. \A k \in Conns : k[1] \in Clients /\ k[2] \in Nat
  BY ConnsAre
<1>1. CASE Knock(c) \/ KnockFailed(c)
  <2>1. /\ dial[c] = "backoff"
        /\ dials' = [dials EXCEPT ![c] = dials[c] + 1]
        /\ dial' \in {dial, [dial EXCEPT ![c] = "connecting"]}
        /\ UNCHANGED <<holds, task, answered>>
    BY <1>1 DEF Knock, KnockFailed, DialState, server
  <2>2. \A k \in Conns : Unmade(k)' => Unmade(k)
    BY <1>t, <1>k, <2>1 DEF Unmade
  <2>3. MutuallyAuthenticated'
    BY <1>t, <1>l, <2>1 DEF MutuallyAuthenticated, Conn
  <2>4. (Paid => Paid') /\ OpenByKnock'
    <3>1. CASE Knock(c)
      BY <3>1, KnockKeeps DEF AdmissionInv
    <3>2. CASE KnockFailed(c)
      BY <3>2, GateStays DEF AdmissionInv, KnockFailed
    <3> QED BY <1>1, <3>1, <3>2
  <2> QED BY <2>1, <2>2, <2>3, <2>4
<1>2. CASE ConnectFails(c) \/ PauseOver(c) \/ ReadReply(c) \/ SeesClose(c)
             \/ KeepaliveFails(c)
  <2>1. UNCHANGED <<holds, dials, task, answered, gate>>
    BY <1>2 DEF ConnectFails, PauseOver, ReadReply, SeesClose, KeepaliveFails, server
  <2>2. (Paid => Paid') /\ OpenByKnock'
    BY <2>1, GateStays DEF AdmissionInv
  <2>3. \/ /\ dial[c] \in {"connecting", "pause"}
           /\ dial' \in {[dial EXCEPT ![c] = "pause"], [dial EXCEPT ![c] = "connecting"]}
        \/ dial' = [dial EXCEPT ![c] = "backoff"]
        \/ /\ dial' = [dial EXCEPT ![c] = "up"]
           /\ Conn(c) \in answered
           /\ "psk" \in holds[c] /\ ~Replays(c)
    BY <1>2 DEF ConnectFails, PauseOver, ReadReply, SeesClose, KeepaliveFails, DialState
  <2>4. \A k \in Conns : Unmade(k)' => Unmade(k)
    BY <1>t, <1>k, <2>1, <2>3 DEF Unmade
  <2>5. MutuallyAuthenticated'
    <3>1. ASSUME Conn(c) \in answered, "psk" \in holds[c], ~Replays(c)
          PROVE  holds[c] = Credentials
      <4>1. Conn(c)[1] = c
        BY DEF Conn
      <4>2. Credentials \subseteq holds[c]
        BY <1>l, <3>1, <4>1 DEF AnsweredListed, Listed, Credentials
      <4>3. holds[c] \subseteq Credentials \cup {Recording} /\ Recording \notin holds[c]
        BY <1>t, <3>1 DEF Replays
      <4> QED BY <4>2, <4>3
    <3>2. \A d \in Clients : Conn(d)' = Conn(d)
      BY <2>1 DEF Conn
    <3> QED BY <1>t, <1>l, <2>1, <2>3, <3>1, <3>2 DEF MutuallyAuthenticated
  <2> QED BY <2>1, <2>2, <2>4, <2>5
<1> QED BY <1>1, <1>2

\* The connect: the gate is open, and the connection gets its one task.
LEMMA ConnectKeeps ==
    ASSUME AdmissionInv, NEW c \in Clients, Connects(c)
    PROVE  /\ UNCHANGED <<holds, answered, issued, spent, open>>
           /\ Conn(c) \in Conns \ answered
           /\ task' = [task EXCEPT ![Conn(c)] = "accept"]
           /\ \A k \in Conns : Unmade(k)' => Unmade(k) /\ k # Conn(c)
           /\ Knocking => Paid
           /\ MutuallyAuthenticated'
<1>t. /\ dial \in [Clients -> {"backoff", "connecting", "pause", "hello", "up"}]
      /\ dials \in [Clients -> 0..MaxDials]
      /\ MaxDials \in Nat
      /\ TypeOK /\ UnmadeUnserved /\ AnsweredServed /\ MutuallyAuthenticated
      /\ OpenByKnock
  BY AdmissionAssumption DEF AdmissionInv, TypeOK
<1>k. \A k \in Conns : k[1] \in Clients /\ k[2] \in Nat /\ k = <<k[1], k[2]>>
  BY ConnsAre
<1>1. /\ dial[c] = "connecting"
      /\ dial' = [dial EXCEPT ![c] = "hello"]
      /\ task' = [task EXCEPT ![Conn(c)] = "accept"]
      /\ UNCHANGED <<holds, dials, answered, issued, spent, open>>
      /\ Knocking => Address[c] \in open
  BY DEF Connects, DialState, gate
<1>2. Conn(c) \in Conns
  BY <1>t, <1>1, ConnInConns
<1>3. Conn(c) \notin answered
  <2>1. Unmade(Conn(c))
    BY <1>1 DEF Unmade, Conn
  <2>2. task[Conn(c)] = "none"
    BY <1>t, <1>2, <2>1 DEF UnmadeUnserved
  <2> QED BY <1>t, <2>2 DEF AnsweredServed
<1>4. \A k \in Conns : Unmade(k)' => Unmade(k) /\ k # Conn(c)
  BY <1>t, <1>k, <1>1 DEF Unmade, Conn
<1>5. MutuallyAuthenticated'
  BY <1>t, <1>1 DEF MutuallyAuthenticated, Conn
<1> QED BY <1>t, <1>1, <1>2, <1>3, <1>4, <1>5 DEF OpenByKnock

\* The server's steps: a task that is there answers a listed key, or is over.
LEMMA ServerKeeps ==
    ASSUME NEW k \in Conns, Serving(k) \/ TaskFails(k) \/ PathDies(k)
    PROVE  /\ UNCHANGED <<holds, dial, dials, issued, spent, open>>
           /\ \/ UNCHANGED <<task, answered>>
              \/ /\ task[k] \in {"accept", "tunnel"}
                 /\ task' = [task EXCEPT ![k] = "over"]
                 /\ UNCHANGED answered
              \/ /\ task[k] = "accept"
                 /\ Listed(k[1])
                 /\ task' = [task EXCEPT ![k] = "tunnel"]
                 /\ answered' = answered \cup {k}
BY DEF Serving, Refuse, Answer, HandshakeTimeout, TaskSeesClose, TaskFails, PathDies,
   ServerSide, TaskState, client, server, gate

\* What a step of Admission does to the server's tasks and answers.
Moved ==
    \/ UNCHANGED <<task, answered>>
    \/ \E c \in Clients :
          /\ Conn(c) \in Conns \ answered
          /\ task' = [task EXCEPT ![Conn(c)] = "accept"]
          /\ UNCHANGED answered
          /\ Knocking => Paid
          /\ \A k \in Conns : Unmade(k)' => k # Conn(c)
    \/ \E k \in Conns :
          /\ task[k] \in {"accept", "tunnel"}
          /\ task' = [task EXCEPT ![k] = "over"]
          /\ UNCHANGED answered
    \/ \E k \in Conns :
          /\ task[k] = "accept"
          /\ Listed(k[1])
          /\ task' = [task EXCEPT ![k] = "tunnel"]
          /\ answered' = answered \cup {k}

\* Every step moves the tasks so and keeps the rest.
LEMMA AdmissionMoves ==
    ASSUME AdmissionInv, AdmissionStep
    PROVE  /\ UNCHANGED holds
           /\ Paid => Paid'
           /\ \A k \in Conns : Unmade(k)' => Unmade(k)
           /\ OpenByKnock'
           /\ MutuallyAuthenticated'
           /\ Moved
<1> DEFINE Kept ==
      /\ UNCHANGED holds
      /\ Paid => Paid'
      /\ \A k \in Conns : Unmade(k)' => Unmade(k)
      /\ OpenByKnock'
      /\ MutuallyAuthenticated'
<1>i. TypeOK /\ OpenByKnock /\ MutuallyAuthenticated
  BY DEF AdmissionInv
<1>1. ASSUME NEW c \in Clients, Knock(c) \/ KnockFailed(c) \/ Dialing(c)
      PROVE  Kept /\ Moved
  <2>1. CASE Connects(c)
    <3>1. Kept
      BY <1>i, <2>1, ConnectKeeps, GateStays DEF gate
    <3>2. /\ Conn(c) \in Conns \ answered
          /\ task' = [task EXCEPT ![Conn(c)] = "accept"]
          /\ UNCHANGED answered
          /\ Knocking => Paid
          /\ \A k \in Conns : Unmade(k)' => k # Conn(c)
      BY <2>1, ConnectKeeps
    <3>3. Moved
      BY <3>2, Zenon DEF Moved
    <3> QED BY <3>1, <3>3
  <2>2. CASE ~Connects(c)
    <3>1. UNCHANGED <<holds, task, answered>> /\ Kept
      BY <1>1, <2>2, DialKeeps DEF Dialing
    <3> QED BY <3>1 DEF Moved
  <2> QED BY <2>1, <2>2
<1>2. ASSUME NEW k \in Conns, Serving(k) \/ TaskFails(k) \/ PathDies(k)
      PROVE  Kept /\ Moved
  <2>1. Moved
    BY <1>2, ServerKeeps, Zenon DEF Moved
  <2>2. \A c \in Clients : Conn(c)' = Conn(c)
    BY <1>2, ServerKeeps DEF Conn
  <2>3. answered \subseteq answered'
    BY <1>2, ServerKeeps
  <2>4. MutuallyAuthenticated'
    BY <1>2, <1>i, <2>2, <2>3, ServerKeeps DEF MutuallyAuthenticated
  <2>5. Kept
    BY <1>2, <1>i, <2>4, ServerKeeps, GateStays DEF Unmade, gate
  <2> QED BY <2>1, <2>5
<1>3. ASSUME GateStep PROVE Kept /\ Moved
  <2>1. UNCHANGED <<holds, dial, dials, task, answered>>
    BY <1>3 DEF GateStep, client, server
  <2>2. MutuallyAuthenticated' /\ \A k \in Conns : Unmade(k)' => Unmade(k)
    BY <1>i, <2>1 DEF MutuallyAuthenticated, Conn, Unmade
  <2> QED BY <1>i, <1>3, <2>1, <2>2, GateStepKeeps DEF Moved
<1> QED BY <1>1, <1>2, <1>3, Zenon DEF AdmissionStep

\* A stutter of Admission, which is what a step of Relay is.
LEMMA AdmissionStutter ==
    ASSUME AdmissionInv, UNCHANGED admission
    PROVE  AdmissionInv'
<1>1. UNCHANGED <<holds, dial, dials, tries, task, answered, dead, issued, spent, open>>
  BY DEF admission, client, server, gate
<1>2. TypeOK' /\ PausesLeft' /\ OpenByKnock'
  BY <1>1, GateStays, Zenon DEF AdmissionInv, TypeOK, PausesLeft, gate
<1>3. AnsweredListed' /\ TunnelsAnswered' /\ AnsweredServed' /\ UnmadeUnserved'
  BY <1>1 DEF AdmissionInv, AnsweredListed, TunnelsAnswered, AnsweredServed, UnmadeUnserved,
     Unmade, Listed, Replays
<1>4. AdmittedByKnock' /\ MutuallyAuthenticated'
  BY <1>1 DEF AdmissionInv, AdmittedByKnock, MutuallyAuthenticated, Conn, Seals, Listed,
     Replays
<1> QED BY <1>2, <1>3, <1>4 DEF AdmissionInv

LEMMA AdmissionInitially ==
    ASSUME AdmissionInit
    PROVE  AdmissionInv
<1> USE AdmissionAssumption DEF AdmissionInit
<1>1. issued = {} /\ spent = [k \in Knocks |-> 0] /\ open = {}
  BY DEF Gate!Init
<1>2. TypeOK /\ PausesLeft /\ OpenByKnock
  BY <1>1 DEF TypeOK, PausesLeft, OpenByKnock, IssuedSealed
<1>3. AnsweredListed /\ TunnelsAnswered /\ AnsweredServed /\ UnmadeUnserved
  BY DEF AnsweredListed, TunnelsAnswered, AnsweredServed, UnmadeUnserved
<1>4. AdmittedByKnock /\ MutuallyAuthenticated
  BY DEF AdmittedByKnock, MutuallyAuthenticated
<1> QED BY <1>2, <1>3, <1>4 DEF AdmissionInv

LEMMA AdmissionInvStep ==
    ASSUME AdmissionInv, AdmissionStep
    PROVE  AdmissionInv'
<1>i. /\ AnsweredListed /\ TunnelsAnswered /\ AnsweredServed /\ UnmadeUnserved
      /\ AdmittedByKnock
      /\ task \in [Conns -> {"none", "accept", "tunnel", "over"}]
      /\ answered \subseteq Conns
  BY DEF AdmissionInv, TypeOK
<1>k. \A k \in Conns : k[1] \in Clients /\ Address[k[1]] \in Addresses
  BY AdmissionAssumption, ConnsAre
<1>m. /\ UNCHANGED holds
      /\ Paid => Paid'
      /\ \A k \in Conns : Unmade(k)' => Unmade(k)
      /\ OpenByKnock' /\ MutuallyAuthenticated'
      /\ Moved
  BY AdmissionMoves
<1>t. TypeOK' /\ PausesLeft'
  BY AdmissionTypeStep DEF AdmissionInv
<1>a. AdmittedByKnock <=>
        \A k \in Conns : task[k] # "none" =>
            /\ Knocking => Paid
            /\ task[k] = "tunnel" => Listed(k[1])
  BY DEF AdmittedByKnock, Paid, SealedByHolder
<1>b. AdmittedByKnock' <=>
        \A k \in Conns : task'[k] # "none" =>
            /\ Knocking => Paid'
            /\ task'[k] = "tunnel" => Listed(k[1])'
  BY DEF AdmittedByKnock, Paid, SealedByHolder
<1>l. \A k : Listed(k[1])' <=> Listed(k[1])
  BY <1>m DEF Listed, Replays
<1> DEFINE Kept ==
      /\ AnsweredListed' /\ TunnelsAnswered' /\ AnsweredServed' /\ UnmadeUnserved'
      /\ AdmittedByKnock'
<1> USE DEF AnsweredListed, TunnelsAnswered, AnsweredServed, UnmadeUnserved
<1>1. ASSUME UNCHANGED <<task, answered>> PROVE Kept
  BY <1>1, <1>i, <1>k, <1>m, <1>a, <1>b, <1>l
<1>2. ASSUME NEW c \in Clients,
             Conn(c) \in Conns \ answered,
             task' = [task EXCEPT ![Conn(c)] = "accept"],
             UNCHANGED answered,
             Knocking => Paid,
             \A k \in Conns : Unmade(k)' => k # Conn(c)
      PROVE  Kept
  <2>2. AnsweredListed' /\ TunnelsAnswered' /\ AnsweredServed' /\ UnmadeUnserved'
    BY <1>2, <1>i, <1>m, <1>l
  <2>3. AdmittedByKnock'
    BY <1>2, <1>i, <1>k, <1>m, <1>a, <1>b, <1>l
  <2> QED BY <2>2, <2>3
<1>3. ASSUME NEW k \in Conns,
             task[k] \in {"accept", "tunnel"},
             task' = [task EXCEPT ![k] = "over"],
             UNCHANGED answered
      PROVE  Kept
  <2>1. AnsweredListed' /\ TunnelsAnswered' /\ AnsweredServed' /\ UnmadeUnserved'
    BY <1>3, <1>i, <1>m, <1>l
  <2>2. AdmittedByKnock'
    BY <1>3, <1>i, <1>k, <1>m, <1>a, <1>b, <1>l
  <2> QED BY <2>1, <2>2
<1>4. ASSUME NEW k \in Conns,
             task[k] = "accept",
             Listed(k[1]),
             task' = [task EXCEPT ![k] = "tunnel"],
             answered' = answered \cup {k}
      PROVE  Kept
  <2>1. AnsweredListed' /\ TunnelsAnswered' /\ AnsweredServed' /\ UnmadeUnserved'
    BY <1>4, <1>i, <1>m, <1>l
  <2>2. AdmittedByKnock'
    BY <1>4, <1>i, <1>k, <1>m, <1>a, <1>b, <1>l
  <2> QED BY <2>1, <2>2
<1>5. Kept
  BY <1>1, <1>2, <1>3, <1>4, <1>m, Zenon DEF Moved
<1> QED BY <1>5, <1>m, <1>t DEF AdmissionInv

\* In every behaviour of Relay the parts of Admission stay well formed, and
\* the invariants of admission hold.
THEOREM AdmissionInvariant == Spec => []AdmissionInv
<1>1. Init => AdmissionInv
  BY AdmissionInitially DEF Init
<1>2. AdmissionInv /\ [Next]_vars => AdmissionInv'
  BY AdmissionInvStep, AdmissionStutter DEF Next, vars
<1> QED BY <1>1, <1>2, PTL DEF Spec

\* THREAT_MODEL.md: "they still face the Noise gate".  With knock gating on, the
\* server has a task for a connection only after a knock was used up that a
\* holder of its key and the pre-shared key sealed, and drives a tunnel only
\* for a listed client's first message, recorded or its own.
THEOREM TunnelsAreAdmitted == Spec => []AdmittedByKnock
<1>1. AdmissionInv => AdmittedByKnock
  BY DEF AdmissionInv
<1> QED BY <1>1, AdmissionInvariant, PTL

\* THREAT_MODEL.md: "cannot complete the Noise handshake".  A client that
\* takes its tunnel for established holds all three credentials, and the
\* server did answer it.
THEOREM TunnelsAreAuthenticated == Spec => []MutuallyAuthenticated
<1>1. AdmissionInv => MutuallyAuthenticated
  BY DEF AdmissionInv
<1> QED BY <1>1, AdmissionInvariant, PTL

----------------------------------------------------------------------------
(* Relay under the steps of Admission. *)

\* Dials only grow in number, and the latest is not revived.
LEMMA ClientMoves ==
    ASSUME TypeOK, AdmissionStep, NEW c \in Clients
    PROVE  /\ dials[c] <= dials'[c]
           /\ dials'[c] = dials[c] /\ dial[c] \in {"up", "backoff"}
                 => dial'[c] \in {dial[c], "backoff"}
<1>t. /\ dial \in [Clients -> {"backoff", "connecting", "pause", "hello", "up"}]
      /\ dials \in [Clients -> 0..MaxDials]
      /\ MaxDials \in Nat
  BY AdmissionAssumption DEF TypeOK
<1>1. ASSUME NEW d \in Clients, Knock(d) \/ KnockFailed(d)
      PROVE  dials' = [dials EXCEPT ![d] = dials[d] + 1]
             /\ dial' \in {dial, [dial EXCEPT ![d] = "connecting"]}
  BY <1>1 DEF Knock, KnockFailed, DialState
<1>2. ASSUME NEW d \in Clients, Dialing(d)
      PROVE  /\ dials' = dials
             /\ \/ dial[d] \in {"connecting", "pause", "hello"}
                \/ dial' = [dial EXCEPT ![d] = "backoff"]
             /\ \A e \in Clients \ {d} : dial'[e] = dial[e]
  BY <1>2, <1>t DEF Dialing, ConnectFails, PauseOver, Connects, ReadReply, SeesClose,
     KeepaliveFails, DialState
<1>3. ASSUME NEW k \in Conns, Serving(k) \/ TaskFails(k) \/ PathDies(k)
      PROVE  UNCHANGED <<dial, dials>>
  BY <1>3, ServerKeeps
<1>4. GateStep => UNCHANGED <<dial, dials>>
  BY DEF GateStep, client
<1>5. CASE \E d \in Clients : Knock(d) \/ KnockFailed(d)
  BY <1>t, <1>1, <1>5
<1>6. CASE \E d \in Clients : Dialing(d)
  BY <1>t, <1>2, <1>6
<1>7. CASE (\E k \in Conns : Serving(k) \/ TaskFails(k) \/ PathDies(k)) \/ GateStep
  BY <1>t, <1>3, <1>4, <1>7
<1> QED BY <1>5, <1>6, <1>7 DEF AdmissionStep

\* Once an end of a forward's tunnel is gone it stays gone.
LEMMA LostForGood ==
    ASSUME AdmissionInv, AdmissionStep, UNCHANGED relay,
           NEW f \in Forwards, Carried(f)
    PROVE  Carried(f)' /\ (ServerLost(f) => ServerLost(f)')
                       /\ (ClientLost(f) => ClientLost(f)')
<1> DEFINE c == via[f][1]
<1>1. UNCHANGED <<fwd, via>>
  BY DEF relay
<1>2. /\ TypeOK /\ AnsweredServed
      /\ task \in [Conns -> {"none", "accept", "tunnel", "over"}]
      /\ dials \in [Clients -> 0..MaxDials] /\ MaxDials \in Nat
      /\ answered \subseteq Conns
  BY AdmissionAssumption DEF AdmissionInv, TypeOK
<1>3. via[f] \in Conns /\ c \in Clients /\ via[f][2] \in Nat
  BY <1>2, ConnsAre DEF Carried
<1>4. Moved /\ UNCHANGED holds /\ TypeOK'
  BY AdmissionMoves, AdmissionTypeStep DEF AdmissionInv
<1>5. answered \subseteq answered'
  BY <1>4 DEF Moved
<1>6. /\ dials[c] <= dials'[c]
      /\ dials'[c] = dials[c] /\ dial[c] \in {"up", "backoff"}
            => dial'[c] \in {dial[c], "backoff"}
  BY <1>2, <1>3, ClientMoves
<1>7. dials'[c] \in Nat /\ dials[c] \in Nat
  BY <1>2, <1>3, <1>4 DEF TypeOK
<1>8. ServerLost(f) => ServerLost(f)'
  <2>1. task[via[f]] \in {"tunnel", "over"}
    BY <1>2 DEF Carried, AnsweredServed
  <2>2. task[via[f]] = "over" => task'[via[f]] = "over"
    BY <1>2, <1>3, <1>4, <2>1 DEF Moved, Carried
  <2> QED BY <1>1, <2>1, <2>2 DEF ServerLost
<1>9. /\ Conn(c)' = <<c, dials'[c]>>
      /\ Conn(c) = <<c, dials[c]>>
      /\ via[f] = <<c, via[f][2]>>
  BY <1>1, <1>3, ConnsAre DEF Conn
<1>10. via[f] = Conn(c)' => via[f] = Conn(c) /\ dials'[c] = dials[c]
  BY <1>3, <1>6, <1>7, <1>9 DEF Carried
<1>11. via[f] = Conn(c)' => dial[c] \in {"up", "backoff"} /\ dial'[c] \in {dial[c], "backoff"}
  BY <1>6, <1>10 DEF Carried
<1>12. ClientLost(f) => ClientLost(f)'
  BY <1>1, <1>10, <1>11 DEF ClientLost
<1>13. Carried(f)'
  BY <1>1, <1>3, <1>4, <1>5, <1>6, <1>7, <1>11 DEF Carried
<1> QED BY <1>8, <1>12, <1>13

LEMMA RelayInvAdmissionStep ==
    ASSUME RelayInv, AdmissionStep, UNCHANGED relay
    PROVE  RelayInv'
<1>1. UNCHANGED <<fwd, via, port, hnd, reply, target, ends, put, wrote, got>>
  BY DEF relay, copies
<1>2. AdmissionInv' /\ TypeOK'
  BY AdmissionInvStep DEF RelayInv, AdmissionInv
<1>3. RelayTypeOK'
  BY <1>1, <1>2, Zenon DEF RelayInv, RelayTypeOK
<1>4. Permitted' /\ OkMeansReached' /\ EndsInOrder'
  BY <1>1 DEF RelayInv, Permitted, OkMeansReached, EndsInOrder
<1>5. \A f \in Forwards :
         \/ via[f] = Nobody /\ Untouched(f)
         \/ /\ via[f] # Nobody /\ Carried(f)'
            /\ ServerLost(f) => ServerLost(f)'
            /\ ClientLost(f) => ClientLost(f)'
  BY LostForGood DEF RelayInv, CarriedOrUntouched
<1>6. CarriedOrUntouched'
  BY <1>1, <1>5 DEF CarriedOrUntouched, Untouched
<1>7. EndsAreReal'
  BY <1>1, <1>5 DEF RelayInv, EndsAreReal, Untouched
<1> QED BY <1>2, <1>3, <1>4, <1>6, <1>7 DEF RelayInv

----------------------------------------------------------------------------
(* Steps of Relay, by what they change. *)

\* Nothing but a request gives a forward its tunnel, so the ends of it are
\* where they were.
LEMMA EndsStay ==
    ASSUME UNCHANGED <<admission, via>>, NEW f \in Forwards
    PROVE  (ServerLost(f)' <=> ServerLost(f)) /\ (ClientLost(f)' <=> ClientLost(f))
BY DEF ServerLost, ClientLost, Conn, admission, client, server

LEMMA CarriedStays ==
    ASSUME UNCHANGED <<admission, via>>, NEW f \in Forwards, Carried(f),
           fwd'[f] # "idle"
    PROVE  Carried(f)'
BY DEF Carried, Conn, admission, client, server

\* The task of forward_one goes on, to its end at the latest.
LEMMA ForwardMoves ==
    ASSUME RelayInv, NEW f \in Forwards, UNCHANGED admission,
           \/ ReadAnswer(f) \/ AnswerLost(f) \/ ExchangeTimeout(f)
           \/ ClientDone(f) \/ ClientWriteFails(f) \/ AppResets(f)
    PROVE  RelayInv'
<1>1. /\ fwd[f] \in {"asked", "relaying"}
      /\ UNCHANGED <<via, port, hnd, reply, target, ends, put, wrote, got>>
      /\ \/ fwd' = [fwd EXCEPT ![f] = "relaying"] /\ reply[f] = "ok"
         \/ fwd' = [fwd EXCEPT ![f] = "done"] /\ "sent" \in ends[f]
         \/ fwd' = [fwd EXCEPT ![f] = "gone"]
  BY DEF ReadAnswer, AnswerLost, ExchangeTimeout, ClientDone, ClientWriteFails, AppResets,
     FwdState, copies
<1>2. /\ fwd \in [Forwards -> {"idle", "asked", "relaying", "done", "gone"}]
      /\ \A g \in Forwards : via[g] = Nobody => fwd[g] = "idle" /\ hnd[g] = "none"
  BY DEF RelayInv, RelayTypeOK
<1>3. AdmissionInv' /\ TypeOK'
  BY AdmissionStutter DEF RelayInv, AdmissionInv
<1>4. RelayTypeOK'
  <2>1. /\ fwd' \in [Forwards -> {"idle", "asked", "relaying", "done", "gone"}]
        /\ \A g \in Forwards : via[g] = Nobody => fwd'[g] = "idle" /\ hnd[g] = "none"
    BY <1>1, <1>2
  <2> QED BY <1>1, <1>3, <2>1, Zenon DEF RelayInv, RelayTypeOK
<1>5. CarriedOrUntouched'
  <2>1. \A g \in Forwards : fwd[g] # "idle" => fwd'[g] # "idle"
    BY <1>1, <1>2
  <2>2. \A g \in Forwards : Carried(g) => Carried(g)'
    BY <1>1, <2>1, CarriedStays DEF Carried
  <2>3. \A g \in Forwards : via[g] = Nobody => fwd'[g] = fwd[g]
    BY <1>1, <1>2
  <2> QED BY <1>1, <2>2, <2>3 DEF RelayInv, CarriedOrUntouched, Untouched
<1>6. Permitted'
  BY <1>1 DEF RelayInv, Permitted
<1>7. OkMeansReached' /\ EndsInOrder'
  BY <1>1, <1>2 DEF RelayInv, OkMeansReached, EndsInOrder
<1>8. EndsAreReal'
  BY <1>1, <1>2, EndsStay DEF RelayInv, EndsAreReal
<1> QED BY <1>3, <1>4, <1>5, <1>6, <1>7, <1>8 DEF RelayInv

\* A handler comes to be, or goes on: to dial only what is permitted, to "ok"
\* and the relay only with a target.
LEMMA HandlerMoves ==
    ASSUME RelayInv, NEW f \in Forwards, UNCHANGED admission,
           \/ Spawn(f) \/ ReadRequest(f) \/ RequestCut(f) \/ TargetAccepts(f)
           \/ TargetRefuses(f) \/ Reply(f) \/ ReplyFails(f) \/ HandlerDone(f)
           \/ HandlerFails(f)
    PROVE  RelayInv'
<1> DEFINE States == {"none", "reading", "dialing", "relaying", "done", "gone"} \cup Responses
<1>t. /\ hnd \in [Forwards -> States]
      /\ reply \in [Forwards -> Responses \cup {"none"}]
      /\ target \in [Forwards -> {"none", "open", "closed"}]
      /\ \A g \in Forwards : via[g] = Nobody => fwd[g] = "idle" /\ hnd[g] = "none"
      /\ Permitted /\ OkMeansReached
  BY DEF RelayInv, RelayTypeOK
<1>1. PICK v \in States \ {"none"}, w \in {"none", "open", "closed"}, r \in Responses \cup {"none"} :
         /\ hnd' = [hnd EXCEPT ![f] = v]
         /\ target' = [target EXCEPT ![f] = w]
         /\ reply' = [reply EXCEPT ![f] = r]
         /\ hnd[f] \notin {"done", "gone"}
         /\ target[f] # "none" => w # "none"
         /\ v \in {"dialing", "ok", "relaying", "done"} \/ w # "none" => port[f] \in Egress
         /\ v \in {"ok", "relaying"} \/ r = "ok" => w # "none"
         /\ v = "done" => "returned" \in ends[f]
         /\ UNCHANGED <<fwd, via, port, ends, put, wrote, got>>
         /\ via[f] # Nobody
  <2> DEFINE Moves(v, w, r) ==
         /\ hnd' = [hnd EXCEPT ![f] = v]
         /\ target' = [target EXCEPT ![f] = w]
         /\ reply' = [reply EXCEPT ![f] = r]
         /\ hnd[f] \notin {"done", "gone"}
         /\ target[f] # "none" => w # "none"
         /\ v \in {"dialing", "ok", "relaying", "done"} \/ w # "none" => port[f] \in Egress
         /\ v \in {"ok", "relaying"} \/ r = "ok" => w # "none"
         /\ v = "done" => "returned" \in ends[f]
         /\ UNCHANGED <<fwd, via, port, ends, put, wrote, got>>
         /\ via[f] # Nobody
  <2> DEFINE Goal == \E v \in States \ {"none"}, w \in {"none", "open", "closed"},
                          r \in Responses \cup {"none"} : Moves(v, w, r)
  <2>t. /\ target = [target EXCEPT ![f] = target[f]]
        /\ reply = [reply EXCEPT ![f] = reply[f]]
        /\ target[f] \in {"none", "open", "closed"}
        /\ reply[f] \in Responses \cup {"none"}
        /\ target[f] # "none" => port[f] \in Egress
        /\ reply[f] = "ok" => target[f] # "none"
    BY <1>t DEF Permitted, OkMeansReached
  <2> USE DEF HndState, copies, Responses
  <2>1. CASE Spawn(f)
    <3>1. Moves("reading", target[f], reply[f])
      BY <1>t, <2>1, <2>t DEF Spawn
    <3> QED BY <2>t, <3>1
  <2>2. CASE ReadRequest(f)
    <3>1. \E v \in {"dialing", "denied"} : Moves(v, target[f], reply[f])
      BY <1>t, <2>2, <2>t DEF ReadRequest
    <3> QED BY <2>t, <3>1
  <2>3. CASE RequestCut(f) \/ ReplyFails(f) \/ HandlerFails(f)
    <3>1. /\ hnd' = [hnd EXCEPT ![f] = "gone"]
          /\ target' = [target EXCEPT ![f] = IF target[f] = "open" THEN "closed" ELSE target[f]]
          /\ hnd[f] \in {"reading", "relaying"} \cup Responses
          /\ UNCHANGED <<fwd, via, port, reply, ends, put, wrote, got>>
      BY <2>3 DEF RequestCut, ReplyFails, HandlerFails, HandlerGone
    <3>2. CASE target[f] = "open"
      <4>1. Moves("gone", "closed", reply[f])
        BY <1>t, <2>t, <3>1, <3>2
      <4> QED BY <2>t, <4>1
    <3>3. CASE target[f] # "open"
      <4>1. Moves("gone", target[f], reply[f])
        BY <1>t, <2>t, <3>1, <3>3
      <4> QED BY <2>t, <4>1
    <3> QED BY <3>2, <3>3
  <2>4. CASE TargetAccepts(f)
    <3>1. port[f] \in Egress
      BY <1>t, <2>4 DEF TargetAccepts, Permitted
    <3>2. Moves("ok", "open", reply[f])
      BY <1>t, <2>4, <2>t, <3>1 DEF TargetAccepts
    <3> QED BY <2>t, <3>2
  <2>5. CASE TargetRefuses(f)
    <3>1. Moves("unreachable", target[f], reply[f])
      BY <1>t, <2>5, <2>t DEF TargetRefuses
    <3> QED BY <2>t, <3>1
  <2>6. CASE Reply(f)
    <3>1. hnd[f] = "ok" => target[f] # "none" /\ port[f] \in Egress
      BY <1>t DEF Permitted, OkMeansReached
    <3>2. \E v \in {"relaying", "gone"}, r \in {reply[f], hnd[f]} : Moves(v, target[f], r)
      BY <1>t, <2>6, <2>t, <3>1 DEF Reply
    <3> QED BY <2>t, <2>6, <3>2 DEF Reply
  <2>7. CASE HandlerDone(f)
    <3>1. port[f] \in Egress
      BY <1>t, <2>7 DEF HandlerDone, Permitted
    <3>2. Moves("done", "closed", reply[f])
      BY <1>t, <2>7, <2>t, <3>1 DEF HandlerDone
    <3> QED BY <2>t, <3>2
  <2> QED BY <2>1, <2>2, <2>3, <2>4, <2>5, <2>6, <2>7
<1>3. AdmissionInv' /\ TypeOK'
  BY AdmissionStutter DEF RelayInv, AdmissionInv
<1>4. RelayTypeOK'
  <2>1. /\ hnd' \in [Forwards -> States]
        /\ reply' \in [Forwards -> Responses \cup {"none"}]
        /\ target' \in [Forwards -> {"none", "open", "closed"}]
        /\ \A g \in Forwards : via[g] = Nobody => fwd[g] = "idle" /\ hnd'[g] = "none"
    BY <1>1, <1>t
  <2> QED BY <1>1, <1>3, <2>1, Zenon DEF RelayInv, RelayTypeOK
<1>5. CarriedOrUntouched'
  <2>1. \A g \in Forwards : Carried(g) => Carried(g)'
    BY <1>1, CarriedStays DEF Carried
  <2>2. \A g \in Forwards : via[g] = Nobody =>
           hnd'[g] = hnd[g] /\ target'[g] = target[g] /\ reply'[g] = reply[g]
    BY <1>1, <1>t
  <2> QED BY <1>1, <2>1, <2>2 DEF RelayInv, CarriedOrUntouched, Untouched
<1>6. Permitted'
  BY <1>1, <1>t DEF Permitted
<1>7. OkMeansReached'
  BY <1>1, <1>t DEF OkMeansReached
<1>8. EndsInOrder'
  BY <1>1, <1>t DEF RelayInv, EndsInOrder
<1>9. EndsAreReal'
  BY <1>1, <1>t, EndsStay DEF RelayInv, EndsAreReal
<1> QED BY <1>3, <1>4, <1>5, <1>6, <1>7, <1>8, <1>9 DEF RelayInv

\* An end of input travels one step further.
LEMMA EndMoves ==
    ASSUME RelayInv, NEW f \in Forwards, UNCHANGED admission,
           \/ AppEnds(f) \/ ClientEnds(f) \/ ClientTells(f) \/ HandlerEnds(f)
           \/ TargetEnds(f) \/ HandlerReturns(f)
    PROVE  RelayInv'
<1> DEFINE Marks == {"app", "sent", "passed", "target", "returned", "told"}
<1>t. /\ ends \in [Forwards -> SUBSET Marks]
      /\ \A g \in Forwards : via[g] = Nobody => Untouched(g)
      /\ \A g \in Forwards : got[g] \in Nat /\ wrote[g] \in Nat /\ put[g] \in Nat
      /\ EndsInOrder /\ EndsAreReal
  BY RelayAssumption DEF RelayInv, RelayTypeOK, CarriedOrUntouched, Carried
<1>1. PICK m \in Marks :
         /\ ends' = [ends EXCEPT ![f] = ends[f] \cup {m}]
         /\ UNCHANGED <<fwd, via, port, hnd, reply, target, put, wrote, got>>
         /\ via[f] # Nobody
         /\ m = "sent" => "app" \in ends[f] /\ wrote[f] = put[f]
         /\ m = "returned" => "target" \in ends[f]
         /\ m = "passed" /\ ~ServerLost(f) /\ fwd[f] # "gone" =>
               "app" \in ends[f] /\ got[f] = put[f]
         /\ m = "told" /\ ~ClientLost(f) /\ hnd[f] # "gone" => "target" \in ends[f]
  <2> USE DEF End, Untouched
  <2>1. CASE AppEnds(f)
    BY <1>t, <2>1 DEF AppEnds
  <2>2. CASE ClientEnds(f)
    BY <1>t, <2>2 DEF ClientEnds
  <2>3. CASE ClientTells(f)
    BY <1>t, <2>3 DEF ClientTells, ClientCut, EndsInOrder
  <2>4. CASE HandlerEnds(f)
    BY <1>t, <2>4 DEF HandlerEnds, ServerCut, EndsInOrder
  <2>5. CASE TargetEnds(f)
    BY <1>t, <2>5 DEF TargetEnds
  <2>6. CASE HandlerReturns(f)
    BY <1>t, <2>6 DEF HandlerReturns
  <2> QED BY <2>1, <2>2, <2>3, <2>4, <2>5, <2>6
<1>2. /\ ends' \in [Forwards -> SUBSET Marks]
      /\ ends'[f] = ends[f] \cup {m}
      /\ \A g \in Forwards : g # f => ends'[g] = ends[g]
  BY <1>t, <1>1
<1>3. AdmissionInv' /\ TypeOK'
  BY AdmissionStutter DEF RelayInv, AdmissionInv
<1>4. RelayTypeOK'
  BY <1>1, <1>2, <1>3, Zenon DEF RelayInv, RelayTypeOK
<1>5. CarriedOrUntouched'
  <2>1. \A g \in Forwards : Carried(g) => Carried(g)'
    BY <1>1, CarriedStays DEF Carried
  <2> QED BY <1>1, <1>2, <2>1 DEF RelayInv, CarriedOrUntouched, Untouched
<1>6. Permitted' /\ OkMeansReached'
  BY <1>1 DEF RelayInv, Permitted, OkMeansReached
<1>7. EndsInOrder'
  BY <1>1, <1>2, <1>t DEF EndsInOrder
<1>8. EndsAreReal'
  BY <1>1, <1>2, <1>t, EndsStay DEF EndsAreReal
<1> QED BY <1>3, <1>4, <1>5, <1>6, <1>7, <1>8 DEF RelayInv

\* A byte is sent, or copied at one of the ends.
LEMMA ByteMoves ==
    ASSUME RelayInv, NEW f \in Forwards, UNCHANGED admission,
           AppSends(f) \/ ClientCopies(f) \/ HandlerCopies(f)
    PROVE  RelayInv'
<1>t. /\ MaxBytes \in Nat
      /\ put \in [Forwards -> 0..MaxBytes]
      /\ wrote \in [Forwards -> 0..MaxBytes]
      /\ got \in [Forwards -> 0..MaxBytes]
      /\ \A g \in Forwards : got[g] <= wrote[g] /\ wrote[g] <= put[g]
      /\ EndsInOrder /\ EndsAreReal
  BY RelayAssumption DEF RelayInv, RelayTypeOK
<1>1. UNCHANGED <<fwd, via, port, hnd, reply, target, ends>>
  BY DEF AppSends, ClientCopies, HandlerCopies
<1>2. \/ /\ "app" \notin ends[f]
         /\ put[f] < MaxBytes
         /\ put' = [put EXCEPT ![f] = put[f] + 1]
         /\ UNCHANGED <<wrote, got>>
      \/ /\ wrote[f] < put[f]
         /\ wrote' = [wrote EXCEPT ![f] = wrote[f] + 1]
         /\ UNCHANGED <<put, got>>
      \/ /\ got[f] < wrote[f]
         /\ got' = [got EXCEPT ![f] = got[f] + 1]
         /\ UNCHANGED <<put, wrote>>
  BY DEF AppSends, ClientCopies, HandlerCopies
<1>3. AdmissionInv' /\ TypeOK'
  BY AdmissionStutter DEF RelayInv, AdmissionInv
<1>4. RelayTypeOK'
  <2>1. /\ put' \in [Forwards -> 0..MaxBytes]
        /\ wrote' \in [Forwards -> 0..MaxBytes]
        /\ got' \in [Forwards -> 0..MaxBytes]
        /\ \A g \in Forwards : got'[g] <= wrote'[g] /\ wrote'[g] <= put'[g]
    BY <1>t, <1>2
  <2> QED BY <1>1, <1>3, <2>1, Zenon DEF RelayInv, RelayTypeOK
<1>5. CarriedOrUntouched'
  <2>1. \A g \in Forwards : Carried(g) => Carried(g)'
    BY <1>1, CarriedStays DEF Carried
  <2> QED BY <1>1, <2>1 DEF RelayInv, CarriedOrUntouched, Untouched
<1>6. Permitted' /\ OkMeansReached'
  BY <1>1 DEF RelayInv, Permitted, OkMeansReached
<1>7. EndsInOrder'
  BY <1>1, <1>2, <1>t DEF EndsInOrder
<1>8. EndsAreReal'
  BY <1>1, <1>2, <1>t, EndsStay DEF EndsAreReal
<1> QED BY <1>3, <1>4, <1>5, <1>6, <1>7, <1>8 DEF RelayInv

\* A forward gets a stream of a live tunnel.
LEMMA Asks ==
    ASSUME RelayInv, NEW f \in Forwards, UNCHANGED admission, Ask(f)
    PROVE  RelayInv'
<1>t. /\ fwd \in [Forwards -> {"idle", "asked", "relaying", "done", "gone"}]
      /\ via \in [Forwards -> Conns \cup {Nobody}]
      /\ \A g \in Forwards : via[g] = Nobody => fwd[g] = "idle" /\ hnd[g] = "none"
      /\ CarriedOrUntouched
      /\ answered \subseteq Conns
      /\ dials \in [Clients -> 0..MaxDials] /\ MaxDials \in Nat
  BY AdmissionAssumption DEF RelayInv, RelayTypeOK, TypeOK
<1>1. PICK c \in Clients : dial[c] = "up" /\ via' = [via EXCEPT ![f] = Conn(c)]
  BY DEF Ask
<1>2. /\ fwd[f] = "idle"
      /\ fwd' = [fwd EXCEPT ![f] = "asked"]
      /\ UNCHANGED <<port, hnd, reply, target, ends, put, wrote, got>>
  BY DEF Ask, FwdState, copies
<1>3. UNCHANGED <<holds, dial, dials, task, answered>>
  BY DEF admission, client, server
<1>4. Conn(c) \in answered /\ holds[c] = Credentials /\ Conn(c) = <<c, dials[c]>>
  BY <1>1 DEF RelayInv, AdmissionInv, MutuallyAuthenticated, Conn
<1>5. Conn(c) # Nobody
  BY <1>4 DEF Nobody
<1>6. Untouched(f)
  BY <1>2, <1>t DEF CarriedOrUntouched, Carried
<1>7. \A g \in Forwards : g # f => via'[g] = via[g] /\ fwd'[g] = fwd[g]
  BY <1>1, <1>2, <1>t
<1>8. via'[f] = Conn(c) /\ fwd'[f] = "asked"
  BY <1>1, <1>2, <1>t
<1>9. AdmissionInv' /\ TypeOK'
  BY AdmissionStutter DEF RelayInv, AdmissionInv
<1>10. RelayTypeOK'
  <2>1. /\ fwd' \in [Forwards -> {"idle", "asked", "relaying", "done", "gone"}]
        /\ via' \in [Forwards -> Conns \cup {Nobody}]
    BY <1>1, <1>2, <1>4, <1>t
  <2>2. \A g \in Forwards : via'[g] = Nobody => fwd'[g] = "idle" /\ hnd[g] = "none"
    BY <1>5, <1>7, <1>8, <1>t
  <2> QED BY <1>2, <1>9, <2>1, <2>2, Zenon DEF RelayInv, RelayTypeOK
<1>11. CarriedOrUntouched'
  <2>1. Carried(f)'
    <3>1. Conn(c)[1] = c /\ Conn(c)[2] = dials[c] /\ dials[c] \in Nat
      BY <1>4, <1>t
    <3>2. Conn(c)' = Conn(c)
      BY <1>3 DEF Conn
    <3> QED BY <1>1, <1>3, <1>4, <1>8, <3>1, <3>2 DEF Carried
  <2>2. ASSUME NEW g \in Forwards, g # f
        PROVE  /\ Carried(g) => Carried(g)'
               /\ Untouched(g) => Untouched(g)'
    BY <1>2, <1>3, <1>7, <2>2 DEF Carried, Untouched, Conn
  <2> QED BY <1>5, <1>7, <1>8, <2>1, <2>2, <1>t DEF CarriedOrUntouched
<1>12. Permitted'
  BY <1>2 DEF RelayInv, Permitted
<1>13. OkMeansReached' /\ EndsInOrder'
  BY <1>2, <1>7, <1>8 DEF RelayInv, OkMeansReached, EndsInOrder
<1>14. EndsAreReal'
  <2>1. \A g \in Forwards : g # f =>
           (ServerLost(g)' <=> ServerLost(g)) /\ (ClientLost(g)' <=> ClientLost(g))
    BY <1>3, <1>7 DEF ServerLost, ClientLost, Conn
  <2> QED BY <1>2, <1>6, <1>7, <2>1 DEF RelayInv, EndsAreReal, Untouched
<1> QED BY <1>9, <1>10, <1>11, <1>12, <1>13, <1>14 DEF RelayInv

LEMMA RelayInitially ==
    ASSUME Init
    PROVE  RelayInv
<1> USE DEF Init
<1>1. AdmissionInv /\ TypeOK
  BY AdmissionInitially DEF AdmissionInv
<1>2. RelayTypeOK
  BY <1>1, RelayAssumption DEF RelayTypeOK
<1>3. CarriedOrUntouched /\ Permitted
  BY DEF CarriedOrUntouched, Untouched, Permitted
<1>4. OkMeansReached /\ EndsInOrder /\ EndsAreReal
  BY DEF OkMeansReached, EndsInOrder, EndsAreReal
<1> QED BY <1>1, <1>2, <1>3, <1>4 DEF RelayInv

\* The invariant of Relay, with that of Admission, is inductive.
THEOREM RelayInvariant == Spec => []RelayInv
<1>1. Init => RelayInv
  BY RelayInitially
<1>2. ASSUME RelayInv, [Next]_vars PROVE RelayInv'
  <2>1. CASE AdmissionStep /\ UNCHANGED relay
    BY <1>2, <2>1, RelayInvAdmissionStep
  <2>2. ASSUME NEW f \in Forwards, UNCHANGED admission,
               \/ Ask(f) \/ AppSends(f) \/ AppEnds(f) \/ AppResets(f) \/ Forwarding(f)
               \/ TargetAccepts(f) \/ TargetRefuses(f) \/ TargetEnds(f) \/ HandlerFails(f)
               \/ Handling(f)
        PROVE  RelayInv'
    BY <1>2, <2>2, Asks, ForwardMoves, HandlerMoves, EndMoves, ByteMoves, Zenon
       DEF Forwarding, Handling
  <2>3. CASE UNCHANGED vars
    <3>1. UNCHANGED <<admission, fwd, via, port, hnd, reply, target, ends, put, wrote, got>>
      BY <2>3 DEF vars, relay, copies
    <3>2. AdmissionInv' /\ TypeOK'
      BY <1>2, <3>1, AdmissionStutter DEF RelayInv, AdmissionInv
    <3>3. RelayTypeOK'
      BY <1>2, <3>1, <3>2, Zenon DEF RelayInv, RelayTypeOK
    <3>4. CarriedOrUntouched'
      <4>1. \A f \in Forwards : Carried(f) => Carried(f)'
        BY <3>1, CarriedStays DEF Carried
      <4> QED BY <1>2, <3>1, <4>1 DEF RelayInv, CarriedOrUntouched, Untouched
    <3>5. Permitted' /\ OkMeansReached' /\ EndsInOrder'
      BY <1>2, <3>1 DEF RelayInv, Permitted, OkMeansReached, EndsInOrder
    <3>6. EndsAreReal'
      BY <1>2, <3>1, EndsStay DEF RelayInv, EndsAreReal
    <3> QED BY <3>2, <3>3, <3>4, <3>5, <3>6 DEF RelayInv
  <2> QED BY <1>2, <2>1, <2>2, <2>3 DEF Next, RelayStep
<1> QED BY <1>1, <1>2, PTL DEF Spec

\* Type correctness of Admission and Relay together.
THEOREM RelayTypeCorrect == Spec => []RelayTypeOK
<1>1. RelayInv => RelayTypeOK
  BY DEF RelayInv
<1> QED BY <1>1, RelayInvariant, PTL

\* ARCHITECTURE.md: "the server dials only its own loopback on the explicitly
\* listed ports".  Whatever is dialled was listed and was asked for by a
\* client with all three credentials, even if its tunnel is gone by now.
THEOREM OnlyPermittedDialled == Spec => []DialsPermittedOnly
<1>1. RelayInv => DialsPermittedOnly
  BY DEF RelayInv, DialsPermittedOnly, Permitted, CarriedOrUntouched, Untouched, Carried
<1> QED BY <1>1, RelayInvariant, PTL

\* forward_one relays only what handle_stream has connected.
THEOREM OnlyConnectedRelayed == Spec => []RelaysWhatIsConnected
<1>1. RelayInv => RelaysWhatIsConnected
  BY DEF RelayInv, RelaysWhatIsConnected, OkMeansReached
<1> QED BY <1>1, RelayInvariant, PTL

\* An end of input that is passed on over a standing tunnel between unbroken
\* relays is one: all bytes came before it.
THEOREM HalfClosesAreReal == Spec => []EndsAreReal
<1>1. RelayInv => EndsAreReal
  BY DEF RelayInv
<1> QED BY <1>1, RelayInvariant, PTL

====
